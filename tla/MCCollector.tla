------------------------------ MODULE MCCollector ------------------------------
EXTENDS Collector, TLC

U2 == {"a", "b"}
Between2(dt, units, ga, gb, reset, smart) ==
  [dt |-> dt, units |-> units, gain |-> ("a" :> ga) @@ ("b" :> gb),
   reset |-> reset, smart |-> smart]

(* Steady growth; idle; a unit gone and a reset; a report gone, no time passed. *)
MCReadings == {Between2(1, U2, 2, 1, {}, "old"), Between2(1, U2, 0, 0, {}, "old"),
               Between2(2, {"a"}, 3, 1, {"a"}, "new"), Between2(0, U2, 0, 0, {}, "absent")}
MCCanFail == {"metrics", "disk", "net", "iface", "cpu", "cores", "diskio", "proc",
              "raid", "smart"}
=============================================================================
