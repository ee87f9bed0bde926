------------------------------ MODULE MCMirror ------------------------------
EXTENDS Mirror, TLC

U2 == {"a", "b"}
Between2(dt, units, ga, gb, reset, smart) ==
  [dt |-> dt, units |-> units, gain |-> ("a" :> ga) @@ ("b" :> gb),
   reset |-> reset, smart |-> smart]

(* Both units busy; one gone and the other reset. *)
MCReadings == {Between2(1, U2, 2, 1, {}, "new"), Between2(1, {"a"}, 1, 0, {"a"}, "old")}
=============================================================================
