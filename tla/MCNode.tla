------------------------------- MODULE MCNode -------------------------------
EXTENDS Node, TLC

(* A file that sets neither thresholds nor the retention. *)
MCFile ==
  [general |-> [metrics |-> 30000, retention |-> 0],
   notify |-> [email |-> "complete"],
   checks |-> <<"c">>, peers |-> <<"p">>, alias |-> <<"me">>,
   thresholds |-> [cpu |-> 0, mem |-> 0, disk |-> 0]]
B(source, entity, enabled) ==
  [name |-> "r", enabled |-> enabled, source |-> source, entity |-> entity,
   comparator |-> "", threshold |-> 5, severity |-> ""]
(* A rule on all checks, one on this node's processor, muted. *)
MCBodies == {B("check_status", "", TRUE), B("cpu", "x", FALSE)}
MCGenerals == {[metrics |-> 1, retention |-> 1], [metrics |-> 0, retention |-> 1]}
MCNotifies == {[email |-> "off"], [email |-> "incomplete"]}
MCSubjects == [check_status |-> {"x"}, peer |-> {}, cpu |-> {}, mem |-> {}, disk |-> {}]
Symmetry == Permutations(Caller) \cup Permutations(Editor)
MCStarting == {<<>>, <<"a", "b">>}
=============================================================================
