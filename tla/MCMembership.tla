---------------------------- MODULE MCMembership ----------------------------
EXTENDS Membership, TLC

N == {"a", "b", "c"}
(* Node a is known by two addresses, and by the label "l" besides. *)
MCNames == <<"a", "b", "c", "l">>
MCAddr == {"a1", "a2", "b1", "c1"}
MCOwner == ("a1" :> "a") @@ ("a2" :> "a") @@ ("b1" :> "b") @@ ("c1" :> "c")
MCAdvertise == ("a" :> "a1") @@ ("b" :> "b1") @@ ("c" :> "none")
MCSecret == ("a" :> 7) @@ ("b" :> 0) @@ ("c" :> 7)
R(url, secret) == [url |-> url, secret |-> secret, enabled |-> TRUE]
(* b was told of c and, under a label and at another address than the one  *)
(* it advertises, of a; c and a each have an old row of themselves.        *)
Links == ("a" :> ("a" :> R("a2", 0)))
      @@ ("b" :> (("c" :> R("c1", 7)) @@ ("l" :> R("a2", 7))))
      @@ ("c" :> ("c" :> R("c1", 0)))
MCTables == {Links}
E1(node, name, url, secret, muted) ==
  [node |-> node, name |-> name, url |-> url, secret |-> secret, muted |-> muted]
MCEdits == {E1("a", "b", "b1", 7, TRUE), E1("b", "a", "a2", 7, FALSE), E1("b", "l", "b1", 0, TRUE),
            E1("c", "l", "c1", 7, FALSE)}
=============================================================================
