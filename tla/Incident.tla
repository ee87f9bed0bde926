------------------------------ MODULE Incident ------------------------------
(***************************************************************************)
(* What the alert engine promises of each (rule, node, entity) it watches: *)
(* an incident is open or not; an alert is recorded when, and only when,   *)
(* one opens or closes while the process runs ("exactly ONE alert fires    *)
(* when a problem begins and exactly ONE when it recovers",                *)
(* internal/alert/alert.go).  Forgetting a deleted rule, entity or node    *)
(* closes its incidents without an alert; the first pass after a start     *)
(* sets afresh, silently, which incidents are open.                        *)
(***************************************************************************)
CONSTANTS Subject,   \* what can have an incident
          Forgettable \* sets of subjects that are forgotten together

VARIABLES open,      \* the subjects that have an incident
          record,    \* record[s]: the last alert recorded about s
          starting   \* whether the first pass after a start is not over

vars == <<open, record, starting>>

Init == /\ open = {}
        /\ record = [s \in Subject |-> "none"]
        /\ starting = TRUE

Open(s) == /\ ~ starting /\ s \notin open
           /\ open' = open \cup {s}
           /\ record' = [record EXCEPT ![s] = "firing"]
           /\ UNCHANGED starting

Close(s) == /\ ~ starting /\ s \in open
            /\ open' = open \ {s}
            /\ record' = [record EXCEPT ![s] = "recovered"]
            /\ UNCHANGED starting

Prime(s) == /\ starting
            /\ open' \in {open \cup {s}, open \ {s}}
            /\ UNCHANGED <<record, starting>>

Started == /\ starting
           /\ starting' = FALSE
           /\ UNCHANGED <<open, record>>

Forget(S) == /\ open' = open \ S
             /\ UNCHANGED <<record, starting>>

Restart == /\ open' = {}
           /\ starting' = TRUE
           /\ UNCHANGED record

Next == \/ \E s \in Subject : Open(s) \/ Close(s) \/ Prime(s)
        \/ \E S \in Forgettable : Forget(S)
        \/ Started
        \/ Restart

Spec == Init /\ [][Next]_vars
=============================================================================
