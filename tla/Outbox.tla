------------------------------ MODULE Outbox ------------------------------
(***************************************************************************)
(* What the activity-first architecture promises about one registry, with  *)
(* the workflows, the webhooks and the sweep left out.  A service call     *)
(* only records an activity; somebody later brings about its effect; the   *)
(* activity is completed after its effect and never before.                *)
(***************************************************************************)
CONSTANT Activity      \* the activities that may be recorded

VARIABLES recorded,    \* activities in the registry
          effected,    \* recorded activities whose derived state is in place
          completed    \* activities an ActivityCompleted refers to

vars == <<recorded, effected, completed>>

TypeOK == /\ recorded \subseteq Activity
          /\ effected \subseteq recorded
          /\ completed \subseteq effected

Init == /\ recorded = {}
        /\ effected = {}
        /\ completed = {}

(* An activity that asks for nothing is in effect as soon as it is there.  *)
Record(a) == /\ a \notin recorded
             /\ recorded' = recorded \cup {a}
             /\ effected' \in {effected, effected \cup {a}}
             /\ UNCHANGED completed

Effect(a) == /\ a \in recorded \ effected
             /\ effected' = effected \cup {a}
             /\ UNCHANGED <<recorded, completed>>

Complete(a) == /\ a \in effected
               /\ completed' = completed \cup {a}
               /\ UNCHANGED <<recorded, effected>>

Next == \E a \in Activity : Record(a) \/ Effect(a) \/ Complete(a)

Spec == Init /\ [][Next]_vars
=============================================================================
