----------------------- MODULE AdminManagementProofs -----------------------
(***************************************************************************)
(* Proofs about AdminManagement.  The three records of who is an admin -   *)
(* the authorizations, the mark the gate looks for and the access control  *)
(* of the registry set - agree when the workflows are over, and the last   *)
(* admin stays, for any persons, activities and runs.                      *)
(*                                                                         *)
(* Each proof follows a run through its program counter: what the run has  *)
(* already done to its person's records at each pc, and that nobody else   *)
(* touches them meanwhile unless the person counts as muddled.             *)
(***************************************************************************)
EXTENDS AdminManagement, TLAPS, FiniteSetTheorems

(* What is told of, or swept, has been recorded.                            *)
NotesRecorded == inbox \cup sweep.todo \subseteq Recorded

(* A run carries a recorded activity, takes the steps of its kind, and      *)
(* deletes grants of its own person only.                                   *)
Shape(x) ==
  /\ x.act \in Recorded
  /\ x.pc \in {"store", "acr"} => x.act \in Addition /\ x.cur \in Scope
  /\ x.pc \in {"find", "delete"} => x.act \in Removal
  /\ \A g \in x.gone : g.grantee = wanted[x.act].grantee
  /\ x.act \in Addition /\ x.pc \notin {"record", "store", "acr", "failing"} => RegistrySet \notin x.todo

RunsShaped == \A r \in Run : run[r] = IdleRun \/ (run[r].pc # "idle" /\ Shape(run[r]))

Typed == TypeOK /\ NotesRecorded /\ RunsShaped

(* One run moves on with its activity and nothing else of the runs changes. *)
Moves(r, new) ==
  /\ new \in RunState
  /\ new.act = run[r].act
  /\ run' = [run EXCEPT ![r] = new]

-----------------------------------------------------------------------------
(* What the steps do to the run that takes them.                            *)

LEMMA WhoIsPerson ==
  ASSUME Typed, NEW r \in Run, run[r].pc # "idle"
  PROVE  /\ run[r].act \in Activity
         /\ wanted[run[r].act] \in Authorization
         /\ Of(r) \in Authorization
         /\ Who(r) \in Person
BY DEF Typed, TypeOK, RunsShaped, IdleRun, IdleRun, Shape, Recorded, Of, Who, Authorization

LEMMA GrantForType ==
  ASSUME Typed, NEW r \in Run, run[r].pc # "idle", NEW s \in Scope
  PROVE  /\ GrantFor(r, s) \in AdminGrant
         /\ GrantFor(r, s).grantee = Who(r)
         /\ GrantFor(r, s).scope = s
BY WhoIsPerson DEF GrantFor, AdminGrant

LEMMA GotoMoves ==
  ASSUME Typed, NEW r \in Run, NEW pc, Goto(r, pc),
         pc \in {"idle", "record", "store", "acr", "find", "delete", "read", "patch",
                 "list", "rewrite", "complete", "done", "failing"}
  PROVE  Moves(r, [run[r] EXCEPT !.pc = pc])
<1>1. run \in [Run -> RunState] /\ run[r] \in RunState
  BY DEF Typed, TypeOK
<1> DEFINE new == [run[r] EXCEPT !.pc = pc]
<1>2. new \in RunState /\ new.act = run[r].act
  BY <1>1 DEF RunState
<1>3. run' = [run EXCEPT ![r] = new]
  BY <1>1 DEF Goto
<1> HIDE DEF new
<1>4. Moves(r, new)
  BY <1>2, <1>3 DEF Moves
<1> QED BY <1>4 DEF new

LEMMA NextGrantMoves ==
  ASSUME Typed, NEW r \in Run, NEW state \in RunState, state.act = run[r].act,
         NextGrant(r, state)
  PROVE  \E new \in RunState :
           /\ Moves(r, new)
           /\ new.todo = state.todo /\ new.gone = state.gone
           /\ \/ new.pc = "store" /\ new.cur \in Scope
              \/ new.pc = "read" /\ new.todo = {}
<1>1. CASE RegistrySet \in state.todo
  <2> DEFINE new == [state EXCEPT !.pc = "store", !.cur = RegistrySet]
  <2>1. new \in RunState /\ new.act = state.act /\ new.todo = state.todo
           /\ new.gone = state.gone /\ new.pc = "store" /\ new.cur = RegistrySet
    BY DEF RunState, Scope
  <2>2. run' = [run EXCEPT ![r] = new]
    BY <1>1 DEF NextGrant
  <2> HIDE DEF new
  <2> QED BY <2>1, <2>2 DEF Moves, Scope
<1>2. CASE RegistrySet \notin state.todo /\ state.todo # {}
  <2>1. PICK s \in state.todo :
           run' = [run EXCEPT ![r] = [state EXCEPT !.pc = "store", !.cur = s]]
    BY <1>2 DEF NextGrant
  <2>2. s \in Scope
    BY <2>1 DEF RunState
  <2> DEFINE new == [state EXCEPT !.pc = "store", !.cur = s]
  <2>3. new \in RunState /\ new.act = state.act /\ new.todo = state.todo
           /\ new.gone = state.gone /\ new.pc = "store" /\ new.cur = s
    BY <2>2 DEF RunState
  <2>4. run' = [run EXCEPT ![r] = new]
    BY <2>1
  <2> HIDE DEF new
  <2> QED BY <2>2, <2>3, <2>4 DEF Moves
<1>3. CASE state.todo = {}
  <2> DEFINE new == [state EXCEPT !.pc = "read", !.cur = None]
  <2>1. new \in RunState /\ new.act = state.act /\ new.todo = state.todo
           /\ new.gone = state.gone /\ new.pc = "read"
    BY DEF RunState
  <2>2. run' = [run EXCEPT ![r] = new]
    BY <1>3 DEF NextGrant
  <2> HIDE DEF new
  <2> QED BY <1>3, <2>1, <2>2 DEF Moves
<1> QED BY <1>1, <1>2, <1>3

LEMMA StoreAdminAuthorizationEffect ==
  ASSUME Typed, NEW r \in Run, StoreAdminAuthorization(r)
  PROVE  /\ run[r].pc = "record" /\ run[r].act \in Addition
         /\ auths' = auths \cup {Of(r)} /\ kept' = kept \ {Of(r)}
         /\ lost' \in 0 .. MaxLost
         /\ \E new \in RunState :
              /\ Moves(r, new) /\ Shape(new)
              /\ \/ new.pc = "record"
                 \/ new.pc = "store" /\ new.todo = Scope
<1>0. run[r] \in RunState /\ Shape(run[r]) /\ lost \in 0 .. MaxLost
  BY DEF Typed, TypeOK, RunsShaped, IdleRun, StoreAdminAuthorization
<1>1. CASE Mishap /\ UNCHANGED run
  <2>1. Moves(r, run[r])
    BY <1>0, <1>1 DEF Moves, Typed, TypeOK
  <2>2. lost' \in 0 .. MaxLost
    BY <1>0, <1>1, LostAssumption DEF Mishap
  <2> QED BY <1>0, <2>1, <2>2 DEF StoreAdminAuthorization
<1>2. CASE NextGrant(r, [run[r] EXCEPT !.todo = Scope]) /\ UNCHANGED lost
  <2> DEFINE state == [run[r] EXCEPT !.todo = Scope]
  <2>1. state \in RunState /\ state.act = run[r].act /\ state.todo = Scope
          /\ state.gone = run[r].gone
    BY <1>0 DEF RunState
  <2>2. NextGrant(r, state)
    BY <1>2
  <2> HIDE DEF state
  <2>3. PICK new \in RunState :
           /\ Moves(r, new)
           /\ new.todo = state.todo /\ new.gone = state.gone
           /\ \/ new.pc = "store" /\ new.cur \in Scope
              \/ new.pc = "read" /\ new.todo = {}
    BY <2>1, <2>2, NextGrantMoves
  <2>4. new.pc = "store"
    BY <2>1, <2>3 DEF Scope
  <2>5. run[r].act \in Addition
    BY DEF StoreAdminAuthorization
  <2>6. Shape(new)
    BY <1>0, <2>1, <2>3, <2>4, <2>5 DEF Shape, Moves
  <2> QED BY <1>0, <1>2, <2>1, <2>3, <2>4, <2>6 DEF StoreAdminAuthorization
<1> QED BY <1>1, <1>2 DEF StoreAdminAuthorization

LEMMA DeleteAdminAuthorizationEffect ==
  ASSUME Typed, NEW r \in Run, DeleteAdminAuthorization(r)
  PROVE  /\ run[r].pc = "record" /\ run[r].act \in Removal
         /\ \/ auths' = auths \ {Of(r)} /\ kept' = kept \ {Of(r)}
            \/ Of(r) \in auths /\ auths' = auths /\ kept' = kept \cup {Of(r)}
         /\ lost' \in 0 .. MaxLost
         /\ muddled' = IF \E x \in auths \ {Of(r)} : x.grantee = Who(r)
                         THEN muddled \cup {Who(r)} ELSE muddled
         /\ \E new \in RunState :
              /\ Moves(r, new) /\ Shape(new)
              /\ new.pc = "find"
<1>0. run[r] \in RunState /\ Shape(run[r]) /\ run[r].act \in Removal
  BY DEF Typed, TypeOK, RunsShaped, IdleRun, DeleteAdminAuthorization
<1> DEFINE new == [run[r] EXCEPT !.pc = "find"]
<1>1. new \in RunState /\ new.pc = "find" /\ new.act = run[r].act /\ new.gone = run[r].gone
  BY <1>0 DEF RunState
<1>2. Goto(r, "find")
  BY DEF DeleteAdminAuthorization
<1>2a. Moves(r, new)
  BY <1>2, GotoMoves
<1> HIDE DEF new
<1>3. Shape(new)
  BY <1>0, <1>1, ActivityAssumption DEF Shape
<1>4. lost' \in 0 .. MaxLost
  BY LostAssumption DEF Typed, TypeOK, DeleteAdminAuthorization, Mishap
<1> QED BY <1>0, <1>1, <1>2a, <1>3, <1>4 DEF DeleteAdminAuthorization

LEMMA StoreAdminGrantEffect ==
  ASSUME Typed, NEW r \in Run, StoreAdminGrant(r)
  PROVE  /\ run[r].pc = "store" /\ run[r].act \in Addition /\ run[r].cur \in Scope
         /\ grants' = grants \cup {GrantFor(r, run[r].cur)}
         /\ lost' \in 0 .. MaxLost
         /\ \E new \in RunState :
              /\ Moves(r, new) /\ Shape(new)
              /\ new.pc \in {"store", "acr"} /\ new.cur = run[r].cur
              /\ new.todo = run[r].todo
<1>0. /\ run[r] \in RunState /\ Shape(run[r]) /\ lost \in 0 .. MaxLost
      /\ run[r].act \in Addition /\ run[r].cur \in Scope
  BY DEF Typed, TypeOK, RunsShaped, IdleRun, StoreAdminGrant, Shape
<1>1. CASE Mishap /\ UNCHANGED run
  <2>1. Moves(r, run[r])
    BY <1>0, <1>1 DEF Moves, Typed, TypeOK
  <2>2. lost' \in 0 .. MaxLost
    BY <1>0, <1>1, LostAssumption DEF Mishap
  <2> QED BY <1>0, <2>1, <2>2 DEF StoreAdminGrant
<1>2. CASE Goto(r, "acr") /\ UNCHANGED lost
  <2> DEFINE new == [run[r] EXCEPT !.pc = "acr"]
  <2>1. new \in RunState /\ new.pc = "acr" /\ new.act = run[r].act /\ new.gone = run[r].gone
          /\ new.cur = run[r].cur /\ new.todo = run[r].todo
    BY <1>0 DEF RunState
  <2>2. Goto(r, "acr")
    BY <1>2
  <2>2a. Moves(r, new)
    BY <2>2, GotoMoves
  <2> HIDE DEF new
  <2>3. Shape(new)
    BY <1>0, <2>1, ActivityAssumption DEF Shape
  <2> QED BY <1>0, <1>2, <2>1, <2>2a, <2>3 DEF StoreAdminGrant
<1> QED BY <1>1, <1>2 DEF StoreAdminGrant

LEMMA CreateAdminGrantAcrEffect ==
  ASSUME Typed, NEW r \in Run, CreateAdminGrantAcr(r)
  PROVE  /\ run[r].pc = "acr" /\ run[r].act \in Addition /\ run[r].cur \in Scope
         /\ acrs' = acrs \cup {GrantFor(r, run[r].cur)}
         /\ lost' \in 0 .. MaxLost
         /\ \E new \in RunState :
              /\ Moves(r, new) /\ Shape(new)
              /\ \/ new.pc = "acr" /\ new.cur = run[r].cur /\ new.todo = run[r].todo
                 \/ /\ new.pc \in {"store", "read"}
                    /\ new.todo = run[r].todo \ {run[r].cur}
<1>0. /\ run[r] \in RunState /\ Shape(run[r]) /\ lost \in 0 .. MaxLost
      /\ run[r].act \in Addition /\ run[r].cur \in Scope
  BY DEF Typed, TypeOK, RunsShaped, IdleRun, CreateAdminGrantAcr, Shape
<1>1. CASE Mishap /\ UNCHANGED run
  <2>1. Moves(r, run[r])
    BY <1>0, <1>1 DEF Moves, Typed, TypeOK
  <2>2. lost' \in 0 .. MaxLost
    BY <1>0, <1>1, LostAssumption DEF Mishap
  <2> QED BY <1>0, <2>1, <2>2 DEF CreateAdminGrantAcr
<1>2. CASE NextGrant(r, [run[r] EXCEPT !.todo = @ \ {run[r].cur}]) /\ UNCHANGED lost
  <2> DEFINE state == [run[r] EXCEPT !.todo = @ \ {run[r].cur}]
  <2>1. state \in RunState /\ state.act = run[r].act
          /\ state.todo = run[r].todo \ {run[r].cur} /\ state.gone = run[r].gone
    BY <1>0 DEF RunState
  <2>2. NextGrant(r, state)
    BY <1>2
  <2> HIDE DEF state
  <2>3. PICK new \in RunState :
           /\ Moves(r, new)
           /\ new.todo = state.todo /\ new.gone = state.gone
           /\ \/ new.pc = "store" /\ new.cur \in Scope
              \/ new.pc = "read" /\ new.todo = {}
    BY <2>1, <2>2, NextGrantMoves
  <2>4. Shape(new)
    BY <1>0, <2>1, <2>3 DEF Shape, Moves
  <2> QED BY <1>0, <1>2, <2>1, <2>3, <2>4 DEF CreateAdminGrantAcr
<1> QED BY <1>1, <1>2 DEF CreateAdminGrantAcr

LEMMA LossBounded ==
  ASSUME Typed, Mishap \/ UNCHANGED lost
  PROVE  lost' \in 0 .. MaxLost
BY LostAssumption DEF Typed, TypeOK, Mishap

(* Past the grants a run keeps its shape whichever way it moves on.         *)
LEMMA ShapeKept ==
  ASSUME Typed, NEW r \in Run, run[r].pc \notin {"idle", "record", "store", "acr", "failing"},
         NEW new, Moves(r, new), new.gone \subseteq run[r].gone, new.todo = run[r].todo,
         \/ new.pc \in {"read", "patch", "list", "rewrite", "complete", "done"}
         \/ new.pc = run[r].pc
  PROVE  Shape(new)
<1>1. Shape(run[r])
  BY DEF Typed, RunsShaped, IdleRun
<1> QED BY <1>1 DEF Shape, Moves

LEMMA FindAdminGrantsEffect ==
  ASSUME Typed, NEW r \in Run, FindAdminGrants(r)
  PROVE  /\ run[r].pc = "find" /\ run[r].act \in Removal
         /\ \E new \in RunState :
              /\ Moves(r, new) /\ Shape(new)
              /\ new.pc \in {"delete", "read"}
              /\ new.gone = {g \in grants : g.grantee = Who(r)}
              /\ new.pc = "read" => new.gone = {}
<1> DEFINE found == {g \in grants : g.grantee = Who(r)}
           to == IF found = {} THEN "read" ELSE "delete"
           new == [run[r] EXCEPT !.gone = found, !.pc = to]
<1>0. /\ run[r] \in RunState /\ run \in [Run -> RunState] /\ run[r].pc = "find"
      /\ Shape(run[r]) /\ found \subseteq AdminGrant
  BY DEF Typed, TypeOK, RunsShaped, IdleRun, FindAdminGrants
<1>1. to \in {"delete", "read"} /\ (to = "read" => found = {})
  OBVIOUS
<1>2. run' = [run EXCEPT ![r].gone = found, ![r].pc = to]
  BY DEF FindAdminGrants
<1>3. \A g \in found : g.grantee = Who(r)
  OBVIOUS
<1>4. found = {g \in grants : g.grantee = Who(r)}
  OBVIOUS
<1> HIDE DEF found, to
<1>5. /\ new \in RunState /\ new.act = run[r].act /\ new.pc = to /\ new.gone = found
      /\ new.todo = run[r].todo
  BY <1>0, <1>1 DEF RunState
<1>6. run' = [run EXCEPT ![r] = new]
  BY <1>0, <1>2
<1> HIDE DEF new
<1>7. Moves(r, new)
  BY <1>5, <1>6 DEF Moves
<1>8. Shape(new)
  BY <1>0, <1>1, <1>3, <1>5, ActivityAssumption DEF Shape, Who, Of
<1>9. run[r].act \in Removal
  BY <1>0 DEF Shape
<1> QED BY <1>0, <1>1, <1>4, <1>5, <1>7, <1>8, <1>9

LEMMA DeleteAdminGrantEffect ==
  ASSUME Typed, NEW r \in Run, DeleteAdminGrant(r)
  PROVE  /\ run[r].pc = "delete" /\ run[r].act \in Removal
         /\ \E g \in run[r].gone, new \in RunState :
              /\ grants' = grants \ {g} /\ acrs' = acrs \ {g} /\ g.grantee = Who(r)
              /\ Moves(r, new) /\ Shape(new)
              /\ new.gone = run[r].gone \ {g}
              /\ new.pc \in {"delete", "read"}
              /\ new.pc = "read" => new.gone = {}
<1>0. /\ run[r] \in RunState /\ run \in [Run -> RunState] /\ run[r].pc = "delete"
      /\ Shape(run[r]) /\ run[r].act \in Removal
  BY DEF Typed, TypeOK, RunsShaped, IdleRun, DeleteAdminGrant, Shape
<1>1. PICK g \in run[r].gone :
        /\ grants' = grants \ {g}
        /\ acrs' = acrs \ {g}
        /\ run' = [run EXCEPT ![r].gone = @ \ {g},
                              ![r].pc = IF run[r].gone = {g} THEN "read" ELSE @]
  BY DEF DeleteAdminGrant
<1>2. g.grantee = Who(r)
  BY <1>0, <1>1 DEF Shape, Who, Of
<1> DEFINE to == IF run[r].gone = {g} THEN "read" ELSE "delete"
           new == [run[r] EXCEPT !.gone = @ \ {g}, !.pc = to]
<1>3. to \in {"delete", "read"} /\ (to = "read" => run[r].gone \ {g} = {})
  OBVIOUS
<1>4. run' = [run EXCEPT ![r].gone = @ \ {g}, ![r].pc = to]
  BY <1>0, <1>1
<1> HIDE DEF to
<1>5. /\ new \in RunState /\ new.act = run[r].act /\ new.pc = to
      /\ new.gone = run[r].gone \ {g} /\ new.todo = run[r].todo
  BY <1>0, <1>3 DEF RunState
<1>6. run' = [run EXCEPT ![r] = new]
  BY <1>0, <1>4
<1> HIDE DEF new
<1>7. Moves(r, new)
  BY <1>5, <1>6 DEF Moves
<1>8. Shape(new)
  BY <1>0, <1>3, <1>5, <1>7, ShapeKept
<1> QED BY <1>0, <1>1, <1>2, <1>3, <1>5, <1>7, <1>8

LEMMA ReadMarksEffect ==
  ASSUME Typed, NEW r \in Run, ReadMarks(r)
  PROVE  /\ run[r].pc = "read"
         /\ \E new \in RunState :
              /\ Moves(r, new) /\ Shape(new)
              /\ new.pc = "patch" /\ new.read = marks[Who(r)] /\ new.todo = run[r].todo
<1>0. /\ run[r] \in RunState /\ run \in [Run -> RunState] /\ run[r].pc = "read"
      /\ marks[Who(r)] \subseteq AdminGrant
  BY WhoIsPerson DEF Typed, TypeOK, ReadMarks
<1> DEFINE new == [run[r] EXCEPT !.pc = "patch", !.read = marks[Who(r)]]
<1>1. /\ new \in RunState /\ new.act = run[r].act /\ new.pc = "patch"
      /\ new.read = marks[Who(r)] /\ new.todo = run[r].todo /\ new.gone = run[r].gone
  BY <1>0 DEF RunState
<1>2. run' = [run EXCEPT ![r] = new]
  BY <1>0 DEF ReadMarks
<1> HIDE DEF new
<1>3. Moves(r, new)
  BY <1>1, <1>2 DEF Moves
<1>4. Shape(new)
  BY <1>0, <1>1, <1>3, ShapeKept
<1> QED BY <1>0, <1>1, <1>3, <1>4

LEMMA PatchMarksEffect ==
  ASSUME Typed, NEW r \in Run, PatchMarks(r)
  PROVE  /\ run[r].pc = "patch"
         /\ marks' = [marks EXCEPT ![Who(r)] = (@ \ (run[r].read \ Target(r))) \cup Target(r)]
         /\ lost' \in 0 .. MaxLost
         /\ \E new \in RunState :
              /\ Moves(r, new) /\ Shape(new)
              /\ new.pc \in {"list", "read"} /\ new.todo = run[r].todo
<1>0. run[r] \in RunState /\ run[r].pc = "patch"
  BY DEF Typed, TypeOK, PatchMarks
<1>1. PICK pc \in {"list", "read"} : Goto(r, pc)
  BY DEF PatchMarks
<1> DEFINE new == [run[r] EXCEPT !.pc = pc]
<1>2. Moves(r, new)
  BY <1>1, GotoMoves
<1>3. new \in RunState /\ new.pc = pc /\ new.todo = run[r].todo /\ new.gone = run[r].gone
  BY <1>0, <1>1 DEF RunState
<1> HIDE DEF new
<1>4. Shape(new)
  BY <1>0, <1>2, <1>3, ShapeKept
<1>5. lost' \in 0 .. MaxLost
  BY LossBounded DEF PatchMarks
<1> QED BY <1>0, <1>2, <1>3, <1>4, <1>5 DEF PatchMarks

LEMMA ListAdminsEffect ==
  ASSUME Typed, NEW r \in Run, ListAdmins(r)
  PROVE  /\ run[r].pc = "list"
         /\ \E new \in RunState :
              /\ Moves(r, new) /\ Shape(new)
              /\ new.pc = "rewrite" /\ new.list = Admins /\ new.todo = run[r].todo
<1>0. /\ run[r] \in RunState /\ run \in [Run -> RunState] /\ run[r].pc = "list"
      /\ Admins \subseteq Person
  BY DEF Typed, TypeOK, ListAdmins, Admins, Authorization
<1> DEFINE new == [run[r] EXCEPT !.pc = "rewrite", !.list = Admins]
<1>1. /\ new \in RunState /\ new.act = run[r].act /\ new.pc = "rewrite"
      /\ new.list = Admins /\ new.todo = run[r].todo /\ new.gone = run[r].gone
  BY <1>0 DEF RunState
<1>2. run' = [run EXCEPT ![r] = new]
  BY <1>0 DEF ListAdmins
<1> HIDE DEF new
<1>3. Moves(r, new)
  BY <1>1, <1>2 DEF Moves
<1>4. Shape(new)
  BY <1>0, <1>1, <1>3, ShapeKept
<1> QED BY <1>0, <1>1, <1>3, <1>4

LEMMA RewriteAcrEffect ==
  ASSUME Typed, NEW r \in Run, RewriteAcr(r)
  PROVE  /\ run[r].pc = "rewrite"
         /\ fullAccess' = run[r].list /\ fullAccess' \subseteq Person
         /\ late' = (run[r].list # Admins)
         /\ lost' \in 0 .. MaxLost
         /\ \E new \in RunState :
              /\ Moves(r, new) /\ Shape(new)
              /\ new.pc \in {"complete", "list"} /\ new.todo = run[r].todo
<1>0. run[r] \in RunState /\ run[r].pc = "rewrite"
  BY DEF Typed, TypeOK, RewriteAcr
<1>1. PICK pc \in {"complete", "list"} : Goto(r, pc)
  BY DEF RewriteAcr
<1> DEFINE new == [run[r] EXCEPT !.pc = pc]
<1>2. Moves(r, new)
  BY <1>1, GotoMoves
<1>3. new \in RunState /\ new.pc = pc /\ new.todo = run[r].todo /\ new.gone = run[r].gone
  BY <1>0, <1>1 DEF RunState
<1> HIDE DEF new
<1>4. Shape(new)
  BY <1>0, <1>2, <1>3, ShapeKept
<1>5. lost' \in 0 .. MaxLost
  BY LossBounded DEF RewriteAcr
<1>6. run[r].list \subseteq Person
  BY <1>0 DEF RunState
<1> QED BY <1>0, <1>2, <1>3, <1>4, <1>5, <1>6 DEF RewriteAcr

LEMMA MarkDoneEffect ==
  ASSUME Typed, NEW r \in Run, MarkDone(r)
  PROVE  /\ run[r].pc = "complete"
         /\ done' = done \cup {run[r].act}
         /\ lost' \in 0 .. MaxLost
         /\ \E new \in RunState :
              /\ Moves(r, new) /\ Shape(new)
              /\ new.pc \in {"complete", "done"} /\ new.todo = run[r].todo
<1>0. run[r] \in RunState /\ run[r].pc = "complete" /\ Shape(run[r]) /\ run \in [Run -> RunState]
  BY DEF Typed, TypeOK, RunsShaped, IdleRun, MarkDone
<1>1. lost' \in 0 .. MaxLost
  BY LossBounded DEF MarkDone
<1>2. CASE Goto(r, "done")
  <2> DEFINE new == [run[r] EXCEPT !.pc = "done"]
  <2>1. Moves(r, new)
    BY <1>2, GotoMoves
  <2>2. new \in RunState /\ new.pc = "done" /\ new.todo = run[r].todo /\ new.gone = run[r].gone
    BY <1>0 DEF RunState
  <2> HIDE DEF new
  <2>3. Shape(new)
    BY <1>0, <2>1, <2>2, ShapeKept
  <2> QED BY <1>0, <1>1, <2>1, <2>2, <2>3 DEF MarkDone
<1>3. CASE UNCHANGED run
  <2>1. Moves(r, run[r])
    BY <1>0, <1>3 DEF Moves
  <2> QED BY <1>0, <1>1, <2>1 DEF MarkDone
<1> QED BY <1>2, <1>3 DEF MarkDone

LEMMA FailAlwaysEffect ==
  ASSUME Typed, NEW r \in Run, FailAlways(r)
  PROVE  /\ run[r].pc \in {"acr", "rewrite"}
         /\ lost' \in 0 .. MaxLost
         /\ \E new \in RunState :
              Moves(r, new) /\ Shape(new) /\ new.pc = "failing" /\ new.todo = run[r].todo
<1>0. run[r] \in RunState /\ run[r].pc \in {"acr", "rewrite"} /\ Shape(run[r])
  BY DEF Typed, TypeOK, RunsShaped, IdleRun, FailAlways
<1> DEFINE new == [run[r] EXCEPT !.pc = "failing"]
<1>1. Goto(r, "failing")
  BY DEF FailAlways
<1>2. Moves(r, new)
  BY <1>1, GotoMoves
<1>3. /\ new \in RunState /\ new.pc = "failing" /\ new.todo = run[r].todo
      /\ new.gone = run[r].gone /\ new.act = run[r].act
  BY <1>0 DEF RunState
<1> HIDE DEF new
<1>4. Shape(new)
  BY <1>0, <1>3, ActivityAssumption DEF Shape
<1>5. lost' \in 0 .. MaxLost
  BY LossBounded DEF FailAlways
<1> QED BY <1>0, <1>2, <1>3, <1>4, <1>5

(* Whatever step a run takes, only its own record moves on, by the shape of *)
(* a run; the outbox and the sweep see completions at most.                 *)
LEMMA RunStepFrame ==
  ASSUME Typed, NEW r \in Run, RunStep(r)
  PROVE  /\ UNCHANGED <<wanted, inbox, sweep, hurried>>
         /\ Active(r)
         /\ done' = done \/ done' = done \cup {run[r].act}
         /\ \E new \in RunState : Moves(r, new) /\ Shape(new) /\ new.pc \notin {"idle"}
<1>1. CASE StoreAdminAuthorization(r)
  BY <1>1, StoreAdminAuthorizationEffect DEF StoreAdminAuthorization, Active, outboxVars, history
<1>2. CASE DeleteAdminAuthorization(r)
  BY <1>2, DeleteAdminAuthorizationEffect DEF DeleteAdminAuthorization, Active, outboxVars
<1>3. CASE StoreAdminGrant(r)
  BY <1>3, StoreAdminGrantEffect DEF StoreAdminGrant, Active, outboxVars, history
<1>4. CASE CreateAdminGrantAcr(r)
  BY <1>4, CreateAdminGrantAcrEffect DEF CreateAdminGrantAcr, Active, outboxVars, history
<1>5. CASE FindAdminGrants(r)
  BY <1>5, FindAdminGrantsEffect DEF FindAdminGrants, Active, outboxVars, history
<1>6. CASE DeleteAdminGrant(r)
  BY <1>6, DeleteAdminGrantEffect DEF DeleteAdminGrant, Active, outboxVars, history
<1>7. CASE ReadMarks(r)
  BY <1>7, ReadMarksEffect DEF ReadMarks, Active, outboxVars, history
<1>8. CASE PatchMarks(r)
  BY <1>8, PatchMarksEffect DEF PatchMarks, Active, outboxVars, history
<1>9. CASE ListAdmins(r)
  BY <1>9, ListAdminsEffect DEF ListAdmins, Active, outboxVars, history
<1>10. CASE RewriteAcr(r)
  BY <1>10, RewriteAcrEffect DEF RewriteAcr, Active, outboxVars
<1>11. CASE MarkDone(r)
  BY <1>11, MarkDoneEffect DEF MarkDone, Active, history
<1>12. CASE FailAlways(r)
  BY <1>12, FailAlwaysEffect DEF FailAlways, Active, outboxVars, history
<1> QED
  BY <1>1, <1>2, <1>3, <1>4, <1>5, <1>6, <1>7, <1>8, <1>9, <1>10, <1>11, <1>12 DEF RunStep

LEMMA MovesKeepShape ==
  ASSUME Typed, NEW r \in Run, NEW new, Moves(r, new), Shape(new), new.pc # "idle",
         wanted' = wanted
  PROVE  run' \in [Run -> RunState] /\ RunsShaped'
<1>1. run' \in [Run -> RunState]
  BY DEF Typed, TypeOK, Moves
<1>2. \A q \in Run : run'[q] = IF q = r THEN new ELSE run[q]
  BY DEF Typed, TypeOK, Moves
<1>3. ASSUME NEW q \in Run
      PROVE  run'[q] = IdleRun \/ (run'[q].pc # "idle" /\ Shape(run[q])')
  <2>1. CASE q = r
    BY <1>2, <2>1 DEF Shape, Recorded
  <2>2. CASE q # r
    BY <1>2, <2>2 DEF Shape, Recorded, Typed, RunsShaped
  <2> QED BY <2>1, <2>2
<1> QED BY <1>1, <1>3 DEF RunsShaped

LEMMA RunStepTyped ==
  ASSUME Typed, NEW r \in Run, RunStep(r)
  PROVE  Typed'
<1>1. PICK new \in RunState : Moves(r, new) /\ Shape(new) /\ new.pc \notin {"idle"}
  BY RunStepFrame
<1>2. UNCHANGED <<wanted, inbox, sweep, hurried>> /\ run[r].pc # "idle"
      /\ (done' = done \/ done' = done \cup {run[r].act})
  BY RunStepFrame DEF Active
<1>3. run' \in [Run -> RunState] /\ RunsShaped'
  BY <1>1, <1>2, MovesKeepShape
<1>4. /\ wanted' \in [Activity -> Authorization \cup {None}]
      /\ sweep' \in [todo : SUBSET Activity, on : Run \cup {None}]
      /\ hurried' \in BOOLEAN
  BY <1>2 DEF Typed, TypeOK
<1>5. NotesRecorded'
  BY <1>2 DEF Typed, NotesRecorded, Recorded
<1>6. run[r].act \in Recorded /\ Recorded' = Recorded
  BY <1>2 DEF Typed, RunsShaped, IdleRun, Shape, Recorded
<1>7. done' \cup inbox' \subseteq {a \in Activity : wanted'[a] # None}
  BY <1>2, <1>6 DEF Typed, TypeOK, Recorded
<1>8. /\ auths' \subseteq Authorization /\ grants' \subseteq AdminGrant
      /\ acrs' \subseteq AdminGrant /\ marks' \in [Person -> SUBSET AdminGrant]
      /\ fullAccess' \subseteq Person /\ kept' \subseteq Authorization
      /\ lost' \in 0 .. MaxLost /\ muddled' \subseteq Person /\ late' \in BOOLEAN
  <2> USE WhoIsPerson, <1>2
  <2>0. /\ auths \subseteq Authorization /\ grants \subseteq AdminGrant
        /\ acrs \subseteq AdminGrant /\ marks \in [Person -> SUBSET AdminGrant]
        /\ fullAccess \subseteq Person /\ kept \subseteq Authorization
        /\ lost \in 0 .. MaxLost /\ muddled \subseteq Person /\ late \in BOOLEAN
    BY DEF Typed, TypeOK
  <2>1. CASE StoreAdminAuthorization(r)
    BY <2>0, <2>1, StoreAdminAuthorizationEffect DEF StoreAdminAuthorization, history
  <2>2. CASE DeleteAdminAuthorization(r)
    BY <2>0, <2>2, DeleteAdminAuthorizationEffect DEF DeleteAdminAuthorization
  <2>3. CASE StoreAdminGrant(r)
    <3>1. GrantFor(r, run[r].cur) \in AdminGrant
      BY <2>3, StoreAdminGrantEffect, GrantForType
    <3> QED BY <2>0, <2>3, <3>1, StoreAdminGrantEffect DEF StoreAdminGrant, history
  <2>4. CASE CreateAdminGrantAcr(r)
    <3>1. GrantFor(r, run[r].cur) \in AdminGrant
      BY <2>4, CreateAdminGrantAcrEffect, GrantForType
    <3> QED BY <2>0, <2>4, <3>1, CreateAdminGrantAcrEffect DEF CreateAdminGrantAcr, history
  <2>5. CASE FindAdminGrants(r)
    BY <2>0, <2>5 DEF FindAdminGrants, registryVars, history
  <2>6. CASE DeleteAdminGrant(r)
    BY <2>0, <2>6 DEF DeleteAdminGrant, history
  <2>7. CASE ReadMarks(r)
    BY <2>0, <2>7 DEF ReadMarks, registryVars, history
  <2>8. CASE PatchMarks(r)
    <3>1. Target(r) \subseteq AdminGrant
      BY GrantForType DEF Target, Scope
    <3> DEFINE ms == (marks[Who(r)] \ (run[r].read \ Target(r))) \cup Target(r)
    <3>2. ms \in SUBSET AdminGrant
      BY <2>0, <3>1
    <3>3. marks' = [marks EXCEPT ![Who(r)] = ms]
      BY <2>0, <2>8, PatchMarksEffect
    <3> HIDE DEF ms
    <3> QED BY <2>0, <2>8, <3>2, <3>3, PatchMarksEffect DEF PatchMarks, history
  <2>9. CASE ListAdmins(r)
    BY <2>0, <2>9 DEF ListAdmins, registryVars, history
  <2>10. CASE RewriteAcr(r)
    BY <2>0, <2>10, RewriteAcrEffect DEF RewriteAcr
  <2>11. CASE MarkDone(r)
    BY <2>0, <2>11, MarkDoneEffect DEF MarkDone, registryVars, history
  <2>12. CASE FailAlways(r)
    BY <2>0, <2>12, FailAlwaysEffect DEF FailAlways, registryVars, history
  <2> QED
    BY <2>1, <2>2, <2>3, <2>4, <2>5, <2>6, <2>7, <2>8, <2>9, <2>10, <2>11, <2>12 DEF RunStep
<1> QED BY <1>3, <1>4, <1>5, <1>7, <1>8 DEF Typed, TypeOK

LEMMA RecordEffect ==
  ASSUME Typed, NEW a \in Activity, NEW x \in Authorization, Record(a, x)
  PROVE  /\ a \notin Recorded
         /\ wanted' = [wanted EXCEPT ![a] = x]
         /\ Recorded' = Recorded \cup {a}
         /\ \A b \in Recorded : wanted'[b] = wanted[b]
BY NoneAssumption DEF Typed, TypeOK, Record, Recorded

LEMMA RecordTyped ==
  ASSUME Typed, NEW a \in Activity, NEW x \in Authorization, Record(a, x),
         hurried' \in BOOLEAN
  PROVE  Typed'
<1>1. /\ a \notin Recorded /\ Recorded' = Recorded \cup {a}
      /\ wanted' = [wanted EXCEPT ![a] = x]
      /\ \A b \in Recorded : wanted'[b] = wanted[b]
  BY RecordEffect
<1>2. UNCHANGED <<registryVars, done, run, sweep, lost, kept, muddled, late>> /\ inbox' = inbox \cup {a}
  BY DEF Record
<1>3. RunsShaped'
  <2>1. ASSUME NEW r \in Run, Shape(run[r])
        PROVE  Shape(run[r])'
    BY <1>1, <1>2, <2>1 DEF Shape
  <2> QED BY <1>2, <2>1 DEF Typed, RunsShaped
<1>4. NotesRecorded'
  BY <1>1, <1>2 DEF Typed, NotesRecorded
<1>5. wanted' \in [Activity -> Authorization \cup {None}]
  BY <1>1 DEF Typed, TypeOK
<1>6. done' \cup inbox' \subseteq Recorded'
  BY <1>1, <1>2 DEF Typed, TypeOK, Recorded
<1> QED BY <1>2, <1>3, <1>4, <1>5, <1>6 DEF Typed, TypeOK, registryVars, Recorded

(* A run begins with nothing done yet.                                      *)
LEMMA StartRunEffect ==
  ASSUME Typed, NEW r \in Run, NEW a \in Recorded, StartRun(r, a)
  PROVE  /\ run[r].pc = "idle"
         /\ wanted[a].grantee \in Person
         /\ \E new \in RunState :
              /\ run' = [run EXCEPT ![r] = new]
              /\ new.pc = "record" /\ new.act = a
              /\ Shape(new)
         /\ muddled' = IF \E q \in Run : Active(q) /\ Who(q) = wanted[a].grantee
                         THEN muddled \cup {wanted[a].grantee} ELSE muddled
<1>1. run[r].pc = "idle" /\ run[r] = IdleRun /\ a \in Activity /\ run \in [Run -> RunState]
  BY DEF StartRun, Typed, TypeOK, RunsShaped, Recorded
<1>2. wanted[a].grantee \in Person
  BY DEF Typed, TypeOK, Recorded, Authorization
<1> DEFINE new == [run[r] EXCEPT !.pc = "record", !.act = a]
<1>3. run[r] \in RunState /\ run[r].gone = {}
  BY <1>1 DEF IdleRun
<1>4. new \in RunState /\ new.pc = "record" /\ new.act = a /\ new.gone = {}
  BY <1>1, <1>3 DEF RunState
<1>5. run' = [run EXCEPT ![r] = new]
  BY <1>1 DEF StartRun
<1> HIDE DEF new
<1>6. Shape(new)
  BY <1>4 DEF Shape
<1> QED BY <1>1, <1>2, <1>4, <1>5, <1>6 DEF StartRun

LEMMA StartRunTyped ==
  ASSUME Typed, NEW r \in Run, NEW a \in Recorded, StartRun(r, a),
         inbox' \subseteq inbox, done' = done,
         sweep' \in [todo : SUBSET Activity, on : Run \cup {None}],
         sweep'.todo \subseteq sweep.todo
  PROVE  Typed'
<1>1. PICK new \in RunState :
        /\ run' = [run EXCEPT ![r] = new]
        /\ new.pc = "record" /\ new.act = a
        /\ Shape(new)
  BY StartRunEffect
<1>2. UNCHANGED <<registryVars, wanted, lost, kept, late, hurried>>
  BY DEF StartRun
<1>3. \A q \in Run : run'[q] = IF q = r THEN new ELSE run[q]
  BY <1>1 DEF Typed, TypeOK
<1>4. run' \in [Run -> RunState]
  BY <1>1 DEF Typed, TypeOK
<1>5. RunsShaped'
  BY <1>1, <1>2, <1>3 DEF Typed, RunsShaped, Shape, Recorded
<1>6. NotesRecorded'
  BY <1>2 DEF Typed, NotesRecorded, Recorded
<1>7. muddled' \subseteq Person
  BY StartRunEffect DEF Typed, TypeOK
<1> QED BY <1>2, <1>4, <1>5, <1>6, <1>7 DEF Typed, TypeOK, registryVars, Recorded

LEMMA StartSweepTyped ==
  ASSUME Typed, StartSweep
  PROVE  Typed'
<1>1. sweep' = [sweep EXCEPT !.todo = Recorded \ done] /\ sweep \in [todo : SUBSET Activity, on : Run \cup {None}]
  BY DEF StartSweep, Typed, TypeOK
<1>2. sweep' \in [todo : SUBSET Activity, on : Run \cup {None}] /\ sweep'.todo \subseteq Recorded
  BY <1>1 DEF Recorded
<1>3. UNCHANGED <<registryVars, outboxVars, run, lost, history>>
  BY DEF StartSweep
<1> QED
  BY <1>2, <1>3
  DEF Typed, TypeOK, RunsShaped, Shape, NotesRecorded, Recorded, registryVars, outboxVars, history

LEMMA FinishRerunTyped ==
  ASSUME Typed, FinishRerun
  PROVE  Typed'
<1>1. /\ sweep' = [sweep EXCEPT !.on = None]
      /\ sweep \in [todo : SUBSET Activity, on : Run \cup {None}]
      /\ sweep.on \in Run /\ run[sweep.on].pc = "done"
      /\ done' = done \cup {run[sweep.on].act}
  BY DEF FinishRerun, Typed, TypeOK
<1>2. sweep' \in [todo : SUBSET Activity, on : Run \cup {None}] /\ sweep'.todo = sweep.todo
  BY <1>1
<1>3. UNCHANGED <<registryVars, wanted, inbox, run, lost, history>>
  BY DEF FinishRerun
<1>4. run[sweep.on].act \in Recorded
  BY <1>1 DEF Typed, RunsShaped, IdleRun, Shape
<1>5. done' \cup inbox' \subseteq Recorded'
  BY <1>1, <1>3, <1>4 DEF Typed, TypeOK, Recorded
<1> QED
  BY <1>1, <1>2, <1>3, <1>5
  DEF Typed, TypeOK, RunsShaped, Shape, NotesRecorded, Recorded, registryVars, history

LEMMA InitTyped == Init => Typed
<1> SUFFICES ASSUME Init PROVE Typed
  OBVIOUS
<1> USE DEF Init
<1>1. wanted \in [Activity -> Authorization \cup {None}] /\ Recorded = {}
  BY DEF Recorded
<1>2. auths \subseteq Authorization /\ grants \subseteq AdminGrant /\ acrs \subseteq AdminGrant
  BY FounderAssumption DEF Authorization, AdminGrant
<1>3. marks \in [Person -> SUBSET AdminGrant]
  BY DEF FoundingGrant, AdminGrant, Scope
<1>4. IdleRun \in RunState
  BY DEF IdleRun, RunState
<1>5. run \in [Run -> RunState] /\ RunsShaped
  BY <1>4 DEF RunsShaped
<1>6. sweep \in [todo : SUBSET Activity, on : Run \cup {None}] /\ NotesRecorded
  BY DEF NotesRecorded
<1>7. lost \in 0 .. MaxLost /\ fullAccess \subseteq Person /\ muddled \subseteq Person
      /\ done \cup inbox \subseteq {a \in Activity : wanted[a] # None}
  BY FounderAssumption, LostAssumption
<1>8. late \in BOOLEAN /\ hurried \in BOOLEAN
  OBVIOUS
<1> QED
  BY <1>1, <1>2, <1>3, <1>5, <1>6, <1>7, <1>8 DEF Typed, TypeOK

LEMMA NextTyped == Typed /\ [Next]_vars => Typed'
<1> SUFFICES ASSUME Typed, [Next]_vars PROVE Typed'
  OBVIOUS
<1>1. ASSUME NEW a \in Addition, NEW p \in Person, AddAdmin(a, p)
      PROVE  Typed'
  <2>1. [grantee |-> p, id |-> a] \in Authorization /\ a \in Activity
    BY DEF Authorization, Activity
  <2>2. hurried' \in BOOLEAN
    BY <1>1 DEF AddAdmin, Typed, TypeOK
  <2> QED BY <1>1, <2>1, <2>2, RecordTyped DEF AddAdmin
<1>2. ASSUME NEW a \in Removal, NEW x \in Authorization, RemoveAdmin(a, x)
      PROVE  Typed'
  <2>1. a \in Activity
    BY DEF Activity
  <2>2. hurried' \in BOOLEAN
    BY <1>2 DEF RemoveAdmin, Typed, TypeOK
  <2> QED BY <1>2, <2>1, <2>2, RecordTyped DEF RemoveAdmin
<1>3. ASSUME NEW a \in Activity, NEW r \in Run, Deliver(a, r)
      PROVE  Typed'
  <2>1. a \in Recorded
    BY <1>3 DEF Deliver, Typed, NotesRecorded
  <2> QED BY <1>3, <2>1, StartRunTyped DEF Deliver, Typed, TypeOK
<1>4. ASSUME NEW r \in Run, RunStep(r)
      PROVE  Typed'
  BY <1>4, RunStepTyped
<1>5. ASSUME NEW r \in Run, Rerun(r)
      PROVE  Typed'
  <2>1. PICK a \in sweep.todo : StartRun(r, a) /\ sweep' = [todo |-> sweep.todo \ {a}, on |-> r]
    BY <1>5 DEF Rerun
  <2>2. a \in Recorded /\ sweep.todo \subseteq Activity
    BY DEF Typed, NotesRecorded, TypeOK
  <2> QED BY <1>5, <2>1, <2>2, StartRunTyped DEF Rerun
<1>6. CASE StartSweep
  BY <1>6, StartSweepTyped
<1>7. CASE FinishRerun
  BY <1>7, FinishRerunTyped
<1>8. CASE UNCHANGED vars
  BY <1>8
  DEF Typed, TypeOK, RunsShaped, Shape, NotesRecorded, Recorded, vars, registryVars, outboxVars, history
<1> QED BY <1>1, <1>2, <1>3, <1>4, <1>5, <1>6, <1>7, <1>8 DEF Next

LEMMA AlwaysTyped == Spec => []Typed
BY InitTyped, NextTyped, PTL DEF Spec

(* The outbox, the sweep and the runs only ever speak of activities that    *)
(* have been recorded, and the registry holds what its types say.           *)
THEOREM AdminTypeCorrect == Spec => []TypeOK
<1>1. Typed => TypeOK
  BY DEF Typed
<1> QED BY AlwaysTyped, <1>1, PTL

-----------------------------------------------------------------------------
(* The access control of the registry set.                                  *)

(* A run that may have changed the authorizations and has yet to rewrite    *)
(* the access control.                                                      *)
Unwritten(r) == run[r].pc \notin {"idle", "complete", "done"}

(* The control names the admins there are unless the last rewrite was late  *)
(* or another rewrite is to come.                                           *)
AccessInv == late \/ (\E r \in Run : Unwritten(r)) \/ fullAccess = Admins

LEMMA AccessRunStep ==
  ASSUME Typed, AccessInv, NEW r \in Run, RunStep(r)
  PROVE  AccessInv'
<1>1. ASSUME NEW new, Moves(r, new), new.pc \notin {"idle", "complete", "done"}
      PROVE  AccessInv'
  <2>1. run'[r] = new
    BY <1>1 DEF Moves, Typed, TypeOK
  <2> QED BY <1>1, <2>1 DEF AccessInv, Unwritten
<1>2. CASE StoreAdminAuthorization(r)
  BY <1>1, <1>2, StoreAdminAuthorizationEffect
<1>3. CASE DeleteAdminAuthorization(r)
  BY <1>1, <1>3, DeleteAdminAuthorizationEffect
<1>4. CASE StoreAdminGrant(r)
  BY <1>1, <1>4, StoreAdminGrantEffect
<1>5. CASE CreateAdminGrantAcr(r)
  BY <1>1, <1>5, CreateAdminGrantAcrEffect
<1>6. CASE FindAdminGrants(r)
  BY <1>1, <1>6, FindAdminGrantsEffect
<1>7. CASE DeleteAdminGrant(r)
  BY <1>1, <1>7, DeleteAdminGrantEffect
<1>8. CASE ReadMarks(r)
  BY <1>1, <1>8, ReadMarksEffect
<1>9. CASE PatchMarks(r)
  BY <1>1, <1>9, PatchMarksEffect
<1>10. CASE ListAdmins(r)
  BY <1>1, <1>10, ListAdminsEffect
<1>11. CASE RewriteAcr(r)
  <2>1. fullAccess' = run[r].list /\ late' = (run[r].list # Admins)
    BY <1>11, RewriteAcrEffect
  <2>2. Admins' = Admins
    BY <1>11 DEF RewriteAcr, Admins
  <2>3. late' \/ fullAccess' = Admins'
    BY <2>1, <2>2
  <2> QED BY <2>3 DEF AccessInv
<1>12. CASE MarkDone(r)
  <2>1. run[r].pc = "complete" /\ \A q \in Run \ {r} : run'[q] = run[q]
    BY <1>12, MarkDoneEffect DEF Moves, Typed, TypeOK
  <2>2. \A q \in Run : Unwritten(q) => Unwritten(q)'
    BY <2>1 DEF Unwritten
  <2>3. UNCHANGED <<late, fullAccess, auths>>
    BY <1>12 DEF MarkDone, registryVars, history
  <2> QED BY <2>2, <2>3 DEF AccessInv, Admins
<1>13. CASE FailAlways(r)
  BY <1>1, <1>13, FailAlwaysEffect
<1> QED
  BY <1>2, <1>3, <1>4, <1>5, <1>6, <1>7, <1>8, <1>9, <1>10, <1>11, <1>12, <1>13 DEF RunStep

LEMMA AccessStartRun ==
  ASSUME Typed, NEW r \in Run, NEW a \in Recorded, StartRun(r, a)
  PROVE  AccessInv'
<1>1. PICK new \in RunState : run' = [run EXCEPT ![r] = new] /\ new.pc = "record"
  BY StartRunEffect
<1>2. run'[r] = new
  BY <1>1 DEF Typed, TypeOK
<1> QED BY <1>1, <1>2 DEF AccessInv, Unwritten

LEMMA AccessNext == Typed /\ AccessInv /\ [Next]_vars => AccessInv'
<1> SUFFICES ASSUME Typed, AccessInv, [Next]_vars PROVE AccessInv'
  OBVIOUS
<1>0. ASSUME UNCHANGED <<late, fullAccess, auths, run>>
      PROVE  AccessInv'
  BY <1>0 DEF AccessInv, Unwritten, Admins
<1>1. ASSUME NEW a \in Addition, NEW p \in Person, AddAdmin(a, p)
      PROVE  AccessInv'
  BY <1>0, <1>1 DEF AddAdmin, Record, registryVars
<1>2. ASSUME NEW a \in Removal, NEW x \in Authorization, RemoveAdmin(a, x)
      PROVE  AccessInv'
  BY <1>0, <1>2 DEF RemoveAdmin, Record, registryVars
<1>3. ASSUME NEW a \in Activity, NEW r \in Run, Deliver(a, r)
      PROVE  AccessInv'
  <2>1. a \in Recorded
    BY <1>3 DEF Deliver, Typed, NotesRecorded
  <2> QED BY <1>3, <2>1, AccessStartRun DEF Deliver
<1>4. ASSUME NEW r \in Run, RunStep(r)
      PROVE  AccessInv'
  BY <1>4, AccessRunStep
<1>5. ASSUME NEW r \in Run, Rerun(r)
      PROVE  AccessInv'
  <2>1. PICK a \in sweep.todo : StartRun(r, a)
    BY <1>5 DEF Rerun
  <2>2. a \in Recorded
    BY DEF Typed, NotesRecorded
  <2> QED BY <2>1, <2>2, AccessStartRun
<1>6. CASE StartSweep
  BY <1>0, <1>6 DEF StartSweep, registryVars, history
<1>7. CASE FinishRerun
  BY <1>0, <1>7 DEF FinishRerun, registryVars, history
<1>8. CASE UNCHANGED vars
  BY <1>0, <1>8 DEF vars, registryVars, history
<1> QED BY <1>1, <1>2, <1>3, <1>4, <1>5, <1>6, <1>7, <1>8 DEF Next

LEMMA FoundersAreAdmins == Init => Admins = Founder
<1> SUFFICES ASSUME Init PROVE Admins = Founder
  OBVIOUS
<1>1. auths = [grantee : Founder, id : {None}]
  BY DEF Init
<1>2. ASSUME NEW p \in Founder
      PROVE  p \in Admins
  <2>1. [grantee |-> p, id |-> None] \in auths
    BY <1>1
  <2> QED BY <2>1 DEF Admins
<1>3. Admins \subseteq Founder
  BY <1>1 DEF Admins
<1> QED BY <1>2, <1>3

(* syncAdminAcr: once the workflows are over, the agents of the registry    *)
(* set's full access are exactly the admins the authorizations name, in     *)
(* whatever order additions and removals came, unless the last rewrite      *)
(* wrote a list that was out of date.                                       *)
THEOREM AdminAccessCurrent == Spec => []AccessMatchesAuthorizations
<1>1. Init => AccessInv
  BY FoundersAreAdmins DEF Init, AccessInv
<1>2. AccessInv => AccessMatchesAuthorizations
  BY DEF AccessInv, AccessMatchesAuthorizations, Quiet, Active, Unwritten
<1> QED BY <1>1, <1>2, AlwaysTyped, AccessNext, PTL DEF Spec

-----------------------------------------------------------------------------
(* The last admin.                                                          *)

(* Unless a removal was recorded before another was over, at most one has   *)
(* yet to delete, and it leaves an authorization behind.                    *)
LastInv ==
  \/ hurried
  \/ Personal
  \/ /\ auths # {}
     /\ \A a, b \in Removal : Deletes(a) /\ Deletes(b) => a = b
     /\ \A a \in Removal : Deletes(a) => auths \ {wanted[a]} # {}

(* Nothing but a recording gives a removal something to delete.             *)
LastKept ==
  /\ UNCHANGED <<wanted, hurried>>
  /\ \A a \in Removal : Deletes(a)' => Deletes(a)

LEMMA StillOneAdmin ==
  ASSUME LastInv, LastKept, auths \subseteq auths'
  PROVE  LastInv'
BY DEF LastInv, LastKept

LEMMA RunStepLastKept ==
  ASSUME Typed, NEW r \in Run, RunStep(r)
  PROVE  LastKept
<1>1. /\ UNCHANGED <<wanted, inbox, sweep, hurried>>
      /\ done \subseteq done'
  BY RunStepFrame
<1>2. PICK new \in RunState : Moves(r, new)
  BY RunStepFrame
<1>3. \A q \in Run : q # r => run'[q] = run[q]
  BY <1>2 DEF Moves, Typed, TypeOK
<1>4. run'[r] = new /\ new.act = run[r].act
  BY <1>2 DEF Moves, Typed, TypeOK
<1>5. run'[r].pc = "record" => run[r].pc = "record"
  <2>1. CASE StoreAdminAuthorization(r)
    BY <2>1 DEF StoreAdminAuthorization
  <2>2. CASE DeleteAdminAuthorization(r)
    BY <2>2 DEF DeleteAdminAuthorization
  <2>3. ASSUME NEW other, Moves(r, other), other.pc # "record"
        PROVE  run'[r].pc # "record"
    BY <2>3 DEF Moves, Typed, TypeOK
  <2>4. CASE StoreAdminGrant(r)
    BY <2>3, <2>4, StoreAdminGrantEffect
  <2>5. CASE CreateAdminGrantAcr(r)
    BY <2>3, <2>5, CreateAdminGrantAcrEffect
  <2>6. CASE FindAdminGrants(r)
    BY <2>3, <2>6, FindAdminGrantsEffect
  <2>7. CASE DeleteAdminGrant(r)
    BY <2>3, <2>7, DeleteAdminGrantEffect
  <2>8. CASE ReadMarks(r)
    BY <2>3, <2>8, ReadMarksEffect
  <2>9. CASE PatchMarks(r)
    BY <2>3, <2>9, PatchMarksEffect
  <2>10. CASE ListAdmins(r)
    BY <2>3, <2>10, ListAdminsEffect
  <2>11. CASE RewriteAcr(r)
    BY <2>3, <2>11, RewriteAcrEffect
  <2>12. CASE MarkDone(r)
    BY <2>3, <2>12, MarkDoneEffect
  <2>13. CASE FailAlways(r)
    BY <2>3, <2>13, FailAlwaysEffect
  <2> QED
    BY <2>1, <2>2, <2>4, <2>5, <2>6, <2>7, <2>8, <2>9, <2>10, <2>11, <2>12, <2>13 DEF RunStep
<1>6. Recorded' = Recorded
  BY <1>1 DEF Recorded
<1>7. ASSUME NEW a \in Removal, Deletes(a)'
      PROVE  Deletes(a)
  <2>1. a \in Recorded
    BY <1>6, <1>7 DEF Deletes
  <2>2. CASE a \in (Recorded' \ done') \cup inbox' \cup sweep'.todo
    BY <1>1, <1>6, <2>1, <2>2 DEF Deletes
  <2>3. CASE \E q \in Run : run'[q].pc = "record" /\ run'[q].act = a
    <3>1. PICK q \in Run : run'[q].pc = "record" /\ run'[q].act = a
      BY <2>3
    <3>2. run[q].pc = "record" /\ run[q].act = a
      BY <1>3, <1>4, <1>5, <3>1
    <3> QED BY <2>1, <3>2 DEF Deletes
  <2> QED BY <1>7, <2>2, <2>3 DEF Deletes
<1> QED BY <1>1, <1>7 DEF LastKept

LEMMA StartRunLastKept ==
  ASSUME Typed, NEW r \in Run, NEW a \in Recorded, StartRun(r, a),
         a \in inbox \cup sweep.todo,
         inbox' \subseteq inbox, done' = done, sweep'.todo \subseteq sweep.todo
  PROVE  LastKept /\ auths' = auths
<1>1. UNCHANGED <<wanted, hurried, auths>>
  BY DEF StartRun, registryVars
<1>2. PICK new \in RunState :
        run' = [run EXCEPT ![r] = new] /\ new.pc = "record" /\ new.act = a
  BY StartRunEffect
<1>3. \A q \in Run : run'[q] = IF q = r THEN new ELSE run[q]
  BY <1>2 DEF Typed, TypeOK
<1>4. Recorded' = Recorded
  BY <1>1 DEF Recorded
<1>5. ASSUME NEW b \in Removal, Deletes(b)'
      PROVE  Deletes(b)
  BY <1>2, <1>3, <1>4, <1>5 DEF Deletes
<1> QED BY <1>1, <1>5 DEF LastKept

LEMMA LastRunStep ==
  ASSUME Typed, LastInv, NEW r \in Run, RunStep(r)
  PROVE  LastInv'
<1>1. LastKept
  BY RunStepLastKept
<1>2. CASE DeleteAdminAuthorization(r) /\ ~ (auths \subseteq auths')
  <2>1. /\ run[r].pc = "record" /\ run[r].act \in Removal
        /\ auths' = auths \ {wanted[run[r].act]}
    BY <1>2, DeleteAdminAuthorizationEffect DEF Of
  <2>2. run[r].act \in Recorded
    BY <2>1 DEF Typed, RunsShaped, IdleRun, Shape
  <2>3. Deletes(run[r].act)
    BY <2>1, <2>2 DEF Deletes
  <2>4. CASE hurried \/ Personal
    BY <1>1, <2>4 DEF LastInv, LastKept
  <2>5. CASE ~ (hurried \/ Personal)
    <3>1. auths' # {}
      BY <2>1, <2>3, <2>5 DEF LastInv
    <3>2. \A a, b \in Removal : Deletes(a)' /\ Deletes(b)' => a = b
      BY <1>1, <2>5 DEF LastInv, LastKept
    <3>3. \A a \in Removal : Deletes(a)' => auths' \ {wanted'[a]} # {}
      BY <1>1, <2>1, <2>3, <2>5, <3>1 DEF LastInv, LastKept
    <3> QED BY <3>1, <3>2, <3>3 DEF LastInv
  <2> QED BY <2>4, <2>5
<1>3. CASE ~ DeleteAdminAuthorization(r) \/ auths \subseteq auths'
  <2>1. auths \subseteq auths'
    BY <1>3
    DEF RunStep, StoreAdminAuthorization, StoreAdminGrant, CreateAdminGrantAcr, FindAdminGrants,
        DeleteAdminGrant, ReadMarks, PatchMarks, ListAdmins, RewriteAcr, MarkDone,
        FailAlways, registryVars
  <2> QED BY <1>1, <2>1, StillOneAdmin
<1> QED BY <1>2, <1>3

(* Recording an addition leaves the removals alone; recording a removal is  *)
(* hurried, or makes it the only one, of one authorization among several.   *)
LEMMA LastRecord ==
  ASSUME Typed, LastInv, NEW a \in Activity, NEW x \in Authorization, Record(a, x),
         \/ a \in Addition /\ hurried' = hurried
         \/ /\ a \in Removal /\ x \in auths
            /\ Personal \/ Cardinality(auths) # 1
            /\ hurried' = (hurried \/ \E b \in Removal : Deletes(b))
  PROVE  LastInv'
<1>1. /\ a \notin Recorded /\ Recorded' = Recorded \cup {a}
      /\ wanted' = [wanted EXCEPT ![a] = x]
      /\ \A b \in Recorded : wanted'[b] = wanted[b]
  BY RecordEffect
<1>2. UNCHANGED <<auths, done, run, sweep>> /\ inbox' = inbox \cup {a}
  BY DEF Record, registryVars
<1>3. ASSUME NEW b \in Removal, b # a, Deletes(b)'
      PROVE  Deletes(b) /\ wanted'[b] = wanted[b]
  BY <1>1, <1>2, <1>3 DEF Deletes
<1>4. CASE a \in Addition /\ hurried' = hurried
  BY <1>2, <1>3, <1>4, ActivityAssumption DEF LastInv
<1>5. CASE /\ a \in Removal /\ x \in auths
           /\ Personal \/ Cardinality(auths) # 1
           /\ hurried' = (hurried \/ \E b \in Removal : Deletes(b))
  <2>1. CASE hurried \/ Personal \/ \E b \in Removal : Deletes(b)
    BY <1>5, <2>1 DEF LastInv
  <2>2. CASE ~ Personal /\ ~ \E b \in Removal : Deletes(b)
    <3>1. auths # {x}
      BY <1>5, <2>2, FS_Singleton
    <3>2. auths' \ {x} # {}
      BY <1>2, <1>5, <3>1
    <3>3. \A b \in Removal : Deletes(b)' => b = a
      BY <1>3, <2>2
    <3>4. wanted'[a] = x
      BY <1>1 DEF Typed, TypeOK
    <3> QED BY <3>2, <3>3, <3>4 DEF LastInv
  <2> QED BY <2>1, <2>2
<1> QED BY <1>4, <1>5

LEMMA LastNext == Typed /\ LastInv /\ [Next]_vars => LastInv'
<1> SUFFICES ASSUME Typed, LastInv, [Next]_vars PROVE LastInv'
  OBVIOUS
<1>1. ASSUME NEW a \in Addition, NEW p \in Person, AddAdmin(a, p)
      PROVE  LastInv'
  <2>1. [grantee |-> p, id |-> a] \in Authorization /\ a \in Activity
    BY DEF Authorization, Activity
  <2> QED BY <1>1, <2>1, LastRecord DEF AddAdmin
<1>2. ASSUME NEW a \in Removal, NEW x \in Authorization, RemoveAdmin(a, x)
      PROVE  LastInv'
  BY <1>2, LastRecord DEF RemoveAdmin, Activity
<1>3. ASSUME NEW a \in Activity, NEW r \in Run, Deliver(a, r)
      PROVE  LastInv'
  <2>1. a \in Recorded /\ a \in inbox
    BY <1>3 DEF Deliver, Typed, NotesRecorded
  <2>2. LastKept /\ auths' = auths
    BY <1>3, <2>1, StartRunLastKept DEF Deliver
  <2> QED BY <2>2, StillOneAdmin
<1>4. ASSUME NEW r \in Run, RunStep(r)
      PROVE  LastInv'
  BY <1>4, LastRunStep
<1>5. ASSUME NEW r \in Run, Rerun(r)
      PROVE  LastInv'
  <2>1. PICK a \in sweep.todo : StartRun(r, a) /\ sweep' = [todo |-> sweep.todo \ {a}, on |-> r]
    BY <1>5 DEF Rerun
  <2>2. a \in Recorded /\ UNCHANGED <<done, inbox>>
    BY <1>5 DEF Typed, NotesRecorded, Rerun
  <2>3. LastKept /\ auths' = auths
    BY <2>1, <2>2, StartRunLastKept
  <2> QED BY <2>3, StillOneAdmin
<1>6. CASE StartSweep
  <2>1. /\ UNCHANGED <<auths, wanted, done, inbox, run, hurried>>
        /\ sweep' = [sweep EXCEPT !.todo = Recorded \ done]
    BY <1>6 DEF StartSweep, registryVars, outboxVars, history
  <2>2. sweep'.todo = Recorded \ done
    BY <2>1 DEF Typed, TypeOK
  <2>3. LastKept
    BY <2>1, <2>2 DEF LastKept, Deletes, Recorded
  <2> QED BY <2>1, <2>3, StillOneAdmin
<1>7. CASE FinishRerun
  <2>1. /\ UNCHANGED <<auths, wanted, inbox, run, hurried>>
        /\ done \subseteq done'
        /\ sweep' = [sweep EXCEPT !.on = None]
    BY <1>7 DEF FinishRerun, registryVars, history
  <2>2. sweep'.todo = sweep.todo
    BY <2>1 DEF Typed, TypeOK
  <2>3. LastKept
    BY <2>1, <2>2 DEF LastKept, Deletes, Recorded
  <2> QED BY <2>1, <2>3, StillOneAdmin
<1>8. CASE UNCHANGED vars
  <2>1. LastKept /\ auths' = auths
    BY <1>8 DEF vars, registryVars, outboxVars, history, LastKept, Deletes, Recorded
  <2> QED BY <2>1, StillOneAdmin
<1> QED BY <1>1, <1>2, <1>3, <1>4, <1>5, <1>6, <1>7, <1>8 DEF Next

LEMMA InitLast == Init => LastInv
<1> SUFFICES ASSUME Init, ~ Personal PROVE LastInv
  BY DEF LastInv
<1>1. PICK p \in Founder : TRUE
  BY FounderAssumption
<1>2. [grantee |-> p, id |-> None] \in auths
  BY <1>1 DEF Init
<1>3. \A a \in Removal : ~ Deletes(a)
  BY DEF Init, Deletes, Recorded
<1> QED BY <1>2, <1>3 DEF LastInv

(* removeAdmin's guard: an organisation keeps an AdminAuthorization as long *)
(* as no removal is recorded while an earlier one may still delete, however *)
(* often runs are repeated.                                                 *)
THEOREM LastAdminStays == Spec => []LastAdminGuarded
<1>1. LastInv => LastAdminGuarded
  BY DEF LastInv, LastAdminGuarded
<1> QED BY <1>1, InitLast, AlwaysTyped, LastNext, PTL DEF Spec

-----------------------------------------------------------------------------
(* The marks and the grants.                                                *)

GrantsOf(p) == {g \in grants : g.grantee = p}
Works(r, p) == Active(r) /\ Who(r) = p

(* A registration links grants of its own agent only.                       *)
MarksOwn == \A p \in Person : \A g \in marks[p] : g.grantee = p

(* What is to hold of a person nobody works on.                             *)
Settled(p) ==
  /\ marks[p] # {} => p \in Admins
  /\ p \in Admins => marks[p] # {} \/ Kept(p)
  /\ marks[p] \subseteq grants \cap acrs
  /\ p \in Admins \/ GrantsOf(p) = {}

(* What an addition has achieved, and kept, on its way.                     *)
Adding(r, p) ==
  /\ marks[p] \subseteq grants \cap acrs
  /\ run[r].pc = "record" => p \in Admins \/ (marks[p] = {} /\ GrantsOf(p) = {})
  /\ run[r].pc # "record" => p \in Admins
  /\ run[r].pc = "acr" => GrantFor(r, run[r].cur) \in grants
  /\ run[r].pc # "record" /\ RegistrySet \notin run[r].todo
       => GrantFor(r, RegistrySet) \in grants \cap acrs
  /\ run[r].pc \in {"list", "rewrite", "complete"} => marks[p] # {}

(* What a removal has achieved on its way.                                  *)
Removing(r, p) ==
  /\ run[r].pc = "record" => Settled(p)
  /\ run[r].pc # "record" => p \notin Admins \/ Kept(p)
  /\ run[r].pc = "delete" => GrantsOf(p) \subseteq run[r].gone
  /\ run[r].pc \in {"read", "patch", "list", "rewrite", "complete"} => GrantsOf(p) = {}
  /\ run[r].pc = "patch" => marks[p] \subseteq run[r].read
  /\ run[r].pc \in {"list", "rewrite", "complete"} => marks[p] = {}

Progress(r, p) == /\ run[r].act \in Addition => Adding(r, p)
                  /\ run[r].act \in Removal => Removing(r, p)

PersonOK(p) ==
  /\ \A q, r \in Run : Works(q, p) /\ Works(r, p) => q = r
  /\ (\A r \in Run : ~ Works(r, p)) => Settled(p)
  /\ \A r \in Run : Works(r, p) => Progress(r, p)

MarksInv == MarksOwn /\ \A p \in Person \ muddled : PersonOK(p)

(* The step leaves the person's records as they are.                        *)
SameRecords(p) ==
  /\ (p \in Admins)' <=> p \in Admins
  /\ Kept(p)' <=> Kept(p)
  /\ marks'[p] = marks[p]
  /\ \A g \in AdminGrant : g.grantee = p =>
       (g \in grants' <=> g \in grants) /\ (g \in acrs' <=> g \in acrs)

LEMMA SameRecordsSettled ==
  ASSUME Typed, Typed', MarksOwn, NEW p \in Person, SameRecords(p), Settled(p)
  PROVE  Settled(p)'
<1>1. marks[p] \subseteq AdminGrant /\ grants \subseteq AdminGrant /\ grants' \subseteq AdminGrant
  BY DEF Typed, TypeOK
<1>2. (marks[p] # {} => p \in Admins)' /\ (p \in Admins => marks[p] # {} \/ Kept(p))'
  BY DEF Settled, SameRecords
<1>3. (marks[p] \subseteq grants \cap acrs)'
  BY <1>1 DEF Settled, SameRecords, MarksOwn
<1>4. GrantsOf(p)' = GrantsOf(p)
  BY <1>1 DEF GrantsOf, SameRecords
<1> QED BY <1>2, <1>3, <1>4 DEF Settled, SameRecords

LEMMA SameRecordsProgress ==
  ASSUME Typed, Typed', MarksOwn, NEW p \in Person, SameRecords(p),
         NEW r \in Run, Works(r, p), run'[r] = run[r], Who(r)' = Who(r), Progress(r, p)
  PROVE  Progress(r, p)'
<1>1. marks[p] \subseteq AdminGrant /\ grants \subseteq AdminGrant /\ grants' \subseteq AdminGrant
  BY DEF Typed, TypeOK
<1>2. GrantsOf(p)' = GrantsOf(p)
  BY <1>1 DEF GrantsOf, SameRecords
<1>3. marks[p] \subseteq grants \cap acrs => (marks[p] \subseteq grants \cap acrs)'
  BY <1>1 DEF SameRecords, MarksOwn
<1>4. ASSUME NEW s \in Scope
      PROVE  /\ GrantFor(r, s)' = GrantFor(r, s)
             /\ GrantFor(r, s) \in grants <=> GrantFor(r, s) \in grants'
             /\ GrantFor(r, s) \in acrs <=> GrantFor(r, s) \in acrs'
  <2>1. GrantFor(r, s) \in AdminGrant /\ GrantFor(r, s).grantee = p
    BY GrantForType DEF Works, Active
  <2>2. GrantFor(r, s)' = GrantFor(r, s)
    BY DEF GrantFor
  <2> QED BY <2>1, <2>2 DEF SameRecords
<1>5. RegistrySet \in Scope
  BY DEF Scope
<1>6. ASSUME run[r].act \in Addition, Adding(r, p)
      PROVE  Adding(r, p)'
  <2>1. run[r].pc = "acr" => run[r].cur \in Scope
    BY DEF Typed, RunsShaped, IdleRun, Shape
  <2>2. run'[r].pc = "acr" => GrantFor(r, run[r].cur)' \in grants'
    <3> SUFFICES ASSUME run'[r].pc = "acr" PROVE GrantFor(r, run[r].cur)' \in grants'
      OBVIOUS
    <3>1. PICK s \in Scope : s = run[r].cur
      BY <2>1
    <3>2. GrantFor(r, s) \in grants
      BY <1>6, <3>1 DEF Adding
    <3>3. GrantFor(r, s)' \in grants'
      BY <1>4, <3>2
    <3>4. GrantFor(r, run[r].cur)' = GrantFor(r, s)'
      BY <3>1 DEF GrantFor
    <3> QED BY <3>3, <3>4
  <2>3. (run[r].pc # "record" /\ RegistrySet \notin run[r].todo
          => GrantFor(r, RegistrySet) \in grants \cap acrs)'
    BY <1>4, <1>5, <1>6 DEF Adding
  <2>4. (run[r].pc = "record" => p \in Admins \/ (marks[p] = {} /\ GrantsOf(p) = {}))'
    BY <1>2, <1>6 DEF Adding, SameRecords
  <2>5. (run[r].pc # "record" => p \in Admins)'
    BY <1>6 DEF Adding, SameRecords
  <2>6. (run[r].pc \in {"list", "rewrite", "complete"} => marks[p] # {})'
    BY <1>6 DEF Adding, SameRecords
  <2> QED BY <1>3, <1>6, <2>2, <2>3, <2>4, <2>5, <2>6 DEF Adding
<1>7. ASSUME Removing(r, p)
      PROVE  Removing(r, p)'
  <2>1. (run[r].pc = "record" => Settled(p))'
    BY <1>7, SameRecordsSettled DEF Removing
  <2> QED BY <1>2, <1>7, <2>1 DEF Removing, SameRecords
<1> QED BY <1>6, <1>7 DEF Progress

LEMMA SamePerson ==
  ASSUME Typed, Typed', MarksOwn, NEW p \in Person, SameRecords(p), PersonOK(p),
         \A r \in Run : Works(r, p)' <=> Works(r, p),
         \A r \in Run : Works(r, p) => run'[r] = run[r]
  PROVE  PersonOK(p)'
<1>1. (\A q, r \in Run : Works(q, p) /\ Works(r, p) => q = r)'
  BY DEF PersonOK
<1>2. ((\A r \in Run : ~ Works(r, p)) => Settled(p))'
  BY SameRecordsSettled DEF PersonOK
<1>3. ASSUME NEW r \in Run, Works(r, p)'
      PROVE  Progress(r, p)'
  <2>1. Works(r, p) /\ run'[r] = run[r] /\ Who(r)' = Who(r) /\ Progress(r, p)
    BY <1>3 DEF PersonOK, Works
  <2> QED BY <2>1, SameRecordsProgress
<1> QED BY <1>1, <1>2, <1>3 DEF PersonOK

(* A run's step changes nothing of the other persons' records.              *)
LEMMA RunStepOthers ==
  ASSUME Typed, NEW r \in Run, RunStep(r), NEW p \in Person, Who(r) # p
  PROVE  SameRecords(p)
<1> USE DEF SameRecords
<1>0. /\ Who(r) \in Person /\ Of(r).grantee = Who(r)
      /\ marks \in [Person -> SUBSET AdminGrant]
  BY RunStepFrame, WhoIsPerson DEF Active, Who, Typed, TypeOK
<1>1. CASE StoreAdminAuthorization(r)
  BY <1>0, <1>1, StoreAdminAuthorizationEffect DEF StoreAdminAuthorization, Admins, Kept
<1>2. CASE DeleteAdminAuthorization(r)
  BY <1>0, <1>2, DeleteAdminAuthorizationEffect DEF DeleteAdminAuthorization, Admins, Kept
<1>3. CASE StoreAdminGrant(r)
  <2>1. GrantFor(r, run[r].cur).grantee # p
    BY <1>3, StoreAdminGrantEffect, GrantForType
  <2> QED BY <1>3, <2>1 DEF StoreAdminGrant, history, Admins, Kept
<1>4. CASE CreateAdminGrantAcr(r)
  <2>1. GrantFor(r, run[r].cur).grantee # p
    BY <1>4, CreateAdminGrantAcrEffect, GrantForType
  <2> QED BY <1>4, <2>1 DEF CreateAdminGrantAcr, history, Admins, Kept
<1>5. CASE FindAdminGrants(r)
  BY <1>5 DEF FindAdminGrants, registryVars, history, Admins, Kept
<1>6. CASE DeleteAdminGrant(r)
  <2>1. PICK g \in run[r].gone :
          grants' = grants \ {g} /\ acrs' = acrs \ {g} /\ g.grantee = Who(r)
    BY <1>6, DeleteAdminGrantEffect
  <2> QED BY <1>6, <2>1 DEF DeleteAdminGrant, history, Admins, Kept
<1>7. CASE ReadMarks(r)
  BY <1>7 DEF ReadMarks, registryVars, history, Admins, Kept
<1>8. CASE PatchMarks(r)
  <2>1. marks'[p] = marks[p]
    BY <1>0, <1>8, PatchMarksEffect
  <2> QED BY <1>8, <2>1 DEF PatchMarks, history, Admins, Kept
<1>9. CASE ListAdmins(r)
  BY <1>9 DEF ListAdmins, registryVars, history, Admins, Kept
<1>10. CASE RewriteAcr(r)
  BY <1>10 DEF RewriteAcr, Admins, Kept
<1>11. CASE MarkDone(r)
  BY <1>11 DEF MarkDone, registryVars, history, Admins, Kept
<1>12. CASE FailAlways(r)
  BY <1>12 DEF FailAlways, registryVars, history, Admins, Kept
<1> QED
  BY <1>1, <1>2, <1>3, <1>4, <1>5, <1>6, <1>7, <1>8, <1>9, <1>10, <1>11, <1>12 DEF RunStep

LEMMA RunStepWorkers ==
  ASSUME Typed, NEW r \in Run, RunStep(r), NEW p \in Person
  PROVE  \A q \in Run : /\ q # r => run'[q] = run[q] /\ (Works(q, p)' <=> Works(q, p))
                        /\ Works(q, p)' => Works(q, p)
<1>1. PICK new \in RunState : Moves(r, new)
  BY RunStepFrame
<1>2. wanted' = wanted /\ Active(r)
  BY RunStepFrame
<1>3. \A q \in Run : run'[q] = IF q = r THEN new ELSE run[q]
  BY <1>1 DEF Moves, Typed, TypeOK
<1>4. new.act = run[r].act
  BY <1>1 DEF Moves
<1> QED BY <1>2, <1>3, <1>4 DEF Works, Active, Who, Of

(* The person's one run takes a step.                                       *)
LEMMA OwnStep ==
  ASSUME Typed, NEW r \in Run, RunStep(r), NEW p \in Person, Who(r) = p, PersonOK(p),
         Active(r)' => Progress(r, p)',
         ~ Active(r)' => Settled(p)'
  PROVE  PersonOK(p)'
<1>1. Works(r, p)
  BY RunStepFrame DEF Works
<1>2. \A q \in Run : Works(q, p)' => q = r
  BY <1>1, RunStepWorkers DEF PersonOK
<1>3. Works(r, p)' <=> Active(r)'
  <2>1. PICK new \in RunState : Moves(r, new)
    BY RunStepFrame
  <2>2. Who(r)' = Who(r)
    BY <2>1, RunStepFrame DEF Moves, Typed, TypeOK, Who, Of
  <2> QED BY <2>2 DEF Works
<1>4. ASSUME NEW q \in Run, Works(q, p)'
      PROVE  Progress(q, p)'
  BY <1>2, <1>3, <1>4
<1>5. ((\A q \in Run : ~ Works(q, p)) => Settled(p))'
  BY <1>3
<1> QED BY <1>2, <1>4, <1>5 DEF PersonOK

(* The person's own run before and after its step.                          *)
LEMMA OwnRun ==
  ASSUME Typed, NEW r \in Run, RunStep(r), NEW p \in Person, Who(r) = p, PersonOK(p)
  PROVE  /\ Progress(r, p)
         /\ run'[r].act = run[r].act
         /\ Who(r)' = p
         /\ \A s : GrantFor(r, s)' = GrantFor(r, s)
         /\ \A new : Moves(r, new) => run'[r] = new
         /\ RegistrySet \in Scope
<1>1. Works(r, p)
  BY RunStepFrame DEF Works
<1>2. PICK new \in RunState : Moves(r, new)
  BY RunStepFrame
<1>3. run'[r].act = run[r].act
  BY <1>2 DEF Moves, Typed, TypeOK
<1>4. Who(r)' = p
  BY <1>3, RunStepFrame DEF Who, Of
<1>5. \A s : GrantFor(r, s)' = GrantFor(r, s)
  BY <1>4 DEF GrantFor
<1>6. \A x : Moves(r, x) => run'[r] = x
  BY DEF Moves, Typed, TypeOK
<1> QED BY <1>1, <1>3, <1>4, <1>5, <1>6 DEF PersonOK, Scope

LEMMA AddingStep ==
  ASSUME Typed, NEW r \in Run, RunStep(r), NEW p \in Person, Who(r) = p, PersonOK(p),
         run[r].act \in Addition, Adding(r, p)', Active(r)'
  PROVE  PersonOK(p)'
<1>1. Progress(r, p)'
  BY OwnRun, ActivityAssumption DEF Progress
<1> QED BY <1>1, OwnStep

LEMMA RemovingStep ==
  ASSUME Typed, NEW r \in Run, RunStep(r), NEW p \in Person, Who(r) = p, PersonOK(p),
         run[r].act \in Removal, Removing(r, p)', Active(r)'
  PROVE  PersonOK(p)'
<1>1. Progress(r, p)'
  BY OwnRun, ActivityAssumption DEF Progress
<1> QED BY <1>1, OwnStep

LEMMA OwnStoreAdminAuthorization ==
  ASSUME Typed, NEW r \in Run, StoreAdminAuthorization(r),
         NEW p \in Person, Who(r) = p, PersonOK(p)
  PROVE  PersonOK(p)'
<1>0. RunStep(r)
  BY DEF RunStep
<1>1. /\ run[r].act \in Addition /\ run[r].pc = "record"
      /\ auths' = auths \cup {Of(r)}
      /\ UNCHANGED <<grants, acrs, marks>>
  BY StoreAdminAuthorizationEffect DEF StoreAdminAuthorization
<1>2. PICK new \in RunState :
        Moves(r, new) /\ (new.pc = "record" \/ (new.pc = "store" /\ new.todo = Scope))
  BY StoreAdminAuthorizationEffect
<1>3. run'[r] = new /\ RegistrySet \in Scope /\ Adding(r, p)
  BY <1>0, <1>1, <1>2, OwnRun DEF Progress
<1>4. p \in Admins'
  BY <1>1 DEF Admins, Who
<1>5. Adding(r, p)'
  BY <1>1, <1>2, <1>3, <1>4 DEF Adding
<1>6. Active(r)'
  BY <1>2, <1>3 DEF Active
<1> QED BY <1>0, <1>1, <1>5, <1>6, AddingStep

LEMMA OwnDeleteAdminAuthorization ==
  ASSUME Typed, NEW r \in Run, DeleteAdminAuthorization(r),
         NEW p \in Person, Who(r) = p, PersonOK(p), p \notin muddled'
  PROVE  PersonOK(p)'
<1>0. RunStep(r)
  BY DEF RunStep
<1>1. PICK new \in RunState : Moves(r, new) /\ new.pc = "find"
  BY DeleteAdminAuthorizationEffect
<1>2. run'[r] = new
  BY <1>0, <1>1, OwnRun
<1>3. /\ run[r].act \in Removal
      /\ ~ \E x \in auths \ {Of(r)} : x.grantee = p
  <2>1. muddled' = IF \E x \in auths \ {Of(r)} : x.grantee = p THEN muddled \cup {p} ELSE muddled
    BY DeleteAdminAuthorizationEffect
  <2> QED BY <2>1, DeleteAdminAuthorizationEffect
<1>4. p \notin Admins' \/ Kept(p)'
  <2>1. CASE auths' = auths \ {Of(r)}
    BY <1>3, <2>1 DEF Admins
  <2>2. CASE Of(r) \in auths /\ auths' = auths /\ kept' = kept \cup {Of(r)}
    BY <2>2 DEF Kept, Who
  <2> QED BY <2>1, <2>2, DeleteAdminAuthorizationEffect
<1>5. Removing(r, p)'
  BY <1>1, <1>2, <1>4 DEF Removing
<1>6. Active(r)'
  BY <1>1, <1>2 DEF Active
<1> QED BY <1>0, <1>3, <1>5, <1>6, RemovingStep

LEMMA OwnStoreAdminGrant ==
  ASSUME Typed, NEW r \in Run, StoreAdminGrant(r),
         NEW p \in Person, Who(r) = p, PersonOK(p)
  PROVE  PersonOK(p)'
<1>0. RunStep(r)
  BY DEF RunStep
<1>1. /\ run[r].act \in Addition /\ run[r].pc = "store"
      /\ grants' = grants \cup {GrantFor(r, run[r].cur)}
      /\ UNCHANGED <<auths, acrs, marks>>
  BY StoreAdminGrantEffect DEF StoreAdminGrant
<1>2. PICK new \in RunState :
        /\ Moves(r, new) /\ new.pc \in {"store", "acr"}
        /\ new.cur = run[r].cur /\ new.todo = run[r].todo
  BY StoreAdminGrantEffect
<1>3. /\ run'[r] = new /\ RegistrySet \in Scope /\ Adding(r, p)
      /\ \A s : GrantFor(r, s)' = GrantFor(r, s)
  BY <1>0, <1>1, <1>2, OwnRun DEF Progress
<1>4. p \in Admins'
  BY <1>1, <1>3 DEF Admins, Adding
<1>5. GrantFor(r, new.cur) \in grants'
  BY <1>1, <1>2, <1>3
<1>6. Adding(r, p)'
  BY <1>1, <1>2, <1>3, <1>4, <1>5 DEF Adding
<1>7. Active(r)'
  BY <1>2, <1>3 DEF Active
<1> QED BY <1>0, <1>1, <1>6, <1>7, AddingStep

LEMMA OwnCreateAdminGrantAcr ==
  ASSUME Typed, NEW r \in Run, CreateAdminGrantAcr(r),
         NEW p \in Person, Who(r) = p, PersonOK(p)
  PROVE  PersonOK(p)'
<1>0. RunStep(r)
  BY DEF RunStep
<1>1. /\ run[r].act \in Addition /\ run[r].pc = "acr"
      /\ acrs' = acrs \cup {GrantFor(r, run[r].cur)}
      /\ UNCHANGED <<auths, grants, marks>>
  BY CreateAdminGrantAcrEffect DEF CreateAdminGrantAcr
<1>2. PICK new \in RunState :
        /\ Moves(r, new)
        /\ \/ new.pc = "acr" /\ new.cur = run[r].cur /\ new.todo = run[r].todo
           \/ new.pc \in {"store", "read"} /\ new.todo = run[r].todo \ {run[r].cur}
  BY CreateAdminGrantAcrEffect
<1>3. /\ run'[r] = new /\ RegistrySet \in Scope /\ Adding(r, p)
      /\ \A s : GrantFor(r, s)' = GrantFor(r, s)
  BY <1>0, <1>1, <1>2, OwnRun DEF Progress
<1>4. p \in Admins' /\ GrantFor(r, run[r].cur) \in grants
  BY <1>1, <1>3 DEF Admins, Adding
<1>5. RegistrySet \notin new.todo => GrantFor(r, RegistrySet) \in grants' \cap acrs'
  BY <1>1, <1>2, <1>3, <1>4 DEF Adding
<1>6. new.pc = "acr" => GrantFor(r, new.cur) \in grants'
  BY <1>1, <1>2, <1>4
<1>7. Adding(r, p)'
  BY <1>1, <1>2, <1>3, <1>4, <1>5, <1>6 DEF Adding
<1>8. Active(r)'
  BY <1>2, <1>3 DEF Active
<1> QED BY <1>0, <1>1, <1>7, <1>8, AddingStep

LEMMA OwnFindAdminGrants ==
  ASSUME Typed, NEW r \in Run, FindAdminGrants(r),
         NEW p \in Person, Who(r) = p, PersonOK(p)
  PROVE  PersonOK(p)'
<1>0. RunStep(r)
  BY DEF RunStep
<1>1. /\ run[r].act \in Removal /\ run[r].pc = "find"
      /\ UNCHANGED <<auths, grants, acrs, marks, kept>>
  BY FindAdminGrantsEffect DEF FindAdminGrants, registryVars, history
<1>2. PICK new \in RunState :
        /\ Moves(r, new) /\ new.pc \in {"delete", "read"}
        /\ new.gone = {g \in grants : g.grantee = p}
        /\ new.pc = "read" => new.gone = {}
  BY FindAdminGrantsEffect
<1>3. run'[r] = new /\ Removing(r, p)
  BY <1>0, <1>1, <1>2, OwnRun DEF Progress
<1>4. (p \notin Admins' \/ Kept(p)') /\ GrantsOf(p)' = new.gone
  BY <1>1, <1>2, <1>3 DEF Admins, Kept, GrantsOf, Removing
<1>5. Removing(r, p)'
  BY <1>2, <1>3, <1>4 DEF Removing
<1>6. Active(r)'
  BY <1>2, <1>3 DEF Active
<1> QED BY <1>0, <1>1, <1>5, <1>6, RemovingStep

LEMMA OwnDeleteAdminGrant ==
  ASSUME Typed, NEW r \in Run, DeleteAdminGrant(r),
         NEW p \in Person, Who(r) = p, PersonOK(p)
  PROVE  PersonOK(p)'
<1>0. RunStep(r)
  BY DEF RunStep
<1>1. /\ run[r].act \in Removal /\ run[r].pc = "delete"
      /\ UNCHANGED <<auths, marks, kept>>
  BY DeleteAdminGrantEffect DEF DeleteAdminGrant, history
<1>2. PICK g \in run[r].gone, new \in RunState :
        /\ grants' = grants \ {g}
        /\ Moves(r, new) /\ new.gone = run[r].gone \ {g}
        /\ new.pc \in {"delete", "read"}
        /\ new.pc = "read" => new.gone = {}
  BY DeleteAdminGrantEffect
<1>3. run'[r] = new /\ Removing(r, p)
  BY <1>0, <1>1, <1>2, OwnRun DEF Progress
<1>4. (p \notin Admins' \/ Kept(p)') /\ GrantsOf(p)' \subseteq new.gone
  BY <1>1, <1>2, <1>3 DEF Admins, Kept, GrantsOf, Removing
<1>5. Removing(r, p)'
  BY <1>2, <1>3, <1>4 DEF Removing
<1>6. Active(r)'
  BY <1>2, <1>3 DEF Active
<1> QED BY <1>0, <1>1, <1>5, <1>6, RemovingStep

LEMMA OwnReadMarks ==
  ASSUME Typed, NEW r \in Run, ReadMarks(r),
         NEW p \in Person, Who(r) = p, PersonOK(p)
  PROVE  PersonOK(p)'
<1>0. RunStep(r)
  BY DEF RunStep
<1>1. run[r].pc = "read" /\ UNCHANGED <<auths, grants, acrs, marks, kept>>
  BY ReadMarksEffect DEF ReadMarks, registryVars, history
<1>2. PICK new \in RunState :
        Moves(r, new) /\ new.pc = "patch" /\ new.read = marks[p] /\ new.todo = run[r].todo
  BY ReadMarksEffect
<1>3. /\ run'[r] = new /\ Progress(r, p) /\ Active(r)'
      /\ \A s : GrantFor(r, s)' = GrantFor(r, s)
  BY <1>0, <1>2, OwnRun DEF Active
<1>4. CASE run[r].act \in Addition
  <2>1. Adding(r, p)'
    BY <1>1, <1>2, <1>3, <1>4 DEF Adding, Progress, Admins
  <2> QED BY <1>0, <1>3, <1>4, <2>1, AddingStep
<1>5. CASE run[r].act \in Removal
  <2>1. Removing(r, p)'
    BY <1>1, <1>2, <1>3, <1>5 DEF Removing, Progress, Admins, Kept, GrantsOf
  <2> QED BY <1>0, <1>3, <1>5, <2>1, RemovingStep
<1> QED BY <1>1, <1>4, <1>5, WhoIsPerson DEF Activity

LEMMA OwnPatchMarks ==
  ASSUME Typed, NEW r \in Run, PatchMarks(r),
         NEW p \in Person, Who(r) = p, PersonOK(p)
  PROVE  PersonOK(p)'
<1>0. RunStep(r)
  BY DEF RunStep
<1>1. run[r].pc = "patch" /\ UNCHANGED <<auths, grants, acrs, kept>>
  BY PatchMarksEffect DEF PatchMarks, history
<1>2. marks'[p] = (marks[p] \ (run[r].read \ Target(r))) \cup Target(r)
  BY PatchMarksEffect DEF Typed, TypeOK
<1>3. PICK new \in RunState :
        Moves(r, new) /\ new.pc \in {"list", "read"} /\ new.todo = run[r].todo
  BY PatchMarksEffect
<1>4. /\ run'[r] = new /\ Progress(r, p) /\ Active(r)'
      /\ \A s : GrantFor(r, s)' = GrantFor(r, s)
  BY <1>0, <1>3, OwnRun DEF Active
<1>5. CASE run[r].act \in Addition
  <2>1. Target(r) = {GrantFor(r, RegistrySet)}
    BY <1>5 DEF Target
  <2>2. RegistrySet \notin run[r].todo
    BY <1>1, <1>5 DEF Typed, RunsShaped, IdleRun, Shape
  <2>3. GrantFor(r, RegistrySet) \in grants \cap acrs /\ marks[p] \subseteq grants \cap acrs
          /\ p \in Admins
    BY <1>1, <1>4, <1>5, <2>2 DEF Progress, Adding
  <2>4. marks'[p] \subseteq grants' \cap acrs' /\ marks'[p] # {}
    BY <1>1, <1>2, <2>1, <2>3
  <2>5. p \in Admins'
    BY <1>1, <2>3 DEF Admins
  <2>6. Adding(r, p)'
    BY <1>1, <1>3, <1>4, <2>3, <2>4, <2>5 DEF Adding
  <2> QED BY <1>0, <1>4, <1>5, <2>6, AddingStep
<1>6. CASE run[r].act \in Removal
  <2>1. Target(r) = {}
    BY <1>6, ActivityAssumption DEF Target
  <2>2. marks'[p] = {}
    BY <1>1, <1>2, <1>4, <1>6, <2>1 DEF Progress, Removing
  <2>3. Removing(r, p)'
    BY <1>1, <1>3, <1>4, <1>6, <2>2 DEF Removing, Progress, Admins, Kept, GrantsOf
  <2> QED BY <1>0, <1>4, <1>6, <2>3, RemovingStep
<1> QED BY <1>1, <1>5, <1>6, WhoIsPerson DEF Activity

(* Listing the admins and rewriting the control are not about one person.   *)
LEMMA OwnAccessControl ==
  ASSUME Typed, NEW r \in Run, ListAdmins(r) \/ RewriteAcr(r),
         NEW p \in Person, Who(r) = p, PersonOK(p)
  PROVE  PersonOK(p)'
<1>0. RunStep(r)
  BY DEF RunStep
<1>1. run[r].pc \in {"list", "rewrite"} /\ UNCHANGED <<auths, grants, acrs, marks, kept>>
  BY DEF ListAdmins, RewriteAcr, registryVars, history
<1>2. PICK new \in RunState :
        /\ Moves(r, new) /\ new.pc \in {"list", "rewrite", "complete"}
        /\ new.todo = run[r].todo
  BY ListAdminsEffect, RewriteAcrEffect
<1>3. /\ run'[r] = new /\ Progress(r, p) /\ Active(r)'
      /\ \A s : GrantFor(r, s)' = GrantFor(r, s)
  BY <1>0, <1>2, OwnRun DEF Active
<1>4. CASE run[r].act \in Addition
  <2>1. Adding(r, p)'
    BY <1>1, <1>2, <1>3, <1>4 DEF Adding, Progress, Admins
  <2> QED BY <1>0, <1>3, <1>4, <2>1, AddingStep
<1>5. CASE run[r].act \in Removal
  <2>1. Removing(r, p)'
    BY <1>1, <1>2, <1>3, <1>5 DEF Removing, Progress, Admins, Kept, GrantsOf
  <2> QED BY <1>0, <1>3, <1>5, <2>1, RemovingStep
<1> QED BY <1>1, <1>4, <1>5, WhoIsPerson DEF Activity

LEMMA OwnMarkDone ==
  ASSUME Typed, NEW r \in Run, MarkDone(r),
         NEW p \in Person, Who(r) = p, PersonOK(p)
  PROVE  PersonOK(p)'
<1>0. RunStep(r)
  BY DEF RunStep
<1>1. run[r].pc = "complete" /\ UNCHANGED <<auths, grants, acrs, marks, kept>>
  BY DEF MarkDone, registryVars, history
<1>2. PICK new \in RunState :
        Moves(r, new) /\ new.pc \in {"complete", "done"} /\ new.todo = run[r].todo
  BY MarkDoneEffect
<1>3. /\ run'[r] = new /\ run'[r].act = run[r].act /\ Progress(r, p)
      /\ \A s : GrantFor(r, s)' = GrantFor(r, s)
  BY <1>0, <1>2, OwnRun
<1>4. Admins' = Admins /\ GrantsOf(p)' = GrantsOf(p) /\ Kept(p)' = Kept(p)
  BY <1>1 DEF Admins, GrantsOf, Kept
<1>5. CASE run[r].act \in Addition
  <2>1. Adding(r, p)
    BY <1>3, <1>5 DEF Progress
  <2>2. RegistrySet \notin run[r].todo
    BY <1>1, <1>5 DEF Typed, RunsShaped, IdleRun, Shape
  <2>3. new.pc = "complete" => Adding(r, p)'
    BY <1>1, <1>2, <1>3, <1>4, <2>1 DEF Adding
  <2>4. Settled(p)'
    BY <1>1, <1>4, <2>1 DEF Adding, Settled
  <2>5. Active(r)' => Progress(r, p)'
    BY <1>2, <1>3, <1>5, <2>3, ActivityAssumption DEF Active, Progress
  <2> QED BY <1>0, <2>4, <2>5, OwnStep
<1>6. CASE run[r].act \in Removal
  <2>1. Removing(r, p)
    BY <1>3, <1>6 DEF Progress
  <2>2. new.pc = "complete" => Removing(r, p)'
    BY <1>1, <1>2, <1>3, <1>4, <2>1 DEF Removing
  <2>3. Settled(p)'
    BY <1>1, <1>4, <2>1 DEF Removing, Settled
  <2>4. Active(r)' => Progress(r, p)'
    BY <1>2, <1>3, <1>6, <2>2, ActivityAssumption DEF Active, Progress
  <2> QED BY <1>0, <2>3, <2>4, OwnStep
<1> QED BY <1>1, <1>5, <1>6, WhoIsPerson DEF Activity

(* What fails for ever leaves the person as it is.                          *)
LEMMA OwnFailAlways ==
  ASSUME Typed, NEW r \in Run, FailAlways(r),
         NEW p \in Person, Who(r) = p, PersonOK(p)
  PROVE  PersonOK(p)'
<1>0. RunStep(r)
  BY DEF RunStep
<1>1. run[r].pc \in {"acr", "rewrite"} /\ UNCHANGED <<auths, grants, acrs, marks, kept>>
  BY DEF FailAlways, registryVars, history
<1>2. PICK new \in RunState : Moves(r, new) /\ new.pc = "failing" /\ new.todo = run[r].todo
  BY FailAlwaysEffect
<1>3. /\ run'[r] = new /\ Progress(r, p) /\ Active(r)'
      /\ \A s : GrantFor(r, s)' = GrantFor(r, s)
  BY <1>0, <1>2, OwnRun DEF Active
<1>4. CASE run[r].act \in Addition
  <2>1. Adding(r, p)'
    BY <1>1, <1>2, <1>3, <1>4 DEF Adding, Progress, Admins
  <2> QED BY <1>0, <1>3, <1>4, <2>1, AddingStep
<1>5. CASE run[r].act \in Removal
  <2>1. Removing(r, p)'
    BY <1>1, <1>2, <1>3, <1>5 DEF Removing, Progress, Admins, Kept, GrantsOf
  <2> QED BY <1>0, <1>3, <1>5, <2>1, RemovingStep
<1> QED BY <1>1, <1>4, <1>5, WhoIsPerson DEF Activity

-----------------------------------------------------------------------------
LEMMA MarksRunStep ==
  ASSUME Typed, MarksInv, NEW r \in Run, RunStep(r)
  PROVE  MarksInv'
<1>1. Typed'
  BY RunStepTyped
<1>2. Active(r) /\ Who(r) \in Person
  BY RunStepFrame, WhoIsPerson DEF Active
<1>3. MarksOwn'
  <2>1. CASE PatchMarks(r)
    <3>1. \A g \in Target(r) : g.grantee = Who(r)
      BY <1>2, GrantForType DEF Target, Active, Scope
    <3>2. marks' = [marks EXCEPT ![Who(r)] = (@ \ (run[r].read \ Target(r))) \cup Target(r)]
      BY <2>1, PatchMarksEffect
    <3>3. marks \in [Person -> SUBSET AdminGrant]
      BY DEF Typed, TypeOK
    <3> QED BY <1>2, <3>1, <3>2, <3>3 DEF MarksInv, MarksOwn
  <2>2. CASE ~ PatchMarks(r)
    <3>1. marks' = marks
      BY <2>2
      DEF RunStep, StoreAdminAuthorization, DeleteAdminAuthorization, StoreAdminGrant,
          CreateAdminGrantAcr, FindAdminGrants, DeleteAdminGrant, ReadMarks, ListAdmins,
          RewriteAcr, MarkDone, FailAlways, registryVars
    <3> QED BY <3>1 DEF MarksInv, MarksOwn
  <2> QED BY <2>1, <2>2
<1>4. muddled \subseteq muddled'
  BY DEF RunStep, StoreAdminAuthorization, DeleteAdminAuthorization, StoreAdminGrant,
         CreateAdminGrantAcr, FindAdminGrants, DeleteAdminGrant, ReadMarks, PatchMarks,
         ListAdmins, RewriteAcr, MarkDone, FailAlways, history
<1>5. ASSUME NEW p \in Person \ muddled'
      PROVE  PersonOK(p)'
  <2>1. PersonOK(p) /\ MarksOwn
    BY <1>4 DEF MarksInv
  <2>2. CASE Who(r) # p
    <3>1. SameRecords(p)
      BY <2>2, RunStepOthers
    <3>2. ~ Works(r, p)
      BY <2>2 DEF Works
    <3> QED BY <1>1, <2>1, <3>1, <3>2, RunStepWorkers, SamePerson
  <2>3. CASE Who(r) = p
    BY <2>1, <2>3, OwnStoreAdminAuthorization, OwnDeleteAdminAuthorization, OwnStoreAdminGrant,
       OwnCreateAdminGrantAcr, OwnFindAdminGrants, OwnDeleteAdminGrant, OwnReadMarks,
       OwnPatchMarks, OwnAccessControl, OwnMarkDone, OwnFailAlways
    DEF RunStep
  <2> QED BY <2>2, <2>3
<1> QED BY <1>3, <1>5 DEF MarksInv

LEMMA MarksStartRun ==
  ASSUME Typed, Typed', MarksInv, NEW r \in Run, NEW a \in Recorded, StartRun(r, a)
  PROVE  MarksInv'
<1>1. /\ run[r].pc = "idle"
      /\ muddled' = IF \E q \in Run : Active(q) /\ Who(q) = wanted[a].grantee
                      THEN muddled \cup {wanted[a].grantee} ELSE muddled
  BY StartRunEffect
<1>2. PICK new \in RunState :
        run' = [run EXCEPT ![r] = new] /\ new.pc = "record" /\ new.act = a
  BY StartRunEffect
<1>3. UNCHANGED <<auths, grants, acrs, marks, wanted, kept>>
  BY DEF StartRun, registryVars
<1>4. \A q \in Run : run'[q] = IF q = r THEN new ELSE run[q]
  BY <1>2 DEF Typed, TypeOK
<1>5. MarksOwn /\ MarksOwn'
  BY <1>3 DEF MarksInv, MarksOwn
<1>6. \A p \in Person : SameRecords(p)
  BY <1>3 DEF SameRecords, Admins, Kept
<1>7. \A p : \A q \in Run \ {r} : Works(q, p)' <=> Works(q, p)
  BY <1>3, <1>4 DEF Works, Active, Who, Of
<1>8. \A p : (Works(r, p)' <=> p = wanted[a].grantee) /\ ~ Works(r, p)
  BY <1>1, <1>2, <1>3, <1>4 DEF Works, Active, Who, Of
<1>9. ASSUME NEW p \in Person \ muddled'
      PROVE  PersonOK(p)'
  <2>1. PersonOK(p)
    BY <1>1, <1>9 DEF MarksInv
  <2>2. CASE p # wanted[a].grantee
    <3>1. \A q \in Run : Works(q, p)' <=> Works(q, p)
      BY <1>7, <1>8, <2>2
    <3>2. \A q \in Run : Works(q, p) => run'[q] = run[q]
      BY <1>4, <1>8
    <3> QED BY <1>5, <1>6, <2>1, <3>1, <3>2, SamePerson
  <2>3. CASE p = wanted[a].grantee
    <3>1. \A q \in Run : ~ Works(q, p)
      BY <1>1, <2>3 DEF Works
    <3>2. Settled(p) /\ Settled(p)'
      BY <1>5, <1>6, <2>1, <3>1, SameRecordsSettled DEF PersonOK
    <3>3. \A q \in Run : Works(q, p)' => q = r
      BY <1>7, <3>1
    <3>4. Works(r, p)'
      BY <1>8, <2>3
    <3>5. run'[r].pc = "record"
      BY <1>2, <1>4
    <3>6. Adding(r, p)' /\ Removing(r, p)'
      BY <3>2, <3>5 DEF Adding, Removing, Settled
    <3>7. Progress(r, p)'
      BY <3>6 DEF Progress
    <3> QED BY <3>3, <3>4, <3>7 DEF PersonOK
  <2> QED BY <2>2, <2>3
<1> QED BY <1>5, <1>9 DEF MarksInv

(* Steps of the outbox and the sweep touch neither runs nor records.        *)
LEMMA MarksElsewhere ==
  ASSUME Typed, Typed', MarksInv, UNCHANGED <<auths, grants, acrs, marks, run, kept, muddled>>,
         \A b \in Recorded : wanted'[b] = wanted[b]
  PROVE  MarksInv'
<1>1. MarksOwn /\ MarksOwn'
  BY DEF MarksInv, MarksOwn
<1>2. \A p \in Person : SameRecords(p)
  BY DEF SameRecords, Admins, Kept
<1>3. \A q \in Run : Active(q) => run[q].act \in Recorded
  BY DEF Typed, RunsShaped, IdleRun, Shape, Active
<1>4. \A p : \A q \in Run : Works(q, p)' <=> Works(q, p)
  BY <1>3 DEF Works, Active, Who, Of
<1>5. ASSUME NEW p \in Person \ muddled
      PROVE  PersonOK(p)'
  BY <1>1, <1>2, <1>4, SamePerson DEF MarksInv
<1> QED BY <1>1, <1>5 DEF MarksInv

LEMMA MarksNext == Typed /\ MarksInv /\ [Next]_vars => MarksInv'
<1> SUFFICES ASSUME Typed, MarksInv, [Next]_vars PROVE MarksInv'
  OBVIOUS
<1>0. Typed'
  BY NextTyped
<1>1. ASSUME NEW a \in Addition, NEW p \in Person, AddAdmin(a, p)
      PROVE  MarksInv'
  <2>1. [grantee |-> p, id |-> a] \in Authorization /\ a \in Activity
    BY DEF Authorization, Activity
  <2>2. Record(a, [grantee |-> p, id |-> a])
    BY <1>1 DEF AddAdmin
  <2>3. \A b \in Recorded : wanted'[b] = wanted[b]
    BY <2>1, <2>2, RecordEffect
  <2>4. UNCHANGED <<auths, grants, acrs, marks, run, kept, muddled>>
    BY <2>2 DEF Record, registryVars
  <2> QED BY <1>0, <2>3, <2>4, MarksElsewhere
<1>2. ASSUME NEW a \in Removal, NEW x \in Authorization, RemoveAdmin(a, x)
      PROVE  MarksInv'
  <2>1. Record(a, x) /\ a \in Activity
    BY <1>2 DEF RemoveAdmin, Activity
  <2>2. \A b \in Recorded : wanted'[b] = wanted[b]
    BY <2>1, RecordEffect
  <2>3. UNCHANGED <<auths, grants, acrs, marks, run, kept, muddled>>
    BY <2>1 DEF Record, registryVars
  <2> QED BY <1>0, <2>2, <2>3, MarksElsewhere
<1>3. ASSUME NEW a \in Activity, NEW r \in Run, Deliver(a, r)
      PROVE  MarksInv'
  <2>1. a \in Recorded
    BY <1>3 DEF Deliver, Typed, NotesRecorded
  <2> QED BY <1>0, <1>3, <2>1, MarksStartRun DEF Deliver
<1>4. ASSUME NEW r \in Run, RunStep(r)
      PROVE  MarksInv'
  BY <1>4, MarksRunStep
<1>5. ASSUME NEW r \in Run, Rerun(r)
      PROVE  MarksInv'
  <2>1. PICK a \in sweep.todo : StartRun(r, a)
    BY <1>5 DEF Rerun
  <2>2. a \in Recorded
    BY DEF Typed, NotesRecorded
  <2> QED BY <1>0, <2>1, <2>2, MarksStartRun
<1>6. CASE StartSweep
  BY <1>0, <1>6, MarksElsewhere DEF StartSweep, registryVars, outboxVars, history
<1>7. CASE FinishRerun
  BY <1>0, <1>7, MarksElsewhere DEF FinishRerun, registryVars, history
<1>8. CASE UNCHANGED vars
  BY <1>0, <1>8, MarksElsewhere DEF vars, registryVars, outboxVars, history
<1> QED BY <1>1, <1>2, <1>3, <1>4, <1>5, <1>6, <1>7, <1>8 DEF Next

LEMMA InitMarks == Init => MarksInv
<1> SUFFICES ASSUME Init PROVE MarksInv
  OBVIOUS
<1>1. Admins = Founder
  BY FoundersAreAdmins
<1>2. \A p \in Person : marks[p] = IF p \in Founder THEN {FoundingGrant(p)} ELSE {}
  BY DEF Init
<1>20. \A p \in Person : \A g \in marks[p] : g = FoundingGrant(p) /\ p \in Founder
  <2> SUFFICES ASSUME NEW p \in Person, NEW g \in marks[p]
               PROVE  g = FoundingGrant(p) /\ p \in Founder
    OBVIOUS
  <2>1. CASE p \in Founder
    <3>1. marks[p] = {FoundingGrant(p)}
      BY <1>2, <2>1
    <3> QED BY <2>1, <3>1
  <2>2. CASE p \notin Founder
    <3>1. marks[p] = {}
      BY <1>2, <2>2
    <3> QED BY <3>1
  <2> QED BY <2>1, <2>2
<1>3. grants = [grantee : Founder, scope : Scope, by : {None}] /\ acrs = grants
  BY DEF Init
<1>4. MarksOwn
  <2> SUFFICES ASSUME NEW p \in Person, NEW g \in marks[p]
               PROVE  g.grantee = p
    BY DEF MarksOwn
  <2>1. g = FoundingGrant(p)
    BY <1>20
  <2> QED BY <2>1 DEF FoundingGrant
<1>5. \A p : \A r \in Run : ~ Works(r, p)
  BY DEF Init, IdleRun, Works, Active
<1>6. ASSUME NEW p \in Person
      PROVE  Settled(p)
  <2>1. p \in Admins <=> marks[p] # {}
    BY <1>1, <1>2
  <2>2. marks[p] \subseteq grants \cap acrs
    <3> SUFFICES ASSUME NEW g \in marks[p]
                 PROVE  g \in grants
      BY <1>3
    <3>1. g = FoundingGrant(p) /\ p \in Founder
      BY <1>20
    <3> QED BY <1>3, <3>1 DEF FoundingGrant, Scope
  <2>3. p \in Admins \/ GrantsOf(p) = {}
    BY <1>1, <1>3 DEF GrantsOf
  <2> QED BY <2>1, <2>2, <2>3 DEF Settled
<1> QED BY <1>4, <1>5, <1>6 DEF MarksInv, PersonOK

(* requireOrgAdmin and the registry agree: when the workflows are over, a   *)
(* person has a linked, readable grant on the registry set just if an       *)
(* authorization makes it an admin, and a person who is none has no admin   *)
(* grants left, except persons whose workflows got in each other's way.  An *)
(* authorization that a removal failed to read stays, without a mark.       *)
THEOREM AdminMarksAgree == Spec => []MarksMatchAuthorizations
<1>1. MarksInv => MarksMatchAuthorizations
  <2> SUFFICES ASSUME MarksInv, Quiet, NEW p \in Person \ muddled
               PROVE  /\ marks[p] # {} => p \in Admins
                      /\ p \in Admins => marks[p] # {} \/ Kept(p)
                      /\ marks[p] \subseteq grants \cap acrs
                      /\ p \in Admins \/ ~ \E g \in grants : g.grantee = p
    BY DEF MarksMatchAuthorizations
  <2>1. Settled(p)
    BY DEF MarksInv, PersonOK, Quiet, Works
  <2> QED BY <2>1 DEF Settled, GrantsOf
<1> QED BY <1>1, InitMarks, AlwaysTyped, MarksNext, PTL DEF Spec
=============================================================================
