-------------------------- MODULE AdminManagement --------------------------
(***************************************************************************)
(* Admins of an organisation: who may act in its name.                     *)
(*                                                                         *)
(* addAdmin and removeAdmin check the registry as it is and record an      *)
(* activity.  The workflows store or delete the AdminAuthorization, create *)
(* or delete the admin's grants, link the RegistrySet-scoped one from the  *)
(* admin's registration, which is the mark the admin gate looks for, and   *)
(* rewrite the access control of the registry set from the authorizations  *)
(* there are.  Three records of one fact, written by workflows that may    *)
(* run beside each other and again.                                        *)
(***************************************************************************)
EXTENDS Naturals, FiniteSets

CONSTANTS Person,        \* registered social agents
          Founder,       \* those who are admins at the beginning
          Addition, Removal,   \* AdminAuthorizationGranted and -Revoked activities
          RegistrySet,   \* the scope of the grant that marks an admin
          DataRegistry,  \* the scopes of an admin's other grants
          Run,           \* runs of the admin workflows
          None,          \* no activity
          Personal,      \* the context is the signed-in user's own
          MaxLost        \* bound: results lost and answers failed in one behaviour

Activity == Addition \cup Removal
Scope == {RegistrySet} \cup DataRegistry

ASSUME FounderAssumption == /\ Founder \subseteq Person
                            /\ Personal \in BOOLEAN
                            /\ ~ Personal => Founder # {}
ASSUME ActivityAssumption == Addition \cap Removal = {}
ASSUME ScopeAssumption == RegistrySet \notin DataRegistry
ASSUME LostAssumption == MaxLost \in Nat

(* An authorization is known by the addition that minted its id.           *)
Authorization == [grantee : Person, id : Addition \cup {None}]
AdminGrant == [grantee : Person, scope : Scope, by : Run \cup {None}]

ASSUME NoneAssumption == None \notin Authorization \cup Activity \cup Run

VARIABLES wanted,      \* recorded activity -> the authorization it embeds
          done,        \* activities some completion targets
          inbox,       \* notifications on their way to the webhook
          auths,       \* AdminAuthorizations in the AuthorizationRegistry
          grants,      \* AdminGrants in the GrantRegistry
          acrs,        \* those with an access control resource
          marks,       \* person -> hasAdminGrant of its registration
          fullAccess,  \* the agents of #fullAdminAccess
          run,         \* run -> its progress
          sweep,       \* the reconciliation sweep
          lost,        \* those so far (bounded by MaxLost)
          kept,        \* history: authorizations a removal took for gone
          muddled,     \* history: persons whose workflows got in each other's way
          late,        \* history: the last rewrite used an outdated list
          hurried      \* history: a removal was recorded before another was over

registryVars == <<auths, grants, acrs, marks, fullAccess>>
outboxVars == <<wanted, done, inbox>>
history == <<kept, muddled, late, hurried>>
vars == <<registryVars, outboxVars, run, sweep, lost, history>>

RunState ==
  [pc   : {"idle", "record", "store", "acr", "find", "delete", "read", "patch",
           "list", "rewrite", "complete", "done", "failing"},
   act  : Activity \cup {None},
   todo : SUBSET Scope,        \* grants still to store
   cur  : Scope \cup {None},   \* the one being stored
   gone : SUBSET AdminGrant,   \* grants still to delete
   read : SUBSET AdminGrant,   \* the links replaceAdminGrantLinks read
   list : SUBSET Person]       \* the admins syncAdminAcr read

IdleRun == [pc |-> "idle", act |-> None, todo |-> {}, cur |-> None, gone |-> {},
            read |-> {}, list |-> {}]

TypeOK ==
  /\ wanted \in [Activity -> Authorization \cup {None}]
  /\ done \cup inbox \subseteq {a \in Activity : wanted[a] # None}
  /\ auths \subseteq Authorization
  /\ grants \subseteq AdminGrant
  /\ acrs \subseteq AdminGrant
  /\ marks \in [Person -> SUBSET AdminGrant]
  /\ fullAccess \subseteq Person
  /\ run \in [Run -> RunState]
  /\ sweep \in [todo : SUBSET Activity, on : Run \cup {None}]
  /\ lost \in 0 .. MaxLost
  /\ kept \subseteq Authorization
  /\ muddled \subseteq Person
  /\ late \in BOOLEAN
  /\ hurried \in BOOLEAN

Admins == {x.grantee : x \in auths}
Recorded == {a \in Activity : wanted[a] # None}
Of(r) == wanted[run[r].act]
Who(r) == Of(r).grantee
Kept(p) == \E x \in kept \cap auths : x.grantee = p
Active(r) == run[r].pc \notin {"idle", "done"}

(* The grants of one run; ids are minted by the run.                       *)
GrantFor(r, s) == [grantee |-> Who(r), scope |-> s, by |-> r]

(* What the mark is replaced by.                                           *)
Target(r) == IF run[r].act \in Addition THEN {GrantFor(r, RegistrySet)} ELSE {}

(* A removal that has yet to delete: pending, or completed by one run while *)
(* a delivery, the sweep or another run still has it to do.                 *)
Deletes(a) ==
  /\ a \in Removal \cap Recorded
  /\ \/ a \in (Recorded \ done) \cup inbox \cup sweep.todo
     \/ \E r \in Run : run[r].pc = "record" /\ run[r].act = a

Mishap == lost < MaxLost /\ lost' = lost + 1
Goto(r, pc) == run' = [run EXCEPT ![r].pc = pc]

-----------------------------------------------------------------------------
(* Mutated: the webhook is told before the activity is written.             *)
RecordUnwritten(a, x) ==
  /\ wanted[a] = None
  /\ inbox' = inbox \cup {a}
  /\ UNCHANGED <<registryVars, wanted, done, run, sweep, lost, kept, muddled, late>>

(* The service calls write an activity; the webhook is told of it.          *)
Record(a, x) ==
  /\ wanted[a] = None
  /\ wanted' = [wanted EXCEPT ![a] = x]
  /\ inbox' = inbox \cup {a}
  /\ UNCHANGED <<registryVars, done, run, sweep, lost, kept, muddled, late>>

(* addAdmin: nobody who is an admin already; pending additions don't count. *)
AddAdmin(a, p) ==
  /\ p \notin Admins
  /\ Record(a, [grantee |-> p, id |-> a])
  /\ UNCHANGED hurried

(* Mutated: the last admin is not looked after.                             *)
RemoveUnguarded(a, x) ==
  /\ x \in auths
  /\ Record(a, x)
  /\ hurried' = (hurried \/ \E b \in Removal : Deletes(b))

(* removeAdmin: an admin, and not the last one of an organisation.          *)
RemoveAdmin(a, x) ==
  /\ x \in auths
  /\ Personal \/ Cardinality(auths) # 1
  /\ Record(a, x)
  /\ hurried' = (hurried \/ \E b \in Removal : Deletes(b))

(* A run begins; two of them for one person get in each other's way.        *)
StartRun(r, a) ==
  LET p == wanted[a].grantee
  IN /\ run[r].pc = "idle"
     /\ run' = [run EXCEPT ![r].pc = "record", ![r].act = a]
     /\ muddled' = IF \E q \in Run : Active(q) /\ Who(q) = p THEN muddled \cup {p} ELSE muddled
     /\ UNCHANGED <<registryVars, wanted, lost, kept, late, hurried>>

(* The webhook dispatches the activity under a random workflow id.          *)
Deliver(a, r) ==
  /\ a \in inbox
  /\ inbox' = inbox \ {a}
  /\ StartRun(r, a)
  /\ UNCHANGED <<done, sweep>>

-----------------------------------------------------------------------------
(* The first grant is the one scoped to the registry set, then the others,  *)
(* then the link.                                                           *)
NextGrant(r, state) ==
  \/ /\ RegistrySet \in state.todo
     /\ run' = [run EXCEPT ![r] = [state EXCEPT !.pc = "store", !.cur = RegistrySet]]
  \/ /\ RegistrySet \notin state.todo
     /\ \E s \in state.todo :
          run' = [run EXCEPT ![r] = [state EXCEPT !.pc = "store", !.cur = s]]
  \/ /\ state.todo = {}
     /\ run' = [run EXCEPT ![r] = [state EXCEPT !.pc = "read", !.cur = None]]

(* recordAdminAuthorizationAtId: find-first.  A repeated one brings back an *)
(* authorization that has been removed since, and grants and mark with it.  *)
StoreAdminAuthorization(r) ==
  /\ run[r].pc = "record"
  /\ run[r].act \in Addition
  /\ auths' = auths \cup {Of(r)}
  /\ kept' = kept \ {Of(r)}
  /\ \/ NextGrant(r, [run[r] EXCEPT !.todo = Scope]) /\ UNCHANGED lost
     \/ Mishap /\ UNCHANGED run
  /\ UNCHANGED <<grants, acrs, marks, fullAccess, outboxVars, sweep, muddled, late, hurried>>

(* deleteAdminAuthorizationAtId, 404-tolerant; what follows takes away all  *)
(* of the person's grants, whichever authorization they belong to.  Any     *)
(* failure to read the authorization counts as its absence, and nothing is  *)
(* deleted.                                                                 *)
DeleteAdminAuthorization(r) ==
  LET another == \E x \in auths \ {Of(r)} : x.grantee = Who(r)
  IN /\ run[r].pc = "record"
     /\ run[r].act \in Removal
     /\ \/ /\ auths' = auths \ {Of(r)}
           /\ kept' = kept \ {Of(r)}
           /\ UNCHANGED lost
        \/ /\ Of(r) \in auths
           /\ kept' = kept \cup {Of(r)}
           /\ Mishap
           /\ UNCHANGED auths
     /\ muddled' = IF another THEN muddled \cup {Who(r)} ELSE muddled
     /\ Goto(r, "find")
     /\ UNCHANGED <<grants, acrs, marks, fullAccess, outboxVars, sweep, late, hurried>>

(* storeAdminGrant: PUT with If-None-Match, refused the second time.        *)
StoreAdminGrant(r) ==
  LET g == GrantFor(r, run[r].cur)
  IN /\ run[r].pc = "store"
     /\ g \notin grants
     /\ grants' = grants \cup {g}
     /\ \/ Goto(r, "acr") /\ UNCHANGED lost
        \/ Mishap /\ UNCHANGED run
     /\ UNCHANGED <<auths, acrs, marks, fullAccess, outboxVars, sweep, history>>

CreateAdminGrantAcr(r) ==
  /\ run[r].pc = "acr"
  /\ acrs' = acrs \cup {GrantFor(r, run[r].cur)}
  /\ \/ NextGrant(r, [run[r] EXCEPT !.todo = @ \ {run[r].cur}]) /\ UNCHANGED lost
     \/ Mishap /\ UNCHANGED run
  /\ UNCHANGED <<auths, grants, marks, fullAccess, outboxVars, sweep, history>>

(* findAdminGrants: whatever is granted to the person.                      *)
FindAdminGrants(r) ==
  LET found == {g \in grants : g.grantee = Who(r)}
  IN /\ run[r].pc = "find"
     /\ run' = [run EXCEPT ![r].gone = found, ![r].pc = IF found = {} THEN "read" ELSE "delete"]
     /\ UNCHANGED <<registryVars, outboxVars, sweep, lost, history>>

(* deleteAdminGrants, one grant and its ACR, 404-tolerant.                  *)
DeleteAdminGrant(r) ==
  /\ run[r].pc = "delete"
  /\ \E g \in run[r].gone :
       /\ grants' = grants \ {g}
       /\ acrs' = acrs \ {g}
       /\ run' = [run EXCEPT ![r].gone = @ \ {g},
                             ![r].pc = IF run[r].gone = {g} THEN "read" ELSE @]
  /\ UNCHANGED <<auths, marks, fullAccess, outboxVars, sweep, lost, history>>

(* replaceAdminGrantLink: read the registration, PATCH the difference.      *)
ReadMarks(r) ==
  /\ run[r].pc = "read"
  /\ run' = [run EXCEPT ![r].pc = "patch", ![r].read = marks[Who(r)]]
  /\ UNCHANGED <<registryVars, outboxVars, sweep, lost, history>>

(* Mutated: what was read is not deleted.                                   *)
InsertMarks(r) ==
  /\ run[r].pc = "patch"
  /\ marks' = [marks EXCEPT ![Who(r)] = @ \cup Target(r)]
  /\ Goto(r, "list")
  /\ UNCHANGED <<auths, grants, acrs, fullAccess, outboxVars, sweep, lost, history>>

(* The PATCH: links nobody has read stay.                                   *)
PatchMarks(r) ==
  /\ run[r].pc = "patch"
  /\ marks' = [marks EXCEPT ![Who(r)] = (@ \ (run[r].read \ Target(r))) \cup Target(r)]
  /\ \/ Goto(r, "list") /\ UNCHANGED lost
     \/ Mishap /\ Goto(r, "read")
  /\ UNCHANGED <<auths, grants, acrs, fullAccess, outboxVars, sweep, history>>

(* syncAdminAcr: list the admins ...                                        *)
ListAdmins(r) ==
  /\ run[r].pc = "list"
  /\ run' = [run EXCEPT ![r].pc = "rewrite", ![r].list = Admins]
  /\ UNCHANGED <<registryVars, outboxVars, sweep, lost, history>>

(* Mutated: admins are added to the control and never taken away.           *)
AddToAcr(r) ==
  /\ run[r].pc = "rewrite"
  /\ fullAccess' = fullAccess \cup run[r].list
  /\ late' = (run[r].list # Admins)
  /\ Goto(r, "complete")
  /\ UNCHANGED <<auths, grants, acrs, marks, outboxVars, sweep, lost, kept, muddled, hurried>>

(* ... and put the control that names them in place of the old one, whoever *)
(* has come or gone since.                                                  *)
RewriteAcr(r) ==
  /\ run[r].pc = "rewrite"
  /\ fullAccess' = run[r].list
  /\ late' = (run[r].list # Admins)
  /\ \/ Goto(r, "complete") /\ UNCHANGED lost
     \/ Mishap /\ Goto(r, "list")
  /\ UNCHANGED <<auths, grants, acrs, marks, outboxVars, sweep, kept, muddled, hurried>>

(* createAdminGrantAcr and syncAdminAcr throw at every attempt: an admin    *)
(* has no authorization agent, or the resource has no acl link.             *)
FailAlways(r) ==
  /\ run[r].pc \in {"acr", "rewrite"}
  /\ Goto(r, "failing")
  /\ Mishap
  /\ UNCHANGED <<registryVars, outboxVars, sweep, history>>

(* Mutated: a repeated completion is an error.                              *)
MarkDoneOnce(r) ==
  /\ run[r].pc = "complete"
  /\ run[r].act \notin done
  /\ done' = done \cup {run[r].act}
  /\ \/ Goto(r, "done") /\ UNCHANGED lost
     \/ Mishap /\ UNCHANGED run
  /\ UNCHANGED <<registryVars, wanted, inbox, sweep, history>>

MarkDone(r) ==
  /\ run[r].pc = "complete"
  /\ done' = done \cup {run[r].act}
  /\ \/ Goto(r, "done") /\ UNCHANGED lost
     \/ Mishap /\ UNCHANGED run
  /\ UNCHANGED <<registryVars, wanted, inbox, sweep, history>>

(* reconcileActivities, over the admin activities pending at its start.     *)
StartSweep ==
  /\ sweep = [todo |-> {}, on |-> None]
  /\ Recorded \ done # {}
  /\ sweep' = [sweep EXCEPT !.todo = Recorded \ done]
  /\ UNCHANGED <<registryVars, outboxVars, run, lost, history>>

Rerun(r) ==
  /\ sweep.on = None
  /\ \E a \in sweep.todo :
       /\ StartRun(r, a)
       /\ sweep' = [todo |-> sweep.todo \ {a}, on |-> r]
  /\ UNCHANGED <<done, inbox>>

FinishRerun ==
  /\ sweep.on # None
  /\ run[sweep.on].pc = "done"
  /\ done' = done \cup {run[sweep.on].act}
  /\ sweep' = [sweep EXCEPT !.on = None]
  /\ UNCHANGED <<registryVars, wanted, inbox, run, lost, history>>

-----------------------------------------------------------------------------
FoundingGrant(p) == [grantee |-> p, scope |-> RegistrySet, by |-> None]

Init ==
  /\ wanted = [a \in Activity |-> None]
  /\ done = {} /\ inbox = {}
  /\ auths = [grantee : Founder, id : {None}]
  /\ grants = [grantee : Founder, scope : Scope, by : {None}]
  /\ acrs = grants
  /\ marks = [p \in Person |-> IF p \in Founder THEN {FoundingGrant(p)} ELSE {}]
  /\ fullAccess = Founder
  /\ run = [r \in Run |-> IdleRun]
  /\ sweep = [todo |-> {}, on |-> None]
  /\ lost = 0
  /\ kept = {} /\ muddled = {} /\ late = FALSE /\ hurried = FALSE

RunStep(r) == \/ StoreAdminAuthorization(r)
              \/ DeleteAdminAuthorization(r)
              \/ StoreAdminGrant(r)
              \/ CreateAdminGrantAcr(r)
              \/ FindAdminGrants(r)
              \/ DeleteAdminGrant(r)
              \/ ReadMarks(r)
              \/ PatchMarks(r)
              \/ ListAdmins(r)
              \/ RewriteAcr(r)
              \/ MarkDone(r)
              \/ FailAlways(r)

Next ==
  \/ \E a \in Addition, p \in Person : AddAdmin(a, p)
  \/ \E a \in Removal, x \in Authorization : RemoveAdmin(a, x)
  \/ \E a \in Activity, r \in Run : Deliver(a, r)
  \/ \E r \in Run : RunStep(r) \/ Rerun(r)
  \/ StartSweep
  \/ FinishRerun

Spec == Init /\ [][Next]_vars

(* Temporal goes on with what it has started.                               *)
FairSpec == Spec /\ \A r \in Run : WF_vars(RunStep(r))

-----------------------------------------------------------------------------
Quiet == (\A r \in Run : ~ Active(r)) /\ sweep.on = None

(* When all runs are over, a person is marked as an admin by a linked,      *)
(* readable grant just if an authorization says so, and nobody else is left *)
(* with admin grants: the gate (requireOrgAdmin) and the registry agree,    *)
(* except about persons whose workflows got in each other's way.  A removal *)
(* that failed to read the authorization errs to the safe side only: the    *)
(* authorization is still there, the mark is gone.                          *)
MarksMatchAuthorizations ==
  Quiet => \A p \in Person \ muddled :
             /\ marks[p] # {} => p \in Admins
             /\ p \in Admins => marks[p] # {} \/ Kept(p)
             /\ marks[p] \subseteq grants \cap acrs
             /\ p \in Admins \/ ~ \E g \in grants : g.grantee = p

(* The access control of the registry set names the admins there are, in    *)
(* whatever order admins came and went, unless the last rewrite wrote a     *)
(* list that was out of date.                                               *)
AccessMatchesAuthorizations == Quiet /\ ~ late => fullAccess = Admins

(* The guard in removeAdmin is enough as long as a removal is recorded only *)
(* when the ones before it are over: completed, and not about to be run     *)
(* again by a late delivery or by the sweep.                                *)
LastAdminGuarded == ~ Personal /\ auths = {} => hurried

Wedged(r) == run[r].pc = "store" /\ GrantFor(r, run[r].cur) \in grants

(* Every run that was started completes its activity, but for two ways to   *)
(* stay where it is: it repeats a refused PUT, or what it asks for fails at *)
(* every attempt.                                                           *)
AdminRunsComplete ==
  \A r \in Run : run[r].pc # "idle" ~> run[r].pc \in {"done", "failing"} \/ Wedged(r)

(* What the comment in removeAdmin says: the organisation never ends up     *)
(* without an admin, the workflow checks again.                             *)
NeverAdminless == ~ Personal => Admins # {}
=============================================================================
