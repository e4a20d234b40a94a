------------------------- MODULE RoleChangesProofs -------------------------
(***************************************************************************)
(* RoleChanges proved for every value of the constants.  Granting's own    *)
(* invariant does not hold here, because roles and authorizations come and *)
(* go, so the part of it that does is proved again, on the lemmas about a  *)
(* child's step that hold in both.  The second half proves that all        *)
(* registrations are current in the end: it accounts, at every moment, for *)
(* who still owes whom a regeneration.                                     *)
(***************************************************************************)
EXTENDS RoleChanges, GrantingProofs

(* What is left of granting's invariant when authorizations are deleted    *)
(* under it: a leg at work belongs to a run, a run to a recorded activity. *)
RunsRecorded ==
  /\ \A p \in Leg : leg[p].pc # "idle" => run[RunOf(p)].pc # "idle"
  /\ \A r \in GrantRun : run[r].pc # "idle" => run[r].act \in outbox
  /\ sweep.pc = "child" => sweep.on \in GrantRun /\ run[sweep.on].pc # "idle"
  /\ sweep.todo \subseteq outbox

GrantingInv == TypeOK /\ GrantsInv /\ RunsRecorded

(* A child's step.                                                         *)
LEMMA ChildStepGranting ==
  ASSUME GrantingInv, NEW c \in Child, ChildStep(c), UNCHANGED grantingVars
  PROVE  GrantingInv' /\ UNCHANGED store
<1>1. RegenerationTypeOK' /\ GrantsInv'
  BY ChildStepType, ChildStepGrants DEF GrantingInv, TypeOK
<1>2. UNCHANGED store
  BY ChildStepFrame DEF GrantingInv, TypeOK
<1>3. TypeOK' /\ RunsRecorded'
  BY <1>1 DEF GrantingInv, TypeOK, RunsRecorded, grantingVars
<1>. QED  BY <1>1, <1>2, <1>3 DEF GrantingInv

(* A run's start, whoever starts it.                                       *)
LEMMA StartRunGranting ==
  ASSUME GrantingInv, NEW a \in outbox, NEW r \in GrantRun, StartRun(r, a),
         UNCHANGED <<regenerationVars, outbox, done>>,
         inbox' \subseteq inbox,
         \/ UNCHANGED sweep
         \/ sweep.pc = "loop" /\ sweep' = [sweep EXCEPT !.pc = "child", !.on = r]
  PROVE  GrantingInv'
<1>. USE DEF GrantingInv, regenerationVars, store
<1>0. a \in Activity
  BY DEF TypeOK
<1>1. TypeOK'
  <2>1. run' \in [GrantRun -> RunState]
    BY <1>0 DEF StartRun, TypeOK, RunState
  <2>2. leg' \in [Leg -> LegState]
    BY <1>0, GroupDA DEF StartRun, TypeOK, LegState, IdleLeg
  <2>3. sweep' \in SweepState
    BY DEF TypeOK, SweepState
  <2>. QED  BY <2>1, <2>2, <2>3 DEF TypeOK, RegenerationTypeOK, ChildState, Grant
<1>2. GrantsInv'
  BY DEF GrantsInv, GrantOf
<1>3. RunsRecorded'
  <2>1. \A q \in GrantRun : run'[q] = IF q = r THEN [pc |-> "running", act |-> a] ELSE run[q]
    BY DEF StartRun, TypeOK
  <2>2. \A p \in Leg : RunOf(p) # r => leg'[p] = leg[p]
    BY DEF StartRun
  <2>3. \A p \in Leg : leg'[p].pc # "idle" => run'[RunOf(p)].pc # "idle"
    BY <2>1, <2>2, LegParts DEF RunsRecorded
  <2>4. sweep' # sweep => sweep'.pc = "child" /\ sweep'.on = r /\ sweep'.todo = sweep.todo
    BY DEF TypeOK, SweepState
  <2>. QED  BY <2>1, <2>3, <2>4 DEF RunsRecorded
<1>. QED  BY <1>1, <1>2, <1>3

(* One PUT of storeDataAuthorizations.                                     *)
LEMMA StoreAuthorizationGranting ==
  ASSUME GrantingInv, NEW p \in Leg, NEW d \in DA, StoreAuthorization(p, d)
  PROVE  GrantingInv' /\ UNCHANGED roles
<1>. USE DEF GrantingInv
<1>. DEFINE rest == leg[p].todo \ {d}
<1>1. /\ leg[p].pc = "materialize"
      /\ auth' = auth \cup {d}
      /\ UNCHANGED <<roles, members, registered, grants, acrs, links, child, overlap,
                     outbox, done, inbox, run, sweep>>
      /\ \A q \in Leg \ {p} : leg'[q] = leg[q]
  BY DEF StoreAuthorization, TypeOK
<1>2. \/ /\ leg' = [leg EXCEPT ![p].todo = rest,
                              ![p].pc = IF rest = {} THEN "resolve" ELSE @]
         /\ UNCHANGED lost
      \/ Mishap /\ leg' = [leg EXCEPT ![p].todo = Share(p)]
  BY DEF StoreAuthorization
<1>3. leg[p] \in LegState /\ Share(p) \subseteq DA
  <2>1. run[RunOf(p)].act \in Activity
    BY <1>1, LegParts DEF RunsRecorded, TypeOK
  <2>. QED  BY <2>1, GroupDA DEF TypeOK, Share
<1>4. TypeOK'
  <2>1. leg' \in [Leg -> LegState]
    BY <1>1, <1>2, <1>3 DEF TypeOK, LegState
  <2>2. lost' \in 0 .. MaxLost
    BY <1>2, LostAssumption DEF TypeOK, RegenerationTypeOK, Mishap
  <2>. QED  BY <1>1, <2>1, <2>2 DEF TypeOK, RegenerationTypeOK
<1>5. GrantsInv'
  BY <1>1 DEF GrantsInv, GrantOf
<1>6. RunsRecorded'
  BY <1>1 DEF RunsRecorded
<1>. QED  BY <1>1, <1>4, <1>5, <1>6

(* A leg finds out whom it is for.                                         *)
LEMMA ResolveGranteeGranting ==
  ASSUME GrantingInv, NEW p \in Leg, ResolveGrantee(p)
  PROVE  GrantingInv' /\ UNCHANGED roles
<1>. USE DEF GrantingInv
<1>1. /\ leg[p].pc = "resolve"
      /\ leg' = [leg EXCEPT ![p].pc = "fanout"]
      /\ registered' = registered \cup ({GranteeIn(p)} \cap Application)
      /\ UNCHANGED <<auth, roles, members, grants, acrs, links, child, lost, overlap,
                     outbox, done, inbox, run, sweep>>
  BY DEF ResolveGrantee
<1>2. TypeOK'
  BY <1>1, ApplicationAssumption DEF TypeOK, RegenerationTypeOK, LegState
<1>3. \A q \in Leg : leg'[q].pc # "idle" => leg[q].pc # "idle"
  BY <1>1 DEF TypeOK, LegState
<1>. QED  BY <1>1, <1>2, <1>3 DEF GrantsInv, GrantOf, RunsRecorded

(* Children that start have nothing of an earlier child's.                 *)
LEMMA StartChildrenGranting ==
  ASSUME RegenerationTypeOK, GrantsInv, NEW p, NEW agents \in SUBSET Agent,
         StartChildren(p, agents), UNCHANGED <<grants, acrs>>
  PROVE  /\ child' \in [Child -> ChildState]
         /\ overlap' \subseteq Agent
         /\ GrantsInv'
<1>. DEFINE fresh == [IdleChild EXCEPT !.pc = "authorizations"]
            started(c) == ParentOf(c) = p /\ AgentOf(c) \in agents
<1>1. fresh \in ChildState /\ fresh.pc = "authorizations" /\ fresh.new = {} /\ fresh.blind = {}
  BY DEF IdleChild, ChildState
<1>2. child' = [c \in Child |-> IF started(c) THEN fresh ELSE child[c]]
  BY DEF StartChildren
<1>. HIDE DEF fresh
<1>3. child' \in [Child -> ChildState]
  BY <1>1, <1>2 DEF RegenerationTypeOK
<1>4. overlap' \subseteq Agent
  BY DEF StartChildren, RegenerationTypeOK
<1>5. ASSUME NEW c \in Child PROVE GrantsInvOf(c)'
  <2>1. CASE started(c)
    BY <1>1, <1>2, <2>1 DEF GrantsInvOf
  <2>2. CASE ~ started(c)
    BY <1>2, <2>2 DEF GrantsInv, GrantsInvOf, GrantOf
  <2>. QED  BY <2>1, <2>2
<1>6. GrantsInv'
  BY <1>5 DEF GrantsInv, GrantsInvOf
<1>. QED  BY <1>3, <1>4, <1>6

(* The children of a leg start.                                            *)
LEMMA FanOutGranting ==
  ASSUME GrantingInv, NEW p \in Leg, FanOut(p)
  PROVE  GrantingInv' /\ UNCHANGED roles
<1>. USE DEF GrantingInv
<1>. DEFINE agents == AgentsIn(GranteeIn(p))
<1>1. /\ leg[p].pc = "fanout"
      /\ StartChildren(p, agents)
      /\ leg' = [leg EXCEPT ![p].pc = "children", ![p].to = agents]
      /\ UNCHANGED <<store, grants, acrs, links, lost, outbox, done, inbox, run, sweep>>
  BY DEF FanOut, AgentsIn
<1>2. agents \subseteq Agent
  BY AgentsInAgents, LegParts DEF TypeOK
<1>3. child' \in [Child -> ChildState] /\ overlap' \subseteq Agent /\ GrantsInv'
  BY <1>1, <1>2, StartChildrenGranting DEF TypeOK
<1>4. leg' \in [Leg -> LegState]
  BY <1>1, <1>2 DEF TypeOK, LegState
<1>5. TypeOK'
  BY <1>1, <1>3, <1>4 DEF TypeOK, RegenerationTypeOK, store
<1>6. \A q \in Leg : leg'[q].pc # "idle" => leg[q].pc # "idle"
  BY <1>1 DEF TypeOK, LegState
<1>. QED  BY <1>1, <1>3, <1>5, <1>6 DEF RunsRecorded, store

(* A leg ends.                                                             *)
LEMMA JoinChildrenGranting ==
  ASSUME GrantingInv, NEW p \in Leg, JoinChildren(p)
  PROVE  GrantingInv' /\ UNCHANGED roles
<1>. USE DEF GrantingInv, regenerationVars, store
<1>1. /\ leg[p].pc = "children"
      /\ leg' = [leg EXCEPT ![p].pc = "done"]
      /\ UNCHANGED <<regenerationVars, outbox, done, inbox, run, sweep>>
  BY DEF JoinChildren
<1>2. TypeOK'
  BY <1>1 DEF TypeOK, RegenerationTypeOK, LegState
<1>3. \A q \in Leg : leg'[q].pc # "idle" => leg[q].pc # "idle"
  BY <1>1 DEF TypeOK, LegState
<1>. QED  BY <1>1, <1>2, <1>3 DEF GrantsInv, GrantOf, RunsRecorded

(* A run marks its activity done.                                          *)
LEMMA MarkDoneGranting ==
  ASSUME GrantingInv, NEW r \in GrantRun, MarkDone(r)
  PROVE  GrantingInv' /\ UNCHANGED roles
<1>. USE DEF GrantingInv, store
<1>1. /\ run[r].pc = "running"
      /\ done' = done \cup {run[r].act}
      /\ UNCHANGED <<store, grants, acrs, links, child, overlap, outbox, inbox, leg, sweep>>
      /\ \/ run' = [run EXCEPT ![r].pc = "done"] /\ UNCHANGED lost
         \/ Mishap /\ UNCHANGED run
  BY DEF MarkDone
<1>2. run[r].act \in outbox
  BY <1>1 DEF RunsRecorded
<1>3. /\ \A q \in GrantRun : run'[q].act = run[q].act
      /\ \A q \in GrantRun : run'[q].pc = "idle" <=> run[q].pc = "idle"
  BY <1>1 DEF TypeOK, RunState
<1>4. TypeOK'
  <2>1. run' \in [GrantRun -> RunState]
    BY <1>1 DEF TypeOK, RunState
  <2>2. lost' \in 0 .. MaxLost
    BY <1>1, LostAssumption DEF TypeOK, RegenerationTypeOK, Mishap
  <2>. QED  BY <1>1, <1>2, <2>1, <2>2 DEF TypeOK, RegenerationTypeOK
<1>5. GrantsInv'
  BY <1>1 DEF GrantsInv, GrantOf
<1>6. RunsRecorded'
  <2>1. sweep.pc = "child" => sweep.on \in GrantRun /\ run'[sweep.on].pc # "idle"
    BY <1>3 DEF RunsRecorded
  <2>. QED  BY <1>1, <1>3, <2>1, LegParts DEF RunsRecorded
<1>. QED  BY <1>1, <1>4, <1>5, <1>6

(* Whatever granting does keeps its part, and leaves the roles alone.      *)
LEMMA NextGranting ==
  ASSUME GrantingInv, Next
  PROVE  GrantingInv' /\ UNCHANGED roles
<1>. USE DEF regenerationVars, store
<1>1. ASSUME NEW a \in Activity, RecordAuthorization(a) PROVE GrantingInv' /\ UNCHANGED roles
  BY <1>1 DEF RecordAuthorization, GrantingInv, TypeOK, RegenerationTypeOK, GrantsInv, GrantOf,
              RunsRecorded
<1>2. ASSUME NEW a \in Activity, NEW r \in GrantRun, Deliver(a, r)
      PROVE  GrantingInv' /\ UNCHANGED roles
  <2>1. a \in outbox /\ inbox' \subseteq inbox
    BY <1>2 DEF Deliver, GrantingInv, TypeOK
  <2>2. GrantingInv'
    BY <1>2, <2>1, StartRunGranting DEF Deliver
  <2>. QED  BY <1>2, <2>2 DEF Deliver
<1>3. ASSUME NEW p \in Leg, LegStep(p) PROVE GrantingInv' /\ UNCHANGED roles
  BY <1>3, StoreAuthorizationGranting, ResolveGranteeGranting, FanOutGranting,
     JoinChildrenGranting DEF LegStep
<1>4. ASSUME NEW c \in Child, ChildStep(c), UNCHANGED grantingVars
      PROVE  GrantingInv' /\ UNCHANGED roles
  BY <1>4, ChildStepGranting
<1>5. ASSUME NEW r \in GrantRun, MarkDone(r) PROVE GrantingInv' /\ UNCHANGED roles
  BY <1>5, MarkDoneGranting
<1>6. ASSUME NEW r \in GrantRun, SweepNext(r) PROVE GrantingInv' /\ UNCHANGED roles
  <2>1. PICK a \in sweep.todo : /\ StartRun(r, a)
                                /\ sweep' = [sweep EXCEPT !.pc = "child", !.on = r]
    BY <1>6 DEF SweepNext
  <2>2. a \in outbox
    BY DEF GrantingInv, RunsRecorded
  <2>3. GrantingInv'
    BY <1>6, <2>1, <2>2, StartRunGranting DEF SweepNext
  <2>. QED  BY <1>6, <2>3 DEF SweepNext
<1>7. CASE StartSweep
  <2>1. /\ sweep.pc = "off" /\ sweep' = [sweep EXCEPT !.pc = "loop", !.todo = outbox \ done]
        /\ UNCHANGED <<regenerationVars, outbox, done, inbox, run, leg>>
    BY <1>7 DEF StartSweep
  <2>2. sweep' \in SweepState /\ sweep'.pc = "loop" /\ sweep'.todo = outbox \ done
    BY <2>1 DEF GrantingInv, TypeOK, SweepState
  <2>3. TypeOK'
    BY <2>1, <2>2 DEF GrantingInv, TypeOK, RegenerationTypeOK
  <2>. QED  BY <2>1, <2>2, <2>3 DEF GrantingInv, GrantsInv, GrantOf, RunsRecorded
<1>8. CASE SweepMarkDone
  <2>1. run[sweep.on].act \in outbox
    BY <1>8 DEF SweepMarkDone, GrantingInv, RunsRecorded
  <2>2. /\ done' = done \cup {run[sweep.on].act}
        /\ sweep'.pc \in {"off", "loop"} /\ sweep'.on = None
        /\ sweep'.todo \subseteq sweep.todo
        /\ UNCHANGED <<regenerationVars, outbox, inbox, run, leg>>
    BY <1>8 DEF SweepMarkDone
  <2>3. sweep' \in SweepState
    BY <1>8, <2>2 DEF SweepMarkDone, SweepState, GrantingInv, TypeOK
  <2>4. TypeOK'
    BY <2>1, <2>2, <2>3 DEF GrantingInv, TypeOK, RegenerationTypeOK
  <2>. QED  BY <2>2, <2>4 DEF GrantingInv, GrantsInv, GrantOf, RunsRecorded
<1>. QED  BY <1>1, <1>2, <1>3, <1>4, <1>5, <1>6, <1>7, <1>8 DEF Next

-----------------------------------------------------------------------------
(* What ties a run of a role workflow to its activity: the activity has    *)
(* been recorded, and the run goes the way of its class.                   *)
StepsOf(a) ==
  IF a \in Creation THEN {"create", "children", "done"}
  ELSE IF a \in Update THEN {"load", "put", "usage", "spawn", "children", "done"}
  ELSE {"usage", "authorizations", "delete", "spawn", "children", "done"}

RoleRunsInv ==
  /\ \A r \in RoleRun : roleRun[r].pc # "idle" => /\ roleRun[r].act \in Recorded
                                                   /\ roleRun[r].pc \in StepsOf(roleRun[r].act)
  /\ roleSweep.on # None => roleRun[roleSweep.on].pc # "idle"
  /\ roleSweep.todo \subseteq Recorded

RoleInv == /\ RoleTypeOK
           /\ GrantsInv
           /\ RunsRecorded
           /\ RoleRunsInv

(* A recorded activity says what its role is to be.                        *)
LEMMA RecordedRole ==
  ASSUME RoleTypeOK, NEW a \in Recorded
  PROVE  /\ wanted[a] \in RoleToBe
         /\ wanted[a].role \in Role
         /\ wanted[a].members \subseteq Agent
  BY DEF RoleTypeOK, Recorded, RoleToBe

(* Steps that leave the role runs' progress alone.                         *)
LEMMA RolesUntouched ==
  ASSUME RoleInv, UNCHANGED <<roleRun, roleSweep>>,
         Recorded \subseteq Recorded'
  PROVE  RoleRunsInv'
  BY DEF RoleInv, RoleRunsInv

(* A step of granting beside the roles.                                    *)
LEMMA GrantingRoleInv ==
  ASSUME RoleInv, Next, CoverMembers, UNCHANGED roleVars
  PROVE  RoleInv'
<1>. USE DEF roleVars
<1>1. GrantingInv' /\ UNCHANGED roles
  BY NextGranting DEF RoleInv, RoleTypeOK, GrantingInv
<1>2. cover' \in [Child -> [DA -> SUBSET Agent]]
  <2>1. Owners \in [DA -> SUBSET Agent]
    BY OwnerRoleAssumption DEF Owners, RoleInv, RoleTypeOK, TypeOK, RegenerationTypeOK
  <2>. HIDE DEF Owners
  <2>. QED  BY <2>1 DEF CoverMembers, RoleInv, RoleTypeOK
<1>3. RoleTypeOK'
  BY <1>1, <1>2 DEF RoleInv, RoleTypeOK, GrantingInv
<1>4. Recorded' = Recorded
  BY DEF Recorded
<1>5. RoleRunsInv'
  BY <1>4, RolesUntouched
<1>. QED  BY <1>1, <1>3, <1>5 DEF RoleInv, GrantingInv

(* What a role activity's step leaves to granting, where it touches no     *)
(* child.                                                                  *)
LEMMA RegistryGranting ==
  ASSUME RoleInv, auth' \subseteq DA, roles' \subseteq Role,
         members' \in [Role -> SUBSET Agent], lost' \in 0 .. MaxLost,
         UNCHANGED <<registered, grants, acrs, links, child, overlap, grantingVars>>
  PROVE  GrantingInv'
<1>. USE DEF RoleInv, grantingVars
<1>1. TypeOK'
  BY DEF RoleTypeOK, TypeOK, RegenerationTypeOK
<1>2. GrantsInv' /\ RunsRecorded'
  BY DEF GrantsInv, GrantOf, RunsRecorded
<1>. QED  BY <1>1, <1>2 DEF GrantingInv

(* What a role run's step leaves of the role part, be the roles as they    *)
(* may: it is enough that its own run stays recorded and in its class.     *)
LEMMA RoleStepRuns ==
  ASSUME RoleInv, NEW r \in RoleRun,
         roleRun[r].pc # "idle",
         roleRun' \in [RoleRun -> RoleRunState],
         \A s \in RoleRun \ {r} : roleRun'[s] = roleRun[s],
         roleRun'[r].act = roleRun[r].act,
         roleRun'[r].pc # "idle",
         roleRun'[r].pc \in StepsOf(roleRun[r].act),
         UNCHANGED <<wanted, roleSweep>>
  PROVE  RoleRunsInv'
<1>0. Recorded' = Recorded
  BY DEF Recorded
<1>1. \A s \in RoleRun : roleRun'[s].act = roleRun[s].act /\ (roleRun'[s].pc = "idle" <=> roleRun[s].pc = "idle")
  OBVIOUS
<1>2. roleSweep.on # None => roleSweep.on \in RoleRun
  BY DEF RoleInv, RoleTypeOK
<1>. QED  BY <1>0, <1>1, <1>2 DEF RoleInv, RoleRunsInv

(* The step of a run tells the class of its activity.                      *)
LEMMA ClassOfStep ==
  ASSUME RoleInv, NEW r \in RoleRun, roleRun[r].pc # "idle"
  PROVE  /\ roleRun[r].pc = "create" => roleRun[r].act \in Creation
         /\ roleRun[r].pc \in {"load", "put"} => roleRun[r].act \in Update \ Creation
         /\ roleRun[r].pc \in {"authorizations", "delete"} =>
              roleRun[r].act \in Deletion \ (Creation \cup Update)
         /\ roleRun[r].pc \in {"usage", "spawn"} => roleRun[r].act \in (Update \cup Deletion) \ Creation
<1>1. roleRun[r].act \in RoleActivity /\ roleRun[r].pc \in StepsOf(roleRun[r].act)
  BY DEF RoleInv, RoleRunsInv, Recorded
<1>. QED  BY <1>1, RoleActivityAssumption DEF StepsOf, RoleActivity

(* The types, once granting's part of them is known.                       *)
LEMMA RoleStepType ==
  ASSUME RoleInv, GrantingInv',
         roleRun' \in [RoleRun -> RoleRunState],
         stale' \subseteq Role,
         UNCHANGED <<wanted, roleDone, roleInbox, roleSweep, cover>>
  PROVE  RoleTypeOK'
  BY DEF RoleInv, RoleTypeOK, GrantingInv

(* A role run that is under way knows its role.                            *)
LEMMA RoleRunFacts ==
  ASSUME RoleInv, NEW r \in RoleRun, roleRun[r].pc # "idle"
  PROVE  /\ roleRun[r] \in RoleRunState
         /\ roleRun[r].act \in Recorded
         /\ RoleIn(r) \in Role
         /\ MembersIn(r) \subseteq Agent
<1>1. roleRun[r].act \in Recorded
  BY DEF RoleInv, RoleRunsInv
<1>. QED  BY <1>1, RecordedRole DEF RoleInv, RoleTypeOK, RoleIn, MembersIn

(* A run that goes on to a step, and nothing else of it.                   *)
LEMMA GotoEffect ==
  ASSUME RoleInv, NEW r \in RoleRun, NEW pc, Goto(r, pc),
         pc \in {"usage", "load", "spawn", "children", "done"}
  PROVE  /\ roleRun' \in [RoleRun -> RoleRunState]
         /\ \A s \in RoleRun \ {r} : roleRun'[s] = roleRun[s]
         /\ roleRun'[r].act = roleRun[r].act
         /\ roleRun'[r].pc = pc
<1>1. roleRun[r] \in RoleRunState /\ roleRun \in [RoleRun -> RoleRunState]
  BY DEF RoleInv, RoleTypeOK
<1>. QED  BY <1>1 DEF Goto, RoleRunState

(* createRoleAtId.                                                         *)
LEMMA CreateRoleInv ==
  ASSUME RoleInv, NEW r \in RoleRun, CreateRoleAtId(r)
  PROVE  RoleInv'
<1>. DEFINE q == RoleIn(r)
            outdated == \E b \in Deletion \cap Recorded : wanted[b].role = q
<1>1. /\ roleRun[r].pc = "create"
      /\ \/ q \in roles /\ UNCHANGED <<roles, members, stale>>
         \/ /\ q \notin roles
            /\ roles' = roles \cup {q}
            /\ members' = [members EXCEPT ![q] = MembersIn(r)]
            /\ stale' = IF outdated THEN stale \cup {q} ELSE stale
      /\ Goto(r, "children")
      /\ UNCHANGED <<registered, grants, acrs, links, cover, grantingVars, auth, child, lost,
                     overlap, wanted, roleDone, roleInbox, roleSweep>>
  BY DEF CreateRoleAtId, RegistryOnly
<1>2. roleRun[r] \in RoleRunState /\ q \in Role /\ MembersIn(r) \subseteq Agent
  BY <1>1, RoleRunFacts
<1>3. "children" \in StepsOf(roleRun[r].act)
  BY DEF StepsOf
<1>4. /\ roles' \subseteq Role /\ members' \in [Role -> SUBSET Agent] /\ stale' \subseteq Role
  BY <1>1, <1>2 DEF RoleInv, RoleTypeOK, TypeOK, RegenerationTypeOK
<1>5. GrantingInv'
  BY <1>1, <1>4, RegistryGranting DEF RoleInv, RoleTypeOK, TypeOK, RegenerationTypeOK
<1>6. /\ roleRun' \in [RoleRun -> RoleRunState]
      /\ \A s \in RoleRun \ {r} : roleRun'[s] = roleRun[s]
      /\ roleRun'[r].act = roleRun[r].act
      /\ roleRun'[r].pc = "children"
  BY <1>1, GotoEffect
<1>7. RoleTypeOK'
  BY <1>1, <1>4, <1>5, <1>6, RoleStepType
<1>8. RoleRunsInv'
  BY <1>1, <1>3, <1>6, RoleStepRuns
<1>. QED  BY <1>5, <1>7, <1>8 DEF RoleInv, GrantingInv

(* A step of a role run that only reads, or that changes nothing but the   *)
(* run.                                                                    *)
LEMMA ReadingRoleInv ==
  ASSUME RoleInv, NEW r \in RoleRun,
         UNCHANGED <<grantedVars, wanted, roleDone, roleInbox, roleSweep, stale>>,
         roleRun[r].pc # "idle",
         NEW next \in RoleRunState,
         roleRun' = [roleRun EXCEPT ![r] = next],
         next.act = roleRun[r].act,
         next.pc # "idle",
         next.pc \in StepsOf(roleRun[r].act)
  PROVE  RoleInv'
<1>. USE DEF grantedVars, regenerationVars
<1>1. GrantingInv'
  BY RegistryGranting DEF RoleInv, RoleTypeOK, TypeOK, RegenerationTypeOK
<1>2. /\ roleRun' \in [RoleRun -> RoleRunState]
      /\ \A s \in RoleRun \ {r} : roleRun'[s] = roleRun[s]
      /\ roleRun'[r] = next
  BY DEF RoleInv, RoleTypeOK
<1>3. RoleTypeOK'
  BY <1>1, <1>2, RoleStepType DEF RoleInv, RoleTypeOK
<1>4. RoleRunsInv'
  BY <1>2, RoleStepRuns
<1>. QED  BY <1>1, <1>3, <1>4 DEF RoleInv, GrantingInv

(* An update loads its role.                                               *)
LEMMA LoadRoleInv ==
  ASSUME RoleInv, NEW r \in RoleRun, LoadRole(r)
  PROVE  RoleInv'
<1>. DEFINE next == [roleRun[r] EXCEPT !.pc = "put", !.before = members[RoleIn(r)]]
<1>1. /\ roleRun[r].pc = "load"
      /\ UNCHANGED <<grantedVars, wanted, roleDone, roleInbox, roleSweep, stale>>
      /\ roleRun' = [roleRun EXCEPT ![r].pc = "put", ![r].before = members[RoleIn(r)]]
  BY DEF LoadRole
<1>2. roleRun[r] \in RoleRunState /\ RoleIn(r) \in Role
  BY <1>1, RoleRunFacts
<1>3. members[RoleIn(r)] \subseteq Agent
  BY <1>2 DEF RoleInv, RoleTypeOK, TypeOK, RegenerationTypeOK
<1>4. next \in RoleRunState /\ next.act = roleRun[r].act /\ next.pc = "put"
  BY <1>2, <1>3 DEF RoleRunState
<1>5. roleRun' = [roleRun EXCEPT ![r] = next]
  BY <1>1 DEF RoleInv, RoleTypeOK
<1>6. "put" \in StepsOf(roleRun[r].act)
  BY <1>1, ClassOfStep DEF StepsOf
<1>. HIDE DEF next
<1>. QED  BY <1>1, <1>4, <1>5, <1>6, ReadingRoleInv

(* The scan for who uses the role.                                         *)
LEMMA FindRoleUsageInv ==
  ASSUME RoleInv, NEW r \in RoleRun, FindRoleUsage(r)
  PROVE  RoleInv'
<1>. DEFINE q == RoleIn(r)
            asGrantee == {d \in auth : GranteeOf[d] = q}
            asOwner == {d \in auth : OwnerRole[d] = q /\ GranteeOf[d] # q}
            gone == IF roleRun[r].act \in Deletion THEN asGrantee \cup asOwner ELSE {}
            pc == IF roleRun[r].act \in Update THEN "spawn"
                  ELSE IF gone = {} THEN "delete" ELSE "authorizations"
            via == {GranteeOf[d] : d \in asOwner}
            next == [roleRun[r] EXCEPT !.used = asGrantee # {}, !.via = via, !.gone = gone, !.pc = pc]
<1>1. /\ roleRun[r].pc = "usage"
      /\ UNCHANGED <<grantedVars, wanted, roleDone, roleInbox, roleSweep, stale>>
      /\ roleRun' = [roleRun EXCEPT ![r].used = asGrantee # {}, ![r].via = via,
                                    ![r].gone = gone, ![r].pc = pc]
  BY DEF FindRoleUsage
<1>2. roleRun[r] \in RoleRunState
  BY <1>1, RoleRunFacts
<1>3. auth \subseteq DA
  BY DEF RoleInv, RoleTypeOK, TypeOK, RegenerationTypeOK
<1>4. via \subseteq Grantee /\ gone \subseteq DA
  BY <1>3, GranteeAssumption
<1>5. pc \in {"spawn", "delete", "authorizations"} /\ pc \in StepsOf(roleRun[r].act)
  BY <1>1, ClassOfStep DEF StepsOf
<1>6. roleRun' = [roleRun EXCEPT ![r] = next]
  BY <1>1 DEF RoleInv, RoleTypeOK
<1>7. (asGrantee # {}) \in BOOLEAN
  OBVIOUS
<1>. HIDE DEF asGrantee, gone, pc, via
<1>8. next \in RoleRunState /\ next.act = roleRun[r].act /\ next.pc = pc
  BY <1>2, <1>4, <1>5, <1>7 DEF RoleRunState
<1>. HIDE DEF next
<1>9. next.pc # "idle"
  BY <1>5, <1>8
<1>. QED  BY <1>1, <1>5, <1>6, <1>8, <1>9, ReadingRoleInv

(* An update writes its role.                                              *)
LEMMA PutRoleInv ==
  ASSUME RoleInv, NEW r \in RoleRun, PutRole(r)
  PROVE  RoleInv'
<1>. DEFINE q == RoleIn(r)
            missed == \E s \in RoleRun : /\ roleRun[s].act \in Deletion /\ q \in roleRun[s].via
                                         /\ roleRun[s].pc \in {"authorizations", "delete", "spawn"}
            outdated == q \notin roles \/ members[q] # roleRun[r].before \/ missed
<1>1. /\ roleRun[r].pc = "put"
      /\ roles' = roles \cup {q}
      /\ members' = [members EXCEPT ![q] = MembersIn(r)]
      /\ UNCHANGED <<registered, grants, acrs, links, cover, grantingVars, auth, child,
                     overlap, wanted, roleDone, roleInbox, roleSweep>>
  BY DEF PutRole, RegistryOnly
<1>2. \/ /\ Goto(r, "usage")
         /\ stale' = IF outdated THEN stale \cup {q} ELSE stale
         /\ UNCHANGED lost
      \/ Mishap /\ Goto(r, "load") /\ stale' = stale \cup {q}
  BY DEF PutRole
<1>3. roleRun[r] \in RoleRunState /\ q \in Role /\ MembersIn(r) \subseteq Agent
  BY <1>1, RoleRunFacts
<1>4. {"usage", "load"} \subseteq StepsOf(roleRun[r].act)
  BY <1>1, ClassOfStep DEF StepsOf
<1>5. /\ roles' \subseteq Role /\ members' \in [Role -> SUBSET Agent] /\ auth' \subseteq DA
  BY <1>1, <1>3 DEF RoleInv, RoleTypeOK, TypeOK, RegenerationTypeOK
<1>6. stale' \subseteq Role
  BY <1>2, <1>3 DEF RoleInv, RoleTypeOK
<1>7. lost' \in 0 .. MaxLost
  BY <1>2, LostAssumption DEF Mishap, RoleInv, RoleTypeOK, TypeOK, RegenerationTypeOK
<1>8. GrantingInv'
  BY <1>1, <1>5, <1>7, RegistryGranting
<1>9. /\ roleRun' \in [RoleRun -> RoleRunState]
      /\ \A s \in RoleRun \ {r} : roleRun'[s] = roleRun[s]
      /\ roleRun'[r].act = roleRun[r].act
      /\ roleRun'[r].pc \in {"usage", "load"}
  <2>1. CASE Goto(r, "usage")
    BY <2>1, GotoEffect
  <2>2. CASE Goto(r, "load")
    BY <2>2, GotoEffect
  <2>. QED  BY <1>2, <2>1, <2>2
<1>10. RoleTypeOK'
  BY <1>1, <1>6, <1>8, <1>9, RoleStepType
<1>11. RoleRunsInv'
  BY <1>1, <1>4, <1>9, RoleStepRuns
<1>. QED  BY <1>8, <1>10, <1>11 DEF RoleInv, GrantingInv

(* A deletion deletes an authorization.                                    *)
LEMMA DeleteAuthorizationInv ==
  ASSUME RoleInv, NEW r \in RoleRun, DeleteAuthorization(r)
  PROVE  RoleInv'
<1>1. /\ roleRun[r].pc = "authorizations"
      /\ UNCHANGED <<registered, grants, acrs, links, cover, grantingVars, roles, members,
                     child, lost, overlap, wanted, roleDone, roleInbox, roleSweep>>
  BY DEF DeleteAuthorization, RegistryOnly
<1>2. PICK d \in roleRun[r].gone :
        /\ auth' = auth \ {d}
        /\ roleRun' = [roleRun EXCEPT ![r].gone = @ \ {d},
                                      ![r].pc = IF roleRun[r].gone = {d} THEN "delete" ELSE @]
        /\ stale' \in {stale, stale \cup {GranteeOf[d]}}
        /\ stale' # stale => GranteeOf[d] \in Role
  <2>1. PICK d \in roleRun[r].gone :
          LET q == GranteeOf[d]
              outdated == \/ q = RoleIn(r) /\ q \in roles /\ ~ (members[q] \subseteq MembersIn(r))
                          \/ \E s \in RoleRun : /\ roleRun[s].pc = "usage"
                                                /\ roleRun[s].act \in Update
                                                /\ RoleIn(s) = q
          IN /\ auth' = auth \ {d}
             /\ roleRun' = [roleRun EXCEPT ![r].gone = @ \ {d},
                                           ![r].pc = IF roleRun[r].gone = {d} THEN "delete" ELSE @]
             /\ stale' = IF outdated THEN stale \cup {q} ELSE stale
    BY DEF DeleteAuthorization
  <2>2. \A s \in RoleRun : roleRun[s].pc = "usage" => RoleIn(s) \in Role
    BY RoleRunFacts
  <2>3. RoleIn(r) \in Role
    BY <1>1, RoleRunFacts
  <2>. QED  BY <2>1, <2>2, <2>3
<1>3. roleRun[r] \in RoleRunState /\ roleRun \in [RoleRun -> RoleRunState]
  BY <1>1, RoleRunFacts DEF RoleInv, RoleTypeOK
<1>. DEFINE pc == IF roleRun[r].gone = {d} THEN "delete" ELSE "authorizations"
            next == [roleRun[r] EXCEPT !.gone = @ \ {d}, !.pc = pc]
<1>4. pc \in {"delete", "authorizations"}
  OBVIOUS
<1>5. roleRun' = [roleRun EXCEPT ![r] = next]
  BY <1>1, <1>2, <1>3
<1>. HIDE DEF pc
<1>6. next \in RoleRunState /\ next.act = roleRun[r].act /\ next.pc = pc
  BY <1>3, <1>4 DEF RoleRunState
<1>. HIDE DEF next
<1>7. /\ roleRun' \in [RoleRun -> RoleRunState]
      /\ \A s \in RoleRun \ {r} : roleRun'[s] = roleRun[s]
      /\ roleRun'[r].act = roleRun[r].act
      /\ roleRun'[r].pc \in {"delete", "authorizations"}
  BY <1>3, <1>4, <1>5, <1>6
<1>8. auth' \subseteq DA /\ stale' \subseteq Role
  BY <1>2 DEF RoleInv, RoleTypeOK, TypeOK, RegenerationTypeOK
<1>9. GrantingInv'
  BY <1>1, <1>8, RegistryGranting DEF RoleInv, RoleTypeOK, TypeOK, RegenerationTypeOK
<1>10. RoleTypeOK'
  BY <1>1, <1>7, <1>8, <1>9, RoleStepType
<1>11. RoleRunsInv'
  <2>1. {"delete", "authorizations"} \subseteq StepsOf(roleRun[r].act)
    BY <1>1, ClassOfStep DEF StepsOf
  <2>. QED  BY <1>1, <1>7, <2>1, RoleStepRuns
<1>. QED  BY <1>9, <1>10, <1>11 DEF RoleInv, GrantingInv

(* A deletion deletes its role, or takes it for gone.                      *)
LEMMA DeleteRoleRun ==
  ASSUME RoleInv, NEW r \in RoleRun, DeleteRole(r)
  PROVE  /\ roleRun' \in [RoleRun -> RoleRunState]
         /\ \A s \in RoleRun \ {r} : roleRun'[s] = roleRun[s]
         /\ roleRun'[r].pc = "spawn"
         /\ roleRun'[r].act = roleRun[r].act
         /\ roleRun'[r].before = roleRun[r].before
         /\ roleRun'[r].used = roleRun[r].used
         /\ roleRun'[r].via = roleRun[r].via
         /\ roleRun'[r].gone = roleRun[r].gone
         /\ roleRun'[r].to = roleRun[r].to
         /\ \/ /\ roles' = roles \ {RoleIn(r)}
               /\ roleRun'[r].kept = roleRun[r].kept
               /\ roleRun'[r].met = {s \in RoleRun : roleRun[s].pc = "put" /\ RoleIn(s) = RoleIn(r)}
            \/ UNCHANGED <<roles, stale>> /\ roleRun'[r].kept
<1>1. roleRun \in [RoleRun -> RoleRunState] /\ roleRun[r] \in RoleRunState
  BY DEF RoleInv, RoleTypeOK
<1>. DEFINE reading == {s \in RoleRun : roleRun[s].pc = "put" /\ RoleIn(s) = RoleIn(r)}
<1>2. CASE /\ roles' = roles \ {RoleIn(r)}
           /\ roleRun' = [roleRun EXCEPT ![r].pc = "spawn", ![r].met = reading]
  <2>1. reading \in SUBSET RoleRun
    OBVIOUS
  <2>. HIDE DEF reading
  <2>2. roleRun'[r] = [roleRun[r] EXCEPT !.pc = "spawn", !.met = reading]
    BY <1>1, <1>2
  <2>3. roleRun'[r] \in RoleRunState
    BY <1>1, <2>1, <2>2 DEF RoleRunState
  <2>4. roleRun' \in [RoleRun -> RoleRunState]
    BY <1>1, <1>2, <2>3
  <2>5. roleRun'[r].met = reading
    BY <1>1, <2>2 DEF RoleRunState
  <2>6. /\ roleRun'[r].pc = "spawn" /\ roleRun'[r].act = roleRun[r].act
        /\ roleRun'[r].before = roleRun[r].before /\ roleRun'[r].used = roleRun[r].used
        /\ roleRun'[r].via = roleRun[r].via /\ roleRun'[r].gone = roleRun[r].gone
        /\ roleRun'[r].to = roleRun[r].to /\ roleRun'[r].kept = roleRun[r].kept
    BY <1>1, <2>2 DEF RoleRunState
  <2>7. roleRun'[r].met = {s \in RoleRun : roleRun[s].pc = "put" /\ RoleIn(s) = RoleIn(r)}
    BY <2>5 DEF reading
  <2>8. \A s \in RoleRun \ {r} : roleRun'[s] = roleRun[s]
    BY <1>1, <1>2
  <2>. QED  BY <1>2, <2>4, <2>6, <2>7, <2>8
<1>3. CASE /\ roleRun' = [roleRun EXCEPT ![r].pc = "spawn", ![r].kept = TRUE]
           /\ UNCHANGED <<roles, stale>>
  BY <1>1, <1>3 DEF RoleRunState
<1>4. \/ /\ roles' = roles \ {RoleIn(r)}
         /\ roleRun' = [roleRun EXCEPT ![r].pc = "spawn", ![r].met = reading]
      \/ /\ roleRun' = [roleRun EXCEPT ![r].pc = "spawn", ![r].kept = TRUE]
         /\ UNCHANGED <<roles, stale>>
  BY DEF DeleteRole
<1>. QED  BY <1>2, <1>3, <1>4

LEMMA DeleteRoleInv ==
  ASSUME RoleInv, NEW r \in RoleRun, DeleteRole(r)
  PROVE  RoleInv'
<1>. DEFINE q == RoleIn(r)
<1>1. /\ roleRun[r].pc = "delete"
      /\ stale' \in {stale, stale \cup {q}}
      /\ UNCHANGED <<registered, grants, acrs, links, cover, grantingVars, auth, members,
                     child, lost, overlap, wanted, roleDone, roleInbox, roleSweep>>
  BY DEF DeleteRole, RegistryOnly
<1>2. q \in Role
  BY <1>1, RoleRunFacts
<1>3. roles' \subseteq Role /\ stale' \subseteq Role
  BY <1>1, <1>2, DeleteRoleRun DEF RoleInv, RoleTypeOK, TypeOK, RegenerationTypeOK
<1>4. GrantingInv'
  BY <1>1, <1>3, RegistryGranting DEF RoleInv, RoleTypeOK, TypeOK, RegenerationTypeOK
<1>5. RoleTypeOK'
  BY <1>1, <1>3, <1>4, DeleteRoleRun, RoleStepType
<1>6. "spawn" \in StepsOf(roleRun[r].act)
  BY <1>1, ClassOfStep DEF StepsOf
<1>7. RoleRunsInv'
  BY <1>1, <1>6, DeleteRoleRun, RoleStepRuns
<1>. QED  BY <1>4, <1>5, <1>7 DEF RoleInv, GrantingInv

(* The agents concerned are regenerated.                                   *)
LEMMA SpawnChildrenInv ==
  ASSUME RoleInv, NEW r \in RoleRun, SpawnChildren(r)
  PROVE  RoleInv'
<1>1. PICK to :
        /\ to \subseteq MembersIn(r) \cup roleRun[r].before
                          \cup UNION {AgentsIn(g) : g \in roleRun[r].via}
        /\ StartChildren(<<r, RoleIn(r)>>, to)
        /\ roleRun' = [roleRun EXCEPT ![r].pc = "children", ![r].to = to]
  <2>. DEFINE changed == IF roleRun[r].act \in Update
                         THEN (roleRun[r].before \ MembersIn(r)) \cup (MembersIn(r) \ roleRun[r].before)
                         ELSE MembersIn(r)
              to == (IF roleRun[r].used THEN changed ELSE {})
                      \cup UNION {AgentsIn(g) : g \in roleRun[r].via}
  <2>1. /\ StartChildren(<<r, RoleIn(r)>>, to)
        /\ roleRun' = [roleRun EXCEPT ![r].pc = "children", ![r].to = to]
    BY DEF SpawnChildren
  <2>2. to \subseteq MembersIn(r) \cup roleRun[r].before
                       \cup UNION {AgentsIn(g) : g \in roleRun[r].via}
    OBVIOUS
  <2>. QED  BY <2>1, <2>2
<1>2. /\ roleRun[r].pc = "spawn"
      /\ UNCHANGED <<registered, grants, acrs, links, cover, grantingVars, auth, roles, members,
                     lost, wanted, roleDone, roleInbox, roleSweep, stale>>
  BY DEF SpawnChildren, RegistryOnly
<1>3. /\ roleRun[r] \in RoleRunState /\ MembersIn(r) \subseteq Agent
      /\ roleRun \in [RoleRun -> RoleRunState]
  BY <1>2, RoleRunFacts DEF RoleInv, RoleTypeOK
<1>4. to \subseteq Agent
  <2>1. members \in [Role -> SUBSET Agent]
    BY DEF RoleInv, RoleTypeOK, TypeOK, RegenerationTypeOK
  <2>2. \A g \in roleRun[r].via : AgentsIn(g) \subseteq Agent
    BY <1>3, <2>1, AgentsInAgents DEF RoleRunState, RoleInv, RoleTypeOK, TypeOK
  <2>. QED  BY <1>1, <1>3, <2>2 DEF RoleRunState
<1>5. child' \in [Child -> ChildState] /\ overlap' \subseteq Agent /\ GrantsInv'
  BY <1>1, <1>2, <1>4, StartChildrenGranting DEF RoleInv, RoleTypeOK, TypeOK
<1>6. GrantingInv'
  BY <1>2, <1>5 DEF GrantingInv, RoleInv, RoleTypeOK, TypeOK, RegenerationTypeOK, RunsRecorded,
                    grantingVars
<1>. DEFINE next == [roleRun[r] EXCEPT !.pc = "children", !.to = to]
<1>7. roleRun' = [roleRun EXCEPT ![r] = next]
  BY <1>1, <1>3
<1>8. next \in RoleRunState /\ next.act = roleRun[r].act /\ next.pc = "children"
  BY <1>3, <1>4 DEF RoleRunState
<1>. HIDE DEF next
<1>9. /\ roleRun' \in [RoleRun -> RoleRunState]
      /\ \A s \in RoleRun \ {r} : roleRun'[s] = roleRun[s]
      /\ roleRun'[r].act = roleRun[r].act
      /\ roleRun'[r].pc = "children"
  BY <1>3, <1>7, <1>8
<1>10. RoleTypeOK'
  BY <1>2, <1>6, <1>9, RoleStepType DEF RoleInv, RoleTypeOK
<1>11. RoleRunsInv'
  <2>1. "children" \in StepsOf(roleRun[r].act)
    BY DEF StepsOf
  <2>. QED  BY <1>2, <1>9, <2>1, RoleStepRuns
<1>. QED  BY <1>6, <1>10, <1>11 DEF RoleInv, GrantingInv

(* The completion.                                                         *)
LEMMA MarkRoleDoneInv ==
  ASSUME RoleInv, NEW r \in RoleRun, MarkRoleDone(r)
  PROVE  RoleInv'
<1>1. /\ roleRun[r].pc = "children"
      /\ roleDone' = roleDone \cup {roleRun[r].act}
      /\ Goto(r, "done")
      /\ UNCHANGED <<grantedVars, wanted, roleInbox, roleSweep, stale>>
  BY DEF MarkRoleDone
<1>2. roleRun[r].act \in Recorded
  BY <1>1, RoleRunFacts
<1>3. /\ roleRun' \in [RoleRun -> RoleRunState]
      /\ \A s \in RoleRun \ {r} : roleRun'[s] = roleRun[s]
      /\ roleRun'[r].act = roleRun[r].act
      /\ roleRun'[r].pc = "done"
  BY <1>1, GotoEffect
<1>. USE DEF grantedVars, regenerationVars
<1>4. GrantingInv'
  BY <1>1, RegistryGranting DEF RoleInv, RoleTypeOK, TypeOK, RegenerationTypeOK
<1>5. RoleTypeOK'
  BY <1>1, <1>2, <1>3, <1>4 DEF RoleInv, RoleTypeOK, GrantingInv, Recorded
<1>6. Recorded' = Recorded
  BY <1>1 DEF Recorded
<1>7. RoleRunsInv'
  <2>1. "done" \in StepsOf(roleRun[r].act)
    BY DEF StepsOf
  <2>. QED  BY <1>1, <1>3, <2>1, RoleStepRuns
<1>. QED  BY <1>4, <1>5, <1>7 DEF RoleInv, GrantingInv

(* Every step of a role run.                                               *)
LEMMA RoleStepInv ==
  ASSUME RoleInv, NEW r \in RoleRun, RoleStep(r)
  PROVE  RoleInv'
BY CreateRoleInv, LoadRoleInv, PutRoleInv, FindRoleUsageInv, DeleteAuthorizationInv, DeleteRoleInv,
   SpawnChildrenInv, MarkRoleDoneInv DEF RoleStep

(* A service call records an activity, and changes nothing else.           *)
LEMMA RecordRoleInv ==
  ASSUME RoleInv, NEW a \in RoleActivity, NEW toBe \in RoleToBe, RecordRole(a, toBe)
  PROVE  RoleInv'
<1>. USE DEF grantedVars, regenerationVars
<1>1. /\ wanted[a] = None /\ wanted' = [wanted EXCEPT ![a] = toBe]
      /\ roleInbox' = roleInbox \cup {a}
      /\ UNCHANGED <<grantedVars, roleDone, roleRun, roleSweep, stale>>
  BY DEF RecordRole
<1>2. GrantingInv'
  BY <1>1, RegistryGranting DEF RoleInv, RoleTypeOK, TypeOK, RegenerationTypeOK
<1>3. wanted' \in [RoleActivity -> RoleToBe \cup {None}]
      /\ \A b \in RoleActivity : wanted'[b] = IF b = a THEN toBe ELSE wanted[b]
  BY <1>1 DEF RoleInv, RoleTypeOK
<1>4. toBe # None
  BY RoleActivityAssumption
<1>5. Recorded \subseteq Recorded'
  BY <1>1, <1>3, <1>4 DEF Recorded
<1>6. RoleTypeOK'
  <2>1. roleInbox \cup roleDone \subseteq Recorded
    BY DEF RoleInv, RoleTypeOK, Recorded
  <2>2. roleInbox' \cup roleDone' \subseteq Recorded'
    BY <1>1, <1>3, <1>4, <1>5, <2>1 DEF Recorded
  <2>. QED  BY <1>1, <1>2, <1>3, <2>2 DEF RoleInv, RoleTypeOK, GrantingInv, Recorded
<1>7. RoleRunsInv'
  BY <1>1, <1>5, RolesUntouched
<1>. QED  BY <1>2, <1>6, <1>7 DEF RoleInv, GrantingInv

(* A run starts on a recorded activity.                                    *)
LEMMA StartRoleRunInv ==
  ASSUME RoleInv, NEW r \in RoleRun, NEW a \in Recorded, StartRoleRun(r, a),
         UNCHANGED <<grantedVars, wanted, roleDone, stale>>,
         roleInbox' \subseteq roleInbox,
         roleSweep' = roleSweep \/ roleSweep' = [todo |-> roleSweep.todo \ {a}, on |-> r]
  PROVE  RoleInv'
<1>. USE DEF grantedVars, regenerationVars
<1>1. GrantingInv'
  BY RegistryGranting DEF RoleInv, RoleTypeOK, TypeOK, RegenerationTypeOK
<1>. DEFINE pc == FirstStep(a)
            next == [roleRun[r] EXCEPT !.pc = pc, !.act = a]
<1>2. pc \in {"create", "load", "usage"} /\ pc \in StepsOf(a) /\ a \in RoleActivity
  BY RoleActivityAssumption DEF FirstStep, Recorded, StepsOf
<1>3. roleRun[r] \in RoleRunState /\ roleRun \in [RoleRun -> RoleRunState]
  BY DEF RoleInv, RoleTypeOK
<1>4. roleRun[r].pc = "idle" /\ roleRun' = [roleRun EXCEPT ![r] = next]
  BY <1>3 DEF StartRoleRun
<1>. HIDE DEF pc
<1>5. next \in RoleRunState /\ next.act = a /\ next.pc = pc
  BY <1>2, <1>3 DEF RoleRunState
<1>. HIDE DEF next
<1>6. /\ roleRun' \in [RoleRun -> RoleRunState]
      /\ \A s \in RoleRun \ {r} : roleRun'[s] = roleRun[s]
      /\ roleRun'[r].act = a /\ roleRun'[r].pc = pc
  BY <1>3, <1>4, <1>5
<1>7. roleSweep' \in [todo : SUBSET RoleActivity, on : RoleRun \cup {None}]
      /\ roleSweep'.todo \subseteq roleSweep.todo
      /\ roleSweep'.on \in {roleSweep.on, r}
  BY DEF RoleInv, RoleTypeOK
<1>8. RoleTypeOK'
  BY <1>1, <1>6, <1>7 DEF RoleInv, RoleTypeOK, GrantingInv
<1>9. Recorded' = Recorded
  BY DEF Recorded
<1>10. RoleRunsInv'
  <2>1. roleSweep.on # None => roleSweep.on \in RoleRun
    BY DEF RoleInv, RoleTypeOK
  <2>. QED  BY <1>2, <1>6, <1>7, <1>9, <2>1 DEF RoleInv, RoleRunsInv
<1>. QED  BY <1>1, <1>8, <1>10 DEF RoleInv, GrantingInv

(* A sweep begins, or finishes a rerun, which it completes once more.      *)
LEMMA RoleSweepInv ==
  ASSUME RoleInv, StartRoleSweep \/ FinishRerun
  PROVE  RoleInv'
<1>. USE DEF grantedVars, regenerationVars
<1>0. UNCHANGED <<grantedVars, wanted, roleInbox, roleRun, stale>>
  BY DEF StartRoleSweep, FinishRerun
<1>1. GrantingInv'
  BY <1>0, RegistryGranting DEF RoleInv, RoleTypeOK, TypeOK, RegenerationTypeOK
<1>2. Recorded' = Recorded
  BY <1>0 DEF Recorded
<1>3. CASE StartRoleSweep
  <2>1. /\ roleSweep.on = None /\ roleDone' = roleDone
        /\ roleSweep' = [roleSweep EXCEPT !.todo = Recorded \ roleDone]
    BY <1>3 DEF StartRoleSweep
  <2>2. /\ roleSweep' \in [todo : SUBSET RoleActivity, on : RoleRun \cup {None}]
        /\ roleSweep'.on = None /\ roleSweep'.todo \subseteq Recorded
    BY <2>1 DEF RoleInv, RoleTypeOK, Recorded
  <2>3. RoleTypeOK'
    BY <1>0, <1>1, <2>1, <2>2 DEF RoleInv, RoleTypeOK, GrantingInv
  <2>4. RoleRunsInv'
    BY <1>0, <1>2, <2>1, <2>2 DEF RoleInv, RoleRunsInv
  <2>. QED  BY <1>1, <2>3, <2>4 DEF RoleInv, GrantingInv
<1>4. CASE FinishRerun
  <2>. DEFINE s == roleSweep.on
  <2>1. /\ s # None /\ roleRun[s].pc = "done" /\ roleDone' = roleDone \cup {roleRun[s].act}
        /\ roleSweep' = [roleSweep EXCEPT !.on = None]
    BY <1>4 DEF FinishRerun
  <2>2. /\ roleSweep' \in [todo : SUBSET RoleActivity, on : RoleRun \cup {None}]
        /\ roleSweep'.on = None /\ roleSweep'.todo = roleSweep.todo
    BY <2>1 DEF RoleInv, RoleTypeOK
  <2>3. s \in RoleRun
    BY <2>1 DEF RoleInv, RoleTypeOK
  <2>4. roleRun[s].act \in Recorded
    BY <2>1, <2>3 DEF RoleInv, RoleRunsInv
  <2>5. RoleTypeOK'
    BY <1>0, <1>1, <2>1, <2>2, <2>4 DEF RoleInv, RoleTypeOK, GrantingInv, Recorded
  <2>6. RoleRunsInv'
    BY <1>0, <1>2, <2>2 DEF RoleInv, RoleRunsInv
  <2>. QED  BY <1>1, <2>5, <2>6 DEF RoleInv, GrantingInv
<1>. QED  BY <1>3, <1>4

(* Nothing happens.                                                        *)
LEMMA RoleStutter ==
  ASSUME RoleInv, UNCHANGED roleSpecVars
  PROVE  RoleInv'
<1>. USE DEF roleSpecVars, vars, roleVars, regenerationVars
<1>1. GrantingInv'
  BY RegistryGranting DEF RoleInv, RoleTypeOK, TypeOK, RegenerationTypeOK
<1>2. RoleTypeOK' /\ RoleRunsInv'
  BY <1>1 DEF RoleInv, RoleTypeOK, GrantingInv, RoleRunsInv, Recorded
<1>. QED  BY <1>1, <1>2 DEF RoleInv, GrantingInv

-----------------------------------------------------------------------------
(* The beginning: every agent holds the grants it is to hold.              *)
LEMMA RoleInitInv ==
  ASSUME RoleInit
  PROVE  RoleInv
<1>. USE DEF RoleInit
<1>1. auth \subseteq DA /\ roles \subseteq Role /\ members \in [Role -> SUBSET Agent]
  BY StoredAssumption
<1>2. \A p \in Agent : PastGrants(p) \subseteq {g \in Grant : AgentOf(g.by) = p}
  <2>. SUFFICES ASSUME NEW p \in Agent, NEW d \in AuthorizationsFor(p)
                PROVE  PastGrant(d, p) \in Grant /\ AgentOf(PastGrant(d, p).by) = p
    BY DEF PastGrants
  <2>1. d \in DA
    BY <1>1 DEF AuthorizationsFor
  <2>2. <<Past, GranteeOf[d]>> \in Parent
    BY <2>1, GranteeAssumption, RoleRunAssumption DEF Parent
  <2>3. <<<<Past, GranteeOf[d]>>, p>> \in Child
    BY <2>2 DEF Child
  <2>4. 1 \in 1 .. MaxLost + 1
    BY LostAssumption
  <2>5. PastGrant(d, p) \in Grant
    BY <2>1, <2>3, <2>4 DEF PastGrant, Grant
  <2>. QED  BY <2>5 DEF PastGrant, AgentOf
<1>3. grants \subseteq Grant /\ acrs \subseteq grants /\ links \in [Agent -> SUBSET Grant]
  BY <1>2
<1>4. IdleChild \in ChildState
  BY DEF IdleChild, ChildState
<1>5. RegenerationTypeOK
  BY <1>1, <1>3, <1>4, LostAssumption DEF RegenerationTypeOK
<1>6. IdleLeg \in LegState
  BY DEF IdleLeg, LegState
<1>7. TypeOK
  <2>1. run \in [GrantRun -> RunState]
    BY DEF RunState
  <2>2. leg \in [Leg -> LegState]
    BY <1>6
  <2>3. sweep \in SweepState
    BY DEF SweepState
  <2>. QED  BY <1>5, <2>1, <2>2, <2>3 DEF TypeOK
<1>8. IdleRoleRun \in RoleRunState /\ IdleRoleRun.pc = "idle" /\ IdleRoleRun.act = None
  BY DEF IdleRoleRun, RoleRunState
<1>9. Owners \in [DA -> SUBSET Agent]
  BY <1>1, OwnerRoleAssumption DEF Owners
<1>10. RoleTypeOK
  <2>1. cover \in [Child -> [DA -> SUBSET Agent]]
    BY <1>9
  <2>2. roleRun \in [RoleRun -> RoleRunState]
    BY <1>8
  <2>. QED  BY <1>7, <2>1, <2>2 DEF RoleTypeOK
<1>11. GrantsInv
  <2>1. \A c \in Child : /\ child[c].pc = "idle" /\ child[c].new = {} /\ child[c].cur = None
                          /\ child[c].blind = {}
    BY DEF IdleChild
  <2>. QED  BY <1>2, <1>3, <2>1 DEF GrantsInv, GrantsInvOf
<1>12. RunsRecorded
  BY DEF RunsRecorded, IdleLeg
<1>13. RoleRunsInv
  <2>1. \A r \in RoleRun : roleRun[r].pc = "idle"
    BY <1>8
  <2>. QED  BY <2>1 DEF RoleRunsInv
<1>. QED  BY <1>10, <1>11, <1>12, <1>13 DEF RoleInv

(* Every step of the specification.                                        *)
LEMMA RoleNextInv ==
  ASSUME RoleInv, [RoleNext]_roleSpecVars
  PROVE  RoleInv'
<1>1. CASE Next /\ CoverMembers /\ UNCHANGED roleVars
  BY <1>1, GrantingRoleInv
<1>2. ASSUME NEW q \in Role, NEW m \in SUBSET (Agent \ Application),
             NEW a \in Creation \cup Update,
             RecordCreation(a, q, m) \/ RecordUpdate(a, q, m)
      PROVE  RoleInv'
  <2>1. [role |-> q, members |-> m] \in RoleToBe /\ a \in RoleActivity
    BY <1>2 DEF RoleToBe, RoleActivity
  <2>. QED  BY <1>2, <2>1, RecordRoleInv DEF RecordCreation, RecordUpdate
<1>3. ASSUME NEW q \in Role, NEW a \in Deletion, RecordDeletion(a, q)
      PROVE  RoleInv'
  <2>1. [role |-> q, members |-> members[q]] \in RoleToBe /\ a \in RoleActivity
    BY DEF RoleToBe, RoleActivity, RoleInv, RoleTypeOK, TypeOK, RegenerationTypeOK
  <2>. QED  BY <1>3, <2>1, RecordRoleInv DEF RecordDeletion
<1>4. ASSUME NEW a \in RoleActivity, NEW r \in RoleRun, DeliverRole(a, r)
      PROVE  RoleInv'
  <2>1. a \in Recorded
    BY <1>4 DEF DeliverRole, RoleInv, RoleTypeOK, Recorded
  <2>. QED  BY <1>4, <2>1, StartRoleRunInv DEF DeliverRole
<1>5. ASSUME NEW r \in RoleRun, RerunRole(r)
      PROVE  RoleInv'
  <2>1. PICK a \in roleSweep.todo : /\ StartRoleRun(r, a)
                                    /\ roleSweep' = [todo |-> roleSweep.todo \ {a}, on |-> r]
    BY <1>5 DEF RerunRole
  <2>2. a \in Recorded
    BY DEF RoleInv, RoleRunsInv
  <2>. QED  BY <1>5, <2>1, <2>2, StartRoleRunInv DEF RerunRole
<1>6. ASSUME NEW r \in RoleRun, RoleStep(r)
      PROVE  RoleInv'
  BY <1>6, RoleStepInv
<1>7. CASE StartRoleSweep \/ FinishRerun
  BY <1>7, RoleSweepInv
<1>8. CASE UNCHANGED roleSpecVars
  BY <1>8, RoleStutter
<1>. QED  BY <1>1, <1>2, <1>3, <1>4, <1>5, <1>6, <1>7, <1>8 DEF RoleNext

(* The invariant of the specification.                                     *)
LEMMA RoleSpecInv == RoleSpec => []RoleInv
<1>1. RoleInit => RoleInv
  BY RoleInitInv
<1>2. RoleInv /\ [RoleNext]_roleSpecVars => RoleInv'
  BY RoleNextInv
<1>. QED  BY <1>1, <1>2, PTL DEF RoleSpec

(* The types of RoleChanges: every run of a role workflow stays within its *)
(* steps and its activity's class of data.                                 *)
THEOREM RoleTypeCorrect == RoleSpec => []RoleTypeOK
<1>1. RoleInv => RoleTypeOK
  BY DEF RoleInv
<1>. QED  BY <1>1, RoleSpecInv, PTL

-----------------------------------------------------------------------------
(* A deleted role stays away.                                              *)

(* A creation that has written its role, or found it there, ...            *)
Began(a) == \E r \in RoleRun : roleRun[r].act = a /\ roleRun[r].pc \notin {"idle", "create"}

(* ... as it has wherever the role is there, or somebody else was asked to *)
(* change or delete it: that is asked of roles in the registry only.       *)
CreationsFirst ==
  \A a \in Creation \cap Recorded :
    /\ wanted[a].role \in roles => Began(a)
    /\ \A b \in Recorded \ {a} : wanted[b].role = wanted[a].role => Began(a)

(* A run that is through with the deletion of its role, ...                *)
Through(s) == /\ roleRun[s].act \in Deletion
                  /\ roleRun[s].pc \in {"spawn", "children", "done"}

(* ... that missed it or somebody about to write it, ...                   *)
Missed(q) == \E s \in RoleRun : /\ Through(s) /\ RoleIn(s) = q
                                /\ (roleRun[s].kept \/ roleRun[s].met # {})

(* ... and a role that is there or about to be.                            *)
Present(q) == q \in roles \/ \E u \in RoleRun : roleRun[u].pc = "put" /\ RoleIn(u) = q

DeletionsHold ==
  \A s \in RoleRun : Through(s) /\ Present(RoleIn(s)) => CreatedTwice(RoleIn(s)) \/ Missed(RoleIn(s))

CompletedByRun ==
  \A x \in Deletion \cap roleDone : \E s \in RoleRun : roleRun[s].act = x /\ Through(s)

GoneInv == RoleInv /\ CreationsFirst /\ DeletionsHold /\ CompletedByRun

(* Runs go forward only: none forgets its activity, its creation or what   *)
(* its deletion met.                                                       *)
Forward ==
  \A r \in RoleRun : roleRun[r].pc # "idle" =>
    /\ roleRun'[r].act = roleRun[r].act /\ roleRun'[r].pc # "idle"
    /\ roleRun[r].pc # "create" => roleRun'[r].pc # "create"
    /\ Through(r) => /\ Through(r)'
                         /\ roleRun'[r].kept = roleRun[r].kept /\ roleRun'[r].met = roleRun[r].met

(* What runs that go forward keep.                                         *)
LEMMA ForwardKeeps ==
  ASSUME RoleInv, Forward, \A a \in Recorded : wanted'[a] = wanted[a]
  PROVE  /\ \A r \in RoleRun : roleRun[r].pc # "idle" => RoleIn(r)' = RoleIn(r)
         /\ \A a : Began(a) => Began(a)'
         /\ \A q : CreatedTwice(q) => CreatedTwice(q)'
         /\ \A q : Missed(q) => Missed(q)'
<1>1. ASSUME NEW r \in RoleRun, roleRun[r].pc # "idle"
      PROVE  RoleIn(r)' = RoleIn(r)
  BY <1>1, RoleRunFacts DEF Forward, RoleIn
<1>2. ASSUME NEW a, Began(a) PROVE Began(a)'
  BY <1>2 DEF Began, Forward
<1>3. ASSUME NEW q, CreatedTwice(q) PROVE CreatedTwice(q)'
  <2>1. PICK r, s \in RoleRun :
          /\ r # s
          /\ roleRun[r].act \in Creation /\ roleRun[s].act = roleRun[r].act
          /\ RoleIn(r) = q
          /\ {roleRun[r].pc, roleRun[s].pc} \cap {"idle", "create"} = {}
    BY <1>3 DEF CreatedTwice
  <2>2. /\ roleRun'[r].act = roleRun[r].act /\ roleRun'[s].act = roleRun[s].act
        /\ {roleRun'[r].pc, roleRun'[s].pc} \cap {"idle", "create"} = {}
        /\ RoleIn(r)' = q
    BY <1>1, <2>1 DEF Forward
  <2>. QED  BY <2>1, <2>2 DEF CreatedTwice
<1>4. ASSUME NEW q, Missed(q) PROVE Missed(q)'
  <2>1. PICK s \in RoleRun : /\ Through(s) /\ RoleIn(s) = q
                             /\ (roleRun[s].kept \/ roleRun[s].met # {})
    BY <1>4 DEF Missed
  <2>2. roleRun[s].pc # "idle"
    BY <2>1 DEF Through
  <2>3. Through(s)' /\ RoleIn(s)' = q /\ (roleRun'[s].kept \/ roleRun'[s].met # {})
    BY <1>1, <2>1, <2>2 DEF Forward
  <2>. QED  BY <2>3 DEF Missed
<1>. QED  BY <1>1, <1>2, <1>3, <1>4

(* What a step has to see to: roles that appear, deletions that begin to   *)
(* be relied on, completions.                                              *)
LEMMA GoneStep ==
  ASSUME GoneInv, RoleInv', Forward, UNCHANGED wanted,
         \A a \in Creation \cap Recorded : wanted[a].role \in roles' \ roles => Began(a)',
         \A s \in RoleRun : Through(s)' /\ Present(RoleIn(s))' =>
           \/ Through(s) /\ Present(RoleIn(s))
           \/ CreatedTwice(RoleIn(s))' \/ Missed(RoleIn(s))',
         \A x \in Deletion \cap (roleDone' \ roleDone) :
           \E s \in RoleRun : roleRun[s].act = x /\ Through(s)
  PROVE  GoneInv'
<1>1. Recorded' = Recorded
  BY DEF Recorded
<1>2. /\ \A r \in RoleRun : roleRun[r].pc # "idle" => RoleIn(r)' = RoleIn(r)
      /\ \A a : Began(a) => Began(a)'
      /\ \A q : CreatedTwice(q) => CreatedTwice(q)'
      /\ \A q : Missed(q) => Missed(q)'
  BY ForwardKeeps DEF GoneInv
<1>3. CreationsFirst'
  BY <1>1, <1>2 DEF GoneInv, CreationsFirst
<1>4. DeletionsHold'
  <2>. SUFFICES ASSUME NEW s \in RoleRun, Through(s)', Present(RoleIn(s))'
                PROVE  (CreatedTwice(RoleIn(s)) \/ Missed(RoleIn(s)))'
    BY DEF DeletionsHold
  <2>1. CASE Through(s) /\ Present(RoleIn(s))
    <3>1. RoleIn(s)' = RoleIn(s)
      BY <1>2, <2>1 DEF Through
    <3>2. CreatedTwice(RoleIn(s)) \/ Missed(RoleIn(s))
      BY <2>1 DEF GoneInv, DeletionsHold
    <3>3. CreatedTwice(RoleIn(s))' \/ Missed(RoleIn(s))'
      BY <1>2, <3>1, <3>2 DEF CreatedTwice, Missed
    <3>. QED  BY <3>3
  <2>. QED  BY <2>1
<1>5. CompletedByRun'
  <2>1. \A s \in RoleRun : Through(s) => Through(s)' /\ roleRun'[s].act = roleRun[s].act
    BY DEF Forward, Through
  <2>. QED  BY <2>1 DEF GoneInv, CompletedByRun
<1>. QED  BY <1>3, <1>4, <1>5 DEF GoneInv

(* How a step of a run moves it.                                           *)
MovesTo(r, from, to) == roleRun[r].pc = from /\ roleRun'[r].pc \in to

Looks(r) == /\ roleRun[r].pc \in {"usage", "authorizations"}
            /\ UNCHANGED <<roles, roleDone>>
            /\ \/ roleRun'[r].pc \in {"authorizations", "delete"}
               \/ roleRun'[r].pc = "spawn" /\ roleRun[r].act \in Update

Remembers(r) == roleRun'[r].kept = roleRun[r].kept /\ roleRun'[r].met = roleRun[r].met

RoleMoves(r) ==
  \/ CreateRoleAtId(r) /\ MovesTo(r, "create", {"children"}) /\ roleDone' = roleDone
  \/ LoadRole(r) /\ MovesTo(r, "load", {"put"}) /\ UNCHANGED <<roles, roleDone>>
  \/ PutRole(r) /\ MovesTo(r, "put", {"usage", "load"}) /\ roleDone' = roleDone
  \/ Looks(r)
  \/ DeleteRole(r) /\ MovesTo(r, "delete", {"spawn"}) /\ roleDone' = roleDone
  \/ MovesTo(r, "spawn", {"children"}) /\ Remembers(r) /\ UNCHANGED <<roles, roleDone>>
  \/ MarkRoleDone(r) /\ MovesTo(r, "children", {"done"}) /\ Remembers(r) /\ roles' = roles

OthersStay(r) == /\ roleRun[r].pc # "idle"
                 /\ \A s \in RoleRun \ {r} : roleRun'[s] = roleRun[s]
                 /\ roleRun'[r].act = roleRun[r].act
                 /\ wanted' = wanted

LEMMA RoleStepMoves ==
  ASSUME RoleInv, NEW r \in RoleRun, RoleStep(r)
  PROVE  OthersStay(r) /\ RoleMoves(r)
<1>. USE DEF OthersStay, MovesTo
<1>0. roleRun \in [RoleRun -> RoleRunState] /\ roleRun[r] \in RoleRunState
  BY DEF RoleInv, RoleTypeOK
<1>1. CASE CreateRoleAtId(r)
  <2>1. roleRun[r].pc = "create" /\ Goto(r, "children") /\ UNCHANGED <<wanted, roleDone>>
    BY <1>1 DEF CreateRoleAtId
  <2>. QED  BY <1>0, <1>1, <2>1 DEF Goto, RoleRunState, RoleMoves
<1>2. CASE LoadRole(r)
  <2>1. /\ roleRun' = [roleRun EXCEPT ![r].pc = "put", ![r].before = members[RoleIn(r)]]
        /\ roleRun[r].pc = "load" /\ UNCHANGED <<roles, roleDone, wanted>>
    BY <1>2 DEF LoadRole, grantedVars, regenerationVars
  <2>. QED  BY <1>0, <1>2, <2>1 DEF RoleRunState, RoleMoves
<1>3. CASE PutRole(r)
  <2>1. Goto(r, "usage") \/ Goto(r, "load")
    BY <1>3 DEF PutRole
  <2>2. roleRun[r].pc = "put" /\ UNCHANGED <<roleDone, wanted>>
    BY <1>3 DEF PutRole
  <2>. QED  BY <1>0, <1>3, <2>1, <2>2 DEF Goto, RoleRunState, RoleMoves
<1>4. CASE FindRoleUsage(r)
  <2>. DEFINE q == RoleIn(r)
              asGrantee == {d \in auth : GranteeOf[d] = q}
              asOwner == {d \in auth : OwnerRole[d] = q /\ GranteeOf[d] # q}
              gone == IF roleRun[r].act \in Deletion THEN asGrantee \cup asOwner ELSE {}
              pc == IF roleRun[r].act \in Update THEN "spawn"
                    ELSE IF gone = {} THEN "delete" ELSE "authorizations"
              via == {GranteeOf[d] : d \in asOwner}
              used == asGrantee # {}
  <2>1. /\ roleRun' = [roleRun EXCEPT ![r].used = used, ![r].via = via,
                                      ![r].gone = gone, ![r].pc = pc]
        /\ roleRun[r].pc = "usage" /\ UNCHANGED <<roles, roleDone, wanted>>
    BY <1>4 DEF FindRoleUsage, grantedVars, regenerationVars
  <2>2. \/ pc \in {"authorizations", "delete"}
        \/ pc = "spawn" /\ roleRun[r].act \in Update
    OBVIOUS
  <2>. HIDE DEF asGrantee, asOwner, gone, pc, via, used
  <2>3. roleRun'[r].pc = pc /\ roleRun'[r].act = roleRun[r].act
        /\ \A s \in RoleRun \ {r} : roleRun'[s] = roleRun[s]
    BY <1>0, <2>1 DEF RoleRunState
  <2>. QED  BY <2>1, <2>2, <2>3 DEF RoleMoves, Looks
<1>5. CASE DeleteAuthorization(r)
  <2>1. /\ roleRun[r].pc = "authorizations" /\ UNCHANGED <<roles, roleDone, wanted>>
        /\ \E d \in roleRun[r].gone :
             roleRun' = [roleRun EXCEPT ![r].gone = @ \ {d},
                                        ![r].pc = IF roleRun[r].gone = {d} THEN "delete" ELSE @]
    BY <1>5 DEF DeleteAuthorization
  <2>2. PICK d \in roleRun[r].gone :
             roleRun' = [roleRun EXCEPT ![r].gone = @ \ {d},
                                        ![r].pc = IF roleRun[r].gone = {d} THEN "delete" ELSE @]
    BY <2>1
  <2>. DEFINE pc == IF roleRun[r].gone = {d} THEN "delete" ELSE "authorizations"
  <2>3. roleRun' = [roleRun EXCEPT ![r].gone = roleRun[r].gone \ {d}, ![r].pc = pc]
    BY <1>0, <2>1, <2>2
  <2>4. pc \in {"authorizations", "delete"}
    OBVIOUS
  <2>. HIDE DEF pc
  <2>5. roleRun'[r].pc = pc /\ roleRun'[r].act = roleRun[r].act
        /\ \A s \in RoleRun \ {r} : roleRun'[s] = roleRun[s]
    BY <1>0, <2>3 DEF RoleRunState
  <2>. QED  BY <2>1, <2>4, <2>5 DEF RoleMoves, Looks
<1>6. CASE DeleteRole(r)
  <2>1. roleRun[r].pc = "delete" /\ UNCHANGED <<wanted, roleDone>>
    BY <1>6 DEF DeleteRole
  <2>2. /\ \A s \in RoleRun \ {r} : roleRun'[s] = roleRun[s]
        /\ roleRun'[r].pc = "spawn" /\ roleRun'[r].act = roleRun[r].act
    BY <1>6, DeleteRoleRun
  <2>. QED  BY <1>6, <2>1, <2>2 DEF RoleMoves
<1>7. CASE SpawnChildren(r)
  <2>1. /\ \E to : roleRun' = [roleRun EXCEPT ![r].pc = "children", ![r].to = to]
        /\ roleRun[r].pc = "spawn" /\ UNCHANGED <<roles, roleDone, wanted>>
    BY <1>7 DEF SpawnChildren
  <2>. QED  BY <1>0, <2>1 DEF RoleRunState, RoleMoves, Remembers
<1>8. CASE MarkRoleDone(r)
  <2>1. roleRun[r].pc = "children" /\ Goto(r, "done") /\ UNCHANGED <<roles, wanted>>
    BY <1>8 DEF MarkRoleDone, grantedVars, regenerationVars
  <2>. QED  BY <1>0, <1>8, <2>1 DEF Goto, RoleRunState, RoleMoves, Remembers
<1>. QED  BY <1>1, <1>2, <1>3, <1>4, <1>5, <1>6, <1>7, <1>8 DEF RoleStep

(* The step of a run keeps deleted roles away, or says why it does not.    *)
LEMMA RoleStepGone ==
  ASSUME GoneInv, RoleInv', NEW r \in RoleRun, RoleStep(r)
  PROVE  GoneInv'
<1>. USE DEF GoneInv
<1>1. /\ roleRun[r].pc # "idle"
      /\ \A s \in RoleRun \ {r} : roleRun'[s] = roleRun[s]
      /\ roleRun'[r].act = roleRun[r].act
      /\ wanted' = wanted
  BY RoleStepMoves DEF OthersStay
<1>2. roleRun[r].act \in Recorded
  BY <1>1, RoleRunFacts
<1>3. \A s \in RoleRun : roleRun[s].act = roleRun'[s].act /\ RoleIn(s)' = RoleIn(s)
  BY <1>1 DEF RoleIn
<1>4. \A s \in RoleRun \ {r} : Through(s)' = Through(s)
  BY <1>1 DEF Through
<1>5. ASSUME roleRun'[r].pc \notin {"idle", "create"},
             Through(r) => /\ Through(r)'
                               /\ roleRun'[r].kept = roleRun[r].kept
                               /\ roleRun'[r].met = roleRun[r].met
      PROVE  Forward
  BY <1>1, <1>4, <1>5 DEF Forward
(* Who is present stays present at most, as long as nobody new is.         *)
<1>6. ASSUME roles' \subseteq roles, roleRun'[r].pc # "put"
      PROVE  \A q : Present(q)' => Present(q)
  BY <1>1, <1>3, <1>6 DEF Present
<1>7. CASE CreateRoleAtId(r) /\ MovesTo(r, "create", {"children"}) /\ roleDone' = roleDone
  <2>. DEFINE a == roleRun[r].act
              q == RoleIn(r)
  <2>1. /\ roleRun[r].pc = "create" /\ roleRun'[r].pc = "children" /\ roleDone' = roleDone
        /\ roles' \subseteq roles \cup {q}
    BY <1>7 DEF CreateRoleAtId, MovesTo
  <2>2. a \in Creation /\ a \notin Deletion
    BY <1>1, <2>1, ClassOfStep, RoleActivityAssumption
  <2>3. ~ Through(r) /\ ~ Through(r)'
    BY <1>1, <2>2 DEF Through
  <2>4. Forward
    BY <1>5, <2>1, <2>3
  <2>6. \A b \in Creation \cap Recorded : wanted[b].role \in roles' \ roles => Began(b)'
    <3>. SUFFICES ASSUME NEW b \in Creation \cap Recorded, wanted[b].role = q
                  PROVE  Began(b)'
      BY <2>1
    <3>1. CASE b = a
      BY <1>1, <2>1, <3>1 DEF Began
    <3>2. CASE b # a
      <4>1. Began(b)
        BY <1>2, <3>2 DEF CreationsFirst, RoleIn
      <4>. QED  BY <1>1, <2>4, <4>1, ForwardKeeps
    <3>. QED  BY <3>1, <3>2
  <2>7. ASSUME NEW s \in RoleRun, Through(s)', Present(RoleIn(s))', ~ Present(RoleIn(s))
        PROVE  CreatedTwice(RoleIn(s))'
    <3>1. s # r /\ Through(s) /\ roleRun[s].act # a
      BY <1>4, <2>2, <2>3, <2>7 DEF Through
    <3>2. roleRun[s].act \in Recorded
      BY <3>1, RoleRunFacts DEF Through
    <3>3. RoleIn(s) = q
      BY <1>1, <1>3, <2>1, <2>7 DEF Present
    <3>4. Began(a)
      BY <1>2, <2>2, <3>1, <3>2, <3>3 DEF CreationsFirst, RoleIn
    <3>5. PICK t \in RoleRun : roleRun[t].act = a /\ roleRun[t].pc \notin {"idle", "create"}
      BY <3>4 DEF Began
    <3>6. t # r /\ roleRun'[t] = roleRun[t]
      BY <1>1, <2>1, <3>5
    <3>7. {roleRun'[r].pc, roleRun'[t].pc} \cap {"idle", "create"} = {}
      BY <2>1, <3>5, <3>6
    <3>8. /\ roleRun'[r].act \in Creation /\ roleRun'[t].act = roleRun'[r].act
          /\ RoleIn(r)' = RoleIn(s)'
      BY <1>1, <1>3, <2>2, <3>3, <3>5, <3>6
    <3>. QED  BY <3>6, <3>7, <3>8 DEF CreatedTwice
  <2>8. \A s \in RoleRun : Through(s)' => Through(s)
    BY <1>4, <2>3
  <2>. QED  BY <1>1, <2>1, <2>4, <2>6, <2>7, <2>8, GoneStep
<1>8. CASE LoadRole(r) /\ MovesTo(r, "load", {"put"}) /\ UNCHANGED <<roles, roleDone>>
  <2>1. /\ roleRun[r].pc = "load" /\ roleRun'[r].pc = "put" /\ UNCHANGED <<roles, roleDone>>
        /\ RoleIn(r) \in roles
    BY <1>8 DEF LoadRole, MovesTo
  <2>2. ~ Through(r) /\ ~ Through(r)'
    BY <2>1 DEF Through
  <2>3. \A q : Present(q)' => Present(q)
    BY <1>1, <1>3, <2>1 DEF Present
  <2>4. \A s \in RoleRun : Through(s)' /\ Present(RoleIn(s))' => Through(s) /\ Present(RoleIn(s))
    BY <1>3, <1>4, <2>2, <2>3 DEF Present
  <2>. QED  BY <1>1, <1>5, <2>1, <2>2, <2>4, GoneStep
<1>9. CASE PutRole(r) /\ MovesTo(r, "put", {"usage", "load"}) /\ roleDone' = roleDone
  <2>1. /\ roleRun[r].pc = "put" /\ roleRun'[r].pc \in {"usage", "load"} /\ roleDone' = roleDone
        /\ roles' = roles \cup {RoleIn(r)}
    BY <1>9 DEF PutRole, MovesTo
  <2>2. ~ Through(r) /\ ~ Through(r)'
    BY <2>1 DEF Through
  <2>3. \A q : Present(q)' => Present(q)
    BY <1>1, <1>3, <2>1 DEF Present
  <2>4. \A s \in RoleRun : Through(s)' /\ Present(RoleIn(s))' => Through(s) /\ Present(RoleIn(s))
    BY <1>3, <1>4, <2>2, <2>3 DEF Present
  <2>5. Forward
    BY <1>5, <2>1, <2>2
  <2>6. \A b \in Creation \cap Recorded : wanted[b].role \in roles' \ roles => Began(b)'
    <3>. SUFFICES ASSUME NEW b \in Creation \cap Recorded, wanted[b].role = RoleIn(r)
                  PROVE  Began(b)'
      BY <2>1
    <3>1. roleRun[r].act # b
      BY <1>1, <2>1, ClassOfStep
    <3>2. Began(b)
      BY <1>2, <3>1 DEF CreationsFirst, RoleIn
    <3>. QED  BY <1>1, <2>5, <3>2, ForwardKeeps
  <2>. QED  BY <1>1, <2>1, <2>4, <2>5, <2>6, GoneStep
<1>10. CASE Looks(r)
  <2>1. ~ Through(r) /\ ~ Through(r)'
    BY <1>1, <1>10, RoleActivityAssumption DEF Through, Looks
  <2>2. \A s \in RoleRun : Through(s)' /\ Present(RoleIn(s))' => Through(s) /\ Present(RoleIn(s))
    BY <1>3, <1>4, <1>6, <1>10, <2>1 DEF Present, Looks
  <2>. QED  BY <1>1, <1>5, <1>10, <2>1, <2>2, GoneStep DEF Looks
<1>11. CASE DeleteRole(r) /\ MovesTo(r, "delete", {"spawn"}) /\ roleDone' = roleDone
  <2>1. roleRun[r].pc = "delete" /\ roleRun'[r].pc = "spawn" /\ roleDone' = roleDone
    BY <1>11 DEF MovesTo
  <2>2. \/ /\ roles' = roles \ {RoleIn(r)}
           /\ roleRun'[r].met = {s \in RoleRun : roleRun[s].pc = "put" /\ RoleIn(s) = RoleIn(r)}
        \/ roles' = roles /\ roleRun'[r].kept
    BY <1>11, DeleteRoleRun
  <2>3. ~ Through(r) /\ Through(r)'
    BY <1>1, <2>1, ClassOfStep DEF Through
  <2>4. \A q : Present(q)' => Present(q)
    BY <1>6, <2>1, <2>2
  <2>5. ASSUME Present(RoleIn(r))' PROVE Missed(RoleIn(r))'
    <3>1. CASE roleRun'[r].kept
      BY <2>3, <3>1 DEF Missed
    <3>2. CASE /\ roles' = roles \ {RoleIn(r)}
               /\ roleRun'[r].met = {s \in RoleRun : roleRun[s].pc = "put" /\ RoleIn(s) = RoleIn(r)}
      <4>1. RoleIn(r)' \notin roles'
        BY <1>3, <3>2
      <4>2. PICK u \in RoleRun : roleRun'[u].pc = "put" /\ RoleIn(u)' = RoleIn(r)'
        BY <2>5, <4>1 DEF Present
      <4>3. u \in roleRun'[r].met
        BY <1>1, <1>3, <2>1, <3>2, <4>2
      <4>. QED  BY <2>3, <4>3 DEF Missed
    <3>. QED  BY <2>2, <3>1, <3>2
  <2>6. \A s \in RoleRun : Through(s)' /\ Present(RoleIn(s))' =>
          (Through(s) /\ Present(RoleIn(s))) \/ Missed(RoleIn(s))'
    BY <1>3, <1>4, <2>4, <2>5 DEF Present
  <2>7. roles' \subseteq roles
    BY <2>2
  <2>. QED  BY <1>1, <1>5, <2>1, <2>3, <2>6, <2>7, GoneStep
<1>12. CASE MovesTo(r, "spawn", {"children"}) /\ Remembers(r) /\ UNCHANGED <<roles, roleDone>>
  <2>1. Through(r) <=> Through(r)'
    BY <1>1, <1>12 DEF Through, MovesTo
  <2>2. \A s \in RoleRun : Through(s)' /\ Present(RoleIn(s))' => Through(s) /\ Present(RoleIn(s))
    BY <1>3, <1>4, <1>6, <1>12, <2>1 DEF Present, MovesTo
  <2>. QED  BY <1>1, <1>5, <1>12, <2>1, <2>2, GoneStep DEF MovesTo, Remembers
<1>13. CASE /\ MarkRoleDone(r) /\ MovesTo(r, "children", {"done"}) /\ Remembers(r)
            /\ roles' = roles
  <2>1. Through(r) <=> Through(r)'
    BY <1>1, <1>13 DEF Through, MovesTo
  <2>2. \A s \in RoleRun : Through(s)' /\ Present(RoleIn(s))' => Through(s) /\ Present(RoleIn(s))
    BY <1>3, <1>4, <1>6, <1>13, <2>1 DEF Present, MovesTo
  <2>3. \A x \in Deletion \cap (roleDone' \ roleDone) : roleRun[r].act = x /\ Through(r)
    BY <1>13 DEF MarkRoleDone, MovesTo, Through
  <2>. QED  BY <1>1, <1>5, <1>13, <2>1, <2>2, <2>3, GoneStep DEF MovesTo, Remembers
<1>. QED  BY <1>7, <1>8, <1>9, <1>10, <1>11, <1>12, <1>13, RoleStepMoves DEF RoleMoves

(* A service call records an activity over a role that is there, or that   *)
(* nobody has heard of.                                                    *)
LEMMA RecordGone ==
  ASSUME GoneInv, RoleInv', NEW a \in RoleActivity, NEW toBe \in RoleToBe, RecordRole(a, toBe),
         \/ toBe.role \in roles /\ a \notin Creation
         \/ toBe.role \notin roles /\ \A b \in Recorded : wanted[b].role # toBe.role
  PROVE  GoneInv'
<1>. USE DEF GoneInv, grantedVars, regenerationVars
<1>1. /\ wanted[a] = None /\ wanted' = [wanted EXCEPT ![a] = toBe]
      /\ UNCHANGED <<roles, roleDone, roleRun>>
  BY DEF RecordRole
<1>2. /\ Recorded' = Recorded \cup {a} /\ a \notin Recorded
      /\ wanted'[a] = toBe /\ \A b \in Recorded : wanted'[b] = wanted[b]
  BY <1>1, RoleActivityAssumption DEF RoleInv, RoleTypeOK, Recorded
<1>3. Forward
  BY <1>1 DEF Forward, Through
<1>4. /\ \A r \in RoleRun : roleRun[r].pc # "idle" => RoleIn(r)' = RoleIn(r)
      /\ \A b : Began(b) => Began(b)'
      /\ \A q : CreatedTwice(q) => CreatedTwice(q)'
      /\ \A q : Missed(q) => Missed(q)'
  BY <1>2, <1>3, ForwardKeeps
<1>5. CreationsFirst'
  BY <1>1, <1>2, <1>4 DEF CreationsFirst
<1>6. DeletionsHold'
  <2>. SUFFICES ASSUME NEW s \in RoleRun, Through(s)', Present(RoleIn(s))'
                PROVE  (CreatedTwice(RoleIn(s)) \/ Missed(RoleIn(s)))'
    BY DEF DeletionsHold
  <2>1. Through(s) /\ RoleIn(s)' = RoleIn(s)
    BY <1>1, <1>4 DEF Through
  <2>2. Present(RoleIn(s))
    BY <1>1, <1>4, <2>1 DEF Present
  <2>3. CreatedTwice(RoleIn(s)) \/ Missed(RoleIn(s))
    BY <2>1, <2>2 DEF DeletionsHold
  <2>4. CreatedTwice(RoleIn(s))' \/ Missed(RoleIn(s))'
    BY <1>4, <2>1, <2>3 DEF CreatedTwice, Missed
  <2>. QED  BY <2>4
<1>7. CompletedByRun'
  BY <1>1 DEF CompletedByRun, Through
<1>. QED  BY <1>5, <1>6, <1>7

(* A run starts: it has written and deleted nothing yet.                   *)
LEMMA StartGone ==
  ASSUME GoneInv, RoleInv', NEW r \in RoleRun, NEW a \in RoleActivity, StartRoleRun(r, a),
         UNCHANGED <<grantedVars, wanted, roleDone>>
  PROVE  GoneInv'
<1>. USE DEF GoneInv, grantedVars, regenerationVars
<1>1. /\ roleRun[r].pc = "idle"
      /\ roleRun' = [roleRun EXCEPT ![r].pc = FirstStep(a), ![r].act = a]
  BY DEF StartRoleRun
<1>2. roleRun \in [RoleRun -> RoleRunState]
  BY DEF RoleInv, RoleTypeOK
<1>3. FirstStep(a) \in {"create", "load", "usage"}
  BY DEF FirstStep
<1>4. /\ \A s \in RoleRun \ {r} : roleRun'[s] = roleRun[s]
      /\ roleRun'[r].pc = FirstStep(a)
  BY <1>1, <1>2 DEF RoleRunState
<1>5. Forward
  BY <1>1, <1>4 DEF Forward, Through
<1>6. ~ Through(r)'
  BY <1>3, <1>4 DEF Through
<1>7. \A s \in RoleRun \ {r} : Through(s)' = Through(s) /\ RoleIn(s)' = RoleIn(s)
  BY <1>4 DEF Through, RoleIn
<1>8. \A q : Present(q)' => Present(q)
  BY <1>3, <1>4, <1>7 DEF Present
<1>9. \A s \in RoleRun : Through(s)' /\ Present(RoleIn(s))' => Through(s) /\ Present(RoleIn(s))
  BY <1>6, <1>7, <1>8 DEF Present
<1>. QED  BY <1>5, <1>9, GoneStep

(* Steps that leave roles and runs alone.                                  *)
LEMMA IdleGone ==
  ASSUME GoneInv, RoleInv', UNCHANGED <<roles, wanted, roleRun>>,
         \A x \in Deletion \cap (roleDone' \ roleDone) :
           \E s \in RoleRun : roleRun[s].act = x /\ Through(s)
  PROVE  GoneInv'
<1>1. Forward
  BY DEF Forward, Through
<1>2. \A s \in RoleRun : Through(s)' /\ Present(RoleIn(s))' => Through(s) /\ Present(RoleIn(s))
  BY DEF Through, Present, RoleIn
<1>. QED  BY <1>1, <1>2, GoneStep

LEMMA GoneNext ==
  ASSUME GoneInv, [RoleNext]_roleSpecVars
  PROVE  GoneInv'
<1>. USE DEF GoneInv
<1>0. RoleInv'
  BY RoleNextInv
<1>1. CASE Next /\ CoverMembers /\ UNCHANGED roleVars
  <2>1. UNCHANGED <<roles, wanted, roleRun, roleDone>>
    BY <1>1, NextGranting DEF roleVars, RoleInv, RoleTypeOK, GrantingInv
  <2>. QED  BY <1>0, <2>1, IdleGone
<1>2. ASSUME NEW q \in Role, NEW m \in SUBSET (Agent \ Application),
             NEW a \in Creation \cup Update,
             (a \in Creation /\ RecordCreation(a, q, m)) \/ (a \in Update /\ RecordUpdate(a, q, m))
      PROVE  GoneInv'
  <2>. DEFINE toBe == [role |-> q, members |-> m]
  <2>1. toBe \in RoleToBe /\ toBe.role = q /\ a \in RoleActivity
    BY <1>2 DEF RoleToBe, RoleActivity
  <2>2. RecordRole(a, toBe)
    BY <1>2 DEF RecordCreation, RecordUpdate
  <2>3. \/ q \in roles /\ a \notin Creation
        \/ q \notin roles /\ \A b \in Recorded : wanted[b].role # q
    BY <1>2, RoleActivityAssumption DEF RecordCreation, RecordUpdate
  <2>. HIDE DEF toBe
  <2>. QED  BY <1>0, <2>1, <2>2, <2>3, RecordGone
<1>3. ASSUME NEW q \in Role, NEW a \in Deletion, RecordDeletion(a, q)
      PROVE  GoneInv'
  <2>. DEFINE toBe == [role |-> q, members |-> members[q]]
  <2>1. toBe \in RoleToBe /\ toBe.role = q /\ a \in RoleActivity
    BY DEF RoleToBe, RoleActivity, RoleInv, RoleTypeOK, TypeOK, RegenerationTypeOK
  <2>2. RecordRole(a, toBe) /\ q \in roles
    BY <1>3 DEF RecordDeletion
  <2>3. a \notin Creation
    BY RoleActivityAssumption
  <2>. HIDE DEF toBe
  <2>. QED  BY <1>0, <2>1, <2>2, <2>3, RecordGone
<1>4. ASSUME NEW a \in RoleActivity, NEW r \in RoleRun, DeliverRole(a, r)
      PROVE  GoneInv'
  BY <1>0, <1>4, StartGone DEF DeliverRole
<1>5. ASSUME NEW r \in RoleRun, RerunRole(r)
      PROVE  GoneInv'
  <2>1. PICK a \in roleSweep.todo : StartRoleRun(r, a)
    BY <1>5 DEF RerunRole
  <2>2. a \in RoleActivity /\ UNCHANGED <<grantedVars, wanted, roleDone>>
    BY <1>5, <2>1 DEF RerunRole, RoleInv, RoleRunsInv, Recorded
  <2>. QED  BY <1>0, <2>1, <2>2, StartGone
<1>6. ASSUME NEW r \in RoleRun, RoleStep(r)
      PROVE  GoneInv'
  BY <1>0, <1>6, RoleStepGone
<1>7. CASE StartRoleSweep \/ FinishRerun
  <2>1. UNCHANGED <<roles, wanted, roleRun>>
    BY <1>7 DEF StartRoleSweep, FinishRerun, grantedVars, regenerationVars
  <2>2. \A x \in Deletion \cap (roleDone' \ roleDone) :
           \E s \in RoleRun : roleRun[s].act = x /\ Through(s)
    <3>1. CASE StartRoleSweep
      BY <3>1 DEF StartRoleSweep
    <3>2. CASE FinishRerun
      BY <3>2 DEF FinishRerun, Through, RoleInv, RoleTypeOK
    <3>. QED  BY <1>7, <3>1, <3>2
  <2>. QED  BY <1>0, <2>1, <2>2, IdleGone
<1>8. CASE UNCHANGED roleSpecVars
  <2>1. UNCHANGED <<roles, wanted, roleRun, roleDone>>
    BY <1>8 DEF roleSpecVars, vars, regenerationVars, roleVars
  <2>. QED  BY <1>0, <2>1, IdleGone
<1>. QED  BY <1>1, <1>2, <1>3, <1>4, <1>5, <1>6, <1>7, <1>8 DEF RoleNext

(* deleteRoleFromRegistry before markActivitiesDone: a role whose deletion *)
(* is completed stays gone, whoever reruns the deletion or changes the     *)
(* role, unless its creation ran twice, an update was caught between its   *)
(* read and its write, or the deletion itself could not read the role.     *)
THEOREM DeletedRoleAlwaysGone == RoleSpec => []DeletedRoleGone
<1>1. RoleInit => GoneInv
  <2>. SUFFICES ASSUME RoleInit PROVE GoneInv
    OBVIOUS
  <2>1. RoleInv
    BY RoleInitInv
  <2>2. Recorded = {} /\ roleDone = {}
    BY DEF RoleInit, Recorded
  <2>3. \A s \in RoleRun : ~ Through(s)
    BY DEF RoleInit, IdleRoleRun, Through
  <2>. QED  BY <2>1, <2>2, <2>3 DEF GoneInv, CreationsFirst, DeletionsHold, CompletedByRun
<1>2. GoneInv /\ [RoleNext]_roleSpecVars => GoneInv'
  BY GoneNext
<1>3. GoneInv => DeletedRoleGone
  <2>. SUFFICES ASSUME GoneInv, NEW x \in Deletion \cap roleDone, wanted[x].role \in roles
                PROVE  CreatedTwice(wanted[x].role) \/ DeletionMissed(wanted[x].role)
    BY DEF DeletedRoleGone
  <2>1. PICK s \in RoleRun : roleRun[s].act = x /\ Through(s)
    BY DEF GoneInv, CompletedByRun
  <2>2. RoleIn(s) = wanted[x].role /\ Present(RoleIn(s))
    BY <2>1 DEF RoleIn, Present
  <2>3. CreatedTwice(RoleIn(s)) \/ Missed(RoleIn(s))
    BY <2>1, <2>2 DEF GoneInv, DeletionsHold
  <2>4. \A q : Missed(q) => DeletionMissed(q)
    BY DEF Missed, DeletionMissed, Through
  <2>. QED  BY <2>2, <2>3, <2>4
<1>. QED  BY <1>1, <1>2, <1>3, PTL DEF RoleSpec

-----------------------------------------------------------------------------
(* When everything is over the registrations are current.  First what is   *)
(* true of the work itself, whoever has changed what.                      *)

(* A child at work, that has read the registry.                            *)
Late(c) == child[c].pc \notin {"idle", "authorizations", "done"}

(* Whoever started a child waits for it.                                   *)
OwnedByLeg(c) ==
  /\ ParentOf(c) \in Leg
  /\ AgentOf(c) \in leg[ParentOf(c)].to
  /\ \/ leg[ParentOf(c)].pc = "children"
     \/ leg[ParentOf(c)].pc = "done" /\ child[c].pc = "done"

OwnedByRun(c) ==
  \E r \in RoleRun : /\ ParentOf(c) = <<r, RoleIn(r)>>
                     /\ AgentOf(c) \in roleRun[r].to
                     /\ \/ roleRun[r].pc = "children"
                        \/ roleRun[r].pc = "done" /\ child[c].pc = "done"

Owned == \A c \in Child : child[c].pc # "idle" => OwnedByLeg(c) \/ OwnedByRun(c)

(* A linked grant is from before or from a child that has generated its    *)
(* grants.                                                                 *)
FromPast(c) == RunOf(ParentOf(c)) = Past

LinkBy == \A p \in Agent : \A g \in links[p] :
            /\ AgentOf(g.by) = p
            /\ child[g.by].pc \in {"read", "patch", "done"} \/ FromPast(g.by)

(* One child of agent p at a time: it has read the links there are.        *)
Alone(p) ==
  /\ AtMostOneActive(p)
  /\ \A c \in Child : AgentOf(c) = p /\ child[c].pc = "patch" => child[c].read = links[p]
  /\ OneEach(links[p])

ChildrenWork == /\ Owned
                /\ LinkBy
                /\ \A c \in Child : Accounts(c)
                /\ \A p \in Agent \ overlap : Alone(p)

(* A leg stores its own share, and a run is over when its legs are.        *)
LegsWork ==
  /\ \A l \in Leg : leg[l].pc = "materialize" => leg[l].todo \subseteq Share(l)
  /\ Over

(* A role run takes the steps of its activity's class, and what a deletion *)
(* is still to delete is what its scan found.                              *)
Scanned(r) ==
  roleRun[r].pc = "authorizations" =>
    \A d \in roleRun[r].gone : \/ GranteeOf[d] = RoleIn(r) /\ roleRun[r].used
                               \/ GranteeOf[d] \in roleRun[r].via

RunsWork ==
  \A r \in RoleRun :
    /\ roleRun[r].pc \in {"load", "put"} => roleRun[r].act \in Update
    /\ roleRun[r].pc = "usage" => roleRun[r].act \in Update \cup Deletion
    /\ roleRun[r].pc \in {"authorizations", "delete"} => roleRun[r].act \in Deletion
    /\ Scanned(r)

WorkInv == ChildrenWork /\ LegsWork /\ RunsWork

(* Where a child of the past is not, and no other child is twice.          *)
LEMMA OwnedParts ==
  ASSUME RoleInv, Owned, NEW c \in Child, child[c].pc # "idle"
  PROVE  ~ FromPast(c)
<1>1. CASE OwnedByLeg(c)
  BY <1>1, LegParts, RoleRunAssumption, GrantRunAssumption DEF OwnedByLeg, FromPast
<1>2. CASE OwnedByRun(c)
  BY <1>2, RoleRunAssumption DEF OwnedByRun, FromPast, RunOf
<1>. QED  BY <1>1, <1>2 DEF Owned

(* What a linked grant's child is no longer doing.                         *)
LEMMA LinkedSettled ==
  ASSUME RoleInv, Owned, LinkBy, NEW p \in Agent, NEW g \in links[p]
  PROVE  /\ g.by \in Child /\ AgentOf(g.by) = p /\ g.da \in DA
         /\ child[g.by].pc \notin {"authorizations", "generate"}
         /\ child[g.by].pc = "idle" => FromPast(g.by)
<1>1. g \in Grant
  BY DEF RoleInv, RoleTypeOK, TypeOK, RegenerationTypeOK
<1>2. g.by \in Child /\ g.da \in DA
  BY <1>1 DEF Grant
<1>. QED  BY <1>2, OwnedParts DEF LinkBy

(* The only child at work replaces all links by its own grants.            *)
LEMMA AlonePatch ==
  ASSUME RegenerationTypeOK, GrantsInv, NEW c \in Child, Accounts(c), PatchLinks(c),
         Alone(AgentOf(c))
  PROVE  /\ links'[AgentOf(c)] = child[c].new
         /\ Linked(AgentOf(c))' = child[c].seen
<1>1. child[c].pc = "patch"
  BY PatchLinksEffect
<1>2. child[c].read = links[AgentOf(c)]
  BY <1>1 DEF Alone
<1>3. links'[AgentOf(c)] = child[c].new
  BY <1>2, PatchLinksEffect
<1>. QED  BY <1>1, <1>3, NewIsSeen DEF Linked

(* A child's step keeps it alone.                                          *)
LEMMA ChildStepAlone ==
  ASSUME RegenerationTypeOK, GrantsInv, NEW c \in Child, ChildStep(c), Accounts(c),
         NEW p \in Agent, Alone(p)
  PROVE  Alone(p)'
<1>0. /\ \A e \in Child \ {c} : child'[e] = child[e]
      /\ child[c].pc \notin {"idle", "done"}
  BY ChildStepFrame
<1>1. CASE AgentOf(c) # p
  <2>1. links'[p] = links[p]
    BY <1>1, ChildStepEarly, ReadLinksEffect, PatchLinksEffect
  <2>2. \A e \in Child : AgentOf(e) = p => child'[e] = child[e]
    BY <1>0, <1>1
  <2>3. AtMostOneActive(p)'
    BY <2>2 DEF Alone, AtMostOneActive, Active
  <2>. QED  BY <2>1, <2>2, <2>3 DEF Alone
<1>2. CASE AgentOf(c) = p
  <2>1. Active(c)
    BY <1>0 DEF Active
  <2>2. \A e \in Child \ {c} : AgentOf(e) = p => /\ child'[e] = child[e]
                                                 /\ child[e].pc \in {"idle", "done"}
    BY <1>0, <1>2, <2>1 DEF Alone, AtMostOneActive, Active
  <2>3. AtMostOneActive(p)'
    BY <2>2 DEF AtMostOneActive, Active
  <2>4. CASE PatchLinks(c)
    <3>1. links'[p] = child[c].new
      BY <1>2, <2>4, AlonePatch
    <3>2. child'[c].pc # "patch"
      BY <2>4, PatchLinksEffect
    <3>. QED  BY <2>2, <2>3, <3>1, <3>2 DEF Alone, Accounts
  <2>5. CASE ReadLinks(c)
    <3>1. links' = links /\ child'[c].read = links[p]
      BY <1>2, <2>5, ReadLinksEffect
    <3>. QED  BY <2>2, <2>3, <3>1 DEF Alone
  <2>6. CASE ~ ReadLinks(c) /\ ~ PatchLinks(c)
    <3>1. links' = links /\ child'[c].pc # "patch"
      BY <2>6, ChildStepEarly
    <3>. QED  BY <2>2, <2>3, <3>1 DEF Alone
  <2>. QED  BY <2>4, <2>5, <2>6
<1>. QED  BY <1>1, <1>2

(* What a child's step does to links: it adds none but its own grants.     *)
LEMMA ChildStepLinkBy ==
  ASSUME RegenerationTypeOK, GrantsInv, LinkBy, NEW c \in Child, ChildStep(c)
  PROVE  LinkBy'
<1>1. /\ \A e \in Child \ {c} : child'[e] = child[e]
  BY ChildStepFrame
<1>2. child[c].pc \in {"read", "patch", "done"} => child'[c].pc \in {"read", "patch", "done"}
  BY ChildStepEarly, ReadLinksEffect, PatchLinksEffect
<1>3. \A g \in Grant : child[g.by].pc \in {"read", "patch", "done"}
                         => child'[g.by].pc \in {"read", "patch", "done"}
  <2>1. \A g \in Grant : g.by \in Child
    BY DEF Grant
  <2>. QED  BY <1>1, <1>2, <2>1
<1>4. \A p \in Agent : links[p] \subseteq Grant
  BY DEF RegenerationTypeOK
<1>. SUFFICES ASSUME NEW p \in Agent, NEW g \in links'[p]
              PROVE  /\ AgentOf(g.by) = p
                     /\ child'[g.by].pc \in {"read", "patch", "done"} \/ FromPast(g.by)
  BY DEF LinkBy
<1>5. CASE g \in links[p]
  BY <1>3, <1>4, <1>5 DEF LinkBy
<1>6. CASE g \notin links[p]
  <2>1. PatchLinks(c)
    BY <1>6, ChildStepEarly, ReadLinksEffect
  <2>2. AgentOf(c) = p /\ g \in child[c].new
    BY <1>6, <2>1, PatchLinksEffect
  <2>3. g.by = c
    BY <2>2 DEF GrantsInv
  <2>. QED  BY <2>1, <2>2, <2>3, PatchLinksEffect
<1>. QED  BY <1>5, <1>6

(* A child's step.                                                         *)
LEMMA ChildStepWork ==
  ASSUME RoleInv, ChildrenWork, NEW c \in Child, ChildStep(c),
         UNCHANGED <<grantingVars, roleVars>>
  PROVE  ChildrenWork'
<1>. USE DEF RoleInv, RoleTypeOK, TypeOK
<1>1. /\ \A e \in Child \ {c} : child'[e] = child[e]
      /\ child[c].pc \notin {"idle", "done"}
  BY ChildStepFrame
<1>2. Owned'
  <2>. SUFFICES ASSUME NEW e \in Child, child'[e].pc # "idle"
                PROVE  OwnedByLeg(e)' \/ OwnedByRun(e)'
    BY DEF Owned
  <2>1. child[e].pc # "idle" /\ (child[e].pc = "done" => child'[e].pc = "done")
    BY <1>1
  <2>2. OwnedByLeg(e) => OwnedByLeg(e)'
    BY <2>1 DEF OwnedByLeg, grantingVars
  <2>3. OwnedByRun(e) => OwnedByRun(e)'
    BY <2>1 DEF OwnedByRun, RoleIn, roleVars
  <2>. QED  BY <2>1, <2>2, <2>3 DEF ChildrenWork, Owned
<1>3. LinkBy'
  BY ChildStepLinkBy DEF ChildrenWork
<1>4. \A e \in Child : Accounts(e)'
  <2>1. \A e \in Child \ {c} : Accounts(e)'
    BY <1>1 DEF ChildrenWork, Accounts
  <2>. QED  BY <2>1, ChildStepAccounts DEF ChildrenWork
<1>5. overlap' = overlap
  BY ChildStepEarly, ReadLinksEffect, PatchLinksEffect
<1>6. \A p \in Agent \ overlap' : Alone(p)'
  BY <1>5, ChildStepAlone DEF ChildrenWork
<1>. QED  BY <1>2, <1>3, <1>4, <1>6 DEF ChildrenWork

(* Steps that touch neither children nor links, and leave who started a    *)
(* child waiting until it is done.                                         *)
LEMMA ChildrenWorkStays ==
  ASSUME RoleInv, ChildrenWork, UNCHANGED <<child, links, overlap>>,
         \A l \in Leg : leg[l].pc \in {"children", "done"} =>
           /\ leg'[l].to = leg[l].to
           /\ \/ leg'[l].pc = leg[l].pc
              \/ leg'[l].pc = "done" /\ \A a \in leg[l].to : child[<<l, a>>].pc = "done",
         \A r \in RoleRun : roleRun[r].pc \in {"children", "done"} =>
           /\ RoleIn(r)' = RoleIn(r) /\ roleRun'[r].to = roleRun[r].to
           /\ \/ roleRun'[r].pc = roleRun[r].pc
              \/ /\ roleRun'[r].pc = "done"
                 /\ \A a \in roleRun[r].to : child[<<<<r, RoleIn(r)>>, a>>].pc = "done"
  PROVE  ChildrenWork'
<1>1. ASSUME NEW c \in Child, child[c].pc # "idle" PROVE OwnedByLeg(c)' \/ OwnedByRun(c)'
  <2>1. c = <<ParentOf(c), AgentOf(c)>>
    BY ChildParts
  <2>2. OwnedByLeg(c) => OwnedByLeg(c)'
    BY <2>1 DEF OwnedByLeg
  <2>3. OwnedByRun(c) => OwnedByRun(c)'
    BY <2>1 DEF OwnedByRun
  <2>. QED  BY <1>1, <2>2, <2>3 DEF ChildrenWork, Owned
<1>2. Owned' /\ LinkBy'
  BY <1>1 DEF ChildrenWork, Owned, LinkBy
<1>3. \A c \in Child : Accounts(c)'
  BY DEF ChildrenWork, Accounts
<1>4. \A p \in Agent \ overlap : Alone(p)'
  BY DEF ChildrenWork, Alone, AtMostOneActive, Active
<1>. QED  BY <1>2, <1>3, <1>4 DEF ChildrenWork

(* Children start that have not been used.                                 *)
Started(q, agents, c) == ParentOf(c) = q /\ AgentOf(c) \in agents

(* What starting children makes of each child.                             *)
LEMMA StartedChildren ==
  ASSUME NEW q, NEW agents, StartChildren(q, agents)
  PROVE  \A c \in Child :
           IF Started(q, agents, c)
           THEN /\ child'[c].pc = "authorizations"
                /\ child'[c].seen = {} /\ child'[c].todo = {} /\ child'[c].new = {}
           ELSE child'[c] = child[c]
<1>1. LET fresh == [IdleChild EXCEPT !.pc = "authorizations"]
      IN fresh.pc = "authorizations" /\ fresh.seen = {} /\ fresh.todo = {} /\ fresh.new = {}
  BY DEF IdleChild
<1>2. \A c \in Child : child'[c] = IF Started(q, agents, c)
                                   THEN [IdleChild EXCEPT !.pc = "authorizations"]
                                   ELSE child[c]
  BY DEF StartChildren, Started
<1>. QED  BY <1>1, <1>2

(* Children of a parent that had none keep the account.                    *)
LEMMA StartWork ==
  ASSUME RoleInv, ChildrenWork, NEW q, NEW agents \in SUBSET Agent, StartChildren(q, agents),
         UNCHANGED links,
         \A c \in Child : ParentOf(c) = q => child[c].pc = "idle",
         \A c \in Child : Started(q, agents, c) => OwnedByLeg(c)' \/ OwnedByRun(c)',
         \A c \in Child : child[c].pc # "idle" => OwnedByLeg(c)' \/ OwnedByRun(c)'
  PROVE  ChildrenWork'
<1>1. \A c \in Child : IF Started(q, agents, c)
                       THEN /\ child'[c].pc = "authorizations"
                            /\ child'[c].todo = {} /\ child'[c].new = {}
                            /\ child[c].pc = "idle"
                       ELSE child'[c] = child[c]
  BY StartedChildren DEF Started
<1>2. overlap' = overlap \cup {a \in agents : \E c \in Child : AgentOf(c) = a /\ Active(c)}
  BY DEF StartChildren
<1>3. Owned'
  BY <1>1 DEF Owned
<1>4. LinkBy'
  <2>. SUFFICES ASSUME NEW p \in Agent, NEW g \in links[p]
                PROVE  /\ AgentOf(g.by) = p
                       /\ child'[g.by].pc \in {"read", "patch", "done"} \/ FromPast(g.by)
    BY DEF LinkBy
  <2>1. /\ g.by \in Child /\ AgentOf(g.by) = p
        /\ child[g.by].pc \in {"read", "patch", "done"} \/ FromPast(g.by)
    BY LinkedSettled DEF ChildrenWork, LinkBy
  <2>. QED  BY <1>1, <2>1
<1>5. \A c \in Child : Accounts(c)'
  <2>. SUFFICES ASSUME NEW c \in Child PROVE Accounts(c)'
    OBVIOUS
  <2>1. CASE Started(q, agents, c)
    BY <1>1, <2>1 DEF Accounts, OneEach
  <2>2. CASE ~ Started(q, agents, c)
    <3>1. child'[c] = child[c] /\ Accounts(c)
      BY <1>1, <2>2 DEF ChildrenWork
    <3>. QED  BY <3>1 DEF Accounts
  <2>. QED  BY <2>1, <2>2
<1>6. ASSUME NEW p \in Agent \ overlap' PROVE Alone(p)'
  <2>1. Alone(p)
    BY <1>2 DEF ChildrenWork
  <2>2. AtMostOneActive(p)'
    <3>. SUFFICES ASSUME NEW c \in Child, NEW d \in Child, AgentOf(c) = p, AgentOf(d) = p,
                         Active(c)', Active(d)'
                  PROVE  c = d
      BY DEF AtMostOneActive
    <3>1. CASE Started(q, agents, c) /\ Started(q, agents, d)
      BY <3>1, ChildParts DEF Started
    <3>2. CASE ~ Started(q, agents, c) /\ ~ Started(q, agents, d)
      <4>1. Active(c) /\ Active(d)
        BY <1>1, <3>2 DEF Active
      <4>. QED  BY <2>1, <4>1 DEF Alone, AtMostOneActive
    <3>3. CASE Started(q, agents, c) /\ ~ Started(q, agents, d)
      <4>1. Active(d) /\ p \in agents
        BY <1>1, <3>3 DEF Active, Started
      <4>. QED  BY <1>2, <4>1
    <3>4. CASE ~ Started(q, agents, c) /\ Started(q, agents, d)
      <4>1. Active(c) /\ p \in agents
        BY <1>1, <3>4 DEF Active, Started
      <4>. QED  BY <1>2, <4>1
    <3>. QED  BY <3>1, <3>2, <3>3, <3>4
  <2>. QED  BY <1>1, <2>1, <2>2 DEF Alone
<1>. QED  BY <1>3, <1>4, <1>5, <1>6 DEF ChildrenWork

(* The facts of a fan-out.                                                 *)
LEMMA FanOutEffect ==
  ASSUME RoleInv, ChildrenWork, NEW l \in Leg, FanOut(l)
  PROVE  /\ leg[l].pc = "fanout"
         /\ GranteeIn(l) \in Role => GranteeIn(l) \in roles
         /\ StartChildren(l, AgentsIn(GranteeIn(l)))
         /\ AgentsIn(GranteeIn(l)) \subseteq Agent
         /\ leg'[l].pc = "children" /\ leg'[l].to = AgentsIn(GranteeIn(l))
         /\ \A k \in Leg \ {l} : leg'[k] = leg[k]
         /\ \A c \in Child : ParentOf(c) = l => child[c].pc = "idle"
         /\ UNCHANGED <<store, links, outbox, done, inbox, run, sweep>>
<1>1. /\ leg[l].pc = "fanout"
      /\ GranteeIn(l) \in Role => GranteeIn(l) \in roles
      /\ StartChildren(l, AgentsIn(GranteeIn(l)))
      /\ leg' = [leg EXCEPT ![l].pc = "children", ![l].to = AgentsIn(GranteeIn(l))]
      /\ UNCHANGED <<store, links, outbox, done, inbox, run, sweep>>
  BY DEF FanOut, AgentsIn
<1>2. leg \in [Leg -> LegState]
  BY DEF RoleInv, RoleTypeOK, TypeOK
<1>3. leg'[l].pc = "children" /\ leg'[l].to = AgentsIn(GranteeIn(l))
      /\ \A k \in Leg \ {l} : leg'[k] = leg[k]
  BY <1>1, <1>2 DEF LegState
<1>4. AgentsIn(GranteeIn(l)) \subseteq Agent
  BY LegParts, AgentsInAgents DEF RoleInv, RoleTypeOK, TypeOK
<1>5. ASSUME NEW c \in Child, ParentOf(c) = l, child[c].pc # "idle" PROVE FALSE
  <2>1. CASE OwnedByLeg(c)
    BY <1>1, <1>5, <2>1 DEF OwnedByLeg
  <2>2. CASE OwnedByRun(c)
    <3>1. PICK r \in RoleRun : l = <<r, RoleIn(r)>>
      BY <1>5, <2>2 DEF OwnedByRun
    <3>. QED  BY <3>1, LegParts, RoleRunAssumption DEF RunOf
  <2>. QED  BY <1>5, <2>1, <2>2 DEF ChildrenWork, Owned
<1>. QED  BY <1>1, <1>3, <1>4, <1>5

(* A leg's children.                                                       *)
LEMMA FanOutWork ==
  ASSUME RoleInv, WorkInv, NEW l \in Leg, FanOut(l), UNCHANGED roleVars
  PROVE  ChildrenWork'
<1>. DEFINE agents == AgentsIn(GranteeIn(l))
<1>0. ChildrenWork
  BY DEF WorkInv
<1>1. /\ leg[l].pc = "fanout"
      /\ StartChildren(l, agents) /\ agents \subseteq Agent /\ UNCHANGED links
      /\ leg'[l].pc = "children" /\ leg'[l].to = agents
      /\ \A k \in Leg \ {l} : leg'[k] = leg[k]
      /\ \A c \in Child : ParentOf(c) = l => child[c].pc = "idle"
  BY <1>0, FanOutEffect
<1>. HIDE DEF agents
<1>2. \A c \in Child : Started(l, agents, c) => OwnedByLeg(c)'
  BY <1>1 DEF Started, OwnedByLeg
<1>3. ASSUME NEW c \in Child, child[c].pc # "idle"
      PROVE  OwnedByLeg(c)' \/ OwnedByRun(c)'
  <2>1. child'[c] = child[c]
    BY <1>1, <1>3, StartedChildren DEF Started
  <2>2. OwnedByLeg(c) => OwnedByLeg(c)'
    BY <1>1, <2>1 DEF OwnedByLeg
  <2>3. OwnedByRun(c) => OwnedByRun(c)'
    BY <2>1 DEF OwnedByRun, roleVars, RoleIn
  <2>. QED  BY <1>0, <1>3, <2>2, <2>3 DEF ChildrenWork, Owned
<1>. QED  BY <1>0, <1>1, <1>2, <1>3, StartWork

(* What a step of run r leaves of the other runs, and of its own activity. *)
OnlyRun(r) == /\ \A s \in RoleRun \ {r} : roleRun'[s] = roleRun[s]
              /\ roleRun'[r].act = roleRun[r].act
              /\ wanted' = wanted

(* While activities stay, so do the role and the members of every run.     *)
LEMMA RolesKnown ==
  ASSUME NEW r \in RoleRun, OnlyRun(r)
  PROVE  \A s \in RoleRun : RoleIn(s)' = RoleIn(s) /\ MembersIn(s)' = MembersIn(s)
  BY DEF OnlyRun, RoleIn, MembersIn

(* A run that moves on with what it knows.                                 *)
Moves(r, pc) == /\ roleRun'[r].pc = pc
                /\ roleRun'[r].before = roleRun[r].before
                /\ roleRun'[r].used = roleRun[r].used
                /\ roleRun'[r].via = roleRun[r].via
                /\ roleRun'[r].gone = roleRun[r].gone
                /\ roleRun'[r].to = roleRun[r].to

(* Goto moves the run and nothing else.                                    *)
LEMMA GotoMoves ==
  ASSUME RoleInv, NEW r \in RoleRun, NEW pc, Goto(r, pc), wanted' = wanted
  PROVE  OnlyRun(r) /\ Moves(r, pc)
  BY DEF RoleInv, RoleTypeOK, RoleRunState, Goto, OnlyRun, Moves

(* The other runs keep to their steps.                                     *)
LEMMA RunsWorkStep ==
  ASSUME RunsWork, NEW r \in RoleRun, OnlyRun(r),
         roleRun'[r].pc \in {"load", "put"} => roleRun[r].act \in Update,
         roleRun'[r].pc = "usage" => roleRun[r].act \in Update \cup Deletion,
         roleRun'[r].pc \in {"authorizations", "delete"} => roleRun[r].act \in Deletion,
         Scanned(r)'
  PROVE  RunsWork'
<1>1. \A s \in RoleRun : RoleIn(s)' = RoleIn(s)
  BY RolesKnown
<1>2. \A s \in RoleRun \ {r} : Scanned(s)'
  BY <1>1 DEF RunsWork, Scanned, OnlyRun
<1>. QED  BY <1>2 DEF RunsWork, OnlyRun

(* Who is waited for by run r is waited for on.                            *)
LEMMA OtherRunsWait ==
  ASSUME NEW r \in RoleRun, OnlyRun(r), roleRun[r].pc \notin {"children", "done"}
  PROVE  \A s \in RoleRun : roleRun[s].pc \in {"children", "done"} =>
           /\ RoleIn(s)' = RoleIn(s) /\ roleRun'[s].to = roleRun[s].to
           /\ roleRun'[s].pc = roleRun[s].pc
  BY RolesKnown DEF OnlyRun

(* A step of a role run that touches no child and no leg.                  *)
LEMMA RoleStepWork ==
  ASSUME RoleInv, WorkInv, NEW r \in RoleRun, OnlyRun(r),
         roleRun[r].pc \notin {"children", "done"},
         UNCHANGED <<child, links, overlap, grantingVars>>,
         roleRun'[r].pc \in {"load", "put"} => roleRun[r].act \in Update,
         roleRun'[r].pc = "usage" => roleRun[r].act \in Update \cup Deletion,
         roleRun'[r].pc \in {"authorizations", "delete"} => roleRun[r].act \in Deletion,
         Scanned(r)'
  PROVE  WorkInv'
<1>1. ChildrenWork'
  BY OtherRunsWait, ChildrenWorkStays DEF WorkInv, grantingVars
<1>2. LegsWork'
  BY DEF WorkInv, LegsWork, Over, Share, Group, grantingVars
<1>3. RunsWork'
  BY RunsWorkStep DEF WorkInv
<1>. QED  BY <1>1, <1>2, <1>3 DEF WorkInv

-----------------------------------------------------------------------------
(* What each step of a role workflow does, where no reading was outdated.  *)
Fresh == stale' = {}

(* What a step of a role run does where nothing is marked outdated:        *)
(* createRoleAtId,                                                         *)
LEMMA CreateEffect ==
  ASSUME RoleInv, NEW r \in RoleRun, CreateRoleAtId(r), Fresh
  PROVE  /\ roleRun[r].pc = "create" /\ OnlyRun(r) /\ Moves(r, "children")
         /\ RoleIn(r) \in Role /\ MembersIn(r) \subseteq Agent
         /\ UNCHANGED <<auth, child, links, cover, overlap, grantingVars, registered>>
         /\ stale = {}
         /\ \/ UNCHANGED <<roles, members>>
            \/ /\ RoleIn(r) \notin roles
               /\ \A b \in Deletion \cap Recorded : wanted[b].role # RoleIn(r)
               /\ roles' = roles \cup {RoleIn(r)}
               /\ members'[RoleIn(r)] = MembersIn(r)
               /\ \A q \in Role \ {RoleIn(r)} : members'[q] = members[q]
<1>1. /\ roleRun[r].pc = "create" /\ Goto(r, "children") /\ wanted' = wanted
      /\ UNCHANGED <<auth, child, links, cover, overlap, grantingVars, registered>>
      /\ \/ RoleIn(r) \in roles /\ UNCHANGED <<roles, members, stale>>
         \/ /\ RoleIn(r) \notin roles
            /\ roles' = roles \cup {RoleIn(r)}
            /\ members' = [members EXCEPT ![RoleIn(r)] = MembersIn(r)]
            /\ stale' = IF \E b \in Deletion \cap Recorded : wanted[b].role = RoleIn(r)
                        THEN stale \cup {RoleIn(r)} ELSE stale
  BY DEF CreateRoleAtId, RegistryOnly
<1>2. RoleIn(r) \in Role /\ MembersIn(r) \subseteq Agent
  BY <1>1, RoleRunFacts
<1>3. members \in [Role -> SUBSET Agent]
  BY DEF RoleInv, RoleTypeOK, TypeOK, RegenerationTypeOK
<1>. QED  BY <1>1, <1>2, <1>3, GotoMoves DEF Fresh

(* the PUT of an update,                                                   *)
LEMMA PutEffect ==
  ASSUME RoleInv, NEW r \in RoleRun, PutRole(r), Fresh
  PROVE  /\ roleRun[r].pc = "put" /\ OnlyRun(r) /\ Moves(r, "usage")
         /\ UNCHANGED <<auth, child, links, cover, overlap, grantingVars, registered, roles>>
         /\ stale = {}
         /\ RoleIn(r) \in roles /\ members[RoleIn(r)] = roleRun[r].before
         /\ \A s \in RoleRun : /\ roleRun[s].act \in Deletion
                               /\ roleRun[s].pc \in {"authorizations", "delete", "spawn"}
                               => RoleIn(r) \notin roleRun[s].via
         /\ members'[RoleIn(r)] = MembersIn(r)
         /\ \A q \in Role \ {RoleIn(r)} : members'[q] = members[q]
<1>. DEFINE q == RoleIn(r)
            missed == \E s \in RoleRun : /\ roleRun[s].act \in Deletion /\ q \in roleRun[s].via
                                         /\ roleRun[s].pc \in {"authorizations", "delete", "spawn"}
            outdated == q \notin roles \/ members[q] # roleRun[r].before \/ missed
<1>1. /\ roleRun[r].pc = "put"
      /\ roles' = roles \cup {q}
      /\ members' = [members EXCEPT ![q] = MembersIn(r)]
      /\ UNCHANGED <<registered, links, cover, grantingVars, auth, child, overlap, wanted>>
      /\ \/ Goto(r, "usage") /\ stale' = IF outdated THEN stale \cup {q} ELSE stale
         \/ stale' = stale \cup {q}
  BY DEF PutRole, RegistryOnly
<1>2. Goto(r, "usage") /\ ~ outdated /\ stale = {}
  BY <1>1 DEF Fresh
<1>3. RoleIn(r) \in Role
  BY <1>1, RoleRunFacts
<1>4. members \in [Role -> SUBSET Agent]
  BY DEF RoleInv, RoleTypeOK, TypeOK, RegenerationTypeOK
<1>. QED  BY <1>1, <1>2, <1>3, <1>4, GotoMoves

(* the scan for who uses the role,                                         *)
LEMMA FindEffect ==
  ASSUME RoleInv, NEW r \in RoleRun, FindRoleUsage(r)
  PROVE  /\ roleRun[r].pc = "usage" /\ OnlyRun(r)
         /\ UNCHANGED <<auth, roles, members, registered, child, links, cover, overlap, grantingVars,
                        stale>>
         /\ roleRun'[r].used <=> (\E d \in auth : GranteeOf[d] = RoleIn(r))
         /\ roleRun'[r].via = {GranteeOf[d] : d \in {e \in auth : OwnerRole[e] = RoleIn(r)
                                                                 /\ GranteeOf[e] # RoleIn(r)}}
         /\ roleRun'[r].via \subseteq registered \cup roles
         /\ roleRun'[r].before = roleRun[r].before
         /\ roleRun'[r].to = roleRun[r].to
         /\ roleRun'[r].pc \in {"spawn", "delete", "authorizations"}
         /\ roleRun'[r].pc = "spawn" <=> roleRun[r].act \in Update
         /\ \A d \in roleRun'[r].gone : \/ GranteeOf[d] = RoleIn(r) /\ roleRun'[r].used
                                        \/ GranteeOf[d] \in roleRun'[r].via
<1>. DEFINE q == RoleIn(r)
            asGrantee == {d \in auth : GranteeOf[d] = q}
            asOwner == {d \in auth : OwnerRole[d] = q /\ GranteeOf[d] # q}
            gone == IF roleRun[r].act \in Deletion THEN asGrantee \cup asOwner ELSE {}
            pc == IF roleRun[r].act \in Update THEN "spawn"
                  ELSE IF gone = {} THEN "delete" ELSE "authorizations"
            via == {GranteeOf[d] : d \in asOwner}
            used == asGrantee # {}
<1>1. /\ roleRun[r].pc = "usage"
      /\ UNCHANGED <<auth, roles, members, registered, child, links, cover, overlap, grantingVars,
                     stale, wanted>>
      /\ via \subseteq registered \cup roles
      /\ roleRun' = [roleRun EXCEPT ![r].used = used, ![r].via = via,
                                    ![r].gone = gone, ![r].pc = pc]
  BY DEF FindRoleUsage, grantedVars, regenerationVars, Resolvable
<1>2. roleRun \in [RoleRun -> RoleRunState]
  BY DEF RoleInv, RoleTypeOK
<1>3. \A d \in gone : (GranteeOf[d] = q /\ used) \/ GranteeOf[d] \in via
  OBVIOUS
<1>4. pc \in {"spawn", "delete", "authorizations"} /\ (pc = "spawn" <=> roleRun[r].act \in Update)
  OBVIOUS
<1>5. used <=> \E d \in auth : GranteeOf[d] = q
  OBVIOUS
<1>. HIDE DEF used, gone, pc, via
<1>6. /\ roleRun'[r].used = used /\ roleRun'[r].via = via
      /\ roleRun'[r].gone = gone /\ roleRun'[r].pc = pc
      /\ roleRun'[r].before = roleRun[r].before /\ roleRun'[r].to = roleRun[r].to
      /\ OnlyRun(r)
  BY <1>1, <1>2 DEF RoleRunState, OnlyRun
<1>7. via = {GranteeOf[d] : d \in {e \in auth : OwnerRole[e] = RoleIn(r) /\ GranteeOf[e] # RoleIn(r)}}
  BY DEF via
<1>. QED  BY <1>1, <1>3, <1>4, <1>5, <1>6, <1>7

(* the DELETE of an authorization,                                         *)
LEMMA DeleteAuthEffect ==
  ASSUME RoleInv, NEW r \in RoleRun, DeleteAuthorization(r), Fresh
  PROVE  /\ roleRun[r].pc = "authorizations" /\ OnlyRun(r)
         /\ UNCHANGED <<roles, members, registered, child, links, cover, overlap, grantingVars>>
         /\ stale = {}
         /\ roleRun'[r].used = roleRun[r].used /\ roleRun'[r].via = roleRun[r].via
         /\ roleRun'[r].gone \subseteq roleRun[r].gone
         /\ roleRun'[r].pc \in {"authorizations", "delete"}
         /\ \E d \in roleRun[r].gone :
              /\ auth' = auth \ {d}
              /\ GranteeOf[d] = RoleIn(r) /\ RoleIn(r) \in roles
                   => members[RoleIn(r)] \subseteq MembersIn(r)
              /\ \A s \in RoleRun : roleRun[s].pc = "usage" /\ roleRun[s].act \in Update
                                      => RoleIn(s) # GranteeOf[d]
<1>. DEFINE outdated(d) ==
              \/ GranteeOf[d] = RoleIn(r) /\ GranteeOf[d] \in roles
                   /\ ~ (members[GranteeOf[d]] \subseteq MembersIn(r))
              \/ \E s \in RoleRun : /\ roleRun[s].pc = "usage" /\ roleRun[s].act \in Update
                                    /\ RoleIn(s) = GranteeOf[d]
<1>1. /\ roleRun[r].pc = "authorizations"
      /\ UNCHANGED <<roles, members, registered, child, links, cover, overlap, grantingVars, wanted>>
      /\ \E d \in roleRun[r].gone :
           /\ auth' = auth \ {d}
           /\ roleRun' = [roleRun EXCEPT ![r].gone = @ \ {d},
                                         ![r].pc = IF roleRun[r].gone = {d} THEN "delete" ELSE @]
           /\ stale' = IF outdated(d) THEN stale \cup {GranteeOf[d]} ELSE stale
  BY DEF DeleteAuthorization, RegistryOnly
<1>2. PICK d \in roleRun[r].gone :
           /\ auth' = auth \ {d}
           /\ roleRun' = [roleRun EXCEPT ![r].gone = @ \ {d},
                                         ![r].pc = IF roleRun[r].gone = {d} THEN "delete" ELSE @]
           /\ stale' = IF outdated(d) THEN stale \cup {GranteeOf[d]} ELSE stale
  BY <1>1
<1>3. ~ outdated(d) /\ stale = {}
  BY <1>2 DEF Fresh
<1>4. roleRun \in [RoleRun -> RoleRunState]
  BY DEF RoleInv, RoleTypeOK
<1>5. /\ OnlyRun(r) /\ roleRun'[r].used = roleRun[r].used /\ roleRun'[r].via = roleRun[r].via
      /\ roleRun'[r].gone = roleRun[r].gone \ {d}
      /\ roleRun'[r].pc \in {"authorizations", "delete"}
  BY <1>1, <1>2, <1>4 DEF RoleRunState, OnlyRun
<1>. QED  BY <1>1, <1>2, <1>3, <1>5

(* the deletion of the role,                                               *)
LEMMA DeleteRoleEffect ==
  ASSUME RoleInv, NEW r \in RoleRun, DeleteRole(r), Fresh
  PROVE  /\ roleRun[r].pc = "delete" /\ OnlyRun(r) /\ Moves(r, "spawn")
         /\ UNCHANGED <<auth, members, registered, child, links, cover, overlap, grantingVars>>
         /\ stale = {}
         /\ \/ /\ roles' = roles \ {RoleIn(r)}
               /\ \/ RoleIn(r) \notin roles
                  \/ \A d \in auth : GranteeOf[d] # RoleIn(r)
            \/ roles' = roles
<1>1. /\ roleRun[r].pc = "delete" /\ wanted' = wanted
      /\ UNCHANGED <<auth, members, registered, child, links, cover, overlap, grantingVars>>
      /\ stale' = {} => stale = {}
      /\ \/ /\ roles' = roles \ {RoleIn(r)}
            /\ stale' = IF RoleIn(r) \in roles /\ \E d \in auth : GranteeOf[d] = RoleIn(r)
                        THEN stale \cup {RoleIn(r)} ELSE stale
         \/ roles' = roles
  BY DEF DeleteRole, RegistryOnly
<1>2. OnlyRun(r) /\ Moves(r, "spawn")
  BY <1>1, DeleteRoleRun DEF OnlyRun, Moves
<1>. QED  BY <1>1, <1>2 DEF Fresh

(* the start of the children,                                              *)
LEMMA SpawnEffect ==
  ASSUME RoleInv, NEW r \in RoleRun, SpawnChildren(r)
  PROVE  /\ roleRun[r].pc = "spawn" /\ OnlyRun(r)
         /\ UNCHANGED <<auth, roles, members, registered, links, cover, grantingVars, stale>>
         /\ roleRun'[r].pc = "children"
         /\ \E to \in SUBSET Agent :
              /\ roleRun'[r].to = to
              /\ StartChildren(<<r, RoleIn(r)>>, to)
              /\ roleRun[r].used => IF roleRun[r].act \in Update
                   THEN (roleRun[r].before \ MembersIn(r)) \cup (MembersIn(r) \ roleRun[r].before)
                          \subseteq to
                   ELSE MembersIn(r) \subseteq to
              /\ \A g \in roleRun[r].via : AgentsIn(g) \subseteq to
<1>. DEFINE changed == IF roleRun[r].act \in Update
                       THEN (roleRun[r].before \ MembersIn(r)) \cup (MembersIn(r) \ roleRun[r].before)
                       ELSE MembersIn(r)
            to == (IF roleRun[r].used THEN changed ELSE {})
                    \cup UNION {AgentsIn(g) : g \in roleRun[r].via}
<1>1. /\ roleRun[r].pc = "spawn" /\ wanted' = wanted
      /\ UNCHANGED <<auth, roles, members, registered, links, cover, grantingVars, stale>>
      /\ StartChildren(<<r, RoleIn(r)>>, to)
      /\ roleRun' = [roleRun EXCEPT ![r].pc = "children", ![r].to = to]
  BY DEF SpawnChildren, RegistryOnly
<1>2. roleRun \in [RoleRun -> RoleRunState] /\ MembersIn(r) \subseteq Agent
  BY <1>1, RoleRunFacts DEF RoleInv, RoleTypeOK
<1>3. to \subseteq Agent
  <2>1. \A g \in roleRun[r].via : AgentsIn(g) \subseteq Agent
    BY <1>2, AgentsInAgents DEF RoleRunState, RoleInv, RoleTypeOK, TypeOK
  <2>2. changed \subseteq Agent
    BY <1>2 DEF RoleRunState
  <2>. QED  BY <2>1, <2>2
<1>4. /\ roleRun[r].used => changed \subseteq to
      /\ \A g \in roleRun[r].via : AgentsIn(g) \subseteq to
  OBVIOUS
<1>. HIDE DEF to
<1>5. /\ OnlyRun(r) /\ roleRun'[r].pc = "children" /\ roleRun'[r].to = to
  BY <1>1, <1>2 DEF RoleRunState, OnlyRun
<1>. QED  BY <1>1, <1>3, <1>4, <1>5

(* the load before an update,                                              *)
LEMMA LoadEffect ==
  ASSUME RoleInv, NEW r \in RoleRun, LoadRole(r)
  PROVE  /\ roleRun[r].pc = "load" /\ OnlyRun(r) /\ roleRun'[r].pc = "put"
         /\ roleRun'[r].via = roleRun[r].via
         /\ UNCHANGED <<grantedVars, stale>>
<1>1. roleRun \in [RoleRun -> RoleRunState]
  BY DEF RoleInv, RoleTypeOK
<1>. QED  BY <1>1 DEF LoadRole, OnlyRun, RoleRunState

(* and the completion.                                                     *)
LEMMA MarkRoleEffect ==
  ASSUME RoleInv, NEW r \in RoleRun, MarkRoleDone(r)
  PROVE  /\ roleRun[r].pc = "children" /\ OnlyRun(r) /\ Moves(r, "done")
         /\ \A p \in roleRun[r].to : child[<<<<r, RoleIn(r)>>, p>>].pc = "done"
         /\ UNCHANGED <<grantedVars, stale>>
  BY GotoMoves DEF MarkRoleDone

(* The children of a role run.                                             *)
LEMMA SpawnFresh ==
  ASSUME RoleInv, ChildrenWork, NEW r \in RoleRun, roleRun[r].pc = "spawn",
         NEW c \in Child, ParentOf(c) = <<r, RoleIn(r)>>
  PROVE  child[c].pc = "idle"
<1>. SUFFICES ASSUME child[c].pc # "idle" PROVE FALSE
  OBVIOUS
<1>1. CASE OwnedByLeg(c)
  BY <1>1, LegParts, RoleRunAssumption DEF OwnedByLeg, RunOf
<1>2. CASE OwnedByRun(c)
  BY <1>2 DEF OwnedByRun
<1>. QED  BY <1>1, <1>2 DEF ChildrenWork, Owned

(* They have a parent that waits for them.                                 *)
LEMMA SpawnWork ==
  ASSUME RoleInv, WorkInv, NEW r \in RoleRun, SpawnChildren(r)
  PROVE  WorkInv'
<1>1. /\ roleRun[r].pc = "spawn" /\ OnlyRun(r) /\ roleRun'[r].pc = "children"
      /\ UNCHANGED <<links, grantingVars>>
  BY SpawnEffect
<1>2. PICK to \in SUBSET Agent : roleRun'[r].to = to /\ StartChildren(<<r, RoleIn(r)>>, to)
  BY SpawnEffect
<1>3. ChildrenWork
  BY DEF WorkInv
<1>4. \A s \in RoleRun : RoleIn(s)' = RoleIn(s)
  BY <1>1, RolesKnown
<1>5. \A c \in Child : ParentOf(c) = <<r, RoleIn(r)>> => child[c].pc = "idle"
  BY <1>1, <1>3, SpawnFresh
<1>6. \A c \in Child : Started(<<r, RoleIn(r)>>, to, c) => OwnedByRun(c)'
  BY <1>1, <1>2, <1>4 DEF Started, OwnedByRun
<1>7. ASSUME NEW c \in Child, child[c].pc # "idle"
      PROVE  OwnedByLeg(c)' \/ OwnedByRun(c)'
  <2>1. child'[c] = child[c]
    BY <1>2, <1>5, <1>7, StartedChildren DEF Started
  <2>2. OwnedByLeg(c) => OwnedByLeg(c)'
    BY <1>1, <2>1 DEF OwnedByLeg, grantingVars
  <2>3. OwnedByRun(c) => OwnedByRun(c)'
    BY <1>1, <1>4, <2>1 DEF OwnedByRun, OnlyRun
  <2>. QED  BY <1>3, <1>7, <2>2, <2>3 DEF ChildrenWork, Owned
<1>8. ChildrenWork'
  BY <1>1, <1>2, <1>3, <1>5, <1>6, <1>7, StartWork
<1>9. LegsWork'
  BY <1>1 DEF WorkInv, LegsWork, Over, Share, Group, grantingVars
<1>10. RunsWork'
  BY <1>1, RunsWorkStep DEF WorkInv, Scanned
<1>. QED  BY <1>8, <1>9, <1>10 DEF WorkInv

(* The run is done when they are.                                          *)
LEMMA MarkRoleDoneWork ==
  ASSUME RoleInv, WorkInv, NEW r \in RoleRun, MarkRoleDone(r)
  PROVE  WorkInv'
<1>1. /\ roleRun[r].pc = "children" /\ OnlyRun(r) /\ Moves(r, "done")
      /\ \A p \in roleRun[r].to : child[<<<<r, RoleIn(r)>>, p>>].pc = "done"
      /\ UNCHANGED grantedVars
  BY MarkRoleEffect
<1>2. \A s \in RoleRun : RoleIn(s)' = RoleIn(s)
  BY <1>1, RolesKnown
<1>3. UNCHANGED <<child, links, overlap, grantingVars>>
  BY <1>1 DEF grantedVars, regenerationVars
<1>4. \A s \in RoleRun : roleRun[s].pc \in {"children", "done"} =>
        /\ RoleIn(s)' = RoleIn(s) /\ roleRun'[s].to = roleRun[s].to
        /\ \/ roleRun'[s].pc = roleRun[s].pc
           \/ /\ roleRun'[s].pc = "done"
              /\ \A a \in roleRun[s].to : child[<<<<s, RoleIn(s)>>, a>>].pc = "done"
  BY <1>1, <1>2 DEF OnlyRun, Moves
<1>5. ChildrenWork'
  BY <1>3, <1>4, ChildrenWorkStays DEF WorkInv, grantingVars
<1>6. LegsWork'
  BY <1>3 DEF WorkInv, LegsWork, Over, Share, Group, grantingVars
<1>7. RunsWork'
  BY <1>1, RunsWorkStep DEF WorkInv, Scanned, Moves
<1>. QED  BY <1>5, <1>6, <1>7 DEF WorkInv

(* Every step of a role run.                                               *)
LEMMA RoleStepsWork ==
  ASSUME RoleInv, WorkInv, NEW r \in RoleRun, RoleStep(r), Fresh
  PROVE  WorkInv'
<1>1. CASE CreateRoleAtId(r)
  BY <1>1, CreateEffect, RoleStepWork DEF Moves, Scanned
<1>2. CASE LoadRole(r)
  <2>1. roleRun[r].act \in Update
    BY <1>2, LoadEffect DEF WorkInv, RunsWork
  <2>. QED  BY <1>2, <2>1, LoadEffect, RoleStepWork DEF Scanned, grantedVars, regenerationVars
<1>3. CASE PutRole(r)
  <2>1. roleRun[r].act \in Update
    BY <1>3, PutEffect DEF WorkInv, RunsWork
  <2>. QED  BY <1>3, <2>1, PutEffect, RoleStepWork DEF Moves, Scanned
<1>4. CASE FindRoleUsage(r)
  <2>1. roleRun[r].act \in Update \cup Deletion
    BY <1>4, FindEffect DEF WorkInv, RunsWork
  <2>2. Scanned(r)'
    BY <1>4, FindEffect, RolesKnown DEF Scanned
  <2>. QED  BY <1>4, <2>1, <2>2, FindEffect, RoleStepWork
<1>5. CASE DeleteAuthorization(r)
  <2>1. roleRun[r].act \in Deletion /\ Scanned(r)
    BY <1>5, DeleteAuthEffect DEF WorkInv, RunsWork
  <2>2. Scanned(r)'
    BY <1>5, <2>1, DeleteAuthEffect, RolesKnown DEF Scanned
  <2>. QED  BY <1>5, <2>1, <2>2, DeleteAuthEffect, RoleStepWork
<1>6. CASE DeleteRole(r)
  BY <1>6, DeleteRoleEffect, RoleStepWork DEF Moves, Scanned
<1>7. CASE SpawnChildren(r)
  BY <1>7, SpawnWork
<1>8. CASE MarkRoleDone(r)
  BY <1>8, MarkRoleDoneWork
<1>. QED  BY <1>1, <1>2, <1>3, <1>4, <1>5, <1>6, <1>7, <1>8 DEF RoleStep

-----------------------------------------------------------------------------
(* Granting beside the role runs: steps that move no child.                *)
LEMMA GrantingStays ==
  ASSUME RoleInv, WorkInv, UNCHANGED <<child, links, overlap, roleVars>>, LegsWork',
         \A l \in Leg : leg[l].pc \in {"children", "done"} =>
           /\ leg'[l].to = leg[l].to
           /\ \/ leg'[l].pc = leg[l].pc
              \/ leg'[l].pc = "done" /\ \A a \in leg[l].to : child[<<l, a>>].pc = "done"
  PROVE  WorkInv'
<1>1. \A r \in RoleRun : RoleIn(r)' = RoleIn(r)
  BY DEF roleVars, RoleIn
<1>2. ChildrenWork'
  BY <1>1, ChildrenWorkStays DEF WorkInv, roleVars
<1>3. RunsWork'
  BY <1>1 DEF WorkInv, RunsWork, Scanned, roleVars
<1>. QED  BY <1>2, <1>3 DEF WorkInv

(* A run starts.                                                           *)
LEMMA StartRunWork ==
  ASSUME RoleInv, WorkInv, NEW r \in GrantRun, NEW a, StartRun(r, a),
         UNCHANGED <<child, links, overlap, roleVars>>
  PROVE  WorkInv'
<1>1. run \in [GrantRun -> RunState] /\ run[r].pc = "idle"
  BY DEF RoleInv, RoleTypeOK, TypeOK, StartRun
<1>2. \A q \in GrantRun : run'[q] = IF q = r THEN [pc |-> "running", act |-> a] ELSE run[q]
  BY <1>1 DEF StartRun
<1>3. \A l \in Leg : RunOf(l) = r => leg[l].pc = "idle"
  BY <1>1 DEF RoleInv, RunsRecorded
<1>4. \A l \in Leg : RunOf(l) # r => leg'[l] = leg[l] /\ Share(l)' = Share(l)
  BY <1>2, LegParts DEF StartRun, Share, Group
<1>5. ASSUME NEW l \in Leg, RunOf(l) = r
      PROVE  /\ leg'[l].pc \in {"idle", "materialize"}
             /\ leg'[l].pc = "materialize" => leg'[l].todo = Share(l)'
  <2>1. Share(l)' = Group(a, GranteeIn(l))
    BY <1>2, <1>5 DEF Share, Group
  <2>2. leg'[l] = leg[l] \/ leg'[l] = [IdleLeg EXCEPT !.pc = "materialize", !.todo = Share(l)']
    BY <1>5, <2>1 DEF StartRun
  <2>. QED  BY <1>3, <1>5, <2>2 DEF IdleLeg
<1>6. LegsWork'
  <2>1. \A l \in Leg : leg'[l].pc = "materialize" => leg'[l].todo \subseteq Share(l)'
    BY <1>4, <1>5 DEF WorkInv, LegsWork
  <2>2. \A q \in GrantRun : run'[q].pc = "done" => q # r /\ run[q].pc = "done"
    BY <1>2
  <2>. QED  BY <1>4, <2>1, <2>2 DEF WorkInv, LegsWork, Over
<1>. QED  BY <1>3, <1>4, <1>6, GrantingStays

(* A leg's own steps.                                                      *)
LEMMA LegStepLegs ==
  ASSUME RoleInv, WorkInv, NEW l \in Leg, LegStep(l)
  PROVE  /\ LegsWork'
         /\ leg[l].pc \notin {"idle", "done"}
         /\ \A k \in Leg \ {l} : leg'[k] = leg[k]
         /\ UNCHANGED <<run, links>>
<1>. USE DEF RoleInv, RoleTypeOK, TypeOK
<1>0. leg[l] \in LegState /\ leg \in [Leg -> LegState]
  OBVIOUS
<1>1. /\ leg[l].pc \notin {"idle", "done"}
      /\ \A k \in Leg \ {l} : leg'[k] = leg[k]
      /\ UNCHANGED <<run, links>>
      /\ leg'[l].pc = "materialize" =>
           leg[l].pc = "materialize" /\ leg'[l].todo \subseteq leg[l].todo \cup Share(l)
  <2>1. ASSUME NEW d \in DA, StoreAuthorization(l, d)
        PROVE  /\ leg[l].pc = "materialize"
               /\ \A k \in Leg \ {l} : leg'[k] = leg[k]
               /\ UNCHANGED <<run, links>>
               /\ leg'[l].todo \subseteq leg[l].todo \cup Share(l)
    <3>. DEFINE rest == leg[l].todo \ {d}
    <3>1. /\ leg[l].pc = "materialize" /\ UNCHANGED <<run, links>>
          /\ \/ leg' = [leg EXCEPT ![l].todo = rest,
                                   ![l].pc = IF rest = {} THEN "resolve" ELSE @]
             \/ leg' = [leg EXCEPT ![l].todo = Share(l)]
      BY <2>1 DEF StoreAuthorization
    <3>2. rest \subseteq leg[l].todo
      OBVIOUS
    <3>. HIDE DEF rest
    <3>. QED  BY <1>0, <3>1, <3>2 DEF LegState
  <2>2. CASE ResolveGrantee(l)
    BY <1>0, <2>2 DEF ResolveGrantee, LegState
  <2>3. CASE FanOut(l)
    BY <1>0, <2>3 DEF FanOut, LegState, store
  <2>4. CASE JoinChildren(l)
    BY <1>0, <2>4 DEF JoinChildren, LegState, regenerationVars
  <2>. QED  BY <2>1, <2>2, <2>3, <2>4 DEF LegStep
<1>2. \A k \in Leg : Share(k)' = Share(k)
  BY <1>1 DEF Share, Group
<1>3. \A k \in Leg : leg'[k].pc = "materialize" => leg'[k].todo \subseteq Share(k)'
  BY <1>1, <1>2 DEF WorkInv, LegsWork
<1>4. Over'
  BY <1>1 DEF WorkInv, LegsWork, Over
<1>. QED  BY <1>1, <1>3, <1>4 DEF LegsWork

(* A leg's step keeps the work in order.                                   *)
LEMMA LegStepWork ==
  ASSUME RoleInv, WorkInv, NEW l \in Leg, LegStep(l), UNCHANGED roleVars
  PROVE  WorkInv'
<1>. USE DEF RoleInv, RoleTypeOK, TypeOK
<1>1. LegsWork' /\ \A k \in Leg \ {l} : leg'[k] = leg[k]
  BY LegStepLegs
<1>2. CASE FanOut(l)
  <2>1. RunsWork'
    BY DEF WorkInv, RunsWork, Scanned, RoleIn, roleVars
  <2>. QED  BY <1>1, <1>2, <2>1, FanOutWork DEF WorkInv
<1>3. ASSUME NEW d \in DA, StoreAuthorization(l, d) PROVE WorkInv'
  <2>1. leg[l].pc = "materialize" /\ UNCHANGED <<child, links, overlap>>
    BY <1>3 DEF StoreAuthorization
  <2>. QED  BY <1>1, <2>1, GrantingStays
<1>4. CASE ResolveGrantee(l)
  <2>1. leg[l].pc = "resolve" /\ UNCHANGED <<child, links, overlap>>
    BY <1>4 DEF ResolveGrantee
  <2>. QED  BY <1>1, <2>1, GrantingStays
<1>5. CASE JoinChildren(l)
  <2>1. /\ leg[l].pc = "children" /\ UNCHANGED <<child, links, overlap>>
        /\ \A a \in leg[l].to : child[<<l, a>>].pc = "done"
        /\ leg'[l].pc = "done" /\ leg'[l].to = leg[l].to
    BY <1>5 DEF JoinChildren, regenerationVars, LegState
  <2>. QED  BY <1>1, <2>1, GrantingStays
<1>. QED  BY <1>2, <1>3, <1>4, <1>5 DEF LegStep

(* Whatever granting does.                                                 *)
LEMMA NextWork ==
  ASSUME RoleInv, WorkInv, Next, UNCHANGED roleVars
  PROVE  WorkInv'
<1>0. ASSUME UNCHANGED <<child, links, overlap, run, leg>> PROVE WorkInv'
  <2>1. LegsWork'
    BY <1>0 DEF WorkInv, LegsWork, Over, Share, Group
  <2>. QED  BY <1>0, <2>1, GrantingStays
<1>1. ASSUME NEW a \in Activity, RecordAuthorization(a) PROVE WorkInv'
  BY <1>0, <1>1 DEF RecordAuthorization, regenerationVars
<1>2. ASSUME NEW a \in Activity, NEW r \in GrantRun, Deliver(a, r) PROVE WorkInv'
  BY <1>2, StartRunWork DEF Deliver, regenerationVars
<1>3. ASSUME NEW l \in Leg, LegStep(l) PROVE WorkInv'
  BY <1>3, LegStepWork
<1>4. ASSUME NEW c \in Child, ChildStep(c), UNCHANGED grantingVars PROVE WorkInv'
  <2>1. ChildrenWork'
    BY <1>4, ChildStepWork DEF WorkInv
  <2>2. LegsWork'
    BY <1>4 DEF WorkInv, LegsWork, Over, Share, Group, grantingVars
  <2>3. RunsWork'
    BY DEF WorkInv, RunsWork, Scanned, RoleIn, roleVars
  <2>. QED  BY <2>1, <2>2, <2>3 DEF WorkInv
<1>5. ASSUME NEW r \in GrantRun, MarkDone(r) PROVE WorkInv'
  <2>1. /\ \A l \in Leg : RunOf(l) = r => leg[l].pc \in {"idle", "done"}
        /\ UNCHANGED <<child, links, overlap, leg>>
    BY <1>5 DEF MarkDone
  <2>2. /\ \A q \in GrantRun : run'[q].act = run[q].act
        /\ \A q \in GrantRun : run'[q].pc = "done" => q = r \/ run[q].pc = "done"
    <3>1. run \in [GrantRun -> RunState]
      BY DEF RoleInv, RoleTypeOK, TypeOK
    <3>2. run' = [run EXCEPT ![r].pc = "done"] \/ run' = run
      BY <1>5 DEF MarkDone
    <3>. QED  BY <3>1, <3>2 DEF RunState
  <2>3. \A l \in Leg : Share(l)' = Share(l)
    BY <2>2, LegParts DEF Share, Group
  <2>4. LegsWork'
    BY <2>1, <2>2, <2>3 DEF WorkInv, LegsWork, Over
  <2>. QED  BY <2>1, <2>4, GrantingStays
<1>6. ASSUME NEW r \in GrantRun, SweepNext(r) PROVE WorkInv'
  BY <1>6, StartRunWork DEF SweepNext, regenerationVars
<1>7. CASE StartSweep \/ SweepMarkDone
  BY <1>0, <1>7 DEF StartSweep, SweepMarkDone, regenerationVars
<1>. QED  BY <1>1, <1>2, <1>3, <1>4, <1>5, <1>6, <1>7 DEF Next

(* A service call, a run that starts, and the sweep.                       *)
LEMMA RecordRoleWork ==
  ASSUME RoleInv, WorkInv, NEW a \in RoleActivity, NEW toBe, RecordRole(a, toBe)
  PROVE  /\ WorkInv'
         /\ \A r \in RoleRun : roleRun[r].pc # "idle" => /\ RoleIn(r)' = RoleIn(r)
                                                         /\ MembersIn(r)' = MembersIn(r)
         /\ \A b \in Recorded : wanted'[b] = wanted[b]
         /\ UNCHANGED <<grantedVars, roleRun, stale>>
<1>1. /\ wanted[a] = None /\ wanted' = [wanted EXCEPT ![a] = toBe]
      /\ UNCHANGED <<grantedVars, roleRun, stale>>
  BY DEF RecordRole
<1>2. \A b \in Recorded : wanted'[b] = wanted[b]
  BY <1>1 DEF RoleInv, RoleTypeOK, Recorded
<1>3. \A r \in RoleRun : roleRun[r].pc # "idle" => roleRun[r].act \in Recorded
  BY DEF RoleInv, RoleRunsInv
<1>4. \A r \in RoleRun : roleRun[r].pc # "idle" => /\ RoleIn(r)' = RoleIn(r)
                                                   /\ MembersIn(r)' = MembersIn(r)
  BY <1>1, <1>2, <1>3 DEF RoleIn, MembersIn
<1>5. ChildrenWork'
  BY <1>1, <1>4, ChildrenWorkStays DEF WorkInv, grantedVars, regenerationVars, grantingVars
<1>6. LegsWork'
  BY <1>1 DEF WorkInv, LegsWork, Over, Share, Group, grantedVars, grantingVars
<1>7. RunsWork'
  BY <1>1, <1>4 DEF WorkInv, RunsWork, Scanned
<1>. QED  BY <1>1, <1>2, <1>4, <1>5, <1>6, <1>7 DEF WorkInv

(* A run that starts.                                                      *)
LEMMA StartRoleRunWork ==
  ASSUME RoleInv, WorkInv, NEW r \in RoleRun, NEW a \in Recorded, StartRoleRun(r, a),
         UNCHANGED <<grantedVars, wanted, stale>>
  PROVE  /\ WorkInv'
         /\ roleRun[r].pc = "idle"
         /\ \A s \in RoleRun \ {r} : roleRun'[s] = roleRun[s]
         /\ roleRun'[r].pc \in {"create", "load", "usage"}
         /\ roleRun'[r].pc = "usage" => a \in Deletion
         /\ roleRun'[r].act = a
         /\ roleRun'[r].via = roleRun[r].via
<1>. DEFINE pc == FirstStep(a)
<1>0. /\ pc \in {"create", "load", "usage"} /\ a \in RoleActivity
      /\ pc = "load" => a \in Update
      /\ pc = "usage" => a \in Deletion
  BY DEF FirstStep, Recorded, RoleActivity
<1>. HIDE DEF pc
<1>1. roleRun \in [RoleRun -> RoleRunState]
  BY DEF RoleInv, RoleTypeOK
<1>2. roleRun[r].pc = "idle" /\ roleRun' = [roleRun EXCEPT ![r].pc = pc, ![r].act = a]
  BY DEF StartRoleRun, pc
<1>3. /\ \A s \in RoleRun \ {r} : roleRun'[s] = roleRun[s]
      /\ roleRun'[r].pc = pc /\ roleRun'[r].act = a /\ roleRun'[r].via = roleRun[r].via
  BY <1>1, <1>2 DEF RoleRunState
<1>4. \A s \in RoleRun \ {r} : RoleIn(s)' = RoleIn(s)
  BY <1>3 DEF RoleIn
<1>5. \A s \in RoleRun : roleRun[s].pc \in {"children", "done"} => s # r
  BY <1>2
<1>6. ChildrenWork'
  BY <1>3, <1>4, <1>5, ChildrenWorkStays DEF WorkInv, grantedVars, regenerationVars, grantingVars
<1>7. LegsWork'
  BY DEF WorkInv, LegsWork, Over, Share, Group, grantedVars, grantingVars
<1>8. RunsWork'
  BY <1>0, <1>3, <1>4 DEF WorkInv, RunsWork, Scanned
<1>. QED  BY <1>0, <1>2, <1>3, <1>6, <1>7, <1>8 DEF WorkInv

(* A sweep moves on.                                                       *)
LEMMA IdleWork ==
  ASSUME RoleInv, WorkInv, UNCHANGED <<grantedVars, wanted, roleRun>>
  PROVE  WorkInv'
<1>1. \A r \in RoleRun : RoleIn(r)' = RoleIn(r)
  BY DEF RoleIn
<1>2. ChildrenWork'
  BY <1>1, ChildrenWorkStays DEF WorkInv, grantedVars, regenerationVars, grantingVars
<1>3. LegsWork'
  BY DEF WorkInv, LegsWork, Over, Share, Group, grantedVars, grantingVars
<1>4. RunsWork'
  BY <1>1 DEF WorkInv, RunsWork, Scanned
<1>. QED  BY <1>2, <1>3, <1>4 DEF WorkInv

-----------------------------------------------------------------------------
(* Who still owes an agent a regeneration for an authorization: a leg that *)
(* has yet to start its children,                                          *)
AtWork(l) == leg[l].pc \in {"materialize", "resolve", "fanout"}

OwedByLeg(p, d) ==
  \E l \in Leg : AtWork(l) /\ d \in Share(l) /\ p \in AgentsIn(GranteeOf[d])

(* an update of the role it is granted to, where the agent joined or left, *)
Changed(r) == (roleRun[r].before \ MembersIn(r)) \cup (MembersIn(r) \ roleRun[r].before)

UpdateOwes(r, p, d) ==
  /\ roleRun[r].act \in Update /\ GranteeOf[d] = RoleIn(r) /\ p \in Changed(r)
  /\ \/ roleRun[r].pc = "usage" /\ d \in auth
     \/ roleRun[r].pc = "spawn" /\ roleRun[r].used

OwedByUpdate(p, d) == \E r \in RoleRun : UpdateOwes(r, p, d)

(* a deletion of that role or of the role whose members' data it covers,   *)
DeletionOwes(r, p, d) ==
  /\ roleRun[r].act \in Deletion
  /\ roleRun[r].pc \in {"authorizations", "delete", "spawn"}
  /\ \/ GranteeOf[d] = RoleIn(r) /\ roleRun[r].used /\ p \in MembersIn(r)
     \/ GranteeOf[d] \in roleRun[r].via /\ p \in AgentsIn(GranteeOf[d])

OwedByDeletion(p, d) == \E r \in RoleRun : DeletionOwes(r, p, d)

(* or an update of the latter, which changes whose data that is.           *)
OwnerOwes(r, p, d) ==
  /\ roleRun[r].act \in Update /\ OwnerRole[d] = RoleIn(r)
  /\ d \in auth /\ p \in AgentsOf(d)
  /\ \/ roleRun[r].pc = "usage"
     \/ roleRun[r].pc = "spawn" /\ GranteeOf[d] \in roleRun[r].via

OwedByOwner(p, d) == \E r \in RoleRun : OwnerOwes(r, p, d)

(* When an agent may be without a grant, may hold one, and may hold one    *)
(* that covers other owners than the members of today.                     *)
MayMiss(p, d) == d \in AuthorizationsFor(p) => OwedByLeg(p, d) \/ OwedByUpdate(p, d)
MayShow(p, d) == d \notin AuthorizationsFor(p) => OwedByUpdate(p, d) \/ OwedByDeletion(p, d)
MayCover(p, d, owners) ==
  d \in AuthorizationsFor(p) /\ OwnerRole[d] # GranteeOf[d] /\ owners # Owners[d] =>
    OwedByLeg(p, d) \/ OwedByUpdate(p, d) \/ OwedByOwner(p, d)

Shows(p, S) == \A d \in DA : IF d \in S THEN MayShow(p, d) ELSE MayMiss(p, d)

(* An agent nobody works for shows nothing but what somebody is about to   *)
(* correct, and a child at work makes nothing else of its registration.    *)
Settled(p) ==
  /\ (\A c \in Child : AgentOf(c) = p => ~ Active(c)) =>
       /\ Shows(p, Linked(p))
       /\ \A g \in links[p] : MayCover(p, g.da, cover[g.by][g.da])
  /\ \A c \in Child : AgentOf(c) = p /\ Late(c) =>
       /\ Shows(p, child[c].seen)
       /\ child[c].pc # "generate" =>
            \A d \in child[c].seen : MayCover(p, d, cover[c][d])

(* A role somebody relies on exists, or did: nothing is held or worked     *)
(* over under a role that has yet to be created, but by legs at work.      *)
Deleted(q) == \E b \in Deletion \cap Recorded : wanted[b].role = q
Existed(q) == q \in roles \/ Deleted(q)
Known(d) == OwnerRole[d] # None => Existed(OwnerRole[d])

GranteesExist ==
  \A d \in auth : GranteeOf[d] \in Role /\ ~ Existed(GranteeOf[d])
    => \E l \in Leg : AtWork(l) /\ d \in Share(l)

SeenExist ==
  \A c \in Child : Late(c) /\ child[c].pc # "generate" => \A d \in child[c].seen : Known(d)

LinkedExist == \A p \in Agent : \A d \in Linked(p) : Known(d)

ViasExist == \A r \in RoleRun : \A q \in roleRun[r].via \cap Role : Existed(q)

Names == GranteesExist /\ SeenExist /\ LinkedExist /\ ViasExist

CurrentInv == stale = {} => /\ WorkInv
                            /\ Names
                            /\ \A p \in Agent \ overlap : Settled(p)

(* When all is over nobody is owed anything and nobody is at work.         *)
LEMMA QuietCurrent ==
  ASSUME RoleInv, CurrentInv, RolesQuiet, stale = {}, NEW p \in Agent \ overlap
  PROVE  Current(p)
<1>. USE DEF RoleInv, RoleTypeOK, TypeOK
<1>1. ChildrenWork /\ LegsWork /\ Settled(p)
  BY DEF CurrentInv, WorkInv
<1>2. \A l \in Leg : leg[l].pc \in {"idle", "done"}
  <2>. SUFFICES ASSUME NEW l \in Leg PROVE leg[l].pc \in {"idle", "done"}
    OBVIOUS
  <2>1. RunOf(l) \in GrantRun /\ run[RunOf(l)] \in RunState
    BY LegParts
  <2>2. run[RunOf(l)].pc \in {"idle", "done"}
    BY <2>1 DEF RolesQuiet, Quiet, RunState
  <2>. QED  BY <1>1, <2>1, <2>2 DEF RunsRecorded, LegsWork, Over
<1>3. \A r \in RoleRun : roleRun[r].pc \in {"idle", "done"}
  BY DEF RolesQuiet
<1>4. \A c \in Child : ~ Active(c)
  BY <1>1, <1>2, <1>3 DEF ChildrenWork, Owned, OwnedByLeg, OwnedByRun, Active
<1>5. \A d : ~ OwedByLeg(p, d) /\ ~ OwedByUpdate(p, d) /\ ~ OwedByDeletion(p, d)
             /\ ~ OwedByOwner(p, d)
  BY <1>2, <1>3 DEF OwedByLeg, OwedByUpdate, OwedByDeletion, OwedByOwner, AtWork, UpdateOwes,
                    DeletionOwes, OwnerOwes
<1>6. /\ Shows(p, Linked(p))
      /\ \A g \in links[p] : MayCover(p, g.da, cover[g.by][g.da])
  BY <1>1, <1>4 DEF Settled
<1>7. Linked(p) \subseteq DA /\ AuthorizationsFor(p) \subseteq DA
  BY <1>1, LinkedSettled DEF ChildrenWork, Linked, AuthorizationsFor, RegenerationTypeOK
<1>8. Linked(p) = AuthorizationsFor(p)
  BY <1>5, <1>6, <1>7 DEF Shows, MayShow, MayMiss
<1>9. \A g \in links[p] : OwnerRole[g.da] # GranteeOf[g.da] => cover[g.by][g.da] = Owners[g.da]
  BY <1>5, <1>6, <1>8 DEF MayCover, Linked
<1>. QED  BY <1>8, <1>9 DEF Current, Linked

-----------------------------------------------------------------------------
(* A step that takes nothing back of what it owes agent p.                 *)
Steady(p) ==
  \A d \in DA : /\ MayMiss(p, d) => MayMiss(p, d)'
                /\ MayShow(p, d) => MayShow(p, d)'
                /\ \A owners : Known(d) /\ MayCover(p, d, owners)
                     => (d \in AuthorizationsFor(p)' /\ OwnerRole[d] # GranteeOf[d]
                           /\ owners # Owners'[d] =>
                         OwedByLeg(p, d)' \/ OwedByUpdate(p, d)' \/ OwedByOwner(p, d)')

(* Where nobody's view of the registry changes.                            *)
LEMMA SettledStays ==
  ASSUME RoleInv, ChildrenWork, Names, NEW p \in Agent, Settled(p), Steady(p),
         links'[p] = links[p],
         \A c \in Child : AgentOf(c) = p => child'[c] = child[c] /\ cover'[c] = cover[c]
  PROVE  Settled(p)'
<1>0. Linked(p)' = Linked(p)
  BY DEF Linked
<1>1. \A S : Shows(p, S) => Shows(p, S)'
  BY DEF Steady, Shows
<1>2. ASSUME \A c \in Child : AgentOf(c) = p => ~ Active(c)'
      PROVE  /\ Shows(p, Linked(p))'
             /\ \A g \in links'[p] : MayCover(p, g.da, cover[g.by][g.da])'
  <2>1. /\ Shows(p, Linked(p))
        /\ \A g \in links[p] : MayCover(p, g.da, cover[g.by][g.da])
    BY <1>2 DEF Settled, Active
  <2>2. Shows(p, Linked(p))'
    BY <1>0, <2>1 DEF Steady, Shows
  <2>3. ASSUME NEW g \in links[p] PROVE MayCover(p, g.da, cover[g.by][g.da])'
    <3>1. g.by \in Child /\ AgentOf(g.by) = p /\ g.da \in DA /\ g.da \in Linked(p)
      BY LinkedSettled DEF ChildrenWork, Linked
    <3>2. cover'[g.by] = cover[g.by] /\ Known(g.da)
      BY <3>1 DEF Names, LinkedExist
    <3>3. MayCover(p, g.da, cover[g.by][g.da])
      BY <2>1
    <3>. QED  BY <3>1, <3>2, <3>3 DEF Steady, MayCover
  <2>. QED  BY <2>2, <2>3
<1>3. ASSUME NEW c \in Child, AgentOf(c) = p, Late(c)'
      PROVE  /\ Shows(p, child[c].seen)'
             /\ child'[c].pc # "generate" =>
                  \A d \in child'[c].seen : MayCover(p, d, cover[c][d])'
  <2>1. child'[c] = child[c] /\ cover'[c] = cover[c] /\ Late(c)
    BY <1>3 DEF Late
  <2>2. /\ Shows(p, child[c].seen)
        /\ child[c].pc # "generate" =>
             \A d \in child[c].seen : MayCover(p, d, cover[c][d])
    BY <1>3, <2>1 DEF Settled
  <2>3. Shows(p, child[c].seen)'
    BY <2>1, <2>2 DEF Steady, Shows
  <2>4. child[c].seen \subseteq DA
    BY DEF RoleInv, RoleTypeOK, TypeOK, RegenerationTypeOK, ChildState
  <2>5. ASSUME NEW d \in child[c].seen, child[c].pc # "generate"
        PROVE  MayCover(p, d, cover[c][d])'
    <3>1. Known(d) /\ d \in DA
      BY <1>3, <2>1, <2>4, <2>5 DEF Names, SeenExist
    <3>. QED  BY <2>1, <2>2, <2>5, <3>1 DEF Steady, MayCover
  <2>. QED  BY <2>1, <2>3, <2>5
<1>. QED  BY <1>2, <1>3 DEF Settled

AllSettled == \A p \in Agent \ overlap : Settled(p)

(* Where the debts stay, so does every agent's account.                    *)
LEMMA AllSettledStay ==
  ASSUME RoleInv, ChildrenWork, Names, AllSettled,
         UNCHANGED <<child, links, cover, overlap>>, \A p \in Agent : Steady(p)
  PROVE  AllSettled'
  BY SettledStays DEF AllSettled

(* What has existed has existed, and is relied on as before.               *)
LEMMA ExistedStays ==
  ASSUME \A b \in Recorded : wanted'[b] = wanted[b], Recorded \subseteq Recorded',
         \A q \in roles \ roles' : Deleted(q)
  PROVE  \A q : Existed(q) => Existed(q)'
<1>1. \A q : Deleted(q) => Deleted(q)'
  BY DEF Deleted
<1>. QED  BY <1>1 DEF Existed

(* Where no authorization, child or link is new, neither is a name.        *)
LEMMA NamesStay ==
  ASSUME Names, \A q : Existed(q) => Existed(q)', UNCHANGED <<child, links>>,
         auth' \subseteq auth,
         \A l \in Leg : AtWork(l) => AtWork(l)' /\ Share(l)' = Share(l),
         \A r \in RoleRun : roleRun'[r].via = roleRun[r].via
  PROVE  Names'
<1>1. GranteesExist'
  BY DEF Names, GranteesExist
<1>2. \A d : Known(d) => Known(d)'
  BY DEF Known
<1>3. SeenExist'
  BY <1>2 DEF Names, SeenExist, Late
<1>4. LinkedExist'
  BY <1>2 DEF Names, LinkedExist, Linked
<1>5. ViasExist'
  BY DEF Names, ViasExist
<1>. QED  BY <1>1, <1>3, <1>4, <1>5 DEF Names

(* Steps that leave the registry's roles and authorizations alone.         *)
LEMMA SteadyRegistry ==
  ASSUME NEW p, UNCHANGED <<auth, roles, members>>,
         \A d \in DA :
           /\ OwedByLeg(p, d) => OwedByLeg(p, d)'
           /\ OwedByUpdate(p, d) => OwedByUpdate(p, d)'
           /\ OwedByDeletion(p, d) => OwedByDeletion(p, d)'
           /\ OwnerRole[d] # GranteeOf[d] /\ OwedByOwner(p, d) => OwedByOwner(p, d)'
  PROVE  Steady(p)
<1>1. AuthorizationsFor(p)' = AuthorizationsFor(p)
  BY DEF AuthorizationsFor, AgentsOf
<1>2. Owners' = Owners
  BY DEF Owners
<1>. QED  BY <1>1, <1>2 DEF Steady, MayMiss, MayShow, MayCover

(* A leg at work owes what it owed.                                        *)
LEMMA LegsOwe ==
  ASSUME NEW p, NEW d, members' = members,
         \A l \in Leg : AtWork(l) => AtWork(l)' /\ Share(l)' = Share(l)
  PROVE  OwedByLeg(p, d) => OwedByLeg(p, d)'
<1>1. AgentsIn(GranteeOf[d])' = AgentsIn(GranteeOf[d])
  BY DEF AgentsIn
<1>. QED  BY <1>1 DEF OwedByLeg

(* So does a role run that stays where it is.                              *)
LEMMA RunsOwe ==
  ASSUME NEW p, NEW d, UNCHANGED <<auth, roles, members>>,
         \A r \in RoleRun : roleRun[r].pc # "idle" =>
           /\ roleRun'[r] = roleRun[r]
           /\ RoleIn(r)' = RoleIn(r) /\ MembersIn(r)' = MembersIn(r)
  PROVE  /\ OwedByUpdate(p, d) => OwedByUpdate(p, d)'
         /\ OwedByDeletion(p, d) => OwedByDeletion(p, d)'
         /\ OwedByOwner(p, d) => OwedByOwner(p, d)'
<1>1. AgentsIn(GranteeOf[d])' = AgentsIn(GranteeOf[d]) /\ AgentsOf(d)' = AgentsOf(d)
  BY DEF AgentsIn, AgentsOf
<1>2. \A r \in RoleRun : UpdateOwes(r, p, d) => UpdateOwes(r, p, d)'
  BY DEF UpdateOwes, Changed
<1>3. \A r \in RoleRun : DeletionOwes(r, p, d) => DeletionOwes(r, p, d)'
  BY <1>1 DEF DeletionOwes
<1>4. \A r \in RoleRun : OwnerOwes(r, p, d) => OwnerOwes(r, p, d)'
  BY <1>1 DEF OwnerOwes
<1>. QED  BY <1>2, <1>3, <1>4 DEF OwedByUpdate, OwedByDeletion, OwedByOwner

(* What a step of run r leaves of the debts of the others.                 *)
LEMMA OthersOwe ==
  ASSUME NEW r \in RoleRun, OnlyRun(r), NEW s \in RoleRun \ {r}, NEW p, NEW d
  PROVE  /\ UpdateOwes(s, p, d) /\ (d \in auth => d \in auth') => UpdateOwes(s, p, d)'
         /\ DeletionOwes(s, p, d)
            /\ (GranteeOf[d] \in roleRun[s].via => AgentsIn(GranteeOf[d])' = AgentsIn(GranteeOf[d]))
            => DeletionOwes(s, p, d)'
         /\ OwnerOwes(s, p, d) /\ d \in auth' /\ p \in AgentsOf(d)' => OwnerOwes(s, p, d)'
<1>1. roleRun'[s] = roleRun[s] /\ RoleIn(s)' = RoleIn(s) /\ MembersIn(s)' = MembersIn(s)
  BY RolesKnown DEF OnlyRun
<1>2. Changed(s)' = Changed(s)
  BY <1>1 DEF Changed
<1>. QED  BY <1>1, <1>2 DEF UpdateOwes, DeletionOwes, OwnerOwes

(* A step of run r alone, when it takes back none of its own debts.        *)
LEMMA OneRunSteady ==
  ASSUME NEW r \in RoleRun, OnlyRun(r), NEW p, UNCHANGED <<auth, roles, members, grantingVars>>,
         \A d \in DA :
           /\ UpdateOwes(r, p, d) => UpdateOwes(r, p, d)'
           /\ DeletionOwes(r, p, d) => DeletionOwes(r, p, d)'
           /\ OwnerRole[d] # GranteeOf[d] /\ OwnerOwes(r, p, d) => OwnerOwes(r, p, d)'
  PROVE  Steady(p)
<1>1. \A l \in Leg : AtWork(l) => AtWork(l)' /\ Share(l)' = Share(l)
  BY DEF AtWork, Share, Group, grantingVars
<1>2. ASSUME NEW d \in DA
      PROVE  /\ OwedByLeg(p, d) => OwedByLeg(p, d)'
             /\ OwedByUpdate(p, d) => OwedByUpdate(p, d)'
             /\ OwedByDeletion(p, d) => OwedByDeletion(p, d)'
             /\ OwnerRole[d] # GranteeOf[d] /\ OwedByOwner(p, d) => OwedByOwner(p, d)'
  <2>1. AgentsIn(GranteeOf[d])' = AgentsIn(GranteeOf[d]) /\ AgentsOf(d)' = AgentsOf(d)
    BY DEF AgentsIn, AgentsOf
  <2>2. \A s \in RoleRun \ {r} : /\ UpdateOwes(s, p, d) => UpdateOwes(s, p, d)'
                                 /\ DeletionOwes(s, p, d) => DeletionOwes(s, p, d)'
                                 /\ OwnerOwes(s, p, d) => OwnerOwes(s, p, d)'
    <3>1. \A s : OwnerOwes(s, p, d) => d \in auth' /\ p \in AgentsOf(d)'
      BY <2>1 DEF OwnerOwes
    <3>. QED  BY <2>1, <3>1, OthersOwe
  <2>. QED  BY <1>1, <2>2, LegsOwe DEF OwedByUpdate, OwedByDeletion, OwedByOwner
<1>. QED  BY <1>2, SteadyRegistry

-----------------------------------------------------------------------------
(* The steps of a role run, one by one.                                    *)
LEMMA LoadSettled ==
  ASSUME RoleInv, WorkInv, Names, AllSettled, NEW r \in RoleRun, LoadRole(r)
  PROVE  Names' /\ AllSettled'
<1>1. /\ roleRun[r].pc = "load" /\ OnlyRun(r) /\ UNCHANGED grantedVars
      /\ roleRun'[r].via = roleRun[r].via
  BY LoadEffect
<1>2. UNCHANGED <<auth, roles, members, child, links, cover, overlap, grantingVars>>
  BY <1>1 DEF grantedVars, regenerationVars
<1>3. \A p \in Agent : Steady(p)
  BY <1>1, <1>2, OneRunSteady DEF UpdateOwes, DeletionOwes, OwnerOwes
<1>4. AllSettled'
  BY <1>2, <1>3, AllSettledStay DEF WorkInv
<1>5. \A q : Existed(q) => Existed(q)'
  BY <1>1, <1>2, ExistedStays DEF OnlyRun, Recorded
<1>6. Names'
  BY <1>1, <1>2, <1>5, NamesStay DEF OnlyRun, AtWork, Share, Group, grantingVars
<1>. QED  BY <1>4, <1>6

(* A run that completes owes nothing any more.                             *)
LEMMA MarkRoleSettled ==
  ASSUME RoleInv, WorkInv, Names, AllSettled, NEW r \in RoleRun, MarkRoleDone(r)
  PROVE  Names' /\ AllSettled'
<1>1. /\ roleRun[r].pc = "children" /\ OnlyRun(r) /\ UNCHANGED grantedVars /\ Moves(r, "done")
  BY MarkRoleEffect
<1>2. UNCHANGED <<auth, roles, members, child, links, cover, overlap, grantingVars>>
  BY <1>1 DEF grantedVars, regenerationVars
<1>3. \A p \in Agent : Steady(p)
  BY <1>1, <1>2, OneRunSteady DEF UpdateOwes, DeletionOwes, OwnerOwes
<1>4. AllSettled'
  BY <1>2, <1>3, AllSettledStay DEF WorkInv
<1>5. \A q : Existed(q) => Existed(q)'
  BY <1>1, <1>2, ExistedStays DEF OnlyRun, Recorded
<1>6. Names'
  BY <1>1, <1>2, <1>5, NamesStay DEF OnlyRun, Moves, AtWork, Share, Group, grantingVars
<1>. QED  BY <1>4, <1>6

(* The scan finds whom the update owes.                                    *)
LEMMA FindSettled ==
  ASSUME RoleInv, WorkInv, Names, AllSettled, NEW r \in RoleRun, FindRoleUsage(r)
  PROVE  Names' /\ AllSettled'
<1>1. /\ roleRun[r].pc = "usage" /\ OnlyRun(r)
      /\ UNCHANGED <<auth, roles, members, child, links, cover, overlap, grantingVars>>
      /\ roleRun'[r].used <=> \E d \in auth : GranteeOf[d] = RoleIn(r)
      /\ roleRun'[r].via = {GranteeOf[d] : d \in {e \in auth : OwnerRole[e] = RoleIn(r)
                                                              /\ GranteeOf[e] # RoleIn(r)}}
      /\ roleRun'[r].via \subseteq registered \cup roles
      /\ roleRun'[r].before = roleRun[r].before
      /\ roleRun'[r].pc = "spawn" <=> roleRun[r].act \in Update
  BY FindEffect
<1>2. RoleIn(r)' = RoleIn(r) /\ MembersIn(r)' = MembersIn(r) /\ roleRun'[r].act = roleRun[r].act
  BY <1>1, RolesKnown DEF OnlyRun
<1>3. ASSUME NEW p \in Agent PROVE Steady(p)
  <2>1. \A d \in DA : UpdateOwes(r, p, d) => UpdateOwes(r, p, d)'
    BY <1>1, <1>2 DEF UpdateOwes, Changed
  <2>2. \A d \in DA : ~ DeletionOwes(r, p, d)
    BY <1>1 DEF DeletionOwes
  <2>3. ASSUME NEW d \in DA, OwnerRole[d] # GranteeOf[d], OwnerOwes(r, p, d)
        PROVE  OwnerOwes(r, p, d)'
    <3>1. d \in {e \in auth : OwnerRole[e] = RoleIn(r) /\ GranteeOf[e] # RoleIn(r)}
      BY <2>3 DEF OwnerOwes
    <3>2. GranteeOf[d] \in roleRun'[r].via
      BY <1>1, <3>1
    <3>3. AgentsOf(d)' = AgentsOf(d)
      BY <1>1 DEF AgentsOf
    <3>. QED  BY <1>1, <1>2, <2>3, <3>2, <3>3 DEF OwnerOwes
  <2>. QED  BY <1>1, <2>1, <2>2, <2>3, OneRunSteady
<1>4. AllSettled'
  BY <1>1, <1>3, AllSettledStay DEF WorkInv
<1>5. \A q : Existed(q) => Existed(q)'
  BY <1>1, ExistedStays DEF OnlyRun, Recorded
<1>6. \A d : Known(d) => Known(d)'
  BY <1>5 DEF Known
<1>7. GranteesExist' /\ SeenExist' /\ LinkedExist'
  BY <1>1, <1>5, <1>6 DEF Names, GranteesExist, SeenExist, LinkedExist, Late, Linked, AtWork, Share,
                          Group, grantingVars
<1>8. ViasExist'
  <2>1. registered \cap Role = {}
    BY GranteeAssumption DEF RoleInv, RoleTypeOK, TypeOK, RegenerationTypeOK
  <2>2. \A q \in roleRun'[r].via \cap Role : Existed(q)
    BY <1>1, <2>1 DEF Existed
  <2>3. \A s \in RoleRun \ {r} : \A q \in roleRun'[s].via \cap Role : Existed(q)
    BY <1>1 DEF OnlyRun, Names, ViasExist
  <2>. QED  BY <1>5, <2>2, <2>3 DEF ViasExist
<1>. QED  BY <1>4, <1>7, <1>8 DEF Names

(* A deletion deletes authorizations of its role, or over its members'     *)
(* data, and owes everyone who loses access.                               *)
LEMMA DeleteAuthSettled ==
  ASSUME RoleInv, WorkInv, Names, AllSettled, NEW r \in RoleRun, DeleteAuthorization(r), Fresh
  PROVE  Names' /\ AllSettled'
<1>1. /\ roleRun[r].pc = "authorizations" /\ OnlyRun(r)
      /\ UNCHANGED <<roles, members, child, links, cover, overlap, grantingVars>>
      /\ roleRun'[r].used = roleRun[r].used /\ roleRun'[r].via = roleRun[r].via
      /\ roleRun'[r].pc \in {"authorizations", "delete"}
  BY DeleteAuthEffect
<1>2. PICK e \in roleRun[r].gone :
        /\ auth' = auth \ {e}
        /\ GranteeOf[e] = RoleIn(r) /\ RoleIn(r) \in roles => members[RoleIn(r)] \subseteq MembersIn(r)
        /\ \A s \in RoleRun : roleRun[s].pc = "usage" /\ roleRun[s].act \in Update
                                => RoleIn(s) # GranteeOf[e]
  BY DeleteAuthEffect
<1>3. /\ roleRun[r].act \in Deletion /\ RoleIn(r) \in Role
      /\ \/ GranteeOf[e] = RoleIn(r) /\ roleRun[r].used
         \/ GranteeOf[e] \in roleRun[r].via
  BY <1>1, RoleRunFacts DEF WorkInv, RunsWork, Scanned
<1>4. \A s \in RoleRun : RoleIn(s)' = RoleIn(s) /\ MembersIn(s)' = MembersIn(s)
  BY <1>1, RolesKnown
<1>5. \A l \in Leg : AtWork(l) => AtWork(l)' /\ Share(l)' = Share(l)
  BY <1>1 DEF AtWork, Share, Group, grantingVars
<1>6. \A d : AgentsIn(GranteeOf[d])' = AgentsIn(GranteeOf[d]) /\ AgentsOf(d)' = AgentsOf(d)
  BY <1>1 DEF AgentsIn, AgentsOf
<1>7. \A p, d : OwedByDeletion(p, d) => OwedByDeletion(p, d)'
  <2>1. \A p, d : DeletionOwes(r, p, d) => DeletionOwes(r, p, d)'
    BY <1>1, <1>4, <1>6 DEF DeletionOwes, OnlyRun
  <2>2. \A s \in RoleRun \ {r} : \A p, d : DeletionOwes(s, p, d) => DeletionOwes(s, p, d)'
    BY <1>1, <1>6, OthersOwe
  <2>. QED  BY <2>1, <2>2 DEF OwedByDeletion
<1>8. roleRun[r].act \notin Update
  BY <1>3, RoleActivityAssumption
<1>9. ASSUME NEW p \in Agent PROVE Steady(p)
  <2>. SUFFICES ASSUME NEW d \in DA
       PROVE  /\ MayMiss(p, d) => MayMiss(p, d)'
              /\ MayShow(p, d) => MayShow(p, d)'
              /\ \A owners : MayCover(p, d, owners)
                   => (d \in AuthorizationsFor(p)' /\ OwnerRole[d] # GranteeOf[d]
                         /\ owners # Owners'[d] =>
                       OwedByLeg(p, d)' \/ OwedByUpdate(p, d)' \/ OwedByOwner(p, d)')
    BY DEF Steady
  <2>1. OwedByLeg(p, d) => OwedByLeg(p, d)'
    BY <1>1, <1>5, LegsOwe
  <2>2. Owners' = Owners
    BY <1>1 DEF Owners
  <2>3. CASE d # e
    <3>1. d \in AuthorizationsFor(p)' <=> d \in AuthorizationsFor(p)
      BY <1>2, <1>6, <2>3 DEF AuthorizationsFor
    <3>2. OwedByUpdate(p, d) => OwedByUpdate(p, d)'
      BY <1>1, <1>2, <1>8, <2>3, OthersOwe DEF OwedByUpdate, UpdateOwes
    <3>3. OwedByOwner(p, d) => OwedByOwner(p, d)'
      <4>1. \A s : OwnerOwes(s, p, d) => d \in auth' /\ p \in AgentsOf(d)' /\ s # r
        BY <1>2, <1>6, <1>8, <2>3 DEF OwnerOwes
      <4>. QED  BY <1>1, <4>1, OthersOwe DEF OwedByOwner
    <3>. QED  BY <1>7, <2>1, <2>2, <3>1, <3>2, <3>3 DEF MayMiss, MayShow, MayCover
  <2>4. CASE d = e
    <3>1. d \notin AuthorizationsFor(p)'
      BY <1>2, <2>4 DEF AuthorizationsFor
    <3>2. OwedByUpdate(p, d) => OwedByUpdate(p, d)'
      <4>1. \A s \in RoleRun : UpdateOwes(s, p, d) => UpdateOwes(s, p, d)'
        <5>. SUFFICES ASSUME NEW s \in RoleRun, UpdateOwes(s, p, d) PROVE UpdateOwes(s, p, d)'
          OBVIOUS
        <5>1. s # r /\ roleRun[s].pc = "spawn"
          BY <1>2, <1>8, <2>4 DEF UpdateOwes
        <5>. QED  BY <1>1, <1>4, <5>1 DEF UpdateOwes, OnlyRun, Changed
      <4>. QED  BY <4>1 DEF OwedByUpdate
    <3>3. d \in AuthorizationsFor(p) => DeletionOwes(r, p, d)'
      <4>. SUFFICES ASSUME p \in AgentsOf(d) PROVE DeletionOwes(r, p, d)'
        BY DEF AuthorizationsFor
      <4>1. p \in AgentsIn(GranteeOf[d])
        BY DEF AgentsOf, AgentsIn
      <4>2. GranteeOf[d] = RoleIn(r) => p \in MembersIn(r)
        BY <1>2, <1>3, <2>4 DEF AgentsOf
      <4>. QED  BY <1>1, <1>3, <1>4, <1>6, <2>4, <4>1, <4>2 DEF DeletionOwes, OnlyRun
    <3>4. d \in AuthorizationsFor(p) => OwedByDeletion(p, d)'
      BY <3>3 DEF OwedByDeletion
    <3>. QED  BY <1>7, <3>1, <3>2, <3>4 DEF MayMiss, MayShow
  <2>. QED  BY <2>3, <2>4
<1>10. AllSettled'
  BY <1>1, <1>9, AllSettledStay DEF WorkInv
<1>11. \A q : Existed(q) => Existed(q)'
  BY <1>1, ExistedStays DEF OnlyRun, Recorded
<1>12. Names'
  BY <1>1, <1>2, <1>5, <1>11, NamesStay DEF OnlyRun
<1>. QED  BY <1>10, <1>12

(* Nothing is granted to a role that is deleted.                           *)
LEMMA DeleteRoleSettled ==
  ASSUME RoleInv, WorkInv, Names, AllSettled, NEW r \in RoleRun, DeleteRole(r), Fresh
  PROVE  Names' /\ AllSettled'
<1>1. /\ roleRun[r].pc = "delete" /\ OnlyRun(r) /\ Moves(r, "spawn")
      /\ UNCHANGED <<auth, members, child, links, cover, overlap, grantingVars>>
      /\ \/ /\ roles' = roles \ {RoleIn(r)}
            /\ RoleIn(r) \notin roles \/ \A d \in auth : GranteeOf[d] # RoleIn(r)
         \/ roles' = roles
  BY DeleteRoleEffect
<1>2. roleRun[r].act \in Deletion /\ roleRun[r].act \in Recorded /\ roleRun[r].act \notin Update
  BY <1>1, RoleRunFacts, RoleActivityAssumption DEF WorkInv, RunsWork
<1>3. \A s \in RoleRun : RoleIn(s)' = RoleIn(s) /\ MembersIn(s)' = MembersIn(s)
  BY <1>1, RolesKnown
<1>4. \A l \in Leg : AtWork(l) => AtWork(l)' /\ Share(l)' = Share(l)
  BY <1>1 DEF AtWork, Share, Group, grantingVars
<1>5. \A d : AgentsIn(GranteeOf[d])' = AgentsIn(GranteeOf[d])
  BY <1>1 DEF AgentsIn
<1>6. \A d \in auth : AgentsOf(d)' = AgentsOf(d)
  BY <1>1 DEF AgentsOf
<1>7. ASSUME NEW p \in Agent PROVE Steady(p)
  <2>1. AuthorizationsFor(p)' = AuthorizationsFor(p)
    BY <1>1, <1>6 DEF AuthorizationsFor
  <2>2. Owners' = Owners
    BY <1>1 DEF Owners
  <2>3. \A d : OwedByLeg(p, d) => OwedByLeg(p, d)'
    BY <1>1, <1>4, LegsOwe
  <2>4. \A d : OwedByUpdate(p, d) => OwedByUpdate(p, d)'
    BY <1>1, <1>2, OthersOwe DEF OwedByUpdate, UpdateOwes
  <2>5. \A d : OwedByDeletion(p, d) => OwedByDeletion(p, d)'
    <3>1. \A d : DeletionOwes(r, p, d) => DeletionOwes(r, p, d)'
      BY <1>1, <1>3, <1>5 DEF DeletionOwes, OnlyRun, Moves
    <3>. QED  BY <1>1, <1>5, <3>1, OthersOwe DEF OwedByDeletion
  <2>6. \A d : OwedByOwner(p, d) => OwedByOwner(p, d)'
    <3>1. \A s, d : OwnerOwes(s, p, d) => d \in auth' /\ p \in AgentsOf(d)' /\ s # r
      BY <1>1, <1>2, <1>6 DEF OwnerOwes
    <3>. QED  BY <1>1, <3>1, OthersOwe DEF OwedByOwner
  <2>. QED  BY <2>1, <2>2, <2>3, <2>4, <2>5, <2>6 DEF Steady, MayMiss, MayShow, MayCover
<1>8. AllSettled'
  BY <1>1, <1>7, AllSettledStay DEF WorkInv
<1>9. \A q : Existed(q) => Existed(q)'
  <2>1. \A q \in roles \ roles' : Deleted(q)
    BY <1>1, <1>2 DEF Deleted, RoleIn
  <2>. QED  BY <1>1, <2>1, ExistedStays DEF OnlyRun, Recorded
<1>10. Names'
  BY <1>1, <1>4, <1>9, NamesStay DEF OnlyRun, Moves
<1>. QED  BY <1>8, <1>10

(* An update owes whoever joins or leaves, and whoever has been granted    *)
(* the members' data.                                                      *)
LEMMA PutSettled ==
  ASSUME RoleInv, WorkInv, Names, AllSettled, NEW r \in RoleRun, PutRole(r), Fresh
  PROVE  Names' /\ AllSettled'
<1>. DEFINE q == RoleIn(r)
<1>1. /\ roleRun[r].pc = "put" /\ OnlyRun(r) /\ Moves(r, "usage")
      /\ UNCHANGED <<auth, child, links, cover, overlap, grantingVars, roles>>
      /\ q \in roles /\ members[q] = roleRun[r].before
      /\ \A s \in RoleRun : /\ roleRun[s].act \in Deletion
                            /\ roleRun[s].pc \in {"authorizations", "delete", "spawn"}
                            => q \notin roleRun[s].via
      /\ members'[q] = MembersIn(r)
      /\ \A x \in Role \ {q} : members'[x] = members[x]
  BY PutEffect
<1>2. roleRun[r].act \in Update /\ q \in Role
  BY <1>1, RoleRunFacts DEF WorkInv, RunsWork
<1>3. \A s \in RoleRun : RoleIn(s)' = RoleIn(s) /\ MembersIn(s)' = MembersIn(s)
  BY <1>1, RolesKnown
<1>4. roleRun'[r].pc = "usage" /\ roleRun'[r].act \in Update /\ Changed(r)' = Changed(r)
  BY <1>1, <1>2, <1>3 DEF OnlyRun, Moves, Changed
<1>5. \A l \in Leg : AtWork(l) => AtWork(l)' /\ Share(l)' = Share(l)
  BY <1>1 DEF AtWork, Share, Group, grantingVars
<1>6. \A p, d : ~ UpdateOwes(r, p, d) /\ ~ DeletionOwes(r, p, d) /\ ~ OwnerOwes(r, p, d)
  BY <1>1 DEF UpdateOwes, DeletionOwes, OwnerOwes
<1>7. \A p, d : OwedByUpdate(p, d) => OwedByUpdate(p, d)'
  BY <1>1, <1>6, OthersOwe DEF OwedByUpdate
<1>8. ASSUME NEW p \in Agent PROVE Steady(p)
  <2>. SUFFICES ASSUME NEW d \in DA
       PROVE  /\ MayMiss(p, d) => MayMiss(p, d)'
              /\ MayShow(p, d) => MayShow(p, d)'
              /\ \A owners : MayCover(p, d, owners)
                   => (d \in AuthorizationsFor(p)' /\ OwnerRole[d] # GranteeOf[d]
                         /\ owners # Owners'[d] =>
                       OwedByLeg(p, d)' \/ OwedByUpdate(p, d)' \/ OwedByOwner(p, d)')
    BY DEF Steady
  <2>0. GranteeOf[d] \in Grantee /\ OwnerRole[d] \in Role \cup {None}
    BY GranteeAssumption, OwnerRoleAssumption
  <2>1. CASE GranteeOf[d] # q
    <3>1. AgentsIn(GranteeOf[d])' = AgentsIn(GranteeOf[d]) /\ AgentsOf(d)' = AgentsOf(d)
      BY <1>1, <2>1 DEF AgentsIn, AgentsOf
    <3>2. d \in AuthorizationsFor(p)' <=> d \in AuthorizationsFor(p)
      BY <1>1, <3>1 DEF AuthorizationsFor
    <3>3. OwedByLeg(p, d) => OwedByLeg(p, d)'
      BY <1>5, <3>1 DEF OwedByLeg
    <3>4. OwedByDeletion(p, d) => OwedByDeletion(p, d)'
      BY <1>1, <1>6, <3>1, OthersOwe DEF OwedByDeletion
    <3>5. OwedByOwner(p, d) => OwedByOwner(p, d)'
      <4>1. \A s : OwnerOwes(s, p, d) => d \in auth' /\ p \in AgentsOf(d)' /\ s # r
        BY <1>1, <1>6, <3>1 DEF OwnerOwes
      <4>. QED  BY <1>1, <4>1, OthersOwe DEF OwedByOwner
    <3>6. CASE OwnerRole[d] # q
      <4>1. Owners'[d] = Owners[d]
        BY <1>1, <2>0, <3>6 DEF Owners
      <4>. QED  BY <1>7, <3>2, <3>3, <3>4, <3>5, <4>1 DEF MayMiss, MayShow, MayCover
    <3>7. CASE OwnerRole[d] = q
      <4>1. d \in AuthorizationsFor(p)' => OwnerOwes(r, p, d)'
        BY <1>3, <1>4, <3>7 DEF OwnerOwes, AuthorizationsFor
      <4>2. d \in AuthorizationsFor(p)' => OwedByOwner(p, d)'
        BY <4>1 DEF OwedByOwner
      <4>. QED  BY <1>7, <3>2, <3>3, <3>4, <4>2 DEF MayMiss, MayShow
    <3>. QED  BY <3>6, <3>7
  <2>2. CASE GranteeOf[d] = q
    <3>1. /\ AgentsIn(GranteeOf[d]) = members[q] /\ AgentsIn(GranteeOf[d])' = MembersIn(r)
          /\ AgentsOf(d) = members[q] /\ AgentsOf(d)' = MembersIn(r)
      BY <1>1, <1>2, <2>2 DEF AgentsIn, AgentsOf
    <3>2. CASE p \in Changed(r)
      <4>1. d \in auth => OwedByUpdate(p, d)'
        BY <1>1, <1>3, <1>4, <2>2, <3>2 DEF UpdateOwes, OwedByUpdate
      <4>2. d \notin auth => d \notin AuthorizationsFor(p) /\ d \notin AuthorizationsFor(p)'
        BY <1>1 DEF AuthorizationsFor
      <4>3. OwedByDeletion(p, d) => OwedByDeletion(p, d)'
        BY <1>1, <1>6, <2>2, OthersOwe DEF OwedByDeletion, DeletionOwes
      <4>. QED  BY <1>7, <4>1, <4>2, <4>3 DEF MayMiss, MayShow
    <3>3. CASE p \notin Changed(r)
      <4>1. p \in members[q] <=> p \in MembersIn(r)
        BY <1>1, <3>3 DEF Changed
      <4>2. d \in AuthorizationsFor(p)' <=> d \in AuthorizationsFor(p)
        BY <1>1, <3>1, <4>1 DEF AuthorizationsFor
      <4>3. OwedByLeg(p, d) => OwedByLeg(p, d)'
        BY <1>5, <3>1, <4>1 DEF OwedByLeg
      <4>4. OwedByDeletion(p, d) => OwedByDeletion(p, d)'
        BY <1>1, <1>6, <2>2, OthersOwe DEF OwedByDeletion, DeletionOwes
      <4>5. OwedByOwner(p, d) => OwedByOwner(p, d)'
        <5>1. \A s : OwnerOwes(s, p, d) => d \in auth' /\ p \in AgentsOf(d)' /\ s # r
          BY <1>1, <1>6, <3>1, <4>1 DEF OwnerOwes
        <5>. QED  BY <1>1, <5>1, OthersOwe DEF OwedByOwner
      <4>6. OwnerRole[d] # GranteeOf[d] => Owners'[d] = Owners[d]
        BY <1>1, <2>0, <2>2 DEF Owners
      <4>. QED  BY <1>7, <4>2, <4>3, <4>4, <4>5, <4>6 DEF MayMiss, MayShow, MayCover
    <3>. QED  BY <3>2, <3>3
  <2>. QED  BY <2>1, <2>2
<1>9. AllSettled'
  BY <1>1, <1>8, AllSettledStay DEF WorkInv
<1>10. \A x : Existed(x) => Existed(x)'
  BY <1>1, ExistedStays DEF OnlyRun, Recorded
<1>11. Names'
  BY <1>1, <1>5, <1>10, NamesStay DEF OnlyRun, Moves
<1>. QED  BY <1>9, <1>11

(* A role that is created has been granted something only by legs at work, *)
(* and nothing is held over its members' data.                             *)
LEMMA CreateSettled ==
  ASSUME RoleInv, WorkInv, Names, AllSettled, NEW r \in RoleRun, CreateRoleAtId(r), Fresh
  PROVE  Names' /\ AllSettled'
<1>. DEFINE q == RoleIn(r)
<1>1. /\ roleRun[r].pc = "create" /\ OnlyRun(r) /\ Moves(r, "children") /\ q \in Role
      /\ UNCHANGED <<auth, child, links, cover, overlap, grantingVars>>
      /\ \/ UNCHANGED <<roles, members>>
         \/ /\ q \notin roles
            /\ \A b \in Deletion \cap Recorded : wanted[b].role # q
            /\ roles' = roles \cup {q}
            /\ members'[q] = MembersIn(r)
            /\ \A x \in Role \ {q} : members'[x] = members[x]
  BY CreateEffect
<1>2. \A l \in Leg : AtWork(l) => AtWork(l)' /\ Share(l)' = Share(l)
  BY <1>1 DEF AtWork, Share, Group, grantingVars
<1>3. \A p, d : /\ ~ UpdateOwes(r, p, d) /\ ~ DeletionOwes(r, p, d) /\ ~ OwnerOwes(r, p, d)
                /\ ~ UpdateOwes(r, p, d)' /\ ~ DeletionOwes(r, p, d)' /\ ~ OwnerOwes(r, p, d)'
  BY <1>1 DEF UpdateOwes, DeletionOwes, OwnerOwes, Moves
<1>4. \A p, d : OwedByUpdate(p, d) => OwedByUpdate(p, d)'
  BY <1>1, <1>3, OthersOwe DEF OwedByUpdate
<1>5. ASSUME NEW p \in Agent PROVE Steady(p)
  <2>1. CASE UNCHANGED <<roles, members>>
    BY <1>1, <1>3, <2>1, OneRunSteady
  <2>2. CASE /\ q \notin roles
             /\ \A b \in Deletion \cap Recorded : wanted[b].role # q
             /\ roles' = roles \cup {q}
             /\ members'[q] = MembersIn(r)
             /\ \A x \in Role \ {q} : members'[x] = members[x]
    <3>0. ~ Existed(q)
      BY <2>2 DEF Existed, Deleted
    <3>. SUFFICES ASSUME NEW d \in DA
         PROVE  /\ MayMiss(p, d) => MayMiss(p, d)'
                /\ MayShow(p, d) => MayShow(p, d)'
                /\ \A owners : Known(d) /\ MayCover(p, d, owners)
                     => (d \in AuthorizationsFor(p)' /\ OwnerRole[d] # GranteeOf[d]
                           /\ owners # Owners'[d] =>
                         OwedByLeg(p, d)' \/ OwedByUpdate(p, d)' \/ OwedByOwner(p, d)')
      BY DEF Steady
    <3>1. OwnerRole[d] \in Role \cup {None}
      BY OwnerRoleAssumption
    <3>2. Known(d) => Owners'[d] = Owners[d]
      BY <2>2, <3>0, <3>1 DEF Known, Owners
    <3>3. CASE GranteeOf[d] # q
      <4>1. AgentsIn(GranteeOf[d])' = AgentsIn(GranteeOf[d]) /\ AgentsOf(d)' = AgentsOf(d)
        BY <2>2, <3>3 DEF AgentsIn, AgentsOf
      <4>2. d \in AuthorizationsFor(p)' <=> d \in AuthorizationsFor(p)
        BY <1>1, <4>1 DEF AuthorizationsFor
      <4>3. OwedByLeg(p, d) => OwedByLeg(p, d)'
        BY <1>2, <4>1 DEF OwedByLeg
      <4>4. OwedByDeletion(p, d) => OwedByDeletion(p, d)'
        BY <1>1, <1>3, <4>1, OthersOwe DEF OwedByDeletion
      <4>5. OwedByOwner(p, d) => OwedByOwner(p, d)'
        <5>1. \A s : OwnerOwes(s, p, d) => d \in auth' /\ p \in AgentsOf(d)'
          BY <1>1, <4>1 DEF OwnerOwes
        <5>. QED  BY <1>1, <1>3, <5>1, OthersOwe DEF OwedByOwner
      <4>. QED  BY <1>4, <3>2, <4>2, <4>3, <4>4, <4>5 DEF MayMiss, MayShow, MayCover
    <3>4. CASE GranteeOf[d] = q
      <4>1. d \notin AuthorizationsFor(p)
        BY <1>1, <2>2, <3>4 DEF AuthorizationsFor, AgentsOf
      <4>2. d \in AuthorizationsFor(p)' => OwedByLeg(p, d)'
        <5>. SUFFICES ASSUME d \in auth, p \in AgentsOf(d)' PROVE OwedByLeg(p, d)'
          BY <1>1 DEF AuthorizationsFor
        <5>1. PICK l \in Leg : AtWork(l) /\ d \in Share(l)
          BY <1>1, <3>0, <3>4 DEF Names, GranteesExist
        <5>2. p \in AgentsIn(GranteeOf[d])'
          BY <1>1, <2>2, <3>4 DEF AgentsOf, AgentsIn
        <5>. QED  BY <1>2, <5>1, <5>2 DEF OwedByLeg
      <4>3. OwedByDeletion(p, d) => OwedByDeletion(p, d)'
        <5>1. \A s \in RoleRun : GranteeOf[d] \notin roleRun[s].via
          BY <1>1, <3>0, <3>4 DEF Names, ViasExist
        <5>. QED  BY <1>1, <1>3, <5>1, OthersOwe DEF OwedByDeletion
      <4>. QED  BY <1>4, <4>1, <4>2, <4>3 DEF MayMiss, MayShow
    <3>. QED  BY <3>3, <3>4
  <2>. QED  BY <1>1, <2>1, <2>2
<1>6. AllSettled'
  BY <1>1, <1>5, AllSettledStay DEF WorkInv
<1>7. \A x : Existed(x) => Existed(x)'
  <2>1. roles \subseteq roles'
    BY <1>1
  <2>. QED  BY <1>1, <2>1, ExistedStays DEF OnlyRun, Recorded
<1>8. Names'
  BY <1>1, <1>2, <1>7, NamesStay DEF OnlyRun, Moves
<1>. QED  BY <1>6, <1>8

(* Agents regenerated afresh owe nothing to what came before.              *)
LEMMA StartSettled ==
  ASSUME RoleInv, ChildrenWork, Names, AllSettled, ChildrenWork',
         NEW q, NEW agents \in SUBSET Agent, StartChildren(q, agents),
         UNCHANGED <<links, cover>>,
         \A c \in Child : ParentOf(c) = q => child[c].pc = "idle",
         \A a \in agents : <<q, a>> \in Child,
         \A p \in Agent \ agents : Steady(p)
  PROVE  AllSettled'
<1>1. \A c \in Child : IF Started(q, agents, c)
                       THEN child'[c].pc = "authorizations"
                       ELSE child'[c] = child[c]
  BY StartedChildren
<1>2. overlap \subseteq overlap'
  BY DEF StartChildren
<1>. SUFFICES ASSUME NEW p \in Agent \ overlap' PROVE Settled(p)'
  BY DEF AllSettled
<1>3. CASE p \notin agents
  <2>1. \A c \in Child : AgentOf(c) = p => child'[c] = child[c]
    BY <1>1, <1>3 DEF Started
  <2>2. Settled(p) /\ Steady(p)
    BY <1>2, <1>3 DEF AllSettled
  <2>. QED  BY <2>1, <2>2, SettledStays
<1>4. CASE p \in agents
  <2>. DEFINE c == <<q, p>>
  <2>1. c \in Child /\ AgentOf(c) = p /\ child'[c].pc = "authorizations"
    BY <1>1, <1>4 DEF Started, ParentOf, AgentOf
  <2>2. Active(c)'
    BY <2>1 DEF Active
  <2>3. \A e \in Child : AgentOf(e) = p /\ Active(e)' => e = c
    BY <2>1, <2>2 DEF ChildrenWork, Alone, AtMostOneActive
  <2>4. \A e \in Child : AgentOf(e) = p => ~ Late(e)'
    BY <2>1, <2>3 DEF Late, Active
  <2>. QED  BY <2>1, <2>2, <2>4 DEF Settled
<1>. QED  BY <1>3, <1>4

(* Started children know no names yet.                                     *)
LEMMA StartNames ==
  ASSUME Names, NEW q, NEW agents, StartChildren(q, agents),
         UNCHANGED <<links, auth, roles, wanted>>,
         \A r \in RoleRun : roleRun'[r].via = roleRun[r].via,
         GranteesExist'
  PROVE  Names'
<1>1. \A x : Existed(x) <=> Existed(x)'
  BY DEF Existed, Deleted, Recorded
<1>2. \A d : Known(d) => Known(d)'
  BY <1>1 DEF Known
<1>3. \A c \in Child : Late(c)' => child'[c] = child[c] /\ Late(c)
  BY StartedChildren DEF Late
<1>4. SeenExist'
  BY <1>2, <1>3 DEF Names, SeenExist
<1>5. LinkedExist' /\ ViasExist'
  BY <1>1, <1>2 DEF Names, LinkedExist, Linked, ViasExist
<1>. QED  BY <1>4, <1>5 DEF Names

(* The children of a role run: everyone it owes.                           *)
LEMMA SpawnSettled ==
  ASSUME RoleInv, WorkInv, Names, AllSettled, NEW r \in RoleRun, SpawnChildren(r)
  PROVE  Names' /\ AllSettled'
<1>1. /\ roleRun[r].pc = "spawn" /\ OnlyRun(r) /\ roleRun'[r].pc = "children"
      /\ UNCHANGED <<auth, roles, members, links, cover, grantingVars>>
  BY SpawnEffect
<1>2. PICK to \in SUBSET Agent :
        /\ StartChildren(<<r, RoleIn(r)>>, to)
        /\ roleRun[r].used => IF roleRun[r].act \in Update
             THEN (roleRun[r].before \ MembersIn(r)) \cup (MembersIn(r) \ roleRun[r].before)
                    \subseteq to
             ELSE MembersIn(r) \subseteq to
        /\ \A g \in roleRun[r].via : AgentsIn(g) \subseteq to
  BY SpawnEffect
<1>3. ASSUME NEW p \in Agent \ to PROVE Steady(p)
  <2>1. \A d : ~ UpdateOwes(r, p, d)
    BY <1>1, <1>2, <1>3 DEF UpdateOwes, Changed
  <2>2. \A d : ~ DeletionOwes(r, p, d)
    BY <1>1, <1>2, <1>3, RoleActivityAssumption DEF DeletionOwes
  <2>3. \A d : ~ OwnerOwes(r, p, d)
    <3>1. \A d : p \in AgentsOf(d) => p \in AgentsIn(GranteeOf[d])
      BY DEF AgentsOf, AgentsIn
    <3>. QED  BY <1>1, <1>2, <1>3, <3>1 DEF OwnerOwes
  <2>. QED  BY <1>1, <2>1, <2>2, <2>3, OneRunSteady
<1>4. ChildrenWork /\ ChildrenWork'
  BY SpawnWork DEF WorkInv
<1>5. \A c \in Child : ParentOf(c) = <<r, RoleIn(r)>> => child[c].pc = "idle"
  BY <1>1, <1>4, SpawnFresh
<1>6. \A a \in to : <<<<r, RoleIn(r)>>, a>> \in Child
  <2>1. RoleIn(r) \in Role /\ r \in Run
    BY <1>1, RoleRunFacts, RoleRunAssumption
  <2>. QED  BY <2>1 DEF Child, Parent, Grantee
<1>7. AllSettled'
  BY <1>1, <1>2, <1>3, <1>4, <1>5, <1>6, StartSettled
<1>8. roleRun'[r].via = roleRun[r].via
  BY DEF SpawnChildren, RoleInv, RoleTypeOK, RoleRunState
<1>9. GranteesExist'
  BY <1>1 DEF Names, GranteesExist, AtWork, Share, Group, grantingVars, Existed, Deleted, Recorded,
              OnlyRun
<1>10. Names'
  BY <1>1, <1>2, <1>8, <1>9, StartNames DEF OnlyRun
<1>. QED  BY <1>7, <1>10

-----------------------------------------------------------------------------
(* The way a child goes.                                                   *)
LEMMA ChildStepShape ==
  ASSUME RegenerationTypeOK, GrantsInv, NEW c \in Child, ChildStep(c)
  PROVE  /\ child[c].pc = "authorizations" => child'[c].pc = "generate"
         /\ child[c].pc # "authorizations" =>
              child'[c].pc \in {"store", "acr", "delegate", "read", "patch", "failing", "done"}
         /\ child'[c].pc = "done" => PatchLinks(c)
<1>. USE DEF RegenerationTypeOK
<1>0. child[c] \in ChildState /\ 1 \in 1 .. MaxLost + 1
  BY LostAssumption
<1>. DEFINE Goal == /\ child[c].pc = "authorizations" => child'[c].pc = "generate"
                    /\ child[c].pc # "authorizations" =>
                         child'[c].pc \in {"store", "acr", "delegate", "read", "patch", "failing", "done"}
                    /\ child'[c].pc = "done" => PatchLinks(c)
<1>1. CASE FetchAuthorizations(c)
  <2>1. child[c].pc = "authorizations" /\ child'[c].pc = "generate"
    BY <1>0, <1>1 DEF FetchAuthorizations, ChildState
  <2>. QED  BY <2>1
<1>2. CASE GenerateGrants(c)
  <2>1. child[c].pc = "generate" /\ child'[c].pc \in {"store", "delegate", "read"}
    BY <1>2, GenerateEffect DEF GenerateGrants
  <2>. QED  BY <2>1
<1>3. CASE StoreDataGrant(c)
  <2>1. child[c].pc = "store" /\ child'[c].pc \in {"store", "acr"}
    BY <1>0, <1>3 DEF StoreDataGrant, ChildState
  <2>. QED  BY <2>1
<1>4. CASE CreateAcr(c) \/ RequestDelegation(c)
  <2>1. PICK g \in Grant : WriteAcr(c, g) /\ child[c].pc \in {"acr", "delegate"}
    BY <1>4, AcrStepEffect
  <2>2. child'[c].pc \in {"store", "delegate", "read"} \/ child'[c].pc = child[c].pc
    BY <2>1, WriteAcrEffect
  <2>. QED  BY <2>1, <2>2
<1>5. CASE FailAlways(c)
  <2>1. child[c].pc \in {"generate", "acr", "delegate"} /\ child'[c].pc = "failing"
    BY <1>0, <1>5 DEF FailAlways, ChildState
  <2>. QED  BY <2>1
<1>6. CASE ReadLinks(c)
  <2>1. child[c].pc = "read" /\ child'[c].pc = "patch"
    BY <1>6, ReadLinksEffect
  <2>. QED  BY <2>1
<1>7. CASE PatchLinks(c)
  <2>1. child[c].pc = "patch" /\ child'[c].pc \in {"done", "read"}
    BY <1>7, PatchLinksEffect
  <2>. QED  BY <1>7, <2>1
<1>. QED  BY <1>1, <1>2, <1>3, <1>4, <1>5, <1>6, <1>7 DEF ChildStep

(* What a child's step does beside the registry, and to what its grants    *)
(* cover.                                                                  *)
LEMMA ChildStepCover ==
  ASSUME RoleInv, NEW c \in Child, ChildStep(c), CoverMembers
  PROVE  /\ \A e \in Child \ {c} : child'[e] = child[e] /\ cover'[e] = cover[e]
         /\ child[c].pc = "generate" =>
              /\ cover'[c] = Owners
              /\ \A d \in child[c].seen : OwnerRole[d] # None => OwnerRole[d] \in roles
         /\ child[c].pc # "generate" => cover'[c] = cover[c]
         /\ UNCHANGED <<auth, roles, members, registered, overlap>>
         /\ \A p \in Agent \ {AgentOf(c)} : links'[p] = links[p]
<1>1. RegenerationTypeOK /\ GrantsInv
  BY DEF RoleInv, RoleTypeOK, TypeOK
<1>2. \A e \in Child \ {c} : child'[e] = child[e]
  BY <1>1, ChildStepFrame
<1>3. \A e \in Child \ {c} : ~ Generates(e)
  BY <1>2 DEF Generates
<1>4. Generates(c) <=> child[c].pc = "generate"
  BY <1>1, ChildStepShape DEF Generates
<1>5. UNCHANGED <<auth, roles, members, registered>>
  BY <1>1, ChildStepFrame DEF store
<1>6. overlap' = overlap /\ \A p \in Agent \ {AgentOf(c)} : links'[p] = links[p]
  BY <1>1, ChildStepEarly, ReadLinksEffect, PatchLinksEffect
<1>7. \A e \in Child : cover'[e] = IF Generates(e) THEN Owners ELSE cover[e]
  BY DEF CoverMembers
<1>8. Generates(c) => \A d \in child[c].seen : OwnerRole[d] # None => OwnerRole[d] \in roles
  BY DEF CoverMembers
<1>. HIDE DEF Owners
<1>. QED  BY <1>2, <1>3, <1>4, <1>5, <1>6, <1>7, <1>8

(* A child's step owes what was owed.                                      *)
LEMMA ChildStepSteady ==
  ASSUME UNCHANGED <<auth, roles, members, grantingVars, roleVars>>, NEW p
  PROVE  Steady(p)
<1>1. \A l \in Leg : AtWork(l) => AtWork(l)' /\ Share(l)' = Share(l)
  BY DEF AtWork, Share, Group, grantingVars
<1>2. \A r \in RoleRun : /\ roleRun'[r] = roleRun[r]
                         /\ RoleIn(r)' = RoleIn(r) /\ MembersIn(r)' = MembersIn(r)
  BY DEF roleVars, RoleIn, MembersIn
<1>. QED  BY <1>1, <1>2, LegsOwe, RunsOwe, SteadyRegistry

(* A child sees the registry as it is, and what it has seen is what it     *)
(* links.                                                                  *)
LEMMA OwnStepSettled ==
  ASSUME RoleInv, ChildrenWork, ChildrenWork', Names, NEW c \in Child, ChildStep(c), CoverMembers,
         UNCHANGED <<grantingVars, roleVars>>,
         AgentOf(c) \in Agent \ overlap, Settled(AgentOf(c))
  PROVE  Settled(AgentOf(c))'
<1>. DEFINE p == AgentOf(c)
<1>0. RegenerationTypeOK /\ GrantsInv /\ Accounts(c) /\ Alone(p)
  BY DEF RoleInv, RoleTypeOK, TypeOK, ChildrenWork
<1>1. /\ child[c].pc \notin {"idle", "done"}
      /\ child'[c].seen = IF child[c].pc = "authorizations"
                          THEN AuthorizationsFor(p) ELSE child[c].seen
      /\ \A e \in Child \ {c} : child'[e] = child[e]
  BY <1>0, ChildStepFrame
<1>2. UNCHANGED <<auth, roles, members>>
  BY ChildStepCover
<1>3. /\ AuthorizationsFor(p)' = AuthorizationsFor(p)
      /\ Owners' = Owners
  BY <1>2 DEF AuthorizationsFor, AgentsOf, Owners
<1>4. Steady(p)
  BY <1>2, ChildStepSteady
<1>5. \A e \in Child : AgentOf(e) = p /\ e # c => ~ Active(e) /\ ~ Late(e)' /\ ~ Active(e)'
  BY <1>0, <1>1 DEF Alone, AtMostOneActive, Active, Late
<1>6. \A S : Shows(p, S) => \A d \in DA : IF d \in S THEN MayShow(p, d)' ELSE MayMiss(p, d)'
  BY <1>4 DEF Steady, Shows
<1>7. CASE child[c].pc = "authorizations"
  <2>1. child'[c].pc = "generate" /\ child'[c].seen = AuthorizationsFor(p)'
    BY <1>0, <1>1, <1>3, <1>7, ChildStepShape
  <2>2. Active(c)'
    BY <2>1 DEF Active
  <2>3. Shows(p, child[c].seen)'
    BY <2>1 DEF Shows, MayShow, MayMiss
  <2>. QED  BY <1>5, <2>1, <2>2, <2>3 DEF Settled
<1>8. CASE child[c].pc # "authorizations"
  <2>1. /\ Late(c) /\ child'[c].seen = child[c].seen
        /\ child'[c].pc \in {"store", "acr", "delegate", "read", "patch", "failing", "done"}
    BY <1>0, <1>1, <1>8, ChildStepShape DEF Late
  <2>2. Shows(p, child[c].seen)
    BY <2>1 DEF Settled
  <2>3. Shows(p, child[c].seen)'
    BY <1>6, <2>1, <2>2 DEF Shows
  <2>4. child[c].seen \subseteq DA
    BY <1>0 DEF RegenerationTypeOK, ChildState
  <2>5. ASSUME NEW d \in child[c].seen PROVE MayCover(p, d, cover[c][d])'
    <3>1. CASE child[c].pc = "generate"
      <4>1. cover'[c][d] = Owners'[d]
        BY <1>3, <3>1, ChildStepCover
      <4>. QED  BY <4>1 DEF MayCover
    <3>2. CASE child[c].pc # "generate"
      <4>1. cover'[c] = cover[c] /\ Known(d)
        BY <2>1, <3>2, ChildStepCover DEF Names, SeenExist
      <4>2. MayCover(p, d, cover[c][d])
        BY <2>1, <3>2 DEF Settled
      <4>. QED  BY <1>4, <2>4, <4>1, <4>2 DEF Steady, MayCover
    <3>. QED  BY <3>1, <3>2
  <2>6. CASE child'[c].pc # "done"
    <3>1. Active(c)'
      BY <2>1, <2>6 DEF Active
    <3>. QED  BY <1>5, <2>1, <2>3, <2>5, <3>1 DEF Settled
  <2>7. CASE child'[c].pc = "done"
    <3>1. PatchLinks(c)
      BY <1>0, <2>7, ChildStepShape
    <3>2. links'[p] = child[c].new /\ Linked(p)' = child[c].seen
      BY <1>0, <3>1, AlonePatch
    <3>3. \A g \in links'[p] : g.by = c /\ g.da \in child[c].seen
      BY <1>0, <3>2 DEF GrantsInv, Accounts
    <3>4. \A g \in links'[p] : MayCover(p, g.da, cover[g.by][g.da])'
      BY <2>5, <3>3
    <3>5. Shows(p, Linked(p))'
      BY <2>1, <2>3, <3>2 DEF Shows
    <3>6. ~ Late(c)'
      BY <2>7 DEF Late
    <3>. QED  BY <1>5, <3>4, <3>5, <3>6 DEF Settled
  <2>. QED  BY <2>6, <2>7
<1>. QED  BY <1>7, <1>8

(* A child's step settles its own agent and disturbs no other.             *)
LEMMA ChildStepSettled ==
  ASSUME RoleInv, WorkInv, Names, AllSettled, NEW c \in Child, ChildStep(c), CoverMembers,
         UNCHANGED <<grantingVars, roleVars>>
  PROVE  Names' /\ AllSettled'
<1>0. RegenerationTypeOK /\ GrantsInv /\ ChildrenWork /\ Accounts(c)
  BY DEF RoleInv, RoleTypeOK, TypeOK, WorkInv, ChildrenWork
<1>1. ChildrenWork'
  BY ChildStepWork DEF WorkInv
<1>2. /\ \A e \in Child \ {c} : child'[e] = child[e] /\ cover'[e] = cover[e]
      /\ UNCHANGED <<auth, roles, members, overlap>>
      /\ \A p \in Agent \ {AgentOf(c)} : links'[p] = links[p]
  BY ChildStepCover
<1>3. ASSUME NEW p \in Agent \ overlap' PROVE Settled(p)'
  <2>1. Settled(p)
    BY <1>2 DEF AllSettled
  <2>2. CASE p = AgentOf(c)
    BY <1>0, <1>1, <1>2, <2>1, <2>2, OwnStepSettled
  <2>3. CASE p # AgentOf(c)
    <3>1. Steady(p)
      BY <1>2, ChildStepSteady
    <3>2. \A e \in Child : AgentOf(e) = p => child'[e] = child[e] /\ cover'[e] = cover[e]
      BY <1>2, <2>3
    <3>. QED  BY <1>0, <1>2, <2>1, <2>3, <3>1, <3>2, SettledStays
  <2>. QED  BY <2>2, <2>3
<1>4. \A q : Existed(q) <=> Existed(q)'
  BY <1>2 DEF Existed, Deleted, Recorded, roleVars
<1>5. \A d : Known(d) => Known(d)'
  BY <1>4 DEF Known
<1>6. GranteesExist'
  BY <1>2, <1>4 DEF Names, GranteesExist, AtWork, Share, Group, grantingVars
<1>7. ViasExist'
  BY <1>4 DEF Names, ViasExist, roleVars
<1>8. child[c].pc # "authorizations" => child'[c].seen = child[c].seen /\ Late(c)
  BY <1>0, ChildStepFrame DEF Late
<1>9. child[c].pc # "authorizations" => \A d \in child[c].seen : Known(d)
  <2>1. CASE child[c].pc = "generate"
    BY <2>1, ChildStepCover DEF Known, Existed
  <2>2. CASE child[c].pc # "generate"
    BY <1>8, <2>2 DEF Names, SeenExist
  <2>. QED  BY <2>1, <2>2
<1>10. SeenExist'
  <2>. SUFFICES ASSUME NEW e \in Child, Late(e)', child'[e].pc # "generate",
                       NEW d \in child'[e].seen
                PROVE  Known(d)'
    BY DEF SeenExist
  <2>1. CASE e = c
    <3>1. child[c].pc # "authorizations"
      BY <1>0, <2>1, ChildStepShape
    <3>. QED  BY <1>5, <1>8, <1>9, <2>1, <3>1
  <2>2. CASE e # c
    <3>1. child'[e] = child[e] /\ Late(e)
      BY <1>2, <2>2 DEF Late
    <3>. QED  BY <1>5, <3>1 DEF Names, SeenExist
  <2>. QED  BY <2>1, <2>2
<1>11. LinkedExist'
  <2>. SUFFICES ASSUME NEW p \in Agent, NEW g \in links'[p] PROVE Known(g.da)'
    BY DEF LinkedExist, Linked
  <2>1. CASE g \in links[p]
    BY <1>5, <2>1 DEF Names, LinkedExist, Linked
  <2>2. CASE g \notin links[p]
    <3>1. PatchLinks(c)
      BY <1>0, <2>2, ChildStepEarly, ReadLinksEffect
    <3>2. child[c].pc = "patch" /\ g \in child[c].new
      BY <1>0, <1>2, <2>2, <3>1, PatchLinksEffect
    <3>3. g.da \in child[c].seen
      BY <1>0, <3>2 DEF Accounts
    <3>. QED  BY <1>5, <1>9, <3>2, <3>3
  <2>. QED  BY <2>1, <2>2
<1>. QED  BY <1>3, <1>6, <1>7, <1>10, <1>11 DEF AllSettled, Names

-----------------------------------------------------------------------------
(* Granting beside the role runs: steps that take no leg off its work.     *)
LEMMA GrantingSettled ==
  ASSUME RoleInv, WorkInv, Names, AllSettled,
         UNCHANGED <<auth, roles, members, child, links, cover, overlap, roleVars>>,
         \A l \in Leg : AtWork(l) => AtWork(l)' /\ Share(l)' = Share(l)
  PROVE  Names' /\ AllSettled'
<1>1. \A r \in RoleRun : /\ roleRun'[r] = roleRun[r]
                         /\ RoleIn(r)' = RoleIn(r) /\ MembersIn(r)' = MembersIn(r)
  BY DEF roleVars, RoleIn, MembersIn
<1>2. \A p \in Agent : Steady(p)
  BY <1>1, LegsOwe, RunsOwe, SteadyRegistry
<1>3. AllSettled'
  BY <1>2, AllSettledStay DEF WorkInv
<1>4. \A q : Existed(q) => Existed(q)'
  BY ExistedStays DEF Recorded, roleVars
<1>5. Names'
  BY <1>1, <1>4, NamesStay
<1>. QED  BY <1>3, <1>5

(* Where no child works from the registry the grants cover what they did.  *)
LEMMA CoverStays ==
  ASSUME RoleInv, CoverMembers, UNCHANGED child
  PROVE  cover' = cover
<1>1. \A c \in Child : ~ Generates(c)
  BY DEF Generates
<1>2. cover' = [c \in Child |-> cover[c]]
  BY <1>1 DEF CoverMembers
<1>. QED  BY <1>2 DEF RoleInv, RoleTypeOK

(* An authorization that is stored is owed by its leg.                     *)
LEMMA StoreSettled ==
  ASSUME RoleInv, WorkInv, Names, AllSettled, NEW l \in Leg, NEW e \in DA,
         StoreAuthorization(l, e), CoverMembers, UNCHANGED roleVars
  PROVE  Names' /\ AllSettled'
<1>1. /\ leg[l].pc = "materialize" /\ e \in leg[l].todo
      /\ auth' = auth \cup {e}
      /\ UNCHANGED <<roles, members, child, links, overlap, run>>
  BY DEF StoreAuthorization
<1>2. cover' = cover
  BY <1>1, CoverStays
<1>3. /\ \A k \in Leg \ {l} : leg'[k] = leg[k]
      /\ leg'[l].pc \in {"materialize", "resolve"}
  <2>. DEFINE rest == leg[l].todo \ {e}
              pc == IF rest = {} THEN "resolve" ELSE leg[l].pc
  <2>1. \/ leg' = [leg EXCEPT ![l].todo = rest, ![l].pc = pc]
        \/ leg' = [leg EXCEPT ![l].todo = Share(l)]
    BY DEF StoreAuthorization
  <2>2. pc \in {"materialize", "resolve"} /\ leg \in [Leg -> LegState]
    BY <1>1 DEF RoleInv, RoleTypeOK, TypeOK
  <2>. HIDE DEF rest, pc
  <2>. QED  BY <1>1, <2>1, <2>2 DEF LegState
<1>4. \A k \in Leg : AtWork(k) => AtWork(k)' /\ Share(k)' = Share(k)
  BY <1>1, <1>3 DEF AtWork, Share, Group
<1>5. AtWork(l) /\ e \in Share(l)
  BY <1>1 DEF AtWork, WorkInv, LegsWork
<1>6. \A d : AgentsIn(GranteeOf[d])' = AgentsIn(GranteeOf[d]) /\ AgentsOf(d)' = AgentsOf(d)
  BY <1>1 DEF AgentsIn, AgentsOf
<1>7. \A r \in RoleRun : /\ roleRun'[r] = roleRun[r]
                         /\ RoleIn(r)' = RoleIn(r) /\ MembersIn(r)' = MembersIn(r)
  BY DEF roleVars, RoleIn, MembersIn
<1>8. ASSUME NEW p \in Agent PROVE Steady(p)
  <2>. SUFFICES ASSUME NEW d \in DA
       PROVE  /\ MayMiss(p, d) => MayMiss(p, d)'
              /\ MayShow(p, d) => MayShow(p, d)'
              /\ \A owners : MayCover(p, d, owners)
                   => (d \in AuthorizationsFor(p)' /\ OwnerRole[d] # GranteeOf[d]
                         /\ owners # Owners'[d] =>
                       OwedByLeg(p, d)' \/ OwedByUpdate(p, d)' \/ OwedByOwner(p, d)')
    BY DEF Steady
  <2>1. OwedByLeg(p, d) => OwedByLeg(p, d)'
    BY <1>1, <1>4, LegsOwe
  <2>2. OwedByUpdate(p, d) => OwedByUpdate(p, d)'
    BY <1>1, <1>7 DEF OwedByUpdate, UpdateOwes, Changed
  <2>3. OwedByDeletion(p, d) => OwedByDeletion(p, d)'
    BY <1>6, <1>7 DEF OwedByDeletion, DeletionOwes
  <2>4. OwedByOwner(p, d) => OwedByOwner(p, d)'
    BY <1>1, <1>6, <1>7 DEF OwedByOwner, OwnerOwes
  <2>5. Owners' = Owners
    BY <1>1 DEF Owners
  <2>6. CASE d # e
    <3>1. d \in AuthorizationsFor(p)' <=> d \in AuthorizationsFor(p)
      BY <1>1, <1>6, <2>6 DEF AuthorizationsFor
    <3>. QED  BY <2>1, <2>2, <2>3, <2>4, <2>5, <3>1 DEF MayMiss, MayShow, MayCover
  <2>7. CASE d = e
    <3>1. d \in AuthorizationsFor(p) => d \in AuthorizationsFor(p)'
      BY <1>1, <1>6 DEF AuthorizationsFor
    <3>2. d \in AuthorizationsFor(p)' => OwedByLeg(p, d)'
      <4>. SUFFICES ASSUME p \in AgentsOf(d)' PROVE OwedByLeg(p, d)'
        BY DEF AuthorizationsFor
      <4>1. p \in AgentsIn(GranteeOf[d])'
        BY DEF AgentsOf, AgentsIn
      <4>. QED  BY <1>4, <1>5, <2>7, <4>1 DEF OwedByLeg
    <3>. QED  BY <2>2, <2>3, <3>1, <3>2 DEF MayMiss, MayShow
  <2>. QED  BY <2>6, <2>7
<1>9. AllSettled'
  BY <1>1, <1>2, <1>8, AllSettledStay DEF WorkInv
<1>10. \A q : Existed(q) <=> Existed(q)'
  BY <1>1 DEF Existed, Deleted, Recorded, roleVars
<1>11. \A d : Known(d) => Known(d)'
  BY <1>10 DEF Known
<1>12. GranteesExist'
  BY <1>1, <1>4, <1>5, <1>10 DEF Names, GranteesExist
<1>13. SeenExist' /\ LinkedExist'
  BY <1>1, <1>11 DEF Names, SeenExist, LinkedExist, Late, Linked
<1>14. ViasExist'
  BY <1>7, <1>10 DEF Names, ViasExist
<1>. QED  BY <1>9, <1>12, <1>13, <1>14 DEF Names

(* The children of a leg: everyone it owes.                                *)
LEMMA FanOutSettled ==
  ASSUME RoleInv, WorkInv, Names, AllSettled, NEW l \in Leg, FanOut(l), CoverMembers,
         UNCHANGED roleVars
  PROVE  Names' /\ AllSettled'
<1>. DEFINE agents == AgentsIn(GranteeIn(l))
<1>0. ChildrenWork /\ ChildrenWork'
  BY FanOutWork DEF WorkInv
<1>1. /\ leg[l].pc = "fanout"
      /\ GranteeIn(l) \in Role => GranteeIn(l) \in roles
      /\ StartChildren(l, agents) /\ agents \subseteq Agent
      /\ \A k \in Leg \ {l} : leg'[k] = leg[k]
      /\ \A c \in Child : ParentOf(c) = l => child[c].pc = "idle"
      /\ UNCHANGED <<auth, roles, members, links, run>>
  BY <1>0, FanOutEffect DEF store
<1>. HIDE DEF agents
<1>2. cover' = cover
  <2>1. \A c \in Child : ~ Generates(c)
    BY <1>1, StartedChildren DEF Started, Generates
  <2>2. cover' = [c \in Child |-> cover[c]]
    BY <2>1 DEF CoverMembers
  <2>. QED  BY <2>2 DEF RoleInv, RoleTypeOK
<1>3. \A k \in Leg \ {l} : AtWork(k) => AtWork(k)' /\ Share(k)' = Share(k)
  BY <1>1 DEF AtWork, Share, Group
<1>4. \A d \in Share(l) : GranteeOf[d] = GranteeIn(l)
  BY DEF Share, Group
<1>5. \A r \in RoleRun : /\ roleRun'[r] = roleRun[r]
                         /\ RoleIn(r)' = RoleIn(r) /\ MembersIn(r)' = MembersIn(r)
  BY DEF roleVars, RoleIn, MembersIn
<1>6. ASSUME NEW p \in Agent \ agents PROVE Steady(p)
  <2>1. \A d : AgentsIn(GranteeOf[d])' = AgentsIn(GranteeOf[d])
    BY <1>1 DEF AgentsIn
  <2>2. \A d \in Share(l) : p \notin AgentsIn(GranteeOf[d])
    BY <1>4, <1>6 DEF agents
  <2>3. \A d : OwedByLeg(p, d) => OwedByLeg(p, d)'
    BY <1>3, <2>1, <2>2 DEF OwedByLeg
  <2>. QED  BY <1>1, <1>5, <2>3, RunsOwe, SteadyRegistry
<1>7. \A a \in agents : <<l, a>> \in Child
  BY <1>1, LegParts
<1>8. AllSettled'
  BY <1>0, <1>1, <1>2, <1>6, <1>7, StartSettled
<1>9. GranteesExist'
  <2>1. \A q : Existed(q) <=> Existed(q)'
    BY <1>1 DEF Existed, Deleted, Recorded, roleVars
  <2>2. \A d \in Share(l) : GranteeOf[d] \in Role => Existed(GranteeOf[d])
    BY <1>1, <1>4 DEF Existed
  <2>. QED  BY <1>1, <1>3, <2>1, <2>2 DEF Names, GranteesExist
<1>10. Names'
  BY <1>1, <1>5, <1>9, StartNames DEF roleVars
<1>. QED  BY <1>8, <1>10

(* Every step of a leg.                                                    *)
LEMMA LegStepSettled ==
  ASSUME RoleInv, WorkInv, Names, AllSettled, NEW l \in Leg, LegStep(l), CoverMembers,
         UNCHANGED roleVars
  PROVE  Names' /\ AllSettled'
<1>1. CASE \E d \in DA : StoreAuthorization(l, d)
  BY <1>1, StoreSettled
<1>2. CASE FanOut(l)
  BY <1>2, FanOutSettled
<1>3. CASE ResolveGrantee(l) \/ JoinChildren(l)
  <2>1. /\ UNCHANGED <<auth, roles, members, child, links, overlap, run>>
        /\ \/ leg[l].pc = "resolve" /\ leg' = [leg EXCEPT ![l].pc = "fanout"]
           \/ leg[l].pc = "children" /\ leg' = [leg EXCEPT ![l].pc = "done"]
    BY <1>3 DEF ResolveGrantee, JoinChildren, regenerationVars
  <2>2. \A k \in Leg : AtWork(k) => AtWork(k)'
    BY <2>1 DEF AtWork, RoleInv, RoleTypeOK, TypeOK, LegState
  <2>3. \A k \in Leg : Share(k)' = Share(k)
    BY <2>1 DEF Share, Group
  <2>. QED  BY <2>1, <2>2, <2>3, CoverStays, GrantingSettled
<1>. QED  BY <1>1, <1>2, <1>3 DEF LegStep

(* A run that starts has its legs' shares from then on.                    *)
LEMMA StartRunSettled ==
  ASSUME RoleInv, WorkInv, Names, AllSettled, NEW r \in GrantRun, NEW a, StartRun(r, a),
         UNCHANGED regenerationVars, CoverMembers, UNCHANGED roleVars
  PROVE  Names' /\ AllSettled'
<1>1. run \in [GrantRun -> RunState] /\ run[r].pc = "idle"
  BY DEF RoleInv, RoleTypeOK, TypeOK, StartRun
<1>2. \A q \in GrantRun \ {r} : run'[q] = run[q]
  BY <1>1 DEF StartRun
<1>3. \A l \in Leg : RunOf(l) = r => leg[l].pc = "idle"
  BY <1>1 DEF RoleInv, RunsRecorded
<1>4. \A l \in Leg : RunOf(l) # r => leg'[l] = leg[l] /\ Share(l)' = Share(l)
  BY <1>2, LegParts DEF StartRun, Share, Group
<1>5. \A l \in Leg : AtWork(l) => AtWork(l)' /\ Share(l)' = Share(l)
  BY <1>3, <1>4 DEF AtWork
<1>6. UNCHANGED <<auth, roles, members, child, links, overlap>>
  BY DEF regenerationVars
<1>. QED  BY <1>5, <1>6, CoverStays, GrantingSettled

(* Whatever granting does, beside the role runs.                           *)
LEMMA NextSettled ==
  ASSUME RoleInv, WorkInv, Names, AllSettled, Next, CoverMembers, UNCHANGED roleVars
  PROVE  Names' /\ AllSettled'
<1>0. ASSUME UNCHANGED <<auth, roles, members, child, links, overlap, leg>>,
             \A r \in GrantRun : run'[r].act = run[r].act
      PROVE  Names' /\ AllSettled'
  <2>1. \A l \in Leg : AtWork(l) => AtWork(l)' /\ Share(l)' = Share(l)
    BY <1>0, LegParts DEF AtWork, Share, Group
  <2>. QED  BY <1>0, <2>1, CoverStays, GrantingSettled
<1>1. ASSUME NEW a \in Activity, RecordAuthorization(a) PROVE Names' /\ AllSettled'
  BY <1>0, <1>1 DEF RecordAuthorization, regenerationVars
<1>2. ASSUME NEW a \in Activity, NEW r \in GrantRun, Deliver(a, r) PROVE Names' /\ AllSettled'
  BY <1>2, StartRunSettled DEF Deliver
<1>3. ASSUME NEW l \in Leg, LegStep(l) PROVE Names' /\ AllSettled'
  BY <1>3, LegStepSettled
<1>4. ASSUME NEW c \in Child, ChildStep(c), UNCHANGED grantingVars PROVE Names' /\ AllSettled'
  BY <1>4, ChildStepSettled
<1>5. ASSUME NEW r \in GrantRun, MarkDone(r) PROVE Names' /\ AllSettled'
  <2>1. run' = [run EXCEPT ![r].pc = "done"] \/ run' = run
    BY <1>5 DEF MarkDone
  <2>2. \A q \in GrantRun : run'[q].act = run[q].act
    BY <2>1 DEF RoleInv, RoleTypeOK, TypeOK, RunState
  <2>. QED  BY <1>0, <1>5, <2>2 DEF MarkDone, store
<1>6. ASSUME NEW r \in GrantRun, SweepNext(r) PROVE Names' /\ AllSettled'
  BY <1>6, StartRunSettled DEF SweepNext
<1>7. CASE StartSweep \/ SweepMarkDone
  BY <1>0, <1>7 DEF StartSweep, SweepMarkDone, regenerationVars
<1>. QED  BY <1>1, <1>2, <1>3, <1>4, <1>5, <1>6, <1>7 DEF Next

-----------------------------------------------------------------------------
(* Every step of a role run.                                               *)
LEMMA RoleStepsSettled ==
  ASSUME RoleInv, WorkInv, Names, AllSettled, NEW r \in RoleRun, RoleStep(r), Fresh
  PROVE  Names' /\ AllSettled'
  BY CreateSettled, LoadSettled, PutSettled, FindSettled, DeleteAuthSettled, DeleteRoleSettled,
     SpawnSettled, MarkRoleSettled DEF RoleStep

(* A step is not out of date if what follows it is not.                    *)
LEMMA RoleStepsFresh ==
  ASSUME RoleInv, NEW r \in RoleRun, RoleStep(r), Fresh
  PROVE  stale = {}
<1>1. CASE SpawnChildren(r)
  BY <1>1, SpawnEffect DEF Fresh
<1>2. CASE LoadRole(r) \/ FindRoleUsage(r) \/ MarkRoleDone(r)
  BY <1>2 DEF LoadRole, FindRoleUsage, MarkRoleDone, Fresh
<1>. QED  BY <1>1, <1>2, CreateEffect, PutEffect, DeleteAuthEffect, DeleteRoleEffect DEF RoleStep

(* Nobody is owed anything else when an activity is recorded, a run starts *)
(* or a sweep moves on.                                                    *)
LEMMA RegistryIdle ==
  ASSUME RoleInv, WorkInv, Names, AllSettled, UNCHANGED grantedVars,
         \A r \in RoleRun : roleRun[r].pc # "idle" =>
           /\ roleRun'[r] = roleRun[r]
           /\ RoleIn(r)' = RoleIn(r) /\ MembersIn(r)' = MembersIn(r),
         \A r \in RoleRun : roleRun'[r].via = roleRun[r].via,
         \A b \in Recorded : wanted'[b] = wanted[b]
  PROVE  Names' /\ AllSettled'
<1>1. UNCHANGED <<auth, roles, members, child, links, cover, overlap, grantingVars>>
  BY DEF grantedVars, regenerationVars
<1>2. \A l \in Leg : AtWork(l) => AtWork(l)' /\ Share(l)' = Share(l)
  BY <1>1 DEF AtWork, Share, Group, grantingVars
<1>3. \A p \in Agent : Steady(p)
  <2>. SUFFICES ASSUME NEW p \in Agent PROVE Steady(p)
    OBVIOUS
  <2>1. \A d \in DA : OwedByLeg(p, d) => OwedByLeg(p, d)'
    BY <1>1, <1>2, LegsOwe
  <2>2. \A d \in DA : /\ OwedByUpdate(p, d) => OwedByUpdate(p, d)'
                      /\ OwedByDeletion(p, d) => OwedByDeletion(p, d)'
                      /\ OwedByOwner(p, d) => OwedByOwner(p, d)'
    BY <1>1, RunsOwe
  <2>. QED  BY <1>1, <2>1, <2>2, SteadyRegistry
<1>4. AllSettled'
  BY <1>1, <1>3, AllSettledStay DEF WorkInv
<1>5. Recorded \subseteq Recorded'
  BY DEF Recorded
<1>6. \A q : Existed(q) => Existed(q)'
  BY <1>1, <1>5, ExistedStays
<1>7. Names'
  BY <1>1, <1>2, <1>6, NamesStay
<1>. QED  BY <1>4, <1>7

(* A service call.                                                         *)
LEMMA RecordRoleCurrent ==
  ASSUME RoleInv, CurrentInv, NEW a \in RoleActivity, NEW toBe, RecordRole(a, toBe)
  PROVE  CurrentInv'
<1>. SUFFICES ASSUME stale' = {} PROVE WorkInv' /\ Names' /\ AllSettled'
  BY DEF CurrentInv, AllSettled
<1>1. stale = {}
  BY DEF RecordRole
<1>2. WorkInv /\ Names /\ AllSettled
  BY <1>1 DEF CurrentInv, AllSettled
<1>3. /\ WorkInv'
      /\ \A r \in RoleRun : roleRun[r].pc # "idle" => /\ RoleIn(r)' = RoleIn(r)
                                                      /\ MembersIn(r)' = MembersIn(r)
      /\ \A b \in Recorded : wanted'[b] = wanted[b]
      /\ UNCHANGED <<grantedVars, roleRun, stale>>
  BY <1>2, RecordRoleWork
<1>. QED  BY <1>2, <1>3, RegistryIdle

(* A run starts, for a notification or for the sweep.                      *)
LEMMA StartRoleRunCurrent ==
  ASSUME RoleInv, CurrentInv, NEW r \in RoleRun, NEW a \in Recorded, StartRoleRun(r, a),
         UNCHANGED <<grantedVars, wanted, stale>>
  PROVE  CurrentInv'
<1>. SUFFICES ASSUME stale' = {} PROVE WorkInv' /\ Names' /\ AllSettled'
  BY DEF CurrentInv, AllSettled
<1>1. WorkInv /\ Names /\ AllSettled
  BY DEF CurrentInv, AllSettled
<1>2. /\ WorkInv'
      /\ roleRun[r].pc = "idle"
      /\ \A s \in RoleRun \ {r} : roleRun'[s] = roleRun[s]
      /\ roleRun'[r].via = roleRun[r].via
  BY <1>1, StartRoleRunWork
<1>3. \A s \in RoleRun : roleRun[s].pc # "idle" =>
        /\ roleRun'[s] = roleRun[s]
        /\ RoleIn(s)' = RoleIn(s) /\ MembersIn(s)' = MembersIn(s)
  BY <1>2 DEF RoleIn, MembersIn
<1>. QED  BY <1>1, <1>2, <1>3, RegistryIdle

(* Steps that touch no run and no activity.                                *)
LEMMA IdleCurrent ==
  ASSUME RoleInv, CurrentInv, UNCHANGED <<grantedVars, wanted, roleRun, stale>>
  PROVE  CurrentInv'
<1>. SUFFICES ASSUME stale' = {} PROVE WorkInv' /\ Names' /\ AllSettled'
  BY DEF CurrentInv, AllSettled
<1>1. WorkInv /\ Names /\ AllSettled
  BY DEF CurrentInv, AllSettled
<1>2. WorkInv'
  BY <1>1, IdleWork
<1>3. \A r \in RoleRun : RoleIn(r)' = RoleIn(r) /\ MembersIn(r)' = MembersIn(r)
  BY DEF RoleIn, MembersIn
<1>. QED  BY <1>1, <1>2, <1>3, RegistryIdle

(* The beginning: every agent holds what it is to hold, and every role     *)
(* somebody relies on is there.                                            *)
LEMMA InitCurrent ==
  ASSUME RoleInit
  PROVE  CurrentInv
<1>1. /\ \A c \in Child : child[c] = IdleChild /\ cover[c] = Owners
      /\ \A p \in Agent : links[p] = PastGrants(p)
      /\ \A l \in Leg : leg[l].pc = "idle"
      /\ \A r \in GrantRun : run[r].pc = "idle"
      /\ \A r \in RoleRun : roleRun[r].pc = "idle" /\ roleRun[r].via = {}
      /\ \A d \in auth : GranteeOf[d] \in Role => GranteeOf[d] \in roles
      /\ \A d \in auth : OwnerRole[d] # None => OwnerRole[d] \in roles
      /\ auth \subseteq DA
  BY StoredAssumption DEF RoleInit, IdleLeg, IdleRoleRun
<1>2. \A c \in Child : /\ child[c].pc = "idle" /\ child[c].todo = {} /\ child[c].new = {}
  BY <1>1 DEF IdleChild
<1>3. ASSUME NEW p \in Agent, NEW g \in links[p]
      PROVE  \E d \in AuthorizationsFor(p) : g = PastGrant(d, p)
  BY <1>1, <1>3 DEF PastGrants
<1>4. ASSUME NEW p \in Agent, NEW g \in links[p]
      PROVE  /\ AgentOf(g.by) = p /\ FromPast(g.by)
             /\ g.da \in AuthorizationsFor(p) /\ g.da \in DA
             /\ g = PastGrant(g.da, p) /\ g.by \in Child
  <2>1. PICK d \in AuthorizationsFor(p) : g = PastGrant(d, p)
    BY <1>3
  <2>2. g.da = d /\ g.by = <<<<Past, GranteeOf[d]>>, p>> /\ d \in DA
    BY <1>1, <2>1 DEF PastGrant, AuthorizationsFor
  <2>3. <<Past, GranteeOf[d]>> \in Parent
    BY <2>2, GranteeAssumption, RoleRunAssumption DEF Parent
  <2>. QED  BY <2>1, <2>2, <2>3 DEF AgentOf, FromPast, ParentOf, RunOf, Child
<1>5. ASSUME NEW p \in Agent PROVE Linked(p) = AuthorizationsFor(p)
  <2>1. ASSUME NEW d \in AuthorizationsFor(p) PROVE d \in Linked(p)
    <3>1. PastGrant(d, p) \in links[p] /\ PastGrant(d, p).da = d
      BY <1>1 DEF PastGrants, PastGrant
    <3>. QED  BY <3>1 DEF Linked
  <2>2. ASSUME NEW d \in Linked(p) PROVE d \in AuthorizationsFor(p)
    BY <1>4, <2>2 DEF Linked
  <2>. QED  BY <2>1, <2>2
<1>6. WorkInv
  <2>1. Owned /\ LinkBy /\ \A c \in Child : Accounts(c)
    BY <1>2, <1>4 DEF Owned, LinkBy, Accounts, OneEach
  <2>2. \A p \in Agent : OneEach(links[p])
    BY <1>4 DEF OneEach
  <2>3. \A p \in Agent : Alone(p)
    BY <1>2, <2>2 DEF Alone, AtMostOneActive, Active
  <2>4. LegsWork /\ RunsWork
    BY <1>1 DEF LegsWork, Over, RunsWork, Scanned
  <2>. QED  BY <2>1, <2>3, <2>4 DEF WorkInv, ChildrenWork
<1>7. Names
  <2>1. GranteesExist
    BY <1>1 DEF GranteesExist, Existed
  <2>2. SeenExist /\ ViasExist
    BY <1>1, <1>2 DEF SeenExist, Late, ViasExist
  <2>3. LinkedExist
    BY <1>1, <1>5 DEF LinkedExist, Known, Existed, AuthorizationsFor
  <2>. QED  BY <2>1, <2>2, <2>3 DEF Names
<1>8. ASSUME NEW p \in Agent PROVE Settled(p)
  <2>1. \A c \in Child : ~ Late(c)
    BY <1>2 DEF Late
  <2>2. Shows(p, Linked(p))
    BY <1>5 DEF Shows, MayShow, MayMiss
  <2>3. \A g \in links[p] : MayCover(p, g.da, cover[g.by][g.da])
    BY <1>1, <1>4 DEF MayCover
  <2>. QED  BY <2>1, <2>2, <2>3 DEF Settled
<1>. QED  BY <1>6, <1>7, <1>8 DEF CurrentInv

(* Every step of the specification.                                        *)
LEMMA NextCurrent ==
  ASSUME RoleInv, CurrentInv, [RoleNext]_roleSpecVars
  PROVE  CurrentInv'
<1>1. CASE Next /\ CoverMembers /\ UNCHANGED roleVars
  <2>. SUFFICES ASSUME stale' = {} PROVE WorkInv' /\ Names' /\ AllSettled'
    BY DEF CurrentInv, AllSettled
  <2>1. stale = {}
    BY <1>1 DEF roleVars
  <2>2. WorkInv /\ Names /\ AllSettled
    BY <2>1 DEF CurrentInv, AllSettled
  <2>. QED  BY <1>1, <2>2, NextWork, NextSettled
<1>2. ASSUME NEW q \in Role, NEW m, NEW a \in Creation \cup Update,
             RecordCreation(a, q, m) \/ RecordUpdate(a, q, m)
      PROVE  CurrentInv'
  BY <1>2, RecordRoleCurrent DEF RecordCreation, RecordUpdate, RoleActivity
<1>3. ASSUME NEW q \in Role, NEW a \in Deletion, RecordDeletion(a, q)
      PROVE  CurrentInv'
  BY <1>3, RecordRoleCurrent DEF RecordDeletion, RoleActivity
<1>4. ASSUME NEW a \in RoleActivity, NEW r \in RoleRun, DeliverRole(a, r)
      PROVE  CurrentInv'
  <2>1. a \in Recorded
    BY <1>4 DEF DeliverRole, RoleInv, RoleTypeOK, Recorded
  <2>. QED  BY <1>4, <2>1, StartRoleRunCurrent DEF DeliverRole
<1>5. ASSUME NEW r \in RoleRun, RerunRole(r)
      PROVE  CurrentInv'
  <2>1. PICK a \in roleSweep.todo : StartRoleRun(r, a)
    BY <1>5 DEF RerunRole
  <2>2. a \in Recorded
    BY DEF RoleInv, RoleRunsInv
  <2>. QED  BY <1>5, <2>1, <2>2, StartRoleRunCurrent DEF RerunRole
<1>6. ASSUME NEW r \in RoleRun, RoleStep(r)
      PROVE  CurrentInv'
  <2>. SUFFICES ASSUME Fresh PROVE WorkInv' /\ Names' /\ AllSettled'
    BY DEF CurrentInv, AllSettled, Fresh
  <2>1. WorkInv /\ Names /\ AllSettled
    BY <1>6, RoleStepsFresh DEF CurrentInv, AllSettled
  <2>. QED  BY <1>6, <2>1, RoleStepsWork, RoleStepsSettled
<1>7. CASE StartRoleSweep \/ FinishRerun
  BY <1>7, IdleCurrent DEF StartRoleSweep, FinishRerun
<1>8. CASE UNCHANGED roleSpecVars
  <2>1. UNCHANGED <<grantedVars, wanted, roleRun, stale>>
    BY <1>8 DEF roleSpecVars, vars, roleVars, grantedVars
  <2>. QED  BY <2>1, IdleCurrent
<1>. QED  BY <1>1, <1>2, <1>3, <1>4, <1>5, <1>6, <1>7, <1>8 DEF RoleNext

(* The invariant of the specification.                                     *)
LEMMA RoleSpecCurrent == RoleSpec => []CurrentInv
<1>1. RoleInit => CurrentInv
  BY InitCurrent
<1>2. RoleInv /\ CurrentInv /\ [RoleNext]_roleSpecVars => CurrentInv'
  BY NextCurrent
<1>. QED  BY <1>1, <1>2, RoleSpecInv, PTL DEF RoleSpec

(* At any moment, not only when all is over: a grant that an agent nobody  *)
(* works for is without will come from a leg or an update that has yet to  *)
(* start its children, and a grant it should no longer hold is about to be *)
(* taken away by an update or a deletion.                                  *)
DifferencesOwed ==
  stale = {} =>
    \A p \in Agent \ overlap :
      (\A c \in Child : AgentOf(c) = p => ~ Active(c)) =>
        /\ \A d \in AuthorizationsFor(p) \ Linked(p) : OwedByLeg(p, d) \/ OwedByUpdate(p, d)
        /\ \A d \in Linked(p) \ AuthorizationsFor(p) : OwedByUpdate(p, d) \/ OwedByDeletion(p, d)

(* Where a registration differs from the registry there is always a        *)
(* workflow on its way to regenerate it: no step of granting, of an update *)
(* or of a deletion, in any order, forgets what it still owes an agent.    *)
(* The exceptions are those of RegistrationsCurrent.                       *)
THEOREM DifferencesAlwaysOwed == RoleSpec => []DifferencesOwed
<1>1. RoleInv /\ CurrentInv => DifferencesOwed
  <2>. SUFFICES ASSUME RoleInv, WorkInv, NEW p \in Agent, Shows(p, Linked(p))
                PROVE  /\ \A d \in AuthorizationsFor(p) \ Linked(p) :
                            OwedByLeg(p, d) \/ OwedByUpdate(p, d)
                       /\ \A d \in Linked(p) \ AuthorizationsFor(p) :
                            OwedByUpdate(p, d) \/ OwedByDeletion(p, d)
    BY DEF CurrentInv, Settled, DifferencesOwed
  <2>1. Linked(p) \subseteq DA
    BY LinkedSettled DEF WorkInv, ChildrenWork, Linked
  <2>2. AuthorizationsFor(p) \subseteq DA
    BY DEF AuthorizationsFor, RoleInv, RoleTypeOK, TypeOK, RegenerationTypeOK
  <2>. QED  BY <2>1, <2>2 DEF Shows, MayShow, MayMiss
<1>. QED  BY <1>1, RoleSpecInv, RoleSpecCurrent, PTL

(* Whatever the order in which roles are created, changed and deleted      *)
(* while they are being granted something, once all runs are over every    *)
(* agent's registration links grants for what the registry authorizes and  *)
(* nothing else, and grants over a role's data cover its members of today: *)
(* createRole, processRoleMembershipChange and processRoleDeletion leave   *)
(* nobody out.  The exceptions are those of the property: overlapping      *)
(* regenerations and outdated readings of a role.                          *)
THEOREM RegistrationsAlwaysCurrent == RoleSpec => []RegistrationsCurrent
<1>1. RoleInv /\ CurrentInv => RegistrationsCurrent
  BY QuietCurrent DEF RegistrationsCurrent
<1>. QED  BY <1>1, RoleSpecInv, RoleSpecCurrent, PTL
=============================================================================
