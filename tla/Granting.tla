----------------------------- MODULE Granting -----------------------------
(***************************************************************************)
(* Granting access, from the recorded activity to its completion.          *)
(*                                                                         *)
(* recordAuthorization writes an AuthorizationGranted activity that embeds *)
(* the data authorizations to be.  The registry notifies the webhook at    *)
(* most once; the webhook starts a run of processAuthorizationGranted.  A  *)
(* run has one leg per grantee among the embedded authorizations: store    *)
(* the authorizations, find out who the grantee is, regenerate the grants  *)
(* of every agent it stands for.  When all legs are through the run marks  *)
(* the activity done.  reconcileActivities does the same for whatever is   *)
(* still pending, beside runs that may be working on it already.           *)
(***************************************************************************)
EXTENDS Regeneration

CONSTANTS Activity,       \* the AuthorizationGranted activities of a behaviour
          Carries,        \* activity -> the data authorizations it embeds
          GrantRun        \* runs of processAuthorizationGranted

ASSUME CarriesAssumption ==
  /\ Carries \in [Activity -> SUBSET DA]
  /\ \A a, b \in Activity : a # b => Carries[a] \cap Carries[b] = {}
ASSUME GrantRunAssumption == /\ GrantRun \subseteq Run
                             /\ None \notin Activity \cup GrantRun

(* One leg of a run: one child processGranteeAuthorization.                *)
Leg == GrantRun \X Grantee

VARIABLES outbox,     \* activities in the ActivityRegistry
          done,       \* activities some ActivityCompleted targets
          inbox,      \* notifications on their way to the webhook
          run,        \* run -> its progress and its activity
          leg,        \* leg -> progress of one grantee's leg
          sweep       \* the reconciliation sweep

grantingVars == <<outbox, done, inbox, run, leg, sweep>>
vars == <<regenerationVars, grantingVars>>

RunState == [pc : {"idle", "running", "done"}, act : Activity \cup {None}]
LegState == [pc   : {"idle", "materialize", "resolve", "fanout", "children", "done"},
             todo : SUBSET DA,
             to   : SUBSET Agent]
SweepState == [pc   : {"off", "loop", "child"},
               todo : SUBSET Activity,
               on   : GrantRun \cup {None}]

IdleLeg == [pc |-> "idle", todo |-> {}, to |-> {}]

TypeOK ==
  /\ RegenerationTypeOK
  /\ outbox \subseteq Activity
  /\ done \subseteq outbox
  /\ inbox \subseteq outbox
  /\ run \in [GrantRun -> RunState]
  /\ leg \in [Leg -> LegState]
  /\ sweep \in SweepState

RunOf(p) == p[1]
GranteeIn(p) == p[2]

(* One leg's share of an activity.                                         *)
Group(a, g) == {d \in Carries[a] : GranteeOf[d] = g}
Share(p) == Group(run[RunOf(p)].act, GranteeIn(p))

-----------------------------------------------------------------------------
(* recordAuthorization; the registry emits one Add notification, posted    *)
(* once.  A notification that gets lost is one that is never delivered.    *)
RecordAuthorization(a) ==
  /\ a \notin outbox
  /\ outbox' = outbox \cup {a}
  /\ inbox' = inbox \cup {a}
  /\ UNCHANGED <<regenerationVars, done, run, leg, sweep>>

(* processAuthorizationGranted begins: one child per grantee group.        *)
StartRun(r, a) ==
  /\ run[r].pc = "idle"
  /\ run' = [run EXCEPT ![r] = [pc |-> "running", act |-> a]]
  /\ leg' = [p \in Leg |->
               IF RunOf(p) = r /\ Group(a, GranteeIn(p)) # {}
               THEN [IdleLeg EXCEPT !.pc = "materialize", !.todo = Group(a, GranteeIn(p))]
               ELSE leg[p]]

(* The webhook dispatches the activity under a random workflow id.         *)
Deliver(a, r) ==
  /\ a \in inbox
  /\ inbox' = inbox \ {a}
  /\ StartRun(r, a)
  /\ UNCHANGED <<regenerationVars, outbox, done, sweep>>

(* Mutated: an authorization is taken to be there already.                  *)
SkipAuthorization(p, d) ==
  /\ leg[p].pc = "materialize"
  /\ d \in leg[p].todo
  /\ leg' = [leg EXCEPT ![p].todo = @ \ {d},
                        ![p].pc = IF leg[p].todo = {d} THEN "resolve" ELSE @]
  /\ UNCHANGED <<regenerationVars, outbox, done, inbox, run, sweep>>

(* storeDataAuthorizations, one HEAD and PUT of its loop: an existing      *)
(* resource is skipped.  A retried activity starts the loop again.         *)
StoreAuthorization(p, d) ==
  /\ leg[p].pc = "materialize"
  /\ d \in leg[p].todo
  /\ auth' = auth \cup {d}
  /\ LET rest == leg[p].todo \ {d}
     IN \/ /\ leg' = [leg EXCEPT ![p].todo = rest,
                                 ![p].pc = IF rest = {} THEN "resolve" ELSE @]
           /\ UNCHANGED lost
        \/ Mishap /\ leg' = [leg EXCEPT ![p].todo = Share(p)]
  /\ UNCHANGED <<roles, members, registered, grants, acrs, links, child, overlap,
                 outbox, done, inbox, run, sweep>>

(* Mutated: roles are not looked up.                                        *)
ResolveAgent(p) ==
  LET g == GranteeIn(p)
  IN /\ leg[p].pc = "resolve"
     /\ g \in registered \cup Application
     /\ registered' = registered \cup ({g} \cap Application)
     /\ leg' = [leg EXCEPT ![p].pc = "fanout"]
     /\ UNCHANGED <<auth, roles, members, grants, acrs, links, child, lost, overlap,
                    outbox, done, inbox, run, sweep>>

(* resolveAuthorizationGrantee: a registered agent or a role; an unknown   *)
(* application is registered, any other unknown grantee is an error.       *)
ResolveGrantee(p) ==
  LET g == GranteeIn(p)
  IN /\ leg[p].pc = "resolve"
     /\ g \in registered \cup roles \cup Application
     /\ registered' = registered \cup ({g} \cap Application)
     /\ leg' = [leg EXCEPT ![p].pc = "fanout"]
     /\ UNCHANGED <<auth, roles, members, grants, acrs, links, child, lost, overlap,
                    outbox, done, inbox, run, sweep>>

(* createGrantsForAuthorization: getGrantees, which refuses a missing      *)
(* role, then one child per agent.                                         *)
FanOut(p) ==
  LET g == GranteeIn(p)
      agents == IF g \in Role THEN members[g] ELSE {g}
  IN /\ leg[p].pc = "fanout"
     /\ g \in Role => g \in roles
     /\ StartChildren(p, agents)
     /\ leg' = [leg EXCEPT ![p].pc = "children", ![p].to = agents]
     /\ UNCHANGED <<store, grants, acrs, links, lost, outbox, done, inbox, run, sweep>>

(* Mutated: the children are started and not awaited.                       *)
JoinAtOnce(p) ==
  /\ leg[p].pc = "children"
  /\ leg' = [leg EXCEPT ![p].pc = "done"]
  /\ UNCHANGED <<regenerationVars, outbox, done, inbox, run, sweep>>

(* Promise.all over the children of a leg.                                 *)
JoinChildren(p) ==
  /\ leg[p].pc = "children"
  /\ \A a \in leg[p].to : child[<<p, a>>].pc = "done"
  /\ leg' = [leg EXCEPT ![p].pc = "done"]
  /\ UNCHANGED <<regenerationVars, outbox, done, inbox, run, sweep>>

(* markActivitiesDone once all legs are through.  A repeated completion is *)
(* one more resource with the same target.                                 *)
MarkDone(r) ==
  /\ run[r].pc = "running"
  /\ \A p \in Leg : RunOf(p) = r => leg[p].pc \in {"idle", "done"}
  /\ done' = done \cup {run[r].act}
  /\ \/ run' = [run EXCEPT ![r].pc = "done"] /\ UNCHANGED lost
     \/ Mishap /\ UNCHANGED run
  /\ UNCHANGED <<store, grants, acrs, links, child, overlap, outbox, inbox, leg, sweep>>

(* reconcileActivities reads the pending activities once ...               *)
StartSweep ==
  /\ sweep.pc = "off"
  /\ outbox \ done # {}
  /\ sweep' = [sweep EXCEPT !.pc = "loop", !.todo = outbox \ done]
  /\ UNCHANGED <<regenerationVars, outbox, done, inbox, run, leg>>

(* ... runs the workflow of each as a child, one after the other ...       *)
SweepNext(r) ==
  /\ sweep.pc = "loop"
  /\ \E a \in sweep.todo :
       /\ StartRun(r, a)
       /\ sweep' = [sweep EXCEPT !.pc = "child", !.on = r]
  /\ UNCHANGED <<regenerationVars, outbox, done, inbox>>

(* ... and marks each done again after its child.                          *)
SweepMarkDone ==
  /\ sweep.pc = "child"
  /\ run[sweep.on].pc = "done"
  /\ LET a == run[sweep.on].act
         rest == sweep.todo \ {a}
     IN /\ done' = done \cup {a}
        /\ sweep' = [pc |-> IF rest = {} THEN "off" ELSE "loop",
                     todo |-> rest, on |-> None]
  /\ UNCHANGED <<regenerationVars, outbox, inbox, run, leg>>

-----------------------------------------------------------------------------
Init ==
  /\ RegenerationInit
  /\ roles = Role
  /\ members \in [Role -> SUBSET (Agent \ Application)]
  /\ registered \in SUBSET (Agent \ Application)
  /\ outbox = {}
  /\ done = {}
  /\ inbox = {}
  /\ run = [r \in GrantRun |-> [pc |-> "idle", act |-> None]]
  /\ leg = [p \in Leg |-> IdleLeg]
  /\ sweep = [pc |-> "off", todo |-> {}, on |-> None]

LegStep(p) == \/ \E d \in DA : StoreAuthorization(p, d)
              \/ ResolveGrantee(p)
              \/ FanOut(p)
              \/ JoinChildren(p)

Next ==
  \/ \E a \in Activity : RecordAuthorization(a)
  \/ \E a \in Activity, r \in GrantRun : Deliver(a, r)
  \/ \E p \in Leg : LegStep(p)
  \/ \E c \in Child : ChildStep(c) /\ UNCHANGED grantingVars
  \/ \E r \in GrantRun : MarkDone(r) \/ SweepNext(r)
  \/ StartSweep
  \/ SweepMarkDone

Spec == Init /\ [][Next]_vars

(* Temporal keeps scheduling a started workflow, and retries a failed      *)
(* activity without limit.  Nobody promises that an activity is recorded,  *)
(* that its notification arrives or that a sweep is ever started.          *)
Fairness ==
  /\ \A p \in Leg : WF_vars(LegStep(p))
  /\ \A c \in Child : WF_vars(ChildStep(c) /\ UNCHANGED grantingVars)
  /\ \A r \in GrantRun : WF_vars(MarkDone(r))
  /\ WF_vars(SweepMarkDone)

FairSpec == Spec /\ Fairness

-----------------------------------------------------------------------------
(* Every authorization of the activity is stored, and every agent it       *)
(* reaches has a grant for it, complete with an ACR.                        *)
InForce(a) ==
  /\ Carries[a] \subseteq auth
  /\ \A d \in Carries[a] : \A p \in AgentsOf(d) :
       \E g \in acrs : g.da = d /\ AgentOf(g.by) = p

(* A completed activity is in force: no retry, lost result, sweep or       *)
(* second run marks it done while an authorization or an agent's grant is  *)
(* still missing (markActivitiesDone comes after every child).             *)
DoneMeansInForce == \A a \in done : InForce(a)

(* A registration links only grants that are stored, were generated for    *)
(* that agent and have their ACR (written before the PATCH), and an         *)
(* application is never refused one of them.  A peer is, when discovering  *)
(* its authorization agent failed as the ACR was last written: createAcr    *)
(* swallows that failure and names somebody else (activities/grants.ts:385- *)
(* 388), and nothing looks at the ACR again.                                *)
LinkedGrantsUsable ==
  \A p \in Agent : \A g \in links[p] :
    /\ g \in grants \cap acrs
    /\ AgentOf(g.by) = p
    /\ p \in Application => Readable(g)

(* What ties a leg to its run, to the registry and to its children.        *)
AgentsIn(g) == IF g \in Role THEN members[g] ELSE {g}

LegsInv ==
  \A p \in Leg :
    /\ leg[p].pc = "idle" <=> (run[RunOf(p)].pc = "idle" \/ Share(p) = {})
    /\ leg[p].pc = "materialize" => /\ leg[p].todo \subseteq Share(p)
                                    /\ Share(p) \ leg[p].todo \subseteq auth
    /\ leg[p].pc \notin {"idle", "materialize"} => Share(p) \subseteq auth
    /\ leg[p].pc \in {"children", "done"} => leg[p].to = AgentsIn(GranteeIn(p))
    /\ leg[p].pc = "children" => \A a \in leg[p].to : child[<<p, a>>].pc # "idle"
    /\ leg[p].pc = "done" => \A a \in leg[p].to : child[<<p, a>>].pc = "done"

(* A child works for a leg, and from a snapshot that holds the leg's share. *)
ChildrenInv ==
  \A c \in Child : child[c].pc # "idle" =>
    /\ ParentOf(c) \in Leg
    /\ leg[ParentOf(c)].pc \in {"children", "done"}
    /\ AgentOf(c) \in leg[ParentOf(c)].to
    /\ child[c].pc # "authorizations" => Share(ParentOf(c)) \subseteq child[c].seen

(* What is linked was generated for the agent and has its ACR.              *)
LinksInv ==
  \A p \in Agent : \A g \in links[p] : g \in grants \cap acrs /\ AgentOf(g.by) = p

(* Every authorization seen is either still to do or granted.               *)
GrantsInv ==
  /\ acrs \subseteq grants
  /\ \A c \in Child :
      /\ \A g \in child[c].new : g \in acrs /\ g.by = c
      /\ AgentOf(c) \in Application => child[c].blind = {}
      /\ child[c].pc \in {"store", "acr", "delegate"} => child[c].cur \in child[c].todo
      /\ child[c].pc = "acr" => GrantOf(c, 1) \in grants
      /\ child[c].pc \in {"read", "patch", "done"} => child[c].todo = {}
      /\ child[c].pc \notin {"idle", "authorizations", "generate", "failing"} =>
           \A d \in child[c].seen : d \in child[c].todo \/ \E g \in child[c].new : g.da = d

RunsInv ==
  /\ roles = Role
  /\ \A r \in GrantRun : run[r].pc # "idle" => run[r].act \in outbox
  /\ sweep.pc = "child" => sweep.on \in GrantRun /\ run[sweep.on].pc # "idle"
  /\ \A r \in GrantRun : run[r].pc = "done" => run[r].act \in done
  /\ sweep.todo \subseteq outbox

(* The inductive invariant behind the two properties above: usable links    *)
(* follow from LinksInv and GrantsInv.                                      *)
Inv == /\ TypeOK
       /\ LegsInv
       /\ ChildrenInv
       /\ GrantsInv
       /\ LinksInv
       /\ RunsInv
       /\ DoneMeansInForce

Quiet == /\ \A r \in GrantRun : run[r].pc # "running"
         /\ sweep.pc = "off"

(* When all runs are over, the registration of an agent whose               *)
(* regenerations never overlapped shows exactly what the registry           *)
(* authorizes: one linked grant per authorization, and no older one         *)
(* (replaceDataGrantsOnRegistration replaces the whole set).                *)
SerialRegenerationExact ==
  Quiet => \A p \in Agent \ overlap :
             /\ {g.da : g \in links[p]} \subseteq AuthorizationsFor(p)
             /\ \A d \in AuthorizationsFor(p) : \E g \in links[p] :
                  g.da = d /\ \A h \in links[p] : h.da = d => h = g

(* Nobody's regeneration takes away what another one is still adding: the   *)
(* links of an agent keep every grant of some child that has read them     *)
(* (replaceDataGrants removes only links it has read).  That is so while    *)
(* at most one of the agent's children has had a PATCH applied and its      *)
(* result lost: two such children may each have read the other's grants     *)
(* beside their own, and then each removes the other's and adds nothing.    *)
PatchedAgainOnce(p) ==
  \A c, d \in Child : (AgentOf(c) = p /\ child[c].again) /\ (AgentOf(d) = p /\ child[d].again)
                      => c = d

LastPatchKept ==
  \A p \in Agent :
    PatchedAgainOnce(p) /\ (\E c \in Child : AgentOf(c) = p /\ child[c].pc = "done")
      => \E c \in Child : /\ AgentOf(c) = p /\ child[c].pc \in {"read", "patch", "done"}
                          /\ child[c].new \subseteq links[p]

(* The outbox as its users see it: recorded, in effect, completed.          *)
Promise == INSTANCE Outbox WITH recorded <- outbox, completed <- done,
                                effected <- {a \in outbox : InForce(a)}
KeepsPromise == Promise!Spec

(* A child whose grant was stored although its result was lost: the PUT is  *)
(* refused from then on.                                                    *)
Wedged(c) == child[c].pc = "store" /\ GrantOf(c, 1) \in grants

(* Why else a run may never end: a child of it meets a failure that is      *)
(* there at every attempt, or its agent has no registration; or nobody      *)
(* knows the grantee of one of its legs.                                    *)
ChildFails(c) == \/ child[c].pc = "failing"
                 \/ child[c].pc = "generate" /\ AgentOf(c) \notin registered

LegFails(p) ==
  leg[p].pc = "resolve" /\ GranteeIn(p) \notin registered \cup roles \cup Application

RunFails(r) == \/ \E p \in Leg : RunOf(p) = r /\ LegFails(p)
               \/ \E c \in Child : RunOf(ParentOf(c)) = r /\ ChildFails(c)

(* A run that was started is completed, whatever results are lost and       *)
(* whatever else is at work on the same agents, unless one of its own      *)
(* children repeats a refused PUT or it meets one of those failures, which *)
(* retrying does not cure.                                                 *)
RunsComplete ==
  \A r \in GrantRun : run[r].pc = "running" ~>
    \/ run[r].pc = "done"
    \/ \E c \in Child : RunOf(ParentOf(c)) = r /\ Wedged(c)
    \/ RunFails(r)

(* What openwiki/temporal/workflows.md says of every activity, that retries *)
(* are safe: a run that was started completes its activity, unless it meets *)
(* a failure that is there with or without retries.                        *)
RetriesAreSafe ==
  \A r \in GrantRun : run[r].pc = "running" ~> (run[r].pc = "done" \/ RunFails(r))
=============================================================================
