---------------------------- MODULE RoleChanges ----------------------------
(***************************************************************************)
(* Roles created, changed and deleted while access is being granted.       *)
(*                                                                         *)
(* A service call reads the role, to be sure it is there, and records an   *)
(* activity that embeds the role as it is to be.  The workflow does the    *)
(* rest: it writes or deletes the role, finds the authorizations that use  *)
(* it, as grantee or as data owner, and regenerates the grants of every    *)
(* agent concerned before it completes the activity.  Who is concerned is  *)
(* worked out from what the workflow happens to read, so the module keeps  *)
(* track of the roles for which that reading was out of date.              *)
(***************************************************************************)
EXTENDS Granting

CONSTANTS Creation, Update, Deletion,   \* role activities, by class
          OwnerRole,    \* DA -> the role whose members' data it covers, or None
          RoleRun,      \* runs of the role workflows
          Past,         \* a run that ended before the behaviour begins
          Stored        \* authorizations that may be in force at the beginning

RoleActivity == Creation \cup Update \cup Deletion
RoleToBe == [role : Role, members : SUBSET Agent]

ASSUME RoleActivityAssumption ==
  /\ Creation \cap Update = {} /\ Creation \cap Deletion = {} /\ Update \cap Deletion = {}
  /\ None \notin RoleActivity \cup Role \cup RoleRun
  /\ None \notin RoleToBe
ASSUME OwnerRoleAssumption == OwnerRole \in [DA -> Role \cup {None}]
ASSUME RoleRunAssumption == /\ RoleRun \subseteq Run \ GrantRun
                            /\ Past \in Run \ (GrantRun \cup RoleRun)
ASSUME StoredAssumption == Stored \subseteq DA

VARIABLES wanted,      \* recorded role activity -> the role as it is to be
          roleDone,    \* role activities some completion targets
          roleInbox,   \* their notifications on the way
          roleRun,     \* role run -> its progress
          roleSweep,   \* a sweep over the role activities
          stale,       \* history: roles changed on the strength of an outdated reading
          cover        \* child -> authorization -> the data owners its grants cover

roleVars == <<wanted, roleDone, roleInbox, roleRun, roleSweep, stale>>
roleSpecVars == <<vars, roleVars, cover>>

RoleRunState ==
  [pc     : {"idle", "create", "load", "put", "usage", "authorizations", "delete",
             "spawn", "children", "done"},
   act    : RoleActivity \cup {None},
   before : SUBSET Agent,     \* members before the update
   used   : BOOLEAN,          \* usedAsGrantee
   via    : SUBSET Grantee,   \* affectedGrantees
   gone   : SUBSET DA,        \* authorizations still to delete
   to     : SUBSET Agent,     \* the agents regenerated
   kept   : BOOLEAN,          \* history: it took a failed read for a deleted role
   met    : SUBSET RoleRun]   \* history: updates that had read the role it deleted

IdleRoleRun == [pc |-> "idle", act |-> None, before |-> {}, used |-> FALSE,
                via |-> {}, gone |-> {}, to |-> {}, kept |-> FALSE, met |-> {}]

RoleTypeOK ==
  /\ TypeOK
  /\ wanted \in [RoleActivity -> RoleToBe \cup {None}]
  /\ roleInbox \cup roleDone \subseteq {a \in RoleActivity : wanted[a] # None}
  /\ roleRun \in [RoleRun -> RoleRunState]
  /\ roleSweep \in [todo : SUBSET RoleActivity, on : RoleRun \cup {None}]
  /\ stale \subseteq Role
  /\ cover \in [Child -> [DA -> SUBSET Agent]]

Recorded == {a \in RoleActivity : wanted[a] # None}
RoleIn(r) == wanted[roleRun[r].act].role
MembersIn(r) == wanted[roleRun[r].act].members

grantedVars == <<regenerationVars, grantingVars, cover>>

Goto(r, pc) == roleRun' = [roleRun EXCEPT ![r].pc = pc]

(* What role activities leave to granting.                                 *)
RegistryOnly == UNCHANGED <<registered, grants, acrs, links, cover, grantingVars>>

(* The members whose data an authorization covers.                         *)
Owners == [d \in DA |-> IF OwnerRole[d] = None THEN {} ELSE members[OwnerRole[d]]]

Generates(c) == child[c].pc = "generate" /\ child'[c].pc # "generate"

(* generateDataGrants: grants over a role's data are generated for each of *)
(* its members, and a role that is gone is an error.                       *)
CoverMembers ==
  /\ \A c \in Child : Generates(c) =>
       \A d \in child[c].seen : OwnerRole[d] # None => OwnerRole[d] \in roles
  /\ cover' = [c \in Child |-> IF Generates(c) THEN Owners ELSE cover[c]]

-----------------------------------------------------------------------------
(* Mutated: the webhook is told before the activity is written.            *)
RecordRoleUnwritten(a, toBe) ==
  /\ wanted[a] = None
  /\ roleInbox' = roleInbox \cup {a}
  /\ UNCHANGED <<grantedVars, wanted, roleDone, roleRun, roleSweep, stale>>

(* The service calls: an activity and its notification, nothing else.      *)
RecordRole(a, toBe) ==
  /\ wanted[a] = None
  /\ wanted' = [wanted EXCEPT ![a] = toBe]
  /\ roleInbox' = roleInbox \cup {a}
  /\ UNCHANGED <<grantedVars, roleDone, roleRun, roleSweep, stale>>

(* createRole: the id of the role-to-be is new.                            *)
RecordCreation(a, q, m) ==
  /\ q \notin roles
  /\ \A b \in Recorded : wanted[b].role # q
  /\ RecordRole(a, [role |-> q, members |-> m])

(* updateRole: the members it is to have.                                  *)
RecordUpdate(a, q, m) == q \in roles /\ RecordRole(a, [role |-> q, members |-> m])

(* deleteRole: a snapshot of the members it has.                           *)
RecordDeletion(a, q) == q \in roles /\ RecordRole(a, [role |-> q, members |-> members[q]])

FirstStep(a) == IF a \in Creation THEN "create" ELSE IF a \in Update THEN "load" ELSE "usage"

StartRoleRun(r, a) ==
  /\ roleRun[r].pc = "idle"
  /\ roleRun' = [roleRun EXCEPT ![r].pc = FirstStep(a), ![r].act = a]

DeliverRole(a, r) ==
  /\ a \in roleInbox
  /\ roleInbox' = roleInbox \ {a}
  /\ StartRoleRun(r, a)
  /\ UNCHANGED <<grantedVars, wanted, roleDone, roleSweep, stale>>

(* createRoleAtId: find-first, an existing role is left as it is; a role    *)
(* that has been deleted since comes back, which is too late for whoever    *)
(* was granted something through it.  Where the read fails for another      *)
(* reason the PUT is refused (If-None-Match) and the retry reads again.     *)
CreateRoleAtId(r) ==
  LET q == RoleIn(r)
      outdated == \E b \in Deletion \cap Recorded : wanted[b].role = q
  IN /\ roleRun[r].pc = "create"
     /\ \/ q \in roles /\ UNCHANGED <<roles, members, stale>>
        \/ /\ q \notin roles
           /\ roles' = roles \cup {q}
           /\ members' = [members EXCEPT ![q] = MembersIn(r)]
           /\ stale' = IF outdated THEN stale \cup {q} ELSE stale
     /\ Goto(r, "children")
     /\ RegistryOnly
     /\ UNCHANGED <<auth, child, lost, overlap, wanted, roleDone, roleInbox, roleSweep>>

(* updateRoleInRegistry: load the role, which must exist ...               *)
LoadRole(r) ==
  /\ roleRun[r].pc = "load"
  /\ RoleIn(r) \in roles
  /\ roleRun' = [roleRun EXCEPT ![r].pc = "put", ![r].before = members[RoleIn(r)]]
  /\ UNCHANGED <<grantedVars, wanted, roleDone, roleInbox, roleSweep, stale>>

(* ... and PUT it whole, whatever has become of it.  If the result is lost *)
(* the activity loads it again, with the new members already in place.     *)
(* Who leaves is missed by a deletion that has yet to ask for the members: *)
(* neither it nor the update's own scan will find them.                    *)
PutRole(r) ==
  LET q == RoleIn(r)
      missed == \E s \in RoleRun : /\ roleRun[s].act \in Deletion /\ q \in roleRun[s].via
                                   /\ roleRun[s].pc \in {"authorizations", "delete", "spawn"}
      outdated == q \notin roles \/ members[q] # roleRun[r].before \/ missed
  IN /\ roleRun[r].pc = "put"
     /\ roles' = roles \cup {q}
     /\ members' = [members EXCEPT ![q] = MembersIn(r)]
     /\ \/ /\ Goto(r, "usage")
           /\ stale' = IF outdated THEN stale \cup {q} ELSE stale
           /\ UNCHANGED lost
        \/ /\ Mishap
           /\ Goto(r, "load")
           /\ stale' = stale \cup {q}
     /\ RegistryOnly
     /\ UNCHANGED <<auth, child, overlap, wanted, roleDone, roleInbox, roleSweep>>

(* typeGrantee knows every one of them.                                     *)
Resolvable(grantees) == grantees \subseteq registered \cup roles

(* Mutated: a role nobody uses is left where it is.                         *)
FindUsedRole(r) ==
  LET q == RoleIn(r)
      asGrantee == {d \in auth : GranteeOf[d] = q}
      asOwner == {d \in auth : OwnerRole[d] = q /\ GranteeOf[d] # q}
      gone == IF roleRun[r].act \in Deletion THEN asGrantee \cup asOwner ELSE {}
  IN /\ roleRun[r].pc = "usage"
     /\ Resolvable({GranteeOf[d] : d \in asOwner})
     /\ roleRun' = [roleRun EXCEPT ![r].used = asGrantee # {},
                                   ![r].via = {GranteeOf[d] : d \in asOwner},
                                   ![r].gone = gone,
                                   ![r].pc = IF gone = {} THEN "spawn" ELSE "authorizations"]
     /\ UNCHANGED <<grantedVars, wanted, roleDone, roleInbox, roleSweep, stale>>

(* findRoleUsage: one scan of the authorizations; whoever is granted the    *)
(* members' data must be known.                                             *)
FindRoleUsage(r) ==
  LET q == RoleIn(r)
      asGrantee == {d \in auth : GranteeOf[d] = q}
      asOwner == {d \in auth : OwnerRole[d] = q /\ GranteeOf[d] # q}
      gone == IF roleRun[r].act \in Deletion THEN asGrantee \cup asOwner ELSE {}
      next == IF roleRun[r].act \in Update THEN "spawn"
              ELSE IF gone = {} THEN "delete" ELSE "authorizations"
  IN /\ roleRun[r].pc = "usage"
     /\ Resolvable({GranteeOf[d] : d \in asOwner})
     /\ roleRun' = [roleRun EXCEPT ![r].used = asGrantee # {},
                                   ![r].via = {GranteeOf[d] : d \in asOwner},
                                   ![r].gone = gone,
                                   ![r].pc = next]
     /\ UNCHANGED <<grantedVars, wanted, roleDone, roleInbox, roleSweep, stale>>

(* deleteAuthorizations: one DELETE after the other, 404 tolerated.  An      *)
(* update that has written the role and still has to look up who uses it    *)
(* will not find what is deleted here, and neither will a later one: the    *)
(* snapshot of the members has to hold everyone who loses access now.       *)
DeleteAuthorization(r) ==
  /\ roleRun[r].pc = "authorizations"
  /\ \E d \in roleRun[r].gone :
       LET q == GranteeOf[d]
           outdated == \/ q = RoleIn(r) /\ q \in roles /\ ~ (members[q] \subseteq MembersIn(r))
                       \/ \E s \in RoleRun : /\ roleRun[s].pc = "usage"
                                             /\ roleRun[s].act \in Update
                                             /\ RoleIn(s) = q
       IN /\ auth' = auth \ {d}
          /\ roleRun' = [roleRun EXCEPT ![r].gone = @ \ {d},
                                        ![r].pc = IF roleRun[r].gone = {d} THEN "delete" ELSE @]
          /\ stale' = IF outdated THEN stale \cup {q} ELSE stale
  /\ RegistryOnly
  /\ UNCHANGED <<roles, members, child, lost, overlap, wanted, roleDone, roleInbox, roleSweep>>

(* deleteRoleFromRegistry: skipped when the role is gone, and when reading  *)
(* it fails for any other reason.  The scan was out of date if the role has *)
(* been granted something since.                                            *)
DeleteRole(r) ==
  LET q == RoleIn(r)
      outdated == q \in roles /\ \E d \in auth : GranteeOf[d] = q
      reading == {s \in RoleRun : roleRun[s].pc = "put" /\ RoleIn(s) = q}
  IN /\ roleRun[r].pc = "delete"
     /\ \/ /\ roles' = roles \ {q}
           /\ stale' = IF outdated THEN stale \cup {q} ELSE stale
           /\ roleRun' = [roleRun EXCEPT ![r].pc = "spawn", ![r].met = reading]
        \/ /\ q \in roles
           /\ roleRun' = [roleRun EXCEPT ![r].pc = "spawn", ![r].kept = TRUE]
           /\ UNCHANGED <<roles, stale>>
     /\ RegistryOnly
     /\ UNCHANGED <<auth, members, child, lost, overlap, wanted, roleDone, roleInbox, roleSweep>>

(* Mutated: those who left are forgotten.                                   *)
SpawnForJoined(r) ==
  LET changed == IF roleRun[r].act \in Update
                 THEN MembersIn(r) \ roleRun[r].before
                 ELSE MembersIn(r)
      to == (IF roleRun[r].used THEN changed ELSE {})
              \cup UNION {AgentsIn(g) : g \in roleRun[r].via}
  IN /\ roleRun[r].pc = "spawn"
     /\ roleRun[r].via \cap Role \subseteq roles
     /\ StartChildren(<<r, RoleIn(r)>>, to)
     /\ roleRun' = [roleRun EXCEPT ![r].pc = "children", ![r].to = to]
     /\ RegistryOnly
     /\ UNCHANGED <<auth, roles, members, lost, wanted, roleDone, roleInbox, roleSweep, stale>>

(* The agents concerned: members who joined or left, every former member,   *)
(* and whoever is granted the members' data; getGrantees wants each role    *)
(* among those to exist.                                                    *)
SpawnChildren(r) ==
  LET changed == IF roleRun[r].act \in Update
                 THEN (roleRun[r].before \ MembersIn(r)) \cup (MembersIn(r) \ roleRun[r].before)
                 ELSE MembersIn(r)
      to == (IF roleRun[r].used THEN changed ELSE {})
              \cup UNION {AgentsIn(g) : g \in roleRun[r].via}
  IN /\ roleRun[r].pc = "spawn"
     /\ roleRun[r].via \cap Role \subseteq roles
     /\ StartChildren(<<r, RoleIn(r)>>, to)
     /\ roleRun' = [roleRun EXCEPT ![r].pc = "children", ![r].to = to]
     /\ RegistryOnly
     /\ UNCHANGED <<auth, roles, members, lost, wanted, roleDone, roleInbox, roleSweep, stale>>

(* Mutated: waits for a child of every member, started or not.              *)
MarkDoneAfterAll(r) ==
  /\ roleRun[r].pc = "children"
  /\ \A p \in roleRun[r].to \cup MembersIn(r) : child[<<<<r, RoleIn(r)>>, p>>].pc = "done"
  /\ roleDone' = roleDone \cup {roleRun[r].act}
  /\ Goto(r, "done")
  /\ UNCHANGED <<grantedVars, wanted, roleInbox, roleSweep, stale>>

(* markActivitiesDone, after every child.                                   *)
MarkRoleDone(r) ==
  /\ roleRun[r].pc = "children"
  /\ \A p \in roleRun[r].to : child[<<<<r, RoleIn(r)>>, p>>].pc = "done"
  /\ roleDone' = roleDone \cup {roleRun[r].act}
  /\ Goto(r, "done")
  /\ UNCHANGED <<grantedVars, wanted, roleInbox, roleSweep, stale>>

(* reconcileActivities: the pending role activities, read once, are run     *)
(* again one by one, creations first, each marked done again after its run. *)
(* The sweep of the granting activities is another one that knows nothing   *)
(* of this one.                                                             *)
StartRoleSweep ==
  /\ roleSweep.todo = {} /\ roleSweep.on = None
  /\ Recorded \ roleDone # {}
  /\ roleSweep' = [roleSweep EXCEPT !.todo = Recorded \ roleDone]
  /\ UNCHANGED <<grantedVars, wanted, roleDone, roleInbox, roleRun, stale>>

RerunRole(r) ==
  /\ roleSweep.on = None
  /\ \E a \in roleSweep.todo :
       /\ roleSweep.todo \cap Creation # {} => a \in Creation
       /\ StartRoleRun(r, a)
       /\ roleSweep' = [todo |-> roleSweep.todo \ {a}, on |-> r]
  /\ UNCHANGED <<grantedVars, wanted, roleDone, roleInbox, stale>>

FinishRerun ==
  /\ roleSweep.on # None
  /\ roleRun[roleSweep.on].pc = "done"
  /\ roleDone' = roleDone \cup {roleRun[roleSweep.on].act}
  /\ roleSweep' = [roleSweep EXCEPT !.on = None]
  /\ UNCHANGED <<grantedVars, wanted, roleInbox, roleRun, stale>>

-----------------------------------------------------------------------------
RoleStep(r) == \/ CreateRoleAtId(r)
               \/ LoadRole(r)
               \/ PutRole(r)
               \/ FindRoleUsage(r)
               \/ DeleteAuthorization(r)
               \/ DeleteRole(r)
               \/ SpawnChildren(r)
               \/ MarkRoleDone(r)

(* The grants an agent holds from before, linked and readable.             *)
PastGrant(d, p) == [da |-> d, by |-> <<<<Past, GranteeOf[d]>>, p>>, attempt |-> 1]
PastGrants(p) == {PastGrant(d, p) : d \in AuthorizationsFor(p)}

RoleInit ==
  /\ auth \in SUBSET Stored
  /\ roles \in SUBSET Role
  /\ \A d \in auth : GranteeOf[d] \in Role => GranteeOf[d] \in roles
  /\ \A d \in auth : OwnerRole[d] # None => OwnerRole[d] \in roles
  /\ members \in [Role -> SUBSET (Agent \ Application)]
  /\ \A q \in Role \ roles : members[q] = {}
  /\ registered \in SUBSET Agent
  /\ \A p \in Agent : AuthorizationsFor(p) # {} => p \in registered
  /\ links = [p \in Agent |-> PastGrants(p)]
  /\ grants = UNION {PastGrants(p) : p \in Agent}
  /\ acrs = grants
  /\ child = [c \in Child |-> IdleChild]
  /\ lost = 0
  /\ overlap = {}
  /\ outbox = {} /\ done = {} /\ inbox = {}
  /\ run = [r \in GrantRun |-> [pc |-> "idle", act |-> None]]
  /\ leg = [p \in Leg |-> IdleLeg]
  /\ sweep = [pc |-> "off", todo |-> {}, on |-> None]
  /\ wanted = [a \in RoleActivity |-> None]
  /\ roleDone = {} /\ roleInbox = {}
  /\ roleRun = [r \in RoleRun |-> IdleRoleRun]
  /\ roleSweep = [todo |-> {}, on |-> None]
  /\ stale = {}
  /\ cover = [c \in Child |-> Owners]

RoleNext ==
  \/ Next /\ CoverMembers /\ UNCHANGED roleVars
  \/ \E q \in Role, m \in SUBSET (Agent \ Application) :
       \/ \E a \in Creation : RecordCreation(a, q, m)
       \/ \E a \in Update : RecordUpdate(a, q, m)
  \/ \E q \in Role, a \in Deletion : RecordDeletion(a, q)
  \/ \E a \in RoleActivity, r \in RoleRun : DeliverRole(a, r)
  \/ \E r \in RoleRun : RoleStep(r) \/ RerunRole(r)
  \/ StartRoleSweep
  \/ FinishRerun

RoleSpec == RoleInit /\ [][RoleNext]_roleSpecVars

(* The same promise as for granting, for role runs too.                    *)
RoleFairness ==
  /\ \A p \in Leg : WF_roleSpecVars(LegStep(p) /\ CoverMembers /\ UNCHANGED roleVars)
  /\ \A c \in Child :
       WF_roleSpecVars(ChildStep(c) /\ CoverMembers /\ UNCHANGED <<grantingVars, roleVars>>)
  /\ \A r \in GrantRun : WF_roleSpecVars(MarkDone(r) /\ CoverMembers /\ UNCHANGED roleVars)
  /\ \A r \in RoleRun : WF_roleSpecVars(RoleStep(r))

FairRoleSpec == RoleSpec /\ RoleFairness

-----------------------------------------------------------------------------
RolesQuiet ==
  /\ Quiet
  /\ \A r \in RoleRun : roleRun[r].pc \in {"idle", "done"}
  /\ roleSweep = [todo |-> {}, on |-> None]

(* A role that is granted its own members' data is not among the grantees   *)
(* findRoleUsage returns, so those who stay are not regenerated.            *)
Current(p) == /\ {g.da : g \in links[p]} = AuthorizationsFor(p)
              /\ \A g \in links[p] : OwnerRole[g.da] # GranteeOf[g.da]
                                       => cover[g.by][g.da] = Owners[g.da]

(* Whatever the order in which roles are created, changed and deleted while  *)
(* they are being granted something: when all runs are over, every agent's   *)
(* registration links grants for what the registry authorizes, no more and   *)
(* no less, and those over a role's data cover the members it has now.       *)
(* Nobody who joined is forgotten, nobody who left keeps a link.             *)
(* Excepted are the agents whose regenerations overlapped, and behaviours in *)
(* which a workflow relied on an outdated reading of a role or a creation    *)
(* brought back a role deleted since.                                        *)
RegistrationsCurrent ==
  RolesQuiet /\ stale = {} => \A p \in Agent \ overlap : Current(p)

(* Why a deleted role may be back: its creation ran a second time, an        *)
(* update that had read it before the DELETE has yet to write it or wrote it *)
(* after, or the deletion could not read it and took it for gone.            *)
CreatedTwice(q) ==
  \E r, s \in RoleRun :
    /\ r # s
    /\ roleRun[r].act \in Creation /\ roleRun[s].act = roleRun[r].act
    /\ RoleIn(r) = q
    /\ {roleRun[r].pc, roleRun[s].pc} \cap {"idle", "create"} = {}

DeletionMissed(q) ==
  \E r \in RoleRun : /\ roleRun[r].act \in Deletion /\ RoleIn(r) = q
                      /\ (roleRun[r].kept \/ roleRun[r].met # {})

(* A role whose deletion is completed is gone (deleteRoleFromRegistry runs   *)
(* before the completion), and no update that begins later brings it back,   *)
(* nor does a rerun of the deletion or of an older update.  The exceptions   *)
(* are a second run of its creation (createRoleAtId finds the role missing   *)
(* and creates it), an update caught between its read and its write, and a   *)
(* deletion that took a failed read for an absence.                          *)
DeletedRoleGone ==
  \A x \in Deletion \cap roleDone :
    LET q == wanted[x].role IN q \in roles => CreatedTwice(q) \/ DeletionMissed(q)

(* Why a run of a role workflow may never end: its role is missing, somebody *)
(* who is granted the members' data is missing, or a child wants to load an *)
(* authorization or a role that is gone, repeats a refused PUT or meets     *)
(* another failure that is there at every attempt.                          *)
RoleRunStuck(r) ==
  \/ roleRun[r].pc = "load" /\ RoleIn(r) \notin roles
  \/ /\ roleRun[r].pc = "usage"
     /\ \E d \in auth : /\ OwnerRole[d] = RoleIn(r) /\ GranteeOf[d] # RoleIn(r)
                        /\ ~ Resolvable({GranteeOf[d]})
  \/ roleRun[r].pc = "spawn" /\ ~ (roleRun[r].via \cap Role \subseteq roles)
  \/ /\ roleRun[r].pc = "children"
     /\ \E p \in roleRun[r].to :
          LET c == <<<<r, RoleIn(r)>>, p>>
          IN \/ /\ child[c].pc = "generate"
                /\ \/ ~ (child[c].seen \subseteq auth)
                   \/ \E d \in child[c].seen : OwnerRole[d] \in Role \ roles
             \/ Wedged(c)
             \/ ChildFails(c)

(* Whatever else is at work, a role workflow ends but for those failures:    *)
(* runs, sweeps and children do not wait for each other.                     *)
RoleRunsComplete ==
  \A r \in RoleRun : roleRun[r].pc # "idle" ~> (roleRun[r].pc = "done" \/ RoleRunStuck(r))

(* What the comment on processRoleMembershipChange says, that running it     *)
(* again is harmless: with one change of one role, and no two regenerations  *)
(* of an agent at once, the registrations end up current.                    *)
RerunIsIdempotent == RolesQuiet => \A p \in Agent \ overlap : Current(p)
=============================================================================
