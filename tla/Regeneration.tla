--------------------------- MODULE Regeneration ---------------------------
(***************************************************************************)
(* The child workflow createGrantsForAgent and the part of the owner's     *)
(* store it works on.  Every workflow that changes what an agent may see   *)
(* ends in runs of this child, one per affected agent: read all of the     *)
(* agent's authorizations, generate fresh grants for them, store each      *)
(* grant and its ACR, ask other data owners for the delegated ones, and    *)
(* point the agent's registration at the new set.  Old grants stay in the  *)
(* store (the calls deleting them are commented out), only the links move. *)
(*                                                                         *)
(* Each step is one Temporal activity or the read or write inside one.  A  *)
(* worker may crash after a write and before its result is recorded; the   *)
(* server then runs the activity again.  That is a "lost" result: the      *)
(* write happens and the step stays where it was.  A lost result, a request *)
(* whose failure the code swallows and an activity that fails for good are *)
(* the mishaps that MaxLost bounds.                                        *)
(***************************************************************************)
EXTENDS Naturals

CONSTANTS Agent,          \* social agents and applications that may be grantees
          Role,           \* roles: named groups of agents
          Application,    \* agents that are applications
          DA,             \* data authorizations, known by their pre-minted ids
          GranteeOf,      \* DA -> the agent or the role it authorizes
          DelegatedDA,    \* those over data somebody else owns and granted before
          Run,            \* runs of the workflows that start the child
          None,           \* no authorization
          MaxLost         \* bound: mishaps in one behaviour

Grantee == Agent \cup Role

ASSUME GranteeAssumption == /\ Agent \cap Role = {}
                            /\ GranteeOf \in [DA -> Grantee]
ASSUME ApplicationAssumption == Application \subseteq Agent
ASSUME DAAssumption == /\ DelegatedDA \subseteq DA
                       /\ None \notin DA
ASSUME LostAssumption == MaxLost \in Nat

(* A child is identified by the leg of the run that executes it and the    *)
(* agent it is for; one run may regenerate an agent once per grantee.      *)
Parent == Run \X Grantee
Child == Parent \X Agent
ParentOf(c) == c[1]
AgentOf(c) == c[2]

(* A grant: the authorization it is generated from, the child that asked   *)
(* for it and the attempt (ids are random, so a repeated delegation        *)
(* request yields another resource).                                       *)
Grant == [da : DA, by : Child, attempt : 1 .. MaxLost + 1]

VARIABLES auth,        \* data authorizations in the AuthorizationRegistry
          roles,       \* roles in the RoleRegistry
          members,     \* role -> its members
          registered,  \* agents with a registration in the AgentRegistry
          grants,      \* grant resources stored, here or at the data owner
          acrs,        \* grants that have their access control resource (ACR)
          links,       \* agent -> hasDataGrant of its registration
          child,       \* child -> its progress
          lost,        \* results lost and requests failed so far
          overlap      \* history: agents that had two children at work at once

store == <<auth, roles, members, registered>>
regenerationVars == <<auth, roles, members, registered, grants, acrs, links,
                      child, lost, overlap>>

ChildState ==
  [pc    : {"idle", "authorizations", "generate", "store", "acr", "delegate",
            "read", "patch", "failing", "done"},
   seen  : SUBSET DA,         \* the authorizations it works from
   todo  : SUBSET DA,         \* those without a new grant yet
   cur   : DA \cup {None},    \* the one being granted
   new   : SUBSET Grant,      \* newGrantIds
   blind : SUBSET Grant,      \* grants of it whose ACR does not name the agent
   read  : SUBSET Grant,      \* the links replaceDataGrants read
   again : BOOLEAN]           \* history: a PATCH of it was applied and lost

IdleChild == [pc |-> "idle", seen |-> {}, todo |-> {}, cur |-> None,
              new |-> {}, blind |-> {}, read |-> {}, again |-> FALSE]

RegenerationTypeOK ==
  /\ auth \subseteq DA
  /\ roles \subseteq Role
  /\ members \in [Role -> SUBSET Agent]
  /\ registered \subseteq Agent
  /\ grants \subseteq Grant
  /\ acrs \subseteq Grant
  /\ links \in [Agent -> SUBSET Grant]
  /\ child \in [Child -> ChildState]
  /\ lost \in 0 .. MaxLost
  /\ overlap \subseteq Agent

(* The agents an authorization reaches, directly or through a role.        *)
AgentsOf(d) == IF GranteeOf[d] \in Role
               THEN IF GranteeOf[d] \in roles THEN members[GranteeOf[d]] ELSE {}
               ELSE {GranteeOf[d]}

(* findAuthorizationsForAgent: what the registry says an agent may see.    *)
AuthorizationsFor(p) == {d \in auth : p \in AgentsOf(d)}

Active(c) == child[c].pc \notin {"idle", "done"}

GrantOf(c, n) == [da |-> child[c].cur, by |-> c, attempt |-> n]

(* The agent can read a grant: its ACR is there and names the agent.       *)
Readable(g) == g \in acrs \ child[g.by].blind

Mishap == lost < MaxLost /\ lost' = lost + 1

-----------------------------------------------------------------------------
(* executeChild(createGrantsForAgent) for every agent of a set.            *)
StartChildren(p, agents) ==
  /\ child' = [c \in Child |-> IF ParentOf(c) = p /\ AgentOf(c) \in agents
                               THEN [IdleChild EXCEPT !.pc = "authorizations"]
                               ELSE child[c]]
  /\ overlap' = overlap \cup {a \in agents : \E c \in Child : AgentOf(c) = a /\ Active(c)}

(* Mutated: the agent's roles are not looked at.                           *)
FetchDirectOnly(c) ==
  /\ child[c].pc = "authorizations"
  /\ child' = [child EXCEPT ![c].pc = "generate",
                            ![c].seen = {d \in auth : GranteeOf[d] = AgentOf(c)}]
  /\ UNCHANGED <<store, grants, acrs, links, lost, overlap>>

(* getAuthorizations: one snapshot, used until the child ends.             *)
FetchAuthorizations(c) ==
  /\ child[c].pc = "authorizations"
  /\ child' = [child EXCEPT ![c].pc = "generate",
                            ![c].seen = AuthorizationsFor(AgentOf(c))]
  /\ UNCHANGED <<store, grants, acrs, links, lost, overlap>>

(* Source grants are stored before any delegated one is requested; after   *)
(* the last grant the registration is rewritten.                           *)
NextGrant(c, state) ==
  \/ \E d \in state.todo \ DelegatedDA :
       child' = [child EXCEPT ![c] = [state EXCEPT !.pc = "store", !.cur = d]]
  \/ /\ state.todo \subseteq DelegatedDA
     /\ \E d \in state.todo :
          child' = [child EXCEPT ![c] = [state EXCEPT !.pc = "delegate", !.cur = d]]
  \/ /\ state.todo = {}
     /\ child' = [child EXCEPT ![c] = [state EXCEPT !.pc = "read", !.cur = None]]

(* getExistingGrants refuses an agent without a registration; without      *)
(* authorizations there is nothing to generate, else every authorization   *)
(* seen is loaded once more and must still be there.                       *)
GenerateGrants(c) ==
  /\ child[c].pc = "generate"
  /\ AgentOf(c) \in registered
  /\ child[c].seen \subseteq auth
  /\ NextGrant(c, [child[c] EXCEPT !.todo = child[c].seen])
  /\ UNCHANGED <<store, grants, acrs, links, lost, overlap>>

(* The child with grant g done.                                            *)
Granted(c, g) == [child[c] EXCEPT !.todo = @ \ {child[c].cur}, !.new = @ \cup {g}]

(* Mutated: no access control resource for the grant.                      *)
StoreWithoutAcr(c) ==
  /\ child[c].pc = "store"
  /\ GrantOf(c, 1) \notin grants
  /\ grants' = grants \cup {GrantOf(c, 1)}
  /\ NextGrant(c, Granted(c, GrantOf(c, 1)))
  /\ UNCHANGED <<store, acrs, links, lost, overlap>>

(* storeDataGrant: PUT with If-None-Match, so a second PUT of the same     *)
(* grant is refused and the activity fails however often it is retried.    *)
StoreDataGrant(c) ==
  /\ child[c].pc = "store"
  /\ GrantOf(c, 1) \notin grants
  /\ grants' = grants \cup {GrantOf(c, 1)}
  /\ \/ /\ child' = [child EXCEPT ![c].pc = "acr"]
        /\ UNCHANGED lost
     \/ Mishap /\ UNCHANGED child
  /\ UNCHANGED <<store, acrs, links, overlap>>

(* createAcr: an unconditional PUT, which a retry repeats.  It asks for the *)
(* agent's authorization agent and swallows a failure; without one it takes *)
(* the grantee for an application of the grantor's, and the ACR names the   *)
(* grantor instead of the agent.                                           *)
WriteAcr(c, g) ==
  /\ acrs' = acrs \cup {g}
  /\ \/ NextGrant(c, [Granted(c, g) EXCEPT !.blind = @ \ {g}]) /\ UNCHANGED lost
     \/ /\ AgentOf(c) \notin Application
        /\ NextGrant(c, [Granted(c, g) EXCEPT !.blind = @ \cup {g}])
        /\ Mishap
     \/ Mishap /\ child' = [child EXCEPT ![c].blind = @ \ {g}]

CreateAcr(c) ==
  /\ child[c].pc = "acr"
  /\ WriteAcr(c, GrantOf(c, 1))
  /\ UNCHANGED <<store, grants, links, overlap>>

(* requestDelegation: the data owner's endpoint stores the grant and its   *)
(* ACR before it answers with the id; asking again creates another one.    *)
RequestDelegation(c) ==
  \E n \in 1 .. MaxLost + 1 :
    /\ child[c].pc = "delegate"
    /\ \A m \in 1 .. MaxLost + 1 : GrantOf(c, m) \in grants <=> m < n
    /\ grants' = grants \cup {GrantOf(c, n)}
    /\ WriteAcr(c, GrantOf(c, n))
    /\ UNCHANGED <<store, links, overlap>>

(* What is wrong may be there at every attempt, and the child then stays    *)
(* where it is: an authorization over the owner's data matches none of its *)
(* registrations ("no data grants were generated"), createAcr is to let    *)
(* the owner in or finds no ACR of the grant, the data owner's endpoint    *)
(* refuses the request.                                                    *)
FailAlways(c) ==
  /\ \/ child[c].pc = "generate" /\ child[c].seen \ DelegatedDA # {}
     \/ child[c].pc \in {"acr", "delegate"}
  /\ child' = [child EXCEPT ![c].pc = "failing"]
  /\ Mishap
  /\ UNCHANGED <<store, grants, acrs, links, overlap>>

(* replaceDataGrantsOnRegistration, its read ...                           *)
ReadLinks(c) ==
  /\ child[c].pc = "read"
  /\ AgentOf(c) \in registered
  /\ child' = [child EXCEPT ![c].pc = "patch", ![c].read = links[AgentOf(c)]]
  /\ UNCHANGED <<store, grants, acrs, links, lost, overlap>>

(* Mutated: the links read are not deleted.                                *)
InsertLinks(c) ==
  /\ child[c].pc = "patch"
  /\ links' = [links EXCEPT ![AgentOf(c)] = @ \cup child[c].new]
  /\ \/ child' = [child EXCEPT ![c].pc = "done"] /\ UNCHANGED lost
     \/ Mishap /\ child' = [child EXCEPT ![c].pc = "read", ![c].again = TRUE]
  /\ UNCHANGED <<store, grants, acrs, overlap>>

(* Mutated: one PATCH deletes or inserts, never both.                      *)
DeleteOrInsertLinks(c) ==
  LET removed == child[c].read \ child[c].new
  IN /\ child[c].pc = "patch"
     /\ links' = [links EXCEPT ![AgentOf(c)] = IF removed = {} THEN @ \cup child[c].new
                                               ELSE @ \ removed]
     /\ child' = [child EXCEPT ![c].pc = "done"]
     /\ UNCHANGED <<store, grants, acrs, lost, overlap>>

(* ... and its PATCH, which deletes and inserts the difference to what was *)
(* read and leaves every other link alone.                                 *)
PatchLinks(c) ==
  LET removed == child[c].read \ child[c].new
      added == child[c].new \ child[c].read
  IN /\ child[c].pc = "patch"
     /\ links' = [links EXCEPT ![AgentOf(c)] = (@ \ removed) \cup added]
     /\ \/ child' = [child EXCEPT ![c].pc = "done"] /\ UNCHANGED lost
        \/ Mishap /\ child' = [child EXCEPT ![c].pc = "read", ![c].again = TRUE]
     /\ UNCHANGED <<store, grants, acrs, overlap>>

ChildStep(c) == \/ FetchAuthorizations(c)
                \/ GenerateGrants(c)
                \/ StoreDataGrant(c)
                \/ CreateAcr(c)
                \/ RequestDelegation(c)
                \/ FailAlways(c)
                \/ ReadLinks(c)
                \/ PatchLinks(c)

RegenerationInit ==
  /\ auth = {}
  /\ grants = {}
  /\ acrs = {}
  /\ links = [p \in Agent |-> {}]
  /\ child = [c \in Child |-> IdleChild]
  /\ lost = 0
  /\ overlap = {}
=============================================================================
