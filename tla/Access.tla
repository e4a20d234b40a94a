------------------------------- MODULE Access --------------------------------
(***************************************************************************)
(* From an authorization to the answer of a resource server: an owner      *)
(* authorizes agents, roles and applications, grants are generated and     *)
(* stored from what is authorized and from what peers share at that        *)
(* moment, registrations link the latest ones, and the permission engine   *)
(* answers from all of them.  Grants that are no longer linked stay        *)
(* stored: their deletion is commented out in createGrantsForAgent.        *)
(*                                                                         *)
(* The workflows are whole here; their steps are the subject of Granting,  *)
(* RoleChanges and Delegation.                                             *)
(***************************************************************************)
EXTENDS PermissionEngine

CONSTANTS Authorization,   \* what the owner may authorize
          Shared,          \* per peer, the sets of grants it may share
          Role,            \* roles that are grantees
          Agent,           \* social agents and applications that are grantees
          Application,     \* those of them that are applications
          Given,           \* the references between instances to begin with
          Reference        \* ... and those that may be there later

ASSUME GranteesAssumption == Agent \cap Role = {} /\ Application \subseteq Agent /\ Self \notin Application

(* What the page and shareDataInstance make of a decision.                  *)
ASSUME AuthorizationAssumption ==
  \A a \in Authorization :
    /\ a.grantee \in Agent \cup Role
    /\ a.reg # None => a.reg \in Registration /\ TreeOf[a.reg] = a.tree
    /\ IF a.scope = "Selected"
       THEN a.reg # None /\ \A i \in a.instances : i \in Instance /\ RegistrationOf[i] = a.reg
       ELSE a.instances = {}
    /\ \A x \in {a} \cup a.children : "Read" \in x.modes /\ x.modes \subseteq Mode

(* What a peer's own agent generates for this owner, from its own data or   *)
(* from a third one's.                                                      *)
ASSUME SharedAssumption ==
  \A p \in Peer : \A g \in UNION Shared[p] :
    /\ g.grantee = Self /\ g.grantedBy = p /\ g.owner # Self
    /\ g.reg \in Registration /\ OwnerOf(g.reg) = g.owner /\ TreeOf[g.reg] = g.tree
    /\ g.scope \in {"Selected", "AllFromRegistry"}
    /\ IF g.scope = "Selected"
       THEN \A i \in g.instances : i \in Instance /\ RegistrationOf[i] = g.reg
       ELSE g.instances = {}
    /\ \A c \in g.children : c.reg \in Registration /\ RegistryOf[c.reg] = RegistryOf[g.reg]
                            /\ TreeOf[c.reg] = c.tree
    /\ \A x \in {g} \cup g.children : "Read" \in x.modes /\ x.modes \subseteq Mode

(* References do not go in circles: the engine, which asks for the instance *)
(* above, would not come back.                                              *)
ASSUME ReferenceAssumption ==
  /\ Given \subseteq Reference /\ Reference \subseteq Instance \X Instance
  /\ \A S \in SUBSET Instance : S # {} => \E i \in S : \A p \in S : <<p, i>> \notin Reference

VARIABLES auths,     \* authorizations in the authorization registry
          members,   \* members of each role
          once,      \* history: agents that were ever members of each role
          grants,    \* stored grants made by this owner
          links,     \* grants each agent's registration links
          issued,    \* stored grants the peers ever made for this owner
          received,  \* those each peer's registration links
          refers,    \* references between instances
          stale      \* agents whose regeneration is due

vars == <<auths, members, once, grants, links, issued, received, refers, stale>>

TypeOK ==
  /\ auths \subseteq Authorization
  /\ once \in [Role -> SUBSET Agent]
  /\ members \in [Role -> SUBSET Agent] /\ \A r \in Role : members[r] \subseteq once[r]
  /\ links \in [Agent -> SUBSET grants] /\ \A p \in Agent : \A g \in links[p] : g.grantee = p
  /\ received \in [Peer -> SUBSET issued]
  /\ Given \subseteq refers /\ refers \subseteq Reference
  /\ stale \subseteq Agent

(* An agent's authorizations, its roles' included.                          *)
For(p, roleMembers) ==
  {a \in auths : a.grantee = p \/ \E r \in Role : r = a.grantee /\ p \in roleMembers[r]}

-----------------------------------------------------------------------------
(* An authorization is stored, and regeneration is due for whom it reaches. *)
(* An authorization is never withdrawn: a denial only records an activity.  *)
Authorize(a) ==
  /\ auths' = auths \cup {a}
  /\ stale' = stale \cup (IF a.grantee \in Role THEN members[a.grantee] ELSE {a.grantee})
  /\ UNCHANGED <<members, once, grants, links, issued, received, refers>>

(* A role's members change, which is what takes authorizations away.        *)
ChangeMembers(r, new) ==
  /\ new # members[r]
  /\ members' = [members EXCEPT ![r] = new]
  /\ once' = [once EXCEPT ![r] = @ \cup new]
  /\ stale' = stale \cup ((members[r] \ new) \cup (new \ members[r]))
  /\ UNCHANGED <<auths, grants, links, issued, received, refers>>

(* A peer replaces what it shares.  The links it had made are replaced, the *)
(* grants stay; the owner's webhook has the delegated grants made anew.     *)
Share(p, new) ==
  /\ new # received[p]
  /\ received' = [received EXCEPT ![p] = new]
  /\ issued' = issued \cup new
  /\ stale' = stale \cup {x \in Agent : \E a \in For(x, members) : p \in Sources(a)}
  /\ UNCHANGED <<auths, members, once, grants, links, refers>>

(* A data instance comes to refer to another one.                           *)
Refer(e) ==
  /\ e \notin refers
  /\ refers' = refers \cup {e}
  /\ UNCHANGED <<auths, members, once, grants, links, issued, received, stale>>

(* Mutated: the grants are deleted, the links to them stay.                 *)
ClearGrants(p) ==
  /\ p \in stale
  /\ For(p, members) = {}
  /\ grants' = {g \in grants : g.grantee # p}
  /\ stale' = stale \ {p}
  /\ UNCHANGED <<auths, members, once, links, issued, received, refers>>

(* createGrantsForAgent with no authorizations: the registration is         *)
(* cleared, deleteDataGrants is commented out.                              *)
Clear(p) ==
  /\ p \in stale
  /\ For(p, members) = {}
  /\ links' = [links EXCEPT ![p] = {}]
  /\ stale' = stale \ {p}
  /\ UNCHANGED <<auths, members, once, grants, issued, received, refers>>

(* createGrantsForAgent: own grants are stored, the delegated ones are      *)
(* asked for, and the registration links them all, and only them.           *)
Regenerate(p) ==
  LET as == For(p, members)
      own == OwnGrants(as, p)
      delegated == PeerGrants(as, p, received)
  IN /\ p \in stale
     /\ as # {} /\ Generates(as, p)
     /\ \A g \in delegated : Delegable(g, issued)
     /\ grants' = grants \cup own \cup delegated
     /\ links' = [links EXCEPT ![p] = own \cup delegated]
     /\ stale' = stale \ {p}
     /\ UNCHANGED <<auths, members, once, issued, received, refers>>

(* One delegated grant is refused: requestDelegation is retried for ever,   *)
(* after what was stored before it, and the links stay as they were.        *)
GetStuck(p) ==
  LET as == For(p, members)
      delegated == PeerGrants(as, p, received)
  IN /\ p \in stale
     /\ as # {} /\ Generates(as, p)
     /\ \E refused \in delegated :
          /\ ~ Delegable(refused, issued)
          /\ \E before \in SUBSET {g \in delegated : Delegable(g, issued)} :
               grants' = grants \cup OwnGrants(as, p) \cup before
     /\ UNCHANGED <<auths, members, once, links, issued, received, refers, stale>>

Init ==
  /\ auths = {}
  /\ members = [r \in Role |-> {}]
  /\ once = [r \in Role |-> {}]
  /\ grants = {}
  /\ links = [p \in Agent |-> {}]
  /\ issued = {}
  /\ received = [p \in Peer |-> {}]
  /\ refers = Given
  /\ stale = {}

Next ==
  \/ \E a \in Authorization : Authorize(a)
  \/ \E r \in Role : \E new \in SUBSET (Agent \ Application) : ChangeMembers(r, new)
  \/ \E p \in Peer : \E new \in Shared[p] : Share(p, new)
  \/ \E e \in Reference \ Given : Refer(e)
  \/ \E p \in Agent : Clear(p) \/ Regenerate(p) \/ GetStuck(p)

Spec == Init /\ [][Next]_vars

-----------------------------------------------------------------------------
Stored == grants \cup issued

(* Everyone who may ask: an agent through its own authorization agent, or   *)
(* through an application.                                                  *)
Asking ==
  {[agent |-> p, client |-> None, uas |-> TRUE] :
      p \in (Agent \ Application) \cup {Self} \cup UNION {AdminsOf[q] : q \in DOMAIN AdminsOf}}
  \cup {[agent |-> p, client |-> c, uas |-> FALSE] :
          p \in (Agent \ Application) \cup {Self}, c \in Application}

(* What the peers an authorization is about ever shared with the owner.     *)
SharedBy(peers) == UNION {Grants(g) : g \in {g \in issued : g.grantedBy \in peers}}

(* An authorization reaches the owner's data, and a peer's as far as it was *)
(* shared: the mode by a peer the authorization is about, the instance      *)
(* perhaps by an older grant (findDelegableGrant asks for one common mode). *)
Reaches(a, i, mode) ==
  LET r == RegistrationOf[i] IN
  \/ OwnerOf(r) = Self /\ Self \in Sources(a)
  \/ /\ \E h \in SharedBy(Sources(a)) : h.reg = r /\ mode \in h.modes
     /\ \E h \in SharedBy(Peer) : h.reg = r /\ (h.scope = "Selected" => i \in h.instances)

(* One that selects nothing of a peer's passes on what the peer selected.   *)
Selects(a, i) ==
  a.scope = "Selected" =>
    i \in a.instances \/ (a.instances = {} /\ OwnerOf(RegistrationOf[i]) # Self)

(* What was ever authorized, whoever was a member when.                     *)
Ever(cred) == IF cred.uas THEN For(cred.agent, once)
              ELSE IF cred.agent = Self THEN For(cred.client, once) ELSE {}

(* By an authorization, or a peer's grant to the owner itself.              *)
MayDirectly(cred, i, mode) ==
  LET r == RegistrationOf[i] IN
  \/ \E a \in Ever(cred) : /\ TreeOf[r] = a.tree /\ mode \in a.modes /\ Selects(a, i)
                           /\ a.reg # None => r = a.reg
                           /\ Reaches(a, i, mode)
  \/ cred.uas /\ cred.agent = Self
     /\ \E g \in issued : /\ g.reg = r /\ mode \in g.modes
                          /\ g.scope = "Selected" => i \in g.instances

(* By what inherits from one of them, below an instance that may be read.   *)
MayBelow(cred, i, mode, answers) ==
  LET r == RegistrationOf[i]
      above(tree) == \E p \in Instance : /\ <<p, i>> \in refers /\ "Read" \in UNION answers[p]
                                         /\ TreeOf[RegistrationOf[p]] = tree
                                         /\ RegistryOf[RegistrationOf[p]] = RegistryOf[r]
  IN \/ \E a \in Ever(cred) : /\ \E c \in a.children : TreeOf[r] = c.tree /\ mode \in c.modes
                               /\ Reaches(a, i, mode) /\ above(a.tree)
     \/ cred.uas /\ cred.agent = Self
        /\ \E g \in issued : above(g.tree) /\ \E c \in g.children : c.reg = r /\ mode \in c.modes

IsAdmin(cred, r) == cred.agent \in AdminsOf[RegistryOf[r]]

(* No answer, whichever grant the engine happens to find and however old it *)
(* is, gives a mode nobody authorized: to an application only for the agent *)
(* whose application it is, for a peer's data only what the peer shared,    *)
(* for an inherited grant only below an instance that the same asker may    *)
(* read, to an admin no more than Read; and a whole registration only to    *)
(* somebody who may have each of its instances (findGrant,                  *)
(* findInheritedModes, findAdminModes).                                     *)
OnlyAuthorized ==
  \A cred \in Asking :
    LET answers == InstanceAnswers(Stored, refers, cred)
    IN /\ \A i \in Instance : \A mode \in UNION answers[i] :
         \/ MayDirectly(cred, i, mode)
         \/ MayBelow(cred, i, mode, answers)
         \/ mode = "Read" /\ IsAdmin(cred, RegistrationOf[i])
       /\ \A r \in Registration : \A mode \in UNION RegistrationAnswers(Stored, r, cred) :
         \/ \A i \in Instance : RegistrationOf[i] = r => MayDirectly(cred, i, mode)
         \/ mode = "Read" /\ IsAdmin(cred, r)

-----------------------------------------------------------------------------
As(p) == IF p \in Application THEN [agent |-> Self, client |-> p, uas |-> FALSE]
         ELSE [agent |-> p, client |-> None, uas |-> TRUE]

Listed(p) == UNION {TopInstances(g) \cup UNION {InheritedInstances(g, c, refers) : c \in g.children} :
                    g \in links[p]}

(* What an authorization covers of the owner's data, and of what peers      *)
(* share now; a peer is not given back what it shares.                      *)
Covers(a, p) ==
  {i \in Instance :
     LET r == RegistrationOf[i] IN
     /\ TreeOf[r] = a.tree /\ (a.reg # None => r = a.reg)
     /\ a.scope = "Selected" => i \in a.instances
     /\ \/ OwnerOf(r) = Self /\ Self \in Sources(a)
        \/ \E q \in (Sources(a) \cap Peer) \ {p} : \E g \in received[q] : g.reg = r /\ i \in TopInstances(g)}
CoversBelow(a, p) ==
  {i \in Instance : \E c \in a.children :
     /\ OwnerOf(RegistrationOf[i]) = Self /\ TreeOf[RegistrationOf[i]] = c.tree
     /\ \E above \in Covers(a, p) : /\ <<above, i>> \in refers
                                     /\ RegistryOf[RegistrationOf[above]] = RegistryOf[RegistrationOf[i]]}

(* An agent whose regeneration is not due finds, by following its links,    *)
(* everything it is authorized for.                                         *)
AuthorizedListed ==
  \A p \in Agent \ stale :
    \A a \in For(p, members) : Covers(a, p) \cup CoversBelow(a, p) \subseteq Listed(p)

(* The grants of an agent below which an instance inherits.                 *)
Inherits(p, i) == {g \in Stored : g.grantee = p /\ \E c \in g.children : c.reg = RegistrationOf[i]}

(* What refers to the instance is not below the grant the engine looks for: *)
(* it is in another storage, or of another shape tree that uses the same    *)
(* predicate.  The engine may take it for the parent and give up.           *)
Astray(p, i) == \E q \in Instance :
  /\ <<q, i>> \in refers
  /\ \/ RegistryOf[RegistrationOf[q]] # RegistryOf[RegistrationOf[i]]
     \/ \E g \in Inherits(p, i) : q \in Referring(i, g.tree, refers) /\ RegistrationOf[q] # g.reg

(* An agent holds a grant that inherits by another predicate than those     *)
(* that refer to this instance, and the engine may find that grant.         *)
Mistaken(p, i) == \E g \in Inherits(p, i) : Referring(i, g.tree, refers) = {}

(* What the links lead to can be read, now and under every answer the       *)
(* engine may find.  Excused: a question that may end in an error, which    *)
(* starts where a resource of another storage or another shape tree refers  *)
(* to an instance and spreads to what is below; an inherited grant below    *)
(* instances that cannot be read or taken for one by another predicate.     *)
ListedReadable ==
  \A p \in Agent :
    LET outcomes == Outcomes(Held(Stored, As(p)), refers)
        fails(i) == "astray" \in UNION outcomes[i]
        readable(i) == \A m \in outcomes[i] : "Read" \in m
    IN /\ \A i \in Instance : fails(i) =>
            Astray(p, i) \/ \E q \in Instance : <<q, i>> \in refers /\ fails(q)
       /\ \A g \in links[p] :
            /\ \A i \in TopInstances(g) : readable(i) \/ fails(i)
            /\ \A c \in g.children : \A i \in InheritedInstances(g, c, refers) :
                 \/ readable(i) \/ fails(i) \/ Astray(p, i) \/ Mistaken(p, i)
                 \/ \E q \in Instance : <<q, i>> \in refers /\ ~ readable(q)

(* What is authorized is listed, and what is listed is readable: grant      *)
(* generation, the listing of instances and the permission engine, three    *)
(* readings of scopes and inheritance, agree.                               *)
AuthorizedUsable == AuthorizedListed /\ ListedReadable
=============================================================================
