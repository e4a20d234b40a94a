--------------------------- MODULE GrantGeneration ---------------------------
(***************************************************************************)
(* How one owner's authorization agent turns the data authorizations of a  *)
(* grantee into data grants (grant-generation.ts), which instances a grant *)
(* describes, and when the issuance endpoint of another data owner accepts *)
(* a delegated grant (findDelegableGrant).                                 *)
(*                                                                         *)
(* A grant is a record together with the Inherited grants that hang below  *)
(* it.  Resource ids are left out: two grants with the same content are    *)
(* one value, which nothing here or in PermissionEngine tells apart.       *)
(***************************************************************************)
EXTENDS FiniteSets, Naturals

CONSTANTS Self,            \* the owner whose authorization agent this is
          Peer,            \* other data owners registered with it
          Registration,    \* data registrations, of all owners
          TreeOf,          \* shape tree of a registration
          RegistryOf,      \* data registry, and so storage, of a registration
          HolderOf,        \* owner of a data registry
          Instance,        \* data instances
          RegistrationOf,  \* registration of an instance
          MembersOf,       \* role a data owner can be given by, to its members
          None

ASSUME OwnersDistinct == Self \notin Peer /\ None \notin Peer \cup {Self}
ASSUME MapsAssumption ==
  /\ RegistrationOf \in [Instance -> Registration]
  /\ DOMAIN TreeOf = Registration /\ DOMAIN RegistryOf = Registration
  /\ \A r \in Registration : HolderOf[RegistryOf[r]] \in Peer \cup {Self}
(* A registry has one registration per shape tree.                         *)
ASSUME OnePerTree ==
  \A r, q \in Registration :
    RegistryOf[r] = RegistryOf[q] /\ TreeOf[r] = TreeOf[q] => r = q

OwnerOf(r) == HolderOf[RegistryOf[r]]

-----------------------------------------------------------------------------
(* A grant with the Inherited grants below it, each as a grant of its own.  *)
ChildGrant(g, c) ==
  [grantee |-> g.grantee, grantedBy |-> g.grantedBy, owner |-> g.owner,
   tree |-> c.tree, reg |-> c.reg, modes |-> c.modes,
   scope |-> "Inherited", instances |-> {}, children |-> {}]
Grants(g) == {g} \cup {ChildGrant(g, c) : c \in g.children}

(* Mutated: children are taken from the parent's stored list only, which    *)
(* the framing of the activity drops.                                       *)
ListedInheriting(a) == {}

(* inheritingAuthorizations: found from the child's side as well, so every  *)
(* child is found.                                                          *)
Inheriting(a) == a.children

Matches(a, r, tree) == IF a.reg = None THEN tree = a.tree ELSE r = a.reg

(* generateSourceDataGrants: one per data registry of the owner that has a  *)
(* matching registration, with a child for each inheriting authorization    *)
(* whose tree is registered next to it.                                     *)
SourceGrants(a, grantee) ==
  {[grantee |-> grantee, grantedBy |-> Self, owner |-> Self,
    tree |-> a.tree, reg |-> r,
    scope |-> IF a.scope = "Selected" THEN "Selected" ELSE "AllFromRegistry",
    instances |-> a.instances, modes |-> a.modes,
    children |-> UNION {{[tree |-> c.tree, reg |-> q, modes |-> c.modes] :
                           q \in {q \in Registration : RegistryOf[q] = RegistryOf[r]
                                                       /\ TreeOf[q] = c.tree}} :
                          c \in Inheriting(a)}] :
      r \in {r \in Registration : OwnerOf(r) = Self /\ Matches(a, r, TreeOf[r])}}

(* accessMode.filter: no more than the source grant holds.                  *)
CommonModes(asked, held) == asked \cap held

(* generateDelegatedDataGrants: one for every grant a peer has linked for   *)
(* the owner, its Inherited ones included, that matches; never back to the  *)
(* peer itself.  Instances named by the authorization are not compared with *)
(* the source's.                                                            *)
DelegatedGrants(a, grantee, from, received) ==
  {[grantee |-> grantee, grantedBy |-> Self, owner |-> s.owner,
    tree |-> s.tree, reg |-> s.reg,
    scope |-> IF "Selected" \in {a.scope, s.scope} THEN "Selected" ELSE "AllFromRegistry",
    instances |-> IF "Selected" \notin {a.scope, s.scope} THEN {}
                  ELSE IF a.instances # {} THEN a.instances ELSE s.instances,
    modes |-> CommonModes(a.modes, s.modes),
    children |-> UNION {{[tree |-> c.tree, reg |-> k.reg, modes |-> CommonModes(c.modes, k.modes)] :
                           k \in {k \in s.children : k.tree = c.tree}} :
                          c \in Inheriting(a)}] :
      s \in {s \in UNION {Grants(g) : g \in UNION {received[p] : p \in from \ {grantee}}} :
               s.tree = a.tree /\ (a.reg # None => s.reg = a.reg)}}

(* generateDataGrants: whose data an authorization is about.                *)
Sources(a) ==
  IF a.owner = None THEN Peer \cup {Self}
  ELSE IF a.scope = "AllFromRole" THEN MembersOf[a.owner] ELSE {a.owner}

(* generateGrantsForAuthorization.  Own data without a matching             *)
(* registration is an error that fails the whole generation.                *)
OwnGrants(as, grantee) == UNION {SourceGrants(a, grantee) : a \in {a \in as : Self \in Sources(a)}}
PeerGrants(as, grantee, received) ==
  UNION {DelegatedGrants(a, grantee, Sources(a) \cap Peer, received) : a \in as}
Generates(as, grantee) == \A a \in as : Self \in Sources(a) => SourceGrants(a, grantee) # {}

-----------------------------------------------------------------------------
(* findDelegableGrant, for one grant: some grant of the owner's, of any     *)
(* age, that shares a mode and covers scope and instances.                  *)
CoveredBy(g, s) ==
  /\ s.owner = g.owner /\ s.grantee = g.grantedBy
  /\ s.tree = g.tree /\ s.reg = g.reg
  /\ s.modes \cap g.modes # {}
  /\ IF g.scope = "Selected"
     THEN \/ s.scope = "AllFromRegistry"
          \/ s.scope = "Selected" /\ g.instances \subseteq s.instances
     ELSE s.scope = g.scope

(* GrantIssuanceHandler.issue: the grant and all its children, or nothing.  *)
Delegable(g, issued) ==
  \A h \in Grants(g) : \E s \in UNION {Grants(i) : i \in issued} : CoveredBy(h, s)

(* dataInstanceIrisForGrant: what a client that follows the grant is told   *)
(* to read.                                                                 *)
TopInstances(g) ==
  IF g.scope = "Selected" THEN g.instances ELSE {i \in Instance : RegistrationOf[i] = g.reg}
InheritedInstances(g, c, refers) ==
  {i \in Instance : TreeOf[RegistrationOf[i]] = c.tree
                    /\ \E p \in TopInstances(g) : <<p, i>> \in refers}
=============================================================================
