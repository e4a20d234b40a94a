---------------------------- MODULE AccessProofs -----------------------------
(***************************************************************************)
(* Access proved for any authorizations, peers, registrations, instances   *)
(* and references: types, that nobody gets what was never authorized, and  *)
(* that what is authorized is found and readable.                          *)
(***************************************************************************)
EXTENDS Access, TLAPS

-----------------------------------------------------------------------------
(* The engine asks for the instances above an instance, and those above    *)
(* them.  That this comes to an end is shown on sets of instances: one in  *)
(* which no answer is found has an instance with nothing of it above.      *)
WellFounded(refs) ==
  \A S \in SUBSET Instance : S # {} => \E i \in S : \A p \in S : <<p, i>> \notin refs

(* Answers for some of the instances, with all that are above them.        *)
Partial(held, refs, S, f) ==
  /\ S \subseteq Instance
  /\ \A i \in S : \A p \in Instance : <<p, i>> \in refs => p \in S
  /\ \A i \in S : f[i] = AnswersFor(held, i, refs, f)

(* An answer depends on what is directly above only.                       *)
LEMMA AnswersAgree ==
  ASSUME NEW held, NEW i, NEW refs, NEW f, NEW g,
         \A p \in Instance : <<p, i>> \in refs => f[p] = g[p]
  PROVE  AnswersFor(held, i, refs, f) = AnswersFor(held, i, refs, g)
<1>1. InheritedModes(held, i, refs, f) = InheritedModes(held, i, refs, g)
  <2>. DEFINE found == FindGrant(held, "Inherited", RegistrationOf[i], {})
              parents(e) == Referring(i, e.top.tree, refs)
              below(a, e, p) ==
                IF RegistrationOf[p] # e.top.reg THEN {{"astray"}}
                ELSE {IF "astray" \in above THEN {"astray"}
                      ELSE IF "Read" \in above THEN e.grant.modes ELSE {} : above \in a[p]}
              inherited(a) ==
                UNION {IF parents(e) = {} THEN {{}} ELSE UNION {below(a, e, p) : p \in parents(e)} :
                         e \in found}
  <2>1. \A e \in found : \A p \in parents(e) : below(f, e, p) = below(g, e, p)
    BY DEF Referring
  <2>. HIDE DEF below
  <2>2. \A e \in found :
          UNION {below(f, e, p) : p \in parents(e)} = UNION {below(g, e, p) : p \in parents(e)}
    BY <2>1
  <2>. HIDE DEF parents, found
  <2>3. inherited(f) = inherited(g)
    BY <2>2
  <2>. QED  BY <2>3 DEF InheritedModes, inherited, found, parents, below
<1>. QED  BY <1>1 DEF AnswersFor

(* Two partial answers agree where both have one.                          *)
LEMMA PartialUnique ==
  ASSUME NEW held, NEW refs, WellFounded(refs), NEW S, NEW f, NEW T, NEW g,
         Partial(held, refs, S, f), Partial(held, refs, T, g)
  PROVE  \A i \in S \cap T : f[i] = g[i]
<1>. DEFINE D == {i \in S \cap T : f[i] # g[i]}
<1>1. SUFFICES ASSUME D # {} PROVE FALSE
  OBVIOUS
<1>2. D \in SUBSET Instance
  BY DEF Partial
<1>3. PICK i \in D : \A p \in D : <<p, i>> \notin refs
  BY <1>1, <1>2 DEF WellFounded
<1>4. \A p \in Instance : <<p, i>> \in refs => f[p] = g[p]
  BY <1>3 DEF Partial
<1>5. AnswersFor(held, i, refs, f) = AnswersFor(held, i, refs, g)
  BY <1>4, AnswersAgree
<1>. QED  BY <1>3, <1>5 DEF Partial

(* So there is an answer for every instance.                               *)
LEMMA PartialTotal ==
  ASSUME NEW held, NEW refs, WellFounded(refs)
  PROVE  \E f : f = [i \in Instance |-> AnswersFor(held, i, refs, f)]
<1>. DEFINE W == {i \in Instance : \E S, f : i \in S /\ Partial(held, refs, S, f)}
            pick(i) == CHOOSE v : \E S, f : i \in S /\ Partial(held, refs, S, f) /\ v = f[i]
            F == [i \in W |-> pick(i)]
<1>1. ASSUME NEW S, NEW f, Partial(held, refs, S, f), NEW i \in S
      PROVE  i \in W /\ F[i] = f[i]
  <2>1. i \in W
    BY <1>1 DEF Partial
  <2>2. \E v : \E T, g : i \in T /\ Partial(held, refs, T, g) /\ v = g[i]
    BY <1>1
  <2>3. \E T, g : i \in T /\ Partial(held, refs, T, g) /\ pick(i) = g[i]
    BY <2>2
  <2>4. PICK T, g : i \in T /\ Partial(held, refs, T, g) /\ pick(i) = g[i]
    BY <2>3
  <2>5. f[i] = g[i]
    BY <1>1, <2>4, PartialUnique
  <2>. QED  BY <2>1, <2>4, <2>5
<1>0. /\ W \subseteq Instance
      /\ \A i \in W : \E S, f : i \in S /\ Partial(held, refs, S, f)
      /\ F = [i \in W |-> F[i]]
  OBVIOUS
<1>. HIDE DEF pick, W, F
<1>2. ASSUME NEW i \in W
      PROVE  /\ \A p \in Instance : <<p, i>> \in refs => p \in W
             /\ F[i] = AnswersFor(held, i, refs, F)
  <2>1. PICK S, f : i \in S /\ Partial(held, refs, S, f)
    BY <1>0
  <2>2. \A p \in Instance : <<p, i>> \in refs => p \in W /\ F[p] = f[p]
    BY <2>1, <1>1 DEF Partial
  <2>3. F[i] = f[i]
    BY <2>1, <1>1
  <2>4. AnswersFor(held, i, refs, f) = AnswersFor(held, i, refs, F)
    BY <2>2, AnswersAgree
  <2>. QED  BY <2>1, <2>2, <2>3, <2>4 DEF Partial
<1>3. Instance \ W = {}
  <2>1. SUFFICES ASSUME Instance \ W # {} PROVE FALSE
    OBVIOUS
  <2>2. PICK i \in Instance \ W : \A p \in Instance \ W : <<p, i>> \notin refs
    <3>1. Instance \ W \in SUBSET Instance
      OBVIOUS
    <3>. QED  BY <2>1, <3>1 DEF WellFounded
  <2>. DEFINE V == W \cup {i}
              G == [j \in V |-> IF j = i THEN AnswersFor(held, i, refs, F) ELSE F[j]]
  <2>3. \A j \in W : j # i
    BY <2>2
  <2>5. \A p \in W : G[p] = F[p]
    BY <2>3
  <2>6. \A j \in V : \A p \in Instance : <<p, j>> \in refs => p \in W
    BY <1>2, <2>2
  <2>7. G[i] = AnswersFor(held, i, refs, F)
    OBVIOUS
  <2>. HIDE DEF G
  <2>8. \A j \in V : AnswersFor(held, j, refs, F) = AnswersFor(held, j, refs, G)
    BY <2>5, <2>6, AnswersAgree
  <2>9. \A j \in V : G[j] = AnswersFor(held, j, refs, G)
    BY <1>2, <2>5, <2>7, <2>8
  <2>10. V \subseteq Instance
    BY <2>2, <1>0
  <2>11. Partial(held, refs, V, G)
    BY <2>6, <2>9, <2>10 DEF Partial
  <2>12. i \in W
    BY <2>2, <2>11 DEF W
  <2>. QED  BY <2>2, <2>12
<1>4. W = Instance
  BY <1>0, <1>3
<1>5. F = [i \in Instance |-> AnswersFor(held, i, refs, F)]
  BY <1>0, <1>2, <1>4
<1>. QED  BY <1>5

(* The answers are what the engine computes from the answers above.        *)
LEMMA OutcomesUnfold ==
  ASSUME NEW held, NEW refs, WellFounded(refs)
  PROVE  Outcomes(held, refs) =
           [i \in Instance |-> AnswersFor(held, i, refs, Outcomes(held, refs))]
<1>. DEFINE Is(g) == g = [i \in Instance |-> AnswersFor(held, i, refs, g)]
<1>1. Outcomes(held, refs) = CHOOSE g : Is(g)
  BY Zenon DEF Outcomes
<1>2. \E f : Is(f)
  BY PartialTotal
<1>. HIDE DEF Is
<1>3. Is(CHOOSE g : Is(g))
  BY <1>2, Zenon
<1>4. Is(Outcomes(held, refs))
  BY <1>1, <1>3
<1>. QED  BY <1>4, Zenon DEF Is

-----------------------------------------------------------------------------
(* What every stored grant is like, whoever made it.                       *)
Shaped(g) ==
  /\ g.scope \in {"Selected", "AllFromRegistry"}
  /\ g.reg \in Registration /\ TreeOf[g.reg] = g.tree
  /\ g.scope = "Selected" => \A i \in g.instances : i \in Instance /\ RegistrationOf[i] = g.reg
  /\ \A c \in g.children : c.reg \in Registration /\ RegistryOf[c.reg] = RegistryOf[g.reg]
                           /\ TreeOf[c.reg] = c.tree
  /\ "Read" \in g.modes /\ g.modes \subseteq Mode
  /\ \A c \in g.children : "Read" \in c.modes /\ c.modes \subseteq Mode

(* ... and one that a peer made for the owner.                             *)
FromPeer(g) ==
  /\ Shaped(g)
  /\ g.grantee = Self /\ g.grantedBy \in Peer
  /\ g.owner # Self /\ OwnerOf(g.reg) = g.owner
  /\ g.scope # "Selected" => g.instances = {}

ByPeer == [p \in Peer |-> {g \in issued : g.grantedBy = p}]

(* Where a grant of the owner's comes from: an authorization for its       *)
(* grantee, and the owner's data or what peers shared.                     *)
Made(g) ==
  \E a \in For(g.grantee, once) :
    \/ Self \in Sources(a) /\ g \in SourceGrants(a, g.grantee)
    \/ /\ g \in DelegatedGrants(a, g.grantee, Sources(a) \cap Peer, ByPeer)
       /\ Delegable(g, issued)

Peers == /\ \A g \in issued : FromPeer(g)
         /\ \A p \in Peer : \A g \in received[p] : g.grantedBy = p

(* An agent whose regeneration is not due holds what would be generated.   *)
Fresh(p) == links[p] = OwnGrants(For(p, members), p) \cup PeerGrants(For(p, members), p, received)

AccessInv ==
  /\ TypeOK
  /\ Peers
  /\ \A g \in grants : Made(g)
  /\ \A p \in Agent \ stale : Fresh(p)

LEMMA SourceShaped ==
  ASSUME NEW a \in Authorization, NEW p, NEW g \in SourceGrants(a, p)
  PROVE  /\ Shaped(g) /\ g.grantee = p /\ g.grantedBy = Self
         /\ g.tree = a.tree /\ g.modes = a.modes /\ g.instances = a.instances
         /\ (g.scope = "Selected" <=> a.scope = "Selected")
         /\ OwnerOf(g.reg) = Self /\ (a.reg # None => g.reg = a.reg)
         /\ \A c \in g.children : \E x \in a.children : x.tree = c.tree /\ x.modes = c.modes
<1>1. PICK r \in Registration :
        /\ OwnerOf(r) = Self /\ Matches(a, r, TreeOf[r])
        /\ g = [grantee |-> p, grantedBy |-> Self, owner |-> Self,
                tree |-> a.tree, reg |-> r,
                scope |-> IF a.scope = "Selected" THEN "Selected" ELSE "AllFromRegistry",
                instances |-> a.instances, modes |-> a.modes,
                children |-> UNION {{[tree |-> c.tree, reg |-> q, modes |-> c.modes] :
                                       q \in {q \in Registration : RegistryOf[q] = RegistryOf[r]
                                                                   /\ TreeOf[q] = c.tree}} :
                                      c \in Inheriting(a)}]
  BY DEF SourceGrants
<1>2. \A c \in g.children : \E x \in a.children, q \in Registration :
        /\ RegistryOf[q] = RegistryOf[r] /\ TreeOf[q] = x.tree
        /\ c = [tree |-> x.tree, reg |-> q, modes |-> x.modes]
  BY <1>1 DEF Inheriting
<1>3. /\ g.grantee = p /\ g.grantedBy = Self /\ g.tree = a.tree /\ g.modes = a.modes
      /\ g.instances = a.instances /\ g.reg = r
      /\ g.scope = IF a.scope = "Selected" THEN "Selected" ELSE "AllFromRegistry"
  BY <1>1
<1>4. TreeOf[r] = a.tree /\ (a.reg # None => r = a.reg)
  BY <1>1, AuthorizationAssumption DEF Matches
<1>5. \A c \in g.children : \E x \in a.children : x.tree = c.tree /\ x.modes = c.modes
  BY <1>2
<1>6. \A c \in g.children : c.reg \in Registration /\ RegistryOf[c.reg] = RegistryOf[r] /\ TreeOf[c.reg] = c.tree
  BY <1>2
<1>7. /\ "Read" \in a.modes /\ a.modes \subseteq Mode
      /\ \A c \in a.children : "Read" \in c.modes /\ c.modes \subseteq Mode
      /\ a.scope = "Selected" => a.reg # None /\ \A i \in a.instances : i \in Instance /\ RegistrationOf[i] = a.reg
  BY AuthorizationAssumption
<1>8. \A c \in g.children : "Read" \in c.modes /\ c.modes \subseteq Mode
  BY <1>5, <1>7
<1>9. Shaped(g)
  BY <1>1, <1>3, <1>4, <1>6, <1>7, <1>8 DEF Shaped
<1>. QED  BY <1>1, <1>3, <1>4, <1>5, <1>9

(* What a delegated grant has of its source and of the authorization.      *)
FromSource(g, a, p, peers, shared) ==
  /\ Shaped(g) /\ g.grantee = p /\ g.grantedBy = Self
  /\ g.tree = a.tree /\ g.modes \subseteq a.modes
  /\ OwnerOf(g.reg) # Self /\ (a.reg # None => g.reg = a.reg)
  /\ a.scope = "Selected" => g.scope = "Selected"
  /\ g.scope = "Selected" /\ a.instances # {} => g.instances = a.instances
  /\ \A c \in g.children : \E x \in a.children : x.tree = c.tree /\ c.modes \subseteq x.modes
  /\ \E q \in peers : \E t \in shared[q] :
       /\ \E s \in Grants(t) : s.reg = g.reg /\ g.modes \subseteq s.modes
       /\ \A c \in g.children : \E s \in Grants(t) : s.reg = c.reg /\ c.modes \subseteq s.modes

LEMMA DelegatedShaped ==
  ASSUME NEW a \in Authorization, NEW p, NEW peers \in SUBSET Peer, NEW shared,
         \A q \in Peer : \A s \in shared[q] : FromPeer(s) /\ s.grantedBy = q,
         NEW g \in DelegatedGrants(a, p, peers, shared)
  PROVE  FromSource(g, a, p, peers, shared)
<1>. DEFINE Source(s) ==
        /\ s.tree = a.tree /\ (a.reg # None => s.reg = a.reg)
        /\ g = [grantee |-> p, grantedBy |-> Self, owner |-> s.owner,
                tree |-> s.tree, reg |-> s.reg,
                scope |-> IF "Selected" \in {a.scope, s.scope} THEN "Selected" ELSE "AllFromRegistry",
                instances |-> IF "Selected" \notin {a.scope, s.scope} THEN {}
                              ELSE IF a.instances # {} THEN a.instances ELSE s.instances,
                modes |-> CommonModes(a.modes, s.modes),
                children |-> UNION {{[tree |-> c.tree, reg |-> k.reg, modes |-> CommonModes(c.modes, k.modes)] :
                                       k \in {k \in s.children : k.tree = c.tree}} :
                                      c \in Inheriting(a)}]
<1>0. PICK q \in peers : \E t \in shared[q] : \E s \in Grants(t) : Source(s)
  BY DEF DelegatedGrants
<1>10. PICK t \in shared[q] : \E s \in Grants(t) : Source(s)
  BY <1>0
<1>1. PICK s \in Grants(t) : Source(s)
  BY <1>10
<1>2. FromPeer(t)
  BY <1>1
<1>3. \A c \in g.children : \E x \in a.children, k \in s.children :
        k.tree = x.tree /\ c = [tree |-> x.tree, reg |-> k.reg, modes |-> CommonModes(x.modes, k.modes)]
  BY <1>1 DEF Inheriting
<1>4. /\ g.grantee = p /\ g.grantedBy = Self /\ g.tree = s.tree /\ g.modes = a.modes \cap s.modes
      /\ g.reg = s.reg
      /\ g.scope = IF "Selected" \in {a.scope, s.scope} THEN "Selected" ELSE "AllFromRegistry"
      /\ g.instances = IF "Selected" \notin {a.scope, s.scope} THEN {}
                       ELSE IF a.instances # {} THEN a.instances ELSE s.instances
  BY <1>1 DEF CommonModes
(* The source is the peer's grant or one that inherits from it.            *)
<1>5. /\ s.reg \in Registration /\ TreeOf[s.reg] = s.tree /\ OwnerOf(s.reg) # Self
      /\ "Read" \in s.modes /\ s.modes \subseteq Mode
      /\ \A i \in s.instances : i \in Instance /\ RegistrationOf[i] = s.reg
      /\ \A k \in s.children : /\ k.reg \in Registration /\ RegistryOf[k.reg] = RegistryOf[s.reg]
                               /\ TreeOf[k.reg] = k.tree
                               /\ "Read" \in k.modes /\ k.modes \subseteq Mode
                               /\ ChildGrant(t, k) \in Grants(t)
  <2>1. CASE s = t
    BY <1>2, <2>1 DEF FromPeer, Shaped, Grants
  <2>2. CASE s # t
    <3>1. PICK k \in t.children : s = ChildGrant(t, k)
      BY <1>1, <2>2 DEF Grants
    <3>2. /\ s.reg = k.reg /\ s.tree = k.tree /\ s.modes = k.modes /\ s.instances = {} /\ s.children = {}
      BY <3>1 DEF ChildGrant
    <3>3. OwnerOf(k.reg) = OwnerOf(t.reg)
      BY <1>2, <3>1 DEF FromPeer, Shaped, OwnerOf
    <3>. QED  BY <1>2, <3>1, <3>2, <3>3 DEF FromPeer, Shaped
  <2>. QED  BY <2>1, <2>2
<1>6. /\ "Read" \in a.modes /\ \A x \in a.children : "Read" \in x.modes
      /\ a.instances # {} => a.scope = "Selected"
      /\ a.scope = "Selected" => a.reg # None /\ \A i \in a.instances : i \in Instance /\ RegistrationOf[i] = a.reg
  BY AuthorizationAssumption
<1>7. \A c \in g.children :
        /\ \E x \in a.children : x.tree = c.tree /\ c.modes \subseteq x.modes
        /\ \E h \in Grants(t) : h.reg = c.reg /\ c.modes \subseteq h.modes
        /\ c.reg \in Registration /\ RegistryOf[c.reg] = RegistryOf[s.reg] /\ TreeOf[c.reg] = c.tree
        /\ "Read" \in c.modes /\ c.modes \subseteq Mode
  <2>. TAKE c \in g.children
  <2>1. PICK x \in a.children, k \in s.children :
          k.tree = x.tree /\ c = [tree |-> x.tree, reg |-> k.reg, modes |-> CommonModes(x.modes, k.modes)]
    BY <1>3
  <2>2. c.tree = x.tree /\ c.reg = k.reg /\ c.modes = x.modes \cap k.modes
    BY <2>1 DEF CommonModes
  <2>3. ChildGrant(t, k) \in Grants(t) /\ ChildGrant(t, k).reg = k.reg /\ ChildGrant(t, k).modes = k.modes
    BY <1>5 DEF ChildGrant
  <2>. QED  BY <1>5, <1>6, <2>1, <2>2, <2>3
<1>8. g.scope = "Selected" => \A i \in g.instances : i \in Instance /\ RegistrationOf[i] = g.reg
  BY <1>1, <1>4, <1>5, <1>6
<1>9. Shaped(g)
  BY <1>4, <1>5, <1>6, <1>7, <1>8 DEF Shaped
<1>. QED  BY <1>1, <1>4, <1>5, <1>6, <1>7, <1>9 DEF FromSource

-----------------------------------------------------------------------------
(* More grants of the peers leave what could be delegated delegable.       *)
LEMMA MoreToDelegate ==
  ASSUME NEW a, NEW p, NEW peers, NEW before, NEW after,
         \A q \in peers : before[q] \subseteq after[q]
  PROVE  DelegatedGrants(a, p, peers, before) \subseteq DelegatedGrants(a, p, peers, after)
<1>1. UNION {Grants(g) : g \in UNION {before[q] : q \in peers \ {p}}}
        \subseteq UNION {Grants(g) : g \in UNION {after[q] : q \in peers \ {p}}}
  OBVIOUS
<1>. QED  BY <1>1 DEF DelegatedGrants

LEMMA SameToDelegate ==
  ASSUME NEW a, NEW p, NEW peers, NEW before, NEW after,
         \A q \in peers : before[q] = after[q]
  PROVE  DelegatedGrants(a, p, peers, before) = DelegatedGrants(a, p, peers, after)
<1>1. DelegatedGrants(a, p, peers, before) \subseteq DelegatedGrants(a, p, peers, after)
  BY MoreToDelegate
<1>2. DelegatedGrants(a, p, peers, after) \subseteq DelegatedGrants(a, p, peers, before)
  BY MoreToDelegate
<1>. QED  BY <1>1, <1>2

LEMMA MoreDelegable ==
  ASSUME NEW g, NEW before, NEW after, before \subseteq after, Delegable(g, before)
  PROVE  Delegable(g, after)
<1>1. UNION {Grants(i) : i \in before} \subseteq UNION {Grants(i) : i \in after}
  OBVIOUS
<1>. QED  BY <1>1 DEF Delegable

(* What the authorizations of an agent generate is made in the sense above. *)
LEMMA OwnMade ==
  ASSUME TypeOK, NEW p, NEW g \in OwnGrants(For(p, members), p)
  PROVE  Made(g) /\ g.grantee = p
<1>1. PICK a \in For(p, members) : Self \in Sources(a) /\ g \in SourceGrants(a, p)
  BY DEF OwnGrants
<1>2. a \in Authorization /\ a \in For(p, once)
  BY <1>1 DEF For, TypeOK
<1>3. g.grantee = p
  BY <1>1, <1>2, SourceShaped
<1>. QED  BY <1>1, <1>2, <1>3 DEF Made

LEMMA ReceivedByPeer ==
  ASSUME TypeOK, Peers
  PROVE  /\ \A q \in Peer : received[q] \subseteq ByPeer[q]
         /\ \A q \in Peer : \A s \in received[q] : FromPeer(s) /\ s.grantedBy = q
         /\ \A q \in Peer : \A s \in ByPeer[q] : FromPeer(s) /\ s.grantedBy = q
BY DEF TypeOK, Peers, ByPeer

LEMMA PeerMade ==
  ASSUME TypeOK, Peers, NEW p, NEW g \in PeerGrants(For(p, members), p, received)
  PROVE  g.grantee = p /\ (Delegable(g, issued) => Made(g))
<1>1. PICK a \in For(p, members) : g \in DelegatedGrants(a, p, Sources(a) \cap Peer, received)
  BY DEF PeerGrants
<1>2. a \in Authorization /\ a \in For(p, once)
  BY <1>1 DEF For, TypeOK
<1>3. Sources(a) \cap Peer \in SUBSET Peer
  OBVIOUS
<1>4. g.grantee = p
  <2>1. \A q \in Peer : \A s \in received[q] : FromPeer(s) /\ s.grantedBy = q
    BY ReceivedByPeer
  <2>2. g \in DelegatedGrants(a, p, Sources(a) \cap Peer, received)
    BY <1>1
  <2>3. FromSource(g, a, p, Sources(a) \cap Peer, received)
    BY <1>2, <1>3, <2>1, <2>2, DelegatedShaped
  <2>. QED  BY <2>3 DEF FromSource
<1>5. g \in DelegatedGrants(a, p, Sources(a) \cap Peer, ByPeer)
  BY <1>1, <1>3, ReceivedByPeer, MoreToDelegate
<1>. QED  BY <1>2, <1>4, <1>5 DEF Made

(* What was made once stays explained: authorizations, former members and  *)
(* the peers' grants only grow.                                            *)
LEMMA StaysMade ==
  ASSUME auths \subseteq auths', issued \subseteq issued', \A r \in Role : once[r] \subseteq once'[r],
         NEW g, Made(g)
  PROVE  Made(g)'
<1>1. PICK a \in For(g.grantee, once) :
        \/ Self \in Sources(a) /\ g \in SourceGrants(a, g.grantee)
        \/ /\ g \in DelegatedGrants(a, g.grantee, Sources(a) \cap Peer, ByPeer)
           /\ Delegable(g, issued)
  BY DEF Made
<1>2. a \in For(g.grantee, once)'
  BY <1>1 DEF For
<1>3. CASE Self \in Sources(a) /\ g \in SourceGrants(a, g.grantee)
  BY <1>2, <1>3 DEF Made
<1>4. CASE g \in DelegatedGrants(a, g.grantee, Sources(a) \cap Peer, ByPeer) /\ Delegable(g, issued)
  <2>1. \A q \in Sources(a) \cap Peer : ByPeer[q] \subseteq ByPeer'[q]
    BY DEF ByPeer
  <2>2. g \in DelegatedGrants(a, g.grantee, Sources(a) \cap Peer, ByPeer')
    BY <1>4, <2>1, MoreToDelegate
  <2>3. Delegable(g, issued')
    BY <1>4, MoreDelegable
  <2>. QED  BY <1>2, <2>2, <2>3 DEF Made
<1>. QED  BY <1>1, <1>3, <1>4

LEMMA AllStayMade ==
  ASSUME AccessInv, auths \subseteq auths', issued \subseteq issued',
         \A r \in Role : once[r] \subseteq once'[r],
         NEW new, grants' \subseteq grants \cup new, \A g \in new : Made(g)
  PROVE  \A g \in grants' : Made(g)'
BY StaysMade DEF AccessInv

LEMMA NoNewGrants ==
  ASSUME AccessInv, auths \subseteq auths', issued \subseteq issued',
         \A r \in Role : once[r] \subseteq once'[r], grants' = grants
  PROVE  \A g \in grants' : Made(g)'
BY StaysMade DEF AccessInv

(* An agent whose authorizations, links and sources a step leaves alone.   *)
LEMMA StaysFresh ==
  ASSUME NEW p, Fresh(p), links'[p] = links[p], For(p, members)' = For(p, members),
         \A a \in For(p, members) : \A q \in Sources(a) \cap Peer : received[q] = received'[q]
  PROVE  Fresh(p)'
<1>1. \A a \in For(p, members) :
        DelegatedGrants(a, p, Sources(a) \cap Peer, received)
          = DelegatedGrants(a, p, Sources(a) \cap Peer, received')
  BY SameToDelegate
<1>2. PeerGrants(For(p, members), p, received) = PeerGrants(For(p, members), p, received')
  BY <1>1 DEF PeerGrants
<1>. QED  BY <1>2 DEF Fresh

-----------------------------------------------------------------------------
LEMMA AccessInit == ASSUME Init PROVE AccessInv
<1>1. TypeOK
  BY ReferenceAssumption DEF Init, TypeOK
<1>2. \A p \in Agent : For(p, members) = {}
  BY DEF Init, For
<1>3. \A p \in Agent : Fresh(p)
  BY <1>2 DEF Init, Fresh, OwnGrants, PeerGrants
<1>. QED  BY <1>1, <1>3 DEF Init, AccessInv, Peers

LEMMA AuthorizeKeeps ==
  ASSUME AccessInv, NEW a \in Authorization, Authorize(a)
  PROVE  AccessInv'
<1>1. TypeOK'
  <2>1. (IF a.grantee \in Role THEN members[a.grantee] ELSE {a.grantee}) \subseteq Agent
    BY AuthorizationAssumption DEF AccessInv, TypeOK
  <2>. QED  BY <2>1 DEF AccessInv, TypeOK, Authorize
<1>2. Peers'
  BY DEF AccessInv, Peers, FromPeer, Shaped, OwnerOf, Authorize
<1>3. \A g \in grants' : Made(g)'
  <2>1. auths \subseteq auths' /\ issued \subseteq issued' /\ once' = once /\ grants' = grants
    BY DEF Authorize
  <2>. QED  BY <2>1, NoNewGrants
<1>4. ASSUME NEW p \in Agent \ stale' PROVE Fresh(p)'
  <2>1. p \in Agent \ stale /\ Fresh(p) /\ links' = links /\ received' = received
    BY DEF Authorize, AccessInv
  <2>2. ~ (a.grantee = p \/ \E r \in Role : r = a.grantee /\ p \in members[r])
    BY GranteesAssumption DEF Authorize
  <2>3. For(p, members)' = For(p, members)
    BY <2>2 DEF For, Authorize
  <2>. QED  BY <2>1, <2>3, StaysFresh
<1>. QED  BY <1>1, <1>2, <1>3, <1>4 DEF AccessInv

LEMMA ChangeMembersKeeps ==
  ASSUME AccessInv, NEW r \in Role, NEW new \in SUBSET (Agent \ Application), ChangeMembers(r, new)
  PROVE  AccessInv'
<1>0. /\ \A q \in Role : members'[q] = IF q = r THEN new ELSE members[q]
      /\ \A q \in Role : once'[q] = IF q = r THEN once[r] \cup new ELSE once[q]
      /\ members' \in [Role -> SUBSET Agent] /\ once' \in [Role -> SUBSET Agent]
  BY DEF AccessInv, TypeOK, ChangeMembers
<1>1. TypeOK'
  BY <1>0 DEF AccessInv, TypeOK, ChangeMembers
<1>2. Peers'
  BY DEF AccessInv, Peers, FromPeer, Shaped, OwnerOf, ChangeMembers
<1>3. \A g \in grants' : Made(g)'
  <2>1. auths \subseteq auths' /\ issued \subseteq issued' /\ grants' = grants
    BY DEF ChangeMembers
  <2>2. \A q \in Role : once[q] \subseteq once'[q]
    BY <1>0
  <2>. QED  BY <2>1, <2>2, NoNewGrants
<1>4. ASSUME NEW p \in Agent \ stale' PROVE Fresh(p)'
  <2>1. p \in Agent \ stale /\ Fresh(p) /\ links' = links /\ received' = received
    BY DEF ChangeMembers, AccessInv
  <2>2. p \in members[r] <=> p \in new
    BY DEF ChangeMembers
  <2>3. For(p, members)' = For(p, members)
    BY <1>0, <2>2 DEF For, ChangeMembers
  <2>. QED  BY <2>1, <2>3, StaysFresh
<1>. QED  BY <1>1, <1>2, <1>3, <1>4 DEF AccessInv

LEMMA SharedFromPeer ==
  ASSUME NEW q \in Peer, NEW g \in UNION Shared[q]
  PROVE  FromPeer(g) /\ g.grantedBy = q
BY SharedAssumption DEF FromPeer, Shaped

LEMMA ShareKeeps ==
  ASSUME AccessInv, NEW q \in Peer, NEW new \in Shared[q], Share(q, new)
  PROVE  AccessInv'
<1>0. \A p \in Peer : received'[p] = IF p = q THEN new ELSE received[p]
  BY DEF AccessInv, TypeOK, Share
<1>1. TypeOK'
  <2>1. received' \in [Peer -> SUBSET issued']
    BY DEF AccessInv, TypeOK, Share
  <2>. QED  BY <2>1 DEF AccessInv, TypeOK, Share
<1>2. Peers'
  <2>1. \A g \in new : FromPeer(g) /\ g.grantedBy = q
    BY SharedFromPeer
  <2>2. \A g \in issued' : FromPeer(g)
    BY <2>1 DEF AccessInv, Peers, Share
  <2>3. \A p \in Peer : \A g \in received'[p] : g.grantedBy = p
    BY <1>0, <2>1 DEF AccessInv, Peers
  <2>. QED  BY <2>2, <2>3 DEF Peers
<1>3. \A g \in grants' : Made(g)'
  <2>1. auths \subseteq auths' /\ issued \subseteq issued' /\ once' = once /\ grants' = grants
    BY DEF Share
  <2>. QED  BY <2>1, NoNewGrants
<1>4. ASSUME NEW p \in Agent \ stale' PROVE Fresh(p)'
  <2>1. p \in Agent \ stale /\ Fresh(p) /\ links' = links
    BY DEF Share, AccessInv
  <2>2. \A a \in For(p, members) : q \notin Sources(a)
    BY DEF Share
  <2>3. For(p, members)' = For(p, members)
    BY DEF For, Share
  <2>4. \A a \in For(p, members) : \A o \in Sources(a) \cap Peer : received[o] = received'[o]
    BY <1>0, <2>2
  <2>. QED  BY <2>1, <2>3, <2>4, StaysFresh
<1>. QED  BY <1>1, <1>2, <1>3, <1>4 DEF AccessInv

(* A step that changes none of what grants are generated from.             *)
LEMMA RestKeeps ==
  ASSUME AccessInv, UNCHANGED <<auths, members, once, grants, links, issued, received, stale>>,
         Given \subseteq refers', refers' \subseteq Reference
  PROVE  AccessInv'
<1>1. TypeOK'
  BY DEF AccessInv, TypeOK
<1>2. Peers'
  BY DEF AccessInv, Peers, FromPeer, Shaped, OwnerOf
<1>3. \A g \in grants' : Made(g)'
  <2>1. auths \subseteq auths' /\ issued \subseteq issued' /\ once' = once /\ grants' = grants
    OBVIOUS
  <2>. QED  BY <2>1, NoNewGrants
<1>4. ASSUME NEW p \in Agent \ stale' PROVE Fresh(p)'
  <2>1. p \in Agent \ stale /\ Fresh(p) /\ links' = links /\ received' = received
    BY DEF AccessInv
  <2>2. For(p, members)' = For(p, members)
    BY DEF For
  <2>. QED  BY <2>1, <2>2, StaysFresh
<1>. QED  BY <1>1, <1>2, <1>3, <1>4 DEF AccessInv

(* A step that stores grants for one agent, and may relink its registration. *)
LEMMA RegenerationKeeps ==
  ASSUME AccessInv, UNCHANGED <<auths, members, once, issued, received, refers>>,
         NEW p \in Agent, stale \subseteq stale' \cup {p}, stale' \subseteq stale,
         NEW new, grants' = grants \cup new, \A g \in new : Made(g) /\ g.grantee = p,
         NEW linked, linked \subseteq grants', \A g \in linked : g.grantee = p,
         links' = [links EXCEPT ![p] = linked],
         p \in stale' \/ linked = OwnGrants(For(p, members), p) \cup PeerGrants(For(p, members), p, received)
  PROVE  AccessInv'
<1>0. /\ links \in [Agent -> SUBSET grants]
      /\ \A x \in Agent : links'[x] = IF x = p THEN linked ELSE links[x]
  BY DEF AccessInv, TypeOK
<1>1. TypeOK'
  <2>1. links' \in [Agent -> SUBSET grants']
    BY <1>0
  <2>2. \A x \in Agent : \A g \in links'[x] : g.grantee = x
    BY <1>0 DEF AccessInv, TypeOK
  <2>. QED  BY <2>1, <2>2 DEF AccessInv, TypeOK
<1>2. Peers'
  BY DEF AccessInv, Peers, FromPeer, Shaped, OwnerOf
<1>3. \A g \in grants' : Made(g)'
  <2>1. auths \subseteq auths' /\ issued \subseteq issued' /\ once' = once /\ grants' \subseteq grants \cup new
    OBVIOUS
  <2>. QED  BY <2>1, AllStayMade
<1>4. ASSUME NEW x \in Agent \ stale' PROVE Fresh(x)'
  <2>1. For(x, members)' = For(x, members)
    BY DEF For
  <2>2. CASE x = p
    BY <1>0, <2>1, <2>2 DEF Fresh
  <2>3. CASE x # p
    <3>1. Fresh(x) /\ links'[x] = links[x]
      BY <1>0, <2>3 DEF AccessInv
    <3>. QED  BY <2>1, <3>1, StaysFresh
  <2>. QED  BY <2>2, <2>3
<1>. QED  BY <1>1, <1>2, <1>3, <1>4 DEF AccessInv

LEMMA ClearKeeps == ASSUME AccessInv, NEW p \in Agent, Clear(p) PROVE AccessInv'
<1>. DEFINE none == {}
<1>1. p \in stale' \/ none = OwnGrants(For(p, members), p) \cup PeerGrants(For(p, members), p, received)
  BY DEF Clear, OwnGrants, PeerGrants
<1>2. UNCHANGED <<auths, members, once, issued, received, refers>> /\ stale' = stale \ {p} /\ grants' = grants
      /\ links' = [links EXCEPT ![p] = none]
  BY DEF Clear
<1>3. \A g \in none : Made(g) /\ g.grantee = p
  OBVIOUS
<1>5. \A g \in none : g.grantee = p
  OBVIOUS
<1>4. grants' = grants \cup none /\ none \subseteq grants' /\ stale \subseteq stale' \cup {p} /\ stale' \subseteq stale
  BY <1>2
<1>. HIDE DEF none
<1>. QED  BY <1>1, <1>2, <1>3, <1>4, <1>5, RegenerationKeeps

LEMMA RegenerateKeeps == ASSUME AccessInv, NEW p \in Agent, Regenerate(p) PROVE AccessInv'
<1>. DEFINE new == OwnGrants(For(p, members), p) \cup PeerGrants(For(p, members), p, received)
<1>1. \A g \in new : Made(g) /\ g.grantee = p
  BY OwnMade, PeerMade DEF AccessInv, Regenerate
<1>2. /\ UNCHANGED <<auths, members, once, issued, received, refers>>
      /\ stale' = stale \ {p} /\ grants' = grants \cup new
      /\ links' = [links EXCEPT ![p] = new]
  BY DEF Regenerate
<1>. HIDE DEF new
<1>3. stale \subseteq stale' \cup {p} /\ stale' \subseteq stale /\ new \subseteq grants'
  BY <1>2
<1>4. p \in stale' \/ new = OwnGrants(For(p, members), p) \cup PeerGrants(For(p, members), p, received)
  BY DEF new
<1>5. \A g \in new : g.grantee = p
  BY <1>1
<1>. QED  BY <1>1, <1>2, <1>3, <1>4, <1>5, RegenerationKeeps

LEMMA GetStuckKeeps == ASSUME AccessInv, NEW p \in Agent, GetStuck(p) PROVE AccessInv'
<1>1. PICK before \in SUBSET {g \in PeerGrants(For(p, members), p, received) : Delegable(g, issued)} :
        grants' = grants \cup OwnGrants(For(p, members), p) \cup before
  BY DEF GetStuck
<1>. DEFINE new == OwnGrants(For(p, members), p) \cup before
<1>2. \A g \in new : Made(g) /\ g.grantee = p
  BY <1>1, OwnMade, PeerMade DEF AccessInv
<1>3. grants' = grants \cup new
  BY <1>1
<1>. HIDE DEF new
<1>4. /\ UNCHANGED <<auths, members, once, issued, received, refers>>
      /\ p \in stale' /\ stale' = stale /\ links' = links
  BY DEF GetStuck
<1>5. /\ links[p] \subseteq grants' /\ \A g \in links[p] : g.grantee = p
      /\ links' = [links EXCEPT ![p] = links[p]]
  BY <1>3, <1>4 DEF AccessInv, TypeOK
<1>. QED  BY <1>2, <1>3, <1>4, <1>5, RegenerationKeeps

LEMMA AccessNext == ASSUME AccessInv, [Next]_vars PROVE AccessInv'
<1>1. ASSUME NEW a \in Authorization, Authorize(a) PROVE AccessInv'
  BY <1>1, AuthorizeKeeps
<1>2. ASSUME NEW r \in Role, NEW new \in SUBSET (Agent \ Application), ChangeMembers(r, new) PROVE AccessInv'
  BY <1>2, ChangeMembersKeeps
<1>3. ASSUME NEW q \in Peer, NEW new \in Shared[q], Share(q, new) PROVE AccessInv'
  BY <1>3, ShareKeeps
<1>4. ASSUME NEW e \in Reference \ Given, Refer(e) PROVE AccessInv'
  <2>1. Given \subseteq refers' /\ refers' \subseteq Reference
    BY <1>4 DEF AccessInv, TypeOK, Refer
  <2>. QED  BY <1>4, <2>1, RestKeeps DEF Refer
<1>5. ASSUME NEW p \in Agent, Clear(p) \/ Regenerate(p) \/ GetStuck(p) PROVE AccessInv'
  BY <1>5, ClearKeeps, RegenerateKeeps, GetStuckKeeps
<1>6. CASE UNCHANGED vars
  BY <1>6, RestKeeps DEF vars, AccessInv, TypeOK
<1>. QED  BY <1>1, <1>2, <1>3, <1>4, <1>5, <1>6 DEF Next

LEMMA AccessInvariant == Spec => []AccessInv
BY AccessInit, AccessNext, PTL DEF Spec

(* Authorizations and members stay what may be authorized, a registration  *)
(* links stored grants of its own agent only, and what a peer's            *)
(* registration links is stored.                                           *)
THEOREM AccessTypeCorrect == Spec => []TypeOK
<1>1. AccessInv => TypeOK
  BY DEF AccessInv
<1>. QED  BY <1>1, AccessInvariant, PTL

-----------------------------------------------------------------------------
(* A grant of the owner's comes from one authorization, be the data the    *)
(* owner's or a peer's.                                                    *)
MadeFrom(g, a) ==
  \/ Self \in Sources(a) /\ g \in SourceGrants(a, g.grantee)
  \/ /\ g \in DelegatedGrants(a, g.grantee, Sources(a) \cap Peer, ByPeer)
     /\ Delegable(g, issued)

(* What the peers it is about shared is where a delegated grant comes from. *)
LEMMA DelegatedFrom ==
  ASSUME AccessInv, NEW a \in Authorization, NEW g,
         g \in DelegatedGrants(a, g.grantee, Sources(a) \cap Peer, ByPeer)
  PROVE  /\ FromSource(g, a, g.grantee, Sources(a) \cap Peer, ByPeer)
         /\ \E h \in SharedBy(Sources(a)) : h.reg = g.reg /\ g.modes \subseteq h.modes
         /\ \A c \in g.children :
              \E h \in SharedBy(Sources(a)) : h.reg = c.reg /\ c.modes \subseteq h.modes
<1>1. FromSource(g, a, g.grantee, Sources(a) \cap Peer, ByPeer)
  <2>1. \A q \in Peer : \A s \in ByPeer[q] : FromPeer(s) /\ s.grantedBy = q
    BY ReceivedByPeer DEF AccessInv
  <2>2. Sources(a) \cap Peer \in SUBSET Peer
    OBVIOUS
  <2>. QED  BY <2>1, <2>2, DelegatedShaped
<1>2. PICK q \in Sources(a) \cap Peer : \E t \in ByPeer[q] :
        /\ \E s \in Grants(t) : s.reg = g.reg /\ g.modes \subseteq s.modes
        /\ \A c \in g.children : \E s \in Grants(t) : s.reg = c.reg /\ c.modes \subseteq s.modes
  BY <1>1 DEF FromSource
<1>3. PICK t \in ByPeer[q] :
        /\ \E s \in Grants(t) : s.reg = g.reg /\ g.modes \subseteq s.modes
        /\ \A c \in g.children : \E s \in Grants(t) : s.reg = c.reg /\ c.modes \subseteq s.modes
  BY <1>2
<1>4. \A s \in Grants(t) : s \in SharedBy(Sources(a))
  BY <1>2, <1>3 DEF SharedBy, ByPeer
<1>. QED  BY <1>1, <1>3, <1>4

LEMMA MadeShaped ==
  ASSUME AccessInv, NEW a \in Authorization, NEW g, MadeFrom(g, a)
  PROVE  /\ Shaped(g) /\ g.grantedBy = Self /\ g.tree = a.tree /\ g.modes \subseteq a.modes
         /\ (a.reg # None => g.reg = a.reg)
<1>1. CASE g \in SourceGrants(a, g.grantee)
  BY <1>1, SourceShaped
<1>2. CASE g \in DelegatedGrants(a, g.grantee, Sources(a) \cap Peer, ByPeer)
  BY <1>2, DelegatedFrom DEF FromSource
<1>. QED  BY <1>1, <1>2 DEF MadeFrom

(* What a grant covers by itself, its authorization reaches.               *)
LEMMA TopReaches ==
  ASSUME AccessInv, NEW a \in Authorization, NEW g, MadeFrom(g, a),
         NEW i \in Instance, RegistrationOf[i] = g.reg, g.scope = "Selected" => i \in g.instances,
         NEW mode \in g.modes
  PROVE  Reaches(a, i, mode) /\ Selects(a, i)
<1>1. CASE Self \in Sources(a) /\ g \in SourceGrants(a, g.grantee)
  BY <1>1, SourceShaped DEF Reaches, Selects
<1>2. CASE /\ g \in DelegatedGrants(a, g.grantee, Sources(a) \cap Peer, ByPeer)
           /\ Delegable(g, issued)
  <2>1. PICK h \in SharedBy(Sources(a)) : h.reg = g.reg /\ g.modes \subseteq h.modes
    BY <1>2, DelegatedFrom
  <2>2. PICK s \in UNION {Grants(t) : t \in issued} : CoveredBy(g, s)
    BY <1>2 DEF Delegable, Grants
  <2>3. s \in SharedBy(Peer)
    BY <2>2 DEF SharedBy, AccessInv, Peers, FromPeer
  <2>4. g.scope \in {"Selected", "AllFromRegistry"}
    BY MadeShaped DEF Shaped
  <2>5. s.reg = g.reg /\ (s.scope = "Selected" => i \in s.instances)
    BY <2>2, <2>4 DEF CoveredBy
  <2>6. Reaches(a, i, mode)
    BY <2>1, <2>3, <2>5 DEF Reaches
  <2>7. FromSource(g, a, g.grantee, Sources(a) \cap Peer, ByPeer)
    BY <1>2, DelegatedFrom
  <2>. QED  BY <2>6, <2>7 DEF Selects, FromSource
<1>. QED  BY <1>1, <1>2 DEF MadeFrom

(* ... and what its children cover, by what inherits from it.              *)
LEMMA ChildReaches ==
  ASSUME AccessInv, NEW a \in Authorization, NEW g, MadeFrom(g, a),
         NEW c \in g.children, NEW i \in Instance, RegistrationOf[i] = c.reg, NEW mode \in c.modes
  PROVE  /\ Reaches(a, i, mode)
         /\ \E x \in a.children : TreeOf[c.reg] = x.tree /\ mode \in x.modes
<1>0. TreeOf[c.reg] = c.tree /\ OwnerOf(c.reg) = OwnerOf(g.reg)
  BY MadeShaped DEF Shaped, OwnerOf
<1>1. CASE Self \in Sources(a) /\ g \in SourceGrants(a, g.grantee)
  <2>1. OwnerOf(g.reg) = Self /\ \E x \in a.children : x.tree = c.tree /\ x.modes = c.modes
    BY <1>1, SourceShaped
  <2>. QED  BY <1>0, <1>1, <2>1 DEF Reaches
<1>2. CASE /\ g \in DelegatedGrants(a, g.grantee, Sources(a) \cap Peer, ByPeer)
           /\ Delegable(g, issued)
  <2>0. /\ FromSource(g, a, g.grantee, Sources(a) \cap Peer, ByPeer)
        /\ \A k \in g.children :
             \E h \in SharedBy(Sources(a)) : h.reg = k.reg /\ k.modes \subseteq h.modes
    BY <1>2, DelegatedFrom
  <2>1. PICK h \in SharedBy(Sources(a)) : h.reg = c.reg /\ c.modes \subseteq h.modes
    BY <2>0
  <2>2. PICK s \in UNION {Grants(t) : t \in issued} : CoveredBy(ChildGrant(g, c), s)
    BY <1>2 DEF Delegable, Grants
  <2>3. s \in SharedBy(Peer)
    BY <2>2 DEF SharedBy, AccessInv, Peers, FromPeer
  <2>4. s.reg = c.reg /\ s.scope = "Inherited"
    BY <2>2 DEF CoveredBy, ChildGrant
  <2>5. Reaches(a, i, mode)
    BY <2>1, <2>3, <2>4 DEF Reaches
  <2>6. \E x \in a.children : x.tree = c.tree /\ c.modes \subseteq x.modes
    BY <2>0 DEF FromSource
  <2>. QED  BY <1>0, <2>5, <2>6
<1>. QED  BY <1>1, <1>2 DEF MadeFrom

-----------------------------------------------------------------------------
(* Who asks is answered from grants of peers to the owner, when the owner  *)
(* asks, or from grants that come from an authorization of its own.        *)
From(g, cred) ==
  \/ g \in issued /\ cred.uas /\ cred.agent = Self
  \/ \E a \in Ever(cred) : MadeFrom(g, a)

LEMMA HeldFrom ==
  ASSUME AccessInv, NEW cred \in Asking, NEW g \in Stored, GrantedTo(g, cred)
  PROVE  From(g, cred)
<1>0. \/ cred.uas
      \/ ~ cred.uas /\ cred.client \in Application
  BY DEF Asking
<1>1. CASE g \in issued
  <2>1. g.grantee = Self /\ g.grantedBy \in Peer
    BY <1>1 DEF AccessInv, Peers, FromPeer
  <2>. QED  BY <1>0, <1>1, <2>1, GranteesAssumption DEF From, GrantedTo
<1>2. CASE g \in grants
  <2>1. PICK a \in For(g.grantee, once) : MadeFrom(g, a)
    BY <1>2 DEF AccessInv, Made, MadeFrom
  <2>2. a \in Authorization
    BY <2>1 DEF For, AccessInv, TypeOK
  <2>3. g.grantedBy = Self
    BY <2>1, <2>2, MadeShaped
  <2>4. a \in Ever(cred)
    BY <1>0, <2>1, <2>3 DEF Ever, GrantedTo
  <2>. QED  BY <2>1, <2>4 DEF From
<1>. QED  BY <1>1, <1>2 DEF Stored

LEMMA StoredShaped ==
  ASSUME AccessInv, NEW g \in Stored
  PROVE  Shaped(g) /\ g.grantedBy \in {Self} \cup Peer
<1>1. CASE g \in issued
  BY <1>1 DEF AccessInv, Peers, FromPeer
<1>2. CASE g \in grants
  <2>1. PICK a \in For(g.grantee, once) : MadeFrom(g, a)
    BY <1>2 DEF AccessInv, Made, MadeFrom
  <2>2. a \in Authorization
    BY <2>1 DEF For, AccessInv, TypeOK
  <2>. QED  BY <2>1, <2>2, MadeShaped
<1>. QED  BY <1>1, <1>2 DEF Stored

LEMMA EverAuthorized ==
  ASSUME AccessInv, NEW cred, NEW a \in Ever(cred) PROVE a \in Authorization
BY DEF Ever, For, AccessInv, TypeOK

(* Nothing is granted to the public.                                       *)
LEMMA NothingPublic ==
  ASSUME AccessInv, NEW cred PROVE Held(Stored, cred).public = {}
<1>1. \A g \in Stored : ~ GrantedTo(g, Public)
  BY StoredShaped, OwnersDistinct DEF GrantedTo, Public
<1>. QED  BY <1>1 DEF Held, Entries

(* What findGrant finds is stored and granted to who asks.                 *)
LEMMA Found ==
  ASSUME AccessInv, NEW cred, NEW scope, NEW r, NEW picked,
         NEW e \in FindGrant(Held(Stored, cred), scope, r, picked)
  PROVE  /\ e.top \in Stored /\ GrantedTo(e.top, cred) /\ Shaped(e.top)
         /\ e.grant = e.top \/ \E c \in e.top.children : e.grant = ChildGrant(e.top, c)
         /\ e.grant.scope = scope /\ e.grant.reg = r /\ picked \subseteq e.grant.instances
<1>1. /\ e \in Held(Stored, cred).own
      /\ e.grant.scope = scope /\ e.grant.reg = r /\ picked \subseteq e.grant.instances
  BY NothingPublic DEF FindGrant
<1>2. PICK g \in Stored : GrantedTo(g, cred) /\ \E h \in Grants(g) : e = [grant |-> h, top |-> g]
  BY <1>1 DEF Held, Entries
<1>. QED  BY <1>1, <1>2, StoredShaped DEF Grants

LEMMA FoundTop ==
  ASSUME AccessInv, NEW cred \in Asking, NEW scope, scope # "Inherited", NEW r, NEW picked,
         NEW e \in FindGrant(Held(Stored, cred), scope, r, picked),
         NEW i \in Instance, RegistrationOf[i] = r, scope = "Selected" => i \in picked,
         NEW mode \in e.grant.modes
  PROVE  MayDirectly(cred, i, mode)
<1>. DEFINE g == e.top
<1>0. /\ g \in Stored /\ GrantedTo(g, cred) /\ Shaped(g)
      /\ e.grant = g \/ \E c \in g.children : e.grant = ChildGrant(g, c)
      /\ e.grant.scope = scope /\ e.grant.reg = r /\ picked \subseteq e.grant.instances
  BY Found
<1>01. e.grant = g
  <2>1. \A c : ChildGrant(g, c).scope = "Inherited"
    BY DEF ChildGrant
  <2>. HIDE DEF g
  <2>. QED  BY <1>0, <2>1
<1>1. /\ g \in Stored /\ GrantedTo(g, cred) /\ Shaped(g) /\ e.grant = g
      /\ g.scope = scope /\ g.reg = r /\ picked \subseteq g.instances
  BY <1>0, <1>01
<1>2. From(g, cred)
  BY <1>1, HeldFrom
<1>. HIDE DEF g
<1>3. mode \in g.modes /\ RegistrationOf[i] = g.reg /\ (g.scope = "Selected" => i \in g.instances)
  BY <1>1
<1>4. CASE g \in issued /\ cred.uas /\ cred.agent = Self
  BY <1>3, <1>4 DEF MayDirectly
<1>5. ASSUME NEW a \in Ever(cred), MadeFrom(g, a) PROVE MayDirectly(cred, i, mode)
  <2>1. a \in Authorization
    BY EverAuthorized
  <2>2. Reaches(a, i, mode) /\ Selects(a, i)
    BY <1>3, <1>5, <2>1, TopReaches
  <2>3. g.tree = a.tree /\ g.modes \subseteq a.modes /\ (a.reg # None => g.reg = a.reg)
    BY <1>5, <2>1, MadeShaped
  <2>4. TreeOf[g.reg] = g.tree
    BY <1>1 DEF Shaped
  <2>. QED  BY <1>3, <2>2, <2>3, <2>4 DEF MayDirectly
<1>. QED  BY <1>2, <1>4, <1>5 DEF From

LEMMA FoundBelow ==
  ASSUME AccessInv, NEW cred \in Asking, NEW i \in Instance, NEW answers,
         NEW e \in FindGrant(Held(Stored, cred), "Inherited", RegistrationOf[i], {}),
         NEW mode \in e.grant.modes,
         NEW p \in Instance, <<p, i>> \in refers, RegistrationOf[p] = e.top.reg,
         "Read" \in UNION answers[p]
  PROVE  MayBelow(cred, i, mode, answers)
<1>. DEFINE g == e.top
            r == RegistrationOf[i]
            above(tree) == \E q \in Instance : /\ <<q, i>> \in refers /\ "Read" \in UNION answers[q]
                                               /\ TreeOf[RegistrationOf[q]] = tree
                                               /\ RegistryOf[RegistrationOf[q]] = RegistryOf[r]
<1>1. /\ g \in Stored /\ GrantedTo(g, cred) /\ Shaped(g)
      /\ e.grant = g \/ \E c \in g.children : e.grant = ChildGrant(g, c)
      /\ e.grant.scope = "Inherited" /\ e.grant.reg = r
  BY Found
<1>2. PICK c \in g.children : e.grant = ChildGrant(g, c)
  BY <1>1 DEF Shaped
<1>3. c.reg = r /\ mode \in c.modes /\ RegistrationOf[p] = g.reg
  BY <1>1, <1>2 DEF ChildGrant
<1>4. From(g, cred)
  BY <1>1, HeldFrom
<1>. HIDE DEF g
<1>5. above(g.tree)
  BY <1>1, <1>3 DEF Shaped
<1>6. CASE g \in issued /\ cred.uas /\ cred.agent = Self
  BY <1>3, <1>5, <1>6 DEF MayBelow
<1>7. ASSUME NEW a \in Ever(cred), MadeFrom(g, a) PROVE MayBelow(cred, i, mode, answers)
  <2>1. a \in Authorization
    BY EverAuthorized
  <2>2. Reaches(a, i, mode) /\ \E x \in a.children : TreeOf[r] = x.tree /\ mode \in x.modes
    BY <1>3, <1>7, <2>1, ChildReaches
  <2>3. above(a.tree)
    BY <1>5, <1>7, <2>1, MadeShaped
  <2>. QED  BY <2>2, <2>3 DEF MayBelow
<1>. QED  BY <1>4, <1>6, <1>7 DEF From

(* The modes of a registration, of a resource, and of what inherits.       *)
LEMMA ModesFound ==
  ASSUME NEW entries, NEW m \in ModesOf(entries), NEW mode \in m
  PROVE  \E e \in entries : mode \in e.grant.modes
BY DEF ModesOf

LEMMA InheritedFound ==
  ASSUME NEW held, NEW i, NEW refs, NEW answers,
         NEW m \in InheritedModes(held, i, refs, answers), "astray" \notin m, NEW mode \in m
  PROVE  \E e \in FindGrant(held, "Inherited", RegistrationOf[i], {}) :
           /\ mode \in e.grant.modes
           /\ \E p \in Instance : /\ <<p, i>> \in refs /\ RegistrationOf[p] = e.top.reg
                                  /\ \E above \in answers[p] : "Read" \in above /\ "astray" \notin above
<1>. DEFINE found == FindGrant(held, "Inherited", RegistrationOf[i], {})
            parents(e) == Referring(i, e.top.tree, refs)
            below(e, p) == IF RegistrationOf[p] # e.top.reg THEN {{"astray"}}
                           ELSE {IF "astray" \in above THEN {"astray"}
                                 ELSE IF "Read" \in above THEN e.grant.modes ELSE {} : above \in answers[p]}
<1>1. m \in IF found = {} THEN {{}}
            ELSE UNION {IF parents(e) = {} THEN {{}} ELSE UNION {below(e, p) : p \in parents(e)} :
                          e \in found}
  BY DEF InheritedModes
<1>. HIDE DEF found, below
<1>2. PICK e \in found : m \in IF parents(e) = {} THEN {{}} ELSE UNION {below(e, p) : p \in parents(e)}
  BY <1>1
<1>3. PICK p \in parents(e) : m \in below(e, p)
  BY <1>2
<1>4. /\ RegistrationOf[p] = e.top.reg
      /\ \E above \in answers[p] : /\ "Read" \in above /\ "astray" \notin above
                                   /\ m = e.grant.modes
  BY <1>3 DEF below
<1>. QED  BY <1>2, <1>3, <1>4 DEF found, Referring

-----------------------------------------------------------------------------
LEMMA References == ASSUME TypeOK PROVE WellFounded(refers)
BY ReferenceAssumption DEF TypeOK, WellFounded

LEMMA InstanceExplained ==
  ASSUME AccessInv, NEW cred \in Asking, NEW i \in Instance,
         NEW mode \in UNION InstanceAnswers(Stored, refers, cred)[i]
  PROVE  \/ MayDirectly(cred, i, mode)
         \/ MayBelow(cred, i, mode, InstanceAnswers(Stored, refers, cred))
         \/ mode = "Read" /\ IsAdmin(cred, RegistrationOf[i])
<1>. DEFINE held == Held(Stored, cred)
            outcomes == Outcomes(held, refers)
            answers == InstanceAnswers(Stored, refers, cred)
<1>1. \A p \in Instance : answers[p] = {IF "astray" \in m THEN {} ELSE m : m \in outcomes[p]}
  BY DEF InstanceAnswers
<1>2. outcomes[i] = AnswersFor(held, i, refers, outcomes)
  BY References, OutcomesUnfold DEF AccessInv
<1>3. held.by = cred
  BY DEF Held
<1>. HIDE DEF answers, outcomes
<1>4. PICK m \in AnswersFor(held, i, refers, outcomes) : "astray" \notin m /\ mode \in m
  BY <1>1, <1>2 DEF answers
<1>. HIDE DEF held
<1>5. PICK picked \in ResourceModes(held, i), all \in RegistrationModes(held, RegistrationOf[i]),
           inherited \in InheritedModes(held, i, refers, outcomes) :
        m = IF "astray" \in inherited THEN {"astray"}
            ELSE picked \cup all \cup inherited \cup AdminModes(RegistryOf[RegistrationOf[i]], held.by)
  BY <1>4 DEF AnswersFor
<1>6. /\ "astray" \notin inherited
      /\ m = picked \cup all \cup inherited \cup AdminModes(RegistryOf[RegistrationOf[i]], cred)
  BY <1>3, <1>4, <1>5
<1>7. CASE mode \in picked
  <2>1. PICK e \in FindGrant(held, "Selected", RegistrationOf[i], {i}) : mode \in e.grant.modes
    BY <1>5, <1>7, ModesFound DEF ResourceModes
  <2>. QED  BY <2>1, FoundTop DEF held
<1>8. CASE mode \in all
  <2>1. PICK e \in FindGrant(held, "AllFromRegistry", RegistrationOf[i], {}) : mode \in e.grant.modes
    BY <1>5, <1>8, ModesFound DEF RegistrationModes
  <2>2. MayDirectly(cred, i, mode)
    <3>1. "AllFromRegistry" # "Inherited" /\ ("AllFromRegistry" = "Selected" => i \in {})
      OBVIOUS
    <3>. QED  BY <2>1, <3>1, FoundTop DEF held
  <2>. QED  BY <2>2
<1>9. CASE mode \in inherited
  <2>1. PICK e \in FindGrant(held, "Inherited", RegistrationOf[i], {}) :
          /\ mode \in e.grant.modes
          /\ \E p \in Instance : /\ <<p, i>> \in refers /\ RegistrationOf[p] = e.top.reg
                                 /\ \E above \in outcomes[p] : "Read" \in above /\ "astray" \notin above
    BY <1>5, <1>6, <1>9, InheritedFound
  <2>2. PICK p \in Instance : /\ <<p, i>> \in refers /\ RegistrationOf[p] = e.top.reg
                              /\ \E above \in outcomes[p] : "Read" \in above /\ "astray" \notin above
    BY <2>1
  <2>3. "Read" \in UNION answers[p]
    BY <1>1, <2>2
  <2>4. MayBelow(cred, i, mode, answers)
    BY <2>1, <2>2, <2>3, FoundBelow DEF held
  <2>. QED  BY <2>4 DEF answers
<1>10. CASE mode \in AdminModes(RegistryOf[RegistrationOf[i]], cred)
  BY <1>10 DEF AdminModes, IsAdmin
<1>. QED  BY <1>4, <1>6, <1>7, <1>8, <1>9, <1>10

LEMMA RegistrationExplained ==
  ASSUME AccessInv, NEW cred \in Asking, NEW r \in Registration,
         NEW mode \in UNION RegistrationAnswers(Stored, r, cred)
  PROVE  \/ \A i \in Instance : RegistrationOf[i] = r => MayDirectly(cred, i, mode)
         \/ mode = "Read" /\ IsAdmin(cred, r)
<1>1. PICK m \in RegistrationModes(Held(Stored, cred), r) : mode \in m \cup AdminModes(RegistryOf[r], cred)
  BY DEF RegistrationAnswers
<1>2. CASE mode \in m
  <2>1. PICK e \in FindGrant(Held(Stored, cred), "AllFromRegistry", r, {}) : mode \in e.grant.modes
    BY <1>1, <1>2, ModesFound DEF RegistrationModes
  <2>2. ASSUME NEW i \in Instance, RegistrationOf[i] = r PROVE MayDirectly(cred, i, mode)
    BY <2>1, <2>2, FoundTop
  <2>. QED  BY <2>2
<1>3. CASE mode \in AdminModes(RegistryOf[r], cred)
  BY <1>3 DEF AdminModes, IsAdmin
<1>. QED  BY <1>1, <1>2, <1>3

(* No answer of the permission engine gives what nobody authorized, for    *)
(* whatever is authorized, shared, delegated and referred to, in whatever  *)
(* order, and whichever grant findGrant takes.                             *)
THEOREM OnlyAuthorizedAlways == Spec => []OnlyAuthorized
<1>1. AccessInv => OnlyAuthorized
  <2>. SUFFICES ASSUME AccessInv PROVE OnlyAuthorized
    OBVIOUS
  <2>1. ASSUME NEW cred \in Asking, NEW i \in Instance,
               NEW mode \in UNION InstanceAnswers(Stored, refers, cred)[i]
        PROVE  \/ MayDirectly(cred, i, mode)
               \/ MayBelow(cred, i, mode, InstanceAnswers(Stored, refers, cred))
               \/ mode = "Read" /\ IsAdmin(cred, RegistrationOf[i])
    BY InstanceExplained
  <2>2. ASSUME NEW cred \in Asking, NEW r \in Registration,
               NEW mode \in UNION RegistrationAnswers(Stored, r, cred)
        PROVE  \/ \A i \in Instance : RegistrationOf[i] = r => MayDirectly(cred, i, mode)
               \/ mode = "Read" /\ IsAdmin(cred, r)
    BY RegistrationExplained
  <2>. QED  BY <2>1, <2>2 DEF OnlyAuthorized
<1>. QED  BY <1>1, AccessInvariant, PTL

-----------------------------------------------------------------------------
(* An agent whose regeneration is not due links what generation makes of   *)
(* each of its authorizations.                                             *)
LEMMA CoversOwn ==
  ASSUME AccessInv, NEW p \in Agent \ stale, NEW a \in For(p, members), Self \in Sources(a),
         NEW i \in Covers(a, p), OwnerOf(RegistrationOf[i]) = Self
  PROVE  \E g \in links[p] :
           /\ i \in TopInstances(g)
           /\ \A c \in a.children : \A q \in Registration :
                RegistryOf[q] = RegistryOf[RegistrationOf[i]] /\ TreeOf[q] = c.tree
                  => [tree |-> c.tree, reg |-> q, modes |-> c.modes] \in g.children
<1>. DEFINE r == RegistrationOf[i]
            scope == IF a.scope = "Selected" THEN "Selected" ELSE "AllFromRegistry"
            children(x) == UNION {{[tree |-> c.tree, reg |-> q, modes |-> c.modes] :
                                     q \in {q \in Registration : RegistryOf[q] = RegistryOf[x]
                                                                 /\ TreeOf[q] = c.tree}} :
                                    c \in Inheriting(a)}
            made(x) == [grantee |-> p, grantedBy |-> Self, owner |-> Self, tree |-> a.tree, reg |-> x,
                        scope |-> scope, instances |-> a.instances, modes |-> a.modes,
                        children |-> children(x)]
            g == made(r)
<1>1. /\ i \in Instance /\ TreeOf[r] = a.tree /\ (a.reg # None => r = a.reg)
      /\ a.scope = "Selected" => i \in a.instances
  BY DEF Covers
<1>2. r \in Registration
  BY <1>1, MapsAssumption
<1>3. g \in SourceGrants(a, p)
  <2>1. SourceGrants(a, p) = {made(x) : x \in {x \in Registration : OwnerOf(x) = Self /\ Matches(a, x, TreeOf[x])}}
    BY DEF SourceGrants
  <2>2. Matches(a, r, TreeOf[r])
    BY <1>1 DEF Matches
  <2>. HIDE DEF made
  <2>. QED  BY <1>2, <2>1, <2>2
<1>4. g \in links[p]
  BY <1>3 DEF AccessInv, Fresh, OwnGrants
<1>5. \A c \in a.children : \A q \in Registration :
        RegistryOf[q] = RegistryOf[r] /\ TreeOf[q] = c.tree
          => [tree |-> c.tree, reg |-> q, modes |-> c.modes] \in children(r)
  BY DEF Inheriting
<1>6. g.scope = scope /\ g.instances = a.instances /\ g.reg = r /\ g.children = children(r)
  OBVIOUS
<1>. HIDE DEF g, children, r
<1>7. i \in TopInstances(g)
  BY <1>1, <1>6 DEF TopInstances, r
<1>. QED  BY <1>4, <1>5, <1>6, <1>7 DEF r

LEMMA CoversPeers ==
  ASSUME AccessInv, NEW p \in Agent \ stale, NEW a \in For(p, members),
         NEW i \in Covers(a, p), NEW q \in (Sources(a) \cap Peer) \ {p}, NEW s \in received[q],
         s.reg = RegistrationOf[i], i \in TopInstances(s)
  PROVE  i \in Listed(p)
<1>. DEFINE scope == IF "Selected" \in {a.scope, s.scope} THEN "Selected" ELSE "AllFromRegistry"
            instances == IF "Selected" \notin {a.scope, s.scope} THEN {}
                         ELSE IF a.instances # {} THEN a.instances ELSE s.instances
            g == [grantee |-> p, grantedBy |-> Self, owner |-> s.owner,
                  tree |-> s.tree, reg |-> s.reg, scope |-> scope, instances |-> instances,
                  modes |-> CommonModes(a.modes, s.modes),
                  children |-> UNION {{[tree |-> c.tree, reg |-> k.reg, modes |-> CommonModes(c.modes, k.modes)] :
                                         k \in {k \in s.children : k.tree = c.tree}} :
                                        c \in Inheriting(a)}]
<1>1. /\ i \in Instance /\ TreeOf[RegistrationOf[i]] = a.tree /\ (a.reg # None => RegistrationOf[i] = a.reg)
      /\ a.scope = "Selected" => i \in a.instances
  BY DEF Covers
<1>2. FromPeer(s)
  BY ReceivedByPeer DEF AccessInv
<1>3. s.tree = a.tree
  BY <1>1, <1>2 DEF FromPeer, Shaped
<1>4. s \in UNION {Grants(t) : t \in UNION {received[o] : o \in (Sources(a) \cap Peer) \ {p}}}
  BY DEF Grants
<1>5. g \in DelegatedGrants(a, p, Sources(a) \cap Peer, received)
  BY <1>1, <1>3, <1>4 DEF DelegatedGrants
<1>7. g.scope = scope /\ g.instances = instances /\ g.reg = s.reg
  OBVIOUS
<1>6. g \in links[p]
  <2>. HIDE DEF g
  <2>1. g \in PeerGrants(For(p, members), p, received)
    BY <1>5 DEF PeerGrants
  <2>2. PeerGrants(For(p, members), p, received) \subseteq links[p]
    BY DEF AccessInv, Fresh
  <2>. QED  BY <2>1, <2>2
<1>8. a.instances # {} => a.scope = "Selected"
  <2>1. a \in Authorization
    BY DEF For, AccessInv, TypeOK
  <2>. QED  BY <2>1, AuthorizationAssumption
<1>9. s.scope = "Selected" => i \in s.instances
  BY DEF TopInstances
<1>. HIDE DEF g
<1>10. i \in TopInstances(g)
  BY <1>1, <1>7, <1>8, <1>9 DEF TopInstances
<1>. QED  BY <1>6, <1>10 DEF Listed

LEMMA ListedAll == ASSUME AccessInv PROVE AuthorizedListed
<1>. SUFFICES ASSUME NEW p \in Agent \ stale, NEW a \in For(p, members)
              PROVE  Covers(a, p) \cup CoversBelow(a, p) \subseteq Listed(p)
  BY DEF AuthorizedListed
<1>0. \A q \in Peer : \A s \in received[q] : OwnerOf(s.reg) # Self
  BY ReceivedByPeer DEF AccessInv, FromPeer
<1>1. ASSUME NEW i \in Covers(a, p) PROVE i \in Listed(p)
  <2>1. CASE OwnerOf(RegistrationOf[i]) = Self /\ Self \in Sources(a)
    BY <2>1, CoversOwn DEF Listed
  <2>2. ASSUME NEW q \in (Sources(a) \cap Peer) \ {p}, NEW s \in received[q],
               s.reg = RegistrationOf[i], i \in TopInstances(s)
        PROVE  i \in Listed(p)
    BY <2>2, CoversPeers
  <2>. QED  BY <2>1, <2>2 DEF Covers
<1>2. ASSUME NEW i \in CoversBelow(a, p) PROVE i \in Listed(p)
  <2>1. PICK c \in a.children :
          /\ i \in Instance
          /\ OwnerOf(RegistrationOf[i]) = Self /\ TreeOf[RegistrationOf[i]] = c.tree
          /\ \E above \in Covers(a, p) : /\ <<above, i>> \in refers
                                          /\ RegistryOf[RegistrationOf[above]] = RegistryOf[RegistrationOf[i]]
    BY DEF CoversBelow
  <2>2. PICK above \in Covers(a, p) : /\ <<above, i>> \in refers
                                      /\ RegistryOf[RegistrationOf[above]] = RegistryOf[RegistrationOf[i]]
    BY <2>1
  <2>3. OwnerOf(RegistrationOf[above]) = Self
    BY <2>1, <2>2 DEF OwnerOf
  <2>4. Self \in Sources(a)
    BY <1>0, <2>3 DEF Covers
  <2>5. PICK g \in links[p] :
          /\ above \in TopInstances(g)
          /\ \A x \in a.children : \A q \in Registration :
               RegistryOf[q] = RegistryOf[RegistrationOf[above]] /\ TreeOf[q] = x.tree
                 => [tree |-> x.tree, reg |-> q, modes |-> x.modes] \in g.children
    BY <2>3, <2>4, CoversOwn
  <2>. DEFINE k == [tree |-> c.tree, reg |-> RegistrationOf[i], modes |-> c.modes]
  <2>6. k \in g.children /\ k.tree = c.tree
    BY <2>1, <2>2, <2>5, MapsAssumption
  <2>. HIDE DEF k
  <2>7. i \in InheritedInstances(g, k, refers)
    BY <2>1, <2>2, <2>5, <2>6 DEF InheritedInstances
  <2>. QED  BY <2>5, <2>6, <2>7 DEF Listed
<1>. QED  BY <1>1, <1>2

-----------------------------------------------------------------------------
(* Every grant gives at least Read, and none gives "astray".               *)
LEMMA FoundModes ==
  ASSUME AccessInv, NEW cred, NEW scope, NEW r, NEW picked,
         NEW e \in FindGrant(Held(Stored, cred), scope, r, picked)
  PROVE  "Read" \in e.grant.modes /\ "astray" \notin e.grant.modes
<1>1. /\ Shaped(e.top)
      /\ e.grant = e.top \/ \E c \in e.top.children : e.grant = ChildGrant(e.top, c)
  BY Found
<1>2. CASE e.grant = e.top
  BY <1>1, <1>2, ModeAssumption DEF Shaped
<1>3. ASSUME NEW c \in e.top.children, e.grant = ChildGrant(e.top, c)
      PROVE  "Read" \in e.grant.modes /\ "astray" \notin e.grant.modes
  <2>1. e.grant.modes = c.modes
    BY <1>3 DEF ChildGrant
  <2>. QED  BY <1>1, <2>1, ModeAssumption DEF Shaped
<1>. QED  BY <1>1, <1>2, <1>3

(* A linked grant is found for the agent it is linked for.                 *)
LEMMA LinkedHeld ==
  ASSUME AccessInv, NEW p \in Agent, NEW g \in links[p]
  PROVE  /\ Shaped(g)
         /\ \A h \in Grants(g) : [grant |-> h, top |-> g] \in Held(Stored, As(p)).own
<1>1. g \in grants /\ g.grantee = p
  BY DEF AccessInv, TypeOK
<1>2. PICK a \in For(g.grantee, once) : MadeFrom(g, a)
  BY <1>1 DEF AccessInv, Made, MadeFrom
<1>3. a \in Authorization
  BY <1>2 DEF For, AccessInv, TypeOK
<1>4. Shaped(g) /\ g.grantedBy = Self
  BY <1>2, <1>3, MadeShaped
<1>5. GrantedTo(g, As(p))
  BY <1>1, <1>4 DEF GrantedTo, As
<1>6. g \in Stored
  BY <1>1 DEF Stored
<1>. QED  BY <1>4, <1>5, <1>6 DEF Held, Entries

(* What makes every answer that is no error give Read: a question that     *)
(* finds a grant, or inherits.                                             *)
LEMMA AnswersRead ==
  ASSUME AccessInv, NEW cred, NEW i \in Instance, NEW refs, NEW answers,
         NEW m \in AnswersFor(Held(Stored, cred), i, refs, answers), "astray" \notin m,
         \/ FindGrant(Held(Stored, cred), "Selected", RegistrationOf[i], {i}) # {}
         \/ FindGrant(Held(Stored, cred), "AllFromRegistry", RegistrationOf[i], {}) # {}
         \/ \A inherited \in InheritedModes(Held(Stored, cred), i, refs, answers) :
              "Read" \in inherited \/ "astray" \in inherited
  PROVE  "Read" \in m
<1>. DEFINE held == Held(Stored, cred)
<1>1. PICK picked \in ResourceModes(held, i), all \in RegistrationModes(held, RegistrationOf[i]),
           inherited \in InheritedModes(held, i, refs, answers) :
        m = IF "astray" \in inherited THEN {"astray"}
            ELSE picked \cup all \cup inherited \cup AdminModes(RegistryOf[RegistrationOf[i]], held.by)
  BY DEF AnswersFor
<1>. HIDE DEF held
<1>2. /\ "astray" \notin inherited
      /\ picked \subseteq m /\ all \subseteq m /\ inherited \subseteq m
  BY <1>1
<1>3. FindGrant(held, "Selected", RegistrationOf[i], {i}) # {} => "Read" \in picked
  <2>1. \A e \in FindGrant(held, "Selected", RegistrationOf[i], {i}) : "Read" \in e.grant.modes
    BY FoundModes DEF held
  <2>. QED  BY <1>1, <2>1 DEF ResourceModes, ModesOf
<1>4. FindGrant(held, "AllFromRegistry", RegistrationOf[i], {}) # {} => "Read" \in all
  BY <1>1, FoundModes DEF RegistrationModes, ModesOf, held
<1>. QED  BY <1>1, <1>2, <1>3, <1>4 DEF held

(* An error starts where what refers to the instance is not below the grant *)
(* that inherits, or comes from above.                                     *)
LEMMA FailsFromAbove ==
  ASSUME AccessInv, NEW a \in Agent, NEW i \in Instance, NEW answers,
         NEW m \in AnswersFor(Held(Stored, As(a)), i, refers, answers), "astray" \in m
  PROVE  Astray(a, i) \/ \E q \in Instance : <<q, i>> \in refers /\ "astray" \in UNION answers[q]
<1>. DEFINE held == Held(Stored, As(a))
            found == FindGrant(held, "Inherited", RegistrationOf[i], {})
            parents(e) == Referring(i, e.top.tree, refers)
            below(e, p) == IF RegistrationOf[p] # e.top.reg THEN {{"astray"}}
                           ELSE {IF "astray" \in above THEN {"astray"}
                                 ELSE IF "Read" \in above THEN e.grant.modes ELSE {} : above \in answers[p]}
<1>1. PICK picked \in ResourceModes(held, i), all \in RegistrationModes(held, RegistrationOf[i]),
           inherited \in InheritedModes(held, i, refers, answers) :
        m = IF "astray" \in inherited THEN {"astray"}
            ELSE picked \cup all \cup inherited \cup AdminModes(RegistryOf[RegistrationOf[i]], held.by)
  BY DEF AnswersFor
<1>2. "astray" \notin picked
  BY <1>1, FoundModes DEF ResourceModes, ModesOf
<1>3. "astray" \notin all
  BY <1>1, FoundModes DEF RegistrationModes, ModesOf
<1>4. "astray" \notin AdminModes(RegistryOf[RegistrationOf[i]], held.by)
  BY ModeAssumption DEF AdminModes
<1>5. "astray" \in inherited
  BY <1>1, <1>2, <1>3, <1>4
<1>6. inherited \in IF found = {} THEN {{}}
            ELSE UNION {IF parents(e) = {} THEN {{}} ELSE UNION {below(e, p) : p \in parents(e)} :
                          e \in found}
  BY <1>1 DEF InheritedModes
<1>7. \A e \in found : "astray" \notin e.grant.modes /\ e.top \in Inherits(a, i)
  <2>. TAKE e \in found
  <2>1. /\ e.top \in Stored /\ GrantedTo(e.top, As(a)) /\ Shaped(e.top)
        /\ e.grant = e.top \/ \E c \in e.top.children : e.grant = ChildGrant(e.top, c)
        /\ e.grant.scope = "Inherited" /\ e.grant.reg = RegistrationOf[i]
    BY Found
  <2>2. PICK c \in e.top.children : e.grant = ChildGrant(e.top, c)
    BY <2>1 DEF Shaped
  <2>3. c.reg = RegistrationOf[i]
    BY <2>1, <2>2 DEF ChildGrant
  <2>4. e.top.grantee = a
    BY <2>1 DEF GrantedTo, As
  <2>. QED  BY <2>1, <2>3, <2>4, FoundModes DEF Inherits
<1>. HIDE DEF found, below, held
<1>8. PICK e \in found : inherited \in IF parents(e) = {} THEN {{}} ELSE UNION {below(e, p) : p \in parents(e)}
  BY <1>5, <1>6
<1>9. PICK p \in parents(e) : inherited \in below(e, p)
  BY <1>5, <1>8
<1>10. CASE RegistrationOf[p] # e.top.reg
  <2>1. p \in Instance /\ <<p, i>> \in refers
    BY <1>9 DEF Referring
  <2>. QED  BY <1>7, <1>9, <1>10, <2>1 DEF Astray
<1>11. CASE RegistrationOf[p] = e.top.reg
  <2>1. PICK above \in answers[p] :
          inherited = IF "astray" \in above THEN {"astray"}
                      ELSE IF "Read" \in above THEN e.grant.modes ELSE {}
    BY <1>9, <1>11 DEF below
  <2>2. "astray" \in above
    BY <1>5, <1>7, <2>1
  <2>. QED  BY <1>9, <2>1, <2>2 DEF Referring
<1>. QED  BY <1>10, <1>11

(* What inherits below readable instances by its predicate gives Read.     *)
LEMMA InheritedRead ==
  ASSUME AccessInv, NEW p \in Agent, NEW i \in Instance, NEW answers,
         FindGrant(Held(Stored, As(p)), "Inherited", RegistrationOf[i], {}) # {},
         ~ Astray(p, i), ~ Mistaken(p, i),
         \A q \in Instance : <<q, i>> \in refers => \A above \in answers[q] : "Read" \in above,
         NEW m \in InheritedModes(Held(Stored, As(p)), i, refers, answers)
  PROVE  "Read" \in m \/ "astray" \in m
<1>. DEFINE held == Held(Stored, As(p))
            found == FindGrant(held, "Inherited", RegistrationOf[i], {})
            parents(e) == Referring(i, e.top.tree, refers)
            below(e, q) == IF RegistrationOf[q] # e.top.reg THEN {{"astray"}}
                           ELSE {IF "astray" \in above THEN {"astray"}
                                 ELSE IF "Read" \in above THEN e.grant.modes ELSE {} : above \in answers[q]}
<1>1. m \in IF found = {} THEN {{}}
            ELSE UNION {IF parents(e) = {} THEN {{}} ELSE UNION {below(e, q) : q \in parents(e)} :
                          e \in found}
  BY DEF InheritedModes
<1>2. \A e \in found : "Read" \in e.grant.modes /\ parents(e) # {}
  <2>. TAKE e \in found
  <2>1. /\ e.top \in Stored /\ GrantedTo(e.top, As(p)) /\ Shaped(e.top)
        /\ e.grant = e.top \/ \E c \in e.top.children : e.grant = ChildGrant(e.top, c)
        /\ e.grant.scope = "Inherited" /\ e.grant.reg = RegistrationOf[i]
    BY Found
  <2>2. PICK c \in e.top.children : e.grant = ChildGrant(e.top, c)
    BY <2>1 DEF Shaped
  <2>3. c.reg = RegistrationOf[i]
    BY <2>1, <2>2 DEF ChildGrant
  <2>4. e.top.grantee = p
    BY <2>1 DEF GrantedTo, As
  <2>5. parents(e) # {}
    BY <2>1, <2>3, <2>4 DEF Mistaken, Inherits
  <2>. QED  BY <2>5, FoundModes
<1>. HIDE DEF found, below, held
<1>3. found # {}
  BY DEF found, held
<1>4. PICK e \in found : m \in UNION {below(e, q) : q \in parents(e)}
  BY <1>1, <1>2, <1>3
<1>5. PICK q \in parents(e) : m \in below(e, q)
  BY <1>4
<1>. QED  BY <1>2, <1>5 DEF below, Referring

LEMMA LinksReadable == ASSUME AccessInv PROVE ListedReadable
<1>. SUFFICES
       ASSUME NEW p \in Agent
       PROVE  LET outcomes == Outcomes(Held(Stored, As(p)), refers)
                  fails(i) == "astray" \in UNION outcomes[i]
                  readable(i) == \A m \in outcomes[i] : "Read" \in m
              IN /\ \A i \in Instance : fails(i) =>
                      Astray(p, i) \/ \E q \in Instance : <<q, i>> \in refers /\ fails(q)
                 /\ \A g \in links[p] :
                      /\ \A i \in TopInstances(g) : readable(i) \/ fails(i)
                      /\ \A c \in g.children : \A i \in InheritedInstances(g, c, refers) :
                           \/ readable(i) \/ fails(i) \/ Astray(p, i) \/ Mistaken(p, i)
                           \/ \E q \in Instance : <<q, i>> \in refers /\ ~ readable(q)
  BY DEF ListedReadable
<1>. DEFINE held == Held(Stored, As(p))
            outcomes == Outcomes(held, refers)
            fails(i) == "astray" \in UNION outcomes[i]
            readable(i) == \A m \in outcomes[i] : "Read" \in m
<1>1. \A i \in Instance : outcomes[i] = AnswersFor(held, i, refers, outcomes)
  BY References, OutcomesUnfold DEF AccessInv
<1>. HIDE DEF outcomes
<1>2. ASSUME NEW i \in Instance, fails(i)
      PROVE  Astray(p, i) \/ \E q \in Instance : <<q, i>> \in refers /\ fails(q)
  BY <1>1, <1>2, FailsFromAbove
<1>3. ASSUME NEW g \in links[p], NEW i \in TopInstances(g) PROVE readable(i) \/ fails(i)
  <2>1. /\ Shaped(g)
        /\ [grant |-> g, top |-> g] \in held.own
    BY LinkedHeld DEF Grants
  <2>2. i \in Instance /\ RegistrationOf[i] = g.reg /\ (g.scope = "Selected" => i \in g.instances)
    BY <2>1 DEF TopInstances, Shaped
  <2>3. \/ FindGrant(held, "Selected", RegistrationOf[i], {i}) # {}
        \/ FindGrant(held, "AllFromRegistry", RegistrationOf[i], {}) # {}
    BY <2>1, <2>2 DEF FindGrant, Shaped
  <2>4. \A m \in outcomes[i] : "astray" \notin m => "Read" \in m
    BY <1>1, <2>2, <2>3, AnswersRead
  <2>. QED  BY <2>4
<1>4. ASSUME NEW g \in links[p], NEW c \in g.children, NEW i \in InheritedInstances(g, c, refers),
             ~ Astray(p, i), ~ Mistaken(p, i),
             ~ \E q \in Instance : <<q, i>> \in refers /\ ~ readable(q)
      PROVE  readable(i) \/ fails(i)
  <2>1. Shaped(g) /\ [grant |-> ChildGrant(g, c), top |-> g] \in held.own
    BY LinkedHeld DEF Grants
  <2>2. PICK q \in TopInstances(g) : i \in Instance /\ TreeOf[RegistrationOf[i]] = c.tree /\ <<q, i>> \in refers
    BY DEF InheritedInstances
  <2>3. q \in Instance /\ RegistrationOf[q] = g.reg
    BY <2>1 DEF TopInstances, Shaped
  <2>4. RegistrationOf[i] = c.reg
    <3>1. RegistryOf[RegistrationOf[i]] = RegistryOf[c.reg] /\ TreeOf[RegistrationOf[i]] = TreeOf[c.reg]
          /\ c.reg \in Registration
      BY <1>4, <2>1, <2>2, <2>3 DEF Astray, Shaped
    <3>2. RegistrationOf[i] \in Registration
      BY <2>2, MapsAssumption
    <3>. QED  BY <3>1, <3>2, OnePerTree
  <2>5. FindGrant(held, "Inherited", RegistrationOf[i], {}) # {}
    BY <2>1, <2>4 DEF FindGrant, ChildGrant
  <2>6. \A o \in Instance : <<o, i>> \in refers => \A above \in outcomes[o] : "Read" \in above
    BY <1>4
  <2>7. \A inherited \in InheritedModes(held, i, refers, outcomes) : "Read" \in inherited \/ "astray" \in inherited
    BY <1>4, <2>2, <2>5, <2>6, InheritedRead
  <2>8. \A m \in outcomes[i] : "astray" \notin m => "Read" \in m
    <3>1. \A m \in AnswersFor(held, i, refers, outcomes) : "astray" \notin m => "Read" \in m
      BY <2>2, <2>7, AnswersRead
    <3>. QED  BY <1>1, <2>2, <3>1
  <2>. QED  BY <2>8
<1>. QED  BY <1>2, <1>3, <1>4 DEF outcomes

(* Generation, listing and engine agree, whatever happens in whatever      *)
(* order: what is authorized is listed once regeneration is done, and what *)
(* is listed is readable, but for the errors and the mistaken grants the   *)
(* property names, which start where something refers to an instance by a  *)
(* predicate that leads the engine elsewhere.                              *)
THEOREM AuthorizedAlwaysUsable == Spec => []AuthorizedUsable
<1>1. AccessInv => AuthorizedUsable
  BY ListedAll, LinksReadable DEF AuthorizedUsable
<1>. QED  BY <1>1, AccessInvariant, PTL
=============================================================================
