--------------------------- MODULE GrantingProofs ---------------------------
(***************************************************************************)
(* Granting proved for every value of the constants.                       *)
(***************************************************************************)
EXTENDS Granting, TLAPS

(* Where the parts of a child's identity live.                             *)
LEMMA ChildParts ==
  ASSUME NEW c \in Child
  PROVE  /\ ParentOf(c) \in Parent
         /\ AgentOf(c) \in Agent
         /\ RunOf(ParentOf(c)) \in Run
         /\ GranteeIn(ParentOf(c)) \in Grantee
         /\ c = <<ParentOf(c), AgentOf(c)>>
  BY DEF Child, Parent, ParentOf, AgentOf, RunOf, GranteeIn

(* Where the parts of a leg's identity live.                              *)
LEMMA LegParts ==
  ASSUME NEW p \in Leg
  PROVE  /\ p \in Parent
         /\ RunOf(p) \in GrantRun
         /\ GranteeIn(p) \in Grantee
         /\ p = <<RunOf(p), GranteeIn(p)>>
         /\ \A a \in Agent : /\ <<p, a>> \in Child
                             /\ ParentOf(<<p, a>>) = p
                             /\ AgentOf(<<p, a>>) = a
  BY GrantRunAssumption DEF Leg, Parent, Child, RunOf, GranteeIn, ParentOf, AgentOf

(* A child state whose fields have their types.                            *)
LEMMA ChildFields ==
  ASSUME NEW s \in ChildState
  PROVE  /\ s.seen \subseteq DA
         /\ s.todo \subseteq DA
         /\ s.cur \in DA \cup {None}
         /\ s.new \subseteq Grant
         /\ s.blind \subseteq Grant
         /\ s.read \subseteq Grant
  BY DEF ChildState

(* The next grant leaves a child state of the right type, and no other     *)
(* child changes.                                                          *)
LEMMA NextGrantType ==
  ASSUME child \in [Child -> ChildState],
         NEW c \in Child,
         NEW s \in ChildState,
         NextGrant(c, s)
  PROVE  child' \in [Child -> ChildState]
<1>1. CASE \E d \in s.todo \ DelegatedDA :
             child' = [child EXCEPT ![c] = [s EXCEPT !.pc = "store", !.cur = d]]
  <2>1. PICK d \in s.todo : child' = [child EXCEPT ![c] = [s EXCEPT !.pc = "store", !.cur = d]]
    BY <1>1
  <2>2. [s EXCEPT !.pc = "store", !.cur = d] \in ChildState
    BY ChildFields DEF ChildState
  <2>. QED  BY <2>1, <2>2
<1>2. CASE \E d \in s.todo :
             child' = [child EXCEPT ![c] = [s EXCEPT !.pc = "delegate", !.cur = d]]
  <2>1. PICK d \in s.todo : child' = [child EXCEPT ![c] = [s EXCEPT !.pc = "delegate", !.cur = d]]
    BY <1>2
  <2>2. [s EXCEPT !.pc = "delegate", !.cur = d] \in ChildState
    BY ChildFields DEF ChildState
  <2>. QED  BY <2>1, <2>2
<1>3. CASE child' = [child EXCEPT ![c] = [s EXCEPT !.pc = "read", !.cur = None]]
  <2>1. [s EXCEPT !.pc = "read", !.cur = None] \in ChildState
    BY DEF ChildState
  <2>. QED  BY <1>3, <2>1
<1>. QED  BY <1>1, <1>2, <1>3 DEF NextGrant

(* What NextGrant leaves of the state it is given.                         *)
LEMMA NextGrantEffect ==
  ASSUME child \in [Child -> ChildState],
         NEW c \in Child,
         NEW s \in ChildState,
         NextGrant(c, s)
  PROVE  /\ \A e \in Child \ {c} : child'[e] = child[e]
         /\ child'[c].pc \in {"store", "delegate", "read"}
         /\ child'[c].seen = s.seen
         /\ child'[c].todo = s.todo
         /\ child'[c].new = s.new
         /\ child'[c].blind = s.blind
         /\ child'[c].again = s.again
         /\ child'[c].pc \in {"store", "delegate"} => child'[c].cur \in s.todo
         /\ child'[c].pc = "read" => s.todo = {}
<1>1. CASE \E d \in s.todo \ DelegatedDA :
             child' = [child EXCEPT ![c] = [s EXCEPT !.pc = "store", !.cur = d]]
  <2>1. PICK d \in s.todo : child' = [child EXCEPT ![c] = [s EXCEPT !.pc = "store", !.cur = d]]
    BY <1>1
  <2>2. child'[c] = [s EXCEPT !.pc = "store", !.cur = d]
    BY <2>1
  <2>. QED  BY <2>1, <2>2 DEF ChildState
<1>2. CASE \E d \in s.todo :
             child' = [child EXCEPT ![c] = [s EXCEPT !.pc = "delegate", !.cur = d]]
  <2>1. PICK d \in s.todo : child' = [child EXCEPT ![c] = [s EXCEPT !.pc = "delegate", !.cur = d]]
    BY <1>2
  <2>2. child'[c] = [s EXCEPT !.pc = "delegate", !.cur = d]
    BY <2>1
  <2>. QED  BY <2>1, <2>2 DEF ChildState
<1>3. CASE s.todo = {} /\ child' = [child EXCEPT ![c] = [s EXCEPT !.pc = "read", !.cur = None]]
  <2>1. child'[c] = [s EXCEPT !.pc = "read", !.cur = None]
    BY <1>3
  <2>. QED  BY <1>3, <2>1 DEF ChildState
<1>. QED  BY <1>1, <1>2, <1>3 DEF NextGrant

(* What generating the grants leaves: the child works through what it saw. *)
LEMMA GenerateEffect ==
  ASSUME RegenerationTypeOK, NEW c \in Child, GenerateGrants(c)
  PROVE  /\ \A e \in Child \ {c} : child'[e] = child[e]
         /\ child'[c].pc \in {"store", "delegate", "read"}
         /\ child'[c].seen = child[c].seen
         /\ child'[c].todo = child[c].seen
         /\ child'[c].new = child[c].new
         /\ child'[c].blind = child[c].blind
         /\ child'[c].again = child[c].again
         /\ child'[c].pc \in {"store", "delegate"} => child'[c].cur \in child[c].seen
         /\ child'[c].pc = "read" => child[c].seen = {}
         /\ UNCHANGED <<store, grants, acrs, links, lost, overlap>>
<1>0. child[c] \in ChildState
  BY DEF RegenerationTypeOK
<1>. DEFINE s == [child[c] EXCEPT !.todo = child[c].seen]
<1>1. s \in ChildState
  BY <1>0, ChildFields DEF ChildState
<1>2. /\ s.seen = child[c].seen /\ s.todo = child[c].seen /\ s.new = child[c].new
      /\ s.blind = child[c].blind /\ s.again = child[c].again
  BY <1>0 DEF ChildState
<1>3. NextGrant(c, s) /\ UNCHANGED <<store, grants, acrs, links, lost, overlap>>
  BY DEF GenerateGrants
<1>. HIDE DEF s
<1>. QED  BY <1>1, <1>2, <1>3, NextGrantEffect DEF RegenerationTypeOK

(* What a child asks for is a grant.                                      *)
LEMMA GrantOfType ==
  ASSUME RegenerationTypeOK, GrantsInv,
         NEW c \in Child,
         child[c].pc \in {"store", "acr", "delegate"},
         NEW n \in 1 .. MaxLost + 1
  PROVE  /\ GrantOf(c, n) \in Grant
         /\ GrantOf(c, n).da = child[c].cur
         /\ GrantOf(c, n).by = c
<1>1. child[c].cur \in DA
  BY ChildFields DEF RegenerationTypeOK, GrantsInv
<1>. QED  BY <1>1 DEF GrantOf, Grant

(* What writing the ACR of a grant does.  Either the child has got the grant *)
(* and goes on, or the result is lost and it stays where it is; only the    *)
(* ACR of this grant may name somebody else now.                           *)
LEMMA WriteAcrEffect ==
  ASSUME RegenerationTypeOK, NEW c \in Child, NEW g \in Grant, WriteAcr(c, g)
  PROVE  /\ child' \in [Child -> ChildState]
         /\ lost' \in 0 .. MaxLost
         /\ acrs' = acrs \cup {g}
         /\ \A e \in Child \ {c} : child'[e] = child[e]
         /\ child'[c].seen = child[c].seen
         /\ child'[c].again = child[c].again
         /\ AgentOf(c) \in Application /\ child[c].blind = {} => child'[c].blind = {}
         /\ \/ /\ child'[c].pc \in {"store", "delegate", "read"}
               /\ child'[c].todo = child[c].todo \ {child[c].cur}
               /\ child'[c].new = child[c].new \cup {g}
               /\ child'[c].pc \in {"store", "delegate"} => child'[c].cur \in child'[c].todo
               /\ child'[c].pc = "read" => child'[c].todo = {}
            \/ /\ child'[c].pc = child[c].pc
               /\ child'[c].todo = child[c].todo
               /\ child'[c].new = child[c].new
               /\ child'[c].cur = child[c].cur
<1>. USE DEF RegenerationTypeOK
<1>0. child[c] \in ChildState
  OBVIOUS
<1>1. child[c].todo \ {child[c].cur} \subseteq DA /\ child[c].new \cup {g} \subseteq Grant
      /\ child[c].blind \ {g} \subseteq Grant /\ child[c].blind \cup {g} \subseteq Grant
  BY <1>0, ChildFields
<1>2. ASSUME NEW B \in SUBSET Grant, NextGrant(c, [Granted(c, g) EXCEPT !.blind = B])
      PROVE  /\ child' \in [Child -> ChildState]
             /\ \A e \in Child \ {c} : child'[e] = child[e]
             /\ child'[c].seen = child[c].seen
             /\ child'[c].again = child[c].again
             /\ child'[c].blind = B
             /\ child'[c].pc \in {"store", "delegate", "read"}
             /\ child'[c].todo = child[c].todo \ {child[c].cur}
             /\ child'[c].new = child[c].new \cup {g}
             /\ child'[c].pc \in {"store", "delegate"} => child'[c].cur \in child'[c].todo
             /\ child'[c].pc = "read" => child'[c].todo = {}
  <2>. DEFINE s == [Granted(c, g) EXCEPT !.blind = B]
  <2>1. /\ s \in ChildState
        /\ s.seen = child[c].seen /\ s.again = child[c].again /\ s.blind = B
        /\ s.todo = child[c].todo \ {child[c].cur}
        /\ s.new = child[c].new \cup {g}
    BY <1>0, <1>1 DEF Granted, ChildState
  <2>. HIDE DEF s
  <2>2. NextGrant(c, s)
    BY <1>2 DEF s
  <2>. QED  BY <2>1, <2>2, NextGrantType, NextGrantEffect
<1>3. acrs' = acrs \cup {g}
  BY DEF WriteAcr
<1>4. lost' \in 0 .. MaxLost
  BY LostAssumption DEF WriteAcr, Mishap
<1>5. CASE NextGrant(c, [Granted(c, g) EXCEPT !.blind = @ \ {g}])
  <2>1. Granted(c, g).blind = child[c].blind
    BY <1>0 DEF Granted, ChildState
  <2>2. NextGrant(c, [Granted(c, g) EXCEPT !.blind = child[c].blind \ {g}])
    BY <1>5, <2>1
  <2>. QED  BY <1>1, <1>2, <1>3, <1>4, <2>2
<1>6. CASE /\ AgentOf(c) \notin Application
           /\ NextGrant(c, [Granted(c, g) EXCEPT !.blind = @ \cup {g}])
  <2>1. Granted(c, g).blind = child[c].blind
    BY <1>0 DEF Granted, ChildState
  <2>2. NextGrant(c, [Granted(c, g) EXCEPT !.blind = child[c].blind \cup {g}])
    BY <1>6, <2>1
  <2>. QED  BY <1>1, <1>2, <1>3, <1>4, <1>6, <2>2
<1>7. CASE child' = [child EXCEPT ![c].blind = @ \ {g}]
  <2>1. child'[c] = [child[c] EXCEPT !.blind = child[c].blind \ {g}]
    BY <1>7
  <2>2. child' \in [Child -> ChildState]
    BY <1>0, <1>1, <1>7, <2>1 DEF ChildState
  <2>. QED  BY <1>0, <1>3, <1>4, <1>7, <2>1, <2>2 DEF ChildState
<1>. QED  BY <1>5, <1>6, <1>7 DEF WriteAcr

(* The same of the two steps that write one.                               *)
LEMMA AcrStepEffect ==
  ASSUME RegenerationTypeOK, GrantsInv, NEW c \in Child, CreateAcr(c) \/ RequestDelegation(c)
  PROVE  \E g \in Grant :
           /\ g.da = child[c].cur
           /\ g.by = c
           /\ WriteAcr(c, g)
           /\ child[c].pc \in {"acr", "delegate"}
           /\ grants \subseteq grants' /\ grants' \subseteq Grant /\ g \in grants'
           /\ UNCHANGED <<store, links, overlap>>
<1>1. CASE CreateAcr(c)
  <2>1. child[c].pc = "acr" /\ 1 \in 1 .. MaxLost + 1
    BY <1>1, LostAssumption DEF CreateAcr
  <2>2. GrantOf(c, 1) \in Grant /\ GrantOf(c, 1).da = child[c].cur /\ GrantOf(c, 1).by = c
    BY <2>1, GrantOfType
  <2>3. GrantOf(c, 1) \in grants
    BY <2>1 DEF GrantsInv
  <2>. QED  BY <1>1, <2>1, <2>2, <2>3 DEF CreateAcr, RegenerationTypeOK
<1>2. CASE RequestDelegation(c)
  <2>1. PICK n \in 1 .. MaxLost + 1 :
          /\ child[c].pc = "delegate"
          /\ grants' = grants \cup {GrantOf(c, n)}
          /\ WriteAcr(c, GrantOf(c, n))
          /\ UNCHANGED <<store, links, overlap>>
    BY <1>2 DEF RequestDelegation
  <2>2. GrantOf(c, n) \in Grant /\ GrantOf(c, n).da = child[c].cur /\ GrantOf(c, n).by = c
    BY <2>1, GrantOfType
  <2>. QED  BY <2>1, <2>2 DEF RegenerationTypeOK
<1>. QED  BY <1>1, <1>2

-----------------------------------------------------------------------------
(* Steps of a child.                                                       *)

(* A child's step keeps the types of everything the child works on.        *)
LEMMA ChildStepType ==
  ASSUME RegenerationTypeOK, GrantsInv, NEW c \in Child, ChildStep(c)
  PROVE  RegenerationTypeOK'
<1>. USE DEF RegenerationTypeOK, store
<1>0. child[c] \in ChildState /\ 1 \in 1 .. MaxLost + 1
  BY LostAssumption
<1>1. CASE FetchAuthorizations(c)
  <2>1. AuthorizationsFor(AgentOf(c)) \subseteq DA
    BY DEF AuthorizationsFor
  <2>2. child' \in [Child -> ChildState]
    BY <1>0, <1>1, <2>1 DEF FetchAuthorizations, ChildState
  <2>. QED  BY <1>1, <2>2 DEF FetchAuthorizations
<1>2. CASE GenerateGrants(c)
  <2>1. [child[c] EXCEPT !.todo = child[c].seen] \in ChildState
    BY <1>0, ChildFields DEF ChildState
  <2>2. child' \in [Child -> ChildState]
    BY <1>2, <2>1, NextGrantType DEF GenerateGrants
  <2>. QED  BY <1>2, <2>2 DEF GenerateGrants
<1>3. CASE StoreDataGrant(c)
  <2>1. GrantOf(c, 1) \in Grant
    BY <1>0, <1>3, GrantOfType DEF StoreDataGrant
  <2>2. child' \in [Child -> ChildState]
    BY <1>0, <1>3 DEF StoreDataGrant, ChildState
  <2>3. lost' \in 0 .. MaxLost
    BY <1>3, LostAssumption DEF StoreDataGrant, Mishap
  <2>. QED  BY <1>3, <2>1, <2>2, <2>3 DEF StoreDataGrant
<1>4. CASE CreateAcr(c) \/ RequestDelegation(c)
  <2>1. PICK g \in Grant : /\ WriteAcr(c, g)
                          /\ grants' \subseteq Grant
                          /\ UNCHANGED <<store, links, overlap>>
    BY <1>4, AcrStepEffect
  <2>. QED  BY <2>1, WriteAcrEffect
<1>5. CASE FailAlways(c)
  <2>1. child' \in [Child -> ChildState]
    BY <1>0, <1>5 DEF FailAlways, ChildState
  <2>2. lost' \in 0 .. MaxLost
    BY <1>5, LostAssumption DEF FailAlways, Mishap
  <2>. QED  BY <1>5, <2>1, <2>2 DEF FailAlways
<1>6. CASE ReadLinks(c)
  <2>1. links[AgentOf(c)] \subseteq Grant
    BY ChildParts
  <2>2. child' \in [Child -> ChildState]
    BY <1>0, <1>6, <2>1 DEF ReadLinks, ChildState
  <2>. QED  BY <1>6, <2>2 DEF ReadLinks
<1>7. CASE PatchLinks(c)
  <2>1. /\ links[AgentOf(c)] \subseteq Grant
        /\ child[c].new \subseteq Grant
    BY <1>0, ChildParts, ChildFields
  <2>2. links' \in [Agent -> SUBSET Grant]
    BY <1>7, <2>1 DEF PatchLinks
  <2>3. child' \in [Child -> ChildState]
    BY <1>0, <1>7 DEF PatchLinks, ChildState
  <2>4. lost' \in 0 .. MaxLost
    BY <1>7, LostAssumption DEF PatchLinks, Mishap
  <2>. QED  BY <1>7, <2>2, <2>3, <2>4 DEF PatchLinks
<1>. QED  BY <1>1, <1>2, <1>3, <1>4, <1>5, <1>6, <1>7 DEF ChildStep

(* A step of child c moves only c, keeps the store, and adds grants and    *)
(* ACRs without taking any away.                                           *)
LEMMA ChildStepFrame ==
  ASSUME RegenerationTypeOK, GrantsInv, NEW c \in Child, ChildStep(c)
  PROVE  /\ \A e \in Child \ {c} : child'[e] = child[e]
         /\ child[c].pc \notin {"idle", "done"}
         /\ child'[c].pc \notin {"idle", "authorizations"}
         /\ child'[c].seen = IF child[c].pc = "authorizations"
                             THEN AuthorizationsFor(AgentOf(c)) ELSE child[c].seen
         /\ UNCHANGED store
         /\ grants \subseteq grants'
         /\ acrs \subseteq acrs'
<1>. USE DEF RegenerationTypeOK
<1>0. child[c] \in ChildState /\ 1 \in 1 .. MaxLost + 1
  BY LostAssumption
<1>1. CASE FetchAuthorizations(c)
  BY <1>0, <1>1 DEF FetchAuthorizations, ChildState, store
<1>2. CASE GenerateGrants(c)
  <2>1. child[c].pc = "generate" /\ UNCHANGED <<store, grants, acrs>>
    BY <1>2 DEF GenerateGrants
  <2>. QED  BY <1>2, <2>1, GenerateEffect
<1>3. CASE StoreDataGrant(c)
  BY <1>0, <1>3 DEF StoreDataGrant, ChildState
<1>4. CASE CreateAcr(c) \/ RequestDelegation(c)
  <2>1. PICK g \in Grant : /\ WriteAcr(c, g)
                          /\ child[c].pc \in {"acr", "delegate"}
                          /\ grants \subseteq grants'
                          /\ UNCHANGED <<store, links, overlap>>
    BY <1>4, AcrStepEffect
  <2>. QED  BY <2>1, WriteAcrEffect
<1>5. CASE FailAlways(c)
  BY <1>0, <1>5 DEF FailAlways, ChildState
<1>6. CASE ReadLinks(c)
  BY <1>0, <1>6 DEF ReadLinks, ChildState
<1>7. CASE PatchLinks(c)
  BY <1>0, <1>7 DEF PatchLinks, ChildState
<1>. QED  BY <1>1, <1>2, <1>3, <1>4, <1>5, <1>6, <1>7 DEF ChildStep

(* What GrantsInv says of one child.                                       *)
GrantsInvOf(c) ==
  /\ \A g \in child[c].new : g \in acrs /\ g.by = c
  /\ AgentOf(c) \in Application => child[c].blind = {}
  /\ child[c].pc \in {"store", "acr", "delegate"} => child[c].cur \in child[c].todo
  /\ child[c].pc = "acr" => GrantOf(c, 1) \in grants
  /\ child[c].pc \in {"read", "patch", "done"} => child[c].todo = {}
  /\ child[c].pc \notin {"idle", "authorizations", "generate", "failing"} =>
       \A d \in child[c].seen : d \in child[c].todo \/ \E g \in child[c].new : g.da = d

(* With the ACR of a grant of its current authorization written a child    *)
(* still accounts for everything it has seen.                              *)
LEMMA WriteAcrAccounts ==
  ASSUME RegenerationTypeOK, GrantsInv, NEW c \in Child, NEW g \in Grant,
         child[c].pc \in {"acr", "delegate"},
         g.da = child[c].cur, g.by = c, WriteAcr(c, g), grants \subseteq grants'
  PROVE  GrantsInvOf(c)'
<1>0. GrantsInvOf(c)
  BY DEF GrantsInv, GrantsInvOf
<1>1. /\ acrs' = acrs \cup {g}
      /\ child'[c].seen = child[c].seen
      /\ AgentOf(c) \in Application /\ child[c].blind = {} => child'[c].blind = {}
  BY WriteAcrEffect
<1>2. CASE /\ child'[c].pc \in {"store", "delegate", "read"}
           /\ child'[c].todo = child[c].todo \ {child[c].cur}
           /\ child'[c].new = child[c].new \cup {g}
           /\ child'[c].pc \in {"store", "delegate"} => child'[c].cur \in child'[c].todo
           /\ child'[c].pc = "read" => child'[c].todo = {}
  <2>1. \A h \in child'[c].new : h \in acrs' /\ h.by = c
    BY <1>0, <1>1, <1>2 DEF GrantsInvOf
  <2>2. \A d \in child'[c].seen : d \in child'[c].todo \/ \E h \in child'[c].new : h.da = d
    BY <1>0, <1>1, <1>2 DEF GrantsInvOf
  <2>. QED  BY <1>0, <1>1, <1>2, <2>1, <2>2 DEF GrantsInvOf
<1>3. CASE /\ child'[c].pc = child[c].pc
           /\ child'[c].todo = child[c].todo
           /\ child'[c].new = child[c].new
           /\ child'[c].cur = child[c].cur
  <2>1. GrantOf(c, 1)' = GrantOf(c, 1)
    BY <1>3 DEF GrantOf
  <2>. QED  BY <1>0, <1>1, <1>3, <2>1 DEF GrantsInvOf
<1>. QED  BY <1>2, <1>3, WriteAcrEffect

(* A child's step keeps GrantsInv: it works through what it has seen.     *)
LEMMA ChildStepGrants ==
  ASSUME RegenerationTypeOK, GrantsInv, NEW c \in Child, ChildStep(c)
  PROVE  GrantsInv'
<1>. USE DEF RegenerationTypeOK
<1>0. child[c] \in ChildState /\ 1 \in 1 .. MaxLost + 1
  BY LostAssumption
<1>a. GrantsInvOf(c)
  BY DEF GrantsInv, GrantsInvOf
<1>1. CASE FetchAuthorizations(c)
  BY <1>0, <1>1, <1>a DEF FetchAuthorizations, ChildState, GrantsInv, GrantOf
<1>2. CASE GenerateGrants(c)
  <2>1. GrantsInvOf(c)'
    BY <1>2, <1>a, GenerateEffect DEF GrantsInvOf
  <2>. QED  BY <1>2, <2>1, GenerateEffect DEF GrantsInv, GrantsInvOf, GrantOf
<1>3. CASE StoreDataGrant(c)
  BY <1>0, <1>3 DEF StoreDataGrant, ChildState, GrantsInv, GrantOf
<1>4. CASE CreateAcr(c) \/ RequestDelegation(c)
  <2>1. PICK g \in Grant :
          /\ g.da = child[c].cur /\ g.by = c
          /\ WriteAcr(c, g)
          /\ child[c].pc \in {"acr", "delegate"}
          /\ grants \subseteq grants' /\ g \in grants'
    BY <1>4, AcrStepEffect
  <2>2. /\ acrs' = acrs \cup {g}
        /\ \A e \in Child \ {c} : child'[e] = child[e]
    BY <2>1, WriteAcrEffect
  <2>3. acrs' \subseteq grants'
    BY <2>1, <2>2 DEF GrantsInv
  <2>4. GrantsInvOf(c)'
    BY <2>1, WriteAcrAccounts
  <2>. QED  BY <2>1, <2>2, <2>3, <2>4 DEF GrantsInv, GrantsInvOf, GrantOf
<1>5. CASE FailAlways(c)
  BY <1>0, <1>5, <1>a DEF FailAlways, ChildState, GrantsInv, GrantOf
<1>6. CASE ReadLinks(c)
  BY <1>0, <1>6 DEF ReadLinks, ChildState, GrantsInv, GrantOf
<1>7. CASE PatchLinks(c)
  BY <1>0, <1>7 DEF PatchLinks, ChildState, GrantsInv, GrantOf
<1>. QED  BY <1>1, <1>2, <1>3, <1>4, <1>5, <1>6, <1>7 DEF ChildStep

(* A child's step keeps linked grants usable: it links what is readable.  *)
LEMMA ChildStepLinks ==
  ASSUME RegenerationTypeOK, GrantsInv, LinksInv, NEW c \in Child, ChildStep(c)
  PROVE  LinksInv'
<1>1. grants \subseteq grants' /\ acrs \subseteq acrs'
  BY ChildStepFrame
<1>2. CASE PatchLinks(c)
  <2>1. links' = [links EXCEPT ![AgentOf(c)] =
                    (@ \ (child[c].read \ child[c].new)) \cup (child[c].new \ child[c].read)]
    BY <1>2 DEF PatchLinks
  <2>2. \A g \in child[c].new : g \in grants \cap acrs /\ AgentOf(g.by) = AgentOf(c)
    BY DEF GrantsInv
  <2>3. \A p \in Agent : \A g \in links'[p] :
          g \in links[p] \/ (p = AgentOf(c) /\ g \in child[c].new)
    BY <2>1 DEF RegenerationTypeOK
  <2>. QED  BY <1>1, <2>2, <2>3 DEF LinksInv
<1>3. CASE UNCHANGED links
  BY <1>1, <1>3 DEF LinksInv
<1>. QED
  BY <1>2, <1>3 DEF ChildStep, FetchAuthorizations, GenerateGrants, StoreDataGrant,
                    CreateAcr, RequestDelegation, FailAlways, ReadLinks

-----------------------------------------------------------------------------
(* What is in force stays in force as long as nothing is deleted and no    *)
(* role changes.                                                           *)
LEMMA InForceStays ==
  ASSUME NEW a, InForce(a),
         auth \subseteq auth', acrs \subseteq acrs', UNCHANGED <<roles, members>>
  PROVE  InForce(a)'
  BY DEF InForce, AgentsOf

(* With every role present, an authorization reaches the agents of its     *)
(* grantee's leg.                                                          *)
LEMMA AgentsOfShare ==
  ASSUME RegenerationTypeOK, roles = Role, NEW d \in DA
  PROVE  AgentsOf(d) = AgentsIn(GranteeOf[d])
  BY DEF AgentsOf, AgentsIn

(* Those behind a grantee are agents.                                     *)
LEMMA AgentsInAgents ==
  ASSUME RegenerationTypeOK, NEW g \in Grantee
  PROVE  AgentsIn(g) \subseteq Agent
  BY DEF AgentsIn, Grantee, RegenerationTypeOK

(* A leg's group of authorizations is made of authorizations.             *)
LEMMA GroupDA ==
  ASSUME NEW a \in Activity, NEW g
  PROVE  Group(a, g) \subseteq DA
  BY CarriesAssumption DEF Group

(* The completion rests on this: when every leg of a running run is over,  *)
(* its activity is in force.                                               *)
LEMMA LegsDoneInForce ==
  ASSUME Inv, NEW r \in GrantRun, run[r].pc = "running",
         \A p \in Leg : RunOf(p) = r => leg[p].pc \in {"idle", "done"}
  PROVE  InForce(run[r].act)
<1>1. run[r].act \in Activity
  BY DEF Inv, RunsInv, TypeOK
<1>. DEFINE a == run[r].act
            legOf(d) == <<r, GranteeOf[d]>>
<1>2. ASSUME NEW d \in Carries[a]
      PROVE  /\ d \in DA
             /\ legOf(d) \in Leg
             /\ d \in Share(legOf(d))
             /\ leg[legOf(d)].pc = "done"
  <2>1. d \in DA
    BY <1>1, CarriesAssumption
  <2>2. legOf(d) \in Leg /\ RunOf(legOf(d)) = r /\ GranteeIn(legOf(d)) = GranteeOf[d]
    BY <2>1, GranteeAssumption DEF Leg, RunOf, GranteeIn
  <2>3. d \in Share(legOf(d))
    BY <2>2 DEF Share, Group
  <2>4. leg[legOf(d)].pc # "idle"
    BY <2>2, <2>3 DEF Inv, LegsInv
  <2>. QED  BY <2>1, <2>2, <2>3, <2>4
<1>3. Carries[a] \subseteq auth
  BY <1>2 DEF Inv, LegsInv
<1>4. ASSUME NEW d \in Carries[a], NEW x \in AgentsOf(d)
      PROVE  \E g \in acrs : g.da = d /\ AgentOf(g.by) = x
  <2>. DEFINE p == legOf(d)
              c == <<p, x>>
  <2>1. d \in DA /\ p \in Leg /\ d \in Share(p) /\ leg[p].pc = "done"
        /\ GranteeIn(p) = GranteeOf[d]
    BY <1>2 DEF GranteeIn
  <2>2. x \in leg[p].to
    BY <2>1, AgentsOfShare DEF Inv, LegsInv, RunsInv, TypeOK
  <2>3. x \in Agent
    BY <2>1, AgentsOfShare, AgentsInAgents, LegParts DEF Inv, RunsInv, TypeOK
  <2>4. c \in Child /\ ParentOf(c) = p /\ AgentOf(c) = x /\ child[c].pc = "done"
    BY <2>1, <2>2, <2>3, LegParts DEF Inv, LegsInv
  <2>5. d \in child[c].seen
    BY <2>1, <2>4 DEF Inv, ChildrenInv
  <2>6. PICK g \in child[c].new : g.da = d
    BY <2>4, <2>5 DEF Inv, GrantsInv
  <2>7. g \in acrs /\ g.by = c
    BY <2>4, <2>6 DEF Inv, GrantsInv
  <2>. QED  BY <2>4, <2>6, <2>7
<1>. QED  BY <1>3, <1>4 DEF InForce

-----------------------------------------------------------------------------
(* The inductive invariant holds initially ...                             *)
LEMMA InitInv == Init => Inv
<1>. SUFFICES ASSUME Init PROVE Inv
  OBVIOUS
<1>. USE DEF Init, RegenerationInit
<1>1. IdleChild \in ChildState
  BY DEF IdleChild, ChildState
<1>2. TypeOK
  BY <1>1, LostAssumption, ApplicationAssumption
     DEF TypeOK, RegenerationTypeOK, RunState, LegState, SweepState, IdleLeg
<1>3. LegsInv
  BY LegParts DEF LegsInv, IdleLeg
<1>4. ChildrenInv /\ GrantsInv
  BY DEF ChildrenInv, GrantsInv, IdleChild
<1>5. RunsInv
  BY DEF RunsInv
<1>6. DoneMeansInForce /\ LinksInv
  BY DEF DoneMeansInForce, LinksInv
<1>. QED  BY <1>2, <1>3, <1>4, <1>5, <1>6 DEF Inv

(* ... and every action keeps it.                                          *)

(* A step of a child.                                                      *)
LEMMA ChildStepInv ==
  ASSUME Inv, NEW c \in Child, ChildStep(c), UNCHANGED grantingVars
  PROVE  Inv'
<1>. USE DEF Inv
<1>1. /\ RegenerationTypeOK'
      /\ GrantsInv'
      /\ LinksInv'
  BY ChildStepType, ChildStepGrants, ChildStepLinks DEF TypeOK
<1>2. TypeOK'
  BY <1>1 DEF TypeOK, grantingVars
<1>3. /\ \A e \in Child \ {c} : child'[e] = child[e]
      /\ child[c].pc \notin {"idle", "done"}
      /\ child'[c].pc \notin {"idle", "authorizations"}
      /\ child'[c].seen = IF child[c].pc = "authorizations"
                          THEN AuthorizationsFor(AgentOf(c)) ELSE child[c].seen
      /\ UNCHANGED store
      /\ acrs \subseteq acrs'
  BY ChildStepFrame DEF TypeOK
<1>4. UNCHANGED <<run, leg, outbox, done, sweep, auth, members, roles>>
  BY <1>3 DEF store, grantingVars
<1>5. LegsInv'
  <2>1. \A p \in Leg : Share(p)' = Share(p)
    BY <1>4 DEF Share, Group
  <2>2. \A e \in Child : /\ child[e].pc # "idle" => child'[e].pc # "idle"
                         /\ child[e].pc = "done" => child'[e].pc = "done"
    BY <1>3
  <2>3. \A p \in Leg : \A a \in leg[p].to : <<p, a>> \in Child
    BY LegParts DEF TypeOK, LegState
  <2>. QED  BY <1>4, <2>1, <2>2, <2>3 DEF LegsInv, AgentsIn
<1>6. ChildrenInv'
  <2>1. ASSUME NEW e \in Child, child'[e].pc # "idle"
        PROVE  /\ ParentOf(e) \in Leg
               /\ leg[ParentOf(e)].pc \in {"children", "done"}
               /\ AgentOf(e) \in leg[ParentOf(e)].to
    BY <1>3, <2>1 DEF ChildrenInv
  <2>2. ASSUME NEW e \in Child, child'[e].pc \notin {"idle", "authorizations"}
        PROVE  Share(ParentOf(e)) \subseteq child'[e].seen
    <3>1. CASE e = c /\ child[c].pc = "authorizations"
      <4>1. /\ ParentOf(c) \in Leg
            /\ AgentOf(c) \in AgentsIn(GranteeIn(ParentOf(c)))
            /\ Share(ParentOf(c)) \subseteq auth
        BY <1>3 DEF ChildrenInv, LegsInv
      <4>2. \A d \in Share(ParentOf(c)) :
              d \in DA /\ AgentOf(c) \in AgentsOf(d)
        BY <4>1, AgentsOfShare DEF Share, Group, RunsInv, TypeOK, RegenerationTypeOK
      <4>. QED  BY <1>3, <3>1, <4>1, <4>2 DEF AuthorizationsFor
    <3>2. CASE e # c \/ child[c].pc # "authorizations"
      BY <1>3, <2>2, <3>2 DEF ChildrenInv
    <3>. QED  BY <3>1, <3>2
  <2>3. \A e \in Child : Share(ParentOf(e))' = Share(ParentOf(e))
    BY <1>4 DEF Share, Group
  <2>. QED  BY <1>4, <2>1, <2>2, <2>3 DEF ChildrenInv
<1>7. RunsInv'
  BY <1>4 DEF RunsInv
<1>8. DoneMeansInForce'
  BY <1>3, <1>4, InForceStays DEF DoneMeansInForce
<1>. QED  BY <1>1, <1>2, <1>5, <1>6, <1>7, <1>8

(* The start of a run, whoever starts it.                                  *)
LEMMA StartRunInv ==
  ASSUME Inv, NEW a \in outbox, NEW r \in GrantRun, StartRun(r, a),
         UNCHANGED <<regenerationVars, outbox, done>>,
         inbox' \subseteq inbox,
         \/ UNCHANGED sweep
         \/ sweep.pc = "loop" /\ sweep' = [sweep EXCEPT !.pc = "child", !.on = r]
  PROVE  Inv'
<1>. USE DEF Inv, regenerationVars, store
<1>0. a \in Activity
  BY DEF TypeOK
<1>1. TypeOK'
  <2>1. run' \in [GrantRun -> RunState]
    BY <1>0 DEF StartRun, TypeOK, RunState
  <2>2. leg' \in [Leg -> LegState]
    BY <1>0, GroupDA DEF StartRun, TypeOK, LegState, IdleLeg
  <2>3. sweep' \in SweepState
    BY DEF TypeOK, SweepState
  <2>. QED  BY <2>1, <2>2, <2>3 DEF TypeOK, RegenerationTypeOK, ChildState, Grant
<1>2. \A p \in Leg : IF RunOf(p) = r
                     THEN /\ leg[p].pc = "idle"
                          /\ Share(p)' = Group(a, GranteeIn(p))
                          /\ run'[RunOf(p)].pc = "running"
                          /\ leg'[p].pc = IF Share(p)' = {} THEN "idle" ELSE "materialize"
                          /\ Share(p)' # {} => leg'[p].todo = Share(p)'
                     ELSE /\ leg'[p] = leg[p]
                          /\ run'[RunOf(p)] = run[RunOf(p)]
                          /\ Share(p)' = Share(p)
  <2>. TAKE p \in Leg
  <2>0. RunOf(p) \in GrantRun
    BY LegParts
  <2>1. CASE RunOf(p) = r
    <3>1. run[RunOf(p)].pc = "idle" /\ run'[RunOf(p)] = [pc |-> "running", act |-> a]
      BY <2>0, <2>1 DEF StartRun, TypeOK
    <3>2. leg[p].pc = "idle"
      BY <3>1 DEF LegsInv
    <3>3. Share(p)' = Group(a, GranteeIn(p))
      BY <3>1 DEF Share, Group
    <3>4. leg'[p] = IF Group(a, GranteeIn(p)) # {}
                    THEN [IdleLeg EXCEPT !.pc = "materialize",
                                         !.todo = Group(a, GranteeIn(p))]
                    ELSE leg[p]
      BY <2>1 DEF StartRun
    <3>. QED  BY <2>1, <3>1, <3>2, <3>3, <3>4 DEF IdleLeg
  <2>2. CASE RunOf(p) # r
    <3>1. leg'[p] = leg[p]
      BY <2>2 DEF StartRun
    <3>2. run'[RunOf(p)] = run[RunOf(p)]
      BY <2>0, <2>2 DEF StartRun, TypeOK
    <3>3. Share(p)' = Share(p)
      BY <3>2 DEF Share, Group
    <3>. QED  BY <2>2, <3>1, <3>2, <3>3
  <2>. QED  BY <2>1, <2>2
<1>3. LegsInv'
  <2>. SUFFICES ASSUME NEW p \in Leg
                PROVE  (LegsInv!(p))'
    BY DEF LegsInv
  <2>1. CASE RunOf(p) = r
    BY <1>2, <2>1
  <2>2. CASE RunOf(p) # r
    BY <1>2, <2>2 DEF LegsInv, AgentsIn
  <2>. QED  BY <2>1, <2>2
<1>4. ChildrenInv'
  BY <1>2 DEF ChildrenInv
<1>5. GrantsInv' /\ LinksInv'
  BY DEF GrantsInv, LinksInv, GrantOf
<1>6. RunsInv'
  <2>1. \A q \in GrantRun : run'[q] = IF q = r THEN [pc |-> "running", act |-> a] ELSE run[q]
    BY DEF StartRun, TypeOK
  <2>2. sweep' # sweep => sweep'.pc = "child" /\ sweep'.on = r /\ sweep'.todo = sweep.todo
    BY DEF TypeOK, SweepState
  <2>. QED  BY <2>1, <2>2 DEF RunsInv
<1>7. DoneMeansInForce'
  BY InForceStays DEF DoneMeansInForce
<1>. QED  BY <1>1, <1>3, <1>4, <1>5, <1>6, <1>7

(* Recording an activity: nobody works on it yet.                          *)
LEMMA RecordInv ==
  ASSUME Inv, NEW a \in Activity, RecordAuthorization(a)
  PROVE  Inv'
<1>. USE DEF Inv, RecordAuthorization, regenerationVars, store
<1>1. TypeOK'
  BY DEF TypeOK, RegenerationTypeOK
<1>2. LegsInv' /\ ChildrenInv'
  BY DEF LegsInv, ChildrenInv, Share, Group, AgentsIn
<1>3. GrantsInv' /\ LinksInv'
  BY DEF GrantsInv, LinksInv, GrantOf
<1>4. RunsInv'
  BY DEF RunsInv
<1>5. DoneMeansInForce'
  BY InForceStays DEF DoneMeansInForce
<1>. QED  BY <1>1, <1>2, <1>3, <1>4, <1>5

(* A notification is delivered, or a sweep starts a child.                 *)
LEMMA DeliverInv ==
  ASSUME Inv, NEW a \in Activity, NEW r \in GrantRun, Deliver(a, r)
  PROVE  Inv'
<1>1. a \in outbox /\ inbox' \subseteq inbox
  BY DEF Deliver, Inv, TypeOK
<1>. QED  BY <1>1, StartRunInv DEF Deliver

(* A sweep starts a run of a pending activity.                            *)
LEMMA SweepNextInv ==
  ASSUME Inv, NEW r \in GrantRun, SweepNext(r)
  PROVE  Inv'
<1>1. PICK a \in sweep.todo : /\ StartRun(r, a)
                              /\ sweep' = [sweep EXCEPT !.pc = "child", !.on = r]
  BY DEF SweepNext
<1>2. a \in outbox
  BY DEF Inv, RunsInv
<1>. QED  BY <1>1, <1>2, StartRunInv DEF SweepNext

(* One PUT of storeDataAuthorizations.                                     *)
LEMMA StoreAuthorizationInv ==
  ASSUME Inv, NEW p \in Leg, NEW d \in DA, StoreAuthorization(p, d)
  PROVE  Inv'
<1>. USE DEF Inv
<1>. DEFINE rest == leg[p].todo \ {d}
<1>1. /\ leg[p].pc = "materialize"
      /\ d \in leg[p].todo
      /\ auth' = auth \cup {d}
      /\ UNCHANGED <<roles, members, registered, grants, acrs, links, child, overlap,
                     outbox, done, inbox, run, sweep>>
      /\ \A q \in Leg \ {p} : leg'[q] = leg[q]
  BY DEF StoreAuthorization, TypeOK
<1>2. \/ /\ leg' = [leg EXCEPT ![p].todo = rest,
                              ![p].pc = IF rest = {} THEN "resolve" ELSE @]
         /\ UNCHANGED lost
      \/ Mishap /\ leg' = [leg EXCEPT ![p].todo = Share(p)]
  BY DEF StoreAuthorization
<1>3. \A q \in Leg : Share(q)' = Share(q)
  BY <1>1 DEF Share, Group
<1>4. leg[p] \in LegState /\ Share(p) \subseteq DA
  <2>1. run[RunOf(p)].pc # "idle"
    BY <1>1 DEF LegsInv
  <2>2. run[RunOf(p)].act \in Activity
    BY <2>1, LegParts DEF RunsInv, TypeOK
  <2>. QED  BY <2>2, GroupDA DEF TypeOK, Share
<1>5. /\ leg'[p].pc = "materialize" \/ (leg'[p].pc = "resolve" /\ rest = {})
      /\ leg'[p].todo \in {rest, Share(p)}
      /\ leg'[p].to = leg[p].to
  BY <1>1, <1>2, <1>4 DEF TypeOK, LegState
<1>6. TypeOK'
  <2>1. leg' \in [Leg -> LegState]
    BY <1>1, <1>2, <1>4 DEF TypeOK, LegState
  <2>2. lost' \in 0 .. MaxLost
    BY <1>2, LostAssumption DEF TypeOK, RegenerationTypeOK, Mishap
  <2>. QED  BY <1>1, <2>1, <2>2 DEF TypeOK, RegenerationTypeOK
<1>7. LegsInv'
  <2>. SUFFICES ASSUME NEW q \in Leg
                PROVE  (LegsInv!(q))'
    BY DEF LegsInv
  <2>1. CASE q = p
    <3>1. /\ leg[p].todo \subseteq Share(p)
          /\ Share(p) \ leg[p].todo \subseteq auth
          /\ run[RunOf(p)].pc # "idle"
          /\ Share(p) # {}
      BY <1>1 DEF LegsInv
    <3>2. rest \subseteq Share(p) /\ Share(p) \ rest \subseteq auth'
      BY <1>1, <3>1
    <3>3. CASE leg'[p].pc = "materialize"
      BY <1>1, <1>3, <1>5, <2>1, <3>1, <3>2, <3>3
    <3>4. CASE leg'[p].pc = "resolve" /\ rest = {}
      <4>1. Share(p) \subseteq auth'
        BY <3>2, <3>4
      <4>. QED  BY <1>1, <1>3, <2>1, <3>1, <3>4, <4>1
    <3>. QED  BY <1>5, <3>3, <3>4
  <2>2. CASE q # p
    <3>1. /\ leg'[q] = leg[q] /\ run' = run /\ Share(q)' = Share(q)
          /\ auth \subseteq auth' /\ child' = child
          /\ AgentsIn(GranteeIn(q))' = AgentsIn(GranteeIn(q))
      BY <1>1, <1>3, <2>2 DEF AgentsIn
    <3>2. LegsInv!(q)
      BY DEF LegsInv
    <3>. QED  BY <3>1, <3>2
  <2>. QED  BY <2>1, <2>2
<1>8. ChildrenInv'
  <2>1. \A c \in Child : child[c].pc # "idle" => ParentOf(c) # p
    BY <1>1 DEF ChildrenInv
  <2>. QED  BY <1>1, <1>3, <2>1 DEF ChildrenInv
<1>9. GrantsInv' /\ LinksInv' /\ RunsInv'
  BY <1>1 DEF GrantsInv, LinksInv, RunsInv, GrantOf
<1>10. DoneMeansInForce'
  BY <1>1, InForceStays DEF DoneMeansInForce
<1>. QED  BY <1>6, <1>7, <1>8, <1>9, <1>10

(* A leg finds out whom it is for; only the leg and the set of             *)
(* registrations move.                                                     *)
LEMMA ResolveGranteeInv ==
  ASSUME Inv, NEW p \in Leg, ResolveGrantee(p)
  PROVE  Inv'
<1>. USE DEF Inv
<1>1. /\ leg[p].pc = "resolve"
      /\ leg' = [leg EXCEPT ![p].pc = "fanout"]
      /\ registered' = registered \cup ({GranteeIn(p)} \cap Application)
      /\ UNCHANGED <<auth, roles, members, grants, acrs, links, child, lost, overlap,
                     outbox, done, inbox, run, sweep>>
  BY DEF ResolveGrantee
<1>2. \A q \in Leg : Share(q)' = Share(q)
  BY <1>1 DEF Share, Group
<1>3. TypeOK'
  BY <1>1, ApplicationAssumption DEF TypeOK, RegenerationTypeOK, LegState
<1>4. /\ \A q \in Leg \ {p} : leg'[q] = leg[q]
      /\ leg'[p].pc = "fanout"
  BY <1>1 DEF TypeOK, LegState
<1>5. LegsInv'
  <2>. SUFFICES ASSUME NEW q \in Leg
                PROVE  (LegsInv!(q))'
    BY DEF LegsInv
  <2>1. CASE q = p
    BY <1>1, <1>2, <1>4, <2>1 DEF LegsInv
  <2>2. CASE q # p
    BY <1>1, <1>2, <1>4, <2>2 DEF LegsInv, AgentsIn
  <2>. QED  BY <2>1, <2>2
<1>6. ChildrenInv'
  <2>1. \A c \in Child : child[c].pc # "idle" => ParentOf(c) # p
    BY <1>1 DEF ChildrenInv
  <2>. QED  BY <1>1, <1>2, <1>4, <2>1 DEF ChildrenInv
<1>7. GrantsInv' /\ LinksInv' /\ RunsInv'
  BY <1>1 DEF GrantsInv, LinksInv, RunsInv, GrantOf
<1>8. DoneMeansInForce'
  BY <1>1, InForceStays DEF DoneMeansInForce
<1>. QED  BY <1>3, <1>5, <1>6, <1>7, <1>8

(* The children of a leg start; none of them existed before.               *)
LEMMA FanOutInv ==
  ASSUME Inv, NEW p \in Leg, FanOut(p)
  PROVE  Inv'
<1>. USE DEF Inv
<1>. DEFINE agents == AgentsIn(GranteeIn(p))
            fresh == [IdleChild EXCEPT !.pc = "authorizations"]
            started(c) == ParentOf(c) = p /\ AgentOf(c) \in agents
<1>1. /\ leg[p].pc = "fanout"
      /\ child' = [c \in Child |-> IF started(c) THEN fresh ELSE child[c]]
      /\ overlap' \subseteq overlap \cup agents
      /\ leg' = [leg EXCEPT ![p].pc = "children", ![p].to = agents]
      /\ UNCHANGED <<store, grants, acrs, links, lost, outbox, done, inbox, run, sweep>>
  BY DEF FanOut, StartChildren, AgentsIn
<1>2. agents \subseteq Agent
  BY AgentsInAgents, LegParts DEF TypeOK
<1>3. \A q \in Leg : Share(q)' = Share(q)
  BY <1>1 DEF Share, Group
<1>4. fresh \in ChildState /\ fresh.pc = "authorizations" /\ fresh.new = {} /\ fresh.blind = {}
  BY DEF IdleChild, ChildState
<1>5. \A c \in Child : started(c) => child[c].pc = "idle"
  BY <1>1 DEF ChildrenInv
<1>6. /\ \A q \in Leg \ {p} : leg'[q] = leg[q]
      /\ leg'[p].pc = "children" /\ leg'[p].to = agents
  BY <1>1 DEF TypeOK, LegState
<1>7. TypeOK'
  <2>1. child' \in [Child -> ChildState]
    BY <1>1, <1>4 DEF TypeOK, RegenerationTypeOK
  <2>2. leg' \in [Leg -> LegState]
    BY <1>1, <1>2 DEF TypeOK, LegState
  <2>. QED  BY <1>1, <1>2, <2>1, <2>2 DEF TypeOK, RegenerationTypeOK, store
<1>8. LegsInv'
  <2>. SUFFICES ASSUME NEW q \in Leg
                PROVE  (LegsInv!(q))'
    BY DEF LegsInv
  <2>0. LegsInv!(q)
    BY DEF LegsInv
  <2>1. AgentsIn(GranteeIn(q))' = AgentsIn(GranteeIn(q))
    BY <1>1 DEF AgentsIn, store
  <2>2. CASE q = p
    <3>1. \A a \in agents : child'[<<p, a>>].pc # "idle"
      BY <1>1, <1>2, <1>4, LegParts
    <3>. QED  BY <1>1, <1>3, <1>6, <2>0, <2>1, <2>2, <3>1 DEF store
  <2>3. CASE q # p
    <3>1. \A a \in leg[q].to : <<q, a>> \in Child /\ ~ started(<<q, a>>)
      BY <2>3, LegParts DEF TypeOK, LegState
    <3>2. \A a \in leg[q].to : child'[<<q, a>>] = child[<<q, a>>]
      BY <1>1, <3>1
    <3>. QED  BY <1>1, <1>3, <1>6, <2>0, <2>1, <2>3, <3>2 DEF store
  <2>. QED  BY <2>2, <2>3
<1>9. ChildrenInv'
  <2>. SUFFICES ASSUME NEW c \in Child, child'[c].pc # "idle"
                PROVE  /\ ParentOf(c) \in Leg
                       /\ leg'[ParentOf(c)].pc \in {"children", "done"}
                       /\ AgentOf(c) \in leg'[ParentOf(c)].to
                       /\ child'[c].pc # "authorizations" =>
                            Share(ParentOf(c))' \subseteq child'[c].seen
    BY DEF ChildrenInv
  <2>1. CASE started(c)
    BY <1>1, <1>4, <1>6, <2>1
  <2>2. CASE ~ started(c)
    <3>1. child'[c] = child[c] /\ ParentOf(c) # p
      BY <1>1, <2>2 DEF ChildrenInv
    <3>. QED  BY <1>3, <1>6, <3>1 DEF ChildrenInv
  <2>. QED  BY <2>1, <2>2
<1>10. GrantsInv'
  <2>1. ASSUME NEW c \in Child PROVE GrantsInvOf(c)'
    <3>1. CASE started(c)
      BY <1>1, <1>4, <3>1 DEF GrantsInvOf
    <3>2. CASE ~ started(c)
      BY <1>1, <3>2 DEF GrantsInv, GrantsInvOf, GrantOf
    <3>. QED  BY <3>1, <3>2
  <2>. QED  BY <1>1, <2>1 DEF GrantsInv, GrantsInvOf
<1>11. LinksInv' /\ RunsInv'
  BY <1>1 DEF LinksInv, RunsInv, store
<1>12. DoneMeansInForce'
  BY <1>1, InForceStays DEF DoneMeansInForce, store
<1>. QED  BY <1>7, <1>8, <1>9, <1>10, <1>11, <1>12

(* A leg ends with its last child.                                         *)
LEMMA JoinChildrenInv ==
  ASSUME Inv, NEW p \in Leg, JoinChildren(p)
  PROVE  Inv'
<1>. USE DEF Inv
<1>1. /\ leg[p].pc = "children"
      /\ \A a \in leg[p].to : child[<<p, a>>].pc = "done"
      /\ leg' = [leg EXCEPT ![p].pc = "done"]
      /\ UNCHANGED <<regenerationVars, outbox, done, inbox, run, sweep>>
  BY DEF JoinChildren
<1>2. /\ \A q \in Leg : Share(q)' = Share(q)
      /\ \A q \in Leg : AgentsIn(GranteeIn(q))' = AgentsIn(GranteeIn(q))
  BY <1>1 DEF Share, Group, AgentsIn, regenerationVars, store
<1>3. /\ \A q \in Leg \ {p} : leg'[q] = leg[q]
      /\ leg'[p].pc = "done" /\ leg'[p].to = leg[p].to
  BY <1>1 DEF TypeOK, LegState
<1>4. TypeOK'
  BY <1>1 DEF TypeOK, RegenerationTypeOK, LegState, regenerationVars, store
<1>5. LegsInv'
  <2>. SUFFICES ASSUME NEW q \in Leg
                PROVE  (LegsInv!(q))'
    BY DEF LegsInv
  <2>0. LegsInv!(q)
    BY DEF LegsInv
  <2>1. CASE q = p
    BY <1>1, <1>2, <1>3, <2>0, <2>1 DEF regenerationVars, store
  <2>2. CASE q # p
    BY <1>1, <1>2, <1>3, <2>0, <2>2 DEF regenerationVars, store
  <2>. QED  BY <2>1, <2>2
<1>6. ChildrenInv'
  BY <1>1, <1>2, <1>3 DEF ChildrenInv, regenerationVars
<1>7. GrantsInv' /\ LinksInv' /\ RunsInv'
  BY <1>1 DEF GrantsInv, LinksInv, RunsInv, GrantOf, regenerationVars, store
<1>8. DoneMeansInForce'
  BY <1>1, InForceStays DEF DoneMeansInForce, regenerationVars, store
<1>. QED  BY <1>4, <1>5, <1>6, <1>7, <1>8

(* A completion by the run: the only step that needs LegsDoneInForce.      *)
LEMMA MarkDoneInv ==
  ASSUME Inv, NEW r \in GrantRun, MarkDone(r)
  PROVE  Inv'
<1>. USE DEF Inv
<1>. DEFINE a == run[r].act
<1>1. /\ run[r].pc = "running"
      /\ \A p \in Leg : RunOf(p) = r => leg[p].pc \in {"idle", "done"}
      /\ done' = done \cup {a}
      /\ UNCHANGED <<store, grants, acrs, links, child, overlap, outbox, inbox, leg, sweep>>
      /\ \/ run' = [run EXCEPT ![r].pc = "done"] /\ UNCHANGED lost
         \/ Mishap /\ UNCHANGED run
  BY DEF MarkDone
<1>2. a \in outbox
  BY <1>1 DEF RunsInv
<1>3. /\ \A q \in GrantRun : run'[q].act = run[q].act
      /\ \A q \in GrantRun : run'[q].pc = "idle" <=> run[q].pc = "idle"
      /\ \A q \in GrantRun : run'[q].pc = "done" => q = r \/ run[q].pc = "done"
  BY <1>1 DEF TypeOK, RunState
<1>4. \A p \in Leg : Share(p)' = Share(p)
  BY <1>3, LegParts DEF Share, Group
<1>5. TypeOK'
  <2>1. run' \in [GrantRun -> RunState]
    BY <1>1 DEF TypeOK, RunState
  <2>2. lost' \in 0 .. MaxLost
    BY <1>1, LostAssumption DEF TypeOK, RegenerationTypeOK, Mishap
  <2>. QED  BY <1>1, <1>2, <2>1, <2>2 DEF TypeOK, RegenerationTypeOK, store
<1>6. LegsInv'
  BY <1>1, <1>3, <1>4, LegParts DEF LegsInv, AgentsIn, store
<1>7. ChildrenInv'
  BY <1>1, <1>4 DEF ChildrenInv
<1>8. GrantsInv' /\ LinksInv'
  BY <1>1 DEF GrantsInv, LinksInv, GrantOf
<1>9. RunsInv'
  <2>1. sweep.pc = "child" => sweep.on \in GrantRun /\ run'[sweep.on].pc # "idle"
    BY <1>3 DEF RunsInv
  <2>. QED  BY <1>1, <1>2, <1>3, <2>1 DEF RunsInv, store
<1>10. DoneMeansInForce'
  <2>1. InForce(a)
    BY <1>1, LegsDoneInForce
  <2>. QED  BY <1>1, <2>1, InForceStays DEF DoneMeansInForce, store
<1>. QED  BY <1>5, <1>6, <1>7, <1>8, <1>9, <1>10

(* A sweep reads the pending activities, all of them recorded.            *)
LEMMA StartSweepInv ==
  ASSUME Inv, StartSweep
  PROVE  Inv'
<1>. USE DEF Inv, StartSweep, regenerationVars, store
<1>1. TypeOK'
  BY DEF TypeOK, RegenerationTypeOK, SweepState
<1>2. LegsInv' /\ ChildrenInv'
  BY DEF LegsInv, ChildrenInv, Share, Group, AgentsIn
<1>3. GrantsInv' /\ LinksInv'
  BY DEF GrantsInv, LinksInv, GrantOf
<1>4. RunsInv'
  BY DEF RunsInv, TypeOK, SweepState
<1>5. DoneMeansInForce'
  BY InForceStays DEF DoneMeansInForce
<1>. QED  BY <1>1, <1>2, <1>3, <1>4, <1>5

(* The sweep's own completion repeats one its child has made.              *)
LEMMA SweepMarkDoneInv ==
  ASSUME Inv, SweepMarkDone
  PROVE  Inv'
<1>. USE DEF Inv, regenerationVars, store
<1>. DEFINE a == run[sweep.on].act
            rest == sweep.todo \ {a}
<1>1. /\ sweep.pc = "child"
      /\ run[sweep.on].pc = "done"
      /\ done' = done \cup {a}
      /\ sweep' = [pc |-> IF rest = {} THEN "off" ELSE "loop", todo |-> rest, on |-> None]
      /\ UNCHANGED <<regenerationVars, outbox, inbox, run, leg>>
  BY DEF SweepMarkDone
<1>2. done' = done
  BY <1>1 DEF RunsInv
<1>3. TypeOK'
  BY <1>1, <1>2 DEF TypeOK, RegenerationTypeOK, SweepState
<1>4. LegsInv' /\ ChildrenInv'
  BY <1>1 DEF LegsInv, ChildrenInv, Share, Group, AgentsIn
<1>5. GrantsInv' /\ LinksInv'
  BY <1>1 DEF GrantsInv, LinksInv, GrantOf
<1>6. RunsInv'
  BY <1>1, <1>2 DEF RunsInv
<1>7. DoneMeansInForce'
  BY <1>1, <1>2, InForceStays DEF DoneMeansInForce
<1>. QED  BY <1>3, <1>4, <1>5, <1>6, <1>7

(* Nothing happens.                                                       *)
LEMMA StutterInv ==
  ASSUME Inv, UNCHANGED vars
  PROVE  Inv'
<1>. USE DEF Inv, vars, regenerationVars, grantingVars, store
<1>1. TypeOK'
  BY DEF TypeOK, RegenerationTypeOK
<1>2. LegsInv' /\ ChildrenInv'
  BY DEF LegsInv, ChildrenInv, Share, Group, AgentsIn
<1>3. GrantsInv' /\ LinksInv'
  BY DEF GrantsInv, LinksInv, GrantOf
<1>4. RunsInv'
  BY DEF RunsInv
<1>5. DoneMeansInForce'
  BY InForceStays DEF DoneMeansInForce
<1>. QED  BY <1>1, <1>2, <1>3, <1>4, <1>5

(* The inductive invariant is inductive: one case per action.             *)
LEMMA NextInv == Inv /\ [Next]_vars => Inv'
<1>. SUFFICES ASSUME Inv, [Next]_vars PROVE Inv'
  OBVIOUS
<1>1. ASSUME NEW a \in Activity, RecordAuthorization(a) PROVE Inv'
  BY <1>1, RecordInv
<1>2. ASSUME NEW a \in Activity, NEW r \in GrantRun, Deliver(a, r) PROVE Inv'
  BY <1>2, DeliverInv
<1>3. ASSUME NEW p \in Leg, LegStep(p) PROVE Inv'
  BY <1>3, StoreAuthorizationInv, ResolveGranteeInv, FanOutInv, JoinChildrenInv DEF LegStep
<1>4. ASSUME NEW c \in Child, ChildStep(c), UNCHANGED grantingVars PROVE Inv'
  BY <1>4, ChildStepInv
<1>5. ASSUME NEW r \in GrantRun, MarkDone(r) \/ SweepNext(r) PROVE Inv'
  BY <1>5, MarkDoneInv, SweepNextInv
<1>6. CASE StartSweep \/ SweepMarkDone
  BY <1>6, StartSweepInv, SweepMarkDoneInv
<1>7. CASE UNCHANGED vars
  BY <1>7, StutterInv
<1>. QED  BY <1>1, <1>2, <1>3, <1>4, <1>5, <1>6, <1>7 DEF Next

-----------------------------------------------------------------------------
(* The inductive invariant of granting.                                    *)
THEOREM InvAlways == Spec => []Inv
  BY InitInv, NextInv, PTL DEF Spec

(* Every variable keeps its type.                                          *)
THEOREM TypeAlways == Spec => []TypeOK
<1>1. Inv => TypeOK
  BY DEF Inv
<1>. QED  BY <1>1, InvAlways, PTL

(* An activity is marked done only when all it embeds is stored and every  *)
(* agent it reaches has a readable grant, whatever the number of           *)
(* activities, agents, runs, sweeps and lost results.                      *)
THEOREM DoneAlwaysInForce == Spec => []DoneMeansInForce
<1>1. Inv => DoneMeansInForce
  BY DEF Inv
<1>. QED  BY <1>1, InvAlways, PTL

(* A link of a registration never leads to a grant that is missing, that   *)
(* has no ACR yet, or that belongs to another agent, and an application can *)
(* read every grant linked for it.                                         *)
THEOREM LinksAlwaysUsable == Spec => []LinkedGrantsUsable
<1>1. ASSUME Inv, NEW p \in Agent, NEW g \in links[p]
      PROVE  /\ g \in grants \cap acrs
             /\ AgentOf(g.by) = p
             /\ p \in Application => Readable(g)
  <2>1. g \in grants \cap acrs /\ AgentOf(g.by) = p
    BY <1>1 DEF Inv, LinksInv
  <2>2. g.by \in Child
    BY <1>1 DEF Inv, TypeOK, RegenerationTypeOK, Grant
  <2>3. p \in Application => child[g.by].blind = {}
    BY <1>1, <2>1, <2>2 DEF Inv, GrantsInv
  <2>. QED  BY <2>1, <2>3 DEF Readable
<1>2. Inv => LinkedGrantsUsable
  BY <1>1 DEF LinkedGrantsUsable
<1>. QED  BY <1>2, InvAlways, PTL

-----------------------------------------------------------------------------
(* Granting implements the outbox.                                         *)
effectedOutbox == {a \in outbox : InForce(a)}

(* A step that stores one authorization, or the grants of one, brings at   *)
(* most the activity that carries it into force.                           *)
LEMMA EffectStep ==
  ASSUME NEW d \in DA, TypeOK,
         UNCHANGED <<outbox, done, roles, members>>,
         auth \subseteq auth', auth' \subseteq auth \cup {d},
         acrs \subseteq acrs', \A g \in acrs' \ acrs : g.da = d
  PROVE  [Promise!Next]_(Promise!vars)
<1>1. ASSUME NEW a \in outbox, InForce(a)' , ~ InForce(a)
      PROVE  d \in Carries[a]
  <2>1. SUFFICES ASSUME d \notin Carries[a] PROVE FALSE
    OBVIOUS
  <2>2. Carries[a] \subseteq auth
    BY <1>1, <2>1 DEF InForce
  <2>3. \A e \in Carries[a] : \A p \in AgentsOf(e) :
          \E g \in acrs : g.da = e /\ AgentOf(g.by) = p
    <3>1. \A e \in Carries[a] : AgentsOf(e)' = AgentsOf(e)
      BY DEF AgentsOf
    <3>2. \A e \in Carries[a] : \A p \in AgentsOf(e) :
            \E g \in acrs' : g.da = e /\ AgentOf(g.by) = p
      BY <1>1, <3>1 DEF InForce
    <3>. QED  BY <2>1, <3>2
  <2>. QED  BY <1>1, <2>2, <2>3 DEF InForce
<1>2. effectedOutbox \subseteq effectedOutbox'
  BY InForceStays DEF effectedOutbox
<1>3. CASE effectedOutbox' = effectedOutbox
  BY <1>3 DEF effectedOutbox, Promise!vars
<1>4. CASE effectedOutbox' # effectedOutbox
  <2>1. PICK a \in effectedOutbox' : a \notin effectedOutbox
    BY <1>2, <1>4
  <2>2. a \in outbox /\ a \in Activity /\ d \in Carries[a]
    BY <1>1, <2>1 DEF effectedOutbox, TypeOK
  <2>3. \A b \in effectedOutbox' \ effectedOutbox : b = a
    BY <1>1, <2>2, CarriesAssumption DEF effectedOutbox, TypeOK
  <2>4. effectedOutbox' = effectedOutbox \cup {a}
    BY <1>2, <2>1, <2>3
  <2>5. Promise!Effect(a)
    BY <2>1, <2>2, <2>4 DEF effectedOutbox, Promise!Effect
  <2>. QED  BY <2>2, <2>5 DEF Promise!Next
<1>. QED  BY <1>3, <1>4

(* A step that touches nothing the outbox shows.                           *)
LEMMA SilentStep ==
  ASSUME UNCHANGED <<outbox, done, auth, roles, members, acrs>>
  PROVE  UNCHANGED Promise!vars
<1>1. \A a : InForce(a)' <=> InForce(a)
  BY DEF InForce, AgentsOf
<1>. QED  BY <1>1 DEF Promise!vars

(* A child's step shows in the outbox only where it writes an ACR.        *)
LEMMA ChildStepPromise ==
  ASSUME Inv, NEW c \in Child, ChildStep(c), UNCHANGED grantingVars
  PROVE  [Promise!Next]_(Promise!vars)
<1>. USE DEF Inv, TypeOK, grantingVars, store
<1>1. CASE CreateAcr(c) \/ RequestDelegation(c)
  <2>1. PICK g \in Grant : /\ WriteAcr(c, g)
                          /\ UNCHANGED store
    BY <1>1, AcrStepEffect
  <2>2. acrs' = acrs \cup {g}
    BY <2>1, WriteAcrEffect
  <2>3. g.da \in DA /\ \A h \in acrs' \ acrs : h.da = g.da
    BY <2>2 DEF Grant
  <2>. QED  BY <2>1, <2>2, <2>3, EffectStep
<1>2. CASE UNCHANGED acrs
  <2>1. UNCHANGED <<outbox, done, auth, roles, members>>
    BY ChildStepFrame
  <2>. QED  BY <1>2, <2>1, SilentStep
<1>. QED
  BY <1>1, <1>2 DEF ChildStep, FetchAuthorizations, GenerateGrants, StoreDataGrant,
                    FailAlways, ReadLinks, PatchLinks

(* A leg's step shows in the outbox only where it stores an authorization.*)
LEMMA LegStepPromise ==
  ASSUME Inv, NEW p \in Leg, LegStep(p)
  PROVE  [Promise!Next]_(Promise!vars)
<1>1. ASSUME NEW d \in DA, StoreAuthorization(p, d)
      PROVE  [Promise!Next]_(Promise!vars)
  <2>1. /\ auth' = auth \cup {d}
        /\ UNCHANGED <<roles, members, acrs, outbox, done>>
    BY <1>1 DEF StoreAuthorization
  <2>. QED  BY <2>1, EffectStep DEF Inv
<1>2. CASE ResolveGrantee(p) \/ FanOut(p) \/ JoinChildren(p)
  <2>1. UNCHANGED <<outbox, done, auth, roles, members, acrs>>
    BY <1>2 DEF ResolveGrantee, FanOut, JoinChildren, regenerationVars, store
  <2>. QED  BY <2>1, SilentStep
<1>. QED  BY <1>1, <1>2 DEF LegStep

(* Every step of granting is a step of the outbox or none.                *)
LEMMA NextPromise == Inv /\ [Next]_vars => [Promise!Next]_(Promise!vars)
<1>. SUFFICES ASSUME Inv, [Next]_vars PROVE [Promise!Next]_(Promise!vars)
  OBVIOUS
<1>1. ASSUME NEW a \in Activity, RecordAuthorization(a)
      PROVE  [Promise!Next]_(Promise!vars)
  <2>1. \A b : InForce(b)' <=> InForce(b)
    BY <1>1 DEF RecordAuthorization, InForce, AgentsOf, regenerationVars, store
  <2>2. /\ a \notin outbox
        /\ outbox' = outbox \cup {a}
        /\ done' = done
    BY <1>1 DEF RecordAuthorization
  <2>3. effectedOutbox' \in {effectedOutbox, effectedOutbox \cup {a}}
    BY <2>1, <2>2 DEF effectedOutbox
  <2>4. Promise!Record(a)
    BY <2>2, <2>3 DEF Promise!Record, effectedOutbox
  <2>. QED  BY <2>4 DEF Promise!Next
<1>2. ASSUME NEW a \in Activity, NEW r \in GrantRun, Deliver(a, r)
      PROVE  [Promise!Next]_(Promise!vars)
  BY <1>2, SilentStep DEF Deliver, regenerationVars, store
<1>3. ASSUME NEW p \in Leg, LegStep(p) PROVE [Promise!Next]_(Promise!vars)
  BY <1>3, LegStepPromise
<1>4. ASSUME NEW c \in Child, ChildStep(c), UNCHANGED grantingVars
      PROVE  [Promise!Next]_(Promise!vars)
  BY <1>4, ChildStepPromise
<1>5. ASSUME NEW r \in GrantRun, MarkDone(r) PROVE [Promise!Next]_(Promise!vars)
  <2>. DEFINE a == run[r].act
  <2>1. /\ run[r].pc = "running"
        /\ \A p \in Leg : RunOf(p) = r => leg[p].pc \in {"idle", "done"}
        /\ done' = done \cup {a}
        /\ UNCHANGED <<store, acrs, outbox>>
    BY <1>5 DEF MarkDone
  <2>2. a \in outbox /\ a \in Activity /\ InForce(a)
    BY <2>1, LegsDoneInForce DEF Inv, RunsInv, TypeOK
  <2>3. \A b : InForce(b)' <=> InForce(b)
    BY <2>1 DEF InForce, AgentsOf, store
  <2>4. Promise!Complete(a)
    BY <2>1, <2>2, <2>3 DEF Promise!Complete
  <2>. QED  BY <2>2, <2>4 DEF Promise!Next
<1>6. ASSUME NEW r \in GrantRun, SweepNext(r) PROVE [Promise!Next]_(Promise!vars)
  BY <1>6, SilentStep DEF SweepNext, regenerationVars, store
<1>7. CASE StartSweep
  BY <1>7, SilentStep DEF StartSweep, regenerationVars, store
<1>8. CASE SweepMarkDone
  <2>1. done' = done
    BY <1>8 DEF SweepMarkDone, Inv, RunsInv
  <2>. QED  BY <1>8, <2>1, SilentStep DEF SweepMarkDone, regenerationVars, store
<1>9. CASE UNCHANGED vars
  BY <1>9, SilentStep DEF vars, regenerationVars, store, grantingVars
<1>. QED
  BY <1>1, <1>2, <1>3, <1>4, <1>5, <1>6, <1>7, <1>8, <1>9 DEF Next

(* Granting keeps the promise of the outbox: every step records, brings    *)
(* into force or completes one activity, in that order, or is invisible.   *)
THEOREM GrantingKeepsPromise == Spec => KeepsPromise
<1>1. Init => Promise!Init
  BY DEF Init, Promise!Init
<1>. QED  BY <1>1, InvAlways, NextPromise, PTL DEF Spec, KeepsPromise, Promise!Spec

-----------------------------------------------------------------------------
(* The last patch.  A link is there because the child it was generated by  *)
(* has patched: it is done, or its PATCH was lost and it will patch again. *)
Patched(c) == child[c].pc = "done" \/ child[c].again

Patching ==
  /\ \A p \in Agent : \A g \in links[p] : Patched(g.by)
  /\ \A c \in Child : /\ child[c].again => child[c].pc \in {"read", "patch", "done"}
                      /\ child[c].pc = "patch" => \A g \in child[c].read : Patched(g.by)

(* Child c of agent p, all of its grants linked.                           *)
Kept(p, c) == AgentOf(c) = p /\ child[c].new \subseteq links[p]

(* A child that is about to patch either finds its own earlier links in    *)
(* place, or another child has patched since it read.                      *)
LastPatch(p) ==
  PatchedAgainOnce(p) =>
    /\ (\E c \in Child : AgentOf(c) = p /\ child[c].pc = "done")
         => \E c \in Child : Kept(p, c) /\ child[c].pc \in {"read", "patch", "done"}
    /\ \A c \in Child : AgentOf(c) = p /\ child[c].pc = "patch" =>
         \/ child[c].read \cap child[c].new \subseteq links[p]
         \/ \E d \in Child \ {c} : /\ Kept(p, d) /\ child[d].pc = "done"
                                   /\ child[d].new \cap child[c].read = {}

LastInv == Patching /\ \A p \in Agent : LastPatch(p)

(* Until it reads the links a child leaves them alone and has not patched. *)
LEMMA ChildStepEarly ==
  ASSUME RegenerationTypeOK, GrantsInv, NEW c \in Child, ChildStep(c),
         ~ ReadLinks(c), ~ PatchLinks(c)
  PROVE  /\ UNCHANGED <<links, overlap>>
         /\ child[c].pc \in {"authorizations", "generate", "store", "acr", "delegate"}
         /\ child'[c].pc \in {"generate", "store", "acr", "delegate", "read", "failing"}
         /\ child'[c].again = child[c].again
<1>. USE DEF RegenerationTypeOK
<1>0. child[c] \in ChildState /\ 1 \in 1 .. MaxLost + 1
  BY LostAssumption
<1>1. CASE FetchAuthorizations(c)
  BY <1>0, <1>1 DEF FetchAuthorizations, ChildState
<1>2. CASE GenerateGrants(c)
  <2>1. /\ [child[c] EXCEPT !.todo = child[c].seen] \in ChildState
        /\ [child[c] EXCEPT !.todo = child[c].seen].again = child[c].again
    BY <1>0, ChildFields DEF ChildState
  <2>. QED  BY <1>2, <2>1, NextGrantEffect DEF GenerateGrants
<1>3. CASE StoreDataGrant(c)
  BY <1>0, <1>3 DEF StoreDataGrant, ChildState
<1>4. CASE CreateAcr(c) \/ RequestDelegation(c)
  <2>1. PICK g \in Grant : /\ WriteAcr(c, g)
                          /\ child[c].pc \in {"acr", "delegate"}
                          /\ UNCHANGED <<links, overlap>>
    BY <1>4, AcrStepEffect
  <2>. QED  BY <2>1, WriteAcrEffect
<1>5. CASE FailAlways(c)
  BY <1>0, <1>5 DEF FailAlways, ChildState
<1>. QED  BY <1>1, <1>2, <1>3, <1>4, <1>5 DEF ChildStep

(* What reading the links does.                                            *)
LEMMA ReadLinksEffect ==
  ASSUME RegenerationTypeOK, NEW c \in Child, ReadLinks(c)
  PROVE  /\ UNCHANGED <<links, overlap>>
         /\ \A e \in Child \ {c} : child'[e] = child[e]
         /\ child[c].pc = "read" /\ child'[c].pc = "patch"
         /\ child'[c].read = links[AgentOf(c)]
         /\ child'[c].new = child[c].new
         /\ child'[c].seen = child[c].seen
         /\ child'[c].todo = child[c].todo
         /\ child'[c].again = child[c].again
<1>1. child[c] \in ChildState
  BY DEF RegenerationTypeOK
<1>. QED  BY <1>1 DEF ReadLinks, RegenerationTypeOK, ChildState

(* What a PATCH does, be its result lost or not.                           *)
LEMMA PatchLinksEffect ==
  ASSUME RegenerationTypeOK, NEW c \in Child, PatchLinks(c)
  PROVE  /\ UNCHANGED overlap
         /\ \A p \in Agent \ {AgentOf(c)} : links'[p] = links[p]
         /\ links'[AgentOf(c)] = (links[AgentOf(c)] \ (child[c].read \ child[c].new))
                                   \cup (child[c].new \ child[c].read)
         /\ \A e \in Child \ {c} : child'[e] = child[e]
         /\ child[c].pc = "patch"
         /\ \/ child'[c].pc = "done" /\ child'[c].again = child[c].again
            \/ child'[c].pc = "read" /\ child'[c].again
         /\ child'[c].new = child[c].new
         /\ child'[c].seen = child[c].seen
         /\ child'[c].todo = child[c].todo
<1>1. child[c] \in ChildState /\ AgentOf(c) \in Agent
  BY ChildParts DEF RegenerationTypeOK
<1>. QED  BY <1>1 DEF PatchLinks, RegenerationTypeOK, ChildState

(* Whatever child c does, a child that has patched has patched.            *)
LEMMA PatchedStays ==
  ASSUME RegenerationTypeOK, GrantsInv, NEW c \in Child, ChildStep(c)
  PROVE  \A e \in Child : Patched(e) => Patched(e)'
<1>1. child[c].pc # "done"
  BY ChildStepFrame
<1>2. \A e \in Child \ {c} : child'[e] = child[e]
  BY ChildStepFrame
<1>3. child[c].again => child'[c].again \/ child'[c].pc = "done"
  BY ChildStepEarly, ReadLinksEffect, PatchLinksEffect
<1>. QED  BY <1>1, <1>2, <1>3 DEF Patched

(* A child's step leaves every link with a child that has patched.         *)
LEMMA ChildStepPatching ==
  ASSUME RegenerationTypeOK, GrantsInv, Patching, NEW c \in Child, ChildStep(c)
  PROVE  Patching'
<1>0. \A p \in Agent : \A g \in links[p] : g.by \in Child /\ Patched(g.by)'
  <2>1. \A p \in Agent : \A g \in links[p] : g.by \in Child /\ Patched(g.by)
    BY DEF Patching, RegenerationTypeOK, Grant
  <2>. QED  BY <2>1, PatchedStays
<1>1. \A e \in Child : child[e].pc = "patch" =>
        \A g \in child[e].read : Patched(g.by)'
  <2>1. \A e \in Child : \A g \in child[e].read : g.by \in Child
    BY ChildFields DEF RegenerationTypeOK, Grant
  <2>. QED  BY <2>1, PatchedStays DEF Patching
<1>2. \A e \in Child \ {c} : child'[e] = child[e]
  BY ChildStepFrame
<1>3. CASE ReadLinks(c)
  <2>1. \A g \in child'[c].read : Patched(g.by)'
    BY <1>0, <1>3, ReadLinksEffect, ChildParts
  <2>2. child'[c].pc = "patch" /\ UNCHANGED links
    BY <1>3, ReadLinksEffect
  <2>. QED  BY <1>0, <1>1, <1>2, <2>1, <2>2 DEF Patching
<1>4. CASE PatchLinks(c)
  <2>1. Patched(c)' /\ child'[c].pc \in {"read", "done"}
    BY <1>4, PatchLinksEffect DEF Patched
  <2>2. \A g \in child[c].new : g.by = c
    BY DEF GrantsInv
  <2>3. \A p \in Agent : \A g \in links'[p] :
          g \in links[p] \/ g \in child[c].new
    BY <1>4, PatchLinksEffect
  <2>4. \A p \in Agent : \A g \in links'[p] : Patched(g.by)'
    BY <1>0, <2>1, <2>2, <2>3
  <2>. QED  BY <1>1, <1>2, <2>1, <2>4 DEF Patching
<1>5. CASE ~ ReadLinks(c) /\ ~ PatchLinks(c)
  <2>1. /\ UNCHANGED links
        /\ ~ child[c].again
        /\ child'[c].again = child[c].again
        /\ child'[c].pc # "patch"
    BY <1>5, ChildStepEarly DEF Patching
  <2>. QED  BY <1>0, <1>1, <1>2, <2>1 DEF Patching
<1>. QED  BY <1>3, <1>4, <1>5

(* A PATCH of child c, seen by another child e that is about to patch too. *)
LEMMA PatchSeen ==
  ASSUME RegenerationTypeOK, GrantsInv, Patching,
         NEW c \in Child, PatchLinks(c),
         NEW e \in Child \ {c}, AgentOf(e) = AgentOf(c), child[e].pc = "patch",
         PatchedAgainOnce(AgentOf(c)),
         PatchedAgainOnce(AgentOf(c))'
  PROVE  \/ child[e].read \cap child[e].new = {}
         \/ /\ child'[c].pc = "done"
            /\ child[c].new \subseteq links'[AgentOf(c)]
            /\ child[c].new \cap child[e].read = {}
<1>1. SUFFICES ASSUME child[e].read \cap child[e].new # {}
               PROVE  /\ child'[c].pc = "done"
                      /\ child[c].new \subseteq links'[AgentOf(c)]
                      /\ child[c].new \cap child[e].read = {}
  OBVIOUS
<1>2. child[e].again
  <2>1. PICK g \in child[e].read : g \in child[e].new
    BY <1>1
  <2>2. Patched(g.by) /\ g.by = e
    BY <2>1 DEF Patching, GrantsInv
  <2>. QED  BY <2>2 DEF Patched
<1>3. ~ child[c].again
  BY <1>2 DEF PatchedAgainOnce
<1>4. child'[e] = child[e]
  BY PatchLinksEffect
<1>5. ~ child'[c].again
  BY <1>2, <1>4 DEF PatchedAgainOnce
<1>6. child'[c].pc = "done"
  BY <1>5, PatchLinksEffect
<1>7. child[c].pc = "patch"
  BY PatchLinksEffect
<1>8. ~ Patched(c)
  BY <1>3, <1>7 DEF Patched
<1>9. \A g \in child[c].new : g.by = c
  BY DEF GrantsInv
<1>10. child[c].new \cap child[c].read = {} /\ child[c].new \cap child[e].read = {}
  BY <1>7, <1>8, <1>9 DEF Patching
<1>11. child[c].new \subseteq links'[AgentOf(c)]
  BY <1>10, PatchLinksEffect
<1>. QED  BY <1>6, <1>10, <1>11

(* Nothing that concerns agent p has moved.                                *)
LEMMA LastPatchFrame ==
  ASSUME NEW p \in Agent, LastPatch(p),
         links'[p] = links[p],
         \A e \in Child : AgentOf(e) = p => child'[e] = child[e]
  PROVE  LastPatch(p)'
<1>1. \A e \in Child : Kept(p, e)' <=> Kept(p, e)
  BY DEF Kept
<1>2. PatchedAgainOnce(p)' => PatchedAgainOnce(p)
  BY DEF PatchedAgainOnce
<1>. QED  BY <1>1, <1>2 DEF LastPatch, Kept

(* A child's step leaves the agent with the grants of some child.          *)
LEMMA ChildStepLast ==
  ASSUME RegenerationTypeOK, GrantsInv, Patching,
         NEW c \in Child, ChildStep(c),
         NEW p \in Agent, LastPatch(p)
  PROVE  LastPatch(p)'
<1>0. \A e \in Child \ {c} : child'[e] = child[e]
  BY ChildStepFrame
<1>1. CASE AgentOf(c) # p
  <2>1. links'[p] = links[p]
    BY <1>1, ChildStepEarly, ReadLinksEffect, PatchLinksEffect
  <2>. QED  BY <1>0, <1>1, <2>1, LastPatchFrame
<1>2. CASE AgentOf(c) = p
  <2>. SUFFICES ASSUME PatchedAgainOnce(p)'
                PROVE  /\ (\E e \in Child : AgentOf(e) = p /\ child'[e].pc = "done")
                            => \E e \in Child : Kept(p, e)' /\ child'[e].pc \in {"read", "patch", "done"}
                       /\ \A e \in Child : AgentOf(e) = p /\ child'[e].pc = "patch" =>
                            \/ child'[e].read \cap child'[e].new \subseteq links'[p]
                            \/ \E d \in Child \ {e} : /\ Kept(p, d)' /\ child'[d].pc = "done"
                                                      /\ child'[d].new \cap child'[e].read = {}
    BY DEF LastPatch
  <2>1. PatchedAgainOnce(p)
    <3>1. \A e \in Child : child[e].again => child'[e].again
      BY <1>0, ChildStepEarly, ReadLinksEffect, PatchLinksEffect
    <3>. QED  BY <3>1 DEF PatchedAgainOnce
  <2>2. /\ (\E e \in Child : AgentOf(e) = p /\ child[e].pc = "done")
             => \E e \in Child : Kept(p, e) /\ child[e].pc \in {"read", "patch", "done"}
        /\ \A e \in Child : AgentOf(e) = p /\ child[e].pc = "patch" =>
             \/ child[e].read \cap child[e].new \subseteq links[p]
             \/ \E d \in Child \ {e} : /\ Kept(p, d) /\ child[d].pc = "done"
                                       /\ child[d].new \cap child[e].read = {}
    BY <2>1 DEF LastPatch
  <2>3. CASE ReadLinks(c)
    <3>1. \A e \in Child : Kept(p, e)' <=> Kept(p, e)
      BY <1>0, <2>3, ReadLinksEffect DEF Kept
    <3>2. \A e \in Child : /\ child'[e].pc = "done" <=> child[e].pc = "done"
                           /\ child[e].pc \in {"read", "patch", "done"}
                                => child'[e].pc \in {"read", "patch", "done"}
      BY <1>0, <2>3, ReadLinksEffect
    <3>3. child'[c].read \cap child'[c].new \subseteq links'[p]
      BY <1>2, <2>3, ReadLinksEffect
    <3>4. ASSUME NEW e \in Child \ {c}, AgentOf(e) = p, child'[e].pc = "patch"
          PROVE  \/ child'[e].read \cap child'[e].new \subseteq links'[p]
                 \/ \E d \in Child \ {e} : /\ Kept(p, d)' /\ child'[d].pc = "done"
                                           /\ child'[d].new \cap child'[e].read = {}
      <4>1. /\ child'[e] = child[e] /\ links' = links
            /\ \A d \in Child : child'[d].new = child[d].new
        BY <1>0, <2>3, ReadLinksEffect
      <4>. QED  BY <2>2, <3>1, <3>2, <3>4, <4>1
    <3>. QED  BY <2>2, <3>1, <3>2, <3>3, <3>4
  <2>4. CASE PatchLinks(c)
    <3>1. /\ child[c].pc = "patch" /\ child'[c].pc \in {"read", "done"}
          /\ child'[c].new = child[c].new
          /\ links'[p] = (links[p] \ (child[c].read \ child[c].new))
                           \cup (child[c].new \ child[c].read)
      BY <1>2, <2>4, PatchLinksEffect
    <3>2. \E e \in Child : Kept(p, e)' /\ child'[e].pc \in {"read", "patch", "done"}
      <4>1. CASE child[c].read \cap child[c].new \subseteq links[p]
        <5>1. child[c].new \subseteq links'[p]
          BY <3>1, <4>1
        <5>. QED  BY <1>2, <3>1, <5>1 DEF Kept
      <4>2. CASE \E d \in Child \ {c} : /\ Kept(p, d) /\ child[d].pc = "done"
                                        /\ child[d].new \cap child[c].read = {}
        <5>1. PICK d \in Child \ {c} : /\ Kept(p, d) /\ child[d].pc = "done"
                                       /\ child[d].new \cap child[c].read = {}
          BY <4>2
        <5>2. child'[d] = child[d] /\ child[d].new \subseteq links'[p]
          BY <1>0, <3>1, <5>1 DEF Kept
        <5>. QED  BY <5>1, <5>2 DEF Kept
      <4>. QED  BY <1>2, <2>2, <3>1, <4>1, <4>2
    <3>3. ASSUME NEW e \in Child, AgentOf(e) = p, child'[e].pc = "patch"
          PROVE  \/ child'[e].read \cap child'[e].new \subseteq links'[p]
                 \/ \E d \in Child \ {e} : /\ Kept(p, d)' /\ child'[d].pc = "done"
                                           /\ child'[d].new \cap child'[e].read = {}
      <4>1. e # c
        BY <3>1, <3>3
      <4>2. child'[e] = child[e]
        BY <1>0, <4>1
      <4>3. \/ child[e].read \cap child[e].new = {}
            \/ /\ child'[c].pc = "done"
               /\ child[c].new \subseteq links'[p]
               /\ child[c].new \cap child[e].read = {}
        BY <1>2, <2>1, <2>4, <3>3, <4>1, <4>2, PatchSeen
      <4>4. CASE child[e].read \cap child[e].new = {}
        BY <4>2, <4>4
      <4>5. CASE /\ child'[c].pc = "done"
                 /\ child[c].new \subseteq links'[p]
                 /\ child[c].new \cap child[e].read = {}
        <5>1. Kept(p, c)'
          BY <1>2, <3>1, <4>5 DEF Kept
        <5>. QED  BY <3>1, <4>1, <4>2, <4>5, <5>1
      <4>. QED  BY <4>3, <4>4, <4>5
    <3>. QED  BY <3>2, <3>3
  <2>5. CASE ~ ReadLinks(c) /\ ~ PatchLinks(c)
    <3>1. /\ UNCHANGED links
          /\ child[c].pc \notin {"read", "patch", "done"}
          /\ child'[c].pc \notin {"patch", "done"}
      BY <2>5, ChildStepEarly
    <3>2. \A e \in Child : child[e].pc \in {"read", "patch", "done"}
            => child'[e] = child[e] /\ (Kept(p, e) => Kept(p, e)')
      BY <1>0, <3>1 DEF Kept
    <3>3. \A e \in Child : child'[e].pc \in {"patch", "done"} => child'[e] = child[e]
      BY <1>0, <3>1
    <3>4. (\E e \in Child : AgentOf(e) = p /\ child'[e].pc = "done")
            => \E e \in Child : Kept(p, e)' /\ child'[e].pc \in {"read", "patch", "done"}
      BY <2>2, <3>2, <3>3
    <3>5. ASSUME NEW e \in Child, AgentOf(e) = p, child'[e].pc = "patch"
          PROVE  \/ child'[e].read \cap child'[e].new \subseteq links'[p]
                 \/ \E d \in Child \ {e} : /\ Kept(p, d)' /\ child'[d].pc = "done"
                                           /\ child'[d].new \cap child'[e].read = {}
      <4>1. child'[e] = child[e]
        BY <3>3, <3>5
      <4>2. CASE child[e].read \cap child[e].new \subseteq links[p]
        BY <3>1, <4>1, <4>2
      <4>3. CASE \E d \in Child \ {e} : /\ Kept(p, d) /\ child[d].pc = "done"
                                        /\ child[d].new \cap child[e].read = {}
        BY <3>2, <4>1, <4>3
      <4>. QED  BY <2>2, <3>5, <4>1, <4>2, <4>3
    <3>. QED  BY <3>4, <3>5
  <2>. QED  BY <2>3, <2>4, <2>5
<1>. QED  BY <1>1, <1>2

(* Children start where there were none.                                   *)
LEMMA FreshChildren ==
  ASSUME Inv, NEW l \in Leg, FanOut(l)
  PROVE  /\ UNCHANGED links
         /\ \A c \in Child :
              IF ParentOf(c) = l /\ AgentOf(c) \in AgentsIn(GranteeIn(l))
              THEN /\ child[c].pc = "idle"
                   /\ child'[c] = [IdleChild EXCEPT !.pc = "authorizations"]
              ELSE child'[c] = child[c]
         /\ overlap' = overlap \cup {a \in AgentsIn(GranteeIn(l)) :
                                       \E c \in Child : AgentOf(c) = a /\ Active(c)}
<1>1. leg[l].pc = "fanout"
  BY DEF FanOut
<1>2. \A c \in Child : ParentOf(c) = l => child[c].pc = "idle"
  BY <1>1 DEF Inv, ChildrenInv
<1>3. StartChildren(l, AgentsIn(GranteeIn(l))) /\ UNCHANGED links
  BY DEF FanOut, AgentsIn
<1>. QED  BY <1>2, <1>3 DEF StartChildren

(* Starting children disturbs no agent's last patch.                       *)
LEMMA FanOutLast ==
  ASSUME Inv, LastInv, NEW l \in Leg, FanOut(l)
  PROVE  LastInv'
<1>1. /\ UNCHANGED links
      /\ \A c \in Child : \/ child'[c] = child[c]
                          \/ /\ child[c].pc = "idle"
                             /\ child'[c].pc = "authorizations"
                             /\ ~ child'[c].again
  <2>1. /\ [IdleChild EXCEPT !.pc = "authorizations"].pc = "authorizations"
        /\ ~ [IdleChild EXCEPT !.pc = "authorizations"].again
    BY DEF IdleChild
  <2>. QED  BY <2>1, FreshChildren
<1>2. \A c \in Child : Patched(c) => child'[c] = child[c] /\ Patched(c)'
  BY <1>1 DEF Patched, LastInv, Patching
<1>3. \A p \in Agent : \A g \in links[p] : g.by \in Child
  BY DEF Inv, TypeOK, RegenerationTypeOK, Grant
<1>4. \A e \in Child : \A g \in child[e].read : g.by \in Child
  BY ChildFields DEF Inv, TypeOK, RegenerationTypeOK, Grant
<1>5. Patching'
  <2>1. \A p \in Agent : \A g \in links'[p] : Patched(g.by)'
    BY <1>1, <1>2, <1>3 DEF LastInv, Patching
  <2>2. \A c \in Child : child'[c].again => child'[c].pc \in {"read", "patch", "done"}
    BY <1>1 DEF LastInv, Patching
  <2>3. \A c \in Child : child'[c].pc = "patch" => \A g \in child'[c].read : Patched(g.by)'
    BY <1>1, <1>2, <1>4 DEF LastInv, Patching
  <2>. QED  BY <2>1, <2>2, <2>3 DEF Patching
<1>6. ASSUME NEW p \in Agent PROVE LastPatch(p)'
  <2>1. PatchedAgainOnce(p)' => PatchedAgainOnce(p)
    <3>1. \A c \in Child : child[c].again => child'[c].again
      BY <1>1, <1>2 DEF Patched
    <3>. QED  BY <3>1 DEF PatchedAgainOnce
  <2>2. \A c \in Child : child[c].pc \in {"read", "patch", "done"}
          => child'[c] = child[c] /\ (Kept(p, c) => Kept(p, c)')
    BY <1>1 DEF Kept
  <2>3. \A c \in Child : child'[c].pc \in {"read", "patch", "done"} => child'[c] = child[c]
    BY <1>1
  <2>4. LastPatch(p)
    BY DEF LastInv
  <2>5. ASSUME PatchedAgainOnce(p),
               \E c \in Child : AgentOf(c) = p /\ child'[c].pc = "done"
        PROVE  \E c \in Child : Kept(p, c)' /\ child'[c].pc \in {"read", "patch", "done"}
    BY <2>2, <2>3, <2>4, <2>5 DEF LastPatch
  <2>6. ASSUME PatchedAgainOnce(p),
               NEW c \in Child, AgentOf(c) = p, child'[c].pc = "patch"
        PROVE  \/ child'[c].read \cap child'[c].new \subseteq links'[p]
               \/ \E d \in Child \ {c} : /\ Kept(p, d)' /\ child'[d].pc = "done"
                                         /\ child'[d].new \cap child'[c].read = {}
    <3>1. child'[c] = child[c]
      BY <2>3, <2>6
    <3>2. CASE child[c].read \cap child[c].new \subseteq links[p]
      BY <1>1, <3>1, <3>2
    <3>3. CASE \E d \in Child \ {c} : /\ Kept(p, d) /\ child[d].pc = "done"
                                      /\ child[d].new \cap child[c].read = {}
      BY <2>2, <3>1, <3>3
    <3>. QED  BY <2>4, <2>6, <3>1, <3>2, <3>3 DEF LastPatch
  <2>. QED  BY <2>1, <2>5, <2>6 DEF LastPatch
<1>. QED  BY <1>5, <1>6 DEF LastInv

(* Every other step leaves the children and the links as they are.         *)
LEMMA NoLinkMoves ==
  ASSUME [Next]_vars
  PROVE  \/ \E c \in Child : ChildStep(c)
         \/ \E l \in Leg : FanOut(l)
         \/ UNCHANGED <<child, links, overlap>>
<1>. USE DEF regenerationVars
<1>1. ASSUME NEW a \in Activity, RecordAuthorization(a) PROVE UNCHANGED <<child, links, overlap>>
  BY <1>1 DEF RecordAuthorization
<1>2. ASSUME NEW a \in Activity, NEW r \in GrantRun, Deliver(a, r)
      PROVE  UNCHANGED <<child, links, overlap>>
  BY <1>2 DEF Deliver
<1>3. ASSUME NEW l \in Leg, LegStep(l), ~ FanOut(l) PROVE UNCHANGED <<child, links, overlap>>
  BY <1>3 DEF LegStep, StoreAuthorization, ResolveGrantee, JoinChildren
<1>4. ASSUME NEW r \in GrantRun, MarkDone(r) \/ SweepNext(r) PROVE UNCHANGED <<child, links, overlap>>
  BY <1>4 DEF MarkDone, SweepNext
<1>5. CASE StartSweep \/ SweepMarkDone
  BY <1>5 DEF StartSweep, SweepMarkDone
<1>6. CASE UNCHANGED vars
  BY <1>6 DEF vars
<1>. QED  BY <1>1, <1>2, <1>3, <1>4, <1>5, <1>6 DEF Next

(* The last patch is inductive beside the invariant.                       *)
LEMMA NextLast == Inv /\ LastInv /\ [Next]_vars => LastInv'
<1>. SUFFICES ASSUME Inv, LastInv, [Next]_vars PROVE LastInv'
  OBVIOUS
<1>1. ASSUME NEW c \in Child, ChildStep(c) PROVE LastInv'
  BY <1>1, ChildStepPatching, ChildStepLast DEF LastInv, Inv, TypeOK
<1>2. ASSUME NEW l \in Leg, FanOut(l) PROVE LastInv'
  BY <1>2, FanOutLast
<1>3. CASE UNCHANGED <<child, links, overlap>>
  <2>1. Patching'
    BY <1>3 DEF LastInv, Patching, Patched
  <2>2. \A p \in Agent : LastPatch(p)'
    BY <1>3, LastPatchFrame DEF LastInv
  <2>. QED  BY <2>1, <2>2 DEF LastInv
<1>. QED  BY <1>1, <1>2, <1>3, NoLinkMoves

(* It holds before anything has been linked.                               *)
LEMMA InitLast == Init => LastInv
<1>. SUFFICES ASSUME Init PROVE LastInv
  OBVIOUS
<1>1. /\ \A c \in Child : child[c].pc = "idle" /\ ~ child[c].again
      /\ \A p \in Agent : links[p] = {}
  BY DEF Init, RegenerationInit, IdleChild
<1>. QED  BY <1>1 DEF LastInv, Patching, LastPatch

(* Overlapping regenerations of one agent never leave it without the       *)
(* grants of any of them, as long as at most one of them has had a PATCH   *)
(* applied and its result lost: replaceDataGrantsOnRegistration removes    *)
(* only links that it has read.                                            *)
THEOREM LastPatchAlwaysKept == Spec => []LastPatchKept
<1>1. LastInv => LastPatchKept
  BY DEF LastInv, LastPatch, LastPatchKept, Kept
<1>. QED  BY <1>1, InitLast, NextLast, InvAlways, PTL DEF Spec

-----------------------------------------------------------------------------
(* Serial regeneration.  What a child works on is what the registry says   *)
(* of its agent, and it makes one grant for each authorization it has done *)
(* with.                                                                   *)
OneEach(G) == \A g, h \in G : g.da = h.da => g = h

Accounts(c) ==
  /\ child[c].todo \subseteq child[c].seen
  /\ child[c].pc \in {"idle", "authorizations", "generate"} =>
       child[c].todo = {} /\ child[c].new = {}
  /\ \A g \in child[c].new : g.da \in child[c].seen \ child[c].todo
  /\ OneEach(child[c].new)

(* While nothing is taken out of the registry, what a child has seen is     *)
(* still authorized.                                                       *)
Works(c) == Accounts(c) /\ child[c].seen \subseteq AuthorizationsFor(AgentOf(c))

Linked(p) == {g.da : g \in links[p]}

(* One child of agent p at a time: it has seen whatever an earlier one has *)
(* seen, it replaces exactly the links there are, and nothing that was     *)
(* done is lost from them.                                                 *)
AtMostOneActive(p) ==
  \A c, d \in Child : AgentOf(c) = p /\ AgentOf(d) = p /\ Active(c) /\ Active(d) => c = d

SeesMore(p) ==
  \A c, d \in Child :
    /\ AgentOf(c) = p /\ child[c].pc \notin {"idle", "authorizations", "done"}
    /\ AgentOf(d) = p /\ child[d].pc = "done"
    => child[d].seen \subseteq child[c].seen

Replaces(p) ==
  \A c \in Child : AgentOf(c) = p =>
    /\ child[c].pc = "patch" => child[c].read = links[p]
    /\ child[c].pc = "done" => child[c].seen \subseteq Linked(p)

Serial(p) ==
  /\ AtMostOneActive(p)
  /\ SeesMore(p)
  /\ Replaces(p)
  /\ OneEach(links[p])
  /\ Linked(p) \subseteq AuthorizationsFor(p)

(* An authorization in the registry was put there by the leg that has it,  *)
(* and a run is over only when its legs are.                               *)
StoredByLegs == \A d \in auth : \E l \in Leg : leg[l].pc # "idle" /\ d \in Share(l)

Over == \A r \in GrantRun : run[r].pc = "done" =>
          \A l \in Leg : RunOf(l) = r => leg[l].pc \in {"idle", "done"}

ExactInv == /\ \A c \in Child : Works(c)
            /\ \A p \in Agent \ overlap : Serial(p)
            /\ StoredByLegs
            /\ Over

(* Storing an authorization takes nothing away from anybody.               *)
LEMMA AuthorizationsGrow ==
  ASSUME UNCHANGED <<roles, members>>, auth \subseteq auth'
  PROVE  \A p : AuthorizationsFor(p) \subseteq AuthorizationsFor(p)'
  BY DEF AuthorizationsFor, AgentsOf

(* Writing the ACR of a grant of its current authorization, a child either *)
(* gets that grant or stays where it is.                                   *)
LEMMA WriteAcrKeepsAccount ==
  ASSUME RegenerationTypeOK, GrantsInv, NEW c \in Child, Accounts(c), NEW g \in Grant,
         child[c].pc \in {"acr", "delegate"},
         g.da = child[c].cur,
         WriteAcr(c, g)
  PROVE  Accounts(c)'
<1>1. child'[c].seen = child[c].seen
  BY WriteAcrEffect
<1>2. CASE /\ child'[c].pc \in {"store", "delegate", "read"}
           /\ child'[c].todo = child[c].todo \ {child[c].cur}
           /\ child'[c].new = child[c].new \cup {g}
  <2>1. child[c].cur \in child[c].todo
    BY DEF GrantsInv
  <2>2. \A h \in child'[c].new : h.da \in child'[c].seen \ child'[c].todo
    BY <1>1, <1>2, <2>1 DEF Accounts
  <2>3. OneEach(child'[c].new)
    BY <1>2, <2>1 DEF Accounts, OneEach
  <2>. QED  BY <1>1, <1>2, <2>1, <2>2, <2>3 DEF Accounts
<1>3. CASE /\ child'[c].pc = child[c].pc
           /\ child'[c].todo = child[c].todo
           /\ child'[c].new = child[c].new
  BY <1>1, <1>3 DEF Accounts
<1>. QED  BY <1>2, <1>3, WriteAcrEffect

(* A child's step keeps the account of its work.                           *)
LEMMA ChildStepAccounts ==
  ASSUME RegenerationTypeOK, GrantsInv, NEW c \in Child, Accounts(c), ChildStep(c)
  PROVE  Accounts(c)'
<1>. USE DEF RegenerationTypeOK
<1>0. child[c] \in ChildState /\ 1 \in 1 .. MaxLost + 1
  BY LostAssumption
<1>1. CASE FetchAuthorizations(c)
  <2>1. child'[c].todo = {} /\ child'[c].new = {}
    BY <1>0, <1>1 DEF FetchAuthorizations, ChildState, Accounts
  <2>. QED  BY <2>1 DEF Accounts, OneEach
<1>2. CASE GenerateGrants(c)
  <2>1. child[c].new = {}
    BY <1>2 DEF GenerateGrants, Accounts
  <2>. QED  BY <1>2, <2>1, GenerateEffect DEF Accounts
<1>3. CASE StoreDataGrant(c)
  <2>1. /\ child'[c].pc \in {"store", "acr"}
        /\ child'[c].seen = child[c].seen
        /\ child'[c].todo = child[c].todo
        /\ child'[c].new = child[c].new
    BY <1>0, <1>3 DEF StoreDataGrant, ChildState
  <2>. QED  BY <2>1 DEF Accounts
<1>4. CASE CreateAcr(c) \/ RequestDelegation(c)
  <2>1. PICK g \in Grant : /\ g.da = child[c].cur
                          /\ WriteAcr(c, g)
                          /\ child[c].pc \in {"acr", "delegate"}
    BY <1>4, AcrStepEffect
  <2>. QED  BY <2>1, WriteAcrKeepsAccount
<1>5. CASE FailAlways(c)
  BY <1>0, <1>5 DEF FailAlways, ChildState, Accounts
<1>6. CASE ReadLinks(c)
  BY <1>6, ReadLinksEffect DEF Accounts
<1>7. CASE PatchLinks(c)
  BY <1>7, PatchLinksEffect DEF Accounts
<1>. QED  BY <1>1, <1>2, <1>3, <1>4, <1>5, <1>6, <1>7 DEF ChildStep

(* What a child that starts afresh from the registry has seen is           *)
(* authorized.                                                             *)
LEMMA ChildStepWorks ==
  ASSUME RegenerationTypeOK, GrantsInv, NEW c \in Child, Works(c), ChildStep(c)
  PROVE  Works(c)'
<1>1. AuthorizationsFor(AgentOf(c))' = AuthorizationsFor(AgentOf(c))
  BY ChildStepFrame DEF store, AuthorizationsFor, AgentsOf
<1>2. child'[c].seen \in {child[c].seen, AuthorizationsFor(AgentOf(c))}
  BY ChildStepFrame
<1>. QED  BY <1>1, <1>2, ChildStepAccounts DEF Works

(* A child that ends its work has a grant for everything it has seen.      *)
LEMMA NewIsSeen ==
  ASSUME RegenerationTypeOK, GrantsInv, NEW c \in Child, Accounts(c), child[c].pc = "patch"
  PROVE  {g.da : g \in child[c].new} = child[c].seen
<1>1. child[c].todo = {}
  BY DEF GrantsInv
<1>2. \A d \in child[c].seen : \E g \in child[c].new : g.da = d
  BY <1>1 DEF GrantsInv
<1>3. \A g \in child[c].new : g.da \in child[c].seen
  BY DEF Accounts
<1>. QED  BY <1>2, <1>3

(* A PATCH by the only child at work leaves exactly its own grants.        *)
LEMMA SerialPatch ==
  ASSUME RegenerationTypeOK, GrantsInv, NEW c \in Child, Works(c), PatchLinks(c),
         Serial(AgentOf(c))
  PROVE  /\ links'[AgentOf(c)] = child[c].new
         /\ Linked(AgentOf(c))' = child[c].seen
<1>1. child[c].pc = "patch"
  BY PatchLinksEffect
<1>2. child[c].read = links[AgentOf(c)]
  BY <1>1 DEF Serial, Replaces
<1>3. links'[AgentOf(c)] = child[c].new
  BY <1>2, PatchLinksEffect
<1>. QED  BY <1>1, <1>3, NewIsSeen DEF Linked, Works

(* A child's step keeps the regenerations of each agent serial.            *)
LEMMA ChildStepSerial ==
  ASSUME RegenerationTypeOK, GrantsInv, NEW c \in Child, ChildStep(c),
         \A e \in Child : Works(e),
         NEW p \in Agent, Serial(p)
  PROVE  Serial(p)'
<1>0. /\ \A e \in Child \ {c} : child'[e] = child[e]
      /\ child[c].pc \notin {"idle", "done"}
      /\ child'[c].seen = IF child[c].pc = "authorizations"
                          THEN AuthorizationsFor(AgentOf(c)) ELSE child[c].seen
      /\ UNCHANGED store
  BY ChildStepFrame
<1>a. AuthorizationsFor(p)' = AuthorizationsFor(p)
  BY <1>0 DEF store, AuthorizationsFor, AgentsOf
<1>1. CASE AgentOf(c) # p
  <2>1. links'[p] = links[p]
    BY <1>1, ChildStepEarly, ReadLinksEffect, PatchLinksEffect
  <2>2. \A e \in Child : AgentOf(e) = p => child'[e] = child[e]
    BY <1>0, <1>1
  <2>3. AtMostOneActive(p)' /\ SeesMore(p)'
    BY <2>2 DEF Serial, AtMostOneActive, SeesMore, Active
  <2>4. Linked(p)' = Linked(p) /\ Replaces(p)'
    BY <2>1, <2>2 DEF Serial, Replaces, Linked
  <2>. QED  BY <1>a, <2>1, <2>3, <2>4 DEF Serial
<1>2. CASE AgentOf(c) = p
  <2>1. Active(c)
    BY <1>0 DEF Active
  <2>2. \A e \in Child \ {c} : AgentOf(e) = p => /\ child'[e] = child[e]
                                                 /\ child[e].pc \in {"idle", "done"}
    BY <1>0, <1>2, <2>1 DEF Serial, AtMostOneActive, Active
  <2>3. AtMostOneActive(p)'
    BY <2>2 DEF AtMostOneActive, Active
  <2>4. SeesMore(p)'
    <3>. SUFFICES ASSUME NEW e \in Child, NEW d \in Child,
                         AgentOf(e) = p, child'[e].pc \notin {"idle", "authorizations", "done"},
                         AgentOf(d) = p, child'[d].pc = "done"
                  PROVE  child'[d].seen \subseteq child'[e].seen
      BY DEF SeesMore
    <3>1. e = c /\ d # c
      BY <2>2
    <3>2. child'[d] = child[d] /\ child[d].pc = "done"
      BY <2>2, <3>1
    <3>3. CASE child[c].pc = "authorizations"
      BY <1>0, <1>2, <3>1, <3>2, <3>3 DEF Works
    <3>4. CASE child[c].pc # "authorizations"
      BY <1>0, <1>2, <3>1, <3>2, <3>4 DEF Serial, SeesMore
    <3>. QED  BY <3>3, <3>4
  <2>5. Replaces(p)' /\ OneEach(links'[p]) /\ Linked(p)' \subseteq AuthorizationsFor(p)
    <3>1. CASE PatchLinks(c)
      <4>1. links'[p] = child[c].new /\ Linked(p)' = child[c].seen
        BY <1>2, <3>1, SerialPatch
      <4>2. child[c].pc = "patch" /\ child'[c].pc # "patch" /\ child'[c].seen = child[c].seen
        BY <3>1, PatchLinksEffect
      <4>3. \A d \in Child \ {c} : AgentOf(d) = p /\ child[d].pc = "done"
              => child[d].seen \subseteq child[c].seen
        BY <1>2, <4>2 DEF Serial, SeesMore
      <4>4. Replaces(p)'
        BY <2>2, <4>1, <4>2, <4>3 DEF Replaces
      <4>. QED  BY <1>2, <4>1, <4>4 DEF Works, Accounts
    <3>2. CASE ReadLinks(c)
      <4>1. /\ links' = links /\ Linked(p)' = Linked(p)
            /\ child'[c].pc = "patch" /\ child'[c].read = links[p]
        BY <1>2, <3>2, ReadLinksEffect DEF Linked
      <4>. QED  BY <2>2, <4>1 DEF Serial, Replaces
    <3>3. CASE ~ ReadLinks(c) /\ ~ PatchLinks(c)
      <4>1. /\ links' = links /\ Linked(p)' = Linked(p)
            /\ child'[c].pc \notin {"patch", "done"}
        BY <3>3, ChildStepEarly DEF Linked
      <4>. QED  BY <2>2, <4>1 DEF Serial, Replaces
    <3>. QED  BY <3>1, <3>2, <3>3
  <2>. QED  BY <1>a, <2>3, <2>4, <2>5 DEF Serial
<1>. QED  BY <1>1, <1>2

(* A child's step keeps the whole.                                         *)
LEMMA ChildStepExact ==
  ASSUME Inv, ExactInv, NEW c \in Child, ChildStep(c), UNCHANGED grantingVars
  PROVE  ExactInv'
<1>. USE DEF Inv, TypeOK
<1>1. /\ \A e \in Child \ {c} : child'[e] = child[e]
      /\ UNCHANGED store
  BY ChildStepFrame
<1>2. UNCHANGED <<auth, roles, members, run, leg, overlap>>
  <2>1. UNCHANGED overlap
    BY ChildStepEarly, ReadLinksEffect, PatchLinksEffect
  <2>. QED  BY <1>1, <2>1 DEF store, grantingVars
<1>3. \A e \in Child : Works(e)'
  <2>1. \A e \in Child \ {c} : Works(e)'
    BY <1>1, <1>2, AuthorizationsGrow DEF ExactInv, Works, Accounts
  <2>. QED  BY <2>1, ChildStepWorks DEF ExactInv
<1>4. \A p \in Agent \ overlap : Serial(p)'
  BY ChildStepSerial DEF ExactInv
<1>5. StoredByLegs' /\ Over'
  BY <1>2 DEF ExactInv, StoredByLegs, Over, Share, Group
<1>. QED  BY <1>2, <1>3, <1>4, <1>5 DEF ExactInv

(* The children of a leg start, none of them for an agent that has one at  *)
(* work, unless that is noted.                                             *)
LEMMA FanOutSerial ==
  ASSUME Inv, ExactInv, NEW l \in Leg, FanOut(l)
  PROVE  /\ \A c \in Child : Works(c)'
         /\ \A p \in Agent \ overlap' : Serial(p)'
<1>. DEFINE started(c) == ParentOf(c) = l /\ AgentOf(c) \in AgentsIn(GranteeIn(l))
<1>1. /\ UNCHANGED links
      /\ \A c \in Child : IF started(c) THEN /\ child[c].pc = "idle"
                                             /\ child'[c] = [IdleChild EXCEPT !.pc = "authorizations"]
                          ELSE child'[c] = child[c]
      /\ overlap' = overlap \cup {a \in AgentsIn(GranteeIn(l)) :
                                    \E c \in Child : AgentOf(c) = a /\ Active(c)}
  BY FreshChildren
<1>2. UNCHANGED store
  BY DEF FanOut
<1>3. LET fresh == [IdleChild EXCEPT !.pc = "authorizations"]
      IN fresh.pc = "authorizations" /\ fresh.seen = {} /\ fresh.todo = {} /\ fresh.new = {}
  BY DEF IdleChild
<1>4. \A c \in Child : started(c) => /\ child'[c].pc = "authorizations"
                                     /\ child'[c].seen = {}
                                     /\ child'[c].todo = {}
                                     /\ child'[c].new = {}
  BY <1>1, <1>3
<1>5. \A c \in Child : AuthorizationsFor(AgentOf(c))' = AuthorizationsFor(AgentOf(c))
  BY <1>2 DEF store, AuthorizationsFor, AgentsOf
<1>6. ASSUME NEW c \in Child PROVE Works(c)'
  <2>1. CASE started(c)
    BY <1>4, <2>1 DEF Works, Accounts, OneEach
  <2>2. CASE ~ started(c)
    <3>1. child'[c] = child[c] /\ Works(c)
      BY <1>1, <2>2 DEF ExactInv
    <3>. QED  BY <1>5, <3>1 DEF Works, Accounts
  <2>. QED  BY <2>1, <2>2
<1>7. ASSUME NEW p \in Agent \ overlap' PROVE Serial(p)'
  <2>1. Serial(p)
    BY <1>1 DEF ExactInv
  <2>2. \A c \in Child : child'[c].pc \notin {"idle", "authorizations"} => child'[c] = child[c]
    BY <1>1, <1>4
  <2>3. AtMostOneActive(p)'
    <3>. SUFFICES ASSUME NEW c \in Child, NEW d \in Child, AgentOf(c) = p, AgentOf(d) = p,
                         Active(c)', Active(d)'
                  PROVE  c = d
      BY DEF AtMostOneActive
    <3>1. CASE started(c) /\ started(d)
      BY <3>1, ChildParts
    <3>2. CASE started(c) /\ ~ started(d)
      <4>1. Active(d) /\ p \in AgentsIn(GranteeIn(l))
        BY <1>1, <3>2 DEF Active
      <4>. QED  BY <1>1, <4>1
    <3>3. CASE ~ started(c) /\ started(d)
      <4>1. Active(c) /\ p \in AgentsIn(GranteeIn(l))
        BY <1>1, <3>3 DEF Active
      <4>. QED  BY <1>1, <4>1
    <3>4. CASE ~ started(c) /\ ~ started(d)
      <4>1. Active(c) /\ Active(d)
        BY <1>1, <3>4 DEF Active
      <4>. QED  BY <2>1, <4>1 DEF Serial, AtMostOneActive
    <3>. QED  BY <3>1, <3>2, <3>3, <3>4
  <2>4. SeesMore(p)'
    BY <2>1, <2>2 DEF Serial, SeesMore
  <2>5. Linked(p)' = Linked(p) /\ Replaces(p)'
    BY <1>1, <2>1, <2>2 DEF Serial, Replaces, Linked
  <2>6. AuthorizationsFor(p)' = AuthorizationsFor(p)
    BY <1>2 DEF store, AuthorizationsFor, AgentsOf
  <2>. QED  BY <1>1, <2>1, <2>3, <2>4, <2>5, <2>6 DEF Serial
<1>. QED  BY <1>6, <1>7

(* Steps that move no child and no link, and take no authorization away.   *)
LEMMA NoChildSerial ==
  ASSUME ExactInv, UNCHANGED <<child, links, overlap, roles, members>>, auth \subseteq auth'
  PROVE  /\ \A c \in Child : Works(c)'
         /\ \A p \in Agent \ overlap' : Serial(p)'
<1>1. \A p : AuthorizationsFor(p) \subseteq AuthorizationsFor(p)'
  BY AuthorizationsGrow
<1>2. \A c \in Child : Works(c)'
  BY <1>1 DEF ExactInv, Works, Accounts
<1>3. ASSUME NEW p \in Agent \ overlap PROVE Serial(p)'
  <2>1. Serial(p) /\ Linked(p)' = Linked(p)
    BY DEF ExactInv, Linked
  <2>2. AtMostOneActive(p)' /\ SeesMore(p)' /\ Replaces(p)'
    BY <2>1 DEF Serial, AtMostOneActive, SeesMore, Replaces, Active
  <2>. QED  BY <1>1, <2>1, <2>2 DEF Serial
<1>. QED  BY <1>2, <1>3

(* A leg that is at work belongs to a run that is not over.                *)
LEMMA LegAtWork ==
  ASSUME Inv, Over, NEW l \in Leg, leg[l].pc \notin {"idle", "done"}
  PROVE  run[RunOf(l)].pc # "done"
  BY LegParts DEF Over

(* A step of a leg keeps what has been stored, and no run is over.         *)
LEMMA LegStepStored ==
  ASSUME Inv, ExactInv, NEW l \in Leg, LegStep(l)
  PROVE  StoredByLegs' /\ Over'
<1>. USE DEF Inv, TypeOK
<1>1. /\ leg[l].pc \notin {"idle", "done"}
      /\ leg'[l].pc # "idle"
      /\ \A q \in Leg \ {l} : leg'[q] = leg[q]
      /\ UNCHANGED run
      /\ \A d \in auth' \ auth : d \in leg[l].todo /\ leg[l].pc = "materialize"
  <2>1. ASSUME NEW d \in DA, StoreAuthorization(l, d)
        PROVE  /\ leg[l].pc \notin {"idle", "done"}
               /\ leg'[l].pc # "idle"
               /\ \A q \in Leg \ {l} : leg'[q] = leg[q]
               /\ UNCHANGED run
               /\ \A e \in auth' \ auth : e \in leg[l].todo /\ leg[l].pc = "materialize"
    BY <2>1 DEF StoreAuthorization, LegState
  <2>2. CASE ResolveGrantee(l)
    BY <2>2 DEF ResolveGrantee, LegState
  <2>3. CASE FanOut(l)
    BY <2>3 DEF FanOut, LegState, store
  <2>4. CASE JoinChildren(l)
    BY <2>4 DEF JoinChildren, LegState, regenerationVars
  <2>. QED  BY <2>1, <2>2, <2>3, <2>4 DEF LegStep
<1>2. \A q \in Leg : Share(q)' = Share(q)
  BY <1>1 DEF Share, Group
<1>3. \A q \in Leg : leg[q].pc # "idle" => leg'[q].pc # "idle"
  BY <1>1
<1>4. StoredByLegs'
  <2>1. ASSUME NEW d \in auth' PROVE \E q \in Leg : leg'[q].pc # "idle" /\ d \in Share(q)'
    <3>1. CASE d \in auth
      BY <1>2, <1>3, <3>1 DEF ExactInv, StoredByLegs
    <3>2. CASE d \notin auth
      <4>1. d \in Share(l)
        BY <1>1, <3>2 DEF LegsInv
      <4>. QED  BY <1>1, <1>2, <4>1
    <3>. QED  BY <3>1, <3>2
  <2>. QED  BY <2>1 DEF StoredByLegs
<1>5. Over'
  <2>1. run[RunOf(l)].pc # "done"
    BY <1>1, LegAtWork DEF ExactInv
  <2>. QED  BY <1>1, <2>1 DEF ExactInv, Over
<1>. QED  BY <1>4, <1>5

(* A run starts with legs that have not been used.                         *)
LEMMA StartRunStored ==
  ASSUME Inv, ExactInv, NEW a \in outbox, NEW r \in GrantRun, StartRun(r, a), UNCHANGED auth
  PROVE  StoredByLegs' /\ Over'
<1>. USE DEF Inv, TypeOK
<1>1. \A q \in GrantRun : run'[q] = IF q = r THEN [pc |-> "running", act |-> a] ELSE run[q]
  BY DEF StartRun
<1>2. \A l \in Leg : RunOf(l) = r => leg[l].pc = "idle"
  BY DEF StartRun, LegsInv
<1>3. \A l \in Leg : RunOf(l) # r => leg'[l] = leg[l] /\ Share(l)' = Share(l)
  BY <1>1, LegParts DEF StartRun, Share, Group
<1>4. StoredByLegs'
  BY <1>2, <1>3 DEF ExactInv, StoredByLegs
<1>5. Over'
  BY <1>1, <1>3 DEF ExactInv, Over
<1>. QED  BY <1>4, <1>5

(* A run is over when its legs are.                                        *)
LEMMA MarkDoneStored ==
  ASSUME Inv, ExactInv, NEW r \in GrantRun, MarkDone(r)
  PROVE  StoredByLegs' /\ Over'
<1>. USE DEF Inv, TypeOK
<1>1. /\ \A l \in Leg : RunOf(l) = r => leg[l].pc \in {"idle", "done"}
      /\ UNCHANGED <<auth, leg>>
  BY DEF MarkDone, store
<1>2. /\ \A q \in GrantRun : run'[q].act = run[q].act
      /\ \A q \in GrantRun : run'[q].pc = "done" => q = r \/ run[q].pc = "done"
  BY DEF MarkDone, RunState
<1>3. \A l \in Leg : Share(l)' = Share(l)
  BY <1>2, LegParts DEF Share, Group
<1>. QED  BY <1>1, <1>2, <1>3 DEF ExactInv, StoredByLegs, Over

(* Exactness is inductive beside the invariant.                            *)
LEMMA NextExact == Inv /\ ExactInv /\ [Next]_vars => ExactInv'
<1>. SUFFICES ASSUME Inv, ExactInv, [Next]_vars PROVE ExactInv'
  OBVIOUS
<1>. USE DEF regenerationVars, store
<1>0. ASSUME UNCHANGED <<auth, run, leg>> PROVE StoredByLegs' /\ Over'
  BY <1>0 DEF ExactInv, StoredByLegs, Over, Share, Group
<1>1. ASSUME NEW a \in Activity, RecordAuthorization(a) PROVE ExactInv'
  BY <1>0, <1>1, NoChildSerial DEF RecordAuthorization, ExactInv
<1>2. ASSUME NEW a \in Activity, NEW r \in GrantRun, Deliver(a, r) PROVE ExactInv'
  <2>1. a \in outbox /\ StartRun(r, a) /\ UNCHANGED regenerationVars
    BY <1>2 DEF Deliver, Inv, TypeOK
  <2>2. StoredByLegs' /\ Over'
    BY <2>1, StartRunStored
  <2>. QED  BY <2>1, <2>2, NoChildSerial DEF ExactInv
<1>3. ASSUME NEW l \in Leg, LegStep(l) PROVE ExactInv'
  <2>1. StoredByLegs' /\ Over'
    BY <1>3, LegStepStored
  <2>2. CASE FanOut(l)
    BY <2>1, <2>2, FanOutSerial DEF ExactInv
  <2>3. ASSUME NEW d \in DA, StoreAuthorization(l, d) PROVE ExactInv'
    <3>1. UNCHANGED <<child, links, overlap, roles, members>> /\ auth \subseteq auth'
      BY <2>3 DEF StoreAuthorization
    <3>. QED  BY <2>1, <3>1, NoChildSerial DEF ExactInv
  <2>4. CASE ResolveGrantee(l) \/ JoinChildren(l)
    <3>1. UNCHANGED <<child, links, overlap, roles, members, auth>>
      BY <2>4 DEF ResolveGrantee, JoinChildren
    <3>. QED  BY <2>1, <3>1, NoChildSerial DEF ExactInv
  <2>. QED  BY <1>3, <2>2, <2>3, <2>4 DEF LegStep
<1>4. ASSUME NEW c \in Child, ChildStep(c), UNCHANGED grantingVars PROVE ExactInv'
  BY <1>4, ChildStepExact
<1>5. ASSUME NEW r \in GrantRun, MarkDone(r) PROVE ExactInv'
  <2>1. StoredByLegs' /\ Over'
    BY <1>5, MarkDoneStored
  <2>2. UNCHANGED <<child, links, overlap, roles, members, auth>>
    BY <1>5 DEF MarkDone
  <2>. QED  BY <2>1, <2>2, NoChildSerial DEF ExactInv
<1>6. ASSUME NEW r \in GrantRun, SweepNext(r) PROVE ExactInv'
  <2>1. PICK a \in sweep.todo : StartRun(r, a)
    BY <1>6 DEF SweepNext
  <2>2. a \in outbox /\ UNCHANGED regenerationVars
    BY <1>6 DEF SweepNext, Inv, RunsInv
  <2>3. StoredByLegs' /\ Over'
    BY <2>1, <2>2, StartRunStored
  <2>. QED  BY <2>2, <2>3, NoChildSerial DEF ExactInv
<1>7. CASE StartSweep \/ SweepMarkDone
  <2>1. UNCHANGED <<regenerationVars, run, leg>>
    BY <1>7 DEF StartSweep, SweepMarkDone
  <2>. QED  BY <1>0, <2>1, NoChildSerial DEF ExactInv
<1>8. CASE UNCHANGED vars
  BY <1>0, <1>8, NoChildSerial DEF ExactInv, vars, grantingVars
<1>. QED  BY <1>1, <1>2, <1>3, <1>4, <1>5, <1>6, <1>7, <1>8 DEF Next

(* It holds before anything has happened.                                  *)
LEMMA InitExact == Init => ExactInv
<1>. SUFFICES ASSUME Init PROVE ExactInv
  OBVIOUS
<1>1. /\ \A c \in Child : /\ child[c].pc = "idle" /\ child[c].seen = {}
                          /\ child[c].todo = {} /\ child[c].new = {}
      /\ \A p \in Agent : links[p] = {}
      /\ auth = {}
      /\ \A r \in GrantRun : run[r].pc = "idle"
  BY DEF Init, RegenerationInit, IdleChild
<1>2. \A c \in Child : Works(c)
  BY <1>1 DEF Works, Accounts, OneEach
<1>3. \A p \in Agent : Serial(p)
  <2>. SUFFICES ASSUME NEW p \in Agent PROVE Serial(p)
    OBVIOUS
  <2>1. AtMostOneActive(p) /\ SeesMore(p) /\ Replaces(p)
    BY <1>1 DEF AtMostOneActive, SeesMore, Replaces, Active
  <2>2. OneEach(links[p]) /\ Linked(p) = {}
    BY <1>1 DEF OneEach, Linked
  <2>. QED  BY <2>1, <2>2 DEF Serial
<1>4. StoredByLegs /\ Over
  BY <1>1 DEF StoredByLegs, Over
<1>. QED  BY <1>2, <1>3, <1>4 DEF ExactInv

(* When no run is at work, every authorization has been seen by a child    *)
(* that is done, and what such a child has seen is linked.                 *)
LEMMA QuietExact == Inv /\ ExactInv => SerialRegenerationExact
<1>. SUFFICES ASSUME Inv, ExactInv, Quiet, NEW p \in Agent \ overlap
              PROVE  /\ Linked(p) \subseteq AuthorizationsFor(p)
                     /\ \A d \in AuthorizationsFor(p) : \E g \in links[p] :
                          g.da = d /\ \A h \in links[p] : h.da = d => h = g
  BY DEF SerialRegenerationExact, Linked
<1>1. Serial(p)
  BY DEF ExactInv
<1>2. ASSUME NEW d \in AuthorizationsFor(p) PROVE d \in Linked(p)
  <2>1. d \in auth /\ p \in AgentsOf(d) /\ d \in DA
    BY DEF AuthorizationsFor, Inv, TypeOK, RegenerationTypeOK
  <2>2. PICK l \in Leg : leg[l].pc # "idle" /\ d \in Share(l)
    BY <2>1 DEF ExactInv, StoredByLegs
  <2>3. run[RunOf(l)].pc \notin {"idle", "running"}
    BY <2>2, LegParts DEF Quiet, Inv, LegsInv
  <2>4. run[RunOf(l)] \in RunState
    BY LegParts DEF Inv, TypeOK
  <2>5. leg[l].pc = "done"
    BY <2>2, <2>3, <2>4, LegParts DEF RunState, ExactInv, Over
  <2>6. GranteeIn(l) = GranteeOf[d]
    BY <2>2 DEF Share, Group
  <2>7. p \in leg[l].to
    BY <2>1, <2>5, <2>6, AgentsOfShare DEF Inv, LegsInv, RunsInv, TypeOK
  <2>8. <<l, p>> \in Child /\ ParentOf(<<l, p>>) = l /\ AgentOf(<<l, p>>) = p
        /\ child[<<l, p>>].pc = "done"
    BY <2>5, <2>7, LegParts DEF Inv, LegsInv
  <2>9. d \in child[<<l, p>>].seen
    BY <2>2, <2>8 DEF Inv, ChildrenInv
  <2>. QED  BY <1>1, <2>8, <2>9 DEF Serial, Replaces
<1>3. ASSUME NEW d \in AuthorizationsFor(p)
      PROVE  \E g \in links[p] : g.da = d /\ \A h \in links[p] : h.da = d => h = g
  <2>1. PICK g \in links[p] : g.da = d
    BY <1>2 DEF Linked
  <2>2. \A h \in links[p] : h.da = d => h = g
    BY <1>1, <2>1 DEF Serial, OneEach
  <2>. QED  BY <2>1, <2>2
<1>. QED  BY <1>1, <1>3 DEF Serial

(* Once every run is over, the registration of an agent that was never     *)
(* regenerated twice at the same time shows one grant for each             *)
(* authorization that reaches the agent and nothing else, whatever results *)
(* were lost on the way.                                                   *)
THEOREM SerialRegenerationAlwaysExact == Spec => []SerialRegenerationExact
  BY InitExact, NextExact, QuietExact, InvAlways, PTL DEF Spec
=============================================================================
