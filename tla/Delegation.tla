---------------------------- MODULE Delegation ----------------------------
(***************************************************************************)
(* The delegation endpoint of a data owner: others ask it to issue grants  *)
(* they delegate, and to revoke them again; the owner revokes any.         *)
(*                                                                         *)
(* A request is validated grant by grant against what is stored, then a    *)
(* workflow stores its grants one by one, each with its access control.  A *)
(* revocation works out which stored grants inherit from the listed ones   *)
(* and a workflow deletes them all.  Requests and revocations run beside   *)
(* each other, nothing locks the registry.                                 *)
(*                                                                         *)
(* All grants are over one data registration of the owner and the one that *)
(* inherits from it; modes and instances are left out.                     *)
(***************************************************************************)
EXTENDS Naturals, FiniteSets

CONSTANTS Owner,       \* the data owner
          Agent,       \* the owner and the others
          Source,      \* grants the owner has issued itself
          SourceGrant, \* source -> what it grants
          Issue,       \* issuance requests
          Message,     \* what they may ask for
          Revocation,  \* revocation requests
          None,        \* no grant
          MaxListed,   \* bound: grants one revocation lists
          MaxBegun,    \* bound: requests and revocations in one behaviour
          MaxLost      \* bound: results lost in one behaviour

(* A grant is known by the request that brought it and its place in it.    *)
Part == {"top", "child"}
Id == Source \cup (Issue \X Part)
Grant == [grantee : Agent, grantedBy : Agent, inheritsFrom : Id \cup {None}]

ASSUME OwnerAssumption == Owner \in Agent
ASSUME SourceAssumption ==
  /\ Source \cap (Issue \X Part) = {}
  /\ None \notin Id
  /\ SourceGrant \in [Source -> [grantee : Agent, grantedBy : {Owner},
                                 inheritsFrom : Source \cup {None}]]
ASSUME MessageAssumption ==
  Message \subseteq [requester : Agent \ {Owner}, grantee : Agent,
                     topBy : Agent, childBy : Agent \cup {None}]
ASSUME NoneAssumption == None \notin Agent \cup Message
ASSUME BoundAssumption == MaxListed \in Nat /\ MaxBegun \in Nat /\ MaxLost \in Nat

VARIABLES grants,      \* ids in the GrantRegistry
          acrs,        \* those with an access control resource
          issue,       \* request -> its progress
          revoke,      \* revocation -> its progress
          links,       \* agent -> hasDataGrant of its registration at the owner
          lost,        \* results lost so far (bounded by MaxLost)
          ever,        \* history: grants that have been stored
          torn         \* history: requests a revocation caught half stored

vars == <<grants, acrs, issue, revoke, links, lost, ever, torn>>

IssueState ==
  [pc  : {"idle", "top", "child", "store", "acr", "answered", "rejected"},
   msg : Message \cup {None},
   cur : Part]

RevokeState ==
  [pc     : {"idle", "load", "close", "delete", "clear", "answered", "rejected", "abandoned"},
   by     : Agent \cup {None},
   listed : SUBSET Id,
   found  : SUBSET Id,       \* the closure
   todo   : SUBSET Id]       \* grants still to delete, or links still to clear

(* Every variable has its type, and a deletion has something to delete      *)
(* (revokeGrants returns early when nothing is loaded).                     *)
TypeOK ==
  /\ grants \subseteq Id
  /\ acrs \subseteq Id
  /\ issue \in [Issue -> IssueState]
  /\ revoke \in [Revocation -> RevokeState]
  /\ links \in [Agent -> SUBSET Id]
  /\ lost \in 0 .. MaxLost
  /\ ever \subseteq Id
  /\ torn \subseteq Issue
  /\ \A v \in Revocation : revoke[v].pc \in {"delete", "clear"} => revoke[v].todo # {}

Msg(i) == issue[i].msg
Parts(i) == IF Msg(i).childBy = None THEN {"top"} ELSE Part
By(i, part) == IF part = "top" THEN Msg(i).topBy ELSE Msg(i).childBy

(* What a grant says, once its request is known.                           *)
Says(g) ==
  IF g \in Source THEN SourceGrant[g]
  ELSE [grantee |-> Msg(g[1]).grantee, grantedBy |-> By(g[1], g[2]),
        inheritsFrom |-> IF g[2] = "top" THEN None ELSE <<g[1], "top">>]

(* getGrantsAuthority, findInheritingChildren and findDelegableGrant look  *)
(* at what is stored: a grantor must hold a grant of the same kind.        *)
ChildrenOf(found) == {g \in grants : Says(g).inheritsFrom \in found}
Holds(q, part) == \E g \in grants : /\ Says(g).grantee = q
                                    /\ (Says(g).inheritsFrom = None) = (part = "top")
Delegable(i, part) == By(i, part) = Msg(i).requester /\ Holds(Msg(i).requester, part)

Storing(i) == issue[i].pc \in {"store", "acr"}
MayBegin == Cardinality({i \in Issue : issue[i].pc # "idle"})
            + Cardinality({v \in Revocation : revoke[v].pc # "idle"}) < MaxBegun
LoseResult == lost < MaxLost /\ lost' = lost + 1

issuing == <<grants, acrs, issue, ever>>
revoking == <<revoke, links, torn>>

-----------------------------------------------------------------------------
(* A peer's service posts an AccessRequest.                                *)
Post(i, m) ==
  /\ issue[i].pc = "idle" /\ MayBegin
  /\ issue' = [issue EXCEPT ![i].pc = "top", ![i].msg = m]
  /\ UNCHANGED <<grants, acrs, ever, revoking, lost>>

(* Mutated: that the requester is the grantor is all that is looked at.    *)
ValidateGrantor(i) ==
  /\ issue[i].pc = "top"
  /\ issue' = [issue EXCEPT ![i].pc = IF By(i, "top") # Msg(i).requester THEN "rejected"
                                      ELSE IF Parts(i) = Part THEN "child" ELSE "store"]
  /\ UNCHANGED <<grants, acrs, ever, revoking, lost>>

(* issue validates each grant in turn, with a query for each ...           *)
ValidateTop(i) ==
  /\ issue[i].pc = "top"
  /\ issue' = [issue EXCEPT ![i].pc = IF ~ Delegable(i, "top") THEN "rejected"
                                      ELSE IF Parts(i) = Part THEN "child" ELSE "store"]
  /\ UNCHANGED <<grants, acrs, ever, revoking, lost>>

(* Mutated: for the inheriting grant, who grants it is not looked at.      *)
ValidateHolder(i) ==
  /\ issue[i].pc = "child"
  /\ issue' = [issue EXCEPT ![i].pc = IF Holds(Msg(i).requester, "child") THEN "store"
                                      ELSE "rejected"]
  /\ UNCHANGED <<grants, acrs, ever, revoking, lost>>

(* ... and before it stores any of them.                                   *)
ValidateChild(i) ==
  /\ issue[i].pc = "child"
  /\ issue' = [issue EXCEPT ![i].pc = IF Delegable(i, "child") THEN "store" ELSE "rejected"]
  /\ UNCHANGED <<grants, acrs, ever, revoking, lost>>

(* storeGrant, the workflow: PUT with If-None-Match, refused if the grant  *)
(* is there ...                                                            *)
StoreDataGrant(i) ==
  LET g == <<i, issue[i].cur>>
  IN /\ issue[i].pc = "store"
     /\ g \notin grants
     /\ grants' = grants \cup {g}
     /\ ever' = ever \cup {g}
     /\ \/ issue' = [issue EXCEPT ![i].pc = "acr"] /\ UNCHANGED lost
        \/ LoseResult /\ UNCHANGED issue
     /\ UNCHANGED <<acrs, revoking>>

(* ... and its access control, whatever has become of the grant; the       *)
(* answer is sent when the last one is written.                            *)
CreateAcr(i) ==
  LET next == IF issue[i].cur = "top" /\ Parts(i) = Part
              THEN [issue[i] EXCEPT !.pc = "store", !.cur = "child"]
              ELSE [issue[i] EXCEPT !.pc = "answered"]
  IN /\ issue[i].pc = "acr"
     /\ acrs' = acrs \cup {<<i, issue[i].cur>>}
     /\ \/ issue' = [issue EXCEPT ![i] = next] /\ UNCHANGED lost
        \/ LoseResult /\ UNCHANGED issue
     /\ UNCHANGED <<grants, ever, revoking>>

-----------------------------------------------------------------------------
(* A peer posts an AccessRevocation, or the owner's user interface revokes, *)
(* listing grants it has seen.                                             *)
Revoke(v, q, listed) ==
  /\ revoke[v].pc = "idle" /\ MayBegin
  /\ listed \subseteq ever
  /\ Cardinality(listed) \in 1 .. MaxListed
  /\ revoke' = [revoke EXCEPT ![v].pc = "load", ![v].by = q, ![v].listed = listed]
  /\ UNCHANGED <<issuing, links, torn, lost>>

(* A revocation that is not being handled has no state but its outcome.    *)
Blank(pc) == [pc |-> pc, by |-> None, listed |-> {}, found |-> {}, todo |-> {}]

Rightful(q, g) == q = Owner \/ q = Says(g).grantedBy

(* Mutated: nothing left to revoke is no reason to stop.                    *)
LoadAll(v) ==
  LET loaded == revoke[v].listed \cap grants
      next == IF \A g \in loaded : Rightful(revoke[v].by, g)
              THEN [revoke[v] EXCEPT !.pc = "close", !.found = loaded]
              ELSE Blank("rejected")
  IN /\ revoke[v].pc = "load"
     /\ revoke' = [revoke EXCEPT ![v] = next]
     /\ UNCHANGED <<issuing, links, torn, lost>>

(* Those of the listed grants that are stored must be the requester's own. *)
LoadAuthority(v) ==
  LET loaded == revoke[v].listed \cap grants
      next == IF loaded = {} THEN Blank("answered")
              ELSE IF \A g \in loaded : Rightful(revoke[v].by, g)
                   THEN [revoke[v] EXCEPT !.pc = "close", !.found = loaded]
              ELSE Blank("rejected")
  IN /\ revoke[v].pc = "load"
     /\ revoke' = [revoke EXCEPT ![v] = next]
     /\ UNCHANGED <<issuing, links, torn, lost>>

(* Mutated: the grants listed and no others.                               *)
CloseListed(v) ==
  /\ revoke[v].pc = "close"
  /\ revoke' = [revoke EXCEPT ![v].pc = "delete", ![v].todo = revoke[v].found]
  /\ torn' = torn \cup {i \in Issue : Storing(i) /\ <<i, "top">> \in revoke[v].found}
  /\ UNCHANGED <<issuing, links, lost>>

(* The closure grows until no stored grant inherits from it.               *)
CloseOverChildren(v) ==
  LET fresh == ChildrenOf(revoke[v].found) \ revoke[v].found
  IN /\ revoke[v].pc = "close"
     /\ \/ /\ fresh # {}
           /\ revoke' = [revoke EXCEPT ![v].found = @ \cup fresh]
           /\ UNCHANGED torn
        \/ /\ fresh = {}
           /\ revoke' = [revoke EXCEPT ![v].pc = "delete", ![v].todo = revoke[v].found]
           /\ torn' = torn \cup {i \in Issue : Storing(i) /\ <<i, "top">> \in revoke[v].found}
     /\ UNCHANGED <<issuing, links, lost>>

(* One grant less.  After the last one a peer is answered, and so is the    *)
(* owner if it has issued none of them.                                     *)
Deleted(v, g) ==
  LET own == {h \in revoke[v].found : revoke[v].by = Owner /\ Says(h).grantedBy = Owner}
  IN IF revoke[v].todo # {g} THEN [revoke[v] EXCEPT !.todo = @ \ {g}]
     ELSE IF own # {} THEN [revoke[v] EXCEPT !.pc = "clear", !.todo = own]
     ELSE Blank("answered")

(* Mutated: a grant that is gone already is an error.                      *)
DeleteStored(v) ==
  /\ revoke[v].pc = "delete"
  /\ \E g \in revoke[v].todo \cap grants :
       /\ grants' = grants \ {g}
       /\ acrs' = acrs \ {g}
       /\ revoke' = [revoke EXCEPT ![v] = Deleted(v, g)]
  /\ UNCHANGED <<issue, ever, links, torn, lost>>

(* deleteDataGrants: one DELETE after the other, the listed ones first, 404 *)
(* tolerated; the access control goes with its resource.                    *)
DeleteDataGrant(v) ==
  LET listed == revoke[v].todo \cap revoke[v].listed
  IN /\ revoke[v].pc = "delete"
     /\ \E g \in IF listed = {} THEN revoke[v].todo ELSE listed :
          /\ grants' = grants \ {g}
          /\ acrs' = acrs \ {g}
          /\ \/ revoke' = [revoke EXCEPT ![v] = Deleted(v, g)] /\ UNCHANGED lost
             \/ LoseResult /\ revoke' = [revoke EXCEPT ![v].todo = revoke[v].found]
     /\ UNCHANGED <<issue, ever, links, torn>>

To(gs, a) == {g \in gs : Says(g).grantee = a}

Cleared(v, a) ==
  LET left == revoke[v].todo \ To(revoke[v].todo, a)
  IN IF left = {} THEN Blank("answered") ELSE [revoke[v] EXCEPT !.todo = left]

(* Mutated: the links of the grants listed and no others.                  *)
ClearListed(v) ==
  /\ revoke[v].pc = "clear"
  /\ \E a \in Agent :
       /\ To(revoke[v].todo, a) # {}
       /\ links' = [links EXCEPT ![a] = @ \ (To(revoke[v].todo, a) \cap revoke[v].listed)]
       /\ revoke' = [revoke EXCEPT ![v] = Cleared(v, a)]
  /\ UNCHANGED <<issuing, torn, lost>>

(* After the owner's own revocation the registrations of the grantees are   *)
(* cleared, one by one, of the source grants among those deleted.           *)
ClearLinks(v) ==
  /\ revoke[v].pc = "clear"
  /\ \E a \in Agent :
       /\ To(revoke[v].todo, a) # {}
       /\ links' = [links EXCEPT ![a] = @ \ To(revoke[v].todo, a)]
       /\ revoke' = [revoke EXCEPT ![v] = Cleared(v, a)]
  /\ UNCHANGED <<issuing, torn, lost>>

(* The process that handles a revocation ends; nobody takes over.           *)
HandlerDies(v) ==
  /\ revoke[v].pc \in {"load", "close", "clear"}
  /\ revoke' = [revoke EXCEPT ![v] = Blank("abandoned")]
  /\ UNCHANGED <<issuing, links, torn, lost>>

-----------------------------------------------------------------------------
Init ==
  /\ grants = Source
  /\ acrs = Source
  /\ issue = [i \in Issue |-> [pc |-> "idle", msg |-> None, cur |-> "top"]]
  /\ revoke = [v \in Revocation |-> Blank("idle")]
  /\ links = [a \in Agent |-> {g \in Source : SourceGrant[g].grantee = a}]
  /\ lost = 0
  /\ ever = Source
  /\ torn = {}

IssueStep(i) == \/ ValidateTop(i)
                \/ ValidateChild(i)
                \/ StoreDataGrant(i)
                \/ CreateAcr(i)

RevokeStep(v) == \/ LoadAuthority(v)
                 \/ CloseOverChildren(v)
                 \/ DeleteDataGrant(v)
                 \/ ClearLinks(v)

Next ==
  \/ \E i \in Issue, m \in Message : Post(i, m)
  \/ \E i \in Issue : IssueStep(i)
  \/ \E v \in Revocation, q \in Agent, listed \in SUBSET Id : Revoke(v, q, listed)
  \/ \E v \in Revocation : RevokeStep(v) \/ HandlerDies(v)

Spec == Init /\ [][Next]_vars

(* A started handler or workflow goes on, unless its process ends.          *)
FairSpec == Spec /\ \A v \in Revocation : WF_vars(RevokeStep(v))

-----------------------------------------------------------------------------
(* Nobody's revocation takes away what somebody else has granted, except    *)
(* the owner's: inheriting grants are looked up without asking whose they   *)
(* are, so this rests on what issuance has let in (validateDelegable for    *)
(* every grant of a request, in GrantIssuanceHandler.issue).                *)
RevokedByRightful ==
  \A v \in Revocation : \A g \in revoke[v].found : Rightful(revoke[v].by, g)

(* Rights come from the owner: whoever holds, or has held, a delegated grant *)
(* is at the end of a chain of grants that starts at a source grant. Those   *)
(* who delegate to each other cannot get anything started (the direct        *)
(* upstream grant that issuance asks for).                                   *)
Rooted ==
  \A S \in SUBSET Agent :
    /\ \A g \in Source : SourceGrant[g].grantee \in S
    /\ \A g \in ever : Says(g).grantedBy \in S => Says(g).grantee \in S
    => \A g \in ever : Says(g).grantee \in S

Quiet == /\ \A i \in Issue : ~ Storing(i)
         /\ \A v \in Revocation : revoke[v].pc \in {"idle", "answered", "rejected", "abandoned"}

(* No grant is left behind that inherits from one that is gone: both are     *)
(* revoked together, whoever revokes what at the same time and whatever      *)
(* result is lost, unless the request was caught while it was being stored.  *)
InheritingRevoked ==
  Quiet => \A g \in grants \ (torn \X {"child"}) :
             Says(g).inheritsFrom \in grants \cup {None}

(* The registrations at the owner link no grant that has been revoked,       *)
(* unless the process died before it could clear them (nobody but the owner  *)
(* can revoke a source grant).                                               *)
RevokedUnlinked ==
  Quiet /\ (\A v \in Revocation : revoke[v].pc # "abandoned")
    => \A a \in Agent : links[a] \subseteq grants

(* Every revocation is answered, rejected or abandoned; two that meet at one *)
(* grant do not stop each other.                                             *)
RevocationsEnd ==
  \A v \in Revocation :
    revoke[v].pc = "load" ~> revoke[v].pc \in {"answered", "rejected", "abandoned"}
=============================================================================
