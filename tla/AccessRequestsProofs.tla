------------------------ MODULE AccessRequestsProofs ------------------------
(***************************************************************************)
(* What becomes of access requests, for any requests, shape trees, numbers *)
(* of copies, screens and approvals, and any bounds on attempts and        *)
(* trouble: the four invariants of AccessRequests.                         *)
(*                                                                         *)
(* The invariant has a part per side and question, each kept by the few    *)
(* actions that touch what it is about.                                    *)
(***************************************************************************)
EXTENDS AccessRequests, TLAPS, FiniteSetTheorems

(* Ids are taken in order, so none is taken twice.                          *)
Taken == {n \in Copy : copy[n] # Nobody}
InOrder == \E m \in 0 .. MaxCopies : Taken = 1 .. m

Arrived(r) == \E n \in Copy : copy[n] = r

(* A request that arrives has been sent; one that is done has arrived; and  *)
(* one that was not sent again is posted by one run, to arrive once.       *)
Arrivals ==
  \A r \in Request :
    /\ Arrived(r) => sent[r] # "none"
    /\ \A w \in Runner : forward[<<r, w>>] = "post" => sent[r] # "none"
    /\ sent[r] = "done" => Arrived(r)
    /\ r \notin resent =>
         /\ \A n, m \in Copy : copy[n] = r /\ copy[m] = r => n = m
         /\ \A v, w \in Runner : forward[<<r, v>>] = "post" /\ forward[<<r, w>>] = "post" => v = w
         /\ Arrived(r) => sent[r] = "done" /\ \A w \in Runner : forward[<<r, w>>] # "post"

(* A copy nobody else looks at is decided, or on one screen, or neither.    *)
Decisions ==
  \A n \in Copy :
    /\ n \in materialized => copy[n] # Nobody
    /\ n \notin crossed => decided[n].grant + decided[n].deny + screens[n] <= 1

(* What is found open has been sent; and unless two found it, it is found   *)
(* by one and not resolved yet.                                            *)
Claims ==
  \A r \in Request :
    /\ r \in Claimed => sent[r] # "none"
    /\ r \notin raced =>
         /\ granted[r] + archived[r] <= 1
         /\ r \in Claimed => granted[r] + archived[r] = 0
         /\ r \in archiving => \A k \in Approval : r \notin approval[k].found
         /\ \A j, k \in Approval : r \in approval[j].found /\ r \in approval[k].found => j = k

Resolved(r) == granted[r] + archived[r] > 0

(* What is known at each step of the way of a grant.                        *)
Way(k) ==
  LET r == approval[k].request
  IN r # Nobody /\ approval[k].trees # {} =>
       /\ approval[k].trees \subseteq Needs(r)
       /\ sent[r] # "none"
       /\ approval[k].pc \notin {"none", "recorded"} => approval[k].trees \subseteq stored
       /\ approval[k].pc \in {"grants", "write"} => r \in approval[k].found \/ Resolved(r)
       /\ approval[k].pc = "over" => Resolved(r)

Ways == \A k \in Approval : Way(k)

GrantedSome(r) ==
  \E k \in Approval : approval[k].pc # "none" /\ approval[k].trees \cap Needs(r) # {}

(* Grants are what was approved, and what is shown as granted matches one.  *)
Grounds ==
  /\ \A t \in stored : \E k \in Approval : approval[k].pc # "none" /\ t \in approval[k].trees
  /\ \A k \in Approval : approval[k].pc = "write" =>
       \A r \in approval[k].found : GrantedSome(r)
  /\ \A r \in Request : granted[r] > 0 => GrantedSome(r)

IInv == TypeOK /\ InOrder /\ Arrivals /\ Decisions /\ Claims /\ Ways /\ Grounds

-----------------------------------------------------------------------------
LEMMA InitIInv == Init => IInv
<1> SUFFICES ASSUME Init PROVE IInv
  OBVIOUS
<1> USE DEF Init
<1>1. TypeOK
  <2>1. 0 \in 0 .. MaxScreens /\ 0 \in 0 .. MaxTrouble
    BY BoundAssumption
  <2>2. \A k \in Approval : approval[k] \in ApprovalState
    BY <2>1 DEF ApprovalState
  <2>3. approval \in [Approval -> ApprovalState]
    BY <2>2
  <2>4. \A n \in Copy : decided[n] \in [grant : Nat, deny : Nat]
    OBVIOUS
  <2>5. decided \in [Copy -> [grant : Nat, deny : Nat]]
    BY <2>4
  <2>6. /\ copy \in [Copy -> Request \cup {Nobody}]
        /\ screens \in [Copy -> 0 .. MaxScreens]
        /\ forward \in [Request \X Runner -> {"idle", "post", "over"}]
    BY <2>1
  <2>7. /\ \A n \in Copy : ~ (decided[n].grant + decided[n].deny + screens[n] > 0)
        /\ \A r \in Request : ~ (granted[r] + archived[r] > 0)
    OBVIOUS
  <2>8. /\ registered \in BOOLEAN
        /\ sent \in [Request -> {"none", "pending", "done"}]
        /\ granted \in [Request -> Nat] /\ archived \in [Request -> Nat]
        /\ materialized = {} /\ stored = {} /\ archiving = {}
        /\ resent = {} /\ raced = {} /\ crossed = {}
        /\ trouble \in 0 .. MaxTrouble
    BY <2>1
  <2> HIDE DEF Init
  <2> QED BY <2>3, <2>5, <2>6, <2>7, <2>8 DEF TypeOK
<1>2. InOrder
  <2>1. Taken = 1 .. 0 /\ 0 \in 0 .. MaxCopies
    BY BoundAssumption DEF Taken
  <2> QED BY <2>1 DEF InOrder
<1>3. Arrivals
  BY NobodyAssumption DEF Arrivals, Arrived, Nobody
<1>4. Decisions /\ Claims /\ Ways /\ Grounds
  BY NobodyAssumption DEF Decisions, Claims, Claimed, Ways, Way, Grounds, Nobody
<1> QED BY <1>1, <1>2, <1>3, <1>4 DEF IInv

(* The next copy has the first free id.                                     *)
LEMMA NextCopyFree ==
  ASSUME TypeOK, InOrder
  PROVE  /\ NextCopy \in Nat
         /\ Taken = 1 .. (NextCopy - 1)
         /\ NextCopy \in Copy => copy[NextCopy] = Nobody
<1>1. PICK m \in 0 .. MaxCopies : Taken = 1 .. m
  BY DEF InOrder
<1>2. m \in Nat /\ MaxCopies \in Nat
  BY <1>1, BoundAssumption
<1>3. Cardinality(1 .. m) = m
  BY <1>2, FS_Interval
<1>4. NextCopy = m + 1
  BY <1>1, <1>3 DEF NextCopy, Taken
<1>5. NextCopy \in Copy => copy[NextCopy] = Nobody
  BY <1>1, <1>2, <1>4 DEF Taken, Copy
<1> QED BY <1>1, <1>2, <1>4, <1>5

(* An approval whose record changes as allowed is an approval.              *)
LEMMA ApprovalUpdate ==
  ASSUME TypeOK, NEW k \in Approval, NEW new \in ApprovalState,
         approval' = [approval EXCEPT ![k] = new]
  PROVE  /\ approval' \in [Approval -> ApprovalState]
         /\ approval'[k] = new
         /\ \A j \in Approval : j # k => approval'[j] = approval[j]
BY DEF TypeOK

(* ... as all actions change it that do.                                    *)
LEMMA PassApproval ==
  ASSUME TypeOK, NEW k \in Approval, NEW from, NEW to \in {"update", "notified", "open", "over"},
         Pass(k, from, to)
  PROVE  LET new == [approval[k] EXCEPT !.pc = to]
         IN new \in ApprovalState /\ approval' = [approval EXCEPT ![k] = new]
BY DEF TypeOK, ApprovalState, Pass

LEMMA OtherApproval ==
  ASSUME TypeOK, NEW k \in Approval, NEW pc \in {"open", "grants", "write", "over"},
         NEW found \in SUBSET Request
  PROVE  [approval[k] EXCEPT !.pc = pc, !.found = found] \in ApprovalState
<1>1. approval[k] \in ApprovalState
  BY DEF TypeOK
<1> QED BY <1>1 DEF ApprovalState

LEMMA GrantedApproval ==
  ASSUME TypeOK, NEW k \in Approval, NEW r \in Request \cup {Nobody}, NEW T \in SUBSET Tree
  PROVE  [approval[k] EXCEPT !.pc = "recorded", !.request = r, !.trees = T] \in ApprovalState
<1>1. approval[k] \in ApprovalState
  BY DEF TypeOK
<1> QED BY <1>1 DEF ApprovalState

LEMMA TypeStep == IInv /\ [Next]_vars => TypeOK'
<1> SUFFICES ASSUME IInv, [Next]_vars PROVE TypeOK'
  OBVIOUS
<1>t. TypeOK
  BY DEF IInv
<1> USE DEF TypeOK
<1>1. CASE Register
  BY <1>1, <1>t DEF Register, owner, requester
<1>2. ASSUME NEW r \in Request, NEW w \in Runner, Forward(r, w) PROVE TypeOK'
  <2>1. copy' \in [Copy -> Request \cup {Nobody}]
    BY <1>2, <1>t DEF Forward
  <2>2. sent' \in [Request -> {"none", "pending", "done"}]
    BY <1>2, <1>t DEF Forward, Answer
  <2>3. \A q \in Request : sent'[q] = "none" => sent[q] = "none"
    BY <1>2, <1>t DEF Forward, Answer
  <2>4. forward' \in [Request \X Runner -> {"idle", "post", "over"}]
    BY <1>2, <1>t DEF Forward, Answer
  <2>5. resent' \subseteq Request /\ trouble' \in 0 .. MaxTrouble
    BY <1>2, <1>t, BoundAssumption DEF Forward, Answer, Trouble
  <2> QED BY <2>1, <2>2, <2>3, <2>4, <2>5, <1>2, <1>t DEF Forward
<1>3. ASSUME NEW k \in Approval, UpdateRegistration(k) PROVE TypeOK'
  BY <1>3, <1>t, PassApproval, ApprovalUpdate DEF UpdateRegistration, owner, requester
<1>4. ASSUME NEW k \in Approval, ReadOpen(k) PROVE TypeOK'
  <2> DEFINE new == [approval[k] EXCEPT !.pc = IF Open = {} THEN "over" ELSE "grants",
                                        !.found = Open]
  <2>1. new \in ApprovalState
    <3>1. /\ Open \in SUBSET Request
          /\ (IF Open = {} THEN "over" ELSE "grants") \in {"open", "grants", "write", "over"}
      BY DEF Open
    <3> HIDE DEF TypeOK
    <3> QED BY <1>t, <3>1, OtherApproval
  <2>2. approval' = [approval EXCEPT ![k] = new]
    BY <1>4 DEF ReadOpen
  <2> QED BY <2>1, <2>2, <1>4, <1>t, ApprovalUpdate DEF ReadOpen, Open, owner
<1>5. ASSUME NEW k \in Approval, ReadGrants(k) PROVE TypeOK'
  <2> DEFINE todo == {r \in approval[k].found : Needs(r) \cap stored # {}}
  <2> DEFINE new == [approval[k] EXCEPT !.pc = "write", !.found = todo]
  <2>1. new \in ApprovalState
    BY <1>t DEF ApprovalState
  <2>2. approval' = [approval EXCEPT ![k] = new]
    BY <1>5 DEF ReadGrants, Match
  <2> QED BY <2>1, <2>2, <1>5, <1>t, ApprovalUpdate DEF ReadGrants, Match, owner, requester
<1>6. ASSUME NEW k \in Approval, EndDetector(k) PROVE TypeOK'
  BY <1>6, <1>t, PassApproval, ApprovalUpdate DEF EndDetector, owner, requester
<1>7. ASSUME NEW k \in Approval, NEW r \in Request, RecordGranted(k, r) PROVE TypeOK'
  <2> DEFINE new == [approval[k] EXCEPT !.found = @ \ {r}]
  <2>1. new \in ApprovalState
    BY <1>t DEF ApprovalState
  <2>2. approval' = [approval EXCEPT ![k] = new]
    BY <1>7 DEF RecordGranted
  <2>3. sent[r] # "none"
    BY <1>7 DEF RecordGranted, IInv, Claims, Claimed
  <2>4. granted' \in [Request -> Nat]
    BY <1>7, <1>t DEF RecordGranted
  <2>5. \A q \in Request : granted'[q] + archived[q] > 0 => sent[q] # "none"
    BY <1>7, <1>t, <2>3 DEF RecordGranted
  <2> QED BY <2>1, <2>2, <2>4, <2>5, <1>7, <1>t, ApprovalUpdate DEF RecordGranted, owner
<1>8. ASSUME NEW r \in Request, Send(r) PROVE TypeOK'
  BY <1>8, <1>t DEF Send, owner
<1>9. ASSUME NEW r \in Request, FindOpen(r) PROVE TypeOK'
  BY <1>9, <1>t DEF FindOpen, owner
<1>10. ASSUME NEW r \in Request, Archive(r) PROVE TypeOK'
  <2>1. sent[r] # "none"
    BY <1>10 DEF Archive, IInv, Claims, Claimed
  <2> QED BY <2>1, <1>10, <1>t DEF Archive, owner
<1>11. ASSUME NEW r \in Request, NEW w \in Runner, StartForward(r, w) PROVE TypeOK'
  <2>1. /\ forward' \in [Request \X Runner -> {"idle", "post", "over"}]
        /\ resent' \subseteq Request
        /\ trouble' \in 0 .. MaxTrouble
    BY <1>11, <1>t, BoundAssumption DEF StartForward, Start, Trouble
  <2> QED BY <2>1, <1>11, <1>t DEF StartForward, Start, owner, requester
<1>12. ASSUME NEW n \in Copy, Materialize(n) PROVE TypeOK'
  BY <1>12, <1>t DEF Materialize, requester
<1>13. ASSUME NEW n \in Copy, ListOpen(n) PROVE TypeOK'
  <2>1. screens' \in [Copy -> 0 .. MaxScreens]
    BY <1>13, <1>t, BoundAssumption DEF ListOpen, Screen
  <2>2. \A m \in Copy : m # n => screens'[m] = screens[m]
    BY <1>13, <1>t DEF ListOpen, Screen
  <2> QED BY <2>1, <2>2, <1>13, <1>t DEF ListOpen, OpenAtOwner, Screen, requester
<1>14. ASSUME NEW n \in Copy, Deny(n) PROVE TypeOK'
  <2>1. screens' \in [Copy -> 0 .. MaxScreens] /\ n \in materialized
    BY <1>14, <1>t, BoundAssumption DEF Deny, Decide
  <2>2. \A m \in Copy : m # n => screens'[m] = screens[m] /\ decided'[m] = decided[m]
    BY <1>14, <1>t DEF Deny, Decide
  <2>3. decided' \in [Copy -> [grant : Nat, deny : Nat]]
    BY <1>14, <1>t DEF Deny
  <2> QED BY <2>1, <2>2, <2>3, <1>14, <1>t DEF Deny, Decide, requester
<1>15. ASSUME NEW n \in Copy, NEW k \in Approval, NEW T \in SUBSET Tree, Grant(n, k, T)
       PROVE  TypeOK'
  <2>1. screens' \in [Copy -> 0 .. MaxScreens] /\ n \in materialized
    BY <1>15, <1>t, BoundAssumption DEF Grant, Decide
  <2>2. \A m \in Copy : m # n => screens'[m] = screens[m] /\ decided'[m] = decided[m]
    BY <1>15, <1>t DEF Grant, Decide
  <2>3. decided' \in [Copy -> [grant : Nat, deny : Nat]]
    BY <1>15, <1>t DEF Grant
  <2>4. approval' \in [Approval -> ApprovalState]
    <3> DEFINE new == [approval[k] EXCEPT !.pc = "recorded", !.request = copy[n], !.trees = T]
    <3>1. new \in ApprovalState
      BY <1>t, GrantedApproval
    <3>2. approval' = [approval EXCEPT ![k] = new]
      BY <1>15 DEF Grant, Granting
    <3> QED BY <3>1, <3>2, <1>t, ApprovalUpdate
  <2> QED BY <2>1, <2>2, <2>3, <2>4, <1>15, <1>t DEF Grant, Decide, requester
<1>16. ASSUME NEW k \in Approval, NEW t \in Unasked, GrantUnasked(k, t) PROVE TypeOK'
  <2> DEFINE new == [approval[k] EXCEPT !.pc = "recorded", !.request = Nobody, !.trees = {t}]
  <2>1. new \in ApprovalState
    BY <1>t, NeedsAssumption, GrantedApproval
  <2>2. approval' = [approval EXCEPT ![k] = new]
    BY <1>16 DEF GrantUnasked, Granting
  <2> QED BY <2>1, <2>2, <1>16, <1>t, ApprovalUpdate DEF GrantUnasked, owner, requester
<1>17. ASSUME NEW k \in Approval, StoreGrants(k) PROVE TypeOK'
  <2>1. approval[k].trees \subseteq Tree
    BY <1>t DEF ApprovalState
  <2> QED BY <2>1, <1>17, <1>t, PassApproval, ApprovalUpdate DEF StoreGrants, owner, requester
<1>18. ASSUME NEW k \in Approval, StartDetector(k) PROVE TypeOK'
  BY <1>18, <1>t, PassApproval, ApprovalUpdate DEF StartDetector, owner, requester
<1>19. ASSUME NEW k \in Approval, DetectorFails(k) PROVE TypeOK'
  <2> DEFINE new == [approval[k] EXCEPT !.pc = "open", !.found = {}]
  <2>2. new \in ApprovalState
    BY <1>t, OtherApproval
  <2>3. approval' = [approval EXCEPT ![k] = new]
    BY <1>19 DEF DetectorFails
  <2>4. trouble' \in 0 .. MaxTrouble
    BY <1>19, <1>t, BoundAssumption DEF DetectorFails, Trouble
  <2> QED BY <2>2, <2>3, <2>4, <1>19, <1>t, ApprovalUpdate DEF DetectorFails, owner, requester
<1>20. CASE UNCHANGED vars
  BY <1>20, <1>t DEF vars
<1> QED
  BY <1>1, <1>2, <1>3, <1>4, <1>5, <1>6, <1>7, <1>8, <1>9, <1>10, <1>11, <1>12, <1>13, <1>14,
     <1>15, <1>16, <1>17, <1>18, <1>19, <1>20 DEF Next, Sending, Passing

-----------------------------------------------------------------------------
(* Arriving: only a post, its start and the sending change anything.        *)
arriving == <<sent, forward, copy, resent>>

LEMMA ArrivalSteps ==
  ASSUME IInv, [Next]_vars
  PROVE  \/ \E r \in Request : Send(r)
         \/ \E r \in Request, w \in Runner : StartForward(r, w) \/ Forward(r, w)
         \/ UNCHANGED arriving
BY DEF Next, Sending, Passing, vars, arriving, requester, owner, Register, UpdateRegistration,
       ReadOpen, ReadGrants, Match, EndDetector, RecordGranted, FindOpen, Archive, Materialize,
       ListOpen, Screen, Deny, Decide, Grant, GrantUnasked, StoreGrants, StartDetector,
       DetectorFails

LEMMA ArrivalsStep == IInv /\ [Next]_vars => InOrder' /\ Arrivals'
<1> SUFFICES ASSUME IInv, [Next]_vars PROVE InOrder' /\ Arrivals'
  OBVIOUS
<1>t. TypeOK /\ InOrder /\ Arrivals
  BY DEF IInv
<1>1. ASSUME NEW r \in Request, Send(r) PROVE InOrder' /\ Arrivals'
  <2>1. InOrder'
    BY <1>1, <1>t DEF Send, owner, InOrder, Taken
  <2>2. /\ sent[r] = "none" /\ sent'[r] = "pending"
        /\ \A q \in Request : q # r => sent'[q] = sent[q]
        /\ UNCHANGED <<forward, copy, resent>>
    BY <1>1, <1>t DEF Send, owner, TypeOK
  <2> QED BY <2>1, <2>2, <1>t DEF Arrivals, Arrived
<1>2. ASSUME NEW r \in Request, NEW w \in Runner, StartForward(r, w) PROVE InOrder' /\ Arrivals'
  <2>1. InOrder'
    BY <1>2, <1>t DEF StartForward, Start, owner, InOrder, Taken
  <2>2. /\ sent[r] = "pending"
        /\ UNCHANGED <<sent, copy>>
        /\ forward'[<<r, w>>] = "post"
        /\ \A v \in Runner : v # w => forward'[<<r, v>>] = forward[<<r, v>>]
        /\ \A q \in Request \ {r} : \A v \in Runner : forward'[<<q, v>>] = forward[<<q, v>>]
        /\ \A q \in Request \ {r} : q \in resent' <=> q \in resent
        /\ r \notin resent' => r \notin resent /\ \A v \in Runner : forward[<<r, v>>] # "post"
    BY <1>2, <1>t DEF StartForward, Start, owner, requester, TypeOK
  <2> QED BY <2>1, <2>2, <1>t DEF Arrivals, Arrived
<1>3. ASSUME NEW r \in Request, NEW w \in Runner, Forward(r, w) PROVE InOrder' /\ Arrivals'
  <2> DEFINE new == NextCopy
  <2>1. /\ new \in Copy /\ copy[new] = Nobody /\ Taken = 1 .. (new - 1) /\ new \in Nat
    BY <1>3, <1>t, NextCopyFree DEF Forward
  <2>2. /\ copy'[new] = r
        /\ \A n \in Copy : n # new => copy'[n] = copy[n]
        /\ forward[<<r, w>>] = "post"
    BY <1>3, <1>t, <2>1 DEF Forward, TypeOK
  <2>3. r # Nobody
    BY NobodyAssumption DEF Nobody
  <2> HIDE DEF new
  <2>4. InOrder'
    <3>1. Taken' = Taken \cup {new}
      BY <2>1, <2>2, <2>3 DEF Taken
    <3>2. Taken' = 1 .. new
      <4>1. new \in Nat /\ new >= 1
        BY <2>1, BoundAssumption DEF Copy
      <4>2. \A x : x \in (1 .. (new - 1)) \cup {new} <=> x \in 1 .. new
        BY <4>1
      <4> QED BY <4>2, <3>1, <2>1
    <3>3. new \in 0 .. MaxCopies
      BY <2>1, BoundAssumption DEF Copy
    <3> QED BY <3>2, <3>3 DEF InOrder
  <2>5. \A q \in Request \ {r} :
          /\ sent'[q] = sent[q] /\ (q \in resent' <=> q \in resent)
          /\ \A v \in Runner : forward'[<<q, v>>] = forward[<<q, v>>]
          /\ \A n \in Copy : copy'[n] = q <=> copy[n] = q
    BY <1>3, <1>t, <2>1, <2>2, NobodyAssumption DEF Forward, Answer, TypeOK, Nobody
  <2>6. sent'[r] # "none" /\ Arrived(r)'
    BY <1>3, <1>t, <2>1, <2>2 DEF Forward, Answer, TypeOK, Arrivals, Arrived
  <2>7. ASSUME r \notin resent'
        PROVE  /\ \A n \in Copy : copy'[n] = r => n = new
               /\ sent'[r] = "done"
               /\ \A v \in Runner : forward'[<<r, v>>] # "post"
    <3>1. /\ r \notin resent
          /\ sent' = [sent EXCEPT ![r] = "done"]
          /\ forward' = [forward EXCEPT ![<<r, w>>] = "over"]
      BY <1>3, <2>7 DEF Forward, Answer
    <3>2. ~ Arrived(r)
      BY <3>1, <2>2, <1>t DEF Arrivals
    <3>3. \A n \in Copy : copy'[n] = r => n = new
      BY <3>2, <2>2 DEF Arrived
    <3>4. \A v \in Runner : v # w => forward[<<r, v>>] # "post"
      BY <3>1, <2>2, <1>t DEF Arrivals
    <3>5. \A v \in Runner : forward'[<<r, v>>] # "post"
      BY <3>1, <3>4, <1>t DEF TypeOK
    <3> QED BY <3>1, <3>3, <3>5, <1>t DEF TypeOK
  <2>8. ASSUME NEW q \in Request \ {r} PROVE Arrived(q)' <=> Arrived(q)
    BY <2>5 DEF Arrived
  <2>9. Arrivals'
    BY <2>5, <2>6, <2>7, <2>8, <1>t DEF Arrivals
  <2> QED BY <2>4, <2>9
<1>4. CASE UNCHANGED arriving
  BY <1>4, <1>t DEF arriving, InOrder, Taken, Arrivals, Arrived
<1> QED BY <1>1, <1>2, <1>3, <1>4, ArrivalSteps

-----------------------------------------------------------------------------
(* Deciding.                                                               *)
deciding == <<copy, materialized, decided, screens, crossed>>

LEMMA DecisionSteps ==
  ASSUME IInv, [Next]_vars
  PROVE  \/ \E r \in Request, w \in Runner : Forward(r, w)
         \/ \E n \in Copy : \/ Materialize(n) \/ ListOpen(n) \/ Deny(n)
                            \/ \E k \in Approval, T \in SUBSET Tree : Grant(n, k, T)
         \/ UNCHANGED deciding
BY DEF Next, Sending, Passing, vars, deciding, requester, owner, Register, UpdateRegistration,
       ReadOpen, ReadGrants, Match, EndDetector, RecordGranted, FindOpen, Archive, Send,
       StartForward, Start, GrantUnasked, StoreGrants, StartDetector, DetectorFails

LEMMA DecisionsStep == IInv /\ [Next]_vars => Decisions'
<1> SUFFICES ASSUME IInv, [Next]_vars PROVE Decisions'
  OBVIOUS
<1>t. TypeOK /\ InOrder /\ Decisions
  BY DEF IInv
<1>s. \A n \in Copy : screens[n] \in Nat /\ decided[n].grant \in Nat /\ decided[n].deny \in Nat
  BY <1>t, BoundAssumption DEF TypeOK
<1>1. ASSUME NEW r \in Request, NEW w \in Runner, Forward(r, w) PROVE Decisions'
  <2>1. \A n \in Copy : copy[n] # Nobody => copy'[n] # Nobody
    BY <1>1, <1>t, NobodyAssumption DEF Forward, TypeOK, Nobody
  <2> QED BY <2>1, <1>1, <1>t DEF Forward, Decisions
<1>2. ASSUME NEW n \in Copy, Materialize(n) PROVE Decisions'
  BY <1>2, <1>t DEF Materialize, Decisions
<1>3. ASSUME NEW n \in Copy, ListOpen(n) PROVE Decisions'
  <2>1. /\ UNCHANGED <<copy, materialized, decided>>
        /\ decided[n].grant + decided[n].deny = 0
        /\ screens'[n] = screens[n] + 1
        /\ \A m \in Copy : m # n => screens'[m] = screens[m]
        /\ crossed \subseteq crossed'
        /\ n \notin crossed' => ~ (screens[n] > 0)
    BY <1>3, <1>t DEF ListOpen, OpenAtOwner, Screen, TypeOK
  <2> QED BY <2>1, <1>t, <1>s DEF Decisions
<1>4. ASSUME NEW n \in Copy, Deny(n) PROVE Decisions'
  <2>1. /\ UNCHANGED <<copy, materialized, crossed>>
        /\ decided'[n].grant = decided[n].grant /\ decided'[n].deny = decided[n].deny + 1
        /\ screens'[n] = screens[n] - 1
        /\ \A m \in Copy : m # n => screens'[m] = screens[m] /\ decided'[m] = decided[m]
    BY <1>4, <1>t DEF Deny, Decide, TypeOK
  <2> QED BY <2>1, <1>t, <1>s DEF Decisions
<1>5. ASSUME NEW n \in Copy, NEW k \in Approval, NEW T \in SUBSET Tree, Grant(n, k, T)
      PROVE  Decisions'
  <2>1. /\ UNCHANGED <<copy, materialized, crossed>>
        /\ decided'[n].grant = decided[n].grant + 1 /\ decided'[n].deny = decided[n].deny
        /\ screens'[n] = screens[n] - 1
        /\ \A m \in Copy : m # n => screens'[m] = screens[m] /\ decided'[m] = decided[m]
    BY <1>5, <1>t DEF Grant, Decide, TypeOK
  <2> QED BY <2>1, <1>t, <1>s DEF Decisions
<1>6. CASE UNCHANGED deciding
  BY <1>6, <1>t DEF deciding, Decisions
<1> QED BY <1>1, <1>2, <1>3, <1>4, <1>5, <1>6, DecisionSteps

-----------------------------------------------------------------------------
(* Resolving.  Most steps claim nothing that was not claimed before, and    *)
(* change nothing the claims speak of.                                     *)
NoNewClaim ==
  /\ \A k \in Approval : approval'[k].found \subseteq approval[k].found
  /\ archiving' \subseteq archiving
  /\ \A r \in Request : sent[r] # "none" => sent'[r] # "none"
  /\ UNCHANGED <<granted, archived, raced>>

LEMMA ClaimSteps ==
  ASSUME IInv, [Next]_vars
  PROVE  \/ \E k \in Approval : ReadOpen(k) \/ \E r \in Request : RecordGranted(k, r)
         \/ \E r \in Request : FindOpen(r) \/ Archive(r)
         \/ NoNewClaim
<1>t. TypeOK
  BY DEF IInv
<1> USE <1>t
<1>1. ASSUME NEW r \in Request, NEW w \in Runner, Forward(r, w) PROVE NoNewClaim
  BY <1>1 DEF Forward, Answer, NoNewClaim, TypeOK
<1>2. ASSUME NEW r \in Request, Send(r) PROVE NoNewClaim
  BY <1>2 DEF Send, owner, NoNewClaim, TypeOK
<1>3. ASSUME NEW k \in Approval, NEW from, NEW to, Pass(k, from, to),
             UNCHANGED requester
      PROVE  NoNewClaim
  BY <1>3 DEF Pass, requester, NoNewClaim, TypeOK, ApprovalState
<1>4. ASSUME NEW k \in Approval, ReadGrants(k) PROVE NoNewClaim
  BY <1>4 DEF ReadGrants, Match, requester, NoNewClaim, TypeOK, ApprovalState
<1>5. ASSUME NEW k \in Approval, NEW r, NEW T, Granting(k, r, T), UNCHANGED requester
      PROVE  NoNewClaim
  BY <1>5 DEF Granting, requester, NoNewClaim, TypeOK, ApprovalState
<1>6. ASSUME NEW k \in Approval, DetectorFails(k) PROVE NoNewClaim
  BY <1>6 DEF DetectorFails, requester, NoNewClaim, TypeOK, ApprovalState
<1>7. CASE UNCHANGED <<requester, approval>>
  BY <1>7 DEF requester, NoNewClaim
<1> QED
  BY <1>1, <1>2, <1>3, <1>4, <1>5, <1>6, <1>7
  DEF Next, Sending, Passing, vars, requester, Register, UpdateRegistration, EndDetector,
      Materialize, ListOpen, Screen, Deny, Decide, Grant, GrantUnasked, StoreGrants,
      StartDetector, StartForward, Start

LEMMA ClaimsStep == IInv /\ [Next]_vars => Claims'
<1> SUFFICES ASSUME IInv, [Next]_vars PROVE Claims'
  OBVIOUS
<1>t. TypeOK /\ Claims
  BY DEF IInv
<1>n. \A r \in Request : granted[r] \in Nat /\ archived[r] \in Nat
  BY <1>t DEF TypeOK
<1>1. ASSUME NEW k \in Approval, ReadOpen(k) PROVE Claims'
  <2>1. /\ approval'[k].found = Open
        /\ \A j \in Approval : j # k => approval'[j] = approval[j]
        /\ raced' = raced \cup (Open \cap Claimed)
        /\ UNCHANGED <<sent, granted, archived, archiving>>
    BY <1>1, <1>t DEF ReadOpen, TypeOK, ApprovalState
  <2>2. \A r \in Open : sent[r] # "none" /\ granted[r] + archived[r] = 0
    BY DEF Open
  <2>3. ASSUME NEW r \in Request PROVE r \in Claimed' => r \in Claimed \/ r \in Open
    BY <2>1 DEF Claimed
  <2>4. ASSUME NEW r \in Request \ raced', r \in Open
        PROVE  r \notin archiving /\ \A j \in Approval : r \notin approval[j].found
    BY <2>1, <2>4 DEF Claimed
  <2>5. ASSUME NEW r \in Request \ raced', r \notin Open
        PROVE  \A j \in Approval : r \in approval'[j].found => r \in approval[j].found
    BY <2>1, <2>5
  <2>6. ASSUME NEW r \in Request \ raced' PROVE r \notin raced
    BY <2>1
  <2> QED BY <2>1, <2>2, <2>3, <2>4, <2>5, <2>6, <1>t DEF Claims
<1>2. ASSUME NEW k \in Approval, NEW r \in Request, RecordGranted(k, r) PROVE Claims'
  <2>1. /\ approval'[k].found = approval[k].found \ {r} /\ r \in approval[k].found
        /\ \A j \in Approval : j # k => approval'[j] = approval[j]
        /\ granted'[r] = granted[r] + 1
        /\ \A q \in Request : q # r => granted'[q] = granted[q]
        /\ UNCHANGED <<sent, archived, archiving, raced>>
    BY <1>2, <1>t DEF RecordGranted, TypeOK, ApprovalState
  <2>2. Claimed' \subseteq Claimed /\ r \in Claimed
    BY <2>1 DEF Claimed
  <2>3. ASSUME r \notin raced
        PROVE  granted'[r] + archived[r] = 1 /\ r \notin Claimed'
    <3>1. granted[r] + archived[r] = 0
      BY <2>2, <2>3, <1>t DEF Claims
    <3>2. r \notin archiving
      BY <2>1, <2>3, <1>t DEF Claims
    <3>3. \A j \in Approval : r \notin approval'[j].found
      BY <2>1, <2>3, <1>t DEF Claims
    <3> QED BY <3>1, <3>2, <3>3, <2>1, <1>n DEF Claimed
  <2>4. ASSUME NEW q \in Request, q # r PROVE granted'[q] + archived'[q] = granted[q] + archived[q]
    BY <2>1, <2>4
  <2>5. \A j \in Approval : approval'[j].found \subseteq approval[j].found
    BY <2>1
  <2> QED BY <2>1, <2>2, <2>3, <2>4, <2>5, <1>t DEF Claims
<1>3. ASSUME NEW r \in Request, FindOpen(r) PROVE Claims'
  <2>1. /\ archiving' = {r} /\ archiving = {} /\ r \in Open
        /\ raced' = raced \cup ({r} \cap Claimed)
        /\ UNCHANGED <<sent, granted, archived, approval>>
    BY <1>3 DEF FindOpen
  <2>2. sent[r] # "none" /\ granted[r] + archived[r] = 0
    BY <2>1 DEF Open
  <2>3. Claimed' = Claimed \cup {r}
    BY <2>1 DEF Claimed
  <2>4. r \notin raced' => \A j \in Approval : r \notin approval[j].found
    BY <2>1 DEF Claimed
  <2>5. raced \subseteq raced'
    BY <2>1
  <2> QED BY <2>1, <2>2, <2>3, <2>4, <2>5, <1>t DEF Claims
<1>4. ASSUME NEW r \in Request, Archive(r) PROVE Claims'
  <2>1. /\ archiving' = archiving \ {r} /\ r \in archiving
        /\ archived'[r] = archived[r] + 1
        /\ \A q \in Request : q # r => archived'[q] = archived[q]
        /\ UNCHANGED <<sent, granted, approval, raced>>
    BY <1>4, <1>t DEF Archive, TypeOK
  <2>2. Claimed' \subseteq Claimed /\ r \in Claimed
    BY <2>1 DEF Claimed
  <2>3. ASSUME r \notin raced
        PROVE  granted[r] + archived'[r] = 1 /\ r \notin Claimed'
    <3>1. granted[r] + archived[r] = 0
      BY <2>2, <2>3, <1>t DEF Claims
    <3>2. \A j \in Approval : r \notin approval[j].found
      BY <2>1, <2>3, <1>t DEF Claims
    <3> QED BY <3>1, <3>2, <2>1, <1>n DEF Claimed
  <2>4. ASSUME NEW q \in Request, q # r PROVE granted'[q] + archived'[q] = granted[q] + archived[q]
    BY <2>1, <2>4
  <2> QED BY <2>1, <2>2, <2>3, <2>4, <1>t DEF Claims
<1>5. CASE NoNewClaim
  <2>1. Claimed' \subseteq Claimed
    BY <1>5 DEF NoNewClaim, Claimed
  <2> QED BY <2>1, <1>5, <1>t DEF NoNewClaim, Claims
<1> QED BY <1>1, <1>2, <1>3, <1>4, <1>5, ClaimSteps

-----------------------------------------------------------------------------
(* The way of a grant.  Nothing on it is taken back.                        *)
Lasting ==
  /\ stored \subseteq stored'
  /\ \A r \in Request : sent[r] # "none" => sent'[r] # "none"
  /\ \A r \in Request : granted[r] <= granted'[r] /\ archived[r] <= archived'[r]
  /\ \A k \in Approval : approval[k].pc # "none" =>
       /\ approval'[k].pc # "none"
       /\ approval'[k].request = approval[k].request
       /\ approval'[k].trees = approval[k].trees

(* Only these steps change an approval, and no other stores grants or       *)
(* shows a request as granted.                                             *)
WaySteps(k) ==
  \/ UpdateRegistration(k) \/ ReadOpen(k) \/ ReadGrants(k) \/ EndDetector(k)
  \/ StoreGrants(k) \/ StartDetector(k) \/ DetectorFails(k)
  \/ \E r \in Request : RecordGranted(k, r)
  \/ \E n \in Copy, T \in SUBSET Tree : Grant(n, k, T)
  \/ \E t \in Unasked : GrantUnasked(k, t)

LEMMA WayCases ==
  ASSUME IInv, [Next]_vars
  PROVE  \/ \E k \in Approval : WaySteps(k)
         \/ UNCHANGED <<approval, stored, granted>>
BY DEF WaySteps, Next, Sending, Passing, vars, requester, owner, Register, Forward, FindOpen,
       Archive, Send, StartForward, Start, Materialize, ListOpen, Screen, Deny, Decide

LEMMA NumbersOf ==
  ASSUME TypeOK
  PROVE  /\ \A r \in Request : granted[r] \in Nat /\ archived[r] \in Nat
         /\ \A k \in Approval : approval[k] \in ApprovalState
BY DEF TypeOK

LEMMA Lasts ==
  ASSUME IInv, [Next]_vars
  PROVE  Lasting
<1>t. TypeOK
  BY DEF IInv
<1> USE <1>t, NumbersOf
<1>1. \A r \in Request : sent[r] # "none" => sent'[r] # "none"
  <2>1. ASSUME NEW r \in Request, Send(r)
        PROVE  \A q \in Request : sent[q] # "none" => sent'[q] # "none"
    BY <2>1 DEF Send, TypeOK
  <2>2. ASSUME NEW r \in Request, NEW w \in Runner, Forward(r, w)
        PROVE  \A q \in Request : sent[q] # "none" => sent'[q] # "none"
    BY <2>2 DEF Forward, Answer, TypeOK
  <2>3. ASSUME NEW r \in Request, NEW w \in Runner, StartForward(r, w) PROVE UNCHANGED sent
    BY <2>3 DEF StartForward, Start, requester
  <2> QED BY <2>1, <2>2, <2>3, ArrivalSteps DEF arriving
<1>2. \A r \in Request : archived[r] <= archived'[r]
  <2>1. ASSUME NEW r \in Request, Archive(r) PROVE \A q \in Request : archived[q] <= archived'[q]
    BY <2>1 DEF Archive, TypeOK
  <2>2. (\E r \in Request : Archive(r)) \/ UNCHANGED archived
    BY DEF Next, Sending, Passing, vars, requester, owner, Register, Forward, FindOpen,
       Send, StartForward, Start, Materialize, ListOpen, Screen, Deny, Decide, Grant,
       UpdateRegistration, ReadOpen, ReadGrants, Match, EndDetector, StoreGrants,
       StartDetector, DetectorFails, RecordGranted, GrantUnasked
  <2> QED BY <2>1, <2>2
<1>3. ASSUME NEW k \in Approval, WaySteps(k)
      PROVE  /\ stored \subseteq stored'
             /\ \A r \in Request : granted[r] <= granted'[r]
             /\ \A j \in Approval : approval[j].pc # "none" =>
                  /\ approval'[j].pc # "none"
                  /\ approval'[j].request = approval[j].request
                  /\ approval'[j].trees = approval[j].trees
  <2>1. CASE UpdateRegistration(k)
    BY <1>3, <2>1 DEF UpdateRegistration, Pass, requester, TypeOK, ApprovalState
  <2>2. CASE ReadOpen(k)
    BY <1>3, <2>2 DEF ReadOpen, TypeOK, ApprovalState
  <2>3. CASE ReadGrants(k)
    BY <1>3, <2>3 DEF ReadGrants, Match, requester, TypeOK, ApprovalState
  <2>4. CASE EndDetector(k)
    BY <1>3, <2>4 DEF EndDetector, Pass, requester, TypeOK, ApprovalState
  <2>5. CASE StoreGrants(k)
    BY <1>3, <2>5 DEF StoreGrants, Pass, requester, TypeOK, ApprovalState
  <2>6. CASE StartDetector(k)
    BY <1>3, <2>6 DEF StartDetector, Pass, requester, TypeOK, ApprovalState
  <2>7. CASE DetectorFails(k)
    BY <1>3, <2>7 DEF DetectorFails, requester, TypeOK, ApprovalState
  <2>8. ASSUME NEW r \in Request, RecordGranted(k, r)
        PROVE  /\ UNCHANGED stored
               /\ \A q \in Request : granted[q] <= granted'[q]
               /\ \A j \in Approval : approval[j].pc # "none" =>
                    /\ approval'[j].pc # "none"
                    /\ approval'[j].request = approval[j].request
                    /\ approval'[j].trees = approval[j].trees
    BY <2>8 DEF RecordGranted, TypeOK, ApprovalState
  <2>9. ASSUME NEW n \in Copy, NEW T \in SUBSET Tree, Grant(n, k, T)
        PROVE  /\ UNCHANGED <<stored, granted>>
               /\ \A j \in Approval : approval[j].pc # "none" => approval'[j] = approval[j]
    BY <2>9 DEF Grant, Granting, Decide, requester, TypeOK
  <2>10. ASSUME NEW t \in Unasked, GrantUnasked(k, t)
        PROVE  /\ UNCHANGED <<stored, granted>>
               /\ \A j \in Approval : approval[j].pc # "none" => approval'[j] = approval[j]
    BY <2>10 DEF GrantUnasked, Granting, requester, TypeOK
  <2> QED BY <1>3, <2>1, <2>2, <2>3, <2>4, <2>5, <2>6, <2>7, <2>8, <2>9, <2>10 DEF WaySteps
<1> QED BY <1>1, <1>2, <1>3, WayCases DEF Lasting

LEMMA ResolvedLasts ==
  ASSUME IInv, Lasting, NEW r \in Request, Resolved(r), TypeOK'
  PROVE  granted'[r] + archived'[r] > 0
<1>1. /\ granted[r] \in Nat /\ archived[r] \in Nat
      /\ granted'[r] \in Nat /\ archived'[r] \in Nat
  BY DEF IInv, TypeOK
<1> QED BY <1>1 DEF Resolved, Lasting

LEMMA WaysStep == IInv /\ [Next]_vars => Ways'
<1> SUFFICES ASSUME IInv, [Next]_vars PROVE Ways'
  OBVIOUS
<1>t. TypeOK /\ Ways /\ Lasting /\ TypeOK'
  BY Lasts, TypeStep DEF IInv
<1> USE <1>t, NumbersOf
<1>r. \A k \in Approval : approval[k].request # Nobody => approval[k].request \in Request
  BY DEF ApprovalState
<1>1. ASSUME NEW j \in Approval, approval'[j] = approval[j] PROVE Way(j)'
  <2>1. Way(j)
    BY DEF Ways
  <2>2. \A r \in Request : Resolved(r) => granted'[r] + archived'[r] > 0
    BY ResolvedLasts
  <2>3. approval'[j].request = approval[j].request
    BY <1>1
  <2> QED BY <1>1, <1>r, <2>1, <2>2, <2>3 DEF Way, Lasting, Resolved
<1>2. ASSUME NEW k \in Approval, WaySteps(k) PROVE Way(k)'
  <2> DEFINE r == approval[k].request
  <2>w. Way(k)
    BY DEF Ways
  <2>l. \A q \in Request : Resolved(q) => granted'[q] + archived'[q] > 0
    BY ResolvedLasts
  <2>n. r # Nobody => /\ r \in Request
                      /\ granted[r] \in Nat /\ archived[r] \in Nat
                      /\ sent[r] # "none" => sent'[r] # "none"
    BY <1>r DEF Lasting
  <2>1. CASE UpdateRegistration(k)
    BY <1>2, <2>1, <2>w DEF UpdateRegistration, Pass, requester, TypeOK, ApprovalState, Way,
                            Resolved
  <2>2. CASE ReadOpen(k)
    <3>1. /\ approval[k].pc = "open" /\ approval'[k].request = r
          /\ approval'[k].trees = approval[k].trees
          /\ approval'[k].pc = (IF Open = {} THEN "over" ELSE "grants")
          /\ approval'[k].found = Open
          /\ UNCHANGED <<sent, granted, archived, stored>>
      BY <1>2, <2>2 DEF ReadOpen, TypeOK, ApprovalState
    <3>2. r # Nobody /\ sent[r] # "none" => r \in Open \/ Resolved(r)
      BY <2>n DEF Open, Resolved
    <3> QED BY <3>1, <3>2, <2>w DEF Way, Resolved
  <2>3. CASE ReadGrants(k)
    <3>1. /\ approval[k].pc = "grants" /\ approval'[k].request = r
          /\ approval'[k].trees = approval[k].trees
          /\ approval'[k].pc = "write"
          /\ approval'[k].found = {q \in approval[k].found : Needs(q) \cap stored # {}}
          /\ UNCHANGED <<sent, granted, archived, stored>>
      BY <1>2, <2>3 DEF ReadGrants, Match, requester, TypeOK, ApprovalState
    <3>2. r # Nobody /\ approval[k].trees # {} => Needs(r) \cap stored # {}
      BY <3>1, <2>w DEF Way
    <3> QED BY <3>1, <3>2, <2>w DEF Way, Resolved
  <2>4. CASE EndDetector(k)
    BY <1>2, <2>4, <2>w DEF EndDetector, Pass, requester, TypeOK, ApprovalState, Way, Resolved
  <2>5. CASE StoreGrants(k)
    BY <1>2, <2>5, <2>w DEF StoreGrants, Pass, requester, TypeOK, ApprovalState, Way, Resolved
  <2>6. CASE StartDetector(k)
    BY <1>2, <2>6, <2>w DEF StartDetector, Pass, requester, TypeOK, ApprovalState, Way, Resolved
  <2>7. CASE DetectorFails(k)
    <3>1. /\ approval[k].pc \in {"open", "grants", "write"} /\ approval'[k].request = r
          /\ approval'[k].trees = approval[k].trees
          /\ approval'[k].pc = "open"
          /\ UNCHANGED <<sent, granted, archived, stored>>
      BY <1>2, <2>7 DEF DetectorFails, Detecting, requester, TypeOK, ApprovalState
    <3> QED BY <3>1, <2>w DEF Way, Resolved
  <2>8. ASSUME NEW q \in Request, RecordGranted(k, q) PROVE Way(k)'
    <3>1. /\ approval[k].pc = "write" /\ approval'[k].request = r
          /\ approval'[k].trees = approval[k].trees
          /\ approval'[k].pc = "write"
          /\ approval'[k].found = approval[k].found \ {q}
          /\ granted'[q] = granted[q] + 1
          /\ UNCHANGED <<sent, archived, stored>>
      BY <2>8 DEF RecordGranted, TypeOK, ApprovalState
    <3>2. granted'[q] + archived'[q] > 0
      BY <3>1
    <3> QED BY <3>1, <3>2, <2>l, <2>n, <2>w DEF Way, Resolved
  <2>9. ASSUME NEW n \in Copy, NEW T \in SUBSET Tree, Grant(n, k, T) PROVE Way(k)'
    <3>1. /\ approval'[k].request = copy[n]
          /\ approval'[k].trees = T /\ T \subseteq Needs(copy[n])
          /\ approval'[k].pc = "recorded"
          /\ n \in materialized
          /\ UNCHANGED sent
      BY <2>9, BoundAssumption DEF Grant, Granting, Decide, requester, TypeOK, ApprovalState
    <3>2. copy[n] \in Request
      BY <3>1 DEF IInv, Decisions, TypeOK
    <3>3. sent[copy[n]] # "none"
      BY <3>2 DEF IInv, Arrivals, Arrived
    <3> QED BY <3>1, <3>3 DEF Way
  <2>10. ASSUME NEW t \in Unasked, GrantUnasked(k, t) PROVE Way(k)'
    BY <2>10 DEF GrantUnasked, Granting, TypeOK, ApprovalState, Way
  <2> QED BY <1>2, <2>1, <2>2, <2>3, <2>4, <2>5, <2>6, <2>7, <2>8, <2>9, <2>10 DEF WaySteps
<1>3. ASSUME NEW k \in Approval, WaySteps(k) PROVE \A j \in Approval : j # k => approval'[j] = approval[j]
  BY <1>3 DEF WaySteps, UpdateRegistration, ReadOpen, ReadGrants, Match, EndDetector, StoreGrants,
              StartDetector, DetectorFails, RecordGranted, Grant, GrantUnasked, Granting, Pass,
              TypeOK
<1>4. CASE UNCHANGED <<approval, stored, granted>>
  BY <1>1, <1>4 DEF Ways
<1> QED BY <1>1, <1>2, <1>3, <1>4, WayCases DEF Ways

LEMMA GrantedSomeLasts ==
  ASSUME Lasting, NEW r \in Request, GrantedSome(r)
  PROVE  GrantedSome(r)'
BY DEF Lasting, GrantedSome

LEMMA GroundsStep == IInv /\ [Next]_vars => Grounds'
<1> SUFFICES ASSUME IInv, [Next]_vars PROVE Grounds'
  OBVIOUS
<1>t. TypeOK /\ Grounds /\ Lasting /\ TypeOK'
  BY Lasts, TypeStep DEF IInv
<1>n. \A r \in Request : granted[r] \in Nat
  BY <1>t DEF TypeOK
<1> DEFINE Kept(k) ==
      /\ stored' \subseteq stored \cup (IF approval'[k].pc # "none" THEN approval'[k].trees ELSE {})
      /\ approval'[k].pc = "write" =>
           \A r \in approval'[k].found : \/ approval[k].pc = "write" /\ r \in approval[k].found
                                         \/ r \in Request /\ Needs(r) \cap stored # {}
      /\ \A r \in Request : granted'[r] > 0 =>
           granted[r] > 0 \/ (approval[k].pc = "write" /\ r \in approval[k].found)
<1>1. ASSUME NEW k \in Approval, WaySteps(k)
      PROVE  Kept(k) /\ \A j \in Approval : j # k => approval'[j] = approval[j]
  <2> USE <1>t, NumbersOf
  <2>1. CASE UpdateRegistration(k)
    BY <2>1 DEF UpdateRegistration, Pass, requester, TypeOK, ApprovalState
  <2>2. CASE ReadOpen(k)
    BY <2>2 DEF ReadOpen, TypeOK, ApprovalState
  <2>3. CASE ReadGrants(k)
    BY <2>3 DEF ReadGrants, Match, requester, TypeOK, ApprovalState
  <2>4. CASE EndDetector(k)
    BY <2>4 DEF EndDetector, Pass, requester, TypeOK, ApprovalState
  <2>5. CASE StoreGrants(k)
    BY <2>5 DEF StoreGrants, Pass, requester, TypeOK, ApprovalState
  <2>6. CASE StartDetector(k)
    BY <2>6 DEF StartDetector, Pass, requester, TypeOK, ApprovalState
  <2>7. CASE DetectorFails(k)
    BY <2>7 DEF DetectorFails, requester, TypeOK, ApprovalState
  <2>8. ASSUME NEW r \in Request, RecordGranted(k, r)
        PROVE  Kept(k) /\ \A j \in Approval : j # k => approval'[j] = approval[j]
    BY <2>8 DEF RecordGranted, TypeOK, ApprovalState
  <2>9. ASSUME NEW n \in Copy, NEW T \in SUBSET Tree, Grant(n, k, T)
        PROVE  Kept(k) /\ \A j \in Approval : j # k => approval'[j] = approval[j]
    BY <2>9 DEF Grant, Granting, Decide, requester, TypeOK, ApprovalState
  <2>10. ASSUME NEW t \in Unasked, GrantUnasked(k, t)
         PROVE  Kept(k) /\ \A j \in Approval : j # k => approval'[j] = approval[j]
    BY <2>10 DEF GrantUnasked, Granting, requester, TypeOK, ApprovalState
  <2> HIDE DEF Kept
  <2> QED BY <1>1, <2>1, <2>2, <2>3, <2>4, <2>5, <2>6, <2>7, <2>8, <2>9, <2>10 DEF WaySteps
<1>2. ASSUME NEW r \in Request, Needs(r) \cap stored # {} PROVE GrantedSome(r)
  BY <1>2, <1>t DEF Grounds, GrantedSome
<1>3. ASSUME NEW k \in Approval, WaySteps(k) PROVE Grounds'
  <2>k. Kept(k) /\ \A j \in Approval : j # k => approval'[j] = approval[j]
    BY <1>1, <1>3
  <2>1. ASSUME NEW t \in stored'
        PROVE  \E j \in Approval : approval'[j].pc # "none" /\ t \in approval'[j].trees
    <3>1. CASE t \in stored
      BY <3>1, <1>t DEF Grounds, Lasting
    <3>2. CASE t \notin stored
      BY <2>1, <2>k, <3>2
    <3> QED BY <3>1, <3>2
  <2>2. ASSUME NEW j \in Approval, approval'[j].pc = "write", NEW r \in approval'[j].found
        PROVE  GrantedSome(r)'
    <3>1. r \in Request
      BY <2>2, <1>t DEF TypeOK, ApprovalState
    <3>2. GrantedSome(r)
      <4>1. CASE j = k
        BY <4>1, <2>k, <2>2, <1>2, <1>t DEF Grounds
      <4>2. CASE j # k
        BY <4>2, <2>k, <2>2, <1>t DEF Grounds
      <4> QED BY <4>1, <4>2
    <3> QED BY <3>1, <3>2, <1>t, GrantedSomeLasts
  <2>3. ASSUME NEW r \in Request, granted'[r] > 0
        PROVE  GrantedSome(r)'
    <3>1. GrantedSome(r)
      BY <2>3, <2>k, <1>t DEF Grounds
    <3> QED BY <3>1, <1>t, GrantedSomeLasts
  <2> QED BY <2>1, <2>2, <2>3 DEF Grounds
<1>4. CASE UNCHANGED <<approval, stored, granted>>
  BY <1>4, <1>t DEF Grounds, GrantedSome
<1> QED BY <1>3, <1>4, WayCases

LEMMA InvAlways == Spec => []IInv
<1>1. IInv /\ [Next]_vars => IInv'
  BY TypeStep, ArrivalsStep, DecisionsStep, ClaimsStep, WaysStep, GroundsStep DEF IInv
<1> QED BY InitIInv, <1>1, PTL DEF Spec

-----------------------------------------------------------------------------
(* Every variable keeps its type; only what is stored is decided, only what *)
(* was sent is resolved.                                                   *)
THEOREM TypeAlways == Spec => []TypeOK
<1>1. IInv => TypeOK
  BY DEF IInv
<1> QED BY InvAlways, <1>1, PTL

(* A request whose post was neither repeated nor made by two runs reaches   *)
(* the owner once; a request that is done has reached it.                   *)
THEOREM AlwaysReceivedOnce == Spec => []ReceivedOnce
<1>1. IInv => ReceivedOnce
  <2> SUFFICES ASSUME IInv, NEW r \in Request
               PROVE  LET copies == {n \in Copy : copy[n] = r}
                      IN /\ r \notin resent => Cardinality(copies) <= 1
                         /\ sent[r] = "done" => copies # {}
    BY DEF ReceivedOnce
  <2> DEFINE copies == {n \in Copy : copy[n] = r}
  <2>1. ASSUME r \notin resent PROVE Cardinality(copies) <= 1
    <3>1. \A n, m \in copies : n = m
      BY <2>1 DEF IInv, Arrivals
    <3>2. CASE copies = {}
      BY <3>2, FS_EmptySet
    <3>3. CASE copies # {}
      <4>1. PICK n \in copies : TRUE
        BY <3>3
      <4>2. copies = {n}
        BY <3>1, <4>1
      <4> HIDE DEF copies
      <4>3. Cardinality(copies) = 1
        BY <4>2, FS_Singleton
      <4> QED BY <4>3
    <3> QED BY <3>2, <3>3
  <2>2. sent[r] = "done" => copies # {}
    BY DEF IInv, Arrivals, Arrived
  <2> QED BY <2>1, <2>2
<1> QED BY InvAlways, <1>1, PTL

(* Nothing is decided twice at the owner, or resolved twice at the          *)
(* requester, unless two had it before them at once: however often posts,   *)
(* detectors and archiving are repeated, fail and interleave.               *)
THEOREM AlwaysClosedOnce == Spec => []ClosedOnce
<1>1. IInv => ClosedOnce
  <2> SUFFICES ASSUME IInv PROVE ClosedOnce
    OBVIOUS
  <2>1. \A n \in Copy : /\ screens[n] \in Nat
                        /\ decided[n].grant \in Nat /\ decided[n].deny \in Nat
    BY BoundAssumption DEF IInv, TypeOK
  <2> QED BY <2>1 DEF IInv, Decisions, Claims, ClosedOnce
<1> QED BY InvAlways, <1>1, PTL

(* What is shown as granted was granted, at least in part; and a grant made *)
(* for a request has resolved it when its news has come all the way.        *)
THEOREM AlwaysNewsResolves == Spec => []NewsResolves
<1>1. IInv => NewsResolves
  BY DEF IInv, Grounds, GrantedSome, Ways, Way, Resolved, NewsResolves
<1> QED BY InvAlways, <1>1, PTL
=============================================================================
