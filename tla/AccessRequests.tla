--------------------------- MODULE AccessRequests ---------------------------
(***************************************************************************)
(* A requester asks a data owner for access to what it needs.  The request *)
(* is recorded as sent, a workflow posts it to the owner's endpoint, which  *)
(* records it as received, and a workflow there stores it.  Whoever acts   *)
(* for the owner grants or denies it.  A grant makes the owner's service   *)
(* store grants and update its registration of the requester; the          *)
(* requester hears of the update and looks which of the requests it has    *)
(* open are granted now.  The requester may also archive a request.        *)
(*                                                                         *)
(* One requester, one owner.  An access need is its shape tree; whatever   *)
(* granting does between an authorization and its grants is two steps here *)
(* (module Granting has them all).  Replaced grants are never deleted, so  *)
(* the grants stored only increase.                                        *)
(***************************************************************************)
EXTENDS Naturals, FiniteSets

CONSTANTS Request,      \* requests that may be sent
          Tree,         \* shape trees
          Needs(_),     \* request -> the shape trees it asks for
          Unasked,      \* shape trees the owner may grant without being asked
          MaxScreens,   \* bound: screens that show a request at once
          MaxCopies,    \* bound: times requests arrive at the owner
          MaxApprovals, \* bound: authorizations the owner grants
          MaxTrouble    \* bound: lost answers, sweeps and crashes

ASSUME NeedsAssumption == Unasked \subseteq Tree /\ \A r \in Request : Needs(r) \subseteq Tree
ASSUME NobodyAssumption == 0 \notin Request
ASSUME BoundAssumption ==
  /\ MaxScreens \in Nat /\ MaxCopies \in Nat /\ MaxApprovals \in Nat
  /\ MaxTrouble \in Nat

Copy == 1 .. MaxCopies
Approval == 1 .. MaxApprovals
Runner == {"webhook", "sweep"}
Nobody == 0

VARIABLES registered, \* the owner has a registration of the requester
          sent,       \* request -> its NeedBasedAccessRequestSent activity
          forward,    \* request, who runs its workflow -> where that is
          copy,       \* id at the owner -> the request received under it
          materialized,\* ids at the owner whose request is in the registry
          decided,    \* id at the owner -> how often it was granted, and denied
          screens,    \* id at the owner -> screens that show it
          approval,   \* authorization granted -> its way to the requester
          stored,     \* shape trees of the owner's grants to the requester
          granted,    \* request -> AccessRequestGranted activities
          archived,   \* request -> AccessRequestArchived activities
          archiving,  \* requests being archived, found open
          trouble,    \* lost answers, sweeps and crashes
          resent,     \* history: answers lost, or sent by two runs
          raced,      \* history: requests two found open, to resolve them
          crossed     \* history: ids shown on two screens at once

vars == <<registered, sent, forward, copy, materialized, decided, screens, approval,
          stored, granted, archived, archiving, trouble, resent, raced, crossed>>

(* An authorization granted, its grants, the update the requester gets to   *)
(* hear of, and the run of the detector that follows.                      *)
ApprovalState ==
  [pc      : {"none", "recorded", "update", "notified", "open", "grants", "write", "over"},
   request : Request \cup {Nobody},   \* the request granted, if it was one
   trees   : SUBSET Tree,             \* what it grants
   found   : SUBSET Request]          \* open requests; then those it resolves

(* Every variable has its type; what is on a screen, or is decided, is      *)
(* stored; who resolves a request has found one that was sent.             *)
TypeOK ==
  /\ registered \in BOOLEAN
  /\ sent \in [Request -> {"none", "pending", "done"}]
  /\ forward \in [Request \X Runner -> {"idle", "post", "over"}]
  /\ copy \in [Copy -> Request \cup {Nobody}]
  /\ materialized \subseteq Copy
  /\ decided \in [Copy -> [grant : Nat, deny : Nat]]
  /\ screens \in [Copy -> 0 .. MaxScreens]
  /\ approval \in [Approval -> ApprovalState]
  /\ stored \subseteq Tree
  /\ granted \in [Request -> Nat] /\ archived \in [Request -> Nat]
  /\ archiving \subseteq Request
  /\ trouble \in 0 .. MaxTrouble
  /\ resent \subseteq Request /\ raced \subseteq Request /\ crossed \subseteq Copy
  /\ \A n \in Copy : decided[n].grant + decided[n].deny + screens[n] > 0 => n \in materialized
  /\ \A r \in Request : granted[r] + archived[r] > 0 => sent[r] # "none"

requester == <<sent, granted, archived, archiving, raced>>
owner == <<copy, materialized, decided, screens, crossed>>

Trouble == trouble < MaxTrouble /\ trouble' = trouble + 1

-----------------------------------------------------------------------------
(* Sending.                                                                *)

(* recordAccessRequest: the Sent activity, with a snapshot of the needs.    *)
Send(r) ==
  /\ sent[r] = "none"
  /\ sent' = [sent EXCEPT ![r] = "pending"]
  /\ UNCHANGED <<registered, forward, owner, approval, stored, granted, archived,
                 archiving, raced, trouble, resent>>

(* The owner registers the requester (module Invitations).                  *)
Register ==
  /\ ~ registered
  /\ registered' = TRUE
  /\ UNCHANGED <<requester, forward, owner, approval, stored, trouble, resent>>

Start(r, w) ==
  /\ forward[<<r, w>>] = "idle"
  /\ forward' = [forward EXCEPT ![<<r, w>>] = "post"]
  /\ resent' = resent \cup (IF \E v \in Runner : forward[<<r, v>>] = "post" THEN {r} ELSE {})
  /\ IF w = "sweep" THEN Trouble ELSE UNCHANGED trouble
  /\ UNCHANGED <<registered, requester, owner, approval, stored>>

(* Mutated: the sweep takes up what is done as well.                        *)
StartAny(r, w) == sent[r] # "none" /\ Start(r, w)

(* The webhook, or a sweep, starts processNeedBasedAccessRequest.           *)
StartForward(r, w) == sent[r] = "pending" /\ Start(r, w)

NextCopy == Cardinality({n \in Copy : copy[n] # Nobody}) + 1

(* The post is answered, and the activity marked done; or the answer is     *)
(* lost, and it is all done again.                                         *)
Answer(r, w) ==
  \/ /\ forward' = [forward EXCEPT ![<<r, w>>] = "over"]
     /\ sent' = [sent EXCEPT ![r] = "done"]
     /\ UNCHANGED <<trouble, resent>>
  \/ /\ Trouble
     /\ resent' = resent \cup {r}
     /\ UNCHANGED <<forward, sent>>

(* Mutated: a request that has arrived before is refused.                   *)
ForwardNew(r, w) ==
  /\ forward[<<r, w>>] = "post"
  /\ registered /\ NextCopy \in Copy
  /\ \A n \in Copy : copy[n] # r
  /\ copy' = [copy EXCEPT ![NextCopy] = r]
  /\ Answer(r, w)
  /\ UNCHANGED <<registered, granted, archived, archiving, raced, materialized, decided,
                 screens, crossed, approval, stored>>

(* forwardNeedBasedAccessRequest, answered by acceptNeedBasedAccessRequest: *)
(* refused until the requester is registered, else recorded as received     *)
(* under a new id, whether it was received before or not.                  *)
Forward(r, w) ==
  /\ forward[<<r, w>>] = "post"
  /\ registered /\ NextCopy \in Copy
  /\ copy' = [copy EXCEPT ![NextCopy] = r]
  /\ Answer(r, w)
  /\ UNCHANGED <<registered, granted, archived, archiving, raced, materialized, decided,
                 screens, crossed, approval, stored>>

(* processNeedBasedAccessRequestReceived, once it is started: a HEAD, and a *)
(* PUT of what is not there.  Another run, or attempt, changes nothing.    *)
Materialize(n) ==
  /\ copy[n] # Nobody /\ n \notin materialized
  /\ materialized' = materialized \cup {n}
  /\ UNCHANGED <<registered, requester, forward, copy, decided, screens, crossed, approval,
                 stored, trouble, resent>>

-----------------------------------------------------------------------------
(* Deciding.                                                               *)

(* getOpenAccessRequestsOnRegistry: stored, and neither granted nor denied. *)
OpenAtOwner(n) == n \in materialized /\ decided[n].grant + decided[n].deny = 0

Screen(n) ==
  /\ screens[n] < MaxScreens
  /\ screens' = [screens EXCEPT ![n] = @ + 1]
  /\ crossed' = crossed \cup (IF screens[n] > 0 THEN {n} ELSE {})
  /\ UNCHANGED <<registered, requester, forward, copy, materialized, decided, approval,
                 stored, trouble, resent>>

(* Mutated: all the requests in the registry are listed.                    *)
ListAll(n) == n \in materialized /\ Screen(n)

(* Mutated: those that have been received only are listed.                 *)
ListReceived(n) ==
  copy[n] # Nobody /\ decided[n].grant + decided[n].deny = 0 /\ Screen(n)

(* Somebody picks one of the requests listed as open.                      *)
ListOpen(n) == OpenAtOwner(n) /\ Screen(n)

Granting(k, r, T) ==
  /\ approval[k].pc = "none"
  /\ \A j \in Approval : j < k => approval[j].pc # "none"
  /\ approval' = [approval EXCEPT ![k].pc = "recorded", ![k].request = r, ![k].trees = T]

(* recordAuthorization for a request: AuthorizationGranted or               *)
(* AuthorizationDenied with satisfiesAccessRequest, whatever has been       *)
(* decided since the page was opened.                                      *)
Decide(n) ==
  /\ screens[n] > 0
  /\ screens' = [screens EXCEPT ![n] = @ - 1]
  /\ UNCHANGED <<registered, requester, forward, copy, materialized, crossed, stored,
                 trouble, resent>>

Grant(n, k, T) ==
  /\ Decide(n)
  /\ T \subseteq Needs(copy[n])
  /\ Granting(k, copy[n], T)
  /\ decided' = [decided EXCEPT ![n].grant = @ + 1]

Deny(n) ==
  /\ Decide(n)
  /\ decided' = [decided EXCEPT ![n].deny = @ + 1]
  /\ UNCHANGED approval

(* ... or without a request.                                               *)
GrantUnasked(k, t) ==
  /\ Granting(k, Nobody, {t})
  /\ UNCHANGED <<registered, requester, forward, owner, stored, trouble, resent>>

-----------------------------------------------------------------------------
(* Its way to the requester.                                               *)
Pass(k, from, to) ==
  /\ approval[k].pc = from
  /\ approval' = [approval EXCEPT ![k].pc = to]

(* processAuthorizationGranted is started, and stores grants, new ones each *)
(* time; without an authorization there is no grantee to work for.         *)
StoreGrants(k) ==
  /\ Pass(k, "recorded", IF approval[k].trees = {} THEN "over" ELSE "update")
  /\ stored' = stored \cup approval[k].trees
  /\ UNCHANGED <<registered, requester, forward, owner, trouble, resent>>

(* Then it links them to the registration, which the requester watches.     *)
UpdateRegistration(k) ==
  /\ Pass(k, "update", "notified")
  /\ UNCHANGED <<registered, requester, forward, owner, stored, trouble, resent>>

(* ReciprocalWebhookHandler hears of it and records DelegatedGrantsUpdated; *)
(* updateDelegatedGrants starts the detector when it is done.              *)
StartDetector(k) ==
  /\ Pass(k, "notified", "open")
  /\ UNCHANGED <<registered, requester, forward, owner, stored, trouble, resent>>

-----------------------------------------------------------------------------
(* The requester resolves what is open.                                    *)

(* getOpenSentAccessRequests: sent, and neither granted nor archived.       *)
Open == {r \in Request : sent[r] # "none" /\ granted[r] + archived[r] = 0}

(* Requests somebody has found open and may yet resolve.                    *)
Claimed == archiving \cup UNION {approval[k].found : k \in Approval}

(* detectGrantedRequests reads the open requests ...                       *)
ReadOpen(k) ==
  /\ approval[k].pc = "open"
  /\ approval' = [approval EXCEPT ![k].pc = IF Open = {} THEN "over" ELSE "grants",
                                  ![k].found = Open]
  /\ raced' = raced \cup (Open \cap Claimed)
  /\ UNCHANGED <<registered, sent, granted, archived, archiving, forward, owner, stored,
                 trouble, resent>>

Match(k, todo) ==
  /\ approval[k].pc = "grants"
  /\ approval' = [approval EXCEPT ![k].pc = "write", ![k].found = todo]
  /\ UNCHANGED <<registered, requester, forward, owner, stored, trouble, resent>>

(* Mutated: all that is asked for must be granted.                          *)
MatchAll(k) == Match(k, {r \in approval[k].found : Needs(r) \subseteq stored})

(* ... then the grants, and matches them (matchGrantedRequests): a grant    *)
(* for any of its shape trees makes a request granted ...                  *)
ReadGrants(k) == Match(k, {r \in approval[k].found : Needs(r) \cap stored # {}})

(* ... and records an AccessRequestGranted for one after the other.         *)
RecordGranted(k, r) ==
  /\ approval[k].pc = "write" /\ r \in approval[k].found
  /\ granted' = [granted EXCEPT ![r] = @ + 1]
  /\ approval' = [approval EXCEPT ![k].found = @ \ {r}]
  /\ UNCHANGED <<registered, sent, archived, archiving, raced, forward, owner, stored,
                 trouble, resent>>

EndDetector(k) ==
  /\ approval[k].found = {}
  /\ Pass(k, "write", "over")
  /\ UNCHANGED <<registered, requester, forward, owner, stored, trouble, resent>>

Detecting(k) == approval[k].pc \in {"open", "grants", "write"}

(* It fails, or dies before its last result is known, and starts from the   *)
(* beginning: the activity is retried without limit.                       *)
DetectorFails(k) ==
  /\ Detecting(k)
  /\ Trouble
  /\ approval' = [approval EXCEPT ![k].pc = "open", ![k].found = {}]
  /\ UNCHANGED <<registered, requester, forward, owner, stored, resent>>

(* archiveAccessRequest looks whether the request is open ...              *)
FindOpen(r) ==
  /\ r \in Open /\ archiving = {}
  /\ archiving' = {r}
  /\ raced' = raced \cup ({r} \cap Claimed)
  /\ UNCHANGED <<registered, sent, granted, archived, forward, owner, approval, stored,
                 trouble, resent>>

(* ... and records that it is archived.                                     *)
Archive(r) ==
  /\ r \in archiving
  /\ archived' = [archived EXCEPT ![r] = @ + 1]
  /\ archiving' = archiving \ {r}
  /\ UNCHANGED <<registered, sent, granted, raced, forward, owner, approval, stored,
                 trouble, resent>>

-----------------------------------------------------------------------------
Init ==
  /\ registered = FALSE
  /\ sent = [r \in Request |-> "none"]
  /\ forward = [f \in Request \X Runner |-> "idle"]
  /\ copy = [n \in Copy |-> Nobody]
  /\ materialized = {}
  /\ decided = [n \in Copy |-> [grant |-> 0, deny |-> 0]]
  /\ screens = [n \in Copy |-> 0]
  /\ approval = [k \in Approval |-> [pc |-> "none", request |-> Nobody, trees |-> {},
                                     found |-> {}]]
  /\ stored = {}
  /\ granted = [r \in Request |-> 0] /\ archived = [r \in Request |-> 0]
  /\ archiving = {}
  /\ trouble = 0
  /\ resent = {} /\ raced = {} /\ crossed = {}

Sending == \E r \in Request, w \in Runner : Forward(r, w)

Passing == \E k \in Approval :
             \/ UpdateRegistration(k) \/ ReadOpen(k) \/ ReadGrants(k) \/ EndDetector(k)
             \/ \E r \in Request : RecordGranted(k, r)

Next ==
  \/ Register \/ Sending \/ Passing
  \/ \E r \in Request : \/ Send(r) \/ FindOpen(r) \/ Archive(r)
                         \/ \E w \in Runner : StartForward(r, w)
  \/ \E n \in Copy : \/ Materialize(n) \/ ListOpen(n) \/ Deny(n)
                      \/ \E k \in Approval, T \in SUBSET Tree : Grant(n, k, T)
  \/ \E k \in Approval : \/ \E t \in Unasked : GrantUnasked(k, t)
                         \/ StoreGrants(k) \/ StartDetector(k) \/ DetectorFails(k)

Spec == Init /\ [][Next]_vars

(* Workflows that have been started go on; nothing is promised of people or *)
(* of the delivery of notifications, with which StoreGrants, StartDetector *)
(* and Materialize begin.                                                  *)
FairSpec == Spec /\ WF_vars(Sending) /\ WF_vars(Passing)

-----------------------------------------------------------------------------
(* A request reaches the owner's list once, unless an answer was lost or    *)
(* its workflow run again, and it is done only when it is there.           *)
ReceivedOnce ==
  \A r \in Request :
    LET copies == {n \in Copy : copy[n] = r}
    IN /\ r \notin resent => Cardinality(copies) <= 1
       /\ sent[r] = "done" => copies # {}

(* A request is closed once on either side.  At the owner it is decided     *)
(* once, unless two persons had it before them at once: nothing is checked *)
(* when the decision is recorded.  At the requester it is resolved once,   *)
(* however often the detector runs or fails, unless two found it open at   *)
(* the same time.                                                          *)
ClosedOnce ==
  /\ \A n \in Copy \ crossed : decided[n].grant + decided[n].deny <= 1
  /\ \A r \in Request \ raced : granted[r] + archived[r] <= 1

(* A request is shown as granted only if the owner granted something it     *)
(* asked for, for this request or otherwise; and when the news of a grant   *)
(* has come all the way, the request it grants has been resolved at the     *)
(* requester too, even if only a part was granted (matchGrantedRequests     *)
(* compares owners and shape trees, not requests).                          *)
NewsResolves ==
  /\ \A r \in Request : granted[r] > 0 =>
       \E k \in Approval : approval[k].pc # "none" /\ approval[k].trees \cap Needs(r) # {}
  /\ \A k \in Approval :
       LET r == approval[k].request
       IN approval[k].pc = "over" /\ r # Nobody /\ approval[k].trees # {}
          => granted[r] + archived[r] > 0

Busy == \/ registered /\ \E f \in Request \X Runner : forward[f] = "post"
        \/ \E k \in Approval : approval[k].pc \in {"update", "open", "grants", "write"}

(* Every workflow that has been started completes once the requester is     *)
(* registered, and none runs for good.                                     *)
RunsEnd == <>[] ~ Busy
=============================================================================
