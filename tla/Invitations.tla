---------------------------- MODULE Invitations ----------------------------
(***************************************************************************)
(* How two agents come to know each other.  A workflow of the inviter      *)
(* stores an invitation with a secret link; whoever gets the link accepts  *)
(* it with an activity of their own.  The acceptor's workflow posts to the *)
(* link, registers the inviter, looks for the inviter's registration of it *)
(* and subscribes to that; the post makes the inviter record an activity   *)
(* whose workflow does the same on its side.  Each side polls for what the *)
(* other writes, a bounded number of times.                                *)
(*                                                                         *)
(* One inviter, one acceptor, one invitation, which the acceptor (an       *)
(* organization with several admins, say) may accept more than once.       *)
(* Labels, notes and accounts are left out.                                *)
(***************************************************************************)
EXTENDS Naturals, FiniteSets

CONSTANTS MaxAccepts,  \* bound: activities in which the acceptor accepts
          MaxIds,      \* bound: registrations either side mints
          MaxLinks,    \* bound: links minted for the invitation
          MaxAttempts, \* attempts the retry policy allows an activity
          MaxTrouble   \* bound: crashes, lost results, sweeps and second accepts

ASSUME BoundAssumption ==
  /\ MaxAccepts \in Nat /\ MaxIds \in Nat \ {0} /\ MaxLinks \in Nat \ {0}
  /\ MaxAttempts \in Nat \ {0} /\ MaxTrouble \in Nat

Id == 1 .. MaxIds
Side == {"inviter", "acceptor"}
Creation == {"webhook", "sweep"}   \* who may run the InvitationCreated activity

(* The acceptor's workflow for each accept, and the inviter's for each id   *)
(* it has announced a registration under.                                  *)
Accept == {"acceptor"} \X (1 .. MaxAccepts)
Establish == {"inviter"} \X Id
Leg == Accept \cup Establish

VARIABLES invitation,  \* its link (0: not stored) and whether it names who accepted
          links,       \* links minted so far
          create,      \* run that stores the invitation -> where it is
          reg,         \* side -> id -> how much of the registration is there
          minted,      \* side -> ids minted so far
          reciprocal,  \* side -> id -> reciprocalRegistration
          channels,    \* side -> channels it has stored
          leg,         \* accept, or establishReciprocal -> its progress
          trouble,     \* crashes, sweeps and second accepts (bounded by MaxTrouble)
          raced,       \* history: a creation overlapped another, or misread
          repeated,    \* history: a post came before the last had its registration
          together,    \* history: two accepts were under way
          torn,        \* history: side -> a registration lost its creator half-way
          forgotten    \* history: side -> channels opened and never stored

vars == <<invitation, links, create, reg, minted, reciprocal, channels, leg,
          trouble, raced, repeated, together, torn, forgotten>>

(* The activities of the two workflows, and the steps of each.              *)
Steps == [invitationAcceptance   |-> {"post", "record", "answer", "own", "body", "acr"},
          reciprocalRegistration |-> {"load", "shell", "body", "acr", "discover"},
          reciprocalWebhook      |-> {"find", "subscribe", "store"},
          none                   |-> {"unrecorded", "recorded", "done", "failed"}]

First == [invitationAcceptance |-> "post", reciprocalRegistration |-> "load",
          reciprocalWebhook |-> "find", none |-> "done"]

Following == [invitationAcceptance |-> "reciprocalRegistration",
              reciprocalRegistration |-> "reciprocalWebhook",
              reciprocalWebhook |-> "none"]

LegState ==
  [activity : DOMAIN Steps,
   pc    : UNION {Steps[a] : a \in DOMAIN Steps},
   link  : 0 .. MaxLinks,        \* the link an accept has been given
   reg   : 0 .. MaxIds,          \* the registration on its own side
   tries : 0 .. MaxAttempts - 1]

(* Every variable has its type, a leg is at a step of its activity, and     *)
(* what is there of a registration was minted.                             *)
TypeOK ==
  /\ invitation \in [link : 0 .. MaxLinks, accepted : BOOLEAN]
  /\ links \in 0 .. MaxLinks
  /\ create \in [Creation -> {"idle", "look", "put", "mark", "done"}]
  /\ reg \in [Side -> [Id -> {"none", "shell", "bare", "full"}]]
  /\ minted \in [Side -> 0 .. MaxIds]
  /\ reciprocal \in [Side -> [Id -> SUBSET Id]]
  /\ channels \in [Side -> Nat]
  /\ leg \in [Leg -> LegState]
  /\ \A l \in Leg : leg[l].pc \in Steps[leg[l].activity]
  /\ \A s \in Side, i \in Id : reg[s][i] # "none" => i <= minted[s]
  /\ trouble \in 0 .. MaxTrouble
  /\ raced \in BOOLEAN /\ repeated \in BOOLEAN /\ together \in BOOLEAN
  /\ torn \in [Side -> BOOLEAN]
  /\ forgotten \in [Side -> Nat]

SideOf(l) == l[1]
Peer(s) == IF s = "inviter" THEN "acceptor" ELSE "inviter"
Own(l) == reg[SideOf(l)][leg[l].reg]

(* A registration is found once its body says whom it registers.           *)
Found(s) == {i \in Id : reg[s][i] \in {"bare", "full"}}

Started(l) == leg[l].pc \notin Steps.none
Trouble == trouble < MaxTrouble /\ trouble' = trouble + 1

inviting == <<invitation, links, create, raced>>
losses == <<torn, forgotten>>
registering == <<reg, minted, losses>>
connecting == <<reciprocal, channels>>
accepting == <<repeated, together>>

At(l, pc) == leg[l].pc = pc
Goto(l, pc) == leg' = [leg EXCEPT ![l].pc = pc]

Begin(l, activity) ==
  leg' = [leg EXCEPT ![l].activity = activity, ![l].pc = First[activity], ![l].tries = 0]

(* Mutated: one attempt too many, and without end.                          *)
RetryOnceMore(l) ==
  leg' = IF leg[l].tries < MaxAttempts
         THEN [leg EXCEPT ![l].pc = First[leg[l].activity], ![l].tries = @ + 1]
         ELSE [leg EXCEPT ![l].activity = "none", ![l].pc = "failed", ![l].tries = 0]

RetryForever(l) == Begin(l, leg[l].activity)

(* An attempt that fails is made again, from the first step, or was the     *)
(* last.                                                                   *)
NextAttempt(l) ==
  leg' = IF leg[l].tries + 1 < MaxAttempts
         THEN [leg EXCEPT ![l].pc = First[leg[l].activity], ![l].tries = @ + 1]
         ELSE [leg EXCEPT ![l].activity = "none", ![l].pc = "failed", ![l].tries = 0]

(* The activity has its result and the workflow goes on; after the last it  *)
(* marks what started it done.                                             *)
Return(l) == Begin(l, Following[leg[l].activity])

(* The last step of an activity, whose result may be lost.                  *)
ReturnOrLose(l) == \/ Return(l) /\ UNCHANGED trouble
                   \/ NextAttempt(l) /\ Trouble

-----------------------------------------------------------------------------
(* The InvitationCreated activity is pending until a run marks it done; the *)
(* sweep may take it up while the run of the webhook is under way.         *)
StartCreation(c) ==
  /\ create[c] = "idle"
  /\ create["webhook"] # "done" /\ create["sweep"] # "done"
  /\ create' = [create EXCEPT ![c] = "look"]
  /\ raced' = (raced \/ \E o \in Creation \ {c} : create[o] # "idle")
  /\ IF c = "sweep" THEN Trouble ELSE UNCHANGED trouble
  /\ UNCHANGED <<invitation, links, registering, connecting, leg, accepting>>

(* createSocialAgentInvitation looks for the invitation; a failed read is   *)
(* taken for its absence ...                                               *)
LookInvitation(c) ==
  /\ create[c] = "look"
  /\ \/ /\ create' = [create EXCEPT ![c] = IF invitation.link = 0 THEN "put" ELSE "mark"]
        /\ UNCHANGED <<trouble, raced>>
     \/ /\ invitation.link # 0
        /\ create' = [create EXCEPT ![c] = "put"]
        /\ raced' = TRUE
        /\ UNCHANGED trouble
  /\ UNCHANGED <<invitation, links, registering, connecting, leg, accepting>>

(* Mutated: no look at what is there.                                       *)
PutAlways(c) ==
  /\ create[c] \in {"look", "put"}
  /\ links < MaxLinks
  /\ links' = links + 1
  /\ invitation' = [link |-> links + 1, accepted |-> FALSE]
  /\ \/ create' = [create EXCEPT ![c] = "mark"] /\ UNCHANGED trouble
     \/ create' = [create EXCEPT ![c] = "look"] /\ Trouble
  /\ UNCHANGED <<raced, registering, connecting, leg, accepting>>

(* ... and stores it with a new link; the result may be lost.              *)
PutInvitation(c) ==
  /\ create[c] = "put"
  /\ links < MaxLinks
  /\ links' = links + 1
  /\ invitation' = [link |-> links + 1, accepted |-> FALSE]
  /\ \/ create' = [create EXCEPT ![c] = "mark"] /\ UNCHANGED trouble
     \/ create' = [create EXCEPT ![c] = "look"] /\ Trouble
  /\ UNCHANGED <<raced, registering, connecting, leg, accepting>>

MarkCreated(c) ==
  /\ create[c] = "mark"
  /\ create' = [create EXCEPT ![c] = "done"]
  /\ UNCHANGED <<invitation, links, raced, registering, connecting, leg, accepting, trouble>>

-----------------------------------------------------------------------------
(* Somebody acts for the acceptor with the link the inviter sees.          *)
RecordAccept(a) ==
  /\ At(a, "unrecorded")
  /\ \A b \in Accept : b[2] < a[2] => ~ At(b, "unrecorded")
  /\ invitation.link # 0
  /\ leg' = [leg EXCEPT ![a].pc = "recorded", ![a].link = invitation.link]
  /\ IF a[2] > 1 THEN Trouble ELSE UNCHANGED trouble
  /\ UNCHANGED <<inviting, registering, connecting, accepting>>

(* The webhook starts acceptInvitation, or establishReciprocal; no sweep    *)
(* would.                                                                  *)
Deliver(l) ==
  /\ At(l, "recorded")
  /\ Begin(l, IF l \in Accept THEN "invitationAcceptance" ELSE "reciprocalRegistration")
  /\ together' = (together \/ (l \in Accept /\ \E b \in Accept : Started(b)))
  /\ UNCHANGED <<inviting, registering, connecting, repeated, trouble>>

(* Two posts at once, or one before what the last announced is there.       *)
Repeated == \/ \E b \in Accept : At(b, "record")
            \/ \E i \in 1 .. minted["inviter"] : i \notin Found("inviter")

(* Mutated: no look at the registrations there are.                         *)
PostAlways(a) ==
  /\ At(a, "post")
  /\ invitation.link = leg[a].link
  /\ Goto(a, "record")
  /\ repeated' = (repeated \/ Repeated)
  /\ UNCHANGED <<inviting, registering, connecting, together, trouble>>

(* The post reaches the inviter, who looks for an invitation with that link *)
(* and for its registration of the acceptor ...                            *)
Post(a) ==
  /\ At(a, "post")
  /\ \/ /\ invitation.link = leg[a].link
        /\ Goto(a, IF Found("inviter") = {} THEN "record" ELSE "answer")
        /\ repeated' = (repeated \/ Repeated)
     \/ invitation.link # leg[a].link /\ NextAttempt(a) /\ UNCHANGED repeated
  /\ UNCHANGED <<inviting, registering, connecting, together, trouble>>

(* ... records that there will be one, under a new id ...                  *)
RecordAdded(a) ==
  LET i == minted["inviter"] + 1
  IN /\ At(a, "record")
     /\ i \in Id
     /\ minted' = [minted EXCEPT !["inviter"] = i]
     /\ leg' = [leg EXCEPT ![a].pc = "answer",
                            ![<<"inviter", i>>].pc = "recorded", ![<<"inviter", i>>].reg = i]
     /\ UNCHANGED <<inviting, reg, losses, connecting, accepting, trouble>>

(* ... and writes the invitation back as it was read, with the name of who *)
(* has accepted, before it answers.                                        *)
SetRegisteredAgent(a) ==
  /\ At(a, "answer")
  /\ invitation' = [link |-> leg[a].link, accepted |-> TRUE]
  /\ Goto(a, "own")
  /\ UNCHANGED <<links, create, raced, registering, connecting, accepting, trouble>>

-----------------------------------------------------------------------------
(* Back at the acceptor: its registration of the inviter, if there is one,  *)
(* or else the container of a new one.                                     *)
AddRegistration(a) ==
  LET i == minted["acceptor"] + 1
  IN /\ At(a, "own")
     /\ \/ /\ \E o \in Found("acceptor") :
                leg' = [leg EXCEPT ![a].reg = o, ![a].activity = "reciprocalRegistration",
                                   ![a].pc = "load", ![a].tries = 0]
           /\ UNCHANGED <<minted, reg>>
        \/ /\ Found("acceptor") = {}
           /\ i \in Id
           /\ minted' = [minted EXCEPT !["acceptor"] = i]
           /\ reg' = [reg EXCEPT !["acceptor"][i] = "shell"]
           /\ leg' = [leg EXCEPT ![a].reg = i, ![a].pc = "body"]
     /\ UNCHANGED <<inviting, losses, connecting, accepting, trouble>>

(* reciprocalRegistration loads the registration; one that says nothing is  *)
(* an error, and a failed read is taken for its absence.                   *)
LoadRegistration(l) ==
  /\ At(l, "load")
  /\ \/ Own(l) = "none" /\ Goto(l, "shell") /\ UNCHANGED trouble
     \/ Own(l) # "none" /\ Goto(l, "shell") /\ Trouble
     \/ Own(l) = "shell" /\ NextAttempt(l) /\ UNCHANGED trouble
     \/ /\ Own(l) \in {"bare", "full"}
        /\ IF reciprocal[SideOf(l)][leg[l].reg] = {} THEN Goto(l, "discover") ELSE Return(l)
        /\ UNCHANGED trouble
  /\ UNCHANGED <<inviting, registering, connecting, accepting>>

(* The container of one that is to have this id, which the server refuses   *)
(* to make again ...                                                       *)
CreateAtId(l) ==
  /\ At(l, "shell")
  /\ \/ /\ Own(l) = "none"
        /\ reg' = [reg EXCEPT ![SideOf(l)][leg[l].reg] = "shell"]
        /\ Goto(l, "body")
     \/ Own(l) # "none" /\ NextAttempt(l) /\ UNCHANGED reg
  /\ UNCHANGED <<inviting, minted, losses, connecting, accepting, trouble>>

(* ... what it says, second (createContainer) ...                          *)
WriteBody(l) ==
  /\ At(l, "body")
  /\ reg' = [reg EXCEPT ![SideOf(l)][leg[l].reg] = IF @ = "shell" THEN "bare" ELSE @]
  /\ Goto(l, "acr")
  /\ UNCHANGED <<inviting, minted, losses, connecting, accepting, trouble>>

AfterAcr(l) == IF leg[l].activity = "invitationAcceptance" THEN ReturnOrLose(l)
               ELSE Goto(l, "discover") /\ UNCHANGED trouble

(* Mutated: the access control is left as the container's.                  *)
SkipAcr(l) ==
  /\ At(l, "acr")
  /\ AfterAcr(l)
  /\ UNCHANGED <<inviting, registering, connecting, accepting>>

(* ... and setAcr, without which the peer cannot read it.                  *)
SetAcr(l) ==
  /\ At(l, "acr")
  /\ reg' = [reg EXCEPT ![SideOf(l)][leg[l].reg] = "full"]
  /\ AfterAcr(l)
  /\ UNCHANGED <<inviting, minted, losses, connecting, accepting>>

(* Mutated: nothing to do when the peer has none yet.                       *)
DiscoverOnce(l) ==
  LET s == SideOf(l)
  IN /\ At(l, "discover")
     /\ \/ /\ \E i \in Found(Peer(s)) :
                reciprocal' = [reciprocal EXCEPT ![s][leg[l].reg] = @ \cup {i}]
           /\ ReturnOrLose(l)
        \/ /\ Found(Peer(s)) = {}
           /\ Begin(l, "none")
           /\ UNCHANGED <<reciprocal, trouble>>
     /\ UNCHANGED <<inviting, registering, channels, accepting>>

(* The peer's agent names the registration it has, if it has one by now,    *)
(* and the link to it is added.                                            *)
DiscoverReciprocal(l) ==
  LET s == SideOf(l)
  IN /\ At(l, "discover")
     /\ \/ /\ \E i \in Found(Peer(s)) :
                reciprocal' = [reciprocal EXCEPT ![s][leg[l].reg] = @ \cup {i}]
           /\ ReturnOrLose(l)
        \/ Found(Peer(s)) = {} /\ NextAttempt(l) /\ UNCHANGED <<reciprocal, trouble>>
     /\ UNCHANGED <<inviting, registering, channels, accepting>>

(* reciprocalWebhook looks for a channel of the pair ...                   *)
FindChannel(l) ==
  /\ At(l, "find")
  /\ IF channels[SideOf(l)] = 0 THEN Goto(l, "subscribe") ELSE Return(l)
  /\ UNCHANGED <<inviting, registering, connecting, accepting, trouble>>

(* ... subscribes to the peer's registration, if it may read it ...         *)
Subscribe(l) ==
  /\ At(l, "subscribe")
  /\ \E i \in reciprocal[SideOf(l)][leg[l].reg] :
       IF reg[Peer(SideOf(l))][i] = "full" THEN Goto(l, "store") ELSE NextAttempt(l)
  /\ UNCHANGED <<inviting, registering, connecting, accepting, trouble>>

(* ... and stores the channel it has been given.                            *)
StoreChannel(l) ==
  /\ At(l, "store")
  /\ channels' = [channels EXCEPT ![SideOf(l)] = @ + 1]
  /\ ReturnOrLose(l)
  /\ UNCHANGED <<inviting, registering, reciprocal, accepting>>

(* A worker dies or a request fails, at any step.                          *)
Crash(l) ==
  /\ Started(l)
  /\ Trouble
  /\ NextAttempt(l)
  /\ torn' = [torn EXCEPT ![SideOf(l)] = @ \/ At(l, "acr")]
  /\ forgotten' = [forgotten EXCEPT ![SideOf(l)] = IF At(l, "store") THEN @ + 1 ELSE @]
  /\ UNCHANGED <<inviting, reg, minted, connecting, accepting>>

-----------------------------------------------------------------------------
Blank == [activity |-> "none", pc |-> "unrecorded", link |-> 0, reg |-> 0, tries |-> 0]

Init ==
  /\ invitation = [link |-> 0, accepted |-> FALSE]
  /\ links = 0
  /\ create = [c \in Creation |-> "idle"]
  /\ reg = [s \in Side |-> [i \in Id |-> "none"]]
  /\ minted = [s \in Side |-> 0]
  /\ reciprocal = [s \in Side |-> [i \in Id |-> {}]]
  /\ channels = [s \in Side |-> 0]
  /\ leg = [l \in Leg |-> Blank]
  /\ trouble = 0
  /\ raced = FALSE /\ repeated = FALSE /\ together = FALSE
  /\ torn = [s \in Side |-> FALSE]
  /\ forgotten = [s \in Side |-> 0]

CreationStep(c) == LookInvitation(c) \/ PutInvitation(c) \/ MarkCreated(c)

AcceptStep(a) ==
  Post(a) \/ RecordAdded(a) \/ SetRegisteredAgent(a) \/ AddRegistration(a)

LegStep(l) ==
  \/ LoadRegistration(l) \/ CreateAtId(l) \/ WriteBody(l) \/ SetAcr(l)
  \/ DiscoverReciprocal(l) \/ FindChannel(l) \/ Subscribe(l) \/ StoreChannel(l)

Next ==
  \/ \E c \in Creation : StartCreation(c) \/ CreationStep(c)
  \/ \E a \in Accept : RecordAccept(a) \/ AcceptStep(a)
  \/ \E l \in Leg : Deliver(l) \/ LegStep(l) \/ Crash(l)

Spec == Init /\ [][Next]_vars

(* Temporal goes on with the workflows it has begun: with one of them, which *)
(* is enough; nothing is promised of people, of the delivery of a           *)
(* notification or of the sweep.                                           *)
FairSpec == Spec /\ WF_vars(\E l \in Leg : (l \in Accept /\ AcceptStep(l)) \/ LegStep(l))

-----------------------------------------------------------------------------
(* The answer to the post has been sent.                                   *)
Answered(a) == \/ leg[a].activity \in {"reciprocalRegistration", "reciprocalWebhook"}
               \/ leg[a].pc \in {"own", "body", "acr", "done"}

(* A link that has been handed out stays good, and an invitation that has   *)
(* been accepted stays accepted, whatever crashes: storing it again, or     *)
(* writing it back, brings nothing back.  Excepted are a run and a sweep    *)
(* that store it side by side, and a failed read of it.                    *)
InvitationKept ==
  ~ raced => \A a \in Accept : /\ leg[a].link \in {0, invitation.link}
                               /\ Answered(a) => invitation.accepted

(* The channels the peer has open for a side: those the side has stored, is *)
(* about to store, or has forgotten.                                        *)
Open(s) == channels[s] + forgotten[s]
           + Cardinality({l \in Leg : SideOf(l) = s /\ At(l, "store")})

(* However often attempts are repeated, either side ends up with one        *)
(* registration of the other and one channel: unless two accepts go on at   *)
(* once, or a post comes before what the last one announced is there.  Each *)
(* leg that dies between opening a channel and storing it leaves one more.  *)
RegisteredOnce ==
  /\ ~ together => /\ Cardinality(Found("acceptor")) <= 1
                   /\ Open("acceptor") <= 1 + forgotten["acceptor"]
  /\ ~ repeated => /\ Cardinality(Found("inviter")) <= 1
                   /\ Open("inviter") <= 1 + forgotten["inviter"]

Quiet == \A l \in Leg : leg[l].pc \in {"unrecorded", "done", "failed"}

(* No registration is left that the peer cannot read, unless who created it *)
(* died between the two writes: the next attempt finds it and leaves it so. *)
ReadableWhenQuiet ==
  Quiet => \A s \in Side : torn[s] \/ \A i \in Found(s) : reg[s][i] = "full"

(* When all is done, the two know each other: each side has a registration  *)
(* that links the other's, which links it back, and hears of its changes.   *)
(* With more registrations than one on a side the links may go crosswise.  *)
DoneMeansConnected ==
  /\ \A s \in Side : Cardinality(Found(s)) <= 1
  /\ Quiet /\ \A l \in Leg : ~ At(l, "failed")
  /\ \E a \in Accept : At(a, "done")
  => /\ \E i, o \in Id : /\ reg["inviter"][i] = "full" /\ reg["acceptor"][o] = "full"
                         /\ o \in reciprocal["inviter"][i] /\ i \in reciprocal["acceptor"][o]
     /\ \A s \in Side : channels[s] > 0

(* The two sides wait for each other, but not for ever: every workflow that *)
(* has been started completes or fails, and none runs for good.            *)
LegsEnd == <>[](\A l \in Leg : ~ Started(l))
=============================================================================
