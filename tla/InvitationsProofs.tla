------------------------- MODULE InvitationsProofs -------------------------
(***************************************************************************)
(* What the handshake promises, for any number of accepts, ids, links and  *)
(* attempts, and any trouble: the five invariants of Invitations.          *)
(*                                                                         *)
(* What is there only grows, except the invitation; so most of what a leg  *)
(* knows lasts (Informed) and has to be shown for the leg that moves only. *)
(* That something is done once does not last, and is shown side by side.   *)
(***************************************************************************)
EXTENDS Invitations, TLAPS, FiniteSetTheorems

(* The ids announced are those whose leg is recorded.                       *)
Announced ==
  \A i \in Id : leg[<<"inviter", i>>].pc = "unrecorded" <=> i > minted["inviter"]

HasReg(l) == \/ leg[l].activity \in {"reciprocalRegistration", "reciprocalWebhook"}
             \/ leg[l].pc \in {"body", "acr", "done"}
             \/ l \in Establish /\ leg[l].pc # "unrecorded"

HasFound(l) == \/ leg[l].activity = "reciprocalWebhook"
               \/ leg[l].activity = "reciprocalRegistration" /\ l \in Accept
               \/ leg[l].pc \in {"acr", "discover", "done"}

(* What a leg may rely on.                                                  *)
Informed(l) ==
  LET s == SideOf(l) IN
  /\ l \in Establish => /\ leg[l].activity # "invitationAcceptance"
                        /\ leg[l].pc # "unrecorded" => leg[l].reg = l[2]
  /\ HasReg(l) => leg[l].reg \in Id /\ leg[l].reg <= minted[s]
  /\ leg[l].pc = "body" => reg[s][leg[l].reg] # "none"
  /\ HasFound(l) => leg[l].reg \in Found(s)
  /\ leg[l].activity = "reciprocalWebhook" \/ leg[l].pc = "done" => reciprocal[s][leg[l].reg] # {}
  /\ leg[l].pc = "store" => \E i \in Id : reg[Peer(s)][i] = "full"
  /\ leg[l].pc = "done" => channels[s] > 0
  /\ l \in Accept /\ (Answered(l) \/ leg[l].pc = "answer") => minted["inviter"] > 0

(* Links and channels lead to what is there.                                *)
Connections ==
  \A s \in Side : /\ \A i \in Id : reciprocal[s][i] \subseteq Found(Peer(s))
                  /\ channels[s] > 0 => \E i \in Id : reg[Peer(s)][i] = "full"

(* A registration without access control has somebody about to give it one. *)
Attended ==
  \A s \in Side, i \in Id :
    reg[s][i] = "bare" /\ ~ torn[s] =>
      \E l \in Leg : SideOf(l) = s /\ leg[l].reg = i /\ leg[l].pc = "acr"

(* One run stores the invitation, and only while there is none; nobody has  *)
(* another link than the one it has.                                       *)
Kept ==
  ~ raced =>
    /\ \A c, d \in Creation : create[c] # "idle" /\ create[d] # "idle" => c = d
    /\ \A c \in Creation : create[c] = "put" => invitation.link = 0
    /\ \A a \in Accept : /\ leg[a].link \in {0, invitation.link}
                         /\ leg[a].pc # "unrecorded" => leg[a].link # 0
                         /\ Answered(a) => invitation.accepted

(* The acceptor's side, while one accept is under way at a time ...         *)
AcceptsOnce ==
  ~ together =>
    /\ \A a, b \in Accept : Started(a) /\ Started(b) => a = b
    /\ \A i, j \in Found("acceptor") : i = j
    /\ channels["acceptor"] <= 1
    /\ \A a \in Accept :
         /\ leg[a].activity = "invitationAcceptance" /\ leg[a].pc = "body"
              => Found("acceptor") = {}
         /\ leg[a].pc \in {"subscribe", "store"} => channels["acceptor"] = 0

(* ... and the inviter's, while no post comes too early.                    *)
InvitesOnce ==
  ~ repeated =>
    /\ minted["inviter"] <= 1
    /\ \A a, b \in Accept : At(a, "record") /\ At(b, "record") => a = b
    /\ \A a \in Accept : At(a, "record") => minted["inviter"] = 0
    /\ channels["inviter"] <= 1
    /\ \A l \in Establish : leg[l].pc \in {"subscribe", "store"} => channels["inviter"] = 0

IInv == /\ TypeOK
        /\ Announced
        /\ \A l \in Leg : Informed(l)
        /\ Connections
        /\ Attended
        /\ Kept
        /\ AcceptsOnce
        /\ InvitesOnce

-----------------------------------------------------------------------------
LEMMA Sides ==
  /\ \A l \in Accept : SideOf(l) = "acceptor" /\ l \notin Establish
  /\ \A i \in Id : <<"inviter", i>> \in Establish /\ SideOf(<<"inviter", i>>) = "inviter"
  /\ \A l \in Establish : l[2] \in Id /\ l = <<"inviter", l[2]>> /\ SideOf(l) = "inviter"
  /\ \A l \in Leg : SideOf(l) \in Side
  /\ Peer("inviter") = "acceptor" /\ Peer("acceptor") = "inviter"
  /\ Id \subseteq Nat \ {0}
BY BoundAssumption DEF Accept, Establish, Leg, SideOf, Side, Peer, Id

LEMMA Activities ==
  /\ DOMAIN Steps = {"invitationAcceptance", "reciprocalRegistration", "reciprocalWebhook", "none"}
  /\ \A a \in DOMAIN Steps : First[a] \in Steps[a]
  /\ \A a \in DOMAIN Steps \ {"none"} : Following[a] \in DOMAIN Steps
  /\ \A a \in DOMAIN Steps : \A p \in Steps[a] : p \in UNION {Steps[b] : b \in DOMAIN Steps}
<1>1. DOMAIN Steps = {"invitationAcceptance", "reciprocalRegistration", "reciprocalWebhook", "none"}
  BY DEF Steps
<1>2. \A a \in DOMAIN Steps : First[a] \in Steps[a]
  BY DEF Steps, First
<1>3. \A a \in DOMAIN Steps \ {"none"} : Following[a] \in DOMAIN Steps
  BY DEF Steps, Following
<1>4. \A a \in DOMAIN Steps : \A p \in Steps[a] : p \in UNION {Steps[b] : b \in DOMAIN Steps}
  OBVIOUS
<1> QED BY <1>1, <1>2, <1>3, <1>4

(* The activity of a leg, from its step.                                    *)
LEMMA ActivityAt ==
  ASSUME TypeOK, NEW l \in Leg
  PROVE  /\ leg[l].activity \in DOMAIN Steps
         /\ leg[l].pc \in Steps[leg[l].activity]
         /\ leg[l].pc \in {"post", "record", "answer", "own"} => leg[l].activity = "invitationAcceptance"
         /\ leg[l].pc \in {"load", "shell", "discover"} => leg[l].activity = "reciprocalRegistration"
         /\ leg[l].pc \in {"find", "subscribe", "store"} => leg[l].activity = "reciprocalWebhook"
         /\ leg[l].pc \in {"body", "acr"} =>
              leg[l].activity \in {"invitationAcceptance", "reciprocalRegistration"}
         /\ Started(l) <=> leg[l].activity # "none"
<1>1. leg[l].activity \in DOMAIN Steps /\ leg[l].pc \in Steps[leg[l].activity]
  BY DEF TypeOK, LegState
<1> QED BY <1>1 DEF Steps, Started

(* A leg that is at a step of its activity, and the others as they were.    *)
Moves(l, a, p, k, i) ==
  /\ leg' \in [Leg -> LegState]
  /\ \A m \in Leg : leg'[m].pc \in Steps[leg'[m].activity]
  /\ leg'[l].activity = a /\ leg'[l].pc = p /\ leg'[l].link = k /\ leg'[l].reg = i
  /\ \A m \in Leg : m # l => leg'[m] = leg[m]

Stays(l, a, p) == Moves(l, a, p, leg[l].link, leg[l].reg)

LEMMA NewLeg ==
  ASSUME TypeOK, NEW l \in Leg, NEW new \in LegState, new.pc \in Steps[new.activity],
         leg' = [leg EXCEPT ![l] = new]
  PROVE  Moves(l, new.activity, new.pc, new.link, new.reg)
BY DEF Moves, TypeOK

LEMMA Fields ==
  ASSUME TypeOK, NEW l \in Leg
  PROVE  /\ leg[l].link \in 0 .. MaxLinks /\ leg[l].reg \in 0 .. MaxIds
         /\ leg[l].tries \in 0 .. MaxAttempts - 1
         /\ 0 \in 0 .. MaxAttempts - 1
<1>1. leg[l] \in LegState
  BY DEF TypeOK
<1> QED BY <1>1, BoundAssumption DEF LegState

LEMMA GotoMoves ==
  ASSUME TypeOK, NEW l \in Leg, NEW p \in Steps[leg[l].activity], Goto(l, p)
  PROVE  Stays(l, leg[l].activity, p)
<1> DEFINE new == [leg[l] EXCEPT !.pc = p]
<1>1. leg[l] \in LegState /\ p \in UNION {Steps[b] : b \in DOMAIN Steps}
  BY ActivityAt DEF TypeOK
<1>2. new \in LegState /\ new.activity = leg[l].activity /\ new.pc = p
      /\ new.link = leg[l].link /\ new.reg = leg[l].reg
  BY <1>1 DEF LegState
<1>3. leg' = [leg EXCEPT ![l] = new]
  BY DEF Goto
<1> HIDE DEF new
<1> QED BY <1>2, <1>3, NewLeg DEF Stays

LEMMA BeginMoves ==
  ASSUME TypeOK, NEW l \in Leg, NEW a \in DOMAIN Steps, Begin(l, a)
  PROVE  Stays(l, a, First[a])
<1> DEFINE new == [leg[l] EXCEPT !.activity = a, !.pc = First[a], !.tries = 0]
<1>1. new \in LegState /\ new.activity = a /\ new.pc = First[a]
      /\ new.link = leg[l].link /\ new.reg = leg[l].reg
  <2>1. leg[l] \in LegState /\ 0 \in 0 .. MaxAttempts - 1
    BY Fields DEF TypeOK
  <2>2. First[a] \in UNION {Steps[b] : b \in DOMAIN Steps}
    BY Activities
  <2> QED BY <2>1, <2>2 DEF LegState
<1>2. leg' = [leg EXCEPT ![l] = new]
  BY DEF Begin
<1>3. First[a] \in Steps[a]
  BY Activities
<1> HIDE DEF new
<1> QED BY <1>1, <1>2, <1>3, NewLeg DEF Stays

LEMMA AttemptMoves ==
  ASSUME TypeOK, NEW l \in Leg, NextAttempt(l)
  PROVE  \/ Stays(l, leg[l].activity, First[leg[l].activity])
         \/ Stays(l, "none", "failed")
<1>1. CASE leg[l].tries + 1 < MaxAttempts
  <2> DEFINE new == [leg[l] EXCEPT !.pc = First[leg[l].activity], !.tries = leg[l].tries + 1]
  <2>1. leg[l] \in LegState /\ leg[l].tries + 1 \in 0 .. MaxAttempts - 1
    BY <1>1, Fields, BoundAssumption DEF TypeOK
  <2>2. /\ First[leg[l].activity] \in Steps[leg[l].activity]
        /\ First[leg[l].activity] \in UNION {Steps[b] : b \in DOMAIN Steps}
    BY ActivityAt, Activities
  <2>3. new \in LegState /\ new.activity = leg[l].activity /\ new.pc = First[leg[l].activity]
        /\ new.link = leg[l].link /\ new.reg = leg[l].reg
    BY <2>1, <2>2 DEF LegState
  <2>4. leg' = [leg EXCEPT ![l] = new]
    BY <1>1 DEF NextAttempt
  <2> HIDE DEF new
  <2> QED BY <2>2, <2>3, <2>4, NewLeg DEF Stays
<1>2. CASE ~ (leg[l].tries + 1 < MaxAttempts)
  <2> DEFINE new == [leg[l] EXCEPT !.activity = "none", !.pc = "failed", !.tries = 0]
  <2>1. "none" \in DOMAIN Steps /\ "failed" \in Steps["none"]
    BY DEF Steps
  <2>2. new \in LegState /\ new.activity = "none" /\ new.pc = "failed"
        /\ new.link = leg[l].link /\ new.reg = leg[l].reg
    <3>1. leg[l] \in LegState /\ 0 \in 0 .. MaxAttempts - 1
      BY Fields DEF TypeOK
    <3>2. "failed" \in UNION {Steps[b] : b \in DOMAIN Steps}
      BY <2>1
    <3> QED BY <2>1, <3>1, <3>2 DEF LegState
  <2>3. leg' = [leg EXCEPT ![l] = new]
    BY <1>2 DEF NextAttempt
  <2> HIDE DEF new
  <2> QED BY <2>1, <2>2, <2>3, NewLeg DEF Stays
<1> QED BY <1>1, <1>2

LEMMA ReturnMoves ==
  ASSUME TypeOK, NEW l \in Leg, leg[l].activity # "none", Return(l)
  PROVE  Stays(l, Following[leg[l].activity], First[Following[leg[l].activity]])
BY ActivityAt, Activities, BeginMoves DEF Return

-----------------------------------------------------------------------------
LEMMA InitIInv == Init => IInv
<1> SUFFICES ASSUME Init PROVE IInv
  OBVIOUS
<1>1. /\ \A l \in Leg : leg[l] = Blank
      /\ \A s \in Side, i \in Id : reg[s][i] = "none" /\ reciprocal[s][i] = {}
      /\ \A s \in Side : minted[s] = 0 /\ channels[s] = 0
      /\ \A c \in Creation : create[c] = "idle"
  BY DEF Init
<1>2. Blank \in LegState /\ Blank.pc \in Steps[Blank.activity]
  BY BoundAssumption DEF Blank, LegState, Steps
<1>3. TypeOK
  <2>1. /\ invitation \in [link : 0 .. MaxLinks, accepted : BOOLEAN]
        /\ links \in 0 .. MaxLinks /\ trouble \in 0 .. MaxTrouble
        /\ create \in [Creation -> {"idle", "look", "put", "mark", "done"}]
        /\ minted \in [Side -> 0 .. MaxIds]
        /\ channels \in [Side -> Nat]
        /\ torn \in [Side -> BOOLEAN] /\ forgotten \in [Side -> Nat]
        /\ raced \in BOOLEAN /\ repeated \in BOOLEAN /\ together \in BOOLEAN
    <3>1. 0 \in 0 .. MaxLinks /\ 0 \in 0 .. MaxTrouble /\ 0 \in 0 .. MaxIds /\ 0 \in Nat
      BY BoundAssumption
    <3> QED BY <3>1 DEF Init
  <2>2. /\ reg \in [Side -> [Id -> {"none", "shell", "bare", "full"}]]
        /\ reciprocal \in [Side -> [Id -> SUBSET Id]]
    BY DEF Init
  <2>3. leg \in [Leg -> LegState]
    BY <1>2 DEF Init
  <2> QED BY <1>1, <1>2, <2>1, <2>2, <2>3 DEF TypeOK
<1>4. /\ Blank.activity = "none" /\ Blank.pc = "unrecorded" /\ Blank.link = 0
  BY DEF Blank
<1>5. Announced
  <2>1. \A i \in Id : i > 0 /\ <<"inviter", i>> \in Leg /\ "inviter" \in Side
    BY BoundAssumption DEF Id, Establish, Leg, Side
  <2> QED BY <1>1, <1>4, <2>1 DEF Announced
<1>6. \A l \in Leg : Informed(l)
  BY <1>1, <1>4 DEF Informed, HasReg, HasFound, Answered
<1>7. Connections /\ Attended
  BY <1>1 DEF Connections, Attended
<1>8. Kept
  BY <1>1, <1>4 DEF Init, Kept, Answered, Leg
<1>9. AcceptsOnce /\ InvitesOnce
  BY <1>1, <1>4 DEF AcceptsOnce, InvitesOnce, Started, Steps, Found, Leg, At, Side
<1> QED BY <1>3, <1>5, <1>6, <1>7, <1>8, <1>9 DEF IInv

-----------------------------------------------------------------------------
(* What is there, and only grows.                                           *)
Grows ==
  /\ \A s \in Side, i \in Id :
       /\ reg'[s][i] = "none" => reg[s][i] = "none"
       /\ reg[s][i] \in {"bare", "full"} => reg'[s][i] \in {"bare", "full"}
       /\ reg[s][i] = "full" => reg'[s][i] = "full"
       /\ reciprocal[s][i] \subseteq reciprocal'[s][i]
  /\ \A s \in Side : minted[s] <= minted'[s] /\ channels[s] <= channels'[s]

there == <<reg, minted, reciprocal, channels>>

LEMMA NoGrowth == ASSUME TypeOK, UNCHANGED there PROVE Grows
<1>1. \A s \in Side : minted[s] \in Nat /\ channels[s] \in Nat
  BY BoundAssumption DEF TypeOK
<1> QED BY <1>1 DEF Grows, there

LEMMA StepsOf ==
  /\ First["invitationAcceptance"] = "post" /\ First["reciprocalRegistration"] = "load"
  /\ First["reciprocalWebhook"] = "find" /\ First["none"] = "done"
  /\ Following["invitationAcceptance"] = "reciprocalRegistration"
  /\ Following["reciprocalRegistration"] = "reciprocalWebhook"
  /\ Following["reciprocalWebhook"] = "none"
BY DEF First, Following

(* What each step comes to: its new place, and what it changes beside.      *)
Again(l) == \/ Stays(l, leg[l].activity, First[leg[l].activity])
            \/ Stays(l, "none", "failed")

LEMMA DeliverStep ==
  ASSUME TypeOK, NEW l \in Leg, Deliver(l)
  PROVE  /\ leg[l].pc = "recorded" /\ leg[l].activity = "none"
         /\ \/ l \in Accept /\ Stays(l, "invitationAcceptance", "post")
            \/ l \notin Accept /\ Stays(l, "reciprocalRegistration", "load")
         /\ l \in Accept => together' = (together \/ \E b \in Accept : Started(b))
         /\ l \notin Accept => together' = together
         /\ UNCHANGED <<inviting, there, torn, forgotten, repeated, trouble>>
<1>1. leg[l].pc = "recorded" /\ leg[l].activity = "none"
  BY ActivityAt DEF Deliver, At, Steps, Started
<1>2. /\ {"invitationAcceptance", "reciprocalRegistration"} \subseteq DOMAIN Steps
      /\ First["invitationAcceptance"] = "post" /\ First["reciprocalRegistration"] = "load"
  BY Activities, StepsOf
<1>3. CASE l \in Accept
  <2>1. Begin(l, "invitationAcceptance")
    BY <1>3 DEF Deliver
  <2>2. Stays(l, "invitationAcceptance", "post")
    BY <2>1, <1>2, BeginMoves
  <2> QED BY <1>1, <1>3, <2>2 DEF Deliver, registering, losses, connecting, there, inviting
<1>4. CASE l \notin Accept
  <2>1. Begin(l, "reciprocalRegistration")
    BY <1>4 DEF Deliver
  <2>2. Stays(l, "reciprocalRegistration", "load")
    BY <2>1, <1>2, BeginMoves
  <2>3. together' = together
    BY <1>4 DEF Deliver, TypeOK
  <2> QED BY <1>1, <1>4, <2>2, <2>3 DEF Deliver, registering, losses, connecting, there, inviting
<1> QED BY <1>3, <1>4

LEMMA RecordAcceptStep ==
  ASSUME TypeOK, NEW a \in Accept, RecordAccept(a)
  PROVE  /\ leg[a].pc = "unrecorded" /\ leg[a].activity = "none" /\ invitation.link # 0
         /\ Moves(a, "none", "recorded", invitation.link, leg[a].reg)
         /\ trouble' \in 0 .. MaxTrouble
         /\ UNCHANGED <<inviting, there, torn, forgotten, repeated, together>>
<1>l. a \in Leg
  BY DEF Leg
<1>1. leg[a].pc = "unrecorded" /\ leg[a].activity = "none"
  BY <1>l, ActivityAt DEF RecordAccept, At, Steps, Started
<1> DEFINE new == [leg[a] EXCEPT !.pc = "recorded", !.link = invitation.link]
<1>2. leg[a] \in LegState /\ invitation.link \in 0 .. MaxLinks
  BY <1>l DEF TypeOK
<1>3. "recorded" \in UNION {Steps[b] : b \in DOMAIN Steps} /\ "recorded" \in Steps["none"]
  BY DEF Steps
<1>4. new \in LegState /\ new.activity = "none" /\ new.pc = "recorded"
      /\ new.link = invitation.link /\ new.reg = leg[a].reg
  BY <1>1, <1>2, <1>3 DEF LegState
<1>5. leg' = [leg EXCEPT ![a] = new]
  BY DEF RecordAccept
<1>6. trouble' \in 0 .. MaxTrouble
  BY BoundAssumption DEF RecordAccept, Trouble, TypeOK
<1> HIDE DEF new
<1>7. Moves(a, "none", "recorded", invitation.link, leg[a].reg)
  BY <1>l, <1>3, <1>4, <1>5, NewLeg
<1> QED BY <1>1, <1>6, <1>7 DEF RecordAccept, registering, losses, connecting, accepting, there

LEMMA PostStep ==
  ASSUME TypeOK, NEW a \in Accept, Post(a)
  PROVE  /\ leg[a].activity = "invitationAcceptance" /\ leg[a].pc = "post"
         /\ \/ /\ Stays(a, "invitationAcceptance", "record")
               /\ Found("inviter") = {} /\ repeated' = (repeated \/ Repeated)
            \/ /\ Stays(a, "invitationAcceptance", "answer")
               /\ Found("inviter") # {} /\ repeated' = (repeated \/ Repeated)
            \/ Again(a) /\ UNCHANGED repeated
         /\ UNCHANGED <<inviting, there, torn, forgotten, together, trouble>>
<1>l. a \in Leg
  BY DEF Leg
<1>1. leg[a].activity = "invitationAcceptance" /\ leg[a].pc = "post"
  BY <1>l, ActivityAt DEF Post, At
<1>2. {"record", "answer"} \subseteq Steps["invitationAcceptance"]
  BY DEF Steps
<1> QED BY <1>l, <1>1, <1>2, GotoMoves, AttemptMoves
        DEF Post, Again, registering, losses, connecting, there, inviting

LEMMA SetRegisteredAgentStep ==
  ASSUME TypeOK, NEW a \in Accept, SetRegisteredAgent(a)
  PROVE  /\ leg[a].activity = "invitationAcceptance" /\ leg[a].pc = "answer"
         /\ Stays(a, "invitationAcceptance", "own")
         /\ invitation' = [link |-> leg[a].link, accepted |-> TRUE]
         /\ leg[a].link \in 0 .. MaxLinks
         /\ UNCHANGED <<links, create, raced, there, torn, forgotten, repeated, together, trouble>>
<1>l. a \in Leg
  BY DEF Leg
<1>1. leg[a].activity = "invitationAcceptance" /\ leg[a].pc = "answer"
  BY <1>l, ActivityAt DEF SetRegisteredAgent, At
<1>2. "own" \in Steps["invitationAcceptance"]
  BY DEF Steps
<1> QED BY <1>l, <1>1, <1>2, Fields, GotoMoves
        DEF SetRegisteredAgent, registering, losses, connecting, accepting, there

LEMMA RecordAddedStep ==
  ASSUME IInv, NEW a \in Accept, RecordAdded(a)
  PROVE  LET i == minted["inviter"] + 1
             e == <<"inviter", i>>
         IN /\ i \in Id /\ e \in Leg /\ e # a
            /\ leg[a].activity = "invitationAcceptance" /\ leg[a].pc = "record"
            /\ leg[e].activity = "none" /\ leg[e].pc = "unrecorded"
            /\ leg' \in [Leg -> LegState]
            /\ \A m \in Leg : leg'[m].pc \in Steps[leg'[m].activity]
            /\ leg'[a].activity = "invitationAcceptance" /\ leg'[a].pc = "answer"
            /\ leg'[a].link = leg[a].link /\ leg'[a].reg = leg[a].reg
            /\ leg'[e].activity = "none" /\ leg'[e].pc = "recorded"
            /\ leg'[e].reg = i
            /\ \A m \in Leg : m # a /\ m # e => leg'[m] = leg[m]
            /\ minted' = [minted EXCEPT !["inviter"] = i]
            /\ UNCHANGED <<inviting, reg, reciprocal, channels, torn, forgotten, repeated, together, trouble>>
<1>t. TypeOK /\ Announced
  BY DEF IInv
<1> DEFINE i == minted["inviter"] + 1
           e == <<"inviter", i>>
<1>1. i \in Id
  BY DEF RecordAdded
<1>2. /\ minted["inviter"] \in Nat /\ i > minted["inviter"]
  <2>1. minted["inviter"] \in 0 .. MaxIds
    BY <1>t DEF TypeOK, Side
  <2> QED BY <2>1, BoundAssumption
<1>3. a \in Leg /\ e \in Leg /\ e # a
  BY <1>1, Sides DEF Leg
<1>4. leg[a].activity = "invitationAcceptance" /\ leg[a].pc = "record"
  BY <1>t, <1>3, ActivityAt DEF RecordAdded, At
<1>5. leg[e].pc = "unrecorded"
  BY <1>t, <1>1, <1>2 DEF Announced
<1>6. leg[e].activity = "none"
  BY <1>t, <1>3, <1>5, ActivityAt DEF Started, Steps
<1>7. leg' = [leg EXCEPT ![a].pc = "answer", ![e].pc = "recorded", ![e].reg = i]
  BY DEF RecordAdded
<1> HIDE DEF e, i
<1>8. i \in 0 .. MaxIds
  BY <1>1, BoundAssumption DEF Id
<1>9. /\ "recorded" \in UNION {Steps[b] : b \in DOMAIN Steps} /\ "recorded" \in Steps["none"]
      /\ "answer" \in UNION {Steps[b] : b \in DOMAIN Steps} /\ "answer" \in Steps["invitationAcceptance"]
  BY DEF Steps
<1>10. leg[a] \in LegState /\ leg[e] \in LegState /\ leg \in [Leg -> LegState]
  BY <1>t, <1>3 DEF TypeOK
<1> DEFINE na == [leg[a] EXCEPT !.pc = "answer"]
           ne == [leg[e] EXCEPT !.pc = "recorded", !.reg = i]
<1>11. na \in LegState /\ ne \in LegState
  BY <1>8, <1>9, <1>10 DEF LegState
<1>12. /\ na.activity = "invitationAcceptance" /\ na.pc = "answer"
       /\ na.link = leg[a].link /\ na.reg = leg[a].reg
       /\ ne.activity = "none" /\ ne.pc = "recorded" /\ ne.reg = i
  BY <1>4, <1>6, <1>10 DEF LegState
<1>13. leg'[a] = na /\ leg'[e] = ne /\ \A m \in Leg : m # a /\ m # e => leg'[m] = leg[m]
  BY <1>3, <1>7, <1>10
<1>14. leg' \in [Leg -> LegState]
  <2>1. leg' = [m \in Leg |-> IF m = e THEN ne ELSE IF m = a THEN na ELSE leg[m]]
    BY <1>3, <1>7, <1>10
  <2> HIDE DEF na, ne
  <2> QED BY <2>1, <1>10, <1>11
<1> HIDE DEF na, ne
<1>15. \A m \in Leg : leg'[m].pc \in Steps[leg'[m].activity]
  BY <1>t, <1>9, <1>12, <1>13 DEF TypeOK
<1>16. minted' = [minted EXCEPT !["inviter"] = i]
  BY DEF RecordAdded, i
<1> QED BY <1>1, <1>3, <1>4, <1>5, <1>6, <1>12, <1>13, <1>14, <1>15, <1>16
        DEF RecordAdded, losses, accepting, inviting, connecting, e, i

LEMMA AddRegistrationStep ==
  ASSUME TypeOK, NEW a \in Accept, AddRegistration(a)
  PROVE  /\ leg[a].activity = "invitationAcceptance" /\ leg[a].pc = "own"
         /\ \/ /\ \E o \in Found("acceptor") :
                    Moves(a, "reciprocalRegistration", "load", leg[a].link, o)
               /\ UNCHANGED <<minted, reg>>
            \/ LET i == minted["acceptor"] + 1
               IN /\ Found("acceptor") = {} /\ i \in Id
                  /\ minted' = [minted EXCEPT !["acceptor"] = i]
                  /\ reg' = [reg EXCEPT !["acceptor"][i] = "shell"]
                  /\ Moves(a, "invitationAcceptance", "body", leg[a].link, i)
         /\ UNCHANGED <<inviting, reciprocal, channels, torn, forgotten, repeated, together, trouble>>
<1>l. a \in Leg
  BY DEF Leg
<1>1. leg[a].activity = "invitationAcceptance" /\ leg[a].pc = "own"
  BY <1>l, ActivityAt DEF AddRegistration, At
<1>2. leg[a] \in LegState
  BY <1>l DEF TypeOK
<1>3. Id \subseteq 0 .. MaxIds /\ 0 \in 0 .. MaxAttempts - 1
  BY BoundAssumption DEF Id
<1>4. /\ "load" \in UNION {Steps[b] : b \in DOMAIN Steps} /\ "load" \in Steps["reciprocalRegistration"]
      /\ "body" \in UNION {Steps[b] : b \in DOMAIN Steps} /\ "body" \in Steps["invitationAcceptance"]
      /\ "reciprocalRegistration" \in DOMAIN Steps
  BY DEF Steps
<1>5. ASSUME NEW o \in Found("acceptor"),
             leg' = [leg EXCEPT ![a].reg = o, ![a].activity = "reciprocalRegistration",
                                ![a].pc = "load", ![a].tries = 0]
      PROVE  Moves(a, "reciprocalRegistration", "load", leg[a].link, o)
  <2> DEFINE new == [leg[a] EXCEPT !.reg = o, !.activity = "reciprocalRegistration",
                                   !.pc = "load", !.tries = 0]
  <2>1. o \in 0 .. MaxIds
    BY <1>3 DEF Found
  <2>2. new \in LegState /\ new.activity = "reciprocalRegistration" /\ new.pc = "load"
        /\ new.link = leg[a].link /\ new.reg = o
    BY <2>1, <1>2, <1>3, <1>4 DEF LegState
  <2>3. leg' = [leg EXCEPT ![a] = new]
    BY <1>5
  <2> HIDE DEF new
  <2> QED BY <2>2, <2>3, <1>l, <1>4, NewLeg
<1>6. ASSUME NEW i \in Id, leg' = [leg EXCEPT ![a].reg = i, ![a].pc = "body"]
      PROVE  Moves(a, "invitationAcceptance", "body", leg[a].link, i)
  <2> DEFINE new == [leg[a] EXCEPT !.reg = i, !.pc = "body"]
  <2>1. i \in 0 .. MaxIds
    BY <1>3
  <2>2. new \in LegState /\ new.activity = "invitationAcceptance" /\ new.pc = "body"
        /\ new.link = leg[a].link /\ new.reg = i
    BY <2>1, <1>1, <1>2, <1>4 DEF LegState
  <2>3. leg' = [leg EXCEPT ![a] = new]
    BY <1>6
  <2> HIDE DEF new
  <2> QED BY <2>2, <2>3, <1>l, <1>4, NewLeg
<1> QED BY <1>1, <1>5, <1>6 DEF AddRegistration, losses, connecting, accepting, inviting

(* One registration is set, and the others are as they were.                *)
Sets(s, i, v) ==
  /\ reg' \in [Side -> [Id -> {"none", "shell", "bare", "full"}]]
  /\ reg'[s][i] = v
  /\ \A t \in Side, j \in Id : t # s \/ j # i => reg'[t][j] = reg[t][j]

LEMMA SetsReg ==
  ASSUME TypeOK, NEW s \in Side, NEW i \in Id, NEW v \in {"none", "shell", "bare", "full"},
         reg' = [reg EXCEPT ![s][i] = v]
  PROVE  Sets(s, i, v)
<1>1. reg \in [Side -> [Id -> {"none", "shell", "bare", "full"}]]
  BY DEF TypeOK
<1>2. reg' = [reg EXCEPT ![s] = [reg[s] EXCEPT ![i] = v]]
  OBVIOUS
<1>3. [reg[s] EXCEPT ![i] = v] \in [Id -> {"none", "shell", "bare", "full"}]
  BY <1>1
<1> QED BY <1>1, <1>2, <1>3 DEF Sets

LEMMA LoadRegistrationStep ==
  ASSUME TypeOK, NEW l \in Leg, LoadRegistration(l)
  PROVE  /\ leg[l].activity = "reciprocalRegistration" /\ leg[l].pc = "load"
         /\ \/ Stays(l, "reciprocalRegistration", "shell")
            \/ Again(l)
            \/ /\ Own(l) \in {"bare", "full"}
               /\ Stays(l, "reciprocalRegistration", "discover")
            \/ /\ Own(l) \in {"bare", "full"}
               /\ reciprocal[SideOf(l)][leg[l].reg] # {}
               /\ Stays(l, "reciprocalWebhook", "find")
         /\ trouble' \in 0 .. MaxTrouble
         /\ UNCHANGED <<inviting, there, torn, forgotten, accepting>>
<1>1. leg[l].activity = "reciprocalRegistration" /\ leg[l].pc = "load"
  BY ActivityAt DEF LoadRegistration, At
<1>2. {"shell", "discover"} \subseteq Steps["reciprocalRegistration"]
  BY DEF Steps
<1>3. trouble' \in 0 .. MaxTrouble
  BY BoundAssumption DEF LoadRegistration, Trouble, TypeOK
<1>4. Goto(l, "shell") => Stays(l, "reciprocalRegistration", "shell")
  BY <1>1, <1>2, GotoMoves
<1>5. Goto(l, "discover") => Stays(l, "reciprocalRegistration", "discover")
  BY <1>1, <1>2, GotoMoves
<1>6. NextAttempt(l) => Again(l)
  BY AttemptMoves DEF Again
<1>7. Return(l) => Stays(l, "reciprocalWebhook", "find")
  BY <1>1, ReturnMoves, StepsOf
<1> QED BY <1>1, <1>3, <1>4, <1>5, <1>6, <1>7
        DEF LoadRegistration, registering, losses, connecting, there

LEMMA CreateAtIdStep ==
  ASSUME IInv, NEW l \in Leg, CreateAtId(l)
  PROVE  /\ leg[l].activity = "reciprocalRegistration" /\ leg[l].pc = "shell"
         /\ leg[l].reg \in Id
         /\ \/ /\ Own(l) = "none" /\ Stays(l, "reciprocalRegistration", "body")
               /\ Sets(SideOf(l), leg[l].reg, "shell")
            \/ /\ Own(l) # "none" /\ Again(l)
               /\ Sets(SideOf(l), leg[l].reg, Own(l))
         /\ UNCHANGED <<inviting, minted, reciprocal, channels, torn, forgotten, accepting, trouble>>
<1>t. TypeOK
  BY DEF IInv
<1>1. leg[l].activity = "reciprocalRegistration" /\ leg[l].pc = "shell"
  BY <1>t, ActivityAt DEF CreateAtId, At
<1>2. leg[l].reg \in Id /\ SideOf(l) \in Side
  BY <1>1, Sides DEF IInv, Informed, HasReg
<1>3. Goto(l, "body") => Stays(l, "reciprocalRegistration", "body")
  <2>1. "body" \in Steps["reciprocalRegistration"]
    BY DEF Steps
  <2> QED BY <2>1, <1>t, <1>1, GotoMoves
<1>4. NextAttempt(l) => Again(l)
  BY <1>t, AttemptMoves DEF Again
<1>5. reg' = [reg EXCEPT ![SideOf(l)][leg[l].reg] = "shell"] => Sets(SideOf(l), leg[l].reg, "shell")
  BY <1>t, <1>2, SetsReg
<1>6. UNCHANGED reg => Sets(SideOf(l), leg[l].reg, Own(l))
  BY <1>t, <1>2 DEF Sets, Own, TypeOK
<1> QED BY <1>1, <1>2, <1>3, <1>4, <1>5, <1>6 DEF CreateAtId, losses, connecting

LEMMA WriteBodyStep ==
  ASSUME IInv, NEW l \in Leg, WriteBody(l)
  PROVE  /\ leg[l].activity \in {"invitationAcceptance", "reciprocalRegistration"}
         /\ leg[l].pc = "body" /\ leg[l].reg \in Id /\ Own(l) \in {"shell", "bare", "full"}
         /\ Stays(l, leg[l].activity, "acr")
         /\ Sets(SideOf(l), leg[l].reg, IF Own(l) = "shell" THEN "bare" ELSE Own(l))
         /\ UNCHANGED <<inviting, minted, reciprocal, channels, torn, forgotten, accepting, trouble>>
<1>t. TypeOK
  BY DEF IInv
<1>1. /\ leg[l].activity \in {"invitationAcceptance", "reciprocalRegistration"}
      /\ leg[l].pc = "body"
  BY <1>t, ActivityAt DEF WriteBody, At
<1>2. leg[l].reg \in Id /\ SideOf(l) \in Side /\ Own(l) # "none"
  BY <1>1, Sides DEF IInv, Informed, HasReg, Own
<1>3. Own(l) \in {"none", "shell", "bare", "full"}
  BY <1>t, <1>2 DEF Own, TypeOK
<1>4. Stays(l, leg[l].activity, "acr")
  <2>1. "acr" \in Steps["invitationAcceptance"] /\ "acr" \in Steps["reciprocalRegistration"]
    BY DEF Steps
  <2> QED BY <2>1, <1>t, <1>1, GotoMoves DEF WriteBody
<1>5. Sets(SideOf(l), leg[l].reg, IF Own(l) = "shell" THEN "bare" ELSE Own(l))
  <2> DEFINE v == IF Own(l) = "shell" THEN "bare" ELSE Own(l)
  <2>1. v \in {"none", "shell", "bare", "full"}
    BY <1>3
  <2>2. reg' = [reg EXCEPT ![SideOf(l)][leg[l].reg] = v]
    BY DEF WriteBody, Own
  <2> HIDE DEF v
  <2>3. Sets(SideOf(l), leg[l].reg, v)
    BY <2>1, <2>2, <1>t, <1>2, SetsReg
  <2> QED BY <2>3 DEF v
<1> QED BY <1>1, <1>2, <1>3, <1>4, <1>5 DEF WriteBody, losses, connecting

(* The last step of an activity goes on or is made again.                   *)
LEMMA LastStep ==
  ASSUME TypeOK, NEW l \in Leg, leg[l].activity # "none", ReturnOrLose(l)
  PROVE  /\ \/ Stays(l, Following[leg[l].activity], First[Following[leg[l].activity]])
            \/ Again(l)
         /\ trouble' \in 0 .. MaxTrouble
BY BoundAssumption, ReturnMoves, AttemptMoves DEF ReturnOrLose, Again, Trouble, TypeOK

LEMMA SetAcrStep ==
  ASSUME IInv, NEW l \in Leg, SetAcr(l)
  PROVE  /\ leg[l].activity \in {"invitationAcceptance", "reciprocalRegistration"}
         /\ leg[l].pc = "acr" /\ leg[l].reg \in Found(SideOf(l))
         /\ \/ /\ leg[l].activity = "invitationAcceptance"
               /\ Stays(l, "reciprocalRegistration", "load")
            \/ /\ leg[l].activity = "reciprocalRegistration"
               /\ Stays(l, "reciprocalRegistration", "discover")
            \/ Again(l)
         /\ Sets(SideOf(l), leg[l].reg, "full")
         /\ trouble' \in 0 .. MaxTrouble
         /\ UNCHANGED <<inviting, minted, reciprocal, channels, torn, forgotten, accepting>>
<1>t. TypeOK
  BY DEF IInv
<1>1. /\ leg[l].activity \in {"invitationAcceptance", "reciprocalRegistration"}
      /\ leg[l].pc = "acr"
  BY <1>t, ActivityAt DEF SetAcr, At
<1>2. leg[l].reg \in Found(SideOf(l)) /\ leg[l].reg \in Id /\ SideOf(l) \in Side
  BY <1>1, Sides DEF IInv, Informed, HasReg, HasFound
<1>3. Sets(SideOf(l), leg[l].reg, "full")
  BY <1>t, <1>2, SetsReg DEF SetAcr
<1>4. CASE leg[l].activity = "invitationAcceptance"
  <2>1. ReturnOrLose(l)
    BY <1>4 DEF SetAcr, AfterAcr
  <2>2. Stays(l, "reciprocalRegistration", "load") \/ Again(l)
    BY <2>1, <1>t, <1>4, LastStep, StepsOf
  <2>3. trouble' \in 0 .. MaxTrouble
    BY <2>1, <1>t, <1>4, LastStep
  <2> QED BY <1>1, <1>2, <1>3, <1>4, <2>2, <2>3 DEF SetAcr, losses, connecting
<1>5. CASE leg[l].activity = "reciprocalRegistration"
  <2>1. Goto(l, "discover") /\ trouble' = trouble
    BY <1>5 DEF SetAcr, AfterAcr
  <2>2. "discover" \in Steps["reciprocalRegistration"]
    BY DEF Steps
  <2>3. Stays(l, "reciprocalRegistration", "discover")
    BY <2>1, <2>2, <1>t, <1>5, GotoMoves
  <2> QED BY <1>1, <1>2, <1>3, <1>5, <1>t, <2>1, <2>3 DEF SetAcr, losses, connecting, TypeOK
<1> QED BY <1>1, <1>4, <1>5

LEMMA DiscoverReciprocalStep ==
  ASSUME IInv, NEW l \in Leg, DiscoverReciprocal(l)
  PROVE  /\ leg[l].activity = "reciprocalRegistration" /\ leg[l].pc = "discover"
         /\ leg[l].reg \in Id
         /\ \/ /\ \E i \in Found(Peer(SideOf(l))) :
                    reciprocal' = [reciprocal EXCEPT ![SideOf(l)][leg[l].reg] = @ \cup {i}]
               /\ Stays(l, "reciprocalWebhook", "find") \/ Again(l)
            \/ Again(l) /\ UNCHANGED reciprocal
         /\ trouble' \in 0 .. MaxTrouble
         /\ UNCHANGED <<inviting, registering, channels, accepting>>
<1>t. TypeOK
  BY DEF IInv
<1>1. leg[l].activity = "reciprocalRegistration" /\ leg[l].pc = "discover"
  BY <1>t, ActivityAt DEF DiscoverReciprocal, At
<1>2. leg[l].reg \in Id
  BY <1>1 DEF IInv, Informed, HasReg
<1>3. ReturnOrLose(l) => /\ Stays(l, "reciprocalWebhook", "find") \/ Again(l)
                         /\ trouble' \in 0 .. MaxTrouble
  BY <1>t, <1>1, LastStep, StepsOf
<1>4. NextAttempt(l) => Again(l)
  BY <1>t, AttemptMoves DEF Again
<1>5. UNCHANGED trouble => trouble' \in 0 .. MaxTrouble
  BY <1>t DEF TypeOK
<1> QED BY <1>1, <1>2, <1>3, <1>4, <1>5 DEF DiscoverReciprocal

LEMMA FindChannelStep ==
  ASSUME TypeOK, NEW l \in Leg, FindChannel(l)
  PROVE  /\ leg[l].activity = "reciprocalWebhook" /\ leg[l].pc = "find"
         /\ \/ channels[SideOf(l)] = 0 /\ Stays(l, "reciprocalWebhook", "subscribe")
            \/ channels[SideOf(l)] # 0 /\ Stays(l, "none", "done")
         /\ UNCHANGED <<inviting, there, torn, forgotten, accepting, trouble>>
<1>1. leg[l].activity = "reciprocalWebhook" /\ leg[l].pc = "find"
  BY ActivityAt DEF FindChannel, At
<1>2. "subscribe" \in Steps["reciprocalWebhook"]
  BY DEF Steps
<1>3. Goto(l, "subscribe") => Stays(l, "reciprocalWebhook", "subscribe")
  BY <1>1, <1>2, GotoMoves
<1>4. Return(l) => Stays(l, "none", "done")
  BY <1>1, ReturnMoves, StepsOf
<1> QED BY <1>1, <1>3, <1>4 DEF FindChannel, registering, losses, connecting, there

LEMMA SubscribeStep ==
  ASSUME IInv, NEW l \in Leg, Subscribe(l)
  PROVE  /\ leg[l].activity = "reciprocalWebhook" /\ leg[l].pc = "subscribe"
         /\ \/ /\ \E i \in Id : reg[Peer(SideOf(l))][i] = "full"
               /\ Stays(l, "reciprocalWebhook", "store")
            \/ Again(l)
         /\ UNCHANGED <<inviting, there, torn, forgotten, accepting, trouble>>
<1>t. TypeOK
  BY DEF IInv
<1>1. leg[l].activity = "reciprocalWebhook" /\ leg[l].pc = "subscribe"
  BY <1>t, ActivityAt DEF Subscribe, At
<1>2. reciprocal[SideOf(l)][leg[l].reg] \subseteq Id
  <2>1. SideOf(l) \in Side /\ leg[l].reg \in Id
    BY <1>1, Sides DEF IInv, Informed, HasReg
  <2> QED BY <2>1, <1>t DEF TypeOK
<1>3. Goto(l, "store") => Stays(l, "reciprocalWebhook", "store")
  <2>1. "store" \in Steps["reciprocalWebhook"]
    BY DEF Steps
  <2> QED BY <2>1, <1>t, <1>1, GotoMoves
<1>4. NextAttempt(l) => Again(l)
  BY <1>t, AttemptMoves DEF Again
<1> QED BY <1>1, <1>2, <1>3, <1>4 DEF Subscribe, registering, losses, connecting, there

LEMMA StoreChannelStep ==
  ASSUME IInv, NEW l \in Leg, StoreChannel(l)
  PROVE  /\ leg[l].activity = "reciprocalWebhook" /\ leg[l].pc = "store"
         /\ \E i \in Id : reg[Peer(SideOf(l))][i] = "full"
         /\ channels' = [channels EXCEPT ![SideOf(l)] = @ + 1]
         /\ Stays(l, "none", "done") \/ Again(l)
         /\ trouble' \in 0 .. MaxTrouble
         /\ UNCHANGED <<inviting, registering, reciprocal, accepting>>
<1>t. TypeOK
  BY DEF IInv
<1>1. leg[l].activity = "reciprocalWebhook" /\ leg[l].pc = "store"
  BY <1>t, ActivityAt DEF StoreChannel, At
<1>2. \E i \in Id : reg[Peer(SideOf(l))][i] = "full"
  BY <1>1 DEF IInv, Informed
<1>3. /\ Stays(l, "none", "done") \/ Again(l)
      /\ trouble' \in 0 .. MaxTrouble
  BY <1>t, <1>1, LastStep, StepsOf DEF StoreChannel
<1> QED BY <1>1, <1>2, <1>3 DEF StoreChannel

LEMMA CrashStep ==
  ASSUME TypeOK, NEW l \in Leg, Crash(l)
  PROVE  /\ leg[l].activity # "none" /\ Started(l)
         /\ Again(l)
         /\ torn' = [torn EXCEPT ![SideOf(l)] = @ \/ At(l, "acr")]
         /\ forgotten' \in [Side -> Nat]
         /\ trouble' \in 0 .. MaxTrouble
         /\ UNCHANGED <<inviting, there, accepting>>
<1>1. leg[l].activity # "none" /\ Started(l)
  BY ActivityAt DEF Crash
<1>2. Again(l)
  BY AttemptMoves DEF Crash, Again
<1>3. trouble' \in 0 .. MaxTrouble
  BY BoundAssumption DEF Crash, Trouble, TypeOK
<1>4. forgotten' \in [Side -> Nat]
  <2> DEFINE n == IF At(l, "store") THEN forgotten[SideOf(l)] + 1 ELSE forgotten[SideOf(l)]
  <2>1. forgotten \in [Side -> Nat] /\ SideOf(l) \in Side
    BY Sides DEF TypeOK
  <2>2. n \in Nat
    BY <2>1
  <2>3. forgotten' = [forgotten EXCEPT ![SideOf(l)] = n]
    BY DEF Crash
  <2> HIDE DEF n
  <2> QED BY <2>1, <2>2, <2>3
<1> QED BY <1>1, <1>2, <1>3, <1>4 DEF Crash, connecting, there

Inviting(c) == StartCreation(c) \/ CreationStep(c)

LEMMA InvitingStep ==
  ASSUME TypeOK, NEW c \in Creation, Inviting(c)
  PROVE  /\ \A b \in Creation : b # c => create'[b] = create[b]
         /\ create' \in [Creation -> {"idle", "look", "put", "mark", "done"}]
         /\ invitation' \in [link : 0 .. MaxLinks, accepted : BOOLEAN]
         /\ links' \in 0 .. MaxLinks
         /\ trouble' \in 0 .. MaxTrouble
         /\ raced' \in BOOLEAN
         /\ UNCHANGED <<leg, there, torn, forgotten, accepting>>
<1>1. CASE StartCreation(c)
  BY <1>1, BoundAssumption DEF StartCreation, TypeOK, Trouble, registering, losses, connecting, there
<1>2. CASE LookInvitation(c)
  BY <1>2, BoundAssumption DEF LookInvitation, TypeOK, registering, losses, connecting, there
<1>3. CASE PutInvitation(c)
  <2>1. links + 1 \in 0 .. MaxLinks
    BY <1>3, BoundAssumption DEF PutInvitation, TypeOK
  <2>2. trouble' \in 0 .. MaxTrouble
    BY <1>3, BoundAssumption DEF PutInvitation, TypeOK, Trouble
  <2>3. create' \in [Creation -> {"idle", "look", "put", "mark", "done"}]
    BY <1>3 DEF PutInvitation, TypeOK
  <2> QED BY <1>3, <2>1, <2>2, <2>3 DEF PutInvitation, TypeOK, registering, losses, connecting, there
<1>4. CASE MarkCreated(c)
  BY <1>4 DEF MarkCreated, TypeOK, registering, losses, connecting, there
<1> QED BY <1>1, <1>2, <1>3, <1>4 DEF Inviting, CreationStep

-----------------------------------------------------------------------------
(* Nothing but the invitation is ever taken back.                           *)
LEMMA SetsGrow ==
  ASSUME TypeOK, NEW s \in Side, NEW i \in Id, NEW v, Sets(s, i, v),
         v = "none" => reg[s][i] = "none",
         reg[s][i] \in {"bare", "full"} => v \in {"bare", "full"},
         reg[s][i] = "full" => v = "full",
         \A t \in Side : minted[t] <= minted'[t],
         UNCHANGED <<reciprocal, channels>>
  PROVE  Grows
<1>1. \A t \in Side : channels[t] \in Nat
  BY DEF TypeOK
<1>2. \A t \in Side, j \in Id :
        /\ reg'[t][j] = "none" => reg[t][j] = "none"
        /\ reg[t][j] \in {"bare", "full"} => reg'[t][j] \in {"bare", "full"}
        /\ reg[t][j] = "full" => reg'[t][j] = "full"
  <2> SUFFICES ASSUME NEW t \in Side, NEW j \in Id
               PROVE  /\ reg'[t][j] = "none" => reg[t][j] = "none"
                      /\ reg[t][j] \in {"bare", "full"} => reg'[t][j] \in {"bare", "full"}
                      /\ reg[t][j] = "full" => reg'[t][j] = "full"
    OBVIOUS
  <2>1. CASE t = s /\ j = i
    BY <2>1 DEF Sets
  <2>2. CASE ~ (t = s /\ j = i)
    BY <2>2 DEF Sets
  <2> QED BY <2>1, <2>2
<1> QED BY <1>1, <1>2 DEF Grows

LEMMA Minted == ASSUME TypeOK PROVE \A s \in Side : minted[s] \in Nat /\ channels[s] \in Nat
BY BoundAssumption DEF TypeOK

LEMMA SetsStep ==
  ASSUME IInv, NEW l \in Leg, CreateAtId(l) \/ WriteBody(l) \/ SetAcr(l)
  PROVE  Grows
<1>t. TypeOK
  BY DEF IInv
<1>1. SideOf(l) \in Side /\ \A t \in Side : minted[t] \in Nat
  BY <1>t, Sides, Minted
<1>2. CASE CreateAtId(l)
  <2> DEFINE v == IF Own(l) = "none" THEN "shell" ELSE Own(l)
  <2>1. leg[l].reg \in Id /\ Sets(SideOf(l), leg[l].reg, v) /\ minted' = minted
        /\ UNCHANGED <<reciprocal, channels>>
    BY <1>2, CreateAtIdStep
  <2>2. /\ v = "none" => Own(l) = "none"
        /\ Own(l) \in {"bare", "full"} => v \in {"bare", "full"}
        /\ Own(l) = "full" => v = "full"
    OBVIOUS
  <2> HIDE DEF v
  <2> QED BY <1>t, <1>1, <2>1, <2>2, SetsGrow DEF Own
<1>3. CASE WriteBody(l)
  <2> DEFINE v == IF Own(l) = "shell" THEN "bare" ELSE Own(l)
  <2>1. leg[l].reg \in Id /\ Sets(SideOf(l), leg[l].reg, v) /\ minted' = minted
        /\ UNCHANGED <<reciprocal, channels>>
    BY <1>3, WriteBodyStep
  <2>2. /\ v = "none" => Own(l) = "none"
        /\ Own(l) \in {"bare", "full"} => v \in {"bare", "full"}
        /\ Own(l) = "full" => v = "full"
    OBVIOUS
  <2> HIDE DEF v
  <2> QED BY <1>t, <1>1, <2>1, <2>2, SetsGrow DEF Own
<1>4. CASE SetAcr(l)
  <2>1. leg[l].reg \in Found(SideOf(l)) /\ Sets(SideOf(l), leg[l].reg, "full") /\ minted' = minted
        /\ UNCHANGED <<reciprocal, channels>>
    BY <1>4, SetAcrStep
  <2>2. leg[l].reg \in Id
    BY <2>1 DEF Found
  <2> QED BY <1>t, <1>1, <2>1, <2>2, SetsGrow
<1> QED BY <1>2, <1>3, <1>4

LEMMA AddRegistrationGrows ==
  ASSUME IInv, NEW a \in Accept, AddRegistration(a)
  PROVE  /\ Grows
         /\ \/ UNCHANGED there
            \/ LET i == minted["acceptor"] + 1
               IN /\ i \in Id /\ reg["acceptor"][i] = "none"
                  /\ Sets("acceptor", i, "shell")
                  /\ minted' = [minted EXCEPT !["acceptor"] = i]
<1>t. TypeOK
  BY DEF IInv
<1> DEFINE i == minted["acceptor"] + 1
<1>1. UNCHANGED <<reciprocal, channels>>
  BY <1>t, AddRegistrationStep
<1>2. CASE UNCHANGED <<minted, reg>>
  BY <1>t, <1>1, <1>2, NoGrowth DEF there
<1>3. CASE /\ i \in Id
           /\ minted' = [minted EXCEPT !["acceptor"] = i]
           /\ reg' = [reg EXCEPT !["acceptor"][i] = "shell"]
  <2>1. "acceptor" \in Side
    BY DEF Side
  <2>2. Sets("acceptor", i, "shell")
    BY <1>3, <1>t, <2>1, SetsReg
  <2>3. minted["acceptor"] \in Nat /\ minted \in [Side -> 0 .. MaxIds]
    BY <1>t, <2>1, Minted DEF TypeOK
  <2>4. reg["acceptor"][i] = "none"
    BY <1>3, <1>t, <2>1, <2>3 DEF TypeOK
  <2>5. \A t \in Side : minted[t] <= minted'[t]
    BY <1>3, <2>3, <1>t, Minted
  <2>6. Grows
    BY <1>t, <1>1, <1>3, <2>1, <2>2, <2>4, <2>5, SetsGrow
  <2> QED BY <1>3, <2>2, <2>4, <2>6
<1> QED BY <1>t, <1>2, <1>3, AddRegistrationStep

(* A link is added to one registration.                                     *)
LEMMA LinkAdded ==
  ASSUME TypeOK, NEW s \in Side, NEW r \in Id, NEW i \in Id,
         reciprocal' = [reciprocal EXCEPT ![s][r] = @ \cup {i}]
  PROVE  /\ reciprocal' \in [Side -> [Id -> SUBSET Id]]
         /\ reciprocal'[s][r] = reciprocal[s][r] \cup {i}
         /\ \A t \in Side, j \in Id : t # s \/ j # r => reciprocal'[t][j] = reciprocal[t][j]
<1>1. reciprocal \in [Side -> [Id -> SUBSET Id]]
  BY DEF TypeOK
<1> DEFINE new == [reciprocal[s] EXCEPT ![r] = @ \cup {i}]
<1>2. reciprocal' = [reciprocal EXCEPT ![s] = new]
  OBVIOUS
<1>3. /\ new \in [Id -> SUBSET Id] /\ new[r] = reciprocal[s][r] \cup {i}
      /\ \A j \in Id : j # r => new[j] = reciprocal[s][j]
  BY <1>1
<1> HIDE DEF new
<1> QED BY <1>1, <1>2, <1>3

LEMMA NextGrows ==
  ASSUME IInv, [Next]_vars
  PROVE  Grows
<1>t. TypeOK
  BY DEF IInv
<1>1. ASSUME NEW c \in Creation, Inviting(c) PROVE Grows
  BY <1>t, <1>1, InvitingStep, NoGrowth
<1>2. ASSUME NEW a \in Accept, RecordAccept(a) \/ Post(a) \/ SetRegisteredAgent(a) PROVE Grows
  BY <1>t, <1>2, RecordAcceptStep, PostStep, SetRegisteredAgentStep, NoGrowth
<1>3. ASSUME NEW a \in Accept, RecordAdded(a) PROVE Grows
  <2>1. /\ minted' = [minted EXCEPT !["inviter"] = minted["inviter"] + 1]
        /\ UNCHANGED <<reg, reciprocal, channels>>
    BY <1>3, RecordAddedStep
  <2>2. minted \in [Side -> 0 .. MaxIds] /\ \A s \in Side : minted[s] \in Nat /\ channels[s] \in Nat
    BY <1>t, Minted DEF TypeOK
  <2> QED BY <2>1, <2>2 DEF Grows
<1>4. ASSUME NEW l \in Leg, DiscoverReciprocal(l) PROVE Grows
  <2>1. UNCHANGED <<reg, minted, channels>> /\ leg[l].reg \in Id
    BY <1>4, DiscoverReciprocalStep DEF registering
  <2>2. \A s \in Side, i \in Id : reciprocal[s][i] \subseteq reciprocal'[s][i]
    <3>1. SideOf(l) \in Side /\ Found(Peer(SideOf(l))) \subseteq Id
      BY Sides DEF Found
    <3>2. CASE UNCHANGED reciprocal
      BY <3>2
    <3>3. ASSUME NEW i \in Id,
                 reciprocal' = [reciprocal EXCEPT ![SideOf(l)][leg[l].reg] = @ \cup {i}]
          PROVE  \A s \in Side, j \in Id : reciprocal[s][j] \subseteq reciprocal'[s][j]
      BY <3>1, <3>3, <2>1, <1>t, LinkAdded
    <3> QED BY <1>4, <3>1, <3>2, <3>3, DiscoverReciprocalStep
  <2> QED BY <1>t, <2>1, <2>2, Minted DEF Grows
<1>5. ASSUME NEW l \in Leg, StoreChannel(l) PROVE Grows
  <2>1. UNCHANGED <<reg, minted, reciprocal>>
    BY <1>5, StoreChannelStep DEF registering
  <2>2. \A s \in Side : channels[s] <= channels'[s]
    <3>1. channels \in [Side -> Nat] /\ SideOf(l) \in Side
      BY <1>t, Sides DEF TypeOK
    <3> QED BY <1>5, <3>1, StoreChannelStep
  <2> QED BY <1>t, <2>1, <2>2, Minted DEF Grows
<1>6. ASSUME NEW l \in Leg,
             Deliver(l) \/ LoadRegistration(l) \/ FindChannel(l) \/ Subscribe(l) \/ Crash(l)
      PROVE  Grows
  BY <1>t, <1>6, DeliverStep, LoadRegistrationStep, FindChannelStep, SubscribeStep, CrashStep,
     NoGrowth
<1>7. CASE UNCHANGED vars
  BY <1>t, <1>7, NoGrowth DEF vars, there
<1> QED BY <1>1, <1>2, <1>3, <1>4, <1>5, <1>6, <1>7, SetsStep, AddRegistrationGrows
        DEF Next, Inviting, AcceptStep, LegStep

-----------------------------------------------------------------------------
LegTyped == /\ leg' \in [Leg -> LegState]
            /\ \A m \in Leg : leg'[m].pc \in Steps[leg'[m].activity]

RegTyped == /\ reg' \in [Side -> [Id -> {"none", "shell", "bare", "full"}]]
            /\ minted' \in [Side -> 0 .. MaxIds]
            /\ \A s \in Side, i \in Id : reg'[s][i] # "none" => i <= minted'[s]

LEMMA SetsTyped ==
  ASSUME TypeOK, NEW s \in Side, NEW i \in Id, NEW v, Sets(s, i, v), UNCHANGED minted,
         v # "none" => i <= minted[s]
  PROVE  RegTyped
BY DEF Sets, RegTyped, TypeOK

LEMMA RegStep ==
  ASSUME IInv, NEW l \in Leg, CreateAtId(l) \/ WriteBody(l) \/ SetAcr(l)
  PROVE  RegTyped /\ LegTyped /\ trouble' \in 0 .. MaxTrouble
         /\ UNCHANGED <<inviting, reciprocal, channels, torn, forgotten, accepting>>
<1>t. TypeOK /\ Informed(l) /\ SideOf(l) \in Side
  BY Sides DEF IInv
<1>1. CASE CreateAtId(l)
  <2> DEFINE v == IF Own(l) = "none" THEN "shell" ELSE Own(l)
  <2>1. leg[l].reg \in Id /\ Sets(SideOf(l), leg[l].reg, v) /\ minted' = minted
        /\ leg[l].activity = "reciprocalRegistration"
    BY <1>1, CreateAtIdStep
  <2>2. leg[l].reg <= minted[SideOf(l)]
    BY <2>1, <1>t DEF Informed, HasReg
  <2> HIDE DEF v
  <2>3. RegTyped
    BY <1>t, <2>1, <2>2, SetsTyped
  <2> QED BY <1>1, <1>t, <2>3, CreateAtIdStep DEF Again, Stays, Moves, LegTyped, TypeOK
<1>2. CASE WriteBody(l)
  <2> DEFINE v == IF Own(l) = "shell" THEN "bare" ELSE Own(l)
  <2>1. leg[l].reg \in Id /\ Sets(SideOf(l), leg[l].reg, v) /\ minted' = minted /\ leg[l].pc = "body"
    BY <1>2, WriteBodyStep
  <2>2. leg[l].reg <= minted[SideOf(l)]
    BY <2>1, <1>t DEF Informed, HasReg
  <2> HIDE DEF v
  <2>3. RegTyped
    BY <1>t, <2>1, <2>2, SetsTyped
  <2> QED BY <1>2, <1>t, <2>3, WriteBodyStep DEF Stays, Moves, LegTyped, TypeOK
<1>3. CASE SetAcr(l)
  <2>1. /\ leg[l].reg \in Found(SideOf(l)) /\ Sets(SideOf(l), leg[l].reg, "full")
        /\ minted' = minted /\ leg[l].pc = "acr"
    BY <1>3, SetAcrStep
  <2>2. leg[l].reg \in Id /\ leg[l].reg <= minted[SideOf(l)]
    BY <2>1, <1>t DEF Informed, HasReg
  <2>3. RegTyped
    BY <1>t, <2>1, <2>2, SetsTyped
  <2> QED BY <1>3, <1>t, <2>3, SetAcrStep DEF Stays, Moves, LegTyped, Again
<1> QED BY <1>1, <1>2, <1>3

LEMMA TypeStep == ASSUME IInv, [Next]_vars PROVE TypeOK'
<1>t. TypeOK
  BY DEF IInv
<1> DEFINE ConnTyped == /\ reciprocal' \in [Side -> [Id -> SUBSET Id]]
                        /\ channels' \in [Side -> Nat]
           Bounded == trouble' \in 0 .. MaxTrouble
<1>0. /\ UNCHANGED leg => LegTyped
      /\ UNCHANGED <<reg, minted>> => RegTyped
      /\ UNCHANGED <<reciprocal, channels>> => ConnTyped
      /\ UNCHANGED trouble => Bounded
  BY <1>t DEF TypeOK, LegTyped, RegTyped
<1>z. ASSUME LegTyped, RegTyped, ConnTyped, Bounded, UNCHANGED <<inviting, torn, forgotten, accepting>>
      PROVE  TypeOK'
  BY <1>t, <1>z DEF TypeOK, LegTyped, RegTyped, inviting, accepting
<1>m. ASSUME NEW l \in Leg, NEW a, NEW p, NEW k, NEW i, Moves(l, a, p, k, i) PROVE LegTyped
  BY <1>m DEF Moves, LegTyped
<1>s. ASSUME NEW l \in Leg, NEW a, NEW p, Stays(l, a, p) PROVE LegTyped
  BY <1>s, <1>m DEF Stays
<1>a. ASSUME NEW l \in Leg, Again(l) PROVE LegTyped
  BY <1>a, <1>s DEF Again
<1>l. \A a \in Accept : a \in Leg
  BY DEF Leg
<1>1. ASSUME NEW c \in Creation, Inviting(c) PROVE TypeOK'
  <2>1. LegTyped /\ RegTyped /\ ConnTyped
    BY <1>0, <1>t, <1>1, InvitingStep DEF there
  <2> QED BY <2>1, <1>t, <1>1, InvitingStep DEF TypeOK, LegTyped, RegTyped, accepting
<1>2. ASSUME NEW a \in Accept, RecordAccept(a) PROVE TypeOK'
  <2>1. /\ LegTyped /\ trouble' \in 0 .. MaxTrouble
        /\ UNCHANGED <<inviting, there, torn, forgotten, repeated, together>>
    BY <1>2, <1>t, <1>l, <1>m, RecordAcceptStep
  <2> QED BY <2>1, <1>0, <1>z DEF there, accepting
<1>3. ASSUME NEW a \in Accept, Post(a) PROVE TypeOK'
  <2>1. /\ LegTyped /\ repeated' \in BOOLEAN
        /\ UNCHANGED <<inviting, there, torn, forgotten, together, trouble>>
    <3>1. repeated' \in BOOLEAN
      BY <1>3, <1>t DEF Post, TypeOK
    <3> QED BY <3>1, <1>3, <1>t, <1>l, <1>s, <1>a, PostStep
  <2>2. RegTyped /\ ConnTyped /\ Bounded
    BY <2>1, <1>0 DEF there
  <2> QED BY <2>1, <2>2, <1>t DEF TypeOK, LegTyped, RegTyped, inviting
<1>4. ASSUME NEW a \in Accept, SetRegisteredAgent(a) PROVE TypeOK'
  <2>1. /\ LegTyped /\ invitation' \in [link : 0 .. MaxLinks, accepted : BOOLEAN]
        /\ UNCHANGED <<links, create, raced, there, torn, forgotten, repeated, together, trouble>>
    <3>1. /\ LegTyped /\ leg[a].link \in 0 .. MaxLinks
          /\ invitation' = [link |-> leg[a].link, accepted |-> TRUE]
          /\ UNCHANGED <<links, create, raced, there, torn, forgotten, repeated, together, trouble>>
      BY <1>4, <1>t, <1>l, <1>s, SetRegisteredAgentStep
    <3> QED BY <3>1
  <2>2. RegTyped /\ ConnTyped /\ Bounded
    BY <2>1, <1>0 DEF there
  <2> QED BY <2>1, <2>2, <1>t DEF TypeOK, LegTyped, RegTyped
<1>5. ASSUME NEW a \in Accept, RecordAdded(a) PROVE TypeOK'
  <2> DEFINE i == minted["inviter"] + 1
  <2>1. /\ i \in Id /\ LegTyped /\ minted' = [minted EXCEPT !["inviter"] = i]
        /\ UNCHANGED <<inviting, reg, reciprocal, channels, torn, forgotten, repeated, together, trouble>>
    BY <1>5, RecordAddedStep DEF LegTyped
  <2>2. RegTyped
    <3>1. minted \in [Side -> 0 .. MaxIds] /\ \A s \in Side : minted[s] \in Nat
      BY <1>t, Minted DEF TypeOK
    <3>2. i \in 0 .. MaxIds
      BY <2>1, BoundAssumption DEF Id
    <3>3. \A s \in Side : minted[s] <= minted'[s] /\ minted'[s] \in Nat
      BY <2>1, <3>1, <3>2, BoundAssumption
    <3>4. \A s \in Side, j \in Id : reg'[s][j] # "none" => j <= minted'[s]
      BY <2>1, <3>1, <3>3, <1>t, Sides DEF TypeOK
    <3> QED BY <2>1, <3>1, <3>2, <3>4, <1>t DEF RegTyped, TypeOK
  <2>3. ConnTyped /\ Bounded
    BY <2>1, <1>0
  <2> QED BY <2>1, <2>2, <2>3, <1>z DEF accepting
<1>6. ASSUME NEW a \in Accept, AddRegistration(a) PROVE TypeOK'
  <2>1. /\ LegTyped
        /\ UNCHANGED <<inviting, reciprocal, channels, torn, forgotten, repeated, together, trouble>>
    BY <1>6, <1>t, <1>l, <1>m, AddRegistrationStep
  <2>2. RegTyped
    <3>1. CASE UNCHANGED there
      BY <3>1, <1>0 DEF there
    <3>2. CASE ~ UNCHANGED there
      <4> DEFINE i == minted["acceptor"] + 1
      <4>1. /\ i \in Id /\ Sets("acceptor", i, "shell")
            /\ minted' = [minted EXCEPT !["acceptor"] = i]
        BY <1>6, <3>2, AddRegistrationGrows
      <4>2. minted \in [Side -> 0 .. MaxIds] /\ \A s \in Side : minted[s] \in Nat
        BY <1>t, Minted DEF TypeOK
      <4>3. i \in 0 .. MaxIds
        BY <4>1, BoundAssumption DEF Id
      <4>4. \A s \in Side : minted[s] <= minted'[s] /\ minted'[s] \in Nat
        BY <4>1, <4>2, <4>3, BoundAssumption
      <4>5. \A s \in Side, j \in Id : reg'[s][j] # "none" => j <= minted'[s]
        <5> SUFFICES ASSUME NEW s \in Side, NEW j \in Id, reg'[s][j] # "none"
                     PROVE  j <= minted'[s]
          OBVIOUS
        <5>1. CASE s = "acceptor" /\ j = i
          BY <5>1, <4>1, <4>2, <4>3, BoundAssumption
        <5>2. CASE ~ (s = "acceptor" /\ j = i)
          <6>1. reg[s][j] # "none" /\ j \in Nat
            BY <5>2, <4>1, Sides DEF Sets
          <6>2. j <= minted[s]
            BY <6>1, <1>t DEF TypeOK
          <6> QED BY <6>1, <6>2, <4>2, <4>4
        <5> QED BY <5>1, <5>2
      <4> QED BY <4>1, <4>2, <4>3, <4>5 DEF RegTyped, Sets
    <3> QED BY <3>1, <3>2
  <2>3. ConnTyped /\ Bounded
    BY <2>1, <1>0
  <2> QED BY <2>1, <2>2, <2>3, <1>z DEF accepting
<1>7. ASSUME NEW l \in Leg, Deliver(l) PROVE TypeOK'
  <2>1. /\ LegTyped /\ together' \in BOOLEAN
        /\ UNCHANGED <<inviting, there, torn, forgotten, repeated, trouble>>
    <3>1. together' \in BOOLEAN
      BY <1>7, <1>t DEF Deliver, TypeOK
    <3> QED BY <3>1, <1>7, <1>t, <1>s, DeliverStep
  <2>2. RegTyped /\ ConnTyped /\ Bounded
    BY <2>1, <1>0 DEF there
  <2> QED BY <2>1, <2>2, <1>t DEF TypeOK, LegTyped, RegTyped, inviting
<1>8. ASSUME NEW l \in Leg, LoadRegistration(l) PROVE TypeOK'
  <2>1. LegTyped /\ Bounded /\ UNCHANGED <<inviting, there, torn, forgotten, accepting>>
    BY <1>8, <1>t, <1>s, <1>a, LoadRegistrationStep
  <2> QED BY <2>1, <1>0, <1>z DEF there
<1>9. ASSUME NEW l \in Leg, CreateAtId(l) \/ WriteBody(l) \/ SetAcr(l) PROVE TypeOK'
  <2>1. RegTyped /\ LegTyped /\ Bounded /\ UNCHANGED <<inviting, reciprocal, channels, torn, forgotten, accepting>>
    BY <1>9, RegStep
  <2> QED BY <2>1, <1>0, <1>z
<1>10. ASSUME NEW l \in Leg, DiscoverReciprocal(l) PROVE TypeOK'
  <2>1. /\ LegTyped /\ Bounded /\ leg[l].reg \in Id
        /\ UNCHANGED <<inviting, registering, channels, accepting>>
    BY <1>10, <1>s, <1>a, DiscoverReciprocalStep
  <2>2. ConnTyped
    <3>1. SideOf(l) \in Side /\ Found(Peer(SideOf(l))) \subseteq Id
      BY Sides DEF Found
    <3>2. reciprocal' \in [Side -> [Id -> SUBSET Id]]
      <4>1. CASE UNCHANGED reciprocal
        BY <4>1, <1>t DEF TypeOK
      <4>2. ASSUME NEW i \in Id,
                   reciprocal' = [reciprocal EXCEPT ![SideOf(l)][leg[l].reg] = @ \cup {i}]
            PROVE  reciprocal' \in [Side -> [Id -> SUBSET Id]]
        BY <1>t, <2>1, <3>1, <4>2, LinkAdded
      <4> QED BY <1>10, <3>1, <4>1, <4>2, DiscoverReciprocalStep
    <3> QED BY <2>1, <3>2, <1>t DEF TypeOK
  <2> QED BY <2>1, <2>2, <1>0, <1>z DEF registering, losses
<1>11. ASSUME NEW l \in Leg, StoreChannel(l) PROVE TypeOK'
  <2>1. LegTyped /\ Bounded /\ UNCHANGED <<inviting, registering, reciprocal, accepting>>
    BY <1>11, <1>s, <1>a, StoreChannelStep
  <2>2. ConnTyped
    <3>1. channels \in [Side -> Nat] /\ SideOf(l) \in Side /\ channels[SideOf(l)] + 1 \in Nat
      BY <1>t, Sides DEF TypeOK
    <3>2. channels' = [channels EXCEPT ![SideOf(l)] = channels[SideOf(l)] + 1]
      BY <1>11, StoreChannelStep
    <3>3. channels' \in [Side -> Nat]
      BY <3>1, <3>2
    <3> QED BY <2>1, <3>3, <1>t DEF TypeOK
  <2> QED BY <2>1, <2>2, <1>0, <1>z DEF registering, losses
<1>12. ASSUME NEW l \in Leg, FindChannel(l) \/ Subscribe(l) PROVE TypeOK'
  <2>1. LegTyped /\ UNCHANGED <<inviting, there, torn, forgotten, accepting, trouble>>
    BY <1>12, <1>t, <1>s, <1>a, FindChannelStep, SubscribeStep
  <2> QED BY <2>1, <1>0, <1>z DEF there
<1>13. ASSUME NEW l \in Leg, Crash(l) PROVE TypeOK'
  <2>1. LegTyped /\ Bounded /\ forgotten' \in [Side -> Nat] /\ UNCHANGED <<inviting, there, accepting>>
    BY <1>13, <1>t, <1>a, CrashStep
  <2>2. torn' \in [Side -> BOOLEAN]
    <3>1. torn \in [Side -> BOOLEAN] /\ (torn[SideOf(l)] \/ At(l, "acr")) \in BOOLEAN
      BY DEF IInv, TypeOK
    <3> QED BY <3>1, <1>13 DEF Crash
  <2>3. RegTyped /\ ConnTyped
    BY <2>1, <1>0 DEF there
  <2> QED BY <2>1, <2>2, <2>3, <1>t DEF TypeOK, LegTyped, RegTyped, inviting, accepting
<1>14. CASE UNCHANGED vars
  BY <1>14, <1>t DEF vars, TypeOK
<1> QED BY <1>1, <1>2, <1>3, <1>4, <1>5, <1>6, <1>7, <1>8, <1>9, <1>10, <1>11, <1>12, <1>13, <1>14
        DEF Next, Inviting, AcceptStep, LegStep

-----------------------------------------------------------------------------
(* What a leg relies on lasts ...                                           *)
LEMMA InformedLasts ==
  ASSUME IInv, Grows, TypeOK', NEW m \in Leg, leg'[m] = leg[m]
  PROVE  Informed(m)'
<1>1. /\ SideOf(m) \in Side /\ "inviter" \in Side
      /\ minted[SideOf(m)] \in Nat /\ minted["inviter"] \in Nat
      /\ minted'[SideOf(m)] \in Nat /\ minted'["inviter"] \in Nat
      /\ channels[SideOf(m)] \in Nat /\ channels'[SideOf(m)] \in Nat
  BY Sides, BoundAssumption DEF IInv, TypeOK, Side
<1>2. Found(SideOf(m)) \subseteq Found(SideOf(m))'
  BY <1>1 DEF Grows, Found
<1>3. Informed(m)
  BY DEF IInv
<1>4. HasReg(m)' = HasReg(m) /\ HasFound(m)' = HasFound(m) /\ Answered(m)' = Answered(m)
  BY DEF HasReg, HasFound, Answered
<1>5. HasReg(m) => leg[m].reg \in Id /\ leg[m].reg <= minted'[SideOf(m)]
  BY <1>1, <1>3, BoundAssumption DEF Informed, Grows, Id
<1>6. leg[m].pc = "body" => reg'[SideOf(m)][leg[m].reg] # "none"
  BY <1>1, <1>3 DEF Informed, Grows, HasReg
<1>7. leg[m].activity = "reciprocalWebhook" \/ leg[m].pc = "done"
        => reciprocal'[SideOf(m)][leg[m].reg] # {}
  BY <1>1, <1>3 DEF Informed, Grows, HasReg
<1>8. leg[m].pc = "store" => \E i \in Id : reg'[Peer(SideOf(m))][i] = "full"
  <2>1. Peer(SideOf(m)) \in Side
    BY <1>1 DEF Peer, Side
  <2> QED BY <2>1, <1>3 DEF Informed, Grows
<1>9. /\ leg[m].pc = "done" => channels'[SideOf(m)] > 0
      /\ m \in Accept /\ (Answered(m) \/ leg[m].pc = "answer") => minted'["inviter"] > 0
  BY <1>1, <1>3 DEF Informed, Grows
<1> QED BY <1>2, <1>3, <1>4, <1>5, <1>6, <1>7, <1>8, <1>9 DEF Informed

(* ... also if it goes on, to a step that needs no more.                    *)
Need(l, a, p) ==
  LET s == SideOf(l)
      r == leg[l].reg
  IN /\ leg[l].pc # "unrecorded"
     /\ l \in Establish => a # "invitationAcceptance"
     /\ a \in {"reciprocalRegistration", "reciprocalWebhook"} \/ p \in {"body", "acr", "done"}
          => HasReg(l)
     /\ p = "body" => reg'[s][r] # "none"
     /\ (\/ a = "reciprocalWebhook"
         \/ a = "reciprocalRegistration" /\ l \in Accept
         \/ p \in {"acr", "discover", "done"})
          => r \in Found(s)'
     /\ a = "reciprocalWebhook" \/ p = "done" => reciprocal'[s][r] # {}
     /\ p = "store" => \E i \in Id : reg'[Peer(s)][i] = "full"
     /\ p = "done" => channels'[s] > 0
     /\ l \in Accept /\ \/ a \in {"reciprocalRegistration", "reciprocalWebhook"}
                        \/ p \in {"own", "body", "acr", "done", "answer"}
          => minted'["inviter"] > 0

LEMMA InformedNow ==
  ASSUME IInv, Grows, TypeOK', NEW l \in Leg, NEW a, NEW p, Stays(l, a, p), Need(l, a, p)
  PROVE  Informed(l)'
<1>1. /\ SideOf(l) \in Side
      /\ minted[SideOf(l)] \in Nat /\ minted'[SideOf(l)] \in Nat
  BY Sides, BoundAssumption DEF IInv, TypeOK
<1>2. leg'[l].activity = a /\ leg'[l].pc = p /\ leg'[l].reg = leg[l].reg
  BY DEF Stays, Moves
<1>3. Informed(l)
  BY DEF IInv
<1>4. l \in Establish => leg[l].reg = l[2] /\ HasReg(l)
  BY <1>3 DEF Need, Informed, HasReg
<1>5. HasReg(l) => leg[l].reg \in Id /\ leg[l].reg <= minted'[SideOf(l)]
  BY <1>1, <1>3, BoundAssumption DEF Informed, Grows, Id
<1>6. HasReg(l)' => leg[l].reg \in Id /\ leg[l].reg <= minted'[SideOf(l)]
  BY <1>2, <1>4, <1>5 DEF Need, HasReg
<1>7. HasFound(l)' => leg[l].reg \in Found(SideOf(l))'
  BY <1>2 DEF Need, HasFound, SideOf, Found
<1>8. l \in Accept /\ (Answered(l)' \/ p = "answer") => minted'["inviter"] > 0
  BY <1>2 DEF Need, Answered
<1> QED BY <1>2, <1>4, <1>6, <1>7, <1>8 DEF Informed, Need

LEMMA AgainInformed ==
  ASSUME IInv, Grows, TypeOK', NEW l \in Leg, leg[l].activity # "none", Again(l)
  PROVE  Informed(l)'
<1>1. /\ TypeOK /\ Informed(l) /\ SideOf(l) \in Side /\ "inviter" \in Side
      /\ leg[l].activity \in {"invitationAcceptance", "reciprocalRegistration", "reciprocalWebhook"}
      /\ leg[l].pc # "unrecorded"
  BY Sides, ActivityAt, Activities DEF IInv, Started, Steps, Side
<1>2. minted["inviter"] \in Nat /\ minted'["inviter"] \in Nat
  BY <1>1, BoundAssumption DEF TypeOK
<1>3. l \in Accept /\ Answered(l) => minted'["inviter"] > 0
  BY <1>1, <1>2 DEF Informed, Grows
<1>4. HasFound(l) => leg[l].reg \in Found(SideOf(l))'
  BY <1>1 DEF Informed, Grows, Found
<1>5. CASE leg[l].activity = "invitationAcceptance"
  <2>1. Need(l, "invitationAcceptance", "post") /\ Need(l, "none", "failed")
    BY <1>1, <1>5 DEF Need, Informed
  <2> QED BY <2>1, <1>5, StepsOf, InformedNow DEF Again
<1>6. CASE leg[l].activity = "reciprocalRegistration"
  <2>1. Need(l, "reciprocalRegistration", "load") /\ Need(l, "none", "failed")
    BY <1>1, <1>3, <1>4, <1>6 DEF Need, HasReg, HasFound, Answered
  <2> QED BY <2>1, <1>6, StepsOf, InformedNow DEF Again
<1>7. CASE leg[l].activity = "reciprocalWebhook"
  <2>1. HasReg(l) /\ HasFound(l) /\ leg[l].reg \in Id
    BY <1>1, <1>7 DEF HasReg, HasFound, Informed
  <2>2. reciprocal'[SideOf(l)][leg[l].reg] # {}
    BY <2>1, <1>1, <1>7 DEF Informed, Grows
  <2>3. Need(l, "reciprocalWebhook", "find") /\ Need(l, "none", "failed")
    BY <2>1, <2>2, <1>1, <1>3, <1>4, <1>7 DEF Need, Answered
  <2> QED BY <2>3, <1>7, StepsOf, InformedNow DEF Again
<1> QED BY <1>1, <1>5, <1>6, <1>7

(* Of the leg that moves, action by action.                                 *)
LEMMA MovedInformed ==
  ASSUME IInv, Grows, TypeOK', NEW l \in Leg, Deliver(l) \/ LegStep(l) \/ Crash(l)
  PROVE  /\ Informed(l)'
         /\ \A m \in Leg : m # l => leg'[m] = leg[m]
<1>1. /\ TypeOK /\ Informed(l) /\ SideOf(l) \in Side /\ "inviter" \in Side
      /\ minted["inviter"] \in Nat /\ minted'["inviter"] \in Nat
      /\ channels[SideOf(l)] \in Nat /\ channels'[SideOf(l)] \in Nat
  BY Sides, BoundAssumption DEF IInv, TypeOK, Side
<1>2. Found(SideOf(l)) \subseteq Found(SideOf(l))'
  BY <1>1 DEF Grows, Found
<1>3. HasFound(l) => leg[l].reg \in Found(SideOf(l))'
  BY <1>1, <1>2 DEF Informed
<1>4. l \in Accept /\ (Answered(l) \/ leg[l].pc = "answer") => minted'["inviter"] > 0
  BY <1>1 DEF Informed, Grows
<1>5. HasReg(l) => leg[l].reg \in Id
  BY <1>1 DEF Informed
<1>6. HasReg(l) /\ reciprocal[SideOf(l)][leg[l].reg] # {} => reciprocal'[SideOf(l)][leg[l].reg] # {}
  BY <1>1, <1>5 DEF Grows
<1>7. ASSUME NEW a, NEW p, Stays(l, a, p) PROVE \A m \in Leg : m # l => leg'[m] = leg[m]
  BY <1>7 DEF Stays, Moves
<1>8. ASSUME Again(l) PROVE \A m \in Leg : m # l => leg'[m] = leg[m]
  BY <1>7, <1>8 DEF Again
<1>9. CASE Deliver(l)
  <2>1. leg[l].pc = "recorded" /\ leg[l].activity = "none"
    BY <1>1, <1>9, DeliverStep
  <2>2. CASE l \in Accept
    <3>1. Stays(l, "invitationAcceptance", "post") /\ l \notin Establish
      BY <1>1, <1>9, <2>2, DeliverStep, Sides
    <3>2. Need(l, "invitationAcceptance", "post")
      BY <2>1, <3>1 DEF Need
    <3> QED BY <1>7, <3>1, <3>2, InformedNow
  <2>3. CASE l \notin Accept
    <3>1. Stays(l, "reciprocalRegistration", "load") /\ l \in Establish
      BY <1>1, <1>9, <2>3, DeliverStep DEF Leg
    <3>2. Need(l, "reciprocalRegistration", "load")
      BY <2>1, <2>3, <3>1 DEF Need, HasReg
    <3> QED BY <1>7, <3>1, <3>2, InformedNow
  <2> QED BY <2>2, <2>3
<1>10. CASE LoadRegistration(l)
  <2>1. leg[l].activity = "reciprocalRegistration" /\ leg[l].pc = "load"
    BY <1>1, <1>10, LoadRegistrationStep
  <2>2. HasReg(l) /\ leg[l].reg \in Id /\ (l \in Accept => HasFound(l) /\ Answered(l))
    BY <2>1, <1>5 DEF HasReg, HasFound, Answered
  <2>3. Own(l) \in {"bare", "full"} => leg[l].reg \in Found(SideOf(l))'
    BY <1>2, <2>2 DEF Own, Found
  <2>4. Need(l, "reciprocalRegistration", "shell")
    BY <1>3, <1>4, <2>1, <2>2 DEF Need
  <2>5. Own(l) \in {"bare", "full"} => Need(l, "reciprocalRegistration", "discover")
    BY <1>3, <1>4, <2>1, <2>2, <2>3 DEF Need
  <2>6. Own(l) \in {"bare", "full"} /\ reciprocal[SideOf(l)][leg[l].reg] # {}
          => Need(l, "reciprocalWebhook", "find")
    BY <1>3, <1>4, <1>6, <2>1, <2>2, <2>3 DEF Need
  <2> QED BY <1>1, <1>7, <1>8, <1>10, <2>1, <2>4, <2>5, <2>6, LoadRegistrationStep,
             InformedNow, AgainInformed
<1>11. CASE CreateAtId(l)
  <2>1. /\ leg[l].activity = "reciprocalRegistration" /\ leg[l].pc = "shell"
        /\ \/ /\ Stays(l, "reciprocalRegistration", "body")
              /\ Sets(SideOf(l), leg[l].reg, "shell")
           \/ Again(l)
    BY <1>11, CreateAtIdStep
  <2>2. HasReg(l) /\ (l \in Accept => HasFound(l) /\ Answered(l))
    BY <2>1 DEF HasReg, HasFound, Answered
  <2>3. Sets(SideOf(l), leg[l].reg, "shell") => Need(l, "reciprocalRegistration", "body")
    BY <1>3, <1>4, <2>1, <2>2 DEF Need, Sets
  <2> QED BY <1>7, <1>8, <2>1, <2>3, InformedNow, AgainInformed
<1>12. CASE WriteBody(l)
  <2>1. /\ leg[l].activity \in {"invitationAcceptance", "reciprocalRegistration"}
        /\ leg[l].pc = "body" /\ leg[l].reg \in Id /\ Own(l) \in {"shell", "bare", "full"}
        /\ Stays(l, leg[l].activity, "acr")
        /\ Sets(SideOf(l), leg[l].reg, IF Own(l) = "shell" THEN "bare" ELSE Own(l))
    BY <1>12, WriteBodyStep
  <2>2. HasReg(l) /\ (l \in Accept => Answered(l))
    BY <2>1 DEF HasReg, Answered
  <2>3. leg[l].reg \in Found(SideOf(l))'
    BY <2>1 DEF Sets, Found, SideOf
  <2>4. Need(l, leg[l].activity, "acr")
    BY <1>1, <1>4, <2>1, <2>2, <2>3 DEF Need, Informed
  <2> QED BY <1>7, <2>1, <2>4, InformedNow
<1>13. CASE SetAcr(l)
  <2>1. /\ leg[l].activity \in {"invitationAcceptance", "reciprocalRegistration"}
        /\ leg[l].pc = "acr"
    BY <1>13, SetAcrStep
  <2>2. HasReg(l) /\ HasFound(l) /\ (l \in Accept => Answered(l))
    BY <2>1 DEF HasReg, HasFound, Answered
  <2>3. Need(l, "reciprocalRegistration", "load") /\ Need(l, "reciprocalRegistration", "discover")
    BY <1>3, <1>4, <2>1, <2>2 DEF Need
  <2> QED BY <1>7, <1>8, <1>13, <2>1, <2>3, SetAcrStep, InformedNow, AgainInformed
<1>14. CASE DiscoverReciprocal(l)
  <2>1. leg[l].activity = "reciprocalRegistration" /\ leg[l].pc = "discover" /\ leg[l].reg \in Id
    BY <1>14, DiscoverReciprocalStep
  <2>2. HasReg(l) /\ HasFound(l) /\ (l \in Accept => Answered(l))
    BY <2>1 DEF HasReg, HasFound, Answered
  <2>3. CASE Again(l)
    BY <1>8, <2>1, <2>3, AgainInformed
  <2>4. CASE ~ Again(l)
    <3>1. PICK i \in Found(Peer(SideOf(l))) :
             reciprocal' = [reciprocal EXCEPT ![SideOf(l)][leg[l].reg] = @ \cup {i}]
      BY <1>14, <2>4, DiscoverReciprocalStep
    <3>2. Stays(l, "reciprocalWebhook", "find")
      BY <1>14, <2>4, DiscoverReciprocalStep
    <3>3. i \in Id
      BY DEF Found
    <3>4. reciprocal'[SideOf(l)][leg[l].reg] # {}
      BY <1>1, <2>1, <3>1, <3>3, LinkAdded
    <3>5. Need(l, "reciprocalWebhook", "find")
      BY <1>3, <1>4, <2>1, <2>2, <3>4 DEF Need
    <3> QED BY <1>7, <3>2, <3>5, InformedNow
  <2> QED BY <2>3, <2>4
<1>15. CASE FindChannel(l)
  <2>1. leg[l].activity = "reciprocalWebhook" /\ leg[l].pc = "find"
    BY <1>1, <1>15, FindChannelStep
  <2>2. HasReg(l) /\ HasFound(l) /\ (l \in Accept => Answered(l))
        /\ reciprocal[SideOf(l)][leg[l].reg] # {}
    BY <1>1, <2>1 DEF HasReg, HasFound, Answered, Informed
  <2>3. Need(l, "reciprocalWebhook", "subscribe")
    BY <1>3, <1>4, <1>6, <2>1, <2>2 DEF Need
  <2>4. channels[SideOf(l)] # 0 => Need(l, "none", "done")
    BY <1>1, <1>3, <1>4, <1>6, <2>1, <2>2 DEF Need, Grows
  <2> QED BY <1>1, <1>7, <1>15, <2>3, <2>4, FindChannelStep, InformedNow
<1>16. CASE Subscribe(l)
  <2>1. leg[l].activity = "reciprocalWebhook" /\ leg[l].pc = "subscribe" /\ UNCHANGED reg
    BY <1>16, SubscribeStep DEF there
  <2>2. HasReg(l) /\ HasFound(l) /\ (l \in Accept => Answered(l))
        /\ reciprocal[SideOf(l)][leg[l].reg] # {}
    BY <1>1, <2>1 DEF HasReg, HasFound, Answered, Informed
  <2>3. CASE Again(l)
    BY <1>8, <2>1, <2>3, AgainInformed
  <2>4. CASE ~ Again(l)
    <3>1. /\ \E i \in Id : reg[Peer(SideOf(l))][i] = "full"
          /\ Stays(l, "reciprocalWebhook", "store")
      BY <1>16, <2>4, SubscribeStep
    <3>2. Need(l, "reciprocalWebhook", "store")
      BY <1>3, <1>4, <1>6, <2>1, <2>2, <3>1 DEF Need
    <3> QED BY <1>7, <3>1, <3>2, InformedNow
  <2> QED BY <2>3, <2>4
<1>17. CASE StoreChannel(l)
  <2>1. leg[l].activity = "reciprocalWebhook" /\ leg[l].pc = "store"
    BY <1>17, StoreChannelStep
  <2>2. HasReg(l) /\ HasFound(l) /\ (l \in Accept => Answered(l))
        /\ reciprocal[SideOf(l)][leg[l].reg] # {}
    BY <1>1, <2>1 DEF HasReg, HasFound, Answered, Informed
  <2>3. CASE Again(l)
    BY <1>8, <2>1, <2>3, AgainInformed
  <2>4. CASE ~ Again(l)
    <3>1. /\ channels' = [channels EXCEPT ![SideOf(l)] = channels[SideOf(l)] + 1]
          /\ Stays(l, "none", "done")
      BY <1>17, <2>4, StoreChannelStep
    <3>2. channels'[SideOf(l)] > 0
      BY <1>1, <3>1 DEF TypeOK
    <3>3. Need(l, "none", "done")
      BY <1>3, <1>4, <1>6, <2>1, <2>2, <3>2 DEF Need
    <3> QED BY <1>7, <3>1, <3>3, InformedNow
  <2> QED BY <2>3, <2>4
<1>18. CASE Crash(l)
  BY <1>1, <1>8, <1>18, CrashStep, AgainInformed
<1> QED BY <1>9, <1>10, <1>11, <1>12, <1>13, <1>14, <1>15, <1>16, <1>17, <1>18 DEF LegStep

LEMMA AcceptInformed ==
  ASSUME IInv, Grows, TypeOK', NEW a \in Accept, RecordAccept(a) \/ AcceptStep(a)
  PROVE  \A m \in Leg : Informed(m)'
<1>1. /\ TypeOK /\ a \in Leg /\ Informed(a) /\ SideOf(a) = "acceptor" /\ a \notin Establish
      /\ "inviter" \in Side /\ "acceptor" \in Side
      /\ minted["inviter"] \in Nat /\ minted'["inviter"] \in Nat
      /\ minted["acceptor"] \in Nat /\ minted'["acceptor"] \in Nat
  BY Sides, BoundAssumption DEF IInv, TypeOK, Side, Leg
<1>2. /\ Answered(a) \/ leg[a].pc = "answer" => minted'["inviter"] > 0
      /\ Found("acceptor") \subseteq Found("acceptor")'
  BY <1>1 DEF Informed, Grows, Found
<1>3. ASSUME \A m \in Leg : m # a => leg'[m] = leg[m], Informed(a)'
      PROVE  \A m \in Leg : Informed(m)'
  BY <1>3, InformedLasts
<1>4. ASSUME NEW b, NEW p, Stays(a, b, p) PROVE \A m \in Leg : m # a => leg'[m] = leg[m]
  BY <1>4 DEF Stays, Moves
<1>5. CASE RecordAccept(a)
  <2>1. Moves(a, "none", "recorded", invitation.link, leg[a].reg)
    BY <1>1, <1>5, RecordAcceptStep
  <2>2. Informed(a)'
    BY <1>1, <2>1 DEF Moves, Informed, HasReg, HasFound, Answered
  <2> QED BY <1>3, <2>1, <2>2 DEF Moves
<1>6. CASE Post(a)
  <2>1. leg[a].activity = "invitationAcceptance" /\ leg[a].pc = "post"
    BY <1>1, <1>6, PostStep
  <2>2. CASE Again(a)
    BY <1>1, <1>3, <1>4, <2>1, <2>2, AgainInformed DEF Again
  <2>3. CASE Stays(a, "invitationAcceptance", "record")
    <3>1. Need(a, "invitationAcceptance", "record")
      BY <1>1, <2>1 DEF Need
    <3> QED BY <1>1, <1>3, <1>4, <2>3, <3>1, InformedNow
  <2>4. CASE Stays(a, "invitationAcceptance", "answer") /\ Found("inviter") # {}
    <3>1. PICK i \in Id : reg["inviter"][i] # "none"
      BY <2>4 DEF Found
    <3>2. i <= minted["inviter"] /\ i \in Nat \ {0}
      BY <1>1, <3>1, Sides DEF TypeOK
    <3>3. minted'["inviter"] > 0
      BY <1>1, <3>2 DEF Grows
    <3>4. Need(a, "invitationAcceptance", "answer")
      BY <1>1, <2>1, <3>3 DEF Need
    <3> QED BY <1>1, <1>3, <1>4, <2>4, <3>4, InformedNow
  <2> QED BY <1>1, <1>6, <2>2, <2>3, <2>4, PostStep
<1>7. CASE RecordAdded(a)
  <2>0. PICK i \in Id, e \in Leg : i = minted["inviter"] + 1 /\ e = <<"inviter", i>>
    BY <1>7, RecordAddedStep
  <2>1. /\ i \in Id /\ e \in Leg /\ e # a
        /\ leg'[a].activity = "invitationAcceptance" /\ leg'[a].pc = "answer"
        /\ leg'[e].activity = "none" /\ leg'[e].pc = "recorded" /\ leg'[e].reg = i
        /\ \A m \in Leg : m # a /\ m # e => leg'[m] = leg[m]
        /\ minted' = [minted EXCEPT !["inviter"] = i]
    BY <1>7, <2>0, RecordAddedStep
  <2>2. minted'["inviter"] = i /\ minted'["inviter"] > 0
    BY <1>1, <2>0, <2>1 DEF TypeOK
  <2>3. e \in Establish /\ e \notin Accept /\ SideOf(e) = "inviter" /\ e[2] = i
    BY <2>0, Sides
  <2>4. Informed(a)'
    BY <1>1, <2>1, <2>2 DEF Informed, HasReg, HasFound
  <2>5. Informed(e)'
    <3>1. ~ HasFound(e)' /\ leg'[e].reg = i /\ i <= minted'["inviter"]
      BY <1>1, <2>1, <2>2 DEF HasFound
    <3> QED BY <1>1, <2>1, <2>3, <3>1 DEF Informed, SideOf
  <2> QED BY <2>1, <2>4, <2>5, InformedLasts
<1>8. CASE SetRegisteredAgent(a)
  <2>1. /\ leg[a].activity = "invitationAcceptance" /\ leg[a].pc = "answer"
        /\ Stays(a, "invitationAcceptance", "own")
    BY <1>1, <1>8, SetRegisteredAgentStep
  <2>2. Need(a, "invitationAcceptance", "own")
    BY <1>1, <1>2, <2>1 DEF Need
  <2> QED BY <1>1, <1>3, <1>4, <2>1, <2>2, InformedNow
<1>9. CASE AddRegistration(a)
  <2>1. leg[a].activity = "invitationAcceptance" /\ leg[a].pc = "own"
    BY <1>1, <1>9, AddRegistrationStep
  <2>2. minted'["inviter"] > 0
    BY <1>2, <2>1 DEF Answered
  <2>3. ASSUME NEW o \in Found("acceptor"),
               Moves(a, "reciprocalRegistration", "load", leg[a].link, o)
        PROVE  \A m \in Leg : Informed(m)'
    <3>1. o \in Id /\ o \in Found("acceptor")' /\ o \in Nat
      BY <1>2, Sides DEF Found
    <3>2. o <= minted'["acceptor"]
      BY <1>1, <3>1 DEF TypeOK, Found
    <3>3. leg'[a].activity = "reciprocalRegistration" /\ leg'[a].pc = "load" /\ leg'[a].reg = o
      BY <2>3 DEF Moves
    <3>4. Informed(a)'
      BY <1>1, <2>2, <3>1, <3>2, <3>3 DEF Informed, SideOf, Found
    <3> QED BY <1>3, <2>3, <3>4 DEF Moves
  <2>4. CASE LET i == minted["acceptor"] + 1
             IN /\ Found("acceptor") = {} /\ i \in Id
                /\ minted' = [minted EXCEPT !["acceptor"] = i]
                /\ reg' = [reg EXCEPT !["acceptor"][i] = "shell"]
                /\ Moves(a, "invitationAcceptance", "body", leg[a].link, i)
    <3> DEFINE i == minted["acceptor"] + 1
    <3>1. i \in Id /\ minted'["acceptor"] = i
      BY <1>1, <2>4 DEF TypeOK
    <3>2. reg'["acceptor"][i] = "shell"
      BY <1>1, <2>4, <3>1, SetsReg DEF Sets
    <3>3. leg'[a].activity = "invitationAcceptance" /\ leg'[a].pc = "body" /\ leg'[a].reg = i
      BY <2>4 DEF Moves
    <3> HIDE DEF i
    <3>4. Informed(a)'
      <4>1. i <= minted'["acceptor"]
        BY <1>1, <3>1
      <4> QED BY <1>1, <2>2, <3>1, <3>2, <3>3, <4>1 DEF Informed, HasReg, HasFound, SideOf
    <3> QED BY <1>3, <2>4, <3>4 DEF Moves
  <2> QED BY <1>1, <1>9, <2>3, <2>4, AddRegistrationStep
<1> QED BY <1>5, <1>6, <1>7, <1>8, <1>9 DEF AcceptStep

LEMMA InformedStep == ASSUME IInv, [Next]_vars PROVE \A m \in Leg : Informed(m)'
<1>0. TypeOK /\ Grows /\ TypeOK'
  BY NextGrows, TypeStep DEF IInv
<1>1. CASE UNCHANGED leg
  BY <1>0, <1>1, InformedLasts
<1>2. ASSUME NEW l \in Leg, Deliver(l) \/ LegStep(l) \/ Crash(l)
      PROVE  \A m \in Leg : Informed(m)'
  BY <1>0, <1>2, MovedInformed, InformedLasts
<1>3. ASSUME NEW c \in Creation, Inviting(c) PROVE UNCHANGED leg
  BY <1>0, <1>3, InvitingStep
<1> QED BY <1>0, <1>1, <1>2, <1>3, AcceptInformed DEF Next, Inviting, vars

-----------------------------------------------------------------------------
LEMMA AnnouncedStep == ASSUME IInv, [Next]_vars PROVE Announced'
<1>1. /\ TypeOK /\ Announced /\ "inviter" \in Side
      /\ \A i \in Id : <<"inviter", i>> \in Leg
      /\ \A a \in Accept : a \in Leg
      /\ \A a \in Accept, i \in Id : a # <<"inviter", i>>
  BY Sides DEF IInv, Side, Leg
<1>2. ASSUME NEW l \in Leg, NEW a, NEW p, NEW k, NEW i, Moves(l, a, p, k, i),
             leg[l].pc # "unrecorded" \/ l \in Accept, p # "unrecorded",
             minted'["inviter"] = minted["inviter"]
      PROVE  Announced'
  BY <1>1, <1>2 DEF Moves, Announced
<1>3. ASSUME NEW l \in Leg, leg[l].activity # "none", Again(l), minted'["inviter"] = minted["inviter"]
      PROVE  Announced'
  <2>1. leg[l].pc # "unrecorded" /\ First[leg[l].activity] # "unrecorded"
    BY <1>1, <1>3, ActivityAt, Activities, StepsOf DEF Started, Steps
  <2> QED BY <1>2, <1>3, <2>1 DEF Again, Stays
<1>4. ASSUME NEW c \in Creation, Inviting(c) PROVE Announced'
  BY <1>1, <1>4, InvitingStep DEF there, Announced
<1>5. ASSUME NEW a \in Accept, RecordAccept(a) \/ Post(a) \/ SetRegisteredAgent(a) PROVE Announced'
  <2>1. minted'["inviter"] = minted["inviter"] /\ a \in Leg
    BY <1>1, <1>5, RecordAcceptStep, PostStep, SetRegisteredAgentStep DEF there
  <2>2. CASE RecordAccept(a)
    BY <1>1, <1>2, <2>1, <2>2, RecordAcceptStep
  <2>3. CASE Post(a)
    BY <1>1, <1>2, <1>3, <2>1, <2>3, PostStep DEF Stays
  <2>4. CASE SetRegisteredAgent(a)
    BY <1>1, <1>2, <2>1, <2>4, SetRegisteredAgentStep DEF Stays
  <2> QED BY <1>5, <2>2, <2>3, <2>4
<1>6. ASSUME NEW a \in Accept, RecordAdded(a) PROVE Announced'
  <2>0. PICK n \in Id, e \in Leg : n = minted["inviter"] + 1 /\ e = <<"inviter", n>>
    BY <1>6, RecordAddedStep
  <2>1. /\ n \in Id /\ e \in Leg
        /\ leg'[e].pc = "recorded"
        /\ \A m \in Leg : m # a /\ m # e => leg'[m] = leg[m]
        /\ minted' = [minted EXCEPT !["inviter"] = n]
    BY <1>6, <2>0, RecordAddedStep
  <2>2. minted'["inviter"] = n /\ minted["inviter"] \in Nat /\ Id \subseteq Nat
    BY <1>1, <2>1, Minted, Sides DEF TypeOK
  <2> SUFFICES ASSUME NEW i \in Id
               PROVE  leg'[<<"inviter", i>>].pc = "unrecorded" <=> i > minted'["inviter"]
    BY DEF Announced
  <2>3. CASE i = n
    BY <2>0, <2>1, <2>2, <2>3
  <2>4. CASE i # n
    <3>1. <<"inviter", i>> # e
      BY <2>0, <2>4
    <3>2. leg'[<<"inviter", i>>] = leg[<<"inviter", i>>]
      BY <1>1, <2>1, <3>1
    <3>3. i > minted["inviter"] <=> i > minted'["inviter"]
      BY <2>0, <2>2, <2>4
    <3> QED BY <1>1, <3>2, <3>3 DEF Announced
  <2> QED BY <2>3, <2>4
<1>7. ASSUME NEW a \in Accept, AddRegistration(a) PROVE Announced'
  <2>1. minted'["inviter"] = minted["inviter"]
    BY <1>1, <1>7, AddRegistrationStep DEF TypeOK
  <2>2. PICK i : \/ Moves(a, "reciprocalRegistration", "load", leg[a].link, i)
                 \/ Moves(a, "invitationAcceptance", "body", leg[a].link, i)
    BY <1>1, <1>7, AddRegistrationStep
  <2> QED BY <1>1, <1>2, <2>1, <2>2
<1>8. ASSUME NEW l \in Leg, Deliver(l) \/ LoadRegistration(l) \/ FindChannel(l) \/ Crash(l)
      PROVE  Announced'
  <2>1. minted'["inviter"] = minted["inviter"]
    BY <1>1, <1>8, DeliverStep, LoadRegistrationStep, FindChannelStep, CrashStep DEF there
  <2>2. CASE Deliver(l)
    BY <1>1, <1>2, <2>1, <2>2, DeliverStep DEF Stays
  <2>3. CASE LoadRegistration(l)
    BY <1>1, <1>2, <1>3, <2>1, <2>3, LoadRegistrationStep DEF Stays
  <2>4. CASE FindChannel(l)
    BY <1>1, <1>2, <2>1, <2>4, FindChannelStep DEF Stays
  <2>5. CASE Crash(l)
    BY <1>1, <1>3, <2>1, <2>5, CrashStep
  <2> QED BY <1>8, <2>2, <2>3, <2>4, <2>5
<1>9. ASSUME NEW l \in Leg, CreateAtId(l) \/ WriteBody(l) \/ SetAcr(l) PROVE Announced'
  <2>1. minted'["inviter"] = minted["inviter"]
    BY <1>9, CreateAtIdStep, WriteBodyStep, SetAcrStep
  <2>2. CASE CreateAtId(l)
    BY <1>2, <1>3, <2>1, <2>2, CreateAtIdStep DEF Stays
  <2>3. CASE WriteBody(l)
    BY <1>2, <2>1, <2>3, WriteBodyStep DEF Stays
  <2>4. CASE SetAcr(l)
    BY <1>2, <1>3, <2>1, <2>4, SetAcrStep DEF Stays
  <2> QED BY <1>9, <2>2, <2>3, <2>4
<1>10. ASSUME NEW l \in Leg, DiscoverReciprocal(l) \/ Subscribe(l) \/ StoreChannel(l) PROVE Announced'
  <2>1. minted'["inviter"] = minted["inviter"]
    BY <1>10, DiscoverReciprocalStep, SubscribeStep, StoreChannelStep DEF registering, there
  <2>2. CASE DiscoverReciprocal(l)
    BY <1>2, <1>3, <2>1, <2>2, DiscoverReciprocalStep DEF Stays
  <2>3. CASE Subscribe(l)
    BY <1>2, <1>3, <2>1, <2>3, SubscribeStep DEF Stays
  <2>4. CASE StoreChannel(l)
    BY <1>2, <1>3, <2>1, <2>4, StoreChannelStep DEF Stays
  <2> QED BY <1>10, <2>2, <2>3, <2>4
<1>11. CASE UNCHANGED vars
  BY <1>1, <1>11 DEF vars, Announced
<1> QED BY <1>4, <1>5, <1>6, <1>7, <1>8, <1>9, <1>10, <1>11
        DEF Next, Inviting, AcceptStep, LegStep

-----------------------------------------------------------------------------
LEMMA ConnectionsStep == ASSUME IInv, [Next]_vars PROVE Connections'
<1>0. /\ TypeOK /\ Grows /\ TypeOK' /\ Connections
      /\ \A s \in Side : /\ Peer(s) \in Side /\ Found(Peer(s)) \subseteq Id
                         /\ Found(Peer(s)) \subseteq Found(Peer(s))'
      /\ \A l \in Leg : SideOf(l) \in Side
      /\ \A a \in Accept : a \in Leg
  <2>1. Grows /\ TypeOK'
    BY NextGrows, TypeStep
  <2>2. \A s \in Side : Peer(s) \in Side
    BY DEF Peer, Side
  <2> QED BY <2>1, <2>2, Sides DEF IInv, Grows, Found, Leg
<1>2. UNCHANGED reciprocal
        => \A s \in Side, i \in Id : reciprocal'[s][i] \subseteq Found(Peer(s))'
  BY <1>0 DEF Connections
<1>3. UNCHANGED channels
        => \A s \in Side : channels'[s] > 0 => \E i \in Id : reg'[Peer(s)][i] = "full"
  BY <1>0 DEF Connections, Grows
<1>4. UNCHANGED <<reciprocal, channels>> => Connections'
  BY <1>2, <1>3 DEF Connections, Peer, Found
<1>5. ASSUME NEW l \in Leg, DiscoverReciprocal(l) PROVE Connections'
  <2>1. UNCHANGED <<reg, channels>> /\ leg[l].reg \in Id
    BY <1>5, DiscoverReciprocalStep DEF registering
  <2>2. CASE UNCHANGED reciprocal
    BY <1>4, <2>1, <2>2
  <2>3. ASSUME NEW o \in Found(Peer(SideOf(l))),
               reciprocal' = [reciprocal EXCEPT ![SideOf(l)][leg[l].reg] = @ \cup {o}]
        PROVE  Connections'
    <3> SUFFICES ASSUME NEW s \in Side, NEW i \in Id
                 PROVE  reciprocal'[s][i] \subseteq Found(Peer(s))'
      BY <1>3, <2>1 DEF Connections, Peer, Found
    <3>1. o \in Id /\ SideOf(l) \in Side
      BY <1>0
    <3>2. CASE s = SideOf(l) /\ i = leg[l].reg
      <4>1. reciprocal'[s][i] = reciprocal[s][i] \cup {o}
        BY <1>0, <2>1, <2>3, <3>1, <3>2, LinkAdded
      <4>2. o \in Found(Peer(s)) /\ reciprocal[s][i] \subseteq Found(Peer(s))
        BY <1>0, <3>2 DEF Connections
      <4> QED BY <1>0, <4>1, <4>2
    <3>3. CASE ~ (s = SideOf(l) /\ i = leg[l].reg)
      <4>1. reciprocal'[s][i] = reciprocal[s][i]
        BY <1>0, <2>1, <2>3, <3>1, <3>3, LinkAdded
      <4> QED BY <1>0, <4>1 DEF Connections
    <3> QED BY <3>2, <3>3
  <2> QED BY <1>5, <2>2, <2>3, DiscoverReciprocalStep
<1>6. ASSUME NEW l \in Leg, StoreChannel(l) PROVE Connections'
  <2>1. UNCHANGED <<reg, reciprocal>>
    BY <1>6, StoreChannelStep DEF registering
  <2>2. ASSUME channels' = [channels EXCEPT ![SideOf(l)] = channels[SideOf(l)] + 1],
               \E i \in Id : reg[Peer(SideOf(l))][i] = "full"
        PROVE  Connections'
    <3> SUFFICES ASSUME NEW s \in Side, channels'[s] > 0
                 PROVE  \E i \in Id : reg'[Peer(s)][i] = "full"
      BY <1>2, <2>1 DEF Connections, Peer, Found
    <3>1. CASE s = SideOf(l)
      BY <2>1, <2>2, <3>1
    <3>2. CASE s # SideOf(l)
      <4>1. channels'[s] = channels[s]
        BY <1>0, <2>2, <3>2 DEF TypeOK
      <4> QED BY <1>0, <2>1, <4>1 DEF Connections
    <3> QED BY <3>1, <3>2
  <2> QED BY <1>6, <2>2, StoreChannelStep
<1>7. ASSUME NEW c \in Creation, Inviting(c) PROVE Connections'
  BY <1>0, <1>4, <1>7, InvitingStep DEF there
<1>8. ASSUME NEW a \in Accept, RecordAccept(a) \/ AcceptStep(a) PROVE Connections'
  BY <1>4, <1>8 DEF RecordAccept, AcceptStep, Post, RecordAdded, SetRegisteredAgent,
                    AddRegistration, connecting
<1>9. ASSUME NEW l \in Leg, \/ Deliver(l) \/ LoadRegistration(l) \/ CreateAtId(l) \/ WriteBody(l)
                            \/ SetAcr(l) \/ FindChannel(l) \/ Subscribe(l) \/ Crash(l)
      PROVE  Connections'
  BY <1>4, <1>9 DEF Deliver, LoadRegistration, CreateAtId, WriteBody, SetAcr, FindChannel,
                    Subscribe, Crash, connecting
<1>10. CASE UNCHANGED vars
  BY <1>4, <1>10 DEF vars
<1> QED BY <1>5, <1>6, <1>7, <1>8, <1>9, <1>10 DEF Next, Inviting, LegStep

-----------------------------------------------------------------------------
LEMMA AttendedStep == ASSUME IInv, [Next]_vars PROVE Attended'
<1>0. /\ TypeOK /\ TypeOK' /\ Attended
      /\ \A a \in Accept : a \in Leg
  BY TypeStep DEF IInv, Leg
<1> SUFFICES ASSUME NEW s \in Side, NEW i \in Id, reg'[s][i] = "bare", ~ torn'[s]
             PROVE  \E m \in Leg : SideOf(m) = s /\ leg'[m].reg = i /\ leg'[m].pc = "acr"
  BY DEF Attended, SideOf
<1>1. reg[s][i] = "bare" /\ ~ torn[s]
        => \E m \in Leg : SideOf(m) = s /\ leg[m].reg = i /\ leg[m].pc = "acr"
  BY <1>0 DEF Attended
<1>2. ASSUME NEW l \in Leg, leg[l].pc # "acr", \A m \in Leg : m # l => leg'[m] = leg[m],
             reg[s][i] = "bare", ~ torn[s]
      PROVE  \E m \in Leg : SideOf(m) = s /\ leg'[m].reg = i /\ leg'[m].pc = "acr"
  BY <1>1, <1>2
<1>m. ASSUME NEW l \in Leg, NEW a, NEW p, NEW k, NEW j, Moves(l, a, p, k, j)
      PROVE  \A m \in Leg : m # l => leg'[m] = leg[m]
  BY <1>m DEF Moves
<1>s. ASSUME NEW l \in Leg, NEW a, NEW p, Stays(l, a, p)
      PROVE  \A m \in Leg : m # l => leg'[m] = leg[m]
  BY <1>s, <1>m DEF Stays
<1>a. ASSUME NEW l \in Leg, Again(l) PROVE \A m \in Leg : m # l => leg'[m] = leg[m]
  BY <1>a, <1>s DEF Again
<1> DEFINE Goal == \E m \in Leg : SideOf(m) = s /\ leg'[m].reg = i /\ leg'[m].pc = "acr"
<1>3. ASSUME NEW c \in Creation, Inviting(c) PROVE Goal
  BY <1>0, <1>1, <1>3, InvitingStep DEF there
<1>4. ASSUME NEW a \in Accept, RecordAccept(a) PROVE Goal
  BY <1>0, <1>2, <1>4, <1>m, RecordAcceptStep DEF there
<1>5. ASSUME NEW a \in Accept, Post(a) PROVE Goal
  <2>1. /\ leg[a].pc = "post" /\ UNCHANGED <<there, torn, forgotten>>
        /\ \A m \in Leg : m # a => leg'[m] = leg[m]
    BY <1>0, <1>5, <1>s, <1>a, PostStep
  <2> QED BY <1>0, <1>2, <2>1 DEF there
<1>6. ASSUME NEW a \in Accept, SetRegisteredAgent(a) PROVE Goal
  BY <1>0, <1>2, <1>6, <1>s, SetRegisteredAgentStep DEF there
<1>7. ASSUME NEW a \in Accept, RecordAdded(a) PROVE Goal
  <2>1. PICK e \in Leg : /\ leg[e].pc = "unrecorded"
                         /\ \A m \in Leg : m # a /\ m # e => leg'[m] = leg[m]
    BY <1>7, RecordAddedStep
  <2>2. leg[a].pc = "record" /\ UNCHANGED <<reg, torn, forgotten>>
    BY <1>7, RecordAddedStep
  <2> QED BY <1>1, <2>1, <2>2
<1>8. ASSUME NEW a \in Accept, AddRegistration(a) PROVE Goal
  <2>1. /\ leg[a].pc = "own" /\ UNCHANGED torn
        /\ \A m \in Leg : m # a => leg'[m] = leg[m]
    BY <1>0, <1>8, <1>m, AddRegistrationStep
  <2>2. reg[s][i] = "bare"
    BY <1>8, AddRegistrationGrows DEF Sets, there
  <2> QED BY <1>0, <1>2, <2>1, <2>2
<1>9. ASSUME NEW l \in Leg, Deliver(l) \/ LoadRegistration(l) \/ FindChannel(l) PROVE Goal
  <2>1. /\ leg[l].pc # "acr" /\ UNCHANGED <<there, torn, forgotten>>
        /\ \A m \in Leg : m # l => leg'[m] = leg[m]
    BY <1>0, <1>9, <1>s, <1>a, DeliverStep, LoadRegistrationStep, FindChannelStep
  <2> QED BY <1>2, <2>1 DEF there
<1>10. ASSUME NEW l \in Leg, CreateAtId(l) PROVE Goal
  <2>1. /\ leg[l].pc = "shell" /\ UNCHANGED torn
        /\ \A m \in Leg : m # l => leg'[m] = leg[m]
        /\ \/ Sets(SideOf(l), leg[l].reg, "shell")
           \/ Sets(SideOf(l), leg[l].reg, Own(l))
    BY <1>10, <1>s, <1>a, CreateAtIdStep
  <2>2. reg[s][i] = "bare"
    BY <2>1 DEF Sets, Own
  <2> QED BY <1>2, <2>1, <2>2
<1>11. ASSUME NEW l \in Leg, WriteBody(l) PROVE Goal
  <2>1. /\ leg[l].pc = "body" /\ UNCHANGED torn
        /\ Stays(l, leg[l].activity, "acr")
        /\ Sets(SideOf(l), leg[l].reg, IF Own(l) = "shell" THEN "bare" ELSE Own(l))
    BY <1>11, WriteBodyStep
  <2>2. CASE s = SideOf(l) /\ i = leg[l].reg
    BY <2>1, <2>2 DEF Stays, Moves
  <2>3. CASE ~ (s = SideOf(l) /\ i = leg[l].reg)
    BY <1>2, <1>s, <2>1, <2>3 DEF Sets
  <2> QED BY <2>2, <2>3
<1>12. ASSUME NEW l \in Leg, SetAcr(l) PROVE Goal
  <2>1. /\ Sets(SideOf(l), leg[l].reg, "full") /\ UNCHANGED torn
        /\ \A m \in Leg : m # l => leg'[m] = leg[m]
    BY <1>12, <1>s, <1>a, SetAcrStep
  <2>2. ~ (s = SideOf(l) /\ i = leg[l].reg) /\ reg[s][i] = "bare"
    BY <2>1 DEF Sets
  <2>3. PICK m \in Leg : SideOf(m) = s /\ leg[m].reg = i /\ leg[m].pc = "acr"
    BY <1>1, <2>1, <2>2
  <2> QED BY <2>1, <2>2, <2>3
<1>13. ASSUME NEW l \in Leg, DiscoverReciprocal(l) \/ Subscribe(l) \/ StoreChannel(l) PROVE Goal
  <2>1. /\ leg[l].pc # "acr" /\ UNCHANGED <<reg, torn, forgotten>>
        /\ \A m \in Leg : m # l => leg'[m] = leg[m]
    BY <1>13, <1>s, <1>a, DiscoverReciprocalStep, SubscribeStep, StoreChannelStep
       DEF registering, losses, there
  <2> QED BY <1>2, <2>1
<1>14. ASSUME NEW l \in Leg, Crash(l) PROVE Goal
  <2>1. /\ torn' = [torn EXCEPT ![SideOf(l)] = @ \/ At(l, "acr")] /\ UNCHANGED reg
        /\ \A m \in Leg : m # l => leg'[m] = leg[m]
    BY <1>0, <1>14, <1>a, CrashStep DEF there
  <2>2. ~ torn[s] /\ (s = SideOf(l) => leg[l].pc # "acr")
    BY <1>0, <2>1, Zenon DEF TypeOK, At
  <2>3. PICK m \in Leg : SideOf(m) = s /\ leg[m].reg = i /\ leg[m].pc = "acr"
    BY <1>1, <2>1, <2>2
  <2> QED BY <2>1, <2>2, <2>3
<1>15. CASE UNCHANGED vars
  BY <1>1, <1>15 DEF vars
<1> QED BY <1>3, <1>4, <1>5, <1>6, <1>7, <1>8, <1>9, <1>10, <1>11, <1>12, <1>13, <1>14, <1>15
        DEF Next, Inviting, AcceptStep, LegStep

-----------------------------------------------------------------------------
LEMMA KeptStep == ASSUME IInv, [Next]_vars PROVE Kept'
<1>0. /\ TypeOK /\ TypeOK' /\ Kept
      /\ \A a \in Accept : a \in Leg
  BY TypeStep DEF IInv, Leg
<1> SUFFICES ASSUME ~ raced' PROVE Kept'
  BY DEF Kept
<1>1. ASSUME UNCHANGED <<invitation, create, raced>>,
             \A a \in Accept : /\ leg'[a].link = leg[a].link
                               /\ leg[a].pc = "unrecorded" => leg'[a].pc = "unrecorded"
                               /\ Answered(a)' => Answered(a)
      PROVE  Kept'
  <2>1. \A c, d \in Creation : create'[c] # "idle" /\ create'[d] # "idle" => c = d
    BY <1>0, <1>1 DEF Kept
  <2>2. \A c \in Creation : create'[c] = "put" => invitation'.link = 0
    BY <1>0, <1>1 DEF Kept
  <2>3. \A a \in Accept : /\ leg'[a].link \in {0, invitation'.link}
                          /\ leg'[a].pc # "unrecorded" => leg'[a].link # 0
                          /\ Answered(a)' => invitation'.accepted
    BY <1>0, <1>1 DEF Kept
  <2> QED BY <2>1, <2>2, <2>3 DEF Kept
<1>2. ASSUME NEW l \in Leg, NEW a, NEW p, NEW i, Moves(l, a, p, leg[l].link, i),
             leg[l].pc # "unrecorded",
             \/ Answered(l)
             \/ /\ a \notin {"reciprocalRegistration", "reciprocalWebhook"} \/ l \notin Accept
                /\ p \notin {"own", "body", "acr", "done"} \/ l \notin Accept,
             UNCHANGED <<invitation, create, raced>>
      PROVE  Kept'
  <2> SUFFICES ASSUME NEW b \in Accept
               PROVE  /\ leg'[b].link = leg[b].link
                      /\ leg[b].pc = "unrecorded" => leg'[b].pc = "unrecorded"
                      /\ Answered(b)' => Answered(b)
    BY <1>1, <1>2
  <2>1. CASE b = l
    BY <1>2, <2>1 DEF Moves, Answered
  <2>2. CASE b # l
    BY <1>0, <1>2, <2>2 DEF Moves, Answered
  <2> QED BY <2>1, <2>2
<1>3. ASSUME NEW l \in Leg, leg[l].activity # "none", Again(l), UNCHANGED <<invitation, create, raced>>
      PROVE  Kept'
  <2>1. /\ leg[l].pc # "unrecorded"
        /\ leg[l].activity \in {"invitationAcceptance", "reciprocalRegistration", "reciprocalWebhook"}
    BY <1>0, <1>3, ActivityAt, Activities DEF Started, Steps
  <2>2. CASE Stays(l, "none", "failed")
    BY <1>2, <1>3, <2>1, <2>2 DEF Stays
  <2>3. CASE Stays(l, leg[l].activity, First[leg[l].activity])
    <3>1. \/ Answered(l)
          \/ leg[l].activity = "invitationAcceptance" /\ First[leg[l].activity] = "post"
      BY <2>1, StepsOf DEF Answered
    <3> QED BY <1>2, <1>3, <2>1, <2>3, <3>1 DEF Stays
  <2> QED BY <1>3, <2>2, <2>3 DEF Again
<1>4. ASSUME NEW c \in Creation, StartCreation(c) PROVE Kept'
  <2>1. /\ ~ raced /\ \A o \in Creation \ {c} : create[o] = "idle"
        /\ create' = [create EXCEPT ![c] = "look"]
        /\ UNCHANGED <<invitation, leg>>
    BY <1>0, <1>4 DEF StartCreation, TypeOK
  <2>2. \A d \in Creation : d # c => create'[d] = "idle"
    BY <1>0, <2>1 DEF TypeOK
  <2>3. create'[c] = "look"
    BY <1>0, <2>1 DEF TypeOK
  <2>4. \A a \in Accept : /\ leg'[a].link \in {0, invitation'.link}
                          /\ leg'[a].pc # "unrecorded" => leg'[a].link # 0
                          /\ Answered(a)' => invitation'.accepted
    BY <1>0, <2>1 DEF Kept, Answered
  <2> QED BY <2>2, <2>3, <2>4 DEF Kept
<1>5. ASSUME NEW c \in Creation, LookInvitation(c) \/ MarkCreated(c) PROVE Kept'
  <2>1. /\ ~ raced /\ UNCHANGED <<invitation, leg>> /\ create[c] # "idle"
        /\ \A d \in Creation : d # c => create'[d] = create[d]
        /\ create'[c] = "put" => invitation.link = 0
    BY <1>0, <1>5 DEF LookInvitation, MarkCreated, TypeOK
  <2>2. \A d \in Creation : d # c => create'[d] = "idle"
    BY <1>0, <2>1 DEF Kept
  <2>3. \A a \in Accept : /\ leg'[a].link \in {0, invitation'.link}
                          /\ leg'[a].pc # "unrecorded" => leg'[a].link # 0
                          /\ Answered(a)' => invitation'.accepted
    BY <1>0, <2>1 DEF Kept, Answered
  <2> QED BY <2>1, <2>2, <2>3 DEF Kept
<1>6. ASSUME NEW c \in Creation, PutInvitation(c) PROVE Kept'
  <2>1. /\ ~ raced /\ UNCHANGED leg /\ create[c] = "put"
        /\ create'[c] # "put"
        /\ \A d \in Creation : d # c => create'[d] = create[d]
    BY <1>0, <1>6 DEF PutInvitation, TypeOK
  <2>2. invitation.link = 0 /\ \A d \in Creation : d # c => create'[d] = "idle"
    BY <1>0, <2>1 DEF Kept
  <2>3. \A a \in Accept : leg[a].link = 0 /\ leg[a].pc = "unrecorded"
    BY <1>0, <2>1, <2>2 DEF Kept
  <2>4. \A a \in Accept : leg[a].activity = "none"
    BY <1>0, <2>3, ActivityAt DEF Started, Steps
  <2>5. \A a \in Accept : leg'[a].link = 0 /\ leg'[a].pc = "unrecorded" /\ ~ Answered(a)'
    BY <2>1, <2>3, <2>4 DEF Answered
  <2> QED BY <2>1, <2>2, <2>5 DEF Kept
<1>7. ASSUME NEW a \in Accept, RecordAccept(a) PROVE Kept'
  <2>1. /\ invitation.link # 0 /\ UNCHANGED <<invitation, create, raced>>
        /\ Moves(a, "none", "recorded", invitation.link, leg[a].reg)
    BY <1>0, <1>7, RecordAcceptStep DEF inviting
  <2>2. \A b \in Accept : /\ leg'[b].link \in {0, invitation'.link}
                          /\ leg'[b].pc # "unrecorded" => leg'[b].link # 0
                          /\ Answered(b)' => invitation'.accepted
    <3> SUFFICES ASSUME NEW b \in Accept
                 PROVE  /\ leg'[b].link \in {0, invitation'.link}
                        /\ leg'[b].pc # "unrecorded" => leg'[b].link # 0
                        /\ Answered(b)' => invitation'.accepted
      OBVIOUS
    <3>1. CASE b = a
      BY <2>1, <3>1 DEF Moves, Answered
    <3>2. CASE b # a
      BY <1>0, <2>1, <3>2 DEF Moves, Answered, Kept
    <3> QED BY <3>1, <3>2
  <2> QED BY <1>0, <2>1, <2>2 DEF Kept
<1>8. ASSUME NEW a \in Accept, SetRegisteredAgent(a) PROVE Kept'
  <2>1. /\ leg[a].pc = "answer" /\ Stays(a, "invitationAcceptance", "own")
        /\ invitation' = [link |-> leg[a].link, accepted |-> TRUE]
        /\ UNCHANGED <<create, raced>>
    BY <1>0, <1>8, SetRegisteredAgentStep
  <2>2. leg[a].link = invitation.link
    BY <1>0, <2>1 DEF Kept
  <2>3. invitation'.link = invitation.link /\ invitation'.accepted = TRUE
    BY <2>1, <2>2
  <2>4. \A b \in Accept : /\ leg'[b].link = leg[b].link
                          /\ leg'[b].pc = "unrecorded" <=> leg[b].pc = "unrecorded"
    BY <1>0, <2>1 DEF Stays, Moves
  <2> QED BY <1>0, <2>1, <2>3, <2>4 DEF Kept
<1>9. ASSUME NEW a \in Accept, Post(a) PROVE Kept'
  <2>1. /\ leg[a].activity = "invitationAcceptance" /\ leg[a].pc = "post"
        /\ UNCHANGED <<invitation, create, raced>>
    BY <1>0, <1>9, PostStep DEF inviting
  <2> QED BY <1>0, <1>2, <1>3, <1>9, <2>1, PostStep DEF Stays
<1>10. ASSUME NEW a \in Accept, RecordAdded(a) PROVE Kept'
  <2>1. PICK i \in Id, e \in Leg : i = minted["inviter"] + 1 /\ e = <<"inviter", i>>
    BY <1>10, RecordAddedStep
  <2>2. /\ leg[a].pc = "record"
        /\ leg'[a].activity = "invitationAcceptance" /\ leg'[a].pc = "answer"
        /\ leg'[a].link = leg[a].link
        /\ \A m \in Leg : m # a /\ m # e => leg'[m] = leg[m]
        /\ UNCHANGED <<invitation, create, raced>>
    BY <1>10, <2>1, RecordAddedStep DEF inviting
  <2>3. \A b \in Accept : b # e
    BY <2>1, Sides
  <2> SUFFICES ASSUME NEW b \in Accept
               PROVE  /\ leg'[b].link = leg[b].link
                      /\ leg[b].pc = "unrecorded" => leg'[b].pc = "unrecorded"
                      /\ Answered(b)' => Answered(b)
    BY <1>1, <2>2
  <2>4. CASE b = a
    BY <2>2, <2>4 DEF Answered
  <2>5. CASE b # a
    BY <1>0, <2>2, <2>3, <2>5 DEF Answered
  <2> QED BY <2>4, <2>5
<1>11. ASSUME NEW a \in Accept, AddRegistration(a) PROVE Kept'
  <2>1. /\ leg[a].pc = "own" /\ UNCHANGED <<invitation, create, raced>>
    BY <1>0, <1>11, AddRegistrationStep DEF inviting
  <2>2. PICK i : \/ Moves(a, "reciprocalRegistration", "load", leg[a].link, i)
                 \/ Moves(a, "invitationAcceptance", "body", leg[a].link, i)
    BY <1>0, <1>11, AddRegistrationStep
  <2>3. Answered(a)
    BY <2>1 DEF Answered
  <2> QED BY <1>0, <1>2, <2>1, <2>2, <2>3
<1>12. ASSUME NEW l \in Leg, Deliver(l) PROVE Kept'
  <2>1. leg[l].pc = "recorded" /\ UNCHANGED <<invitation, create, raced>>
    BY <1>0, <1>12, DeliverStep DEF inviting
  <2> QED BY <1>0, <1>2, <1>12, <2>1, DeliverStep DEF Stays
<1>13. ASSUME NEW l \in Leg, LoadRegistration(l) PROVE Kept'
  <2>1. /\ leg[l].activity = "reciprocalRegistration" /\ leg[l].pc = "load"
        /\ UNCHANGED <<invitation, create, raced>>
    BY <1>0, <1>13, LoadRegistrationStep DEF inviting
  <2>2. Answered(l)
    BY <2>1 DEF Answered
  <2> QED BY <1>0, <1>2, <1>3, <1>13, <2>1, <2>2, LoadRegistrationStep DEF Stays
<1>14. ASSUME NEW l \in Leg, CreateAtId(l) \/ WriteBody(l) PROVE Kept'
  <2>1. /\ leg[l].activity = "reciprocalRegistration" \/ leg[l].pc = "body"
        /\ leg[l].pc # "unrecorded" /\ UNCHANGED <<invitation, create, raced>>
    BY <1>14, CreateAtIdStep, WriteBodyStep DEF inviting
  <2>2. Answered(l)
    BY <2>1 DEF Answered
  <2>3. leg[l].activity # "none" /\ (Again(l) \/ \E b, p : Stays(l, b, p))
    BY <1>14, CreateAtIdStep, WriteBodyStep
  <2> QED BY <1>2, <1>3, <2>1, <2>2, <2>3 DEF Stays
<1>15. ASSUME NEW l \in Leg, SetAcr(l) PROVE Kept'
  <2>1. /\ leg[l].activity # "none" /\ leg[l].pc = "acr" /\ UNCHANGED <<invitation, create, raced>>
    BY <1>15, SetAcrStep DEF inviting
  <2>2. Answered(l)
    BY <2>1 DEF Answered
  <2> QED BY <1>2, <1>3, <1>15, <2>1, <2>2, SetAcrStep DEF Stays
<1>16. ASSUME NEW l \in Leg,
              DiscoverReciprocal(l) \/ FindChannel(l) \/ Subscribe(l) \/ StoreChannel(l)
       PROVE  Kept'
  <2>1. /\ leg[l].activity \in {"reciprocalRegistration", "reciprocalWebhook"}
        /\ leg[l].pc # "unrecorded" /\ UNCHANGED <<invitation, create, raced>>
    BY <1>0, <1>16, DiscoverReciprocalStep, FindChannelStep, SubscribeStep, StoreChannelStep
       DEF inviting
  <2>2. Answered(l)
    BY <2>1 DEF Answered
  <2>3. Again(l) \/ \E b, p : Stays(l, b, p)
    BY <1>0, <1>16, DiscoverReciprocalStep, FindChannelStep, SubscribeStep, StoreChannelStep
  <2> QED BY <1>2, <1>3, <2>1, <2>2, <2>3 DEF Stays
<1>17. ASSUME NEW l \in Leg, Crash(l) PROVE Kept'
  BY <1>0, <1>3, <1>17, CrashStep DEF inviting
<1>18. CASE UNCHANGED vars
  BY <1>0, <1>1, <1>18 DEF vars, Answered
<1> QED BY <1>4, <1>5, <1>6, <1>7, <1>8, <1>9, <1>10, <1>11, <1>12, <1>13, <1>14, <1>15, <1>16,
           <1>17, <1>18
        DEF Next, CreationStep, AcceptStep, LegStep

-----------------------------------------------------------------------------
LEMMA FoundSame ==
  ASSUME TypeOK, NEW s \in Side, NEW i \in Id, NEW v, Sets(s, i, v),
         v \in {"bare", "full"} <=> reg[s][i] \in {"bare", "full"}
  PROVE  \A t \in Side : Found(t)' = Found(t)
<1> SUFFICES ASSUME NEW t \in Side, NEW j \in Id
             PROVE  reg'[t][j] \in {"bare", "full"} <=> reg[t][j] \in {"bare", "full"}
  BY DEF Found
<1>1. CASE t = s /\ j = i
  BY <1>1 DEF Sets
<1>2. CASE ~ (t = s /\ j = i)
  BY <1>2 DEF Sets
<1> QED BY <1>1, <1>2

LEMMA FoundStep ==
  ASSUME IInv, NEW l \in Leg, CreateAtId(l) \/ WriteBody(l) \/ SetAcr(l)
  PROVE  \/ \A t \in Side : Found(t)' = Found(t)
         \/ /\ WriteBody(l)
            /\ l \in Accept => leg[l].activity = "invitationAcceptance"
            /\ \A t \in Side : t # SideOf(l) => Found(t)' = Found(t)
            /\ Found(SideOf(l))' = Found(SideOf(l)) \cup {leg[l].reg}
<1>t. TypeOK /\ Informed(l) /\ SideOf(l) \in Side
  BY Sides DEF IInv
<1>1. CASE CreateAtId(l)
  <2> DEFINE v == IF Own(l) = "none" THEN "shell" ELSE Own(l)
  <2>1. leg[l].reg \in Id /\ Sets(SideOf(l), leg[l].reg, v)
    BY <1>1, CreateAtIdStep
  <2>2. v \in {"bare", "full"} <=> Own(l) \in {"bare", "full"}
    OBVIOUS
  <2> HIDE DEF v
  <2> QED BY <1>t, <2>1, <2>2, FoundSame DEF Own
<1>2. CASE SetAcr(l)
  <2>1. leg[l].reg \in Found(SideOf(l)) /\ Sets(SideOf(l), leg[l].reg, "full")
    BY <1>2, SetAcrStep
  <2>2. leg[l].reg \in Id /\ reg[SideOf(l)][leg[l].reg] \in {"bare", "full"}
    BY <2>1 DEF Found
  <2> QED BY <1>t, <2>1, <2>2, FoundSame
<1>3. CASE WriteBody(l)
  <2> DEFINE v == IF Own(l) = "shell" THEN "bare" ELSE Own(l)
  <2>1. /\ leg[l].reg \in Id /\ Sets(SideOf(l), leg[l].reg, v)
        /\ Own(l) \in {"shell", "bare", "full"}
        /\ leg[l].activity \in {"invitationAcceptance", "reciprocalRegistration"}
    BY <1>3, WriteBodyStep
  <2>2. v \in {"bare", "full"}
    BY <2>1
  <2> HIDE DEF v
  <2>3. CASE Own(l) \in {"bare", "full"}
    BY <1>t, <2>1, <2>2, <2>3, FoundSame DEF Own
  <2>4. CASE Own(l) = "shell"
    <3>1. leg[l].reg \notin Found(SideOf(l))
      BY <2>4 DEF Own, Found
    <3>2. l \in Accept => leg[l].activity = "invitationAcceptance"
      BY <1>t, <2>1, <3>1 DEF Informed, HasFound
    <3>3. \A t \in Side : t # SideOf(l) => Found(t)' = Found(t)
      <4> SUFFICES ASSUME NEW t \in Side, t # SideOf(l) PROVE Found(t)' = Found(t)
        OBVIOUS
      <4>1. \A j \in Id : reg'[t][j] = reg[t][j]
        BY <2>1 DEF Sets
      <4> QED BY <4>1 DEF Found
    <3>4. Found(SideOf(l))' = Found(SideOf(l)) \cup {leg[l].reg}
      <4>1. \A j \in Id : j # leg[l].reg => reg'[SideOf(l)][j] = reg[SideOf(l)][j]
        BY <1>t, <2>1 DEF Sets
      <4>2. reg'[SideOf(l)][leg[l].reg] \in {"bare", "full"}
        BY <2>1, <2>2 DEF Sets
      <4> QED BY <2>1, <4>1, <4>2 DEF Found, SideOf
    <3> QED BY <1>3, <3>2, <3>3, <3>4
  <2> QED BY <2>1, <2>3, <2>4
<1> QED BY <1>1, <1>2, <1>3

(* The acceptor's side: whoever is under way is so alone.                   *)
LEMMA AcceptsOnceStep == ASSUME IInv, [Next]_vars PROVE AcceptsOnce'
<1>0. /\ TypeOK /\ TypeOK' /\ AcceptsOnce
      /\ \A a \in Accept : a \in Leg /\ SideOf(a) = "acceptor"
      /\ \A l \in Leg : l \notin Accept => SideOf(l) = "inviter"
      /\ "acceptor" \in Side /\ "inviter" \in Side
      /\ channels["acceptor"] \in Nat
      /\ together \in BOOLEAN
  <2>1. TypeOK'
    BY TypeStep
  <2>2. \A l \in Leg : l \notin Accept => SideOf(l) = "inviter"
    BY Sides DEF Leg
  <2> QED BY <2>1, <2>2, Sides DEF IInv, Leg, Side, TypeOK
<1> SUFFICES ASSUME ~ together' PROVE AcceptsOnce'
  BY DEF AcceptsOnce
<1> DEFINE Same == Found("acceptor")' = Found("acceptor") /\ channels'["acceptor"] = channels["acceptor"]
<1>1. ASSUME ~ together, Same,
             \A b \in Accept :
               /\ Started(b)' => Started(b)
               /\ leg'[b].activity = "invitationAcceptance" /\ leg'[b].pc = "body" =>
                    \/ leg[b].activity = "invitationAcceptance" /\ leg[b].pc = "body"
                    \/ Found("acceptor") = {}
               /\ leg'[b].pc \in {"subscribe", "store"} =>
                    leg[b].pc \in {"subscribe", "store"} \/ channels["acceptor"] = 0
      PROVE  AcceptsOnce'
  BY <1>0, <1>1 DEF AcceptsOnce
<1>2. ASSUME NEW l \in Leg, NEW a, NEW p, NEW k, NEW i, Moves(l, a, p, k, i), ~ together, Same,
             l \in Accept => /\ Started(l) \/ p \in Steps.none
                             /\ ~ (a = "invitationAcceptance" /\ p = "body") \/ Found("acceptor") = {}
                             /\ p \notin {"subscribe", "store"} \/ channels["acceptor"] = 0
      PROVE  AcceptsOnce'
  <2> SUFFICES ASSUME NEW b \in Accept
               PROVE  /\ Started(b)' => Started(b)
                      /\ leg'[b].activity = "invitationAcceptance" /\ leg'[b].pc = "body" =>
                           \/ leg[b].activity = "invitationAcceptance" /\ leg[b].pc = "body"
                           \/ Found("acceptor") = {}
                      /\ leg'[b].pc \in {"subscribe", "store"} =>
                           leg[b].pc \in {"subscribe", "store"} \/ channels["acceptor"] = 0
    BY <1>1, <1>2
  <2>1. CASE b = l
    BY <1>2, <2>1 DEF Moves, Started
  <2>2. CASE b # l
    BY <1>0, <1>2, <2>2 DEF Moves, Started
  <2> QED BY <2>1, <2>2
<1>3. ASSUME NEW l \in Leg, leg[l].activity # "none", Again(l), ~ together, Same PROVE AcceptsOnce'
  <2>1. Started(l) /\ leg[l].activity \in DOMAIN Steps
    BY <1>0, <1>3, ActivityAt
  <2>2. First[leg[l].activity] \notin {"body", "subscribe", "store"}
    BY <1>3, <2>1, Activities, StepsOf
  <2> QED BY <1>2, <1>3, <2>1, <2>2 DEF Again, Stays
<1>4. ASSUME UNCHANGED leg, ~ together, Same PROVE AcceptsOnce'
  BY <1>1, <1>4 DEF Started
<1>5. UNCHANGED <<reg, channels>> => Same
  BY DEF Found
<1>6. ASSUME NEW c \in Creation, Inviting(c) PROVE AcceptsOnce'
  BY <1>0, <1>4, <1>5, <1>6, InvitingStep DEF there, accepting
<1>7. ASSUME NEW a \in Accept, RecordAccept(a) PROVE AcceptsOnce'
  <2>1. /\ Moves(a, "none", "recorded", invitation.link, leg[a].reg)
        /\ ~ together /\ Same
    BY <1>0, <1>5, <1>7, RecordAcceptStep DEF there
  <2>2. "recorded" \in Steps.none
    BY DEF Steps
  <2> QED BY <1>0, <1>2, <2>1, <2>2
<1>8. ASSUME NEW a \in Accept, Post(a) PROVE AcceptsOnce'
  <2>1. /\ leg[a].activity = "invitationAcceptance" /\ ~ together /\ Same
    BY <1>0, <1>5, <1>8, PostStep DEF there
  <2>2. Started(a)
    BY <1>0, <2>1, ActivityAt
  <2> QED BY <1>0, <1>2, <1>3, <1>8, <2>1, <2>2, PostStep DEF Stays
<1>9. ASSUME NEW a \in Accept, SetRegisteredAgent(a) PROVE AcceptsOnce'
  <2>1. /\ leg[a].activity = "invitationAcceptance" /\ ~ together /\ Same
    BY <1>0, <1>5, <1>9, SetRegisteredAgentStep DEF there
  <2>2. Started(a)
    BY <1>0, <2>1, ActivityAt
  <2> QED BY <1>0, <1>2, <1>9, <2>1, <2>2, SetRegisteredAgentStep DEF Stays
<1>10. ASSUME NEW a \in Accept, RecordAdded(a) PROVE AcceptsOnce'
  <2>1. PICK i \in Id, e \in Leg : i = minted["inviter"] + 1 /\ e = <<"inviter", i>>
    BY <1>10, RecordAddedStep
  <2>2. /\ leg[a].activity = "invitationAcceptance"
        /\ leg'[a].activity = "invitationAcceptance" /\ leg'[a].pc = "answer"
        /\ \A m \in Leg : m # a /\ m # e => leg'[m] = leg[m]
        /\ ~ together /\ UNCHANGED <<reg, channels>>
    BY <1>10, <2>1, RecordAddedStep
  <2>3. \A b \in Accept : b # e
    BY <2>1, Sides
  <2>4. Started(a)
    BY <1>0, <2>2, ActivityAt
  <2> SUFFICES ASSUME NEW b \in Accept
               PROVE  /\ Started(b)' => Started(b)
                      /\ leg'[b].activity = "invitationAcceptance" /\ leg'[b].pc = "body" =>
                           \/ leg[b].activity = "invitationAcceptance" /\ leg[b].pc = "body"
                           \/ Found("acceptor") = {}
                      /\ leg'[b].pc \in {"subscribe", "store"} =>
                           leg[b].pc \in {"subscribe", "store"} \/ channels["acceptor"] = 0
    BY <1>1, <1>5, <2>2
  <2>5. CASE b = a
    BY <2>2, <2>4, <2>5
  <2>6. CASE b # a
    BY <1>0, <2>2, <2>3, <2>6 DEF Started
  <2> QED BY <2>5, <2>6
<1>11. ASSUME NEW a \in Accept, AddRegistration(a) PROVE AcceptsOnce'
  <2>1. leg[a].activity = "invitationAcceptance" /\ ~ together /\ UNCHANGED channels
    BY <1>0, <1>11, AddRegistrationStep
  <2>2. Started(a)
    BY <1>0, <2>1, ActivityAt
  <2>3. Same
    <3>1. CASE UNCHANGED there
      BY <1>5, <3>1 DEF there
    <3>2. CASE ~ UNCHANGED there
      <4>1. PICK i \in Id : reg["acceptor"][i] = "none" /\ Sets("acceptor", i, "shell")
        BY <1>11, <3>2, AddRegistrationGrows
      <4> QED BY <1>0, <2>1, <4>1, FoundSame
    <3> QED BY <3>1, <3>2
  <2>4. PICK i : \/ Moves(a, "reciprocalRegistration", "load", leg[a].link, i)
                 \/ Moves(a, "invitationAcceptance", "body", leg[a].link, i) /\ Found("acceptor") = {}
    BY <1>0, <1>11, AddRegistrationStep
  <2> QED BY <1>0, <1>2, <2>1, <2>2, <2>3, <2>4
<1>12. ASSUME NEW l \in Leg, Deliver(l) PROVE AcceptsOnce'
  <2>1. /\ ~ together /\ Same
        /\ l \in Accept => \A b \in Accept : ~ Started(b)
    BY <1>0, <1>5, <1>12, DeliverStep DEF there
  <2>2. CASE l \notin Accept
    BY <1>0, <1>2, <1>12, <2>1, <2>2, DeliverStep DEF Stays
  <2>3. CASE l \in Accept
    <3>1. /\ leg'[l].activity = "invitationAcceptance" /\ leg'[l].pc = "post"
          /\ \A m \in Leg : m # l => leg'[m] = leg[m]
      BY <1>0, <1>12, <2>3, DeliverStep, Sides DEF Stays, Moves
    <3>2. \A b \in Accept : b # l => ~ Started(b)'
      BY <1>0, <2>1, <2>3, <3>1 DEF Started
    <3>3. \A b \in Accept : leg'[b].pc \notin {"body", "subscribe", "store"}
      BY <3>1, <3>2 DEF Started, Steps
    <3> QED BY <1>0, <2>1, <3>2, <3>3 DEF AcceptsOnce
  <2> QED BY <2>2, <2>3
<1>13. ASSUME NEW l \in Leg, LoadRegistration(l) PROVE AcceptsOnce'
  <2>1. leg[l].activity = "reciprocalRegistration" /\ ~ together /\ Same
    BY <1>0, <1>5, <1>13, LoadRegistrationStep DEF there, accepting
  <2>2. Started(l)
    BY <1>0, <2>1, ActivityAt
  <2> QED BY <1>0, <1>2, <1>3, <1>13, <2>1, <2>2, LoadRegistrationStep DEF Stays
<1>14. ASSUME NEW l \in Leg, CreateAtId(l) \/ WriteBody(l) \/ SetAcr(l) PROVE AcceptsOnce'
  <2>1. /\ leg[l].activity # "none" /\ ~ together /\ channels'["acceptor"] = channels["acceptor"]
    BY <1>14, CreateAtIdStep, WriteBodyStep, SetAcrStep DEF accepting
  <2>2. Started(l)
    BY <1>0, <2>1, ActivityAt
  <2>3. \/ Again(l)
        \/ \E a, p : /\ Stays(l, a, p) /\ p \notin {"subscribe", "store"}
                     /\ ~ (a = "invitationAcceptance" /\ p = "body")
    BY <1>14, CreateAtIdStep, WriteBodyStep, SetAcrStep
  <2>4. CASE Same
    BY <1>2, <1>3, <2>1, <2>2, <2>3, <2>4 DEF Stays
  <2>5. CASE ~ Same
    <3>1. /\ WriteBody(l) /\ l \in Accept /\ leg[l].activity = "invitationAcceptance"
          /\ Found("acceptor")' = Found("acceptor") \cup {leg[l].reg}
      BY <1>0, <1>14, <2>1, <2>5, FoundStep
    <3>2. leg[l].pc = "body" /\ Stays(l, "invitationAcceptance", "acr")
      BY <3>1, WriteBodyStep
    <3>3. Found("acceptor") = {} /\ \A b \in Accept : Started(b) => b = l
      BY <1>0, <2>1, <2>2, <3>1, <3>2 DEF AcceptsOnce
    <3>4. /\ leg'[l].pc = "acr"
          /\ \A b \in Accept : b # l => leg'[b] = leg[b]
      BY <1>0, <3>2 DEF Stays, Moves
    <3>5. \A b \in Accept : b # l => ~ Started(b)'
      BY <3>3, <3>4 DEF Started
    <3>6. \A b \in Accept : leg'[b].pc \notin {"body", "subscribe", "store"}
      BY <3>4, <3>5 DEF Started, Steps
    <3>7. \A i, j \in Found("acceptor")' : i = j
      BY <3>1, <3>3
    <3> QED BY <1>0, <2>1, <3>5, <3>6, <3>7 DEF AcceptsOnce
  <2> QED BY <2>4, <2>5
<1>15. ASSUME NEW l \in Leg, DiscoverReciprocal(l) PROVE AcceptsOnce'
  <2>1. leg[l].activity = "reciprocalRegistration" /\ ~ together /\ Same
    BY <1>0, <1>5, <1>15, DiscoverReciprocalStep DEF registering, accepting
  <2>2. Started(l)
    BY <1>0, <2>1, ActivityAt
  <2> QED BY <1>2, <1>3, <1>15, <2>1, <2>2, DiscoverReciprocalStep DEF Stays
<1>16. ASSUME NEW l \in Leg, FindChannel(l) PROVE AcceptsOnce'
  <2>1. leg[l].activity = "reciprocalWebhook" /\ ~ together /\ Same
    BY <1>0, <1>5, <1>16, FindChannelStep DEF there, accepting
  <2>2. Started(l)
    BY <1>0, <2>1, ActivityAt
  <2> QED BY <1>0, <1>2, <1>16, <2>1, <2>2, FindChannelStep DEF Stays
<1>17. ASSUME NEW l \in Leg, StoreChannel(l) PROVE AcceptsOnce'
  <2>1. /\ leg[l].activity = "reciprocalWebhook" /\ leg[l].pc = "store" /\ ~ together
        /\ UNCHANGED reg
        /\ Stays(l, "none", "done") \/ Again(l)
    BY <1>17, StoreChannelStep DEF registering, accepting
  <2>2. Started(l)
    BY <1>0, <2>1, ActivityAt
  <2>3. CASE Same
    BY <1>2, <1>3, <2>1, <2>2, <2>3 DEF Stays
  <2>4. CASE ~ Same
    <3>1. channels' = [channels EXCEPT ![SideOf(l)] = channels[SideOf(l)] + 1]
      BY <1>5, <1>17, <2>1, <2>4, StoreChannelStep
    <3>2. l \in Accept
      <4>1. SideOf(l) = "inviter" => channels'["acceptor"] = channels["acceptor"]
        BY <1>0, <3>1 DEF TypeOK
      <4> QED BY <1>0, <2>1, <2>4, <4>1 DEF Found
    <3>3. channels["acceptor"] = 0 /\ \A b \in Accept : Started(b) => b = l
      BY <1>0, <2>1, <2>2, <3>2 DEF AcceptsOnce
    <3>4. channels'["acceptor"] = 1
      BY <1>0, <3>1, <3>2, <3>3 DEF TypeOK
    <3>5. /\ leg'[l].pc \notin {"body", "subscribe", "store"}
          /\ \A b \in Accept : b # l => leg'[b] = leg[b]
      BY <1>0, <2>1, StepsOf DEF Again, Stays, Moves
    <3>6. \A b \in Accept : b # l => ~ Started(b)'
      BY <3>3, <3>5 DEF Started
    <3>7. \A b \in Accept : leg'[b].pc \notin {"body", "subscribe", "store"}
      BY <3>5, <3>6 DEF Started, Steps
    <3>8. \A i, j \in Found("acceptor")' : i = j
      BY <1>0, <2>1 DEF AcceptsOnce, Found
    <3> QED BY <3>4, <3>6, <3>7, <3>8 DEF AcceptsOnce
  <2> QED BY <2>3, <2>4
<1>18. ASSUME NEW l \in Leg, Crash(l) PROVE AcceptsOnce'
  BY <1>0, <1>3, <1>5, <1>18, CrashStep DEF there, accepting
<1>19. ASSUME NEW l \in Leg, Subscribe(l) PROVE AcceptsOnce'
  <2>1. /\ leg[l].activity = "reciprocalWebhook" /\ leg[l].pc = "subscribe"
        /\ ~ together /\ Same
    BY <1>0, <1>5, <1>19, SubscribeStep DEF there, accepting
  <2>2. Started(l)
    BY <1>0, <2>1, ActivityAt
  <2>3. l \in Accept => channels["acceptor"] = 0
    BY <1>0, <2>1 DEF AcceptsOnce
  <2> QED BY <1>2, <1>3, <1>19, <2>1, <2>2, <2>3, SubscribeStep DEF Stays
<1>20. CASE UNCHANGED vars
  BY <1>4, <1>5, <1>20 DEF vars
<1> QED BY <1>6, <1>7, <1>8, <1>9, <1>10, <1>11, <1>12, <1>13, <1>14, <1>15, <1>16, <1>17, <1>18,
           <1>19, <1>20
        DEF Next, Inviting, AcceptStep, LegStep

(* The inviter's: posts come one at a time.                                 *)
LEMMA InvitesOnceStep == ASSUME IInv, [Next]_vars PROVE InvitesOnce'
<1>0. /\ TypeOK /\ TypeOK' /\ InvitesOnce /\ Announced
      /\ \A a \in Accept : a \in Leg /\ SideOf(a) = "acceptor" /\ a \notin Establish
      /\ \A l \in Establish : l \in Leg /\ l[2] \in Id /\ l = <<"inviter", l[2]>> /\ SideOf(l) = "inviter"
      /\ \A l \in Leg : l \notin Establish => SideOf(l) = "acceptor"
      /\ "acceptor" \in Side /\ "inviter" \in Side
      /\ channels["inviter"] \in Nat /\ minted["inviter"] \in Nat
      /\ repeated \in BOOLEAN
      /\ Id \subseteq Nat \ {0}
  <2>1. TypeOK'
    BY TypeStep
  <2>2. \A l \in Leg : l \notin Establish => SideOf(l) = "acceptor"
    BY Sides DEF Leg
  <2>3. minted["inviter"] \in Nat
    BY BoundAssumption DEF IInv, TypeOK, Side
  <2> QED BY <2>1, <2>2, <2>3, Sides DEF IInv, Leg, Side, TypeOK
<1> SUFFICES ASSUME ~ repeated' PROVE InvitesOnce'
  BY DEF InvitesOnce
<1> DEFINE Same == /\ minted'["inviter"] = minted["inviter"]
                   /\ channels'["inviter"] = channels["inviter"]
<1>1. ASSUME ~ repeated, Same,
             \A b \in Accept : leg'[b].pc = "record" => leg[b].pc = "record",
             \A l \in Establish :
               leg'[l].pc \in {"subscribe", "store"} =>
                 leg[l].pc \in {"subscribe", "store"} \/ channels["inviter"] = 0
      PROVE  InvitesOnce'
  BY <1>0, <1>1 DEF InvitesOnce, At
<1>2. ASSUME NEW l \in Leg, NEW a, NEW p, NEW k, NEW i, Moves(l, a, p, k, i), ~ repeated, Same,
             l \in Accept => p # "record",
             l \in Establish => p \notin {"subscribe", "store"} \/ channels["inviter"] = 0
      PROVE  InvitesOnce'
  BY <1>0, <1>1, <1>2 DEF Moves
<1>3. ASSUME NEW l \in Leg, leg[l].activity # "none", Again(l), ~ repeated, Same PROVE InvitesOnce'
  <2>1. First[leg[l].activity] \notin {"record", "subscribe", "store"}
    BY <1>0, <1>3, ActivityAt, Activities, StepsOf
  <2> QED BY <1>2, <1>3, <2>1 DEF Again, Stays
<1>4. ASSUME UNCHANGED leg, ~ repeated, Same PROVE InvitesOnce'
  BY <1>1, <1>4
<1>5. ASSUME NEW c \in Creation, Inviting(c) PROVE InvitesOnce'
  BY <1>0, <1>4, <1>5, InvitingStep DEF there, accepting
<1>6. ASSUME NEW a \in Accept, RecordAccept(a) PROVE InvitesOnce'
  BY <1>0, <1>2, <1>6, RecordAcceptStep DEF there
<1>7. ASSUME NEW a \in Accept, Post(a) PROVE InvitesOnce'
  <2>1. leg[a].activity = "invitationAcceptance" /\ ~ repeated /\ Same
    BY <1>0, <1>7, PostStep DEF there
  <2>2. CASE Again(a)
    BY <1>0, <1>3, <2>1, <2>2
  <2>3. CASE Stays(a, "invitationAcceptance", "answer")
    BY <1>0, <1>2, <2>1, <2>3 DEF Stays
  <2>4. CASE /\ Stays(a, "invitationAcceptance", "record")
             /\ Found("inviter") = {} /\ repeated' = (repeated \/ Repeated)
    <3>1. /\ \A b \in Accept : leg[b].pc # "record"
          /\ \A i \in 1 .. minted["inviter"] : i \in Found("inviter")
      BY <2>4 DEF Repeated, At
    <3>2. minted["inviter"] = 0
      BY <1>0, <2>4, <3>1
    <3>3. \A b \in Accept : leg'[b].pc = "record" => b = a
      BY <1>0, <2>4, <3>1 DEF Stays, Moves
    <3>4. \A l \in Establish : leg'[l] = leg[l]
      BY <1>0, <2>4 DEF Stays, Moves
    <3> QED BY <1>0, <2>1, <3>2, <3>3, <3>4 DEF InvitesOnce, At
  <2> QED BY <1>0, <1>7, <2>2, <2>3, <2>4, PostStep
<1>8. ASSUME NEW a \in Accept, SetRegisteredAgent(a) PROVE InvitesOnce'
  BY <1>0, <1>2, <1>8, SetRegisteredAgentStep DEF there, Stays
<1>9. ASSUME NEW a \in Accept, RecordAdded(a) PROVE InvitesOnce'
  <2>1. PICK i \in Id, e \in Leg : i = minted["inviter"] + 1 /\ e = <<"inviter", i>>
    BY <1>9, RecordAddedStep
  <2>2. /\ leg[a].pc = "record"
        /\ leg'[a].pc = "answer" /\ leg'[e].pc = "recorded"
        /\ \A m \in Leg : m # a /\ m # e => leg'[m] = leg[m]
        /\ minted' = [minted EXCEPT !["inviter"] = i]
        /\ ~ repeated /\ UNCHANGED channels
    BY <1>9, <2>1, RecordAddedStep
  <2>3. minted'["inviter"] = i /\ i = 1
    BY <1>0, <2>1, <2>2 DEF InvitesOnce, At, TypeOK
  <2>4. \A b \in Accept : leg'[b].pc # "record"
    <3> SUFFICES ASSUME NEW b \in Accept, leg'[b].pc = "record" PROVE FALSE
      OBVIOUS
    <3>1. b # a /\ b # e
      BY <2>2
    <3>2. leg[b].pc = "record"
      BY <1>0, <2>2, <3>1
    <3> QED BY <1>0, <2>2, <3>1, <3>2 DEF InvitesOnce, At
  <2>5. \A l \in Establish : leg'[l].pc \in {"subscribe", "store"} =>
                                leg[l].pc \in {"subscribe", "store"}
    BY <1>0, <2>2
  <2> QED BY <1>0, <2>2, <2>3, <2>4, <2>5 DEF InvitesOnce, At
<1>10. ASSUME NEW a \in Accept, AddRegistration(a) PROVE InvitesOnce'
  <2>1. /\ ~ repeated /\ UNCHANGED channels /\ minted'["inviter"] = minted["inviter"]
    BY <1>0, <1>10, AddRegistrationStep DEF TypeOK
  <2>2. PICK i : \/ Moves(a, "reciprocalRegistration", "load", leg[a].link, i)
                 \/ Moves(a, "invitationAcceptance", "body", leg[a].link, i)
    BY <1>0, <1>10, AddRegistrationStep
  <2> QED BY <1>0, <1>2, <2>1, <2>2
<1>11. ASSUME NEW l \in Leg, Deliver(l) PROVE InvitesOnce'
  <2>1. ~ repeated /\ Same
    BY <1>0, <1>11, DeliverStep DEF there
  <2> QED BY <1>0, <1>2, <1>11, <2>1, DeliverStep DEF Stays
<1>12. ASSUME NEW l \in Leg, LoadRegistration(l) PROVE InvitesOnce'
  <2>1. leg[l].activity = "reciprocalRegistration" /\ ~ repeated /\ Same
    BY <1>0, <1>12, LoadRegistrationStep DEF there, accepting
  <2> QED BY <1>0, <1>2, <1>3, <1>12, <2>1, LoadRegistrationStep DEF Stays
<1>13. ASSUME NEW l \in Leg, CreateAtId(l) \/ WriteBody(l) \/ SetAcr(l) PROVE InvitesOnce'
  <2>1. leg[l].activity # "none" /\ ~ repeated /\ Same
    BY <1>13, CreateAtIdStep, WriteBodyStep, SetAcrStep DEF accepting
  <2>2. Again(l) \/ \E a, p : Stays(l, a, p) /\ p \notin {"record", "subscribe", "store"}
    BY <1>13, CreateAtIdStep, WriteBodyStep, SetAcrStep
  <2> QED BY <1>2, <1>3, <2>1, <2>2 DEF Stays
<1>14. ASSUME NEW l \in Leg, DiscoverReciprocal(l) PROVE InvitesOnce'
  <2>1. leg[l].activity = "reciprocalRegistration" /\ ~ repeated /\ Same
    BY <1>14, DiscoverReciprocalStep DEF registering, accepting
  <2> QED BY <1>2, <1>3, <1>14, <2>1, DiscoverReciprocalStep DEF Stays
<1>15. ASSUME NEW l \in Leg, FindChannel(l) PROVE InvitesOnce'
  <2>1. ~ repeated /\ Same
    BY <1>0, <1>15, FindChannelStep DEF there, accepting
  <2> QED BY <1>0, <1>2, <1>15, <2>1, FindChannelStep DEF Stays
<1>16. ASSUME NEW l \in Leg, StoreChannel(l) PROVE InvitesOnce'
  <2>1. /\ leg[l].activity = "reciprocalWebhook" /\ leg[l].pc = "store" /\ ~ repeated
        /\ UNCHANGED minted
        /\ Stays(l, "none", "done") \/ Again(l)
    BY <1>16, StoreChannelStep DEF registering, accepting
  <2>2. CASE Same
    BY <1>2, <1>3, <2>1, <2>2 DEF Stays
  <2>3. CASE ~ Same
    <3>1. channels' = [channels EXCEPT ![SideOf(l)] = channels[SideOf(l)] + 1]
      BY <1>16, <2>1, <2>3, StoreChannelStep
    <3>2. l \in Establish
      <4>1. SideOf(l) = "acceptor" => channels'["inviter"] = channels["inviter"]
        BY <1>0, <3>1 DEF TypeOK
      <4> QED BY <1>0, <2>1, <2>3, <4>1
    <3>3. channels["inviter"] = 0
      BY <1>0, <2>1, <3>2 DEF InvitesOnce
    <3>4. channels'["inviter"] = 1
      BY <1>0, <3>1, <3>2, <3>3 DEF TypeOK
    <3>5. /\ leg'[l].pc \notin {"record", "subscribe", "store"}
          /\ \A m \in Leg : m # l => leg'[m] = leg[m]
      BY <1>0, <2>1, StepsOf DEF Again, Stays, Moves
    <3>6. \A m \in Establish : leg[m].pc # "unrecorded" => m[2] = 1
      <4> SUFFICES ASSUME NEW m \in Establish, leg[m].pc # "unrecorded" PROVE m[2] = 1
        OBVIOUS
      <4>1. leg[<<"inviter", m[2]>>].pc # "unrecorded" /\ m[2] \in Id
        BY <1>0
      <4>2. ~ (m[2] > minted["inviter"]) /\ minted["inviter"] <= 1
        BY <1>0, <2>1, <4>1 DEF Announced, InvitesOnce
      <4>3. m[2] \in Nat \ {0} /\ minted["inviter"] \in Nat
        BY <1>0, <4>1
      <4> QED BY <4>2, <4>3
    <3>7. \A m \in Establish : leg'[m].pc \notin {"subscribe", "store"}
      <4> SUFFICES ASSUME NEW m \in Establish, leg'[m].pc \in {"subscribe", "store"} PROVE FALSE
        OBVIOUS
      <4>1. m # l /\ leg[m].pc \in {"subscribe", "store"}
        BY <1>0, <3>5
      <4>2. m[2] = 1 /\ l[2] = 1
        BY <2>1, <3>2, <3>6, <4>1
      <4> QED BY <1>0, <3>2, <4>1, <4>2
    <3>8. \A b \in Accept : leg'[b].pc = "record" => leg[b].pc = "record"
      BY <1>0, <3>5
    <3> QED BY <1>0, <2>1, <3>4, <3>7, <3>8 DEF InvitesOnce, At
  <2> QED BY <2>2, <2>3
<1>17. ASSUME NEW l \in Leg, Crash(l) PROVE InvitesOnce'
  BY <1>0, <1>3, <1>17, CrashStep DEF there, accepting
<1>18. ASSUME NEW l \in Leg, Subscribe(l) PROVE InvitesOnce'
  <2>1. leg[l].activity = "reciprocalWebhook" /\ leg[l].pc = "subscribe" /\ ~ repeated /\ Same
    BY <1>0, <1>18, SubscribeStep DEF there, accepting
  <2>2. l \in Establish => channels["inviter"] = 0
    BY <1>0, <2>1 DEF InvitesOnce
  <2> QED BY <1>2, <1>3, <1>18, <2>1, <2>2, SubscribeStep DEF Stays
<1>19. CASE UNCHANGED vars
  BY <1>4, <1>19 DEF vars
<1> QED BY <1>5, <1>6, <1>7, <1>8, <1>9, <1>10, <1>11, <1>12, <1>13, <1>14, <1>15, <1>16, <1>17, <1>18,
           <1>19
        DEF Next, Inviting, AcceptStep, LegStep

-----------------------------------------------------------------------------
LEMMA InvAlways == Spec => []IInv
<1>1. IInv /\ [Next]_vars => IInv'
  <2> SUFFICES ASSUME IInv, [Next]_vars PROVE IInv'
    OBVIOUS
  <2>1. \A l \in Leg : Informed(l)'
    BY InformedStep
  <2> QED BY <2>1, TypeStep, AnnouncedStep, ConnectionsStep, AttendedStep, KeptStep,
             AcceptsOnceStep, InvitesOnceStep DEF IInv
<1> QED BY InitIInv, <1>1, PTL DEF Spec

-----------------------------------------------------------------------------
(* Every variable keeps its type, a leg is at a step of its activity, and   *)
(* what is there of a registration was minted.                              *)
THEOREM TypeAlways == Spec => []TypeOK
<1>1. IInv => TypeOK
  BY DEF IInv
<1> QED BY InvAlways, <1>1, PTL

(* A link that has been handed out stays good, and an invitation that has   *)
(* been accepted stays so, unless a run and a sweep store it side by side   *)
(* or its read fails (createSocialAgentInvitation).                        *)
THEOREM AlwaysInvitationKept == Spec => []InvitationKept
<1>1. IInv => InvitationKept
  BY DEF IInv, Kept, InvitationKept
<1> QED BY InvAlways, <1>1, PTL

LEMMA AtMostOne ==
  ASSUME NEW S, \A i, j \in S : i = j PROVE Cardinality(S) <= 1
<1>1. CASE S = {}
  BY <1>1, FS_EmptySet
<1>2. CASE S # {}
  <2>1. PICK i \in S : TRUE
    BY <1>2
  <2>2. S = {i}
    BY <2>1
  <2>3. Cardinality({i}) = 1
    BY FS_Singleton
  <2> QED BY <2>2, <2>3
<1> QED BY <1>1, <1>2

(* However often attempts are repeated, either side ends up with one        *)
(* registration of the other and one channel, unless two accepts go on at   *)
(* once, or a post comes before what the last announced is there.  Each leg *)
(* that dies between opening a channel and storing it (reciprocalWebhook)   *)
(* leaves one more open, and no other way adds one.                         *)
THEOREM AlwaysRegisteredOnce == Spec => []RegisteredOnce
<1>1. IInv => RegisteredOnce
  <2> SUFFICES ASSUME IInv PROVE RegisteredOnce
    OBVIOUS
  <2> DEFINE Storing(s) == {l \in Leg : SideOf(l) = s /\ At(l, "store")}
  <2>0. ASSUME NEW s \in Side, channels[s] <= 1,
               \A l \in Storing(s) : channels[s] = 0,
               \A l, m \in Storing(s) : l = m
        PROVE  Open(s) <= 1 + forgotten[s]
    <3>1. channels[s] \in Nat /\ forgotten[s] \in Nat
      BY DEF IInv, TypeOK
    <3>2. Open(s) = channels[s] + forgotten[s] + Cardinality(Storing(s))
      BY DEF Open
    <3>3. CASE Storing(s) = {}
      <4>1. Cardinality(Storing(s)) = 0
        BY <3>3, FS_EmptySet
      <4> HIDE DEF Storing
      <4> QED BY <2>0, <3>1, <3>2, <4>1
    <3>4. CASE Storing(s) # {}
      <4>1. PICK l \in Storing(s) : TRUE
        BY <3>4
      <4> HIDE DEF Storing
      <4>2. Storing(s) = {l}
        BY <2>0, <4>1
      <4>3. Cardinality(Storing(s)) = 1 /\ channels[s] = 0
        BY <2>0, <4>1, <4>2, FS_Singleton
      <4> QED BY <3>1, <3>2, <4>3
    <3> QED BY <3>3, <3>4
  <2>s. "acceptor" \in Side /\ "inviter" \in Side
    BY DEF Side
  <2>1. ASSUME ~ together
        PROVE  /\ Cardinality(Found("acceptor")) <= 1
               /\ Open("acceptor") <= 1 + forgotten["acceptor"]
    <3>1. Cardinality(Found("acceptor")) <= 1
      BY <2>1, AtMostOne DEF IInv, AcceptsOnce
    <3>2. \A l \in Storing("acceptor") : l \in Accept /\ leg[l].pc = "store" /\ Started(l)
      BY Sides DEF Leg, At, Started, Steps
    <3>3. channels["acceptor"] <= 1 /\ \A l \in Storing("acceptor") : channels["acceptor"] = 0
      BY <2>1, <3>2 DEF IInv, AcceptsOnce
    <3>4. \A l, m \in Storing("acceptor") : l = m
      BY <2>1, <3>2 DEF IInv, AcceptsOnce
    <3> HIDE DEF Storing
    <3> QED BY <2>0, <2>s, <3>1, <3>3, <3>4
  <2>2. ASSUME ~ repeated
        PROVE  /\ Cardinality(Found("inviter")) <= 1
               /\ Open("inviter") <= 1 + forgotten["inviter"]
    <3>1. minted["inviter"] <= 1 /\ minted["inviter"] \in Nat /\ Id \subseteq Nat \ {0}
      BY <2>2, Sides, Minted DEF IInv, InvitesOnce, Side
    <3>2. \A i \in Found("inviter") : i \in Id /\ i <= minted["inviter"]
      BY DEF IInv, TypeOK, Found, Side
    <3>3. ASSUME NEW i \in Found("inviter") PROVE i = 1
      <4>1. i \in Nat \ {0} /\ i <= minted["inviter"]
        BY <3>1, <3>2
      <4> QED BY <3>1, <4>1
    <3>4. \A i, j \in Found("inviter") : i = j
      BY <3>3
    <3>5. Cardinality(Found("inviter")) <= 1
      BY <3>4, AtMostOne
    <3>6. \A l \in Storing("inviter") : l \in Establish /\ leg[l].pc = "store"
      BY Sides DEF Leg, At
    <3>7. channels["inviter"] <= 1 /\ \A l \in Storing("inviter") : channels["inviter"] = 0
      BY <2>2, <3>6 DEF IInv, InvitesOnce
    <3>8. ASSUME NEW l \in Storing("inviter") PROVE l = <<"inviter", 1>>
      <4>1. l = <<"inviter", l[2]>> /\ l[2] \in Id /\ leg[l].pc # "unrecorded"
        BY <3>6, Sides
      <4>2. ~ (l[2] > minted["inviter"])
        BY <4>1 DEF IInv, Announced
      <4>3. l[2] \in Nat \ {0}
        BY <3>1, <4>1
      <4>4. l[2] = 1
        BY <3>1, <4>2, <4>3
      <4> QED BY <4>1, <4>4
    <3>9. \A l, m \in Storing("inviter") : l = m
      BY <3>8
    <3> HIDE DEF Storing
    <3> QED BY <2>0, <2>s, <3>5, <3>7, <3>9
  <2> QED BY <2>1, <2>2 DEF RegisteredOnce
<1> QED BY InvAlways, <1>1, PTL

(* When nobody is at work the peer can read every registration, unless who  *)
(* created it died between its body and its access control (setAcr).       *)
THEOREM AlwaysReadableWhenQuiet == Spec => []ReadableWhenQuiet
<1>1. IInv => ReadableWhenQuiet
  BY DEF IInv, Attended, Quiet, Found, ReadableWhenQuiet
<1> QED BY InvAlways, <1>1, PTL

(* When all is done the two sides know each other, and each hears of the    *)
(* other's changes.                                                         *)
THEOREM AlwaysDoneMeansConnected == Spec => []DoneMeansConnected
<1>1. IInv => DoneMeansConnected
  <2> SUFFICES ASSUME IInv, \A s \in Side : Cardinality(Found(s)) <= 1,
                      Quiet, \A l \in Leg : ~ At(l, "failed"),
                      NEW a \in Accept, At(a, "done")
               PROVE  /\ \E i, o \in Id :
                           /\ reg["inviter"][i] = "full" /\ reg["acceptor"][o] = "full"
                           /\ o \in reciprocal["inviter"][i] /\ i \in reciprocal["acceptor"][o]
                      /\ \A s \in Side : channels[s] > 0
    BY DEF DoneMeansConnected
  <2>1. /\ TypeOK /\ Announced /\ Connections /\ \A l \in Leg : Informed(l)
        /\ "inviter" \in Side /\ "acceptor" \in Side /\ a \in Leg
        /\ SideOf(a) = "acceptor" /\ minted["inviter"] \in Nat
        /\ Peer("inviter") = "acceptor" /\ Peer("acceptor") = "inviter"
    BY Sides, Minted DEF IInv, Side, Leg
  <2>2. /\ leg[a].reg \in Found("acceptor") /\ reciprocal["acceptor"][leg[a].reg] # {}
        /\ channels["acceptor"] > 0 /\ minted["inviter"] > 0
    BY <2>1 DEF Informed, HasFound, Answered, At
  <2>3. PICK e \in Leg : e = <<"inviter", 1>> /\ 1 \in Id /\ e \in Establish /\ SideOf(e) = "inviter"
    <3>1. 1 \in Id
      BY BoundAssumption DEF Id
    <3> QED BY <3>1, Sides DEF Leg
  <2>4. leg[e].pc = "done"
    <3>1. leg[e].pc # "unrecorded"
      BY <2>1, <2>2, <2>3 DEF Announced
    <3> QED BY <3>1, <2>3 DEF Quiet, At
  <2>5. /\ leg[e].reg \in Found("inviter") /\ reciprocal["inviter"][leg[e].reg] # {}
        /\ channels["inviter"] > 0
    BY <2>1, <2>3, <2>4 DEF Informed, HasFound
  <2>6. /\ leg[a].reg \in Id /\ leg[e].reg \in Id
        /\ reciprocal["acceptor"][leg[a].reg] \subseteq Found("inviter")
        /\ reciprocal["inviter"][leg[e].reg] \subseteq Found("acceptor")
        /\ \E i \in Id : reg["inviter"][i] = "full"
        /\ \E i \in Id : reg["acceptor"][i] = "full"
    BY <2>1, <2>2, <2>5 DEF Connections, Found
  <2>7. \A s \in Side : \A i, j \in Found(s) : i = j
    <3> SUFFICES ASSUME NEW s \in Side, NEW i \in Found(s), NEW j \in Found(s) PROVE i = j
      OBVIOUS
    <3>1. IsFiniteSet(Found(s))
      <4>1. IsFiniteSet(Id)
        BY FS_Interval, BoundAssumption DEF Id
      <4> QED BY <4>1, FS_Subset DEF Found
    <3>2. CASE i # j
      <4>1. Cardinality({i, j}) = 2
        <5>1. Cardinality({i}) = 1 /\ IsFiniteSet({i})
          BY FS_Singleton
        <5>2. j \notin {i}
          BY <3>2
        <5>3. Cardinality({i} \cup {j}) = Cardinality({i}) + 1
          BY <5>1, <5>2, FS_AddElement
        <5>4. {i, j} = {i} \cup {j}
          OBVIOUS
        <5>5. Cardinality({i} \cup {j}) = 2
          BY <5>1, <5>3
        <5> QED BY <5>4, <5>5
      <4>2. Cardinality({i, j}) <= Cardinality(Found(s))
        BY <3>1, FS_Subset
      <4>3. Cardinality(Found(s)) \in Nat
        BY <3>1, FS_CardinalityType
      <4> QED BY <4>1, <4>2, <4>3
    <3> QED BY <3>2
  <2>8. reg["inviter"][leg[e].reg] = "full" /\ reg["acceptor"][leg[a].reg] = "full"
    BY <2>1, <2>2, <2>5, <2>6, <2>7 DEF Found
  <2>9. leg[a].reg \in reciprocal["inviter"][leg[e].reg] /\ leg[e].reg \in reciprocal["acceptor"][leg[a].reg]
    BY <2>1, <2>2, <2>5, <2>6, <2>7
  <2> QED BY <2>2, <2>5, <2>6, <2>8, <2>9 DEF Side
<1> QED BY InvAlways, <1>1, PTL
=============================================================================
