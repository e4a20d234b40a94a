------------------------- MODULE DelegationProofs -------------------------
(* What holds of delegation for any peers, requests and revocations.        *)
(*                                                                          *)
(* Neither property is inductive by itself: a revocation collects what      *)
(* inherits without asking whose it is, and a request stores its grants     *)
(* long after it was validated.  Inv adds what a request that has passed    *)
(* validation is known to be, and that nothing is stored by any other.      *)
EXTENDS Delegation, TLAPS

Passed(i) == issue[i].pc \in {"store", "acr", "answered"}

(* What validation has established of a request.                            *)
Vetted(i) ==
  /\ issue[i].pc # "idle" => Msg(i) \in Message
  /\ issue[i].pc = "child" \/ Passed(i) =>
       /\ By(i, "top") = Msg(i).requester
       /\ \E g \in ever : Says(g).grantee = Msg(i).requester
  /\ Passed(i) /\ "child" \in Parts(i) => By(i, "child") = Msg(i).requester
  /\ issue[i].pc \in {"idle", "top", "child"} => issue[i].cur = "top"
  /\ Passed(i) => issue[i].cur \in Parts(i)

(* Every grant is a source grant or belongs to a request that has passed.   *)
Accounted ==
  /\ Source \subseteq ever
  /\ grants \subseteq ever
  /\ \A g \in ever \ Source : Passed(g[1]) /\ g[2] \in Parts(g[1])

(* A revocation has found grants that were stored, and at least one.        *)
Closing(v) ==
  /\ revoke[v].found \subseteq ever
  /\ revoke[v].pc \in {"idle", "load"} => revoke[v].found = {}
  /\ revoke[v].pc \in {"close", "delete"} => revoke[v].found # {}

Inv == /\ TypeOK
       /\ \A i \in Issue : Vetted(i)
       /\ Accounted
       /\ \A v \in Revocation : Closing(v)
       /\ RevokedByRightful
       /\ Rooted

USE OwnerAssumption, SourceAssumption, MessageAssumption, NoneAssumption, BoundAssumption

-----------------------------------------------------------------------------
(* What a stored grant says does not change: requests are posted once.      *)
LEMMA SaysKept ==
  ASSUME Inv,
         \A i \in Issue : issue'[i].msg = issue[i].msg \/ issue[i].pc = "idle",
         NEW g \in ever
  PROVE  Says(g)' = Says(g)
<1>1. CASE g \in Source
  BY <1>1 DEF Says
<1>2. CASE g \notin Source
  <2>1. g[1] \in Issue /\ issue[g[1]].pc # "idle"
    BY <1>2 DEF Inv, Accounted, TypeOK, Id, Passed
  <2> QED
    BY <1>2, <2>1 DEF Says, By, Msg
<1> QED BY <1>1, <1>2

(* Who inherits from a grant has been granted by the same peer: an          *)
(* inheriting source grant by the owner, any other by the request of both.  *)
LEMMA SameGrantor ==
  ASSUME Inv, NEW g \in ever, NEW h \in ever, Says(g).inheritsFrom = h
  PROVE  Says(g).grantedBy = Says(h).grantedBy
<1>0. h # None /\ h \in Id
  BY DEF Inv, TypeOK
<1>1. CASE g \in Source
  <2>1. h \in Source
    BY <1>0, <1>1 DEF Says
  <2> QED
    BY <1>1, <2>1 DEF Says
<1>2. CASE g \notin Source
  <2>1. g \in Issue \X Part /\ Passed(g[1]) /\ g[2] \in Parts(g[1])
    BY <1>2 DEF Inv, Accounted, TypeOK, Id
  <2>2. g[2] # "top" /\ h = <<g[1], "top">>
    BY <1>0, <1>2 DEF Says
  <2>3. g[2] = "child"
    BY <2>1, <2>2 DEF Part
  <2>4. h \notin Source
    BY <2>1, <2>2 DEF Part
  <2>5. Says(g).grantedBy = By(g[1], "child")
    BY <1>2, <2>3 DEF Says
  <2>6. Says(h).grantedBy = By(g[1], "top")
    BY <2>2, <2>4 DEF Says
  <2>7. Vetted(g[1])
    BY <2>1 DEF Inv
  <2> QED
    BY <2>1, <2>3, <2>5, <2>6, <2>7 DEF Vetted
<1> QED BY <1>1, <1>2

-----------------------------------------------------------------------------
(* Before anything happens only source grants are stored.                   *)
LEMMA InitInv == Init => Inv
<1> SUFFICES ASSUME Init PROVE Inv
  OBVIOUS
<1> USE DEF Init
<1>1. TypeOK
  <2>1. \A i \in Issue : issue[i] \in IssueState
    BY DEF IssueState, Part
  <2>2. \A v \in Revocation : revoke[v] \in RevokeState
    BY DEF RevokeState, Blank
  <2>3. \A v \in Revocation : revoke[v].pc = "idle"
    BY DEF Blank
  <2> QED
    BY <2>1, <2>2, <2>3 DEF TypeOK, Id
<1>2. \A i \in Issue : Vetted(i)
  BY DEF Vetted, Passed
<1>3. Accounted
  BY DEF Accounted
<1>4. \A v \in Revocation : Closing(v)
  BY DEF Closing, Blank
<1>5. RevokedByRightful
  BY DEF RevokedByRightful, Blank
<1>6. Rooted
  BY DEF Rooted, Says
<1> QED
  BY <1>1, <1>2, <1>3, <1>4, <1>5, <1>6 DEF Inv

-----------------------------------------------------------------------------
(* Every action on requests leaves the revocations alone; what it changes   *)
(* of one request is one record.                                            *)
IssueEffect(i) ==
  /\ revoke' = revoke /\ links' = links /\ torn' = torn
  /\ \A j \in Issue \ {i} : issue'[j] = issue[j]
  /\ issue' \in [Issue -> IssueState]
  /\ lost' \in 0 .. MaxLost
  /\ grants' \subseteq Id /\ acrs' \subseteq Id
  /\ ever' \subseteq Id /\ ever \subseteq ever'

(* What remains to be shown of an action on a request.                      *)
LEMMA IssuePreserves ==
  ASSUME Inv, NEW i \in Issue, IssueEffect(i),
         issue'[i].msg = issue[i].msg \/ issue[i].pc = "idle",
         Vetted(i)', Accounted', Rooted'
  PROVE  Inv'
<1>0. \A j \in Issue : issue'[j].msg = issue[j].msg \/ issue[j].pc = "idle"
  BY DEF IssueEffect
<1>1. \A g \in ever : Says(g)' = Says(g)
  BY <1>0, SaysKept
<1>2. TypeOK'
  BY DEF IssueEffect, TypeOK, Inv
<1>3. ASSUME NEW j \in Issue PROVE Vetted(j)'
  <2>1. CASE j = i
    BY <2>1
  <2>2. CASE j # i
    <3>1. issue'[j] = issue[j] /\ ever \subseteq ever'
      BY <2>2 DEF IssueEffect
    <3>2. Vetted(j)
      BY DEF Inv
    <3>3. By(j, "top")' = By(j, "top") /\ By(j, "child")' = By(j, "child")
      BY <3>1 DEF By, Msg
    <3>4. Parts(j)' = Parts(j) /\ Msg(j)' = Msg(j) /\ (Passed(j)' <=> Passed(j))
      BY <3>1 DEF Parts, Msg, Passed
    <3>5. (\E g \in ever : Says(g).grantee = Msg(j).requester)
            => \E g \in ever' : Says(g)'.grantee = Msg(j).requester
      BY <1>1, <3>1
    <3> QED
      BY <3>1, <3>2, <3>3, <3>4, <3>5 DEF Vetted
  <2> QED BY <2>1, <2>2
<1>4. \A v \in Revocation : Closing(v)'
  BY DEF Inv, Closing, IssueEffect
<1>5. RevokedByRightful'
  BY <1>1 DEF Inv, RevokedByRightful, Closing, Rightful, IssueEffect
<1> QED
  BY <1>2, <1>3, <1>4, <1>5 DEF Inv

(* As long as nothing is stored, what is stored stays accounted for.        *)
LEMMA NothingStored ==
  ASSUME Inv, NEW i \in Issue, IssueEffect(i),
         issue'[i].msg = issue[i].msg \/ issue[i].pc = "idle",
         Passed(i) => Passed(i)',
         ever' = ever, grants' = grants
  PROVE  Accounted' /\ Rooted'
<1>0. \A j \in Issue : issue'[j].msg = issue[j].msg \/ issue[j].pc = "idle"
  BY DEF IssueEffect
<1>1. \A g \in ever : Says(g)' = Says(g)
  BY <1>0, SaysKept
<1>2. Rooted'
  BY <1>1 DEF Rooted, Inv
<1>3. ASSUME NEW g \in ever \ Source
      PROVE  Passed(g[1])' /\ g[2] \in Parts(g[1])'
  <2>1. g[1] \in Issue /\ Passed(g[1]) /\ g[2] \in Parts(g[1])
    BY DEF Inv, Accounted, TypeOK, Id
  <2>2. Passed(g[1])'
    BY <2>1 DEF IssueEffect, Passed
  <2>3. issue'[g[1]].msg = issue[g[1]].msg
    BY <1>0, <2>1 DEF Passed
  <2> QED
    BY <2>1, <2>2, <2>3 DEF Parts, Msg
<1> QED
  BY <1>2, <1>3 DEF Accounted, Inv

(* A posted request has passed nothing yet.                                 *)
LEMMA PostInv ==
  ASSUME Inv, NEW i \in Issue, NEW m \in Message, Post(i, m)
  PROVE  Inv'
<1>1. IssueEffect(i)
  <2>0. issue[i] \in IssueState /\ issue \in [Issue -> IssueState]
    BY DEF Inv, TypeOK
  <2>1. issue' \in [Issue -> IssueState]
    <3>1. [issue[i] EXCEPT !.pc = "top", !.msg = m] \in IssueState
      BY <2>0 DEF IssueState
    <3>2. issue' = [issue EXCEPT ![i] = [issue[i] EXCEPT !.pc = "top", !.msg = m]]
      BY <2>0 DEF Post
    <3> QED
      BY <2>0, <3>1, <3>2
  <2> QED
    BY <2>1 DEF IssueEffect, Inv, TypeOK, Post, revoking
<1>2. Vetted(i)'
  BY DEF Vetted, Passed, Post, Msg, Inv, TypeOK
<1>3. Accounted' /\ Rooted'
  BY <1>1, NothingStored DEF Post, Passed
<1> QED
  BY <1>1, <1>2, <1>3, IssuePreserves DEF Post

(* Validation of the first grant: its grantor is the requester, and a grant *)
(* to the requester has been stored.                                        *)
LEMMA ValidateTopInv ==
  ASSUME Inv, NEW i \in Issue, ValidateTop(i)
  PROVE  Inv'
<1>0. /\ issue[i].pc = "top" /\ issue[i].cur = "top"
      /\ issue' = [issue EXCEPT ![i].pc = issue'[i].pc]
      /\ issue'[i].pc \in {"rejected", "child", "store"}
      /\ issue'[i].pc \in {"child", "store"} => Delegable(i, "top")
      /\ issue'[i].pc = "store" => Parts(i) = {"top"}
  BY DEF ValidateTop, Inv, TypeOK, Vetted, Parts, Part
<1>1. IssueEffect(i)
  <2>1. issue' \in [Issue -> IssueState]
    BY <1>0 DEF Inv, TypeOK, IssueState
  <2> QED
    BY <2>1, <1>0 DEF IssueEffect, Inv, TypeOK, ValidateTop, revoking
<1>2. issue'[i].msg = issue[i].msg /\ issue'[i].cur = "top"
  BY <1>0 DEF Inv, TypeOK, IssueState
<1>3. \A g \in ever : Says(g)' = Says(g)
  BY <1>1, <1>2, SaysKept DEF IssueEffect
<1>4. Vetted(i)'
  <2>1. Msg(i)' = Msg(i) /\ By(i, "top")' = By(i, "top") /\ Parts(i)' = Parts(i)
    BY <1>2 DEF Msg, By, Parts
  <2>2. Msg(i) \in Message
    BY <1>0 DEF Inv, Vetted
  <2>3. Delegable(i, "top") => \E g \in ever : Says(g)'.grantee = Msg(i).requester
    BY <1>3 DEF Delegable, Holds, Inv, Accounted
  <2>4. ever' = ever
    BY DEF ValidateTop
  <2> QED
    BY <1>0, <1>2, <2>1, <2>2, <2>3, <2>4 DEF Vetted, Passed, Delegable
<1>5. Accounted' /\ Rooted'
  BY <1>0, <1>1, <1>2, NothingStored DEF ValidateTop, Passed
<1> QED
  BY <1>1, <1>2, <1>4, <1>5, IssuePreserves

(* Validation of the inheriting grant: it has the same grantor.             *)
LEMMA ValidateChildInv ==
  ASSUME Inv, NEW i \in Issue, ValidateChild(i)
  PROVE  Inv'
<1>0. /\ issue[i].pc = "child" /\ issue[i].cur = "top"
      /\ issue' = [issue EXCEPT ![i].pc = issue'[i].pc]
      /\ issue'[i].pc \in {"rejected", "store"}
      /\ issue'[i].pc = "store" => Delegable(i, "child")
  BY DEF ValidateChild, Inv, TypeOK, Vetted
<1>1. IssueEffect(i)
  <2>1. issue' \in [Issue -> IssueState]
    BY <1>0 DEF Inv, TypeOK, IssueState
  <2> QED
    BY <2>1, <1>0 DEF IssueEffect, Inv, TypeOK, ValidateChild, revoking
<1>2. issue'[i].msg = issue[i].msg /\ issue'[i].cur = "top"
  BY <1>0 DEF Inv, TypeOK, IssueState
<1>3. \A g \in ever : Says(g)' = Says(g)
  BY <1>1, <1>2, SaysKept DEF IssueEffect
<1>4. Vetted(i)'
  <2>1. /\ Msg(i)' = Msg(i) /\ Parts(i)' = Parts(i) /\ "top" \in Parts(i)
        /\ By(i, "top")' = By(i, "top") /\ By(i, "child")' = By(i, "child")
    BY <1>2 DEF Msg, By, Parts, Part
  <2>2. Vetted(i)
    BY DEF Inv
  <2>3. \E g \in ever' : Says(g)'.grantee = Msg(i).requester
    BY <1>0, <1>3, <2>2 DEF Vetted, ValidateChild
  <2> QED
    BY <1>0, <1>2, <2>1, <2>2, <2>3 DEF Vetted, Passed, Delegable
<1>5. Accounted' /\ Rooted'
  BY <1>0, <1>1, <1>2, NothingStored DEF ValidateChild, Passed
<1> QED
  BY <1>1, <1>2, <1>4, <1>5, IssuePreserves

(* The one step that adds a right: the peer that grants it has been given   *)
(* it by a grant stored before, though that may be gone by now.             *)
LEMMA StoreDataGrantInv ==
  ASSUME Inv, NEW i \in Issue, StoreDataGrant(i)
  PROVE  Inv'
<1> PICK part \in Part : issue[i].cur = part
  BY DEF Inv, TypeOK, IssueState
<1> DEFINE g == <<i, part>>
<1>0. /\ issue[i].pc = "store" /\ Passed(i) /\ Vetted(i) /\ issue[i] \in IssueState
      /\ ever' = ever \cup {g} /\ grants' = grants \cup {g}
      /\ issue' = [issue EXCEPT ![i].pc = "acr"] \/ issue' = issue
      /\ g \in Issue \X Part /\ g \notin Source
  BY DEF StoreDataGrant, Inv, TypeOK, Passed, IssueState
<1>1. IssueEffect(i)
  <2>1. issue' \in [Issue -> IssueState]
    BY <1>0 DEF Inv, TypeOK, IssueState
  <2>2. lost' \in 0 .. MaxLost
    BY DEF StoreDataGrant, LoseResult, Inv, TypeOK
  <2> QED
    BY <2>1, <2>2, <1>0 DEF IssueEffect, Inv, TypeOK, StoreDataGrant, revoking, Id
<1>2. issue'[i].msg = issue[i].msg /\ issue'[i].cur = issue[i].cur /\ Passed(i)'
  BY <1>0 DEF Inv, TypeOK, Passed, IssueState
<1>3. \A h \in ever : Says(h)' = Says(h)
  BY <1>1, <1>2, SaysKept DEF IssueEffect
<1>4. /\ Msg(i)' = Msg(i) /\ Parts(i)' = Parts(i)
      /\ By(i, "top")' = By(i, "top") /\ By(i, "child")' = By(i, "child")
  BY <1>2 DEF Msg, By, Parts, Part
<1>5. Vetted(i)'
  <2>1. \E h \in ever' : Says(h)'.grantee = Msg(i).requester
    BY <1>0, <1>3 DEF Vetted
  <2> QED
    BY <1>0, <1>2, <1>4, <2>1 DEF Vetted, Passed
<1>6. Accounted'
  <2>1. ASSUME NEW h \in ever \ Source
        PROVE  Passed(h[1])' /\ h[2] \in Parts(h[1])'
    <3>1. h[1] \in Issue /\ Passed(h[1]) /\ h[2] \in Parts(h[1])
      BY DEF Inv, Accounted, TypeOK, Id
    <3>2. CASE h[1] = i
      BY <1>2, <1>4, <3>1, <3>2
    <3>3. CASE h[1] # i
      <4>1. issue'[h[1]] = issue[h[1]]
        BY <1>1, <3>1, <3>3 DEF IssueEffect
      <4> QED
        BY <3>1, <4>1 DEF Parts, Msg, Passed
    <3> QED BY <3>2, <3>3
  <2>2. Passed(g[1])' /\ g[2] \in Parts(g[1])'
    BY <1>0, <1>2, <1>4 DEF Vetted
  <2> QED
    BY <1>0, <2>1, <2>2 DEF Accounted, Inv
<1>7. Rooted'
  <2>1. Says(g)' = [grantee |-> Msg(i).grantee, grantedBy |-> Msg(i).requester,
                    inheritsFrom |-> Says(g)'.inheritsFrom]
    <3>1. By(i, part)' = Msg(i).requester
      BY <1>0, <1>4 DEF Vetted, IssueState, Part
    <3> QED
      BY <1>0, <1>4, <3>1 DEF Says
  <2>2. PICK h \in ever : Says(h).grantee = Msg(i).requester
    BY <1>0 DEF Vetted
  <2>3. SUFFICES ASSUME NEW S \in SUBSET Agent,
                        \A f \in Source : SourceGrant[f].grantee \in S,
                        \A f \in ever' : Says(f)'.grantedBy \in S => Says(f)'.grantee \in S
                 PROVE  \A f \in ever' : Says(f)'.grantee \in S
    BY DEF Rooted
  <2>4. \A f \in ever : Says(f).grantee \in S
    BY <1>0, <1>3, <2>3 DEF Inv, Rooted
  <2>5. Says(g)'.grantee \in S
    BY <1>0, <2>1, <2>2, <2>3, <2>4
  <2> QED
    BY <1>0, <1>3, <2>4, <2>5
<1> QED
  BY <1>1, <1>2, <1>5, <1>6, <1>7, IssuePreserves

(* After its first grant a request goes on to the inheriting one, if any.   *)
LEMMA CreateAcrInv ==
  ASSUME Inv, NEW i \in Issue, CreateAcr(i)
  PROVE  Inv'
<1>0. /\ issue[i].pc = "acr" /\ Vetted(i) /\ issue[i] \in IssueState
      /\ \/ issue' = issue
         \/ issue' = [issue EXCEPT ![i] = [issue[i] EXCEPT !.pc = "answered"]]
         \/ /\ issue' = [issue EXCEPT ![i] = [issue[i] EXCEPT !.pc = "store", !.cur = "child"]]
            /\ "child" \in Parts(i)
  BY DEF CreateAcr, Inv, TypeOK, Part
<1>1. IssueEffect(i)
  <2>1. issue' \in [Issue -> IssueState]
    <3>0. issue \in [Issue -> IssueState]
      BY DEF Inv, TypeOK
    <3>1. [issue[i] EXCEPT !.pc = "answered"] \in IssueState
      BY <1>0 DEF IssueState
    <3>2. [issue[i] EXCEPT !.pc = "store", !.cur = "child"] \in IssueState
      BY <1>0 DEF IssueState, Part
    <3> QED
      BY <1>0, <3>0, <3>1, <3>2
  <2>2. lost' \in 0 .. MaxLost
    BY DEF CreateAcr, LoseResult, Inv, TypeOK
  <2>3. acrs' \subseteq Id
    BY <1>0 DEF CreateAcr, Inv, TypeOK, Id, IssueState
  <2> QED
    BY <2>1, <2>2, <2>3, <1>0 DEF IssueEffect, Inv, TypeOK, CreateAcr, revoking
<1>2. /\ issue'[i].msg = issue[i].msg /\ Passed(i) /\ Passed(i)'
      /\ issue'[i].cur = issue[i].cur \/ (issue'[i].cur = "child" /\ "child" \in Parts(i))
      /\ issue'[i].pc \in {"store", "acr", "answered"}
  <2>1. issue \in [Issue -> IssueState]
    BY DEF Inv, TypeOK
  <2>2. CASE issue' = issue
    BY <1>0, <2>2 DEF Passed
  <2>3. CASE issue' = [issue EXCEPT ![i] = [issue[i] EXCEPT !.pc = "answered"]]
    <3>1. issue'[i] = [issue[i] EXCEPT !.pc = "answered"] /\ issue[i] \in IssueState
      BY <1>0, <2>1, <2>3
    <3> QED
      BY <1>0, <3>1 DEF Passed, IssueState
  <2>4. CASE /\ issue' = [issue EXCEPT ![i] = [issue[i] EXCEPT !.pc = "store", !.cur = "child"]]
             /\ "child" \in Parts(i)
    <3>1. /\ issue'[i] = [issue[i] EXCEPT !.pc = "store", !.cur = "child"]
          /\ issue[i] \in IssueState
      BY <1>0, <2>1, <2>4
    <3> QED
      BY <1>0, <2>4, <3>1 DEF Passed, IssueState
  <2> QED
    BY <1>0, <2>2, <2>3, <2>4
<1>3. \A g \in ever : Says(g)' = Says(g)
  BY <1>1, <1>2, SaysKept DEF IssueEffect
<1>4. /\ Msg(i)' = Msg(i) /\ Parts(i)' = Parts(i)
      /\ By(i, "top")' = By(i, "top") /\ By(i, "child")' = By(i, "child")
  BY <1>2 DEF Msg, By, Parts
<1>5. Vetted(i)'
  <2>1. \E g \in ever' : Says(g)'.grantee = Msg(i).requester
    BY <1>0, <1>2, <1>3 DEF Vetted, CreateAcr
  <2> QED
    BY <1>0, <1>2, <1>4, <2>1 DEF Vetted
<1>6. Accounted' /\ Rooted'
  BY <1>1, <1>2, NothingStored DEF CreateAcr
<1> QED
  BY <1>1, <1>2, <1>5, <1>6, IssuePreserves

-----------------------------------------------------------------------------
(* A state a revocation may be in.                                          *)
Fitting(v, r) ==
  /\ r \in RevokeState
  /\ r.pc \in {"delete", "clear"} => r.todo # {}
  /\ r.pc \in {"idle", "load"} => r.found = {}
  /\ r.pc \in {"close", "delete"} => r.found # {}
  /\ r.found \subseteq ever
  /\ \A g \in r.found : Rightful(r.by, g)

(* The state a revocation ends in is one.                                      *)
LEMMA BlankFits ==
  ASSUME NEW v \in Revocation, NEW pc \in {"answered", "rejected", "abandoned"}
  PROVE  Fitting(v, Blank(pc))
  BY DEF Fitting, Blank, RevokeState

(* In every state of Inv a revocation is in such a state.                   *)
LEMMA RevocationFits ==
  ASSUME Inv, NEW v \in Revocation
  PROVE  Fitting(v, revoke[v])
  BY DEF Fitting, Inv, TypeOK, Closing, RevokedByRightful

(* Actions on revocations store nothing and leave the requests alone.       *)
LEMMA RevokePreserves ==
  ASSUME Inv, NEW v \in Revocation, NEW r,
         revoke' = [revoke EXCEPT ![v] = r], Fitting(v, r),
         issue' = issue, ever' = ever,
         grants' \subseteq grants, acrs' \subseteq acrs, torn' \subseteq Issue,
         links' \in [Agent -> SUBSET Id], lost' \in 0 .. MaxLost
  PROVE  Inv'
<1>1. \A g \in Id : Says(g)' = Says(g)
  BY DEF Says, By, Msg
<1>2. \A w \in Revocation : revoke'[w] = IF w = v THEN r ELSE revoke[w]
  BY DEF Inv, TypeOK
<1>3. TypeOK'
  <2>1. revoke' \in [Revocation -> RevokeState]
    BY DEF Inv, TypeOK, Fitting
  <2>2. \A w \in Revocation : revoke'[w].pc \in {"delete", "clear"} => revoke'[w].todo # {}
    BY <1>2 DEF Inv, TypeOK, Fitting
  <2> QED
    BY <2>1, <2>2 DEF Inv, TypeOK
<1>4. \A i \in Issue : Vetted(i)'
  <2>1. \A i \in Issue : Vetted(i)
    BY DEF Inv
  <2>2. ever \subseteq Id
    BY DEF Inv, TypeOK
  <2> QED
    BY <1>1, <2>1, <2>2 DEF Vetted, Passed, Parts, By, Msg
<1>5. Accounted'
  BY DEF Inv, Accounted, Passed, Parts, Msg
<1>6. \A w \in Revocation : Closing(w)'
  BY <1>2 DEF Inv, Closing, Fitting
<1>7. RevokedByRightful'
  <2>1. \A w \in Revocation : revoke'[w].found \subseteq Id
    BY <1>3 DEF TypeOK, RevokeState
  <2> QED
    BY <1>1, <1>2, <2>1 DEF Inv, RevokedByRightful, Fitting, Rightful
<1>8. Rooted'
  <2>1. ever \subseteq Id
    BY DEF Inv, TypeOK
  <2> QED
    BY <1>1, <2>1 DEF Inv, Rooted
<1> QED
  BY <1>3, <1>4, <1>5, <1>6, <1>7, <1>8 DEF Inv

(* A posted revocation has found nothing yet.                               *)
LEMMA RevokeInv ==
  ASSUME Inv, NEW v \in Revocation, NEW q \in Agent, NEW listed \in SUBSET Id,
         Revoke(v, q, listed)
  PROVE  Inv'
<1> DEFINE r == [revoke[v] EXCEPT !.pc = "load", !.by = q, !.listed = listed]
<1>0. revoke[v] \in RevokeState /\ revoke \in [Revocation -> RevokeState]
  BY DEF Inv, TypeOK
<1>1. revoke' = [revoke EXCEPT ![v] = r]
  BY <1>0 DEF Revoke
<1>2. r \in RevokeState /\ r.pc = "load" /\ r.found = {}
  BY <1>0 DEF RevokeState, Revoke, Inv, Closing
<1>3. Fitting(v, r)
  BY <1>2 DEF Fitting
<1> HIDE DEF r
<1> QED
  BY <1>1, <1>3, RevokePreserves DEF Revoke, issuing, Inv, TypeOK

(* What is loaded has been checked against the requester, all of it.        *)
LEMMA LoadAuthorityInv ==
  ASSUME Inv, NEW v \in Revocation, LoadAuthority(v)
  PROVE  Inv'
<1> DEFINE loaded == revoke[v].listed \cap grants
           rightful == [revoke[v] EXCEPT !.pc = "close", !.found = loaded]
<1>0. revoke[v] \in RevokeState /\ loaded \subseteq ever /\ loaded \subseteq Id
  BY DEF Inv, TypeOK, Accounted
<1>1. ASSUME loaded # {}, \A g \in loaded : Rightful(revoke[v].by, g)
      PROVE  Fitting(v, rightful)
  <2>1. /\ rightful \in RevokeState /\ rightful.pc = "close"
        /\ rightful.found = loaded /\ rightful.by = revoke[v].by
    BY <1>0 DEF RevokeState
  <2> QED
    BY <1>0, <1>1, <2>1 DEF Fitting
<1>2. PICK r : revoke' = [revoke EXCEPT ![v] = r] /\ Fitting(v, r)
  BY <1>1, BlankFits DEF LoadAuthority
<1> QED
  BY <1>2, RevokePreserves DEF LoadAuthority, issuing, Inv, TypeOK

(* What joins the closure has been granted by whom the rest has been.       *)
LEMMA CloseOverChildrenInv ==
  ASSUME Inv, NEW v \in Revocation, CloseOverChildren(v)
  PROVE  Inv'
<1> DEFINE fresh == ChildrenOf(revoke[v].found) \ revoke[v].found
           more == [revoke[v] EXCEPT !.found = @ \cup fresh]
           all == [revoke[v] EXCEPT !.pc = "delete", !.todo = revoke[v].found]
<1>0. /\ revoke[v] \in RevokeState /\ revoke[v].pc = "close" /\ Fitting(v, revoke[v])
      /\ revoke \in [Revocation -> RevokeState]
      /\ fresh \subseteq ever /\ fresh \subseteq Id
  BY RevocationFits DEF Inv, TypeOK, Accounted, ChildrenOf, CloseOverChildren
<1>1. \A g \in fresh : Rightful(revoke[v].by, g)
  <2> SUFFICES ASSUME NEW g \in fresh PROVE Rightful(revoke[v].by, g)
    OBVIOUS
  <2>1. PICK h \in revoke[v].found : Says(g).inheritsFrom = h
    BY DEF ChildrenOf
  <2>2. Says(g).grantedBy = Says(h).grantedBy
    BY <1>0, <2>1, SameGrantor DEF Fitting
  <2> QED
    BY <1>0, <2>1, <2>2 DEF Fitting, Rightful
<1>2. Fitting(v, more)
  <2>1. /\ more \in RevokeState /\ more.pc = "close" /\ more.by = revoke[v].by
        /\ more.found = revoke[v].found \cup fresh
    BY <1>0 DEF RevokeState
  <2> QED
    BY <1>0, <1>1, <2>1 DEF Fitting
<1>3. Fitting(v, all)
  <2>1. /\ all \in RevokeState /\ all.pc = "delete" /\ all.by = revoke[v].by
        /\ all.found = revoke[v].found /\ all.todo = revoke[v].found
    BY <1>0 DEF RevokeState
  <2> QED
    BY <1>0, <2>1 DEF Fitting
<1>4. PICK r : revoke' = [revoke EXCEPT ![v] = r] /\ Fitting(v, r)
  <2>1. \/ revoke' = [revoke EXCEPT ![v] = more]
        \/ revoke' = [revoke EXCEPT ![v] = all]
    BY <1>0 DEF CloseOverChildren
  <2> QED
    BY <1>2, <1>3, <2>1
<1>5. torn' \subseteq Issue
  BY DEF CloseOverChildren, Inv, TypeOK
<1> QED
  BY <1>4, <1>5, RevokePreserves DEF CloseOverChildren, issuing, Inv, TypeOK

(* A deletion goes on, is repeated, or has left something to clear.         *)
LEMMA DeleteDataGrantInv ==
  ASSUME Inv, NEW v \in Revocation, DeleteDataGrant(v)
  PROVE  Inv'
<1>0. /\ revoke[v] \in RevokeState /\ revoke[v].pc = "delete" /\ Fitting(v, revoke[v])
      /\ revoke \in [Revocation -> RevokeState]
  BY RevocationFits DEF Inv, TypeOK, DeleteDataGrant
<1>1. PICK g \in revoke[v].todo :
        /\ grants' = grants \ {g} /\ acrs' = acrs \ {g}
        /\ \/ revoke' = [revoke EXCEPT ![v] = Deleted(v, g)] /\ lost' = lost
           \/ LoseResult /\ revoke' = [revoke EXCEPT ![v].todo = revoke[v].found]
  BY DEF DeleteDataGrant
<1>2. Fitting(v, Deleted(v, g))
  <2> DEFINE own == {h \in revoke[v].found : revoke[v].by = Owner /\ Says(h).grantedBy = Owner}
             less == [revoke[v] EXCEPT !.todo = @ \ {g}]
             clear == [revoke[v] EXCEPT !.pc = "clear", !.todo = own]
  <2>1. CASE revoke[v].todo # {g}
    <3>1. /\ less \in RevokeState /\ less.pc = "delete" /\ less.by = revoke[v].by
          /\ less.found = revoke[v].found /\ less.todo = revoke[v].todo \ {g}
      BY <1>0 DEF RevokeState
    <3>2. less.todo # {}
      BY <1>1, <2>1, <3>1
    <3> QED
      BY <1>0, <2>1, <3>1, <3>2 DEF Fitting, Deleted
  <2>2. CASE revoke[v].todo = {g} /\ own # {}
    <3>1. /\ clear \in RevokeState /\ clear.pc = "clear" /\ clear.by = revoke[v].by
          /\ clear.found = revoke[v].found /\ clear.todo = own
      BY <1>0 DEF RevokeState
    <3>2. Deleted(v, g) = clear
      BY <2>2 DEF Deleted
    <3> QED
      BY <1>0, <2>2, <3>1, <3>2 DEF Fitting
  <2>3. CASE revoke[v].todo = {g} /\ own = {}
    BY <2>3, BlankFits DEF Deleted
  <2> QED BY <2>1, <2>2, <2>3
<1>3. Fitting(v, [revoke[v] EXCEPT !.todo = revoke[v].found])
  <2> DEFINE again == [revoke[v] EXCEPT !.todo = revoke[v].found]
  <2>1. /\ again \in RevokeState /\ again.pc = "delete" /\ again.by = revoke[v].by
        /\ again.found = revoke[v].found /\ again.todo = revoke[v].found
    BY <1>0 DEF RevokeState
  <2> QED
    BY <1>0, <2>1 DEF Fitting
<1>4. PICK r : revoke' = [revoke EXCEPT ![v] = r] /\ Fitting(v, r)
  <2>1. CASE revoke' = [revoke EXCEPT ![v] = Deleted(v, g)]
    BY <1>2, <2>1
  <2>2. CASE revoke' = [revoke EXCEPT ![v] = [revoke[v] EXCEPT !.todo = revoke[v].found]]
    BY <1>3, <2>2
  <2> QED
    BY <1>0, <1>1, <2>1, <2>2
<1>5. lost' \in 0 .. MaxLost
  BY <1>1 DEF LoseResult, Inv, TypeOK
<1> QED
  BY <1>1, <1>4, <1>5, RevokePreserves DEF DeleteDataGrant, Inv, TypeOK

(* Clearing links goes on until nothing is left to clear.                   *)
LEMMA ClearLinksInv ==
  ASSUME Inv, NEW v \in Revocation, ClearLinks(v)
  PROVE  Inv'
<1>0. /\ revoke[v] \in RevokeState /\ revoke[v].pc = "clear" /\ Fitting(v, revoke[v])
  BY RevocationFits DEF Inv, TypeOK, ClearLinks
<1>1. PICK a \in Agent :
        /\ links' = [links EXCEPT ![a] = @ \ To(revoke[v].todo, a)]
        /\ revoke' = [revoke EXCEPT ![v] = Cleared(v, a)]
  BY DEF ClearLinks
<1>2. Fitting(v, Cleared(v, a))
  <2> DEFINE left == revoke[v].todo \ To(revoke[v].todo, a)
             less == [revoke[v] EXCEPT !.todo = left]
  <2>1. CASE left = {}
    BY <2>1, BlankFits DEF Cleared
  <2>2. CASE left # {}
    <3>1. /\ less \in RevokeState /\ less.pc = "clear" /\ less.by = revoke[v].by
          /\ less.found = revoke[v].found /\ less.todo = left
      BY <1>0 DEF RevokeState
    <3>2. Cleared(v, a) = less
      BY <2>2 DEF Cleared
    <3> QED
      BY <1>0, <2>2, <3>1, <3>2 DEF Fitting
  <2> QED BY <2>1, <2>2
<1>3. links' \in [Agent -> SUBSET Id]
  BY <1>1 DEF Inv, TypeOK
<1> QED
  BY <1>1, <1>2, <1>3, RevokePreserves DEF ClearLinks, issuing, Inv, TypeOK

(* A handler that dies has no state left.                                   *)
LEMMA HandlerDiesInv ==
  ASSUME Inv, NEW v \in Revocation, HandlerDies(v)
  PROVE  Inv'
<1>1. revoke' = [revoke EXCEPT ![v] = Blank("abandoned")]
  BY DEF HandlerDies
<1>2. Fitting(v, Blank("abandoned"))
  BY BlankFits
<1> QED
  BY <1>1, <1>2, RevokePreserves DEF HandlerDies, issuing, Inv, TypeOK

-----------------------------------------------------------------------------
(* Every step preserves the invariant.                                      *)
LEMMA StepInv == Inv /\ [Next]_vars => Inv'
<1> SUFFICES ASSUME Inv, [Next]_vars PROVE Inv'
  OBVIOUS
<1>1. ASSUME NEW i \in Issue, NEW m \in Message, Post(i, m) PROVE Inv'
  BY <1>1, PostInv
<1>2. ASSUME NEW i \in Issue, IssueStep(i) PROVE Inv'
  BY <1>2, ValidateTopInv, ValidateChildInv, StoreDataGrantInv, CreateAcrInv DEF IssueStep
<1>3. ASSUME NEW v \in Revocation, NEW q \in Agent, NEW listed \in SUBSET Id,
             Revoke(v, q, listed)
      PROVE  Inv'
  BY <1>3, RevokeInv
<1>4. ASSUME NEW v \in Revocation, RevokeStep(v) PROVE Inv'
  BY <1>4, LoadAuthorityInv, CloseOverChildrenInv, DeleteDataGrantInv, ClearLinksInv
     DEF RevokeStep
<1>5. ASSUME NEW v \in Revocation, HandlerDies(v) PROVE Inv'
  BY <1>5, HandlerDiesInv
<1>6. CASE UNCHANGED vars
  <2>1. \A g \in Id : Says(g)' = Says(g)
    BY <1>6 DEF Says, By, Msg, vars
  <2>2. TypeOK' /\ Accounted' /\ \A v \in Revocation : Closing(v)'
    BY <1>6 DEF vars, Inv, TypeOK, Accounted, Passed, Parts, Msg, Closing
  <2>3. \A i \in Issue : Vetted(i)'
    <3>1. \A i \in Issue : Vetted(i) /\ ever \subseteq Id
      BY DEF Inv, TypeOK
    <3> QED
      BY <1>6, <2>1, <3>1 DEF vars, Vetted, Passed, Parts, By, Msg
  <2>4. RevokedByRightful'
    BY <1>6, <2>1 DEF vars, Inv, TypeOK, RevokeState, RevokedByRightful, Rightful
  <2>5. Rooted'
    BY <1>6, <2>1 DEF vars, Inv, TypeOK, Rooted
  <2> QED
    BY <2>2, <2>3, <2>4, <2>5 DEF Inv
<1> QED
  BY <1>1, <1>2, <1>3, <1>4, <1>5, <1>6 DEF Next

(* The inductive invariant holds in every reachable state: every stored     *)
(* grant belongs to a request that passed validation.                       *)
THEOREM InvAlways == Spec => []Inv
  BY InitInv, StepInv, PTL DEF Spec

(* Every variable of the delegation endpoint keeps its type and no deletion *)
(* workflow is started with nothing to delete.                              *)
THEOREM TypeAlways == Spec => []TypeOK
<1>1. Inv => TypeOK
  BY DEF Inv
<1> QED BY <1>1, InvAlways, PTL

(* A revocation removes, or is about to remove, only what its requester has *)
(* granted, or anything if it is the owner: whatever it lists, whichever    *)
(* grants inherit from that, and whoever posts what at the same time        *)
(* (GrantRevocationHandler.revokeGrants, GrantIssuanceHandler.issue).       *)
THEOREM AlwaysRevokedByRightful == Spec => []RevokedByRightful
<1>1. Inv => RevokedByRightful
  BY DEF Inv
<1> QED BY <1>1, InvAlways, PTL

(* Peers who delegate to each other get nothing the owner has not granted   *)
(* to one of them first (GrantIssuanceHandler.validateDelegable).           *)
THEOREM AlwaysRooted == Spec => []Rooted
<1>1. Inv => Rooted
  BY DEF Inv
<1> QED BY <1>1, InvAlways, PTL

-----------------------------------------------------------------------------
(* Nothing is left behind.                                                  *)
(*                                                                          *)
(* What a deletion has collected stays complete: a grant that inherits from *)
(* one of it is still to be deleted by it, because a request that could     *)
(* store another was caught (torn) when the closure was finished.           *)

NotTorn(g) == g \notin torn \X {"child"}

Collected(v) ==
  revoke[v].pc = "delete" =>
    /\ revoke[v].todo \subseteq revoke[v].found
    /\ \A g \in grants : NotTorn(g) /\ Says(g).inheritsFrom \in revoke[v].found
                           => g \in revoke[v].todo

(* A request that has not been caught keeps what it has stored first.       *)
Uncaught(i) ==
  Storing(i) /\ i \notin torn =>
    /\ \A v \in Revocation : revoke[v].pc = "delete" => <<i, "top">> \notin revoke[v].found
    /\ issue[i].pc = "acr" \/ issue[i].cur = "child" => <<i, "top">> \in grants

(* A grant has what it inherits from, or is about to be deleted.            *)
Upheld(g) ==
  NotTorn(g) => \/ Says(g).inheritsFrom \in grants \cup {None}
                \/ \E v \in Revocation : revoke[v].pc = "delete" /\ g \in revoke[v].todo

(* A revocation that is to clear the link of g, or died before it did.      *)
Unlinks(v, g) ==
  \/ revoke[v].pc = "delete" /\ g \in revoke[v].found
  \/ revoke[v].pc = "clear" /\ g \in revoke[v].todo
  \/ revoke[v].pc = "abandoned"

Linked(a) ==
  \A g \in links[a] : /\ g \in Source
                      /\ SourceGrant[g].grantee = a
                      /\ g \in grants \/ \E v \in Revocation : Unlinks(v, g)

Complete == /\ \A v \in Revocation : Collected(v)
            /\ \A i \in Issue : Uncaught(i)
            /\ \A g \in grants : Upheld(g)
            /\ \A a \in Agent : Linked(a)

LEMMA InitComplete == Init => Complete
<1> SUFFICES ASSUME Init PROVE Complete
  OBVIOUS
<1> USE DEF Init
<1>1. \A v \in Revocation : Collected(v)
  BY DEF Collected, Blank
<1>2. \A i \in Issue : Uncaught(i)
  BY DEF Uncaught, Storing
<1>3. \A g \in grants : Upheld(g)
  BY DEF Upheld, Says
<1>4. \A a \in Agent : Linked(a)
  BY DEF Linked
<1> QED BY <1>1, <1>2, <1>3, <1>4 DEF Complete

(* Nothing of a request is stored before it has passed.                     *)
LEMMA NotStoredYet ==
  ASSUME Inv, NEW i \in Issue, ~ Passed(i)
  PROVE  <<i, "top">> \notin ever
BY DEF Inv, Accounted, Part

(* Posting, validating and writing the access control store no grant.       *)
LEMMA IssueComplete ==
  ASSUME Inv, Complete, NEW i \in Issue, issue[i].pc # "idle" \/ issue'[i].pc = "top",
         UNCHANGED <<grants, ever, revoke, links, torn>>,
         \A j \in Issue \ {i} : issue'[j] = issue[j],
         issue'[i].msg = issue[i].msg \/ issue[i].pc = "idle",
         Storing(i)' => Storing(i) \/ ~ Passed(i),
         Storing(i)' /\ (issue'[i].pc = "acr" \/ issue'[i].cur = "child")
           => Storing(i) /\ (issue[i].pc = "acr" \/ issue[i].cur = "child")
  PROVE  Complete'
<1>0. \A g \in grants : Says(g)' = Says(g)
  BY SaysKept DEF Inv, Accounted
<1>1. \A v \in Revocation : Collected(v)'
  BY <1>0 DEF Complete, Collected, NotTorn
<1>2. ASSUME NEW j \in Issue, Storing(j)', j \notin torn
      PROVE  /\ \A v \in Revocation : revoke[v].pc = "delete" => <<j, "top">> \notin revoke[v].found
             /\ issue'[j].pc = "acr" \/ issue'[j].cur = "child" => <<j, "top">> \in grants
  <2>1. CASE j # i
    BY <1>2, <2>1 DEF Complete, Uncaught, Storing
  <2>2. CASE j = i /\ Storing(i)
    BY <1>2, <2>2 DEF Complete, Uncaught
  <2>3. CASE j = i /\ ~ Storing(i)
    <3>1. <<i, "top">> \notin ever
      BY <1>2, <2>3, NotStoredYet
    <3>2. \A v \in Revocation : revoke[v].found \subseteq ever
      BY DEF Inv, Closing
    <3> QED BY <1>2, <2>3, <3>1, <3>2
  <2> QED BY <2>1, <2>2, <2>3
<1>3. \A j \in Issue : Uncaught(j)'
  BY <1>2 DEF Uncaught
<1>4. \A g \in grants' : Upheld(g)'
  BY <1>0 DEF Complete, Upheld, NotTorn
<1>5. \A a \in Agent : Linked(a)'
  BY DEF Complete, Linked, Unlinks
<1> QED BY <1>1, <1>3, <1>4, <1>5 DEF Complete

LEMMA PostComplete ==
  ASSUME Inv, Complete, NEW i \in Issue, NEW m \in Message, Post(i, m)
  PROVE  Complete'
<1>1. /\ issue' = [issue EXCEPT ![i].pc = "top", ![i].msg = m] /\ issue[i].pc = "idle"
      /\ issue \in [Issue -> IssueState]
  BY DEF Post, Inv, TypeOK
<1>2. issue'[i].pc = "top" /\ \A j \in Issue \ {i} : issue'[j] = issue[j]
  BY <1>1 DEF IssueState
<1>3. UNCHANGED <<grants, ever, revoke, links, torn>>
  BY DEF Post, revoking
<1> QED BY <1>1, <1>2, <1>3, IssueComplete DEF Storing

LEMMA ValidateComplete ==
  ASSUME Inv, Complete, NEW i \in Issue, ValidateTop(i) \/ ValidateChild(i)
  PROVE  Complete'
<1>1. PICK pc \in {"rejected", "child", "store"} : issue' = [issue EXCEPT ![i].pc = pc]
  BY DEF ValidateTop, ValidateChild
<1>2. /\ issue[i].pc \in {"top", "child"} /\ issue \in [Issue -> IssueState]
      /\ Vetted(i)
  BY DEF ValidateTop, ValidateChild, Inv, TypeOK
<1>3. /\ issue'[i].msg = issue[i].msg /\ issue'[i].cur = "top" /\ issue'[i].pc = pc
      /\ \A j \in Issue \ {i} : issue'[j] = issue[j]
  BY <1>1, <1>2 DEF IssueState, Vetted
<1>4. UNCHANGED <<grants, ever, revoke, links, torn>>
  BY DEF ValidateTop, ValidateChild, revoking
<1>5. ~ Passed(i)
  BY <1>2 DEF Passed
<1> QED BY <1>2, <1>3, <1>4, <1>5, IssueComplete

LEMMA CreateAcrComplete ==
  ASSUME Inv, Complete, NEW i \in Issue, CreateAcr(i)
  PROVE  Complete'
<1>1. /\ issue[i].pc = "acr" /\ issue[i] \in IssueState /\ issue \in [Issue -> IssueState]
      /\ \/ issue' = issue
         \/ issue' = [issue EXCEPT ![i] = [issue[i] EXCEPT !.pc = "answered"]]
         \/ issue' = [issue EXCEPT ![i] = [issue[i] EXCEPT !.pc = "store", !.cur = "child"]]
  BY DEF CreateAcr, Inv, TypeOK
<1>2. issue'[i].msg = issue[i].msg /\ \A j \in Issue \ {i} : issue'[j] = issue[j]
  <2>1. ASSUME NEW next \in IssueState, next.msg = issue[i].msg,
               issue' = [issue EXCEPT ![i] = next]
        PROVE  issue'[i].msg = issue[i].msg /\ \A j \in Issue \ {i} : issue'[j] = issue[j]
    BY <1>1, <2>1
  <2>2. LET next == [issue[i] EXCEPT !.pc = "answered"]
        IN  next \in IssueState /\ next.msg = issue[i].msg
    BY <1>1 DEF IssueState
  <2>3. LET next == [issue[i] EXCEPT !.pc = "store", !.cur = "child"]
        IN  next \in IssueState /\ next.msg = issue[i].msg
    BY <1>1 DEF IssueState, Part
  <2>4. CASE issue' = issue
    BY <2>4
  <2> QED BY <1>1, <2>1, <2>2, <2>3, <2>4
<1>3. UNCHANGED <<grants, ever, revoke, links, torn>>
  BY DEF CreateAcr, revoking
<1> QED BY <1>1, <1>2, <1>3, IssueComplete DEF Storing

(* What is stored inherits from what the request has stored before it, and  *)
(* no deletion has collected that.                                          *)
LEMMA StoreDataGrantComplete ==
  ASSUME Inv, Complete, NEW i \in Issue, StoreDataGrant(i)
  PROVE  Complete'
<1> PICK part \in Part : issue[i].cur = part
  BY DEF Inv, TypeOK, IssueState
<1> DEFINE g == <<i, part>>
<1>1. /\ issue[i].pc = "store" /\ issue \in [Issue -> IssueState]
      /\ grants' = grants \cup {g}
      /\ issue' = [issue EXCEPT ![i].pc = "acr"] \/ issue' = issue
      /\ UNCHANGED <<revoke, links, torn>>
      /\ g \in Id /\ g \notin Source
  BY DEF StoreDataGrant, Inv, TypeOK, IssueState, revoking, Id
<1>2. /\ \A j \in Issue \ {i} : issue'[j] = issue[j]
      /\ issue'[i].msg = issue[i].msg /\ issue'[i].cur = part
      /\ issue'[i].pc \in {"store", "acr"}
  BY <1>1 DEF IssueState
<1>3. \A h \in grants : Says(h)' = Says(h)
  BY <1>2, SaysKept DEF Inv, Accounted
<1>4. Says(g)'.inheritsFrom = IF part = "top" THEN None ELSE <<i, "top">>
  BY <1>1 DEF Says
<1>5. \A v \in Revocation : None \notin revoke[v].found
  BY DEF Inv, TypeOK, RevokeState
<1>6. part # "top" => part = "child"
  BY DEF Part
<1>7. i \notin torn =>
        /\ \A v \in Revocation : revoke[v].pc = "delete" => <<i, "top">> \notin revoke[v].found
        /\ part = "child" => <<i, "top">> \in grants
  BY <1>1 DEF Complete, Uncaught, Storing
<1>8. part = "child" /\ i \in torn => g \in torn \X {"child"}
  OBVIOUS
<1>9. ASSUME NEW v \in Revocation
      PROVE  Collected(v)'
  <2> SUFFICES ASSUME revoke[v].pc = "delete"
               PROVE  /\ revoke[v].todo \subseteq revoke[v].found
                      /\ \A h \in grants' : NotTorn(h) /\ Says(h)'.inheritsFrom \in revoke[v].found
                           => h \in revoke[v].todo
    BY <1>1 DEF Collected, NotTorn
  <2>1. Collected(v)
    BY DEF Complete
  <2>2. \A h \in grants : NotTorn(h) /\ Says(h)'.inheritsFrom \in revoke[v].found
                           => h \in revoke[v].todo
    BY <1>3, <2>1 DEF Collected
  <2>3. ~ (NotTorn(g) /\ Says(g)'.inheritsFrom \in revoke[v].found)
    BY <1>4, <1>5, <1>6, <1>7, <1>8 DEF NotTorn
  <2> QED BY <1>1, <2>1, <2>2, <2>3 DEF Collected
<1>10. ASSUME NEW j \in Issue
       PROVE  Uncaught(j)'
  <2>1. CASE j = i
    BY <1>1, <1>2, <1>6, <1>7, <2>1 DEF Uncaught, Storing
  <2>2. CASE j # i
    BY <1>1, <1>2, <2>2 DEF Complete, Uncaught, Storing
  <2> QED BY <2>1, <2>2
<1>11. ASSUME NEW h \in grants'
       PROVE  Upheld(h)'
  <2>1. CASE h \in grants
    BY <1>1, <1>3, <2>1 DEF Complete, Upheld, NotTorn
  <2>2. CASE h = g
    <3>1. NotTorn(g) => Says(g)'.inheritsFrom \in grants' \cup {None}
      BY <1>1, <1>4, <1>6, <1>7, <1>8 DEF NotTorn
    <3> QED BY <1>1, <2>2, <3>1 DEF Upheld, NotTorn
  <2> QED BY <1>1, <2>1, <2>2
<1>12. \A a \in Agent : Linked(a)'
  BY <1>1 DEF Complete, Linked, Unlinks
<1> QED BY <1>9, <1>10, <1>11, <1>12 DEF Complete

-----------------------------------------------------------------------------
(* A revocation that neither deletes nor starts to, and has no link to      *)
(* clear unless it dies, disturbs nothing.                                  *)
LEMMA RevokeComplete ==
  ASSUME Inv, Complete, NEW v \in Revocation, NEW r, revoke' = [revoke EXCEPT ![v] = r],
         UNCHANGED <<issue, grants, ever, torn, links>>,
         revoke[v].pc \notin {"delete", "abandoned"}, r.pc # "delete",
         revoke[v].pc = "clear" => r.pc = "abandoned"
  PROVE  Complete'
<1>1. \A g \in Id : Says(g)' = Says(g)
  BY DEF Says, By, Msg
<1>2. \A w \in Revocation : revoke'[w] = IF w = v THEN r ELSE revoke[w]
  BY DEF Inv, TypeOK
<1>3. grants \subseteq Id
  BY DEF Inv, TypeOK
<1>4. ASSUME NEW w \in Revocation
      PROVE  Collected(w)'
  BY <1>1, <1>2, <1>3 DEF Complete, Collected, NotTorn
<1>5. \A i \in Issue : Uncaught(i)'
  BY <1>2 DEF Complete, Uncaught, Storing
<1>6. ASSUME NEW g \in grants'
      PROVE  Upheld(g)'
  <2>1. Upheld(g) /\ Says(g)' = Says(g)
    BY <1>1, <1>3 DEF Complete
  <2>2. \A w \in Revocation : revoke[w].pc = "delete" => revoke'[w] = revoke[w]
    BY <1>2
  <2> QED BY <2>1, <2>2 DEF Upheld, NotTorn
<1>7. ASSUME NEW w \in Revocation, NEW g, Unlinks(w, g)
      PROVE  Unlinks(w, g)'
  BY <1>2, <1>7 DEF Unlinks
<1>8. \A a \in Agent : Linked(a)'
  BY <1>7 DEF Complete, Linked
<1> QED BY <1>4, <1>5, <1>6, <1>8 DEF Complete

LEMMA RevokeStartComplete ==
  ASSUME Inv, Complete, NEW v \in Revocation, NEW q \in Agent, NEW listed \in SUBSET Id,
         Revoke(v, q, listed)
  PROVE  Complete'
<1> DEFINE r == [revoke[v] EXCEPT !.pc = "load", !.by = q, !.listed = listed]
<1>1. revoke' = [revoke EXCEPT ![v] = r] /\ revoke[v].pc = "idle" /\ revoke[v] \in RevokeState
  BY DEF Revoke, Inv, TypeOK
<1>2. r.pc = "load"
  BY <1>1 DEF RevokeState
<1>3. UNCHANGED <<issue, grants, ever, torn, links>>
  BY DEF Revoke, issuing
<1> HIDE DEF r
<1> QED BY <1>1, <1>2, <1>3, RevokeComplete

LEMMA LoadAuthorityComplete ==
  ASSUME Inv, Complete, NEW v \in Revocation, LoadAuthority(v)
  PROVE  Complete'
<1> DEFINE loaded == revoke[v].listed \cap grants
           rightful == [revoke[v] EXCEPT !.pc = "close", !.found = loaded]
<1>1. rightful.pc = "close" /\ Blank("answered").pc = "answered" /\ Blank("rejected").pc = "rejected"
  BY DEF Inv, TypeOK, RevokeState, Blank
<1>2. PICK r : revoke' = [revoke EXCEPT ![v] = r] /\ r.pc # "delete"
  BY <1>1 DEF LoadAuthority
<1>3. revoke[v].pc = "load" /\ UNCHANGED <<issue, grants, ever, torn, links>>
  BY DEF LoadAuthority, issuing
<1> QED BY <1>2, <1>3, RevokeComplete

LEMMA HandlerDiesComplete ==
  ASSUME Inv, Complete, NEW v \in Revocation, HandlerDies(v)
  PROVE  Complete'
<1>1. revoke' = [revoke EXCEPT ![v] = Blank("abandoned")] /\ Blank("abandoned").pc = "abandoned"
  BY DEF HandlerDies, Blank
<1>2. revoke[v].pc \in {"load", "close", "clear"} /\ UNCHANGED <<issue, grants, ever, torn, links>>
  BY DEF HandlerDies, issuing
<1> QED BY <1>1, <1>2, RevokeComplete

(* When the closure is finished, no stored grant inherits from it that does *)
(* not belong to it, and whoever could store one has been caught.           *)
LEMMA CloseOverChildrenComplete ==
  ASSUME Inv, Complete, NEW v \in Revocation, CloseOverChildren(v)
  PROVE  Complete'
<1> DEFINE fresh == ChildrenOf(revoke[v].found) \ revoke[v].found
           more == [revoke[v] EXCEPT !.found = @ \cup fresh]
           all == [revoke[v] EXCEPT !.pc = "delete", !.todo = revoke[v].found]
<1>0. /\ revoke[v].pc = "close" /\ revoke[v] \in RevokeState
      /\ UNCHANGED <<issue, grants, ever, links>> /\ grants \subseteq Id
      /\ revoke \in [Revocation -> RevokeState]
  BY DEF CloseOverChildren, issuing, Inv, TypeOK
<1>1. CASE fresh # {}
  <2>1. revoke' = [revoke EXCEPT ![v] = more] /\ torn' = torn
    BY <1>0, <1>1 DEF CloseOverChildren
  <2>2. more.pc = "close"
    BY <1>0 DEF RevokeState
  <2> HIDE DEF more
  <2> QED BY <1>0, <2>1, <2>2, RevokeComplete
<1>2. CASE fresh = {}
  <2>1. /\ revoke' = [revoke EXCEPT ![v] = all]
        /\ torn' = torn \cup {i \in Issue : Storing(i) /\ <<i, "top">> \in revoke[v].found}
    BY <1>0, <1>2 DEF CloseOverChildren
  <2>2. all.pc = "delete" /\ all.todo = revoke[v].found /\ all.found = revoke[v].found
    BY <1>0 DEF RevokeState
  <2>3. \A g \in grants : Says(g).inheritsFrom \in revoke[v].found => g \in revoke[v].found
    BY <1>2 DEF ChildrenOf
  <2> HIDE DEF fresh, all
  <2>4. \A g \in Id : Says(g)' = Says(g)
    BY <1>0 DEF Says, By, Msg
  <2>5. \A w \in Revocation : revoke'[w] = IF w = v THEN all ELSE revoke[w]
    BY <1>0, <2>1
  <2>6. \A g : NotTorn(g)' => NotTorn(g)
    BY <2>1 DEF NotTorn
  <2>7. ASSUME NEW w \in Revocation
        PROVE  Collected(w)'
    <3>1. CASE w = v
      BY <1>0, <2>2, <2>3, <2>4, <2>5, <3>1 DEF Collected
    <3>2. CASE w # v
      BY <1>0, <2>4, <2>5, <2>6, <3>2 DEF Complete, Collected
    <3> QED BY <3>1, <3>2
  <2>8. ASSUME NEW i \in Issue
        PROVE  Uncaught(i)'
    BY <1>0, <2>1, <2>2, <2>5 DEF Complete, Uncaught, Storing
  <2>9. ASSUME NEW g \in grants'
        PROVE  Upheld(g)'
    <3>1. Upheld(g) /\ Says(g)' = Says(g)
      BY <1>0, <2>4 DEF Complete
    <3>2. \A w \in Revocation : revoke[w].pc = "delete" => revoke'[w] = revoke[w]
      BY <1>0, <2>5
    <3> QED BY <1>0, <2>6, <3>1, <3>2 DEF Upheld
  <2>10. ASSUME NEW w \in Revocation, NEW g, Unlinks(w, g)
         PROVE  Unlinks(w, g)'
    BY <1>0, <2>5, <2>10 DEF Unlinks
  <2>11. \A a \in Agent : Linked(a)'
    BY <1>0, <2>10 DEF Complete, Linked
  <2> QED BY <2>7, <2>8, <2>9, <2>11 DEF Complete
<1> QED BY <1>1, <1>2

(* What a deletion leaves to be done after one more grant.                  *)
LEMMA DeletedLeaves ==
  ASSUME Inv, NEW v \in Revocation, revoke[v].pc = "delete", NEW g \in revoke[v].todo
  PROVE  /\ Deleted(v, g).pc = "delete" => /\ Deleted(v, g).found = revoke[v].found
                                           /\ Deleted(v, g).todo = revoke[v].todo \ {g}
         /\ Deleted(v, g).pc # "delete" => revoke[v].todo = {g}
         /\ \A h \in revoke[v].found :
              revoke[v].by = Owner /\ Says(h).grantedBy = Owner =>
                \/ Deleted(v, g).pc = "delete"
                \/ Deleted(v, g).pc = "clear" /\ h \in Deleted(v, g).todo
<1> DEFINE own == {h \in revoke[v].found : revoke[v].by = Owner /\ Says(h).grantedBy = Owner}
           less == [revoke[v] EXCEPT !.todo = @ \ {g}]
           clear == [revoke[v] EXCEPT !.pc = "clear", !.todo = own]
<1>0. revoke[v] \in RevokeState
  BY DEF Inv, TypeOK
<1>1. CASE revoke[v].todo # {g}
  <2>1. less.pc = "delete" /\ less.found = revoke[v].found /\ less.todo = revoke[v].todo \ {g}
    BY <1>0 DEF RevokeState
  <2>2. Deleted(v, g) = less
    BY <1>1 DEF Deleted
  <2> QED BY <2>1, <2>2
<1>2. CASE revoke[v].todo = {g} /\ own # {}
  <2>1. clear.pc = "clear" /\ clear.todo = own
    BY <1>0 DEF RevokeState
  <2>2. Deleted(v, g) = clear
    BY <1>2 DEF Deleted
  <2>3. Deleted(v, g).pc = "clear" /\ Deleted(v, g).todo = own
    BY <2>1, <2>2
  <2>4. \A h \in revoke[v].found :
          revoke[v].by = Owner /\ Says(h).grantedBy = Owner => h \in own
    OBVIOUS
  <2> HIDE DEF own, less, clear
  <2> QED BY <1>2, <2>3, <2>4
<1>3. CASE revoke[v].todo = {g} /\ own = {}
  <2>1. Deleted(v, g) = Blank("answered") /\ Blank("answered").pc = "answered"
    BY <1>3 DEF Deleted, Blank
  <2>2. \A h \in revoke[v].found : ~ (revoke[v].by = Owner /\ Says(h).grantedBy = Owner)
    BY <1>3
  <2> QED BY <1>3, <2>1, <2>2
<1> QED BY <1>1, <1>2, <1>3

(* A deletion takes the inheriting grants along, keeps to what it has       *)
(* found, and, when it is the owner's, goes on to clear the links of what   *)
(* the owner has issued.                                                    *)
LEMMA DeleteDataGrantComplete ==
  ASSUME Inv, Complete, NEW v \in Revocation, DeleteDataGrant(v)
  PROVE  Complete'
<1>0. /\ revoke[v].pc = "delete" /\ revoke[v] \in RevokeState /\ Fitting(v, revoke[v])
      /\ Collected(v)
      /\ UNCHANGED <<issue, ever, links, torn>> /\ grants \subseteq Id
      /\ revoke \in [Revocation -> RevokeState]
  BY RevocationFits DEF DeleteDataGrant, Inv, TypeOK, Complete
<1>1. PICK g \in revoke[v].todo :
        /\ grants' = grants \ {g}
        /\ \/ revoke' = [revoke EXCEPT ![v] = Deleted(v, g)]
           \/ revoke' = [revoke EXCEPT ![v].todo = revoke[v].found]
  BY DEF DeleteDataGrant
<1>2. PICK r :
        /\ revoke' = [revoke EXCEPT ![v] = r]
        /\ r.pc = "delete" => /\ r.found = revoke[v].found
                              /\ r.todo \subseteq revoke[v].found
                              /\ revoke[v].todo \ {g} \subseteq r.todo
        /\ r.pc # "delete" => revoke[v].todo = {g}
        /\ \A h \in revoke[v].found :
             revoke[v].by = Owner /\ Says(h).grantedBy = Owner =>
               r.pc = "delete" \/ (r.pc = "clear" /\ h \in r.todo)
  <2>1. CASE revoke' = [revoke EXCEPT ![v] = Deleted(v, g)]
    <3>1. PICK r : r = Deleted(v, g)
      OBVIOUS
    <3>2. /\ r.pc = "delete" => r.found = revoke[v].found /\ r.todo = revoke[v].todo \ {g}
          /\ r.pc # "delete" => revoke[v].todo = {g}
          /\ \A h \in revoke[v].found :
               revoke[v].by = Owner /\ Says(h).grantedBy = Owner =>
                 r.pc = "delete" \/ (r.pc = "clear" /\ h \in r.todo)
      BY <1>0, <1>1, <3>1, DeletedLeaves
    <3>3. revoke' = [revoke EXCEPT ![v] = r] /\ revoke[v].todo \subseteq revoke[v].found
      BY <1>0, <2>1, <3>1 DEF Collected
    <3> QED BY <3>2, <3>3
  <2>2. CASE revoke' = [revoke EXCEPT ![v].todo = revoke[v].found]
    <3> DEFINE again == [revoke[v] EXCEPT !.todo = revoke[v].found]
    <3>1. again.pc = "delete" /\ again.found = revoke[v].found /\ again.todo = revoke[v].found
      BY <1>0 DEF RevokeState
    <3>2. revoke' = [revoke EXCEPT ![v] = again]
      BY <1>0, <2>2
    <3> HIDE DEF again
    <3> QED BY <1>0, <3>1, <3>2 DEF Collected
  <2> QED BY <1>1, <2>1, <2>2
<1>3. \A w \in Revocation : revoke'[w] = IF w = v THEN r ELSE revoke[w]
  BY <1>0, <1>2
<1>4. \A h \in Id : Says(h)' = Says(h)
  BY <1>0 DEF Says, By, Msg
<1>5. g \in revoke[v].found
  BY <1>0, <1>1 DEF Collected
<1>6. ASSUME NEW w \in Revocation
      PROVE  Collected(w)'
  <2>1. CASE w = v
    BY <1>0, <1>1, <1>2, <1>3, <1>4, <2>1 DEF Collected, NotTorn
  <2>2. CASE w # v
    BY <1>0, <1>1, <1>3, <1>4, <2>2 DEF Complete, Collected, NotTorn
  <2> QED BY <2>1, <2>2
<1>7. ASSUME NEW i \in Issue
      PROVE  Uncaught(i)'
  <2>1. Uncaught(i)
    BY DEF Complete
  <2>2. Storing(i) /\ i \notin torn => <<i, "top">> # g
    BY <1>0, <1>5, <2>1 DEF Uncaught
  <2>3. \A w \in Revocation : revoke'[w].pc = "delete" =>
          revoke[w].pc = "delete" /\ revoke'[w].found = revoke[w].found
    BY <1>0, <1>2, <1>3
  <2> QED BY <1>0, <1>1, <2>1, <2>2, <2>3 DEF Uncaught, Storing
<1>8. ASSUME NEW h \in grants', NotTorn(h)
      PROVE  \/ Says(h)'.inheritsFrom \in grants' \cup {None}
             \/ \E w \in Revocation : revoke'[w].pc = "delete" /\ h \in revoke'[w].todo
  <2>0. h \in grants /\ h # g /\ h \in Id
    BY <1>0, <1>1
  <2>1. Upheld(h) /\ Says(h)' = Says(h)
    BY <1>4, <2>0 DEF Complete
  <2>2. ASSUME h \in revoke[v].todo
        PROVE  revoke'[v].pc = "delete" /\ h \in revoke'[v].todo
    BY <1>2, <1>3, <2>0, <2>2
  <2>3. CASE Says(h).inheritsFrom = g
    <3>1. h \in revoke[v].todo
      BY <1>0, <1>5, <1>8, <2>0, <2>3 DEF Collected
    <3> QED BY <2>2, <3>1
  <2>4. CASE Says(h).inheritsFrom \in grants \cup {None} /\ Says(h).inheritsFrom # g
    BY <1>1, <2>1, <2>4
  <2>5. CASE \E w \in Revocation : revoke[w].pc = "delete" /\ h \in revoke[w].todo
    <3>1. PICK w \in Revocation : revoke[w].pc = "delete" /\ h \in revoke[w].todo
      BY <2>5
    <3>2. CASE w = v
      BY <2>2, <3>1, <3>2
    <3>3. CASE w # v
      BY <1>3, <3>1, <3>3
    <3> QED BY <3>2, <3>3
  <2> QED BY <1>8, <2>1, <2>3, <2>4, <2>5 DEF Upheld
<1>9. \A h \in grants' : Upheld(h)'
  BY <1>0, <1>8 DEF Upheld, NotTorn
<1>10. ASSUME NEW h \in Source, h \in revoke[v].found
       PROVE  Unlinks(v, h)'
  <2>1. Says(h).grantedBy = Owner
    BY DEF Says
  <2>2. revoke[v].by = Owner
    BY <1>0, <1>10, <2>1 DEF Fitting, Rightful
  <2> QED BY <1>2, <1>3, <1>10, <2>1, <2>2 DEF Unlinks
<1>11. ASSUME NEW h \in Source, NEW w \in Revocation, Unlinks(w, h)
       PROVE  Unlinks(w, h)'
  <2>1. CASE w = v
    BY <1>0, <1>10, <1>11, <2>1 DEF Unlinks
  <2>2. CASE w # v
    BY <1>3, <1>11, <2>2 DEF Unlinks
  <2> QED BY <2>1, <2>2
<1>12. ASSUME NEW a \in Agent
       PROVE  Linked(a)'
  <2> SUFFICES ASSUME NEW h \in links[a]
               PROVE  /\ h \in Source /\ SourceGrant[h].grantee = a
                      /\ h \in grants' \/ \E w \in Revocation : Unlinks(w, h)'
    BY <1>0 DEF Linked
  <2>1. /\ h \in Source /\ SourceGrant[h].grantee = a
        /\ h \in grants \/ \E w \in Revocation : Unlinks(w, h)
    BY DEF Complete, Linked
  <2> QED BY <1>1, <1>5, <1>10, <1>11, <2>1
<1> QED BY <1>6, <1>7, <1>9, <1>12 DEF Complete

(* The links of one grantee are cleared, the others are still to do.        *)
LEMMA ClearLinksComplete ==
  ASSUME Inv, Complete, NEW v \in Revocation, ClearLinks(v)
  PROVE  Complete'
<1>0. /\ revoke[v].pc = "clear" /\ revoke[v] \in RevokeState
      /\ UNCHANGED <<issue, grants, ever, torn>> /\ grants \subseteq Id
      /\ revoke \in [Revocation -> RevokeState] /\ links \in [Agent -> SUBSET Id]
  BY DEF ClearLinks, issuing, Inv, TypeOK
<1>1. PICK a \in Agent :
        /\ links' = [links EXCEPT ![a] = @ \ To(revoke[v].todo, a)]
        /\ revoke' = [revoke EXCEPT ![v] = Cleared(v, a)]
  BY DEF ClearLinks
<1> DEFINE left == revoke[v].todo \ To(revoke[v].todo, a)
           less == [revoke[v] EXCEPT !.todo = left]
<1>2. /\ Cleared(v, a).pc # "delete"
      /\ left # {} => Cleared(v, a).pc = "clear" /\ Cleared(v, a).todo = left
  <2>1. less.pc = "clear" /\ less.todo = left
    BY <1>0 DEF RevokeState
  <2>2. Blank("answered").pc = "answered"
    BY DEF Blank
  <2>3. Cleared(v, a) = IF left = {} THEN Blank("answered") ELSE less
    BY DEF Cleared
  <2> HIDE DEF left, less
  <2> QED BY <2>1, <2>2, <2>3
<1>3. PICK r : r = Cleared(v, a)
  OBVIOUS
<1>4. \A w \in Revocation : revoke'[w] = IF w = v THEN r ELSE revoke[w]
  BY <1>0, <1>1, <1>3
<1>5. \A h \in Id : Says(h)' = Says(h)
  BY <1>0 DEF Says, By, Msg
<1>6. \A w \in Revocation : revoke'[w].pc = "delete" \/ revoke[w].pc = "delete"
                              => revoke'[w] = revoke[w]
  BY <1>0, <1>2, <1>3, <1>4
<1>7. \A w \in Revocation : Collected(w)'
  BY <1>0, <1>5, <1>6 DEF Complete, Collected, NotTorn
<1>8. \A i \in Issue : Uncaught(i)'
  BY <1>0, <1>6 DEF Complete, Uncaught, Storing
<1>9. ASSUME NEW h \in grants'
      PROVE  Upheld(h)'
  <2>1. Upheld(h) /\ Says(h)' = Says(h)
    BY <1>0, <1>5 DEF Complete
  <2> QED BY <1>0, <1>6, <2>1 DEF Upheld, NotTorn
<1>10. ASSUME NEW b \in Agent
       PROVE  Linked(b)'
  <2> SUFFICES ASSUME NEW h \in links'[b]
               PROVE  /\ h \in Source /\ SourceGrant[h].grantee = b
                      /\ h \in grants \/ \E w \in Revocation : Unlinks(w, h)'
    BY <1>0 DEF Linked
  <2>1. h \in links[b] /\ (b = a => h \notin To(revoke[v].todo, a))
    BY <1>0, <1>1
  <2>2. /\ h \in Source /\ SourceGrant[h].grantee = b
        /\ h \in grants \/ \E w \in Revocation : Unlinks(w, h)
    BY <2>1 DEF Complete, Linked
  <2>3. h \notin To(revoke[v].todo, a)
    BY <2>1, <2>2 DEF To, Says
  <2>4. ASSUME NEW w \in Revocation, Unlinks(w, h)
        PROVE  Unlinks(w, h)'
    <3>1. CASE w # v
      BY <1>4, <2>4, <3>1 DEF Unlinks
    <3>2. CASE w = v
      <4>1. h \in left
        BY <1>0, <2>3, <2>4, <3>2 DEF Unlinks
      <4>2. r.pc = "clear" /\ h \in r.todo
        BY <1>2, <1>3, <4>1
      <4> QED BY <1>4, <3>2, <4>2 DEF Unlinks
    <3> QED BY <3>1, <3>2
  <2> QED BY <2>2, <2>4
<1> QED BY <1>7, <1>8, <1>9, <1>10 DEF Complete

LEMMA StepComplete == Inv /\ Complete /\ [Next]_vars => Complete'
<1> SUFFICES ASSUME Inv, Complete, [Next]_vars PROVE Complete'
  OBVIOUS
<1>1. ASSUME NEW i \in Issue, NEW m \in Message, Post(i, m) PROVE Complete'
  BY <1>1, PostComplete
<1>2. ASSUME NEW i \in Issue, IssueStep(i) PROVE Complete'
  BY <1>2, ValidateComplete, StoreDataGrantComplete, CreateAcrComplete DEF IssueStep
<1>3. ASSUME NEW v \in Revocation, NEW q \in Agent, NEW listed \in SUBSET Id,
             Revoke(v, q, listed)
      PROVE  Complete'
  BY <1>3, RevokeStartComplete
<1>4. ASSUME NEW v \in Revocation, RevokeStep(v) PROVE Complete'
  BY <1>4, LoadAuthorityComplete, CloseOverChildrenComplete, DeleteDataGrantComplete,
     ClearLinksComplete
     DEF RevokeStep
<1>5. ASSUME NEW v \in Revocation, HandlerDies(v) PROVE Complete'
  BY <1>5, HandlerDiesComplete
<1>6. CASE UNCHANGED vars
  <2>1. \A g : Says(g)' = Says(g)
    BY <1>6 DEF Says, By, Msg, vars
  <2>2. (\A v \in Revocation : Collected(v)') /\ \A i \in Issue : Uncaught(i)'
    BY <1>6, <2>1 DEF vars, Complete, Collected, NotTorn, Uncaught, Storing
  <2>3. (\A g \in grants' : Upheld(g)') /\ \A a \in Agent : Linked(a)'
    BY <1>6, <2>1 DEF vars, Complete, Upheld, NotTorn, Linked, Unlinks
  <2> QED BY <2>2, <2>3 DEF Complete
<1> QED
  BY <1>1, <1>2, <1>3, <1>4, <1>5, <1>6 DEF Next

LEMMA CompleteAlways == Spec => []Complete
  BY InitComplete, InvAlways, StepComplete, PTL DEF Spec

(* When nothing is on its way no grant inherits from one that is gone,      *)
(* whoever revoked what at the same time and whatever result was lost,      *)
(* unless its request was caught half stored (GrantRevocationHandler.       *)
(* revokeGrants: findInheritingChildren, then deleteDataGrants).            *)
THEOREM AlwaysInheritingRevoked == Spec => []InheritingRevoked
<1>1. Complete => InheritingRevoked
  <2> SUFFICES ASSUME Complete, Quiet, NEW g \in grants \ (torn \X {"child"})
               PROVE  Says(g).inheritsFrom \in grants \cup {None}
    BY DEF InheritingRevoked
  <2>1. \A v \in Revocation : revoke[v].pc # "delete"
    BY DEF Quiet
  <2> QED BY <2>1 DEF Complete, Upheld, NotTorn
<1> QED BY <1>1, CompleteAlways, PTL

(* When nothing is on its way the registrations at the owner link only      *)
(* grants that are stored, unless a process died before it had cleared the  *)
(* links: the owner's revocation deletes first and clears what it deleted.  *)
THEOREM AlwaysRevokedUnlinked == Spec => []RevokedUnlinked
<1>1. Complete => RevokedUnlinked
  <2> SUFFICES ASSUME Complete, Quiet, \A v \in Revocation : revoke[v].pc # "abandoned",
                      NEW a \in Agent, NEW g \in links[a]
               PROVE  g \in grants
    BY DEF RevokedUnlinked
  <2>1. \A v \in Revocation : ~ Unlinks(v, g)
    BY DEF Quiet, Unlinks
  <2> QED BY <2>1 DEF Complete, Linked
<1> QED BY <1>1, CompleteAlways, PTL
=============================================================================
