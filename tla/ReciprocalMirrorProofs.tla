----------------------- MODULE ReciprocalMirrorProofs -----------------------
(***************************************************************************)
(* What the mirror promises, for any grants, any number of runs and any    *)
(* retry policy: list and copies agree but for what overlapping runs tore  *)
(* apart, and a sync nobody disturbs leaves the peer's links, whatever     *)
(* happened before.                                                        *)
(***************************************************************************)
EXTENDS ReciprocalMirror, TLAPS

(* An undisturbed run has the mirror to itself ...                          *)
CleanAlone == \A r, q \in Run : run[r].clean /\ q # r => ~ Active(q)

(* ... and what it has read, or left, is what the peer still says.          *)
CleanCurrent ==
  \A r \in Run : run[r].clean =>
    /\ run[r].pc \in {"read", "grants"} => run[r].doc = linked
    /\ run[r].pc = "rest" => listed = linked

(* A deletion has no document of the peer's to compare with.                *)
DeletesAll == \A r \in Run : run[r].pc \in {"list", "drop"} => run[r].doc = {}

IInv == TypeOK /\ CleanAlone /\ CleanCurrent /\ DeletesAll /\ CopiesMatchList

(* Starting over, or giving up, keeps the type.                             *)
LEMMA AtType ==
  ASSUME NEW pc \in {"rest", "fetch"}, NEW tries \in 0 .. MaxAttempts - 1,
         NEW clean \in BOOLEAN
  PROVE  /\ At(pc, tries, clean) \in RunState
         /\ At(pc, tries, clean).pc = pc
         /\ At(pc, tries, clean).doc = {}
         /\ At(pc, tries, clean).had = {}
         /\ At(pc, tries, clean).clean = clean
BY DEF At, RunState

LEMMA InitIInv == Init => IInv
<1> SUFFICES ASSUME Init PROVE IInv
  OBVIOUS
<1>1. 0 \in 0 .. MaxAttempts - 1
  BY AttemptsAssumption
<1>2. \A r \in Run : /\ run[r] \in RunState
                     /\ run[r].pc = "rest"
                     /\ run[r].doc \cup run[r].had = {}
                     /\ run[r].clean = FALSE
  BY <1>1, AtType DEF Init
<1>3. run \in [Run -> RunState]
  BY <1>1, AtType DEF Init
<1>4. TypeOK
  BY <1>1, <1>2, <1>3 DEF Init, TypeOK
<1>5. CleanAlone /\ CleanCurrent /\ DeletesAll /\ CopiesMatchList
  BY <1>2 DEF Init, CleanAlone, CleanCurrent, DeletesAll, CopiesMatchList
<1> QED BY <1>4, <1>5 DEF IInv

(* What a step of the peer leaves of the runs.                              *)
LEMMA PeerStep ==
  ASSUME IInv, run' = Disturbed, linked' \subseteq issued', stored' \subseteq issued',
         issued \subseteq issued', issued' \subseteq Grant,
         UNCHANGED <<listed, copies, torn>>, reciprocal' \in BOOLEAN
  PROVE  IInv'
<1>1. \A r \in Run : /\ run'[r] \in RunState
                     /\ run'[r].pc = run[r].pc
                     /\ run'[r].doc = run[r].doc
                     /\ run'[r].had = run[r].had
                     /\ run'[r].clean = FALSE
  BY DEF IInv, TypeOK, RunState, Disturbed
<1>2. run' \in [Run -> RunState]
  BY <1>1 DEF Disturbed
<1>3. TypeOK'
  BY <1>1, <1>2 DEF IInv, TypeOK
<1>4. CleanAlone' /\ CleanCurrent' /\ DeletesAll'
  BY <1>1 DEF CleanAlone, CleanCurrent, DeletesAll, IInv
<1>5. CopiesMatchList'
  BY DEF IInv, CopiesMatchList
<1> QED BY <1>3, <1>4, <1>5 DEF IInv

(* A step of one run that is under way and leaves the peer and the mirror.  *)
LEMMA ReadStep ==
  ASSUME IInv, NEW r \in Run, NEW new \in RunState,
         Active(r), run' = [run EXCEPT ![r] = new],
         new.clean \in {FALSE, run[r].clean},
         new.doc \cup new.had \subseteq issued,
         new.clean /\ new.pc \in {"read", "grants"} => new.doc = linked,
         new.pc = "rest" => ~ new.clean,
         new.pc \in {"list", "drop"} => new.doc = {},
         UNCHANGED <<linked, stored, issued, listed, copies, torn>>, reciprocal' \in BOOLEAN
  PROVE  IInv'
<1>1. /\ run' \in [Run -> RunState]
      /\ run'[r] = new
      /\ \A q \in Run \ {r} : run'[q] = run[q]
  BY DEF IInv, TypeOK
<1>2. TypeOK'
  BY <1>1 DEF IInv, TypeOK
<1>3. CleanAlone'
  BY <1>1 DEF IInv, CleanAlone, Active
<1>4. CleanCurrent' /\ DeletesAll'
  BY <1>1 DEF IInv, CleanCurrent, DeletesAll
<1>5. CopiesMatchList'
  BY DEF IInv, CopiesMatchList
<1> QED BY <1>2, <1>3, <1>4, <1>5 DEF IInv

LEMMA NextAttemptStep ==
  ASSUME IInv, NEW r \in Run, Active(r), NextAttempt(r),
         UNCHANGED <<linked, stored, issued, listed, copies, torn>>, reciprocal' \in BOOLEAN
  PROVE  IInv'
<1>1. run[r] \in RunState /\ run[r].tries \in 0 .. MaxAttempts - 1 /\ run[r].clean \in BOOLEAN
  BY DEF IInv, TypeOK, RunState
<1>2. CASE run[r].tries + 1 = MaxAttempts
  <2>1. At("rest", 0, FALSE) \in RunState
    <3>1. 0 \in 0 .. MaxAttempts - 1
      BY AttemptsAssumption
    <3> QED BY <3>1, AtType
  <2> QED BY <1>2, <2>1, ReadStep DEF NextAttempt, At
<1>3. CASE run[r].tries + 1 # MaxAttempts
  <2>1. run[r].tries + 1 \in 0 .. MaxAttempts - 1
    BY <1>1, <1>3, AttemptsAssumption
  <2>2. At("fetch", run[r].tries + 1, run[r].clean) \in RunState
    BY <1>1, <2>1, AtType
  <2> QED BY <1>3, <2>2, ReadStep DEF NextAttempt, At
<1> QED BY <1>2, <1>3

(* A step that rewrites the mirror and ends its run.                        *)
LEMMA WriteStep ==
  ASSUME IInv, NEW r \in Run, NEW new \in RunState, Active(r),
         run' = [run EXCEPT ![r] = new],
         new.doc = {}, new.had = {}, new.pc \in {"rest", "fetch"},
         new.clean \in {FALSE, run[r].clean},
         new.clean /\ new.pc = "rest" => listed' = linked,
         listed' = run[r].doc, copies' = (copies \ StaleLinks(r)) \cup NewLinks(r),
         torn' = Torn(r),
         UNCHANGED <<linked, stored, issued>>, reciprocal' \in BOOLEAN
  PROVE  IInv'
<1>1. /\ run' \in [Run -> RunState]
      /\ run'[r] = new
      /\ \A q \in Run \ {r} : run'[q] = run[q]
  BY DEF IInv, TypeOK
<1>0. /\ run[r].doc \subseteq issued /\ run[r].had \subseteq issued
      /\ listed \subseteq issued /\ copies \subseteq issued /\ torn \subseteq issued
      /\ issued \subseteq Grant /\ reciprocal \in BOOLEAN
  BY DEF IInv, TypeOK
<1>2. TypeOK'
  <2>1. listed' \subseteq issued /\ copies' \subseteq issued /\ torn' \subseteq issued
    BY <1>0 DEF NewLinks, StaleLinks, Torn
  <2> QED BY <1>1, <2>1 DEF IInv, TypeOK
<1>3. \A q \in Run \ {r} : ~ run[q].clean
  BY DEF IInv, CleanAlone
<1>4. CleanAlone'
  BY <1>1, <1>3 DEF IInv, CleanAlone, Active
<1>5. CleanCurrent' /\ DeletesAll'
  BY <1>1, <1>3 DEF CleanCurrent, DeletesAll, IInv
<1>6. CopiesMatchList'
  <2> SUFFICES ASSUME NEW g \in Grant
               PROVE  g \in torn' <=> (g \in copies' /\ g \notin listed') \/ (g \in listed' /\ g \notin copies')
    <3>1. torn' \subseteq Grant /\ copies' \subseteq Grant /\ listed' \subseteq Grant
      BY <1>2 DEF TypeOK
    <3> QED BY <3>1 DEF CopiesMatchList
  <2>1. CASE g \in NewLinks(r) \cup StaleLinks(r)
    BY <2>1 DEF NewLinks, StaleLinks, Torn
  <2>2. CASE g \notin NewLinks(r) \cup StaleLinks(r)
    <3>1. /\ g \in run[r].doc <=> g \in run[r].had
          /\ g \in copies' <=> g \in copies
      BY <2>2 DEF NewLinks, StaleLinks
    <3>2. g \in torn' <=> (g \in torn <=> (g \in run[r].had <=> g \in listed))
      BY <2>2 DEF Torn
    <3>3. g \in torn <=> (g \in copies /\ g \notin listed) \/ (g \in listed /\ g \notin copies)
      BY DEF IInv, CopiesMatchList
    <3> QED BY <3>1, <3>2, <3>3
  <2> QED BY <2>1, <2>2
<1> QED BY <1>2, <1>4, <1>5, <1>6 DEF IInv

-----------------------------------------------------------------------------
LEMMA Step == IInv /\ [Next]_vars => IInv'
<1> SUFFICES ASSUME IInv, [Next]_vars PROVE IInv'
  OBVIOUS
<1> USE DEF peer, mirror
<1>t. /\ \A r \in Run : /\ run[r] \in RunState
                         /\ run[r].doc \cup run[r].had \subseteq issued
      /\ linked \subseteq issued /\ listed \subseteq issued /\ stored \subseteq issued
      /\ issued \subseteq Grant /\ reciprocal \in BOOLEAN
  BY DEF IInv, TypeOK
<1>s. linked \in SUBSET Grant /\ listed \in SUBSET Grant
  BY <1>t
<1>1. ASSUME NEW old \in SUBSET linked, NEW new \in SUBSET Grant, PeerReplaces(old, new)
      PROVE  IInv'
  BY <1>t, <1>1, PeerStep DEF PeerReplaces
<1>2. ASSUME NEW g \in Grant, PeerDeletes(g) PROVE IInv'
  BY <1>t, <1>2, PeerStep DEF PeerDeletes
<1>3. ASSUME NEW g \in Grant, PeerUnlinks(g) PROVE IInv'
  BY <1>t, <1>3, PeerStep DEF PeerUnlinks
<1>n. ASSUME NEW r \in Run, NothingToMirror(r) PROVE IInv'
  <2>1. At("rest", 0, FALSE) \in RunState
    <3>1. 0 \in 0 .. MaxAttempts - 1
      BY AttemptsAssumption
    <3> QED BY <3>1, AtType
  <2> QED BY <1>n, <1>t, <2>1, ReadStep DEF NothingToMirror, At, Active
<1>r. CASE Reciprocate
  BY <1>t, <1>r, PeerStep DEF Reciprocate
<1>4. ASSUME NEW r \in Run, NEW pc \in {"fetch", "list"}, Start(r, pc) PROVE IInv'
  <2> DEFINE alone == \A q \in Run \ {r} : ~ Active(q)
  <2>1. 0 \in 0 .. MaxAttempts - 1
    BY AttemptsAssumption
  <2>2. /\ At(pc, 0, alone) \in RunState
        /\ At(pc, 0, alone).pc = pc
        /\ At(pc, 0, alone).doc = {}
        /\ At(pc, 0, alone).had = {}
        /\ At(pc, 0, alone).clean = alone
    BY <2>1 DEF At, RunState
  <2>3. /\ Disturbed \in [Run -> RunState]
        /\ \A q \in Run : /\ Disturbed[q].pc = run[q].pc
                          /\ Disturbed[q].doc = run[q].doc
                          /\ Disturbed[q].had = run[q].had
                          /\ Disturbed[q].clean = FALSE
    BY <1>t DEF Disturbed, RunState
  <2>4. /\ run' = [Disturbed EXCEPT ![r] = At(pc, 0, alone)]
        /\ UNCHANGED <<reciprocal, linked, stored, issued, listed, copies, torn>>
    BY <1>4 DEF Start
  <2> HIDE DEF alone
  <2>5. /\ run' \in [Run -> RunState]
        /\ run'[r] = At(pc, 0, alone)
        /\ \A q \in Run \ {r} : run'[q] = Disturbed[q]
    BY <2>2, <2>3, <2>4
  <2>6. TypeOK'
    BY <2>2, <2>3, <2>4, <2>5, <1>t DEF IInv, TypeOK
  <2>7. CleanAlone'
    <3>1. run'[r].clean => \A q \in Run \ {r} : run[q].pc \in {"rest"}
      BY <2>2, <2>5 DEF Active, alone
    <3>2. \A q \in Run \ {r} : run'[q].pc = run[q].pc /\ run'[q].clean = FALSE
      BY <2>3, <2>5
    <3> QED BY <3>1, <3>2 DEF CleanAlone, Active
  <2>8. CleanCurrent' /\ DeletesAll'
    BY <2>2, <2>3, <2>5 DEF CleanCurrent, DeletesAll, IInv
  <2>9. CopiesMatchList'
    BY <2>4 DEF IInv, CopiesMatchList
  <2> QED BY <2>6, <2>7, <2>8, <2>9 DEF IInv
<1>5. ASSUME NEW r \in Run, SyncStep(r) PROVE IInv'
  <2>1. CASE FetchRegistration(r)
    <3> DEFINE new == [run[r] EXCEPT !.pc = "read", !.doc = linked]
    <3>1. new \in RunState /\ Active(r) /\ run' = [run EXCEPT ![r] = new]
      <4>1. new \in RunState
        BY <1>t, <1>s DEF RunState
      <4> QED BY <4>1, <2>1 DEF FetchRegistration, Active
    <3> QED BY <3>1, <2>1, <1>t, ReadStep DEF FetchRegistration, RunState
  <2>2. CASE ReadMirror(r)
    <3> DEFINE new == [run[r] EXCEPT !.pc = "grants", !.had = listed,
                                     !.todo = run[r].doc \ listed]
    <3>1. new \in RunState /\ Active(r) /\ run' = [run EXCEPT ![r] = new]
      <4>1. new \in RunState
        BY <1>t, <1>s DEF RunState
      <4> QED BY <4>1, <2>2 DEF ReadMirror, Active
    <3> QED BY <3>1, <2>2, <1>t, ReadStep DEF ReadMirror, RunState, IInv, CleanCurrent
  <2>3. CASE FetchGrant(r)
    <3>1. PICK g \in run[r].todo \cap stored : run' = [run EXCEPT ![r].todo = @ \ {g}]
      BY <2>3 DEF FetchGrant
    <3> DEFINE new == [run[r] EXCEPT !.todo = @ \ {g}]
    <3>2. new \in RunState /\ Active(r) /\ run' = [run EXCEPT ![r] = new]
      <4>1. new \in RunState
        BY <1>t DEF RunState
      <4> QED BY <4>1, <3>1, <2>3 DEF FetchGrant, Active
    <3> QED BY <3>2, <2>3, <1>t, ReadStep DEF FetchGrant, RunState, IInv, CleanCurrent
  <2>4. CASE GrantGone(r)
    BY <2>4, <1>t, NextAttemptStep DEF GrantGone, Active
  <2>5. CASE AttemptFails(r)
    BY <2>5, <1>t, NextAttemptStep DEF AttemptFails, Active
  <2>6. CASE Write(r)
    <3>1. /\ Active(r)
          /\ listed' = run[r].doc
          /\ copies' = (copies \ StaleLinks(r)) \cup NewLinks(r)
          /\ torn' = Torn(r)
      BY <2>6 DEF Write, Active
    <3>2. UNCHANGED <<linked, stored, issued>> /\ reciprocal' \in BOOLEAN
      BY <2>6, <1>t DEF Write
    <3>3. run[r].clean => listed' = linked
      BY <2>6, <3>1 DEF Write, IInv, CleanCurrent
    <3>4. 0 \in 0 .. MaxAttempts - 1 /\ run[r].clean \in BOOLEAN
      BY <1>t, AttemptsAssumption DEF RunState
    <3>5. CASE run' = [run EXCEPT ![r] = At("rest", 0, run[r].clean)]
      <4>1. At("rest", 0, run[r].clean) \in RunState
        BY <3>4, AtType
      <4> QED BY <2>6, <3>1, <3>2, <3>3, <3>5, <4>1, WriteStep DEF Write, At
    <3>6. CASE NextAttempt(r)
      <4>1. CASE run[r].tries + 1 = MaxAttempts
        <5>1. At("rest", 0, FALSE) \in RunState
          BY <3>4, AtType
        <5> QED BY <2>6, <3>1, <3>2, <3>6, <4>1, <5>1, WriteStep DEF Write, NextAttempt, At
      <4>2. CASE run[r].tries + 1 # MaxAttempts
        <5>1. run[r].tries + 1 \in 0 .. MaxAttempts - 1
          BY <1>t, <4>2, AttemptsAssumption DEF RunState
        <5>2. At("fetch", run[r].tries + 1, run[r].clean) \in RunState
          BY <3>4, <5>1, AtType
        <5> QED BY <2>6, <3>1, <3>2, <3>6, <4>2, <5>2, WriteStep DEF Write, NextAttempt, At
      <4> QED BY <4>1, <4>2
    <3> QED BY <2>6, <3>5, <3>6 DEF Write
  <2> QED BY <1>n, <1>5, <2>1, <2>2, <2>3, <2>4, <2>5, <2>6 DEF SyncStep
<1>6. ASSUME NEW r \in Run, DeleteStep(r) PROVE IInv'
  <2>1. CASE ListCopies(r)
    <3> DEFINE new == [run[r] EXCEPT !.pc = "drop", !.had = listed]
    <3>1. new \in RunState /\ Active(r) /\ run' = [run EXCEPT ![r] = new]
      <4>1. new \in RunState
        BY <1>t, <1>s DEF RunState
      <4> QED BY <4>1, <2>1 DEF ListCopies, Active
    <3> QED BY <3>1, <2>1, <1>t, ReadStep DEF ListCopies, RunState, IInv, DeletesAll
  <2>2. CASE DropCopies(r)
    <3>1. /\ Active(r)
          /\ listed' = {}
          /\ copies' = copies \ run[r].had
          /\ torn' = Torn(r)
      BY <2>2 DEF DropCopies, Active
    <3>2. run[r].doc = {} /\ NewLinks(r) = {} /\ StaleLinks(r) = run[r].had
      BY <2>2 DEF NewLinks, StaleLinks, DropCopies, IInv, DeletesAll
    <3>3. 0 \in 0 .. MaxAttempts - 1
      BY AttemptsAssumption
    <3>4. At("rest", 0, FALSE) \in RunState
      BY <3>3, AtType
    <3> QED BY <2>2, <1>t, <3>1, <3>2, <3>4, WriteStep DEF DropCopies, At
  <2> QED BY <1>n, <1>6, <2>1, <2>2 DEF DeleteStep
<1>7. CASE UNCHANGED vars
  BY <1>7 DEF vars, IInv, TypeOK, CleanAlone, CleanCurrent, DeletesAll, CopiesMatchList,
                Torn, NewLinks, StaleLinks, Active
<1> QED
  BY <1>1, <1>2, <1>3, <1>r, <1>4, <1>5, <1>6, <1>7 DEF Next, StartSync, StartDelete

LEMMA InvAlways == Spec => []IInv
BY InitIInv, Step, PTL DEF Spec

(* Every variable keeps its type.                                          *)
THEOREM TypeAlways == Spec => []TypeOK
<1>1. IInv => TypeOK
  BY DEF IInv
<1> QED BY InvAlways, <1>1, PTL

(* "Existence oracle": the mirror has a copy of exactly the grants its list *)
(* names, but for those that overlapping runs tore apart.                  *)
THEOREM AlwaysCopiesMatchList == Spec => []CopiesMatchList
<1>1. IInv => CopiesMatchList
  BY DEF IInv
<1> QED BY InvAlways, <1>1, PTL

(* A sync that nobody disturbs leaves the peer's links in the list, also    *)
(* after syncs that overlapped, and the graphs of those not torn.          *)
THEOREM AlwaysListHeals == Spec => []ListHeals
<1>1. IInv => ListHeals
  <2>1. ASSUME IInv, NEW r \in Run, Undisturbed(r) PROVE listed = linked
    BY <2>1 DEF IInv, CleanCurrent, Undisturbed
  <2>2. IInv => listed \ torn \subseteq copies
    BY DEF IInv, CopiesMatchList
  <2> QED BY <2>1, <2>2 DEF ListHeals
<1> QED BY InvAlways, <1>1, PTL
=============================================================================
