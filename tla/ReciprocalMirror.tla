-------------------------- MODULE ReciprocalMirror --------------------------
(***************************************************************************)
(* The local copy of what a peer says it has granted: the peer's           *)
(* registration of us with its links, and every linked grant in a graph    *)
(* named after it.  A sync compares two snapshots, the peer's document and *)
(* the list the mirror holds, and rewrites the mirror in one update; a     *)
(* deletion drops what the mirror lists.  Syncs are not serialized.        *)
(*                                                                         *)
(* Grants are immutable, so a copy is a grant; the rest of the             *)
(* registration's body is rewritten by every sync and left out.            *)
(***************************************************************************)
EXTENDS Naturals

CONSTANTS Grant,       \* grants the peer may ever issue to us
          Run,         \* runs that can be under way at one time
          MaxAttempts  \* attempts the retry policy allows a sync

ASSUME AttemptsAssumption == MaxAttempts \in Nat \ {0}

VARIABLES reciprocal, \* our registration of the peer names the peer's of us
          linked,   \* hasDataGrant of the peer's registration of us
          stored,   \* grants the peer stores
          listed,   \* hasDataGrant in the mirror's copy of that registration
          copies,   \* grants the mirror has a graph of
          run,      \* run -> its progress
          issued,   \* history: grants that have been linked
          torn      \* history: grants whose link and graph overlapping runs tore apart

vars == <<reciprocal, linked, stored, listed, copies, run, issued, torn>>

RunState ==
  [pc    : {"rest", "fetch", "read", "grants", "list", "drop"},
   doc   : SUBSET Grant,   \* links of the fetched document
   had   : SUBSET Grant,   \* links the mirror listed
   todo  : SUBSET Grant,   \* grants still to fetch
   tries : 0 .. MaxAttempts - 1,
   clean : BOOLEAN]        \* nobody else has acted since the sync was started

(* Every variable has its type, and a fetched grant was linked then.        *)
TypeOK ==
  /\ linked \subseteq issued
  /\ stored \subseteq issued
  /\ listed \subseteq issued
  /\ copies \subseteq issued
  /\ issued \subseteq Grant
  /\ run \in [Run -> RunState]
  /\ torn \subseteq issued
  /\ reciprocal \in BOOLEAN
  /\ \A r \in Run : run[r].doc \cup run[r].had \subseteq issued

(* A run at the start of an attempt, or at rest: it has read nothing.       *)
At(pc, tries, clean) ==
  [pc |-> pc, doc |-> {}, had |-> {}, todo |-> {}, tries |-> tries, clean |-> clean]

Active(r) == run[r].pc # "rest"
NewLinks(r) == run[r].doc \ run[r].had
StaleLinks(r) == run[r].had \ run[r].doc

(* A rewrite of the mirror adds and drops the graphs of what has changed    *)
(* between its two snapshots, and those are right then.  Of the others it   *)
(* rewrites the link and leaves the graph: where the list is not what it    *)
(* compared any more, that tears them apart, or puts them together again.   *)
Torn(r) == LET outdated == (run[r].had \ listed) \cup (listed \ run[r].had)
           IN ((torn \ outdated) \cup (outdated \ torn)) \ (NewLinks(r) \cup StaleLinks(r))

(* Nobody is clean any more, except who acts.                              *)
Disturbed == [r \in Run |-> [run[r] EXCEPT !.clean = FALSE]]

mirror == <<listed, copies>>
peer == <<reciprocal, linked, stored, issued>>

-----------------------------------------------------------------------------
(* The peer's granting run replaces links by links to new grants; a grant  *)
(* is stored before it is linked, and one that is unlinked stays stored.   *)
PeerReplaces(old, new) ==
  /\ old \subseteq linked
  /\ new \subseteq Grant \ issued
  /\ old \cup new # {}
  /\ linked' = (linked \ old) \cup new
  /\ stored' = stored \cup new
  /\ issued' = issued \cup new
  /\ run' = Disturbed
  /\ UNCHANGED <<reciprocal, mirror, torn>>

(* The peer's revocation deletes a grant ...                               *)
PeerDeletes(g) ==
  /\ g \in linked \cap stored
  /\ stored' = stored \ {g}
  /\ run' = Disturbed
  /\ UNCHANGED <<reciprocal, linked, issued, mirror, torn>>

(* ... and unlinks it later.                                               *)
PeerUnlinks(g) ==
  /\ g \in linked \ stored
  /\ linked' = linked \ {g}
  /\ run' = Disturbed
  /\ UNCHANGED <<reciprocal, stored, issued, mirror, torn>>

(* discoverAndUpdateReciprocal: the peer's registration is found and linked.*)
Reciprocate ==
  /\ ~ reciprocal
  /\ reciprocal' = TRUE
  /\ run' = Disturbed
  /\ UNCHANGED <<linked, stored, issued, mirror, torn>>

-----------------------------------------------------------------------------
Start(r, pc) ==
  LET alone == \A q \in Run \ {r} : ~ Active(q)
  IN /\ ~ Active(r)
     /\ run' = [Disturbed EXCEPT ![r] = At(pc, 0, alone)]
     /\ UNCHANGED <<peer, mirror, torn>>

(* An update of the peer's registration starts a sync.                     *)
StartSync(r) == Start(r, "fetch")

(* The end of the relation starts a deletion.                              *)
StartDelete(r) == Start(r, "list")

(* Either returns at once if the peer's registration is not known.          *)
NothingToMirror(r) ==
  /\ run[r].pc \in {"fetch", "list"} /\ ~ reciprocal
  /\ run' = [run EXCEPT ![r] = At("rest", 0, FALSE)]
  /\ UNCHANGED <<peer, mirror, torn>>

(* fetchDoc(reciprocalIri): the first snapshot ...                         *)
FetchRegistration(r) ==
  /\ run[r].pc = "fetch" /\ reciprocal
  /\ run' = [run EXCEPT ![r].pc = "read", ![r].doc = linked]
  /\ UNCHANGED <<peer, mirror, torn>>

(* ... and mirroredGrants, the second.                                     *)
ReadMirror(r) ==
  /\ run[r].pc = "read"
  /\ run' = [run EXCEPT ![r].pc = "grants", ![r].had = listed, ![r].todo = run[r].doc \ listed]
  /\ UNCHANGED <<peer, mirror, torn>>

(* The next new grant, if the peer still has it.                           *)
FetchGrant(r) ==
  /\ run[r].pc = "grants"
  /\ \E g \in run[r].todo \cap stored : run' = [run EXCEPT ![r].todo = @ \ {g}]
  /\ UNCHANGED <<peer, mirror, torn>>

(* Mutated: the policy that retries for ever.                              *)
RetryForever(r) == run' = [run EXCEPT ![r] = At("fetch", run[r].tries, run[r].clean)]

(* Mutated: one attempt too many.                                          *)
RetryOnceMore(r) ==
  run' = [run EXCEPT ![r] = IF run[r].tries > MaxAttempts - 1 THEN At("rest", 0, FALSE)
                            ELSE At("fetch", run[r].tries + 1, run[r].clean)]

(* The attempt failed: the activity starts again, or the run has failed.    *)
NextAttempt(r) ==
  run' = [run EXCEPT ![r] = IF run[r].tries + 1 = MaxAttempts THEN At("rest", 0, FALSE)
                            ELSE At("fetch", run[r].tries + 1, run[r].clean)]

(* A grant that is linked and already deleted fails the attempt.           *)
GrantGone(r) ==
  /\ run[r].pc = "grants"
  /\ ~ run[r].todo \subseteq stored
  /\ NextAttempt(r)
  /\ UNCHANGED <<peer, mirror, torn>>

(* A crash, or an error of the network, in any step of an attempt.         *)
AttemptFails(r) ==
  /\ run[r].pc \in {"fetch", "read", "grants"}
  /\ NextAttempt(r)
  /\ UNCHANGED <<peer, mirror, torn>>

(* Mutated: only the registration's graph is rewritten.                    *)
WriteLinks(r) ==
  /\ run[r].pc = "grants" /\ run[r].todo = {}
  /\ listed' = run[r].doc
  /\ copies' = copies \cup NewLinks(r)
  /\ run' = [run EXCEPT ![r] = At("rest", 0, run[r].clean)]
  /\ torn' = Torn(r)
  /\ UNCHANGED peer

(* Mutated: the registration's graph is not dropped before the insertion.   *)
WriteOver(r) ==
  /\ run[r].pc = "grants" /\ run[r].todo = {}
  /\ listed' = listed \cup run[r].doc
  /\ copies' = (copies \ StaleLinks(r)) \cup NewLinks(r)
  /\ run' = [run EXCEPT ![r] = At("rest", 0, run[r].clean)]
  /\ torn' = Torn(r)
  /\ UNCHANGED peer

(* The one SPARQL update; its answer may be lost, and the activity starts   *)
(* again.                                                                  *)
Write(r) ==
  /\ run[r].pc = "grants" /\ run[r].todo = {}
  /\ listed' = run[r].doc
  /\ copies' = (copies \ StaleLinks(r)) \cup NewLinks(r)
  /\ \/ run' = [run EXCEPT ![r] = At("rest", 0, run[r].clean)]
     \/ NextAttempt(r)
  /\ torn' = Torn(r)
  /\ UNCHANGED peer

(* deleteReciprocalMirror reads what the mirror lists ...                  *)
ListCopies(r) ==
  /\ run[r].pc = "list" /\ reciprocal
  /\ run' = [run EXCEPT ![r].pc = "drop", ![r].had = listed]
  /\ UNCHANGED <<peer, mirror, torn>>

(* ... and drops it.                                                       *)
DropCopies(r) ==
  /\ run[r].pc = "drop"
  /\ listed' = {}
  /\ copies' = copies \ run[r].had
  /\ torn' = Torn(r)
  /\ run' = [run EXCEPT ![r] = At("rest", 0, FALSE)]
  /\ UNCHANGED peer

-----------------------------------------------------------------------------
Init ==
  /\ reciprocal = FALSE
  /\ linked = {} /\ stored = {} /\ issued = {}
  /\ listed = {} /\ copies = {}
  /\ run = [r \in Run |-> At("rest", 0, FALSE)]
  /\ torn = {}

SyncStep(r) ==
  \/ NothingToMirror(r) \/ FetchRegistration(r) \/ ReadMirror(r) \/ FetchGrant(r)
  \/ GrantGone(r) \/ AttemptFails(r) \/ Write(r)

DeleteStep(r) == NothingToMirror(r) \/ ListCopies(r) \/ DropCopies(r)

Next ==
  \/ \E old \in SUBSET linked, new \in SUBSET Grant : PeerReplaces(old, new)
  \/ \E g \in Grant : PeerDeletes(g) \/ PeerUnlinks(g)
  \/ Reciprocate
  \/ \E r \in Run : \/ StartSync(r) \/ StartDelete(r)
                    \/ SyncStep(r) \/ DeleteStep(r)

Spec == Init /\ [][Next]_vars

(* The server goes on with what it has begun; the peer, and what starts a  *)
(* run, owe nothing.                                                       *)
FairSpec == Spec /\ \A r \in Run : WF_vars(SyncStep(r) \/ DeleteStep(r))

-----------------------------------------------------------------------------
(* "Existence oracle": the mirror has a graph of exactly the grants it      *)
(* lists, so a listed grant need not be fetched, and no graph is left that  *)
(* nothing would ever drop.  It is not so of the grants torn, and of these  *)
(* only: where one run rewrote the list that another had compared, until a  *)
(* later one adds or drops just that grant.                                 *)
CopiesMatchList == (copies \ listed) \cup (listed \ copies) = torn

Undisturbed(r) == run[r].pc = "rest" /\ run[r].clean

(* A sync nobody disturbs leaves the list the peer has, whatever earlier    *)
(* syncs have made of it, overlapping ones included, and a graph of each    *)
(* grant on it that is not torn.  Of a graph that is, the next sync does    *)
(* not heal the loss: it takes what is listed for what is there.            *)
ListHeals ==
  \A r \in Run : Undisturbed(r) => listed = linked /\ linked \ torn \subseteq copies

(* Every run ends, though the peer deletes grants under a sync.             *)
RunsEnd == \A r \in Run : Active(r) ~> ~ Active(r)
=============================================================================
