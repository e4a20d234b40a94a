# Sai-js in TLA+

Sai-js is an implementation of Solid Application Interoperability. A service
acts for many owners (people and organisations). Each owner has a *registry
set* in its pod: authorizations, grants, agent registrations, roles,
activities. What makes the service hard is that none of these is written in a
transaction. A call from the user interface records one *activity*; a webhook
hears of it and starts a Temporal workflow; the workflow writes a dozen
resources one request at a time, each request an activity that may be retried
after a crash; a sweep may run the same workflow again. The modules here say
what holds of the registries while and after all this happens.

## The system

Paths are below `src/packages/`; `components/src` is the service,
`authorization-agent/src` the library it drives.

| Component | State | Operations | Talks to |
| --- | --- | --- | --- |
| Activity registry (`authorization-agent/src/activity-registry.ts`) | append-only list of activities and `ActivityCompleted` | create an activity, create a completion, list | everything writes it; one notification per entry |
| Activity webhook (`components/src/ActivityWebhookHandler.ts`) | none | decode an activity, start its workflow under a random id, forward it to the user interface | Temporal, event stream, peers' observers |
| Granting (`temporal/workflows/grants.ts`, `temporal/activities/grants.ts`) | data authorizations, grants, their ACRs, registration links | `processAuthorizationGranted`, `processGranteeAuthorization`, `createGrantsForAgent`, `processGranteeActivities` | the owner's pod, other owners' delegation endpoints |
| Roles (same files, `services/RoleRegistry.ts`) | roles and their members | create, update, delete; regenerate whoever is concerned | granting |
| Admins (`temporal/*/admin.ts`, `services/Admin.ts`, `services/adminGate.ts`) | admin authorizations, admin grants, marks on registrations, the ACR of the registry set | add, remove; the gate that asks for a mark | the owner's pod |
| Reconciliation (`reconcileActivities`) | none | run the workflow of every pending activity again and mark it done | all workflows |
| Delegation endpoint (`GrantIssuanceHandler.ts`, `GrantRevocationHandler.ts`, `services/Revocation.ts`) | grants in the data owner's registry | issue delegated grants, revoke with everything that inherits | granting at the other side |
| Invitations (`InvitationHandler.ts`, `temporal/*/invitation.ts`, `temporal/*/reciprocal.ts`) | invitations, registrations, webhook channels | invite, accept, establish the reciprocal | two services |
| Reciprocal mirror (`services/ReciprocalMirror.ts`, `ReciprocalWebhookHandler.ts`) | local graphs of a peer's registration | follow a peer's update | peers |
| Access requests (`temporal/*/access-request.ts`, `GrantIssuanceHandler.ts`) | requests sent and received | send, receive, detect as granted, archive | two services |
| Grant generation (`grant-generation.ts`) | none (pure) | authorizations to grants | granting |
| Permission engine (`SaiPermissionsEngine.ts`) | none (reads grants) | credentials and a resource to modes | the HTTP server |
| Event stream (`ActivityEvents.ts`, `EventsHandler.ts`) | open streams | fan out lines | browsers |
| RPC, storage, sessions, builders, user interface, client library | | | |

How they interact, for every kind of change:

    service call --(1) activity--> registry --(2) one POST, at most once--> webhook
        --(3) random workflow id--> workflow --(4) writes, retried one by one--> registries
        --(5) completion--> registry ; reconcileActivities repeats (3)-(5) for what is pending

Hard behaviours, the reason for the properties (the list with lines is
`hazards` in `PROJECT.json`):

* two workflows regenerate the grants of one agent at the same time, each from
  its own snapshot, and both patch one registration;
* a write is made and its result lost, so the request is repeated: harmless if
  it is find-first, fatal if it is a `PUT` with `If-None-Match`, wrong if the
  repeated request reads what it has itself overwritten;
* a sweep repeats a workflow that is still running, or was overtaken by later
  changes;
* a failure is swallowed: a request that failed is taken for an answer, and the
  workflow completes what it has not done;
* service calls check what is, workflows change it later: two removals pass the
  same guard, two screens decide one request;
* two services wait for what the other writes, and stop waiting after a bounded
  number of attempts;
* a copy is kept up to date by comparing two snapshots;
* grants that were replaced stay stored, and the permission engine reads all;
* one fact is kept in several places (an admin authorization, a mark, an access
  control), written by different requests.

What makes each component correct: *granting* - completed means in force;
linked means stored, with its access control; quiet means exact. *Roles* - every agent concerned is
regenerated, whoever joined, left or may use the members' data; a deleted role
stays away. *Admins* - the three records agree and the organisation keeps an
admin. *Delegation* - rights start at the
owner; a revocation takes what inherits along, and nothing that is another's.
*Invitations* - the link keeps working, each side registers the other once, and
what says it is done is connected. *Mirror* - it holds what it lists, and lists
what the peer does. *Requests* - received once, closed once, and resolved when
the news of a grant has come all the way. *Generation and engine* - what is
authorized is found and readable, and nobody gets a mode that was never
authorized.

## Modules

| Module | Models | Checked by | Proved in |
| --- | --- | --- | --- |
| `Outbox` | the promise of the activity registry, abstractly | refinement from `Granting` | `GrantingProofs` |
| `Regeneration` | `createGrantsForAgent` and the registries it works on | through `Granting`, `RoleChanges` | `GrantingProofs` |
| `Granting` | `processAuthorizationGranted`, legs, webhook, sweep; extends `Regeneration` | `MCGranting` | `GrantingProofs` |
| `RoleChanges` | role services and workflows beside granting; extends `Granting` | `MCRoleChanges` | `RoleChangesProofs` |
| `AdminManagement` | admin services and workflows | `MCAdminManagement` | `AdminManagementProofs` |
| `Delegation` | the data owner's endpoint: issuance and revocation | `MCDelegation` | `DelegationProofs` |
| `ReciprocalMirror` | the local copy of a peer's registration: sync, deletion, the peer beneath | `MCReciprocalMirror` | `ReciprocalMirrorProofs` |
| `Invitations` | invite, accept, both sides' registrations and channels | `MCInvitations` | `InvitationsProofs` |
| `AccessRequests` | send, forward, receive, decide, detect, archive, on both sides | `MCAccessRequests` | `AccessRequestsProofs` |
| `GrantGeneration` | pure: authorizations to grants, instances of a grant, what is delegable | through `Access` | `AccessProofs` |
| `PermissionEngine` | pure: every answer `getPermissions` may give; extends `GrantGeneration` | through `Access` | `AccessProofs` |
| `Access` | both composed: authorize, regenerate, share, ask | `MCAccess` | `AccessProofs` |

**State and code.** `auth`, `roles`, `members`, `registered`, `grants`, `acrs`
and `links` are the resources of one owner's registries. `child` holds the
progress of every `createGrantsForAgent`, identified by the run and grantee
that started it and the agent it is for; its `pc` names the activity that comes
next, `seen` is the result of `getAuthorizations`, `new` is `newGrantIds`,
`blind` those of them whose ACR names somebody else than the agent, `read` what
`replaceDataGrants` loaded. `leg` is the progress of one
`processGranteeAuthorization`, `run` that of its parent. `outbox`, `done` and
`inbox` are activities, completions and undelivered notifications; a lost
notification is one that is never delivered. Role runs carry what their
workflow holds in local variables: `before`, `used`, `via`, `gone`. Admin runs
likewise. In `Delegation` `issue` is the progress of one `AccessRequest`
(validated top grant, validated inheriting grant, stored one after the other),
`revoke` that of one revocation: the ids listed, the closure found so far, what
is still to be deleted or cleared. A grant is known by its request and its place
in it, as its id is minted when the request arrives; `Says` is its content.

In `ReciprocalMirror` `linked` and `stored` are the peer's, `reciprocal` says
that our registration names the peer's, `listed` and `copies` are the graphs of
the mirror; a run holds the document it fetched (`doc`) and the
list it compared it with (`had`). In `Invitations` a leg is one accept at the
acceptor, or one `establishReciprocal` at the inviter, and stands at a step of
one of the three activities both are made of; a registration is there as a
container (`shell`), with its body (`bare`), with its access control (`full`).
In `AccessRequests` `sent`, `granted` and `archived` are activities of the
requester, `copy` and `decided` those of the owner, `screens` the decisions being
made on pages that are open, `approval` the way of a grant from the owner's
activity to the requester's detector. In `Access` a grant is a record of its
content with its inheriting grants; `stale` says whose regeneration is due.

**Steps.** An action is one Temporal activity, or the read or the write inside
one where another workflow may come in between (`ReadLinks`/`PatchLinks`,
`LoadRole`/`PutRole`, `ListAdmins`/`RewriteAcr`). "Lost" is a disjunct of the
writing actions: the write happens and the step stays where it was, which is
what a retry after a worker's crash does. A failed request that the code
swallows is a disjunct too: `WriteAcr` (a failed discovery makes the ACR name the
grantor), `DeleteRole` and `DeleteAdminAuthorization` (a failed read counts as an
absence), the look before an invitation is stored. `FailAlways` is an activity
that fails at every attempt, whatever the reason (no registration matches an
authorization, the owner's endpoint refuses, a resource has no ACR, an admin no
agent): the child or run stays at `failing`. Lost results, swallowed failures and
activities that fail for good are the mishaps that `MaxLost` bounds (`MaxTrouble`,
where sweeps and second accepts draw on it too). An activity that waits for what
is not there yet is an action that is not enabled: where the policy sets no
limit Temporal retries for ever, so it happens later or never. Where it sets one
(the mirror's sync, invitations) an attempt that fails is a step, and
`MaxAttempts` of them end the run; in the mirror any attempt may fail, and the
attempts are the only bound. Retries of an activity that changes nothing are
stutters.

**Abstractions.** A data authorization is a model value with its grantee and
perhaps an owner role; one grant stands for all the grants generated from it
(over the registrations of one owner, with the inheriting ones), and its key
says who asked for it. A delegated authorization (`DelegatedDA`) is one
over data that its owner has granted before: without a grant of the owner that it
matches the code generates nothing for it and goes on, and "in force" would have
to say so. An authorization over one's own data that matches no registration is
an error (`grant-generation.ts:381`, the `generate` case of `FailAlways`). A role's data is covered by generating one grant per
member: `cover` remembers for which. Authorizations reach the registry through
`storeDataAuthorizations` only. The commented-out deletions of replaced grants
are modelled as the code has them: nothing is deleted. `checkEquivalence` is
the code's placeholder that finds nothing to reuse, so it does not appear.
`reconcileActivities` is one workflow that goes through all kinds of activities;
the models of granting and of roles each have a sweep of their own, which adds
interleavings and takes none away. A sweep may start as often as there are
unused runs. The deletion of an admin grant and of its ACR, both tolerant of a
missing resource and repeated together, is one step. `Delegation` has one data
registration of the owner and the one inheriting from it, so a peer can delegate
what it holds a grant for: modes, scopes and selected instances are left out. A
request has one top grant with at most one inheriting grant (the endpoint takes
lists, one level deep). The handler of a revocation reads the authority of the
listed grants twice; only the second reading counts, and it is the one
modelled. The access control of a grant goes with the grant.

`ReciprocalMirror` models code the service does not run yet: the calls are
commented out until there is a store per owner. `Invitations` has one inviter
and one acceptor; a failed read is taken for absence, as the code takes it. The
sweep knows of invitations created, not of `InvitationAccepted` and
`AgentRegistrationAdded`, so their runs start from the webhook only.
`AccessRequests` has one requester and one owner, and takes the owner's
granting run as two steps, the grants stored and then the registration updated;
`updateDelegatedGrants` is the step before the detector. `Access` takes whole
workflows as steps; their interleavings are the subject of the other modules.
Every access need is taken to contain `Read`, as the authorization page does. Of
the engine, the registry itself as a target and the owner's own reader are left
out. The engine takes the first row of an unordered query, so `PermissionEngine`
gives the set of answers, and `Access` asks that every one of them be right.

**History variables** say when two things met, and change nothing:
`overlap` - agents with two regenerations at work at once; `again` of a child -
its PATCH was applied and the result lost; `stale` - roles that a workflow
changed, or somebody granted something to, on the strength of an outdated
reading: the members a retried update takes for the old ones, the usage a scan
finds before an authorization is stored or after another run has deleted it, the
members a deletion's activity carries, the absence a creation acts on after a
deletion (it excuses `RegistrationsCurrent` only); `kept` of a deletion - it took a
failed read for a deleted role; `met` of a deletion - the updates that had read
the role and not yet written it when it was deleted; `kept` of the admins -
authorizations whose removal failed to read them;
`muddled` - persons whose admin workflows met; `late` - the last rewrite of the
ACR used an outdated list; `hurried` - a removal was recorded before another was
over (pending, or completed with a second run still to delete); `torn` -
requests of which a revocation collected the top grant before the inheriting
one was stored, which then stays behind without it. `ever` holds the grants that
have been stored at all; it excuses nothing. In the mirror, `torn` - grants whose
link one run wrote on the strength of a list another run has rewritten since, so
that link and graph differ; `clean` - nobody else has acted since the run started;
`issued` - grants ever linked. In the handshake, `raced` - a creation overlapped
another or misread; `repeated` - a post came before the last had its
registration; `together` - two accepts were under way; `torn` - a registration
lost its creator half-way; `forgotten` - channels opened at the peer by a leg that
died before it stored them. In requests, `resent` - sent again after a lost answer
or by a second run; `raced` - two at the requester had found a request open;
`crossed` - two at the owner had it before them. In `Access`, `once` holds who
was ever a member. Properties excuse exactly these: the code has no protection
there, and the runs that expect a violation show what happens in three such
cases.

## Runs

| Run | Question | Bounds | Answer |
| --- | --- | --- | --- |
| `granting` | does an activity complete only when it is in force; are registrations exact; does granting implement `Outbox`; do runs complete | 1 role, 1 social agent, 2 authorizations (one through the role, one direct and delegated) in 2 activities, 2 runs, sweep, `MaxLost` 1 | yes, for agents without overlap, and but for a refused `PUT` and failures that are there at every attempt |
| `granting_retry` | are retries safe | as `granting` | no: `storeDataGrant` |
| `roles` | do registrations and grants follow create, update, delete | 1 role as grantee and as owner, 2 agents (one an application), 2 authorizations, one activity of each kind, 2 runs, sweep | yes, but for outdated readings and a creation that runs twice |
| `roles_progress` | do role runs complete though results are lost and requests fail | 1 agent, 1 authorization, 1 update, 1 deletion, 2 role runs, sweep, `MaxLost` 1 | yes, unless what they need is deleted, a `PUT` is refused or a failure is there at every attempt |
| `role_rerun` | is a second run of an update harmless | 1 update, `MaxLost` 1 | no: an empty difference |
| `admin` | do the three records agree; is the last admin guarded; do runs complete | 2 persons, 1 addition, 2 removals, 2 runs, sweep, `MaxLost` 1 | yes, but for removals at once, a failed read, a refused `PUT` and failures that are there at every attempt |
| `admin_last` | can the organisation end up without an admin | 2 admins, 2 removals | yes |
| `delegation` | do rights start at the owner; does a revocation take just what it should; does it end | 2 peers, 2 requests of 5 kinds, 2 revocations of 1 listed grant each by anybody, `MaxBegun` 3 of these four, `MaxLost` 1, handlers that die | yes, but for a request caught half stored |
| `mirror` | does the mirror hold what it lists; what does a sync repair; do runs end | 2 grants, 2 runs, 2 attempts | but for what overlapping runs tear apart; an undisturbed sync repairs the list, not a torn graph; yes |
| `invitations` | does the link stay good; is each side registered once, and readable; is done connected; does nobody wait for ever | 2 accepts, 2 links, 2 ids a side, 2 attempts, `MaxTrouble` 1 | yes, but for posts and accepts that meet, and a channel for each death before it is stored |
| `requests` | is a request received once and closed once; does news of a grant resolve it; do runs end | 1 request for 2 shape trees of 3, 2 receptions, 2 screens each, 2 approvals (asked or not), `MaxTrouble` 1 | yes, but for lost answers and two readers at once |
| `access` | does anybody get what was never authorized; does everybody find and read what is authorized | 2 registries of 3 and 2 registrations, 7 instances, 4 authorizations, 2 things a peer may share, 1 role, 2 grantees, 5 references, 2 kinds that refer by one predicate | no; yes, unless a reference misleads the engine |

Why the bounds are enough to mean something: two runs are what it takes for two
regenerations to overlap, for a sweep to meet the run it repeats, for two
removals to pass one guard and for two syncs to compare outdated snapshots; one
mishap is what it takes to repeat any request, to swallow any failure or to stop
any child; one agent reached both
through a role and directly is what it takes for two activities to meet, and two
authorizations for it for either activity to regenerate what the other has
stored; two requests
are what it takes for two peers to delegate to each other, two revocations for
one to delete what the other has collected, and three of the four handlers for
each pair of them to meet a third. Two accepts are what it takes for one
acceptor to meet itself, two links for a second creation to replace the first
link, two attempts for a retry to succeed or to be the last. A request for two
trees of which one is granted is granted in part; a third tree is one nobody
asked for; two screens are what it takes to decide twice. In `access` there is a
registration of every kind on both sides, an authorization of every scope a page
offers (`All`, `AllFromRole`, `Selected` of one's own and of a peer's), and
references inside a registry and across storages. A note that refers to a task by
the predicate a project uses is what it takes to mislead the engine inside one
storage. Activities with several authorizations or grantees are left to the
theorem `DoneAlwaysInForce`, role workflows beside granting activities to
`RegistrationsAlwaysCurrent`, a role deletion whose read fails to
`DeletedRoleAlwaysGone` (`roles` loses nothing), and that a revocation may list
several grants, some of them another's, to `AlwaysRevokedByRightful`. The results are for these instances; what is proved
is for all.

Deadlock is not checked: a service without pending activities may stop, and so
may one whose notifications are lost.

**Fairness.** Weak fairness for every step of a workflow that has been started
(Temporal keeps scheduling workflow tasks and retries activities without limit
by default), and for the handler of a revocation, which ends unless its process
does (`HandlerDies`). A run of the mirror goes on (`SyncStep`, `DeleteStep`),
some step of the handshake is taken while there is one, a forward that has been
started is answered once the requester is registered, and a detector goes on: it
is retried without limit (`workflows/access-request.ts:21-25`; the limit of three
attempts at `workflows/grants.ts:286` is for the child workflow around it, which a
failing activity does not fail). Fairness for `FailAlways` is not needed: it is
one more way for a step to be taken.
There is none for people, for recording activities, for delivering notifications
(one unrepeated POST) or for starting a sweep (nothing schedules it).

**What the models say about the code**, beside the findings in `PROJECT.json`:

* `docs/plans/access-request-tracking.md:351-353` has grant and deny exclusive and
  archiving a no-op on what is closed. Both are checked before, not when, the
  activity is recorded: they hold without two readers at once (`crossed`,
  `raced`).
* The deletion of replaced grants is commented out
  (`temporal/workflows/grants.ts:586-590`, `634-640`), so after the last
  authorization of an agent is gone its registration is cleared and its grants
  still answer in the permission engine. `OnlyAuthorized` therefore speaks of
  what was *ever* authorized. For the same reason modes of an older grant of the
  same scope may be found instead of the latest; `AuthorizedUsable` promises
  `Read`.
* `checkEquivalence` reuses nothing, so every approval changes the registration
  and the news of it always reaches the requester.
* An authorization of all of a tree fails the whole generation if the owner has
  no registration of it; a delegated grant the owner's endpoint refuses (a top
  authorization of a tree shared only as inherited, an instance the source does
  not have) stops the regeneration where it is (`GetStuck`, and `FailAlways` in
  `Regeneration`). Nothing gives up: the activity stays pending and the sweep
  starts it again beside the run that fails.
* Four places take a failure for an answer. `createAcr` swallows a failed
  discovery of the grantee's agent (`activities/grants.ts:385-388`), takes the
  grantee for an application and lets the grantor in: the registration then links
  a grant the peer cannot read, and the activity is completed. "Linked" therefore
  promises a stored grant with an access control, and readability for
  applications only (`LinkedGrantsUsable`); "in force" promises the access
  control, not whom it names. `deleteRoleFromRegistry` (`activities/grants.ts:192`),
  `deleteAdminAuthorizationAtId` (`activities/admin.ts:106`) and the look before an
  invitation is stored take any failed read for an absence: the role or the
  authorization stays and the deletion is completed.
* The throw of `createAcr` for want of peer and client (`activities/grants.ts:416`)
  cannot be reached: the lines before it set one of the two.
* `ReciprocalMirror.ts:66-69` calls the residual race of overlapping syncs (an older
  one drops a graph that a newer one has linked) "healed by the next sync". It is
  not: every later sync skips that grant as already there, since it is listed,
  until the peer unlinks it. `torn` names these grants, `CopiesMatchList` shows
  that there are no others, and `ListHeals` says what is healed: the list, and the
  graphs of all but these. The plan named there, to serialize syncs, would remove
  the race.
* Webhook channels are opened at the peer and then stored
  (`activities/reciprocal.ts:195-201`). A death in between leaves a channel nobody
  remembers, and the retry opens another: updates then arrive twice.
* The set of open requests a detector matches against is that of the whole store
  (`sparql.ts:589-612`), whoever sent them. `AccessRequests` has one requester, so
  `NewsResolves` does not cover the detectors of another.
* `matchesScope` (`authorization.ts:58-80`) throws for `Inherited` and
  `AllFromRole`, so the page that lists who has access fails on them.
* The permission engine takes the first resource that refers to an instance by
  the right predicate for its parent, wherever it is stored and of whatever shape
  tree, and throws if it is not in the parent's registration
  (`SaiPermissionsEngine.ts:309-331`). `AuthorizedUsable` excuses instances that
  another storage, or a resource of another kind by the same predicate, refers
  to, and what is below them (`Astray`); and instances for which the agent holds a
  second grant that inherits by another predicate, where the engine may look for
  the wrong parent (`Mistaken`; a TODO at `SaiPermissionsEngine.ts:267` says so).

Proving also showed that some properties, true on the instances checked before,
were false in general. TLC reproduced each on a larger instance, and the
properties now say what the code does guarantee:

* `LastPatchKept`: two overlapping regenerations that both lose the result of
  their PATCH may each take away what the other added, and add nothing.
* `LastAdminGuarded`: a removal that is completed may still be run again, by a
  late delivery or by the sweep, and then deletes an authorization that has been
  stored again in the meantime. That the removals before it are completed is
  not enough for the guard.
* `RegistrationsCurrent`: two updates of a role and a deletion can leave a link
  behind. The deletion's activity carries the members from before the first
  update, the second update finds no authorization left to regenerate for. And a
  role that is granted its own members' data is not among the grantees
  `findRoleUsage` returns (`authorization-agent.ts:366`), so those who stay are
  not regenerated when somebody joins.
* `OnlyAuthorized`: the modes of an inherited grant are given below every
  instance the asker may read, by whatever grant or as an admin, not only below
  those the same authorization selects (`findInheritedModes`). A delegated grant
  is accepted if it shares one mode with one of the owner's grants
  (`findDelegableGrant`, `sparql.ts:552-554`, though the comment above it has the
  modes covered), so its mode and its instances may come from two of them. An
  authorization that selects no instance passes on whatever the peer selected
  (`grant-generation.ts:248-253`).

## What is proved

`GrantingProofs` proves of `Granting`, for all sets of agents, roles,
authorizations, activities and runs, for any `MaxLost`, from the assumptions
named in `Regeneration` and `Granting`:

* `InvAlways`, `TypeAlways` - the inductive invariant `Inv` and the types;
* `DoneAlwaysInForce` - a completed activity is in force;
* `LinksAlwaysUsable` - a registration links only stored grants of its agent's
  with their access control, and an application can read them;
* `GrantingKeepsPromise` - granting implements `Outbox`;
* `LastPatchAlwaysKept` - overlapping regenerations do not take away each
  other's links;
* `SerialRegenerationAlwaysExact` - without overlap registrations are exact.

The argument. "In force" is about ACRs, completion about runs; between them are
legs and children. `Inv` ties each to the next: `RunsInv` (a run that is over
has completed its activity, the sweep's run is a real one), `LegsInv` (a leg
past the materialisation has stored its share; a leg that is done has done
children for everybody behind its grantee), `ChildrenInv` (a child works for a
leg that had stored its share when the child took its snapshot, so the snapshot
holds it), `GrantsInv` (of what a child has seen, all is still to do or granted
with an ACR; for an application the ACR is never blind), `LinksInv` (what is
linked comes from the children). `DoneMeansInForce` alone is not inductive: nothing in it says
that a run about to complete has children that finished. The preservation proof
has one lemma per action; the one that matters is `MarkDoneInv`, which uses
`LegsDoneInForce`. In-force-ness is never lost because no action of granting
deletes an authorization or an ACR or changes a role. For the refinement every
step is shown to bring into force at most the activity it works for
(`EffectStep`), or nothing (`SilentStep`).

The last two have invariants of their own. `LastInv`: of the children that have
patched a registration, or repeated their PATCH, the grants of one are linked or
about to be, and whoever has read the links since has read them. `ExactInv`
follows one agent whose regenerations do not overlap: at most one child is at
work (`AtMostOneActive`), a later one has seen at least what an earlier one had
(`SeesMore`, as granting only adds authorizations), and the links are those of
the last one done, one for each authorization it saw; what it had not seen a leg
still has to fan out.

`DelegationProofs` proves of `Delegation`, for any peers, source grants,
messages, requests and revocations:

* `TypeAlways` - types, and no deletion is started with nothing to delete;
* `AlwaysRevokedByRightful` - a revocation takes away what its requester has
  granted, or anything if it is the owner's, and nothing else;
* `AlwaysRooted` - every delegated right descends from a source grant;
* `AlwaysInheritingRevoked` - what inherits from a revoked grant is gone too;
* `AlwaysRevokedUnlinked` - no registration links a revoked grant.

Neither is inductive. Inheriting grants join a revocation without a check whose
they are, and a request stores its grants when those it was validated against
may be gone. The invariant adds what a request that has passed validation is
known to be (`Vetted`: both its grants are granted by the requester, to whom
something was granted before), that every stored grant is a source grant or
belongs to such a request (`Accounted`), and that a revocation holds stored
grants only (`Closing`). `SameGrantor` is what the first theorem rests on: who
inherits from a grant was granted by the same peer. The second rests on
`StoreDataGrantInv`, the one step that adds a right.

The last two are about when nothing is under way, so their invariant (`Complete`)
says who is still to do what: a stored grant whose parent is gone is in the
closure of a revocation that has yet to delete it (`Upheld`), a link to a grant
that is gone is one a revocation has yet to clear (`Linked`), and a closure that
has found its end holds the inheriting grant of every request that was not
caught half stored (`Collected`, `Uncaught`).

`ReciprocalMirrorProofs` proves of `ReciprocalMirror`, for any grants, runs,
attempts and failures:

* `TypeAlways` - types, and nothing is listed, copied or remembered that the peer
  has not issued;
* `AlwaysCopiesMatchList` - graphs and list differ by exactly the grants torn;
* `AlwaysListHeals` - a sync nobody disturbed leaves the peer's list, and a graph
  of each grant on it that is not torn.

The first is inductive: a write that changes the list by other than what it
compared with tears, or mends, what the two lists differ in, less what it adds
and drops itself. The invariant of the second says what a run knows while it
works: a clean one holds the peer's links and the list as they are, from the step
that reads them to the step that writes, so it tears nothing. That the peer may
delete and unlink at any step is why the second is about clean runs only, while
the first survives the peer.

`AccessRequestsProofs` proves of `AccessRequests`, for any requests, shape trees,
copies, screens, approvals, attempts and trouble:

* `TypeAlways` - types; only what is stored is decided, only what was sent is
  resolved;
* `AlwaysReceivedOnce` - a request that was not sent again arrives once at most,
  and has arrived when it is done;
* `AlwaysClosedOnce` - nothing is decided or resolved twice but by two readers;
* `AlwaysNewsResolves` - news of a grant resolves what it was granted for, and
  nothing is shown as granted without a grant.

The invariant has a part for each question, and each part is kept by the few
actions that touch what it is about. `InOrder`: copies take their ids in order,
so that the next id is free. `Arrivals`: of a request that was not sent again
one run posts, and once it has arrived none does. `Decisions`: a copy is on one
screen, or decided, or neither. `Claims`: an open request is found by one
detector or one page, which has not resolved it yet. `Ways`: what is known at
each step of the way of a grant, none of which is taken back (`Lasting`).
`Grounds`: what is stored was approved. The only assumption besides the bounds is
that the mark of a free copy is no request (`NobodyAssumption`).

`InvitationsProofs` proves of `Invitations`, for any accepts, ids, links, attempts
and trouble:

* `TypeAlways` - types; a leg is at a step of its activity;
* `AlwaysInvitationKept` - the link stays good, and what was accepted accepted;
* `AlwaysRegisteredOnce` - one registration and one channel a side, and one
  channel more for each forgotten, unless accepts or posts meet;
* `AlwaysReadableWhenQuiet` - nothing unreadable is left but by a death between
  two writes;
* `AlwaysDoneMeansConnected` - when all is done the two are connected.

There is first an effect lemma for each action (`PostStep`, `SubscribeStep` ...),
which says where the leg goes and what else changes. Registrations, links and
channels only grow (`Grows`), so what a leg relies on (`Informed`: its
registration is minted, found, linked, subscribed) lasts while others move, and
has to be shown for the leg that moves only. `Attended` gives every registration
without access control a leg that is about to set it, or a death. `Kept`,
`AcceptsOnce` and `InvitesOnce` do not last and are shown under their excuses: one
run stores the invitation, one accept is under way, one post at a time finds
nothing announced.

`AdminManagementProofs` proves of `AdminManagement`, for any persons, activities,
runs, registries and lost results:

* `AdminTypeCorrect` - types, and that runs, notifications and the sweep work for
  recorded activities;
* `AdminAccessCurrent` - the access control names the admins there are;
* `LastAdminStays` - the guard is enough while removals come one at a time;
* `AdminMarksAgree` - marks, grants and authorizations agree about a person, and
  where a removal failed to read its authorization only the mark is gone.

One lemma for each step of a run says where the run goes and what it leaves of
the records. Then each property has an invariant of its own. `AccessInv`: the
control is right, or a run has yet to rewrite it, or the last rewrite was late.
`LastInv`: unless a removal was hurried, one at most has something to delete, and
it leaves an authorization behind. `MarksInv`: a person that is not muddled has
one run at most, and `Adding` and `Removing` say what that run has done to the
person's records at each of its steps.

`RoleChangesProofs` proves of `RoleChanges`, for any roles, agents, authorizations,
activities and runs:

* `RoleTypeCorrect` - types, of roles and of granting beneath them;
* `DeletedRoleAlwaysGone` - a deleted role stays away but for a second run of its
  creation, an update caught between read and write, and a failed read;
* `DifferencesAlwaysOwed` - where a registration differs from the registry,
  somebody is on the way to regenerate it;
* `RegistrationsAlwaysCurrent` - when all is over nothing differs.

Granting's `Inv` is not an invariant here, since deletions take authorizations
and roles away under its legs. What is left of it (`GrantingInv`) is proved again
on the lemmas about a child's step, which hold in both. For the rest `RoleRunsInv`
ties a run to its recorded activity and `DeletionsHold` says that a run past its
`delete` finds the role gone, or back for one of the three reasons: `DeleteRole` is
the step that records whom it met and what it missed.

`RegistrationsCurrent` speaks of the end, and nothing of it holds on the way
there. Its invariant (`CurrentInv`, as long as no outdated reading is recorded) has
three parts:

* `WorkInv`: whoever started a child waits for it, one child of an agent works at
  a time, each grant is accounted for, a leg stores its own share, and a role run
  takes the steps of its activity's class.
* Debts: an agent nobody works for may miss a grant only if a leg has yet to fan
  out (`OwedByLeg`) or an update of the role has yet to spawn (`OwedByUpdate`); it
  may hold one too many only if an update or a deletion has yet to spawn
  (`OwedByDeletion`), and one over the wrong owners only if one of the first two
  or an update of the owners' role (`OwedByOwner`) is due. A child at work will make of the registration only what
  these allow (`Settled`). What a run owes depends on the step it is at: an update
  owes those who joined or left from the moment of its PUT, a deletion owes the
  members of its snapshot from its scan on. `FindSettled` is where a debt to
  whoever uses the role becomes one to whom the scan found.
* `Names`: a role that an authorization, a link or a child relies on exists or
  has been deleted, so that a creation is not noticed by anybody.

Each step pays what it takes off: `SpawnSettled` and `FanOutSettled` hand the debt
to children, `OwnStepSettled` lets a child's PATCH settle its agent, and for all
others `Steady` says that nothing owed is dropped. `CreateSettled`, `PutSettled`,
`DeleteAuthSettled` and `DeleteRoleSettled` are where the excuse for outdated
readings (`stale`) is used. It and the one for overlapping regenerations, both
found by TLC to be needed, are thus enough for any number of roles, agents and
runs.

`AccessProofs` proves of `Access`, and so of `GrantGeneration` and
`PermissionEngine`, for any authorizations, peers, shares, registries, instances
and references:

* `AccessTypeCorrect` - types, and links to stored grants of the agent's own;
* `OnlyAuthorizedAlways` - no answer gives what nobody authorized;
* `AuthorizedAlwaysUsable` - what is authorized is listed, what is listed is
  readable.

The engine's answer for an instance is a recursive function of the answers above
it, along references. `OutcomesUnfold` shows that it is defined: an answer exists
for every instance, by taking the union of all partial answers and, were an
instance left without, one with nothing of the rest above it. That is where the
assumption that references do not go in circles is needed (the engine would not
return). The invariant (`AccessInv`) keeps for every stored grant, however old,
the authorization it was made from and the peer's grants it was delegated from
(`Made`), none of which is ever taken back; and for an agent whose regeneration is
not due, that it links what would be generated now (`Fresh`). From there both
theorems follow one question through the engine: `FoundTop` and `FoundBelow` take
a grant the engine found back to an authorization, `CoversOwn` and `CoversPeers`
take an authorization to a link, `AnswersRead` and `FailsFromAbove` say what keeps
a linked instance from being readable. The assumptions are what the page and
`shareDataInstance` make of a decision (`AuthorizationAssumption`), what a peer's
agent generates (`SharedAssumption`), and that a registry has one registration for
each shape tree (`OnePerTree`).

Every invariant of the passing runs has its theorem. Only model-checked: all
liveness, which this prover does not do, and the runs that expect a violation.
Role changes delete authorizations, so the theorems of `GrantingProofs` are about
granting without role changes.

## What is not modelled

The contents of documents (JSON-LD framing, SPARQL, labels, descriptions),
HTTP, sessions, storage back ends, views, the user interface, the client library
and its examples: they keep no registry, or only carry what the models say.
A large part of the repository is of this kind, with a documentation website and
generated schemas, so the modelled lines are a small share of all lines and
most of those in which registries change. Requests to the pod are atomic. Peers
are assumed to answer or to be retried.

The grantee consumer (`processGranteeActivities`) is dormant: it serves
`AuthorizationRevoked`, which nothing records
(`temporal/workflows/grants.ts:450-455`). The event stream forgets what
nobody listens to and nothing waits for it. Each of the remaining components is
listed in `PROJECT.json` with the reason.

## Plan

1. `updateDelegatedGrants` taken apart; delegation from the requester's side
   joined to the owner's, with the orphan a repeated request leaves.
2. A second application of one social agent, and two registrations made for
   one.
3. The grantee consumer, once revocation of authorizations has a producer.
