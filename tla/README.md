# Verification of the Village control plane and desktop

Village is a self-hostable agent workspace: a cloud control plane (a Worker
with Durable Objects and a D1 database), an Electron desktop that drives a
browser on the owner's machine and runs the owner's Rituals, and a web
observer. This directory holds TLA+ models of its core, the TLC configurations
that check them on small instances, and TLAPS proofs about them for every
instance.

Paths below are relative to `src/`. `SC` stands for
`apps/control-plane/src/worker/browser-control/session-coordinator.ts`, `RC`
for `apps/desktop/src/main/ritual-builder-controller.ts`.

## Inventory

| component | state it keeps | operations | what is hard |
|---|---|---|---|
| **Browser session coordinator**, a Durable Object (`SC`, `transitions.ts`, `worker/jobs/reconciler.ts`, contracts) | control record, lease holder, alarm, accepted actions, workflow effects, receipts, checkpoint, cancellations, event log | claim, renew, expire, disconnect, reconnect, command, result, receipt, takeover, hand-back, owner progress, cancel, destroy | two connections, delayed and repeated requests, an alarm that does not know whose lease it ends, recovery of actions of unknown effect |
| **Dispatch handlers** (`worker/handlers/browser-control.ts`, `server/routes.ts`) | none of their own; D1 rows | create session, open session, dispatch command and result, workflow operation, automation sync, cancel | several awaited calls per request; D1 and the object are two stores |
| **Event projection** (`projection-outbox.ts`) | D1 projections, outbox marks | project, rebuild, observer snapshot | at-least-once batches, concurrent projectors, a rebuild of several batches |
| **Job ledger** (`worker/jobs/ledger.ts`, `worker/handlers/jobs.ts`) | D1 job row: state, version, sequence, gate | create, apply event, replay | the row's version against the coordinator's revision |
| **Pairing, device credentials** (`worker/browser-control/pairing.ts`, desktop's `pairing-*.ts`) | challenges, devices; the desktop's request and credential | issue, acknowledge, consume, reject, revoke, rotate, expire | expiry and revocation between a read and a write; answers that are lost |
| **Quotas** (`worker/limits/quotas.ts`) | two counters per window | consume, release | a pair of counters kept in two statements |
| **Retention and deletion** (`worker/retention/`) | deletion plans, tombstones | plan, execute, verify, prune | resumed erasure over many stores, concurrent creation |
| **Site-session continuity** (mailbox object, grants; desktop publisher and receiver) | hash chain of revisions, request sequences, grants | initialize, publish, fetch, acknowledge, revoke, destroy | awaits between a check and its transaction; crash before the acknowledgement |
| **Event stream, observer client** | sockets, cursor | subscribe, replay, broadcast | out-of-order and repeated events |
| **Authentication and request security** | the account's row | verify, authorize, enrol | an enrolment during a deletion |
| **Desktop delegated workflow** (controller, journal, executor, projection, local coordinator) | cursor, journal file, lease and turn, coordinator's file | step, reconcile, take over, hand back, edit, retry | restart in every phase, answers that are late, one controller driven by two callers |
| **Desktop browser host** (`app-window.ts`, control transfer, viewport, render recovery) | the window's phase, controller, shield, executor | open, take over, hand back, forget, cancel, lose a renderer, close | awaits during which another request changes who is in control |
| **Session erasure on the desktop** (`session-erasure*.ts`, `pending-session-erasure.ts`, `profile-protection.ts`) | profile directory, lock file, pending removal | request, confirm, stage, remove, complete at start | restart half-way; a window closed meanwhile |
| **Rituals** (repository, scheduler, controller, executor, contracts) | one private file: revisions, runs, schedules, tests, proposals, decisions, receipts | tick, claim, start, drive, cancel, reconcile, complete, test, propose, approve, decide, restore, evict | crash between claim and acknowledgement, three queues, calls that read, wait and write |
| **Ritual Builder in the renderer** (`RitualBuilderWorkspace.tsx`, `ritual-builder-state.ts`, `ritual-builder-window.ts`) | the phase shown, what is awaited, generations | draft, approve, test, run, learn, decide, restore, select, schedule | answers of overtaken questions |
| **Gmail connection** (controller, token store, card) | refresh token in the vault, access token in memory, epoch | connect, disconnect, refresh, lend | awaits over a serialized vault; what Google still accepts |
| **Secrets, step-up authentication** | vault file, one-use verification | get, set, remove, verify | a failure of one operation in a queue |
| **Updater** (`update-runtime.ts`, adapter) | staging root, candidate, platform's updater | check, download, verify, stage, agree, install | two checks over one directory and one platform updater |
| **Research and model providers; web, UI, fixture, scripts, spikes** | - | adapters and rendering | - |

### How the parts interact

```
 owner's browser (web) --cancel, project, rebuild--> routes.ts --+
                                                                 |  RPC, one object per session
 desktop (Electron) --open, command, result, workflow,           v
   automation-sync--> routes.ts -> handlers/browser-control.ts -> BrowserSessionCoordinator
     |                                  |                            | events + outbox
     |                                  v                            v
     |                                 D1 <--- projection-outbox.ts (project, rebuild)
     |
     +-- main process: app-window --- executor, viewport, profile (disk), updater
           |                \-------- delegated workflow: controller, journal, coordinator's file
           +-- ritual runtime: scheduler --> controller --> executor --> Gmail, research
           |                         \________ repository (one file) ___/
           +-- builder's window <--IPC--> renderer (RitualBuilderWorkspace, Gmail's card)
```

* A Durable Object runs one method at a time and commits each in one storage
  transaction. Between two of its methods anything may happen; within a
  request's handler every D1 statement, D1 batch and object method is an await.
* D1 and an object are two stores. Nothing spans them: a handler that writes
  both may stop in between, and another request may come in between.
* A desktop holds a copy of what it last read (epoch, cursor, revision,
  checkpoint) and its requests are delayed, repeated and reordered by the
  network. The owner holds one too (the observer's snapshot).
* The object's alarm is set by claims and renewals and fires at least once, on
  whatever state it then finds.
* The main process of the desktop is one thread: what runs between two awaits
  is atomic, and everything else interleaves. Files are replaced by a rename.

### What makes each part correct

| component | properties |
|---|---|
| Coordinator: lease | an epoch has one sender; a holder exactly while the agent controls; the alarm follows the lease and never strips a live one; an expired lease does not block the session; the stored record always parses |
| Coordinator: recovery | retained actions stay recoverable; no lease over an unknown effect before the owner has decided; reconciliation is idempotent and never retries a dispatched mutation |
| Coordinator: workflow | one effect per step and one step per effect; one performer and one receipt per effect; a hand-back writes no phase that the receipts contradict; one cancellation per revision, and none of its commands afterwards |
| Handlers and job row | one coordinator per job; a version names one content of the row; a canceled job is not put back to work |
| Projection | an acknowledged event is in D1; repeated and late pages converge to what the log implies |
| Pairing | a challenge is consumed once, never after its expiry or a rejection; a revoked device is never active again |
| Quotas | the principal's counter is the number of calls let through, except for calls between two statements, or cut there |
| Deletion | after a verified erasure no store holds an object of the principal that it knew of; a planned deletion ends |
| Continuity | revisions form one chain, which a restarted source continues and never forks; nothing is acknowledged before its cookies are flushed; what has expired goes without a request |
| Desktop workflow | a stopped turn sends nothing; an action in flight holds its own lease; a finalization of unknown outcome waits for the owner |
| Browser host, erasure | input reaches the page only while the owner controls it; a window that forgets is fenced; a forgotten profile is never opened again |
| Updater | what is ready to install is genuine and newer than what runs |
| Gmail | a disconnected account reads no mail; no token of a withdrawn connection stays stored |
| Rituals: runs | a due occurrence is claimed once, run and acknowledged; one run open at a time, which something attends to; a receipt exactly for what was reviewed; the file always parses |
| Rituals: learning | a learned revision is what a proposal for the one before it says, may do no more than the first, and is never one the owner declined |
| Builder | all that is shown is of one revision; a result being saved is waited for |

## Modules

| module | models | extends or instantiates |
|---|---|---|
| `BrowserControlState` | the control record, the six refinements of its schema, the transitions of `transitions.ts` as a guard and a result each, the admission test of a command | - |
| `Reconciliation` | `worker/jobs/reconciler.ts`: what a reconnection makes of the retained actions | `BrowserControlState` |
| `LeaseGrants` | abstract: one grant at a time, epochs that grow, dispatches by the current owner only | - |
| `LogicalEffects` | abstract: a step is bound once, performed by one action, receipted once | - |
| `SessionCoordinator` | the Durable Object (`SC`), one action per method | `Reconciliation`; `LeaseGrants` and `LogicalEffects` as refinements |
| `HandBack` | the coordinator and the desktops that hand control back: the automation sync call by call, then the report | `SessionCoordinator` |
| `EventProjection` | `projection-outbox.ts` against the event log, call by call | `LogicalEffects` as the coordinator |
| `SessionLife` | creation, opening and cancellation over D1 and the objects, call by call | - |
| `Continuity` | the mailbox object, the grant's row, the two devices' journals and sequence store, and the requests between them | - |
| `Pairing` | challenges and devices in D1, the desktop's ceremony, the retention of challenges | - |
| `Quotas` | the two counters of one minute, statement by statement | - |
| `AccountErasure` | the deletion of an account over D1 and the objects, against what creates them | - |
| `ActionJournal` | the desktop's evidence of dispatch, an append-only file with checked transitions | - |
| `OwnedFixture` | the page the delegated workflow works on | - |
| `ProofCoordinator` | the desktop's own coordinator and its file | `OwnedFixture` |
| `DesktopWorkflow` | the delegated workflow's controller, executor and projection, await by await | `ProofCoordinator`, `ActionJournal` |
| `BrowserWindow` | the browser workspace over the lives of its process: control, transfers, forgetting, profile and lock on the disk | - |
| `DesktopUpdate` | the updater's checks, the order of versions, the staging root, the platform's updater | - |
| `GmailConnection` | connect, disconnect, refresh and lend over the vault's queue, and the card that asks | - |
| `RitualRun` | the record of a run, its reducer and the executor's answers | - |
| `RitualStore` | the file of a Ritual and the operations of its repository | `RitualRun` |
| `RitualRuns` | scheduler, controller, drives, shutdown, crash and restart | `RitualStore` |
| `LearningAuthority` | what a definition may do, and the code's test that a learned one may do no more | - |
| `RitualLearning` | tests, proposals, approvals, decisions, restorations and evictions | `RitualStore`, `LearningAuthority` |
| `RitualBuilderState` | the renderer's reducer | - |
| `RitualWorkspace` | the builder's window: renderer, main process and the calls between them | `RitualBuilderState` |
| `MC...` | what the runs of a module need: symmetry sets, constants that are not names, the exploration limit. `MCSessionRows`, `MCAccount` and `MCDesktop` hold parts that share no state, and each behaviour is of one part | the modules concerned |
| `...Proofs` | theorems; see "Proofs" for which module holds which | the modules they are about |

### `SessionCoordinator`

State and columns correspond one to one: `control` is `control_state.state_json`,
`holder` its `holder_connection_id`, `eventSequence`, `lastResultSequence` and
`jobRevision` are columns of `session_metadata` (0 stands for NULL in the
last), `actions`, `effects`, `receipts`, `checkpoint` and `cancellations` the
tables of those names, `alarm` the object's alarm and `clock` its `Date.now()`.
`grantedEpoch` and `dispatched` are history, written with the claim and the
acceptance of a command and read by the refinement only.

An action is one successful call: its guard is the conjunction of the method's
checks, in the code's order where that matters, and a refused call is no step.
A request reads the clock when it enters its route and calls the object some
D1 reads later: `now` is any of the last `MaxTransit + 1` instants. Connection,
epoch, cursor, sequence and revision of a request are arbitrary earlier
values, which covers delay, repetition and reordering.

An owner's report may name any phase (`OwnerPhases` bounds which): the
coordinator stores it without looking at the row's phase or at the receipts,
and a test of the repository reports RECEIPTED for an effect without a receipt
(`jobs/__tests__/owned-fixture-workflow.worker.test.ts:378`). The phase of an
effect is therefore nothing this module makes a claim of, and `LogicalEffects`
leaves it out: what is bound, what performed and what receipted rests on none.

### `HandBack`

What the rows then say of receipts depends on who reports. The desktop's
`handBack` reports the phase that an automation sync answered, and the Worker
puts that answer together from four calls it awaits one by one: the epoch comes
from the first, the phase from a later one, the cursor from the last. `reads[r]`
is the sync r between two of them (`pc` names the call it makes next) or, at
ANSWERED, the desktop between the answer and its report. Any call of anybody may
come in between. Every report of this module is made from one such answer;
desktops that answer from a cache are under *What the code does not keep*.

### `EventProjection`

`log`, `projectedSequence` are the coordinator's events and outbox mark;
`eventRows` and `tables` are the D1 tables the batches write, each statement
with its upsert's conditions (`WorkflowStatements` is the function of the same
name). A request is at one of its awaits (`pc`) with the page it has read; it
may be abandoned at any of them. `tables = Expected(n)` compares with what the
first `n` events say, defined from the log alone and not by replaying the
statements. `rebuilds` and `overlapped` are history: a rebuild deletes in one
batch and inserts in others, so that what is claimed of the tables depends on
whether one was abandoned, or overlapped another request.

### `SessionLife`

`job`, `jobEvents`, `rows`, `deviceActive` are D1; `coordinator` is what these
requests read and write of each object. A request's `at` names the call its
handler makes next; `RequestStops` is the eviction of the Worker, or the
failure of a call, after any of them. The D1 batches keep their primary keys
and the unique index of migration 0006: `RowsCollide` and `3 \in jobEvents` are
the cases where they fail as a whole. `LeaseEnds` stands for every fence that
`SessionCoordinator` models in full.

### `Continuity`

One grant. `grant` is its row in D1, `mailbox` the object's tables and alarm
(`destroyed` is the flag in its memory, which `Evict` forgets), `source` and
`destination` are the two journal files, the sequence file (`reserved`), the
browser profile and what the device's process is doing. A revision is named by
its digest, the position at which it was minted; the cookies in it matter only
as those of that revision, and `profile.whole` says whether they are all set
and flushed. A request goes through its awaits: sent, read against the row
(`Route`, which also takes the instant the mailbox will compare with), checked
by the mailbox before its signature is verified (`Admit`), then the rest of the
method in one transaction (`Store`, `Serve`, `Acknowledge`). A device whose
process has stopped no longer waits for its request, which goes on by itself.

Refusals that depend on signatures, bindings or clocks that differ are left
out, as are the limit of 20 revisions per synchronization, cookies that expire
on their own, and the enrolment of recipient keys. The destination's chain has
one grant: two grants between the same two devices share the sequence store,
which only adds to what is said of resuming below.

### `Pairing`, `Quotas`, `AccountErasure`

A handler of several statements is a call with a place; a handler of one
statement is one action that takes its instant when it starts, so that it may
run under an instant at which something had not expired yet. `Pairing` holds
the tables of challenges and devices and what each desktop remembers of its
ceremony; a desktop whose answer is lost retries with what it kept.

`Quotas` is one budget: a kind of request in one minute. Rows of another
minute are other rows. `allowed` and `lost` are history: the calls let through,
and the counts of calls cut between their statements. A device's statement that
fails may have counted the call all the same.

In `AccountErasure` the objects outlive their rows and the reverse: `rows` and
`grants` are D1, `coordinators` and `mailboxes` what each object is, PRESENT,
WIPED (its tables dropped, its instance still in memory) or ABSENT. `handlers`
are the calls in flight, those of the deletion and those that create what it
deletes. `told` is history: what was created with no deletion under way.

### `DesktopWorkflow` with `ActionJournal`, `ProofCoordinator`, `OwnedFixture`

`co` and `disk` are the local coordinator's memory and file, `fx` the fixture's
service, `page` the step its page was loaded for, `journal` the file of
`action-journal.ts`, `exec` the executor (lease, fence, action in flight),
`ctl` the controller (binding, generation, budgets), `ui` the projection. The
controller has two callers, the projection's pump and the owner's commands:
`th` says for each at which await its call is suspended, and only what the code
serializes is serialized here. A fault is a process that dies at any await, a
write that fails or an answer that is lost. The fence and the snapshot it
decides on are one step, for the local coordinator answers both from memory.

`Ops` are the owner's commands in flight. `OneCommandAssumption` says that there
is at most one: the window offers no command before the one it sent is answered
(`pendingAction`, `DelegatedWorkflowCard.tsx:176`). A window whose renderer is
lost and loaded again has forgotten its command; that is not modelled. `alone`
is history: whether the pump stood still when a retry was given, which the owner
cannot tell (see "What the code does not keep").
`QuiescedIsQuiet` is about the page: while the owner has it nothing of the agent
is under way. `InFlightHoldsItsLease` is about the journal, which drops its
oldest entries: an action on the page runs under the lease of *every* entry kept
for it, unless a takeover or fence came since. `UnknownFinalizeWaits` is about a
lost answer: a retry by itself never sends the finalization again.

### `BrowserWindow`

`process` is the running application and its life, `windows` every window it or
an earlier life opened, with the fields of `DesktopBrowserUiState`, the
executor's fence, the shield and whichever request is suspended in it, `saved`
what the disk keeps: the profile's directory, the lock file with the process
that signed it, the pending removal. A closed window's requests go on, as the
promises do. No action of the agent is in flight in a window (the packaged
application dispatches none yet), so that a takeover quiesces at once.

### `DesktopUpdate`

`checks` are the checks of this life, each with its own service and candidate
directory under the one staging root `directories`; `platform` is what Squirrel
fetches and what it will install. Versions are compared by the code's rules
(`IdentifierAbove`, `CompareVersions`); the property speaks of places on a
`Ladder` of releases, which `LadderAssumption` requires to be in the order
SemVer gives them (`Precedes`, said without the code's comparison part by
part). A server may answer any announcement of any archive; a signature is
genuine or not.

### `GmailConnection`

Connecting, disconnecting, refreshing and lending are calls with awaits. The
vault carries out one operation at a time, in the order they were asked for,
and may fail one, which leaves the file as it was. `epoch` is
`credentialEpoch`. A grant is named by the number of the connection that
obtained it. The ceremony of connecting (loopback, browser, exchange, profile)
is one phase, for its awaits touch nothing that is shared; a status read is one
step. What Google still answers for is external.

### `RitualRun`, `RitualStore`, `RitualRuns`

`RitualRun` is the record of a run with its reducer: a step is its index, texts
and instants are left out, evidence is whether a search was recorded, whether
it found a source and whether a report was written. `RitualStore` makes each
operation of the repository a function of the file, which reads, checks and
replaces it by one rename, in the order of the repository's queue.

`RitualRuns` has three queues that interleave. A step is one repository call,
or several that have no effect of another between them. `task` is the operation
of the controller's queue in service, `tick` the scheduler's tick, `drive` the
entries of `activeRuns`; drives, and approvals of revisions, wait in no queue.
A crash loses what is in `volatile` and keeps `store`; a write may fail at any
call. `lost` and `lastClaim` are history.

### `LearningAuthority`, `RitualLearning`

`LearningAuthority` keeps of a definition the fields that grant something.
`IsNoBroader` is the code's test, translated clause by clause; `MayDoNoMore`
compares, without it, what runs of two definitions can do: steps, those without
a gate, searches, messages. In `RitualLearning` a test, a proposal and
an approval read the file, wait and write, in no queue; a restoration, a
decision and a run's completion take turns in the controller's. What the
provider proposes is any definition of a small set.

### `RitualBuilderState`, `RitualWorkspace`

The reducer is one operator for each event. `service` is what the main process
stores, `view` what the renderer shows, `calls` the calls between them with the
three numbers that decide what becomes of an answer: the renderer's generation
(`live`), its automation mutation (`fresh`) and the main process's selection
epoch (`current`). A Ritual's identity is its number. Calls arrive in the order
they are sent in, answers in the order they are given in, and late. One field is
history: `view.stranded`, whether a draft lost its answer to a save (see *What
the code does not keep*).

## Runs

| run | question | instance |
|---|---|---|
| `lease` | Do claims, renewals, takeovers, cancellations, disconnects, late requests and the alarm keep the lease exclusive, its alarm right and the session live? | 2 connections, 2 actions, leases of 2 ticks, requests up to 1 tick late |
| `hand_back` | Can a hand-back, which reports what a sync read call by call, undo a receipt or make one up? Can results, receipts and reconnections in any order corrupt a retained action? | 1 action, 2 effects, results of all 6 statuses, 7 events, 1 sync at a time |
| `workflow` | Are effects bound, performed and receipted once, and canceled revisions fenced, through takeover, stale commands and reports of any phase? | 2 steps, 2 effects, 2 actions, 2 cancellations, 8 events, reports of ACCEPTED and of RECEIPTED |
| `session_rows` | Do concurrent creations, openings and cancellations of one job keep its two stores consistent? Do interleaved, repeated and abandoned projections and rebuilds converge? | 3 requests, 2 sessions, 2 cancellations; 2 requests, pages of 2, 4 events |
| `continuity` | Do lost, late and repeated requests, restarts, revocation, deletion and expiry keep source, mailbox and destination of one chain? | 2 requests, 2 revisions of 1 tick, a grant of 2 ticks, 4 sequences, 1 disturbance |
| `account` | Do credentials live once, do budgets balance, does a deletion end and leave nothing it knew of? | 1 desktop, 2 challenges, 2 consumptions; 2 devices, 3 calls; 2 sessions, 1 grant, 1 plan, 2 calls at a time, 1 cut |
| `ritual_runs` | Do runs, schedules, receipts and evictions stay consistent whatever the owner, the scheduler, crashes and failed writes do? | 3 runs of 2 steps, the first with a gate, in a file for 2; 2 faults or interventions |
| `ritual_service` | Is a claimed occurrence served, and does a quit end? | 2 runs, the second step with the gate, 1 fault or intervention, under `FairSpec` |
| `ritual_learning` | Does learning keep its lineage, its decisions and its bounds? | 2 calls, 4 records, 5 definitions |
| `desktop` | Does the desktop keep owner and agent apart, forget what it was told to forget, install only what is newer and keep no withdrawn grant? | see `desktop.cfg` and below |
| `builder` | Is what the builder shows of one revision, and is what it saves waited for? | 2 calls, 1 stored Ritual, 1 new, 2 questions to the Steward |
| `disconnected` | finding: a disconnected account reads no mail | as `desktop` |

Every passing run explores its whole state space within five minutes.

**Bounds.** *Coordinator.* `MaxClock` is the last instant and no lease expires
later, so that the lives of leases end within the model. `MaxTransit` is one
tick against leases of two: a request can be late enough to find its lease, or
its claim, expired, and one more tick adds no other order. `MaxEvents` bounds
the calls of clients only: alarms, the clock and the destruction of the session
remain possible at the bound, which liveness needs. `MaxSequence` and
`MaxRevision` leave room for a repeated, a stale and a fresh value of each.
`Classes` and `Statuses` select which commands and results a run sends, so that
the lease run does not pay for recovery. Two steps are enough for every test of
the effects table, which compares a row with one other. The workflow's receipts
and bindings do not depend on a phase but for RECEIPTED, so that one other phase
stands for the rest. In `hand_back` seven events hold a workflow, its command,
a receipt, a takeover and two reports around them; one sync at a time meets
every other call, and that two do no more together is left to the theorem.

*Rows.* Two pages of two events let a projection be overtaken by another within
a page and across pages; `SomethingClaimed` stops the exploration where a
rebuild has overlapped another request, a state nothing is claimed of and that
is never left. `SessionLife` needs no counter: versions move once by creation,
once by opening and once per cancellation.

*Continuity.* A revision lives shorter than the grant, as in the code, and both
end within `MaxTime`; two revisions are a chain, and four sequences let both be
fetched and acknowledged. `MaxDisturbances` counts lost and repeated requests,
stopped processes, evictions with a request inside, devices that lose their
credential. With one of them at any point, a request abandoned by its device
still reaches the mailbox after the next one.

*Account.* Two challenges and two consumptions of one desktop let one be
expired, rejected or consumed under the other. One budget with a limit of two
and three calls of two devices reaches both refusals. The erasure begins with
one session; one more session, a grant, an enrolment and a second confirmation
meet it, two calls at a time and one of them cut (a plan is confirmed by one
call at a time, and a grant is asked for again only after its call was cut).

*Desktop.* The workflow has two steps, four commands of the owner given one at
a time, and two faults; the workspace three lives of the process and two
windows; the updater two lives and two checks; Gmail two connections, two
disconnections, two reviews, one failure of the vault and one reopening of its
window. Each is the least at which every property has a mutant that needs
several actors, and each part is explored exhaustively.

*Rituals.* Two runs suffice for a claim to be replayed over a second one, and a
file for two runs by its bytes makes the third one of `ritual_runs` evict
(without its receipt leaving too, `ReceiptIffReviewed` fails in sixteen steps);
the evictions of longer files are `EvidenceIsKept`'s and `RitualRunsProofs`'.
`MaxDay` of 1 leaves two days, enough for an occurrence claimed on the first to
be served on the second; that occurrences grow over any number of days is
`ClaimsGrow`. Two learned
revisions above the first make a chain; numbers up to 2 and three domains let
each clause of the test alone decide. In the builder, two calls at a time are
the most that a property's counterexample needs; a third slot adds states, not
orders of two answers.

**Symmetry** is used for safety properties only; `lease`, `account`,
`ritual_service` and `desktop` have none.

**Deadlock** is not checked: clients owe the system nothing, a session may go
quiet or be destroyed, an owner may stop, and a bounded log fills up. That
nothing waits for ever is asked where something is owed, by the liveness
properties.

**Fairness.** `SessionCoordinator!FairSpec`: weak fairness of `AlarmFires` (the
platform runs a due alarm at least once, retried on failure) and of `Tick`; no
client is assumed to do anything. `RitualRuns!FairSpec`: the steps of an
operation in service are taken (weak); an operation that waits in the
controller's queue, which is first in first out, gets its turn (strong, for
what is before it enables and disables it); a drive's executor answers, by its
providers' time limits. Nothing is assumed of the owner, of failures or of the
clock. `AccountErasure!ErasureFairness`: the platform serves a call it took and
evicts idle objects; an owner who planned a deletion goes on confirming it
until a confirmation is answered as completed.

## What the code does not keep

**`disconnected`.** `disconnect` moves the epoch and aborts the refresh under
way, then waits for Google for up to five seconds. A review begun meanwhile
starts a refresh of the new epoch, from the token that is still stored; nothing
aborts it and nothing clears what it puts in memory, so a review after
DISCONNECTED was answered is lent a token of the withdrawn grant. The dialog
the owner confirmed says that such reviews wait
(`ritual-builder-window.ts:279`).

Observed while modelling, without a run of their own.

*Coordinator and rows.*

* A claim served at or after its own expiry is granted but sets no alarm
  (`SC`:584); nothing fences the lease until another call does.
* The coordinator stores any phase an owner's report names (`SC`:1045), so that
  RECEIPTED in its table, in D1 and in the observer's view is no evidence of a
  receipt; `receipts` is. A paired desktop reports from a cache
  (`desktop/src/main/paired-proof-coordination.ts:66`): a sync that was under way
  during a takeover is kept with its old epoch, its phase is then not taken over,
  and the hand-back reports under the takeover's epoch and cursor the phase the
  desktop knew before. If that was before a receipt, and the refresh that follows
  a receipt failed (`:58`), the report sets the receipted effect back. This is
  from reading; `HandBack` has no cache.
* A canceled session can be opened again and accepts commands; only those of
  the canceled *revision* are refused.
* A late result moves a receipted action's phase back (`SC`:2154), and a page
  applied after later events moves an effect's phase in D1 back, for good.
* Opening a session moves the job's row to version 3 and leaves the
  coordinator's revision at 2. The observer shows, and the route requires, the
  first; the coordinator requires the second: from then on every cancellation
  with a body is refused as stale, and no property of the two revisions is worth
  stating while this is so. In the other order the projection of the
  cancellation finds no row to write.
* RECOVERY_REQUIRES_USER (`SC`:545) names an exit that does not exist: the
  owner can return control only from USE. An effect accepted under an earlier
  epoch can never be receipted (`SC`:786).
* A replayed command of a receipted effect sets its projected phase to ACCEPTED
  even in order; `canonical_action_id` in D1 may name an observing action; the
  row of a checkpoint that was stored as sent shows the sender's phase.
* A rebuild that overlaps a projection can lose an acknowledged event for good,
  and a torn one makes later batches fail on the foreign key of
  `action_receipts`.
* An opening's batch inserts event 3 of the job even if its update finds the
  row moved; a creation stopped after its batch leaves a job that can be
  neither opened nor created again.

*Continuity.*

* Every start of a destination acknowledges the revision its journal holds. The
  mailbox has removed it when it is a day old and refuses; the client throws
  before it fetches anything newer, and has used up a sequence number, which by
  itself is refused from then on. A single lost fetch or acknowledgement ends a
  grant in the same way.
* A publication not stored within a day is refused for good, and the source
  sends nothing else; a revision that expires before it is fetched leaves a gap
  the destination never crosses; the mailbox of a grant deleted while it is
  being created may be initialized after the deletion, and stays until its
  alarm.

*Account.*

* A challenge rejected between the read and the batch of its consumption still
  leaves an ACTIVE device. An answer of a consumption that is lost, or a restart
  before the session is attached, leaves an active device that the same key can
  never pair again (DEVICE_CREDENTIAL_CONFLICT).
* The second of two quotas that refuses does not give back the first
  (commands, then retained records); the branch for a device that is full is
  reached only in a minute begun before migration 0007.
* `destroy` of a coordinator whose tables are dropped raises until its instance
  is evicted; a session created, or an account enrolled, after the deletion has
  read what there is keeps its object; a grant inserted between the two DELETE
  statements makes the call raise and be retried.

*Desktop workflow.*

* An action whose acceptance is written across a fence and a hand-back is
  carried out under the new lease.
* A finalization can be sent a second time by a retry. A switch of task between
  the publication of a hand-back and its `startPump`, which first awaits the pump
  that still runs (`desktop-delegated-workflow.ts:76`, `:151`), lets a pump run
  under OWNER_CONTROL. When that pump fails, FAILED is shown; the second
  hand-back's `startPump` starts another pump while FAILED is shown, so that
  RETRY is offered and `reconcile` runs beside `runOnce`. With evidence read
  before the pump sends the finalization, the retry sends it again, which R11 of
  `docs/plans/2026-08-13-001-feat-delegated-fixture-workflow.md` excludes. It
  takes six commands (start, task switch, hand back, task switch, hand back,
  retry); the run `desktop` has four. A proof of the unconditional property
  failed at this step, and TLC with six commands shows the behaviour. What the
  code does keep is the property for a retry that finds no pump running.
* A late receipt uses the binding at the time of the call and can complete the
  next step locally. Its error path records RECONCILIATION_REQUIRED without the
  READ_ONLY class: ACTION_JOURNAL_BINDING_CONFLICT.
* A hand-back by the owner at the last step completes it whatever the profile
  holds (`delegated-workflow-controller.ts:466`); a MISMATCH the owner accepted
  makes FINALIZE refuse PROFILE_INCOMPLETE for ever; an edit after the
  finalization makes the fixture's file unreadable at the next start
  (FIXTURE_STATE_CORRUPT).
* A step completed twice makes `completedEffects` longer than the list of steps
  and `terminal` false.

*Browser host, erasure and updater.*

* A cancellation or a renderer's loss during a hand-back's reload leaves the
  executor unfenced though the job is CANCELED or WAITING, and the owner with a
  shielded page and no offered way back until a restart.
* COMPLETE is shown before the absence of the profile is checked; a staging
  that fails after its rename conflicts with the record that still says PRESENT
  until a restart.
* A forgetting begun in a window that was closed clears the storage under the
  next window, which may go on showing the profile just acknowledged as
  forgotten. A removal still pending is completed by the next opening in the
  same process, which still holds the profile open
  (`pending-session-erasure.ts:117`), and takes no lock.
* A crash between the creation of the lock file and the write of its process id
  leaves a lock nobody can sign for: PROFILE_IN_USE for ever. After the loss of
  the remote renderer nothing marks the connection ONLINE again.
* With two checks in one process the version the owner agreed to may not be the
  one `quitAndInstall` applies; a second check removes the first one's
  candidate; each reopened workspace adds an error listener.

*Gmail.* An `invalid_grant` of a refresh removes whatever token is stored by
then, as no epoch is compared; a disconnection that waited for Google may
remove the token of a connection completed meanwhile, CONNECTED being shown; a
401 does not clear the access token; a refresh whose read fails leaves its
timer running.

*Rituals.*

* An occurrence claimed before the owner pauses its schedule is run all the
  same (`RC`:546), which the panel's text denies and a test expects
  (`ritual-builder-controller.test.ts:1082`). A pause cannot tell an
  acknowledgement that has the instant of the claim.
* The open run of an older revision is reconciled by no load;
  `scheduler.close` waits for the tick's run, which only the controller's close
  would abort.
* The guard of a restoration looks at the last Ritual of the file; an older
  undecided proposal of the same revision can be approved after the last one
  was rejected; a learned definition may use a step's key twice, which the
  schema of runs refuses, so that its revision can start none; OFF as the
  policy of learning is compared and never consulted; a step with an owner's
  gate may be dropped by a proposal.
* In the builder, the answer to the approval of a learned proposal moves the
  generation whatever is shown when it comes (`RitualBuilderWorkspace.tsx`:863).
  If the owner has meanwhile opened another stored Ritual and begun a new one,
  the draft being shaped loses its answer (`:536`) and is shown as being shaped
  for good; as an unsaved draft it also keeps the owner from switching
  (`:145`). The instance of `builder` has one stored Ritual, where this cannot
  happen.
* In the builder, a selection that fails has already moved the generation, so
  that a test, a start, a new Ritual or a decision waits for an answer that is
  dropped; a restoration overtaken by a switch that then fails is stored and not
  shown; a schedule shown after an overtaken selection may be another Ritual's;
  typing a field's first value again leaves its error set.

## Proofs

All theorems hold for every value of the constants that satisfies the named
assumptions (counts are natural numbers, "null" values are outside the sets
they stand for); none assumes a bound on connections, actions, sessions,
requests, events, runs or time beyond those parameters.

| module | theorems | argument |
|---|---|---|
| `SessionCoordinatorProofs` | of the operators: `TransitionsKeepSchema`, `RecoveryKeepsSchema`, `ReconciliationIdempotent`, `DispatchedMutationNeverRetried` | by cases on the transition. The six refinements alone are *not* preserved (a QUIESCING record with an expiry would be turned into a USER record with one); the proofs carry the strengthening that only an agent has an expiry |
|  | of the coordinator: `TypeCorrect`, `ControlParses` | `TypeInv` = types plus the strengthened schema, one lemma per group of methods |
|  | of the lease: `GrantsGiveOneSender`, `HolderFollowsControl`, `AlarmFollowsLease`, `AlarmNeverEarly`, `CoordinatorImplementsGrants`, `OneConnectionPerEpoch` | In the abstract lease no two connections send under one epoch. `LeaseInv` ties holder, alarm and the epochs of the history to the control record; every method maps to a grant, a revocation, a dispatch or a stutter; the last theorem comes through the refinement |
|  | of the workflow: `RecoveryNeverCorrupt`, `CancellationFences`, `CoordinatorImplementsEffects` | all lemmas are of `AnySpec`, in which a report names any phase, so that they serve `Spec` and `HandBackSpec` (`SpecIsAny`, `HandBackIsAny`). `WorkflowInv`: no two steps carry one effect, and the binding of a retained action names the step that carries it (an action keeps its binding as long as it is retained, also through results and reconnections). `RecoveryNeverCorrupt` needs only that each call leaves an action whose phase and result recovery accepts. `CancellationsPassed`: the revision a cancellation named is below the coordinator's. The refinement maps each method to a binding, a performance, a receipt or a stutter |
|  | of `HandBack`: `ProgressIsReceipted`, `HandBacksRecoverable` | `HandBackInv`: while the user has control, what a sync read at the current epoch agrees with the receipts (`Faithful`). Two facts carry it. Control passes to a user only by a takeover, which starts an epoch, and no record is left quiescing (`ControlMoves`), so that what was read at the report's epoch was read after the takeover; and an effect is receipted only for the holder, hence while the agent has control (`RowsMove`). `ReceiptsMatchEffects` by itself is not inductive: it needs both these and `WorkflowInv`, since a receipt marks the row that carries its action's effect |
| `SessionRowsProofs` | of the projection: `ProjectionTypeCorrect`, `AcknowledgedIsProjected` | `AckInv`: a page already written has its rows, rows below the mark are there, a rebuild that runs alone covers the log it read; that a page starts at an existing event is the strengthening the type needs |
|  | of the projection: `TablesConverge` | between two requests the tables are *not* what the log implies, since a page may be written again, after later ones and in part. `Tells(t, i, n)` says what remains true: the first n events have been applied, each perhaps repeatedly, and nothing the first i told has been undone since. An event applied in its turn moves i (one lemma per kind of event), where i and n are the log's length the tables are the expected ones (`FinalTables`), and a rebuild holds exactly what a prefix of the log implies. `LogTrue`: every event tells what the coordinator holds: a receipt has its action's acceptance before it, of the same step. Statements over the events of a page or of the log are proved by their least counterexample (`LeastExists`) |
|  | of `SessionLife`: `LifeTypeCorrect`, `OneCoordinator`, `CanceledStays`, `VersionsCount`, `RevisionGrows`, `RevisionCanceledOnce` | `RowsInv`: whatever a request or an object holds is backed by the one row of `browser_sessions`, which the job names. `CancellationsCounted`: an accepted cancellation has moved its object past the revision it named, so that a second one of that revision is refused whatever identity it carries |
| `ContinuityProofs` | `TypeCorrect`, `GrantHasItsMailbox`, `AlarmIsSet`, `RetainedStaysChained`, `SourceNeverForks`, `AcknowledgedWasFlushed` | `CallsBacked`: a call of the owner that is half done is backed by what row and mailbox can no longer become. `LaterExpiresLater`: expiry removes a prefix of the chain, never its middle. `SourceInv`: since the journal keeps a revision from before it is sent, all revisions ever made are one chain, number and digest coincide, and the mailbox is never behind the journal. `DestinationInv`: the profile is ahead of the journal by at most the revision being applied, the journal ahead of every acknowledgement on its way |
| `AccountProofs` | of `Pairing`: `PairingInvariant`, `CredentialsLive` | `PairingInv`: what a consumption read is still true at its batch: the challenge exists, and one about to insert a device was confirmed once (the mark outlives the state, so that an expiry, a rejection or the retention in between does no harm). The action property is then by cases on the five steps that write a device |
|  | of `Quotas`: `QuotaInvariant`, `BudgetIsKept`, `LimitsAreKept` | `QuotaInv`: the balance itself, types, and that a device's row covers what the device was allowed. Only finitely many calls are counted at any time, however many there are; a call counted and undecided makes the principal's count positive, so that the guard of the release never swallows one; with the balance, the limit tested on two counters bounds the calls let through |
|  | of `AccountErasure`: `ErasureInvariant`, `ErasureVerified` | `ErasureInv`, along the deletion's own order: an object the owner was told of, and that still stands, is named by a row; a deletion that has listed rows has all such objects in its lists, and none stands when a list is empty (`ListsCover`). While a deletion is confirmed nothing new is told (`NoneIsAlone`), so that what it owes stays what it was; a call that takes a grant's row away has destroyed the mailbox before (`DestroyedFirst`) |
| `DesktopProofs` | of `GmailConnection`: `GmailInvariant`, `WithdrawnGrantsAreGone` | `GmailInv` speaks of the vault's queue: the connection under way has one operation in it, the one its phase waits for, and every disconnection that began while the token was being stored stands behind it (`StoreIsAhead`), while one begun earlier aborted the ceremony (`WithdrawalAborts`) |
|  | of `BrowserWindow`: `WindowInvariant`, `InputStaysOwners`, `ForgettingFences`, `ForgottenIsNotShown` | `WindowInv`: a row of invariants of one window (`RowFenced`: which phases of a transfer, a forgetting and a reload occur together and what is fenced in each), proved for one window at a time, since a call touches one; and of the disk: an acknowledged removal is done or on record, and the record is cleared only when the directory is gone, through every place at which a launch can stop |
|  | of `DesktopUpdate`: `UpdateInvariant`, `ReadyStaysNewer` | the code's comparison implies `Precedes` (`ComparisonIsPrecedence`: the first place where two versions differ decides in both), which is strict (`PrecedenceIsStrict`), so that on the ladder what compares higher stands later (`HigherIsLater`). `UpdateInv`: what a check holds is what its directory holds, from its download on and also after the check is over; what a check has staged passed the second validation, of the archive downloaded and not of the announcement; what the platform fetches is the directory of a check of this life that has staged, so what is ready was staged |
|  | of `DesktopWorkflow`: `WorkflowInvariant`, `QuietWhileOwners`, `FlightHoldsLease`, `FinalizeWaits` | `WorkflowInv`: types; `LeaseInv`: while the executor is not blocked, coordinator, controller and executor hold one lease, every place between a takeover and its hand-back finds the executor blocked, and the window shows the owner in control of an executor that runs only until a hand-back's answer is published; the entries of an action were recorded under one lease; `RetryInv`: what a retry that runs alone has read of journal, page and controller is still so when it executes. One lemma per action, on the record it leaves for its call; the last one counts: a dispatch after `NotDispatched` is the only one |
| `RitualLearningProofs` | `NoBroaderMayDoNoMore`, `LearningNeverGrows`, `DecisionsHold`, `RevisionsComeFromProposals`, `EvidenceIsKept` | the first: each clause the code compares bounds one of the things a definition lets a run do, for any lists of steps and domains and also where a key is used twice. It gives an order with which `Governed` (what may do no more than the first definition) is closed under learning. `IInv`: every definition in the file, and every one a call holds that has read and not written yet, is governed, and a call's revision exists. The operations on runs and receipts, evictions included, spare revisions, proposals and decisions (`Spares`), so that one lemma serves them all. The next two rest on `LInv`: proposals are stored in the order of their identities, a learned revision names the one proposal it was made of, a call that approves holds such a revision already, and no decision is of a proposal that was applied, which the repository's single write keeps because it looks at the decisions once more. The last rests on `EvidenceInv`: the run of every run receipt is in the list, for an eviction takes a run's receipts with it, and an eviction spares a run whose receipt a proposal cites; `Retains` composes this along the three parts of a write (the record replaced or appended, then the evictions) |
| `RitualRunsProofs` | `RuntimeInvariant`, `ReceiptsAreOfReviewedRuns`, `OpenRunIsAlone`, `NoRunIsStranded`, `EnabledScheduleIsLatest`, `FileParses`, `ClaimsGrow` | `IInv`. *The file*: `InOrder`, the shape of a run, is stronger than the schema the code checks at each write (a running run has completed what stands before its current step and nothing after it), the reducer keeps it and it implies the schema; the list is within its bytes, so that only the write of a new run evicts, and an eviction takes a run that is over together with its receipt. *The queues*: what the operation in service has read is still so when it writes (`TaskInv`: the identity a start writes is nobody's and its revision has no open run, for cancellations and completions wait in the same queue; the schedule it read is the latest's unless a revision was approved meanwhile, which it notices); a drive, which waits in no queue, holds its run as the file has it (`DriveInv`), since nobody else writes the run of an entry that is active. *The scheduler*: one schedule for each revision, the enabled one the latest's and due later than the last occurrence claimed (`SchedulesInv`), which makes a claim new also after a crash. *Identities*: whoever holds one holds one that was handed out (`HandedOut`). `RunningIsAttended` is inductive with these. One lemma for each action |
| `RitualWorkspaceProofs` | `DeskHolds`, `DeskIsOfOneRevision`, `SavesHaveTheirCalls` | `DeskInv`. *What is shown* (`OfOne`): a phase in which a draft is shaped shows no revision, any other shows one, to which receipt, run and what is learned from belong; a phase of learning has its source, what is being saved its revision. *What is on its way* (`Talks`, `Waits`): a follow-up whose answer will be taken is about the revision shown, which is why each opening has to hush the ones before; a draft, an approval and a learned revision being saved each have their call. *The order of answers* (`Held`, `Ready`, `Sound`): the answers given are of distinct calls, and a new identity's is among them from when it is asked for. One lemma for each event of the reducer says that it keeps the revision shown or opens another, and one for each way in which a call starts, is overtaken and is answered |

Some theorems are of facts no run repeats, because the theorem says more:
`ControlParses`, `HolderFollowsControl`, `AlarmNeverEarly`, `RevisionGrows`,
`VersionsCount`, `RevisionCanceledOnce`, `GrantHasItsMailbox`, `AlarmIsSet`, and the
types and inductive invariants (`TypeCorrect`, `PairingInvariant`,
`ErasureInvariant`, `GmailInvariant`, `WindowInvariant`, `UpdateInvariant`,
`WorkflowInvariant`, `RuntimeInvariant`, `QuotaInvariant`, `DeskHolds`), and
`LimitsAreKept`.

The modules that share a proof module share no state: each theorem is of the
specification of one (`PairingSpec`, `QuotaSpec`, `ErasureSpec`, `GmailSpec`, `WindowSpec`,
`UpdateSpec`, `Spec` of `DesktopWorkflow`), which the runs `account` and `desktop` check as
parts of one behaviour each. What they assume of their constants is that null
values are outside the sets they stand for and that counts are natural numbers;
`DesktopWorkflow` besides that commands come one at a time, `DesktopUpdate` that
the ladder names releases in the order of SemVer, `EventProjection` that the
null action is no action's identity and the null actor no actor. `RitualRuns` assumes that
identities are positive numbers, given out in their order, and that the null
value is neither an operation nor a drive; steps, gates, limits, days and
interventions are any. `RitualWorkspace` assumes that the null value is neither
a kind of call nor a revision nor something learned from, and that runs are
reported in statuses the contract knows; slots, Rituals, revisions and schedules
are any number.

Attempts at proofs corrected the model. A start of a Ritual whose first step
has a gate leaves its run waiting for the owner and has no drive to enter;
`RitualRuns` entered one, which `DriveInv` refuted. The run `ritual_runs` now
has the gate there. That every draft shown is waited for turned out to be true
only where a single Ritual is stored: with two, TLC strands a draft in sixteen
steps (see *Rituals* above). The history field `view.stranded` marks that one
step of `LearningReturns`, and `SavesHaveTheirCalls` says that there is no
other.

Every safety property of a passing run is also a theorem. Only model-checked:
the liveness properties (`ArmedLeaseFenced`, `DeletionCompletes`,
`ClaimIsServed`, `QuitCompletes`), which are out of the prover's reach; and the
finding, which is a counterexample.

## Not modelled, and the plan

In order, with what each step is for:

1. **`DesktopWorkflow`** against `LogicalEffects`; the human gates of the
   fixture's variants, `reset`, and the paired coordinator's transport with its
   cached answers.
2. The Steward's drafts and follow-up talk in the main process, the migration
   of older files, the inbox and the audit timeline.
3. The pure ledger `applyJobEvent`, which no request of the Worker calls.

Left out for good: rendering (web, UI), what adapters of external services
read (Gmail's messages, search, model providers), navigation policy and
layout, the executor of the page (a page is the environment), signature, token
and origin checks without state, the event stream's sockets (what they carry
is what the coordinator committed), build and release scripts, spikes and the
test fixture's site beyond `OwnedFixture`. Numeric prerelease identifiers
beyond 2^53, which the updater would compare as equal, are not modelled.
