# Specifications of the Prime Agent daemon

TLA+ models of the concurrent and crash-prone core of Prime Agent: the daemon
supervisor, its clients, its durable journal and the locks on session files.
The modules are translated from the TypeScript under
`packages/coding-agent/src`; `PROJECT.json` maps every definition to its lines.
Below, `D/` is `packages/coding-agent/src/modes/daemon/` and `core/` is
`packages/coding-agent/src/core/`.

To check a module: `tlc -config CommandDelivery.cfg MCCommandDelivery`. To check
its proofs: `tlapm ClientConnectionProofs.tla`.

## 1. The system

A *client* (terminal UI, RPC, scripts) connects over a socket to one *supervisor*
per agent directory. The supervisor owns *session workers*, one process per root
session, forwards commands to them, recovers them when they crash, evicts them
when idle, and hands over to a successor for an update. Clients and workers
outlive a supervisor: both reconnect to the next generation. What must survive a
crash is in files: the command journal, worker descriptors and worker journals,
session leases, owner records, scheduled jobs.

| Component | State | Operations | Interacts through |
|---|---|---|---|
| Command delivery: `D/daemon-client.ts`, `handleLine` in `D/daemon-supervisor.ts` | pending requests and their timers; handlers suspended at an `await` | request, time out, park, resend, acknowledge; admit, dispatch, record, answer | socket lines, the command journal |
| Mutation admission: `handleLine`, `D/mutation-drain-latch.ts` | `updateRestartPhase`, `idleEvictionFence`, the latch | admit, begin/end, prepare an update, evict on idle or on last detach | three shared variables and promises |
| Command journal: `D/command-recovery-journal.ts` | map of entries; append-only file | begin, recordResult, acknowledge, compact, load | file system |
| Session lease: `core/session-lease.ts` | lease directory and guard directory per session file | acquire, release, reclaim | file system, process identities |
| Supervisor ownership and shutdown admission: `D/daemon-supervisor-ownership.ts`, socket lease `D/daemon-socket.ts` | owner record, admission record, registry guard, startup fence | acquire, renew, fence, adopt, release | file system |
| Worker lifecycle: `D/daemon-supervisor.ts` 3400-4300, `D/worker-recovery-journal.ts`, `D/supervisor-link.ts` | descriptor lifecycle, failure counts, worker journal | launch, adopt, probe, defer, recover, park, stop | child processes, sockets, files |
| Update restart: `D/daemon-supervisor.ts` 6590-6760, `D/daemon-mode.ts` | prepared checkpoints, manifest | prepare, commit, cancel | worker requests |
| Scheduled jobs: `core/cron-jobs.ts` | jobs and claimed dispatches per session | claim, deliver, skip, recover | file under a lock, worker scheduler |
| Passive scan and wake | cached snapshot, epoch, in-flight scan, timer | scan, invalidate, wake | promises |
| Attach stream | cursors, deferred payloads, snapshots | attach, catch up, defer, drop | socket writes |
| Agent loop: `packages/agent/src` | steering and follow-up queues, abort signal | prompt, steer, follow up, continue, abort | callbacks |
| Spawn ledger and roster: `D/rlm-ledger.ts`, `D/agent-roster.ts` | edges, roster rows | append, compact, apply deltas | file under a lock, worker messages |

The other components (provider adapters, terminal UI, session storage, settings,
installer) are listed in `PROJECT.json` with the reason they are left out.

What is hard about it: the supervisor is one event loop, so races are between
the code before and the code after an `await` (a phase or a fence read before a
wait and used after it); a command may be handled on two connections and in two
generations; crashes fall between a durable record and its effect; file locks
go stale under a live holder; several drains wait on one another; recoveries,
stops and launches of one worker share its registration. `PROJECT.json` lists
these hazards at their lines, each with the properties that would catch it.

What makes each component correct:

* delivery: no command takes effect twice, no success is reported for nothing,
  no promise stays open;
* admission: no ordinary mutation runs while a worker is being evicted or
  checkpointed; drains neither miss a wake-up nor block each other;
* journal: memory and disk agree, a dispatched command is never taken for new;
* lease: one writer per session file, and no operation on it hangs;
* ownership: one serving supervisor per registry, none that starts under a
  shutdown, and no admission that outlives its release;
* worker lifecycle: one process per session, uncertain operations are cleaned up
  behind a dead process only, every recovery ends;
* update restart: what is restored is what the workers had accepted, a restart
  that is called off has closed nothing, no transaction stays open;
* scheduled jobs: a due tick is claimed, then delivered once, recorded as
  skipped, or interrupted, never twice;
* passive scan: a list never goes back behind an invalidation, and a due session
  is woken;
* attach stream: after drops and catch-ups a client has every payload once, in
  order; agent loop: every queued message reaches the model once, in order.


## 2. Modules

| Module | Models | Proofs |
|---|---|---|
| `CommandDelivery` | client, connections, handlers, journal entries, generations | `ClientConnectionProofs` |
| `MutationGate` | admission, latch, phase, evictions | `MutationGateProofs` |
| `CommandJournal`, `CommandEntry` | the journal file and its abstract specification | `DurableStateProofs` |
| `SessionLease` | lease and guard directories, processes, pids | `DurableStateProofs` |
| `SupervisorOwnership` | owner records, shutdown admissions, registry guards | `SupervisorOwnershipProofs` |
| `UpdateRestart` | the two-phase restart of supervisor and workers | `UpdateRestartProofs` |
| `WorkerRecovery` | one worker's registration under recovery, stop, adoption | `WorkerRecoveryProofs` |
| `ScheduledJobs` | jobs, claims, dispatches and delivery in a worker | `ScheduledJobsProofs` |
| `PassiveScan` | the supervisor's scans for jobs of absent sessions, its wakes | `PassiveScanProofs` |
| `AttachStream` | one client's snapshots, deferred payloads and catch-ups | `ClientConnectionProofs` |

Each has an `MC…` module with the instance TLC checks. Two proof modules each
serve two components: what a client may rely on, and what is kept in files; their
modules therefore name their definitions apart (`JournalNext`, `StreamSpec`, …).
The components meet at these seams:

* `CommandDelivery` takes the journal as one durable entry per command;
  `CommandJournal` shows that the file implements that (`ImplementsEntries`).
* `CommandDelivery` lets a handler wait arbitrarily long, or be refused, between
  lookup and `begin()`; `MutationGate` is what happens there.
* `MutationGate` has the fenced part of a preparation as a duration and a result;
  `UpdateRestart` is that part, over several workers.
* `UpdateRestart` has a worker's drain as "no mutation is running"; `ScheduledJobs`
  has the part of the drain that stops the scheduler and waits for its dispatches.
* `PassiveScan` and `MutationGate` have a worker as "launched" or "there";
  `WorkerRecovery` is its registration.

### CommandDelivery

`req`, `armed` and `outcome` are `pendingRequests`, their timers and what the
caller gets; `hpc[k][c]` is the position in `handleLine` of the line of command
`c` on connection `k`: in the socket (`wire`), in the first ownership check
(`arrived`), past `lookup()` (`gated`), in `handleCommand` (`executing`), waiting
to record (`okPending`, `errPending`), answered (`done`), gone (`dead`), or
forwarded by a supervisor that died since (`orphan`). `recoverable` is the
request option. `begun`, `forgotten`, `executed` and `overlapped` are history
variables: the first three count dispatches, acknowledgements that removed an
entry, and effects; `overlapped` collects commands resent while a handler of an
older line of theirs was live.

`Execute` stands for `handleCommand` by its outcomes: success with effect,
error with effect (the worker's answer was lost), error without. `Record` covers
the ownership check, `recordResult` and its two failure paths. `Reject` is every
unjournaled refusal. `CloseClient` covers `close()` and the reconnect deadline.
Not modelled: clients older than the command envelope (they are not journaled),
journal I/O errors (in `CommandJournal`), read-only commands.

### MutationGate

`pc` is the `await` where a handler, a preparation or an evictor is suspended; an
action is the code between two awaits. The admission check, the fence check and
`begin()` on the direct path are one action because no await separates them;
behind a fence wait they are two. A command may always be answered at once
instead of begun: its ownership check fails, or the journal knows it. `late`
marks commands that came through a fence wait. Shutdown may begin at any time, as
a signal or a lost socket lease can start it.

### CommandJournal and CommandEntry

`file` holds the terminated lines, `torn` says that an unterminated part follows. A
method is `Start` (its check and arguments), `Write` (or a failure), `Apply` (the
map) and `Compact`; a crash may come between any two. `Garbage` is a line that does
not parse. `load()` and the lines of a compacted file are recursive functions
(`Loaded`, `Compacted`) over the length of a file and over sets of keys. With
`ShortWrites` a failing write may leave a part. A line whose fsync failed is taken
to be in the file; losing it with the machine is not modelled. `writeFileAtomicSync`
replaces the file in one step.

### SessionLease

Each file-system call is an action. `lease` and `guard` are directories that
name the process that made them, a process being a pid and its start identity
(`life`). `stale` says that the guard is older than proper-lockfile's threshold
of 5 s; `pauses` counts guards that became stale under a live holder. Breaking a
stale guard and taking it is one step, as the library promises; other errors of
the guard than contention are left out. A start identity that cannot be queried
is the choice in `ReadOwner` between "alive" and the truth. `Rename` has every
outcome of its loop: taken, contended, one more attempt with a new candidate, or an
error that only leaves the guard.

### SupervisorOwnership

A registry directory has an owner record, an admission record and a guard (a
proper-lockfile directory). Supervisors of the default registry and of a custom one
take the guards of the discovery registry and of their own, in the order of the
canonical paths; an admission holder takes those of every registry it has heard of
(`known`) to publish, renew, extend and release its record. `mine` is the set of
guards a process believes it has, `guard` who really made each; they differ once
`Lock` takes over a guard from a stalled holder, and that holder notices when it
leaves, by inode. `PublishFails` undoes a publication or, where that fails too,
leaves its record. `since` and `late` are histories: supervisors that started while
an admission was published, and admissions that elapsed before they were renewed.
The process query of a liveness check is the truth here. A holder has one operation
at a time: a renewal by its refresh timer that is under way when the registries are
extended is left out. The two take the same guards, so they run one behind the
other; only a renewal that was called before the extension writes to the new
registry without that registry's guard (`registryDirs` is read again, 429, the
guards are not). Not modelled either: the startup fence, adoption of legacy records,
`updatePhase` and `assertCurrent`, the socket lease, reused inodes, agent
directories learnt from elsewhere.

### UpdateRestart

`sup`, `answer`, `prepareClient` and `manifest` are the supervisor's preparation:
one request per worker is out in each phase and `answer` says how it was settled. A
connection is a number; `client[w]` is the one the supervisor uses, `claim[w]` the
one the worker takes for its supervisor, and they differ for a while when a
connection breaks. `phase` is the worker's transaction: preparing (first drain),
drained (the drain returned, its caller has not run), fencing (mutations are
refused, second drain), prepared, publishing, closed. The content of a checkpoint is
the number of mutations it has. A worker's deadline begins after the request that
made it and is as long, so it never fires while that request is pending. A forced
stop always ends the process. A worker that publishes lets a new connection in and
refuses its subscription, upon which the supervisor closes it (`Refused`). A
supervisor that dies is not replaced here (its successor's view is
`WorkerRecovery`).

### WorkerRecovery

The module is one registration and everything that shares it: `closing`
(`handleWorkerClose`), `recovery` (probe, cleanup, spawn, retry), `deferred` (a
probe that is postponed up to the round limit), `stop` (the stops of commands,
evictions, finalizer, launcher and adopter, each at its own await), `final` (the
finalizer of a stop that timed out), `adopting` and `reclaiming`. `desc` is the
descriptor in memory, `onDisk` whether its file exists. A process answers, hangs
or is dead; a dead one stays dead. Not modelled: failures of ownership and
shutdown-admission checks, restart before the roster is known, reused pids (the
start identity is either known and right, or unknown), archiving, the stop by an
update restart, failures of writing descriptors, child workers of a worker.

### ScheduledJobs

`status`, `next`, `prompt`, `dispatches` are the jobs file of a session, `tasks`
the dispatches of the worker, each queued in its lane, opening its session, being
admitted, run or skipped. A due job is claimed and its schedule advanced in one
write, then delivered; a claim found at registration is recorded as interrupted.
`covers` says for which jobs the timer fires in time. `received` is the history
of what a session was given: ticks in order, with the prompt as stored and as
read. An error in claiming or recording rejects `runDue` and the worker process
ends, which is `Crash`. Jobs are edited, paused, resumed and cancelled at any
time, and an update restart prepares and cancels.

### PassiveScan

`scan[p]` is a scan in flight: whether its epoch is the newest and how old what it
read is, `current`, `behind` a change that is not announced yet, or `stale`, older
than an announced one. `snapshot` is the published result with its age, `inflight`
the scan that readers share. `Invalidate` is `invalidatePassiveScheduledJobs`, after
which no scan in flight owns the newest epoch (`Outdated`). A wake is its own
process with the scan it made, the roots it still has to launch and the one it
launches. A removal announces itself (`Schedule`) except where the code does not:
`Goodbye`, a worker that shuts down by itself, and the removal of a failed worker by
`reclaimStaleWorkerRegistration` are `Unannounced`. Not modelled: writes to job
files by other programs (a list is at most 5 s behind those), ephemeral cancel
intents, inactive jobs, the shutdown flag, the floor on retries, an ancestor's scan
that covers a child tree.

### AttachStream

One client with chunked snapshots. Transcript events of a session are numbered; a
snapshot taken when `attachClient` completes has all of them so far. `stream` is a
snapshot being loaded or written by an attach, a reattach or the one catch-up
loop, `deferred` what was withheld behind it, `dropped` that the buffer overflowed,
`queue`, `loop`, `pending` and `timer` the catch-up queue and the loop that drains
it. `sent` is the history of what the client was given, `told` of what was in a
snapshot it knows has failed, `undone` of the sessions it detached behind a stream of
its own attach or reattach. A record
that is not accepted, of a failed transfer too, waits for the drain (`WriteEnds`).
`loop = "exited"` is the
time between the last look at the queue and the moment the promise is cleared.
Not modelled: disconnects, clients without chunking, extension dialogs, why a
catch-up was asked for except in what a `session_replaced` discards.

## 3. Runs

| Run | Instance | States | Shows |
|---|---|---|---|
| `command_delivery` | 1 command, 3 connections, 2 generations | 52,824 | dispatches are separated, results truthful, a parked request settles |
| `mutation_gate` | 1 mutation, drain command, preparation, shutdown; sweep and detach eviction | 103,648 | exclusion, no lost wake-up, everything settles |
| `command_journal` | 2 keys, compaction after 4 lines, 2 crashes, 1 error | 352,186 | refinement, nothing replayed, bounded file |
| `command_journal_short` | as above with short writes, 1 crash | | `NeverReplayed` fails |
| `session_lease` | 2 pids with 3 lives each, 1 pause | 357,534 | ownership, and operations settle |
| `supervisor_ownership` | 2 default and 1 custom supervisor, 1 admission, 2 stalls | 3.5 M | one owner, fenced starts, a released admission is gone, a holder notices its loss |
| `update_restart` | 2 workers, 2 rounds, 2 connections and 1 mutation each, 1 fault | 1,046,963 | complete checkpoints, captured commits, harmless rollback, everything settles |
| `scheduled_jobs` | a heartbeat and a one-time job, 2 ticks, 3 edits, 1 crash | 155,808 | once per tick, claims held, quiet restart, what is due is claimed and ends |
| `passive_scan` | 1 root, 1 reader, 2 wakes, 1 change, 1 preparation (a few at a time, see below) | 1,527,521 | fresh lists, due sessions are tried |
| `worker_recovery` | 2 incarnations, 1 stop, 2 tries, 1 deferral, 1 retry, 1 break, 1 supervisor death (2 of these faults at a time, a retry counts for two) | 352,552 | one process, cleanup and unregistration behind the dead, recovery ends |
| `worker_recovery_dead` | 1 incarnation, no faults | | `DeadIsUnregistered` fails |
| `attach_stream` | 2 sessions, 1 attacher, 2 events, a buffer of 1, 2 commands, 1 fault | 954,179 | nothing forgotten, the client catches up |

Type invariants are not repeated in the runs: they are proved, as part of each
inductive invariant, for every module with a proof.

*Why the bounds are enough.* Commands share nothing but the connection, so one
command with a line on each of three connections has every overlap of two lines
with a third. In `MutationGate` a command or an evictor that finished may start
again, so one actor per role runs any number of times. Compaction has to keep one
key and drop another, so two keys; two crashes put one in the recovery of another.
A third life separates "the dead owner's pid" from "the pid's next process and the
one after it". `SupervisorOwnership` needs two rivals in one registry, one
supervisor with another and one admission that covers both; two stalls let a
guard be stolen from a thief (`StallOrLate` keeps stalls and elapsed admissions
apart; the proofs do not). `UpdateRestart` needs a worker that fails and one that
does not, and a second round to see a late message of the first. Two incarnations
are the dead one and its replacement; a retry that counts for two faults still
follows a failed recovery and meets a stop. One buffer place and two events are one
deferred and one dropped. In `PassiveScan` a second
wake can begin while the first one launches; with the recompute and a reader that
makes four scans at a time. `FewAtWork` lets two wakes overlap a reader, a change or
a preparation, and a reader overlap a change or a preparation, but not all at once.
Sessions are treated one by one, and what shares a scan joins the same one whoever
the reader is. The proofs lift these bounds for the safety properties.

*Deadlock* is checked in `command_journal`. The other systems really stop: a
closed client with no generation left, a supervisor that is shutting down or
prepared for its update, processes that have died for the last time, jobs that
have no tick left, a worker that is removed, a client whose events are all sent.

*Fairness.* Of an event loop: continuations that are ready run, armed timers fire,
the sockets of dead processes close. Beyond that, per module: `CommandDelivery`:
`autoReconnect` retries until its deadline; nothing of the network, of crashes or
restarts, nor that `handleCommand` returns, which is what the request timeouts are
for. `MutationGate`: each armed `AbortSignal` and worker-request timeout fires; the
latter is the weak fairness of `PrepareFails` and `ReleaseFence`, without which
other commands could keep waking a drain for ever. `SessionLease`: a running process
carries its synchronous operation on. `SupervisorOwnership`: none, its properties
are safety. `UpdateRestart`: mutations that began end. `ScheduledJobs`: what a
dispatch awaits is answered. `PassiveScan`: reads return, launches are answered, a
preparation meets its deadline. `WorkerRecovery`: requests end with an answer or
their timeout, SIGKILL ends a process. `AttachStream`: `attachClient` and transfers
end, a connected client reads.

*Refinement.* `ImplementsEntries` instantiates `CommandEntry` for each key with
what a reader would find: the map while the process runs, what `load()` would
build while it does not. A crash anywhere must be an operation of the entry or no
step.

### What the failing runs show

* `command_journal_short`: a fragment left by a failed append swallows the next
  record, which is taken as durable.
* `worker_recovery_dead`: when a worker dies before it has answered the shutdown
  request of a stop, the close listener has already unset `worker.client`, and
  `worker.client.close()` throws (`D/daemon-supervisor.ts:6919-6921`). The stop
  rejects before it has cleaned up or scheduled its finalizer, the tombstone keeps
  recovery away, and the dead worker stays registered, which the comments at 7005
  and 7084 rule out.

### Where a property has an exception

Some properties hold except in a case the code leaves open; the exception is part
of the property and says exactly which case it is.

* `TwiceOnlyIfOverlapped`: the journal separates dispatches by an acknowledgement,
  but the acknowledgement of a resend removes the entry under a first line that is
  still waiting in the same supervisor, which then dispatches again, where
  `docs/daemon.md:137` has a repeated command return the stored result.
* `DecisionSeesOnlyLateMutations`, `CheckpointSeesOnlyLateMutations`: the handler
  awaits the fence it found and goes on without reading the fence slot or the phase
  again (`D/daemon-supervisor.ts:2052-2064`). A second evictor may have drained in
  the meantime, and a preparation may be checkpointing. `late` measures exactly
  this: nothing else gets through.
* `ExclusiveUnlessPaused`, `HolderOwnsLease`: a guard that a synchronous holder
  cannot refresh goes stale under it. A release that finds the guard contended is
  dropped and leaves the lease with a live owner (`core/session-lease.ts:57`).
* `FencedWhileTimely`: an admission that elapsed before its renewal is renewed with
  success although a supervisor of a custom registry may have started in between
  (`D/daemon-supervisor-ownership.ts:419`).
* `FreshUnlessLost`: the manifest can be stale for a worker whose connection is
  lost between its answer and the moment the supervisor hears of it
  (`D/daemon-supervisor.ts:6729-6733`).
* `DueIsTried`: a worker that shuts down by itself is removed with its descriptor
  (6319-6334), and `reclaimStaleWorkerRegistration` removes a failed one (3272-3277),
  without the call that every change of residency is said to make (the comment at
  7226-7228); a failed recompute (991) is only logged. The timer may then still stand
  as it was set while the worker had the job: not at all, so that a job that comes
  due waits for an unrelated recompute. `silent` holds the roots of these three until
  the next recompute begins. Without it TLC finds the goodbye in a few steps.
* `OnlyTheDeadAreCleaned`: besides a worker's own goodbye, whose process is about to
  exit, `Overtaken` excuses one step. A stop of a dead client-owned worker looks for
  the last time whether it still applies (6979, 6985) and then waits for its schedules
  to be cancelled (6991-6993). A relaunch that was already spawning publishes a living
  process in that time, without the tombstone (3471-3477), and the stop goes on to
  delete the registration and the descriptor of that process (6994-6998), where the
  comment at 6859-6863 has every step bound to the process the stop entered with.
  Without the exception TLC finds exactly this.
* `RecoveringEnds`: a stop that awaits `cancelEphemeralWorkerScheduledJobs`
  (6991-6993) does not look again whether it still applies while a launch publishes
  (3473-3477). Besides, a launch in flight discards a stop's tombstone, and a close
  event during the last recovery check (3529, 4204) leaves a worker that is ready
  and has no client.
* `CatchesUp`: the last stream may be released after `drainClientCatchupQueue` has
  looked at the queue (6475-6484) and before `catchupPromise` is cleared
  (6449-6473). The queued catch-up then has nobody to start it, and as long as the
  session's payloads count as dropped its events are discarded until another
  catch-up is asked for; `docs/daemon.md:129` says that after the drain the
  attachment catches up. `missed` is exactly this, and excuses all later lag.
* `NothingForgotten` (and `CatchesUp`): a client that detaches a session while its
  own reattach to that session is loading is attached to it again by `attachClient`
  (5477), and the reservation is still the first one. If a catch-up of the session
  fails in between, its catch block (6572-6580) marks the payloads as dropped but
  queues nothing, because the session is not attached at that moment; only a first
  reservation would clear the mark (5759). Every later event is then discarded
  (6312) and no catch-up is due. It takes four commands, one failure and one
  requested catch-up. `undone` holds the sessions detached in this way, and is
  cleared by the next detach that overtakes nothing.

Also seen while modelling and not stated as properties: a wake that passed its
checks may launch a worker after a preparation has listed the workers it prepares
(`D/daemon-supervisor.ts:1215`); a detach while a catch-up of that session is
loading is undone in the same way, though nothing is lost; a closed session left in
a running batch is retried every 250 ms while it is attached; overlapping streams of
one session may deliver an older snapshot last.

## 4. Proofs

Every safety property of the passing runs, invariants, action properties and the
refinement alike, is a theorem. TLAPS proves it for every value of the constants,
from the named assumptions only (`…Assumption` in each module: roles are disjoint,
bounds are numbers, special values are no members). Each proof is one inductive
invariant, checked by TLC before it was proved, one lemma per action, and one
theorem per property. `PROJECT.json` lists the theorems.

* **MutationGate**, all safety properties. `LatchCountsRunning` is the key: a drain
  to zero seen by an evictor, or to one seen by a preparation, becomes a statement
  about the *set* of commands in flight through cardinality lemmas. `FenceSlot` and
  `PhaseSlot` tie the two shared variables to the one actor that owns each.
  `FencedOnlyLate` extends the checkpoint property back to the return of the second
  drain, where it is established.
* **CommandDelivery**, all safety properties. `AckSeparatesDispatches` is inductive
  by itself. `ForgottenIsSettled` needs that acknowledgements follow responses
  (`SettledInv`), `SuccessIsTruthful` that stored, written and delivered results
  agree with `executed` (`TruthInv`), `TwiceOnlyIfOverlapped` that a command that
  never overlapped has its one live line on its newest connection (`OnceInv`).
* **SessionLease**, `HolderOwnsLease` and, while `pauses = 0`, at most one holder
  (`ExclusiveUnlessPaused`). `GuardInv` makes the guard a mutex, `PastInv` makes
  death permanent for an identity although pids are reused, `OwnerInv` says what
  may be reclaimed.
* **SupervisorOwnership**, `OneOwner` with any number of guards taken over:
  `OwnerInv` ties each owner to its record, and a starter that has found no owner
  and still has the guard of its registry to there being none. The fence
  (`FencedWhileTimely`) needs guards to be mutexes, so `HandInv` (who holds what,
  taken in order) and `FenceInv` (a timely admission is in every registry its holder
  knows, and nobody past its check has overlooked it) are under `pauses = 0`. So is
  `AdmissionInvariant`, from which `ReleasedIsGone` and `RenewalNotices` follow: the
  records of an admission lie only where its holder will look for them, a released
  one has none, and whoever goes on renewing has its record in the default registry.
* **CommandJournal**, `NeverReplayed`, `FileIsBounded` and the refinement
  `ImplementsEntries`, where a failing write leaves nothing (`~ShortWrites`; with
  short writes the first is false, as `command_journal_short` shows). At its core
  `AgreeInv`: what `load()` would build from the file is, for each key, what is in
  memory or one operation further, because a failed append may have left its line
  and changed nothing else; `DispatchedInv` has a dispatched command in both. Two
  lemmas about the recursive functions carry it: an appended line is the last word
  on its key (`LoadedOfAppend`), and a compacted file is loaded as the map it was
  written from and has at most two lines per key (`CompactedIsTheMap`). They are
  inductions over the length of a file and over the keys: the library's induction
  theorem takes an operator and cannot be instantiated, so `SetInduction` states it
  of a *set* of numbers and is proved from the well-foundedness of `<`. A crash is
  the interesting step of the refinement: the entry a reader sees changes from the
  map to what `load()` would build, and the invariant makes that an operation of the
  entry or none. `BoundInv` counts lines against keys, errors and crashes.
* **AttachStream**, `NothingForgotten` for any number of sessions and of attaches at
  a time. `CoveredInv` is the property without the snapshots that may be given up
  again: a reattach to a session that was attached before brings nothing if it
  fails. What it needs is where the drop mark may be set: while a stream runs only
  behind a queued catch-up (`DroppedInv`), because the reservations that join it do
  not clear the mark; and not at all for a session that is detached
  (`DetachedInv`). `HeldInv` ties reservations to attachments, `WithheldInv`
  buffers to running streams. Looking for this invariant showed that the property
  needs `undone`: the case takes four commands and the run has two, so that it can
  also check `CatchesUp`. TLC found no other case with four commands, nor with three
  commands, two attachers and two faults, and the theorem leaves none.
* **UpdateRestart**, all safety properties. `PrepareInv`: who answered this round,
  or is remembered with its present connection, has no request left on its way and
  holds its checkpoint while the connection lives; so the commit that follows
  (`CommitInv`) finds the checkpoint that was persisted. `RoundInv` orders the
  requests by round, `HoldInv` ties a checkpoint to what was accepted.
* **WorkerRecovery**, all safety properties. `Sole`: only the descriptor's process
  can be alive; `Gone`: whoever cleans up or replaces it has found it dead; `Named`:
so has a stop that cancels schedules, of the process it entered with, which is why
`OnlyTheDead` needs no other exception than a relaunch in that time;
  `Owners`: a worker that a client owns is relaunched, never reclaimed, and the
  others the other way round; `Recorded`: a registered worker has its file.
* **ScheduledJobs**, all safety properties. `Held`: the claims on disk are the
  worker's dispatches, one by one; `Fresh` and `Ahead`: a claim's tick is newer
  than what the session was given and older than what is to come; `OncePerTick`
  follows and makes them inductive.
* **PassiveScan**, `ServedIsFresh`. `FreshInv`: no stale scan has the newest epoch,
  and the shared scan is not stale; an invalidation is the only step that makes
  what was read stale, and takes both away.

Only model-checked: liveness under fairness (`ParkedSettles`, `EveryCommandSettles`,
`PreparationSettles`, `OperationsSettle`, `TransactionsSettle`, `DueIsClaimed`,
`DispatchesEnd`, `DueIsTried`, `RecoveringEnds`, `CatchesUp`), which needs `ENABLED`
and is out of this prover's reach, and the two runs that fail. No theorem covers the
journal with short writes beyond its types (`JournalTypeCorrect`), and those on
fences, admissions and exclusive leases speak of the time before a guard is taken
over from a live holder.

## 5. Not modelled, and the plan

1. `AgentLoop` (`packages/agent/src`): steering and follow-up queues, abort and
   continue. To show: a queued message reaches the model once, in order.
2. `RlmLedger` and roster: append and compaction under a lock, deltas against
   snapshots; abstract specification: a set of edges.
3. The supervisor link of a worker, and the socket path lease: two more takeovers
   of the kind `SupervisorOwnership` models.
4. One specification of `UpdateRestart` composed with `ScheduledJobs` in the worker,
   and abstract specifications that `CommandDelivery` and `SessionLease` implement.
5. Hazards without a property: an answer that arrives without a usable socket is
   never acknowledged (`D/daemon-client.ts:541`), and the dropped release of
   `core/session-lease.ts:57`.

Left out for good: rendering, provider protocols, configuration, packaging, and
what the kernels compute. The map's share of the whole repository is small because
most of it is of this kind: model catalogues, adapters, views.
