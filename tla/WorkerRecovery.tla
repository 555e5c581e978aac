---------------------------- MODULE WorkerRecovery ----------------------------
(***************************************************************************)
(* One session worker as its supervisor sees it: the connection that       *)
(* closes, the recovery that probes or relaunches the process, the probes  *)
(* that are deferred, the stops, the finalizer of a stop that timed out,   *)
(* and the adoption of the descriptor by the next supervisor.  All of them *)
(* share one registration.  An action is the code between two awaits.      *)
(***************************************************************************)
EXTENDS Naturals, FiniteSets

CONSTANTS MaxPids,     \* bound: incarnations of the worker's process
          Stoppers,    \* stops by commands, evictions and owners that left
          Finalizer, Launcher, Adopter,   \* the supervisor's own stops
          MaxTries,    \* length of WORKER_RETRY_DELAYS_MS
          MaxRounds,   \* MAX_DEFERRED_RECOVERY_ROUNDS
          MaxRetries,  \* bound: retries by clients
          MaxBreaks,   \* bound: connections to a live process that break
          MaxCrashes   \* bound: supervisors that die

Pids  == 1..MaxPids
Stops == Stoppers \cup {Finalizer, Launcher, Adopter}

ASSUME WorkerAssumption ==
  /\ MaxPids \in Nat \ {0}
  /\ Cardinality({Finalizer, Launcher, Adopter}) = 3
  /\ Stoppers \cap {Finalizer, Launcher, Adopter} = {}
  /\ MaxTries \in Nat \ {0} /\ MaxRounds \in Nat /\ MaxRetries \in Nat
  /\ MaxBreaks \in Nat /\ MaxCrashes \in Nat

VARIABLES
  proc,       \* what the processes do: answer (up), hang (mute), or are dead
  known,      \* per pid: its start id is known (processStartId)
  desc,       \* descriptor: pid, lifecycle, tombstone
  onDisk,     \* the descriptor's file exists (whenever it is written, it is desc)
  inMap,      \* the worker is in the workers map
  intent,     \* intentionalStop
  client,     \* a connection to the worker
  owned,      \* the worker belongs to a client
  env,        \* launchEnv and transientCreateCommand are known
  closing,    \* a handleWorkerClose that waits
  recovery,   \* worker.recovery
  deferred,   \* deferredRecovery
  rounds,     \* deferredRecoveryRounds
  adopting,   \* adoptOrRecoverWorker
  reclaiming, \* reclaimStaleWorkerRegistration of a failed worker
  stop,       \* stopWorker calls
  final,      \* stopFinalization
  retries, breaks, crashes

registration == <<known, desc, onDisk, inMap, intent>>
tasks == <<closing, recovery, deferred, rounds, adopting, reclaiming>>
rest  == <<owned, env, retries, breaks, crashes>>
vars  == <<proc, registration, client, tasks, stop, final, rest>>

NoStop  == [at |-> "no", pid |-> 1, force |-> FALSE]
NoFinal == [at |-> "no", pid |-> 1, same |-> FALSE]
\* keep: the last failure was a timeout, or of a process that may live; same: no stop
\* has begun since the launch; resume: what launchWorker decided before its cleanup.
NoRecovery == [at |-> "no", try |-> 1, keep |-> FALSE, same |-> TRUE, resume |-> FALSE]
Starting   == [NoRecovery EXCEPT !.at = "delay"]

Init ==
  /\ proc = [k \in Pids |-> IF k = 1 THEN "up" ELSE "unused"]
  /\ \E b \in BOOLEAN : known = [k \in Pids |-> k = 1 /\ b]
  /\ desc = [pid |-> 1, life |-> "ready", tomb |-> FALSE]
  /\ onDisk = TRUE /\ inMap = TRUE /\ intent = FALSE /\ client = TRUE
  /\ owned \in BOOLEAN /\ env = owned
  /\ closing = FALSE /\ recovery = NoRecovery /\ deferred = FALSE /\ rounds = 0
  /\ adopting = "no" /\ reclaiming = "no"
  /\ stop = [s \in Stops |-> NoStop] /\ final = NoFinal
  /\ retries = 0 /\ breaks = 0 /\ crashes = 0

-----------------------------------------------------------------------------
(* Conditions.                                                             *)

Alive(k) == proc[k] \in {"up", "mute"}

\* Slip: a start id that cannot be read counts as gone.
IdentityAssumed(k) == IF ~Alive(k) THEN {"gone"}
                      ELSE IF known[k] THEN {"current", "gone"} ELSE {"unknown"}
\* processIdentity.  A start id may be unreadable for a moment.
Identity(k) == IF ~Alive(k) THEN {"gone"}
               ELSE IF known[k] THEN {"current", "unknown"} ELSE {"unknown"}

Stopping  == intent \/ desc.tomb            \* isWorkerStopping
Cancelled == Stopping \/ ~inMap             \* isWorkerRecoveryCancelled
Idle      == \A s \in Stops : stop[s].at = "no"   \* workerStopCounts is zero
Candidate == ~Stopping /\ inMap /\ ~client  \* isWorkerRecoveryCandidate
CleanupCancelled == desc.tomb \/ ~inMap     \* isWorkerCleanupCancelled

\* recoverWorker, called with the registration in order.  A worker whose process is
\* gone and whose owner must bring the environment is parked.
Begin(d) ==
  IF owned /\ ~env /\ ~Alive(d.pid)
    THEN desc' = [d EXCEPT !.life = "failed"] /\ UNCHANGED recovery
    ELSE desc' = d /\ recovery' = IF recovery.at = "no" THEN Starting ELSE recovery

-----------------------------------------------------------------------------
(* Processes.                                                              *)

\* A process hangs, or answers again.
Hangs(k) ==
  /\ Alive(k)
  /\ proc' = [proc EXCEPT ![k] = IF @ = "up" THEN "mute" ELSE "up"]
  /\ UNCHANGED <<registration, client, tasks, stop, final, rest>>

Dies(k) ==
  /\ Alive(k)
  /\ proc' = [proc EXCEPT ![k] = "dead"]
  /\ UNCHANGED <<registration, client, tasks, stop, final, rest>>

\* Stops that wait for an answer of a connection that is closed under them reject,
\* because they close it again without looking.
Broken == [s \in Stops |-> IF stop[s].at = "asking" THEN NoStop ELSE stop[s]]

\* A stop whose request has ended closes the connection and goes on; the others find none.
HangsUp(s) ==
  /\ stop[s].at = "asking" /\ client' = FALSE
  /\ stop' = [Broken EXCEPT ![s] = [stop[s] EXCEPT !.at = "waiting"]]

\* The socket of a dead process closes, or that of a live one breaks: handleWorkerClose.
Closes ==
  /\ client /\ client' = FALSE
  /\ breaks' = IF Alive(desc.pid) THEN breaks + 1 ELSE breaks
  /\ breaks' <= MaxBreaks
  /\ stop' = Broken
  /\ closing' = (closing \/ ~intent)
  /\ UNCHANGED <<proc, registration, recovery, deferred, rounds, adopting, reclaiming, final,
                 owned, env, retries, crashes>>

CloseHandled ==
  /\ closing /\ closing' = FALSE
  /\ IF Candidate /\ recovery.at = "no"
       THEN Begin([desc EXCEPT !.life = "recovering"]) /\ onDisk' = TRUE
       ELSE UNCHANGED <<desc, recovery, onDisk>>
  /\ UNCHANGED <<proc, known, inMap, intent, client, deferred, rounds, adopting, reclaiming, stop, final, rest>>

\* The worker shuts down by itself and says so (session_closed).
Quits ==
  /\ client /\ inMap /\ proc[desc.pid] = "up" /\ recovery.at # "start"
  /\ intent' = TRUE
  /\ IF Idle THEN inMap' = FALSE /\ onDisk' = FALSE ELSE UNCHANGED <<inMap, onDisk>>
  /\ UNCHANGED <<proc, known, desc, client, tasks, stop, final, rest>>

-----------------------------------------------------------------------------
(* Recovery.                                                               *)

\* Slip: a silent worker is probed for ever.
DefersAgain(keep) == keep
\* deferWorkerRecovery, for a bounded number of rounds.
Defers(keep) == keep /\ rounds < MaxRounds

\* An attempt has failed: the connection is closed, and either there is another
\* attempt, or the worker is parked, or its probes are deferred.
Failed(keep) ==
  /\ client' = FALSE
  /\ stop' = Broken
  /\ IF Cancelled
       THEN recovery' = NoRecovery /\ UNCHANGED <<desc, onDisk, deferred, rounds>>
     ELSE IF recovery.try < MaxTries
       THEN /\ recovery' = [Starting EXCEPT !.try = recovery.try + 1]
            /\ onDisk' = TRUE /\ UNCHANGED <<desc, deferred, rounds>>
     ELSE /\ recovery' = NoRecovery /\ onDisk' = TRUE
          /\ deferred' = (deferred \/ Defers(keep))
          /\ rounds' = IF keep /\ ~deferred /\ rounds <= MaxRounds THEN rounds + 1 ELSE rounds
          /\ desc' = [desc EXCEPT !.life = IF keep /\ deferred' THEN "recovering" ELSE "failed"]

\* The delay is over: probe the process if it is or may be the worker's.  The
\* connection of a process that is gone closes sooner.  Whether a worker that is gone
\* can be launched again is decided before the cleanup.
Probe ==
  /\ recovery.at = "delay" /\ ~Cancelled /\ (client => Alive(desc.pid))
  /\ \E id \in Identity(desc.pid) :
       \/ /\ id = "current" \/ (id = "unknown" /\ ~known[desc.pid])
          /\ recovery' = [recovery EXCEPT !.at = "probe", !.keep = (id # "current")]
          /\ UNCHANGED <<desc, onDisk, client, deferred, rounds, stop>>
       \/ id = "unknown" /\ known[desc.pid] /\ Failed(TRUE)
       \/ /\ id = "gone"
          /\ recovery' = [recovery EXCEPT !.at = IF owned /\ env THEN "clean" ELSE "park"]
          /\ UNCHANGED <<desc, onDisk, client, deferred, rounds, stop>>
  /\ UNCHANGED <<proc, known, inMap, intent, closing, adopting, reclaiming, final, rest>>

RecoveryCancelled ==
  /\ \/ recovery.at \in {"delay", "refresh", "clean"} /\ Cancelled
     \/ recovery.at = "park" /\ CleanupCancelled
  /\ recovery' = NoRecovery
  /\ UNCHANGED <<proc, registration, client, closing, deferred, rounds, adopting, reclaiming, stop, final, rest>>

\* connectWorker: the new connection replaces any other.  That ends the request of a
\* stop that asks on the old one, and the stop closes the new one.
Asking == \E s \in Stops : stop[s].at = "asking"
NewClient ==
  \/ ~Asking /\ client' = TRUE /\ UNCHANGED stop
  \/ \E s \in Stops : HangsUp(s)

Connects(at, next) ==
  /\ recovery.at = at /\ proc[desc.pid] = "up"
  /\ recovery' = [recovery EXCEPT !.at = next]
  /\ NewClient
  /\ UNCHANGED <<proc, registration, closing, deferred, rounds, adopting, reclaiming, final, rest>>
ProbeConnects == Connects("probe", "refresh")

\* subscribeWorker and refreshWorkerSummaries.
ProbeAnswered ==
  /\ recovery.at = "refresh" /\ client /\ ~Cancelled
  /\ recovery' = [recovery EXCEPT !.at = "confirm"]
  /\ UNCHANGED <<proc, registration, client, closing, deferred, rounds, adopting, reclaiming, stop, final, rest>>

\* A timeout, an error, a connection that closes or a stop.
ProbeFails ==
  /\ recovery.at \in {"probe", "refresh"}
  /\ \E timeout \in BOOLEAN : Failed(timeout \/ recovery.keep)
  /\ UNCHANGED <<proc, known, inMap, intent, closing, adopting, reclaiming, final, rest>>

\* Nothing is looked at again after the wait for the ownership.
ProbeReady ==
  /\ recovery.at = "confirm"
  /\ recovery' = NoRecovery
  /\ desc' = [desc EXCEPT !.life = "ready"]
  /\ known' = [known EXCEPT ![desc.pid] = @ \/ Alive(desc.pid)]
  /\ onDisk' = TRUE /\ rounds' = 0
  /\ UNCHANGED <<proc, inMap, intent, client, closing, deferred, adopting, reclaiming, stop, final, rest>>

\* recoverUncertainWorkerOperations: busy operations are marked interrupted, and the
\* orphans reaped behind the last look at the tombstone.  Then the worker is launched
\* again, or parked, whatever was asked of it while the orphans were reaped.
Reaps ==
  /\ recovery.at = "park" /\ ~CleanupCancelled
  /\ recovery' = [recovery EXCEPT !.at = "reap"]
  /\ UNCHANGED <<proc, registration, client, closing, deferred, rounds, adopting, reclaiming, stop, final, rest>>

Cleaned ==
  /\ \/ /\ recovery.at = "clean" /\ ~Cancelled
        /\ recovery' = [recovery EXCEPT !.at = "spawn", !.same = TRUE]
        /\ UNCHANGED <<desc, onDisk>>
     \/ /\ recovery.at = "reap"
        /\ recovery' = NoRecovery /\ onDisk' = TRUE
        /\ desc' = [desc EXCEPT !.life = "failed"]
  /\ UNCHANGED <<proc, known, inMap, intent, client, closing, deferred, rounds, adopting, reclaiming, stop, final, rest>>

\* The catalog fails to record the interruption.
CleanFails ==
  /\ recovery.at \in {"clean", "park"} /\ Failed(FALSE)
  /\ UNCHANGED <<proc, known, inMap, intent, closing, adopting, reclaiming, final, rest>>

-----------------------------------------------------------------------------
(* launchWorker for a worker that exists.                                  *)

\* The descriptor is new and published, whatever happened during the spawn.
Spawned ==
  /\ recovery.at = "spawn"
  /\ \E k \in Pids, b \in BOOLEAN :
       /\ proc[k] = "unused" /\ \A j \in 1..k - 1 : proc[j] # "unused"
       /\ proc' = [proc EXCEPT ![k] = "up"]
       /\ known' = [known EXCEPT ![k] = b]
       /\ desc' = [pid |-> k, life |-> "starting", tomb |-> FALSE]
  /\ onDisk' = TRUE /\ inMap' = TRUE /\ intent' = FALSE
  /\ recovery' = [recovery EXCEPT !.at = "start"]
  /\ UNCHANGED <<client, closing, deferred, rounds, adopting, reclaiming, stop, final, rest>>

SpawnFails ==
  /\ recovery.at = "spawn" /\ Failed(FALSE)
  /\ UNCHANGED <<proc, known, inMap, intent, closing, adopting, reclaiming, final, rest>>

LaunchConnects == Connects("start", "create")

\* The session is created and its summaries are read.
Created ==
  /\ recovery.at = "create" /\ client /\ ~Cancelled /\ recovery.same
  /\ recovery' = [recovery EXCEPT !.at = "created"]
  /\ UNCHANGED <<proc, registration, client, closing, deferred, rounds, adopting, reclaiming, stop, final, rest>>

LaunchReady ==
  /\ recovery.at = "created"
  /\ recovery' = NoRecovery
  /\ desc' = [desc EXCEPT !.life = "ready"] /\ onDisk' = TRUE /\ rounds' = 0
  /\ UNCHANGED <<proc, known, inMap, intent, client, closing, deferred, adopting, reclaiming, stop, final, rest>>

-----------------------------------------------------------------------------
(* Stops.                                                                  *)

\* A connected worker is asked to shut down, another one is sent SIGTERM.
Ask(s, force, connected) ==
  stop' = [stop EXCEPT ![s] = [at |-> IF connected THEN "asking" ELSE "waiting",
                               pid |-> desc.pid, force |-> force]]

\* Whoever compares the stopRevision later finds another one.
Outdated(task) == IF task.at = "no" THEN task ELSE [task EXCEPT !.same = FALSE]

\* stopWorkerUntracked with removeDescriptor: a new stopRevision and the tombstone.
StopBegins(s, force) ==
  /\ stop[s].at = "no"
  /\ recovery' = Outdated(recovery) /\ final' = Outdated(final)
  /\ desc' = [desc EXCEPT !.tomb = TRUE] /\ intent' = TRUE /\ onDisk' = TRUE
  /\ Ask(s, force, client)

UserStops(s) ==
  /\ inMap
  /\ \E force \in BOOLEAN : StopBegins(s, force)
  /\ UNCHANGED <<proc, known, inMap, client, closing, deferred, rounds, adopting, reclaiming, rest>>

\* The launch failed: its process is stopped, and the descriptor stays.
LaunchFails ==
  /\ recovery.at \in {"start", "create"} /\ stop[Launcher].at = "no"
  /\ recovery' = [recovery EXCEPT !.at = "undo", !.resume = ~desc.tomb /\ recovery.same]
  /\ intent' = TRUE /\ onDisk' = TRUE
  /\ desc' = [desc EXCEPT !.life = "recovering"]
  /\ Ask(Launcher, TRUE, client)
  /\ UNCHANGED <<proc, known, inMap, client, closing, deferred, rounds, adopting, reclaiming, final, rest>>

\* The answer or its timeout.
Asked(s) ==
  /\ client /\ HangsUp(s)
  /\ UNCHANGED <<proc, registration, tasks, final, rest>>

\* SIGKILL, only to a process that is verified at that moment.
Kill(s) ==
  /\ stop[s].at = "waiting" /\ stop[s].force /\ Alive(stop[s].pid)
  /\ "current" \in Identity(stop[s].pid)
  /\ proc' = [proc EXCEPT ![stop[s].pid] = "dead"]
  /\ UNCHANGED <<registration, client, tasks, stop, final, rest>>

\* scheduleWorkerStopFinalization.
Finalize == IF final.at = "no" THEN [at |-> "waiting", pid |-> desc.pid, same |-> TRUE] ELSE final

\* The process is still there.  The finalizer polls more often than a stop gives up.
StopTimesOut(s) ==
  /\ stop[s].at = "waiting"
  /\ Alive(stop[s].pid)
  /\ ~(final.at = "waiting" /\ ~final.same)
  /\ intent' = desc.tomb
  /\ stop' = [stop EXCEPT ![s] = NoStop]
  /\ final' = IF s = Launcher THEN final ELSE Finalize
  /\ UNCHANGED <<proc, known, desc, onDisk, inMap, client, tasks, rest>>

\* Slip: the stop does not look whether it still applies.
AppliesAlways(s) == TRUE
\* assertStopStillApplies.
Applies(s) == desc.pid = stop[s].pid /\ (s = Launcher \/ desc.tomb)

Unregister(s) == stop' = [stop EXCEPT ![s] = NoStop] /\ inMap' = FALSE

\* The process is gone.  The schedules of a client-owned worker are cancelled first.
StopEnds(s) ==
  /\ stop[s].at = "waiting" /\ ~Alive(stop[s].pid)
  /\ IF ~Applies(s) THEN stop' = [stop EXCEPT ![s] = NoStop] /\ UNCHANGED <<inMap, onDisk>>
     ELSE IF owned /\ s # Launcher
       THEN stop' = [stop EXCEPT ![s].at = "cancel"] /\ UNCHANGED <<inMap, onDisk>>
     ELSE Unregister(s) /\ onDisk' = IF s = Launcher THEN onDisk ELSE FALSE
  /\ UNCHANGED <<proc, known, desc, intent, client, tasks, final, rest>>

\* Nothing is looked at again.  If that fails, the tombstone stays as the durable intent.
SchedulesCancelled(s) ==
  /\ stop[s].at = "cancel"
  /\ Unregister(s)
  /\ onDisk' \in {FALSE, onDisk}
  /\ UNCHANGED <<proc, known, desc, intent, client, tasks, final, rest>>

\* The launch's cleanup is over, and the launch throws.
LaunchUndone ==
  /\ recovery.at = "undo" /\ stop[Launcher].at = "no"
  /\ IF recovery.resume /\ ~desc.tomb /\ recovery.same
       THEN /\ intent' = FALSE /\ inMap' = TRUE /\ onDisk' = TRUE
            /\ desc' = [desc EXCEPT !.life = "recovering"]
       ELSE UNCHANGED <<desc, onDisk, inMap, intent>>
  /\ recovery' = [recovery EXCEPT !.at = "undone"]
  /\ UNCHANGED <<proc, known, client, closing, deferred, rounds, adopting, reclaiming, stop, final, rest>>

LaunchThrows ==
  /\ recovery.at = "undone" /\ Failed(FALSE)
  /\ UNCHANGED <<proc, known, inMap, intent, closing, adopting, reclaiming, final, rest>>

-----------------------------------------------------------------------------
(* finalizeTimedOutWorkerStop.                                             *)

FinalPolls ==
  /\ final.at = "waiting"
  /\ IF ~(inMap /\ final.same /\ desc.tomb /\ desc.pid = final.pid)
       THEN final' = NoFinal /\ UNCHANGED proc
       ELSE \/ ~Alive(final.pid) /\ final' = [final EXCEPT !.at = "cleanup"] /\ UNCHANGED proc
            \/ /\ Alive(final.pid) /\ "current" \in Identity(final.pid)
               /\ proc' = [proc EXCEPT ![final.pid] = "dead"] /\ UNCHANGED final
  /\ UNCHANGED <<registration, client, tasks, stop, rest>>

\* Cleanup is tried until it succeeds or is no longer wanted.
FinalStops ==
  /\ final.at = "cleanup" /\ stop[Finalizer].at = "no"
  /\ IF inMap /\ desc.tomb /\ desc.pid = final.pid
       THEN StopBegins(Finalizer, TRUE)
       ELSE final' = NoFinal /\ UNCHANGED <<desc, intent, onDisk, stop, recovery>>
  /\ UNCHANGED <<proc, known, inMap, client, closing, deferred, rounds, adopting, reclaiming, rest>>

-----------------------------------------------------------------------------
(* Deferred probes, retries and reclaims.                                  *)

DeferredFires ==
  /\ deferred
  /\ IF ~Candidate THEN deferred' = FALSE /\ UNCHANGED <<desc, recovery, onDisk>>
     ELSE /\ recovery.at = "no" /\ deferred' = FALSE
          /\ Begin([desc EXCEPT !.life = "recovering"]) /\ onDisk' = TRUE
  /\ UNCHANGED <<proc, known, inMap, intent, client, closing, rounds, adopting, reclaiming, stop, final, rest>>

\* retry_worker, and an owner that attaches with its environment.
Retry ==
  /\ inMap /\ Idle /\ retries < MaxRetries /\ retries' = retries + 1
  /\ intent' = FALSE /\ onDisk' = TRUE /\ rounds' = 0
  /\ \/ Begin([desc EXCEPT !.tomb = FALSE, !.life = "recovering"]) /\ UNCHANGED env
     \/ /\ owned /\ ~Stopping /\ (~client \/ desc.life # "ready")
        /\ env' = TRUE /\ desc' = [desc EXCEPT !.life = "recovering"]
        /\ recovery' = IF recovery.at = "no" THEN Starting ELSE recovery
  /\ UNCHANGED <<proc, known, inMap, client, owned, closing, deferred, adopting, reclaiming, stop, final,
                 breaks, crashes>>

\* A client opens the session of a worker that was stopped, or that failed.
ReclaimStopped ==
  /\ inMap /\ ~client /\ recovery.at = "no" /\ desc.tomb
  /\ "gone" \in Identity(desc.pid) /\ final.at = "no"
  /\ final' = Finalize
  /\ UNCHANGED <<proc, registration, client, tasks, stop, rest>>

ReclaimFailed ==
  /\ inMap /\ ~client /\ recovery.at = "no" /\ ~desc.tomb /\ desc.life = "failed" /\ ~owned
  /\ reclaiming = "no" /\ "gone" \in Identity(desc.pid)
  /\ reclaiming' = "marking" /\ intent' = TRUE
  /\ UNCHANGED <<proc, known, desc, onDisk, inMap, client, closing, recovery, deferred, rounds, adopting, stop, final, rest>>

\* It cleans up in the same way, and throws when it is cancelled or fails.
ReclaimReaps ==
  /\ reclaiming = "marking"
  /\ reclaiming' \in {"no"} \cup (IF CleanupCancelled THEN {} ELSE {"reaping"})
  /\ UNCHANGED <<proc, registration, client, closing, recovery, deferred, rounds, adopting, stop, final, rest>>

Reclaimed ==
  /\ reclaiming = "reaping" /\ reclaiming' = "no"
  /\ inMap' = FALSE /\ onDisk' = FALSE
  /\ UNCHANGED <<proc, known, desc, intent, client, closing, recovery, deferred, rounds, adopting, stop, final, rest>>

-----------------------------------------------------------------------------
(* The next supervisor.                                                    *)

\* The supervisor dies and another one loads the descriptor.  A process that waits for
\* its startup gate goes with it.
Restarts ==
  /\ crashes < MaxCrashes /\ crashes' = crashes + 1
  /\ \/ UNCHANGED proc
     \/ recovery.at = "start" /\ proc' = [proc EXCEPT ![desc.pid] = "dead"]
  /\ client' = FALSE /\ env' = FALSE /\ closing' = FALSE /\ recovery' = NoRecovery
  /\ deferred' = FALSE /\ rounds' = 0 /\ reclaiming' = "no"
  /\ stop' = [s \in Stops |-> NoStop] /\ final' = NoFinal
  /\ inMap' = onDisk /\ intent' = desc.tomb /\ desc' = [desc EXCEPT !.life = "recovering"]
  /\ adopting' = IF onDisk THEN "begin" ELSE "no"
  /\ UNCHANGED <<known, onDisk, owned, retries, breaks>>

\* adoptOrRecoverWorker: a tombstoned worker is stopped, a live one is connected to.
Adopts ==
  /\ adopting = "begin"
  /\ IF desc.tomb
       THEN /\ adopting' = "stop" /\ intent' = TRUE /\ onDisk' = TRUE
            \* A worker that authenticates shows that the pid is still its own.
            /\ desc' = desc
            /\ \/ UNCHANGED <<client, known>>
               \/ /\ ~known[desc.pid] /\ proc[desc.pid] = "up" /\ ~Asking
                  /\ client' = TRUE /\ known' = [known EXCEPT ![desc.pid] = TRUE]
            /\ Ask(Adopter, TRUE, client')
            /\ recovery' = Outdated(recovery) /\ final' = Outdated(final)
       ELSE /\ proc[desc.pid] = "up" /\ adopting' = "confirm" /\ NewClient
            /\ UNCHANGED <<known, desc, intent, onDisk, recovery, final>>
  /\ UNCHANGED <<proc, inMap, closing, deferred, rounds, reclaiming, rest>>

AdoptReady ==
  /\ adopting = "confirm" /\ adopting' = "no"
  /\ desc' = [desc EXCEPT !.life = "ready"]
  /\ known' = [known EXCEPT ![desc.pid] = @ \/ Alive(desc.pid)]
  /\ onDisk' = TRUE /\ rounds' = 0
  /\ UNCHANGED <<proc, inMap, intent, client, closing, recovery, deferred, reclaiming, stop, final, rest>>

AdoptFails ==
  /\ adopting \in {"begin", "confirm"} /\ ~(adopting = "begin" /\ desc.tomb)
  /\ adopting' = "no"
  /\ IF Cancelled THEN UNCHANGED <<desc, recovery, onDisk>>
                  ELSE Begin([desc EXCEPT !.life = "recovering"]) /\ onDisk' = TRUE
  /\ UNCHANGED <<proc, known, inMap, intent, client, closing, deferred, rounds, reclaiming, stop, final, rest>>

AdoptStopped ==
  /\ adopting = "stop" /\ stop[Adopter].at = "no" /\ adopting' = "no"
  /\ IF inMap THEN desc' = [desc EXCEPT !.life = "failed"] /\ onDisk' = TRUE
              ELSE UNCHANGED <<desc, onDisk>>
  /\ UNCHANGED <<proc, known, inMap, intent, client, closing, recovery, deferred, rounds, reclaiming, stop, final, rest>>

-----------------------------------------------------------------------------
Processes == (\E k \in Pids : Hangs(k) \/ Dies(k)) \/ Closes \/ CloseHandled \/ Quits
Recovers  == \/ Probe \/ RecoveryCancelled \/ ProbeConnects \/ ProbeAnswered \/ ProbeFails
             \/ ProbeReady \/ Reaps \/ Cleaned \/ CleanFails \/ DeferredFires
Launches  == \/ Spawned \/ SpawnFails \/ LaunchConnects \/ Created \/ LaunchReady
             \/ LaunchFails \/ LaunchUndone \/ LaunchThrows
StopsIt   == \/ \E s \in Stoppers : UserStops(s)
             \/ \E s \in Stops : Asked(s) \/ Kill(s) \/ StopTimesOut(s) \/ StopEnds(s) \/ SchedulesCancelled(s)
             \/ FinalPolls \/ FinalStops
Clients   == Retry \/ ReclaimStopped \/ ReclaimFailed \/ ReclaimReaps \/ Reclaimed
Adoption  == Restarts \/ Adopts \/ AdoptReady \/ AdoptFails \/ AdoptStopped
Next == Processes \/ Recovers \/ Launches \/ StopsIt \/ Clients \/ Adoption

\* The sockets of dead processes close, timers fire, requests end with an answer, an
\* error or a timeout, and whatever waited goes on; SIGKILL ends a process.
Fairness ==
  /\ WF_vars(~Alive(desc.pid) /\ Closes)
  /\ WF_vars(CloseHandled) /\ WF_vars(DeferredFires) /\ WF_vars(ReclaimReaps \/ Reclaimed)
  /\ WF_vars(Recovers \/ Launches)
  /\ \A s \in Stops : WF_vars(Asked(s) \/ Kill(s) \/ StopTimesOut(s) \/ StopEnds(s) \/ SchedulesCancelled(s))
  /\ WF_vars(FinalPolls \/ FinalStops)
  /\ WF_vars(Adopts \/ AdoptReady \/ AdoptFails \/ AdoptStopped)

Spec == Init /\ [][Next]_vars /\ Fairness

-----------------------------------------------------------------------------
Places == {"no", "delay", "probe", "refresh", "confirm", "clean", "park", "reap", "spawn", "start",
           "create", "created", "undo", "undone"}
DescRecord  == [pid : Pids, tomb : BOOLEAN, life : {"starting", "ready", "recovering", "failed"}]
RecoveryRecord ==
  [at : Places, try : 1..MaxTries, keep : BOOLEAN, same : BOOLEAN, resume : BOOLEAN]
StopRecord  == [at : {"no", "asking", "waiting", "cancel"}, pid : Pids, force : BOOLEAN]
FinalRecord == [at : {"no", "waiting", "cleanup"}, pid : Pids, same : BOOLEAN]
TypeOK ==
  /\ proc \in [Pids -> {"unused", "up", "mute", "dead"}]
  /\ known \in [Pids -> BOOLEAN]
  /\ desc \in DescRecord /\ recovery \in RecoveryRecord
  /\ onDisk \in BOOLEAN /\ inMap \in BOOLEAN /\ intent \in BOOLEAN /\ client \in BOOLEAN
  /\ owned \in BOOLEAN /\ env \in BOOLEAN /\ closing \in BOOLEAN
  /\ deferred \in BOOLEAN /\ reclaiming \in {"no", "marking", "reaping"}
  /\ adopting \in {"no", "begin", "confirm", "stop"} /\ rounds \in 0..(MaxRounds + 1)
  /\ stop \in [Stops -> StopRecord] /\ final \in FinalRecord
  /\ retries \in 0..MaxRetries /\ breaks \in 0..MaxBreaks /\ crashes \in 0..MaxCrashes

\* "Interruption marking and orphan reaping must never run against a possibly-active
\* worker" (restartPreRosterWorker, recoverWorker): they run only for dead processes.
CleanupIsSafe ==
  recovery.at \in {"clean", "park", "reap"} \/ reclaiming # "no" => ~Alive(desc.pid)

\* A session never has two worker processes, through recoveries, retries and stops.
OneProcess == Cardinality({k \in Pids : Alive(k)}) <= 1

\* A worker that recovers is connected, parked or stopped in the end.
RecoveringEnds ==
  (inMap /\ ~Stopping /\ desc.life = "recovering") ~>
    (~inMap \/ Stopping \/ desc.life \in {"ready", "failed"})

\* Whatever stops, recoveries and relaunches overlap, nothing unregisters a worker whose
\* process lives, or goes on to cancel its schedules (assertStopStillApplies,
\* isCleanupStillWanted, reclaimStaleWorkerRegistration), with two exceptions: a worker
\* that said it quits, and one that was relaunched while a stop of its predecessor waited
\* for the schedules to be cancelled, behind which the stop does not look again.
Unregisters == inMap /\ ~inMap'
CleansUp    == \E s \in Stops : stop[s].at # "cancel" /\ stop'[s].at = "cancel"
Overtaken   == \E s \in Stops : SchedulesCancelled(s) /\ stop[s].pid # desc.pid
OnlyTheDeadAreCleaned ==
  [][Unregisters \/ CleansUp => ~Alive(desc.pid) \/ Quits \/ Overtaken]_vars

\* "Retry transient cleanup failures ... so a dead worker's registration is never stranded
\* permanently" (finalizeTimedOutWorkerStop): a tombstoned worker whose process is dead is
\* unregistered, or its stop rescinded.
DeadIsUnregistered ==
  (inMap /\ desc.tomb /\ ~Alive(desc.pid)) ~> (~inMap \/ ~desc.tomb)
=============================================================================
