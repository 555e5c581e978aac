----------------------------- MODULE PassiveScan -----------------------------
(***************************************************************************)
(* The supervisor's view of the scheduled jobs of sessions that have no    *)
(* worker: scans of the disk, the snapshot that lists are served from, and *)
(* the timer that wakes a session whose job is due.  Scans overlap each    *)
(* other, invalidations, launches and the preparation of an update         *)
(* restart.  An action is the code between two awaits of the supervisor.   *)
(***************************************************************************)
EXTENDS Naturals, FiniteSets

CONSTANTS Roots,       \* root sessions, each with its scheduled jobs as one job
          Readers,     \* scans for lists (heartbeats_list, shared) and for commands
          Wakes,       \* runs of wakeDueScheduledSessions that may overlap
          Recompute,   \* the one scan of recomputeScheduledSessionWake
          Nobody,
          MaxEdits,    \* bound: renames, workers that die and scans that fail, together
          MaxPrepares  \* bound: update preparations

Procs == {Recompute} \cup Wakes \cup Readers

ASSUME ScanAssumption ==
  /\ Nobody \notin Procs /\ Recompute \notin Wakes \cup Readers /\ Wakes \cap Readers = {}
  /\ MaxEdits \in Nat /\ MaxPrepares \in Nat

VARIABLES
  job,        \* per root: the active job's next run: none, later or due
  worker,     \* per root: its worker, if there is one
  opens,      \* roots that a client's create command waits for
  renaming,   \* a rename or deletion is done and not yet announced
  scan,       \* scans in flight: whose epoch is the newest, and what they have read
  snapshot,   \* passiveScheduledJobs, as the age of its rows
  inflight,   \* passiveScheduledJobsScan
  queued,     \* scheduledWakeRecomputeQueued
  timer,      \* scheduledWakeTimer is set
  wake,       \* progress of each wake
  phase,      \* updateRestartPhase
  captured,   \* roots whose workers the preparation has taken
  silent,     \* history: roots changed since the last recompute without a call for one
  edits, prepares

diskVars == <<job, renaming, edits>>
scanVars == <<scan, snapshot, inflight, queued, silent>>
phaseVars == <<phase, captured, prepares>>
vars == <<diskVars, worker, opens, scanVars, timer, wake, phaseVars>>

Runs  == {"none", "later", "due"}
Ages  == {"current", "behind", "stale"}
\* seeks: the roots the caller looks for, and then those it found uncovered.
NoScan == [at |-> "no", owns |-> FALSE, age |-> "current", seeks |-> {}]
Begun(roots) == [at |-> "reading", owns |-> TRUE, age |-> "current", seeks |-> roots]
NoWake == [at |-> "no", todo |-> {}, root |-> Nobody]

Init ==
  /\ job \in [Roots -> {"none", "later"}]
  /\ worker = [r \in Roots |-> "none"] /\ opens = {}
  /\ renaming = FALSE
  \* The recompute that start() schedules.
  /\ scan = [p \in Procs |-> IF p = Recompute THEN Begun(Roots) ELSE NoScan]
  /\ snapshot = "none" /\ inflight = Nobody
  /\ queued = FALSE /\ timer = FALSE
  /\ wake = [w \in Wakes |-> NoWake]
  /\ phase = "none" /\ captured = {} /\ silent = {}
  /\ edits = 0 /\ prepares = 0

\* findWorkerBySessionFile finds any worker of the map, whatever its state.
Covered(r) == worker[r] \in {"starting", "ready", "failed"}

-----------------------------------------------------------------------------
(* Epochs.  Only whether a scan's epoch is the newest matters, so a scan  *)
(* owns the newest epoch until another scan or an invalidation claims one. *)

Started(sc, p, roots) ==
  [q \in Procs |-> IF q = p THEN Begun(roots) ELSE [sc[q] EXCEPT !.owns = FALSE]]
Ended(sc, p)   == [sc EXCEPT ![p] = NoScan]
\* The disk changed: what was read before is behind.
Behind(sc, stages) ==
  [p \in Procs |-> IF sc[p].at \in stages /\ sc[p].age = "current"
                     THEN [sc[p] EXCEPT !.age = "behind"] ELSE sc[p]]
\* The change was announced: what is behind is stale from now on, and no epoch
\* of before is the newest.
Outdated(sc) ==
  [p \in Procs |-> [sc[p] EXCEPT !.owns = FALSE,
                                 !.age = IF @ = "behind" THEN "stale" ELSE @]]

\* Slip: a scan always publishes.
StoreAlways(p) == IF scan[p].age = "stale" THEN "stale" ELSE "fresh"
\* storePassiveScheduledJobs.
Stored(p) == IF ~scan[p].owns THEN snapshot
             ELSE IF scan[p].age = "stale" THEN "stale" ELSE "fresh"

\* Slip: a call during a recompute is dropped.
ScheduleOnce(sc, s, ph) ==
  /\ queued' = FALSE
  /\ IF sc[Recompute].at = "no" /\ ph = "none"
       THEN scan' = Started(sc, Recompute, Roots) /\ silent' = {}
       ELSE scan' = sc /\ silent' = s
\* scheduleScheduledSessionWakeRecompute, where the scans are sc, s is silent and
\* the phase ph.  During a preparation the recompute returns at once.
Schedule(sc, s, ph) ==
  IF sc[Recompute].at # "no"
    THEN queued' = TRUE /\ scan' = sc /\ silent' = s
    ELSE /\ queued' = FALSE
         /\ IF ph = "none" THEN scan' = Started(sc, Recompute, Roots) /\ silent' = {}
                           ELSE scan' = sc /\ silent' = s

\* invalidatePassiveScheduledJobs, but for the scans, which are outdated.
Invalidate == snapshot' = "none" /\ inflight' = Nobody

\* broadcastHeartbeatsChanged after a change of jobs or residency.
Broadcast(sc, ph) ==
  /\ Invalidate
  /\ Schedule(Outdated(Behind(sc, {"read"})), silent, ph)

\* r's worker leaves the map and nothing is broadcast.  Only a recompute that has
\* not yet looked at the map will notice.
Unannounced(r) ==
  /\ scan' = Behind(scan, {"read"})
  /\ silent' = IF scan[Recompute].at = "reading" THEN silent ELSE silent \cup {r}

-----------------------------------------------------------------------------
(* Scans.                                                                  *)

\* A list with no snapshot, or with one older than five seconds, shares the
\* scan in flight or starts one.
List(s) ==
  /\ inflight = Nobody /\ scan[s].at = "no"
  /\ scan' = Started(scan, s, {}) /\ inflight' = s
  /\ UNCHANGED <<diskVars, worker, opens, snapshot, queued, silent, timer, wake, phaseVars>>

\* heartbeat_manage and cron_cancel: mutations, and they scan for themselves.
Manage(m) ==
  /\ phase = "none" /\ scan[m].at = "no"
  /\ scan' = Started(scan, m, Roots)
  /\ UNCHANGED <<diskVars, worker, opens, snapshot, inflight, queued, silent, timer, wake, phaseVars>>

\* The ledger's family is taken to be read when the scan starts, the worst case
\* for its age; the job files, and who is covered, in its synchronous rest.
Found(p) ==
  {r \in scan[p].seeks : /\ ~Covered(r)
                         /\ p = Recompute => job[r] # "none"
                         /\ p \in Wakes => job[r] = "due"}
ReadJobs(p) ==
  /\ scan[p].at = "reading"
  /\ scan' = [scan EXCEPT ![p].at = "read", ![p].seeks = Found(p)]
  /\ UNCHANGED <<diskVars, worker, opens, snapshot, inflight, queued, silent, timer, wake, phaseVars>>

\* The caller has the rows, and a list's slot is free if it is still its own.
ReadEnds(s) ==
  /\ scan[s].at = "read"
  /\ snapshot' = Stored(s)
  /\ inflight' = IF inflight = s THEN Nobody ELSE inflight
  /\ scan' = Ended(scan, s)
  /\ UNCHANGED <<diskVars, worker, opens, queued, silent, timer, wake, phaseVars>>

\* The command found its passive job and changes it in the file.
ManageEnds(m) ==
  /\ scan[m].at = "read"
  /\ \E r \in scan[m].seeks, run \in {"none", "later"} : job' = [job EXCEPT ![r] = run]
  /\ Broadcast(Ended(scan, m), phase)
  /\ UNCHANGED <<renaming, edits, worker, opens, timer, wake, phaseVars>>

\* family() rejects.  Who joined a list's scan gets the error.
ScanFails(s) ==
  /\ scan[s].at = "reading" /\ edits < MaxEdits
  /\ edits' = edits + 1
  /\ inflight' = IF inflight = s THEN Nobody ELSE inflight
  /\ scan' = Ended(scan, s)
  /\ UNCHANGED <<job, renaming, worker, opens, snapshot, queued, silent, timer, wake, phaseVars>>

-----------------------------------------------------------------------------
(* The timer.                                                              *)

\* The recompute's finally: once more, if it was called for meanwhile.
Again(sc, s) ==
  /\ queued' = FALSE
  /\ IF queued /\ phase = "none"
       THEN scan' = Started(sc, Recompute, Roots) /\ silent' = {}
       ELSE scan' = sc /\ silent' = s

RecomputeEnds ==
  /\ scan[Recompute].at = "read"
  /\ snapshot' = Stored(Recompute)
  /\ timer' = (phase = "none" /\ scan[Recompute].seeks # {})
  /\ Again(Ended(scan, Recompute), silent)
  /\ UNCHANGED <<diskVars, worker, opens, inflight, wake, phaseVars>>

\* It is only logged, and nothing tries again.
RecomputeFails ==
  /\ scan[Recompute].at = "reading" /\ edits < MaxEdits
  /\ edits' = edits + 1
  /\ Again(Ended(scan, Recompute), Roots)
  /\ UNCHANGED <<job, renaming, worker, opens, snapshot, inflight, timer, wake, phaseVars>>

\* The timer fires: at the earliest run, after a failure's delay, or at the
\* longest timeout there is.
Fire(w) ==
  /\ timer /\ wake[w].at = "no"
  /\ timer' = FALSE
  /\ IF phase = "none"
       THEN /\ scan' = Started(scan, w, {r \in Roots : job[r] = "due"})
            /\ wake' = [wake EXCEPT ![w].at = "scan"]
       ELSE UNCHANGED <<scan, wake>>
  /\ UNCHANGED <<diskVars, worker, opens, snapshot, inflight, queued, silent, phaseVars>>

WakeReads(w) ==
  /\ wake[w].at = "scan" /\ scan[w].at = "read"
  /\ snapshot' = Stored(w)
  /\ scan' = Ended(scan, w)
  /\ wake' = [wake EXCEPT ![w].at = "loop", ![w].todo = scan[w].seeks]
  /\ UNCHANGED <<diskVars, worker, opens, inflight, queued, silent, timer, phaseVars>>

WakeScanFails(w) ==
  /\ wake[w].at = "scan" /\ scan[w].at = "reading" /\ edits < MaxEdits
  /\ edits' = edits + 1
  /\ wake' = [wake EXCEPT ![w] = NoWake]
  /\ Schedule(Ended(scan, w), silent, phase)
  /\ UNCHANGED <<job, renaming, worker, opens, snapshot, inflight, timer, phaseVars>>

WakeEnds(w) ==
  /\ wake[w].at = "loop" /\ (phase # "none" \/ wake[w].todo = {})
  /\ wake' = [wake EXCEPT ![w] = NoWake]
  /\ Schedule(scan, silent, phase)
  /\ UNCHANGED <<diskVars, worker, opens, snapshot, inflight, timer, phaseVars>>

\* A launch of r begins, unless there is one to join.  A failed worker leaves the
\* map first (reclaimStaleWorkerRegistration).
Opening(r) ==
  /\ worker' = IF worker[r] = "starting" THEN worker ELSE [worker EXCEPT ![r] = "opening"]
  /\ IF worker[r] = "failed" THEN Unannounced(r) ELSE UNCHANGED <<scan, silent>>

\* createOrReuseWorker: a worker that is ready is reused, an opening one is
\* joined, a failed one is reclaimed if its process is gone.
WakeNext(w, r) ==
  /\ wake[w].at = "loop" /\ phase = "none" /\ r \in wake[w].todo
  /\ \/ /\ worker[r] \in {"ready", "failed"}
        /\ wake' = [wake EXCEPT ![w].todo = @ \ {r}]
        /\ UNCHANGED <<worker, silent, scan>>
     \/ /\ worker[r] # "ready"
        /\ wake' = [wake EXCEPT ![w].todo = @ \ {r}, ![w].at = "launch", ![w].root = r]
        /\ Opening(r)
  /\ UNCHANGED <<diskVars, opens, snapshot, inflight, queued, timer, phaseVars>>

-----------------------------------------------------------------------------
(* Workers.                                                                *)

\* Whoever waits for the launch of r goes on.
Resumed(r) ==
  /\ wake' = [w \in Wakes |-> IF wake[w].at = "launch" /\ wake[w].root = r
                                THEN [wake[w] EXCEPT !.at = "loop", !.root = Nobody] ELSE wake[w]]
  /\ opens' = opens \ {r}

\* A client's create command.
Open(r) ==
  /\ phase = "none" /\ r \notin opens /\ worker[r] # "ready"
  /\ opens' = opens \cup {r}
  /\ Opening(r)
  /\ UNCHANGED <<diskVars, snapshot, inflight, queued, timer, wake, phaseVars>>

\* launchWorker: the process has a descriptor and is in the map.
Spawned(r) ==
  /\ worker[r] = "opening"
  /\ worker' = [worker EXCEPT ![r] = "starting"]
  /\ scan' = Behind(scan, {"read"})
  /\ UNCHANGED <<diskVars, opens, snapshot, inflight, queued, silent, timer, wake, phaseVars>>

SpawnFails(r) ==
  /\ worker[r] = "opening"
  /\ worker' = [worker EXCEPT ![r] = "none"]
  /\ Resumed(r)
  /\ UNCHANGED <<diskVars, scanVars, timer, phaseVars>>

\* The created session answers; or it does not, and the worker is stopped.
Launched(r) ==
  /\ worker[r] = "starting"
  /\ \E result \in {"ready", "none"} : worker' = [worker EXCEPT ![r] = result]
  /\ Resumed(r)
  /\ Broadcast(scan, phase)
  /\ UNCHANGED <<diskVars, timer, phaseVars>>

\* The worker runs its due job and reports the change.
RunsJob(r) ==
  /\ worker[r] = "ready" /\ job[r] = "due" /\ r \notin captured
  /\ \E run \in {"none", "later"} : job' = [job EXCEPT ![r] = run]
  /\ Broadcast(scan, phase)
  /\ UNCHANGED <<renaming, edits, worker, opens, timer, wake, phaseVars>>

\* An eviction or a stop.
Stop(r) ==
  /\ phase = "none" /\ worker[r] \in {"ready", "failed"}
  /\ worker' = [worker EXCEPT ![r] = "none"]
  /\ Broadcast(scan, phase)
  /\ UNCHANGED <<diskVars, opens, timer, wake, phaseVars>>

\* The worker shuts down by itself: its session_closed event removes it.
Goodbye(r) ==
  /\ worker[r] = "ready"
  /\ worker' = [worker EXCEPT ![r] = "none"]
  /\ Unannounced(r)
  /\ UNCHANGED <<diskVars, opens, snapshot, inflight, queued, timer, wake, phaseVars>>

\* The process ends and recovery parks the worker.
Dies(r) ==
  /\ worker[r] = "ready" /\ edits < MaxEdits
  /\ edits' = edits + 1
  /\ worker' = [worker EXCEPT ![r] = "failed"]
  /\ UNCHANGED <<job, renaming, opens, scanVars, timer, wake, phaseVars>>

-----------------------------------------------------------------------------
(* The rest of the world.                                                  *)

ComesDue(r) ==
  /\ job[r] = "later"
  /\ job' = [job EXCEPT ![r] = "due"]
  /\ UNCHANGED <<renaming, edits, worker, opens, scanVars, timer, wake, phaseVars>>

\* rename_saved_session and delete_saved_session change what family() returns
\* and then invalidate.
Rename ==
  /\ phase = "none" /\ ~renaming /\ edits < MaxEdits
  /\ renaming' = TRUE /\ edits' = edits + 1
  /\ scan' = Behind(scan, {"reading", "read"})
  /\ UNCHANGED <<job, worker, opens, snapshot, inflight, queued, silent, timer, wake, phaseVars>>

Renamed ==
  /\ renaming /\ renaming' = FALSE
  /\ Invalidate /\ scan' = Outdated(scan)
  /\ UNCHANGED <<job, edits, worker, opens, queued, silent, timer, wake, phaseVars>>

-----------------------------------------------------------------------------
(* The preparation of an update restart.                                   *)

Prepare ==
  /\ phase = "none" /\ prepares < MaxPrepares
  /\ phase' = "draining" /\ prepares' = prepares + 1
  /\ UNCHANGED <<diskVars, worker, opens, scanVars, timer, wake, captured>>

\* Any error of the preparation.
RollBack ==
  /\ phase \in {"draining", "fencing"}
  /\ phase' = "none" /\ captured' = {}
  /\ Schedule(scan, silent, "none")
  /\ UNCHANGED <<diskVars, worker, opens, snapshot, inflight, timer, wake, prepares>>

\* The commands have drained, and every worker of the map is ready.
Fence ==
  /\ phase = "draining"
  /\ opens = {} /\ ~renaming
  /\ \A m \in Readers : scan[m].at = "no" \/ scan[m].seeks = {}
  /\ \A r \in Roots : Covered(r) => worker[r] = "ready"
  /\ phase' = "fencing" /\ captured' = {r \in Roots : worker[r] = "ready"}
  /\ UNCHANGED <<diskVars, worker, opens, scanVars, timer, wake, prepares>>

\* The workers have committed and are stopped, which broadcasts.
Commit ==
  /\ phase = "fencing" /\ \A r \in captured : worker[r] = "ready"
  /\ phase' = "prepared"
  /\ worker' = [r \in Roots |-> IF r \in captured THEN "none" ELSE worker[r]]
  /\ Broadcast(scan, "prepared")
  /\ UNCHANGED <<diskVars, opens, timer, wake, captured, prepares>>

-----------------------------------------------------------------------------
Serves == \/ \E s \in Readers : List(s) \/ Manage(s) \/ ReadEnds(s) \/ ManageEnds(s) \/ ScanFails(s)
          \/ \E p \in Procs : ReadJobs(p)
WakesUp == \/ RecomputeEnds \/ RecomputeFails
           \/ \E w \in Wakes : \/ Fire(w) \/ WakeReads(w) \/ WakeScanFails(w) \/ WakeEnds(w)
                               \/ \E r \in Roots : WakeNext(w, r)
Works == \E r \in Roots : \/ Open(r) \/ Spawned(r) \/ SpawnFails(r) \/ Launched(r)
                          \/ RunsJob(r) \/ Stop(r) \/ Goodbye(r) \/ Dies(r) \/ ComesDue(r)
Restarts == Prepare \/ RollBack \/ Fence \/ Commit
Next == Serves \/ WakesUp \/ Works \/ Rename \/ Renamed \/ Restarts

\* The recompute's and the wakes' reads return and their continuations run, an
\* armed timer fires, launches are answered, a preparation meets its deadline.
\* The steps of each follow one another, so one condition covers them.
Fairness ==
  /\ WF_vars(ReadJobs(Recompute) \/ RecomputeEnds)
  /\ \A w \in Wakes :
       WF_vars(\/ Fire(w) \/ ReadJobs(w) \/ WakeReads(w) \/ WakeEnds(w)
               \/ \E r \in Roots : WakeNext(w, r))
  /\ \A r \in Roots : WF_vars(Spawned(r) \/ SpawnFails(r) \/ Launched(r))
  /\ WF_vars(RollBack \/ Commit)

Spec == Init /\ [][Next]_vars /\ Fairness

-----------------------------------------------------------------------------
TypeOK ==
  /\ job \in [Roots -> Runs]
  /\ worker \in [Roots -> {"none", "opening", "starting", "ready", "failed"}]
  /\ opens \subseteq Roots /\ renaming \in BOOLEAN
  /\ scan \in [Procs -> [at : {"no", "reading", "read"}, owns : BOOLEAN, age : Ages, seeks : SUBSET Roots]]
  /\ snapshot \in {"none", "fresh", "stale"}
  /\ inflight \in Readers \cup {Nobody}
  /\ queued \in BOOLEAN /\ timer \in BOOLEAN
  /\ wake \in [Wakes -> [at : {"no", "scan", "loop", "launch"},
                         todo : SUBSET Roots, root : Roots \cup {Nobody}]]
  /\ phase \in {"none", "draining", "fencing", "prepared"}
  /\ captured \subseteq Roots /\ silent \subseteq Roots
  /\ edits \in 0..MaxEdits /\ prepares \in 0..MaxPrepares

\* What a list is answered from holds every change that was announced before the
\* list began: neither the snapshot nor the scan a list would join is older than
\* the last invalidation (storePassiveScheduledJobs, sharedPassiveScheduledJobsScan).
ServedIsFresh ==
  /\ snapshot # "stale"
  /\ inflight # Nobody => scan[inflight].age # "stale"

\* A job that is due in a session without a worker gets one launched, through
\* failed launches, overlapping wakes and preparations that are rolled back,
\* unless the last recompute failed or, since then, the session's worker left the map
\* unannounced: by its own goodbye (handleWorkerFrame) or to be replaced
\* (reclaimStaleWorkerRegistration), although "every ... worker residency change
\* lands here", in broadcastHeartbeatsChanged.
DueIsTried ==
  \A r \in Roots :
    (job[r] = "due" /\ worker[r] = "none") ~>
      (worker[r] # "none" \/ job[r] # "due" \/ phase = "prepared" \/ r \in silent)
=============================================================================
