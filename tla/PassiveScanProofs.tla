-------------------------- MODULE PassiveScanProofs --------------------------
(***************************************************************************)
(* Proofs that lists are never served rows older than the last announced   *)
(* change.  Only an invalidation makes what was read stale, and it takes   *)
(* the newest epoch and the shared slot away in the same step; every other *)
(* operation on the scans keeps "no stale scan has the newest epoch, and   *)
(* the shared scan is not stale".                                          *)
(***************************************************************************)
EXTENDS PassiveScan, TLAPS

ScanRecs == [at : {"no", "reading", "read"}, owns : BOOLEAN, age : Ages, seeks : SUBSET Roots]
Scans == [Procs -> ScanRecs]
WakeRecs == [at : {"no", "scan", "loop", "launch"}, todo : SUBSET Roots, root : Roots \cup {Nobody}]
WorkerStates == {"none", "opening", "starting", "ready", "failed"}

\* What the scans sc and the shared slot i must satisfy.
Fresh(sc, i) ==
  /\ \A p \in Procs : sc[p].owns => sc[p].age # "stale"
  /\ i \in Procs => sc[i].age # "stale"

FreshInv == Fresh(scan, inflight) /\ snapshot # "stale"
IInv == TypeOK /\ FreshInv

-----------------------------------------------------------------------------
(* The operations on scans.                                                *)

LEMMA StartedScans ==
  ASSUME NEW sc \in Scans, NEW p \in Procs, NEW roots \in SUBSET Roots
  PROVE  /\ Started(sc, p, roots) \in Scans
         /\ \A i : Fresh(sc, i) => Fresh(Started(sc, p, roots), i)
         /\ Fresh(sc, Nobody) => Fresh(Started(sc, p, roots), p)
<1> DEFINE st == Started(sc, p, roots)
<1>1. \A q \in Procs : st[q] = IF q = p THEN Begun(roots) ELSE [sc[q] EXCEPT !.owns = FALSE]
  BY DEF Started
<1>2. Begun(roots) \in ScanRecs /\ Begun(roots).age = "current"
  BY DEF Begun, ScanRecs, Ages
<1>3. \A q \in Procs : /\ [sc[q] EXCEPT !.owns = FALSE] \in ScanRecs
                       /\ ~[sc[q] EXCEPT !.owns = FALSE].owns
                       /\ [sc[q] EXCEPT !.owns = FALSE].age = sc[q].age
  BY DEF Scans, ScanRecs
<1>4. st \in Scans
  BY <1>1, <1>2, <1>3 DEF Scans, Started
<1>5. \A i : Fresh(sc, i) => Fresh(st, i)
  BY <1>1, <1>2, <1>3 DEF Fresh
<1>6. Fresh(sc, Nobody) => Fresh(st, p)
  BY <1>1, <1>2, <1>3 DEF Fresh
<1> QED BY <1>4, <1>5, <1>6

LEMMA EndedScans ==
  ASSUME NEW sc \in Scans, NEW p \in Procs
  PROVE  /\ Ended(sc, p) \in Scans
         /\ \A i : Fresh(sc, i) => Fresh(Ended(sc, p), i)
<1>1. NoScan \in ScanRecs /\ NoScan.age = "current"
  BY DEF NoScan, ScanRecs, Ages
<1>2. \A q \in Procs : Ended(sc, p)[q] = IF q = p THEN NoScan ELSE sc[q]
  BY DEF Ended, Scans
<1>3. Ended(sc, p) \in Scans
  BY <1>1 DEF Ended, Scans
<1> QED BY <1>1, <1>2, <1>3 DEF Fresh

LEMMA BehindScans ==
  ASSUME NEW sc \in Scans, NEW stages
  PROVE  /\ Behind(sc, stages) \in Scans
         /\ \A i : Fresh(sc, i) => Fresh(Behind(sc, stages), i)
<1> DEFINE b == Behind(sc, stages)
<1>1. \A q \in Procs : b[q] = IF sc[q].at \in stages /\ sc[q].age = "current"
                                THEN [sc[q] EXCEPT !.age = "behind"] ELSE sc[q]
  BY DEF Behind
<1>2. \A q \in Procs : /\ [sc[q] EXCEPT !.age = "behind"] \in ScanRecs
                       /\ [sc[q] EXCEPT !.age = "behind"].age = "behind"
                       /\ sc[q] \in ScanRecs
  BY DEF Scans, ScanRecs, Ages
<1>3. b \in Scans
  BY <1>1, <1>2 DEF Scans, Behind
<1>4. \A q \in Procs : b[q].age = "stale" => b[q] = sc[q]
  BY <1>1, <1>2
<1>5. \A i : Fresh(sc, i) => Fresh(b, i)
  BY <1>4 DEF Fresh
<1> QED BY <1>3, <1>5

LEMMA OutdatedScans ==
  ASSUME NEW sc \in Scans
  PROVE  Outdated(sc) \in Scans /\ Fresh(Outdated(sc), Nobody)
<1> DEFINE o(q) == [sc[q] EXCEPT !.owns = FALSE,
                                 !.age = IF @ = "behind" THEN "stale" ELSE @]
<1>1. \A q \in Procs : o(q) \in ScanRecs /\ ~o(q).owns
  BY DEF Scans, ScanRecs, Ages
<1>2. Outdated(sc) \in Scans
  BY <1>1 DEF Outdated, Scans
<1>3. \A q \in Procs : ~Outdated(sc)[q].owns
  BY <1>1 DEF Outdated
<1> QED BY <1>2, <1>3, ScanAssumption DEF Fresh

LEMMA ScheduleScans ==
  ASSUME NEW sc \in Scans, NEW s \in SUBSET Roots, NEW ph, NEW i, Fresh(sc, i),
         Schedule(sc, s, ph)
  PROVE  scan' \in Scans /\ Fresh(scan', i) /\ queued' \in BOOLEAN /\ silent' \subseteq Roots
<1>1. Recompute \in Procs
  BY DEF Procs
<1>2. CASE scan' = sc
  BY <1>2 DEF Schedule
<1>3. CASE scan' = Started(sc, Recompute, Roots)
  BY <1>1, <1>3, StartedScans DEF Schedule
<1> QED BY <1>2, <1>3 DEF Schedule

LEMMA AgainScans ==
  ASSUME NEW sc \in Scans, NEW s \in SUBSET Roots, NEW i, Fresh(sc, i), Again(sc, s)
  PROVE  scan' \in Scans /\ Fresh(scan', i) /\ queued' \in BOOLEAN /\ silent' \subseteq Roots
<1>1. Recompute \in Procs
  BY DEF Procs
<1>2. CASE scan' = sc
  BY <1>2 DEF Again
<1>3. CASE scan' = Started(sc, Recompute, Roots)
  BY <1>1, <1>3, StartedScans DEF Again
<1> QED BY <1>2, <1>3 DEF Again

LEMMA BroadcastScans ==
  ASSUME NEW sc \in Scans, NEW ph, silent \subseteq Roots, Broadcast(sc, ph)
  PROVE  /\ scan' \in Scans /\ Fresh(scan', inflight') /\ queued' \in BOOLEAN
         /\ silent' \subseteq Roots /\ snapshot' = "none" /\ inflight' = Nobody
<1> DEFINE o == Outdated(Behind(sc, {"read"}))
<1>1. o \in Scans /\ Fresh(o, Nobody)
  BY BehindScans, OutdatedScans
<1>2. Schedule(o, silent, ph) /\ snapshot' = "none" /\ inflight' = Nobody
  BY DEF Broadcast, Invalidate
<1>3. scan' \in Scans /\ Fresh(scan', Nobody) /\ queued' \in BOOLEAN /\ silent' \subseteq Roots
  <2> HIDE DEF o
  <2> QED BY <1>1, <1>2, ScheduleScans
<1> QED BY <1>2, <1>3

LEMMA StoredIsFresh ==
  ASSUME TypeOK, FreshInv, NEW p \in Procs
  PROVE  Stored(p) \in {"none", "fresh", "stale"} /\ Stored(p) # "stale"
BY DEF TypeOK, FreshInv, Fresh, Stored
-----------------------------------------------------------------------------
(* The initial states and the actions.                                     *)

LEMMA InitInv ==
  ASSUME Init PROVE IInv
<1>1. scan \in Scans /\ Fresh(scan, Nobody)
  <2>1. NoScan \in ScanRecs /\ Begun(Roots) \in ScanRecs
    BY DEF NoScan, Begun, ScanRecs, Ages
  <2>2. NoScan.age = "current" /\ Begun(Roots).age = "current"
    BY DEF NoScan, Begun
  <2>3. \A p \in Procs : scan[p].age = "current"
    BY <2>2 DEF Init
  <2>4. scan \in Scans
    BY <2>1 DEF Init, Scans
  <2> QED BY <2>3, <2>4, ScanAssumption DEF Fresh
<1>2. NoWake \in WakeRecs
  BY DEF NoWake, WakeRecs
<1>3. wake \in [Wakes -> WakeRecs]
  BY <1>2 DEF Init
<1>4. job \in [Roots -> Runs]
  BY DEF Init, Runs
<1>5. 0 \in 0..MaxEdits /\ 0 \in 0..MaxPrepares
  BY ScanAssumption
<1> QED BY <1>1, <1>3, <1>4, <1>5 DEF Init, IInv, TypeOK, FreshInv, Scans, ScanRecs, WakeRecs

\* A scan that an action leaves as it is, or changes in what it has found, but not
\* in its age or epoch.
LEMMA ReadJobsInv ==
  ASSUME IInv, NEW p \in Procs, ReadJobs(p)
  PROVE  IInv'
<1>1. Found(p) \in SUBSET Roots
  BY DEF IInv, TypeOK, Found
<1>2. scan \in Scans /\ Fresh(scan, inflight)
  BY DEF IInv, TypeOK, FreshInv, Scans, ScanRecs
<1>3. scan' = [scan EXCEPT ![p] = [scan[p] EXCEPT !.at = "read", !.seeks = Found(p)]]
  BY <1>2 DEF ReadJobs, Scans, ScanRecs
<1>4. [scan[p] EXCEPT !.at = "read", !.seeks = Found(p)] \in ScanRecs
  BY <1>1, <1>2 DEF Scans, ScanRecs
<1>5. scan' \in Scans
  BY <1>2, <1>3, <1>4 DEF Scans
<1>6. \A q \in Procs : scan'[q].owns = scan[q].owns /\ scan'[q].age = scan[q].age
  BY <1>2, <1>3 DEF Scans, ScanRecs
<1>7. Fresh(scan', inflight)
  BY <1>2, <1>6 DEF Fresh
<1>8. UNCHANGED <<diskVars, worker, opens, snapshot, inflight, queued, silent, timer, wake, phaseVars>>
  BY DEF ReadJobs
<1> QED BY <1>5, <1>7, <1>8
        DEF IInv, TypeOK, FreshInv, Scans, ScanRecs, diskVars, phaseVars

LEMMA ServesInv ==
  ASSUME IInv, Serves
  PROVE  IInv'
<1> USE DEF diskVars, phaseVars
<1>0. /\ scan \in Scans /\ Fresh(scan, inflight) /\ silent \subseteq Roots
      /\ Nobody \notin Procs /\ Readers \subseteq Procs
  BY ScanAssumption DEF IInv, TypeOK, FreshInv, Scans, ScanRecs, Procs
<1>00. Fresh(scan, Nobody)
  BY <1>0 DEF Fresh
<1>1. ASSUME NEW s \in Readers, List(s) PROVE IInv'
  <2>1. scan' \in Scans /\ Fresh(scan', s)
    BY <1>0, <1>00, <1>1, StartedScans DEF List
  <2> QED BY <1>1, <2>1 DEF List, IInv, TypeOK, FreshInv, Scans, ScanRecs
<1>2. ASSUME NEW s \in Readers, Manage(s) PROVE IInv'
  <2>1. scan' \in Scans /\ Fresh(scan', inflight)
    BY <1>0, <1>2, StartedScans DEF Manage
  <2> QED BY <1>2, <2>1 DEF Manage, IInv, TypeOK, FreshInv, Scans, ScanRecs
<1>3. ASSUME NEW s \in Readers, ReadEnds(s) PROVE IInv'
  <2>1. scan' \in Scans /\ Fresh(scan', inflight)
    BY <1>0, <1>3, EndedScans DEF ReadEnds
  <2>2. Fresh(scan', inflight')
    BY <1>0, <1>3, <2>1 DEF ReadEnds, Fresh
  <2>3. snapshot' \in {"none", "fresh", "stale"} /\ snapshot' # "stale"
    BY <1>0, <1>3, StoredIsFresh DEF ReadEnds, IInv
  <2> QED BY <1>3, <2>1, <2>2, <2>3 DEF ReadEnds, IInv, TypeOK, FreshInv, Scans, ScanRecs
<1>4. ASSUME NEW s \in Readers, ManageEnds(s) PROVE IInv'
  <2>1. Ended(scan, s) \in Scans
    BY <1>0, EndedScans
  <2>2. /\ scan' \in Scans /\ Fresh(scan', inflight') /\ queued' \in BOOLEAN
        /\ silent' \subseteq Roots /\ snapshot' = "none" /\ inflight' = Nobody
    BY <1>0, <1>4, <2>1, BroadcastScans DEF ManageEnds
  <2>3. job' \in [Roots -> Runs]
    BY <1>4 DEF ManageEnds, IInv, TypeOK, Runs
  <2> QED BY <1>4, <2>2, <2>3 DEF ManageEnds, IInv, TypeOK, FreshInv, Scans, ScanRecs
<1>5. ASSUME NEW s \in Readers, ScanFails(s) PROVE IInv'
  <2>1. scan' \in Scans /\ Fresh(scan', inflight)
    BY <1>0, <1>5, EndedScans DEF ScanFails
  <2>2. Fresh(scan', inflight')
    BY <1>0, <1>5, <2>1 DEF ScanFails, Fresh
  <2>3. edits' \in 0..MaxEdits
    BY <1>5, ScanAssumption DEF ScanFails, IInv, TypeOK
  <2> QED BY <1>5, <2>1, <2>2, <2>3 DEF ScanFails, IInv, TypeOK, FreshInv, Scans, ScanRecs
<1> QED BY <1>1, <1>2, <1>3, <1>4, <1>5, ReadJobsInv DEF Serves

LEMMA UnannouncedType ==
  ASSUME IInv, NEW r \in Roots, Unannounced(r)
  PROVE  silent' \subseteq Roots /\ scan' \in Scans /\ Fresh(scan', inflight)
<1>1. scan \in Scans /\ Fresh(scan, inflight)
  BY DEF IInv, TypeOK, FreshInv, Scans, ScanRecs
<1>2. scan' \in Scans /\ Fresh(scan', inflight)
  BY <1>1, BehindScans DEF Unannounced
<1> QED BY <1>2 DEF Unannounced, IInv, TypeOK

LEMMA OpeningType ==
  ASSUME IInv, NEW r \in Roots, Opening(r)
  PROVE  /\ worker' \in [Roots -> WorkerStates] /\ silent' \subseteq Roots
         /\ scan' \in Scans /\ Fresh(scan', inflight)
<1>0. scan \in Scans /\ Fresh(scan, inflight)
  BY DEF IInv, TypeOK, FreshInv, Scans, ScanRecs
<1>1. scan' \in Scans /\ Fresh(scan', inflight)
  BY <1>0, UnannouncedType DEF Opening
<1>2. silent' \subseteq Roots
  BY UnannouncedType DEF Opening, IInv, TypeOK
<1> QED BY <1>1, <1>2 DEF Opening, IInv, TypeOK, WorkerStates

LEMMA WakesUpInv ==
  ASSUME IInv, WakesUp
  PROVE  IInv'
<1> USE DEF diskVars, phaseVars
<1>0. /\ scan \in Scans /\ Fresh(scan, inflight) /\ silent \subseteq Roots
      /\ wake \in [Wakes -> WakeRecs] /\ Recompute \in Procs /\ Wakes \subseteq Procs
  BY DEF IInv, TypeOK, FreshInv, Scans, ScanRecs, WakeRecs, Procs
<1>1. CASE RecomputeEnds
  <2>1. Ended(scan, Recompute) \in Scans /\ Fresh(Ended(scan, Recompute), inflight)
    BY <1>0, EndedScans
  <2>2. scan' \in Scans /\ Fresh(scan', inflight) /\ queued' \in BOOLEAN /\ silent' \subseteq Roots
    BY <1>0, <1>1, <2>1, AgainScans DEF RecomputeEnds
  <2>3. snapshot' \in {"none", "fresh", "stale"} /\ snapshot' # "stale"
    BY <1>0, <1>1, StoredIsFresh DEF RecomputeEnds, IInv
  <2> QED BY <1>1, <2>2, <2>3 DEF RecomputeEnds, IInv, TypeOK, FreshInv, Scans, ScanRecs
<1>2. CASE RecomputeFails
  <2>1. Ended(scan, Recompute) \in Scans /\ Fresh(Ended(scan, Recompute), inflight)
    BY <1>0, EndedScans
  <2>2. scan' \in Scans /\ Fresh(scan', inflight) /\ queued' \in BOOLEAN /\ silent' \subseteq Roots
    BY <1>0, <1>2, <2>1, AgainScans DEF RecomputeFails
  <2>3. edits' \in 0..MaxEdits
    BY <1>2, ScanAssumption DEF RecomputeFails, IInv, TypeOK
  <2> QED BY <1>2, <2>2, <2>3 DEF RecomputeFails, IInv, TypeOK, FreshInv, Scans, ScanRecs
<1>3. ASSUME NEW w \in Wakes, Fire(w) PROVE IInv'
  <2>1. scan' \in Scans /\ Fresh(scan', inflight)
    BY <1>0, <1>3, StartedScans DEF Fire
  <2>2. [wake[w] EXCEPT !.at = "scan"] \in WakeRecs
    BY <1>0 DEF WakeRecs
  <2>3. wake' \in [Wakes -> WakeRecs]
    BY <1>0, <1>3, <2>2 DEF Fire
  <2> QED BY <1>3, <2>1, <2>3 DEF Fire, IInv, TypeOK, FreshInv, Scans, ScanRecs, WakeRecs
<1>4. ASSUME NEW w \in Wakes, WakeReads(w) PROVE IInv'
  <2>1. scan' \in Scans /\ Fresh(scan', inflight)
    BY <1>0, <1>4, EndedScans DEF WakeReads
  <2>2. snapshot' \in {"none", "fresh", "stale"} /\ snapshot' # "stale"
    BY <1>0, <1>4, StoredIsFresh DEF WakeReads, IInv
  <2>3. [wake[w] EXCEPT !.at = "loop", !.todo = scan[w].seeks] \in WakeRecs
    BY <1>0 DEF WakeRecs, Scans, ScanRecs
  <2>4. wake' \in [Wakes -> WakeRecs]
    BY <1>0, <1>4, <2>3 DEF WakeReads
  <2> QED BY <1>4, <2>1, <2>2, <2>4 DEF WakeReads, IInv, TypeOK, FreshInv, Scans, ScanRecs, WakeRecs
<1>5. ASSUME NEW w \in Wakes, WakeScanFails(w) PROVE IInv'
  <2>1. Ended(scan, w) \in Scans /\ Fresh(Ended(scan, w), inflight)
    BY <1>0, EndedScans
  <2>2. scan' \in Scans /\ Fresh(scan', inflight) /\ queued' \in BOOLEAN /\ silent' \subseteq Roots
    BY <1>0, <1>5, <2>1, ScheduleScans DEF WakeScanFails
  <2>3. edits' \in 0..MaxEdits
    BY <1>5, ScanAssumption DEF WakeScanFails, IInv, TypeOK
  <2>4. wake' \in [Wakes -> WakeRecs]
    BY <1>0, <1>5 DEF WakeScanFails, NoWake, WakeRecs
  <2> QED BY <1>5, <2>2, <2>3, <2>4 DEF WakeScanFails, IInv, TypeOK, FreshInv, Scans, ScanRecs, WakeRecs
<1>6. ASSUME NEW w \in Wakes, WakeEnds(w) PROVE IInv'
  <2>1. scan' \in Scans /\ Fresh(scan', inflight) /\ queued' \in BOOLEAN /\ silent' \subseteq Roots
    BY <1>0, <1>6, ScheduleScans DEF WakeEnds
  <2>2. wake' \in [Wakes -> WakeRecs]
    BY <1>0, <1>6 DEF WakeEnds, NoWake, WakeRecs
  <2> QED BY <1>6, <2>1, <2>2 DEF WakeEnds, IInv, TypeOK, FreshInv, Scans, ScanRecs, WakeRecs
<1>7. ASSUME NEW w \in Wakes, NEW r \in Roots, WakeNext(w, r) PROVE IInv'
  <2>1. /\ worker' \in [Roots -> WorkerStates] /\ silent' \subseteq Roots
        /\ scan' \in Scans /\ Fresh(scan', inflight)
    BY <1>0, <1>7, OpeningType DEF WakeNext, IInv, TypeOK, WorkerStates
  <2>2. /\ [wake[w] EXCEPT !.todo = @ \ {r}] \in WakeRecs
        /\ [wake[w] EXCEPT !.todo = @ \ {r}, !.at = "launch", !.root = r] \in WakeRecs
    BY <1>0 DEF WakeRecs
  <2>3. wake' \in [Wakes -> WakeRecs]
    BY <1>0, <1>7, <2>2 DEF WakeNext
  <2> QED BY <1>7, <2>1, <2>3 DEF WakeNext, IInv, TypeOK, FreshInv, Scans, ScanRecs, WakeRecs, WorkerStates
<1> QED BY <1>1, <1>2, <1>3, <1>4, <1>5, <1>6, <1>7 DEF WakesUp

LEMMA ResumedType ==
  ASSUME IInv, NEW r \in Roots, Resumed(r)
  PROVE  wake' \in [Wakes -> WakeRecs] /\ opens' \subseteq Roots
<1>1. \A w \in Wakes : wake[w] \in WakeRecs
  BY DEF IInv, TypeOK, WakeRecs
<1>2. \A w \in Wakes : [wake[w] EXCEPT !.at = "loop", !.root = Nobody] \in WakeRecs
  BY <1>1 DEF WakeRecs
<1> QED BY <1>1, <1>2 DEF Resumed, IInv, TypeOK

LEMMA WorksInv ==
  ASSUME IInv, Works
  PROVE  IInv'
<1> USE DEF diskVars, phaseVars
<1>0. /\ scan \in Scans /\ Fresh(scan, inflight) /\ silent \subseteq Roots
      /\ worker \in [Roots -> WorkerStates]
  BY DEF IInv, TypeOK, FreshInv, Scans, ScanRecs, WorkerStates
<1>1. ASSUME NEW r \in Roots, Open(r) PROVE IInv'
  <2>1. /\ worker' \in [Roots -> WorkerStates] /\ silent' \subseteq Roots
        /\ scan' \in Scans /\ Fresh(scan', inflight)
    BY <1>0, <1>1, OpeningType DEF Open
  <2> QED BY <1>1, <2>1 DEF Open, IInv, TypeOK, FreshInv, Scans, ScanRecs, WorkerStates
<1>2. ASSUME NEW r \in Roots, Spawned(r) PROVE IInv'
  <2>1. scan' \in Scans /\ Fresh(scan', inflight)
    BY <1>0, <1>2, BehindScans DEF Spawned
  <2> QED BY <1>2, <2>1 DEF Spawned, IInv, TypeOK, FreshInv, Scans, ScanRecs
<1>3. ASSUME NEW r \in Roots, SpawnFails(r) PROVE IInv'
  <2>1. wake' \in [Wakes -> WakeRecs] /\ opens' \subseteq Roots
    BY <1>3, ResumedType DEF SpawnFails
  <2> QED BY <1>3, <2>1 DEF SpawnFails, IInv, TypeOK, FreshInv, Fresh, scanVars, WakeRecs
<1>4. ASSUME NEW r \in Roots, Launched(r) PROVE IInv'
  <2>1. wake' \in [Wakes -> WakeRecs] /\ opens' \subseteq Roots
    BY <1>4, ResumedType DEF Launched
  <2>2. /\ scan' \in Scans /\ Fresh(scan', inflight') /\ queued' \in BOOLEAN
        /\ silent' \subseteq Roots /\ snapshot' = "none" /\ inflight' = Nobody
    BY <1>0, <1>4, BroadcastScans DEF Launched
  <2>3. worker' \in [Roots -> WorkerStates]
    BY <1>0, <1>4 DEF Launched, WorkerStates
  <2> QED BY <1>4, <2>1, <2>2, <2>3
          DEF Launched, IInv, TypeOK, FreshInv, Scans, ScanRecs, WakeRecs, WorkerStates
<1>5. ASSUME NEW r \in Roots, RunsJob(r) PROVE IInv'
  <2>1. /\ scan' \in Scans /\ Fresh(scan', inflight') /\ queued' \in BOOLEAN
        /\ silent' \subseteq Roots /\ snapshot' = "none" /\ inflight' = Nobody
    BY <1>0, <1>5, BroadcastScans DEF RunsJob
  <2>2. job' \in [Roots -> Runs]
    BY <1>5 DEF RunsJob, IInv, TypeOK, Runs
  <2> QED BY <1>5, <2>1, <2>2 DEF RunsJob, IInv, TypeOK, FreshInv, Scans, ScanRecs
<1>6. ASSUME NEW r \in Roots, Stop(r) PROVE IInv'
  <2>1. /\ scan' \in Scans /\ Fresh(scan', inflight') /\ queued' \in BOOLEAN
        /\ silent' \subseteq Roots /\ snapshot' = "none" /\ inflight' = Nobody
    BY <1>0, <1>6, BroadcastScans DEF Stop
  <2>2. worker' \in [Roots -> WorkerStates]
    BY <1>0, <1>6 DEF Stop, WorkerStates
  <2> QED BY <1>6, <2>1, <2>2 DEF Stop, IInv, TypeOK, FreshInv, Scans, ScanRecs, WorkerStates
<1>7. ASSUME NEW r \in Roots, Dies(r) PROVE IInv'
  <2>1. edits' \in 0..MaxEdits
    BY <1>7, ScanAssumption DEF Dies, IInv, TypeOK
  <2> QED BY <1>7, <2>1 DEF Dies, IInv, TypeOK, FreshInv, Fresh, scanVars
<1>8. ASSUME NEW r \in Roots, ComesDue(r) PROVE IInv'
  <2>1. job' \in [Roots -> Runs]
    BY <1>8 DEF ComesDue, IInv, TypeOK, Runs
  <2> QED BY <1>8, <2>1 DEF ComesDue, IInv, TypeOK, FreshInv, Fresh, scanVars
<1>9. ASSUME NEW r \in Roots, Goodbye(r) PROVE IInv'
  <2>1. silent' \subseteq Roots /\ scan' \in Scans /\ Fresh(scan', inflight)
    BY <1>9, UnannouncedType DEF Goodbye
  <2> QED BY <1>9, <2>1 DEF Goodbye, IInv, TypeOK, FreshInv, Scans, ScanRecs, WorkerStates
<1> QED BY <1>1, <1>2, <1>3, <1>4, <1>5, <1>6, <1>7, <1>8, <1>9 DEF Works

LEMMA RestInv ==
  ASSUME IInv, Rename \/ Renamed \/ Restarts
  PROVE  IInv'
<1> USE DEF diskVars, phaseVars
<1>0. /\ scan \in Scans /\ Fresh(scan, inflight) /\ silent \subseteq Roots
      /\ worker \in [Roots -> WorkerStates]
  BY DEF IInv, TypeOK, FreshInv, Scans, ScanRecs, WorkerStates
<1>1. CASE Rename
  <2>1. scan' \in Scans /\ Fresh(scan', inflight)
    BY <1>0, <1>1, BehindScans DEF Rename
  <2>2. edits' \in 0..MaxEdits
    BY <1>1, ScanAssumption DEF Rename, IInv, TypeOK
  <2> QED BY <1>1, <2>1, <2>2 DEF Rename, IInv, TypeOK, FreshInv, Scans, ScanRecs
<1>2. CASE Renamed
  <2>1. scan' \in Scans /\ Fresh(scan', Nobody) /\ inflight' = Nobody /\ snapshot' = "none"
    BY <1>0, <1>2, OutdatedScans DEF Renamed, Invalidate
  <2> QED BY <1>2, <2>1 DEF Renamed, IInv, TypeOK, FreshInv, Scans, ScanRecs
<1>3. CASE Prepare
  <2>1. prepares' \in 0..MaxPrepares
    BY <1>3, ScanAssumption DEF Prepare, IInv, TypeOK
  <2> QED BY <1>3, <2>1 DEF Prepare, IInv, TypeOK, FreshInv, Fresh, scanVars
<1>4. CASE RollBack
  <2>1. scan' \in Scans /\ Fresh(scan', inflight) /\ queued' \in BOOLEAN /\ silent' \subseteq Roots
    BY <1>0, <1>4, ScheduleScans DEF RollBack
  <2> QED BY <1>4, <2>1 DEF RollBack, IInv, TypeOK, FreshInv, Scans, ScanRecs
<1>5. CASE Fence
  BY <1>5 DEF Fence, IInv, TypeOK, FreshInv, Fresh, scanVars
<1>6. CASE Commit
  <2>1. /\ scan' \in Scans /\ Fresh(scan', inflight') /\ queued' \in BOOLEAN
        /\ silent' \subseteq Roots /\ snapshot' = "none" /\ inflight' = Nobody
    BY <1>0, <1>6, BroadcastScans DEF Commit
  <2>2. worker' \in [Roots -> WorkerStates]
    BY <1>0, <1>6 DEF Commit, WorkerStates
  <2> QED BY <1>6, <2>1, <2>2 DEF Commit, IInv, TypeOK, FreshInv, Scans, ScanRecs, WorkerStates
<1> QED BY <1>1, <1>2, <1>3, <1>4, <1>5, <1>6 DEF Restarts

-----------------------------------------------------------------------------
(* The theorems.                                                           *)

\* The inductive invariant of the passive scans (claimPassiveScheduledJobsEpoch,
\* invalidatePassiveScheduledJobs, storePassiveScheduledJobs).
THEOREM PassiveScanInvariant == Spec => []IInv
<1>1. Init => IInv
  BY InitInv
<1>2. IInv /\ [Next]_vars => IInv'
  <2> SUFFICES ASSUME IInv, [Next]_vars PROVE IInv'
    OBVIOUS
  <2>1. CASE UNCHANGED vars
    BY <2>1 DEF IInv, TypeOK, FreshInv, Fresh, vars, diskVars, scanVars, phaseVars
  <2>2. CASE Next
    BY <2>2, ServesInv, WakesUpInv, WorksInv, RestInv DEF Next
  <2> QED BY <2>1, <2>2
<1> QED BY <1>1, <1>2, PTL DEF Spec

\* Type correctness of the scans, the snapshot, the timer and the wakes.
THEOREM PassiveScanTypeOK == Spec => []TypeOK
<1>1. IInv => TypeOK
  BY DEF IInv
<1> QED BY <1>1, PassiveScanInvariant, PTL

\* For any number of overlapping lists, commands, wakes and recomputes, a list is
\* never served rows older than the last announced change
\* (storePassiveScheduledJobs, sharedPassiveScheduledJobsScan).
THEOREM ListsAreServedFresh == Spec => []ServedIsFresh
<1>1. IInv => ServedIsFresh
  <2> SUFFICES ASSUME IInv PROVE ServedIsFresh
    OBVIOUS
  <2>1. inflight # Nobody => inflight \in Procs
    BY DEF IInv, TypeOK, Procs
  <2> QED BY <2>1 DEF IInv, FreshInv, Fresh, ServedIsFresh
<1> QED BY <1>1, PassiveScanInvariant, PTL
=============================================================================
