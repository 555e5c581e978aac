------------------------- MODULE WorkerRecoveryProofs -------------------------
(***************************************************************************)
(* For any number of incarnations, stops, retries and restarts: uncertain  *)
(* operations are only cleaned up after a dead process, a session never    *)
(* has two processes, and only dead workers are unregistered.              *)
(***************************************************************************)
EXTENDS WorkerRecovery, FiniteSetTheorems, TLAPS

\* Only the process the descriptor names can be alive.
Sole == \A k \in Pids : Alive(k) => k = desc.pid

\* Whoever cleans up after it, or replaces it, has found it dead.
Gone == recovery.at \in {"clean", "park", "reap", "spawn"} \/ reclaiming # "no" => ~Alive(desc.pid)

\* Only client-owned workers are relaunched, only others are reclaimed.
Owners == (recovery.at \in {"clean", "spawn"} => owned) /\ (reclaiming # "no" => ~owned)

\* What the map holds is on disk, so a restart forgets no worker.
Recorded == inMap => onDisk

IInv == TypeOK /\ Sole /\ Gone /\ Owners /\ Recorded

-----------------------------------------------------------------------------
(* What the operators that several actions share do to the state.          *)

LEMMA Records ==
  /\ NoStop \in StopRecord /\ NoFinal \in FinalRecord
  /\ NoRecovery \in RecoveryRecord /\ Starting \in RecoveryRecord
  /\ NoRecovery.at = "no" /\ Starting.at = "delay"
<1>1. 1 \in Pids /\ 1 \in 1..MaxTries
  BY WorkerAssumption DEF Pids
<1>2. NoStop \in StopRecord /\ NoFinal \in FinalRecord
  BY <1>1 DEF NoStop, NoFinal, StopRecord, FinalRecord
<1>3. NoRecovery \in RecoveryRecord /\ NoRecovery.at = "no"
  BY <1>1 DEF NoRecovery, RecoveryRecord, Places
<1>4. Starting \in RecoveryRecord /\ Starting.at = "delay"
  BY <1>3 DEF Starting, RecoveryRecord, Places
<1>5. QED
  BY <1>2, <1>3, <1>4

\* What an action writes into the descriptor or the recovery leaves them records.
LEMMA Written ==
  ASSUME TypeOK
  PROVE  /\ \A l \in {"starting", "ready", "recovering", "failed"} :
              /\ [desc EXCEPT !.life = l] \in DescRecord /\ [desc EXCEPT !.life = l].pid = desc.pid
              /\ [desc EXCEPT !.tomb = FALSE, !.life = l] \in DescRecord
              /\ [desc EXCEPT !.tomb = FALSE, !.life = l].pid = desc.pid
         /\ [desc EXCEPT !.tomb = TRUE] \in DescRecord /\ [desc EXCEPT !.tomb = TRUE].pid = desc.pid
         /\ \A p \in Places : /\ [recovery EXCEPT !.at = p] \in RecoveryRecord
                              /\ [recovery EXCEPT !.at = p].at = p
         /\ [recovery EXCEPT !.at = "spawn", !.same = TRUE] \in RecoveryRecord
         /\ \A b \in BOOLEAN : /\ [recovery EXCEPT !.at = "probe", !.keep = b] \in RecoveryRecord
                               /\ [recovery EXCEPT !.at = "probe", !.keep = b].at = "probe"
<1>1. desc \in DescRecord /\ recovery \in RecoveryRecord
  BY DEF TypeOK
<1>2. QED
  BY <1>1 DEF DescRecord, RecoveryRecord, Places

LEMMA BrokenType ==
  ASSUME TypeOK
  PROVE  Broken \in [Stops -> StopRecord]
  BY Records DEF TypeOK, Broken

\* Whether a stop closes the new connection or not.
LEMMA HangsUpType ==
  ASSUME TypeOK, NEW s \in Stops, HangsUp(s)
  PROVE  client' \in BOOLEAN /\ stop' \in [Stops -> StopRecord]
<1>1. [stop[s] EXCEPT !.at = "waiting"] \in StopRecord
  BY DEF TypeOK, StopRecord
<1>2. QED
  BY <1>1, BrokenType DEF HangsUp

LEMMA NewClientType ==
  ASSUME TypeOK, NewClient
  PROVE  client' \in BOOLEAN /\ stop' \in [Stops -> StopRecord]
  BY HangsUpType DEF NewClient, TypeOK

LEMMA FinalizeType ==
  ASSUME TypeOK
  PROVE  Finalize \in FinalRecord
  BY DEF TypeOK, Finalize, FinalRecord, DescRecord

LEMMA OutdatedType ==
  ASSUME TypeOK
  PROVE  /\ Outdated(recovery) \in RecoveryRecord /\ Outdated(recovery).at = recovery.at
         /\ Outdated(final) \in FinalRecord
  BY DEF TypeOK, Outdated, RecoveryRecord, FinalRecord

LEMMA AskType ==
  ASSUME TypeOK, NEW s \in Stops, NEW f \in BOOLEAN, NEW c \in BOOLEAN, Ask(s, f, c)
  PROVE  stop' \in [Stops -> StopRecord]
<1>1. [at |-> IF c THEN "asking" ELSE "waiting", pid |-> desc.pid, force |-> f] \in StopRecord
  BY DEF TypeOK, StopRecord, DescRecord
<1>2. QED
  BY <1>1 DEF TypeOK, Ask

LEMMA BeginType ==
  ASSUME TypeOK, NEW d \in DescRecord, d.pid = desc.pid, Begin(d)
  PROVE  /\ desc' \in DescRecord /\ desc'.pid = desc.pid
         /\ recovery' \in RecoveryRecord /\ (recovery'.at = "delay" \/ recovery' = recovery)
  BY Records DEF TypeOK, Begin, DescRecord

\* A failed attempt leaves the process and the pid alone.
LEMMA FailedType ==
  ASSUME TypeOK, NEW keep \in BOOLEAN, Failed(keep)
  PROVE  /\ client' \in BOOLEAN /\ stop' \in [Stops -> StopRecord]
         /\ desc' \in DescRecord /\ desc'.pid = desc.pid
         /\ recovery' \in RecoveryRecord /\ recovery'.at \in {"no", "delay"}
         /\ onDisk' \in BOOLEAN /\ (onDisk => onDisk')
         /\ deferred' \in BOOLEAN /\ rounds' \in 0..(MaxRounds + 1)
<1>1. client' \in BOOLEAN /\ stop' \in [Stops -> StopRecord]
  BY BrokenType DEF Failed
<1>2. CASE Cancelled
  BY <1>1, <1>2, Records DEF Failed, TypeOK
<1>3. CASE ~Cancelled /\ recovery.try < MaxTries
  <2>1. recovery.try + 1 \in 1..MaxTries
    BY <1>3, WorkerAssumption DEF TypeOK, RecoveryRecord
  <2>2. [Starting EXCEPT !.try = recovery.try + 1] \in RecoveryRecord
    BY <2>1, Records DEF RecoveryRecord
  <2>3. [Starting EXCEPT !.try = recovery.try + 1].at = "delay"
    BY Records DEF RecoveryRecord
  <2>4. QED
    BY <1>1, <1>3, <2>2, <2>3 DEF Failed, TypeOK
<1>4. CASE ~Cancelled /\ ~(recovery.try < MaxTries)
  <2>1. rounds' \in 0..(MaxRounds + 1)
    BY <1>4, WorkerAssumption DEF Failed, TypeOK
  <2>2. deferred' \in BOOLEAN
    BY <1>4 DEF Failed, TypeOK, Defers
  <2>3. desc' \in DescRecord /\ desc'.pid = desc.pid
    BY <1>4 DEF Failed, TypeOK, DescRecord
  <2>4. QED
    BY <1>1, <1>4, <2>1, <2>2, <2>3, Records DEF Failed, TypeOK
<1>5. QED
  BY <1>2, <1>3, <1>4

-----------------------------------------------------------------------------
(* Every step keeps the invariant.                                         *)

LEMMA ProcessesKeep ==
  ASSUME IInv, Processes
  PROVE  IInv'
<1> USE WorkerAssumption DEF vars, registration, tasks, rest
<1>1. ASSUME NEW k \in Pids, Hangs(k)
      PROVE  IInv'
  <2>1. TypeOK'
    BY <1>1 DEF IInv, TypeOK, Hangs,
       DescRecord, RecoveryRecord, StopRecord, FinalRecord, Places, Alive
  <2>2. Sole' /\ Gone' /\ Owners' /\ Recorded'
    BY <1>1 DEF IInv, TypeOK, Sole, Gone, Owners, Recorded, Alive, Hangs, DescRecord,
       RecoveryRecord
  <2>3. QED
    BY <2>1, <2>2 DEF IInv
<1>2. ASSUME NEW k \in Pids, Dies(k)
      PROVE  IInv'
  <2>1. TypeOK'
    BY <1>2 DEF IInv, TypeOK, Dies,
       DescRecord, RecoveryRecord, StopRecord, FinalRecord, Places, Alive
  <2>2. Sole' /\ Gone' /\ Owners' /\ Recorded'
    BY <1>2 DEF IInv, TypeOK, Sole, Gone, Owners, Recorded, Alive, Dies, DescRecord,
       RecoveryRecord
  <2>3. QED
    BY <2>1, <2>2 DEF IInv
<1>3. ASSUME Closes
      PROVE  IInv'
  <2>1. TypeOK'
    <3>1. desc' \in DescRecord /\ recovery' \in RecoveryRecord
      BY <1>3, BrokenType DEF IInv, TypeOK, Closes, DescRecord, RecoveryRecord, Places
    <3>2. stop' \in [Stops -> StopRecord] /\ final' \in FinalRecord
      BY <1>3, BrokenType DEF IInv, TypeOK, Closes, DescRecord, StopRecord, FinalRecord
    <3>3. breaks' \in 0..MaxBreaks
      BY <1>3 DEF IInv, TypeOK, Closes
    <3>4. closing' \in BOOLEAN
      BY <1>3 DEF IInv, TypeOK, Closes, tasks
    <3>5. QED
      BY <1>3, <3>1, <3>2, <3>3, <3>4 DEF IInv, TypeOK, Closes
  <2>2. Sole' /\ Gone' /\ Owners' /\ Recorded'
    BY <1>3, BrokenType DEF IInv, TypeOK, Sole, Gone, Owners, Recorded, Alive, Closes,
       DescRecord, RecoveryRecord
  <2>3. QED
    BY <2>1, <2>2 DEF IInv
<1>4. ASSUME CloseHandled
      PROVE  IInv'
  <2>1. TypeOK'
    <3>1. desc' \in DescRecord /\ recovery' \in RecoveryRecord
      BY <1>4, BeginType DEF IInv, TypeOK, CloseHandled, DescRecord, RecoveryRecord, Places
    <3>2. stop' \in [Stops -> StopRecord] /\ final' \in FinalRecord
      BY <1>4, BeginType DEF IInv, TypeOK, CloseHandled, DescRecord, StopRecord, FinalRecord
    <3>3. QED
      BY <1>4, BeginType, <3>1, <3>2 DEF IInv, TypeOK, CloseHandled, Alive
  <2>2. Sole' /\ Gone' /\ Owners' /\ Recorded'
    BY <1>4, BeginType DEF IInv, TypeOK, Sole, Gone, Owners, Recorded, Alive, CloseHandled,
       DescRecord, RecoveryRecord
  <2>3. QED
    BY <2>1, <2>2 DEF IInv
<1>5. ASSUME Quits
      PROVE  IInv'
  <2>1. TypeOK'
    <3>1. desc' \in DescRecord /\ recovery' \in RecoveryRecord
      BY <1>5 DEF IInv, TypeOK, Quits, DescRecord, RecoveryRecord, Places
    <3>2. stop' \in [Stops -> StopRecord] /\ final' \in FinalRecord
      BY <1>5 DEF IInv, TypeOK, Quits, DescRecord, StopRecord, FinalRecord
    <3>3. QED
      BY <1>5, <3>1, <3>2 DEF IInv, TypeOK, Quits, Alive
  <2>2. Sole' /\ Gone' /\ Owners' /\ Recorded'
    BY <1>5 DEF IInv, TypeOK, Sole, Gone, Owners, Recorded, Alive, Quits, DescRecord,
       RecoveryRecord
  <2>3. QED
    BY <2>1, <2>2 DEF IInv
<1>6. QED
  BY <1>1, <1>2, <1>3, <1>4, <1>5 DEF Processes

LEMMA RecoversKeep ==
  ASSUME IInv, Recovers
  PROVE  IInv'
<1> USE WorkerAssumption DEF vars, registration, tasks, rest
<1>1. ASSUME Probe
      PROVE  IInv'
  <2>1. TypeOK
    BY DEF IInv
  <2>2. CASE \E keep \in BOOLEAN : Failed(keep)
    <3>1. PICK keep \in BOOLEAN : Failed(keep)
      BY <2>2
    <3>2. /\ client' \in BOOLEAN /\ stop' \in [Stops -> StopRecord]
          /\ desc' \in DescRecord /\ desc'.pid = desc.pid
          /\ recovery' \in RecoveryRecord /\ recovery'.at \in {"no", "delay"}
          /\ onDisk' \in BOOLEAN /\ (onDisk => onDisk')
          /\ deferred' \in BOOLEAN /\ rounds' \in 0..(MaxRounds + 1)
      BY <2>1, <3>1, FailedType
    <3>3. UNCHANGED <<proc, known, inMap, intent, closing, adopting, reclaiming, final, rest>>
      BY <1>1 DEF Probe
    <3>4. TypeOK'
      BY <2>1, <3>2, <3>3 DEF TypeOK
    <3>5. Sole' /\ Gone' /\ Owners' /\ Recorded'
      BY <3>2, <3>3 DEF IInv, Sole, Gone, Owners, Recorded, Alive
    <3>6. QED
      BY <3>4, <3>5 DEF IInv
  <2>3. CASE /\ recovery.at = "delay"
             /\ \/ recovery' \in {[recovery EXCEPT !.at = "probe", !.keep = b] : b \in BOOLEAN}
                \/ recovery' = [recovery EXCEPT !.at = IF owned /\ env THEN "clean" ELSE "park"] /\ ~Alive(desc.pid)
             /\ UNCHANGED <<desc, onDisk, client, deferred, rounds, stop>>
    <3>1. recovery' \in RecoveryRecord /\ recovery'.at \in {"probe", "park"} \cup (IF owned THEN {"clean"} ELSE {})
      <4>1. CASE \E b \in BOOLEAN : recovery' = [recovery EXCEPT !.at = "probe", !.keep = b]
        BY <2>1, <4>1, Written
      <4>2. CASE recovery' = [recovery EXCEPT !.at = IF owned /\ env THEN "clean" ELSE "park"]
        <5>1. "clean" \in Places /\ "park" \in Places
          BY DEF Places
        <5>2. QED
          BY <2>1, <4>2, <5>1, Written
      <4>3. QED
        BY <2>3, <4>1, <4>2
    <3>2. recovery'.at \in {"clean", "park"} => ~Alive(desc.pid)
      BY <2>1, <2>3 DEF TypeOK, RecoveryRecord
    <3>3. UNCHANGED <<proc, known, inMap, intent, closing, adopting, reclaiming, final, rest>>
      BY <1>1 DEF Probe
    <3>4. TypeOK'
      BY <2>1, <2>3, <3>1, <3>3 DEF TypeOK
    <3>5. Sole' /\ Gone' /\ Owners' /\ Recorded'
      BY <2>3, <3>1, <3>2, <3>3 DEF IInv, Sole, Gone, Owners, Recorded, Alive
    <3>6. QED
      BY <3>4, <3>5 DEF IInv
  <2>4. QED
    BY <1>1, <2>2, <2>3 DEF Probe, Identity
<1>2. ASSUME RecoveryCancelled
      PROVE  IInv'
  <2>1. TypeOK'
    BY <1>2, Records DEF IInv, TypeOK, RecoveryCancelled,
       DescRecord, RecoveryRecord, StopRecord, FinalRecord, Places, Alive
  <2>2. Sole' /\ Gone' /\ Owners' /\ Recorded'
    BY <1>2, Records DEF IInv, TypeOK, Sole, Gone, Owners, Recorded, Alive, RecoveryCancelled,
       DescRecord, RecoveryRecord
  <2>3. QED
    BY <2>1, <2>2 DEF IInv
<1>3. ASSUME ProbeConnects
      PROVE  IInv'
  <2>1. TypeOK'
    <3>1. recovery' \in RecoveryRecord
      BY <1>3, Written DEF IInv, ProbeConnects, Connects, Places
    <3>2. client' \in BOOLEAN /\ stop' \in [Stops -> StopRecord]
      BY <1>3, NewClientType DEF IInv, ProbeConnects, Connects
    <3>3. QED
      BY <1>3, <3>1, <3>2 DEF IInv, TypeOK, ProbeConnects, Connects
  <2>2. Sole' /\ Gone' /\ Owners' /\ Recorded'
    BY <1>3 DEF IInv, TypeOK, Sole, Gone, Owners, Recorded, Alive, ProbeConnects, Connects,
       DescRecord, RecoveryRecord
  <2>3. QED
    BY <2>1, <2>2 DEF IInv
<1>4. ASSUME ProbeAnswered
      PROVE  IInv'
  <2>1. TypeOK'
    BY <1>4 DEF IInv, TypeOK, ProbeAnswered,
       DescRecord, RecoveryRecord, StopRecord, FinalRecord, Places, Alive
  <2>2. Sole' /\ Gone' /\ Owners' /\ Recorded'
    BY <1>4 DEF IInv, TypeOK, Sole, Gone, Owners, Recorded, Alive, ProbeAnswered, DescRecord,
       RecoveryRecord
  <2>3. QED
    BY <2>1, <2>2 DEF IInv
<1>5. ASSUME ProbeFails
      PROVE  IInv'
  <2>1. TypeOK'
    BY <1>5, FailedType DEF IInv, TypeOK, ProbeFails,
       DescRecord, RecoveryRecord, StopRecord, FinalRecord, Places, Alive
  <2>2. Sole' /\ Gone' /\ Owners' /\ Recorded'
    BY <1>5, FailedType DEF IInv, TypeOK, Sole, Gone, Owners, Recorded, Alive, ProbeFails,
       DescRecord, RecoveryRecord
  <2>3. QED
    BY <2>1, <2>2 DEF IInv
<1>6. ASSUME ProbeReady
      PROVE  IInv'
  <2>1. TypeOK'
    BY <1>6, Records DEF IInv, TypeOK, ProbeReady,
       DescRecord, RecoveryRecord, StopRecord, FinalRecord, Places, Alive
  <2>2. Sole' /\ Gone' /\ Owners' /\ Recorded'
    BY <1>6, Records DEF IInv, TypeOK, Sole, Gone, Owners, Recorded, Alive, ProbeReady,
       DescRecord, RecoveryRecord
  <2>3. QED
    BY <2>1, <2>2 DEF IInv
<1>7. ASSUME Cleaned
      PROVE  IInv'
  <2>1. TypeOK'
    <3>1. desc' \in DescRecord /\ recovery' \in RecoveryRecord
      <4>1. CASE recovery.at = "clean"
        BY <1>7, <4>1, Written DEF IInv, TypeOK, Cleaned
      <4>2. CASE recovery.at # "clean"
        BY <1>7, <4>2, Records, Written DEF IInv, Cleaned
      <4>3. QED
        BY <4>1, <4>2
    <3>2. stop' \in [Stops -> StopRecord] /\ final' \in FinalRecord
      BY <1>7, Records DEF IInv, TypeOK, Cleaned, DescRecord, StopRecord, FinalRecord
    <3>3. QED
      BY <1>7, Records, <3>1, <3>2 DEF IInv, TypeOK, Cleaned, Alive
  <2>2. Sole' /\ Gone' /\ Owners' /\ Recorded'
    BY <1>7, Records DEF IInv, TypeOK, Sole, Gone, Owners, Recorded, Alive, Cleaned,
       DescRecord, RecoveryRecord
  <2>3. QED
    BY <2>1, <2>2 DEF IInv
<1>8. ASSUME DeferredFires
      PROVE  IInv'
  <2>1. TypeOK'
    <3>1. desc' \in DescRecord /\ recovery' \in RecoveryRecord
      BY <1>8, BeginType DEF IInv, TypeOK, DeferredFires, DescRecord, RecoveryRecord, Places
    <3>2. stop' \in [Stops -> StopRecord] /\ final' \in FinalRecord
      BY <1>8, BeginType DEF IInv, TypeOK, DeferredFires, DescRecord, StopRecord, FinalRecord
    <3>3. QED
      BY <1>8, BeginType, <3>1, <3>2 DEF IInv, TypeOK, DeferredFires, Alive
  <2>2. Sole' /\ Gone' /\ Owners' /\ Recorded'
    BY <1>8, BeginType DEF IInv, TypeOK, Sole, Gone, Owners, Recorded, Alive, DeferredFires,
       DescRecord, RecoveryRecord
  <2>3. QED
    BY <2>1, <2>2 DEF IInv
<1>9. ASSUME Reaps
      PROVE  IInv'
  <2>1. TypeOK'
    <3>1. recovery' \in RecoveryRecord
      BY <1>9, Written DEF IInv, Reaps, Places
    <3>2. QED
      BY <1>9, <3>1 DEF IInv, TypeOK, Reaps
  <2>2. Sole' /\ Gone' /\ Owners' /\ Recorded'
    BY <1>9 DEF IInv, TypeOK, Sole, Gone, Owners, Recorded, Alive, Reaps, DescRecord,
       RecoveryRecord
  <2>3. QED
    BY <2>1, <2>2 DEF IInv
<1>10. ASSUME CleanFails
       PROVE  IInv'
  <2>1. TypeOK'
    BY <1>10, FailedType DEF IInv, TypeOK, CleanFails
  <2>2. Sole' /\ Gone' /\ Owners' /\ Recorded'
    BY <1>10, FailedType DEF IInv, Sole, Gone, Owners, Recorded, Alive, CleanFails
  <2>3. QED
    BY <2>1, <2>2 DEF IInv
<1>11. QED
  BY <1>1, <1>2, <1>3, <1>4, <1>5, <1>6, <1>7, <1>8, <1>9, <1>10 DEF Recovers

LEMMA LaunchesKeep ==
  ASSUME IInv, Launches
  PROVE  IInv'
<1> USE WorkerAssumption DEF vars, registration, tasks, rest
<1>1. ASSUME Spawned
      PROVE  IInv'
  <2>1. TypeOK'
    <3>1. desc' \in DescRecord /\ recovery' \in RecoveryRecord
      BY <1>1 DEF IInv, TypeOK, Spawned, DescRecord, RecoveryRecord, Places
    <3>2. stop' \in [Stops -> StopRecord] /\ final' \in FinalRecord
      BY <1>1 DEF IInv, TypeOK, Spawned, DescRecord, StopRecord, FinalRecord
    <3>3. QED
      BY <1>1, <3>1, <3>2 DEF IInv, TypeOK, Spawned, Alive
  <2>2. Sole' /\ Gone' /\ Owners' /\ Recorded'
    BY <1>1 DEF IInv, TypeOK, Sole, Gone, Owners, Recorded, Alive, Spawned, DescRecord,
       RecoveryRecord
  <2>3. QED
    BY <2>1, <2>2 DEF IInv
<1>2. ASSUME SpawnFails
      PROVE  IInv'
  <2>1. TypeOK'
    <3>1. desc' \in DescRecord /\ recovery' \in RecoveryRecord
      BY <1>2, FailedType DEF IInv, TypeOK, SpawnFails, DescRecord, RecoveryRecord, Places
    <3>2. stop' \in [Stops -> StopRecord] /\ final' \in FinalRecord
      BY <1>2, FailedType DEF IInv, TypeOK, SpawnFails, DescRecord, StopRecord, FinalRecord
    <3>3. QED
      BY <1>2, FailedType, <3>1, <3>2 DEF IInv, TypeOK, SpawnFails, Alive
  <2>2. Sole' /\ Gone' /\ Owners' /\ Recorded'
    BY <1>2, FailedType DEF IInv, TypeOK, Sole, Gone, Owners, Recorded, Alive, SpawnFails,
       DescRecord, RecoveryRecord
  <2>3. QED
    BY <2>1, <2>2 DEF IInv
<1>3. ASSUME LaunchConnects
      PROVE  IInv'
  <2>1. TypeOK'
    <3>1. recovery' \in RecoveryRecord
      BY <1>3, Written DEF IInv, LaunchConnects, Connects, Places
    <3>2. client' \in BOOLEAN /\ stop' \in [Stops -> StopRecord]
      BY <1>3, NewClientType DEF IInv, LaunchConnects, Connects
    <3>3. QED
      BY <1>3, <3>1, <3>2 DEF IInv, TypeOK, LaunchConnects, Connects
  <2>2. Sole' /\ Gone' /\ Owners' /\ Recorded'
    BY <1>3 DEF IInv, TypeOK, Sole, Gone, Owners, Recorded, Alive, LaunchConnects, Connects,
       DescRecord, RecoveryRecord
  <2>3. QED
    BY <2>1, <2>2 DEF IInv
<1>4. ASSUME Created
      PROVE  IInv'
  <2>1. TypeOK'
    BY <1>4 DEF IInv, TypeOK, Created,
       DescRecord, RecoveryRecord, StopRecord, FinalRecord, Places, Alive
  <2>2. Sole' /\ Gone' /\ Owners' /\ Recorded'
    BY <1>4 DEF IInv, TypeOK, Sole, Gone, Owners, Recorded, Alive, Created, DescRecord,
       RecoveryRecord
  <2>3. QED
    BY <2>1, <2>2 DEF IInv
<1>5. ASSUME LaunchReady
      PROVE  IInv'
  <2>1. TypeOK'
    BY <1>5, Records DEF IInv, TypeOK, LaunchReady,
       DescRecord, RecoveryRecord, StopRecord, FinalRecord, Places, Alive
  <2>2. Sole' /\ Gone' /\ Owners' /\ Recorded'
    BY <1>5, Records DEF IInv, TypeOK, Sole, Gone, Owners, Recorded, Alive, LaunchReady,
       DescRecord, RecoveryRecord
  <2>3. QED
    BY <2>1, <2>2 DEF IInv
<1>6. ASSUME LaunchFails
      PROVE  IInv'
  <2>1. TypeOK'
    <3>1. desc' \in DescRecord /\ recovery' \in RecoveryRecord
      BY <1>6, AskType DEF IInv, TypeOK, LaunchFails, DescRecord, RecoveryRecord, Places
    <3>2. stop' \in [Stops -> StopRecord] /\ final' \in FinalRecord
      <4>1. Launcher \in Stops /\ TypeOK /\ Ask(Launcher, TRUE, client) /\ client \in BOOLEAN
        BY <1>6 DEF IInv, TypeOK, LaunchFails, Stops
      <4>2. QED
        BY <1>6, <4>1, AskType DEF TypeOK, LaunchFails
    <3>3. QED
      BY <1>6, AskType, <3>1, <3>2 DEF IInv, TypeOK, LaunchFails, Alive
  <2>2. Sole' /\ Gone' /\ Owners' /\ Recorded'
    BY <1>6, AskType DEF IInv, TypeOK, Sole, Gone, Owners, Recorded, Alive, LaunchFails,
       DescRecord, RecoveryRecord
  <2>3. QED
    BY <2>1, <2>2 DEF IInv
<1>7. ASSUME LaunchUndone
      PROVE  IInv'
  <2>1. TypeOK'
    <3>1. desc' \in DescRecord /\ recovery' \in RecoveryRecord
      BY <1>7 DEF IInv, TypeOK, LaunchUndone, DescRecord, RecoveryRecord, Places
    <3>2. stop' \in [Stops -> StopRecord] /\ final' \in FinalRecord
      BY <1>7 DEF IInv, TypeOK, LaunchUndone, DescRecord, StopRecord, FinalRecord
    <3>3. QED
      BY <1>7, <3>1, <3>2 DEF IInv, TypeOK, LaunchUndone, Alive
  <2>2. Sole' /\ Gone' /\ Owners' /\ Recorded'
    BY <1>7 DEF IInv, TypeOK, Sole, Gone, Owners, Recorded, Alive, LaunchUndone, DescRecord,
       RecoveryRecord
  <2>3. QED
    BY <2>1, <2>2 DEF IInv
<1>8. ASSUME LaunchThrows
      PROVE  IInv'
  <2>1. TypeOK'
    <3>1. desc' \in DescRecord /\ recovery' \in RecoveryRecord
      BY <1>8, FailedType DEF IInv, TypeOK, LaunchThrows, DescRecord, RecoveryRecord, Places
    <3>2. stop' \in [Stops -> StopRecord] /\ final' \in FinalRecord
      BY <1>8, FailedType DEF IInv, TypeOK, LaunchThrows, DescRecord, StopRecord, FinalRecord
    <3>3. QED
      BY <1>8, FailedType, <3>1, <3>2 DEF IInv, TypeOK, LaunchThrows, Alive
  <2>2. Sole' /\ Gone' /\ Owners' /\ Recorded'
    BY <1>8, FailedType DEF IInv, TypeOK, Sole, Gone, Owners, Recorded, Alive, LaunchThrows,
       DescRecord, RecoveryRecord
  <2>3. QED
    BY <2>1, <2>2 DEF IInv
<1>9. QED
  BY <1>1, <1>2, <1>3, <1>4, <1>5, <1>6, <1>7, <1>8 DEF Launches

LEMMA StopsKeep ==
  ASSUME IInv, StopsIt
  PROVE  IInv'
<1> USE WorkerAssumption DEF vars, registration, tasks, rest
<1>1. ASSUME NEW s \in Stoppers, UserStops(s)
      PROVE  IInv'
  <2>1. TypeOK'
    <3>1. desc' \in DescRecord /\ recovery' \in RecoveryRecord
      BY <1>1, AskType, OutdatedType, ZenonT(60) DEF IInv, TypeOK, UserStops, StopBegins, DescRecord,
         RecoveryRecord, Places
    <3>2. stop' \in [Stops -> StopRecord] /\ final' \in FinalRecord
      <4>1. PICK force \in BOOLEAN : StopBegins(s, force)
        BY <1>1 DEF UserStops
      <4>2. s \in Stops /\ TypeOK /\ Ask(s, force, client) /\ client \in BOOLEAN
        BY <4>1 DEF IInv, TypeOK, StopBegins, Stops
      <4>3. QED
        BY <4>1, <4>2, AskType, OutdatedType DEF StopBegins
    <3>3. QED
      BY <1>1, AskType, OutdatedType, <3>1, <3>2 DEF IInv, TypeOK, UserStops, StopBegins, Alive
  <2>2. Sole' /\ Gone' /\ Owners' /\ Recorded'
    BY <1>1, AskType, OutdatedType DEF IInv, TypeOK, Sole, Gone, Owners, Recorded, Alive,
       UserStops, StopBegins, DescRecord, RecoveryRecord
  <2>3. QED
    BY <2>1, <2>2 DEF IInv
<1>2. ASSUME NEW s \in Stops, Asked(s)
      PROVE  IInv'
  <2>1. TypeOK'
    BY <1>2, HangsUpType DEF IInv, TypeOK, Asked
  <2>2. Sole' /\ Gone' /\ Owners' /\ Recorded'
    BY <1>2 DEF IInv, Sole, Gone, Owners, Recorded, Alive, Asked
  <2>3. QED
    BY <2>1, <2>2 DEF IInv
<1>3. ASSUME NEW s \in Stops, Kill(s)
      PROVE  IInv'
  <2>1. TypeOK'
    BY <1>3 DEF IInv, TypeOK, Kill,
       DescRecord, RecoveryRecord, StopRecord, FinalRecord, Places, Alive
  <2>2. Sole' /\ Gone' /\ Owners' /\ Recorded'
    BY <1>3 DEF IInv, TypeOK, Sole, Gone, Owners, Recorded, Alive, Kill, DescRecord,
       RecoveryRecord
  <2>3. QED
    BY <2>1, <2>2 DEF IInv
<1>4. ASSUME NEW s \in Stops, StopTimesOut(s)
      PROVE  IInv'
  <2>1. TypeOK'
    BY <1>4, FinalizeType, Records DEF IInv, TypeOK, StopTimesOut,
       DescRecord, RecoveryRecord, StopRecord, FinalRecord, Places, Alive
  <2>2. Sole' /\ Gone' /\ Owners' /\ Recorded'
    BY <1>4, FinalizeType, Records DEF IInv, TypeOK, Sole, Gone, Owners, Recorded, Alive,
       StopTimesOut, DescRecord, RecoveryRecord
  <2>3. QED
    BY <2>1, <2>2 DEF IInv
<1>5. ASSUME NEW s \in Stops, StopEnds(s)
      PROVE  IInv'
  <2>1. TypeOK'
    <3>1. desc' \in DescRecord /\ recovery' \in RecoveryRecord
      BY <1>5, Records DEF IInv, TypeOK, StopEnds, Unregister, DescRecord, RecoveryRecord,
         Places
    <3>2. stop' \in [Stops -> StopRecord] /\ final' \in FinalRecord
      <4>1. [stop EXCEPT ![s] = NoStop] \in [Stops -> StopRecord]
        BY Records DEF IInv, TypeOK
      <4>2. [stop EXCEPT ![s].at = "cancel"] \in [Stops -> StopRecord]
        BY DEF IInv, TypeOK, StopRecord
      <4>3. stop' \in {[stop EXCEPT ![s] = NoStop], [stop EXCEPT ![s].at = "cancel"]} /\ final' = final
        BY <1>5 DEF StopEnds, Unregister
      <4>4. QED
        BY <4>1, <4>2, <4>3 DEF IInv, TypeOK
    <3>3. QED
      BY <1>5, Records, <3>1, <3>2 DEF IInv, TypeOK, StopEnds, Unregister, Alive
  <2>2. Sole' /\ Gone' /\ Owners' /\ Recorded'
    BY <1>5, Records DEF IInv, TypeOK, Sole, Gone, Owners, Recorded, Alive, StopEnds,
       Unregister, DescRecord, RecoveryRecord
  <2>3. QED
    BY <2>1, <2>2 DEF IInv
<1>6. ASSUME NEW s \in Stops, SchedulesCancelled(s)
      PROVE  IInv'
  <2>1. TypeOK'
    <3>1. desc' \in DescRecord /\ recovery' \in RecoveryRecord
      BY <1>6, Records DEF IInv, TypeOK, SchedulesCancelled, Unregister, DescRecord,
         RecoveryRecord, Places
    <3>2. stop' \in [Stops -> StopRecord] /\ final' \in FinalRecord
      BY <1>6, Records DEF IInv, TypeOK, SchedulesCancelled, Unregister, DescRecord,
         StopRecord, FinalRecord
    <3>3. QED
      BY <1>6, Records, <3>1, <3>2 DEF IInv, TypeOK, SchedulesCancelled, Unregister, Alive
  <2>2. Sole' /\ Gone' /\ Owners' /\ Recorded'
    BY <1>6, Records DEF IInv, TypeOK, Sole, Gone, Owners, Recorded, Alive, SchedulesCancelled,
       Unregister, DescRecord, RecoveryRecord
  <2>3. QED
    BY <2>1, <2>2 DEF IInv
<1>7. ASSUME FinalPolls
      PROVE  IInv'
  <2>1. TypeOK'
    BY <1>7, Records DEF IInv, TypeOK, FinalPolls,
       DescRecord, RecoveryRecord, StopRecord, FinalRecord, Places, Alive
  <2>2. Sole' /\ Gone' /\ Owners' /\ Recorded'
    BY <1>7, Records DEF IInv, TypeOK, Sole, Gone, Owners, Recorded, Alive, FinalPolls,
       DescRecord, RecoveryRecord
  <2>3. QED
    BY <2>1, <2>2 DEF IInv
<1>8. ASSUME FinalStops
      PROVE  IInv'
  <2>1. TypeOK /\ desc \in DescRecord /\ recovery \in RecoveryRecord
    BY DEF IInv, TypeOK
  <2>2. /\ desc' \in DescRecord /\ desc'.pid = desc.pid /\ intent' \in BOOLEAN /\ onDisk' \in BOOLEAN /\ (onDisk => onDisk')
        /\ recovery' \in RecoveryRecord /\ recovery'.at = recovery.at
        /\ stop' \in [Stops -> StopRecord] /\ final' \in FinalRecord
    <3>1. CASE StopBegins(Finalizer, TRUE)
      <4>1. Finalizer \in Stops /\ Ask(Finalizer, TRUE, client) /\ client \in BOOLEAN
        BY <2>1, <3>1 DEF TypeOK, StopBegins, Stops
      <4>2. QED
        BY <2>1, <3>1, <4>1, AskType, OutdatedType, Written DEF StopBegins
    <3>2. CASE final' = NoFinal /\ UNCHANGED <<desc, intent, onDisk, stop, recovery>>
      BY <2>1, <3>2, Records DEF TypeOK
    <3>3. QED
      BY <1>8, <3>1, <3>2 DEF FinalStops
  <2>3. TypeOK'
    BY <1>8, <2>1, <2>2 DEF TypeOK, FinalStops
  <2>4. Sole' /\ Gone' /\ Owners' /\ Recorded'
    BY <1>8, <2>2 DEF IInv, Sole, Gone, Owners, Recorded, Alive, FinalStops
  <2>5. QED
    BY <2>3, <2>4 DEF IInv
<1>9. QED
  BY <1>1, <1>2, <1>3, <1>4, <1>5, <1>6, <1>7, <1>8 DEF StopsIt

LEMMA ClientsKeep ==
  ASSUME IInv, Clients
  PROVE  IInv'
<1> USE WorkerAssumption DEF vars, registration, tasks, rest
<1>1. ASSUME Retry
      PROVE  IInv'
  <2>1. TypeOK'
    <3>1. TypeOK
      BY DEF IInv
    <3>2. desc' \in DescRecord /\ recovery' \in RecoveryRecord
      <4>1. CASE Begin([desc EXCEPT !.tomb = FALSE, !.life = "recovering"])
        BY <3>1, <4>1, Written, BeginType
      <4>2. CASE /\ desc' = [desc EXCEPT !.life = "recovering"]
                 /\ recovery' = IF recovery.at = "no" THEN Starting ELSE recovery
        BY <3>1, <4>2, Written, Records DEF TypeOK
      <4>3. QED
        BY <1>1, <4>1, <4>2 DEF Retry
    <3>3. env' \in BOOLEAN
      BY <1>1 DEF IInv, TypeOK, Retry
    <3>4. retries' \in 0..MaxRetries
      BY <1>1, <3>1 DEF TypeOK, Retry
    <3>5. intent' = FALSE /\ onDisk' = TRUE /\ rounds' = 0
      BY <1>1 DEF Retry
    <3>6. UNCHANGED <<proc, known, inMap, client, owned, closing, deferred, adopting, reclaiming,
                      stop, final, breaks, crashes>>
      BY <1>1 DEF Retry
    <3>7. rounds' \in 0..(MaxRounds + 1)
      BY <3>5
    <3>8. QED
      BY <3>1, <3>2, <3>3, <3>4, <3>5, <3>6, <3>7 DEF TypeOK
  <2>2. Sole' /\ Gone' /\ Owners' /\ Recorded'
    BY <1>1, BeginType, Records DEF IInv, TypeOK, Sole, Gone, Owners, Recorded, Alive, Retry,
       DescRecord, RecoveryRecord
  <2>3. QED
    BY <2>1, <2>2 DEF IInv
<1>2. ASSUME ReclaimStopped
      PROVE  IInv'
  <2>1. TypeOK'
    BY <1>2, FinalizeType DEF IInv, TypeOK, ReclaimStopped,
       DescRecord, RecoveryRecord, StopRecord, FinalRecord, Places, Alive
  <2>2. Sole' /\ Gone' /\ Owners' /\ Recorded'
    BY <1>2, FinalizeType DEF IInv, TypeOK, Sole, Gone, Owners, Recorded, Alive,
       ReclaimStopped, DescRecord, RecoveryRecord
  <2>3. QED
    BY <2>1, <2>2 DEF IInv
<1>3. ASSUME ReclaimFailed
      PROVE  IInv'
  <2>1. TypeOK'
    BY <1>3 DEF IInv, TypeOK, ReclaimFailed, Identity,
       DescRecord, RecoveryRecord, StopRecord, FinalRecord, Places, Alive
  <2>2. Sole' /\ Gone' /\ Owners' /\ Recorded'
    BY <1>3 DEF IInv, TypeOK, Sole, Gone, Owners, Recorded, Alive, ReclaimFailed, Identity,
       DescRecord, RecoveryRecord
  <2>3. QED
    BY <2>1, <2>2 DEF IInv
<1>4. ASSUME Reclaimed
      PROVE  IInv'
  <2>1. TypeOK'
    <3>1. desc' \in DescRecord /\ recovery' \in RecoveryRecord
      BY <1>4 DEF IInv, TypeOK, Reclaimed, DescRecord, RecoveryRecord, Places
    <3>2. stop' \in [Stops -> StopRecord] /\ final' \in FinalRecord
      BY <1>4 DEF IInv, TypeOK, Reclaimed, DescRecord, StopRecord, FinalRecord
    <3>3. QED
      BY <1>4, <3>1, <3>2 DEF IInv, TypeOK, Reclaimed, Alive
  <2>2. Sole' /\ Gone' /\ Owners' /\ Recorded'
    BY <1>4 DEF IInv, TypeOK, Sole, Gone, Owners, Recorded, Alive, Reclaimed, DescRecord,
       RecoveryRecord
  <2>3. QED
    BY <2>1, <2>2 DEF IInv
<1>5. ASSUME ReclaimReaps
      PROVE  IInv'
  <2>1. TypeOK'
    BY <1>5 DEF IInv, TypeOK, ReclaimReaps
  <2>2. Sole' /\ Gone' /\ Owners' /\ Recorded'
    BY <1>5 DEF IInv, TypeOK, Sole, Gone, Owners, Recorded, Alive, ReclaimReaps
  <2>3. QED
    BY <2>1, <2>2 DEF IInv
<1>6. QED
  BY <1>1, <1>2, <1>3, <1>4, <1>5 DEF Clients

LEMMA AdoptionKeeps ==
  ASSUME IInv, Adoption
  PROVE  IInv'
<1> USE WorkerAssumption DEF vars, registration, tasks, rest
<1>1. ASSUME Restarts
      PROVE  IInv'
  <2>1. TypeOK'
    <3>1. desc' \in DescRecord /\ recovery' \in RecoveryRecord
      BY <1>1, Records DEF IInv, TypeOK, Restarts, DescRecord, RecoveryRecord, Places
    <3>2. stop' \in [Stops -> StopRecord] /\ final' \in FinalRecord
      BY <1>1, Records DEF IInv, TypeOK, Restarts, DescRecord, StopRecord, FinalRecord
    <3>3. proc' \in [Pids -> {"unused", "up", "mute", "dead"}]
      BY <1>1 DEF IInv, TypeOK, Restarts
    <3>4. crashes' \in 0..MaxCrashes /\ rounds' \in 0..(MaxRounds + 1)
      BY <1>1 DEF IInv, TypeOK, Restarts
    <3>5. inMap' \in BOOLEAN /\ intent' \in BOOLEAN /\ adopting' \in {"no", "begin", "confirm", "stop"}
      BY <1>1 DEF IInv, TypeOK, Restarts, DescRecord
    <3>6. QED
      BY <1>1, <3>1, <3>2, <3>3, <3>4, <3>5 DEF IInv, TypeOK, Restarts
  <2>2. Sole' /\ Gone' /\ Owners' /\ Recorded'
    BY <1>1, Records DEF IInv, TypeOK, Sole, Gone, Owners, Recorded, Alive, Restarts,
       DescRecord, RecoveryRecord
  <2>3. QED
    BY <2>1, <2>2 DEF IInv
<1>2. ASSUME Adopts
      PROVE  IInv'
  <2>1. TypeOK'
    <3>1. desc' \in DescRecord /\ recovery' \in RecoveryRecord /\ final' \in FinalRecord
      BY <1>2, OutdatedType DEF IInv, TypeOK, Adopts
    <3>2. stop' \in [Stops -> StopRecord] /\ client' \in BOOLEAN
      <4>1. CASE desc.tomb
        <5>1. client' \in BOOLEAN /\ Adopter \in Stops /\ Ask(Adopter, TRUE, client') /\ TypeOK
          BY <1>2, <4>1 DEF IInv, TypeOK, Adopts, Stops
        <5>2. QED
          BY <5>1, AskType
      <4>2. CASE ~desc.tomb
        BY <1>2, <4>2, NewClientType DEF IInv, Adopts
      <4>3. QED
        BY <4>1, <4>2
    <3>3. QED
      BY <1>2, AskType, OutdatedType, <3>1, <3>2 DEF IInv, TypeOK, Adopts, Alive
  <2>2. Sole' /\ Gone' /\ Owners' /\ Recorded'
    BY <1>2, AskType, OutdatedType DEF IInv, TypeOK, Sole, Gone, Owners, Recorded, Alive,
       Adopts, DescRecord, RecoveryRecord
  <2>3. QED
    BY <2>1, <2>2 DEF IInv
<1>3. ASSUME AdoptReady
      PROVE  IInv'
  <2>1. TypeOK'
    BY <1>3 DEF IInv, TypeOK, AdoptReady,
       DescRecord, RecoveryRecord, StopRecord, FinalRecord, Places, Alive
  <2>2. Sole' /\ Gone' /\ Owners' /\ Recorded'
    BY <1>3 DEF IInv, TypeOK, Sole, Gone, Owners, Recorded, Alive, AdoptReady, DescRecord,
       RecoveryRecord
  <2>3. QED
    BY <2>1, <2>2 DEF IInv
<1>4. ASSUME AdoptFails
      PROVE  IInv'
  <2>1. TypeOK'
    <3>1. desc' \in DescRecord /\ recovery' \in RecoveryRecord
      BY <1>4, BeginType DEF IInv, TypeOK, AdoptFails, DescRecord, RecoveryRecord, Places
    <3>2. stop' \in [Stops -> StopRecord] /\ final' \in FinalRecord
      BY <1>4, BeginType DEF IInv, TypeOK, AdoptFails, DescRecord, StopRecord, FinalRecord
    <3>3. QED
      BY <1>4, BeginType, <3>1, <3>2 DEF IInv, TypeOK, AdoptFails, Alive
  <2>2. Sole' /\ Gone' /\ Owners' /\ Recorded'
    BY <1>4, BeginType DEF IInv, TypeOK, Sole, Gone, Owners, Recorded, Alive, AdoptFails,
       DescRecord, RecoveryRecord
  <2>3. QED
    BY <2>1, <2>2 DEF IInv
<1>5. ASSUME AdoptStopped
      PROVE  IInv'
  <2>1. TypeOK'
    <3>1. desc' \in DescRecord /\ recovery' \in RecoveryRecord
      BY <1>5 DEF IInv, TypeOK, AdoptStopped, DescRecord, RecoveryRecord, Places
    <3>2. stop' \in [Stops -> StopRecord] /\ final' \in FinalRecord
      BY <1>5 DEF IInv, TypeOK, AdoptStopped, DescRecord, StopRecord, FinalRecord
    <3>3. QED
      BY <1>5, <3>1, <3>2 DEF IInv, TypeOK, AdoptStopped, Alive
  <2>2. Sole' /\ Gone' /\ Owners' /\ Recorded'
    BY <1>5 DEF IInv, TypeOK, Sole, Gone, Owners, Recorded, Alive, AdoptStopped, DescRecord,
       RecoveryRecord
  <2>3. QED
    BY <2>1, <2>2 DEF IInv
<1>6. QED
  BY <1>1, <1>2, <1>3, <1>4, <1>5 DEF Adoption

-----------------------------------------------------------------------------
LEMMA InitHolds ==
  ASSUME Init
  PROVE  IInv
<1> USE WorkerAssumption DEF Init
<1>1. 1 \in Pids
  BY DEF Pids
<1>2. TypeOK
  <2>1. desc \in DescRecord
    BY <1>1 DEF DescRecord
  <2>2. proc \in [Pids -> {"unused", "up", "mute", "dead"}] /\ known \in [Pids -> BOOLEAN]
    OBVIOUS
  <2>3. stop \in [Stops -> StopRecord] /\ recovery \in RecoveryRecord /\ final \in FinalRecord
    BY Records
  <2>4. retries \in 0..MaxRetries /\ breaks \in 0..MaxBreaks /\ crashes \in 0..MaxCrashes
        /\ rounds \in 0..(MaxRounds + 1)
    OBVIOUS
  <2>5. QED
    BY <2>1, <2>2, <2>3, <2>4 DEF TypeOK
<1>3. Sole /\ Gone /\ Owners /\ Recorded
  BY <1>1, Records DEF Sole, Gone, Owners, Recorded, Alive
<1>4. QED
  BY <1>2, <1>3 DEF IInv

LEMMA StepKeeps ==
  ASSUME IInv, [Next]_vars
  PROVE  IInv'
<1>1. CASE UNCHANGED vars
  BY <1>1 DEF IInv, TypeOK, Sole, Gone, Owners, Recorded, Alive, vars, registration, tasks, rest
<1>2. CASE Next
  BY <1>2, ProcessesKeep, RecoversKeep, LaunchesKeep, StopsKeep, ClientsKeep,
     AdoptionKeeps DEF Next
<1>3. QED
  BY <1>1, <1>2

\* The invariant behind the results: one process at most can be alive, the one the
\* descriptor names, and cleanups, relaunches and reclaims have found it dead.
THEOREM RecoveryInvariant == Spec => []IInv
<1>1. QED
  BY InitHolds, StepKeeps, PTL DEF Spec

\* The registration, its tasks and the processes stay well formed (ResidentWorker).
THEOREM RecoveryTypeOK == Spec => []TypeOK
<1>1. IInv => TypeOK
  BY DEF IInv
<1>2. QED
  BY <1>1, RecoveryInvariant, PTL

\* Interrupted operations are marked and orphans reaped only when the process is dead
\* (recoverWorker, reclaimStaleWorkerRegistration).
THEOREM CleanupAfterTheDead == Spec => []CleanupIsSafe
<1>1. IInv => CleanupIsSafe
  BY DEF IInv, Gone, CleanupIsSafe
<1>2. QED
  BY <1>1, RecoveryInvariant, PTL

\* No session has two worker processes (recoverWorker, launchWorker).
THEOREM NeverTwoProcesses == Spec => []OneProcess
<1>1. IInv => OneProcess
  <2> SUFFICES ASSUME IInv
               PROVE  OneProcess
    OBVIOUS
  <2>1. {k \in Pids : Alive(k)} \subseteq {desc.pid}
    BY DEF IInv, Sole
  <2>2. IsFiniteSet({desc.pid}) /\ Cardinality({desc.pid}) = 1
    BY FS_Singleton
  <2>3. Cardinality({k \in Pids : Alive(k)}) <= 1
    BY <2>1, <2>2, FS_Subset
  <2>4. QED
    BY <2>3 DEF OneProcess
<1>2. QED
  BY <1>1, RecoveryInvariant, PTL

-----------------------------------------------------------------------------
(* Unregistering.                                                          *)

\* A process that runs or ran is not unused, and the dead stay dead.  A stop is about a
\* process that runs or ran, and one that cancels schedules has found it dead.
Named ==
  /\ proc[1] # "unused" /\ proc[desc.pid] # "unused"
  /\ \A s \in Stops : /\ proc[stop[s].pid] # "unused"
                      /\ stop[s].at = "cancel" => proc[stop[s].pid] = "dead"

\* What every step does to the processes and to the processes stops are about.
Ages ==
  /\ \A k \in Pids : (proc[k] # "unused" => proc'[k] # "unused") /\ (proc[k] = "dead" => proc'[k] = "dead")
  /\ desc'.pid = desc.pid \/ proc'[desc'.pid] # "unused"
  /\ \A s \in Stops : /\ stop'[s].pid \in {1, desc.pid, stop[s].pid}
                      /\ stop'[s].at = "cancel" => /\ stop'[s].pid = stop[s].pid
                                                   /\ stop[s].at = "cancel" \/ ~Alive(stop[s].pid)

\* A step that neither unregisters the worker nor starts to clean up after it.
Spares ==
  /\ inMap => inMap'
  /\ \A s \in Stops : stop'[s].at = "cancel" => stop[s].at = "cancel"

\* Stops whose connection is closed under them end, whoever closes it.
LEMMA BrokenSpares ==
  ASSUME TypeOK
  PROVE  \A s \in Stops : /\ Broken[s].at = "cancel" => Broken[s] = stop[s]
                          /\ Broken[s].pid \in {1, stop[s].pid}
  BY DEF TypeOK, Broken, NoStop

LEMMA NewClientSpares ==
  ASSUME TypeOK, NewClient \/ \E s \in Stops : HangsUp(s)
  PROVE  \A s \in Stops : /\ stop'[s].at = "cancel" => stop'[s] = stop[s]
                          /\ stop'[s].pid \in {1, stop[s].pid}
<1>1. CASE UNCHANGED stop
  BY <1>1
<1>2. ASSUME NEW s \in Stops, HangsUp(s)
      PROVE  \A t \in Stops : /\ stop'[t].at = "cancel" => stop'[t] = stop[t]
                              /\ stop'[t].pid \in {1, stop[t].pid}
  <2>1. stop[s] \in StopRecord /\ Broken \in [Stops -> StopRecord]
    BY BrokenType DEF TypeOK
  <2>2. stop'[s].at = "waiting" /\ stop'[s].pid = stop[s].pid
    BY <1>2, <2>1 DEF HangsUp, StopRecord
  <2>3. \A t \in Stops \ {s} : stop'[t] = Broken[t]
    BY <1>2, <2>1 DEF HangsUp
  <2>4. QED
    BY <2>2, <2>3, BrokenSpares
<1>3. QED
  BY <1>1, <1>2 DEF NewClient

LEMMA ProcessesSpare ==
  ASSUME IInv, Processes
  PROVE  Ages /\ (~Quits => Spares)
<1> USE DEF IInv, TypeOK, Ages, Spares, Alive, vars, registration, tasks, rest
<1>1. ASSUME NEW k \in Pids, Hangs(k)
      PROVE  Ages /\ Spares
  BY <1>1 DEF Hangs
<1>2. ASSUME NEW k \in Pids, Dies(k)
      PROVE  Ages /\ Spares
  BY <1>2 DEF Dies
<1>3. ASSUME Closes
      PROVE  Ages /\ Spares
  BY <1>3, BrokenSpares DEF Closes
<1>4. ASSUME CloseHandled
      PROVE  Ages /\ Spares
  BY <1>4, BeginType DEF CloseHandled, DescRecord
<1>5. ASSUME Quits
      PROVE  Ages
  BY <1>5 DEF Quits
<1>6. QED
  BY <1>1, <1>2, <1>3, <1>4, <1>5 DEF Processes

LEMMA RecoversSpare ==
  ASSUME IInv, Recovers
  PROVE  Ages /\ Spares
<1> USE DEF IInv, Ages, Spares, vars, registration, tasks, rest
<1>1. ASSUME Probe
      PROVE  Ages /\ Spares
  <2>1. CASE \E keep \in BOOLEAN : Failed(keep)
    BY <1>1, <2>1, BrokenSpares, FailedType DEF Probe, Failed
  <2>2. CASE UNCHANGED <<desc, onDisk, client, deferred, rounds, stop>>
    BY <1>1, <2>2 DEF Probe
  <2>3. QED
    BY <1>1, <2>1, <2>2 DEF Probe
<1>2. ASSUME RecoveryCancelled
      PROVE  Ages /\ Spares
  BY <1>2 DEF RecoveryCancelled
<1>3. ASSUME ProbeConnects
      PROVE  Ages /\ Spares
  BY <1>3, NewClientSpares DEF ProbeConnects, Connects
<1>4. ASSUME ProbeAnswered
      PROVE  Ages /\ Spares
  BY <1>4 DEF ProbeAnswered
<1>5. ASSUME ProbeFails
      PROVE  Ages /\ Spares
  BY <1>5, BrokenSpares, FailedType DEF ProbeFails, Failed, TypeOK, RecoveryRecord
<1>6. ASSUME ProbeReady
      PROVE  Ages /\ Spares
  BY <1>6 DEF ProbeReady, TypeOK, DescRecord
<1>7. ASSUME Cleaned
      PROVE  Ages /\ Spares
  BY <1>7 DEF Cleaned, TypeOK, DescRecord
<1>8. ASSUME DeferredFires
      PROVE  Ages /\ Spares
  BY <1>8, BeginType DEF DeferredFires, TypeOK, DescRecord
<1>9. ASSUME Reaps
      PROVE  Ages /\ Spares
  BY <1>9 DEF Reaps
<1>10. ASSUME CleanFails
       PROVE  Ages /\ Spares
  BY <1>10, BrokenSpares, FailedType DEF CleanFails, Failed
<1>11. QED
  BY <1>1, <1>2, <1>3, <1>4, <1>5, <1>6, <1>7, <1>8, <1>9, <1>10 DEF Recovers

LEMMA LaunchesSpare ==
  ASSUME IInv, Launches
  PROVE  Ages /\ Spares
<1> USE DEF IInv, Ages, Spares, vars, registration, tasks, rest
<1>1. ASSUME Spawned
      PROVE  Ages /\ Spares
  BY <1>1 DEF Spawned, TypeOK
<1>2. ASSUME SpawnFails
      PROVE  Ages /\ Spares
  BY <1>2, BrokenSpares, FailedType DEF SpawnFails, Failed
<1>3. ASSUME LaunchConnects
      PROVE  Ages /\ Spares
  BY <1>3, NewClientSpares DEF LaunchConnects, Connects
<1>4. ASSUME Created
      PROVE  Ages /\ Spares
  BY <1>4 DEF Created
<1>5. ASSUME LaunchReady
      PROVE  Ages /\ Spares
  BY <1>5 DEF LaunchReady, TypeOK, DescRecord
<1>6. ASSUME LaunchFails
      PROVE  Ages /\ Spares
  BY <1>6 DEF LaunchFails, Ask, TypeOK, DescRecord
<1>7. ASSUME LaunchUndone
      PROVE  Ages /\ Spares
  BY <1>7 DEF LaunchUndone, TypeOK, DescRecord
<1>8. ASSUME LaunchThrows
      PROVE  Ages /\ Spares
  BY <1>8, BrokenSpares, FailedType DEF LaunchThrows, Failed
<1>9. QED
  BY <1>1, <1>2, <1>3, <1>4, <1>5, <1>6, <1>7, <1>8 DEF Launches

LEMMA StopsSpare ==
  ASSUME IInv, StopsIt
  PROVE  Ages /\ (Spares \/ \E s \in Stops : StopEnds(s) \/ SchedulesCancelled(s))
<1> USE DEF IInv, TypeOK, Ages, Spares, vars, registration, tasks, rest
<1>1. ASSUME NEW s \in Stoppers, UserStops(s)
      PROVE  Ages /\ Spares
  BY <1>1 DEF UserStops, StopBegins, Ask, DescRecord
<1>2. ASSUME NEW s \in Stops, Asked(s)
      PROVE  Ages /\ Spares
  BY <1>2, NewClientSpares DEF Asked
<1>3. ASSUME NEW s \in Stops, Kill(s)
      PROVE  Ages /\ Spares
  BY <1>3 DEF Kill, Alive
<1>4. ASSUME NEW s \in Stops, StopTimesOut(s)
      PROVE  Ages /\ Spares
  BY <1>4 DEF StopTimesOut, NoStop
<1>5. ASSUME NEW s \in Stops, StopEnds(s)
      PROVE  Ages
  <2>1. stop' \in {[stop EXCEPT ![s] = NoStop], [stop EXCEPT ![s].at = "cancel"]}
    BY <1>5 DEF StopEnds, Unregister
  <2>2. QED
    BY <1>5, <2>1 DEF StopEnds, NoStop, StopRecord
<1>6. ASSUME NEW s \in Stops, SchedulesCancelled(s)
      PROVE  Ages
  BY <1>6 DEF SchedulesCancelled, Unregister, NoStop
<1>7. ASSUME FinalPolls
      PROVE  Ages /\ Spares
  BY <1>7 DEF FinalPolls, Alive, FinalRecord
<1>8. ASSUME FinalStops
      PROVE  Ages /\ Spares
  BY <1>8 DEF FinalStops, StopBegins, Ask, DescRecord
<1>9. QED
  BY <1>1, <1>2, <1>3, <1>4, <1>5, <1>6, <1>7, <1>8 DEF StopsIt

LEMMA ClientsSpare ==
  ASSUME IInv, Clients
  PROVE  Ages /\ (~Reclaimed => Spares)
<1> USE DEF IInv, Ages, Spares, vars, registration, tasks, rest
<1>1. ASSUME Retry
      PROVE  Ages /\ Spares
  BY <1>1, BeginType, Written DEF Retry, TypeOK
<1>2. ASSUME ReclaimStopped
      PROVE  Ages /\ Spares
  BY <1>2 DEF ReclaimStopped
<1>3. ASSUME ReclaimFailed
      PROVE  Ages /\ Spares
  BY <1>3 DEF ReclaimFailed
<1>4. ASSUME ReclaimReaps
      PROVE  Ages /\ Spares
  BY <1>4 DEF ReclaimReaps
<1>5. ASSUME Reclaimed
      PROVE  Ages
  BY <1>5 DEF Reclaimed
<1>6. QED
  BY <1>1, <1>2, <1>3, <1>4, <1>5 DEF Clients

LEMMA AdoptionSpares ==
  ASSUME IInv, Adoption
  PROVE  Ages /\ Spares
<1> USE DEF IInv, TypeOK, Ages, Spares, vars, registration, tasks, rest
<1>1. ASSUME Restarts
      PROVE  Ages /\ Spares
  BY <1>1 DEF Restarts, Recorded, NoStop, DescRecord
<1>2. ASSUME Adopts
      PROVE  Ages /\ Spares
  <2>1. CASE desc.tomb
    BY <1>2, <2>1 DEF Adopts, Ask
  <2>2. CASE ~desc.tomb
    BY <1>2, <2>2, NewClientSpares DEF Adopts
  <2>3. QED
    BY <2>1, <2>2
<1>3. ASSUME AdoptReady
      PROVE  Ages /\ Spares
  BY <1>3 DEF AdoptReady, DescRecord
<1>4. ASSUME AdoptFails
      PROVE  Ages /\ Spares
  BY <1>4, BeginType DEF AdoptFails, DescRecord
<1>5. ASSUME AdoptStopped
      PROVE  Ages /\ Spares
  BY <1>5 DEF AdoptStopped, DescRecord
<1>6. QED
  BY <1>1, <1>2, <1>3, <1>4, <1>5 DEF Adoption

LEMMA NamedKept ==
  ASSUME IInv, Named, [Next]_vars
  PROVE  Named'
<1>1. CASE UNCHANGED vars
  BY <1>1 DEF Named, vars, registration, tasks, rest
<1>2. CASE Next
  <2>1. Ages
    BY <1>2, ProcessesSpare, RecoversSpare, LaunchesSpare, StopsSpare, ClientsSpare,
       AdoptionSpares DEF Next
  <2>2. 1 \in Pids /\ desc.pid \in Pids /\ \A s \in Stops : stop[s].pid \in Pids
    BY WorkerAssumption DEF IInv, TypeOK, Pids, DescRecord, StopRecord
  <2>3. proc'[1] # "unused" /\ proc'[desc'.pid] # "unused"
    BY <2>1, <2>2 DEF Named, Ages
  <2>4. ASSUME NEW s \in Stops
        PROVE  /\ proc'[stop'[s].pid] # "unused"
               /\ stop'[s].at = "cancel" => proc'[stop'[s].pid] = "dead"
    <3>1. proc'[stop'[s].pid] # "unused"
      BY <2>1, <2>2 DEF Named, Ages
    <3>2. ASSUME stop'[s].at = "cancel"
          PROVE  proc[stop[s].pid] = "dead" /\ stop'[s].pid = stop[s].pid
      BY <2>1, <2>2, <3>2 DEF Named, Ages, Alive, IInv, TypeOK
    <3>3. QED
      BY <2>1, <2>2, <3>1, <3>2 DEF Ages
  <2>5. QED
    BY <2>3, <2>4 DEF Named
<1>3. QED
  BY <1>1, <1>2

\* A stop that cancels schedules has found the process it entered with dead
\* (stopWorkerUntracked).
THEOREM CancelsAfterTheDead == Spec => []Named
<1>1. Init => Named
  BY WorkerAssumption DEF Init, Named, NoStop, Pids
<1>2. QED
  BY <1>1, NamedKept, RecoveryInvariant, PTL DEF Spec

\* What unregisters a worker or cancels its schedules has found its process dead, but for
\* the worker's own goodbye, and for a stop whose worker was relaunched while it waited
\* for the schedules to be cancelled (stopWorkerUntracked, reclaimStaleWorkerRegistration).
THEOREM OnlyTheDead == Spec => OnlyTheDeadAreCleaned
<1> DEFINE A == Unregisters \/ CleansUp => ~Alive(desc.pid) \/ Quits \/ Overtaken
<1>1. IInv /\ Named /\ [Next]_vars => [A]_vars
  <2> SUFFICES ASSUME IInv, Named, Next, ~Quits, ~Overtaken, Unregisters \/ CleansUp
               PROVE  ~Alive(desc.pid)
    OBVIOUS
  <2>1. ~Spares
    BY DEF Spares, Unregisters, CleansUp
  <2>2. CASE \E s \in Stops : StopEnds(s)
    <3>1. PICK s \in Stops : StopEnds(s)
      BY <2>2
    <3>2. CASE Applies(s)
      BY <3>1, <3>2 DEF StopEnds, Applies
    <3>3. CASE ~Applies(s)
      <4>1. inMap' = inMap /\ stop' = [stop EXCEPT ![s] = NoStop]
        BY <3>1, <3>3 DEF StopEnds
      <4>2. QED
        BY <2>1, <4>1 DEF Spares, IInv, TypeOK, NoStop
    <3>4. QED
      BY <3>2, <3>3
  <2>3. CASE \E s \in Stops : SchedulesCancelled(s)
    <3>1. PICK s \in Stops : SchedulesCancelled(s)
      BY <2>3
    <3>2. stop[s].at = "cancel" /\ stop[s].pid = desc.pid
      BY <3>1 DEF SchedulesCancelled, Overtaken
    <3>3. QED
      BY <3>2 DEF Named, Alive
  <2>4. CASE Reclaimed
    BY <2>4 DEF IInv, Gone, Reclaimed
  <2>5. CASE ~Reclaimed /\ ~\E s \in Stops : StopEnds(s) \/ SchedulesCancelled(s)
    BY <2>1, <2>5, ProcessesSpare, RecoversSpare, LaunchesSpare, StopsSpare, ClientsSpare,
       AdoptionSpares DEF Next
  <2>6. QED
    BY <2>2, <2>3, <2>4, <2>5
<1>2. QED
  BY <1>1, RecoveryInvariant, CancelsAfterTheDead, PTL DEF Spec, OnlyTheDeadAreCleaned
=============================================================================
