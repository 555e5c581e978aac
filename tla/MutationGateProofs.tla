------------------------ MODULE MutationGateProofs ------------------------
(***************************************************************************)
(* The safety properties of MutationGate for any finite set of commands    *)
(* and any set of evictors.                                                *)
(***************************************************************************)
EXTENDS MutationGate, FiniteSetTheorems, TLAPS

(***************************************************************************)
(* The inductive invariant.  FenceSlot and PhaseSlot tie each shared slot  *)
(* to the program counter of the actor that owns it; FencedOnlyLate is     *)
(* CheckpointSeesOnlyLateMutations extended back to the moment the second  *)
(* drain returned, where the count of the latch establishes it.            *)
(***************************************************************************)
FenceSlot ==
  /\ \A e \in Evictor : pc[e] \in HoldingPC <=> idleEvictionFence = e
  /\ \A a \in Actor : pc[a] = "fenceWait" => idleEvictionFence # NoFence

PhaseSlot ==
  /\ PhaseHasOneOwner
  /\ \A c \in Command : pc[c] \in PreparingPC => c \in Prepare
  /\ \A c \in Command : pc[c] = "checkpointing" => updateRestartPhase = "fencing"

Fenced(p) ==
  \/ pc[p] = "checkpointing"
  \/ pc[p] = "prepDrained" /\ updateRestartPhase = "fencing"

FencedOnlyLate ==
  \A p \in Prepare, c \in Command :
    Fenced(p) /\ pc[c] \in RunningPC => c = p \/ c \in late

\* The conjuncts that do not mention the count.
SlotInv == FenceSlot /\ PhaseSlot /\ DecisionSeesOnlyLateMutations
           /\ FencedOnlyLate /\ CheckpointExcludesStop

IInv == TypeOK /\ LatchCountsRunning /\ NoLostWakeup /\ SlotInv

---------------------------------------------------------------------------
(* The latch: what its count says about the commands in flight.            *)

\* Finitely many commands are in flight.
LEMMA RunningIsFinite == IsFiniteSet(Running)
BY GateAssumption, FS_Subset DEF Running

\* A drain to zero leaves nothing in flight.
LEMMA DrainedMeansEmpty ==
  ASSUME LatchCountsRunning, active \in Nat, ~(active > 0)
  PROVE  Running = {}
<1>1. Cardinality(Running) = 0
  BY DEF LatchCountsRunning
<1>2. QED
  BY <1>1, RunningIsFinite, FS_EmptySet

\* A drain to one by a command in flight leaves only that command.
LEMMA DrainedToOneMeansAlone ==
  ASSUME LatchCountsRunning, active \in Nat, ~(active > 1), NEW p \in Running
  PROVE  Running = {p}
<1>1. Cardinality(Running \ {p}) = Cardinality(Running) - 1
  BY RunningIsFinite, FS_RemoveElement
<1>2. Cardinality(Running \ {p}) \in Nat
  BY RunningIsFinite, FS_RemoveElement, FS_CardinalityType
<1>3. Cardinality(Running \ {p}) = 0
  BY <1>1, <1>2 DEF LatchCountsRunning
<1>4. Running \ {p} = {}
  BY <1>3, RunningIsFinite, FS_RemoveElement, FS_EmptySet
<1>5. QED
  BY <1>4

\* end() never takes the count below zero.
LEMMA RunningMeansActive ==
  ASSUME LatchCountsRunning, active \in Nat, NEW c \in Running
  PROVE  active > 0
BY RunningIsFinite, FS_EmptySet DEF LatchCountsRunning

\* A step that leaves the set of commands in flight and the count alone.
LEMMA LatchUnchanged ==
  ASSUME LatchCountsRunning, Running' = Running, UNCHANGED active
  PROVE  LatchCountsRunning'
BY DEF LatchCountsRunning

\* begin() with one more command in flight.
LEMMA LatchBegins ==
  ASSUME LatchCountsRunning, active \in Nat, NEW c \in Command \ Running,
         Running' = Running \cup {c}, active' = active + 1
  PROVE  LatchCountsRunning'
BY RunningIsFinite, FS_AddElement DEF LatchCountsRunning

\* end() with one command less in flight.
LEMMA LatchEnds ==
  ASSUME LatchCountsRunning, active \in Nat, NEW c \in Running,
         Running' = Running \ {c}, active' = active - 1
  PROVE  LatchCountsRunning'
BY RunningIsFinite, FS_RemoveElement DEF LatchCountsRunning
---------------------------------------------------------------------------
(* Each step preserves the inductive invariant.                            *)

USE DEF Goto, CommandPC, EvictorPC, RunningPC, PreparingPC, HoldingPC, DecidingPC

\* A received line only suspends its handler.
LEMMA ReceiveStep ==
  ASSUME IInv, NEW c \in Command, Receive(c)
  PROVE  IInv'
<1> USE GateAssumption DEF IInv
<1>1. TypeOK'
  BY DEF TypeOK, Receive, Actor, Command, Evictor
<1>2. Running' = Running /\ UNCHANGED active
  BY DEF TypeOK, Receive, Running, PhaseSlot, SlotInv, Actor, Command, Evictor
<1>3. LatchCountsRunning'
  BY <1>2, LatchUnchanged
<1>4. NoLostWakeup'
  BY DEF TypeOK, NoLostWakeup, Receive, Actor, Command, Evictor
<1>6. SlotInv'
  BY SMTT(30) DEF TypeOK, SlotInv, FenceSlot, PhaseSlot, PhaseHasOneOwner, DecisionSeesOnlyLateMutations, FencedOnlyLate, Fenced, CheckpointExcludesStop, Running, Receive, Actor, Command, Evictor
<1>7. QED
  BY <1>1, <1>3, <1>4, <1>6

\* Shutdown raises a flag that only admissions and evictors read.
LEMMA BeginShutdownStep ==
  ASSUME IInv, BeginShutdown
  PROVE  IInv'
<1> USE GateAssumption DEF IInv
<1>1. TypeOK'
  BY DEF TypeOK, BeginShutdown, Actor, Command, Evictor
<1>2. Running' = Running /\ UNCHANGED active
  BY DEF TypeOK, BeginShutdown, Running, PhaseSlot, SlotInv, Actor, Command, Evictor
<1>3. LatchCountsRunning'
  BY <1>2, LatchUnchanged
<1>4. NoLostWakeup'
  BY DEF TypeOK, NoLostWakeup, BeginShutdown, Actor, Command, Evictor
<1>6. SlotInv'
  BY SMTT(30) DEF TypeOK, SlotInv, FenceSlot, PhaseSlot, PhaseHasOneOwner, DecisionSeesOnlyLateMutations, FencedOnlyLate, Fenced, CheckpointExcludesStop, Running, BeginShutdown, Actor, Command, Evictor
<1>7. QED
  BY <1>1, <1>3, <1>4, <1>6

\* A woken preparation reads the count again.
LEMMA PrepareRecheckStep ==
  ASSUME IInv, NEW p \in Prepare, PrepareRecheck(p)
  PROVE  IInv'
<1> USE GateAssumption DEF IInv
<1>1. TypeOK'
  BY DEF TypeOK, PrepareRecheck, Actor, Command, Evictor
<1>2. Running' = Running /\ UNCHANGED active
  BY DEF TypeOK, PrepareRecheck, Running, PhaseSlot, SlotInv, Actor, Command, Evictor
<1>3. LatchCountsRunning'
  BY <1>2, LatchUnchanged
<1>4. NoLostWakeup'
  BY DEF TypeOK, NoLostWakeup, PrepareRecheck, Actor, Command, Evictor
<1>5. ~(active > 1) => Running = {p}
  BY DrainedToOneMeansAlone DEF TypeOK, PrepareRecheck, Running, Command
<1>6. SlotInv'
  BY <1>5, SMTT(30) DEF TypeOK, SlotInv, FenceSlot, PhaseSlot, PhaseHasOneOwner, DecisionSeesOnlyLateMutations, FencedOnlyLate, Fenced, CheckpointExcludesStop, Running, PrepareRecheck, Actor, Command, Evictor
<1>7. QED
  BY <1>1, <1>3, <1>4, <1>6

\* The fence goes up with the count read again.
LEMMA RaiseFenceStep ==
  ASSUME IInv, NEW p \in Prepare, RaiseFence(p)
  PROVE  IInv'
<1> USE GateAssumption DEF IInv
<1>1. TypeOK'
  BY DEF TypeOK, RaiseFence, Actor, Command, Evictor
<1>2. Running' = Running /\ UNCHANGED active
  BY DEF TypeOK, RaiseFence, Running, PhaseSlot, SlotInv, Actor, Command, Evictor
<1>3. LatchCountsRunning'
  BY <1>2, LatchUnchanged
<1>4. NoLostWakeup'
  BY DEF TypeOK, NoLostWakeup, RaiseFence, Actor, Command, Evictor
<1>5. ~(active > 1) => Running = {p}
  BY DrainedToOneMeansAlone DEF TypeOK, RaiseFence, Running, Command
<1>6. SlotInv'
  BY <1>5, SMTT(30) DEF TypeOK, SlotInv, FenceSlot, PhaseSlot, PhaseHasOneOwner, DecisionSeesOnlyLateMutations, FencedOnlyLate, Fenced, CheckpointExcludesStop, Running, RaiseFence, Actor, Command, Evictor
<1>7. QED
  BY <1>1, <1>3, <1>4, <1>6

\* Checkpoints start only beside workers that are not stopping.
LEMMA CheckpointStep ==
  ASSUME IInv, NEW p \in Prepare, Checkpoint(p)
  PROVE  IInv'
<1> USE GateAssumption DEF IInv
<1>1. TypeOK'
  BY DEF TypeOK, Checkpoint, Actor, Command, Evictor
<1>2. Running' = Running /\ UNCHANGED active
  BY DEF TypeOK, Checkpoint, Running, PhaseSlot, SlotInv, Actor, Command, Evictor
<1>3. LatchCountsRunning'
  BY <1>2, LatchUnchanged
<1>4. NoLostWakeup'
  BY DEF TypeOK, NoLostWakeup, Checkpoint, Actor, Command, Evictor
<1>6. SlotInv'
  BY SMTT(30) DEF TypeOK, SlotInv, FenceSlot, PhaseSlot, PhaseHasOneOwner, DecisionSeesOnlyLateMutations, FencedOnlyLate, Fenced, CheckpointExcludesStop, Running, Checkpoint, Actor, Command, Evictor
<1>7. QED
  BY <1>1, <1>3, <1>4, <1>6

\* The preparation returns its manifest.
LEMMA PreparedStep ==
  ASSUME IInv, NEW p \in Prepare, Prepared(p)
  PROVE  IInv'
<1> USE GateAssumption DEF IInv
<1>1. TypeOK'
  BY DEF TypeOK, Prepared, Actor, Command, Evictor
<1>2. Running' = Running /\ UNCHANGED active
  BY DEF TypeOK, Prepared, Running, PhaseSlot, SlotInv, Actor, Command, Evictor
<1>3. LatchCountsRunning'
  BY <1>2, LatchUnchanged
<1>4. NoLostWakeup'
  BY DEF TypeOK, NoLostWakeup, Prepared, Actor, Command, Evictor
<1>6. SlotInv'
  BY SMTT(30) DEF TypeOK, SlotInv, FenceSlot, PhaseSlot, PhaseHasOneOwner, DecisionSeesOnlyLateMutations, FencedOnlyLate, Fenced, CheckpointExcludesStop, Running, Prepared, Actor, Command, Evictor
<1>7. QED
  BY <1>1, <1>3, <1>4, <1>6

\* A failed preparation gives the phase back.
LEMMA PrepareFailsStep ==
  ASSUME IInv, NEW p \in Prepare, PrepareFails(p)
  PROVE  IInv'
<1> USE GateAssumption DEF IInv
<1>1. TypeOK'
  BY DEF TypeOK, PrepareFails, Actor, Command, Evictor
<1>2. Running' = Running /\ UNCHANGED active
  BY DEF TypeOK, PrepareFails, Running, PhaseSlot, SlotInv, Actor, Command, Evictor
<1>3. LatchCountsRunning'
  BY <1>2, LatchUnchanged
<1>4. NoLostWakeup'
  BY DEF TypeOK, NoLostWakeup, PrepareFails, Actor, Command, Evictor
<1>6. SlotInv'
  BY SMTT(30) DEF TypeOK, SlotInv, FenceSlot, PhaseSlot, PhaseHasOneOwner, DecisionSeesOnlyLateMutations, FencedOnlyLate, Fenced, CheckpointExcludesStop, Running, PrepareFails, Actor, Command, Evictor
<1>7. QED
  BY <1>1, <1>3, <1>4, <1>6

\* The entry of an eviction.
LEMMA StartEvictionStep ==
  ASSUME IInv, NEW e \in Evictor, StartEviction(e)
  PROVE  IInv'
<1> USE GateAssumption DEF IInv
<1>1. TypeOK'
  BY DEF TypeOK, StartEviction, Actor, Command, Evictor
<1>2. Running' = Running /\ UNCHANGED active
  BY DEF TypeOK, StartEviction, Running, PhaseSlot, SlotInv, Actor, Command, Evictor
<1>3. LatchCountsRunning'
  BY <1>2, LatchUnchanged
<1>4. NoLostWakeup'
  BY DEF TypeOK, NoLostWakeup, StartEviction, Actor, Command, Evictor
<1>6. SlotInv'
  BY SMTT(30) DEF TypeOK, SlotInv, FenceSlot, PhaseSlot, PhaseHasOneOwner, DecisionSeesOnlyLateMutations, FencedOnlyLate, Fenced, CheckpointExcludesStop, Running, StartEviction, Actor, Command, Evictor
<1>7. QED
  BY <1>1, <1>3, <1>4, <1>6

\* An eviction gives up, queues at the fence or takes it.
LEMMA RefreshedStep ==
  ASSUME IInv, NEW e \in Evictor, Refreshed(e)
  PROVE  IInv'
<1> USE GateAssumption DEF IInv
<1>1. TypeOK'
  BY DEF TypeOK, Refreshed, AcquireFence, TakeFence, Actor, Command, Evictor
<1>2. Running' = Running /\ UNCHANGED active
  BY DEF TypeOK, Refreshed, AcquireFence, TakeFence, Running, PhaseSlot, SlotInv, Actor, Command, Evictor
<1>3. LatchCountsRunning'
  BY <1>2, LatchUnchanged
<1>4. NoLostWakeup'
  BY DEF TypeOK, NoLostWakeup, Refreshed, AcquireFence, TakeFence, Actor, Command, Evictor
<1>5. ~(active > 0) => Running = {}
  BY DrainedMeansEmpty DEF TypeOK
<1>6. SlotInv'
  BY <1>5, SMTT(30) DEF TypeOK, SlotInv, FenceSlot, PhaseSlot, PhaseHasOneOwner, DecisionSeesOnlyLateMutations, FencedOnlyLate, Fenced, CheckpointExcludesStop, Running, Refreshed, AcquireFence, TakeFence, Actor, Command, Evictor
<1>7. QED
  BY <1>1, <1>3, <1>4, <1>6

\* A woken evictor queues again or takes the fence.
LEMMA RetryFenceStep ==
  ASSUME IInv, NEW e \in Evictor, RetryFence(e)
  PROVE  IInv'
<1> USE GateAssumption DEF IInv
<1>1. TypeOK'
  BY DEF TypeOK, RetryFence, AcquireFence, TakeFence, Actor, Command, Evictor
<1>2. Running' = Running /\ UNCHANGED active
  BY DEF TypeOK, RetryFence, AcquireFence, TakeFence, Running, PhaseSlot, SlotInv, Actor, Command, Evictor
<1>3. LatchCountsRunning'
  BY <1>2, LatchUnchanged
<1>4. NoLostWakeup'
  BY DEF TypeOK, NoLostWakeup, RetryFence, AcquireFence, TakeFence, Actor, Command, Evictor
<1>5. ~(active > 0) => Running = {}
  BY DrainedMeansEmpty DEF TypeOK
<1>6. SlotInv'
  BY <1>5, SMTT(30) DEF TypeOK, SlotInv, FenceSlot, PhaseSlot, PhaseHasOneOwner, DecisionSeesOnlyLateMutations, FencedOnlyLate, Fenced, CheckpointExcludesStop, Running, RetryFence, AcquireFence, TakeFence, Actor, Command, Evictor
<1>7. QED
  BY <1>1, <1>3, <1>4, <1>6

\* A woken evictor reads the count again.
LEMMA DrainRecheckStep ==
  ASSUME IInv, NEW e \in Evictor, DrainRecheck(e)
  PROVE  IInv'
<1> USE GateAssumption DEF IInv
<1>1. TypeOK'
  BY DEF TypeOK, DrainRecheck, Actor, Command, Evictor
<1>2. Running' = Running /\ UNCHANGED active
  BY DEF TypeOK, DrainRecheck, Running, PhaseSlot, SlotInv, Actor, Command, Evictor
<1>3. LatchCountsRunning'
  BY <1>2, LatchUnchanged
<1>4. NoLostWakeup'
  BY DEF TypeOK, NoLostWakeup, DrainRecheck, Actor, Command, Evictor
<1>5. ~(active > 0) => Running = {}
  BY DrainedMeansEmpty DEF TypeOK
<1>6. SlotInv'
  BY <1>5, SMTT(30) DEF TypeOK, SlotInv, FenceSlot, PhaseSlot, PhaseHasOneOwner, DecisionSeesOnlyLateMutations, FencedOnlyLate, Fenced, CheckpointExcludesStop, Running, DrainRecheck, Actor, Command, Evictor
<1>7. QED
  BY <1>1, <1>3, <1>4, <1>6

\* The decision starts.
LEMMA RereadStep ==
  ASSUME IInv, NEW e \in Evictor, Reread(e)
  PROVE  IInv'
<1> USE GateAssumption DEF IInv
<1>1. TypeOK'
  BY DEF TypeOK, Reread, Actor, Command, Evictor
<1>2. Running' = Running /\ UNCHANGED active
  BY DEF TypeOK, Reread, Running, PhaseSlot, SlotInv, Actor, Command, Evictor
<1>3. LatchCountsRunning'
  BY <1>2, LatchUnchanged
<1>4. NoLostWakeup'
  BY DEF TypeOK, NoLostWakeup, Reread, Actor, Command, Evictor
<1>6. SlotInv'
  BY SMTT(30) DEF TypeOK, SlotInv, FenceSlot, PhaseSlot, PhaseHasOneOwner, DecisionSeesOnlyLateMutations, FencedOnlyLate, Fenced, CheckpointExcludesStop, Running, Reread, Actor, Command, Evictor
<1>7. QED
  BY <1>1, <1>3, <1>4, <1>6

\* The worker is stopped only while no phase is set.
LEMMA StopWorkerStep ==
  ASSUME IInv, NEW e \in Evictor, StopWorker(e)
  PROVE  IInv'
<1> USE GateAssumption DEF IInv
<1>1. TypeOK'
  BY DEF TypeOK, StopWorker, EvictionDisallowed, Actor, Command, Evictor
<1>2. Running' = Running /\ UNCHANGED active
  BY DEF TypeOK, StopWorker, EvictionDisallowed, Running, PhaseSlot, SlotInv, Actor, Command, Evictor
<1>3. LatchCountsRunning'
  BY <1>2, LatchUnchanged
<1>4. NoLostWakeup'
  BY DEF TypeOK, NoLostWakeup, StopWorker, EvictionDisallowed, Actor, Command, Evictor
<1>6. SlotInv'
  BY SMTT(30) DEF TypeOK, SlotInv, FenceSlot, PhaseSlot, PhaseHasOneOwner, DecisionSeesOnlyLateMutations, FencedOnlyLate, Fenced, CheckpointExcludesStop, Running, StopWorker, EvictionDisallowed, Actor, Command, Evictor
<1>7. QED
  BY <1>1, <1>3, <1>4, <1>6

\* The release wakes everybody queued at the fence.
LEMMA ReleaseFenceStep ==
  ASSUME IInv, NEW e \in Evictor, ReleaseFence(e)
  PROVE  IInv'
<1> USE GateAssumption DEF IInv
<1>1. TypeOK'
  BY DEF TypeOK, ReleaseFence, AfterRelease, Actor, Command, Evictor
<1>2. Running' = Running /\ UNCHANGED active
  BY DEF TypeOK, ReleaseFence, AfterRelease, Running, PhaseSlot, SlotInv, Actor, Command, Evictor
<1>3. LatchCountsRunning'
  BY <1>2, LatchUnchanged
<1>4. NoLostWakeup'
  BY DEF TypeOK, NoLostWakeup, ReleaseFence, AfterRelease, Actor, Command, Evictor
<1>6. SlotInv'
  BY SMTT(30) DEF TypeOK, SlotInv, FenceSlot, PhaseSlot, PhaseHasOneOwner, DecisionSeesOnlyLateMutations, FencedOnlyLate, Fenced, CheckpointExcludesStop, Running, ReleaseFence, AfterRelease, Actor, Command, Evictor
<1>7. QED
  BY <1>1, <1>3, <1>4, <1>6

\* Begin: one more command in flight; a preparation may take the phase.
LEMMA BeginStep ==
  ASSUME IInv, NEW c \in Command, pc[c] \in {"arrived", "fenceOpen"}, Begin(c),
         UNCHANGED <<idleEvictionFence, shuttingDown>>,
         late' \in {late, late \cup {c}},
         \/ ~RestartRejects(c) /\ (idleEvictionFence = NoFence \/ c \in DrainCmd)
         \/ c \in late'
  PROVE  IInv'
<1> USE GateAssumption DEF IInv, Begin
<1>1. TypeOK'
  BY DEF TypeOK, Actor, Command, Evictor
<1>2. Running' = Running \cup {c} /\ c \in Command \ Running
  BY DEF TypeOK, Running, Actor, Command, Evictor
<1>3. LatchCountsRunning'
  BY <1>2, LatchBegins DEF TypeOK
<1>4. NoLostWakeup'
  BY DEF TypeOK, NoLostWakeup, Actor, Command, Evictor
<1>5. (FenceSlot /\ PhaseSlot)'
  BY DEF TypeOK, SlotInv, FenceSlot, PhaseSlot, PhaseHasOneOwner, Actor, Command, Evictor
<1>6. DecisionSeesOnlyLateMutations'
  BY DEF TypeOK, SlotInv, DecisionSeesOnlyLateMutations, FenceSlot, Actor, Command, Evictor
<1>7. (FencedOnlyLate /\ CheckpointExcludesStop)'
  BY DEF TypeOK, SlotInv, PhaseSlot, PhaseHasOneOwner, FencedOnlyLate, Fenced,
         CheckpointExcludesStop, RestartRejects, Actor, Command, Evictor
<1>8. QED
  BY <1>1, <1>3, <1>4, <1>5, <1>6, <1>7 DEF SlotInv

\* The admission rejects, queues behind the fence, or begins.
LEMMA AdmitStep ==
  ASSUME IInv, NEW c \in Command, Admit(c)
  PROVE  IInv'
<1> USE GateAssumption DEF IInv
<1>1. CASE Begin(c) /\ ~RestartRejects(c) /\ (idleEvictionFence = NoFence \/ c \in DrainCmd)
  BY <1>1, BeginStep DEF Admit
<1>2. CASE /\ Goto(c, "idle") \/ (Goto(c, "fenceWait") /\ idleEvictionFence # NoFence)
           /\ UNCHANGED <<updateRestartPhase, active>>
  <2>1. TypeOK'
    BY <1>2 DEF TypeOK, Admit, Actor, Command, Evictor
  <2>2. Running' = Running /\ UNCHANGED active
    BY <1>2 DEF TypeOK, Admit, Running, Actor, Command, Evictor
  <2>3. LatchCountsRunning'
    BY <2>2, LatchUnchanged
  <2>4. NoLostWakeup'
    BY <1>2 DEF TypeOK, Admit, NoLostWakeup, Actor, Command, Evictor
  <2>5. SlotInv'
    BY <1>2, SMTT(30) DEF TypeOK, Admit, Actor, Command, Evictor, SlotInv, FenceSlot, PhaseSlot, PhaseHasOneOwner, DecisionSeesOnlyLateMutations, FencedOnlyLate, Fenced, CheckpointExcludesStop
  <2>6. QED
    BY <2>1, <2>3, <2>4, <2>5
<1>3. QED
  BY <1>1, <1>2 DEF Admit

\* The admission resumed after a fence wait begins whatever the phase is now.
LEMMA AdmitLateStep ==
  ASSUME IInv, NEW c \in Command, AdmitLate(c)
  PROVE  IInv'
<1> USE GateAssumption DEF IInv
<1>1. CASE Begin(c) /\ late' = late \cup {c}
  BY <1>1, BeginStep DEF AdmitLate
<1>2. CASE Goto(c, "idle") /\ UNCHANGED <<updateRestartPhase, active, late>>
  <2>1. TypeOK'
    BY <1>2 DEF TypeOK, AdmitLate, Actor, Command, Evictor
  <2>2. Running' = Running /\ UNCHANGED active
    BY <1>2 DEF TypeOK, AdmitLate, Running, Actor, Command, Evictor
  <2>3. LatchCountsRunning'
    BY <2>2, LatchUnchanged
  <2>4. NoLostWakeup'
    BY <1>2 DEF TypeOK, AdmitLate, NoLostWakeup, Actor, Command, Evictor
  <2>5. SlotInv'
    BY <1>2, SMTT(30) DEF TypeOK, AdmitLate, Actor, Command, Evictor, SlotInv, FenceSlot, PhaseSlot, PhaseHasOneOwner, DecisionSeesOnlyLateMutations, FencedOnlyLate, Fenced, CheckpointExcludesStop
  <2>6. QED
    BY <2>1, <2>3, <2>4, <2>5
<1>3. QED
  BY <1>1, <1>2 DEF AdmitLate

\* end(): one command less in flight and every waiter woken.
LEMMA FinishStep ==
  ASSUME IInv, NEW c \in Command, Finish(c)
  PROVE  IInv'
<1> USE GateAssumption DEF IInv, Finish, AfterEnd
<1>1. c \in Running
  BY DEF Running
<1>2. active > 0
  BY <1>1, RunningMeansActive DEF TypeOK
<1>3. TypeOK'
  BY <1>2 DEF TypeOK, Actor, Command, Evictor
<1>4. Running' = Running \ {c}
  BY DEF TypeOK, Running, Actor, Command, Evictor
<1>5. LatchCountsRunning'
  BY <1>1, <1>4, LatchEnds DEF TypeOK
<1>6. NoLostWakeup'
  BY DEF TypeOK, NoLostWakeup, Actor, Command, Evictor
<1>7. (FenceSlot /\ PhaseSlot)'
  BY DEF TypeOK, SlotInv, FenceSlot, PhaseSlot, PhaseHasOneOwner, Actor, Command, Evictor
<1>8. (DecisionSeesOnlyLateMutations /\ FencedOnlyLate /\ CheckpointExcludesStop)'
  BY ZenonT(40) DEF TypeOK, SlotInv, DecisionSeesOnlyLateMutations, FencedOnlyLate, Fenced,
         CheckpointExcludesStop, Actor, Command, Evictor
<1>9. QED
  BY <1>3, <1>5, <1>6, <1>7, <1>8 DEF SlotInv

---------------------------------------------------------------------------
(* The theorems.                                                           *)

\* The inductive invariant holds initially: nothing is in flight.
LEMMA InitIInv == Init => IInv
<1> SUFFICES ASSUME Init PROVE IInv
  OBVIOUS
<1> USE GateAssumption DEF Init
<1>1. Running = {}
  BY DEF Running, Actor
<1>2. LatchCountsRunning
  BY <1>1, FS_EmptySet DEF LatchCountsRunning
<1>3. TypeOK
  BY DEF TypeOK, Actor
<1>4. NoLostWakeup /\ SlotInv
  BY DEF NoLostWakeup, Actor, Command, Evictor, SlotInv, FenceSlot, PhaseSlot, PhaseHasOneOwner, DecisionSeesOnlyLateMutations, FencedOnlyLate, Fenced, CheckpointExcludesStop
<1>5. QED
  BY <1>2, <1>3, <1>4 DEF IInv

\* Every step of the supervisor preserves it.
LEMMA NextIInv == IInv /\ [Next]_vars => IInv'
<1> SUFFICES ASSUME IInv, [Next]_vars PROVE IInv'
  OBVIOUS
<1>1. CASE \E c \in Command : Receive(c) \/ CommandStep(c)
  BY <1>1, ReceiveStep, AdmitStep, AdmitLateStep, FinishStep DEF CommandStep
<1>2. CASE \E p \in Prepare : PrepareStep(p)
  BY <1>2, PrepareRecheckStep, RaiseFenceStep, CheckpointStep, PreparedStep, PrepareFailsStep
     DEF PrepareStep
<1>3. CASE \E e \in Evictor : StartEviction(e) \/ EvictorStep(e)
  BY <1>3, StartEvictionStep, RefreshedStep, RetryFenceStep, DrainRecheckStep, RereadStep,
     StopWorkerStep, ReleaseFenceStep DEF EvictorStep
<1>4. CASE UNCHANGED vars
  BY <1>4 DEF vars, IInv, TypeOK, LatchCountsRunning, NoLostWakeup, Running, SlotInv, FenceSlot, PhaseSlot, PhaseHasOneOwner, DecisionSeesOnlyLateMutations, FencedOnlyLate, Fenced, CheckpointExcludesStop
<1>5. CASE BeginShutdown
  BY <1>5, BeginShutdownStep
<1>6. QED
  BY <1>1, <1>2, <1>3, <1>4, <1>5 DEF Next

\* The inductive invariant is an invariant of the specification.
THEOREM GateInvariant == Spec => []IInv
BY InitIInv, NextIInv, PTL DEF Spec

\* The variables keep their types: in particular the latch never goes negative,
\* although end() decrements it unconditionally.
THEOREM GateTypeOK == Spec => []TypeOK
<1>1. IInv => TypeOK
  BY DEF IInv
<1>2. QED
  BY <1>1, GateInvariant, PTL

\* MutationDrainLatch counts exactly the mutating commands in flight.
THEOREM LatchIsBalanced == Spec => []LatchCountsRunning
<1>1. IInv => LatchCountsRunning
  BY DEF IInv
<1>2. QED
  BY <1>1, GateInvariant, PTL

\* A registered drain waiter always has a reason to wait.
THEOREM DrainHasNoLostWakeup == Spec => []NoLostWakeup
<1>1. IInv => NoLostWakeup
  BY DEF IInv
<1>2. QED
  BY <1>1, GateInvariant, PTL

\* acquireIdleEvictionFence excludes evictors, and nobody awaits an empty slot.
THEOREM FenceExcludes == Spec => []FenceIsMutex
<1>1. IInv => FenceIsMutex
  BY GateAssumption DEF IInv, TypeOK, SlotInv, FenceSlot, FenceIsMutex, Actor
<1>2. QED
  BY <1>1, GateInvariant, PTL

\* The eviction decision runs beside drain commands and late commands only.
THEOREM DecisionIsFenced == Spec => []DecisionSeesOnlyLateMutations
<1>1. IInv => DecisionSeesOnlyLateMutations
  BY DEF IInv, SlotInv
<1>2. QED
  BY <1>1, GateInvariant, PTL

\* The update checkpoint runs beside late commands only.
THEOREM CheckpointIsFenced == Spec => []CheckpointSeesOnlyLateMutations
<1>1. IInv => CheckpointSeesOnlyLateMutations
  BY DEF IInv, SlotInv, FencedOnlyLate, Fenced, CheckpointSeesOnlyLateMutations
<1>2. QED
  BY <1>1, GateInvariant, PTL

\* Workers are never stopped by an eviction while they are checkpointed.
THEOREM CheckpointAndStopExclude == Spec => []CheckpointExcludesStop
<1>1. IInv => CheckpointExcludesStop
  BY DEF IInv, SlotInv
<1>2. QED
  BY <1>1, GateInvariant, PTL
===========================================================================
