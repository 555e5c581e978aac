--------------------------- MODULE MutationGate ---------------------------
(***************************************************************************)
(* Admission of mutating commands by the daemon supervisor: the update-    *)
(* restart phase, the idle-eviction fence and the MutationDrainLatch that  *)
(* counts commands in flight.  The supervisor is one event loop, so an     *)
(* action is the code between two awaits; everything that can run between  *)
(* them interleaves.                                                       *)
(***************************************************************************)
EXTENDS Integers, FiniteSets

CONSTANTS
  Mutation,    \* ordinary mutating commands (prompt, kill, create, ...)
  DrainCmd,    \* UPDATE_RESTART_DRAIN_COMMANDS (abort, extension_ui_response, ...)
  Prepare,     \* prepare_update_restart commands
  Shutdown,    \* shutdown commands
  Sweeper,     \* the idle-eviction sweep (a single-flight timer)
  Detacher,    \* evictions triggered by the last detach of an empty session
  NoFence      \* idleEvictionFence === undefined

Command == Mutation \cup DrainCmd \cup Prepare \cup Shutdown
Evictor == Sweeper \cup Detacher
Actor   == Command \cup Evictor

(***************************************************************************)
(* The roles are disjoint and finitely many commands are in flight: one    *)
(* handler per received line.                                              *)
(***************************************************************************)
ASSUME GateAssumption ==
  /\ IsFiniteSet(Command)
  /\ Command \cap Evictor = {}
  /\ NoFence \notin Evictor
  /\ Prepare \cap (Mutation \cup DrainCmd \cup Shutdown) = {}
  /\ DrainCmd \cap (Mutation \cup Shutdown) = {}
  /\ Mutation \cap Shutdown = {}
  /\ Sweeper \cap Detacher = {}

VARIABLES
  updateRestartPhase,  \* "none" stands for undefined
  idleEvictionFence,   \* the evictor whose promise is in the slot
  active,              \* MutationDrainLatch.active
  shuttingDown,        \* assertSupervisorServing throws once it is set
  pc,                  \* where each handler, preparation or evictor is suspended
  late                 \* commands in flight that were admitted after a fence wait

vars == <<updateRestartPhase, idleEvictionFence, active, shuttingDown, pc, late>>

CommandPC == {"idle", "arrived", "fenceWait", "fenceOpen", "executing",
              "prepWait", "prepWoken", "prepDrained", "checkpointing"}
EvictorPC == {"idle", "refreshing", "fenceWait", "fenceOpen", "drainWait",
              "drainWoken", "drained", "rereading", "stopping"}

\* Counted by the latch: between mutationDrain.begin() and mutationDrain.end().
RunningPC == {"executing", "prepWait", "prepWoken", "prepDrained", "checkpointing"}
Running   == {c \in Command : pc[c] \in RunningPC}

\* prepareUpdateRestart owns the phase between setting it and its catch/return.
PreparingPC == {"prepWait", "prepWoken", "prepDrained", "checkpointing"}

\* The evictor's promise is in the idleEvictionFence slot.
HoldingPC == {"drainWait", "drainWoken", "drained", "rereading", "stopping"}

\* Between the drain and the release: the latch has been seen at zero.
DecidingPC == {"drained", "rereading", "stopping"}

TypeOK ==
  /\ updateRestartPhase \in {"none", "draining", "fencing", "prepared"}
  /\ idleEvictionFence \in Evictor \cup {NoFence}
  /\ active \in Nat
  /\ shuttingDown \in BOOLEAN
  /\ pc \in [Actor -> CommandPC \cup EvictorPC]
  /\ \A c \in Command : pc[c] \in CommandPC
  /\ \A e \in Evictor : pc[e] \in EvictorPC
  /\ late \subseteq Command

Init ==
  /\ updateRestartPhase = "none"
  /\ idleEvictionFence = NoFence
  /\ active = 0
  /\ shuttingDown = FALSE
  /\ pc = [a \in Actor |-> "idle"]
  /\ late = {}

Goto(a, label) == pc' = [pc EXCEPT ![a] = label]

---------------------------------------------------------------------------
(* The command handler: DaemonSupervisor.handleLine.                       *)

\* A line arrives: assertSupervisorServing passes and the handler suspends in
\* assertServingCurrentOwnership.
Receive(c) ==
  /\ pc[c] = "idle"
  /\ ~shuttingDown
  /\ Goto(c, "arrived")
  /\ UNCHANGED <<updateRestartPhase, idleEvictionFence, active, shuttingDown, late>>

\* The phase test: a drain command passes while draining, shutdown once prepared.
RestartRejects(c) ==
  IF updateRestartPhase = "draining"
    THEN c \notin DrainCmd
    ELSE /\ updateRestartPhase # "none"
         /\ ~(updateRestartPhase = "prepared" /\ c \in Shutdown)

\* mutationDrain.begin() and the synchronous start of handleCommand.  For
\* prepare_update_restart that start reaches into prepareUpdateRestart up to
\* the suspension in its first waitForDrain(1).
Begin(c) ==
  /\ active' = active + 1
  /\ IF c \in Prepare /\ updateRestartPhase = "none"
       THEN /\ updateRestartPhase' = "draining"
            /\ Goto(c, IF active' > 1 THEN "prepWait" ELSE "prepDrained")
       ELSE /\ Goto(c, "executing")
            /\ UNCHANGED updateRestartPhase

\* Slip: the fence is not looked at.
AdmitUnfenced(c) ==
  /\ pc[c] = "arrived"
  /\ \/ /\ Goto(c, "idle")
        /\ UNCHANGED <<updateRestartPhase, active>>
     \/ /\ ~shuttingDown
        /\ ~RestartRejects(c)
        /\ Begin(c)
  /\ UNCHANGED <<idleEvictionFence, shuttingDown, late>>

\* The ownership check returns: the command is answered at once (the check failed,
\* the journal knows the command, or the phase rejects it), queues behind the
\* fence, or begins.
Admit(c) ==
  /\ pc[c] = "arrived"
  /\ \/ /\ Goto(c, "idle")
        /\ UNCHANGED <<updateRestartPhase, active>>
     \/ /\ ~shuttingDown
        /\ ~RestartRejects(c)
        /\ idleEvictionFence # NoFence /\ c \notin DrainCmd
        /\ Goto(c, "fenceWait")
        /\ UNCHANGED <<updateRestartPhase, active>>
     \/ /\ ~shuttingDown
        /\ ~RestartRejects(c)
        /\ idleEvictionFence = NoFence \/ c \in DrainCmd
        /\ Begin(c)
  /\ UNCHANGED <<idleEvictionFence, shuttingDown, late>>

\* The awaited fence was released and assertServingCurrentOwnership ran again: the
\* command is answered at once (as above) or begins; neither the phase nor the
\* fence slot is read a second time.
AdmitLate(c) ==
  /\ pc[c] = "fenceOpen"
  /\ \/ /\ Goto(c, "idle")
        /\ UNCHANGED <<updateRestartPhase, active, late>>
     \/ /\ ~shuttingDown
        /\ Begin(c)
        /\ late' = late \cup {c}
  /\ UNCHANGED <<idleEvictionFence, shuttingDown>>

\* Slip: end() resolves only the waiters of a drain to zero.
AfterEndOfLast(a) == IF pc[a] = "drainWait" THEN "drainWoken" ELSE pc[a]

\* MutationDrainLatch.end(): decrement, then resolve every registered waiter.
\* A resolved waiter re-reads the count when it runs.
AfterEnd(a) ==
  CASE pc[a] = "drainWait" -> "drainWoken"
    [] pc[a] = "prepWait"  -> "prepWoken"
    [] OTHER               -> pc[a]

\* handleCommand settled: the response is written and the finally block ends.
Finish(c) ==
  /\ pc[c] = "executing"
  /\ active' = active - 1
  /\ pc' = [a \in Actor |-> IF a = c THEN "idle" ELSE AfterEnd(a)]
  /\ late' = late \ {c}
  /\ UNCHANGED <<updateRestartPhase, idleEvictionFence, shuttingDown>>

\* shutdown(): the setImmediate of a shutdown or restart command, a signal, or a
\* compromised socket lease.
BeginShutdown ==
  /\ ~shuttingDown
  /\ shuttingDown' = TRUE
  /\ UNCHANGED <<updateRestartPhase, idleEvictionFence, active, pc, late>>

---------------------------------------------------------------------------
(* prepareUpdateRestart.                                                   *)

\* A woken waitForDrain(1) re-reads the count and returns or registers again.
PrepareRecheck(p) ==
  /\ pc[p] = "prepWoken"
  /\ Goto(p, IF active > 1 THEN "prepWait" ELSE "prepDrained")
  /\ UNCHANGED <<updateRestartPhase, idleEvictionFence, active, shuttingDown, late>>

\* Slip: no second drain behind the raised fence.
RaiseFenceOnly(p) ==
  /\ pc[p] = "prepDrained"
  /\ updateRestartPhase = "draining"
  /\ updateRestartPhase' = "fencing"
  /\ UNCHANGED <<idleEvictionFence, active, shuttingDown, pc, late>>

\* The first waitForDrain(1) returned: raise the fence and drain again.
RaiseFence(p) ==
  /\ pc[p] = "prepDrained"
  /\ updateRestartPhase = "draining"
  /\ updateRestartPhase' = "fencing"
  /\ Goto(p, IF active > 1 THEN "prepWait" ELSE "prepDrained")
  /\ UNCHANGED <<idleEvictionFence, active, shuttingDown, late>>

\* The second waitForDrain(1) returned: prepareUpdateRestartFenced starts the
\* worker checkpoints unless a resident worker is stopping.
Checkpoint(p) ==
  /\ pc[p] = "prepDrained"
  /\ updateRestartPhase = "fencing"
  /\ \A e \in Evictor : pc[e] # "stopping"
  /\ Goto(p, "checkpointing")
  /\ UNCHANGED <<updateRestartPhase, idleEvictionFence, active, shuttingDown, late>>

\* Every worker prepared and committed; the manifest is on disk.
Prepared(p) ==
  /\ pc[p] = "checkpointing"
  /\ updateRestartPhase' = "prepared"
  /\ Goto(p, "executing")
  /\ UNCHANGED <<idleEvictionFence, active, shuttingDown, late>>

\* Slip: the catch block keeps the phase.
PrepareFailsFenced(p) ==
  /\ pc[p] \in PreparingPC
  /\ Goto(p, "executing")
  /\ UNCHANGED <<updateRestartPhase, idleEvictionFence, active, shuttingDown, late>>

\* The deadline shared by both drains passed, a resident worker was unavailable,
\* or a worker failed to prepare: the catch block clears the phase.
PrepareFails(p) ==
  /\ pc[p] \in PreparingPC
  /\ updateRestartPhase' = "none"
  /\ Goto(p, "executing")
  /\ UNCHANGED <<idleEvictionFence, active, shuttingDown, late>>

---------------------------------------------------------------------------
(* runIdleEvictionSweep and evictEmptySessionOnLastDetach.                 *)

EvictionDisallowed == shuttingDown \/ updateRestartPhase # "none"

\* The entry guards, then the summaries refresh suspends.
StartEviction(e) ==
  /\ pc[e] = "idle"
  /\ ~EvictionDisallowed
  /\ e \in Sweeper => idleEvictionFence = NoFence
  /\ Goto(e, "refreshing")
  /\ UNCHANGED <<updateRestartPhase, idleEvictionFence, active, shuttingDown, late>>

\* waitForDrain(0) entered with the slot just taken.
TakeFence(e) ==
  /\ idleEvictionFence' = e
  /\ Goto(e, IF active > 0 THEN "drainWait" ELSE "drained")

\* while (this.idleEvictionFence) await this.idleEvictionFence; then take it.
AcquireFence(e) ==
  \/ /\ idleEvictionFence # NoFence
     /\ Goto(e, "fenceWait")
     /\ UNCHANGED idleEvictionFence
  \/ /\ idleEvictionFence = NoFence
     /\ TakeFence(e)

\* The refresh returns: give up, or go for the fence.
Refreshed(e) ==
  /\ pc[e] = "refreshing"
  /\ \/ /\ Goto(e, "idle")
        /\ UNCHANGED idleEvictionFence
     \/ /\ ~EvictionDisallowed
        /\ AcquireFence(e)
  /\ UNCHANGED <<updateRestartPhase, active, shuttingDown, late>>

\* Slip: the fence is awaited with an if, not a while.
RetryFenceOnce(e) ==
  /\ pc[e] = "fenceOpen"
  /\ TakeFence(e)
  /\ UNCHANGED <<updateRestartPhase, active, shuttingDown, late>>

\* The awaited fence was released: look at the slot again.
RetryFence(e) ==
  /\ pc[e] = "fenceOpen"
  /\ AcquireFence(e)
  /\ UNCHANGED <<updateRestartPhase, active, shuttingDown, late>>

DrainRecheck(e) ==
  /\ pc[e] = "drainWoken"
  /\ Goto(e, IF active > 0 THEN "drainWait" ELSE "drained")
  /\ UNCHANGED <<updateRestartPhase, idleEvictionFence, active, shuttingDown, late>>

\* action() starts: the summaries are read again under the fence.
Reread(e) ==
  /\ pc[e] = "drained"
  /\ e \in Sweeper => ~EvictionDisallowed
  /\ Goto(e, "rereading")
  /\ UNCHANGED <<updateRestartPhase, idleEvictionFence, active, shuttingDown, late>>

\* Slip: no test for a restart that began during the reread.
StopWorkerAnyway(e) ==
  /\ pc[e] = "rereading"
  /\ Goto(e, "stopping")
  /\ UNCHANGED <<updateRestartPhase, idleEvictionFence, active, shuttingDown, late>>

\* Still evictable and no restart pending: the worker is stopped or killed.
StopWorker(e) ==
  /\ pc[e] = "rereading"
  /\ ~EvictionDisallowed
  /\ Goto(e, "stopping")
  /\ UNCHANGED <<updateRestartPhase, idleEvictionFence, active, shuttingDown, late>>

\* Slip: the release reaches the evictors only.
AfterReleaseOfEvictors(a) ==
  IF pc[a] = "fenceWait" /\ a \in Evictor THEN "fenceOpen" ELSE pc[a]

\* releaseFence(): clear the slot and resolve the promise everyone awaits.
AfterRelease(a) == IF pc[a] = "fenceWait" THEN "fenceOpen" ELSE pc[a]

\* The finally block of withEvictionFence: the drain timed out, the worker is
\* no longer evictable, or the stop settled.
ReleaseFence(e) ==
  /\ pc[e] \in {"drainWait", "drainWoken", "drained", "rereading", "stopping"}
  /\ pc[e] = "drained" => EvictionDisallowed /\ e \in Sweeper
  /\ idleEvictionFence' = NoFence
  /\ pc' = [a \in Actor |-> IF a = e THEN "idle" ELSE AfterRelease(a)]
  /\ UNCHANGED <<updateRestartPhase, active, shuttingDown, late>>

---------------------------------------------------------------------------
CommandStep(c) == Admit(c) \/ AdmitLate(c) \/ Finish(c)
PrepareStep(p) == PrepareRecheck(p) \/ RaiseFence(p) \/ Checkpoint(p)
                  \/ Prepared(p) \/ PrepareFails(p)
EvictorStep(e) == Refreshed(e) \/ RetryFence(e) \/ DrainRecheck(e) \/ Reread(e)
                  \/ StopWorker(e) \/ ReleaseFence(e)

Next ==
  \/ \E c \in Command : Receive(c) \/ CommandStep(c)
  \/ \E p \in Prepare : PrepareStep(p)
  \/ \E e \in Evictor : StartEviction(e) \/ EvictorStep(e)
  \/ BeginShutdown

Spec == Init /\ [][Next]_vars

(***************************************************************************)
(* The event loop runs every ready continuation, so a handler, a           *)
(* preparation and an eviction each keep moving; and every armed timeout   *)
(* fires (the AbortSignal of a drain, the timeout of a worker request), so *)
(* a drain that other commands keep waking up still ends.  Nothing is      *)
(* assumed of clients (Receive) or of what starts an eviction.             *)
(***************************************************************************)
Fairness ==
  /\ \A c \in Command : WF_vars(Admit(c) \/ AdmitLate(c)) /\ WF_vars(Finish(c))
  /\ \A p \in Prepare : WF_vars(PrepareStep(p)) /\ WF_vars(PrepareFails(p))
  /\ \A e \in Evictor : WF_vars(EvictorStep(e)) /\ WF_vars(ReleaseFence(e))

FairSpec == Spec /\ Fairness

---------------------------------------------------------------------------
(* Properties.                                                             *)

\* The latch is balanced: begin() and end() bracket every mutating command, on
\* the success, failure and preparation paths alike, so its count is the number
\* of commands in flight (handleLine's finally block).
LatchCountsRunning == active = Cardinality(Running)

\* No lost wake-up in MutationDrainLatch: whoever is registered and suspended
\* still has a reason to be, an end() that lowered the count resolved it.
NoLostWakeup ==
  \A a \in Actor : /\ pc[a] = "drainWait" => active > 0
                   /\ pc[a] = "prepWait"  => active > 1

\* acquireIdleEvictionFence is a mutex although the slot is only polled: two
\* evictors never decide at once, and whoever awaits a fence awaits the promise
\* that is in the slot, so its release reaches them all.
FenceIsMutex ==
  /\ \A e, f \in Evictor : pc[e] \in HoldingPC /\ pc[f] \in HoldingPC => e = f
  /\ (\E a \in Actor : pc[a] = "fenceWait") => (\E e \in Evictor : pc[e] \in HoldingPC)

\* While an evictor decides after its drain, what runs is exempt from the fence
\* (a drain command) or came through a wait on an earlier fence: the check and
\* the begin of the direct path are one synchronous step.
DecisionSeesOnlyLateMutations ==
  \A e \in Evictor, c \in Command :
    pc[e] \in DecidingPC /\ pc[c] \in RunningPC => c \in DrainCmd \cup late

\* While workers are checkpointed for an update restart nothing runs beside the
\* preparation except commands that had waited on an eviction fence.  This is
\* what the second waitForDrain(1), after the phase became "fencing", is for.
CheckpointSeesOnlyLateMutations ==
  \A p \in Prepare, c \in Command :
    pc[p] = "checkpointing" /\ pc[c] \in RunningPC => c = p \/ c \in late

\* No eviction is stopping a worker while the workers are checkpointed, although
\* evictions are not counted by the latch and a preparation may begin under a
\* held fence: the two sides' checks exclude each other.
CheckpointExcludesStop ==
  ~ \E p \in Prepare, e \in Evictor : pc[p] = "checkpointing" /\ pc[e] = "stopping"

\* One preparation owns the phase; no other command moves it.
PhaseHasOneOwner ==
  /\ \A p, q \in Prepare : pc[p] \in PreparingPC /\ pc[q] \in PreparingPC => p = q
  /\ updateRestartPhase \in {"draining", "fencing"}
       <=> \E p \in Prepare : pc[p] \in PreparingPC

\* Every received command is answered: neither the fence, nor the drains of the
\* preparation and of the evictors, nor both together, suspend it for ever.
EveryCommandSettles == \A c \in Command : pc[c] = "arrived" ~> pc[c] = "idle"

\* A preparation ends with the daemon prepared or open again, never half fenced.
PreparationSettles ==
  updateRestartPhase = "draining" ~> updateRestartPhase \in {"prepared", "none"}
===========================================================================
