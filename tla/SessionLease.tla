---------------------------- MODULE SessionLease ----------------------------
(***************************************************************************)
(* core/session-lease.ts for one session path: processes that acquire and  *)
(* release the lease directory under a guard lock, crash anywhere, and are *)
(* born again with the same pid.  Every file-system call is an action, for *)
(* the guard is all that keeps two processes from interleaving theirs.     *)
(***************************************************************************)
EXTENDS Integers

CONSTANTS
  Proc,       \* pids
  MaxLife,    \* bound: processes that get the same pid
  MaxPauses,  \* bound: live guard holders that stop for more than 5 s
  Nobody

ASSUME LeaseAssumption ==
  /\ MaxLife \in Nat \ {0}
  /\ MaxPauses \in Nat
  /\ Nobody \notin Proc \X (1..MaxLife)

VARIABLES
  lease,     \* the process named in owner.json, Nobody when there is no directory
  guard,     \* the process that made the .guard lock, Nobody when there is none
  stale,     \* the guard lock is older than its staleness threshold
  pauses,    \* live guard holders that were slower than that
  alive,
  life,      \* how many processes had this pid: with it, the process start id
  pc,        \* the next file-system call of a lease operation
  releasing, \* whether that operation is a release
  attempts,  \* loop counter of acquireSessionLease
  holds      \* a SessionLease was returned and not released

locks == <<lease, guard, stale, pauses>>
procs == <<alive, life, pc, releasing, attempts, holds>>
vars  == <<locks, procs>>

Process == Proc \X (1..MaxLife)
Me(p)   == <<p, life[p]>>

\* Inside withLeaseGuard.
Section == {"rename", "read", "check", "reclaim", "unlock"}

TypeOK ==
  /\ lease \in Process \cup {Nobody}
  /\ guard \in Process \cup {Nobody}
  /\ stale \in BOOLEAN
  /\ pauses \in 0..MaxPauses
  /\ alive \in [Proc -> BOOLEAN]
  /\ life \in [Proc -> 1..MaxLife]
  /\ pc \in [Proc -> Section \cup {"idle", "lock"}]
  /\ releasing \in [Proc -> BOOLEAN]
  /\ attempts \in [Proc -> 0..3]
  /\ holds \in [Proc -> BOOLEAN]

Init ==
  /\ lease = Nobody
  /\ guard = Nobody
  /\ stale = FALSE
  /\ pauses = 0
  /\ alive = [p \in Proc |-> TRUE]
  /\ life = [p \in Proc |-> 1]
  /\ pc = [p \in Proc |-> "idle"]
  /\ releasing = [p \in Proc |-> FALSE]
  /\ attempts = [p \in Proc |-> 0]
  /\ holds = [p \in Proc |-> FALSE]

Goto(p, label) == pc' = [pc EXCEPT ![p] = label]
At(p, label)   == alive[p] /\ pc[p] = label

---------------------------------------------------------------------------
(* The two operations and their guard, the lock directory lockSync makes.   *)

Acquire(p) ==
  /\ At(p, "idle")
  /\ ~holds[p]
  /\ Goto(p, "lock")
  /\ releasing' = [releasing EXCEPT ![p] = FALSE]
  /\ attempts' = [attempts EXCEPT ![p] = 0]
  /\ UNCHANGED <<locks, alive, life, holds>>

\* release(): marked released first, the session is no longer written.
Release(p) ==
  /\ At(p, "idle")
  /\ holds[p]
  /\ Goto(p, "lock")
  /\ releasing' = [releasing EXCEPT ![p] = TRUE]
  /\ holds' = [holds EXCEPT ![p] = FALSE]
  /\ UNCHANGED <<locks, alive, life, attempts>>

\* lockSync: a guard older than the threshold is broken.
Lock(p) ==
  /\ At(p, "lock")
  /\ guard = Nobody \/ stale
  /\ guard' = Me(p)
  /\ stale' = FALSE
  /\ Goto(p, IF releasing[p] THEN "check" ELSE "rename")
  /\ UNCHANGED <<lease, pauses, alive, life, releasing, attempts, holds>>

\* A hundred attempts, 10 ms apart, found the guard taken: an acquisition
\* throws, a release gives up in silence.
LockFails(p) ==
  /\ At(p, "lock")
  /\ guard # Nobody
  /\ Goto(p, "idle")
  /\ UNCHANGED <<locks, alive, life, releasing, attempts, holds>>

\* The guard's release(): the lock directory is removed, whoever made it.
Unlock(p) ==
  /\ At(p, "unlock")
  /\ guard' = Nobody
  /\ stale' = FALSE
  /\ Goto(p, "idle")
  /\ UNCHANGED <<lease, pauses, alive, life, releasing, attempts, holds>>

---------------------------------------------------------------------------
(* acquireSessionLease under the guard.                                    *)

\* Slip: the rounds are not counted.
RetryForever(p) == Goto(p, "rename") /\ UNCHANGED attempts

\* Back to the head of the loop.
Retry(p) ==
  /\ attempts' = [attempts EXCEPT ![p] = @ + 1]
  /\ Goto(p, IF attempts'[p] < 3 THEN "rename" ELSE "unlock")

\* renameSync(candidateDirectory, directory): it succeeds, the directory is there,
\* the candidate is gone, or another error is thrown.
Rename(p) ==
  /\ At(p, "rename")
  /\ \/ /\ lease = Nobody
        /\ lease' = Me(p)
        /\ holds' = [holds EXCEPT ![p] = TRUE]
        /\ Goto(p, "unlock")
        /\ UNCHANGED attempts
     \/ lease # Nobody /\ Goto(p, "read") /\ UNCHANGED <<lease, holds, attempts>>
     \/ Retry(p) /\ UNCHANGED <<lease, holds>>
     \/ Goto(p, "unlock") /\ UNCHANGED <<lease, holds, attempts>>
  /\ UNCHANGED <<guard, stale, pauses, alive, life, releasing>>

\* isLeaseOwnerAlive: the pid exists and was not given to another process.
OwnerAlive(o) == alive[o[1]] /\ life[o[1]] = o[2]

\* Slip: an unreadable owner is taken for an absent one.
ReadOwnerHastily(p) ==
  /\ At(p, "read")
  /\ \/ /\ lease # Nobody
        /\ alive[lease[1]]
        /\ Goto(p, "unlock")
     \/ Goto(p, "reclaim")
  /\ UNCHANGED <<locks, alive, life, releasing, attempts, holds>>

\* readLeaseOwner: unreadable, owned by a live process (also when its start id
\* cannot be queried), or to be reclaimed.
ReadOwner(p) ==
  /\ At(p, "read")
  /\ \/ Retry(p)
     \/ /\ lease # Nobody
        /\ alive[lease[1]]
        /\ Goto(p, "unlock")
        /\ UNCHANGED attempts
     \/ /\ lease # Nobody => ~OwnerAlive(lease)
        /\ Goto(p, "reclaim")
        /\ UNCHANGED attempts
  /\ UNCHANGED <<locks, alive, life, releasing, holds>>

\* reclaimStaleLease: the directory is renamed away, whosever it is by now, or
\* it cannot be.
Reclaim(p) ==
  /\ At(p, "reclaim")
  /\ \/ /\ lease' = Nobody
        /\ IF releasing[p] THEN Goto(p, "unlock") /\ UNCHANGED attempts ELSE Retry(p)
     \/ /\ Goto(p, "unlock")
        /\ UNCHANGED <<lease, attempts>>
  /\ UNCHANGED <<guard, stale, pauses, alive, life, releasing, holds>>

\* SessionLease.release under the guard: only the lease with our token, unless
\* owner.json cannot be read.
CheckToken(p) ==
  /\ At(p, "check")
  /\ \/ lease = Me(p) /\ Goto(p, "reclaim")
     \/ Goto(p, "unlock")
  /\ UNCHANGED <<locks, alive, life, releasing, attempts, holds>>

---------------------------------------------------------------------------
(* The environment.                                                        *)

Crash(p) ==
  /\ alive[p]
  /\ alive' = [alive EXCEPT ![p] = FALSE]
  /\ Goto(p, "idle")
  /\ holds' = [holds EXCEPT ![p] = FALSE]
  /\ UNCHANGED <<locks, life, releasing, attempts>>

\* The pid is given to another process.
Reborn(p) ==
  /\ ~alive[p]
  /\ life[p] < MaxLife
  /\ alive' = [alive EXCEPT ![p] = TRUE]
  /\ life' = [life EXCEPT ![p] = @ + 1]
  /\ UNCHANGED <<locks, pc, releasing, attempts, holds>>

\* Five seconds pass.  The section is synchronous, so its holder cannot refresh
\* the lock's mtime, nor hear onCompromised.
GuardAges ==
  /\ guard # Nobody
  /\ ~stale
  /\ stale' = TRUE
  /\ IF OwnerAlive(guard)
       THEN pauses < MaxPauses /\ pauses' = pauses + 1
       ELSE UNCHANGED pauses
  /\ UNCHANGED <<lease, guard, procs>>

---------------------------------------------------------------------------
Step(p) ==
  Lock(p) \/ LockFails(p) \/ Unlock(p) \/ Rename(p) \/ ReadOwner(p) \/ Reclaim(p)
  \/ CheckToken(p)

Next ==
  \/ \E p \in Proc : Acquire(p) \/ Release(p) \/ Step(p) \/ Crash(p) \/ Reborn(p)
  \/ GuardAges

Spec == Init /\ [][Next]_vars

\* A running process carries its synchronous operation on.
FairSpec == Spec /\ \A p \in Proc : WF_vars(Step(p))

---------------------------------------------------------------------------
(* Properties.                                                             *)

\* A process that may write the transcript is the one named on disk, so no two
\* may, whatever crashes, stale guards and reused pids there are, unless a live
\* guard holder has been slower than the guard's staleness threshold.
HolderOwnsLease ==
  pauses = 0 => \A p \in Proc : holds[p] => lease = Me(p)

\* No operation hangs: a guard left behind by a crash, an unreadable owner and a
\* reclaimed directory that comes back all end in an answer.
OperationsSettle == \A p \in Proc : pc[p] = "lock" ~> pc[p] = "idle"

\* daemon.md:66: "This prevents daemon workers and one-shot clients from writing
\* the same transcript concurrently."
Exclusive == \A p, q \in Proc : holds[p] /\ holds[q] => p = q
=============================================================================
