------------------------ MODULE SupervisorOwnership ------------------------
(***************************************************************************)
(* Who may serve an agent directory and who may stop everything: the owner *)
(* records of supervisors and the shutdown admission, both kept in         *)
(* registry directories under one file lock (the guard) per directory.     *)
(*                                                                         *)
(* A supervisor publishes an owner record in its home registry, under the  *)
(* guards of that registry and of the discovery registry.  A shutdown or   *)
(* an update publishes its admission in every registry it knows and renews *)
(* it; a supervisor that finds one does not start.  A guard whose holder   *)
(* stalled for five seconds can be taken over; the holder only notices     *)
(* when it leaves, by the inode of the guard directory.  A step is the     *)
(* synchronous code between two points where the process can stall.        *)
(***************************************************************************)
EXTENDS Naturals, FiniteSets

CONSTANTS MainSups,    \* supervisors whose home is the default registry
          CustomSups,  \* supervisors started with a registry of their own
          Admins,      \* shutdown commands and update coordinators
          Nobody,      \* no process
          MaxPauses    \* bound: guards taken over from a live, stalled holder

Sups  == MainSups \cup CustomSups
Procs == Sups \cup Admins

ASSUME OwnershipAssumption ==
  /\ MainSups \cap CustomSups = {}
  /\ Sups \cap Admins = {}
  /\ Nobody \notin Procs
  /\ MaxPauses \in Nat

VARIABLES
  alive,      \* processes that have not exited
  pc,         \* where a process is
  op,         \* the guarded operation it is in
  mine,       \* the guards it took and has not given back yet
  result,     \* what its operation will report
  guard,      \* guard directory of each registry: who made it
  owners,     \* owner directories of each registry
  admission,  \* admission file of each registry: whose, and still fresh
  known,      \* the registries an admission holder covers (registryDirs)
  released,   \* holders that called release()
  since,      \* history: supervisors that started under an admission
  late,       \* history: holders whose admission elapsed before a renewal
  pauses      \* guards taken over from a live holder

vars == <<alive, pc, op, mine, result, guard, owners, admission, known, released, since,
          late, pauses>>

Dirs == {"discovery", "registry", "custom"}
\* The order in which guards are taken: that of the canonical paths.
Rank == [d \in Dirs |-> CASE d = "discovery" -> 1
                          [] d = "registry"  -> 2
                          [] d = "custom"    -> 3]

Ops     == {"acquire", "release", "renew", "extend"}
Results == {"ok", "error", "lost", "busy"}
PCs     == {"idle", "lock", "inside", "checked", "leaving", "owner", "held",
            "lost", "released", "done"}

Home(p) == IF p \in MainSups THEN "registry" ELSE "custom"

NoAdmission == [by |-> Nobody, fresh |-> FALSE]
Fresh(a)    == [by |-> a, fresh |-> TRUE]
Active(d)   == admission[d].fresh /\ admission[d].by \in alive

\* The registries whose guards the present operation of p takes.
Wanted(p) ==
  IF p \in Sups
    THEN IF op[p] = "acquire" THEN {"discovery", Home(p)} ELSE {Home(p)}
    ELSE IF op[p] = "extend" THEN known[p] \cup {"custom"} ELSE known[p]

\* readActiveShutdownAdmission over ds until one is active: files that are not
\* active and come before it are removed.  ReadOrder is the order of the list.
ReadOrder(p) ==
  IF p \in CustomSups THEN [d \in Dirs |-> IF d = "custom" THEN 0 ELSE Rank[d]]
  ELSE [d \in Dirs |-> IF d = "registry" THEN 0 ELSE Rank[d]]
Swept(p, ds) ==
  [d \in Dirs |->
     IF d \in ds /\ \A e \in ds : ReadOrder(p)[e] <= ReadOrder(p)[d] => ~Active(e)
       THEN NoAdmission ELSE admission[d]]

-----------------------------------------------------------------------------
Init ==
  /\ alive = Procs
  /\ pc = [p \in Procs |-> "idle"]
  /\ op = [p \in Procs |-> "acquire"]
  /\ mine = [p \in Procs |-> {}]
  /\ result = [p \in Procs |-> "ok"]
  /\ guard = [d \in Dirs |-> Nobody]
  /\ owners = [d \in Dirs |-> {}]
  /\ admission = [d \in Dirs |-> NoAdmission]
  /\ known \in [Admins -> {{"discovery", "registry"}, Dirs}]
  /\ released = {}
  /\ since = [a \in Admins |-> {}]
  /\ late = {}
  /\ pauses = 0

Busy(p) == pc[p] \in {"lock", "inside", "checked", "leaving"}

Start(p, o) ==
  /\ op' = [op EXCEPT ![p] = o]
  /\ pc' = [pc EXCEPT ![p] = "lock"]
  /\ result' = [result EXCEPT ![p] = "ok"]
  /\ UNCHANGED <<alive, mine, guard, owners, admission, known, released, since, late,
                 pauses>>

\* Supervisor start-up; acquireDaemonShutdownAdmission (again after a busy try).
Acquire(p) == p \in alive /\ pc[p] = "idle" /\ Start(p, "acquire")
\* DaemonSupervisorOwnership.release in a supervisor that stops.
ReleaseOwner(p) == p \in alive /\ pc[p] = "owner" /\ Start(p, "release")
\* assertOrRenew, by the refresh timer or before a step of the shutdown.
Renew(a) ==
  a \in alive /\ pc[a] = "held" /\ a \notin released /\ Start(a, "renew")
\* extendRegistryDirs with a registry that was not known at first.
Extend(a) ==
  /\ a \in alive /\ pc[a] = "held" /\ a \notin released
  /\ "custom" \notin known[a]
  /\ Start(a, "extend")
\* DaemonShutdownAdmission.release is called, perhaps while the timer renews.
CallRelease(a) ==
  /\ a \in alive \ released
  /\ pc[a] \in {"held", "lost"} \/ (op[a] = "renew" /\ Busy(a))
  /\ released' = released \cup {a}
  /\ UNCHANGED <<alive, pc, op, mine, result, guard, owners, admission, known,
                 since, late, pauses>>
\* ... and goes on when no renewal is under way.
ReleaseAdmission(a) ==
  a \in alive \cap released /\ pc[a] \in {"held", "lost"} /\ Start(a, "release")

-----------------------------------------------------------------------------
(* withDaemonSupervisorRegistryGuards.                                     *)

NextGuard(p, d) ==
  /\ d \in Wanted(p) \ mine[p]
  /\ \A e \in Wanted(p) : Rank[e] < Rank[d] => e \in mine[p]

\* lockfile.lock makes the guard directory, or takes over one that was not
\* refreshed for five seconds because its holder is dead or stalled.  The last
\* one opens the way inside.
Lock(p, d) ==
  /\ p \in alive
  /\ pc[p] = "lock"
  /\ NextGuard(p, d)
  /\ pauses' = IF guard[d] \in alive THEN pauses + 1 ELSE pauses
  /\ pauses' <= MaxPauses
  /\ guard' = [guard EXCEPT ![d] = p]
  /\ mine' = [mine EXCEPT ![p] = @ \cup {d}]
  /\ pc' = [pc EXCEPT ![p] = IF Wanted(p) = mine[p] \cup {d} THEN "inside" ELSE "lock"]
  /\ UNCHANGED <<alive, op, result, owners, admission, known, released, since, late>>

\* What a caller sees once every guard was given back.
Outcome(p, r) ==
  CASE p \in Sups /\ op[p] = "acquire" -> IF r = "ok" THEN "owner" ELSE "done"
    [] p \in Sups /\ op[p] = "release" -> "done"
    [] p \in Admins /\ op[p] = "acquire" ->
         IF r = "ok" THEN "held" ELSE IF r = "busy" THEN "idle" ELSE "done"
    [] p \in Admins /\ op[p] = "renew"   -> IF r = "lost" THEN "lost" ELSE "held"
    [] p \in Admins /\ op[p] = "extend"  -> IF r = "ok" THEN "held" ELSE "lost"
    [] OTHER -> IF r = "ok" THEN "released" ELSE "done"

Holding(a) ==
  /\ a \in alive
  /\ \/ pc[a] = "held"
     \/ op[a] \in {"renew", "extend"} /\ Busy(a)

\* Slip: extendRegistryDirs does not add the registry to the covered ones.
SettleForgets(p, r) ==
  /\ pc' = [pc EXCEPT ![p] = Outcome(p, r)]
  /\ since' = IF p \in Sups /\ op[p] = "acquire" /\ r = "ok"
                THEN [a \in Admins |-> IF Holding(a) THEN since[a] \cup {p} ELSE since[a]]
                ELSE since
  /\ UNCHANGED known

\* The operation of p is over with result r.
Settle(p, r) ==
  /\ pc' = [pc EXCEPT ![p] = Outcome(p, r)]
  /\ since' = IF p \in Sups /\ op[p] = "acquire" /\ r = "ok"
                THEN [a \in Admins |-> IF Holding(a) THEN since[a] \cup {p} ELSE since[a]]
                ELSE since
  /\ known' = IF p \in Admins /\ op[p] = "extend" /\ r = "ok"
                THEN [known EXCEPT ![p] = @ \cup {"custom"}] ELSE known

\* Slip: a guard that changed hands goes unnoticed.
LeaveUnchecked(p, d) ==
  LET r == result[p] IN
  /\ p \in alive
  /\ pc[p] = "leaving"
  /\ d \in mine[p]
  /\ \A e \in mine[p] : Rank[e] <= Rank[d]
  /\ guard' = IF guard[d] = p THEN [guard EXCEPT ![d] = Nobody] ELSE guard
  /\ mine' = [mine EXCEPT ![p] = @ \ {d}]
  /\ result' = [result EXCEPT ![p] = IF mine[p] = {d} THEN "ok" ELSE r]
  /\ IF mine[p] = {d} THEN Settle(p, r) ELSE UNCHANGED <<pc, since, known>>
  /\ UNCHANGED <<alive, op, owners, admission, released, late, pauses>>

\* assertGuardHeld and release of one guard, innermost first.  A guard that
\* changed hands is left alone, and the operation reports an error.
Leave(p, d) ==
  LET r == IF guard[d] = p THEN result[p] ELSE "error" IN
  /\ p \in alive
  /\ pc[p] = "leaving"
  /\ d \in mine[p]
  /\ \A e \in mine[p] : Rank[e] <= Rank[d]
  /\ guard' = IF guard[d] = p THEN [guard EXCEPT ![d] = Nobody] ELSE guard
  /\ mine' = [mine EXCEPT ![p] = @ \ {d}]
  /\ result' = [result EXCEPT ![p] = IF mine[p] = {d} THEN "ok" ELSE r]
  /\ IF mine[p] = {d} THEN Settle(p, r) ELSE UNCHANGED <<pc, since, known>>
  /\ UNCHANGED <<alive, op, owners, admission, released, late, pauses>>

\* The guard stays taken for all 500 retries: the guards taken so far are given
\* back and the operation reports an error.
GiveUp(p, d) ==
  /\ p \in alive
  /\ pc[p] = "lock"
  /\ NextGuard(p, d)
  /\ guard[d] \in alive
  /\ result' = [result EXCEPT ![p] = IF mine[p] = {} THEN "ok" ELSE "error"]
  /\ IF mine[p] = {} THEN Settle(p, "error")
     ELSE /\ pc' = [pc EXCEPT ![p] = "leaving"]
          /\ UNCHANGED <<since, known>>
  /\ UNCHANGED <<alive, op, mine, guard, owners, admission, released, late, pauses>>

-----------------------------------------------------------------------------
(* The guarded sections.                                                   *)

Inside(p, o) == p \in alive /\ pc[p] = "inside" /\ op[p] = o

\* A body ends, or goes on behind a point where the process may stall.
To(p, where, r) ==
  /\ pc' = [pc EXCEPT ![p] = where]
  /\ result' = [result EXCEPT ![p] = r]
  /\ UNCHANGED <<alive, op, mine, guard, known, released, since, late, pauses>>

\* Slip: only the home registry is asked for an admission.
CheckOwnersAtHome(p) ==
  LET h == Home(p)
      fenced == Active(h)
      running == owners[h] \cap alive # {} IN
  /\ Inside(p, "acquire")
  /\ p \in Sups
  /\ admission' = Swept(p, {h})
  /\ owners' = IF fenced \/ running THEN owners ELSE [owners EXCEPT ![h] = @ \cap alive]
  /\ To(p, IF fenced \/ running THEN "leaving" ELSE "checked",
           IF fenced \/ running THEN "error" ELSE "ok")

\* acquireDaemonSupervisorOwnership: no active admission, no live owner; dead
\* owners are renamed away.  A live one that comes first stops the loop.
CheckOwners(p) ==
  LET h == Home(p)
      fenced == \E d \in Wanted(p) : Active(d)
      running == owners[h] \cap alive # {} IN
  /\ Inside(p, "acquire")
  /\ p \in Sups
  /\ admission' = Swept(p, Wanted(p))
  /\ IF fenced THEN UNCHANGED owners
     ELSE IF running
       THEN \E gone \in SUBSET (owners[h] \ alive) :
              owners' = [owners EXCEPT ![h] = @ \ gone]
       ELSE owners' = [owners EXCEPT ![h] = @ \cap alive]
  /\ To(p, IF fenced \/ running THEN "leaving" ELSE "checked",
           IF fenced \/ running THEN "error" ELSE "ok")

\* The candidate directory becomes the owner directory of this generation.
Publish(p) ==
  /\ p \in alive
  /\ pc[p] = "checked"
  /\ p \in Sups
  /\ owners' = [owners EXCEPT ![Home(p)] = @ \cup {p}]
  /\ To(p, "leaving", "ok")
  /\ UNCHANGED admission

\* The rename or what follows it fails: the owner directory is renamed back, unless
\* that fails too.
PublishFails(p) ==
  /\ p \in alive
  /\ pc[p] = "checked"
  /\ p \in Sups
  /\ owners' \in {owners, [owners EXCEPT ![Home(p)] = @ \cup {p}]}
  /\ To(p, "leaving", "error")
  /\ UNCHANGED admission

RemoveOwner(p) ==
  /\ Inside(p, "release")
  /\ p \in Sups
  /\ owners' = [owners EXCEPT ![Home(p)] = @ \ {p}]
  /\ To(p, "leaving", "ok")
  /\ UNCHANGED admission

\* acquireDaemonShutdownAdmission: another active admission means try again.
CheckAdmission(a) ==
  LET busy == \E d \in known[a] : Active(d) IN
  /\ Inside(a, "acquire")
  /\ a \in Admins
  /\ admission' = Swept(a, known[a])
  /\ To(a, IF busy THEN "leaving" ELSE "checked", IF busy THEN "busy" ELSE "ok")
  /\ UNCHANGED owners

\* Slip: a renewal writes without looking at the record it replaces.
CheckNothing(a) ==
  /\ Inside(a, "renew")
  /\ a \notin released
  /\ To(a, "checked", "ok")
  /\ UNCHANGED <<owners, admission>>

\* performRenew: only the first registry has to hold the holder's record.
CheckPrimary(a) ==
  /\ Inside(a, "renew")
  /\ a \notin released
  /\ admission["registry"].by = a
  /\ To(a, "checked", "ok")
  /\ UNCHANGED <<owners, admission>>

\* performRenew: the record is gone, another's or no longer wanted.
LosePrimary(a) ==
  /\ Inside(a, "renew")
  /\ admission["registry"].by # a \/ a \in released
  /\ To(a, "leaving", "lost")
  /\ UNCHANGED <<owners, admission>>

\* extendRegistryDirs: every covered registry has to hold the record, and the
\* new one no other active admission.
CheckExtension(a) ==
  LET ok == /\ \A d \in known[a] : admission[d].by = a
            /\ Active("custom") => admission["custom"].by = a IN
  /\ Inside(a, "extend")
  /\ admission' = IF (\A d \in known[a] : admission[d].by = a) /\ ~Active("custom")
                    THEN [admission EXCEPT !["custom"] = NoAdmission] ELSE admission
  /\ To(a, IF ok THEN "checked" ELSE "leaving", IF ok THEN "ok" ELSE "error")
  /\ UNCHANGED owners

\* The record is written to registry after registry; a renewal stops where it
\* meets another holder's.
WriteAdmission(a) ==
  LET foreign == {d \in Wanted(a) : admission[d].by \notin {a, Nobody}}
      stop == op[a] = "renew" /\ foreign # {}
      before == {d \in Wanted(a) :
                   \A e \in foreign : ReadOrder(a)[e] > ReadOrder(a)[d]} IN
  /\ a \in alive
  /\ pc[a] = "checked"
  /\ a \in Admins
  /\ admission' = [d \in Dirs |->
                     IF d \in (IF stop THEN before ELSE Wanted(a))
                       THEN Fresh(a) ELSE admission[d]]
  /\ To(a, "leaving", IF stop THEN "lost" ELSE "ok")
  /\ UNCHANGED owners

RemoveAdmission(a) ==
  /\ Inside(a, "release")
  /\ a \in Admins
  /\ admission' = [d \in Dirs |-> IF d \in known[a] /\ admission[d].by = a
                                    THEN NoAdmission ELSE admission[d]]
  /\ To(a, "leaving", "ok")
  /\ UNCHANGED owners

-----------------------------------------------------------------------------
(* Time, stalls and crashes.                                               *)

\* Five seconds pass without a renewal.
Elapse(a) ==
  /\ \E d \in Dirs : admission[d] = Fresh(a)
  /\ admission' = [d \in Dirs |-> IF admission[d].by = a
                                    THEN [by |-> a, fresh |-> FALSE] ELSE admission[d]]
  /\ late' = late \cup {a}
  /\ UNCHANGED <<alive, pc, op, mine, result, guard, owners, known, released,
                 since, pauses>>

\* A process exits, by a crash or because its start failed.
Exit(p) ==
  /\ p \in alive
  /\ alive' = alive \ {p}
  /\ pc' = [pc EXCEPT ![p] = "done"]
  /\ op' = [op EXCEPT ![p] = "acquire"]
  /\ mine' = [mine EXCEPT ![p] = {}]
  /\ result' = [result EXCEPT ![p] = "ok"]
  /\ UNCHANGED <<guard, owners, admission, known, released, since, late, pauses>>

-----------------------------------------------------------------------------
SupStep(p) ==
  \/ Acquire(p) \/ ReleaseOwner(p)
  \/ CheckOwners(p) \/ Publish(p) \/ PublishFails(p) \/ RemoveOwner(p)

AdminStep(a) ==
  \/ Acquire(a) \/ Renew(a) \/ Extend(a) \/ CallRelease(a) \/ ReleaseAdmission(a)
  \/ CheckAdmission(a) \/ CheckPrimary(a) \/ LosePrimary(a) \/ CheckExtension(a)
  \/ WriteAdmission(a) \/ RemoveAdmission(a)
  \/ Elapse(a)

GuardStep(p) ==
  \/ \E d \in Dirs : Lock(p, d) \/ Leave(p, d) \/ GiveUp(p, d)
  \/ Exit(p)

Next ==
  \/ \E p \in Sups : SupStep(p)
  \/ \E a \in Admins : AdminStep(a)
  \/ \E p \in Procs : GuardStep(p)

Spec == Init /\ [][Next]_vars

-----------------------------------------------------------------------------
\* Every variable has its type.
TypeOK ==
  /\ alive \subseteq Procs
  /\ pc \in [Procs -> PCs]
  /\ op \in [Procs -> Ops]
  /\ mine \in [Procs -> SUBSET Dirs]
  /\ result \in [Procs -> Results]
  /\ guard \in [Dirs -> Procs \cup {Nobody}]
  /\ owners \in [Dirs -> SUBSET Sups]
  /\ admission \in [Dirs -> [by : Admins \cup {Nobody}, fresh : BOOLEAN]]
  /\ known \in [Admins -> SUBSET Dirs]
  /\ released \subseteq Admins
  /\ since \in [Admins -> SUBSET Sups]
  /\ late \subseteq Admins
  /\ pauses \in 0..MaxPauses

Owns(p) ==
  /\ p \in alive
  /\ \/ pc[p] = "owner"
     \/ op[p] = "release" /\ pc[p] \in {"lock", "inside"}

\* acquireDaemonSupervisorOwnership: at most one live process owns a registry's
\* agent directory, also when guards are taken over from stalled holders: who
\* lost a guard in the middle reports an error instead of an ownership.
OneOwner ==
  \A p, q \in Sups : Owns(p) /\ Owns(q) /\ Home(p) = Home(q) => p = q

\* assertCurrent: the record of a live owner is still in its registry, whatever
\* other supervisors took for stale.
OwnerKeepsRecord == \A p \in Sups : Owns(p) => p \in owners[Home(p)]

\* readActiveShutdownAdmission: while an admission is held and never elapsed, no
\* supervisor starts, in a registry the holder knows or in one it does not,
\* unless a guard was taken over.
FencedWhileTimely ==
  \A a \in Admins : pauses = 0 /\ a \notin late => since[a] = {}

\* performRenew: a late renewal that reports success was not overtaken by a
\* supervisor of the default registry.
Confirms(a) ==
  /\ Holding(a) /\ op[a] \in {"renew", "extend"} /\ pc[a] = "leaving"
  /\ pc'[a] = "held" /\ result[a] = "ok" /\ guard' # guard
NotOvertakenInRenewal ==
  \A a \in Admins : Confirms(a) /\ pauses = 0 => since[a] \cap MainSups = {}
RenewalNotices == [][NotOvertakenInRenewal]_vars

\* DaemonShutdownAdmission.release: no file of a released admission is left or
\* comes back, also when a renewal was under way.
ReleasedIsGone ==
  \A a \in Admins, d \in Dirs :
    pauses = 0 /\ a \in alive /\ pc[a] = "released" => admission[d].by # a
=============================================================================
