------------------------- MODULE ScheduledJobsProofs -------------------------
(***************************************************************************)
(* For any number of jobs and sessions and any number of crashes: a tick   *)
(* is delivered at most once and in order, the claims on disk are the      *)
(* dispatches of the worker, and a prepared restart has neither.           *)
(***************************************************************************)
EXTENDS ScheduledJobs, TLAPS

\* A worker that does not run has nothing in memory; a restart stops the scheduler.
Memory ==
  /\ ~up => tasks = {} /\ registered = {} /\ restart = "none"
  /\ restart # "none" => stopped
  /\ restart = "prepared" => tasks = {}

\* ClaimsAreHeld, taken apart.
Held ==
  /\ \A t \in tasks : Claim(t) \in dispatches /\ SessionOf[t.job] \in registered
  /\ \A d \in dispatches : SessionOf[d.job] \in registered => \E t \in tasks : Claim(t) = d
  /\ \A t, u \in tasks : t.job = u.job => t = u

\* A tick that is due is neither claimed nor delivered, and none lies ahead.
Fresh ==
  /\ \A j \in Jobs : next[j] = "due" => ticks[j] > 0
  /\ \A d \in dispatches :
       d.tick <= ticks[d.job] /\ (next[d.job] = "due" => d.tick < ticks[d.job])
  /\ \A j \in Jobs : \A i \in 1..Len(received[j]) :
       /\ received[j][i].tick <= ticks[j]
       /\ next[j] = "due" => received[j][i].tick < ticks[j]

\* A dispatch that can still deliver is ahead of everything its session was given.
Ahead ==
  \A t \in tasks : t.at \in {"queued", "opening", "admitting"} =>
    \A i \in 1..Len(received[t.job]) : received[t.job][i].tick < t.tick

IInv == TypeOK /\ Memory /\ Held /\ Fresh /\ Ahead /\ OncePerTick

\* A task that moves on keeps its claim: what it becomes has its job and tick.
LEMMA MoveTask ==
  ASSUME TypeOK, Held, NEW t \in tasks, NEW n \in Tasks,
         n.job = t.job, n.tick = t.tick, tasks' = (tasks \ {t}) \cup {n},
         dispatches' = dispatches, registered' = registered
  PROVE  Held' /\ tasks' \subseteq Tasks
<1>1. Claim(n) = Claim(t)
  BY DEF Claim
<1>2. \A u \in tasks' : Claim(u) \in dispatches' /\ SessionOf[u.job] \in registered'
  BY <1>1 DEF Held
<1>3. ASSUME NEW d \in dispatches', SessionOf[d.job] \in registered'
      PROVE  \E u \in tasks' : Claim(u) = d
  <2>1. PICK u \in tasks : Claim(u) = d
    BY <1>3 DEF Held
  <2>2. CASE u = t
    BY <1>1, <2>1, <2>2
  <2>3. CASE u # t
    BY <2>1, <2>3
  <2>4. QED
    BY <2>2, <2>3
<1>4. ASSUME NEW u \in tasks', NEW v \in tasks', u.job = v.job
      PROVE  u = v
  BY <1>4 DEF Held
<1>5. QED
  BY <1>2, <1>3, <1>4 DEF Held, TypeOK

\* A task that ends takes its claim with it.
LEMMA EndTask ==
  ASSUME TypeOK, Held, NEW t \in tasks, tasks' = tasks \ {t},
         dispatches' = dispatches \ {Claim(t)}, registered' = registered
  PROVE  Held' /\ tasks' \subseteq Tasks /\ dispatches' \subseteq Claims
<1>1. ASSUME NEW u \in tasks'
      PROVE  Claim(u) \in dispatches' /\ SessionOf[u.job] \in registered'
  <2>1. u \in tasks /\ u # t
    OBVIOUS
  <2>2. u.job # t.job
    BY <2>1 DEF Held
  <2>3. Claim(u) # Claim(t)
    BY <2>2 DEF Claim
  <2>4. QED
    BY <2>1, <2>3 DEF Held
<1>2. ASSUME NEW d \in dispatches', SessionOf[d.job] \in registered'
      PROVE  \E u \in tasks' : Claim(u) = d
  <2>1. PICK u \in tasks : Claim(u) = d
    BY <1>2 DEF Held
  <2>2. QED
    BY <2>1
<1>3. \A u, v \in tasks' : u.job = v.job => u = v
  BY DEF Held
<1>4. QED
  BY <1>1, <1>2, <1>3 DEF Held, TypeOK

\* Steps that touch neither claims nor dispatches nor the sessions that are known.
LEMMA KeepHeld ==
  ASSUME Held, tasks' = tasks, dispatches' = dispatches, registered' = registered
  PROVE  Held'
  BY DEF Held

\* Elements of a sequence.
LEMMA InSeq ==
  ASSUME NEW S, NEW s \in Seq(S), NEW i \in 1..Len(s)
  PROVE  s[i] \in S
  OBVIOUS

LEMMA AppendIn ==
  ASSUME NEW S, NEW s \in Seq(S), NEW e \in S
  PROVE  Append(s, e) \in Seq(S)
  OBVIOUS

\* What a session was given is a sequence of ticks.
LEMMA ReceivedType ==
  ASSUME TypeOK, NEW j \in Jobs
  PROVE  /\ received[j] \in Seq([tick : 1..MaxTicks, prompt : 0..MaxEdits])
         /\ Len(received[j]) \in Nat
         /\ \A i \in 1..Len(received[j]) : received[j][i].tick \in Nat
<1>1. received[j] \in Seq([tick : 1..MaxTicks, prompt : 0..MaxEdits])
  BY DEF TypeOK
<1>2. \A i \in 1..Len(received[j]) : received[j][i] \in [tick : 1..MaxTicks, prompt : 0..MaxEdits]
  BY <1>1, InSeq
<1>3. \A i \in 1..Len(received[j]) : received[j][i].tick \in 1..MaxTicks
  BY <1>2
<1>4. QED
  BY <1>1, <1>3

LEMMA ComesDueStep ==
  ASSUME IInv, NEW j \in Jobs, ComesDue(j)
  PROVE  IInv'
<1> USE DEF IInv, ComesDue, memVars
<1>1. ticks[j] \in 0..MaxTicks /\ ticks'[j] = ticks[j] + 1 /\ ticks[j] + 1 \in 0..MaxTicks
  BY JobsAssumption DEF TypeOK
<1>2. TypeOK'
  BY <1>1 DEF TypeOK
<1>3. Held'
  BY KeepHeld
<1>4. Fresh'
  <2>1. \A k \in Jobs : ticks[k] \in Nat /\ ticks'[k] = IF k = j THEN ticks[k] + 1 ELSE ticks[k]
    BY JobsAssumption DEF TypeOK
  <2>2. \A k \in Jobs : next'[k] = IF k = j THEN "due" ELSE next[k]
    BY DEF TypeOK
  <2>3. \A k \in Jobs : next'[k] = "due" => ticks'[k] > 0
    BY <2>1, <2>2 DEF Fresh
  <2>4. \A d \in dispatches : d.job \in Jobs /\ d.tick \in Nat
    BY DEF TypeOK, Claims
  <2>5. \A d \in dispatches :
          d.tick <= ticks'[d.job] /\ (next'[d.job] = "due" => d.tick < ticks'[d.job])
    BY <2>1, <2>2, <2>4 DEF Fresh
  <2>6. \A k \in Jobs : \A i \in 1..Len(received[k]) : received[k][i].tick \in Nat
    BY ReceivedType
  <2>7. \A k \in Jobs : \A i \in 1..Len(received[k]) :
          /\ received[k][i].tick <= ticks'[k]
          /\ next'[k] = "due" => received[k][i].tick < ticks'[k]
    BY <2>1, <2>2, <2>6 DEF Fresh
  <2>8. QED
    BY <2>3, <2>5, <2>7 DEF Fresh
<1>5. Memory' /\ Ahead' /\ OncePerTick'
  BY DEF Memory, Ahead, OncePerTick
<1>6. QED
  BY <1>2, <1>3, <1>4, <1>5

\* Every other step that changes next only moves it away from "due".
LEMMA KeepFresh ==
  ASSUME Fresh, TypeOK, ticks' = ticks, received' = received,
         \A d \in dispatches' : d \in dispatches,
         \A j \in Jobs : next'[j] = "due" => next[j] = "due"
  PROVE  Fresh'
<1>1. \A d \in dispatches : d.job \in Jobs
  BY DEF TypeOK, Claims
<1>2. QED
  BY <1>1 DEF Fresh

LEMMA RunDueStep ==
  ASSUME IInv, RunDue
  PROVE  IInv'
<1> DEFINE new == {j \in DueJobs : ~HasClaim(j)}
           fresh == {[job |-> j, tick |-> ticks[j], at |-> "queued", asked |-> 0] : j \in new}
           claims == {[job |-> j, tick |-> ticks[j]] : j \in new}
<1>1. /\ dispatches' = dispatches \cup claims
      /\ tasks' = tasks \cup fresh
      /\ next' = [j \in Jobs |-> IF j \in DueJobs THEN Following(j) ELSE next[j]]
  BY DEF RunDue, ClaimDue
<1>2. \A j \in new : /\ j \in Jobs /\ SessionOf[j] \in registered
                     /\ next[j] = "due" /\ ticks[j] \in 1..MaxTicks
                     /\ ~\E d \in dispatches : d.job = j
  <2>1. \A j \in new : /\ j \in Jobs /\ SessionOf[j] \in registered /\ next[j] = "due"
                       /\ ~\E d \in dispatches : d.job = j
    BY DEF DueJobs, IsDueJob, HasClaim
  <2>2. \A j \in Jobs : ticks[j] \in 0..MaxTicks
    BY DEF IInv, TypeOK
  <2>3. \A j \in new : ticks[j] > 0
    BY <2>1 DEF IInv, Fresh
  <2>4. \A j \in new : ticks[j] \in 1..MaxTicks
    <3> TAKE j \in new
    <3>1. ticks[j] \in 0..MaxTicks /\ ticks[j] > 0
      BY <2>1, <2>2, <2>3
    <3>2. QED
      BY <3>1, JobsAssumption
  <2>5. QED
    BY <2>1, <2>4
<1>3. claims \subseteq Claims
  BY <1>2 DEF Claims
<1>4. fresh \subseteq Tasks
  BY <1>2, JobsAssumption DEF Tasks, Stages
<1>5. \A j \in Jobs : next'[j] \in {"none", "later", "due"} /\ (next'[j] = "due" => next[j] = "due")
  BY <1>1 DEF IInv, TypeOK, Following
<1>6. \A j \in new : next'[j] # "due"
  BY <1>1, <1>2 DEF Following
<1>7. TypeOK'
  <2>1. dispatches' \subseteq Claims /\ tasks' \subseteq Tasks
    BY <1>1, <1>3, <1>4 DEF IInv, TypeOK
  <2>2. next' \in [Jobs -> {"none", "later", "due"}]
    BY <1>1, <1>5
  <2>3. covers' \subseteq Jobs
    BY DEF RunDue, Visible
  <2>4. QED
    BY <2>1, <2>2, <2>3 DEF RunDue, IInv, TypeOK
<1>8. Memory'
  BY <1>1 DEF IInv, Memory, RunDue
<1>9. \A t \in fresh : Claim(t) \in claims /\ t.job \in new /\ t.tick = ticks[t.job] /\ t.at = "queued"
  BY DEF Claim
<1>10. \A d \in claims : d.job \in new /\ d.tick = ticks[d.job] /\ \E t \in fresh : Claim(t) = d
  <2> TAKE d \in claims
  <2>1. PICK j \in new : d = [job |-> j, tick |-> ticks[j]]
    OBVIOUS
  <2>2. [job |-> j, tick |-> ticks[j], at |-> "queued", asked |-> 0] \in fresh
    OBVIOUS
  <2>3. Claim([job |-> j, tick |-> ticks[j], at |-> "queued", asked |-> 0]) = d
    BY <2>1 DEF Claim
  <2>4. QED
    BY <2>1, <2>2, <2>3
<1>11. \A t \in tasks : t.job \notin new
  <2>1. \A t \in tasks : Claim(t).job = t.job
    BY DEF Claim
  <2>2. QED
    BY <1>2, <2>1 DEF IInv, Held
<1>12. Held'
  <2>1. registered' = registered
    BY DEF RunDue
  <2>2. \A t \in tasks' : Claim(t) \in dispatches' /\ SessionOf[t.job] \in registered'
    BY <1>1, <1>2, <1>9, <2>1 DEF IInv, Held
  <2>3. \A d \in dispatches' : SessionOf[d.job] \in registered' => \E t \in tasks' : Claim(t) = d
    BY <1>1, <1>10, <2>1 DEF IInv, Held
  <2>4. \A t, u \in fresh : t.job = u.job => t = u
    OBVIOUS
  <2>5. \A t, u \in tasks' : t.job = u.job => t = u
    BY <1>1, <1>9, <1>11, <2>4 DEF IInv, Held
  <2>6. QED
    BY <2>2, <2>3, <2>5 DEF Held
<1>13. Fresh'
  <2>1. ticks' = ticks /\ received' = received
    BY DEF RunDue
  <2>2. \A d \in dispatches : d.job \in Jobs
    BY DEF IInv, TypeOK, Claims
  <2>3. \A d \in dispatches' :
          d.tick <= ticks'[d.job] /\ (next'[d.job] = "due" => d.tick < ticks'[d.job])
    <3>1. \A d \in dispatches :
          d.tick <= ticks'[d.job] /\ (next'[d.job] = "due" => d.tick < ticks'[d.job])
      BY <1>5, <2>1, <2>2 DEF IInv, Fresh
    <3>2. \A d \in claims :
          d.tick <= ticks'[d.job] /\ (next'[d.job] = "due" => d.tick < ticks'[d.job])
      BY <1>2, <1>6, <1>10, <2>1
    <3>3. dispatches' = dispatches \cup claims
      BY <1>1
    <3> HIDE DEF claims
    <3>4. QED
      BY <3>1, <3>2, <3>3
  <2>4. QED
    BY <1>5, <2>1, <2>3 DEF IInv, Fresh
<1>14. Ahead'
  <2>1. received' = received
    BY DEF RunDue
  <2>2. \A t \in fresh : \A i \in 1..Len(received[t.job]) : received[t.job][i].tick < t.tick
    BY <1>2, <1>9 DEF IInv, Fresh
  <2>3. QED
    BY <1>1, <2>1, <2>2 DEF IInv, Ahead
<1>15. OncePerTick'
  BY DEF IInv, OncePerTick, RunDue
<1>16. QED
  BY <1>7, <1>8, <1>12, <1>13, <1>14, <1>15 DEF IInv

LEMMA TakeTaskStep ==
  ASSUME IInv, NEW t \in tasks, TakeTask(t)
  PROVE  IInv'
<1> DEFINE n == [t EXCEPT !.at = "opening"]
<1>1. t \in Tasks
  BY DEF IInv, TypeOK
<1>2. /\ received' = received /\ ticks' = ticks /\ next' = next /\ registered' = registered
      /\ up' = up /\ stopped' = stopped /\ restart' = restart /\ t.at = "queued"
  BY DEF TakeTask
<1>3. CASE Claimed(t.job)
  <2>1. tasks' = (tasks \ {t}) \cup {n} /\ dispatches' = dispatches
    BY <1>3 DEF TakeTask, To
  <2>2. n \in Tasks /\ n.job = t.job /\ n.tick = t.tick
    BY <1>1 DEF Tasks, Stages
  <2>3. Held' /\ tasks' \subseteq Tasks
    BY <1>2, <2>1, <2>2, MoveTask DEF IInv
  <2>4. TypeOK'
    BY <2>1, <2>3 DEF IInv, TypeOK, TakeTask
  <2>5. Ahead'
    BY <1>2, <2>1, <2>2 DEF IInv, Ahead
  <2>6. Fresh'
    BY <1>2, <2>1, KeepFresh DEF IInv
  <2>7. Memory' /\ OncePerTick'
    BY <1>2, <2>1 DEF IInv, Memory, OncePerTick
  <2>8. QED
    BY <2>3, <2>4, <2>5, <2>6, <2>7 DEF IInv
<1>4. CASE ~Claimed(t.job)
  <2>1. tasks' = tasks \ {t} /\ dispatches' = dispatches \ {Claim(t)}
    BY <1>4 DEF TakeTask
  <2>2. Held' /\ tasks' \subseteq Tasks /\ dispatches' \subseteq Claims
    BY <1>2, <2>1, EndTask DEF IInv
  <2>3. TypeOK'
    BY <2>2 DEF IInv, TypeOK, TakeTask
  <2>4. Fresh'
    BY <1>2, <2>1, KeepFresh DEF IInv
  <2>5. Memory' /\ Ahead' /\ OncePerTick'
    BY <1>2, <2>1 DEF IInv, Memory, Ahead, OncePerTick
  <2>6. QED
    BY <2>2, <2>3, <2>4, <2>5 DEF IInv
<1>5. QED
  BY <1>3, <1>4

\* A delivery: the session's record grows by a tick beyond those it has.
LEMMA DeliverKeeps ==
  ASSUME IInv, NEW t \in tasks, t.at \in {"opening", "admitting"}, NEW x \in 0..MaxEdits,
         Deliver(t, x), ticks' = ticks, next' = next, dispatches' = dispatches
  PROVE  /\ received' \in [Jobs -> Seq([tick : 1..MaxTicks, prompt : 0..MaxEdits])]
         /\ \A j \in Jobs \ {t.job} : received'[j] = received[j]
         /\ Fresh' /\ OncePerTick'
<1> DEFINE E == [tick |-> t.tick, prompt |-> x]
<1>1. t \in Tasks /\ t.job \in Jobs /\ t.tick \in 1..MaxTicks /\ t.tick \in Nat
  BY JobsAssumption DEF IInv, TypeOK, Tasks
<1>2. E \in [tick : 1..MaxTicks, prompt : 0..MaxEdits]
  BY <1>1
<1>3. received \in [Jobs -> Seq([tick : 1..MaxTicks, prompt : 0..MaxEdits])]
  BY DEF IInv, TypeOK
<1>4. received' = [received EXCEPT ![t.job] = Append(received[t.job], E)]
  BY DEF Deliver
<1>5. \A j \in Jobs \ {t.job} : received'[j] = received[j]
  BY <1>3, <1>4
<1>6. received'[t.job] = Append(received[t.job], E)
  BY <1>1, <1>3, <1>4
<1>7. Append(received[t.job], E) \in Seq([tick : 1..MaxTicks, prompt : 0..MaxEdits])
  <2>1. received[t.job] \in Seq([tick : 1..MaxTicks, prompt : 0..MaxEdits])
    BY <1>1, <1>3
  <2>2. QED
    BY <1>2, <2>1, AppendIn
<1>8. received' \in [Jobs -> Seq([tick : 1..MaxTicks, prompt : 0..MaxEdits])]
  BY <1>3, <1>4, <1>7
<1> DEFINE n == Len(received[t.job])
<1>9. n \in Nat /\ Len(received'[t.job]) = n + 1
  BY <1>1, <1>3, <1>6
<1>10. received'[t.job][n + 1] = E
  BY <1>1, <1>3, <1>6, <1>9
<1>11. \A i \in 1..n : received'[t.job][i] = received[t.job][i]
  BY <1>1, <1>3, <1>6, <1>9
<1>12. received'[t.job][n + 1].tick = t.tick
  BY <1>10
<1>13. \A i \in 1..n : received[t.job][i].tick < t.tick
  BY DEF IInv, Ahead
<1>14. t.tick <= ticks[t.job] /\ (next[t.job] = "due" => t.tick < ticks[t.job])
  <2>1. Claim(t) \in dispatches
    BY DEF IInv, Held
  <2>2. Claim(t).job = t.job /\ Claim(t).tick = t.tick
    BY DEF Claim
  <2>3. QED
    BY <2>1, <2>2 DEF IInv, Fresh
<1>15. Fresh'
  <2>1. \A j \in Jobs \ {t.job} : \A i \in 1..Len(received'[j]) :
          received'[j][i].tick <= ticks[j] /\ (next[j] = "due" => received'[j][i].tick < ticks[j])
    BY <1>5 DEF IInv, Fresh
  <2>2. \A i \in 1..Len(received'[t.job]) :
          /\ received'[t.job][i].tick <= ticks[t.job]
          /\ next[t.job] = "due" => received'[t.job][i].tick < ticks[t.job]
    <3> TAKE i \in 1..Len(received'[t.job])
    <3>1. CASE i = n + 1
      BY <1>12, <1>14, <3>1
    <3>2. CASE i # n + 1
      <4>1. i \in 1..n
        BY <1>9, <3>2
      <4>2. received'[t.job][i] = received[t.job][i]
        BY <1>11, <4>1
      <4>3. QED
        BY <1>1, <4>1, <4>2 DEF IInv, Fresh
    <3>3. QED
      BY <3>1, <3>2
  <2>3. \A j \in Jobs : \A i \in 1..Len(received'[j]) :
          received'[j][i].tick <= ticks[j] /\ (next[j] = "due" => received'[j][i].tick < ticks[j])
    BY <2>1, <2>2
  <2>4. QED
    BY <2>3 DEF IInv, Fresh
<1>16. OncePerTick'
  <2>1. \A j \in Jobs \ {t.job} : \A i, k \in 1..Len(received'[j]) :
          i < k => received'[j][i].tick < received'[j][k].tick
    BY <1>5 DEF IInv, OncePerTick
  <2>2. ASSUME NEW i \in 1..Len(received'[t.job]), NEW k \in 1..Len(received'[t.job]), i < k
        PROVE  received'[t.job][i].tick < received'[t.job][k].tick
    <3>1. i \in 1..n /\ received'[t.job][i] = received[t.job][i]
      BY <1>9, <1>11, <2>2
    <3>2. CASE k = n + 1
      BY <1>12, <1>13, <3>1, <3>2
    <3>3. CASE k # n + 1
      <4>1. k \in 1..n /\ received'[t.job][k] = received[t.job][k]
        BY <1>9, <1>11, <3>3
      <4>2. QED
        BY <1>1, <2>2, <3>1, <4>1 DEF IInv, OncePerTick
    <3>4. QED
      BY <3>2, <3>3
  <2>3. QED
    BY <2>1, <2>2 DEF OncePerTick
<1>17. QED
  BY <1>5, <1>8, <1>15, <1>16

\* A task moves on without a delivery.
LEMMA MoveStep ==
  ASSUME IInv, NEW t \in tasks, NEW n \in Tasks, n.job = t.job, n.tick = t.tick,
         n.at \in {"opening", "admitting"} => t.at \in {"opening", "admitting"}, n.at # "queued",
         tasks' = (tasks \ {t}) \cup {n},
         dispatches' = dispatches, registered' = registered, ticks' = ticks, received' = received,
         up' = up, restart' = restart, stopped' = stopped,
         \A j \in Jobs : next'[j] = "due" => next[j] = "due"
  PROVE  /\ Memory' /\ Held' /\ Fresh' /\ Ahead' /\ OncePerTick'
         /\ tasks' \subseteq Tasks
<1>1. Held' /\ tasks' \subseteq Tasks
  BY MoveTask DEF IInv
<1>2. Fresh'
  BY KeepFresh DEF IInv
<1>3. Memory' /\ OncePerTick'
  BY DEF IInv, Memory, OncePerTick
<1>4. Ahead'
  BY DEF IInv, Ahead
<1>5. QED
  BY <1>1, <1>2, <1>3, <1>4

\* A task moves on with a delivery.
LEMMA DeliverStep ==
  ASSUME IInv, NEW t \in tasks, t.at \in {"opening", "admitting"}, NEW x \in 0..MaxEdits,
         Deliver(t, x), To(t, "ran"),
         dispatches' = dispatches, registered' = registered, ticks' = ticks, next' = next,
         up' = up, restart' = restart, stopped' = stopped
  PROVE  /\ Memory' /\ Held' /\ Fresh' /\ Ahead' /\ OncePerTick'
         /\ tasks' \subseteq Tasks
         /\ received' \in [Jobs -> Seq([tick : 1..MaxTicks, prompt : 0..MaxEdits])]
<1> DEFINE n == [t EXCEPT !.at = "ran"]
<1>1. tasks' = (tasks \ {t}) \cup {n}
  BY DEF To
<1>2. t \in Tasks
  BY DEF IInv, TypeOK
<1>3. n \in Tasks /\ n.job = t.job /\ n.tick = t.tick /\ n.at = "ran"
  BY <1>2 DEF Tasks, Stages
<1>4. Held' /\ tasks' \subseteq Tasks
  BY <1>1, <1>3, MoveTask DEF IInv
<1>5. /\ received' \in [Jobs -> Seq([tick : 1..MaxTicks, prompt : 0..MaxEdits])]
      /\ \A j \in Jobs \ {t.job} : received'[j] = received[j]
      /\ Fresh' /\ OncePerTick'
  BY DeliverKeeps
<1>6. \A u \in tasks' : u # n => u \in tasks /\ u.job # t.job /\ u.job \in Jobs
  BY <1>1 DEF IInv, Held, TypeOK, Tasks
<1>7. Ahead'
  BY <1>3, <1>5, <1>6 DEF IInv, Ahead
<1>8. Memory'
  BY DEF IInv, Memory
<1>9. QED
  BY <1>4, <1>5, <1>7, <1>8

LEMMA OpenedStep ==
  ASSUME IInv, NEW t \in tasks, Opened(t)
  PROVE  IInv'
<1>1. t \in Tasks /\ t.job \in Jobs /\ prompt[t.job] \in 0..MaxEdits /\ SessionOf[t.job] \in Sessions
  BY JobsAssumption DEF IInv, TypeOK, Tasks
<1>2. t.at = "opening" /\ UNCHANGED diskVars /\ ticks' = ticks /\ registered' = registered /\ up' = up
      /\ restart' = restart /\ stopped' = stopped
  BY DEF Opened
<1>3. next' = next /\ dispatches' = dispatches
  BY <1>2 DEF diskVars
<1>4. resident' \subseteq Sessions
  BY <1>1 DEF IInv, TypeOK, Opened
<1>5. CASE To(t, "skipped") /\ received' = received
  <2> DEFINE n == [t EXCEPT !.at = "skipped"]
  <2>1. n \in Tasks /\ n.job = t.job /\ n.tick = t.tick /\ n.at = "skipped"
    BY <1>1 DEF Tasks, Stages
  <2>2. tasks' = (tasks \ {t}) \cup {n}
    BY <1>5 DEF To
  <2> HIDE DEF n
  <2>3. Memory' /\ Held' /\ Fresh' /\ Ahead' /\ OncePerTick' /\ tasks' \subseteq Tasks
    BY <1>2, <1>3, <1>5, <2>1, <2>2, MoveStep
  <2>4. QED
    BY <1>4, <1>5, <2>3 DEF IInv, TypeOK, Opened, diskVars
<1>6. CASE To(t, "ran") /\ Deliver(t, prompt[t.job])
  <2>1. /\ Memory' /\ Held' /\ Fresh' /\ Ahead' /\ OncePerTick' /\ tasks' \subseteq Tasks
        /\ received' \in [Jobs -> Seq([tick : 1..MaxTicks, prompt : 0..MaxEdits])]
    BY <1>1, <1>2, <1>3, <1>6, DeliverStep
  <2>2. QED
    BY <1>4, <2>1 DEF IInv, TypeOK, Opened, diskVars
<1>7. CASE /\ tasks' = (tasks \ {t}) \cup {[t EXCEPT !.at = "admitting", !.asked = prompt[t.job]]}
           /\ received' = received
  <2> DEFINE n == [t EXCEPT !.at = "admitting", !.asked = prompt[t.job]]
  <2>1. n \in Tasks /\ n.job = t.job /\ n.tick = t.tick /\ n.at = "admitting"
    BY <1>1 DEF Tasks, Stages
  <2>2. tasks' = (tasks \ {t}) \cup {n}
    BY <1>7
  <2> HIDE DEF n
  <2>3. Memory' /\ Held' /\ Fresh' /\ Ahead' /\ OncePerTick' /\ tasks' \subseteq Tasks
    BY <1>2, <1>3, <1>7, <2>1, <2>2, MoveStep
  <2>4. QED
    BY <1>4, <1>7, <2>3 DEF IInv, TypeOK, Opened, diskVars
<1>8. QED
  BY <1>5, <1>6, <1>7 DEF Opened

\* The sessions' jobs after CancelJobsOf: nothing of it is due that was not.
LEMMA CancelJobsOfKeeps ==
  ASSUME TypeOK, NEW s \in Sessions, CancelJobsOf(s)
  PROVE  /\ status' \in [Jobs -> {"none", "active", "paused", "completed", "cancelled"}]
         /\ next' \in [Jobs -> {"none", "later", "due"}]
         /\ \A j \in Jobs : next'[j] = "due" => next[j] = "due"
  BY DEF CancelJobsOf, TypeOK

LEMMA WakeKeeps ==
  ASSUME TypeOK, Wake
  PROVE  covers' \subseteq Jobs
  BY DEF Wake, TypeOK

LEMMA MoreEdits ==
  ASSUME TypeOK, edits < MaxEdits
  PROVE  edits + 1 \in 0..MaxEdits
  BY JobsAssumption DEF TypeOK

LEMMA SessionIsGoneStep ==
  ASSUME IInv, NEW t \in tasks, SessionIsGone(t)
  PROVE  IInv'
<1> DEFINE n == [t EXCEPT !.at = "skipped"]
<1>1. t \in Tasks /\ SessionOf[t.job] \in Sessions
  BY JobsAssumption DEF IInv, TypeOK, Tasks
<1>2. n \in Tasks /\ n.job = t.job /\ n.tick = t.tick /\ n.at = "skipped"
  BY <1>1 DEF Tasks, Stages
<1>3. tasks' = (tasks \ {t}) \cup {n}
  BY DEF SessionIsGone, To
<1> HIDE DEF n
<1>4. /\ status' \in [Jobs -> {"none", "active", "paused", "completed", "cancelled"}]
      /\ next' \in [Jobs -> {"none", "later", "due"}]
      /\ \A j \in Jobs : next'[j] = "due" => next[j] = "due"
  BY <1>1, CancelJobsOfKeeps DEF IInv, SessionIsGone
<1>5. /\ dispatches' = dispatches /\ registered' = registered /\ ticks' = ticks
      /\ received' = received /\ up' = up /\ restart' = restart /\ stopped' = stopped
  BY DEF SessionIsGone
<1>6. Memory' /\ Held' /\ Fresh' /\ Ahead' /\ OncePerTick' /\ tasks' \subseteq Tasks
  BY <1>2, <1>3, <1>4, <1>5, MoveStep
<1>7. covers' \subseteq Jobs
  BY WakeKeeps DEF IInv, SessionIsGone
<1>8. edits' \in 0..MaxEdits
  BY MoreEdits DEF IInv, SessionIsGone
<1>9. QED
  BY <1>4, <1>5, <1>6, <1>7, <1>8 DEF IInv, TypeOK, SessionIsGone

LEMMA AdmitStep ==
  ASSUME IInv, NEW t \in tasks, Admit(t)
  PROVE  IInv'
<1>1. t \in Tasks /\ t.asked \in 0..MaxEdits
  BY DEF IInv, TypeOK, Tasks
<1>2. /\ t.at = "admitting" /\ UNCHANGED diskVars /\ ticks' = ticks /\ registered' = registered
      /\ up' = up /\ restart' = restart /\ stopped' = stopped
  BY DEF Admit
<1>3. next' = next /\ dispatches' = dispatches
  BY <1>2 DEF diskVars
<1>4. CASE To(t, "skipped") /\ received' = received
  <2> DEFINE n == [t EXCEPT !.at = "skipped"]
  <2>1. n \in Tasks /\ n.job = t.job /\ n.tick = t.tick /\ n.at = "skipped"
    BY <1>1 DEF Tasks, Stages
  <2>2. tasks' = (tasks \ {t}) \cup {n}
    BY <1>4 DEF To
  <2> HIDE DEF n
  <2>3. Memory' /\ Held' /\ Fresh' /\ Ahead' /\ OncePerTick' /\ tasks' \subseteq Tasks
    BY <1>2, <1>3, <1>4, <2>1, <2>2, MoveStep
  <2>4. QED
    BY <1>4, <2>3 DEF IInv, TypeOK, Admit, diskVars
<1>5. CASE To(t, "ran") /\ Deliver(t, t.asked)
  <2>1. /\ Memory' /\ Held' /\ Fresh' /\ Ahead' /\ OncePerTick' /\ tasks' \subseteq Tasks
        /\ received' \in [Jobs -> Seq([tick : 1..MaxTicks, prompt : 0..MaxEdits])]
    BY <1>1, <1>2, <1>3, <1>5, DeliverStep
  <2>2. QED
    BY <2>1 DEF IInv, TypeOK, Admit, diskVars
<1>6. QED
  BY <1>4, <1>5 DEF Admit

LEMMA ThrowsStep ==
  ASSUME IInv, NEW t \in tasks, Throws(t)
  PROVE  IInv'
<1> DEFINE n == [t EXCEPT !.at = "ran"]
<1>1. t \in Tasks
  BY DEF IInv, TypeOK
<1>2. n \in Tasks /\ n.job = t.job /\ n.tick = t.tick /\ n.at = "ran"
  BY <1>1 DEF Tasks, Stages
<1>3. tasks' = (tasks \ {t}) \cup {n}
  BY DEF Throws, To
<1> HIDE DEF n
<1>4. /\ dispatches' = dispatches /\ next' = next /\ registered' = registered /\ ticks' = ticks
      /\ received' = received /\ up' = up /\ restart' = restart /\ stopped' = stopped
  BY DEF Throws, diskVars
<1>5. Memory' /\ Held' /\ Fresh' /\ Ahead' /\ OncePerTick' /\ tasks' \subseteq Tasks
  BY <1>2, <1>3, <1>4, MoveStep
<1>6. edits' \in 0..MaxEdits
  BY MoreEdits DEF IInv, Throws
<1>7. QED
  BY <1>4, <1>5, <1>6 DEF IInv, TypeOK, Throws, diskVars

LEMMA RecordStep ==
  ASSUME IInv, NEW t \in tasks, Record(t)
  PROVE  IInv'
<1>1. t.job \in Jobs
  BY DEF IInv, TypeOK, Tasks
<1>2. tasks' = tasks \ {t} /\ dispatches' = dispatches \ {Claim(t)}
  BY DEF Record
<1>3. /\ registered' = registered /\ ticks' = ticks /\ received' = received /\ up' = up
      /\ restart' = restart /\ stopped' = stopped
  BY DEF Record
<1>4. Held' /\ tasks' \subseteq Tasks /\ dispatches' \subseteq Claims
  BY <1>2, <1>3, EndTask DEF IInv
<1>5. status' \in [Jobs -> {"none", "active", "paused", "completed", "cancelled"}]
  BY DEF Record, IInv, TypeOK
<1>6. next' \in [Jobs -> {"none", "later", "due"}] /\ \A j \in Jobs : next'[j] = "due" => next[j] = "due"
  BY <1>1 DEF Record, Following, IInv, TypeOK
<1>7. TypeOK'
  BY <1>4, <1>5, <1>6 DEF Record, IInv, TypeOK
<1>8. Fresh'
  BY <1>2, <1>3, <1>6, KeepFresh DEF IInv
<1>9. Memory' /\ Ahead' /\ OncePerTick'
  BY <1>2, <1>3 DEF IInv, Memory, Ahead, OncePerTick
<1>10. QED
  BY <1>4, <1>7, <1>8, <1>9 DEF IInv

\* Steps that leave the dispatches, their claims and the deliveries alone.
LEMMA QuietStep ==
  ASSUME IInv, tasks' = tasks, dispatches' = dispatches, registered' = registered,
         ticks' = ticks, received' = received,
         \A j \in Jobs : next'[j] = "due" => next[j] = "due"
  PROVE  Held' /\ Fresh' /\ Ahead' /\ OncePerTick'
<1>1. Held'
  BY KeepHeld DEF IInv
<1>2. Fresh'
  BY KeepFresh DEF IInv
<1>3. Ahead' /\ OncePerTick'
  BY DEF IInv, Ahead, OncePerTick
<1>4. QED
  BY <1>1, <1>2, <1>3

LEMMA RegisterStep ==
  ASSUME IInv, NEW s \in Sessions, NEW opens \in BOOLEAN, Register(s, opens)
  PROVE  IInv'
<1>1. /\ tasks' = tasks /\ ticks' = ticks /\ received' = received /\ next' = next
      /\ up /\ up' = up /\ restart' = restart /\ stopped' = stopped
      /\ s \notin registered /\ registered' = registered \cup {s}
  BY DEF Register
<1>2. dispatches' = {d \in dispatches : SessionOf[d.job] # s}
  BY DEF Register, Recover
<1>3. \A t \in tasks : Claim(t).job = t.job
  BY DEF Claim
<1>4. Held'
  <2>1. \A t \in tasks' : Claim(t) \in dispatches' /\ SessionOf[t.job] \in registered'
    BY <1>1, <1>2, <1>3 DEF IInv, Held
  <2>2. \A d \in dispatches' : SessionOf[d.job] \in registered' => \E t \in tasks' : Claim(t) = d
    BY <1>1, <1>2 DEF IInv, Held
  <2>3. \A t, u \in tasks' : t.job = u.job => t = u
    BY <1>1 DEF IInv, Held
  <2>4. QED
    BY <2>1, <2>2, <2>3 DEF Held
<1>5. Fresh'
  BY <1>1, <1>2, KeepFresh DEF IInv
<1>6. status' \in [Jobs -> {"none", "active", "paused", "completed", "cancelled"}]
  BY DEF Register, Recover, IInv, TypeOK
<1>7. covers' \subseteq Jobs
  BY WakeKeeps DEF IInv, Register
<1>8. TypeOK'
  BY <1>1, <1>2, <1>6, <1>7 DEF IInv, TypeOK, Register
<1>9. Memory' /\ Ahead' /\ OncePerTick'
  BY <1>1 DEF IInv, Memory, Ahead, OncePerTick
<1>10. QED
  BY <1>4, <1>5, <1>8, <1>9 DEF IInv

LEMMA OpenStep ==
  ASSUME IInv, NEW s \in Sessions, Open(s)
  PROVE  IInv'
<1>1. Held' /\ Fresh' /\ Ahead' /\ OncePerTick'
  BY QuietStep DEF Open, diskVars
<1>2. TypeOK' /\ Memory'
  BY DEF Open, diskVars, IInv, TypeOK, Memory
<1>3. QED
  BY <1>1, <1>2 DEF IInv

LEMMA CloseStep ==
  ASSUME IInv, NEW s \in Sessions, NEW killed \in BOOLEAN, Close(s, killed)
  PROVE  IInv'
<1>1. /\ status' \in [Jobs -> {"none", "active", "paused", "completed", "cancelled"}]
      /\ next' \in [Jobs -> {"none", "later", "due"}]
      /\ \A j \in Jobs : next'[j] = "due" => next[j] = "due"
      /\ covers' \subseteq Jobs
  BY CancelJobsOfKeeps, WakeKeeps DEF Close, IInv, TypeOK
<1>2. Held' /\ Fresh' /\ Ahead' /\ OncePerTick'
  BY <1>1, QuietStep DEF Close
<1>3. edits' \in 0..MaxEdits
  BY MoreEdits DEF IInv, Close
<1>4. TypeOK' /\ Memory'
  BY <1>1, <1>3 DEF Close, IInv, TypeOK, Memory
<1>5. QED
  BY <1>2, <1>4 DEF IInv

LEMMA CreateStep ==
  ASSUME IInv, NEW j \in Jobs, Create(j)
  PROVE  IInv'
<1>1. /\ next' \in [Jobs -> {"none", "later", "due"}]
      /\ \A k \in Jobs : next'[k] = "due" => next[k] = "due"
      /\ covers' \subseteq Jobs
  BY WakeKeeps DEF Create, IInv, TypeOK
<1>2. Held' /\ Fresh' /\ Ahead' /\ OncePerTick'
  BY <1>1, QuietStep DEF Create
<1>3. TypeOK' /\ Memory'
  BY <1>1 DEF Create, IInv, TypeOK, Memory
<1>4. QED
  BY <1>2, <1>3 DEF IInv

LEMMA ChangeStep ==
  ASSUME IInv, NEW j \in Jobs,
         NEW st \in {"none", "active", "paused", "completed", "cancelled"},
         NEW nx \in {"none", "later", "due"}, nx = "due" => next[j] = "due",
         NEW pr \in 0..MaxEdits, Change(j, st, nx, pr)
  PROVE  IInv'
<1>1. /\ next' \in [Jobs -> {"none", "later", "due"}]
      /\ \A k \in Jobs : next'[k] = "due" => next[k] = "due"
      /\ covers' \subseteq Jobs
  BY WakeKeeps DEF Change, IInv, TypeOK
<1>2. Held' /\ Fresh' /\ Ahead' /\ OncePerTick'
  BY <1>1, QuietStep DEF Change
<1>3. edits' \in 0..MaxEdits
  BY MoreEdits DEF IInv, Change
<1>4. TypeOK' /\ Memory'
  BY <1>1, <1>3 DEF Change, IInv, TypeOK, Memory
<1>5. QED
  BY <1>2, <1>4 DEF IInv

LEMMA CommandStep ==
  ASSUME IInv, NEW j \in Jobs, Pause(j) \/ Resume(j) \/ Edit(j) \/ Cancel(j)
  PROVE  IInv'
<1>1. /\ status[j] \in {"none", "active", "paused", "completed", "cancelled"}
      /\ next[j] \in {"none", "later", "due"} /\ prompt[j] \in 0..MaxEdits
  BY DEF IInv, TypeOK
<1>2. CASE Pause(j)
  BY <1>1, <1>2, ChangeStep DEF Pause
<1>3. CASE Resume(j)
  BY <1>1, <1>3, ChangeStep DEF Resume
<1>4. CASE Edit(j)
  <2>1. prompt[j] + 1 \in 0..MaxEdits
    BY <1>1, <1>4, JobsAssumption DEF Edit
  <2>2. QED
    BY <1>1, <1>4, <2>1, ChangeStep DEF Edit
<1>5. CASE Cancel(j)
  BY <1>1, <1>5, ChangeStep DEF Cancel
<1>6. QED
  BY <1>2, <1>3, <1>4, <1>5

LEMMA RestartStep ==
  ASSUME IInv, BeginRestart \/ Prepared \/ CancelRestart
  PROVE  IInv'
<1>1. Held' /\ Fresh' /\ Ahead' /\ OncePerTick'
  BY QuietStep DEF BeginRestart, Prepared, CancelRestart, diskVars
<1>2. edits' \in 0..MaxEdits
  BY MoreEdits DEF IInv, BeginRestart, Prepared, CancelRestart, TypeOK
<1>3. covers' \subseteq Jobs
  BY DEF IInv, BeginRestart, Prepared, CancelRestart, TypeOK, Visible
<1>4. TypeOK' /\ Memory'
  BY <1>2, <1>3 DEF BeginRestart, Prepared, CancelRestart, diskVars, IInv, TypeOK, Memory
<1>5. QED
  BY <1>1, <1>4 DEF IInv

\* A crash leaves claims that nobody holds, in files nobody has registered.
LEMMA ProcessStep ==
  ASSUME IInv, Crash \/ Launch
  PROVE  IInv'
<1>1. /\ UNCHANGED diskVars /\ ticks' = ticks /\ received' = received
      /\ tasks' = {} /\ registered' = {} /\ covers' \subseteq Jobs /\ crashes' \in 0..MaxCrashes
      /\ restart' = "none"
  BY JobsAssumption DEF Crash, Launch, IInv, TypeOK, Memory
<1>2. TypeOK' /\ Memory'
  BY <1>1 DEF Crash, Launch, diskVars, IInv, TypeOK, Memory
<1>3. Held' /\ Ahead' /\ OncePerTick'
  BY <1>1 DEF diskVars, IInv, Held, Ahead, OncePerTick
<1>4. Fresh'
  BY <1>1, KeepFresh DEF diskVars, IInv
<1>5. QED
  BY <1>2, <1>3, <1>4 DEF IInv

LEMMA InitIInv == Init => IInv
<1> SUFFICES ASSUME Init PROVE IInv
  OBVIOUS
<1>1. TypeOK
  <2>1. 0 \in 0..MaxEdits /\ 0 \in 0..MaxTicks /\ 0 \in 0..MaxCrashes
    BY JobsAssumption
  <2>2. <<>> \in Seq([tick : 1..MaxTicks, prompt : 0..MaxEdits])
    OBVIOUS
  <2>3. received \in [Jobs -> Seq([tick : 1..MaxTicks, prompt : 0..MaxEdits])]
    BY <2>2 DEF Init
  <2>4. QED
    BY <2>1, <2>3 DEF Init, TypeOK
<1>2. Memory /\ Held /\ Ahead
  BY DEF Init, Memory, Held, Ahead
<1>3. Fresh /\ OncePerTick
  BY DEF Init, Fresh, OncePerTick
<1>4. QED
  BY <1>1, <1>2, <1>3 DEF IInv

LEMMA NextIInv == IInv /\ [Next]_vars => IInv'
<1> SUFFICES ASSUME IInv, [Next]_vars PROVE IInv'
  OBVIOUS
<1>1. ASSUME NEW j \in Jobs,
             ComesDue(j) \/ Create(j) \/ Pause(j) \/ Resume(j) \/ Edit(j) \/ Cancel(j)
      PROVE  IInv'
  BY <1>1, ComesDueStep, CreateStep, CommandStep
<1>2. ASSUME NEW t \in tasks, TaskStep(t)
      PROVE  IInv'
  BY <1>2, TakeTaskStep, OpenedStep, SessionIsGoneStep, AdmitStep, ThrowsStep, RecordStep
     DEF TaskStep
<1>3. ASSUME NEW s \in Sessions,
             \/ Register(s, TRUE) \/ Register(s, FALSE) \/ Open(s)
             \/ Close(s, TRUE) \/ Close(s, FALSE)
      PROVE  IInv'
  BY <1>3, RegisterStep, OpenStep, CloseStep
<1>4. CASE RunDue
  BY <1>4, RunDueStep
<1>5. CASE BeginRestart \/ Prepared \/ CancelRestart \/ Crash \/ Launch
  BY <1>5, RestartStep, ProcessStep
<1>6. CASE UNCHANGED vars
  BY <1>6 DEF vars, diskVars, memVars, IInv, TypeOK, Memory, Held, Fresh, Ahead, OncePerTick
<1>7. QED
  BY <1>1, <1>2, <1>3, <1>4, <1>5, <1>6 DEF Next

\* The inductive invariant holds in every reachable state.
THEOREM JobsInvariant == Spec => []IInv
<1>1. Init => IInv
  BY InitIInv
<1>2. IInv /\ [Next]_vars => IInv'
  BY NextIInv
<1>3. QED
  BY <1>1, <1>2, PTL DEF Spec

\* Every variable keeps its type.
THEOREM JobsTypeOK == Spec => []TypeOK
<1>1. IInv => TypeOK
  BY DEF IInv
<1>2. QED
  BY <1>1, JobsInvariant, PTL

\* A session is given each tick of a job at most once and in order, over any
\* number of worker processes.
THEOREM TicksAreDeliveredOnce == Spec => []OncePerTick
<1>1. IInv => OncePerTick
  BY DEF IInv
<1>2. QED
  BY <1>1, JobsInvariant, PTL

\* A running worker holds exactly the claims of its sessions' files.
THEOREM ClaimsBelongToDispatches == Spec => []ClaimsAreHeld
<1>1. IInv => ClaimsAreHeld
  <2> SUFFICES ASSUME IInv PROVE ClaimsAreHeld
    OBVIOUS
  <2>1. \A d \in dispatches : SessionOf[d.job] \in registered => \E t \in tasks : Claim(t) = d
    BY DEF IInv, Held
  <2>2. \A t \in tasks : Claim(t) \in dispatches /\ SessionOf[Claim(t).job] \in registered
    BY DEF IInv, Held, Claim
  <2>3. {d \in dispatches : SessionOf[d.job] \in registered} = {Claim(t) : t \in tasks}
    BY <2>1, <2>2
  <2>4. QED
    BY <2>3 DEF IInv, Held, ClaimsAreHeld
<1>2. QED
  BY <1>1, JobsInvariant, PTL

\* A prepared restart has no dispatch and no claim.
THEOREM PreparedRestartIsQuiet == Spec => []PreparedIsQuiet
<1>1. IInv => PreparedIsQuiet
  BY DEF IInv, Memory, Held, PreparedIsQuiet
<1>2. QED
  BY <1>1, JobsInvariant, PTL

\* A prompt is delivered only for an active job, with its present text.
THEOREM PromptsAreDeliveredAsStored == Spec => DeliveredAsStored
<1>1. IInv /\ [Next]_vars => [AsStored]_vars
  <2> SUFFICES ASSUME IInv, [Next]_vars, NEW j \in Jobs, received'[j] # received[j]
               PROVE  status[j] = "active" /\ received'[j][Len(received'[j])].prompt = prompt[j]
    BY DEF AsStored
  <2>1. PICK t \in tasks :
          (Opened(t) /\ Deliver(t, prompt[t.job])) \/ (Admit(t) /\ Deliver(t, t.asked))
    <3>1. received' # received
      BY SMTT(30)
    <3>2. \/ \E t \in tasks : Opened(t) /\ Deliver(t, prompt[t.job])
          \/ \E t \in tasks : Admit(t) /\ Deliver(t, t.asked)
      BY <3>1 DEF Next, vars, diskVars, memVars, ComesDue, Create, Pause, Resume, Edit, Cancel, Change,
                  RunDue, TaskStep, TakeTask, Opened, SessionIsGone, Admit, Throws, Record, Register,
                  Open, Close, BeginRestart, Prepared, CancelRestart, Crash, Launch
    <3>3. QED
      BY <3>2
  <2>2. t.job \in Jobs /\ received[t.job] \in Seq([tick : 1..MaxTicks, prompt : 0..MaxEdits])
    BY DEF IInv, TypeOK, Tasks
  <2>3. PICK x : Deliver(t, x) /\ x = prompt[t.job] /\ Runnable(t.job)
    BY <2>1 DEF Opened, Admit, Deliver
  <2>4. t.job = j
    BY <2>2, <2>3 DEF Deliver, IInv, TypeOK
  <2>5. received'[j] = Append(received[j], [tick |-> t.tick, prompt |-> x])
    BY <2>2, <2>3, <2>4 DEF Deliver, IInv, TypeOK
  <2>6. Len(received'[j]) = Len(received[j]) + 1 /\ Len(received[j]) \in Nat
    BY <2>2, <2>4, <2>5
  <2>7. received'[j][Len(received'[j])] = [tick |-> t.tick, prompt |-> x]
    BY <2>2, <2>4, <2>5, <2>6
  <2>8. received'[j][Len(received'[j])].prompt = x
    BY <2>7
  <2>9. QED
    BY <2>3, <2>4, <2>8 DEF Runnable, Claimed, IsDueJob
<1>2. QED
  BY <1>1, JobsInvariant, PTL DEF DeliveredAsStored, Spec
=============================================================================
