---------------------------- MODULE ScheduledJobs ----------------------------
(***************************************************************************)
(* The scheduled prompts of one session worker: the jobs and claims in the *)
(* sessions' scheduled-jobs files, the scheduler's timer and dispatch      *)
(* lanes, and the delivery of a due job to its session.  A tick is claimed *)
(* on disk and the schedule advanced before anything is delivered; a claim *)
(* found after a crash is recorded as interrupted and never replayed.      *)
(* An action is the code between two awaits of the worker.                 *)
(***************************************************************************)
EXTENDS Naturals, Sequences

CONSTANTS Jobs,
          Sessions,
          SessionOf,    \* [Jobs -> Sessions], the session a job is for
          Once,         \* jobs that run once
          Heartbeats,   \* recurring jobs that can be paused and edited
          MaxTicks,     \* bound: times a job comes due
          MaxEdits,     \* bound: edits, pauses, resumptions and closings, together
          MaxCrashes    \* bound: worker processes that end

ASSUME JobsAssumption ==
  /\ SessionOf \in [Jobs -> Sessions]
  /\ Once \subseteq Jobs /\ Heartbeats \subseteq Jobs /\ Once \cap Heartbeats = {}
  /\ MaxTicks \in Nat /\ MaxEdits \in Nat /\ MaxCrashes \in Nat

VARIABLES
  status,      \* job.status on disk, "none" before the job is created
  next,        \* job.nextRunAt: none, later than now, or due
  prompt,      \* job.prompt, as the number of its edits
  dispatches,  \* claims on disk, [job, tick]
  ticks,       \* how often each job has come due
  received,    \* per job: what its session was given, in order
  up,          \* the worker process runs
  stopped,     \* the scheduler's stopped
  registered,  \* sessions whose jobs file the worker's store has
  resident,    \* sessions open in the worker
  tasks,       \* dispatches in the worker's memory
  covers,      \* jobs for which the timer fires no later than their nextRunAt
  restart,     \* the worker's part in an update restart
  edits, crashes

diskVars == <<status, next, prompt, dispatches>>
memVars  == <<up, stopped, registered, resident, tasks, covers, restart>>
vars     == <<diskVars, ticks, received, memVars, edits, crashes>>

Claims  == [job : Jobs, tick : 1..MaxTicks]
Stages  == {"queued", "opening", "admitting", "ran", "skipped"}
Tasks   == [job : Jobs, tick : 1..MaxTicks, at : Stages, asked : 0..MaxEdits]
Claim(t) == [job |-> t.job, tick |-> t.tick]

Init ==
  /\ status = [j \in Jobs |-> "none"]
  /\ next = [j \in Jobs |-> "none"]
  /\ prompt = [j \in Jobs |-> 0]
  /\ dispatches = {}
  /\ ticks = [j \in Jobs |-> 0]
  /\ received = [j \in Jobs |-> <<>>]
  /\ up = TRUE /\ stopped = FALSE
  /\ registered = {} /\ resident = {} /\ tasks = {} /\ covers = {}
  /\ restart = "none"
  /\ edits = 0 /\ crashes = 0

-----------------------------------------------------------------------------
\* Slip: the schedule is not advanced.
Unadvanced(j) == next[j]
\* nextRunAtForSchedule.
Following(j) == IF j \in Once THEN "none" ELSE "later"

IsDueJob(j) == status[j] = "active" /\ next[j] = "due"
HasClaim(j) == \E d \in dispatches : d.job = j
\* getClaimedJob, and getRunnableCronJob.
Claimed(j)  == status[j] = "active" /\ HasClaim(j)
Runnable(j) == Claimed(j) \/ IsDueJob(j)

\* scheduleNext: the timer is set to the earliest run of the jobs it can see.
Visible ==
  {j \in Jobs : SessionOf[j] \in registered /\ status'[j] = "active" /\ next'[j] # "none"}
\* wake: the timer fires at once, and sees every job there is then.
Wake == covers' = IF stopped THEN covers ELSE Jobs

\* The clock reaches a job's nextRunAt, whether or not a worker runs.
ComesDue(j) ==
  /\ next[j] = "later" /\ ticks[j] < MaxTicks
  /\ next' = [next EXCEPT ![j] = "due"]
  /\ ticks' = [ticks EXCEPT ![j] = @ + 1]
  /\ UNCHANGED <<status, prompt, dispatches, received, memVars, edits, crashes>>

-----------------------------------------------------------------------------
(* The scheduler.                                                          *)

\* Slip: a file that was already there is not recovered.
RecoverNothing(sessions) == dispatches' = dispatches /\ status' = status
\* recoverInterruptedInState for the sessions of a set: claims nobody holds are
\* dropped, and a job that runs once is not run again.
Recover(sessions) ==
  LET interrupted == {d \in dispatches : SessionOf[d.job] \in sessions} IN
  /\ dispatches' = dispatches \ interrupted
  /\ status' = [j \in Jobs |->
                  IF j \in Once /\ status[j] = "active" /\ \E d \in interrupted : d.job = j
                    THEN "completed" ELSE status[j]]

DueJobs == {j \in Jobs : SessionOf[j] \in registered /\ IsDueJob(j)}
\* claimDueInState over the registered files: a job with a claim only advances.
ClaimDue ==
  LET new == {j \in DueJobs : ~HasClaim(j)} IN
  /\ dispatches' = dispatches \cup {[job |-> j, tick |-> ticks[j]] : j \in new}
  /\ next' = [j \in Jobs |-> IF j \in DueJobs THEN Following(j) ELSE next[j]]
  /\ tasks' = tasks \cup
              {[job |-> j, tick |-> ticks[j], at |-> "queued", asked |-> 0] : j \in new}
\* runDue, up to the dispatches it queues.
RunDue ==
  /\ up /\ ~stopped
  /\ covers = Jobs \/ covers \cap DueJobs # {}
  /\ ClaimDue
  /\ status' = status
  /\ covers' = Visible
  /\ UNCHANGED <<prompt, ticks, received, up, stopped, registered, resident, restart,
                 edits, crashes>>

\* Dispatches of one session run one after the other.
LaneIsFree(t) ==
  \A u \in tasks : SessionOf[u.job] = SessionOf[t.job] => u.at = "queued"

To(t, stage) == tasks' = (tasks \ {t}) \cup {[t EXCEPT !.at = stage]}

\* The head of a lane: without its claim or its job it is over.
TakeTask(t) ==
  /\ t.at = "queued" /\ LaneIsFree(t)
  /\ IF Claimed(t.job)
       THEN To(t, "opening") /\ dispatches' = dispatches
       ELSE tasks' = tasks \ {t} /\ dispatches' = dispatches \ {Claim(t)}
  /\ UNCHANGED <<status, next, prompt, ticks, received, up, stopped, registered,
                 resident, covers, restart, edits, crashes>>

Deliver(t, text) ==
  received' = [received EXCEPT ![t.job] = Append(@, [tick |-> t.tick, prompt |-> text])]

\* getOrCreateCronJobSession returned; runCronJob up to the prompt.
Opened(t) ==
  /\ t.at = "opening"
  /\ \/ /\ Runnable(t.job)
        /\ resident' = resident \cup {SessionOf[t.job]}
        \* A busy session: a heartbeat is deferred, another prompt is queued.
        /\ \/ t.job \in Heartbeats /\ To(t, "skipped") /\ received' = received
           \/ t.job \notin Heartbeats /\ To(t, "ran") /\ Deliver(t, prompt[t.job])
           \/ /\ tasks' = (tasks \ {t}) \cup
                            {[t EXCEPT !.at = "admitting", !.asked = prompt[t.job]]}
              /\ received' = received
     \/ /\ To(t, "skipped")
        /\ UNCHANGED <<resident, received>>
  /\ UNCHANGED <<diskVars, ticks, up, stopped, registered, covers, restart, edits,
                 crashes>>

\* The session's file says it is no longer active: its jobs are cancelled.
CancelJobsOf(s) ==
  LET gone == {j \in Jobs : SessionOf[j] = s /\ status[j] \in {"active", "paused"}} IN
  /\ status' = [j \in Jobs |-> IF j \in gone THEN "cancelled" ELSE status[j]]
  /\ next' = [j \in Jobs |-> IF j \in gone THEN "none" ELSE next[j]]
SessionIsGone(t) ==
  /\ t.at = "opening" /\ SessionOf[t.job] \notin resident
  /\ edits < MaxEdits /\ edits' = edits + 1
  /\ To(t, "skipped")
  /\ CancelJobsOf(SessionOf[t.job])
  /\ Wake
  /\ UNCHANGED <<prompt, dispatches, ticks, received, up, stopped, registered, resident,
                 restart, crashes>>

\* Slip: the job is not looked at again when the session admits the prompt.
AdmitBlindly(t) ==
  /\ t.at = "admitting"
  /\ IF SessionOf[t.job] \in resident
       THEN To(t, "ran") /\ Deliver(t, t.asked)
       ELSE To(t, "skipped") /\ received' = received
  /\ UNCHANGED <<diskVars, ticks, up, stopped, registered, resident, covers, restart,
                 edits, crashes>>
\* The session admits the prompt: admissionCommitted looks at the job again.
Admit(t) ==
  /\ t.at = "admitting"
  /\ IF SessionOf[t.job] \in resident /\ Runnable(t.job) /\ prompt[t.job] = t.asked
       THEN To(t, "ran") /\ Deliver(t, t.asked)
       ELSE To(t, "skipped") /\ received' = received
  /\ UNCHANGED <<diskVars, ticks, up, stopped, registered, resident, covers, restart,
                 edits, crashes>>
\* Opening the session or the prompt itself throws; what ran is recorded as failed.
Throws(t) ==
  /\ t.at \in {"opening", "admitting"}
  /\ edits < MaxEdits /\ edits' = edits + 1
  /\ To(t, "ran")
  /\ UNCHANGED <<diskVars, ticks, received, up, stopped, registered, resident, covers,
                 restart, crashes>>

\* Slip: a skipped dispatch is not recorded.
RecordRan(t) ==
  /\ t.at = "ran"
  /\ tasks' = tasks \ {t}
  /\ dispatches' = dispatches \ {Claim(t)}
  /\ UNCHANGED <<status, next, prompt, ticks, received, up, stopped, registered, resident, covers,
                 restart, edits, crashes>>
\* recordDispatchResult: a job that was skipped runs next from now on.
Record(t) ==
  /\ t.at \in {"ran", "skipped"}
  /\ tasks' = tasks \ {t}
  /\ dispatches' = dispatches \ {Claim(t)}
  /\ LET recorded == Claim(t) \in dispatches /\ status[t.job] = "active" IN
       /\ status' = IF recorded /\ t.job \in Once
                      THEN [status EXCEPT ![t.job] = "completed"] ELSE status
       /\ next' = IF recorded /\ t.at = "skipped"
                    THEN [next EXCEPT ![t.job] = Following(t.job)] ELSE next
  /\ UNCHANGED <<prompt, ticks, received, up, stopped, registered, resident, covers,
                 restart, edits, crashes>>

-----------------------------------------------------------------------------
(* Sessions and commands.                                                  *)

\* registerSessionArtifact, recoverSessionArtifact, for an opened session and for
\* a descendant that stays closed.
Register(s, opens) ==
  /\ up /\ s \notin registered
  /\ registered' = registered \cup {s}
  /\ resident' = IF opens THEN resident \cup {s} ELSE resident
  /\ Recover({s})
  /\ Wake
  /\ UNCHANGED <<next, prompt, ticks, received, up, stopped, tasks, restart, edits,
                 crashes>>
Open(s) ==
  /\ up /\ s \in registered /\ s \notin resident
  /\ resident' = resident \cup {s}
  /\ UNCHANGED <<diskVars, ticks, received, up, stopped, registered, tasks, covers,
                 restart, edits, crashes>>
\* closeSession: a killed session's jobs are cancelled.
Close(s, killed) ==
  /\ up /\ s \in resident
  /\ edits < MaxEdits /\ edits' = edits + 1
  /\ resident' = resident \ {s}
  /\ IF killed THEN CancelJobsOf(s) /\ Wake ELSE UNCHANGED <<status, next, covers>>
  /\ UNCHANGED <<prompt, dispatches, ticks, received, up, stopped, registered, tasks,
                 restart, crashes>>

\* Slip: the scheduler is not told.
CreateQuietly(j) ==
  /\ up /\ SessionOf[j] \in resident /\ status[j] = "none"
  /\ status' = [status EXCEPT ![j] = "active"]
  /\ next' = [next EXCEPT ![j] = "later"]
  /\ UNCHANGED <<prompt, dispatches, ticks, received, up, stopped, registered, resident,
                 tasks, covers, restart, edits, crashes>>
Create(j) ==
  /\ up /\ SessionOf[j] \in resident /\ status[j] = "none"
  /\ status' = [status EXCEPT ![j] = "active"]
  /\ next' = [next EXCEPT ![j] = "later"]
  /\ Wake
  /\ UNCHANGED <<prompt, dispatches, ticks, received, up, stopped, registered, resident,
                 tasks, restart, edits, crashes>>

\* Commands on a job and its heartbeat: what they leave of status, nextRunAt and
\* prompt.
Change(j, st, nx, pr) ==
  /\ up /\ SessionOf[j] \in registered
  /\ edits < MaxEdits /\ edits' = edits + 1
  /\ status' = [status EXCEPT ![j] = st]
  /\ next' = [next EXCEPT ![j] = nx]
  /\ prompt' = [prompt EXCEPT ![j] = pr]
  /\ Wake
  /\ UNCHANGED <<dispatches, ticks, received, up, stopped, registered, resident, tasks,
                 restart, crashes>>
Pause(j) ==
  /\ j \in Heartbeats /\ status[j] \in {"active", "paused"}
  /\ Change(j, "paused", "none", prompt[j])
Resume(j) ==
  /\ j \in Heartbeats /\ status[j] \in {"active", "paused"}
  /\ Change(j, "active", "later", prompt[j])
Edit(j) ==
  /\ j \in Heartbeats /\ status[j] \in {"active", "paused"} /\ prompt[j] < MaxEdits
  /\ Change(j, status[j], next[j], prompt[j] + 1)
Cancel(j) ==
  /\ status[j] \notin {"none", "cancelled"}
  /\ Change(j, "cancelled", "none", prompt[j])

-----------------------------------------------------------------------------
(* Update restart, shutdown and crash.                                     *)

\* beginUpdateRestartTransaction stops the scheduler.
BeginRestart ==
  /\ up /\ restart = "none"
  /\ restart' = "draining"
  /\ stopped' = TRUE /\ covers' = {}
  /\ UNCHANGED <<diskVars, ticks, received, up, registered, resident, tasks, edits,
                 crashes>>
\* Slip: does not wait for dispatches.
PreparedUndrained ==
  /\ up /\ restart = "draining"
  /\ restart' = "prepared"
  /\ UNCHANGED <<diskVars, ticks, received, up, stopped, registered, resident, tasks,
                 covers, edits, crashes>>
\* The drain is over once every dispatch has ended.
Prepared ==
  /\ up /\ restart = "draining" /\ tasks = {}
  /\ restart' = "prepared"
  /\ UNCHANGED <<diskVars, ticks, received, up, stopped, registered, resident, tasks,
                 covers, edits, crashes>>
\* cancelPreparedUpdateRestart.
CancelRestart ==
  /\ up /\ restart # "none"
  /\ edits < MaxEdits /\ edits' = edits + 1
  /\ restart' = "none"
  /\ stopped' = FALSE
  /\ UNCHANGED diskVars
  /\ covers' = Visible
  /\ UNCHANGED <<ticks, received, up, registered, resident, tasks, crashes>>

\* The process ends, by a crash or after it has prepared, and another one starts.
Crash ==
  /\ up /\ crashes < MaxCrashes /\ crashes' = crashes + 1
  /\ up' = FALSE
  /\ stopped' = TRUE
  /\ registered' = {} /\ resident' = {} /\ tasks' = {} /\ covers' = {}
  /\ restart' = "none"
  /\ UNCHANGED <<diskVars, ticks, received, edits>>
\* start, with no session registered yet: each one's file is recovered when it is.
Launch ==
  /\ ~up
  /\ up' = TRUE /\ stopped' = FALSE
  /\ UNCHANGED <<diskVars, ticks, received, registered, resident, tasks, covers, restart, edits,
                 crashes>>

-----------------------------------------------------------------------------
TaskStep(t) ==
  \/ TakeTask(t) \/ Opened(t) \/ SessionIsGone(t) \/ Admit(t) \/ Throws(t) \/ Record(t)
TaskOf(j, n) == \E t \in tasks : t.job = j /\ t.tick = n /\ TaskStep(t)

Next ==
  \/ \E j \in Jobs : ComesDue(j) \/ Create(j) \/ Pause(j) \/ Resume(j) \/ Edit(j) \/ Cancel(j)
  \/ RunDue
  \/ \E t \in tasks : TaskStep(t)
  \/ \E s \in Sessions : \/ Register(s, TRUE) \/ Register(s, FALSE) \/ Open(s)
                         \/ Close(s, TRUE) \/ Close(s, FALSE)
  \/ BeginRestart \/ Prepared \/ CancelRestart
  \/ Crash \/ Launch

\* Timers fire, and what a dispatch awaits is answered.
Fairness == WF_vars(RunDue) /\ \A j \in Jobs, n \in 1..MaxTicks : WF_vars(TaskOf(j, n))

Spec == Init /\ [][Next]_vars /\ Fairness

-----------------------------------------------------------------------------
\* Every variable has its type.
TypeOK ==
  /\ status \in [Jobs -> {"none", "active", "paused", "completed", "cancelled"}]
  /\ next \in [Jobs -> {"none", "later", "due"}]
  /\ prompt \in [Jobs -> 0..MaxEdits]
  /\ dispatches \subseteq Claims
  /\ ticks \in [Jobs -> 0..MaxTicks]
  /\ received \in [Jobs -> Seq([tick : 1..MaxTicks, prompt : 0..MaxEdits])]
  /\ up \in BOOLEAN /\ stopped \in BOOLEAN
  /\ registered \subseteq Sessions /\ resident \subseteq Sessions
  /\ tasks \subseteq Tasks
  /\ covers \subseteq Jobs
  /\ restart \in {"none", "draining", "prepared"}
  /\ edits \in 0..MaxEdits /\ crashes \in 0..MaxCrashes

\* daemon.md, "A crash therefore does not replay an uncertain prompt": a session is
\* given a job's ticks in their order and each at most once, over every process.
OncePerTick ==
  \A j \in Jobs : \A i, k \in 1..Len(received[j]) :
    i < k => received[j][i].tick < received[j][k].tick

\* getClaimedJob, recordDispatchResult, recoverSessionArtifact: the claims on disk
\* are exactly the dispatches the worker still works on, one for a job, so nothing
\* is coalesced into a claim that no one will settle.
ClaimsAreHeld ==
  up => /\ {d \in dispatches : SessionOf[d.job] \in registered} = {Claim(t) : t \in tasks}
        /\ \A t, u \in tasks : t.job = u.job => t = u

\* admissionCommitted: a prompt is delivered only while its job is active, and
\* with the job's present text, whatever happened since the tick was claimed.
AsStored ==
  \A j \in Jobs : received'[j] # received[j] =>
    /\ status[j] = "active"
    /\ received'[j][Len(received'[j])].prompt = prompt[j]
DeliveredAsStored == [][AsStored]_vars

\* A prepared update restart: no dispatch is under way and none begins, so the
\* checkpoint has every delivered prompt and no claim.
PreparedIsQuiet ==
  restart = "prepared" =>
    tasks = {} /\ \A d \in dispatches : SessionOf[d.job] \notin registered

\* The scheduler's timer: a due job of a worker that runs its scheduler is claimed.
DueIsClaimed ==
  \A j \in Jobs :
    (IsDueJob(j) /\ ~stopped /\ SessionOf[j] \in registered) ~> (~IsDueJob(j) \/ stopped)

\* The dispatch lanes: whatever happens to its job or session, a dispatch ends and
\* its claim with it, so the job's later ticks are not coalesced for ever.
DispatchesEnd ==
  \A j \in Jobs, n \in 1..MaxTicks :
    (\E t \in tasks : t.job = j /\ t.tick = n) ~> (\A t \in tasks : ~(t.job = j /\ t.tick = n))
=============================================================================
