---------------------------- MODULE UpdateRestart ----------------------------
(***************************************************************************)
(* The two-phase part of an update restart: the supervisor asks every      *)
(* worker to prepare (drain, checkpoint, stop accepting), persists one     *)
(* manifest made of their checkpoints and tells them to commit, or cancels *)
(* those that had prepared.  A worker's transaction belongs to the         *)
(* connection that prepared it and dies with it.  An action is the code    *)
(* between two awaits of one process; MutationGate models what the         *)
(* supervisor does before this.                                            *)
(***************************************************************************)
EXTENDS Naturals, Sequences

CONSTANTS Workers,     \* resident session workers
          MaxRounds,   \* bound: preparations the supervisor begins
          MaxConns,    \* bound: connections to one worker
          MaxFaults,   \* bound: broken connections and crashed processes
          MaxChanges   \* bound: mutations one worker accepts

ASSUME RestartAssumption ==
  /\ MaxRounds \in Nat
  /\ MaxConns \in Nat \ {0}
  /\ MaxFaults \in Nat
  /\ MaxChanges \in Nat

VARIABLES
  sup,            \* where the supervisor's preparation is
  round,          \* preparations begun
  answer,         \* of the requests of the present phase: how each was settled
  prepareClient,  \* updateRestartPrepareClient, 0 when unset
  manifest,       \* per worker, the checkpoint in the persisted manifest
  client,         \* worker.client: the connection the supervisor uses, 0 for none
  conns,          \* connections made to a worker so far
  up,             \* workers whose present connection carries data
  inbox,          \* requests on their way to a worker
  reply,          \* what came back to the pending request, not read yet
  phase,          \* of the worker's transaction, or of the worker itself
  claim,          \* the connection a worker takes for its supervisor, 0 for none
  owner,          \* the connection that owns the transaction
  ofRound,        \* the preparation it belongs to
  aborted,        \* transactions whose abort signal has fired
  timer,          \* workers with the transaction's deadline armed
  checkpoint,     \* what the last checkpoint captured
  changes,        \* mutations a worker has accepted and carried out
  running,        \* workers with a mutation in progress
  faults          \* connections and processes lost so far

supVars  == <<sup, round, answer, prepareClient, manifest>>
linkVars == <<client, conns, up, inbox, reply>>
txnVars  == <<phase, claim, owner, ofRound, aborted, timer, checkpoint>>
workVars == <<changes, running>>
vars     == <<supVars, linkVars, txnVars, workVars, faults>>

Requests   == {"prepare", "cancel", "commit"}
Messages   == [type : Requests, round : 1..MaxRounds]
SupPhases  == {"idle", "preparing", "cancelling", "committing", "stopping", "forcing",
               "prepared", "dead"}
TxnPhases  == {"none", "preparing", "drained", "fencing", "prepared", "publishing", "closed",
               "stopped"}
\* The phase of the supervisor that waits for the answer to a request.
Awaiting   == [t \in Requests |-> CASE t = "prepare" -> "preparing"
                                    [] t = "cancel"  -> "cancelling"
                                    [] t = "commit"  -> "committing"]

Init ==
  /\ sup = "idle" /\ round = 0
  /\ answer = [w \in Workers |-> "ok"]
  /\ prepareClient = [w \in Workers |-> 0]
  /\ manifest = [w \in Workers |-> 0]
  /\ client = [w \in Workers |-> 1]
  /\ conns = [w \in Workers |-> 1]
  /\ up = Workers
  /\ inbox = [w \in Workers |-> <<>>]
  /\ reply = [w \in Workers |-> "none"]
  /\ phase = [w \in Workers |-> "none"]
  /\ claim = [w \in Workers |-> 1]
  /\ owner = [w \in Workers |-> 0]
  /\ ofRound = [w \in Workers |-> 0]
  /\ aborted = {} /\ timer = {} /\ running = {}
  /\ checkpoint = [w \in Workers |-> 0]
  /\ changes = [w \in Workers |-> 0]
  /\ faults = 0

-----------------------------------------------------------------------------
(* The supervisor: prepareUpdateRestartFenced.                             *)

\* The request goes to the workers of ws over their connections; on a connection
\* that broke it is lost.
Send(ws, type) ==
  inbox' = [w \in Workers |->
              IF w \in ws \cap up THEN Append(inbox[w], [type |-> type, round |-> round'])
              ELSE inbox[w]]

\* Every resident worker has to be connected.
Begin ==
  /\ sup = "idle" /\ round < MaxRounds
  /\ \A w \in Workers : client[w] # 0
  /\ sup' = "preparing"
  /\ round' = round + 1
  /\ answer' = [w \in Workers |-> "none"]
  /\ Send(Workers, "prepare")
  /\ UNCHANGED <<prepareClient, manifest, client, conns, up, reply, txnVars, workVars, faults>>

\* An answer is read.  A prepared worker is remembered with its connection, also
\* when its manifest turns out to be unusable.
Hear(w) ==
  /\ answer[w] = "none" /\ reply[w] # "none" /\ client[w] # 0
  /\ \E a \in IF sup = "preparing" /\ reply[w] = "ok" THEN {"ok", "fail"}
              ELSE {IF reply[w] = "ok" THEN "ok" ELSE "fail"} :
       answer' = [answer EXCEPT ![w] = a]
  /\ prepareClient' = IF sup = "preparing" /\ reply[w] = "ok"
                        THEN [prepareClient EXCEPT ![w] = client[w]] ELSE prepareClient
  \* A refused cancellation closes the connection.
  /\ up' = IF sup = "cancelling" /\ reply[w] = "error" THEN up \ {w} ELSE up
  /\ reply' = [reply EXCEPT ![w] = "none"]
  /\ UNCHANGED <<sup, round, manifest, client, conns, inbox, txnVars, workVars, faults>>

\* No answer within the time limit of the request.
TimesOut(w) ==
  /\ sup \in {"preparing", "cancelling", "committing"} /\ answer[w] = "none"
  /\ answer' = [answer EXCEPT ![w] = "fail"]
  /\ up' = IF sup = "cancelling" THEN up \ {w} ELSE up
  /\ reply' = [reply EXCEPT ![w] = "none"]
  /\ UNCHANGED <<sup, round, prepareClient, manifest, client, conns, inbox, txnVars, workVars,
                 faults>>

\* The supervisor sees a connection close: its pending request is rejected.
ClientCloses(w) ==
  /\ client[w] # 0 /\ w \notin up
  /\ client' = [client EXCEPT ![w] = 0]
  /\ reply' = [reply EXCEPT ![w] = "none"]
  /\ answer' = IF sup \in {"preparing", "cancelling", "committing"} /\ answer[w] = "none"
                 THEN [answer EXCEPT ![w] = "fail"] ELSE answer
  /\ UNCHANGED <<sup, round, prepareClient, manifest, conns, up, inbox, txnVars, workVars,
                 faults>>

Settled == \A w \in Workers : answer[w] # "none"
Usable(w) == prepareClient[w] # 0 /\ prepareClient[w] = client[w]

\* cancelAcknowledged: workers that had prepared are told over the connection that
\* prepared them.  Where that one is gone, the present one is closed as well.
CancelAcknowledged ==
  /\ sup' = "cancelling"
  /\ answer' = [w \in Workers |-> IF Usable(w) THEN "none" ELSE "ok"]
  /\ prepareClient' = [w \in Workers |-> 0]
  /\ up' = up \ {w \in Workers : prepareClient[w] # 0 /\ ~Usable(w)}
  /\ inbox' = [w \in Workers |->
                 IF Usable(w) /\ w \in up
                   THEN Append(inbox[w], [type |-> "cancel", round |-> round])
                   ELSE inbox[w]]
  /\ UNCHANGED <<round, manifest, client, conns, reply, txnVars, workVars, faults>>

Stale == \E w \in Workers : ~Usable(w)
Failed == \E w \in Workers : answer[w] = "fail"

\* A worker failed, a checkpoint is stale or the manifest cannot be written.
RollBack == sup = "preparing" /\ Settled /\ CancelAcknowledged

\* Slip: no stale-worker check; commits go to whatever connection there is.
PersistStale ==
  /\ sup = "preparing" /\ Settled /\ ~Failed
  /\ manifest' = checkpoint
  /\ sup' = "committing"
  /\ answer' = [w \in Workers |-> IF client[w] = 0 THEN "fail" ELSE "none"]
  /\ prepareClient' = [w \in Workers |-> 0]
  /\ round' = round
  /\ Send(Workers, "commit")
  /\ UNCHANGED <<client, conns, up, reply, txnVars, workVars, faults>>

\* validateAndPersistUpdateManifest, and the commits go out.
Persist ==
  /\ sup = "preparing" /\ Settled /\ ~Failed /\ ~Stale
  /\ manifest' = checkpoint
  /\ sup' = "committing"
  /\ answer' = [w \in Workers |-> "none"]
  /\ prepareClient' = [w \in Workers |-> 0]
  /\ round' = round
  /\ Send(Workers, "commit")
  /\ UNCHANGED <<client, conns, up, reply, txnVars, workVars, faults>>

RolledBack ==
  /\ sup = "cancelling" /\ Settled
  /\ sup' = "idle"
  /\ UNCHANGED <<round, answer, prepareClient, manifest, linkVars, txnVars, workVars, faults>>

\* Slip: a failed commit rolls the others back.
CommittedRollsBack ==
  /\ sup = "committing" /\ Settled
  /\ sup' = IF Failed THEN "cancelling" ELSE "stopping"
  /\ answer' = [w \in Workers |-> "none"]
  /\ UNCHANGED <<round, prepareClient, manifest, linkVars, txnVars, workVars, faults>>

\* All commits are answered: stop the workers, by force if one commit failed.
Committed ==
  /\ sup = "committing" /\ Settled
  /\ sup' = IF Failed THEN "forcing" ELSE "stopping"
  /\ answer' = [w \in Workers |-> "none"]
  /\ UNCHANGED <<round, prepareClient, manifest, linkVars, txnVars, workVars, faults>>

\* stopWorker ends the process; only a stop without force can time out and leave
\* it running.
StopWorker(w) ==
  /\ sup \in {"stopping", "forcing"} /\ answer[w] = "none"
  /\ answer' = [answer EXCEPT ![w] = "ok"]
  /\ phase' = [phase EXCEPT ![w] = "stopped"]
  /\ client' = [client EXCEPT ![w] = 0]
  /\ claim' = [claim EXCEPT ![w] = 0]
  /\ up' = up \ {w} /\ timer' = timer \ {w} /\ running' = running \ {w}
  /\ inbox' = [inbox EXCEPT ![w] = <<>>]
  /\ UNCHANGED <<sup, round, prepareClient, manifest, conns, reply, owner, ofRound, aborted,
                 checkpoint, changes, faults>>
StopTimesOut(w) ==
  /\ sup = "stopping" /\ answer[w] = "none"
  /\ answer' = [answer EXCEPT ![w] = "fail"]
  /\ UNCHANGED <<sup, round, prepareClient, manifest, linkVars, txnVars, workVars, faults>>

Stopped ==
  /\ sup \in {"stopping", "forcing"} /\ Settled
  /\ sup' = IF Failed THEN "forcing" ELSE "prepared"
  /\ answer' = IF Failed THEN [w \in Workers |-> "none"] ELSE answer
  /\ UNCHANGED <<round, prepareClient, manifest, linkVars, txnVars, workVars, faults>>

SupervisorDies ==
  /\ faults < MaxFaults /\ faults' = faults + 1
  /\ sup \notin {"dead", "prepared"}
  /\ sup' = "dead"
  /\ client' = [w \in Workers |-> 0]
  /\ up' = {}
  /\ reply' = [w \in Workers |-> "none"]
  /\ UNCHANGED <<round, answer, prepareClient, manifest, conns, inbox, txnVars, workVars>>

-----------------------------------------------------------------------------
(* A worker.                                                               *)

\* The answer reaches the supervisor's pending request if it still waits.
Reply(w, type, r, what) ==
  reply' = IF /\ sup = Awaiting[type] /\ round = r /\ answer[w] = "none"
              /\ w \in up
             THEN [reply EXCEPT ![w] = what] ELSE reply

Take(w, type) ==
  /\ claim[w] # 0 /\ inbox[w] # <<>> /\ Head(inbox[w]).type = type
  /\ inbox' = [inbox EXCEPT ![w] = Tail(@)]
Request(w) == Head(inbox[w])

\* beginUpdateRestartTransaction.
HandlePrepare(w) ==
  /\ Take(w, "prepare")
  /\ IF phase[w] = "none"
       THEN /\ phase' = [phase EXCEPT ![w] = "preparing"]
            /\ owner' = [owner EXCEPT ![w] = claim[w]]
            /\ ofRound' = [ofRound EXCEPT ![w] = Request(w).round]
            /\ aborted' = aborted \ {w}
            /\ timer' = timer \cup {w}
            /\ UNCHANGED reply
       ELSE /\ Reply(w, "prepare", Request(w).round, "error")
            /\ UNCHANGED <<phase, owner, ofRound, aborted, timer>>
  /\ UNCHANGED <<supVars, client, conns, up, claim, checkpoint, workVars, faults>>

\* The first drain returns ...
Drained(w) ==
  /\ phase[w] = "preparing" /\ w \notin running
  /\ phase' = [phase EXCEPT ![w] = "drained"]
  /\ UNCHANGED <<supVars, linkVars, claim, owner, ofRound, aborted, timer, checkpoint, workVars,
                 faults>>
\* ... and when its caller goes on, no mutation is admitted any more.
Fence(w) ==
  /\ phase[w] = "drained"
  /\ phase' = [phase EXCEPT ![w] = "fencing"]
  /\ UNCHANGED <<supVars, linkVars, claim, owner, ofRound, aborted, timer, checkpoint, workVars,
                 faults>>

\* Slip: without the second drain.
CheckpointUndrained(w) ==
  /\ phase[w] = "fencing"
  /\ phase' = [phase EXCEPT ![w] = "prepared"]
  /\ checkpoint' = [checkpoint EXCEPT ![w] = changes[w]]
  /\ Reply(w, "prepare", ofRound[w], "ok")
  /\ UNCHANGED <<supVars, client, conns, up, inbox, claim, owner, ofRound, aborted, timer,
                 workVars, faults>>
\* Slip: the deadline is cleared when the checkpoint is there.
CheckpointDisarms(w) ==
  /\ phase[w] = "fencing" /\ w \notin running
  /\ phase' = [phase EXCEPT ![w] = "prepared"]
  /\ checkpoint' = [checkpoint EXCEPT ![w] = changes[w]]
  /\ timer' = timer \ {w}
  /\ Reply(w, "prepare", ofRound[w], "ok")
  /\ UNCHANGED <<supVars, client, conns, up, inbox, claim, owner, ofRound, aborted, workVars,
                 faults>>
\* The second drain and prepareUpdateRestartCheckpoint.
Checkpoint(w) ==
  /\ phase[w] = "fencing" /\ w \notin running
  /\ phase' = [phase EXCEPT ![w] = "prepared"]
  /\ checkpoint' = [checkpoint EXCEPT ![w] = changes[w]]
  /\ Reply(w, "prepare", ofRound[w], "ok")
  /\ UNCHANGED <<supVars, client, conns, up, inbox, claim, owner, ofRound, aborted, timer,
                 workVars, faults>>

\* cancelPreparedUpdateRestart: a transaction that publishes only hears the signal.
Cancel(w) ==
  /\ aborted' = aborted \cup {w}
  /\ timer' = timer \ {w}
  /\ phase' = IF phase[w] \in {"preparing", "drained", "fencing", "prepared"}
                THEN [phase EXCEPT ![w] = "none"] ELSE phase

\* A session could not be snapshotted.
CheckpointFails(w) ==
  /\ phase[w] = "fencing"
  /\ Cancel(w)
  /\ Reply(w, "prepare", ofRound[w], "error")
  /\ UNCHANGED <<supVars, client, conns, up, inbox, claim, owner, ofRound, checkpoint, workVars,
                 faults>>

\* The worker's deadline is as long as the supervisor's request and begins later,
\* so the supervisor has settled the request by then.
Deadline(w) ==
  /\ w \in timer
  /\ ~(sup = "preparing" /\ round = ofRound[w])
  /\ Cancel(w)
  /\ UNCHANGED <<supVars, linkVars, claim, owner, ofRound, checkpoint, workVars, faults>>

HandleCancel(w) ==
  LET refused == /\ phase[w] # "none"
                 /\ (owner[w] # claim[w] \/ phase[w] \in {"publishing", "closed"})
  IN
  /\ Take(w, "cancel")
  /\ IF refused \/ phase[w] = "none" THEN UNCHANGED <<phase, aborted, timer>> ELSE Cancel(w)
  /\ Reply(w, "cancel", Request(w).round, IF refused THEN "error" ELSE "ok")
  /\ UNCHANGED <<supVars, client, conns, up, claim, owner, ofRound, checkpoint, workVars,
                 faults>>

\* Slip: a commit needs no prepared transaction.
CommitUnprepared(w) ==
  LET accepted == phase[w] \notin {"publishing", "closed", "stopped"} IN
  /\ Take(w, "commit")
  /\ phase' = IF accepted THEN [phase EXCEPT ![w] = "publishing"] ELSE phase
  /\ timer' = IF accepted THEN timer \ {w} ELSE timer
  /\ IF accepted THEN UNCHANGED reply ELSE Reply(w, "commit", Request(w).round, "error")
  /\ UNCHANGED <<supVars, client, conns, up, claim, owner, ofRound, aborted, checkpoint,
                 workVars, faults>>

\* worker_commit_update: only a prepared transaction, only for its owner.
HandleCommit(w) ==
  LET accepted == phase[w] = "prepared" /\ owner[w] = claim[w] IN
  /\ Take(w, "commit")
  /\ phase' = IF accepted THEN [phase EXCEPT ![w] = "publishing"] ELSE phase
  /\ timer' = IF accepted THEN timer \ {w} ELSE timer
  /\ IF accepted THEN UNCHANGED reply ELSE Reply(w, "commit", Request(w).round, "error")
  /\ UNCHANGED <<supVars, client, conns, up, claim, owner, ofRound, aborted, checkpoint,
                 workVars, faults>>

\* commitPreparedUpdateRestart closes the sessions; a worker without a supervisor
\* then ends.
Publish(w) ==
  /\ phase[w] = "publishing"
  /\ phase' = [phase EXCEPT ![w] = IF claim[w] = owner[w] THEN "closed" ELSE "stopped"]
  /\ Reply(w, "commit", ofRound[w], "ok")
  /\ UNCHANGED <<supVars, client, conns, up, inbox, claim, owner, ofRound, aborted, timer,
                 checkpoint, workVars, faults>>
PublishFails(w) ==
  /\ phase[w] = "publishing"
  /\ phase' = [phase EXCEPT ![w] = IF w \in aborted THEN "none" ELSE "prepared"]
  /\ Reply(w, "commit", ofRound[w], "error")
  /\ UNCHANGED <<supVars, client, conns, up, inbox, claim, owner, ofRound, aborted, timer,
                 checkpoint, workVars, faults>>

\* revokeSupervisorClaim, when the worker sees its connection close.
LoseClaim(w) ==
  /\ claim[w] # 0 /\ w \notin up
  /\ claim' = [claim EXCEPT ![w] = 0]
  /\ inbox' = [inbox EXCEPT ![w] = <<>>]
  /\ IF owner[w] = claim[w] THEN Cancel(w) ELSE UNCHANGED <<phase, aborted, timer>>
  /\ UNCHANGED <<supVars, client, conns, up, reply, owner, ofRound, checkpoint, workVars,
                 faults>>

\* A mutation is admitted outside a transaction; a few kinds also while it drains.
BeginChange(w) ==
  /\ phase[w] \in {"none", "preparing", "drained"} /\ w \notin running
  /\ changes[w] < MaxChanges
  /\ running' = running \cup {w}
  /\ UNCHANGED <<supVars, linkVars, txnVars, changes, faults>>
EndChange(w) ==
  /\ w \in running
  /\ running' = running \ {w}
  /\ changes' = [changes EXCEPT ![w] = @ + 1]
  /\ UNCHANGED <<supVars, linkVars, txnVars, faults>>

-----------------------------------------------------------------------------
(* Connections and crashes.                                                *)

Break(w) ==
  /\ faults < MaxFaults /\ faults' = faults + 1
  /\ w \in up
  /\ up' = up \ {w}
  /\ UNCHANGED <<supVars, client, conns, inbox, reply, txnVars, workVars>>

\* The worker process dies.
Crash(w) ==
  /\ faults < MaxFaults /\ faults' = faults + 1
  /\ phase[w] # "stopped"
  /\ phase' = [phase EXCEPT ![w] = "stopped"]
  /\ claim' = [claim EXCEPT ![w] = 0]
  /\ up' = up \ {w} /\ timer' = timer \ {w} /\ running' = running \ {w}
  /\ inbox' = [inbox EXCEPT ![w] = <<>>]
  /\ UNCHANGED <<supVars, client, conns, reply, owner, ofRound, aborted, checkpoint, changes>>

\* recoverWorker connects again, to a new process if the worker died; a new claim
\* revokes the one before it.
Reconnect(w) ==
  /\ sup \notin {"dead", "stopping", "forcing", "prepared"}
  /\ client[w] = 0 /\ conns[w] < MaxConns
  /\ conns' = [conns EXCEPT ![w] = @ + 1]
  /\ client' = [client EXCEPT ![w] = conns[w] + 1]
  /\ claim' = [claim EXCEPT ![w] = conns[w] + 1]
  /\ up' = up \cup {w}
  /\ inbox' = [inbox EXCEPT ![w] = <<>>]
  /\ IF phase[w] = "stopped"
       THEN phase' = [phase EXCEPT ![w] = "none"] /\ UNCHANGED <<aborted, timer>>
       ELSE IF claim[w] # 0 /\ owner[w] = claim[w] THEN Cancel(w)
       ELSE UNCHANGED <<phase, aborted, timer>>
  /\ UNCHANGED <<supVars, reply, owner, ofRound, checkpoint, workVars, faults>>
\* A worker that publishes refuses the subscription that follows, and recoverWorker
\* closes the connection.
Refused(w) ==
  /\ w \in up /\ phase[w] \in {"publishing", "closed"} /\ client[w] # owner[w]
  /\ up' = up \ {w}
  /\ UNCHANGED <<supVars, client, conns, inbox, reply, txnVars, workVars, faults>>

-----------------------------------------------------------------------------
Supervisor ==
  \/ Begin \/ RollBack \/ Persist \/ RolledBack \/ Committed \/ Stopped \/ SupervisorDies
  \/ \E w \in Workers : \/ Hear(w) \/ TimesOut(w) \/ ClientCloses(w)
                        \/ StopWorker(w) \/ StopTimesOut(w)
                        \/ Reconnect(w) \/ Refused(w)
Worker(w) ==
  \/ HandlePrepare(w) \/ Drained(w) \/ Fence(w) \/ Checkpoint(w)
  \/ CheckpointFails(w) \/ Deadline(w) \/ HandleCancel(w) \/ HandleCommit(w)
  \/ Publish(w) \/ PublishFails(w) \/ LoseClaim(w)
  \/ BeginChange(w) \/ EndChange(w) \/ Break(w) \/ Crash(w)

Next == Supervisor \/ \E w \in Workers : Worker(w)

\* Timers fire, sockets report that they closed, handlers and mutations go on.
Fairness ==
  /\ WF_vars(RollBack) /\ WF_vars(RolledBack) /\ WF_vars(Committed) /\ WF_vars(Stopped)
  /\ \A w \in Workers :
       /\ WF_vars(TimesOut(w)) /\ WF_vars(ClientCloses(w)) /\ WF_vars(StopWorker(w))
       /\ WF_vars(Deadline(w)) /\ WF_vars(LoseClaim(w))
       /\ WF_vars(Publish(w)) /\ WF_vars(EndChange(w))

Spec == Init /\ [][Next]_vars /\ Fairness

-----------------------------------------------------------------------------
\* Every variable has its type.
TypeOK ==
  /\ sup \in SupPhases /\ round \in 0..MaxRounds
  /\ answer \in [Workers -> {"none", "ok", "fail"}]
  /\ prepareClient \in [Workers -> 0..MaxConns]
  /\ manifest \in [Workers -> 0..MaxChanges]
  /\ client \in [Workers -> 0..MaxConns] /\ conns \in [Workers -> 1..MaxConns]
  /\ up \subseteq Workers
  /\ inbox \in [Workers -> Seq(Messages)]
  /\ reply \in [Workers -> {"none", "ok", "error"}]
  /\ phase \in [Workers -> TxnPhases]
  /\ claim \in [Workers -> 0..MaxConns] /\ owner \in [Workers -> 0..MaxConns]
  /\ ofRound \in [Workers -> 0..MaxRounds]
  /\ aborted \subseteq Workers /\ timer \subseteq Workers /\ running \subseteq Workers
  /\ checkpoint \in [Workers -> 0..MaxChanges] /\ changes \in [Workers -> 0..MaxChanges]
  /\ faults \in 0..MaxFaults

\* runUpdateRestartPreparation: while a worker holds a checkpoint it has everything
\* the worker accepted, and nothing is under way that would add to it.
CheckpointHolds ==
  \A w \in Workers :
    phase[w] \in {"prepared", "publishing"} => checkpoint[w] = changes[w] /\ w \notin running

\* worker_commit_update: sessions are closed for the update only when the persisted
\* manifest has everything their worker accepted.
CommittedIsCaptured ==
  \A w \in Workers : phase[w] \in {"publishing", "closed"} => manifest[w] = changes[w]

\* cancelAcknowledged: a preparation that is rolled back has closed no sessions.
RollbackClosesNothing ==
  sup \in {"idle", "preparing", "cancelling"} =>
    \A w \in Workers : phase[w] \notin {"publishing", "closed"}

\* The stale-worker check: what is persisted is what the worker has accepted,
\* unless its connection is already lost and the supervisor has not heard of it.
FreshStep == sup = "preparing" /\ sup' = "committing" =>
               \A w \in Workers : w \in up => manifest'[w] = changes[w]
FreshUnlessLost == [][FreshStep]_vars

\* The supervisor's deadlines and the worker's: every transaction ends, in the
\* supervisor and in the workers, whoever crashes, disconnects or stays silent, so
\* the daemon always comes back to where nobody is left fenced.
AtRest ==
  /\ sup \in {"idle", "prepared", "dead"}
  /\ \A w \in Workers : phase[w] \in {"none", "closed", "stopped"}
TransactionsSettle == []<>AtRest
=============================================================================
