-------------------------- MODULE CommandDelivery --------------------------
(***************************************************************************)
(* Delivery of mutating commands from one DaemonClient to the supervisor:  *)
(* the client's pending requests and their resend after a reconnect, the   *)
(* handler the supervisor runs for every received line, the durable command *)
(* journal, and supervisor generations that crash and restart while the    *)
(* session workers they forwarded commands to live on.                     *)
(*                                                                         *)
(* The journal is the durable map of CommandRecoveryJournal: its file and  *)
(* the map agree at every append (module CommandJournal).                  *)
(***************************************************************************)
EXTENDS Integers, FiniteSets

CONSTANTS
  Cmd,      \* commands of one protocol client: the idempotency keys
  MaxConn,  \* bound: connections the client opens
  MaxGen    \* bound: supervisor generations

Conn == 1..MaxConn
NoConn == 0

ASSUME DeliveryAssumption ==
  /\ MaxConn \in Nat
  /\ MaxGen \in Nat \ {0}

VARIABLES
  link,        \* client socket: "down", "up" (no hello yet), "ready", "closed"
  conn,        \* number of the connection link is about, NoConn before the first
  req,         \* pendingRequests: "new", "pending", "parked", "settled"
  recoverable, \* those requested with recoverable !== false
  armed,       \* requests whose timeout is running
  outcome,     \* what the caller of request() got
  gen,         \* supervisor generation
  up,          \* that generation's process is running
  hpc,         \* handleLine of a command line, by connection and command
  reply,       \* response written for that line
  ack,         \* the ack_result line, by connection and command
  journal,     \* commandJournal entry: "none", "received", or the stored result
  begun,       \* history: how often the command was dispatched
  forgotten,   \* history: how often its entry was acknowledged away
  executed,    \* history: how often it took effect in a worker
  overlapped   \* history: resent while an older line of it was still handled

client == <<link, conn, req, recoverable, armed, outcome>>
server == <<hpc, reply, ack, journal, begun, forgotten, executed>>
vars   == <<client, server, gen, up, overlapped>>

\* On the wire or suspended in handleLine before commandJournal.begin.
BeforeBegin == {"wire", "arrived", "gated"}
\* Dispatched: in handleCommand, or waiting to record its result.
Dispatched  == {"executing", "okPending", "errPending"}
Live        == BeforeBegin \cup Dispatched

Responses == {"ok", "err", "uncertain"}

TypeOK ==
  /\ link \in {"down", "up", "ready", "closed"}
  /\ conn \in Conn \cup {NoConn}
  /\ req \in [Cmd -> {"new", "pending", "parked", "settled"}]
  /\ recoverable \subseteq Cmd
  /\ armed \subseteq Cmd
  /\ outcome \in [Cmd -> Responses \cup {"none", "timeout", "closed", "refused"}]
  /\ gen \in 1..MaxGen
  /\ up \in BOOLEAN
  /\ hpc \in [Conn -> [Cmd -> Live \cup {"none", "orphan", "done", "dead"}]]
  /\ reply \in [Conn -> [Cmd -> Responses \cup {"none"}]]
  /\ ack \in [Conn -> [Cmd -> {"none", "wire", "arrived", "done"}]]
  /\ journal \in [Cmd -> {"none", "received", "ok", "err"}]
  /\ begun \in [Cmd -> Nat]
  /\ forgotten \in [Cmd -> Nat]
  /\ executed \in [Cmd -> Nat]
  /\ overlapped \subseteq Cmd

Init ==
  /\ link = "down"
  /\ conn = NoConn
  /\ req = [c \in Cmd |-> "new"]
  /\ recoverable \in SUBSET Cmd
  /\ armed = {}
  /\ outcome = [c \in Cmd |-> "none"]
  /\ gen = 1
  /\ up = TRUE
  /\ hpc = [k \in Conn |-> [c \in Cmd |-> "none"]]
  /\ reply = [k \in Conn |-> [c \in Cmd |-> "none"]]
  /\ ack = [k \in Conn |-> [c \in Cmd |-> "none"]]
  /\ journal = [c \in Cmd |-> "none"]
  /\ begun = [c \in Cmd |-> 0]
  /\ forgotten = [c \in Cmd |-> 0]
  /\ executed = [c \in Cmd |-> 0]
  /\ overlapped = {}

---------------------------------------------------------------------------
(* The client.                                                             *)

Connected == link \in {"up", "ready"}

\* connect(): the supervisor accepts a new socket.
Connect ==
  /\ link = "down"
  /\ up
  /\ conn < MaxConn
  /\ conn' = conn + 1
  /\ link' = "up"
  /\ UNCHANGED <<recoverable, req, armed, outcome, server, gen, up, overlapped>>

Parked == {c \in Cmd : req[c] = "parked"}

\* Slip: the timeouts stopped by the disconnect are not armed again.
HelloUnarmed ==
  \E refused \in SUBSET Parked :
    LET resent == Parked \ refused IN
    /\ link = "up"
    /\ up
    /\ link' = "ready"
    /\ req' = [c \in Cmd |-> IF c \in resent THEN "pending"
                             ELSE IF c \in refused THEN "settled" ELSE req[c]]
    /\ outcome' = [c \in Cmd |-> IF c \in refused THEN "refused" ELSE outcome[c]]
    /\ hpc' = [k \in Conn |-> [c \in Cmd |->
                 IF k = conn /\ c \in resent THEN "wire" ELSE hpc[k][c]]]
    /\ overlapped' = overlapped \cup {c \in resent : \E k \in Conn : hpc[k][c] \in Live}
    /\ UNCHANGED <<recoverable, armed, conn, reply, ack, journal, begun, forgotten, executed, gen, up>>

\* The hello arrives: every request parked by the disconnect is written again
\* with the same envelope and its timeout is armed anew, except the requests
\* whose capability the new supervisor lacks, which are rejected.
Hello ==
  \E refused \in SUBSET Parked :
    LET resent == Parked \ refused IN
    /\ link = "up"
    /\ up
    /\ link' = "ready"
    /\ req' = [c \in Cmd |-> IF c \in resent THEN "pending"
                             ELSE IF c \in refused THEN "settled" ELSE req[c]]
    /\ outcome' = [c \in Cmd |-> IF c \in refused THEN "refused" ELSE outcome[c]]
    /\ armed' = armed \cup resent
    /\ hpc' = [k \in Conn |-> [c \in Cmd |->
                 IF k = conn /\ c \in resent THEN "wire" ELSE hpc[k][c]]]
    /\ overlapped' = overlapped \cup {c \in resent : \E k \in Conn : hpc[k][c] \in Live}
    /\ UNCHANGED <<recoverable, conn, reply, ack, journal, begun, forgotten, executed, gen, up>>

\* request(): behind the connection's hello, register the pending request, arm
\* its timeout and write the line.
Request(c) ==
  /\ req[c] = "new"
  /\ link = "ready"
  /\ req' = [req EXCEPT ![c] = "pending"]
  /\ armed' = armed \cup {c}
  /\ hpc' = [hpc EXCEPT ![conn][c] = "wire"]
  /\ UNCHANGED <<recoverable, link, conn, outcome, reply, ack, journal, begun, forgotten, executed,
                 gen, up, overlapped>>

Settle(S, why) ==
  /\ req' = [c \in Cmd |-> IF c \in S THEN "settled" ELSE req[c]]
  /\ outcome' = [c \in Cmd |-> IF c \in S THEN why ELSE outcome[c]]

\* Slip: the client acknowledges a request it gave up on.
TimeoutAcks(c) ==
  /\ c \in armed
  /\ Settle({c}, "timeout")
  /\ armed' = armed \ {c}
  /\ ack' = [ack EXCEPT ![conn][c] = "wire"]
  /\ UNCHANGED <<recoverable, link, conn, hpc, reply, journal, begun, forgotten, executed,
                 gen, up, overlapped>>

\* armPendingRequestTimeout fires: the request is dropped and rejected.
Timeout(c) ==
  /\ c \in armed
  /\ Settle({c}, "timeout")
  /\ armed' = armed \ {c}
  /\ UNCHANGED <<recoverable, link, conn, server, gen, up, overlapped>>

\* A response line arrives on the current connection.  If the request is still
\* pending it settles and an ack_result line follows; otherwise it is ignored.
Deliver(c) ==
  /\ Connected
  /\ reply[conn][c] # "none"
  /\ reply' = [reply EXCEPT ![conn][c] = "none"]
  /\ IF req[c] = "pending"
       THEN /\ Settle({c}, reply[conn][c])
            /\ armed' = armed \ {c}
            /\ ack' = [ack EXCEPT ![conn][c] = "wire"]
       ELSE UNCHANGED <<req, outcome, armed, ack>>
  /\ UNCHANGED <<recoverable, link, conn, hpc, journal, begun, forgotten, executed, gen, up, overlapped>>

InFlight == {c \in Cmd : req[c] \in {"pending", "parked"}}

\* Responses still in a socket the client no longer reads are lost.
DropReplies == reply' = [k \in Conn |-> [c \in Cmd |-> "none"]]

\* The socket closes (the peer died, the transport failed or was reset):
\* rejectAll parks the recoverable requests and stops their timeouts.
Disconnect ==
  /\ Connected
  /\ link' = "down"
  /\ req' = [c \in Cmd |-> IF c \notin InFlight THEN req[c]
                           ELSE IF c \in recoverable THEN "parked" ELSE "settled"]
  /\ outcome' = [c \in Cmd |-> IF c \in InFlight \ recoverable THEN "closed" ELSE outcome[c]]
  /\ armed' = {}
  /\ DropReplies
  /\ UNCHANGED <<recoverable, conn, hpc, ack, journal, begun, forgotten, executed, gen, up, overlapped>>

\* close(), or the reconnect deadline passed: nothing in flight is kept.
CloseClient ==
  /\ link # "closed"
  /\ link' = "closed"
  /\ Settle(InFlight, "closed")
  /\ armed' = {}
  /\ DropReplies
  /\ UNCHANGED <<recoverable, conn, hpc, ack, journal, begun, forgotten, executed, gen, up, overlapped>>

---------------------------------------------------------------------------
(* The supervisor: handleLine for the line of command c on connection k.   *)

\* The steps of a handler run in the generation that read the line; a crash
\* leaves none of them (Crash).
HandlerGoes(k, c, from, to) ==
  /\ up
  /\ hpc[k][c] = from
  /\ hpc' = [hpc EXCEPT ![k][c] = to]

\* write(): a response reaches the client only on its current connection.
Answer(k, c, r) ==
  reply' = IF k = conn /\ Connected THEN [reply EXCEPT ![k][c] = r] ELSE reply

\* The line is read; also when the client has dropped the connection since.
Arrive(k, c) ==
  /\ HandlerGoes(k, c, "wire", "arrived")
  /\ UNCHANGED <<client, reply, ack, journal, begun, forgotten, executed, gen, up, overlapped>>

\* The line was still in the socket when the connection went away.
Lose(k, c) ==
  /\ k < conn \/ ~Connected
  /\ HandlerGoes(k, c, "wire", "dead")
  /\ UNCHANGED <<client, reply, ack, journal, begun, forgotten, executed, gen, up, overlapped>>

\* Slip: a received command is answered as a success.
ReplayOptimistic(c) == IF journal[c] = "received" THEN "ok" ELSE journal[c]

\* What commandJournal.lookup makes the handler answer, and begin likewise.
Replay(c) == IF journal[c] = "received" THEN "uncertain" ELSE journal[c]

\* The first ownership check returned: answer from the journal, or go on to the
\* fence when there is no entry.
Lookup(k, c) ==
  /\ IF journal[c] # "none"
       THEN /\ HandlerGoes(k, c, "arrived", "done")
            /\ Answer(k, c, Replay(c))
       ELSE /\ HandlerGoes(k, c, "arrived", "gated")
            /\ UNCHANGED reply
  /\ UNCHANGED <<client, ack, journal, begun, forgotten, executed, gen, up, overlapped>>

\* An ownership check failed, or the phase rejects the command: a failure that
\* is not journaled.
Reject(k, c) ==
  /\ \/ HandlerGoes(k, c, "arrived", "done")
     \/ HandlerGoes(k, c, "gated", "done")
  /\ Answer(k, c, "err")
  /\ UNCHANGED <<client, ack, journal, begun, forgotten, executed, gen, up, overlapped>>

\* Slip: begin() trusts the lookup made before the fence.
BeginUnchecked(k, c) ==
  /\ HandlerGoes(k, c, "gated", "executing")
  /\ journal' = [journal EXCEPT ![c] = "received"]
  /\ begun' = [begun EXCEPT ![c] = @ + 1]
  /\ UNCHANGED <<client, reply, ack, forgotten, executed, gen, up, overlapped>>

\* commandJournal.begin: answer if an entry has appeared since the lookup, else
\* append the receipt durably and dispatch.
Begin(k, c) ==
  /\ IF journal[c] # "none"
       THEN /\ HandlerGoes(k, c, "gated", "done")
            /\ Answer(k, c, Replay(c))
            /\ UNCHANGED <<journal, begun>>
       ELSE /\ HandlerGoes(k, c, "gated", "executing")
            /\ journal' = [journal EXCEPT ![c] = "received"]
            /\ begun' = [begun EXCEPT ![c] = @ + 1]
            /\ UNCHANGED reply
  /\ UNCHANGED <<client, ack, forgotten, executed, gen, up, overlapped>>

\* handleCommand settles: with an effect and a success, with an effect and an
\* error (the worker's answer was lost), or with an error only.
Execute(k, c) ==
  /\ \/ /\ HandlerGoes(k, c, "executing", "okPending")
        /\ executed' = [executed EXCEPT ![c] = @ + 1]
     \/ /\ HandlerGoes(k, c, "executing", "errPending")
        /\ executed' \in {executed, [executed EXCEPT ![c] = @ + 1]}
  /\ UNCHANGED <<client, reply, ack, journal, begun, forgotten, gen, up, overlapped>>

\* commandJournal.recordResult, after an ownership check.  A check that fails
\* for a reason other than a stale generation turns a success into a recorded
\* failure; a stale one, or a missing entry, leaves the failure unrecorded.
Record(k, c) ==
  \E r \in {"ok", "err"} :
    /\ \/ HandlerGoes(k, c, "okPending", "done")
       \/ HandlerGoes(k, c, "errPending", "done") /\ r = "err"
    /\ \/ journal[c] # "none" /\ journal' = [journal EXCEPT ![c] = r]
       \/ r = "err" /\ UNCHANGED journal
    /\ Answer(k, c, r)
    /\ UNCHANGED <<client, ack, begun, forgotten, executed, gen, up, overlapped>>

\* An ack_result line is read, waits for its ownership check, and is lost with
\* the connection or rejected like any other line.
AckArrives(k, c) ==
  /\ up
  /\ ack[k][c] = "wire"
  /\ ack' = [ack EXCEPT ![k][c] = "arrived"]
  /\ UNCHANGED <<client, hpc, reply, journal, begun, forgotten, executed, gen, up, overlapped>>

AckLost(k, c) ==
  /\ \/ ack[k][c] = "wire" /\ (k < conn \/ ~Connected)
     \/ ack[k][c] = "arrived"
  /\ ack' = [ack EXCEPT ![k][c] = "done"]
  /\ UNCHANGED <<client, hpc, reply, journal, begun, forgotten, executed, gen, up, overlapped>>

\* commandJournal.acknowledge: forget the entry, if there is one.
Acknowledge(k, c) ==
  /\ up
  /\ ack[k][c] = "arrived"
  /\ ack' = [ack EXCEPT ![k][c] = "done"]
  /\ journal' = [journal EXCEPT ![c] = "none"]
  /\ forgotten' = IF journal[c] = "none" THEN forgotten
                  ELSE [forgotten EXCEPT ![c] = @ + 1]
  /\ UNCHANGED <<client, hpc, reply, begun, executed, gen, up, overlapped>>

---------------------------------------------------------------------------
(* Supervisor generations.                                                 *)

AcksGone == [k \in Conn |-> [c \in Cmd |-> IF ack[k][c] = "none" THEN "none" ELSE "done"]]

\* The process ends, by a crash or a shutdown, and its handlers with it.  What
\* it wrote may still be delivered, and a command it had forwarded to a worker
\* may still run there.
Crash ==
  /\ up
  /\ up' = FALSE
  /\ hpc' = [k \in Conn |-> [c \in Cmd |->
               IF hpc[k][c] = "executing" THEN "orphan"
               ELSE IF hpc[k][c] \in Live THEN "dead" ELSE hpc[k][c]]]
  /\ ack' = AcksGone
  /\ UNCHANGED <<client, reply, journal, begun, forgotten, executed, gen, overlapped>>

\* Slip: the next generation does not load the journal.
RestartForgetful ==
  /\ ~up
  /\ gen < MaxGen
  /\ ~Connected
  /\ gen' = gen + 1
  /\ up' = TRUE
  /\ hpc' = [k \in Conn |-> [c \in Cmd |-> IF hpc[k][c] = "wire" THEN "dead" ELSE hpc[k][c]]]
  /\ ack' = AcksGone
  /\ journal' = [c \in Cmd |-> "none"]
  /\ UNCHANGED <<client, reply, begun, forgotten, executed, overlapped>>

\* start(): the next generation loads the journal and serves.  By then the
\* client has seen the close; lines it wrote to the dead process are lost.
Restart ==
  /\ ~up
  /\ gen < MaxGen
  /\ ~Connected
  /\ gen' = gen + 1
  /\ up' = TRUE
  /\ hpc' = [k \in Conn |-> [c \in Cmd |-> IF hpc[k][c] = "wire" THEN "dead" ELSE hpc[k][c]]]
  /\ ack' = AcksGone
  /\ UNCHANGED <<client, reply, journal, begun, forgotten, executed, overlapped>>

\* The worker carries out what a dead generation had forwarded to it.
OrphanRuns(k, c) ==
  /\ hpc[k][c] = "orphan"
  /\ hpc' = [hpc EXCEPT ![k][c] = "dead"]
  /\ executed' = [executed EXCEPT ![c] = @ + 1]
  /\ UNCHANGED <<client, reply, ack, journal, begun, forgotten, gen, up, overlapped>>

---------------------------------------------------------------------------
HandlerStep(k, c) ==
  Arrive(k, c) \/ Lookup(k, c) \/ Reject(k, c) \/ Begin(k, c) \/ Record(k, c)
AckStep(k, c) == AckArrives(k, c) \/ Acknowledge(k, c)

Next ==
  \/ Connect \/ Hello \/ Disconnect \/ CloseClient
  \/ \E c \in Cmd : Request(c) \/ Timeout(c) \/ Deliver(c)
  \/ \E k \in Conn, c \in Cmd :
       HandlerStep(k, c) \/ Execute(k, c) \/ Lose(k, c) \/ AckStep(k, c) \/ AckLost(k, c) \/ OrphanRuns(k, c)
  \/ Crash \/ Restart

Spec == Init /\ [][Next]_vars

(***************************************************************************)
(* Every ready handler and armed timer runs, a closed socket is noticed,   *)
(* and autoReconnect keeps trying until its deadline.  Nothing is assumed  *)
(* of the network, of crashes or restarts, nor of handleCommand: a worker  *)
(* may take as long as it likes.                                           *)
(***************************************************************************)
Fairness ==
  /\ WF_vars(Connect) /\ WF_vars(Hello)
  /\ WF_vars(~up /\ Disconnect)
  /\ WF_vars(link = "down" /\ CloseClient)
  /\ \A c \in Cmd : WF_vars(Timeout(c)) /\ WF_vars(Deliver(c))
  /\ \A k \in Conn, c \in Cmd : WF_vars(HandlerStep(k, c)) /\ WF_vars(AckStep(k, c))

FairSpec == Spec /\ Fairness

---------------------------------------------------------------------------
(* Properties.                                                             *)

\* Two dispatches of a command are separated by an acknowledgement: whatever the
\* handlers' order, begin() finds the entry of an earlier dispatch, in this
\* generation or after a restart, unless an ack_result removed it.
AckSeparatesDispatches ==
  \A c \in Cmd : begun[c] = forgotten[c] + (IF journal[c] = "none" THEN 0 ELSE 1)

\* The supervisor forgets an entry only when the client will never send the
\* command again.
ForgottenIsSettled ==
  \A c \in Cmd : forgotten[c] > 0 => req[c] = "settled" /\ outcome[c] \in Responses

\* A success reaches the caller only for a command that took effect, even if the
\* effect was in another generation or on another connection.
SuccessIsTruthful ==
  \A c \in Cmd : outcome[c] = "ok" => executed[c] > 0

\* command_result_uncertain is only ever said of a command that was dispatched.
UncertainWasDispatched ==
  \A c \in Cmd : outcome[c] = "uncertain" => begun[c] > 0

\* daemon.md, Idempotency and Crash Recovery: "Repeating a completed command returns
\* the stored result."  A command takes effect at most once, whatever crashes, resends
\* and lost answers happen, unless it was resent to the generation that was still
\* handling an older line of it: then the client may acknowledge the answer to the
\* resend, and the older line begins the command anew.
TwiceOnlyIfOverlapped ==
  \A c \in Cmd : executed[c] > 1 => c \in overlapped

\* A request kept across a disconnect settles: it is answered, times out again
\* after its resend, or is rejected when reconnecting is given up.
ParkedSettles == \A c \in Cmd : req[c] = "parked" ~> req[c] = "settled"
============================================================================
