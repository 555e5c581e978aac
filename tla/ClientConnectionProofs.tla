--------------------- MODULE ClientConnectionProofs ---------------------
(***************************************************************************)
(* What a client of the supervisor may rely on, for any numbers of         *)
(* commands, connections, sessions and streams: the safety properties of   *)
(* CommandDelivery (its requests), then of AttachStream (its sessions).    *)
(***************************************************************************)
EXTENDS CommandDelivery, AttachStream, TLAPS

(***************************************************************************)
(* CommandDelivery: the inductive invariant.                               *)
(***************************************************************************)

\* Lines exist only on opened connections; a request the client has not made or
\* still has to resend has none on the current one; timers run for pending
\* requests only; a response stems from a handler that is done.
LinesInv ==
  /\ Connected => conn \in Conn
  /\ \A k \in Conn, c \in Cmd : hpc[k][c] # "none" => k <= conn /\ req[c] # "new"
  /\ \A c \in Cmd : link = "up" /\ req[c] = "parked" => hpc[conn][c] = "none"
  /\ \A c \in Cmd : link = "ready" => req[c] # "parked"
  /\ \A c \in armed : req[c] = "pending"
  /\ \A k \in Conn, c \in Cmd : reply[k][c] # "none" => hpc[k][c] = "done"

\* An outcome that is a response is final, and acknowledgements follow one.
SettledInv ==
  /\ \A c \in Cmd : outcome[c] \in Responses => req[c] = "settled"
  /\ \A k \in Conn, c \in Cmd : ack[k][c] # "none" => outcome[c] \in Responses
  /\ \A c \in Cmd : forgotten[c] > 0 => outcome[c] \in Responses

\* What is stored, written or delivered tells the truth about the worker.
TruthInv ==
  /\ \A k \in Conn, c \in Cmd : hpc[k][c] = "okPending" => executed[c] > 0
  /\ \A c \in Cmd : journal[c] = "ok" => executed[c] > 0
  /\ \A k \in Conn, c \in Cmd : reply[k][c] = "ok" => executed[c] > 0
  /\ \A k \in Conn, c \in Cmd : reply[k][c] = "uncertain" => begun[c] > 0
  /\ SuccessIsTruthful
  /\ UncertainWasDispatched

\* In a worker, or on the way to one.
AtWorker == {"executing", "orphan"}

\* Effects follow dispatches.
EffectInv ==
  /\ \A k \in Conn, c \in Cmd : hpc[k][c] \in AtWorker => begun[c] > 0
  /\ \A c \in Cmd : executed[c] > 0 => begun[c] > 0

\* A command that was never resent over a live line: its one live line is its
\* newest, nothing of it is live once it was answered, and so it is dispatched
\* once and takes effect once.
OnceInv ==
  \A c \in Cmd \ overlapped :
    /\ \A k, j \in Conn : hpc[k][c] \in Live /\ hpc[j][c] # "none" => j <= k
    /\ outcome[c] \in Responses => \A k \in Conn : hpc[k][c] \notin Live
    /\ begun[c] <= 1
    /\ \A k, j \in Conn : hpc[k][c] \in AtWorker /\ hpc[j][c] \in AtWorker => k = j
    /\ \A k \in Conn : hpc[k][c] \in AtWorker => executed[c] = 0
    /\ executed[c] <= 1

IInv == TypeOK /\ LinesInv /\ SettledInv /\ AckSeparatesDispatches
        /\ TruthInv /\ EffectInv /\ OnceInv

---------------------------------------------------------------------------
(* Each step preserves the inductive invariant.                            *)

USE DeliveryAssumption
    DEF Conn, NoConn, Live, BeforeBegin, Dispatched, Responses, AtWorker, Connected

\* Writing a response changes at most the response to that line.
LEMMA AnswerWrites ==
  ASSUME TypeOK, NEW k \in Conn, NEW c \in Cmd, NEW r \in Responses, Answer(k, c, r)
  PROVE  /\ reply' \in [Conn -> [Cmd -> Responses \cup {"none"}]]
         /\ \A j \in Conn, d \in Cmd :
              reply'[j][d] = reply[j][d] \/ (j = k /\ d = c /\ reply'[j][d] = r)
<1>1. CASE k = conn /\ Connected
  BY <1>1 DEF TypeOK, Answer
<1>2. CASE ~(k = conn /\ Connected)
  BY <1>2 DEF TypeOK, Answer
<1>3. QED
  BY <1>1, <1>2

\* A journaled command was dispatched.
LEMMA JournaledWasBegun ==
  ASSUME IInv, NEW c \in Cmd, journal[c] # "none"
  PROVE  begun[c] > 0
  BY DEF IInv, TypeOK, AckSeparatesDispatches

\* A new connection has no line yet.
LEMMA ConnectStep ==
  ASSUME IInv, Connect
  PROVE  IInv'
<1> USE DEF IInv, Connect, client, server
<1>1. TypeOK'
  BY DEF TypeOK
<1>2. LinesInv'
  BY DEF TypeOK, LinesInv
<1>3. SettledInv'
  BY DEF TypeOK, LinesInv, SettledInv
<1>4. AckSeparatesDispatches'
  BY DEF TypeOK, AckSeparatesDispatches
<1>5. TruthInv'
  BY DEF TypeOK, LinesInv, SettledInv, AckSeparatesDispatches, TruthInv,
         SuccessIsTruthful, UncertainWasDispatched
<1>6. EffectInv'
  BY DEF TypeOK, EffectInv
<1>7. OnceInv'
  BY DEF TypeOK, LinesInv, SettledInv, AckSeparatesDispatches, EffectInv, OnceInv
<1>8. QED
  BY <1>1, <1>2, <1>3, <1>4, <1>5, <1>6, <1>7

\* Parked requests are written again.
LEMMA HelloStep ==
  ASSUME IInv, Hello
  PROVE  IInv'
<1> USE DEF IInv, Hello, Parked, client, server
<1>1. TypeOK'
  BY DEF TypeOK
<1>2. LinesInv'
  BY DEF TypeOK, LinesInv
<1>3. SettledInv'
  BY DEF TypeOK, LinesInv, SettledInv
<1>4. AckSeparatesDispatches'
  BY DEF TypeOK, AckSeparatesDispatches
<1>5. TruthInv'
  BY DEF TypeOK, LinesInv, SettledInv, AckSeparatesDispatches, TruthInv,
         SuccessIsTruthful, UncertainWasDispatched
<1>6. EffectInv'
  BY DEF TypeOK, EffectInv
<1>7. OnceInv'
  BY DEF TypeOK, LinesInv, SettledInv, AckSeparatesDispatches, EffectInv, OnceInv
<1>8. QED
  BY <1>1, <1>2, <1>3, <1>4, <1>5, <1>6, <1>7

\* The close parks or rejects what is in flight.
LEMMA DisconnectStep ==
  ASSUME IInv, Disconnect
  PROVE  IInv'
<1> USE DEF IInv, Disconnect, InFlight, DropReplies, client, server
<1>1. TypeOK'
  BY DEF TypeOK
<1>2. LinesInv'
  BY DEF TypeOK, LinesInv
<1>3. SettledInv'
  BY DEF TypeOK, LinesInv, SettledInv
<1>4. AckSeparatesDispatches'
  BY DEF TypeOK, AckSeparatesDispatches
<1>5. TruthInv'
  BY DEF TypeOK, LinesInv, SettledInv, AckSeparatesDispatches, TruthInv,
         SuccessIsTruthful, UncertainWasDispatched
<1>6. EffectInv'
  BY DEF TypeOK, EffectInv
<1>7. OnceInv'
  BY DEF TypeOK, LinesInv, SettledInv, AckSeparatesDispatches, EffectInv, OnceInv
<1>8. QED
  BY <1>1, <1>2, <1>3, <1>4, <1>5, <1>6, <1>7

\* Giving up rejects what is in flight.
LEMMA CloseClientStep ==
  ASSUME IInv, CloseClient
  PROVE  IInv'
<1> USE DEF IInv, CloseClient, InFlight, DropReplies, Settle, client, server
<1>1. TypeOK'
  BY DEF TypeOK
<1>2. LinesInv'
  BY DEF TypeOK, LinesInv
<1>3. SettledInv'
  BY DEF TypeOK, LinesInv, SettledInv
<1>4. AckSeparatesDispatches'
  BY DEF TypeOK, AckSeparatesDispatches
<1>5. TruthInv'
  BY DEF TypeOK, LinesInv, SettledInv, AckSeparatesDispatches, TruthInv,
         SuccessIsTruthful, UncertainWasDispatched
<1>6. EffectInv'
  BY DEF TypeOK, EffectInv
<1>7. OnceInv'
  BY DEF TypeOK, LinesInv, SettledInv, AckSeparatesDispatches, EffectInv, OnceInv
<1>8. QED
  BY <1>1, <1>2, <1>3, <1>4, <1>5, <1>6, <1>7

\* The first line of a command.
LEMMA RequestStep ==
  ASSUME IInv, NEW c \in Cmd, Request(c)
  PROVE  IInv'
<1> USE DEF IInv, Request, client, server
<1>1. TypeOK'
  BY DEF TypeOK
<1>2. LinesInv'
  BY DEF TypeOK, LinesInv
<1>3. SettledInv'
  BY DEF TypeOK, LinesInv, SettledInv
<1>4. AckSeparatesDispatches'
  BY DEF TypeOK, AckSeparatesDispatches
<1>5. TruthInv'
  BY DEF TypeOK, LinesInv, SettledInv, AckSeparatesDispatches, TruthInv,
         SuccessIsTruthful, UncertainWasDispatched
<1>6. EffectInv'
  BY DEF TypeOK, EffectInv
<1>7. OnceInv'
  BY DEF TypeOK, LinesInv, SettledInv, AckSeparatesDispatches, EffectInv, OnceInv
<1>8. QED
  BY <1>1, <1>2, <1>3, <1>4, <1>5, <1>6, <1>7

\* The caller gives up on a pending request.
LEMMA TimeoutStep ==
  ASSUME IInv, NEW c \in Cmd, Timeout(c)
  PROVE  IInv'
<1> USE DEF IInv, Timeout, Settle, client, server
<1>1. TypeOK'
  BY DEF TypeOK
<1>2. LinesInv'
  BY DEF TypeOK, LinesInv
<1>3. SettledInv'
  BY DEF TypeOK, LinesInv, SettledInv
<1>4. AckSeparatesDispatches'
  BY DEF TypeOK, AckSeparatesDispatches
<1>5. TruthInv'
  BY DEF TypeOK, LinesInv, SettledInv, AckSeparatesDispatches, TruthInv,
         SuccessIsTruthful, UncertainWasDispatched
<1>6. EffectInv'
  BY DEF TypeOK, EffectInv
<1>7. OnceInv'
  BY DEF TypeOK, LinesInv, SettledInv, AckSeparatesDispatches, EffectInv, OnceInv
<1>8. QED
  BY <1>1, <1>2, <1>3, <1>4, <1>5, <1>6, <1>7

\* A response settles its request and is acknowledged.
LEMMA DeliverStep ==
  ASSUME IInv, NEW c \in Cmd, Deliver(c)
  PROVE  IInv'
<1> USE DEF IInv, client, server
<1>1. CASE req[c] = "pending"
  <2>1. conn \in Conn /\ reply[conn][c] \in Responses
    BY <1>1 DEF Deliver, TypeOK, LinesInv
  <2>2. reply' = [reply EXCEPT ![conn][c] = "none"]
    BY <1>1 DEF Deliver
  <2>3. /\ req' = [req EXCEPT ![c] = "settled"]
        /\ outcome' = [outcome EXCEPT ![c] = reply[conn][c]]
        /\ armed' = armed \ {c}
        /\ ack' = [ack EXCEPT ![conn][c] = "wire"]
    BY <1>1 DEF Deliver, Settle, TypeOK
  <2>4. UNCHANGED <<recoverable, link, conn, hpc, journal, begun, forgotten, executed,
                    gen, up, overlapped>>
    BY <1>1 DEF Deliver
  <2>5. TypeOK'
    BY <1>1, <2>1, <2>2, <2>3, <2>4 DEF TypeOK
  <2>6. LinesInv'
    BY <1>1, <2>1, <2>2, <2>3, <2>4 DEF TypeOK, LinesInv
  <2>7. SettledInv'
    BY <1>1, <2>1, <2>2, <2>3, <2>4 DEF TypeOK, LinesInv, SettledInv
  <2>8. AckSeparatesDispatches'
    BY <1>1, <2>1, <2>2, <2>3, <2>4 DEF TypeOK, AckSeparatesDispatches
  <2>9. TruthInv'
    BY <1>1, <2>1, <2>2, <2>3, <2>4 DEF TypeOK, LinesInv, SettledInv,
       AckSeparatesDispatches, TruthInv,
           SuccessIsTruthful, UncertainWasDispatched
  <2>10. EffectInv'
    BY <1>1, <2>1, <2>2, <2>3, <2>4 DEF TypeOK, EffectInv
  <2>11. OnceInv'
    <3> SUFFICES ASSUME NEW d \in Cmd \ overlapped
                 PROVE  outcome'[d] \in Responses => \A j \in Conn : hpc[j][d] \notin Live
      BY <1>1, <2>1, <2>2, <2>3, <2>4 DEF OnceInv
    <3>1. CASE d = c
      <4>1. hpc[conn][c] = "done"
        BY <1>1, <2>1, <2>2, <2>3, <2>4 DEF TypeOK, LinesInv
      <4>2. \A j \in Conn : hpc[j][c] \in Live => conn <= j
        BY <3>1, <4>1, <1>1, <2>1, <2>2, <2>3, <2>4 DEF TypeOK, OnceInv
      <4>3. \A j \in Conn : hpc[j][c] # "none" => j <= conn
        BY DEF LinesInv
      <4>4. \A j \in Conn : hpc[j][c] \in Live => j = conn
        BY <4>2, <4>3, <1>1, <2>1, <2>2, <2>3, <2>4
      <4>5. QED
        BY <3>1, <4>1, <4>4
    <3>2. CASE d # c
      BY <3>2, <1>1, <2>1, <2>2, <2>3, <2>4 DEF TypeOK, OnceInv
    <3>3. QED
      BY <3>1, <3>2
  <2>12. QED
    BY <2>5, <2>6, <2>7, <2>8, <2>9, <2>10, <2>11
<1>2. CASE req[c] # "pending"
  <2>1. conn \in Conn
    BY <1>2 DEF Deliver, TypeOK, LinesInv
  <2>2. reply' = [reply EXCEPT ![conn][c] = "none"]
    BY <1>2 DEF Deliver
  <2>3. UNCHANGED <<req, outcome, armed, ack, recoverable, link, conn, hpc, journal,
                    begun, forgotten, executed, gen, up, overlapped>>
    BY <1>2 DEF Deliver
  <2>4. TypeOK'
    BY <1>2, <2>1, <2>2, <2>3 DEF TypeOK
  <2>5. LinesInv'
    BY <1>2, <2>1, <2>2, <2>3 DEF TypeOK, LinesInv
  <2>6. SettledInv'
    BY <1>2, <2>1, <2>2, <2>3 DEF TypeOK, LinesInv, SettledInv
  <2>7. AckSeparatesDispatches'
    BY <1>2, <2>1, <2>2, <2>3 DEF TypeOK, AckSeparatesDispatches
  <2>8. TruthInv'
    BY <1>2, <2>1, <2>2, <2>3 DEF TypeOK, LinesInv, SettledInv, AckSeparatesDispatches,
       TruthInv,
           SuccessIsTruthful, UncertainWasDispatched
  <2>9. EffectInv'
    BY <1>2, <2>1, <2>2, <2>3 DEF TypeOK, EffectInv
  <2>10. OnceInv'
    BY <1>2, <2>1, <2>2, <2>3 DEF TypeOK, LinesInv, SettledInv, AckSeparatesDispatches,
       EffectInv, OnceInv
  <2>11. QED
    BY <2>4, <2>5, <2>6, <2>7, <2>8, <2>9, <2>10
<1>3. QED
  BY <1>1, <1>2

\* A line is read.
LEMMA ArriveStep ==
  ASSUME IInv, NEW k \in Conn, NEW c \in Cmd, Arrive(k, c)
  PROVE  IInv'
<1> USE DEF IInv, Arrive, HandlerGoes, client, server
<1>1. TypeOK'
  BY DEF TypeOK
<1>2. LinesInv'
  BY DEF TypeOK, LinesInv
<1>3. SettledInv'
  BY DEF TypeOK, LinesInv, SettledInv
<1>4. AckSeparatesDispatches'
  BY DEF TypeOK, AckSeparatesDispatches
<1>5. TruthInv'
  BY DEF TypeOK, LinesInv, SettledInv, AckSeparatesDispatches, TruthInv,
         SuccessIsTruthful, UncertainWasDispatched
<1>6. EffectInv'
  BY DEF TypeOK, EffectInv
<1>7. OnceInv'
  BY DEF TypeOK, LinesInv, SettledInv, AckSeparatesDispatches, EffectInv, OnceInv
<1>8. QED
  BY <1>1, <1>2, <1>3, <1>4, <1>5, <1>6, <1>7

\* A line is lost.
LEMMA LoseStep ==
  ASSUME IInv, NEW k \in Conn, NEW c \in Cmd, Lose(k, c)
  PROVE  IInv'
<1> USE DEF IInv, Lose, HandlerGoes, client, server
<1>1. TypeOK'
  BY DEF TypeOK
<1>2. LinesInv'
  BY DEF TypeOK, LinesInv
<1>3. SettledInv'
  BY DEF TypeOK, LinesInv, SettledInv
<1>4. AckSeparatesDispatches'
  BY DEF TypeOK, AckSeparatesDispatches
<1>5. TruthInv'
  BY DEF TypeOK, LinesInv, SettledInv, AckSeparatesDispatches, TruthInv,
         SuccessIsTruthful, UncertainWasDispatched
<1>6. EffectInv'
  BY DEF TypeOK, EffectInv
<1>7. OnceInv'
  BY DEF TypeOK, LinesInv, SettledInv, AckSeparatesDispatches, EffectInv, OnceInv
<1>8. QED
  BY <1>1, <1>2, <1>3, <1>4, <1>5, <1>6, <1>7

\* The journal answers, or the handler goes on.
LEMMA LookupStep ==
  ASSUME IInv, NEW k \in Conn, NEW c \in Cmd, Lookup(k, c)
  PROVE  IInv'
<1> USE DEF IInv, client, server
<1>1. CASE journal[c] # "none"
  <2>1. hpc[k][c] = "arrived" /\ hpc' = [hpc EXCEPT ![k][c] = "done"]
    BY <1>1 DEF HandlerGoes, Lookup
  <2>2. Replay(c) \in Responses
    BY <1>1 DEF TypeOK, Replay
  <2>3. /\ Replay(c) = "ok" => executed[c] > 0
        /\ Replay(c) = "uncertain" => begun[c] > 0
    BY <1>1, JournaledWasBegun DEF TypeOK, TruthInv, Replay
  <2>4. /\ reply' \in [Conn -> [Cmd -> Responses \cup {"none"}]]
        /\ \A j \in Conn, d \in Cmd :
             reply'[j][d] = reply[j][d] \/ (j = k /\ d = c /\ reply'[j][d] = Replay(c))
    BY <1>1, <2>2, AnswerWrites DEF Lookup
  <2>5. UNCHANGED <<link, conn, req, recoverable, armed, outcome, ack, journal, begun,
                    forgotten, executed, gen, up, overlapped>>
    BY <1>1 DEF Lookup
  <2>6. TypeOK'
    BY <1>1, <2>1, <2>2, <2>3, <2>4, <2>5 DEF TypeOK
  <2>7. LinesInv'
    BY <1>1, <2>1, <2>2, <2>3, <2>4, <2>5 DEF TypeOK, LinesInv
  <2>8. SettledInv'
    BY <1>1, <2>1, <2>2, <2>3, <2>4, <2>5 DEF TypeOK, LinesInv, SettledInv
  <2>9. AckSeparatesDispatches'
    BY <1>1, <2>1, <2>2, <2>3, <2>4, <2>5 DEF TypeOK, AckSeparatesDispatches
  <2>10. TruthInv'
    <3>1. \A j \in Conn, d \in Cmd : hpc'[j][d] = "okPending" => executed'[d] > 0
      BY <1>1, <2>1, <2>2, <2>3, <2>4, <2>5 DEF TypeOK, TruthInv
    <3>2. \A d \in Cmd : journal'[d] = "ok" => executed'[d] > 0
      BY <1>1, <2>1, <2>2, <2>3, <2>4, <2>5 DEF TypeOK, TruthInv
    <3>3. ASSUME NEW j \in Conn, NEW d \in Cmd
          PROVE  /\ reply'[j][d] = "ok" => executed'[d] > 0
                 /\ reply'[j][d] = "uncertain" => begun'[d] > 0
      <4>1. CASE reply'[j][d] = reply[j][d]
        BY <4>1, <1>1, <2>1, <2>2, <2>3, <2>4, <2>5 DEF TypeOK, TruthInv
      <4>2. CASE reply'[j][d] # reply[j][d]
        <5>1. d = c /\ reply'[j][d] = Replay(c)
          BY <4>2, <1>1, <2>1, <2>2, <2>3, <2>4, <2>5
        <5>2. executed' = executed /\ begun' = begun
          BY <1>1, <2>1, <2>2, <2>3, <2>4, <2>5
        <5>3. QED
          BY <5>1, <5>2, <2>3
      <4>3. QED
        BY <4>1, <4>2
    <3>4. SuccessIsTruthful' /\ UncertainWasDispatched'
      BY <1>1, <2>1, <2>2, <2>3, <2>4, <2>5 DEF TypeOK, TruthInv, SuccessIsTruthful,
         UncertainWasDispatched
    <3>5. QED
      BY <3>1, <3>2, <3>3, <3>4 DEF TruthInv
  <2>11. EffectInv'
    BY <1>1, <2>1, <2>2, <2>3, <2>4, <2>5 DEF TypeOK, EffectInv
  <2>12. OnceInv'
    BY <1>1, <2>1, <2>2, <2>3, <2>4, <2>5 DEF TypeOK, LinesInv, SettledInv,
       AckSeparatesDispatches, EffectInv, OnceInv
  <2>13. QED
    BY <2>6, <2>7, <2>8, <2>9, <2>10, <2>11, <2>12
<1>2. CASE journal[c] = "none"
  <2>1. hpc[k][c] = "arrived" /\ hpc' = [hpc EXCEPT ![k][c] = "gated"]
    BY <1>2 DEF HandlerGoes, Lookup
  <2>2. UNCHANGED <<reply, link, conn, req, recoverable, armed, outcome, ack, journal,
                    begun, forgotten, executed, gen, up, overlapped>>
    BY <1>2 DEF Lookup
  <2>3. TypeOK'
    BY <1>2, <2>1, <2>2 DEF TypeOK
  <2>4. LinesInv'
    BY <1>2, <2>1, <2>2 DEF TypeOK, LinesInv
  <2>5. SettledInv'
    BY <1>2, <2>1, <2>2 DEF TypeOK, LinesInv, SettledInv
  <2>6. AckSeparatesDispatches'
    BY <1>2, <2>1, <2>2 DEF TypeOK, AckSeparatesDispatches
  <2>7. TruthInv'
    <3>1. \A j \in Conn, d \in Cmd : hpc'[j][d] = "okPending" => executed'[d] > 0
      BY <1>2, <2>1, <2>2 DEF TypeOK, TruthInv
    <3>2. \A d \in Cmd : journal'[d] = "ok" => executed'[d] > 0
      BY <1>2, <2>1, <2>2 DEF TypeOK, TruthInv
    <3>3. ASSUME NEW j \in Conn, NEW d \in Cmd
          PROVE  /\ reply'[j][d] = "ok" => executed'[d] > 0
                 /\ reply'[j][d] = "uncertain" => begun'[d] > 0
      BY <1>2, <2>1, <2>2 DEF TypeOK, TruthInv
    <3>4. SuccessIsTruthful' /\ UncertainWasDispatched'
      BY <1>2, <2>1, <2>2 DEF TypeOK, TruthInv, SuccessIsTruthful, UncertainWasDispatched
    <3>5. QED
      BY <3>1, <3>2, <3>3, <3>4 DEF TruthInv
  <2>8. EffectInv'
    BY <1>2, <2>1, <2>2 DEF TypeOK, EffectInv
  <2>9. OnceInv'
    BY <1>2, <2>1, <2>2 DEF TypeOK, LinesInv, SettledInv, AckSeparatesDispatches,
       EffectInv, OnceInv
  <2>10. QED
    BY <2>3, <2>4, <2>5, <2>6, <2>7, <2>8, <2>9
<1>3. QED
  BY <1>1, <1>2

\* A failure that is not journaled.
LEMMA RejectStep ==
  ASSUME IInv, NEW k \in Conn, NEW c \in Cmd, Reject(k, c)
  PROVE  IInv'
<1> USE DEF IInv, client, server
<1>1. CASE HandlerGoes(k, c, "arrived", "done")
  <2>1. hpc[k][c] = "arrived" /\ hpc' = [hpc EXCEPT ![k][c] = "done"]
    BY <1>1 DEF HandlerGoes
  <2>2. /\ reply' \in [Conn -> [Cmd -> Responses \cup {"none"}]]
        /\ \A j \in Conn, d \in Cmd :
             reply'[j][d] = reply[j][d] \/ (j = k /\ d = c /\ reply'[j][d] = "err")
    BY <1>1, AnswerWrites DEF Reject
  <2>3. UNCHANGED <<link, conn, req, recoverable, armed, outcome, ack, journal, begun,
                    forgotten, executed, gen, up, overlapped>>
    BY <1>1 DEF Reject
  <2>4. TypeOK'
    BY <1>1, <2>1, <2>2, <2>3 DEF TypeOK
  <2>5. LinesInv'
    BY <1>1, <2>1, <2>2, <2>3 DEF TypeOK, LinesInv
  <2>6. SettledInv'
    BY <1>1, <2>1, <2>2, <2>3 DEF TypeOK, LinesInv, SettledInv
  <2>7. AckSeparatesDispatches'
    BY <1>1, <2>1, <2>2, <2>3 DEF TypeOK, AckSeparatesDispatches
  <2>8. TruthInv'
    <3>1. \A j \in Conn, d \in Cmd : hpc'[j][d] = "okPending" => executed'[d] > 0
      BY <1>1, <2>1, <2>2, <2>3 DEF TypeOK, TruthInv
    <3>2. \A d \in Cmd : journal'[d] = "ok" => executed'[d] > 0
      BY <1>1, <2>1, <2>2, <2>3 DEF TypeOK, TruthInv
    <3>3. ASSUME NEW j \in Conn, NEW d \in Cmd
          PROVE  /\ reply'[j][d] = "ok" => executed'[d] > 0
                 /\ reply'[j][d] = "uncertain" => begun'[d] > 0
      <4>1. CASE reply'[j][d] = reply[j][d]
        BY <4>1, <1>1, <2>1, <2>2, <2>3 DEF TypeOK, TruthInv
      <4>2. CASE reply'[j][d] # reply[j][d]
        <5>1. d = c /\ reply'[j][d] = "err"
          BY <4>2, <1>1, <2>1, <2>2, <2>3
        <5>2. executed' = executed /\ begun' = begun
          BY <1>1, <2>1, <2>2, <2>3
        <5>3. QED
          BY <5>1, <5>2, <1>1, <2>1, <2>2, <2>3 DEF TypeOK, TruthInv
      <4>3. QED
        BY <4>1, <4>2
    <3>4. SuccessIsTruthful' /\ UncertainWasDispatched'
      BY <1>1, <2>1, <2>2, <2>3 DEF TypeOK, TruthInv, SuccessIsTruthful,
         UncertainWasDispatched
    <3>5. QED
      BY <3>1, <3>2, <3>3, <3>4 DEF TruthInv
  <2>9. EffectInv'
    BY <1>1, <2>1, <2>2, <2>3 DEF TypeOK, EffectInv
  <2>10. OnceInv'
    BY <1>1, <2>1, <2>2, <2>3 DEF TypeOK, LinesInv, SettledInv, AckSeparatesDispatches,
       EffectInv, OnceInv
  <2>11. QED
    BY <2>4, <2>5, <2>6, <2>7, <2>8, <2>9, <2>10
<1>2. CASE HandlerGoes(k, c, "gated", "done")
  <2>1. hpc[k][c] = "gated" /\ hpc' = [hpc EXCEPT ![k][c] = "done"]
    BY <1>2 DEF HandlerGoes
  <2>2. /\ reply' \in [Conn -> [Cmd -> Responses \cup {"none"}]]
        /\ \A j \in Conn, d \in Cmd :
             reply'[j][d] = reply[j][d] \/ (j = k /\ d = c /\ reply'[j][d] = "err")
    BY <1>2, AnswerWrites DEF Reject
  <2>3. UNCHANGED <<link, conn, req, recoverable, armed, outcome, ack, journal, begun,
                    forgotten, executed, gen, up, overlapped>>
    BY <1>2 DEF Reject
  <2>4. TypeOK'
    BY <1>2, <2>1, <2>2, <2>3 DEF TypeOK
  <2>5. LinesInv'
    BY <1>2, <2>1, <2>2, <2>3 DEF TypeOK, LinesInv
  <2>6. SettledInv'
    BY <1>2, <2>1, <2>2, <2>3 DEF TypeOK, LinesInv, SettledInv
  <2>7. AckSeparatesDispatches'
    BY <1>2, <2>1, <2>2, <2>3 DEF TypeOK, AckSeparatesDispatches
  <2>8. TruthInv'
    <3>1. \A j \in Conn, d \in Cmd : hpc'[j][d] = "okPending" => executed'[d] > 0
      BY <1>2, <2>1, <2>2, <2>3 DEF TypeOK, TruthInv
    <3>2. \A d \in Cmd : journal'[d] = "ok" => executed'[d] > 0
      BY <1>2, <2>1, <2>2, <2>3 DEF TypeOK, TruthInv
    <3>3. ASSUME NEW j \in Conn, NEW d \in Cmd
          PROVE  /\ reply'[j][d] = "ok" => executed'[d] > 0
                 /\ reply'[j][d] = "uncertain" => begun'[d] > 0
      <4>1. CASE reply'[j][d] = reply[j][d]
        BY <4>1, <1>2, <2>1, <2>2, <2>3 DEF TypeOK, TruthInv
      <4>2. CASE reply'[j][d] # reply[j][d]
        <5>1. d = c /\ reply'[j][d] = "err"
          BY <4>2, <1>2, <2>1, <2>2, <2>3
        <5>2. executed' = executed /\ begun' = begun
          BY <1>2, <2>1, <2>2, <2>3
        <5>3. QED
          BY <5>1, <5>2, <1>2, <2>1, <2>2, <2>3 DEF TypeOK, TruthInv
      <4>3. QED
        BY <4>1, <4>2
    <3>4. SuccessIsTruthful' /\ UncertainWasDispatched'
      BY <1>2, <2>1, <2>2, <2>3 DEF TypeOK, TruthInv, SuccessIsTruthful,
         UncertainWasDispatched
    <3>5. QED
      BY <3>1, <3>2, <3>3, <3>4 DEF TruthInv
  <2>9. EffectInv'
    BY <1>2, <2>1, <2>2, <2>3 DEF TypeOK, EffectInv
  <2>10. OnceInv'
    BY <1>2, <2>1, <2>2, <2>3 DEF TypeOK, LinesInv, SettledInv, AckSeparatesDispatches,
       EffectInv, OnceInv
  <2>11. QED
    BY <2>4, <2>5, <2>6, <2>7, <2>8, <2>9, <2>10
<1>3. QED
  BY <1>1, <1>2 DEF Reject

\* The dispatch, the one step that can start a second effect.
LEMMA BeginStep ==
  ASSUME IInv, NEW k \in Conn, NEW c \in Cmd, Begin(k, c)
  PROVE  IInv'
<1> USE DEF IInv, client, server
<1>1. CASE journal[c] # "none"
  <2>1. hpc[k][c] = "gated" /\ hpc' = [hpc EXCEPT ![k][c] = "done"]
    BY <1>1 DEF HandlerGoes, Begin
  <2>2. Replay(c) \in Responses
    BY <1>1 DEF TypeOK, Replay
  <2>3. /\ Replay(c) = "ok" => executed[c] > 0
        /\ Replay(c) = "uncertain" => begun[c] > 0
    BY <1>1, JournaledWasBegun DEF TypeOK, TruthInv, Replay
  <2>4. /\ reply' \in [Conn -> [Cmd -> Responses \cup {"none"}]]
        /\ \A j \in Conn, d \in Cmd :
             reply'[j][d] = reply[j][d] \/ (j = k /\ d = c /\ reply'[j][d] = Replay(c))
    BY <1>1, <2>2, AnswerWrites DEF Begin
  <2>5. UNCHANGED <<link, conn, req, recoverable, armed, outcome, ack, journal, begun,
                    forgotten, executed, gen, up, overlapped>>
    BY <1>1 DEF Begin
  <2>6. TypeOK'
    BY <1>1, <2>1, <2>2, <2>3, <2>4, <2>5 DEF TypeOK
  <2>7. LinesInv'
    BY <1>1, <2>1, <2>2, <2>3, <2>4, <2>5 DEF TypeOK, LinesInv
  <2>8. SettledInv'
    BY <1>1, <2>1, <2>2, <2>3, <2>4, <2>5 DEF TypeOK, LinesInv, SettledInv
  <2>9. AckSeparatesDispatches'
    BY <1>1, <2>1, <2>2, <2>3, <2>4, <2>5 DEF TypeOK, AckSeparatesDispatches
  <2>10. TruthInv'
    <3>1. \A j \in Conn, d \in Cmd : hpc'[j][d] = "okPending" => executed'[d] > 0
      BY <1>1, <2>1, <2>2, <2>3, <2>4, <2>5 DEF TypeOK, TruthInv
    <3>2. \A d \in Cmd : journal'[d] = "ok" => executed'[d] > 0
      BY <1>1, <2>1, <2>2, <2>3, <2>4, <2>5 DEF TypeOK, TruthInv
    <3>3. ASSUME NEW j \in Conn, NEW d \in Cmd
          PROVE  /\ reply'[j][d] = "ok" => executed'[d] > 0
                 /\ reply'[j][d] = "uncertain" => begun'[d] > 0
      <4>1. CASE reply'[j][d] = reply[j][d]
        BY <4>1, <1>1, <2>1, <2>2, <2>3, <2>4, <2>5 DEF TypeOK, TruthInv
      <4>2. CASE reply'[j][d] # reply[j][d]
        <5>1. d = c /\ reply'[j][d] = Replay(c)
          BY <4>2, <1>1, <2>1, <2>2, <2>3, <2>4, <2>5
        <5>2. executed' = executed /\ begun' = begun
          BY <1>1, <2>1, <2>2, <2>3, <2>4, <2>5
        <5>3. QED
          BY <5>1, <5>2, <2>3
      <4>3. QED
        BY <4>1, <4>2
    <3>4. SuccessIsTruthful' /\ UncertainWasDispatched'
      BY <1>1, <2>1, <2>2, <2>3, <2>4, <2>5 DEF TypeOK, TruthInv, SuccessIsTruthful,
         UncertainWasDispatched
    <3>5. QED
      BY <3>1, <3>2, <3>3, <3>4 DEF TruthInv
  <2>11. EffectInv'
    BY <1>1, <2>1, <2>2, <2>3, <2>4, <2>5 DEF TypeOK, EffectInv
  <2>12. OnceInv'
    BY <1>1, <2>1, <2>2, <2>3, <2>4, <2>5 DEF TypeOK, LinesInv, SettledInv,
       AckSeparatesDispatches, EffectInv, OnceInv
  <2>13. QED
    BY <2>6, <2>7, <2>8, <2>9, <2>10, <2>11, <2>12
<1>2. CASE journal[c] = "none"
  <2>1. hpc[k][c] = "gated" /\ hpc' = [hpc EXCEPT ![k][c] = "executing"]
    BY <1>2 DEF HandlerGoes, Begin
  <2>2. journal' = [journal EXCEPT ![c] = "received"]
    BY <1>2 DEF Begin
  <2>3. begun' = [begun EXCEPT ![c] = @ + 1]
    BY <1>2 DEF Begin
  <2>4. UNCHANGED <<reply, link, conn, req, recoverable, armed, outcome, ack, forgotten,
                    executed, gen, up, overlapped>>
    BY <1>2 DEF Begin
  <2>5. TypeOK'
    BY <1>2, <2>1, <2>2, <2>3, <2>4 DEF TypeOK
  <2>6. LinesInv'
    BY <1>2, <2>1, <2>2, <2>3, <2>4 DEF TypeOK, LinesInv
  <2>7. SettledInv'
    BY <1>2, <2>1, <2>2, <2>3, <2>4 DEF TypeOK, LinesInv, SettledInv
  <2>8. AckSeparatesDispatches'
    BY <1>2, <2>1, <2>2, <2>3, <2>4 DEF TypeOK, AckSeparatesDispatches
  <2>9. TruthInv'
    <3>1. \A j \in Conn, d \in Cmd : hpc'[j][d] = "okPending" => executed'[d] > 0
      BY <1>2, <2>1, <2>2, <2>3, <2>4 DEF TypeOK, TruthInv
    <3>2. \A d \in Cmd : journal'[d] = "ok" => executed'[d] > 0
      BY <1>2, <2>1, <2>2, <2>3, <2>4 DEF TypeOK, TruthInv
    <3>3. ASSUME NEW j \in Conn, NEW d \in Cmd
          PROVE  /\ reply'[j][d] = "ok" => executed'[d] > 0
                 /\ reply'[j][d] = "uncertain" => begun'[d] > 0
      BY <1>2, <2>1, <2>2, <2>3, <2>4 DEF TypeOK, TruthInv
    <3>4. SuccessIsTruthful' /\ UncertainWasDispatched'
      BY <1>2, <2>1, <2>2, <2>3, <2>4 DEF TypeOK, TruthInv, SuccessIsTruthful,
         UncertainWasDispatched
    <3>5. QED
      BY <3>1, <3>2, <3>3, <3>4 DEF TruthInv
  <2>10. EffectInv'
    BY <1>2, <2>1, <2>2, <2>3, <2>4 DEF TypeOK, EffectInv
  <2>11. OnceInv'
    BY <1>2, <2>1, <2>2, <2>3, <2>4 DEF TypeOK, LinesInv, SettledInv,
       AckSeparatesDispatches, EffectInv, OnceInv
  <2>12. QED
    BY <2>5, <2>6, <2>7, <2>8, <2>9, <2>10, <2>11
<1>3. QED
  BY <1>1, <1>2

\* The worker's effect and answer.
LEMMA ExecuteStep ==
  ASSUME IInv, NEW k \in Conn, NEW c \in Cmd, Execute(k, c)
  PROVE  IInv'
<1> USE DEF IInv, client, server
<1>1. CASE HandlerGoes(k, c, "executing", "okPending")
          /\ executed' = [executed EXCEPT ![c] = @ + 1]
  <2>1. hpc[k][c] = "executing" /\ hpc' = [hpc EXCEPT ![k][c] = "okPending"]
    BY <1>1 DEF HandlerGoes
  <2>2. UNCHANGED <<link, conn, req, recoverable, armed, outcome, reply, ack, journal,
                    begun, forgotten, gen, up, overlapped>>
    BY <1>1 DEF Execute
  <2>3. TypeOK'
    BY <1>1, <2>1, <2>2 DEF TypeOK
  <2>4. LinesInv'
    BY <1>1, <2>1, <2>2 DEF TypeOK, LinesInv
  <2>5. SettledInv'
    BY <1>1, <2>1, <2>2 DEF TypeOK, LinesInv, SettledInv
  <2>6. AckSeparatesDispatches'
    BY <1>1, <2>1, <2>2 DEF TypeOK, AckSeparatesDispatches
  <2>7. TruthInv'
    BY <1>1, <2>1, <2>2 DEF TypeOK, LinesInv, SettledInv, AckSeparatesDispatches,
       TruthInv,
           SuccessIsTruthful, UncertainWasDispatched
  <2>8. EffectInv'
    BY <1>1, <2>1, <2>2 DEF TypeOK, EffectInv
  <2>9. OnceInv'
    BY <1>1, <2>1, <2>2 DEF TypeOK, LinesInv, SettledInv, AckSeparatesDispatches,
       EffectInv, OnceInv
  <2>10. QED
    BY <2>3, <2>4, <2>5, <2>6, <2>7, <2>8, <2>9
<1>2. CASE HandlerGoes(k, c, "executing", "errPending") /\ executed' = executed
  <2>1. hpc[k][c] = "executing" /\ hpc' = [hpc EXCEPT ![k][c] = "errPending"]
    BY <1>2 DEF HandlerGoes
  <2>2. UNCHANGED <<link, conn, req, recoverable, armed, outcome, reply, ack, journal,
                    begun, forgotten, gen, up, overlapped>>
    BY <1>2 DEF Execute
  <2>3. TypeOK'
    BY <1>2, <2>1, <2>2 DEF TypeOK
  <2>4. LinesInv'
    BY <1>2, <2>1, <2>2 DEF TypeOK, LinesInv
  <2>5. SettledInv'
    BY <1>2, <2>1, <2>2 DEF TypeOK, LinesInv, SettledInv
  <2>6. AckSeparatesDispatches'
    BY <1>2, <2>1, <2>2 DEF TypeOK, AckSeparatesDispatches
  <2>7. TruthInv'
    BY <1>2, <2>1, <2>2 DEF TypeOK, LinesInv, SettledInv, AckSeparatesDispatches,
       TruthInv,
           SuccessIsTruthful, UncertainWasDispatched
  <2>8. EffectInv'
    BY <1>2, <2>1, <2>2 DEF TypeOK, EffectInv
  <2>9. OnceInv'
    BY <1>2, <2>1, <2>2 DEF TypeOK, LinesInv, SettledInv, AckSeparatesDispatches,
       EffectInv, OnceInv
  <2>10. QED
    BY <2>3, <2>4, <2>5, <2>6, <2>7, <2>8, <2>9
<1>3. CASE HandlerGoes(k, c, "executing", "errPending")
          /\ executed' = [executed EXCEPT ![c] = @ + 1]
  <2>1. hpc[k][c] = "executing" /\ hpc' = [hpc EXCEPT ![k][c] = "errPending"]
    BY <1>3 DEF HandlerGoes
  <2>2. UNCHANGED <<link, conn, req, recoverable, armed, outcome, reply, ack, journal,
                    begun, forgotten, gen, up, overlapped>>
    BY <1>3 DEF Execute
  <2>3. TypeOK'
    BY <1>3, <2>1, <2>2 DEF TypeOK
  <2>4. LinesInv'
    BY <1>3, <2>1, <2>2 DEF TypeOK, LinesInv
  <2>5. SettledInv'
    BY <1>3, <2>1, <2>2 DEF TypeOK, LinesInv, SettledInv
  <2>6. AckSeparatesDispatches'
    BY <1>3, <2>1, <2>2 DEF TypeOK, AckSeparatesDispatches
  <2>7. TruthInv'
    BY <1>3, <2>1, <2>2 DEF TypeOK, LinesInv, SettledInv, AckSeparatesDispatches,
       TruthInv,
           SuccessIsTruthful, UncertainWasDispatched
  <2>8. EffectInv'
    BY <1>3, <2>1, <2>2 DEF TypeOK, EffectInv
  <2>9. OnceInv'
    BY <1>3, <2>1, <2>2 DEF TypeOK, LinesInv, SettledInv, AckSeparatesDispatches,
       EffectInv, OnceInv
  <2>10. QED
    BY <2>3, <2>4, <2>5, <2>6, <2>7, <2>8, <2>9
<1>4. QED
  BY <1>1, <1>2, <1>3 DEF Execute

\* The result is stored if its entry is still there.
LEMMA RecordStep ==
  ASSUME IInv, NEW k \in Conn, NEW c \in Cmd, Record(k, c)
  PROVE  IInv'
<1> USE DEF IInv, client, server
<1>0. PICK r \in {"ok", "err"} : 
        /\ \/ HandlerGoes(k, c, "okPending", "done")
           \/ HandlerGoes(k, c, "errPending", "done") /\ r = "err"
        /\ \/ journal[c] # "none" /\ journal' = [journal EXCEPT ![c] = r]
           \/ r = "err" /\ UNCHANGED journal
        /\ Answer(k, c, r)
        /\ UNCHANGED <<client, ack, begun, forgotten, executed, gen, up, overlapped>>
  BY DEF Record
<1>1. CASE HandlerGoes(k, c, "okPending", "done")
  <2>1. hpc[k][c] = "okPending" /\ hpc' = [hpc EXCEPT ![k][c] = "done"]
    BY <1>1 DEF HandlerGoes
  <2>2. r \in Responses
    OBVIOUS
  <2>3. TypeOK /\ Answer(k, c, r)
    BY <1>1, <1>0
  <2>4. /\ reply' \in [Conn -> [Cmd -> Responses \cup {"none"}]]
        /\ \A j \in Conn, d \in Cmd :
             reply'[j][d] = reply[j][d] \/ (j = k /\ d = c /\ reply'[j][d] = r)
    BY <1>1, <2>2, <2>3, AnswerWrites
  <2>5. UNCHANGED <<link, conn, req, recoverable, armed, outcome, ack, begun, forgotten,
                    executed, gen, up, overlapped>>
    BY <1>1, <1>0
  <2>6. journal' = journal \/ (journal[c] # "none" /\ journal' = [journal EXCEPT ![c] = r])
    BY <1>1, <1>0
  <2>7. journal' \in [Cmd -> {"none", "received", "ok", "err"}]
    BY <1>1, <2>6 DEF TypeOK
  <2>8. TypeOK'
    BY <1>1, <2>1, <2>2, <2>3, <2>4, <2>5, <2>6, <2>7 DEF TypeOK
  <2>9. LinesInv'
    BY <1>1, <2>1, <2>2, <2>3, <2>4, <2>5, <2>6, <2>7 DEF TypeOK, LinesInv
  <2>10. SettledInv'
    BY <1>1, <2>1, <2>2, <2>3, <2>4, <2>5, <2>6, <2>7 DEF TypeOK, LinesInv, SettledInv
  <2>11. AckSeparatesDispatches'
    BY <1>1, <2>1, <2>2, <2>3, <2>4, <2>5, <2>6, <2>7 DEF TypeOK, AckSeparatesDispatches
  <2>12. TruthInv'
    <3>1. \A j \in Conn, d \in Cmd : hpc'[j][d] = "okPending" => executed'[d] > 0
      BY <1>1, <2>1, <2>2, <2>3, <2>4, <2>5, <2>6, <2>7 DEF TypeOK, TruthInv
    <3>2. \A d \in Cmd : journal'[d] = "ok" => executed'[d] > 0
      BY <1>1, <2>1, <2>2, <2>3, <2>4, <2>5, <2>6, <2>7 DEF TypeOK, TruthInv
    <3>3. ASSUME NEW j \in Conn, NEW d \in Cmd
          PROVE  /\ reply'[j][d] = "ok" => executed'[d] > 0
                 /\ reply'[j][d] = "uncertain" => begun'[d] > 0
      <4>1. CASE reply'[j][d] = reply[j][d]
        BY <4>1, <1>1, <2>1, <2>2, <2>3, <2>4, <2>5, <2>6, <2>7 DEF TypeOK, TruthInv
      <4>2. CASE reply'[j][d] # reply[j][d]
        <5>1. d = c /\ reply'[j][d] = r
          BY <4>2, <1>1, <2>1, <2>2, <2>3, <2>4, <2>5, <2>6, <2>7
        <5>2. executed' = executed /\ begun' = begun
          BY <1>1, <2>1, <2>2, <2>3, <2>4, <2>5, <2>6, <2>7
        <5>3. QED
          BY <5>1, <5>2, <1>1, <2>1, <2>2, <2>3, <2>4, <2>5, <2>6, <2>7 DEF TypeOK,
             TruthInv
      <4>3. QED
        BY <4>1, <4>2
    <3>4. SuccessIsTruthful' /\ UncertainWasDispatched'
      BY <1>1, <2>1, <2>2, <2>3, <2>4, <2>5, <2>6, <2>7 DEF TypeOK, TruthInv,
         SuccessIsTruthful, UncertainWasDispatched
    <3>5. QED
      BY <3>1, <3>2, <3>3, <3>4 DEF TruthInv
  <2>13. EffectInv'
    BY <1>1, <2>1, <2>2, <2>3, <2>4, <2>5, <2>6, <2>7 DEF TypeOK, EffectInv
  <2>14. OnceInv'
    BY <1>1, <2>1, <2>2, <2>3, <2>4, <2>5, <2>6, <2>7 DEF TypeOK, LinesInv, SettledInv,
       AckSeparatesDispatches, EffectInv, OnceInv
  <2>15. QED
    BY <2>8, <2>9, <2>10, <2>11, <2>12, <2>13, <2>14
<1>2. CASE HandlerGoes(k, c, "errPending", "done") /\ r = "err"
  <2>1. hpc[k][c] = "errPending" /\ hpc' = [hpc EXCEPT ![k][c] = "done"]
    BY <1>2 DEF HandlerGoes
  <2>2. r \in Responses
    OBVIOUS
  <2>3. TypeOK /\ Answer(k, c, r)
    BY <1>2, <1>0
  <2>4. /\ reply' \in [Conn -> [Cmd -> Responses \cup {"none"}]]
        /\ \A j \in Conn, d \in Cmd :
             reply'[j][d] = reply[j][d] \/ (j = k /\ d = c /\ reply'[j][d] = r)
    BY <1>2, <2>2, <2>3, AnswerWrites
  <2>5. UNCHANGED <<link, conn, req, recoverable, armed, outcome, ack, begun, forgotten,
                    executed, gen, up, overlapped>>
    BY <1>2, <1>0
  <2>6. journal' = journal \/ (journal[c] # "none" /\ journal' = [journal EXCEPT ![c] = r])
    BY <1>2, <1>0
  <2>7. journal' \in [Cmd -> {"none", "received", "ok", "err"}]
    BY <1>2, <2>6 DEF TypeOK
  <2>8. r # "ok"
    BY <1>2
  <2>9. TypeOK'
    BY <1>2, <2>1, <2>2, <2>3, <2>4, <2>5, <2>6, <2>7, <2>8 DEF TypeOK
  <2>10. LinesInv'
    BY <1>2, <2>1, <2>2, <2>3, <2>4, <2>5, <2>6, <2>7, <2>8 DEF TypeOK, LinesInv
  <2>11. SettledInv'
    BY <1>2, <2>1, <2>2, <2>3, <2>4, <2>5, <2>6, <2>7, <2>8 DEF TypeOK, LinesInv,
       SettledInv
  <2>12. AckSeparatesDispatches'
    BY <1>2, <2>1, <2>2, <2>3, <2>4, <2>5, <2>6, <2>7, <2>8 DEF TypeOK,
       AckSeparatesDispatches
  <2>13. TruthInv'
    <3>1. \A j \in Conn, d \in Cmd : hpc'[j][d] = "okPending" => executed'[d] > 0
      BY <1>2, <2>1, <2>2, <2>3, <2>4, <2>5, <2>6, <2>7, <2>8 DEF TypeOK, TruthInv
    <3>2. \A d \in Cmd : journal'[d] = "ok" => executed'[d] > 0
      BY <1>2, <2>1, <2>2, <2>3, <2>4, <2>5, <2>6, <2>7, <2>8 DEF TypeOK, TruthInv
    <3>3. ASSUME NEW j \in Conn, NEW d \in Cmd
          PROVE  /\ reply'[j][d] = "ok" => executed'[d] > 0
                 /\ reply'[j][d] = "uncertain" => begun'[d] > 0
      <4>1. CASE reply'[j][d] = reply[j][d]
        BY <4>1, <1>2, <2>1, <2>2, <2>3, <2>4, <2>5, <2>6, <2>7, <2>8 DEF TypeOK, TruthInv
      <4>2. CASE reply'[j][d] # reply[j][d]
        <5>1. d = c /\ reply'[j][d] = r
          BY <4>2, <1>2, <2>1, <2>2, <2>3, <2>4, <2>5, <2>6, <2>7, <2>8
        <5>2. executed' = executed /\ begun' = begun
          BY <1>2, <2>1, <2>2, <2>3, <2>4, <2>5, <2>6, <2>7, <2>8
        <5>3. QED
          BY <5>1, <5>2, <1>2, <2>1, <2>2, <2>3, <2>4, <2>5, <2>6, <2>7, <2>8 DEF
             TypeOK, TruthInv
      <4>3. QED
        BY <4>1, <4>2
    <3>4. SuccessIsTruthful' /\ UncertainWasDispatched'
      BY <1>2, <2>1, <2>2, <2>3, <2>4, <2>5, <2>6, <2>7, <2>8 DEF TypeOK, TruthInv,
         SuccessIsTruthful, UncertainWasDispatched
    <3>5. QED
      BY <3>1, <3>2, <3>3, <3>4 DEF TruthInv
  <2>14. EffectInv'
    BY <1>2, <2>1, <2>2, <2>3, <2>4, <2>5, <2>6, <2>7, <2>8 DEF TypeOK, EffectInv
  <2>15. OnceInv'
    BY <1>2, <2>1, <2>2, <2>3, <2>4, <2>5, <2>6, <2>7, <2>8 DEF TypeOK, LinesInv,
       SettledInv, AckSeparatesDispatches, EffectInv, OnceInv
  <2>16. QED
    BY <2>9, <2>10, <2>11, <2>12, <2>13, <2>14, <2>15
<1>3. QED
  BY <1>1, <1>2, <1>0

\* An acknowledgement is read.
LEMMA AckArrivesStep ==
  ASSUME IInv, NEW k \in Conn, NEW c \in Cmd, AckArrives(k, c)
  PROVE  IInv'
<1> USE DEF IInv, AckArrives, client, server
<1>1. TypeOK'
  BY DEF TypeOK
<1>2. LinesInv'
  BY DEF TypeOK, LinesInv
<1>3. SettledInv'
  BY DEF TypeOK, LinesInv, SettledInv
<1>4. AckSeparatesDispatches'
  BY DEF TypeOK, AckSeparatesDispatches
<1>5. TruthInv'
  BY DEF TypeOK, LinesInv, SettledInv, AckSeparatesDispatches, TruthInv,
         SuccessIsTruthful, UncertainWasDispatched
<1>6. EffectInv'
  BY DEF TypeOK, EffectInv
<1>7. OnceInv'
  BY DEF TypeOK, LinesInv, SettledInv, AckSeparatesDispatches, EffectInv, OnceInv
<1>8. QED
  BY <1>1, <1>2, <1>3, <1>4, <1>5, <1>6, <1>7

\* An acknowledgement is lost.
LEMMA AckLostStep ==
  ASSUME IInv, NEW k \in Conn, NEW c \in Cmd, AckLost(k, c)
  PROVE  IInv'
<1> USE DEF IInv, AckLost, client, server
<1>1. TypeOK'
  BY DEF TypeOK
<1>2. LinesInv'
  BY DEF TypeOK, LinesInv
<1>3. SettledInv'
  BY DEF TypeOK, LinesInv, SettledInv
<1>4. AckSeparatesDispatches'
  BY DEF TypeOK, AckSeparatesDispatches
<1>5. TruthInv'
  BY DEF TypeOK, LinesInv, SettledInv, AckSeparatesDispatches, TruthInv,
         SuccessIsTruthful, UncertainWasDispatched
<1>6. EffectInv'
  BY DEF TypeOK, EffectInv
<1>7. OnceInv'
  BY DEF TypeOK, LinesInv, SettledInv, AckSeparatesDispatches, EffectInv, OnceInv
<1>8. QED
  BY <1>1, <1>2, <1>3, <1>4, <1>5, <1>6, <1>7

\* The entry is forgotten.
LEMMA AcknowledgeStep ==
  ASSUME IInv, NEW k \in Conn, NEW c \in Cmd, Acknowledge(k, c)
  PROVE  IInv'
<1> USE DEF IInv, Acknowledge, client, server
<1>1. TypeOK'
  BY DEF TypeOK
<1>2. LinesInv'
  BY DEF TypeOK, LinesInv
<1>3. SettledInv'
  BY DEF TypeOK, LinesInv, SettledInv
<1>4. AckSeparatesDispatches'
  BY DEF TypeOK, AckSeparatesDispatches
<1>5. TruthInv'
  BY DEF TypeOK, LinesInv, SettledInv, AckSeparatesDispatches, TruthInv,
         SuccessIsTruthful, UncertainWasDispatched
<1>6. EffectInv'
  BY DEF TypeOK, EffectInv
<1>7. OnceInv'
  BY DEF TypeOK, LinesInv, SettledInv, AckSeparatesDispatches, EffectInv, OnceInv
<1>8. QED
  BY <1>1, <1>2, <1>3, <1>4, <1>5, <1>6, <1>7

\* A generation ends.
LEMMA CrashStep ==
  ASSUME IInv, Crash
  PROVE  IInv'
<1> USE DEF IInv, Crash, AcksGone, client, server
<1>1. TypeOK'
  BY DEF TypeOK
<1>2. LinesInv'
  BY DEF TypeOK, LinesInv
<1>3. SettledInv'
  BY DEF TypeOK, LinesInv, SettledInv
<1>4. AckSeparatesDispatches'
  BY DEF TypeOK, AckSeparatesDispatches
<1>5. TruthInv'
  BY DEF TypeOK, LinesInv, SettledInv, AckSeparatesDispatches, TruthInv,
         SuccessIsTruthful, UncertainWasDispatched
<1>6. EffectInv'
  BY DEF TypeOK, EffectInv
<1>7. OnceInv'
  BY DEF TypeOK, LinesInv, SettledInv, AckSeparatesDispatches, EffectInv, OnceInv
<1>8. QED
  BY <1>1, <1>2, <1>3, <1>4, <1>5, <1>6, <1>7

\* The next generation starts.
LEMMA RestartStep ==
  ASSUME IInv, Restart
  PROVE  IInv'
<1> USE DEF IInv, Restart, AcksGone, client, server
<1>1. TypeOK'
  BY DEF TypeOK
<1>2. LinesInv'
  BY DEF TypeOK, LinesInv
<1>3. SettledInv'
  BY DEF TypeOK, LinesInv, SettledInv
<1>4. AckSeparatesDispatches'
  BY DEF TypeOK, AckSeparatesDispatches
<1>5. TruthInv'
  BY DEF TypeOK, LinesInv, SettledInv, AckSeparatesDispatches, TruthInv,
         SuccessIsTruthful, UncertainWasDispatched
<1>6. EffectInv'
  BY DEF TypeOK, EffectInv
<1>7. OnceInv'
  BY DEF TypeOK, LinesInv, SettledInv, AckSeparatesDispatches, EffectInv, OnceInv
<1>8. QED
  BY <1>1, <1>2, <1>3, <1>4, <1>5, <1>6, <1>7

\* A dead generation's command takes effect.
LEMMA OrphanRunsStep ==
  ASSUME IInv, NEW k \in Conn, NEW c \in Cmd, OrphanRuns(k, c)
  PROVE  IInv'
<1> USE DEF IInv, OrphanRuns, client, server
<1>1. TypeOK'
  BY DEF TypeOK
<1>2. LinesInv'
  BY DEF TypeOK, LinesInv
<1>3. SettledInv'
  BY DEF TypeOK, LinesInv, SettledInv
<1>4. AckSeparatesDispatches'
  BY DEF TypeOK, AckSeparatesDispatches
<1>5. TruthInv'
  BY DEF TypeOK, LinesInv, SettledInv, AckSeparatesDispatches, TruthInv,
         SuccessIsTruthful, UncertainWasDispatched
<1>6. EffectInv'
  BY DEF TypeOK, EffectInv
<1>7. OnceInv'
  BY DEF TypeOK, LinesInv, SettledInv, AckSeparatesDispatches, EffectInv, OnceInv
<1>8. QED
  BY <1>1, <1>2, <1>3, <1>4, <1>5, <1>6, <1>7

---------------------------------------------------------------------------
\* The invariant holds initially, where the client has done nothing.
LEMMA InitIInv == Init => IInv
<1> SUFFICES ASSUME Init PROVE IInv
  OBVIOUS
<1> USE DEF Init
<1>1. TypeOK
  BY DEF TypeOK
<1>2. LinesInv /\ SettledInv
  BY DEF LinesInv, SettledInv
<1>3. AckSeparatesDispatches /\ EffectInv /\ OnceInv
  BY DEF AckSeparatesDispatches, EffectInv, OnceInv
<1>4. TruthInv
  BY DEF TruthInv, SuccessIsTruthful, UncertainWasDispatched
<1>5. QED
  BY <1>1, <1>2, <1>3, <1>4 DEF IInv

\* Every step, and stuttering, preserves it.
LEMMA NextIInv == IInv /\ [Next]_vars => IInv'
<1> SUFFICES ASSUME IInv, [Next]_vars PROVE IInv'
  OBVIOUS
<1>1. CASE Connect \/ Hello \/ Disconnect \/ CloseClient
  BY <1>1, ConnectStep, HelloStep, DisconnectStep, CloseClientStep
<1>2. ASSUME NEW c \in Cmd, Request(c) \/ Timeout(c) \/ Deliver(c)
      PROVE  IInv'
  BY <1>2, RequestStep, TimeoutStep, DeliverStep
<1>3. ASSUME NEW k \in Conn, NEW c \in Cmd, HandlerStep(k, c) \/ Execute(k, c) \/ Lose(k, c)
      PROVE  IInv'
  BY <1>3, ArriveStep, LookupStep, RejectStep, BeginStep, ExecuteStep, RecordStep,
     LoseStep DEF HandlerStep
<1>4. ASSUME NEW k \in Conn, NEW c \in Cmd,
             AckStep(k, c) \/ AckLost(k, c) \/ OrphanRuns(k, c)
      PROVE  IInv'
  BY <1>4, AckArrivesStep, AcknowledgeStep, AckLostStep, OrphanRunsStep DEF AckStep
<1>5. CASE Crash \/ Restart
  BY <1>5, CrashStep, RestartStep
<1>6. CASE UNCHANGED vars
  <2> USE <1>6 DEF vars, client, server, IInv
  <2>1. TypeOK'
    BY DEF TypeOK
  <2>2. LinesInv' /\ SettledInv'
    BY DEF LinesInv, SettledInv
  <2>3. AckSeparatesDispatches' /\ EffectInv' /\ OnceInv'
    BY DEF AckSeparatesDispatches, EffectInv, OnceInv
  <2>4. TruthInv'
    BY DEF TruthInv, SuccessIsTruthful, UncertainWasDispatched
  <2>5. QED
    BY <2>1, <2>2, <2>3, <2>4
<1>7. QED
  BY <1>1, <1>2, <1>3, <1>4, <1>5, <1>6 DEF Next

\* The inductive invariant holds in every reachable state.
THEOREM DeliveryInvariant == Spec => []IInv
<1>1. Init => IInv
  BY InitIInv
<1>2. IInv /\ [Next]_vars => IInv'
  BY NextIInv
<1>3. QED
  BY <1>1, <1>2, PTL DEF Spec

\* Every variable keeps its type.
THEOREM DeliveryTypeOK == Spec => []TypeOK
<1>1. IInv => TypeOK
  BY DEF IInv, LinesInv, SettledInv, TruthInv, OnceInv, TypeOK
<1>2. QED
  BY <1>1, DeliveryInvariant, PTL

\* Between two dispatches of a command its journal entry was acknowledged.
THEOREM DispatchesAreSeparated == Spec => []AckSeparatesDispatches
<1>1. IInv => AckSeparatesDispatches
  BY DEF IInv, LinesInv, SettledInv, TruthInv, OnceInv, AckSeparatesDispatches, TypeOK
<1>2. QED
  BY <1>1, DeliveryInvariant, PTL

\* An entry is forgotten only after the caller was answered.
THEOREM ForgetsOnlySettled == Spec => []ForgottenIsSettled
<1>1. IInv => ForgottenIsSettled
  BY DEF IInv, LinesInv, SettledInv, TruthInv, OnceInv, ForgottenIsSettled, TypeOK
<1>2. QED
  BY <1>1, DeliveryInvariant, PTL

\* A reported success is an effect in a worker.
THEOREM NoFalseSuccess == Spec => []SuccessIsTruthful
<1>1. IInv => SuccessIsTruthful
  BY DEF IInv, LinesInv, SettledInv, TruthInv, OnceInv, SuccessIsTruthful, TypeOK
<1>2. QED
  BY <1>1, DeliveryInvariant, PTL

\* Uncertainty is reported of dispatched commands only.
THEOREM UncertaintyIsDispatched == Spec => []UncertainWasDispatched
<1>1. IInv => UncertainWasDispatched
  BY DEF IInv, LinesInv, SettledInv, TruthInv, OnceInv, UncertainWasDispatched, TypeOK
<1>2. QED
  BY <1>1, DeliveryInvariant, PTL

\* A second effect needs a resend over a line that is still being handled.
THEOREM OnceUnlessOverlapped == Spec => []TwiceOnlyIfOverlapped
<1>1. IInv => TwiceOnlyIfOverlapped
  BY DEF IInv, LinesInv, SettledInv, TruthInv, OnceInv, TwiceOnlyIfOverlapped, TypeOK
<1>2. QED
  BY <1>1, DeliveryInvariant, PTL

(***************************************************************************)
(* AttachStream: the inductive invariant.                                  *)
(***************************************************************************)

StreamRec == [at : {"no", "load", "write", "wait", "end"},
              s : Sessions \cup {NoSession}, snap : 0..MaxEvents, ok : BOOLEAN,
              from : Sessions \cup {NoSession}, was : BOOLEAN]
Streams == [Procs -> StreamRec]

\* A snapshot with everything is on its way to s.  A reattach of a session that was
\* attached before does not count: when it fails, things stay as they were.
Loads(st, s) == \E p \in Procs : /\ st[p].s = s /\ st[p].at = "load" /\ Reserved(p, st[p])
                                 /\ ~st[p].was
\* A snapshot that has event n is being written to s.
Written(st, s, n) == \E p \in Procs : st[p].s = s /\ st[p].at = "write" /\ n <= st[p].snap

\* The loop has a batch only while it is at its items, and is at most at one of them.
ShapeInv ==
  /\ aborted \subseteq closed
  /\ loop \notin {"item", "between"} => pending = {}
  /\ loop # "item" => stream[Catchup].at = "no"
  /\ stream[Catchup].from = NoSession /\ ~stream[Catchup].was
  /\ \A p \in Procs :
       stream[p].at # "no" => stream[p].s \in Sessions /\ stream[p].from # stream[p].s

\* Payloads are withheld only behind a stream.
WithheldInv == \A s \in Sessions : deferred[s] # {} => Active(stream, s)

\* A session that an attach or reattach reserves is attached, or was detached behind it.
HeldInv == \A s \in Sessions : Held(stream, s) => s \in attached \cup undone

\* The sessions the property is about.
Followed == attached \ (closed \cup undone)

\* What counts as dropped is left to a catch-up: a queued one while a stream of the
\* session runs, because only the first reservation forgets the drop.
DroppedInv == \A s \in Followed :
  s \in dropped => s \in queue \/ (~Active(stream, s) /\ s \in pending)

\* No drop outlives its attachment behind a running stream: the next attachment
\* would not forget it.
DetachedInv == \A s \in dropped \ (attached \cup undone) : ~Active(stream, s)

\* NothingForgotten without the snapshots that may be given up without a catch-up.
CoveredInv == \A s \in Followed :
  \/ s \in queue \cup pending \/ Loads(stream, s)
  \/ \A n \in 1..seq[s] : \/ n \in sent[s] \cup told[s]
                          \/ n \in deferred[s] /\ Active(stream, s)
                          \/ Written(stream, s, n)

BufferInv == WithheldInv /\ HeldInv /\ DroppedInv /\ DetachedInv /\ CoveredInv
StreamIInv == StreamTypeOK /\ ShapeInv /\ BufferInv

LEMMA StreamTypes ==
  ASSUME StreamTypeOK
  PROVE  /\ stream \in Streams
         /\ \A p \in Procs : stream[p] \in StreamRec
         /\ Catchup \in Procs /\ Attachers \subseteq Procs
  BY DEF StreamTypeOK, Streams, StreamRec, Procs

\* CoveredInv says more: it does not count a reattach to a session that was attached.
LEMMA CoveredIsNothingForgotten == CoveredInv => NothingForgotten
  BY DEF CoveredInv, NothingForgotten, Followed, Coming, Covered, Loads, Written

LEMMA InitStream == StreamInit => StreamIInv
  <1> SUFFICES ASSUME StreamInit PROVE StreamIInv
    OBVIOUS
  <1>0. MaxEvents \in Nat /\ MaxCommands \in Nat /\ MaxRequests \in Nat /\ MaxFaults \in Nat
    BY StreamAssumption DEF StreamAssumption
  <1>1. StreamTypeOK
    <2>1. 0 \in 0..MaxEvents /\ 0 \in 0..MaxCommands /\ 0 \in 0..MaxRequests /\ 0 \in 0..MaxFaults
      BY <1>0
    <2>2. NoStream \in StreamRec
      BY <2>1 DEF NoStream, StreamRec
    <2>3. stream \in [Procs -> StreamRec]
      BY <2>2 DEF StreamInit
    <2>4. seq \in [Sessions -> 0..MaxEvents]
      BY <2>1 DEF StreamInit
    <2> QED BY <2>1, <2>3, <2>4 DEF StreamInit, StreamTypeOK, StreamRec
  <1>2. \A p \in Procs : ~Reserved(p, stream[p])
    BY DEF StreamInit, NoStream, Reserved
  <1>3. ShapeInv
    BY DEF StreamInit, NoStream, ShapeInv, Procs
  <1>4. BufferInv
    BY <1>2 DEF StreamInit, BufferInv, WithheldInv, HeldInv, Held, DroppedInv, DetachedInv,
                CoveredInv, Followed, Procs
  <1> QED BY <1>1, <1>3, <1>4 DEF StreamIInv

(***************************************************************************)
(* How a change of the streams changes what is said of them.               *)
(***************************************************************************)

\* Reservations survive a step from writing to waiting or to the end.
LEMMA SameReservations ==
  ASSUME NEW st, NEW st2,
         \A p \in Procs : st2[p].s = st[p].s /\ (Reserved(p, st2[p]) <=> Reserved(p, st[p]))
  PROVE  /\ Streaming(st2) <=> Streaming(st)
         /\ \A s : (Active(st2, s) <=> Active(st, s)) /\ (Held(st2, s) <=> Held(st, s))
  BY DEF Streaming, Active, Held, Procs

\* What is not reserved is not streamed.
LEMMA NotStreaming ==
  ASSUME NEW st, ~Streaming(st)
  PROVE  \A s : /\ ~Active(st, s) /\ ~Held(st, s) /\ ~Loads(st, s)
                /\ \A n : ~Written(st, s, n)
  BY DEF Streaming, Active, Held, Loads, Written, Procs, Reserved

LEMMA HeldIsActive == \A st, s : Held(st, s) => Active(st, s)
  BY DEF Held, Active, Procs

LEMMA LoadsIsActive == \A st, s : Loads(st, s) => Active(st, s)
  BY DEF Loads, Active

\* The first item of a batch.
LEMMA BatchBegins ==
  ASSUME NEW st \in Streams, ~Streaming(st), NEW q \in SUBSET Sessions,
         NEW dr, NEW ab, BeginBatch(q, st, dr, ab)
  PROVE  \E s0 \in q :
           /\ stream' \in Streams /\ loop' = "item" /\ failed' = FALSE
           /\ stream'[Catchup].from = NoSession /\ ~stream'[Catchup].was
           /\ \A p \in Procs : stream'[p] = st[p] \/ (p = Catchup /\ stream'[p].s = s0)
           /\ pending' = q \ {s0} /\ dropped' = dr \ {s0} /\ aborted' = ab \ {s0}
           /\ Loads(stream', s0)
           /\ \A s : (Active(stream', s) <=> s = s0) /\ ~Held(stream', s)
  <1>1. PICK s0 \in q : pending' = q \ {s0} /\ Item(s0, st, dr, ab)
    BY DEF BeginBatch
  <1>2. failed' = FALSE
    BY DEF BeginBatch
  <1>3. ~Active(st, s0)
    BY NotStreaming
  <1>4. /\ loop' = "item" /\ dropped' = dr \ {s0} /\ aborted' = ab \ {s0}
        /\ stream' = Load(st, s0)
    BY <1>1, <1>3 DEF Item, Reset
  <1>5. Catchup \in Procs /\ Catchup \notin Attachers /\ Attachers \subseteq Procs
    BY StreamAssumption DEF StreamAssumption, Procs
  <1>6. /\ stream'[Catchup] = [NoStream EXCEPT !.at = "load", !.s = s0]
        /\ \A p \in Attachers : stream'[p] = st[p]
    BY <1>4, <1>5 DEF Load, Streams
  <1>7. /\ stream'[Catchup].at = "load" /\ stream'[Catchup].s = s0
        /\ stream'[Catchup].from = NoSession /\ ~stream'[Catchup].was
    BY <1>6 DEF NoStream
  <1>8. stream' \in Streams
    <2>1. 0 \in 0..MaxEvents
      BY StreamAssumption DEF StreamAssumption
    <2>2. stream'[Catchup] \in StreamRec
      BY <1>6, <2>1 DEF NoStream, StreamRec
    <2> QED BY <1>4, <1>6, <2>2 DEF Load, Streams
  <1>9. \A p \in Attachers : ~Reserved(p, stream'[p])
    BY <1>5, <1>6 DEF Streaming
  <1>10. Reserved(Catchup, stream'[Catchup])
    BY <1>7 DEF Reserved
  <1>11. Loads(stream', s0)
    BY <1>5, <1>7, <1>10 DEF Loads
  <1>12. \A s : (Active(stream', s) <=> s = s0) /\ ~Held(stream', s)
    BY <1>7, <1>9, <1>10 DEF Active, Held, Procs
  <1>13. \A p \in Procs : stream'[p] = st[p] \/ (p = Catchup /\ stream'[p].s = s0)
    BY <1>6, <1>7 DEF Procs
  <1> QED BY <1>1, <1>2, <1>4, <1>7, <1>8, <1>11, <1>12, <1>13

\* A batch of all that is queued keeps the invariant.
LEMMA BatchKeeps ==
  ASSUME StreamIInv, ~Streaming(stream), loop \notin {"item", "between"},
         NEW q \in SUBSET Sessions, queue \subseteq q,
         BeginBatch(q, stream, dropped, aborted), queue' = {},
         UNCHANGED <<clientVars, deferred, seq, closed>>
  PROVE  ShapeInv' /\ BufferInv'
  <1>1. stream \in Streams
    BY StreamTypes DEF StreamIInv
  <1>2. PICK s0 \in q :
           /\ stream' \in Streams /\ loop' = "item" /\ failed' = FALSE
           /\ stream'[Catchup].from = NoSession /\ ~stream'[Catchup].was
           /\ \A p \in Procs : stream'[p] = stream[p] \/ (p = Catchup /\ stream'[p].s = s0)
           /\ pending' = q \ {s0} /\ dropped' = dropped \ {s0} /\ aborted' = aborted \ {s0}
           /\ Loads(stream', s0)
           /\ \A s : (Active(stream', s) <=> s = s0) /\ ~Held(stream', s)
    BY <1>1, BatchBegins
  <1>3. \A s : ~Active(stream, s) /\ ~Loads(stream, s) /\ \A n : ~Written(stream, s, n)
    BY NotStreaming
  <1>4. pending = {} /\ aborted \subseteq closed
    BY DEF StreamIInv, ShapeInv
  <1>5. /\ attached' = attached /\ sent' = sent /\ told' = told /\ undone' = undone
        /\ deferred' = deferred /\ seq' = seq /\ closed' = closed /\ Followed' = Followed
    BY DEF clientVars, Followed
  <1>6. ShapeInv'
    BY <1>2, <1>4, <1>5, StreamAssumption DEF StreamAssumption, StreamIInv, ShapeInv
  <1>7. WithheldInv'
    BY <1>3, <1>5 DEF StreamIInv, BufferInv, WithheldInv
  <1>8. HeldInv'
    BY <1>2 DEF HeldInv
  <1>9. DroppedInv'
    BY <1>2, <1>4, <1>5 DEF StreamIInv, BufferInv, DroppedInv
  <1>10. DetachedInv'
    BY <1>2, <1>5 DEF StreamIInv, BufferInv, DetachedInv
  <1>11. CoveredInv'
    BY <1>2, <1>3, <1>4, <1>5 DEF StreamIInv, BufferInv, CoveredInv
  <1> QED BY <1>6, <1>7, <1>8, <1>9, <1>10, <1>11 DEF BufferInv

(***************************************************************************)
(* The steps.                                                              *)
(***************************************************************************)

LEMMA RelayKeeps ==
  ASSUME StreamIInv, NEW s0 \in Sessions, NEW replaced \in BOOLEAN, Relay(s0, replaced)
  PROVE  StreamIInv'
  <1>1. /\ attached' = attached /\ undone' = undone /\ closed' = closed /\ told' = told
        /\ stream' = stream /\ aborted' = aborted /\ loop' = loop /\ pending' = pending
        /\ failed' = failed /\ timer' = timer /\ missed' = missed /\ commands' = commands
        /\ requests' = requests /\ faults' = faults /\ Followed' = Followed
    BY DEF Relay, loopVars, counters, Followed
  <1>2. /\ seq[s0] \in 0..MaxEvents /\ seq[s0] < MaxEvents /\ seq' = [seq EXCEPT ![s0] = @ + 1]
        /\ seq'[s0] = seq[s0] + 1
        /\ \A s \in Sessions : s # s0 => seq'[s] = seq[s]
    BY DEF StreamIInv, StreamTypeOK, Relay
  <1>3. MaxEvents \in Nat /\ seq'[s0] \in Events /\ seq' \in [Sessions -> 0..MaxEvents]
    BY <1>2, StreamAssumption DEF StreamAssumption, Events, StreamIInv, StreamTypeOK
  <1>4. /\ deferred' \in [Sessions -> SUBSET Events] /\ dropped' \subseteq Sessions
        /\ queue' \subseteq Sessions /\ sent' \in [Sessions -> SUBSET Events]
        /\ blocked' \in BOOLEAN
    BY <1>3 DEF Relay, bufferVars, StreamIInv, StreamTypeOK, Queued
  <1>5. StreamTypeOK'
    BY <1>1, <1>3, <1>4 DEF StreamIInv, StreamTypeOK
  <1>6. ShapeInv'
    BY <1>1 DEF StreamIInv, ShapeInv
  \* Nothing changes for other sessions, and a queue only grows.
  <1>7. /\ \A s \in Sessions : s # s0 => deferred'[s] = deferred[s] /\ sent'[s] = sent[s]
        /\ \A s : s # s0 => (s \in dropped' <=> s \in dropped)
        /\ queue \subseteq queue' /\ sent[s0] \subseteq sent'[s0]
    BY DEF Relay, bufferVars, StreamIInv, StreamTypeOK, Queued
  <1>8. WithheldInv'
    <2>1. deferred'[s0] # {} => deferred'[s0] = deferred[s0] \/ Active(stream, s0)
      BY DEF Relay, bufferVars, StreamIInv, StreamTypeOK
    <2> QED BY <1>1, <1>7, <2>1 DEF StreamIInv, BufferInv, WithheldInv
  <1>9. HeldInv'
    BY <1>1 DEF StreamIInv, BufferInv, HeldInv
  <1>10. DroppedInv'
    <2>1. s0 \in dropped' => s0 \in dropped \/ s0 \in queue'
      BY DEF Relay, bufferVars, Queued
    <2> QED BY <1>1, <1>7, <2>1 DEF StreamIInv, BufferInv, DroppedInv
  <1>11. DetachedInv'
    <2>1. s0 \in dropped' => s0 \in dropped \/ s0 \in attached
      BY DEF Relay, bufferVars, Queued
    <2> QED BY <1>1, <1>7, <2>1 DEF StreamIInv, BufferInv, DetachedInv
  <1>12. CoveredInv'
    <2>1. ASSUME s0 \in Followed
          PROVE  \/ s0 \in queue' \cup pending
                 \/ seq'[s0] \in sent'[s0] /\ deferred'[s0] = deferred[s0]
                 \/ /\ seq'[s0] \in deferred'[s0] /\ Active(stream, s0)
                    /\ deferred[s0] \subseteq deferred'[s0]
      <3>1. s0 \in attached /\ s0 \in dropped =>
              s0 \in queue \/ s0 \in pending \/ Active(stream, s0)
        BY <2>1 DEF StreamIInv, BufferInv, DroppedInv
      <3> QED BY <1>7, <2>1, <3>1 DEF Relay, bufferVars, StreamIInv, StreamTypeOK, Queued, Followed
    <2>2. \A n \in 1..seq'[s0] : n \in 1..seq[s0] \/ n = seq'[s0]
      BY <1>2, <1>3
    <2>3. Followed \subseteq Sessions
      BY DEF StreamIInv, StreamTypeOK, Followed
    <2>4. ASSUME NEW s \in Followed, s # s0
          PROVE  \/ s \in (queue \cup pending)' \/ Loads(stream, s)'
                 \/ \A n \in 1..seq'[s] : \/ n \in (sent[s] \cup told[s])'
                                          \/ (n \in deferred[s] /\ Active(stream, s))'
                                          \/ Written(stream, s, n)'
      BY <1>1, <1>2, <1>7, <2>3, <2>4 DEF StreamIInv, BufferInv, CoveredInv
    <2>5. ASSUME s0 \in Followed
          PROVE  \/ s0 \in (queue \cup pending)' \/ Loads(stream, s0)'
                 \/ \A n \in 1..seq'[s0] : \/ n \in (sent[s0] \cup told[s0])'
                                           \/ (n \in deferred[s0] /\ Active(stream, s0))'
                                           \/ Written(stream, s0, n)'
      BY <1>1, <1>7, <2>1, <2>2, <2>5 DEF StreamIInv, BufferInv, CoveredInv
    <2> QED BY <1>1, <2>4, <2>5 DEF CoveredInv
  <1> QED BY <1>5, <1>6, <1>8, <1>9, <1>10, <1>11, <1>12 DEF StreamIInv, BufferInv

LEMMA CloseKeeps ==
  ASSUME StreamIInv, NEW s0 \in Sessions, Close(s0)
  PROVE  StreamIInv'
  <1>1. /\ attached' = attached /\ undone' = undone /\ closed' = closed \cup {s0}
        /\ told' = told /\ sent' = sent /\ seq' = seq /\ dropped' = dropped
        /\ loop' = loop /\ pending' = pending /\ failed' = failed /\ timer' = timer
        /\ blocked' = blocked /\ missed' = missed /\ commands' = commands
        /\ requests' = requests /\ faults' = faults /\ Followed' = Followed \ {s0}
    BY DEF Close, clientVars, loopVars, counters, Followed
  <1>2. stream \in Streams /\ Catchup \in Procs
    BY StreamTypes DEF StreamIInv
  <1>3. ASSUME NEW p \in Procs
        PROVE  \/ stream'[p] = stream[p]
               \/ /\ stream[p].s = s0 /\ stream[p].at \in {"write", "wait"}
                  /\ stream'[p] = [stream[p] EXCEPT !.at = "end", !.ok = FALSE]
    BY <1>2, <1>3 DEF Close
  <1>4. ASSUME NEW p \in Procs
        PROVE  /\ stream'[p] \in StreamRec /\ stream'[p].s = stream[p].s
               /\ stream'[p].from = stream[p].from /\ stream'[p].was = stream[p].was
               /\ stream'[p].snap = stream[p].snap
               /\ Reserved(p, stream'[p]) <=> Reserved(p, stream[p])
               /\ stream[p].s # s0 \/ stream[p].at \in {"no", "load"} =>
                    stream'[p].at = stream[p].at
    BY <1>2, <1>3, <1>4 DEF Streams, StreamRec, Reserved
  <1>5. stream' \in Streams
    BY <1>2, <1>4 DEF Close, Streams
  <1>6. /\ aborted' \subseteq aborted \cup {s0} /\ queue' \subseteq queue
        /\ queue \subseteq queue' \cup {s0}
        /\ deferred' \in [Sessions -> SUBSET Events]
        /\ \A s \in Sessions : deferred'[s] = deferred[s] \/ (s = s0 /\ deferred'[s] = {})
    BY DEF Close, StreamIInv, StreamTypeOK
  <1>7. StreamTypeOK'
    BY <1>1, <1>5, <1>6 DEF StreamIInv, StreamTypeOK, Streams, StreamRec
  <1>8. ShapeInv'
    BY <1>1, <1>2, <1>4, <1>6 DEF StreamIInv, ShapeInv
  <1>9. \A s : (Active(stream', s) <=> Active(stream, s)) /\ (Held(stream', s) <=> Held(stream, s))
    BY <1>4, SameReservations
  <1>10. \A s : s # s0 => /\ Loads(stream, s) => Loads(stream', s)
                          /\ \A n : Written(stream, s, n) => Written(stream', s, n)
    BY <1>4 DEF Loads, Written
  <1>11. WithheldInv' /\ HeldInv'
    BY <1>1, <1>6, <1>9 DEF StreamIInv, BufferInv, WithheldInv, HeldInv
  <1>12. DroppedInv' /\ DetachedInv'
    BY <1>1, <1>6, <1>9 DEF StreamIInv, BufferInv, DroppedInv, DetachedInv
  <1>13. Followed \subseteq Sessions
    BY DEF StreamIInv, StreamTypeOK, Followed
  <1>14. CoveredInv'
    BY <1>1, <1>6, <1>9, <1>10, <1>13 DEF StreamIInv, BufferInv, CoveredInv
  <1> QED BY <1>7, <1>8, <1>11, <1>12, <1>14 DEF StreamIInv, BufferInv

\* A session that is detached is no longer live; if a stream of it goes on, it stays so.
LEMMA DetachKeeps ==
  ASSUME StreamIInv, NEW s0 \in Sessions, Detach(s0)
  PROVE  StreamIInv'
  <1>1. /\ attached' = attached \ {s0} /\ closed' = closed /\ stream' = stream
        /\ aborted' = aborted /\ seq' = seq /\ deferred' = deferred
        /\ loop' = loop /\ pending' = pending /\ failed' = failed /\ timer' = timer
        /\ blocked' = blocked /\ missed' = missed
        /\ requests' = requests /\ faults' = faults
        /\ queue' = queue \ {s0} /\ dropped' = dropped \ {s0}
    BY DEF Detach, loopVars
  <1>2. undone' = (undone \ {s0}) \cup {s \in {s0} : Held(stream, s)}
    BY DEF Detach, Detached
  <1>3. /\ sent' \in [Sessions -> SUBSET Events] /\ told' \in [Sessions -> SUBSET Events]
        /\ \A s \in Sessions : s # s0 => sent'[s] = sent[s] /\ told'[s] = told[s]
    BY DEF Detach, Detached, Forget, StreamIInv, StreamTypeOK
  <1>4. commands' \in 0..MaxCommands
    BY StreamAssumption DEF StreamAssumption, Detach, Command, StreamIInv, StreamTypeOK
  <1>5. StreamTypeOK'
    BY <1>1, <1>2, <1>3, <1>4 DEF StreamIInv, StreamTypeOK
  <1>6. ShapeInv'
    BY <1>1 DEF StreamIInv, ShapeInv
  <1>7. Followed' = Followed \ {s0} /\ Followed \subseteq Sessions
    BY <1>1, <1>2 DEF Followed, StreamIInv, StreamTypeOK
  <1>8. WithheldInv' /\ HeldInv'
    BY <1>1, <1>2 DEF StreamIInv, BufferInv, WithheldInv, HeldInv
  <1>9. DroppedInv' /\ DetachedInv' /\ CoveredInv'
    BY <1>1, <1>2, <1>3, <1>7 DEF StreamIInv, BufferInv, DroppedInv, DetachedInv, CoveredInv
  <1> QED BY <1>5, <1>6, <1>8, <1>9 DEF StreamIInv, BufferInv

LEMMA AttachKeeps ==
  ASSUME StreamIInv, NEW x \in Attachers, NEW s0 \in Sessions, Attach(x, s0)
  PROVE  StreamIInv'
  <1>1. /\ UNCHANGED <<clientVars, aborted, bufferVars, loopVars, blocked, seq, closed, missed,
                       requests, faults>>
        /\ stream[x] = NoStream
        /\ stream' = [stream EXCEPT ![x] = [NoStream EXCEPT !.at = "load", !.s = s0]]
    BY DEF Attach
  <1>2. commands' \in 0..MaxCommands
    BY StreamAssumption DEF StreamAssumption, Attach, Command, StreamIInv, StreamTypeOK
  <1>3. stream \in Streams /\ x \in Procs /\ x # Catchup /\ Catchup \in Procs
    BY StreamTypes, StreamAssumption DEF StreamAssumption, StreamIInv, Procs
  <1>4. /\ stream'[x] = [NoStream EXCEPT !.at = "load", !.s = s0]
        /\ \A p \in Procs : p # x => stream'[p] = stream[p]
    BY <1>1, <1>3 DEF Streams
  <1>5. stream' \in Streams
    <2>1. 0 \in 0..MaxEvents
      BY StreamAssumption DEF StreamAssumption
    <2> QED BY <1>1, <1>3, <2>1 DEF Streams, StreamRec, NoStream
  <1>6. StreamTypeOK'
    BY <1>1, <1>2, <1>5 DEF StreamIInv, StreamTypeOK, Streams, StreamRec, clientVars, bufferVars,
                            loopVars
  \* The attach reserves nothing before it streams.
  <1>7. /\ stream[x].at = "no" /\ ~Reserved(x, stream[x])
        /\ stream'[x].at = "load" /\ ~Reserved(x, stream'[x])
    <2>1. stream[x].at = "no"
      <3>1. stream[x] = NoStream
        BY <1>1
      <3> QED BY <3>1 DEF NoStream
    <2>2. stream'[x].at = "load" /\ stream'[x].from = NoSession
      BY <1>4 DEF NoStream
    <2> QED BY <1>3, <2>1, <2>2 DEF Reserved
  <1>8. \A s : /\ Active(stream', s) <=> Active(stream, s)
               /\ Held(stream', s) <=> Held(stream, s)
               /\ Loads(stream', s) <=> Loads(stream, s)
               /\ \A n : Written(stream', s, n) <=> Written(stream, s, n)
    BY <1>4, <1>7 DEF Active, Held, Loads, Written, Procs
  <1>9. ShapeInv'
    BY <1>1, <1>3, <1>4, StreamAssumption DEF StreamAssumption, StreamIInv, ShapeInv, loopVars,
                                               clientVars, NoStream
  <1>10. BufferInv'
    BY <1>1, <1>8 DEF StreamIInv, BufferInv, WithheldInv, HeldInv, DroppedInv, DetachedInv,
                      CoveredInv, Followed, clientVars, bufferVars, loopVars
  <1> QED BY <1>6, <1>9, <1>10 DEF StreamIInv

LEMMA ReattachKeeps ==
  ASSUME StreamIInv, NEW x \in Attachers, NEW s0 \in Sessions, NEW from \in attached,
         Reattach(x, from, s0)
  PROVE  StreamIInv'
  <1>1. /\ sent' = sent /\ told' = told /\ undone' = undone /\ deferred' = deferred
        /\ queue' = queue /\ loop' = loop /\ pending' = pending /\ failed' = failed
        /\ timer' = timer /\ blocked' = blocked /\ seq' = seq /\ closed' = closed
        /\ missed' = missed /\ requests' = requests /\ faults' = faults
        /\ attached' = attached \cup {s0} /\ from # s0
        /\ dropped' \subseteq dropped /\ aborted' \subseteq aborted
        /\ \A s : s # s0 \/ Active(stream, s0) => (s \in dropped' <=> s \in dropped)
        /\ s0 \in dropped' => Active(stream, s0)
    BY DEF Reattach, loopVars, Reset
  <1>2. commands' \in 0..MaxCommands
    BY StreamAssumption DEF StreamAssumption, Reattach, Command, StreamIInv, StreamTypeOK
  <1>3. /\ stream \in Streams /\ x \in Procs /\ x # Catchup /\ Catchup \in Procs
        /\ from \in Sessions /\ from # NoSession /\ Followed \subseteq Sessions
    BY StreamTypes, StreamAssumption DEF StreamAssumption, StreamIInv, StreamTypeOK, Procs, Followed
  <1>4. /\ stream' = [stream EXCEPT ![x] = stream'[x]]
        /\ stream'[x] = [NoStream EXCEPT !.at = "load", !.s = s0, !.from = from,
                                         !.was = s0 \in attached]
        /\ \A p \in Procs : p # x => stream'[p] = stream[p]
    BY <1>3 DEF Reattach, Streams
  <1>5. stream'[x] \in StreamRec
    <2>1. 0 \in 0..MaxEvents
      BY StreamAssumption DEF StreamAssumption
    <2>2. ASSUME NEW w \in BOOLEAN
          PROVE  [NoStream EXCEPT !.at = "load", !.s = s0, !.from = from, !.was = w] \in StreamRec
      BY <1>3, <2>1 DEF StreamRec, NoStream
    <2>3. (s0 \in attached) \in BOOLEAN
      OBVIOUS
    <2> QED BY <1>4, <2>2, <2>3
  <1>6. stream' \in Streams
    BY <1>3, <1>4, <1>5 DEF Streams
  <1>7. StreamTypeOK'
    BY <1>1, <1>2, <1>6 DEF StreamIInv, StreamTypeOK, Streams, StreamRec
  <1>8. /\ stream'[x].at = "load" /\ stream'[x].s = s0 /\ stream'[x].from = from
        /\ stream'[x].was <=> s0 \in attached
    BY <1>4 DEF NoStream
  <1>9. Reserved(x, stream'[x])
    BY <1>3, <1>8 DEF Reserved
  <1>10. stream[x].at = "no"
    <2>1. stream[x] = NoStream
      BY DEF Reattach
    <2> QED BY <2>1 DEF NoStream
  <1>11. /\ \A s : Active(stream', s) <=> Active(stream, s) \/ s = s0
         /\ \A s : Held(stream', s) <=> Held(stream, s) \/ s = s0
         /\ \A s : Loads(stream, s) => Loads(stream', s)
         /\ s0 \notin attached => Loads(stream', s0)
         /\ \A s, n : Written(stream, s, n) => Written(stream', s, n)
    <2>1. ~Reserved(x, stream[x])
      BY <1>10 DEF Reserved
    <2> QED BY <1>3, <1>4, <1>8, <1>9, <1>10, <2>1 DEF Active, Held, Loads, Written, Procs
  <1>12. ShapeInv'
    BY <1>1, <1>3, <1>4, <1>8 DEF StreamIInv, ShapeInv
  <1>13. WithheldInv' /\ HeldInv'
    BY <1>1, <1>11 DEF StreamIInv, BufferInv, WithheldInv, HeldInv
  <1>14. s0 \in dropped' => s0 \in attached \cup undone
    BY <1>1 DEF StreamIInv, BufferInv, DetachedInv
  <1>15. Followed \subseteq Followed' /\ Followed' \subseteq Followed \cup {s0}
    BY <1>1 DEF Followed
  <1>16. DroppedInv'
    BY <1>1, <1>11, <1>14 DEF StreamIInv, BufferInv, DroppedInv, Followed
  <1>17. DetachedInv'
    BY <1>1, <1>11 DEF StreamIInv, BufferInv, DetachedInv
  <1>18. CoveredInv'
    <2>1. s0 \in Followed' /\ s0 \notin Followed => s0 \notin attached
      BY <1>1 DEF Followed
    <2> QED BY <1>1, <1>11, <1>15, <2>1 DEF StreamIInv, BufferInv, CoveredInv
  <1> QED BY <1>7, <1>12, <1>13, <1>16, <1>17, <1>18 DEF StreamIInv, BufferInv

LEMMA LoadedKeeps ==
  ASSUME StreamIInv, NEW p \in Procs, Loaded(p)
  PROVE  StreamIInv'
  <1> DEFINE s0 == stream[p].s
             left == {stream[p].from} \cap attached
  <1>1. /\ attached' = (attached \cup {s0}) \ left
        /\ sent' = Forget(sent, left) /\ told' = Forget(told, left)
        /\ undone' = (undone \ left) \cup {s \in left : Held(stream, s)}
        /\ queue' = queue \ left
        /\ dropped' = Reset(dropped, stream, s0) \ left
        /\ aborted' = Reset(aborted, stream, s0)
        /\ deferred' = deferred /\ loop' = loop /\ pending' = pending /\ failed' = failed
        /\ timer' = timer /\ blocked' = blocked /\ seq' = seq /\ closed' = closed
        /\ missed' = missed /\ commands' = commands /\ requests' = requests /\ faults' = faults
    BY DEF Loaded, Detached, loopVars, counters
  <1>2. /\ stream \in Streams /\ stream[p] \in StreamRec /\ Catchup \in Procs
        /\ Followed \subseteq Sessions
    BY StreamTypes DEF StreamIInv, StreamTypeOK, Followed
  <1>3. stream[p].at = "load" /\ s0 \in Sessions /\ stream[p].from # s0 /\ s0 \notin left
    BY <1>2 DEF Loaded, StreamIInv, ShapeInv
  <1>4. seq[s0] \in 0..MaxEvents
    BY <1>3 DEF StreamIInv, StreamTypeOK
  <1>5. /\ stream' = [stream EXCEPT ![p] = stream'[p]]
        /\ stream'[p] = [stream[p] EXCEPT !.at = "write", !.snap = seq[s0]]
        /\ \A o \in Procs : o # p => stream'[o] = stream[o]
    BY <1>2 DEF Loaded, Streams
  <1>6. /\ stream'[p] \in StreamRec /\ stream'[p].at = "write" /\ stream'[p].snap = seq[s0]
        /\ stream'[p].s = s0 /\ stream'[p].from = stream[p].from
        /\ stream'[p].was = stream[p].was
    BY <1>2, <1>4, <1>5 DEF StreamRec
  <1>7. stream' \in Streams
    BY <1>2, <1>5, <1>6 DEF Streams
  <1>8. /\ sent' \in [Sessions -> SUBSET Events] /\ told' \in [Sessions -> SUBSET Events]
        /\ \A s \in Sessions : s \notin left => sent'[s] = sent[s] /\ told'[s] = told[s]
    BY <1>1 DEF Forget, StreamIInv, StreamTypeOK
  <1>9. /\ dropped' \subseteq dropped \ left /\ aborted' \subseteq aborted
        /\ \A s : s # s0 /\ s \notin left => (s \in dropped' <=> s \in dropped)
        /\ s0 \in dropped' => s0 \in dropped /\ Active(stream, s0)
    BY <1>1 DEF Reset
  <1>10. StreamTypeOK'
    BY <1>1, <1>3, <1>7, <1>8, <1>9 DEF StreamIInv, StreamTypeOK, Streams, StreamRec
  <1>11. /\ \A s : Active(stream', s) <=> Active(stream, s) \/ s = s0
         /\ \A s : Held(stream', s) <=> Held(stream, s) \/ (s = s0 /\ p \in Attachers)
         /\ \A s : s # s0 => (Loads(stream, s) => Loads(stream', s))
         /\ \A n \in 1..seq[s0] : Written(stream', s0, n)
         /\ \A s, n : Written(stream, s, n) => Written(stream', s, n)
    <2>1. Reserved(p, stream'[p])
      BY <1>6 DEF Reserved
    <2>2. \A s : Active(stream', s) <=> Active(stream, s) \/ s = s0
      BY <1>5, <1>6, <2>1 DEF Active
    <2>3. \A s : Held(stream', s) <=> Held(stream, s) \/ (s = s0 /\ p \in Attachers)
      BY <1>5, <1>6, <2>1 DEF Held, Procs
    <2>4. \A s : s # s0 => (Loads(stream, s) => Loads(stream', s))
      BY <1>5 DEF Loads
    <2>5. \A n \in 1..seq[s0] : Written(stream', s0, n)
      BY <1>4, <1>6 DEF Written
    <2>6. \A s, n : Written(stream, s, n) => Written(stream', s, n)
      BY <1>3, <1>5 DEF Written
    <2> QED BY <2>2, <2>3, <2>4, <2>5, <2>6
  <1>12. ShapeInv'
    <2>1. p = Catchup => loop = "item"
      BY <1>3 DEF StreamIInv, ShapeInv
    <2> QED BY <1>1, <1>2, <1>3, <1>5, <1>6, <1>9, <2>1 DEF StreamIInv, ShapeInv
  <1>13. WithheldInv' /\ HeldInv'
    BY <1>1, <1>3, <1>11 DEF StreamIInv, BufferInv, WithheldInv, HeldInv
  <1>14. s0 \in dropped' => s0 \in attached \cup undone
    BY <1>9 DEF StreamIInv, BufferInv, DetachedInv
  <1>15. Followed \ left \subseteq Followed' /\ Followed' \subseteq (Followed \ left) \cup {s0}
    BY <1>1, <1>3 DEF Followed
  <1>16. DroppedInv'
    <2>1. s0 \in Followed' /\ s0 \in dropped' => s0 \in Followed
      BY <1>1, <1>3, <1>14 DEF Followed
    <2> QED BY <1>1, <1>3, <1>9, <1>11, <1>15, <2>1 DEF StreamIInv, BufferInv, DroppedInv
  <1>17. DetachedInv'
    BY <1>1, <1>3, <1>9, <1>11 DEF StreamIInv, BufferInv, DetachedInv
  <1>18. CoveredInv'
    <2>1. ASSUME NEW s \in Followed', s # s0
          PROVE  \/ s \in (queue \cup pending)' \/ Loads(stream, s)'
                 \/ \A n \in 1..seq'[s] : \/ n \in (sent[s] \cup told[s])'
                                          \/ (n \in deferred[s] /\ Active(stream, s))'
                                          \/ Written(stream, s, n)'
      <3>1. s \in Followed /\ s \notin left /\ s \in Sessions
        BY <1>1, <1>2, <1>15, <2>1 DEF Followed
      <3>2. sent'[s] = sent[s] /\ told'[s] = told[s]
        BY <1>8, <3>1
      <3> QED BY <1>1, <1>11, <2>1, <3>1, <3>2 DEF StreamIInv, BufferInv, CoveredInv
    <2> QED BY <1>1, <1>11, <2>1 DEF CoveredInv
  <1> QED BY <1>10, <1>12, <1>13, <1>16, <1>17, <1>18 DEF StreamIInv, BufferInv

\* A stream that only goes on: what it was writing is sent, or known to have failed.
LEMMA TransferKeeps ==
  ASSUME StreamIInv, NEW p \in Procs, Writes(p) \/ TransferFails(p)
  PROVE  StreamIInv'
  <1> DEFINE s0 == stream[p].s
  <1>1. /\ attached' = attached /\ undone' = undone /\ aborted' = aborted
        /\ deferred' = deferred /\ dropped' = dropped /\ queue' = queue /\ loop' = loop
        /\ pending' = pending /\ failed' = failed /\ timer' = timer /\ seq' = seq
        /\ closed' = closed /\ missed' = missed /\ commands' = commands
        /\ requests' = requests /\ Followed' = Followed
    BY DEF Writes, TransferFails, bufferVars, loopVars, counters, Followed
  <1>2. /\ stream \in Streams /\ stream[p] \in StreamRec /\ Catchup \in Procs
        /\ Followed \subseteq Sessions
    BY StreamTypes DEF StreamIInv, StreamTypeOK, Followed
  <1>3. stream[p].at = "write" /\ s0 \in Sessions
    BY DEF Writes, TransferFails, StreamIInv, ShapeInv
  <1>4. /\ stream' = [stream EXCEPT ![p] = stream'[p]]
        /\ stream'[p] \in StreamRec /\ stream'[p].at \in {"wait", "end"} /\ stream'[p].s = s0
        /\ stream'[p].from = stream[p].from /\ stream'[p].was = stream[p].was
        /\ \A o \in Procs : o # p => stream'[o] = stream[o]
    BY <1>2 DEF Writes, TransferFails, WriteEnds, Streams, StreamRec
  <1>5. stream' \in Streams
    BY <1>2, <1>4 DEF Streams
  <1>6. /\ blocked' \in BOOLEAN /\ faults' \in 0..MaxFaults
    <2>1. blocked' \in BOOLEAN
      BY DEF Writes, TransferFails, WriteEnds, StreamIInv, StreamTypeOK
    <2>2. faults' = faults \/ (faults < MaxFaults /\ faults' = faults + 1)
      BY DEF Writes, TransferFails, Fault, counters
    <2> QED BY <2>1, <2>2, StreamAssumption DEF StreamAssumption, StreamIInv, StreamTypeOK
  <1>7. 1..stream[p].snap \subseteq Events /\ stream[p].snap \in Nat
    BY <1>2, StreamAssumption DEF StreamAssumption, Events, StreamRec
  <1>8. /\ sent' \in [Sessions -> SUBSET Events] /\ told' \in [Sessions -> SUBSET Events]
        /\ \A s \in Sessions : sent[s] \cup told[s] \subseteq sent'[s] \cup told'[s]
        /\ 1..stream[p].snap \subseteq sent'[s0] \cup told'[s0]
    <2>0. sent \in [Sessions -> SUBSET Events] /\ told \in [Sessions -> SUBSET Events]
      BY DEF StreamIInv, StreamTypeOK
    <2>1. CASE Writes(p)
      <3>1. /\ sent' = [sent EXCEPT ![s0] = @ \cup 1..stream[p].snap]
            /\ told' = [told EXCEPT ![s0] = @ \ 1..stream[p].snap]
        BY <2>1 DEF Writes
      <3> QED BY <1>3, <1>7, <2>0, <3>1
    <2>2. CASE TransferFails(p)
      <3>1. sent' = sent /\ told' = [told EXCEPT ![s0] = @ \cup 1..stream[p].snap]
        BY <2>2 DEF TransferFails
      <3> QED BY <1>3, <1>7, <2>0, <3>1
    <2> QED BY <2>1, <2>2
  <1>9. StreamTypeOK'
    BY <1>1, <1>5, <1>6, <1>8 DEF StreamIInv, StreamTypeOK, Streams, StreamRec
  <1>10. \A o \in Procs : /\ stream'[o].s = stream[o].s
                          /\ Reserved(o, stream'[o]) <=> Reserved(o, stream[o])
    BY <1>3, <1>4 DEF Reserved
  <1>11. \A s : (Active(stream', s) <=> Active(stream, s)) /\ (Held(stream', s) <=> Held(stream, s))
    BY <1>10, SameReservations
  <1>12. /\ \A s : Loads(stream, s) => Loads(stream', s)
         /\ \A s, n : Written(stream, s, n) =>
              Written(stream', s, n) \/ (s = s0 /\ n <= stream[p].snap)
    BY <1>3, <1>4, <1>10 DEF Loads, Written
  <1>13. ShapeInv'
    <2>1. p = Catchup => loop = "item"
      BY <1>3 DEF StreamIInv, ShapeInv
    <2> QED BY <1>1, <1>2, <1>3, <1>4, <2>1 DEF StreamIInv, ShapeInv
  <1>14. WithheldInv' /\ HeldInv' /\ DroppedInv' /\ DetachedInv'
    BY <1>1, <1>11 DEF StreamIInv, BufferInv, WithheldInv, HeldInv, DroppedInv, DetachedInv
  <1>15. CoveredInv'
    <2> SUFFICES ASSUME NEW s \in Followed, s \notin queue \cup pending, ~Loads(stream, s)',
                        NEW n \in 1..seq[s]
                 PROVE  \/ n \in (sent[s] \cup told[s])'
                        \/ (n \in deferred[s] /\ Active(stream, s))'
                        \/ Written(stream, s, n)'
      BY <1>1 DEF CoveredInv
    <2>1. \/ n \in sent[s] \cup told[s]
          \/ n \in deferred[s] /\ Active(stream, s)
          \/ Written(stream, s, n)
      BY <1>12 DEF StreamIInv, BufferInv, CoveredInv
    <2>2. n \in Nat \ {0}
      BY <1>2 DEF StreamIInv, StreamTypeOK
    <2> QED BY <1>1, <1>2, <1>7, <1>8, <1>11, <1>12, <2>1, <2>2
  <1> QED BY <1>9, <1>13, <1>14, <1>15 DEF StreamIInv, BufferInv

(***************************************************************************)
(* The end of a stream, and the catch-up it may start.                     *)
(***************************************************************************)

Without(st, p) == [st EXCEPT ![p] = NoStream]

LEMMA StreamRemoved ==
  ASSUME NEW st \in Streams, NEW p \in Procs, Reserved(p, st[p])
  PROVE  LET st2 == Without(st, p) IN
         /\ st2 \in Streams /\ st2[p].at = "no" /\ ~Reserved(p, st2[p])
         /\ st2[p].from = NoSession /\ ~st2[p].was
         /\ \A o \in Procs : o # p => st2[o] = st[o]
         /\ \A s : Active(st, s) <=> Active(st2, s) \/ s = st[p].s
         /\ \A s : Held(st, s) <=> Held(st2, s) \/ (s = st[p].s /\ p \in Attachers)
         /\ \A s : Loads(st, s) => \/ Loads(st2, s)
                                   \/ s = st[p].s /\ st[p].at = "load" /\ ~st[p].was
         /\ \A s, n : Written(st, s, n) => Written(st2, s, n) \/ st[p].at = "write"
  <1> DEFINE st2 == Without(st, p)
  <1>1. NoStream \in StreamRec
    BY StreamAssumption DEF StreamAssumption, NoStream, StreamRec
  <1>2. /\ st2 \in Streams /\ st2[p] = NoStream
        /\ \A o \in Procs : o # p => st2[o] = st[o]
    BY <1>1 DEF Streams, Without
  <1> HIDE DEF st2
  <1>3. st2[p].at = "no" /\ st2[p].from = NoSession /\ ~st2[p].was
    BY <1>2 DEF NoStream
  <1>4. ~Reserved(p, st2[p])
    BY <1>3 DEF Reserved
  <1>5. \A s : Active(st, s) <=> Active(st2, s) \/ s = st[p].s
    BY <1>2, <1>4 DEF Active
  <1>6. \A s : Held(st, s) <=> Held(st2, s) \/ (s = st[p].s /\ p \in Attachers)
    BY <1>2, <1>4 DEF Held, Procs
  <1>7. \A s : Loads(st, s) => \/ Loads(st2, s)
                               \/ s = st[p].s /\ st[p].at = "load" /\ ~st[p].was
    BY <1>2 DEF Loads
  <1>8. \A s, n : Written(st, s, n) => Written(st2, s, n) \/ st[p].at = "write"
    BY <1>2 DEF Written
  <1> QED BY <1>2, <1>3, <1>4, <1>5, <1>6, <1>7, <1>8 DEF st2

\* catchUpClient after a stream was released, or for a new request: what is in q is
\* begun or stays queued, and more stays queued.
LEMMA CatchUpFacts ==
  ASSUME StreamIInv, NEW st \in Streams, st[Catchup] = stream[Catchup],
         \A p \in Procs : st[p] = stream[p] \/ st[p].at = "no",
         NEW q \in SUBSET Sessions, NEW dr \in SUBSET Sessions, NEW more \in SUBSET Sessions,
         CatchUp(q, st, dr, aborted, more), closed' = closed
  PROVE  /\ stream' \in Streams /\ queue' \subseteq Sessions /\ pending' \subseteq Sessions
         /\ loop' \in {"no", "item", "between", "check", "exited"}
         /\ failed' \in BOOLEAN /\ timer' \in BOOLEAN /\ missed' \in BOOLEAN
         /\ aborted' \subseteq aborted /\ dropped' \subseteq dr /\ ShapeInv'
         /\ \A s \in q : s \in queue' \cup pending' \/ Loads(stream', s)
         /\ more \subseteq queue' /\ pending \subseteq pending'
         /\ \A s : /\ Active(st, s) => Active(stream', s)
                   /\ Held(st, s) <=> Held(stream', s)
                   /\ Loads(st, s) => Loads(stream', s)
                   /\ \A n : Written(st, s, n) => Written(stream', s, n)
         /\ \A s \in dropped' :
              /\ s \in q => s \in queue' \/ (s \in pending' /\ ~Active(stream', s))
              /\ s \in pending /\ ~Active(st, s) => s \in pending' /\ ~Active(stream', s)
              /\ Active(stream', s) => Active(st, s)
  <1>1. /\ aborted \subseteq closed /\ (loop \notin {"item", "between"} => pending = {})
        /\ loop # "item" => stream[Catchup].at = "no"
        /\ stream[Catchup].from = NoSession /\ ~stream[Catchup].was
        /\ \A p \in Procs : stream[p].at # "no" => /\ stream[p].s \in Sessions
                                                   /\ stream[p].from # stream[p].s
    BY DEF StreamIInv, ShapeInv
  <1>2. /\ queue \subseteq Sessions /\ pending \subseteq Sessions
        /\ loop \in {"no", "item", "between", "check", "exited"}
        /\ failed \in BOOLEAN /\ timer \in BOOLEAN /\ missed \in BOOLEAN
    BY DEF StreamIInv, StreamTypeOK
  <1>3. CASE loop = "no" /\ CanStart(q, st)
    <2>1. /\ BeginBatch(q, st, dr, aborted) /\ queue' = more /\ timer' = timer /\ missed' = missed
          /\ ~Streaming(st)
      BY <1>3 DEF CatchUp, CanStart
    <2>2. PICK s0 \in q :
             /\ stream' \in Streams /\ loop' = "item" /\ failed' = FALSE
             /\ stream'[Catchup].from = NoSession /\ ~stream'[Catchup].was
             /\ \A p \in Procs : stream'[p] = st[p] \/ (p = Catchup /\ stream'[p].s = s0)
             /\ pending' = q \ {s0} /\ dropped' = dr \ {s0} /\ aborted' = aborted \ {s0}
             /\ Loads(stream', s0)
             /\ \A s : (Active(stream', s) <=> s = s0) /\ ~Held(stream', s)
      BY <2>1, BatchBegins
    <2>3. \A s : /\ ~Active(st, s) /\ ~Held(st, s) /\ ~Loads(st, s)
                 /\ \A n : ~Written(st, s, n)
      BY <2>1, NotStreaming
    <2>4. ShapeInv'
      BY <1>1, <2>2, StreamAssumption DEF StreamAssumption, ShapeInv
    <2> QED BY <1>1, <1>2, <1>3, <2>1, <2>2, <2>3, <2>4
  <1>4. CASE ~(loop = "no" /\ CanStart(q, st))
    <2>1. /\ queue' = q \cup more /\ stream' = st /\ dropped' = dr /\ aborted' = aborted
          /\ loop' = loop /\ pending' = pending /\ failed' = failed /\ timer' = timer
          /\ missed' \in BOOLEAN
      BY <1>2, <1>4 DEF CatchUp, loopVars
    <2>2. ShapeInv'
      BY <1>1, <2>1 DEF ShapeInv
    <2> QED BY <1>1, <1>2, <2>1, <2>2
  <1> QED BY <1>3, <1>4

\* What becomes of the payloads that were withheld.
LEMMA DeferredFacts ==
  ASSUME StreamTypeOK, NEW s0 \in Sessions, NEW delivered, NEW more,
         ReleaseDeferred(s0, delivered, more)
  PROVE  /\ sent' \in [Sessions -> SUBSET Events] /\ deferred' \in [Sessions -> SUBSET Events]
         /\ blocked' \in BOOLEAN
         /\ \A s \in Sessions : sent[s] \subseteq sent'[s]
         /\ \A s \in Sessions : s # s0 => deferred'[s] = deferred[s]
         /\ Active(stream', s0) => deferred'[s0] = deferred[s0]
         /\ ~Active(stream', s0) => deferred'[s0] = {}
         /\ ~Active(stream', s0) /\ delivered /\ s0 \in attached' =>
              deferred[s0] \subseteq sent'[s0] \/ more = {s0}
  <1>1. /\ sent \in [Sessions -> SUBSET Events] /\ deferred \in [Sessions -> SUBSET Events]
        /\ blocked \in BOOLEAN
    BY DEF StreamTypeOK
  <1>2. CASE Active(stream', s0)
    BY <1>1, <1>2 DEF ReleaseDeferred
  <1>3. CASE ~Active(stream', s0) /\ delivered /\ deferred[s0] # {} /\ s0 \in attached'
    <2>1. /\ deferred' = [deferred EXCEPT ![s0] = {}] /\ Replays(s0)
          /\ more = (IF blocked' THEN {s0} ELSE {})
      BY <1>3 DEF ReleaseDeferred
    <2>2. /\ sent' \in [Sessions -> SUBSET Events] /\ blocked' \in BOOLEAN
          /\ \A s \in Sessions : sent[s] \subseteq sent'[s]
          /\ blocked' \/ deferred[s0] \subseteq sent'[s0]
      BY <1>1, <2>1 DEF Replays
    <2> QED BY <1>1, <1>3, <2>1, <2>2
  <1>4. CASE ~Active(stream', s0) /\ ~(delivered /\ deferred[s0] # {} /\ s0 \in attached')
    BY <1>1, <1>4 DEF ReleaseDeferred
  <1> QED BY <1>2, <1>3, <1>4

\* The release of an attach or reattach, which may have detached its session (gone):
\* what was withheld is replayed, or there is a reason not to.
LEMMA ReleaseKeeps ==
  ASSUME StreamIInv, NEW x \in Attachers, Reserved(x, stream[x]),
         NEW gone, gone \subseteq {stream[x].s} \cap attached,
         NEW q \in SUBSET Sessions, queue \ gone \subseteq q, NEW delivered \in BOOLEAN,
         Release(x, q, dropped \ gone, delivered),
         attached' = attached \ gone, Detached(gone, [stream EXCEPT ![x] = NoStream]),
         seq' = seq, closed' = closed,
         \/ stream[x].at = "end"
         \/ stream[x].at = "load" /\ (stream[x].was \/ stream[x].s \notin attached'),
         \/ delivered \/ deferred[stream[x].s] = {}
         \/ stream[x].s \in q \/ stream[x].s \notin attached'
  PROVE  /\ ShapeInv' /\ BufferInv'
         /\ commands' = commands /\ requests' = requests /\ faults' \in 0..MaxFaults =>
              StreamTypeOK'
  <1> DEFINE s0 == stream[x].s
             st == [stream EXCEPT ![x] = NoStream]
  <1>1. /\ stream \in Streams /\ x \in Procs /\ x # Catchup /\ Catchup \in Procs
        /\ Followed \subseteq Sessions /\ StreamTypeOK
    BY StreamTypes, StreamAssumption DEF StreamAssumption, StreamIInv, StreamTypeOK, Followed
  <1>2. /\ st \in Streams
        /\ \A p \in Procs : st[p] = stream[p] \/ st[p].at = "no"
        /\ st[Catchup] = stream[Catchup]
        /\ \A s : Active(stream, s) <=> Active(st, s) \/ s = s0
        /\ \A s : Held(stream, s) <=> Held(st, s) \/ s = s0
        /\ \A s : Loads(stream, s) => \/ Loads(st, s)
                                      \/ s = s0 /\ stream[x].at = "load" /\ ~stream[x].was
        /\ \A s, n : Written(stream, s, n) => Written(st, s, n)
    <2>1. st = Without(stream, x)
      BY DEF Without
    <2> HIDE DEF st
    <2>2. /\ st \in Streams /\ st[x].at = "no"
          /\ \A o \in Procs : o # x => st[o] = stream[o]
          /\ \A s : Active(stream, s) <=> Active(st, s) \/ s = s0
          /\ \A s : Held(stream, s) <=> Held(st, s) \/ (s = s0 /\ x \in Attachers)
          /\ \A s : Loads(stream, s) => \/ Loads(st, s)
                                        \/ s = s0 /\ stream[x].at = "load" /\ ~stream[x].was
          /\ \A s, n : Written(stream, s, n) => Written(st, s, n) \/ stream[x].at = "write"
      BY <1>1, <2>1, StreamRemoved
    <2>3. stream[x].at # "write"
      OBVIOUS
    <2> QED BY <1>1, <2>2, <2>3
  <1>3. s0 \in Sessions
    BY <1>1 DEF StreamIInv, ShapeInv
  <1>4. PICK more \in {{}, {s0}} : /\ CatchUp(q, st, dropped \ gone, aborted, more)
                                   /\ ReleaseDeferred(s0, delivered, more)
    BY DEF Release
  <1> HIDE DEF s0, st
  <1>5. more \in SUBSET Sessions /\ dropped \ gone \in SUBSET Sessions
    BY <1>1, <1>3, <1>4 DEF StreamTypeOK
  <1>6. /\ stream' \in Streams /\ queue' \subseteq Sessions /\ pending' \subseteq Sessions
        /\ loop' \in {"no", "item", "between", "check", "exited"}
        /\ failed' \in BOOLEAN /\ timer' \in BOOLEAN /\ missed' \in BOOLEAN
        /\ aborted' \subseteq aborted /\ dropped' \subseteq dropped \ gone /\ ShapeInv'
        /\ \A s \in q : s \in queue' \cup pending' \/ Loads(stream', s)
        /\ more \subseteq queue' /\ pending \subseteq pending'
        /\ \A s : /\ Active(st, s) => Active(stream', s)
                  /\ Held(st, s) <=> Held(stream', s)
                  /\ Loads(st, s) => Loads(stream', s)
                  /\ \A n : Written(st, s, n) => Written(stream', s, n)
        /\ \A s \in dropped' :
             /\ s \in q => s \in queue' \/ (s \in pending' /\ ~Active(stream', s))
             /\ s \in pending /\ ~Active(st, s) => s \in pending' /\ ~Active(stream', s)
             /\ Active(stream', s) => Active(st, s)
    BY <1>2, <1>4, <1>5, CatchUpFacts
  <1>7. /\ sent' \in [Sessions -> SUBSET Events] /\ deferred' \in [Sessions -> SUBSET Events]
        /\ blocked' \in BOOLEAN
        /\ \A s \in Sessions : sent[s] \subseteq sent'[s]
        /\ \A s \in Sessions : s # s0 => deferred'[s] = deferred[s]
        /\ Active(stream', s0) => deferred'[s0] = deferred[s0]
        /\ ~Active(stream', s0) => deferred'[s0] = {}
        /\ ~Active(stream', s0) /\ delivered /\ s0 \in attached' =>
             deferred[s0] \subseteq sent'[s0] \/ more = {s0}
    BY <1>1, <1>3, <1>4, DeferredFacts
  <1>8. /\ told' \in [Sessions -> SUBSET Events]
        /\ \A s \in Sessions : s \notin gone => told'[s] = told[s]
        /\ undone' = (undone \ gone) \cup {s \in gone : Held(st, s)}
    BY <1>1 DEF Detached, Forget, StreamTypeOK, st
  <1>9. Followed' = Followed \ gone /\ gone \subseteq {s0}
    BY <1>8 DEF Followed, s0
  <1>10. commands' = commands /\ requests' = requests /\ faults' \in 0..MaxFaults =>
           StreamTypeOK'
    BY <1>1, <1>3, <1>6, <1>7, <1>8, <1>9 DEF StreamTypeOK, Streams, StreamRec
  <1>11. WithheldInv'
    BY <1>2, <1>3, <1>6, <1>7 DEF StreamIInv, BufferInv, WithheldInv
  <1>12. HeldInv'
    BY <1>2, <1>6, <1>8, <1>9 DEF StreamIInv, BufferInv, HeldInv
  <1>13. DroppedInv'
    <2> SUFFICES ASSUME NEW s \in Followed', s \in dropped'
                 PROVE  s \in queue' \/ (~Active(stream', s) /\ s \in pending')
      BY DEF DroppedInv
    <2>1. s \in Followed /\ s \notin gone /\ s \in dropped
      BY <1>6, <1>9
    <2>2. s \in queue \/ (~Active(stream, s) /\ s \in pending)
      BY <2>1 DEF StreamIInv, BufferInv, DroppedInv
    <2> QED BY <1>2, <1>6, <2>1, <2>2
  <1>14. DetachedInv'
    BY <1>2, <1>6, <1>8 DEF StreamIInv, BufferInv, DetachedInv
  <1>15. CoveredInv'
    <2> SUFFICES ASSUME NEW s \in Followed', s \notin queue' \cup pending', ~Loads(stream', s),
                        NEW n \in 1..seq[s]
                 PROVE  \/ n \in sent'[s] \cup told'[s]
                        \/ n \in deferred'[s] /\ Active(stream', s)
                        \/ Written(stream', s, n)
      BY DEF CoveredInv
    <2>1. s \in Followed /\ s \notin gone /\ s \in attached' /\ s \in Sessions
      BY <1>1, <1>9 DEF Followed
    <2>2. s \notin q /\ s \notin queue \cup pending
      BY <1>6, <2>1
    <2>3. ~Loads(stream, s)
      BY <1>2, <1>6, <2>1 DEF s0
    <2>4. \/ n \in sent[s] \cup told[s]
          \/ n \in deferred[s] /\ Active(stream, s)
          \/ Written(stream, s, n)
      BY <2>1, <2>2, <2>3 DEF StreamIInv, BufferInv, CoveredInv
    <2>5. CASE n \in deferred[s] /\ Active(stream, s) /\ s # s0
      BY <1>2, <1>6, <1>7, <2>1, <2>5
    <2>6. CASE n \in deferred[s] /\ s = s0
      <3>1. delivered
        BY <2>1, <2>2, <2>6 DEF s0
      <3>2. more # {s0}
        BY <1>6, <2>6
      <3> QED BY <1>7, <2>1, <2>6, <3>1, <3>2
    <2> QED BY <1>2, <1>6, <1>7, <1>8, <2>1, <2>4, <2>5, <2>6
  <1> QED BY <1>6, <1>10, <1>11, <1>12, <1>13, <1>14, <1>15 DEF BufferInv

LEMMA AttachFailsKeeps ==
  ASSUME StreamIInv, NEW x \in Attachers, AttachFails(x)
  PROVE  StreamIInv'
  <1> DEFINE s0 == stream[x].s
  <1>1. /\ stream \in Streams /\ x \in Procs /\ x # Catchup /\ Catchup \in Procs
        /\ StreamTypeOK /\ stream[x] \in StreamRec
    BY StreamTypes, StreamAssumption DEF StreamAssumption, StreamIInv
  <1>2. /\ seq' = seq /\ closed' = closed /\ commands' = commands /\ requests' = requests
        /\ stream[x].at = "load"
    BY DEF AttachFails
  <1>3. faults' \in 0..MaxFaults
    BY <1>1, StreamAssumption DEF StreamAssumption, AttachFails, Fault, StreamTypeOK
  <1>4. CASE stream[x].from = NoSession
    <2>1. /\ stream' = [stream EXCEPT ![x] = NoStream]
          /\ UNCHANGED <<clientVars, aborted, bufferVars, loopVars, blocked, missed>>
      BY <1>4 DEF AttachFails
    <2>2. NoStream \in StreamRec /\ NoStream.at = "no"
      BY StreamAssumption DEF StreamAssumption, NoStream, StreamRec
    <2>3. /\ stream' \in Streams /\ stream'[x].at = "no"
          /\ \A p \in Procs : p # x => stream'[p] = stream[p]
      BY <1>1, <2>1, <2>2 DEF Streams
    <2>4. ~Reserved(x, stream[x]) /\ ~Reserved(x, stream'[x])
      BY <1>1, <1>2, <1>4, <2>3 DEF Reserved
    <2>5. \A s : /\ Active(stream', s) <=> Active(stream, s)
                 /\ Held(stream', s) <=> Held(stream, s)
                 /\ Loads(stream', s) <=> Loads(stream, s)
                 /\ \A n : Written(stream', s, n) <=> Written(stream, s, n)
      BY <1>1, <1>2, <2>3, <2>4 DEF Active, Held, Loads, Written, Procs
    <2>6. StreamTypeOK'
      BY <1>1, <1>2, <1>3, <2>1, <2>3 DEF StreamTypeOK, Streams, StreamRec, clientVars,
                                          bufferVars, loopVars
    <2>7. ShapeInv'
      BY <1>1, <1>2, <2>1, <2>3 DEF StreamIInv, ShapeInv, loopVars, clientVars
    <2>8. BufferInv'
      BY <1>2, <2>1, <2>5 DEF StreamIInv, BufferInv, WithheldInv, HeldInv, DroppedInv, DetachedInv,
                              CoveredInv, Followed, clientVars, bufferVars, loopVars
    <2> QED BY <2>6, <2>7, <2>8 DEF StreamIInv
  <1>5. CASE stream[x].from # NoSession
    <2> DEFINE gone == IF stream[x].was THEN {} ELSE {s0} \cap attached
    <2>1. /\ attached' = attached \ gone
          /\ Detached(gone, [stream EXCEPT ![x] = NoStream])
          /\ Release(x, queue \ gone, dropped \ gone, stream[x].was)
      BY <1>5 DEF AttachFails
    <2>2. Reserved(x, stream[x])
      BY <1>2, <1>5 DEF Reserved
    <2>3. /\ gone \subseteq {s0} \cap attached /\ queue \ gone \in SUBSET Sessions
          /\ stream[x].was \in BOOLEAN /\ (~stream[x].was => s0 \notin attached')
      BY <1>1, <2>1 DEF StreamTypeOK, StreamRec
    <2> HIDE DEF gone
    <2> QED BY <1>2, <1>3, <2>1, <2>2, <2>3, ReleaseKeeps DEF StreamIInv
  <1> QED BY <1>4, <1>5

LEMMA StreamEndsKeeps ==
  ASSUME StreamIInv, NEW x \in Attachers, StreamEnds(x)
  PROVE  StreamIInv'
  <1> DEFINE s0 == stream[x].s
             q == AfterStream(stream[x])
  <1>1. /\ x \in Procs /\ StreamTypeOK /\ stream[x] \in StreamRec
    BY StreamTypes DEF StreamIInv
  <1>2. /\ attached' = attached /\ told' = told /\ undone' = undone /\ seq' = seq
        /\ closed' = closed /\ commands' = commands /\ requests' = requests /\ faults' = faults
        /\ stream[x].at = "end"
    BY DEF StreamEnds, counters
  <1>3. s0 \in Sessions /\ Reserved(x, stream[x]) /\ stream[x].ok \in BOOLEAN
    BY <1>1, <1>2 DEF StreamIInv, ShapeInv, Reserved, StreamRec
  <1>4. /\ queue \subseteq q /\ q \in SUBSET Sessions
        /\ stream[x].ok \/ deferred[s0] = {} \/ s0 \in q \/ s0 \notin attached
    BY <1>1, <1>3 DEF AfterStream, StreamTypeOK
  <1>5. Release(x, q, dropped, stream[x].ok)
    BY DEF StreamEnds
  <1>6. Detached({}, [stream EXCEPT ![x] = NoStream])
    BY <1>1, <1>2 DEF Detached, Forget, StreamTypeOK
  <1>7. dropped \ {} = dropped /\ attached \ {} = attached /\ queue \ {} = queue
    OBVIOUS
  <1> HIDE DEF q, s0
  <1>8. /\ ShapeInv' /\ BufferInv'
        /\ commands' = commands /\ requests' = requests /\ faults' \in 0..MaxFaults =>
             StreamTypeOK'
    <2>1. {} \subseteq {stream[x].s} \cap attached
      OBVIOUS
    <2> QED BY <1>2, <1>3, <1>4, <1>5, <1>6, <1>7, <2>1, ReleaseKeeps DEF s0
  <1> QED BY <1>1, <1>2, <1>8 DEF StreamIInv, StreamTypeOK

LEMMA RequestKeeps ==
  ASSUME StreamIInv, NEW s0 \in Sessions, RequestCatchup(s0)
  PROVE  StreamIInv'
  <1> DEFINE q == queue \cup {s0}
  <1>1. /\ attached' = attached /\ undone' = undone /\ sent' = sent /\ told' = told
        /\ deferred' = deferred /\ blocked' = blocked /\ seq' = seq /\ closed' = closed
        /\ commands' = commands /\ faults' = faults /\ Followed' = Followed
        /\ CatchUp(q, stream, dropped, aborted, {})
    BY DEF RequestCatchup, clientVars, Followed
  <1>2. /\ stream \in Streams /\ StreamTypeOK /\ q \in SUBSET Sessions
        /\ dropped \in SUBSET Sessions /\ {} \in SUBSET Sessions
    BY StreamTypes DEF StreamIInv, StreamTypeOK
  <1> HIDE DEF q
  <1>3. requests' \in 0..MaxRequests
    BY <1>2, StreamAssumption DEF StreamAssumption, RequestCatchup, StreamTypeOK
  <1>4. /\ stream' \in Streams /\ queue' \subseteq Sessions /\ pending' \subseteq Sessions
        /\ loop' \in {"no", "item", "between", "check", "exited"}
        /\ failed' \in BOOLEAN /\ timer' \in BOOLEAN /\ missed' \in BOOLEAN
        /\ aborted' \subseteq aborted /\ dropped' \subseteq dropped /\ ShapeInv'
        /\ \A s \in q : s \in queue' \cup pending' \/ Loads(stream', s)
        /\ pending \subseteq pending'
        /\ \A s : /\ Active(stream, s) => Active(stream', s)
                  /\ Held(stream, s) <=> Held(stream', s)
                  /\ Loads(stream, s) => Loads(stream', s)
                  /\ \A n : Written(stream, s, n) => Written(stream', s, n)
        /\ \A s \in dropped' :
             /\ s \in q => s \in queue' \/ (s \in pending' /\ ~Active(stream', s))
             /\ s \in pending /\ ~Active(stream, s) => s \in pending' /\ ~Active(stream', s)
             /\ Active(stream', s) => Active(stream, s)
    <2>1. stream[Catchup] = stream[Catchup] /\ \A p \in Procs : stream[p] = stream[p]
      OBVIOUS
    <2> QED BY <1>1, <1>2, <2>1, CatchUpFacts
  <1>5. StreamTypeOK'
    BY <1>1, <1>2, <1>3, <1>4 DEF StreamTypeOK, Streams, StreamRec
  <1>6. WithheldInv' /\ HeldInv'
    BY <1>1, <1>4 DEF StreamIInv, BufferInv, WithheldInv, HeldInv
  <1>7. DroppedInv' /\ DetachedInv'
    BY <1>1, <1>4 DEF StreamIInv, BufferInv, DroppedInv, DetachedInv, q
  <1>8. CoveredInv'
    BY <1>1, <1>4 DEF StreamIInv, BufferInv, CoveredInv, q
  <1> QED BY <1>4, <1>5, <1>6, <1>7, <1>8 DEF StreamIInv, BufferInv

\* An item of the catch-up is over: the next one, or the end of the batch, follows.
LEMMA ItemOver ==
  ASSUME StreamIInv, ItemEnds \/ ItemFails
  PROVE  LET s0 == stream[Catchup].s IN
         /\ Reserved(Catchup, stream[Catchup]) /\ s0 \in Sessions
         /\ stream' = Without(stream, Catchup) /\ stream' \in Streams
         /\ loop = "item" /\ loop' = "between" /\ ShapeInv'
         /\ attached' = attached /\ told' = told /\ undone' = undone /\ seq' = seq
         /\ closed' = closed /\ Followed' = Followed /\ pending' = pending
         /\ aborted' = aborted /\ timer' = timer /\ missed' = missed /\ commands' = commands
         /\ requests' = requests /\ failed' \in BOOLEAN
         /\ \A s : Active(stream, s) <=> Active(stream', s) \/ s = s0
         /\ \A s : Held(stream, s) <=> Held(stream', s)
         /\ \A s : Active(stream', s) => Held(stream', s)
         /\ \A s : Loads(stream, s) => \/ Loads(stream', s)
                                       \/ s = s0 /\ stream[Catchup].at = "load"
         /\ \A s, n : Written(stream, s, n) => Written(stream', s, n)
  <1> DEFINE s0 == stream[Catchup].s
  <1>1. stream[Catchup].at \in {"load", "end"} /\ Catchup \in Procs /\ Catchup \notin Attachers
    BY StreamTypes, StreamAssumption DEF StreamAssumption, StreamIInv, ItemEnds, ItemFails
  <1>2. Reserved(Catchup, stream[Catchup]) /\ s0 \in Sessions /\ loop = "item"
    BY <1>1 DEF Reserved, StreamIInv, ShapeInv
  <1>3. /\ stream' = Without(stream, Catchup)
        /\ loop' = "between" /\ attached' = attached /\ told' = told /\ undone' = undone
        /\ seq' = seq /\ closed' = closed /\ Followed' = Followed /\ pending' = pending
        /\ aborted' = aborted /\ timer' = timer /\ missed' = missed /\ commands' = commands
        /\ requests' = requests /\ failed' \in BOOLEAN
    BY DEF ItemEnds, ItemFails, Without, Followed, counters, clientVars, StreamIInv, StreamTypeOK
  <1>4. stream \in Streams
    BY StreamTypes DEF StreamIInv
  <1>5. /\ stream' \in Streams /\ stream'[Catchup].at = "no" /\ ~Reserved(Catchup, stream'[Catchup])
        /\ stream'[Catchup].from = NoSession /\ ~stream'[Catchup].was
        /\ \A o \in Procs : o # Catchup => stream'[o] = stream[o]
        /\ \A s : Active(stream, s) <=> Active(stream', s) \/ s = s0
        /\ \A s : Held(stream, s) <=> Held(stream', s) \/ (s = s0 /\ Catchup \in Attachers)
        /\ \A s : Loads(stream, s) =>
             \/ Loads(stream', s)
             \/ s = s0 /\ stream[Catchup].at = "load" /\ ~stream[Catchup].was
        /\ \A s, n : Written(stream, s, n) => Written(stream', s, n) \/ stream[Catchup].at = "write"
    BY <1>1, <1>2, <1>3, <1>4, StreamRemoved
  <1>6. ShapeInv'
    BY <1>3, <1>5 DEF StreamIInv, ShapeInv
  <1>7. \A s : Active(stream', s) => Held(stream', s)
    BY <1>5 DEF Active, Held, Procs
  <1>8. \A s, n : Written(stream, s, n) => Written(stream', s, n)
    BY <1>1, <1>5
  <1> QED BY <1>1, <1>2, <1>3, <1>5, <1>6, <1>7, <1>8

LEMMA ItemEndsKeeps ==
  ASSUME StreamIInv, ItemEnds
  PROVE  StreamIInv'
  <1> DEFINE s0 == stream[Catchup].s
  <1>1. /\ s0 \in Sessions /\ stream' \in Streams /\ loop' = "between" /\ ShapeInv'
        /\ attached' = attached /\ told' = told /\ undone' = undone /\ seq' = seq
        /\ closed' = closed /\ Followed' = Followed /\ pending' = pending
        /\ aborted' = aborted /\ timer' = timer /\ missed' = missed /\ commands' = commands
        /\ requests' = requests /\ failed' \in BOOLEAN
        /\ \A s : Active(stream, s) <=> Active(stream', s) \/ s = s0
        /\ \A s : Held(stream, s) <=> Held(stream', s)
        /\ \A s : Loads(stream, s) => \/ Loads(stream', s)
                                      \/ s = s0 /\ stream[Catchup].at = "load"
        /\ \A s, n : Written(stream, s, n) => Written(stream', s, n)
    BY ItemOver
  <1>2. dropped' = dropped /\ faults' = faults /\ (stream[Catchup].ok \/ s0 \in closed)
    BY DEF ItemEnds, counters, StreamIInv, ShapeInv
  <1>3. PICK more \in {{}, {s0}} :
          /\ queue' = AfterStream(stream[Catchup]) \cup more
          /\ ReleaseDeferred(s0, stream[Catchup].ok, more)
    BY DEF ItemEnds
  <1>4. queue \subseteq queue' /\ more \subseteq queue' /\ queue' \subseteq Sessions
    BY <1>1, <1>3 DEF AfterStream, StreamIInv, StreamTypeOK
  <1>5. StreamTypeOK /\ Followed \subseteq Sessions
    BY DEF StreamIInv, StreamTypeOK, Followed
  <1>6. /\ sent' \in [Sessions -> SUBSET Events] /\ deferred' \in [Sessions -> SUBSET Events]
        /\ blocked' \in BOOLEAN
        /\ \A s \in Sessions : sent[s] \subseteq sent'[s]
        /\ \A s \in Sessions : s # s0 => deferred'[s] = deferred[s]
        /\ Active(stream', s0) => deferred'[s0] = deferred[s0]
        /\ ~Active(stream', s0) => deferred'[s0] = {}
        /\ ~Active(stream', s0) /\ stream[Catchup].ok /\ s0 \in attached' =>
             deferred[s0] \subseteq sent'[s0] \/ more = {s0}
    BY <1>1, <1>3, <1>5, DeferredFacts
  <1> HIDE DEF s0
  <1>7. StreamTypeOK'
    BY <1>1, <1>2, <1>4, <1>5, <1>6 DEF StreamTypeOK, Streams, StreamRec
  <1>8. WithheldInv' /\ HeldInv'
    BY <1>1, <1>6 DEF StreamIInv, BufferInv, WithheldInv, HeldInv
  <1>9. DroppedInv' /\ DetachedInv'
    BY <1>1, <1>2, <1>4 DEF StreamIInv, BufferInv, DroppedInv, DetachedInv
  <1>10. CoveredInv'
    <2> SUFFICES ASSUME NEW s \in Followed, s \notin queue' \cup pending', ~Loads(stream', s),
                        NEW n \in 1..seq[s]
                 PROVE  \/ n \in sent'[s] \cup told'[s]
                        \/ n \in deferred'[s] /\ Active(stream', s)
                        \/ Written(stream', s, n)
      BY <1>1 DEF CoveredInv
    <2>1. s \in Sessions /\ s \in attached' /\ s \notin closed
      BY <1>1, <1>5 DEF Followed
    <2>2. s = s0 => stream[Catchup].at = "end" /\ stream[Catchup].ok
      BY <2>1 DEF ItemEnds, StreamIInv, ShapeInv, s0
    <2>3. \/ n \in sent[s] \cup told[s]
          \/ n \in deferred[s] /\ Active(stream, s)
          \/ Written(stream, s, n)
      BY <1>1, <1>4, <2>2 DEF StreamIInv, BufferInv, CoveredInv
    <2>4. CASE s # s0
      BY <1>1, <1>6, <2>1, <2>3, <2>4
    <2>5. CASE s = s0
      BY <1>1, <1>4, <1>6, <2>1, <2>2, <2>3, <2>5
    <2> QED BY <2>4, <2>5
  <1> QED BY <1>1, <1>7, <1>8, <1>9, <1>10 DEF StreamIInv, BufferInv

\* The catch block drops what was withheld, and queues the session while it is attached.
LEMMA ItemFailsKeeps ==
  ASSUME StreamIInv, ItemFails
  PROVE  StreamIInv'
  <1> DEFINE s0 == stream[Catchup].s
  <1>1. /\ s0 \in Sessions /\ stream' \in Streams /\ loop' = "between" /\ ShapeInv'
        /\ attached' = attached /\ told' = told /\ undone' = undone /\ seq' = seq
        /\ closed' = closed /\ Followed' = Followed /\ pending' = pending
        /\ aborted' = aborted /\ timer' = timer /\ missed' = missed /\ commands' = commands
        /\ requests' = requests /\ failed' \in BOOLEAN
        /\ \A s : Active(stream, s) <=> Active(stream', s) \/ s = s0
        /\ \A s : Held(stream, s) <=> Held(stream', s)
        /\ \A s : Active(stream', s) => Held(stream', s)
        /\ \A s : Loads(stream, s) => \/ Loads(stream', s)
                                      \/ s = s0 /\ stream[Catchup].at = "load"
        /\ \A s, n : Written(stream, s, n) => Written(stream', s, n)
    BY ItemOver
  <1>2. /\ sent' = sent /\ blocked' = blocked /\ dropped' = dropped \cup {s0}
        /\ queue' = IF s0 \in attached /\ s0 \notin aborted THEN queue \cup {s0} ELSE queue
        /\ deferred' = [deferred EXCEPT ![s0] = {}]
    BY DEF ItemFails, clientVars
  <1>3. /\ StreamTypeOK /\ aborted \subseteq closed /\ queue \subseteq queue'
        /\ queue' \subseteq Sessions /\ (s0 \in Followed => s0 \in queue')
    BY <1>1, <1>2 DEF StreamIInv, StreamTypeOK, ShapeInv, Followed
  <1>4. /\ deferred' \in [Sessions -> SUBSET Events] /\ deferred'[s0] = {}
        /\ \A s \in Sessions : s # s0 => deferred'[s] = deferred[s]
    BY <1>1, <1>2, <1>3 DEF StreamTypeOK
  <1>5. faults' \in 0..MaxFaults
    BY <1>3, StreamAssumption DEF StreamAssumption, ItemFails, Fault, StreamTypeOK
  <1> HIDE DEF s0
  <1>6. StreamTypeOK'
    BY <1>1, <1>2, <1>3, <1>4, <1>5 DEF StreamTypeOK, Streams, StreamRec
  <1>7. WithheldInv' /\ HeldInv'
    BY <1>1, <1>4 DEF StreamIInv, BufferInv, WithheldInv, HeldInv
  <1>8. DroppedInv'
    BY <1>1, <1>2, <1>3 DEF StreamIInv, BufferInv, DroppedInv
  <1>9. DetachedInv'
    <2>1. s0 \notin attached \cup undone => ~Held(stream, s0)
      BY <1>1 DEF StreamIInv, BufferInv, HeldInv
    <2> QED BY <1>1, <1>2, <2>1 DEF StreamIInv, BufferInv, DetachedInv
  <1>10. Followed \subseteq Sessions
    BY <1>3 DEF StreamTypeOK, Followed
  <1>11. CoveredInv'
    BY <1>1, <1>2, <1>3, <1>4, <1>10 DEF StreamIInv, BufferInv, CoveredInv
  <1> QED BY <1>1, <1>6, <1>7, <1>8, <1>9, <1>11 DEF StreamIInv, BufferInv

LEMMA NextItemKeeps ==
  ASSUME StreamIInv, NextItem
  PROVE  StreamIInv'
  <1>1. PICK s0 \in pending : pending' = pending \ {s0} /\ Item(s0, stream, dropped, aborted)
    BY DEF NextItem
  <1>2. /\ attached' = attached /\ sent' = sent /\ told' = told /\ undone' = undone
        /\ deferred' = deferred /\ queue' = queue /\ failed' = failed /\ timer' = timer
        /\ blocked' = blocked /\ seq' = seq /\ closed' = closed /\ missed' = missed
        /\ commands' = commands /\ requests' = requests /\ faults' = faults /\ Followed' = Followed
        /\ loop = "between"
    BY DEF NextItem, clientVars, counters, Followed
  <1>3. /\ loop' = "item" /\ stream' = Load(stream, s0)
        /\ dropped' \subseteq dropped /\ aborted' \subseteq aborted
        /\ \A s : s # s0 => (s \in dropped' <=> s \in dropped)
        /\ s0 \in dropped' => s0 \in dropped /\ Active(stream, s0)
    BY <1>1 DEF Item, Reset
  <1>4. /\ stream \in Streams /\ Catchup \in Procs /\ Catchup \notin Attachers /\ s0 \in Sessions
        /\ StreamTypeOK /\ stream[Catchup].at = "no"
    BY <1>1, <1>2, StreamTypes, StreamAssumption DEF StreamAssumption, StreamIInv, StreamTypeOK,
                                                     ShapeInv
  <1>5. /\ stream'[Catchup] = [NoStream EXCEPT !.at = "load", !.s = s0]
        /\ \A p \in Procs : p # Catchup => stream'[p] = stream[p]
    BY <1>3, <1>4 DEF Load, Streams
  <1>6. /\ stream'[Catchup].at = "load" /\ stream'[Catchup].s = s0
        /\ stream'[Catchup].from = NoSession /\ ~stream'[Catchup].was
    BY <1>5 DEF NoStream
  <1>7. stream' \in Streams
    <2>1. 0 \in 0..MaxEvents
      BY StreamAssumption DEF StreamAssumption
    <2>2. stream'[Catchup] \in StreamRec
      BY <1>4, <1>5, <2>1 DEF NoStream, StreamRec
    <2> QED BY <1>3, <1>4, <1>5, <2>2 DEF Load, Streams
  <1>8. StreamTypeOK'
    BY <1>1, <1>2, <1>3, <1>4, <1>7 DEF StreamTypeOK, Streams, StreamRec
  <1>9. ~Reserved(Catchup, stream[Catchup]) /\ Reserved(Catchup, stream'[Catchup])
    BY <1>4, <1>6 DEF Reserved
  <1>10. /\ \A s : Active(stream', s) <=> Active(stream, s) \/ s = s0
         /\ \A s : Held(stream', s) <=> Held(stream, s)
         /\ \A s : Loads(stream, s) => Loads(stream', s)
         /\ Loads(stream', s0)
         /\ \A s, n : Written(stream, s, n) => Written(stream', s, n)
    BY <1>4, <1>5, <1>6, <1>9 DEF Active, Held, Loads, Written, Procs
  <1>11. ShapeInv'
    <2>1. s0 # NoSession
      BY <1>4, StreamAssumption DEF StreamAssumption
    <2>2. \A p \in Procs : stream'[p].at # "no" =>
            stream'[p].s \in Sessions /\ stream'[p].from # stream'[p].s
      BY <1>4, <1>5, <1>6, <2>1 DEF StreamIInv, ShapeInv
    <2>3. aborted' \subseteq closed'
      BY <1>2, <1>3 DEF StreamIInv, ShapeInv
    <2> QED BY <1>3, <1>6, <2>2, <2>3 DEF ShapeInv
  <1>12. WithheldInv' /\ HeldInv'
    BY <1>2, <1>10 DEF StreamIInv, BufferInv, WithheldInv, HeldInv
  <1>13. DroppedInv'
    BY <1>1, <1>2, <1>3, <1>10 DEF StreamIInv, BufferInv, DroppedInv
  <1>14. DetachedInv'
    BY <1>2, <1>3, <1>10 DEF StreamIInv, BufferInv, DetachedInv
  <1>15. CoveredInv'
    BY <1>1, <1>2, <1>10 DEF StreamIInv, BufferInv, CoveredInv
  <1> QED BY <1>8, <1>11, <1>12, <1>13, <1>14, <1>15 DEF StreamIInv, BufferInv

\* Steps of the loop, the timer and the drain that begin no batch.
LEMMA IdleKeeps ==
  ASSUME StreamIInv,
         UNCHANGED <<clientVars, aborted, bufferVars, pending, failed, seq, closed, missed,
                     counters>>,
         stream' \in Streams,
         \A p \in Procs :
           \/ stream'[p] = stream[p]
           \/ /\ stream[p].at = "wait" /\ stream'[p].at = "end" /\ stream'[p].s = stream[p].s
              /\ stream'[p].from = stream[p].from /\ stream'[p].was = stream[p].was,
         loop' = loop \/ (loop = "between" /\ pending = {} /\ loop' \in {"check", "exited"})
                      \/ (loop = "check" /\ loop' = "exited") \/ (loop = "exited" /\ loop' = "no"),
         timer' \in BOOLEAN, blocked' \in BOOLEAN
  PROVE  StreamIInv'
  <1>1. StreamTypeOK /\ ShapeInv /\ Catchup \in Procs
    BY StreamTypes DEF StreamIInv
  <1>2. StreamTypeOK'
    BY <1>1 DEF StreamTypeOK, Streams, StreamRec, clientVars, bufferVars, counters
  <1>3. ShapeInv'
    BY <1>1 DEF ShapeInv, clientVars
  <1>4. \A p \in Procs : /\ stream'[p].s = stream[p].s
                         /\ Reserved(p, stream'[p]) <=> Reserved(p, stream[p])
    BY DEF Reserved
  <1>5. \A s : (Active(stream', s) <=> Active(stream, s)) /\ (Held(stream', s) <=> Held(stream, s))
    BY <1>4, SameReservations
  <1>6. /\ \A s : Loads(stream, s) => Loads(stream', s)
        /\ \A s, n : Written(stream, s, n) => Written(stream', s, n)
    BY DEF Loads, Written
  <1>7. BufferInv'
    BY <1>5, <1>6 DEF StreamIInv, BufferInv, WithheldInv, HeldInv, DroppedInv, DetachedInv,
                      CoveredInv, Followed, clientVars, bufferVars
  <1> QED BY <1>2, <1>3, <1>7 DEF StreamIInv

LEMMA LoopStepsKeep ==
  ASSUME StreamIInv, BatchEnds \/ LoopChecks \/ LoopCleared \/ TimerFires \/ Drain
  PROVE  StreamIInv'
  <1>1. stream \in Streams /\ StreamTypeOK
    BY StreamTypes DEF StreamIInv
  <1>2. CASE stream' = stream /\ (BatchEnds \/ LoopCleared)
    <2>1. /\ UNCHANGED <<clientVars, aborted, bufferVars, pending, failed, seq, closed, missed,
                         counters>>
          /\ loop' = loop \/ (loop = "between" /\ pending = {} /\ loop' \in {"check", "exited"})
                      \/ (loop = "check" /\ loop' = "exited") \/ (loop = "exited" /\ loop' = "no")
          /\ timer' \in BOOLEAN /\ blocked' \in BOOLEAN
      BY <1>1, <1>2 DEF BatchEnds, LoopCleared, StreamTypeOK
    <2> QED BY <1>1, <1>2, <2>1, IdleKeeps
  <1>3. CASE \/ LoopChecks /\ ~Streaming(stream) /\ ~blocked /\ queue # {}
             \/ TimerFires /\ loop = "no" /\ ~Streaming(stream) /\ ~blocked /\ queue # {}
             \/ Drain /\ loop = "no" /\ ~Streaming(stream) /\ ~timer /\ queue # {}
    <2>1. /\ BeginBatch(queue, stream, dropped, aborted) /\ queue' = {} /\ ~Streaming(stream)
          /\ loop \notin {"item", "between"}
          /\ UNCHANGED <<clientVars, deferred, seq, closed, missed, counters>>
          /\ timer' \in BOOLEAN /\ blocked' \in BOOLEAN
      BY <1>1, <1>3 DEF LoopChecks, TimerFires, Drain, StreamTypeOK
    <2>2. queue \in SUBSET Sessions /\ queue \subseteq queue
      BY <1>1 DEF StreamTypeOK
    <2>3. ShapeInv' /\ BufferInv'
      BY <2>1, <2>2, BatchKeeps
    <2>4. /\ stream' \in Streams /\ pending' \subseteq Sessions /\ dropped' \subseteq dropped
          /\ aborted' \subseteq aborted /\ loop' = "item" /\ failed' = FALSE
      <3>1. PICK s0 \in queue :
               /\ stream' \in Streams /\ loop' = "item" /\ failed' = FALSE
               /\ stream'[Catchup].from = NoSession /\ ~stream'[Catchup].was
               /\ \A p \in Procs : stream'[p] = stream[p] \/ (p = Catchup /\ stream'[p].s = s0)
               /\ pending' = queue \ {s0} /\ dropped' = dropped \ {s0}
               /\ aborted' = aborted \ {s0} /\ Loads(stream', s0)
               /\ \A s : (Active(stream', s) <=> s = s0) /\ ~Held(stream', s)
        BY <1>1, <2>1, <2>2, BatchBegins
      <3> QED BY <2>2, <3>1
    <2>5. StreamTypeOK'
      BY <1>1, <2>1, <2>4 DEF StreamTypeOK, Streams, StreamRec, clientVars, counters
    <2> QED BY <2>3, <2>5 DEF StreamIInv
  <1>4. CASE \/ LoopChecks /\ ~(~Streaming(stream) /\ ~blocked /\ queue # {})
             \/ TimerFires /\ ~(loop = "no" /\ ~Streaming(stream) /\ ~blocked /\ queue # {})
    <2>1. /\ UNCHANGED <<clientVars, aborted, bufferVars, pending, failed, seq, closed, missed,
                         counters>>
          /\ loop' = loop \/ (loop = "between" /\ pending = {} /\ loop' \in {"check", "exited"})
                      \/ (loop = "check" /\ loop' = "exited") \/ (loop = "exited" /\ loop' = "no")
          /\ timer' \in BOOLEAN /\ blocked' \in BOOLEAN /\ stream' = stream
      BY <1>1, <1>4 DEF LoopChecks, TimerFires, StreamTypeOK, bufferVars
    <2> QED BY <1>1, <2>1, IdleKeeps
  <1>5. CASE Drain /\ ~(loop = "no" /\ ~Streaming(stream) /\ ~timer /\ queue # {})
    <2>1. /\ UNCHANGED <<clientVars, aborted, bufferVars, pending, failed, seq, closed, missed,
                         counters>>
          /\ loop' = loop /\ timer' \in BOOLEAN /\ blocked' \in BOOLEAN
          /\ stream' = [p \in Procs |-> IF stream[p].at = "wait"
                          THEN [stream[p] EXCEPT !.at = "end"] ELSE stream[p]]
      BY <1>1, <1>5 DEF Drain, StreamTypeOK, bufferVars
    <2>2. ASSUME NEW p \in Procs
          PROVE  /\ stream'[p] \in StreamRec
                 /\ \/ stream'[p] = stream[p]
                    \/ /\ stream[p].at = "wait" /\ stream'[p].at = "end"
                       /\ stream'[p].s = stream[p].s /\ stream'[p].from = stream[p].from
                       /\ stream'[p].was = stream[p].was
      BY <1>1, <2>1 DEF Streams, StreamRec
    <2>3. stream' \in Streams
      BY <2>1, <2>2 DEF Streams
    <2> QED BY <2>1, <2>2, <2>3, IdleKeeps
  <1> QED BY <1>2, <1>3, <1>4, <1>5 DEF BatchEnds, LoopCleared

LEMMA StreamStep == StreamIInv /\ [StreamNext]_streamVars => StreamIInv'
  <1> SUFFICES ASSUME StreamIInv, [StreamNext]_streamVars PROVE StreamIInv'
    OBVIOUS
  <1> Catchup \in Procs /\ Attachers \subseteq Procs
    BY DEF Procs
  <1>1. CASE Frame
    BY <1>1, RelayKeeps, RequestKeeps, CloseKeeps DEF Frame
  <1>2. CASE ClientCommand
    BY <1>2, DetachKeeps, AttachKeeps, ReattachKeeps DEF ClientCommand
  <1>3. ASSUME NEW x \in Attachers, AttachSteps(x)
        PROVE  StreamIInv'
    BY <1>3, LoadedKeeps, AttachFailsKeeps, TransferKeeps, StreamEndsKeeps DEF AttachSteps
  <1>4. CASE ItemSteps
    BY <1>4, LoadedKeeps, TransferKeeps, ItemEndsKeeps, ItemFailsKeeps DEF ItemSteps
  <1>5. CASE LoopSteps
    BY <1>5, NextItemKeeps, LoopStepsKeep DEF LoopSteps
  <1>6. CASE TimerFires \/ Drain
    BY <1>6, LoopStepsKeep
  <1>7. CASE UNCHANGED streamVars
    BY <1>7 DEF streamVars, clientVars, bufferVars, loopVars, counters, StreamIInv, StreamTypeOK,
                ShapeInv, BufferInv, WithheldInv, HeldInv, DroppedInv, DetachedInv, CoveredInv,
                Followed
  <1> QED BY <1>1, <1>2, <1>3, <1>4, <1>5, <1>6, <1>7 DEF StreamNext

\* Streams, buffers, queue and loop of drainClientCatchups keep their types.
THEOREM StreamTypeCorrect == StreamSpec => []StreamTypeOK
  <1>1. StreamIInv => StreamTypeOK
    BY DEF StreamIInv
  <1> QED BY <1>1, InitStream, StreamStep, PTL DEF StreamSpec

\* An event of a session the client follows is never lost between handleWorkerFrame,
\* deferSessionPayload, releaseDeferredSessionPayloads and catchUpClient: it was sent,
\* is withheld behind a stream or in its snapshot, or a catch-up will bring it.  Sessions
\* detached behind a stream of the client's own attach or reattach are excused (undone).
THEOREM NothingIsForgotten == StreamSpec => []NothingForgotten
  <1>1. StreamIInv => NothingForgotten
    BY CoveredIsNothingForgotten DEF StreamIInv, BufferInv
  <1> QED BY <1>1, InitStream, StreamStep, PTL DEF StreamSpec

=============================================================================
