---------------------------- MODULE AttachStream ----------------------------
(***************************************************************************)
(* The session streams of one client of the supervisor: snapshots for      *)
(* attach and reattach, catch-up snapshots when the client was blocked or  *)
(* a buffer overflowed, and the events that are relayed, deferred behind a *)
(* snapshot or dropped in between.  An action is the code between two      *)
(* awaits; commands, worker frames and socket events come only when every  *)
(* continuation that is ready has run (Settled).                           *)
(***************************************************************************)
EXTENDS Naturals, FiniteSets

CONSTANTS Sessions,
          Attachers,    \* attach and reattach commands that may run at once
          Catchup,      \* the one stream of drainClientCatchups
          NoSession,
          MaxEvents,    \* bound: transcript events of one session
          MaxDeferred,  \* MAX_DEFERRED_SESSION_PAYLOADS
          MaxCommands,  \* bound: attach, reattach and detach commands
          MaxRequests,  \* bound: catch-ups the worker or its frames ask for
          MaxFaults     \* bound: failed loads and failed transfers

Procs == Attachers \cup {Catchup}

ASSUME StreamAssumption ==
  /\ Catchup \notin Attachers /\ NoSession \notin Sessions
  /\ MaxEvents \in Nat /\ MaxDeferred \in Nat \ {0}
  /\ MaxCommands \in Nat /\ MaxRequests \in Nat /\ MaxFaults \in Nat

VARIABLES
  attached,     \* attachedActiveSessionIds
  stream,       \* attachClient and streamSnapshot calls
  aborted,      \* sessions whose transfer abort signal fired
  deferred,     \* deferredSessionPayloads, as the numbers of the events
  dropped,      \* deferredSessionPayloadsDropped
  queue,        \* catchupActiveSessionIds
  loop,         \* where drainClientCatchupQueue is, while catchupPromise is set
  pending,      \* the rest of the batch of drainClientCatchups
  failed,       \* its retryError is set
  timer,        \* catchupRetryTimer is set
  blocked,      \* backpressured
  seq,          \* events of each session relayed so far
  closed,       \* sessions that have closed
  sent,         \* history: events the client was sent, alone or in a snapshot
  told,         \* history: events in a snapshot the client knows has failed
  undone,       \* history: sessions detached behind an attach or reattach under way
  missed,       \* history: a catch-up was left to a loop that had already ended
  commands, requests, faults

clientVars == <<attached, sent, told, undone>>
loopVars   == <<loop, pending, failed, timer>>
bufferVars == <<deferred, dropped, queue>>
counters   == <<commands, requests, faults>>
streamVars == <<clientVars, stream, aborted, bufferVars, loopVars, blocked, seq, closed,
                missed, counters>>

Events == 1..MaxEvents

\* from: the session a reattach leaves; was: its target was attached before.
NoStream == [at |-> "no", s |-> NoSession, snap |-> 0, ok |-> FALSE,
             from |-> NoSession, was |-> FALSE]

-----------------------------------------------------------------------------
(* Reservations, the catch-up queue and the deferred payloads.             *)

\* reserveSnapshotStream: an attach reserves when it streams, the others before.
Reserved(p, r) == \/ r.at \in {"write", "wait", "end"}
                  \/ r.at = "load" /\ (p = Catchup \/ r.from # NoSession)
Active(st, s) == \E p \in Procs : st[p].s = s /\ Reserved(p, st[p])
Streaming(st) == \E p \in Procs : Reserved(p, st[p])

\* The first reservation of a session clears what an earlier one left.
Reset(S, st, s) == IF Active(st, s) THEN S ELSE S \ {s}

Load(st, s) == [st EXCEPT ![Catchup] = [NoStream EXCEPT !.at = "load", !.s = s]]

\* One item of drainClientCatchups: reserve, then attachClient.
Item(s, st, dr, ab) ==
  /\ loop' = "item"
  /\ stream' = Load(st, s)
  /\ dropped' = Reset(dr, st, s)
  /\ aborted' = Reset(ab, st, s)

\* drainClientCatchups takes the queue and begins with one of its sessions.
BeginBatch(q, st, dr, ab) ==
  /\ \E s \in q : pending' = q \ {s} /\ Item(s, st, dr, ab)
  /\ failed' = FALSE

\* catchUpClient: nothing while its promise is set, although the loop behind that
\* promise may have ended.  more is what is queued behind the call.
CanStart(q, st) == ~Streaming(st) /\ ~blocked /\ ~timer /\ q # {}
CatchUp(q, st, dr, ab, more) ==
  IF loop = "no" /\ CanStart(q, st)
    THEN BeginBatch(q, st, dr, ab) /\ queue' = more /\ UNCHANGED <<timer, missed>>
    ELSE /\ queue' = q \cup more /\ stream' = st /\ dropped' = dr /\ aborted' = ab
         /\ missed' = (missed \/ (loop = "exited" /\ CanStart(q, st)))
         /\ UNCHANGED loopVars

\* flushDeferredSessionPayloads: a replay may be cut short by backpressure.
Replays(s) ==
  \/ /\ ~blocked /\ UNCHANGED blocked
     /\ sent' = [sent EXCEPT ![s] = @ \cup deferred[s]]
  \/ /\ ~blocked /\ blocked' = TRUE
     /\ \E n \in deferred[s] : sent' = [sent EXCEPT ![s] = @ \cup {m \in deferred[s] : m <= n}]
  \/ blocked /\ UNCHANGED <<blocked, sent>>
\* Slip: an interrupted replay leaves nothing to a catch-up.
ReplayForgotten(s, delivered, more) ==
  /\ more = {}
  /\ IF Active(stream', s)
       THEN UNCHANGED <<deferred, sent, blocked>>
       ELSE /\ deferred' = [deferred EXCEPT ![s] = {}]
            /\ IF delivered /\ deferred[s] # {} /\ s \in attached'
                 THEN Replays(s)
                 ELSE UNCHANGED <<sent, blocked>>

\* releaseDeferredSessionPayloads, after the reservation was released: the last
\* stream of the session replays what was withheld, or discards it.  more is what
\* an interrupted replay leaves to a catch-up.
ReleaseDeferred(s, delivered, more) ==
  IF Active(stream', s)
    THEN more = {} /\ UNCHANGED <<deferred, sent, blocked>>
    ELSE /\ deferred' = [deferred EXCEPT ![s] = {}]
         /\ IF delivered /\ deferred[s] # {} /\ s \in attached'
              THEN Replays(s) /\ more = (IF blocked' THEN {s} ELSE {})
              ELSE more = {} /\ UNCHANGED <<sent, blocked>>

\* The reservation of x is released, which may start the catch-up, then the payloads.
Release(x, q, dr, delivered) ==
  \E more \in {{}, {stream[x].s}} :
    /\ CatchUp(q, [stream EXCEPT ![x] = NoStream], dr, aborted, more)
    /\ ReleaseDeferred(stream[x].s, delivered, more)

\* No continuation is ready to run.
Settled == /\ \A p \in Procs : stream[p].at # "end"
           /\ loop \in {"no", "item"}

-----------------------------------------------------------------------------
(* Worker frames.                                                          *)

Queued(s) == queue' = queue \cup {s}

\* A transcript event, or a session_replaced, of a session the client is attached to.
Relay(s, replaced) ==
  /\ Settled /\ s \notin closed /\ seq[s] < MaxEvents
  /\ seq' = [seq EXCEPT ![s] = @ + 1]
  /\ \/ /\ s \notin attached
        /\ UNCHANGED <<bufferVars, sent, blocked>>
     \/ /\ s \in attached /\ Active(stream, s)
        /\ IF ~replaced /\ s \notin dropped /\ Cardinality(deferred[s]) < MaxDeferred
             THEN /\ deferred' = [deferred EXCEPT ![s] = @ \cup {seq'[s]}]
                  /\ UNCHANGED <<dropped, queue>>
             ELSE /\ deferred' = [deferred EXCEPT ![s] = {}]
                  /\ dropped' = dropped \cup {s} /\ Queued(s)
        /\ UNCHANGED <<sent, blocked>>
     \/ /\ s \in attached /\ ~Active(stream, s) /\ s \in dropped
        /\ UNCHANGED <<bufferVars, sent, blocked>>
     \/ /\ s \in attached /\ ~Active(stream, s) /\ s \notin dropped /\ blocked
        /\ Queued(s) /\ UNCHANGED <<deferred, dropped, sent, blocked>>
     \/ /\ s \in attached /\ ~Active(stream, s) /\ s \notin dropped /\ ~blocked
        /\ blocked' \in BOOLEAN
        /\ sent' = [sent EXCEPT ![s] = @ \cup {seq'[s]}]
        /\ UNCHANGED bufferVars
  /\ UNCHANGED <<attached, told, undone, stream, aborted, loopVars, closed, missed, counters>>

\* The worker's own snapshot is complete or has failed, or a compact delta cannot be
\* reconstructed: queueCatchup and catchUpClient.
RequestCatchup(s) ==
  /\ Settled /\ requests < MaxRequests /\ s \in attached \ closed
  /\ requests' = requests + 1
  /\ CatchUp(queue \cup {s}, stream, dropped, aborted, {})
  /\ UNCHANGED <<clientVars, deferred, blocked, seq, closed, commands, faults>>

\* session_closed: the transfers of the session are aborted.
Close(s) ==
  /\ Settled /\ s \notin closed
  /\ closed' = closed \cup {s}
  /\ IF s \in attached
       THEN /\ aborted' = IF Active(stream, s) THEN aborted \cup {s} ELSE aborted
            /\ stream' = [p \in Procs |->
                            IF stream[p].s = s /\ stream[p].at \in {"write", "wait"}
                              THEN [stream[p] EXCEPT !.at = "end", !.ok = FALSE] ELSE stream[p]]
            /\ deferred' = [deferred EXCEPT ![s] = {}]
            /\ queue' = queue \ {s}
       ELSE UNCHANGED <<aborted, stream, deferred, queue>>
  /\ UNCHANGED <<clientVars, dropped, loopVars, blocked, seq, missed, counters>>

-----------------------------------------------------------------------------
(* Commands.                                                               *)

Command == Settled /\ commands < MaxCommands /\ commands' = commands + 1

\* detachClient: the client forgets what it was given.  A stream of its own attach or
\* reattach goes on, and may attach the session again.
Held(st, s) == \E x \in Attachers : st[x].s = s /\ Reserved(x, st[x])
Forget(history, S) == [s \in Sessions |-> IF s \in S THEN {} ELSE history[s]]
Detached(S, st) ==
  /\ told' = Forget(told, S)
  /\ undone' = (undone \ S) \cup {s \in S : Held(st, s)}

Detach(s) ==
  /\ Command /\ s \in attached
  /\ attached' = attached \ {s} /\ sent' = Forget(sent, {s}) /\ Detached({s}, stream)
  /\ queue' = queue \ {s} /\ dropped' = dropped \ {s}
  /\ UNCHANGED <<stream, aborted, deferred, loopVars, blocked, seq, closed, missed,
                 requests, faults>>

\* case "attach": attachClient is called.
Attach(x, s) ==
  /\ Command /\ stream[x] = NoStream
  /\ stream' = [stream EXCEPT ![x] = [NoStream EXCEPT !.at = "load", !.s = s]]
  /\ UNCHANGED <<clientVars, aborted, bufferVars, loopVars, blocked, seq, closed, missed,
                 requests, faults>>

\* case "reattach": the target is reserved and attached before it is loaded.
Reattach(x, from, s) ==
  /\ Command /\ stream[x] = NoStream /\ from # s
  /\ stream' = [stream EXCEPT ![x] = [NoStream EXCEPT !.at = "load", !.s = s, !.from = from,
                                                      !.was = s \in attached]]
  /\ dropped' = Reset(dropped, stream, s) /\ aborted' = Reset(aborted, stream, s)
  /\ attached' = attached \cup {s}
  /\ UNCHANGED <<sent, told, undone, deferred, queue, loopVars, blocked, seq, closed, missed,
                 requests, faults>>

\* attachClient returns a snapshot of the session as it is; a reattach detaches the
\* other session; streamSnapshot begins.
Loaded(p) ==
  LET r    == stream[p]
      left == {r.from} \cap attached IN
  /\ Settled /\ r.at = "load" /\ r.s \notin closed
  /\ stream' = [stream EXCEPT ![p].at = "write", ![p].snap = seq[r.s]]
  /\ attached' = (attached \cup {r.s}) \ left
  /\ sent' = Forget(sent, left) /\ Detached(left, stream)
  /\ queue' = queue \ left
  /\ dropped' = Reset(dropped, stream, r.s) \ left
  /\ aborted' = Reset(aborted, stream, r.s)
  /\ UNCHANGED <<deferred, loopVars, blocked, seq, closed, missed, counters>>

Fault == faults < MaxFaults /\ faults' = faults + 1

\* attachClient throws: the session is closed, or its worker does not answer.
AttachFails(x) ==
  LET r == stream[x] IN
  /\ Settled /\ r.at = "load"
  /\ \/ r.s \in closed /\ UNCHANGED faults
     \/ Fault
  /\ IF r.from = NoSession
       THEN /\ stream' = [stream EXCEPT ![x] = NoStream]
            /\ UNCHANGED <<clientVars, aborted, bufferVars, loopVars, blocked, missed>>
       ELSE LET gone == IF r.was THEN {} ELSE {r.s} \cap attached IN
            /\ attached' = attached \ gone
            /\ Detached(gone, [stream EXCEPT ![x] = NoStream])
            /\ Release(x, queue \ gone, dropped \ gone, r.was)
  /\ UNCHANGED <<seq, closed, commands, requests>>

-----------------------------------------------------------------------------
(* streamSnapshot.                                                         *)

\* The last record is written; one that is not accepted waits for the drain.
WriteEnds(p, delivered) ==
  \/ /\ ~blocked /\ UNCHANGED blocked
     /\ stream' = [stream EXCEPT ![p].at = "end", ![p].ok = delivered]
  \/ /\ blocked' = TRUE
     /\ stream' = [stream EXCEPT ![p].at = "wait", ![p].ok = delivered]

\* The records of the snapshot are written.
Writes(p) ==
  LET r == stream[p] IN
  /\ Settled /\ r.at = "write"
  /\ WriteEnds(p, TRUE)
  /\ sent' = [sent EXCEPT ![r.s] = @ \cup 1..r.snap]
  /\ told' = [told EXCEPT ![r.s] = @ \ 1..r.snap]
  /\ UNCHANGED <<attached, undone, aborted, bufferVars, loopVars, seq, closed,
                 missed, counters>>

\* The transcript fails: the client is told by session_snapshot_failed.
TransferFails(p) ==
  /\ Settled /\ stream[p].at = "write"
  /\ Fault
  /\ WriteEnds(p, FALSE)
  /\ told' = [told EXCEPT ![stream[p].s] = @ \cup 1..stream[p].snap]
  /\ UNCHANGED <<attached, sent, undone, aborted, bufferVars, loopVars, seq, closed,
                 missed, commands, requests>>

\* The queue after the finally block: what was withheld behind a snapshot that was
\* not delivered is left to a catch-up.
AfterStream(r) ==
  IF ~r.ok /\ r.s \in attached /\ deferred[r.s] # {} THEN queue \cup {r.s} ELSE queue

\* The finally block of an attach or reattach stream.
StreamEnds(x) ==
  LET r == stream[x] IN
  /\ r.at = "end"
  /\ UNCHANGED <<attached, told, undone, seq, closed, counters>>
  /\ Release(x, AfterStream(r), dropped, r.ok)

\* The same for an item of the catch-up, which was delivered or aborted.
ItemEnds ==
  LET r == stream[Catchup] IN
  /\ \/ r.at = "end" /\ (r.ok \/ r.s \in aborted)
     \/ Settled /\ r.at = "load" /\ r.s \in aborted
  /\ loop' = "between"
  /\ stream' = [stream EXCEPT ![Catchup] = NoStream]
  /\ UNCHANGED <<attached, told, undone, aborted, dropped, pending, failed, timer, seq,
                 closed, missed, counters>>
  /\ \E more \in {{}, {r.s}} :
       queue' = AfterStream(r) \cup more /\ ReleaseDeferred(r.s, r.ok, more)

\* attachClient or the transfer failed: the catch block, and the item is over.
ItemFails ==
  LET r == stream[Catchup] IN
  /\ \/ Settled /\ r.at = "load" /\ r.s \in closed /\ UNCHANGED faults
     \/ Settled /\ r.at = "load" /\ Fault
     \/ r.at = "end" /\ ~r.ok /\ r.s \notin aborted /\ UNCHANGED faults
  /\ loop' = "between" /\ failed' = TRUE
  /\ stream' = [stream EXCEPT ![Catchup] = NoStream]
  /\ queue' = IF r.s \in attached /\ r.s \notin aborted THEN queue \cup {r.s} ELSE queue
  /\ dropped' = dropped \cup {r.s}
  /\ deferred' = [deferred EXCEPT ![r.s] = {}]
  /\ UNCHANGED <<clientVars, aborted, pending, timer, blocked, seq,
                 closed, missed, commands, requests>>

-----------------------------------------------------------------------------
(* The loop of the catch-up and what wakes it.                             *)

NextItem ==
  /\ loop = "between"
  /\ \E s \in pending : pending' = pending \ {s} /\ Item(s, stream, dropped, aborted)
  /\ UNCHANGED <<clientVars, deferred, queue, failed, timer, blocked, seq, closed,
                 missed, counters>>

\* The batch is over; an error ends the loop, and the retry is scheduled.
BatchEnds ==
  /\ loop = "between" /\ pending = {}
  /\ loop' = IF failed THEN "exited" ELSE "check"
  /\ timer' = (failed /\ queue # {})
  /\ UNCHANGED <<clientVars, stream, aborted, bufferVars, pending, failed, blocked, seq, closed,
                 missed, counters>>

\* drainClientCatchupQueue looks at the queue again.
LoopChecks ==
  /\ loop = "check"
  /\ IF ~Streaming(stream) /\ ~blocked /\ queue # {}
       THEN BeginBatch(queue, stream, dropped, aborted) /\ queue' = {}
       ELSE loop' = "exited" /\ UNCHANGED <<pending, failed, stream, dropped, aborted, queue>>
  /\ UNCHANGED <<clientVars, deferred, timer, blocked, seq, closed, missed, counters>>

\* catchupPromise is cleared.
LoopCleared ==
  /\ loop = "exited" /\ loop' = "no"
  /\ UNCHANGED <<clientVars, stream, aborted, bufferVars, pending, failed, timer, blocked, seq,
                 closed, missed, counters>>

TimerFires ==
  /\ Settled /\ timer
  /\ timer' = FALSE
  /\ IF loop = "no" /\ ~Streaming(stream) /\ ~blocked /\ queue # {}
       THEN BeginBatch(queue, stream, dropped, aborted) /\ queue' = {}
       ELSE UNCHANGED <<loop, pending, failed, stream, dropped, aborted, queue>>
  /\ UNCHANGED <<clientVars, deferred, blocked, seq, closed, missed, counters>>

\* Slip: the drain only wakes the streams that wait for it.
DrainOnlyWakes ==
  /\ Settled /\ blocked
  /\ blocked' = FALSE
  /\ stream' = [p \in Procs |-> IF stream[p].at = "wait"
                   THEN [stream[p] EXCEPT !.at = "end"] ELSE stream[p]]
  /\ UNCHANGED <<clientVars, aborted, bufferVars, loopVars, seq, closed, missed, counters>>

\* The socket's drain event: the supervisor's listener, then the waiting streams.
Drain ==
  /\ Settled /\ blocked
  /\ blocked' = FALSE
  /\ IF loop = "no" /\ ~Streaming(stream) /\ ~timer /\ queue # {}
       THEN BeginBatch(queue, stream, dropped, aborted) /\ queue' = {}
       ELSE /\ stream' = [p \in Procs |-> IF stream[p].at = "wait"
                            THEN [stream[p] EXCEPT !.at = "end"] ELSE stream[p]]
            /\ UNCHANGED <<loop, pending, failed, dropped, aborted, queue>>
  /\ UNCHANGED <<clientVars, deferred, timer, seq, closed, missed, counters>>

-----------------------------------------------------------------------------
StreamInit ==
  /\ attached = {} /\ undone = {} /\ aborted = {} /\ dropped = {} /\ closed = {}
  /\ sent = [s \in Sessions |-> {}] /\ told = [s \in Sessions |-> {}]
  /\ deferred = [s \in Sessions |-> {}]
  /\ seq = [s \in Sessions |-> 0]
  /\ stream = [p \in Procs |-> NoStream]
  /\ queue = {} /\ pending = {} /\ loop = "no"
  /\ failed = FALSE /\ timer = FALSE /\ blocked = FALSE /\ missed = FALSE
  /\ commands = 0 /\ requests = 0 /\ faults = 0

Frame == \E s \in Sessions :
  RequestCatchup(s) \/ Close(s) \/ \E replaced \in BOOLEAN : Relay(s, replaced)
ClientCommand == \E s \in Sessions :
  Detach(s) \/ \E x \in Attachers : Attach(x, s) \/ \E from \in attached : Reattach(x, from, s)
AttachSteps(x) == Loaded(x) \/ AttachFails(x) \/ Writes(x) \/ TransferFails(x) \/ StreamEnds(x)
ItemSteps == \/ Loaded(Catchup) \/ Writes(Catchup) \/ TransferFails(Catchup)
             \/ ItemEnds \/ ItemFails
LoopSteps == NextItem \/ BatchEnds \/ LoopChecks \/ LoopCleared

StreamNext == \/ Frame \/ ClientCommand
        \/ \E x \in Attachers : AttachSteps(x)
        \/ ItemSteps \/ LoopSteps \/ TimerFires \/ Drain

\* Continuations run, attachClient and transfers end, the timer fires, and a client
\* that is connected reads.
StreamFairness ==
  /\ \A x \in Attachers : WF_streamVars(AttachSteps(x))
  /\ WF_streamVars(ItemSteps) /\ WF_streamVars(LoopSteps)
  /\ WF_streamVars(TimerFires) /\ WF_streamVars(Drain)

StreamSpec == StreamInit /\ [][StreamNext]_streamVars /\ StreamFairness

-----------------------------------------------------------------------------
StreamTypeOK ==
  /\ attached \subseteq Sessions /\ undone \subseteq Sessions /\ aborted \subseteq Sessions
  /\ dropped \subseteq Sessions /\ closed \subseteq Sessions
  /\ queue \subseteq Sessions /\ pending \subseteq Sessions
  /\ sent \in [Sessions -> SUBSET Events] /\ told \in [Sessions -> SUBSET Events]
  /\ deferred \in [Sessions -> SUBSET Events]
  /\ seq \in [Sessions -> 0..MaxEvents]
  /\ stream \in [Procs -> [at : {"no", "load", "write", "wait", "end"},
                           s : Sessions \cup {NoSession}, snap : 0..MaxEvents, ok : BOOLEAN,
                           from : Sessions \cup {NoSession}, was : BOOLEAN]]
  /\ loop \in {"no", "item", "between", "check", "exited"}
  /\ failed \in BOOLEAN /\ timer \in BOOLEAN /\ blocked \in BOOLEAN /\ missed \in BOOLEAN
  /\ commands \in 0..MaxCommands /\ requests \in 0..MaxRequests /\ faults \in 0..MaxFaults

\* deferSessionPayload, "A catch-up snapshot supersedes the buffered payloads", and
\* releaseDeferredSessionPayloads: every event of an attached session the client was
\* not sent is withheld behind a running stream, which will replay or discard it, is
\* in a snapshot that is being loaded or written, or is left to a catch-up, unless the
\* client was told that the transfer failed.  A session that was detached while an
\* attach or reattach of the client still reserved it is excused when it is attached
\* again behind the detach (undone): its payloads may still count as dropped.
Coming(s) ==
  \/ s \in queue \cup pending
  \/ \E p \in Procs : stream[p].s = s /\ stream[p].at = "load" /\ Reserved(p, stream[p])
Covered(s, n) ==
  \/ n \in sent[s] \cup told[s]
  \/ n \in deferred[s] /\ Active(stream, s)
  \/ \E p \in Procs : stream[p].s = s /\ stream[p].at = "write" /\ n <= stream[p].snap
NothingForgotten ==
  \A s \in attached \ (closed \cup undone) : Coming(s) \/ \A n \in 1..seq[s] : Covered(s, n)

\* daemon.md:129, "after drain, the attachment catches up from its cursor or receives a
\* fresh snapshot", unless a catch-up was left to a loop that had already ended: the
\* last stream of the client was released after drainClientCatchupQueue had looked and
\* before catchupPromise was cleared.  Undone sessions are excused as above.
Behind(s) == /\ s \in attached \ (closed \cup undone)
             /\ \E n \in 1..seq[s] : n \notin sent[s] \cup told[s]
CatchesUp == \A s \in Sessions : Behind(s) ~> (~Behind(s) \/ missed)
=============================================================================
