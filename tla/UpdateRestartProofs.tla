------------------------ MODULE UpdateRestartProofs ------------------------
(***************************************************************************)
(* Proofs about UpdateRestart, for any number of workers and every bound.  *)
(* A commit is accepted for the checkpoint that was persisted because, when *)
(* the supervisor persists, every worker has answered this round over its  *)
(* present connection: it has taken every request sent to it and has not   *)
(* let its transaction go.                                                 *)
(***************************************************************************)
EXTENDS UpdateRestart, SequenceTheorems, TLAPS

\* What the requests on their way to a worker may be.
Late(s, r)     == \A i \in 1..Len(s) : s[i].round <= r
OnlyLast(s, r) == \A i \in 1..Len(s) : s[i].round = r => i = Len(s)
Has(s, t)      == \E i \in 1..Len(s) : s[i].type = t

\* Connections are counted, a connection that works is in use, and a reply belongs
\* to a request that waits for it.
LinkInv ==
  \A w \in Workers :
    /\ client[w] <= conns[w] /\ prepareClient[w] <= conns[w]
    /\ w \in up => client[w] # 0
    /\ reply[w] # "none" => /\ answer[w] = "none" /\ client[w] # 0
                            /\ sup \in {"preparing", "cancelling", "committing"}
    /\ sup \in {"idle", "cancelling"} => prepareClient[w] = 0

\* A worker that holds a checkpoint has everything in it, and a mutation in progress
\* is within the bound.
HoldInv ==
  \A w \in Workers :
    /\ phase[w] \in {"prepared", "publishing", "closed"} =>
         checkpoint[w] = changes[w] /\ w \notin running
    /\ w \in running => changes[w] < MaxChanges

\* No request comes from a later round.
RoundInv ==
  /\ sup = "preparing" => round # 0
  /\ \A w \in Workers :
       /\ ofRound[w] <= round
       /\ Late(inbox[w], round)

\* While the supervisor prepares, a request of this round is the last one on its way,
\* and a worker that has taken it has none left; one that answered, or that is
\* remembered with its connection, has taken it and holds its checkpoint for as long
\* as the connection lives.
Answered(w) ==
  /\ ofRound[w] = round
  /\ w \in up => phase[w] = "prepared"
PrepareInv ==
  sup = "preparing" =>
    \A w \in Workers :
      /\ ofRound[w] = round => inbox[w] = <<>>
      /\ OnlyLast(inbox[w], round)
      /\ reply[w] = "ok" => Answered(w)
      /\ Usable(w) => Answered(w)

\* A commit on its way means that the manifest is persisted, that the worker's
\* checkpoint is in it, and that the worker will not prepare again.
Persisted == sup \in {"committing", "stopping", "forcing", "prepared", "dead"}
CommitInv ==
  \A w \in Workers :
    Has(inbox[w], "commit") =>
      /\ Persisted
      /\ manifest[w] = checkpoint[w]
      /\ phase[w] \notin {"preparing", "drained", "fencing"}
      /\ ~Has(inbox[w], "prepare")

IInv == /\ TypeOK /\ LinkInv /\ HoldInv /\ RoundInv /\ PrepareInv /\ CommitInv
        /\ CommittedIsCaptured /\ RollbackClosesNothing

---------------------------------------------------------------------------
\* The types, those of the requests apart.
Types ==
  /\ sup \in SupPhases /\ round \in 0..MaxRounds
  /\ answer \in [Workers -> {"none", "ok", "fail"}]
  /\ prepareClient \in [Workers -> 0..MaxConns]
  /\ manifest \in [Workers -> 0..MaxChanges]
  /\ client \in [Workers -> 0..MaxConns] /\ conns \in [Workers -> 1..MaxConns]
  /\ up \subseteq Workers
  /\ reply \in [Workers -> {"none", "ok", "error"}]
  /\ phase \in [Workers -> TxnPhases]
  /\ claim \in [Workers -> 0..MaxConns] /\ owner \in [Workers -> 0..MaxConns]
  /\ ofRound \in [Workers -> 0..MaxRounds]
  /\ aborted \subseteq Workers /\ timer \subseteq Workers /\ running \subseteq Workers
  /\ checkpoint \in [Workers -> 0..MaxChanges] /\ changes \in [Workers -> 0..MaxChanges]
  /\ faults \in 0..MaxFaults
LEMMA SplitTypes ==
  /\ TypeOK <=> Types /\ inbox \in [Workers -> Seq(Messages)]
  /\ TypeOK' <=> Types' /\ inbox' \in [Workers -> Seq(Messages)]
BY DEF TypeOK, Types

(* Requests on their way.                                                  *)

\* What is left of the requests when the first is taken.
LEMMA TailFacts ==
  ASSUME NEW s \in Seq(Messages), s # <<>>
  PROVE  /\ Head(s) \in Messages /\ Head(s).round \in 1..MaxRounds
         /\ Tail(s) \in Seq(Messages)
         /\ \A r \in Nat : Late(s, r) => Late(Tail(s), r) /\ Head(s).round <= r
         /\ \A r \in Nat : OnlyLast(s, r) =>
              OnlyLast(Tail(s), r) /\ (Head(s).round = r => Tail(s) = <<>>)
         /\ Has(s, Head(s).type)
         /\ \A t \in Requests : Has(Tail(s), t) => Has(s, t)
<1>1. Len(s) \in Nat /\ Len(s) # 0
  BY EmptySeq
<1>2. /\ Head(s) = s[1] /\ Tail(s) \in Seq(Messages) /\ Len(Tail(s)) = Len(s) - 1
      /\ \A i \in 1..Len(Tail(s)) : Tail(s)[i] = s[i + 1]
  BY HeadTailProperties
<1>3. Len(s) = 1 => Tail(s) = <<>>
  <2>1. Tail(s) # <<>> => Len(Tail(s)) # 0
    BY <1>2, EmptySeq
  <2>2. QED
    BY <1>2, <2>1
<1>4. \A i \in 1..Len(s) : s[i] \in Messages
  BY ElementOfSeq
<1>5. Head(s) \in Messages /\ Head(s).round \in 1..MaxRounds
  BY <1>1, <1>2, <1>4 DEF Messages
<1>6. ASSUME NEW r \in Nat, Late(s, r)
      PROVE  Late(Tail(s), r) /\ Head(s).round <= r
  BY <1>1, <1>2, <1>6 DEF Late
<1>7. ASSUME NEW r \in Nat, OnlyLast(s, r)
      PROVE  OnlyLast(Tail(s), r) /\ (Head(s).round = r => Tail(s) = <<>>)
  <2>0. \A i \in 1..Len(s) : s[i].round = r => i = Len(s)
    BY <1>7 DEF OnlyLast
  <2>1. ASSUME NEW i \in 1..Len(Tail(s)), Tail(s)[i].round = r
        PROVE  i = Len(Tail(s))
    <3>1. i + 1 \in 1..Len(s) /\ s[i + 1].round = r
      BY <1>1, <1>2, <2>1
    <3>2. i + 1 = Len(s)
      BY <2>0, <3>1
    <3>3. i \in Nat /\ Len(s) \in Nat /\ Len(Tail(s)) = Len(s) - 1
      BY <1>1, <1>2
    <3>4. QED
      BY ONLY <3>2, <3>3
  <2>2. Head(s).round = r => Len(s) = 1
    <3>1. 1 \in 1..Len(s) /\ Head(s) = s[1]
      BY <1>1, <1>2
    <3>2. QED
      BY <2>0, <3>1
  <2>3. QED
    BY <1>3, <2>1, <2>2 DEF OnlyLast
<1>8. Has(s, Head(s).type)
  BY <1>1, <1>2 DEF Has
<1>9. ASSUME NEW t \in Requests, Has(Tail(s), t)
      PROVE  Has(s, t)
  <2>1. PICK i \in 1..Len(Tail(s)) : Tail(s)[i].type = t
    BY <1>9 DEF Has
  <2>2. i + 1 \in 1..Len(s) /\ s[i + 1].type = t
    BY <1>1, <1>2, <2>1
  <2>3. QED
    BY <2>2 DEF Has
<1>10. QED
  BY <1>2, <1>5, <1>6, <1>7, <1>8, <1>9

\* The requests when one more is sent.
LEMMA AppendFacts ==
  ASSUME NEW s \in Seq(Messages), NEW m \in Messages
  PROVE  /\ Append(s, m) \in Seq(Messages)
         /\ \A r, q \in Nat : Late(s, r) /\ r <= q =>
              Late(s, q) /\ (m.round <= q => Late(Append(s, m), q))
         /\ \A r \in Nat : Late(s, r) /\ r < m.round =>
              OnlyLast(s, m.round) /\ OnlyLast(Append(s, m), m.round)
         /\ \A t \in Requests : Has(Append(s, m), t) => Has(s, t) \/ t = m.type
<1>1. /\ Append(s, m) \in Seq(Messages)
      /\ Len(Append(s, m)) = Len(s) + 1
      /\ \A i \in 1..Len(s) : Append(s, m)[i] = s[i]
      /\ Append(s, m)[Len(s) + 1] = m
  BY AppendProperties
<1>2. Len(s) \in Nat
  BY LenProperties
<1>3. \A i \in 1..Len(s) : s[i] \in Messages
  BY ElementOfSeq
<1>4. QED
  BY <1>1, <1>2, <1>3 DEF Late, OnlyLast, Has, Messages

\* No requests.
LEMMA EmptyFacts ==
  /\ <<>> \in Seq(Messages)
  /\ \A r : Late(<<>>, r) /\ OnlyLast(<<>>, r) /\ ~Has(<<>>, r)
<1>1. Len(<<>>) = 0 /\ <<>> \in Seq(Messages)
  BY EmptySeq
<1>2. QED
  BY <1>1 DEF Late, OnlyLast, Has

\* A worker takes the first request.
LEMMA TakeFacts ==
  ASSUME IInv, NEW w \in Workers, NEW t \in Requests, Take(w, t)
  PROVE  /\ inbox' \in [Workers -> Seq(Messages)]
         /\ \A z \in Workers : z # w => inbox'[z] = inbox[z]
         /\ inbox[w] # <<>> /\ Has(inbox[w], t)
         /\ Head(inbox[w]).round \in 1..MaxRounds /\ Head(inbox[w]).round <= round
         /\ \A z \in Workers : Late(inbox'[z], round)
         /\ sup = "preparing" => \A z \in Workers : OnlyLast(inbox'[z], round)
         /\ sup = "preparing" /\ Head(inbox[w]).round = round => inbox'[w] = <<>>
         /\ \A z \in Workers, q \in Requests : Has(inbox'[z], q) => Has(inbox[z], q)
<1>1. /\ inbox \in [Workers -> Seq(Messages)] /\ round \in Nat
      /\ inbox[w] # <<>> /\ Head(inbox[w]).type = t
      /\ inbox' = [inbox EXCEPT ![w] = Tail(inbox[w])]
  BY RestartAssumption DEF IInv, TypeOK, Take
<1>2. /\ inbox[w] \in Seq(Messages)
      /\ \A z \in Workers : z # w => inbox'[z] = inbox[z]
      /\ inbox'[w] = Tail(inbox[w])
  BY <1>1
<1>3. \A z \in Workers : Late(inbox[z], round) /\ (sup = "preparing" => OnlyLast(inbox[z], round))
  BY DEF IInv, RoundInv, PrepareInv
<1>4. /\ Head(inbox[w]).round \in 1..MaxRounds /\ Tail(inbox[w]) \in Seq(Messages)
      /\ Late(Tail(inbox[w]), round) /\ Head(inbox[w]).round <= round
      /\ sup = "preparing" =>
           /\ OnlyLast(Tail(inbox[w]), round)
           /\ Head(inbox[w]).round = round => Tail(inbox[w]) = <<>>
      /\ Has(inbox[w], t)
      /\ \A q \in Requests : Has(Tail(inbox[w]), q) => Has(inbox[w], q)
  BY <1>1, <1>2, <1>3, TailFacts
<1>5. inbox' \in [Workers -> Seq(Messages)]
  BY <1>1, <1>4
<1>6. QED
  BY <1>1, <1>2, <1>3, <1>4, <1>5

\* The requests on a connection are lost with it.
LEMMA ClearFacts ==
  ASSUME IInv, NEW w \in Workers, inbox' = [inbox EXCEPT ![w] = <<>>]
  PROVE  /\ inbox' \in [Workers -> Seq(Messages)]
         /\ \A z \in Workers : z # w => inbox'[z] = inbox[z]
         /\ inbox'[w] = <<>>
         /\ \A z \in Workers : Late(inbox'[z], round)
         /\ sup = "preparing" => \A z \in Workers : OnlyLast(inbox'[z], round)
         /\ \A z \in Workers, q \in Requests : Has(inbox'[z], q) => Has(inbox[z], q)
<1>1. inbox \in [Workers -> Seq(Messages)]
  BY DEF IInv, TypeOK
<1>2. \A z \in Workers : z # w => inbox'[z] = inbox[z]
  BY <1>1
<1>3. inbox'[w] = <<>> /\ inbox' \in [Workers -> Seq(Messages)]
  BY <1>1, EmptyFacts
<1>4. \A z \in Workers : Late(inbox[z], round) /\ (sup = "preparing" => OnlyLast(inbox[z], round))
  BY DEF IInv, RoundInv, PrepareInv
<1>5. QED
  BY <1>2, <1>3, <1>4, EmptyFacts

---------------------------------------------------------------------------
(* Each step preserves the inductive invariant.                            *)

\* Requests of a new round go out.
LEMMA BeginStep ==
  ASSUME IInv, Begin
  PROVE  IInv'
<1> USE RestartAssumption DEF IInv, Begin, Send, supVars, linkVars, txnVars, workVars
<1>0. \A z \in Workers :
        LET s == inbox[z]
            m == [type |-> "prepare", round |-> round']
        IN /\ m \in Messages /\ s \in Seq(Messages)
           /\ inbox'[z] \in {s, Append(s, m)}
           /\ z \notin up => inbox'[z] = s
           /\ Append(s, m) \in Seq(Messages)
           /\ \A r, q \in Nat : Late(s, r) /\ r <= q =>
                Late(s, q) /\ (round' <= q => Late(Append(s, m), q))
           /\ \A r \in Nat : Late(s, r) /\ r < round' =>
                OnlyLast(s, round') /\ OnlyLast(Append(s, m), round')
           /\ \A t \in Requests : Has(Append(s, m), t) => Has(s, t) \/ t = "prepare"
  <2>1. [type |-> "prepare", round |-> round'] \in Messages
    BY DEF TypeOK, LinkInv, RoundInv, Messages, Requests
  <2>2. \A z \in Workers : inbox[z] \in Seq(Messages)
    BY DEF TypeOK
  <2>3. inbox' = [z \in Workers |-> inbox'[z]]
        /\ \A z \in Workers :
             /\ inbox'[z] \in {inbox[z], Append(inbox[z], [type |-> "prepare", round |-> round'])}
             /\ z \notin up => inbox'[z] = inbox[z]
    OBVIOUS
  <2>4. QED
    BY <2>1, <2>2, <2>3, AppendFacts
<1>1. TypeOK'
  BY <1>0, SMTT(20) DEF TypeOK, SupPhases, TxnPhases
<1>2. LinkInv'
  BY <1>0, SMTT(20) DEF TypeOK, LinkInv
<1>3. HoldInv'
  BY <1>0, SMTT(20) DEF TypeOK, HoldInv
<1>4. RoundInv'
  <2>1. round \in Nat /\ round' = round + 1
    BY DEF TypeOK
  <2>2. \A z \in Workers : Late(inbox'[z], round')
    BY <1>0, <2>1 DEF RoundInv
  <2>3. QED
    BY <2>1, <2>2 DEF TypeOK, RoundInv
<1>5. PrepareInv'
  <2>1. round \in Nat /\ round' = round + 1 /\ reply' = reply /\ prepareClient' = prepareClient
        /\ client' = client /\ ofRound' = ofRound
    BY DEF TypeOK
  <2>2. \A z \in Workers : OnlyLast(inbox'[z], round')
    BY <1>0, <2>1 DEF RoundInv
  <2>3. \A z \in Workers : ofRound[z] <= round /\ ofRound[z] \in Nat
    BY DEF TypeOK, RoundInv
  <2>4. \A z \in Workers : reply[z] = "none" /\ prepareClient[z] = 0 /\ client[z] # 0
    BY DEF LinkInv
  <2>5. QED
    BY <2>1, <2>2, <2>3, <2>4 DEF PrepareInv, Usable
<1>6. CommitInv'
  BY <1>0, SMTT(20) DEF CommitInv, Persisted, Requests
<1>7. CommittedIsCaptured' /\ RollbackClosesNothing'
  BY <1>0, SMTT(20) DEF TypeOK, CommittedIsCaptured, RollbackClosesNothing
<1>8. QED
  BY <1>1, <1>2, <1>3, <1>4, <1>5, <1>6, <1>7

\* An answer is read, and a prepared worker remembered.
LEMMA HearStep ==
  ASSUME IInv, NEW w \in Workers, Hear(w)
  PROVE  IInv'
<1> USE RestartAssumption DEF IInv, Hear, supVars, linkVars, txnVars, workVars
<1>1. TypeOK'
  BY DEF TypeOK, SupPhases, TxnPhases
<1>2. LinkInv'
  BY SMTT(30) DEF TypeOK, LinkInv
<1>3. HoldInv'
  BY DEF TypeOK, HoldInv
<1>4. RoundInv'
  BY DEF TypeOK, RoundInv
<1>5. PrepareInv'
  BY DEF TypeOK, LinkInv, PrepareInv, Answered, Usable
<1>6. CommitInv'
  BY DEF TypeOK, HoldInv, CommitInv, Persisted
<1>7. CommittedIsCaptured' /\ RollbackClosesNothing'
  BY DEF TypeOK, CommittedIsCaptured, RollbackClosesNothing
<1>8. QED
  BY <1>1, <1>2, <1>3, <1>4, <1>5, <1>6, <1>7

\* A request is given up.
LEMMA TimesOutStep ==
  ASSUME IInv, NEW w \in Workers, TimesOut(w)
  PROVE  IInv'
<1> USE RestartAssumption DEF IInv, TimesOut, supVars, linkVars, txnVars, workVars
<1>1. TypeOK'
  BY DEF TypeOK, SupPhases, TxnPhases
<1>2. LinkInv'
  BY DEF TypeOK, LinkInv
<1>3. HoldInv'
  BY DEF TypeOK, HoldInv
<1>4. RoundInv'
  BY DEF TypeOK, RoundInv
<1>5. PrepareInv'
  BY DEF TypeOK, LinkInv, PrepareInv, Answered, Usable
<1>6. CommitInv'
  BY DEF TypeOK, HoldInv, CommitInv, Persisted
<1>7. CommittedIsCaptured' /\ RollbackClosesNothing'
  BY DEF TypeOK, CommittedIsCaptured, RollbackClosesNothing
<1>8. QED
  BY <1>1, <1>2, <1>3, <1>4, <1>5, <1>6, <1>7

\* A connection is gone for the supervisor.
LEMMA ClientClosesStep ==
  ASSUME IInv, NEW w \in Workers, ClientCloses(w)
  PROVE  IInv'
<1> USE RestartAssumption DEF IInv, ClientCloses, supVars, linkVars, txnVars, workVars
<1>1. TypeOK'
  <2>1. inbox' \in [Workers -> Seq(Messages)]
    BY SMTT(20) DEF TypeOK
  <2>2. phase' \in [Workers -> TxnPhases]
    BY SMTT(20) DEF TypeOK, TxnPhases
  <2>3. reply' \in [Workers -> {"none", "ok", "error"}] /\ answer' \in [Workers -> {"none", "ok", "fail"}]
    BY SMTT(20) DEF TypeOK
  <2>4. ofRound' \in [Workers -> 0..MaxRounds] /\ owner' \in [Workers -> 0..MaxConns]
    BY SMTT(20) DEF TypeOK
  <2>5. claim' \in [Workers -> 0..MaxConns] /\ client' \in [Workers -> 0..MaxConns]
        /\ conns' \in [Workers -> 1..MaxConns]
    BY SMTT(20) DEF TypeOK
  <2>6. up' \subseteq Workers /\ aborted' \subseteq Workers /\ timer' \subseteq Workers
    BY SMTT(20) DEF TypeOK
  <2>7. QED
    BY <2>1, <2>2, <2>3, <2>4, <2>5, <2>6, SMTT(20) DEF TypeOK
<1>2. LinkInv'
  BY DEF TypeOK, LinkInv
<1>3. HoldInv'
  BY DEF TypeOK, HoldInv
<1>4. RoundInv'
  BY DEF TypeOK, RoundInv
<1>5. PrepareInv'
  BY DEF TypeOK, LinkInv, PrepareInv, Answered, Usable
<1>6. CommitInv'
  BY DEF TypeOK, HoldInv, CommitInv, Persisted
<1>7. CommittedIsCaptured' /\ RollbackClosesNothing'
  BY DEF TypeOK, CommittedIsCaptured, RollbackClosesNothing
<1>8. QED
  BY <1>1, <1>2, <1>3, <1>4, <1>5, <1>6, <1>7

\* Prepared workers are told to cancel.
LEMMA RollBackStep ==
  ASSUME IInv, RollBack
  PROVE  IInv'
<1> USE RestartAssumption DEF IInv, RollBack, CancelAcknowledged, Settled, Usable, supVars,
        linkVars, txnVars, workVars
<1>0. \A z \in Workers :
        LET s == inbox[z]
            m == [type |-> "cancel", round |-> round']
        IN /\ m \in Messages /\ s \in Seq(Messages)
           /\ inbox'[z] \in {s, Append(s, m)}
           /\ z \notin up => inbox'[z] = s
           /\ Append(s, m) \in Seq(Messages)
           /\ \A r, q \in Nat : Late(s, r) /\ r <= q =>
                Late(s, q) /\ (round' <= q => Late(Append(s, m), q))
           /\ \A r \in Nat : Late(s, r) /\ r < round' =>
                OnlyLast(s, round') /\ OnlyLast(Append(s, m), round')
           /\ \A t \in Requests : Has(Append(s, m), t) => Has(s, t) \/ t = "cancel"
  <2>1. [type |-> "cancel", round |-> round'] \in Messages
    BY DEF TypeOK, LinkInv, RoundInv, Messages, Requests
  <2>2. \A z \in Workers : inbox[z] \in Seq(Messages)
    BY DEF TypeOK
  <2>3. inbox' = [z \in Workers |-> inbox'[z]]
        /\ \A z \in Workers :
             /\ inbox'[z] \in {inbox[z], Append(inbox[z], [type |-> "cancel", round |-> round'])}
             /\ z \notin up => inbox'[z] = inbox[z]
    OBVIOUS
  <2>4. QED
    BY <2>1, <2>2, <2>3, AppendFacts
<1>1. TypeOK'
  BY <1>0, SMTT(20) DEF TypeOK, SupPhases, TxnPhases
<1>2. LinkInv'
  BY <1>0, SMTT(20) DEF TypeOK, LinkInv
<1>3. HoldInv'
  BY <1>0, SMTT(20) DEF TypeOK, HoldInv
<1>4. RoundInv'
  BY <1>0, SMTT(20) DEF TypeOK, RoundInv
<1>5. PrepareInv'
  BY <1>0, SMTT(20) DEF TypeOK, LinkInv, PrepareInv, Answered, Usable
<1>6. CommitInv'
  BY <1>0, SMTT(20) DEF CommitInv, Persisted, Requests
<1>7. CommittedIsCaptured' /\ RollbackClosesNothing'
  BY <1>0, SMTT(20) DEF TypeOK, CommittedIsCaptured, RollbackClosesNothing
<1>8. QED
  BY <1>1, <1>2, <1>3, <1>4, <1>5, <1>6, <1>7

\* The manifest is persisted and the commits go out.
LEMMA PersistStep ==
  ASSUME IInv, Persist
  PROVE  IInv'
<1> USE RestartAssumption DEF IInv, Persist, Send, Settled, Stale, Failed, Usable, supVars,
        linkVars, txnVars, workVars
<1>0. \A z \in Workers :
        LET s == inbox[z]
            m == [type |-> "commit", round |-> round']
        IN /\ m \in Messages /\ s \in Seq(Messages)
           /\ inbox'[z] \in {s, Append(s, m)}
           /\ z \notin up => inbox'[z] = s
           /\ Append(s, m) \in Seq(Messages)
           /\ \A r, q \in Nat : Late(s, r) /\ r <= q =>
                Late(s, q) /\ (round' <= q => Late(Append(s, m), q))
           /\ \A r \in Nat : Late(s, r) /\ r < round' =>
                OnlyLast(s, round') /\ OnlyLast(Append(s, m), round')
           /\ \A t \in Requests : Has(Append(s, m), t) => Has(s, t) \/ t = "commit"
  <2>1. [type |-> "commit", round |-> round'] \in Messages
    BY DEF TypeOK, LinkInv, RoundInv, Messages, Requests
  <2>2. \A z \in Workers : inbox[z] \in Seq(Messages)
    BY DEF TypeOK
  <2>3. inbox' = [z \in Workers |-> inbox'[z]]
        /\ \A z \in Workers :
             /\ inbox'[z] \in {inbox[z], Append(inbox[z], [type |-> "commit", round |-> round'])}
             /\ z \notin up => inbox'[z] = inbox[z]
    OBVIOUS
  <2>4. QED
    BY <2>1, <2>2, <2>3, AppendFacts
<1>1. TypeOK'
  BY <1>0, SMTT(20) DEF TypeOK, SupPhases, TxnPhases
<1>2. LinkInv'
  BY <1>0, SMTT(20) DEF TypeOK, LinkInv
<1>3. HoldInv'
  BY <1>0, SMTT(20) DEF TypeOK, HoldInv
<1>4. RoundInv'
  BY <1>0, SMTT(20) DEF TypeOK, RoundInv
<1>5. PrepareInv'
  BY <1>0, SMTT(20) DEF TypeOK, LinkInv, PrepareInv, Answered, Usable
<1>6. CommitInv'
  <2>1. ASSUME NEW z \in Workers
        PROVE  inbox[z] = <<>> /\ (z \in up => phase[z] = "prepared")
    BY DEF PrepareInv, Answered
  <2>2. \A z \in Workers : ~Has(inbox'[z], "prepare")
    BY <1>0, <2>1, EmptyFacts DEF Requests
  <2>3. \A z \in Workers : Has(inbox'[z], "commit") => phase[z] = "prepared"
    BY <1>0, <2>1, EmptyFacts
  <2>4. QED
    BY <2>2, <2>3 DEF TypeOK, CommitInv, Persisted
<1>7. CommittedIsCaptured' /\ RollbackClosesNothing'
  BY <1>0, SMTT(20) DEF TypeOK, CommittedIsCaptured, RollbackClosesNothing
<1>8. QED
  BY <1>1, <1>2, <1>3, <1>4, <1>5, <1>6, <1>7

\* The preparation is over.
LEMMA RolledBackStep ==
  ASSUME IInv, RolledBack
  PROVE  IInv'
<1> USE RestartAssumption DEF IInv, RolledBack, Settled, supVars, linkVars, txnVars, workVars
<1>1. TypeOK'
  BY DEF TypeOK, SupPhases, TxnPhases
<1>2. LinkInv'
  BY DEF TypeOK, LinkInv
<1>3. HoldInv'
  BY DEF TypeOK, HoldInv
<1>4. RoundInv'
  BY DEF TypeOK, RoundInv
<1>5. PrepareInv'
  BY DEF TypeOK, LinkInv, PrepareInv, Answered, Usable
<1>6. CommitInv'
  BY DEF TypeOK, HoldInv, CommitInv, Persisted
<1>7. CommittedIsCaptured' /\ RollbackClosesNothing'
  BY DEF TypeOK, CommittedIsCaptured, RollbackClosesNothing
<1>8. QED
  BY <1>1, <1>2, <1>3, <1>4, <1>5, <1>6, <1>7

\* All commits are answered.
LEMMA CommittedStep ==
  ASSUME IInv, Committed
  PROVE  IInv'
<1> USE RestartAssumption DEF IInv, Committed, Settled, Failed, supVars, linkVars, txnVars, workVars
<1>1. TypeOK'
  BY DEF TypeOK, SupPhases, TxnPhases
<1>2. LinkInv'
  BY DEF TypeOK, LinkInv
<1>3. HoldInv'
  BY DEF TypeOK, HoldInv
<1>4. RoundInv'
  BY DEF TypeOK, RoundInv
<1>5. PrepareInv'
  BY DEF TypeOK, LinkInv, PrepareInv, Answered, Usable
<1>6. CommitInv'
  BY DEF TypeOK, HoldInv, CommitInv, Persisted
<1>7. CommittedIsCaptured' /\ RollbackClosesNothing'
  BY DEF TypeOK, CommittedIsCaptured, RollbackClosesNothing
<1>8. QED
  BY <1>1, <1>2, <1>3, <1>4, <1>5, <1>6, <1>7

\* A worker is stopped.
LEMMA StopWorkerStep ==
  ASSUME IInv, NEW w \in Workers, StopWorker(w)
  PROVE  IInv'
<1> USE RestartAssumption
<1>1. /\ inbox' \in [Workers -> Seq(Messages)]
      /\ \A z \in Workers : z # w => inbox'[z] = inbox[z]
      /\ inbox'[w] = <<>>
      /\ \A z \in Workers : Late(inbox'[z], round)
      /\ sup = "preparing" => \A z \in Workers : OnlyLast(inbox'[z], round)
      /\ \A z \in Workers : /\ Has(inbox'[z], "commit") => Has(inbox[z], "commit")
                            /\ Has(inbox'[z], "prepare") => Has(inbox[z], "prepare")
  <2>1. inbox' = [inbox EXCEPT ![w] = <<>>] /\ "commit" \in Requests /\ "prepare" \in Requests
    BY DEF StopWorker, Requests
  <2>2. QED
    BY <2>1, ClearFacts
<1>2. /\ sup' = sup /\ round' = round
      /\ prepareClient' = prepareClient /\ manifest' = manifest
      /\ conns' = conns /\ reply' = reply
      /\ up' = up \ {w} /\ timer' = timer \ {w} /\ running' = running \ {w}
      /\ owner' = owner /\ ofRound' = ofRound /\ aborted' = aborted
      /\ checkpoint' = checkpoint /\ changes' = changes
      /\ phase' = [phase EXCEPT ![w] = "stopped"]
      /\ claim' = [claim EXCEPT ![w] = 0]
      /\ sup \in {"stopping", "forcing"} /\ answer[w] = "none" /\ faults' = faults
      /\ answer' = [answer EXCEPT ![w] = "ok"]
      /\ client' = [client EXCEPT ![w] = 0]
  BY DEF StopWorker
<1>3. TypeOK'
  <2>1. Types
    BY SplitTypes DEF IInv
  <2>2. /\ phase' \in [Workers -> TxnPhases]
        /\ claim' \in [Workers -> 0..MaxConns] /\ owner' \in [Workers -> 0..MaxConns]
    BY <1>2, <2>1, SMTT(30) DEF Types, TxnPhases
  <2>3. /\ reply' \in [Workers -> {"none", "ok", "error"}]
        /\ answer' \in [Workers -> {"none", "ok", "fail"}]
        /\ ofRound' \in [Workers -> 0..MaxRounds]
    BY <1>2, <2>1, SMTT(30) DEF Types
  <2>4. /\ client' \in [Workers -> 0..MaxConns] /\ conns' \in [Workers -> 1..MaxConns]
        /\ aborted' \subseteq Workers /\ timer' \subseteq Workers /\ up' \subseteq Workers
    BY <1>2, <2>1, SMTT(30) DEF Types
  <2>5. Types'
    BY <1>2, <2>1, <2>2, <2>3, <2>4, SMTT(30) DEF Types
  <2>6. QED
    BY <1>1, <2>5, SplitTypes
<1>4. LinkInv'
  BY <1>1, <1>2, SMTT(30) DEF IInv, TypeOK, LinkInv
<1>5. HoldInv'
  BY <1>2, SMTT(30) DEF IInv, TypeOK, HoldInv
<1>6. RoundInv'
  BY <1>1, <1>2, SMTT(30) DEF IInv, TypeOK, RoundInv
<1>7. PrepareInv'
  BY <1>2 DEF PrepareInv
<1>8. CommitInv'
  <2>1. \A z \in Workers :
          phase'[z] \notin {"preparing", "drained", "fencing"} \/ phase'[z] = phase[z]
    BY <1>2 DEF IInv, TypeOK
  <2>2. QED
    BY <1>1, <1>2, <2>1 DEF IInv, CommitInv, Persisted
<1>9. CommittedIsCaptured' /\ RollbackClosesNothing'
  <2>1. \A z \in Workers : phase'[z] \in {"publishing", "closed"} => phase'[z] = phase[z]
    BY <1>2 DEF IInv, TypeOK
  <2>2. QED
    BY <1>2, <2>1 DEF IInv, CommittedIsCaptured, RollbackClosesNothing
<1>10. QED
  BY <1>3, <1>4, <1>5, <1>6, <1>7, <1>8, <1>9 DEF IInv

\* A stop times out.
LEMMA StopTimesOutStep ==
  ASSUME IInv, NEW w \in Workers, StopTimesOut(w)
  PROVE  IInv'
<1> USE RestartAssumption DEF IInv, StopTimesOut, supVars, linkVars, txnVars, workVars
<1>1. TypeOK'
  BY DEF TypeOK, SupPhases, TxnPhases
<1>2. LinkInv'
  BY DEF TypeOK, LinkInv
<1>3. HoldInv'
  BY DEF TypeOK, HoldInv
<1>4. RoundInv'
  BY DEF TypeOK, RoundInv
<1>5. PrepareInv'
  BY DEF TypeOK, LinkInv, PrepareInv, Answered, Usable
<1>6. CommitInv'
  BY DEF TypeOK, HoldInv, CommitInv, Persisted
<1>7. CommittedIsCaptured' /\ RollbackClosesNothing'
  BY DEF TypeOK, CommittedIsCaptured, RollbackClosesNothing
<1>8. QED
  BY <1>1, <1>2, <1>3, <1>4, <1>5, <1>6, <1>7

\* All workers are stopped, or will be by force.
LEMMA StoppedStep ==
  ASSUME IInv, Stopped
  PROVE  IInv'
<1> USE RestartAssumption DEF IInv, Stopped, Settled, Failed, supVars, linkVars, txnVars, workVars
<1>1. TypeOK'
  BY DEF TypeOK, SupPhases, TxnPhases
<1>2. LinkInv'
  BY DEF TypeOK, LinkInv
<1>3. HoldInv'
  BY DEF TypeOK, HoldInv
<1>4. RoundInv'
  BY DEF TypeOK, RoundInv
<1>5. PrepareInv'
  BY DEF TypeOK, LinkInv, PrepareInv, Answered, Usable
<1>6. CommitInv'
  BY DEF TypeOK, HoldInv, CommitInv, Persisted
<1>7. CommittedIsCaptured' /\ RollbackClosesNothing'
  BY DEF TypeOK, CommittedIsCaptured, RollbackClosesNothing
<1>8. QED
  BY <1>1, <1>2, <1>3, <1>4, <1>5, <1>6, <1>7

\* The supervisor dies.
LEMMA SupervisorDiesStep ==
  ASSUME IInv, SupervisorDies
  PROVE  IInv'
<1> USE RestartAssumption DEF IInv, SupervisorDies, supVars, linkVars, txnVars, workVars
<1>1. TypeOK'
  BY DEF TypeOK, SupPhases, TxnPhases
<1>2. LinkInv'
  BY DEF TypeOK, LinkInv
<1>3. HoldInv'
  BY DEF TypeOK, HoldInv
<1>4. RoundInv'
  BY DEF TypeOK, RoundInv
<1>5. PrepareInv'
  BY DEF TypeOK, LinkInv, PrepareInv, Answered, Usable
<1>6. CommitInv'
  BY DEF TypeOK, HoldInv, CommitInv, Persisted
<1>7. CommittedIsCaptured' /\ RollbackClosesNothing'
  BY DEF TypeOK, CommittedIsCaptured, RollbackClosesNothing
<1>8. QED
  BY <1>1, <1>2, <1>3, <1>4, <1>5, <1>6, <1>7

\* A transaction begins, or the request is refused.
LEMMA HandlePrepareStep ==
  ASSUME IInv, NEW w \in Workers, HandlePrepare(w)
  PROVE  IInv'
<1> USE RestartAssumption
<1>1. /\ inbox' \in [Workers -> Seq(Messages)]
      /\ \A z \in Workers : z # w => inbox'[z] = inbox[z]
      /\ inbox[w] # <<>> /\ Has(inbox[w], "prepare")
      /\ Head(inbox[w]).round \in 1..MaxRounds /\ Head(inbox[w]).round <= round
      /\ \A z \in Workers : Late(inbox'[z], round)
      /\ sup = "preparing" => \A z \in Workers : OnlyLast(inbox'[z], round)
      /\ sup = "preparing" /\ Head(inbox[w]).round = round => inbox'[w] = <<>>
      /\ \A z \in Workers : /\ Has(inbox'[z], "commit") => Has(inbox[z], "commit")
                            /\ Has(inbox'[z], "prepare") => Has(inbox[z], "prepare")
  <2>1. Take(w, "prepare") /\ "prepare" \in Requests /\ "commit" \in Requests /\ "prepare" \in Requests
    BY DEF HandlePrepare, Requests
  <2>2. QED
    BY <2>1, TakeFacts
<1>2. /\ sup' = sup /\ round' = round /\ answer' = answer
      /\ prepareClient' = prepareClient /\ manifest' = manifest
      /\ client' = client /\ conns' = conns /\ up' = up /\ claim' = claim
      /\ checkpoint' = checkpoint /\ changes' = changes /\ running' = running /\ faults' = faults
      /\ \/ phase' = [phase EXCEPT ![w] = "preparing"] /\ phase[w] = "none"
         \/ phase' = phase
      /\ owner' \in {owner, [owner EXCEPT ![w] = claim[w]]}
      /\ ofRound' \in {ofRound, [ofRound EXCEPT ![w] = Head(inbox[w]).round]}
      /\ aborted' \subseteq aborted /\ timer' \subseteq timer \cup {w}
      /\ \/ reply' = reply
         \/ /\ sup = "preparing" /\ answer[w] = "none" /\ w \in up
            /\ reply' = [reply EXCEPT ![w] = "error"]
  BY DEF HandlePrepare, Request, Reply, Awaiting, Requests, supVars, workVars
<1>3. TypeOK'
  <2>1. Types
    BY SplitTypes DEF IInv
  <2>2. Head(inbox[w]).round \in 0..MaxRounds
    BY <1>1
  <2>3. /\ phase' \in [Workers -> TxnPhases]
        /\ claim' \in [Workers -> 0..MaxConns] /\ owner' \in [Workers -> 0..MaxConns]
    BY <1>2, <2>1, SMTT(30) DEF Types, TxnPhases
  <2>4. /\ reply' \in [Workers -> {"none", "ok", "error"}]
        /\ answer' \in [Workers -> {"none", "ok", "fail"}]
        /\ ofRound' \in [Workers -> 0..MaxRounds]
    BY <1>2, <2>1, <2>2, SMTT(30) DEF Types
  <2>5. /\ client' \in [Workers -> 0..MaxConns] /\ conns' \in [Workers -> 1..MaxConns]
        /\ aborted' \subseteq Workers /\ timer' \subseteq Workers /\ up' \subseteq Workers
    BY <1>2, <2>1, SMTT(30) DEF Types
  <2>6. Types'
    BY <1>2, <2>1, <2>3, <2>4, <2>5, SMTT(30) DEF Types
  <2>7. QED
    BY <1>1, <2>6, SplitTypes
<1>4. LinkInv'
  BY <1>1, <1>2, SMTT(30) DEF IInv, TypeOK, LinkInv
<1>5. HoldInv'
  BY <1>2, SMTT(30) DEF IInv, TypeOK, HoldInv
<1>6. RoundInv'
  <2>1. \A z \in Workers : ofRound'[z] \in {ofRound[z], Head(inbox[w]).round} /\ (z # w => ofRound'[z] = ofRound[z])
    BY <1>2 DEF IInv, TypeOK
  <2>2. \A z \in Workers : ofRound'[z] <= round
    BY <1>1, <2>1 DEF IInv, RoundInv
  <2>3. QED
    BY <1>1, <1>2, <2>2 DEF IInv, RoundInv
<1>7. PrepareInv'
  <2>1. sup = "preparing" => /\ reply[w] # "ok" /\ ~Usable(w) /\ ofRound[w] # round
    BY <1>1 DEF IInv, PrepareInv, Answered
  <2>2. ASSUME NEW z \in Workers, z # w
        PROVE  /\ phase'[z] = phase[z] /\ ofRound'[z] = ofRound[z] /\ reply'[z] = reply[z]
               /\ inbox'[z] = inbox[z]
    <3>1. phase'[z] = phase[z] /\ ofRound'[z] = ofRound[z] /\ reply'[z] = reply[z]
      BY <1>2, <2>2 DEF IInv, TypeOK
    <3>2. QED
      BY <1>1, <2>2, <3>1
  <2>3. /\ reply'[w] \in {reply[w], "ok", "error"}
        /\ sup = "preparing" => reply'[w] \in {reply[w], "error"}
        /\ ofRound'[w] \in {ofRound[w], Head(inbox[w]).round}
    BY <1>2 DEF IInv, TypeOK
  <2>4. ASSUME NEW z \in Workers, z # w, sup = "preparing"
        PROVE  /\ ofRound'[z] = round' => inbox'[z] = <<>>
               /\ reply'[z] = "ok" => Answered(z)'
               /\ Usable(z)' => Answered(z)'
    BY <1>2, <2>2, <2>4 DEF IInv, PrepareInv, Answered, Usable
  <2>5. sup = "preparing" => /\ ofRound'[w] = round' => inbox'[w] = <<>>
                             /\ reply'[w] # "ok" /\ ~Usable(w)'
    BY <1>1, <1>2, <2>1, <2>3 DEF Usable
  <2>6. QED
    BY <1>1, <1>2, <2>4, <2>5 DEF PrepareInv
<1>8. CommitInv'
  <2>1. ~Has(inbox'[w], "commit")
    BY <1>1 DEF IInv, CommitInv
  <2>2. \A z \in Workers : z # w => phase'[z] = phase[z]
    BY <1>2 DEF IInv, TypeOK
  <2>3. QED
    BY <1>1, <1>2, <2>1, <2>2 DEF IInv, CommitInv, Persisted
<1>9. CommittedIsCaptured' /\ RollbackClosesNothing'
  <2>1. \A z \in Workers : phase'[z] \in {"publishing", "closed"} => phase'[z] = phase[z]
    BY <1>2 DEF IInv, TypeOK
  <2>2. QED
    BY <1>2, <2>1 DEF IInv, CommittedIsCaptured, RollbackClosesNothing
<1>10. QED
  BY <1>3, <1>4, <1>5, <1>6, <1>7, <1>8, <1>9 DEF IInv

\* The first drain returns.
LEMMA DrainedStep ==
  ASSUME IInv, NEW w \in Workers, Drained(w)
  PROVE  IInv'
<1> USE RestartAssumption DEF IInv, Drained, supVars, linkVars, txnVars, workVars
<1>1. TypeOK'
  BY DEF TypeOK, SupPhases, TxnPhases
<1>2. LinkInv'
  BY DEF TypeOK, LinkInv
<1>3. HoldInv'
  BY DEF TypeOK, HoldInv
<1>4. RoundInv'
  BY DEF TypeOK, RoundInv
<1>5. PrepareInv'
  BY DEF TypeOK, LinkInv, PrepareInv, Answered, Usable
<1>6. CommitInv'
  BY DEF TypeOK, HoldInv, CommitInv, Persisted
<1>7. CommittedIsCaptured' /\ RollbackClosesNothing'
  BY DEF TypeOK, CommittedIsCaptured, RollbackClosesNothing
<1>8. QED
  BY <1>1, <1>2, <1>3, <1>4, <1>5, <1>6, <1>7

\* Admissions end.
LEMMA FenceStep ==
  ASSUME IInv, NEW w \in Workers, Fence(w)
  PROVE  IInv'
<1> USE RestartAssumption DEF IInv, Fence, supVars, linkVars, txnVars, workVars
<1>1. TypeOK'
  BY DEF TypeOK, SupPhases, TxnPhases
<1>2. LinkInv'
  BY DEF TypeOK, LinkInv
<1>3. HoldInv'
  BY DEF TypeOK, HoldInv
<1>4. RoundInv'
  BY DEF TypeOK, RoundInv
<1>5. PrepareInv'
  BY DEF TypeOK, LinkInv, PrepareInv, Answered, Usable
<1>6. CommitInv'
  BY DEF TypeOK, HoldInv, CommitInv, Persisted
<1>7. CommittedIsCaptured' /\ RollbackClosesNothing'
  BY DEF TypeOK, CommittedIsCaptured, RollbackClosesNothing
<1>8. QED
  BY <1>1, <1>2, <1>3, <1>4, <1>5, <1>6, <1>7

\* The checkpoint has every mutation.
LEMMA CheckpointStep ==
  ASSUME IInv, NEW w \in Workers, Checkpoint(w)
  PROVE  IInv'
<1> USE RestartAssumption DEF IInv, Checkpoint, Reply, Awaiting, Requests, supVars, linkVars,
        txnVars, workVars
<1>1. TypeOK'
  BY DEF TypeOK, SupPhases, TxnPhases
<1>2. LinkInv'
  BY DEF TypeOK, LinkInv
<1>3. HoldInv'
  BY DEF TypeOK, HoldInv
<1>4. RoundInv'
  BY DEF TypeOK, RoundInv
<1>5. PrepareInv'
  BY SMTT(30) DEF TypeOK, LinkInv, PrepareInv, Answered, Usable
<1>6. CommitInv'
  BY DEF TypeOK, HoldInv, CommitInv, Persisted
<1>7. CommittedIsCaptured' /\ RollbackClosesNothing'
  BY DEF TypeOK, CommittedIsCaptured, RollbackClosesNothing
<1>8. QED
  BY <1>1, <1>2, <1>3, <1>4, <1>5, <1>6, <1>7

\* The checkpoint fails.
LEMMA CheckpointFailsStep ==
  ASSUME IInv, NEW w \in Workers, CheckpointFails(w)
  PROVE  IInv'
<1> USE RestartAssumption DEF IInv, CheckpointFails, Cancel, Reply, Awaiting, Requests,
        supVars, linkVars, txnVars, workVars
<1>1. TypeOK'
  BY DEF TypeOK, SupPhases, TxnPhases
<1>2. LinkInv'
  BY DEF TypeOK, LinkInv
<1>3. HoldInv'
  BY DEF TypeOK, HoldInv
<1>4. RoundInv'
  BY DEF TypeOK, RoundInv
<1>5. PrepareInv'
  BY DEF TypeOK, LinkInv, PrepareInv, Answered, Usable
<1>6. CommitInv'
  BY DEF TypeOK, HoldInv, CommitInv, Persisted
<1>7. CommittedIsCaptured' /\ RollbackClosesNothing'
  BY DEF TypeOK, CommittedIsCaptured, RollbackClosesNothing
<1>8. QED
  BY <1>1, <1>2, <1>3, <1>4, <1>5, <1>6, <1>7

\* A transaction reaches its deadline.
LEMMA DeadlineStep ==
  ASSUME IInv, NEW w \in Workers, Deadline(w)
  PROVE  IInv'
<1> USE RestartAssumption DEF IInv, Deadline, Cancel, supVars, linkVars, txnVars, workVars
<1>1. TypeOK'
  BY DEF TypeOK, SupPhases, TxnPhases
<1>2. LinkInv'
  BY DEF TypeOK, LinkInv
<1>3. HoldInv'
  BY DEF TypeOK, HoldInv
<1>4. RoundInv'
  BY DEF TypeOK, RoundInv
<1>5. PrepareInv'
  BY DEF TypeOK, LinkInv, PrepareInv, Answered, Usable
<1>6. CommitInv'
  BY DEF TypeOK, HoldInv, CommitInv, Persisted
<1>7. CommittedIsCaptured' /\ RollbackClosesNothing'
  BY DEF TypeOK, CommittedIsCaptured, RollbackClosesNothing
<1>8. QED
  BY <1>1, <1>2, <1>3, <1>4, <1>5, <1>6, <1>7

\* A cancellation is accepted or refused.
LEMMA HandleCancelStep ==
  ASSUME IInv, NEW w \in Workers, HandleCancel(w)
  PROVE  IInv'
<1> USE RestartAssumption
<1>1. /\ inbox' \in [Workers -> Seq(Messages)]
      /\ \A z \in Workers : z # w => inbox'[z] = inbox[z]
      /\ inbox[w] # <<>> /\ Has(inbox[w], "cancel")
      /\ Head(inbox[w]).round \in 1..MaxRounds /\ Head(inbox[w]).round <= round
      /\ \A z \in Workers : Late(inbox'[z], round)
      /\ sup = "preparing" => \A z \in Workers : OnlyLast(inbox'[z], round)
      /\ sup = "preparing" /\ Head(inbox[w]).round = round => inbox'[w] = <<>>
      /\ \A z \in Workers : /\ Has(inbox'[z], "commit") => Has(inbox[z], "commit")
                            /\ Has(inbox'[z], "prepare") => Has(inbox[z], "prepare")
  <2>1. Take(w, "cancel") /\ "cancel" \in Requests /\ "commit" \in Requests /\ "prepare" \in Requests
    BY DEF HandleCancel, Requests
  <2>2. QED
    BY <2>1, TakeFacts
<1>2. /\ sup' = sup /\ round' = round /\ answer' = answer
      /\ prepareClient' = prepareClient /\ manifest' = manifest
      /\ client' = client /\ conns' = conns /\ up' = up /\ claim' = claim
      /\ checkpoint' = checkpoint /\ changes' = changes /\ running' = running /\ faults' = faults
      /\ owner' = owner /\ ofRound' = ofRound
      /\ phase' \in {phase, [phase EXCEPT ![w] = "none"]}
      /\ aborted' \subseteq aborted \cup {w} /\ timer' \subseteq timer
      /\ \/ reply' = reply
         \/ /\ sup = "cancelling" /\ answer[w] = "none" /\ w \in up
            /\ reply' = [reply EXCEPT ![w] = "ok"] \/ reply' = [reply EXCEPT ![w] = "error"]
  BY DEF HandleCancel, Cancel, Request, Reply, Awaiting, Requests, supVars, workVars
<1>3. TypeOK'
  <2>1. Types
    BY SplitTypes DEF IInv
  <2>2. /\ phase' \in [Workers -> TxnPhases]
        /\ claim' \in [Workers -> 0..MaxConns] /\ owner' \in [Workers -> 0..MaxConns]
    BY <1>2, <2>1, SMTT(30) DEF Types, TxnPhases
  <2>3. /\ reply' \in [Workers -> {"none", "ok", "error"}]
        /\ answer' \in [Workers -> {"none", "ok", "fail"}]
        /\ ofRound' \in [Workers -> 0..MaxRounds]
    BY <1>2, <2>1, SMTT(30) DEF Types
  <2>4. /\ client' \in [Workers -> 0..MaxConns] /\ conns' \in [Workers -> 1..MaxConns]
        /\ aborted' \subseteq Workers /\ timer' \subseteq Workers /\ up' \subseteq Workers
    BY <1>2, <2>1, SMTT(30) DEF Types
  <2>5. Types'
    BY <1>2, <2>1, <2>2, <2>3, <2>4, SMTT(30) DEF Types
  <2>6. QED
    BY <1>1, <2>5, SplitTypes
<1>4. LinkInv'
  BY <1>1, <1>2, SMTT(30) DEF IInv, TypeOK, LinkInv
<1>5. HoldInv'
  BY <1>2, SMTT(30) DEF IInv, TypeOK, HoldInv
<1>6. RoundInv'
  BY <1>1, <1>2, SMTT(30) DEF IInv, TypeOK, RoundInv
<1>7. PrepareInv'
  <2>1. sup = "preparing" => /\ reply[w] # "ok" /\ ~Usable(w) /\ ofRound[w] # round
    BY <1>1 DEF IInv, PrepareInv, Answered
  <2>2. ASSUME NEW z \in Workers, z # w
        PROVE  /\ phase'[z] = phase[z] /\ ofRound'[z] = ofRound[z] /\ reply'[z] = reply[z]
               /\ inbox'[z] = inbox[z]
    <3>1. phase'[z] = phase[z] /\ ofRound'[z] = ofRound[z] /\ reply'[z] = reply[z]
      BY <1>2, <2>2 DEF IInv, TypeOK
    <3>2. QED
      BY <1>1, <2>2, <3>1
  <2>3. /\ reply'[w] \in {reply[w], "ok", "error"}
        /\ sup = "preparing" => reply'[w] \in {reply[w], "error"}
        /\ ofRound'[w] \in {ofRound[w], Head(inbox[w]).round}
    BY <1>2 DEF IInv, TypeOK
  <2>4. ASSUME NEW z \in Workers, z # w, sup = "preparing"
        PROVE  /\ ofRound'[z] = round' => inbox'[z] = <<>>
               /\ reply'[z] = "ok" => Answered(z)'
               /\ Usable(z)' => Answered(z)'
    BY <1>2, <2>2, <2>4 DEF IInv, PrepareInv, Answered, Usable
  <2>5. sup = "preparing" => /\ ofRound'[w] = round' => inbox'[w] = <<>>
                             /\ reply'[w] # "ok" /\ ~Usable(w)'
    BY <1>1, <1>2, <2>1, <2>3 DEF Usable
  <2>6. QED
    BY <1>1, <1>2, <2>4, <2>5 DEF PrepareInv
<1>8. CommitInv'
  <2>1. \A z \in Workers :
          phase'[z] \notin {"preparing", "drained", "fencing"} \/ phase'[z] = phase[z]
    BY <1>2 DEF IInv, TypeOK
  <2>2. QED
    BY <1>1, <1>2, <2>1 DEF IInv, CommitInv, Persisted
<1>9. CommittedIsCaptured' /\ RollbackClosesNothing'
  <2>1. \A z \in Workers : phase'[z] \in {"publishing", "closed"} => phase'[z] = phase[z]
    BY <1>2 DEF IInv, TypeOK
  <2>2. QED
    BY <1>2, <2>1 DEF IInv, CommittedIsCaptured, RollbackClosesNothing
<1>10. QED
  BY <1>3, <1>4, <1>5, <1>6, <1>7, <1>8, <1>9 DEF IInv

\* A commit is accepted only with the persisted checkpoint.
LEMMA HandleCommitStep ==
  ASSUME IInv, NEW w \in Workers, HandleCommit(w)
  PROVE  IInv'
<1> USE RestartAssumption
<1>1. /\ inbox' \in [Workers -> Seq(Messages)]
      /\ \A z \in Workers : z # w => inbox'[z] = inbox[z]
      /\ inbox[w] # <<>> /\ Has(inbox[w], "commit")
      /\ Head(inbox[w]).round \in 1..MaxRounds /\ Head(inbox[w]).round <= round
      /\ \A z \in Workers : Late(inbox'[z], round)
      /\ sup = "preparing" => \A z \in Workers : OnlyLast(inbox'[z], round)
      /\ sup = "preparing" /\ Head(inbox[w]).round = round => inbox'[w] = <<>>
      /\ \A z \in Workers : /\ Has(inbox'[z], "commit") => Has(inbox[z], "commit")
                            /\ Has(inbox'[z], "prepare") => Has(inbox[z], "prepare")
  <2>1. Take(w, "commit") /\ "commit" \in Requests /\ "commit" \in Requests /\ "prepare" \in Requests
    BY DEF HandleCommit, Requests
  <2>2. QED
    BY <2>1, TakeFacts
<1>2. /\ sup' = sup /\ round' = round /\ answer' = answer
      /\ prepareClient' = prepareClient /\ manifest' = manifest
      /\ client' = client /\ conns' = conns /\ up' = up /\ claim' = claim
      /\ checkpoint' = checkpoint /\ changes' = changes /\ running' = running /\ faults' = faults
      /\ owner' = owner /\ ofRound' = ofRound
      /\ \/ phase' = phase
         \/ phase' = [phase EXCEPT ![w] = "publishing"] /\ phase[w] = "prepared"
      /\ aborted' = aborted /\ timer' \subseteq timer
      /\ \/ reply' = reply
         \/ /\ sup = "committing" /\ answer[w] = "none" /\ w \in up
            /\ reply' = [reply EXCEPT ![w] = "error"]
  BY DEF HandleCommit, Request, Reply, Awaiting, Requests, supVars, workVars
<1>3. TypeOK'
  <2>1. Types
    BY SplitTypes DEF IInv
  <2>2. /\ phase' \in [Workers -> TxnPhases]
        /\ claim' \in [Workers -> 0..MaxConns] /\ owner' \in [Workers -> 0..MaxConns]
    BY <1>2, <2>1, SMTT(30) DEF Types, TxnPhases
  <2>3. /\ reply' \in [Workers -> {"none", "ok", "error"}]
        /\ answer' \in [Workers -> {"none", "ok", "fail"}]
        /\ ofRound' \in [Workers -> 0..MaxRounds]
    BY <1>2, <2>1, SMTT(30) DEF Types
  <2>4. /\ client' \in [Workers -> 0..MaxConns] /\ conns' \in [Workers -> 1..MaxConns]
        /\ aborted' \subseteq Workers /\ timer' \subseteq Workers /\ up' \subseteq Workers
    BY <1>2, <2>1, SMTT(30) DEF Types
  <2>5. Types'
    BY <1>2, <2>1, <2>2, <2>3, <2>4, SMTT(30) DEF Types
  <2>6. QED
    BY <1>1, <2>5, SplitTypes
<1>4. LinkInv'
  BY <1>1, <1>2, SMTT(30) DEF IInv, TypeOK, LinkInv
<1>5. HoldInv'
  BY <1>2, SMTT(30) DEF IInv, TypeOK, HoldInv
<1>6. RoundInv'
  BY <1>1, <1>2, SMTT(30) DEF IInv, TypeOK, RoundInv
<1>7. PrepareInv'
  <2>1. sup = "preparing" => /\ reply[w] # "ok" /\ ~Usable(w) /\ ofRound[w] # round
    BY <1>1 DEF IInv, PrepareInv, Answered
  <2>2. ASSUME NEW z \in Workers, z # w
        PROVE  /\ phase'[z] = phase[z] /\ ofRound'[z] = ofRound[z] /\ reply'[z] = reply[z]
               /\ inbox'[z] = inbox[z]
    <3>1. phase'[z] = phase[z] /\ ofRound'[z] = ofRound[z] /\ reply'[z] = reply[z]
      BY <1>2, <2>2 DEF IInv, TypeOK
    <3>2. QED
      BY <1>1, <2>2, <3>1
  <2>3. /\ reply'[w] \in {reply[w], "ok", "error"}
        /\ sup = "preparing" => reply'[w] \in {reply[w], "error"}
        /\ ofRound'[w] \in {ofRound[w], Head(inbox[w]).round}
    BY <1>2 DEF IInv, TypeOK
  <2>4. ASSUME NEW z \in Workers, z # w, sup = "preparing"
        PROVE  /\ ofRound'[z] = round' => inbox'[z] = <<>>
               /\ reply'[z] = "ok" => Answered(z)'
               /\ Usable(z)' => Answered(z)'
    BY <1>2, <2>2, <2>4 DEF IInv, PrepareInv, Answered, Usable
  <2>5. sup = "preparing" => /\ ofRound'[w] = round' => inbox'[w] = <<>>
                             /\ reply'[w] # "ok" /\ ~Usable(w)'
    BY <1>1, <1>2, <2>1, <2>3 DEF Usable
  <2>6. QED
    BY <1>1, <1>2, <2>4, <2>5 DEF PrepareInv
<1>8. CommitInv'
  <2>1. \A z \in Workers :
          phase'[z] \notin {"preparing", "drained", "fencing"} \/ phase'[z] = phase[z]
    BY <1>2 DEF IInv, TypeOK
  <2>2. QED
    BY <1>1, <1>2, <2>1 DEF IInv, CommitInv, Persisted
<1>9. CommittedIsCaptured' /\ RollbackClosesNothing'
  <2>1. \A z \in Workers : phase'[z] \in {"publishing", "closed"} =>
          phase'[z] = phase[z] \/ (z = w /\ phase[w] = "prepared")
    BY <1>2 DEF IInv, TypeOK
  <2>2. Persisted /\ manifest[w] = checkpoint[w]
    BY <1>1 DEF IInv, CommitInv
  <2>3. QED
    BY <1>2, <2>1, <2>2 DEF IInv, HoldInv, CommittedIsCaptured, RollbackClosesNothing, Persisted
<1>10. QED
  BY <1>3, <1>4, <1>5, <1>6, <1>7, <1>8, <1>9 DEF IInv

\* The sessions are closed.
LEMMA PublishStep ==
  ASSUME IInv, NEW w \in Workers, Publish(w)
  PROVE  IInv'
<1> USE RestartAssumption DEF IInv, Publish, Reply, Awaiting, Requests, supVars, linkVars,
        txnVars, workVars
<1>1. TypeOK'
  BY DEF TypeOK, SupPhases, TxnPhases
<1>2. LinkInv'
  BY DEF TypeOK, LinkInv
<1>3. HoldInv'
  BY DEF TypeOK, HoldInv
<1>4. RoundInv'
  BY DEF TypeOK, RoundInv
<1>5. PrepareInv'
  BY DEF TypeOK, LinkInv, PrepareInv, Answered, Usable
<1>6. CommitInv'
  BY DEF TypeOK, HoldInv, CommitInv, Persisted
<1>7. CommittedIsCaptured' /\ RollbackClosesNothing'
  BY DEF TypeOK, CommittedIsCaptured, RollbackClosesNothing
<1>8. QED
  BY <1>1, <1>2, <1>3, <1>4, <1>5, <1>6, <1>7

\* The sessions could not be closed.
LEMMA PublishFailsStep ==
  ASSUME IInv, NEW w \in Workers, PublishFails(w)
  PROVE  IInv'
<1> USE RestartAssumption DEF IInv, PublishFails, Reply, Awaiting, Requests, supVars, linkVars,
        txnVars, workVars
<1>1. TypeOK'
  BY DEF TypeOK, SupPhases, TxnPhases
<1>2. LinkInv'
  BY DEF TypeOK, LinkInv
<1>3. HoldInv'
  BY DEF TypeOK, HoldInv
<1>4. RoundInv'
  BY DEF TypeOK, RoundInv
<1>5. PrepareInv'
  BY DEF TypeOK, LinkInv, PrepareInv, Answered, Usable
<1>6. CommitInv'
  BY DEF TypeOK, HoldInv, CommitInv, Persisted
<1>7. CommittedIsCaptured' /\ RollbackClosesNothing'
  BY DEF TypeOK, CommittedIsCaptured, RollbackClosesNothing
<1>8. QED
  BY <1>1, <1>2, <1>3, <1>4, <1>5, <1>6, <1>7

\* A worker sees its connection close.
LEMMA LoseClaimStep ==
  ASSUME IInv, NEW w \in Workers, LoseClaim(w)
  PROVE  IInv'
<1> USE RestartAssumption
<1>1. /\ inbox' \in [Workers -> Seq(Messages)]
      /\ \A z \in Workers : z # w => inbox'[z] = inbox[z]
      /\ inbox'[w] = <<>>
      /\ \A z \in Workers : Late(inbox'[z], round)
      /\ sup = "preparing" => \A z \in Workers : OnlyLast(inbox'[z], round)
      /\ \A z \in Workers : /\ Has(inbox'[z], "commit") => Has(inbox[z], "commit")
                            /\ Has(inbox'[z], "prepare") => Has(inbox[z], "prepare")
  <2>1. inbox' = [inbox EXCEPT ![w] = <<>>] /\ "commit" \in Requests /\ "prepare" \in Requests
    BY DEF LoseClaim, Requests
  <2>2. QED
    BY <2>1, ClearFacts
<1>2. /\ sup' = sup /\ round' = round /\ answer' = answer
      /\ prepareClient' = prepareClient /\ manifest' = manifest
      /\ client' = client /\ conns' = conns /\ up' = up /\ reply' = reply
      /\ checkpoint' = checkpoint /\ changes' = changes /\ running' = running /\ faults' = faults
      /\ owner' = owner /\ ofRound' = ofRound /\ w \notin up
      /\ claim' = [claim EXCEPT ![w] = 0]
      /\ phase' \in {phase, [phase EXCEPT ![w] = "none"]}
      /\ aborted' \subseteq aborted \cup {w} /\ timer' \subseteq timer
  BY DEF LoseClaim, Cancel, supVars, workVars
<1>3. TypeOK'
  <2>1. Types
    BY SplitTypes DEF IInv
  <2>2. /\ phase' \in [Workers -> TxnPhases]
        /\ claim' \in [Workers -> 0..MaxConns] /\ owner' \in [Workers -> 0..MaxConns]
    BY <1>2, <2>1, SMTT(30) DEF Types, TxnPhases
  <2>3. /\ reply' \in [Workers -> {"none", "ok", "error"}]
        /\ answer' \in [Workers -> {"none", "ok", "fail"}]
        /\ ofRound' \in [Workers -> 0..MaxRounds]
    BY <1>2, <2>1, SMTT(30) DEF Types
  <2>4. /\ client' \in [Workers -> 0..MaxConns] /\ conns' \in [Workers -> 1..MaxConns]
        /\ aborted' \subseteq Workers /\ timer' \subseteq Workers /\ up' \subseteq Workers
    BY <1>2, <2>1, SMTT(30) DEF Types
  <2>5. Types'
    BY <1>2, <2>1, <2>2, <2>3, <2>4, SMTT(30) DEF Types
  <2>6. QED
    BY <1>1, <2>5, SplitTypes
<1>4. LinkInv'
  BY <1>1, <1>2, SMTT(30) DEF IInv, TypeOK, LinkInv
<1>5. HoldInv'
  BY <1>2, SMTT(30) DEF IInv, TypeOK, HoldInv
<1>6. RoundInv'
  BY <1>1, <1>2, SMTT(30) DEF IInv, TypeOK, RoundInv
<1>7. PrepareInv'
  <2>1. \A z \in Workers : z # w => phase'[z] = phase[z]
    BY <1>2 DEF IInv, TypeOK
  <2>2. QED
    BY <1>1, <1>2, <2>1 DEF IInv, PrepareInv, Answered, Usable
<1>8. CommitInv'
  <2>1. \A z \in Workers :
          phase'[z] \notin {"preparing", "drained", "fencing"} \/ phase'[z] = phase[z]
    BY <1>2 DEF IInv, TypeOK
  <2>2. QED
    BY <1>1, <1>2, <2>1 DEF IInv, CommitInv, Persisted
<1>9. CommittedIsCaptured' /\ RollbackClosesNothing'
  <2>1. \A z \in Workers : phase'[z] \in {"publishing", "closed"} => phase'[z] = phase[z]
    BY <1>2 DEF IInv, TypeOK
  <2>2. QED
    BY <1>2, <2>1 DEF IInv, CommittedIsCaptured, RollbackClosesNothing
<1>10. QED
  BY <1>3, <1>4, <1>5, <1>6, <1>7, <1>8, <1>9 DEF IInv

\* A mutation is admitted.
LEMMA BeginChangeStep ==
  ASSUME IInv, NEW w \in Workers, BeginChange(w)
  PROVE  IInv'
<1> USE RestartAssumption DEF IInv, BeginChange, supVars, linkVars, txnVars, workVars
<1>1. TypeOK'
  BY DEF TypeOK, SupPhases, TxnPhases
<1>2. LinkInv'
  BY DEF TypeOK, LinkInv
<1>3. HoldInv'
  BY DEF TypeOK, HoldInv
<1>4. RoundInv'
  BY DEF TypeOK, RoundInv
<1>5. PrepareInv'
  BY DEF TypeOK, LinkInv, PrepareInv, Answered, Usable
<1>6. CommitInv'
  BY DEF TypeOK, HoldInv, CommitInv, Persisted
<1>7. CommittedIsCaptured' /\ RollbackClosesNothing'
  BY DEF TypeOK, CommittedIsCaptured, RollbackClosesNothing
<1>8. QED
  BY <1>1, <1>2, <1>3, <1>4, <1>5, <1>6, <1>7

\* A mutation is over.
LEMMA EndChangeStep ==
  ASSUME IInv, NEW w \in Workers, EndChange(w)
  PROVE  IInv'
<1> USE RestartAssumption DEF IInv, EndChange, supVars, linkVars, txnVars, workVars
<1>1. TypeOK'
  <2>1. changes[w] + 1 \in 0..MaxChanges
    BY DEF TypeOK, HoldInv
  <2>2. changes' \in [Workers -> 0..MaxChanges] /\ running' \subseteq Workers
    BY <2>1 DEF TypeOK
  <2>3. QED
    BY <2>2 DEF TypeOK
<1>2. LinkInv'
  BY DEF TypeOK, LinkInv
<1>3. HoldInv'
  BY DEF TypeOK, HoldInv
<1>4. RoundInv'
  BY DEF TypeOK, RoundInv
<1>5. PrepareInv'
  BY DEF TypeOK, LinkInv, PrepareInv, Answered, Usable
<1>6. CommitInv'
  BY DEF TypeOK, HoldInv, CommitInv, Persisted
<1>7. CommittedIsCaptured' /\ RollbackClosesNothing'
  BY DEF TypeOK, HoldInv, CommittedIsCaptured, RollbackClosesNothing
<1>8. QED
  BY <1>1, <1>2, <1>3, <1>4, <1>5, <1>6, <1>7

\* A connection breaks.
LEMMA BreakStep ==
  ASSUME IInv, NEW w \in Workers, Break(w)
  PROVE  IInv'
<1> USE RestartAssumption DEF IInv, Break, supVars, linkVars, txnVars, workVars
<1>1. TypeOK'
  BY SMTT(30) DEF TypeOK
<1>2. LinkInv'
  BY DEF TypeOK, LinkInv
<1>3. HoldInv'
  BY DEF TypeOK, HoldInv
<1>4. RoundInv'
  BY DEF TypeOK, RoundInv
<1>5. PrepareInv'
  BY DEF TypeOK, LinkInv, PrepareInv, Answered, Usable
<1>6. CommitInv'
  BY DEF TypeOK, HoldInv, CommitInv, Persisted
<1>7. CommittedIsCaptured' /\ RollbackClosesNothing'
  BY DEF TypeOK, CommittedIsCaptured, RollbackClosesNothing
<1>8. QED
  BY <1>1, <1>2, <1>3, <1>4, <1>5, <1>6, <1>7

\* A connection to a worker that publishes is given up.
LEMMA RefusedStep ==
  ASSUME IInv, NEW w \in Workers, Refused(w)
  PROVE  IInv'
<1> USE RestartAssumption DEF IInv, Refused, supVars, linkVars, txnVars, workVars
<1>1. TypeOK'
  BY SMTT(30) DEF TypeOK
<1>2. LinkInv'
  BY DEF TypeOK, LinkInv
<1>3. HoldInv'
  BY DEF TypeOK, HoldInv
<1>4. RoundInv'
  BY DEF TypeOK, RoundInv
<1>5. PrepareInv'
  BY DEF TypeOK, LinkInv, PrepareInv, Answered, Usable
<1>6. CommitInv'
  BY DEF TypeOK, HoldInv, CommitInv, Persisted
<1>7. CommittedIsCaptured' /\ RollbackClosesNothing'
  BY DEF TypeOK, CommittedIsCaptured, RollbackClosesNothing
<1>8. QED
  BY <1>1, <1>2, <1>3, <1>4, <1>5, <1>6, <1>7

\* A worker dies.
LEMMA CrashStep ==
  ASSUME IInv, NEW w \in Workers, Crash(w)
  PROVE  IInv'
<1> USE RestartAssumption
<1>1. /\ inbox' \in [Workers -> Seq(Messages)]
      /\ \A z \in Workers : z # w => inbox'[z] = inbox[z]
      /\ inbox'[w] = <<>>
      /\ \A z \in Workers : Late(inbox'[z], round)
      /\ sup = "preparing" => \A z \in Workers : OnlyLast(inbox'[z], round)
      /\ \A z \in Workers : /\ Has(inbox'[z], "commit") => Has(inbox[z], "commit")
                            /\ Has(inbox'[z], "prepare") => Has(inbox[z], "prepare")
  <2>1. inbox' = [inbox EXCEPT ![w] = <<>>] /\ "commit" \in Requests /\ "prepare" \in Requests
    BY DEF Crash, Requests
  <2>2. QED
    BY <2>1, ClearFacts
<1>2. /\ sup' = sup /\ round' = round
      /\ prepareClient' = prepareClient /\ manifest' = manifest
      /\ conns' = conns /\ reply' = reply
      /\ up' = up \ {w} /\ timer' = timer \ {w} /\ running' = running \ {w}
      /\ owner' = owner /\ ofRound' = ofRound /\ aborted' = aborted
      /\ checkpoint' = checkpoint /\ changes' = changes
      /\ phase' = [phase EXCEPT ![w] = "stopped"]
      /\ claim' = [claim EXCEPT ![w] = 0]
      /\ answer' = answer /\ client' = client
      /\ faults < MaxFaults /\ faults' = faults + 1
  BY DEF Crash, supVars
<1>3. TypeOK'
  <2>1. Types
    BY SplitTypes DEF IInv
  <2>2. /\ phase' \in [Workers -> TxnPhases]
        /\ claim' \in [Workers -> 0..MaxConns] /\ owner' \in [Workers -> 0..MaxConns]
    BY <1>2, <2>1, SMTT(30) DEF Types, TxnPhases
  <2>3. /\ reply' \in [Workers -> {"none", "ok", "error"}]
        /\ answer' \in [Workers -> {"none", "ok", "fail"}]
        /\ ofRound' \in [Workers -> 0..MaxRounds]
    BY <1>2, <2>1, SMTT(30) DEF Types
  <2>4. /\ client' \in [Workers -> 0..MaxConns] /\ conns' \in [Workers -> 1..MaxConns]
        /\ aborted' \subseteq Workers /\ timer' \subseteq Workers /\ up' \subseteq Workers
    BY <1>2, <2>1, SMTT(30) DEF Types
  <2>5. Types'
    BY <1>2, <2>1, <2>2, <2>3, <2>4, SMTT(30) DEF Types
  <2>6. QED
    BY <1>1, <2>5, SplitTypes
<1>4. LinkInv'
  BY <1>1, <1>2, SMTT(30) DEF IInv, TypeOK, LinkInv
<1>5. HoldInv'
  BY <1>2, SMTT(30) DEF IInv, TypeOK, HoldInv
<1>6. RoundInv'
  BY <1>1, <1>2, SMTT(30) DEF IInv, TypeOK, RoundInv
<1>7. PrepareInv'
  <2>1. \A z \in Workers : z \in up' => z # w /\ z \in up /\ phase'[z] = phase[z]
    BY <1>2 DEF IInv, TypeOK
  <2>2. QED
    BY <1>1, <1>2, <2>1 DEF IInv, PrepareInv, Answered, Usable
<1>8. CommitInv'
  <2>1. \A z \in Workers :
          phase'[z] \notin {"preparing", "drained", "fencing"} \/ phase'[z] = phase[z]
    BY <1>2 DEF IInv, TypeOK
  <2>2. QED
    BY <1>1, <1>2, <2>1 DEF IInv, CommitInv, Persisted
<1>9. CommittedIsCaptured' /\ RollbackClosesNothing'
  <2>1. \A z \in Workers : phase'[z] \in {"publishing", "closed"} => phase'[z] = phase[z]
    BY <1>2 DEF IInv, TypeOK
  <2>2. QED
    BY <1>2, <2>1 DEF IInv, CommittedIsCaptured, RollbackClosesNothing
<1>10. QED
  BY <1>3, <1>4, <1>5, <1>6, <1>7, <1>8, <1>9 DEF IInv

\* A worker is connected again.
LEMMA ReconnectStep ==
  ASSUME IInv, NEW w \in Workers, Reconnect(w)
  PROVE  IInv'
<1> USE RestartAssumption
<1>1. /\ inbox' \in [Workers -> Seq(Messages)]
      /\ \A z \in Workers : z # w => inbox'[z] = inbox[z]
      /\ inbox'[w] = <<>>
      /\ \A z \in Workers : Late(inbox'[z], round)
      /\ sup = "preparing" => \A z \in Workers : OnlyLast(inbox'[z], round)
      /\ \A z \in Workers : /\ Has(inbox'[z], "commit") => Has(inbox[z], "commit")
                            /\ Has(inbox'[z], "prepare") => Has(inbox[z], "prepare")
  <2>1. inbox' = [inbox EXCEPT ![w] = <<>>] /\ "commit" \in Requests /\ "prepare" \in Requests
    BY DEF Reconnect, Requests
  <2>2. QED
    BY <2>1, ClearFacts
<1>2. /\ sup' = sup /\ round' = round /\ answer' = answer
      /\ prepareClient' = prepareClient /\ manifest' = manifest
      /\ reply' = reply
      /\ checkpoint' = checkpoint /\ changes' = changes /\ running' = running /\ faults' = faults
      /\ owner' = owner /\ ofRound' = ofRound
      /\ client[w] = 0 /\ conns[w] < MaxConns
      /\ conns' = [conns EXCEPT ![w] = conns[w] + 1]
      /\ client' = [client EXCEPT ![w] = conns[w] + 1]
      /\ claim' = [claim EXCEPT ![w] = conns[w] + 1]
      /\ up' = up \cup {w}
      /\ phase' \in {phase, [phase EXCEPT ![w] = "none"]}
      /\ aborted' \subseteq aborted \cup {w} /\ timer' \subseteq timer
  BY DEF Reconnect, Cancel, supVars, workVars
<1>3. TypeOK'
  <2>1. Types
    BY SplitTypes DEF IInv
  <2>2. /\ phase' \in [Workers -> TxnPhases]
        /\ claim' \in [Workers -> 0..MaxConns] /\ owner' \in [Workers -> 0..MaxConns]
    BY <1>2, <2>1, SMTT(30) DEF Types, TxnPhases
  <2>3. /\ reply' \in [Workers -> {"none", "ok", "error"}]
        /\ answer' \in [Workers -> {"none", "ok", "fail"}]
        /\ ofRound' \in [Workers -> 0..MaxRounds]
    BY <1>2, <2>1, SMTT(30) DEF Types
  <2>4. /\ client' \in [Workers -> 0..MaxConns] /\ conns' \in [Workers -> 1..MaxConns]
        /\ aborted' \subseteq Workers /\ timer' \subseteq Workers /\ up' \subseteq Workers
    BY <1>2, <2>1, SMTT(30) DEF Types
  <2>5. Types'
    BY <1>2, <2>1, <2>2, <2>3, <2>4, SMTT(30) DEF Types
  <2>6. QED
    BY <1>1, <2>5, SplitTypes
<1>4. LinkInv'
  BY <1>1, <1>2, SMTT(30) DEF IInv, TypeOK, LinkInv
<1>5. HoldInv'
  BY <1>2, SMTT(30) DEF IInv, TypeOK, HoldInv
<1>6. RoundInv'
  BY <1>1, <1>2, SMTT(30) DEF IInv, TypeOK, RoundInv
<1>7. PrepareInv'
  <2>1. \A z \in Workers : z # w => /\ phase'[z] = phase[z] /\ client'[z] = client[z]
                                   /\ (z \in up' => z \in up)
    BY <1>2 DEF IInv, TypeOK
  <2>2. reply'[w] # "ok" /\ ~Usable(w)'
    BY <1>2 DEF IInv, TypeOK, LinkInv, Usable
  <2>3. ASSUME NEW z \in Workers, z # w, sup = "preparing"
        PROVE  /\ reply'[z] = "ok" => Answered(z)'
               /\ Usable(z)' => Answered(z)'
    BY <1>2, <2>1, <2>3 DEF IInv, PrepareInv, Answered, Usable
  <2>4. sup = "preparing" => \A z \in Workers : ofRound'[z] = round' => inbox'[z] = <<>>
    BY <1>1, <1>2 DEF IInv, PrepareInv
  <2>5. QED
    BY <1>1, <1>2, <2>2, <2>3, <2>4 DEF PrepareInv
<1>8. CommitInv'
  <2>1. \A z \in Workers :
          phase'[z] \notin {"preparing", "drained", "fencing"} \/ phase'[z] = phase[z]
    BY <1>2 DEF IInv, TypeOK
  <2>2. QED
    BY <1>1, <1>2, <2>1 DEF IInv, CommitInv, Persisted
<1>9. CommittedIsCaptured' /\ RollbackClosesNothing'
  <2>1. \A z \in Workers : phase'[z] \in {"publishing", "closed"} => phase'[z] = phase[z]
    BY <1>2 DEF IInv, TypeOK
  <2>2. QED
    BY <1>2, <2>1 DEF IInv, CommittedIsCaptured, RollbackClosesNothing
<1>10. QED
  BY <1>3, <1>4, <1>5, <1>6, <1>7, <1>8, <1>9 DEF IInv

---------------------------------------------------------------------------
LEMMA InitHolds == Init => IInv
<1> SUFFICES ASSUME Init PROVE IInv
  OBVIOUS
<1>1. TypeOK
  BY RestartAssumption, EmptyFacts DEF Init, TypeOK, SupPhases, TxnPhases
<1>2. LinkInv /\ HoldInv /\ RoundInv /\ PrepareInv /\ CommitInv
  BY RestartAssumption, EmptyFacts DEF Init, LinkInv, HoldInv, RoundInv, PrepareInv, CommitInv
<1>3. CommittedIsCaptured /\ RollbackClosesNothing
  BY DEF Init, CommittedIsCaptured, RollbackClosesNothing
<1>4. QED
  BY <1>1, <1>2, <1>3 DEF IInv

LEMMA NextKeeps == IInv /\ [Next]_vars => IInv'
<1> SUFFICES ASSUME IInv, [Next]_vars PROVE IInv'
  OBVIOUS
<1>1. CASE Supervisor
  BY <1>1, BeginStep, RollBackStep, PersistStep, RolledBackStep, CommittedStep, StoppedStep,
     SupervisorDiesStep, HearStep, TimesOutStep, ClientClosesStep, StopWorkerStep,
     StopTimesOutStep, ReconnectStep, RefusedStep DEF Supervisor
<1>2. ASSUME NEW w \in Workers, Worker(w)
      PROVE  IInv'
  BY <1>2, HandlePrepareStep, DrainedStep, FenceStep, CheckpointStep, CheckpointFailsStep,
     DeadlineStep, HandleCancelStep, HandleCommitStep, PublishStep, PublishFailsStep,
     LoseClaimStep, BeginChangeStep, EndChangeStep, BreakStep, CrashStep DEF Worker
<1>3. CASE UNCHANGED vars
  BY <1>3 DEF vars, supVars, linkVars, txnVars, workVars, IInv, TypeOK, LinkInv, HoldInv,
     RoundInv, PrepareInv, CommitInv, Answered, Usable, Persisted, CommittedIsCaptured,
     RollbackClosesNothing
<1>4. QED
  BY <1>1, <1>2, <1>3 DEF Next

\* The inductive invariant: who has answered a preparation has taken every request and
\* holds its checkpoint, and a commit on its way belongs to a persisted checkpoint.
THEOREM RestartInvariant == Spec => []IInv
<1>1. QED
  BY InitHolds, NextKeeps, PTL DEF Spec

\* Every variable keeps its type, the bounds on connections and rounds included.
THEOREM RestartTypeOK == Spec => []TypeOK
<1>1. IInv => TypeOK
  BY DEF IInv
<1>2. QED
  BY RestartInvariant, <1>1, PTL

\* A prepared worker's checkpoint has everything the worker accepted.
THEOREM CheckpointsAreComplete == Spec => []CheckpointHolds
<1>1. IInv => CheckpointHolds
  BY DEF IInv, HoldInv, CheckpointHolds
<1>2. QED
  BY RestartInvariant, <1>1, PTL

\* Sessions are closed only when the persisted manifest has everything they accepted.
THEOREM CommitsAreCaptured == Spec => []CommittedIsCaptured
<1>1. IInv => CommittedIsCaptured
  BY DEF IInv
<1>2. QED
  BY RestartInvariant, <1>1, PTL

\* A preparation that is rolled back has closed no sessions.
THEOREM RollbackIsHarmless == Spec => []RollbackClosesNothing
<1>1. IInv => RollbackClosesNothing
  BY DEF IInv
<1>2. QED
  BY RestartInvariant, <1>1, PTL

\* What is persisted is what each worker that is still connected has accepted.
THEOREM ManifestIsFresh == Spec => FreshUnlessLost
<1>1. IInv /\ [Next]_vars => [FreshStep]_vars
  <2> SUFFICES ASSUME IInv, Next, sup = "preparing", sup' = "committing", NEW w \in Workers, w \in up
               PROVE  manifest'[w] = changes[w]
    BY DEF FreshStep
  <2>1. Persist
    BY DEF Next, Supervisor, Worker, Begin, RollBack, CancelAcknowledged, RolledBack, Committed, Stopped,
       SupervisorDies, Hear, TimesOut, ClientCloses, StopWorker, StopTimesOut, Reconnect,
       Refused,
       HandlePrepare, Drained, Fence, Checkpoint, CheckpointFails, Deadline, HandleCancel,
       HandleCommit, Publish, PublishFails, LoseClaim, BeginChange, EndChange, Break, Crash,
       supVars
  <2>2. Usable(w)
    BY <2>1 DEF Persist, Stale
  <2>3. phase[w] = "prepared"
    BY <2>2 DEF IInv, PrepareInv, Answered
  <2>4. QED
    BY <2>1, <2>3 DEF IInv, HoldInv, Persist
<1>2. QED
  BY RestartInvariant, <1>1, PTL DEF Spec, FreshUnlessLost
=============================================================================
