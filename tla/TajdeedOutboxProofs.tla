------------------------- MODULE TajdeedOutboxProofs -------------------------
(***************************************************************************)
(* Proofs about TajdeedOutbox, for every value of its constants.           *)
(***************************************************************************)
EXTENDS TajdeedOutbox, TLAPS

-----------------------------------------------------------------------------
(* Type correctness.                                                       *)

LEMMA InsertType ==
  ASSUME TypeOK, NEW j \in Jobs \union {NoJob}, NEW b \in BOOLEAN,
         NEW a \in Actors, Insert(j, b, a)
  PROVE  row' \in [Tx -> Row] /\ next' \in 1 .. MaxTx + 1
<1>1. CASE next > MaxTx
  BY <1>1 DEF Insert, TypeOK
<1>2. CASE ~ (next > MaxTx)
  <2>1. next \in Tx /\ next + 1 \in 1 .. MaxTx + 1
    BY <1>2, BoundsAssumption DEF TypeOK, Tx
  <2>2. [job |-> j, day |-> today, by |-> a, delivery |-> "Pending",
         event |-> NoStatus, attempts |-> 0, due |-> b,
         recoverable |-> FALSE] \in Row
    BY DEF Row, TypeOK, Delivery, Live, EventStatus, AwaitedStatus
  <2> QED
    BY <1>2, <2>1, <2>2 DEF Insert, TypeOK
<1> QED
  BY <1>1, <1>2

LEMMA ClaimedRow ==
  ASSUME TypeOK, NEW t \in Tx, Claimed(t)
  PROVE  /\ row' \in [Tx -> Row]
         /\ row'[t].attempts = row[t].attempts + 1
         /\ row'[t].delivery = row[t].delivery
         /\ row'[t].event = row[t].event
         /\ row'[t].job = row[t].job
         /\ row'[t].by = row[t].by
         /\ \A u \in Tx \ {t} : row'[u] = row[u]
<1> DEFINE n == row[t].attempts + 1
<1>1. row \in [Tx -> Row] /\ row[t] \in Row
  BY DEF TypeOK
<1>2. n \in Nat
  BY <1>1 DEF Row
<1>3. row' = [row EXCEPT ![t].attempts = n, ![t].due = FALSE]
  BY DEF Claimed
<1>4. n = row[t].attempts + 1
  OBVIOUS
<1> HIDE DEF n
<1> QED
  BY <1>1, <1>2, <1>3, <1>4 DEF Row

LEMMA InitType == Init => TypeOK
<1> SUFFICES ASSUME Init PROVE TypeOK
  OBVIOUS
<1>1. NoRow \in Row
  BY BoundsAssumption
  DEF NoRow, Row, Delivery, EventStatus, AwaitedStatus
<1>2. Resting \in DrainState
  BY DEF Resting, DrainState
<1>3. Asleep \in SweepState
  BY DEF Asleep, SweepState, EventStatus, AwaitedStatus
<1>4. Free \in RequestState
  BY DEF Free, RequestState
<1> QED
  BY <1>1, <1>2, <1>3, <1>4, BoundsAssumption DEF Init, TypeOK, Verdicts

LEMMA SkippedType ==
  ASSUME TypeOK, NEW d \in Drains, NEW t \in Tx,
         drain' = [drain EXCEPT ![d].todo = @ \ {t}, ![d].seen[t] = 0]
  PROVE  drain' \in [Drains -> DrainState]
<1>1. drain \in [Drains -> DrainState]
  BY DEF TypeOK
<1> QED
  BY <1>1 DEF DrainState

LEMMA FinishedType ==
  ASSUME TypeOK, NEW d \in Drains, drain[d].tx # NoTx, Finished(d)
  PROVE  drain[d].tx \in Tx /\ drain' \in [Drains -> DrainState]
<1>1. drain \in [Drains -> DrainState]
  BY DEF TypeOK
<1>2. drain[d].tx \in Tx
  BY <1>1 DEF DrainState
<1> QED
  BY <1>1, <1>2 DEF DrainState, Finished

LEMMA DrainType ==
  ASSUME TypeOK, NEW d \in Drains, Drain(d)
  PROVE  TypeOK'
<1> DEFINE t == drain[d].tx
<1>1. CASE ReadDue(d)
  BY <1>1 DEF ReadDue, TypeOK, DrainState, Row, findDueForSend
<1>2. CASE ClaimForSend(d)
  <2>1. PICK u \in drain[d].todo :
          IF row[u].delivery = "Pending"
          THEN /\ Claimed(u)
               /\ drain' = [drain EXCEPT ![d].todo = @ \ {u}, ![d].tx = u]
               /\ wire' = wire \union {u}
          ELSE /\ drain' = [drain EXCEPT ![d].todo = @ \ {u},
                                         ![d].seen[u] = 0]
               /\ UNCHANGED <<row, wire>>
    BY <1>2 DEF ClaimForSend
  <2>2. u \in Tx /\ drain \in [Drains -> DrainState]
    BY DEF TypeOK, DrainState
  <2>3. CASE row[u].delivery = "Pending"
    <3>1. row' \in [Tx -> Row]
      BY <2>1, <2>2, <2>3, ClaimedRow
    <3>2. drain' \in [Drains -> DrainState]
      BY <2>1, <2>2, <2>3 DEF DrainState
    <3> QED
      BY <1>2, <2>1, <2>2, <2>3, <3>1, <3>2 DEF ClaimForSend, TypeOK
  <2>4. CASE row[u].delivery # "Pending"
    <3>1. drain' \in [Drains -> DrainState]
      BY <2>1, <2>2, <2>4, SkippedType
    <3> QED
      BY <1>2, <2>1, <2>4, <3>1 DEF ClaimForSend, TypeOK
  <2> QED
    BY <2>3, <2>4
<1>3. CASE RecordAccepted(d)
  <2>1. t \in Tx /\ drain' \in [Drains -> DrainState]
    BY <1>3, FinishedType DEF RecordAccepted
  <2>2. row' \in [Tx -> Row]
    BY <1>3, <2>1 DEF RecordAccepted, TypeOK, Row, Delivery, Live
  <2> QED
    BY <1>3, <2>1, <2>2 DEF RecordAccepted, TypeOK
<1>4. CASE RecordRefused(d)
  <2>1. t \in Tx /\ drain' \in [Drains -> DrainState]
    BY <1>4, FinishedType DEF RecordRefused
  <2>2. row' \in [Tx -> Row]
    BY <1>4, <2>1 DEF RecordRefused, TypeOK, Row, Delivery, Terminal
  <2> QED
    BY <1>4, <2>1, <2>2 DEF RecordRefused, TypeOK
<1>5. CASE RecordRetryable(d)
  <2>1. t \in Tx /\ drain' \in [Drains -> DrainState]
    BY <1>5, FinishedType DEF RecordRetryable
  <2>2. row' \in [Tx -> Row]
    BY <1>5, <2>1 DEF RecordRetryable, TypeOK, Row, Delivery, Terminal
  <2> QED
    BY <1>5, <2>1, <2>2 DEF RecordRetryable, TypeOK
<1> QED
  BY <1>1, <1>2, <1>3, <1>4, <1>5 DEF Drain

LEMMA WithoutType ==
  ASSUME TypeOK, NEW s \in Sweeps, NEW t \in Tx
  PROVE  /\ Without(s, t) \in SweepState
         /\ [Without(s, t) EXCEPT !.pc = "check", !.tx = t] \in SweepState
<1>1. sweep[s] \in SweepState
  BY DEF TypeOK
<1> QED
  BY <1>1 DEF Without, SweepState, EventStatus, AwaitedStatus

LEMMA ResumeType ==
  ASSUME TypeOK, NEW s \in Sweeps
  PROVE  /\ Resume(s) \in SweepState
         /\ [sweep[s] EXCEPT !.pc = "insert"] \in SweepState
<1>1. sweep[s] \in SweepState
  BY DEF TypeOK
<1> QED
  BY <1>1 DEF Resume, SweepState

\* A successor has the job of a row of the table: the tx of a sweep that is
\* about to insert is a row.
RetryHasTx == \A s \in Sweeps :
  sweep[s].pc \in {"check", "insert"} => sweep[s].tx \in Tx

LEMMA ApplyType ==
  ASSUME TypeOK, NEW s \in Sweeps, Apply(s)
  PROVE  TypeOK'
<1>1. PICK t \in Tx : \/ ApplyInFlight(s, t)
                      \/ ApplyProcessed(s, t)
                      \/ ApplyNotFound(s, t)
                      \/ \E probed \in BOOLEAN : ApplyFailed(s, t, probed)
  BY DEF Apply
<1> row \in [Tx -> Row] /\ sweep \in [Sweeps -> SweepState]
  BY DEF TypeOK
<1>2. CASE ApplyInFlight(s, t)
  <2>1. row' \in [Tx -> Row]
    BY <1>2 DEF ApplyInFlight, Row, EventStatus, AwaitedStatus
  <2>2. sweep' \in [Sweeps -> SweepState]
    BY <1>2, WithoutType DEF ApplyInFlight
  <2> QED
    BY <1>2, <2>1, <2>2 DEF ApplyInFlight, TypeOK
<1>3. CASE ApplyProcessed(s, t)
  <2>1. row' \in [Tx -> Row]
    <3>1. "Processed" \in Delivery /\ "PROCESSED" \in EventStatus
      BY DEF Delivery, Terminal, EventStatus
    <3> QED
      BY <1>3, <3>1 DEF ApplyProcessed, Row
  <2>2. sweep' \in [Sweeps -> SweepState]
    BY <1>3, WithoutType DEF ApplyProcessed
  <2> QED
    BY <1>3, <2>1, <2>2 DEF ApplyProcessed, TypeOK
<1>4. CASE ApplyNotFound(s, t)
  <2>1. row' \in [Tx -> Row]
    BY <1>4 DEF ApplyNotFound, Row, Delivery, Live, EventStatus, AwaitedStatus
  <2>2. sweep' \in [Sweeps -> SweepState]
    BY <1>4, WithoutType DEF ApplyNotFound
  <2> QED
    BY <1>4, <2>1, <2>2 DEF ApplyNotFound, TypeOK
<1>5. ASSUME NEW probed \in BOOLEAN, ApplyFailed(s, t, probed)
      PROVE  TypeOK'
  <2>1. row' \in [Tx -> Row]
    <3>1. PICK r \in BOOLEAN :
            row' = [row EXCEPT ![t] = [@ EXCEPT
              !.delivery = "Failed", !.event = "FAILED", !.recoverable = r]]
      BY <1>5 DEF ApplyFailed
    <3> QED
      BY <3>1 DEF Row, Delivery, Terminal, EventStatus
  <2>2. sweep' \in [Sweeps -> SweepState]
    BY <1>5, WithoutType DEF ApplyFailed, TypeOK
  <2> QED
    BY <1>5, <2>1, <2>2 DEF ApplyFailed, TypeOK
<1> QED
  BY <1>1, <1>2, <1>3, <1>4, <1>5

LEMMA SweepType ==
  ASSUME TypeOK, RetryHasTx, NEW s \in Sweeps, Sweep(s)
  PROVE  TypeOK'
<1> sweep \in [Sweeps -> SweepState]
  BY DEF TypeOK
<1>1. CASE ReadAwaiting(s)
  <2>1. findAwaitingConfirmation \in SUBSET Tx
    BY DEF findAwaitingConfirmation
  <2>2. sweep' \in [Sweeps -> SweepState]
    BY <1>1, <2>1 DEF ReadAwaiting, SweepState
  <2> QED
    BY <1>1, <2>2 DEF ReadAwaiting, TypeOK
<1>2. CASE Reconcile(s)
  <2>1. \A t \in Tx : StatusOf(t) \in EventStatus
    BY DEF StatusOf, EventStatus, AwaitedStatus
  <2>2. answers(sweep[s].batch) \in [Tx -> EventStatus]
    BY <2>1 DEF answers, EventStatus, AwaitedStatus
  <2>3. sweep' \in [Sweeps -> SweepState]
    BY <1>2, <2>2 DEF Reconcile, SweepState
  <2> QED
    BY <1>2, <2>3 DEF Reconcile, TypeOK
<1>3. CASE ReconcileFailed(s)
  BY <1>3 DEF ReconcileFailed, TypeOK, Asleep, SweepState, EventStatus,
              AwaitedStatus
<1>4. CASE Apply(s)
  BY <1>4, ApplyType
<1>5. CASE CheckLive(s)
  BY <1>5, ResumeType DEF CheckLive, TypeOK
<1>6. CASE SaveSuccessor(s)
  <2>1. row[sweep[s].tx].job \in Jobs \union {NoJob}
    BY <1>6 DEF SaveSuccessor, RetryHasTx, TypeOK, Row
  <2>2. row' \in [Tx -> Row] /\ next' \in 1 .. MaxTx + 1
    BY <1>6, <2>1, InsertType DEF SaveSuccessor, Actors
  <2> QED
    BY <1>6, <2>2, ResumeType DEF SaveSuccessor, TypeOK
<1> QED
  BY <1>1, <1>2, <1>3, <1>4, <1>5, <1>6 DEF Sweep

LEMMA RequestType ==
  ASSUME TypeOK, NEW q \in Requests, Request(q)
  PROVE  TypeOK'
<1>1. ASSUME NEW j \in Jobs, EnqueueResult(q, j) \/ PushNow(q, j)
      PROVE  TypeOK'
  BY <1>1 DEF EnqueueResult, PushNow, TypeOK, RequestState
<1>2. CASE SaveRow(q)
  <2>1. request[q].job \in Jobs \union {NoJob}
    BY DEF TypeOK, RequestState
  <2>2. row' \in [Tx -> Row] /\ next' \in 1 .. MaxTx + 1
    BY <1>2, <2>1, InsertType DEF SaveRow, Actors
  <2> QED
    BY <1>2, <2>2 DEF SaveRow, TypeOK, Free, RequestState
<1>3. CASE EnqueueLane(q)
  <2>1. row' \in [Tx -> Row] /\ next' \in 1 .. MaxTx + 1
    BY <1>3, InsertType DEF EnqueueLane, Actors
  <2> QED
    BY <1>3, <2>1 DEF EnqueueLane, TypeOK
<1>4. ASSUME NEW t \in Tx, Repush(q, t)
      PROVE  TypeOK'
  <2>1. row[t].job \in Jobs \union {NoJob}
    BY DEF TypeOK, Row
  <2>2. row' \in [Tx -> Row] /\ next' \in 1 .. MaxTx + 1
    BY <1>4, <2>1, InsertType DEF Repush, Actors
  <2> QED
    BY <1>4, <2>2 DEF Repush, TypeOK
<1> QED
  BY <1>1, <1>2, <1>3, <1>4 DEF Request

LEMMA ProviderType ==
  ASSUME TypeOK, Provider
  PROVE  TypeOK'
<1>1. ASSUME NEW t \in Tx, Arrive(t) \/ Forget(t)
      PROVE  TypeOK'
  BY <1>1 DEF Arrive, Forget, TypeOK, Verdicts
<1>2. ASSUME NEW t \in Tx, Decide(t)
      PROVE  TypeOK'
  <2>1. row[t].job \in Jobs \union {NoJob}
    BY DEF TypeOK, Row
  <2> QED
    BY <1>2, <2>1 DEF Decide, TypeOK, Verdicts
<1>3. ASSUME NEW j \in Jobs, CheckIn(j)
      PROVE  TypeOK'
  BY <1>3 DEF CheckIn, TypeOK
<1> QED
  BY <1>1, <1>2, <1>3 DEF Provider

LEMMA ElseType ==
  ASSUME TypeOK, (\E t \in Tx : BackoffElapses(t)) \/ NewDay \/ Interrupt
  PROVE  TypeOK'
<1>1. ASSUME NEW t \in Tx, BackoffElapses(t)
      PROVE  TypeOK'
  BY <1>1 DEF BackoffElapses, TypeOK, Row
<1>2. CASE NewDay
  BY <1>2, BoundsAssumption DEF NewDay, TypeOK
<1>3. CASE Interrupt
  <2>1. /\ Resting \in DrainState
        /\ Asleep \in SweepState
        /\ Free \in RequestState
    BY DEF Resting, DrainState, Asleep, SweepState, EventStatus,
           AwaitedStatus, Free, RequestState
  <2> QED
    BY <1>3, <2>1 DEF Interrupt, TypeOK
<1> QED
  BY <1>1, <1>2, <1>3

LEMMA RetryHasTxStep ==
  ASSUME TypeOK, RetryHasTx, [Next]_vars
  PROVE  RetryHasTx'
<1>1. ASSUME NEW s \in Sweeps, Sweep(s)
      PROVE  RetryHasTx'
  <2> sweep \in [Sweeps -> SweepState]
    BY DEF TypeOK
  <2>1. SUFFICES sweep'[s].pc \in {"check", "insert"} => sweep'[s].tx \in Tx
    <3>1. \A u \in Sweeps \ {s} : sweep'[u] = sweep[u]
      BY <1>1 DEF Sweep, Apply, ReadAwaiting, Reconcile, ReconcileFailed,
                  ApplyInFlight, ApplyProcessed, ApplyNotFound, ApplyFailed,
                  CheckLive, SaveSuccessor
    <3> QED
      BY <3>1 DEF RetryHasTx
  <2>2. CASE ReadAwaiting(s) \/ Reconcile(s) \/ ReconcileFailed(s)
    <3>1. ReadAwaiting(s) => sweep'[s].pc = "asked"
      BY DEF ReadAwaiting, SweepState
    <3>2. Reconcile(s) => sweep'[s].pc = "applying"
      BY DEF Reconcile, SweepState
    <3>3. ReconcileFailed(s) => sweep'[s].pc = "idle"
      BY DEF ReconcileFailed, Asleep
    <3> QED
      BY <2>2, <3>1, <3>2, <3>3
  <2>3. CASE Apply(s)
    <3>1. \A t \in Tx : Without(s, t).pc \in {"idle", "applying"}
      BY DEF Without
    <3>2. \A t \in Tx : [Without(s, t) EXCEPT !.pc = "check", !.tx = t].tx = t
      BY DEF Without
    <3> QED
      BY <2>3, <3>1, <3>2
      DEF Apply, ApplyInFlight, ApplyProcessed, ApplyNotFound, ApplyFailed
  <2>4. CASE CheckLive(s) \/ SaveSuccessor(s)
    <3>1. Resume(s).pc \in {"idle", "applying"}
      BY DEF Resume, SweepState
    <3>2. SaveSuccessor(s) => sweep'[s].pc \in {"idle", "applying"}
      BY <3>1 DEF SaveSuccessor
    <3>3. ASSUME CheckLive(s)
          PROVE  \/ sweep'[s].pc \in {"idle", "applying"}
                 \/ sweep'[s].tx = sweep[s].tx /\ sweep[s].tx \in Tx
      <4>1. sweep[s].tx \in Tx
        BY <3>3 DEF CheckLive, RetryHasTx
      <4>2. [sweep[s] EXCEPT !.pc = "insert"].tx = sweep[s].tx
        BY DEF SweepState
      <4> QED
        BY <3>1, <3>3, <4>1, <4>2 DEF CheckLive
    <3> QED
      BY <2>4, <3>2, <3>3
  <2> QED
    BY <1>1, <2>2, <2>3, <2>4 DEF Sweep
<1>2. CASE Interrupt
  <2>1. UNCHANGED sweep \/ \E s \in Sweeps : sweep' = [sweep EXCEPT ![s] = Asleep]
    BY <1>2 DEF Interrupt
  <2>2. Asleep.pc = "idle"
    BY DEF Asleep
  <2> QED
    BY <2>1, <2>2 DEF RetryHasTx, TypeOK
<1>3. CASE UNCHANGED sweep
  BY <1>3 DEF RetryHasTx
<1>4. ASSUME NEW d \in Drains, Drain(d)
      PROVE  UNCHANGED sweep
  BY <1>4 DEF Drain, ReadDue, ClaimForSend, RecordAccepted, RecordRefused,
              RecordRetryable
<1>5. ASSUME NEW q \in Requests, Request(q)
      PROVE  UNCHANGED sweep
  BY <1>5 DEF Request, EnqueueResult, PushNow, SaveRow, EnqueueLane, Repush
<1>6. Provider => UNCHANGED sweep
  BY DEF Provider, Arrive, Decide, Forget, CheckIn
<1>7. (\E t \in Tx : BackoffElapses(t)) \/ NewDay => UNCHANGED sweep
  BY DEF BackoffElapses, NewDay
<1> QED
  BY <1>1, <1>2, <1>3, <1>4, <1>5, <1>6, <1>7 DEF Next, vars

LEMMA TypeStep ==
  ASSUME TypeOK, RetryHasTx, [Next]_vars
  PROVE  TypeOK'
<1>1. CASE UNCHANGED vars
  BY <1>1 DEF vars, TypeOK
<1> QED
  BY <1>1, DrainType, SweepType, RequestType, ProviderType, ElseType DEF Next

\* Every reachable state has its type, whatever the number of drains, sweeps
\* and requests that overlap: no answer, however late, writes a status that
\* the columns do not know.
THEOREM TypeCorrect == Spec => []TypeOK
<1>1. Init => TypeOK /\ RetryHasTx
  BY InitType DEF Init, RetryHasTx, Asleep
<1>2. TypeOK /\ RetryHasTx /\ [Next]_vars => (TypeOK /\ RetryHasTx)'
  BY TypeStep, RetryHasTxStep
<1> QED
  BY <1>1, <1>2, PTL DEF Spec

-----------------------------------------------------------------------------
(* Write-ahead. The strengthening adds the ids the actors hold: whatever a *)
(* drain is sending or a sweep is about to patch is a row of the table.    *)

Raised(t) == row[t].delivery # "None"

WriteAheadInv ==
  /\ \A t \in Tx : t >= next => ~ Raised(t)
  /\ \A d \in Drains : drain[d].tx # NoTx =>
       Raised(drain[d].tx) /\ row[drain[d].tx].attempts >= 1
  /\ \A s \in Sweeps : \A t \in sweep[s].batch : Raised(t)
  /\ WriteAhead

\* A step of the rows keeps what was raised, and its attempts.
RowsKept == \A t \in Tx : Raised(t) =>
  Raised(t)' /\ row'[t].attempts >= row[t].attempts

RowsBorn == \A t \in Tx : t >= next' => ~ Raised(t)'

LEMMA PatchKeeps ==
  ASSUME TypeOK, WriteAheadInv, NEW t \in Tx, Raised(t), UNCHANGED next,
         row' \in [Tx -> Row], row'[t].delivery # "None",
         row'[t].attempts >= row[t].attempts,
         \A u \in Tx \ {t} : row'[u] = row[u]
  PROVE  RowsKept /\ RowsBorn
<1>1. \A u \in Tx : row[u].attempts \in Nat /\ row'[u].attempts \in Nat
  BY DEF TypeOK, Row
<1> QED
  BY <1>1 DEF RowsKept, RowsBorn, WriteAheadInv, Raised

LEMMA InsertKeeps ==
  ASSUME TypeOK, WriteAheadInv, NEW j, NEW b, NEW a, Insert(j, b, a)
  PROVE  RowsKept /\ RowsBorn
<1>1. \A u \in Tx : row[u].attempts \in Nat
  BY DEF TypeOK, Row
<1>2. CASE next > MaxTx
  BY <1>1, <1>2 DEF Insert, RowsKept, RowsBorn, WriteAheadInv, Raised
<1>3. CASE ~ (next > MaxTx)
  <2>1. next \in Tx /\ next' = next + 1 /\ next \in Int
    BY <1>3, BoundsAssumption DEF Insert, TypeOK, Tx
  <2>2. \A u \in Tx \ {next} : row'[u] = row[u]
    BY <1>3 DEF Insert, TypeOK
  <2>3. ~ Raised(next)
    BY <2>1 DEF WriteAheadInv
  <2>4. \A u \in Tx : u \in Int
    BY DEF Tx
  <2> QED
    BY <1>1, <2>1, <2>2, <2>3, <2>4 DEF RowsKept, RowsBorn, WriteAheadInv, Raised
<1> QED
  BY <1>2, <1>3

LEMMA KeepsRaised ==
  ASSUME TypeOK, TypeOK', WriteAheadInv, RowsKept, RowsBorn,
         \A d \in Drains : drain'[d].tx \in {NoTx, drain[d].tx},
         \A s \in Sweeps : \A t \in sweep'[s].batch :
           t \in sweep[s].batch \/ Raised(t),
         \A t \in Tx : t \in wire' \/ provider'[t] # "unknown" =>
           t \in wire \/ provider[t] # "unknown"
  PROVE  WriteAheadInv'
<1>1. \A u \in Tx : row[u].attempts \in Nat /\ row'[u].attempts \in Nat
  BY DEF TypeOK, Row
<1>2. \A d \in Drains : drain[d].tx \in Tx \union {NoTx}
  BY DEF TypeOK, DrainState
<1>3. \A s \in Sweeps : sweep[s].batch \subseteq Tx /\ sweep'[s].batch \subseteq Tx
  BY DEF TypeOK, SweepState
<1>4. \A d \in Drains : drain'[d].tx # NoTx =>
        row'[drain'[d].tx].delivery # "None" /\ row'[drain'[d].tx].attempts >= 1
  BY <1>1, <1>2 DEF WriteAheadInv, RowsKept, Raised
<1>5. \A s \in Sweeps : \A t \in sweep'[s].batch : Raised(t)'
  BY <1>3 DEF WriteAheadInv, RowsKept
<1>6. WriteAhead'
  BY <1>1 DEF WriteAheadInv, WriteAhead, RowsKept, Raised
<1> QED
  BY <1>4, <1>5, <1>6 DEF WriteAheadInv, RowsBorn, Raised

LEMMA DrainWA ==
  ASSUME TypeOK, TypeOK', WriteAheadInv, NEW d \in Drains, Drain(d)
  PROVE  WriteAheadInv'
<1> row \in [Tx -> Row] /\ row' \in [Tx -> Row] /\ drain \in [Drains -> DrainState]
  BY DEF TypeOK
<1>1. ASSUME UNCHANGED row, UNCHANGED next
      PROVE  RowsKept /\ RowsBorn
  BY <1>1 DEF RowsKept, RowsBorn, Raised, WriteAheadInv, Row
<1>2. CASE ReadDue(d)
  <2>1. drain'[d].tx = NoTx
    BY <1>2 DEF ReadDue
  <2> QED
    BY <1>1, <1>2, <2>1, KeepsRaised DEF ReadDue
<1>3. ASSUME RecordAccepted(d) \/ RecordRefused(d) \/ RecordRetryable(d)
      PROVE  WriteAheadInv'
  <2> DEFINE t == drain[d].tx
  <2>1. t \in Tx /\ drain'[d].tx = NoTx
    <3>1. t # NoTx /\ Finished(d)
      BY <1>3 DEF RecordAccepted, RecordRefused, RecordRetryable
    <3> QED
      BY <3>1, FinishedType DEF Finished, DrainState
  <2>2. Raised(t)
    BY <2>1, <1>3 DEF WriteAheadInv, RecordAccepted, RecordRefused, RecordRetryable
  <2>3. \/ UNCHANGED row
        \/ \E s \in {"Accepted", "Abandoned"} :
             row' = [row EXCEPT ![t].delivery = s, ![t].due = TRUE]
    BY <1>3 DEF RecordAccepted, RecordRefused, RecordRetryable
  <2>4. UNCHANGED <<next, sweep, provider>> /\ wire' \subseteq wire
    BY <1>3 DEF RecordAccepted, RecordRefused, RecordRetryable
  <2>5. \A e \in Drains \ {d} : drain'[e] = drain[e]
    BY <1>3 DEF RecordAccepted, RecordRefused, RecordRetryable, Finished
  <2>6. RowsKept /\ RowsBorn
    <3>1. CASE UNCHANGED row
      BY <1>1, <2>4, <3>1
    <3>2. ASSUME NEW s \in {"Accepted", "Abandoned"},
                 row' = [row EXCEPT ![t].delivery = s, ![t].due = TRUE]
          PROVE  RowsKept /\ RowsBorn
      <4>1. row'[t].delivery # "None" /\ row'[t].attempts = row[t].attempts
        BY <2>1, <3>2 DEF Row
      <4>2. row[t].attempts \in Nat
        BY <2>1 DEF Row
      <4>3. \A u \in Tx \ {t} : row'[u] = row[u]
        BY <3>2
      <4> QED
        BY <2>1, <2>2, <2>4, <4>1, <4>2, <4>3, PatchKeeps
    <3> QED
      BY <2>3, <3>1, <3>2
  <2> QED
    BY <2>1, <2>4, <2>5, <2>6, KeepsRaised
<1>4. CASE ClaimForSend(d)
  <2>1. PICK u \in drain[d].todo :
          IF row[u].delivery = "Pending"
          THEN /\ Claimed(u)
               /\ drain' = [drain EXCEPT ![d].todo = @ \ {u}, ![d].tx = u]
               /\ wire' = wire \union {u}
          ELSE /\ drain' = [drain EXCEPT ![d].todo = @ \ {u},
                                         ![d].seen[u] = 0]
               /\ UNCHANGED <<row, wire>>
    BY <1>4 DEF ClaimForSend
  <2>2. u \in Tx /\ drain[d].tx = NoTx
    BY <1>4 DEF ClaimForSend, DrainState
  <2>3. UNCHANGED <<next, sweep, provider>>
    BY <1>4 DEF ClaimForSend
  <2>4. CASE row[u].delivery # "Pending"
    <3>1. drain'[d].tx = NoTx /\ \A e \in Drains \ {d} : drain'[e] = drain[e]
      BY <2>1, <2>2, <2>4 DEF DrainState
    <3> QED
      BY <1>1, <2>1, <2>3, <2>4, <3>1, KeepsRaised
  <2>5. CASE row[u].delivery = "Pending"
    <3>1. drain'[d].tx = u /\ \A e \in Drains \ {d} : drain'[e] = drain[e]
      BY <2>1, <2>2, <2>5 DEF DrainState
    <3>2. Raised(u) /\ row[u].attempts \in Nat
      BY <2>2, <2>5 DEF Raised, Row
    <3>3. /\ row'[u].attempts = row[u].attempts + 1
          /\ row'[u].delivery = "Pending"
          /\ \A v \in Tx \ {u} : row'[v] = row[v]
      BY <2>1, <2>2, <2>5, ClaimedRow
    <3>4. RowsKept /\ RowsBorn
      BY <2>2, <2>3, <3>2, <3>3, PatchKeeps
    <3>5. \A e \in Drains : drain'[e].tx # NoTx =>
            row'[drain'[e].tx].delivery # "None" /\ row'[drain'[e].tx].attempts >= 1
      <4>1. \A e \in Drains \ {d} : drain[e].tx \in Tx \union {NoTx}
        BY DEF DrainState
      <4>2. \A v \in Tx : row[v].attempts \in Nat /\ row'[v].attempts \in Nat
        BY DEF Row
      <4> QED
        BY <3>1, <3>2, <3>3, <3>4, <4>1, <4>2 DEF WriteAheadInv, RowsKept, Raised
    <3>6. \A s \in Sweeps : \A v \in sweep'[s].batch : Raised(v)'
      BY <2>3, <3>4 DEF WriteAheadInv, RowsKept, TypeOK, SweepState
    <3>7. WriteAhead'
      <4>1. \A v \in Tx : row[v].attempts \in Nat /\ row'[v].attempts \in Nat
        BY DEF Row
      <4> QED
        BY <2>1, <2>3, <2>5, <3>2, <3>3, <3>4, <4>1
        DEF WriteAheadInv, WriteAhead, RowsKept, Raised
    <3> QED
      BY <3>4, <3>5, <3>6, <3>7 DEF WriteAheadInv, RowsBorn, Raised
  <2> QED
    BY <2>4, <2>5
<1> QED
  BY <1>2, <1>3, <1>4 DEF Drain

LEMMA SweepWA ==
  ASSUME TypeOK, TypeOK', RetryHasTx, WriteAheadInv, NEW s \in Sweeps, Sweep(s)
  PROVE  WriteAheadInv'
<1> row \in [Tx -> Row] /\ row' \in [Tx -> Row] /\ sweep \in [Sweeps -> SweepState]
  BY DEF TypeOK
<1>1. ASSUME UNCHANGED row, UNCHANGED next
      PROVE  RowsKept /\ RowsBorn
  BY <1>1 DEF RowsKept, RowsBorn, Raised, WriteAheadInv, Row
<1>2. UNCHANGED <<drain, wire, provider>>
  BY DEF Sweep, Apply, ReadAwaiting, Reconcile, ReconcileFailed, ApplyInFlight,
         ApplyProcessed, ApplyNotFound, ApplyFailed, CheckLive, SaveSuccessor
<1>3. \A u \in Sweeps \ {s} : sweep'[u] = sweep[u]
  BY DEF Sweep, Apply, ReadAwaiting, Reconcile, ReconcileFailed, ApplyInFlight,
         ApplyProcessed, ApplyNotFound, ApplyFailed, CheckLive, SaveSuccessor
<1>4. CASE ReadAwaiting(s)
  <2>1. sweep'[s].batch = findAwaitingConfirmation
    BY <1>4 DEF ReadAwaiting, SweepState
  <2>2. \A t \in findAwaitingConfirmation : Raised(t)
    BY DEF findAwaitingConfirmation, Raised
  <2> QED
    BY <1>1, <1>2, <1>3, <1>4, <2>1, <2>2, KeepsRaised DEF ReadAwaiting
<1>5. CASE Reconcile(s) \/ ReconcileFailed(s) \/ CheckLive(s)
  <2>1. sweep'[s].batch \subseteq sweep[s].batch
    <3>1. CASE Reconcile(s)
      BY <3>1 DEF Reconcile, SweepState
    <3>2. CASE ReconcileFailed(s)
      BY <3>2 DEF ReconcileFailed, Asleep
    <3>3. CASE CheckLive(s)
      <4>1. Resume(s).batch = sweep[s].batch
        BY DEF Resume, SweepState
      <4>2. [sweep[s] EXCEPT !.pc = "insert"].batch = sweep[s].batch
        BY DEF SweepState
      <4> QED
        BY <3>3, <4>1, <4>2 DEF CheckLive
    <3> QED
      BY <1>5, <3>1, <3>2, <3>3
  <2> QED
    BY <1>1, <1>2, <1>3, <1>5, <2>1, KeepsRaised
    DEF Reconcile, ReconcileFailed, CheckLive
<1>6. CASE SaveSuccessor(s)
  <2>1. sweep'[s].batch = sweep[s].batch
    BY <1>6 DEF SaveSuccessor, Resume, SweepState
  <2> QED
    BY <1>2, <1>3, <1>6, <2>1, InsertKeeps, KeepsRaised DEF SaveSuccessor
<1>7. CASE Apply(s)
  <2>1. PICK t \in Tx : \/ ApplyInFlight(s, t)
                        \/ ApplyProcessed(s, t)
                        \/ ApplyNotFound(s, t)
                        \/ \E probed \in BOOLEAN : ApplyFailed(s, t, probed)
    BY <1>7 DEF Apply
  <2>2. Raised(t) /\ UNCHANGED next /\ row[t] \in Row
    BY <2>1 DEF WriteAheadInv, ApplyInFlight, ApplyProcessed, ApplyNotFound,
                ApplyFailed, Answered
  <2>3. \A u \in Tx \ {t} : row'[u] = row[u]
    BY <2>1 DEF ApplyInFlight, ApplyProcessed, ApplyNotFound, ApplyFailed
  <2>4. row'[t].delivery # "None" /\ row'[t].attempts = row[t].attempts
    <3> Raised(t) /\ row[t] \in Row
      BY <2>2
    <3>1. CASE ApplyInFlight(s, t)
      BY <3>1 DEF ApplyInFlight, Raised, Row
    <3>2. CASE ApplyProcessed(s, t)
      BY <3>2 DEF ApplyProcessed, Row
    <3>3. CASE ApplyNotFound(s, t)
      BY <3>3 DEF ApplyNotFound, Row
    <3>4. CASE \E probed \in BOOLEAN : ApplyFailed(s, t, probed)
      <4>1. PICK r \in BOOLEAN : row' = [row EXCEPT ![t] = [@ EXCEPT
                   !.delivery = "Failed", !.event = "FAILED", !.recoverable = r]]
        BY <3>4 DEF ApplyFailed
      <4> QED
        BY <4>1 DEF Row
    <3> QED
      BY <2>1, <3>1, <3>2, <3>3, <3>4
  <2>5. RowsKept /\ RowsBorn
    BY <2>2, <2>3, <2>4, PatchKeeps DEF Row
  <2>6. sweep'[s].batch \subseteq sweep[s].batch
    <3>1. Without(s, t).batch \subseteq sweep[s].batch
      BY DEF Without
    <3>2. [Without(s, t) EXCEPT !.pc = "check", !.tx = t].batch = Without(s, t).batch
      BY DEF Without
    <3> QED
      BY <2>1, <3>1, <3>2 DEF ApplyInFlight, ApplyProcessed, ApplyNotFound, ApplyFailed
  <2> QED
    BY <1>2, <1>3, <2>5, <2>6, KeepsRaised
<1> QED
  BY <1>4, <1>5, <1>6, <1>7 DEF Sweep

LEMMA RequestWA ==
  ASSUME TypeOK, TypeOK', WriteAheadInv, NEW q \in Requests, Request(q)
  PROVE  WriteAheadInv'
<1>1. UNCHANGED <<drain, sweep, wire, provider>>
  BY DEF Request, EnqueueResult, PushNow, SaveRow, EnqueueLane, Repush
<1>2. \/ UNCHANGED <<row, next>>
      \/ \E j, b, a : Insert(j, b, a)
  BY DEF Request, EnqueueResult, PushNow, SaveRow, EnqueueLane, Repush
<1>3. RowsKept /\ RowsBorn
  BY <1>2, InsertKeeps DEF RowsKept, RowsBorn, Raised, WriteAheadInv, TypeOK, Row
<1> QED
  BY <1>1, <1>3, KeepsRaised

LEMMA ElseWA ==
  ASSUME TypeOK, TypeOK', WriteAheadInv,
         \/ Provider
         \/ \E t \in Tx : BackoffElapses(t)
         \/ NewDay
         \/ Interrupt
         \/ UNCHANGED vars
  PROVE  WriteAheadInv'
<1> row \in [Tx -> Row]
  BY DEF TypeOK
<1>1. RowsKept /\ RowsBorn
  <2>1. UNCHANGED next
    BY DEF Provider, Arrive, Decide, Forget, CheckIn, BackoffElapses, NewDay,
           Interrupt, vars
  <2>2. UNCHANGED row \/ \E t \in Tx : row' = [row EXCEPT ![t].due = TRUE]
    BY DEF Provider, Arrive, Decide, Forget, CheckIn, BackoffElapses, NewDay,
           Interrupt, vars
  <2>3. \A t \in Tx : row'[t].delivery = row[t].delivery
                      /\ row'[t].attempts = row[t].attempts
                      /\ row[t].attempts \in Nat
    BY <2>2 DEF Row
  <2> QED
    BY <2>1, <2>3 DEF RowsKept, RowsBorn, Raised, WriteAheadInv
<1>2. \A d \in Drains : drain'[d].tx \in {NoTx, drain[d].tx}
  BY DEF Provider, Arrive, Decide, Forget, CheckIn, BackoffElapses, NewDay,
         Interrupt, vars, Resting, TypeOK
<1>3. \A s \in Sweeps : sweep'[s].batch \subseteq sweep[s].batch
  BY DEF Provider, Arrive, Decide, Forget, CheckIn, BackoffElapses, NewDay,
         Interrupt, vars, Asleep, TypeOK
<1>4. \A t \in Tx : t \in wire' \/ provider'[t] # "unknown" =>
        t \in wire \/ provider[t] # "unknown"
  BY DEF Provider, Arrive, Decide, Forget, CheckIn, BackoffElapses, NewDay,
         Interrupt, vars, TypeOK
<1> QED
  BY <1>1, <1>2, <1>3, <1>4, KeepsRaised

LEMMA WriteAheadInit == Init => TypeOK /\ RetryHasTx /\ WriteAheadInv
<1> SUFFICES ASSUME Init
             PROVE  TypeOK /\ RetryHasTx /\ WriteAheadInv
  OBVIOUS
<1>1. TypeOK /\ RetryHasTx
  BY InitType DEF Init, RetryHasTx, Asleep
<1>2. WriteAheadInv
  BY DEF Init, WriteAheadInv, WriteAhead, Raised, NoRow, Resting, Asleep
<1> QED
  BY <1>1, <1>2

LEMMA WriteAheadStep ==
  ASSUME TypeOK, RetryHasTx, WriteAheadInv, [Next]_vars
  PROVE  (TypeOK /\ RetryHasTx /\ WriteAheadInv)'
<1>1. TypeOK' /\ RetryHasTx'
  BY TypeStep, RetryHasTxStep
<1> QED
  BY <1>1, DrainWA, SweepWA, RequestWA, ElseWA DEF Next

\* The provider never holds, and no request carries, an id that the table
\* does not have with the attempt counted, for any number of overlapping
\* ticks and wherever they are cut short.
THEOREM WriteAheadHolds == Spec => []WriteAhead
<1>1. Init => TypeOK /\ RetryHasTx /\ WriteAheadInv
  BY WriteAheadInit
<1>2. TypeOK /\ RetryHasTx /\ WriteAheadInv /\ [Next]_vars
        => (TypeOK /\ RetryHasTx /\ WriteAheadInv)'
  BY WriteAheadStep
<1>3. WriteAheadInv => WriteAhead
  BY DEF WriteAheadInv
<1> QED
  BY <1>1, <1>2, <1>3, PTL DEF Spec

-----------------------------------------------------------------------------
(* StatusTruth. The sweep reads the provider's verdicts in one call and    *)
(* writes them row by row later, while other sweeps and drains write the   *)
(* same rows. What keeps the rows true is that a verdict the sweep still   *)
(* carries is one the provider never takes back.                           *)

Final == {"processed"} \union Rejections

\* Every verdict a sweep carries is the provider's.
ResultTruth == \A s \in Sweeps, t \in Tx :
  /\ sweep[s].result[t] = "PROCESSED" => provider[t] = "processed"
  /\ sweep[s].result[t] = "FAILED" => provider[t] \in Rejections

StatusTruthInv == StatusTruth /\ ResultTruth

\* The provider never takes a final verdict back.
LEMMA VerdictStable ==
  ASSUME TypeOK, [Next]_vars
  PROVE  \A t \in Tx : provider[t] \in Final => provider'[t] = provider[t]
<1> provider \in [Tx -> Verdicts]
  BY DEF TypeOK
<1>1. ASSUME NEW d \in Drains, Drain(d) PROVE UNCHANGED provider
  BY <1>1 DEF Drain, ReadDue, ClaimForSend, RecordAccepted, RecordRefused,
              RecordRetryable
<1>2. ASSUME NEW s \in Sweeps, Sweep(s) PROVE UNCHANGED provider
  BY <1>2 DEF Sweep, Apply, ReadAwaiting, Reconcile, ReconcileFailed,
     ApplyInFlight, ApplyProcessed, ApplyNotFound, ApplyFailed, CheckLive,
     SaveSuccessor
<1>3. ASSUME NEW q \in Requests, Request(q) PROVE UNCHANGED provider
  BY <1>3 DEF Request, EnqueueResult, PushNow, SaveRow, EnqueueLane, Repush
<1>4. ASSUME NEW u \in Tx, Arrive(u) \/ Decide(u) \/ Forget(u)
      PROVE  \A t \in Tx : provider[t] \in Final => provider'[t] = provider[t]
  BY <1>4 DEF Arrive, Decide, Forget, Final, Rejections
<1>5. ASSUME (\E j \in Jobs : CheckIn(j)) \/ (\E t \in Tx : BackoffElapses(t))
             \/ NewDay \/ Interrupt \/ UNCHANGED vars
      PROVE  UNCHANGED provider
  BY <1>5 DEF CheckIn, BackoffElapses, NewDay, Interrupt, vars
<1> QED
  BY <1>1, <1>2, <1>3, <1>4, <1>5 DEF Next, Provider

\* An insert or a patch of another column never makes a status lie.
LEMMA UnsettledKeepsTruth ==
  ASSUME StatusTruth,
         \A t \in Tx : provider[t] \in Final => provider'[t] = provider[t],
         \A t \in Tx : \/ row'[t].delivery = row[t].delivery
                       \/ row'[t].delivery \notin {"Processed", "Failed"}
  PROVE  StatusTruth'
<1>1. \A t \in Tx : row'[t].delivery = "Processed" => provider'[t] = "processed"
  BY DEF StatusTruth, Final
<1>2. \A t \in Tx : row'[t].delivery = "Failed" => provider'[t] \in Rejections
  BY DEF StatusTruth, Final
<1> QED
  BY <1>1, <1>2 DEF StatusTruth, Rejections

\* The verdicts stay true while the sweeps keep them, drop them, or do not
\* change.
LEMMA KeptResultsStayTrue ==
  ASSUME ResultTruth,
         \A t \in Tx : provider[t] \in Final => provider'[t] = provider[t],
         \A s \in Sweeps, t \in Tx :
           \/ sweep'[s].result[t] = sweep[s].result[t]
           \/ sweep'[s].result[t] = NoStatus
  PROVE  ResultTruth'
<1>1. \A s \in Sweeps, t \in Tx :
        sweep'[s].result[t] = "PROCESSED" => provider'[t] = "processed"
  BY DEF ResultTruth, Final, NoStatus
<1>2. \A s \in Sweeps, t \in Tx :
        sweep'[s].result[t] = "FAILED" => provider'[t] \in Rejections
  BY DEF ResultTruth, Final, NoStatus
<1> QED
  BY <1>1, <1>2 DEF ResultTruth, Rejections

\* Inserts leave every existing delivery status alone.
LEMMA InsertUnsettled ==
  ASSUME row \in [Tx -> Row], next \in 1 .. MaxTx + 1,
         NEW j, NEW b, NEW a, Insert(j, b, a)
  PROVE  \A t \in Tx : \/ row'[t].delivery = row[t].delivery
                       \/ row'[t].delivery \notin {"Processed", "Failed"}
<1>1. CASE next > MaxTx
  BY <1>1 DEF Insert
<1>2. CASE ~ (next > MaxTx)
  <2>1. row' = [row EXCEPT ![next] =
                  [job |-> j, day |-> today, by |-> a,
                   delivery |-> "Pending", event |-> NoStatus,
                   attempts |-> 0, due |-> b, recoverable |-> FALSE]]
    BY <1>2 DEF Insert
  <2> QED
    BY <2>1
<1> QED
  BY <1>1, <1>2

LEMMA DrainTruth ==
  ASSUME TypeOK, StatusTruthInv, NEW d \in Drains, Drain(d),
         \A t \in Tx : provider[t] \in Final => provider'[t] = provider[t]
  PROVE  StatusTruthInv'
<1> row \in [Tx -> Row] /\ drain[d] \in DrainState
  BY DEF TypeOK
<1>1. UNCHANGED sweep
  BY DEF Drain, ReadDue, ClaimForSend, RecordAccepted, RecordRefused,
         RecordRetryable
<1>2. \A t \in Tx : \/ row'[t].delivery = row[t].delivery
                    \/ row'[t].delivery \notin {"Processed", "Failed"}
  <2>1. CASE ReadDue(d)
    BY <2>1 DEF ReadDue
  <2>2. CASE ClaimForSend(d)
    <3>1. PICK t \in drain[d].todo : Claimed(t) \/ UNCHANGED row
      BY <2>2 DEF ClaimForSend
    <3>2. t \in Tx /\ row[t] \in Row
      BY DEF DrainState
    <3> QED
      BY <3>1, <3>2 DEF Claimed, Row
  <2>3. CASE RecordAccepted(d)
    BY <2>3 DEF RecordAccepted, DrainState, Row
  <2>4. CASE RecordRefused(d)
    BY <2>4 DEF RecordRefused, DrainState, Row
  <2>5. CASE RecordRetryable(d)
    BY <2>5 DEF RecordRetryable, DrainState, Row
  <2> QED
    BY <2>1, <2>2, <2>3, <2>4, <2>5 DEF Drain
<1> QED
  BY <1>1, <1>2, UnsettledKeepsTruth, KeptResultsStayTrue DEF StatusTruthInv

LEMMA SweepTruth ==
  ASSUME TypeOK, StatusTruthInv, NEW s \in Sweeps, Sweep(s),
         \A t \in Tx : provider[t] \in Final => provider'[t] = provider[t]
  PROVE  StatusTruthInv'
<1> row \in [Tx -> Row] /\ sweep \in [Sweeps -> SweepState]
  BY DEF TypeOK
<1>1. UNCHANGED provider
  BY DEF Sweep, Apply, ReadAwaiting, Reconcile, ReconcileFailed,
     ApplyInFlight, ApplyProcessed, ApplyNotFound, ApplyFailed, CheckLive,
     SaveSuccessor
<1>2. CASE ReadAwaiting(s) \/ ReconcileFailed(s) \/ CheckLive(s)
  <2>1. \A u \in Sweeps, t \in Tx : \/ sweep'[u].result[t] = sweep[u].result[t]
                                    \/ sweep'[u].result[t] = NoStatus
    <3>1. CASE ReadAwaiting(s)
      BY <3>1 DEF ReadAwaiting, SweepState
    <3>2. CASE ReconcileFailed(s)
      BY <3>2 DEF ReconcileFailed, Asleep
    <3>3. CASE CheckLive(s)
      <4>1. Resume(s).result = sweep[s].result
        BY DEF Resume, SweepState
      <4>2. [sweep[s] EXCEPT !.pc = "insert"].result = sweep[s].result
        BY DEF SweepState
      <4> QED
        BY <3>3, <4>1, <4>2 DEF CheckLive
    <3> QED
      BY <1>2, <3>1, <3>2, <3>3
  <2>2. UNCHANGED row
    BY <1>2 DEF ReadAwaiting, ReconcileFailed, CheckLive
  <2> QED
    BY <2>1, <2>2, UnsettledKeepsTruth, KeptResultsStayTrue DEF StatusTruthInv
<1>3. CASE Reconcile(s)
  <2>1. \A u \in Sweeps \ {s} : sweep'[u] = sweep[u]
    BY <1>3 DEF Reconcile
  <2>2. sweep'[s].result = answers(sweep[s].batch)
    BY <1>3 DEF Reconcile, SweepState
  <2>3. \A t \in Tx :
          /\ answers(sweep[s].batch)[t] = "PROCESSED" => provider[t] = "processed"
          /\ answers(sweep[s].batch)[t] = "FAILED" => provider[t] \in Rejections
    BY DEF answers, StatusOf, NoStatus, Rejections, TypeOK, Verdicts
  <2>4. UNCHANGED row
    BY <1>3 DEF Reconcile
  <2>5. StatusTruth'
    BY <2>4, UnsettledKeepsTruth DEF StatusTruthInv
  <2>6. ResultTruth'
    BY <1>1, <2>1, <2>2, <2>3 DEF StatusTruthInv, ResultTruth, Rejections
  <2> QED
    BY <2>5, <2>6 DEF StatusTruthInv
<1>4. CASE SaveSuccessor(s)
  <2>1. Resume(s).result = sweep[s].result
    BY DEF Resume, SweepState
  <2>2. \A u \in Sweeps, t \in Tx : sweep'[u].result[t] = sweep[u].result[t]
    BY <1>4, <2>1 DEF SaveSuccessor
  <2>3. \A t \in Tx : \/ row'[t].delivery = row[t].delivery
                      \/ row'[t].delivery \notin {"Processed", "Failed"}
    BY <1>4, InsertUnsettled DEF SaveSuccessor, TypeOK
  <2> QED
    BY <2>2, <2>3, UnsettledKeepsTruth, KeptResultsStayTrue DEF StatusTruthInv
<1>5. CASE Apply(s)
  <2>1. PICK t \in Tx : \/ ApplyInFlight(s, t)
                        \/ ApplyProcessed(s, t)
                        \/ ApplyNotFound(s, t)
                        \/ \E probed \in BOOLEAN : ApplyFailed(s, t, probed)
    BY <1>5 DEF Apply
  <2>2. \A u \in Tx \ {t} : row'[u] = row[u]
    BY <2>1 DEF ApplyInFlight, ApplyProcessed, ApplyNotFound, ApplyFailed
  <2>3. \/ row'[t].delivery = row[t].delivery
        \/ row'[t].delivery \notin {"Processed", "Failed"}
        \/ row'[t].delivery = "Processed" /\ sweep[s].result[t] = "PROCESSED"
        \/ row'[t].delivery = "Failed" /\ sweep[s].result[t] = "FAILED"
    <3> row[t] \in Row
      OBVIOUS
    <3>1. CASE ApplyInFlight(s, t)
      BY <3>1 DEF ApplyInFlight, Row
    <3>2. CASE ApplyProcessed(s, t)
      BY <3>2 DEF ApplyProcessed, Answered, Row
    <3>3. CASE ApplyNotFound(s, t)
      BY <3>3 DEF ApplyNotFound, Row
    <3>4. CASE \E probed \in BOOLEAN : ApplyFailed(s, t, probed)
      <4>1. PICK r \in BOOLEAN : row' = [row EXCEPT ![t] = [@ EXCEPT
                   !.delivery = "Failed", !.event = "FAILED", !.recoverable = r]]
        BY <3>4 DEF ApplyFailed
      <4>2. sweep[s].result[t] = "FAILED"
        BY <3>4 DEF ApplyFailed, Answered
      <4> QED
        BY <4>1, <4>2 DEF Row
    <3> QED
      BY <2>1, <3>1, <3>2, <3>3, <3>4
  <2>4. StatusTruth'
    <3>1. \A u \in Tx : row'[u].delivery = "Processed" => provider[u] = "processed"
      BY <2>2, <2>3 DEF StatusTruthInv, StatusTruth, ResultTruth
    <3>2. \A u \in Tx : row'[u].delivery = "Failed" => provider[u] \in Rejections
      BY <2>2, <2>3 DEF StatusTruthInv, StatusTruth, ResultTruth
    <3> QED
      BY <1>1, <3>1, <3>2 DEF StatusTruth, Rejections
  <2>5. \A u \in Sweeps, v \in Tx : \/ sweep'[u].result[v] = sweep[u].result[v]
                                    \/ sweep'[u].result[v] = NoStatus
    <3>1. \A v \in Tx : \/ Without(s, t).result[v] = sweep[s].result[v]
                        \/ Without(s, t).result[v] = NoStatus
      BY DEF Without, SweepState
    <3>2. [Without(s, t) EXCEPT !.pc = "check", !.tx = t].result
            = Without(s, t).result
      BY DEF Without
    <3>3. \/ sweep' = [sweep EXCEPT ![s] = Without(s, t)]
          \/ sweep' = [sweep EXCEPT ![s] =
                         [Without(s, t) EXCEPT !.pc = "check", !.tx = t]]
      BY <2>1 DEF ApplyInFlight, ApplyProcessed, ApplyNotFound, ApplyFailed
    <3> QED
      BY <3>1, <3>2, <3>3
  <2> QED
    BY <2>4, <2>5, KeptResultsStayTrue DEF StatusTruthInv
<1> QED
  BY <1>2, <1>3, <1>4, <1>5 DEF Sweep

LEMMA ElseTruth ==
  ASSUME TypeOK, StatusTruthInv,
         \/ \E q \in Requests : Request(q)
         \/ Provider
         \/ \E t \in Tx : BackoffElapses(t)
         \/ NewDay
         \/ Interrupt
         \/ UNCHANGED vars,
         \A t \in Tx : provider[t] \in Final => provider'[t] = provider[t]
  PROVE  StatusTruthInv'
<1> row \in [Tx -> Row] /\ sweep \in [Sweeps -> SweepState]
  BY DEF TypeOK
<1>1. \A t \in Tx : \/ row'[t].delivery = row[t].delivery
                    \/ row'[t].delivery \notin {"Processed", "Failed"}
  <2>1. \/ UNCHANGED row
        \/ \E t \in Tx : row' = [row EXCEPT ![t].due = TRUE]
        \/ \E j, b, a : Insert(j, b, a)
    BY DEF Request, EnqueueResult, PushNow, SaveRow, EnqueueLane, Repush,
           Provider, Arrive, Decide, Forget, CheckIn, BackoffElapses, NewDay,
           Interrupt, vars
  <2>2. ASSUME NEW t \in Tx, row' = [row EXCEPT ![t].due = TRUE]
        PROVE  \A u \in Tx : row'[u].delivery = row[u].delivery
    BY <2>2 DEF Row
  <2> QED
    BY <2>1, <2>2, InsertUnsettled DEF TypeOK
<1>2. \A u \in Sweeps, v \in Tx : \/ sweep'[u].result[v] = sweep[u].result[v]
                                  \/ sweep'[u].result[v] = NoStatus
  <2>1. \/ UNCHANGED sweep
        \/ \E s \in Sweeps : sweep' = [sweep EXCEPT ![s] = Asleep]
    BY DEF Request, EnqueueResult, PushNow, SaveRow, EnqueueLane, Repush,
           Provider, Arrive, Decide, Forget, CheckIn, BackoffElapses, NewDay,
           Interrupt, vars
  <2> QED
    BY <2>1 DEF Asleep
<1> QED
  BY <1>1, <1>2, UnsettledKeepsTruth, KeptResultsStayTrue DEF StatusTruthInv

LEMMA StatusTruthInvHolds == Spec => []StatusTruthInv
<1>1. Init => StatusTruthInv
  BY DEF Init, StatusTruthInv, StatusTruth, ResultTruth, NoRow, Asleep, NoStatus
<1>2. TypeOK /\ StatusTruthInv /\ [Next]_vars => StatusTruthInv'
  <2> SUFFICES ASSUME TypeOK, StatusTruthInv, [Next]_vars
               PROVE  StatusTruthInv'
    OBVIOUS
  <2>1. \A t \in Tx : provider[t] \in Final => provider'[t] = provider[t]
    BY VerdictStable
  <2> QED
    BY <2>1, DrainTruth, SweepTruth, ElseTruth DEF Next
<1> QED
  BY <1>1, <1>2, TypeCorrect, PTL DEF Spec

\* applyStatus writes Processed or Failed only on the provider's word: for
\* any number of overlapping drains, sweeps and requests, a row closed as
\* Processed (Failed) is a transaction the provider applied (rejected).
THEOREM StatusTruthHolds == Spec => []StatusTruth
<1>1. StatusTruthInv => StatusTruth
  BY DEF StatusTruthInv
<1> QED
  BY <1>1, StatusTruthInvHolds, PTL

-----------------------------------------------------------------------------
(* One tick of each kind at a time. Then no answer comes late: what a      *)
(* drain holds stays Pending, and what a sweep holds stays Accepted.       *)

SingleTicks ==
  /\ \A d, e \in Drains : d = e
  /\ \A r, s \in Sweeps : r = s

Budget == MaxAttempts + lost + cuts

\* A row in the hands of a drain.
DrainHolds(t) == \A d \in Drains :
  /\ drain[d].tx = t => /\ row[t].delivery = "Pending" /\ t \notin drain[d].todo
                        /\ row[t].attempts = drain[d].seen[t] + 1
  /\ t \in drain[d].todo => /\ row[t].delivery = "Pending"
                            /\ row[t].attempts = drain[d].seen[t]

\* A row in the hands of a sweep.
SweepHolds(t) == \A s \in Sweeps :
  /\ t \in sweep[s].batch => row[t].delivery = "Accepted"
  /\ sweep[s].result[t] # NoStatus => t \in sweep[s].batch

\* A row that may be sent again has an attempt left for it.
AttemptLeft(t) ==
  /\ row[t].attempts <= Budget
  /\ row[t].delivery = "Pending" /\ (\A d \in Drains : drain[d].tx # t)
       => row[t].attempts < Budget
  /\ row[t].delivery = "Accepted"
       /\ (provider[t] = "unknown" \/ \E s \in Sweeps : sweep[s].result[t] = "NOT_FOUND")
       => row[t].attempts < Budget

RowInv(t) ==
  /\ DrainHolds(t) /\ SweepHolds(t) /\ AttemptLeft(t)
  /\ row[t].delivery \in Live => row[t].event \in AwaitedStatus

TickInv == \A t \in Tx : RowInv(t)

SameRow(t) ==
  /\ row'[t].delivery = row[t].delivery /\ row'[t].event = row[t].event
  /\ row'[t].attempts = row[t].attempts /\ row'[t].job = row[t].job
  /\ row'[t].day = row[t].day /\ row'[t].by = row[t].by
  /\ row'[t].recoverable = row[t].recoverable

LEMMA Counters ==
  ASSUME TypeOK
  PROVE  /\ lost \in Nat /\ cuts \in Nat /\ MaxAttempts \in Nat /\ MaxAttempts > 0
         /\ Budget \in Nat
         /\ \A t \in Tx : row[t] \in Row /\ row[t].attempts \in Nat
BY BoundsAssumption DEF TypeOK, Row, Budget

LEMMA BudgetGrows ==
  ASSUME NEW m \in Nat, NEW l \in Nat, NEW c \in Nat, NEW p \in Nat, NEW q \in Nat,
         l <= p, c <= q
  PROVE  /\ m + l + c \in Nat /\ m + p + q \in Nat /\ m + l + c <= m + p + q
         /\ (p = l + 1 \/ q = c + 1) => m + l + c < m + p + q
OBVIOUS

\* A step that leaves the row alone may take it up only where it is Pending
\* (a drain) or Accepted (a sweep).
LEMMA RowKept ==
  ASSUME TypeOK, TypeOK', NEW u \in Tx, RowInv(u), SameRow(u),
         \A d \in Drains :
           /\ drain'[d].tx = u => drain[d].tx = u /\ drain'[d].seen[u] = drain[d].seen[u]
           /\ drain[d].tx = u => drain'[d].tx = u \/ cuts' = cuts + 1
           /\ u \in drain'[d].todo => /\ row[u].delivery = "Pending" /\ drain[d].tx # u
                                      /\ row[u].attempts = drain'[d].seen[u],
         \A s \in Sweeps :
           /\ u \in sweep'[s].batch => row[u].delivery = "Accepted"
           /\ sweep'[s].result[u] # NoStatus => u \in sweep'[s].batch
           /\ sweep'[s].result[u] = "NOT_FOUND" =>
                sweep[s].result[u] = "NOT_FOUND" \/ provider[u] = "unknown",
         provider'[u] = "unknown" => provider[u] = "unknown" \/ lost' = lost + 1,
         lost <= lost', cuts <= cuts'
  PROVE  RowInv(u)'
<1>1. /\ lost \in Nat /\ cuts \in Nat /\ lost' \in Nat /\ cuts' \in Nat
      /\ MaxAttempts \in Nat /\ row[u].attempts \in Nat
  BY Counters, BoundsAssumption DEF TypeOK
<1>2. Budget <= Budget' /\ Budget \in Nat /\ Budget' \in Nat
      /\ (lost' = lost + 1 \/ cuts' = cuts + 1 => Budget < Budget')
  <2>1. /\ Budget = MaxAttempts + lost + cuts
        /\ Budget' = MaxAttempts + lost' + cuts'
    BY DEF Budget
  <2> QED
    BY <1>1, <2>1, BudgetGrows
<1>3. DrainHolds(u)'
  BY DEF RowInv, DrainHolds, SameRow
<1>4. SweepHolds(u)'
  BY DEF SweepHolds, SameRow
<1>5. AttemptLeft(u)'
  <2>1. row'[u].attempts = row[u].attempts /\ row'[u].delivery = row[u].delivery
    BY DEF SameRow
  <2>2. row[u].attempts <= Budget
    BY DEF RowInv, AttemptLeft
  <2>3. ASSUME row[u].delivery = "Pending", \A d \in Drains : drain'[d].tx # u
        PROVE  row[u].attempts < Budget'
    <3>1. CASE \A d \in Drains : drain[d].tx # u
      <4>1. row[u].attempts < Budget
        BY <2>3, <3>1 DEF RowInv, AttemptLeft
      <4> QED
        BY <1>1, <1>2, <4>1
    <3>2. CASE \E d \in Drains : drain[d].tx = u
      <4>1. cuts' = cuts + 1
        BY <2>3, <3>2
      <4> QED
        BY <1>1, <1>2, <2>2, <4>1
    <3> QED
      BY <3>1, <3>2
  <2>4. ASSUME row[u].delivery = "Accepted",
               provider'[u] = "unknown" \/ \E s \in Sweeps : sweep'[s].result[u] = "NOT_FOUND"
        PROVE  row[u].attempts < Budget'
    <3>1. CASE lost' = lost + 1
      BY <1>1, <1>2, <2>2, <3>1
    <3>2. CASE provider[u] = "unknown" \/ \E s \in Sweeps : sweep[s].result[u] = "NOT_FOUND"
      <4>1. row[u].attempts < Budget
        BY <2>4, <3>2 DEF RowInv, AttemptLeft
      <4> QED
        BY <1>1, <1>2, <4>1
    <3> QED
      BY <2>4, <3>1, <3>2
  <2>5. row[u].attempts <= Budget'
    BY <1>1, <1>2, <2>2
  <2> QED
    BY <2>1, <2>3, <2>4, <2>5 DEF AttemptLeft
<1>6. row'[u].delivery \in Live => row'[u].event \in AwaitedStatus
  BY DEF RowInv, SameRow
<1> QED
  BY <1>3, <1>4, <1>5, <1>6 DEF RowInv

\* A sweep that is done has nothing in its hands.
IdleSweeps == \A s \in Sweeps : sweep[s].pc = "idle" => sweep[s].batch = {}

LEMMA DrainKeeps ==
  ASSUME TypeOK, TypeOK', NEW u \in Tx, RowInv(u), SameRow(u),
         UNCHANGED <<sweep, provider, lost, cuts>>,
         \A d \in Drains :
           /\ drain'[d].tx = u => drain[d].tx = u /\ drain'[d].seen[u] = drain[d].seen[u]
           /\ drain[d].tx = u => drain'[d].tx = u
           /\ u \in drain'[d].todo => /\ row[u].delivery = "Pending" /\ drain[d].tx # u
                                      /\ row[u].attempts = drain'[d].seen[u]
  PROVE  RowInv(u)'
<1>1. \A s \in Sweeps :
           /\ u \in sweep'[s].batch => row[u].delivery = "Accepted"
           /\ sweep'[s].result[u] # NoStatus => u \in sweep'[s].batch
           /\ sweep'[s].result[u] = "NOT_FOUND" =>
                sweep[s].result[u] = "NOT_FOUND" \/ provider[u] = "unknown"
  BY DEF RowInv, SweepHolds
<1>2. lost <= lost' /\ cuts <= cuts'
  BY Counters
<1> QED
  BY <1>1, <1>2, RowKept

LEMMA SweepKeeps ==
  ASSUME TypeOK, TypeOK', NEW u \in Tx, RowInv(u), SameRow(u),
         UNCHANGED <<drain, provider, lost, cuts>>,
         \A s \in Sweeps :
           /\ u \in sweep'[s].batch => row[u].delivery = "Accepted"
           /\ sweep'[s].result[u] # NoStatus => u \in sweep'[s].batch
           /\ sweep'[s].result[u] = "NOT_FOUND" =>
                sweep[s].result[u] = "NOT_FOUND" \/ provider[u] = "unknown"
  PROVE  RowInv(u)'
<1>1. \A d \in Drains :
           /\ drain'[d].tx = u => drain[d].tx = u /\ drain'[d].seen[u] = drain[d].seen[u]
           /\ drain[d].tx = u => drain'[d].tx = u \/ cuts' = cuts + 1
           /\ u \in drain'[d].todo => /\ row[u].delivery = "Pending" /\ drain[d].tx # u
                                      /\ row[u].attempts = drain'[d].seen[u]
  BY DEF RowInv, DrainHolds
<1>2. lost <= lost' /\ cuts <= cuts'
  BY Counters
<1> QED
  BY <1>1, <1>2, RowKept

\* What an insert makes of the row, where there is room for one.
LEMMA Inserted ==
  ASSUME TypeOK, WriteAheadInv, NEW j, NEW b, NEW a, Insert(j, b, a), next <= MaxTx
  PROVE  /\ next \in Tx /\ next' = next + 1 /\ ~ Raised(next)
         /\ row'[next] = [job |-> j, day |-> today, by |-> a, delivery |-> "Pending",
                          event |-> NoStatus, attempts |-> 0, due |-> b,
                          recoverable |-> FALSE]
         /\ \A u \in Tx \ {next} : row'[u] = row[u]
<1>1. next \in Tx /\ next \in Int
  BY BoundsAssumption DEF TypeOK, Tx
<1>2. ~ Raised(next)
  BY <1>1 DEF WriteAheadInv
<1>3. ~ (next > MaxTx)
  BY <1>1, BoundsAssumption
<1> QED
  BY <1>1, <1>2, <1>3 DEF Insert, TypeOK

LEMMA InsertTick ==
  ASSUME TypeOK, TypeOK', WriteAheadInv, TickInv, NEW j, NEW b, NEW a, Insert(j, b, a),
         UNCHANGED <<drain, provider, lost, cuts>>,
         \A s \in Sweeps : /\ sweep'[s].batch = sweep[s].batch
                           /\ sweep'[s].result = sweep[s].result
  PROVE  TickInv'
<1>1. ASSUME NEW u \in Tx, row'[u] = row[u]
      PROVE  RowInv(u)'
  <2>1. RowInv(u) /\ SameRow(u)
    BY <1>1 DEF TickInv, SameRow
  <2>2. \A s \in Sweeps :
           /\ u \in sweep'[s].batch => row[u].delivery = "Accepted"
           /\ sweep'[s].result[u] # NoStatus => u \in sweep'[s].batch
           /\ sweep'[s].result[u] = "NOT_FOUND" =>
                sweep[s].result[u] = "NOT_FOUND" \/ provider[u] = "unknown"
    BY <2>1 DEF RowInv, SweepHolds
  <2> QED
    BY <2>1, <2>2, SweepKeeps
<1>2. CASE next > MaxTx
  BY <1>1, <1>2 DEF Insert, TickInv
<1>3. CASE next <= MaxTx
  <2>1. /\ next \in Tx /\ ~ Raised(next)
        /\ row'[next] = [job |-> j, day |-> today, by |-> a, delivery |-> "Pending",
                         event |-> NoStatus, attempts |-> 0, due |-> b,
                         recoverable |-> FALSE]
        /\ \A u \in Tx \ {next} : row'[u] = row[u]
    BY <1>3, Inserted
  <2>2. PICK n \in Tx : n = next
    BY <2>1
  <2>3. /\ row'[n].delivery = "Pending" /\ row'[n].attempts = 0 /\ row'[n].event = NoStatus
        /\ \A u \in Tx \ {n} : row'[u] = row[u]
    BY <2>1, <2>2
  <2>4. RowInv(n) /\ row[n].delivery = "None"
    BY <2>1, <2>2 DEF TickInv, Raised
  <2>5. RowInv(n)'
    <3>1. \A d \in Drains : drain[d].tx # n /\ n \notin drain[d].todo
      BY <2>4 DEF RowInv, DrainHolds
    <3>2. \A s \in Sweeps : n \notin sweep[s].batch /\ sweep[s].result[n] = NoStatus
      BY <2>4 DEF RowInv, SweepHolds
    <3>3. Budget' = Budget /\ Budget \in Nat /\ 0 < Budget
      BY Counters DEF Budget
    <3>4. DrainHolds(n)'
      BY <3>1 DEF DrainHolds
    <3>5. SweepHolds(n)'
      BY <3>2 DEF SweepHolds
    <3>6. AttemptLeft(n)'
      BY <2>3, <3>3 DEF AttemptLeft
    <3> QED
      BY <2>3, <3>4, <3>5, <3>6 DEF RowInv, AwaitedStatus
  <2> QED
    BY <1>1, <2>3, <2>5 DEF TickInv
<1>4. next > MaxTx \/ next <= MaxTx
  BY BoundsAssumption DEF TypeOK
<1> QED
  BY <1>2, <1>3, <1>4

LEMMA ReadDueTick ==
  ASSUME SingleTicks, TypeOK, TypeOK', TickInv, NEW d \in Drains, ReadDue(d)
  PROVE  TickInv'
<1> SUFFICES ASSUME NEW u \in Tx
             PROVE  RowInv(u)'
  BY DEF TickInv
<1>1. PICK batch \in SUBSET findDueForSend :
        drain' = [drain EXCEPT ![d] =
           [todo |-> batch,
            seen |-> [t \in Tx |-> IF t \in batch THEN row[t].attempts ELSE 0],
            tx |-> NoTx]]
  BY DEF ReadDue
<1>2. /\ drain[d].tx = NoTx /\ drain'[d].tx = NoTx /\ drain'[d].todo = batch
      /\ u \in batch => drain'[d].seen[u] = row[u].attempts
  BY <1>1 DEF ReadDue, Resting, TypeOK
<1>3. u # NoTx /\ (u \in batch => row[u].delivery = "Pending")
  BY DEF Tx, NoTx, findDueForSend
<1>4. \A e \in Drains :
           /\ drain'[e].tx = u => drain[e].tx = u /\ drain'[e].seen[u] = drain[e].seen[u]
           /\ drain[e].tx = u => drain'[e].tx = u
           /\ u \in drain'[e].todo => /\ row[u].delivery = "Pending" /\ drain[e].tx # u
                                      /\ row[u].attempts = drain'[e].seen[u]
  <2> TAKE e \in Drains
  <2>1. e = d
    BY DEF SingleTicks
  <2> QED
    BY <1>2, <1>3, <2>1
<1>5. RowInv(u) /\ SameRow(u)
  BY DEF TickInv, SameRow, ReadDue
<1> QED
  BY <1>4, <1>5, DrainKeeps DEF ReadDue

LEMMA ClaimTick ==
  ASSUME SingleTicks, TypeOK, TypeOK', TickInv, NEW d \in Drains, ClaimForSend(d)
  PROVE  TickInv'
<1> drain \in [Drains -> DrainState] /\ row \in [Tx -> Row]
  BY DEF TypeOK
<1>1. PICK t \in drain[d].todo :
          IF row[t].delivery = "Pending"
          THEN /\ Claimed(t)
               /\ drain' = [drain EXCEPT ![d].todo = @ \ {t}, ![d].tx = t]
               /\ wire' = wire \union {t}
          ELSE /\ drain' = [drain EXCEPT ![d].todo = @ \ {t},
                                         ![d].seen[t] = 0]
               /\ UNCHANGED <<row, wire>>
  BY DEF ClaimForSend
<1>2. t \in Tx /\ drain[d].tx = NoTx /\ UNCHANGED <<sweep, provider, lost, cuts>>
  BY DEF ClaimForSend, DrainState
<1>3. \A e \in Drains : e = d
  BY DEF SingleTicks
<1>4. RowInv(t) /\ row[t].delivery = "Pending" /\ row[t].attempts = drain[d].seen[t]
      /\ row[t].attempts \in Nat
  BY <1>1, <1>2 DEF TickInv, RowInv, DrainHolds, Row
<1>5. /\ drain' = [drain EXCEPT ![d].todo = @ \ {t}, ![d].tx = t] /\ Claimed(t)
  BY <1>1, <1>4
<1>6. /\ drain'[d].todo = drain[d].todo \ {t} /\ drain'[d].tx = t
      /\ drain'[d].seen = drain[d].seen
  BY <1>5 DEF DrainState
<1>7. /\ row'[t].attempts = row[t].attempts + 1
      /\ row'[t].delivery = row[t].delivery /\ row'[t].event = row[t].event
      /\ \A u \in Tx \ {t} : row'[u] = row[u]
  BY <1>2, <1>5, ClaimedRow
<1>8. RowInv(t)'
  <2>1. DrainHolds(t)'
    BY <1>3, <1>4, <1>6, <1>7 DEF DrainHolds
  <2>2. SweepHolds(t)'
    BY <1>2, <1>4, <1>7 DEF RowInv, SweepHolds
  <2>3. AttemptLeft(t)'
    <3>1. \A e \in Drains : drain[e].tx # t
      BY <1>2, <1>3 DEF Tx, NoTx
    <3>2. row[t].attempts < Budget
      BY <1>4, <3>1 DEF RowInv, AttemptLeft
    <3>3. Budget' = Budget /\ Budget \in Nat
      BY <1>2, Counters DEF Budget
    <3>4. row'[t].attempts <= Budget'
      BY <1>4, <1>7, <3>2, <3>3
    <3> QED
      BY <1>4, <1>6, <1>7, <3>4 DEF AttemptLeft
  <2> QED
    BY <1>4, <1>7, <2>1, <2>2, <2>3 DEF RowInv
<1>9. ASSUME NEW u \in Tx, u # t
      PROVE  RowInv(u)'
  <2>1. RowInv(u) /\ SameRow(u) /\ u # NoTx
    BY <1>7, <1>9 DEF TickInv, SameRow, Tx, NoTx
  <2>2. \A e \in Drains :
           /\ drain'[e].tx = u => drain[e].tx = u /\ drain'[e].seen[u] = drain[e].seen[u]
           /\ drain[e].tx = u => drain'[e].tx = u
           /\ u \in drain'[e].todo => /\ row[u].delivery = "Pending" /\ drain[e].tx # u
                                      /\ row[u].attempts = drain'[e].seen[u]
    BY <1>2, <1>3, <1>6, <1>9, <2>1 DEF RowInv, DrainHolds
  <2> QED
    BY <1>2, <2>1, <2>2, DrainKeeps
<1> QED
  BY <1>8, <1>9 DEF TickInv

\* What an answer makes of the row in flight.
LEMMA Recorded ==
  ASSUME TypeOK, NEW d \in Drains,
         RecordAccepted(d) \/ RecordRefused(d) \/ RecordRetryable(d)
  PROVE  \E t \in Tx :
           /\ t = drain[d].tx /\ UNCHANGED <<next, sweep, request, provider, lost, cuts, repushes>>
           /\ drain'[d].tx = NoTx /\ drain'[d].todo = drain[d].todo
           /\ \A u \in Tx \ {t} : drain'[d].seen[u] = drain[d].seen[u] /\ row'[u] = row[u]
           /\ \A e \in Drains \ {d} : drain'[e] = drain[e]
           /\ row'[t].event = row[t].event /\ row'[t].attempts = row[t].attempts
           /\ row'[t].job = row[t].job /\ row'[t].day = row[t].day
           /\ row'[t].by = row[t].by /\ row'[t].recoverable = row[t].recoverable
           /\ \/ row'[t].delivery = "Accepted" /\ provider[t] # "unknown"
              \/ row'[t].delivery = "Abandoned"
              \/ row'[t].delivery = row[t].delivery /\ drain[d].seen[t] + 1 < MaxAttempts
<1> DEFINE t == drain[d].tx
<1> drain \in [Drains -> DrainState] /\ row \in [Tx -> Row]
  BY DEF TypeOK
<1>1. t \in Tx /\ Finished(d)
  BY FinishedType DEF RecordAccepted, RecordRefused, RecordRetryable
<1>2. UNCHANGED <<next, sweep, request, provider, lost, cuts, repushes>>
  BY DEF RecordAccepted, RecordRefused, RecordRetryable
<1>3. /\ drain'[d].tx = NoTx /\ drain'[d].todo = drain[d].todo
      /\ \A u \in Tx \ {t} : drain'[d].seen[u] = drain[d].seen[u]
      /\ \A e \in Drains \ {d} : drain'[e] = drain[e]
  BY <1>1 DEF Finished, DrainState
<1>4. \/ /\ row' = [row EXCEPT ![t].delivery = "Accepted", ![t].due = TRUE]
         /\ provider[t] # "unknown"
      \/ row' = [row EXCEPT ![t].delivery = "Abandoned", ![t].due = TRUE]
      \/ UNCHANGED row /\ ~ (drain[d].seen[t] + 1 >= MaxAttempts)
  BY DEF RecordAccepted, RecordRefused, RecordRetryable
<1>5. drain[d].seen[t] \in Nat /\ MaxAttempts \in Nat
  BY <1>1, BoundsAssumption DEF DrainState
<1>6. \/ row'[t].delivery = "Accepted" /\ provider[t] # "unknown"
      \/ row'[t].delivery = "Abandoned"
      \/ row'[t].delivery = row[t].delivery /\ drain[d].seen[t] + 1 < MaxAttempts
  BY <1>1, <1>4, <1>5 DEF Row
<1>7. /\ row'[t].event = row[t].event /\ row'[t].attempts = row[t].attempts
      /\ row'[t].job = row[t].job /\ row'[t].day = row[t].day
      /\ row'[t].by = row[t].by /\ row'[t].recoverable = row[t].recoverable
      /\ \A u \in Tx \ {t} : row'[u] = row[u]
  BY <1>1, <1>4 DEF Row
<1> QED
  BY <1>1, <1>2, <1>3, <1>6, <1>7

LEMMA RecordTick ==
  ASSUME SingleTicks, TypeOK, TypeOK', TickInv, NEW d \in Drains,
         RecordAccepted(d) \/ RecordRefused(d) \/ RecordRetryable(d)
  PROVE  TickInv'
<1>1. PICK t \in Tx :
           /\ t = drain[d].tx /\ UNCHANGED <<next, sweep, request, provider, lost, cuts, repushes>>
           /\ drain'[d].tx = NoTx /\ drain'[d].todo = drain[d].todo
           /\ \A u \in Tx \ {t} : drain'[d].seen[u] = drain[d].seen[u] /\ row'[u] = row[u]
           /\ \A e \in Drains \ {d} : drain'[e] = drain[e]
           /\ row'[t].event = row[t].event /\ row'[t].attempts = row[t].attempts
           /\ row'[t].job = row[t].job /\ row'[t].day = row[t].day
           /\ row'[t].by = row[t].by /\ row'[t].recoverable = row[t].recoverable
           /\ \/ row'[t].delivery = "Accepted" /\ provider[t] # "unknown"
              \/ row'[t].delivery = "Abandoned"
              \/ row'[t].delivery = row[t].delivery /\ drain[d].seen[t] + 1 < MaxAttempts
  BY Recorded
<1>2. \A e \in Drains : e = d
  BY DEF SingleTicks
<1>3. RowInv(t)
  BY DEF TickInv
<1>4. /\ row[t].delivery = "Pending" /\ t \notin drain[d].todo
      /\ row[t].attempts = drain[d].seen[t] + 1
  BY <1>1, <1>3 DEF RowInv, DrainHolds
<1>5. \A s \in Sweeps : t \notin sweep[s].batch /\ sweep[s].result[t] = NoStatus
  BY <1>3, <1>4 DEF RowInv, SweepHolds
<1>6. t # NoTx
  BY DEF Tx, NoTx
<1>7. RowInv(t)'
  <2>1. DrainHolds(t)'
    BY <1>1, <1>2, <1>4, <1>6 DEF DrainHolds
  <2>2. SweepHolds(t)'
    BY <1>1, <1>5 DEF SweepHolds
  <2>3. AttemptLeft(t)'
    <3>1. Budget' = Budget /\ Budget \in Nat /\ MaxAttempts <= Budget
          /\ row[t].attempts \in Nat /\ MaxAttempts \in Nat
      BY <1>1, Counters DEF Budget
    <3>2. row[t].attempts <= Budget
      BY <1>3 DEF RowInv, AttemptLeft
    <3>3. row'[t].delivery = "Pending" => row[t].attempts < Budget
      BY <1>1, <1>4, <3>1
    <3>4. row'[t].delivery = "Accepted" =>
            provider[t] # "unknown" /\ \A s \in Sweeps : sweep'[s].result[t] # "NOT_FOUND"
      BY <1>1, <1>4, <1>5 DEF NoStatus
    <3> QED
      BY <1>1, <3>1, <3>2, <3>3, <3>4 DEF AttemptLeft
  <2>4. row'[t].event \in AwaitedStatus
    BY <1>1, <1>3, <1>4 DEF RowInv, Live
  <2> QED
    BY <2>1, <2>2, <2>3, <2>4 DEF RowInv
<1>8. ASSUME NEW u \in Tx, u # t
      PROVE  RowInv(u)'
  <2>1. RowInv(u) /\ SameRow(u) /\ u # NoTx
    BY <1>1, <1>8 DEF TickInv, SameRow, Tx, NoTx
  <2>2. \A e \in Drains :
           /\ drain'[e].tx = u => drain[e].tx = u /\ drain'[e].seen[u] = drain[e].seen[u]
           /\ drain[e].tx = u => drain'[e].tx = u
           /\ u \in drain'[e].todo => /\ row[u].delivery = "Pending" /\ drain[e].tx # u
                                      /\ row[u].attempts = drain'[e].seen[u]
    BY <1>1, <1>2, <1>8, <2>1 DEF RowInv, DrainHolds
  <2> QED
    BY <1>1, <2>1, <2>2, DrainKeeps
<1> QED
  BY <1>7, <1>8 DEF TickInv

LEMMA ReadAwaitingTick ==
  ASSUME SingleTicks, TypeOK, TypeOK', TickInv, IdleSweeps, NEW s \in Sweeps,
         ReadAwaiting(s)
  PROVE  TickInv'
<1> SUFFICES ASSUME NEW u \in Tx
             PROVE  RowInv(u)'
  BY DEF TickInv
<1>1. sweep[s] \in SweepState /\ sweep[s].batch = {}
  BY DEF TypeOK, ReadAwaiting, IdleSweeps
<1>2. /\ sweep'[s].batch = findAwaitingConfirmation
      /\ sweep'[s].result = sweep[s].result
  BY <1>1 DEF ReadAwaiting, TypeOK, SweepState
<1>3. RowInv(u) /\ SameRow(u)
  BY DEF TickInv, SameRow, ReadAwaiting
<1>4. \A r \in Sweeps :
           /\ u \in sweep'[r].batch => row[u].delivery = "Accepted"
           /\ sweep'[r].result[u] # NoStatus => u \in sweep'[r].batch
           /\ sweep'[r].result[u] = "NOT_FOUND" =>
                sweep[r].result[u] = "NOT_FOUND" \/ provider[u] = "unknown"
  <2> TAKE r \in Sweeps
  <2>1. r = s
    BY DEF SingleTicks
  <2> QED
    BY <1>1, <1>2, <1>3, <2>1 DEF RowInv, SweepHolds, findAwaitingConfirmation
<1> QED
  BY <1>3, <1>4, SweepKeeps DEF ReadAwaiting

LEMMA ReconcileTick ==
  ASSUME SingleTicks, TypeOK, TypeOK', TickInv, NEW s \in Sweeps,
         Reconcile(s) \/ ReconcileFailed(s)
  PROVE  TickInv'
<1> SUFFICES ASSUME NEW u \in Tx
             PROVE  RowInv(u)'
  BY DEF TickInv
<1>1. sweep[s] \in SweepState /\ sweep \in [Sweeps -> SweepState]
  BY DEF TypeOK
<1>2. RowInv(u) /\ SameRow(u)
  BY DEF TickInv, SameRow, Reconcile, ReconcileFailed
<1>3. UNCHANGED <<drain, provider, lost, cuts>>
  BY DEF Reconcile, ReconcileFailed
<1>4. /\ u \in sweep'[s].batch => row[u].delivery = "Accepted"
      /\ sweep'[s].result[u] # NoStatus => u \in sweep'[s].batch
      /\ sweep'[s].result[u] = "NOT_FOUND" => provider[u] = "unknown"
  <2>1. CASE Reconcile(s)
    <3>1. /\ sweep'[s].batch = sweep[s].batch
          /\ sweep'[s].result = answers(sweep[s].batch)
      BY <1>1, <2>1 DEF Reconcile, SweepState
    <3>2. StatusOf(u) = "NOT_FOUND" => provider[u] = "unknown"
      BY DEF StatusOf
    <3> QED
      BY <1>2, <3>1, <3>2 DEF RowInv, SweepHolds, answers, NoStatus
  <2>2. CASE ReconcileFailed(s)
    BY <1>1, <2>2 DEF ReconcileFailed, Asleep, NoStatus
  <2> QED
    BY <2>1, <2>2
<1>5. \A r \in Sweeps : r = s
  BY DEF SingleTicks
<1> QED
  BY <1>2, <1>3, <1>4, <1>5, SweepKeeps

\* The row a sweep has an answer for, which no drain can hold, and the others.
LEMMA AppliedTick ==
  ASSUME TypeOK, TypeOK', TickInv, SingleTicks,
         NEW s \in Sweeps, NEW t \in sweep[s].batch, t \in Tx,
         UNCHANGED <<drain, provider, lost, cuts>>,
         sweep'[s].batch = sweep[s].batch \ {t},
         sweep'[s].result = [sweep[s].result EXCEPT ![t] = NoStatus],
         \A u \in Tx \ {t} : row'[u] = row[u],
         row'[t].attempts = row[t].attempts,
         \/ row'[t].delivery = "Accepted" /\ row'[t].event = "RECEIVED"
         \/ /\ row'[t].delivery = "Pending" /\ row'[t].event = "NOT_FOUND"
            /\ sweep[s].result[t] = "NOT_FOUND"
         \/ row'[t].delivery \in Terminal
  PROVE  TickInv'
<1>1. \A r \in Sweeps : r = s
  BY DEF SingleTicks
<1>2. sweep[s].result \in [Tx -> EventStatus]
  BY DEF TypeOK, SweepState
<1>3. RowInv(t) /\ row[t].delivery = "Accepted"
  BY DEF TickInv, RowInv, SweepHolds
<1>4. \A d \in Drains : drain[d].tx # t /\ t \notin drain[d].todo
  BY <1>3 DEF RowInv, DrainHolds
<1>5. RowInv(t)'
  <2>1. DrainHolds(t)'
    BY <1>4 DEF DrainHolds
  <2>2. SweepHolds(t)'
    BY <1>1, <1>2 DEF SweepHolds
  <2>3. AttemptLeft(t)'
    <3>1. Budget' = Budget /\ row[t].attempts <= Budget
      BY <1>3 DEF Budget, RowInv, AttemptLeft
    <3>2. row'[t].delivery = "Pending" => row[t].attempts < Budget
      BY <1>3 DEF RowInv, AttemptLeft, Terminal
    <3>3. row'[t].delivery = "Accepted" /\ provider[t] = "unknown"
            => row[t].attempts < Budget
      BY <1>3 DEF RowInv, AttemptLeft
    <3>4. \A r \in Sweeps : sweep'[r].result[t] # "NOT_FOUND"
      BY <1>1, <1>2 DEF NoStatus
    <3> QED
      BY <3>1, <3>2, <3>3, <3>4 DEF AttemptLeft
  <2>4. row'[t].delivery \in Live => row'[t].event \in AwaitedStatus
    BY DEF Live, Terminal, AwaitedStatus
  <2> QED
    BY <2>1, <2>2, <2>3, <2>4 DEF RowInv
<1>6. ASSUME NEW u \in Tx, u # t
      PROVE  RowInv(u)'
  <2>1. RowInv(u) /\ SameRow(u)
    BY <1>6 DEF TickInv, SameRow
  <2>2. /\ u \in sweep'[s].batch => row[u].delivery = "Accepted"
        /\ sweep'[s].result[u] = sweep[s].result[u]
        /\ sweep'[s].result[u] # NoStatus => u \in sweep'[s].batch
    BY <1>2, <1>6, <2>1 DEF RowInv, SweepHolds
  <2> QED
    BY <1>1, <2>1, <2>2, SweepKeeps
<1> QED
  BY <1>5, <1>6 DEF TickInv

\* What the sweep's work on one row makes of that row.
Outcome(s, t) ==
  \/ /\ row'[t].delivery = row[t].delivery /\ row'[t].event = "RECEIVED"
     /\ row'[t].recoverable = row[t].recoverable
  \/ /\ row'[t].delivery = "Pending" /\ row'[t].event = "NOT_FOUND"
     /\ sweep[s].result[t] = "NOT_FOUND"
  \/ row'[t].delivery = "Processed" /\ sweep[s].result[t] = "PROCESSED"
  \/ /\ row'[t].delivery = "Failed" /\ sweep[s].result[t] = "FAILED"
     /\ row'[t].recoverable /\ row[t].job # NoJob /\ row[t].day = today
          => sweep'[s].pc = "check" /\ sweep'[s].tx = t

RestKept(t) ==
  /\ \A u \in Tx \ {t} : row'[u] = row[u]
  /\ row'[t].attempts = row[t].attempts /\ row'[t].job = row[t].job
  /\ row'[t].day = row[t].day /\ row'[t].by = row[t].by

LEMMA Applied ==
  ASSUME TypeOK, NEW s \in Sweeps, Apply(s)
  PROVE  \E t \in Tx :
           /\ t \in sweep[s].batch
           /\ UNCHANGED <<next, today, drain, request, wire, provider, booking,
                          lost, cuts, repushes>>
           /\ sweep'[s].batch = sweep[s].batch \ {t}
           /\ sweep'[s].result = [sweep[s].result EXCEPT ![t] = NoStatus]
           /\ \A r \in Sweeps \ {s} : sweep'[r] = sweep[r]
           /\ sweep'[s].pc = "idle" => sweep[s].batch \subseteq {t}
           /\ sweep'[s].pc # "insert"
           /\ sweep'[s].pc = "check" => sweep'[s].tx = t /\ row[t].job # NoJob
           /\ RestKept(t) /\ Outcome(s, t)
<1>1. PICK t \in Tx : \/ ApplyInFlight(s, t)
                      \/ ApplyProcessed(s, t)
                      \/ ApplyNotFound(s, t)
                      \/ \E probed \in BOOLEAN : ApplyFailed(s, t, probed)
  BY DEF Apply
<1> row \in [Tx -> Row] /\ sweep \in [Sweeps -> SweepState]
  BY DEF TypeOK
<1>2. /\ t \in sweep[s].batch
      /\ UNCHANGED <<next, today, drain, request, wire, provider, booking,
                     lost, cuts, repushes>>
  BY <1>1 DEF ApplyInFlight, ApplyProcessed, ApplyNotFound, ApplyFailed, Answered
<1>3. \/ sweep' = [sweep EXCEPT ![s] = Without(s, t)]
      \/ /\ sweep' = [sweep EXCEPT ![s] = [Without(s, t) EXCEPT !.pc = "check", !.tx = t]]
         /\ row[t].job # NoJob
  BY <1>1 DEF ApplyInFlight, ApplyProcessed, ApplyNotFound, ApplyFailed
<1>4. /\ sweep'[s].batch = sweep[s].batch \ {t}
      /\ sweep'[s].result = [sweep[s].result EXCEPT ![t] = NoStatus]
      /\ \A r \in Sweeps \ {s} : sweep'[r] = sweep[r]
      /\ sweep'[s].pc = "idle" => sweep[s].batch \subseteq {t}
      /\ sweep'[s].pc # "insert"
      /\ sweep'[s].pc = "check" => sweep'[s].tx = t /\ row[t].job # NoJob
  <2> DEFINE w == Without(s, t)
             c == [w EXCEPT !.pc = "check", !.tx = t]
  <2>1. /\ w.batch = sweep[s].batch \ {t}
        /\ w.result = [sweep[s].result EXCEPT ![t] = NoStatus]
        /\ w.pc = "idle" \/ w.pc = "applying"
        /\ w.pc = "idle" => sweep[s].batch \subseteq {t}
    BY DEF Without
  <2>2. c.batch = w.batch /\ c.result = w.result /\ c.pc = "check" /\ c.tx = t
    BY DEF Without
  <2>3. \/ sweep' = [sweep EXCEPT ![s] = w]
        \/ sweep' = [sweep EXCEPT ![s] = c] /\ row[t].job # NoJob
    BY <1>3
  <2> HIDE DEF w, c
  <2>4. \/ sweep'[s] = w
        \/ sweep'[s] = c /\ row[t].job # NoJob
    BY <2>3
  <2>5. \A r \in Sweeps \ {s} : sweep'[r] = sweep[r]
    BY <2>3
  <2>6. CASE sweep'[s] = w
    BY <2>1, <2>5, <2>6
  <2>7. CASE sweep'[s] = c /\ row[t].job # NoJob
    BY <2>1, <2>2, <2>5, <2>7
  <2> QED
    BY <2>4, <2>6, <2>7
<1>5. RestKept(t) /\ Outcome(s, t)
  <2>1. CASE ApplyInFlight(s, t)
    BY <2>1 DEF ApplyInFlight, Row, RestKept, Outcome
  <2>2. CASE ApplyProcessed(s, t)
    BY <2>2 DEF ApplyProcessed, Answered, Row, RestKept, Outcome
  <2>3. CASE ApplyNotFound(s, t)
    BY <2>3 DEF ApplyNotFound, Answered, Row, RestKept, Outcome
  <2>4. ASSUME NEW probed \in BOOLEAN, ApplyFailed(s, t, probed)
        PROVE  RestKept(t) /\ Outcome(s, t)
    <3> DEFINE recoverable == probed /\ provider[t] = "notCheckedIn"
    <3>1. /\ row' = [row EXCEPT ![t] = [@ EXCEPT !.delivery = "Failed",
                      !.event = "FAILED", !.recoverable = recoverable]]
          /\ sweep[s].result[t] = "FAILED"
      BY <2>4 DEF ApplyFailed, Answered
    <3>2. ASSUME recoverable, row[t].job # NoJob, row[t].day = today
          PROVE  sweep'[s].pc = "check" /\ sweep'[s].tx = t
      <4>1. sweep' = [sweep EXCEPT ![s] = [Without(s, t) EXCEPT !.pc = "check", !.tx = t]]
        BY <2>4, <3>2 DEF ApplyFailed
      <4> QED
        BY <4>1 DEF Without
    <3> HIDE DEF recoverable
    <3>3. RestKept(t) /\ row'[t].delivery = "Failed" /\ row'[t].recoverable = recoverable
      BY <3>1 DEF Row, RestKept
    <3> QED
      BY <3>1, <3>2, <3>3 DEF Outcome
  <2> QED
    BY <1>1, <2>1, <2>2, <2>3, <2>4
<1> QED
  BY <1>2, <1>4, <1>5

\* Moving on from a row leaves what the sweep holds as it is.
LEMMA Resumed ==
  ASSUME TypeOK, NEW s \in Sweeps, CheckLive(s) \/ SaveSuccessor(s)
  PROVE  /\ sweep'[s].batch = sweep[s].batch /\ sweep'[s].result = sweep[s].result
         /\ sweep'[s].pc = "idle" => sweep[s].batch = {}
         /\ \A r \in Sweeps \ {s} : sweep'[r] = sweep[r]
         /\ UNCHANGED <<today, drain, request, wire, provider, booking, lost, cuts,
                        repushes>>
<1>1. sweep \in [Sweeps -> SweepState] /\ sweep[s] \in SweepState
  BY DEF TypeOK
<1> DEFINE i == [sweep[s] EXCEPT !.pc = "insert"]
<1>2. \/ sweep' = [sweep EXCEPT ![s] = Resume(s)]
      \/ sweep' = [sweep EXCEPT ![s] = i]
  BY DEF CheckLive, SaveSuccessor
<1>3. /\ i.batch = sweep[s].batch /\ i.result = sweep[s].result /\ i.pc = "insert"
      /\ Resume(s).batch = sweep[s].batch /\ Resume(s).result = sweep[s].result
      /\ Resume(s).pc = "idle" => sweep[s].batch = {}
  BY <1>1 DEF Resume, SweepState
<1> HIDE DEF i
<1>4. \/ sweep'[s] = Resume(s)
      \/ sweep'[s] = i
  BY <1>1, <1>2
<1>5. \A r \in Sweeps \ {s} : sweep'[r] = sweep[r]
  BY <1>1, <1>2
<1>6. UNCHANGED <<today, drain, request, wire, provider, booking, lost, cuts, repushes>>
  BY DEF CheckLive, SaveSuccessor
<1> QED
  BY <1>3, <1>4, <1>5, <1>6

LEMMA IdleSweepsStep ==
  ASSUME TypeOK, IdleSweeps, [Next]_vars
  PROVE  IdleSweeps'
<1> sweep \in [Sweeps -> SweepState]
  BY DEF TypeOK
<1>1. ASSUME NEW s \in Sweeps, Sweep(s)
      PROVE  IdleSweeps'
  <2>1. ASSUME \A r \in Sweeps \ {s} : sweep'[r] = sweep[r],
               sweep'[s].pc = "idle" => sweep'[s].batch = {}
        PROVE  IdleSweeps'
    BY <2>1 DEF IdleSweeps
  <2>2. CASE ReadAwaiting(s) \/ Reconcile(s) \/ ReconcileFailed(s)
    <3>1. sweep[s] \in SweepState
      OBVIOUS
    <3>2. \A r \in Sweeps \ {s} : sweep'[r] = sweep[r]
      BY <2>2 DEF ReadAwaiting, Reconcile, ReconcileFailed
    <3>3. sweep'[s].pc = "idle" => sweep'[s].batch = {}
      <4>1. CASE ReadAwaiting(s)
        BY <3>1, <4>1 DEF ReadAwaiting, SweepState
      <4>2. CASE Reconcile(s)
        BY <3>1, <4>2 DEF Reconcile, SweepState
      <4>3. CASE ReconcileFailed(s)
        BY <3>1, <4>3 DEF ReconcileFailed, Asleep
      <4> QED
        BY <2>2, <4>1, <4>2, <4>3
    <3> QED
      BY <2>1, <3>2, <3>3
  <2>3. CASE Apply(s)
    BY <2>1, <2>3, Applied
  <2>4. CASE CheckLive(s) \/ SaveSuccessor(s)
    BY <2>1, <2>4, Resumed
  <2> QED
    BY <1>1, <2>2, <2>3, <2>4 DEF Sweep
<1>2. CASE Interrupt
  BY <1>2 DEF Interrupt, IdleSweeps, Asleep
<1>3. CASE UNCHANGED sweep
  BY <1>3 DEF IdleSweeps
<1>4. (\E s \in Sweeps : Sweep(s)) \/ Interrupt \/ UNCHANGED sweep
  BY DEF Next, vars, Drain, ReadDue, ClaimForSend, RecordAccepted, RecordRefused,
         RecordRetryable, Request, EnqueueResult, PushNow, SaveRow, EnqueueLane,
         Repush, Provider, Arrive, Decide, Forget, CheckIn, BackoffElapses, NewDay
<1> QED
  BY <1>1, <1>2, <1>3, <1>4

LEMMA SweepTick ==
  ASSUME SingleTicks, TypeOK, TypeOK', WriteAheadInv, IdleSweeps, TickInv,
         NEW s \in Sweeps, Sweep(s)
  PROVE  TickInv'
<1>1. CASE ReadAwaiting(s)
  BY <1>1, ReadAwaitingTick
<1>2. CASE Reconcile(s) \/ ReconcileFailed(s)
  BY <1>2, ReconcileTick
<1>3. CASE Apply(s)
  <2>1. PICK t \in Tx :
           /\ t \in sweep[s].batch
           /\ UNCHANGED <<next, today, drain, request, wire, provider, booking,
                          lost, cuts, repushes>>
           /\ sweep'[s].batch = sweep[s].batch \ {t}
           /\ sweep'[s].result = [sweep[s].result EXCEPT ![t] = NoStatus]
           /\ RestKept(t) /\ Outcome(s, t)
    BY <1>3, Applied
  <2>2. row[t].delivery = "Accepted"
    BY <2>1 DEF TickInv, RowInv, SweepHolds
  <2>3. /\ \A u \in Tx \ {t} : row'[u] = row[u]
        /\ row'[t].attempts = row[t].attempts
    BY <2>1 DEF RestKept
  <2>4. \/ row'[t].delivery = "Accepted" /\ row'[t].event = "RECEIVED"
        \/ /\ row'[t].delivery = "Pending" /\ row'[t].event = "NOT_FOUND"
           /\ sweep[s].result[t] = "NOT_FOUND"
        \/ row'[t].delivery \in Terminal
    BY <2>1, <2>2 DEF Outcome, Terminal
  <2> QED
    BY <2>1, <2>3, <2>4, AppliedTick
<1>4. CASE CheckLive(s)
  <2>1. \A r \in Sweeps : /\ sweep'[r].batch = sweep[r].batch
                          /\ sweep'[r].result = sweep[r].result
    BY <1>4, Resumed
  <2>2. UNCHANGED <<row, drain, provider, lost, cuts>>
    BY <1>4 DEF CheckLive
  <2> SUFFICES ASSUME NEW u \in Tx
               PROVE  RowInv(u)'
    BY DEF TickInv
  <2>3. RowInv(u) /\ SameRow(u)
    BY <2>2 DEF TickInv, SameRow
  <2>4. \A r \in Sweeps :
           /\ u \in sweep'[r].batch => row[u].delivery = "Accepted"
           /\ sweep'[r].result[u] # NoStatus => u \in sweep'[r].batch
           /\ sweep'[r].result[u] = "NOT_FOUND" =>
                sweep[r].result[u] = "NOT_FOUND" \/ provider[u] = "unknown"
    BY <2>1, <2>3 DEF RowInv, SweepHolds
  <2> QED
    BY <2>2, <2>3, <2>4, SweepKeeps
<1>5. CASE SaveSuccessor(s)
  <2>1. \A r \in Sweeps : /\ sweep'[r].batch = sweep[r].batch
                          /\ sweep'[r].result = sweep[r].result
    BY <1>5, Resumed
  <2> QED
    BY <1>5, <2>1, InsertTick DEF SaveSuccessor
<1> QED
  BY <1>1, <1>2, <1>3, <1>4, <1>5 DEF Sweep

LEMMA RequestTick ==
  ASSUME TypeOK, TypeOK', WriteAheadInv, TickInv, NEW q \in Requests, Request(q)
  PROVE  TickInv'
<1>1. ASSUME NEW j \in Jobs, EnqueueResult(q, j) \/ PushNow(q, j)
      PROVE  TickInv'
  <2> SUFFICES ASSUME NEW u \in Tx
               PROVE  RowInv(u)'
    BY DEF TickInv
  <2>1. UNCHANGED <<row, drain, sweep, provider, lost, cuts>>
    BY <1>1 DEF EnqueueResult, PushNow
  <2>2. RowInv(u)
    BY DEF TickInv
  <2> QED
    BY <2>1, <2>2 DEF RowInv, DrainHolds, SweepHolds, AttemptLeft, Budget
<1>2. CASE SaveRow(q)
  BY <1>2, InsertTick DEF SaveRow
<1>3. CASE EnqueueLane(q)
  BY <1>3, InsertTick DEF EnqueueLane
<1>4. ASSUME NEW t \in Tx, Repush(q, t)
      PROVE  TickInv'
  BY <1>4, InsertTick DEF Repush
<1> QED
  BY <1>1, <1>2, <1>3, <1>4 DEF Request

LEMMA ProviderTick ==
  ASSUME TypeOK, TypeOK', TickInv, Provider
  PROVE  TickInv'
<1> SUFFICES ASSUME NEW u \in Tx
             PROVE  RowInv(u)'
  BY DEF TickInv
<1>1. UNCHANGED <<row, drain, sweep, cuts>>
  BY DEF Provider, Arrive, Decide, Forget, CheckIn
<1>2. RowInv(u) /\ SameRow(u)
  BY <1>1 DEF TickInv, SameRow
<1>3. lost \in Nat /\ cuts \in Nat
  BY DEF TypeOK
<1>4. lost' = lost \/ lost' = lost + 1
  BY DEF Provider, Arrive, Decide, Forget, CheckIn
<1>5. provider'[u] = "unknown" => provider[u] = "unknown" \/ lost' = lost + 1
  BY DEF Provider, Arrive, Decide, Forget, CheckIn, TypeOK
<1>6. \A d \in Drains :
           /\ drain'[d].tx = u => drain[d].tx = u /\ drain'[d].seen[u] = drain[d].seen[u]
           /\ drain[d].tx = u => drain'[d].tx = u \/ cuts' = cuts + 1
           /\ u \in drain'[d].todo => /\ row[u].delivery = "Pending" /\ drain[d].tx # u
                                      /\ row[u].attempts = drain'[d].seen[u]
  BY <1>1, <1>2 DEF RowInv, DrainHolds
<1>7. \A s \in Sweeps :
           /\ u \in sweep'[s].batch => row[u].delivery = "Accepted"
           /\ sweep'[s].result[u] # NoStatus => u \in sweep'[s].batch
           /\ sweep'[s].result[u] = "NOT_FOUND" =>
                sweep[s].result[u] = "NOT_FOUND" \/ provider[u] = "unknown"
  BY <1>1, <1>2 DEF RowInv, SweepHolds
<1>8. lost <= lost' /\ cuts <= cuts'
  BY <1>1, <1>3, <1>4
<1> QED
  BY <1>2, <1>5, <1>6, <1>7, <1>8, RowKept

LEMMA ElseTick ==
  ASSUME TypeOK, TypeOK', TickInv,
         (\E t \in Tx : BackoffElapses(t)) \/ NewDay \/ Interrupt \/ UNCHANGED vars
  PROVE  TickInv'
<1> SUFFICES ASSUME NEW u \in Tx
             PROVE  RowInv(u)'
  BY DEF TickInv
<1>1. RowInv(u)
  BY DEF TickInv
<1>2. SameRow(u)
  BY DEF BackoffElapses, NewDay, Interrupt, vars, SameRow, TypeOK, Row
<1>3. UNCHANGED <<provider, lost>>
  BY DEF BackoffElapses, NewDay, Interrupt, vars
<1>4. lost \in Nat /\ cuts \in Nat /\ (cuts' = cuts \/ cuts' = cuts + 1)
  BY DEF BackoffElapses, NewDay, Interrupt, vars, TypeOK
<1>5. \A d \in Drains : drain'[d] = drain[d] \/ (drain'[d] = Resting /\ cuts' = cuts + 1)
  BY DEF BackoffElapses, NewDay, Interrupt, vars, TypeOK
<1>6. \A s \in Sweeps : sweep'[s] = sweep[s] \/ sweep'[s] = Asleep
  BY DEF BackoffElapses, NewDay, Interrupt, vars, TypeOK
<1>7. u # NoTx
  BY DEF Tx, NoTx
<1>8. \A d \in Drains :
           /\ drain'[d].tx = u => drain[d].tx = u /\ drain'[d].seen[u] = drain[d].seen[u]
           /\ drain[d].tx = u => drain'[d].tx = u \/ cuts' = cuts + 1
           /\ u \in drain'[d].todo => /\ row[u].delivery = "Pending" /\ drain[d].tx # u
                                      /\ row[u].attempts = drain'[d].seen[u]
  BY <1>1, <1>5, <1>7 DEF RowInv, DrainHolds, Resting
<1>9. \A s \in Sweeps :
           /\ u \in sweep'[s].batch => row[u].delivery = "Accepted"
           /\ sweep'[s].result[u] # NoStatus => u \in sweep'[s].batch
           /\ sweep'[s].result[u] = "NOT_FOUND" =>
                sweep[s].result[u] = "NOT_FOUND" \/ provider[u] = "unknown"
  BY <1>1, <1>6 DEF RowInv, SweepHolds, Asleep, NoStatus
<1>10. lost <= lost' /\ cuts <= cuts'
  BY <1>3, <1>4
<1> QED
  BY <1>1, <1>2, <1>3, <1>8, <1>9, <1>10, RowKept

LEMMA DrainTick ==
  ASSUME SingleTicks, TypeOK, TypeOK', TickInv, NEW d \in Drains, Drain(d)
  PROVE  TickInv'
BY ReadDueTick, ClaimTick, RecordTick DEF Drain

LEMMA TickStep ==
  ASSUME SingleTicks, TypeOK, TypeOK', WriteAheadInv, IdleSweeps, TickInv, [Next]_vars
  PROVE  TickInv'
BY DrainTick, SweepTick, RequestTick, ProviderTick, ElseTick DEF Next

LEMMA TickInit == Init => IdleSweeps /\ TickInv
<1> SUFFICES ASSUME Init
             PROVE  IdleSweeps /\ TickInv
  OBVIOUS
<1>1. IdleSweeps
  BY DEF Init, IdleSweeps, Asleep
<1>2. ASSUME NEW t \in Tx
      PROVE  RowInv(t)
  <2>1. row[t].delivery = "None" /\ row[t].attempts = 0
    BY DEF Init, NoRow
  <2>2. 0 \in Nat /\ 0 <= Budget
    BY BoundsAssumption DEF Init, Budget
  <2>3. DrainHolds(t)
    BY DEF Init, DrainHolds, Resting, Tx, NoTx
  <2>4. SweepHolds(t)
    BY DEF Init, SweepHolds, Asleep, NoStatus
  <2> QED
    BY <2>1, <2>2, <2>3, <2>4 DEF RowInv, AttemptLeft, Live
<1> QED
  BY <1>1, <1>2 DEF TickInv

\* With one drain and one sweep at a time, nothing a tick holds changes under
\* its hands and every row that may be sent again has an attempt left.
LEMMA TickHolds ==
  ASSUME SingleTicks
  PROVE  Spec => [](TypeOK /\ WriteAheadInv /\ IdleSweeps /\ TickInv)
<1>1. Init => TypeOK /\ RetryHasTx /\ WriteAheadInv /\ IdleSweeps /\ TickInv
  BY WriteAheadInit, TickInit
<1>2. TypeOK /\ RetryHasTx /\ WriteAheadInv /\ IdleSweeps /\ TickInv /\ [Next]_vars
        => (TypeOK /\ RetryHasTx /\ WriteAheadInv /\ IdleSweeps /\ TickInv)'
  BY WriteAheadStep, IdleSweepsStep, TickStep
<1> QED
  BY <1>1, <1>2, PTL DEF Spec

\* A row that awaits the provider's verdict is one confirm() still asks
\* about, as long as ticks of one kind do not overlap.
THEOREM AwaitedUntilTerminalHolds ==
  ASSUME SingleTicks
  PROVE  Spec => []AwaitedUntilTerminal
<1>1. TickInv => AwaitedUntilTerminal
  BY DEF TickInv, RowInv, AwaitedUntilTerminal, Live
<1> QED
  BY <1>1, TickHolds, PTL

\* MAX_ATTEMPTS bounds the sends of a row, but for one more for every event
\* the provider forgot and every drain that was cut short, as long as ticks
\* of one kind do not overlap.
THEOREM AttemptBudgetHolds ==
  ASSUME SingleTicks
  PROVE  Spec => []AttemptBudget
<1>1. TickInv => AttemptBudget
  BY DEF TickInv, RowInv, AttemptLeft, AttemptBudget, Budget
<1> QED
  BY <1>1, TickHolds, PTL

-----------------------------------------------------------------------------
(* What any step makes of a row.                                           *)

\* A row once written keeps its job, its day and its author; a row is born
\* Pending, on the day of the insert.
Framed == \A t \in Tx : Raised(t) =>
  /\ Raised(t)'
  /\ row'[t].job = row[t].job /\ row'[t].day = row[t].day /\ row'[t].by = row[t].by

Born == \A t \in Tx : ~ Raised(t) /\ Raised(t)' =>
  row'[t].delivery = "Pending" /\ row'[t].day = today

LEMMA SameFramed ==
  ASSUME TypeOK,
         \A t \in Tx : /\ row'[t].delivery = row[t].delivery /\ row'[t].job = row[t].job
                       /\ row'[t].day = row[t].day /\ row'[t].by = row[t].by
  PROVE  Framed /\ Born
BY DEF Framed, Born, Raised

LEMMA InsertFramed ==
  ASSUME TypeOK, WriteAheadInv, NEW j, NEW b, NEW a, Insert(j, b, a)
  PROVE  Framed /\ Born
<1>1. next > MaxTx \/ next <= MaxTx
  BY BoundsAssumption DEF TypeOK
<1>2. CASE next > MaxTx
  BY <1>2, SameFramed DEF Insert
<1>3. CASE next <= MaxTx
  <2>1. /\ next \in Tx /\ ~ Raised(next)
        /\ row'[next] = [job |-> j, day |-> today, by |-> a, delivery |-> "Pending",
                         event |-> NoStatus, attempts |-> 0, due |-> b,
                         recoverable |-> FALSE]
        /\ \A u \in Tx \ {next} : row'[u] = row[u]
    BY <1>3, Inserted
  <2>2. PICK n \in Tx : n = next
    BY <2>1
  <2>3. /\ ~ Raised(n) /\ row'[n].delivery = "Pending" /\ row'[n].day = today
        /\ \A u \in Tx \ {n} : row'[u] = row[u]
    BY <2>1, <2>2
  <2> QED
    BY <2>3 DEF Framed, Born, Raised
<1> QED
  BY <1>1, <1>2, <1>3

LEMMA DrainFramed ==
  ASSUME TypeOK, WriteAheadInv, NEW d \in Drains, Drain(d)
  PROVE  Framed /\ Born
<1> row \in [Tx -> Row]
  BY DEF TypeOK
<1>1. CASE ReadDue(d)
  BY <1>1, SameFramed DEF ReadDue
<1>2. CASE ClaimForSend(d)
  <2>1. PICK t \in drain[d].todo : Claimed(t) \/ UNCHANGED row
    BY <1>2 DEF ClaimForSend
  <2>2. \A u \in Tx : /\ row'[u].delivery = row[u].delivery /\ row'[u].job = row[u].job
                      /\ row'[u].day = row[u].day /\ row'[u].by = row[u].by
    BY <2>1 DEF Claimed, Row
  <2> QED
    BY <2>2, SameFramed
<1>3. CASE RecordAccepted(d) \/ RecordRefused(d) \/ RecordRetryable(d)
  <2>1. PICK t \in Tx :
           /\ t = drain[d].tx
           /\ \A u \in Tx \ {t} : drain'[d].seen[u] = drain[d].seen[u] /\ row'[u] = row[u]
           /\ row'[t].job = row[t].job /\ row'[t].day = row[t].day
           /\ row'[t].by = row[t].by
           /\ \/ row'[t].delivery = "Accepted" /\ provider[t] # "unknown"
              \/ row'[t].delivery = "Abandoned"
              \/ row'[t].delivery = row[t].delivery /\ drain[d].seen[t] + 1 < MaxAttempts
    BY <1>3, Recorded
  <2>2. Raised(t)
    BY <2>1 DEF WriteAheadInv, Tx, NoTx
  <2>3. row'[t].delivery # "None"
    BY <2>1, <2>2 DEF Raised
  <2> QED
    BY <2>1, <2>2, <2>3 DEF Framed, Born, Raised
<1> QED
  BY <1>1, <1>2, <1>3 DEF Drain

LEMMA SweepFramed ==
  ASSUME TypeOK, WriteAheadInv, NEW s \in Sweeps, Sweep(s)
  PROVE  Framed /\ Born
<1>1. CASE ReadAwaiting(s) \/ Reconcile(s) \/ ReconcileFailed(s) \/ CheckLive(s)
  BY <1>1, SameFramed DEF ReadAwaiting, Reconcile, ReconcileFailed, CheckLive
<1>2. CASE Apply(s)
  <2>1. PICK t \in Tx : t \in sweep[s].batch /\ RestKept(t) /\ Outcome(s, t)
    BY <1>2, Applied
  <2>2. Raised(t)
    BY <2>1 DEF WriteAheadInv
  <2>3. row'[t].delivery # "None"
    BY <2>1, <2>2 DEF Outcome, Raised
  <2> QED
    BY <2>1, <2>2, <2>3 DEF RestKept, Framed, Born, Raised
<1>3. CASE SaveSuccessor(s)
  BY <1>3, InsertFramed DEF SaveSuccessor
<1> QED
  BY <1>1, <1>2, <1>3 DEF Sweep

LEMMA RowsFramed ==
  ASSUME TypeOK, WriteAheadInv, [Next]_vars
  PROVE  Framed /\ Born
<1>1. ASSUME NEW q \in Requests, Request(q)
      PROVE  Framed /\ Born
  <2>1. UNCHANGED row \/ \E j, b, a : Insert(j, b, a)
    BY <1>1 DEF Request, EnqueueResult, PushNow, SaveRow, EnqueueLane, Repush
  <2> QED
    BY <2>1, SameFramed, InsertFramed
<1>2. CASE Provider \/ NewDay \/ Interrupt \/ UNCHANGED vars
  <2>1. UNCHANGED row
    BY <1>2 DEF Provider, Arrive, Decide, Forget, CheckIn, NewDay, Interrupt, vars
  <2> QED
    BY <2>1, SameFramed
<1>3. ASSUME NEW t \in Tx, BackoffElapses(t)
      PROVE  Framed /\ Born
  <2>1. \A u \in Tx : /\ row'[u].delivery = row[u].delivery /\ row'[u].job = row[u].job
                      /\ row'[u].day = row[u].day /\ row'[u].by = row[u].by
    BY <1>3 DEF BackoffElapses, TypeOK, Row
  <2> QED
    BY <2>1, SameFramed
<1> QED
  BY <1>1, <1>2, <1>3, DrainFramed, SweepFramed DEF Next

-----------------------------------------------------------------------------
(* RejectionCovered, for any number of overlapping ticks. The sweep that   *)
(* closes a row and the sweep that finds a live one need not be the same;  *)
(* what carries the argument is that a retry is given up only where a live *)
(* row, a new row or a stop is the reason.                                 *)

Retrying(s) == sweep[s].pc \in {"check", "insert"}

CoverInv ==
  /\ \A s \in Sweeps : Retrying(s) => sweep[s].tx \in Tx /\ Raised(sweep[s].tx)
  /\ \A t \in Tx : Raised(t) => row[t].day <= today
  /\ RejectionCovered

\* The steps that leave every row's status alone.
LEMMA QuietSteps ==
  ASSUME TypeOK, [Next]_vars
  PROVE  \/ \E d \in Drains : RecordAccepted(d) \/ RecordRefused(d) \/ RecordRetryable(d)
         \/ \E s \in Sweeps : Apply(s)
         \/ \E q \in Requests : SaveRow(q) \/ EnqueueLane(q) \/ \E t \in Tx : Repush(q, t)
         \/ \E s \in Sweeps : SaveSuccessor(s)
         \/ \A t \in Tx : /\ row'[t].delivery = row[t].delivery
                          /\ row'[t].recoverable = row[t].recoverable
<1> row \in [Tx -> Row] /\ drain \in [Drains -> DrainState]
  BY DEF TypeOK
<1> DEFINE Quiet == \A t \in Tx : /\ row'[t].delivery = row[t].delivery
                                  /\ row'[t].recoverable = row[t].recoverable
<1>1. ASSUME NEW d \in Drains, ReadDue(d) \/ ClaimForSend(d)
      PROVE  Quiet
  <2>1. UNCHANGED row \/ \E t \in Tx : Claimed(t)
    BY <1>1 DEF ReadDue, ClaimForSend, DrainState
  <2>2. CASE UNCHANGED row
    BY <2>2
  <2>3. ASSUME NEW t \in Tx, Claimed(t), NEW u \in Tx
        PROVE  /\ row'[u].delivery = row[u].delivery
               /\ row'[u].recoverable = row[u].recoverable
    <3> DEFINE n == row[t].attempts + 1
    <3>1. row' = [row EXCEPT ![t].attempts = n, ![t].due = FALSE]
      BY <2>3 DEF Claimed
    <3> HIDE DEF n
    <3> QED
      BY <3>1 DEF Row
  <2> QED
    BY <2>1, <2>2, <2>3
<1>2. ASSUME NEW t \in Tx, BackoffElapses(t)
      PROVE  Quiet
  BY <1>2 DEF BackoffElapses, Row
<1>3. ASSUME NEW s \in Sweeps,
             ReadAwaiting(s) \/ Reconcile(s) \/ ReconcileFailed(s) \/ CheckLive(s)
      PROVE  Quiet
  BY <1>3 DEF ReadAwaiting, Reconcile, ReconcileFailed, CheckLive
<1>4. CASE Provider \/ NewDay \/ Interrupt \/ UNCHANGED vars
  BY <1>4 DEF Provider, Arrive, Decide, Forget, CheckIn, NewDay, Interrupt, vars
<1>5. ASSUME NEW q \in Requests, NEW j \in Jobs, EnqueueResult(q, j) \/ PushNow(q, j)
      PROVE  Quiet
  BY <1>5 DEF EnqueueResult, PushNow
<1> QED
  BY <1>1, <1>2, <1>3, <1>4, <1>5 DEF Next, Drain, Sweep, Request

\* What an insert makes of the other rows.
LEMMA InsertQuiet ==
  ASSUME TypeOK, WriteAheadInv, NEW j, NEW b, NEW a, Insert(j, b, a),
         NEW t \in Tx, Raised(t)
  PROVE  row'[t] = row[t]
<1>1. next > MaxTx \/ next <= MaxTx
  BY BoundsAssumption DEF TypeOK
<1> QED
  BY <1>1, Inserted DEF Insert

\* A row becomes a rejection that may clear only in the hands of a sweep,
\* which then considers the retry of an inspection result of today.
LEMMA RowFails ==
  ASSUME TypeOK, WriteAheadInv, [Next]_vars, NEW t \in Tx, Raised(t),
         row'[t].delivery = "Failed", row'[t].recoverable,
         row[t].job # NoJob, row[t].day = today
  PROVE  \/ row[t].delivery = "Failed" /\ row[t].recoverable
         \/ \E s \in Sweeps : sweep'[s].pc = "check" /\ sweep'[s].tx = t
<1>1. ASSUME NEW d \in Drains, RecordAccepted(d) \/ RecordRefused(d) \/ RecordRetryable(d)
      PROVE  row[t].delivery = "Failed" /\ row[t].recoverable
  <2>1. PICK u \in Tx :
           /\ \A v \in Tx \ {u} : drain'[d].seen[v] = drain[d].seen[v] /\ row'[v] = row[v]
           /\ row'[u].recoverable = row[u].recoverable
           /\ \/ row'[u].delivery = "Accepted" /\ provider[u] # "unknown"
              \/ row'[u].delivery = "Abandoned"
              \/ row'[u].delivery = row[u].delivery /\ drain[d].seen[u] + 1 < MaxAttempts
    BY <1>1, Recorded
  <2> QED
    BY <2>1
<1>2. ASSUME NEW s \in Sweeps, Apply(s)
      PROVE  \/ row[t].delivery = "Failed" /\ row[t].recoverable
             \/ sweep'[s].pc = "check" /\ sweep'[s].tx = t
  <2>1. PICK u \in Tx : RestKept(u) /\ Outcome(s, u)
    BY <1>2, Applied
  <2> QED
    BY <2>1 DEF RestKept, Outcome
<1>3. ASSUME NEW j, NEW b, NEW a, Insert(j, b, a)
      PROVE  row[t].delivery = "Failed" /\ row[t].recoverable
  BY <1>3, InsertQuiet
<1> QED
  BY <1>1, <1>2, <1>3, QuietSteps DEF SaveRow, EnqueueLane, Repush, SaveSuccessor

\* How a sweep comes to consider a retry, and how it stops.
LEMMA RetryMoves ==
  ASSUME TypeOK, [Next]_vars, NEW s \in Sweeps
  PROVE  /\ Retrying(s)' => \/ Retrying(s) /\ sweep'[s].tx = sweep[s].tx
                            \/ sweep'[s].tx \in sweep[s].batch
         /\ Retrying(s) => \/ Retrying(s)' /\ sweep'[s].tx = sweep[s].tx
                           \/ cuts' = cuts + 1
                           \/ hasLiveInspectionResult(row[sweep[s].tx].job)
                           \/ \E b, a : Insert(row[sweep[s].tx].job, b, a)
<1> sweep \in [Sweeps -> SweepState] /\ sweep[s] \in SweepState
  BY DEF TypeOK
<1> DEFINE Goal == /\ Retrying(s)' => \/ Retrying(s) /\ sweep'[s].tx = sweep[s].tx
                                      \/ sweep'[s].tx \in sweep[s].batch
                   /\ Retrying(s) =>
                           \/ Retrying(s)' /\ sweep'[s].tx = sweep[s].tx
                           \/ cuts' = cuts + 1
                           \/ hasLiveInspectionResult(row[sweep[s].tx].job)
                           \/ \E b, a : Insert(row[sweep[s].tx].job, b, a)
<1>1. ASSUME sweep'[s] = sweep[s]
      PROVE  Goal
  BY <1>1 DEF Retrying
<1>2. CASE UNCHANGED sweep
  BY <1>1, <1>2
<1>3. ASSUME NEW r \in Sweeps, Sweep(r), r # s
      PROVE  Goal
  BY <1>1, <1>3, Applied, Resumed DEF Sweep, ReadAwaiting, Reconcile, ReconcileFailed
<1>4. CASE Sweep(s)
  <2>1. CASE ReadAwaiting(s) \/ Reconcile(s) \/ ReconcileFailed(s)
    <3>1. ~ Retrying(s)
      BY <2>1 DEF ReadAwaiting, Reconcile, ReconcileFailed, Retrying
    <3>2. sweep'[s].pc \in {"idle", "asked", "applying"}
      <4>1. CASE ReadAwaiting(s)
        BY <4>1 DEF ReadAwaiting, SweepState
      <4>2. CASE Reconcile(s)
        BY <4>2 DEF Reconcile, SweepState
      <4>3. CASE ReconcileFailed(s)
        BY <4>3 DEF ReconcileFailed, Asleep
      <4> QED
        BY <2>1, <4>1, <4>2, <4>3
    <3> QED
      BY <3>1, <3>2 DEF Retrying
  <2>2. CASE Apply(s)
    <3>1. ~ Retrying(s)
      BY <2>2 DEF Apply, ApplyInFlight, ApplyProcessed, ApplyNotFound, ApplyFailed,
                  Answered, Retrying
    <3>2. Retrying(s)' => sweep'[s].tx \in sweep[s].batch
      BY <2>2, Applied DEF Retrying
    <3> QED
      BY <3>1, <3>2
  <2>3. CASE CheckLive(s)
    <3>1. Retrying(s)
      BY <2>3 DEF CheckLive, Retrying
    <3>2. CASE hasLiveInspectionResult(row[sweep[s].tx].job)
      <4>1. ~ Retrying(s)'
        BY <2>3, <3>2 DEF CheckLive, Resume, Retrying
      <4> QED
        BY <3>2, <4>1
    <3>3. CASE ~ hasLiveInspectionResult(row[sweep[s].tx].job)
      <4>1. sweep'[s] = [sweep[s] EXCEPT !.pc = "insert"]
        BY <2>3, <3>3 DEF CheckLive
      <4>2. sweep'[s].pc = "insert" /\ sweep'[s].tx = sweep[s].tx
        BY <4>1 DEF SweepState
      <4> QED
        BY <3>1, <4>2 DEF Retrying
    <3> QED
      BY <3>2, <3>3
  <2>4. CASE SaveSuccessor(s)
    <3>1. ~ Retrying(s)'
      BY <2>4 DEF SaveSuccessor, Resume, Retrying
    <3>2. \E b, a : Insert(row[sweep[s].tx].job, b, a)
      BY <2>4 DEF SaveSuccessor
    <3> QED
      BY <3>1, <3>2
  <2> QED
    BY <1>4, <2>1, <2>2, <2>3, <2>4 DEF Sweep
<1>5. CASE Interrupt
  <2>1. sweep'[s] = sweep[s] \/ sweep'[s] = Asleep
    BY <1>5 DEF Interrupt
  <2>2. cuts' = cuts + 1
    BY <1>5 DEF Interrupt
  <2> QED
    BY <1>1, <2>1, <2>2 DEF Asleep, Retrying
<1>6. (\E r \in Sweeps : Sweep(r)) \/ Interrupt \/ UNCHANGED sweep
  BY DEF Next, vars, Drain, ReadDue, ClaimForSend, RecordAccepted, RecordRefused,
         RecordRetryable, Request, EnqueueResult, PushNow, SaveRow, EnqueueLane,
         Repush, Provider, Arrive, Decide, Forget, CheckIn, BackoffElapses, NewDay
<1> QED
  BY <1>2, <1>3, <1>4, <1>5, <1>6

\* The day and the counters never run back.
LEMMA ClockStep ==
  ASSUME TypeOK, [Next]_vars
  PROVE  /\ today \in Nat /\ (today' = today \/ today' = today + 1)
         /\ cuts \in Nat /\ (cuts' = cuts \/ cuts' = cuts + 1)
         /\ next \in Nat /\ (next' = next \/ next' = next + 1)
<1>1. today \in Nat /\ cuts \in Nat /\ next \in Nat
  BY BoundsAssumption DEF TypeOK
<1>2. today' = today \/ today' = today + 1
  BY DEF Next, vars, Drain, ReadDue, ClaimForSend, RecordAccepted, RecordRefused,
         RecordRetryable, Sweep, ReadAwaiting, Reconcile, ReconcileFailed, Apply,
         ApplyInFlight, ApplyProcessed, ApplyNotFound, ApplyFailed, CheckLive,
         SaveSuccessor, Request, EnqueueResult, PushNow, SaveRow, EnqueueLane,
         Repush, Provider, Arrive, Decide, Forget, CheckIn, BackoffElapses, NewDay,
         Interrupt
<1>3. cuts' = cuts \/ cuts' = cuts + 1
  BY DEF Next, vars, Drain, ReadDue, ClaimForSend, RecordAccepted, RecordRefused,
         RecordRetryable, Sweep, ReadAwaiting, Reconcile, ReconcileFailed, Apply,
         ApplyInFlight, ApplyProcessed, ApplyNotFound, ApplyFailed, CheckLive,
         SaveSuccessor, Request, EnqueueResult, PushNow, SaveRow, EnqueueLane,
         Repush, Provider, Arrive, Decide, Forget, CheckIn, BackoffElapses, NewDay,
         Interrupt
<1>4. next' = next \/ next' = next + 1
  BY DEF Next, vars, Drain, ReadDue, ClaimForSend, RecordAccepted, RecordRefused,
         RecordRetryable, Sweep, ReadAwaiting, Reconcile, ReconcileFailed, Apply,
         ApplyInFlight, ApplyProcessed, ApplyNotFound, ApplyFailed, CheckLive,
         SaveSuccessor, Request, EnqueueResult, PushNow, SaveRow, EnqueueLane,
         Repush, Insert, Provider, Arrive, Decide, Forget, CheckIn, BackoffElapses,
         NewDay, Interrupt
<1> QED
  BY <1>1, <1>2, <1>3, <1>4

LEMMA CoverStep ==
  ASSUME TypeOK, TypeOK', WriteAheadInv, CoverInv, [Next]_vars
  PROVE  CoverInv'
<1>0. Framed /\ Born
  BY RowsFramed
<1>1. \A s \in Sweeps : Retrying(s)' => sweep'[s].tx \in Tx /\ Raised(sweep[s].tx)'
  <2> SUFFICES ASSUME NEW s \in Sweeps, Retrying(s)'
               PROVE  \E t \in Tx : sweep'[s].tx = t /\ Raised(t)'
    OBVIOUS
  <2>1. \E t \in Tx : sweep'[s].tx = t /\ Raised(t)
    <3>1. CASE Retrying(s) /\ sweep'[s].tx = sweep[s].tx
      BY <3>1 DEF CoverInv
    <3>2. CASE sweep'[s].tx \in sweep[s].batch
      BY <3>2 DEF WriteAheadInv, TypeOK, SweepState
    <3> QED
      BY <3>1, <3>2, RetryMoves
  <2> QED
    BY <1>0, <2>1 DEF Framed
<1>2. \A t \in Tx : Raised(t)' => row'[t].day <= today'
  <2> TAKE t \in Tx
  <2>1. row[t].day \in Nat /\ today \in Nat /\ today' \in Nat /\ today <= today'
    BY ClockStep DEF TypeOK, Row
  <2>2. CASE Raised(t)
    <3>1. row'[t].day = row[t].day /\ row[t].day <= today
      BY <1>0, <2>2 DEF Framed, CoverInv
    <3> QED
      BY <2>1, <3>1
  <2>3. CASE ~ Raised(t)
    BY <1>0, <2>1, <2>3 DEF Born
  <2> QED
    BY <2>2, <2>3
<1>3. ASSUME NEW j \in Jobs, cuts' = 0,
             RowsOf(j)' # {},
             \A t \in RowsOf(j)' : /\ row'[t].delivery = "Failed"
                                   /\ row'[t].recoverable
                                   /\ row'[t].day = today',
             ~ (next' > MaxTx)
      PROVE  \E s \in Sweeps : Retrying(s)' /\ row'[sweep'[s].tx].job = j
  <2>1. cuts = 0 /\ cuts' # cuts + 1
    BY <1>3, ClockStep
  <2>2. next <= MaxTx /\ next \in Nat /\ ~ (next > MaxTx)
    BY <1>3, ClockStep, BoundsAssumption
  <2>3. \A t \in Tx : t \in RowsOf(j) <=> t \in RowsOf(j)'
    <3> TAKE t \in Tx
    <3>1. CASE Raised(t)
      BY <1>0, <3>1 DEF Framed, RowsOf, Raised
    <3>2. CASE ~ Raised(t)
      BY <1>0, <1>3, <3>2 DEF Born, RowsOf, Raised
    <3> QED
      BY <3>1, <3>2
  <2>4. PICK x \in Tx : x \in RowsOf(j) /\ x \in RowsOf(j)'
    BY <1>3, <2>3 DEF RowsOf
  <2>5. today' = today
    <3>1. row[x].day <= today /\ row'[x].day = row[x].day /\ row[x].day \in Nat
      BY <1>0, <2>4 DEF CoverInv, Framed, RowsOf, Raised, TypeOK, Row
    <3>2. row'[x].day = today'
      BY <1>3, <2>4
    <3> QED
      BY <3>1, <3>2, ClockStep
  <2>6. \A t \in RowsOf(j) : /\ t \in Tx /\ Raised(t) /\ row[t].job = j /\ row[t].job # NoJob
                             /\ row[t].day = today /\ row'[t].delivery = "Failed"
                             /\ row'[t].recoverable
    <3> TAKE t \in RowsOf(j)
    <3>1. t \in Tx /\ Raised(t) /\ row[t].job = j
      BY DEF RowsOf, Raised
    <3>2. t \in RowsOf(j)'
      BY <2>3, <3>1
    <3>3. row'[t].day = row[t].day
      BY <1>0, <3>1 DEF Framed
    <3> QED
      BY <1>3, <2>5, <3>1, <3>2, <3>3, ActorsAssumption
  <2>7. CASE \A t \in RowsOf(j) : row[t].delivery = "Failed" /\ row[t].recoverable
    <3>1. PICK s \in Sweeps : Retrying(s) /\ row[sweep[s].tx].job = j
      BY <2>1, <2>2, <2>4, <2>6, <2>7 DEF CoverInv, RejectionCovered, Retrying
    <3>2. PICK t \in Tx : sweep[s].tx = t /\ Raised(t)
      BY <3>1 DEF CoverInv
    <3>3. ~ hasLiveInspectionResult(j)
      BY <2>7 DEF hasLiveInspectionResult, Live
    <3>4. ASSUME NEW b, NEW a, Insert(j, b, a)
          PROVE  FALSE
      <4>0. /\ next \in Tx
            /\ row'[next] = [job |-> j, day |-> today, by |-> a, delivery |-> "Pending",
                             event |-> NoStatus, attempts |-> 0, due |-> b,
                             recoverable |-> FALSE]
        BY <2>2, <3>4, Inserted
      <4>1. /\ next \in Tx /\ row'[next].job = j /\ row'[next].delivery = "Pending"
        BY <4>0
      <4>2. PICK n \in Tx : n = next
        BY <4>1
      <4>3. row'[n].job = j /\ row'[n].delivery = "Pending"
        BY <4>1, <4>2
      <4>4. n \in RowsOf(j)'
        BY <4>3 DEF RowsOf
      <4> QED
        BY <1>3, <4>3, <4>4
    <3>5. Retrying(s)' /\ sweep'[s].tx = sweep[s].tx
      BY <2>1, <3>1, <3>3, <3>4, RetryMoves
    <3>6. row'[t].job = j
      BY <1>0, <3>1, <3>2 DEF Framed
    <3> QED
      BY <3>2, <3>5, <3>6
  <2>8. CASE \E t \in RowsOf(j) : ~ (row[t].delivery = "Failed" /\ row[t].recoverable)
    <3>1. PICK t \in RowsOf(j) : ~ (row[t].delivery = "Failed" /\ row[t].recoverable)
      BY <2>8
    <3>2. PICK s \in Sweeps : sweep'[s].pc = "check" /\ sweep'[s].tx = t
      BY <2>6, <3>1, RowFails
    <3>3. row'[t].job = j
      BY <1>0, <2>6 DEF Framed
    <3> QED
      BY <3>2, <3>3 DEF Retrying
  <2> QED
    BY <2>7, <2>8
<1>4. RejectionCovered'
  BY <1>3 DEF RejectionCovered, Retrying
<1> QED
  BY <1>1, <1>2, <1>4 DEF CoverInv

LEMMA CoverHolds == Spec => []CoverInv
<1>1. Init => TypeOK /\ RetryHasTx /\ WriteAheadInv /\ CoverInv
  <2> SUFFICES ASSUME Init
               PROVE  CoverInv
    BY WriteAheadInit
  <2>1. \A t \in Tx : row[t].delivery = "None"
    BY DEF Init, NoRow
  <2>2. \A s \in Sweeps : ~ Retrying(s)
    BY DEF Init, Asleep, Retrying
  <2> QED
    BY <2>1, <2>2 DEF CoverInv, RejectionCovered, RowsOf, Raised
<1>2. TypeOK /\ RetryHasTx /\ WriteAheadInv /\ CoverInv /\ [Next]_vars
        => (TypeOK /\ RetryHasTx /\ WriteAheadInv /\ CoverInv)'
  BY WriteAheadStep, CoverStep
<1> QED
  BY <1>1, <1>2, PTL DEF Spec

\* A rejection that may clear is dropped only by a tick that was cut short:
\* while a job's rows are all recoverable rejections of today, some sweep is
\* about to raise a successor, however many of them overlap.
THEOREM RejectionCoveredHolds == Spec => []RejectionCovered
<1>1. CoverInv => RejectionCovered
  BY DEF CoverInv
<1> QED
  BY <1>1, CoverHolds, PTL

-----------------------------------------------------------------------------
(* TerminalStays and NoFanOut, for one drain and one sweep at a time: a    *)
(* terminal row is in nobody's hands. Where ticks overlap, a late answer   *)
(* of a drain does move a row out of a terminal status.                    *)

LEMMA TerminalStep ==
  ASSUME TypeOK, WriteAheadInv, TickInv, [Next]_vars,
         NEW t \in Tx, row[t].delivery \in Terminal
  PROVE  row'[t].delivery = row[t].delivery
<1>1. ASSUME NEW d \in Drains, RecordAccepted(d) \/ RecordRefused(d) \/ RecordRetryable(d)
      PROVE  row'[t].delivery = row[t].delivery
  <2>1. PICK u \in Tx :
           /\ u = drain[d].tx
           /\ \A v \in Tx \ {u} : drain'[d].seen[v] = drain[d].seen[v] /\ row'[v] = row[v]
    BY <1>1, Recorded
  <2>2. row[u].delivery = "Pending"
    BY <2>1 DEF TickInv, RowInv, DrainHolds
  <2> QED
    BY <2>1, <2>2 DEF Terminal
<1>2. ASSUME NEW s \in Sweeps, Apply(s)
      PROVE  row'[t].delivery = row[t].delivery
  <2>1. PICK u \in Tx : u \in sweep[s].batch /\ RestKept(u)
    BY <1>2, Applied
  <2>2. row[u].delivery = "Accepted"
    BY <2>1 DEF TickInv, RowInv, SweepHolds
  <2> QED
    BY <2>1, <2>2 DEF RestKept, Terminal
<1>3. ASSUME NEW j, NEW b, NEW a, Insert(j, b, a)
      PROVE  row'[t].delivery = row[t].delivery
  BY <1>3, InsertQuiet DEF Raised, Terminal
<1> QED
  BY <1>1, <1>2, <1>3, QuietSteps DEF SaveRow, EnqueueLane, Repush, SaveSuccessor

\* Processed, Failed and Abandoned are terminal: no late answer of a drain or
\* of a sweep moves a row out of them, as long as ticks of one kind do not
\* overlap.
THEOREM TerminalStaysHolds ==
  ASSUME SingleTicks
  PROVE  Spec => TerminalStays
<1>1. TypeOK /\ WriteAheadInv /\ TickInv /\ [Next]_vars
        => [\A t \in Tx : row[t].delivery \in Terminal =>
              row'[t].delivery = row[t].delivery]_vars
  BY TerminalStep
<1> QED
  BY <1>1, TickHolds, PTL DEF Spec, TerminalStays

\* Where a live row comes from.
Survives(t) == /\ row[t].delivery \in Live
               /\ row'[t].job = row[t].job /\ row'[t].by = row[t].by

Written(t) ==
  /\ t = next
  /\ \/ \E q \in Requests : SaveRow(q) /\ row'[t].by = q /\ row'[t].job = request[q].job
     \/ \E q \in Requests : EnqueueLane(q) /\ row'[t].by = q /\ row'[t].job = NoJob
     \/ \E q \in Requests, u \in Tx : Repush(q, u)
     \/ \E s \in Sweeps : /\ SaveSuccessor(s) /\ row'[t].by = s
                          /\ row'[t].job = row[sweep[s].tx].job

LEMMA LiveRows ==
  ASSUME TypeOK, WriteAheadInv, TickInv, [Next]_vars,
         NEW t \in Tx, row'[t].delivery \in Live
  PROVE  Survives(t) \/ Written(t)
<1>1. CASE Raised(t)
  <2>1. row[t].delivery \in Live
    <3>1. row[t].delivery \in Delivery
      BY DEF TypeOK, Row
    <3>2. row[t].delivery \notin Terminal
      BY TerminalStep DEF Live, Terminal
    <3> QED
      BY <1>1, <3>1, <3>2 DEF Raised, Delivery
  <2> QED
    BY <1>1, <2>1, RowsFramed DEF Framed, Survives
<1>2. CASE ~ Raised(t)
  <2>1. ASSUME NEW d \in Drains, RecordAccepted(d) \/ RecordRefused(d) \/ RecordRetryable(d)
        PROVE  FALSE
    <3>1. PICK u \in Tx :
             /\ u = drain[d].tx
             /\ \A v \in Tx \ {u} : drain'[d].seen[v] = drain[d].seen[v] /\ row'[v] = row[v]
      BY <2>1, Recorded
    <3>2. Raised(u)
      BY <3>1 DEF WriteAheadInv, Tx, NoTx
    <3> QED
      BY <1>2, <3>1, <3>2 DEF Raised, Live
  <2>2. ASSUME NEW s \in Sweeps, Apply(s)
        PROVE  FALSE
    <3>1. PICK u \in Tx : u \in sweep[s].batch /\ RestKept(u)
      BY <2>2, Applied
    <3>2. Raised(u)
      BY <3>1 DEF WriteAheadInv
    <3> QED
      BY <1>2, <3>1, <3>2 DEF RestKept, Raised, Live
  <2>3. ASSUME NEW j, NEW b, NEW a, Insert(j, b, a)
        PROVE  t = next /\ row'[t].by = a /\ row'[t].job = j
    <3>1. next <= MaxTx \/ next > MaxTx
      BY BoundsAssumption DEF TypeOK
    <3>2. next <= MaxTx
      BY <1>2, <2>3, <3>1 DEF Insert, Raised, Live
    <3>3. /\ row'[next] = [job |-> j, day |-> today, by |-> a, delivery |-> "Pending",
                           event |-> NoStatus, attempts |-> 0, due |-> b,
                           recoverable |-> FALSE]
          /\ \A u \in Tx \ {next} : row'[u] = row[u]
      BY <2>3, <3>2, Inserted
    <3>4. t = next
      BY <1>2, <3>3 DEF Raised, Live
    <3> QED
      BY <3>3, <3>4
  <2>4. CASE \E q \in Requests : SaveRow(q) \/ EnqueueLane(q) \/ \E u \in Tx : Repush(q, u)
    BY <2>3, <2>4 DEF SaveRow, EnqueueLane, Repush, Written
  <2>5. CASE \E s \in Sweeps : SaveSuccessor(s)
    BY <2>3, <2>5 DEF SaveSuccessor, Written
  <2>6. CASE row'[t].delivery = row[t].delivery
    BY <1>2, <2>6 DEF Raised, Live
  <2> QED
    BY <2>1, <2>2, <2>4, <2>5, <2>6, QuietSteps
<1> QED
  BY <1>1, <1>2

\* Whoever is about to insert has no live row of that job of its own.
FanInv == repushes = 0 =>
  /\ \A q \in Requests, t \in Tx :
       request[q].pc = "insert" /\ row[t].delivery \in Live /\ row[t].by = q
         => row[t].job # request[q].job
  /\ \A s \in Sweeps, t \in Tx :
       sweep[s].pc = "insert" /\ row[t].delivery \in Live /\ row[t].by = s
         => row[t].job # row[sweep[s].tx].job
  /\ NoFanOut

\* How a request and a sweep come to insert: there is no live row then.
LEMMA InsertMoves ==
  ASSUME TypeOK, [Next]_vars
  PROVE  /\ repushes \in Nat /\ (repushes' = repushes \/ repushes' = repushes + 1)
         /\ \A q \in Requests : request'[q].pc = "insert" =>
              \/ request'[q] = request[q]
              \/ UNCHANGED row /\ ~ hasLiveInspectionResult(request'[q].job)
         /\ \A s \in Sweeps : sweep'[s].pc = "insert" =>
              \/ sweep'[s] = sweep[s]
              \/ /\ UNCHANGED row /\ Retrying(s) /\ sweep'[s].tx = sweep[s].tx
                 /\ ~ hasLiveInspectionResult(row[sweep[s].tx].job)
<1>1. repushes \in Nat /\ (repushes' = repushes \/ repushes' = repushes + 1)
  BY DEF TypeOK, Next, vars, Drain, ReadDue, ClaimForSend, RecordAccepted, RecordRefused,
         RecordRetryable, Sweep, ReadAwaiting, Reconcile, ReconcileFailed, Apply,
         ApplyInFlight, ApplyProcessed, ApplyNotFound, ApplyFailed, CheckLive,
         SaveSuccessor, Request, EnqueueResult, PushNow, SaveRow, EnqueueLane,
         Repush, Provider, Arrive, Decide, Forget, CheckIn, BackoffElapses, NewDay,
         Interrupt
<1>2. ASSUME NEW q \in Requests, request'[q].pc = "insert"
      PROVE  \/ request'[q] = request[q]
             \/ UNCHANGED row /\ ~ hasLiveInspectionResult(request'[q].job)
  <2> request \in [Requests -> RequestState]
    BY DEF TypeOK
  <2>1. CASE UNCHANGED request
    BY <2>1
  <2>2. ASSUME NEW p \in Requests, NEW j \in Jobs, EnqueueResult(p, j) \/ PushNow(p, j)
        PROVE  \/ request'[q] = request[q]
               \/ UNCHANGED row /\ ~ hasLiveInspectionResult(request'[q].job)
    <3>1. UNCHANGED row /\ ~ hasLiveInspectionResult(j)
      BY <2>2 DEF EnqueueResult, PushNow, findByJobAndType, hasLiveInspectionResult, Live
    <3>2. request' = [request EXCEPT ![p] = [pc |-> "insert", job |-> j]]
      BY <2>2 DEF EnqueueResult, PushNow
    <3> QED
      BY <3>1, <3>2
  <2>3. ASSUME NEW p \in Requests, request' = [request EXCEPT ![p] = Free]
        PROVE  request'[q] = request[q]
    BY <1>2, <2>3 DEF Free
  <2>4. \/ UNCHANGED request
        \/ \E p \in Requests, j \in Jobs : EnqueueResult(p, j) \/ PushNow(p, j)
        \/ \E p \in Requests : request' = [request EXCEPT ![p] = Free]
    BY DEF Next, vars, Drain, ReadDue, ClaimForSend, RecordAccepted, RecordRefused,
           RecordRetryable, Sweep, ReadAwaiting, Reconcile, ReconcileFailed, Apply,
           ApplyInFlight, ApplyProcessed, ApplyNotFound, ApplyFailed, CheckLive,
           SaveSuccessor, Request, SaveRow, EnqueueLane, Repush, Provider, Arrive,
           Decide, Forget, CheckIn, BackoffElapses, NewDay, Interrupt
  <2> QED
    BY <2>1, <2>2, <2>3, <2>4
<1>3. ASSUME NEW s \in Sweeps, sweep'[s].pc = "insert"
      PROVE  \/ sweep'[s] = sweep[s]
             \/ /\ UNCHANGED row /\ Retrying(s) /\ sweep'[s].tx = sweep[s].tx
                /\ ~ hasLiveInspectionResult(row[sweep[s].tx].job)
  <2> sweep \in [Sweeps -> SweepState] /\ sweep[s] \in SweepState
    BY DEF TypeOK
  <2>1. CASE UNCHANGED sweep
    BY <2>1
  <2>2. CASE Interrupt
    BY <1>3, <2>2 DEF Interrupt, Asleep
  <2>3. ASSUME NEW r \in Sweeps, Sweep(r), r # s
        PROVE  sweep'[s] = sweep[s]
    BY <2>3, Applied, Resumed DEF Sweep, ReadAwaiting, Reconcile, ReconcileFailed
  <2>4. CASE Sweep(s)
    <3>1. CASE ReadAwaiting(s)
      BY <1>3, <3>1 DEF ReadAwaiting, SweepState
    <3>2. CASE Reconcile(s)
      BY <1>3, <3>2 DEF Reconcile, SweepState
    <3>3. CASE ReconcileFailed(s)
      BY <1>3, <3>3 DEF ReconcileFailed, Asleep
    <3>4. CASE Apply(s)
      BY <1>3, <3>4, Applied
    <3>5. CASE CheckLive(s)
      <4>1. CASE hasLiveInspectionResult(row[sweep[s].tx].job)
        BY <1>3, <3>5, <4>1 DEF CheckLive, Resume
      <4>2. CASE ~ hasLiveInspectionResult(row[sweep[s].tx].job)
        <5>1. sweep'[s] = [sweep[s] EXCEPT !.pc = "insert"] /\ UNCHANGED row /\ Retrying(s)
          BY <3>5, <4>2 DEF CheckLive, Retrying
        <5>2. sweep'[s].tx = sweep[s].tx
          BY <5>1 DEF SweepState
        <5> QED
          BY <4>2, <5>1, <5>2
      <4> QED
        BY <4>1, <4>2
    <3>6. CASE SaveSuccessor(s)
      BY <1>3, <3>6 DEF SaveSuccessor, Resume
    <3> QED
      BY <2>4, <3>1, <3>2, <3>3, <3>4, <3>5, <3>6 DEF Sweep
  <2>5. (\E r \in Sweeps : Sweep(r)) \/ Interrupt \/ UNCHANGED sweep
    BY DEF Next, vars, Drain, ReadDue, ClaimForSend, RecordAccepted, RecordRefused,
           RecordRetryable, Request, EnqueueResult, PushNow, SaveRow, EnqueueLane,
           Repush, Provider, Arrive, Decide, Forget, CheckIn, BackoffElapses, NewDay
  <2> QED
    BY <2>1, <2>2, <2>3, <2>4, <2>5
<1> QED
  BY <1>1, <1>2, <1>3

LEMMA FanStep ==
  ASSUME TypeOK, WriteAheadInv, CoverInv, TickInv, FanInv, [Next]_vars
  PROVE  FanInv'
<1> SUFFICES ASSUME repushes' = 0
             PROVE  /\ \A q \in Requests, t \in Tx :
                         /\ request'[q].pc = "insert" /\ row'[t].delivery \in Live
                         /\ row'[t].by = q
                         => row'[t].job # request'[q].job
                    /\ \A s \in Sweeps, t \in Tx :
                         /\ sweep'[s].pc = "insert" /\ row'[t].delivery \in Live
                         /\ row'[t].by = s
                         => row'[t].job # row'[sweep'[s].tx].job
                    /\ NoFanOut'
  BY DEF FanInv
<1> request \in [Requests -> RequestState] /\ sweep \in [Sweeps -> SweepState]
  BY DEF TypeOK
<1>0. repushes = 0
  BY InsertMoves
<1>1. repushes = 0 /\ (\A q \in Requests, u \in Tx : ~ Repush(q, u))
  BY <1>0 DEF Repush
<1>2. \A q \in Requests : q \notin Sweeps
  BY ActorsAssumption
<1>3. ASSUME NEW q \in Requests, request'[q].pc = "insert", NEW t \in Tx,
             row'[t].delivery \in Live, row'[t].job = request'[q].job, row'[t].by = q
      PROVE  FALSE
  <2>1. CASE request'[q] = request[q]
    <3>1. ~ SaveRow(q) /\ ~ EnqueueLane(q)
      <4>1. SaveRow(q) => request'[q] = Free
        BY DEF SaveRow
      <4>2. EnqueueLane(q) => request[q].pc = "idle"
        BY DEF EnqueueLane
      <4>3. request'[q].pc = "insert" /\ request[q].pc = "insert"
        BY <1>3, <2>1
      <4>4. Free.pc = "idle"
        BY DEF Free
      <4> QED
        BY <4>1, <4>2, <4>3, <4>4
    <3>2. ~ Written(t)
      BY <1>1, <1>2, <1>3, <3>1 DEF Written
    <3>3. Survives(t)
      BY <1>3, <3>2, LiveRows
    <3> QED
      BY <1>1, <1>3, <2>1, <3>3 DEF Survives, FanInv
  <2>2. CASE UNCHANGED row /\ ~ hasLiveInspectionResult(request'[q].job)
    BY <1>3, <2>2 DEF hasLiveInspectionResult, RowsOf, Live
  <2> QED
    BY <1>3, <2>1, <2>2, InsertMoves
<1>4. ASSUME NEW s \in Sweeps, sweep'[s].pc = "insert", NEW t \in Tx,
             row'[t].delivery \in Live, row'[t].job = row'[sweep'[s].tx].job, row'[t].by = s
      PROVE  FALSE
  <2>1. CASE sweep'[s] = sweep[s]
    <3>1. PICK x \in Tx : sweep[s].tx = x /\ Raised(x)
      BY <1>4, <2>1 DEF CoverInv, Retrying
    <3>2. row'[x].job = row[x].job
      BY <3>1, RowsFramed DEF Framed
    <3>3. ~ SaveSuccessor(s)
      <4>1. SaveSuccessor(s) => sweep'[s] = Resume(s)
        BY DEF SaveSuccessor
      <4>2. Resume(s).pc # "insert"
        BY DEF Resume
      <4> QED
        BY <1>4, <4>1, <4>2
    <3>4. ~ Written(t)
      BY <1>1, <1>2, <1>4, <3>3 DEF Written
    <3>5. Survives(t)
      BY <1>4, <3>4, LiveRows
    <3> QED
      BY <1>1, <1>4, <2>1, <3>1, <3>2, <3>5 DEF Survives, FanInv
  <2>2. CASE /\ UNCHANGED row /\ sweep'[s].tx = sweep[s].tx
             /\ ~ hasLiveInspectionResult(row[sweep[s].tx].job)
    BY <1>4, <2>2 DEF hasLiveInspectionResult, RowsOf, Live
  <2> QED
    BY <1>4, <2>1, <2>2, InsertMoves
<1>5. ASSUME NEW t \in Tx, NEW u \in Tx, t # u, row'[t].job # NoJob,
             row'[t].job = row'[u].job, row'[t].by = row'[u].by,
             row'[t].delivery \in Live, row'[u].delivery \in Live
      PROVE  FALSE
  <2>1. ASSUME NEW x \in Tx, NEW y \in Tx, x # y, row'[x].job # NoJob,
               row'[x].job = row'[y].job, row'[x].by = row'[y].by,
               Written(x), Survives(y)
        PROVE  FALSE
    <3>1. CASE \E q \in Requests : SaveRow(q) /\ row'[x].by = q /\ row'[x].job = request[q].job
      <4>1. PICK q \in Requests : SaveRow(q) /\ row'[x].by = q /\ row'[x].job = request[q].job
        BY <3>1
      <4> QED
        BY <1>1, <2>1, <4>1 DEF Survives, FanInv, SaveRow
    <3>2. CASE \E s \in Sweeps : /\ SaveSuccessor(s) /\ row'[x].by = s
                                 /\ row'[x].job = row[sweep[s].tx].job
      <4>1. PICK s \in Sweeps : /\ SaveSuccessor(s) /\ row'[x].by = s
                                /\ row'[x].job = row[sweep[s].tx].job
        BY <3>2
      <4> QED
        BY <1>1, <2>1, <4>1 DEF Survives, FanInv, SaveSuccessor
    <3> QED
      BY <1>1, <2>1, <3>1, <3>2 DEF Written
  <2>2. CASE Written(t) /\ Written(u)
    BY <1>5, <2>2 DEF Written
  <2>3. CASE Survives(t) /\ Survives(u)
    BY <1>1, <1>5, <2>3 DEF FanInv, NoFanOut, Survives
  <2> QED
    BY <1>5, <2>1, <2>2, <2>3, LiveRows
<1>6. NoFanOut'
  BY <1>5 DEF NoFanOut
<1> QED
  BY <1>3, <1>4, <1>6

\* No fan-out: unless someone used the re-push endpoint, two live results of
\* one job come from different actors, whatever number of requests race and
\* wherever ticks are cut short, as long as ticks of one kind do not overlap.
THEOREM NoFanOutHolds ==
  ASSUME SingleTicks
  PROVE  Spec => []NoFanOut
<1>1. Init => FanInv
  <2> SUFFICES ASSUME Init
               PROVE  FanInv
    OBVIOUS
  <2>1. \A t \in Tx : row[t].delivery \notin Live
    BY DEF Init, NoRow, Live
  <2> QED
    BY <2>1 DEF FanInv, NoFanOut
<1>2. TypeOK /\ WriteAheadInv /\ TickInv /\ CoverInv /\ FanInv /\ [Next]_vars => FanInv'
  BY FanStep
<1>3. FanInv => NoFanOut
  BY DEF FanInv, NoFanOut
<1> QED
  BY <1>1, <1>2, <1>3, TickHolds, CoverHolds, PTL DEF Spec

-----------------------------------------------------------------------------
(* The filing of events. A row is closed by the one answer that belongs to *)
(* it, and the provider decides one event at a time.                       *)

Closes(t) ==
  \/ row[t].delivery = "None" /\ row'[t].delivery = "Pending"
  \/ /\ row[t].delivery \in Live
     /\ \/ row'[t].delivery \in Live
        \/ row'[t].delivery = "Abandoned"
        \/ row'[t].delivery = "Processed" /\ provider[t] = "processed"
        \/ row'[t].delivery = "Failed" /\ provider[t] \in Rejections

RowMoves ==
  /\ UNCHANGED provider
  /\ \E t \in Tx : /\ Closes(t)
                   /\ \A u \in Tx \ {t} : row'[u].delivery = row[u].delivery

ProviderMoves ==
  /\ \A t \in Tx : row'[t].delivery = row[t].delivery
  /\ \E t \in Tx : /\ row[t].delivery # "None" /\ provider[t] = "received"
                   /\ provider'[t] \in {"processed"} \union Rejections
                   /\ \A u \in Tx \ {t} : provider'[u] = provider[u]

StandsStill ==
  /\ \A t \in Tx : row'[t].delivery = row[t].delivery
  /\ \A t \in Tx : \/ provider'[t] = provider[t]
                   \/ /\ provider[t] \in {"unknown", "received"}
                      /\ provider'[t] \in {"unknown", "received"}

LEMMA InsertMovesRow ==
  ASSUME TypeOK, WriteAheadInv, NEW j, NEW b, NEW a, Insert(j, b, a), UNCHANGED provider
  PROVE  RowMoves \/ StandsStill
<1>1. next > MaxTx \/ next <= MaxTx
  BY BoundsAssumption DEF TypeOK
<1>2. CASE next > MaxTx
  BY <1>2 DEF Insert, StandsStill
<1>3. CASE next <= MaxTx
  <2>1. /\ next \in Tx /\ ~ Raised(next)
        /\ row'[next] = [job |-> j, day |-> today, by |-> a, delivery |-> "Pending",
                         event |-> NoStatus, attempts |-> 0, due |-> b,
                         recoverable |-> FALSE]
        /\ \A u \in Tx \ {next} : row'[u] = row[u]
    BY <1>3, Inserted
  <2>2. PICK n \in Tx : n = next
    BY <2>1
  <2>3. /\ ~ Raised(n) /\ row'[n].delivery = "Pending"
        /\ \A u \in Tx \ {n} : row'[u] = row[u]
    BY <2>1, <2>2
  <2> QED
    BY <2>3 DEF RowMoves, Closes, Raised
<1> QED
  BY <1>1, <1>2, <1>3

LEMMA FilingSteps ==
  ASSUME TypeOK, WriteAheadInv, StatusTruthInv, TickInv, [Next]_vars
  PROVE  RowMoves \/ ProviderMoves \/ StandsStill
<1>1. ASSUME NEW d \in Drains, RecordAccepted(d) \/ RecordRefused(d) \/ RecordRetryable(d)
      PROVE  RowMoves
  <2>1. PICK t \in Tx :
           /\ t = drain[d].tx /\ UNCHANGED <<next, sweep, request, provider, lost, cuts, repushes>>
           /\ \A u \in Tx \ {t} : drain'[d].seen[u] = drain[d].seen[u] /\ row'[u] = row[u]
           /\ \/ row'[t].delivery = "Accepted" /\ provider[t] # "unknown"
              \/ row'[t].delivery = "Abandoned"
              \/ row'[t].delivery = row[t].delivery /\ drain[d].seen[t] + 1 < MaxAttempts
    BY <1>1, Recorded
  <2>2. row[t].delivery = "Pending"
    BY <2>1 DEF TickInv, RowInv, DrainHolds
  <2>3. Closes(t)
    BY <2>1, <2>2 DEF Closes, Live
  <2> QED
    BY <2>1, <2>3 DEF RowMoves
<1>2. ASSUME NEW s \in Sweeps, Apply(s)
      PROVE  RowMoves
  <2>1. PICK t \in Tx : /\ t \in sweep[s].batch /\ RestKept(t) /\ Outcome(s, t)
                        /\ UNCHANGED <<next, today, drain, request, wire, provider,
                                       booking, lost, cuts, repushes>>
    BY <1>2, Applied
  <2>2. row[t].delivery = "Accepted"
    BY <2>1 DEF TickInv, RowInv, SweepHolds
  <2>3. /\ sweep[s].result[t] = "PROCESSED" => provider[t] = "processed"
        /\ sweep[s].result[t] = "FAILED" => provider[t] \in Rejections
    BY DEF StatusTruthInv, ResultTruth
  <2>4. Closes(t)
    BY <2>1, <2>2, <2>3 DEF Outcome, Closes, Live
  <2> QED
    BY <2>1, <2>4 DEF RestKept, RowMoves
<1>3. CASE \/ \E q \in Requests : SaveRow(q) \/ EnqueueLane(q) \/ \E t \in Tx : Repush(q, t)
           \/ \E s \in Sweeps : SaveSuccessor(s)
  BY <1>3, InsertMovesRow DEF SaveRow, EnqueueLane, Repush, SaveSuccessor
<1>4. ASSUME \A t \in Tx : row'[t].delivery = row[t].delivery
      PROVE  ProviderMoves \/ StandsStill
  <2> provider \in [Tx -> Verdicts]
    BY DEF TypeOK
  <2>1. CASE UNCHANGED provider
    BY <1>4, <2>1 DEF StandsStill
  <2>2. ASSUME NEW t \in Tx, Arrive(t) \/ Forget(t)
        PROVE  StandsStill
    <3>1. \A u \in Tx : u = t \/ provider'[u] = provider[u]
      BY <2>2 DEF Arrive, Forget
    <3>2. \/ provider'[t] = provider[t]
          \/ /\ provider[t] \in {"unknown", "received"}
             /\ provider'[t] \in {"unknown", "received"}
      BY <2>2 DEF Arrive, Forget
    <3> QED
      BY <1>4, <3>1, <3>2 DEF StandsStill
  <2>3. ASSUME NEW t \in Tx, Decide(t)
        PROVE  ProviderMoves
    <3>1. /\ provider[t] = "received"
          /\ provider'[t] \in {"processed"} \union Rejections
          /\ \A u \in Tx \ {t} : provider'[u] = provider[u]
      BY <2>3 DEF Decide, Rejections
    <3>2. row[t].delivery # "None"
      BY <3>1 DEF WriteAheadInv, WriteAhead
    <3> QED
      BY <1>4, <3>1, <3>2 DEF ProviderMoves
  <2>4. UNCHANGED provider \/ \E t \in Tx : Arrive(t) \/ Forget(t) \/ Decide(t)
    BY DEF Next, vars, Drain, ReadDue, ClaimForSend, RecordAccepted, RecordRefused,
           RecordRetryable, Sweep, ReadAwaiting, Reconcile, ReconcileFailed, Apply,
           ApplyInFlight, ApplyProcessed, ApplyNotFound, ApplyFailed, CheckLive,
           SaveSuccessor, Request, EnqueueResult, PushNow, SaveRow, EnqueueLane,
           Repush, Provider, CheckIn, BackoffElapses, NewDay, Interrupt
  <2> QED
    BY <2>1, <2>2, <2>3, <2>4
<1> QED
  BY <1>1, <1>2, <1>3, <1>4, QuietSteps

LEMMA StageValues ==
  ASSUME NEW t \in Tx
  PROVE  /\ Stage[t] = "none" <=> row[t].delivery = "None"
         /\ row[t].delivery \in Live => Stage[t] = "owed"
         /\ row[t].delivery = "Processed" => Stage[t] = "applied"
         /\ row[t].delivery = "Failed" => Stage[t] = "rejected"
         /\ row[t].delivery = "Abandoned" => Stage[t] = "abandoned"
         /\ provider[t] = "processed" => Verdict[t] = "applied"
         /\ provider[t] \in Rejections => Verdict[t] = "rejected"
         /\ provider[t] \in {"unknown", "received"} => Verdict[t] = "none"
<1>1. Stage[t] = CASE row[t].delivery = "None" -> "none"
                   [] row[t].delivery \in Live -> "owed"
                   [] row[t].delivery = "Processed" -> "applied"
                   [] row[t].delivery = "Failed" -> "rejected"
                   [] OTHER -> "abandoned"
  BY DEF Stage
<1>2. Verdict[t] = CASE provider[t] = "processed" -> "applied"
                     [] provider[t] \in Rejections -> "rejected"
                     [] OTHER -> "none"
  BY DEF Verdict
<1> QED
  BY <1>1, <1>2 DEF Live, Rejections

LEMMA StageKept ==
  ASSUME NEW t \in Tx, row'[t].delivery = row[t].delivery
  PROVE  Stage'[t] = Stage[t]
BY DEF Stage

LEMMA VerdictKept ==
  ASSUME NEW t \in Tx, provider'[t] = provider[t]
  PROVE  Verdict'[t] = Verdict[t]
BY DEF Verdict

\* The same for the state after a step.
LEMMA NextStageValues ==
  ASSUME NEW t \in Tx
  PROVE  /\ row'[t].delivery \in Live => Stage'[t] = "owed"
         /\ row'[t].delivery = "Processed" => Stage'[t] = "applied"
         /\ row'[t].delivery = "Failed" => Stage'[t] = "rejected"
         /\ row'[t].delivery = "Abandoned" => Stage'[t] = "abandoned"
         /\ provider'[t] = "processed" => Verdict'[t] = "applied"
         /\ provider'[t] \in Rejections => Verdict'[t] = "rejected"
         /\ provider'[t] \in {"unknown", "received"} => Verdict'[t] = "none"
<1>1. Stage'[t] = CASE row'[t].delivery = "None" -> "none"
                    [] row'[t].delivery \in Live -> "owed"
                    [] row'[t].delivery = "Processed" -> "applied"
                    [] row'[t].delivery = "Failed" -> "rejected"
                    [] OTHER -> "abandoned"
  BY DEF Stage
<1>2. Verdict'[t] = CASE provider'[t] = "processed" -> "applied"
                      [] provider'[t] \in Rejections -> "rejected"
                      [] OTHER -> "none"
  BY DEF Verdict
<1> QED
  BY <1>1, <1>2 DEF Live, Rejections

LEMMA FilingStep ==
  ASSUME RowMoves \/ ProviderMoves \/ StandsStill
  PROVE  [Filing!Next]_(Filing!filing)
<1> SUFFICES Filing!Next \/ (Stage' = Stage /\ Verdict' = Verdict)
  BY DEF Filing!filing
<1>1. /\ Stage = [t \in Tx |-> Stage[t]] /\ Stage' = [t \in Tx |-> Stage'[t]]
      /\ Verdict = [t \in Tx |-> Verdict[t]] /\ Verdict' = [t \in Tx |-> Verdict'[t]]
  BY DEF Stage, Verdict
<1> DEFINE S == Stage
           S2 == Stage'
           V == Verdict
           V2 == Verdict'
<1>2. CASE RowMoves
  <2>1. PICK t \in Tx : Closes(t) /\ \A u \in Tx \ {t} : row'[u].delivery = row[u].delivery
    BY <1>2 DEF RowMoves
  <2>2. V2 = V
    BY <1>1, <1>2, VerdictKept DEF RowMoves
  <2>3. S2 = [S EXCEPT ![t] = S2[t]] /\ (S2[t] = S[t] => S2 = S)
    BY <1>1, <2>1, StageKept
  <2>4. \/ S[t] = "none" /\ S2[t] = "owed"
        \/ /\ S[t] = "owed"
           /\ \/ S2[t] = "owed" \/ S2[t] = "abandoned"
              \/ V[t] # "none" /\ S2[t] = V[t]
    <3>1. CASE row[t].delivery = "None" /\ row'[t].delivery = "Pending"
      BY <3>1, StageValues, NextStageValues DEF Live
    <3>2. CASE row[t].delivery \in Live /\ row'[t].delivery \in Live \union {"Abandoned"}
      BY <3>2, StageValues, NextStageValues
    <3>3. CASE /\ row[t].delivery \in Live
               /\ row'[t].delivery = "Processed" /\ provider[t] = "processed"
      BY <3>3, StageValues, NextStageValues
    <3>4. CASE /\ row[t].delivery \in Live
               /\ row'[t].delivery = "Failed" /\ provider[t] \in Rejections
      BY <3>4, StageValues, NextStageValues
    <3> QED
      BY <2>1, <3>1, <3>2, <3>3, <3>4 DEF Closes
  <2>5. CASE S[t] = "none" /\ S2[t] = "owed"
    BY <2>2, <2>3, <2>5 DEF Filing!Next, Filing!Raise
  <2>6. CASE S[t] = "owed" /\ S2[t] = "owed"
    BY <2>2, <2>3, <2>6
  <2>7. CASE S[t] = "owed" /\ S2[t] = "abandoned"
    BY <2>2, <2>3, <2>7 DEF Filing!Next, Filing!Abandon
  <2>8. CASE S[t] = "owed" /\ V[t] # "none" /\ S2[t] = V[t]
    BY <2>2, <2>3, <2>8 DEF Filing!Next, Filing!Learn
  <2> QED
    BY <2>4, <2>5, <2>6, <2>7, <2>8
<1>3. CASE ProviderMoves
  <2>1. PICK t \in Tx : /\ row[t].delivery # "None" /\ provider[t] = "received"
                        /\ provider'[t] \in {"processed"} \union Rejections
                        /\ \A u \in Tx \ {t} : provider'[u] = provider[u]
    BY <1>3 DEF ProviderMoves
  <2>2. S2 = S
    BY <1>1, <1>3, StageKept DEF ProviderMoves
  <2>3. V2 = [V EXCEPT ![t] = V2[t]]
    BY <1>1, <2>1, VerdictKept
  <2>4. S[t] # "none" /\ V[t] = "none" /\ V2[t] \in {"applied", "rejected"}
    BY <2>1, StageValues, NextStageValues
  <2> QED
    BY <2>2, <2>3, <2>4 DEF Filing!Next, Filing!Decide
<1>4. CASE StandsStill
  <2>1. \A t \in Tx : S2[t] = S[t]
    BY <1>4, StageKept DEF StandsStill
  <2>2. \A t \in Tx : V2[t] = V[t]
    BY <1>4, VerdictKept, StageValues, NextStageValues DEF StandsStill
  <2> QED
    BY <1>1, <2>1, <2>2
<1> QED
  BY <1>2, <1>3, <1>4

\* The outbox implements the filing of events: an event is owed from its
\* insert, closed once, with the provider's own verdict or as abandoned, and
\* never decided before it is in the table, as long as ticks of one kind do
\* not overlap.
THEOREM FilingHolds ==
  ASSUME SingleTicks
  PROVE  Spec => FilingSpec
<1>1. Init => Filing!Init
  <2> SUFFICES ASSUME Init
               PROVE  Filing!Init
    OBVIOUS
  <2>1. ASSUME NEW t \in Tx
        PROVE  Stage[t] = "none" /\ Verdict[t] = "none"
    BY StageValues DEF Init, NoRow
  <2>2. Stage = [t \in Tx |-> Stage[t]] /\ Verdict = [t \in Tx |-> Verdict[t]]
    BY DEF Stage, Verdict
  <2> QED
    BY <2>1, <2>2 DEF Filing!Init
<1>2. TypeOK /\ WriteAheadInv /\ StatusTruthInv /\ TickInv /\ [Next]_vars
        => [Filing!Next]_(Filing!filing)
  BY FilingSteps, FilingStep
<1> QED
  BY <1>1, <1>2, StatusTruthInvHolds, TickHolds, PTL DEF Spec, FilingSpec, Filing!Spec

=============================================================================
