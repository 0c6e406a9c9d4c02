---------------------------- MODULE TajdeedOutbox ----------------------------
(***************************************************************************)
(* The durable outbox of events owed to the appointment provider           *)
(* (Tajdeed), and every actor that touches it:                             *)
(*                                                                         *)
(*   - requests (job submit, lane change, operator retry) that insert rows *)
(*     after a check that is a separate database call;                     *)
(*   - drains, the 30-second ticks that claim due rows and push them;      *)
(*   - sweeps, the 2-minute ticks that reconcile accepted rows and raise a *)
(*     successor for a rejection that may clear;                           *)
(*   - the provider, which holds a transaction id once and decides later.  *)
(*                                                                         *)
(* A tick of @Interval does not wait for the previous one, so Drains and   *)
(* Sweeps are sets: with one element the ticks never overlap, with two     *)
(* they do. Transaction ids are minted in creation order, 1, 2, 3, ...     *)
(***************************************************************************)
EXTENDS Integers, FiniteSets

CONSTANTS
  Drains,          \* concurrent executions of drain()
  Sweeps,          \* concurrent executions of confirm()
  Requests,        \* concurrent request handlers that raise events
  Jobs,            \* jobs that own an inspection result
  NoJob,           \* job of a row that carries a LANE_STATUS event
  NoActor,         \* author of a row not yet inserted
  MaxTx,           \* bound: rows ever inserted (an insert past it is dropped)
  DrainBatch,      \* DRAIN_BATCH, 20
  MaxAttempts,     \* MAX_ATTEMPTS, 12
  LastDay,         \* bound: Oman days, 0 .. LastDay
  LossLimit,       \* bound: events the provider forgets before deciding them
  InterruptLimit,  \* bound: ticks or requests cut short (restart, DB error)
  RepushLimit      \* bound: uses of POST :transactionId/repush

Tx == 1 .. MaxTx
NoTx == 0
Actors == Sweeps \union Requests

ASSUME ActorsAssumption ==
  /\ Sweeps \intersect Requests = {}
  /\ NoActor \notin Actors
  /\ NoJob \notin Jobs

ASSUME BoundsAssumption ==
  /\ MaxTx \in Nat \ {0}
  /\ DrainBatch \in Nat \ {0}
  /\ MaxAttempts \in Nat \ {0}
  /\ LastDay \in Nat
  /\ LossLimit \in Nat
  /\ InterruptLimit \in Nat
  /\ RepushLimit \in Nat

VARIABLES
  row,       \* tajdeed_outbox: transaction id -> columns
  next,      \* the transaction id the next insert receives
  today,     \* the Oman day
  drain,     \* local state of each drain()
  sweep,     \* local state of each confirm()
  request,   \* local state of each request handler
  wire,      \* transaction ids in POST requests still travelling
  provider,  \* what the provider made of each transaction id
  booking,   \* the provider's booking behind each job
  lost,      \* how often the provider forgot an event
  cuts,      \* how often an actor was cut short
  repushes   \* how often the re-push endpoint was used

vars == <<row, next, today, drain, sweep, request, wire, provider, booking,
          lost, cuts, repushes>>

-----------------------------------------------------------------------------
(* Types.                                                                  *)

Terminal == {"Processed", "Failed", "Abandoned"}
Live == {"Pending", "Accepted"}
Delivery == {"None"} \union Live \union Terminal

NoStatus == "null"
\* RECEIVED stands for PROCESSING as well: no code tells them apart.
AwaitedStatus == {NoStatus, "RECEIVED", "NOT_FOUND"}
EventStatus == AwaitedStatus \union {"PROCESSED", "FAILED"}

\* due: next_attempt_at is null or past; recoverable: last_error is a
\* rejection that isRecoverableRejection accepts; by: author of the insert
\* (a history field, the table has no such column).
Row == [job : Jobs \union {NoJob}, day : 0 .. LastDay,
        by : Actors \union {NoActor}, delivery : Delivery,
        event : EventStatus, attempts : Nat, due : BOOLEAN,
        recoverable : BOOLEAN]

Verdicts == {"unknown", "received", "processed", "notCheckedIn", "refused"}
Rejections == {"notCheckedIn", "refused"}

NoRow == [job |-> NoJob, day |-> 0, by |-> NoActor, delivery |-> "None",
          event |-> NoStatus, attempts |-> 0, due |-> FALSE,
          recoverable |-> FALSE]

Resting == [todo |-> {}, seen |-> [t \in Tx |-> 0], tx |-> NoTx]
Asleep == [pc |-> "idle", batch |-> {}, result |-> [t \in Tx |-> NoStatus],
           tx |-> NoTx]
Free == [pc |-> "idle", job |-> NoJob]

DrainState == [todo : SUBSET Tx, seen : [Tx -> Nat], tx : Tx \union {NoTx}]
SweepState == [pc : {"idle", "asked", "applying", "check", "insert"},
               batch : SUBSET Tx, result : [Tx -> EventStatus],
               tx : Tx \union {NoTx}]
RequestState == [pc : {"idle", "insert"}, job : Jobs \union {NoJob}]

TypeOK ==
  /\ row \in [Tx -> Row]
  /\ next \in 1 .. MaxTx + 1
  /\ today \in 0 .. LastDay
  /\ drain \in [Drains -> DrainState]
  /\ sweep \in [Sweeps -> SweepState]
  /\ request \in [Requests -> RequestState]
  /\ wire \in SUBSET Tx
  /\ provider \in [Tx -> Verdicts]
  /\ booking \in [Jobs -> {"expected", "checkedIn", "completed"}]
  /\ lost \in Nat
  /\ cuts \in Nat
  /\ repushes \in Nat

-----------------------------------------------------------------------------
(* Queries of TajdeedOutboxDao.                                            *)

RowsOf(j) == {t \in Tx : row[t].job = j /\ row[t].delivery # "None"}

findDueForSend == {t \in Tx : row[t].delivery = "Pending" /\ row[t].due}

\* Mutant: RECEIVED and NOT_FOUND are left out of the sweep.
findAwaitingConfirmation_Unprobed ==
  {t \in Tx : row[t].delivery = "Accepted" /\ row[t].event = NoStatus}

findAwaitingConfirmation ==
  {t \in Tx : row[t].delivery = "Accepted" /\ row[t].event \in AwaitedStatus}

\* Mutant: an accepted, unconfirmed row is not counted.
hasLiveInspectionResult_Unsent(j) ==
  \E t \in RowsOf(j) : row[t].delivery = "Pending"

hasLiveInspectionResult(j) == \E t \in RowsOf(j) : row[t].delivery \in Live

findByJobAndType(j) == {t \in RowsOf(j) : row[t].delivery # "Abandoned"}

\* Insert one Pending row. At MaxTx the insert is dropped: the bound of a
\* finite instance, not something the table does.
Insert(j, dueNow, actor) ==
  IF next > MaxTx
  THEN UNCHANGED <<row, next>>
  ELSE /\ row' = [row EXCEPT ![next] =
                    [job |-> j, day |-> today, by |-> actor,
                     delivery |-> "Pending", event |-> NoStatus,
                     attempts |-> 0, due |-> dueNow, recoverable |-> FALSE]]
       /\ next' = next + 1

-----------------------------------------------------------------------------
(* Requests: TajdeedOutboxService.                                         *)

\* enqueue() for INSPECTION_RESULT: any row of the job that was not abandoned
\* answers the request; otherwise the insert follows in a later call.
EnqueueResult(q, j) ==
  /\ request[q].pc = "idle"
  /\ findByJobAndType(j) = {}
  /\ request' = [request EXCEPT ![q] = [pc |-> "insert", job |-> j]]
  /\ UNCHANGED <<row, next, today, drain, sweep, wire, provider, booking,
                 lost, cuts, repushes>>

\* pushNowForJob(): the job must have a row and none may be live.
PushNow(q, j) ==
  /\ request[q].pc = "idle"
  /\ RowsOf(j) # {}
  /\ ~ hasLiveInspectionResult(j)
  /\ request' = [request EXCEPT ![q] = [pc |-> "insert", job |-> j]]
  /\ UNCHANGED <<row, next, today, drain, sweep, wire, provider, booking,
                 lost, cuts, repushes>>

\* The save() that ends enqueue() and repush().
SaveRow(q) ==
  /\ request[q].pc = "insert"
  /\ Insert(request[q].job, TRUE, q)
  /\ request' = [request EXCEPT ![q] = Free]
  /\ UNCHANGED <<today, drain, sweep, wire, provider, booking, lost, cuts,
                 repushes>>

\* enqueue() for LANE_STATUS, from the heartbeat or a lane change: no check.
EnqueueLane(q) ==
  /\ request[q].pc = "idle"
  /\ next <= MaxTx
  /\ Insert(NoJob, TRUE, q)
  /\ UNCHANGED <<today, drain, sweep, request, wire, provider, booking,
                 lost, cuts, repushes>>

\* POST :transactionId/repush: clones any row, whatever its status.
Repush(q, t) ==
  /\ request[q].pc = "idle"
  /\ repushes < RepushLimit
  /\ row[t].delivery # "None"
  /\ Insert(row[t].job, TRUE, q)
  /\ repushes' = repushes + 1
  /\ UNCHANGED <<today, drain, sweep, request, wire, provider, booking,
                 lost, cuts>>

-----------------------------------------------------------------------------
(* Drains: TajdeedDispatcherService.drain and send.                        *)

\* One tick reads its batch, oldest first, with the attempt counts of then.
ReadDue(d) ==
  /\ drain[d] = Resting
  /\ findDueForSend # {}
  /\ LET batch == {t \in findDueForSend :
                     Cardinality({u \in findDueForSend : u < t}) < DrainBatch}
     IN  drain' = [drain EXCEPT ![d] =
           [todo |-> batch,
            seen |-> [t \in Tx |-> IF t \in batch THEN row[t].attempts ELSE 0],
            tx |-> NoTx]]
  /\ UNCHANGED <<row, next, today, sweep, request, wire, provider, booking,
                 lost, cuts, repushes>>

\* The update of claimForSend: next_attempt_at moves out by the backoff.
Claimed(t) == row' = [row EXCEPT ![t].attempts = @ + 1, ![t].due = FALSE]

\* Mutant: the event is pushed without claiming its row first.
ClaimForSend_Uncounted(d) ==
  /\ drain[d].tx = NoTx
  /\ \E t \in drain[d].todo :
       /\ drain' = [drain EXCEPT ![d].todo = @ \ {t}, ![d].tx = t]
       /\ wire' = wire \union {t}
  /\ UNCHANGED <<row, next, today, sweep, request, provider, booking, lost,
                 cuts, repushes>>

\* claimForSend: wins on every row that is Pending now, due or not; then the
\* POST leaves.
ClaimForSend(d) ==
  /\ drain[d].tx = NoTx
  /\ \E t \in drain[d].todo :
       /\ \A u \in drain[d].todo : t <= u
       /\ IF row[t].delivery = "Pending"
          THEN /\ Claimed(t)
               /\ drain' = [drain EXCEPT ![d].todo = @ \ {t}, ![d].tx = t]
               /\ wire' = wire \union {t}
          ELSE /\ drain' = [drain EXCEPT ![d].todo = @ \ {t},
                                         ![d].seen[t] = 0]
               /\ UNCHANGED <<row, wire>>
  /\ UNCHANGED <<next, today, sweep, request, provider, booking, lost, cuts,
                 repushes>>

Finished(d) ==
  drain' = [drain EXCEPT ![d].tx = NoTx, ![d].seen[drain[d].tx] = 0]

\* Mutant: a 202 is taken for the provider's verdict.
RecordAccepted_AsProcessed(d) ==
  LET t == drain[d].tx IN
  /\ t # NoTx
  /\ provider[t] # "unknown"
  /\ row' = [row EXCEPT ![t].delivery = "Processed", ![t].event = "PROCESSED"]
  /\ Finished(d)
  /\ UNCHANGED <<next, today, sweep, request, wire, provider, booking, lost,
                 cuts, repushes>>

\* E0000, or E0007 for an id the provider already holds.
RecordAccepted(d) ==
  LET t == drain[d].tx IN
  /\ t # NoTx
  /\ provider[t] # "unknown"
  /\ row' = [row EXCEPT ![t].delivery = "Accepted", ![t].due = TRUE]
  /\ Finished(d)
  /\ UNCHANGED <<next, today, sweep, request, wire, provider, booking, lost,
                 cuts, repushes>>

\* Any other 4xx or a missing API key (the event goes nowhere), or a 2xx
\* whose body does not parse (the provider may well hold it).
RecordRefused(d) ==
  LET t == drain[d].tx IN
  /\ t # NoTx
  /\ \/ t \in wire /\ wire' = wire \ {t}
     \/ provider[t] # "unknown" /\ UNCHANGED wire
  /\ row' = [row EXCEPT ![t].delivery = "Abandoned", ![t].due = TRUE]
  /\ Finished(d)
  /\ UNCHANGED <<next, today, sweep, request, provider, booking, lost,
                 cuts, repushes>>

\* Mutant: one attempt too many.
RecordRetryable_OffByOne(d) ==
  LET t == drain[d].tx IN
  /\ t # NoTx
  /\ IF drain[d].seen[t] + 1 > MaxAttempts
     THEN row' = [row EXCEPT ![t].delivery = "Abandoned", ![t].due = TRUE]
     ELSE UNCHANGED row
  /\ Finished(d)
  /\ UNCHANGED <<next, today, sweep, request, wire, provider, booking, lost,
                 cuts, repushes>>

\* 429, 5xx, or no answer within REQUEST_TIMEOUT_MS. The attempt count that
\* decides is the one of the snapshot.
RecordRetryable(d) ==
  LET t == drain[d].tx IN
  /\ t # NoTx
  /\ IF drain[d].seen[t] + 1 >= MaxAttempts
     THEN row' = [row EXCEPT ![t].delivery = "Abandoned", ![t].due = TRUE]
     ELSE UNCHANGED row
  /\ Finished(d)
  /\ UNCHANGED <<next, today, sweep, request, wire, provider, booking, lost,
                 cuts, repushes>>

Drain(d) == \/ ReadDue(d) \/ ClaimForSend(d) \/ RecordAccepted(d)
            \/ RecordRefused(d) \/ RecordRetryable(d)

-----------------------------------------------------------------------------
(* Sweeps: TajdeedDispatcherService.confirm, applyStatus and               *)
(* scheduleRejectionRetry.                                                 *)

ReadAwaiting(s) ==
  /\ sweep[s].pc = "idle"
  /\ findAwaitingConfirmation # {}
  /\ sweep' = [sweep EXCEPT ![s] = [@ EXCEPT
       !.pc = "asked", !.batch = findAwaitingConfirmation]]
  /\ UNCHANGED <<row, next, today, drain, request, wire, provider, booking,
                 lost, cuts, repushes>>

\* What the provider answers about an id.
StatusOf(t) ==
  CASE provider[t] = "unknown" -> "NOT_FOUND"
    [] provider[t] = "received" -> "RECEIVED"
    [] provider[t] = "processed" -> "PROCESSED"
    [] OTHER -> "FAILED"

answers(batch) ==
  [t \in Tx |-> IF t \in batch THEN StatusOf(t) ELSE NoStatus]

\* The provider answers for the whole batch; it is applied row by row later.
Reconcile(s) ==
  /\ sweep[s].pc = "asked"
  /\ sweep' = [sweep EXCEPT ![s] = [@ EXCEPT
       !.pc = "applying", !.result = answers(sweep[s].batch)]]
  /\ UNCHANGED <<row, next, today, drain, request, wire, provider, booking,
                 lost, cuts, repushes>>

\* The call failed: every row stays as it was.
ReconcileFailed(s) ==
  /\ sweep[s].pc = "asked"
  /\ sweep' = [sweep EXCEPT ![s] = Asleep]
  /\ UNCHANGED <<row, next, today, drain, request, wire, provider, booking,
                 lost, cuts, repushes>>

\* The state of sweep s once it is done with t.
Without(s, t) ==
  [pc |-> IF sweep[s].batch \subseteq {t} THEN "idle" ELSE "applying",
   batch |-> sweep[s].batch \ {t},
   result |-> [sweep[s].result EXCEPT ![t] = NoStatus],
   tx |-> NoTx]

Answered(s, t, status) ==
  /\ sweep[s].pc = "applying"
  /\ t \in sweep[s].batch
  /\ sweep[s].result[t] = status

ApplyInFlight(s, t) ==
  /\ Answered(s, t, "RECEIVED")
  /\ row' = [row EXCEPT ![t].event = "RECEIVED"]
  /\ sweep' = [sweep EXCEPT ![s] = Without(s, t)]
  /\ UNCHANGED <<next, today, drain, request, wire, provider, booking, lost,
                 cuts, repushes>>

ApplyProcessed(s, t) ==
  /\ Answered(s, t, "PROCESSED")
  /\ row' = [row EXCEPT ![t].delivery = "Processed", ![t].event = "PROCESSED"]
  /\ sweep' = [sweep EXCEPT ![s] = Without(s, t)]
  /\ UNCHANGED <<next, today, drain, request, wire, provider, booking, lost,
                 cuts, repushes>>

\* Mutant: the provider's status lands in our delivery_status.
ApplyNotFound_WrongColumn(s, t) ==
  /\ Answered(s, t, "NOT_FOUND")
  /\ row' = [row EXCEPT ![t].delivery = "NOT_FOUND", ![t].due = TRUE]
  /\ sweep' = [sweep EXCEPT ![s] = Without(s, t)]
  /\ UNCHANGED <<next, today, drain, request, wire, provider, booking, lost,
                 cuts, repushes>>

\* Sent again under the same id, at once.
ApplyNotFound(s, t) ==
  /\ Answered(s, t, "NOT_FOUND")
  /\ row' = [row EXCEPT ![t] = [@ EXCEPT
       !.delivery = "Pending", !.event = "NOT_FOUND", !.due = TRUE]]
  /\ sweep' = [sweep EXCEPT ![s] = Without(s, t)]
  /\ UNCHANGED <<next, today, drain, request, wire, provider, booking, lost,
                 cuts, repushes>>

\* Mutant: the rejection is noted but the row is not closed.
ApplyFailed_LeftOpen(s, t, probed) ==
  /\ Answered(s, t, "FAILED")
  /\ row' = [row EXCEPT ![t].event = "FAILED", ![t].recoverable = probed]
  /\ sweep' = [sweep EXCEPT ![s] = Without(s, t)]
  /\ UNCHANGED <<next, today, drain, request, wire, provider, booking, lost,
                 cuts, repushes>>

\* Close the row and read the reason, which is lost when the probe fails.
\* An inspection result rejected recoverably on the day of its row is
\* considered for a retry before the sweep goes on.
ApplyFailed(s, t, probed) ==
  LET recoverable == probed /\ provider[t] = "notCheckedIn"
      retry == recoverable /\ row[t].job # NoJob /\ row[t].day = today
  IN
  /\ Answered(s, t, "FAILED")
  /\ row' = [row EXCEPT ![t] = [@ EXCEPT
       !.delivery = "Failed", !.event = "FAILED", !.recoverable = recoverable]]
  /\ sweep' = [sweep EXCEPT ![s] = IF retry
                 THEN [Without(s, t) EXCEPT !.pc = "check", !.tx = t]
                 ELSE Without(s, t)]
  /\ UNCHANGED <<next, today, drain, request, wire, provider, booking, lost,
                 cuts, repushes>>

Resume(s) ==
  [sweep[s] EXCEPT
     !.pc = IF sweep[s].batch = {} THEN "idle" ELSE "applying", !.tx = NoTx]

\* hasLiveResult: one live event per job, so a live row covers the retry.
CheckLive(s) ==
  /\ sweep[s].pc = "check"
  /\ sweep' = [sweep EXCEPT ![s] =
                 IF hasLiveInspectionResult(row[sweep[s].tx].job)
                 THEN Resume(s)
                 ELSE [sweep[s] EXCEPT !.pc = "insert"]]
  /\ UNCHANGED <<row, next, today, drain, request, wire, provider, booking,
                 lost, cuts, repushes>>

\* Mutant: the successor is never saved.
SaveSuccessor_Dropped(s) ==
  /\ sweep[s].pc = "insert"
  /\ sweep' = [sweep EXCEPT ![s] = Resume(s)]
  /\ UNCHANGED <<row, next, today, drain, request, wire, provider, booking,
                 lost, cuts, repushes>>

\* repush(), due REJECTION_RETRY_DELAY_MS from now.
SaveSuccessor(s) ==
  /\ sweep[s].pc = "insert"
  /\ Insert(row[sweep[s].tx].job, FALSE, s)
  /\ sweep' = [sweep EXCEPT ![s] = Resume(s)]
  /\ UNCHANGED <<today, drain, request, wire, provider, booking, lost, cuts,
                 repushes>>

Apply(s) == \E t \in Tx :
  \/ ApplyInFlight(s, t)
  \/ ApplyProcessed(s, t)
  \/ ApplyNotFound(s, t)
  \/ \E probed \in BOOLEAN : ApplyFailed(s, t, probed)

Sweep(s) == \/ ReadAwaiting(s) \/ Reconcile(s) \/ ReconcileFailed(s)
            \/ Apply(s) \/ CheckLive(s) \/ SaveSuccessor(s)

-----------------------------------------------------------------------------
(* The provider (external): an id is held once, decided once, and may be   *)
(* forgotten while undecided. A POST can arrive after its sender gave up.  *)

Arrive(t) ==
  /\ t \in wire
  /\ wire' = wire \ {t}
  /\ provider' = [provider EXCEPT ![t] = IF @ = "unknown" THEN "received"
                                                          ELSE @]
  /\ UNCHANGED <<row, next, today, drain, sweep, request, booking, lost,
                 cuts, repushes>>

\* An inspection result is applied to a booking that is checked in, once.
Decide(t) ==
  /\ provider[t] = "received"
  /\ LET j == row[t].job IN
     \/ /\ j = NoJob
        /\ provider' = [provider EXCEPT ![t] = "processed"]
        /\ UNCHANGED booking
     \/ /\ j # NoJob /\ booking[j] = "checkedIn"
        /\ provider' = [provider EXCEPT ![t] = "processed"]
        /\ booking' = [booking EXCEPT ![j] = "completed"]
     \/ /\ j # NoJob /\ booking[j] = "expected"
        /\ provider' = [provider EXCEPT ![t] = "notCheckedIn"]
        /\ UNCHANGED booking
     \/ /\ provider' = [provider EXCEPT ![t] = "refused"]
        /\ UNCHANGED booking
  /\ UNCHANGED <<row, next, today, drain, sweep, request, wire, lost, cuts,
                 repushes>>

Forget(t) ==
  /\ provider[t] = "received"
  /\ lost < LossLimit
  /\ provider' = [provider EXCEPT ![t] = "unknown"]
  /\ lost' = lost + 1
  /\ UNCHANGED <<row, next, today, drain, sweep, request, wire, booking,
                 cuts, repushes>>

CheckIn(j) ==
  /\ booking[j] = "expected"
  /\ booking' = [booking EXCEPT ![j] = "checkedIn"]
  /\ UNCHANGED <<row, next, today, drain, sweep, request, wire, provider,
                 lost, cuts, repushes>>

-----------------------------------------------------------------------------
(* Time, and actors cut short: a database error caught by the tick, or the *)
(* process stopping (then every actor is cut short).                       *)

BackoffElapses(t) ==
  /\ row[t].delivery = "Pending"
  /\ ~ row[t].due
  /\ row' = [row EXCEPT ![t].due = TRUE]
  /\ UNCHANGED <<next, today, drain, sweep, request, wire, provider, booking,
                 lost, cuts, repushes>>

NewDay ==
  /\ today < LastDay
  /\ today' = today + 1
  /\ UNCHANGED <<row, next, drain, sweep, request, wire, provider, booking,
                 lost, cuts, repushes>>

Interrupt ==
  /\ cuts < InterruptLimit
  /\ cuts' = cuts + 1
  /\ \/ \E d \in Drains : /\ drain[d] # Resting
                          /\ drain' = [drain EXCEPT ![d] = Resting]
                          /\ UNCHANGED <<sweep, request>>
     \/ \E s \in Sweeps : /\ sweep[s] # Asleep
                          /\ sweep' = [sweep EXCEPT ![s] = Asleep]
                          /\ UNCHANGED <<drain, request>>
     \/ \E q \in Requests : /\ request[q] # Free
                            /\ request' = [request EXCEPT ![q] = Free]
                            /\ UNCHANGED <<drain, sweep>>
  /\ UNCHANGED <<row, next, today, wire, provider, booking, lost, repushes>>

-----------------------------------------------------------------------------
Init ==
  /\ row = [t \in Tx |-> NoRow]
  /\ next = 1
  /\ today = 0
  /\ drain = [d \in Drains |-> Resting]
  /\ sweep = [s \in Sweeps |-> Asleep]
  /\ request = [q \in Requests |-> Free]
  /\ wire = {}
  /\ provider = [t \in Tx |-> "unknown"]
  /\ booking = [j \in Jobs |-> "expected"]
  /\ lost = 0
  /\ cuts = 0
  /\ repushes = 0

Request(q) == \/ \E j \in Jobs : EnqueueResult(q, j) \/ PushNow(q, j)
              \/ SaveRow(q)
              \/ EnqueueLane(q)
              \/ \E t \in Tx : Repush(q, t)

Provider == \/ \E t \in Tx : Arrive(t) \/ Decide(t) \/ Forget(t)
            \/ \E j \in Jobs : CheckIn(j)

Next == \/ \E d \in Drains : Drain(d)
        \/ \E s \in Sweeps : Sweep(s)
        \/ \E q \in Requests : Request(q)
        \/ Provider
        \/ \E t \in Tx : BackoffElapses(t)
        \/ NewDay
        \/ Interrupt

Spec == Init /\ [][Next]_vars

\* The timers fire again and again, so every tick that can take a step takes
\* one; a backoff elapses; the provider works its queue, and its reconcile
\* endpoint answers now and then.
Fairness ==
  /\ \A d \in Drains : WF_vars(Drain(d))
  /\ \A s \in Sweeps : WF_vars(Sweep(s)) /\ SF_vars(Reconcile(s))
  /\ \A t \in Tx : WF_vars(BackoffElapses(t)) /\ WF_vars(Decide(t))

FairSpec == Spec /\ Fairness

-----------------------------------------------------------------------------
(* Properties.                                                             *)

\* No status lies: a row is Processed (Failed) only if the provider applied
\* (rejected) that very transaction, whatever ticks overlapped in between.
StatusTruth == \A t \in Tx :
  /\ row[t].delivery = "Processed" => provider[t] = "processed"
  /\ row[t].delivery = "Failed" => provider[t] \in Rejections

\* Write-ahead: the provider never holds, and no request carries, an id that
\* is not in the table with the attempt counted; so a stop at any point
\* leaves a row from which the send is resumed under the same id.
WriteAhead == \A t \in Tx :
  t \in wire \/ provider[t] # "unknown" =>
    row[t].delivery # "None" /\ row[t].attempts >= 1

\* A row that awaits the provider's verdict is one confirm() still asks
\* about ("they stay in the sweep until they reach a terminal answer").
AwaitedUntilTerminal == \A t \in Tx :
  row[t].delivery = "Accepted" => row[t].event \in AwaitedStatus

\* Processed, Failed and Abandoned are terminal: no late answer of a drain
\* or of a sweep moves a row out of them.
TerminalStays == [][\A t \in Tx :
  row[t].delivery \in Terminal => row'[t].delivery = row[t].delivery]_vars

\* MAX_ATTEMPTS bounds the sends of a row, but for one more send for every
\* event the provider forgot and every drain that was cut short.
AttemptBudget == \A t \in Tx : row[t].attempts <= MaxAttempts + lost + cuts

\* No fan-out: unless someone used the re-push endpoint, which clones any row,
\* two live results of one job come from different actors, so there are never
\* more of them than actors racing, and rejections in one sweep do not double
\* the queue.
NoFanOut == \A t, u \in Tx :
  /\ repushes = 0
  /\ t # u
  /\ row[t].job # NoJob
  /\ row[t].job = row[u].job
  /\ row[t].delivery \in Live
  /\ row[u].delivery \in Live
  => row[t].by # row[u].by

\* "One live event per job is the invariant".
OneLivePerJob == \A t, u \in Tx :
  /\ row[t].job # NoJob
  /\ row[t].job = row[u].job
  /\ row[t].delivery \in Live
  /\ row[u].delivery \in Live
  => t = u

\* A claimed row is not sent by two drains at once.
ClaimExclusive == \A d, e \in Drains :
  drain[d].tx # NoTx /\ drain[d].tx = drain[e].tx => d = e

\* A rejection that may clear is dropped only by a tick that was cut short:
\* while a job's rows are all recoverable rejections of today, some sweep is
\* about to raise a successor.
RejectionCovered == \A j \in Jobs :
  /\ cuts = 0
  /\ RowsOf(j) # {}
  /\ \A t \in RowsOf(j) : /\ row[t].delivery = "Failed"
                          /\ row[t].recoverable
                          /\ row[t].day = today
  => \/ next > MaxTx
     \/ \E s \in Sweeps : /\ sweep[s].pc \in {"check", "insert"}
                          /\ row[sweep[s].tx].job = j

\* "an event that has not landed by midnight never will": a sweep decides to
\* retry no job whose result was already rejected on an earlier Oman day.
NoRetryPastMidnight == [][\A s \in Sweeps, t \in Tx :
  ApplyFailed(s, t, TRUE) /\ sweep'[s].pc = "check" =>
    \A u \in RowsOf(row[t].job) :
      row[u].delivery = "Failed" => row[u].day = today]_vars

\* "a live or already delivered event blocks a second copy": enqueue() goes
\* on to insert only if the provider holds no result of the job.
NoSecondCopy == [][\A q \in Requests, j \in Jobs :
  EnqueueResult(q, j) => \A t \in RowsOf(j) : provider[t] = "unknown"]_vars

\* The outbox implements the filing of events as a whole: see EventFiling.
Stage == [t \in Tx |->
  CASE row[t].delivery = "None" -> "none"
    [] row[t].delivery \in Live -> "owed"
    [] row[t].delivery = "Processed" -> "applied"
    [] row[t].delivery = "Failed" -> "rejected"
    [] OTHER -> "abandoned"]

Verdict == [t \in Tx |->
  CASE provider[t] = "processed" -> "applied"
    [] provider[t] \in Rejections -> "rejected"
    [] OTHER -> "none"]

Filing == INSTANCE EventFiling WITH stage <- Stage, verdict <- Verdict

FilingSpec == Filing!Spec

\* Nothing is owed forever: at any time every row will still come to be at
\* rest, not written yet or in a terminal status.
RowsSettle == []<>(\A t \in Tx : row[t].delivery \notin Live)

=============================================================================
