----------------------------- MODULE VisitQueue -----------------------------
(***************************************************************************)
(* The queue of one vehicle's visits to one centre: bookings mirrored from *)
(* the appointment provider, the appointments they are promoted to, walk-  *)
(* ins raised at reception, the payments of both, and the jobs they become.*)
(* Three kinds of actors write the same rows, each over several database   *)
(* calls:                                                                  *)
(*                                                                         *)
(*   - ingest cycles, one per poll of a centre's day; polls overlap;       *)
(*   - clerks, the requests of operators (register, cancel, convert);      *)
(*   - captures, each with the pipeline that runs once ROP has verified    *)
(*     the vehicle: attach to an appointment, then convert it unattended.  *)
(*                                                                         *)
(* appointmentDao.update patches the columns it names. appointmentDao.save *)
(* compares the entity it is given with the row and writes every column    *)
(* that differs, so it undoes what was written since the entity was read.  *)
(*                                                                         *)
(* The appointment of a booking is named by the booking: the unique index  *)
(* on provider_booking_id allows one. A paid booking carries a reference.  *)
(***************************************************************************)
EXTENDS Integers, FiniteSets

CONSTANTS
  Bookings,        \* provider bookings of the vehicle
  WalkIns,         \* walk-in appointments reception may raise
  NoBooking,       \* no booking, no appointment
  Cycles,          \* concurrent executions of ingestCentre()
  Clerks,          \* concurrent operator requests
  MaxCaptures,     \* bound: captures of the vehicle
  LastDay,         \* bound: Oman days, 0 .. LastDay
  ChangeLimit,     \* bound: changes of a booking at the provider
  MaxJobs,         \* bound: jobs of one appointment
  InterruptLimit   \* bound: actors cut short (restart, database error)

Appts == Bookings \union WalkIns
Captures == 1 .. MaxCaptures
NoCapture == 0
Desk == Clerks \union Captures

ASSUME NamesAssumption ==
  /\ Bookings \intersect WalkIns = {}
  /\ NoBooking \notin Appts
  /\ Clerks \intersect Captures = {}
  /\ Cycles \intersect Desk = {}

ASSUME LimitsAssumption ==
  /\ MaxCaptures \in Nat
  /\ LastDay \in Nat
  /\ ChangeLimit \in Nat
  /\ MaxJobs \in Nat \ {0}
  /\ InterruptLimit \in Nat

VARIABLES
  today,     \* the Oman day
  upstream,  \* the provider's bookings
  held,      \* appointment_bookings: the local mirror of them
  appt,      \* appointments
  pay,       \* payments, by the appointment they belong to
  jobs,      \* how many jobs each appointment became
  cycle,     \* local state of each ingest cycle
  desk,      \* local state of each clerk and each capture's pipeline
  changes,   \* how often the provider changed a booking
  cuts       \* how often an actor was cut short

vars == <<today, upstream, held, appt, pay, jobs, cycle, desk, changes, cuts>>

-----------------------------------------------------------------------------
(* Types.                                                                  *)

Days == 0 .. LastDay

Upstream == [listed : BOOLEAN, day : Days, paid : BOOLEAN]

Held == [known : BOOLEAN, withdrawn : BOOLEAN, linked : BOOLEAN, day : Days,
         paid : BOOLEAN]

\* day: the Oman day of appointment_at; created: that of created_at; settled:
\* provider_payment_status is PAID or FREE; blocked: what
\* auto_convert_blocked_reason says; removed: is_deleted.
Appointment == [status : {"none", "Queued", "Converted", "Cancelled"},
                day : Days, created : Days, capture : Captures \union {NoCapture},
                settled : BOOLEAN, blocked : {"none", "withdrawn", "gate"},
                removed : BOOLEAN]

Payment == [status : {"none", "Paid", "Cancelled"}, job : 0 .. MaxJobs]

NoAppt == [status |-> "none", day |-> 0, created |-> 0,
           capture |-> NoCapture, settled |-> FALSE, blocked |-> "none",
           removed |-> FALSE]
NotHeld == [known |-> FALSE, withdrawn |-> FALSE, linked |-> FALSE, day |-> 0,
            paid |-> FALSE]

Idle == [pc |-> "idle", day |-> 0, list |-> [b \in Bookings |-> "gone"],
         todo |-> {}, rows |-> [b \in Bookings |-> NotHeld],
         cur |-> NoBooking, snap |-> NoAppt]
Free == [pc |-> "idle", appt |-> NoBooking, snap |-> NoAppt, job |-> 0,
         seen |-> 0]

CycleState ==
  [pc : {"idle", "upsert", "promote", "insert", "link", "pay", "sync",
         "withdrawn", "unpay", "restore", "save"},
   day : Days, list : [Bookings -> {"gone", "unpaid", "paid"}],
   todo : SUBSET Bookings, rows : [Bookings -> Held],
   cur : Bookings \union {NoBooking}, snap : Appointment]

\* seen: the Oman day of the capture's capture_time.
DeskState ==
  [pc : {"idle", "register", "collect", "refund", "cancel", "remove", "create",
         "convert", "linkPay", "match", "attach", "auto", "done"},
   appt : Appts \union {NoBooking}, snap : Appointment, job : 0 .. MaxJobs,
   seen : Days]

TypeOK ==
  /\ today \in Days
  /\ upstream \in [Bookings -> Upstream]
  /\ held \in [Bookings -> Held]
  /\ appt \in [Appts -> Appointment]
  /\ pay \in [Appts -> Payment]
  /\ jobs \in [Appts -> 0 .. MaxJobs]
  /\ cycle \in [Cycles -> CycleState]
  /\ desk \in [Desk -> DeskState]
  /\ changes \in Nat
  /\ cuts \in Nat

-----------------------------------------------------------------------------
(* Queries.  None of them finds a row that is_deleted.                     *)

Found(a) == appt[a].status # "none" /\ ~ appt[a].removed
Queued(a) == Found(a) /\ appt[a].status = "Queued"

\* appointmentExpiry: only a Queued row expires, after its own Oman day.
Expired(a) == Queued(a) /\ appt[a].day < today

\* findOpenByPlate: neither terminal nor an expired queued row.
OpenByPlate == {a \in Appts : Queued(a) /\ ~ Expired(a)}

\* Queued appointments that no vehicle has arrived for.
Waiting(S) == {a \in S : Queued(a) /\ appt[a].capture = NoCapture}

\* Mutant: bookings of any day match.
QueuedByPlate_AnyDay ==
  IF Waiting(Bookings) # {} THEN Waiting(Bookings)
  ELSE {a \in Waiting(Appts) : appt[a].created = today}

\* findQueuedOnlineByPlate takes a booking of today, and else
\* findLatestQueuedByPlate any appointment created today.
QueuedByPlate ==
  LET online == {a \in Waiting(Bookings) : appt[a].day = today}
  IN  IF online # {} THEN online
      ELSE {a \in Waiting(Appts) : appt[a].created = today}

\* findSettledByAppointmentId, or settled at the provider.
Settled(a) == pay[a].status = "Paid" \/ appt[a].settled

\* The gates of createFromAppointment. A Cancelled appointment passes them.
Convertible(a) ==
  /\ Found(a)
  /\ appt[a].status \in {"Queued", "Cancelled"}
  /\ appt[a].capture # NoCapture
  /\ ~ Expired(a)
  /\ Settled(a)

-----------------------------------------------------------------------------
(* AppointmentIngestService.ingestCentre: upsert, withdraw, promote, sync. *)

\* The provider's list of one day, today or later. A failed call ends the
\* cycle before it changed anything.
FetchAppointments(i, d) ==
  LET list == [b \in Bookings |->
                 IF ~ upstream[b].listed \/ upstream[b].day # d THEN "gone"
                 ELSE IF upstream[b].paid THEN "paid" ELSE "unpaid"]
  IN
  /\ cycle[i].pc = "idle"
  /\ d >= today
  /\ cycle' = [cycle EXCEPT ![i] = [Idle EXCEPT
       !.pc = "upsert", !.day = d, !.list = list,
       !.todo = {b \in Bookings : list[b] # "gone"}]]
  /\ UNCHANGED <<today, upstream, held, appt, pay, jobs, desk, changes, cuts>>

\* Mutant: a booking that reappears stays withdrawn.
UpsertBooking_StaysWithdrawn(i) ==
  /\ cycle[i].pc = "upsert"
  /\ \E b \in cycle[i].todo :
       /\ held' = [held EXCEPT ![b] = [@ EXCEPT
            !.known = TRUE, !.day = cycle[i].day,
            !.paid = cycle[i].list[b] = "paid"]]
       /\ cycle' = [cycle EXCEPT ![i].todo = @ \ {b}]
  /\ UNCHANGED <<today, upstream, appt, pay, jobs, desk, changes, cuts>>

\* Insert or refresh one row; reappearing means reinstated.
UpsertBooking(i) ==
  /\ cycle[i].pc = "upsert"
  /\ \E b \in cycle[i].todo :
       /\ held' = [held EXCEPT ![b] = [@ EXCEPT
            !.known = TRUE, !.withdrawn = FALSE, !.day = cycle[i].day,
            !.paid = cycle[i].list[b] = "paid"]]
       /\ cycle' = [cycle EXCEPT ![i].todo = @ \ {b}]
  /\ UNCHANGED <<today, upstream, appt, pay, jobs, desk, changes, cuts>>

\* Rows of the day that the list lacks; then the rows to promote are read,
\* those of every day.
WithdrawMissing(i) ==
  LET gone(b) == /\ held[b].known
                 /\ held[b].day = cycle[i].day
                 /\ cycle[i].list[b] = "gone"
      marked == [b \in Bookings |->
                   [held[b] EXCEPT !.withdrawn = @ \/ gone(b)]]
      findPendingPromotion == {b \in Bookings : /\ marked[b].known
                                                /\ ~ marked[b].linked
                                                /\ ~ marked[b].withdrawn}
  IN
  /\ cycle[i].pc = "upsert"
  /\ cycle[i].todo = {}
  /\ held' = marked
  /\ cycle' = [cycle EXCEPT ![i] = [Idle EXCEPT
       !.pc = "promote", !.day = cycle[i].day, !.todo = findPendingPromotion,
       !.rows = marked]]
  /\ UNCHANGED <<today, upstream, appt, pay, jobs, desk, changes, cuts>>

\* bookingDao.save of the row read for promotion, with its appointment.
SaveLink(i, b) ==
  held' = [held EXCEPT ![b] = [cycle[i].rows[b] EXCEPT !.linked = TRUE]]

\* promote(): already promoted, only link it.
PromoteExisting(i) ==
  /\ cycle[i].pc = "promote"
  /\ \E b \in cycle[i].todo :
       /\ Found(b)
       /\ SaveLink(i, b)
       /\ cycle' = [cycle EXCEPT ![i].todo = @ \ {b}]
  /\ UNCHANGED <<today, upstream, appt, pay, jobs, desk, changes, cuts>>

\* promote(): an open appointment of the plate leaves the booking pending.
PromoteCheck(i) ==
  /\ cycle[i].pc = "promote"
  /\ \E b \in cycle[i].todo :
       /\ ~ Found(b)
       /\ cycle' = [cycle EXCEPT ![i] =
            IF OpenByPlate # {}
            THEN [@ EXCEPT !.todo = cycle[i].todo \ {b}]
            ELSE [@ EXCEPT !.pc = "insert", !.todo = cycle[i].todo \ {b},
                           !.cur = b]]
  /\ UNCHANGED <<today, upstream, held, appt, pay, jobs, desk, changes, cuts>>

\* The insert of promote(). The unique index refuses a second one, after a
\* removed one too, and the cycle goes on with the next booking.
InsertAppointment(i) ==
  LET b == cycle[i].cur IN
  /\ cycle[i].pc = "insert"
  /\ IF appt[b].status = "none"
     THEN /\ appt' = [appt EXCEPT ![b] = [NoAppt EXCEPT
               !.status = "Queued", !.day = cycle[i].rows[b].day,
               !.created = today,
               !.settled = cycle[i].rows[b].paid]]
          /\ cycle' = [cycle EXCEPT ![i].pc = "link"]
     ELSE /\ cycle' = [cycle EXCEPT ![i] = [@ EXCEPT !.pc = "promote",
                                                     !.cur = NoBooking]]
          /\ UNCHANGED appt
  /\ UNCHANGED <<today, upstream, held, pay, jobs, desk, changes, cuts>>

LinkBooking(i) ==
  /\ cycle[i].pc = "link"
  /\ SaveLink(i, cycle[i].cur)
  /\ cycle' = [cycle EXCEPT ![i].pc = "pay"]
  /\ UNCHANGED <<today, upstream, appt, pay, jobs, desk, changes, cuts>>

\* Mutant: an unpaid booking gets a settled payment.
EnsurePayment_Unpaid(i) ==
  LET b == cycle[i].cur IN
  /\ cycle[i].pc = "pay"
  /\ pay' = [pay EXCEPT ![b].status = "Paid"]
  /\ cycle' = [cycle EXCEPT ![i] = [@ EXCEPT !.pc = "promote",
                                             !.cur = NoBooking]]
  /\ UNCHANGED <<today, upstream, held, appt, jobs, desk, changes, cuts>>

EnsurePayment(i) ==
  LET b == cycle[i].cur IN
  /\ cycle[i].pc = "pay"
  /\ IF cycle[i].rows[b].paid /\ pay[b].status = "none"
     THEN pay' = [pay EXCEPT ![b].status = "Paid"]
     ELSE UNCHANGED pay
  /\ cycle' = [cycle EXCEPT ![i] = [@ EXCEPT !.pc = "promote",
                                             !.cur = NoBooking]]
  /\ UNCHANGED <<today, upstream, held, appt, jobs, desk, changes, cuts>>

\* The state of cycle i once it is done with its current booking.
NextSync(i) ==
  IF cycle[i].todo = {} THEN Idle
  ELSE [cycle[i] EXCEPT !.pc = "sync", !.cur = NoBooking, !.snap = NoAppt]

\* syncPromoted() reads the rows of the day, those with an appointment count.
StartSync(i) ==
  LET rows == {b \in Bookings : /\ held[b].known
                                /\ held[b].linked
                                /\ held[b].day = cycle[i].day}
  IN
  /\ cycle[i].pc = "promote"
  /\ cycle[i].todo = {}
  /\ cycle' = [cycle EXCEPT ![i] =
       IF rows = {} THEN Idle
       ELSE [@ EXCEPT !.pc = "sync", !.todo = rows, !.rows = held]]
  /\ UNCHANGED <<today, upstream, held, appt, pay, jobs, desk, changes, cuts>>

\* A removed appointment is passed over.
SyncRead(i) ==
  /\ cycle[i].pc = "sync"
  /\ \E b \in cycle[i].todo :
       cycle' = [cycle EXCEPT ![i] =
         IF appt[b].removed
         THEN IF cycle[i].todo = {b} THEN Idle
              ELSE [@ EXCEPT !.todo = cycle[i].todo \ {b}]
         ELSE [@ EXCEPT
         !.pc = IF cycle[i].rows[b].withdrawn THEN "withdrawn"
                ELSE IF appt[b].status = "Cancelled" THEN "restore" ELSE "save",
         !.todo = cycle[i].todo \ {b}, !.cur = b, !.snap = appt[b]]]
  /\ UNCHANGED <<today, upstream, held, appt, pay, jobs, desk, changes, cuts>>

\* restorePaymentFor, before the appointment is saved.
RestorePayment(i) ==
  LET b == cycle[i].cur IN
  /\ cycle[i].pc = "restore"
  /\ IF cycle[i].rows[b].paid /\ pay[b].status = "Cancelled"
     THEN pay' = [pay EXCEPT ![b].status = "Paid"]
     ELSE UNCHANGED pay
  /\ cycle' = [cycle EXCEPT ![i].pc = "save"]
  /\ UNCHANGED <<today, upstream, held, appt, jobs, desk, changes, cuts>>

\* Reinstated, unblocked, rescheduled: the entity read is saved if changed.
SaveSynced(i) ==
  LET b == cycle[i].cur
      old == cycle[i].snap
      new == [old EXCEPT
                !.status = IF @ = "Cancelled" THEN "Queued" ELSE @,
                !.blocked = "none",
                !.day = IF old.capture = NoCapture THEN cycle[i].rows[b].day
                                                   ELSE @]
  IN
  /\ cycle[i].pc = "save"
  /\ appt' = IF new = old THEN appt ELSE [appt EXCEPT ![b] = new]
  /\ cycle' = [cycle EXCEPT ![i] = NextSync(i)]
  /\ UNCHANGED <<today, upstream, held, pay, jobs, desk, changes, cuts>>

canAutoCancel(a) == a.status = "Queued" /\ a.capture = NoCapture

\* handleWithdrawn: cancel an untouched placeholder, warn on any other.
AutoCancel(i) ==
  LET b == cycle[i].cur IN
  /\ cycle[i].pc = "withdrawn"
  /\ canAutoCancel(cycle[i].snap)
  /\ appt' = [appt EXCEPT ![b].status = "Cancelled"]
  /\ cycle' = [cycle EXCEPT ![i].pc = "unpay"]
  /\ UNCHANGED <<today, upstream, held, pay, jobs, desk, changes, cuts>>

\* Mutant: the warning is written to the wrong column.
WarnWithdrawn_WrongColumn(i) ==
  LET b == cycle[i].cur IN
  /\ cycle[i].pc = "withdrawn"
  /\ ~ canAutoCancel(cycle[i].snap)
  /\ appt' = [appt EXCEPT ![b].status = "withdrawn"]
  /\ cycle' = [cycle EXCEPT ![i] = NextSync(i)]
  /\ UNCHANGED <<today, upstream, held, pay, jobs, desk, changes, cuts>>

WarnWithdrawn(i) ==
  LET b == cycle[i].cur IN
  /\ cycle[i].pc = "withdrawn"
  /\ ~ canAutoCancel(cycle[i].snap)
  /\ appt' = IF \/ cycle[i].snap.status = "Cancelled"
                \/ cycle[i].snap.blocked = "withdrawn"
             THEN appt
             ELSE [appt EXCEPT ![b].blocked = "withdrawn"]
  /\ cycle' = [cycle EXCEPT ![i] = NextSync(i)]
  /\ UNCHANGED <<today, upstream, held, pay, jobs, desk, changes, cuts>>

\* Mutant: the payment survives the withdrawal.
CancelPaymentFor_Skipped(i) ==
  /\ cycle[i].pc = "unpay"
  /\ cycle' = [cycle EXCEPT ![i] = NextSync(i)]
  /\ UNCHANGED <<today, upstream, held, appt, pay, jobs, desk, changes, cuts>>

CancelPaymentFor(i) ==
  LET b == cycle[i].cur IN
  /\ cycle[i].pc = "unpay"
  /\ IF cycle[i].rows[b].paid /\ pay[b].status = "Paid"
     THEN pay' = [pay EXCEPT ![b].status = "Cancelled"]
     ELSE UNCHANGED pay
  /\ cycle' = [cycle EXCEPT ![i] = NextSync(i)]
  /\ UNCHANGED <<today, upstream, held, appt, jobs, desk, changes, cuts>>

Ingest(i) ==
  \/ \E d \in Days : FetchAppointments(i, d)
  \/ UpsertBooking(i) \/ WithdrawMissing(i)
  \/ PromoteExisting(i) \/ PromoteCheck(i) \/ InsertAppointment(i)
  \/ LinkBooking(i) \/ EnsurePayment(i)
  \/ StartSync(i) \/ SyncRead(i) \/ RestorePayment(i) \/ SaveSynced(i)
  \/ AutoCancel(i) \/ WarnWithdrawn(i) \/ CancelPaymentFor(i)

-----------------------------------------------------------------------------
(* Clerks: AppointmentService.create and cancel; and                       *)
(* JobService.createFromAppointment, which captures use as well.           *)

\* Captures of today, the latest of which a walk-in adopts.
SeenToday == {c \in Captures : desk[c].pc # "idle" /\ desk[c].seen = today}
LatestToday == CHOOSE c \in SeenToday : \A d \in SeenToday : d <= c

\* Mutant: reception does not look for an arrival.
RegisterCheck_NoAdoption(k, a) ==
  /\ desk[k].pc = "idle"
  /\ appt[a].status = "none"
  /\ \A l \in Clerks : desk[l].appt # a
  /\ OpenByPlate = {}
  /\ \E d \in today .. LastDay :
       desk' = [desk EXCEPT ![k] = [@ EXCEPT !.pc = "register", !.appt = a,
         !.snap = [NoAppt EXCEPT
           !.status = "Queued", !.day = d, !.created = today]]]
  /\ UNCHANGED <<today, upstream, held, appt, pay, jobs, cycle, changes, cuts>>

\* create(): adopt today's arrival, then refuse a second open appointment.
RegisterCheck(k, a) ==
  /\ desk[k].pc = "idle"
  /\ appt[a].status = "none"
  /\ \A l \in Clerks : desk[l].appt # a
  /\ OpenByPlate = {}
  /\ \E d \in today .. LastDay :
       desk' = [desk EXCEPT ![k] = [@ EXCEPT !.pc = "register", !.appt = a,
         !.snap = [NoAppt EXCEPT
           !.status = "Queued", !.day = d, !.created = today,
           !.capture = IF SeenToday = {} THEN NoCapture ELSE LatestToday]]]
  /\ UNCHANGED <<today, upstream, held, appt, pay, jobs, cycle, changes, cuts>>

RegisterWalkIn(k) ==
  /\ desk[k].pc = "register"
  /\ appt' = [appt EXCEPT ![desk[k].appt] = desk[k].snap]
  /\ desk' = [desk EXCEPT ![k].pc = "collect"]
  /\ UNCHANGED <<today, upstream, held, pay, jobs, cycle, changes, cuts>>

\* recordWalkInPayment: collected, or FOC.
CollectPayment(k) ==
  /\ desk[k].pc = "collect"
  /\ pay' = IF pay[desk[k].appt].status = "Paid" THEN pay
            ELSE [pay EXCEPT ![desk[k].appt].status = "Paid"]
  /\ desk' = [desk EXCEPT ![k] = Free]
  /\ UNCHANGED <<today, upstream, held, appt, jobs, cycle, changes, cuts>>

\* cancel(): refused once Converted, done already if Cancelled. The reason an
\* operator may give replaces the note on the appointment; its text is left out.
CancelRead(k, a) ==
  /\ desk[k].pc = "idle"
  /\ Queued(a)
  /\ desk' = [desk EXCEPT ![k] = [@ EXCEPT !.pc = "refund", !.appt = a]]
  /\ UNCHANGED <<today, upstream, held, appt, pay, jobs, cycle, changes, cuts>>

\* Mutant: the payment of a cancelled visit stays settled.
CancelPayment_Skipped(k) ==
  /\ desk[k].pc = "refund"
  /\ desk' = [desk EXCEPT ![k].pc = "cancel"]
  /\ UNCHANGED <<today, upstream, held, appt, pay, jobs, cycle, changes, cuts>>

\* The settled payment is Cancelled before the appointment is.
CancelPayment(k) ==
  /\ desk[k].pc = "refund"
  /\ pay' = IF pay[desk[k].appt].status = "Paid"
            THEN [pay EXCEPT ![desk[k].appt].status = "Cancelled"]
            ELSE pay
  /\ desk' = [desk EXCEPT ![k].pc = "cancel"]
  /\ UNCHANGED <<today, upstream, held, appt, jobs, cycle, changes, cuts>>

SaveCancelled(k) ==
  /\ desk[k].pc = "cancel"
  /\ appt' = [appt EXCEPT ![desk[k].appt] = [@ EXCEPT
       !.status = "Cancelled", !.blocked = "none"]]
  /\ desk' = [desk EXCEPT ![k] = Free]
  /\ UNCHANGED <<today, upstream, held, pay, jobs, cycle, changes, cuts>>

\* remove(): not a converted one. The payment is left as it is.
RemoveRead(k, a) ==
  /\ desk[k].pc = "idle"
  /\ Found(a)
  /\ appt[a].status # "Converted"
  /\ desk' = [desk EXCEPT ![k] = [@ EXCEPT !.pc = "remove", !.appt = a, !.snap = appt[a]]]
  /\ UNCHANGED <<today, upstream, held, appt, pay, jobs, cycle, changes, cuts>>

\* appointmentDao.save of the entity read, after its details were looked up.
SaveRemoved(k) ==
  /\ desk[k].pc = "remove"
  /\ appt' = [appt EXCEPT ![desk[k].appt] = [desk[k].snap EXCEPT !.removed = TRUE]]
  /\ desk' = [desk EXCEPT ![k] = Free]
  /\ UNCHANGED <<today, upstream, held, pay, jobs, cycle, changes, cuts>>

\* The appointment is read, and every gate passes.
StartConvert(x, a) ==
  desk' = [desk EXCEPT ![x] = [@ EXCEPT
    !.pc = "create", !.appt = a, !.snap = appt[a]]]

\* Mutant: a vehicle that was never captured is converted.
ConvertRead_NoArrival(k, a) ==
  /\ desk[k].pc = "idle"
  /\ appt[a].status \in {"Queued", "Cancelled"}
  /\ Settled(a)
  /\ StartConvert(k, a)
  /\ UNCHANGED <<today, upstream, held, appt, pay, jobs, cycle, changes, cuts>>

\* POST jobs/from-appointment/:id.
ConvertRead(k, a) ==
  /\ desk[k].pc = "idle"
  /\ Convertible(a)
  /\ StartConvert(k, a)
  /\ UNCHANGED <<today, upstream, held, appt, pay, jobs, cycle, changes, cuts>>

CreateJob(x) ==
  LET a == desk[x].appt IN
  /\ desk[x].pc = "create"
  /\ jobs[a] < MaxJobs
  /\ jobs' = [jobs EXCEPT ![a] = @ + 1]
  /\ desk' = [desk EXCEPT ![x] = [@ EXCEPT !.pc = "convert",
                                           !.job = jobs[a] + 1]]
  /\ UNCHANGED <<today, upstream, held, appt, pay, cycle, changes, cuts>>

\* Mutant: the appointment is not marked.
SaveConverted_Dropped(x) ==
  /\ desk[x].pc = "convert"
  /\ desk' = [desk EXCEPT ![x].pc = "linkPay"]
  /\ UNCHANGED <<today, upstream, held, appt, pay, jobs, cycle, changes, cuts>>

\* appointmentDao.save of the entity the gates read.
SaveConverted(x) ==
  /\ desk[x].pc = "convert"
  /\ appt' = [appt EXCEPT ![desk[x].appt] =
                [desk[x].snap EXCEPT !.status = "Converted"]]
  /\ desk' = [desk EXCEPT ![x].pc = "linkPay"]
  /\ UNCHANGED <<today, upstream, held, pay, jobs, cycle, changes, cuts>>

\* linkExistingPaymentToJob takes any payment of the appointment. After an
\* unattended conversion nothing blocks the appointment any more.
LinkPayment(x) ==
  LET a == desk[x].appt IN
  /\ desk[x].pc = "linkPay"
  /\ pay' = IF pay[a].status # "none" /\ pay[a].job = 0
            THEN [pay EXCEPT ![a].job = desk[x].job] ELSE pay
  /\ appt' = IF x \in Captures /\ desk[x].snap.blocked # "none"
             THEN [appt EXCEPT ![a].blocked = "none"] ELSE appt
  /\ desk' = [desk EXCEPT ![x] =
       IF x \in Captures THEN [Free EXCEPT !.pc = "done",
                                               !.seen = desk[x].seen]
                         ELSE Free]
  /\ UNCHANGED <<today, upstream, held, jobs, cycle, changes, cuts>>

Convert(x) == CreateJob(x) \/ SaveConverted(x) \/ LinkPayment(x)

-----------------------------------------------------------------------------
(* Captures: CaptureValidationService.applyRopFetched.                     *)

\* The camera reads the plate and ROP verifies it.
Capture(c) ==
  /\ desk[c].pc = "idle"
  /\ \A d \in Captures : d < c => desk[d].pc # "idle"
  /\ desk' = [desk EXCEPT ![c] = [@ EXCEPT !.pc = "match", !.seen = today]]
  /\ UNCHANGED <<today, upstream, held, appt, pay, jobs, cycle, changes, cuts>>

\* attachCaptureToAppointment looks for today's appointment, for a capture of
\* today only.
Match(c) ==
  LET match == IF desk[c].seen = today THEN QueuedByPlate ELSE {} IN
  /\ desk[c].pc = "match"
  /\ \/ \E a \in match :
          desk' = [desk EXCEPT ![c] = [@ EXCEPT !.pc = "attach", !.appt = a]]
     \/ /\ match = {}
        /\ desk' = [desk EXCEPT ![c].pc = "auto"]
  /\ UNCHANGED <<today, upstream, held, appt, pay, jobs, cycle, changes, cuts>>

Attach(c) ==
  /\ desk[c].pc = "attach"
  /\ appt' = [appt EXCEPT ![desk[c].appt].capture = c]
  /\ desk' = [desk EXCEPT ![c] = [@ EXCEPT !.pc = "auto", !.appt = NoBooking]]
  /\ UNCHANGED <<today, upstream, held, pay, jobs, cycle, changes, cuts>>

\* findByAnprCaptureId, an online booking that is still queued.
AutoCandidates(c) == {a \in Bookings : /\ appt[a].capture = c
                                       /\ Queued(a)}

\* Paid at the provider: convert it with a free line and its user.
AutoConvert(c) ==
  /\ desk[c].pc = "auto"
  /\ \E a \in AutoCandidates(c) : /\ appt[a].settled
                                  /\ Convertible(a)
                                  /\ StartConvert(c, a)
  /\ UNCHANGED <<today, upstream, held, appt, pay, jobs, cycle, changes, cuts>>

Finished(c) ==
  desk' = [desk EXCEPT ![c] = [Free EXCEPT !.pc = "done",
                                           !.seen = desk[c].seen]]

\* Unpaid, or no customer, driver, chassis or line: the reason is noted and
\* the appointment stays queued for an operator.
AutoBlocked(c) ==
  /\ desk[c].pc = "auto"
  /\ \E a \in AutoCandidates(c) : appt' = [appt EXCEPT ![a].blocked = "gate"]
  /\ Finished(c)
  /\ UNCHANGED <<today, upstream, held, pay, jobs, cycle, changes, cuts>>

NothingToConvert(c) ==
  /\ desk[c].pc = "auto"
  /\ AutoCandidates(c) = {}
  /\ Finished(c)
  /\ UNCHANGED <<today, upstream, held, appt, pay, jobs, cycle, changes, cuts>>

Clerk(k) ==
  \/ \E a \in WalkIns : RegisterCheck(k, a)
  \/ RegisterWalkIn(k) \/ CollectPayment(k)
  \/ \E a \in Appts : CancelRead(k, a) \/ RemoveRead(k, a) \/ ConvertRead(k, a)
  \/ CancelPayment(k) \/ SaveCancelled(k) \/ SaveRemoved(k)
  \/ Convert(k)

Arrival(c) ==
  \/ Capture(c) \/ Match(c) \/ Attach(c)
  \/ AutoConvert(c) \/ AutoBlocked(c) \/ NothingToConvert(c)
  \/ Convert(c)

-----------------------------------------------------------------------------
(* The provider (external), time, and actors cut short.                    *)

Change(b, new) ==
  /\ changes < ChangeLimit
  /\ changes' = changes + 1
  /\ upstream' = [upstream EXCEPT ![b] = new]
  /\ UNCHANGED <<today, held, appt, pay, jobs, cycle, desk, cuts>>

\* A customer books, pays, moves the slot, cancels, and books again.
Book(b) ==
  /\ ~ upstream[b].listed
  /\ \E d \in today .. LastDay, p \in BOOLEAN :
       Change(b, [listed |-> TRUE, day |-> d, paid |-> p \/ upstream[b].paid])
SettleUpstream(b) ==
  /\ upstream[b].listed
  /\ ~ upstream[b].paid
  /\ Change(b, [upstream[b] EXCEPT !.paid = TRUE])
Reschedule(b) ==
  /\ upstream[b].listed
  /\ \E d \in (today .. LastDay) \ {upstream[b].day} :
       Change(b, [upstream[b] EXCEPT !.day = d])
Withdraw(b) ==
  /\ upstream[b].listed
  /\ Change(b, [upstream[b] EXCEPT !.listed = FALSE])

Provider(b) == Book(b) \/ SettleUpstream(b) \/ Reschedule(b) \/ Withdraw(b)

NewDay ==
  /\ today < LastDay
  /\ today' = today + 1
  /\ UNCHANGED <<upstream, held, appt, pay, jobs, cycle, desk, changes, cuts>>

\* A pipeline that is cut short is never resumed.
Interrupt ==
  /\ cuts < InterruptLimit
  /\ cuts' = cuts + 1
  /\ \/ \E i \in Cycles : /\ cycle[i].pc # "idle"
                          /\ cycle' = [cycle EXCEPT ![i] = Idle]
                          /\ UNCHANGED desk
     \/ \E x \in Desk : /\ desk[x].pc \notin {"idle", "done"}
                        /\ desk' = [desk EXCEPT ![x] =
                             IF x \in Clerks THEN Free
                             ELSE [Free EXCEPT !.pc = "done",
                                               !.seen = desk[x].seen]]
                        /\ UNCHANGED cycle
  /\ UNCHANGED <<today, upstream, held, appt, pay, jobs, changes>>

-----------------------------------------------------------------------------
Init ==
  /\ today = 0
  /\ upstream = [b \in Bookings |-> [listed |-> FALSE, day |-> 0,
                                     paid |-> FALSE]]
  /\ held = [b \in Bookings |-> NotHeld]
  /\ appt = [a \in Appts |-> NoAppt]
  /\ pay = [a \in Appts |-> [status |-> "none", job |-> 0]]
  /\ jobs = [a \in Appts |-> 0]
  /\ cycle = [i \in Cycles |-> Idle]
  /\ desk = [x \in Desk |-> Free]
  /\ changes = 0
  /\ cuts = 0

Next == \/ \E i \in Cycles : Ingest(i)
        \/ \E k \in Clerks : Clerk(k)
        \/ \E c \in Captures : Arrival(c)
        \/ \E b \in Bookings : Provider(b)
        \/ NewDay
        \/ Interrupt

Spec == Init /\ [][Next]_vars

\* A cycle goes on to its end, another poll follows, and no day of the window
\* is left out of the polls for ever.
Fairness ==
  \A i \in Cycles :
    WF_vars(Ingest(i)) /\ \A d \in Days : SF_vars(FetchAppointments(i, d))
FairSpec == Spec /\ Fairness

-----------------------------------------------------------------------------
(* Actors that do not overlap: what the handlers promise one by one.       *)

Busy == {i \in Cycles : cycle[i].pc # "idle"} \union
        {x \in Desk : desk[x].pc \notin {"idle", "done"}}
AtRest == Busy = {}

SerialNext == Next /\ (AtRest \/ Busy' \subseteq Busy)
SerialSpec == Init /\ [][SerialNext]_vars

-----------------------------------------------------------------------------
(* Properties that hold however the actors overlap.                        *)

\* A converted appointment has an arrival: whatever a stale save of another
\* actor writes, no inspection rests on a car that was never captured
\* (createFromAppointment's gate and every later save).
ConvertedArrived ==
  \A a \in Appts : appt[a].status = "Converted" => appt[a].capture # NoCapture

\* The payment row of a booking exists only if the customer really paid the
\* provider: neither ensurePayment nor restorePaymentFor invents money.
MoneyIsReal == \A b \in Bookings : pay[b].status # "none" => upstream[b].paid

-----------------------------------------------------------------------------
(* Properties of actors that do not overlap.                               *)

\* An appointment carries a capture of its own day or of the day it was
\* created: any other capture is a previous visit (attachCaptureToAppointment,
\* create).
ArrivalOfTheVisit ==
  \A a \in Appts : appt[a].capture # NoCapture =>
    desk[appt[a].capture].seen \in {appt[a].day, appt[a].created}

\* Between requests, the money of a visit that was called off does not count
\* as settled, and a queued paid booking has its payment ("The payment
\* follows the booking", handleWithdrawn; cancel; ensurePayment).
MoneyAtRest ==
  AtRest =>
    /\ \A a \in Appts : appt[a].status = "Cancelled" => pay[a].status # "Paid"
    /\ \A b \in Bookings :
         Queued(b) /\ appt[b].settled => pay[b].status = "Paid"

\* A walk-in and its arrival find each other, whichever comes first: between
\* requests no walk-in of today waits while a capture of today belongs to no
\* appointment (create's adoption of the arrival, attachCaptureToAppointment).
ArrivalPaired ==
  LET walkIns == {a \in Waiting(WalkIns) : appt[a].created = today}
      taken == {appt[a].capture : a \in Appts}
  IN  AtRest => walkIns = {} \/ SeenToday \subseteq taken

\* The lifecycle a visit is promised (VisitLifecycle). A visit is converted
\* from its one job on, which the appointment says as soon as its converter
\* has saved it; the second write of a cancellation or of a reinstatement
\* completes it.
Stage ==
  [a \in Appts |->
     LET converting == \E x \in Desk : desk[x].pc = "convert" /\ desk[x].appt = a
     IN  IF jobs[a] = 0 /\ appt[a].removed THEN "removed"
         ELSE CASE jobs[a] = 0 /\ appt[a].status = "none" -> "none"
                [] jobs[a] = 0 /\ appt[a].status = "Queued" -> "open"
                [] jobs[a] = 0 /\ appt[a].status = "Cancelled" -> "cancelled"
                [] /\ jobs[a] = 1 /\ ~ appt[a].removed
                   /\ converting \/ appt[a].status = "Converted" -> "converted"
                [] OTHER -> "broken"]
Money ==
  [a \in Appts |->
     LET clerkCancels == \E k \in Clerks : /\ desk[k].pc = "cancel"
                                           /\ desk[k].appt = a
         cycleWrites == \E i \in Cycles : /\ cycle[i].pc \in {"unpay", "save"}
                                          /\ cycle[i].cur = a
     IN  CASE pay[a].status = "Cancelled" /\ clerkCancels -> "Paid"
           [] /\ pay[a].status = "Paid"
              /\ appt[a].status = "Cancelled"
              /\ cycleWrites -> "Cancelled"
           [] OTHER -> pay[a].status]

Lifecycle == INSTANCE VisitLifecycle WITH
  Visits <- Appts, stage <- Stage, money <- Money

\* Actors that do not overlap take every visit through the lifecycle: one
\* job, only for money, and money and visit are called off together; one that is
\* removed has no job and never gets one.
LifecycleSpec == Lifecycle!Spec

-----------------------------------------------------------------------------
(* Liveness: bookings change at most ChangeLimit times, so the provider is *)
(* quiet in the end.                                                       *)

Untouched(b) == appt[b].capture = NoCapture /\ jobs[b] = 0

\* Polls read no day that is over.
ListedAhead(b) == upstream[b].listed /\ upstream[b].day >= today
WithdrawnAhead(b) == ~ upstream[b].listed /\ held[b].day >= today

\* The queue follows the provider: in the end a listed booking of today or
\* later has an appointment that is not cancelled, and a withdrawn one that
\* nobody touched has none or a cancelled one (promotePending, syncPromoted).
QueueFollows ==
  <>[](\A b \in Bookings : Untouched(b) =>
         /\ ListedAhead(b) => appt[b].status = "Queued"
         /\ WithdrawnAhead(b) => appt[b].status # "Queued")

\* So does the money, when polls do not overlap: the payment of a booking
\* stands exactly while the booking does.
MoneyFollows ==
  <>[](\A b \in Bookings : Untouched(b) /\ pay[b].status # "none" =>
         /\ ListedAhead(b) => pay[b].status = "Paid"
         /\ WithdrawnAhead(b) => pay[b].status = "Cancelled")

-----------------------------------------------------------------------------
(* What comments of the code say of it, and the code does not do.          *)

\* "One open appointment per plate" (AppointmentService.create, promote).
OneOpenPerPlate == Cardinality(OpenByPlate) <= 1

\* "A booking dated for next week is not what the car on the lane today is
\* here for" (findQueuedOnlineByPlate): an arrival is of the booked day.
ArrivalOnBookedDay ==
  \A b \in Bookings : appt[b].capture # NoCapture =>
    desk[appt[b].capture].seen = appt[b].day

\* "CONVERTED ... and CANCELLED are terminal" (findOpenByPlate): a converted
\* appointment stays converted.
ConvertedStays ==
  [][\A a \in Appts : appt[a].status = "Converted" =>
       appt'[a].status = "Converted"]_vars

\* "Appointment has already been converted to a job": one job at most.
OneJobPerAppointment == \A a \in Appts : jobs[a] <= 1

\* A cancelled visit is over ("CANCELLED ... terminal"): no job of it starts.
CancelledNotConverted ==
  [][\A a \in Appts : /\ appt[a].status = "Cancelled"
                      /\ AtRest
                      => \A k \in Clerks : desk'[k].pc # "create"]_vars

\* "REINSTATED - a previously withdrawn booking came back; un-cancel it": a
\* booking that never left (the one change is its booking) is not un-cancelled.
CancelStays ==
  [][changes <= 1 =>
       \A b \in Bookings : appt[b].status = "Cancelled" =>
         appt'[b].status = "Cancelled"]_vars

\* "once it is here, the physical arrival is the truth": an arrival recorded
\* on an appointment is not erased.
ArrivalSurvives ==
  [][\A a \in Appts : appt[a].capture # NoCapture =>
       appt'[a].capture # NoCapture]_vars

\* "Without this the local row is a snapshot frozen at promotion time": a
\* booking settled after its promotion is seen as settled in the end.
SettledSeen ==
  <>[](\A b \in Bookings :
         upstream[b].listed /\ upstream[b].paid /\ appt[b].status = "Queued"
           => appt[b].settled)

=============================================================================
