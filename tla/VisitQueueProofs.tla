--------------------------- MODULE VisitQueueProofs ---------------------------
(***************************************************************************)
(* Proofs about VisitQueue, for any number of bookings, walk-ins, polls,   *)
(* clerks and captures that overlap, and any interruptions.                *)
(***************************************************************************)
EXTENDS VisitQueue, TLAPS, WellFoundedInduction

-----------------------------------------------------------------------------
(* Copies that travel.  A cycle and a request keep the rows they read and  *)
(* write them back later, so the invariant is about every copy.            *)

\* A converted row has an arrival.
Sound(row) == row.status = "Converted" => row.capture # NoCapture

\* What a cycle holds: paid in a list or in a row means paid upstream.
CycleOK(c, up) ==
  /\ c.pc \in {"insert", "link", "pay", "withdrawn", "unpay", "restore", "save"} =>
       c.cur \in Bookings
  /\ Sound(c.snap)
  /\ \A b \in Bookings : /\ c.list[b] = "paid" => up[b].paid
                         /\ c.rows[b].paid => up[b].paid

\* What a clerk or a pipeline holds: only walk-ins are registered and paid
\* for, and the entity of a conversion has its arrival.
DeskOK(d) ==
  /\ d.pc \in {"register", "collect"} => d.appt \in WalkIns
  /\ d.pc \in {"refund", "cancel", "remove", "create", "convert", "linkPay", "attach"} =>
       d.appt \in Appts
  /\ Sound(d.snap)
  /\ d.pc \in {"create", "convert"} => d.snap.capture # NoCapture

RowsInv == \A a \in Appts : Sound(appt[a])
MirrorInv == \A b \in Bookings : /\ held[b].paid => upstream[b].paid
                                 /\ pay[b].status # "none" => upstream[b].paid
CyclesInv == \A i \in Cycles : CycleOK(cycle[i], upstream)
DeskInv == \A x \in Desk : DeskOK(desk[x])

IInv == TypeOK /\ RowsInv /\ MirrorInv /\ CyclesInv /\ DeskInv

-----------------------------------------------------------------------------
(* Values.                                                                 *)

LEMMA NoApptType == NoAppt \in Appointment /\ Sound(NoAppt)
BY LimitsAssumption DEF NoAppt, Appointment, Days, NoCapture, Sound

LEMMA NotHeldType == NotHeld \in Held /\ ~ NotHeld.paid
BY LimitsAssumption DEF NotHeld, Held, Days

LEMMA IdleType == Idle \in CycleState /\ \A up : CycleOK(Idle, up)
BY NoApptType, NotHeldType, LimitsAssumption DEF Idle, CycleState, CycleOK, Days

LEMMA FreeType == Free \in DeskState /\ DeskOK(Free)
BY NoApptType, LimitsAssumption DEF Free, DeskState, DeskOK, Days

\* A nonempty set of natural numbers has a smallest one.
LEMMA NatMin ==
  ASSUME NEW T, T \subseteq Nat, T # {}
  PROVE  \E t \in T : \A u \in T : ~ (u < t)
<1> DEFINE R == OpToRel(<, Nat)
<1>1. IsWellFoundedOn(R, Nat)
  BY NatLessThanWellFounded
<1>2. \E t \in T : \A u \in T : <<u, t>> \notin R
  <2> HIDE DEF R
  <2> QED
    BY <1>1, WFMin
<1> QED
  BY <1>2, Zenon DEF OpToRel

\* A nonempty set of captures has a latest one.
LEMMA Latest ==
  ASSUME NEW S \in SUBSET Captures, S # {}
  PROVE  \E c \in S : \A d \in S : d <= c
<1> DEFINE T == {MaxCaptures - c : c \in S}
<1>1. S \subseteq 1 .. MaxCaptures /\ MaxCaptures \in Nat
  BY LimitsAssumption DEF Captures
<1>2. T \subseteq Nat /\ T # {}
  <2>1. \A c \in S : MaxCaptures - c \in Nat
    BY <1>1
  <2> QED
    BY <2>1, Zenon
<1>3. PICK t \in T : \A u \in T : ~ (u < t)
  <2> HIDE DEF T
  <2> QED
    BY <1>2, NatMin
<1>4. PICK c \in S : t = MaxCaptures - c
  BY <1>3
<1>5. ASSUME NEW d \in S PROVE d <= c
  <2>1. MaxCaptures - d \in T
    OBVIOUS
  <2>2. ~ (MaxCaptures - d < t)
    BY <2>1, <1>3
  <2> QED
    BY <1>1, <1>4, <2>2
<1> QED
  BY <1>5

LEMMA LatestTodayType == SeenToday # {} => LatestToday \in Captures
<1>1. SeenToday \in SUBSET Captures
  BY DEF SeenToday
<1> QED
  BY <1>1, Latest DEF LatestToday

LEMMA InitInv == Init => IInv
<1> SUFFICES ASSUME Init PROVE IInv
  OBVIOUS
<1>1. TypeOK
  <2>1. 0 \in Days
    BY LimitsAssumption DEF Days
  <2>2. upstream \in [Bookings -> Upstream] /\ held \in [Bookings -> Held]
    BY <2>1, NotHeldType DEF Init, Upstream
  <2>3. appt \in [Appts -> Appointment] /\ pay \in [Appts -> Payment]
        /\ jobs \in [Appts -> 0 .. MaxJobs]
    BY <2>1, NoApptType, LimitsAssumption DEF Init, Payment
  <2>4. cycle \in [Cycles -> CycleState] /\ desk \in [Desk -> DeskState]
    BY IdleType, FreeType DEF Init
  <2> QED
    BY <2>1, <2>2, <2>3, <2>4 DEF Init, TypeOK
<1>2. RowsInv
  BY NoApptType DEF Init, RowsInv
<1>3. MirrorInv
  BY NotHeldType DEF Init, MirrorInv, Appts
<1>4. CyclesInv
  BY IdleType DEF Init, CyclesInv
<1>5. DeskInv
  BY FreeType DEF Init, DeskInv
<1> QED
  BY <1>1, <1>2, <1>3, <1>4, <1>5 DEF IInv

-----------------------------------------------------------------------------
(* Frames: one actor's step, and what remains to be shown of it.           *)

\* The tables a step may write.
TablesOK ==
  /\ held \in [Bookings -> Held]
  /\ appt \in [Appts -> Appointment]
  /\ pay \in [Appts -> Payment]
  /\ RowsInv /\ MirrorInv

LEMMA OneCycle ==
  ASSUME IInv, NEW i \in Cycles, NEW new \in CycleState, CycleOK(new, upstream),
         cycle' = [cycle EXCEPT ![i] = new], TablesOK',
         UNCHANGED <<today, upstream, jobs, desk, changes, cuts>>
  PROVE  IInv'
<1>1. cycle' \in [Cycles -> CycleState] /\ \A j \in Cycles : cycle'[j] = IF j = i THEN new ELSE cycle[j]
  BY DEF IInv, TypeOK
<1>2. TypeOK'
  BY <1>1 DEF IInv, TypeOK, TablesOK
<1>3. CyclesInv'
  BY <1>1 DEF IInv, CyclesInv
<1>4. DeskInv'
  BY DEF IInv, DeskInv
<1> QED
  BY <1>2, <1>3, <1>4 DEF IInv, TablesOK

LEMMA OneDesk ==
  ASSUME IInv, NEW x \in Desk, NEW new \in DeskState, DeskOK(new),
         desk' = [desk EXCEPT ![x] = new], TablesOK', jobs' \in [Appts -> 0 .. MaxJobs],
         UNCHANGED <<today, upstream, cycle, changes, cuts>>
  PROVE  IInv'
<1>1. desk' \in [Desk -> DeskState] /\ \A y \in Desk : desk'[y] = IF y = x THEN new ELSE desk[y]
  BY DEF IInv, TypeOK
<1>2. TypeOK'
  BY <1>1 DEF IInv, TypeOK, TablesOK
<1>3. CyclesInv'
  BY DEF IInv, CyclesInv
<1>4. DeskInv'
  BY <1>1 DEF IInv, DeskInv
<1> QED
  BY <1>2, <1>3, <1>4 DEF IInv, TablesOK

LEMMA SameTables == IInv /\ UNCHANGED <<upstream, held, appt, pay>> => TablesOK'
BY DEF IInv, TypeOK, TablesOK, RowsInv, MirrorInv

\* One appointment is written.
LEMMA OneRow ==
  ASSUME IInv, NEW a, NEW row \in Appointment, Sound(row),
         appt' = [appt EXCEPT ![a] = row], UNCHANGED <<upstream, held, pay>>
  PROVE  TablesOK'
<1>1. appt' \in [Appts -> Appointment]
  BY DEF IInv, TypeOK
<1>2. RowsInv'
  BY DEF IInv, TypeOK, RowsInv
<1> QED
  BY <1>1, <1>2 DEF IInv, TypeOK, TablesOK, MirrorInv

\* One payment is written: of a walk-in, of a booking paid upstream, or one
\* that there was before.
LEMMA OnePayment ==
  ASSUME IInv, NEW a \in Appts, NEW p \in Payment,
         pay' = [pay EXCEPT ![a] = p], UNCHANGED <<upstream, held, appt>>,
         a \in WalkIns \/ upstream[a].paid \/ pay[a].status # "none"
  PROVE  TablesOK'
<1>1. pay' \in [Appts -> Payment]
  BY DEF IInv, TypeOK
<1>2. MirrorInv'
  BY NamesAssumption DEF IInv, TypeOK, MirrorInv, Appts
<1> QED
  BY <1>1, <1>2 DEF IInv, TypeOK, TablesOK, RowsInv

\* One mirrored booking is written.
LEMMA OneHeld ==
  ASSUME IInv, NEW b \in Bookings, NEW row \in Held, row.paid => upstream[b].paid,
         held' = [held EXCEPT ![b] = row], UNCHANGED <<upstream, appt, pay>>
  PROVE  TablesOK'
<1>1. held' \in [Bookings -> Held]
  BY DEF IInv, TypeOK
<1>2. MirrorInv'
  BY DEF IInv, TypeOK, MirrorInv
<1> QED
  BY <1>1, <1>2 DEF IInv, TypeOK, TablesOK, RowsInv

-----------------------------------------------------------------------------
(* Ingest cycles.                                                          *)

\* What is known of a cycle.
LEMMA CycleFacts ==
  ASSUME IInv, NEW i \in Cycles
  PROVE  /\ cycle[i] \in CycleState /\ CycleOK(cycle[i], upstream)
         /\ cycle = [cycle EXCEPT ![i] = cycle[i]]
BY DEF IInv, TypeOK, CyclesInv

LEMMA RowFacts ==
  ASSUME IInv, NEW i \in Cycles, NEW b \in Bookings
  PROVE  /\ cycle[i].rows[b] \in Held
         /\ cycle[i].rows[b].paid => upstream[b].paid
<1>1. cycle[i].rows \in [Bookings -> Held]
  BY CycleFacts DEF CycleState
<1> QED
  BY <1>1, CycleFacts DEF CycleOK

LEMMA FetchStep ==
  ASSUME IInv, NEW i \in Cycles, NEW d \in Days, FetchAppointments(i, d)
  PROVE  IInv'
<1> DEFINE list == [b \in Bookings |->
                      IF ~ upstream[b].listed \/ upstream[b].day # d THEN "gone"
                      ELSE IF upstream[b].paid THEN "paid" ELSE "unpaid"]
           new == [Idle EXCEPT !.pc = "upsert", !.day = d, !.list = list,
                               !.todo = {b \in Bookings : list[b] # "gone"}]
<1>1. cycle' = [cycle EXCEPT ![i] = new]
      /\ UNCHANGED <<today, upstream, held, appt, pay, jobs, desk, changes, cuts>>
  BY DEF FetchAppointments
<1>2. \A b \in Bookings : /\ list[b] \in {"gone", "unpaid", "paid"}
                          /\ list[b] = "paid" => upstream[b].paid
  OBVIOUS
<1>3. list \in [Bookings -> {"gone", "unpaid", "paid"}]
  BY <1>2
<1> HIDE DEF list
<1>4. new \in CycleState
  BY <1>3, IdleType DEF Idle, CycleState
<1>5. CycleOK(new, upstream)
  BY <1>2, IdleType DEF Idle, CycleState, CycleOK
<1> HIDE DEF new
<1> QED
  BY <1>1, <1>4, <1>5, SameTables, OneCycle

LEMMA UpsertStep ==
  ASSUME IInv, NEW i \in Cycles, UpsertBooking(i)
  PROVE  IInv'
<1>1. PICK b \in cycle[i].todo :
        /\ held' = [held EXCEPT ![b] = [held[b] EXCEPT
             !.known = TRUE, !.withdrawn = FALSE, !.day = cycle[i].day,
             !.paid = cycle[i].list[b] = "paid"]]
        /\ cycle' = [cycle EXCEPT ![i] = [cycle[i] EXCEPT !.todo = cycle[i].todo \ {b}]]
  BY CycleFacts DEF UpsertBooking
<1> DEFINE row == [held[b] EXCEPT !.known = TRUE, !.withdrawn = FALSE, !.day = cycle[i].day,
                                  !.paid = cycle[i].list[b] = "paid"]
           new == [cycle[i] EXCEPT !.todo = cycle[i].todo \ {b}]
<1>2. b \in Bookings /\ held[b] \in Held
  BY CycleFacts DEF CycleState, IInv, TypeOK
<1>3. row \in Held /\ (row.paid => upstream[b].paid)
  BY <1>2, CycleFacts DEF CycleState, CycleOK, Held
<1>4. new \in CycleState /\ CycleOK(new, upstream)
  BY CycleFacts DEF CycleState, CycleOK
<1> HIDE DEF row, new
<1>5. TablesOK'
  BY <1>1, <1>2, <1>3, OneHeld DEF UpsertBooking, row
<1> QED
  BY <1>1, <1>4, <1>5, OneCycle DEF UpsertBooking, new

LEMMA WithdrawMissingStep ==
  ASSUME IInv, NEW i \in Cycles, WithdrawMissing(i)
  PROVE  IInv'
<1> DEFINE gone(b) == /\ held[b].known
                      /\ held[b].day = cycle[i].day
                      /\ cycle[i].list[b] = "gone"
           marked == [b \in Bookings |-> [held[b] EXCEPT !.withdrawn = held[b].withdrawn \/ gone(b)]]
           pending == {b \in Bookings : /\ marked[b].known
                                        /\ ~ marked[b].linked
                                        /\ ~ marked[b].withdrawn}
           new == [Idle EXCEPT !.pc = "promote", !.day = cycle[i].day, !.todo = pending,
                               !.rows = marked]
<1>1. /\ held' = marked
      /\ cycle' = [cycle EXCEPT ![i] = new]
      /\ UNCHANGED <<today, upstream, appt, pay, jobs, desk, changes, cuts>>
  BY DEF WithdrawMissing
<1>2. \A b \in Bookings : marked[b] \in Held /\ marked[b].paid = held[b].paid
  BY DEF IInv, TypeOK, Held
<1>3. marked \in [Bookings -> Held]
  BY <1>2
<1>4. pending \subseteq Bookings
  OBVIOUS
<1> HIDE DEF marked, pending
<1>5. new \in CycleState
  BY <1>3, <1>4, IdleType, CycleFacts DEF Idle, CycleState
<1>6. CycleOK(new, upstream)
  BY <1>2, IdleType DEF Idle, CycleOK, IInv, MirrorInv
<1>7. TablesOK'
  BY <1>1, <1>2, <1>3 DEF IInv, TypeOK, TablesOK, RowsInv, MirrorInv
<1> HIDE DEF new
<1> QED
  BY <1>1, <1>5, <1>6, <1>7, OneCycle

LEMMA SaveLinkStep ==
  ASSUME IInv, NEW i \in Cycles, NEW b \in Bookings, SaveLink(i, b),
         UNCHANGED <<upstream, appt, pay>>
  PROVE  TablesOK'
<1> DEFINE row == [cycle[i].rows[b] EXCEPT !.linked = TRUE]
<1>1. row \in Held /\ (row.paid => upstream[b].paid)
  BY RowFacts DEF Held
<1> QED
  BY <1>1, OneHeld DEF SaveLink

LEMMA PromoteStep ==
  ASSUME IInv, NEW i \in Cycles, PromoteExisting(i) \/ PromoteCheck(i) \/ LinkBooking(i)
  PROVE  IInv'
<1>1. CASE PromoteExisting(i)
  <2>1. PICK b \in cycle[i].todo :
          /\ SaveLink(i, b)
          /\ cycle' = [cycle EXCEPT ![i] = [cycle[i] EXCEPT !.todo = cycle[i].todo \ {b}]]
    BY <1>1, CycleFacts DEF PromoteExisting
  <2> DEFINE new == [cycle[i] EXCEPT !.todo = cycle[i].todo \ {b}]
  <2>2. b \in Bookings
    BY CycleFacts DEF CycleState
  <2>3. TablesOK'
    BY <1>1, <2>1, <2>2, SaveLinkStep DEF PromoteExisting
  <2>4. new \in CycleState /\ CycleOK(new, upstream)
    BY CycleFacts DEF CycleState, CycleOK
  <2> HIDE DEF new
  <2> QED
    BY <1>1, <2>1, <2>3, <2>4, OneCycle DEF PromoteExisting, new
<1>2. CASE PromoteCheck(i)
  <2>1. PICK b \in cycle[i].todo :
          cycle' = [cycle EXCEPT ![i] =
            IF OpenByPlate # {}
            THEN [cycle[i] EXCEPT !.todo = cycle[i].todo \ {b}]
            ELSE [cycle[i] EXCEPT !.pc = "insert", !.todo = cycle[i].todo \ {b}, !.cur = b]]
    BY <1>2, CycleFacts DEF PromoteCheck
  <2> DEFINE new == IF OpenByPlate # {}
                    THEN [cycle[i] EXCEPT !.todo = cycle[i].todo \ {b}]
                    ELSE [cycle[i] EXCEPT !.pc = "insert", !.todo = cycle[i].todo \ {b}, !.cur = b]
  <2>2. new \in CycleState
    BY CycleFacts DEF CycleState
  <2>3. CycleOK(new, upstream)
    BY CycleFacts DEF CycleState, CycleOK
  <2> HIDE DEF new
  <2> QED
    BY <1>2, <2>1, <2>2, <2>3, SameTables, OneCycle DEF PromoteCheck, new
<1>3. CASE LinkBooking(i)
  <2> DEFINE new == [cycle[i] EXCEPT !.pc = "pay"]
  <2>1. cycle' = [cycle EXCEPT ![i] = new]
    BY <1>3, CycleFacts DEF LinkBooking
  <2>2. cycle[i].cur \in Bookings
    BY <1>3, CycleFacts DEF LinkBooking, CycleOK
  <2>3. TablesOK'
    BY <1>3, <2>2, SaveLinkStep DEF LinkBooking
  <2>4. new \in CycleState /\ CycleOK(new, upstream)
    BY <2>2, CycleFacts DEF CycleState, CycleOK
  <2> HIDE DEF new
  <2> QED
    BY <1>3, <2>1, <2>3, <2>4, OneCycle DEF LinkBooking
<1> QED
  BY <1>1, <1>2, <1>3

LEMMA InsertStep ==
  ASSUME IInv, NEW i \in Cycles, InsertAppointment(i)
  PROVE  IInv'
<1> DEFINE b == cycle[i].cur
           row == [NoAppt EXCEPT !.status = "Queued", !.day = cycle[i].rows[b].day,
                                 !.created = today, !.settled = cycle[i].rows[b].paid]
           new1 == [cycle[i] EXCEPT !.pc = "link"]
           new2 == [cycle[i] EXCEPT !.pc = "promote", !.cur = NoBooking]
<1>1. b \in Bookings
  BY CycleFacts DEF InsertAppointment, CycleOK
<1>2. /\ new1 \in CycleState /\ CycleOK(new1, upstream)
      /\ new2 \in CycleState /\ CycleOK(new2, upstream)
  BY <1>1, CycleFacts DEF CycleState, CycleOK
<1>3. row \in Appointment /\ Sound(row)
  BY <1>1, RowFacts, NoApptType DEF NoAppt, Appointment, Sound, Held, IInv, TypeOK
<1>4. CASE appt[b].status = "none"
  <2>1. /\ appt' = [appt EXCEPT ![b] = row]
        /\ cycle' = [cycle EXCEPT ![i] = new1]
    BY <1>4, CycleFacts DEF InsertAppointment
  <2> HIDE DEF b, row, new1
  <2>2. TablesOK'
    BY <1>3, <2>1, OneRow DEF InsertAppointment
  <2> QED
    BY <1>2, <2>1, <2>2, OneCycle DEF InsertAppointment
<1>5. CASE appt[b].status # "none"
  <2>1. /\ UNCHANGED appt
        /\ cycle' = [cycle EXCEPT ![i] = new2]
    BY <1>5, CycleFacts DEF InsertAppointment
  <2> HIDE DEF b, row, new2
  <2> QED
    BY <1>2, <2>1, SameTables, OneCycle DEF InsertAppointment
<1> QED
  BY <1>4, <1>5

LEMMA EnsurePaymentStep ==
  ASSUME IInv, NEW i \in Cycles, EnsurePayment(i)
  PROVE  IInv'
<1> DEFINE b == cycle[i].cur
           new == [cycle[i] EXCEPT !.pc = "promote", !.cur = NoBooking]
           row == [pay[b] EXCEPT !.status = "Paid"]
<1>1. b \in Bookings /\ b \in Appts
  BY CycleFacts DEF EnsurePayment, CycleOK, Appts
<1>2. new \in CycleState /\ CycleOK(new, upstream)
  BY CycleFacts DEF CycleState, CycleOK
<1>3. cycle' = [cycle EXCEPT ![i] = new]
  BY CycleFacts DEF EnsurePayment
<1>4. row \in Payment
  BY <1>1 DEF IInv, TypeOK, Payment
<1>5. TablesOK'
  <2>1. CASE cycle[i].rows[b].paid /\ pay[b].status = "none"
    <3>1. pay' = [pay EXCEPT ![b] = row]
      BY <2>1, <1>1 DEF EnsurePayment, IInv, TypeOK
    <3>2. upstream[b].paid
      BY <2>1, <1>1, RowFacts
    <3> HIDE DEF b, row
    <3> QED
      BY <3>1, <3>2, <1>1, <1>4, OnePayment DEF EnsurePayment
  <2>2. CASE ~ (cycle[i].rows[b].paid /\ pay[b].status = "none")
    BY <2>2, SameTables DEF EnsurePayment
  <2> QED
    BY <2>1, <2>2
<1> HIDE DEF new
<1> QED
  BY <1>2, <1>3, <1>5, OneCycle DEF EnsurePayment

\* A payment changes from one status to another.
LEMMA StatusOnly ==
  ASSUME IInv, NEW a \in Appts, pay[a].status # "none", NEW s \in {"Paid", "Cancelled"},
         pay' = [pay EXCEPT ![a].status = s], UNCHANGED <<upstream, held, appt>>
  PROVE  TablesOK'
<1> DEFINE row == [pay[a] EXCEPT !.status = s]
<1>1. row \in Payment
  BY DEF IInv, TypeOK, Payment
<1>2. pay' = [pay EXCEPT ![a] = row]
  BY DEF IInv, TypeOK
<1> HIDE DEF row
<1> QED
  BY <1>1, <1>2, OnePayment

LEMMA NextSyncType ==
  ASSUME IInv, NEW i \in Cycles
  PROVE  NextSync(i) \in CycleState /\ CycleOK(NextSync(i), upstream)
<1> DEFINE new == [cycle[i] EXCEPT !.pc = "sync", !.cur = NoBooking, !.snap = NoAppt]
<1>1. new \in CycleState /\ CycleOK(new, upstream)
  BY CycleFacts, NoApptType DEF CycleState, CycleOK
<1> HIDE DEF new
<1> QED
  BY <1>1, IdleType DEF NextSync, new

LEMMA SyncReadStep ==
  ASSUME IInv, NEW i \in Cycles, StartSync(i) \/ SyncRead(i)
  PROVE  IInv'
<1>1. CASE StartSync(i)
  <2> DEFINE rows == {b \in Bookings : /\ held[b].known
                                       /\ held[b].linked
                                       /\ held[b].day = cycle[i].day}
             on == [cycle[i] EXCEPT !.pc = "sync", !.todo = rows, !.rows = held]
             new == IF rows = {} THEN Idle ELSE on
  <2>1. cycle' = [cycle EXCEPT ![i] = new]
    BY <1>1, CycleFacts DEF StartSync
  <2>2. rows \in SUBSET Bookings
    OBVIOUS
  <2> HIDE DEF rows
  <2>3. on \in CycleState
    <3>1. held \in [Bookings -> Held]
      BY DEF IInv, TypeOK
    <3> QED
      BY <2>2, <3>1, CycleFacts DEF CycleState
  <2>4. CycleOK(on, upstream)
    BY CycleFacts DEF CycleOK, CycleState, IInv, MirrorInv
  <2> HIDE DEF on
  <2>5. new \in CycleState /\ CycleOK(new, upstream)
    BY <2>3, <2>4, IdleType
  <2> HIDE DEF new
  <2> QED
    BY <1>1, <2>1, <2>5, SameTables, OneCycle DEF StartSync
<1>2. CASE SyncRead(i)
  <2>1. PICK b \in cycle[i].todo :
          cycle' = [cycle EXCEPT ![i] =
            IF appt[b].removed
            THEN IF cycle[i].todo = {b} THEN Idle
                 ELSE [cycle[i] EXCEPT !.todo = cycle[i].todo \ {b}]
            ELSE [cycle[i] EXCEPT
                    !.pc = IF cycle[i].rows[b].withdrawn THEN "withdrawn"
                           ELSE IF appt[b].status = "Cancelled" THEN "restore" ELSE "save",
                    !.todo = cycle[i].todo \ {b}, !.cur = b, !.snap = appt[b]]]
    BY <1>2, CycleFacts DEF SyncRead
  <2> DEFINE pc == IF cycle[i].rows[b].withdrawn THEN "withdrawn"
                   ELSE IF appt[b].status = "Cancelled" THEN "restore" ELSE "save"
             skip == [cycle[i] EXCEPT !.todo = cycle[i].todo \ {b}]
             take == [cycle[i] EXCEPT !.pc = pc, !.todo = cycle[i].todo \ {b}, !.cur = b,
                                      !.snap = appt[b]]
             new == IF appt[b].removed
                    THEN IF cycle[i].todo = {b} THEN Idle ELSE skip
                    ELSE take
  <2>2. b \in Bookings /\ appt[b] \in Appointment /\ Sound(appt[b])
    BY CycleFacts DEF CycleState, IInv, TypeOK, RowsInv, Appts
  <2>3. pc \in {"withdrawn", "restore", "save"}
    OBVIOUS
  <2>4. cycle' = [cycle EXCEPT ![i] = new]
    BY <2>1
  <2> HIDE DEF pc
  <2>5. skip \in CycleState /\ CycleOK(skip, upstream)
    BY CycleFacts DEF CycleState, CycleOK
  <2>6. take \in CycleState /\ CycleOK(take, upstream)
    BY <2>2, <2>3, CycleFacts DEF CycleState, CycleOK
  <2> HIDE DEF skip, take
  <2>7. new \in CycleState /\ CycleOK(new, upstream)
    BY <2>5, <2>6, IdleType
  <2> HIDE DEF new
  <2> QED
    BY <1>2, <2>4, <2>7, SameTables, OneCycle DEF SyncRead
<1> QED
  BY <1>1, <1>2

LEMMA RestoreStep ==
  ASSUME IInv, NEW i \in Cycles, RestorePayment(i)
  PROVE  IInv'
<1> DEFINE b == cycle[i].cur
           new == [cycle[i] EXCEPT !.pc = "save"]
<1>1. b \in Bookings /\ b \in Appts
  BY CycleFacts DEF RestorePayment, CycleOK, Appts
<1>2. new \in CycleState /\ CycleOK(new, upstream)
  BY <1>1, CycleFacts DEF CycleState, CycleOK
<1>3. cycle' = [cycle EXCEPT ![i] = new]
  BY CycleFacts DEF RestorePayment
<1>4. TablesOK'
  <2>1. CASE cycle[i].rows[b].paid /\ pay[b].status = "Cancelled"
    BY <2>1, <1>1, StatusOnly DEF RestorePayment
  <2>2. CASE ~ (cycle[i].rows[b].paid /\ pay[b].status = "Cancelled")
    BY <2>2, SameTables DEF RestorePayment
  <2> QED
    BY <2>1, <2>2
<1> HIDE DEF new
<1> QED
  BY <1>2, <1>3, <1>4, OneCycle DEF RestorePayment

LEMMA SaveSyncedStep ==
  ASSUME IInv, NEW i \in Cycles, SaveSynced(i)
  PROVE  IInv'
<1> DEFINE b == cycle[i].cur
           old == cycle[i].snap
           new == [old EXCEPT
                     !.status = IF old.status = "Cancelled" THEN "Queued" ELSE old.status,
                     !.blocked = "none",
                     !.day = IF old.capture = NoCapture THEN cycle[i].rows[b].day ELSE old.day]
<1>1. /\ appt' = IF new = old THEN appt ELSE [appt EXCEPT ![b] = new]
      /\ cycle' = [cycle EXCEPT ![i] = NextSync(i)]
      /\ UNCHANGED <<today, upstream, held, pay, jobs, desk, changes, cuts>>
  BY DEF SaveSynced
<1>2. b \in Bookings
  BY CycleFacts DEF SaveSynced, CycleOK
<1>3. old \in Appointment /\ Sound(old)
  BY CycleFacts DEF CycleState, CycleOK
<1>4. cycle[i].rows[b].day \in Days
  BY <1>2, RowFacts DEF Held
<1> HIDE DEF b, old
<1>5. new \in Appointment /\ Sound(new)
  BY <1>3, <1>4 DEF Appointment, Sound
<1> HIDE DEF new
<1>6. TablesOK'
  <2>1. CASE new = old
    BY <1>1, <2>1, SameTables
  <2>2. CASE new # old
    BY <1>1, <1>5, <2>2, OneRow
  <2> QED
    BY <2>1, <2>2
<1> QED
  BY <1>1, <1>6, NextSyncType, OneCycle

LEMMA WithdrawnStep ==
  ASSUME IInv, NEW i \in Cycles, AutoCancel(i) \/ WarnWithdrawn(i)
  PROVE  IInv'
<1> DEFINE b == cycle[i].cur
<1>1. b \in Bookings /\ appt[b] \in Appointment /\ Sound(appt[b])
  BY CycleFacts DEF AutoCancel, WarnWithdrawn, CycleOK, IInv, TypeOK, RowsInv, Appts
<1>2. CASE AutoCancel(i)
  <2> DEFINE row == [appt[b] EXCEPT !.status = "Cancelled"]
             new == [cycle[i] EXCEPT !.pc = "unpay"]
  <2>1. row \in Appointment /\ Sound(row)
    BY <1>1 DEF Appointment, Sound
  <2>2. new \in CycleState /\ CycleOK(new, upstream)
    BY <1>1, CycleFacts DEF CycleState, CycleOK
  <2>3. appt' = [appt EXCEPT ![b] = row] /\ cycle' = [cycle EXCEPT ![i] = new]
    BY <1>1, <1>2, CycleFacts DEF AutoCancel, IInv, TypeOK
  <2> HIDE DEF b, row, new
  <2>4. TablesOK'
    BY <1>2, <2>1, <2>3, OneRow DEF AutoCancel
  <2> QED
    BY <1>2, <2>2, <2>3, <2>4, OneCycle DEF AutoCancel
<1>3. CASE WarnWithdrawn(i)
  <2> DEFINE row == [appt[b] EXCEPT !.blocked = "withdrawn"]
  <2>1. row \in Appointment /\ Sound(row)
    BY <1>1 DEF Appointment, Sound
  <2>2. appt' = appt \/ appt' = [appt EXCEPT ![b] = row]
    BY <1>1, <1>3 DEF WarnWithdrawn, IInv, TypeOK
  <2> HIDE DEF b, row
  <2>3. TablesOK'
    BY <1>3, <2>1, <2>2, OneRow, SameTables DEF WarnWithdrawn
  <2> QED
    BY <1>3, <2>3, NextSyncType, OneCycle DEF WarnWithdrawn
<1> QED
  BY <1>2, <1>3

LEMMA CancelPaymentForStep ==
  ASSUME IInv, NEW i \in Cycles, CancelPaymentFor(i)
  PROVE  IInv'
<1> DEFINE b == cycle[i].cur
<1>1. b \in Appts
  BY CycleFacts DEF CancelPaymentFor, CycleOK, Appts
<1>2. TablesOK'
  <2>1. CASE cycle[i].rows[b].paid /\ pay[b].status = "Paid"
    BY <2>1, <1>1, StatusOnly DEF CancelPaymentFor
  <2>2. CASE ~ (cycle[i].rows[b].paid /\ pay[b].status = "Paid")
    BY <2>2, SameTables DEF CancelPaymentFor
  <2> QED
    BY <2>1, <2>2
<1> QED
  BY <1>2, NextSyncType, OneCycle DEF CancelPaymentFor

LEMMA IngestStep ==
  ASSUME IInv, NEW i \in Cycles, Ingest(i)
  PROVE  IInv'
BY FetchStep, UpsertStep, WithdrawMissingStep, PromoteStep, InsertStep, EnsurePaymentStep,
   SyncReadStep, RestoreStep, SaveSyncedStep, WithdrawnStep, CancelPaymentForStep DEF Ingest

-----------------------------------------------------------------------------
(* Clerks and captures.                                                    *)

LEMMA DeskFacts ==
  ASSUME IInv, NEW x \in Desk
  PROVE  desk[x] \in DeskState /\ DeskOK(desk[x])
BY DEF IInv, TypeOK, DeskInv

LEMMA RowOf ==
  ASSUME IInv, NEW a \in Appts
  PROVE  /\ appt[a] \in Appointment /\ Sound(appt[a])
         /\ pay[a] \in Payment /\ jobs[a] \in 0 .. MaxJobs
BY DEF IInv, TypeOK, RowsInv

\* An actor that is done, or cut short.
LEMMA FreedType ==
  ASSUME IInv, NEW x \in Desk
  PROVE  /\ Free \in DeskState /\ DeskOK(Free)
         /\ [Free EXCEPT !.pc = "done", !.seen = desk[x].seen] \in DeskState
         /\ DeskOK([Free EXCEPT !.pc = "done", !.seen = desk[x].seen])
<1>1. desk[x].seen \in Days
  BY DeskFacts DEF DeskState
<1> QED
  BY <1>1, FreeType, NoApptType DEF Free, DeskState, DeskOK

\* An actor moves on, to an appointment it holds or takes.
LEMMA MovedType ==
  ASSUME IInv, NEW x \in Desk, NEW pc, NEW a \in Appts,
         pc \in {"refund", "cancel", "attach"}
  PROVE  LET new == [desk[x] EXCEPT !.pc = pc, !.appt = a]
         IN  new \in DeskState /\ DeskOK(new)
BY DeskFacts DEF DeskState, DeskOK

LEMMA RegisterCheckStep ==
  ASSUME IInv, NEW k \in Clerks, NEW a \in WalkIns, RegisterCheck(k, a)
  PROVE  IInv'
<1>1. PICK d \in today .. LastDay :
        desk' = [desk EXCEPT ![k] = [desk[k] EXCEPT !.pc = "register", !.appt = a,
          !.snap = [NoAppt EXCEPT
            !.status = "Queued", !.day = d, !.created = today,
            !.capture = IF SeenToday = {} THEN NoCapture ELSE LatestToday]]]
  BY DeskFacts DEF RegisterCheck, Desk, IInv, TypeOK
<1> DEFINE c == IF SeenToday = {} THEN NoCapture ELSE LatestToday
           row == [NoAppt EXCEPT !.status = "Queued", !.day = d, !.created = today, !.capture = c]
           new == [desk[k] EXCEPT !.pc = "register", !.appt = a, !.snap = row]
<1>2. k \in Desk
  BY DEF Desk
<1>3. d \in Days /\ today \in Days
  BY LimitsAssumption DEF Days, IInv, TypeOK
<1>4. c \in Captures \union {NoCapture}
  BY LatestTodayType
<1> HIDE DEF c
<1>5. row \in Appointment /\ Sound(row)
  BY <1>3, <1>4, NoApptType DEF NoAppt, Appointment, Sound
<1> HIDE DEF row
<1>6. new \in DeskState /\ DeskOK(new)
  BY <1>2, <1>5, DeskFacts DEF DeskState, DeskOK, Appts
<1>7. desk' = [desk EXCEPT ![k] = new]
  BY <1>1 DEF row, c
<1> HIDE DEF new
<1>8. jobs' \in [Appts -> 0 .. MaxJobs]
  BY DEF RegisterCheck, IInv, TypeOK
<1> QED
  BY <1>2, <1>6, <1>7, <1>8, SameTables, OneDesk DEF RegisterCheck

LEMMA WalkInStep ==
  ASSUME IInv, NEW k \in Clerks, RegisterWalkIn(k) \/ CollectPayment(k)
  PROVE  IInv'
<1>1. k \in Desk
  BY DEF Desk
<1>2. desk[k].appt \in WalkIns /\ desk[k].appt \in Appts
  BY <1>1, DeskFacts DEF RegisterWalkIn, CollectPayment, DeskOK, Appts
<1>3. jobs' \in [Appts -> 0 .. MaxJobs]
  BY DEF RegisterWalkIn, CollectPayment, IInv, TypeOK
<1>4. CASE RegisterWalkIn(k)
  <2> DEFINE new == [desk[k] EXCEPT !.pc = "collect"]
             row == desk[k].snap
  <2>1. desk' = [desk EXCEPT ![k] = new]
    BY <1>1, <1>4 DEF RegisterWalkIn, IInv, TypeOK
  <2>2. new \in DeskState /\ DeskOK(new)
    BY <1>1, <1>2, DeskFacts DEF DeskState, DeskOK
  <2>3. row \in Appointment /\ Sound(row)
    BY <1>1, DeskFacts DEF DeskState, DeskOK
  <2>4. TablesOK'
    BY <1>4, <2>3, OneRow DEF RegisterWalkIn
  <2> HIDE DEF new
  <2> QED
    BY <1>1, <1>3, <1>4, <2>1, <2>2, <2>4, OneDesk DEF RegisterWalkIn
<1>5. CASE CollectPayment(k)
  <2> DEFINE a == desk[k].appt
             row == [pay[a] EXCEPT !.status = "Paid"]
  <2>1. row \in Payment
    BY <1>2, RowOf DEF Payment
  <2>2. pay' = pay \/ pay' = [pay EXCEPT ![a] = row]
    BY <1>2, <1>5 DEF CollectPayment, IInv, TypeOK
  <2>3. TablesOK'
    <3> HIDE DEF row
    <3> QED
      BY <1>2, <1>5, <2>1, <2>2, SameTables, OnePayment DEF CollectPayment
  <2> QED
    BY <1>1, <1>3, <1>5, <2>3, FreeType, OneDesk DEF CollectPayment
<1> QED
  BY <1>4, <1>5

LEMMA CancelStep ==
  ASSUME IInv, NEW k \in Clerks,
         (\E a \in Appts : CancelRead(k, a)) \/ CancelPayment(k) \/ SaveCancelled(k)
  PROVE  IInv'
<1>1. k \in Desk
  BY DEF Desk
<1>2. ASSUME NEW a \in Appts, CancelRead(k, a) PROVE IInv'
  <2> DEFINE new == [desk[k] EXCEPT !.pc = "refund", !.appt = a]
  <2>1. desk' = [desk EXCEPT ![k] = new] /\ jobs' \in [Appts -> 0 .. MaxJobs]
    BY <1>1, <1>2 DEF CancelRead, IInv, TypeOK
  <2>2. new \in DeskState /\ DeskOK(new)
    BY <1>1, MovedType
  <2> HIDE DEF new
  <2> QED
    BY <1>1, <1>2, <2>1, <2>2, SameTables, OneDesk DEF CancelRead
<1>3. CASE CancelPayment(k)
  <2> DEFINE a == desk[k].appt
             new == [desk[k] EXCEPT !.pc = "cancel"]
  <2>1. a \in Appts
    BY <1>1, <1>3, DeskFacts DEF CancelPayment, DeskOK
  <2>2. desk' = [desk EXCEPT ![k] = new] /\ jobs' \in [Appts -> 0 .. MaxJobs]
    BY <1>1, <1>3 DEF CancelPayment, IInv, TypeOK
  <2>3. new \in DeskState /\ DeskOK(new)
    BY <1>1, <2>1, DeskFacts DEF DeskState, DeskOK
  <2>4. TablesOK'
    BY <1>3, <2>1, StatusOnly, SameTables DEF CancelPayment
  <2> HIDE DEF new
  <2> QED
    BY <1>1, <1>3, <2>2, <2>3, <2>4, OneDesk DEF CancelPayment
<1>4. CASE SaveCancelled(k)
  <2> DEFINE a == desk[k].appt
             row == [appt[a] EXCEPT !.status = "Cancelled", !.blocked = "none"]
  <2>1. a \in Appts
    BY <1>1, <1>4, DeskFacts DEF SaveCancelled, DeskOK
  <2>2. row \in Appointment /\ Sound(row)
    <3>1. appt[a] \in Appointment
      BY <2>1, RowOf
    <3> QED
      BY <3>1 DEF Appointment, Sound
  <2>3. appt' = [appt EXCEPT ![a] = row] /\ jobs' \in [Appts -> 0 .. MaxJobs]
    BY <1>4, <2>1 DEF SaveCancelled, IInv, TypeOK
  <2> HIDE DEF a, row
  <2>4. TablesOK'
    BY <1>4, <2>2, <2>3, OneRow DEF SaveCancelled
  <2> QED
    BY <1>1, <1>4, <2>3, <2>4, FreeType, OneDesk DEF SaveCancelled
<1> QED
  BY <1>2, <1>3, <1>4

LEMMA RemoveStep ==
  ASSUME IInv, NEW k \in Clerks, (\E a \in Appts : RemoveRead(k, a)) \/ SaveRemoved(k)
  PROVE  IInv'
<1>1. k \in Desk
  BY DEF Desk
<1>2. ASSUME NEW a \in Appts, RemoveRead(k, a) PROVE IInv'
  <2> DEFINE new == [desk[k] EXCEPT !.pc = "remove", !.appt = a, !.snap = appt[a]]
  <2>1. desk' = [desk EXCEPT ![k] = new] /\ jobs' \in [Appts -> 0 .. MaxJobs]
    BY <1>1, <1>2 DEF RemoveRead, IInv, TypeOK
  <2>2. new \in DeskState /\ DeskOK(new)
    BY <1>1, RowOf, DeskFacts DEF DeskState, DeskOK
  <2> HIDE DEF new
  <2> QED
    BY <1>1, <1>2, <2>1, <2>2, SameTables, OneDesk DEF RemoveRead
<1>3. CASE SaveRemoved(k)
  <2> DEFINE row == [desk[k].snap EXCEPT !.removed = TRUE]
  <2>1. row \in Appointment /\ Sound(row)
    <3>1. desk[k].snap \in Appointment /\ Sound(desk[k].snap)
      BY <1>1, DeskFacts DEF DeskState, DeskOK
    <3> QED
      BY <3>1 DEF Appointment, Sound
  <2>2. appt' = [appt EXCEPT ![desk[k].appt] = row] /\ jobs' \in [Appts -> 0 .. MaxJobs]
    BY <1>3 DEF SaveRemoved, IInv, TypeOK
  <2> HIDE DEF row
  <2>3. TablesOK'
    BY <1>3, <2>1, <2>2, OneRow DEF SaveRemoved
  <2> QED
    BY <1>1, <1>3, <2>2, <2>3, FreeType, OneDesk DEF SaveRemoved
<1> QED
  BY <1>2, <1>3

\* Both a clerk and a pipeline start a conversion from an appointment that
\* passes the gates.
LEMMA StartConvertStep ==
  ASSUME IInv, NEW x \in Desk, NEW a \in Appts, Convertible(a), StartConvert(x, a),
         UNCHANGED <<today, upstream, held, appt, pay, jobs, cycle, changes, cuts>>
  PROVE  IInv'
<1> DEFINE new == [desk[x] EXCEPT !.pc = "create", !.appt = a, !.snap = appt[a]]
<1>1. desk' = [desk EXCEPT ![x] = new] /\ jobs' \in [Appts -> 0 .. MaxJobs]
  BY DEF StartConvert, IInv, TypeOK
<1>2. new \in DeskState /\ DeskOK(new)
  BY RowOf, DeskFacts DEF DeskState, DeskOK, Convertible
<1> HIDE DEF new
<1> QED
  BY <1>1, <1>2, SameTables, OneDesk

LEMMA ConvertStep ==
  ASSUME IInv, NEW x \in Desk, Convert(x)
  PROVE  IInv'
<1> DEFINE a == desk[x].appt
<1>1. a \in Appts
  BY DeskFacts DEF Convert, CreateJob, SaveConverted, LinkPayment, DeskOK
<1>2. CASE CreateJob(x)
  <2> DEFINE new == [desk[x] EXCEPT !.pc = "convert", !.job = jobs[a] + 1]
  <2>1. jobs[a] + 1 \in 0 .. MaxJobs /\ jobs' = [jobs EXCEPT ![a] = jobs[a] + 1]
    BY <1>1, <1>2, RowOf, LimitsAssumption DEF CreateJob
  <2>2. jobs' \in [Appts -> 0 .. MaxJobs]
    BY <2>1 DEF IInv, TypeOK
  <2>3. new \in DeskState /\ DeskOK(new)
    BY <1>1, <1>2, <2>1, DeskFacts DEF CreateJob, DeskState, DeskOK
  <2>4. desk' = [desk EXCEPT ![x] = new]
    BY <1>2 DEF CreateJob
  <2> HIDE DEF new
  <2> QED
    BY <1>2, <2>2, <2>3, <2>4, SameTables, OneDesk DEF CreateJob
<1>3. CASE SaveConverted(x)
  <2> DEFINE row == [desk[x].snap EXCEPT !.status = "Converted"]
             new == [desk[x] EXCEPT !.pc = "linkPay"]
  <2>1. row \in Appointment /\ Sound(row)
    <3>1. desk[x].snap \in Appointment /\ desk[x].snap.capture # NoCapture
      BY <1>3, DeskFacts DEF SaveConverted, DeskState, DeskOK
    <3> QED
      BY <3>1 DEF Appointment, Sound
  <2>2. new \in DeskState /\ DeskOK(new)
    BY <1>1, DeskFacts DEF DeskState, DeskOK
  <2>3. /\ appt' = [appt EXCEPT ![a] = row]
        /\ desk' = [desk EXCEPT ![x] = new]
        /\ jobs' \in [Appts -> 0 .. MaxJobs]
    BY <1>3 DEF SaveConverted, IInv, TypeOK
  <2> HIDE DEF a, row, new
  <2>4. TablesOK'
    BY <1>3, <2>1, <2>3, OneRow DEF SaveConverted
  <2> QED
    BY <1>3, <2>2, <2>3, <2>4, OneDesk DEF SaveConverted
<1>4. CASE LinkPayment(x)
  <2> DEFINE p == [pay[a] EXCEPT !.job = desk[x].job]
             row == [appt[a] EXCEPT !.blocked = "none"]
  <2>1. p \in Payment /\ row \in Appointment /\ Sound(row)
    BY <1>1, RowOf, DeskFacts DEF Payment, DeskState, Appointment, Sound
  <2>2. /\ pay' = pay \/ (pay[a].status # "none" /\ pay' = [pay EXCEPT ![a] = p])
        /\ appt' = appt \/ appt' = [appt EXCEPT ![a] = row]
    BY <1>1, <1>4 DEF LinkPayment, IInv, TypeOK
  <2>3. appt' \in [Appts -> Appointment] /\ RowsInv'
    <3> HIDE DEF row
    <3> QED
      BY <1>1, <2>1, <2>2 DEF IInv, TypeOK, RowsInv
  <2>4. pay' \in [Appts -> Payment] /\ \A b \in Appts : pay'[b].status # "none" => pay[b].status # "none"
    <3> HIDE DEF p
    <3> QED
      BY <1>1, <2>1, <2>2 DEF IInv, TypeOK
  <2>5. TablesOK'
    BY <1>4, <2>3, <2>4 DEF LinkPayment, IInv, TypeOK, TablesOK, MirrorInv, Appts
  <2>6. jobs' \in [Appts -> 0 .. MaxJobs]
    BY <1>4 DEF LinkPayment, IInv, TypeOK
  <2> QED
    BY <1>4, <2>5, <2>6, FreedType, OneDesk DEF LinkPayment
<1> QED
  BY <1>2, <1>3, <1>4 DEF Convert

LEMMA MatchStep ==
  ASSUME IInv, NEW c \in Captures, Capture(c) \/ Match(c)
  PROVE  IInv'
<1>1. c \in Desk /\ jobs' \in [Appts -> 0 .. MaxJobs]
  BY DEF Desk, Capture, Match, IInv, TypeOK
<1>2. CASE Capture(c)
  <2> DEFINE new == [desk[c] EXCEPT !.pc = "match", !.seen = today]
  <2>1. desk' = [desk EXCEPT ![c] = new]
    BY <1>1, <1>2 DEF Capture
  <2>2. new \in DeskState /\ DeskOK(new)
    BY <1>1, DeskFacts DEF DeskState, DeskOK, IInv, TypeOK
  <2> HIDE DEF new
  <2> QED
    BY <1>1, <1>2, <2>1, <2>2, SameTables, OneDesk DEF Capture
<1>3. CASE Match(c)
  <2>1. ASSUME NEW a \in QueuedByPlate, desk' = [desk EXCEPT ![c] = [desk[c] EXCEPT !.pc = "attach", !.appt = a]]
        PROVE  IInv'
    <3> DEFINE new == [desk[c] EXCEPT !.pc = "attach", !.appt = a]
    <3>1. a \in Appts
      BY DEF QueuedByPlate, Waiting, Appts
    <3>2. new \in DeskState /\ DeskOK(new)
      BY <1>1, <3>1, MovedType
    <3>3. desk' = [desk EXCEPT ![c] = new]
      BY <2>1
    <3> HIDE DEF new
    <3> QED
      BY <1>1, <1>3, <3>2, <3>3, SameTables, OneDesk DEF Match
  <2>2. CASE desk' = [desk EXCEPT ![c].pc = "auto"]
    <3> DEFINE new == [desk[c] EXCEPT !.pc = "auto"]
    <3>1. new \in DeskState /\ DeskOK(new)
      BY <1>1, DeskFacts DEF DeskState, DeskOK
    <3>2. desk' = [desk EXCEPT ![c] = new]
      BY <1>1, <2>2 DEF IInv, TypeOK
    <3> HIDE DEF new
    <3> QED
      BY <1>1, <1>3, <3>1, <3>2, SameTables, OneDesk DEF Match
  <2> QED
    BY <1>3, <2>1, <2>2 DEF Match
<1> QED
  BY <1>2, <1>3

LEMMA AttachStep ==
  ASSUME IInv, NEW c \in Captures, Attach(c)
  PROVE  IInv'
<1> DEFINE a == desk[c].appt
           row == [appt[a] EXCEPT !.capture = c]
           new == [desk[c] EXCEPT !.pc = "auto", !.appt = NoBooking]
<1>1. c \in Desk /\ jobs' \in [Appts -> 0 .. MaxJobs]
  BY DEF Desk, Attach, IInv, TypeOK
<1>2. a \in Appts
  BY <1>1, DeskFacts DEF Attach, DeskOK
<1>3. c # NoCapture
  BY LimitsAssumption DEF Captures, NoCapture
<1>4. row \in Appointment /\ Sound(row)
  <2>1. appt[a] \in Appointment
    BY <1>2, RowOf
  <2> QED
    BY <1>3, <2>1 DEF Appointment, Sound
<1>5. new \in DeskState /\ DeskOK(new)
  BY <1>1, DeskFacts DEF DeskState, DeskOK
<1>6. appt' = [appt EXCEPT ![a] = row] /\ desk' = [desk EXCEPT ![c] = new]
  BY <1>2 DEF Attach, IInv, TypeOK
<1> HIDE DEF a, row, new
<1>7. TablesOK'
  BY <1>4, <1>6, OneRow DEF Attach
<1> QED
  BY <1>1, <1>5, <1>6, <1>7, OneDesk DEF Attach

LEMMA AutoStep ==
  ASSUME IInv, NEW c \in Captures, AutoConvert(c) \/ AutoBlocked(c) \/ NothingToConvert(c)
  PROVE  IInv'
<1>1. c \in Desk /\ jobs' \in [Appts -> 0 .. MaxJobs]
  BY DEF Desk, AutoConvert, AutoBlocked, NothingToConvert, IInv, TypeOK
<1> DEFINE new == [Free EXCEPT !.pc = "done", !.seen = desk[c].seen]
<1>2. new \in DeskState /\ DeskOK(new)
  BY <1>1, FreedType
<1>3. CASE AutoConvert(c)
  <2>1. PICK a \in Bookings : Convertible(a) /\ StartConvert(c, a)
    BY <1>3 DEF AutoConvert, AutoCandidates
  <2> QED
    BY <1>1, <1>3, <2>1, StartConvertStep DEF AutoConvert, Appts
<1>4. CASE AutoBlocked(c)
  <2>1. PICK a \in Bookings : appt' = [appt EXCEPT ![a].blocked = "gate"]
    BY <1>4 DEF AutoBlocked, AutoCandidates
  <2> DEFINE row == [appt[a] EXCEPT !.blocked = "gate"]
  <2>2. row \in Appointment /\ Sound(row)
    <3>1. appt[a] \in Appointment /\ Sound(appt[a])
      BY RowOf DEF Appts
    <3> QED
      BY <3>1 DEF Appointment, Sound
  <2>3. appt' = [appt EXCEPT ![a] = row] /\ desk' = [desk EXCEPT ![c] = new]
    BY <1>4, <2>1 DEF AutoBlocked, Finished, IInv, TypeOK, Appts
  <2> HIDE DEF row, new
  <2>4. TablesOK'
    BY <1>4, <2>2, <2>3, OneRow DEF AutoBlocked
  <2> QED
    BY <1>1, <1>2, <1>4, <2>3, <2>4, OneDesk DEF AutoBlocked
<1>5. CASE NothingToConvert(c)
  <2>1. desk' = [desk EXCEPT ![c] = new]
    BY <1>5 DEF NothingToConvert, Finished
  <2> HIDE DEF new
  <2> QED
    BY <1>1, <1>2, <1>5, <2>1, SameTables, OneDesk DEF NothingToConvert
<1> QED
  BY <1>3, <1>4, <1>5

-----------------------------------------------------------------------------
(* The provider, time, interruptions.                                      *)

\* What was paid upstream stays paid.
LEMMA ChangeStep ==
  ASSUME IInv, NEW b \in Bookings, NEW new \in Upstream, upstream[b].paid => new.paid,
         Change(b, new)
  PROVE  IInv'
<1>1. upstream' \in [Bookings -> Upstream]
      /\ \A a \in Bookings : upstream[a].paid => upstream'[a].paid
  BY DEF Change, IInv, TypeOK
<1>2. TypeOK'
  BY <1>1 DEF Change, IInv, TypeOK
<1>3. RowsInv' /\ DeskInv'
  BY DEF Change, IInv, RowsInv, DeskInv
<1>4. MirrorInv' /\ CyclesInv'
  BY <1>1 DEF Change, IInv, MirrorInv, CyclesInv, CycleOK
<1> QED
  BY <1>2, <1>3, <1>4 DEF IInv

LEMMA ProviderStep ==
  ASSUME IInv, NEW b \in Bookings, Provider(b)
  PROVE  IInv'
<1>1. upstream[b] \in Upstream /\ \A d \in today .. LastDay : d \in Days
  BY LimitsAssumption DEF IInv, TypeOK, Days
<1>2. CASE Book(b)
  <2>1. PICK d \in today .. LastDay, p \in BOOLEAN :
          Change(b, [listed |-> TRUE, day |-> d, paid |-> p \/ upstream[b].paid])
    BY <1>2 DEF Book
  <2>2. [listed |-> TRUE, day |-> d, paid |-> p \/ upstream[b].paid] \in Upstream
    BY <1>1 DEF Upstream
  <2> QED
    BY <2>1, <2>2, ChangeStep
<1>3. CASE SettleUpstream(b)
  <2>1. [upstream[b] EXCEPT !.paid = TRUE] \in Upstream
        /\ [upstream[b] EXCEPT !.paid = TRUE].paid
    BY <1>1 DEF Upstream
  <2> QED
    BY <1>3, <2>1, ChangeStep DEF SettleUpstream
<1>4. CASE Reschedule(b)
  <2>1. PICK d \in today .. LastDay : Change(b, [upstream[b] EXCEPT !.day = d])
    BY <1>4 DEF Reschedule
  <2>2. [upstream[b] EXCEPT !.day = d] \in Upstream
        /\ [upstream[b] EXCEPT !.day = d].paid = upstream[b].paid
    BY <1>1 DEF Upstream
  <2> QED
    BY <2>1, <2>2, ChangeStep
<1>5. CASE Withdraw(b)
  <2>1. [upstream[b] EXCEPT !.listed = FALSE] \in Upstream
        /\ [upstream[b] EXCEPT !.listed = FALSE].paid = upstream[b].paid
    BY <1>1 DEF Upstream
  <2> QED
    BY <1>5, <2>1, ChangeStep DEF Withdraw
<1> QED
  BY <1>2, <1>3, <1>4, <1>5 DEF Provider

LEMMA NewDayStep ==
  ASSUME IInv, NewDay
  PROVE  IInv'
<1>1. today' \in Days
  BY LimitsAssumption DEF NewDay, IInv, TypeOK, Days
<1> QED
  BY <1>1 DEF NewDay, IInv, TypeOK, RowsInv, MirrorInv, CyclesInv, DeskInv

LEMMA InterruptStep ==
  ASSUME IInv, Interrupt
  PROVE  IInv'
<1>1. cuts' \in Nat
  <2>1. cuts \in Nat /\ cuts' = cuts + 1
    BY DEF Interrupt, IInv, TypeOK
  <2> QED
    BY <2>1
<1>2. UNCHANGED <<today, upstream, held, appt, pay, jobs, changes>>
  BY DEF Interrupt
<1>3. cycle' \in [Cycles -> CycleState] /\ CyclesInv'
  <2>1. CASE UNCHANGED cycle
    BY <1>2, <2>1 DEF IInv, TypeOK, CyclesInv
  <2>2. ASSUME NEW i \in Cycles, cycle' = [cycle EXCEPT ![i] = Idle]
        PROVE  cycle' \in [Cycles -> CycleState] /\ CyclesInv'
    BY <1>2, <2>2, IdleType DEF IInv, TypeOK, CyclesInv
  <2> QED
    BY <2>1, <2>2 DEF Interrupt
<1>4. desk' \in [Desk -> DeskState] /\ DeskInv'
  <2>1. CASE UNCHANGED desk
    BY <2>1 DEF IInv, TypeOK, DeskInv
  <2>2. ASSUME NEW x \in Desk,
               desk' = [desk EXCEPT ![x] =
                          IF x \in Clerks THEN Free
                          ELSE [Free EXCEPT !.pc = "done", !.seen = desk[x].seen]]
        PROVE  desk' \in [Desk -> DeskState] /\ DeskInv'
    <3> DEFINE new == IF x \in Clerks THEN Free
                      ELSE [Free EXCEPT !.pc = "done", !.seen = desk[x].seen]
    <3>1. new \in DeskState /\ DeskOK(new)
      BY FreedType
    <3>2. desk' = [desk EXCEPT ![x] = new]
      BY <2>2
    <3> HIDE DEF new
    <3> QED
      BY <3>1, <3>2 DEF IInv, TypeOK, DeskInv
  <2> QED
    BY <2>1, <2>2 DEF Interrupt
<1> QED
  BY <1>1, <1>2, <1>3, <1>4 DEF IInv, TypeOK, RowsInv, MirrorInv

LEMMA NextInv == IInv /\ [Next]_vars => IInv'
<1> SUFFICES ASSUME IInv, [Next]_vars PROVE IInv'
  OBVIOUS
<1>1. CASE UNCHANGED vars
  BY <1>1 DEF vars, IInv, TypeOK, RowsInv, MirrorInv, CyclesInv, DeskInv
<1>2. ASSUME NEW k \in Clerks, Clerk(k) PROVE IInv'
  <2>1. k \in Desk
    BY DEF Desk
  <2>2. ASSUME NEW a \in Appts, ConvertRead(k, a) PROVE IInv'
    BY <2>1, <2>2, StartConvertStep DEF ConvertRead
  <2> QED
    BY <1>2, <2>1, <2>2, RegisterCheckStep, WalkInStep, CancelStep, RemoveStep, ConvertStep DEF Clerk
<1>3. ASSUME NEW c \in Captures, Arrival(c) PROVE IInv'
  BY <1>3, MatchStep, AttachStep, AutoStep, ConvertStep DEF Arrival, Desk
<1>4. CASE Next
  BY <1>2, <1>3, <1>4, IngestStep, ProviderStep, NewDayStep, InterruptStep DEF Next
<1> QED
  BY <1>1, <1>4

-----------------------------------------------------------------------------
(* Theorems: whatever overlaps.                                            *)

LEMMA IInvHolds == Spec => []IInv
<1>1. Init => IInv
  BY InitInv
<1>2. IInv /\ [Next]_vars => IInv'
  BY NextInv
<1> QED
  BY <1>1, <1>2, PTL DEF Spec

\* Rows, mirrored bookings, payments and the local state of every actor keep
\* their types.
THEOREM VisitsTypeCorrect == Spec => []TypeOK
<1>1. IInv => TypeOK
  BY DEF IInv
<1> QED
  BY <1>1, IInvHolds, PTL

\* No save, stale or fresh, leaves a converted appointment without an arrival
\* (createFromAppointment's gate; appointmentDao.save by polls, clerks and
\* captures that overlap).
THEOREM ConvertedArrivedHolds == Spec => []ConvertedArrived
<1>1. IInv => ConvertedArrived
  BY DEF IInv, RowsInv, Sound, ConvertedArrived
<1> QED
  BY <1>1, IInvHolds, PTL

\* A booking has a payment row only after its customer paid the provider,
\* however old the list or the mirrored row is that a cycle acts on
\* (ensurePayment, restorePaymentFor, cancelPaymentFor, recordWalkInPayment).
THEOREM MoneyIsRealHolds == Spec => []MoneyIsReal
<1>1. IInv => MoneyIsReal
  BY DEF IInv, MirrorInv, MoneyIsReal
<1> QED
  BY <1>1, IInvHolds, PTL

-----------------------------------------------------------------------------
(* Actors that do not overlap.  At most one is busy, and whoever takes a   *)
(* step is the one.                                                        *)

OneBusy == \A u, v \in Busy : u = v

\* Nobody but cycle i is busy, before the step and after it; and so of actor x.
OnlyCycle(i) ==
  /\ \A j \in Cycles \ {i} : cycle[j].pc = "idle" /\ cycle'[j] = cycle[j]
  /\ \A x \in Desk : desk[x].pc \in {"idle", "done"} /\ desk'[x] = desk[x]
OnlyDesk(x) ==
  /\ \A i \in Cycles : cycle[i].pc = "idle" /\ cycle'[i] = cycle[i]
  /\ \A y \in Desk \ {x} : desk[y].pc \in {"idle", "done"} /\ desk'[y] = desk[y]

LEMMA BusyMeans ==
  /\ \A i \in Cycles : (i \in Busy) <=> (cycle[i].pc # "idle")
  /\ \A x \in Desk : (x \in Busy) <=> (desk[x].pc \notin {"idle", "done"})
BY NamesAssumption DEF Busy

LEMMA BusyNext ==
  /\ \A i \in Cycles : (i \in Busy') <=> (cycle'[i].pc # "idle")
  /\ \A x \in Desk : (x \in Busy') <=> (desk'[x].pc \notin {"idle", "done"})
BY NamesAssumption DEF Busy

\* A cycle's step is of its own state, and busy before it or after it.
LEMMA IngestActs ==
  ASSUME IInv, NEW i \in Cycles, Ingest(i)
  PROVE  /\ UNCHANGED desk
         /\ \A j \in Cycles \ {i} : cycle'[j] = cycle[j]
         /\ cycle[i].pc # "idle" \/ cycle'[i].pc # "idle"
<1>1. \A new : cycle' = [cycle EXCEPT ![i] = new] =>
        \A j \in Cycles \ {i} : cycle'[j] = cycle[j]
  BY DEF IInv, TypeOK
<1>2. CASE \E d \in Days : FetchAppointments(i, d)
  BY <1>2 DEF FetchAppointments, IInv, TypeOK, Idle
<1>3. CASE ~ \E d \in Days : FetchAppointments(i, d)
  <2>1. UNCHANGED desk /\ cycle[i].pc # "idle"
    BY <1>3 DEF Ingest, UpsertBooking, WithdrawMissing, PromoteExisting, PromoteCheck, InsertAppointment,
                LinkBooking, EnsurePayment, StartSync, SyncRead, RestorePayment, SaveSynced, AutoCancel,
                WarnWithdrawn, CancelPaymentFor
  <2>2. \E new : cycle' = [cycle EXCEPT ![i] = new]
    <3>1. CASE UpsertBooking(i) \/ PromoteExisting(i) \/ LinkBooking(i) \/ RestorePayment(i) \/ AutoCancel(i)
      BY <3>1, CycleFacts DEF UpsertBooking, PromoteExisting, LinkBooking, RestorePayment, AutoCancel
    <3>2. CASE WithdrawMissing(i) \/ InsertAppointment(i) \/ EnsurePayment(i)
      BY <3>2 DEF WithdrawMissing, InsertAppointment, EnsurePayment
    <3>3. CASE PromoteCheck(i) \/ StartSync(i) \/ SyncRead(i)
      BY <3>3 DEF PromoteCheck, StartSync, SyncRead
    <3>4. CASE SaveSynced(i) \/ WarnWithdrawn(i) \/ CancelPaymentFor(i)
      BY <3>4 DEF SaveSynced, WarnWithdrawn, CancelPaymentFor
    <3> QED
      BY <1>3, <3>1, <3>2, <3>3, <3>4 DEF Ingest
  <2> QED
    BY <1>1, <2>1, <2>2
<1> QED
  BY <1>2, <1>3

\* A step of a clerk or a pipeline.
Desked(x) ==
  \/ x \in Clerks /\ Clerk(x)
  \/ x \in Captures /\ Arrival(x)

LEMMA DeskActs ==
  ASSUME IInv, NEW x \in Desk, Desked(x)
  PROVE  /\ UNCHANGED cycle
         /\ \A y \in Desk \ {x} : desk'[y] = desk[y]
         /\ desk[x].pc \notin {"idle", "done"} \/ desk'[x].pc \notin {"idle", "done"}
         /\ x \in Captures /\ desk[x].pc # "idle" =>
              desk'[x].pc # "idle" /\ desk'[x].seen = desk[x].seen
<1>1. desk \in [Desk -> DeskState]
  BY DEF IInv, TypeOK
<1>2. CASE Convert(x)
  <2>1. CASE CreateJob(x)
    BY <1>1, <2>1 DEF CreateJob, DeskState
  <2>2. CASE SaveConverted(x)
    BY <1>1, <2>2 DEF SaveConverted, DeskState
  <2>3. CASE LinkPayment(x)
    BY <1>1, <2>3 DEF LinkPayment, DeskState, Free
  <2> QED
    BY <1>2, <2>1, <2>2, <2>3 DEF Convert
<1>3. ASSUME NEW a \in Appts, StartConvert(x, a)
      PROVE  /\ \A y \in Desk \ {x} : desk'[y] = desk[y]
             /\ desk'[x].pc = "create" /\ desk'[x].seen = desk[x].seen
  BY <1>1, <1>3 DEF StartConvert, DeskState
<1>4. CASE x \in Clerks /\ Clerk(x) /\ ~ Convert(x)
  <2>1. x \notin Captures
    BY <1>4, NamesAssumption
  <2>2. ASSUME NEW a \in WalkIns, RegisterCheck(x, a)
        PROVE  /\ UNCHANGED cycle /\ \A y \in Desk \ {x} : desk'[y] = desk[y]
               /\ desk'[x].pc = "register"
    BY <1>1, <2>2 DEF RegisterCheck, DeskState
  <2>3. ASSUME NEW a \in Appts, CancelRead(x, a) \/ RemoveRead(x, a)
        PROVE  /\ UNCHANGED cycle /\ \A y \in Desk \ {x} : desk'[y] = desk[y]
               /\ desk'[x].pc \in {"refund", "remove"}
    BY <1>1, <2>3 DEF CancelRead, RemoveRead, DeskState
  <2>4. ASSUME NEW a \in Appts, ConvertRead(x, a)
        PROVE  /\ UNCHANGED cycle /\ \A y \in Desk \ {x} : desk'[y] = desk[y]
               /\ desk'[x].pc = "create"
    BY <1>3, <2>4 DEF ConvertRead
  <2>5. CASE \/ RegisterWalkIn(x) \/ CollectPayment(x) \/ CancelPayment(x)
             \/ SaveCancelled(x) \/ SaveRemoved(x)
    <3>1. desk[x].pc \notin {"idle", "done"} /\ UNCHANGED cycle
      BY <2>5 DEF RegisterWalkIn, CollectPayment, CancelPayment, SaveCancelled, SaveRemoved
    <3>2. \A y \in Desk \ {x} : desk'[y] = desk[y]
      BY <1>1, <2>5 DEF RegisterWalkIn, CollectPayment, CancelPayment, SaveCancelled, SaveRemoved
    <3> QED
      BY <2>1, <3>1, <3>2
  <2> QED
    BY <1>4, <2>1, <2>2, <2>3, <2>4, <2>5 DEF Clerk
<1>5. CASE x \in Captures /\ Arrival(x) /\ ~ Convert(x)
  <2>1. CASE Capture(x)
    BY <1>1, <2>1 DEF Capture, DeskState
  <2>2. CASE Match(x) \/ Attach(x)
    BY <1>1, <2>2 DEF Match, Attach, DeskState
  <2>3. CASE AutoConvert(x)
    <3>1. PICK a \in Appts : StartConvert(x, a)
      BY <2>3 DEF AutoConvert, AutoCandidates, Appts
    <3> QED
      BY <1>3, <2>3, <3>1 DEF AutoConvert
  <2>4. CASE AutoBlocked(x) \/ NothingToConvert(x)
    BY <1>1, <2>4 DEF AutoBlocked, NothingToConvert, Finished, Free
  <2> QED
    BY <1>5, <2>1, <2>2, <2>3, <2>4 DEF Arrival
<1> QED
  BY <1>2, <1>4, <1>5 DEF Desked

LEMMA CycleAlone ==
  ASSUME IInv, OneBusy, AtRest \/ Busy' \subseteq Busy, NEW i \in Cycles, Ingest(i)
  PROVE  OnlyCycle(i) /\ OneBusy'
<1>1. i \in Busy \/ i \in Busy'
  BY IngestActs, BusyMeans, BusyNext
<1>2. CASE AtRest
  <2>1. OnlyCycle(i)
    BY <1>2, IngestActs, BusyMeans DEF AtRest, OnlyCycle
  <2>2. Busy' \subseteq {i}
    BY <2>1, BusyNext DEF OnlyCycle, Busy
  <2> QED
    BY <2>1, <2>2 DEF OneBusy
<1>3. CASE Busy' \subseteq Busy
  <2>1. \A u \in Busy : u = i
    BY <1>1, <1>3 DEF OneBusy
  <2>2. OnlyCycle(i)
    BY <2>1, IngestActs, BusyMeans, NamesAssumption DEF OnlyCycle
  <2> QED
    BY <1>3, <2>2 DEF OneBusy
<1> QED
  BY <1>2, <1>3

LEMMA DeskAlone ==
  ASSUME IInv, OneBusy, AtRest \/ Busy' \subseteq Busy, NEW x \in Desk, Desked(x)
  PROVE  OnlyDesk(x) /\ OneBusy'
<1>1. x \in Busy \/ x \in Busy'
  BY DeskActs, BusyMeans, BusyNext
<1>2. CASE AtRest
  <2>1. OnlyDesk(x)
    BY <1>2, DeskActs, BusyMeans DEF AtRest, OnlyDesk
  <2>2. Busy' \subseteq {x}
    BY <2>1, BusyNext DEF OnlyDesk, Busy
  <2> QED
    BY <2>1, <2>2 DEF OneBusy
<1>3. CASE Busy' \subseteq Busy
  <2>1. \A u \in Busy : u = x
    BY <1>1, <1>3 DEF OneBusy
  <2>2. OnlyDesk(x)
    BY <2>1, DeskActs, BusyMeans, NamesAssumption DEF OnlyDesk
  <2> QED
    BY <1>3, <2>2 DEF OneBusy
<1> QED
  BY <1>2, <1>3

-----------------------------------------------------------------------------
(* The arrival of the visit.  The capture of every copy of a row is of the *)
(* row's day or of the day it was created; a capture about to attach       *)
(* relies on nobody else writing the row meanwhile.                        *)

Seen(row) == row.capture # NoCapture =>
  desk[row.capture].pc # "idle" /\ desk[row.capture].seen \in {row.day, row.created}

ArrivalInv ==
  /\ \A a \in Appts : Seen(appt[a])
  /\ \A i \in Cycles : Seen(cycle[i].snap)
  /\ \A x \in Desk : Seen(desk[x].snap)
  /\ \A c \in Captures : desk[c].pc = "attach" =>
       desk[c].seen \in {appt[desk[c].appt].day, appt[desk[c].appt].created}

\* What a capture has seen stays seen.
Recorded ==
  \A c \in Captures : desk[c].pc # "idle" =>
    desk'[c].pc # "idle" /\ desk'[c].seen = desk[c].seen

LEMMA NextRecorded == IInv /\ [Next]_vars => Recorded
<1> SUFFICES ASSUME IInv, [Next]_vars, NEW c \in Captures, desk[c].pc # "idle"
             PROVE  desk'[c].pc # "idle" /\ desk'[c].seen = desk[c].seen
  BY DEF Recorded
<1>1. c \in Desk /\ c \notin Clerks
  BY NamesAssumption DEF Desk
<1>2. ASSUME NEW x \in Desk, Desked(x)
      PROVE  desk'[c].pc # "idle" /\ desk'[c].seen = desk[c].seen
  BY <1>1, <1>2, DeskActs
<1>3. CASE Interrupt
  <2>1. CASE UNCHANGED desk
    BY <2>1
  <2>2. ASSUME NEW x \in Desk,
               desk' = [desk EXCEPT ![x] =
                          IF x \in Clerks THEN Free
                          ELSE [Free EXCEPT !.pc = "done", !.seen = desk[x].seen]]
        PROVE  desk'[c].pc # "idle" /\ desk'[c].seen = desk[c].seen
    BY <1>1, <2>2 DEF Free, IInv, TypeOK
  <2> QED
    BY <1>3, <2>1, <2>2 DEF Interrupt
<1>4. CASE UNCHANGED desk
  BY <1>4
<1>5. CASE Next
  <2>1. ASSUME NEW k \in Clerks, Clerk(k)
        PROVE  desk'[c].pc # "idle" /\ desk'[c].seen = desk[c].seen
    BY <2>1, <1>2 DEF Desked, Desk
  <2>2. ASSUME NEW d \in Captures, Arrival(d)
        PROVE  desk'[c].pc # "idle" /\ desk'[c].seen = desk[c].seen
    BY <2>2, <1>2 DEF Desked, Desk
  <2>3. ASSUME NEW b \in Bookings, Provider(b) PROVE UNCHANGED desk
    BY <2>3 DEF Provider, Book, SettleUpstream, Reschedule, Withdraw, Change
  <2>4. NewDay => UNCHANGED desk
    BY DEF NewDay
  <2>5. ASSUME NEW i \in Cycles, Ingest(i) PROVE UNCHANGED desk
    BY <2>5, IngestActs
  <2> QED
    BY <1>3, <1>4, <1>5, <2>1, <2>2, <2>3, <2>4, <2>5 DEF Next
<1> QED
  BY <1>4, <1>5 DEF vars

LEMMA ArrivalKept ==
  ASSUME IInv', Recorded,
         \A a \in Appts : Seen(appt'[a]),
         \A i \in Cycles : Seen(cycle'[i].snap),
         \A x \in Desk : Seen(desk'[x].snap),
         \A c \in Captures : desk'[c].pc = "attach" =>
           desk'[c].seen \in {appt'[desk'[c].appt].day, appt'[desk'[c].appt].created}
  PROVE  ArrivalInv'
<1>1. \A row : row \in Appointment => row.capture \in Captures \union {NoCapture}
  BY DEF Appointment
<1>2. ASSUME NEW a \in Appts PROVE Seen(appt[a])'
  <2>1. appt'[a] \in Appointment
    BY DEF IInv, TypeOK
  <2> QED
    BY <1>1, <2>1 DEF Seen, Recorded
<1>3. ASSUME NEW i \in Cycles PROVE Seen(cycle[i].snap)'
  <2>1. cycle'[i].snap \in Appointment
    BY DEF IInv, TypeOK, CycleState
  <2> QED
    BY <1>1, <2>1 DEF Seen, Recorded
<1>4. ASSUME NEW x \in Desk PROVE Seen(desk[x].snap)'
  <2>1. desk'[x].snap \in Appointment
    BY DEF IInv, TypeOK, DeskState
  <2> QED
    BY <1>1, <2>1 DEF Seen, Recorded
<1> QED
  BY <1>2, <1>3, <1>4 DEF ArrivalInv

LEMMA SeenNoAppt == Seen(NoAppt)
BY DEF Seen, NoAppt, NoCapture

\* A patch of other columns keeps the arrival.
LEMMA SeenPatched ==
  ASSUME NEW old, NEW new, Seen(old), new.capture = old.capture, new.day = old.day,
         new.created = old.created
  PROVE  Seen(new)
BY DEF Seen

\* One row is written.
LEMMA SeenRows ==
  ASSUME IInv, ArrivalInv, NEW b, NEW row, Seen(row),
         appt' = appt \/ appt' = [appt EXCEPT ![b] = row]
  PROVE  \A a \in Appts : Seen(appt'[a])
<1> SUFFICES ASSUME NEW a \in Appts PROVE Seen(appt'[a])
  OBVIOUS
<1>1. Seen(appt[a])
  BY DEF ArrivalInv
<1>2. appt'[a] = appt[a] \/ appt'[a] = row
  BY DEF IInv, TypeOK
<1> QED
  BY <1>1, <1>2 DEF Seen

LEMMA NextSyncSnap ==
  ASSUME IInv, NEW i \in Cycles PROVE NextSync(i).snap = NoAppt
BY CycleFacts DEF NextSync, Idle, CycleState

LEMMA IngestSeen ==
  ASSUME IInv, ArrivalInv, NEW i \in Cycles, Ingest(i)
  PROVE  (\A a \in Appts : Seen(appt'[a])) /\ Seen(cycle'[i].snap)
<1> USE DEF ArrivalInv
<1>1. cycle \in [Cycles -> CycleState]
  BY DEF IInv, TypeOK
<1>2. Seen(cycle[i].snap) /\ Seen(NoAppt)
  BY SeenNoAppt
<1>3. ASSUME cycle[i].cur \in Bookings
      PROVE  cycle[i].cur \in Appts /\ appt[cycle[i].cur] \in Appointment
  BY <1>3, RowOf DEF Appts
<1>4. CASE \/ \E d \in Days : FetchAppointments(i, d)
           \/ UpsertBooking(i) \/ WithdrawMissing(i) \/ PromoteExisting(i) \/ PromoteCheck(i)
           \/ LinkBooking(i) \/ EnsurePayment(i) \/ StartSync(i) \/ RestorePayment(i)
           \/ CancelPaymentFor(i)
  <2>1. UNCHANGED appt
    BY <1>4 DEF FetchAppointments, UpsertBooking, WithdrawMissing, PromoteExisting, PromoteCheck,
                LinkBooking, EnsurePayment, StartSync, RestorePayment, CancelPaymentFor
  <2>2. cycle'[i].snap \in {cycle[i].snap, NoAppt}
    <3>1. CASE (\E d \in Days : FetchAppointments(i, d)) \/ WithdrawMissing(i)
      BY <1>1, <3>1 DEF FetchAppointments, WithdrawMissing, Idle
    <3>2. CASE UpsertBooking(i) \/ PromoteExisting(i)
      <4>1. PICK b : cycle' = [cycle EXCEPT ![i].todo = @ \ {b}]
        BY <3>2 DEF UpsertBooking, PromoteExisting
      <4> QED
        BY <1>1, <4>1 DEF CycleState
    <3>3. CASE LinkBooking(i) \/ EnsurePayment(i) \/ RestorePayment(i)
      BY <1>1, <3>3 DEF LinkBooking, EnsurePayment, RestorePayment, CycleState
    <3>4. CASE PromoteCheck(i)
      <4>1. PICK b : cycle' = [cycle EXCEPT ![i] =
                       IF OpenByPlate # {}
                       THEN [cycle[i] EXCEPT !.todo = cycle[i].todo \ {b}]
                       ELSE [cycle[i] EXCEPT !.pc = "insert", !.todo = cycle[i].todo \ {b}, !.cur = b]]
        BY <3>4 DEF PromoteCheck
      <4> QED
        BY <1>1, <4>1 DEF CycleState
    <3>5. CASE StartSync(i)
      BY <1>1, <3>5 DEF StartSync, CycleState, Idle
    <3>6. CASE CancelPaymentFor(i)
      BY <1>1, <3>6, NextSyncSnap DEF CancelPaymentFor
    <3> QED
      BY <1>4, <3>1, <3>2, <3>3, <3>4, <3>5, <3>6
  <2> QED
    BY <1>2, <2>1, <2>2
<1>5. CASE InsertAppointment(i)
  <2>1. PICK row : row.capture = NoCapture
                   /\ (appt' = appt \/ appt' = [appt EXCEPT ![cycle[i].cur] = row])
    <3> DEFINE row == [NoAppt EXCEPT !.status = "Queued", !.day = cycle[i].rows[cycle[i].cur].day,
                         !.created = today, !.settled = cycle[i].rows[cycle[i].cur].paid]
    <3>1. row.capture = NoCapture
      BY DEF NoAppt
    <3>2. appt' = appt \/ appt' = [appt EXCEPT ![cycle[i].cur] = row]
      BY <1>5 DEF InsertAppointment
    <3> QED
      BY <3>1, <3>2
  <2>2. \A a \in Appts : Seen(appt'[a])
    <3>1. Seen(row)
      BY <2>1 DEF Seen
    <3> QED
      BY <2>1, <3>1, SeenRows
  <2>3. cycle'[i].snap = cycle[i].snap
    BY <1>1, <1>5 DEF InsertAppointment, CycleState
  <2> QED
    BY <1>2, <2>2, <2>3
<1>6. CASE SyncRead(i)
  <2>1. PICK b \in cycle[i].todo : cycle'[i].snap \in {cycle[i].snap, NoAppt, appt[b]}
    BY <1>1, <1>6 DEF SyncRead, CycleState, Idle
  <2>2. b \in Appts
    BY <1>1 DEF CycleState, Appts
  <2> QED
    BY <1>2, <1>6, <2>1, <2>2 DEF SyncRead
<1>7. CASE SaveSynced(i)
  <2> DEFINE b == cycle[i].cur
             old == cycle[i].snap
             new == [old EXCEPT
                       !.status = IF old.status = "Cancelled" THEN "Queued" ELSE old.status,
                       !.blocked = "none",
                       !.day = IF old.capture = NoCapture THEN cycle[i].rows[b].day ELSE old.day]
  <2>1. appt' = appt \/ appt' = [appt EXCEPT ![b] = new]
    BY <1>7 DEF SaveSynced
  <2>2. old \in Appointment
    BY <1>1 DEF CycleState
  <2>3. Seen(new)
    BY <1>2, <2>2 DEF Seen, Appointment
  <2> HIDE DEF new, b
  <2>4. \A a \in Appts : Seen(appt'[a])
    BY <2>1, <2>3, SeenRows
  <2>5. cycle'[i].snap = NoAppt
    BY <1>1, <1>7, NextSyncSnap DEF SaveSynced
  <2> QED
    BY <1>2, <2>4, <2>5
<1>8. CASE AutoCancel(i) \/ WarnWithdrawn(i)
  <2> DEFINE b == cycle[i].cur
  <2>1. b \in Appts /\ appt[b] \in Appointment
    BY <1>3, <1>8, CycleFacts DEF AutoCancel, WarnWithdrawn, CycleOK
  <2>2. PICK row : /\ row.capture = appt[b].capture /\ row.day = appt[b].day
                   /\ row.created = appt[b].created
                   /\ appt' = appt \/ appt' = [appt EXCEPT ![b] = row]
    <3>1. CASE AutoCancel(i)
      <4> DEFINE row == [appt[b] EXCEPT !.status = "Cancelled"]
      <4>1. appt' = [appt EXCEPT ![b] = row]
        BY <2>1, <3>1 DEF AutoCancel, IInv, TypeOK
      <4> QED
        BY <2>1, <4>1 DEF Appointment
    <3>2. CASE WarnWithdrawn(i)
      <4> DEFINE row == [appt[b] EXCEPT !.blocked = "withdrawn"]
      <4>1. appt' = appt \/ appt' = [appt EXCEPT ![b] = row]
        BY <2>1, <3>2 DEF WarnWithdrawn, IInv, TypeOK
      <4> QED
        BY <2>1, <4>1 DEF Appointment
    <3> QED
      BY <1>8, <3>1, <3>2
  <2>3. Seen(row)
    BY <2>1, <2>2, SeenPatched
  <2>4. \A a \in Appts : Seen(appt'[a])
    BY <2>2, <2>3, SeenRows
  <2>5. cycle'[i].snap \in {cycle[i].snap, NoAppt}
    BY <1>1, <1>8, NextSyncSnap DEF AutoCancel, WarnWithdrawn, CycleState
  <2> QED
    BY <1>2, <2>4, <2>5
<1> QED
  BY <1>4, <1>5, <1>6, <1>7, <1>8 DEF Ingest

LEMMA ClerkSeen ==
  ASSUME IInv, ArrivalInv, NEW k \in Clerks, Clerk(k), ~ Convert(k)
  PROVE  (\A a \in Appts : Seen(appt'[a])) /\ Seen(desk'[k].snap)
<1> USE DEF ArrivalInv
<1>1. desk \in [Desk -> DeskState] /\ k \in Desk
  BY DEF IInv, TypeOK, Desk
<1>2. Seen(desk[k].snap) /\ Seen(NoAppt)
  BY <1>1, SeenNoAppt
<1>3. ASSUME NEW a \in WalkIns, RegisterCheck(k, a)
      PROVE  (\A e \in Appts : Seen(appt'[e])) /\ Seen(desk'[k].snap)
  <2> DEFINE c == IF SeenToday = {} THEN NoCapture ELSE LatestToday
  <2> HIDE DEF c
  <2>1. PICK d : desk' = [desk EXCEPT ![k] = [desk[k] EXCEPT !.pc = "register", !.appt = a,
                   !.snap = [NoAppt EXCEPT
                     !.status = "Queued", !.day = d, !.created = today, !.capture = c]]]
    BY <1>3 DEF RegisterCheck, c
  <2>2. desk'[k].snap = [NoAppt EXCEPT
          !.status = "Queued", !.day = d, !.created = today, !.capture = c]
    BY <1>1, <2>1 DEF DeskState
  <2>6. desk'[k].snap.created = today /\ desk'[k].snap.capture = c
    BY <2>2 DEF NoAppt
  <2>3. SeenToday # {} => LatestToday \in SeenToday
    <3>1. SeenToday \in SUBSET Captures
      BY DEF SeenToday
    <3> QED
      BY <3>1, Latest DEF LatestToday
  <2>4. SeenToday # {} => desk[LatestToday].pc # "idle" /\ desk[LatestToday].seen = today
    BY <2>3 DEF SeenToday
  <2>5. Seen(desk'[k].snap)
    BY <2>6, <2>4 DEF Seen, c
  <2> QED
    BY <1>3, <2>5 DEF RegisterCheck
<1>4. CASE RegisterWalkIn(k)
  <2>1. \A a \in Appts : Seen(appt'[a])
    BY <1>2, <1>4, SeenRows DEF RegisterWalkIn
  <2> QED
    BY <1>1, <1>2, <1>4, <2>1 DEF RegisterWalkIn, DeskState
<1>5. CASE CollectPayment(k) \/ CancelPayment(k)
  <2>1. desk'[k].snap \in {desk[k].snap, NoAppt} /\ UNCHANGED appt
    BY <1>1, <1>5 DEF CollectPayment, CancelPayment, DeskState, Free
  <2> QED
    BY <1>2, <2>1
<1>6. ASSUME NEW a \in Appts, CancelRead(k, a) \/ RemoveRead(k, a) \/ ConvertRead(k, a)
      PROVE  (\A e \in Appts : Seen(appt'[e])) /\ Seen(desk'[k].snap)
  <2>1. desk'[k].snap \in {desk[k].snap, appt[a]} /\ UNCHANGED appt
    BY <1>1, <1>6 DEF CancelRead, RemoveRead, ConvertRead, StartConvert, DeskState
  <2> QED
    BY <1>2, <2>1
<1>7. CASE SaveCancelled(k)
  <2> DEFINE b == desk[k].appt
             row == [appt[b] EXCEPT !.status = "Cancelled", !.blocked = "none"]
  <2>1. b \in Appts
    BY <1>1, <1>7, DeskFacts DEF SaveCancelled, DeskOK
  <2>2. appt' = [appt EXCEPT ![b] = row]
    BY <1>7 DEF SaveCancelled
  <2>3. Seen(row)
    <3>1. appt[b] \in Appointment /\ Seen(appt[b])
      BY <2>1, RowOf
    <3>2. row.capture = appt[b].capture /\ row.day = appt[b].day /\ row.created = appt[b].created
      BY <3>1 DEF Appointment
    <3> HIDE DEF row
    <3> QED
      BY <3>1, <3>2, SeenPatched
  <2> HIDE DEF b, row
  <2>4. \A a \in Appts : Seen(appt'[a])
    BY <2>2, <2>3, SeenRows
  <2>5. desk'[k].snap = NoAppt
    BY <1>1, <1>7 DEF SaveCancelled, Free
  <2> QED
    BY <1>2, <2>4, <2>5
<1>8. CASE SaveRemoved(k)
  <2> DEFINE row == [desk[k].snap EXCEPT !.removed = TRUE]
  <2>1. appt' = [appt EXCEPT ![desk[k].appt] = row]
    BY <1>8 DEF SaveRemoved
  <2>2. Seen(row)
    <3>1. desk[k].snap \in Appointment
      BY <1>1 DEF DeskState
    <3> QED
      BY <1>2, <3>1, SeenPatched DEF Appointment
  <2> HIDE DEF row
  <2>3. \A a \in Appts : Seen(appt'[a])
    BY <2>1, <2>2, SeenRows
  <2>4. desk'[k].snap = NoAppt
    BY <1>1, <1>8 DEF SaveRemoved, Free
  <2> QED
    BY <1>2, <2>3, <2>4
<1> QED
  BY <1>3, <1>4, <1>5, <1>6, <1>7, <1>8 DEF Clerk

LEMMA ConvertSeen ==
  ASSUME IInv, ArrivalInv, NEW x \in Desk, Convert(x)
  PROVE  (\A a \in Appts : Seen(appt'[a])) /\ Seen(desk'[x].snap) /\ desk'[x].pc # "attach"
<1> USE DEF ArrivalInv
<1>1. desk \in [Desk -> DeskState]
  BY DEF IInv, TypeOK
<1>2. Seen(desk[x].snap) /\ Seen(NoAppt)
  BY SeenNoAppt
<1>3. CASE CreateJob(x)
  <2>1. desk'[x].snap = desk[x].snap /\ desk'[x].pc = "convert" /\ UNCHANGED appt
    BY <1>1, <1>3 DEF CreateJob, DeskState
  <2> QED
    BY <1>2, <2>1
<1>4. CASE SaveConverted(x)
  <2> DEFINE row == [desk[x].snap EXCEPT !.status = "Converted"]
  <2>1. appt' = [appt EXCEPT ![desk[x].appt] = row]
    BY <1>4 DEF SaveConverted
  <2>2. Seen(row)
    <3>1. desk[x].snap \in Appointment
      BY <1>1 DEF DeskState
    <3> QED
      BY <1>2, <3>1, SeenPatched DEF Appointment
  <2> HIDE DEF row
  <2>3. \A a \in Appts : Seen(appt'[a])
    BY <2>1, <2>2, SeenRows
  <2>4. desk'[x].snap = desk[x].snap /\ desk'[x].pc = "linkPay"
    BY <1>1, <1>4 DEF SaveConverted, DeskState
  <2> QED
    BY <1>2, <2>3, <2>4
<1>5. CASE LinkPayment(x)
  <2> DEFINE b == desk[x].appt
             row == [appt[b] EXCEPT !.blocked = "none"]
  <2>1. b \in Appts
    BY <1>5, DeskFacts DEF LinkPayment, DeskOK
  <2>2. appt' = appt \/ appt' = [appt EXCEPT ![b] = row]
    BY <1>5, <2>1 DEF LinkPayment, IInv, TypeOK
  <2>3. Seen(row)
    <3>1. appt[b] \in Appointment
      BY <2>1, RowOf
    <3> QED
      BY <2>1, <3>1, SeenPatched DEF Appointment
  <2> HIDE DEF b, row
  <2>4. \A a \in Appts : Seen(appt'[a])
    BY <2>2, <2>3, SeenRows
  <2>5. desk'[x].snap = NoAppt /\ desk'[x].pc \in {"idle", "done"}
    BY <1>1, <1>5 DEF LinkPayment, Free
  <2> QED
    BY <1>2, <2>4, <2>5
<1> QED
  BY <1>3, <1>4, <1>5 DEF Convert

\* An appointment a capture is matched with is of its day.
LEMMA MatchedToday ==
  ASSUME NEW a \in QueuedByPlate
  PROVE  /\ a \in Appts /\ appt[a].capture = NoCapture /\ appt[a].status # "none"
         /\ today \in {appt[a].day, appt[a].created}
BY DEF QueuedByPlate, Waiting, Queued, Found, Appts

LEMMA CaptureSeen ==
  ASSUME IInv, ArrivalInv, NEW c \in Captures, Arrival(c), ~ Convert(c)
  PROVE  /\ \A a \in Appts : Seen(appt'[a])
         /\ Seen(desk'[c].snap)
         /\ desk'[c].pc = "attach" =>
              desk'[c].seen \in {appt'[desk'[c].appt].day, appt'[desk'[c].appt].created}
<1> USE DEF ArrivalInv
<1>1. desk \in [Desk -> DeskState] /\ c \in Desk
  BY DEF IInv, TypeOK, Desk
<1>2. Seen(desk[c].snap) /\ Seen(NoAppt)
  BY <1>1, SeenNoAppt
<1>3. CASE Capture(c)
  <2>1. desk'[c].snap = desk[c].snap /\ desk'[c].pc = "match" /\ UNCHANGED appt
    BY <1>1, <1>3 DEF Capture, DeskState
  <2> QED
    BY <1>2, <2>1
<1>4. CASE Match(c)
  <2>1. desk'[c].snap = desk[c].snap /\ desk'[c].seen = desk[c].seen /\ UNCHANGED appt
    BY <1>1, <1>4 DEF Match, DeskState
  <2>2. desk'[c].pc = "attach" => desk[c].seen = today /\ desk'[c].appt \in QueuedByPlate
    BY <1>1, <1>4 DEF Match, DeskState
  <2> QED
    BY <1>2, <2>1, <2>2, MatchedToday
<1>5. CASE Attach(c)
  <2> DEFINE b == desk[c].appt
             row == [appt[b] EXCEPT !.capture = c]
  <2>1. b \in Appts /\ appt[b] \in Appointment
    BY <1>1, <1>5, DeskFacts, RowOf DEF Attach, DeskOK
  <2>2. appt' = [appt EXCEPT ![b] = row]
    BY <1>5, <2>1 DEF Attach, IInv, TypeOK
  <2>3. Seen(row)
    <3>1. row.capture = c /\ row.day = appt[b].day /\ row.created = appt[b].created
      BY <2>1 DEF Appointment
    <3> HIDE DEF row
    <3> QED
      BY <1>5, <3>1 DEF Seen, Attach
  <2> HIDE DEF b, row
  <2>4. \A a \in Appts : Seen(appt'[a])
    BY <2>2, <2>3, SeenRows
  <2>5. desk'[c].snap = desk[c].snap /\ desk'[c].pc = "auto"
    BY <1>1, <1>5 DEF Attach, DeskState
  <2> QED
    BY <1>2, <2>4, <2>5
<1>6. CASE AutoConvert(c)
  <2>1. PICK a \in Appts : StartConvert(c, a)
    BY <1>6 DEF AutoConvert, AutoCandidates, Appts
  <2>2. desk'[c].snap = appt[a] /\ desk'[c].pc = "create" /\ UNCHANGED appt
    BY <1>1, <1>6, <2>1 DEF AutoConvert, StartConvert, DeskState
  <2> QED
    BY <2>2
<1>7. CASE AutoBlocked(c)
  <2>1. PICK a \in Appts : appt' = [appt EXCEPT ![a].blocked = "gate"]
    BY <1>7 DEF AutoBlocked, AutoCandidates, Appts
  <2> DEFINE row == [appt[a] EXCEPT !.blocked = "gate"]
  <2>2. appt' = [appt EXCEPT ![a] = row]
    BY <2>1 DEF IInv, TypeOK
  <2>3. Seen(row)
    <3>1. appt[a] \in Appointment
      BY RowOf
    <3> QED
      BY <3>1, SeenPatched DEF Appointment
  <2> HIDE DEF row
  <2>4. \A e \in Appts : Seen(appt'[e])
    BY <2>2, <2>3, SeenRows
  <2>5. desk'[c].snap = NoAppt /\ desk'[c].pc = "done"
    BY <1>1, <1>7 DEF AutoBlocked, Finished, Free
  <2> QED
    BY <1>2, <2>4, <2>5
<1>8. CASE NothingToConvert(c)
  <2>1. desk'[c].snap = NoAppt /\ desk'[c].pc = "done" /\ UNCHANGED appt
    BY <1>1, <1>8 DEF NothingToConvert, Finished, Free
  <2> QED
    BY <1>2, <2>1
<1> QED
  BY <1>3, <1>4, <1>5, <1>6, <1>7, <1>8 DEF Arrival

\* What holds of actors that do not overlap.
ArrivalIInv == IInv /\ OneBusy /\ ArrivalInv

LEMMA ArrivalInit == Init => ArrivalIInv
<1> SUFFICES ASSUME Init PROVE ArrivalIInv
  OBVIOUS
<1>1. OneBusy
  BY DEF Init, OneBusy, Busy, Idle, Free
<1>2. ArrivalInv
  BY SeenNoAppt DEF Init, ArrivalInv, Idle, Free, Desk
<1> QED
  BY <1>1, <1>2, InitInv DEF ArrivalIInv

LEMMA ArrivalInterrupt ==
  ASSUME ArrivalIInv, Interrupt
  PROVE  OneBusy' /\ ArrivalInv'
<1>1. IInv' /\ Recorded
  BY NextInv, NextRecorded DEF ArrivalIInv, Next
<1>2. UNCHANGED appt
  BY DEF Interrupt
<1>3. \A i \in Cycles : cycle'[i] \in {cycle[i], Idle}
  BY DEF Interrupt, ArrivalIInv, IInv, TypeOK
<1>4. \A x \in Desk : \/ desk'[x] = desk[x]
                      \/ desk'[x].pc \in {"idle", "done"} /\ desk'[x].snap = NoAppt
  <2>1. desk \in [Desk -> DeskState]
    BY DEF ArrivalIInv, IInv, TypeOK
  <2>2. ASSUME NEW x \in Desk,
               desk' = [desk EXCEPT ![x] =
                          IF x \in Clerks THEN Free
                          ELSE [Free EXCEPT !.pc = "done", !.seen = desk[x].seen]]
        PROVE  \A y \in Desk : \/ desk'[y] = desk[y]
                               \/ desk'[y].pc \in {"idle", "done"} /\ desk'[y].snap = NoAppt
    BY <2>1, <2>2 DEF Free
  <2> QED
    BY <2>2 DEF Interrupt
<1>5. OneBusy'
  <2>1. \A i \in Cycles : cycle'[i].pc # "idle" => cycle[i].pc # "idle"
    BY <1>3 DEF Idle
  <2>2. \A x \in Desk : desk'[x].pc \notin {"idle", "done"} => desk[x].pc \notin {"idle", "done"}
    BY <1>4
  <2> QED
    BY <2>1, <2>2 DEF ArrivalIInv, OneBusy, Busy
<1>6. ArrivalInv'
  <2>1. \A i \in Cycles : Seen(cycle'[i].snap)
    BY <1>3, SeenNoAppt DEF ArrivalIInv, ArrivalInv, Idle
  <2>2. \A x \in Desk : Seen(desk'[x].snap)
    BY <1>4, SeenNoAppt DEF ArrivalIInv, ArrivalInv
  <2>3. \A c \in Captures : desk'[c].pc = "attach" =>
          desk'[c].seen \in {appt'[desk'[c].appt].day, appt'[desk'[c].appt].created}
    BY <1>2, <1>4 DEF ArrivalIInv, ArrivalInv, Desk
  <2> QED
    BY <1>1, <1>2, <2>1, <2>2, <2>3, ArrivalKept DEF ArrivalIInv, ArrivalInv
<1> QED
  BY <1>5, <1>6

LEMMA ArrivalNext == ArrivalIInv /\ [SerialNext]_vars => ArrivalIInv'
<1> SUFFICES ASSUME ArrivalIInv, [SerialNext]_vars PROVE ArrivalIInv'
  OBVIOUS
<1>1. IInv' /\ Recorded
  BY NextInv, NextRecorded DEF ArrivalIInv, SerialNext
<1>2. CASE UNCHANGED <<appt, cycle, desk>>
  BY <1>1, <1>2 DEF ArrivalIInv, OneBusy, Busy, ArrivalInv, Seen
<1>3. CASE SerialNext
  <2>1. ASSUME NEW i \in Cycles, Ingest(i) PROVE OneBusy' /\ ArrivalInv'
    <3>1. OnlyCycle(i) /\ OneBusy'
      BY <1>3, <2>1, CycleAlone DEF ArrivalIInv, SerialNext
    <3>2. (\A a \in Appts : Seen(appt'[a])) /\ Seen(cycle'[i].snap)
      BY <2>1, IngestSeen DEF ArrivalIInv
    <3>3. \A j \in Cycles : Seen(cycle'[j].snap)
      BY <3>1, <3>2 DEF OnlyCycle, ArrivalIInv, ArrivalInv
    <3>4. \A x \in Desk : Seen(desk'[x].snap) /\ desk'[x].pc # "attach"
      BY <3>1 DEF OnlyCycle, ArrivalIInv, ArrivalInv
    <3> QED
      BY <1>1, <3>1, <3>2, <3>3, <3>4, ArrivalKept DEF Desk
  <2>2. ASSUME NEW x \in Desk, Desked(x) PROVE OneBusy' /\ ArrivalInv'
    <3>1. OnlyDesk(x) /\ OneBusy'
      BY <1>3, <2>2, DeskAlone DEF ArrivalIInv, SerialNext
    <3>2. /\ \A a \in Appts : Seen(appt'[a])
          /\ Seen(desk'[x].snap)
          /\ x \in Captures /\ desk'[x].pc = "attach" =>
               desk'[x].seen \in {appt'[desk'[x].appt].day, appt'[desk'[x].appt].created}
      BY <2>2, ClerkSeen, ConvertSeen, CaptureSeen, NamesAssumption DEF Desked, ArrivalIInv
    <3>3. \A i \in Cycles : Seen(cycle'[i].snap)
      BY <3>1 DEF OnlyDesk, ArrivalIInv, ArrivalInv
    <3>4. \A y \in Desk : Seen(desk'[y].snap)
      BY <3>1, <3>2 DEF OnlyDesk, ArrivalIInv, ArrivalInv
    <3>5. \A c \in Captures : desk'[c].pc = "attach" =>
            desk'[c].seen \in {appt'[desk'[c].appt].day, appt'[desk'[c].appt].created}
      BY <3>1, <3>2 DEF OnlyDesk, Desk
    <3> QED
      BY <1>1, <3>1, <3>2, <3>3, <3>4, <3>5, ArrivalKept
  <2>3. ASSUME NEW b \in Bookings, Provider(b) PROVE UNCHANGED <<appt, cycle, desk>>
    BY <2>3 DEF Provider, Book, SettleUpstream, Reschedule, Withdraw, Change
  <2>4. NewDay => UNCHANGED <<appt, cycle, desk>>
    BY DEF NewDay
  <2>5. ASSUME NEW k \in Clerks, Clerk(k) PROVE OneBusy' /\ ArrivalInv'
    BY <2>2, <2>5 DEF Desked, Desk
  <2>6. ASSUME NEW c \in Captures, Arrival(c) PROVE OneBusy' /\ ArrivalInv'
    BY <2>2, <2>6 DEF Desked, Desk
  <2> QED
    BY <1>1, <1>2, <1>3, <2>1, <2>3, <2>4, <2>5, <2>6, ArrivalInterrupt
    DEF ArrivalIInv, SerialNext, Next
<1> QED
  BY <1>2, <1>3 DEF vars

LEMMA ArrivalIInvHolds == SerialSpec => []ArrivalIInv
<1>1. Init => ArrivalIInv
  BY ArrivalInit
<1>2. ArrivalIInv /\ [SerialNext]_vars => ArrivalIInv'
  BY ArrivalNext
<1> QED
  BY <1>1, <1>2, PTL DEF SerialSpec

\* While requests do not overlap, restarts included, every appointment carries
\* an arrival of its own day or of the day it was created, never one of an
\* earlier visit (attachCaptureToAppointment, create, syncPromoted).
THEOREM ArrivalOfTheVisitHolds == SerialSpec => []ArrivalOfTheVisit
<1>1. ArrivalIInv => ArrivalOfTheVisit
  BY DEF ArrivalIInv, ArrivalInv, Seen, ArrivalOfTheVisit
<1> QED
  BY <1>1, ArrivalIInvHolds, PTL

-----------------------------------------------------------------------------
(* Requests that run to their end: nothing is cut short, so between them   *)
(* every visit is where VisitLifecycle has it.                             *)

\* What an actor is in the middle of, seen from appointment a.
Links(c, a) == c.pc \in {"link", "pay"} /\ c.cur = a
Writes(c, a) == c.pc \in {"unpay", "save"} /\ c.cur = a
Cancels(d, a) == d.pc = "cancel" /\ d.appt = a
Converts(d, a) == d.pc = "convert" /\ d.appt = a

\* A row, its payment and its jobs agree, but for what the actors that hold
\* the row are about to complete.
RowFits(row, paid, count, links, writes, cancels, converts) ==
  /\ row.status = "none" => paid = "none" /\ ~ row.removed
  /\ count = IF row.status = "Converted" \/ converts THEN 1 ELSE 0
  /\ row.status = "Converted" => ~ row.removed
  /\ row.status = "Cancelled" => paid # "Paid" \/ writes
  /\ row.status = "Queued" => paid # "Cancelled" \/ cancels
  /\ row.settled => paid # "none" \/ links

RowOK(a) ==
  RowFits(appt[a], pay[a].status, jobs[a],
          \E i \in Cycles : Links(cycle[i], a), \E i \in Cycles : Writes(cycle[i], a),
          \E k \in Clerks : Cancels(desk[k], a), \E x \in Desk : Converts(desk[x], a))

\* What cycle c knows of the tables.
CycleKnows(c) ==
  /\ c.pc = "upsert" => \A b \in Bookings :
       /\ held[b].paid /\ c.list[b] # "gone" => c.list[b] = "paid"
       /\ b \in c.todo => c.list[b] # "gone"
  /\ c.pc \notin {"idle", "upsert"} => \A b \in Bookings : c.rows[b].paid = held[b].paid
  /\ c.pc \in {"link", "pay"} =>
       /\ appt[c.cur].status = "Queued" /\ ~ appt[c.cur].removed
       /\ pay[c.cur].status = "none"
       /\ appt[c.cur].settled => c.rows[c.cur].paid
  /\ c.pc \in {"withdrawn", "restore", "save", "unpay"} => ~ appt[c.cur].removed
  /\ c.pc \in {"withdrawn", "restore", "save"} => c.snap = appt[c.cur]
  /\ c.pc \in {"restore", "unpay"} => appt[c.cur].status = "Cancelled"
  /\ c.pc \in {"save", "unpay"} /\ appt[c.cur].status = "Cancelled" =>
       pay[c.cur].status # "Cancelled"

\* What clerk or pipeline x knows of them.
DeskKnows(x, d) ==
  /\ d.pc = "register" =>
       /\ appt[d.appt].status = "none"
       /\ d.snap.status = "Queued" /\ ~ d.snap.settled /\ ~ d.snap.removed
  /\ d.pc \in {"collect", "refund", "cancel"} =>
       appt[d.appt].status = "Queued" /\ ~ appt[d.appt].removed
  /\ d.pc = "collect" => pay[d.appt].status = "none"
  /\ d.pc = "cancel" => pay[d.appt].status # "Paid" /\ x \in Clerks
  /\ d.pc \in {"remove", "create", "convert"} =>
       /\ d.snap = appt[d.appt] /\ ~ d.snap.removed
       /\ d.snap.status \in {"Queued", "Cancelled"}
  /\ d.pc \in {"create", "convert"} => pay[d.appt].status # "none"

RestInv ==
  /\ \A a \in Appts : RowOK(a)
  /\ \A b \in Bookings : pay[b].status # "none" => held[b].paid
  /\ \A i \in Cycles : CycleKnows(cycle[i])
  /\ \A x \in Desk : DeskKnows(x, desk[x])

\* What VisitLifecycle sees of a row, and what it lets a step do to it.
StageOf(row, count, converts) ==
  IF count = 0 /\ row.removed THEN "removed"
  ELSE CASE count = 0 /\ row.status = "none" -> "none"
         [] count = 0 /\ row.status = "Queued" -> "open"
         [] count = 0 /\ row.status = "Cancelled" -> "cancelled"
         [] /\ count = 1 /\ ~ row.removed
            /\ converts \/ row.status = "Converted" -> "converted"
         [] OTHER -> "broken"

MoneyOf(row, paid, writes, cancels) ==
  CASE paid = "Cancelled" /\ cancels -> "Paid"
    [] paid = "Paid" /\ row.status = "Cancelled" /\ writes -> "Cancelled"
    [] OTHER -> paid

VisitStep(s, m, s2, m2) ==
  \/ s2 = s /\ m2 = m
  \/ s = "none" /\ s2 = "open" /\ m2 = m
  \/ s = "open" /\ s2 = "open" /\ m = "none" /\ m2 = "Paid"
  \/ s = "open" /\ s2 = "cancelled" /\ m2 = IF m = "Paid" THEN "Cancelled" ELSE m
  \/ s = "cancelled" /\ s2 = "open" /\ m2 = IF m = "Cancelled" THEN "Paid" ELSE m
  \/ s \in {"open", "cancelled"} /\ s2 = "removed" /\ m2 = m
  \/ s \in {"open", "cancelled"} /\ m # "none" /\ s2 = "converted" /\ m2 = m

\* A step moves one visit, as the lifecycle lets it, or none.
Followed ==
  \/ \A a \in Appts : Stage'[a] = Stage[a] /\ Money'[a] = Money[a]
  \/ \E a \in Appts :
       /\ VisitStep(Stage[a], Money[a], Stage'[a], Money'[a])
       /\ \A e \in Appts \ {a} : Stage'[e] = Stage[e] /\ Money'[e] = Money[e]

\* While cycle i acts, what others have in hand is nothing.
LEMMA CycleHands ==
  ASSUME NEW i \in Cycles, OnlyCycle(i), NEW a \in Appts
  PROVE  /\ (\E j \in Cycles : Links(cycle[j], a)) <=> Links(cycle[i], a)
         /\ (\E j \in Cycles : Writes(cycle[j], a)) <=> Writes(cycle[i], a)
         /\ ~ \E k \in Clerks : Cancels(desk[k], a)
         /\ ~ \E x \in Desk : Converts(desk[x], a)
         /\ (\E j \in Cycles : Links(cycle'[j], a)) <=> Links(cycle'[i], a)
         /\ (\E j \in Cycles : Writes(cycle'[j], a)) <=> Writes(cycle'[i], a)
         /\ ~ \E k \in Clerks : Cancels(desk'[k], a)
         /\ ~ \E x \in Desk : Converts(desk'[x], a)
BY DEF OnlyCycle, Links, Writes, Cancels, Converts, Desk

LEMMA DeskHands ==
  ASSUME NEW x \in Desk, OnlyDesk(x), NEW a \in Appts
  PROVE  /\ ~ \E j \in Cycles : Links(cycle[j], a)
         /\ ~ \E j \in Cycles : Writes(cycle[j], a)
         /\ (\E k \in Clerks : Cancels(desk[k], a)) <=> (x \in Clerks /\ Cancels(desk[x], a))
         /\ (\E y \in Desk : Converts(desk[y], a)) <=> Converts(desk[x], a)
         /\ ~ \E j \in Cycles : Links(cycle'[j], a)
         /\ ~ \E j \in Cycles : Writes(cycle'[j], a)
         /\ (\E k \in Clerks : Cancels(desk'[k], a)) <=> (x \in Clerks /\ Cancels(desk'[x], a))
         /\ (\E y \in Desk : Converts(desk'[y], a)) <=> Converts(desk'[x], a)
BY DEF OnlyDesk, Links, Writes, Cancels, Converts, Desk

\* The refinement mapping, row by row.
LEMMA Mapped ==
  ASSUME NEW a \in Appts
  PROVE  /\ Stage[a] = StageOf(appt[a], jobs[a], \E x \in Desk : Converts(desk[x], a))
         /\ Money[a] = MoneyOf(appt[a], pay[a].status, \E i \in Cycles : Writes(cycle[i], a),
                               \E k \in Clerks : Cancels(desk[k], a))
         /\ Stage'[a] = StageOf(appt'[a], jobs'[a], \E x \in Desk : Converts(desk'[x], a))
         /\ Money'[a] = MoneyOf(appt'[a], pay'[a].status, \E i \in Cycles : Writes(cycle'[i], a),
                                \E k \in Clerks : Cancels(desk'[k], a))
<1>1. /\ Stage[a] = StageOf(appt[a], jobs[a], \E x \in Desk : Converts(desk[x], a))
      /\ Stage'[a] = StageOf(appt'[a], jobs'[a], \E x \in Desk : Converts(desk'[x], a))
  BY Zenon DEF Stage, StageOf, Converts
<1>2. /\ Money[a] = MoneyOf(appt[a], pay[a].status, \E i \in Cycles : Writes(cycle[i], a),
                            \E k \in Clerks : Cancels(desk[k], a))
      /\ Money'[a] = MoneyOf(appt'[a], pay'[a].status, \E i \in Cycles : Writes(cycle'[i], a),
                             \E k \in Clerks : Cancels(desk'[k], a))
  BY Zenon DEF Money, MoneyOf, Writes, Cancels
<1> QED
  BY <1>1, <1>2

\* What is known of every row while cycle i acts, and while desk x does.
LEMMA CycleRow ==
  ASSUME RestInv, NEW i \in Cycles, OnlyCycle(i), NEW a \in Appts
  PROVE  RowFits(appt[a], pay[a].status, jobs[a], Links(cycle[i], a), Writes(cycle[i], a),
                 FALSE, FALSE)
<1>1. RowOK(a)
  BY DEF RestInv
<1> QED
  BY <1>1, CycleHands DEF RowOK, RowFits

LEMMA DeskRow ==
  ASSUME RestInv, NEW x \in Desk, OnlyDesk(x), NEW a \in Appts
  PROVE  RowFits(appt[a], pay[a].status, jobs[a], FALSE, FALSE,
                 x \in Clerks /\ Cancels(desk[x], a), Converts(desk[x], a))
<1>1. RowOK(a)
  BY DEF RestInv
<1> QED
  BY <1>1, DeskHands DEF RowOK, RowFits

\* A cycle's step that touches at most appointment a.
LEMMA CycleFrame ==
  ASSUME RestInv, NEW i \in Cycles, OnlyCycle(i), NEW a \in Appts,
         UNCHANGED jobs,
         \A e \in Appts \ {a} : appt'[e] = appt[e] /\ pay'[e] = pay[e],
         \A e \in Appts \ {a} : /\ Links(cycle'[i], e) <=> Links(cycle[i], e)
                                /\ Writes(cycle'[i], e) <=> Writes(cycle[i], e),
         RowFits(appt'[a], pay'[a].status, jobs[a], Links(cycle'[i], a), Writes(cycle'[i], a),
                 FALSE, FALSE),
         VisitStep(StageOf(appt[a], jobs[a], FALSE),
                   MoneyOf(appt[a], pay[a].status, Writes(cycle[i], a), FALSE),
                   StageOf(appt'[a], jobs[a], FALSE),
                   MoneyOf(appt'[a], pay'[a].status, Writes(cycle'[i], a), FALSE)),
         \A b \in Bookings : pay'[b].status # "none" => held'[b].paid,
         CycleKnows(cycle[i])'
  PROVE  RestInv' /\ Followed
<1>1. ASSUME NEW e \in Appts PROVE RowOK(e)'
  <2>1. CASE e = a
    BY <2>1, CycleHands DEF RowOK, RowFits
  <2>2. CASE e # a
    <3>1. RowFits(appt'[e], pay'[e].status, jobs'[e], Links(cycle'[i], e), Writes(cycle'[i], e),
                  FALSE, FALSE)
      BY <2>2, CycleRow DEF RowFits
    <3> QED
      BY <3>1, CycleHands DEF RowOK, RowFits
  <2> QED
    BY <2>1, <2>2
<1>2. \A j \in Cycles : CycleKnows(cycle[j])'
  <2>1. ASSUME NEW j \in Cycles, j # i PROVE cycle'[j].pc = "idle"
    BY <2>1 DEF OnlyCycle
  <2> QED
    BY <2>1 DEF CycleKnows
<1>3. \A x \in Desk : DeskKnows(x, desk[x])'
  BY DEF OnlyCycle, DeskKnows
<1>4. \A e \in Appts \ {a} : Stage'[e] = Stage[e] /\ Money'[e] = Money[e]
  <2> TAKE e \in Appts \ {a}
  <2> QED
    BY Mapped, CycleHands DEF StageOf, MoneyOf
<1>5. VisitStep(Stage[a], Money[a], Stage'[a], Money'[a])
  <2>1. /\ Stage[a] = StageOf(appt[a], jobs[a], FALSE)
        /\ Stage'[a] = StageOf(appt'[a], jobs[a], FALSE)
    <3>1. Stage[a] = StageOf(appt[a], jobs[a], FALSE)
      BY Mapped, CycleHands DEF StageOf
    <3>2. Stage'[a] = StageOf(appt'[a], jobs[a], FALSE)
      <4> DEFINE converts == \E x \in Desk : Converts(desk'[x], a)
      <4>1. Stage'[a] = StageOf(appt'[a], jobs'[a], converts) /\ jobs'[a] = jobs[a]
        BY Mapped
      <4>2. ~ converts
        BY CycleHands
      <4> HIDE DEF converts
      <4> QED
        BY <4>1, <4>2 DEF StageOf
    <3> QED
      BY <3>1, <3>2
  <2>2. /\ Money[a] = MoneyOf(appt[a], pay[a].status, Writes(cycle[i], a), FALSE)
        /\ Money'[a] = MoneyOf(appt'[a], pay'[a].status, Writes(cycle'[i], a), FALSE)
    BY Mapped, CycleHands DEF MoneyOf
  <2> QED
    BY <2>1, <2>2
<1> QED
  BY <1>1, <1>2, <1>3, <1>4, <1>5 DEF RestInv, Followed

\* A cycle's step that touches no appointment.
LEMMA CycleQuiet ==
  ASSUME RestInv, NEW i \in Cycles, OnlyCycle(i),
         UNCHANGED <<appt, pay, jobs>>,
         \A e \in Appts : /\ Links(cycle'[i], e) <=> Links(cycle[i], e)
                          /\ Writes(cycle'[i], e) <=> Writes(cycle[i], e),
         \A b \in Bookings : pay'[b].status # "none" => held'[b].paid,
         CycleKnows(cycle[i])'
  PROVE  RestInv' /\ Followed
<1>1. ASSUME NEW e \in Appts PROVE RowOK(e)'
  <2>1. RowFits(appt'[e], pay'[e].status, jobs'[e], Links(cycle'[i], e), Writes(cycle'[i], e),
                FALSE, FALSE)
    BY CycleRow DEF RowFits
  <2> QED
    BY <2>1, CycleHands DEF RowOK, RowFits
<1>2. \A j \in Cycles : CycleKnows(cycle[j])'
  <2>1. ASSUME NEW j \in Cycles, j # i PROVE cycle'[j].pc = "idle"
    BY <2>1 DEF OnlyCycle
  <2> QED
    BY <2>1 DEF CycleKnows
<1>3. \A x \in Desk : DeskKnows(x, desk[x])'
  BY DEF OnlyCycle, DeskKnows
<1>4. \A e \in Appts : Stage'[e] = Stage[e] /\ Money'[e] = Money[e]
  <2> TAKE e \in Appts
  <2> QED
    BY Mapped, CycleHands DEF StageOf, MoneyOf
<1> QED
  BY <1>1, <1>2, <1>3, <1>4 DEF RestInv, Followed

\* A desk's step that touches at most appointment a, and one that touches none.
LEMMA DeskFrame ==
  ASSUME RestInv, NEW x \in Desk, OnlyDesk(x), NEW a \in Appts,
         \A e \in Appts \ {a} : appt'[e] = appt[e] /\ pay'[e] = pay[e] /\ jobs'[e] = jobs[e],
         \A e \in Appts \ {a} : /\ Cancels(desk'[x], e) <=> Cancels(desk[x], e)
                                /\ Converts(desk'[x], e) <=> Converts(desk[x], e),
         RowFits(appt'[a], pay'[a].status, jobs'[a], FALSE, FALSE,
                 x \in Clerks /\ Cancels(desk'[x], a), Converts(desk'[x], a)),
         VisitStep(StageOf(appt[a], jobs[a], Converts(desk[x], a)),
                   MoneyOf(appt[a], pay[a].status, FALSE, x \in Clerks /\ Cancels(desk[x], a)),
                   StageOf(appt'[a], jobs'[a], Converts(desk'[x], a)),
                   MoneyOf(appt'[a], pay'[a].status, FALSE, x \in Clerks /\ Cancels(desk'[x], a))),
         \A b \in Bookings : pay'[b].status # "none" => held'[b].paid,
         DeskKnows(x, desk[x])'
  PROVE  RestInv' /\ Followed
<1>1. ASSUME NEW e \in Appts PROVE RowOK(e)'
  <2>1. CASE e = a
    BY <2>1, DeskHands DEF RowOK, RowFits
  <2>2. CASE e # a
    <3>1. RowFits(appt'[e], pay'[e].status, jobs'[e], FALSE, FALSE,
                  x \in Clerks /\ Cancels(desk'[x], e), Converts(desk'[x], e))
      BY <2>2, DeskRow DEF RowFits
    <3> QED
      BY <3>1, DeskHands DEF RowOK, RowFits
  <2> QED
    BY <2>1, <2>2
<1>2. \A y \in Desk : DeskKnows(y, desk[y])'
  <2>1. ASSUME NEW y \in Desk, y # x PROVE desk'[y].pc \in {"idle", "done"}
    BY <2>1 DEF OnlyDesk
  <2> QED
    BY <2>1 DEF DeskKnows
<1>3. \A i \in Cycles : CycleKnows(cycle[i])'
  BY DEF OnlyDesk, CycleKnows
<1>4. \A e \in Appts \ {a} : Stage'[e] = Stage[e] /\ Money'[e] = Money[e]
  <2> TAKE e \in Appts \ {a}
  <2> QED
    BY Mapped, DeskHands DEF StageOf, MoneyOf
<1>5. VisitStep(Stage[a], Money[a], Stage'[a], Money'[a])
  <2>1. /\ Stage[a] = StageOf(appt[a], jobs[a], Converts(desk[x], a))
        /\ Stage'[a] = StageOf(appt'[a], jobs'[a], Converts(desk'[x], a))
    <3>1. Stage[a] = StageOf(appt[a], jobs[a], Converts(desk[x], a))
      BY Mapped, DeskHands DEF StageOf
    <3>2. Stage'[a] = StageOf(appt'[a], jobs'[a], Converts(desk'[x], a))
      BY Mapped, DeskHands DEF StageOf
    <3> QED
      BY <3>1, <3>2
  <2>2. /\ Money[a] = MoneyOf(appt[a], pay[a].status, FALSE, x \in Clerks /\ Cancels(desk[x], a))
        /\ Money'[a] = MoneyOf(appt'[a], pay'[a].status, FALSE,
                               x \in Clerks /\ Cancels(desk'[x], a))
    BY Mapped, DeskHands DEF MoneyOf
  <2> QED
    BY <2>1, <2>2
<1> QED
  BY <1>1, <1>2, <1>3, <1>4, <1>5 DEF RestInv, Followed

LEMMA DeskQuiet ==
  ASSUME RestInv, NEW x \in Desk, OnlyDesk(x),
         UNCHANGED <<held, jobs>>,
         \A e \in Appts : /\ appt'[e].status = appt[e].status
                          /\ appt'[e].removed = appt[e].removed
                          /\ appt'[e].settled = appt[e].settled
                          /\ pay'[e].status = pay[e].status
                          /\ Cancels(desk'[x], e) <=> Cancels(desk[x], e)
                          /\ Converts(desk'[x], e) <=> Converts(desk[x], e),
         DeskKnows(x, desk[x])'
  PROVE  RestInv' /\ Followed
<1>1. ASSUME NEW e \in Appts PROVE RowOK(e)'
  <2>1. RowFits(appt'[e], pay'[e].status, jobs'[e], FALSE, FALSE,
                x \in Clerks /\ Cancels(desk'[x], e), Converts(desk'[x], e))
    BY DeskRow DEF RowFits
  <2> QED
    BY <2>1, DeskHands DEF RowOK, RowFits
<1>2. \A y \in Desk : DeskKnows(y, desk[y])'
  <2>1. ASSUME NEW y \in Desk, y # x PROVE desk'[y].pc \in {"idle", "done"}
    BY <2>1 DEF OnlyDesk
  <2> QED
    BY <2>1 DEF DeskKnows
<1>3. \A i \in Cycles : CycleKnows(cycle[i])'
  BY DEF OnlyDesk, CycleKnows
<1>4. \A e \in Appts : Stage'[e] = Stage[e] /\ Money'[e] = Money[e]
  <2> TAKE e \in Appts
  <2> QED
    BY Mapped, DeskHands DEF StageOf, MoneyOf
<1>5. \A b \in Bookings : pay'[b].status # "none" => held'[b].paid
  BY DEF RestInv, Appts
<1> QED
  BY <1>1, <1>2, <1>3, <1>4, <1>5 DEF RestInv, Followed

\* What cycle i knows, while it is the only one that acts.
LEMMA Known ==
  ASSUME RestInv, NEW i \in Cycles
  PROVE  CycleKnows(cycle[i]) /\ \A b \in Bookings : pay[b].status # "none" => held[b].paid
BY DEF RestInv

LEMMA IdleKnows == \A c : c.pc = "idle" => CycleKnows(c)'
BY DEF CycleKnows

LEMMA FetchRest ==
  ASSUME IInv, RestInv, NEW i \in Cycles, OnlyCycle(i), NEW d \in Days, FetchAppointments(i, d)
  PROVE  RestInv' /\ Followed
<1> DEFINE list == [b \in Bookings |->
                      IF ~ upstream[b].listed \/ upstream[b].day # d THEN "gone"
                      ELSE IF upstream[b].paid THEN "paid" ELSE "unpaid"]
<1>1. /\ cycle'[i] = [Idle EXCEPT !.pc = "upsert", !.day = d, !.list = list,
                                  !.todo = {b \in Bookings : list[b] # "gone"}]
      /\ UNCHANGED <<held, appt, pay, jobs>> /\ cycle[i].pc = "idle"
  BY DEF FetchAppointments, IInv, TypeOK
<1>2. \A b \in Bookings : upstream[b].paid /\ list[b] # "gone" => list[b] = "paid"
  OBVIOUS
<1> HIDE DEF list
<1>3. /\ cycle'[i].pc = "upsert" /\ cycle'[i].list = list
      /\ cycle'[i].todo = {b \in Bookings : list[b] # "gone"}
  BY <1>1 DEF Idle
<1>4. CycleKnows(cycle[i])'
  BY <1>1, <1>2, <1>3 DEF CycleKnows, IInv, MirrorInv
<1>5. \A e \in Appts : /\ Links(cycle'[i], e) <=> Links(cycle[i], e)
                       /\ Writes(cycle'[i], e) <=> Writes(cycle[i], e)
  BY <1>1, <1>3 DEF Links, Writes
<1> QED
  BY <1>1, <1>4, <1>5, Known, CycleQuiet

LEMMA UpsertRest ==
  ASSUME IInv, RestInv, NEW i \in Cycles, OnlyCycle(i), UpsertBooking(i)
  PROVE  RestInv' /\ Followed
<1>1. PICK b \in cycle[i].todo :
        /\ held' = [held EXCEPT ![b] = [held[b] EXCEPT
             !.known = TRUE, !.withdrawn = FALSE, !.day = cycle[i].day,
             !.paid = cycle[i].list[b] = "paid"]]
        /\ cycle' = [cycle EXCEPT ![i] = [cycle[i] EXCEPT !.todo = cycle[i].todo \ {b}]]
  BY CycleFacts DEF UpsertBooking
<1>2. /\ cycle'[i].pc = "upsert" /\ cycle'[i].list = cycle[i].list
      /\ cycle'[i].todo = cycle[i].todo \ {b}
  BY <1>1, CycleFacts DEF UpsertBooking, IInv, TypeOK, CycleState
<1>3. b \in Bookings
  BY CycleFacts DEF CycleState
<1>4. /\ held'[b].paid <=> cycle[i].list[b] = "paid"
      /\ \A e \in Bookings \ {b} : held'[e] = held[e]
  <2>1. held[b] \in Held /\ held \in [Bookings -> Held]
    BY <1>3 DEF IInv, TypeOK
  <2> QED
    BY <1>1, <1>3, <2>1 DEF Held
<1>5. CycleKnows(cycle[i])'
  BY <1>2, <1>3, <1>4, Known DEF CycleKnows, UpsertBooking
<1>6. \A e \in Bookings : pay'[e].status # "none" => held'[e].paid
  BY <1>1, <1>3, <1>4, Known DEF CycleKnows, UpsertBooking
<1>7. \A e \in Appts : /\ Links(cycle'[i], e) <=> Links(cycle[i], e)
                       /\ Writes(cycle'[i], e) <=> Writes(cycle[i], e)
  BY <1>2 DEF Links, Writes, UpsertBooking
<1> QED
  BY <1>5, <1>6, <1>7, CycleQuiet DEF UpsertBooking

LEMMA WithdrawMissingRest ==
  ASSUME IInv, RestInv, NEW i \in Cycles, OnlyCycle(i), WithdrawMissing(i)
  PROVE  RestInv' /\ Followed
<1>1. \A b \in Bookings : held'[b].paid = held[b].paid
  BY DEF WithdrawMissing, IInv, TypeOK, Held
<1>2. cycle'[i].pc = "promote" /\ cycle'[i].rows = held'
  BY DEF WithdrawMissing, IInv, TypeOK, Idle
<1>3. CycleKnows(cycle[i])'
  BY <1>2 DEF CycleKnows
<1>4. \A e \in Appts : /\ Links(cycle'[i], e) <=> Links(cycle[i], e)
                       /\ Writes(cycle'[i], e) <=> Writes(cycle[i], e)
  BY <1>2 DEF Links, Writes, WithdrawMissing
<1>5. \A e \in Bookings : pay'[e].status # "none" => held'[e].paid
  BY <1>1, Known DEF WithdrawMissing
<1> QED
  BY <1>3, <1>4, <1>5, CycleQuiet DEF WithdrawMissing

\* A promotion writes back what the cycle read of the booking.
LEMMA LinkPaid ==
  ASSUME IInv, RestInv, NEW i \in Cycles, cycle[i].pc \notin {"idle", "upsert"},
         NEW b \in Bookings, SaveLink(i, b)
  PROVE  \A e \in Bookings : held'[e].paid = held[e].paid
<1>1. cycle[i].rows[b] \in Held /\ cycle[i].rows[b].paid = held[b].paid
  BY RowFacts, Known DEF CycleKnows
<1> QED
  BY <1>1 DEF SaveLink, IInv, TypeOK, Held

LEMMA PromoteRest ==
  ASSUME IInv, RestInv, NEW i \in Cycles, OnlyCycle(i),
         PromoteExisting(i) \/ PromoteCheck(i) \/ LinkBooking(i)
  PROVE  RestInv' /\ Followed
<1>1. cycle[i] \in CycleState /\ cycle[i].cur \in Bookings \union {NoBooking}
  BY CycleFacts DEF CycleState
<1>2. CASE PromoteExisting(i)
  <2>1. PICK b \in cycle[i].todo :
          /\ SaveLink(i, b)
          /\ cycle' = [cycle EXCEPT ![i] = [cycle[i] EXCEPT !.todo = cycle[i].todo \ {b}]]
    BY <1>2, CycleFacts DEF PromoteExisting
  <2>2. cycle'[i].pc = "promote" /\ cycle'[i].rows = cycle[i].rows
    BY <1>1, <1>2, <2>1 DEF PromoteExisting, IInv, TypeOK, CycleState
  <2>3. \A e \in Bookings : held'[e].paid = held[e].paid
    BY <1>1, <1>2, <2>1, LinkPaid DEF PromoteExisting, CycleState
  <2>4. CycleKnows(cycle[i])'
    BY <1>2, <2>2, <2>3, Known DEF CycleKnows, PromoteExisting
  <2>5. \A e \in Appts : /\ Links(cycle'[i], e) <=> Links(cycle[i], e)
                         /\ Writes(cycle'[i], e) <=> Writes(cycle[i], e)
    BY <1>2, <2>2 DEF Links, Writes, PromoteExisting
  <2> QED
    BY <1>2, <2>3, <2>4, <2>5, Known, CycleQuiet DEF PromoteExisting
<1>3. CASE PromoteCheck(i)
  <2>1. PICK b \in cycle[i].todo : cycle' = [cycle EXCEPT ![i] =
          IF OpenByPlate # {}
          THEN [cycle[i] EXCEPT !.todo = cycle[i].todo \ {b}]
          ELSE [cycle[i] EXCEPT !.pc = "insert", !.todo = cycle[i].todo \ {b}, !.cur = b]]
    BY <1>3, CycleFacts DEF PromoteCheck
  <2>2. cycle'[i].pc \in {"promote", "insert"} /\ cycle'[i].rows = cycle[i].rows
    BY <1>1, <1>3, <2>1 DEF PromoteCheck, IInv, TypeOK, CycleState
  <2>3. CycleKnows(cycle[i])'
    <3>1. cycle[i].pc = "promote" /\ UNCHANGED held
      BY <1>3 DEF PromoteCheck
    <3>2. \A e \in Bookings : cycle[i].rows[e].paid = held[e].paid
      BY <3>1, Known DEF CycleKnows
    <3> QED
      BY <2>2, <3>1, <3>2 DEF CycleKnows
  <2>4. \A e \in Appts : /\ Links(cycle'[i], e) <=> Links(cycle[i], e)
                         /\ Writes(cycle'[i], e) <=> Writes(cycle[i], e)
    BY <1>3, <2>2 DEF Links, Writes, PromoteCheck
  <2> QED
    BY <1>3, <2>3, <2>4, Known, CycleQuiet DEF PromoteCheck
<1>4. CASE LinkBooking(i)
  <2>1. /\ cycle'[i].pc = "pay" /\ cycle'[i].rows = cycle[i].rows
        /\ cycle'[i].cur = cycle[i].cur
    BY <1>1, <1>4 DEF LinkBooking, IInv, TypeOK, CycleState
  <2>2. cycle[i].cur \in Bookings
    BY <1>4, CycleFacts DEF LinkBooking, CycleOK
  <2>3. \A e \in Bookings : held'[e].paid = held[e].paid
    BY <1>4, <2>2, LinkPaid DEF LinkBooking
  <2>4. CycleKnows(cycle[i])'
    BY <1>4, <2>1, <2>3, Known DEF CycleKnows, LinkBooking
  <2>5. \A e \in Appts : /\ Links(cycle'[i], e) <=> Links(cycle[i], e)
                         /\ Writes(cycle'[i], e) <=> Writes(cycle[i], e)
    BY <1>4, <2>1 DEF Links, Writes, LinkBooking
  <2> QED
    BY <1>4, <2>3, <2>4, <2>5, Known, CycleQuiet DEF LinkBooking
<1> QED
  BY <1>2, <1>3, <1>4

LEMMA InsertRest ==
  ASSUME IInv, RestInv, NEW i \in Cycles, OnlyCycle(i), InsertAppointment(i)
  PROVE  RestInv' /\ Followed
<1> DEFINE b == cycle[i].cur
<1>1. cycle[i] \in CycleState /\ b \in Bookings /\ b \in Appts
  BY CycleFacts DEF InsertAppointment, CycleOK, Appts
<1>2. CASE appt[b].status = "none"
  <2> DEFINE row == [NoAppt EXCEPT !.status = "Queued", !.day = cycle[i].rows[b].day,
                                   !.created = today, !.settled = cycle[i].rows[b].paid]
  <2>1. appt' = [appt EXCEPT ![b] = row] /\ cycle' = [cycle EXCEPT ![i].pc = "link"]
    BY <1>2 DEF InsertAppointment
  <2>2. row.status = "Queued" /\ ~ row.removed /\ row.settled = cycle[i].rows[b].paid
    BY DEF NoAppt
  <2> HIDE DEF row
  <2>3. appt'[b] = row /\ \A e \in Appts \ {b} : appt'[e] = appt[e]
    BY <1>1, <2>1 DEF IInv, TypeOK
  <2>4. cycle'[i].pc = "link" /\ cycle'[i].cur = b /\ cycle'[i].rows = cycle[i].rows
    <3>1. cycle'[i] = [cycle[i] EXCEPT !.pc = "link"]
      BY <2>1 DEF IInv, TypeOK
    <3> QED
      BY <1>1, <3>1 DEF CycleState
  <2>5. UNCHANGED <<held, pay, jobs>> /\ cycle[i].pc = "insert"
    BY DEF InsertAppointment
  <2>6. pay[b].status = "none" /\ jobs[b] = 0 /\ ~ appt[b].removed
    BY <1>1, <1>2, <2>5, CycleRow DEF RowFits
  <2>7. RowFits(appt'[b], pay'[b].status, jobs[b], Links(cycle'[i], b), Writes(cycle'[i], b),
                FALSE, FALSE)
    BY <2>2, <2>3, <2>4, <2>5, <2>6 DEF RowFits, Links
  <2>8. VisitStep(StageOf(appt[b], jobs[b], FALSE),
                  MoneyOf(appt[b], pay[b].status, Writes(cycle[i], b), FALSE),
                  StageOf(appt'[b], jobs[b], FALSE),
                  MoneyOf(appt'[b], pay'[b].status, Writes(cycle'[i], b), FALSE))
    BY <1>2, <2>2, <2>3, <2>5, <2>6 DEF VisitStep, StageOf, MoneyOf
  <2>9. CycleKnows(cycle[i])'
    BY <2>2, <2>3, <2>4, <2>5, <2>6, Known DEF CycleKnows
  <2>10. \A e \in Appts \ {b} : /\ Links(cycle'[i], e) <=> Links(cycle[i], e)
                                /\ Writes(cycle'[i], e) <=> Writes(cycle[i], e)
    BY <2>4, <2>5 DEF Links, Writes
  <2> HIDE DEF b
  <2> QED
    BY <1>1, <2>3, <2>5, <2>7, <2>8, <2>9, <2>10, Known, CycleFrame
<1>3. CASE appt[b].status # "none"
  <2>1. cycle'[i].pc = "promote" /\ cycle'[i].rows = cycle[i].rows
    <3>1. cycle'[i] = [cycle[i] EXCEPT !.pc = "promote", !.cur = NoBooking]
      BY <1>3 DEF InsertAppointment, IInv, TypeOK
    <3> QED
      BY <1>1, <3>1 DEF CycleState
  <2>2. CycleKnows(cycle[i])'
    BY <2>1, Known DEF CycleKnows, InsertAppointment
  <2>3. \A e \in Appts : /\ Links(cycle'[i], e) <=> Links(cycle[i], e)
                         /\ Writes(cycle'[i], e) <=> Writes(cycle[i], e)
    BY <2>1 DEF Links, Writes, InsertAppointment
  <2> QED
    BY <1>3, <2>2, <2>3, Known, CycleQuiet DEF InsertAppointment
<1> QED
  BY <1>2, <1>3

\* One payment is written.
LEMMA PayValues ==
  ASSUME IInv, NEW a \in Appts, NEW s, pay' = [pay EXCEPT ![a].status = s]
  PROVE  pay'[a].status = s /\ \A e \in Appts \ {a} : pay'[e] = pay[e]
<1>1. pay[a] \in Payment /\ pay \in [Appts -> Payment]
  BY DEF IInv, TypeOK
<1> QED
  BY <1>1 DEF Payment

LEMMA EnsurePaymentRest ==
  ASSUME IInv, RestInv, NEW i \in Cycles, OnlyCycle(i), EnsurePayment(i)
  PROVE  RestInv' /\ Followed
<1> DEFINE b == cycle[i].cur
<1>1. cycle[i] \in CycleState /\ b \in Bookings /\ b \in Appts
  BY CycleFacts DEF EnsurePayment, CycleOK, Appts
<1>2. UNCHANGED <<held, appt, jobs>> /\ cycle[i].pc = "pay"
  BY DEF EnsurePayment
<1>3. cycle'[i].pc = "promote" /\ cycle'[i].rows = cycle[i].rows
  <2>1. cycle'[i] = [cycle[i] EXCEPT !.pc = "promote", !.cur = NoBooking]
    BY DEF EnsurePayment, IInv, TypeOK
  <2> QED
    BY <1>1, <2>1 DEF CycleState
<1>4. /\ appt[b].status = "Queued" /\ ~ appt[b].removed /\ pay[b].status = "none"
      /\ appt[b].settled => cycle[i].rows[b].paid
      /\ cycle[i].rows[b].paid = held[b].paid
  BY <1>1, <1>2, Known DEF CycleKnows
<1>5. /\ pay'[b].status = IF held[b].paid THEN "Paid" ELSE "none"
      /\ \A e \in Appts \ {b} : pay'[e] = pay[e]
  <2>1. CASE held[b].paid
    <3>1. pay' = [pay EXCEPT ![b].status = "Paid"]
      BY <1>4, <2>1 DEF EnsurePayment
    <3> QED
      BY <1>1, <2>1, <3>1, PayValues
  <2>2. CASE ~ held[b].paid
    BY <1>4, <2>2 DEF EnsurePayment
  <2> QED
    BY <2>1, <2>2
<1>6. RowFits(appt'[b], pay'[b].status, jobs[b], Links(cycle'[i], b), Writes(cycle'[i], b), FALSE, FALSE)
  BY <1>1, <1>2, <1>4, <1>5, CycleRow DEF RowFits
<1>7. VisitStep(StageOf(appt[b], jobs[b], FALSE),
                MoneyOf(appt[b], pay[b].status, Writes(cycle[i], b), FALSE),
                StageOf(appt'[b], jobs[b], FALSE),
                MoneyOf(appt'[b], pay'[b].status, Writes(cycle'[i], b), FALSE))
  <2>1. jobs[b] = 0
    BY <1>1, <1>4, CycleRow DEF RowFits
  <2> QED
    BY <1>2, <1>4, <1>5, <2>1 DEF VisitStep, StageOf, MoneyOf
<1>8. CycleKnows(cycle[i])'
  <2>1. \A e \in Bookings : cycle[i].rows[e].paid = held[e].paid
    BY <1>2, Known DEF CycleKnows
  <2> QED
    BY <1>2, <1>3, <2>1 DEF CycleKnows
<1>9. \A e \in Appts \ {b} : /\ Links(cycle'[i], e) <=> Links(cycle[i], e)
                             /\ Writes(cycle'[i], e) <=> Writes(cycle[i], e)
  BY <1>2, <1>3 DEF Links, Writes
<1>10. \A e \in Bookings : pay'[e].status # "none" => held'[e].paid
  BY <1>2, <1>5, Known DEF Appts
<1> HIDE DEF b
<1> QED
  BY <1>1, <1>2, <1>5, <1>6, <1>7, <1>8, <1>9, <1>10, CycleFrame

LEMMA SyncReadRest ==
  ASSUME IInv, RestInv, NEW i \in Cycles, OnlyCycle(i), StartSync(i) \/ SyncRead(i)
  PROVE  RestInv' /\ Followed
<1>1. cycle[i] \in CycleState /\ UNCHANGED <<held, appt, pay, jobs>>
      /\ cycle[i].pc \in {"promote", "sync"}
  BY CycleFacts DEF StartSync, SyncRead
<1>2. ASSUME cycle'[i] = Idle PROVE RestInv' /\ Followed
  <2>1. cycle'[i].pc = "idle"
    BY <1>2 DEF Idle
  <2>2. CycleKnows(cycle[i])'
    BY <2>1 DEF CycleKnows
  <2>3. \A e \in Appts : /\ Links(cycle'[i], e) <=> Links(cycle[i], e)
                         /\ Writes(cycle'[i], e) <=> Writes(cycle[i], e)
    BY <1>1, <2>1 DEF Links, Writes
  <2> QED
    BY <1>1, <2>2, <2>3, Known, CycleQuiet
<1>3. ASSUME cycle'[i].pc = "sync", \A b \in Bookings : cycle'[i].rows[b].paid = held[b].paid
      PROVE  RestInv' /\ Followed
  <2>1. CycleKnows(cycle[i])'
    BY <1>1, <1>3 DEF CycleKnows
  <2>2. \A e \in Appts : /\ Links(cycle'[i], e) <=> Links(cycle[i], e)
                         /\ Writes(cycle'[i], e) <=> Writes(cycle[i], e)
    BY <1>1, <1>3 DEF Links, Writes
  <2> QED
    BY <1>1, <2>1, <2>2, Known, CycleQuiet
<1>4. CASE StartSync(i)
  <2>1. cycle'[i] = Idle \/ (cycle'[i].pc = "sync" /\ cycle'[i].rows = held)
    BY <1>1, <1>4 DEF StartSync, IInv, TypeOK, CycleState
  <2> QED
    BY <1>2, <1>3, <2>1
<1>5. CASE SyncRead(i)
  <2>1. PICK b \in cycle[i].todo :
          cycle' = [cycle EXCEPT ![i] =
            IF appt[b].removed
            THEN IF cycle[i].todo = {b} THEN Idle
                 ELSE [cycle[i] EXCEPT !.todo = cycle[i].todo \ {b}]
            ELSE [cycle[i] EXCEPT
                    !.pc = IF cycle[i].rows[b].withdrawn THEN "withdrawn"
                           ELSE IF appt[b].status = "Cancelled" THEN "restore" ELSE "save",
                    !.todo = cycle[i].todo \ {b}, !.cur = b, !.snap = appt[b]]]
    BY <1>5, CycleFacts DEF SyncRead
  <2>2. b \in Bookings /\ b \in Appts /\ cycle[i].pc = "sync" /\ cycle \in [Cycles -> CycleState]
    BY <1>1, <1>5 DEF CycleState, Appts, SyncRead, IInv, TypeOK
  <2>3. \A e \in Bookings : cycle[i].rows[e].paid = held[e].paid
    BY <2>2, Known DEF CycleKnows
  <2>4. CASE appt[b].removed
    <3>1. cycle'[i] = Idle \/ cycle'[i] = [cycle[i] EXCEPT !.todo = cycle[i].todo \ {b}]
      BY <2>1, <2>2, <2>4
    <3>2. cycle'[i] = Idle \/ (cycle'[i].pc = "sync" /\ cycle'[i].rows = cycle[i].rows)
      BY <1>1, <2>2, <3>1 DEF CycleState
    <3> QED
      BY <1>2, <1>3, <2>3, <3>2
  <2>5. CASE ~ appt[b].removed
    <3> DEFINE pc == IF cycle[i].rows[b].withdrawn THEN "withdrawn"
                     ELSE IF appt[b].status = "Cancelled" THEN "restore" ELSE "save"
    <3>1. cycle'[i] = [cycle[i] EXCEPT !.pc = pc, !.todo = cycle[i].todo \ {b}, !.cur = b,
                                       !.snap = appt[b]]
      BY <2>1, <2>2, <2>5
    <3>2. /\ pc \in {"withdrawn", "restore", "save"}
          /\ pc = "restore" => appt[b].status = "Cancelled"
          /\ pc = "save" => appt[b].status # "Cancelled"
      OBVIOUS
    <3> HIDE DEF pc
    <3>3. cycle'[i].pc = pc /\ cycle'[i].cur = b /\ cycle'[i].snap = appt[b]
          /\ cycle'[i].rows = cycle[i].rows
      BY <1>1, <3>1 DEF CycleState
    <3>4. CycleKnows(cycle[i])'
      BY <1>1, <2>3, <2>5, <3>2, <3>3 DEF CycleKnows
    <3>5. RowFits(appt'[b], pay'[b].status, jobs[b], Links(cycle'[i], b), Writes(cycle'[i], b),
                  FALSE, FALSE)
      BY <1>1, <2>2, <3>2, <3>3, CycleRow DEF RowFits, Links, Writes
    <3>6. VisitStep(StageOf(appt[b], jobs[b], FALSE),
                    MoneyOf(appt[b], pay[b].status, Writes(cycle[i], b), FALSE),
                    StageOf(appt'[b], jobs[b], FALSE),
                    MoneyOf(appt'[b], pay'[b].status, Writes(cycle'[i], b), FALSE))
      BY <1>1, <2>2, <3>2, <3>3 DEF VisitStep, MoneyOf, Writes
    <3>7. \A e \in Appts \ {b} : /\ Links(cycle'[i], e) <=> Links(cycle[i], e)
                                 /\ Writes(cycle'[i], e) <=> Writes(cycle[i], e)
      BY <2>2, <3>2, <3>3 DEF Links, Writes
    <3> QED
      BY <1>1, <2>2, <3>4, <3>5, <3>6, <3>7, Known, CycleFrame
  <2> QED
    BY <2>4, <2>5
<1> QED
  BY <1>4, <1>5

LEMMA RestoreRest ==
  ASSUME IInv, RestInv, NEW i \in Cycles, OnlyCycle(i), RestorePayment(i)
  PROVE  RestInv' /\ Followed
<1> DEFINE b == cycle[i].cur
<1>1. cycle[i] \in CycleState /\ b \in Bookings /\ b \in Appts
  BY CycleFacts DEF RestorePayment, CycleOK, Appts
<1>2. UNCHANGED <<held, appt, jobs>> /\ cycle[i].pc = "restore"
  BY DEF RestorePayment
<1>3. /\ cycle'[i].pc = "save" /\ cycle'[i].rows = cycle[i].rows /\ cycle'[i].cur = b
      /\ cycle'[i].snap = cycle[i].snap
  <2>1. cycle'[i] = [cycle[i] EXCEPT !.pc = "save"]
    BY DEF RestorePayment, IInv, TypeOK
  <2> QED
    BY <1>1, <2>1 DEF CycleState
<1>4. /\ appt[b].status = "Cancelled" /\ ~ appt[b].removed /\ cycle[i].snap = appt[b]
      /\ pay[b].status # "none" => cycle[i].rows[b].paid
      /\ \A e \in Bookings : cycle[i].rows[e].paid = held[e].paid
  BY <1>1, <1>2, Known DEF CycleKnows
<1>5. /\ RowFits(appt[b], pay[b].status, jobs[b], FALSE, FALSE, FALSE, FALSE)
      /\ pay[b].status \in {"none", "Cancelled"} /\ jobs[b] = 0
  <2>1. pay[b].status \in {"none", "Paid", "Cancelled"}
    BY <1>1, RowOf DEF Payment
  <2> QED
    BY <1>1, <1>2, <1>4, <2>1, CycleRow DEF RowFits, Links, Writes
<1>6. /\ pay'[b].status = IF pay[b].status = "Cancelled" THEN "Paid" ELSE "none"
      /\ \A e \in Appts \ {b} : pay'[e] = pay[e]
  <2>1. CASE pay[b].status = "Cancelled"
    <3>1. pay' = [pay EXCEPT ![b].status = "Paid"]
      BY <1>4, <2>1 DEF RestorePayment
    <3> QED
      BY <1>1, <2>1, <3>1, PayValues
  <2>2. CASE pay[b].status # "Cancelled"
    BY <1>5, <2>2 DEF RestorePayment
  <2> QED
    BY <2>1, <2>2
<1>7. RowFits(appt'[b], pay'[b].status, jobs[b], Links(cycle'[i], b), Writes(cycle'[i], b), FALSE, FALSE)
  BY <1>2, <1>3, <1>4, <1>5, <1>6 DEF RowFits, Writes
<1>8. VisitStep(StageOf(appt[b], jobs[b], FALSE),
                MoneyOf(appt[b], pay[b].status, Writes(cycle[i], b), FALSE),
                StageOf(appt'[b], jobs[b], FALSE),
                MoneyOf(appt'[b], pay'[b].status, Writes(cycle'[i], b), FALSE))
  BY <1>2, <1>3, <1>4, <1>5, <1>6 DEF VisitStep, MoneyOf, Writes
<1>9. CycleKnows(cycle[i])'
  BY <1>2, <1>3, <1>4, <1>5, <1>6 DEF CycleKnows
<1>10. \A e \in Appts \ {b} : /\ Links(cycle'[i], e) <=> Links(cycle[i], e)
                              /\ Writes(cycle'[i], e) <=> Writes(cycle[i], e)
  BY <1>2, <1>3 DEF Links, Writes
<1>11. \A e \in Bookings : pay'[e].status # "none" => held'[e].paid
  BY <1>2, <1>5, <1>6, Known DEF Appts
<1> HIDE DEF b
<1> QED
  BY <1>1, <1>2, <1>6, <1>7, <1>8, <1>9, <1>10, <1>11, CycleFrame

\* The cycle is done with its booking: whatever it wrote, it holds no row.
LEMMA NextSyncKnows ==
  ASSUME IInv, RestInv, NEW i \in Cycles, cycle[i].pc \in {"save", "withdrawn", "unpay"},
         cycle' = [cycle EXCEPT ![i] = NextSync(i)], UNCHANGED held
  PROVE  CycleKnows(cycle[i])' /\ \A e \in Appts : ~ Links(cycle'[i], e) /\ ~ Writes(cycle'[i], e)
<1>1. cycle[i] \in CycleState /\ cycle'[i] = NextSync(i)
  BY DEF IInv, TypeOK
<1>2. CASE cycle[i].todo = {}
  <2>1. cycle'[i].pc = "idle"
    BY <1>1, <1>2 DEF NextSync, Idle
  <2> QED
    BY <2>1 DEF CycleKnows, Links, Writes
<1>3. CASE cycle[i].todo # {}
  <2> DEFINE new == [cycle[i] EXCEPT !.pc = "sync", !.cur = NoBooking, !.snap = NoAppt]
  <2>0. new.pc = "sync" /\ new.rows = cycle[i].rows
    BY <1>1 DEF CycleState
  <2>1. cycle'[i].pc = "sync" /\ cycle'[i].rows = cycle[i].rows
    <3>1. cycle'[i] = new
      BY <1>1, <1>3 DEF NextSync
    <3> HIDE DEF new
    <3> QED
      BY <2>0, <3>1
  <2>2. \A e \in Bookings : cycle[i].rows[e].paid = held[e].paid
    BY Known DEF CycleKnows
  <2> QED
    BY <2>1, <2>2 DEF CycleKnows, Links, Writes
<1> QED
  BY <1>2, <1>3

\* One appointment is written.
LEMMA RowValues ==
  ASSUME IInv, NEW a \in Appts, NEW row, appt' = [appt EXCEPT ![a] = row]
  PROVE  appt'[a] = row /\ \A e \in Appts \ {a} : appt'[e] = appt[e]
BY DEF IInv, TypeOK

LEMMA SaveSyncedRest ==
  ASSUME IInv, RestInv, NEW i \in Cycles, OnlyCycle(i), SaveSynced(i)
  PROVE  RestInv' /\ Followed
<1> DEFINE b == cycle[i].cur
           old == cycle[i].snap
           new == [old EXCEPT
                     !.status = IF old.status = "Cancelled" THEN "Queued" ELSE old.status,
                     !.blocked = "none",
                     !.day = IF old.capture = NoCapture THEN cycle[i].rows[b].day ELSE old.day]
<1>1. b \in Bookings /\ b \in Appts /\ appt[b] \in Appointment
  BY CycleFacts, RowOf DEF SaveSynced, CycleOK, Appts
<1>2. /\ UNCHANGED <<held, pay, jobs>> /\ cycle[i].pc = "save"
      /\ cycle' = [cycle EXCEPT ![i] = NextSync(i)]
      /\ appt' = IF new = old THEN appt ELSE [appt EXCEPT ![b] = new]
  BY DEF SaveSynced
<1>3. /\ ~ appt[b].removed /\ old = appt[b]
      /\ appt[b].status = "Cancelled" => pay[b].status # "Cancelled"
  BY <1>2, Known DEF CycleKnows
<1>4. /\ appt'[b].status = IF appt[b].status = "Cancelled" THEN "Queued" ELSE appt[b].status
      /\ appt'[b].removed = appt[b].removed /\ appt'[b].settled = appt[b].settled
      /\ \A e \in Appts \ {b} : appt'[e] = appt[e]
  <2>1. appt'[b] = new /\ \A e \in Appts \ {b} : appt'[e] = appt[e]
    <3>1. CASE new = old
      BY <1>2, <1>3, <3>1
    <3>2. CASE new # old
      <4> HIDE DEF new, b
      <4> QED
        BY <1>1, <1>2, <3>2, RowValues
    <3> QED
      BY <3>1, <3>2
  <2>2. new.status = IF old.status = "Cancelled" THEN "Queued" ELSE old.status
    BY <1>1, <1>3 DEF Appointment
  <2>3. new.removed = old.removed /\ new.settled = old.settled
    BY <1>1, <1>3 DEF Appointment
  <2> HIDE DEF new
  <2> QED
    BY <1>3, <2>1, <2>2, <2>3
<1>5. CycleKnows(cycle[i])' /\ \A e \in Appts : ~ Links(cycle'[i], e) /\ ~ Writes(cycle'[i], e)
  BY <1>2, NextSyncKnows
<1>6. /\ RowFits(appt[b], pay[b].status, jobs[b], FALSE, TRUE, FALSE, FALSE)
      /\ Writes(cycle[i], b)
      /\ pay[b].status \in {"none", "Paid", "Cancelled"}
      /\ appt[b].status \in {"none", "Queued", "Converted", "Cancelled"}
  <2>1. RowFits(appt[b], pay[b].status, jobs[b], FALSE, TRUE, FALSE, FALSE)
    BY <1>1, <1>2, CycleRow DEF RowFits, Links, Writes
  <2> QED
    BY <1>1, <1>2, <2>1, RowOf DEF Writes, Payment, Appointment
<1>7. RowFits(appt'[b], pay'[b].status, jobs[b], Links(cycle'[i], b), Writes(cycle'[i], b), FALSE, FALSE)
  BY <1>2, <1>3, <1>4, <1>6 DEF RowFits
<1>8. VisitStep(StageOf(appt[b], jobs[b], FALSE),
                MoneyOf(appt[b], pay[b].status, Writes(cycle[i], b), FALSE),
                StageOf(appt'[b], jobs[b], FALSE),
                MoneyOf(appt'[b], pay'[b].status, Writes(cycle'[i], b), FALSE))
  <2>1. CASE appt[b].status = "Cancelled"
    <3>1. jobs[b] = 0 /\ pay[b].status \in {"none", "Paid"}
      BY <1>3, <1>6, <2>1 DEF RowFits
    <3>2. StageOf(appt[b], jobs[b], FALSE) = "cancelled"
          /\ StageOf(appt'[b], jobs[b], FALSE) = "open"
      BY <1>3, <1>4, <2>1, <3>1 DEF StageOf
    <3>3. MoneyOf(appt[b], pay[b].status, Writes(cycle[i], b), FALSE)
            = IF pay[b].status = "Paid" THEN "Cancelled" ELSE "none"
      BY <1>6, <2>1, <3>1 DEF MoneyOf
    <3>4. MoneyOf(appt'[b], pay'[b].status, Writes(cycle'[i], b), FALSE) = pay[b].status
      BY <1>2, <1>4, <2>1, <3>1 DEF MoneyOf
    <3> QED
      BY <3>1, <3>2, <3>3, <3>4 DEF VisitStep
  <2>2. CASE appt[b].status # "Cancelled"
    <3>1. StageOf(appt'[b], jobs[b], FALSE) = StageOf(appt[b], jobs[b], FALSE)
      BY <1>4, <2>2 DEF StageOf
    <3>2. MoneyOf(appt'[b], pay'[b].status, Writes(cycle'[i], b), FALSE)
            = MoneyOf(appt[b], pay[b].status, Writes(cycle[i], b), FALSE)
      BY <1>2, <1>4, <2>2 DEF MoneyOf
    <3> QED
      BY <3>1, <3>2 DEF VisitStep
  <2> QED
    BY <2>1, <2>2
<1>9. \A e \in Appts \ {b} : /\ Links(cycle'[i], e) <=> Links(cycle[i], e)
                             /\ Writes(cycle'[i], e) <=> Writes(cycle[i], e)
  BY <1>2, <1>5 DEF Links, Writes
<1> HIDE DEF b
<1> QED
  BY <1>1, <1>2, <1>4, <1>5, <1>7, <1>8, <1>9, Known, CycleFrame

LEMMA AutoCancelRest ==
  ASSUME IInv, RestInv, NEW i \in Cycles, OnlyCycle(i), AutoCancel(i)
  PROVE  RestInv' /\ Followed
<1> DEFINE b == cycle[i].cur
           row == [appt[b] EXCEPT !.status = "Cancelled"]
<1>1. cycle[i] \in CycleState /\ b \in Bookings /\ b \in Appts /\ appt[b] \in Appointment
  BY CycleFacts, RowOf DEF AutoCancel, CycleOK, Appts
<1>2. UNCHANGED <<held, pay, jobs>> /\ cycle[i].pc = "withdrawn"
  BY DEF AutoCancel
<1>3. /\ cycle'[i].pc = "unpay" /\ cycle'[i].rows = cycle[i].rows /\ cycle'[i].cur = b
  <2>1. cycle'[i] = [cycle[i] EXCEPT !.pc = "unpay"]
    BY DEF AutoCancel, IInv, TypeOK
  <2> QED
    BY <1>1, <2>1 DEF CycleState
<1>4. /\ appt[b].status = "Queued" /\ ~ appt[b].removed
      /\ \A e \in Bookings : cycle[i].rows[e].paid = held[e].paid
  BY <1>2, Known DEF CycleKnows, AutoCancel, canAutoCancel
<1>5. /\ RowFits(appt[b], pay[b].status, jobs[b], FALSE, FALSE, FALSE, FALSE)
      /\ pay[b].status \in {"none", "Paid"} /\ jobs[b] = 0
  <2>1. pay[b].status \in {"none", "Paid", "Cancelled"}
    BY <1>1, RowOf DEF Payment
  <2> QED
    BY <1>1, <1>2, <1>4, <2>1, CycleRow DEF RowFits, Links, Writes
<1>6. /\ appt'[b].status = "Cancelled" /\ appt'[b].removed = appt[b].removed
      /\ appt'[b].settled = appt[b].settled
      /\ \A e \in Appts \ {b} : appt'[e] = appt[e]
  <2>1. appt' = [appt EXCEPT ![b] = row]
    BY <1>1 DEF AutoCancel, IInv, TypeOK
  <2>2. row.status = "Cancelled" /\ row.removed = appt[b].removed /\ row.settled = appt[b].settled
    BY <1>1 DEF Appointment
  <2> HIDE DEF row, b
  <2> QED
    BY <1>1, <2>1, <2>2, RowValues
<1>7. RowFits(appt'[b], pay'[b].status, jobs[b], Links(cycle'[i], b), Writes(cycle'[i], b), FALSE, FALSE)
  BY <1>2, <1>3, <1>4, <1>5, <1>6 DEF RowFits, Writes
<1>8. VisitStep(StageOf(appt[b], jobs[b], FALSE),
                MoneyOf(appt[b], pay[b].status, Writes(cycle[i], b), FALSE),
                StageOf(appt'[b], jobs[b], FALSE),
                MoneyOf(appt'[b], pay'[b].status, Writes(cycle'[i], b), FALSE))
  <2>1. StageOf(appt[b], jobs[b], FALSE) = "open" /\ StageOf(appt'[b], jobs[b], FALSE) = "cancelled"
    BY <1>4, <1>5, <1>6 DEF StageOf
  <2>2. MoneyOf(appt[b], pay[b].status, Writes(cycle[i], b), FALSE) = pay[b].status
    BY <1>4, <1>5 DEF MoneyOf
  <2>3. MoneyOf(appt'[b], pay'[b].status, Writes(cycle'[i], b), FALSE)
          = IF pay[b].status = "Paid" THEN "Cancelled" ELSE pay[b].status
    BY <1>2, <1>3, <1>5, <1>6 DEF MoneyOf, Writes
  <2> QED
    BY <2>1, <2>2, <2>3 DEF VisitStep
<1>9. CycleKnows(cycle[i])'
  BY <1>2, <1>3, <1>4, <1>5, <1>6 DEF CycleKnows
<1>10. \A e \in Appts \ {b} : /\ Links(cycle'[i], e) <=> Links(cycle[i], e)
                              /\ Writes(cycle'[i], e) <=> Writes(cycle[i], e)
  BY <1>2, <1>3 DEF Links, Writes
<1> HIDE DEF b
<1> QED
  BY <1>1, <1>2, <1>6, <1>7, <1>8, <1>9, <1>10, Known, CycleFrame

\* A patch of the note alone.
LEMMA NoteOnly ==
  ASSUME IInv, NEW a \in Appts, NEW s,
         appt' = appt \/ appt' = [appt EXCEPT ![a].blocked = s]
  PROVE  /\ appt'[a].status = appt[a].status /\ appt'[a].removed = appt[a].removed
         /\ appt'[a].settled = appt[a].settled /\ appt'[a].capture = appt[a].capture
         /\ appt'[a].created = appt[a].created
         /\ \A e \in Appts \ {a} : appt'[e] = appt[e]
<1>1. CASE appt' = appt
  BY <1>1
<1>2. CASE appt' = [appt EXCEPT ![a].blocked = s]
  <2> DEFINE row == [appt[a] EXCEPT !.blocked = s]
  <2>1. appt[a] \in Appointment /\ appt' = [appt EXCEPT ![a] = row]
    BY <1>2 DEF IInv, TypeOK
  <2>2. /\ row.status = appt[a].status /\ row.removed = appt[a].removed
        /\ row.settled = appt[a].settled /\ row.capture = appt[a].capture
        /\ row.created = appt[a].created
    BY <2>1 DEF Appointment
  <2> HIDE DEF row
  <2> QED
    BY <2>1, <2>2, RowValues
<1> QED
  BY <1>1, <1>2

LEMMA WarnRest ==
  ASSUME IInv, RestInv, NEW i \in Cycles, OnlyCycle(i), WarnWithdrawn(i)
  PROVE  RestInv' /\ Followed
<1> DEFINE b == cycle[i].cur
<1>1. b \in Bookings /\ b \in Appts
  BY CycleFacts DEF WarnWithdrawn, CycleOK, Appts
<1>2. UNCHANGED <<held, pay, jobs>> /\ cycle[i].pc = "withdrawn"
      /\ cycle' = [cycle EXCEPT ![i] = NextSync(i)]
  BY DEF WarnWithdrawn
<1>3. /\ appt'[b].status = appt[b].status /\ appt'[b].removed = appt[b].removed
      /\ appt'[b].settled = appt[b].settled
      /\ \A e \in Appts \ {b} : appt'[e] = appt[e]
  BY <1>1, NoteOnly DEF WarnWithdrawn
<1>4. CycleKnows(cycle[i])' /\ \A e \in Appts : ~ Links(cycle'[i], e) /\ ~ Writes(cycle'[i], e)
  BY <1>2, NextSyncKnows
<1>5. \A e \in Appts : ~ Links(cycle[i], e) /\ ~ Writes(cycle[i], e)
  BY <1>2 DEF Links, Writes
<1>6. RowFits(appt'[b], pay'[b].status, jobs[b], Links(cycle'[i], b), Writes(cycle'[i], b), FALSE, FALSE)
  BY <1>1, <1>2, <1>3, <1>5, CycleRow DEF RowFits
<1>7. VisitStep(StageOf(appt[b], jobs[b], FALSE),
                MoneyOf(appt[b], pay[b].status, Writes(cycle[i], b), FALSE),
                StageOf(appt'[b], jobs[b], FALSE),
                MoneyOf(appt'[b], pay'[b].status, Writes(cycle'[i], b), FALSE))
  <2>1. StageOf(appt'[b], jobs[b], FALSE) = StageOf(appt[b], jobs[b], FALSE)
    BY <1>3 DEF StageOf
  <2>2. MoneyOf(appt'[b], pay'[b].status, Writes(cycle'[i], b), FALSE)
          = MoneyOf(appt[b], pay[b].status, Writes(cycle[i], b), FALSE)
    BY <1>1, <1>2, <1>4, <1>5 DEF MoneyOf
  <2> QED
    BY <2>1, <2>2 DEF VisitStep
<1> HIDE DEF b
<1> QED
  BY <1>1, <1>2, <1>3, <1>4, <1>5, <1>6, <1>7, Known, CycleFrame

LEMMA CancelPaymentForRest ==
  ASSUME IInv, RestInv, NEW i \in Cycles, OnlyCycle(i), CancelPaymentFor(i)
  PROVE  RestInv' /\ Followed
<1> DEFINE b == cycle[i].cur
<1>1. b \in Bookings /\ b \in Appts
  BY CycleFacts DEF CancelPaymentFor, CycleOK, Appts
<1>2. UNCHANGED <<held, appt, jobs>> /\ cycle[i].pc = "unpay"
      /\ cycle' = [cycle EXCEPT ![i] = NextSync(i)]
  BY DEF CancelPaymentFor
<1>3. /\ appt[b].status = "Cancelled" /\ ~ appt[b].removed /\ pay[b].status # "Cancelled"
      /\ pay[b].status # "none" => cycle[i].rows[b].paid
  BY <1>1, <1>2, Known DEF CycleKnows
<1>4. /\ RowFits(appt[b], pay[b].status, jobs[b], FALSE, TRUE, FALSE, FALSE)
      /\ pay[b].status \in {"none", "Paid"} /\ jobs[b] = 0 /\ Writes(cycle[i], b)
  <2>1. pay[b].status \in {"none", "Paid", "Cancelled"}
    BY <1>1, RowOf DEF Payment
  <2> QED
    BY <1>1, <1>2, <1>3, <2>1, CycleRow DEF RowFits, Links, Writes
<1>5. /\ pay'[b].status = IF pay[b].status = "Paid" THEN "Cancelled" ELSE "none"
      /\ \A e \in Appts \ {b} : pay'[e] = pay[e]
  <2>1. CASE pay[b].status = "Paid"
    <3>1. pay' = [pay EXCEPT ![b].status = "Cancelled"]
      BY <1>3, <2>1 DEF CancelPaymentFor
    <3> QED
      BY <1>1, <2>1, <3>1, PayValues
  <2>2. CASE pay[b].status # "Paid"
    BY <1>4, <2>2 DEF CancelPaymentFor
  <2> QED
    BY <2>1, <2>2
<1>6. CycleKnows(cycle[i])' /\ \A e \in Appts : ~ Links(cycle'[i], e) /\ ~ Writes(cycle'[i], e)
  BY <1>2, NextSyncKnows
<1>7. RowFits(appt'[b], pay'[b].status, jobs[b], Links(cycle'[i], b), Writes(cycle'[i], b), FALSE, FALSE)
  BY <1>2, <1>3, <1>4, <1>5 DEF RowFits
<1>8. VisitStep(StageOf(appt[b], jobs[b], FALSE),
                MoneyOf(appt[b], pay[b].status, Writes(cycle[i], b), FALSE),
                StageOf(appt'[b], jobs[b], FALSE),
                MoneyOf(appt'[b], pay'[b].status, Writes(cycle'[i], b), FALSE))
  <2>1. MoneyOf(appt[b], pay[b].status, Writes(cycle[i], b), FALSE)
          = IF pay[b].status = "Paid" THEN "Cancelled" ELSE "none"
    BY <1>3, <1>4 DEF MoneyOf
  <2>2. MoneyOf(appt'[b], pay'[b].status, Writes(cycle'[i], b), FALSE)
          = IF pay[b].status = "Paid" THEN "Cancelled" ELSE "none"
    BY <1>4, <1>5, <1>6 DEF MoneyOf
  <2> QED
    BY <1>2, <2>1, <2>2 DEF VisitStep
<1>9. \A e \in Appts \ {b} : /\ Links(cycle'[i], e) <=> Links(cycle[i], e)
                             /\ Writes(cycle'[i], e) <=> Writes(cycle[i], e)
  BY <1>2, <1>6 DEF Links, Writes
<1>10. \A e \in Bookings : pay'[e].status # "none" => held'[e].paid
  BY <1>2, <1>4, <1>5, Known DEF Appts
<1> HIDE DEF b
<1> QED
  BY <1>1, <1>2, <1>5, <1>6, <1>7, <1>8, <1>9, <1>10, CycleFrame

LEMMA IngestRest ==
  ASSUME IInv, RestInv, NEW i \in Cycles, OnlyCycle(i), Ingest(i)
  PROVE  RestInv' /\ Followed
BY FetchRest, UpsertRest, WithdrawMissingRest, PromoteRest, InsertRest, EnsurePaymentRest,
   SyncReadRest, RestoreRest, SaveSyncedRest, AutoCancelRest, WarnRest, CancelPaymentForRest
DEF Ingest

\* What actor x knows, and its row of the desk.
LEMMA Asked ==
  ASSUME IInv, RestInv, NEW x \in Desk
  PROVE  /\ DeskKnows(x, desk[x]) /\ desk[x] \in DeskState /\ DeskOK(desk[x])
         /\ \A new : desk' = [desk EXCEPT ![x] = new] => desk'[x] = new
         /\ \A b \in Bookings : pay[b].status # "none" => held[b].paid
BY DeskFacts DEF RestInv, IInv, TypeOK

LEMMA FreeKnows ==
  \A x \in Desk : desk'[x].pc \in {"idle", "done", "refund", "match", "attach", "auto", "linkPay"} =>
     /\ desk'[x].pc # "refund" => DeskKnows(x, desk[x])'
     /\ \A e \in Appts : ~ Cancels(desk'[x], e) /\ ~ Converts(desk'[x], e)
BY DEF DeskKnows, Cancels, Converts

LEMMA Fields ==
  ASSUME NEW d \in DeskState, NEW pc, NEW a, NEW row
  PROVE  /\ LET new == [d EXCEPT !.pc = pc, !.appt = a]
            IN  new.pc = pc /\ new.appt = a /\ new.snap = d.snap
         /\ LET new == [d EXCEPT !.pc = pc, !.appt = a, !.snap = row]
            IN  new.pc = pc /\ new.appt = a /\ new.snap = row
         /\ LET new == [d EXCEPT !.pc = pc]
            IN  new.pc = pc /\ new.appt = d.appt /\ new.snap = d.snap
         /\ LET new == [d EXCEPT !.pc = pc, !.job = row]
            IN  new.pc = pc /\ new.appt = d.appt /\ new.snap = d.snap
BY DEF DeskState

\* The row of the desk that a step writes.
LEMMA NewDesk ==
  ASSUME IInv, NEW x \in Desk, NEW new, desk' = [desk EXCEPT ![x] = new]
  PROVE  desk'[x] = new
BY DEF IInv, TypeOK

LEMMA FreedDesk ==
  ASSUME IInv, NEW x \in Desk,
         desk' = [desk EXCEPT ![x] = Free] \/ Finished(x)
  PROVE  desk'[x].pc \in {"idle", "done"} /\ (~ Finished(x) => desk'[x].pc = "idle")
<1> DEFINE new == [Free EXCEPT !.pc = "done", !.seen = desk[x].seen]
<1>1. Free.pc = "idle" /\ new.pc = "done"
  BY DEF Free
<1>2. CASE Finished(x)
  <2>1. desk' = [desk EXCEPT ![x] = new]
    BY <1>2 DEF Finished
  <2> HIDE DEF new
  <2> QED
    BY <1>1, <1>2, <2>1, NewDesk
<1>3. CASE ~ Finished(x)
  <2>1. desk'[x] = Free
    BY <1>3, NewDesk
  <2> QED
    BY <1>1, <2>1
<1> QED
  BY <1>2, <1>3

\* Requests are read: clerks and captures at the door of a request.
LEMMA ReadRest ==
  ASSUME IInv, RestInv, NEW k \in Clerks, OnlyDesk(k),
         \/ \E a \in WalkIns : RegisterCheck(k, a)
         \/ \E a \in Appts : CancelRead(k, a) \/ RemoveRead(k, a)
  PROVE  RestInv' /\ Followed
<1>1. k \in Desk /\ desk[k].pc = "idle" /\ UNCHANGED <<held, appt, pay, jobs>>
  BY DEF Desk, RegisterCheck, CancelRead, RemoveRead
<1>2. desk[k] \in DeskState
  BY <1>1, Asked
<1>3. \A e \in Appts : ~ Cancels(desk[k], e) /\ ~ Converts(desk[k], e)
  BY <1>1 DEF Cancels, Converts
<1>4. ASSUME NEW a \in WalkIns, RegisterCheck(k, a)
      PROVE  DeskKnows(k, desk[k])' /\ desk'[k].pc = "register"
  <2>1. PICK row, d : /\ row = [NoAppt EXCEPT !.status = "Queued", !.day = d, !.created = today,
                             !.capture = IF SeenToday = {} THEN NoCapture ELSE LatestToday]
                      /\ desk' = [desk EXCEPT ![k] =
                                    [desk[k] EXCEPT !.pc = "register", !.appt = a, !.snap = row]]
    BY <1>1, <1>4 DEF RegisterCheck, IInv, TypeOK
  <2>2. row.status = "Queued" /\ ~ row.settled /\ ~ row.removed
    BY <2>1 DEF NoAppt
  <2>3. /\ desk'[k].pc = "register" /\ desk'[k].appt = a /\ desk'[k].snap = row
    <3> DEFINE new == [desk[k] EXCEPT !.pc = "register", !.appt = a, !.snap = row]
    <3>1. desk' = [desk EXCEPT ![k] = new]
      BY <2>1
    <3>2. new.pc = "register" /\ new.appt = a /\ new.snap = row
      BY <1>2, Fields
    <3> HIDE DEF new
    <3> QED
      BY <1>1, <3>1, <3>2, NewDesk
  <2>4. appt'[a].status = "none"
    BY <1>1, <1>4 DEF RegisterCheck
  <2> QED
    BY <2>2, <2>3, <2>4 DEF DeskKnows
<1>5. ASSUME NEW a \in Appts, CancelRead(k, a)
      PROVE  DeskKnows(k, desk[k])' /\ desk'[k].pc = "refund"
  <2>1. desk'[k].pc = "refund" /\ desk'[k].appt = a
    <3> DEFINE new == [desk[k] EXCEPT !.pc = "refund", !.appt = a]
    <3>1. desk' = [desk EXCEPT ![k] = new]
      BY <1>1, <1>5 DEF CancelRead, IInv, TypeOK
    <3>2. new.pc = "refund" /\ new.appt = a
      BY <1>2, Fields
    <3> HIDE DEF new
    <3> QED
      BY <1>1, <3>1, <3>2, NewDesk
  <2>2. appt'[a].status = "Queued" /\ ~ appt'[a].removed
    BY <1>1, <1>5 DEF CancelRead, Queued, Found
  <2> QED
    BY <2>1, <2>2 DEF DeskKnows
<1>6. ASSUME NEW a \in Appts, RemoveRead(k, a)
      PROVE  DeskKnows(k, desk[k])' /\ desk'[k].pc = "remove"
  <2>1. desk'[k].pc = "remove" /\ desk'[k].appt = a /\ desk'[k].snap = appt[a]
    <3> DEFINE new == [desk[k] EXCEPT !.pc = "remove", !.appt = a, !.snap = appt[a]]
    <3>1. desk' = [desk EXCEPT ![k] = new]
      BY <1>1, <1>6 DEF RemoveRead, IInv, TypeOK
    <3>2. new.pc = "remove" /\ new.appt = a /\ new.snap = appt[a]
      BY <1>2, Fields
    <3> HIDE DEF new
    <3> QED
      BY <1>1, <3>1, <3>2, NewDesk
  <2>2. /\ appt[a].status \in {"Queued", "Cancelled"} /\ ~ appt[a].removed
        /\ UNCHANGED appt
    <3>1. appt[a].status \in {"none", "Queued", "Converted", "Cancelled"}
      BY RowOf DEF Appointment
    <3> QED
      BY <1>1, <1>6, <3>1 DEF RemoveRead, Found
  <2> QED
    BY <2>1, <2>2 DEF DeskKnows
<1>7. DeskKnows(k, desk[k])' /\ desk'[k].pc \in {"register", "refund", "remove"}
  BY <1>4, <1>5, <1>6
<1>8. \A e \in Appts : ~ Cancels(desk'[k], e) /\ ~ Converts(desk'[k], e)
  BY <1>7 DEF Cancels, Converts
<1> QED
  BY <1>1, <1>3, <1>7, <1>8, DeskQuiet

LEMMA WalkInRest ==
  ASSUME IInv, RestInv, NEW k \in Clerks, OnlyDesk(k), RegisterWalkIn(k)
  PROVE  RestInv' /\ Followed
<1> DEFINE a == desk[k].appt
           row == desk[k].snap
           new == [desk[k] EXCEPT !.pc = "collect"]
<1>1. /\ k \in Desk /\ desk[k].pc = "register" /\ UNCHANGED <<held, pay, jobs>>
      /\ desk[k] \in DeskState
      /\ appt' = [appt EXCEPT ![a] = row]
  BY DeskFacts DEF Desk, RegisterWalkIn
<1>2. a \in WalkIns /\ a \in Appts /\ a \notin Bookings
  BY <1>1, Asked, NamesAssumption DEF DeskOK, Appts
<1>3. desk' = [desk EXCEPT ![k] = new]
  BY <1>1 DEF RegisterWalkIn, IInv, TypeOK
<1>4. new.pc = "collect" /\ new.appt = a
  BY <1>1, Fields
<1>5. desk'[k].pc = "collect" /\ desk'[k].appt = a
  <2> HIDE DEF new
  <2> QED
    BY <1>1, <1>3, <1>4, NewDesk
<1>6. appt'[a] = row /\ \A e \in Appts \ {a} : appt'[e] = appt[e]
  BY <1>1, <1>2, RowValues
<1>7. /\ appt[a].status = "none"
      /\ row.status = "Queued" /\ ~ row.settled /\ ~ row.removed
  BY <1>1, Asked DEF DeskKnows
<1>8. pay[a].status = "none" /\ jobs[a] = 0 /\ ~ appt[a].removed
  BY <1>1, <1>2, <1>7, DeskRow DEF RowFits, Converts
<1>9. \A e \in Appts : /\ ~ Cancels(desk[k], e) /\ ~ Cancels(desk'[k], e)
                       /\ ~ Converts(desk[k], e) /\ ~ Converts(desk'[k], e)
  BY <1>1, <1>5 DEF Cancels, Converts
<1> HIDE DEF a, row, new
<1>10. RowFits(appt'[a], pay'[a].status, jobs'[a], FALSE, FALSE,
               k \in Clerks /\ Cancels(desk'[k], a), Converts(desk'[k], a))
  BY <1>1, <1>2, <1>6, <1>7, <1>8, <1>9 DEF RowFits
<1>11. VisitStep(StageOf(appt[a], jobs[a], Converts(desk[k], a)),
                 MoneyOf(appt[a], pay[a].status, FALSE, k \in Clerks /\ Cancels(desk[k], a)),
                 StageOf(appt'[a], jobs'[a], Converts(desk'[k], a)),
                 MoneyOf(appt'[a], pay'[a].status, FALSE, k \in Clerks /\ Cancels(desk'[k], a)))
  <2>1. StageOf(appt[a], jobs[a], Converts(desk[k], a)) = "none"
    BY <1>7, <1>8 DEF StageOf
  <2>2. StageOf(appt'[a], jobs'[a], Converts(desk'[k], a)) = "open"
    BY <1>1, <1>6, <1>7, <1>8 DEF StageOf
  <2>3. MoneyOf(appt[a], pay[a].status, FALSE, k \in Clerks /\ Cancels(desk[k], a))
          = MoneyOf(appt'[a], pay'[a].status, FALSE, k \in Clerks /\ Cancels(desk'[k], a))
    BY <1>1, <1>8 DEF MoneyOf
  <2> QED
    BY <2>1, <2>2, <2>3 DEF VisitStep
<1>12. DeskKnows(k, desk[k])'
  BY <1>1, <1>5, <1>6, <1>7, <1>8 DEF DeskKnows
<1> QED
  BY <1>1, <1>2, <1>6, <1>9, <1>10, <1>11, <1>12, Asked, DeskFrame

LEMMA CollectRest ==
  ASSUME IInv, RestInv, NEW k \in Clerks, OnlyDesk(k), CollectPayment(k)
  PROVE  RestInv' /\ Followed
<1> DEFINE a == desk[k].appt
<1>1. /\ k \in Desk /\ desk[k].pc = "collect" /\ UNCHANGED <<held, appt, jobs>>
      /\ desk[k] \in DeskState /\ desk' = [desk EXCEPT ![k] = Free]
  BY DeskFacts DEF Desk, CollectPayment
<1>2. a \in WalkIns /\ a \in Appts /\ a \notin Bookings
  BY <1>1, Asked, NamesAssumption DEF DeskOK, Appts
<1>3. desk'[k].pc \in {"idle", "done"}
  BY <1>1, FreedDesk
<1>4. appt[a].status = "Queued" /\ ~ appt[a].removed /\ pay[a].status = "none"
  BY <1>1, Asked DEF DeskKnows
<1>5. pay'[a].status = "Paid" /\ \A e \in Appts \ {a} : pay'[e] = pay[e]
  <2>1. pay' = [pay EXCEPT ![a].status = "Paid"]
    BY <1>4 DEF CollectPayment
  <2> QED
    BY <1>2, <2>1, PayValues
<1>6. \A e \in Appts : /\ ~ Cancels(desk[k], e) /\ ~ Cancels(desk'[k], e)
                       /\ ~ Converts(desk[k], e) /\ ~ Converts(desk'[k], e)
  BY <1>1, <1>3 DEF Cancels, Converts
<1>7. jobs[a] = 0
  BY <1>1, <1>2, <1>4, <1>6, DeskRow DEF RowFits
<1> HIDE DEF a
<1>8. RowFits(appt'[a], pay'[a].status, jobs'[a], FALSE, FALSE,
              k \in Clerks /\ Cancels(desk'[k], a), Converts(desk'[k], a))
  BY <1>1, <1>2, <1>4, <1>5, <1>6, <1>7 DEF RowFits
<1>9. VisitStep(StageOf(appt[a], jobs[a], Converts(desk[k], a)),
                MoneyOf(appt[a], pay[a].status, FALSE, k \in Clerks /\ Cancels(desk[k], a)),
                StageOf(appt'[a], jobs'[a], Converts(desk'[k], a)),
                MoneyOf(appt'[a], pay'[a].status, FALSE, k \in Clerks /\ Cancels(desk'[k], a)))
  <2>1. /\ StageOf(appt[a], jobs[a], Converts(desk[k], a)) = "open"
        /\ StageOf(appt'[a], jobs'[a], Converts(desk'[k], a)) = "open"
    BY <1>1, <1>4, <1>7 DEF StageOf
  <2>2. MoneyOf(appt[a], pay[a].status, FALSE, k \in Clerks /\ Cancels(desk[k], a)) = "none"
    BY <1>4 DEF MoneyOf
  <2>3. MoneyOf(appt'[a], pay'[a].status, FALSE, k \in Clerks /\ Cancels(desk'[k], a)) = "Paid"
    BY <1>5 DEF MoneyOf
  <2> QED
    BY <2>1, <2>2, <2>3 DEF VisitStep
<1>10. DeskKnows(k, desk[k])'
  BY <1>3 DEF DeskKnows
<1>11. \A b \in Bookings : pay'[b].status # "none" => held'[b].paid
  BY <1>1, <1>2, <1>5, Asked DEF Appts
<1> QED
  BY <1>1, <1>2, <1>5, <1>6, <1>8, <1>9, <1>10, <1>11, DeskFrame

LEMMA CancelPaymentRest ==
  ASSUME IInv, RestInv, NEW k \in Clerks, OnlyDesk(k), CancelPayment(k)
  PROVE  RestInv' /\ Followed
<1> DEFINE a == desk[k].appt
           new == [desk[k] EXCEPT !.pc = "cancel"]
<1>1. /\ k \in Desk /\ desk[k].pc = "refund" /\ UNCHANGED <<held, appt, jobs>>
      /\ desk[k] \in DeskState
  BY DeskFacts DEF Desk, CancelPayment
<1>2. a \in Appts
  BY <1>1, Asked DEF DeskOK
<1>3. desk' = [desk EXCEPT ![k] = new]
  BY <1>1 DEF CancelPayment, IInv, TypeOK
<1>4. new.pc = "cancel" /\ new.appt = a
  BY <1>1, Fields
<1>5. desk'[k].pc = "cancel" /\ desk'[k].appt = a
  <2> HIDE DEF new
  <2> QED
    BY <1>1, <1>3, <1>4, NewDesk
<1>6. appt[a].status = "Queued" /\ ~ appt[a].removed
  BY <1>1, Asked DEF DeskKnows
<1>7. /\ \A e \in Appts : ~ Cancels(desk[k], e) /\ ~ Converts(desk[k], e) /\ ~ Converts(desk'[k], e)
      /\ \A e \in Appts \ {a} : ~ Cancels(desk'[k], e)
      /\ Cancels(desk'[k], a)
  BY <1>1, <1>5 DEF Cancels, Converts
<1>8. /\ jobs[a] = 0 /\ pay[a].status \in {"none", "Paid"}
      /\ appt[a].settled => pay[a].status # "none"
  <2>1. pay[a].status \in {"none", "Paid", "Cancelled"}
    BY <1>2, RowOf DEF Payment
  <2> QED
    BY <1>1, <1>2, <1>6, <1>7, <2>1, DeskRow DEF RowFits
<1>9. /\ pay'[a].status = IF pay[a].status = "Paid" THEN "Cancelled" ELSE "none"
      /\ \A e \in Appts \ {a} : pay'[e] = pay[e]
  <2>1. CASE pay[a].status = "Paid"
    <3>1. pay' = [pay EXCEPT ![a].status = "Cancelled"]
      BY <2>1 DEF CancelPayment
    <3> QED
      BY <1>2, <2>1, <3>1, PayValues
  <2>2. CASE pay[a].status # "Paid"
    BY <1>8, <2>2 DEF CancelPayment
  <2> QED
    BY <2>1, <2>2
<1> HIDE DEF a, new
<1>10. RowFits(appt'[a], pay'[a].status, jobs'[a], FALSE, FALSE,
               k \in Clerks /\ Cancels(desk'[k], a), Converts(desk'[k], a))
  BY <1>1, <1>2, <1>6, <1>7, <1>8, <1>9 DEF RowFits
<1>11. VisitStep(StageOf(appt[a], jobs[a], Converts(desk[k], a)),
                 MoneyOf(appt[a], pay[a].status, FALSE, k \in Clerks /\ Cancels(desk[k], a)),
                 StageOf(appt'[a], jobs'[a], Converts(desk'[k], a)),
                 MoneyOf(appt'[a], pay'[a].status, FALSE, k \in Clerks /\ Cancels(desk'[k], a)))
  <2>1. StageOf(appt[a], jobs[a], Converts(desk[k], a))
          = StageOf(appt'[a], jobs'[a], Converts(desk'[k], a))
    BY <1>1, <1>6, <1>8 DEF StageOf
  <2>2. MoneyOf(appt[a], pay[a].status, FALSE, k \in Clerks /\ Cancels(desk[k], a)) = pay[a].status
    BY <1>8 DEF MoneyOf
  <2>3. MoneyOf(appt'[a], pay'[a].status, FALSE, k \in Clerks /\ Cancels(desk'[k], a)) = pay[a].status
    BY <1>7, <1>8, <1>9 DEF MoneyOf
  <2> QED
    BY <2>1, <2>2, <2>3 DEF VisitStep
<1>12. DeskKnows(k, desk[k])'
  BY <1>1, <1>5, <1>6, <1>8, <1>9 DEF DeskKnows
<1>13. \A b \in Bookings : pay'[b].status # "none" => held'[b].paid
  BY <1>1, <1>8, <1>9, Asked DEF Appts
<1> QED
  BY <1>1, <1>2, <1>7, <1>9, <1>10, <1>11, <1>12, <1>13, DeskFrame

LEMMA SaveCancelledRest ==
  ASSUME IInv, RestInv, NEW k \in Clerks, OnlyDesk(k), SaveCancelled(k)
  PROVE  RestInv' /\ Followed
<1> DEFINE a == desk[k].appt
           row == [appt[a] EXCEPT !.status = "Cancelled", !.blocked = "none"]
<1>1. /\ k \in Desk /\ desk[k].pc = "cancel" /\ UNCHANGED <<held, pay, jobs>>
      /\ desk' = [desk EXCEPT ![k] = Free]
  BY DEF Desk, SaveCancelled
<1>2. a \in Appts /\ appt[a] \in Appointment
  BY <1>1, Asked, RowOf DEF DeskOK
<1>3. desk'[k].pc \in {"idle", "done"}
  BY <1>1, FreedDesk
<1>4. /\ appt[a].status = "Queued" /\ ~ appt[a].removed
      /\ pay[a].status # "Paid"
  BY <1>1, Asked DEF DeskKnows
<1>5. appt' = [appt EXCEPT ![a] = row]
  BY <1>2 DEF SaveCancelled, IInv, TypeOK
<1>6. row.status = "Cancelled" /\ row.removed = appt[a].removed /\ row.settled = appt[a].settled
  BY <1>2 DEF Appointment
<1> HIDE DEF row
<1>7. appt'[a] = row /\ \A e \in Appts \ {a} : appt'[e] = appt[e]
  BY <1>2, <1>5, RowValues
<1>8. /\ \A e \in Appts : ~ Cancels(desk'[k], e) /\ ~ Converts(desk[k], e) /\ ~ Converts(desk'[k], e)
      /\ \A e \in Appts \ {a} : ~ Cancels(desk[k], e)
      /\ Cancels(desk[k], a)
  BY <1>1, <1>3 DEF Cancels, Converts
<1>9. /\ jobs[a] = 0 /\ pay[a].status \in {"none", "Cancelled"}
      /\ appt[a].settled => pay[a].status # "none"
  <2>1. pay[a].status \in {"none", "Paid", "Cancelled"}
    BY <1>2, RowOf DEF Payment
  <2> QED
    BY <1>1, <1>2, <1>4, <1>8, <2>1, DeskRow DEF RowFits
<1> HIDE DEF a
<1>10. RowFits(appt'[a], pay'[a].status, jobs'[a], FALSE, FALSE,
               k \in Clerks /\ Cancels(desk'[k], a), Converts(desk'[k], a))
  BY <1>1, <1>2, <1>4, <1>6, <1>7, <1>8, <1>9 DEF RowFits
<1>11. VisitStep(StageOf(appt[a], jobs[a], Converts(desk[k], a)),
                 MoneyOf(appt[a], pay[a].status, FALSE, k \in Clerks /\ Cancels(desk[k], a)),
                 StageOf(appt'[a], jobs'[a], Converts(desk'[k], a)),
                 MoneyOf(appt'[a], pay'[a].status, FALSE, k \in Clerks /\ Cancels(desk'[k], a)))
  <2>1. /\ StageOf(appt[a], jobs[a], Converts(desk[k], a)) = "open"
        /\ StageOf(appt'[a], jobs'[a], Converts(desk'[k], a)) = "cancelled"
    BY <1>1, <1>4, <1>6, <1>7, <1>9 DEF StageOf
  <2>2. MoneyOf(appt[a], pay[a].status, FALSE, k \in Clerks /\ Cancels(desk[k], a))
          = IF pay[a].status = "Cancelled" THEN "Paid" ELSE "none"
    BY <1>8, <1>9 DEF MoneyOf
  <2>3. MoneyOf(appt'[a], pay'[a].status, FALSE, k \in Clerks /\ Cancels(desk'[k], a)) = pay[a].status
    BY <1>1, <1>2, <1>8, <1>9 DEF MoneyOf
  <2> QED
    BY <1>9, <2>1, <2>2, <2>3 DEF VisitStep
<1>12. DeskKnows(k, desk[k])'
  BY <1>3 DEF DeskKnows
<1> QED
  BY <1>1, <1>2, <1>7, <1>8, <1>10, <1>11, <1>12, Asked, DeskFrame

LEMMA SaveRemovedRest ==
  ASSUME IInv, RestInv, NEW k \in Clerks, OnlyDesk(k), SaveRemoved(k)
  PROVE  RestInv' /\ Followed
<1> DEFINE a == desk[k].appt
           row == [desk[k].snap EXCEPT !.removed = TRUE]
<1>1. /\ k \in Desk /\ desk[k].pc = "remove" /\ UNCHANGED <<held, pay, jobs>>
      /\ desk' = [desk EXCEPT ![k] = Free]
      /\ appt' = [appt EXCEPT ![a] = row]
  BY DEF Desk, SaveRemoved
<1>2. a \in Appts /\ appt[a] \in Appointment
  BY <1>1, Asked, RowOf DEF DeskOK
<1>3. desk'[k].pc \in {"idle", "done"}
  BY <1>1, FreedDesk
<1>4. /\ desk[k].snap = appt[a] /\ ~ appt[a].removed
      /\ appt[a].status \in {"Queued", "Cancelled"}
  BY <1>1, Asked DEF DeskKnows
<1>5. row.status = appt[a].status /\ row.removed /\ row.settled = appt[a].settled
  BY <1>2, <1>4 DEF Appointment
<1> HIDE DEF row
<1>6. appt'[a] = row /\ \A e \in Appts \ {a} : appt'[e] = appt[e]
  BY <1>1, <1>2, RowValues
<1>7. \A e \in Appts : /\ ~ Cancels(desk[k], e) /\ ~ Cancels(desk'[k], e)
                       /\ ~ Converts(desk[k], e) /\ ~ Converts(desk'[k], e)
  BY <1>1, <1>3 DEF Cancels, Converts
<1>8. RowFits(appt[a], pay[a].status, jobs[a], FALSE, FALSE, FALSE, FALSE) /\ jobs[a] = 0
  BY <1>1, <1>2, <1>4, <1>7, DeskRow DEF RowFits
<1> HIDE DEF a
<1>9. RowFits(appt'[a], pay'[a].status, jobs'[a], FALSE, FALSE,
              k \in Clerks /\ Cancels(desk'[k], a), Converts(desk'[k], a))
  BY <1>1, <1>2, <1>4, <1>5, <1>6, <1>7, <1>8 DEF RowFits
<1>10. VisitStep(StageOf(appt[a], jobs[a], Converts(desk[k], a)),
                 MoneyOf(appt[a], pay[a].status, FALSE, k \in Clerks /\ Cancels(desk[k], a)),
                 StageOf(appt'[a], jobs'[a], Converts(desk'[k], a)),
                 MoneyOf(appt'[a], pay'[a].status, FALSE, k \in Clerks /\ Cancels(desk'[k], a)))
  <2>1. /\ StageOf(appt[a], jobs[a], Converts(desk[k], a)) \in {"open", "cancelled"}
        /\ StageOf(appt'[a], jobs'[a], Converts(desk'[k], a)) = "removed"
    <3>1. StageOf(appt[a], jobs[a], Converts(desk[k], a)) \in {"open", "cancelled"}
      BY <1>4, <1>8 DEF StageOf
    <3>2. jobs'[a] = 0 /\ appt'[a].removed
      BY <1>1, <1>5, <1>6, <1>8
    <3>3. StageOf(appt'[a], jobs'[a], Converts(desk'[k], a)) = "removed"
      BY <3>2 DEF StageOf
    <3> QED
      BY <3>1, <3>3
  <2>2. MoneyOf(appt[a], pay[a].status, FALSE, k \in Clerks /\ Cancels(desk[k], a))
          = MoneyOf(appt'[a], pay'[a].status, FALSE, k \in Clerks /\ Cancels(desk'[k], a))
    BY <1>1, <1>2, <1>7 DEF MoneyOf
  <2> QED
    BY <2>1, <2>2 DEF VisitStep
<1>11. DeskKnows(k, desk[k])'
  BY <1>3 DEF DeskKnows
<1> QED
  BY <1>1, <1>2, <1>6, <1>7, <1>9, <1>10, <1>11, Asked, DeskFrame

\* A conversion starts from an appointment that was paid for.
LEMMA StartConvertRest ==
  ASSUME IInv, RestInv, NEW x \in Desk, OnlyDesk(x), NEW a \in Appts,
         Convertible(a), StartConvert(x, a), desk[x].pc \in {"idle", "auto"},
         UNCHANGED <<held, appt, pay, jobs>>
  PROVE  RestInv' /\ Followed
<1> DEFINE new == [desk[x] EXCEPT !.pc = "create", !.appt = a, !.snap = appt[a]]
<1>1. new.pc = "create" /\ new.appt = a /\ new.snap = appt[a]
  BY Asked, Fields
<1>2. desk'[x].pc = "create" /\ desk'[x].appt = a /\ desk'[x].snap = appt[a]
  <2>1. desk' = [desk EXCEPT ![x] = new]
    BY DEF StartConvert, IInv, TypeOK
  <2> HIDE DEF new
  <2> QED
    BY <1>1, <2>1, NewDesk
<1>3. \A e \in Appts : /\ ~ Cancels(desk[x], e) /\ ~ Cancels(desk'[x], e)
                       /\ ~ Converts(desk[x], e) /\ ~ Converts(desk'[x], e)
  BY <1>2 DEF Cancels, Converts
<1>4. pay[a].status # "none"
  BY DeskRow DEF Convertible, Settled, RowFits
<1>5. ~ appt[a].removed /\ appt[a].status \in {"Queued", "Cancelled"}
  BY DEF Convertible, Found
<1>6. DeskKnows(x, desk[x])'
  BY <1>2, <1>4, <1>5 DEF DeskKnows
<1> HIDE DEF new
<1> QED
  BY <1>3, <1>6, DeskQuiet

LEMMA CreateJobRest ==
  ASSUME IInv, RestInv, NEW x \in Desk, OnlyDesk(x), CreateJob(x)
  PROVE  RestInv' /\ Followed
<1> DEFINE a == desk[x].appt
           new == [desk[x] EXCEPT !.pc = "convert", !.job = jobs[a] + 1]
<1>1. /\ desk[x].pc = "create" /\ UNCHANGED <<held, appt, pay>>
      /\ jobs' = [jobs EXCEPT ![a] = jobs[a] + 1]
      /\ desk' = [desk EXCEPT ![x] = new]
      /\ desk[x] \in DeskState
  BY DeskFacts DEF CreateJob
<1>2. a \in Appts /\ appt[a] \in Appointment
  BY <1>1, Asked, RowOf DEF DeskOK
<1>3. new.pc = "convert" /\ new.appt = a /\ new.snap = desk[x].snap
  BY <1>1, Fields
<1>4. desk'[x].pc = "convert" /\ desk'[x].appt = a /\ desk'[x].snap = desk[x].snap
  <2> HIDE DEF new
  <2> QED
    BY <1>1, <1>3, NewDesk
<1>5. /\ desk[x].snap = appt[a] /\ ~ appt[a].removed
      /\ appt[a].status \in {"Queued", "Cancelled"} /\ pay[a].status # "none"
  BY <1>1, Asked DEF DeskKnows
<1>6. /\ \A e \in Appts : ~ Cancels(desk[x], e) /\ ~ Cancels(desk'[x], e) /\ ~ Converts(desk[x], e)
      /\ \A e \in Appts \ {a} : ~ Converts(desk'[x], e)
      /\ Converts(desk'[x], a)
  BY <1>1, <1>4 DEF Cancels, Converts
<1>7. RowFits(appt[a], pay[a].status, jobs[a], FALSE, FALSE, FALSE, FALSE) /\ jobs[a] = 0
  BY <1>2, <1>5, <1>6, DeskRow DEF RowFits
<1>8. jobs'[a] = 1 /\ \A e \in Appts \ {a} : jobs'[e] = jobs[e]
  BY <1>1, <1>2, <1>7 DEF IInv, TypeOK
<1> HIDE DEF a, new
<1>9. RowFits(appt'[a], pay'[a].status, jobs'[a], FALSE, FALSE,
              x \in Clerks /\ Cancels(desk'[x], a), Converts(desk'[x], a))
  BY <1>1, <1>2, <1>5, <1>6, <1>7, <1>8 DEF RowFits
<1>10. VisitStep(StageOf(appt[a], jobs[a], Converts(desk[x], a)),
                 MoneyOf(appt[a], pay[a].status, FALSE, x \in Clerks /\ Cancels(desk[x], a)),
                 StageOf(appt'[a], jobs'[a], Converts(desk'[x], a)),
                 MoneyOf(appt'[a], pay'[a].status, FALSE, x \in Clerks /\ Cancels(desk'[x], a)))
  <2>1. /\ StageOf(appt[a], jobs[a], Converts(desk[x], a)) \in {"open", "cancelled"}
        /\ StageOf(appt'[a], jobs'[a], Converts(desk'[x], a)) = "converted"
    BY <1>1, <1>2, <1>5, <1>6, <1>7, <1>8 DEF StageOf
  <2>2. /\ MoneyOf(appt[a], pay[a].status, FALSE, x \in Clerks /\ Cancels(desk[x], a)) = pay[a].status
        /\ MoneyOf(appt'[a], pay'[a].status, FALSE, x \in Clerks /\ Cancels(desk'[x], a)) = pay[a].status
    BY <1>1, <1>2, <1>6 DEF MoneyOf
  <2> QED
    BY <1>5, <2>1, <2>2 DEF VisitStep
<1>11. DeskKnows(x, desk[x])'
  BY <1>1, <1>4, <1>5 DEF DeskKnows
<1> QED
  BY <1>1, <1>2, <1>6, <1>8, <1>9, <1>10, <1>11, Asked, DeskFrame

LEMMA SaveConvertedRest ==
  ASSUME IInv, RestInv, NEW x \in Desk, OnlyDesk(x), SaveConverted(x)
  PROVE  RestInv' /\ Followed
<1> DEFINE a == desk[x].appt
           row == [desk[x].snap EXCEPT !.status = "Converted"]
           new == [desk[x] EXCEPT !.pc = "linkPay"]
<1>1. /\ desk[x].pc = "convert" /\ UNCHANGED <<held, pay, jobs>>
      /\ desk[x] \in DeskState /\ appt' = [appt EXCEPT ![a] = row]
  BY DeskFacts DEF SaveConverted
<1>2. a \in Appts /\ appt[a] \in Appointment
  BY <1>1, Asked, RowOf DEF DeskOK
<1>3. new.pc = "linkPay"
  BY <1>1, Fields
<1>4. desk'[x].pc = "linkPay"
  <2>1. desk' = [desk EXCEPT ![x] = new]
    BY DEF SaveConverted, IInv, TypeOK
  <2> HIDE DEF new
  <2> QED
    BY <1>3, <2>1, NewDesk
<1>5. /\ desk[x].snap = appt[a] /\ ~ appt[a].removed
      /\ appt[a].status \in {"Queued", "Cancelled"} /\ pay[a].status # "none"
  BY <1>1, Asked DEF DeskKnows
<1>6. row.status = "Converted" /\ ~ row.removed /\ row.settled = appt[a].settled
  BY <1>2, <1>5 DEF Appointment
<1> HIDE DEF row, new
<1>7. appt'[a] = row /\ \A e \in Appts \ {a} : appt'[e] = appt[e]
  BY <1>1, <1>2, RowValues
<1>8. /\ \A e \in Appts : ~ Cancels(desk[x], e) /\ ~ Cancels(desk'[x], e) /\ ~ Converts(desk'[x], e)
      /\ \A e \in Appts \ {a} : ~ Converts(desk[x], e)
      /\ Converts(desk[x], a)
  BY <1>1, <1>4 DEF Cancels, Converts
<1>9. jobs[a] = 1
  BY <1>2, <1>8, DeskRow DEF RowFits
<1> HIDE DEF a
<1>10. RowFits(appt'[a], pay'[a].status, jobs'[a], FALSE, FALSE,
               x \in Clerks /\ Cancels(desk'[x], a), Converts(desk'[x], a))
  BY <1>1, <1>2, <1>5, <1>6, <1>7, <1>8, <1>9 DEF RowFits
<1>11. VisitStep(StageOf(appt[a], jobs[a], Converts(desk[x], a)),
                 MoneyOf(appt[a], pay[a].status, FALSE, x \in Clerks /\ Cancels(desk[x], a)),
                 StageOf(appt'[a], jobs'[a], Converts(desk'[x], a)),
                 MoneyOf(appt'[a], pay'[a].status, FALSE, x \in Clerks /\ Cancels(desk'[x], a)))
  <2>1. /\ StageOf(appt[a], jobs[a], Converts(desk[x], a)) = "converted"
        /\ StageOf(appt'[a], jobs'[a], Converts(desk'[x], a)) = "converted"
    BY <1>1, <1>5, <1>6, <1>7, <1>8, <1>9 DEF StageOf
  <2>2. /\ MoneyOf(appt[a], pay[a].status, FALSE, x \in Clerks /\ Cancels(desk[x], a)) = pay[a].status
        /\ MoneyOf(appt'[a], pay'[a].status, FALSE, x \in Clerks /\ Cancels(desk'[x], a)) = pay[a].status
    BY <1>1, <1>2, <1>8 DEF MoneyOf
  <2> QED
    BY <2>1, <2>2 DEF VisitStep
<1>12. DeskKnows(x, desk[x])'
  BY <1>4 DEF DeskKnows
<1> QED
  BY <1>1, <1>2, <1>7, <1>8, <1>10, <1>11, <1>12, Asked, DeskFrame

LEMMA LinkPaymentRest ==
  ASSUME IInv, RestInv, NEW x \in Desk, OnlyDesk(x), LinkPayment(x)
  PROVE  RestInv' /\ Followed
<1> DEFINE a == desk[x].appt
           p == [pay[a] EXCEPT !.job = desk[x].job]
<1>1. desk[x].pc = "linkPay" /\ UNCHANGED <<held, jobs>>
  BY DEF LinkPayment
<1>2. a \in Appts /\ pay[a] \in Payment
  BY <1>1, Asked, RowOf DEF DeskOK
<1>3. desk'[x].pc \in {"idle", "done"}
  BY FreedDesk DEF LinkPayment, Finished
<1>4. \A e \in Appts : pay'[e].status = pay[e].status
  <2>1. pay' = pay \/ pay' = [pay EXCEPT ![a] = p]
    BY <1>2 DEF LinkPayment, IInv, TypeOK
  <2>2. p.status = pay[a].status
    BY <1>2 DEF Payment
  <2> HIDE DEF p
  <2> QED
    BY <1>2, <2>1, <2>2 DEF IInv, TypeOK
<1>5. \A e \in Appts : /\ appt'[e].status = appt[e].status
                       /\ appt'[e].removed = appt[e].removed
                       /\ appt'[e].settled = appt[e].settled
  <2>1. appt' = appt \/ appt' = [appt EXCEPT ![a].blocked = "none"]
    BY DEF LinkPayment
  <2> QED
    BY <1>2, <2>1, NoteOnly
<1>6. \A e \in Appts : /\ ~ Cancels(desk[x], e) /\ ~ Cancels(desk'[x], e)
                       /\ ~ Converts(desk[x], e) /\ ~ Converts(desk'[x], e)
  BY <1>1, <1>3 DEF Cancels, Converts
<1>7. DeskKnows(x, desk[x])'
  BY <1>3 DEF DeskKnows
<1> HIDE DEF a
<1> QED
  BY <1>1, <1>4, <1>5, <1>6, <1>7, DeskQuiet

\* A capture is recorded and looks for an appointment, which it is attached to,
\* or blocks.
LEMMA CaptureRest ==
  ASSUME IInv, RestInv, NEW c \in Captures, OnlyDesk(c),
         \/ Capture(c) \/ Match(c) \/ Attach(c)
         \/ AutoBlocked(c) \/ NothingToConvert(c)
  PROVE  RestInv' /\ Followed
<1>1. /\ c \in Desk /\ desk[c] \in DeskState /\ UNCHANGED <<held, pay, jobs>>
      /\ desk[c].pc \in {"idle", "match", "attach", "auto"}
  BY DeskFacts DEF Desk, Capture, Match, Attach, AutoBlocked, NothingToConvert
<1>2. desk'[c].pc \in {"match", "attach", "auto", "done", "idle"}
  <2>1. CASE Capture(c)
    <3> DEFINE new == [desk[c] EXCEPT !.pc = "match", !.seen = today]
    <3>1. desk' = [desk EXCEPT ![c] = new]
      BY <2>1 DEF Capture
    <3>2. new.pc = "match"
      BY <1>1 DEF DeskState
    <3> HIDE DEF new
    <3> QED
      BY <1>1, <3>1, <3>2, NewDesk
  <2>2. CASE Match(c) \/ Attach(c)
    <3>1. \A a : LET new == [desk[c] EXCEPT !.pc = "attach", !.appt = a]
                IN  desk' = [desk EXCEPT ![c] = new] => desk'[c].pc = "attach"
      <4> TAKE a
      <4> DEFINE new == [desk[c] EXCEPT !.pc = "attach", !.appt = a]
      <4>1. new.pc = "attach"
        BY <1>1, Fields
      <4> HIDE DEF new
      <4>2. desk' = [desk EXCEPT ![c] = new] => desk'[c].pc = "attach"
        BY <1>1, <4>1, NewDesk
      <4> QED
        BY <4>2 DEF new
    <3>2. \A a : LET new == [desk[c] EXCEPT !.pc = "auto", !.appt = a]
                IN  desk' = [desk EXCEPT ![c] = new] => desk'[c].pc = "auto"
      <4> TAKE a
      <4> DEFINE new == [desk[c] EXCEPT !.pc = "auto", !.appt = a]
      <4>1. new.pc = "auto"
        BY <1>1, Fields
      <4> HIDE DEF new
      <4>2. desk' = [desk EXCEPT ![c] = new] => desk'[c].pc = "auto"
        BY <1>1, <4>1, NewDesk
      <4> QED
        BY <4>2 DEF new
    <3>3. desk' = [desk EXCEPT ![c].pc = "auto"] => desk'[c].pc = "auto"
      BY <1>1 DEF DeskState, IInv, TypeOK
    <3> QED
      BY <2>2, <3>1, <3>2, <3>3 DEF Match, Attach
  <2>3. CASE AutoBlocked(c) \/ NothingToConvert(c)
    BY <1>1, <2>3, FreedDesk DEF AutoBlocked, NothingToConvert
  <2> QED
    BY <2>1, <2>2, <2>3
<1>3. \A e \in Appts : /\ appt'[e].status = appt[e].status
                       /\ appt'[e].removed = appt[e].removed
                       /\ appt'[e].settled = appt[e].settled
  <2>1. CASE UNCHANGED appt
    BY <2>1
  <2>2. CASE Attach(c)
    <3> DEFINE a == desk[c].appt
               row == [appt[a] EXCEPT !.capture = c]
    <3>1. a \in Appts /\ appt[a] \in Appointment
      BY <1>1, <2>2, Asked, RowOf DEF Attach, DeskOK
    <3>2. appt' = [appt EXCEPT ![a] = row]
      BY <2>2, <3>1 DEF Attach, IInv, TypeOK
    <3>3. row.status = appt[a].status /\ row.removed = appt[a].removed
          /\ row.settled = appt[a].settled
      BY <3>1 DEF Appointment
    <3> HIDE DEF a, row
    <3> QED
      BY <3>1, <3>2, <3>3, RowValues
  <2>3. CASE AutoBlocked(c)
    <3>1. PICK a \in Appts : appt' = [appt EXCEPT ![a].blocked = "gate"]
      BY <2>3 DEF AutoBlocked, AutoCandidates, Appts
    <3> QED
      BY <3>1, NoteOnly
  <2> QED
    BY <2>1, <2>2, <2>3 DEF Capture, Match, NothingToConvert
<1>4. \A e \in Appts : /\ ~ Cancels(desk[c], e) /\ ~ Cancels(desk'[c], e)
                       /\ ~ Converts(desk[c], e) /\ ~ Converts(desk'[c], e)
  BY <1>1, <1>2 DEF Cancels, Converts
<1>5. DeskKnows(c, desk[c])'
  BY <1>2 DEF DeskKnows
<1> QED
  BY <1>1, <1>3, <1>4, <1>5, DeskQuiet

LEMMA DeskedRest ==
  ASSUME IInv, RestInv, NEW x \in Desk, OnlyDesk(x), Desked(x)
  PROVE  RestInv' /\ Followed
<1>1. CASE Convert(x)
  BY <1>1, CreateJobRest, SaveConvertedRest, LinkPaymentRest DEF Convert
<1>2. CASE x \in Clerks /\ Clerk(x) /\ ~ Convert(x)
  <2>1. ASSUME NEW a \in Appts, ConvertRead(x, a) PROVE RestInv' /\ Followed
    BY <2>1, StartConvertRest DEF ConvertRead
  <2>2. CASE ~ \E a \in Appts : ConvertRead(x, a)
    BY <1>2, <2>2, ReadRest, WalkInRest, CollectRest, CancelPaymentRest, SaveCancelledRest,
       SaveRemovedRest DEF Clerk
  <2> QED
    BY <2>1, <2>2
<1>3. CASE x \in Captures /\ Arrival(x) /\ ~ Convert(x)
  <2>1. CASE AutoConvert(x)
    <3>1. PICK a \in Appts : Convertible(a) /\ StartConvert(x, a)
      BY <2>1 DEF AutoConvert, AutoCandidates, Appts
    <3> QED
      BY <2>1, <3>1, StartConvertRest DEF AutoConvert
  <2>2. CASE ~ AutoConvert(x)
    BY <1>3, <2>2, CaptureRest DEF Arrival
  <2> QED
    BY <2>1, <2>2
<1> QED
  BY <1>1, <1>2, <1>3 DEF Desked

\* A step of nobody: the provider's, or midnight.
LEMMA OutsideRest ==
  ASSUME RestInv, UNCHANGED <<held, appt, pay, jobs, cycle, desk>>
  PROVE  RestInv' /\ Followed
<1>1. \A a \in Appts : RowOK(a)'
  BY DEF RestInv, RowOK
<1>2. \A i \in Cycles : CycleKnows(cycle[i])'
  BY DEF RestInv, CycleKnows
<1>3. \A x \in Desk : DeskKnows(x, desk[x])'
  BY DEF RestInv, DeskKnows
<1>4. \A a \in Appts : Stage'[a] = Stage[a] /\ Money'[a] = Money[a]
  <2> TAKE a \in Appts
  <2> QED
    BY Mapped
<1> QED
  BY <1>1, <1>2, <1>3, <1>4 DEF RestInv, Followed

RestIInv == IInv /\ OneBusy /\ RestInv

LEMMA RestInit == Init => RestIInv
<1> SUFFICES ASSUME Init PROVE RestIInv
  OBVIOUS
<1>1. IInv /\ OneBusy
  BY ArrivalInit DEF ArrivalIInv
<1>2. /\ \A i \in Cycles : cycle[i].pc = "idle"
      /\ \A x \in Desk : desk[x].pc = "idle"
  BY DEF Init, Idle, Free
<1>3. \A a \in Appts : RowOK(a)
  <2> TAKE a \in Appts
  <2>1. /\ appt[a].status = "none" /\ ~ appt[a].removed /\ ~ appt[a].settled
        /\ pay[a].status = "none" /\ jobs[a] = 0
    BY DEF Init, NoAppt
  <2>2. ~ \E x \in Desk : Converts(desk[x], a)
    BY <1>2 DEF Converts
  <2> QED
    BY <2>1, <2>2 DEF RowOK, RowFits
<1>4. \A b \in Bookings : pay[b].status = "none"
  BY DEF Init, Appts
<1>5. (\A i \in Cycles : CycleKnows(cycle[i])) /\ \A x \in Desk : DeskKnows(x, desk[x])
  BY <1>2 DEF CycleKnows, DeskKnows
<1> QED
  BY <1>1, <1>3, <1>4, <1>5 DEF RestIInv, RestInv

LEMMA RestNext ==
  ASSUME InterruptLimit = 0, RestIInv, [SerialNext]_vars
  PROVE  RestIInv' /\ Followed
<1>1. IInv'
  BY NextInv DEF RestIInv, SerialNext
<1>2. CASE UNCHANGED <<held, appt, pay, jobs, cycle, desk>>
  BY <1>1, <1>2, OutsideRest DEF RestIInv, OneBusy, Busy
<1>3. CASE SerialNext
  <2>1. ASSUME NEW i \in Cycles, Ingest(i) PROVE RestIInv' /\ Followed
    <3>1. OnlyCycle(i) /\ OneBusy'
      BY <1>3, <2>1, CycleAlone DEF RestIInv, SerialNext
    <3> QED
      BY <1>1, <2>1, <3>1, IngestRest DEF RestIInv
  <2>2. ASSUME NEW x \in Desk, Desked(x) PROVE RestIInv' /\ Followed
    <3>1. OnlyDesk(x) /\ OneBusy'
      BY <1>3, <2>2, DeskAlone DEF RestIInv, SerialNext
    <3> QED
      BY <1>1, <2>2, <3>1, DeskedRest DEF RestIInv
  <2>3. ASSUME NEW b \in Bookings, Provider(b) PROVE RestIInv' /\ Followed
    BY <1>2, <2>3 DEF Provider, Book, SettleUpstream, Reschedule, Withdraw, Change
  <2>4. NewDay => RestIInv' /\ Followed
    BY <1>2 DEF NewDay
  <2>5. ~ Interrupt
    <3>1. cuts \in Nat
      BY DEF RestIInv, IInv, TypeOK
    <3>2. Interrupt => cuts < InterruptLimit
      BY DEF Interrupt
    <3> QED
      BY <3>1, <3>2
  <2>6. ASSUME NEW k \in Clerks, Clerk(k) PROVE RestIInv' /\ Followed
    BY <2>2, <2>6 DEF Desked, Desk
  <2>7. ASSUME NEW c \in Captures, Arrival(c) PROVE RestIInv' /\ Followed
    BY <2>2, <2>7 DEF Desked, Desk
  <2> QED
    BY <1>3, <2>1, <2>3, <2>4, <2>5, <2>6, <2>7 DEF SerialNext, Next
<1> QED
  BY <1>2, <1>3 DEF vars

-----------------------------------------------------------------------------
(* The theorems about requests that run to their end.                      *)

LEMMA RestIInvHolds ==
  ASSUME InterruptLimit = 0
  PROVE  SerialSpec => []RestIInv /\ [][Followed]_vars
<1>1. Init => RestIInv
  BY RestInit
<1>2. RestIInv /\ [SerialNext]_vars => RestIInv' /\ [Followed]_vars
  BY RestNext
<1> QED
  BY <1>1, <1>2, PTL DEF SerialSpec

\* While requests do not overlap and none is cut short, a visit that was called
\* off holds no settled payment between requests, and a queued booking the
\* provider settled has its payment (cancel, handleWithdrawn, ensurePayment).
THEOREM MoneyAtRestHolds ==
  ASSUME InterruptLimit = 0
  PROVE  SerialSpec => []MoneyAtRest
<1>1. RestIInv => MoneyAtRest
  <2> SUFFICES ASSUME RestIInv, AtRest
               PROVE  /\ \A a \in Appts : appt[a].status = "Cancelled" => pay[a].status # "Paid"
                      /\ \A b \in Bookings :
                           Queued(b) /\ appt[b].settled => pay[b].status = "Paid"
    BY DEF MoneyAtRest
  <2>1. /\ \A i \in Cycles : cycle[i].pc = "idle"
        /\ \A x \in Desk : desk[x].pc \in {"idle", "done"}
    BY BusyMeans DEF AtRest
  <2>2. ASSUME NEW a \in Appts
        PROVE  RowFits(appt[a], pay[a].status, jobs[a], FALSE, FALSE, FALSE, FALSE)
    <3>1. /\ ~ \E i \in Cycles : Links(cycle[i], a)
          /\ ~ \E i \in Cycles : Writes(cycle[i], a)
          /\ ~ \E k \in Clerks : Cancels(desk[k], a)
          /\ ~ \E x \in Desk : Converts(desk[x], a)
      BY <2>1 DEF Links, Writes, Cancels, Converts, Desk
    <3> QED
      BY <3>1 DEF RestIInv, RestInv, RowOK, RowFits
  <2>3. \A a \in Appts : pay[a].status \in {"none", "Paid", "Cancelled"}
    BY RowOf DEF RestIInv, Payment
  <2> QED
    BY <2>2, <2>3 DEF RowFits, Queued, Appts
<1> QED
  BY <1>1, RestIInvHolds, PTL

\* A step that moves one visit as the lifecycle lets it is a step of the
\* lifecycle.
LEMMA FollowedIsLifecycle == Followed => [Lifecycle!Next]_(Lifecycle!vars)
<1> SUFFICES ASSUME Followed PROVE Lifecycle!Next \/ (Stage' = Stage /\ Money' = Money)
  BY DEF Lifecycle!vars
<1>1. /\ Stage = [a \in Appts |-> Stage[a]] /\ Stage' = [a \in Appts |-> Stage'[a]]
      /\ Money = [a \in Appts |-> Money[a]] /\ Money' = [a \in Appts |-> Money'[a]]
  BY DEF Stage, Money
<1>2. CASE \A a \in Appts : Stage'[a] = Stage[a] /\ Money'[a] = Money[a]
  BY <1>1, <1>2
<1>3. ASSUME NEW a \in Appts, VisitStep(Stage[a], Money[a], Stage'[a], Money'[a]),
             \A e \in Appts \ {a} : Stage'[e] = Stage[e] /\ Money'[e] = Money[e]
      PROVE  Lifecycle!Next \/ (Stage' = Stage /\ Money' = Money)
  <2> DEFINE S == Stage
             S2 == Stage'
             M == Money
             M2 == Money'
  <2>1. S2 = [S EXCEPT ![a] = S2[a]] /\ M2 = [M EXCEPT ![a] = M2[a]]
    BY <1>1, <1>3
  <2>2. /\ S2[a] = S[a] => S2 = S
        /\ M2[a] = M[a] => M2 = M
    BY <1>1, <1>3
  <2>3. CASE S2[a] = S[a] /\ M2[a] = M[a]
    BY <2>2, <2>3
  <2>4. CASE S[a] = "none" /\ S2[a] = "open" /\ M2[a] = M[a]
    BY <2>1, <2>2, <2>4 DEF Lifecycle!Next, Lifecycle!Open
  <2>5. CASE S[a] = "open" /\ S2[a] = "open" /\ M[a] = "none" /\ M2[a] = "Paid"
    BY <2>1, <2>2, <2>5 DEF Lifecycle!Next, Lifecycle!Settle
  <2>6. CASE /\ S[a] = "open" /\ S2[a] = "cancelled"
             /\ M2[a] = IF M[a] = "Paid" THEN "Cancelled" ELSE M[a]
    BY <2>1, <2>6 DEF Lifecycle!Next, Lifecycle!CallOff
  <2>7. CASE /\ S[a] = "cancelled" /\ S2[a] = "open"
             /\ M2[a] = IF M[a] = "Cancelled" THEN "Paid" ELSE M[a]
    BY <2>1, <2>7 DEF Lifecycle!Next, Lifecycle!Reinstate
  <2>8. CASE S[a] \in {"open", "cancelled"} /\ S2[a] = "removed" /\ M2[a] = M[a]
    BY <2>1, <2>2, <2>8 DEF Lifecycle!Next, Lifecycle!Remove
  <2>9. CASE S[a] \in {"open", "cancelled"} /\ M[a] # "none" /\ S2[a] = "converted" /\ M2[a] = M[a]
    BY <2>1, <2>2, <2>9 DEF Lifecycle!Next, Lifecycle!Convert
  <2> QED
    BY <1>3, <2>3, <2>4, <2>5, <2>6, <2>7, <2>8, <2>9 DEF VisitStep
<1> QED
  BY <1>2, <1>3 DEF Followed

\* While requests do not overlap and none is cut short, the queue implements
\* the lifecycle of a visit: one job, only for money; visit and money are called
\* off together and come back together; a removed visit becomes no job.
THEOREM LifecycleHolds ==
  ASSUME InterruptLimit = 0
  PROVE  SerialSpec => LifecycleSpec
<1>1. Init => Lifecycle!Init
  <2> SUFFICES ASSUME Init PROVE Lifecycle!Init
    OBVIOUS
  <2>1. ASSUME NEW a \in Appts PROVE Stage[a] = "none" /\ Money[a] = "none"
    <3>1. appt[a].status = "none" /\ ~ appt[a].removed /\ jobs[a] = 0 /\ pay[a].status = "none"
      BY DEF Init, NoAppt
    <3>2. /\ Stage[a] = StageOf(appt[a], jobs[a], \E x \in Desk : Converts(desk[x], a))
          /\ Money[a] = MoneyOf(appt[a], pay[a].status, \E i \in Cycles : Writes(cycle[i], a),
                                \E k \in Clerks : Cancels(desk[k], a))
      BY Mapped
    <3> QED
      BY <3>1, <3>2 DEF StageOf, MoneyOf
  <2>2. Stage = [a \in Appts |-> Stage[a]] /\ Money = [a \in Appts |-> Money[a]]
    BY DEF Stage, Money
  <2> QED
    BY <2>1, <2>2 DEF Lifecycle!Init
<1>2. Followed => [Lifecycle!Next]_(Lifecycle!vars)
  BY FollowedIsLifecycle
<1>3. UNCHANGED vars => UNCHANGED Lifecycle!vars
  <2> SUFFICES ASSUME UNCHANGED vars PROVE Stage' = Stage /\ Money' = Money
    BY DEF Lifecycle!vars
  <2> QED
    BY DEF vars, Stage, Money
<1> QED
  BY <1>1, <1>2, <1>3, RestIInvHolds, PTL DEF SerialSpec, LifecycleSpec, Lifecycle!Spec

-----------------------------------------------------------------------------
(* A walk-in and its arrival.  While requests do not overlap and run to    *)
(* their end, no write loses a capture, and a walk-in of today that waits  *)
(* leaves no capture of today without an appointment or on its way to one. *)

Awaits(row, d) ==
  row.status = "Queued" /\ ~ row.removed /\ row.capture = NoCapture /\ row.created = d

Unmet(row) == row.status # "none" /\ row.capture = NoCapture

Met(c) == (\E e \in Appts : appt[e].capture = c) \/ desk[c].pc \in {"match", "attach"}

\* Nothing is of a day to come, and a row that is no appointment has no capture.
Dated(row) == row.created <= today /\ (row.status = "none" => row.capture = NoCapture)

Registers(d) ==
  d.pc = "register" =>
    /\ d.snap.created <= today
    /\ d.snap.capture = NoCapture /\ d.snap.created = today => SeenToday = {}

PairInv ==
  /\ \A a \in Appts : Dated(appt[a])
  /\ \A x \in Desk : desk[x].seen <= today
  /\ \A k \in Clerks : Registers(desk[k])
  /\ \A c \in Captures : desk[c].pc = "attach" => Unmet(appt[desk[c].appt])
  /\ \A a \in WalkIns : Awaits(appt[a], today) => \A c \in SeenToday : Met(c)

\* A row is written, and keeps its capture.
RowMoves(old, new) ==
  Dated(new) /\ (old.capture # NoCapture => new.capture = old.capture)

LEMMA SameMoves ==
  ASSUME PairInv, NEW a \in Appts, NEW new, new.created = appt[a].created,
         new.capture = appt[a].capture, new.status = "none" => appt[a].status = "none"
  PROVE  RowMoves(appt[a], new)
BY DEF PairInv, RowMoves, Dated

LEMMA OthersMove ==
  ASSUME IInv, PairInv, NEW a \in Appts, NEW row, RowMoves(appt[a], row),
         appt' = appt \/ appt' = [appt EXCEPT ![a] = row]
  PROVE  \A e \in Appts : RowMoves(appt[e], appt'[e])
<1>1. \A e \in Appts : RowMoves(appt[e], appt[e])
  BY SameMoves
<1>2. \A e \in Appts : appt'[e] = appt[e] \/ (e = a /\ appt'[e] = row)
  BY DEF IInv, TypeOK
<1> QED
  BY <1>1, <1>2

LEMMA NoneMoves ==
  ASSUME IInv, PairInv, UNCHANGED appt
  PROVE  \A e \in Appts : RowMoves(appt[e], appt'[e])
BY SameMoves

LEMMA PairCycle ==
  ASSUME IInv, PairInv, NEW i \in Cycles, OnlyCycle(i), UNCHANGED <<today, desk>>,
         \A a \in Appts : RowMoves(appt[a], appt'[a]),
         \A a \in WalkIns : appt'[a] = appt[a]
  PROVE  PairInv'
<1>1. SeenToday' = SeenToday /\ \A x \in Desk : desk[x].pc \in {"idle", "done"}
  BY DEF SeenToday, OnlyCycle
<1>2. \A a \in Appts : Dated(appt[a])'
  BY DEF RowMoves, Dated
<1>3. \A x \in Desk : desk'[x].seen <= today'
  BY DEF PairInv
<1>4. \A k \in Clerks : Registers(desk[k])'
  BY <1>1 DEF Registers, Desk
<1>5. \A c \in Captures : desk'[c].pc # "attach"
  BY <1>1 DEF Desk
<1>6. ASSUME NEW a \in WalkIns, Awaits(appt'[a], today'), NEW c \in SeenToday' PROVE Met(c)'
  <2>1. Met(c) /\ c \in Captures
    BY <1>1, <1>6 DEF PairInv, SeenToday
  <2>2. desk[c].pc \notin {"match", "attach"} /\ c # NoCapture
    BY <1>1, <2>1, LimitsAssumption DEF Desk, Captures, NoCapture
  <2>3. PICK e \in Appts : appt[e].capture = c
    BY <2>1, <2>2 DEF Met
  <2>4. appt'[e].capture = c
    BY <2>2, <2>3 DEF RowMoves
  <2> QED
    BY <2>4 DEF Met
<1> QED
  BY <1>2, <1>3, <1>4, <1>5, <1>6 DEF PairInv

LEMMA PairDesk ==
  ASSUME IInv, PairInv, NEW x \in Desk, OnlyDesk(x), UNCHANGED today,
         \A a \in Appts : RowMoves(appt[a], appt'[a]),
         \A a \in WalkIns : Awaits(appt'[a], today) => Awaits(appt[a], today) \/ SeenToday' = {},
         desk'[x].seen <= today,
         x \in Clerks => Registers(desk[x])',
         x \in Captures /\ desk'[x].pc = "attach" => Unmet(appt'[desk'[x].appt]),
         x \in Captures /\ x \in SeenToday' =>
           Met(x)' \/ \A a \in WalkIns : ~ Awaits(appt'[a], today)
  PROVE  PairInv'
<1>1. \A y \in Desk \ {x} : desk[y].pc \in {"idle", "done"} /\ desk'[y] = desk[y]
  BY DEF OnlyDesk
<1>2. \A a \in Appts : Dated(appt[a])'
  BY DEF RowMoves, Dated
<1>3. \A y \in Desk : desk'[y].seen <= today'
  BY <1>1 DEF PairInv
<1>4. \A k \in Clerks : Registers(desk[k])'
  <2> TAKE k \in Clerks
  <2>1. CASE k = x
    BY <2>1
  <2>2. CASE k # x
    <3>1. desk'[k].pc # "register"
      BY <1>1, <2>2 DEF Desk
    <3> QED
      BY <3>1 DEF Registers
  <2> QED
    BY <2>1, <2>2
<1>5. \A c \in Captures : desk'[c].pc = "attach" => Unmet(appt'[desk'[c].appt])
  BY <1>1 DEF Desk
<1>6. ASSUME NEW a \in WalkIns, Awaits(appt'[a], today'), NEW c \in SeenToday' PROVE Met(c)'
  <2>1. c \in Captures /\ c \in Desk
    BY DEF SeenToday, Desk
  <2>2. CASE c = x
    BY <1>6, <2>1, <2>2
  <2>3. CASE c # x
    <3>1. c \in SeenToday /\ desk[c].pc \notin {"match", "attach"}
      BY <1>1, <2>1, <2>3 DEF SeenToday
    <3>2. Awaits(appt[a], today)
      BY <1>6
    <3>3. Met(c) /\ c # NoCapture
      BY <2>1, <3>1, <3>2, LimitsAssumption DEF PairInv, Captures, NoCapture
    <3>4. PICK e \in Appts : appt[e].capture = c
      BY <3>1, <3>3 DEF Met
    <3>5. appt'[e].capture = c
      BY <3>3, <3>4 DEF RowMoves
    <3> QED
      BY <3>5 DEF Met
  <2> QED
    BY <2>2, <2>3
<1> QED
  BY <1>2, <1>3, <1>4, <1>5, <1>6 DEF PairInv

LEMMA IngestPair ==
  ASSUME IInv, RestInv, PairInv, NEW i \in Cycles, OnlyCycle(i), Ingest(i)
  PROVE  PairInv'
<1>1. UNCHANGED <<today, desk>>
  <2>1. UNCHANGED desk
    BY IngestActs
  <2>2. ASSUME NEW d \in Days, FetchAppointments(i, d) PROVE UNCHANGED today
    BY <2>2 DEF FetchAppointments
  <2>3. CASE ~ \E d \in Days : FetchAppointments(i, d)
    BY <2>3 DEF Ingest, UpsertBooking, WithdrawMissing, PromoteExisting, PromoteCheck,
                InsertAppointment, LinkBooking, EnsurePayment, StartSync, SyncRead, RestorePayment,
                SaveSynced, AutoCancel, WarnWithdrawn, CancelPaymentFor
  <2> QED
    BY <2>1, <2>2, <2>3
<1>2. ASSUME NEW b \in Bookings, NEW row, RowMoves(appt[b], row),
             appt' = appt \/ appt' = [appt EXCEPT ![b] = row]
      PROVE  PairInv'
  <2>1. b \in Appts /\ b \notin WalkIns
    BY NamesAssumption DEF Appts
  <2>2. \A a \in Appts : RowMoves(appt[a], appt'[a])
    BY <1>2, <2>1, OthersMove
  <2>3. \A a \in WalkIns : appt'[a] = appt[a]
    <3>1. appt \in [Appts -> Appointment] /\ \A a \in WalkIns : a \in Appts /\ a # b
      BY <2>1 DEF Appts, IInv, TypeOK
    <3> QED
      BY <1>2, <3>1
  <2> QED
    BY <1>1, <2>2, <2>3, PairCycle
<1>3. CASE UNCHANGED appt
  BY <1>1, <1>3, NoneMoves, PairCycle
<1>4. cycle[i].cur \in Bookings => /\ cycle[i].cur \in Appts
                                  /\ appt[cycle[i].cur] \in Appointment
  BY RowOf DEF Appts
<1>5. CASE InsertAppointment(i)
  <2> DEFINE b == cycle[i].cur
             row == [NoAppt EXCEPT !.status = "Queued", !.day = cycle[i].rows[b].day,
                       !.created = today, !.settled = cycle[i].rows[b].paid]
  <2>1. b \in Bookings /\ b \in Appts
    BY <1>5, CycleFacts DEF InsertAppointment, CycleOK, Appts
  <2>2. CASE appt[b].status = "none"
    <3>1. row.status = "Queued" /\ row.created = today /\ row.capture = NoCapture
      BY DEF NoAppt
    <3>2. appt' = [appt EXCEPT ![b] = row]
      BY <1>5, <2>2 DEF InsertAppointment
    <3>3. appt[b].capture = NoCapture /\ today \in Nat
      BY <2>1, <2>2 DEF PairInv, Dated, IInv, TypeOK, Days
    <3> HIDE DEF b, row
    <3>4. RowMoves(appt[b], row)
      BY <3>1, <3>3 DEF RowMoves, Dated
    <3> QED
      BY <1>2, <2>1, <3>2, <3>4
  <2>3. CASE appt[b].status # "none"
    BY <1>3, <1>5, <2>3 DEF InsertAppointment
  <2> QED
    BY <2>2, <2>3
<1>6. CASE SaveSynced(i)
  <2> DEFINE b == cycle[i].cur
             old == cycle[i].snap
             new == [old EXCEPT
                       !.status = IF old.status = "Cancelled" THEN "Queued" ELSE old.status,
                       !.blocked = "none",
                       !.day = IF old.capture = NoCapture THEN cycle[i].rows[b].day ELSE old.day]
  <2>1. b \in Bookings /\ b \in Appts /\ appt[b] \in Appointment
    BY <1>4, <1>6, CycleFacts DEF SaveSynced, CycleOK
  <2>2. old = appt[b]
    BY <1>6, Known DEF SaveSynced, CycleKnows
  <2>3. appt' = appt \/ appt' = [appt EXCEPT ![b] = new]
    BY <1>6 DEF SaveSynced
  <2>4. /\ new.created = old.created /\ new.capture = old.capture
        /\ new.status = IF old.status = "Cancelled" THEN "Queued" ELSE old.status
    BY <2>1, <2>2 DEF Appointment
  <2> HIDE DEF b, old, new
  <2>5. RowMoves(appt[b], new)
    BY <2>1, <2>2, <2>4, SameMoves
  <2> QED
    BY <1>2, <2>1, <2>3, <2>5
<1>7. CASE AutoCancel(i)
  <2> DEFINE b == cycle[i].cur
             row == [appt[b] EXCEPT !.status = "Cancelled"]
  <2>1. b \in Bookings /\ b \in Appts /\ appt[b] \in Appointment
    BY <1>4, <1>7, CycleFacts DEF AutoCancel, CycleOK
  <2>2. appt' = [appt EXCEPT ![b] = row]
    BY <1>7, <2>1 DEF AutoCancel, IInv, TypeOK
  <2>3. row.created = appt[b].created /\ row.capture = appt[b].capture /\ row.status = "Cancelled"
    BY <2>1 DEF Appointment
  <2> HIDE DEF b, row
  <2>4. RowMoves(appt[b], row)
    BY <2>1, <2>3, SameMoves
  <2> QED
    BY <1>2, <2>1, <2>2, <2>4
<1>8. CASE WarnWithdrawn(i)
  <2> DEFINE b == cycle[i].cur
             row == [appt[b] EXCEPT !.blocked = "withdrawn"]
  <2>1. b \in Bookings /\ b \in Appts /\ appt[b] \in Appointment
    BY <1>4, <1>8, CycleFacts DEF WarnWithdrawn, CycleOK
  <2>2. appt' = appt \/ appt' = [appt EXCEPT ![b] = row]
    BY <1>8, <2>1 DEF WarnWithdrawn, IInv, TypeOK
  <2>3. row.created = appt[b].created /\ row.capture = appt[b].capture
        /\ row.status = appt[b].status
    BY <2>1 DEF Appointment
  <2> HIDE DEF b, row
  <2>4. RowMoves(appt[b], row)
    BY <2>1, <2>3, SameMoves
  <2> QED
    BY <1>2, <2>1, <2>2, <2>4
<1>9. \/ UNCHANGED appt \/ InsertAppointment(i) \/ SaveSynced(i)
      \/ AutoCancel(i) \/ WarnWithdrawn(i)
  <2>1. ASSUME NEW d \in Days, FetchAppointments(i, d) PROVE UNCHANGED appt
    BY <2>1 DEF FetchAppointments
  <2>2. CASE ~ \E d \in Days : FetchAppointments(i, d)
    BY <2>2 DEF Ingest, UpsertBooking, WithdrawMissing, PromoteExisting, PromoteCheck, LinkBooking,
                EnsurePayment, StartSync, SyncRead, RestorePayment, CancelPaymentFor
  <2> QED
    BY <2>1, <2>2
<1> QED
  BY <1>3, <1>5, <1>6, <1>7, <1>8, <1>9

\* The actor that writes one row, and is no capture about to look for one.
LEMMA PairWrite ==
  ASSUME IInv, PairInv, NEW x \in Desk, OnlyDesk(x), UNCHANGED today,
         NEW a \in Appts, NEW row, RowMoves(appt[a], row),
         appt' = appt \/ appt' = [appt EXCEPT ![a] = row],
         Awaits(row, today) => Awaits(appt[a], today) \/ SeenToday' = {},
         desk'[x].seen \in {0, desk[x].seen}, x \in Captures => desk'[x].seen = desk[x].seen,
         desk'[x].pc \notin {"register", "attach"},
         x \in Captures => desk[x].pc \notin {"idle", "match", "attach"}
  PROVE  PairInv'
<1>1. \A e \in Appts : RowMoves(appt[e], appt'[e])
  BY OthersMove
<1>2. \A e \in WalkIns : Awaits(appt'[e], today) => Awaits(appt[e], today) \/ SeenToday' = {}
  <2>1. \A e \in Appts : appt'[e] = appt[e] \/ (e = a /\ appt'[e] = row)
    BY DEF IInv, TypeOK
  <2> QED
    BY <2>1 DEF Awaits, Appts
<1>3. desk'[x].seen <= today
  BY DEF PairInv, IInv, TypeOK, Days
<1>4. Registers(desk[x])'
  BY DEF Registers
<1>5. ASSUME x \in Captures, x \in SeenToday', NEW e \in WalkIns, Awaits(appt'[e], today) PROVE Met(x)'
  <2>1. x \in SeenToday
    BY <1>5 DEF SeenToday
  <2>2. Awaits(appt[e], today)
    BY <1>2, <1>5
  <2>3. Met(x) /\ x # NoCapture
    BY <1>5, <2>1, <2>2, LimitsAssumption DEF PairInv, Captures, NoCapture
  <2>4. PICK f \in Appts : appt[f].capture = x
    BY <1>5, <2>3 DEF Met
  <2>5. appt'[f].capture = x
    BY <1>1, <2>3, <2>4 DEF RowMoves
  <2> QED
    BY <2>5 DEF Met
<1> QED
  BY <1>1, <1>2, <1>3, <1>4, <1>5, PairDesk

\* Steps of a request that leave the appointments alone.
LEMMA PairQuiet ==
  ASSUME IInv, PairInv, NEW x \in Desk, OnlyDesk(x), UNCHANGED <<today, appt>>,
         desk'[x].seen \in {0, desk[x].seen}, x \in Captures => desk'[x].seen = desk[x].seen,
         desk'[x].pc \notin {"register", "attach"},
         x \in Captures => desk[x].pc \notin {"idle", "match", "attach"}
  PROVE  PairInv'
<1>1. CASE \E a \in Appts : TRUE
  <2>1. PICK a \in Appts : TRUE
    BY <1>1
  <2>2. RowMoves(appt[a], appt[a])
    BY SameMoves
  <2> QED
    BY <2>1, <2>2, PairWrite
<1>2. CASE ~ \E a \in Appts : TRUE
  <2>1. /\ \A a \in Appts : RowMoves(appt[a], appt'[a])
        /\ \A a \in WalkIns : ~ Awaits(appt'[a], today)
    BY <1>2 DEF Appts
  <2>2. desk'[x].seen <= today
    BY DEF PairInv, IInv, TypeOK, Days
  <2> QED
    BY <2>1, <2>2, PairDesk DEF Registers
<1> QED
  BY <1>1, <1>2

\* What the entries of the desk keep of the day a capture was seen.
LEMMA SeenFields ==
  ASSUME NEW d \in DeskState, NEW pc, NEW a, NEW row
  PROVE  /\ [d EXCEPT !.pc = pc, !.appt = a].seen = d.seen
         /\ [d EXCEPT !.pc = pc, !.appt = a, !.snap = row].seen = d.seen
         /\ [d EXCEPT !.pc = pc].seen = d.seen
         /\ [d EXCEPT !.pc = pc, !.job = row].seen = d.seen
         /\ Free.seen = 0 /\ [Free EXCEPT !.pc = "done", !.seen = d.seen].seen = d.seen
BY DEF DeskState, Free

LEMMA ConvertPair ==
  ASSUME IInv, RestInv, PairInv, NEW x \in Desk, OnlyDesk(x), Convert(x)
  PROVE  PairInv'
<1>1. desk[x] \in DeskState /\ desk[x].appt \in Appts /\ appt[desk[x].appt] \in Appointment
      /\ desk[x].pc \in {"create", "convert", "linkPay"} /\ UNCHANGED today
  BY DeskFacts, RowOf DEF Convert, CreateJob, SaveConverted, LinkPayment, DeskOK
<1> DEFINE a == desk[x].appt
<1>2. CASE CreateJob(x)
  <2> DEFINE new == [desk[x] EXCEPT !.pc = "convert", !.job = jobs[a] + 1]
  <2>1. new.pc = "convert" /\ new.seen = desk[x].seen
    BY <1>1, Fields, SeenFields
  <2>2. desk' = [desk EXCEPT ![x] = new] /\ UNCHANGED appt
    BY <1>2 DEF CreateJob
  <2> HIDE DEF new
  <2>3. desk'[x] = new
    BY <2>2, NewDesk
  <2> QED
    BY <1>1, <2>1, <2>2, <2>3, PairQuiet
<1>3. CASE SaveConverted(x)
  <2> DEFINE new == [desk[x] EXCEPT !.pc = "linkPay"]
             row == [desk[x].snap EXCEPT !.status = "Converted"]
  <2>1. new.pc = "linkPay" /\ new.seen = desk[x].seen
    BY <1>1, Fields, SeenFields
  <2>2. desk' = [desk EXCEPT ![x] = new] /\ appt' = [appt EXCEPT ![a] = row]
    BY <1>3 DEF SaveConverted, IInv, TypeOK
  <2>3. desk[x].snap = appt[a]
    BY <1>3, Asked DEF DeskKnows, SaveConverted
  <2>4. row.status = "Converted" /\ row.created = appt[a].created /\ row.capture = appt[a].capture
    BY <1>1, <2>3 DEF Appointment
  <2> HIDE DEF new, row, a
  <2>5. desk'[x] = new
    BY <2>2, NewDesk
  <2>6. RowMoves(appt[a], row) /\ ~ Awaits(row, today)
    BY <1>1, <2>4, SameMoves DEF Awaits, a
  <2> QED
    BY <1>1, <2>1, <2>2, <2>5, <2>6, PairWrite DEF a
<1>4. CASE LinkPayment(x)
  <2>1. desk'[x].pc \in {"idle", "done"}
    BY <1>4, FreedDesk DEF LinkPayment, Finished
  <2>2. desk'[x].seen \in {0, desk[x].seen} /\ (x \in Captures => desk'[x].seen = desk[x].seen)
    <3>1. CASE x \in Captures
      BY <1>1, <1>4, <3>1, SeenFields DEF LinkPayment, IInv, TypeOK
    <3>2. CASE x \notin Captures
      BY <1>1, <1>4, <3>2, SeenFields DEF LinkPayment, IInv, TypeOK
    <3> QED
      BY <3>1, <3>2
  <2>3. appt' = appt \/ appt' = [appt EXCEPT ![a].blocked = "none"]
    BY <1>4 DEF LinkPayment
  <2>4. PICK row : /\ appt' = appt \/ appt' = [appt EXCEPT ![a] = row]
                   /\ row.status = appt[a].status /\ row.created = appt[a].created
                   /\ row.capture = appt[a].capture /\ row.removed = appt[a].removed
    <3> DEFINE row == [appt[a] EXCEPT !.blocked = "none"]
    <3>1. appt' = appt \/ appt' = [appt EXCEPT ![a] = row]
      BY <1>1, <2>3 DEF IInv, TypeOK
    <3>2. /\ row.status = appt[a].status /\ row.created = appt[a].created
          /\ row.capture = appt[a].capture /\ row.removed = appt[a].removed
      BY <1>1 DEF Appointment
    <3> HIDE DEF row
    <3> QED
      BY <3>1, <3>2
  <2>5. RowMoves(appt[a], row) /\ (Awaits(row, today) => Awaits(appt[a], today))
    BY <1>1, <2>4, SameMoves DEF Awaits
  <2> HIDE DEF a
  <2> QED
    BY <1>1, <2>1, <2>2, <2>4, <2>5, PairWrite DEF a
<1> QED
  BY <1>2, <1>3, <1>4 DEF Convert

LEMMA ClerkPair ==
  ASSUME IInv, RestInv, PairInv, NEW k \in Clerks, OnlyDesk(k), Clerk(k), ~ Convert(k)
  PROVE  PairInv'
<1>1. k \in Desk /\ k \notin Captures /\ desk[k] \in DeskState /\ today \in Nat
  BY DeskFacts, NamesAssumption DEF Desk, IInv, TypeOK, Days
<1>2. ASSUME NEW pc, NEW a, desk' = [desk EXCEPT ![k] = [desk[k] EXCEPT !.pc = pc, !.appt = a]]
      PROVE  desk'[k].pc = pc /\ desk'[k].seen = desk[k].seen
  <2> DEFINE new == [desk[k] EXCEPT !.pc = pc, !.appt = a]
  <2>1. new.pc = pc /\ new.seen = desk[k].seen
    BY <1>1, Fields, SeenFields
  <2>2. desk' = [desk EXCEPT ![k] = new]
    BY <1>2
  <2> HIDE DEF new
  <2> QED
    BY <1>1, <2>1, <2>2, NewDesk
<1>3. ASSUME NEW pc, NEW a, NEW row,
             desk' = [desk EXCEPT ![k] = [desk[k] EXCEPT !.pc = pc, !.appt = a, !.snap = row]]
      PROVE  desk'[k].pc = pc /\ desk'[k].seen = desk[k].seen /\ desk'[k].snap = row
  <2> DEFINE new == [desk[k] EXCEPT !.pc = pc, !.appt = a, !.snap = row]
  <2>1. new.pc = pc /\ new.seen = desk[k].seen /\ new.snap = row
    BY <1>1, Fields, SeenFields
  <2>2. desk' = [desk EXCEPT ![k] = new]
    BY <1>3
  <2> HIDE DEF new
  <2> QED
    BY <1>1, <2>1, <2>2, NewDesk
<1>4. ASSUME NEW pc, desk' = [desk EXCEPT ![k].pc = pc]
      PROVE  desk'[k].pc = pc /\ desk'[k].seen = desk[k].seen
  <2> DEFINE new == [desk[k] EXCEPT !.pc = pc]
  <2>1. new.pc = pc /\ new.seen = desk[k].seen
    BY <1>1, Fields, SeenFields
  <2>2. desk' = [desk EXCEPT ![k] = new]
    BY <1>1, <1>4 DEF IInv, TypeOK
  <2> HIDE DEF new
  <2> QED
    BY <1>1, <2>1, <2>2, NewDesk
<1>5. ASSUME desk' = [desk EXCEPT ![k] = Free]
      PROVE  desk'[k].pc = "idle" /\ desk'[k].seen = 0
  <2>1. desk'[k] = Free
    BY <1>1, <1>5, NewDesk
  <2> QED
    BY <2>1 DEF Free
<1>6. ASSUME NEW a \in WalkIns, RegisterCheck(k, a) PROVE PairInv'
  <2> DEFINE c == IF SeenToday = {} THEN NoCapture ELSE LatestToday
  <2>1. PICK row, d : /\ row = [NoAppt EXCEPT !.status = "Queued", !.day = d, !.created = today,
                                              !.capture = c]
                      /\ desk' = [desk EXCEPT ![k] =
                                    [desk[k] EXCEPT !.pc = "register", !.appt = a, !.snap = row]]
    BY <1>1, <1>6 DEF RegisterCheck, IInv, TypeOK
  <2>2. row.created = today /\ row.capture = c
    BY <2>1 DEF NoAppt
  <2>3. desk'[k].snap = row /\ desk'[k].seen = desk[k].seen /\ desk'[k].pc = "register"
    BY <1>3, <2>1
  <2>4. c = NoCapture => SeenToday = {}
    BY LatestTodayType, LimitsAssumption, Latest DEF Captures, NoCapture
  <2>5. UNCHANGED <<today, appt>>
    BY <1>6 DEF RegisterCheck
  <2>6. SeenToday' = SeenToday
    <3>1. \A x \in Captures : desk'[x] = desk[x]
      BY <1>1 DEF OnlyDesk, Desk
    <3> QED
      BY <2>5, <3>1 DEF SeenToday
  <2> HIDE DEF c
  <2>7. Registers(desk[k])'
    BY <1>1, <2>2, <2>3, <2>4, <2>5, <2>6 DEF Registers
  <2>8. \A e \in Appts : RowMoves(appt[e], appt'[e])
    BY <2>5, NoneMoves
  <2>9. desk'[k].seen <= today
    BY <1>1, <2>3 DEF PairInv
  <2> QED
    BY <1>1, <2>5, <2>7, <2>8, <2>9, PairDesk
<1>7. CASE RegisterWalkIn(k)
  <2> DEFINE a == desk[k].appt
             row == desk[k].snap
  <2>1. a \in Appts /\ desk[k].pc = "register" /\ UNCHANGED today
    BY <1>1, <1>7, DeskFacts DEF RegisterWalkIn, DeskOK, Appts
  <2>2. appt' = [appt EXCEPT ![a] = row]
    BY <1>7 DEF RegisterWalkIn
  <2>3. desk'[k].pc = "collect" /\ desk'[k].seen = desk[k].seen
    BY <1>4, <1>7 DEF RegisterWalkIn
  <2>4. appt[a].status = "none" /\ row.status = "Queued"
    BY <1>1, <2>1, Asked DEF DeskKnows
  <2>5. /\ row.created <= today
        /\ row.capture = NoCapture /\ row.created = today => SeenToday = {}
    BY <2>1 DEF PairInv, Registers
  <2>6. SeenToday' = SeenToday
    <3>1. \A x \in Captures : desk'[x] = desk[x]
      BY <1>1 DEF OnlyDesk, Desk
    <3> QED
      BY <2>1, <3>1 DEF SeenToday
  <2>7. RowMoves(appt[a], row)
    BY <2>1, <2>4, <2>5 DEF PairInv, RowMoves, Dated
  <2>8. Awaits(row, today) => SeenToday' = {}
    BY <2>5, <2>6 DEF Awaits
  <2> HIDE DEF a, row
  <2> QED
    BY <1>1, <2>1, <2>2, <2>3, <2>7, <2>8, PairWrite
<1>8. CASE CollectPayment(k)
  <2>1. UNCHANGED <<today, appt>> /\ desk' = [desk EXCEPT ![k] = Free]
    BY <1>8 DEF CollectPayment
  <2> QED
    BY <1>1, <1>5, <2>1, PairQuiet
<1>9. CASE CancelPayment(k)
  <2>1. UNCHANGED <<today, appt>> /\ desk' = [desk EXCEPT ![k].pc = "cancel"]
    BY <1>9 DEF CancelPayment
  <2>2. desk'[k].pc = "cancel" /\ desk'[k].seen = desk[k].seen
    BY <1>4, <2>1
  <2> QED
    BY <1>1, <2>1, <2>2, PairQuiet
<1>10. ASSUME NEW a \in Appts, CancelRead(k, a) PROVE PairInv'
  <2>1. UNCHANGED <<today, appt>>
        /\ desk' = [desk EXCEPT ![k] = [desk[k] EXCEPT !.pc = "refund", !.appt = a]]
    BY <1>1, <1>10 DEF CancelRead, IInv, TypeOK
  <2>2. desk'[k].pc = "refund" /\ desk'[k].seen = desk[k].seen
    BY <1>2, <2>1
  <2> QED
    BY <1>1, <2>1, <2>2, PairQuiet
<1>11. ASSUME NEW a \in Appts, RemoveRead(k, a) \/ ConvertRead(k, a) PROVE PairInv'
  <2>1. PICK pc \in {"remove", "create"} :
          desk' = [desk EXCEPT ![k] = [desk[k] EXCEPT !.pc = pc, !.appt = a, !.snap = appt[a]]]
    BY <1>1, <1>11 DEF RemoveRead, ConvertRead, StartConvert, IInv, TypeOK
  <2>2. UNCHANGED <<today, appt>>
    BY <1>11 DEF RemoveRead, ConvertRead
  <2>3. desk'[k].pc = pc /\ desk'[k].seen = desk[k].seen
    BY <1>3, <2>1
  <2> QED
    BY <1>1, <2>1, <2>2, <2>3, PairQuiet
<1>12. CASE SaveCancelled(k)
  <2> DEFINE a == desk[k].appt
             row == [appt[a] EXCEPT !.status = "Cancelled", !.blocked = "none"]
  <2>1. a \in Appts /\ appt[a] \in Appointment
    BY <1>1, <1>12, DeskFacts, RowOf DEF SaveCancelled, DeskOK
  <2>2. appt' = [appt EXCEPT ![a] = row] /\ UNCHANGED today /\ desk' = [desk EXCEPT ![k] = Free]
    BY <1>12, <2>1 DEF SaveCancelled, IInv, TypeOK
  <2>3. row.status = "Cancelled" /\ row.created = appt[a].created /\ row.capture = appt[a].capture
    BY <2>1 DEF Appointment
  <2> HIDE DEF a, row
  <2>4. RowMoves(appt[a], row) /\ ~ Awaits(row, today)
    BY <2>1, <2>3, SameMoves DEF Awaits
  <2> QED
    BY <1>1, <1>5, <2>1, <2>2, <2>4, PairWrite
<1>13. CASE SaveRemoved(k)
  <2> DEFINE a == desk[k].appt
             row == [desk[k].snap EXCEPT !.removed = TRUE]
  <2>1. a \in Appts /\ appt[a] \in Appointment
    BY <1>1, <1>13, DeskFacts, RowOf DEF SaveRemoved, DeskOK
  <2>2. appt' = [appt EXCEPT ![a] = row] /\ UNCHANGED today /\ desk' = [desk EXCEPT ![k] = Free]
    BY <1>13 DEF SaveRemoved
  <2>3. desk[k].snap = appt[a]
    BY <1>1, <1>13, Asked DEF SaveRemoved, DeskKnows
  <2>4. /\ row.status = appt[a].status /\ row.created = appt[a].created
        /\ row.capture = appt[a].capture /\ row.removed
    BY <2>1, <2>3 DEF Appointment
  <2> HIDE DEF a, row
  <2>5. RowMoves(appt[a], row) /\ ~ Awaits(row, today)
    BY <2>1, <2>4, SameMoves DEF Awaits
  <2> QED
    BY <1>1, <1>5, <2>1, <2>2, <2>5, PairWrite
<1> QED
  BY <1>6, <1>7, <1>8, <1>9, <1>10, <1>11, <1>12, <1>13 DEF Clerk

LEMMA CapturePair ==
  ASSUME IInv, RestInv, PairInv, NEW c \in Captures, OnlyDesk(c), Arrival(c), ~ Convert(c)
  PROVE  PairInv'
<1>1. c \in Desk /\ c \notin Clerks /\ desk[c] \in DeskState /\ today \in Nat
  BY DeskFacts, NamesAssumption DEF Desk, IInv, TypeOK, Days
<1>2. ASSUME NEW pc, NEW a, desk' = [desk EXCEPT ![c] = [desk[c] EXCEPT !.pc = pc, !.appt = a]]
      PROVE  desk'[c].pc = pc /\ desk'[c].seen = desk[c].seen /\ desk'[c].appt = a
  <2> DEFINE new == [desk[c] EXCEPT !.pc = pc, !.appt = a]
  <2>1. new.pc = pc /\ new.seen = desk[c].seen /\ new.appt = a
    BY <1>1, Fields, SeenFields
  <2>2. desk' = [desk EXCEPT ![c] = new]
    BY <1>2
  <2> HIDE DEF new
  <2> QED
    BY <1>1, <2>1, <2>2, NewDesk
<1>3. ASSUME Finished(c)
      PROVE  desk'[c].pc = "done" /\ desk'[c].seen = desk[c].seen
  <2> DEFINE new == [Free EXCEPT !.pc = "done", !.seen = desk[c].seen]
  <2>1. new.pc = "done" /\ new.seen = desk[c].seen
    BY <1>1, SeenFields DEF Free
  <2>2. desk' = [desk EXCEPT ![c] = new]
    BY <1>3 DEF Finished
  <2> HIDE DEF new
  <2> QED
    BY <1>1, <2>1, <2>2, NewDesk
<1>4. ASSUME UNCHANGED appt
      PROVE  /\ \A a \in Appts : RowMoves(appt[a], appt'[a])
             /\ \A a \in WalkIns : Awaits(appt'[a], today) => Awaits(appt[a], today)
  BY <1>4, NoneMoves
<1>5. CASE Capture(c)
  <2> DEFINE new == [desk[c] EXCEPT !.pc = "match", !.seen = today]
  <2>1. new.pc = "match" /\ new.seen = today
    BY <1>1 DEF DeskState
  <2>2. desk' = [desk EXCEPT ![c] = new] /\ UNCHANGED <<today, appt>>
    BY <1>5 DEF Capture
  <2> HIDE DEF new
  <2>3. desk'[c] = new
    BY <1>1, <2>2, NewDesk
  <2>4. Met(c)'
    BY <2>1, <2>3 DEF Met
  <2> QED
    BY <1>1, <1>4, <2>1, <2>2, <2>3, <2>4, PairDesk
<1>6. CASE Match(c)
  <2>1. UNCHANGED <<today, appt>> /\ desk[c].pc = "match"
    BY <1>6 DEF Match
  <2>2. ASSUME NEW a \in QueuedByPlate,
               desk' = [desk EXCEPT ![c] = [desk[c] EXCEPT !.pc = "attach", !.appt = a]]
        PROVE  PairInv'
    <3>1. desk'[c].pc = "attach" /\ desk'[c].seen = desk[c].seen /\ desk'[c].appt = a
      BY <1>2, <2>2
    <3>2. Unmet(appt'[desk'[c].appt])
      BY <2>1, <3>1, MatchedToday DEF Unmet
    <3>3. Met(c)' /\ desk'[c].seen <= today
      BY <1>1, <3>1 DEF Met, PairInv
    <3> QED
      BY <1>1, <1>4, <2>1, <3>1, <3>2, <3>3, PairDesk
  <2>3. ASSUME desk[c].seen = today => QueuedByPlate = {}, desk' = [desk EXCEPT ![c].pc = "auto"]
        PROVE  PairInv'
    <3> DEFINE new == [desk[c] EXCEPT !.pc = "auto"]
    <3>1. new.pc = "auto" /\ new.seen = desk[c].seen
      BY <1>1, Fields, SeenFields
    <3>2. desk' = [desk EXCEPT ![c] = new]
      BY <1>1, <2>3 DEF IInv, TypeOK
    <3> HIDE DEF new
    <3>3. desk'[c].pc = "auto" /\ desk'[c].seen = desk[c].seen /\ desk'[c].seen <= today
      BY <1>1, <3>1, <3>2, NewDesk DEF PairInv
    <3>4. c \in SeenToday' => \A a \in WalkIns : ~ Awaits(appt'[a], today)
      <4> SUFFICES ASSUME c \in SeenToday', NEW a \in WalkIns, Awaits(appt[a], today)
                   PROVE  a \in QueuedByPlate
        BY <2>1, <2>3, <3>3 DEF SeenToday
      <4>1. a \in Waiting(Appts)
        BY DEF Waiting, Queued, Found, Awaits, Appts
      <4>2. {e \in Waiting(Bookings) : appt[e].day = today} = {}
        <5>1. QueuedByPlate = {}
          BY <2>1, <2>3, <3>3 DEF SeenToday
        <5> QED
          BY <5>1 DEF QueuedByPlate
      <4> QED
        BY <4>1, <4>2 DEF QueuedByPlate, Awaits
    <3> QED
      BY <1>1, <1>4, <2>1, <3>3, <3>4, PairDesk
  <2> QED
    <3>1. CASE desk[c].seen = today
      BY <1>1, <1>6, <2>2, <2>3, <3>1 DEF Match
    <3>2. CASE desk[c].seen # today
      BY <1>1, <1>6, <2>3, <3>2 DEF Match
    <3> QED
      BY <3>1, <3>2
<1>7. CASE Attach(c)
  <2> DEFINE a == desk[c].appt
             row == [appt[a] EXCEPT !.capture = c]
  <2>1. a \in Appts /\ appt[a] \in Appointment /\ appt[a].capture = NoCapture
    BY <1>1, <1>7, DeskFacts, RowOf DEF Attach, DeskOK, PairInv, Unmet
  <2>2. appt' = [appt EXCEPT ![a] = row] /\ UNCHANGED today
        /\ desk' = [desk EXCEPT ![c] = [desk[c] EXCEPT !.pc = "auto", !.appt = NoBooking]]
    BY <1>1, <1>7, <2>1 DEF Attach, IInv, TypeOK
  <2>3. row.status = appt[a].status /\ row.created = appt[a].created /\ row.capture = c
    BY <2>1 DEF Appointment
  <2>4. appt[a].status # "none"
    BY <1>7 DEF Attach, PairInv, Unmet
  <2> HIDE DEF a, row
  <2>5. RowMoves(appt[a], row) /\ ~ Awaits(row, today)
    BY <1>1, <2>1, <2>3, <2>4, LimitsAssumption DEF RowMoves, Dated, PairInv, Awaits, Captures, NoCapture
  <2>6. \A e \in Appts : RowMoves(appt[e], appt'[e])
    BY <2>1, <2>2, <2>5, OthersMove
  <2>7. \A e \in WalkIns : Awaits(appt'[e], today) => Awaits(appt[e], today)
    <3>1. \A e \in Appts : appt'[e] = appt[e] \/ appt'[e] = row
      BY <2>2 DEF IInv, TypeOK
    <3> QED
      BY <2>5, <3>1 DEF Awaits, Appts
  <2>8. desk'[c].pc = "auto" /\ desk'[c].seen <= today
    BY <1>1, <1>2, <2>2 DEF PairInv
  <2>9. Met(c)'
    <3>1. appt'[a].capture = c
      BY <2>1, <2>2, <2>3, RowValues
    <3> QED
      BY <2>1, <3>1 DEF Met
  <2> QED
    BY <1>1, <2>2, <2>6, <2>7, <2>8, <2>9, PairDesk
<1>8. CASE AutoConvert(c)
  <2>1. PICK a \in Appts : StartConvert(c, a)
    BY <1>8 DEF AutoConvert, AutoCandidates, Appts
  <2> DEFINE new == [desk[c] EXCEPT !.pc = "create", !.appt = a, !.snap = appt[a]]
  <2>2. new.pc = "create" /\ new.seen = desk[c].seen
    BY <1>1, Fields, SeenFields
  <2>3. desk' = [desk EXCEPT ![c] = new] /\ UNCHANGED <<today, appt>> /\ desk[c].pc = "auto"
    BY <1>1, <1>8, <2>1 DEF AutoConvert, StartConvert, IInv, TypeOK
  <2> HIDE DEF new
  <2>4. desk'[c] = new
    BY <1>1, <2>3, NewDesk
  <2> QED
    BY <1>1, <2>2, <2>3, <2>4, PairQuiet
<1>9. CASE AutoBlocked(c)
  <2>1. PICK a \in Appts : appt' = [appt EXCEPT ![a].blocked = "gate"]
    BY <1>9 DEF AutoBlocked, AutoCandidates, Appts
  <2> DEFINE row == [appt[a] EXCEPT !.blocked = "gate"]
  <2>2. appt' = [appt EXCEPT ![a] = row] /\ UNCHANGED today /\ desk[c].pc = "auto" /\ Finished(c)
    BY <1>9, <2>1 DEF AutoBlocked, IInv, TypeOK
  <2>3. /\ row.status = appt[a].status /\ row.created = appt[a].created
        /\ row.capture = appt[a].capture /\ row.removed = appt[a].removed
    <3>1. appt[a] \in Appointment
      BY RowOf
    <3> QED
      BY <3>1 DEF Appointment
  <2> HIDE DEF row
  <2>4. RowMoves(appt[a], row) /\ (Awaits(row, today) => Awaits(appt[a], today))
    BY <2>3, SameMoves DEF Awaits
  <2> QED
    BY <1>1, <1>3, <2>2, <2>4, PairWrite
<1>10. CASE NothingToConvert(c)
  <2>1. UNCHANGED <<today, appt>> /\ desk[c].pc = "auto" /\ Finished(c)
    BY <1>10 DEF NothingToConvert
  <2> QED
    BY <1>1, <1>3, <2>1, PairQuiet
<1> QED
  BY <1>5, <1>6, <1>7, <1>8, <1>9, <1>10 DEF Arrival

LEMMA NewDayPair == ASSUME IInv, PairInv, NewDay PROVE PairInv'
<1>1. today' = today + 1 /\ today \in Nat /\ UNCHANGED <<appt, desk>>
  BY DEF NewDay, IInv, TypeOK, Days
<1>2. \A a \in Appts : appt[a].created \in Nat
  BY DEF IInv, TypeOK, Appointment, Days
<1>3. \A x \in Desk : desk[x].seen \in Nat /\ desk[x].snap.created \in Nat
  BY DEF IInv, TypeOK, DeskState, Appointment, Days
<1>4. SeenToday' = {}
  <2>1. \A x \in Captures : desk'[x].seen # today'
    BY <1>1, <1>3 DEF PairInv, Desk
  <2> QED
    BY <2>1 DEF SeenToday
<1>5. \A a \in Appts : Dated(appt[a])'
  BY <1>1, <1>2 DEF PairInv, Dated
<1>6. \A x \in Desk : desk'[x].seen <= today'
  BY <1>1, <1>3 DEF PairInv
<1>7. \A k \in Clerks : Registers(desk[k])'
  BY <1>1, <1>3, <1>4 DEF PairInv, Registers, Desk
<1> QED
  BY <1>1, <1>4, <1>5, <1>6, <1>7 DEF PairInv

PairIInv == RestIInv /\ PairInv

LEMMA PairInit == Init => PairIInv
<1> SUFFICES ASSUME Init PROVE PairInv
  BY RestInit DEF PairIInv
<1>1. /\ \A a \in Appts : /\ appt[a].created = 0 /\ appt[a].status = "none"
                          /\ appt[a].capture = NoCapture
      /\ today = 0
  BY DEF Init, NoAppt
<1>2. \A x \in Desk : desk[x].pc = "idle" /\ desk[x].seen = 0
  BY DEF Init, Free
<1> QED
  BY <1>1, <1>2 DEF PairInv, Dated, Registers, Awaits, Desk, Appts

LEMMA PairNext ==
  ASSUME InterruptLimit = 0, PairIInv, [SerialNext]_vars
  PROVE  PairIInv'
<1> USE DEF PairIInv
<1>1. RestIInv'
  BY RestNext
<1>2. IInv /\ RestInv
  BY DEF RestIInv
<1>3. CASE UNCHANGED <<today, appt, desk>>
  <2>1. SeenToday' = SeenToday
    BY <1>3 DEF SeenToday
  <2>2. PairInv'
    BY <1>3, <2>1 DEF PairInv, Dated, Registers, Awaits, Met
  <2> QED
    BY <1>1, <2>2
<1>4. CASE SerialNext
  <2>1. ASSUME NEW i \in Cycles, Ingest(i) PROVE PairInv'
    <3>1. OnlyCycle(i)
      BY <1>4, <2>1, CycleAlone DEF RestIInv, SerialNext
    <3> QED
      BY <1>2, <2>1, <3>1, IngestPair
  <2>2. ASSUME NEW x \in Desk, Desked(x) PROVE PairInv'
    <3>1. OnlyDesk(x)
      BY <1>4, <2>2, DeskAlone DEF RestIInv, SerialNext
    <3> QED
      BY <1>2, <2>2, <3>1, ConvertPair, ClerkPair, CapturePair DEF Desked
  <2>3. ASSUME NEW b \in Bookings, Provider(b) PROVE UNCHANGED <<today, appt, desk>>
    BY <2>3 DEF Provider, Book, SettleUpstream, Reschedule, Withdraw, Change
  <2>4. ~ Interrupt
    <3>1. cuts \in Nat
      BY <1>2 DEF IInv, TypeOK
    <3>2. Interrupt => cuts < InterruptLimit
      BY DEF Interrupt
    <3> QED
      BY <3>1, <3>2
  <2>5. ASSUME NEW k \in Clerks, Clerk(k) PROVE PairInv'
    BY <2>2, <2>5 DEF Desked, Desk
  <2>6. ASSUME NEW c \in Captures, Arrival(c) PROVE PairInv'
    BY <2>2, <2>6 DEF Desked, Desk
  <2> QED
    BY <1>1, <1>2, <1>3, <1>4, <2>1, <2>3, <2>4, <2>5, <2>6, NewDayPair DEF SerialNext, Next
<1> QED
  BY <1>3, <1>4 DEF vars

\* While requests do not overlap and none is cut short, a walk-in and its
\* arrival find each other, whichever comes first: between requests no walk-in
\* of today waits while a capture of today belongs to no appointment (create's
\* adoption of the arrival, attachCaptureToAppointment).
THEOREM ArrivalPairedHolds ==
  ASSUME InterruptLimit = 0
  PROVE  SerialSpec => []ArrivalPaired
<1>1. Init => PairIInv
  BY PairInit
<1>2. PairIInv /\ [SerialNext]_vars => PairIInv'
  BY PairNext
<1>3. PairIInv => ArrivalPaired
  <2> SUFFICES ASSUME PairInv, AtRest, NEW a \in Waiting(WalkIns), appt[a].created = today,
                      NEW c \in SeenToday
               PROVE  \E e \in Appts : appt[e].capture = c
    BY DEF PairIInv, ArrivalPaired
  <2>1. desk[c].pc \in {"idle", "done"}
    BY BusyMeans DEF AtRest, SeenToday, Desk
  <2>2. Awaits(appt[a], today) /\ a \in WalkIns
    BY DEF Waiting, Queued, Found, Awaits
  <2> QED
    BY <2>1, <2>2 DEF PairInv, Met
<1> QED
  BY <1>1, <1>2, <1>3, PTL DEF SerialSpec

=============================================================================
