------------------------------ MODULE Cashier ------------------------------
(***************************************************************************)
(* The desk where inspections are paid, beside the masters it depends on:  *)
(* PaymentsService records, edits and removes payments and opens jobs for  *)
(* them, JobIntakeService records a payment with its job, JobService maps  *)
(* a job to a charge and prices it, ChargeService edits the charges.       *)
(***************************************************************************)
EXTENDS Masters, FiniteSetsExt

CONSTANTS
  MaxPay,   \* bound: payment rows
  MaxPrice  \* bound: amounts

ASSUME CashierAssumption ==
  /\ MaxPay \in Nat /\ MaxPrice \in Nat \ {0}
  /\ None \notin Jobs

VARIABLES
  charge,  \* grand totals of the charges, 0 once removed
  mapped,  \* the charge each job is mapped to
  pay,     \* payment rows, by payment_id
  till,    \* what each request at the desk is about to do
  strays   \* jobs opened elsewhere, or parted from their payment

dvars == <<charge, mapped, pay, till, strays>>
cvars == <<mvars, dvars>>

Pays == 1 .. MaxPay
Amounts == 0 .. MaxPrice

\* The centre's charge for the type of the vehicles, the one for every centre,
\* and one for another type.
Charges == {"own", "common", "other"}

\* total: the price the amount was checked against, 0 for none; for: the job
\* the payment was recorded for, None once it is edited or opens another job.
NoPay == [st |-> "none", job |-> None, amount |-> 0, total |-> 0, for |-> None]

AtEase == [pc |-> "idle", id |-> 0, row |-> NoPay, auto |-> FALSE, line |-> 0,
           new |-> None]

TypeOK ==
  /\ TypeOKMasters
  /\ charge \in [Charges -> Amounts]
  /\ mapped \in [Jobs -> Charges \union {None}]
  /\ pay \in [Pays -> [st : {"none", "live", "deleted"},
                       job : Jobs \union {None}, amount : Amounts,
                       total : Amounts, for : Jobs \union {None}]]
  /\ till \in [Requests ->
       [pc : {"idle", "number", "pay", "edit", "job", "link", "void", "intake"},
        id : 0 .. MaxPay, row : [st : {"none", "live", "deleted"},
          job : Jobs \union {None}, amount : Amounts, total : Amounts,
          for : Jobs \union {None}],
        auto : BOOLEAN, line : 0 .. NLines, new : Jobs \union {None}]]
  /\ strays \subseteq Jobs

-----------------------------------------------------------------------------
Exists(j) == job[j].st # "none"

\* A mapped charge that is still there wins over the type's; 0 is no charge.
PriceOf(j) ==
  LET usual == IF charge["own"] # 0 THEN charge["own"] ELSE charge["common"]
  IN IF mapped[j] # None /\ charge[mapped[j]] # 0 THEN charge[mapped[j]] ELSE usual

PaidFor(j) == {p \in Pays : pay[p].st = "live" /\ pay[p].job = j}

Collected(j) == SumSet({pay[p].amount : p \in PaidFor(j)})

\* Zero, the payable, which is less by what is collected and by what the
\* payment API knows of the plate, or the total.
Acceptable(j, a) ==
  \/ PriceOf(j) = 0
  \/ a \in {0, PriceOf(j)}
  \/ \E advance \in Amounts : a = Max({0, PriceOf(j) - advance - Collected(j)})

NextId == IF \E p \in Pays : pay[p].st # "none"
          THEN 1 + Max({p \in Pays : pay[p].st # "none"}) ELSE 1

\* The unique indexes: on payment_id, and on job_id, deleted rows included.
Conflict(id, j) ==
  \E p \in Pays \ {id} : pay[p].st # "none" /\ pay[p].job = j /\ j # None

Free(r) == Ready(r) /\ till[r].pc = "idle"

Counter(r, next) ==
  /\ Free(r)
  /\ calls' = calls + 1
  /\ till' = [till EXCEPT ![r] = next]
  /\ UNCHANGED masters
  /\ UNCHANGED <<job, cuts>>

AtTill(r, next) ==
  /\ till' = [till EXCEPT ![r] = next]
  /\ UNCHANGED mvars

-----------------------------------------------------------------------------
(* PaymentsService.                                                        *)

\* resolveReferences(): what is not posted comes from the job that is posted.
LineOf(j, l) == IF j = None THEN l ELSE job[j].line

\* Mutant: whatever amount is posted is recorded.
Collect_Unchecked(r, j, a, auto, l) ==
  /\ j # None => Exists(j) /\ PaidFor(j) = {}
  /\ Counter(r, [AtEase EXCEPT !.pc = "number", !.auto = auto,
       !.row = [st |-> "live", job |-> j, amount |-> a, for |-> j,
                total |-> IF j = None THEN 0 ELSE PriceOf(j)],
       !.line = LineOf(j, l)])
  /\ UNCHANGED <<charge, mapped, pay, strays>>

\* create(): a payment of the job that is there is returned, and the amount is
\* checked against the charge of the job.
Collect(r, j, a, auto, l) ==
  /\ j # None => Exists(j) /\ PaidFor(j) = {} /\ Acceptable(j, a)
  /\ Counter(r, [AtEase EXCEPT !.pc = "number", !.auto = auto,
       !.row = [st |-> "live", job |-> j, amount |-> a, for |-> j,
                total |-> IF j = None THEN 0 ELSE PriceOf(j)],
       !.line = LineOf(j, l)])
  /\ UNCHANGED <<charge, mapped, pay, strays>>

NumberPayment(r) ==
  /\ till[r].pc = "number"
  /\ NextId <= MaxPay
  /\ AtTill(r, [till[r] EXCEPT !.pc = "pay", !.id = NextId])
  /\ UNCHANGED <<charge, mapped, pay, strays>>

\* Mutant: one payment per job by convention only, without the index.
SavePayment_NoIndex(r) ==
  LET t == till[r] IN
  /\ t.pc = "pay"
  /\ pay[t.id].st = "none"
  /\ pay' = [pay EXCEPT ![t.id] = t.row]
  /\ AtTill(r, IF t.row.amount > 0 /\ t.auto THEN [t EXCEPT !.pc = "job"]
               ELSE AtEase)
  /\ UNCHANGED <<charge, mapped, strays>>

SavePayment(r) ==
  LET t == till[r] IN
  /\ t.pc = "pay"
  /\ IF pay[t.id].st # "none" \/ Conflict(t.id, t.row.job)
     THEN /\ AtTill(r, AtEase)
          /\ UNCHANGED pay
     ELSE /\ pay' = [pay EXCEPT ![t.id] = t.row]
          /\ AtTill(r, IF t.row.amount > 0 /\ t.auto
                       THEN [t EXCEPT !.pc = "job"] ELSE AtEase)
  /\ UNCHANGED <<charge, mapped, strays>>

\* jobService.create(): a Pending job on the line of the payment.
CreateJob(r) ==
  /\ till[r].pc = "job"
  /\ \E j \in Jobs :
       /\ OpenJob(j, till[r].line)
       /\ till' = [till EXCEPT ![r].pc = "link", ![r].new = j]
  /\ UNCHANGED <<charge, mapped, pay, strays>>

\* Mutant: the job is opened and the payment does not learn of it.
LinkPayment_Forgotten(r) ==
  LET t == till[r] IN
  /\ t.pc = "link"
  /\ AtTill(r, AtEase)
  /\ UNCHANGED <<charge, mapped, pay, strays>>

\* The second save(), of the row as the first one left it in memory.
LinkPayment(r) ==
  LET t == till[r] IN
  /\ t.pc = "link"
  /\ IF Conflict(t.id, t.new) THEN UNCHANGED <<pay, strays>>
     ELSE /\ pay' = [pay EXCEPT ![t.id] =
                       [t.row EXCEPT !.job = t.new, !.for = None]]
          /\ strays' = strays \union ({pay[t.id].job} \ {None})
  /\ AtTill(r, AtEase)
  /\ UNCHANGED <<charge, mapped>>

\* update(): any amount, job and line may be posted over those of the row; no
\* amount is checked, and a job_id is never taken away.
EditPayment(r, p, j, a, auto, l) ==
  /\ pay[p].st = "live"
  /\ j # None => Exists(j)
  /\ Counter(r, [AtEase EXCEPT !.pc = "edit", !.id = p, !.auto = auto, !.line = l,
       !.row = [pay[p] EXCEPT !.job = IF j = None THEN @ ELSE j, !.amount = a,
                              !.for = None]])
  /\ UNCHANGED <<charge, mapped, pay, strays>>

SaveEdit(r) ==
  LET t == till[r] IN
  /\ t.pc = "edit"
  /\ IF Conflict(t.id, t.row.job)
     THEN /\ AtTill(r, AtEase)
          /\ UNCHANGED <<pay, strays>>
     ELSE /\ pay' = [pay EXCEPT ![t.id] = t.row]
          /\ strays' = strays \union
               IF pay[t.id].job # t.row.job THEN {pay[t.id].job} \ {None} ELSE {}
          /\ AtTill(r, IF t.row.amount > 0 /\ t.row.job = None /\ t.auto
                       THEN [t EXCEPT !.pc = "job"] ELSE AtEase)
  /\ UNCHANGED <<charge, mapped>>

\* remove(): the row stays, and so does the job it names.
RemovePayment(r, p) ==
  /\ pay[p].st = "live"
  /\ Counter(r, [AtEase EXCEPT !.pc = "void", !.id = p, !.row = pay[p]])
  /\ UNCHANGED <<charge, mapped, pay, strays>>

VoidPayment(r) ==
  LET t == till[r] IN
  /\ t.pc = "void"
  /\ IF Conflict(t.id, t.row.job) THEN UNCHANGED <<pay, strays>>
     ELSE /\ pay' = [pay EXCEPT ![t.id] = [t.row EXCEPT !.st = "deleted"]]
          /\ strays' = strays \union
               IF pay[t.id].job # t.row.job THEN {pay[t.id].job} \ {None} ELSE {}
  /\ AtTill(r, AtEase)
  /\ UNCHANGED <<charge, mapped>>

-----------------------------------------------------------------------------
(* JobIntakeService, JobService.setCharge and ChargeService.               *)

\* createFromIntake(): the line is looked up, the rest is one transaction.  An
\* intake free of charge records a payment and opens no job.
StartIntake(r, l, a, paid) ==
  /\ l = 0 \/ l \in LiveLines
  /\ paid \/ a = 0
  /\ Counter(r, [AtEase EXCEPT !.pc = "intake", !.line = l, !.auto = paid,
                               !.row = [NoPay EXCEPT !.st = "live", !.amount = a]])
  /\ UNCHANGED <<charge, mapped, pay, strays>>

CommitIntake(r) ==
  LET t == till[r] IN
  /\ t.pc = "intake"
  /\ NextId <= MaxPay
  /\ till' = [till EXCEPT ![r] = AtEase]
  /\ \/ /\ ~ t.auto
        /\ pay' = [pay EXCEPT ![NextId] = t.row]
        /\ UNCHANGED mvars
     \/ /\ t.auto
        /\ \E j \in Jobs :
             /\ OpenJob(j, t.line)
             /\ pay' = [pay EXCEPT ![NextId] = [t.row EXCEPT !.job = j]]
  /\ UNCHANGED <<charge, mapped, strays>>

\* setCharge(): allowed on a job that has been paid.
SetCharge(r, j, h) ==
  /\ Exists(j)
  /\ h # None => charge[h] # 0
  /\ Counter(r, AtEase)
  /\ mapped' = [mapped EXCEPT ![j] = h]
  /\ UNCHANGED <<charge, pay, strays>>

\* create() of a charge for a combination without one, update() and remove().
WriteCharge(r, h, a) ==
  /\ charge[h] # a
  /\ charge[h] # 0 \/ h # "other"
  /\ Counter(r, AtEase)
  /\ charge' = [charge EXCEPT ![h] = a]
  /\ UNCHANGED <<mapped, pay, strays>>

CutDesk(r) ==
  LET t == till[r] IN
  /\ t.pc # "idle"
  /\ cuts < CutLimit
  /\ cuts' = cuts + 1
  /\ till' = [till EXCEPT ![r] = AtEase]
  /\ strays' = IF t.pc = "link" THEN strays \union {t.new} ELSE strays
  /\ UNCHANGED masters
  /\ UNCHANGED <<job, calls, charge, mapped, pay>>

-----------------------------------------------------------------------------
InitDesk ==
  /\ \E a \in 1 .. MaxPrice :
       charge = [h \in Charges |-> IF h = "own" THEN a ELSE 1]
  /\ mapped = [j \in Jobs |-> None]
  /\ pay = [p \in Pays |-> NoPay]
  /\ till = [r \in Requests |-> AtEase]
  /\ strays = {j \in Jobs : Exists(j)}

\* The requests of PaymentsController, and how they go on.
PaymentRequest(r) ==
  \/ /\ Free(r)
     /\ \/ \E j \in Jobs \union {None}, a \in Amounts, auto \in BOOLEAN, l \in {0, 1} :
             \/ Collect(r, j, a, auto, l)
             \/ \E p \in Pays : EditPayment(r, p, j, a, auto, l)
        \/ \E p \in Pays : RemovePayment(r, p)
  \/ NumberPayment(r) \/ SavePayment(r) \/ CreateJob(r) \/ LinkPayment(r)
  \/ SaveEdit(r) \/ VoidPayment(r)

\* Those of JobController that take in a vehicle or choose what it is charged.
IntakeRequest(r) ==
  \/ /\ Free(r)
     /\ \/ \E l \in 0 .. NLines, a \in Amounts, paid \in BOOLEAN :
             StartIntake(r, l, a, paid)
        \/ \E j \in Jobs, h \in Charges \union {None} : SetCharge(r, j, h)
  \/ CommitIntake(r)

\* Those of ChargeController.
ChargeRequest(r) ==
  /\ Free(r)
  /\ \E h \in Charges, a \in Amounts : WriteCharge(r, h, a)

Desk(r) == PaymentRequest(r) \/ IntakeRequest(r) \/ ChargeRequest(r) \/ CutDesk(r)

EditMasters(r) ==
  /\ till[r].pc = "idle"
  /\ LineRequest(r) \/ CentreRequest(r) \/ DeviceRequest(r) \/ CutMasters(r)
  /\ UNCHANGED dvars

EndJob == \E j \in Jobs : CloseJob(j) /\ UNCHANGED dvars

Init == InitMasters /\ InitDesk

Next == EndJob \/ \E r \in Requests : EditMasters(r) \/ Desk(r)

Spec == Init /\ [][Next]_cvars

-----------------------------------------------------------------------------
(* Properties.                                                             *)

\* assertAmountMatchesCharge and "One payment per job": the payments recorded
\* for a job through create() never add up to more than a price one of them
\* was checked against, whichever requests run side by side and however the
\* charges change.  Given up: payments edited by hand, and payments that
\* opened another job and left theirs, which may then be collected again.
NotChargedTwice == \A j \in Jobs :
  LET paid == {p \in Pays : pay[p].st = "live" /\ pay[p].for = j}
  IN (\A p \in paid : pay[p].total # 0)
     => \A p \in paid : \E q \in paid :
          MapThenSumSet(LAMBDA x : pay[x].amount, paid) <= pay[q].total

\* Every job the desk opens is named by a payment as soon as its request is
\* done, unless the request was cut, another saved its copy of the payment, or
\* the payment was given to another job.
OpenedJobsPaid == \A j \in Jobs :
  job[j].st # "none" =>
    \/ \E p \in Pays : pay[p].job = j
    \/ \E r \in Requests : till[r].pc = "link" /\ till[r].new = j
    \/ j \in strays

\* The money of a job is taken once, and no job of the desk goes without.
CashierInv == TypeOK /\ NotChargedTwice /\ OpenedJobsPaid

=============================================================================
