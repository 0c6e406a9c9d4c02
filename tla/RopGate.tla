------------------------------ MODULE RopGate -------------------------------
(***************************************************************************)
(* The ROP gate: how a captured vehicle comes to be verified. ROP is the   *)
(* government register; a verification row keeps what it said of a plate.  *)
(* Rows are written by the pipeline of every capture (executePostCapture), *)
(* by reception's plate lookup, by the retry sweep and the re-fetch button *)
(* (both refetch), and by operators who edit rows by hand. A Fetched row   *)
(* validates its capture (applyRopFetched), which may then become a job.   *)
(*                                                                         *)
(* One plate, "own", is captured; ROP may answer with the record of        *)
(* another, "other". Saving a row writes every column that differs from    *)
(* the table, what others wrote since it was read included.                *)
(***************************************************************************)
EXTENDS Integers, FiniteSets

CONSTANTS
  MaxCaptures,  \* bound: captures of the plate
  MaxRows,      \* bound: verification rows
  Buttons,      \* concurrent re-fetch requests of operators
  Sweep,        \* the retry sweep
  LastDay,      \* bound: Oman days, 0 .. LastDay
  FaultLimit,   \* bound: database errors
  EditLimit     \* bound: rows entered, edited or deleted by hand

Captures == 1 .. MaxCaptures
Rows == 1 .. MaxRows
None == 0
Fetchers == Buttons \union {Sweep}

ASSUME GateAssumption ==
  /\ MaxCaptures \in Nat /\ MaxRows \in Nat /\ LastDay \in Nat
  /\ FaultLimit \in Nat /\ EditLimit \in Nat
  /\ Sweep \notin Buttons

VARIABLES
  today,    \* the Oman day
  rop,      \* rop_verifications, in the order of created_at
  capture,  \* anpr_captures, with the local state of their pipelines
  lookup,   \* reception's plate lookup is between its read and its save
  fetcher,  \* local state of the sweep and of the re-fetch requests
  faults,   \* how many database errors happened
  edits     \* how many rows were changed by hand

vars == <<today, rop, capture, lookup, fetcher, faults, edits>>

Days == 0 .. LastDay
Plates == {"own", "other"}

\* about: whose details the row carries.
Row == [status : {"none", "Pending", "Fetched", "Failed", "deleted"},
        reg_no : Plates, about : Plates \union {"nothing"},
        capture : Captures \union {None}, day : Days]

NoRow == [status |-> "none", reg_no |-> "own", about |-> "nothing",
          capture |-> None, day |-> 0]

\* row: the row read, id its name; rop: rop_verification_id of the capture.
Capture ==
  [pc : {"idle", "read", "fetch", "insert", "save", "apply", "fault", "done"},
   row : Row, id : Rows \union {None}, day : Days, validated : BOOLEAN,
   rop : Rows \union {None}]

\* running and todo are those of the sweep's tick.
Fetcher ==
  [pc : {"idle", "fetch", "save", "apply"}, row : Row, id : Rows \union {None},
   running : BOOLEAN, todo : SUBSET Rows]

TypeOK ==
  /\ today \in Days
  /\ rop \in [Rows -> Row]
  /\ capture \in [Captures -> Capture]
  /\ lookup \in BOOLEAN
  /\ fetcher \in [Fetchers -> Fetcher]
  /\ faults \in 0 .. FaultLimit
  /\ edits \in 0 .. EditLimit

Live(r) == rop[r].status \notin {"none", "deleted"}

\* findLatestByRegNo("own", within): the newest row, if there is one.
Latest(S) == {r \in S : \A q \in S : q <= r}
OfPlate == {r \in Rows : Live(r) /\ rop[r].reg_no = "own"}
LatestByRegNo == Latest(OfPlate)
LatestByRegNoWithin(d) == Latest({r \in OfPlate : rop[r].day = d})

\* The id of the next row inserted.
Fresh == {r \in Rows : /\ rop[r].status = "none"
                       /\ \A q \in Rows : q < r => rop[q].status # "none"}

\* fetchByPlate never throws: no record, an outage and a missing URL are all
\* null. A record may name another plate than the one asked for.
Answers(plate) ==
  {"nothing", plate} \union (IF plate = "own" THEN {"other"} ELSE {})

-----------------------------------------------------------------------------
(* The pipeline of a capture: executePostCapture.                          *)

Arrive(c) ==
  /\ capture[c].pc = "idle"
  /\ \A d \in Captures : d < c => capture[d].pc # "idle"
  /\ capture' = [capture EXCEPT ![c] = [@ EXCEPT !.pc = "read", !.day = today]]
  /\ UNCHANGED <<today, rop, lookup, fetcher, faults, edits>>

\* Mutant: a row of any day is reused.
ReadOnFile_AnyDay(c) ==
  /\ capture[c].pc = "read"
  /\ \/ /\ LatestByRegNo = {}
        /\ capture' = [capture EXCEPT ![c].pc = "fetch"]
     \/ \E r \in LatestByRegNo :
          capture' = [capture EXCEPT ![c] = [@ EXCEPT
            !.pc = "save", !.row = rop[r], !.id = r]]
  /\ UNCHANGED <<today, rop, lookup, fetcher, faults, edits>>

\* A row of the capture's own day is reused instead of asking ROP again.
ReadOnFile(c) ==
  LET onFile == LatestByRegNoWithin(capture[c].day) IN
  /\ capture[c].pc = "read"
  /\ \/ /\ onFile = {}
        /\ capture' = [capture EXCEPT ![c].pc = "fetch"]
     \/ \E r \in onFile :
          capture' = [capture EXCEPT ![c] = [@ EXCEPT
            !.pc = "save", !.row = rop[r], !.id = r]]
  /\ UNCHANGED <<today, rop, lookup, fetcher, faults, edits>>

\* Mutant: the row names the plate of the answer only, not the capture's.
FetchByPlate_NoPlate(c) ==
  /\ capture[c].pc = "fetch"
  /\ \E answer \in Answers("own") :
       capture' = [capture EXCEPT ![c] = [@ EXCEPT !.pc = "insert",
         !.row = [NoRow EXCEPT
           !.status = CASE answer = "nothing" -> "Pending"
                        [] answer = "own" -> "Fetched"
                        [] answer = "other" -> "Failed",
           !.reg_no = answer, !.about = answer, !.capture = c]]]
  /\ UNCHANGED <<today, rop, lookup, fetcher, faults, edits>>

\* No answer leaves the row Pending; one of another plate makes it Failed, and
\* names that plate.
FetchByPlate(c) ==
  /\ capture[c].pc = "fetch"
  /\ \E answer \in Answers("own") :
       capture' = [capture EXCEPT ![c] = [@ EXCEPT !.pc = "insert",
         !.row = [NoRow EXCEPT
           !.status = CASE answer = "nothing" -> "Pending"
                        [] answer = "own" -> "Fetched"
                        [] answer = "other" -> "Failed",
           !.reg_no = IF answer = "other" THEN "other" ELSE "own",
           !.about = answer, !.capture = c]]]
  /\ UNCHANGED <<today, rop, lookup, fetcher, faults, edits>>

\* Only a Fetched row goes on to validate the capture.
Saved(c, status, id) ==
  capture' = [capture EXCEPT ![c] = [@ EXCEPT
    !.pc = IF status = "Fetched" THEN "apply" ELSE "done", !.id = id]]

InsertRow(c) ==
  /\ capture[c].pc = "insert"
  /\ \E r \in Fresh :
       /\ rop' = [rop EXCEPT ![r] = [capture[c].row EXCEPT !.day = today]]
       /\ Saved(c, capture[c].row.status, r)
  /\ UNCHANGED <<today, lookup, fetcher, faults, edits>>

\* The row on file is of the plate, hence a match: it is saved as Fetched,
\* whatever its status was.
SaveOnFile(c) ==
  /\ capture[c].pc = "save"
  /\ rop' = [rop EXCEPT ![capture[c].id] = [capture[c].row EXCEPT
       !.status = "Fetched",
       !.capture = IF @ = None THEN c ELSE @]]
  /\ Saved(c, "Fetched", capture[c].id)
  /\ UNCHANGED <<today, lookup, fetcher, faults, edits>>

\* applyRopFetched, from here as from the other writers.
Validate(c, r) == [capture EXCEPT ![c] = [@ EXCEPT !.validated = TRUE, !.rop = r]]

ApplyFetched(c) ==
  /\ capture[c].pc = "apply"
  /\ capture' = [Validate(c, capture[c].id) EXCEPT ![c].pc = "done"]
  /\ UNCHANGED <<today, rop, lookup, fetcher, faults, edits>>

\* A database error in any of these steps: the attempt is recorded as a
\* Failed row of its own.
PipelineFault(c) ==
  /\ faults < FaultLimit
  /\ capture[c].pc \in {"read", "insert", "save", "apply"}
  /\ capture' = [capture EXCEPT ![c].pc = "fault"]
  /\ faults' = faults + 1
  /\ UNCHANGED <<today, rop, lookup, fetcher, edits>>

RecordFailed(c) ==
  /\ capture[c].pc = "fault"
  /\ \E r \in Fresh :
       rop' = [rop EXCEPT ![r] = [NoRow EXCEPT
         !.status = "Failed", !.capture = c, !.day = today]]
  /\ capture' = [capture EXCEPT ![c].pc = "done"]
  /\ UNCHANGED <<today, lookup, fetcher, faults, edits>>

Pipeline(c) ==
  \/ Arrive(c) \/ ReadOnFile(c) \/ FetchByPlate(c) \/ InsertRow(c)
  \/ SaveOnFile(c) \/ ApplyFetched(c) \/ PipelineFault(c) \/ RecordFailed(c)

-----------------------------------------------------------------------------
(* AppointmentService.resolveByPlate: reception asks before the car came.  *)

StartLookup ==
  /\ ~ lookup
  /\ LatestByRegNo = {}
  /\ lookup' = TRUE
  /\ UNCHANGED <<today, rop, capture, fetcher, faults, edits>>

\* An answer is kept as Fetched, under the plate it names.
FinishLookup ==
  /\ lookup
  /\ lookup' = FALSE
  /\ \/ UNCHANGED rop
     \/ \E answer \in Answers("own") \ {"nothing"}, r \in Fresh :
          rop' = [rop EXCEPT ![r] = [NoRow EXCEPT
            !.status = "Fetched", !.reg_no = answer, !.about = answer,
            !.day = today]]
  /\ UNCHANGED <<today, capture, fetcher, faults, edits>>

-----------------------------------------------------------------------------
(* RopVerificationService.refetch, for an operator and for the sweep.      *)

FetcherIdle == [pc |-> "idle", row |-> NoRow, id |-> None, running |-> FALSE,
                todo |-> {}]

\* findOne; a row that is Fetched already is refused.
StartRefetch(f, r) ==
  fetcher' = [fetcher EXCEPT ![f] = [@ EXCEPT
    !.pc = "fetch", !.row = rop[r], !.id = r, !.todo = fetcher[f].todo \ {r}]]

PressButton(f, r) ==
  /\ fetcher[f].pc = "idle"
  /\ Live(r)
  /\ rop[r].status # "Fetched"
  /\ StartRefetch(f, r)
  /\ UNCHANGED <<today, rop, capture, lookup, faults, edits>>

\* findFailedWithin today; a tick that finds another running does nothing.
FailedToday == {r \in Rows : rop[r].status = "Failed" /\ rop[r].day = today}

SweepTick ==
  /\ ~ fetcher[Sweep].running
  /\ FailedToday # {}
  /\ fetcher' = [fetcher EXCEPT ![Sweep] = [@ EXCEPT
       !.running = TRUE, !.todo = FailedToday]]
  /\ UNCHANGED <<today, rop, capture, lookup, faults, edits>>

\* The rows that failed, oldest first.
SweepNext(r) ==
  /\ fetcher[Sweep].pc = "idle"
  /\ r \in fetcher[Sweep].todo
  /\ \A q \in fetcher[Sweep].todo : r <= q
  /\ IF Live(r) /\ rop[r].status # "Fetched"
     THEN StartRefetch(Sweep, r)
     ELSE fetcher' = [fetcher EXCEPT ![Sweep].todo = @ \ {r}]
  /\ UNCHANGED <<today, rop, capture, lookup, faults, edits>>

\* Mutant: the flag is not reset when a tick ends.
SweepEnd_StillRunning ==
  /\ fetcher[Sweep].running
  /\ fetcher[Sweep].pc = "idle"
  /\ fetcher[Sweep].todo = {}
  /\ UNCHANGED vars

SweepEnd ==
  /\ fetcher[Sweep].running
  /\ fetcher[Sweep].pc = "idle"
  /\ fetcher[Sweep].todo = {}
  /\ fetcher' = [fetcher EXCEPT ![Sweep].running = FALSE]
  /\ UNCHANGED <<today, rop, capture, lookup, faults, edits>>

\* The fetcher is done with its row; a sweep goes on with its next.
Release(f) == [fetcher EXCEPT ![f] = [@ EXCEPT
                 !.pc = "idle", !.row = NoRow, !.id = None]]

\* No answer, or one of another plate: the row is left as it is.
RefetchMissed(f) ==
  /\ fetcher[f].pc = "fetch"
  /\ fetcher' = Release(f)
  /\ UNCHANGED <<today, rop, capture, lookup, faults, edits>>

\* An answer of the plate asked for, which is the one the row names.
RefetchAnswered(f) ==
  /\ fetcher[f].pc = "fetch"
  /\ fetcher' = [fetcher EXCEPT ![f].pc = "save"]
  /\ UNCHANGED <<today, rop, capture, lookup, faults, edits>>

SaveRefetched(f) ==
  LET row == fetcher[f].row IN
  /\ fetcher[f].pc = "save"
  /\ rop' = [rop EXCEPT ![fetcher[f].id] =
               [row EXCEPT !.status = "Fetched", !.about = row.reg_no]]
  /\ fetcher' = IF row.capture = None THEN Release(f)
                ELSE [fetcher EXCEPT ![f].pc = "apply"]
  /\ UNCHANGED <<today, capture, lookup, faults, edits>>

ResumeCapture(f) ==
  /\ fetcher[f].pc = "apply"
  /\ capture' = Validate(fetcher[f].row.capture, fetcher[f].id)
  /\ fetcher' = Release(f)
  /\ UNCHANGED <<today, rop, lookup, faults, edits>>

\* "One bad plate must not stop the rest of the sweep."
RefetchFault(f) ==
  /\ faults < FaultLimit
  /\ fetcher[f].pc \in {"save", "apply"}
  /\ fetcher' = Release(f)
  /\ faults' = faults + 1
  /\ UNCHANGED <<today, rop, capture, lookup, edits>>

Refetch(f) ==
  \/ RefetchMissed(f) \/ RefetchAnswered(f) \/ SaveRefetched(f)
  \/ ResumeCapture(f) \/ RefetchFault(f)

SweepStep ==
  \/ SweepTick \/ SweepEnd \/ \E r \in Rows : SweepNext(r)

-----------------------------------------------------------------------------
(* Operators: create, update and remove a row. What they enter is about    *)
(* the vehicle in front of them. A request is one step.                    *)

Edit == edits < EditLimit /\ edits' = edits + 1

EnterRow(c) ==
  /\ Edit
  /\ capture[c].pc # "idle"
  /\ \E r \in Fresh :
       /\ rop' = [rop EXCEPT ![r] = [NoRow EXCEPT
            !.status = "Fetched", !.about = "own", !.capture = c,
            !.day = today]]
       /\ capture' = Validate(c, r)
  /\ UNCHANGED <<today, lookup, fetcher, faults>>

EditRow(r) ==
  /\ Edit
  /\ Live(r)
  /\ \E status \in {"Pending", "Fetched", "Failed"} :
       /\ rop' = [rop EXCEPT ![r] = [@ EXCEPT
            !.status = status, !.reg_no = "own", !.about = "own"]]
       /\ capture' = IF status # "Fetched" \/ rop[r].capture = None THEN capture
                     ELSE Validate(rop[r].capture, r)
  /\ UNCHANGED <<today, lookup, fetcher, faults>>

RemoveRow(r) ==
  /\ Edit
  /\ Live(r)
  /\ rop' = [rop EXCEPT ![r].status = "deleted"]
  /\ UNCHANGED <<today, capture, lookup, fetcher, faults>>

NewDay ==
  /\ today < LastDay
  /\ today' = today + 1
  /\ UNCHANGED <<rop, capture, lookup, fetcher, faults, edits>>

-----------------------------------------------------------------------------
Init ==
  /\ today = 0
  /\ rop = [r \in Rows |-> NoRow]
  /\ capture = [c \in Captures |->
       [pc |-> "idle", row |-> NoRow, id |-> None, day |-> 0,
        validated |-> FALSE, rop |-> None]]
  /\ lookup = FALSE
  /\ fetcher = [f \in Fetchers |-> FetcherIdle]
  /\ faults = 0
  /\ edits = 0

Next ==
  \/ \E c \in Captures : Pipeline(c) \/ EnterRow(c)
  \/ StartLookup \/ FinishLookup
  \/ SweepStep
  \/ \E f \in Buttons, r \in Rows : PressButton(f, r)
  \/ \E f \in Fetchers : Refetch(f)
  \/ \E r \in Rows : EditRow(r) \/ RemoveRow(r)
  \/ NewDay

Spec == Init /\ [][Next]_vars

\* The sweep's interval keeps firing, a tick goes on to its end, and ROP
\* answers now and then.
Fairness ==
  /\ WF_vars(SweepStep)
  /\ WF_vars(Refetch(Sweep))
  /\ SF_vars(RefetchAnswered(Sweep))
FairSpec == Spec /\ Fairness

-----------------------------------------------------------------------------
(* Properties.                                                             *)

\* A capture is never verified by a row of an earlier day: "Across days it
\* must NOT" be reused (findLatestByRegNo). A row saved just after midnight
\* is of the next day.
FreshRecord ==
  \A c \in Captures : capture[c].validated =>
    rop[capture[c].rop].day >= capture[c].day

\* "Most failures are transient ... so a slow sweep clears them on its own
\* while the car is still on site": a Failed row is fetched in the end, unless
\* its day passes or an operator deletes it (RopRetrySweepService).
FailedClears ==
  \A r \in Rows :
    (rop[r].status = "Failed" /\ rop[r].day = today)
      ~> (rop[r].status # "Failed" \/ rop[r].day < today)

\* "ROP briefly down, a timeout" (RopRetrySweepService): an outage is no answer,
\* hence Pending and not Failed, and no sweep reads a Pending row.
PendingClears ==
  \A r \in Rows :
    (rop[r].status = "Pending" /\ rop[r].day = today)
      ~> (rop[r].status # "Pending" \/ rop[r].day < today)

\* "ROP is the gate: only now, with the vehicle present AND verified" - what
\* verified a capture carries an answer of ROP or of an operator.
VerifiedOnAnswer ==
  \A c \in Captures : capture[c].validated =>
    rop[capture[c].rop].about # "nothing"

\* "API data but plate mismatch -> Failed (does not correspond)": no capture
\* is verified by the record of another vehicle.
VerifiedOnOwnRecord ==
  \A c \in Captures : capture[c].validated =>
    rop[capture[c].rop].about # "other"

=============================================================================
