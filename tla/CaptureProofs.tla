---------------------------- MODULE CaptureProofs ----------------------------
(***************************************************************************)
(* Proofs about what becomes of a capture: the rows that verify it         *)
(* (RopGate), and how it got to be one (CaptureIngest), for every value of *)
(* the constants of both.                                                  *)
(***************************************************************************)
EXTENDS RopGate, CaptureIngest, TLAPS, WellFoundedInduction

-----------------------------------------------------------------------------
(* RopGate: type correctness.                                                       *)

LEMMA NoRowType == NoRow \in Row
<1>1. 0 \in Days
  BY GateAssumption DEF Days
<1> QED
  BY <1>1 DEF NoRow, Row, Plates, None

LEMMA InitType == Init => TypeOK
<1> SUFFICES ASSUME Init PROVE TypeOK
  OBVIOUS
<1>1. 0 \in Days
  BY GateAssumption DEF Days
<1>2. [pc |-> "idle", row |-> NoRow, id |-> None, day |-> 0,
       validated |-> FALSE, rop |-> None] \in Capture
  BY <1>1, NoRowType DEF Capture
<1>3. FetcherIdle \in Fetcher
  BY NoRowType DEF FetcherIdle, Fetcher
<1>4. rop \in [Rows -> Row]
  BY NoRowType DEF Init
<1>5. capture \in [Captures -> Capture]
  BY <1>2 DEF Init
<1>6. fetcher \in [Fetchers -> Fetcher]
  BY <1>3 DEF Init
<1>7. today \in Days /\ faults \in 0 .. FaultLimit /\ edits \in 0 .. EditLimit
  BY <1>1, GateAssumption DEF Init
<1>8. lookup \in BOOLEAN
  BY Zenon DEF Init
<1> QED
  BY <1>4, <1>5, <1>6, <1>7, <1>8 DEF TypeOK

LEMMA ValidateType ==
  ASSUME TypeOK, NEW c \in Captures \union {None}, NEW r \in Rows \union {None}
  PROVE  Validate(c, r) \in [Captures -> Capture]
BY DEF TypeOK, Validate, Capture

LEMMA SavedType ==
  ASSUME TypeOK, NEW c \in Captures, NEW r \in Rows \union {None},
         NEW status, Saved(c, status, r)
  PROVE  capture' \in [Captures -> Capture]
<1> capture \in [Captures -> Capture]
  BY DEF TypeOK
<1> DEFINE next == IF status = "Fetched" THEN "apply" ELSE "done"
<1>1. next \in {"apply", "done"}
  OBVIOUS
<1>2. capture' = [capture EXCEPT ![c] = [@ EXCEPT !.pc = next, !.id = r]]
  BY DEF Saved
<1> HIDE DEF next
<1> QED
  BY <1>1, <1>2 DEF Capture

\* What SaveOnFile writes.
OnFile(c) == [capture[c].row EXCEPT
  !.status = "Fetched", !.capture = IF @ = None THEN c ELSE @]

LEMMA OnFileType ==
  ASSUME NEW c \in Captures, capture[c].row \in Row
  PROVE  OnFile(c) \in Row
<1> DEFINE d == IF capture[c].row.capture = None THEN c
                ELSE capture[c].row.capture
<1>1. d \in Captures \union {None}
  BY DEF Row
<1>2. OnFile(c) = [capture[c].row EXCEPT !.status = "Fetched", !.capture = d]
  BY DEF OnFile
<1> HIDE DEF d
<1> QED
  BY <1>1, <1>2 DEF Row

LEMMA PipelineType ==
  ASSUME TypeOK, NEW c \in Captures, Pipeline(c)
  PROVE  TypeOK'
<1> capture \in [Captures -> Capture] /\ rop \in [Rows -> Row] /\ today \in Days
  BY DEF TypeOK
<1>1. CASE Arrive(c)
  BY <1>1 DEF Arrive, TypeOK, Capture
<1>2. CASE ReadOnFile(c)
  <2>1. CASE capture' = [capture EXCEPT ![c].pc = "fetch"]
    <3>1. capture' \in [Captures -> Capture]
      BY <2>1 DEF Capture
    <3> QED
      BY <1>2, <3>1 DEF ReadOnFile, TypeOK
  <2>2. ASSUME NEW r \in LatestByRegNoWithin(capture[c].day),
               capture' = [capture EXCEPT ![c] = [@ EXCEPT
                 !.pc = "save", !.row = rop[r], !.id = r]]
        PROVE  TypeOK'
    <3>1. r \in Rows /\ rop[r] \in Row
      BY DEF LatestByRegNoWithin, Latest, OfPlate
    <3>2. capture' \in [Captures -> Capture]
      BY <2>2, <3>1 DEF Capture
    <3> QED
      BY <1>2, <3>2 DEF ReadOnFile, TypeOK
  <2> QED
    BY <1>2, <2>1, <2>2 DEF ReadOnFile
<1>3. CASE FetchByPlate(c)
  <2>1. PICK answer \in Answers("own") :
          capture' = [capture EXCEPT ![c] = [@ EXCEPT !.pc = "insert",
            !.row = [NoRow EXCEPT
              !.status = CASE answer = "nothing" -> "Pending"
                           [] answer = "own" -> "Fetched"
                           [] answer = "other" -> "Failed",
              !.reg_no = IF answer = "other" THEN "other" ELSE "own",
              !.about = answer, !.capture = c]]]
    BY <1>3 DEF FetchByPlate
  <2>2. [NoRow EXCEPT
           !.status = CASE answer = "nothing" -> "Pending"
                        [] answer = "own" -> "Fetched"
                        [] answer = "other" -> "Failed",
           !.reg_no = IF answer = "other" THEN "other" ELSE "own",
           !.about = answer, !.capture = c] \in Row
    BY NoRowType DEF Answers, Row, Plates
  <2>3. capture' \in [Captures -> Capture]
    BY <2>1, <2>2 DEF Capture
  <2> QED
    BY <1>3, <2>3 DEF FetchByPlate, TypeOK
<1>4. CASE InsertRow(c)
  <2>1. PICK r \in Fresh :
          /\ rop' = [rop EXCEPT ![r] = [capture[c].row EXCEPT !.day = today]]
          /\ Saved(c, capture[c].row.status, r)
    BY <1>4 DEF InsertRow
  <2>2. [capture[c].row EXCEPT !.day = today] \in Row
    <3>1. capture[c].row \in Row
      BY DEF Capture
    <3> QED
      BY <3>1 DEF Row
  <2>3. rop' \in [Rows -> Row]
    BY <2>1, <2>2
  <2>4. capture' \in [Captures -> Capture]
    BY <2>1, SavedType DEF Fresh
  <2> QED
    BY <1>4, <2>3, <2>4 DEF InsertRow, TypeOK
<1>5. CASE SaveOnFile(c)
  <2>1. rop' \in [Rows -> Row]
    <3>1. rop' = [rop EXCEPT ![capture[c].id] = OnFile(c)]
      BY <1>5 DEF SaveOnFile, OnFile
    <3>2. OnFile(c) \in Row
      BY OnFileType DEF Capture
    <3> QED
      BY <3>1, <3>2
  <2>2. capture' \in [Captures -> Capture]
    BY <1>5, SavedType DEF SaveOnFile, Capture
  <2> QED
    BY <1>5, <2>1, <2>2 DEF SaveOnFile, TypeOK
<1>6. CASE ApplyFetched(c)
  <2>1. Validate(c, capture[c].id) \in [Captures -> Capture]
    BY ValidateType DEF Capture
  <2>2. capture' \in [Captures -> Capture]
    BY <1>6, <2>1 DEF ApplyFetched, Capture
  <2> QED
    BY <1>6, <2>2 DEF ApplyFetched, TypeOK
<1>7. CASE PipelineFault(c)
  <2>1. capture' \in [Captures -> Capture]
    BY <1>7 DEF PipelineFault, Capture
  <2>2. faults' \in 0 .. FaultLimit
    BY <1>7, GateAssumption DEF PipelineFault, TypeOK
  <2> QED
    BY <1>7, <2>1, <2>2 DEF PipelineFault, TypeOK
<1>8. CASE RecordFailed(c)
  <2>1. rop' \in [Rows -> Row]
    <3>1. [NoRow EXCEPT !.status = "Failed", !.capture = c, !.day = today]
            \in Row
      BY NoRowType DEF Row
    <3> QED
      BY <1>8, <3>1 DEF RecordFailed
  <2>2. capture' \in [Captures -> Capture]
    BY <1>8 DEF RecordFailed, Capture
  <2> QED
    BY <1>8, <2>1, <2>2 DEF RecordFailed, TypeOK
<1> QED
  BY <1>1, <1>2, <1>3, <1>4, <1>5, <1>6, <1>7, <1>8 DEF Pipeline

LEMMA ReleaseType ==
  ASSUME TypeOK, NEW f \in Fetchers
  PROVE  Release(f) \in [Fetchers -> Fetcher]
BY NoRowType DEF TypeOK, Release, Fetcher

LEMMA RefetchType ==
  ASSUME TypeOK, NEW f \in Fetchers, Refetch(f)
  PROVE  TypeOK'
<1> fetcher \in [Fetchers -> Fetcher] /\ rop \in [Rows -> Row]
  BY DEF TypeOK
<1>1. CASE RefetchMissed(f)
  BY <1>1, ReleaseType DEF RefetchMissed, TypeOK
<1>2. CASE RefetchAnswered(f)
  <2>1. fetcher' \in [Fetchers -> Fetcher]
    BY <1>2 DEF RefetchAnswered, Fetcher
  <2> QED
    BY <1>2, <2>1 DEF RefetchAnswered, TypeOK
<1>3. CASE SaveRefetched(f)
  <2>1. rop' \in [Rows -> Row]
    <3> DEFINE row == fetcher[f].row
    <3>1. row \in Row
      BY DEF Fetcher
    <3>2. [row EXCEPT !.status = "Fetched", !.about = row.reg_no] \in Row
      BY <3>1 DEF Row
    <3> QED
      BY <1>3, <3>2 DEF SaveRefetched
  <2>2. fetcher' \in [Fetchers -> Fetcher]
    <3>1. [fetcher EXCEPT ![f].pc = "apply"] \in [Fetchers -> Fetcher]
      BY DEF Fetcher
    <3> QED
      BY <1>3, <3>1, ReleaseType DEF SaveRefetched
  <2> QED
    BY <1>3, <2>1, <2>2 DEF SaveRefetched, TypeOK
<1>4. CASE ResumeCapture(f)
  <2>1. /\ fetcher[f].row.capture \in Captures \union {None}
        /\ fetcher[f].id \in Rows \union {None}
    BY DEF Fetcher, Row
  <2> QED
    BY <1>4, <2>1, ValidateType, ReleaseType DEF ResumeCapture, TypeOK
<1>5. CASE RefetchFault(f)
  <2>1. faults' \in 0 .. FaultLimit
    BY <1>5, GateAssumption DEF RefetchFault, TypeOK
  <2> QED
    BY <1>5, <2>1, ReleaseType DEF RefetchFault, TypeOK
<1> QED
  BY <1>1, <1>2, <1>3, <1>4, <1>5 DEF Refetch

LEMMA StartRefetchType ==
  ASSUME TypeOK, NEW f \in Fetchers, NEW r \in Rows, StartRefetch(f, r)
  PROVE  fetcher' \in [Fetchers -> Fetcher]
<1>1. fetcher \in [Fetchers -> Fetcher] /\ rop[r] \in Row
  BY DEF TypeOK
<1> DEFINE next == [fetcher[f] EXCEPT !.pc = "fetch", !.row = rop[r],
                                      !.id = r, !.todo = @ \ {r}]
<1>2. next \in Fetcher
  BY <1>1 DEF Fetcher
<1>3. fetcher' = [fetcher EXCEPT ![f] = next]
  BY DEF StartRefetch
<1> HIDE DEF next
<1> QED
  BY <1>1, <1>2, <1>3

LEMMA ElseType ==
  ASSUME TypeOK,
         \/ \E c \in Captures : EnterRow(c)
         \/ StartLookup \/ FinishLookup
         \/ SweepStep
         \/ \E f \in Buttons, r \in Rows : PressButton(f, r)
         \/ \E r \in Rows : EditRow(r) \/ RemoveRow(r)
         \/ NewDay
  PROVE  TypeOK'
<1> /\ fetcher \in [Fetchers -> Fetcher] /\ rop \in [Rows -> Row]
    /\ today \in Days /\ Sweep \in Fetchers /\ Buttons \subseteq Fetchers
  BY DEF TypeOK, Fetchers
<1>1. ASSUME Edit PROVE edits' \in 0 .. EditLimit
  BY <1>1, GateAssumption DEF Edit, TypeOK
<1>2. ASSUME NEW c \in Captures, EnterRow(c) PROVE TypeOK'
  <2>1. PICK r \in Fresh :
          /\ rop' = [rop EXCEPT ![r] = [NoRow EXCEPT
               !.status = "Fetched", !.about = "own", !.capture = c,
               !.day = today]]
          /\ capture' = Validate(c, r)
    BY <1>2 DEF EnterRow
  <2>2. rop' \in [Rows -> Row]
    BY <2>1, NoRowType DEF Row, Plates
  <2>3. capture' \in [Captures -> Capture]
    BY <2>1, ValidateType DEF Fresh
  <2> QED
    BY <1>1, <1>2, <2>2, <2>3 DEF EnterRow, TypeOK
<1>3. CASE StartLookup
  BY <1>3 DEF StartLookup, TypeOK
<1>4. CASE FinishLookup
  <2>1. rop' \in [Rows -> Row]
    <3>1. ASSUME NEW answer \in Answers("own") \ {"nothing"}
          PROVE  [NoRow EXCEPT !.status = "Fetched", !.reg_no = answer,
                               !.about = answer, !.day = today] \in Row
      BY NoRowType DEF Answers, Row, Plates
    <3> QED
      BY <1>4, <3>1 DEF FinishLookup
  <2> QED
    BY <1>4, <2>1 DEF FinishLookup, TypeOK
<1>5. CASE SweepStep
  <2>1. fetcher' \in [Fetchers -> Fetcher]
    <3>1. CASE SweepTick
      BY <3>1 DEF SweepTick, FailedToday, Fetcher
    <3>2. CASE SweepEnd
      BY <3>2 DEF SweepEnd, Fetcher
    <3>3. ASSUME NEW r \in Rows, SweepNext(r)
          PROVE  fetcher' \in [Fetchers -> Fetcher]
      <4>1. [fetcher EXCEPT ![Sweep].todo = @ \ {r}] \in [Fetchers -> Fetcher]
        BY DEF Fetcher
      <4> QED
        BY <3>3, <4>1, StartRefetchType DEF SweepNext
    <3> QED
      BY <1>5, <3>1, <3>2, <3>3 DEF SweepStep
  <2> QED
    BY <1>5, <2>1 DEF SweepStep, SweepTick, SweepEnd, SweepNext, TypeOK
<1>6. ASSUME NEW f \in Buttons, NEW r \in Rows, PressButton(f, r)
      PROVE  TypeOK'
  BY <1>6, StartRefetchType DEF PressButton, TypeOK
<1>7. ASSUME NEW r \in Rows, EditRow(r) PROVE TypeOK'
  <2>1. rop' \in [Rows -> Row]
    <3>1. ASSUME NEW status \in {"Pending", "Fetched", "Failed"}
          PROVE  [rop[r] EXCEPT !.status = status, !.reg_no = "own",
                                !.about = "own"] \in Row
      BY DEF Row, Plates
    <3> QED
      BY <1>7, <3>1 DEF EditRow
  <2>2. capture' \in [Captures -> Capture]
    <3>1. Validate(rop[r].capture, r) \in [Captures -> Capture]
      BY ValidateType DEF Row
    <3>2. capture \in [Captures -> Capture]
      BY DEF TypeOK
    <3> QED
      BY <1>7, <3>1, <3>2 DEF EditRow
  <2> QED
    BY <1>1, <1>7, <2>1, <2>2 DEF EditRow, TypeOK
<1>8. ASSUME NEW r \in Rows, RemoveRow(r) PROVE TypeOK'
  <2>1. rop' \in [Rows -> Row]
    BY <1>8 DEF RemoveRow, Row
  <2> QED
    BY <1>1, <1>8, <2>1 DEF RemoveRow, TypeOK
<1>9. CASE NewDay
  BY <1>9, GateAssumption DEF NewDay, TypeOK, Days
<1> QED
  BY <1>2, <1>3, <1>4, <1>5, <1>6, <1>7, <1>8, <1>9

LEMMA TypeStep == TypeOK /\ [Next]_vars => TypeOK'
<1>1. TypeOK /\ Next => TypeOK'
  BY PipelineType, RefetchType, ElseType DEF Next
<1>2. TypeOK /\ UNCHANGED vars => TypeOK'
  BY DEF TypeOK, vars
<1> QED
  BY <1>1, <1>2

\* Every column of a verification row, the verdict on a capture and the local
\* state of pipelines, sweep and re-fetch requests keep their declared types,
\* for any number of captures, rows and concurrent requests.
THEOREM GateTypeCorrect == Spec => []TypeOK
BY InitType, TypeStep, PTL DEF Spec

-----------------------------------------------------------------------------
(* FreshRecord. A row keeps its day for good, so what a pipeline or a      *)
(* re-fetch read of it stays true. The invariant says of every row, in the *)
(* table or read from it, that it is not older than the capture it names,  *)
(* and of every actor about to validate a capture that its row is not.     *)

Belongs(row) == row.capture # None =>
  /\ capture[row.capture].pc # "idle"
  /\ row.day >= capture[row.capture].day

Filed(r) == r \in Rows /\ rop[r].status # "none"

RowsFresh ==
  /\ \A c \in Captures : capture[c].day <= today
  /\ \A r \in Rows : Belongs(rop[r])

VerdictFresh(c) == capture[c].validated =>
  /\ capture[c].pc # "idle"
  /\ Filed(capture[c].rop)
  /\ rop[capture[c].rop].day >= capture[c].day

PipelineFresh(c) ==
  /\ capture[c].pc = "insert" =>
       /\ capture[c].row.status # "none"
       /\ capture[c].row.capture = c
  /\ capture[c].pc = "save" =>
       /\ Filed(capture[c].id)
       /\ capture[c].row.day = rop[capture[c].id].day
       /\ capture[c].row.day >= capture[c].day
       /\ Belongs(capture[c].row)
  /\ capture[c].pc = "apply" =>
       /\ Filed(capture[c].id)
       /\ rop[capture[c].id].day >= capture[c].day

FetcherFresh(f) == fetcher[f].pc # "idle" =>
  /\ Filed(fetcher[f].id)
  /\ fetcher[f].row.day = rop[fetcher[f].id].day
  /\ Belongs(fetcher[f].row)
  /\ fetcher[f].pc = "apply" => fetcher[f].row.capture # None

FreshInv ==
  /\ RowsFresh
  /\ \A c \in Captures : VerdictFresh(c) /\ PipelineFresh(c)
  /\ \A f \in Fetchers : FetcherFresh(f)

\* What no step takes back: a row stays in the table with its day, a capture
\* that arrived stays so with its day, and days only pass.
Lasting ==
  /\ \A r \in Rows : Filed(r) => Filed(r)' /\ rop'[r].day = rop[r].day
  /\ \A c \in Captures : capture[c].pc # "idle" =>
       capture'[c].pc # "idle" /\ capture'[c].day = capture[c].day

\* The parts that concern an actor survive every step of another.
LEMMA BelongsLasts ==
  ASSUME TypeOK, Lasting, NEW row \in Row, Belongs(row)
  PROVE  row.capture # None =>
           /\ capture'[row.capture].pc # "idle"
           /\ row.day >= capture'[row.capture].day
BY DEF Lasting, Belongs, Row

LEMMA OthersPipeline ==
  ASSUME TypeOK, Lasting, NEW c \in Captures, PipelineFresh(c),
         capture'[c].pc = capture[c].pc, capture'[c].row = capture[c].row,
         capture'[c].id = capture[c].id
  PROVE  PipelineFresh(c)'
<1>1. capture[c].row \in Row
  BY DEF TypeOK, Capture
<1>2. capture[c].pc # "idle" => capture'[c].day = capture[c].day
  BY DEF Lasting
<1>3. CASE capture[c].pc = "save"
  BY <1>1, <1>2, <1>3, BelongsLasts
  DEF PipelineFresh, Lasting, Filed, Belongs
<1>4. CASE capture[c].pc = "apply"
  BY <1>2, <1>4 DEF PipelineFresh, Lasting, Filed
<1>5. CASE capture[c].pc \notin {"save", "apply"}
  BY <1>5 DEF PipelineFresh
<1> QED
  BY <1>3, <1>4, <1>5

LEMMA OthersFetcher ==
  ASSUME TypeOK, Lasting, NEW f \in Fetchers, FetcherFresh(f),
         fetcher'[f].pc = fetcher[f].pc, fetcher'[f].row = fetcher[f].row,
         fetcher'[f].id = fetcher[f].id
  PROVE  FetcherFresh(f)'
<1>1. fetcher[f].row \in Row
  BY DEF TypeOK, Fetcher
<1>2. CASE fetcher[f].pc # "idle"
  BY <1>1, <1>2, BelongsLasts DEF FetcherFresh, Lasting, Filed, Belongs
<1>3. CASE fetcher[f].pc = "idle"
  BY <1>3 DEF FetcherFresh
<1> QED
  BY <1>2, <1>3

LEMMA OthersVerdict ==
  ASSUME TypeOK, Lasting, NEW c \in Captures, VerdictFresh(c),
         capture'[c].validated = capture[c].validated,
         capture'[c].rop = capture[c].rop
  PROVE  VerdictFresh(c)'
BY DEF VerdictFresh, Lasting, Filed

SameVerdict(c) == /\ capture'[c].validated = capture[c].validated
                  /\ capture'[c].rop = capture[c].rop
SamePipeline(c) == /\ capture'[c].pc = capture[c].pc
                   /\ capture'[c].row = capture[c].row
                   /\ capture'[c].id = capture[c].id
SameFetcher(f) == /\ fetcher'[f].pc = fetcher[f].pc
                  /\ fetcher'[f].row = fetcher[f].row
                  /\ fetcher'[f].id = fetcher[f].id

\* A step has to be looked at where it changes something.
LEMMA FreshByParts ==
  ASSUME TypeOK, FreshInv, Lasting, RowsFresh',
         \A c \in Captures : SameVerdict(c) \/ VerdictFresh(c)',
         \A c \in Captures : SamePipeline(c) \/ PipelineFresh(c)',
         \A f \in Fetchers : SameFetcher(f) \/ FetcherFresh(f)'
  PROVE  FreshInv'
<1>1. ASSUME NEW c \in Captures PROVE VerdictFresh(c)'
  BY <1>1, OthersVerdict DEF FreshInv, SameVerdict
<1>2. ASSUME NEW c \in Captures PROVE PipelineFresh(c)'
  BY <1>2, OthersPipeline DEF FreshInv, SamePipeline
<1>3. ASSUME NEW f \in Fetchers PROVE FetcherFresh(f)'
  BY <1>3, OthersFetcher DEF FreshInv, SameFetcher
<1> QED
  BY <1>1, <1>2, <1>3 DEF FreshInv

DayKept(c) == /\ capture'[c].day = capture[c].day
              /\ capture[c].pc # "idle" => capture'[c].pc # "idle"

\* A step that writes no row and leaves the days of captures.
LEMMA RowsUntouched ==
  ASSUME TypeOK, FreshInv, rop' = rop, today' = today,
         \A c \in Captures : DayKept(c)
  PROVE  Lasting /\ RowsFresh'
<1>1. Lasting
  <2>1. \A r \in Rows : Filed(r) => Filed(r)' /\ rop'[r].day = rop[r].day
    BY DEF Filed
  <2> QED
    BY <2>1 DEF Lasting, DayKept
<1>2. ASSUME NEW r \in Rows PROVE Belongs(rop[r])'
  BY <1>1, BelongsLasts DEF TypeOK, FreshInv, RowsFresh, Belongs
<1>3. \A c \in Captures : capture'[c].day <= today'
  BY DEF FreshInv, RowsFresh, DayKept
<1> QED
  BY <1>1, <1>2, <1>3 DEF RowsFresh

\* A row enters the table, or is saved over with the day it had.
LEMMA RowWritten ==
  ASSUME TypeOK, FreshInv, NEW r \in Rows, NEW row \in Row,
         rop' = [rop EXCEPT ![r] = row], today' = today,
         row.status # "none",
         rop[r].status = "none" \/ row.day = rop[r].day,
         Belongs(row),
         \A c \in Captures : DayKept(c)
  PROVE  Lasting /\ RowsFresh'
<1>1. rop' \in [Rows -> Row]
  BY DEF TypeOK
<1>2. rop'[r] = row /\ \A q \in Rows \ {r} : rop'[q] = rop[q]
  BY DEF TypeOK
<1>3. Lasting
  <2>1. \A q \in Rows : Filed(q) => Filed(q)' /\ rop'[q].day = rop[q].day
    BY <1>2 DEF Filed
  <2> QED
    BY <2>1 DEF Lasting, DayKept
<1>4. ASSUME NEW q \in Rows PROVE Belongs(rop[q])'
  <2>1. CASE q = r
    BY <1>2, <1>3, <2>1, BelongsLasts DEF Belongs
  <2>2. CASE q # r
    BY <1>2, <1>3, <2>2, BelongsLasts
    DEF TypeOK, FreshInv, RowsFresh, Belongs
  <2> QED
    BY <2>1, <2>2
<1>5. \A c \in Captures : capture'[c].day <= today'
  BY DEF FreshInv, RowsFresh, DayKept
<1> QED
  BY <1>3, <1>4, <1>5 DEF RowsFresh

LEMMA InitFresh == Init => FreshInv
<1> SUFFICES ASSUME Init PROVE FreshInv
  OBVIOUS
<1>1. RowsFresh
  BY DEF Init, NoRow, RowsFresh, Belongs
<1>2. \A c \in Captures : VerdictFresh(c) /\ PipelineFresh(c)
  BY DEF Init, VerdictFresh, PipelineFresh
<1>3. \A f \in Fetchers : FetcherFresh(f)
  BY DEF Init, FetcherIdle, FetcherFresh
<1> QED
  BY <1>1, <1>2, <1>3 DEF FreshInv

LEMMA ReadPipelineFresh ==
  ASSUME TypeOK, FreshInv, NEW c \in Captures,
         Arrive(c) \/ ReadOnFile(c) \/ FetchByPlate(c) \/ PipelineFault(c)
  PROVE  FreshInv'
<1> /\ capture \in [Captures -> Capture] /\ rop \in [Rows -> Row]
    /\ today \in Days
  BY DEF TypeOK
<1>1. /\ \A d \in Captures \ {c} : capture'[d] = capture[d]
      /\ SameVerdict(c)
      /\ fetcher' = fetcher /\ rop' = rop /\ today' = today
      /\ capture'[c].pc # "idle"
  BY DEF Arrive, ReadOnFile, FetchByPlate, PipelineFault, SameVerdict, Capture
<1>2. CASE Arrive(c)
  <2>1. /\ capture[c].pc = "idle" /\ capture'[c].pc = "read"
        /\ capture'[c].day = today
    BY <1>2 DEF Arrive, Capture
  <2>2. Lasting
    BY <1>1, <2>1 DEF Lasting, Filed
  <2>3. ASSUME NEW r \in Rows PROVE Belongs(rop[r])'
    BY <1>1, <2>2, BelongsLasts DEF FreshInv, RowsFresh, Belongs
  <2>4. RowsFresh'
    <3>1. \A d \in Captures : capture'[d].day <= today'
      BY <1>1, <2>1 DEF FreshInv, RowsFresh, Days
    <3> QED
      BY <2>3, <3>1 DEF RowsFresh
  <2>5. PipelineFresh(c)'
    BY <2>1 DEF PipelineFresh
  <2> QED
    BY <1>1, <2>2, <2>4, <2>5, FreshByParts
    DEF SameVerdict, SamePipeline, SameFetcher
<1>3. CASE ReadOnFile(c) \/ FetchByPlate(c) \/ PipelineFault(c)
  <2>1. \A d \in Captures : DayKept(d)
    <3>1. capture'[c].day = capture[c].day
      <4>1. CASE ReadOnFile(c)
        BY <4>1 DEF ReadOnFile, Capture
      <4>2. CASE FetchByPlate(c)
        BY <4>2 DEF FetchByPlate, Capture
      <4>3. CASE PipelineFault(c)
        BY <4>3 DEF PipelineFault, Capture
      <4> QED
        BY <1>3, <4>1, <4>2, <4>3
    <3> QED
      BY <1>1, <3>1 DEF DayKept
  <2>2. Lasting /\ RowsFresh'
    BY <1>1, <2>1, RowsUntouched
  <2>3. PipelineFresh(c)'
    <3>1. CASE ReadOnFile(c)
      <4>1. CASE capture' = [capture EXCEPT ![c].pc = "fetch"]
        <5>1. capture'[c].pc = "fetch"
          BY <4>1 DEF Capture
        <5> QED
          BY <5>1 DEF PipelineFresh
      <4>2. ASSUME NEW r \in LatestByRegNoWithin(capture[c].day),
                   capture' = [capture EXCEPT ![c] = [@ EXCEPT
                     !.pc = "save", !.row = rop[r], !.id = r]]
            PROVE  PipelineFresh(c)'
        <5>1. /\ r \in Rows /\ rop[r].day = capture[c].day
              /\ rop[r].status # "none"
          BY DEF LatestByRegNoWithin, Latest, OfPlate, Live
        <5>2. /\ capture'[c].pc = "save" /\ capture'[c].row = rop[r]
              /\ capture'[c].id = r /\ capture'[c].day = capture[c].day
          BY <4>2 DEF Capture
        <5>3. Belongs(rop[r])'
          BY <2>2, <5>1 DEF RowsFresh
        <5>4. capture[c].day \in Int
          BY DEF Capture, Days
        <5> QED
          BY <1>1, <5>1, <5>2, <5>3, <5>4 DEF PipelineFresh, Filed, Belongs
      <4> QED
        BY <3>1, <4>1, <4>2 DEF ReadOnFile
    <3>2. CASE FetchByPlate(c)
      <4>1. PICK answer \in Answers("own") :
              capture' = [capture EXCEPT ![c] = [@ EXCEPT !.pc = "insert",
                !.row = [NoRow EXCEPT
                  !.status = CASE answer = "nothing" -> "Pending"
                               [] answer = "own" -> "Fetched"
                               [] answer = "other" -> "Failed",
                  !.reg_no = IF answer = "other" THEN "other" ELSE "own",
                  !.about = answer, !.capture = c]]]
        BY <3>2 DEF FetchByPlate
      <4> DEFINE status == CASE answer = "nothing" -> "Pending"
                             [] answer = "own" -> "Fetched"
                             [] answer = "other" -> "Failed"
      <4>2. status # "none"
        BY DEF Answers
      <4>3. /\ capture'[c].pc = "insert"
            /\ capture'[c].row.status = status
            /\ capture'[c].row.capture = c
        BY <4>1 DEF Capture, NoRow
      <4> HIDE DEF status
      <4> QED
        BY <4>2, <4>3 DEF PipelineFresh
    <3>3. CASE PipelineFault(c)
      <4>1. capture'[c].pc = "fault"
        BY <3>3 DEF PipelineFault, Capture
      <4> QED
        BY <4>1 DEF PipelineFresh
    <3> QED
      BY <1>3, <3>1, <3>2, <3>3
  <2> QED
    BY <1>1, <2>2, <2>3, FreshByParts DEF SameVerdict, SamePipeline, SameFetcher
<1> QED
  BY <1>2, <1>3

LEMMA WritePipelineFresh ==
  ASSUME TypeOK, FreshInv, NEW c \in Captures,
         InsertRow(c) \/ SaveOnFile(c) \/ ApplyFetched(c) \/ RecordFailed(c)
  PROVE  FreshInv'
<1> /\ capture \in [Captures -> Capture] /\ rop \in [Rows -> Row]
    /\ today \in Days
  BY DEF TypeOK
<1>1. /\ \A d \in Captures \ {c} : capture'[d] = capture[d]
      /\ fetcher' = fetcher /\ today' = today
      /\ capture[c].pc # "idle" /\ capture'[c].pc # "idle"
      /\ capture'[c].day = capture[c].day
  <2>1. CASE InsertRow(c)
    <3>1. PICK r \in Fresh : Saved(c, capture[c].row.status, r)
      BY <2>1 DEF InsertRow
    <3>2. /\ \A d \in Captures \ {c} : capture'[d] = capture[d]
          /\ capture'[c].pc # "idle" /\ capture'[c].day = capture[c].day
      BY <3>1 DEF Saved, Capture
    <3> QED
      BY <2>1, <3>2 DEF InsertRow
  <2>2. CASE SaveOnFile(c)
    BY <2>2 DEF SaveOnFile, Saved, Capture
  <2>3. CASE ApplyFetched(c)
    BY <2>3 DEF ApplyFetched, Validate, Capture
  <2>4. CASE RecordFailed(c)
    BY <2>4 DEF RecordFailed, Capture
  <2> QED
    BY <2>1, <2>2, <2>3, <2>4
<1>2. \A d \in Captures : DayKept(d)
  BY <1>1 DEF DayKept
<1>3. today >= capture[c].day /\ capture[c].day \in Int /\ today \in Int
  BY DEF FreshInv, RowsFresh, Capture, Days
<1>4. CASE InsertRow(c)
  <2>1. PICK r \in Fresh :
          /\ rop' = [rop EXCEPT ![r] = [capture[c].row EXCEPT !.day = today]]
          /\ Saved(c, capture[c].row.status, r)
    BY <1>4 DEF InsertRow
  <2>2. r \in Rows /\ rop[r].status = "none"
    BY DEF Fresh
  <2> DEFINE row == [capture[c].row EXCEPT !.day = today]
  <2>3. capture[c].row \in Row
    BY DEF Capture
  <2>4. /\ row \in Row /\ row.day = today
        /\ row.capture = c /\ row.status = capture[c].row.status
        /\ row.status # "none"
    BY <1>4, <2>3 DEF InsertRow, FreshInv, PipelineFresh, Row
  <2>5. rop' = [rop EXCEPT ![r] = row]
    BY <2>1
  <2> HIDE DEF row
  <2>6. Belongs(row)
    BY <1>1, <1>3, <2>4 DEF Belongs
  <2>7. Lasting /\ RowsFresh'
    BY <1>1, <1>2, <2>2, <2>4, <2>5, <2>6, RowWritten
  <2>8. SameVerdict(c) /\ capture'[c].id = r
        /\ capture'[c].pc \in {"apply", "done"}
    BY <2>1 DEF Saved, SameVerdict, Capture
  <2>9. PipelineFresh(c)'
    BY <1>1, <1>3, <2>2, <2>4, <2>5, <2>8 DEF PipelineFresh, Filed
  <2> QED
    BY <1>1, <2>7, <2>8, <2>9, FreshByParts
    DEF SameVerdict, SamePipeline, SameFetcher
<1>5. CASE SaveOnFile(c)
  <2> DEFINE r == capture[c].id
  <2>1. /\ r \in Rows /\ rop[r].status # "none"
        /\ capture[c].row \in Row
        /\ capture[c].row.day = rop[r].day
        /\ capture[c].row.day >= capture[c].day
        /\ Belongs(capture[c].row)
    BY <1>5 DEF SaveOnFile, FreshInv, PipelineFresh, Filed, Capture
  <2>2. /\ OnFile(c) \in Row /\ OnFile(c).status = "Fetched"
        /\ OnFile(c).day = capture[c].row.day
    BY <2>1, OnFileType DEF OnFile, Row
  <2>3. Belongs(OnFile(c))
    <3>1. CASE capture[c].row.capture = None
      <4>1. OnFile(c).capture = c
        BY <2>1, <3>1 DEF OnFile, Row
      <4> QED
        BY <1>1, <2>1, <2>2, <4>1 DEF Belongs
    <3>2. CASE capture[c].row.capture # None
      <4>1. OnFile(c).capture = capture[c].row.capture
        BY <2>1, <3>2 DEF OnFile, Row
      <4> QED
        BY <2>1, <2>2, <4>1 DEF Belongs
    <3> QED
      BY <3>1, <3>2
  <2>4. rop' = [rop EXCEPT ![r] = OnFile(c)]
    BY <1>5 DEF SaveOnFile, OnFile
  <2>5. Lasting /\ RowsFresh'
    BY <1>1, <1>2, <2>1, <2>2, <2>3, <2>4, RowWritten
  <2>6. SameVerdict(c) /\ capture'[c].id = r /\ capture'[c].pc = "apply"
    BY <1>5 DEF SaveOnFile, Saved, SameVerdict, Capture
  <2>7. PipelineFresh(c)'
    BY <1>1, <2>1, <2>2, <2>4, <2>6 DEF PipelineFresh, Filed
  <2> QED
    BY <1>1, <2>5, <2>6, <2>7, FreshByParts
    DEF SameVerdict, SamePipeline, SameFetcher
<1>6. CASE ApplyFetched(c)
  <2>1. rop' = rop
    BY <1>6 DEF ApplyFetched
  <2>2. Lasting /\ RowsFresh'
    BY <1>1, <1>2, <2>1, RowsUntouched
  <2>3. /\ capture'[c].pc = "done"
        /\ capture'[c].rop = capture[c].id
    BY <1>6 DEF ApplyFetched, Validate, Capture
  <2>4. Filed(capture[c].id) /\ rop[capture[c].id].day >= capture[c].day
    BY <1>6 DEF ApplyFetched, FreshInv, PipelineFresh
  <2>5. VerdictFresh(c)' /\ PipelineFresh(c)'
    BY <1>1, <2>1, <2>3, <2>4 DEF VerdictFresh, PipelineFresh, Filed
  <2> QED
    BY <1>1, <2>2, <2>5, FreshByParts DEF SameVerdict, SamePipeline, SameFetcher
<1>7. CASE RecordFailed(c)
  <2>1. PICK r \in Fresh : rop' = [rop EXCEPT ![r] = [NoRow EXCEPT
          !.status = "Failed", !.capture = c, !.day = today]]
    BY <1>7 DEF RecordFailed
  <2>2. r \in Rows /\ rop[r].status = "none"
    BY DEF Fresh
  <2> DEFINE row == [NoRow EXCEPT
               !.status = "Failed", !.capture = c, !.day = today]
  <2>3. /\ row \in Row /\ row.day = today
        /\ row.capture = c /\ row.status = "Failed"
    BY NoRowType DEF Row
  <2>4. rop' = [rop EXCEPT ![r] = row]
    BY <2>1
  <2> HIDE DEF row
  <2>5. Belongs(row)
    BY <1>1, <1>3, <2>3 DEF Belongs
  <2>6. Lasting /\ RowsFresh'
    BY <1>1, <1>2, <2>2, <2>3, <2>4, <2>5, RowWritten
  <2>7. SameVerdict(c) /\ capture'[c].pc = "done"
    BY <1>7 DEF RecordFailed, SameVerdict, Capture
  <2>8. PipelineFresh(c)'
    BY <2>7 DEF PipelineFresh
  <2> QED
    BY <1>1, <2>6, <2>7, <2>8, FreshByParts
    DEF SameVerdict, SamePipeline, SameFetcher
<1> QED
  BY <1>4, <1>5, <1>6, <1>7

\* A released fetcher holds nothing; the others keep what they read.
LEMMA ReleaseFresh ==
  ASSUME TypeOK, NEW f \in Fetchers, fetcher' = Release(f)
  PROVE  \A g \in Fetchers : SameFetcher(g) \/ FetcherFresh(g)'
<1>1. fetcher'[f].pc = "idle" /\ \A g \in Fetchers \ {f} : fetcher'[g] = fetcher[g]
  BY DEF TypeOK, Release, Fetcher
<1> QED
  BY <1>1 DEF SameFetcher, FetcherFresh

\* applyRopFetched with a row that names the capture.
LEMMA ValidateFresh ==
  ASSUME TypeOK, FreshInv, Lasting, NEW c \in Captures, NEW r \in Rows,
         capture' = Validate(c, r), capture[c].pc # "idle",
         Filed(r)', rop'[r].day >= capture[c].day
  PROVE  /\ \A d \in Captures : SameVerdict(d) \/ VerdictFresh(d)'
         /\ \A d \in Captures : SamePipeline(d)
<1>1. /\ \A d \in Captures \ {c} : capture'[d] = capture[d]
      /\ capture'[c].rop = r /\ capture'[c].pc = capture[c].pc
      /\ capture'[c].row = capture[c].row /\ capture'[c].id = capture[c].id
      /\ capture'[c].day = capture[c].day
  BY DEF TypeOK, Validate, Capture
<1>2. VerdictFresh(c)'
  BY <1>1 DEF VerdictFresh
<1> QED
  BY <1>1, <1>2 DEF SameVerdict, SamePipeline

LEMMA ValidateKeepsDays ==
  ASSUME TypeOK, NEW c \in Captures, NEW r, capture' = Validate(c, r)
  PROVE  \A d \in Captures : DayKept(d)
BY DEF TypeOK, Validate, Capture, DayKept

LEMMA RefetchFresh ==
  ASSUME TypeOK, FreshInv, NEW f \in Fetchers, Refetch(f)
  PROVE  FreshInv'
<1> /\ fetcher \in [Fetchers -> Fetcher] /\ rop \in [Rows -> Row]
    /\ capture \in [Captures -> Capture]
  BY DEF TypeOK
<1> DEFINE row == fetcher[f].row
           r == fetcher[f].id
<1>1. row \in Row /\ today' = today
  BY DEF Fetcher, Refetch, RefetchMissed, RefetchAnswered, SaveRefetched,
         ResumeCapture, RefetchFault
<1>2. fetcher[f].pc # "idle"
  BY DEF Refetch, RefetchMissed, RefetchAnswered, SaveRefetched,
         ResumeCapture, RefetchFault
<1>3. /\ r \in Rows /\ rop[r].status # "none" /\ row.day = rop[r].day
      /\ Belongs(row) /\ (fetcher[f].pc = "apply" => row.capture # None)
  BY <1>2 DEF FreshInv, FetcherFresh, Filed
<1>4. CASE RefetchMissed(f) \/ RefetchAnswered(f) \/ RefetchFault(f)
  <2>1. rop' = rop /\ capture' = capture
    BY <1>4 DEF RefetchMissed, RefetchAnswered, RefetchFault
  <2>2. Lasting /\ RowsFresh'
    BY <1>1, <2>1, RowsUntouched DEF DayKept
  <2>3. \A g \in Fetchers : SameFetcher(g) \/ FetcherFresh(g)'
    <3>1. CASE RefetchMissed(f) \/ RefetchFault(f)
      BY <3>1, ReleaseFresh DEF RefetchMissed, RefetchFault
    <3>2. CASE RefetchAnswered(f)
      <4>1. /\ \A g \in Fetchers \ {f} : fetcher'[g] = fetcher[g]
            /\ fetcher'[f].pc = "save" /\ fetcher'[f].row = row
            /\ fetcher'[f].id = r
        BY <3>2 DEF RefetchAnswered, Fetcher
      <4>2. FetcherFresh(f)'
        BY <1>3, <2>1, <4>1 DEF FetcherFresh, Filed, Belongs
      <4> QED
        BY <4>1, <4>2 DEF SameFetcher
    <3> QED
      BY <1>4, <3>1, <3>2
  <2> QED
    BY <2>1, <2>2, <2>3, FreshByParts DEF SameVerdict, SamePipeline
<1>5. CASE SaveRefetched(f)
  <2> DEFINE saved == [row EXCEPT !.status = "Fetched", !.about = row.reg_no]
  <2>1. /\ saved \in Row /\ saved.status = "Fetched"
        /\ saved.day = row.day /\ saved.capture = row.capture
    BY <1>1 DEF Row
  <2>2. rop' = [rop EXCEPT ![r] = saved] /\ capture' = capture
    BY <1>5 DEF SaveRefetched
  <2> HIDE DEF saved
  <2>3. Belongs(saved)
    BY <1>3, <2>1 DEF Belongs
  <2>4. Lasting /\ RowsFresh'
    BY <1>1, <1>3, <2>1, <2>2, <2>3, RowWritten DEF DayKept
  <2>5. \A g \in Fetchers : SameFetcher(g) \/ FetcherFresh(g)'
    <3>1. CASE fetcher' = Release(f)
      BY <3>1, ReleaseFresh
    <3>2. CASE row.capture # None
      <4>1. fetcher' = [fetcher EXCEPT ![f].pc = "apply"]
        BY <1>5, <3>2 DEF SaveRefetched
      <4>2. /\ \A g \in Fetchers \ {f} : fetcher'[g] = fetcher[g]
            /\ fetcher'[f].pc = "apply" /\ fetcher'[f].row = row
            /\ fetcher'[f].id = r
        BY <4>1 DEF Fetcher
      <4>3. rop'[r] = saved
        BY <1>3, <2>2
      <4>4. Belongs(row)'
        BY <1>3, <2>2, <4>2 DEF Belongs
      <4>5. FetcherFresh(f)'
        BY <1>3, <2>1, <3>2, <4>2, <4>3, <4>4 DEF FetcherFresh, Filed, Belongs
      <4> QED
        BY <4>2, <4>5 DEF SameFetcher
    <3> QED
      BY <1>5, <3>1, <3>2 DEF SaveRefetched
  <2> QED
    BY <2>2, <2>4, <2>5, FreshByParts DEF SameVerdict, SamePipeline
<1>6. CASE ResumeCapture(f)
  <2>1. PICK c \in Captures, q \in Rows : c = row.capture /\ q = r
    BY <1>1, <1>3, <1>6 DEF ResumeCapture, Row
  <2>2. /\ capture[c].pc # "idle" /\ rop[q].day >= capture[c].day
        /\ rop[q].status # "none"
    BY <1>3, <2>1 DEF Belongs, None, Captures
  <2>3. rop' = rop /\ capture' = Validate(c, q) /\ fetcher' = Release(f)
    BY <1>6, <2>1 DEF ResumeCapture
  <2>4. Lasting /\ RowsFresh'
    BY <1>1, <2>3, ValidateKeepsDays, RowsUntouched
  <2>5. Filed(q)' /\ rop'[q].day >= capture[c].day
    BY <2>2, <2>3 DEF Filed
  <2>6. /\ \A d \in Captures : SameVerdict(d) \/ VerdictFresh(d)'
        /\ \A d \in Captures : SamePipeline(d)
    BY <2>2, <2>3, <2>4, <2>5, ValidateFresh
  <2>7. \A g \in Fetchers : SameFetcher(g) \/ FetcherFresh(g)'
    BY <2>3, ReleaseFresh
  <2> QED
    BY <2>4, <2>6, <2>7, FreshByParts
<1> QED
  BY <1>4, <1>5, <1>6 DEF Refetch

\* Reading a row to ask for it again.
LEMMA StartRefetchFresh ==
  ASSUME TypeOK, FreshInv, NEW f \in Fetchers, NEW r \in Rows, Live(r),
         StartRefetch(f, r), rop' = rop, capture' = capture
  PROVE  \A g \in Fetchers : SameFetcher(g) \/ FetcherFresh(g)'
<1> DEFINE next == [fetcher[f] EXCEPT !.pc = "fetch", !.row = rop[r],
                                      !.id = r, !.todo = fetcher[f].todo \ {r}]
<1>1. fetcher \in [Fetchers -> Fetcher]
  BY DEF TypeOK
<1>2. next.pc = "fetch" /\ next.row = rop[r] /\ next.id = r
  BY <1>1 DEF Fetcher
<1>3. fetcher' = [fetcher EXCEPT ![f] = next]
  BY DEF StartRefetch
<1> HIDE DEF next
<1>4. /\ \A g \in Fetchers \ {f} : fetcher'[g] = fetcher[g]
      /\ fetcher'[f] = next
  BY <1>1, <1>3
<1>5. Belongs(rop[r])
  BY DEF FreshInv, RowsFresh
<1>6. FetcherFresh(f)'
  BY <1>2, <1>4, <1>5 DEF FetcherFresh, Filed, Live, Belongs
<1> QED
  BY <1>4, <1>6 DEF SameFetcher

LEMMA AskFresh ==
  ASSUME TypeOK, FreshInv,
         \/ SweepStep
         \/ \E f \in Buttons, r \in Rows : PressButton(f, r)
         \/ StartLookup
  PROVE  FreshInv'
<1> fetcher \in [Fetchers -> Fetcher] /\ Sweep \in Fetchers
    /\ Buttons \subseteq Fetchers
  BY DEF TypeOK, Fetchers
<1>1. rop' = rop /\ capture' = capture /\ today' = today
  BY DEF SweepStep, SweepTick, SweepEnd, SweepNext, PressButton, StartLookup
<1>2. Lasting /\ RowsFresh'
  BY <1>1, RowsUntouched DEF DayKept
<1>3. CASE StartLookup
  BY <1>1, <1>2, <1>3, FreshByParts
  DEF StartLookup, SameVerdict, SamePipeline, SameFetcher
<1>4. ASSUME NEW f \in Buttons, NEW r \in Rows, PressButton(f, r)
      PROVE  FreshInv'
  <2>1. \A g \in Fetchers : SameFetcher(g) \/ FetcherFresh(g)'
    BY <1>1, <1>4, StartRefetchFresh DEF PressButton
  <2> QED
    BY <1>1, <1>2, <2>1, FreshByParts DEF SameVerdict, SamePipeline
<1>5. CASE SweepStep
  <2>1. \A g \in Fetchers : SameFetcher(g) \/ FetcherFresh(g)'
    <3>1. CASE SweepTick
      BY <3>1 DEF SweepTick, SameFetcher, Fetcher
    <3>2. CASE SweepEnd
      BY <3>2 DEF SweepEnd, SameFetcher, Fetcher
    <3>3. ASSUME NEW r \in Rows, SweepNext(r)
          PROVE  \A g \in Fetchers : SameFetcher(g) \/ FetcherFresh(g)'
      <4>1. CASE Live(r) /\ rop[r].status # "Fetched"
        BY <1>1, <3>3, <4>1, StartRefetchFresh DEF SweepNext
      <4>2. CASE ~ (Live(r) /\ rop[r].status # "Fetched")
        BY <3>3, <4>2 DEF SweepNext, SameFetcher, Fetcher
      <4> QED
        BY <4>1, <4>2
    <3> QED
      BY <1>5, <3>1, <3>2, <3>3 DEF SweepStep
  <2> QED
    BY <1>1, <1>2, <2>1, FreshByParts DEF SameVerdict, SamePipeline
<1> QED
  BY <1>3, <1>4, <1>5

LEMMA HandFresh ==
  ASSUME TypeOK, FreshInv,
         \/ \E c \in Captures : EnterRow(c)
         \/ \E r \in Rows : EditRow(r) \/ RemoveRow(r)
         \/ FinishLookup
  PROVE  FreshInv'
<1> /\ rop \in [Rows -> Row] /\ capture \in [Captures -> Capture]
    /\ today \in Days
  BY DEF TypeOK
<1>1. today' = today /\ fetcher' = fetcher
  BY DEF EnterRow, EditRow, RemoveRow, FinishLookup
<1>2. \A f \in Fetchers : SameFetcher(f)
  BY <1>1 DEF SameFetcher
<1>3. ASSUME NEW c \in Captures, EnterRow(c) PROVE FreshInv'
  <2>1. PICK r \in Fresh :
          /\ rop' = [rop EXCEPT ![r] = [NoRow EXCEPT
               !.status = "Fetched", !.about = "own", !.capture = c,
               !.day = today]]
          /\ capture' = Validate(c, r)
    BY <1>3 DEF EnterRow
  <2>2. r \in Rows /\ rop[r].status = "none" /\ capture[c].pc # "idle"
    BY <1>3 DEF EnterRow, Fresh
  <2> DEFINE row == [NoRow EXCEPT !.status = "Fetched", !.about = "own",
                                  !.capture = c, !.day = today]
  <2>3. /\ row \in Row /\ row.day = today
        /\ row.capture = c /\ row.status = "Fetched"
    BY NoRowType DEF Row, Plates
  <2>4. rop' = [rop EXCEPT ![r] = row]
    BY <2>1
  <2> HIDE DEF row
  <2>5. today >= capture[c].day
    BY DEF FreshInv, RowsFresh, Days, Capture
  <2>6. Lasting /\ RowsFresh'
    <3>1. Belongs(row)
      BY <2>2, <2>3, <2>5 DEF Belongs
    <3> QED
      BY <1>1, <2>1, <2>2, <2>3, <2>4, <3>1, ValidateKeepsDays, RowWritten
  <2>7. Filed(r)' /\ rop'[r].day >= capture[c].day
    BY <2>2, <2>3, <2>4, <2>5 DEF Filed
  <2>8. /\ \A d \in Captures : SameVerdict(d) \/ VerdictFresh(d)'
        /\ \A d \in Captures : SamePipeline(d)
    BY <2>1, <2>2, <2>6, <2>7, ValidateFresh
  <2> QED
    BY <1>2, <2>6, <2>8, FreshByParts
<1>4. ASSUME NEW r \in Rows, EditRow(r) PROVE FreshInv'
  <2>1. PICK status \in {"Pending", "Fetched", "Failed"} :
          /\ rop' = [rop EXCEPT ![r] = [@ EXCEPT
               !.status = status, !.reg_no = "own", !.about = "own"]]
          /\ capture' = IF status # "Fetched" \/ rop[r].capture = None
                        THEN capture ELSE Validate(rop[r].capture, r)
    BY <1>4 DEF EditRow
  <2> DEFINE row == [rop[r] EXCEPT
               !.status = status, !.reg_no = "own", !.about = "own"]
  <2>2. /\ row \in Row /\ row.day = rop[r].day
        /\ row.capture = rop[r].capture /\ row.status # "none"
    BY DEF Row, Plates
  <2>3. rop' = [rop EXCEPT ![r] = row]
    BY <2>1
  <2> HIDE DEF row
  <2>4. Belongs(rop[r])
    BY DEF FreshInv, RowsFresh
  <2>5. Belongs(row)
    BY <2>2, <2>4 DEF Belongs
  <2>6. CASE capture' = capture
    <3>1. Lasting /\ RowsFresh'
      BY <1>1, <2>2, <2>3, <2>5, <2>6, RowWritten DEF DayKept
    <3> QED
      BY <1>2, <2>6, <3>1, FreshByParts DEF SameVerdict, SamePipeline
  <2>7. CASE rop[r].capture # None /\ capture' = Validate(rop[r].capture, r)
    <3>1. PICK c \in Captures : c = rop[r].capture
      BY <2>7 DEF Row
    <3>2. capture[c].pc # "idle" /\ rop[r].day >= capture[c].day
      BY <2>4, <2>7, <3>1 DEF Belongs
    <3>3. capture' = Validate(c, r)
      BY <2>7, <3>1
    <3>4. Lasting /\ RowsFresh'
      BY <1>1, <2>2, <2>3, <2>5, <3>3, ValidateKeepsDays, RowWritten
    <3>5. Filed(r)' /\ rop'[r].day >= capture[c].day
      BY <2>2, <2>3, <3>2 DEF Filed
    <3>6. /\ \A d \in Captures : SameVerdict(d) \/ VerdictFresh(d)'
          /\ \A d \in Captures : SamePipeline(d)
      BY <3>2, <3>3, <3>4, <3>5, ValidateFresh
    <3> QED
      BY <1>2, <3>4, <3>6, FreshByParts
  <2> QED
    BY <2>1, <2>6, <2>7
<1>5. ASSUME NEW r \in Rows, RemoveRow(r) PROVE FreshInv'
  <2> DEFINE row == [rop[r] EXCEPT !.status = "deleted"]
  <2>1. /\ row \in Row /\ row.day = rop[r].day
        /\ row.capture = rop[r].capture /\ row.status = "deleted"
    BY DEF Row
  <2>2. rop' = [rop EXCEPT ![r] = row] /\ capture' = capture
    BY <1>5 DEF RemoveRow
  <2> HIDE DEF row
  <2>3. Belongs(row)
    BY <2>1 DEF FreshInv, RowsFresh, Belongs
  <2>4. Lasting /\ RowsFresh'
    BY <1>1, <2>1, <2>2, <2>3, RowWritten DEF DayKept
  <2> QED
    BY <1>2, <2>2, <2>4, FreshByParts DEF SameVerdict, SamePipeline
<1>6. CASE FinishLookup
  <2>1. capture' = capture
    BY <1>6 DEF FinishLookup
  <2>2. Lasting /\ RowsFresh'
    <3>1. CASE rop' = rop
      BY <1>1, <2>1, <3>1, RowsUntouched DEF DayKept
    <3>2. ASSUME NEW answer \in Answers("own") \ {"nothing"}, NEW r \in Fresh,
                 rop' = [rop EXCEPT ![r] = [NoRow EXCEPT
                   !.status = "Fetched", !.reg_no = answer, !.about = answer,
                   !.day = today]]
          PROVE  Lasting /\ RowsFresh'
      <4> DEFINE row == [NoRow EXCEPT !.status = "Fetched", !.reg_no = answer,
                                      !.about = answer, !.day = today]
      <4>1. row \in Row /\ row.capture = None /\ row.status = "Fetched"
        BY NoRowType DEF NoRow, Answers, Row, Plates
      <4>2. rop' = [rop EXCEPT ![r] = row]
        BY <3>2
      <4> HIDE DEF row
      <4>3. r \in Rows /\ rop[r].status = "none"
        BY DEF Fresh
      <4>4. Belongs(row)
        BY <4>1 DEF Belongs
      <4> QED
        BY <1>1, <2>1, <4>1, <4>2, <4>3, <4>4, RowWritten DEF DayKept
    <3> QED
      BY <1>6, <3>1, <3>2 DEF FinishLookup
  <2> QED
    BY <1>2, <2>1, <2>2, FreshByParts DEF SameVerdict, SamePipeline
<1> QED
  BY <1>3, <1>4, <1>5, <1>6

LEMMA NewDayFresh ==
  ASSUME TypeOK, FreshInv, NewDay
  PROVE  FreshInv'
<1>1. /\ rop' = rop /\ capture' = capture /\ fetcher' = fetcher
      /\ today' = today + 1 /\ today \in Int
  BY DEF NewDay, TypeOK, Days
<1>2. Lasting
  BY <1>1 DEF Lasting, Filed
<1>3. \A c \in Captures : capture'[c].day <= today'
  BY <1>1 DEF FreshInv, RowsFresh, TypeOK, Capture, Days
<1>4. \A r \in Rows : Belongs(rop[r])'
  BY <1>1 DEF FreshInv, RowsFresh, Belongs
<1>5. RowsFresh'
  BY <1>3, <1>4 DEF RowsFresh
<1> QED
  BY <1>1, <1>2, <1>5, FreshByParts DEF SameVerdict, SamePipeline, SameFetcher

LEMMA FreshStep == TypeOK /\ FreshInv /\ [Next]_vars => FreshInv'
<1> SUFFICES ASSUME TypeOK, FreshInv, [Next]_vars PROVE FreshInv'
  OBVIOUS
<1>1. CASE Next
  BY <1>1, ReadPipelineFresh, WritePipelineFresh, RefetchFresh, AskFresh,
     HandFresh, NewDayFresh
  DEF Next, Pipeline
<1>2. CASE UNCHANGED vars
  <2>1. /\ rop' = rop /\ capture' = capture /\ fetcher' = fetcher
        /\ today' = today
    BY <1>2 DEF vars
  <2>2. Lasting /\ RowsFresh'
    BY <2>1, RowsUntouched DEF DayKept
  <2> QED
    BY <2>1, <2>2, FreshByParts DEF SameVerdict, SamePipeline, SameFetcher
<1> QED
  BY <1>1, <1>2

\* However pipelines, lookups, re-fetches, the sweep and operators interleave,
\* and whatever fails in between, the row that verified a capture is not of a
\* day before the capture (the day window of executePostCapture).
THEOREM FreshRecordHolds == Spec => []FreshRecord
<1>1. FreshInv => FreshRecord
  BY DEF FreshInv, VerdictFresh, FreshRecord
<1> QED
  BY <1>1, InitType, TypeStep, InitFresh, FreshStep, PTL DEF Spec

-----------------------------------------------------------------------------
(* CaptureIngest: what is true of files and workers between their steps.   *)

Up(pl) == {f \in Files : pl[f] # "none"}
StoredIn(e, cap) == \E c \in cap : c.plate = e.plate /\ c.day = e.day

\* An event that needs no second look, for good or until a restart.
OnRecord(f, ev, cap, gave) ==
  StoredIn(ev[f], cap) \/ ev[f].quality # "good" \/ "refused" \in gave[f]
Settled(f, ev, cap, gave) ==
  StoredIn(ev[f], cap) \/ ev[f].quality # "good" \/ gave[f] # {}

\* A reader is at the least file of its list, with the event of that file, and
\* a file below the rest of its list and not in it is settled.
PushInv(q) == q.pc \in {"idle", "event", "store"} /\ q.file = 0 /\ q.todo = {}
ReaderInv(q, up, lt, ev, cap, gave) ==
  /\ q.todo \subseteq up
  /\ q.todo # {} <=> q.pc \in {"file", "event", "store", "seen", "move"}
  /\ q.file # 0 <=> q.pc \in {"event", "store", "seen", "move"}
  /\ q.file # 0 => /\ q.file \in q.todo /\ \A g \in q.todo : q.file <= g
                   /\ q.event = ev[q.file]
  /\ q.pc = "seen" => StoredIn(ev[q.file], cap)
  /\ q.pc = "move" => OnRecord(q.file, ev, cap, gave)
  /\ \A f \in up \ lt : \A h \in q.todo : f <= h /\ f \notin q.todo => Settled(f, ev, cap, gave)
WorkerInv(w, q, up, lt, ev, cap, gave) ==
  /\ q \in Worker
  /\ q.pc = "store" => q.id # 0
  /\ w \in Pushes => PushInv(q)
  /\ w \in Readers => ReaderInv(q, up, lt, ev, cap, gave)

\* What lies in done/ is on record; what the cursor passed, or a past day left,
\* is settled.
FilesInv(dt, up, lt, ev, cap, gave, pl, cur) ==
  /\ cur # 0 => cur \in up
  /\ \A f \in up : ev[f].day <= dt
  /\ \A f \in up \ lt : ev[f].day # dt \/ f <= cur => Settled(f, ev, cap, gave)
  /\ \A f \in Files : pl[f] = "done" => OnRecord(f, ev, cap, gave)

FolderInv ==
  /\ TypeOKIngest
  /\ FilesInv(date, Up(place), late, event, captures, gaveUp, place, cursor)
  /\ \A w \in Workers : WorkerInv(w, worker[w], Up(place), late, event, captures, gaveUp)

\* What no step but a restart takes back.
Grows(up, lt, ev, cap, gave, up2, lt2, ev2, cap2, gave2) ==
  /\ up \subseteq up2 /\ lt \subseteq lt2 /\ up2 \subseteq Files
  /\ \A c \in cap : \E d \in cap2 : d.plate = c.plate /\ d.day = c.day
  /\ \A f \in up : ev2[f] = ev[f]
  /\ \A f \in Files : gave[f] \subseteq gave2[f]
  /\ \A f \in up2 \ up : f \in lt2 \/ \A g \in up : f > g

LEMMA FilesNat == \A f \in Files : f \in Nat /\ f # 0
  BY LimitsAssumption DEF Files

LEMMA LeastFile ==
  ASSUME NEW T \in SUBSET Nat, T # {} PROVE \E m \in T : \A k \in T : m <= k
<1> DEFINE R == OpToRel(<, Nat)
<1>1. IsWellFoundedOn(R, Nat)
  BY NatLessThanWellFounded
<1>2. \A x, y \in Nat : x < y => <<x, y>> \in R
  BY DEF OpToRel
<1> HIDE DEF R
<1>3. PICK m \in T : \A k \in T : ~ (<<k, m>> \in R)
  BY <1>1, WFMin
<1>4. ASSUME NEW k \in T PROVE m <= k
  <2>1. k \in Nat /\ m \in Nat
    OBVIOUS
  <2>2. ~ (k < m)
    BY <1>2, <1>3, <2>1
  <2> QED
    BY <2>1, <2>2
<1> QED
  BY <1>4

LEMMA FirstIsLeast ==
  ASSUME NEW w, worker[w].todo \subseteq Files, worker[w].todo # {}
  PROVE  /\ First(w) \in worker[w].todo
         /\ \A g \in worker[w].todo : First(w) <= g
<1> DEFINE T == worker[w].todo
<1>1. T \in SUBSET Nat
  BY FilesNat
<1>2. \E m \in T : \A g \in T : m <= g
  BY <1>1, LeastFile
<1> QED
  BY <1>2 DEF First

LEMMA SettledGrows ==
  ASSUME NEW up, NEW lt, NEW ev, NEW cap, NEW gave, NEW up2, NEW lt2, NEW ev2, NEW cap2, NEW gave2,
         Grows(up, lt, ev, cap, gave, up2, lt2, ev2, cap2, gave2), NEW f \in up
  PROVE  /\ StoredIn(ev[f], cap) => StoredIn(ev2[f], cap2)
         /\ OnRecord(f, ev, cap, gave) => OnRecord(f, ev2, cap2, gave2)
         /\ Settled(f, ev, cap, gave) => Settled(f, ev2, cap2, gave2)
<1>1. f \in Files /\ ev2[f] = ev[f] /\ gave[f] \subseteq gave2[f]
  BY DEF Grows
<1>2. StoredIn(ev[f], cap) => StoredIn(ev2[f], cap2)
  BY <1>1 DEF Grows, StoredIn
<1>3. OnRecord(f, ev, cap, gave) => OnRecord(f, ev2, cap2, gave2)
  BY <1>1, <1>2 DEF OnRecord
<1>4. Settled(f, ev, cap, gave) => Settled(f, ev2, cap2, gave2)
  BY <1>1, <1>2 DEF Settled
<1> QED
  BY <1>2, <1>3, <1>4

LEMMA WorkerGrows ==
  ASSUME NEW up, NEW lt, NEW ev, NEW cap, NEW gave, NEW up2, NEW lt2, NEW ev2, NEW cap2, NEW gave2,
         Grows(up, lt, ev, cap, gave, up2, lt2, ev2, cap2, gave2),
         NEW w, NEW q, WorkerInv(w, q, up, lt, ev, cap, gave)
  PROVE  WorkerInv(w, q, up2, lt2, ev2, cap2, gave2)
<1>1. CASE w \in Readers
  <2>1. ReaderInv(q, up, lt, ev, cap, gave)
    BY <1>1 DEF WorkerInv
  <2>2. q.todo \subseteq up /\ up \subseteq up2 /\ up2 \subseteq Files
    BY <2>1 DEF ReaderInv, Grows
  <2>3. q.file # 0 => q.file \in up /\ ev2[q.file] = ev[q.file]
    BY <2>1, <2>2 DEF ReaderInv, Grows
  <2>4. q.pc = "seen" => StoredIn(ev2[q.file], cap2)
    BY <2>1, <2>3, SettledGrows DEF ReaderInv
  <2>5. q.pc = "move" => OnRecord(q.file, ev2, cap2, gave2)
    BY <2>1, <2>3, SettledGrows DEF ReaderInv
  <2>6. ASSUME NEW f \in up2 \ lt2, NEW h \in q.todo, f <= h, f \notin q.todo
        PROVE  Settled(f, ev2, cap2, gave2)
    <3>1. h \in up /\ h \in Nat /\ f \in Nat
      <4>1. h \in up /\ h \in Files /\ f \in Files
        BY <2>2
      <4> QED
        BY <4>1, FilesNat
    <3>2. f \in up
      <4>1. ~ (f > h)
        BY <2>6, <3>1
      <4> QED
        BY <3>1, <4>1 DEF Grows
    <3>3. f \notin lt
      BY DEF Grows
    <3>4. Settled(f, ev, cap, gave)
      BY <2>1, <2>6, <3>2, <3>3 DEF ReaderInv
    <3> QED
      BY <3>2, <3>4, SettledGrows
  <2>7. ReaderInv(q, up2, lt2, ev2, cap2, gave2)
    BY <2>1, <2>2, <2>3, <2>4, <2>5, <2>6 DEF ReaderInv
  <2> QED
    BY <2>7 DEF WorkerInv
<1>2. CASE w \notin Readers
  BY <1>2 DEF WorkerInv
<1> QED
  BY <1>1, <1>2

LEMMA FilesGrow ==
  ASSUME NEW up, NEW lt, NEW ev, NEW cap, NEW gave, NEW up2, NEW lt2, NEW ev2, NEW cap2, NEW gave2,
         Grows(up, lt, ev, cap, gave, up2, lt2, ev2, cap2, gave2),
         NEW dt \in Nat, NEW pl, NEW pl2, NEW cur \in Files \union {0}, NEW cur2,
         FilesInv(dt, up, lt, ev, cap, gave, pl, cur),
         \A f \in up2 \ up : ev2[f].day = dt,
         cur2 = cur \/ (cur2 \in up /\ \A f \in up2 \ lt2 : f <= cur2 => Settled(f, ev2, cap2, gave2)),
         \A f \in Files : pl[f] = "done" => f \in up,
         \A f \in Files : pl2[f] = "done" => pl[f] = "done" \/ OnRecord(f, ev2, cap2, gave2)
  PROVE  FilesInv(dt, up2, lt2, ev2, cap2, gave2, pl2, cur2)
<1>1. up \subseteq up2 /\ up2 \subseteq Files /\ lt \subseteq lt2
  BY DEF Grows
<1>2. cur2 # 0 => cur2 \in up2
  BY <1>1 DEF FilesInv
<1>3. ASSUME NEW f \in up2 PROVE ev2[f].day <= dt
  <2>1. CASE f \in up
    BY <2>1 DEF Grows, FilesInv
  <2>2. CASE f \notin up
    BY <2>2
  <2> QED
    BY <2>1, <2>2
<1>4. ASSUME NEW f \in up2 \ lt2, ev2[f].day # dt \/ f <= cur2 PROVE Settled(f, ev2, cap2, gave2)
  <2>1. CASE f \in up
    <3>1. ev2[f] = ev[f] /\ f \notin lt
      BY <2>1 DEF Grows
    <3>2. CASE ev[f].day # dt \/ f <= cur
      BY <2>1, <3>1, <3>2, SettledGrows DEF FilesInv
    <3>3. CASE ~ (ev[f].day # dt \/ f <= cur)
      BY <1>4, <3>1, <3>3
    <3> QED
      BY <3>2, <3>3
  <2>2. CASE f \notin up
    <3>1. ev2[f].day = dt /\ \A g \in up : f > g
      BY <2>2 DEF Grows
    <3>2. CASE cur2 = cur
      <4>1. cur # 0 => f > cur
        BY <3>1 DEF FilesInv
      <4>2. f \in Nat /\ cur \in Nat /\ f # 0
        BY <1>1, FilesNat
      <4>3. ~ (f <= cur)
        BY <4>1, <4>2
      <4> QED
        BY <1>4, <3>1, <3>2, <4>3
    <3>3. CASE cur2 # cur
      BY <1>4, <3>1, <3>3
    <3> QED
      BY <3>2, <3>3
  <2> QED
    BY <2>1, <2>2
<1>5. ASSUME NEW f \in Files, pl2[f] = "done" PROVE OnRecord(f, ev2, cap2, gave2)
  <2>1. CASE pl[f] = "done"
    BY <2>1, SettledGrows DEF FilesInv
  <2> QED
    BY <1>5, <2>1
<1> QED
  BY <1>2, <1>3, <1>4, <1>5 DEF FilesInv

\* The parts of FolderInv after a step.
FilesNext == FilesInv(date', Up(place'), late', event', captures', gaveUp', place', cursor')
WorkersNext == \A x \in Workers :
  WorkerInv(x, worker'[x], Up(place'), late', event', captures', gaveUp')
GrowsNext == Grows(Up(place), late, event, captures, gaveUp,
                   Up(place'), late', event', captures', gaveUp')
RowsGrow == /\ \A c \in captures : \E d \in captures' : d.plate = c.plate /\ d.day = c.day
            /\ \A f \in Files : gaveUp[f] \subseteq gaveUp'[f]

LEMMA UpIsFiles == Up(place) \subseteq Files /\ Up(place') \subseteq Files /\ Up(place) = Uploaded
  BY DEF Up, Uploaded

LEMMA GrowsAlone ==
  ASSUME RowsGrow, UNCHANGED <<event, late>>, Up(place') = Up(place) PROVE GrowsNext
  BY UpIsFiles DEF GrowsNext, Grows, RowsGrow

\* A step of one worker, or of none.
LEMMA StepOfOne ==
  ASSUME FolderInv, RowsGrow, UNCHANGED <<date, event, late>>, Up(place') = Up(place),
         NEW w \in Workers, NEW q, worker' = [worker EXCEPT ![w] = q],
         WorkerInv(w, q, Up(place), late, event, captures', gaveUp'),
         cursor' = cursor \/ (cursor' \in Up(place) /\
           \A f \in Up(place) \ late : f <= cursor' => Settled(f, event, captures', gaveUp')),
         \A f \in Files : place'[f] = "done" => place[f] = "done" \/ OnRecord(f, event, captures', gaveUp')
  PROVE  FilesNext /\ WorkersNext
<1>1. GrowsNext
  BY GrowsAlone
<1>2. date \in Nat /\ cursor \in Files \union {0} /\ worker \in [Workers -> Worker]
  BY LimitsAssumption DEF FolderInv, TypeOKIngest, Dates
<1>3. FilesNext
  <2>1. \A f \in Files : place[f] = "done" => f \in Up(place)
    BY DEF Up
  <2>2. FilesInv(date, Up(place), late, event, captures, gaveUp, place, cursor)
    BY DEF FolderInv
  <2>3. FilesInv(date, Up(place'), late', event', captures', gaveUp', place', cursor')
    BY <1>1, <1>2, <2>1, <2>2, FilesGrow DEF GrowsNext
  <2> QED
    BY <2>3 DEF FilesNext
<1>4. ASSUME NEW x \in Workers PROVE WorkerInv(x, worker'[x], Up(place'), late', event', captures', gaveUp')
  <2>1. CASE x = w
    <3>1. worker'[x] = q
      BY <1>2, <2>1
    <3> QED
      BY <2>1, <3>1
  <2>2. CASE x # w
    <3>1. worker'[x] = worker[x]
      BY <1>2, <2>2
    <3>2. WorkerInv(x, worker[x], Up(place), late, event, captures, gaveUp)
      BY DEF FolderInv
    <3> QED
      BY <1>1, <3>1, <3>2, WorkerGrows DEF GrowsNext
  <2> QED
    BY <2>1, <2>2
<1> QED
  BY <1>3, <1>4 DEF WorkersNext

LEMMA StepOfNone ==
  ASSUME FolderInv, RowsGrow, UNCHANGED <<date, event, place, late, cursor, worker>>
  PROVE  FilesNext /\ WorkersNext
<1>1. GrowsNext
  BY GrowsAlone
<1>2. date \in Nat /\ cursor \in Files \union {0}
  BY LimitsAssumption DEF FolderInv, TypeOKIngest, Dates
<1>3. FilesInv(date, Up(place'), late', event', captures', gaveUp', place', cursor')
  <2>1. \A f \in Files : place[f] = "done" => f \in Up(place)
    BY DEF Up
  <2>2. FilesInv(date, Up(place), late, event, captures, gaveUp, place, cursor)
    BY DEF FolderInv
  <2> QED
    BY <1>1, <1>2, <2>1, <2>2, FilesGrow DEF GrowsNext
<1>4. WorkersNext
  BY <1>1, WorkerGrows DEF GrowsNext, FolderInv, WorkersNext
<1> QED
  BY <1>3, <1>4 DEF FilesNext

LEMMA NoWorkInv ==
  ASSUME NEW w, NEW up, NEW lt, NEW ev, NEW cap, NEW gave
  PROVE  WorkerInv(w, NoWork, up, lt, ev, cap, gave)
<1>1. NoEvent \in Event
  BY WorkersAssumption, LimitsAssumption DEF NoEvent, Event, Dates
<1>2. NoWork \in Worker
  BY <1>1 DEF NoWork, Worker, Camera
<1> QED
  BY <1>2 DEF WorkerInv, PushInv, ReaderInv, NoWork

\* A reader that is through with the least file of its list.
OnWith(rest) == IF rest = {} THEN NoWork ELSE [NoWork EXCEPT !.pc = "file", !.todo = rest]
LEMMA OnWithInv ==
  ASSUME FolderInv, RowsGrow, NEW w \in Readers, NEW f \in worker[w].todo, \A g \in worker[w].todo : f <= g,
         Settled(f, event, captures', gaveUp')
  PROVE  /\ f \in Up(place)
         /\ \A g \in Up(place) \ late : g <= f => Settled(g, event, captures', gaveUp')
         /\ WorkerInv(w, OnWith(worker[w].todo \ {f}), Up(place), late, event, captures', gaveUp')
<1> DEFINE T == worker[w].todo
           q == OnWith(T \ {f})
<1>1. w \in Workers /\ w \notin Pushes
  BY WorkersAssumption DEF Workers, Readers
<1>2. WorkerInv(w, worker[w], Up(place), late, event, captures, gaveUp)
  BY <1>1 DEF FolderInv
<1>3. T \subseteq Up(place) /\ T \subseteq Files
  BY <1>2, UpIsFiles DEF WorkerInv, ReaderInv
<1>4. Grows(Up(place), late, event, captures, gaveUp, Up(place), late, event, captures', gaveUp')
  BY UpIsFiles DEF RowsGrow, Grows
<1>5. ASSUME NEW g \in Up(place) \ late, NEW h \in T, g <= h, g \notin T \/ g = f
      PROVE  Settled(g, event, captures', gaveUp')
  <2>1. CASE g = f
    BY <2>1
  <2>2. CASE g \notin T
    <3>1. Settled(g, event, captures, gaveUp)
      BY <1>2, <1>5, <2>2 DEF WorkerInv, ReaderInv
    <3> QED
      BY <3>1, <1>4, SettledGrows
  <2> QED
    BY <1>5, <2>1, <2>2
<1>6. ASSUME NEW g \in Up(place) \ late, g <= f PROVE Settled(g, event, captures', gaveUp')
  <2>1. CASE g \in T
    <3>1. f <= g /\ f \in Nat /\ g \in Nat
      BY <1>3, <2>1, FilesNat
    <3>2. g = f
      BY <1>6, <3>1
    <3> QED
      BY <3>2
  <2>2. CASE g \notin T
    BY <1>5, <1>6, <2>2
  <2> QED
    BY <2>1, <2>2
<1>7. WorkerInv(w, q, Up(place), late, event, captures', gaveUp')
  <2>1. CASE T \ {f} = {}
    BY <2>1, NoWorkInv DEF OnWith
  <2>2. CASE T \ {f} # {}
    <3>1. q = [NoWork EXCEPT !.pc = "file", !.todo = T \ {f}]
      BY <2>2 DEF OnWith
    <3>2. NoWork \in Worker
      BY NoWorkInv DEF WorkerInv
    <3>3. q \in Worker
      BY <3>1, <3>2, <1>3 DEF Worker
    <3>4. q.pc = "file" /\ q.todo = T \ {f} /\ q.file = 0
      BY <3>1 DEF NoWork
    <3> HIDE DEF q
    <3>5. ReaderInv(q, Up(place), late, event, captures', gaveUp')
      BY <3>4, <2>2, <1>3, <1>5 DEF ReaderInv
    <3> QED
      BY <3>3, <3>4, <3>5, <1>1 DEF WorkerInv
  <2> QED
    BY <2>1, <2>2
<1> QED
  BY <1>3, <1>6, <1>7

\* TypeOKIngest, but for the workers.
OthersTyped ==
  /\ date \in Dates
  /\ mode \in Modes
  /\ camera \in Camera /\ reachable \in BOOLEAN
  /\ event \in [Files -> Event]
  /\ place \in [Files -> {"none", "here", "done"}]
  /\ cursor \in Files \union {0}
  /\ <<watching, ticking, backoff>> \in BOOLEAN \X BOOLEAN \X BOOLEAN
  /\ captures \subseteq CaptureRow
  /\ \A a, b \in captures : a.id = b.id => a = b
  /\ gaveUp \in [Files -> SUBSET {"error", "refused"}]
  /\ late \subseteq Files
  /\ calls \in 0 .. CallLimit

LEMMA TypesSplit ==
  /\ TypeOKIngest => OthersTyped
  /\ OthersTyped' /\ worker' \in [Workers -> Worker] => TypeOKIngest'
  BY DEF TypeOKIngest, OthersTyped

LEMMA FolderOfOne ==
  ASSUME FolderInv, OthersTyped', RowsGrow, UNCHANGED <<date, event, late>>, Up(place') = Up(place),
         NEW w \in Workers, NEW q, worker' = [worker EXCEPT ![w] = q],
         WorkerInv(w, q, Up(place), late, event, captures', gaveUp'),
         cursor' = cursor \/ (cursor' \in Up(place) /\
           \A f \in Up(place) \ late : f <= cursor' => Settled(f, event, captures', gaveUp')),
         \A f \in Files : place'[f] = "done" => place[f] = "done" \/ OnRecord(f, event, captures', gaveUp')
  PROVE  FolderInv'
<1>1. FilesNext /\ WorkersNext
  BY StepOfOne
<1>2. worker' \in [Workers -> Worker]
  <2>1. worker \in [Workers -> Worker] /\ q \in Worker
    BY DEF FolderInv, TypeOKIngest, WorkerInv
  <2> QED
    BY <2>1
<1> QED
  BY <1>1, <1>2, TypesSplit DEF FolderInv, FilesNext, WorkersNext

LEMMA FolderOfNone ==
  ASSUME FolderInv, OthersTyped', RowsGrow, UNCHANGED <<date, event, place, late, cursor, worker>>
  PROVE  FolderInv'
<1>1. FilesNext /\ WorkersNext
  BY StepOfNone
<1>2. worker' \in [Workers -> Worker]
  BY DEF FolderInv, TypeOKIngest
<1> QED
  BY <1>1, <1>2, TypesSplit DEF FolderInv, FilesNext, WorkersNext

LEMMA OneMore ==
  ASSUME OthersTyped, calls < CallLimit, calls' = calls + 1 PROVE calls' \in 0 .. CallLimit
  BY LimitsAssumption DEF OthersTyped

LEMMA FolderTyped == FolderInv => OthersTyped /\ worker \in [Workers -> Worker]
  BY TypesSplit DEF FolderInv, TypeOKIngest

LEMMA FolderWorker ==
  ASSUME FolderInv, NEW w \in Workers
  PROVE  /\ worker[w] \in Worker
         /\ worker[w].pc = "store" => worker[w].id # 0
         /\ w \in Pushes => PushInv(worker[w])
         /\ w \in Readers => ReaderInv(worker[w], Up(place), late, event, captures, gaveUp)
  BY DEF FolderInv, WorkerInv

\* Only the state of one worker changes, and what no file depends on.
LEMMA FolderLight ==
  ASSUME FolderInv, OthersTyped', UNCHANGED <<date, folderVars, captures, gaveUp, cursor>>,
         NEW w \in Workers, NEW q, worker' = [worker EXCEPT ![w] = q],
         WorkerInv(w, q, Up(place), late, event, captures, gaveUp)
  PROVE  FolderInv'
<1>1. RowsGrow /\ UNCHANGED <<date, event, late, place, cursor, captures, gaveUp>>
  BY DEF RowsGrow, folderVars
<1>2. WorkerInv(w, q, Up(place), late, event, captures', gaveUp')
  BY <1>1
<1> QED
  BY <1>1, <1>2, FolderOfOne

LEMMA UploadFolder == ASSUME FolderInv, UploadFile PROVE FolderInv'
<1>1. PICK f \in Files \ Uploaded, p \in Vehicles, q \in {"good", "faint", "noise"} :
        /\ event' = [event EXCEPT ![f] = [plate |-> p, day |-> date, quality |-> q]]
        /\ place' = [place EXCEPT ![f] = "here"]
        /\ late' = IF \E g \in Uploaded : g > f THEN late \union {f} ELSE late
  BY DEF UploadFile
<1>2. OthersTyped /\ worker \in [Workers -> Worker]
  BY FolderTyped
<1>3. UNCHANGED <<date, mode, camera, reachable, cursor, watching, ticking, backoff, worker,
                  captures, gaveUp, calls>>
  BY DEF UploadFile, watchVars
<1>4. OthersTyped'
  <2>1. [plate |-> p, day |-> date, quality |-> q] \in Event
    BY <1>2 DEF OthersTyped, Event
  <2>2. event' \in [Files -> Event]
    BY <1>1, <1>2, <2>1 DEF OthersTyped
  <2> QED
    BY <1>1, <1>2, <1>3, <2>2 DEF OthersTyped
<1>5. Up(place') = Up(place) \union {f} /\ f \notin Up(place)
  BY <1>1, <1>2 DEF OthersTyped, Up, Uploaded
<1>6. GrowsNext
  <2>1. \A g \in Up(place) : event'[g] = event[g]
    BY <1>1, <1>2, <1>5 DEF OthersTyped, Up
  <2>2. f \in late' \/ \A g \in Up(place) : f > g
    <3>1. CASE \E g \in Uploaded : g > f
      BY <1>1, <3>1
    <3>2. CASE ~ \E g \in Uploaded : g > f
      <4>1. ASSUME NEW g \in Up(place) PROVE f > g
        <5>1. g \in Uploaded /\ g # f /\ g \in Nat /\ f \in Nat
          BY <1>5, UpIsFiles, FilesNat
        <5>2. ~ (g > f)
          BY <3>2, <5>1
        <5> QED
          BY <5>1, <5>2
      <4> QED
        BY <4>1
    <3> QED
      BY <3>1, <3>2
  <2>3. late \subseteq late'
    BY <1>1
  <2> QED
    BY <1>3, <1>5, <2>1, <2>2, <2>3, UpIsFiles DEF GrowsNext, Grows
<1>7. FilesInv(date, Up(place'), late', event', captures', gaveUp', place', cursor)
  <2>1. date \in Nat /\ cursor \in Files \union {0}
    BY <1>2, LimitsAssumption DEF OthersTyped, Dates
  <2>2. FilesInv(date, Up(place), late, event, captures, gaveUp, place, cursor)
    BY DEF FolderInv
  <2>3. event'[f].day = date
    BY <1>1, <1>2 DEF OthersTyped
  <2>4. \A g \in Files : /\ place[g] = "done" => g \in Up(place)
                         /\ place'[g] = "done" => place[g] = "done"
    BY <1>1, <1>2 DEF OthersTyped, Up
  <2>5. \A g \in Up(place') \ Up(place) : event'[g].day = date
    BY <1>5, <2>3
  <2> QED
    BY <1>6, <2>1, <2>2, <2>4, <2>5, FilesGrow DEF GrowsNext
<1>8. \A w \in Workers : WorkerInv(w, worker[w], Up(place'), late', event', captures', gaveUp')
  BY <1>6, WorkerGrows DEF GrowsNext, FolderInv
<1> QED
  BY <1>2, <1>3, <1>4, <1>7, <1>8, TypesSplit DEF FolderInv

LEMMA CameraFolder ==
  ASSUME FolderInv, DropOut \/ ComeBack \/ HealthCheck \/ SwitchCamera PROVE FolderInv'
<1>1. OthersTyped
  BY FolderTyped
<1>2. UNCHANGED <<date, folderVars, cursor, worker, captures, gaveUp>>
  BY DEF DropOut, ComeBack, HealthCheck, SwitchCamera
<1>3. OthersTyped'
  <2>1. CASE DropOut
    <3>1. calls' \in 0 .. CallLimit /\ reachable' \in BOOLEAN
      BY <1>1, <2>1, OneMore DEF DropOut
    <3> QED
      BY <1>1, <2>1, <3>1 DEF OthersTyped, DropOut, folderVars, watchVars
  <2>2. CASE ComeBack
    BY <1>1, <2>2 DEF OthersTyped, ComeBack, folderVars, watchVars
  <2>3. CASE HealthCheck
    BY <1>1, <2>3 DEF OthersTyped, HealthCheck, Camera, folderVars, watchVars
  <2>4. CASE SwitchCamera
    <3>1. camera' \in Camera
      BY <1>1, <2>4 DEF OthersTyped, SwitchCamera, Camera
    <3> QED
      BY <1>1, <2>4, <3>1, LimitsAssumption DEF OthersTyped, SwitchCamera, folderVars, watchVars
  <2> QED
    BY <2>1, <2>2, <2>3, <2>4
<1> QED
  BY <1>2, <1>3, FolderOfNone DEF RowsGrow, folderVars

LEMMA RemoveFolder == ASSUME FolderInv, RemoveCapture PROVE FolderInv'
<1>1. PICK c \in captures : captures' = (captures \ {c}) \union {[c EXCEPT !.gone = TRUE]}
  BY DEF RemoveCapture
<1>2. OthersTyped
  BY FolderTyped
<1>3. UNCHANGED <<date, mode, camera, reachable, folderVars, cursor, watchVars, worker, gaveUp>>
      /\ calls' = calls + 1 /\ calls < CallLimit
  BY DEF RemoveCapture
<1> DEFINE d == [c EXCEPT !.gone = TRUE]
<1>4. c \in CaptureRow /\ d \in CaptureRow /\ d.id = c.id /\ d.plate = c.plate /\ d.day = c.day
  BY <1>2 DEF OthersTyped, CaptureRow
<1>5. captures' = (captures \ {c}) \union {d}
  BY <1>1
<1> HIDE DEF d
<1>6. captures' \subseteq CaptureRow /\ \A a, b \in captures' : a.id = b.id => a = b
  BY <1>2, <1>4, <1>5 DEF OthersTyped
<1>7. OthersTyped'
  BY <1>2, <1>3, <1>6, LimitsAssumption DEF OthersTyped, folderVars, watchVars
<1>8. RowsGrow
  BY <1>3, <1>4, <1>5 DEF RowsGrow
<1> QED
  BY <1>3, <1>7, <1>8, FolderOfNone DEF folderVars

LEMMA RoundFolder ==
  ASSUME FolderInv, NEW w \in Cycles, StartCycle(w) \/ WakeCycle(w) \/ EnterCycle(w) PROVE FolderInv'
<1>1. OthersTyped /\ w \in Workers /\ w \in Readers /\ w \notin Pushes
  BY FolderTyped, WorkersAssumption DEF Workers, Readers
<1>2. ReaderInv(worker[w], Up(place), late, event, captures, gaveUp) /\ worker[w] \in Worker
  BY <1>1, FolderWorker
<1>3. UNCHANGED <<date, mode, camera, reachable, folderVars, captures, gaveUp, cursor, calls>>
  BY DEF StartCycle, WakeCycle, EnterCycle
<1>4. OthersTyped'
  BY <1>1, <1>3 DEF OthersTyped, Camera, StartCycle, WakeCycle, EnterCycle, folderVars
<1>5. ASSUME NEW k \in {"wait", "enter", "list"}, worker[w].pc \in {"idle", "wait", "enter"}
      PROVE  WorkerInv(w, [worker[w] EXCEPT !.pc = k], Up(place), late, event, captures, gaveUp)
  <2> DEFINE q == [worker[w] EXCEPT !.pc = k]
  <2>1. q \in Worker /\ q.pc = k /\ q.todo = worker[w].todo /\ q.file = worker[w].file
    BY <1>2 DEF Worker
  <2> HIDE DEF q
  <2>2. worker[w].todo = {} /\ worker[w].file = 0
    BY <1>2, <1>5 DEF ReaderInv
  <2>3. ReaderInv(q, Up(place), late, event, captures, gaveUp)
    BY <2>1, <2>2 DEF ReaderInv
  <2>4. WorkerInv(w, q, Up(place), late, event, captures, gaveUp)
    BY <2>1, <2>3, <1>1 DEF WorkerInv
  <2> QED
    BY <2>4 DEF q
<1>6. CASE \E k \in {"wait", "enter", "list"} : worker' = [worker EXCEPT ![w].pc = k]
  <2>1. PICK k \in {"wait", "enter", "list"} : worker' = [worker EXCEPT ![w] = [worker[w] EXCEPT !.pc = k]]
    BY <1>6
  <2>2. worker[w].pc \in {"idle", "wait", "enter"}
    BY DEF StartCycle, WakeCycle, EnterCycle
  <2> QED
    BY <1>1, <1>3, <1>4, <1>5, <2>1, <2>2, FolderLight
<1>7. CASE worker' = [worker EXCEPT ![w] = NoWork]
  BY <1>1, <1>3, <1>4, <1>7, NoWorkInv, FolderLight
<1> QED
  BY <1>6, <1>7 DEF StartCycle, WakeCycle, EnterCycle

LEMMA StartSweepFolder == ASSUME FolderInv, StartSweep PROVE FolderInv'
<1> DEFINE w == FolderSweep
           q == [worker[w] EXCEPT !.pc = "list"]
<1>1. OthersTyped /\ w \in Workers /\ w \in Readers /\ w \notin Pushes
  BY FolderTyped, WorkersAssumption DEF Workers, Readers
<1>2. ReaderInv(worker[w], Up(place), late, event, captures, gaveUp) /\ worker[w] \in Worker
  BY <1>1, FolderWorker
<1>3. q \in Worker /\ q.pc = "list" /\ q.todo = {} /\ q.file = 0
  BY <1>2 DEF Worker, ReaderInv, StartSweep
<1>4. OthersTyped'
  BY <1>1 DEF OthersTyped, StartSweep, folderVars, watchVars
<1>5. worker' = [worker EXCEPT ![w] = q] /\ UNCHANGED <<date, folderVars, captures, gaveUp, cursor>>
  BY DEF StartSweep
<1> HIDE DEF q
<1>6. WorkerInv(w, q, Up(place), late, event, captures, gaveUp)
  BY <1>1, <1>3 DEF WorkerInv, ReaderInv
<1> QED
  BY <1>1, <1>4, <1>5, <1>6, FolderLight

\* What a step of a reader may do to the other variables.
LEMMA ReaderTyped ==
  ASSUME OthersTyped, UNCHANGED <<date, mode, camera, reachable, event, late, watching>>,
         place' = place \/ \E f \in Files : place' = [place EXCEPT ![f] = "done"],
         cursor' \in Files \union {0},
         <<ticking', backoff'>> \in BOOLEAN \X BOOLEAN,
         captures' = captures,
         gaveUp' = gaveUp \/ \E f \in Files, x \in {"error", "refused"} : gaveUp' = [gaveUp EXCEPT ![f] = @ \union {x}],
         calls' \in 0 .. CallLimit
  PROVE  OthersTyped'
<1>1. gaveUp' \in [Files -> SUBSET {"error", "refused"}]
  BY DEF OthersTyped
<1>2. place' \in [Files -> {"none", "here", "done"}]
  BY DEF OthersTyped
<1>3. watching \in BOOLEAN
  BY DEF OthersTyped
<1> QED
  BY <1>1, <1>2, <1>3 DEF OthersTyped

LEMMA EndTyped ==
  ASSUME OthersTyped, NEW w, NEW failed \in BOOLEAN, EndCycle(w, failed)
  PROVE  <<ticking', backoff'>> \in BOOLEAN \X BOOLEAN
  BY DEF EndCycle, OthersTyped

LEMMA ContinueIs ==
  ASSUME OthersTyped, NEW w, NEW rest, Continue(w, rest)
  PROVE  /\ worker' = [worker EXCEPT ![w] = OnWith(rest)]
         /\ <<ticking', backoff'>> \in BOOLEAN \X BOOLEAN
<1>1. worker' = [worker EXCEPT ![w] = OnWith(rest)]
  BY DEF Continue, OnWith
<1>2. <<ticking', backoff'>> \in BOOLEAN \X BOOLEAN
  <2>1. CASE rest = {}
    BY <2>1, EndTyped DEF Continue
  <2>2. CASE rest # {}
    BY <2>2 DEF Continue, OthersTyped
  <2> QED
    BY <2>1, <2>2
<1> QED
  BY <1>1, <1>2

LEMMA ListFolderInv == ASSUME FolderInv, NEW w \in Readers, ListFolder(w) PROVE FolderInv'
<1>1. OthersTyped /\ w \in Workers /\ w \notin Pushes
  BY FolderTyped, WorkersAssumption DEF Workers, Readers
<1>2. UNCHANGED <<date, mode, camera, reachable, folderVars, cursor, watching, captures, gaveUp, calls>>
      /\ Continue(w, NewFiles)
  BY DEF ListFolder
<1>3. worker' = [worker EXCEPT ![w] = OnWith(NewFiles)]
      /\ <<ticking', backoff'>> \in BOOLEAN \X BOOLEAN
  BY <1>1, <1>2, ContinueIs
<1>4. OthersTyped'
  BY <1>1, <1>2, <1>3, ReaderTyped DEF OthersTyped, folderVars
<1>5. NewFiles \subseteq Up(place)
  BY UpIsFiles DEF NewFiles
<1>6. ASSUME NEW f \in Up(place) \ late, f \notin NewFiles PROVE Settled(f, event, captures, gaveUp)
  <2>1. FilesInv(date, Up(place), late, event, captures, gaveUp, place, cursor)
    BY DEF FolderInv
  <2>2. f \in Files /\ f \in Nat /\ cursor \in Nat
    BY <1>1, UpIsFiles, FilesNat DEF OthersTyped
  <2>3. f <= cursor \/ place[f] # "here" \/ event[f].day # date
    BY <1>6, <2>2, UpIsFiles DEF NewFiles
  <2>4. CASE place[f] # "here"
    <3>1. place[f] = "done"
      BY <1>1, <2>2, <2>4 DEF Up, OthersTyped
    <3>2. OnRecord(f, event, captures, gaveUp)
      BY <2>1, <2>2, <3>1 DEF FilesInv
    <3> QED
      BY <3>2 DEF OnRecord, Settled
  <2> QED
    BY <2>1, <2>3, <2>4 DEF FilesInv
<1>7. WorkerInv(w, OnWith(NewFiles), Up(place), late, event, captures, gaveUp)
  <2>1. CASE NewFiles = {}
    BY <2>1, NoWorkInv DEF OnWith
  <2>2. CASE NewFiles # {}
    <3> DEFINE q == OnWith(NewFiles)
    <3>1. q = [NoWork EXCEPT !.pc = "file", !.todo = NewFiles]
      BY <2>2 DEF OnWith
    <3>2. NoWork \in Worker
      BY NoWorkInv DEF WorkerInv
    <3>3. q \in Worker
      BY <3>1, <3>2, <1>5, UpIsFiles DEF Worker
    <3>4. q.pc = "file" /\ q.todo = NewFiles /\ q.file = 0
      BY <3>1 DEF NoWork
    <3> HIDE DEF q
    <3>5. ReaderInv(q, Up(place), late, event, captures, gaveUp)
      BY <3>4, <2>2, <1>5, <1>6 DEF ReaderInv
    <3>6. WorkerInv(w, q, Up(place), late, event, captures, gaveUp)
      BY <3>3, <3>4, <3>5, <1>1 DEF WorkerInv
    <3> QED
      BY <3>6 DEF q
  <2> QED
    BY <2>1, <2>2
<1> QED
  BY <1>1, <1>2, <1>3, <1>4, <1>7, FolderLight

LEMMA ListFaultFolder == ASSUME FolderInv, NEW w \in Readers, ListFault(w) PROVE FolderInv'
<1>1. OthersTyped /\ w \in Workers
  BY FolderTyped DEF Workers
<1>2. UNCHANGED <<date, mode, camera, reachable, folderVars, cursor, watching, captures, gaveUp>>
      /\ EndCycle(w, TRUE) /\ worker' = [worker EXCEPT ![w] = NoWork]
  BY DEF ListFault
<1>3. <<ticking', backoff'>> \in BOOLEAN \X BOOLEAN
  BY <1>1, <1>2, EndTyped
<1>4. calls' \in 0 .. CallLimit
  BY <1>1, OneMore DEF ListFault
<1>5. OthersTyped'
  BY <1>1, <1>2, <1>3, <1>4, ReaderTyped DEF OthersTyped, folderVars
<1> QED
  BY <1>1, <1>2, <1>5, NoWorkInv, FolderLight

\* A reader whose file is settled goes on to the next, with the cursor where it
\* was or at this file.
LEMMA GoesOn ==
  ASSUME FolderInv, OthersTyped', RowsGrow, UNCHANGED <<date, event, late>>, Up(place') = Up(place),
         NEW w \in Readers, NEW f \in worker[w].todo, \A g \in worker[w].todo : f <= g,
         worker' = [worker EXCEPT ![w] = OnWith(worker[w].todo \ {f})],
         Settled(f, event, captures', gaveUp'), cursor' \in {cursor, f},
         \A g \in Files : place'[g] = "done" => place[g] = "done" \/ OnRecord(g, event, captures', gaveUp')
  PROVE  FolderInv'
<1>1. /\ f \in Up(place)
      /\ \A g \in Up(place) \ late : g <= f => Settled(g, event, captures', gaveUp')
      /\ WorkerInv(w, OnWith(worker[w].todo \ {f}), Up(place), late, event, captures', gaveUp')
  BY OnWithInv
<1>2. w \in Workers
  BY DEF Workers
<1>3. cursor' = cursor \/ (cursor' \in Up(place) /\
        \A g \in Up(place) \ late : g <= cursor' => Settled(g, event, captures', gaveUp'))
  BY <1>1
<1> QED
  BY <1>1, <1>2, <1>3, FolderOfOne

LEMMA AtFile ==
  ASSUME FolderInv, NEW w \in Readers, worker[w].pc \in {"file", "event", "store", "seen", "move"}
  PROVE  /\ w \in Workers /\ w \notin Pushes
         /\ worker[w] \in Worker
         /\ ReaderInv(worker[w], Up(place), late, event, captures, gaveUp)
         /\ First(w) \in worker[w].todo
         /\ \A g \in worker[w].todo : First(w) <= g
         /\ worker[w].todo \subseteq Files
<1>1. w \in Workers /\ w \notin Pushes
  BY WorkersAssumption DEF Workers, Readers
<1>2. worker[w] \in Worker /\ ReaderInv(worker[w], Up(place), late, event, captures, gaveUp)
  BY <1>1, FolderWorker
<1>3. worker[w].todo \subseteq Files /\ worker[w].todo # {}
  BY <1>2, UpIsFiles DEF ReaderInv
<1> QED
  BY <1>1, <1>2, <1>3, FirstIsLeast

LEMMA SeenIsStored == \A e : Seen(e) => StoredIn(e, captures)
  BY DEF Seen, StoredIn

LEMMA ReadFileFolder == ASSUME FolderInv, NEW w \in Readers, ReadFile(w) PROVE FolderInv'
<1> DEFINE f == First(w)
<1>1. /\ w \in Workers /\ w \notin Pushes /\ worker[w] \in Worker
      /\ ReaderInv(worker[w], Up(place), late, event, captures, gaveUp)
      /\ f \in worker[w].todo /\ f \in Files /\ \A g \in worker[w].todo : f <= g
      /\ OthersTyped
  BY AtFile, FolderTyped DEF ReadFile
<1>2. UNCHANGED <<date, mode, camera, reachable, folderVars, watching, captures, gaveUp, calls>>
  BY DEF ReadFile
<1>3. CASE Readable(f)
  <2> DEFINE q == [worker[w] EXCEPT !.pc = "event", !.file = f, !.event = event[f]]
  <2>1. worker' = [worker EXCEPT ![w] = q] /\ UNCHANGED <<cursor, ticking, backoff>>
    BY <1>3 DEF ReadFile
  <2>2. OthersTyped'
    BY <1>1, <1>2, <2>1 DEF OthersTyped, folderVars
  <2>3. event[f] \in Event /\ f # 0
    BY <1>1, FilesNat DEF OthersTyped
  <2> HIDE DEF f
  <2>4. q \in Worker /\ q.pc = "event" /\ q.file = f /\ q.event = event[f] /\ q.todo = worker[w].todo
    BY <1>1, <2>3 DEF Worker
  <2> HIDE DEF q
  <2>5. ReaderInv(q, Up(place), late, event, captures, gaveUp)
    BY <1>1, <2>3, <2>4 DEF ReaderInv
  <2>6. WorkerInv(w, q, Up(place), late, event, captures, gaveUp)
    BY <1>1, <2>4, <2>5 DEF WorkerInv
  <2> QED
    BY <1>1, <1>2, <2>1, <2>2, <2>6, FolderLight
<1>4. CASE ~ Readable(f)
  <2>1. Skip(w, f)
    BY <1>4 DEF ReadFile
  <2>2. worker' = [worker EXCEPT ![w] = OnWith(worker[w].todo \ {f})]
        /\ <<ticking', backoff'>> \in BOOLEAN \X BOOLEAN
    BY <1>1, <2>1, ContinueIs DEF Skip
  <2>3. cursor' \in {cursor, f}
    BY <2>1 DEF Skip
  <2>4. OthersTyped'
    BY <1>1, <1>2, <2>2, <2>3, ReaderTyped DEF OthersTyped, folderVars
  <2>5. Settled(f, event, captures, gaveUp)
    <3>1. f \in Up(place) /\ place[f] \in {"here", "done"}
      BY <1>1 DEF ReaderInv, Up, OthersTyped
    <3>2. CASE ~ shouldAcceptEvent(event[f])
      <4>1. event[f].quality = "noise" \/ StoredIn(event[f], captures)
        BY <3>2, SeenIsStored DEF shouldAcceptEvent
      <4> QED
        BY <4>1 DEF Settled
    <3>3. CASE place[f] = "done"
      <4>1. OnRecord(f, event, captures, gaveUp)
        BY <1>1, <3>3 DEF FolderInv, FilesInv
      <4> QED
        BY <4>1 DEF OnRecord, Settled
    <3>4. CASE mode # "xml" /\ event[f].quality # "good"
      BY <3>4 DEF Settled
    <3> QED
      BY <1>4, <3>1, <3>2, <3>3, <3>4 DEF Readable, BuiltFromXml, BuiltFromJpeg, Extracted
  <2>6. RowsGrow /\ Settled(f, event, captures', gaveUp') /\ Up(place') = Up(place) /\ place' = place
        /\ UNCHANGED <<date, event, late>>
    BY <1>2, <2>5 DEF RowsGrow, folderVars
  <2> HIDE DEF f
  <2> QED
    BY <1>1, <2>2, <2>3, <2>4, <2>6, GoesOn
<1> QED
  BY <1>3, <1>4

LEMMA GivesUp ==
  ASSUME OthersTyped, NEW f \in Files, NEW x, gaveUp' = [gaveUp EXCEPT ![f] = @ \union {x}]
  PROVE  /\ \A g \in Files : gaveUp[g] \subseteq gaveUp'[g]
         /\ x \in gaveUp'[f]
  BY DEF OthersTyped

LEMMA ReadFaultFolder == ASSUME FolderInv, NEW w \in Readers, ReadFault(w) PROVE FolderInv'
<1> DEFINE f == First(w)
<1>1. /\ f \in worker[w].todo /\ f \in Files /\ \A g \in worker[w].todo : f <= g
      /\ OthersTyped
  BY AtFile, FolderTyped DEF ReadFault
<1>2. UNCHANGED <<date, mode, camera, reachable, folderVars, watching, captures>>
      /\ gaveUp' = [gaveUp EXCEPT ![f] = @ \union {"error"}] /\ Skip(w, f)
  BY DEF ReadFault
<1>3. calls' \in 0 .. CallLimit
  BY <1>1, OneMore DEF ReadFault
<1> HIDE DEF f
<1>4. worker' = [worker EXCEPT ![w] = OnWith(worker[w].todo \ {f})]
      /\ <<ticking', backoff'>> \in BOOLEAN \X BOOLEAN
  BY <1>1, <1>2, ContinueIs DEF Skip
<1>5. cursor' \in {cursor, f}
  BY <1>2 DEF Skip
<1>6. OthersTyped'
  <2>1. \E g \in Files, x \in {"error", "refused"} : gaveUp' = [gaveUp EXCEPT ![g] = @ \union {x}]
    BY <1>1, <1>2
  <2>2. cursor' \in Files \union {0}
    BY <1>1, <1>5 DEF OthersTyped
  <2> QED
    BY <1>1, <1>2, <1>3, <1>4, <2>1, <2>2, ReaderTyped DEF folderVars
<1>7. RowsGrow /\ Settled(f, event, captures', gaveUp')
  BY <1>1, <1>2, GivesUp DEF RowsGrow, Settled
<1>8. UNCHANGED <<date, event, late, place>> /\ Up(place') = Up(place)
  BY <1>2 DEF folderVars
<1> QED
  BY <1>1, <1>4, <1>5, <1>6, <1>7, <1>8, GoesOn

LEMMA PushFolder == ASSUME FolderInv, NEW w \in Pushes, PushEvent(w) PROVE FolderInv'
<1>1. PICK p \in Vehicles :
        worker' = [worker EXCEPT ![w] = [worker[w] EXCEPT
          !.pc = "event", !.event = [plate |-> p, day |-> date, quality |-> "good"]]]
  BY DEF PushEvent
<1> DEFINE e == [plate |-> p, day |-> date, quality |-> "good"]
           q == [worker[w] EXCEPT !.pc = "event", !.event = e]
<1>2. OthersTyped /\ w \in Workers /\ w \notin Readers
  BY FolderTyped, WorkersAssumption DEF Workers, Readers
<1>3. worker[w] \in Worker /\ PushInv(worker[w])
  BY <1>2, FolderWorker
<1>4. e \in Event
  BY <1>2 DEF OthersTyped, Event
<1>5. worker' = [worker EXCEPT ![w] = q]
  BY <1>1
<1> HIDE DEF e
<1>6. q \in Worker /\ q.pc = "event" /\ q.file = 0 /\ q.todo = {}
  BY <1>3, <1>4 DEF Worker, PushInv
<1> HIDE DEF q
<1>7. WorkerInv(w, q, Up(place), late, event, captures, gaveUp)
  BY <1>2, <1>6 DEF WorkerInv, PushInv
<1>8. calls' \in 0 .. CallLimit
  BY <1>2, OneMore DEF PushEvent
<1>9. OthersTyped' /\ UNCHANGED <<date, folderVars, captures, gaveUp, cursor>>
  BY <1>2, <1>8 DEF PushEvent, OthersTyped, folderVars, watchVars
<1> QED
  BY <1>2, <1>5, <1>7, <1>9, FolderLight

\* Identifiers have no gaps, and a worker's is at most the next one.
Numbered(cap, ws, n) ==
  /\ \A c \in cap : c.id <= n
  /\ \A i \in 1 .. n : \E c \in cap : c.id = i
  /\ \A w \in Workers : ws[w].id <= n + 1
IdsInv == \E n \in Nat : Numbered(captures, worker, n)

LEMMA Greatest ==
  ASSUME NEW T \in SUBSET Nat, NEW n \in T, \A i \in T : i <= n
  PROVE  (CHOOSE i \in T : \A j \in T : j <= i) = n
<1> DEFINE m == CHOOSE i \in T : \A j \in T : j <= i
<1>1. m \in T /\ \A j \in T : j <= m
  OBVIOUS
<1>2. m <= n /\ n <= m /\ m \in Nat /\ n \in Nat
  BY <1>1
<1> HIDE DEF m
<1>3. m = n
  BY <1>2
<1> QED
  BY <1>3 DEF m

LEMMA NextIdIs ==
  ASSUME OthersTyped, NEW n \in Nat, Numbered(captures, worker, n) PROVE NextCaptureId = n + 1
<1>1. \A c \in captures : c.id \in Nat /\ c.id # 0 /\ c.id <= n
  BY DEF OthersTyped, CaptureRow, Ids, Numbered
<1>2. CASE captures = {}
  <2>1. n = 0
    <3>1. ~ (1 \in 1 .. n)
      BY <1>2 DEF Numbered
    <3> QED
      BY <3>1
  <2> QED
    BY <1>2, <2>1 DEF NextCaptureId
<1>3. CASE captures # {}
  <2> DEFINE T == {c.id : c \in captures}
  <2>1. n # 0
    BY <1>1, <1>3
  <2>2. PICK c \in captures : c.id = n
    BY <2>1 DEF Numbered
  <2>3. n \in T /\ T \in SUBSET Nat /\ \A i \in T : i <= n
    BY <1>1, <2>2
  <2>4. (CHOOSE i \in T : \A j \in T : j <= i) = n
    BY <2>3, Greatest
  <2>5. \A i : (\A d \in captures : d.id <= i) <=> \A j \in T : j <= i
    OBVIOUS
  <2>6. (CHOOSE i \in T : \A d \in captures : d.id <= i) = CHOOSE i \in T : \A j \in T : j <= i
    BY <2>5
  <2>7. NextCaptureId = 1 + (CHOOSE i \in T : \A d \in captures : d.id <= i)
    BY <1>3 DEF NextCaptureId
  <2> HIDE DEF T
  <2>8. NextCaptureId = 1 + n
    BY <2>4, <2>6, <2>7
  <2> QED
    BY <2>8
<1> QED
  BY <1>2, <1>3

LEMMA NextIdTyped == FolderInv /\ IdsInv => NextCaptureId \in Nat /\ NextCaptureId # 0
  BY NextIdIs, FolderTyped DEF IdsInv

\* GuardEvent, InsertCapture and SaveCamera go on with one record.
LEMMA WorkerOf ==
  ASSUME NEW w \in Workers
  PROVE  w \in Readers \/ w \in Pushes
  BY DEF Workers

LEMMA GuardFolder ==
  ASSUME FolderInv, IdsInv, NEW w \in Workers, GuardEvent(w) PROVE FolderInv'
<1> DEFINE q0 == worker[w]
           e == q0.event
           f == q0.file
           refused == f # 0 /\ ~ camera.ftp
           kept == shouldAcceptEvent(e) /\ ~ refused /\ e.quality = "good"
           qs == [q0 EXCEPT !.pc = "store", !.camera = camera, !.id = NextCaptureId]
           qm == [q0 EXCEPT !.pc = "move"]
<1>1. OthersTyped /\ q0 \in Worker /\ q0.pc = "event" /\ NextCaptureId \in Nat /\ NextCaptureId # 0
  BY FolderTyped, FolderWorker, NextIdTyped DEF GuardEvent
<1>2. /\ UNCHANGED <<date, mode, camera, reachable, folderVars, cursor, watchVars, captures, calls>>
      /\ gaveUp' = IF refused THEN [gaveUp EXCEPT ![f] = @ \union {"refused"}] ELSE gaveUp
      /\ worker' = [worker EXCEPT ![w] = CASE kept -> qs [] ~ kept /\ f # 0 -> qm [] OTHER -> NoWork]
  BY DEF GuardEvent
<1>3. w \in Pushes => PushInv(q0)
  BY FolderWorker
<1>4. w \in Readers => ReaderInv(q0, Up(place), late, event, captures, gaveUp)
  BY FolderWorker
<1>5. f # 0 => w \in Readers /\ f \in Up(place) /\ f \in Files /\ e = event[f]
  <2>1. ASSUME f # 0 PROVE w \in Readers /\ f \in Up(place) /\ f \in Files /\ e = event[f]
    <3>1. w \in Readers
      BY <1>3, <2>1, WorkerOf DEF PushInv
    <3>2. f \in Up(place) /\ e = event[f]
      BY <1>4, <2>1, <3>1 DEF ReaderInv
    <3> QED
      BY <3>1, <3>2, UpIsFiles
  <2> QED
    BY <2>1
<1> HIDE DEF f, e
<1>6. /\ RowsGrow
      /\ OthersTyped'
      /\ refused => "refused" \in gaveUp'[f]
  <2>1. CASE refused
    <3>1. f \in Files /\ gaveUp' = [gaveUp EXCEPT ![f] = @ \union {"refused"}]
      BY <1>2, <1>5, <2>1
    <3>2. RowsGrow /\ "refused" \in gaveUp'[f]
      BY <1>1, <1>2, <3>1, GivesUp DEF RowsGrow
    <3>3. gaveUp' \in [Files -> SUBSET {"error", "refused"}]
      BY <1>1, <3>1 DEF OthersTyped
    <3> QED
      BY <1>1, <1>2, <3>2, <3>3 DEF OthersTyped, folderVars, watchVars
  <2>2. CASE ~ refused
    BY <1>1, <1>2, <2>2 DEF RowsGrow, OthersTyped, folderVars, watchVars
  <2> QED
    BY <2>1, <2>2
<1>7. UNCHANGED <<date, event, late, place, cursor>> /\ captures' = captures
  BY <1>2 DEF folderVars
<1>8. WorkerInv(w, q0, Up(place), late, event, captures', gaveUp')
  <2>1. Grows(Up(place), late, event, captures, gaveUp, Up(place), late, event, captures', gaveUp')
    BY <1>6, UpIsFiles DEF RowsGrow, Grows
  <2>2. WorkerInv(w, q0, Up(place), late, event, captures, gaveUp)
    BY DEF FolderInv
  <2> QED
    BY <2>1, <2>2, WorkerGrows
<1>9. /\ w \in Pushes => PushInv(q0)
      /\ w \in Readers => ReaderInv(q0, Up(place), late, event, captures', gaveUp')
  BY <1>8 DEF WorkerInv
<1>10. ASSUME NEW q, worker' = [worker EXCEPT ![w] = q],
              WorkerInv(w, q, Up(place), late, event, captures', gaveUp')
       PROVE  FolderInv'
  <2>1. Up(place') = Up(place) /\ \A g \in Files : place'[g] = "done" => place[g] = "done"
    BY <1>7
  <2> QED
    BY <1>6, <1>7, <1>10, <2>1, FolderOfOne
<1>11. CASE kept
  <2>1. worker' = [worker EXCEPT ![w] = qs]
    BY <1>2, <1>11
  <2>2. /\ qs \in Worker /\ qs.pc = "store" /\ qs.file = q0.file /\ qs.todo = q0.todo
        /\ qs.event = q0.event /\ qs.id # 0
    <3>1. camera \in Camera /\ NextCaptureId \in Ids \union {0}
      BY <1>1 DEF OthersTyped, Ids
    <3> QED
      BY <1>1, <3>1 DEF Worker
  <2> HIDE DEF qs
  <2>3. w \in Pushes => PushInv(qs)
    BY <1>9, <2>2 DEF PushInv
  <2>4. w \in Readers => ReaderInv(qs, Up(place), late, event, captures', gaveUp')
    BY <1>1, <1>9, <2>2 DEF ReaderInv
  <2> QED
    BY <1>10, <2>1, <2>2, <2>3, <2>4 DEF WorkerInv
<1>12. CASE ~ kept /\ f # 0
  <2>1. worker' = [worker EXCEPT ![w] = qm]
    BY <1>2, <1>12
  <2>2. /\ qm \in Worker /\ qm.pc = "move" /\ qm.file = q0.file /\ qm.todo = q0.todo
        /\ qm.event = q0.event
    BY <1>1 DEF Worker
  <2> HIDE DEF qm
  <2>3. OnRecord(f, event, captures', gaveUp')
    <3>1. CASE refused
      BY <1>6, <3>1 DEF OnRecord
    <3>2. CASE ~ shouldAcceptEvent(e)
      <4>1. event[f].quality # "good" \/ StoredIn(event[f], captures')
        BY <1>5, <1>7, <1>12, <3>2, SeenIsStored DEF shouldAcceptEvent
      <4> QED
        BY <4>1 DEF OnRecord
    <3>3. CASE e.quality # "good"
      BY <1>5, <1>12, <3>3 DEF OnRecord
    <3> QED
      BY <1>12, <3>1, <3>2, <3>3
  <2>4. w \in Readers /\ w \notin Pushes
    BY <1>5, <1>12, WorkersAssumption DEF Readers
  <2>5. ReaderInv(qm, Up(place), late, event, captures', gaveUp')
    BY <1>1, <1>9, <2>2, <2>3, <2>4 DEF ReaderInv, f
  <2> QED
    BY <1>10, <2>1, <2>2, <2>4, <2>5 DEF WorkerInv
<1>13. CASE ~ kept /\ f = 0
  <2>1. worker' = [worker EXCEPT ![w] = NoWork]
    BY <1>2, <1>13
  <2> QED
    BY <1>10, <2>1, NoWorkInv
<1> QED
  BY <1>11, <1>12, <1>13

LEMMA InsertFolder == ASSUME FolderInv, NEW w \in Workers, InsertCapture(w) PROVE FolderInv'
<1> DEFINE q0 == worker[w]
           f == q0.file
           c == [id |-> q0.id, source |-> f, plate |-> q0.event.plate, day |-> q0.event.day, gone |-> FALSE]
           qs == [q0 EXCEPT !.pc = "seen"]
<1>1. OthersTyped /\ q0 \in Worker /\ q0.pc = "store" /\ q0.id # 0
  BY FolderTyped, FolderWorker DEF InsertCapture
<1>2. /\ w \in Pushes => PushInv(q0)
      /\ w \in Readers => ReaderInv(q0, Up(place), late, event, captures, gaveUp)
  BY FolderWorker
<1>3. f # 0 => w \in Readers /\ w \notin Pushes /\ f \in Up(place) /\ f \in Files /\ q0.event = event[f]
               /\ f \in q0.todo /\ \A g \in q0.todo : f <= g
  <2>1. ASSUME f # 0 PROVE w \in Readers /\ w \notin Pushes
    BY <1>2, <2>1, WorkerOf DEF PushInv
  <2>2. ASSUME f # 0
        PROVE  f \in Up(place) /\ q0.event = event[f] /\ f \in q0.todo /\ \A g \in q0.todo : f <= g
    BY <1>2, <2>1, <2>2 DEF ReaderInv
  <2> QED
    BY <2>1, <2>2, UpIsFiles
<1>4. c \in CaptureRow /\ c.id = q0.id /\ c.plate = q0.event.plate /\ c.day = q0.event.day
  BY <1>1 DEF Worker, CaptureRow, Event, Ids
<1>5. UNCHANGED <<date, mode, camera, reachable, folderVars, watching, calls>>
  BY DEF InsertCapture
<1>6. UNCHANGED <<date, event, late, place>> /\ Up(place') = Up(place)
  BY <1>5 DEF folderVars
<1>7. CASE ~ Collides(c) /\ captures' = captures \union {c}
           /\ worker' = [worker EXCEPT ![w] = IF f = 0 THEN NoWork ELSE qs]
           /\ UNCHANGED <<cursor, ticking, backoff, gaveUp>>
  <2> HIDE DEF c, f
  <2>1. RowsGrow
    BY <1>7 DEF RowsGrow
  <2>2. \A a, b \in captures' : a.id = b.id => a = b
    BY <1>1, <1>7 DEF Collides, OthersTyped
  <2>3. OthersTyped'
    BY <1>1, <1>4, <1>5, <1>7, <2>2 DEF OthersTyped, folderVars
  <2>4. CASE f = 0
    <3>1. worker' = [worker EXCEPT ![w] = NoWork]
      BY <1>7, <2>4
    <3> QED
      BY <1>6, <1>7, <2>1, <2>3, <3>1, NoWorkInv, FolderOfOne
  <2>5. CASE f # 0
    <3>1. worker' = [worker EXCEPT ![w] = qs]
      BY <1>7, <2>5
    <3>2. qs \in Worker /\ qs.pc = "seen" /\ qs.todo = q0.todo /\ qs.file = f /\ qs.event = q0.event
      BY <1>1 DEF Worker, f
    <3> HIDE DEF qs
    <3>3. StoredIn(event[f], captures')
      BY <1>3, <1>4, <1>7, <2>5 DEF StoredIn
    <3>4. Grows(Up(place), late, event, captures, gaveUp, Up(place), late, event, captures', gaveUp')
      BY <2>1, UpIsFiles DEF RowsGrow, Grows
    <3>5. WorkerInv(w, q0, Up(place), late, event, captures, gaveUp)
      BY DEF FolderInv
    <3>6. WorkerInv(w, q0, Up(place), late, event, captures', gaveUp')
      BY <3>4, <3>5, WorkerGrows
    <3>7. ReaderInv(q0, Up(place), late, event, captures', gaveUp')
      BY <1>3, <2>5, <3>6 DEF WorkerInv
    <3>8. ReaderInv(qs, Up(place), late, event, captures', gaveUp')
      BY <1>1, <2>5, <3>2, <3>3, <3>7 DEF ReaderInv, f
    <3>9. WorkerInv(w, qs, Up(place), late, event, captures', gaveUp')
      BY <1>3, <2>5, <3>2, <3>8 DEF WorkerInv
    <3> QED
      BY <1>6, <1>7, <2>1, <2>3, <3>1, <3>9, FolderOfOne
  <2> QED
    BY <2>4, <2>5
<1>8. CASE f = 0 /\ worker' = [worker EXCEPT ![w] = NoWork]
           /\ UNCHANGED <<cursor, ticking, backoff, captures, gaveUp>>
  <2>1. OthersTyped'
    BY <1>1, <1>5, <1>8 DEF OthersTyped, folderVars
  <2> QED
    BY <1>5, <1>8, <2>1, NoWorkInv, FolderLight
<1>9. CASE f # 0 /\ gaveUp' = [gaveUp EXCEPT ![f] = @ \union {"error"}] /\ Skip(w, f)
           /\ UNCHANGED captures
  <2> HIDE DEF f
  <2>1. worker' = [worker EXCEPT ![w] = OnWith(worker[w].todo \ {f})]
        /\ <<ticking', backoff'>> \in BOOLEAN \X BOOLEAN
    BY <1>1, <1>9, ContinueIs DEF Skip
  <2>2. cursor' \in {cursor, f} /\ f \in Files
    BY <1>3, <1>9 DEF Skip
  <2>3. OthersTyped'
    <3>1. \E g \in Files, x \in {"error", "refused"} : gaveUp' = [gaveUp EXCEPT ![g] = @ \union {x}]
      BY <1>9, <2>2
    <3>2. cursor' \in Files \union {0} /\ calls' \in 0 .. CallLimit
      BY <1>1, <1>5, <2>2 DEF OthersTyped
    <3> QED
      BY <1>1, <1>5, <1>9, <2>1, <3>1, <3>2, ReaderTyped DEF folderVars
  <2>4. RowsGrow /\ Settled(f, event, captures', gaveUp')
    BY <1>1, <1>9, <2>2, GivesUp DEF RowsGrow, Settled
  <2> QED
    BY <1>3, <1>6, <1>9, <2>1, <2>2, <2>3, <2>4, GoesOn
<1> QED
  BY <1>7, <1>8, <1>9 DEF InsertCapture

LEMMA SaveFolder == ASSUME FolderInv, NEW w \in Workers, SaveCamera(w) PROVE FolderInv'
<1> DEFINE q0 == worker[w]
           q == [q0 EXCEPT !.pc = "move"]
<1>1. OthersTyped /\ q0 \in Worker /\ q0.pc = "seen"
  BY FolderTyped, FolderWorker DEF SaveCamera
<1>2. w \in Readers /\ w \notin Pushes
  <2>1. ~ PushInv(q0)
    BY <1>1 DEF PushInv
  <2> QED
    BY <2>1, FolderWorker, WorkerOf
<1>3. ReaderInv(q0, Up(place), late, event, captures, gaveUp)
  BY <1>2, FolderWorker
<1>4. UNCHANGED <<date, mode, reachable, folderVars, cursor, watchVars, captures, gaveUp, calls>>
      /\ worker' = [worker EXCEPT ![w] = q] /\ camera' = [q0.camera EXCEPT !.online = TRUE]
  BY DEF SaveCamera
<1>5. camera' \in Camera
  BY <1>1, <1>4 DEF Worker, Camera
<1>6. OthersTyped'
  BY <1>1, <1>4, <1>5 DEF OthersTyped, folderVars, watchVars
<1>7. q \in Worker /\ q.pc = "move" /\ q.todo = q0.todo /\ q.file = q0.file /\ q.event = q0.event
  BY <1>1 DEF Worker
<1>8. OnRecord(q0.file, event, captures, gaveUp)
  BY <1>1, <1>3 DEF ReaderInv, OnRecord
<1> HIDE DEF q
<1>9. ReaderInv(q, Up(place), late, event, captures, gaveUp)
  BY <1>1, <1>3, <1>7, <1>8 DEF ReaderInv
<1>10. WorkerInv(w, q, Up(place), late, event, captures, gaveUp)
  BY <1>2, <1>7, <1>9 DEF WorkerInv
<1> QED
  BY <1>4, <1>6, <1>10, FolderLight

LEMMA MoveFolder == ASSUME FolderInv, NEW w \in Readers, MoveFile(w) PROVE FolderInv'
<1> DEFINE f == worker[w].file
<1>1. /\ ReaderInv(worker[w], Up(place), late, event, captures, gaveUp) /\ OthersTyped
      /\ worker[w].pc = "move" /\ worker[w].todo \subseteq Files
  BY AtFile, FolderTyped DEF MoveFile
<1>2. /\ f \in worker[w].todo /\ f \in Files /\ f \in Up(place) /\ \A g \in worker[w].todo : f <= g
      /\ OnRecord(f, event, captures, gaveUp)
  BY <1>1 DEF ReaderInv
<1>3. UNCHANGED <<date, mode, camera, reachable, event, late, watching, captures, gaveUp>>
      /\ cursor' = f /\ Continue(w, worker[w].todo \ {f})
      /\ (place' = [place EXCEPT ![f] = "done"] \/ place' = place)
  BY DEF MoveFile
<1>4. calls' \in 0 .. CallLimit
  BY <1>1, OneMore DEF MoveFile, OthersTyped
<1> HIDE DEF f
<1>5. worker' = [worker EXCEPT ![w] = OnWith(worker[w].todo \ {f})]
      /\ <<ticking', backoff'>> \in BOOLEAN \X BOOLEAN
  BY <1>1, <1>3, ContinueIs
<1>6. OthersTyped'
  BY <1>1, <1>2, <1>3, <1>4, <1>5, ReaderTyped
<1>7. Up(place') = Up(place) /\ \A g \in Files : place'[g] = "done" => place[g] = "done" \/ g = f
  BY <1>1, <1>2, <1>3 DEF OthersTyped, Up
<1>8. RowsGrow /\ Settled(f, event, captures', gaveUp') /\ OnRecord(f, event, captures', gaveUp')
  BY <1>2, <1>3 DEF RowsGrow, Settled, OnRecord
<1> QED
  BY <1>2, <1>3, <1>5, <1>6, <1>7, <1>8, GoesOn

LEMMA MidnightFolder == ASSUME FolderInv, Midnight PROVE FolderInv'
<1>1. OthersTyped /\ worker \in [Workers -> Worker]
      /\ FilesInv(date, Up(place), late, event, captures, gaveUp, place, cursor)
  BY FolderTyped DEF FolderInv
<1>2. /\ UNCHANGED <<mode, camera, reachable, event, place, cursor, watchVars, worker, captures, gaveUp>>
      /\ date < LastDate /\ date' = date + 1 /\ late' = late \union {f \in Uploaded : f > cursor}
  BY DEF Midnight
<1>3. date \in Nat /\ date' \in Dates
  BY <1>1, <1>2, LimitsAssumption DEF OthersTyped, Dates
<1>4. calls' \in 0 .. CallLimit
  BY <1>1, OneMore DEF Midnight
<1>5. late' \subseteq Files /\ late \subseteq late'
  BY <1>1, <1>2, UpIsFiles DEF OthersTyped
<1>6. OthersTyped'
  BY <1>1, <1>2, <1>3, <1>4, <1>5 DEF OthersTyped, watchVars
<1>7. GrowsNext
  BY <1>2, <1>5, UpIsFiles DEF GrowsNext, Grows
<1>8. WorkersNext
  BY <1>2, <1>7, WorkerGrows DEF GrowsNext, FolderInv, WorkersNext
<1>9. FilesInv(date', Up(place'), late', event', captures', gaveUp', place', cursor')
  <2>1. ASSUME NEW f \in Up(place) PROVE event[f].day <= date'
    <3>1. event[f].day \in Nat /\ event[f].day <= date
      BY <1>1, LimitsAssumption, UpIsFiles DEF FilesInv, OthersTyped, Event, Dates
    <3> QED
      BY <1>2, <1>3, <3>1
  <2>2. ASSUME NEW f \in Up(place) \ late' PROVE Settled(f, event, captures, gaveUp)
    <3>1. f \notin late /\ ~ (f > cursor) /\ f \in Nat /\ cursor \in Nat
      <4>1. f \in Files /\ cursor \in Files \union {0}
        BY <1>1, UpIsFiles DEF OthersTyped
      <4> QED
        BY <1>2, <4>1, UpIsFiles, FilesNat
    <3> QED
      BY <1>1, <3>1 DEF FilesInv
  <2> QED
    BY <1>1, <1>2, <2>1, <2>2 DEF FilesInv
<1> QED
  BY <1>1, <1>2, <1>6, <1>8, <1>9, TypesSplit DEF FolderInv, WorkersNext

\* A restart forgets the errors of today, and the cursor and lists with them.
LEMMA RestartFolder == ASSUME FolderInv, Restart PROVE FolderInv'
<1>1. OthersTyped /\ FilesInv(date, Up(place), late, event, captures, gaveUp, place, cursor)
  BY FolderTyped DEF FolderInv
<1>2. /\ UNCHANGED <<date, mode, camera, reachable, event, place, late, captures>>
      /\ cursor' = 0 /\ worker' = [w \in Workers |-> NoWork]
      /\ watching' = camera.ftp /\ ticking' = FALSE /\ backoff' = FALSE
      /\ gaveUp' = [f \in Files |-> IF event[f].day = date THEN gaveUp[f] \ {"error"} ELSE gaveUp[f]]
  BY DEF Restart, folderVars
<1>3. calls' \in 0 .. CallLimit
  BY <1>1, OneMore DEF Restart
<1>4. gaveUp' \in [Files -> SUBSET {"error", "refused"}]
  BY <1>1, <1>2 DEF OthersTyped
<1>5. OthersTyped'
  BY <1>1, <1>2, <1>3, <1>4 DEF OthersTyped, Camera
<1>6. ASSUME NEW f \in Files
      PROVE  /\ OnRecord(f, event, captures, gaveUp) => OnRecord(f, event, captures, gaveUp')
             /\ event[f].day # date => gaveUp'[f] = gaveUp[f]
  BY <1>2 DEF OnRecord
<1>7. FilesInv(date', Up(place'), late', event', captures', gaveUp', place', cursor')
  <2>1. ASSUME NEW f \in Up(place) \ late, event[f].day # date \/ f <= 0
        PROVE  Settled(f, event, captures, gaveUp')
    <3>1. event[f].day # date
      <4>1. f \in Nat /\ f # 0
        BY UpIsFiles, FilesNat
      <4> QED
        BY <2>1, <4>1
    <3>2. Settled(f, event, captures, gaveUp) /\ f \in Files
      BY <1>1, <3>1, UpIsFiles DEF FilesInv
    <3> QED
      BY <1>6, <3>1, <3>2 DEF Settled
  <2> QED
    BY <1>1, <1>2, <1>6, <2>1 DEF FilesInv
<1>8. \A w \in Workers : WorkerInv(w, worker'[w], Up(place'), late', event', captures', gaveUp')
  BY <1>2, NoWorkInv
<1>9. worker' \in [Workers -> Worker]
  BY <1>2, NoWorkInv DEF WorkerInv
<1> QED
  BY <1>5, <1>7, <1>8, <1>9, TypesSplit DEF FolderInv

LEMMA FolderStep == FolderInv /\ IdsInv /\ [NextIngest]_ingestVars => FolderInv'
<1> SUFFICES ASSUME FolderInv, IdsInv, [NextIngest]_ingestVars PROVE FolderInv'
  OBVIOUS
<1>1. ASSUME NEW w \in Workers, processEvent(w) PROVE FolderInv'
  BY <1>1, GuardFolder, InsertFolder, SaveFolder DEF processEvent
<1>2. ASSUME NEW w \in Readers, ReadFolder(w) PROVE FolderInv'
  <2>1. w \in Workers
    BY DEF Workers
  <2> QED
    BY <1>2, <2>1, <1>1, ListFolderInv, ReadFileFolder, MoveFolder DEF ReadFolder
<1>3. ASSUME NEW w \in Cycles, StartCycle(w) \/ Cycle(w) PROVE FolderInv'
  <2>1. w \in Readers
    BY DEF Readers
  <2> QED
    BY <1>3, <2>1, <1>2, RoundFolder DEF Cycle
<1>4. ASSUME SweepFolder PROVE FolderInv'
  <2>1. FolderSweep \in Readers
    BY DEF Readers
  <2> QED
    BY <1>4, <2>1, <1>2 DEF SweepFolder
<1>5. ASSUME NEW w \in Readers, ListFault(w) \/ ReadFault(w) PROVE FolderInv'
  BY <1>5, ListFaultFolder, ReadFaultFolder
<1>6. ASSUME NEW w \in Pushes, PushEvent(w) \/ processEvent(w) PROVE FolderInv'
  <2>1. w \in Workers
    BY DEF Workers
  <2> QED
    BY <1>6, <2>1, <1>1, PushFolder
<1>7. ASSUME UNCHANGED ingestVars PROVE FolderInv'
  <2>1. UNCHANGED <<date, mode, camera, reachable, event, place, late, cursor, watching, ticking,
                    backoff, worker, captures, gaveUp, calls>>
    BY <1>7 DEF ingestVars, folderVars, watchVars
  <2>2. OthersTyped'
    BY <2>1, FolderTyped DEF OthersTyped
  <2>3. RowsGrow
    BY <2>1 DEF RowsGrow
  <2> QED
    BY <2>1, <2>2, <2>3, FolderOfNone
<1> QED
  BY <1>3, <1>4, <1>5, <1>6, <1>7, UploadFolder, CameraFolder, RemoveFolder, StartSweepFolder,
     MidnightFolder, RestartFolder DEF NextIngest

-----------------------------------------------------------------------------
(* CaptureIngest: the identifiers of captures, and the lock of the watcher. *)

\* A worker keeps its identifier or drops it, and no capture is new.
LEMMA IdsStay ==
  ASSUME IdsInv, \A c \in captures' : \E d \in captures : d.id = c.id,
         \A d \in captures : \E c \in captures' : c.id = d.id,
         \A x \in Workers : worker'[x].id \in {worker[x].id, 0}
  PROVE  IdsInv'
<1>1. PICK n \in Nat : Numbered(captures, worker, n)
  BY DEF IdsInv
<1>2. \A c \in captures' : c.id <= n
  BY <1>1 DEF Numbered
<1>3. \A i \in 1 .. n : \E c \in captures' : c.id = i
  BY <1>1 DEF Numbered
<1>4. ASSUME NEW x \in Workers PROVE worker'[x].id <= n + 1
  <2>1. worker[x].id <= n + 1
    BY <1>1 DEF Numbered
  <2> QED
    BY <2>1
<1>5. Numbered(captures', worker', n)
  BY <1>2, <1>3, <1>4 DEF Numbered
<1> QED
  BY <1>5 DEF IdsInv

\* A step in which one worker moves.
LEMMA IdsOfOne ==
  ASSUME IdsInv, captures' = captures, worker \in [Workers -> Worker], NEW w \in Workers, NEW q,
         worker' = [worker EXCEPT ![w] = q], q.id \in {worker[w].id, 0}
  PROVE  IdsInv'
<1>1. \A x \in Workers : worker'[x].id \in {worker[x].id, 0}
  OBVIOUS
<1> QED
  BY <1>1, IdsStay

LEMMA IdsOfContinue ==
  ASSUME IdsInv, OthersTyped, captures' = captures, worker \in [Workers -> Worker], NEW w \in Workers,
         NEW rest, Continue(w, rest)
  PROVE  IdsInv'
<1>1. worker' = [worker EXCEPT ![w] = OnWith(rest)]
  BY ContinueIs
<1>2. OnWith(rest).id = 0
  BY DEF OnWith, NoWork
<1> QED
  BY <1>1, <1>2, IdsOfOne

LEMMA GuardIds == ASSUME FolderInv, IdsInv, NEW w \in Workers, GuardEvent(w) PROVE IdsInv'
<1> DEFINE q0 == worker[w]
           f == q0.file
           refused == f # 0 /\ ~ camera.ftp
           kept == shouldAcceptEvent(q0.event) /\ ~ refused /\ q0.event.quality = "good"
           qs == [q0 EXCEPT !.pc = "store", !.camera = camera, !.id = NextCaptureId]
           qm == [q0 EXCEPT !.pc = "move"]
<1>1. OthersTyped /\ worker \in [Workers -> Worker] /\ q0 \in Worker /\ captures' = captures
  BY FolderTyped, FolderWorker DEF GuardEvent
<1>2. worker' = [worker EXCEPT ![w] = CASE kept -> qs [] ~ kept /\ f # 0 -> qm [] OTHER -> NoWork]
  BY DEF GuardEvent
<1>3. PICK n \in Nat : Numbered(captures, worker, n)
  BY DEF IdsInv
<1>4. CASE kept
  <2>1. worker' = [worker EXCEPT ![w] = qs]
    BY <1>2, <1>4
  <2>2. qs.id = n + 1
    BY <1>1, <1>3, NextIdIs DEF Worker
  <2>3. ASSUME NEW x \in Workers PROVE worker'[x].id <= n + 1
    <3>1. worker[x].id <= n + 1
      BY <1>3 DEF Numbered
    <3>2. worker'[x].id \in {worker[x].id, n + 1}
      BY <1>1, <2>1, <2>2
    <3> QED
      BY <3>1, <3>2
  <2>4. Numbered(captures', worker', n)
    BY <1>1, <1>3, <2>3 DEF Numbered
  <2> QED
    BY <2>4 DEF IdsInv
<1>5. CASE ~ kept /\ f # 0
  <2>1. worker' = [worker EXCEPT ![w] = qm] /\ qm.id = q0.id
    BY <1>1, <1>2, <1>5 DEF Worker
  <2> QED
    BY <1>1, <2>1, IdsOfOne
<1>6. CASE ~ kept /\ f = 0
  <2>1. worker' = [worker EXCEPT ![w] = NoWork] /\ NoWork.id = 0
    BY <1>2, <1>6 DEF NoWork
  <2> QED
    BY <1>1, <2>1, IdsOfOne
<1> QED
  BY <1>4, <1>5, <1>6

LEMMA InsertIds == ASSUME FolderInv, IdsInv, NEW w \in Workers, InsertCapture(w) PROVE IdsInv'
<1> DEFINE q0 == worker[w]
           f == q0.file
           c == [id |-> q0.id, source |-> f, plate |-> q0.event.plate, day |-> q0.event.day, gone |-> FALSE]
           qs == [q0 EXCEPT !.pc = "seen"]
<1>1. OthersTyped /\ worker \in [Workers -> Worker] /\ q0 \in Worker /\ q0.id # 0 /\ q0.id \in Nat
  BY FolderTyped, FolderWorker DEF InsertCapture, Worker, Ids
<1>2. CASE /\ ~ Collides(c) /\ captures' = captures \union {c}
           /\ worker' = [worker EXCEPT ![w] = IF f = 0 THEN NoWork ELSE qs]
  <2>1. PICK n \in Nat : Numbered(captures, worker, n)
    BY DEF IdsInv
  <2>2. q0.id <= n + 1 /\ ~ \E d \in captures : d.id = q0.id
    BY <1>2, <2>1 DEF Numbered, Collides
  <2>3. q0.id = n + 1
    <3>1. ~ (q0.id \in 1 .. n)
      BY <2>1, <2>2 DEF Numbered
    <3> QED
      BY <1>1, <2>2, <3>1
  <2> DEFINE m == n + 1
  <2>4. m \in Nat /\ c.id = m /\ c \in captures'
    BY <1>2, <2>3
  <2>5. ASSUME NEW d \in captures' PROVE d.id <= m
    <3>1. CASE d \in captures
      <4>1. d.id <= n /\ d.id \in Nat
        BY <1>1, <2>1, <3>1 DEF Numbered, OthersTyped, CaptureRow, Ids
      <4> QED
        BY <4>1
    <3>2. CASE d = c
      BY <2>4, <3>2
    <3> QED
      BY <1>2, <3>1, <3>2
  <2>6. ASSUME NEW i \in 1 .. m PROVE \E d \in captures' : d.id = i
    <3>1. CASE i = m
      BY <2>4, <3>1
    <3>2. CASE i # m
      <4>1. i \in 1 .. n
        BY <3>2
      <4> QED
        BY <1>2, <2>1, <4>1 DEF Numbered
    <3> QED
      BY <3>1, <3>2
  <2>7. ASSUME NEW x \in Workers PROVE worker'[x].id <= m + 1
    <3>1. worker[x].id <= n + 1 /\ worker[x].id \in Nat
      BY <1>1, <2>1 DEF Numbered, Worker, Ids
    <3>2. worker'[x].id \in {worker[x].id, 0}
      BY <1>1, <1>2 DEF NoWork, Worker
    <3> QED
      BY <3>1, <3>2
  <2> HIDE DEF m, c
  <2>8. Numbered(captures', worker', m)
    BY <2>5, <2>6, <2>7 DEF Numbered
  <2> QED
    BY <2>4, <2>8 DEF IdsInv
<1>3. CASE worker' = [worker EXCEPT ![w] = NoWork] /\ captures' = captures
  <2>1. NoWork.id = 0
    BY DEF NoWork
  <2> QED
    BY <1>1, <1>3, <2>1, IdsOfOne
<1>4. CASE Skip(w, f) /\ captures' = captures
  BY <1>1, <1>4, IdsOfContinue DEF Skip
<1> QED
  BY <1>2, <1>3, <1>4 DEF InsertCapture

LEMMA IdsStep == FolderInv /\ IdsInv /\ [NextIngest]_ingestVars => IdsInv'
<1> SUFFICES ASSUME FolderInv, IdsInv, [NextIngest]_ingestVars PROVE IdsInv'
  OBVIOUS
<1>1. OthersTyped /\ worker \in [Workers -> Worker] /\ Readers \subseteq Workers /\ Pushes \subseteq Workers
      /\ Cycles \subseteq Workers /\ FolderSweep \in Readers
  BY FolderTyped DEF Workers, Readers
<1>2. ASSUME UNCHANGED <<worker, captures>> PROVE IdsInv'
  BY <1>2 DEF IdsInv, Numbered
<1>3. ASSUME NEW w \in Workers, NEW k, worker' = [worker EXCEPT ![w].pc = k], captures' = captures
      PROVE  IdsInv'
  <2>1. [worker[w] EXCEPT !.pc = k].id = worker[w].id
    BY <1>1 DEF Worker
  <2> QED
    BY <1>1, <1>3, <2>1, IdsOfOne
<1>4. ASSUME NEW w \in Workers, worker' = [worker EXCEPT ![w] = NoWork], captures' = captures
      PROVE  IdsInv'
  <2>1. NoWork.id = 0
    BY DEF NoWork
  <2> QED
    BY <1>1, <1>4, <2>1, IdsOfOne
<1>5. ASSUME NEW w \in Workers, processEvent(w) PROVE IdsInv'
  <2>1. CASE SaveCamera(w)
    BY <1>3, <2>1 DEF SaveCamera
  <2> QED
    BY <1>5, <2>1, GuardIds, InsertIds DEF processEvent
<1>6. ASSUME NEW w \in Readers, ReadFolder(w) PROVE IdsInv'
  <2>1. CASE ListFolder(w)
    BY <1>1, <2>1, IdsOfContinue DEF ListFolder
  <2>2. CASE ReadFile(w)
    <3>1. CASE Skip(w, First(w))
      BY <1>1, <2>2, <3>1, IdsOfContinue DEF ReadFile, Skip
    <3>2. CASE worker' = [worker EXCEPT ![w] = [@ EXCEPT
                 !.pc = "event", !.file = First(w), !.event = event[First(w)]]]
      <4> DEFINE q == [worker[w] EXCEPT !.pc = "event", !.file = First(w), !.event = event[First(w)]]
      <4>1. q.id = worker[w].id
        BY <1>1 DEF Worker
      <4>2. worker' = [worker EXCEPT ![w] = q] /\ captures' = captures
        BY <2>2, <3>2 DEF ReadFile
      <4> HIDE DEF q
      <4> QED
        BY <1>1, <4>1, <4>2, IdsOfOne
    <3> QED
      BY <2>2, <3>1, <3>2 DEF ReadFile
  <2>3. CASE processEvent(w)
    BY <1>1, <1>5, <2>3
  <2>4. CASE MoveFile(w)
    BY <1>1, <2>4, IdsOfContinue DEF MoveFile
  <2> QED
    BY <1>6, <2>1, <2>2, <2>3, <2>4 DEF ReadFolder
<1>7. ASSUME NEW w \in Cycles, StartCycle(w) \/ Cycle(w) PROVE IdsInv'
  <2>1. w \in Readers /\ w \in Workers
    BY DEF Readers, Workers
  <2>2. CASE StartCycle(w)
    BY <1>3, <2>1, <2>2 DEF StartCycle
  <2>3. CASE WakeCycle(w)
    BY <1>3, <2>1, <2>3 DEF WakeCycle
  <2>4. CASE EnterCycle(w)
    BY <1>3, <1>4, <2>1, <2>4 DEF EnterCycle
  <2> QED
    BY <1>7, <2>1, <2>2, <2>3, <2>4, <1>6 DEF Cycle
<1>8. ASSUME NEW w \in Readers, ListFault(w) \/ ReadFault(w) PROVE IdsInv'
  <2>1. CASE ListFault(w)
    BY <1>1, <1>4, <2>1 DEF ListFault
  <2>2. CASE ReadFault(w)
    BY <1>1, <2>2, IdsOfContinue DEF ReadFault, Skip
  <2> QED
    BY <1>8, <2>1, <2>2
<1>9. ASSUME NEW w \in Pushes, PushEvent(w) PROVE IdsInv'
  <2>1. PICK p \in Vehicles :
          worker' = [worker EXCEPT ![w] = [worker[w] EXCEPT
            !.pc = "event", !.event = [plate |-> p, day |-> date, quality |-> "good"]]]
    BY <1>1, <1>9 DEF PushEvent
  <2> DEFINE q == [worker[w] EXCEPT !.pc = "event",
                                    !.event = [plate |-> p, day |-> date, quality |-> "good"]]
  <2>2. q.id = worker[w].id
    BY <1>1 DEF Worker
  <2>3. worker' = [worker EXCEPT ![w] = q] /\ captures' = captures
    BY <1>9, <2>1 DEF PushEvent
  <2> HIDE DEF q
  <2> QED
    BY <1>1, <2>2, <2>3, IdsOfOne
<1>10. ASSUME RemoveCapture PROVE IdsInv'
  <2>1. PICK c \in captures : captures' = (captures \ {c}) \union {[c EXCEPT !.gone = TRUE]}
    BY <1>10 DEF RemoveCapture
  <2>2. [c EXCEPT !.gone = TRUE].id = c.id
    BY <1>1 DEF OthersTyped, CaptureRow
  <2>3. /\ \A d \in captures' : \E b \in captures : b.id = d.id
        /\ \A b \in captures : \E d \in captures' : d.id = b.id
    BY <2>1, <2>2
  <2>4. \A x \in Workers : worker'[x].id \in {worker[x].id, 0}
    BY <1>10 DEF RemoveCapture
  <2> QED
    BY <2>3, <2>4, IdsStay
<1>11. ASSUME Restart PROVE IdsInv'
  <2>1. \A x \in Workers : worker'[x].id = 0
    BY <1>11 DEF Restart, NoWork
  <2>2. captures' = captures
    BY <1>11 DEF Restart
  <2> QED
    BY <2>1, <2>2, IdsStay
<1>12. CASE UploadFile \/ DropOut \/ ComeBack \/ HealthCheck \/ SwitchCamera \/ Midnight \/ UNCHANGED ingestVars
  BY <1>12, <1>2 DEF UploadFile, DropOut, ComeBack, HealthCheck, SwitchCamera, Midnight, ingestVars
<1>13. CASE StartSweep
  BY <1>1, <1>3, <1>13 DEF StartSweep
<1> QED
  BY <1>1, <1>5, <1>6, <1>7, <1>8, <1>9, <1>10, <1>11, <1>12, <1>13 DEF NextIngest, SweepFolder

\* A step of a cycle frees the watcher or leaves the cycle at work; other
\* steps leave the lock and the cycles alone.
LEMMA WatcherOfOne ==
  ASSUME WatcherFree, worker \in [Workers -> Worker], NEW w \in Workers, NEW q,
         worker' = [worker EXCEPT ![w] = q],
         IF w \in Cycles THEN ticking' = FALSE \/ q.pc \notin {"idle", "wait"}
         ELSE ticking' = ticking
  PROVE  WatcherFree'
<1>1. Cycles \subseteq Workers
  BY DEF Workers, Readers
<1>2. CASE w \in Cycles
  <2>1. worker'[w] = q
    OBVIOUS
  <2> QED
    BY <1>2, <2>1 DEF WatcherFree
<1>3. CASE w \notin Cycles
  <2>1. \A x \in Cycles : worker'[x] = worker[x]
    BY <1>1, <1>3
  <2> QED
    BY <1>3, <2>1 DEF WatcherFree
<1> QED
  BY <1>2, <1>3

LEMMA WatcherOfContinue ==
  ASSUME WatcherFree, OthersTyped, worker \in [Workers -> Worker], NEW w \in Workers, NEW rest,
         Continue(w, rest)
  PROVE  WatcherFree'
<1>1. worker' = [worker EXCEPT ![w] = OnWith(rest)]
  BY ContinueIs
<1>2. CASE rest = {}
  <2>1. EndCycle(w, FALSE)
    BY <1>2 DEF Continue
  <2>2. IF w \in Cycles THEN ticking' = FALSE ELSE ticking' = ticking
    BY <2>1 DEF EndCycle
  <2> QED
    BY <1>1, <2>2, WatcherOfOne
<1>3. CASE rest # {}
  <2>1. OnWith(rest).pc = "file" /\ ticking' = ticking
    BY <1>3 DEF OnWith, NoWork, Continue
  <2> QED
    BY <1>1, <2>1, WatcherOfOne
<1> QED
  BY <1>2, <1>3

LEMMA EventWatcher ==
  ASSUME FolderInv, WatcherFree, NEW w \in Workers, processEvent(w) PROVE WatcherFree'
<1> DEFINE q0 == worker[w]
           f == q0.file
<1>1. OthersTyped /\ worker \in [Workers -> Worker] /\ q0 \in Worker
  BY FolderTyped, FolderWorker
<1>2. w \notin Pushes => w \in Readers
  BY DEF Workers
<1>3. f = 0 /\ q0.pc \in {"event", "store", "seen"} => w \notin Cycles
  <2>1. ASSUME w \in Cycles, q0.pc \in {"event", "store", "seen"} PROVE f # 0
    BY <2>1, FolderWorker DEF ReaderInv, Readers
  <2> QED
    BY <2>1
<1>4. ASSUME NEW q, worker' = [worker EXCEPT ![w] = q], ticking' = ticking,
             q0.pc \in {"event", "store", "seen"}, f # 0 => q.pc \notin {"idle", "wait"}
      PROVE  WatcherFree'
  BY <1>1, <1>3, <1>4, WatcherOfOne
<1>5. CASE GuardEvent(w)
  <2> DEFINE refused == f # 0 /\ ~ camera.ftp
             kept == shouldAcceptEvent(q0.event) /\ ~ refused /\ q0.event.quality = "good"
             qs == [q0 EXCEPT !.pc = "store", !.camera = camera, !.id = NextCaptureId]
             qm == [q0 EXCEPT !.pc = "move"]
  <2>1. worker' = [worker EXCEPT ![w] = CASE kept -> qs [] ~ kept /\ f # 0 -> qm [] OTHER -> NoWork]
        /\ ticking' = ticking /\ q0.pc = "event"
    BY <1>5 DEF GuardEvent, watchVars
  <2>2. qs.pc = "store" /\ qm.pc = "move"
    BY <1>1 DEF Worker
  <2> HIDE DEF qs, qm, kept
  <2>3. CASE kept
    BY <1>4, <2>1, <2>2, <2>3
  <2>4. CASE ~ kept /\ f # 0
    BY <1>4, <2>1, <2>2, <2>4
  <2>5. CASE ~ kept /\ f = 0
    BY <1>4, <2>1, <2>5
  <2> QED
    BY <2>3, <2>4, <2>5
<1>6. CASE InsertCapture(w)
  <2> DEFINE qs == [q0 EXCEPT !.pc = "seen"]
  <2>1. qs.pc = "seen" /\ q0.pc = "store"
    BY <1>1, <1>6 DEF Worker, InsertCapture
  <2>2. CASE worker' = [worker EXCEPT ![w] = IF f = 0 THEN NoWork ELSE qs] /\ ticking' = ticking
    <3> HIDE DEF qs
    <3>1. CASE f = 0
      BY <1>4, <2>1, <2>2, <3>1
    <3>2. CASE f # 0
      BY <1>4, <2>1, <2>2, <3>2
    <3> QED
      BY <3>1, <3>2
  <2>3. CASE f = 0 /\ worker' = [worker EXCEPT ![w] = NoWork] /\ ticking' = ticking
    BY <1>4, <2>1, <2>3
  <2>4. CASE Skip(w, f)
    BY <1>1, <2>4, WatcherOfContinue DEF Skip
  <2> QED
    BY <1>6, <2>2, <2>3, <2>4 DEF InsertCapture
<1>7. CASE SaveCamera(w)
  <2> DEFINE q == [q0 EXCEPT !.pc = "move"]
  <2>1. q.pc = "move"
    BY <1>1 DEF Worker
  <2>2. worker' = [worker EXCEPT ![w] = q] /\ ticking' = ticking /\ q0.pc = "seen"
    BY <1>7 DEF SaveCamera, watchVars
  <2> HIDE DEF q
  <2> QED
    BY <1>4, <2>1, <2>2
<1> QED
  BY <1>5, <1>6, <1>7 DEF processEvent

LEMMA WatcherStep == FolderInv /\ WatcherFree /\ [NextIngest]_ingestVars => WatcherFree'
<1> SUFFICES ASSUME FolderInv, WatcherFree, [NextIngest]_ingestVars PROVE WatcherFree'
  OBVIOUS
<1>1. OthersTyped /\ worker \in [Workers -> Worker] /\ Readers \subseteq Workers /\ Pushes \subseteq Workers
      /\ Cycles \subseteq Readers /\ FolderSweep \in Readers /\ FolderSweep \notin Cycles
      /\ \A w \in Pushes : w \notin Cycles
  BY FolderTyped, WorkersAssumption DEF Workers, Readers
<1>2. ASSUME UNCHANGED <<worker, ticking>> PROVE WatcherFree'
  BY <1>2 DEF WatcherFree
<1>3. ASSUME NEW w \in Readers, ReadFolder(w) PROVE WatcherFree'
  <2>1. CASE ListFolder(w)
    BY <1>1, <2>1, WatcherOfContinue DEF ListFolder
  <2>2. CASE ReadFile(w)
    <3>1. CASE Skip(w, First(w))
      BY <1>1, <3>1, WatcherOfContinue DEF Skip
    <3>2. CASE worker' = [worker EXCEPT ![w] = [@ EXCEPT
                 !.pc = "event", !.file = First(w), !.event = event[First(w)]]] /\ ticking' = ticking
      <4> DEFINE q == [worker[w] EXCEPT !.pc = "event", !.file = First(w), !.event = event[First(w)]]
      <4>1. q.pc = "event"
        BY <1>1 DEF Worker
      <4>2. worker' = [worker EXCEPT ![w] = q] /\ ticking' = ticking
        BY <3>2
      <4> HIDE DEF q
      <4> QED
        BY <1>1, <4>1, <4>2, WatcherOfOne
    <3> QED
      BY <2>2, <3>1, <3>2 DEF ReadFile
  <2>3. CASE processEvent(w)
    BY <1>1, <2>3, EventWatcher
  <2>4. CASE MoveFile(w)
    BY <1>1, <2>4, WatcherOfContinue DEF MoveFile
  <2> QED
    BY <1>3, <2>1, <2>2, <2>3, <2>4 DEF ReadFolder
<1>4. ASSUME NEW w \in Cycles, NEW k, worker' = [worker EXCEPT ![w].pc = k],
             ticking' = FALSE \/ k \notin {"idle", "wait"}
      PROVE  WatcherFree'
  <2>1. [worker[w] EXCEPT !.pc = k].pc = k
    BY <1>1 DEF Worker
  <2> QED
    BY <1>1, <1>4, <2>1, WatcherOfOne
<1>5. ASSUME NEW w \in Cycles, StartCycle(w) \/ Cycle(w) PROVE WatcherFree'
  <2>1. CASE StartCycle(w)
    <3>1. CASE backoff
      BY <1>4, <2>1, <3>1 DEF StartCycle
    <3>2. CASE ~ backoff
      <4>1. worker' = [worker EXCEPT ![w].pc = "enter"] /\ "enter" \notin {"idle", "wait"}
        BY <2>1, <3>2 DEF StartCycle
      <4> QED
        BY <1>4, <4>1
    <3> QED
      BY <3>1, <3>2
  <2>2. CASE WakeCycle(w)
    <3>1. worker' = [worker EXCEPT ![w].pc = "enter"] /\ "enter" \notin {"idle", "wait"}
      BY <2>2 DEF WakeCycle
    <3> QED
      BY <1>4, <3>1
  <2>3. CASE EnterCycle(w)
    <3>1. CASE Scannable
      <4>1. worker' = [worker EXCEPT ![w].pc = "list"] /\ "list" \notin {"idle", "wait"}
        BY <2>3, <3>1 DEF EnterCycle
      <4> QED
        BY <1>4, <4>1
    <3>2. CASE ~ Scannable
      BY <1>1, <2>3, <3>2, WatcherOfOne DEF EnterCycle
    <3> QED
      BY <3>1, <3>2
  <2> QED
    BY <1>1, <1>3, <1>5, <2>1, <2>2, <2>3 DEF Cycle
<1>6. ASSUME NEW w \in Readers, ListFault(w) \/ ReadFault(w) PROVE WatcherFree'
  <2>1. CASE ListFault(w)
    <3>1. worker' = [worker EXCEPT ![w] = NoWork] /\ EndCycle(w, TRUE)
      BY <2>1 DEF ListFault
    <3>2. IF w \in Cycles THEN ticking' = FALSE ELSE ticking' = ticking
      BY <3>1 DEF EndCycle
    <3> QED
      BY <1>1, <3>1, <3>2, WatcherOfOne
  <2>2. CASE ReadFault(w)
    BY <1>1, <2>2, WatcherOfContinue DEF ReadFault, Skip
  <2> QED
    BY <1>6, <2>1, <2>2
<1>7. ASSUME NEW w \in Pushes, PushEvent(w) PROVE WatcherFree'
  <2>1. PICK p \in Vehicles :
          worker' = [worker EXCEPT ![w] = [worker[w] EXCEPT
            !.pc = "event", !.event = [plate |-> p, day |-> date, quality |-> "good"]]]
    BY <1>1, <1>7 DEF PushEvent
  <2>2. ticking' = ticking
    BY <1>7 DEF PushEvent, watchVars
  <2> QED
    BY <1>1, <2>1, <2>2, WatcherOfOne
<1>8. ASSUME StartSweep PROVE WatcherFree'
  <2>1. worker' = [worker EXCEPT ![FolderSweep] = [worker[FolderSweep] EXCEPT !.pc = "list"]]
        /\ ticking' = ticking
    BY <1>8 DEF StartSweep, watchVars
  <2> QED
    BY <1>1, <2>1, WatcherOfOne
<1>9. CASE Restart
  BY <1>9 DEF Restart, WatcherFree
<1>10. CASE UploadFile \/ DropOut \/ ComeBack \/ HealthCheck \/ SwitchCamera \/ RemoveCapture \/ Midnight
            \/ UNCHANGED ingestVars
  BY <1>10, <1>2 DEF UploadFile, DropOut, ComeBack, HealthCheck, SwitchCamera, RemoveCapture, Midnight,
     ingestVars, watchVars
<1> QED
  BY <1>1, <1>3, <1>5, <1>6, <1>7, <1>8, <1>9, <1>10, EventWatcher DEF NextIngest, SweepFolder

LEMMA IngestInit == InitIngest => FolderInv /\ IdsInv /\ WatcherFree
<1> SUFFICES ASSUME InitIngest PROVE FolderInv /\ IdsInv /\ WatcherFree
  OBVIOUS
<1>1. NoWork \in Worker /\ NoEvent \in Event
  <2>1. NoEvent \in Event
    BY WorkersAssumption, LimitsAssumption DEF NoEvent, Event, Dates
  <2> QED
    BY <2>1, NoWorkInv DEF WorkerInv
<1>2. TypeOKIngest
  <2>1. date \in Dates /\ calls \in 0 .. CallLimit /\ camera \in Camera /\ mode \in Modes
    BY LimitsAssumption DEF InitIngest, Dates, Camera
  <2>2. /\ event \in [Files -> Event] /\ worker \in [Workers -> Worker]
        /\ place \in [Files -> {"none", "here", "done"}] /\ cursor \in Files \union {0}
        /\ gaveUp \in [Files -> SUBSET {"error", "refused"}] /\ late \subseteq Files
        /\ captures = {} /\ reachable \in BOOLEAN
        /\ <<watching, ticking, backoff>> \in BOOLEAN \X BOOLEAN \X BOOLEAN
    BY <1>1 DEF InitIngest
  <2> QED
    BY <2>1, <2>2 DEF TypeOKIngest
<1>3. Up(place) = {} /\ \A f \in Files : place[f] # "done"
  BY DEF InitIngest, Up
<1>4. FilesInv(date, Up(place), late, event, captures, gaveUp, place, cursor)
  <2>1. cursor = 0
    BY DEF InitIngest
  <2> QED
    BY <1>3, <2>1 DEF FilesInv
<1>5. \A w \in Workers : worker[w] = NoWork
  BY DEF InitIngest
<1>6. FolderInv
  BY <1>2, <1>4, <1>5, NoWorkInv DEF FolderInv
<1>7. Numbered(captures, worker, 0)
  BY <1>5 DEF Numbered, InitIngest, NoWork
<1> QED
  BY <1>6, <1>7 DEF IdsInv, InitIngest, WatcherFree

LEMMA IngestByParts == FolderInv /\ WatcherFree => IngestInv
<1> SUFFICES ASSUME FolderInv, WatcherFree PROVE IngestInv
  OBVIOUS
<1>1. \A e : Stored(e) <=> StoredIn(e, captures)
  BY DEF Stored, StoredIn
<1>2. FilesInv(date, Up(place), late, event, captures, gaveUp, place, cursor)
  BY DEF FolderInv
<1>3. DoneIsStored
  BY <1>1, <1>2 DEF FilesInv, OnRecord, DoneIsStored
<1>4. PassedIsSettled
  BY <1>1, <1>2, UpIsFiles DEF FilesInv, Settled, PassedIsSettled
<1> QED
  BY <1>3, <1>4 DEF FolderInv, IngestInv

\* For every number of cycles, sweeps, events, files, faults and restarts: what
\* done/ holds is stored or was refused, the cursor passes no vehicle by unless
\* an attempt at its file failed or its file came late, and the lock of the
\* watcher is held only by a cycle that will release it (runCycle,
\* processXmlFileList, processJpegBundlesOnMount, processEvent, finalizeFile).
THEOREM IngestInvHolds == SpecIngest => []IngestInv
<1>1. FolderInv /\ IdsInv /\ WatcherFree /\ [NextIngest]_ingestVars
      => FolderInv' /\ IdsInv' /\ WatcherFree'
  BY FolderStep, IdsStep, WatcherStep
<1> QED
  BY <1>1, IngestInit, IngestByParts, PTL DEF SpecIngest

=============================================================================
