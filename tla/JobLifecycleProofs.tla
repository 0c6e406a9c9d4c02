-------------------------- MODULE JobLifecycleProofs --------------------------
(***************************************************************************)
(* Proofs about JobLifecycle, for any number of jobs, requests, overlapping *)
(* ticks and files.                                                        *)
(***************************************************************************)
EXTENDS JobLifecycle, TLAPS

-----------------------------------------------------------------------------
(* Rows that travel.  A tick or a request holds a row it read and writes   *)
(* it back later, so the invariant is about every copy.                    *)

\* row is a copy of job j, of now or of before: it has the plate of j, and its
\* result was measured on that plate and is not better than the bench said.
Copy(rows, sheets, byHand, j, row) ==
  /\ row \in Job /\ row.status # "none"
  /\ rows[j].status # "none" /\ row.plate = rows[j].plate
  /\ row.result # 0 =>
       /\ row.result <= Len(sheets)
       /\ sheets[row.result].licence = row.plate
       /\ row.overall = "Passed" /\ sheets[row.result].verdict = "Failed" => j \in byHand

\* A report sent for job j.
Told(rows, sheets, byHand, j, r) ==
  /\ r.result <= Len(sheets)
  /\ sheets[r.result].licence = rows[j].plate
  /\ r.approved /\ sheets[r.result].verdict = "Failed" => j \in byHand

JobsInv ==
  \A j \in Jobs :
    /\ job[j].status # "none" => Copy(job, sheet, judged, j, job[j])
    /\ job[j].status = "none" => job[j].result = 0 /\ filed[j] = {}
    /\ \A r \in filed[j] : Told(job, sheet, judged, j, r)

RequestOK(r) ==
  r.pc # "idle" =>
    /\ r.job \in Jobs /\ job[r.job].status # "none"
    /\ r.pc # "update" => Copy(job, sheet, judged, r.job, r.row)
    /\ r.op = "submit" => Copy(job, sheet, judged, r.job, r.seen)
    /\ r.pc = "file" => r.op = "submit"

RequestsInv == \A k \in Requests : RequestOK(request[k])

TickOK(t) ==
  /\ \A n \in t.todo : folder[n] # 0
  /\ t.pc \in {"match", "save"} => t.sheet \in 1 .. Len(sheet)
  /\ t.pc = "save" => /\ t.job \in Jobs
                      /\ Copy(job, sheet, judged, t.job, t.row)
                      /\ t.row.plate = sheet[t.sheet].licence

TicksInv == \A t \in Ticks : TickOK(tick[t])

FolderInv == \A n \in Names : folder[n] <= Len(sheet)

IInv == TypeOK /\ FolderInv /\ JobsInv /\ RequestsInv /\ TicksInv

-----------------------------------------------------------------------------
(* Values.                                                                 *)

LEMMA BlankType == Blank \in Job /\ Blank.status = "none" /\ Blank.result = 0
<1>1. (CHOOSE l \in Lanes : TRUE) \in Lanes
  BY NamesAssumption
<1>2. 0 \in Days
  BY LimitsAssumption DEF Days
<1> QED
  BY <1>1, <1>2 DEF Blank, NewRow, Job, Statuses, Overall

LEMMA NoTickType == NoTick \in Tick
<1>1. Odd \in Names
  BY DEF Names
<1> QED
  BY <1>1, BlankType DEF NoTick, Tick, NoJob

LEMMA UnusedType == Unused \in Request
BY BlankType DEF Unused, Request, Keep, Patch, NoJob

LEMMA NoBeatType == NoBeat \in Beat
BY DEF NoBeat, Beat, LaneStatuses

\* Rows keep their plate, sheets are only added, and an operator's verdict is
\* remembered.
Grows(rows, rows2, sheets, sheets2, byHand, byHand2) ==
  /\ \A j \in Jobs : rows[j].status # "none" =>
       rows2[j].status # "none" /\ rows2[j].plate = rows[j].plate
  /\ Len(sheets) <= Len(sheets2)
  /\ \A i \in Sheets : i <= Len(sheets) => sheets2[i] = sheets[i]
  /\ byHand \subseteq byHand2

LEMMA CopyKept ==
  ASSUME NEW rows, NEW rows2, NEW sheets \in Seq(Sheet), NEW sheets2 \in Seq(Sheet),
         NEW byHand, NEW byHand2,
         Grows(rows, rows2, sheets, sheets2, byHand, byHand2),
         NEW j \in Jobs, NEW row, Copy(rows, sheets, byHand, j, row)
  PROVE  Copy(rows2, sheets2, byHand2, j, row)
<1>1. row.result # 0 => row.result \in Sheets
  BY DEF Copy, Job
<1>2. Len(sheets) \in Nat /\ Len(sheets2) \in Nat
  OBVIOUS
<1> QED
  BY <1>1, <1>2 DEF Copy, Grows, Sheets

LEMMA ToldKept ==
  ASSUME NEW rows, NEW rows2, NEW sheets \in Seq(Sheet), NEW sheets2 \in Seq(Sheet),
         NEW byHand, NEW byHand2,
         Grows(rows, rows2, sheets, sheets2, byHand, byHand2),
         NEW j \in Jobs, rows[j].status # "none",
         NEW r \in [result : Sheets, approved : BOOLEAN], Told(rows, sheets, byHand, j, r)
  PROVE  Told(rows2, sheets2, byHand2, j, r)
<1>1. Len(sheets) \in Nat /\ Len(sheets2) \in Nat /\ r.result \in Sheets
  OBVIOUS
<1> QED
  BY <1>1 DEF Told, Grows, Sheets

\* What a step does to the rows, and what it leaves to the requests and ticks.
Grow == Grows(job, job', sheet, sheet', judged, judged')

LEMMA RequestKept ==
  ASSUME TypeOK, sheet' \in Seq(Sheet), Grow, NEW r \in Request, RequestOK(r)
  PROVE  /\ r.pc # "idle" => job'[r.job].status # "none"
         /\ r.pc # "idle" /\ r.pc # "update" => Copy(job', sheet', judged', r.job, r.row)
         /\ r.pc # "idle" /\ r.op = "submit" => Copy(job', sheet', judged', r.job, r.seen)
<1>1. sheet \in Seq(Sheet)
  BY DEF TypeOK
<1>2. CASE r.pc = "idle"
  BY <1>2
<1>3. CASE r.pc # "idle"
  <2>1. r.job \in Jobs /\ job[r.job].status # "none"
    BY <1>3 DEF RequestOK
  <2>2. job'[r.job].status # "none"
    BY <2>1 DEF Grow, Grows
  <2>3. r.pc # "update" => Copy(job', sheet', judged', r.job, r.row)
    BY <1>1, <1>3, <2>1, CopyKept DEF RequestOK, Grow
  <2>4. r.op = "submit" => Copy(job', sheet', judged', r.job, r.seen)
    BY <1>1, <1>3, <2>1, CopyKept DEF RequestOK, Grow
  <2> QED
    BY <2>2, <2>3, <2>4
<1> QED
  BY <1>2, <1>3

LEMMA TickKept ==
  ASSUME TypeOK, sheet' \in Seq(Sheet), Grow,
         \A n \in Names : folder[n] # 0 => folder'[n] # 0,
         NEW t \in Tick, TickOK(t)
  PROVE  /\ \A n \in t.todo : folder'[n] # 0
         /\ t.pc \in {"match", "save"} => t.sheet \in 1 .. Len(sheet')
         /\ t.pc = "save" => /\ t.job \in Jobs
                             /\ Copy(job', sheet', judged', t.job, t.row)
                             /\ t.row.plate = sheet'[t.sheet].licence
<1>1. sheet \in Seq(Sheet) /\ Len(sheet) \in Nat /\ Len(sheet') \in Nat
  BY DEF TypeOK
<1>2. \A n \in t.todo : folder'[n] # 0
  BY DEF TickOK, Tick
<1>3. t.pc \in {"match", "save"} => t.sheet \in 1 .. Len(sheet')
  BY <1>1 DEF TickOK, Grow, Grows
<1>4. ASSUME t.pc = "save" PROVE Copy(job', sheet', judged', t.job, t.row)
  BY <1>1, <1>4, CopyKept DEF TickOK, Grow
<1>5. ASSUME t.pc = "save" PROVE t.row.plate = sheet'[t.sheet].licence
  <2>1. t.sheet \in Sheets /\ t.sheet <= Len(sheet)
    BY <1>1, <1>5, LimitsAssumption DEF TickOK, TypeOK, Sheets
  <2>2. sheet'[t.sheet] = sheet[t.sheet]
    BY <2>1 DEF Grow, Grows
  <2> QED
    BY <1>5, <2>2 DEF TickOK
<1> QED
  BY <1>2, <1>3, <1>4, <1>5 DEF TickOK

\* Requests and ticks that a step of someone else leaves alone.
LEMMA OthersKept ==
  ASSUME TypeOK, RequestsInv, TicksInv, sheet' \in Seq(Sheet), Grow,
         \A n \in Names : folder[n] # 0 => folder'[n] # 0
  PROVE  /\ request' = request => RequestsInv'
         /\ tick' = tick => TicksInv'
<1>1. ASSUME request' = request PROVE RequestsInv'
  <2> SUFFICES ASSUME NEW k \in Requests PROVE RequestOK(request[k])'
    BY DEF RequestsInv
  <2>1. request[k] \in Request /\ RequestOK(request[k])
    BY DEF TypeOK, RequestsInv
  <2> QED
    BY <1>1, <2>1, RequestKept DEF RequestOK
<1>2. ASSUME tick' = tick PROVE TicksInv'
  <2> SUFFICES ASSUME NEW t \in Ticks PROVE TickOK(tick[t])'
    BY DEF TicksInv
  <2>1. tick[t] \in Tick /\ TickOK(tick[t])
    BY DEF TypeOK, TicksInv
  <2>2. /\ \A n \in tick[t].todo : folder'[n] # 0
        /\ tick[t].pc \in {"match", "save"} => tick[t].sheet \in 1 .. Len(sheet')
        /\ tick[t].pc = "save" => /\ tick[t].job \in Jobs
                                  /\ Copy(job', sheet', judged', tick[t].job, tick[t].row)
                                  /\ tick[t].row.plate = sheet'[tick[t].sheet].licence
    BY <2>1, TickKept
  <2> QED
    BY <1>2, <2>2 DEF TickOK
<1> QED
  BY <1>1, <1>2

LEMMA NothingGrows ==
  ASSUME TypeOK, UNCHANGED <<job, sheet, judged>>
  PROVE  Grow /\ sheet' \in Seq(Sheet)
BY DEF Grow, Grows, TypeOK

\* Steps that leave jobs, files and reports alone.
LEMMA TablesKept ==
  ASSUME IInv, UNCHANGED <<job, sheet, judged, folder, filed>>
  PROVE  /\ JobsInv' /\ FolderInv'
         /\ request' = request => RequestsInv'
         /\ tick' = tick => TicksInv'
<1>1. JobsInv' /\ FolderInv'
  BY DEF IInv, JobsInv, FolderInv
<1>2. Grow /\ sheet' \in Seq(Sheet)
  BY NothingGrows DEF IInv
<1> QED
  BY <1>1, <1>2, OthersKept DEF IInv

\* One request moves, the others do not.
LEMMA OneRequest ==
  ASSUME TypeOK, RequestsInv, sheet' \in Seq(Sheet), Grow, NEW k \in Requests,
         \A h \in Requests \ {k} : request'[h] = request[h], RequestOK(request[k])'
  PROVE  RequestsInv'
<1> SUFFICES ASSUME NEW h \in Requests PROVE RequestOK(request[h])'
  BY DEF RequestsInv
<1>1. CASE h = k
  BY <1>1
<1>2. CASE h # k
  <2>1. request[h] \in Request /\ RequestOK(request[h]) /\ request'[h] = request[h]
    BY <1>2 DEF TypeOK, RequestsInv
  <2> QED
    BY <2>1, RequestKept DEF RequestOK
<1> QED
  BY <1>1, <1>2

LEMMA OneTick ==
  ASSUME TypeOK, TicksInv, sheet' \in Seq(Sheet), Grow, folder' = folder, NEW t \in Ticks,
         \A u \in Ticks \ {t} : tick'[u] = tick[u], TickOK(tick[t])'
  PROVE  TicksInv'
<1> SUFFICES ASSUME NEW u \in Ticks PROVE TickOK(tick[u])'
  BY DEF TicksInv
<1>1. CASE u = t
  BY <1>1
<1>2. CASE u # t
  <2>1. tick[u] \in Tick /\ TickOK(tick[u]) /\ tick'[u] = tick[u]
    BY <1>2 DEF TypeOK, TicksInv
  <2>2. /\ \A n \in tick[u].todo : folder'[n] # 0
        /\ tick[u].pc \in {"match", "save"} => tick[u].sheet \in 1 .. Len(sheet')
        /\ tick[u].pc = "save" => /\ tick[u].job \in Jobs
                                  /\ Copy(job', sheet', judged', tick[u].job, tick[u].row)
                                  /\ tick[u].row.plate = sheet'[tick[u].sheet].licence
    BY <2>1, TickKept
  <2> QED
    BY <2>1, <2>2 DEF TickOK
<1> QED
  BY <1>1, <1>2

\* One job is written: its new row is a copy of itself.
LEMMA OneJob ==
  ASSUME TypeOK, JobsInv, NEW j \in Jobs, NEW row \in Job, job' = [job EXCEPT ![j] = row],
         UNCHANGED <<sheet, filed>>, judged \subseteq judged',
         job[j].status # "none" => row.plate = job[j].plate,
         Copy(job', sheet', judged', j, row)
  PROVE  JobsInv' /\ Grow /\ job' \in [Jobs -> Job]
<1>1. job \in [Jobs -> Job] /\ sheet \in Seq(Sheet)
      /\ filed \in [Jobs -> SUBSET [result : Sheets, approved : BOOLEAN]]
  BY DEF TypeOK
<1>2. job'[j] = row /\ \A i \in Jobs \ {j} : job'[i] = job[i]
  BY <1>1
<1>3. row.status # "none"
  BY DEF Copy
<1>4. Grow
  BY <1>1, <1>2, <1>3 DEF Grow, Grows
<1>5. ASSUME NEW i \in Jobs
      PROVE  /\ job'[i].status # "none" => Copy(job', sheet', judged', i, job'[i])
             /\ job'[i].status = "none" => job'[i].result = 0 /\ filed'[i] = {}
             /\ \A r \in filed'[i] : Told(job', sheet', judged', i, r)
  <2>1. job'[i].status # "none" => Copy(job', sheet', judged', i, job'[i])
    <3>1. CASE i = j
      BY <1>2, <3>1
    <3>2. CASE i # j
      BY <1>1, <1>2, <1>4, <3>2, CopyKept DEF JobsInv, Grow
    <3> QED
      BY <3>1, <3>2
  <2>2. job'[i].status = "none" => job'[i].result = 0 /\ filed'[i] = {}
    BY <1>2, <1>3 DEF JobsInv
  <2>3. ASSUME NEW r \in filed[i] PROVE Told(job', sheet', judged', i, r)
    <3>1. r \in [result : Sheets, approved : BOOLEAN] /\ Told(job, sheet, judged, i, r)
      BY <1>1 DEF JobsInv
    <3>2. job[i].status # "none"
      BY DEF JobsInv
    <3> QED
      BY <1>1, <1>4, <3>1, <3>2, ToldKept DEF Grow
  <2> QED
    BY <2>1, <2>2, <2>3
<1>6. JobsInv'
  BY <1>5 DEF JobsInv
<1> QED
  BY <1>1, <1>4, <1>6

-----------------------------------------------------------------------------
(* The steps.                                                              *)

LEMMA InitInv == Init => IInv
<1> SUFFICES ASSUME Init PROVE IInv
  OBVIOUS
<1>1. TypeOK
  <2>1. 0 \in Days /\ 0 \in 0 .. CallLimit /\ Len(<<>>) <= MaxWrites
    BY LimitsAssumption DEF Days
  <2>2. <<>> \in Seq(Sheet)
    OBVIOUS
  <2>3. [l \in Lanes |-> "IDLE"] \in [Lanes -> LaneStatuses]
    BY DEF LaneStatuses
  <2> QED
    BY <2>1, <2>2, <2>3, BlankType, NoTickType, UnusedType, NoBeatType DEF Init, TypeOK
<1>2. FolderInv
  BY DEF Init, FolderInv
<1>3. JobsInv
  BY BlankType DEF Init, JobsInv
<1>4. RequestsInv /\ TicksInv
  BY DEF Init, RequestsInv, RequestOK, TicksInv, TickOK, NoTick, Unused
<1> QED
  BY <1>1, <1>2, <1>3, <1>4 DEF IInv

LEMMA CreateStep ==
  ASSUME IInv, NEW j \in Jobs, CreateJob(j)
  PROVE  IInv'
<1>1. PICK p \in Plates, l \in Lanes :
        job' = [job EXCEPT ![j] = [NewRow(l) EXCEPT !.status = "Pending", !.plate = p, !.day = today]]
  BY DEF CreateJob
<1> DEFINE row == [NewRow(l) EXCEPT !.status = "Pending", !.plate = p, !.day = today]
<1>2. row \in Job /\ row.status = "Pending" /\ row.result = 0 /\ row.plate = p
  BY DEF IInv, TypeOK, NewRow, Job, Statuses, Overall
<1>3. job' = [job EXCEPT ![j] = row]
  BY <1>1
<1> HIDE DEF row
<1>4. job[j].status = "none" /\ UNCHANGED <<sheet, filed, judged, folder, tick, request>>
  BY DEF CreateJob, benchVars
<1>5. job'[j] = row
  BY <1>3 DEF IInv, TypeOK
<1>6. Copy(job', sheet', judged', j, row)
  BY <1>2, <1>5 DEF Copy
<1>7. JobsInv' /\ Grow /\ job' \in [Jobs -> Job]
  BY <1>2, <1>3, <1>4, <1>6, OneJob DEF IInv
<1>8. RequestsInv' /\ TicksInv' /\ FolderInv'
  BY <1>4, <1>7, OthersKept DEF IInv, TypeOK, FolderInv
<1>9. TypeOK'
  BY <1>7 DEF CreateJob, benchVars, IInv, TypeOK
<1> QED
  BY <1>7, <1>8, <1>9 DEF IInv

LEMMA CallStep ==
  ASSUME IInv, NEW k \in Requests, NEW j \in Jobs,
         NEW op \in {"edit", "remove", "start", "submit"}, NEW patch \in Patch,
         Call(k, j, op, patch)
  PROVE  IInv'
<1> DEFINE r == [Unused EXCEPT !.pc = "update", !.op = op, !.job = j, !.patch = patch,
                               !.seen = IF op = "submit" THEN job[j] ELSE @]
<1>1. request' = [request EXCEPT ![k] = r]
  BY DEF Call
<1>2. job[j] \in Job /\ request \in [Requests -> Request]
  BY DEF IInv, TypeOK
<1>3. r \in Request /\ r.pc = "update" /\ r.job = j /\ (r.op = "submit" => r.seen = job[j])
  BY <1>2, UnusedType DEF Request
<1> HIDE DEF r
<1>4. /\ UNCHANGED <<job, sheet, judged, folder, filed, tick>>
      /\ job[j].status # "none"
  BY DEF Call, Active, benchVars
<1>5. Grow /\ sheet' \in Seq(Sheet)
  BY <1>4, NothingGrows DEF IInv
<1>6. request'[k] = r /\ \A h \in Requests \ {k} : request'[h] = request[h]
  BY <1>1, <1>2
<1>7. Copy(job, sheet, judged, j, job[j])
  BY <1>4 DEF IInv, JobsInv
<1>8. RequestOK(request[k])'
  BY <1>3, <1>4, <1>6, <1>7 DEF RequestOK
<1>9. RequestsInv'
  BY <1>5, <1>6, <1>8, OneRequest DEF IInv
<1>10. JobsInv' /\ FolderInv' /\ TicksInv'
  BY <1>4, TablesKept
<1>11. calls' \in 0 .. CallLimit
  BY LimitsAssumption DEF Call, IInv, TypeOK
<1>12. TypeOK'
  BY <1>1, <1>3, <1>11 DEF Call, benchVars, IInv, TypeOK
<1> QED
  BY <1>9, <1>10, <1>12 DEF IInv

LEMMA JobRequestStep ==
  ASSUME IInv, NEW k \in Requests, NEW j \in Jobs, JobRequest(k, j)
  PROVE  IInv'
<1>1. \A s \in Statuses : [Keep EXCEPT !.status = s] \in Patch
  BY DEF Keep, Patch
<1>2. \A v \in Overall : [Keep EXCEPT !.overall = v] \in Patch
  BY DEF Keep, Patch
<1>3. Keep \in Patch
  BY DEF Keep, Patch
<1>4. PICK op \in {"edit", "remove", "start", "submit"}, patch \in Patch : Call(k, j, op, patch)
  <2>1. CASE StartJob(k, j)
    BY <1>1, <2>1 DEF StartJob, Statuses
  <2>2. CASE SubmitJob(k, j)
    BY <1>1, <2>2 DEF SubmitJob, Statuses
  <2>3. CASE RedoJob(k, j)
    BY <1>2, <2>3 DEF RedoJob, Overall
  <2>4. CASE EditJob(k, j)
    BY <1>1, <1>2, <2>4 DEF EditJob
  <2>5. CASE RemoveJob(k, j)
    BY <1>3, <2>5 DEF RemoveJob
  <2> QED
    BY <2>1, <2>2, <2>3, <2>4, <2>5 DEF JobRequest
<1> QED
  BY <1>4, CallStep

LEMMA ReadForUpdateStep ==
  ASSUME IInv, NEW k \in Requests, ReadForUpdate(k)
  PROVE  IInv'
<1> DEFINE r == request[k]  j == request[k].job
<1>1. r \in Request /\ job \in [Jobs -> Job] /\ RequestOK(r) /\ r.pc = "update"
  BY DEF IInv, TypeOK, RequestsInv, ReadForUpdate
<1>2. j \in Jobs /\ job[j].status # "none" /\ job[j] \in Job
  BY <1>1 DEF RequestOK
<1>3. /\ UNCHANGED <<job, sheet, judged, folder, filed, tick>>
      /\ \A h \in Requests \ {k} : request'[h] = request[h]
  BY DEF ReadForUpdate, benchVars
<1>4. request'[k] = Unused \/ request'[k] = [r EXCEPT !.pc = "save", !.row = job[j]]
  BY DEF ReadForUpdate, IInv, TypeOK
<1>5. UNCHANGED <<sheet, judged, job>> /\ Grow /\ sheet' \in Seq(Sheet)
  BY <1>3, NothingGrows DEF IInv
<1>6. Copy(job, sheet, judged, j, job[j])
  BY <1>2 DEF IInv, JobsInv
<1>7. RequestOK(request[k])'
  <2>1. CASE request'[k] = Unused
    BY <2>1 DEF RequestOK, Unused
  <2>2. CASE request'[k] = [r EXCEPT !.pc = "save", !.row = job[j]]
    <3>1. /\ request'[k].pc = "save" /\ request'[k].row = job[j] /\ request'[k].job = j
          /\ request'[k].op = r.op /\ request'[k].seen = r.seen
      BY <1>1, <2>2 DEF Request
    <3> QED
      BY <1>1, <1>2, <1>5, <1>6, <3>1 DEF RequestOK
  <2> QED
    BY <1>4, <2>1, <2>2
<1>8. RequestsInv'
  BY <1>3, <1>5, <1>7, OneRequest DEF IInv
<1>9. request' \in [Requests -> Request]
  <2>1. [r EXCEPT !.pc = "save", !.row = job[j]] \in Request
    BY <1>1, <1>2 DEF Request
  <2>2. request' = [request EXCEPT ![k] = request'[k]]
    BY DEF ReadForUpdate, IInv, TypeOK
  <2> QED
    BY <1>4, <2>1, <2>2, UnusedType DEF IInv, TypeOK
<1>10. TypeOK'
  BY <1>9 DEF ReadForUpdate, benchVars, IInv, TypeOK
<1> QED
  BY <1>3, <1>8, <1>10, TablesKept DEF IInv

\* The row of an update: the copy it read, with the columns of the patch.
LEMMA MergeCopy ==
  ASSUME NEW rows, NEW sheets, NEW byHand, NEW byHand2, NEW j, NEW row, NEW patch \in Patch,
         Copy(rows, sheets, byHand, j, row),
         byHand2 = IF patch.overall = "keep" THEN byHand ELSE byHand \union {j}
  PROVE  /\ Copy(rows, sheets, byHand2, j, Merge(row, patch))
         /\ Copy(rows, sheets, byHand2, j, [row EXCEPT !.gone = TRUE])
<1> DEFINE new == Merge(row, patch)  old == [row EXCEPT !.gone = TRUE]
<1>1. row \in Job
  BY DEF Copy
<1>2. /\ new \in Job
      /\ new.plate = row.plate /\ new.result = row.result
      /\ new.status = IF patch.status = "keep" THEN row.status ELSE patch.status
      /\ new.overall = IF patch.overall = "keep" THEN row.overall ELSE patch.overall
  BY <1>1 DEF Merge, Job, Patch
<1>3. old \in Job /\ old.plate = row.plate /\ old.result = row.result /\ old.status = row.status
      /\ old.overall = row.overall
  BY <1>1 DEF Job
<1> HIDE DEF new, old
<1>4. new.status # "none"
  BY <1>2 DEF Copy, Patch, Statuses
<1>5. Copy(rows, sheets, byHand2, j, new)
  BY <1>2, <1>4 DEF Copy
<1>6. Copy(rows, sheets, byHand2, j, old)
  BY <1>3 DEF Copy
<1> QED
  BY <1>5, <1>6 DEF new, old

LEMMA SaveUpdateStep ==
  ASSUME IInv, NEW k \in Requests, SaveUpdate(k)
  PROVE  IInv'
<1> DEFINE r == request[k]  j == request[k].job
           new == IF r.op = "remove" THEN [r.row EXCEPT !.gone = TRUE] ELSE Merge(r.row, r.patch)
<1>1. r \in Request /\ job \in [Jobs -> Job] /\ RequestOK(r) /\ r.pc = "save"
      /\ request \in [Requests -> Request]
  BY DEF IInv, TypeOK, RequestsInv, SaveUpdate
<1>2. j \in Jobs /\ job[j].status # "none" /\ Copy(job, sheet, judged, j, r.row) /\ r.patch \in Patch
  BY <1>1 DEF RequestOK, Request
<1>3. /\ job' = [job EXCEPT ![j] = new]
      /\ judged' = IF r.patch.overall = "keep" THEN judged ELSE judged \union {j}
  BY DEF SaveUpdate
<1>4. Copy(job, sheet, judged', j, new)
  BY <1>2, <1>3, MergeCopy
<1> HIDE DEF new
<1>5. new \in Job /\ new.plate = job[j].plate /\ new.status # "none" /\ job'[j] = new
  BY <1>1, <1>2, <1>3, <1>4 DEF Copy
<1>6. UNCHANGED <<sheet, filed, folder, tick>> /\ judged \subseteq judged'
      /\ \A h \in Requests \ {k} : request'[h] = request[h]
  BY <1>3 DEF SaveUpdate, benchVars
<1>7. Copy(job', sheet', judged', j, new)
  BY <1>4, <1>5, <1>6 DEF Copy
<1>8. JobsInv' /\ Grow /\ job' \in [Jobs -> Job]
  BY <1>2, <1>3, <1>5, <1>6, <1>7, OneJob DEF IInv
<1>9. sheet' \in Seq(Sheet) /\ TicksInv' /\ FolderInv'
  BY <1>6, <1>8, OthersKept DEF IInv, TypeOK, FolderInv
<1>10. \/ request'[k] = [r EXCEPT !.pc = "file"] /\ r.op = "submit"
       \/ request'[k] = [r EXCEPT !.pc = "occupy"]
       \/ request'[k] = Unused
  BY <1>1 DEF SaveUpdate
<1>11. /\ job'[j].status # "none" /\ Copy(job', sheet', judged', j, r.row)
       /\ r.op = "submit" => Copy(job', sheet', judged', j, r.seen)
  BY <1>1, <1>8, <1>9, RequestKept DEF IInv
<1>12. RequestOK(request[k])'
  <2>1. CASE request'[k] = Unused
    BY <2>1 DEF RequestOK, Unused
  <2>2. CASE request'[k] = [r EXCEPT !.pc = "file"] /\ r.op = "submit"
    <3>1. /\ request'[k].pc = "file" /\ request'[k].row = r.row /\ request'[k].job = j
          /\ request'[k].op = r.op /\ request'[k].seen = r.seen
      BY <1>1, <2>2 DEF Request
    <3> QED
      BY <1>2, <1>11, <2>2, <3>1 DEF RequestOK
  <2>3. CASE request'[k] = [r EXCEPT !.pc = "occupy"]
    <3>1. /\ request'[k].pc = "occupy" /\ request'[k].row = r.row /\ request'[k].job = j
          /\ request'[k].op = r.op /\ request'[k].seen = r.seen
      BY <1>1, <2>3 DEF Request
    <3> QED
      BY <1>2, <1>11, <3>1 DEF RequestOK
  <2> QED
    BY <1>10, <2>1, <2>2, <2>3
<1>13. RequestsInv'
  BY <1>6, <1>8, <1>9, <1>12, OneRequest DEF IInv
<1>14. request' \in [Requests -> Request]
  <2>1. [r EXCEPT !.pc = "file"] \in Request /\ [r EXCEPT !.pc = "occupy"] \in Request
    BY <1>1 DEF Request
  <2>2. request' = [request EXCEPT ![k] = request'[k]]
    BY <1>1 DEF SaveUpdate
  <2> QED
    BY <1>1, <1>10, <2>1, <2>2, UnusedType
<1>15. judged' \subseteq Jobs
  BY <1>2, <1>3 DEF IInv, TypeOK
<1>16. TypeOK'
  BY <1>8, <1>14, <1>15 DEF SaveUpdate, benchVars, IInv, TypeOK
<1> QED
  BY <1>8, <1>9, <1>13, <1>16 DEF IInv

LEMMA QueueStep ==
  ASSUME IInv, NEW k \in Requests, QueueInspectionResult(k)
  PROVE  IInv'
<1> DEFINE r == request[k]  j == request[k].job  p == ResultPayload(request[k].seen)
<1>1. r \in Request /\ RequestOK(r) /\ r.pc = "file" /\ request \in [Requests -> Request]
      /\ filed \in [Jobs -> SUBSET [result : Sheets, approved : BOOLEAN]]
  BY DEF IInv, TypeOK, RequestsInv, QueueInspectionResult
<1>2. j \in Jobs /\ job[j].status # "none" /\ Copy(job, sheet, judged, j, r.seen)
  BY <1>1 DEF RequestOK
<1>3. /\ UNCHANGED <<job, sheet, judged, folder, tick>>
      /\ request' = [request EXCEPT ![k].pc = "release"]
      /\ \/ r.seen.result # 0 /\ filed' = [filed EXCEPT ![j] = @ \union {p}]
         \/ filed' = filed
  BY DEF QueueInspectionResult, benchVars
<1>4. p.result = r.seen.result /\ p.approved = (r.seen.overall = "Passed")
  BY DEF ResultPayload
<1>5. r.seen.result # 0 => p \in [result : Sheets, approved : BOOLEAN]
  <2>1. r.seen \in Job
    BY <1>2 DEF Copy
  <2>2. r.seen.result # 0 => r.seen.result \in Sheets
    BY <2>1 DEF Job
  <2> QED
    BY <2>2 DEF ResultPayload
<1>6. r.seen.result # 0 => Told(job, sheet, judged, j, p)
  BY <1>2, <1>4 DEF Copy, Told
<1> HIDE DEF p
<1>7. /\ filed' \in [Jobs -> SUBSET [result : Sheets, approved : BOOLEAN]]
      /\ \A i \in Jobs : i # j => filed'[i] = filed[i]
      /\ \A q \in filed'[j] : q \in filed[j] \/ (r.seen.result # 0 /\ q = p)
  <2>1. CASE filed' = filed
    BY <1>1, <2>1
  <2>2. CASE r.seen.result # 0 /\ filed' = [filed EXCEPT ![j] = @ \union {p}]
    BY <1>1, <1>2, <1>5, <2>2
  <2> QED
    BY <1>3, <2>1, <2>2
<1>8. JobsInv'
  <2> SUFFICES ASSUME NEW i \in Jobs
               PROVE  /\ job[i].status # "none" => Copy(job, sheet, judged, i, job[i])
                      /\ job[i].status = "none" => job[i].result = 0 /\ filed'[i] = {}
                      /\ \A q \in filed'[i] : Told(job, sheet, judged, i, q)
    BY <1>3 DEF JobsInv
  <2>1. job[i].status = "none" => i # j
    BY <1>2
  <2> QED
    BY <1>6, <1>7, <2>1 DEF IInv, JobsInv
<1>9. Grow /\ sheet' \in Seq(Sheet)
  BY <1>3, NothingGrows DEF IInv
<1>10. FolderInv' /\ TicksInv'
  BY <1>3, <1>9, OthersKept DEF IInv, FolderInv
<1>11. [r EXCEPT !.pc = "release"] \in Request /\ request' = [request EXCEPT ![k] = [r EXCEPT !.pc = "release"]]
  BY <1>1, <1>3 DEF Request
<1>12. /\ request'[k].pc = "release" /\ request'[k].row = r.row /\ request'[k].job = j
       /\ request'[k].op = r.op /\ request'[k].seen = r.seen
       /\ \A h \in Requests \ {k} : request'[h] = request[h]
  BY <1>1, <1>11 DEF Request
<1>13. RequestOK(request[k])'
  BY <1>1, <1>3, <1>12 DEF RequestOK
<1>14. RequestsInv'
  BY <1>9, <1>12, <1>13, OneRequest DEF IInv
<1>15. TypeOK'
  BY <1>1, <1>7, <1>11 DEF QueueInspectionResult, benchVars, IInv, TypeOK
<1> QED
  BY <1>8, <1>10, <1>14, <1>15 DEF IInv

LEMMA PushStep ==
  ASSUME IInv, NEW k \in Requests, PushLaneChange(k)
  PROVE  IInv'
<1>1. UNCHANGED <<job, sheet, judged, folder, filed, tick>>
  BY DEF PushLaneChange, benchVars
<1>2. /\ request' \in [Requests -> Request] /\ request'[k] = Unused
      /\ \A h \in Requests \ {k} : request'[h] = request[h]
  BY UnusedType DEF PushLaneChange, IInv, TypeOK
<1>3. RequestOK(request[k])'
  BY <1>2 DEF RequestOK, Unused
<1>4. RequestsInv'
  BY <1>1, <1>2, <1>3, NothingGrows, OneRequest DEF IInv
<1>5. board' \in [Lanes -> LaneStatuses]
  BY DEF PushLaneChange, IInv, TypeOK, LaneStatuses
<1>6. TypeOK'
  BY <1>2, <1>5 DEF PushLaneChange, benchVars, IInv, TypeOK
<1> QED
  BY <1>1, <1>4, <1>6, TablesKept DEF IInv

LEMMA HeartbeatStep ==
  ASSUME IInv, Heartbeat
  PROVE  IInv'
<1>1. UNCHANGED <<job, sheet, judged, folder, filed, tick, request>>
  BY DEF Heartbeat, ReadLane, SendSnapshot, benchVars
<1>2. beat' \in Beat /\ board' \in [Lanes -> LaneStatuses]
  <2>1. CASE ReadLane
    <3>1. PICK l \in beat.todo : beat' = [beat EXCEPT !.todo = @ \ {l}, !.lanes[l] = describeLane(l)]
      BY <2>1 DEF ReadLane
    <3>2. describeLane(l) \in LaneStatuses
      BY DEF describeLane, LaneStatuses
    <3> HIDE DEF describeLane
    <3>3. beat.todo \in SUBSET Lanes /\ beat.lanes \in [Lanes -> LaneStatuses] /\ beat \in Beat
      BY DEF IInv, TypeOK, Beat
    <3>4. [beat.lanes EXCEPT ![l] = describeLane(l)] \in [Lanes -> LaneStatuses]
      BY <3>2, <3>3
    <3>5. beat' = [beat EXCEPT !.todo = beat.todo \ {l}, !.lanes = [beat.lanes EXCEPT ![l] = describeLane(l)]]
      BY <3>1, <3>3 DEF Beat
    <3>6. beat' \in Beat
      BY <3>3, <3>4, <3>5 DEF Beat
    <3> QED
      BY <2>1, <3>6 DEF ReadLane, IInv, TypeOK
  <2>2. CASE SendSnapshot
    BY <2>2, NoBeatType DEF SendSnapshot, IInv, TypeOK, Beat
  <2> QED
    BY <2>1, <2>2 DEF Heartbeat
<1>3. UNCHANGED <<today, processed, serving, calls>>
  BY DEF Heartbeat, ReadLane, SendSnapshot
<1>4. TypeOK'
  BY <1>1, <1>2, <1>3 DEF IInv, TypeOK
<1> QED
  BY <1>1, <1>4, TablesKept DEF IInv

LEMMA OutsideStep ==
  ASSUME IInv, (\E l \in Lanes : ToggleLine(l)) \/ NewDay \/ Restart
  PROVE  IInv'
<1>1. UNCHANGED <<job, sheet, judged, folder, filed>>
  BY DEF ToggleLine, NewDay, Restart, benchVars
<1>2. calls' \in 0 .. CallLimit
  BY LimitsAssumption DEF ToggleLine, NewDay, Restart, IInv, TypeOK
<1>3. CASE \E l \in Lanes : ToggleLine(l)
  <2>1. TypeOK' /\ request' = request /\ tick' = tick
    BY <1>1, <1>2, <1>3 DEF ToggleLine, IInv, TypeOK
  <2> QED
    BY <1>1, <2>1, TablesKept DEF IInv
<1>4. CASE NewDay
  <2>1. today' \in Days
    BY <1>4, LimitsAssumption DEF NewDay, IInv, TypeOK, Days
  <2>2. TypeOK' /\ request' = request /\ tick' = tick
    BY <1>1, <1>2, <1>4, <2>1 DEF NewDay, IInv, TypeOK
  <2> QED
    BY <1>1, <2>2, TablesKept DEF IInv
<1>5. CASE Restart
  <2>1. TypeOK'
    BY <1>1, <1>2, <1>5, NoTickType, UnusedType, NoBeatType DEF Restart, IInv, TypeOK
  <2>2. RequestsInv' /\ TicksInv'
    BY <1>5 DEF Restart, RequestsInv, RequestOK, TicksInv, TickOK, Unused, NoTick
  <2> QED
    BY <1>1, <2>1, <2>2, TablesKept DEF IInv
<1> QED
  BY <1>3, <1>4, <1>5

LEMMA WriteStep ==
  ASSUME IInv, WriteOutFile
  PROVE  IInv'
<1>1. PICK n \in Names, p \in Licences \union {NoPlate}, v \in {"none", "Passed", "Failed"} :
        /\ sheet' = Append(sheet, [licence |-> p, verdict |-> v])
        /\ folder' = [folder EXCEPT ![n] = Len(sheet) + 1]
  BY DEF WriteOutFile
<1>2. UNCHANGED <<job, judged, filed, request, tick>> /\ Len(sheet) < MaxWrites
  BY DEF WriteOutFile
<1>3. sheet \in Seq(Sheet) /\ Len(sheet) \in Nat /\ folder \in [Names -> Sheets \union {0}]
  BY DEF IInv, TypeOK
<1>4. [licence |-> p, verdict |-> v] \in Sheet
  BY DEF Sheet
<1>5. /\ sheet' \in Seq(Sheet) /\ Len(sheet') = Len(sheet) + 1
      /\ \A i \in 1 .. Len(sheet) : sheet'[i] = sheet[i]
  BY <1>1, <1>3, <1>4
<1>6. Grow
  BY <1>2, <1>3, <1>5 DEF Grow, Grows, Sheets
<1>7. Len(sheet) + 1 \in Sheets /\ Len(sheet) + 1 # 0
  BY <1>2, <1>3, LimitsAssumption DEF Sheets
<1>8. /\ folder' \in [Names -> Sheets \union {0}]
      /\ \A m \in Names : folder'[m] = folder[m] \/ folder'[m] = Len(sheet) + 1
  BY <1>1, <1>3, <1>7
<1>9. FolderInv' /\ \A m \in Names : folder[m] # 0 => folder'[m] # 0
  <2> SUFFICES ASSUME NEW m \in Names
               PROVE  folder'[m] <= Len(sheet') /\ (folder[m] # 0 => folder'[m] # 0)
    BY DEF FolderInv
  <2>1. folder[m] <= Len(sheet) /\ folder[m] \in Sheets \union {0}
    BY <1>3 DEF IInv, FolderInv
  <2>2. folder[m] \in Int
    BY <2>1, LimitsAssumption DEF Sheets
  <2> QED
    BY <1>3, <1>5, <1>7, <1>8, <2>1, <2>2
<1>10. JobsInv'
  <2> SUFFICES ASSUME NEW i \in Jobs
               PROVE  /\ job[i].status # "none" => Copy(job', sheet', judged', i, job[i])
                      /\ job[i].status = "none" => job[i].result = 0 /\ filed[i] = {}
                      /\ \A q \in filed[i] : Told(job', sheet', judged', i, q)
    BY <1>2 DEF JobsInv
  <2>1. job[i].status # "none" => Copy(job', sheet', judged', i, job[i])
    BY <1>3, <1>5, <1>6, CopyKept DEF IInv, JobsInv, Grow
  <2>2. ASSUME NEW q \in filed[i] PROVE Told(job', sheet', judged', i, q)
    <3>1. /\ q \in [result : Sheets, approved : BOOLEAN] /\ job[i].status # "none"
          /\ Told(job, sheet, judged, i, q)
      BY DEF IInv, TypeOK, JobsInv
    <3> QED
      BY <1>3, <1>5, <1>6, <3>1, ToldKept DEF Grow
  <2> QED
    BY <2>1, <2>2 DEF IInv, JobsInv
<1>11. RequestsInv' /\ TicksInv'
  BY <1>2, <1>5, <1>6, <1>9, OthersKept DEF IInv
<1>12. Len(sheet') <= MaxWrites
  BY <1>2, <1>3, <1>5, LimitsAssumption
<1>13. TypeOK'
  BY <1>5, <1>8, <1>12 DEF WriteOutFile, IInv, TypeOK
<1> QED
  BY <1>9, <1>10, <1>11, <1>13 DEF IInv

\* A tick that goes on with other files, or ends, and remembers names.
LEMMA IdleTick ==
  ASSUME IInv, NEW t \in Ticks, NEW new \in Tick, tick' = [tick EXCEPT ![t] = new],
         new.pc \in {"idle", "scan"}, \A n \in new.todo : folder[n] # 0,
         UNCHANGED <<today, job, judged, sheet, folder, request, serving, beat, board, filed>>,
         processed' \subseteq Names, calls' \in 0 .. CallLimit
  PROVE  IInv'
<1>1. tick \in [Ticks -> Tick]
  BY DEF IInv, TypeOK
<1>2. tick' \in [Ticks -> Tick] /\ tick'[t] = new /\ \A u \in Ticks \ {t} : tick'[u] = tick[u]
  BY <1>1
<1>3. TickOK(tick[t])'
  BY <1>2 DEF TickOK
<1>4. TicksInv'
  BY <1>2, <1>3, NothingGrows, OneTick DEF IInv
<1>5. TypeOK'
  BY <1>2 DEF IInv, TypeOK
<1> QED
  BY <1>4, <1>5, TablesKept DEF IInv

LEMMA NextFileStep ==
  ASSUME IInv, NEW t \in Ticks, NextFile(t),
         UNCHANGED <<today, job, judged, sheet, folder, request, serving, beat, board, filed>>,
         processed' \subseteq Names, calls' \in 0 .. CallLimit
  PROVE  IInv'
<1> DEFINE new == IF tick[t].todo = {} THEN NoTick ELSE [NoTick EXCEPT !.pc = "scan", !.todo = tick[t].todo]
<1>1. tick[t] \in Tick /\ TickOK(tick[t])
  BY DEF IInv, TypeOK, TicksInv
<1>2. tick' = [tick EXCEPT ![t] = new]
  BY DEF NextFile
<1>3. new \in Tick /\ new.pc \in {"idle", "scan"} /\ new.todo = tick[t].todo
  BY <1>1, NoTickType DEF NoTick, Tick
<1> HIDE DEF new
<1>4. \A n \in new.todo : folder[n] # 0
  BY <1>1, <1>3 DEF TickOK
<1> QED
  BY <1>2, <1>3, <1>4, IdleTick

LEMMA ScanStep ==
  ASSUME IInv, NEW t \in Ticks, ScanFolder(t) \/ TickEnd(t)
  PROVE  IInv'
<1>1. UNCHANGED <<today, job, judged, sheet, folder, processed, request, serving, beat, board, filed, calls>>
  BY DEF ScanFolder, TickEnd, benchVars
<1>2. processed' \subseteq Names /\ calls' \in 0 .. CallLimit /\ tick[t] \in Tick
  BY <1>1 DEF IInv, TypeOK
<1>3. CASE ScanFolder(t)
  <2> DEFINE files == {n \in Names : folder[n] # 0} \ processed
             new == [tick[t] EXCEPT !.pc = "scan", !.todo = files]
  <2>1. tick' = [tick EXCEPT ![t] = new]
    BY <1>2, <1>3 DEF ScanFolder
  <2>2. new \in Tick /\ new.pc = "scan" /\ new.todo = files
    BY <1>2 DEF Tick
  <2> HIDE DEF new
  <2>3. \A n \in new.todo : folder[n] # 0
    BY <2>2
  <2> QED
    BY <1>1, <1>2, <2>1, <2>2, <2>3, IdleTick
<1>4. CASE TickEnd(t)
  <2>1. tick' = [tick EXCEPT ![t] = NoTick] /\ NoTick.todo = {} /\ NoTick.pc = "idle"
    BY <1>4 DEF TickEnd, NoTick
  <2> QED
    BY <1>1, <1>2, <2>1, NoTickType, IdleTick
<1> QED
  BY <1>3, <1>4

LEMMA ReadFileStep ==
  ASSUME IInv, NEW t \in Ticks, ReadFile(t)
  PROVE  IInv'
<1>1. UNCHANGED <<today, job, judged, sheet, folder, request, serving, beat, board, filed, calls>>
  BY DEF ReadFile, benchVars
<1>2. tick \in [Ticks -> Tick] /\ tick[t] \in Tick /\ TickOK(tick[t]) /\ calls' \in 0 .. CallLimit
  BY <1>1 DEF IInv, TypeOK, TicksInv
<1>3. PICK n \in tick[t].todo :
        LET rest == [NoTick EXCEPT !.pc = "scan", !.todo = tick[t].todo \ {n}] IN
        \/ tick' = [tick EXCEPT ![t] = rest] /\ processed' = processed
        \/ tick' = [tick EXCEPT ![t] = rest] /\ processed' = processed \union {n}
        \/ /\ tick' = [tick EXCEPT ![t] = [rest EXCEPT !.pc = "match", !.name = n, !.sheet = folder[n]]]
           /\ processed' = processed
  BY DEF ReadFile
<1> DEFINE rest == [NoTick EXCEPT !.pc = "scan", !.todo = tick[t].todo \ {n}]
           match == [rest EXCEPT !.pc = "match", !.name = n, !.sheet = folder[n]]
<1>4. n \in Names /\ folder[n] # 0 /\ folder[n] \in Sheets \union {0}
  BY <1>2 DEF Tick, TickOK, IInv, TypeOK
<1>5. rest \in Tick /\ rest.pc = "scan" /\ rest.todo = tick[t].todo \ {n}
  BY <1>2, NoTickType DEF Tick
<1>6. match \in Tick /\ match.pc = "match" /\ match.sheet = folder[n] /\ match.todo = tick[t].todo \ {n}
  BY <1>2, <1>4, NoTickType DEF Tick
<1>7. processed' \subseteq Names
  BY <1>3, <1>4 DEF IInv, TypeOK
<1>8. \/ tick' = [tick EXCEPT ![t] = rest]
      \/ tick' = [tick EXCEPT ![t] = match] /\ processed' = processed
  BY <1>3
<1> HIDE DEF rest, match
<1>9. CASE tick' = [tick EXCEPT ![t] = rest]
  <2>1. \A m \in rest.todo : folder[m] # 0
    BY <1>2, <1>5 DEF TickOK
  <2> QED
    BY <1>1, <1>2, <1>5, <1>7, <1>9, <2>1, IdleTick
<1>10. CASE tick' = [tick EXCEPT ![t] = match] /\ processed' = processed
  <2>1. tick' \in [Ticks -> Tick] /\ tick'[t] = match /\ \A u \in Ticks \ {t} : tick'[u] = tick[u]
    BY <1>2, <1>6, <1>10
  <2>2. folder[n] \in 1 .. Len(sheet)
    <3>1. folder[n] <= Len(sheet) /\ Len(sheet) \in Nat /\ folder[n] \in Nat
      BY <1>4, LimitsAssumption DEF IInv, TypeOK, FolderInv, Sheets
    <3> QED
      BY <1>4, <3>1
  <2>3. TickOK(tick[t])'
    BY <1>1, <1>2, <1>6, <2>1, <2>2 DEF TickOK
  <2>4. TicksInv'
    BY <1>1, <2>1, <2>3, NothingGrows, OneTick DEF IInv
  <2>5. TypeOK'
    BY <1>1, <1>10, <2>1 DEF IInv, TypeOK
  <2> QED
    BY <1>1, <2>4, <2>5, TablesKept DEF IInv
<1> QED
  BY <1>8, <1>9, <1>10

LEMMA MatchStep ==
  ASSUME IInv, NEW t \in Ticks, MatchJob(t)
  PROVE  IInv'
<1> DEFINE p == sheet[tick[t].sheet].licence
<1>1. UNCHANGED <<today, job, judged, sheet, folder, request, serving, beat, board, filed, calls>>
  BY DEF MatchJob, benchVars
<1>2. /\ tick \in [Ticks -> Tick] /\ tick[t] \in Tick /\ TickOK(tick[t])
      /\ calls' \in 0 .. CallLimit /\ tick[t].pc = "match"
  BY <1>1 DEF IInv, TypeOK, TicksInv, MatchJob
<1>3. \/ NextFile(t) /\ processed' \subseteq Names
      \/ /\ processed' = processed
         /\ \E j \in Running(p) :
              tick' = [tick EXCEPT ![t] = [tick[t] EXCEPT !.pc = "save", !.job = j, !.row = job[j]]]
  <2>1. tick[t].name \in Names
    BY <1>2 DEF Tick
  <2> QED
    BY <1>2, <2>1 DEF MatchJob, IInv, TypeOK
<1>4. CASE NextFile(t) /\ processed' \subseteq Names
  BY <1>1, <1>2, <1>4, NextFileStep
<1>5. ASSUME NEW j \in Running(p), processed' = processed,
             tick' = [tick EXCEPT ![t] = [tick[t] EXCEPT !.pc = "save", !.job = j, !.row = job[j]]]
      PROVE  IInv'
  <2> DEFINE new == [tick[t] EXCEPT !.pc = "save", !.job = j, !.row = job[j]]
  <2>1. j \in Jobs /\ job[j].plate = p /\ job[j].status # "none" /\ job[j] \in Job
    BY DEF Running, Active, IInv, TypeOK
  <2>2. /\ new \in Tick /\ new.pc = "save" /\ new.job = j /\ new.row = job[j]
        /\ new.sheet = tick[t].sheet /\ new.todo = tick[t].todo
    BY <1>2, <2>1 DEF Tick
  <2>3. tick' = [tick EXCEPT ![t] = new]
    BY <1>5
  <2> HIDE DEF new
  <2>4. tick' \in [Ticks -> Tick] /\ tick'[t] = new /\ \A u \in Ticks \ {t} : tick'[u] = tick[u]
    BY <1>2, <2>2, <2>3
  <2>5. Copy(job, sheet, judged, j, job[j])
    BY <2>1 DEF IInv, JobsInv
  <2>6. TickOK(tick[t])'
    BY <1>1, <1>2, <2>1, <2>2, <2>4, <2>5 DEF TickOK
  <2>7. TicksInv'
    BY <1>1, <2>4, <2>6, NothingGrows, OneTick DEF IInv
  <2>8. TypeOK'
    BY <1>1, <1>5, <2>4 DEF IInv, TypeOK
  <2> QED
    BY <1>1, <2>7, <2>8, TablesKept DEF IInv
<1> QED
  BY <1>3, <1>4, <1>5

LEMMA SaveResultStep ==
  ASSUME IInv, NEW t \in Ticks, SaveResult(t)
  PROVE  IInv'
<1> DEFINE s == tick[t].sheet  v == sheet[tick[t].sheet].verdict  old == tick[t].row  j == tick[t].job
           new == [old EXCEPT !.result = s, !.overall = IF v = "none" THEN @ ELSE v]
<1>1. /\ tick[t] \in Tick /\ TickOK(tick[t]) /\ tick[t].pc = "save"
      /\ job \in [Jobs -> Job] /\ sheet \in Seq(Sheet) /\ Len(sheet) <= MaxWrites
  BY DEF IInv, TypeOK, TicksInv, SaveResult
<1>2. /\ s \in 1 .. Len(sheet) /\ j \in Jobs /\ Copy(job, sheet, judged, j, old)
      /\ old.plate = sheet[s].licence
  BY <1>1 DEF TickOK
<1>3. s \in Sheets /\ sheet[s] \in Sheet /\ s # 0 /\ s <= Len(sheet)
  BY <1>1, <1>2, LimitsAssumption DEF Sheets
<1>4. v \in {"none", "Passed", "Failed"}
  BY <1>3 DEF Sheet
<1>5. /\ UNCHANGED <<today, judged, sheet, folder, request, serving, beat, board, filed, calls>>
      /\ job' = [job EXCEPT ![j] = new]
  BY DEF SaveResult, benchVars
<1>6. /\ new \in Job /\ new.plate = old.plate /\ new.status = old.status /\ new.result = s
      /\ v = "Failed" => new.overall = "Failed"
  BY <1>2, <1>3, <1>4 DEF Copy, Job, Overall
<1> HIDE DEF new
<1>7. job'[j] = new /\ job[j].status # "none" /\ new.plate = job[j].plate /\ new.status # "none"
  BY <1>1, <1>2, <1>5, <1>6 DEF Copy
<1>8. Copy(job', sheet', judged', j, new)
  BY <1>2, <1>3, <1>5, <1>6, <1>7 DEF Copy
<1>9. JobsInv' /\ Grow /\ job' \in [Jobs -> Job]
  BY <1>2, <1>5, <1>6, <1>7, <1>8, OneJob DEF IInv
<1>10. RequestsInv' /\ FolderInv'
  BY <1>1, <1>5, <1>9, OthersKept DEF IInv, FolderInv
<1> DEFINE next == IF tick[t].todo = {} THEN NoTick ELSE [NoTick EXCEPT !.pc = "scan", !.todo = tick[t].todo]
<1>11. tick' = [tick EXCEPT ![t] = next]
  BY DEF SaveResult, NextFile
<1>12. next \in Tick /\ next.pc \in {"idle", "scan"} /\ next.todo = tick[t].todo
  BY <1>1, NoTickType DEF NoTick, Tick
<1> HIDE DEF next
<1>13. tick' \in [Ticks -> Tick] /\ tick'[t] = next /\ \A u \in Ticks \ {t} : tick'[u] = tick[u]
  BY <1>11, <1>12 DEF IInv, TypeOK
<1>14. TickOK(tick[t])'
  BY <1>1, <1>5, <1>12, <1>13 DEF TickOK
<1>15. TicksInv'
  BY <1>1, <1>5, <1>9, <1>13, <1>14, OneTick DEF IInv
<1>16. processed' \subseteq Names
  BY <1>1 DEF SaveResult, Tick, IInv, TypeOK
<1>17. TypeOK'
  BY <1>5, <1>9, <1>13, <1>16 DEF IInv, TypeOK
<1> QED
  BY <1>9, <1>10, <1>15, <1>17 DEF IInv

LEMMA WatchStep ==
  ASSUME IInv, NEW t \in Ticks, Watch(t) \/ TickFault(t)
  PROVE  IInv'
<1>1. CASE TickFault(t)
  <2>1. calls' \in 0 .. CallLimit /\ processed' \subseteq Names
    BY <1>1, LimitsAssumption DEF TickFault, IInv, TypeOK
  <2> QED
    BY <1>1, <2>1, NextFileStep DEF TickFault, benchVars
<1>2. CASE Watch(t)
  BY <1>2, ScanStep, ReadFileStep, MatchStep, SaveResultStep DEF Watch
<1> QED
  BY <1>1, <1>2

LEMMA NextInv == IInv /\ [Next]_vars => IInv'
<1> SUFFICES ASSUME IInv, [Next]_vars PROVE IInv'
  OBVIOUS
<1>1. CASE UNCHANGED vars
  BY <1>1 DEF vars, IInv, TypeOK, FolderInv, JobsInv, RequestsInv, RequestOK, TicksInv, TickOK
<1>2. ASSUME NEW k \in Requests, Serve(k) PROVE IInv'
  BY <1>2, ReadForUpdateStep, SaveUpdateStep, QueueStep, PushStep DEF Serve
<1>3. CASE Next
  BY <1>2, <1>3, CreateStep, JobRequestStep, OutsideStep, WriteStep, WatchStep, HeartbeatStep DEF Next
<1> QED
  BY <1>1, <1>3

-----------------------------------------------------------------------------
(* Theorems.                                                               *)

LEMMA IInvHolds == Spec => []IInv
<1>1. Init => IInv
  BY InitInv
<1>2. IInv /\ [Next]_vars => IInv'
  BY NextInv
<1> QED
  BY <1>1, <1>2, PTL DEF Spec

\* Reports stay with the vehicle they were measured on and are never filed as
\* better than the bench said, for any number of jobs, files, stale saves,
\* overlapping ticks and restarts (scanFolder, jobDao.save, submitJob).
THEOREM ReportsInvHolds == Spec => []ReportsInv
<1>1. IInv => ReportsInv
  <2> SUFFICES ASSUME IInv PROVE ResultOfVehicle /\ FailureNotApproved
    BY DEF IInv, ReportsInv
  <2>1. ASSUME NEW j \in Jobs, job[j].result # 0
        PROVE  sheet[job[j].result].licence = job[j].plate
    BY <2>1 DEF IInv, JobsInv, Copy
  <2>2. ASSUME NEW j \in Jobs, NEW r \in filed[j]
        PROVE  /\ sheet[r.result].licence = job[j].plate
               /\ r.approved /\ sheet[r.result].verdict = "Failed" => j \in judged
    BY DEF IInv, JobsInv, Told
  <2> QED
    BY <2>1, <2>2 DEF ResultOfVehicle, FailureNotApproved
<1> QED
  BY <1>1, IInvHolds, PTL

=============================================================================
