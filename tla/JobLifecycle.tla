---------------------------- MODULE JobLifecycle ----------------------------
(***************************************************************************)
(* A job on the test lane. Requests start, edit, redo, submit and delete   *)
(* it; the test bench answers an IN file with an OUT file; a watcher polls *)
(* the OUT folder every 5 s and writes what it finds over the job; the     *)
(* provider is told of every change of a lane, and every 5 minutes of all. *)
(*                                                                         *)
(* jobDao.save compares the entity it is given with the row and writes     *)
(* every column that differs, so a save puts back what its entity was read *)
(* with: requests and ticks that overlap overwrite each other.             *)
(*                                                                         *)
(* Events reach the provider in the order they are queued (TajdeedOutbox   *)
(* delivers them), so board is what the last one said of a lane.           *)
(***************************************************************************)
EXTENDS Integers, FiniteSets, Sequences

CONSTANTS
  MaxJobs,       \* bound: rows of the jobs table, by their job_id
  Plates,        \* vehicles jobs are made for
  Strangers,     \* other plates a file may name
  Lanes,         \* lines the provider knows a lane of
  Requests,      \* concurrent operator requests
  Ticks,         \* concurrent ticks of the watcher: nothing stops an overlap
  Booked,        \* jobs of an appointment the provider holds a booking for
  NoPlate,
  MaxWrites,     \* bound: OUT files the bench writes
  CallLimit,     \* bound: requests, restarts, errors and midnights, together
  LastDay        \* bound: Oman days, 0 .. LastDay

Jobs == 1 .. MaxJobs
Licences == Plates \union Strangers
NoJob == 0

ASSUME NamesAssumption ==
  NoPlate \notin Licences /\ Booked \subseteq Jobs /\ Lanes # {}

ASSUME LimitsAssumption ==
  /\ MaxJobs \in Nat
  /\ MaxWrites \in Nat
  /\ CallLimit \in Nat
  /\ LastDay \in Nat

VARIABLES
  today,      \* the Oman day
  job,        \* the jobs table
  judged,     \* jobs whose overall_result an operator wrote by hand
  sheet,      \* what the bench wrote, in order
  folder,     \* the OUT folder: the sheet under each file name, 0 for none
  processed,  \* OutfileWatcherService.processed, in memory
  tick,       \* local state of each tick
  request,    \* local state of each request
  serving,    \* lines that are Active
  beat,       \* local state of the heartbeat
  board,      \* what the provider last heard of each lane
  filed,      \* inspection results queued for the provider, by job
  calls

benchVars == <<sheet, folder>>
vars == <<today, job, judged, sheet, folder, processed, tick, request,
          serving, beat, board, filed, calls>>

-----------------------------------------------------------------------------
(* Types.                                                                  *)

Days == 0 .. LastDay
Sheets == 1 .. MaxWrites

\* Names that follow <PLATE>-outfile-<YYYYMMDD>, and one that does not.
Odd == [plate |-> NoPlate, day |-> 0]
Names == [plate : Licences, day : Days] \union {Odd}

Statuses == {"Pending", "In Progress", "Completed"}
LaneStatuses == {"IDLE", "OCCUPIED", "OUT_OF_SERVICE"}
Overall == {"none", "Passed", "Failed", "Redo"}

Job == [status : Statuses \union {"none"}, gone : BOOLEAN,
        plate : Plates \union {NoPlate}, lane : Lanes,
        day : Days, overall : Overall, result : Sheets \union {0}]

\* A LicenceNo that is missing is NoPlate; a sheet without any result of a rig
\* has no verdict.
Sheet == [licence : Licences \union {NoPlate}, verdict : {"none", "Passed", "Failed"}]

\* What an UpdateJobDto changes.
Patch == [status : Statuses \union {"keep"}, overall : Overall \union {"keep"}]
Keep == [status |-> "keep", overall |-> "keep"]

NewRow(l) == [status |-> "none", gone |-> FALSE, plate |-> NoPlate, lane |-> l,
              day |-> 0, overall |-> "none", result |-> 0]
Blank == NewRow(CHOOSE l \in Lanes : TRUE)

Tick == [pc : {"idle", "scan", "match", "save"}, todo : SUBSET Names,
         name : Names, sheet : Sheets \union {0}, job : Jobs \union {NoJob}, row : Job]

NoTick == [pc |-> "idle", todo |-> {}, name |-> Odd,
           sheet |-> 0, job |-> NoJob, row |-> Blank]

\* seen: the entity submitJob() read first, row: the one update() read.
Request == [pc : {"idle", "update", "save", "file", "release", "occupy"},
            op : {"edit", "remove", "start", "submit"}, job : Jobs \union {NoJob},
            patch : Patch, seen : Job, row : Job]

Unused == [pc |-> "idle", op |-> "edit", job |-> NoJob, patch |-> Keep,
           seen |-> Blank, row |-> Blank]

\* What a heartbeat has read so far.
Beat == [todo : SUBSET Lanes, lanes : [Lanes -> LaneStatuses]]

NoBeat == [todo |-> Lanes, lanes |-> [l \in Lanes |-> "IDLE"]]

TypeOK ==
  /\ today \in Days
  /\ job \in [Jobs -> Job]
  /\ judged \subseteq Jobs
  /\ sheet \in Seq(Sheet) /\ Len(sheet) <= MaxWrites
  /\ folder \in [Names -> Sheets \union {0}]
  /\ processed \subseteq Names
  /\ tick \in [Ticks -> Tick]
  /\ request \in [Requests -> Request]
  /\ serving \subseteq Lanes
  /\ beat \in Beat
  /\ board \in [Lanes -> LaneStatuses]
  /\ filed \in [Jobs -> SUBSET [result : Sheets, approved : BOOLEAN]]
  /\ calls \in 0 .. CallLimit

-----------------------------------------------------------------------------
(* Queries.                                                                *)

Active(j) == job[j].status # "none" /\ ~ job[j].gone

\* Mutant: any running job takes the file.
Running_AnyPlate(p) == {j \in Jobs : Active(j) /\ job[j].status = "In Progress"}

\* The candidates of an OUT file.
Running(p) == {j \in Jobs : Active(j) /\ job[j].status = "In Progress"
                                      /\ job[j].plate = p}

findActiveByLineId(l) == {j \in Jobs : /\ Active(j)
                                       /\ job[j].status \in {"Pending", "In Progress"}
                                       /\ job[j].lane = l}

-----------------------------------------------------------------------------
(* Requests.                                                               *)

\* create(), createFromAppointment(), createFromIntake(): a Pending row under
\* the next job_id.
CreateJob(j) ==
  /\ job[j].status = "none"
  /\ \A i \in 1 .. j - 1 : job[i].status # "none"
  /\ \E p \in Plates, l \in Lanes :
       job' = [job EXCEPT ![j] = [NewRow(l) EXCEPT
         !.status = "Pending", !.plate = p, !.day = today]]
  /\ UNCHANGED <<today, judged, benchVars, processed, tick, request, serving,
                 beat, board, filed, calls>>

\* The first step of a request: findOne() and what precedes the update.
Call(k, j, op, patch) ==
  /\ calls < CallLimit
  /\ request[k].pc = "idle"
  /\ Active(j)
  /\ calls' = calls + 1
  /\ request' = [request EXCEPT ![k] =
       [Unused EXCEPT !.pc = "update", !.op = op, !.job = j, !.patch = patch,
                      !.seen = IF op = "submit" THEN job[j] ELSE @]]
  /\ UNCHANGED <<today, job, judged, benchVars, processed, tick, serving, beat,
                 board, filed>>

\* The IN file is written first; a share that cannot be written to is logged
\* and the job starts all the same.
StartJob(k, j) == Call(k, j, "start", [Keep EXCEPT !.status = "In Progress"])

\* "ROP submission must be on the same day the job was created".
SubmitJob(k, j) ==
  /\ job[j].day = today
  /\ Call(k, j, "submit", [Keep EXCEPT !.status = "Completed"])

RedoJob(k, j) == Call(k, j, "edit", [Keep EXCEPT !.overall = "Redo"])

\* PATCH /jobs/:id may set either column to any value.
EditJob(k, j) ==
  \/ \E s \in Statuses : Call(k, j, "edit", [Keep EXCEPT !.status = s])
  \/ \E v \in Overall : Call(k, j, "edit", [Keep EXCEPT !.overall = v])

RemoveJob(k, j) == Call(k, j, "remove", Keep)

ReadForUpdate(k) ==
  LET j == request[k].job IN
  /\ request[k].pc = "update"
  /\ request' = [request EXCEPT ![k] =
       IF Active(j) THEN [@ EXCEPT !.pc = "save", !.row = job[j]] ELSE Unused]
  /\ UNCHANGED <<today, job, judged, benchVars, processed, tick, serving, beat,
                 board, filed, calls>>

Merge(row, patch) == [row EXCEPT
  !.status = IF patch.status = "keep" THEN @ ELSE patch.status,
  !.overall = IF patch.overall = "keep" THEN @ ELSE patch.overall]

SaveUpdate(k) ==
  LET r == request[k] IN
  /\ r.pc = "save"
  /\ job' = [job EXCEPT ![r.job] =
       IF r.op = "remove" THEN [r.row EXCEPT !.gone = TRUE]
       ELSE Merge(r.row, r.patch)]
  /\ judged' = IF r.patch.overall = "keep" THEN judged ELSE judged \union {r.job}
  /\ request' = [request EXCEPT ![k] =
       CASE r.op = "submit" -> [@ EXCEPT !.pc = "file"]
         [] r.op = "start" -> [@ EXCEPT !.pc = "occupy"]
         [] OTHER -> Unused]
  /\ UNCHANGED <<today, benchVars, processed, tick, serving, beat, board, filed,
                 calls>>

\* Mutant: a verdict is a pass.
ResultPayload_AnyVerdict(row) == [result |-> row.result, approved |-> row.overall # "none"]

\* buildInspectionResultPayload(): APPROVED exclusively for a pass.
ResultPayload(row) == [result |-> row.result, approved |-> row.overall = "Passed"]

\* queueInspectionResult(job) files the entity read before the submission. A
\* walk-in and a job without OUT file file nothing; the outbox drops a result
\* while another one of the job is live.
QueueInspectionResult(k) ==
  LET r == request[k] IN
  /\ r.pc = "file"
  /\ \/ /\ r.job \in Booked /\ r.seen.result # 0
        /\ filed' = [filed EXCEPT ![r.job] = @ \union {ResultPayload(r.seen)}]
     \/ /\ r.job \in Booked /\ r.seen.result # 0 => filed[r.job] # {}
        /\ UNCHANGED filed
  /\ request' = [request EXCEPT ![k].pc = "release"]
  /\ UNCHANGED <<today, job, judged, benchVars, processed, tick, serving, beat,
                 board, calls>>

\* Mutant: the lane is told the status of the job.
PushLaneChange_JobStatus(k) ==
  LET r == request[k] IN
  /\ r.pc \in {"release", "occupy"}
  /\ board' = [board EXCEPT ![r.row.lane] = r.row.status]
  /\ request' = [request EXCEPT ![k] = Unused]
  /\ UNCHANGED <<today, job, judged, benchVars, processed, tick, serving, beat,
                 filed, calls>>

\* pushLaneChange(); the lane of a job does not change.
PushLaneChange(k) ==
  LET r == request[k] IN
  /\ r.pc \in {"release", "occupy"}
  /\ board' = [board EXCEPT ![r.row.lane] =
       IF r.pc = "occupy" THEN "OCCUPIED" ELSE "IDLE"]
  /\ request' = [request EXCEPT ![k] = Unused]
  /\ UNCHANGED <<today, job, judged, benchVars, processed, tick, serving, beat,
                 filed, calls>>

Serve(k) == \/ ReadForUpdate(k) \/ SaveUpdate(k)
            \/ QueueInspectionResult(k) \/ PushLaneChange(k)

\* A line is disabled or enabled in the masters.
ToggleLine(l) ==
  /\ calls < CallLimit
  /\ calls' = calls + 1
  /\ serving' = (serving \ {l}) \union ({l} \ serving)
  /\ UNCHANGED <<today, job, judged, benchVars, processed, tick, request, beat,
                 board, filed>>

-----------------------------------------------------------------------------
(* The bench (external) and the watcher of its OUT folder.                 *)

\* The bench, or generate() in development, answers for a vehicle. The rig does
\* not always follow the naming convention, and a file may be renamed.
WriteOutFile ==
  /\ Len(sheet) < MaxWrites
  /\ \E n \in Names, p \in Licences \union {NoPlate}, v \in {"none", "Passed", "Failed"} :
       /\ n.day = today \/ n = Odd
       /\ sheet' = Append(sheet, [licence |-> p, verdict |-> v])
       /\ folder' = [folder EXCEPT ![n] = Len(sheet) + 1]
  /\ UNCHANGED <<today, job, judged, processed, tick, request, serving,
                 beat, board, filed, calls>>

\* A file is done with for this tick; processed' says whether for good.
NextFile(t) == tick' = [tick EXCEPT ![t] =
  IF tick[t].todo = {} THEN NoTick
  ELSE [NoTick EXCEPT !.pc = "scan", !.todo = tick[t].todo]]

ScanFolder(t) ==
  /\ tick[t].pc = "idle"
  /\ \E n \in Names : folder[n] # 0 /\ n \notin processed
  /\ tick' = [tick EXCEPT ![t].pc = "scan",
                          ![t].todo = {n \in Names : folder[n] # 0} \ processed]
  /\ UNCHANGED <<today, job, judged, benchVars, processed, request, serving,
                 beat, board, filed, calls>>

\* A file without a plate, or named for another plate than its own, is refused
\* for good; a name that names no plate is not.
Refused(n) == \/ sheet[folder[n]].licence = NoPlate
              \/ n # Odd /\ sheet[folder[n]].licence # n.plate

ReadFile(t) ==
  /\ tick[t].pc = "scan"
  /\ \E n \in tick[t].todo :
       LET rest == [NoTick EXCEPT !.pc = "scan", !.todo = tick[t].todo \ {n}]
       IN \/ /\ n \in processed
             /\ tick' = [tick EXCEPT ![t] = rest]
             /\ UNCHANGED processed
          \/ /\ n \notin processed
             /\ Refused(n)
             /\ processed' = processed \union {n}
             /\ tick' = [tick EXCEPT ![t] = rest]
          \/ /\ n \notin processed
             /\ ~ Refused(n)
             /\ tick' = [tick EXCEPT ![t] = [rest EXCEPT
                  !.pc = "match", !.name = n, !.sheet = folder[n]]]
             /\ UNCHANGED processed
  /\ UNCHANGED <<today, job, judged, benchVars, request, serving, beat, board,
                 filed, calls>>

\* No running job: the file is tried again in the next cycle. Several: it is
\* left to an operator for good.
MatchJob(t) ==
  LET found == Running(sheet[tick[t].sheet].licence) IN
  /\ tick[t].pc = "match"
  /\ \/ /\ found = {}
        /\ NextFile(t)
        /\ UNCHANGED processed
     \/ /\ Cardinality(found) > 1
        /\ NextFile(t)
        /\ processed' = processed \union {tick[t].name}
     \/ \E j \in found :
          /\ found = {j}
          /\ tick' = [tick EXCEPT ![t] = [@ EXCEPT
               !.pc = "save", !.job = j, !.row = job[j]]]
          /\ UNCHANGED processed
  /\ UNCHANGED <<today, job, judged, benchVars, request, serving, beat, board,
                 filed, calls>>

\* deriveOverallResult() of a sheet without verdict leaves overall_result alone.
SaveResult(t) ==
  LET v == sheet[tick[t].sheet].verdict IN
  /\ tick[t].pc = "save"
  /\ job' = [job EXCEPT ![tick[t].job] = [tick[t].row EXCEPT
       !.result = tick[t].sheet, !.overall = IF v = "none" THEN @ ELSE v]]
  /\ processed' = processed \union {tick[t].name}
  /\ NextFile(t)
  /\ UNCHANGED <<today, judged, benchVars, request, serving, beat, board, filed,
                 calls>>

\* Mutant: a file is marked before it is handled.
TickFault_Marked(t) ==
  /\ calls < CallLimit
  /\ tick[t].pc \in {"match", "save"}
  /\ calls' = calls + 1
  /\ NextFile(t)
  /\ processed' = processed \union {tick[t].name}
  /\ UNCHANGED <<today, job, judged, benchVars, request, serving, beat, board,
                 filed>>

\* A query or the save throws: the file stays unprocessed.
TickFault(t) ==
  /\ calls < CallLimit
  /\ tick[t].pc \in {"match", "save"}
  /\ calls' = calls + 1
  /\ NextFile(t)
  /\ UNCHANGED <<today, job, judged, benchVars, processed, request, serving,
                 beat, board, filed>>

TickEnd(t) ==
  /\ tick[t].pc = "scan" /\ tick[t].todo = {}
  /\ tick' = [tick EXCEPT ![t] = NoTick]
  /\ UNCHANGED <<today, job, judged, benchVars, processed, request, serving,
                 beat, board, filed, calls>>

Watch(t) == \/ ScanFolder(t) \/ ReadFile(t) \/ MatchJob(t) \/ SaveResult(t)
            \/ TickEnd(t)

-----------------------------------------------------------------------------
(* The heartbeat of the lanes.                                             *)

\* Mutant: a job that only waits occupies the lane.
describeLane_Waiting(l) ==
  CASE l \notin serving -> "OUT_OF_SERVICE"
    [] l \in serving /\ findActiveByLineId(l) # {} -> "OCCUPIED"
    [] OTHER -> "IDLE"

describeLane(l) ==
  CASE l \notin serving -> "OUT_OF_SERVICE"
    [] l \in serving /\ \E j \in findActiveByLineId(l) :
                          job[j].status = "In Progress" -> "OCCUPIED"
    [] OTHER -> "IDLE"

\* pushCentre() reads the lanes one by one.
ReadLane ==
  /\ \E l \in beat.todo :
       beat' = [beat EXCEPT !.todo = @ \ {l}, !.lanes[l] = describeLane(l)]
  /\ UNCHANGED <<today, job, judged, benchVars, processed, tick, request,
                 serving, board, filed, calls>>

SendSnapshot ==
  /\ beat.todo = {}
  /\ board' = beat.lanes
  /\ beat' = NoBeat
  /\ UNCHANGED <<today, job, judged, benchVars, processed, tick, request,
                 serving, filed, calls>>

Heartbeat == ReadLane \/ SendSnapshot

-----------------------------------------------------------------------------
NewDay ==
  /\ today < LastDay /\ calls < CallLimit
  /\ today' = today + 1
  /\ calls' = calls + 1
  /\ UNCHANGED <<job, judged, benchVars, processed, tick, request, serving,
                 beat, board, filed>>

\* processed and everything in flight is lost.
Restart ==
  /\ calls < CallLimit
  /\ calls' = calls + 1
  /\ processed' = {}
  /\ tick' = [t \in Ticks |-> NoTick]
  /\ request' = [k \in Requests |-> Unused]
  /\ beat' = NoBeat
  /\ UNCHANGED <<today, job, judged, benchVars, serving, board, filed>>

Init ==
  /\ today = 0
  /\ job = [j \in Jobs |-> Blank]
  /\ judged = {}
  /\ sheet = <<>>
  /\ folder = [n \in Names |-> 0]
  /\ processed = {}
  /\ tick = [t \in Ticks |-> NoTick]
  /\ request = [k \in Requests |-> Unused]
  /\ serving = Lanes
  /\ beat = NoBeat
  /\ board = [l \in Lanes |-> "IDLE"]
  /\ filed = [j \in Jobs |-> {}]
  /\ calls = 0

\* The requests of JobController about a job that exists.
JobRequest(k, j) ==
  \/ StartJob(k, j) \/ SubmitJob(k, j) \/ RedoJob(k, j)
  \/ EditJob(k, j) \/ RemoveJob(k, j)

Next ==
  \/ \E j \in Jobs : CreateJob(j)
  \/ \E k \in Requests, j \in Jobs : JobRequest(k, j)
  \/ \E k \in Requests : Serve(k)
  \/ \E l \in Lanes : ToggleLine(l)
  \/ WriteOutFile
  \/ \E t \in Ticks : Watch(t) \/ TickFault(t)
  \/ Heartbeat
  \/ NewDay
  \/ Restart

Spec == Init /\ [][Next]_vars

\* The intervals keep firing, and what has begun goes on to its end.
Fairness ==
  /\ WF_vars(Heartbeat)
  /\ \A t \in Ticks : WF_vars(Watch(t))
  /\ \A k \in Requests : WF_vars(Serve(k))
FairSpec == Spec /\ Fairness

-----------------------------------------------------------------------------
(* Properties.                                                             *)

\* "A mismatch means ... its result would be attributed to the wrong vehicle,
\* so it is refused" (scanFolder): whatever ticks, saves and restarts overlap,
\* the result of a job, and the one filed for it, was measured on its vehicle.
ResultOfVehicle ==
  \A j \in Jobs :
    /\ job[j].result # 0 => sheet[job[j].result].licence = job[j].plate
    /\ \A r \in filed[j] : sheet[r.result].licence = job[j].plate

\* "anything else records a failure": a report that failed on the bench is
\* never filed as APPROVED, unless an operator wrote the verdict by hand
\* (buildInspectionResultPayload, scanFolder, redoJob).
FailureNotApproved ==
  \A j \in Jobs : \A r \in filed[j] :
    r.approved /\ sheet[r.result].verdict = "Failed" => j \in judged

\* "it doubles as the repair mechanism for any single change that was lost":
\* when lanes and jobs come to rest the provider's board shows which lanes a
\* vehicle is on (LaneStatusService).
BoardConverges ==
  <>[](\A l \in Lanes :
         board[l] = IF l \notin serving THEN "OUT_OF_SERVICE"
                    ELSE IF \E j \in Jobs : Active(j) /\ job[j].lane = l
                              /\ job[j].status = "In Progress" THEN "OCCUPIED"
                    ELSE "IDLE")

\* A sheet the watcher takes, of a vehicle with one running job.
Attachable(n, s) == /\ folder[n] = s /\ ~ Refused(n)
                    /\ Cardinality(Running(sheet[s].licence)) = 1
Attached(s) == \E j \in Jobs : job[j].result = s

\* "not started yet - retry next cycle": a file the watcher takes, of a vehicle with one
\* running job, is attached to a job in the end, unless the job stops running or
\* the file was already settled (scanFolder).
FileIsRead ==
  \A s \in Sheets :
    (\E n \in Names : Attachable(n, s) /\ n \notin processed)
    ~> (Attached(s) \/ ~ \E n \in Names : Attachable(n, s))

\* What requests, ticks and restarts may never do to a report: give it to
\* another vehicle, or file it as better than it is.
ReportsInv == TypeOK /\ ResultOfVehicle /\ FailureNotApproved

=============================================================================
