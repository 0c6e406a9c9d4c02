---------------------------- MODULE CaptureIngest ----------------------------
(***************************************************************************)
(* How an event of a lane camera becomes a row of anpr_captures. An FTP    *)
(* camera drops files into the folder of the day; the cycles of its        *)
(* watcher and the 5-minute sweep read them, newest after a cursor kept    *)
(* in memory; cameras that push by HTTP are answered first and processed   *)
(* afterwards. All meet in processEvent(), which stores one capture of a   *)
(* plate per Oman day by looking before it inserts.                        *)
(*                                                                         *)
(* Files carry a time stamp in their name, so file 1 is of an earlier      *)
(* event than file 2. In "xml" mode a file is moved to done/ when it is    *)
(* stored and the cursor passes every file; in "jpeg" mode a file stays    *)
(* and the cursor passes those that were handled.                          *)
(***************************************************************************)
EXTENDS Integers, FiniteSets

CONSTANTS
  MaxFiles,      \* bound: events the FTP camera writes a file of
  Vehicles,      \* plates the cameras read
  Cycles,        \* concurrent runCycle() calls of the watcher of the camera
  FolderSweep,   \* the fallback sweep
  Pushes,        \* HTTP events in process at the same time
  Modes,         \* ANPR_FTP_INGEST_MODE the instance may be started with
  CallLimit,     \* bound: HTTP events, faults, restarts, switches, deletions and
                 \* midnights, together
  LastDate       \* bound: Oman days, 0 .. LastDate

Files == 1 .. MaxFiles
Readers == Cycles \union {FolderSweep}
Workers == Readers \union Pushes
Ids == Nat \ {0}

ASSUME WorkersAssumption ==
  /\ FolderSweep \notin Cycles \union Pushes /\ Cycles \cap Pushes = {}
  /\ Modes \subseteq {"xml", "jpeg"} /\ Modes # {}
  /\ Vehicles # {}

ASSUME LimitsAssumption ==
  /\ MaxFiles \in Nat /\ CallLimit \in Nat /\ LastDate \in Nat

VARIABLES
  date,       \* the Oman day
  mode,       \* the ingest mode, from the environment
  camera,     \* the row of the FTP camera
  reachable,  \* whether the camera answers a ping
  event,      \* what the camera saw, by file
  place,      \* where the file is
  cursor,     \* xmlCursors and cursors: the last file passed, in memory
  watching,   \* the watcher of the camera exists
  ticking,    \* handle.ticking
  backoff,    \* handle.backoffMs > 0
  worker,     \* local state of each cycle, sweep and HTTP event
  captures,   \* the anpr_captures table
  gaveUp,     \* why an attempt at a file ended without a capture
  late,       \* files uploaded after a newer one, or left in the folder of a past day
  calls

folderVars == <<event, place, late>>
watchVars == <<watching, ticking, backoff>>
ingestVars == <<date, mode, camera, reachable, folderVars, cursor, watchVars, worker,
          captures, gaveUp, calls>>

-----------------------------------------------------------------------------
(* Types.                                                                  *)

Dates == 0 .. LastDate

\* "noise" has no valid plate, "faint" is below the confidence threshold.
Event == [plate : Vehicles, day : Dates, quality : {"good", "faint", "noise"}]

NoEvent == [plate |-> CHOOSE p \in Vehicles : TRUE, day |-> 0, quality |-> "noise"]

\* ftp: Active and registered for FTP; health_status follows is_online.
Camera == [ftp : BOOLEAN, online : BOOLEAN]

\* source is the file of the event, 0 for an HTTP event: the unique index on
\* camera, plate and capture_time tells files apart.
CaptureRow == [id : Ids, source : Files \union {0}, plate : Vehicles, day : Dates,
            gone : BOOLEAN]

Worker == [pc : {"idle", "wait", "enter", "list", "file", "event", "store", "seen", "move"},
           todo : SUBSET Files, file : Files \union {0},
           event : Event, camera : Camera, id : Ids \union {0}]

NoWork == [pc |-> "idle", todo |-> {}, file |-> 0, event |-> NoEvent,
           camera |-> [ftp |-> TRUE, online |-> TRUE], id |-> 0]

TypeOKIngest ==
  /\ date \in Dates
  /\ mode \in Modes
  /\ camera \in Camera /\ reachable \in BOOLEAN
  /\ event \in [Files -> Event]
  /\ place \in [Files -> {"none", "here", "done"}]
  /\ cursor \in Files \union {0}
  /\ <<watching, ticking, backoff>> \in BOOLEAN \X BOOLEAN \X BOOLEAN
  /\ worker \in [Workers -> Worker]
  /\ captures \subseteq CaptureRow
  /\ \A a, b \in captures : a.id = b.id => a = b
  /\ gaveUp \in [Files -> SUBSET {"error", "refused"}]
  /\ late \subseteq Files
  /\ calls \in 0 .. CallLimit

-----------------------------------------------------------------------------
(* Queries.                                                                *)

Uploaded == {f \in Files : place[f] # "none"}

\* findExistingPlateOnDay().
Seen(e) == \E c \in captures : ~ c.gone /\ c.plate = e.plate /\ c.day = e.day

shouldAcceptEvent(e) == e.quality # "noise" /\ ~ Seen(e)

\* Mutant: the highest identifier in use.
NextCaptureId_Last == IF captures = {} THEN 0
                      ELSE CHOOSE i \in {c.id : c \in captures} : \A c \in captures : c.id <= i

NextCaptureId == IF captures = {} THEN 1
                 ELSE 1 + CHOOSE i \in {c.id : c \in captures} : \A c \in captures : c.id <= i

\* findActiveCamerasWithFtp(), and what an offline camera is spared.
Scannable == camera.ftp /\ camera.online

\* Only today's folder is read. In xml mode what done/ holds is out of reach.
NewFiles == {f \in Uploaded : f > cursor /\ place[f] = "here" /\ event[f].day = date}

-----------------------------------------------------------------------------
(* The camera (external), its row, and the operators who edit it.          *)

UploadFile ==
  /\ \E f \in Files \ Uploaded, p \in Vehicles, q \in {"good", "faint", "noise"} :
       /\ \A g \in Uploaded : g > f => event[g].day >= date
       /\ \A g \in Uploaded : g < f => event[g].day <= date
       /\ event' = [event EXCEPT ![f] = [plate |-> p, day |-> date, quality |-> q]]
       /\ place' = [place EXCEPT ![f] = "here"]
       /\ late' = IF \E g \in Uploaded : g > f THEN late \union {f} ELSE late
  /\ UNCHANGED <<date, mode, camera, reachable, cursor, watchVars, worker,
                 captures, gaveUp, calls>>

DropOut ==
  /\ reachable /\ calls < CallLimit
  /\ reachable' = FALSE
  /\ calls' = calls + 1
  /\ UNCHANGED <<date, mode, camera, folderVars, cursor, watchVars, worker,
                 captures, gaveUp>>

ComeBack ==
  /\ ~ reachable
  /\ reachable' = TRUE
  /\ UNCHANGED <<date, mode, camera, folderVars, cursor, watchVars, worker,
                 captures, gaveUp, calls>>

\* persistHealthFromPingResult() patches the health columns only.
HealthCheck ==
  /\ camera.online # reachable
  /\ camera' = [camera EXCEPT !.online = reachable]
  /\ UNCHANGED <<date, mode, reachable, folderVars, cursor, watchVars, worker,
                 captures, gaveUp, calls>>

\* update() of the camera; nothing tells the watcher.
SwitchCamera ==
  /\ calls < CallLimit
  /\ camera' = [camera EXCEPT !.ftp = ~ @]
  /\ calls' = calls + 1
  /\ UNCHANGED <<date, mode, reachable, folderVars, cursor, watchVars, worker,
                 captures, gaveUp>>

RemoveCapture ==
  /\ calls < CallLimit
  /\ \E c \in captures :
       /\ ~ c.gone
       /\ captures' = (captures \ {c}) \union {[c EXCEPT !.gone = TRUE]}
  /\ calls' = calls + 1
  /\ UNCHANGED <<date, mode, camera, reachable, folderVars, cursor, watchVars,
                 worker, gaveUp>>

-----------------------------------------------------------------------------
(* Cycles of the watcher and sweeps.                                       *)

\* The test of ticking comes before the wait, and the assignment after it.
StartCycle(w) ==
  /\ worker[w].pc = "idle"
  /\ watching /\ ~ ticking
  /\ worker' = [worker EXCEPT ![w].pc = IF backoff THEN "wait" ELSE "enter"]
  /\ ticking' = ~ backoff
  /\ UNCHANGED <<date, mode, camera, reachable, folderVars, cursor, watching,
                 backoff, captures, gaveUp, calls>>

WakeCycle(w) ==
  /\ worker[w].pc = "wait"
  /\ worker' = [worker EXCEPT ![w].pc = "enter"]
  /\ ticking' = TRUE
  /\ UNCHANGED <<date, mode, camera, reachable, folderVars, cursor, watching,
                 backoff, captures, gaveUp, calls>>

\* Mutant: an offline camera ends the cycle before its finally.
EnterCycle_Ticking(w) ==
  /\ worker[w].pc = "enter"
  /\ watching' = (watching /\ camera.ftp)
  /\ IF Scannable
     THEN /\ worker' = [worker EXCEPT ![w].pc = "list"]
          /\ UNCHANGED ticking
     ELSE /\ worker' = [worker EXCEPT ![w] = NoWork]
          /\ ticking' = (ticking /\ camera.ftp)
  /\ UNCHANGED <<date, mode, camera, reachable, folderVars, cursor, backoff,
                 captures, gaveUp, calls>>

\* A camera that is switched off loses its watcher, one that is offline idles.
EnterCycle(w) ==
  /\ worker[w].pc = "enter"
  /\ watching' = (watching /\ camera.ftp)
  /\ IF Scannable
     THEN /\ worker' = [worker EXCEPT ![w].pc = "list"]
          /\ UNCHANGED ticking
     ELSE /\ worker' = [worker EXCEPT ![w] = NoWork]
          /\ ticking' = FALSE
  /\ UNCHANGED <<date, mode, camera, reachable, folderVars, cursor, backoff,
                 captures, gaveUp, calls>>

\* fallbackSweep() goes past ticking.
StartSweep ==
  /\ worker[FolderSweep].pc = "idle"
  /\ Scannable
  /\ worker' = [worker EXCEPT ![FolderSweep].pc = "list"]
  /\ UNCHANGED <<date, mode, camera, reachable, folderVars, cursor, watchVars,
                 captures, gaveUp, calls>>

\* A cycle ends in its finally, with or without an error.
EndCycle(w, failed) ==
  IF w \in Cycles THEN ticking' = FALSE /\ backoff' = failed
  ELSE UNCHANGED <<ticking, backoff>>

\* The next file of the list, or the end of the cycle.
Continue(w, rest) ==
  /\ worker' = [worker EXCEPT ![w] =
       IF rest = {} THEN NoWork ELSE [NoWork EXCEPT !.pc = "file", !.todo = rest]]
  /\ IF rest = {} THEN EndCycle(w, FALSE) ELSE UNCHANGED <<ticking, backoff>>

\* Mutant: the cursor is set to the newest file of the listing.
ListFolder_Ahead(w) ==
  /\ worker[w].pc = "list"
  /\ Continue(w, NewFiles)
  /\ cursor' = IF NewFiles = {} THEN cursor
               ELSE CHOOSE f \in NewFiles : \A g \in NewFiles : g <= f
  /\ UNCHANGED <<date, mode, camera, reachable, folderVars, watching, captures,
                 gaveUp, calls>>

\* Mutant: files are moved away when they are listed.
ListFolder_Moved(w) ==
  /\ worker[w].pc = "list"
  /\ Continue(w, NewFiles)
  /\ place' = [f \in Files |-> IF f \in NewFiles /\ mode = "xml" THEN "done" ELSE place[f]]
  /\ UNCHANGED <<date, mode, camera, reachable, event, late, cursor, watching,
                 captures, gaveUp, calls>>

ListFolder(w) ==
  /\ worker[w].pc = "list"
  /\ Continue(w, NewFiles)
  /\ UNCHANGED <<date, mode, camera, reachable, folderVars, cursor, watching,
                 captures, gaveUp, calls>>

\* Listing fails: the cycle backs off. Errors of single files never get here.
ListFault(w) ==
  /\ worker[w].pc = "list" /\ calls < CallLimit
  /\ calls' = calls + 1
  /\ worker' = [worker EXCEPT ![w] = NoWork]
  /\ EndCycle(w, TRUE)
  /\ UNCHANGED <<date, mode, camera, reachable, folderVars, cursor, watching,
                 captures, gaveUp>>

-----------------------------------------------------------------------------
(* One file.                                                               *)

First(w) == CHOOSE f \in worker[w].todo : \A g \in worker[w].todo : f <= g
Rest(w) == worker[w].todo \ {First(w)}

\* Mutant: a bundle is passed whatever came of it.
Skip_Passed(w, f) == cursor' = f /\ Continue(w, worker[w].todo \ {f})

\* processXmlFileList() moves the cursor after every file, and
\* processJpegBundlesOnMount() leaves it before one that gave no event.
Skip(w, f) ==
  /\ cursor' = IF mode = "xml" THEN f ELSE cursor
  /\ Continue(w, worker[w].todo \ {f})

\* buildEventFromRemoteXml() and its local twin: a file another cycle has moved
\* away gives no event.
BuiltFromXml(f) == place[f] = "here" /\ shouldAcceptEvent(event[f])

\* The plate that OCR finds in the pictures of a bundle: there is one only with
\* a detection picture that can be read.
Extracted(f) == event[f].quality = "good"

\* buildEventFromJpegBundle(): the overlay states the confidence.
BuiltFromJpeg(f) == Extracted(f) /\ shouldAcceptEvent(event[f])

Readable(f) == IF mode = "xml" THEN BuiltFromXml(f) ELSE BuiltFromJpeg(f)

ReadFile(w) ==
  LET f == First(w) IN
  /\ worker[w].pc = "file"
  /\ IF Readable(f)
     THEN /\ worker' = [worker EXCEPT ![w] = [@ EXCEPT
               !.pc = "event", !.file = f, !.event = event[f]]]
          /\ UNCHANGED <<cursor, ticking, backoff>>
     ELSE Skip(w, f)
  /\ UNCHANGED <<date, mode, camera, reachable, folderVars, watching, captures,
                 gaveUp, calls>>

\* A download or OCR run fails, or a connection is ended by another cycle.
ReadFault(w) ==
  LET f == First(w) IN
  /\ worker[w].pc = "file" /\ calls < CallLimit
  /\ calls' = calls + 1
  /\ gaveUp' = [gaveUp EXCEPT ![f] = @ \union {"error"}]
  /\ Skip(w, f)
  /\ UNCHANGED <<date, mode, camera, reachable, folderVars, watching, captures>>

-----------------------------------------------------------------------------
(* processEvent(), for files and HTTP events alike.                        *)

\* processIncomingEvent(): 200 is answered before.
PushEvent(w) ==
  /\ worker[w].pc = "idle" /\ calls < CallLimit
  /\ \E p \in Vehicles :
       LET e == [plate |-> p, day |-> date, quality |-> "good"] IN
       /\ shouldAcceptEvent(e)
       /\ worker' = [worker EXCEPT ![w].pc = "event", ![w].event = e]
  /\ calls' = calls + 1
  /\ UNCHANGED <<date, mode, camera, reachable, folderVars, cursor, watchVars,
                 captures, gaveUp>>

\* The guard again, and the row of the camera, which the event is saved with.
GuardEvent(w) ==
  LET e == worker[w].event
      f == worker[w].file
      refused == f # 0 /\ ~ camera.ftp
      kept == shouldAcceptEvent(e) /\ ~ refused /\ e.quality = "good"
  IN
  /\ worker[w].pc = "event"
  /\ worker' = [worker EXCEPT ![w] =
       CASE kept -> [@ EXCEPT !.pc = "store", !.camera = camera,
                              !.id = NextCaptureId]
         [] ~ kept /\ f # 0 -> [@ EXCEPT !.pc = "move"]
         [] OTHER -> NoWork]
  /\ gaveUp' = IF refused THEN [gaveUp EXCEPT ![f] = @ \union {"refused"}] ELSE gaveUp
  /\ UNCHANGED <<date, mode, camera, reachable, folderVars, cursor, watchVars,
                 captures, calls>>

Collides(c) == \E d \in captures : d.id = c.id \/ (c.source # 0 /\ d.source = c.source)

\* create() ends in the two unique indexes. A violation reaches processEvent()
\* as a DatabaseException, which isUniqueViolation() does not know, so it is an
\* error of the file, and the end of an HTTP event.
InsertCapture(w) ==
  LET f == worker[w].file
      c == [id |-> worker[w].id, source |-> f, plate |-> worker[w].event.plate,
            day |-> worker[w].event.day, gone |-> FALSE]
  IN
  /\ worker[w].pc = "store"
  /\ \/ /\ ~ Collides(c)
        /\ captures' = captures \union {c}
        /\ worker' = [worker EXCEPT ![w] =
             IF f = 0 THEN NoWork ELSE [@ EXCEPT !.pc = "seen"]]
        /\ UNCHANGED <<cursor, ticking, backoff, gaveUp>>
     \/ /\ Collides(c) /\ f = 0
        /\ worker' = [worker EXCEPT ![w] = NoWork]
        /\ UNCHANGED <<cursor, ticking, backoff, captures, gaveUp>>
     \/ /\ Collides(c) /\ f # 0
        /\ gaveUp' = [gaveUp EXCEPT ![f] = @ \union {"error"}]
        /\ Skip(w, f)
        /\ UNCHANGED captures
  /\ UNCHANGED <<date, mode, camera, reachable, folderVars, watching, calls>>

\* cameraRepo.save() writes back the row that was read before the capture was
\* stored, and marks it online.
SaveCamera(w) ==
  /\ worker[w].pc = "seen"
  /\ camera' = [worker[w].camera EXCEPT !.online = TRUE]
  /\ worker' = [worker EXCEPT ![w].pc = "move"]
  /\ UNCHANGED <<date, mode, reachable, folderVars, cursor, watchVars, captures,
                 gaveUp, calls>>

\* A rename that fails is logged.
MoveFile(w) ==
  LET f == worker[w].file IN
  /\ worker[w].pc = "move"
  /\ \/ /\ mode = "xml"
        /\ place' = [place EXCEPT ![f] = "done"]
        /\ UNCHANGED calls
     \/ /\ mode = "xml" => calls < CallLimit
        /\ calls' = IF mode = "xml" THEN calls + 1 ELSE calls
        /\ UNCHANGED place
  /\ cursor' = f
  /\ Continue(w, worker[w].todo \ {f})
  /\ UNCHANGED <<date, mode, camera, reachable, event, late, watching, captures,
                 gaveUp>>

processEvent(w) == GuardEvent(w) \/ InsertCapture(w) \/ SaveCamera(w)

ReadFolder(w) == ListFolder(w) \/ ReadFile(w) \/ processEvent(w) \/ MoveFile(w)

Cycle(w) == WakeCycle(w) \/ EnterCycle(w) \/ ReadFolder(w)
SweepFolder == ReadFolder(FolderSweep)

-----------------------------------------------------------------------------
Midnight ==
  /\ date < LastDate /\ calls < CallLimit
  /\ date' = date + 1
  /\ calls' = calls + 1
  /\ late' = late \union {f \in Uploaded : f > cursor}
  /\ UNCHANGED <<mode, camera, reachable, event, place, cursor, watchVars, worker,
                 captures, gaveUp>>

\* Cursors and watchers are in memory; a watcher is started for every FTP camera.
\* The files of today are read once more, so that errors at them count no longer.
Restart ==
  /\ calls < CallLimit
  /\ calls' = calls + 1
  /\ cursor' = 0
  /\ watching' = camera.ftp /\ ticking' = FALSE /\ backoff' = FALSE
  /\ worker' = [w \in Workers |-> NoWork]
  /\ gaveUp' = [f \in Files |-> IF event[f].day = date THEN gaveUp[f] \ {"error"} ELSE gaveUp[f]]
  /\ UNCHANGED <<date, mode, camera, reachable, folderVars, captures>>

InitIngest ==
  /\ date = 0
  /\ mode \in Modes
  /\ camera = [ftp |-> TRUE, online |-> TRUE] /\ reachable = TRUE
  /\ event = [f \in Files |-> NoEvent]
  /\ place = [f \in Files |-> "none"]
  /\ cursor = 0
  /\ watching = TRUE /\ ticking = FALSE /\ backoff = FALSE
  /\ worker = [w \in Workers |-> NoWork]
  /\ captures = {}
  /\ gaveUp = [f \in Files |-> {}]
  /\ late = {}
  /\ calls = 0

NextIngest ==
  \/ UploadFile \/ DropOut \/ ComeBack \/ HealthCheck \/ SwitchCamera \/ RemoveCapture
  \/ \E w \in Cycles : StartCycle(w) \/ Cycle(w)
  \/ StartSweep \/ SweepFolder
  \/ \E w \in Readers : ListFault(w) \/ ReadFault(w)
  \/ \E w \in Pushes : PushEvent(w) \/ processEvent(w)
  \/ Midnight
  \/ Restart

SpecIngest == InitIngest /\ [][NextIngest]_ingestVars

\* A camera that dropped out answers again, the intervals of the health check,
\* the watcher and the sweep keep firing, and what has begun goes on.
FairnessIngest ==
  /\ WF_ingestVars(ComeBack) /\ WF_ingestVars(HealthCheck)
  /\ WF_ingestVars(StartSweep)
  /\ \A w \in Cycles : WF_ingestVars(Cycle(w))
  /\ WF_ingestVars(SweepFolder)
  /\ \A w \in Pushes : WF_ingestVars(processEvent(w))
FairIngest == SpecIngest /\ FairnessIngest

-----------------------------------------------------------------------------
(* Properties.                                                             *)

\* A capture of the event's plate and day, deleted since or not.
Stored(e) == \E c \in captures : c.plate = e.plate /\ c.day = e.day

\* done/ means stored: a file that overlapping cycles, errors, collisions and
\* restarts put out of reach has its vehicle on record, unless the event was
\* refused for its confidence or its camera (finalizeFile, postProcessFtpFile).
DoneIsStored ==
  \A f \in Files : place[f] = "done" =>
    Stored(event[f]) \/ event[f].quality # "good" \/ "refused" \in gaveUp[f]

\* The cursor never passes a vehicle by: a good event at or before it is
\* stored, or an attempt at it failed, or its file came after a newer one or
\* was left at midnight, when the next folder is read instead (resolveWatchPath,
\* processXmlFileList, processJpegBundlesOnMount).
PassedIsSettled ==
  \A f \in Uploaded \ late :
    f <= cursor /\ event[f].quality = "good" => Stored(event[f]) \/ gaveUp[f] # {}

\* A watcher is never locked: handle.ticking is set only while a cycle runs
\* that will clear it, though cycles overlap and end early (runCycle).
WatcherFree ==
  ticking => \E w \in Cycles : worker[w].pc \notin {"idle", "wait"}

Newest(f) == f \in Uploaded /\ \A g \in Uploaded : g <= f

\* "the watcher stays registered ... the next tick resumes on its own": the
\* newest event of the day is stored in the end, through outages of the camera,
\* failed listings and restarts, unless the camera is switched off or, in xml
\* mode, an attempt at its file failed (runCycle, fallbackSweep).
NewestRead ==
  \A f \in Files :
    Newest(f) /\ event[f].quality = "good" ~>
      \/ Stored(event[f]) \/ ~ Newest(f) \/ event[f].day # date \/ ~ camera.ftp
      \/ "refused" \in gaveUp[f] \/ (mode = "xml" /\ "error" \in gaveUp[f])

\* No vehicle falls between the folder, the cursor and the table, and no cycle
\* is locked out, whichever cycles, sweeps and events overlap.
IngestInv == TypeOKIngest /\ DoneIsStored /\ PassedIsSettled /\ WatcherFree

=============================================================================
