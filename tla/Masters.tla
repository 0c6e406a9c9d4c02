------------------------------- MODULE Masters -------------------------------
(***************************************************************************)
(* The masters of a centre as its requests edit them: the lines and the    *)
(* provider lane each of them feeds, the branch a centre is linked to, and *)
(* the cameras and admin PCs mapped to lines.  LineService, CentreService, *)
(* CameraService, AdminPcService, AppointmentBranchLinkService and         *)
(* AppointmentLaneAssignmentService, each request in the database calls it *)
(* makes.  save() of an entity writes back the columns as they were read.  *)
(***************************************************************************)
EXTENDS Integers, FiniteSets

CONSTANTS
  Centres,    \* centres of the database
  Home,       \* the one the lines belong to
  NLines,     \* lines, numbered by display_order
  NLanes,     \* lanes of the branch at the provider, in the order it lists
  Cameras,
  AdminPcs,
  Jobs,
  Requests,   \* requests being served
  None,
  CallLimit,  \* bound: requests in all
  CutLimit    \* bound: requests cut short by a restart or a database error

ASSUME MastersAssumption ==
  /\ Home \in Centres
  /\ NLines \in Nat \ {0} /\ NLanes \in Nat \ {0}
  /\ CallLimit \in Nat /\ CutLimit \in Nat
  /\ Cameras \cap AdminPcs = {}

VARIABLES
  centre,  \* rows of the centres: removed or not, linked to the branch or not
  line,    \* rows of the lines; lane 0 stands for no provider_lane_id
  device,  \* rows of the cameras and admin PCs
  held,    \* mapping rows that are not deleted: which device is on which line
  job,     \* the job rows, as far as lines are concerned
  req,     \* what each request is about to do
  calls, cuts,
  loose,   \* which rules of the masters a race or a cut has let go of
  late     \* lines removed and given a device by requests unaware of each other

masters == <<centre, line, device, held, req, loose, late>>
mvars == <<centre, line, device, held, job, req, calls, cuts, loose, late>>

Lines == 1 .. NLines
Lanes == 1 .. NLanes
Devices == Cameras \union AdminPcs

Idle == [pc |-> "idle", op |-> "none", at |-> None, want |-> 0, was |-> 0,
         flag |-> FALSE, other |-> 0, plan |-> {}, opened |-> {}]

TypeOKMasters ==
  /\ centre \in [Centres -> [live : BOOLEAN, linked : BOOLEAN]]
  /\ line \in [Lines -> [st : {"none", "live", "deleted"}, lane : 0 .. NLanes]]
  /\ device \in [Devices -> {"none", "live", "deleted"}]
  /\ held \subseteq Devices \X Lines
  /\ job \in [Jobs -> [st : {"none", "active", "closed"}, line : 0 .. NLines]]
  /\ req \in [Requests ->
       [pc : {"idle", "row", "assign", "swap", "write", "drop", "centreRow",
              "link", "lanes", "centre", "close", "save", "unmap", "insert",
              "deviceRow", "dropDevice", "release"},
        op : {"none", "link", "unlink", "create", "edit"},
        at : Lines \union Centres \union Devices \union {None},
        want : 0 .. NLanes, was : 0 .. NLanes, flag : BOOLEAN,
        other : 0 .. NLines, plan : SUBSET ((0 .. NLanes) \X Lines),
        opened : SUBSET Lines]]
  /\ calls \in 0 .. CallLimit
  /\ cuts \in 0 .. CutLimit
  /\ loose \subseteq {"lane", "branch"}
  /\ late \subseteq Lines

-----------------------------------------------------------------------------
(* Queries and the steps requests share.                                   *)

LiveLines == {l \in Lines : line[l].st = "live"}
HolderOf(n) == {l \in LiveLines : line[l].lane = n}
ActiveOn(l) == {j \in Jobs : job[j].st = "active" /\ job[j].line = l}
LinesHeld(d) == {l \in Lines : <<d, l>> \in held}

\* Steps of requests that write rows of lines or of centres they have read.
Writing == {"row", "assign", "swap", "write", "drop", "centreRow", "link",
            "lanes", "centre", "close"}

Overlaps(r) == \E q \in Requests \ {r} : req[q].pc \in Writing

Ready(r) == req[r].pc = "idle" /\ calls < CallLimit

\* A request begins.  Two that write lines or centres at the same time are
\* noted: each may save a row that it read before the other.
Begin(r, next) ==
  /\ Ready(r)
  /\ calls' = calls + 1
  /\ req' = [req EXCEPT ![r] = next]
  /\ UNCHANGED <<job, cuts>>

BeginWriting(r, next) ==
  /\ Begin(r, next)
  /\ loose' = IF Overlaps(r) THEN {"lane", "branch"} ELSE loose

Goto(r, next) == /\ req' = [req EXCEPT ![r] = next]
                 /\ UNCHANGED <<job, calls, cuts>>

-----------------------------------------------------------------------------
(* Lines: LineService and AppointmentLaneAssignmentService.assignLane.     *)

\* create(): the row is stored as posted, a provider_lane_id included.
CreateLine(r, l, n) ==
  /\ line[l].st = "none"
  /\ centre[Home].live
  /\ Begin(r, Idle)
  /\ loose' = IF Overlaps(r) \/ (n # 0 /\ HolderOf(n) # {})
              THEN {"lane", "branch"} ELSE loose
  /\ line' = [line EXCEPT ![l] = [st |-> "live", lane |-> n]]
  /\ UNCHANGED <<centre, device, held, late>>

\* update(): the line is read here and saved whole in the next step.
EditLine(r, l, n, confirmed) ==
  /\ line[l].st = "live"
  /\ BeginWriting(r,
       [Idle EXCEPT !.pc = "row", !.at = l, !.want = n,
                    !.was = line[l].lane, !.flag = confirmed])
  /\ UNCHANGED <<centre, line, device, held, late>>

SaveLine(r) ==
  LET q == req[r] IN
  /\ q.pc = "row"
  /\ line' = [line EXCEPT ![q.at] = [st |-> "live", lane |-> q.was]]
  /\ Goto(r, IF q.want = q.was THEN Idle ELSE [q EXCEPT !.pc = "assign"])
  /\ UNCHANGED <<centre, device, held, loose, late>>

\* Mutant: the jobs of the line that gives its lane up are not looked at.
CheckLane_HolderBusy(r) ==
  LET q == req[r]
      holders == {h \in HolderOf(q.want) : h # q.at}
      refused == \/ line[q.at].st # "live"
                 \/ line[q.at].lane = q.want
                 \/ ActiveOn(q.at) # {}
                 \/ (q.want # 0 /\ holders # {} /\ ~ q.flag)
  IN
  /\ q.pc = "assign"
  /\ \/ refused /\ Goto(r, Idle)
     \/ /\ ~ refused
        /\ q.want = 0 \/ holders = {}
        /\ Goto(r, [q EXCEPT !.pc = "write"])
     \/ /\ ~ refused
        /\ q.want # 0
        /\ \E h \in holders :
             Goto(r, [q EXCEPT !.pc = "swap", !.was = line[q.at].lane,
                               !.other = h])
  /\ UNCHANGED <<centre, line, device, held, loose, late>>

\* assignLane(): nothing under an active job of either line; a lane that is
\* held needs a confirmed swap, in which the holder is saved first.
CheckLane(r) ==
  LET q == req[r]
      holders == {h \in HolderOf(q.want) : h # q.at}
      holder == CHOOSE h \in holders : \A g \in holders : h <= g
      refused == \/ line[q.at].st # "live"
                 \/ line[q.at].lane = q.want
                 \/ ActiveOn(q.at) # {}
                 \/ /\ q.want # 0 /\ holders # {}
                    /\ q.flag => ActiveOn(holder) # {}
  IN
  /\ q.pc = "assign"
  /\ \/ refused /\ Goto(r, Idle)
     \/ /\ ~ refused
        /\ q.want = 0 \/ holders = {}
        /\ Goto(r, [q EXCEPT !.pc = "write"])
     \/ /\ ~ refused
        /\ q.want # 0 /\ holders # {}
        /\ Goto(r, [q EXCEPT !.pc = "swap", !.was = line[q.at].lane,
                             !.other = holder])
  /\ UNCHANGED <<centre, line, device, held, loose, late>>

\* Mutant: the holder's row is not saved: an overwrite instead of a swap.
SwapHolder_Overwrite(r) ==
  /\ req[r].pc = "swap"
  /\ Goto(r, [req[r] EXCEPT !.pc = "write"])
  /\ UNCHANGED <<centre, line, device, held, loose, late>>

SwapHolder(r) ==
  /\ req[r].pc = "swap"
  /\ line' = [line EXCEPT ![req[r].other] = [st |-> "live",
                                             lane |-> req[r].was]]
  /\ Goto(r, [req[r] EXCEPT !.pc = "write"])
  /\ UNCHANGED <<centre, device, held, loose, late>>

WriteLane(r) ==
  /\ req[r].pc = "write"
  /\ line' = [line EXCEPT ![req[r].at] = [st |-> "live", lane |-> req[r].want]]
  /\ Goto(r, Idle)
  /\ UNCHANGED <<centre, device, held, loose, late>>

\* Mutant: the admin PCs of the line are not looked at.
RemoveLine_CameraOnly(r, l) ==
  /\ line[l].st = "live"
  /\ \A d \in Cameras : device[d] = "live" => <<d, l>> \notin held
  /\ BeginWriting(r,
       [Idle EXCEPT !.pc = "drop", !.at = l, !.was = line[l].lane])
  /\ UNCHANGED <<centre, line, device, held, late>>

\* remove(): refused while a camera or an admin PC that is not deleted is
\* mapped to the line.
RemoveLine(r, l) ==
  /\ line[l].st = "live"
  /\ \A d \in Devices : device[d] = "live" => <<d, l>> \notin held
  /\ BeginWriting(r,
       [Idle EXCEPT !.pc = "drop", !.at = l, !.was = line[l].lane])
  /\ UNCHANGED <<centre, line, device, held, late>>

Mapping(r) == IF req[r].pc \in {"save", "unmap", "insert"}
              THEN {x[2] : x \in req[r].plan} ELSE {}

DropLine(r) ==
  LET q == req[r] IN
  /\ q.pc = "drop"
  /\ line' = [line EXCEPT ![q.at] = [st |-> "deleted", lane |-> q.was]]
  /\ late' = IF \E p \in Requests : q.at \in Mapping(p)
             THEN late \union {q.at} ELSE late
  /\ Goto(r, Idle)
  /\ UNCHANGED <<centre, device, held, loose>>

-----------------------------------------------------------------------------
(* Centres: CentreService and AppointmentBranchLinkService.                *)

\* update(): the columns are saved as read, then the branch is linked or
\* unlinked by its own service.  The link endpoints do the second part only.
EditCentre(r, k, op) ==
  /\ centre[k].live
  /\ \E step \in {"centreRow", "link"} :
       /\ step = "link" => op # "none"
       /\ BeginWriting(r, [Idle EXCEPT !.pc = step, !.op = op, !.at = k,
                                      !.flag = centre[k].linked])
  /\ UNCHANGED <<centre, line, device, held, late>>

SaveColumns(r) ==
  LET q == req[r] IN
  /\ q.pc = "centreRow"
  /\ centre' = [centre EXCEPT ![q.at] = [live |-> TRUE, linked |-> q.flag]]
  /\ Goto(r, IF q.op = "none" \/ q.flag = (q.op = "link") THEN Idle
             ELSE [q EXCEPT !.pc = "link"])
  /\ UNCHANGED <<line, device, held, loose, late>>

\* The line each lane is offered: the one that holds it, else the line at the
\* same place of the order; the first lane to name a line gets it.
Offered(n) ==
  IF HolderOf(n) # {}
  THEN {CHOOSE l \in HolderOf(n) : \A g \in HolderOf(n) : l <= g}
  ELSE {l \in LiveLines : Cardinality({g \in LiveLines : g <= l}) = n}

\* Mutant: a line that holds a lane is passed over for its place in the order.
buildVerification_Positional ==
  {x \in Lanes \X LiveLines :
     Cardinality({g \in LiveLines : g <= x[2]}) = x[1] /\ HolderOf(x[1]) # {x[2]}}

buildVerification ==
  {x \in Lanes \X LiveLines :
     /\ x[2] \in Offered(x[1])
     /\ \A m \in 1 .. x[1] - 1 : x[2] \notin Offered(m)}

\* Mutant: a branch that another centre holds is taken over.
LinkBranch_TakeOver(r) ==
  LET q == req[r] IN
  /\ q.pc = "link" /\ q.op = "link"
  /\ Goto(r, [q EXCEPT !.pc = "lanes",
                       !.plan = IF q.at = Home THEN buildVerification ELSE {}])
  /\ UNCHANGED <<centre, line, device, held, loose, late>>

\* link(): refused when another centre holds the branch, or when the provider
\* cannot be reached.  A second link of the centre's own branch remaps it.
LinkBranch(r) ==
  LET q == req[r] IN
  /\ q.pc = "link" /\ q.op = "link"
  /\ \/ Goto(r, Idle)
     \/ /\ centre[q.at].live
        /\ \A k \in Centres \ {q.at} : ~ (centre[k].live /\ centre[k].linked)
        /\ Goto(r, [q EXCEPT !.pc = "lanes",
                      !.plan = IF q.at = Home THEN buildVerification ELSE {}])
  /\ UNCHANGED <<centre, line, device, held, loose, late>>

\* unlink(): the code goes first, by an update of its column.
UnlinkBranch(r) ==
  LET q == req[r] IN
  /\ q.pc = "link" /\ q.op = "unlink"
  /\ centre[q.at].live
  /\ centre' = [centre EXCEPT ![q.at].linked = FALSE]
  /\ Goto(r, [q EXCEPT !.pc = "lanes",
       !.plan = IF q.at = Home
                THEN {<<0, l>> : l \in {g \in LiveLines : line[g].lane # 0}}
                ELSE {}])
  /\ UNCHANGED <<line, device, held, loose, late>>

\* One save() of the loop over the lines.
SaveLane(r) ==
  LET q == req[r] IN
  /\ q.pc = "lanes"
  /\ \E x \in q.plan :
       /\ \A y \in q.plan : x[1] < y[1] \/ (x[1] = y[1] /\ x[2] <= y[2])
       /\ line' = [line EXCEPT ![x[2]] = [st |-> "live", lane |-> x[1]]]
       /\ Goto(r, [q EXCEPT !.plan = @ \ {x}])
  /\ UNCHANGED <<centre, device, held, loose, late>>

EndLanes(r) ==
  LET q == req[r] IN
  /\ q.pc = "lanes" /\ q.plan = {}
  /\ Goto(r, IF q.op = "link" THEN [q EXCEPT !.pc = "centre"] ELSE Idle)
  /\ UNCHANGED <<centre, line, device, held, loose, late>>

StoreBranch(r) ==
  /\ req[r].pc = "centre"
  /\ centre' = [centre EXCEPT ![req[r].at] = [live |-> TRUE, linked |-> TRUE]]
  /\ Goto(r, Idle)
  /\ UNCHANGED <<line, device, held, loose, late>>

\* remove(): nothing that belongs to the centre is looked at.
RemoveCentre(r, k) ==
  /\ centre[k].live
  /\ BeginWriting(r,
       [Idle EXCEPT !.pc = "close", !.at = k, !.flag = centre[k].linked])
  /\ UNCHANGED <<centre, line, device, held, late>>

CloseCentre(r) ==
  LET q == req[r] IN
  /\ q.pc = "close"
  /\ centre' = [centre EXCEPT ![q.at] = [live |-> FALSE, linked |-> q.flag]]
  /\ Goto(r, Idle)
  /\ UNCHANGED <<line, device, held, loose, late>>

-----------------------------------------------------------------------------
(* Cameras and admin PCs: CameraService, AdminPcService, the mapping DAOs  *)
(* and MasterScopeService.                                                 *)

\* A mapping of a deleted camera does not count, one of a deleted PC does.
Taken(d, l) == \E e \in Devices \ {d} :
  /\ <<e, l>> \in held
  /\ \/ d \in Cameras /\ e \in Cameras /\ device[e] = "live"
     \/ d \in AdminPcs /\ e \in AdminPcs

\* assertLineExists and assertLinesHaveNoCamera, or validateLineAssignments.
Assignable(d, L) ==
  /\ L \subseteq LiveLines
  /\ d \in AdminPcs => L # {}
  /\ \A l \in L : ~ Taken(d, l)

\* create(): the row is a new one, so no other request is creating it.
CreateDevice(r, d, L) ==
  /\ device[d] = "none"
  /\ \A q \in Requests : req[q].op = "create" => req[q].at # d
  /\ Assignable(d, L)
  /\ Begin(r, [Idle EXCEPT !.pc = "save", !.op = "create", !.at = d,
                           !.plan = {0} \X L])
  /\ UNCHANGED <<centre, line, device, held, loose, late>>

SaveDevice(r) ==
  LET q == req[r] IN
  /\ q.pc = "save"
  /\ device' = [device EXCEPT ![q.at] = "live"]
  /\ Goto(r, IF q.plan = {} THEN Idle ELSE [q EXCEPT !.pc = "insert"])
  /\ UNCHANGED <<centre, line, held, loose, late>>

\* update(): the mappings are replaced before the row is saved.
EditDevice(r, d, L) ==
  /\ device[d] = "live"
  /\ LET step == CASE L = LinesHeld(d) -> "deviceRow"
                   [] L # LinesHeld(d) /\ d \in Cameras -> "unmap"
                   [] OTHER -> "insert"
     IN  /\ step # "deviceRow" => Assignable(d, L)
         /\ Begin(r, [Idle EXCEPT !.pc = step, !.op = "edit", !.at = d,
                        !.plan = IF step = "deviceRow" THEN {} ELSE {0} \X L])
  /\ UNCHANGED <<centre, line, device, held, loose, late>>

\* replaceForCamera() is not one transaction: its first update stands alone.
UnmapCamera(r) ==
  LET q == req[r] IN
  /\ q.pc = "unmap"
  /\ held' = held \ ({q.at} \X Lines)
  /\ Goto(r, [q EXCEPT !.pc = IF q.plan = {} THEN "deviceRow" ELSE "insert"])
  /\ UNCHANGED <<centre, line, device, loose, late>>

\* What follows the new mappings, and the note of a line removed meanwhile.
Mapped(r, L) ==
  /\ Goto(r, IF req[r].op = "edit"
             THEN [req[r] EXCEPT !.pc = "deviceRow", !.plan = {}] ELSE Idle)
  /\ late' = late \union
       {l \in L : \E q \in Requests : req[q].pc = "drop" /\ req[q].at = l}

\* The rest of replaceForCamera(): mappings left by deleted cameras go, then
\* the new ones are inserted, which the unique index on the line may refuse.
InsertCameraLines(r) ==
  LET q == req[r]
      L == {x[2] : x \in q.plan}
      kept == {x \in held : ~ (x[1] \in Cameras /\ device[x[1]] = "deleted"
                               /\ x[2] \in L)}
      conflict == \E x \in kept : x[1] \in Cameras /\ x[2] \in L
  IN
  /\ q.pc = "insert" /\ q.at \in Cameras
  /\ \/ conflict /\ held' = kept /\ Goto(r, Idle) /\ UNCHANGED late
     \/ ~ conflict /\ held' = kept \union ({q.at} \X L) /\ Mapped(r, L)
  /\ UNCHANGED <<centre, line, device, loose>>

\* Mutant: replaceForAdminPc() without its transaction.
ReplacePcLines_Torn(r) ==
  LET q == req[r]
      L == {x[2] : x \in q.plan}
      kept == held \ ({q.at} \X Lines)
      conflict == \E x \in kept : x[1] \in AdminPcs /\ x[2] \in L
  IN
  /\ q.pc = "insert" /\ q.at \in AdminPcs
  /\ \/ conflict /\ held' = kept /\ Goto(r, Idle) /\ UNCHANGED late
     \/ ~ conflict /\ held' = kept \union ({q.at} \X L) /\ Mapped(r, L)
  /\ UNCHANGED <<centre, line, device, loose>>

\* replaceForAdminPc(): one transaction, which the unique index rolls back.
ReplacePcLines(r) ==
  LET q == req[r]
      L == {x[2] : x \in q.plan}
      kept == held \ ({q.at} \X Lines)
      conflict == \E x \in kept : x[1] \in AdminPcs /\ x[2] \in L
  IN
  /\ q.pc = "insert" /\ q.at \in AdminPcs
  /\ \/ conflict /\ Goto(r, Idle) /\ UNCHANGED <<held, late>>
     \/ ~ conflict /\ held' = kept \union ({q.at} \X L) /\ Mapped(r, L)
  /\ UNCHANGED <<centre, line, device, loose>>

\* The save() that ends update(): a device deleted meanwhile is back.
SaveDeviceRow(r) ==
  LET d == req[r].at IN
  /\ req[r].pc = "deviceRow"
  /\ device' = [device EXCEPT ![d] = "live"]
  /\ late' = IF device[d] = "deleted" THEN late \union LinesHeld(d) ELSE late
  /\ Goto(r, Idle)
  /\ UNCHANGED <<centre, line, held, loose>>

RemoveDevice(r, d) ==
  /\ device[d] = "live"
  /\ Begin(r, [Idle EXCEPT !.pc = "dropDevice", !.at = d])
  /\ UNCHANGED <<centre, line, device, held, loose, late>>

DropDevice(r) ==
  /\ req[r].pc = "dropDevice"
  /\ device' = [device EXCEPT ![req[r].at] = "deleted"]
  /\ Goto(r, [req[r] EXCEPT !.pc = "release"])
  /\ UNCHANGED <<centre, line, held, loose, late>>

ReleaseLines(r) ==
  /\ req[r].pc = "release"
  /\ held' = held \ ({req[r].at} \X Lines)
  /\ Goto(r, Idle)
  /\ UNCHANGED <<centre, line, device, loose, late>>

-----------------------------------------------------------------------------
(* Jobs come and go on the lines, and any request may be cut short.        *)

\* Mutant: a job without a line keeps what was posted for it.
OpenJob_Posted(j, l) ==
  /\ job[j].st = "none"
  /\ job' = [job EXCEPT ![j] = [st |-> "active",
                                line |-> IF l = 0 THEN None ELSE l]]
  /\ UNCHANGED masters
  /\ UNCHANGED <<calls, cuts>>

\* The job rows after j is created on line l, 0 for none; an assignment that
\* has done its check does not see it.
OpenJob(j, l) ==
  /\ job[j].st = "none"
  /\ job' = [job EXCEPT ![j] = [st |-> "active", line |-> l]]
  /\ req' = [r \in Requests |->
       IF req[r].pc \in {"swap", "write"} /\ l # 0
       THEN [req[r] EXCEPT !.opened = @ \union {l}] ELSE req[r]]
  /\ UNCHANGED <<centre, line, device, held, calls, cuts, loose, late>>

CloseJob(j) ==
  /\ job[j].st = "active"
  /\ job' = [job EXCEPT ![j].st = "closed"]
  /\ UNCHANGED masters
  /\ UNCHANGED <<calls, cuts>>

CutMasters(r) ==
  /\ req[r].pc # "idle"
  /\ cuts < CutLimit
  /\ cuts' = cuts + 1
  /\ req' = [req EXCEPT ![r] = Idle]
  /\ loose' = IF req[r].pc = "write" /\ req[r].other # 0
              THEN loose \union {"lane"} ELSE loose
  /\ UNCHANGED <<centre, line, device, held, job, calls, late>>

-----------------------------------------------------------------------------
\* The first line feeds the first lane and may have a camera, a PC and a job;
\* the others exist without a lane, or not yet.
InitMasters ==
  /\ centre = [k \in Centres |-> [live |-> TRUE, linked |-> k = Home]]
  /\ \E there \in SUBSET (2 .. NLines) :
       line = [l \in Lines |->
         [st |-> IF l \in {1} \union there THEN "live" ELSE "none",
          lane |-> IF l = 1 THEN 1 ELSE 0]]
  /\ \E D \in SUBSET Devices :
       /\ Cardinality(D \cap Cameras) <= 1 /\ Cardinality(D \cap AdminPcs) <= 1
       /\ device = [d \in Devices |-> IF d \in D THEN "live" ELSE "none"]
       /\ held = D \X {1}
  /\ \E J \in SUBSET Jobs :
       /\ Cardinality(J) <= 1
       /\ job = [j \in Jobs |-> [st |-> IF j \in J THEN "active" ELSE "none",
                                line |-> IF j \in J THEN 1 ELSE 0]]
  /\ req = [r \in Requests |-> Idle]
  /\ calls = 0 /\ cuts = 0
  /\ loose = {} /\ late = {}

LineRequest(r) ==
  \/ /\ Ready(r)
     /\ \E l \in Lines :
          \/ \E n \in 0 .. NLanes : \/ CreateLine(r, l, n)
                                  \/ \E b \in BOOLEAN : EditLine(r, l, n, b)
          \/ RemoveLine(r, l)
  \/ SaveLine(r) \/ CheckLane(r) \/ SwapHolder(r) \/ WriteLane(r)
  \/ DropLine(r)

CentreRequest(r) ==
  \/ /\ Ready(r)
     /\ \E k \in Centres :
          \/ \E op \in {"none", "link", "unlink"} : EditCentre(r, k, op)
          \/ RemoveCentre(r, k)
  \/ SaveColumns(r) \/ LinkBranch(r) \/ UnlinkBranch(r)
  \/ SaveLane(r) \/ EndLanes(r) \/ StoreBranch(r)
  \/ CloseCentre(r)

StartDevice(r, D) ==
  /\ Ready(r)
  /\ \E d \in D :
       \/ \E L \in SUBSET Lines : CreateDevice(r, d, L) \/ EditDevice(r, d, L)
       \/ RemoveDevice(r, d)

CameraRequest(r) ==
  \/ StartDevice(r, Cameras)
  \/ UnmapCamera(r) \/ InsertCameraLines(r)

AdminPcRequest(r) ==
  \/ StartDevice(r, AdminPcs)
  \/ ReplacePcLines(r) \/ SaveDeviceRow(r)

DeviceRequest(r) ==
  \/ CameraRequest(r) \/ AdminPcRequest(r)
  \/ SaveDevice(r) \/ DropDevice(r) \/ ReleaseLines(r)

-----------------------------------------------------------------------------
(* Properties.                                                             *)

\* Two lines of a centre never feed the same lane, but for the moment between
\* the two saves of a swap and for what overlapping edits, a swap cut there
\* or a line posted with a lane in use leave behind.
LaneHeldOnce == \A l, g \in LiveLines :
  /\ l # g
  /\ line[l].lane = line[g].lane
  /\ line[l].lane # 0
  => \/ "lane" \in loose
     \/ \E r \in Requests : /\ req[r].pc = "write"
                           /\ {l, g} = {req[r].at, req[r].other}

\* "One branch belongs to exactly one centre", unless two requests about
\* centres overlapped.
BranchOwnedOnce == \A k, m \in Centres :
  /\ centre[k].live /\ centre[k].linked
  /\ centre[m].live /\ centre[m].linked
  => k = m \/ "branch" \in loose

\* assignLane() moves no line, asked for or swapped with, from its lane under
\* an active job, except one that was opened after it had looked.
LaneFixedUnderJob == [][\A r \in Requests, l \in Lines :
  /\ req[r].pc \in {"swap", "write"} /\ req'[r].pc # req[r].pc
  /\ line'[l].lane # line[l].lane
  => ActiveOn(l) = {} \/ l \in req[r].opened]_mvars

\* Only its removal takes an admin PC off its last line, whatever edit loses
\* a race or is cut short.  (A camera is left without lines in both cases.)
PcKeepsALine == [][\A d \in AdminPcs :
  /\ LinesHeld(d) # {}
  /\ \A l \in Lines : <<d, l>> \notin held'
  => \E r \in Requests : req[r].pc = "release" /\ req[r].at = d]_mvars

\* No camera and no admin PC in use is on a removed line, unless it was put
\* there, or brought back, by a request that had looked before the removal.
RemovedLineIsFree == \A d \in Devices, l \in Lines :
  /\ line[l].st = "deleted"
  /\ device[d] = "live"
  /\ <<d, l>> \in held
  => l \in late

\* What has one holder keeps one, and what is removed is not in use.
MastersInv == LaneHeldOnce /\ BranchOwnedOnce /\ RemovedLineIsFree

=============================================================================
