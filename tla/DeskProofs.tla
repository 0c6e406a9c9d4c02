------------------------------ MODULE DeskProofs ------------------------------
(***************************************************************************)
(* Proofs about Masters and Cashier, for any number of requests, lines,    *)
(* lanes, centres, devices, jobs and payments.  The invariant has a part   *)
(* for each rule:                                                          *)
(*   TypesInv   types, and what the step of a request says of its fields   *)
(*   RulesInv   lanes and branches: one request at a time is between its   *)
(*              reads and its saves, or the rule is noted as let go        *)
(*   DeviceInv  devices and the lines that are removed, or about to be     *)
(*   JobInv     jobs on the lines that an assignment is about to write     *)
(*   PayInv     payments, the jobs they name and the requests that hold    *)
(*              copies of them                                             *)
(***************************************************************************)
EXTENDS Cashier, TLAPS, WellFoundedInduction, FiniteSetTheorems

-----------------------------------------------------------------------------
(* Types.                                                                  *)

LineSteps == {"row", "assign", "swap", "write", "drop"}
CentreSteps == {"centreRow", "link", "lanes", "centre", "close"}
DeviceSteps == {"save", "unmap", "insert", "deviceRow", "dropDevice", "release"}

\* The states of a request at the masters.
MasterReq ==
  [pc : {"idle", "row", "assign", "swap", "write", "drop", "centreRow",
         "link", "lanes", "centre", "close", "save", "unmap", "insert",
         "deviceRow", "dropDevice", "release"},
   op : {"none", "link", "unlink", "create", "edit"},
   at : Lines \union Centres \union Devices \union {None},
   want : 0 .. NLanes, was : 0 .. NLanes, flag : BOOLEAN,
   other : 0 .. NLines, plan : SUBSET ((0 .. NLanes) \X Lines),
   opened : SUBSET Lines]

LineRow == [st : {"none", "live", "deleted"}, lane : 0 .. NLanes]
CentreRow == [live : BOOLEAN, linked : BOOLEAN]
JobRow == [st : {"none", "active", "closed"}, line : 0 .. NLines]

\* What the step a request is at says about its fields.
Shape(q) ==
  /\ q.pc \in LineSteps => q.at \in Lines
  /\ q.pc = "swap" => q.other \in Lines /\ q.want # 0
  /\ q.pc \in CentreSteps => q.at \in Centres
  /\ q.pc \in DeviceSteps => q.at \in Devices
  /\ q.pc = "unmap" => q.at \in Cameras
  /\ q.pc = "insert" => q.plan # {}
  /\ q.pc = "link" => q.op \in {"link", "unlink"}
  /\ q.op = "create" => q.pc \in {"save", "insert"}
  /\ q.op = "edit" => q.pc \in DeviceSteps

ShapeInv == \A r \in Requests : Shape(req[r])

TypesInv == TypeOKMasters /\ ShapeInv

\* The least of a set of natural numbers.
LEMMA LeastExists ==
  ASSUME NEW S \in SUBSET Nat, S # {}
  PROVE  \E n \in S : \A m \in S : n <= m
<1>1. PICK n \in S : \A m \in S : ~ (<<m, n>> \in OpToRel(<, Nat))
  BY NatLessThanWellFounded, WFMin
<1>2. \A m \in S : ~ (m < n)
  BY <1>1 DEF OpToRel
<1> QED BY <1>2, SMT

LEMMA IdleShape == Idle \in MasterReq /\ Shape(Idle)
<1>1. 0 \in 0 .. NLanes /\ 0 \in 0 .. NLines
  BY MastersAssumption
<1> QED BY <1>1 DEF Idle, MasterReq, Shape, LineSteps, CentreSteps, DeviceSteps

\* A request that moves on to a well-formed state.
LEMMA NextReq ==
  ASSUME TypesInv, NEW r \in Requests, NEW new \in MasterReq, Shape(new),
         req' = [req EXCEPT ![r] = new],
         centre' \in [Centres -> CentreRow], line' \in [Lines -> LineRow],
         device' \in [Devices -> {"none", "live", "deleted"}],
         held' \subseteq Devices \X Lines,
         job' \in [Jobs -> JobRow],
         calls' \in 0 .. CallLimit, cuts' \in 0 .. CutLimit,
         loose' \subseteq {"lane", "branch"}, late' \subseteq Lines
  PROVE  TypesInv'
<1>1. req' \in [Requests -> MasterReq]
  BY DEF TypesInv, TypeOKMasters, MasterReq
<1>2. ShapeInv'
  BY DEF TypesInv, ShapeInv, TypeOKMasters
<1>3. TypeOKMasters'
  BY <1>1 DEF TypeOKMasters, MasterReq, CentreRow, LineRow, JobRow
<1> QED BY <1>2, <1>3 DEF TypesInv

\* The types, one variable at a time, and the request that is looked at.
LEMMA OldTypes ==
  ASSUME TypesInv, NEW r \in Requests
  PROVE  /\ centre \in [Centres -> CentreRow] /\ line \in [Lines -> LineRow]
         /\ device \in [Devices -> {"none", "live", "deleted"}]
         /\ held \subseteq Devices \X Lines
         /\ job \in [Jobs -> JobRow]
         /\ req \in [Requests -> MasterReq]
         /\ calls \in 0 .. CallLimit /\ cuts \in 0 .. CutLimit
         /\ loose \subseteq {"lane", "branch"} /\ late \subseteq Lines
         /\ req[r] \in MasterReq /\ Shape(req[r])
<1>1. req \in [Requests -> MasterReq]
  BY DEF TypesInv, TypeOKMasters, MasterReq
<1> QED BY <1>1 DEF TypesInv, TypeOKMasters, ShapeInv, CentreRow, LineRow, JobRow

\* A step that only moves the request on.
LEMMA GotoTypes ==
  ASSUME TypesInv, NEW r \in Requests, NEW new \in MasterReq, Shape(new),
         Goto(r, new), UNCHANGED <<centre, line, device, held, loose>>,
         late' \subseteq Lines
  PROVE  TypesInv'
<1> QED BY OldTypes, NextReq DEF Goto

\* A step that moves the request on and writes the row of a line.
LEMMA LineWriteTypes ==
  ASSUME TypesInv, NEW r \in Requests, NEW new \in MasterReq, Shape(new),
         NEW l \in Lines, NEW s \in {"none", "live", "deleted"},
         NEW n \in 0 .. NLanes,
         Goto(r, new), line' = [line EXCEPT ![l] = [st |-> s, lane |-> n]],
         UNCHANGED <<centre, device, held, loose>>, late' \subseteq Lines
  PROVE  TypesInv'
<1>1. line' \in [Lines -> LineRow]
  BY OldTypes DEF LineRow
<1> QED BY <1>1, OldTypes, NextReq DEF Goto

\* One that writes the row of a centre.
LEMMA CentreWriteTypes ==
  ASSUME TypesInv, NEW r \in Requests, NEW new \in MasterReq, Shape(new),
         NEW k \in Centres, NEW row \in CentreRow,
         Goto(r, new), centre' = [centre EXCEPT ![k] = row],
         UNCHANGED <<line, device, held, loose, late>>
  PROVE  TypesInv'
<1>1. centre' \in [Centres -> CentreRow]
  BY OldTypes
<1> QED BY <1>1, OldTypes, NextReq DEF Goto

\* One that writes the row of a device or its mappings.
LEMMA DeviceWriteTypes ==
  ASSUME TypesInv, NEW r \in Requests, NEW new \in MasterReq, Shape(new),
         Goto(r, new), UNCHANGED <<centre, line, loose>>,
         device' \in [Devices -> {"none", "live", "deleted"}],
         held' \subseteq Devices \X Lines, late' \subseteq Lines
  PROVE  TypesInv'
<1> QED BY OldTypes, NextReq DEF Goto

\* A request that begins.
LEMMA BeginTypes ==
  ASSUME TypesInv, NEW r \in Requests, NEW new \in MasterReq, Shape(new),
         Begin(r, new), UNCHANGED <<centre, device, held, late>>,
         line' \in [Lines -> LineRow], loose' \subseteq {"lane", "branch"}
  PROVE  TypesInv'
<1>1. calls' \in 0 .. CallLimit
  BY OldTypes, MastersAssumption DEF Begin, Ready
<1> QED BY <1>1, OldTypes, NextReq DEF Begin

\* Of several lines the first one is taken.
LEMMA FirstOf ==
  ASSUME NEW H \in SUBSET Lines, H # {}
  PROVE  (CHOOSE h \in H : \A g \in H : h <= g) \in H
<1>1. H \in SUBSET Nat
  BY MastersAssumption DEF Lines
<1>2. \E h \in H : \A g \in H : h <= g
  BY <1>1, LeastExists
<1> QED BY <1>2

LEMMA HoldersAreLines ==
  ASSUME NEW n
  PROVE  HolderOf(n) \subseteq LiveLines /\ LiveLines \subseteq Lines
BY DEF HolderOf, LiveLines

-----------------------------------------------------------------------------
(* The types are kept by the requests about lines.                         *)

LEMMA CreateLineTypes ==
  ASSUME TypesInv, NEW r \in Requests, NEW l \in Lines, NEW n \in 0 .. NLanes,
         CreateLine(r, l, n)
  PROVE  TypesInv'
<1>1. line' \in [Lines -> LineRow]
  BY OldTypes DEF CreateLine, LineRow
<1>2. loose' \subseteq {"lane", "branch"}
  BY OldTypes DEF CreateLine
<1> QED BY <1>1, <1>2, IdleShape, BeginTypes DEF CreateLine

LEMMA EditLineTypes ==
  ASSUME TypesInv, NEW r \in Requests, NEW l \in Lines, NEW n \in 0 .. NLanes,
         NEW b \in BOOLEAN, EditLine(r, l, n, b)
  PROVE  TypesInv'
<1> DEFINE new == [Idle EXCEPT !.pc = "row", !.at = l, !.want = n,
                               !.was = line[l].lane, !.flag = b]
<1>1. line[l].lane \in 0 .. NLanes
  BY OldTypes DEF LineRow
<1>2. new \in MasterReq /\ Shape(new)
  BY <1>1, IdleShape DEF MasterReq, Shape, Idle, LineSteps, CentreSteps, DeviceSteps
<1>3. Begin(r, new) /\ loose' \subseteq {"lane", "branch"}
  BY OldTypes DEF EditLine, BeginWriting
<1> HIDE DEF new
<1> QED BY <1>2, <1>3, OldTypes, BeginTypes DEF EditLine

LEMMA RemoveLineTypes ==
  ASSUME TypesInv, NEW r \in Requests, NEW l \in Lines, RemoveLine(r, l)
  PROVE  TypesInv'
<1> DEFINE new == [Idle EXCEPT !.pc = "drop", !.at = l, !.was = line[l].lane]
<1>1. line[l].lane \in 0 .. NLanes
  BY OldTypes DEF LineRow
<1>2. new \in MasterReq /\ Shape(new)
  BY <1>1, IdleShape DEF MasterReq, Shape, Idle, LineSteps, CentreSteps, DeviceSteps
<1>3. Begin(r, new) /\ loose' \subseteq {"lane", "branch"}
  BY OldTypes DEF RemoveLine, BeginWriting
<1> HIDE DEF new
<1> QED BY <1>2, <1>3, OldTypes, BeginTypes DEF RemoveLine

\* A request that goes on at the same line, or ends.
LEMMA LaterShape ==
  ASSUME NEW q \in MasterReq, Shape(q), q.pc \in LineSteps
  PROVE  /\ q.op # "create"
         /\ \A s \in {"assign", "write"} :
              [q EXCEPT !.pc = s] \in MasterReq /\ Shape([q EXCEPT !.pc = s])
         /\ \A was \in 0 .. NLanes, other \in Lines : q.want # 0 =>
              LET new == [q EXCEPT !.pc = "swap", !.was = was, !.other = other]
              IN new \in MasterReq /\ Shape(new)
<1>1. q.op # "create" /\ q.at \in Lines
  BY DEF Shape, LineSteps, DeviceSteps
<1>2. \A s \in {"assign", "write"} :
        [q EXCEPT !.pc = s] \in MasterReq /\ Shape([q EXCEPT !.pc = s])
  BY <1>1 DEF MasterReq, Shape, LineSteps, CentreSteps, DeviceSteps
<1>3. ASSUME NEW was \in 0 .. NLanes, NEW other \in Lines, q.want # 0
      PROVE  LET new == [q EXCEPT !.pc = "swap", !.was = was, !.other = other]
             IN new \in MasterReq /\ Shape(new)
  <2>1. other \in 0 .. NLines
    BY DEF Lines
  <2> QED BY <1>1, <2>1, <1>3 DEF MasterReq, Shape, LineSteps, CentreSteps, DeviceSteps
<1> QED BY <1>1, <1>2, <1>3

LEMMA SaveLineTypes ==
  ASSUME TypesInv, NEW r \in Requests, SaveLine(r)
  PROVE  TypesInv'
<1>1. req[r] \in MasterReq /\ Shape(req[r]) /\ req[r].pc \in LineSteps
  BY OldTypes DEF SaveLine, LineSteps
<1>2. PICK new \in {Idle, [req[r] EXCEPT !.pc = "assign"]} : Goto(r, new)
  BY DEF SaveLine
<1>3. new \in MasterReq /\ Shape(new)
  BY <1>1, <1>2, LaterShape, IdleShape
<1>4. req[r].at \in Lines /\ req[r].was \in 0 .. NLanes
  BY <1>1 DEF MasterReq, Shape
<1> QED BY <1>2, <1>3, <1>4, OldTypes, LineWriteTypes DEF SaveLine

LEMMA CheckLaneTypes ==
  ASSUME TypesInv, NEW r \in Requests, CheckLane(r)
  PROVE  TypesInv'
<1> DEFINE q == req[r]
           holders == {h \in HolderOf(q.want) : h # q.at}
           holder == CHOOSE h \in holders : \A g \in holders : h <= g
<1>1. q \in MasterReq /\ Shape(q) /\ q.pc \in LineSteps
  BY OldTypes DEF CheckLane, LineSteps
<1>2. q.at \in Lines
  BY <1>1 DEF Shape
<1>3. line[q.at].lane \in 0 .. NLanes
  BY <1>2, OldTypes DEF LineRow
<1>4. holders # {} => holder \in Lines
  BY FirstOf, HoldersAreLines
<1>5. \/ Goto(r, Idle)
      \/ Goto(r, [q EXCEPT !.pc = "write"])
      \/ /\ q.want # 0 /\ holders # {}
         /\ Goto(r, [q EXCEPT !.pc = "swap", !.was = line[q.at].lane, !.other = holder])
  BY DEF CheckLane
<1> HIDE DEF holders, holder
<1>6. PICK new \in MasterReq : Shape(new) /\ Goto(r, new)
  BY <1>1, <1>3, <1>4, <1>5, LaterShape, IdleShape
<1> QED BY <1>6, OldTypes, GotoTypes DEF CheckLane

LEMMA SwapHolderTypes ==
  ASSUME TypesInv, NEW r \in Requests, SwapHolder(r)
  PROVE  TypesInv'
<1>1. req[r] \in MasterReq /\ Shape(req[r]) /\ req[r].pc = "swap"
  BY OldTypes DEF SwapHolder
<1>2. req[r].other \in Lines /\ req[r].was \in 0 .. NLanes
  BY <1>1 DEF MasterReq, Shape
<1> DEFINE new == [req[r] EXCEPT !.pc = "write"]
<1>3. new \in MasterReq /\ Shape(new)
  BY <1>1, LaterShape DEF LineSteps
<1> HIDE DEF new
<1> QED BY <1>2, <1>3, OldTypes, LineWriteTypes DEF SwapHolder, new

LEMMA WriteLaneTypes ==
  ASSUME TypesInv, NEW r \in Requests, WriteLane(r)
  PROVE  TypesInv'
<1>1. req[r].at \in Lines /\ req[r].want \in 0 .. NLanes
  BY OldTypes DEF WriteLane, MasterReq, Shape, LineSteps
<1> QED BY <1>1, IdleShape, OldTypes, LineWriteTypes DEF WriteLane

LEMMA DropLineTypes ==
  ASSUME TypesInv, NEW r \in Requests, DropLine(r)
  PROVE  TypesInv'
<1>1. req[r].at \in Lines /\ req[r].was \in 0 .. NLanes
  BY OldTypes DEF DropLine, MasterReq, Shape, LineSteps
<1>2. late' \subseteq Lines
  BY <1>1, OldTypes DEF DropLine
<1> QED BY <1>1, <1>2, IdleShape, OldTypes, LineWriteTypes DEF DropLine

-----------------------------------------------------------------------------
(* The types are kept by the requests about centres.                       *)

LEMMA EditCentreTypes ==
  ASSUME TypesInv, NEW r \in Requests, NEW k \in Centres,
         NEW op \in {"none", "link", "unlink"}, EditCentre(r, k, op)
  PROVE  TypesInv'
<1>1. PICK step \in {"centreRow", "link"} :
        /\ step = "link" => op # "none"
        /\ BeginWriting(r, [Idle EXCEPT !.pc = step, !.op = op, !.at = k,
                                        !.flag = centre[k].linked])
  BY DEF EditCentre
<1> DEFINE new == [Idle EXCEPT !.pc = step, !.op = op, !.at = k,
                               !.flag = centre[k].linked]
<1>2. centre[k].linked \in BOOLEAN
  BY OldTypes DEF CentreRow
<1>3. new \in MasterReq /\ Shape(new)
  BY <1>1, <1>2, IdleShape DEF MasterReq, Shape, Idle, LineSteps, CentreSteps, DeviceSteps
<1>4. Begin(r, new) /\ loose' \subseteq {"lane", "branch"}
  BY <1>1, OldTypes DEF BeginWriting
<1> HIDE DEF new
<1> QED BY <1>3, <1>4, OldTypes, BeginTypes DEF EditCentre

LEMMA RemoveCentreTypes ==
  ASSUME TypesInv, NEW r \in Requests, NEW k \in Centres, RemoveCentre(r, k)
  PROVE  TypesInv'
<1> DEFINE new == [Idle EXCEPT !.pc = "close", !.at = k, !.flag = centre[k].linked]
<1>1. centre[k].linked \in BOOLEAN
  BY OldTypes DEF CentreRow
<1>2. new \in MasterReq /\ Shape(new)
  BY <1>1, IdleShape DEF MasterReq, Shape, Idle, LineSteps, CentreSteps, DeviceSteps
<1>3. Begin(r, new) /\ loose' \subseteq {"lane", "branch"}
  BY OldTypes DEF RemoveCentre, BeginWriting
<1> HIDE DEF new
<1> QED BY <1>2, <1>3, OldTypes, BeginTypes DEF RemoveCentre

\* A request that goes on at the same centre.
LEMMA LaterAtCentre ==
  ASSUME NEW q \in MasterReq, Shape(q), q.pc \in CentreSteps
  PROVE  /\ q.op # "create" /\ q.at \in Centres /\ q.flag \in BOOLEAN
         /\ LET new == [q EXCEPT !.pc = "centre"] IN new \in MasterReq /\ Shape(new)
         /\ q.op \in {"link", "unlink"} =>
              LET new == [q EXCEPT !.pc = "link"] IN new \in MasterReq /\ Shape(new)
         /\ \A P \in SUBSET ((0 .. NLanes) \X Lines) :
              LET new == [q EXCEPT !.pc = "lanes", !.plan = P]
              IN new \in MasterReq /\ Shape(new)
         /\ \A P \in SUBSET ((0 .. NLanes) \X Lines) : q.pc = "lanes" =>
              LET new == [q EXCEPT !.plan = P] IN new \in MasterReq /\ Shape(new)
<1>1. q.op \notin {"create", "edit"} /\ q.at \in Centres /\ q.flag \in BOOLEAN
  BY DEF Shape, CentreSteps, DeviceSteps, MasterReq
<1>2. LET new == [q EXCEPT !.pc = "centre"] IN new \in MasterReq /\ Shape(new)
  BY <1>1 DEF MasterReq, Shape, LineSteps, CentreSteps, DeviceSteps
<1>3. q.op \in {"link", "unlink"} =>
        LET new == [q EXCEPT !.pc = "link"] IN new \in MasterReq /\ Shape(new)
  BY <1>1 DEF MasterReq, Shape, LineSteps, CentreSteps, DeviceSteps
<1>4. ASSUME NEW P \in SUBSET ((0 .. NLanes) \X Lines)
      PROVE  LET new == [q EXCEPT !.pc = "lanes", !.plan = P]
             IN new \in MasterReq /\ Shape(new)
  BY <1>1 DEF MasterReq, Shape, LineSteps, CentreSteps, DeviceSteps
<1>5. ASSUME NEW P \in SUBSET ((0 .. NLanes) \X Lines), q.pc = "lanes"
      PROVE  LET new == [q EXCEPT !.plan = P] IN new \in MasterReq /\ Shape(new)
  BY <1>1, <1>5 DEF MasterReq, Shape, LineSteps, CentreSteps, DeviceSteps
<1> QED BY <1>1, <1>2, <1>3, <1>4, <1>5

LEMMA SaveColumnsTypes ==
  ASSUME TypesInv, NEW r \in Requests, SaveColumns(r)
  PROVE  TypesInv'
<1> DEFINE q == req[r]
<1>1. q \in MasterReq /\ Shape(q) /\ q.pc \in CentreSteps
  BY OldTypes DEF SaveColumns, CentreSteps
<1>2. q.op = "none" \/ q.op \in {"link", "unlink"}
  BY <1>1 DEF MasterReq, Shape, CentreSteps, DeviceSteps
<1>3. PICK new \in {Idle, [q EXCEPT !.pc = "link"]} :
        /\ Goto(r, new)
        /\ new = Idle \/ q.op # "none"
  BY DEF SaveColumns
<1>4. new \in MasterReq /\ Shape(new)
  BY <1>1, <1>2, <1>3, LaterAtCentre, IdleShape
<1>5. q.at \in Centres /\ [live |-> TRUE, linked |-> q.flag] \in CentreRow
  BY <1>1, LaterAtCentre DEF CentreRow
<1> QED BY <1>3, <1>4, <1>5, CentreWriteTypes DEF SaveColumns

\* The plan of a link names lanes and lines.
LEMMA PlanTypes ==
  /\ buildVerification \in SUBSET ((0 .. NLanes) \X Lines)
  /\ {<<0, l>> : l \in {g \in LiveLines : line[g].lane # 0}}
       \in SUBSET ((0 .. NLanes) \X Lines)
<1>1. Lanes \subseteq 0 .. NLanes /\ 0 \in 0 .. NLanes
  BY MastersAssumption DEF Lanes
<1>2. LiveLines \subseteq Lines
  BY DEF LiveLines
<1>3. buildVerification \subseteq Lanes \X LiveLines
  BY DEF buildVerification
<1>4. Lanes \X LiveLines \subseteq (0 .. NLanes) \X Lines
  BY <1>1, <1>2
<1>5. {<<0, l>> : l \in {g \in LiveLines : line[g].lane # 0}}
        \subseteq (0 .. NLanes) \X Lines
  BY <1>1, <1>2
<1> QED BY <1>3, <1>4, <1>5

LEMMA LinkBranchTypes ==
  ASSUME TypesInv, NEW r \in Requests, LinkBranch(r)
  PROVE  TypesInv'
<1> DEFINE q == req[r]
           plan == IF q.at = Home THEN buildVerification ELSE {}
<1>1. q \in MasterReq /\ Shape(q) /\ q.pc \in CentreSteps
  BY OldTypes DEF LinkBranch, CentreSteps
<1>2. plan \in SUBSET ((0 .. NLanes) \X Lines)
  BY PlanTypes
<1>3. Goto(r, Idle) \/ Goto(r, [q EXCEPT !.pc = "lanes", !.plan = plan])
  BY DEF LinkBranch
<1> HIDE DEF plan
<1>4. PICK new \in MasterReq : Shape(new) /\ Goto(r, new)
  BY <1>1, <1>2, <1>3, LaterAtCentre, IdleShape
<1> QED BY <1>4, OldTypes, GotoTypes DEF LinkBranch

LEMMA UnlinkBranchTypes ==
  ASSUME TypesInv, NEW r \in Requests, UnlinkBranch(r)
  PROVE  TypesInv'
<1> DEFINE q == req[r]
           plan == IF q.at = Home
                   THEN {<<0, l>> : l \in {g \in LiveLines : line[g].lane # 0}}
                   ELSE {}
           row == [centre[q.at] EXCEPT !.linked = FALSE]
           new == [q EXCEPT !.pc = "lanes", !.plan = plan]
<1>1. q \in MasterReq /\ Shape(q) /\ q.pc \in CentreSteps
  BY OldTypes DEF UnlinkBranch, CentreSteps
<1>2. plan \in SUBSET ((0 .. NLanes) \X Lines)
  BY PlanTypes
<1>3. q.at \in Centres /\ row \in CentreRow
  BY <1>1, OldTypes, LaterAtCentre DEF CentreRow
<1>4. centre' = [centre EXCEPT ![q.at] = row]
  BY OldTypes DEF UnlinkBranch
<1>5. Goto(r, new)
  BY DEF UnlinkBranch
<1> HIDE DEF plan
<1>6. new \in MasterReq /\ Shape(new)
  BY <1>1, <1>2, LaterAtCentre
<1> HIDE DEF row, new
<1> QED BY <1>3, <1>4, <1>5, <1>6, CentreWriteTypes DEF UnlinkBranch

LEMMA SaveLaneTypes ==
  ASSUME TypesInv, NEW r \in Requests, SaveLane(r)
  PROVE  TypesInv'
<1> DEFINE q == req[r]
<1>1. q \in MasterReq /\ Shape(q) /\ q.pc = "lanes" /\ q.pc \in CentreSteps
  BY OldTypes DEF SaveLane, CentreSteps
<1>2. PICK x \in q.plan :
        /\ line' = [line EXCEPT ![x[2]] = [st |-> "live", lane |-> x[1]]]
        /\ Goto(r, [q EXCEPT !.plan = q.plan \ {x}])
  BY DEF SaveLane
<1>3. q.plan \in SUBSET ((0 .. NLanes) \X Lines)
  BY <1>1 DEF MasterReq
<1>4. x[1] \in 0 .. NLanes /\ x[2] \in Lines
  BY <1>3
<1> DEFINE new == [q EXCEPT !.plan = q.plan \ {x}]
<1>5. new \in MasterReq /\ Shape(new)
  BY <1>1, <1>3, LaterAtCentre
<1> HIDE DEF new
<1> QED BY <1>2, <1>4, <1>5, OldTypes, LineWriteTypes DEF SaveLane, new

LEMMA EndLanesTypes ==
  ASSUME TypesInv, NEW r \in Requests, EndLanes(r)
  PROVE  TypesInv'
<1>1. req[r] \in MasterReq /\ Shape(req[r]) /\ req[r].pc \in CentreSteps
  BY OldTypes DEF EndLanes, CentreSteps
<1>2. PICK new \in {Idle, [req[r] EXCEPT !.pc = "centre"]} : Goto(r, new)
  BY DEF EndLanes
<1>3. new \in MasterReq /\ Shape(new)
  BY <1>1, <1>2, LaterAtCentre, IdleShape
<1> QED BY <1>2, <1>3, OldTypes, GotoTypes DEF EndLanes

LEMMA StoreBranchTypes ==
  ASSUME TypesInv, NEW r \in Requests, StoreBranch(r)
  PROVE  TypesInv'
<1>1. req[r].at \in Centres
  BY OldTypes DEF StoreBranch, Shape, CentreSteps
<1>2. [live |-> TRUE, linked |-> TRUE] \in CentreRow
  BY DEF CentreRow
<1> QED BY <1>1, <1>2, IdleShape, CentreWriteTypes DEF StoreBranch

LEMMA CloseCentreTypes ==
  ASSUME TypesInv, NEW r \in Requests, CloseCentre(r)
  PROVE  TypesInv'
<1>1. req[r].at \in Centres /\ req[r].flag \in BOOLEAN
  BY OldTypes DEF CloseCentre, MasterReq, Shape, CentreSteps
<1>2. [live |-> FALSE, linked |-> req[r].flag] \in CentreRow
  BY <1>1 DEF CentreRow
<1> QED BY <1>1, <1>2, IdleShape, CentreWriteTypes DEF CloseCentre

-----------------------------------------------------------------------------
(* The types are kept by the requests about devices, and by jobs.          *)

\* The lines a device is to be on.
LEMMA LinesAsPlan ==
  ASSUME NEW L \in SUBSET Lines
  PROVE  /\ {0} \X L \in SUBSET ((0 .. NLanes) \X Lines)
         /\ {x[2] : x \in {0} \X L} = L
         /\ L # {} => {0} \X L # {}
<1>1. 0 \in 0 .. NLanes
  BY MastersAssumption
<1>2. {0} \X L \in SUBSET ((0 .. NLanes) \X Lines)
  BY <1>1
<1>3. ASSUME NEW l \in L
      PROVE  <<0, l>> \in {0} \X L /\ <<0, l>>[2] = l
  OBVIOUS
<1>4. \A l \in L : l \in {x[2] : x \in {0} \X L}
  BY <1>3
<1>5. L # {} => {0} \X L # {}
  BY <1>3
<1> QED BY <1>2, <1>4, <1>5

LEMMA CreateDeviceTypes ==
  ASSUME TypesInv, NEW r \in Requests, NEW d \in Devices, NEW L \in SUBSET Lines,
         CreateDevice(r, d, L)
  PROVE  TypesInv'
<1> DEFINE plan == {0} \X L
           new == [Idle EXCEPT !.pc = "save", !.op = "create", !.at = d, !.plan = plan]
<1>1. plan \in SUBSET ((0 .. NLanes) \X Lines)
  BY LinesAsPlan
<1> HIDE DEF plan
<1>2. new \in MasterReq /\ Shape(new)
  BY <1>1, IdleShape DEF MasterReq, Shape, Idle, LineSteps, CentreSteps, DeviceSteps
<1>3. Begin(r, new)
  BY DEF CreateDevice, plan
<1> HIDE DEF new
<1> QED BY <1>2, <1>3, OldTypes, BeginTypes DEF CreateDevice

\* What an edit of a device begins with.
LEMMA EditBegins ==
  ASSUME NEW r \in Requests, NEW d \in Devices, NEW L \in SUBSET Lines,
         EditDevice(r, d, L)
  PROVE  \E step \in {"deviceRow", "unmap", "insert"} :
           /\ step # "deviceRow" => Assignable(d, L)
           /\ step = "unmap" => d \in Cameras
           /\ step = "insert" => d \in AdminPcs
           /\ Begin(r, [Idle EXCEPT !.pc = step, !.op = "edit", !.at = d,
                          !.plan = IF step = "deviceRow" THEN {} ELSE {0} \X L])
<1> DEFINE step == CASE L = LinesHeld(d) -> "deviceRow"
                     [] L # LinesHeld(d) /\ d \in Cameras -> "unmap"
                     [] OTHER -> "insert"
<1>1. /\ step \in {"deviceRow", "unmap", "insert"}
      /\ step = "unmap" => d \in Cameras
      /\ step = "insert" => d \notin Cameras
  OBVIOUS
<1>2. /\ step # "deviceRow" => Assignable(d, L)
      /\ Begin(r, [Idle EXCEPT !.pc = step, !.op = "edit", !.at = d,
                     !.plan = IF step = "deviceRow" THEN {} ELSE {0} \X L])
  BY DEF EditDevice
<1> HIDE DEF step
<1> QED BY <1>1, <1>2 DEF Devices

LEMMA EditDeviceTypes ==
  ASSUME TypesInv, NEW r \in Requests, NEW d \in Devices, NEW L \in SUBSET Lines,
         EditDevice(r, d, L)
  PROVE  TypesInv'
<1>1. PICK step \in {"deviceRow", "unmap", "insert"} :
           /\ step # "deviceRow" => Assignable(d, L)
           /\ step = "unmap" => d \in Cameras
           /\ step = "insert" => d \in AdminPcs
           /\ Begin(r, [Idle EXCEPT !.pc = step, !.op = "edit", !.at = d,
                          !.plan = IF step = "deviceRow" THEN {} ELSE {0} \X L])
  BY EditBegins
<1> DEFINE plan == IF step = "deviceRow" THEN {} ELSE {0} \X L
           new == [Idle EXCEPT !.pc = step, !.op = "edit", !.at = d, !.plan = plan]
<1>2. plan \in SUBSET ((0 .. NLanes) \X Lines)
  BY LinesAsPlan
<1>3. step = "insert" => plan # {}
  BY <1>1, LinesAsPlan DEF Assignable
<1>4. Begin(r, new)
  BY <1>1
<1> HIDE DEF plan
<1>5. new \in MasterReq /\ Shape(new)
  BY <1>1, <1>2, <1>3, IdleShape DEF MasterReq, Shape, Idle, LineSteps, CentreSteps, DeviceSteps
<1> HIDE DEF new
<1> QED BY <1>4, <1>5, OldTypes, BeginTypes DEF EditDevice

LEMMA RemoveDeviceTypes ==
  ASSUME TypesInv, NEW r \in Requests, NEW d \in Devices, RemoveDevice(r, d)
  PROVE  TypesInv'
<1> DEFINE new == [Idle EXCEPT !.pc = "dropDevice", !.at = d]
<1>1. new \in MasterReq /\ Shape(new)
  BY IdleShape DEF MasterReq, Shape, Idle, LineSteps, CentreSteps, DeviceSteps
<1>2. Begin(r, new)
  BY DEF RemoveDevice
<1> HIDE DEF new
<1> QED BY <1>1, <1>2, OldTypes, BeginTypes DEF RemoveDevice

\* A request that goes on at the same device.
LEMMA LaterAtDevice ==
  ASSUME NEW q \in MasterReq, Shape(q), q.pc \in DeviceSteps
  PROVE  /\ q.at \in Devices
         /\ q.plan # {} =>
              LET new == [q EXCEPT !.pc = "insert"] IN new \in MasterReq /\ Shape(new)
         /\ q.op # "create" =>
              /\ LET new == [q EXCEPT !.pc = "deviceRow"] IN new \in MasterReq /\ Shape(new)
              /\ LET new == [q EXCEPT !.pc = "deviceRow", !.plan = {}]
                 IN new \in MasterReq /\ Shape(new)
              /\ LET new == [q EXCEPT !.pc = "release"] IN new \in MasterReq /\ Shape(new)
<1>1. q.at \in Devices
  BY DEF Shape
<1>2. ASSUME q.plan # {}
      PROVE  LET new == [q EXCEPT !.pc = "insert"] IN new \in MasterReq /\ Shape(new)
  BY <1>1, <1>2 DEF MasterReq, Shape, LineSteps, CentreSteps, DeviceSteps
<1>3. ASSUME q.op # "create"
      PROVE  LET new == [q EXCEPT !.pc = "deviceRow"] IN new \in MasterReq /\ Shape(new)
  BY <1>1, <1>3 DEF MasterReq, Shape, LineSteps, CentreSteps, DeviceSteps
<1>4. ASSUME q.op # "create"
      PROVE  LET new == [q EXCEPT !.pc = "deviceRow", !.plan = {}]
             IN new \in MasterReq /\ Shape(new)
  BY <1>1, <1>4 DEF MasterReq, Shape, LineSteps, CentreSteps, DeviceSteps
<1>5. ASSUME q.op # "create"
      PROVE  LET new == [q EXCEPT !.pc = "release"] IN new \in MasterReq /\ Shape(new)
  BY <1>1, <1>5 DEF MasterReq, Shape, LineSteps, CentreSteps, DeviceSteps
<1> QED BY <1>1, <1>2, <1>3, <1>4, <1>5

LEMMA SaveDeviceTypes ==
  ASSUME TypesInv, NEW r \in Requests, SaveDevice(r)
  PROVE  TypesInv'
<1>1. req[r] \in MasterReq /\ Shape(req[r]) /\ req[r].pc \in DeviceSteps
  BY OldTypes DEF SaveDevice, DeviceSteps
<1>2. PICK new \in MasterReq : Shape(new) /\ Goto(r, new)
  <2>1. CASE req[r].plan = {}
    BY <2>1, IdleShape DEF SaveDevice
  <2>2. CASE req[r].plan # {}
    BY <1>1, <2>2, LaterAtDevice DEF SaveDevice
  <2> QED BY <2>1, <2>2
<1>3. device' \in [Devices -> {"none", "live", "deleted"}]
  BY OldTypes DEF SaveDevice
<1> QED BY <1>2, <1>3, OldTypes, DeviceWriteTypes DEF SaveDevice

LEMMA UnmapCameraTypes ==
  ASSUME TypesInv, NEW r \in Requests, UnmapCamera(r)
  PROVE  TypesInv'
<1> DEFINE q == req[r]
<1>1. q \in MasterReq /\ Shape(q) /\ q.pc \in DeviceSteps /\ q.op # "create"
  BY OldTypes DEF UnmapCamera, DeviceSteps, Shape
<1>2. PICK step \in {"deviceRow", "insert"} :
        /\ step = "insert" => q.plan # {}
        /\ Goto(r, [q EXCEPT !.pc = step])
  BY DEF UnmapCamera
<1> DEFINE new == [q EXCEPT !.pc = step]
<1>3. new \in MasterReq /\ Shape(new)
  BY <1>1, <1>2, LaterAtDevice
<1> HIDE DEF new
<1>4. held' \subseteq Devices \X Lines
  BY OldTypes DEF UnmapCamera
<1> QED BY <1>2, <1>3, <1>4, OldTypes, DeviceWriteTypes DEF UnmapCamera, new

\* Where a request goes once the mappings are written.
LEMMA MappedTypes ==
  ASSUME TypesInv, NEW r \in Requests, req[r].pc = "insert",
         NEW L \in SUBSET Lines, Mapped(r, L)
  PROVE  /\ late' \subseteq Lines
         /\ \E new \in MasterReq : Shape(new) /\ Goto(r, new)
<1>1. req[r] \in MasterReq /\ Shape(req[r]) /\ req[r].pc \in DeviceSteps
  BY OldTypes DEF DeviceSteps
<1>2. late' \subseteq Lines
  BY OldTypes DEF Mapped
<1>3. \E new \in MasterReq : Shape(new) /\ Goto(r, new)
  <2>1. CASE req[r].op = "edit"
    BY <1>1, <2>1, LaterAtDevice DEF Mapped
  <2>2. CASE req[r].op # "edit"
    BY <2>2, IdleShape DEF Mapped
  <2> QED BY <2>1, <2>2
<1> QED BY <1>2, <1>3

\* The lines of a plan.
LEMMA PlanLines ==
  ASSUME NEW q \in MasterReq
  PROVE  {x[2] : x \in q.plan} \in SUBSET Lines
<1>1. q.plan \subseteq (0 .. NLanes) \X Lines
  BY DEF MasterReq
<1> QED BY <1>1

LEMMA InsertCameraLinesTypes ==
  ASSUME TypesInv, NEW r \in Requests, InsertCameraLines(r)
  PROVE  TypesInv'
<1> DEFINE L == {x[2] : x \in req[r].plan}
           kept == {x \in held : ~ (x[1] \in Cameras /\ device[x[1]] = "deleted"
                                    /\ x[2] \in L)}
<1>1. req[r] \in MasterReq /\ Shape(req[r]) /\ req[r].pc = "insert" /\ req[r].at \in Devices
  BY OldTypes DEF InsertCameraLines, Shape, DeviceSteps
<1>2. L \in SUBSET Lines
  BY <1>1, PlanLines
<1>3. \/ held' = kept /\ Goto(r, Idle) /\ UNCHANGED late
      \/ held' = kept \union ({req[r].at} \X L) /\ Mapped(r, L)
  BY DEF InsertCameraLines
<1>4. kept \subseteq Devices \X Lines
  BY OldTypes
<1> HIDE DEF L, kept
<1>5. held' \subseteq Devices \X Lines
  BY <1>1, <1>2, <1>3, <1>4
<1>6. /\ late' \subseteq Lines
      /\ \E new \in MasterReq : Shape(new) /\ Goto(r, new)
  BY <1>1, <1>2, <1>3, MappedTypes, IdleShape, OldTypes
<1> QED BY <1>5, <1>6, OldTypes, DeviceWriteTypes DEF InsertCameraLines

LEMMA ReplacePcLinesTypes ==
  ASSUME TypesInv, NEW r \in Requests, ReplacePcLines(r)
  PROVE  TypesInv'
<1> DEFINE L == {x[2] : x \in req[r].plan}
           kept == held \ ({req[r].at} \X Lines)
<1>1. req[r] \in MasterReq /\ Shape(req[r]) /\ req[r].pc = "insert" /\ req[r].at \in Devices
  BY OldTypes DEF ReplacePcLines, Shape, DeviceSteps
<1>2. L \in SUBSET Lines
  BY <1>1, PlanLines
<1>3. \/ Goto(r, Idle) /\ UNCHANGED <<held, late>>
      \/ held' = kept \union ({req[r].at} \X L) /\ Mapped(r, L)
  BY DEF ReplacePcLines
<1>4. kept \subseteq Devices \X Lines
  BY OldTypes
<1> HIDE DEF L, kept
<1>5. held' \subseteq Devices \X Lines
  BY <1>1, <1>2, <1>3, <1>4, OldTypes
<1>6. /\ late' \subseteq Lines
      /\ \E new \in MasterReq : Shape(new) /\ Goto(r, new)
  BY <1>1, <1>2, <1>3, MappedTypes, IdleShape, OldTypes
<1> QED BY <1>5, <1>6, OldTypes, DeviceWriteTypes DEF ReplacePcLines

LEMMA SaveDeviceRowTypes ==
  ASSUME TypesInv, NEW r \in Requests, SaveDeviceRow(r)
  PROVE  TypesInv'
<1>1. device' \in [Devices -> {"none", "live", "deleted"}]
  BY OldTypes DEF SaveDeviceRow
<1>2. late' \subseteq Lines
  BY OldTypes DEF SaveDeviceRow, LinesHeld
<1> QED BY <1>1, <1>2, IdleShape, OldTypes, DeviceWriteTypes DEF SaveDeviceRow

LEMMA DropDeviceTypes ==
  ASSUME TypesInv, NEW r \in Requests, DropDevice(r)
  PROVE  TypesInv'
<1>1. req[r] \in MasterReq /\ Shape(req[r]) /\ req[r].pc \in DeviceSteps
      /\ req[r].op # "create"
  BY OldTypes DEF DropDevice, DeviceSteps, Shape
<1>2. device' \in [Devices -> {"none", "live", "deleted"}]
  BY OldTypes DEF DropDevice
<1> DEFINE new == [req[r] EXCEPT !.pc = "release"]
<1>3. new \in MasterReq /\ Shape(new)
  BY <1>1, LaterAtDevice
<1> HIDE DEF new
<1> QED BY <1>2, <1>3, OldTypes, DeviceWriteTypes DEF DropDevice, new

LEMMA ReleaseLinesTypes ==
  ASSUME TypesInv, NEW r \in Requests, ReleaseLines(r)
  PROVE  TypesInv'
<1>1. held' \subseteq Devices \X Lines
  BY OldTypes DEF ReleaseLines
<1> QED BY <1>1, IdleShape, OldTypes, DeviceWriteTypes DEF ReleaseLines

LEMMA CutMastersTypes ==
  ASSUME TypesInv, NEW r \in Requests, CutMasters(r)
  PROVE  TypesInv'
<1>1. cuts' \in 0 .. CutLimit /\ loose' \subseteq {"lane", "branch"}
  BY OldTypes, MastersAssumption DEF CutMasters
<1> QED BY <1>1, IdleShape, OldTypes, NextReq DEF CutMasters

\* A job is opened on a line that an assignment is at work on.
LEMMA OpenJobTypes ==
  ASSUME TypesInv, NEW j \in Jobs, NEW l \in 0 .. NLines, OpenJob(j, l)
  PROVE  TypesInv'
<1>1. job' \in [Jobs -> JobRow]
  BY DEF OpenJob, JobRow, TypesInv, TypeOKMasters
<1>2. ASSUME NEW r \in Requests
      PROVE  req'[r] \in MasterReq /\ Shape(req'[r])
  <2>1. req[r] \in MasterReq /\ Shape(req[r])
    BY OldTypes
  <2>2. CASE req[r].pc \in {"swap", "write"} /\ l # 0
    <3> DEFINE o == req[r].opened \union {l}
    <3>1. o \in SUBSET Lines
      BY <2>1, <2>2 DEF MasterReq, Lines
    <3>2. req'[r] = [req[r] EXCEPT !.opened = o]
      BY <2>1, <2>2 DEF OpenJob, MasterReq
    <3> HIDE DEF o
    <3> QED BY <2>1, <3>1, <3>2 DEF MasterReq, Shape
  <2>3. CASE ~ (req[r].pc \in {"swap", "write"} /\ l # 0)
    BY <2>1, <2>3 DEF OpenJob
  <2> QED BY <2>2, <2>3
<1>3. req' \in [Requests -> MasterReq]
  <2>1. req' = [r \in Requests |-> req'[r]]
    BY DEF OpenJob
  <2> QED BY <1>2, <2>1
<1>4. TypeOKMasters'
  BY <1>1, <1>3 DEF OpenJob, TypesInv, TypeOKMasters, MasterReq, JobRow
<1> QED BY <1>2, <1>4 DEF TypesInv, ShapeInv

LEMMA CloseJobTypes ==
  ASSUME TypesInv, NEW j \in Jobs, CloseJob(j)
  PROVE  TypesInv'
<1>1. job' \in [Jobs -> JobRow]
  BY DEF CloseJob, JobRow, TypesInv, TypeOKMasters
<1> QED BY <1>1 DEF CloseJob, masters, TypesInv, ShapeInv, TypeOKMasters, JobRow

-----------------------------------------------------------------------------
(* Lanes and branches: while nothing let go of a rule, at most one request *)
(* is between reading and writing lines or centres, and the rows it has    *)
(* read are still the stored ones.                                         *)

OneWriter == loose # {"lane", "branch"} =>
  \A r, q \in Requests : req[r].pc \in Writing /\ req[q].pc \in Writing => r = q

\* Request q is half way through a swap of these two lines.
HalfWay(q, l, g) == q.pc = "write" /\ {l, g} = {q.at, q.other}

\* Two lines with one lane are the two lines of a swap half way.
HeldOnce(ln, rq) == \A l, g \in Lines :
  /\ l # g
  /\ ln[l].st = "live" /\ ln[g].st = "live"
  /\ ln[l].lane = ln[g].lane
  /\ ln[l].lane # 0
  => \E r \in Requests : HalfWay(rq[r], l, g)

\* No two lines have one lane.
Distinct(ln) == \A l, g \in Lines :
  l # g /\ ln[l].st = "live" /\ ln[g].st = "live" /\ ln[l].lane = ln[g].lane
  => ln[l].lane = 0

\* No line but l has lane n.
FreeBut(ln, n, l) ==
  n # 0 => \A g \in Lines : ln[g].st = "live" /\ g # l => ln[g].lane # n

\* What a request that writes lines has read is still so.
LaneStep(ln, q) ==
  /\ q.pc = "row" => ln[q.at] = [st |-> "live", lane |-> q.was]
  /\ q.pc = "swap" => /\ ln[q.at] = [st |-> "live", lane |-> q.was]
                      /\ ln[q.other] = [st |-> "live", lane |-> q.want]
                      /\ q.other # q.at /\ q.was # q.want
  /\ q.pc = "write" => ln[q.at].st = "live" /\ FreeBut(ln, q.want, q.at)
  /\ q.pc = "lanes" =>
       /\ \A x \in q.plan : ln[x[2]].st = "live" /\ FreeBut(ln, x[1], x[2])
       /\ \A x, y \in q.plan : x # y => x[2] # y[2] /\ (x[1] = y[1] => x[1] = 0)

LaneInv == "lane" \notin loose =>
  HeldOnce(line, req) /\ \A r \in Requests : LaneStep(line, req[r])

\* Centre k alone may hold the branch.
BranchOf(cn, k) == \A m \in Centres \ {k} : ~ (cn[m].live /\ cn[m].linked)

\* What a request that writes centres has read is still so.
BranchStep(cn, q) ==
  /\ q.pc = "centreRow" => cn[q.at] = [live |-> TRUE, linked |-> q.flag]
  /\ q.pc = "centre" \/ (q.pc = "lanes" /\ q.op = "link") => BranchOf(cn, q.at)

OwnedOnce(cn) == \A k, m \in Centres :
  cn[k].live /\ cn[k].linked /\ cn[m].live /\ cn[m].linked => k = m

BranchInv == "branch" \notin loose =>
  OwnedOnce(centre) /\ \A r \in Requests : BranchStep(centre, req[r])

RulesInv == OneWriter /\ LaneInv /\ BranchInv

\* The steps that neither LaneStep nor BranchStep says anything of.
LEMMA NothingRead ==
  ASSUME NEW ln, NEW cn, NEW q,
         q.pc \notin {"row", "swap", "write", "lanes", "centreRow", "centre"}
  PROVE  LaneStep(ln, q) /\ BranchStep(cn, q)
BY DEF LaneStep, BranchStep

LEMMA WriterRead ==
  ASSUME NEW ln, NEW cn, NEW q, q.pc \notin Writing
  PROVE  LaneStep(ln, q) /\ BranchStep(cn, q)
BY DEF LaneStep, BranchStep, Writing

LEMMA DistinctHeldOnce ==
  ASSUME NEW ln, NEW rq, Distinct(ln)
  PROVE  HeldOnce(ln, rq)
BY DEF Distinct, HeldOnce

LEMMA HeldOnceDistinct ==
  ASSUME NEW ln, NEW rq, HeldOnce(ln, rq), \A r \in Requests : rq[r].pc # "write"
  PROVE  Distinct(ln)
BY DEF Distinct, HeldOnce, HalfWay

\* A request moves on, and what is written is right again.
LEMMA OneWriterKept ==
  ASSUME TypesInv, OneWriter, NEW r \in Requests, NEW new \in MasterReq,
         req' = [req EXCEPT ![r] = new],
         loose \subseteq loose', loose' \subseteq {"lane", "branch"},
         new.pc \in Writing => \/ req[r].pc \in Writing
                               \/ loose' = {"lane", "branch"}
                               \/ ~ Overlaps(r)
  PROVE  OneWriter'
<1>1. req \in [Requests -> MasterReq]
  BY OldTypes
<1>2. \A q \in Requests \ {r} : req'[q] = req[q]
  BY <1>1
<1>3. req'[r] = new
  BY <1>1
<1> SUFFICES ASSUME loose' # {"lane", "branch"}, NEW p \in Requests, NEW q \in Requests,
                    req'[p].pc \in Writing, req'[q].pc \in Writing
             PROVE  p = q
  BY DEF OneWriter
<1>4. loose # {"lane", "branch"}
  OBVIOUS
<1> QED BY <1>1, <1>2, <1>3, <1>4 DEF OneWriter, Overlaps

\* The other requests are not writing, when the rule of the lanes is kept.
LEMMA LaneInvKept ==
  ASSUME TypesInv, LaneInv, NEW r \in Requests, NEW new \in MasterReq,
         req' = [req EXCEPT ![r] = new], loose \subseteq loose',
         "lane" \notin loose' =>
           /\ HeldOnce(line', req') /\ LaneStep(line', new)
           /\ \A q \in Requests \ {r} : LaneStep(line', req[q])
  PROVE  LaneInv'
<1>1. req \in [Requests -> MasterReq]
  BY OldTypes
<1> QED BY <1>1 DEF LaneInv

LEMMA BranchInvKept ==
  ASSUME TypesInv, BranchInv, NEW r \in Requests, NEW new \in MasterReq,
         req' = [req EXCEPT ![r] = new], loose \subseteq loose',
         "branch" \notin loose' =>
           /\ OwnedOnce(centre') /\ BranchStep(centre', new)
           /\ \A q \in Requests \ {r} : BranchStep(centre', req[q])
  PROVE  BranchInv'
<1>1. req \in [Requests -> MasterReq]
  BY OldTypes
<1> QED BY <1>1 DEF BranchInv

\* Beside a request that writes, the others have read nothing.
LEMMA OthersIdle ==
  ASSUME OneWriter, loose # {"lane", "branch"}, NEW r \in Requests,
         req[r].pc \in Writing \/ ~ Overlaps(r), NEW q \in Requests \ {r},
         NEW ln, NEW cn
  PROVE  req[q].pc \notin Writing /\ LaneStep(ln, req[q]) /\ BranchStep(cn, req[q])
<1>1. req[q].pc \notin Writing
  BY DEF OneWriter, Overlaps
<1> QED BY <1>1, WriterRead

\* No line changes: the pair of a swap half way is still there.
LEMMA SameLines ==
  ASSUME TypesInv, LaneInv, NEW r \in Requests, NEW new \in MasterReq,
         req' = [req EXCEPT ![r] = new], loose \subseteq loose',
         line' = line,
         "lane" \notin loose' => LaneStep(line, new),
         req[r].pc = "write" => "lane" \in loose' \/ req[r].other = 0
  PROVE  LaneInv'
<1>1. req \in [Requests -> MasterReq]
  BY OldTypes
<1>2. ASSUME "lane" \notin loose'
      PROVE  HeldOnce(line, req')
  <2>1. HeldOnce(line, req)
    BY <1>2 DEF LaneInv
  <2>2. \A q \in Requests : req[q].pc = "write" /\ q = r => req[q].other = 0
    BY <1>2
  <2>3. 0 \notin Lines
    BY DEF Lines
  <2>4. \A q \in Requests \ {r} : req'[q] = req[q]
    BY <1>1
  <2>5. ASSUME NEW l \in Lines, NEW g \in Lines, NEW q \in Requests,
               HalfWay(req[q], l, g)
        PROVE  HalfWay(req'[q], l, g)
    <3>1. q # r
      BY <2>2, <2>3, <2>5 DEF HalfWay
    <3> QED BY <2>4, <2>5, <3>1
  <2> QED BY <2>1, <2>5 DEF HeldOnce
<1>3. ASSUME "lane" \notin loose'
      PROVE  \A q \in Requests \ {r} : LaneStep(line, req[q])
  BY <1>3 DEF LaneInv
<1> QED BY <1>2, <1>3, LaneInvKept

LEMMA SameCentres ==
  ASSUME TypesInv, BranchInv, NEW r \in Requests, NEW new \in MasterReq,
         req' = [req EXCEPT ![r] = new], loose \subseteq loose',
         centre' = centre,
         "branch" \notin loose' => BranchStep(centre, new)
  PROVE  BranchInv'
<1>1. ASSUME "branch" \notin loose'
      PROVE  OwnedOnce(centre) /\ \A q \in Requests \ {r} : BranchStep(centre, req[q])
  BY <1>1 DEF BranchInv
<1> QED BY <1>1, BranchInvKept

\* A request that is at no step of theirs leaves lanes and branches alone.
LEMMA Quiet ==
  ASSUME TypesInv, RulesInv, NEW r \in Requests, NEW new \in MasterReq,
         req' = [req EXCEPT ![r] = new], UNCHANGED <<centre, line, loose>>,
         new.pc \notin Writing, req[r].pc # "write"
  PROVE  RulesInv'
<1>1. LaneStep(line, new) /\ BranchStep(centre, new)
  BY WriterRead
<1>2. loose \subseteq loose' /\ loose' \subseteq {"lane", "branch"}
  BY OldTypes
<1>3. OneWriter'
  BY <1>2, OneWriterKept DEF RulesInv
<1>4. LaneInv'
  BY <1>1, <1>2, SameLines DEF RulesInv
<1>5. BranchInv'
  BY <1>1, <1>2, SameCentres DEF RulesInv
<1> QED BY <1>3, <1>4, <1>5 DEF RulesInv

\* A request that begins to write.
LEMMA BeginRules ==
  ASSUME TypesInv, RulesInv, NEW r \in Requests, NEW new \in MasterReq,
         BeginWriting(r, new), UNCHANGED <<centre, line>>,
         LaneStep(line, new), BranchStep(centre, new)
  PROVE  RulesInv'
<1>1. /\ req' = [req EXCEPT ![r] = new] /\ req[r].pc = "idle"
      /\ loose \subseteq loose' /\ loose' \subseteq {"lane", "branch"}
      /\ loose' = {"lane", "branch"} \/ ~ Overlaps(r)
  BY OldTypes DEF BeginWriting, Begin, Ready
<1>2. OneWriter'
  BY <1>1, OneWriterKept DEF RulesInv
<1>3. LaneInv'
  BY <1>1, SameLines DEF RulesInv
<1>4. BranchInv'
  BY <1>1, SameCentres DEF RulesInv
<1> QED BY <1>2, <1>3, <1>4 DEF RulesInv

\* A request at work on lines writes one.
LEMMA LineWritten ==
  ASSUME TypesInv, RulesInv, NEW r \in Requests, NEW new \in MasterReq,
         req[r].pc \in Writing, Goto(r, new), UNCHANGED <<centre, loose>>,
         "lane" \notin loose => HeldOnce(line', req') /\ LaneStep(line', new),
         "branch" \notin loose => BranchStep(centre, new)
  PROVE  RulesInv'
<1>1. /\ req' = [req EXCEPT ![r] = new]
      /\ loose \subseteq loose' /\ loose' \subseteq {"lane", "branch"}
  BY OldTypes DEF Goto
<1>2. OneWriter'
  BY <1>1, OneWriterKept DEF RulesInv
<1>3. "lane" \notin loose => \A q \in Requests \ {r} : LaneStep(line', req[q])
  BY OthersIdle DEF RulesInv
<1>4. LaneInv'
  BY <1>1, <1>3, LaneInvKept DEF RulesInv
<1>5. BranchInv'
  BY <1>1, SameCentres DEF RulesInv
<1> QED BY <1>2, <1>4, <1>5 DEF RulesInv

\* A request at work on centres writes one.
LEMMA CentreWritten ==
  ASSUME TypesInv, RulesInv, NEW r \in Requests, NEW new \in MasterReq,
         req[r].pc \in Writing \ {"write"}, Goto(r, new), UNCHANGED <<line, loose>>,
         "branch" \notin loose => OwnedOnce(centre') /\ BranchStep(centre', new),
         "lane" \notin loose => LaneStep(line, new)
  PROVE  RulesInv'
<1>1. /\ req' = [req EXCEPT ![r] = new]
      /\ loose \subseteq loose' /\ loose' \subseteq {"lane", "branch"}
  BY OldTypes DEF Goto
<1>2. OneWriter'
  BY <1>1, OneWriterKept DEF RulesInv
<1>3. "branch" \notin loose => \A q \in Requests \ {r} : BranchStep(centre', req[q])
  BY OthersIdle DEF RulesInv
<1>4. BranchInv'
  BY <1>1, <1>3, BranchInvKept DEF RulesInv
<1>5. LaneInv'
  BY <1>1, SameLines DEF RulesInv
<1> QED BY <1>2, <1>4, <1>5 DEF RulesInv

\* While nobody writes a lane, no two lines have one.
LEMMA DistinctNow ==
  ASSUME RulesInv, "lane" \notin loose, NEW r \in Requests,
         req[r].pc \in Writing \ {"write"} \/ (req[r].pc = "idle" /\ ~ Overlaps(r))
  PROVE  Distinct(line)
<1>1. \A q \in Requests \ {r} : req[q].pc \notin Writing
  BY OthersIdle DEF RulesInv
<1>2. \A q \in Requests : req[q].pc # "write"
  BY <1>1 DEF Writing
<1> QED BY <1>2, HeldOnceDistinct DEF RulesInv, LaneInv

LEMMA CreateLineRules ==
  ASSUME TypesInv, RulesInv, NEW r \in Requests, NEW l \in Lines,
         NEW n \in 0 .. NLanes, CreateLine(r, l, n)
  PROVE  RulesInv'
<1>1. /\ req' = [req EXCEPT ![r] = Idle] /\ req[r].pc = "idle"
      /\ loose \subseteq loose' /\ loose' \subseteq {"lane", "branch"}
      /\ Idle \in MasterReq /\ Idle.pc \notin Writing
  BY OldTypes, IdleShape DEF CreateLine, Begin, Ready, Idle, Writing
<1>2. OneWriter'
  BY <1>1, OneWriterKept DEF RulesInv
<1>3. LaneStep(line', Idle) /\ BranchStep(centre', Idle)
  BY <1>1, WriterRead
<1>4. ASSUME "lane" \notin loose'
      PROVE  /\ HeldOnce(line', req')
             /\ \A q \in Requests \ {r} : LaneStep(line', req[q])
  <2>1. /\ "lane" \notin loose /\ ~ Overlaps(r)
        /\ n = 0 \/ HolderOf(n) = {}
    BY <1>1, <1>4 DEF CreateLine
  <2>2. Distinct(line)
    BY <1>1, <2>1, DistinctNow
  <2>3. n = 0 \/ \A g \in Lines : line[g].st = "live" => line[g].lane # n
    BY <2>1 DEF HolderOf, LiveLines
  <2>4. /\ \A g \in Lines \ {l} : line'[g] = line[g]
        /\ line'[l] = [st |-> "live", lane |-> n]
    BY OldTypes DEF CreateLine
  <2>5. Distinct(line')
    BY <2>2, <2>3, <2>4 DEF Distinct
  <2> QED BY <2>1, <2>5, DistinctHeldOnce, OthersIdle DEF RulesInv
<1>5. LaneInv'
  BY <1>1, <1>3, <1>4, LaneInvKept DEF RulesInv
<1>6. BranchInv'
  BY <1>1, <1>3, SameCentres DEF RulesInv, CreateLine
<1> QED BY <1>2, <1>5, <1>6 DEF RulesInv

LEMMA EditLineRules ==
  ASSUME TypesInv, RulesInv, NEW r \in Requests, NEW l \in Lines,
         NEW n \in 0 .. NLanes, NEW b \in BOOLEAN, EditLine(r, l, n, b)
  PROVE  RulesInv'
<1> DEFINE new == [Idle EXCEPT !.pc = "row", !.at = l, !.want = n,
                               !.was = line[l].lane, !.flag = b]
<1>1. line[l] \in LineRow /\ line[l].st = "live" /\ line[l].lane \in 0 .. NLanes
  BY OldTypes DEF EditLine, LineRow
<1>2. new \in MasterReq /\ new.pc = "row" /\ new.at = l /\ new.was = line[l].lane
  BY <1>1, IdleShape DEF MasterReq, Idle
<1>3. line[l] = [st |-> "live", lane |-> line[l].lane]
  BY <1>1 DEF LineRow
<1>4. BeginWriting(r, new)
  BY DEF EditLine
<1> HIDE DEF new
<1>5. LaneStep(line, new) /\ BranchStep(centre, new)
  BY <1>2, <1>3 DEF LaneStep, BranchStep
<1> QED BY <1>2, <1>4, <1>5, BeginRules DEF EditLine

LEMMA RemoveLineRules ==
  ASSUME TypesInv, RulesInv, NEW r \in Requests, NEW l \in Lines, RemoveLine(r, l)
  PROVE  RulesInv'
<1> DEFINE new == [Idle EXCEPT !.pc = "drop", !.at = l, !.was = line[l].lane]
<1>1. line[l].lane \in 0 .. NLanes
  BY OldTypes DEF LineRow
<1>2. new \in MasterReq /\ new.pc = "drop"
  BY <1>1, IdleShape DEF MasterReq, Idle
<1>3. BeginWriting(r, new)
  BY DEF RemoveLine
<1> HIDE DEF new
<1> QED BY <1>2, <1>3, NothingRead, BeginRules DEF RemoveLine

\* Saving the row that was read changes nothing.
LEMMA SaveLineRules ==
  ASSUME TypesInv, RulesInv, NEW r \in Requests, SaveLine(r)
  PROVE  RulesInv'
<1>1. req[r] \in MasterReq /\ Shape(req[r]) /\ req[r].pc = "row"
      /\ req[r].at \in Lines
  BY OldTypes DEF SaveLine, Shape, LineSteps
<1>2. PICK new \in {Idle, [req[r] EXCEPT !.pc = "assign"]} : Goto(r, new)
  BY DEF SaveLine
<1>3. new \in MasterReq /\ new.pc \in {"idle", "assign"}
  <2>1. CASE new = Idle
    BY <2>1, IdleShape DEF Idle
  <2>2. CASE new = [req[r] EXCEPT !.pc = "assign"]
    <3>1. new \in MasterReq
      BY <1>1, <2>2, LaterShape DEF LineSteps
    <3>2. new.pc = "assign"
      BY <1>1, <2>2 DEF MasterReq
    <3> QED BY <3>1, <3>2
  <2> QED BY <1>2, <2>1, <2>2
<1>4. LaneStep(line', new) /\ BranchStep(centre, new)
  BY <1>3, NothingRead
<1>5. ASSUME "lane" \notin loose
      PROVE  HeldOnce(line', req')
  <2>1. Distinct(line)
    BY <1>1, <1>5, DistinctNow DEF Writing
  <2>2. line[req[r].at] = [st |-> "live", lane |-> req[r].was]
    BY <1>1, <1>5 DEF RulesInv, LaneInv, LaneStep
  <2>3. line' = line
    BY <1>1, <2>2, OldTypes DEF SaveLine
  <2> QED BY <2>1, <2>3, DistinctHeldOnce
<1> QED BY <1>1, <1>2, <1>3, <1>4, <1>5, LineWritten DEF SaveLine, Writing

\* The line that gives a lane up is the only one that has it.
LEMMA CheckLaneRules ==
  ASSUME TypesInv, RulesInv, NEW r \in Requests, CheckLane(r)
  PROVE  RulesInv'
<1> DEFINE q == req[r]
           holders == {h \in HolderOf(q.want) : h # q.at}
           holder == CHOOSE h \in holders : \A g \in holders : h <= g
           swap == [q EXCEPT !.pc = "swap", !.was = line[q.at].lane, !.other = holder]
           write == [q EXCEPT !.pc = "write"]
<1>1. q \in MasterReq /\ Shape(q) /\ q.pc = "assign" /\ q.at \in Lines
      /\ line[q.at] \in LineRow
  BY OldTypes DEF CheckLane, Shape, LineSteps
<1>2. req' = [req EXCEPT ![r] = req'[r]] /\ UNCHANGED <<centre, line, loose>>
  BY OldTypes DEF CheckLane, Goto
<1>3. \/ req'[r] = Idle
      \/ /\ req'[r] = write
         /\ line[q.at].st = "live"
         /\ q.want = 0 \/ holders = {}
      \/ /\ req'[r] = swap
         /\ line[q.at].st = "live" /\ line[q.at].lane # q.want
         /\ q.want # 0 /\ holders # {}
  BY OldTypes DEF CheckLane, Goto
<1>4. req'[r] \in MasterReq
  <2>1. TypesInv'
    BY CheckLaneTypes
  <2> QED BY <2>1 DEF TypesInv, TypeOKMasters, MasterReq
<1>5. loose \subseteq loose' /\ loose' \subseteq {"lane", "branch"}
  BY <1>2, OldTypes
<1>6. OneWriter'
  BY <1>1, <1>2, <1>4, <1>5, OneWriterKept DEF RulesInv, Writing
<1>7. req'[r].pc \in {"idle", "write", "swap"}
  <2>1. Idle.pc = "idle"
    BY DEF Idle
  <2>2. write.pc = "write" /\ swap.pc = "swap"
    BY <1>1 DEF MasterReq
  <2> HIDE DEF write, swap
  <2> QED BY <1>3, <2>1, <2>2
<1>8. BranchInv'
  <2>1. BranchStep(centre, req'[r])
    BY <1>7 DEF BranchStep
  <2> QED BY <1>2, <1>4, <1>5, <2>1, SameCentres DEF RulesInv
<1>9. LaneStep(line, req'[r])
  <2>1. CASE req'[r] = Idle
    BY <2>1, NothingRead DEF Idle
  <2>2. CASE /\ req'[r] = write
             /\ line[q.at].st = "live"
             /\ q.want = 0 \/ holders = {}
    <3>1. write.pc = "write" /\ write.at = q.at /\ write.want = q.want
      BY <1>1 DEF MasterReq
    <3>2. FreeBut(line, q.want, q.at)
      BY <2>2 DEF FreeBut, HolderOf, LiveLines
    <3> HIDE DEF write
    <3> QED BY <2>2, <3>1, <3>2 DEF LaneStep
  <2>3. CASE /\ req'[r] = swap
             /\ line[q.at].st = "live" /\ line[q.at].lane # q.want
             /\ q.want # 0 /\ holders # {}
    <3>1. holder \in holders
      BY <2>3, FirstOf, HoldersAreLines
    <3> HIDE DEF holder
    <3>2. /\ swap.pc = "swap" /\ swap.at = q.at /\ swap.want = q.want
          /\ swap.was = line[q.at].lane /\ swap.other = holder
      BY <1>1 DEF MasterReq
    <3>3. holder \in Lines /\ line[holder].st = "live" /\ line[holder].lane = q.want
          /\ holder # q.at
      BY <3>1 DEF HolderOf, LiveLines
    <3>4. line[holder] = [st |-> "live", lane |-> q.want]
      BY <3>3, OldTypes DEF LineRow
    <3>5. line[q.at] = [st |-> "live", lane |-> line[q.at].lane]
      BY <1>1, <2>3 DEF LineRow
    <3> HIDE DEF swap
    <3> QED BY <2>3, <3>2, <3>3, <3>4, <3>5 DEF LaneStep
  <2> QED BY <1>3, <2>1, <2>2, <2>3
<1>10. LaneInv'
  BY <1>1, <1>2, <1>4, <1>5, <1>9, SameLines DEF RulesInv
<1> QED BY <1>6, <1>8, <1>10 DEF RulesInv

LEMMA SwapHolderRules ==
  ASSUME TypesInv, RulesInv, NEW r \in Requests, SwapHolder(r)
  PROVE  RulesInv'
<1> DEFINE q == req[r]
           new == [q EXCEPT !.pc = "write"]
<1>1. q \in MasterReq /\ Shape(q) /\ q.pc = "swap" /\ q.at \in Lines /\ q.other \in Lines
  BY OldTypes DEF SwapHolder, Shape, LineSteps
<1>2. /\ new \in MasterReq /\ new.pc = "write" /\ new.at = q.at /\ new.want = q.want
      /\ new.other = q.other
  <2>1. new \in MasterReq
    BY <1>1, LaterShape DEF LineSteps
  <2>2. /\ new.pc = "write" /\ new.at = q.at /\ new.want = q.want
        /\ new.other = q.other
    BY <1>1 DEF MasterReq
  <2> QED BY <2>1, <2>2
<1>3. Goto(r, new) /\ req'[r] = new
  BY OldTypes DEF SwapHolder, Goto
<1> HIDE DEF new
<1>4. BranchStep(centre, new)
  BY <1>2 DEF BranchStep
<1>5. ASSUME "lane" \notin loose
      PROVE  HeldOnce(line', req') /\ LaneStep(line', new)
  <2>1. Distinct(line)
    BY <1>1, <1>5, DistinctNow DEF Writing
  <2>2. /\ line[q.at].st = "live" /\ line[q.at].lane = q.was
        /\ line[q.other].st = "live" /\ line[q.other].lane = q.want
        /\ q.other # q.at /\ q.was # q.want
    <3>1. LaneStep(line, q)
      BY <1>5 DEF RulesInv, LaneInv
    <3>2. /\ line[q.at] = [st |-> "live", lane |-> q.was]
          /\ line[q.other] = [st |-> "live", lane |-> q.want]
          /\ q.other # q.at /\ q.was # q.want
      BY <1>1, <3>1 DEF LaneStep
    <3> QED BY <3>2
  <2>3. /\ \A g \in Lines \ {q.other} : line'[g] = line[g]
        /\ line'[q.other].st = "live" /\ line'[q.other].lane = q.was
    BY <1>1, OldTypes DEF SwapHolder
  <2>4. ASSUME NEW l \in Lines, NEW g \in Lines, l # g,
               line'[l].st = "live", line'[g].st = "live",
               line'[l].lane = line'[g].lane, line'[l].lane # 0
        PROVE  HalfWay(new, l, g)
    <3>1. l = q.other \/ g = q.other
      BY <2>1, <2>3, <2>4 DEF Distinct
    <3>2. CASE l = q.other
      <4>1. line[g].lane = q.was /\ q.was # 0 /\ line[g].st = "live"
        BY <2>3, <2>4, <3>2
      <4>2. g = q.at
        BY <1>1, <2>1, <2>2, <4>1 DEF Distinct
      <4> QED BY <1>2, <3>2, <4>2 DEF HalfWay
    <3>3. CASE g = q.other
      <4>1. line[l].lane = q.was /\ q.was # 0 /\ line[l].st = "live"
        BY <2>3, <2>4, <3>3
      <4>2. l = q.at
        BY <1>1, <2>1, <2>2, <4>1 DEF Distinct
      <4> QED BY <1>2, <3>3, <4>2 DEF HalfWay
    <3> QED BY <3>1, <3>2, <3>3
  <2>5. HeldOnce(line', req')
    BY <1>3, <2>4 DEF HeldOnce
  <2>6. FreeBut(line', q.want, q.at)
    BY <1>1, <2>1, <2>2, <2>3 DEF FreeBut, Distinct
  <2> QED BY <1>1, <1>2, <2>2, <2>3, <2>5, <2>6 DEF LaneStep
<1> QED BY <1>1, <1>2, <1>3, <1>4, <1>5, LineWritten DEF SwapHolder, Writing

LEMMA WriteLaneRules ==
  ASSUME TypesInv, RulesInv, NEW r \in Requests, WriteLane(r)
  PROVE  RulesInv'
<1> DEFINE q == req[r]
<1>1. q \in MasterReq /\ Shape(q) /\ q.pc = "write" /\ q.at \in Lines
  BY OldTypes DEF WriteLane, Shape, LineSteps
<1>2. Idle \in MasterReq /\ Goto(r, Idle) /\ LaneStep(line', Idle) /\ BranchStep(centre, Idle)
  BY IdleShape, NothingRead DEF WriteLane, Idle
<1>3. ASSUME "lane" \notin loose
      PROVE  HeldOnce(line', req')
  <2>1. HeldOnce(line, req) /\ FreeBut(line, q.want, q.at)
    BY <1>1, <1>3 DEF RulesInv, LaneInv, LaneStep
  <2>2. /\ \A g \in Lines \ {q.at} : line'[g] = line[g]
        /\ line'[q.at].st = "live" /\ line'[q.at].lane = q.want
    BY <1>1, OldTypes DEF WriteLane
  <2>3. \A p \in Requests \ {r} : req[p].pc # "write"
    BY <1>1, <1>3, OthersIdle DEF RulesInv, Writing
  <2>4. ASSUME NEW l \in Lines, NEW g \in Lines, l # g,
               line'[l].st = "live", line'[g].st = "live",
               line'[l].lane = line'[g].lane, line'[l].lane # 0
        PROVE  FALSE
    <3>1. CASE l # q.at /\ g # q.at
      <4>1. \E p \in Requests : HalfWay(req[p], l, g)
        BY <2>1, <2>2, <2>4, <3>1 DEF HeldOnce
      <4>2. HalfWay(q, l, g)
        BY <2>3, <4>1 DEF HalfWay
      <4> QED BY <3>1, <4>2 DEF HalfWay
    <3>2. CASE l = q.at \/ g = q.at
      BY <2>1, <2>2, <2>4, <3>2 DEF FreeBut
    <3> QED BY <3>1, <3>2
  <2>5. Distinct(line')
    BY <2>4 DEF Distinct
  <2> QED BY <2>5, DistinctHeldOnce
<1> QED BY <1>1, <1>2, <1>3, LineWritten DEF WriteLane, Writing

LEMMA DropLineRules ==
  ASSUME TypesInv, RulesInv, NEW r \in Requests, DropLine(r)
  PROVE  RulesInv'
<1>1. req[r] \in MasterReq /\ Shape(req[r]) /\ req[r].pc = "drop" /\ req[r].at \in Lines
  BY OldTypes DEF DropLine, Shape, LineSteps
<1>2. Idle \in MasterReq /\ Goto(r, Idle) /\ LaneStep(line', Idle) /\ BranchStep(centre, Idle)
  BY IdleShape, NothingRead DEF DropLine, Idle
<1>3. ASSUME "lane" \notin loose
      PROVE  HeldOnce(line', req')
  <2>1. Distinct(line)
    BY <1>1, <1>3, DistinctNow DEF Writing
  <2>2. /\ \A g \in Lines \ {req[r].at} : line'[g] = line[g]
        /\ line'[req[r].at].st = "deleted"
    BY <1>1, OldTypes DEF DropLine
  <2>3. Distinct(line')
    BY <2>1, <2>2 DEF Distinct
  <2> QED BY <2>3, DistinctHeldOnce
<1> QED BY <1>1, <1>2, <1>3, LineWritten DEF DropLine, Writing

LEMMA EditCentreRules ==
  ASSUME TypesInv, RulesInv, NEW r \in Requests, NEW k \in Centres,
         NEW op \in {"none", "link", "unlink"}, EditCentre(r, k, op)
  PROVE  RulesInv'
<1>1. PICK step \in {"centreRow", "link"} :
        BeginWriting(r, [Idle EXCEPT !.pc = step, !.op = op, !.at = k,
                                     !.flag = centre[k].linked])
  BY DEF EditCentre
<1> DEFINE new == [Idle EXCEPT !.pc = step, !.op = op, !.at = k,
                               !.flag = centre[k].linked]
<1>2. centre[k] \in CentreRow /\ centre[k].live /\ centre[k].linked \in BOOLEAN
  BY OldTypes DEF EditCentre, CentreRow
<1>3. /\ new \in MasterReq
      /\ new.pc = step /\ new.at = k /\ new.flag = centre[k].linked
  BY <1>2, IdleShape DEF MasterReq, Idle
<1>4. centre[k] = [live |-> TRUE, linked |-> centre[k].linked]
  BY <1>2, Zenon DEF CentreRow
<1> HIDE DEF new
<1>5. LaneStep(line, new) /\ BranchStep(centre, new)
  BY <1>3, <1>4 DEF LaneStep, BranchStep
<1> QED BY <1>1, <1>3, <1>5, BeginRules DEF EditCentre, new

LEMMA RemoveCentreRules ==
  ASSUME TypesInv, RulesInv, NEW r \in Requests, NEW k \in Centres, RemoveCentre(r, k)
  PROVE  RulesInv'
<1> DEFINE new == [Idle EXCEPT !.pc = "close", !.at = k, !.flag = centre[k].linked]
<1>1. centre[k].linked \in BOOLEAN
  BY OldTypes DEF CentreRow
<1>2. new \in MasterReq /\ new.pc = "close"
  BY <1>1, IdleShape DEF MasterReq, Idle
<1>3. BeginWriting(r, new)
  BY DEF RemoveCentre
<1> HIDE DEF new
<1> QED BY <1>2, <1>3, NothingRead, BeginRules DEF RemoveCentre

LEMMA SaveColumnsRules ==
  ASSUME TypesInv, RulesInv, NEW r \in Requests, SaveColumns(r)
  PROVE  RulesInv'
<1> DEFINE q == req[r]
<1>1. q \in MasterReq /\ Shape(q) /\ q.pc = "centreRow" /\ q.at \in Centres
  BY OldTypes DEF SaveColumns, Shape, CentreSteps
<1>2. PICK new \in {Idle, [q EXCEPT !.pc = "link"]} :
        Goto(r, new) /\ (new = Idle \/ q.op # "none")
  BY DEF SaveColumns
<1>3. new \in MasterReq /\ new.pc \in {"idle", "link"}
  <2>1. CASE new = Idle
    BY <2>1, IdleShape DEF Idle
  <2>2. CASE new = [q EXCEPT !.pc = "link"]
    BY <1>1, <2>2 DEF MasterReq
  <2> QED BY <1>2, <2>1, <2>2
<1>4. LaneStep(line, new) /\ BranchStep(centre', new)
  BY <1>3, NothingRead
<1>5. ASSUME "branch" \notin loose
      PROVE  OwnedOnce(centre')
  <2>1. OwnedOnce(centre) /\ BranchStep(centre, q)
    BY <1>5 DEF RulesInv, BranchInv
  <2>2. centre[q.at] = [live |-> TRUE, linked |-> q.flag]
    BY <1>1, <2>1 DEF BranchStep
  <2>3. centre' = centre
    BY <1>1, <2>2, OldTypes DEF SaveColumns
  <2> QED BY <2>1, <2>3
<1> QED BY <1>1, <1>2, <1>3, <1>4, <1>5, CentreWritten DEF SaveColumns, Writing

\* Two lines at one place of the order are the same.
LEMMA PlacesDiffer ==
  ASSUME NEW l \in LiveLines, NEW m \in LiveLines,
         Cardinality({g \in LiveLines : g <= l}) = Cardinality({g \in LiveLines : g <= m})
  PROVE  l = m
<1>1. LiveLines \subseteq 1 .. NLines /\ NLines \in Nat
  BY MastersAssumption DEF LiveLines, Lines
<1>2. IsFiniteSet(LiveLines)
  <2>1. IsFiniteSet(1 .. NLines)
    BY <1>1, FS_Interval
  <2>2. LiveLines \in SUBSET (1 .. NLines)
    BY <1>1
  <2> QED BY <2>1, <2>2, FS_Subset
<1>3. ASSUME NEW a \in LiveLines, NEW b \in LiveLines, a <= b,
             Cardinality({g \in LiveLines : g <= a}) = Cardinality({g \in LiveLines : g <= b})
      PROVE  a = b
  <2> DEFINE A == {g \in LiveLines : g <= a}
             B == {g \in LiveLines : g <= b}
  <2>1. A \in SUBSET B
    <3>1. \A g \in LiveLines : g <= a => g <= b
      BY <1>1, <1>3
    <3> QED BY <3>1
  <2>2. IsFiniteSet(B)
    BY <1>2, FS_Subset
  <2>3. A = B
    BY <1>3, <2>1, <2>2, FS_Subset
  <2>4. b \in A
    BY <1>1, <2>3
  <2> QED BY <1>1, <1>3, <2>4
<1>4. l <= m \/ m <= l
  BY <1>1
<1> QED BY <1>3, <1>4

\* A lane is offered to one line, which is the one that has it if any does.
LEMMA OfferedOnce ==
  ASSUME Distinct(line), NEW n \in Lanes, NEW l \in Offered(n)
  PROVE  /\ l \in LiveLines
         /\ \A m \in Offered(n) : m = l
         /\ FreeBut(line, n, l)
<1>1. CASE HolderOf(n) # {}
  <2> DEFINE h == CHOOSE h \in HolderOf(n) : \A g \in HolderOf(n) : h <= g
  <2>1. HolderOf(n) \in SUBSET Lines
    BY DEF HolderOf, LiveLines
  <2>2. h \in HolderOf(n)
    BY <1>1, <2>1, FirstOf
  <2>3. Offered(n) = {h}
    BY <1>1 DEF Offered
  <2> HIDE DEF h
  <2>4. l = h /\ h \in LiveLines /\ line[h].lane = n
    BY <2>2, <2>3 DEF HolderOf
  <2>5. FreeBut(line, n, h)
    BY <2>4 DEF FreeBut, Distinct, LiveLines
  <2> QED BY <2>3, <2>4, <2>5
<1>2. CASE HolderOf(n) = {}
  <2>1. Offered(n) = {g \in LiveLines : Cardinality({h \in LiveLines : h <= g}) = n}
    BY <1>2 DEF Offered
  <2>2. \A m \in Offered(n) : m = l
    BY <2>1, PlacesDiffer
  <2>3. FreeBut(line, n, l)
    BY <1>2 DEF FreeBut, HolderOf, LiveLines
  <2> QED BY <2>1, <2>2, <2>3
<1> QED BY <1>1, <1>2

\* The plan of a link gives each lane to one line and each line one lane.
LEMMA PlanRight ==
  ASSUME Distinct(line)
  PROVE  /\ \A x \in buildVerification :
              line[x[2]].st = "live" /\ FreeBut(line, x[1], x[2])
         /\ \A x, y \in buildVerification : x # y => x[2] # y[2] /\ x[1] # y[1]
<1>1. \A x \in buildVerification :
        /\ x = <<x[1], x[2]>> /\ x[1] \in Lanes
        /\ x[2] \in Offered(x[1])
        /\ \A m \in 1 .. x[1] - 1 : x[2] \notin Offered(m)
  BY DEF buildVerification
<1>2. \A x \in buildVerification : line[x[2]].st = "live" /\ FreeBut(line, x[1], x[2])
  BY <1>1, OfferedOnce DEF LiveLines
<1>3. Lanes = 1 .. NLanes /\ NLanes \in Nat
  BY MastersAssumption DEF Lanes
<1>4. ASSUME NEW x \in buildVerification, NEW y \in buildVerification, x[1] = y[1]
      PROVE  x = y
  <2>1. x[2] = y[2]
    BY <1>1, <1>4, OfferedOnce
  <2> QED BY <1>1, <1>4, <2>1
<1>5. ASSUME NEW x \in buildVerification, NEW y \in buildVerification, x[2] = y[2]
      PROVE  x[1] = y[1]
  <2>1. ~ (x[1] < y[1])
    BY <1>1, <1>3, <1>5
  <2>2. ~ (y[1] < x[1])
    BY <1>1, <1>3, <1>5
  <2> QED BY <1>1, <1>3, <2>1, <2>2
<1> QED BY <1>2, <1>4, <1>5

LEMMA LinkBranchRules ==
  ASSUME TypesInv, RulesInv, NEW r \in Requests, LinkBranch(r)
  PROVE  RulesInv'
<1> DEFINE q == req[r]
           plan == IF q.at = Home THEN buildVerification ELSE {}
           new == [q EXCEPT !.pc = "lanes", !.plan = plan]
<1>1. q \in MasterReq /\ Shape(q) /\ q.pc = "link" /\ q.at \in Centres
  BY OldTypes DEF LinkBranch, Shape, CentreSteps
<1>2. CASE Goto(r, Idle)
  <2>1. Idle \in MasterReq /\ LaneStep(line, Idle) /\ BranchStep(centre, Idle)
    BY IdleShape, NothingRead DEF Idle
  <2>2. req' = [req EXCEPT ![r] = Idle] /\ Idle.pc \notin Writing
    BY <1>2 DEF Goto, Idle, Writing
  <2> QED BY <1>1, <2>1, <2>2, Quiet DEF LinkBranch
<1>3. CASE /\ centre[q.at].live
           /\ \A k \in Centres \ {q.at} : ~ (centre[k].live /\ centre[k].linked)
           /\ Goto(r, new)
  <2>1. plan \in SUBSET ((0 .. NLanes) \X Lines)
    BY PlanTypes
  <2>2. ASSUME "lane" \notin loose
        PROVE  /\ \A x \in plan : line[x[2]].st = "live" /\ FreeBut(line, x[1], x[2])
               /\ \A x, y \in plan : x # y => x[2] # y[2] /\ x[1] # y[1]
    <3>1. Distinct(line)
      BY <1>1, <2>2, DistinctNow DEF Writing
    <3> QED BY <3>1, PlanRight
  <2> HIDE DEF plan
  <2>3. new \in MasterReq
    BY <1>1, <2>1, LaterAtCentre DEF CentreSteps
  <2>4. new.pc = "lanes" /\ new.at = q.at /\ new.plan = plan
    BY <1>1 DEF MasterReq
  <2>5. req'[r] = new
    BY <1>3, OldTypes DEF Goto
  <2> HIDE DEF new
  <2>6. BranchStep(centre, new)
    BY <1>3, <2>4 DEF BranchStep, BranchOf
  <2>7. ASSUME "lane" \notin loose
        PROVE  HeldOnce(line', req') /\ LaneStep(line', new)
    <3>1. Distinct(line)
      BY <1>1, <2>7, DistinctNow DEF Writing
    <3>2. line' = line
      BY DEF LinkBranch
    <3> QED BY <2>2, <2>4, <2>7, <3>1, <3>2, DistinctHeldOnce DEF LaneStep
  <2> QED BY <1>1, <1>3, <2>3, <2>6, <2>7, LineWritten DEF LinkBranch, Writing
<1> QED BY <1>2, <1>3 DEF LinkBranch

LEMMA UnlinkBranchRules ==
  ASSUME TypesInv, RulesInv, NEW r \in Requests, UnlinkBranch(r)
  PROVE  RulesInv'
<1> DEFINE q == req[r]
           plan == IF q.at = Home
                   THEN {<<0, l>> : l \in {g \in LiveLines : line[g].lane # 0}}
                   ELSE {}
           new == [q EXCEPT !.pc = "lanes", !.plan = plan]
<1>1. q \in MasterReq /\ Shape(q) /\ q.pc = "link" /\ q.op = "unlink" /\ q.at \in Centres
  BY OldTypes DEF UnlinkBranch, Shape, CentreSteps
<1>2. plan \in SUBSET ((0 .. NLanes) \X Lines)
  BY PlanTypes
<1>3. \A x \in plan : x = <<0, x[2]>> /\ line[x[2]].st = "live"
  BY DEF LiveLines
<1>4. Goto(r, new)
  BY DEF UnlinkBranch
<1> HIDE DEF plan
<1>5. new \in MasterReq
  BY <1>1, <1>2, LaterAtCentre DEF CentreSteps
<1>6. new.pc = "lanes" /\ new.op = "unlink" /\ new.plan = plan
  BY <1>1 DEF MasterReq
<1> HIDE DEF new
<1>7. LaneStep(line, new)
  <2>1. \A x \in plan : FreeBut(line, x[1], x[2])
    BY <1>3 DEF FreeBut
  <2>2. \A x, y \in plan : x # y => x[2] # y[2] /\ (x[1] = y[1] => x[1] = 0)
    BY <1>3
  <2> QED BY <1>3, <1>6, <2>1, <2>2 DEF LaneStep
<1>8. BranchStep(centre', new)
  BY <1>6 DEF BranchStep
<1>9. ASSUME "branch" \notin loose
      PROVE  OwnedOnce(centre')
  <2>1. OwnedOnce(centre)
    BY <1>9 DEF RulesInv, BranchInv
  <2>2. /\ \A k \in Centres \ {q.at} : centre'[k] = centre[k]
        /\ ~ centre'[q.at].linked
    BY <1>1, OldTypes DEF UnlinkBranch, CentreRow
  <2> QED BY <2>1, <2>2 DEF OwnedOnce
<1> QED BY <1>1, <1>4, <1>5, <1>7, <1>8, <1>9, CentreWritten DEF UnlinkBranch, Writing

\* One line gets its lane, which no other has; the rest of the plan stands.
LEMMA SaveLaneRules ==
  ASSUME TypesInv, RulesInv, NEW r \in Requests, SaveLane(r)
  PROVE  RulesInv'
<1> DEFINE q == req[r]
<1>1. q \in MasterReq /\ Shape(q) /\ q.pc = "lanes" /\ q.pc \in CentreSteps
  BY OldTypes DEF SaveLane, CentreSteps
<1>2. PICK x \in q.plan :
        /\ line' = [line EXCEPT ![x[2]] = [st |-> "live", lane |-> x[1]]]
        /\ Goto(r, [q EXCEPT !.plan = q.plan \ {x}])
  BY DEF SaveLane
<1>3. q.plan \in SUBSET ((0 .. NLanes) \X Lines)
  BY <1>1 DEF MasterReq
<1>4. x[1] \in 0 .. NLanes /\ x[2] \in Lines
  BY <1>3
<1> DEFINE new == [q EXCEPT !.plan = q.plan \ {x}]
<1>5. new \in MasterReq
  BY <1>1, <1>3, LaterAtCentre
<1>6. new.pc = "lanes" /\ new.op = q.op /\ new.at = q.at /\ new.plan = q.plan \ {x}
  BY <1>1 DEF MasterReq
<1>7. Goto(r, new)
  BY <1>2
<1> HIDE DEF new
<1>8. ASSUME "branch" \notin loose
      PROVE  BranchStep(centre, new)
  BY <1>1, <1>6, <1>8 DEF RulesInv, BranchInv, BranchStep
<1>9. ASSUME "lane" \notin loose
      PROVE  HeldOnce(line', req') /\ LaneStep(line', new)
  <2>1. LaneStep(line, q)
    BY <1>9 DEF RulesInv, LaneInv
  <2>2. /\ \A y \in q.plan : line[y[2]].st = "live" /\ FreeBut(line, y[1], y[2])
        /\ \A y, z \in q.plan : y # z => y[2] # z[2] /\ (y[1] = z[1] => y[1] = 0)
    BY <1>1, <2>1 DEF LaneStep
  <2>3. Distinct(line)
    BY <1>1, <1>9, DistinctNow DEF Writing
  <2>4. /\ \A g \in Lines \ {x[2]} : line'[g] = line[g]
        /\ line'[x[2]].st = "live" /\ line'[x[2]].lane = x[1]
    BY <1>2, <1>4, OldTypes
  <2>5. Distinct(line')
    BY <1>4, <2>2, <2>3, <2>4 DEF Distinct, FreeBut
  <2>6. ASSUME NEW y \in q.plan \ {x}
        PROVE  line'[y[2]].st = "live" /\ FreeBut(line', y[1], y[2])
    <3>1. y[2] # x[2] /\ (y[1] = x[1] => y[1] = 0) /\ y[2] \in Lines
      BY <1>3, <2>2
    <3> QED BY <1>4, <2>2, <2>4, <3>1 DEF FreeBut
  <2> QED BY <1>6, <2>2, <2>5, <2>6, DistinctHeldOnce DEF LaneStep
<1> QED BY <1>1, <1>5, <1>7, <1>8, <1>9, LineWritten DEF SaveLane, Writing

LEMMA EndLanesRules ==
  ASSUME TypesInv, RulesInv, NEW r \in Requests, EndLanes(r)
  PROVE  RulesInv'
<1> DEFINE q == req[r]
<1>1. q \in MasterReq /\ Shape(q) /\ q.pc = "lanes" /\ q.pc \in CentreSteps
  BY OldTypes DEF EndLanes, CentreSteps
<1>2. PICK new \in {Idle, [q EXCEPT !.pc = "centre"]} :
        Goto(r, new) /\ (new = Idle \/ q.op = "link")
  BY DEF EndLanes
<1>3. new \in MasterReq /\ new.pc \in {"idle", "centre"}
      /\ (new.pc = "centre" => new.at = q.at /\ q.op = "link")
  <2>1. CASE new = Idle
    BY <2>1, IdleShape DEF Idle
  <2>2. CASE new = [q EXCEPT !.pc = "centre"] /\ q.op = "link"
    BY <1>1, <2>2 DEF MasterReq
  <2> QED BY <1>2, <2>1, <2>2
<1>4. LaneStep(line, new)
  BY <1>3 DEF LaneStep
<1>5. ASSUME "branch" \notin loose
      PROVE  OwnedOnce(centre) /\ BranchStep(centre, new)
  BY <1>1, <1>3, <1>5 DEF RulesInv, BranchInv, BranchStep
<1>6. centre' = centre
  BY DEF EndLanes
<1> QED BY <1>1, <1>2, <1>3, <1>4, <1>5, <1>6, CentreWritten DEF EndLanes, Writing

LEMMA StoreBranchRules ==
  ASSUME TypesInv, RulesInv, NEW r \in Requests, StoreBranch(r)
  PROVE  RulesInv'
<1> DEFINE q == req[r]
<1>1. q.pc = "centre" /\ q.at \in Centres /\ Goto(r, Idle)
  BY OldTypes DEF StoreBranch, Shape, CentreSteps
<1>2. Idle \in MasterReq /\ LaneStep(line, Idle) /\ BranchStep(centre', Idle)
  BY IdleShape, NothingRead DEF Idle
<1>3. ASSUME "branch" \notin loose
      PROVE  OwnedOnce(centre')
  <2>1. BranchOf(centre, q.at)
    BY <1>1, <1>3 DEF RulesInv, BranchInv, BranchStep
  <2>2. \A k \in Centres \ {q.at} : centre'[k] = centre[k]
    BY <1>1, OldTypes DEF StoreBranch
  <2> QED BY <2>1, <2>2 DEF OwnedOnce, BranchOf
<1> QED BY <1>1, <1>2, <1>3, CentreWritten DEF StoreBranch, Writing

LEMMA CloseCentreRules ==
  ASSUME TypesInv, RulesInv, NEW r \in Requests, CloseCentre(r)
  PROVE  RulesInv'
<1> DEFINE q == req[r]
<1>1. q.pc = "close" /\ q.at \in Centres /\ Goto(r, Idle)
  BY OldTypes DEF CloseCentre, Shape, CentreSteps
<1>2. Idle \in MasterReq /\ LaneStep(line, Idle) /\ BranchStep(centre', Idle)
  BY IdleShape, NothingRead DEF Idle
<1>3. ASSUME "branch" \notin loose
      PROVE  OwnedOnce(centre')
  <2>1. OwnedOnce(centre)
    BY <1>3 DEF RulesInv, BranchInv
  <2>2. /\ \A k \in Centres \ {q.at} : centre'[k] = centre[k]
        /\ ~ centre'[q.at].live
    BY <1>1, OldTypes DEF CloseCentre
  <2> QED BY <2>1, <2>2 DEF OwnedOnce
<1> QED BY <1>1, <1>2, <1>3, CentreWritten DEF CloseCentre, Writing

LEMMA CutMastersRules ==
  ASSUME TypesInv, RulesInv, NEW r \in Requests, CutMasters(r)
  PROVE  RulesInv'
<1>1. /\ req' = [req EXCEPT ![r] = Idle] /\ UNCHANGED <<centre, line>>
      /\ loose \subseteq loose' /\ loose' \subseteq {"lane", "branch"}
      /\ req[r].pc = "write" => "lane" \in loose' \/ req[r].other = 0
  BY OldTypes DEF CutMasters
<1>2. /\ Idle \in MasterReq /\ Idle.pc \notin Writing
      /\ LaneStep(line, Idle) /\ BranchStep(centre, Idle)
  BY IdleShape, NothingRead DEF Idle, Writing
<1>3. OneWriter'
  BY <1>1, <1>2, OneWriterKept DEF RulesInv
<1>4. LaneInv'
  BY <1>1, <1>2, SameLines DEF RulesInv
<1>5. BranchInv'
  BY <1>1, <1>2, SameCentres DEF RulesInv
<1> QED BY <1>3, <1>4, <1>5 DEF RulesInv

\* The steps of a request about a device.
LEMMA DeviceRules ==
  ASSUME TypesInv, TypesInv', RulesInv, NEW r \in Requests,
         UNCHANGED <<centre, line, loose>>,
         \E new : /\ req' = [req EXCEPT ![r] = new]
                  /\ new.pc \in DeviceSteps \union {"idle"},
         req[r].pc \in DeviceSteps \union {"idle"}
  PROVE  RulesInv'
<1>1. PICK new : /\ req' = [req EXCEPT ![r] = new]
                 /\ new.pc \in DeviceSteps \union {"idle"}
  OBVIOUS
<1>2. req'[r] = new
  BY <1>1, OldTypes
<1>3. new \in MasterReq
  BY <1>2 DEF TypesInv, TypeOKMasters, MasterReq
<1>4. new.pc \notin Writing /\ req[r].pc # "write"
  BY <1>1 DEF Writing, DeviceSteps
<1> QED BY <1>1, <1>3, <1>4, Quiet

LEMMA StartDeviceRules ==
  ASSUME TypesInv, TypesInv', RulesInv, NEW r \in Requests, NEW d \in Devices,
         NEW L \in SUBSET Lines,
         CreateDevice(r, d, L) \/ EditDevice(r, d, L) \/ RemoveDevice(r, d)
  PROVE  RulesInv'
<1>1. CASE CreateDevice(r, d, L)
  <2> DEFINE new == [Idle EXCEPT !.pc = "save", !.op = "create", !.at = d,
                                 !.plan = {0} \X L]
  <2>1. new.pc = "save"
    BY DEF Idle
  <2>2. req' = [req EXCEPT ![r] = new] /\ req[r].pc = "idle"
        /\ UNCHANGED <<centre, line, loose>>
    BY <1>1 DEF CreateDevice, Begin, Ready
  <2> HIDE DEF new
  <2> QED BY <2>1, <2>2, DeviceRules DEF DeviceSteps
<1>2. CASE EditDevice(r, d, L)
  <2>1. PICK step \in {"deviceRow", "unmap", "insert"} :
          Begin(r, [Idle EXCEPT !.pc = step, !.op = "edit", !.at = d,
                      !.plan = IF step = "deviceRow" THEN {} ELSE {0} \X L])
    BY <1>2, EditBegins
  <2> DEFINE new == [Idle EXCEPT !.pc = step, !.op = "edit", !.at = d,
                       !.plan = IF step = "deviceRow" THEN {} ELSE {0} \X L]
  <2>2. new.pc = step
    BY DEF Idle
  <2>3. req' = [req EXCEPT ![r] = new] /\ req[r].pc = "idle"
        /\ UNCHANGED <<centre, line, loose>>
    BY <1>2, <2>1 DEF EditDevice, Begin, Ready
  <2> HIDE DEF new
  <2> QED BY <2>2, <2>3, DeviceRules DEF DeviceSteps
<1>3. CASE RemoveDevice(r, d)
  <2> DEFINE new == [Idle EXCEPT !.pc = "dropDevice", !.at = d]
  <2>1. new.pc = "dropDevice"
    BY DEF Idle
  <2>2. req' = [req EXCEPT ![r] = new] /\ req[r].pc = "idle"
        /\ UNCHANGED <<centre, line, loose>>
    BY <1>3 DEF RemoveDevice, Begin, Ready
  <2> HIDE DEF new
  <2> QED BY <2>1, <2>2, DeviceRules DEF DeviceSteps
<1> QED BY <1>1, <1>2, <1>3

\* Where a request about a device goes from one of its steps.
LEMMA DeviceGoes ==
  ASSUME TypesInv, NEW r \in Requests,
         \/ UnmapCamera(r) \/ InsertCameraLines(r) \/ ReplacePcLines(r)
         \/ SaveDeviceRow(r) \/ SaveDevice(r) \/ DropDevice(r) \/ ReleaseLines(r)
  PROVE  /\ req[r].pc \in DeviceSteps
         /\ UNCHANGED <<centre, line, loose, job, calls, cuts>>
         /\ \/ req' = [req EXCEPT ![r] = Idle]
            \/ \E s \in DeviceSteps \ {"save"} : \E P \in {{}, req[r].plan} :
                 /\ req' = [req EXCEPT ![r] = [req[r] EXCEPT !.pc = s, !.plan = P]]
                 /\ s = "insert" => P = req[r].plan /\ P # {}
<1>1. req[r] \in MasterReq
  BY OldTypes
<1>2. \A s \in DeviceSteps :
        [req[r] EXCEPT !.pc = s] = [req[r] EXCEPT !.pc = s, !.plan = req[r].plan]
  BY <1>1 DEF MasterReq
<1>3. CASE UnmapCamera(r)
  <2>1. PICK s \in {"deviceRow", "insert"} :
          /\ req' = [req EXCEPT ![r] = [req[r] EXCEPT !.pc = s]]
          /\ s = "insert" => req[r].plan # {}
    BY <1>3 DEF UnmapCamera, Goto
  <2>2. s \in DeviceSteps \ {"save"}
    BY DEF DeviceSteps
  <2> QED BY <1>2, <1>3, <2>1, <2>2 DEF UnmapCamera, DeviceSteps, Goto
<1>4. ASSUME NEW L, Mapped(r, L)
      PROVE  \/ req' = [req EXCEPT ![r] = Idle]
             \/ req' = [req EXCEPT ![r] =
                          [req[r] EXCEPT !.pc = "deviceRow", !.plan = {}]]
  BY <1>4 DEF Mapped, Goto
<1>5. "deviceRow" \in DeviceSteps \ {"save"} /\ "release" \in DeviceSteps \ {"save"}
      /\ "insert" \in DeviceSteps \ {"save"}
  BY DEF DeviceSteps
<1>6. CASE InsertCameraLines(r)
  <2>1. req[r].pc \in DeviceSteps /\ UNCHANGED <<centre, line, loose, job, calls, cuts>>
    BY <1>6 DEF InsertCameraLines, DeviceSteps, Mapped, Goto
  <2>2. \/ Goto(r, Idle)
        \/ Mapped(r, {x[2] : x \in req[r].plan})
    BY <1>6 DEF InsertCameraLines
  <2> QED BY <1>4, <1>5, <2>1, <2>2 DEF Goto
<1>7. CASE ReplacePcLines(r)
  <2>1. req[r].pc \in DeviceSteps /\ UNCHANGED <<centre, line, loose, job, calls, cuts>>
    BY <1>7 DEF ReplacePcLines, DeviceSteps, Mapped, Goto
  <2>2. \/ Goto(r, Idle)
        \/ Mapped(r, {x[2] : x \in req[r].plan})
    BY <1>7 DEF ReplacePcLines
  <2> QED BY <1>4, <1>5, <2>1, <2>2 DEF Goto
<1>8. CASE SaveDeviceRow(r) \/ ReleaseLines(r)
  BY <1>8 DEF SaveDeviceRow, ReleaseLines, DeviceSteps, Goto
<1>9. CASE SaveDevice(r)
  <2>1. \/ req' = [req EXCEPT ![r] = Idle]
        \/ /\ req' = [req EXCEPT ![r] = [req[r] EXCEPT !.pc = "insert"]]
           /\ req[r].plan # {}
    BY <1>9 DEF SaveDevice, Goto
  <2> QED BY <1>2, <1>5, <1>9, <2>1 DEF SaveDevice, DeviceSteps, Goto
<1>10. CASE DropDevice(r)
  BY <1>2, <1>5, <1>10 DEF DropDevice, DeviceSteps, Goto
<1> QED BY <1>3, <1>6, <1>7, <1>8, <1>9, <1>10

LEMMA DeviceStepRules ==
  ASSUME TypesInv, TypesInv', RulesInv, NEW r \in Requests,
         \/ UnmapCamera(r) \/ InsertCameraLines(r) \/ ReplacePcLines(r)
         \/ SaveDeviceRow(r) \/ SaveDevice(r) \/ DropDevice(r) \/ ReleaseLines(r)
  PROVE  RulesInv'
<1>1. /\ req[r].pc \in DeviceSteps
      /\ UNCHANGED <<centre, line, loose, job, calls, cuts>>
      /\ \/ req' = [req EXCEPT ![r] = Idle]
         \/ \E s \in DeviceSteps \ {"save"} : \E P \in {{}, req[r].plan} :
              req' = [req EXCEPT ![r] = [req[r] EXCEPT !.pc = s, !.plan = P]]
  BY DeviceGoes
<1>2. Idle.pc = "idle" /\ req[r] \in MasterReq
  BY OldTypes DEF Idle
<1>3. \A s, P : [req[r] EXCEPT !.pc = s, !.plan = P].pc = s
  BY <1>2 DEF MasterReq
<1>4. \E new : req' = [req EXCEPT ![r] = new] /\ new.pc \in DeviceSteps \union {"idle"}
  <2>1. CASE req' = [req EXCEPT ![r] = Idle]
    BY <1>2, <2>1
  <2>2. ASSUME NEW s \in DeviceSteps, NEW P,
               req' = [req EXCEPT ![r] = [req[r] EXCEPT !.pc = s, !.plan = P]]
        PROVE  \E new : /\ req' = [req EXCEPT ![r] = new]
                        /\ new.pc \in DeviceSteps \union {"idle"}
    <3> DEFINE new == [req[r] EXCEPT !.pc = s, !.plan = P]
    <3>1. new.pc = s
      BY <1>3
    <3>2. req' = [req EXCEPT ![r] = new]
      BY <2>2
    <3> HIDE DEF new
    <3> QED BY <3>1, <3>2
  <2> QED BY <1>1, <2>1, <2>2
<1> QED BY <1>1, <1>4, DeviceRules

\* A job that is opened changes no step of a request.
LEMMA OpenJobSteps ==
  ASSUME TypesInv, NEW j \in Jobs, NEW l \in 0 .. NLines, OpenJob(j, l),
         NEW r \in Requests
  PROVE  /\ req'[r].pc = req[r].pc /\ req'[r].op = req[r].op /\ req'[r].at = req[r].at
         /\ req'[r].want = req[r].want /\ req'[r].was = req[r].was
         /\ req'[r].flag = req[r].flag /\ req'[r].other = req[r].other
         /\ req'[r].plan = req[r].plan
         /\ req'[r].opened = IF req[r].pc \in {"swap", "write"} /\ l # 0
                             THEN req[r].opened \union {l} ELSE req[r].opened
<1>1. req[r] \in MasterReq
  BY OldTypes
<1>2. req'[r] = IF req[r].pc \in {"swap", "write"} /\ l # 0
                THEN [req[r] EXCEPT !.opened = req[r].opened \union {l}] ELSE req[r]
  BY DEF OpenJob
<1> QED BY <1>1, <1>2 DEF MasterReq

LEMMA OpenJobRules ==
  ASSUME TypesInv, RulesInv, NEW j \in Jobs, NEW l \in 0 .. NLines, OpenJob(j, l)
  PROVE  RulesInv'
<1>1. UNCHANGED <<centre, line, loose>>
  BY DEF OpenJob
<1>2. OneWriter'
  BY <1>1, OpenJobSteps DEF OneWriter, RulesInv
<1>3. ASSUME NEW r \in Requests
      PROVE  /\ LaneStep(line, req[r]) => LaneStep(line, req'[r])
             /\ BranchStep(centre, req[r]) => BranchStep(centre, req'[r])
             /\ \A a, b : HalfWay(req[r], a, b) => HalfWay(req'[r], a, b)
  BY OpenJobSteps DEF LaneStep, BranchStep, HalfWay
<1>4. LaneInv'
  BY <1>1, <1>3 DEF LaneInv, RulesInv, HeldOnce
<1>5. BranchInv'
  BY <1>1, <1>3 DEF BranchInv, RulesInv
<1> QED BY <1>2, <1>4, <1>5 DEF RulesInv

-----------------------------------------------------------------------------
(* Devices and removed lines.                                              *)

\* A device in use is on line l.
InUse(dv, hd, l) == \E d \in Devices : dv[d] = "live" /\ <<d, l>> \in hd

\* The lines a request is about to map a device to.
MapOf(q) == IF q.pc \in {"save", "unmap", "insert"} THEN {x[2] : x \in q.plan} ELSE {}

\* A line that is removed, or checked to be, is in use only if it is noted.
FreeInv ==
  /\ \A l \in Lines : line[l].st = "deleted" /\ InUse(device, held, l) => l \in late
  /\ \A r \in Requests : req[r].pc = "drop" /\ InUse(device, held, req[r].at) => req[r].at \in late
  /\ \A r \in Requests : \A l \in MapOf(req[r]) : line[l].st = "deleted" => l \in late

\* A device that is not there yet has no lines, and one request creates it.
CreatedInv ==
  /\ \A d \in Devices : device[d] = "none" => \A l \in Lines : <<d, l>> \notin held
  /\ \A r \in Requests :
       /\ req[r].pc \in DeviceSteps \ {"save"} => device[req[r].at] # "none"
       /\ req[r].pc = "save" => req[r].op = "create" /\ device[req[r].at] = "none"
  /\ \A r, q \in Requests :
       req[r].op = "create" /\ req[q].op = "create" /\ req[r].at = req[q].at => r = q

DeviceInv == FreeInv /\ CreatedInv

LEMMA MappingIs ==
  ASSUME NEW r \in Requests
  PROVE  Mapping(r) = MapOf(req[r])
BY DEF Mapping, MapOf

\* A step that puts no device on a line.
LEMMA FreeKept ==
  ASSUME TypesInv, DeviceInv, NEW r \in Requests, NEW new \in MasterReq,
         req' = [req EXCEPT ![r] = new],
         device' = device, held' \subseteq held, late \subseteq late',
         \A l \in Lines : line'[l].st = "deleted" => line[l].st = "deleted",
         new.pc = "drop" => ~ InUse(device, held, new.at),
         \A l \in MapOf(new) : line[l].st = "deleted" => l \in late,
         new.pc \in DeviceSteps \ {"save"} => device[new.at] # "none",
         new.pc = "save" => new.op = "create" /\ device[new.at] = "none",
         new.op = "create" =>
           \A q \in Requests \ {r} : req[q].op = "create" => req[q].at # new.at
  PROVE  DeviceInv'
<1>1. /\ req \in [Requests -> MasterReq]
      /\ req'[r] = new /\ \A q \in Requests \ {r} : req'[q] = req[q]
  BY OldTypes
<1>2. \A l : InUse(device', held', l) => InUse(device, held, l)
  BY DEF InUse
<1>3. (\A l \in Lines : line[l].st = "deleted" /\ InUse(device, held, l) => l \in late)'
  BY <1>2 DEF DeviceInv, FreeInv
<1>4. ASSUME NEW q \in Requests, req'[q].pc = "drop", InUse(device', held', req'[q].at)
      PROVE  req'[q].at \in late'
  <2>1. CASE q = r
    BY <1>1, <1>2, <1>4, <2>1
  <2>2. CASE q # r
    <3>1. req'[q] = req[q]
      BY <1>1, <2>2
    <3> QED BY <1>2, <1>4, <3>1 DEF DeviceInv, FreeInv
  <2> QED BY <2>1, <2>2
<1>5. ASSUME NEW q \in Requests, NEW l \in MapOf(req'[q]), line'[l].st = "deleted"
      PROVE  l \in late'
  <2>1. req'[q] \in MasterReq
    BY <1>1
  <2>2. l \in Lines
    BY <1>5, <2>1, PlanLines DEF MapOf
  <2>3. line[l].st = "deleted"
    BY <1>5, <2>2
  <2>4. CASE q = r
    BY <1>1, <1>5, <2>3, <2>4
  <2>5. CASE q # r
    <3>1. req'[q] = req[q]
      BY <1>1, <2>5
    <3> QED BY <1>5, <2>3, <3>1 DEF DeviceInv, FreeInv
  <2> QED BY <2>4, <2>5
<1>6. FreeInv'
  BY <1>3, <1>4, <1>5 DEF FreeInv, MapOf
<1>7. CreatedInv'
  <2>1. (\A d \in Devices : device[d] = "none" => \A l \in Lines : <<d, l>> \notin held)'
    BY DEF DeviceInv, CreatedInv
  <2>2. ASSUME NEW q \in Requests
        PROVE  /\ req'[q].pc \in DeviceSteps \ {"save"} => device[req'[q].at] # "none"
               /\ req'[q].pc = "save" => req'[q].op = "create" /\ device[req'[q].at] = "none"
    BY <1>1 DEF DeviceInv, CreatedInv
  <2>3. ASSUME NEW p \in Requests, NEW q \in Requests,
               req'[p].op = "create", req'[q].op = "create", req'[p].at = req'[q].at
        PROVE  p = q
    BY <1>1, <2>3 DEF DeviceInv, CreatedInv
  <2> QED BY <2>1, <2>2, <2>3 DEF CreatedInv
<1> QED BY <1>6, <1>7 DEF DeviceInv

\* A request that is not about a device and does not remove a line.
LEMMA AsideKept ==
  ASSUME TypesInv, TypesInv', DeviceInv, NEW r \in Requests,
         \E new : /\ req' = [req EXCEPT ![r] = new]
                  /\ new.pc \notin DeviceSteps \union {"drop"},
         UNCHANGED <<device, held, late>>,
         \A l \in Lines : line'[l].st = "deleted" => line[l].st = "deleted"
  PROVE  DeviceInv'
<1>1. PICK new : /\ req' = [req EXCEPT ![r] = new]
                 /\ new.pc \notin DeviceSteps \union {"drop"}
  OBVIOUS
<1>2. req'[r] = new
  BY <1>1, OldTypes
<1>3. new \in MasterReq /\ Shape(new)
  BY <1>2 DEF TypesInv, TypeOKMasters, MasterReq, ShapeInv
<1>4. new.op # "create" /\ MapOf(new) = {} /\ new.pc # "save" /\ new.pc # "drop"
  BY <1>1, <1>3 DEF Shape, MapOf, DeviceSteps
<1> QED BY <1>1, <1>3, <1>4, FreeKept

\* Where a request about lines or centres goes.
LEMMA AsideSteps ==
  ASSUME TypesInv, NEW r \in Requests,
         \/ SaveLine(r) \/ CheckLane(r) \/ SwapHolder(r) \/ WriteLane(r)
         \/ SaveColumns(r) \/ LinkBranch(r) \/ UnlinkBranch(r) \/ SaveLane(r)
         \/ EndLanes(r) \/ StoreBranch(r) \/ CloseCentre(r)
  PROVE  /\ \E new : /\ req' = [req EXCEPT ![r] = new]
                     /\ new.pc \notin DeviceSteps \union {"drop"}
         /\ UNCHANGED <<device, held, late, job, calls, cuts>>
         /\ \A l \in Lines : line'[l].st = "deleted" => line[l].st = "deleted"
<1> DEFINE q == req[r]
           Aside == {"assign", "write", "swap", "link", "lanes", "centre"}
           Next1(s) == [q EXCEPT !.pc = s]
           Next2(P) == [q EXCEPT !.pc = "lanes", !.plan = P]
           Next3(P) == [q EXCEPT !.plan = P]
           Next4(w, o) == [q EXCEPT !.pc = "swap", !.was = w, !.other = o]
<1>1. q \in MasterReq /\ Shape(q) /\ Idle.pc = "idle"
  BY OldTypes DEF Idle
<1>2. /\ \A s : Next1(s).pc = s
      /\ \A P : Next2(P).pc = "lanes" /\ Next3(P).pc = q.pc
      /\ \A w, o : Next4(w, o).pc = "swap"
  BY <1>1 DEF MasterReq
<1>3. \A s \in Aside \union {"idle"} : s \notin DeviceSteps \union {"drop"}
  BY DEF DeviceSteps
<1> HIDE DEF Next1, Next2, Next3, Next4
<1>4. \E new : /\ req' = [req EXCEPT ![r] = new]
               /\ \/ new = Idle \/ (\E s \in Aside : new = Next1(s))
                  \/ (\E P : new = Next2(P))
                  \/ (\E P : new = Next3(P) /\ q.pc = "lanes")
                  \/ (\E w, o : new = Next4(w, o))
  <2>1. CASE SaveLine(r)
    BY <2>1 DEF SaveLine, Goto, Next1
  <2>2. CASE CheckLane(r)
    <3>1. \/ Goto(r, Idle)
          \/ Goto(r, Next1("write"))
          \/ \E w, o : Goto(r, Next4(w, o))
      BY <2>2 DEF CheckLane, Next1, Next4
    <3> QED BY <3>1 DEF Goto
  <2>3. CASE SwapHolder(r) \/ WriteLane(r)
    BY <2>3 DEF SwapHolder, WriteLane, Goto, Next1
  <2>4. CASE SaveColumns(r) \/ EndLanes(r)
    BY <2>4 DEF SaveColumns, EndLanes, Goto, Next1
  <2>5. CASE LinkBranch(r) \/ UnlinkBranch(r)
    BY <2>5 DEF LinkBranch, UnlinkBranch, Goto, Next2
  <2>6. CASE SaveLane(r)
    BY <2>6 DEF SaveLane, Goto, Next3
  <2>7. CASE StoreBranch(r) \/ CloseCentre(r)
    BY <2>7 DEF StoreBranch, CloseCentre, Goto
  <2> QED BY <2>1, <2>2, <2>3, <2>4, <2>5, <2>6, <2>7
<1>5. \E new : req' = [req EXCEPT ![r] = new] /\ new.pc \notin DeviceSteps \union {"drop"}
  <2>1. PICK new : /\ req' = [req EXCEPT ![r] = new]
                   /\ \/ new = Idle \/ (\E s \in Aside : new = Next1(s))
                      \/ (\E P : new = Next2(P))
                      \/ (\E P : new = Next3(P) /\ q.pc = "lanes")
                      \/ (\E w, o : new = Next4(w, o))
    BY <1>4
  <2>2. new.pc \in Aside \union {"idle"}
    BY <1>1, <1>2, <2>1
  <2> QED BY <1>3, <2>1, <2>2
<1>6. UNCHANGED <<device, held, late, job, calls, cuts>>
  BY DEF SaveLine, CheckLane, SwapHolder, WriteLane, SaveColumns, LinkBranch, UnlinkBranch,
         SaveLane, EndLanes, StoreBranch, CloseCentre, Goto
<1>7. \/ line' = line
      \/ \E l, n : line' = [line EXCEPT ![l] = [st |-> "live", lane |-> n]]
  BY DEF SaveLine, CheckLane, SwapHolder, WriteLane, SaveColumns, LinkBranch, UnlinkBranch,
         SaveLane, EndLanes, StoreBranch, CloseCentre
<1>8. \A l \in Lines : line'[l].st = "deleted" => line[l].st = "deleted"
  BY <1>7, OldTypes
<1> QED BY <1>5, <1>6, <1>8

LEMMA LineBeginsFree ==
  ASSUME TypesInv, TypesInv', DeviceInv, NEW r \in Requests, NEW l \in Lines,
         NEW n \in 0 .. NLanes, NEW b \in BOOLEAN,
         CreateLine(r, l, n) \/ EditLine(r, l, n, b)
  PROVE  DeviceInv'
<1>1. UNCHANGED <<device, held, late>>
  BY DEF CreateLine, EditLine
<1>2. CASE CreateLine(r, l, n)
  <2>1. \A g \in Lines : line'[g].st = "deleted" => line[g].st = "deleted"
    BY <1>2, OldTypes DEF CreateLine
  <2>2. req' = [req EXCEPT ![r] = Idle] /\ Idle.pc \notin DeviceSteps \union {"drop"}
    BY <1>2 DEF CreateLine, Begin, Idle, DeviceSteps
  <2> QED BY <1>1, <2>1, <2>2, AsideKept
<1>3. CASE EditLine(r, l, n, b)
  <2> DEFINE new == [Idle EXCEPT !.pc = "row", !.at = l, !.want = n,
                                 !.was = line[l].lane, !.flag = b]
  <2>1. new.pc \notin DeviceSteps \union {"drop"}
    BY DEF Idle, DeviceSteps
  <2>2. req' = [req EXCEPT ![r] = new] /\ line' = line
    BY <1>3 DEF EditLine, BeginWriting, Begin
  <2> HIDE DEF new
  <2> QED BY <1>1, <2>1, <2>2, AsideKept
<1> QED BY <1>2, <1>3

LEMMA CentreBeginsFree ==
  ASSUME TypesInv, TypesInv', DeviceInv, NEW r \in Requests, NEW k \in Centres,
         NEW op \in {"none", "link", "unlink"},
         EditCentre(r, k, op) \/ RemoveCentre(r, k)
  PROVE  DeviceInv'
<1>1. UNCHANGED <<device, held, late, line>>
  BY DEF EditCentre, RemoveCentre
<1>2. CASE EditCentre(r, k, op)
  <2>1. PICK step \in {"centreRow", "link"} :
          BeginWriting(r, [Idle EXCEPT !.pc = step, !.op = op, !.at = k,
                                       !.flag = centre[k].linked])
    BY <1>2 DEF EditCentre
  <2> DEFINE new == [Idle EXCEPT !.pc = step, !.op = op, !.at = k,
                                 !.flag = centre[k].linked]
  <2>2. new.pc \notin DeviceSteps \union {"drop"}
    BY DEF Idle, DeviceSteps
  <2>3. req' = [req EXCEPT ![r] = new]
    BY <2>1 DEF BeginWriting, Begin
  <2> HIDE DEF new
  <2> QED BY <1>1, <2>2, <2>3, AsideKept
<1>3. CASE RemoveCentre(r, k)
  <2> DEFINE new == [Idle EXCEPT !.pc = "close", !.at = k, !.flag = centre[k].linked]
  <2>1. new.pc \notin DeviceSteps \union {"drop"}
    BY DEF Idle, DeviceSteps
  <2>2. req' = [req EXCEPT ![r] = new]
    BY <1>3 DEF RemoveCentre, BeginWriting, Begin
  <2> HIDE DEF new
  <2> QED BY <1>1, <2>1, <2>2, AsideKept
<1> QED BY <1>2, <1>3

\* Dependents are looked for when the removal begins.
LEMMA RemoveLineFree ==
  ASSUME TypesInv, DeviceInv, NEW r \in Requests, NEW l \in Lines, RemoveLine(r, l)
  PROVE  DeviceInv'
<1> DEFINE new == [Idle EXCEPT !.pc = "drop", !.at = l, !.was = line[l].lane]
<1>1. line[l].lane \in 0 .. NLanes
  BY OldTypes DEF LineRow
<1>2. new \in MasterReq /\ new.pc = "drop" /\ new.at = l /\ new.op = "none"
  BY <1>1, IdleShape DEF MasterReq, Idle
<1>3. req' = [req EXCEPT ![r] = new] /\ UNCHANGED <<line, device, held, late>>
  BY DEF RemoveLine, BeginWriting, Begin
<1>4. ~ InUse(device, held, l)
  BY DEF RemoveLine, InUse
<1>5. MapOf(new) = {}
  BY <1>2 DEF MapOf
<1> HIDE DEF new
<1> QED BY <1>2, <1>3, <1>4, <1>5, FreeKept DEF DeviceSteps

\* The removal notes the lines that devices are about to be mapped to.
LEMMA DropLineFree ==
  ASSUME TypesInv, TypesInv', DeviceInv, NEW r \in Requests, DropLine(r)
  PROVE  DeviceInv'
<1> DEFINE a == req[r].at
<1>1. req[r].pc = "drop" /\ a \in Lines /\ Shape(req[r])
  BY OldTypes DEF DropLine, Shape, LineSteps
<1>2. /\ req \in [Requests -> MasterReq]
      /\ req'[r] = Idle /\ \A q \in Requests \ {r} : req'[q] = req[q]
      /\ UNCHANGED <<device, held>>
  BY OldTypes DEF DropLine, Goto
<1>3. \A l \in Lines : line'[l].st = "deleted" => line[l].st = "deleted" \/ l = a
  BY <1>1, OldTypes DEF DropLine
<1>4. late \subseteq late' /\ ((\E p \in Requests : a \in MapOf(req[p])) => a \in late')
  BY MappingIs DEF DropLine
<1>5. Idle.pc = "idle" /\ Idle.op = "none" /\ MapOf(Idle) = {}
  BY DEF Idle, MapOf
<1>6. ASSUME NEW l \in Lines, line'[l].st = "deleted", InUse(device, held, l)
      PROVE  l \in late'
  BY <1>1, <1>3, <1>4, <1>6 DEF DeviceInv, FreeInv
<1>7. ASSUME NEW q \in Requests, req'[q].pc = "drop", InUse(device, held, req'[q].at)
      PROVE  req'[q].at \in late'
  <2>1. q # r
    BY <1>2, <1>5, <1>7
  <2>2. req'[q] = req[q]
    BY <1>2, <2>1
  <2> QED BY <1>4, <1>7, <2>2 DEF DeviceInv, FreeInv
<1>8. ASSUME NEW q \in Requests, NEW l \in MapOf(req'[q]), line'[l].st = "deleted"
      PROVE  l \in late'
  <2>1. q # r
    BY <1>2, <1>5, <1>8
  <2>2. req'[q] = req[q]
    BY <1>2, <2>1
  <2>3. l \in Lines
    BY <1>2, <1>8, <2>2, PlanLines DEF MapOf
  <2>4. CASE l = a
    BY <1>4, <1>8, <2>2, <2>4
  <2>5. CASE line[l].st = "deleted"
    BY <1>4, <1>8, <2>2, <2>5 DEF DeviceInv, FreeInv
  <2> QED BY <1>3, <1>8, <2>3, <2>4, <2>5
<1>9. FreeInv'
  BY <1>2, <1>6, <1>7, <1>8 DEF FreeInv
<1>10. ASSUME NEW q \in Requests
       PROVE  req'[q] = req[q] \/ req'[q] = Idle
  BY <1>2
<1>11. CreatedInv'
  BY <1>2, <1>5, <1>10 DEF DeviceInv, CreatedInv, DeviceSteps
<1> QED BY <1>9, <1>11 DEF DeviceInv

LEMMA CreateDeviceFree ==
  ASSUME TypesInv, DeviceInv, NEW r \in Requests, NEW d \in Devices,
         NEW L \in SUBSET Lines, CreateDevice(r, d, L)
  PROVE  DeviceInv'
<1> DEFINE plan == {0} \X L
           new == [Idle EXCEPT !.pc = "save", !.op = "create", !.at = d, !.plan = plan]
<1>1. plan \in SUBSET ((0 .. NLanes) \X Lines) /\ {x[2] : x \in plan} = L
  BY LinesAsPlan
<1>2. req' = [req EXCEPT ![r] = new] /\ UNCHANGED <<line, device, held, late>>
  BY DEF CreateDevice, Begin
<1> HIDE DEF plan
<1>3. new \in MasterReq
  BY <1>1, IdleShape DEF MasterReq, Idle
<1>4. new.pc = "save" /\ new.op = "create" /\ new.at = d /\ new.plan = plan
  BY DEF Idle
<1> HIDE DEF new
<1>5. MapOf(new) = L
  BY <1>1, <1>4 DEF MapOf
<1>6. \A l \in L : line[l].st = "live"
  BY DEF CreateDevice, Assignable, LiveLines
<1>7. device[d] = "none" /\ \A q \in Requests : req[q].op = "create" => req[q].at # d
  BY DEF CreateDevice
<1> QED BY <1>2, <1>3, <1>4, <1>5, <1>6, <1>7, FreeKept

LEMMA EditDeviceFree ==
  ASSUME TypesInv, DeviceInv, NEW r \in Requests, NEW d \in Devices,
         NEW L \in SUBSET Lines, EditDevice(r, d, L)
  PROVE  DeviceInv'
<1>1. PICK step \in {"deviceRow", "unmap", "insert"} :
           /\ step # "deviceRow" => Assignable(d, L)
           /\ Begin(r, [Idle EXCEPT !.pc = step, !.op = "edit", !.at = d,
                          !.plan = IF step = "deviceRow" THEN {} ELSE {0} \X L])
  BY EditBegins
<1> DEFINE plan == IF step = "deviceRow" THEN {} ELSE {0} \X L
           new == [Idle EXCEPT !.pc = step, !.op = "edit", !.at = d, !.plan = plan]
<1>2. /\ plan \in SUBSET ((0 .. NLanes) \X Lines)
      /\ step # "deviceRow" => {x[2] : x \in plan} = L
  BY LinesAsPlan
<1>3. req' = [req EXCEPT ![r] = new] /\ UNCHANGED <<line, device, held, late>>
  BY <1>1 DEF EditDevice, Begin
<1> HIDE DEF plan
<1>4. new \in MasterReq
  BY <1>2, IdleShape DEF MasterReq, Idle
<1>5. new.pc = step /\ new.op = "edit" /\ new.at = d /\ new.plan = plan
  BY DEF Idle
<1> HIDE DEF new
<1>6. \A l \in MapOf(new) : line[l].st = "live"
  BY <1>1, <1>2, <1>5 DEF MapOf, Assignable, LiveLines
<1>7. device[d] = "live"
  BY DEF EditDevice
<1> QED BY <1>3, <1>4, <1>5, <1>6, <1>7, FreeKept

LEMMA RemoveDeviceFree ==
  ASSUME TypesInv, DeviceInv, NEW r \in Requests, NEW d \in Devices, RemoveDevice(r, d)
  PROVE  DeviceInv'
<1> DEFINE new == [Idle EXCEPT !.pc = "dropDevice", !.at = d]
<1>1. new \in MasterReq
  BY IdleShape DEF MasterReq, Idle
<1>2. new.pc = "dropDevice" /\ new.op = "none" /\ new.at = d
  BY DEF Idle
<1>3. req' = [req EXCEPT ![r] = new] /\ UNCHANGED <<line, device, held, late>>
      /\ device[d] = "live"
  BY DEF RemoveDevice, Begin
<1>4. MapOf(new) = {}
  BY <1>2 DEF MapOf
<1> HIDE DEF new
<1> QED BY <1>1, <1>2, <1>3, <1>4, FreeKept

\* A request that ends leaves nothing behind that is not noted.
LEMMA EndFree ==
  ASSUME TypesInv, DeviceInv, NEW r \in Requests, req' = [req EXCEPT ![r] = Idle],
         UNCHANGED <<line, device>>, held' \subseteq held, late \subseteq late'
  PROVE  DeviceInv'
<1>1. Idle.pc = "idle" /\ Idle.op = "none" /\ MapOf(Idle) = {} /\ Idle \in MasterReq
  BY IdleShape DEF Idle, MapOf
<1> QED BY <1>1, FreeKept DEF DeviceSteps

LEMMA UnmapCameraFree ==
  ASSUME TypesInv, DeviceInv, NEW r \in Requests, UnmapCamera(r)
  PROVE  DeviceInv'
<1> DEFINE q == req[r]
<1>1. q \in MasterReq /\ Shape(q) /\ q.pc = "unmap" /\ q.op # "create"
  BY OldTypes DEF UnmapCamera, Shape
<1>2. PICK step \in {"deviceRow", "insert"} : req' = [req EXCEPT ![r] = [q EXCEPT !.pc = step]]
  BY DEF UnmapCamera, Goto
<1> DEFINE new == [q EXCEPT !.pc = step]
<1>3. new \in MasterReq
  BY <1>1, <1>2 DEF MasterReq
<1>4. new.pc = step /\ new.at = q.at /\ new.op = q.op /\ new.plan = q.plan
  BY <1>1 DEF MasterReq
<1>5. req' = [req EXCEPT ![r] = new] /\ UNCHANGED <<line, device, late>> /\ held' \subseteq held
  BY <1>2 DEF UnmapCamera
<1> HIDE DEF new
<1>6. \A l \in MapOf(new) : line[l].st = "deleted" => l \in late
  <2>1. MapOf(new) \subseteq MapOf(q)
    BY <1>1, <1>4 DEF MapOf
  <2> QED BY <2>1 DEF DeviceInv, FreeInv
<1>7. device[q.at] # "none"
  BY <1>1 DEF DeviceInv, CreatedInv, DeviceSteps
<1> QED BY <1>1, <1>3, <1>4, <1>5, <1>6, <1>7, FreeKept

\* The lines of a request are mapped: those removed meanwhile are noted.
LEMMA MappedFree ==
  ASSUME TypesInv, DeviceInv, NEW r \in Requests, req[r].pc = "insert",
         NEW L, L = MapOf(req[r]), Mapped(r, L), UNCHANGED <<line, device>>,
         held' \subseteq held \union ({req[r].at} \X L)
  PROVE  DeviceInv'
<1> DEFINE a == req[r].at
<1>1. /\ req[r] \in MasterReq /\ device[a] # "none"
      /\ L \subseteq Lines
  BY OldTypes, PlanLines DEF MapOf, DeviceInv, CreatedInv, DeviceSteps
<1>2. PICK new \in MasterReq :
        /\ req' = [req EXCEPT ![r] = new]
        /\ \/ new.pc = "idle" /\ new.op = "none"
           \/ new.pc = "deviceRow" /\ new.op = "edit" /\ new.at = a
  <2>1. CASE req[r].op = "edit"
    <3> DEFINE new == [req[r] EXCEPT !.pc = "deviceRow", !.plan = {}]
    <3>1. new \in MasterReq /\ new.pc = "deviceRow" /\ new.op = "edit" /\ new.at = a
      BY <1>1, <2>1 DEF MasterReq
    <3>2. req' = [req EXCEPT ![r] = new]
      BY <2>1 DEF Mapped, Goto
    <3> HIDE DEF new
    <3> QED BY <3>1, <3>2
  <2>2. CASE req[r].op # "edit"
    <3>1. Idle.pc = "idle" /\ Idle.op = "none" /\ Idle \in MasterReq
      BY IdleShape DEF Idle
    <3>2. req' = [req EXCEPT ![r] = Idle]
      BY <2>2 DEF Mapped, Goto
    <3> QED BY <3>1, <3>2
  <2> QED BY <2>1, <2>2
<1>3. /\ req \in [Requests -> MasterReq]
      /\ req'[r] = new /\ \A q \in Requests \ {r} : req'[q] = req[q]
  BY <1>2, OldTypes
<1>4. /\ late \subseteq late'
      /\ \A l \in L, q \in Requests : req[q].pc = "drop" /\ req[q].at = l => l \in late'
  BY DEF Mapped
<1>5. ASSUME NEW l, InUse(device', held', l)
      PROVE  InUse(device, held, l) \/ l \in L
  BY <1>5 DEF InUse
<1>6. \A l \in L : line[l].st = "deleted" => l \in late
  BY DEF DeviceInv, FreeInv
<1>7. MapOf(new) = {} /\ new.pc \notin {"drop", "save"} /\ new.op # "create"
  BY <1>2 DEF MapOf
<1>8. ASSUME NEW l \in Lines, line'[l].st = "deleted", InUse(device', held', l)
      PROVE  l \in late'
  BY <1>4, <1>5, <1>6, <1>8 DEF DeviceInv, FreeInv
<1>9. ASSUME NEW q \in Requests, req'[q].pc = "drop", InUse(device', held', req'[q].at)
      PROVE  req'[q].at \in late'
  <2>1. q # r
    BY <1>3, <1>7, <1>9
  <2>2. req'[q] = req[q]
    BY <1>3, <2>1
  <2>3. InUse(device, held, req[q].at) \/ req[q].at \in L
    BY <1>5, <1>9, <2>2
  <2> QED BY <1>4, <1>9, <2>2, <2>3 DEF DeviceInv, FreeInv
<1>10. ASSUME NEW q \in Requests, NEW l \in MapOf(req'[q]), line'[l].st = "deleted"
       PROVE  l \in late'
  <2>1. q # r
    BY <1>3, <1>7, <1>10
  <2>2. req'[q] = req[q]
    BY <1>3, <2>1
  <2> QED BY <1>4, <1>10, <2>2 DEF DeviceInv, FreeInv
<1>11. FreeInv'
  BY <1>8, <1>9, <1>10 DEF FreeInv
<1>12. ASSUME NEW d \in Devices, device'[d] = "none", NEW l \in Lines, <<d, l>> \in held'
       PROVE  FALSE
  BY <1>1, <1>12 DEF DeviceInv, CreatedInv
<1>13. ASSUME NEW q \in Requests
       PROVE  /\ req'[q].pc \in DeviceSteps \ {"save"} => device'[req'[q].at] # "none"
              /\ req'[q].pc = "save" => req'[q].op = "create" /\ device'[req'[q].at] = "none"
  <2>1. CASE q = r
    BY <1>1, <1>2, <1>3, <1>7, <2>1 DEF DeviceSteps
  <2>2. CASE q # r
    BY <1>3, <2>2 DEF DeviceInv, CreatedInv
  <2> QED BY <2>1, <2>2
<1>14. ASSUME NEW p \in Requests, NEW q \in Requests,
              req'[p].op = "create", req'[q].op = "create", req'[p].at = req'[q].at
       PROVE  p = q
  BY <1>3, <1>7, <1>14 DEF DeviceInv, CreatedInv
<1>15. CreatedInv'
  BY <1>12, <1>13, <1>14 DEF CreatedInv
<1> QED BY <1>11, <1>15 DEF DeviceInv

LEMMA InsertCameraLinesFree ==
  ASSUME TypesInv, DeviceInv, NEW r \in Requests, InsertCameraLines(r)
  PROVE  DeviceInv'
<1> DEFINE L == {x[2] : x \in req[r].plan}
<1>1. req[r].pc = "insert" /\ L = MapOf(req[r]) /\ UNCHANGED <<line, device>>
  BY DEF InsertCameraLines, MapOf
<1>2. \/ held' \subseteq held /\ Goto(r, Idle) /\ UNCHANGED late
      \/ held' \subseteq held \union ({req[r].at} \X L) /\ Mapped(r, L)
  BY DEF InsertCameraLines
<1> HIDE DEF L
<1> QED BY <1>1, <1>2, MappedFree, EndFree DEF Goto

LEMMA ReplacePcLinesFree ==
  ASSUME TypesInv, DeviceInv, NEW r \in Requests, ReplacePcLines(r)
  PROVE  DeviceInv'
<1> DEFINE L == {x[2] : x \in req[r].plan}
<1>1. req[r].pc = "insert" /\ L = MapOf(req[r]) /\ UNCHANGED <<line, device>>
  BY DEF ReplacePcLines, MapOf
<1>2. \/ held' \subseteq held /\ Goto(r, Idle) /\ UNCHANGED late
      \/ held' \subseteq held \union ({req[r].at} \X L) /\ Mapped(r, L)
  BY DEF ReplacePcLines
<1> HIDE DEF L
<1> QED BY <1>1, <1>2, MappedFree, EndFree DEF Goto

\* The row of the device a request is about is written.
LEMMA DeviceRowFree ==
  ASSUME TypesInv, DeviceInv, NEW r \in Requests, NEW new \in MasterReq,
         NEW s \in {"live", "deleted"}, NEW a \in Devices,
         req' = [req EXCEPT ![r] = new],
         device' = [device EXCEPT ![a] = s], UNCHANGED <<line, held>>,
         late \subseteq late',
         \A l \in Lines : s = "live" /\ <<a, l>> \in held /\ device[a] # "live" => l \in late',
         new.pc \notin {"drop", "save"}, new.pc \in DeviceSteps => new.at = a,
         MapOf(new) \subseteq MapOf(req[r]),
         new.op = "create" => req[r].op = "create" /\ new.at = req[r].at,
         \A q \in Requests \ {r} : req[q].pc = "save" => req[q].at # a
  PROVE  DeviceInv'
<1>1. /\ req \in [Requests -> MasterReq]
      /\ req'[r] = new /\ \A q \in Requests \ {r} : req'[q] = req[q]
      /\ device'[a] = s /\ \A d \in Devices \ {a} : device'[d] = device[d]
  BY OldTypes
<1>2. ASSUME NEW l \in Lines, InUse(device', held', l)
      PROVE  InUse(device, held, l) \/ l \in late'
  BY <1>1, <1>2 DEF InUse
<1>3. ASSUME NEW l \in Lines, line'[l].st = "deleted", InUse(device', held', l)
      PROVE  l \in late'
  BY <1>2, <1>3 DEF DeviceInv, FreeInv
<1>4. ASSUME NEW q \in Requests, req'[q].pc = "drop", InUse(device', held', req'[q].at)
      PROVE  req'[q].at \in late'
  <2>1. q # r
    BY <1>1, <1>4
  <2>2. req'[q] = req[q] /\ req[q].at \in Lines
    BY <1>1, <1>4, <2>1, OldTypes DEF Shape, LineSteps
  <2> QED BY <1>2, <1>4, <2>2 DEF DeviceInv, FreeInv
<1>5. ASSUME NEW q \in Requests, NEW l \in MapOf(req'[q]), line'[l].st = "deleted"
      PROVE  l \in late'
  <2>1. l \in MapOf(req[q])
    BY <1>1, <1>5
  <2> QED BY <1>5, <2>1 DEF DeviceInv, FreeInv
<1>6. FreeInv'
  BY <1>3, <1>4, <1>5 DEF FreeInv
<1>7. ASSUME NEW d \in Devices, device'[d] = "none", NEW l \in Lines, <<d, l>> \in held'
      PROVE  FALSE
  BY <1>1, <1>7 DEF DeviceInv, CreatedInv
<1>8. ASSUME NEW q \in Requests
      PROVE  /\ req'[q].pc \in DeviceSteps \ {"save"} => device'[req'[q].at] # "none"
             /\ req'[q].pc = "save" => req'[q].op = "create" /\ device'[req'[q].at] = "none"
  <2>1. CASE q = r
    BY <1>1, <2>1
  <2>2. CASE q # r
    <3>1. req'[q] = req[q] /\ Shape(req[q])
      BY <1>1, <2>2, OldTypes
    <3>2. req[q].pc \in DeviceSteps => req[q].at \in Devices
      BY <3>1 DEF Shape
    <3> QED BY <1>1, <2>2, <3>1, <3>2 DEF DeviceInv, CreatedInv, DeviceSteps
  <2> QED BY <2>1, <2>2
<1>9. ASSUME NEW p \in Requests, NEW q \in Requests,
             req'[p].op = "create", req'[q].op = "create", req'[p].at = req'[q].at
      PROVE  p = q
  <2>1. \A x \in {p, q} : req'[x].op = "create" => req[x].op = "create" /\ req[x].at = req'[x].at
    BY <1>1
  <2> QED BY <1>9, <2>1 DEF DeviceInv, CreatedInv
<1>10. CreatedInv'
  BY <1>7, <1>8, <1>9 DEF CreatedInv
<1> QED BY <1>6, <1>10 DEF DeviceInv

LEMMA SaveDeviceRowFree ==
  ASSUME TypesInv, DeviceInv, NEW r \in Requests, SaveDeviceRow(r)
  PROVE  DeviceInv'
<1> DEFINE a == req[r].at
           new == Idle
<1>1. a \in Devices /\ req[r].pc = "deviceRow"
  BY OldTypes DEF SaveDeviceRow, Shape, DeviceSteps
<1>2. device[a] \in {"live", "deleted"}
  BY <1>1, OldTypes DEF DeviceInv, CreatedInv, DeviceSteps
<1>3. /\ req' = [req EXCEPT ![r] = new] /\ UNCHANGED <<line, held>>
      /\ device' = [device EXCEPT ![a] = "live"]
  BY DEF SaveDeviceRow, Goto
<1>4. /\ late \subseteq late'
      /\ \A l \in Lines : <<a, l>> \in held /\ device[a] # "live" => l \in late'
  BY <1>2 DEF SaveDeviceRow, LinesHeld
<1>5. /\ new \in MasterReq /\ new.pc = "idle" /\ new.op = "none" /\ MapOf(new) = {}
      /\ "idle" \notin DeviceSteps
  BY IdleShape DEF Idle, MapOf, DeviceSteps
<1>6. \A q \in Requests \ {r} : req[q].pc = "save" => req[q].at # a
  BY <1>2 DEF DeviceInv, CreatedInv
<1> HIDE DEF new
<1>7. MapOf(new) \subseteq MapOf(req[r]) /\ new.pc \notin DeviceSteps \union {"drop", "save"}
  BY <1>5
<1>8. "live" \in {"live", "deleted"}
  OBVIOUS
<1> QED BY <1>1, <1>3, <1>4, <1>5, <1>6, <1>7, <1>8, DeviceRowFree

LEMMA SaveDeviceFree ==
  ASSUME TypesInv, DeviceInv, NEW r \in Requests, SaveDevice(r)
  PROVE  DeviceInv'
<1> DEFINE a == req[r].at
<1>1. a \in Devices /\ req[r].pc = "save" /\ req[r] \in MasterReq
  BY OldTypes DEF SaveDevice, Shape, DeviceSteps
<1>2. /\ device[a] = "none" /\ req[r].op = "create"
      /\ \A l \in Lines : <<a, l>> \notin held
  BY <1>1 DEF DeviceInv, CreatedInv
<1>3. UNCHANGED <<line, held, late>> /\ device' = [device EXCEPT ![a] = "live"]
  BY DEF SaveDevice, Goto
<1>4. \A q \in Requests \ {r} : req[q].pc = "save" => req[q].at # a
  BY <1>2 DEF DeviceInv, CreatedInv
<1>5. CASE req[r].plan = {}
  <2> DEFINE new == Idle
  <2>1. /\ new \in MasterReq /\ new.pc = "idle" /\ new.op = "none" /\ MapOf(new) = {}
        /\ "idle" \notin DeviceSteps
    BY IdleShape DEF Idle, MapOf, DeviceSteps
  <2>2. req' = [req EXCEPT ![r] = new]
    BY <1>5 DEF SaveDevice, Goto
  <2> HIDE DEF new
  <2> QED BY <1>1, <1>2, <1>3, <1>4, <2>1, <2>2, DeviceRowFree
<1>6. CASE req[r].plan # {}
  <2> DEFINE new == [req[r] EXCEPT !.pc = "insert"]
  <2>1. /\ new \in MasterReq /\ new.pc = "insert" /\ new.op = "create" /\ new.at = a
        /\ new.plan = req[r].plan
    BY <1>1, <1>2 DEF MasterReq
  <2>2. req' = [req EXCEPT ![r] = new]
    BY <1>6 DEF SaveDevice, Goto
  <2> HIDE DEF new
  <2>3. MapOf(new) = MapOf(req[r])
    BY <1>1, <2>1 DEF MapOf
  <2> QED BY <1>1, <1>2, <1>3, <1>4, <2>1, <2>2, <2>3, DeviceRowFree
<1> QED BY <1>5, <1>6

LEMMA DropDeviceFree ==
  ASSUME TypesInv, DeviceInv, NEW r \in Requests, DropDevice(r)
  PROVE  DeviceInv'
<1> DEFINE a == req[r].at
           new == [req[r] EXCEPT !.pc = "release"]
<1>1. a \in Devices /\ req[r].pc = "dropDevice" /\ req[r] \in MasterReq /\ req[r].op # "create"
  BY OldTypes DEF DropDevice, Shape, DeviceSteps
<1>2. device[a] # "none"
  BY <1>1 DEF DeviceInv, CreatedInv, DeviceSteps
<1>3. UNCHANGED <<line, held, late>> /\ device' = [device EXCEPT ![a] = "deleted"]
      /\ req' = [req EXCEPT ![r] = new]
  BY DEF DropDevice, Goto
<1>4. new \in MasterReq /\ new.pc = "release" /\ new.op # "create" /\ new.at = a
  BY <1>1 DEF MasterReq
<1> HIDE DEF new
<1>5. MapOf(new) = {}
  BY <1>4 DEF MapOf
<1>6. \A q \in Requests \ {r} : req[q].pc = "save" => req[q].at # a
  BY <1>2 DEF DeviceInv, CreatedInv
<1> QED BY <1>1, <1>3, <1>4, <1>5, <1>6, DeviceRowFree

LEMMA OpenJobFree ==
  ASSUME TypesInv, DeviceInv, NEW j \in Jobs, NEW l \in 0 .. NLines, OpenJob(j, l)
  PROVE  DeviceInv'
<1>1. UNCHANGED <<line, device, held, late>>
  BY DEF OpenJob
<1>2. ASSUME NEW q \in Requests
      PROVE  /\ req'[q].pc = req[q].pc /\ req'[q].op = req[q].op
             /\ req'[q].at = req[q].at /\ MapOf(req'[q]) = MapOf(req[q])
  BY OpenJobSteps DEF MapOf
<1>3. FreeInv'
  BY <1>1, <1>2 DEF FreeInv, DeviceInv
<1>4. CreatedInv'
  BY <1>1, <1>2 DEF CreatedInv, DeviceInv
<1> QED BY <1>3, <1>4 DEF DeviceInv

-----------------------------------------------------------------------------
(* Jobs on the lines that an assignment is about to write.                 *)

\* Line l has no active job, but for those opened after q had looked.
Clear(jb, q, l) == (\A j \in Jobs : jb[j].st = "active" => jb[j].line # l) \/ l \in q.opened

JobStep(jb, q) ==
  /\ q.pc \in {"swap", "write"} => Clear(jb, q, q.at)
  /\ q.pc = "swap" => Clear(jb, q, q.other)

JobInv == \A r \in Requests : JobStep(job, req[r])

LEMMA NoJobIsClear ==
  ASSUME NEW q, NEW l, ActiveOn(l) = {}
  PROVE  Clear(job, q, l)
BY DEF ActiveOn, Clear

LEMMA JobKept ==
  ASSUME TypesInv, JobInv, NEW r \in Requests, NEW new, req' = [req EXCEPT ![r] = new],
         JobStep(job, new), job' = job
  PROVE  JobInv'
BY OldTypes DEF JobInv

\* A request that is not about to write a lane.
LEMMA JobAside ==
  ASSUME TypesInv, JobInv, NEW r \in Requests, job' = job,
         \E new : req' = [req EXCEPT ![r] = new] /\ new.pc \notin {"swap", "write"}
  PROVE  JobInv'
<1>1. PICK new : req' = [req EXCEPT ![r] = new] /\ new.pc \notin {"swap", "write"}
  OBVIOUS
<1>2. JobStep(job, new)
  BY <1>1 DEF JobStep
<1> QED BY <1>1, <1>2, JobKept

LEMMA BeginJobs ==
  ASSUME TypesInv, JobInv, NEW r \in Requests,
         NEW l \in Lines, NEW n \in 0 .. NLanes, NEW b \in BOOLEAN,
         NEW k \in Centres, NEW op \in {"none", "link", "unlink"},
         \/ CreateLine(r, l, n) \/ EditLine(r, l, n, b) \/ RemoveLine(r, l)
         \/ EditCentre(r, k, op) \/ RemoveCentre(r, k)
  PROVE  JobInv'
<1> DEFINE new1 == [Idle EXCEPT !.pc = "row", !.at = l, !.want = n,
                                !.was = line[l].lane, !.flag = b]
           new2 == [Idle EXCEPT !.pc = "drop", !.at = l, !.was = line[l].lane]
           new3(s) == [Idle EXCEPT !.pc = s, !.op = op, !.at = k, !.flag = centre[k].linked]
           new4 == [Idle EXCEPT !.pc = "close", !.at = k, !.flag = centre[k].linked]
<1>1. /\ new1.pc = "row" /\ new2.pc = "drop" /\ new4.pc = "close" /\ Idle.pc = "idle"
      /\ \A s : new3(s).pc = s
  BY DEF Idle
<1>2. /\ job' = job
      /\ \/ \E new \in {Idle, new1, new2, new4} : req' = [req EXCEPT ![r] = new]
         \/ \E s \in {"centreRow", "link"} : req' = [req EXCEPT ![r] = new3(s)]
  BY DEF CreateLine, EditLine, RemoveLine, EditCentre, RemoveCentre, BeginWriting, Begin
<1> HIDE DEF new1, new2, new3, new4
<1>3. \E new : req' = [req EXCEPT ![r] = new] /\ new.pc \notin {"swap", "write"}
  <2>1. CASE \E new \in {Idle, new1, new2, new4} : req' = [req EXCEPT ![r] = new]
    BY <1>1, <2>1
  <2>2. CASE \E s \in {"centreRow", "link"} : req' = [req EXCEPT ![r] = new3(s)]
    BY <1>1, <2>2
  <2> QED BY <1>2, <2>1, <2>2
<1> QED BY <1>2, <1>3, JobAside

LEMMA StartDeviceJobs ==
  ASSUME TypesInv, JobInv, NEW r \in Requests, NEW d \in Devices, NEW L \in SUBSET Lines,
         CreateDevice(r, d, L) \/ EditDevice(r, d, L) \/ RemoveDevice(r, d)
  PROVE  JobInv'
<1> DEFINE new1 == [Idle EXCEPT !.pc = "save", !.op = "create", !.at = d, !.plan = {0} \X L]
           new2(s) == [Idle EXCEPT !.pc = s, !.op = "edit", !.at = d,
                         !.plan = IF s = "deviceRow" THEN {} ELSE {0} \X L]
           new3 == [Idle EXCEPT !.pc = "dropDevice", !.at = d]
<1>1. /\ new1.pc = "save" /\ new3.pc = "dropDevice"
      /\ \A s : new2(s).pc = s
  BY DEF Idle
<1>2. job' = job
  BY DEF CreateDevice, EditDevice, RemoveDevice, Begin
<1>3. CASE CreateDevice(r, d, L)
  <2>1. req' = [req EXCEPT ![r] = new1]
    BY <1>3 DEF CreateDevice, Begin
  <2> HIDE DEF new1
  <2> QED BY <1>1, <1>2, <2>1, JobAside
<1>4. CASE EditDevice(r, d, L)
  <2>1. PICK s \in {"deviceRow", "unmap", "insert"} :
          Begin(r, [Idle EXCEPT !.pc = s, !.op = "edit", !.at = d,
                      !.plan = IF s = "deviceRow" THEN {} ELSE {0} \X L])
    BY <1>4, EditBegins
  <2>2. req' = [req EXCEPT ![r] = new2(s)]
    BY <2>1 DEF Begin
  <2> HIDE DEF new2
  <2> QED BY <1>1, <1>2, <2>2, JobAside
<1>5. CASE RemoveDevice(r, d)
  <2>1. req' = [req EXCEPT ![r] = new3]
    BY <1>5 DEF RemoveDevice, Begin
  <2> HIDE DEF new3
  <2> QED BY <1>1, <1>2, <2>1, JobAside
<1> QED BY <1>3, <1>4, <1>5

LEMMA StepJobs ==
  ASSUME TypesInv, JobInv, NEW r \in Requests,
         \/ SaveLine(r) \/ WriteLane(r) \/ DropLine(r) \/ SaveColumns(r)
         \/ LinkBranch(r) \/ UnlinkBranch(r) \/ SaveLane(r) \/ EndLanes(r)
         \/ StoreBranch(r) \/ CloseCentre(r) \/ CutMasters(r)
  PROVE  JobInv'
<1> DEFINE q == req[r]
           Next1(s) == [q EXCEPT !.pc = s]
           Next2(P) == [q EXCEPT !.pc = "lanes", !.plan = P]
           Next3(P) == [q EXCEPT !.plan = P]
<1>1. q \in MasterReq /\ Idle.pc = "idle"
  BY OldTypes DEF Idle
<1>2. /\ \A s : Next1(s).pc = s
      /\ \A P : Next2(P).pc = "lanes" /\ Next3(P).pc = q.pc
  BY <1>1 DEF MasterReq
<1> HIDE DEF Next1, Next2, Next3
<1>3. /\ job' = job
      /\ \/ req' = [req EXCEPT ![r] = Idle]
         \/ \E s \in {"assign", "link", "centre"} : req' = [req EXCEPT ![r] = Next1(s)]
         \/ \E P : req' = [req EXCEPT ![r] = Next2(P)]
         \/ \E P : req' = [req EXCEPT ![r] = Next3(P)] /\ q.pc = "lanes"
  <2>1. CASE SaveLine(r) \/ WriteLane(r) \/ DropLine(r)
    BY <2>1 DEF SaveLine, WriteLane, DropLine, Goto, Next1
  <2>2. CASE SaveColumns(r) \/ EndLanes(r)
    BY <2>2 DEF SaveColumns, EndLanes, Goto, Next1
  <2>3. CASE LinkBranch(r) \/ UnlinkBranch(r)
    BY <2>3 DEF LinkBranch, UnlinkBranch, Goto, Next2
  <2>4. CASE SaveLane(r)
    BY <2>4 DEF SaveLane, Goto, Next3
  <2>5. CASE StoreBranch(r) \/ CloseCentre(r) \/ CutMasters(r)
    BY <2>5 DEF StoreBranch, CloseCentre, CutMasters, Goto
  <2> QED BY <2>1, <2>2, <2>3, <2>4, <2>5
<1>4. \E new : req' = [req EXCEPT ![r] = new] /\ new.pc \notin {"swap", "write"}
  BY <1>1, <1>2, <1>3
<1> QED BY <1>3, <1>4, JobAside

LEMMA DeviceStepJobs ==
  ASSUME TypesInv, JobInv, NEW r \in Requests,
         \/ UnmapCamera(r) \/ InsertCameraLines(r) \/ ReplacePcLines(r)
         \/ SaveDeviceRow(r) \/ SaveDevice(r) \/ DropDevice(r) \/ ReleaseLines(r)
  PROVE  JobInv'
<1> DEFINE Later(s, P) == [req[r] EXCEPT !.pc = s, !.plan = P]
<1>1. \A s, P : Later(s, P).pc = s
  BY OldTypes DEF MasterReq
<1>2. /\ UNCHANGED job
      /\ \/ req' = [req EXCEPT ![r] = Idle]
         \/ \E s \in DeviceSteps \ {"save"} : \E P \in {{}, req[r].plan} :
              req' = [req EXCEPT ![r] = Later(s, P)]
  BY DeviceGoes
<1> HIDE DEF Later
<1>3. \E new : req' = [req EXCEPT ![r] = new] /\ new.pc \notin {"swap", "write"}
  BY <1>1, <1>2 DEF DeviceSteps, Idle
<1> QED BY <1>2, <1>3, JobAside

\* The check of an assignment.
LEMMA CheckLaneJobs ==
  ASSUME TypesInv, JobInv, NEW r \in Requests, CheckLane(r)
  PROVE  JobInv'
<1> DEFINE q == req[r]
           holders == {h \in HolderOf(q.want) : h # q.at}
           holder == CHOOSE h \in holders : \A g \in holders : h <= g
           toWrite == [q EXCEPT !.pc = "write"]
           toSwap == [q EXCEPT !.pc = "swap", !.was = line[q.at].lane, !.other = holder]
<1>1. q \in MasterReq /\ job' = job
  BY OldTypes DEF CheckLane, Goto
<1>2. \/ req' = [req EXCEPT ![r] = Idle]
      \/ req' = [req EXCEPT ![r] = toWrite] /\ ActiveOn(q.at) = {}
      \/ req' = [req EXCEPT ![r] = toSwap] /\ ActiveOn(q.at) = {} /\ ActiveOn(holder) = {}
  BY DEF CheckLane, Goto
<1>3. /\ toWrite.pc = "write" /\ toWrite.at = q.at
      /\ toSwap.pc = "swap" /\ toSwap.at = q.at /\ toSwap.other = holder
      /\ Idle.pc = "idle"
  BY <1>1 DEF MasterReq, Idle
<1> HIDE DEF holder, toWrite, toSwap
<1>4. CASE req' = [req EXCEPT ![r] = Idle]
  BY <1>1, <1>3, <1>4, JobAside
<1>5. CASE req' = [req EXCEPT ![r] = toWrite] /\ ActiveOn(q.at) = {}
  <2>1. JobStep(job, toWrite)
    BY <1>3, <1>5, NoJobIsClear DEF JobStep
  <2> QED BY <1>1, <1>5, <2>1, JobKept
<1>6. CASE req' = [req EXCEPT ![r] = toSwap] /\ ActiveOn(q.at) = {} /\ ActiveOn(holder) = {}
  <2>1. JobStep(job, toSwap)
    BY <1>3, <1>6, NoJobIsClear DEF JobStep
  <2> QED BY <1>1, <1>6, <2>1, JobKept
<1> QED BY <1>2, <1>4, <1>5, <1>6

LEMMA SwapHolderJobs ==
  ASSUME TypesInv, JobInv, NEW r \in Requests, SwapHolder(r)
  PROVE  JobInv'
<1> DEFINE q == req[r]
           new == [q EXCEPT !.pc = "write"]
<1>1. q \in MasterReq /\ job' = job /\ q.pc = "swap" /\ req' = [req EXCEPT ![r] = new]
  BY OldTypes DEF SwapHolder, Goto
<1>2. new.pc = "write" /\ new.at = q.at /\ new.opened = q.opened
  BY <1>1 DEF MasterReq
<1> HIDE DEF new
<1>3. JobStep(job, new)
  BY <1>1, <1>2 DEF JobInv, JobStep, Clear
<1> QED BY <1>1, <1>3, JobKept

LEMMA OpenJobJobs ==
  ASSUME TypesInv, JobInv, NEW j \in Jobs, NEW l \in 0 .. NLines, OpenJob(j, l)
  PROVE  JobInv'
<1>1. /\ job'[j] = [st |-> "active", line |-> l]
      /\ \A i \in Jobs \ {j} : job'[i] = job[i]
  BY DEF OpenJob, TypesInv, TypeOKMasters
<1>2. ASSUME NEW r \in Requests, req[r].pc \in {"swap", "write"},
             NEW g \in Lines, Clear(job, req[r], g)
      PROVE  Clear(job', req'[r], g)
  <2>1. req'[r].opened = IF l # 0 THEN req[r].opened \union {l} ELSE req[r].opened
    BY <1>2, OpenJobSteps
  <2>2. CASE g \in req'[r].opened
    BY <2>2 DEF Clear
  <2>3. CASE g \notin req'[r].opened
    <3>1. g # l
      BY <2>1, <2>3, MastersAssumption DEF Lines
    <3>2. \A i \in Jobs : job[i].st = "active" => job[i].line # g
      BY <1>2, <2>1, <2>3 DEF Clear
    <3> QED BY <1>1, <3>1, <3>2 DEF Clear
  <2> QED BY <2>2, <2>3
<1>3. ASSUME NEW r \in Requests
      PROVE  JobStep(job', req'[r])
  <2>1. req'[r].pc = req[r].pc /\ req'[r].at = req[r].at /\ req'[r].other = req[r].other
    BY OpenJobSteps
  <2>2. /\ req[r].pc \in {"swap", "write"} => req[r].at \in Lines
        /\ req[r].pc = "swap" => req[r].other \in Lines
    BY OldTypes DEF Shape, LineSteps
  <2>3. JobStep(job, req[r])
    BY DEF JobInv
  <2> QED BY <1>2, <2>1, <2>2, <2>3 DEF JobStep
<1> QED BY <1>3 DEF JobInv

\* Closing a job gives up no rule.
LEMMA CloseJobKeeps ==
  ASSUME TypesInv, RulesInv, DeviceInv, JobInv, NEW j \in Jobs, CloseJob(j)
  PROVE  RulesInv' /\ DeviceInv' /\ JobInv'
<1>1. UNCHANGED <<centre, line, device, held, req, loose, late>>
  BY DEF CloseJob, masters
<1>2. RulesInv'
  BY <1>1 DEF RulesInv, OneWriter, LaneInv, BranchInv
<1>3. DeviceInv'
  BY <1>1 DEF DeviceInv, FreeInv, CreatedInv
<1>4. \A i \in Jobs : job'[i].line = job[i].line /\ (job'[i].st = "active" => job[i].st = "active")
  BY DEF CloseJob, TypesInv, TypeOKMasters
<1>5. JobInv'
  BY <1>1, <1>4 DEF JobInv, JobStep, Clear
<1> QED BY <1>2, <1>3, <1>5

-----------------------------------------------------------------------------
(* Every step keeps the invariant of the masters.                          *)

MastersIInv == TypesInv /\ RulesInv /\ DeviceInv /\ JobInv

\* A step of a request about a line or a centre that is not its first.
LEMMA AsideFree ==
  ASSUME MastersIInv, TypesInv', NEW r \in Requests,
         \/ SaveLine(r) \/ CheckLane(r) \/ SwapHolder(r) \/ WriteLane(r)
         \/ SaveColumns(r) \/ LinkBranch(r) \/ UnlinkBranch(r) \/ SaveLane(r)
         \/ EndLanes(r) \/ StoreBranch(r) \/ CloseCentre(r)
  PROVE  DeviceInv'
<1>1. /\ \E new : /\ req' = [req EXCEPT ![r] = new]
                  /\ new.pc \notin DeviceSteps \union {"drop"}
      /\ UNCHANGED <<device, held, late>>
      /\ \A l \in Lines : line'[l].st = "deleted" => line[l].st = "deleted"
  BY AsideSteps DEF MastersIInv
<1> QED BY <1>1, AsideKept DEF MastersIInv

LEMMA LineRequestKeeps ==
  ASSUME MastersIInv, NEW r \in Requests, LineRequest(r)
  PROVE  MastersIInv'
<1> USE DEF MastersIInv
<1>1. ASSUME NEW l \in Lines, NEW n \in 0 .. NLanes, NEW b \in BOOLEAN,
             CreateLine(r, l, n) \/ EditLine(r, l, n, b)
      PROVE  MastersIInv'
  <2>1. TypesInv' /\ RulesInv'
    BY <1>1, CreateLineTypes, EditLineTypes, CreateLineRules, EditLineRules
  <2>2. DeviceInv' /\ JobInv'
    BY <1>1, <2>1, LineBeginsFree, BeginJobs, MastersAssumption
  <2> QED BY <2>1, <2>2
<1>2. ASSUME NEW l \in Lines, RemoveLine(r, l)
      PROVE  MastersIInv'
  <2>1. 0 \in 0 .. NLanes
    BY MastersAssumption
  <2>2. JobInv'
    BY <1>2, <2>1, BeginJobs, MastersAssumption
  <2> QED BY <1>2, <2>2, RemoveLineTypes, RemoveLineRules, RemoveLineFree
<1>3. CASE SaveLine(r)
  BY <1>3, SaveLineTypes, SaveLineRules, AsideFree, StepJobs
<1>4. CASE CheckLane(r)
  BY <1>4, CheckLaneTypes, CheckLaneRules, AsideFree, CheckLaneJobs
<1>5. CASE SwapHolder(r)
  BY <1>5, SwapHolderTypes, SwapHolderRules, AsideFree, SwapHolderJobs
<1>6. CASE WriteLane(r)
  BY <1>6, WriteLaneTypes, WriteLaneRules, AsideFree, StepJobs
<1>7. CASE DropLine(r)
  BY <1>7, DropLineTypes, DropLineRules, DropLineFree, StepJobs
<1> QED BY <1>1, <1>2, <1>3, <1>4, <1>5, <1>6, <1>7 DEF LineRequest

LEMMA CentreRequestKeeps ==
  ASSUME MastersIInv, NEW r \in Requests, CentreRequest(r)
  PROVE  MastersIInv'
<1> USE DEF MastersIInv
<1>1. ASSUME NEW k \in Centres, NEW op \in {"none", "link", "unlink"},
             EditCentre(r, k, op) \/ RemoveCentre(r, k)
      PROVE  MastersIInv'
  <2>1. 0 \in 0 .. NLanes /\ 1 \in Lines
    BY MastersAssumption DEF Lines
  <2>2. JobInv'
    BY <1>1, <2>1, BeginJobs
  <2>3. TypesInv' /\ RulesInv'
    BY <1>1, EditCentreTypes, EditCentreRules, RemoveCentreTypes, RemoveCentreRules
  <2>4. DeviceInv'
    BY <1>1, <2>3, CentreBeginsFree
  <2> QED BY <2>2, <2>3, <2>4
<1>2. CASE SaveColumns(r)
  BY <1>2, SaveColumnsTypes, SaveColumnsRules, AsideFree, StepJobs
<1>3. CASE LinkBranch(r)
  BY <1>3, LinkBranchTypes, LinkBranchRules, AsideFree, StepJobs
<1>4. CASE UnlinkBranch(r)
  BY <1>4, UnlinkBranchTypes, UnlinkBranchRules, AsideFree, StepJobs
<1>5. CASE SaveLane(r)
  BY <1>5, SaveLaneTypes, SaveLaneRules, AsideFree, StepJobs
<1>6. CASE EndLanes(r)
  BY <1>6, EndLanesTypes, EndLanesRules, AsideFree, StepJobs
<1>7. CASE StoreBranch(r)
  BY <1>7, StoreBranchTypes, StoreBranchRules, AsideFree, StepJobs
<1>8. CASE CloseCentre(r)
  BY <1>8, CloseCentreTypes, CloseCentreRules, AsideFree, StepJobs
<1>9. ASSUME NEW k \in Centres, RemoveCentre(r, k)
      PROVE  MastersIInv'
  <2>1. "none" \in {"none", "link", "unlink"}
    OBVIOUS
  <2> QED BY <1>1, <1>9, <2>1
<1> QED BY <1>1, <1>2, <1>3, <1>4, <1>5, <1>6, <1>7, <1>8, <1>9 DEF CentreRequest

LEMMA DeviceRequestKeeps ==
  ASSUME MastersIInv, NEW r \in Requests, DeviceRequest(r)
  PROVE  MastersIInv'
<1> USE DEF MastersIInv
<1>1. ASSUME NEW d \in Devices, NEW L \in SUBSET Lines, CreateDevice(r, d, L)
      PROVE  MastersIInv'
  BY <1>1, CreateDeviceTypes, StartDeviceRules, CreateDeviceFree, StartDeviceJobs
<1>2. ASSUME NEW d \in Devices, NEW L \in SUBSET Lines, EditDevice(r, d, L)
      PROVE  MastersIInv'
  BY <1>2, EditDeviceTypes, StartDeviceRules, EditDeviceFree, StartDeviceJobs
<1>3. ASSUME NEW d \in Devices, RemoveDevice(r, d)
      PROVE  MastersIInv'
  <2>1. {} \in SUBSET Lines
    OBVIOUS
  <2> QED BY <1>3, <2>1, RemoveDeviceTypes, StartDeviceRules, RemoveDeviceFree, StartDeviceJobs
<1>4. CASE UnmapCamera(r)
  BY <1>4, UnmapCameraTypes, DeviceStepRules, UnmapCameraFree, DeviceStepJobs
<1>5. CASE InsertCameraLines(r)
  BY <1>5, InsertCameraLinesTypes, DeviceStepRules, InsertCameraLinesFree, DeviceStepJobs
<1>6. CASE ReplacePcLines(r)
  BY <1>6, ReplacePcLinesTypes, DeviceStepRules, ReplacePcLinesFree, DeviceStepJobs
<1>7. CASE SaveDeviceRow(r)
  BY <1>7, SaveDeviceRowTypes, DeviceStepRules, SaveDeviceRowFree, DeviceStepJobs
<1>8. CASE SaveDevice(r)
  BY <1>8, SaveDeviceTypes, DeviceStepRules, SaveDeviceFree, DeviceStepJobs
<1>9. CASE DropDevice(r)
  BY <1>9, DropDeviceTypes, DeviceStepRules, DropDeviceFree, DeviceStepJobs
<1>10. CASE ReleaseLines(r)
  <2>1. /\ req' = [req EXCEPT ![r] = Idle] /\ UNCHANGED <<line, device>>
        /\ held' \subseteq held /\ late \subseteq late'
    BY <1>10 DEF ReleaseLines, Goto
  <2> QED BY <1>10, <2>1, ReleaseLinesTypes, DeviceStepRules, EndFree, DeviceStepJobs
<1>11. Cameras \subseteq Devices /\ AdminPcs \subseteq Devices
  BY DEF Devices
<1>12. CASE \E D \in {Cameras, AdminPcs} : StartDevice(r, D)
  BY <1>1, <1>2, <1>3, <1>11, <1>12 DEF StartDevice
<1> QED BY <1>4, <1>5, <1>6, <1>7, <1>8, <1>9, <1>10, <1>12
        DEF DeviceRequest, CameraRequest, AdminPcRequest

LEMMA CutMastersKeeps ==
  ASSUME MastersIInv, NEW r \in Requests, CutMasters(r)
  PROVE  MastersIInv'
<1>1. /\ req' = [req EXCEPT ![r] = Idle] /\ UNCHANGED <<line, device>>
      /\ held' \subseteq held /\ late \subseteq late'
  BY DEF CutMasters
<1> QED BY <1>1, CutMastersTypes, CutMastersRules, EndFree, StepJobs DEF MastersIInv

LEMMA OpenJobKeeps ==
  ASSUME MastersIInv, NEW j \in Jobs, NEW l \in 0 .. NLines, OpenJob(j, l)
  PROVE  MastersIInv'
BY OpenJobTypes, OpenJobRules, OpenJobFree, OpenJobJobs DEF MastersIInv

LEMMA SameMasters ==
  ASSUME MastersIInv, UNCHANGED <<masters, job>>,
         calls' \in 0 .. CallLimit, cuts' \in 0 .. CutLimit
  PROVE  MastersIInv'
<1> USE DEF MastersIInv, masters
<1>1. TypesInv'
  BY DEF TypesInv, TypeOKMasters, ShapeInv
<1>2. RulesInv'
  BY DEF RulesInv, OneWriter, LaneInv, BranchInv
<1>3. DeviceInv'
  BY DEF DeviceInv, FreeInv, CreatedInv
<1>4. JobInv'
  BY DEF JobInv
<1> QED BY <1>1, <1>2, <1>3, <1>4

LEMMA InitMastersKeeps ==
  ASSUME InitMasters
  PROVE  MastersIInv
<1>1. PICK there \in SUBSET (2 .. NLines) :
        line = [l \in Lines |->
                 [st |-> IF l \in {1} \union there THEN "live" ELSE "none",
                  lane |-> IF l = 1 THEN 1 ELSE 0]]
  BY DEF InitMasters
<1>2. PICK D \in SUBSET Devices :
        /\ device = [d \in Devices |-> IF d \in D THEN "live" ELSE "none"]
        /\ held = D \X {1}
  BY DEF InitMasters
<1>3. PICK J \in SUBSET Jobs :
        job = [j \in Jobs |-> [st |-> IF j \in J THEN "active" ELSE "none",
                              line |-> IF j \in J THEN 1 ELSE 0]]
  BY DEF InitMasters
<1>4. /\ centre = [k \in Centres |-> [live |-> TRUE, linked |-> k = Home]]
      /\ req = [r \in Requests |-> Idle]
      /\ calls = 0 /\ cuts = 0 /\ loose = {} /\ late = {}
  BY DEF InitMasters
<1>5. /\ 1 \in Lines /\ 1 \in 0 .. NLines /\ 0 \in 0 .. NLines
      /\ 1 \in 0 .. NLanes /\ 0 \in 0 .. NLanes
      /\ 0 \in 0 .. CallLimit /\ 0 \in 0 .. CutLimit
  BY MastersAssumption DEF Lines
<1>6. line \in [Lines -> LineRow] /\ \A l \in Lines : line[l].st # "deleted"
  BY <1>1, <1>5 DEF LineRow
<1>7. device \in [Devices -> {"none", "live", "deleted"}] /\ held \subseteq Devices \X Lines
  BY <1>2, <1>5
<1>8. job \in [Jobs -> JobRow]
  BY <1>3, <1>5 DEF JobRow
<1>9. centre \in [Centres -> CentreRow]
  BY <1>4 DEF CentreRow
<1>10. req \in [Requests -> MasterReq] /\ \A r \in Requests : Shape(req[r]) /\ req[r].pc = "idle"
  BY <1>4, IdleShape DEF Idle
<1>11. TypesInv
  <2>1. TypeOKMasters
    BY <1>4, <1>5, <1>6, <1>7, <1>8, <1>9, <1>10
       DEF TypeOKMasters, LineRow, CentreRow, JobRow, MasterReq
  <2> QED BY <2>1, <1>10 DEF TypesInv, ShapeInv
<1>12. RulesInv
  <2>1. HeldOnce(line, req)
    BY <1>1 DEF HeldOnce
  <2>2. OwnedOnce(centre)
    BY <1>4 DEF OwnedOnce
  <2>3. OneWriter
    BY <1>10 DEF OneWriter, Writing
  <2>4. \A r \in Requests : LaneStep(line, req[r]) /\ BranchStep(centre, req[r])
    BY <1>10 DEF LaneStep, BranchStep
  <2> QED BY <2>1, <2>2, <2>3, <2>4 DEF RulesInv, LaneInv, BranchInv
<1>13. DeviceInv
  <2>1. FreeInv
    BY <1>6, <1>10 DEF FreeInv, MapOf
  <2>2. \A r \in Requests : req[r].op = "none"
    BY <1>4 DEF Idle
  <2>3. \A d \in Devices : device[d] = "none" => \A l \in Lines : <<d, l>> \notin held
    BY <1>2
  <2>4. CreatedInv
    BY <1>10, <2>2, <2>3 DEF CreatedInv, DeviceSteps
  <2> QED BY <2>1, <2>4 DEF DeviceInv
<1>14. JobInv
  BY <1>10 DEF JobInv, JobStep
<1> QED BY <1>11, <1>12, <1>13, <1>14 DEF MastersIInv

\* The invariant of the masters says that their rules hold.
LEMMA MastersImplied ==
  ASSUME MastersIInv
  PROVE  MastersInv
<1>1. LaneHeldOnce
  <2>1. CASE "lane" \in loose
    BY <2>1 DEF LaneHeldOnce
  <2>2. CASE "lane" \notin loose
    BY <2>2 DEF MastersIInv, RulesInv, LaneInv, HeldOnce, HalfWay, LaneHeldOnce, LiveLines
  <2> QED BY <2>1, <2>2
<1>2. BranchOwnedOnce
  BY DEF MastersIInv, RulesInv, BranchInv, OwnedOnce, BranchOwnedOnce
<1>3. RemovedLineIsFree
  BY DEF MastersIInv, DeviceInv, FreeInv, InUse, RemovedLineIsFree
<1> QED BY <1>1, <1>2, <1>3 DEF MastersInv

-----------------------------------------------------------------------------
(* What a step may not do to a lane under a job, or to an admin PC.        *)

\* A step of request r is of no other request, and a swap or a write is
\* followed by its own save or by nothing.
LEMMA RequestMoves ==
  ASSUME TypesInv, NEW r \in Requests,
         LineRequest(r) \/ CentreRequest(r) \/ DeviceRequest(r) \/ CutMasters(r)
  PROVE  /\ \A q \in Requests \ {r} : req'[q] = req[q]
         /\ job' = job
         /\ req[r].pc \in {"swap", "write"} =>
              SwapHolder(r) \/ WriteLane(r) \/ UNCHANGED line
<1>1. ASSUME \E new : Begin(r, new) \/ Goto(r, new)
      PROVE  job' = job /\ \A q \in Requests \ {r} : req'[q] = req[q]
  BY <1>1, OldTypes DEF Begin, Goto
<1>2. CASE Ready(r) /\ LineRequest(r)
  <2>1. \E new : Begin(r, new) \/ Goto(r, new)
    BY <1>2 DEF LineRequest, CreateLine, EditLine, RemoveLine, BeginWriting, SaveLine,
                CheckLane, SwapHolder, WriteLane, DropLine
  <2> QED BY <1>1, <1>2, <2>1 DEF Ready
<1>3. CASE ~ Ready(r) /\ LineRequest(r)
  <2>1. SaveLine(r) \/ CheckLane(r) \/ SwapHolder(r) \/ WriteLane(r) \/ DropLine(r)
    BY <1>3 DEF LineRequest
  <2>2. \E new : Goto(r, new)
    BY <2>1 DEF SaveLine, CheckLane, SwapHolder, WriteLane, DropLine
  <2>3. req[r].pc \in {"swap", "write"} => SwapHolder(r) \/ WriteLane(r) \/ UNCHANGED line
    BY <2>1 DEF SaveLine, CheckLane, DropLine
  <2> QED BY <1>1, <2>2, <2>3
<1>4. CASE CentreRequest(r)
  <2>1. \E new : Begin(r, new) \/ Goto(r, new)
    BY <1>4 DEF CentreRequest, EditCentre, RemoveCentre, BeginWriting, SaveColumns,
                LinkBranch, UnlinkBranch, SaveLane, EndLanes, StoreBranch, CloseCentre
  <2>2. req[r].pc \in {"swap", "write"} => UNCHANGED line
    BY <1>4 DEF CentreRequest, EditCentre, RemoveCentre, SaveColumns, LinkBranch,
                UnlinkBranch, SaveLane, EndLanes, StoreBranch, CloseCentre
  <2> QED BY <1>1, <2>1, <2>2
<1>5. CASE DeviceRequest(r)
  <2>1. CASE \E D \in {Cameras, AdminPcs} : StartDevice(r, D)
    <3>1. \E new : Begin(r, new)
      BY <2>1 DEF StartDevice, CreateDevice, EditDevice, RemoveDevice
    <3>2. UNCHANGED line
      BY <2>1 DEF StartDevice, CreateDevice, EditDevice, RemoveDevice
    <3> QED BY <1>1, <3>1, <3>2
  <2>2. CASE ~ \E D \in {Cameras, AdminPcs} : StartDevice(r, D)
    <3>1. \/ UnmapCamera(r) \/ InsertCameraLines(r) \/ ReplacePcLines(r)
          \/ SaveDeviceRow(r) \/ SaveDevice(r) \/ DropDevice(r) \/ ReleaseLines(r)
      BY <1>5, <2>2 DEF DeviceRequest, CameraRequest, AdminPcRequest
    <3>2. \E new : Goto(r, new)
      BY <3>1 DEF UnmapCamera, InsertCameraLines, ReplacePcLines, SaveDeviceRow, SaveDevice,
                  DropDevice, ReleaseLines, Mapped
    <3>3. UNCHANGED line
      BY <3>1, DeviceGoes
    <3> QED BY <1>1, <3>2, <3>3
  <2> QED BY <2>1, <2>2
<1>6. CASE CutMasters(r)
  BY <1>6, OldTypes DEF CutMasters
<1> QED BY <1>2, <1>3, <1>4, <1>5, <1>6

LEMMA ClearIs ==
  ASSUME NEW q, NEW l, Clear(job, q, l)
  PROVE  ActiveOn(l) = {} \/ l \in q.opened
BY DEF Clear, ActiveOn

\* The lanes that a step of an assignment changes.
LEMMA LaneStepFixed ==
  ASSUME MastersIInv, NEW r \in Requests,
         LineRequest(r) \/ CentreRequest(r) \/ DeviceRequest(r) \/ CutMasters(r),
         NEW q \in Requests, NEW l \in Lines,
         req[q].pc \in {"swap", "write"}, req'[q].pc # req[q].pc,
         line'[l].lane # line[l].lane
  PROVE  ActiveOn(l) = {} \/ l \in req[q].opened
<1>1. q = r
  BY RequestMoves DEF MastersIInv
<1>2. SwapHolder(q) \/ WriteLane(q)
  BY <1>1, RequestMoves DEF MastersIInv
<1>3. JobStep(job, req[q])
  BY DEF MastersIInv, JobInv
<1>4. line \in [Lines -> LineRow]
  BY OldTypes DEF MastersIInv
<1>5. CASE SwapHolder(q)
  <2>1. l = req[q].other
    BY <1>4, <1>5 DEF SwapHolder
  <2>2. Clear(job, req[q], l)
    BY <1>3, <1>5, <2>1 DEF JobStep, SwapHolder
  <2> QED BY <2>2, ClearIs
<1>6. CASE WriteLane(q)
  <2>1. l = req[q].at
    BY <1>4, <1>6 DEF WriteLane
  <2>2. Clear(job, req[q], l)
    BY <1>3, <1>6, <2>1 DEF JobStep, WriteLane
  <2> QED BY <2>2, ClearIs
<1> QED BY <1>2, <1>5, <1>6

\* The mappings that a step removes.
LEMMA HeldStep ==
  ASSUME MastersIInv, NEW r \in Requests,
         LineRequest(r) \/ CentreRequest(r) \/ DeviceRequest(r) \/ CutMasters(r),
         NEW d \in AdminPcs, LinesHeld(d) # {}, \A l \in Lines : <<d, l>> \notin held'
  PROVE  \E q \in Requests : req[q].pc = "release" /\ req[q].at = d
<1>1. PICK g \in Lines : <<d, g>> \in held
  BY DEF LinesHeld
<1>2. d \notin Cameras /\ req[r] \in MasterReq /\ Shape(req[r])
  BY OldTypes, MastersAssumption DEF MastersIInv
<1>3. held' # held
  BY <1>1
<1>4. UnmapCamera(r) \/ InsertCameraLines(r) \/ ReplacePcLines(r) \/ ReleaseLines(r)
  <2>1. LineRequest(r) => UNCHANGED held
    BY DEF LineRequest, CreateLine, EditLine, RemoveLine, SaveLine, CheckLane, SwapHolder,
           WriteLane, DropLine
  <2>2. CentreRequest(r) => UNCHANGED held
    BY DEF CentreRequest, EditCentre, RemoveCentre, SaveColumns, LinkBranch, UnlinkBranch,
           SaveLane, EndLanes, StoreBranch, CloseCentre
  <2>3. CutMasters(r) => UNCHANGED held
    BY DEF CutMasters
  <2>4. ASSUME NEW D, StartDevice(r, D)
        PROVE  UNCHANGED held
    BY <2>4 DEF StartDevice, CreateDevice, EditDevice, RemoveDevice
  <2>5. SaveDeviceRow(r) \/ SaveDevice(r) \/ DropDevice(r) => UNCHANGED held
    BY DEF SaveDeviceRow, SaveDevice, DropDevice
  <2> QED BY <1>3, <2>1, <2>2, <2>3, <2>4, <2>5
          DEF DeviceRequest, CameraRequest, AdminPcRequest
<1>5. CASE UnmapCamera(r)
  <2>1. req[r].at # d
    BY <1>2, <1>5 DEF UnmapCamera, Shape
  <2>2. <<d, g>> \in held'
    BY <1>1, <1>5, <2>1 DEF UnmapCamera
  <2> QED BY <2>2
<1>6. CASE InsertCameraLines(r)
  <2>1. <<d, g>> \in held'
    BY <1>1, <1>2, <1>6 DEF InsertCameraLines
  <2> QED BY <2>1
<1>7. CASE ReplacePcLines(r)
  <2> DEFINE L == {x[2] : x \in req[r].plan}
             kept == held \ ({req[r].at} \X Lines)
  <2>1. req[r].plan # {}
    BY <1>2, <1>7 DEF ReplacePcLines, Shape
  <2>2. PICK x \in req[r].plan : TRUE
    BY <2>1
  <2>3. L \subseteq Lines /\ x[2] \in L
    BY <1>2, PlanLines
  <2>4. held' = kept \union ({req[r].at} \X L)
    BY <1>3, <1>7 DEF ReplacePcLines
  <2> HIDE DEF L
  <2>5. CASE req[r].at = d
    <3>1. <<d, x[2]>> \in held'
      BY <2>3, <2>4, <2>5
    <3> QED BY <2>3, <3>1
  <2>6. CASE req[r].at # d
    BY <1>1, <2>4, <2>6
  <2> QED BY <2>5, <2>6
<1>8. CASE ReleaseLines(r)
  <2>1. req[r].at = d
    BY <1>1, <1>8 DEF ReleaseLines
  <2> QED BY <1>8, <2>1 DEF ReleaseLines
<1> QED BY <1>4, <1>5, <1>6, <1>7, <1>8

-----------------------------------------------------------------------------
(* The cashier's desk.                                                     *)

PayRow == [st : {"none", "live", "deleted"}, job : Jobs \union {None},
           amount : Amounts, total : Amounts, for : Jobs \union {None}]

TillReq ==
  [pc : {"idle", "number", "pay", "edit", "job", "link", "void", "intake"},
   id : 0 .. MaxPay, row : PayRow, auto : BOOLEAN, line : 0 .. NLines,
   new : Jobs \union {None}]

DeskTypes ==
  /\ charge \in [Charges -> Amounts]
  /\ mapped \in [Jobs -> Charges \union {None}]
  /\ pay \in [Pays -> PayRow]
  /\ till \in [Requests -> TillReq]
  /\ strays \subseteq Jobs

\* A payment names a job that exists, and one recorded for a job is not above
\* the price it was checked against.
Backed(jb, row) ==
  /\ row.job # None => jb[row.job].st # "none"
  /\ row.for # None => row.for = row.job /\ (row.total # 0 => row.amount <= row.total)

\* What a request at the desk has in hand.
TillStep(jb, t) ==
  /\ t.pc \in {"pay", "edit", "job", "link", "void"} => t.id \in Pays
  /\ t.pc # "idle" => t.row.st = "live" /\ Backed(jb, t.row)
  /\ t.pc = "intake" => t.row.job = None /\ t.row.for = None
  /\ t.pc = "link" => t.new \in Jobs /\ jb[t.new].st # "none"

\* A job is named by one payment at most, removed ones included.
RowsInv ==
  /\ \A p \in Pays : (pay[p].st = "none" => pay[p] = NoPay) /\ Backed(job, pay[p])
  /\ \A p, q \in Pays : p # q /\ pay[p].job # None => pay[p].job # pay[q].job

TillInv == \A r \in Requests : TillStep(job, till[r])

PayInv == RowsInv /\ TillInv /\ OpenedJobsPaid

DeskIInv == MastersIInv /\ DeskTypes /\ PayInv

\* Job j is named by a payment, about to be, or parted from its payment.
Covered(py, tl, sy, j) ==
  \/ \E p \in Pays : py[p].job = j
  \/ \E r \in Requests : tl[r].pc = "link" /\ tl[r].new = j
  \/ j \in sy

JobsStay(jb, jb2) == \A j \in Jobs : jb[j].st # "none" => jb2[j].st # "none"

LEMMA EaseTypes ==
  /\ NoPay \in PayRow /\ AtEase \in TillReq
  /\ \A jb : TillStep(jb, AtEase) /\ Backed(jb, NoPay)
<1>1. 0 \in Amounts /\ 0 \in 0 .. MaxPay /\ 0 \in 0 .. NLines
  BY CashierAssumption, MastersAssumption DEF Amounts
<1>2. NoPay \in PayRow
  BY <1>1 DEF NoPay, PayRow
<1>3. AtEase \in TillReq
  BY <1>1, <1>2 DEF AtEase, TillReq
<1> QED BY <1>2, <1>3 DEF TillStep, Backed, AtEase, NoPay

LEMMA BackedKept ==
  ASSUME NEW jb, NEW jb2, JobsStay(jb, jb2), NEW row \in PayRow, Backed(jb, row)
  PROVE  Backed(jb2, row)
BY DEF Backed, JobsStay, PayRow

LEMMA TillStepKept ==
  ASSUME NEW jb, NEW jb2, JobsStay(jb, jb2), NEW t \in TillReq, TillStep(jb, t)
  PROVE  TillStep(jb2, t)
<1>1. t.row \in PayRow
  BY DEF TillReq
<1>2. Backed(jb, t.row) => Backed(jb2, t.row)
  BY <1>1, BackedKept
<1> QED BY <1>2 DEF TillStep, JobsStay

\* A request at the desk moves on.
LEMMA TillMoves ==
  ASSUME DeskIInv, NEW r \in Requests, NEW new \in TillReq,
         till' = [till EXCEPT ![r] = new], TillStep(job', new), JobsStay(job, job')
  PROVE  till' \in [Requests -> TillReq] /\ TillInv'
<1>1. till \in [Requests -> TillReq]
  BY DEF DeskIInv, DeskTypes
<1>2. till' \in [Requests -> TillReq]
  BY <1>1
<1>3. ASSUME NEW q \in Requests
      PROVE  TillStep(job', till'[q])
  <2>1. CASE q = r
    BY <1>1, <2>1
  <2>2. CASE q # r
    <3>1. till'[q] = till[q] /\ till[q] \in TillReq /\ TillStep(job, till[q])
      BY <1>1, <2>2 DEF DeskIInv, PayInv, TillInv
    <3> QED BY <3>1, TillStepKept
  <2> QED BY <2>1, <2>2
<1> QED BY <1>2, <1>3 DEF TillInv

LEMMA SameTill ==
  ASSUME DeskIInv, UNCHANGED till, JobsStay(job, job')
  PROVE  TillInv'
<1>1. \A q \in Requests : till[q] \in TillReq /\ TillStep(job, till[q])
  BY DEF DeskIInv, DeskTypes, PayInv, TillInv
<1> QED BY <1>1, TillStepKept DEF TillInv

LEMMA SameRows ==
  ASSUME DeskIInv, UNCHANGED pay, JobsStay(job, job')
  PROVE  RowsInv'
<1>1. \A p \in Pays : pay[p] \in PayRow
  BY DEF DeskIInv, DeskTypes
<1>2. \A p \in Pays : Backed(job', pay[p])
  BY <1>1, BackedKept DEF DeskIInv, PayInv, RowsInv
<1> QED BY <1>2 DEF DeskIInv, PayInv, RowsInv

\* A payment is written.
LEMMA RowWritten ==
  ASSUME DeskIInv, NEW id \in Pays, NEW row \in PayRow, row.st # "none",
         Backed(job', row), JobsStay(job, job'), pay' = [pay EXCEPT ![id] = row],
         \A p \in Pays \ {id} : row.job # None => pay[p].job # row.job
  PROVE  pay' \in [Pays -> PayRow] /\ RowsInv'
<1>1. /\ pay \in [Pays -> PayRow] /\ pay' \in [Pays -> PayRow]
      /\ pay'[id] = row /\ \A p \in Pays \ {id} : pay'[p] = pay[p]
  BY DEF DeskIInv, DeskTypes
<1>2. ASSUME NEW p \in Pays
      PROVE  (pay'[p].st = "none" => pay'[p] = NoPay) /\ Backed(job', pay'[p])
  <2>1. CASE p = id
    BY <1>1, <2>1
  <2>2. CASE p # id
    <3>1. pay'[p] = pay[p] /\ pay[p] \in PayRow
      BY <1>1, <2>2
    <3> QED BY <3>1, BackedKept DEF DeskIInv, PayInv, RowsInv
  <2> QED BY <2>1, <2>2
<1>3. ASSUME NEW p \in Pays, NEW q \in Pays, p # q, pay'[p].job # None
      PROVE  pay'[p].job # pay'[q].job
  <2>1. \A x, y \in Pays : x # y /\ pay[x].job # None => pay[x].job # pay[y].job
    BY DEF DeskIInv, PayInv, RowsInv
  <2> QED BY <1>1, <1>3, <2>1
<1> QED BY <1>1, <1>2, <1>3 DEF RowsInv

\* The jobs that exist stay covered.
LEMMA CoveredKept ==
  ASSUME DeskIInv, NEW r \in Requests,
         \A q \in Requests \ {r} : till'[q] = till[q],
         till[r].pc = "link" => Covered(pay', till', strays', till[r].new),
         strays \subseteq strays',
         \A p \in Pays : \/ pay'[p].job = pay[p].job
                         \/ pay[p].job = None
                         \/ pay[p].job \in strays',
         \A j \in Jobs : job'[j].st # "none" =>
           job[j].st # "none" \/ Covered(pay', till', strays', j)
  PROVE  OpenedJobsPaid'
<1>1. ASSUME NEW j \in Jobs, job'[j].st # "none"
      PROVE  Covered(pay', till', strays', j)
  <2>1. CASE job[j].st = "none"
    BY <1>1, <2>1
  <2>2. CASE job[j].st # "none"
    <3>1. Covered(pay, till, strays, j)
      BY <2>2 DEF DeskIInv, PayInv, OpenedJobsPaid, Covered
    <3>2. CASE \E p \in Pays : pay[p].job = j
      BY <3>2, CashierAssumption DEF Covered
    <3>3. CASE \E q \in Requests : till[q].pc = "link" /\ till[q].new = j
      <4>1. PICK q \in Requests : till[q].pc = "link" /\ till[q].new = j
        BY <3>3
      <4>2. CASE q = r
        BY <4>1, <4>2
      <4>3. CASE q # r
        BY <4>1, <4>3 DEF Covered
      <4> QED BY <4>2, <4>3
    <3>4. CASE j \in strays
      BY <3>4 DEF Covered
    <3> QED BY <3>1, <3>2, <3>3, <3>4 DEF Covered
  <2> QED BY <2>1, <2>2
<1> QED BY <1>1 DEF OpenedJobsPaid, Covered

\* The next number is a payment that is not there yet.
LEMMA NextIdFresh ==
  ASSUME DeskIInv
  PROVE  NextId \in Nat \ {0} /\ (NextId <= MaxPay => NextId \in Pays /\ pay[NextId] = NoPay)
<1> DEFINE used == {p \in Pays : pay[p].st # "none"}
<1>1. MaxPay \in Nat
  BY CashierAssumption
<1>2. CASE used = {}
  <2>1. NextId = 1
    BY <1>2 DEF NextId
  <2> QED BY <1>1, <1>2, <2>1 DEF Pays, DeskIInv, PayInv, RowsInv
<1>3. CASE used # {}
  <2> DEFINE below == {MaxPay - p : p \in used}
  <2>1. below \in SUBSET Nat /\ below # {}
    BY <1>1, <1>3 DEF Pays
  <2>2. PICK n \in below : \A m \in below : n <= m
    BY <2>1, LeastExists
  <2>3. PICK x \in used : n = MaxPay - x
    BY <2>2
  <2>4. \A y \in used : x >= y
    <3>1. ASSUME NEW y \in used
          PROVE  x >= y
      <4>1. n <= MaxPay - y
        BY <2>2
      <4> QED BY <1>1, <2>3, <4>1 DEF Pays
    <3> QED BY <3>1
  <2>5. Max(used) \in used /\ \A y \in used : Max(used) >= y
    BY <2>3, <2>4 DEF Max
  <2>6. NextId = 1 + Max(used)
    BY <1>3 DEF NextId
  <2> HIDE DEF below
  <2>7. NextId \in Nat \ {0}
    BY <1>1, <2>5, <2>6 DEF Pays
  <2>8. ASSUME NextId <= MaxPay
        PROVE  NextId \in Pays /\ NextId \notin used
    BY <1>1, <2>5, <2>6, <2>7, <2>8 DEF Pays
  <2> QED BY <2>7, <2>8 DEF DeskIInv, PayInv, RowsInv
<1> QED BY <1>2, <1>3

\* The sum of no amounts.
LEMMA SumOfNone == SumSet({}) = 0
<1> DEFINE base(iter) ==
      [s \in SUBSET {} |->
         IF s = {} THEN 0
         ELSE (CHOOSE x \in s : TRUE) + iter[s \ {CHOOSE x \in s : TRUE}]]
<1>1. \E g : g = base(g)
  <2> DEFINE w == [s \in SUBSET {} |-> 0]
  <2>1. w = base(w)
    OBVIOUS
  <2> HIDE DEF w
  <2> QED BY <2>1
<1> QED BY <1>1 DEF SumSet, FoldSet, MapThenFoldSet

\* What a row of a request has to be like.
LEMMA TillParts ==
  ASSUME DeskIInv, NEW r \in Requests
  PROVE  /\ till[r] \in TillReq /\ TillStep(job, till[r]) /\ till[r].row \in PayRow
         /\ till[r].id \in 0 .. MaxPay /\ till[r].line \in 0 .. NLines
         /\ till[r].new \in Jobs \union {None}
BY DEF DeskIInv, DeskTypes, PayInv, TillInv, TillReq

LEMMA PriceIsAmount ==
  ASSUME DeskIInv, NEW j \in Jobs
  PROVE  PriceOf(j) \in Amounts
<1>1. charge \in [Charges -> Amounts] /\ mapped[j] \in Charges \union {None}
  BY DEF DeskIInv, DeskTypes
<1>2. "own" \in Charges /\ "common" \in Charges
  BY DEF Charges
<1> QED BY <1>1, <1>2 DEF PriceOf

\* The greater of zero and a number.
LEMMA MaxOfTwo ==
  ASSUME NEW y \in Int
  PROVE  Max({0, y}) \in {0, y}
<1>1. \E x \in {0, y} : \A z \in {0, y} : x >= z
  BY DEF Max
<1> QED BY <1>1 DEF Max

\* An amount that is accepted for a job without a payment is not above a price.
LEMMA AcceptedIsPayable ==
  ASSUME DeskIInv, NEW j \in Jobs, NEW a \in Amounts, PaidFor(j) = {},
         Acceptable(j, a), PriceOf(j) # 0
  PROVE  a <= PriceOf(j)
<1>1. PriceOf(j) \in Nat /\ Amounts \subseteq Nat
  BY PriceIsAmount, CashierAssumption DEF Amounts
<1>2. Collected(j) = 0
  <2>1. {pay[p].amount : p \in PaidFor(j)} = {}
    OBVIOUS
  <2> QED BY <2>1, SumOfNone DEF Collected
<1>3. CASE a \in {0, PriceOf(j)}
  BY <1>1, <1>3
<1>4. CASE \E advance \in Amounts : a = Max({0, PriceOf(j) - advance - Collected(j)})
  <2>1. PICK advance \in Amounts : a = Max({0, PriceOf(j) - advance - Collected(j)})
    BY <1>4
  <2> DEFINE y == PriceOf(j) - advance - Collected(j)
  <2>2. advance \in Nat /\ y \in Int /\ y <= PriceOf(j)
    BY <1>1, <1>2
  <2>3. a \in {0, y}
    BY <2>1, <2>2, MaxOfTwo
  <2> QED BY <1>1, <2>2, <2>3
<1> QED BY <1>3, <1>4 DEF Acceptable

\* The masters beside a step of the desk.
LEMMA CounterMasters ==
  ASSUME DeskIInv, NEW r \in Requests, NEW new, Counter(r, new)
  PROVE  MastersIInv' /\ job' = job /\ till[r].pc = "idle" /\ till' = [till EXCEPT ![r] = new]
<1>1. calls' \in 0 .. CallLimit /\ cuts' \in 0 .. CutLimit
  BY OldTypes, MastersAssumption DEF DeskIInv, MastersIInv, Counter, Free, Ready
<1>2. UNCHANGED <<masters, job>>
  BY DEF Counter
<1> QED BY <1>1, <1>2, SameMasters DEF DeskIInv, Counter, Free

LEMMA AtTillMasters ==
  ASSUME DeskIInv, NEW r \in Requests, UNCHANGED mvars
  PROVE  MastersIInv' /\ job' = job
<1>1. calls' \in 0 .. CallLimit /\ cuts' \in 0 .. CutLimit
  BY OldTypes DEF DeskIInv, MastersIInv, mvars
<1> QED BY <1>1, SameMasters DEF DeskIInv, mvars, masters

\* A request of the desk begins.
LEMMA TillBegins ==
  ASSUME DeskIInv, NEW r \in Requests, NEW new \in TillReq, Counter(r, new),
         TillStep(job, new), UNCHANGED <<pay, strays>>,
         charge' \in [Charges -> Amounts], mapped' \in [Jobs -> Charges \union {None}]
  PROVE  DeskIInv'
<1>1. MastersIInv' /\ job' = job /\ till[r].pc = "idle" /\ till' = [till EXCEPT ![r] = new]
  BY CounterMasters
<1>2. JobsStay(job, job')
  BY <1>1 DEF JobsStay
<1>3. till' \in [Requests -> TillReq] /\ TillInv' /\ RowsInv'
  BY <1>1, <1>2, TillMoves, SameRows
<1>4. \A q \in Requests \ {r} : till'[q] = till[q]
  BY <1>1 DEF DeskIInv, DeskTypes
<1>5. OpenedJobsPaid'
  BY <1>1, <1>4, CoveredKept
<1>6. DeskTypes'
  BY <1>3 DEF DeskIInv, DeskTypes
<1> QED BY <1>1, <1>3, <1>5, <1>6 DEF DeskIInv, PayInv

LEMMA CollectKeeps ==
  ASSUME DeskIInv, NEW r \in Requests, NEW j \in Jobs \union {None}, NEW a \in Amounts,
         NEW auto \in BOOLEAN, NEW l \in {0, 1}, Collect(r, j, a, auto, l)
  PROVE  DeskIInv'
<1> DEFINE price == IF j = None THEN 0 ELSE PriceOf(j)
           row == [st |-> "live", job |-> j, amount |-> a, for |-> j, total |-> price]
           new == [AtEase EXCEPT !.pc = "number", !.auto = auto, !.row = row,
                                 !.line = LineOf(j, l)]
<1>1. price \in Amounts
  BY PriceIsAmount, CashierAssumption DEF Amounts
<1>2. LineOf(j, l) \in 0 .. NLines
  <2>1. CASE j = None
    BY <2>1, MastersAssumption DEF LineOf
  <2>2. CASE j # None
    <3>1. job[j] \in JobRow
      BY <2>2, OldTypes DEF DeskIInv, MastersIInv
    <3> QED BY <2>2, <3>1 DEF LineOf, JobRow
  <2> QED BY <2>1, <2>2
<1>3. Backed(job, row)
  <2>1. ASSUME j # None
        PROVE  job[j].st # "none" /\ (price # 0 => a <= price)
    <3>1. Exists(j) /\ PaidFor(j) = {} /\ Acceptable(j, a)
      BY <2>1 DEF Collect
    <3> QED BY <2>1, <3>1, AcceptedIsPayable DEF Exists
  <2> HIDE DEF price
  <2> QED BY <2>1 DEF Backed
<1> HIDE DEF price
<1>4. row \in PayRow /\ row.st = "live"
  BY <1>1 DEF PayRow
<1>5. Counter(r, new) /\ UNCHANGED <<charge, mapped, pay, strays>>
  BY DEF Collect, price
<1> HIDE DEF row
<1>6. new \in TillReq
  BY <1>2, <1>4, EaseTypes DEF TillReq, AtEase
<1>7. new.pc = "number" /\ new.row = row
  BY DEF AtEase
<1> HIDE DEF new
<1>8. TillStep(job, new)
  BY <1>3, <1>4, <1>7 DEF TillStep
<1> QED BY <1>5, <1>6, <1>8, TillBegins DEF DeskIInv, DeskTypes

LEMMA EditPaymentKeeps ==
  ASSUME DeskIInv, NEW r \in Requests, NEW p \in Pays, NEW j \in Jobs \union {None},
         NEW a \in Amounts, NEW auto \in BOOLEAN, NEW l \in {0, 1},
         EditPayment(r, p, j, a, auto, l)
  PROVE  DeskIInv'
<1> DEFINE owner == IF j = None THEN pay[p].job ELSE j
           row == [pay[p] EXCEPT !.job = owner, !.amount = a, !.for = None]
           new == [AtEase EXCEPT !.pc = "edit", !.id = p, !.auto = auto, !.line = l,
                                 !.row = row]
<1>1. pay[p] \in PayRow /\ pay[p].st = "live" /\ Backed(job, pay[p]) /\ (j # None => Exists(j))
  BY DEF EditPayment, DeskIInv, DeskTypes, PayInv, RowsInv
<1>2. owner \in Jobs \union {None} /\ (owner # None => job[owner].st # "none")
  BY <1>1 DEF PayRow, Backed, Exists
<1>3. Counter(r, new) /\ UNCHANGED <<charge, mapped, pay, strays>>
  BY DEF EditPayment
<1> HIDE DEF owner
<1>4. row \in PayRow /\ row.st = "live" /\ row.job = owner /\ row.for = None
  BY <1>1, <1>2 DEF PayRow
<1> HIDE DEF row
<1>5. p \in 0 .. MaxPay /\ l \in 0 .. NLines
  BY MastersAssumption, CashierAssumption DEF Pays
<1>6. new \in TillReq
  BY <1>4, <1>5, EaseTypes DEF TillReq, AtEase
<1>7. new.pc = "edit" /\ new.row = row /\ new.id = p
  BY DEF AtEase
<1> HIDE DEF new
<1>8. TillStep(job, new)
  BY <1>2, <1>4, <1>7 DEF TillStep, Backed
<1> QED BY <1>3, <1>6, <1>8, TillBegins DEF DeskIInv, DeskTypes

LEMMA RemovePaymentKeeps ==
  ASSUME DeskIInv, NEW r \in Requests, NEW p \in Pays, RemovePayment(r, p)
  PROVE  DeskIInv'
<1> DEFINE new == [AtEase EXCEPT !.pc = "void", !.id = p, !.row = pay[p]]
<1>1. pay[p] \in PayRow /\ pay[p].st = "live" /\ Backed(job, pay[p])
  BY DEF RemovePayment, DeskIInv, DeskTypes, PayInv, RowsInv
<1>2. Counter(r, new) /\ UNCHANGED <<charge, mapped, pay, strays>>
  BY DEF RemovePayment
<1>3. p \in 0 .. MaxPay
  BY CashierAssumption DEF Pays
<1>4. new \in TillReq
  BY <1>1, <1>3, EaseTypes DEF TillReq, AtEase
<1>5. new.pc = "void" /\ new.row = pay[p] /\ new.id = p
  BY DEF AtEase
<1> HIDE DEF new
<1>6. TillStep(job, new)
  BY <1>1, <1>5 DEF TillStep
<1> QED BY <1>2, <1>4, <1>6, TillBegins DEF DeskIInv, DeskTypes

LEMMA StartIntakeKeeps ==
  ASSUME DeskIInv, NEW r \in Requests, NEW l \in 0 .. NLines, NEW a \in Amounts,
         NEW paid \in BOOLEAN, StartIntake(r, l, a, paid)
  PROVE  DeskIInv'
<1> DEFINE row == [NoPay EXCEPT !.st = "live", !.amount = a]
           new == [AtEase EXCEPT !.pc = "intake", !.line = l, !.auto = paid, !.row = row]
<1>1. row \in PayRow
  BY EaseTypes DEF PayRow, NoPay
<1>2. row.st = "live" /\ row.job = None /\ row.for = None
  BY DEF NoPay
<1>3. Counter(r, new) /\ UNCHANGED <<charge, mapped, pay, strays>>
  BY DEF StartIntake
<1> HIDE DEF row
<1>4. new \in TillReq
  BY <1>1, EaseTypes DEF TillReq, AtEase
<1>5. new.pc = "intake" /\ new.row = row
  BY DEF AtEase
<1> HIDE DEF new
<1>6. TillStep(job, new)
  BY <1>2, <1>5 DEF TillStep, Backed
<1> QED BY <1>3, <1>4, <1>6, TillBegins DEF DeskIInv, DeskTypes

LEMMA ChargesKeep ==
  ASSUME DeskIInv, NEW r \in Requests, NEW j \in Jobs, NEW h \in Charges \union {None},
         NEW k \in Charges, NEW a \in Amounts,
         SetCharge(r, j, h) \/ WriteCharge(r, k, a)
  PROVE  DeskIInv'
<1>1. AtEase \in TillReq /\ TillStep(job, AtEase)
  BY EaseTypes
<1>2. /\ Counter(r, AtEase) /\ UNCHANGED <<pay, strays>>
      /\ charge' \in [Charges -> Amounts] /\ mapped' \in [Jobs -> Charges \union {None}]
  BY DEF SetCharge, WriteCharge, DeskIInv, DeskTypes
<1> QED BY <1>1, <1>2, TillBegins

LEMMA NumberPaymentKeeps ==
  ASSUME DeskIInv, NEW r \in Requests, NumberPayment(r)
  PROVE  DeskIInv'
<1> DEFINE new == [till[r] EXCEPT !.pc = "pay", !.id = NextId]
<1>1. NextId \in Pays /\ NextId \in 0 .. MaxPay
  BY NextIdFresh, CashierAssumption DEF NumberPayment, Pays
<1>2. till[r] \in TillReq /\ till[r].pc = "number" /\ TillStep(job, till[r])
  BY TillParts DEF NumberPayment
<1>3. new \in TillReq
  BY <1>1, <1>2 DEF TillReq
<1>4. new.pc = "pay" /\ new.id = NextId /\ new.row = till[r].row
  BY <1>2 DEF TillReq
<1>5. till' = [till EXCEPT ![r] = new] /\ UNCHANGED <<mvars, charge, mapped, pay, strays>>
  BY DEF NumberPayment, AtTill
<1> HIDE DEF new
<1>6. TillStep(job, new)
  BY <1>1, <1>2, <1>4 DEF TillStep
<1>7. MastersIInv' /\ job' = job
  BY <1>5, AtTillMasters
<1>8. JobsStay(job, job')
  BY <1>7 DEF JobsStay
<1>9. till' \in [Requests -> TillReq] /\ TillInv' /\ RowsInv'
  BY <1>3, <1>5, <1>6, <1>7, <1>8, TillMoves, SameRows
<1>10. \A q \in Requests \ {r} : till'[q] = till[q]
  BY <1>5 DEF DeskIInv, DeskTypes
<1>11. OpenedJobsPaid'
  BY <1>2, <1>5, <1>7, <1>10, CoveredKept
<1>12. DeskTypes'
  BY <1>5, <1>9 DEF DeskIInv, DeskTypes
<1> QED BY <1>7, <1>9, <1>11, <1>12 DEF DeskIInv, PayInv

\* A step of the desk that opens no job.
LEMMA TillGoesOn ==
  ASSUME DeskIInv, NEW r \in Requests, NEW new \in TillReq, AtTill(r, new),
         TillStep(job, new), UNCHANGED <<charge, mapped>>,
         pay' \in [Pays -> PayRow], RowsInv', strays \subseteq strays', strays' \subseteq Jobs,
         till[r].pc = "link" => Covered(pay', till', strays', till[r].new),
         \A p \in Pays : \/ pay'[p].job = pay[p].job
                         \/ pay[p].job = None
                         \/ pay[p].job \in strays'
  PROVE  DeskIInv'
<1>1. MastersIInv' /\ job' = job /\ till' = [till EXCEPT ![r] = new]
  BY AtTillMasters DEF AtTill
<1>2. JobsStay(job, job')
  BY <1>1 DEF JobsStay
<1>3. till' \in [Requests -> TillReq] /\ TillInv'
  BY <1>1, <1>2, TillMoves
<1>4. \A q \in Requests \ {r} : till'[q] = till[q]
  BY <1>1 DEF DeskIInv, DeskTypes
<1>5. OpenedJobsPaid'
  BY <1>1, <1>4, CoveredKept
<1>6. DeskTypes'
  BY <1>3 DEF DeskIInv, DeskTypes
<1> QED BY <1>1, <1>3, <1>5, <1>6 DEF DeskIInv, PayInv

\* What the unique index on the job says.
LEMMA NoConflict ==
  ASSUME DeskIInv, NEW id, NEW j, ~ Conflict(id, j)
  PROVE  \A p \in Pays \ {id} : j # None => pay[p].job # j
<1>1. \A p \in Pays : pay[p].st = "none" => pay[p].job = None
  BY DEF DeskIInv, PayInv, RowsInv, NoPay
<1> QED BY <1>1 DEF Conflict

\* A payment is saved over the row of the same number.
LEMMA RowSaved ==
  ASSUME DeskIInv, NEW id \in Pays, NEW row \in PayRow, row.st # "none",
         Backed(job, row), job' = job, ~ Conflict(id, row.job),
         pay' = [pay EXCEPT ![id] = row],
         strays' = strays \union
           IF pay[id].job # row.job THEN {pay[id].job} \ {None} ELSE {}
  PROVE  /\ pay' \in [Pays -> PayRow] /\ RowsInv'
         /\ strays \subseteq strays' /\ strays' \subseteq Jobs
         /\ \A p \in Pays : \/ pay'[p].job = pay[p].job
                            \/ pay[p].job = None
                            \/ pay[p].job \in strays'
<1>1. JobsStay(job, job') /\ Backed(job', row)
  BY DEF JobsStay
<1>2. \A p \in Pays \ {id} : row.job # None => pay[p].job # row.job
  BY NoConflict
<1>3. pay' \in [Pays -> PayRow] /\ RowsInv'
  BY <1>1, <1>2, RowWritten
<1>4. pay \in [Pays -> PayRow] /\ pay[id].job \in Jobs \union {None} /\ strays \subseteq Jobs
  BY DEF DeskIInv, DeskTypes, PayRow
<1>5. strays \subseteq strays' /\ strays' \subseteq Jobs
  BY <1>4
<1>6. ASSUME NEW p \in Pays
      PROVE  \/ pay'[p].job = pay[p].job
             \/ pay[p].job = None
             \/ pay[p].job \in strays'
  BY <1>4
<1> QED BY <1>3, <1>5, <1>6

\* Where a request goes after a save.
LEMMA AfterSave ==
  ASSUME NEW jb, NEW t \in TillReq, TillStep(jb, t), t.pc \in {"pay", "edit"}
  PROVE  [t EXCEPT !.pc = "job"] \in TillReq /\ TillStep(jb, [t EXCEPT !.pc = "job"])
<1> DEFINE new == [t EXCEPT !.pc = "job"]
<1>1. new \in TillReq
  BY DEF TillReq
<1>2. new.pc = "job" /\ new.id = t.id /\ new.row = t.row
  BY DEF TillReq
<1> HIDE DEF new
<1>3. TillStep(jb, new)
  BY <1>2 DEF TillStep
<1> QED BY <1>1, <1>3 DEF new

\* A step that ends, or goes on, and saves nothing.
LEMMA NothingSaved ==
  ASSUME DeskIInv, NEW r \in Requests, AtTill(r, AtEase),
         UNCHANGED <<charge, mapped, pay, strays>>,
         till[r].pc = "link" => Covered(pay, till', strays, till[r].new)
  PROVE  DeskIInv'
<1>1. job' = job
  BY DEF AtTill, mvars
<1>2. RowsInv'
  BY <1>1, SameRows DEF JobsStay
<1> QED BY <1>2, EaseTypes, TillGoesOn DEF DeskIInv, DeskTypes

LEMMA SavePaymentKeeps ==
  ASSUME DeskIInv, NEW r \in Requests, SavePayment(r)
  PROVE  DeskIInv'
<1> DEFINE t == till[r]
<1>1. /\ t \in TillReq /\ TillStep(job, t) /\ t.row \in PayRow /\ t.pc = "pay"
      /\ t.id \in Pays /\ t.row.st = "live" /\ Backed(job, t.row)
  BY TillParts DEF SavePayment, TillStep
<1>2. CASE pay[t.id].st # "none" \/ Conflict(t.id, t.row.job)
  BY <1>1, <1>2, NothingSaved DEF SavePayment
<1>3. CASE ~ (pay[t.id].st # "none" \/ Conflict(t.id, t.row.job))
  <2>1. PICK new \in {AtEase, [t EXCEPT !.pc = "job"]} : AtTill(r, new)
    BY <1>3 DEF SavePayment
  <2>2. new \in TillReq /\ TillStep(job, new)
    BY <1>1, <2>1, AfterSave, EaseTypes
  <2>3. pay[t.id].job = None
    BY <1>1, <1>3 DEF DeskIInv, PayInv, RowsInv, NoPay
  <2>4. pay' = [pay EXCEPT ![t.id] = t.row] /\ UNCHANGED <<charge, mapped, strays>>
    BY <1>3 DEF SavePayment
  <2>5. job' = job
    BY <2>1 DEF AtTill, mvars
  <2>6. strays' = strays \union
          IF pay[t.id].job # t.row.job THEN {pay[t.id].job} \ {None} ELSE {}
    BY <2>3, <2>4
  <2>7. /\ pay' \in [Pays -> PayRow] /\ RowsInv'
        /\ strays \subseteq strays' /\ strays' \subseteq Jobs
        /\ \A p \in Pays : \/ pay'[p].job = pay[p].job
                           \/ pay[p].job = None
                           \/ pay[p].job \in strays'
    BY <1>1, <1>3, <2>4, <2>5, <2>6, RowSaved
  <2> QED BY <1>1, <2>1, <2>2, <2>4, <2>7, TillGoesOn
<1> QED BY <1>2, <1>3

LEMMA SaveEditKeeps ==
  ASSUME DeskIInv, NEW r \in Requests, SaveEdit(r)
  PROVE  DeskIInv'
<1> DEFINE t == till[r]
<1>1. /\ t \in TillReq /\ TillStep(job, t) /\ t.row \in PayRow /\ t.pc = "edit"
      /\ t.id \in Pays /\ t.row.st = "live" /\ Backed(job, t.row)
  BY TillParts DEF SaveEdit, TillStep
<1>2. CASE Conflict(t.id, t.row.job)
  BY <1>1, <1>2, NothingSaved DEF SaveEdit
<1>3. CASE ~ Conflict(t.id, t.row.job)
  <2>1. PICK new \in {AtEase, [t EXCEPT !.pc = "job"]} : AtTill(r, new)
    BY <1>3 DEF SaveEdit
  <2>2. new \in TillReq /\ TillStep(job, new)
    BY <1>1, <2>1, AfterSave, EaseTypes
  <2>3. /\ pay' = [pay EXCEPT ![t.id] = t.row] /\ UNCHANGED <<charge, mapped>>
        /\ strays' = strays \union
             IF pay[t.id].job # t.row.job THEN {pay[t.id].job} \ {None} ELSE {}
    BY <1>3 DEF SaveEdit
  <2>4. job' = job
    BY <2>1 DEF AtTill, mvars
  <2>5. /\ pay' \in [Pays -> PayRow] /\ RowsInv'
        /\ strays \subseteq strays' /\ strays' \subseteq Jobs
        /\ \A p \in Pays : \/ pay'[p].job = pay[p].job
                           \/ pay[p].job = None
                           \/ pay[p].job \in strays'
    BY <1>1, <1>3, <2>3, <2>4, RowSaved
  <2> QED BY <1>1, <2>1, <2>2, <2>3, <2>5, TillGoesOn
<1> QED BY <1>2, <1>3

LEMMA VoidPaymentKeeps ==
  ASSUME DeskIInv, NEW r \in Requests, VoidPayment(r)
  PROVE  DeskIInv'
<1> DEFINE t == till[r]
           row == [t.row EXCEPT !.st = "deleted"]
<1>1. /\ t \in TillReq /\ TillStep(job, t) /\ t.row \in PayRow /\ t.pc = "void"
      /\ t.id \in Pays /\ Backed(job, t.row)
  BY TillParts DEF VoidPayment, TillStep
<1>2. AtTill(r, AtEase) /\ UNCHANGED <<charge, mapped>> /\ job' = job
  BY DEF VoidPayment, AtTill, mvars
<1>3. CASE Conflict(t.id, t.row.job)
  BY <1>1, <1>2, <1>3, NothingSaved DEF VoidPayment
<1>4. CASE ~ Conflict(t.id, t.row.job)
  <2>1. row \in PayRow /\ row.st = "deleted" /\ row.job = t.row.job /\ Backed(job, row)
    BY <1>1 DEF PayRow, Backed
  <2>2. /\ pay' = [pay EXCEPT ![t.id] = row]
        /\ strays' = strays \union
             IF pay[t.id].job # row.job THEN {pay[t.id].job} \ {None} ELSE {}
    BY <1>4, <2>1 DEF VoidPayment
  <2> HIDE DEF row
  <2>3. /\ pay' \in [Pays -> PayRow] /\ RowsInv'
        /\ strays \subseteq strays' /\ strays' \subseteq Jobs
        /\ \A p \in Pays : \/ pay'[p].job = pay[p].job
                           \/ pay[p].job = None
                           \/ pay[p].job \in strays'
    BY <1>1, <1>2, <1>4, <2>1, <2>2, RowSaved
  <2> QED BY <1>1, <1>2, <2>3, EaseTypes, TillGoesOn
<1> QED BY <1>3, <1>4

LEMMA LinkPaymentKeeps ==
  ASSUME DeskIInv, NEW r \in Requests, LinkPayment(r)
  PROVE  DeskIInv'
<1> DEFINE t == till[r]
           row == [t.row EXCEPT !.job = t.new, !.for = None]
<1>1. /\ t \in TillReq /\ TillStep(job, t) /\ t.row \in PayRow /\ t.pc = "link"
      /\ t.id \in Pays /\ t.row.st = "live" /\ t.new \in Jobs /\ job[t.new].st # "none"
  BY TillParts DEF LinkPayment, TillStep
<1>2. AtTill(r, AtEase) /\ UNCHANGED <<charge, mapped>> /\ job' = job
  BY DEF LinkPayment, AtTill, mvars
<1>3. CASE Conflict(t.id, t.new)
  <2>1. Covered(pay, till', strays, t.new)
    BY <1>3 DEF Conflict, Covered
  <2> QED BY <1>2, <1>3, <2>1, NothingSaved DEF LinkPayment
<1>4. CASE ~ Conflict(t.id, t.new)
  <2>1. row \in PayRow /\ row.st = "live" /\ row.job = t.new /\ row.for = None
    BY <1>1 DEF PayRow
  <2>2. /\ pay' = [pay EXCEPT ![t.id] = row]
        /\ strays' = strays \union ({pay[t.id].job} \ {None})
    BY <1>4 DEF LinkPayment
  <2> HIDE DEF row
  <2>3. JobsStay(job, job') /\ Backed(job', row)
    BY <1>1, <1>2, <2>1 DEF JobsStay, Backed
  <2>4. \A p \in Pays \ {t.id} : row.job # None => pay[p].job # row.job
    BY <1>4, <2>1, NoConflict
  <2>5. pay' \in [Pays -> PayRow] /\ RowsInv'
    BY <1>1, <2>1, <2>2, <2>3, <2>4, RowWritten
  <2>6. pay \in [Pays -> PayRow] /\ pay[t.id].job \in Jobs \union {None} /\ strays \subseteq Jobs
    BY <1>1 DEF DeskIInv, DeskTypes, PayRow
  <2>7. strays \subseteq strays' /\ strays' \subseteq Jobs
    BY <2>2, <2>6
  <2>8. ASSUME NEW p \in Pays
        PROVE  \/ pay'[p].job = pay[p].job
               \/ pay[p].job = None
               \/ pay[p].job \in strays'
    BY <2>2, <2>6
  <2>9. Covered(pay', till', strays', t.new)
    BY <1>1, <2>1, <2>2, <2>6 DEF Covered
  <2> QED BY <1>2, <2>5, <2>7, <2>8, <2>9, EaseTypes, TillGoesOn
<1> QED BY <1>3, <1>4

\* A job is opened.
LEMMA JobOpened ==
  ASSUME DeskIInv, NEW j \in Jobs, NEW l \in 0 .. NLines, OpenJob(j, l)
  PROVE  /\ MastersIInv' /\ JobsStay(job, job')
         /\ job[j].st = "none" /\ job'[j].st = "active"
         /\ \A i \in Jobs \ {j} : job'[i].st = job[i].st
         /\ \A p \in Pays : pay[p].job # j
<1>1. job \in [Jobs -> JobRow]
  BY DEF DeskIInv, MastersIInv, TypesInv, TypeOKMasters, JobRow
<1>2. /\ job[j].st = "none" /\ job'[j].st = "active"
      /\ \A i \in Jobs \ {j} : job'[i].st = job[i].st
  BY <1>1 DEF OpenJob
<1>3. \A p \in Pays : pay[p].job # j
  BY <1>2, CashierAssumption DEF DeskIInv, PayInv, RowsInv, Backed
<1> QED BY <1>2, <1>3, OpenJobKeeps DEF DeskIInv, JobsStay

LEMMA CreateJobKeeps ==
  ASSUME DeskIInv, NEW r \in Requests, CreateJob(r)
  PROVE  DeskIInv'
<1> DEFINE t == till[r]
<1>1. /\ t \in TillReq /\ TillStep(job, t) /\ t.row \in PayRow /\ t.pc = "job"
      /\ t.id \in Pays /\ t.row.st = "live" /\ Backed(job, t.row) /\ t.line \in 0 .. NLines
  BY TillParts DEF CreateJob, TillStep
<1>2. PICK j \in Jobs : /\ OpenJob(j, t.line)
                        /\ till' = [till EXCEPT ![r].pc = "link", ![r].new = j]
  BY DEF CreateJob
<1> DEFINE new == [t EXCEPT !.pc = "link", !.new = j]
<1>3. UNCHANGED <<charge, mapped, pay, strays>>
  BY DEF CreateJob
<1>4. MastersIInv' /\ JobsStay(job, job') /\ job'[j].st = "active"
      /\ \A i \in Jobs \ {j} : job'[i].st = job[i].st
  BY <1>1, <1>2, JobOpened
<1>5. new \in TillReq
  BY <1>1 DEF TillReq
<1>6. new.pc = "link" /\ new.new = j /\ new.row = t.row /\ new.id = t.id
  BY <1>1 DEF TillReq
<1>7. till' = [till EXCEPT ![r] = new]
  BY <1>2 DEF DeskIInv, DeskTypes
<1> HIDE DEF new
<1>8. TillStep(job', new)
  BY <1>1, <1>4, <1>6, BackedKept DEF TillStep
<1>9. till' \in [Requests -> TillReq] /\ TillInv' /\ RowsInv'
  BY <1>3, <1>4, <1>5, <1>7, <1>8, TillMoves, SameRows
<1>10. till'[r] = new /\ \A q \in Requests \ {r} : till'[q] = till[q]
  BY <1>7 DEF DeskIInv, DeskTypes
<1>11. Covered(pay', till', strays', j)
  BY <1>6, <1>10 DEF Covered
<1>12. OpenedJobsPaid'
  BY <1>1, <1>3, <1>4, <1>10, <1>11, CoveredKept
<1>13. DeskTypes'
  BY <1>3, <1>9 DEF DeskIInv, DeskTypes
<1> QED BY <1>4, <1>9, <1>12, <1>13 DEF DeskIInv, PayInv

LEMMA CommitIntakeKeeps ==
  ASSUME DeskIInv, NEW r \in Requests, CommitIntake(r)
  PROVE  DeskIInv'
<1> DEFINE t == till[r]
<1>1. /\ t \in TillReq /\ TillStep(job, t) /\ t.row \in PayRow /\ t.pc = "intake"
      /\ t.row.st = "live" /\ Backed(job, t.row) /\ t.row.for = None /\ t.line \in 0 .. NLines
  BY TillParts DEF CommitIntake, TillStep
<1>2. NextId \in Pays /\ pay[NextId] = NoPay
  BY NextIdFresh DEF CommitIntake
<1>3. till' = [till EXCEPT ![r] = AtEase] /\ UNCHANGED <<charge, mapped, strays>>
  BY DEF CommitIntake
<1>4. \A q \in Requests \ {r} : till'[q] = till[q]
  BY <1>3 DEF DeskIInv, DeskTypes
<1>5. ASSUME NEW row \in PayRow, row.st = "live", row.job = None \/ row.job \in Jobs,
             Backed(job', row), JobsStay(job, job'), MastersIInv',
             pay' = [pay EXCEPT ![NextId] = row],
             \A p \in Pays : row.job # None => pay[p].job # row.job,
             \A i \in Jobs : job'[i].st # "none" => job[i].st # "none" \/ i = row.job
      PROVE  DeskIInv'
  <2>1. pay' \in [Pays -> PayRow] /\ RowsInv'
    BY <1>2, <1>5, RowWritten
  <2>2. till' \in [Requests -> TillReq] /\ TillInv'
    BY <1>3, <1>5, EaseTypes, TillMoves
  <2>3. \A p \in Pays : pay'[p].job = pay[p].job \/ pay[p].job = None
    BY <1>2, <1>5 DEF DeskIInv, DeskTypes, NoPay
  <2>4. ASSUME NEW i \in Jobs, i = row.job
        PROVE  Covered(pay', till', strays', i)
    <3>1. pay'[NextId] = row
      BY <1>2, <1>5 DEF DeskIInv, DeskTypes
    <3> QED BY <1>2, <2>4, <3>1 DEF Covered
  <2>5. OpenedJobsPaid'
    BY <1>1, <1>3, <1>4, <1>5, <2>3, <2>4, CoveredKept
  <2>6. DeskTypes'
    BY <1>3, <2>1, <2>2 DEF DeskIInv, DeskTypes
  <2> QED BY <1>5, <2>1, <2>2, <2>5, <2>6 DEF DeskIInv, PayInv
<1>6. CASE /\ pay' = [pay EXCEPT ![NextId] = t.row]
           /\ UNCHANGED mvars
  <2>1. MastersIInv' /\ job' = job
    BY <1>6, AtTillMasters
  <2>2. JobsStay(job, job') /\ Backed(job', t.row)
    BY <1>1, <2>1 DEF JobsStay
  <2>3. t.row.job = None
    BY <1>1 DEF TillStep
  <2> QED BY <1>1, <1>5, <1>6, <2>1, <2>2, <2>3
<1>7. ASSUME NEW j \in Jobs, OpenJob(j, t.line),
             pay' = [pay EXCEPT ![NextId] = [t.row EXCEPT !.job = j]]
      PROVE  DeskIInv'
  <2> DEFINE row == [t.row EXCEPT !.job = j]
  <2>1. row \in PayRow /\ row.st = "live" /\ row.job = j /\ row.for = None
    BY <1>1 DEF PayRow
  <2>2. /\ MastersIInv' /\ JobsStay(job, job') /\ job'[j].st = "active"
        /\ \A i \in Jobs \ {j} : job'[i].st = job[i].st
        /\ \A p \in Pays : pay[p].job # j
    BY <1>1, <1>7, JobOpened
  <2>3. Backed(job', row)
    BY <2>1, <2>2 DEF Backed
  <2>4. pay' = [pay EXCEPT ![NextId] = row]
    BY <1>7
  <2> HIDE DEF row
  <2> QED BY <1>5, <2>1, <2>2, <2>3, <2>4
<1> QED BY <1>6, <1>7 DEF CommitIntake

LEMMA CutDeskKeeps ==
  ASSUME DeskIInv, NEW r \in Requests, CutDesk(r)
  PROVE  DeskIInv'
<1>1. /\ till' = [till EXCEPT ![r] = AtEase] /\ UNCHANGED <<masters, job, calls>>
      /\ UNCHANGED <<charge, mapped, pay>>
      /\ cuts' = cuts + 1 /\ cuts < CutLimit
      /\ strays' = IF till[r].pc = "link" THEN strays \union {till[r].new} ELSE strays
  BY DEF CutDesk
<1>2. MastersIInv'
  <2>1. calls' \in 0 .. CallLimit /\ cuts' \in 0 .. CutLimit
    BY <1>1, OldTypes, MastersAssumption DEF DeskIInv, MastersIInv
  <2> QED BY <1>1, <2>1, SameMasters DEF DeskIInv
<1>3. JobsStay(job, job')
  BY <1>1 DEF JobsStay
<1>4. till' \in [Requests -> TillReq] /\ TillInv' /\ RowsInv'
  BY <1>1, <1>3, EaseTypes, TillMoves, SameRows
<1>5. \A q \in Requests \ {r} : till'[q] = till[q]
  BY <1>1 DEF DeskIInv, DeskTypes
<1>6. strays \subseteq strays' /\ strays' \subseteq Jobs
  BY <1>1, TillParts DEF DeskIInv, DeskTypes, TillStep
<1>7. till[r].pc = "link" => Covered(pay', till', strays', till[r].new)
  BY <1>1 DEF Covered
<1>8. OpenedJobsPaid'
  BY <1>1, <1>5, <1>6, <1>7, CoveredKept
<1>9. DeskTypes'
  BY <1>1, <1>4, <1>6 DEF DeskIInv, DeskTypes
<1> QED BY <1>2, <1>4, <1>8, <1>9 DEF DeskIInv, PayInv

\* The desk beside a step of the masters.
LEMMA DeskBeside ==
  ASSUME DeskIInv, MastersIInv', UNCHANGED dvars,
         \A j \in Jobs : (job'[j].st # "none") <=> (job[j].st # "none")
  PROVE  DeskIInv'
<1>1. JobsStay(job, job') /\ UNCHANGED <<charge, mapped, pay, till, strays>>
  BY DEF JobsStay, dvars
<1>2. TillInv' /\ RowsInv'
  BY <1>1, SameTill, SameRows
<1>3. OpenedJobsPaid'
  BY <1>1 DEF OpenedJobsPaid, DeskIInv, PayInv
<1>4. DeskTypes'
  BY <1>1 DEF DeskIInv, DeskTypes
<1> QED BY <1>2, <1>3, <1>4 DEF DeskIInv, PayInv

LEMMA EditMastersKeeps ==
  ASSUME DeskIInv, NEW r \in Requests, EditMasters(r)
  PROVE  DeskIInv'
<1>1. /\ UNCHANGED dvars
      /\ LineRequest(r) \/ CentreRequest(r) \/ DeviceRequest(r) \/ CutMasters(r)
  BY DEF EditMasters
<1>2. MastersIInv' /\ job' = job
  BY <1>1, LineRequestKeeps, CentreRequestKeeps, DeviceRequestKeeps, CutMastersKeeps,
     RequestMoves DEF DeskIInv, MastersIInv
<1> QED BY <1>1, <1>2, DeskBeside

LEMMA EndJobKeeps ==
  ASSUME DeskIInv, EndJob
  PROVE  DeskIInv'
<1>1. PICK j \in Jobs : CloseJob(j) /\ UNCHANGED dvars
  BY DEF EndJob
<1>2. MastersIInv'
  BY <1>1, CloseJobTypes, CloseJobKeeps DEF DeskIInv, MastersIInv
<1>3. job \in [Jobs -> JobRow]
  BY DEF DeskIInv, MastersIInv, TypesInv, TypeOKMasters, JobRow
<1>4. \A i \in Jobs : (job'[i].st # "none") <=> (job[i].st # "none")
  BY <1>1, <1>3 DEF CloseJob, JobRow
<1> QED BY <1>1, <1>2, <1>4, DeskBeside

LEMMA DeskKeeps ==
  ASSUME DeskIInv, NEW r \in Requests, Desk(r)
  PROVE  DeskIInv'
<1>1. CASE PaymentRequest(r)
  BY <1>1, CollectKeeps, EditPaymentKeeps, RemovePaymentKeeps, NumberPaymentKeeps,
     SavePaymentKeeps, CreateJobKeeps, LinkPaymentKeeps, SaveEditKeeps, VoidPaymentKeeps
     DEF PaymentRequest
<1>2. ASSUME NEW j \in Jobs, NEW h \in Charges \union {None}, SetCharge(r, j, h)
      PROVE  DeskIInv'
  <2>1. "own" \in Charges /\ 0 \in Amounts
    BY CashierAssumption DEF Charges, Amounts
  <2> QED BY <1>2, <2>1, ChargesKeep
<1>3. CASE IntakeRequest(r)
  BY <1>2, <1>3, StartIntakeKeeps, CommitIntakeKeeps DEF IntakeRequest
<1>4. ASSUME NEW h \in Charges, NEW a \in Amounts, WriteCharge(r, h, a)
      PROVE  DeskIInv'
  <2>1. AtEase \in TillReq /\ TillStep(job, AtEase)
    BY EaseTypes
  <2>2. /\ Counter(r, AtEase) /\ UNCHANGED <<mapped, pay, strays>>
        /\ charge' \in [Charges -> Amounts]
    BY <1>4 DEF WriteCharge, DeskIInv, DeskTypes
  <2> QED BY <2>1, <2>2, TillBegins DEF DeskIInv, DeskTypes
<1>5. CASE ChargeRequest(r)
  BY <1>4, <1>5 DEF ChargeRequest
<1>6. CASE CutDesk(r)
  BY <1>6, CutDeskKeeps
<1> QED BY <1>1, <1>3, <1>5, <1>6 DEF Desk

LEMMA DeskInit ==
  ASSUME Init
  PROVE  DeskIInv
<1>1. MastersIInv
  BY InitMastersKeeps DEF Init
<1>2. PICK a \in 1 .. MaxPrice : charge = [h \in Charges |-> IF h = "own" THEN a ELSE 1]
  BY DEF Init, InitDesk
<1>3. /\ mapped = [j \in Jobs |-> None] /\ pay = [p \in Pays |-> NoPay]
      /\ till = [r \in Requests |-> AtEase] /\ strays = {j \in Jobs : Exists(j)}
  BY DEF Init, InitDesk
<1>4. charge \in [Charges -> Amounts]
  <2>1. a \in Amounts /\ 1 \in Amounts
    BY CashierAssumption DEF Amounts
  <2> QED BY <1>2, <2>1
<1>5. DeskTypes
  BY <1>3, <1>4, EaseTypes DEF DeskTypes
<1>6. RowsInv
  <2>1. \A p \in Pays : pay[p] = NoPay /\ NoPay.job = None
    BY <1>3 DEF NoPay
  <2> QED BY <2>1, EaseTypes DEF RowsInv
<1>7. TillInv
  BY <1>3, EaseTypes DEF TillInv
<1>8. OpenedJobsPaid
  BY <1>3 DEF OpenedJobsPaid, Exists
<1> QED BY <1>1, <1>5, <1>6, <1>7, <1>8 DEF DeskIInv, PayInv

LEMMA DeskNext ==
  ASSUME DeskIInv, [Next]_cvars
  PROVE  DeskIInv'
<1>1. CASE EndJob
  BY <1>1, EndJobKeeps
<1>2. ASSUME NEW r \in Requests, EditMasters(r)
      PROVE  DeskIInv'
  BY <1>2, EditMastersKeeps
<1>3. ASSUME NEW r \in Requests, Desk(r)
      PROVE  DeskIInv'
  BY <1>3, DeskKeeps
<1>4. CASE UNCHANGED cvars
  <2>1. UNCHANGED <<masters, job, calls, cuts>> /\ UNCHANGED dvars
    BY <1>4 DEF cvars, mvars, masters
  <2>2. calls' \in 0 .. CallLimit /\ cuts' \in 0 .. CutLimit
    BY <2>1 DEF DeskIInv, MastersIInv, TypesInv, TypeOKMasters
  <2>3. MastersIInv'
    BY <2>1, <2>2, SameMasters DEF DeskIInv
  <2> QED BY <2>1, <2>3, DeskBeside
<1> QED BY <1>1, <1>2, <1>3, <1>4 DEF Next

\* The payments that create() recorded for a job are one at most.
LEMMA ChargedOnce ==
  ASSUME DeskIInv
  PROVE  NotChargedTwice
<1> SUFFICES ASSUME NEW j \in Jobs,
                    \A p \in {x \in Pays : pay[x].st = "live" /\ pay[x].for = j} :
                      pay[p].total # 0,
                    NEW p \in {x \in Pays : pay[x].st = "live" /\ pay[x].for = j}
             PROVE  \E q \in {x \in Pays : pay[x].st = "live" /\ pay[x].for = j} :
                      MapThenSumSet(LAMBDA x : pay[x].amount,
                                    {x \in Pays : pay[x].st = "live" /\ pay[x].for = j})
                        <= pay[q].total
  BY DEF NotChargedTwice
<1> DEFINE paid == {x \in Pays : pay[x].st = "live" /\ pay[x].for = j}
<1>1. /\ p \in Pays /\ pay[p] \in PayRow /\ pay[p].total # 0 /\ pay[p].for = j /\ j # None
  BY CashierAssumption DEF DeskIInv, DeskTypes
<1>2. pay[p].amount <= pay[p].total /\ pay[p].amount \in Nat
  <2>1. Backed(job, pay[p])
    BY <1>1 DEF DeskIInv, PayInv, RowsInv
  <2> QED BY <1>1, <2>1, CashierAssumption DEF Backed, PayRow, Amounts
<1>3. \A x \in paid : pay[x].job = j
  BY <1>1 DEF DeskIInv, PayInv, RowsInv, Backed
<1>4. paid = {p}
  <2>1. \A x \in paid : x = p
    BY <1>1, <1>3 DEF DeskIInv, PayInv, RowsInv
  <2> QED BY <2>1
<1> DEFINE base(iter) ==
      [s \in SUBSET {p} |->
         IF s = {} THEN 0
         ELSE pay[CHOOSE x \in s : TRUE].amount + iter[s \ {CHOOSE x \in s : TRUE}]]
           it == CHOOSE g : g = base(g)
<1>5. \E g : g = base(g)
  <2> DEFINE w == [s \in SUBSET {p} |-> IF s = {} THEN 0 ELSE pay[p].amount]
  <2>1. \A s \in SUBSET {p} : s # {} => s = {p} /\ (CHOOSE x \in s : TRUE) = p
    OBVIOUS
  <2>2. \A s \in SUBSET {p} : s # {} => w[s \ {CHOOSE x \in s : TRUE}] = 0
    BY <2>1
  <2>3. ASSUME NEW s \in SUBSET {p}
        PROVE  w[s] = base(w)[s]
    BY <1>2, <2>1, <2>2, <2>3
  <2>4. w = base(w)
    BY <2>3
  <2> HIDE DEF w
  <2> QED BY <2>4
<1>6. it = base(it)
  BY <1>5
<1>7. MapThenSumSet(LAMBDA x : pay[x].amount, {p}) = it[{p}]
  BY DEF MapThenSumSet, MapThenFoldSet
<1> HIDE DEF it
<1>8. it[{}] = 0
  BY <1>6
<1>9. it[{p}] = pay[CHOOSE x \in {p} : TRUE].amount + it[{p} \ {CHOOSE x \in {p} : TRUE}]
  BY <1>6
<1>10. (CHOOSE x \in {p} : TRUE) = p /\ {p} \ {p} = {}
  OBVIOUS
<1>11. it[{p}] = pay[p].amount + it[{}]
  BY <1>9, <1>10
<1>12. it[{p}] <= pay[p].total
  BY <1>2, <1>8, <1>11
<1>13. MapThenSumSet(LAMBDA x : pay[x].amount, paid) <= pay[p].total
  BY <1>4, <1>7, <1>12
<1> QED BY <1>4, <1>13

-----------------------------------------------------------------------------
(* The theorems.                                                           *)

\* The desk writes no line and no mapping.
LEMMA DeskAside ==
  ASSUME NEW r \in Requests, Desk(r)
  PROVE  UNCHANGED <<line, held>>
<1>1. ASSUME NEW new, Counter(r, new) \/ AtTill(r, new)
      PROVE  UNCHANGED <<line, held>>
  BY <1>1 DEF Counter, AtTill, masters, mvars
<1>2. ASSUME NEW j, NEW l, OpenJob(j, l)
      PROVE  UNCHANGED <<line, held>>
  BY <1>2 DEF OpenJob
<1>3. CASE PaymentRequest(r)
  <2>1. \/ \E new : Counter(r, new) \/ AtTill(r, new)
        \/ \E j, l : OpenJob(j, l)
    BY <1>3 DEF PaymentRequest, Collect, EditPayment, RemovePayment, NumberPayment,
                SavePayment, CreateJob, LinkPayment, SaveEdit, VoidPayment
  <2> QED BY <1>1, <1>2, <2>1
<1>4. CASE IntakeRequest(r)
  <2>1. \/ \E new : Counter(r, new)
        \/ \E j, l : OpenJob(j, l)
        \/ UNCHANGED mvars
    BY <1>4 DEF IntakeRequest, StartIntake, SetCharge, CommitIntake
  <2> QED BY <1>1, <1>2, <2>1 DEF mvars
<1>5. CASE ChargeRequest(r)
  BY <1>1, <1>5 DEF ChargeRequest, WriteCharge
<1>6. CASE CutDesk(r)
  BY <1>6 DEF CutDesk, masters
<1> QED BY <1>3, <1>4, <1>5, <1>6 DEF Desk

\* A lane is changed under a job by no step.
LEMMA NextFixed ==
  ASSUME DeskIInv, [Next]_cvars, NEW q \in Requests, NEW l \in Lines,
         req[q].pc \in {"swap", "write"}, req'[q].pc # req[q].pc,
         line'[l].lane # line[l].lane
  PROVE  ActiveOn(l) = {} \/ l \in req[q].opened
<1>1. line' # line
  OBVIOUS
<1>2. ~ EndJob /\ cvars' # cvars
  BY <1>1 DEF EndJob, CloseJob, masters, cvars, mvars
<1>3. \A r \in Requests : ~ Desk(r)
  BY <1>1, DeskAside
<1>4. PICK r \in Requests : EditMasters(r)
  BY <1>2, <1>3 DEF Next
<1> QED BY <1>4, LaneStepFixed DEF EditMasters, DeskIInv

\* An admin PC loses its last line to no step but its removal.
LEMMA NextHeld ==
  ASSUME DeskIInv, [Next]_cvars, NEW d \in AdminPcs, LinesHeld(d) # {},
         \A l \in Lines : <<d, l>> \notin held'
  PROVE  \E q \in Requests : req[q].pc = "release" /\ req[q].at = d
<1>1. held' # held
  BY DEF LinesHeld
<1>2. ~ EndJob /\ cvars' # cvars
  BY <1>1 DEF EndJob, CloseJob, masters, cvars, mvars
<1>3. \A r \in Requests : ~ Desk(r)
  BY <1>1, DeskAside
<1>4. PICK r \in Requests : EditMasters(r)
  BY <1>2, <1>3 DEF Next
<1> QED BY <1>4, HeldStep DEF EditMasters, DeskIInv

THEOREM DeskInductive == Spec => []DeskIInv
BY DeskInit, DeskNext, PTL DEF Spec

\* However the requests about lines and centres interleave, two lines hold one
\* lane only half way through a swap, one centre holds the branch, and no
\* device in use is on a removed line; a rule is given up only where a race or
\* a cut is noted (LineService, CentreService, the two appointment services).
THEOREM MastersInvHolds == Spec => []MastersInv
<1>1. DeskIInv => MastersInv
  BY MastersImplied DEF DeskIInv
<1> QED BY <1>1, DeskInductive, PTL

\* The payments recorded for a job by create() never exceed a price one of them
\* was checked against, and a job opened by the desk is named by a payment, is
\* about to be, or was parted from it (PaymentsService, JobIntakeService).
THEOREM CashierInvHolds == Spec => []CashierInv
<1>1. DeskIInv => CashierInv
  <2>1. DeskIInv => TypeOK
    BY DEF DeskIInv, MastersIInv, TypesInv, DeskTypes, TypeOK, PayRow, TillReq
  <2>2. DeskIInv => NotChargedTwice /\ OpenedJobsPaid
    BY ChargedOnce DEF DeskIInv, PayInv
  <2> QED BY <2>1, <2>2 DEF CashierInv
<1> QED BY <1>1, DeskInductive, PTL

\* assignLane() takes no line off its lane under a job it could have seen.
THEOREM LaneFixedUnderJobHolds == Spec => LaneFixedUnderJob
<1>1. DeskIInv /\ [Next]_cvars =>
        [\A r \in Requests, l \in Lines :
           /\ req[r].pc \in {"swap", "write"} /\ req'[r].pc # req[r].pc
           /\ line'[l].lane # line[l].lane
           => ActiveOn(l) = {} \/ l \in req[r].opened]_mvars
  BY NextFixed
<1> QED BY <1>1, DeskInductive, PTL DEF Spec, LaneFixedUnderJob

\* replaceForAdminPc() leaves no admin PC without a line, whatever it races.
THEOREM PcKeepsALineHolds == Spec => PcKeepsALine
<1>1. DeskIInv /\ [Next]_cvars =>
        [\A d \in AdminPcs :
           /\ LinesHeld(d) # {}
           /\ \A l \in Lines : <<d, l>> \notin held'
           => \E r \in Requests : req[r].pc = "release" /\ req[r].at = d]_mvars
  BY NextHeld
<1> QED BY <1>1, DeskInductive, PTL DEF Spec, PcKeepsALine

=============================================================================
