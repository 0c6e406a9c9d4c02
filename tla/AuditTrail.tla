------------------------------ MODULE AuditTrail ------------------------------
(***************************************************************************)
(* The audit log.  A service describes a change (names, the values before  *)
(* and after) in the store of its request and, for most entities, in a     *)
(* stash shared by all requests; the subscriber of the database turns the  *)
(* change into an entry while the row is saved, and the entry is written   *)
(* on its own, whether or not the request waits or the save is committed.  *)
(***************************************************************************)
EXTENDS Naturals, Sequences

CONSTANTS
  CaptureRows,  \* captures: two columns are saved behind the log
  StashedRows,  \* users, roles and payments
  ContextRows,  \* appointments and jobs, described in the store only
  Values,       \* what the columns an operator edits may hold
  Writers,      \* requests being served
  NoRow,
  WriteLimit,   \* bound: requests in all
  MishapLimit   \* bound: refused saves and commits, lost entries, restarts

Items == CaptureRows \union StashedRows \union ContextRows

ASSUME RowsAssumption ==
  /\ CaptureRows \cap StashedRows = {} /\ CaptureRows \cap ContextRows = {}
  /\ StashedRows \cap ContextRows = {}
  /\ NoRow \notin Items
  /\ Values # {}

ASSUME AuditLimits == WriteLimit \in Nat /\ MishapLimit \in Nat

VARIABLES
  store,    \* the rows
  stash,    \* descriptions by row, until an entry takes them
  context,  \* descriptions in the store of each request
  writer,   \* the requests
  trail,    \* entries of each row, in the order they are made
  begun,    \* entries of each row made before the last gap, and the row then
  odd,      \* rows whose stash was left behind before the last gap
  writes, mishaps

auditVars == <<store, stash, context, writer, trail, begun, odd, writes, mishaps>>

-----------------------------------------------------------------------------
(* Types.                                                                  *)

\* mark: the status of a capture, which the verification pipeline writes.
Item == [st : {"absent", "live", "gone"}, value : Values, mark : BOOLEAN]

Told == [value : Values, mark : BOOLEAN]
Untold == [value |-> CHOOSE v \in Values : TRUE, mark |-> FALSE, told |-> FALSE]
Tell(r) == [value |-> r.value, mark |-> r.mark, told |-> TRUE]
Description == [before : [value : Values, mark : BOOLEAN, told : BOOLEAN],
                after : [value : Values, mark : BOOLEAN, told : BOOLEAN]]
Nothing == [before |-> Untold, after |-> Untold]

Absent == [st |-> "absent", value |-> CHOOSE v \in Values : TRUE, mark |-> FALSE]

\* An entry waits in memory until it is inserted, or lost.
Entry == [action : {"CREATE", "UPDATE", "DELETE", "RESTORE"}, before : Item, after : Item,
          named : BOOLEAN, fate : {"waiting", "written", "lost"}]

\* quiet: the audit is suppressed; stale: the row or its stash was written by
\* another since the request read the row.
Writer == [pc : {"idle", "describe", "save", "end"}, at : Items \union {NoRow},
           op : {"create", "edit", "upload", "validate", "remove"},
           read : Item, want : Item, quiet : BOOLEAN, stale : BOOLEAN]
NoWriter == [pc |-> "idle", at |-> NoRow, op |-> "edit", read |-> Absent, want |-> Absent,
             quiet |-> FALSE, stale |-> FALSE]

TypeOKAudit ==
  /\ store \in [Items -> Item]
  /\ stash \in [Items -> Description]
  /\ context \in [Writers -> Description]
  /\ writer \in [Writers -> Writer]
  /\ trail \in [Items -> Seq(Entry)]
  /\ begun \in [Items -> [count : Nat, row : Item]]
  /\ \A x \in Items : begun[x].count <= Len(trail[x])
  /\ odd \subseteq Items
  /\ writes \in 0 .. WriteLimit /\ mishaps \in 0 .. MishapLimit

-----------------------------------------------------------------------------
(* The services.                                                           *)

\* Mutant: validate() without its default status.
Wanted_Unset(op, r, v) ==
  CASE op = "create" -> [st |-> "live", value |-> v, mark |-> FALSE]
    [] op \in {"edit", "upload"} -> [r EXCEPT !.value = v]
    [] op = "validate" -> [r EXCEPT !.value = v, !.mark = NoRow]
    [] op = "remove" -> [r EXCEPT !.st = "gone"]

\* The row as the request will save it: every column it read, and its own.
Wanted(op, r, v) ==
  CASE op = "create" -> [st |-> "live", value |-> v, mark |-> FALSE]
    [] op \in {"edit", "upload"} -> [r EXCEPT !.value = v]
    [] op = "validate" -> [r EXCEPT !.value = v, !.mark = TRUE]
    [] op = "remove" -> [r EXCEPT !.st = "gone"]

\* create(), update(), attachImages(), validate() and remove(): the row is read
\* first, and what happens to it later goes unseen.
ReadRow(w, x, op, v, quiet) ==
  /\ writer[w].pc = "idle"
  /\ writes < WriteLimit
  /\ store[x].st = IF op = "create" THEN "absent" ELSE "live"
  /\ op = "create" => \A p \in Writers : writer[p].at # x
  /\ op \in {"upload", "validate"} => x \in CaptureRows
  /\ quiet => op = "upload"
  /\ writer' = [writer EXCEPT ![w] =
       [NoWriter EXCEPT !.pc = "describe", !.at = x, !.op = op, !.read = store[x],
                        !.want = Wanted(op, store[x], v), !.quiet = quiet]]
  /\ writes' = writes + 1
  /\ UNCHANGED <<store, stash, context, trail, begun, odd, mishaps>>

\* What a service tells of its change.  attachImages() takes both sides from the
\* row it has already merged; a removal and a creation have one side.
Describes(q) ==
  [before |-> CASE q.op \in {"create", "remove"} -> Untold
                [] q.op = "upload" -> Tell(q.want)
                [] OTHER -> Tell(q.read),
   after |-> IF q.op = "remove" THEN Tell(q.read) ELSE Tell(q.want)]

\* patchAuditContext() and stashAuditEntityDetails(), after the names were
\* looked up.  A side that is not given keeps what the stash holds.
Describe(w) ==
  LET q == writer[w]
      d == Describes(q)
  IN
  /\ q.pc = "describe"
  /\ context' = [context EXCEPT ![w] = IF q.quiet THEN Nothing ELSE d]
  /\ stash' = IF q.quiet \/ q.at \in ContextRows THEN stash
              ELSE [stash EXCEPT ![q.at] =
                      [before |-> IF d.before.told THEN d.before ELSE @.before,
                       after |-> d.after]]
  /\ writer' = [writer EXCEPT ![w].pc = "save"]
  /\ odd' = IF ~ q.quiet /\ d.before.told THEN odd \ {q.at} ELSE odd
  /\ UNCHANGED <<store, trail, begun, writes, mishaps>>

-----------------------------------------------------------------------------
(* AuditLogSubscriber.                                                     *)

\* Mutant: a removed row that is saved again is an update like any other.
resolveUpdateAction_NoRestore(before, after) ==
  CASE before.st = "absent" -> "CREATE"
    [] before.st = "live" /\ after.st = "gone" -> "DELETE"
    [] OTHER -> "UPDATE"

resolveUpdateAction(before, after) ==
  CASE before.st = "absent" -> "CREATE"
    [] before.st = "live" /\ after.st = "gone" -> "DELETE"
    [] before.st = "gone" /\ after.st = "live" -> "RESTORE"
    [] OTHER -> "UPDATE"

\* Mutant: the details are read, not taken.
takeAuditEntityDetails_Kept(x) == stash

takeAuditEntityDetails(x) == [stash EXCEPT ![x] = Nothing]

\* mergeAppointmentAuditSnapshots(): the stash wins over the store of the
\* request, both win over the columns; what is only told of the new side fills
\* the old one too.
Merged(w, x, loaded, saved) ==
  LET side(s, c) == IF s.told THEN s ELSE c
      before == side(stash[x].before, context[w].before)
      after == side(stash[x].after, context[w].after)
      over(r, d) == [r EXCEPT !.value = d.value, !.mark = d.mark]
  IN [action |-> resolveUpdateAction(loaded, saved),
      before |-> IF before.told THEN over(loaded, before)
                 ELSE IF after.told /\ loaded.st # "absent" THEN over(loaded, after)
                 ELSE loaded,
      after |-> IF after.told THEN over(saved, after) ELSE saved,
      named |-> after.told,
      fate |-> "waiting"]

\* Another request that has the row open: it holds an older row, and it put its
\* own description into the stash, or will.
Others(w, x) == {p \in Writers \ {w} : writer[p].at = x /\ writer[p].pc \in {"describe", "save"}}
Outdate(ps, w) == [p \in Writers |->
  IF p = w THEN [writer[p] EXCEPT !.pc = "end"]
  ELSE IF p \in ps THEN [writer[p] EXCEPT !.stale = TRUE] ELSE writer[p]]

\* From here on the entries of the row start again.
Gap(x) ==
  /\ begun' = [begun EXCEPT ![x] = [count |-> Len(trail'[x]), row |-> store'[x]]]
  /\ odd' = IF stash'[x] # Nothing THEN odd \union {x} ELSE odd \ {x}

Crossed(w, x) == \/ writer[w].stale \/ writer[w].quiet \/ x \in odd
                 \/ \E p \in Others(w, x) : writer[p].pc = "save"

\* save(): the row is loaded again, columns that differ are written, and the
\* subscriber sees it before the commit.  Nothing differs, nothing is seen.
SaveRow(w) ==
  LET q == writer[w]
      x == q.at
      loaded == store[x]
      seen == loaded # q.want /\ ~ q.quiet
  IN
  /\ q.pc = "save"
  /\ store' = [store EXCEPT ![x] = q.want]
  /\ trail' = IF seen THEN [trail EXCEPT ![x] = Append(@, Merged(w, x, loaded, q.want))]
              ELSE trail
  /\ stash' = IF seen THEN takeAuditEntityDetails(x) ELSE stash
  /\ writer' = Outdate(Others(w, x), w)
  /\ IF Crossed(w, x) THEN Gap(x)
     ELSE /\ odd' = IF ~ seen /\ q.op = "upload" THEN odd \union {x} ELSE odd
          /\ UNCHANGED begun
  /\ UNCHANGED <<context, writes, mishaps>>

\* The update is refused, or the subscriber has seen it and the commit fails.
SaveFault(w) ==
  LET q == writer[w]
      x == q.at
  IN
  /\ q.pc = "save"
  /\ mishaps < MishapLimit
  /\ mishaps' = mishaps + 1
  /\ writer' = Outdate(Others(w, x), w)
  /\ UNCHANGED <<store, context, writes>>
  /\ \/ /\ odd' = odd \union {x}
        /\ UNCHANGED <<stash, trail, begun>>
     \/ /\ store[x] # q.want /\ ~ q.quiet
        /\ trail' = [trail EXCEPT ![x] = Append(@, Merged(w, x, store[x], q.want))]
        /\ stash' = takeAuditEntityDetails(x)
        /\ Gap(x)

\* The finally block.
ClearContext(w) ==
  /\ writer[w].pc = "end"
  /\ context' = [context EXCEPT ![w] = Nothing]
  /\ writer' = [writer EXCEPT ![w] = NoWriter]
  /\ UNCHANGED <<store, stash, trail, begun, odd, writes, mishaps>>

\* applyRopFetched(): the status of a capture, by an update that is no edit.
ApplyStatus(x) ==
  /\ store[x].st = "live"
  /\ ~ store[x].mark
  /\ store' = [store EXCEPT ![x].mark = TRUE]
  /\ writer' = [p \in Writers |-> IF writer[p].at = x /\ writer[p].pc \in {"describe", "save"}
                                  THEN [writer[p] EXCEPT !.stale = TRUE] ELSE writer[p]]
  /\ UNCHANGED <<stash, context, trail, writes, mishaps>>
  /\ Gap(x)

-----------------------------------------------------------------------------
(* safeWrite(): the insert, later; a failure is logged and forgotten.      *)

Waiting(x) == {i \in 1 .. Len(trail[x]) : trail[x][i].fate = "waiting"}

\* Mutant: the details are merged when the entry is written.
WriteEntry_Late(x, i) ==
  /\ i \in Waiting(x)
  /\ trail' = [trail EXCEPT ![x][i].fate = "written",
                            ![x][i].named = \/ stash[x].after.told
                                            \/ \E w \in Writers : /\ writer[w].at = x
                                                                  /\ context[w].after.told]
  /\ UNCHANGED <<store, stash, context, writer, begun, odd, writes, mishaps>>

WriteEntry(x, i) ==
  /\ i \in Waiting(x)
  /\ trail' = [trail EXCEPT ![x][i].fate = "written"]
  /\ UNCHANGED <<store, stash, context, writer, begun, odd, writes, mishaps>>

LoseEntry(x, i) ==
  /\ i \in Waiting(x)
  /\ mishaps < MishapLimit
  /\ mishaps' = mishaps + 1
  /\ trail' = [trail EXCEPT ![x][i].fate = "lost"]
  /\ UNCHANGED <<store, stash, context, writer, writes>>
  /\ Gap(x)

RestartServer ==
  /\ mishaps < MishapLimit
  /\ mishaps' = mishaps + 1
  /\ stash' = [x \in Items |-> Nothing]
  /\ context' = [w \in Writers |-> Nothing]
  /\ writer' = [w \in Writers |-> NoWriter]
  /\ trail' = [x \in Items |-> [i \in 1 .. Len(trail[x]) |->
       IF i \in Waiting(x) THEN [trail[x][i] EXCEPT !.fate = "lost"] ELSE trail[x][i]]]
  /\ begun' = [x \in Items |-> [count |-> Len(trail'[x]), row |-> store[x]]]
  /\ odd' = {}
  /\ UNCHANGED <<store, writes>>

-----------------------------------------------------------------------------
InitAudit ==
  /\ \E T \in SUBSET Items :
       store = [x \in Items |-> IF x \in T THEN [Absent EXCEPT !.st = "live"] ELSE Absent]
  /\ stash = [x \in Items |-> Nothing]
  /\ context = [w \in Writers |-> Nothing]
  /\ writer = [w \in Writers |-> NoWriter]
  /\ trail = [x \in Items |-> <<>>]
  /\ begun = [x \in Items |-> [count |-> 0, row |-> store[x]]]
  /\ odd = {}
  /\ writes = 0 /\ mishaps = 0

Write(w) ==
  \/ \E x \in Items, op \in {"create", "edit", "upload", "validate", "remove"}, v \in Values,
        quiet \in BOOLEAN : ReadRow(w, x, op, v, quiet)
  \/ Describe(w) \/ SaveRow(w) \/ SaveFault(w) \/ ClearContext(w)

NextAudit ==
  \/ \E w \in Writers : Write(w)
  \/ \E x \in CaptureRows : ApplyStatus(x)
  \/ \E x \in Items, i \in 1 .. WriteLimit : WriteEntry(x, i) \/ LoseEntry(x, i)
  \/ RestartServer

SpecAudit == InitAudit /\ [][NextAudit]_auditVars

-----------------------------------------------------------------------------
(* Properties.                                                             *)

\* "Services clear ALS details in finally after save(); an async merge would
\* race and drop customer_name / plate / etc." (afterInsert): every entry has the
\* details, however late it is written and whichever requests end before.
EntriesNamed == \A x \in Items : \A i \in 1 .. Len(trail[x]) : trail[x][i].named

\* The log retells the row: the old side of an entry is the new side of the one
\* before, and the last new side is the row, also when descriptions of failed
\* or empty saves were left in the stash.  Left out are the changes behind the
\* log (skipAudit, the pipeline's status, lost entries, commits that fail after
\* the subscriber), requests that cross on a row, and the old side of uploads.
LogTellsRow == \A x \in Items :
  LET es == trail[x]
      n == begun[x].count
      before(i) == IF i = n + 1 THEN begun[x].row ELSE es[i - 1].after
      uploaded(e) == x \in CaptureRows /\ Tell(e.before) = Tell(e.after)
  IN /\ \A i \in n + 1 .. Len(es) : es[i].before = before(i) \/ uploaded(es[i])
     /\ store[x] = IF Len(es) = n THEN begun[x].row ELSE es[Len(es)].after

\* A save of a row that another request removed in between brings it back; the
\* log then says RESTORE, unless the request suppressed its audit.
RestoreIsTold == [][
  \A x \in Items : store[x].st = "gone" /\ store'[x].st = "live" =>
    \/ /\ Len(trail'[x]) = Len(trail[x]) + 1
       /\ trail'[x][Len(trail'[x])].action = "RESTORE"
    \/ \E w \in Writers : writer[w].at = x /\ writer[w].quiet /\ writer'[w] # writer[w]
  ]_auditVars

\* Every entry has its details, and together they retell the row.
TrailInv == TypeOKAudit /\ EntriesNamed /\ LogTellsRow

=============================================================================
