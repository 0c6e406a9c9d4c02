------------------------------ MODULE CentreSync ------------------------------
(***************************************************************************)
(* The synchronisation of a centre's database with central. A run pushes   *)
(* the tables of the centre and pulls those of central, each table from    *)
(* the epoch in chunks that follow updated_at. Tables that both sides edit *)
(* take the version with the later updated_at, the others are overwritten. *)
(* The scheduler starts pushes, an operator starts runs of any mode, and   *)
(* nothing keeps a manual run apart from another run.                      *)
(*                                                                         *)
(* A time is counted in ticks of the database clock; a time that travels   *)
(* through JavaScript or JSON is cut to a multiple of Precision.           *)
(***************************************************************************)
EXTENDS Integers, FiniteSets, FiniteSetsExt, Sequences

CONSTANTS
  Entities,     \* the tables of the instance
  Runs,         \* calls of runSync() that may overlap
  Modes,        \* the modes an operator starts runs in
  MaxRows,      \* bound: rows of each table
  Onboarded,    \* rows of each table that both sides have from the onboarding
  MaxEdits,     \* bound: edits on both sides
  CHUNK_SIZE,
  Precision,    \* ticks of the database clock in a millisecond
  Crowd,        \* bound: rows that are edited in one millisecond
  CallLimit     \* bound: failed and repeated calls, manual runs, restarts

ASSUME SizesAssumption ==
  /\ CHUNK_SIZE \in Nat \ {0} /\ Precision \in Nat \ {0} /\ Crowd \in Nat \ {0}
  /\ \A e \in Entities : MaxRows[e] \in Nat /\ Onboarded[e] \in 0 .. MaxRows[e]
  /\ MaxEdits \in Nat /\ CallLimit \in Nat

VARIABLES
  now,       \* the clock, read at each edit
  edits,     \* number of edits so far; an edit numbers the version it makes
  local,     \* the tables of the centre
  central,   \* the tables of central
  newest,    \* the last version made of each row
  run,       \* local state of each run
  running,   \* SyncSchedulerService.running
  late,      \* chunks of timed-out requests that central may still process
  calls

tables == <<now, edits, local, central, newest>>
vars == <<tables, run, running, late, calls>>

-----------------------------------------------------------------------------
(* Types.                                                                  *)

\* One table of each direction of SYNC_ENTITY_MAP.
direction == [Vehicle |-> "READ_ONLY", Line |-> "BIDIRECTIONAL", Job |-> "WRITE_ONLY"]

ASSUME EntitiesAssumption ==
  /\ "Line" \in Entities /\ Entities \subseteq DOMAIN direction
  /\ Modes \subseteq {"push", "pull", "full"}

\* Lines before what refers to them, and tables of central before both.
PUSH_ORDER == IF "Job" \in Entities THEN <<"Line", "Job">> ELSE <<"Line">>
PULL_ORDER == IF "Vehicle" \in Entities THEN <<"Vehicle", "Line">> ELSE <<"Line">>

Ids(e) == 1 .. MaxRows[e]
Records == UNION {{e} \X Ids(e) : e \in Entities}
Versions == 0 .. MaxEdits
Start == Precision * Max({Onboarded[e] : e \in Entities})
Times == 0 .. Start + Precision * (MaxEdits + 1) - 1

\* An absent row has updated_at 0, the epoch; one from the onboarding version 0.
Row == [v : Versions, at : Times]
Sent == [id : UNION {Ids(e) : e \in Entities}, v : Versions, at : Times]

Run == [pc : {"idle", "slot", "read", "send", "ask", "apply", "finish"},
        mode : {"push", "pull", "full"}, cron : BOOLEAN,
        pos : 1 .. 3, cursor : Times, chunk : SUBSET Sent,
        pushOk : BOOLEAN, pullOk : BOOLEAN, since : Versions]

NoRun == [pc |-> "idle", mode |-> "push", cron |-> FALSE, pos |-> 1, cursor |-> 0,
          chunk |-> {}, pushOk |-> TRUE, pullOk |-> TRUE, since |-> 0]

TypeOK ==
  /\ now \in Times /\ edits \in Versions
  /\ DOMAIN local = Entities /\ DOMAIN central = Entities /\ DOMAIN newest = Entities
  /\ \A e \in Entities :
       /\ local[e] \in [Ids(e) -> Row] /\ central[e] \in [Ids(e) -> Row]
       /\ newest[e] \in [Ids(e) -> Versions]
  /\ run \in [Runs -> Run]
  /\ \A k \in Runs : Cardinality(run[k].chunk) <= CHUNK_SIZE
  /\ running \in BOOLEAN
  /\ late \subseteq [entity : Entities, chunk : SUBSET Sent]
  /\ calls \in 0 .. CallLimit

-----------------------------------------------------------------------------
(* Tables and chunks.                                                      *)

Millis(t) == (t \div Precision) * Precision

\* Mutant: a full table scan.
Chunks_Unlimited(table, cursor) == {{i \in DOMAIN table : table[i].at > cursor}}

\* WHERE updated_at > cursor ORDER BY updated_at LIMIT CHUNK_SIZE: the rows a
\* chunk may hold, where ties are broken either way.
Chunks(table, cursor) ==
  LET newer == {i \in DOMAIN table : table[i].at > cursor} IN
  {c \in SUBSET newer :
     /\ Cardinality(c) = IF Cardinality(newer) < CHUNK_SIZE
                         THEN Cardinality(newer) ELSE CHUNK_SIZE
     /\ \A i \in c, j \in newer \ c : table[i].at <= table[j].at}

\* The rows of a chunk as they travel.
Packed(table, c) == {[id |-> i, v |-> table[i].v, at |-> Millis(table[i].at)] : i \in c}

\* Mutant: the loop goes on from where it began.
NextCursor_Same(cursor, chunk) == cursor

\* The updated_at of the last row.
NextCursor(cursor, chunk) ==
  IF chunk = {} THEN cursor
  ELSE CHOOSE t \in {m.at : m \in chunk} : \A m \in chunk : m.at <= t

\* Mutant: the last write wins.
upsertWithUpdate_Blind(e, table, chunk) ==
  [i \in DOMAIN table |->
     IF \E m \in chunk : m.id = i
     THEN LET m == CHOOSE m \in chunk : m.id = i IN [v |-> m.v, at |-> m.at]
     ELSE table[i]]

\* INSERT ... ON CONFLICT DO UPDATE, for a BIDIRECTIONAL table only WHERE the
\* stored updated_at is older.
upsertWithUpdate(e, table, chunk) ==
  [i \in DOMAIN table |->
     IF \E m \in chunk : m.id = i /\ (direction[e] = "BIDIRECTIONAL" => table[i].at < m.at)
     THEN LET m == CHOOSE m \in chunk : m.id = i IN [v |-> m.v, at |-> m.at]
     ELSE table[i]]

-----------------------------------------------------------------------------
(* Edits. A new row takes an identifier of its own; rows are never deleted *)
(* (is_deleted is a column).                                               *)

\* Now, or within the next millisecond; the database does not stamp at a whole one.
Moments == {now, Millis(now) + 2 * Precision - 1}

Stamp(t) ==
  /\ Cardinality({r \in Records : Millis(t) \in {Millis(local[r[1]][r[2]].at),
                                              Millis(central[r[1]][r[2]].at)}}) < Crowd
  /\ now' = t
  /\ edits' = edits + 1

\* The next identifier, or a row that the side has.
Editable(e, table) ==
  {i \in Ids(e) : table[i].at # 0 \/ \A j \in Ids(e) : j < i <=> local[e][j].at + central[e][j].at # 0}

EditLocal(e) ==
  /\ direction[e] # "READ_ONLY" /\ edits < MaxEdits
  /\ \E t \in Moments, i \in Editable(e, local[e]) :
       /\ Stamp(t)
       /\ local' = [local EXCEPT ![e][i] = [v |-> edits + 1, at |-> t]]
       /\ newest' = [newest EXCEPT ![e][i] = edits + 1]
  /\ UNCHANGED <<central, run, running, late, calls>>

EditCentral(e) ==
  /\ direction[e] # "WRITE_ONLY" /\ edits < MaxEdits
  /\ \E t \in Moments, i \in Editable(e, central[e]) :
       /\ Stamp(t)
       /\ central' = [central EXCEPT ![e][i] = [v |-> edits + 1, at |-> t]]
       /\ newest' = [newest EXCEPT ![e][i] = edits + 1]
  /\ UNCHANGED <<local, run, running, late, calls>>

-----------------------------------------------------------------------------
(* Starting a run.                                                         *)

\* A cron slot: the flag is tested before two reads of the database and set
\* after them.
ScheduledSlot(k) ==
  /\ run[k].pc = "idle" /\ ~ running
  /\ run' = [run EXCEPT ![k] = [NoRun EXCEPT !.pc = "slot", !.cron = TRUE]]
  /\ UNCHANGED <<tables, running, late, calls>>

\* The handshake with central follows at once.
EnterSlot(k) ==
  /\ run[k].pc = "slot"
  /\ running' = TRUE
  /\ run' = [run EXCEPT ![k].pc = "read", ![k].since = edits]
  /\ UNCHANGED <<tables, late, calls>>

ManualRun(k) ==
  /\ run[k].pc = "idle" /\ calls < CallLimit
  /\ \E m \in Modes :
       run' = [run EXCEPT ![k] = [NoRun EXCEPT !.pc = IF m = "pull" THEN "ask" ELSE "read",
                                               !.mode = m, !.since = edits]]
  /\ calls' = calls + 1
  /\ UNCHANGED <<tables, running, late>>

\* Mutant: a run that fails to start leaves the flag set.
EndRun_Flag(k) ==
  /\ run' = [run EXCEPT ![k] = NoRun]
  /\ running' = (run[k].pc = "slot" \/ (running /\ ~ run[k].cron))

\* runSync() returns, and the scheduler's finally.
EndRun(k) ==
  /\ run' = [run EXCEPT ![k] = NoRun]
  /\ running' = (running /\ ~ run[k].cron)

\* Central cannot be reached or refuses the schema: the run is FAILED. A manual
\* run that is refused changes nothing else.
RefuseRun(k) ==
  /\ run[k].pc = "slot" /\ calls < CallLimit
  /\ EndRun(k)
  /\ calls' = calls + 1
  /\ UNCHANGED <<tables, late>>

-----------------------------------------------------------------------------
(* pushPhase(). The failure of one table is noted and the next one goes on.*)

\* After the last row of the table at position pos.
NextPush(r) ==
  IF r.pos < Len(PUSH_ORDER)
  THEN [r EXCEPT !.pc = "read", !.pos = r.pos + 1, !.cursor = 0, !.chunk = {}]
  ELSE [r EXCEPT !.pc = IF r.mode = "full" THEN "ask" ELSE "finish",
                 !.pos = 1, !.cursor = 0, !.chunk = {}]

ReadChunk(k) ==
  /\ run[k].pc = "read"
  /\ LET e == PUSH_ORDER[run[k].pos] IN
     \E c \in Chunks(local[e], run[k].cursor) :
       run' = [run EXCEPT ![k] = IF c = {} THEN NextPush(run[k])
                                 ELSE [@ EXCEPT !.pc = "send", !.chunk = Packed(local[e], c)]]
  /\ UNCHANGED <<tables, running, late, calls>>

Store(e, chunk) == central' = [central EXCEPT ![e] = upsertWithUpdate(e, central[e], chunk)]

\* The acknowledged chunk moves the cursor.
Acknowledged(r) ==
  LET s == [r EXCEPT !.pc = "read", !.cursor = NextCursor(r.cursor, r.chunk), !.chunk = {}] IN
  IF Cardinality(r.chunk) = CHUNK_SIZE THEN s ELSE NextPush(s)

SendChunk(k) ==
  /\ run[k].pc = "send"
  /\ Store(PUSH_ORDER[run[k].pos], run[k].chunk)
  /\ run' = [run EXCEPT ![k] = Acknowledged(@)]
  /\ UNCHANGED <<now, edits, local, newest, running, late, calls>>

\* The first request times out, central gets to it later, and the repeated
\* one is answered.
SendTwice(k) ==
  /\ run[k].pc = "send" /\ calls < CallLimit
  /\ Store(PUSH_ORDER[run[k].pos], run[k].chunk)
  /\ late' = late \union {[entity |-> PUSH_ORDER[run[k].pos], chunk |-> run[k].chunk]}
  /\ run' = [run EXCEPT ![k] = Acknowledged(@)]
  /\ calls' = calls + 1
  /\ UNCHANGED <<now, edits, local, newest, running>>

\* Mutant: a table that failed does not count.
SendFault_Unnoticed(k) ==
  /\ run[k].pc = "send" /\ calls < CallLimit
  /\ run' = [run EXCEPT ![k] = NextPush(@)]
  /\ calls' = calls + 1
  /\ UNCHANGED <<tables, running, late>>

\* Both requests fail; what central made of them is not known here.
SendFault(k) ==
  /\ run[k].pc = "send" /\ calls < CallLimit
  /\ LET e == PUSH_ORDER[run[k].pos] IN
       \/ central' = central /\ late' = late
       \/ Store(e, run[k].chunk) /\ late' = late
       \/ central' = central /\ late' = late \union {[entity |-> e, chunk |-> run[k].chunk]}
  /\ run' = [run EXCEPT ![k] = NextPush([@ EXCEPT !.pushOk = FALSE])]
  /\ calls' = calls + 1
  /\ UNCHANGED <<now, edits, local, newest, running>>

DeliverLate ==
  /\ \E m \in late :
       /\ Store(m.entity, m.chunk)
       /\ late' = late \ {m}
  /\ UNCHANGED <<now, edits, local, newest, run, running, calls>>

-----------------------------------------------------------------------------
(* pullPhase(). The first failure ends it.                                 *)

NextPull(r) ==
  IF r.pos < Len(PULL_ORDER)
  THEN [r EXCEPT !.pc = "ask", !.pos = r.pos + 1, !.cursor = 0, !.chunk = {}]
  ELSE [r EXCEPT !.pc = "finish", !.pos = 1, !.cursor = 0, !.chunk = {}]

AskChunk(k) ==
  /\ run[k].pc = "ask"
  /\ LET e == PULL_ORDER[run[k].pos] IN
     \E c \in Chunks(central[e], run[k].cursor) :
       run' = [run EXCEPT ![k] = IF c = {} THEN NextPull(run[k])
                                 ELSE [@ EXCEPT !.pc = "apply", !.chunk = Packed(central[e], c)]]
  /\ UNCHANGED <<tables, running, late, calls>>

\* One transaction for the chunk.
ApplyChunk(k) ==
  /\ run[k].pc = "apply"
  /\ LET e == PULL_ORDER[run[k].pos]
         r == [run[k] EXCEPT !.pc = "ask", !.chunk = {},
                             !.cursor = NextCursor(run[k].cursor, run[k].chunk)] IN
       /\ local' = [local EXCEPT ![e] = upsertWithUpdate(e, local[e], run[k].chunk)]
       /\ run' = [run EXCEPT ![k] =
            IF Cardinality(run[k].chunk) = CHUNK_SIZE THEN r ELSE NextPull(r)]
  /\ UNCHANGED <<now, edits, central, newest, running, late, calls>>

PullFault(k) ==
  /\ run[k].pc \in {"ask", "apply"} /\ calls < CallLimit
  /\ run' = [run EXCEPT ![k].pc = "finish", ![k].pullOk = FALSE,
                        ![k].pos = 1, ![k].cursor = 0, ![k].chunk = {}]
  /\ calls' = calls + 1
  /\ UNCHANGED <<tables, running, late>>

-----------------------------------------------------------------------------
(* The end of a run, and of the process.                                   *)

\* result.status.
Status(r) ==
  IF r.pushOk /\ r.pullOk THEN "SUCCESS"
  ELSE IF r.mode = "full" /\ (r.pushOk \/ r.pullOk) THEN "PARTIAL" ELSE "FAILED"

\* The local row of sync_run_logs is closed, then central's, which may fail.
FinishRun(k) ==
  /\ run[k].pc = "finish"
  /\ EndRun(k)
  /\ UNCHANGED <<tables, late, calls>>

Restart ==
  /\ calls < CallLimit
  /\ \E k \in Runs : run[k].pc # "idle"
  /\ run' = [k \in Runs |-> NoRun]
  /\ running' = FALSE
  /\ calls' = calls + 1
  /\ UNCHANGED <<tables, late>>

-----------------------------------------------------------------------------
(* The specification.                                                      *)

Init ==
  /\ now = Start /\ edits = 0
  /\ local = [e \in Entities |->
                [i \in Ids(e) |-> [v |-> 0, at |-> IF i <= Onboarded[e] THEN Precision * i ELSE 0]]]
  /\ central = local
  /\ newest = [e \in Entities |-> [i \in Ids(e) |-> 0]]
  /\ run = [k \in Runs |-> NoRun]
  /\ running = FALSE
  /\ late = {}
  /\ calls = 0

\* The calls of a run that SyncController answers at central.
CallCentral(k) == SendChunk(k) \/ AskChunk(k) \/ FinishRun(k)

Step(k) == EnterSlot(k) \/ ReadChunk(k) \/ ApplyChunk(k) \/ CallCentral(k)

Next ==
  \/ \E e \in Entities : EditLocal(e) \/ EditCentral(e)
  \/ \E k \in Runs :
       \/ ScheduledSlot(k) \/ ManualRun(k) \/ Step(k)
       \/ RefuseRun(k) \/ SendTwice(k) \/ SendFault(k) \/ PullFault(k)
  \/ DeliverLate \/ Restart

Spec == Init /\ [][Next]_vars

\* A call runs to its end, the cron slots come round, and central works off
\* the requests it has.
Fairness ==
  /\ \A k \in Runs : WF_vars(Step(k))
  /\ WF_vars(\E k \in Runs : ScheduledSlot(k))
  /\ WF_vars(DeliverLate)

FairSpec == Spec /\ Fairness

-----------------------------------------------------------------------------
(* Properties.                                                             *)

\* "most-recent-updated_at-wins": the last edit of a row that both sides edit is
\* on one of them, whatever chunks are in flight (upsertWithUpdate).
NoLostEdit ==
  \A i \in Ids("Line") : newest["Line"][i] \in {local["Line"][i].v, central["Line"][i].v}

\* A run that reports SUCCESS has delivered what was there when it began, or a
\* later version (pushPhase, pullPhase, and the chunks they follow).
SuccessDelivered ==
  \A k \in Runs : run[k].pc = "finish" /\ Status(run[k]) = "SUCCESS" =>
    \A i \in Ids("Line") :
      /\ run[k].mode # "pull" /\ local["Line"][i].v <= run[k].since
           => central["Line"][i].v >= local["Line"][i].v
      /\ run[k].mode # "push" /\ central["Line"][i].v <= run[k].since
           => local["Line"][i].v >= central["Line"][i].v

\* The loop over chunks comes to an end, and the run with it (pushPhase).
RunsEnd == \A k \in Runs : []<>(run[k].pc = "idle")

\* When edits stop, the scheduled pushes leave central with everything the
\* centre has, after whatever overlapped, failed or came late before
\* (SyncSchedulerService, DatabaseSyncService).
Converges ==
  <>[](\A e \in Entities : \A i \in Ids(e) :
         direction[e] # "READ_ONLY" => central[e][i].v >= local[e][i].v)

\* Chunks that overlap, fail or come late neither lose an edit nor make a run
\* report what it did not deliver.
SyncInv == TypeOK /\ NoLostEdit /\ SuccessDelivered

=============================================================================
