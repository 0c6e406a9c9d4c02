------------------------------ MODULE Onboarding ------------------------------
(***************************************************************************)
(* How a centre's server takes over its data from central. A login of a    *)
(* user who is not in the local database is checked by central and drives  *)
(* the row of onboarding_status: PENDING, PENDING_CONFIRMATION,            *)
(* IN_PROGRESS, COMPLETED or FAILED, each step a conditional UPDATE. The   *)
(* login that claims IN_PROGRESS pulls the tables chunk by chunk, one      *)
(* transaction each, and stores the key that central issues for the later  *)
(* synchronisation.                                                        *)
(*                                                                         *)
(* A login of a user who is in the local database never comes here.        *)
(***************************************************************************)
EXTENDS Integers, FiniteSets

CONSTANTS
  Centres,
  Logins,      \* users who log in, each one request at a time
  None,        \* no centre
  CallLimit    \* bound: failed calls, delays and restarts, together

ASSUME NoneAssumption == None \notin Centres
ASSUME LimitAssumption == CallLimit \in Nat /\ IsFiniteSet(Logins)

VARIABLES
  home,        \* the centre of each user at central; fixed
  early,       \* users that central already had when the pull began; fixed
  st,          \* the row of onboarding_status
  local,       \* chunks of each centre in the local database
  key,         \* centres.sync_api_key, by centre
  login,       \* local state of each login
  overtaken,   \* logins whose sync does not own the row any more: it was taken for
               \* dead, or another one that was closed the row
  calls

vars == <<home, early, st, local, key, login, overtaken, calls>>

-----------------------------------------------------------------------------
(* Types.                                                                  *)

\* "Line" stands for the entities that come before the users.
ONBOARDING_PULL_ORDER == <<"Line", "User", "UserLineMapping">>

Chunks == DOMAIN ONBOARDING_PULL_ORDER

Statuses == {"PENDING", "PENDING_CONFIRMATION", "IN_PROGRESS", "COMPLETED", "FAILED"}

\* late: past confirmation_expires_at, or two minutes past updated_at.
Row == [status : Statuses, centre : Centres \union {None}, late : BOOLEAN]

\* A synchronisation key: the centre central issued it for, and whether it is
\* still valid there. Keys nobody holds any more are forgotten.
NoKey == [of |-> None, active |-> FALSE]
Keys == [of : Centres, active : BOOLEAN] \union {NoKey}

Login == [pc : {"idle", "expire", "expired", "stale", "stopped", "unfail", "unfailed",
                "confirm", "take", "pull", "store", "finish", "fail",
                "heal", "issue", "keep"},
          confirm : BOOLEAN, next : 0 .. Cardinality(Chunks) + 1,
          centre : Centres \union {None}, key : Keys]

NoLogin == [pc |-> "idle", confirm |-> FALSE, next |-> 0, centre |-> None, key |-> NoKey]

TypeOK ==
  /\ home \in [Logins -> Centres] /\ early \subseteq Logins
  /\ st \in Row
  /\ st.status \in {"PENDING_CONFIRMATION", "IN_PROGRESS", "COMPLETED"} => st.centre # None
  /\ local \subseteq Centres \X Chunks
  /\ key \in [Centres -> Keys]
  /\ \A c \in Centres : key[c] # NoKey => <<c, 1>> \in local
  /\ login \in [Logins -> Login]
  /\ overtaken \subseteq {g \in Logins : login[g].pc \in {"pull", "store", "finish", "fail"}}
  /\ calls \in 0 .. CallLimit

-----------------------------------------------------------------------------
(* Queries.                                                                *)

\* findByEmailWithPassword() on the local users.
Known(g) == g \in early /\ <<home[g], 2>> \in local

\* The centre that central's confirm() answers: the one of the user it knows,
\* with a token for the pull.
Confirmed(g) == home[g]

\* What pullChunk() answers in the session that pullStart() opened: the rows of
\* the centre that was confirmed, from the cursor on.
Pulled(g) == {<<Confirmed(g), login[g].next>>}

Syncing == {g \in Logins : login[g].pc \in {"pull", "store", "finish", "fail"}}

\* tryClaim(): UPDATE ... WHERE status IN (from).
tryClaim(from, to, centre) ==
  IF st.status \in from THEN [status |-> to, centre |-> centre, late |-> FALSE] ELSE st

\* The branch a login takes on the row it read, past the two recovery rules.
Branch(row, confirm) ==
  CASE row.status = "COMPLETED" -> "heal"
    [] row.status = "IN_PROGRESS" -> "idle"
    [] row.status = "FAILED" -> "unfail"
    [] row.status = "PENDING_CONFIRMATION" -> IF confirm THEN "take" ELSE "idle"
    [] row.status = "PENDING" -> "confirm"

\* Mutant: a sync that stopped is never taken for dead.
ensureOnboarded_NoStale(row, confirm) ==
  IF row.status = "PENDING_CONFIRMATION" /\ row.late THEN "expire"
  ELSE Branch(row, confirm)

ensureOnboarded(row, confirm) ==
  IF row.status = "PENDING_CONFIRMATION" /\ row.late THEN "expire"
  ELSE IF row.status = "IN_PROGRESS" /\ row.late THEN "stale"
  ELSE Branch(row, confirm)

\* A login goes on at pc; the end of it forgets what it knew.
Go(g, pc) ==
  login' = [login EXCEPT ![g] = IF pc = "idle" THEN NoLogin ELSE [@ EXCEPT !.pc = pc]]

-----------------------------------------------------------------------------
(* ensureOnboarded().                                                      *)

StartLogin(g, confirm) ==
  /\ login[g].pc = "idle" /\ ~ Known(g)
  /\ LET pc == ensureOnboarded(st, confirm) IN
       login' = [login EXCEPT ![g] =
         IF pc = "idle" THEN NoLogin
         ELSE [NoLogin EXCEPT !.pc = pc, !.confirm = confirm, !.centre = st.centre]]
  /\ UNCHANGED <<home, early, st, local, key, overtaken, calls>>

\* The reread after one of the two recovery rules.
Reread(g) ==
  /\ login[g].pc \in {"expired", "stopped"}
  /\ LET pc == IF login[g].pc = "expired" /\ st.status = "IN_PROGRESS" /\ st.late
               THEN "stale" ELSE Branch(st, login[g].confirm) IN
       login' = [login EXCEPT ![g] =
         IF pc = "idle" THEN NoLogin ELSE [@ EXCEPT !.pc = pc, !.centre = st.centre]]
  /\ UNCHANGED <<home, early, st, local, key, overtaken, calls>>

ExpireConfirmation(g) ==
  /\ login[g].pc = "expire"
  /\ st' = tryClaim({"PENDING_CONFIRMATION"}, "PENDING", None)
  /\ Go(g, "expired")
  /\ UNCHANGED <<home, early, local, key, overtaken, calls>>

\* Mutant: the row is reset without looking at its status.
StopStale_Unconditional(g) ==
  /\ login[g].pc = "stale"
  /\ st' = [status |-> "PENDING", centre |-> None, late |-> FALSE]
  /\ overtaken' = overtaken \union Syncing
  /\ Go(g, "stopped")
  /\ UNCHANGED <<home, early, local, key, calls>>

StopStale(g) ==
  /\ login[g].pc = "stale"
  /\ st' = tryClaim({"IN_PROGRESS"}, "PENDING", None)
  /\ overtaken' = IF st.status = "IN_PROGRESS" THEN overtaken \union Syncing ELSE overtaken
  /\ Go(g, "stopped")
  /\ UNCHANGED <<home, early, local, key, calls>>

ResetFailed(g) ==
  /\ login[g].pc = "unfail"
  /\ st' = tryClaim({"FAILED"}, "PENDING", None)
  /\ Go(g, "unfailed")
  /\ UNCHANGED <<home, early, local, key, overtaken, calls>>

\* Whatever the reread finds but a pending confirmation goes on as PENDING.
RereadFailed(g) ==
  /\ login[g].pc = "unfailed"
  /\ Go(g, IF ~ login[g].confirm THEN "idle"
           ELSE IF st.status = "PENDING_CONFIRMATION" THEN "take" ELSE "confirm")
  /\ UNCHANGED <<home, early, st, local, key, overtaken, calls>>

\* Mutant: the claim does not record the centre.
ClaimConfirmation_NoCentre(g) ==
  /\ login[g].pc = "confirm"
  /\ st' = tryClaim({"PENDING"}, "PENDING_CONFIRMATION", st.centre)
  /\ Go(g, IF st.status = "PENDING" /\ login[g].confirm THEN "take" ELSE "idle")
  /\ UNCHANGED <<home, early, local, key, overtaken, calls>>

\* central's confirm(), then the claim for the centre of the user.
ClaimConfirmation(g) ==
  /\ login[g].pc = "confirm"
  /\ st' = tryClaim({"PENDING"}, "PENDING_CONFIRMATION", Confirmed(g))
  /\ Go(g, IF st.status = "PENDING" /\ login[g].confirm THEN "take" ELSE "idle")
  /\ UNCHANGED <<home, early, local, key, overtaken, calls>>

-----------------------------------------------------------------------------
(* confirmAndSync() and syncCentreScopedData(). The centre that is pulled  *)
(* is the one of the user, whatever the row says.                          *)

\* Mutant: a sync in progress can be claimed again.
ClaimSync_Running(g) ==
  /\ login[g].pc = "take"
  /\ st' = tryClaim({"PENDING_CONFIRMATION", "IN_PROGRESS"}, "IN_PROGRESS", st.centre)
  /\ IF st.status \in {"PENDING_CONFIRMATION", "IN_PROGRESS"}
     THEN login' = [login EXCEPT ![g].pc = "pull", ![g].next = 1]
     ELSE Go(g, "idle")
  /\ UNCHANGED <<home, early, local, key, overtaken, calls>>

ClaimSync(g) ==
  /\ login[g].pc = "take"
  /\ st' = tryClaim({"PENDING_CONFIRMATION"}, "IN_PROGRESS", st.centre)
  /\ IF st.status = "PENDING_CONFIRMATION"
     THEN login' = [login EXCEPT ![g].pc = "pull", ![g].next = 1]
     ELSE Go(g, "idle")
  /\ UNCHANGED <<home, early, local, key, overtaken, calls>>

\* INSERT ... ON CONFLICT DO NOTHING, with the roles and lines of other
\* centres that the rows of the chunk refer to.
PullChunk(g) ==
  /\ login[g].pc = "pull" /\ login[g].next \in Chunks
  /\ local' = local \union Pulled(g)
  /\ login' = [login EXCEPT ![g].next = login[g].next + 1]
  /\ UNCHANGED <<home, early, st, key, overtaken, calls>>

\* pullComplete(): central ends the session and issues a key.
CompletePull(g) ==
  /\ login[g].pc = "pull" /\ login[g].next \notin Chunks
  /\ login' = [login EXCEPT ![g].pc = "store",
                            ![g].key = [of |-> home[g], active |-> TRUE]]
  /\ UNCHANGED <<home, early, st, local, key, overtaken, calls>>

\* storeSyncApiKey() takes the centre from the row as it is now, and updates
\* nothing when that centre has no local row.
StoreKey(g) ==
  /\ login[g].pc = "store"
  /\ key' = IF st.centre # None /\ <<st.centre, 1>> \in local
            THEN [key EXCEPT ![st.centre] = login[g].key] ELSE key
  /\ login' = [login EXCEPT ![g].pc = "finish", ![g].key = NoKey]
  /\ UNCHANGED <<home, early, st, local, overtaken, calls>>

\* The login is answered COMPLETED whether or not the claim succeeds.
FinishSync(g) ==
  /\ login[g].pc = "finish"
  /\ st' = tryClaim({"IN_PROGRESS"}, "COMPLETED", st.centre)
  /\ overtaken' = (IF g \in overtaken THEN Syncing ELSE overtaken) \ {g}
  /\ Go(g, "idle")
  /\ UNCHANGED <<home, early, local, key, calls>>

\* Mutant: a chunk that cannot be pulled is skipped.
SyncFault_Skipped(g) ==
  /\ login[g].pc \in {"pull", "finish"} /\ calls < CallLimit
  /\ login' = [login EXCEPT ![g].pc = "finish", ![g].key = NoKey]
  /\ calls' = calls + 1
  /\ UNCHANGED <<home, early, st, local, key, overtaken>>

\* A call of the pull, or a local transaction, fails; an answer of
\* pullComplete() may be lost after the key was issued. Expired tokens and
\* sessions, and a restart of central, which forgets them, look the same.
SyncFault(g) ==
  /\ login[g].pc \in {"pull", "finish"} /\ calls < CallLimit
  /\ login' = [login EXCEPT ![g].pc = "fail"]
  /\ calls' = calls + 1
  /\ UNCHANGED <<home, early, st, local, key, overtaken>>

\* markFailed() looks at no status.
MarkFailed(g) ==
  /\ login[g].pc = "fail"
  /\ st' = [st EXCEPT !.status = "FAILED"]
  /\ overtaken' = (IF g \in overtaken THEN Syncing ELSE overtaken) \ {g}
  /\ Go(g, "idle")
  /\ UNCHANGED <<home, early, local, key, calls>>

-----------------------------------------------------------------------------
(* ensureSyncApiKey(), on a box that is onboarded.                         *)

\* Mutant: a centre without a key is left alone.
ReadKey_Done(g) ==
  /\ login[g].pc = "heal"
  /\ Go(g, "idle")
  /\ UNCHANGED <<home, early, st, local, key, overtaken, calls>>

ReadKey(g) ==
  /\ login[g].pc = "heal"
  /\ Go(g, IF login[g].centre # None /\ key[login[g].centre] = NoKey THEN "issue" ELSE "idle")
  /\ UNCHANGED <<home, early, st, local, key, overtaken, calls>>

Revoke(c, k) == IF k.of = c THEN [k EXCEPT !.active = FALSE] ELSE k

\* central's issueSyncKey(): the keys of the user's centre are revoked, and a
\* new one is issued; the answer may be lost.
IssueKey(g) ==
  /\ login[g].pc = "issue"
  /\ key' = [c \in Centres |-> Revoke(home[g], key[c])]
  /\ LET others == [h \in Logins |-> [login[h] EXCEPT !.key = Revoke(home[g], login[h].key)]] IN
       \/ /\ login' = [others EXCEPT ![g].pc = "keep",
                                     ![g].key = [of |-> home[g], active |-> TRUE]]
          /\ calls' = calls
       \/ /\ calls < CallLimit /\ calls' = calls + 1
          /\ login' = [others EXCEPT ![g] = NoLogin]
  /\ UNCHANGED <<home, early, st, local, overtaken>>

KeepKey(g) ==
  /\ login[g].pc = "keep"
  /\ key' = IF <<login[g].centre, 1>> \in local
            THEN [key EXCEPT ![login[g].centre] = login[g].key] ELSE key
  /\ Go(g, "idle")
  /\ UNCHANGED <<home, early, st, local, overtaken, calls>>

-----------------------------------------------------------------------------
(* Time, and the process.                                                  *)

\* Central cannot be reached, and the login fails.
LoginFault(g) ==
  /\ login[g].pc \in {"confirm", "issue"} /\ calls < CallLimit
  /\ calls' = calls + 1
  /\ Go(g, "idle")
  /\ UNCHANGED <<home, early, st, local, key, overtaken>>

\* Two minutes after the sync of the row died.
TimePasses ==
  /\ st.status = "IN_PROGRESS" /\ ~ st.late /\ Syncing \subseteq overtaken
  /\ st' = [st EXCEPT !.late = TRUE]
  /\ UNCHANGED <<home, early, local, key, login, overtaken, calls>>

\* A sync takes more than two minutes, a confirmation more than ten.
Slow ==
  /\ st.status \in {"PENDING_CONFIRMATION", "IN_PROGRESS"} /\ ~ st.late
  /\ calls < CallLimit
  /\ st' = [st EXCEPT !.late = TRUE]
  /\ calls' = calls + 1
  /\ UNCHANGED <<home, early, local, key, login, overtaken>>

\* Requests end where they are. A new version of the schema is recorded in the
\* row, which renews its updated_at (SchemaBootstrapService).
Restart ==
  /\ calls < CallLimit
  /\ login' = [g \in Logins |-> NoLogin]
  /\ overtaken' = {}
  /\ \/ st' = st
     \/ st.status = "IN_PROGRESS" /\ st' = [st EXCEPT !.late = FALSE]
  /\ calls' = calls + 1
  /\ UNCHANGED <<home, early, local, key>>

-----------------------------------------------------------------------------
(* The specification.                                                      *)

Init ==
  /\ home \in [Logins -> Centres] /\ early \in SUBSET Logins
  /\ st = [status |-> "PENDING", centre |-> None, late |-> FALSE]
  /\ local = {}
  /\ key = [c \in Centres |-> NoKey]
  /\ login = [g \in Logins |-> NoLogin]
  /\ overtaken = {}
  /\ calls = 0

\* What a login asks of central, one endpoint of OnboardingController each.
CallCentral(g) ==
  \/ ClaimConfirmation(g) \/ PullChunk(g) \/ CompletePull(g) \/ IssueKey(g)

Step(g) ==
  \/ Reread(g) \/ ExpireConfirmation(g) \/ StopStale(g) \/ ResetFailed(g)
  \/ RereadFailed(g) \/ ClaimSync(g) \/ StoreKey(g) \/ FinishSync(g)
  \/ MarkFailed(g) \/ ReadKey(g) \/ KeepKey(g)
  \/ CallCentral(g)

Next ==
  \/ \E g \in Logins :
       \/ \E confirm \in BOOLEAN : StartLogin(g, confirm)
       \/ Step(g) \/ SyncFault(g) \/ LoginFault(g)
  \/ TimePasses \/ Slow \/ Restart

Spec == Init /\ [][Next]_vars

\* A request runs to its end; a user who cannot get in tries again and
\* confirms; the clock moves.
FairSpec ==
  /\ Spec
  /\ \A g \in Logins : WF_vars(Step(g)) /\ SF_vars(StartLogin(g, TRUE))
  /\ WF_vars(TimePasses)

-----------------------------------------------------------------------------
(* Properties.                                                             *)

\* "concurrent logins can never double-sync": of the logins that pull, all but
\* one lost the row before (tryClaim, confirmAndSync).
SyncsExclude == Cardinality(Syncing \ overtaken) <= 1

\* A box is COMPLETED only with every chunk of a centre, however many syncs were
\* cut short before (syncCentreScopedData, confirmAndSync).
CompletedIsWhole ==
  st.status = "COMPLETED" => \E c \in Centres : {c} \X Chunks \subseteq local

\* "Onboarding never runs again on this box": COMPLETED is left only through the
\* failure of a sync that lost the row before (markFailed, tryClaim).
CompletedStays ==
  [][st.status = "COMPLETED" => st'.status = "COMPLETED" \/ overtaken # {}]_vars

\* An onboarding that stopped half-way is taken up again, unless the users who
\* log in are in the local database already (ensureOnboarded).
TakenUpAgain ==
  []<>(st.status = "COMPLETED" \/ \A g \in Logins : Known(g))

\* "if central is unreachable now, the next login retries": an onboarded centre
\* is left without a key for good only when nobody comes here any more
\* (ensureSyncApiKey).
KeyRecovered ==
  \A c \in Centres :
    []<>(st.status = "COMPLETED" /\ st.centre = c /\ <<c, 1>> \in local
         => key[c] # NoKey \/ \A g \in Logins : Known(g))

\* "let the next login attempt restart the handshake from scratch".
Restarted == []<>(st.status = "COMPLETED")

\* One login at a time owns the row, and what it says of the data is true.
OnboardingInv == TypeOK /\ SyncsExclude /\ CompletedIsWhole

\* What failed is made good by later logins (ensureOnboarded, ensureSyncApiKey).
OnboardingRecovers == TakenUpAgain /\ KeyRecovered

=============================================================================
