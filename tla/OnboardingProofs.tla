--------------------------- MODULE OnboardingProofs ---------------------------
(***************************************************************************)
(* Proofs about Onboarding, for any number of centres, of concurrent       *)
(* logins and of faults.                                                   *)
(***************************************************************************)
EXTENDS Onboarding, FiniteSetTheorems, TLAPS

-----------------------------------------------------------------------------
(* Constants and small operators.                                          *)

LEMMA ChunksAre == Chunks = 1 .. 3 /\ Cardinality(Chunks) = 3
<1>1. Chunks = 1 .. 3
  BY DEF Chunks, ONBOARDING_PULL_ORDER
<1>2. Cardinality(1 .. 3) = IF 1 > 3 THEN 0 ELSE 3 - 1 + 1
  <2>1. 1 \in Int /\ 3 \in Int
    OBVIOUS
  <2> QED
    BY ONLY <2>1, FS_Interval, Zenon
<1> QED
  BY <1>1, <1>2

LEMMA NoLoginType == NoLogin \in Login
<1>1. NoKey \in Keys
  BY DEF Keys
<1> QED
  BY <1>1, ChunksAre DEF NoLogin, Login

\* Where a login may go on without touching what else it knows.
Pcs == {"idle", "expire", "expired", "stale", "stopped", "unfail", "unfailed",
        "confirm", "take", "pull", "store", "finish", "fail",
        "heal", "issue", "keep"}

\* Places of a sync, and the ones before or beside it.
SyncPcs == {"pull", "store", "finish", "fail"}
Before == Pcs \ SyncPcs

LEMMA GoType ==
  ASSUME login \in [Logins -> Login], NEW g \in Logins, NEW pc \in Pcs, Go(g, pc)
  PROVE  /\ login' \in [Logins -> Login]
         /\ login'[g].pc = pc
         /\ \A h \in Logins \ {g} : login'[h] = login[h]
<1>1. [login[g] EXCEPT !.pc = pc] \in Login
  BY DEF Login, Pcs
<1>2. login' = [login EXCEPT ![g] = IF pc = "idle" THEN NoLogin
                                    ELSE [login[g] EXCEPT !.pc = pc]]
  BY DEF Go
<1>3. login[g] \in Login
  OBVIOUS
<1> QED
  BY <1>1, <1>2, <1>3, NoLoginType DEF NoLogin, Login

LEMMA BranchType ==
  ASSUME NEW row \in Row, NEW confirm \in BOOLEAN
  PROVE  Branch(row, confirm) \in Before
BY DEF Branch, Row, Statuses, Before, Pcs, SyncPcs

LEMMA EnsureType ==
  ASSUME NEW row \in Row, NEW confirm \in BOOLEAN
  PROVE  ensureOnboarded(row, confirm) \in Before
<1>1. {"expire", "stale"} \subseteq Before
  BY DEF Before, Pcs, SyncPcs
<1> QED
  BY <1>1, BranchType DEF ensureOnboarded

LEMMA ClaimType ==
  ASSUME st \in Row, NEW from, NEW to \in Statuses,
         NEW centre \in Centres \union {None}
  PROVE  tryClaim(from, to, centre) \in Row
BY DEF tryClaim, Row

-----------------------------------------------------------------------------
(* Type correctness.  The logins that sync change in few steps: SyncStep   *)
(* is what all others do to them.                                          *)

\* One login moves between places outside of a sync.
Aside(g) ==
  /\ login[g].pc \notin SyncPcs /\ login'[g].pc \notin SyncPcs
  /\ \A h \in Logins \ {g} : login'[h] = login[h]

LEMMA SyncingIs == Syncing = {g \in Logins : login[g].pc \in SyncPcs}
BY DEF Syncing, SyncPcs

LEMMA AsideSyncing ==
  ASSUME NEW g \in Logins, Aside(g)
  PROVE  Syncing' = Syncing
BY DEF Syncing, Aside, SyncPcs

LEMMA GoAside ==
  ASSUME login \in [Logins -> Login], NEW g \in Logins, NEW pc \in Before, Go(g, pc),
         login[g].pc \in Before
  PROVE  Aside(g) /\ login' \in [Logins -> Login]
<1>1. pc \in Pcs /\ pc \notin SyncPcs /\ login[g].pc \notin SyncPcs
  BY DEF Before
<1> QED
  BY <1>1, GoType DEF Aside

LEMMA InitType == Init => TypeOK
<1> SUFFICES ASSUME Init PROVE TypeOK
  OBVIOUS
<1>1. st \in Row
  BY DEF Init, Row, Statuses
<1>2. login \in [Logins -> Login]
  BY NoLoginType DEF Init
<1>3. key \in [Centres -> Keys]
  BY DEF Init, Keys
<1>4. calls \in 0 .. CallLimit
  BY LimitAssumption DEF Init
<1> QED
  BY <1>1, <1>2, <1>3, <1>4 DEF Init, TypeOK

\* The row names a centre once it is past PENDING.
Named(row) == row.status \in {"PENDING_CONFIRMATION", "IN_PROGRESS", "COMPLETED"} => row.centre # None

LEMMA ClaimNamed ==
  ASSUME st \in Row, Named(st), NEW from, NEW to \in Statuses,
         NEW centre \in Centres \union {None},
         to = "PENDING" \/ centre # None \/ st.status \notin from
  PROVE  tryClaim(from, to, centre) \in Row /\ Named(tryClaim(from, to, centre))
BY DEF tryClaim, Row, Named

\* A login moves outside of a sync, the row is written or not.
LEMMA AsideType ==
  ASSUME TypeOK, NEW g \in Logins, Aside(g), login' \in [Logins -> Login],
         st' \in Row, Named(st'), overtaken' \subseteq Syncing,
         UNCHANGED <<home, early, local, key, calls>>
  PROVE  TypeOK'
BY AsideSyncing DEF TypeOK, Syncing, Named

\* ensureOnboarded(), up to the claim of a sync.
LEMMA LoginType ==
  ASSUME TypeOK, NEW g \in Logins,
         \/ \E confirm \in BOOLEAN : StartLogin(g, confirm)
         \/ Reread(g) \/ ExpireConfirmation(g) \/ StopStale(g) \/ ResetFailed(g)
         \/ RereadFailed(g) \/ ClaimConfirmation(g)
  PROVE  TypeOK' /\ Aside(g)
<1> /\ st \in Row /\ Named(st) /\ login \in [Logins -> Login]
    /\ home \in [Logins -> Centres] /\ overtaken \subseteq Syncing
  BY DEF TypeOK, Syncing, Named
<1> login[g] \in Login
  OBVIOUS
<1>1. ASSUME NEW confirm \in BOOLEAN, StartLogin(g, confirm) PROVE TypeOK' /\ Aside(g)
  <2> DEFINE pc == ensureOnboarded(st, confirm)
  <2>1. pc \in Before
    BY EnsureType
  <2>2. login' = [login EXCEPT ![g] = IF pc = "idle" THEN NoLogin
          ELSE [NoLogin EXCEPT !.pc = pc, !.confirm = confirm, !.centre = st.centre]]
    BY <1>1 DEF StartLogin
  <2> HIDE DEF pc
  <2>3. [NoLogin EXCEPT !.pc = pc, !.confirm = confirm, !.centre = st.centre] \in Login
    BY <2>1, NoLoginType DEF Login, Row, Before, Pcs
  <2>4. login' \in [Logins -> Login] /\ login'[g].pc = pc
    BY <2>2, <2>3, NoLoginType DEF Login, NoLogin
  <2>5. Aside(g)
    BY <1>1, <2>1, <2>2, <2>4 DEF Aside, StartLogin, Before, SyncPcs
  <2> QED
    BY <1>1, <2>4, <2>5, AsideType DEF StartLogin
<1>2. CASE Reread(g)
  <2> DEFINE pc == IF login[g].pc = "expired" /\ st.status = "IN_PROGRESS" /\ st.late
                   THEN "stale" ELSE Branch(st, login[g].confirm)
  <2>1. pc \in Before
    BY BranchType DEF Login, Before, Pcs, SyncPcs
  <2>2. login' = [login EXCEPT ![g] = IF pc = "idle" THEN NoLogin
                    ELSE [login[g] EXCEPT !.pc = pc, !.centre = st.centre]]
    BY <1>2 DEF Reread
  <2> HIDE DEF pc
  <2>3. [login[g] EXCEPT !.pc = pc, !.centre = st.centre] \in Login
    BY <2>1 DEF Login, Row, Before, Pcs
  <2>4. login' \in [Logins -> Login] /\ login'[g].pc = pc
    BY <2>2, <2>3, NoLoginType DEF Login, NoLogin
  <2>5. Aside(g)
    BY <1>2, <2>1, <2>2, <2>4 DEF Aside, Reread, Before, SyncPcs
  <2> QED
    BY <1>2, <2>4, <2>5, AsideType DEF Reread
<1>3. CASE ExpireConfirmation(g)
  <2>1. "expired" \in Before /\ login[g].pc \in Before
    BY <1>3 DEF ExpireConfirmation, Before, Pcs, SyncPcs
  <2>2. Aside(g) /\ login' \in [Logins -> Login]
    BY <1>3, <2>1, GoAside DEF ExpireConfirmation
  <2>3. st' \in Row /\ Named(st')
    BY <1>3, ClaimNamed DEF ExpireConfirmation, Statuses
  <2> QED
    BY <1>3, <2>2, <2>3, AsideType DEF ExpireConfirmation
<1>4. CASE StopStale(g)
  <2>1. "stopped" \in Before /\ login[g].pc \in Before
    BY <1>4 DEF StopStale, Before, Pcs, SyncPcs
  <2>2. Aside(g) /\ login' \in [Logins -> Login]
    BY <1>4, <2>1, GoAside DEF StopStale
  <2>3. st' \in Row /\ Named(st')
    BY <1>4, ClaimNamed DEF StopStale, Statuses
  <2> QED
    BY <1>4, <2>2, <2>3, AsideType DEF StopStale
<1>5. CASE ResetFailed(g)
  <2>1. "unfailed" \in Before /\ login[g].pc \in Before
    BY <1>5 DEF ResetFailed, Before, Pcs, SyncPcs
  <2>2. Aside(g) /\ login' \in [Logins -> Login]
    BY <1>5, <2>1, GoAside DEF ResetFailed
  <2>3. st' \in Row /\ Named(st')
    BY <1>5, ClaimNamed DEF ResetFailed, Statuses
  <2> QED
    BY <1>5, <2>2, <2>3, AsideType DEF ResetFailed
<1>6. CASE RereadFailed(g)
  <2> DEFINE pc == IF ~ login[g].confirm THEN "idle"
                   ELSE IF st.status = "PENDING_CONFIRMATION" THEN "take" ELSE "confirm"
  <2>1. pc \in Before /\ login[g].pc \in Before
    BY <1>6 DEF RereadFailed, Before, Pcs, SyncPcs
  <2>2. Go(g, pc)
    BY <1>6 DEF RereadFailed
  <2> HIDE DEF pc
  <2>3. Aside(g) /\ login' \in [Logins -> Login]
    BY <2>1, <2>2, GoAside
  <2> QED
    BY <1>6, <2>3, AsideType DEF RereadFailed
<1>7. CASE ClaimConfirmation(g)
  <2> DEFINE pc == IF st.status = "PENDING" /\ login[g].confirm THEN "take" ELSE "idle"
  <2>1. pc \in Before /\ login[g].pc \in Before
    BY <1>7 DEF ClaimConfirmation, Before, Pcs, SyncPcs
  <2>2. Go(g, pc)
    BY <1>7 DEF ClaimConfirmation
  <2> HIDE DEF pc
  <2>3. Aside(g) /\ login' \in [Logins -> Login]
    BY <2>1, <2>2, GoAside
  <2>4. Confirmed(g) \in Centres /\ Confirmed(g) # None
    BY NoneAssumption DEF Confirmed
  <2>5. st' \in Row /\ Named(st')
    BY <1>7, <2>4, ClaimNamed DEF ClaimConfirmation, Statuses
  <2> QED
    BY <1>7, <2>3, <2>5, AsideType DEF ClaimConfirmation
<1> QED
  BY <1>1, <1>2, <1>3, <1>4, <1>5, <1>6, <1>7

\* confirmAndSync(), from the claim to the closing of the row.
LEMMA SyncType ==
  ASSUME TypeOK, NEW g \in Logins,
         ClaimSync(g) \/ PullChunk(g) \/ CompletePull(g) \/ StoreKey(g)
           \/ FinishSync(g) \/ MarkFailed(g) \/ SyncFault(g)
  PROVE  TypeOK'
<1> /\ st \in Row /\ Named(st) /\ login \in [Logins -> Login]
    /\ home \in [Logins -> Centres] /\ overtaken \subseteq Syncing
    /\ key \in [Centres -> Keys]
  BY DEF TypeOK, Syncing, Named
<1> login[g] \in Login
  OBVIOUS
<1> NoKey \in Keys
  BY DEF Keys
<1>1. CASE ClaimSync(g)
  <2>1. st' \in Row /\ Named(st')
    BY <1>1, ClaimNamed DEF ClaimSync, Statuses, Row, Named
  <2>2. CASE st.status = "PENDING_CONFIRMATION"
    <3>1. login' = [login EXCEPT ![g].pc = "pull", ![g].next = 1]
      BY <1>1, <2>2 DEF ClaimSync
    <3>2. login' \in [Logins -> Login] /\ login'[g].pc = "pull"
      <4>1. 1 \in 0 .. Cardinality(Chunks) + 1
        BY ChunksAre
      <4> QED
        BY <3>1, <4>1 DEF Login
    <3>3. overtaken \subseteq Syncing'
      BY <3>1, <3>2, SyncingIs DEF Syncing, SyncPcs
    <3> QED
      BY <1>1, <2>1, <3>2, <3>3 DEF ClaimSync, TypeOK, Syncing, Named
  <2>3. CASE st.status # "PENDING_CONFIRMATION"
    <3>1. "idle" \in Before /\ login[g].pc \in Before /\ Go(g, "idle")
      BY <1>1, <2>3 DEF ClaimSync, Before, Pcs, SyncPcs
    <3>2. Aside(g) /\ login' \in [Logins -> Login]
      BY <3>1, GoAside
    <3> QED
      BY <1>1, <2>1, <3>2, AsideType DEF ClaimSync
  <2> QED
    BY <2>2, <2>3
<1>2. CASE PullChunk(g)
  <2>1. login[g].next + 1 \in 0 .. Cardinality(Chunks) + 1
    BY <1>2, ChunksAre DEF PullChunk
  <2>2. login' = [login EXCEPT ![g].next = login[g].next + 1]
    BY <1>2 DEF PullChunk
  <2>3. login' \in [Logins -> Login] /\ \A h \in Logins : login'[h].pc = login[h].pc
    BY <2>1, <2>2 DEF Login
  <2>4. local' \subseteq Centres \X Chunks /\ local \subseteq local'
    BY <1>2 DEF PullChunk, Pulled, Confirmed, TypeOK
  <2> QED
    BY <1>2, <2>3, <2>4 DEF PullChunk, TypeOK, Syncing
<1>3. CASE CompletePull(g)
  <2>1. [of |-> home[g], active |-> TRUE] \in Keys
    BY DEF Keys
  <2>2. login' = [login EXCEPT ![g].pc = "store", ![g].key = [of |-> home[g], active |-> TRUE]]
    BY <1>3 DEF CompletePull
  <2>3. login' \in [Logins -> Login] /\ login'[g].pc = "store"
    BY <2>1, <2>2 DEF Login
  <2>4. overtaken \subseteq Syncing'
    BY <2>2, <2>3, SyncingIs DEF Syncing, SyncPcs
  <2> QED
    BY <1>3, <2>3, <2>4 DEF CompletePull, TypeOK, Syncing
<1>4. CASE StoreKey(g)
  <2>1. login' = [login EXCEPT ![g].pc = "finish", ![g].key = NoKey]
    BY <1>4 DEF StoreKey
  <2>2. login' \in [Logins -> Login] /\ login'[g].pc = "finish"
    BY <2>1 DEF Login
  <2>3. overtaken \subseteq Syncing'
    BY <2>1, <2>2, SyncingIs DEF Syncing, SyncPcs
  <2>4. login[g].key \in Keys
    BY DEF Login
  <2>5. key' \in [Centres -> Keys] /\ \A c \in Centres : key'[c] # NoKey => <<c, 1>> \in local
    BY <1>4, <2>4 DEF StoreKey, Row, TypeOK
  <2> QED
    BY <1>4, <2>2, <2>3, <2>5 DEF StoreKey, TypeOK, Syncing
<1>5. ASSUME FinishSync(g) \/ MarkFailed(g) PROVE TypeOK'
  <2>1. "idle" \in Pcs /\ Go(g, "idle")
    BY <1>5 DEF FinishSync, MarkFailed, Pcs
  <2>2. /\ login' \in [Logins -> Login]
        /\ \A h \in Logins \ {g} : login'[h] = login[h]
    BY <2>1, GoType
  <2>3. st' \in Row /\ Named(st')
    <3>1. CASE FinishSync(g)
      BY <3>1, ClaimNamed DEF FinishSync, Statuses, Row, Named
    <3>2. CASE MarkFailed(g)
      BY <3>2 DEF MarkFailed, Row, Statuses, Named
    <3> QED
      BY <1>5, <3>1, <3>2
  <2>4. overtaken' \subseteq Syncing \ {g}
    BY <1>5 DEF FinishSync, MarkFailed
  <2>5. Syncing \ {g} \subseteq Syncing'
    BY <2>2 DEF Syncing
  <2> QED
    BY <1>5, <2>2, <2>3, <2>4, <2>5 DEF FinishSync, MarkFailed, TypeOK, Syncing, Named
<1>6. CASE SyncFault(g)
  <2>1. login' = [login EXCEPT ![g].pc = "fail"]
    BY <1>6 DEF SyncFault
  <2>2. login' \in [Logins -> Login] /\ login'[g].pc = "fail"
    BY <2>1 DEF Login
  <2>3. overtaken \subseteq Syncing'
    BY <2>1, <2>2, SyncingIs DEF Syncing, SyncPcs
  <2>4. calls' \in 0 .. CallLimit
    BY <1>6, LimitAssumption DEF SyncFault, TypeOK
  <2> QED
    BY <1>6, <2>2, <2>3, <2>4 DEF SyncFault, TypeOK, Syncing
<1> QED
  BY <1>1, <1>2, <1>3, <1>4, <1>5, <1>6

LEMMA RevokeType ==
  ASSUME NEW c \in Centres, NEW k \in Keys
  PROVE  Revoke(c, k) \in Keys /\ (Revoke(c, k) # NoKey => k # NoKey)
<1>1. CASE k.of = c
  <2>1. k \in [of : Centres, active : BOOLEAN]
    BY <1>1, NoneAssumption DEF Keys, NoKey
  <2>2. k # NoKey
    BY <1>1, NoneAssumption DEF NoKey
  <2>3. [k EXCEPT !.active = FALSE] \in [of : Centres, active : BOOLEAN]
    BY <2>1
  <2> QED
    BY <1>1, <2>2, <2>3 DEF Revoke, Keys
<1>2. CASE k.of # c
  BY <1>2 DEF Revoke
<1> QED
  BY <1>1, <1>2

\* A key is issued: one login takes it, the keys others hold may be revoked.
LEMMA IssueMoves ==
  ASSUME login \in [Logins -> Login], home \in [Logins -> Centres],
         NEW g \in Logins, IssueKey(g)
  PROVE  /\ login' \in [Logins -> Login]
         /\ login[g].pc = "issue" /\ login'[g].pc \in {"keep", "idle"}
         /\ \A h \in Logins \ {g} : login'[h].pc = login[h].pc /\ login'[h].next = login[h].next
         /\ \/ calls' = calls
            \/ calls < CallLimit /\ calls' = calls + 1
<1> DEFINE others == [h \in Logins |-> [login[h] EXCEPT !.key = Revoke(home[g], login[h].key)]]
           issued == [of |-> home[g], active |-> TRUE]
<1>1. /\ others \in [Logins -> Login]
      /\ \A h \in Logins : others[h].pc = login[h].pc /\ others[h].next = login[h].next
  BY RevokeType DEF Login
<1>2. \/ login' = [others EXCEPT ![g].pc = "keep", ![g].key = issued] /\ calls' = calls
      \/ calls < CallLimit /\ calls' = calls + 1 /\ login' = [others EXCEPT ![g] = NoLogin]
  BY DEF IssueKey
<1>3. issued \in Keys
  BY DEF Keys
<1>4. login[g].pc = "issue"
  BY DEF IssueKey
<1> HIDE DEF others, issued
<1>5. CASE login' = [others EXCEPT ![g].pc = "keep", ![g].key = issued]
  <2>1. others[g] \in Login
    BY <1>1
  <2>2. [others[g] EXCEPT !.pc = "keep", !.key = issued] \in Login
    BY <2>1, <1>3 DEF Login
  <2>3. [others[g] EXCEPT !.pc = "keep", !.key = issued].pc = "keep"
    BY <2>1 DEF Login
  <2>4. login' = [others EXCEPT ![g] = [others[g] EXCEPT !.pc = "keep", !.key = issued]]
    BY <1>1, <1>5
  <2> QED
    BY <1>1, <1>2, <1>4, <2>2, <2>3, <2>4
<1>6. CASE login' = [others EXCEPT ![g] = NoLogin]
  BY <1>1, <1>2, <1>4, <1>6, NoLoginType DEF NoLogin
<1> QED
  BY <1>2, <1>5, <1>6

\* Keys on an onboarded box, failed calls, time and restarts.
LEMMA OtherType ==
  ASSUME TypeOK,
         \/ \E g \in Logins : ReadKey(g) \/ IssueKey(g) \/ KeepKey(g) \/ LoginFault(g)
         \/ TimePasses \/ Slow \/ Restart
  PROVE  TypeOK'
<1> /\ st \in Row /\ Named(st) /\ login \in [Logins -> Login]
    /\ home \in [Logins -> Centres] /\ overtaken \subseteq Syncing
    /\ key \in [Centres -> Keys] /\ calls \in 0 .. CallLimit
  BY DEF TypeOK, Syncing, Named
<1> NoKey \in Keys
  BY DEF Keys
<1>1. ASSUME NEW g \in Logins, ReadKey(g) PROVE TypeOK'
  <2> DEFINE pc == IF login[g].centre # None /\ key[login[g].centre] = NoKey
                   THEN "issue" ELSE "idle"
  <2>1. pc \in Before /\ login[g].pc \in Before
    BY <1>1 DEF ReadKey, Before, Pcs, SyncPcs
  <2>2. Go(g, pc)
    BY <1>1 DEF ReadKey
  <2> HIDE DEF pc
  <2>3. Aside(g) /\ login' \in [Logins -> Login]
    BY <2>1, <2>2, GoAside
  <2> QED
    BY <1>1, <2>3, AsideType DEF ReadKey
<1>2. ASSUME NEW g \in Logins, IssueKey(g) PROVE TypeOK'
  <2>2. /\ key' \in [Centres -> Keys]
        /\ \A c \in Centres : key'[c] # NoKey => <<c, 1>> \in local
    <3>1. key' = [c \in Centres |-> Revoke(home[g], key[c])]
      BY <1>2 DEF IssueKey
    <3> QED
      BY <3>1, RevokeType DEF TypeOK
  <2>5. /\ login' \in [Logins -> Login] /\ \A h \in Logins \ {g} : login'[h].pc = login[h].pc
        /\ \/ calls' = calls
           \/ calls < CallLimit /\ calls' = calls + 1
    BY <1>2, IssueMoves
  <2>6. g \notin Syncing
    BY <1>2 DEF IssueKey, Syncing
  <2>7. overtaken \subseteq Syncing'
    BY <2>5, <2>6 DEF Syncing
  <2>8. calls' \in 0 .. CallLimit
    BY <2>5, LimitAssumption
  <2> QED
    BY <1>2, <2>2, <2>5, <2>7, <2>8 DEF IssueKey, TypeOK, Syncing, Named
<1>3. ASSUME NEW g \in Logins, KeepKey(g) PROVE TypeOK'
  <2>1. "idle" \in Before /\ login[g].pc \in Before /\ Go(g, "idle")
    BY <1>3 DEF KeepKey, Before, Pcs, SyncPcs
  <2>2. Aside(g) /\ login' \in [Logins -> Login]
    BY <2>1, GoAside
  <2>3. login[g].key \in Keys
    BY DEF Login
  <2>4. key' \in [Centres -> Keys] /\ \A c \in Centres : key'[c] # NoKey => <<c, 1>> \in local
    BY <1>3, <2>3 DEF KeepKey, TypeOK
  <2> QED
    BY <1>3, <2>2, <2>4, AsideSyncing DEF KeepKey, TypeOK, Syncing
<1>4. ASSUME NEW g \in Logins, LoginFault(g) PROVE TypeOK'
  <2>1. "idle" \in Before /\ login[g].pc \in Before /\ Go(g, "idle")
    BY <1>4 DEF LoginFault, Before, Pcs, SyncPcs
  <2>2. Aside(g) /\ login' \in [Logins -> Login]
    BY <2>1, GoAside
  <2>3. calls' \in 0 .. CallLimit
    BY <1>4, LimitAssumption DEF LoginFault
  <2> QED
    BY <1>4, <2>2, <2>3, AsideSyncing DEF LoginFault, TypeOK, Syncing
<1>5. CASE TimePasses
  <2>1. st' \in Row /\ Named(st')
    BY <1>5 DEF TimePasses, Row, Named
  <2> QED
    BY <1>5, <2>1 DEF TimePasses, TypeOK, Named
<1>6. CASE Slow
  <2>1. st' \in Row /\ Named(st')
    BY <1>6 DEF Slow, Row, Named
  <2>2. calls' \in 0 .. CallLimit
    BY <1>6, LimitAssumption DEF Slow
  <2> QED
    BY <1>6, <2>1, <2>2 DEF Slow, TypeOK, Named
<1>7. CASE Restart
  <2>1. st' \in Row /\ Named(st')
    BY <1>7 DEF Restart, Row, Named
  <2>3. calls' \in 0 .. CallLimit
    BY <1>7, LimitAssumption DEF Restart
  <2>2. login' \in [Logins -> Login]
    BY <1>7, NoLoginType DEF Restart
  <2> QED
    BY <1>7, <2>1, <2>2, <2>3 DEF Restart, TypeOK, Named
<1> QED
  BY <1>1, <1>2, <1>3, <1>4, <1>5, <1>6, <1>7

LEMMA NextType == TypeOK /\ [Next]_vars => TypeOK'
<1> SUFFICES ASSUME TypeOK, [Next]_vars PROVE TypeOK'
  OBVIOUS
<1>1. CASE UNCHANGED vars
  BY <1>1 DEF vars, TypeOK
<1>2. CASE Next
  BY <1>2, LoginType, SyncType, OtherType DEF Next, Step, CallCentral
<1> QED
  BY <1>1, <1>2

\* Types of the row, the logins and the tables hold whatever logins, faults and
\* restarts overlap (every handler of OnboardingService).
THEOREM OnboardingTypeCorrect == Spec => []TypeOK
<1>1. Init => TypeOK
  BY InitType
<1>2. TypeOK /\ [Next]_vars => TypeOK'
  BY NextType
<1> QED
  BY <1>1, <1>2, PTL DEF Spec

-----------------------------------------------------------------------------
(* One sync owns the row: of the logins that sync, the one whose row was   *)
(* not taken is alone, and the row says so.                                *)

Owners == Syncing \ overtaken

OwnerInv ==
  /\ \A g, h \in Owners : g = h
  /\ Owners # {} => st.status = "IN_PROGRESS"

\* Steps that bring no owner and let the row of one alone.
LEMMA OwnerKept ==
  ASSUME OwnerInv, Owners' \subseteq Owners,
         Owners' = {} \/ (st.status = "IN_PROGRESS" => st'.status = "IN_PROGRESS")
  PROVE  OwnerInv'
BY DEF OwnerInv

LEMMA OwnerStep == TypeOK /\ OwnerInv /\ [Next]_vars => OwnerInv'
<1> SUFFICES ASSUME TypeOK, OwnerInv, [Next]_vars PROVE OwnerInv'
  OBVIOUS
<1> /\ st \in Row /\ login \in [Logins -> Login] /\ overtaken \subseteq Syncing
    /\ home \in [Logins -> Centres]
  BY DEF TypeOK, Syncing
<1>1. ASSUME NEW g \in Logins,
             \/ \E confirm \in BOOLEAN : StartLogin(g, confirm)
             \/ Reread(g) \/ ExpireConfirmation(g) \/ ResetFailed(g)
             \/ RereadFailed(g) \/ ClaimConfirmation(g)
      PROVE  OwnerInv'
  <2>1. Syncing' = Syncing
    BY <1>1, LoginType, AsideSyncing
  <2>2. overtaken' = overtaken
    BY <1>1 DEF StartLogin, Reread, ExpireConfirmation, ResetFailed, RereadFailed, ClaimConfirmation
  <2>3. st.status = "IN_PROGRESS" => st' = st
    BY <1>1 DEF StartLogin, Reread, ExpireConfirmation, ResetFailed, RereadFailed,
                ClaimConfirmation, tryClaim
  <2> QED
    BY <2>1, <2>2, <2>3, OwnerKept DEF Owners
<1>2. ASSUME NEW g \in Logins, StopStale(g) PROVE OwnerInv'
  <2>1. Syncing' = Syncing
    BY <1>2, LoginType, AsideSyncing
  <2>2. CASE st.status = "IN_PROGRESS"
    BY <1>2, <2>1, <2>2, OwnerKept DEF StopStale, Owners
  <2>3. CASE st.status # "IN_PROGRESS"
    BY <1>2, <2>1, <2>3, OwnerKept DEF StopStale, Owners
  <2> QED
    BY <2>2, <2>3
<1>3. ASSUME NEW g \in Logins, ClaimSync(g) PROVE OwnerInv'
  <2>1. CASE st.status = "PENDING_CONFIRMATION"
    <3>1. Owners = {}
      BY <2>1 DEF OwnerInv
    <3>2. st'.status = "IN_PROGRESS"
      BY <1>3, <2>1 DEF ClaimSync, tryClaim
    <3>3. login' = [login EXCEPT ![g].pc = "pull", ![g].next = 1]
      BY <1>3, <2>1 DEF ClaimSync
    <3>4. Syncing' \subseteq Syncing \union {g} /\ overtaken' = overtaken
      BY <1>3, <3>3 DEF ClaimSync, Syncing
    <3>5. Owners' \subseteq {g}
      BY <3>1, <3>4 DEF Owners
    <3> QED
      BY <3>2, <3>5 DEF OwnerInv
  <2>2. CASE st.status # "PENDING_CONFIRMATION"
    <3>1. "idle" \in Before /\ login[g].pc \in Before /\ Go(g, "idle")
      BY <1>3, <2>2 DEF ClaimSync, Before, Pcs, SyncPcs
    <3>2. Syncing' = Syncing
      BY <3>1, GoAside, AsideSyncing
    <3>3. st' = st /\ overtaken' = overtaken
      BY <1>3, <2>2 DEF ClaimSync, tryClaim
    <3> QED
      BY <3>2, <3>3, OwnerKept DEF Owners
  <2> QED
    BY <2>1, <2>2
<1>4. ASSUME NEW g \in Logins, PullChunk(g) \/ CompletePull(g) \/ StoreKey(g) \/ SyncFault(g)
      PROVE  OwnerInv'
  <2>1. g \in Syncing /\ st' = st /\ overtaken' = overtaken
    BY <1>4 DEF PullChunk, CompletePull, StoreKey, SyncFault, Syncing
  <2>2. \A h \in Logins \ {g} : login'[h].pc = login[h].pc
    BY <1>4 DEF PullChunk, CompletePull, StoreKey, SyncFault
  <2>3. Syncing' \subseteq Syncing
    BY <2>1, <2>2 DEF Syncing
  <2> QED
    BY <2>1, <2>3, OwnerKept DEF Owners
<1>5. ASSUME NEW g \in Logins, FinishSync(g) \/ MarkFailed(g) PROVE OwnerInv'
  <2>1. "idle" \in Pcs /\ Go(g, "idle")
    BY <1>5 DEF FinishSync, MarkFailed, Pcs
  <2>2. Syncing' \subseteq Syncing \ {g}
    BY <2>1, GoType DEF Syncing
  <2>3. g \in Syncing
    BY <1>5 DEF FinishSync, MarkFailed, Syncing
  <2>4. Owners' = {}
    <3>1. CASE g \in overtaken
      <4>1. overtaken' = Syncing \ {g}
        BY <1>5, <3>1 DEF FinishSync, MarkFailed
      <4> QED
        BY <4>1, <2>2 DEF Owners
    <3>2. CASE g \notin overtaken
      <4>1. Owners \subseteq {g}
        BY <2>3, <3>2 DEF OwnerInv, Owners
      <4>2. overtaken' = overtaken \ {g}
        BY <1>5, <3>2 DEF FinishSync, MarkFailed
      <4> QED
        BY <2>2, <3>2, <4>1, <4>2 DEF Owners
    <3> QED
      BY <3>1, <3>2
  <2> QED
    BY <2>4 DEF OwnerInv
<1>6. ASSUME NEW g \in Logins, ReadKey(g) \/ IssueKey(g) \/ KeepKey(g) \/ LoginFault(g)
      PROVE  OwnerInv'
  <2>1. st' = st /\ overtaken' = overtaken
    BY <1>6 DEF ReadKey, IssueKey, KeepKey, LoginFault
  <2>2. Syncing' \subseteq Syncing
    <3>1. CASE IssueKey(g)
      BY <3>1, IssueMoves DEF Syncing
    <3>2. CASE ReadKey(g) \/ KeepKey(g) \/ LoginFault(g)
      <4>1. PICK pc \in {"idle", "issue"} : Go(g, pc)
        BY <3>2 DEF ReadKey, KeepKey, LoginFault
      <4>2. pc \in Before /\ login[g].pc \in Before
        BY <3>2 DEF ReadKey, KeepKey, LoginFault, Before, Pcs, SyncPcs
      <4> QED
        BY <4>1, <4>2, GoAside, AsideSyncing
    <3> QED
      BY <1>6, <3>1, <3>2
  <2> QED
    BY <2>1, <2>2, OwnerKept DEF Owners
<1>7. CASE TimePasses \/ Slow
  <2>1. Owners' = Owners /\ st'.status = st.status
    BY <1>7 DEF TimePasses, Slow, Owners, Syncing, Row
  <2> QED
    BY <2>1, OwnerKept
<1>8. CASE Restart
  <2>1. Owners' = {}
    BY <1>8 DEF Restart, Owners, Syncing, NoLogin
  <2> QED
    BY <2>1 DEF OwnerInv
<1>9. CASE UNCHANGED vars
  BY <1>9 DEF vars, OwnerInv, Owners, Syncing
<1> QED
  BY <1>1, <1>2, <1>3, <1>4, <1>5, <1>6, <1>7, <1>8, <1>9 DEF Next, Step, CallCentral

LEMMA OneOwner == TypeOK /\ OwnerInv => SyncsExclude
<1> SUFFICES ASSUME TypeOK, OwnerInv PROVE SyncsExclude
  OBVIOUS
<1>1. CASE Owners = {}
  BY <1>1, FS_EmptySet DEF SyncsExclude, Owners
<1>2. ASSUME NEW g \in Owners PROVE SyncsExclude
  <2>1. Owners = {g}
    BY DEF OwnerInv
  <2>2. Cardinality({g}) = 1
    BY FS_Singleton
  <2> QED
    BY <2>1, <2>2 DEF SyncsExclude, Owners
<1> QED
  BY <1>1, <1>2

-----------------------------------------------------------------------------
(* What a sync has pulled: its chunks up to the next, all of them from the *)
(* end of the pull on. Tables only grow, so it stays true when the row is  *)
(* taken away and the sync goes on.                                        *)

PulledInv ==
  /\ \A g \in Logins :
       /\ login[g].pc = "pull" =>
            /\ login[g].next # 0
            /\ \A n \in Chunks : n < login[g].next => <<home[g], n>> \in local
       /\ login[g].pc \in {"store", "finish"} => {home[g]} \X Chunks \subseteq local
  /\ CompletedIsWhole

LEMMA PulledStep == TypeOK /\ PulledInv /\ [Next]_vars => PulledInv'
<1> SUFFICES ASSUME TypeOK, PulledInv, [Next]_vars PROVE PulledInv'
  OBVIOUS
<1> /\ st \in Row /\ login \in [Logins -> Login] /\ home \in [Logins -> Centres]
  BY DEF TypeOK
<1>1. ASSUME NEW g \in Logins,
             \/ \E confirm \in BOOLEAN : StartLogin(g, confirm)
             \/ Reread(g) \/ ExpireConfirmation(g) \/ StopStale(g) \/ ResetFailed(g)
             \/ RereadFailed(g) \/ ClaimConfirmation(g)
      PROVE  PulledInv'
  <2>1. Aside(g) /\ UNCHANGED <<home, local>>
    BY <1>1, LoginType DEF StartLogin, Reread, ExpireConfirmation, StopStale, ResetFailed,
                           RereadFailed, ClaimConfirmation
  <2>2. st'.status = "COMPLETED" => st' = st
    <3>1. CASE Reread(g) \/ RereadFailed(g) \/ \E confirm \in BOOLEAN : StartLogin(g, confirm)
      BY <3>1 DEF StartLogin, Reread, RereadFailed
    <3>2. CASE ExpireConfirmation(g) \/ StopStale(g) \/ ResetFailed(g) \/ ClaimConfirmation(g)
      BY <3>2 DEF ExpireConfirmation, StopStale, ResetFailed, ClaimConfirmation, tryClaim
    <3> QED
      BY <1>1, <3>1, <3>2
  <2> QED
    BY <2>1, <2>2 DEF Aside, PulledInv, CompletedIsWhole, SyncPcs
<1>2. ASSUME NEW g \in Logins, ClaimSync(g) PROVE PulledInv'
  <2>1. st'.status = "COMPLETED" => st' = st
    BY <1>2 DEF ClaimSync, tryClaim
  <2>2. login' = [login EXCEPT ![g].pc = "pull", ![g].next = 1] \/ Go(g, "idle")
    BY <1>2 DEF ClaimSync
  <2>3. UNCHANGED <<home, local>>
    BY <1>2 DEF ClaimSync
  <2>4. CASE login' = [login EXCEPT ![g].pc = "pull", ![g].next = 1]
    <3>1. login'[g].pc = "pull" /\ login'[g].next = 1
      BY <2>4 DEF Login
    <3>2. \A h \in Logins \ {g} : login'[h] = login[h]
      BY <2>4
    <3>3. \A n \in Chunks : ~ n < 1
      BY ChunksAre
    <3> QED
      BY <2>1, <2>3, <3>1, <3>2, <3>3 DEF PulledInv, CompletedIsWhole
  <2>5. CASE Go(g, "idle")
    <3>1. login'[g].pc = "idle" /\ \A h \in Logins \ {g} : login'[h] = login[h]
      BY <2>5, GoType DEF Pcs
    <3> QED
      BY <2>1, <2>3, <3>1 DEF PulledInv, CompletedIsWhole
  <2> QED
    BY <2>2, <2>4, <2>5
<1>3. ASSUME NEW g \in Logins, PullChunk(g) PROVE PulledInv'
  <2>1. /\ login[g].pc = "pull" /\ login[g].next \in Chunks
        /\ local' = local \union {<<home[g], login[g].next>>}
        /\ login' = [login EXCEPT ![g].next = login[g].next + 1]
        /\ st' = st /\ home' = home
    BY <1>3 DEF PullChunk, Pulled, Confirmed
  <2>2. login'[g].pc = "pull" /\ login'[g].next = login[g].next + 1
    BY <2>1 DEF Login
  <2>3. \A h \in Logins \ {g} : login'[h] = login[h]
    BY <2>1
  <2>4. \A n \in Chunks : n < login[g].next + 1 => n < login[g].next \/ n = login[g].next
    BY <2>1, ChunksAre
  <2>5. \A n \in Chunks : n < login'[g].next => <<home'[g], n>> \in local'
    BY <2>1, <2>2, <2>4 DEF PulledInv
  <2>6. local \subseteq local'
    BY <2>1
  <2>7. CompletedIsWhole'
    BY <2>1, <2>6 DEF PulledInv, CompletedIsWhole
  <2>8. login'[g].next # 0
    BY <2>1, <2>2, ChunksAre
  <2>9. ASSUME NEW h \in Logins \ {g} PROVE
            /\ login'[h].pc = "pull" =>
                 /\ login'[h].next # 0
                 /\ \A n \in Chunks : n < login'[h].next => <<home'[h], n>> \in local'
            /\ login'[h].pc \in {"store", "finish"} => {home'[h]} \X Chunks \subseteq local'
    BY <2>1, <2>3, <2>6 DEF PulledInv
  <2> QED
    BY <2>2, <2>5, <2>7, <2>8, <2>9 DEF PulledInv
<1>4. ASSUME NEW g \in Logins, CompletePull(g) PROVE PulledInv'
  <2>1. /\ login[g].pc = "pull" /\ login[g].next \notin Chunks
        /\ UNCHANGED <<st, local, home>>
        /\ login' = [login EXCEPT ![g].pc = "store", ![g].key = [of |-> home[g], active |-> TRUE]]
    BY <1>4 DEF CompletePull
  <2>2. \A h \in Logins \ {g} : login'[h] = login[h]
    BY <2>1
  <2>3. login'[g].pc = "store"
    BY <2>1 DEF Login
  <2>4. {home[g]} \X Chunks \subseteq local
    <3>1. login[g] \in Login
      OBVIOUS
    <3>2. login[g].next \in 0 .. 3 + 1
      BY <3>1, ChunksAre DEF Login
    <3>3. login[g].next # 0 /\ login[g].next \notin 1 .. 3
      BY <2>1, ChunksAre DEF PulledInv
    <3>4. \A n \in 1 .. 3 : n < login[g].next
      BY <3>2, <3>3
    <3>5. \A n \in Chunks : <<home[g], n>> \in local
      BY <2>1, <3>4, ChunksAre DEF PulledInv
    <3> QED
      BY <3>5
  <2> QED
    BY <2>1, <2>2, <2>3, <2>4 DEF PulledInv, CompletedIsWhole
<1>5. ASSUME NEW g \in Logins, StoreKey(g) \/ SyncFault(g) PROVE PulledInv'
  <2>1. UNCHANGED <<st, local, home>>
    BY <1>5 DEF StoreKey, SyncFault
  <2>2. \A h \in Logins \ {g} : login'[h] = login[h]
    BY <1>5 DEF StoreKey, SyncFault
  <2>3. \/ login[g].pc = "store" /\ login'[g].pc = "finish"
        \/ login'[g].pc = "fail"
    BY <1>5 DEF StoreKey, SyncFault, Login
  <2> QED
    BY <2>1, <2>2, <2>3 DEF PulledInv, CompletedIsWhole
<1>6. ASSUME NEW g \in Logins, FinishSync(g) \/ MarkFailed(g) PROVE PulledInv'
  <2>1. UNCHANGED <<local, home>>
    BY <1>6 DEF FinishSync, MarkFailed
  <2>2. login'[g].pc = "idle" /\ \A h \in Logins \ {g} : login'[h] = login[h]
    BY <1>6, GoType DEF FinishSync, MarkFailed, Pcs
  <2>3. CompletedIsWhole'
    <3>1. CASE FinishSync(g)
      BY <3>1, <2>1 DEF FinishSync, PulledInv, CompletedIsWhole
    <3>2. CASE MarkFailed(g)
      BY <3>2 DEF MarkFailed, Row, CompletedIsWhole
    <3> QED
      BY <1>6, <3>1, <3>2
  <2> QED
    BY <2>1, <2>2, <2>3 DEF PulledInv
<1>7. ASSUME NEW g \in Logins, IssueKey(g) PROVE PulledInv'
  <2>1. UNCHANGED <<st, local, home>>
    BY <1>7 DEF IssueKey
  <2> QED
    BY <1>7, <2>1, IssueMoves DEF PulledInv, CompletedIsWhole
<1>8. ASSUME NEW g \in Logins, ReadKey(g) \/ KeepKey(g) \/ LoginFault(g) PROVE PulledInv'
  <2>1. UNCHANGED <<st, local, home>>
    BY <1>8 DEF ReadKey, KeepKey, LoginFault
  <2>2. PICK pc \in {"idle", "issue"} : Go(g, pc)
    BY <1>8 DEF ReadKey, KeepKey, LoginFault
  <2>3. login'[g].pc = pc /\ \A h \in Logins \ {g} : login'[h] = login[h]
    BY <2>2, GoType DEF Pcs
  <2> QED
    BY <2>1, <2>3 DEF PulledInv, CompletedIsWhole
<1>9. CASE TimePasses \/ Slow
  <2>1. UNCHANGED <<local, home, login>> /\ st'.status = st.status
    BY <1>9 DEF TimePasses, Slow, Row
  <2> QED
    BY <2>1 DEF PulledInv, CompletedIsWhole
<1>10. CASE Restart
  <2>1. UNCHANGED <<local, home>> /\ st'.status = st.status
    BY <1>10 DEF Restart, Row
  <2>2. \A h \in Logins : login'[h].pc = "idle"
    BY <1>10 DEF Restart, NoLogin
  <2> QED
    BY <2>1, <2>2 DEF PulledInv, CompletedIsWhole
<1>11. CASE UNCHANGED vars
  BY <1>11 DEF vars, PulledInv, CompletedIsWhole
<1> QED
  BY <1>1, <1>2, <1>3, <1>4, <1>5, <1>6, <1>7, <1>8, <1>9, <1>10, <1>11
  DEF Next, Step, CallCentral

-----------------------------------------------------------------------------
(* Theorems.                                                               *)

IInv == TypeOK /\ OwnerInv /\ PulledInv

LEMMA InitInv == Init => IInv
<1> SUFFICES ASSUME Init PROVE IInv
  OBVIOUS
<1>1. Syncing = {}
  BY DEF Init, NoLogin, Syncing
<1>2. OwnerInv
  BY <1>1 DEF OwnerInv, Owners
<1>3. PulledInv
  BY DEF Init, NoLogin, PulledInv, CompletedIsWhole
<1> QED
  BY <1>2, <1>3, InitType DEF IInv

LEMMA NextInv == IInv /\ [Next]_vars => IInv'
BY NextType, OwnerStep, PulledStep DEF IInv

LEMMA IInvHolds == Spec => []IInv
<1>1. Init => IInv
  BY InitInv
<1>2. IInv /\ [Next]_vars => IInv'
  BY NextInv
<1> QED
  BY <1>1, <1>2, PTL DEF Spec

\* "concurrent logins can never double-sync", and COMPLETED means a whole
\* centre, for any number of logins, faults and restarts (confirmAndSync,
\* syncCentreScopedData, tryClaim).
THEOREM OnboardingInvHolds == Spec => []OnboardingInv
<1>1. IInv => OnboardingInv
  BY OneOwner DEF IInv, OnboardingInv, PulledInv
<1> QED
  BY <1>1, IInvHolds, PTL

\* COMPLETED is left only through markFailed of a sync that lost the row.
THEOREM CompletedStaysHolds == Spec => CompletedStays
<1>1. IInv /\ [Next]_vars =>
        [st.status = "COMPLETED" => st'.status = "COMPLETED" \/ overtaken # {}]_vars
  <2> SUFFICES ASSUME IInv, [Next]_vars, st.status = "COMPLETED", overtaken = {}
               PROVE  st'.status = "COMPLETED"
    OBVIOUS
  <2>1. \A g \in Logins : login[g].pc \notin SyncPcs
    BY DEF IInv, OwnerInv, Owners, Syncing, SyncPcs
  <2>2. ASSUME NEW g \in Logins,
               \/ \E confirm \in BOOLEAN : StartLogin(g, confirm)
               \/ Step(g) \/ SyncFault(g) \/ LoginFault(g)
        PROVE  st' = st
    <3>1. CASE ExpireConfirmation(g) \/ StopStale(g) \/ ResetFailed(g)
               \/ ClaimConfirmation(g) \/ ClaimSync(g)
      BY <3>1 DEF ExpireConfirmation, StopStale, ResetFailed, ClaimConfirmation,
                  ClaimSync, tryClaim
    <3>2. CASE \/ \E confirm \in BOOLEAN : StartLogin(g, confirm)
               \/ Reread(g) \/ RereadFailed(g) \/ PullChunk(g) \/ CompletePull(g)
               \/ StoreKey(g) \/ ReadKey(g) \/ IssueKey(g) \/ KeepKey(g)
               \/ SyncFault(g) \/ LoginFault(g)
      BY <3>2 DEF StartLogin, Reread, RereadFailed, PullChunk, CompletePull, StoreKey,
                  ReadKey, IssueKey, KeepKey, SyncFault, LoginFault
    <3>3. ~ FinishSync(g) /\ ~ MarkFailed(g)
      BY <2>1 DEF FinishSync, MarkFailed, SyncPcs
    <3> QED
      BY <2>2, <3>1, <3>2, <3>3 DEF Step, CallCentral
  <2>3. CASE TimePasses \/ Slow
    BY <2>3 DEF TimePasses, Slow
  <2>4. CASE Restart
    BY <2>4 DEF Restart
  <2>5. CASE UNCHANGED vars
    BY <2>5 DEF vars
  <2> QED
    BY <2>2, <2>3, <2>4, <2>5 DEF Next
<1> QED
  BY <1>1, IInvHolds, PTL DEF Spec, CompletedStays

=============================================================================
