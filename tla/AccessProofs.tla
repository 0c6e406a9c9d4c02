----------------------------- MODULE AccessProofs -----------------------------
(***************************************************************************)
(* Proofs about AccessMatrix, for every matrix and every set of keys, and  *)
(* about Access, for any users, roles, profiles and sessions, any number   *)
(* of tabs and of administrators at work; and about AuditTrail, for any    *)
(* rows and requests.                                                      *)
(***************************************************************************)
EXTENDS Access, AuditTrail, TLAPS

-----------------------------------------------------------------------------
(* The access matrix: what its conversions keep.                           *)

\* The view of a place is on whenever one of its other keys is given.
Viewable(keys) ==
  \A g \in Own(keys) : Parent(g[1]) \in Parents =>
     <<Parent(g[1]), "view">> \in matrixFromFlatPermissions(keys)

LEMMA MatrixOfFlags ==
  ASSUME NEW keys PROVE matrixFromFlatPermissions(keys) \subseteq Flags
<1>1. Own(keys) \subseteq Flags
  BY DEF Own
<1>2. \A g \in Own(keys) : g[1] \in Submodules => <<Parent(g[1]), g[2]>> \in Flags
  <2>1. TAKE g \in Own(keys)
  <2>2. PICK p \in Place, f \in FLAGS : g = <<p, f>>
    BY <1>1 DEF Flags
  <2>3. SUFFICES ASSUME p \in Submodules PROVE <<Parent(p), f>> \in Flags
    BY <2>2
  <2>4. PICK m \in SUBMODULE_MODULES : p \in {m} \X SUBMODULES[m]
    BY <2>3 DEF Submodules
  <2>5. p[1] = m
    BY <2>4
  <2>6. Parent(p) \in Place
    BY <2>5 DEF Parent, Parents, Place
  <2>. QED
    BY <2>6 DEF Flags
<1>. QED
  BY <1>1, <1>2 DEF matrixFromFlatPermissions

\* A normalised matrix reads as the stored one, and normalising it again changes
\* nothing: what the older versions of a profile lack is off.
THEOREM NormalizeIdempotent ==
  ASSUME NEW stored
  PROVE  /\ normalizeRoleAccessMatrix(normalizeRoleAccessMatrix(stored)) = normalizeRoleAccessMatrix(stored)
         /\ resolveFlatPermissionsFromMatrix(normalizeRoleAccessMatrix(stored))
              = resolveFlatPermissionsFromMatrix(stored)
<1>1. normalizeRoleAccessMatrix(normalizeRoleAccessMatrix(stored)) = normalizeRoleAccessMatrix(stored)
  BY DEF normalizeRoleAccessMatrix
<1>. QED
  BY <1>1 DEF resolveFlatPermissionsFromMatrix

\* Switching a flag on never takes a permission away: the guards and the parent's
\* view only add up.
THEOREM GrantsGrow ==
  ASSUME NEW m, NEW n, m \subseteq n
  PROVE  resolveFlatPermissionsFromMatrix(m) \subseteq resolveFlatPermissionsFromMatrix(n)
<1>1. normalizeRoleAccessMatrix(m) \subseteq normalizeRoleAccessMatrix(n)
  BY DEF normalizeRoleAccessMatrix
<1>2. Granted(normalizeRoleAccessMatrix(m)) \subseteq Granted(normalizeRoleAccessMatrix(n))
  BY <1>1 DEF Granted
<1>. QED
  BY <1>2 DEF resolveFlatPermissionsFromMatrix

\* A module of submodules whose view is off gives nothing, whatever its other
\* flags and its submodules say: every key a profile gives comes from a place that
\* may be seen.
THEOREM ViewGates ==
  ASSUME NEW stored, NEW key \in resolveFlatPermissionsFromMatrix(stored)
  PROVE  \E g \in stored \intersect Flags :
           /\ key \in KeysAt(g[1])[g[2]]
           /\ Parent(g[1]) \in Parents => <<Parent(g[1]), "view">> \in stored
<1>1. PICK g \in Granted(normalizeRoleAccessMatrix(stored)) : key \in KeysAt(g[1])[g[2]]
  BY DEF resolveFlatPermissionsFromMatrix
<1>. QED
  BY <1>1 DEF Granted, normalizeRoleAccessMatrix

\* A profile made of a set of keys gives each of them back, provided some view of
\* its module is among what the keys switch on: bootstrapAdmin() makes the first
\* role so.
THEOREM RoundTripKeeps ==
  ASSUME NEW keys \in SUBSET ALL_KEYS, Viewable(keys)
  PROVE  keys \subseteq resolveFlatPermissionsFromMatrix(matrixFromFlatPermissions(keys))
<1>. DEFINE matrix == matrixFromFlatPermissions(keys)
<1>1. normalizeRoleAccessMatrix(matrix) = matrix
  BY MatrixOfFlags DEF normalizeRoleAccessMatrix
<1>2. SUFFICES ASSUME NEW key \in keys
               PROVE  key \in UNION {KeysAt(g[1])[g[2]] : g \in Granted(matrix)}
  BY <1>1 DEF resolveFlatPermissionsFromMatrix
<1>3. PICK g \in Flags : key \in KeysAt(g[1])[g[2]]
  BY <1>2 DEF ALL_KEYS
<1>4. g \in Own(keys)
  BY <1>2, <1>3 DEF Own
<1>5. g \in matrix
  BY <1>4 DEF matrixFromFlatPermissions
<1>6. g \in Granted(matrix)
  BY <1>4, <1>5 DEF Granted, Viewable
<1>. QED
  BY <1>3, <1>6

-----------------------------------------------------------------------------
(* Types.  A request carries a row it is going to write, and an answer a    *)
(* user: the type invariant needs to know which of them are there.         *)

\* What a request at each step still has with it.
TabLocal(q) ==
  /\ q.pc # "idle" => q.user \in Users
  /\ q.pc \in {"user", "answer", "leave"} => q.session # 0
  /\ q.session = 0 <=> q.token = 0

\* What an edit at each step still has to write.
EditLocal(w) ==
  /\ w.pc \in {"lines", "user"} => w.user \in Users
  /\ w.pc = "lines" => w.lines # {None} /\ ~ w.insert
  /\ w.pc = "user" => w.urow # None
  /\ w.pc \in {"profile", "drop"} => w.profile \in Profiles
  /\ w.pc = "profile" => w.prow # None
  /\ w.pc = "role" => w.rrow # None
  /\ w.rrow # None => w.role \in Roles

HoldLocal == hold = NoHold \/ (hold.user \in Users /\ hold.session # 0 /\ hold.token # 0)

Local ==
  /\ TypeOK /\ HoldLocal
  /\ \A t \in Tabs : TabLocal(tab[t])
  /\ \A e \in Edits : EditLocal(edit[e])

LEMMA NoneIsNone ==
  /\ None \notin Users /\ None \notin Roles /\ None \notin Profiles /\ None \notin Centres
  /\ None \notin Lines /\ None \notin User /\ None \notin Role /\ None \notin Profile
  BY AccessAssumption, NoneIsNoRow

LEMMA BlanksTyped ==
  /\ NoSession \in Session /\ NoHold \in Held /\ NoTab \in Tab /\ NoEdit \in Edit
  /\ TabLocal(NoTab) /\ EditLocal(NoEdit)
<1>1. NoSession \in Session
  BY DEF NoSession, Session
<1>2. NoHold \in Held
  BY DEF NoHold, Held
<1>3. NoTab \in Tab
  BY DEF NoTab, Tab
<1>4. NoEdit \in Edit
  BY DEF NoEdit, Edit
<1>5. TabLocal(NoTab) /\ EditLocal(NoEdit)
  BY DEF TabLocal, EditLocal, NoTab, NoEdit
<1> QED
  BY <1>1, <1>2, <1>3, <1>4, <1>5

LEMMA AccessOfTyped ==
  ASSUME TypeOK, NEW u \in Users PROVE AccessOf(u) \in {"full", "narrow", "none"}
<1>1. users[u] \in User
  BY DEF TypeOK
<1>2. users[u].role \in Roles
  BY <1>1 DEF User
<1>3. roles[users[u].role] \in Role
  BY <1>2 DEF TypeOK
<1>4. ProfileOf(u) \in Profiles
  BY <1>3 DEF Role, ProfileOf
<1>5. profiles[ProfileOf(u)] \in Profile
  BY <1>4 DEF TypeOK
<1>6. profiles[ProfileOf(u)].access \in {"full", "narrow"}
  BY <1>5 DEF Profile
<1> QED
  BY <1>6 DEF AccessOf

LEMMA LocalInit == Init => Local
<1> SUFFICES ASSUME Init PROVE Local
  OBVIOUS
<1>1. TypeOK
  <2>1. users \in [Users -> User] /\ roles \in [Roles -> Role] /\ profiles \in [Profiles -> Profile]
    BY InitialAssumption DEF Init
  <2>2. sessions \in [Tokens -> Session] /\ hold \in Held /\ tab \in [Tabs -> Tab]
        /\ edit \in [Edits -> Edit]
    BY BlanksTyped DEF Init
  <2>3. issued \in 0 .. MaxTokens /\ bound \in Bound /\ past \in Past
    BY AccessAssumption DEF Init, Bound, Past
  <2> QED
    BY <2>1, <2>2, <2>3 DEF TypeOK
<1>2. \A t \in Tabs : TabLocal(tab[t])
  BY BlanksTyped DEF Init
<1>3. \A e \in Edits : EditLocal(edit[e])
  BY BlanksTyped DEF Init
<1> QED
  BY <1>1, <1>2, <1>3 DEF Local, HoldLocal, Init

\* One request moves, the others are where they were.
LEMMA TabMoves ==
  ASSUME Local, NEW t \in Tabs, NEW q \in Tab, TabLocal(q), tab' = [tab EXCEPT ![t] = q]
  PROVE  tab' \in [Tabs -> Tab] /\ \A x \in Tabs : TabLocal(tab'[x])
<1>1. tab \in [Tabs -> Tab] /\ \A x \in Tabs : TabLocal(tab[x])
  BY DEF Local, TypeOK
<1>2. \A x \in Tabs : tab'[x] = IF x = t THEN q ELSE tab[x]
  BY <1>1
<1>3. ASSUME NEW x \in Tabs PROVE TabLocal(tab'[x])
  <2>1. CASE x = t
    <3>1. tab'[x] = q
      BY <1>2, <2>1
    <3> QED
      BY <3>1 DEF TabLocal
  <2>2. CASE x # t
    <3>1. tab'[x] = tab[x]
      BY <1>2, <2>2
    <3> QED
      BY <3>1, <1>1 DEF TabLocal
  <2> QED
    BY <2>1, <2>2
<1> QED
  BY <1>1, <1>3

LEMMA EditMoves ==
  ASSUME Local, NEW e \in Edits, NEW w \in Edit, EditLocal(w), edit' = [edit EXCEPT ![e] = w]
  PROVE  edit' \in [Edits -> Edit] /\ \A x \in Edits : EditLocal(edit'[x])
<1>1. edit \in [Edits -> Edit] /\ \A x \in Edits : EditLocal(edit[x])
  BY DEF Local, TypeOK
<1>2. \A x \in Edits : edit'[x] = IF x = e THEN w ELSE edit[x]
  BY <1>1
<1>3. ASSUME NEW x \in Edits PROVE EditLocal(edit'[x])
  <2>1. CASE x = e
    <3>1. edit'[x] = w
      BY <1>2, <2>1
    <3> QED
      BY <3>1 DEF EditLocal
  <2>2. CASE x # e
    <3>1. edit'[x] = edit[x]
      BY <1>2, <2>2
    <3> QED
      BY <3>1, <1>1 DEF EditLocal
  <2> QED
    BY <2>1, <2>2
<1> QED
  BY <1>1, <1>3

LEMMA CallCounted ==
  ASSUME Local, NEW t \in Tabs, TabStart(t), CountCall PROVE bound' \in Bound
<1>1. bound \in Bound
  BY DEF Local, TypeOK
<1>2. bound.calls \in Nat /\ bound.edits \in Nat /\ bound.calls + bound.edits < CallLimit
  BY <1>1, AccessAssumption DEF Bound, TabStart
<1>3. bound.calls + 1 \in 0 .. CallLimit
  BY <1>2, AccessAssumption
<1> QED
  BY <1>1, <1>3 DEF Bound, CountCall

LEMMA FaultCounted ==
  ASSUME Local, bound.faults < FaultLimit, bound' = [bound EXCEPT !.faults = @ + 1]
  PROVE  bound' \in Bound
<1>1. bound \in Bound
  BY DEF Local, TypeOK
<1>2. bound.faults \in 0 .. FaultLimit
  BY <1>1 DEF Bound
<1>3. bound.faults + 1 \in 0 .. FaultLimit
  BY <1>2, AccessAssumption
<1> QED
  BY <1>1, <1>3 DEF Bound

-----------------------------------------------------------------------------
(* The browser's requests.                                                 *)

\* What no request of a browser touches.
LEMMA RowsStay ==
  ASSUME Local, UNCHANGED <<rows, edit>>
  PROVE  /\ users' \in [Users -> User] /\ roles' \in [Roles -> Role]
         /\ profiles' \in [Profiles -> Profile]
         /\ edit' \in [Edits -> Edit] /\ \A e \in Edits : EditLocal(edit'[e])
  BY DEF Local, TypeOK, rows

LEMMA HeldTyped ==
  ASSUME Local
  PROVE  /\ hold \in Held
         /\ hold # NoHold => /\ hold.user \in Users
                             /\ hold.session \in Tokens /\ hold.session # 0
                             /\ hold.token \in Tokens /\ hold.token # 0
  BY DEF Local, TypeOK, HoldLocal, Held, Tokens

LEMMA TabTyped ==
  ASSUME Local, NEW t \in Tabs
  PROVE  /\ tab[t] \in Tab /\ TabLocal(tab[t])
         /\ tab[t].pc # "idle" => tab[t].user \in Users
         /\ tab[t].pc \in {"user", "answer", "leave"} => tab[t].session \in Tokens /\ tab[t].token \in Tokens
         /\ tab[t].session \in Tokens \union {0} /\ tab[t].token \in Tokens \union {0}
         /\ tab[t].session # 0 => tab[t].session \in Tokens /\ tab[t].token \in Tokens
<1>1. tab[t] \in Tab /\ TabLocal(tab[t])
  BY DEF Local, TypeOK
<1>2. tab[t].session \in Tokens \union {0} /\ tab[t].token \in Tokens \union {0}
  BY <1>1 DEF Tab
<1> QED
  BY <1>1, <1>2 DEF TabLocal

LEMMA LocalLogin == ASSUME Local, NEW t \in Tabs, Login(t) PROVE Local'
<1>1. PICK u \in Users :
        tab' = [tab EXCEPT ![t] = [NoTab EXCEPT !.pc = "issue", !.user = u, !.access = AccessOf(u)]]
  BY DEF Login
<1> DEFINE q == [NoTab EXCEPT !.pc = "issue", !.user = u, !.access = AccessOf(u)]
<1>2. q \in Tab
  BY AccessOfTyped DEF NoTab, Tab, Local
<1>3. TabLocal(q)
  BY DEF NoTab, TabLocal
<1>4. tab' = [tab EXCEPT ![t] = q]
  BY <1>1
<1> HIDE DEF q
<1>5. tab' \in [Tabs -> Tab] /\ \A x \in Tabs : TabLocal(tab'[x])
  BY <1>2, <1>3, <1>4, TabMoves
<1>6. bound' \in Bound
  BY CallCounted DEF Login
<1>7. UNCHANGED <<rows, sessions, issued, hold, edit, past>>
  BY DEF Login
<1> QED
  BY <1>5, <1>6, <1>7, RowsStay DEF Local, TypeOK, HoldLocal

LEMMA LocalRefresh == ASSUME Local, NEW t \in Tabs, Refresh(t) PROVE Local'
<1>1. bound' \in Bound
  BY CallCounted DEF Refresh
<1>2. UNCHANGED <<rows, sessions, issued, edit, past>> /\ hold # NoHold
  BY DEF Refresh
<1>3. tab' \in [Tabs -> Tab] /\ (\A x \in Tabs : TabLocal(tab'[x])) /\ hold' \in {hold, NoHold}
  <2>1. CASE tab' = tab /\ hold' = NoHold
    BY <2>1 DEF Local, TypeOK
  <2>2. ASSUME NEW s \in Tokens, hold' = hold,
               tab' = [tab EXCEPT ![t] = [NoTab EXCEPT !.pc = "user", !.user = hold.user,
                                                       !.session = s, !.token = hold.token]]
        PROVE  tab' \in [Tabs -> Tab] /\ \A x \in Tabs : TabLocal(tab'[x])
    <3> DEFINE q == [NoTab EXCEPT !.pc = "user", !.user = hold.user, !.session = s,
                                  !.token = hold.token]
    <3>1. s # 0
      BY DEF Tokens
    <3>2. q \in Tab
      BY <1>2, HeldTyped DEF NoTab, Tab
    <3>3. TabLocal(q)
      BY <1>2, <3>1, HeldTyped DEF NoTab, TabLocal
    <3>4. tab' = [tab EXCEPT ![t] = q]
      BY <2>2
    <3> HIDE DEF q
    <3> QED
      BY <3>2, <3>3, <3>4, TabMoves
  <2> QED
    BY <2>1, <2>2 DEF Refresh, FindSession
<1> QED
  BY <1>1, <1>2, <1>3, RowsStay, BlanksTyped DEF Local, TypeOK, HoldLocal

LEMMA LocalReadUser == ASSUME Local, NEW t \in Tabs, ReadUser(t) PROVE Local'
<1>1. UNCHANGED <<rows, sessions, issued, edit, bound, past>> /\ tab[t].pc = "user"
  BY DEF ReadUser
<1>2. CASE /\ tab' = [tab EXCEPT ![t].pc = "issue", ![t].access = AccessOf(tab[t].user)]
           /\ hold' = hold
  <2> DEFINE q == [tab[t] EXCEPT !.pc = "issue", !.access = AccessOf(tab[t].user)]
  <2>1. q \in Tab
    BY <1>1, TabTyped, AccessOfTyped DEF Tab, Local
  <2>2. TabLocal(q)
    BY <1>1, TabTyped DEF TabLocal, Tab
  <2>3. tab' = [tab EXCEPT ![t] = q]
    BY <1>2
  <2> HIDE DEF q
  <2>4. tab' \in [Tabs -> Tab] /\ \A x \in Tabs : TabLocal(tab'[x])
    BY <2>1, <2>2, <2>3, TabMoves
  <2> QED
    BY <1>1, <1>2, <2>4, RowsStay DEF Local, TypeOK, HoldLocal
<1>3. CASE Refused(t)
  <2>1. tab' \in [Tabs -> Tab] /\ \A x \in Tabs : TabLocal(tab'[x])
    BY <1>3, BlanksTyped, TabMoves DEF Refused
  <2>2. hold' \in {hold, NoHold}
    BY <1>3 DEF Refused
  <2> QED
    BY <1>1, <2>1, <2>2, RowsStay, BlanksTyped DEF Local, TypeOK, HoldLocal
<1> QED
  BY <1>2, <1>3 DEF ReadUser

LEMMA LocalIssue == ASSUME Local, NEW t \in Tabs, IssueTokens(t) PROVE Local'
<1> DEFINE n == issued + 1
           s == tab[t].session
           q == [tab[t] EXCEPT !.pc = "answer", !.token = n, !.session = IF s = 0 THEN n ELSE s]
<1>1. UNCHANGED <<rows, hold, edit, bound>> /\ tab[t].pc = "issue" /\ issued < MaxTokens /\ issued' = n
  BY DEF IssueTokens
<1>2. n \in Tokens /\ n # 0 /\ n \in 0 .. MaxTokens
  BY <1>1, AccessAssumption DEF Tokens, Local, TypeOK
<1>3. tab' = [tab EXCEPT ![t] = q]
  BY DEF IssueTokens
<1>4. s \in Tokens \union {0} /\ tab[t].user \in Users /\ tab[t] \in Tab
  BY <1>1, TabTyped
<1>5. tab[t].access \in {"full", "narrow", "none"}
  BY <1>4 DEF Tab
<1>s. sessions \in [Tokens -> Session] /\ past \in Past
  BY DEF Local, TypeOK
<1>6. sessions' \in [Tokens -> Session]
  <2>1. CASE s = 0
    <3>1. sessions' = [sessions EXCEPT ![n] = [user |-> tab[t].user, token |-> n, active |-> TRUE,
                                               fresh |-> TRUE, access |-> tab[t].access]]
      BY <2>1 DEF IssueTokens
    <3> HIDE DEF n
    <3>2. [user |-> tab[t].user, token |-> n, active |-> TRUE, fresh |-> TRUE,
           access |-> tab[t].access] \in Session
      BY <1>2, <1>4, <1>5 DEF Session
    <3> QED
      BY <3>1, <3>2, <1>s
  <2>2. CASE s # 0 /\ sessions[s].user = None
    BY <2>2, <1>s DEF IssueTokens
  <2>3. CASE s # 0 /\ sessions[s].user # None
    <3>1. sessions' = [sessions EXCEPT ![s] = Renewed(sessions[s], n, tab[t].access)]
      BY <2>3 DEF IssueTokens
    <3> HIDE DEF n
    <3>2. s \in Tokens /\ sessions[s] \in Session
      BY <1>4, <2>3, <1>s
    <3>3. Renewed(sessions[s], n, tab[t].access) \in Session
      BY <1>2, <1>5, <3>2 DEF Session, Renewed
    <3> HIDE DEF s
    <3> QED
      BY <3>1, <3>3, <1>s
  <2> QED
    BY <2>1, <2>2, <2>3
<1>7. past' \in Past
  <2>1. PICK c, a : /\ past' = [past EXCEPT !.crossed = c, !.aged = a]
                    /\ c \in {past.crossed, past.crossed \union {s}} /\ (c = past.crossed \/ s # 0)
                    /\ a \in {past.aged \ {IF s = 0 THEN n ELSE s},
                              past.aged \union {IF s = 0 THEN n ELSE s}}
    <3> DEFINE c == IF s # 0 /\ ({x \in Tabs \ {t} : tab[x].pc \in {"user", "issue"} /\ tab[x].session = s} # {}
                                 \/ sessions[s].token # tab[t].token)
                    THEN past.crossed \union {s} ELSE past.crossed
               a == LET x == IF s = 0 THEN n ELSE s IN
                    IF tab[t].access = AccessOf(tab[t].user) THEN past.aged \ {x}
                    ELSE past.aged \union {x}
    <3>1. past' = [past EXCEPT !.crossed = c, !.aged = a]
      BY DEF IssueTokens
    <3>2. c \in {past.crossed, past.crossed \union {s}} /\ (c = past.crossed \/ s # 0)
      OBVIOUS
    <3>3. a \in {past.aged \ {IF s = 0 THEN n ELSE s}, past.aged \union {IF s = 0 THEN n ELSE s}}
      OBVIOUS
    <3> HIDE DEF c, a
    <3> QED
      BY <3>1, <3>2, <3>3
  <2>2. past.crossed \in SUBSET Tokens /\ past.aged \in SUBSET Tokens
    BY <1>s DEF Past
  <2> HIDE DEF n, s
  <2>3. c \in SUBSET Tokens /\ a \in SUBSET Tokens
    BY <2>1, <2>2, <1>2, <1>4
  <2> QED
    BY <2>1, <2>3, <1>s DEF Past
<1>8. q \in Tab
  <2> HIDE DEF n
  <2> QED
    BY <1>2, <1>4 DEF Tab
<1>9. TabLocal(q)
  <2> HIDE DEF n
  <2> QED
    BY <1>2, <1>4 DEF Tab, TabLocal
<1> HIDE DEF q, n, s
<1>10. tab' \in [Tabs -> Tab] /\ \A x \in Tabs : TabLocal(tab'[x])
  BY <1>3, <1>8, <1>9, TabMoves
<1> QED
  BY <1>1, <1>2, <1>6, <1>7, <1>10, RowsStay DEF Local, TypeOK, HoldLocal

LEMMA LocalAnswer == ASSUME Local, NEW t \in Tabs, Answer(t) PROVE Local'
<1>1. UNCHANGED <<rows, sessions, issued, edit, bound, past>> /\ tab[t].pc = "answer"
  BY DEF Answer
<1>2. hold' = [user |-> tab[t].user, session |-> tab[t].session, token |-> tab[t].token]
  BY DEF Answer
<1>3. tab[t].user \in Users /\ tab[t].session \in Tokens /\ tab[t].token \in Tokens
  BY <1>1, TabTyped
<1>4. 0 \notin Tokens
  BY DEF Tokens
<1>5. hold' \in Held /\ HoldLocal'
  BY <1>2, <1>3, <1>4 DEF Held, HoldLocal
<1>6. tab' \in [Tabs -> Tab] /\ \A x \in Tabs : TabLocal(tab'[x])
  BY BlanksTyped, TabMoves DEF Answer
<1> QED
  BY <1>1, <1>5, <1>6, RowsStay DEF Local, TypeOK

LEMMA LocalLoseAnswer == ASSUME Local, NEW t \in Tabs, LoseAnswer(t) PROVE Local'
<1>1. UNCHANGED <<rows, sessions, issued, hold, edit>> /\ tab[t].pc = "answer"
  BY DEF LoseAnswer
<1>2. tab[t].session \in Tokens
  BY <1>1, TabTyped
<1>3. past' \in Past
  BY <1>2 DEF LoseAnswer, Past, Local, TypeOK
<1>4. bound' \in Bound
  BY FaultCounted DEF LoseAnswer
<1>6. tab' \in [Tabs -> Tab] /\ \A x \in Tabs : TabLocal(tab'[x])
  BY BlanksTyped, TabMoves DEF LoseAnswer
<1> QED
  BY <1>1, <1>3, <1>4, <1>6, RowsStay DEF Local, TypeOK, HoldLocal

LEMMA LocalEnterLogout == ASSUME Local, NEW t \in Tabs, EnterLogout(t) PROVE Local'
<1>1. bound' \in Bound
  BY CallCounted DEF EnterLogout
<1>2. UNCHANGED <<rows, sessions, issued, edit, past>> /\ hold # NoHold
  BY DEF EnterLogout
<1> DEFINE q == [NoTab EXCEPT !.pc = "leave", !.user = hold.user, !.session = hold.session,
                              !.token = hold.token]
<1>3. q \in Tab
  BY <1>2, HeldTyped DEF NoTab, Tab
<1>4. TabLocal(q)
  BY <1>2, HeldTyped DEF NoTab, TabLocal
<1>5. CASE tab' = [tab EXCEPT ![t] = q] /\ hold' = hold
  <2> HIDE DEF q
  <2>1. tab' \in [Tabs -> Tab] /\ \A x \in Tabs : TabLocal(tab'[x])
    BY <1>3, <1>4, <1>5, TabMoves
  <2> QED
    BY <1>1, <1>2, <1>5, <2>1, RowsStay DEF Local, TypeOK, HoldLocal
<1>6. CASE tab' = tab /\ hold' = NoHold
  BY <1>1, <1>2, <1>6, RowsStay, BlanksTyped DEF Local, TypeOK, HoldLocal
<1> QED
  BY <1>5, <1>6 DEF EnterLogout

LEMMA LocalLogout == ASSUME Local, NEW t \in Tabs, Logout(t) PROVE Local'
<1>1. UNCHANGED <<rows, issued, edit, bound>> /\ tab[t].pc = "leave" /\ hold' \in {hold, NoHold}
  BY DEF Logout
<1>2. tab[t].session \in Tokens
  BY <1>1, TabTyped
<1>3. past' \in Past
  <2>1. past \in Past
    BY DEF Local, TypeOK
  <2>2. PICK c \in SUBSET Tokens : past' = [past EXCEPT !.out = @ \union {tab[t].session}, !.crossed = c]
    <3> DEFINE c == IF InFlight(tab[t].session) \/ sessions[tab[t].session].token # tab[t].token
                    THEN past.crossed \union {tab[t].session} ELSE past.crossed
    <3>1. past' = [past EXCEPT !.out = @ \union {tab[t].session}, !.crossed = c]
      BY DEF Logout
    <3>2. c \in SUBSET Tokens
      BY <1>2, <2>1 DEF Past
    <3> HIDE DEF c
    <3> QED
      BY <3>1, <3>2
  <2> QED
    BY <1>2, <2>1, <2>2 DEF Past
<1>4. sessions' \in [Tokens -> Session]
  <2>1. sessions \in [Tokens -> Session]
    BY DEF Local, TypeOK
  <2>2. \A x \in Tokens : sessions[x] \in Session /\ [sessions[x] EXCEPT !.active = FALSE] \in Session
    BY <2>1 DEF Session
  <2> QED
    BY <2>2 DEF Logout
<1>6. tab' \in [Tabs -> Tab] /\ \A x \in Tabs : TabLocal(tab'[x])
  BY BlanksTyped, TabMoves DEF Logout
<1> QED
  BY <1>1, <1>3, <1>4, <1>6, RowsStay, BlanksTyped DEF Local, TypeOK, HoldLocal

LEMMA LocalExpire == ASSUME Local, Expire PROVE Local'
<1>1. UNCHANGED <<rows, issued, hold, tab, edit>>
  BY DEF Expire
<1>2. PICK s \in Tokens : /\ sessions' = [sessions EXCEPT ![s].fresh = FALSE]
                          /\ past' = [past EXCEPT !.crossed = @ \union {s}]
  BY DEF Expire
<1>3. past' \in Past
  BY <1>2 DEF Past, Local, TypeOK
<1>4. sessions' \in [Tokens -> Session]
  <2>1. sessions \in [Tokens -> Session]
    BY DEF Local, TypeOK
  <2>2. [sessions[s] EXCEPT !.fresh = FALSE] \in Session
    BY <2>1 DEF Session
  <2> QED
    BY <1>2, <2>1, <2>2
<1>5. bound' \in Bound
  BY FaultCounted DEF Expire
<1> QED
  BY <1>1, <1>3, <1>4, <1>5, RowsStay DEF Local, TypeOK, HoldLocal

-----------------------------------------------------------------------------
(* The administrators' requests.                                           *)

\* What no edit touches.
LEMMA BrowserStays ==
  ASSUME Local, UNCHANGED <<issued, hold, tab>>
  PROVE  /\ issued' \in 0 .. MaxTokens /\ hold' \in Held /\ HoldLocal' /\ tab' \in [Tabs -> Tab]
         /\ \A t \in Tabs : TabLocal(tab'[t])
  BY DEF Local, TypeOK, HoldLocal

LEMMA EditTyped ==
  ASSUME Local, NEW e \in Edits
  PROVE  /\ edit[e] \in Edit /\ EditLocal(edit[e])
         /\ edit[e].pc \in {"lines", "user"} => edit[e].user \in Users
         /\ edit[e].pc = "lines" => edit[e].lines \in SUBSET Lines
         /\ edit[e].urow # None => edit[e].urow \in User
         /\ edit[e].pc = "user" => edit[e].urow \in User
         /\ edit[e].pc \in {"profile", "drop"} => edit[e].profile \in Profiles
         /\ edit[e].pc = "profile" => edit[e].prow \in Profile
         /\ edit[e].pc = "role" => edit[e].role \in Roles /\ edit[e].rrow \in Role
<1>1. edit[e] \in Edit /\ EditLocal(edit[e])
  BY DEF Local, TypeOK
<1>2. /\ edit[e].lines \in (SUBSET Lines) \union {{None}} /\ edit[e].urow \in User \union {None}
      /\ edit[e].prow \in Profile \union {None} /\ edit[e].rrow \in Role \union {None}
  BY <1>1 DEF Edit
<1> QED
  BY <1>1, <1>2 DEF EditLocal

LEMMA LocalBegin ==
  ASSUME Local, NEW e \in Edits, EditStart(e), NEW w \in Edit, EditLocal(w), Begin(e, w)
  PROVE  Local'
<1>1. edit' = [edit EXCEPT ![e] = w] /\ UNCHANGED <<rows, sessions, issued, hold, tab>>
  BY DEF Begin
<1>2. edit' \in [Edits -> Edit] /\ \A x \in Edits : EditLocal(edit'[x])
  BY <1>1, EditMoves
<1>3. bound' \in Bound
  <2>1. bound \in Bound
    BY DEF Local, TypeOK
  <2>2. bound.edits + 1 \in 0 .. EditLimit
    BY <2>1, AccessAssumption DEF Bound, EditStart
  <2> QED
    BY <2>1, <2>2 DEF Bound, Begin
<1>4. past' \in Past
  <2>1. past \in Past
    BY DEF Local, TypeOK
  <2>2. (past.overlap \/ \E x \in Edits : edit[x].pc # "idle") \in BOOLEAN
    OBVIOUS
  <2> QED
    BY <2>1, <2>2 DEF Past, Begin
<1> QED
  BY <1>1, <1>2, <1>3, <1>4, BrowserStays DEF Local, TypeOK, rows

LEMMA PatchTyped ==
  ASSUME NEW p \in Patches
  PROVE  /\ p \in Patch /\ p.role \in Roles \union {None} /\ p.centre \in Centres \union {None}
         /\ p.lines \in (SUBSET Lines) \union {{None}}
  BY PatchesAssumption DEF Patch

LEMMA LocalCreateUser == ASSUME Local, NEW e \in Edits, CreateUser(e) PROVE Local'
<1>1. PICK u \in Users, p \in Patches :
        /\ p.role # None /\ p.centre # None
        /\ Begin(e, [NoEdit EXCEPT
             !.pc = "user", !.insert = TRUE, !.user = u,
             !.urow = [state |-> "live", role |-> p.role, centre |-> p.centre, lines |-> {}],
             !.lines = IF p.lines = {} THEN {None} ELSE p.lines])
  BY DEF CreateUser
<1> DEFINE row == [state |-> "live", role |-> p.role, centre |-> p.centre, lines |-> {}]
           ls == IF p.lines = {} THEN {None} ELSE p.lines
           w == [NoEdit EXCEPT !.pc = "user", !.insert = TRUE, !.user = u, !.urow = row, !.lines = ls]
<1>2. row \in User
  BY <1>1, PatchTyped DEF User, RowStates
<1>3. ls \in (SUBSET Lines) \union {{None}}
  BY PatchTyped
<1>4. Begin(e, w)
  BY <1>1
<1> HIDE DEF row, ls
<1>5. w \in Edit
  BY <1>2, <1>3 DEF NoEdit, Edit
<1>6. EditLocal(w)
  BY <1>2, NoneIsNone DEF NoEdit, EditLocal
<1> HIDE DEF w
<1> QED
  BY <1>4, <1>5, <1>6, LocalBegin DEF CreateUser

LEMMA LocalUpdateUser == ASSUME Local, NEW e \in Edits, UpdateUser(e) PROVE Local'
<1>1. PICK u \in Users, p \in Patches :
        LET row == [users[u] EXCEPT !.role = IF p.role = None THEN @ ELSE p.role,
                                    !.centre = IF p.centre = None THEN @ ELSE p.centre]
            lines == LinesAfter(u, p) IN
        Begin(e, [NoEdit EXCEPT !.pc = IF lines = {None} THEN "user" ELSE "lines",
                                !.user = u, !.urow = row, !.lines = lines])
  BY DEF UpdateUser
<1> DEFINE row == [users[u] EXCEPT !.role = IF p.role = None THEN @ ELSE p.role,
                                   !.centre = IF p.centre = None THEN @ ELSE p.centre]
           ls == LinesAfter(u, p)
           k == IF ls = {None} THEN "user" ELSE "lines"
           w == [NoEdit EXCEPT !.pc = k, !.user = u, !.urow = row, !.lines = ls]
<1>2. row \in User
  <2> DEFINE r == IF p.role = None THEN users[u].role ELSE p.role
             c == IF p.centre = None THEN users[u].centre ELSE p.centre
  <2>1. users[u] \in User
    BY DEF Local, TypeOK
  <2>2. r \in Roles /\ c \in Centres
    BY <2>1, PatchTyped DEF User
  <2>3. row = [users[u] EXCEPT !.role = r, !.centre = c]
    BY <2>1 DEF User
  <2> HIDE DEF r, c, row
  <2> QED
    BY <2>1, <2>2, <2>3 DEF User
<1>3. ls \in (SUBSET Lines) \union {{None}}
  BY PatchTyped DEF LinesAfter
<1>4. Begin(e, w)
  BY <1>1
<1>5. k \in {"user", "lines"} /\ (k = "lines" => ls # {None})
  OBVIOUS
<1> HIDE DEF row, ls, k
<1>6. w \in Edit
  BY <1>2, <1>3, <1>5 DEF NoEdit, Edit
<1>7. EditLocal(w)
  BY <1>2, <1>5, NoneIsNone DEF NoEdit, EditLocal
<1> HIDE DEF w
<1> QED
  BY <1>4, <1>6, <1>7, LocalBegin DEF UpdateUser

LEMMA LocalRemoveUser == ASSUME Local, NEW e \in Edits, RemoveUser(e) PROVE Local'
<1>1. PICK u \in Users :
        Begin(e, [NoEdit EXCEPT !.pc = "user", !.user = u, !.lines = {},
                                !.urow = [users[u] EXCEPT !.state = "deleted"]])
  BY DEF RemoveUser
<1> DEFINE row == [users[u] EXCEPT !.state = "deleted"]
           w == [NoEdit EXCEPT !.pc = "user", !.user = u, !.lines = {}, !.urow = row]
<1>2. row \in User
  BY DEF User, RowStates, Local, TypeOK
<1>4. Begin(e, w)
  BY <1>1
<1> HIDE DEF row
<1>5. w \in Edit
  BY <1>2 DEF NoEdit, Edit
<1>6. EditLocal(w)
  BY <1>2, NoneIsNone DEF NoEdit, EditLocal
<1> HIDE DEF w
<1> QED
  BY <1>4, <1>5, <1>6, LocalBegin DEF RemoveUser

\* A request that has a role to write and nothing else.
LEMMA LocalRoleOnly ==
  ASSUME Local, NEW e \in Edits, EditStart(e), NEW ins \in BOOLEAN, NEW r \in Roles, NEW row \in Role,
         Begin(e, [NoEdit EXCEPT !.pc = "role", !.insert = ins, !.role = r, !.rrow = row])
  PROVE  Local'
<1> DEFINE w == [NoEdit EXCEPT !.pc = "role", !.insert = ins, !.role = r, !.rrow = row]
<1>1. w \in Edit
  BY DEF NoEdit, Edit
<1>2. EditLocal(w)
  BY NoneIsNone DEF NoEdit, EditLocal
<1>3. Begin(e, w)
  OBVIOUS
<1> HIDE DEF w
<1> QED
  BY <1>1, <1>2, <1>3, LocalBegin

LEMMA RolePatchTyped ==
  ASSUME NEW p \in RolePatches
  PROVE  /\ p \in RolePatch /\ p.scope \in {"global", "centre"} /\ p.admin \in BOOLEAN
         /\ p.profile \in Profiles /\ p.access \in {"full", "narrow", "same"}
  BY PatchesAssumption DEF RolePatch

LEMMA LocalCreateRole == ASSUME Local, NEW e \in Edits, CreateRole(e) PROVE Local'
<1>1. PICK r \in Roles, p \in RolePatches :
        Begin(e, [NoEdit EXCEPT
             !.pc = "role", !.insert = TRUE, !.role = r,
             !.rrow = [state |-> "live", scope |-> p.scope,
                       admin |-> p.scope = "centre" /\ p.admin, profile |-> p.profile]])
  BY DEF CreateRole
<1>2. [state |-> "live", scope |-> p.scope,
       admin |-> p.scope = "centre" /\ p.admin, profile |-> p.profile] \in Role
  <2>1. (p.scope = "centre" /\ p.admin) \in BOOLEAN
    OBVIOUS
  <2> QED
    BY <2>1, RolePatchTyped DEF Role, RowStates
<1> QED
  BY <1>1, <1>2, LocalRoleOnly DEF CreateRole

LEMMA LocalUpdateRole == ASSUME Local, NEW e \in Edits, UpdateRole(e) PROVE Local'
<1>1. PICK r \in Roles, p \in RolePatches :
        LET row == [roles[r] EXCEPT !.scope = p.scope, !.admin = p.scope = "centre" /\ p.admin,
                                    !.profile = p.profile] IN
        Begin(e, IF p.access = "same" THEN [NoEdit EXCEPT !.pc = "role", !.role = r, !.rrow = row]
                 ELSE [NoEdit EXCEPT !.pc = "profile", !.role = r, !.rrow = row, !.drop = TRUE,
                         !.profile = p.profile,
                         !.prow = [profiles[p.profile] EXCEPT !.access = p.access]])
  BY DEF UpdateRole
<1> DEFINE row == [roles[r] EXCEPT !.scope = p.scope, !.admin = p.scope = "centre" /\ p.admin,
                                   !.profile = p.profile]
           prow == [profiles[p.profile] EXCEPT !.access = p.access]
           w == [NoEdit EXCEPT !.pc = "profile", !.role = r, !.rrow = row, !.drop = TRUE,
                         !.profile = p.profile, !.prow = prow]
<1>2. row \in Role
  <2>1. (p.scope = "centre" /\ p.admin) \in BOOLEAN
    OBVIOUS
  <2>2. roles[r] \in Role
    BY DEF Local, TypeOK
  <2> QED
    BY <2>1, <2>2, RolePatchTyped DEF Role
<1>3. CASE p.access = "same"
  <2>1. Begin(e, [NoEdit EXCEPT !.pc = "role", !.role = r, !.rrow = row])
    BY <1>1, <1>3
  <2> HIDE DEF row
  <2> DEFINE v == [NoEdit EXCEPT !.pc = "role", !.role = r, !.rrow = row]
  <2>2. v \in Edit
    BY <1>2 DEF NoEdit, Edit
  <2>3. EditLocal(v)
    BY <1>2, NoneIsNone DEF NoEdit, EditLocal
  <2>4. Begin(e, v)
    BY <2>1
  <2> HIDE DEF v
  <2> QED
    BY <2>2, <2>3, <2>4, LocalBegin DEF UpdateRole
<1>4. CASE p.access # "same"
  <2>1. Begin(e, w)
    BY <1>1, <1>4
  <2>2. prow \in Profile
    <3>1. profiles[p.profile] \in Profile
      BY RolePatchTyped DEF Local, TypeOK
    <3> QED
      BY <1>4, <3>1, RolePatchTyped DEF Profile
  <2> HIDE DEF row, prow
  <2>3. w \in Edit
    BY <1>2, <2>2, RolePatchTyped DEF NoEdit, Edit
  <2>4. EditLocal(w)
    BY <1>2, <2>2, RolePatchTyped, NoneIsNone DEF NoEdit, EditLocal
  <2> HIDE DEF w
  <2> QED
    BY <2>1, <2>3, <2>4, LocalBegin DEF UpdateRole
<1> QED
  BY <1>3, <1>4

LEMMA LocalRemoveRole == ASSUME Local, NEW e \in Edits, RemoveRole(e) PROVE Local'
<1>1. PICK r \in Roles :
        Begin(e, [NoEdit EXCEPT !.pc = "role", !.role = r,
                                !.rrow = [roles[r] EXCEPT !.state = "deleted"]])
  BY DEF RemoveRole
<1> DEFINE row == [roles[r] EXCEPT !.state = "deleted"]
           w == [NoEdit EXCEPT !.pc = "role", !.role = r, !.rrow = row]
<1>2. row \in Role
  BY DEF Role, RowStates, Local, TypeOK
<1>3. Begin(e, w)
  BY <1>1
<1> HIDE DEF row
<1>4. w \in Edit
  BY <1>2 DEF NoEdit, Edit
<1>5. EditLocal(w)
  BY <1>2, NoneIsNone DEF NoEdit, EditLocal
<1> HIDE DEF w
<1> QED
  BY <1>3, <1>4, <1>5, LocalBegin DEF RemoveRole

\* A request that has a profile to write and no role.
LEMMA LocalProfileOnly ==
  ASSUME Local, NEW e \in Edits, EditStart(e), NEW p \in Profiles, NEW row \in Profile, NEW d \in BOOLEAN,
         \/ Begin(e, [NoEdit EXCEPT !.pc = "profile", !.profile = p, !.drop = d, !.prow = row])
         \/ Begin(e, [NoEdit EXCEPT !.pc = "profile", !.profile = p, !.prow = row])
  PROVE  Local'
<1> DEFINE w == [NoEdit EXCEPT !.pc = "profile", !.profile = p, !.drop = d, !.prow = row]
           v == [NoEdit EXCEPT !.pc = "profile", !.profile = p, !.prow = row]
<1>1. w \in Edit /\ v \in Edit
  BY DEF NoEdit, Edit
<1>2. EditLocal(w) /\ EditLocal(v)
  BY NoneIsNone DEF NoEdit, EditLocal
<1>3. Begin(e, w) \/ Begin(e, v)
  OBVIOUS
<1> HIDE DEF w, v
<1> QED
  BY <1>1, <1>2, <1>3, LocalBegin

LEMMA LocalProfileRequests ==
  ASSUME Local, NEW e \in Edits, CreateProfile(e) \/ EditProfile(e) \/ RemoveProfile(e)
  PROVE  Local'
<1>0. \A p \in Profiles : profiles[p] \in Profile
  BY DEF Local, TypeOK
<1>1. CASE CreateProfile(e)
  <2>1. PICK p \in Profiles, a \in {"full", "narrow"} :
          Begin(e, [NoEdit EXCEPT !.pc = "profile", !.profile = p,
                                  !.prow = [state |-> "live", access |-> a, active |-> TRUE]])
    BY <1>1 DEF CreateProfile
  <2> DEFINE row == [state |-> "live", access |-> a, active |-> TRUE]
  <2>2. row \in Profile
    BY DEF Profile, RowStates
  <2> HIDE DEF row
  <2>3. Begin(e, [NoEdit EXCEPT !.pc = "profile", !.profile = p, !.prow = row])
    BY <2>1 DEF row
  <2> QED
    BY <1>1, <2>2, <2>3, LocalProfileOnly DEF CreateProfile
<1>2. CASE EditProfile(e)
  <2>1. PICK p \in Profiles, a \in {"full", "narrow"}, act \in BOOLEAN, d \in BOOLEAN :
          Begin(e, [NoEdit EXCEPT !.pc = "profile", !.profile = p, !.drop = d,
                                  !.prow = [profiles[p] EXCEPT !.access = a, !.active = act]])
    BY <1>2 DEF EditProfile
  <2> DEFINE row == [profiles[p] EXCEPT !.access = a, !.active = act]
  <2>2. row \in Profile
    BY <1>0 DEF Profile
  <2>3. Begin(e, [NoEdit EXCEPT !.pc = "profile", !.profile = p, !.drop = d, !.prow = row])
    BY <2>1
  <2> HIDE DEF row
  <2> QED
    BY <1>2, <2>2, <2>3, LocalProfileOnly DEF EditProfile
<1>3. CASE RemoveProfile(e)
  <2>1. PICK p \in Profiles :
          Begin(e, [NoEdit EXCEPT !.pc = "profile", !.profile = p,
                                  !.prow = [profiles[p] EXCEPT !.state = "deleted"]])
    BY <1>3 DEF RemoveProfile
  <2> DEFINE row == [profiles[p] EXCEPT !.state = "deleted"]
  <2>2. row \in Profile
    BY <1>0 DEF Profile, RowStates
  <2> HIDE DEF row
  <2>3. Begin(e, [NoEdit EXCEPT !.pc = "profile", !.profile = p, !.prow = row])
    BY <2>1 DEF row
  <2> QED
    BY <1>3, <2>2, <2>3, LocalProfileOnly DEF RemoveProfile
<1> QED
  BY <1>1, <1>2, <1>3

\* The next write of a request.
LEMMA LocalGo ==
  ASSUME Local, NEW e \in Edits, NEW w \in Edit, EditLocal(w), Go(e, w)
  PROVE  edit' \in [Edits -> Edit] /\ \A x \in Edits : EditLocal(edit'[x])
<1>1. CASE w.pc = "idle"
  BY <1>1, EditMoves, BlanksTyped DEF Go
<1>2. CASE w.pc # "idle"
  BY <1>2, EditMoves DEF Go
<1> QED
  BY <1>1, <1>2

LEMMA AgedTyped ==
  ASSUME Local, NEW more \in SUBSET Tokens, past' = [past EXCEPT !.aged = @ \union more]
  PROVE  past' \in Past
  BY DEF Local, TypeOK, Past

LEMMA AgeTyped == ASSUME Local, Age PROVE past' \in Past
<1> DEFINE more == Aging
<1>1. more \in SUBSET Tokens
  BY DEF Aging
<1>2. past' = [past EXCEPT !.aged = @ \union more]
  BY DEF Age
<1> HIDE DEF more
<1> QED
  BY <1>1, <1>2, AgedTyped

LEMMA LocalSaveLines == ASSUME Local, NEW e \in Edits, SaveLines(e) PROVE Local'
<1>1. UNCHANGED <<roles, profiles, sessions, past, issued, hold, tab, bound>> /\ edit[e].pc = "lines"
  BY DEF SaveLines, Same
<1>2. users' \in [Users -> User]
  <2>1. edit[e].lines \in SUBSET Lines /\ edit[e].user \in Users
    BY <1>1, EditTyped
  <2> QED
    BY <2>1 DEF SaveLines, Local, TypeOK, User
<1> DEFINE k == IF edit[e].urow = None THEN "idle" ELSE "user"
           w == [edit[e] EXCEPT !.pc = k, !.lines = {None}]
<1>3. Go(e, w)
  BY DEF SaveLines
<1>4. k \in {"idle", "user"} /\ (k = "user" => edit[e].urow # None)
  OBVIOUS
<1> HIDE DEF k
<1>5. w \in Edit
  BY <1>4, EditTyped DEF Edit
<1>6. EditLocal(w)
  BY <1>1, <1>4, EditTyped DEF EditLocal, Edit
<1> HIDE DEF w
<1> QED
  BY <1>1, <1>2, <1>3, <1>5, <1>6, LocalGo, BrowserStays DEF Local, TypeOK

LEMMA LocalSaveUser == ASSUME Local, NEW e \in Edits, SaveUser(e) PROVE Local'
<1>1. UNCHANGED <<roles, profiles, sessions, issued, hold, tab, bound>> /\ edit[e].pc = "user"
  BY DEF SaveUser, Same
<1>2. CASE edit' = [edit EXCEPT ![e] = NoEdit] /\ UNCHANGED <<users, past>>
  BY <1>1, <1>2, EditMoves, BlanksTyped, BrowserStays DEF Local, TypeOK
<1>3. CASE /\ users' = [users EXCEPT ![edit[e].user] =
                          [edit[e].urow EXCEPT !.lines = users[edit[e].user].lines]]
           /\ Go(e, [edit[e] EXCEPT !.pc = IF edit[e].lines = {None} THEN "idle" ELSE "lines",
                                    !.urow = None, !.insert = FALSE])
           /\ Age
  <2>1. users' \in [Users -> User]
    <3>1. edit[e].urow \in User /\ edit[e].user \in Users
      BY <1>1, EditTyped
    <3>2. users[edit[e].user].lines \in SUBSET Lines
      BY <3>1 DEF Local, TypeOK, User
    <3>3. [edit[e].urow EXCEPT !.lines = users[edit[e].user].lines] \in User
      BY <3>1, <3>2 DEF User
    <3> QED
      BY <1>3, <3>1, <3>3 DEF Local, TypeOK
  <2> DEFINE k == IF edit[e].lines = {None} THEN "idle" ELSE "lines"
             w == [edit[e] EXCEPT !.pc = k, !.urow = None, !.insert = FALSE]
  <2>2. Go(e, w)
    BY <1>3
  <2>3. k \in {"idle", "lines"} /\ (k = "lines" => edit[e].lines # {None})
    OBVIOUS
  <2> HIDE DEF k
  <2>4. w \in Edit
    BY <2>3, EditTyped DEF Edit
  <2>5. EditLocal(w)
    BY <1>1, <2>3, EditTyped DEF EditLocal, Edit
  <2> HIDE DEF w
  <2>6. past' \in Past
    BY <1>3, AgeTyped
  <2> QED
    BY <1>1, <2>1, <2>2, <2>4, <2>5, <2>6, LocalGo, BrowserStays DEF Local, TypeOK
<1> QED
  BY <1>2, <1>3 DEF SaveUser

LEMMA LocalSaveProfile == ASSUME Local, NEW e \in Edits, SaveProfile(e) PROVE Local'
<1>1. UNCHANGED <<users, roles, sessions, issued, hold, tab, bound>> /\ edit[e].pc = "profile"
  BY DEF SaveProfile, Same
<1>2. profiles' \in [Profiles -> Profile]
  BY <1>1, EditTyped DEF SaveProfile, Local, TypeOK
<1> DEFINE k == IF edit[e].drop THEN "drop" ELSE "idle"
           w == [edit[e] EXCEPT !.pc = k, !.prow = None]
<1>3. Go(e, w)
  BY DEF SaveProfile
<1>4. k \in {"idle", "drop"}
  OBVIOUS
<1> HIDE DEF k
<1>5. w \in Edit
  BY <1>4, EditTyped DEF Edit
<1>6. EditLocal(w)
  BY <1>1, <1>4, EditTyped DEF EditLocal, Edit
<1> HIDE DEF w
<1>7. past' \in Past
  <2>1. past' = past \/ Age
    BY DEF SaveProfile
  <2> QED
    BY <2>1, AgeTyped DEF Local, TypeOK
<1> QED
  BY <1>1, <1>2, <1>3, <1>5, <1>6, <1>7, LocalGo, BrowserStays DEF Local, TypeOK

LEMMA LocalDrop == ASSUME Local, NEW e \in Edits, Drop(e) PROVE Local'
<1>1. UNCHANGED <<users, roles, profiles, issued, hold, tab, bound>> /\ edit[e].pc = "drop"
  BY DEF Drop, Same, rows
<1> DEFINE gone == SignedOut(edit[e].profile)
<1>2. gone \in SUBSET Tokens
  BY DEF SignedOut
<1>3. sessions' = [s \in Tokens |-> IF s \in gone THEN NoSession ELSE sessions[s]]
      /\ past' = [past EXCEPT !.crossed = @ \union gone]
  BY DEF Drop
<1> HIDE DEF gone
<1>4. sessions' \in [Tokens -> Session]
  BY <1>3, BlanksTyped DEF Local, TypeOK
<1>5. past' \in Past
  BY <1>2, <1>3 DEF Local, TypeOK, Past
<1> DEFINE k == IF edit[e].rrow = None THEN "idle" ELSE "role"
           w == [edit[e] EXCEPT !.pc = k, !.profile = None, !.drop = FALSE]
<1>6. Go(e, w)
  BY DEF Drop
<1>7. k \in {"idle", "role"} /\ (k = "role" => edit[e].rrow # None)
  OBVIOUS
<1> HIDE DEF k
<1>8. w \in Edit
  BY <1>7, EditTyped DEF Edit
<1>9. EditLocal(w)
  BY <1>1, <1>7, EditTyped DEF EditLocal, Edit
<1> HIDE DEF w
<1> QED
  BY <1>1, <1>4, <1>5, <1>6, <1>8, <1>9, LocalGo, BrowserStays DEF Local, TypeOK

LEMMA LocalSaveRole == ASSUME Local, NEW e \in Edits, SaveRole(e) PROVE Local'
<1>1. UNCHANGED <<users, profiles, sessions, issued, hold, tab, bound>> /\ edit[e].pc = "role"
      /\ edit' = [edit EXCEPT ![e] = NoEdit]
  BY DEF SaveRole, Same
<1>2. roles' = roles \/ roles' = [roles EXCEPT ![edit[e].role] = edit[e].rrow]
  BY DEF SaveRole
<1>3. roles' \in [Roles -> Role]
  BY <1>1, <1>2, EditTyped DEF Local, TypeOK
<1>4. past' \in Past
  <2>1. past' = past \/ Age
    BY DEF SaveRole
  <2> QED
    BY <2>1, AgeTyped DEF Local, TypeOK
<1> QED
  BY <1>1, <1>3, <1>4, EditMoves, BlanksTyped, BrowserStays DEF Local, TypeOK

LEMMA LocalAbandon == ASSUME Local, NEW e \in Edits, Abandon(e) PROVE Local'
<1>1. UNCHANGED <<users, roles, profiles, sessions, issued, hold, tab>>
      /\ edit' = [edit EXCEPT ![e] = NoEdit]
  BY DEF Abandon, rows
<1>2. past' \in Past
  <2> DEFINE a == IF edit[e].pc = "drop" THEN past.aged \union SignedOut(edit[e].profile) ELSE past.aged
  <2>1. past' = [past EXCEPT !.overlap = TRUE, !.aged = a]
    BY DEF Abandon
  <2>2. past.aged \in SUBSET Tokens /\ SignedOut(edit[e].profile) \in SUBSET Tokens
    BY DEF Local, TypeOK, Past, SignedOut
  <2>3. a \in SUBSET Tokens
    BY <2>2
  <2> HIDE DEF a
  <2> QED
    BY <2>1, <2>3 DEF Local, TypeOK, Past
<1>3. bound' \in Bound
  BY FaultCounted DEF Abandon
<1> QED
  BY <1>1, <1>2, <1>3, EditMoves, BlanksTyped, BrowserStays DEF Local, TypeOK

LEMMA LocalStep == Local /\ [Next]_vars => Local'
<1> SUFFICES ASSUME Local, [Next]_vars PROVE Local'
  OBVIOUS
<1>1. CASE UNCHANGED vars
  BY <1>1 DEF vars, Local, TypeOK, HoldLocal
<1>2. ASSUME NEW t \in Tabs, AuthRequest(t) PROVE Local'
  BY <1>2, LocalLogin, LocalRefresh, LocalReadUser, LocalIssue, LocalAnswer, LocalLoseAnswer,
     LocalEnterLogout, LocalLogout DEF AuthRequest
<1>3. CASE Expire
  BY <1>3, LocalExpire
<1>4. ASSUME NEW e \in Edits, UserRequest(e) PROVE Local'
  BY <1>4, LocalCreateUser, LocalUpdateUser, LocalRemoveUser, LocalSaveLines, LocalSaveUser
  DEF UserRequest
<1>5. ASSUME NEW e \in Edits, RoleRequest(e) PROVE Local'
  BY <1>5, LocalCreateRole, LocalUpdateRole, LocalRemoveRole, LocalSaveRole DEF RoleRequest
<1>6. ASSUME NEW e \in Edits, ProfileRequest(e) PROVE Local'
  BY <1>6, LocalProfileRequests, LocalSaveProfile DEF ProfileRequest
<1>7. ASSUME NEW e \in Edits, Drop(e) \/ Abandon(e) PROVE Local'
  BY <1>7, LocalDrop, LocalAbandon
<1> QED
  BY <1>1, <1>2, <1>3, <1>4, <1>5, <1>6, <1>7 DEF Next

-----------------------------------------------------------------------------
(* The links between rows.  A request that was admitted is bound to leave   *)
(* them as they should be: while it writes and nobody else does, it is the  *)
(* rows as they will be that are linked.                                   *)

UserOk(row, rs) ==
  IF Live(row) THEN Live(rs[row.role]) /\ assertLinesBelongToCentre(row.lines, row.centre)
  ELSE row.lines = {}
RolesOk(rs, ps) ==
  /\ \A r \in Roles : Live(rs[r]) => Live(ps[rs[r].profile])
  /\ \A r, q \in Roles : r # q /\ Live(rs[r]) /\ Live(rs[q]) => rs[r].profile # rs[q].profile
Linked(us, rs, ps) == (\A u \in Users : UserOk(us[u], rs)) /\ RolesOk(rs, ps)

\* The row of a user once what is left of the request is written.
FinalRow(w, row) ==
  [(IF w.urow = None THEN row ELSE w.urow) EXCEPT
     !.lines = IF w.lines = {None} THEN row.lines ELSE w.lines]

UserPlan(w, us, rs, ps) ==
  /\ \A u \in Users \ {w.user} : UserOk(us[u], rs)
  /\ UserOk(FinalRow(w, us[w.user]), rs)
  /\ RolesOk(rs, ps)
  /\ w.insert => us[w.user].state = "absent"

RolePlan(w, us, rs, ps) ==
  /\ Linked(us, rs, ps)
  /\ w.rrow # None => IF Live(w.rrow) THEN Live(ps[w.rrow.profile])
                      ELSE \A u \in Users : ~ (Live(us[u]) /\ us[u].role = w.role)
  /\ w.pc = "profile" =>
       /\ \A r \in Roles : Live(rs[r]) /\ rs[r].profile = w.profile => Live(w.prow)
       /\ w.rrow # None /\ Live(w.rrow) /\ w.rrow.profile = w.profile => Live(w.prow)

Planned(w, us, rs, ps) ==
  IF w.pc \in {"lines", "user"} THEN UserPlan(w, us, rs, ps) ELSE RolePlan(w, us, rs, ps)

EditsInOrder ==
  ~ past.overlap =>
    /\ \A e, x \in Edits : edit[e].pc # "idle" /\ edit[x].pc # "idle" => e = x
    /\ \A e \in Edits : edit[e].pc # "idle" => Planned(edit[e], users, roles, profiles)
    /\ (\A e \in Edits : edit[e].pc = "idle") => Linked(users, roles, profiles)

LEMMA LinkedIs ==
  ASSUME NEW us, NEW rs, NEW ps
  PROVE  Linked(us, rs, ps) <=> Backed(us, rs, ps) /\ OwnLines(us)
  BY DEF Linked, UserOk, RolesOk, Backed, OwnLines

LEMMA OrderInit == Init => EditsInOrder
<1> SUFFICES ASSUME Init PROVE EditsInOrder
  OBVIOUS
<1>1. Linked(users, roles, profiles)
  BY InitialAssumption, LinkedIs DEF Init
<1>2. \A e \in Edits : edit[e].pc = "idle"
  BY DEF Init, NoEdit
<1> QED
  BY <1>1, <1>2 DEF EditsInOrder

LEMMA OrderKept ==
  ASSUME EditsInOrder, UNCHANGED <<rows, edit>>, past'.overlap = past.overlap PROVE EditsInOrder'
  BY DEF EditsInOrder, rows

\* One that begins alone finds the rows linked.
LEMMA OrderBegin ==
  ASSUME Local, EditsInOrder, NEW e \in Edits, NEW w, Begin(e, w),
         Linked(users, roles, profiles) => Planned(w, users, roles, profiles)
  PROVE  EditsInOrder'
<1>1. UNCHANGED rows /\ edit' = [edit EXCEPT ![e] = w]
      /\ past' = [past EXCEPT !.overlap = @ \/ \E x \in Edits : edit[x].pc # "idle"]
  BY DEF Begin
<1>2. past \in Past /\ edit \in [Edits -> Edit]
  BY DEF Local, TypeOK
<1>3. past'.overlap = (past.overlap \/ \E x \in Edits : edit[x].pc # "idle")
  BY <1>1, <1>2 DEF Past
<1> SUFFICES ASSUME ~ past.overlap, \A x \in Edits : edit[x].pc = "idle"
             PROVE  EditsInOrder'
  BY <1>3 DEF EditsInOrder
<1>4. Linked(users, roles, profiles)
  BY DEF EditsInOrder
<1>5. \A x \in Edits : edit'[x] = IF x = e THEN w ELSE edit[x]
  BY <1>1, <1>2
<1>6. Linked(users', roles', profiles') /\ Planned(w, users', roles', profiles')
  BY <1>1, <1>4 DEF rows
<1> QED
  BY <1>5, <1>6 DEF EditsInOrder

\* One that writes has the others idle.
LEMMA OrderWrite ==
  ASSUME Local, EditsInOrder, NEW e \in Edits, edit[e].pc # "idle", NEW w, Go(e, w),
         past'.overlap = past.overlap,
         Planned(edit[e], users, roles, profiles) =>
           IF w.pc = "idle" THEN Linked(users', roles', profiles')
           ELSE Planned(w, users', roles', profiles')
  PROVE  EditsInOrder'
<1> SUFFICES ASSUME ~ past.overlap PROVE EditsInOrder'
  BY DEF EditsInOrder
<1>1. edit \in [Edits -> Edit]
  BY DEF Local, TypeOK
<1>2. \A x \in Edits \ {e} : edit[x].pc = "idle"
  BY DEF EditsInOrder
<1>3. Planned(edit[e], users, roles, profiles)
  BY DEF EditsInOrder
<1>4. CASE w.pc = "idle"
  <2>1. \A x \in Edits : edit'[x].pc = "idle"
    BY <1>1, <1>2, <1>4 DEF Go, NoEdit
  <2> QED
    BY <2>1, <1>3, <1>4 DEF EditsInOrder
<1>5. CASE w.pc # "idle"
  <2>1. \A x \in Edits : edit'[x] = IF x = e THEN w ELSE edit[x]
    BY <1>1, <1>5 DEF Go
  <2> QED
    BY <2>1, <1>2, <1>3, <1>5 DEF EditsInOrder
<1> QED
  BY <1>4, <1>5

LEMMA OverlapKept ==
  ASSUME Local, NEW S, past' = [past EXCEPT !.aged = S] PROVE past'.overlap = past.overlap
  BY DEF Local, TypeOK, Past

LEMMA AgeKeepsOverlap == ASSUME Local, Age PROVE past'.overlap = past.overlap
  BY OverlapKept DEF Age

LEMMA RowTyped ==
  ASSUME Local
  PROVE  /\ \A u \in Users : users[u] \in User /\ users[u].role \in Roles /\ users[u].centre \in Centres
         /\ \A r \in Roles : roles[r] \in Role /\ roles[r].profile \in Profiles
         /\ \A p \in Profiles : profiles[p] \in Profile
  BY DEF Local, TypeOK, User, Role

-----------------------------------------------------------------------------
LEMMA OrderCreateUser ==
  ASSUME Local, EditsInOrder, NEW e \in Edits, CreateUser(e) PROVE EditsInOrder'
<1>1. PICK u \in Users, p \in Patches :
        /\ users[u].state = "absent"
        /\ p.role # None /\ p.centre # None /\ Live(roles[p.role])
        /\ assertLinesBelongToCentre(p.lines \ {None}, p.centre)
        /\ Begin(e, [NoEdit EXCEPT
             !.pc = "user", !.insert = TRUE, !.user = u,
             !.urow = [state |-> "live", role |-> p.role, centre |-> p.centre, lines |-> {}],
             !.lines = IF p.lines = {} THEN {None} ELSE p.lines])
  BY DEF CreateUser
<1> DEFINE row == [state |-> "live", role |-> p.role, centre |-> p.centre, lines |-> {}]
           ls == IF p.lines = {} THEN {None} ELSE p.lines
           w == [NoEdit EXCEPT !.pc = "user", !.insert = TRUE, !.user = u, !.urow = row, !.lines = ls]
<1>2. /\ row \in User /\ row # None
      /\ row.state = "live" /\ row.role = p.role /\ row.centre = p.centre
  BY <1>1, PatchTyped, NoneIsNone DEF User, RowStates
<1>3. ls = {None} \/ (ls \in SUBSET Lines /\ assertLinesBelongToCentre(ls, p.centre))
  <2>1. p.lines = {None} \/ p.lines \in SUBSET Lines
    BY PatchTyped
  <2>2. p.lines \in SUBSET Lines => p.lines \ {None} = p.lines
    BY NoneIsNone
  <2> QED
    BY <1>1, <2>1, <2>2
<1>4. Begin(e, w)
  BY <1>1
<1> HIDE DEF row, ls
<1>5. w.pc = "user" /\ w.insert /\ w.user = u /\ w.urow = row /\ w.lines = ls
  BY DEF NoEdit
<1> HIDE DEF w
<1>6. ASSUME Linked(users, roles, profiles) PROVE Planned(w, users, roles, profiles)
  <2> DEFINE fin == FinalRow(w, users[u])
  <2>1. users[u].lines = {}
    BY <1>1, <1>6 DEF Linked, UserOk, Live
  <2>2. /\ fin.state = "live" /\ fin.role = p.role /\ fin.centre = p.centre
        /\ fin.lines = IF ls = {None} THEN {} ELSE ls
    BY <1>2, <1>5, <2>1 DEF FinalRow, User
  <2>3. UserOk(fin, roles)
    BY <1>1, <1>3, <2>2 DEF UserOk, Live, assertLinesBelongToCentre
  <2> HIDE DEF fin
  <2> QED
    BY <1>1, <1>5, <1>6, <2>3 DEF Planned, UserPlan, Linked, fin
<1> QED
  BY <1>4, <1>6, OrderBegin

LEMMA OrderUpdateUser ==
  ASSUME Local, EditsInOrder, NEW e \in Edits, UpdateUser(e) PROVE EditsInOrder'
<1>1. PICK u \in Users, p \in Patches :
        LET row == [users[u] EXCEPT !.role = IF p.role = None THEN @ ELSE p.role,
                                    !.centre = IF p.centre = None THEN @ ELSE p.centre]
            lines == LinesAfter(u, p) IN
        /\ Live(users[u])
        /\ p.role # None => Live(roles[p.role])
        /\ assertLinesBelongToCentre(lines \ {None}, row.centre)
        /\ Begin(e, [NoEdit EXCEPT !.pc = IF lines = {None} THEN "user" ELSE "lines",
                                   !.user = u, !.urow = row, !.lines = lines])
  BY DEF UpdateUser
<1> DEFINE r == IF p.role = None THEN users[u].role ELSE p.role
           c == IF p.centre = None THEN users[u].centre ELSE p.centre
           row == [users[u] EXCEPT !.role = IF p.role = None THEN @ ELSE p.role,
                                   !.centre = IF p.centre = None THEN @ ELSE p.centre]
           ls == LinesAfter(u, p)
           k == IF ls = {None} THEN "user" ELSE "lines"
           w == [NoEdit EXCEPT !.pc = k, !.user = u, !.urow = row, !.lines = ls]
<1>2. users[u] \in User /\ users[u].role \in Roles /\ users[u].centre \in Centres
  BY RowTyped
<1>3. row.state = "live" /\ row.role = r /\ row.centre = c
  BY <1>1, <1>2 DEF User, Live
<1>4. row \in User
  <2>1. row = [users[u] EXCEPT !.role = r, !.centre = c]
    BY <1>2 DEF User
  <2>2. r \in Roles /\ c \in Centres
    BY <1>2, PatchTyped
  <2> HIDE DEF r, c, row
  <2> QED
    BY <2>1, <2>2, <1>2 DEF User
<1>5. \/ ls \in SUBSET Lines /\ assertLinesBelongToCentre(ls, c)
      \/ ls = {None} /\ c = users[u].centre
  <2>1. p.lines = {None} \/ p.lines \in SUBSET Lines
    BY PatchTyped
  <2>2. ls \in SUBSET Lines => ls \ {None} = ls
    BY NoneIsNone
  <2>3. assertLinesBelongToCentre(ls \ {None}, c)
    BY <1>1, <1>3
  <2>4. ls \in SUBSET Lines \/ (ls = {None} /\ c = users[u].centre)
    <3>1. CASE p.lines = {None} /\ p.centre \notin {None, users[u].centre}
      BY <3>1 DEF LinesAfter
    <3>2. CASE p.lines = {None} /\ p.centre \in {None, users[u].centre}
      BY <3>2 DEF LinesAfter
    <3>3. CASE p.lines # {None}
      BY <3>3, <2>1 DEF LinesAfter
    <3> QED
      BY <3>1, <3>2, <3>3
  <2> HIDE DEF ls, c
  <2> QED
    BY <2>2, <2>3, <2>4
<1>6. Begin(e, w)
  BY <1>1
<1>7. k \in {"user", "lines"}
  OBVIOUS
<1> HIDE DEF row, ls, k
<1>8. w.pc = k /\ w.insert = FALSE /\ w.user = u /\ w.urow = row /\ w.lines = ls
  BY DEF NoEdit
<1> HIDE DEF w
<1>9. ASSUME Linked(users, roles, profiles) PROVE Planned(w, users, roles, profiles)
  <2> DEFINE fin == FinalRow(w, users[u])
  <2>1. UserOk(users[u], roles)
    BY <1>9 DEF Linked
  <2>2. Live(roles[r]) /\ assertLinesBelongToCentre(users[u].lines, users[u].centre)
    BY <1>1, <2>1 DEF UserOk
  <2>3. /\ fin.state = "live" /\ fin.role = r /\ fin.centre = c
        /\ fin.lines = IF ls = {None} THEN users[u].lines ELSE ls
    BY <1>3, <1>4, <1>8, NoneIsNone DEF FinalRow, User
  <2>4. UserOk(fin, roles)
    BY <1>5, <2>2, <2>3, NoneIsNone DEF UserOk, Live
  <2> HIDE DEF fin
  <2> QED
    BY <1>7, <1>8, <1>9, <2>4 DEF Planned, UserPlan, Linked, fin
<1> QED
  BY <1>6, <1>9, OrderBegin

LEMMA OrderRemoveUser ==
  ASSUME Local, EditsInOrder, NEW e \in Edits, RemoveUser(e) PROVE EditsInOrder'
<1>1. PICK u \in Users :
        Begin(e, [NoEdit EXCEPT !.pc = "user", !.user = u, !.lines = {},
                                !.urow = [users[u] EXCEPT !.state = "deleted"]])
  BY DEF RemoveUser
<1> DEFINE row == [users[u] EXCEPT !.state = "deleted"]
           w == [NoEdit EXCEPT !.pc = "user", !.user = u, !.lines = {}, !.urow = row]
<1>2. row \in User /\ row # None /\ row.state = "deleted"
  BY RowTyped, NoneIsNone DEF User, RowStates
<1>3. Begin(e, w)
  BY <1>1
<1> HIDE DEF row
<1>4. w.pc = "user" /\ w.insert = FALSE /\ w.user = u /\ w.urow = row /\ w.lines = {}
  BY DEF NoEdit
<1> HIDE DEF w
<1>5. ASSUME Linked(users, roles, profiles) PROVE Planned(w, users, roles, profiles)
  <2> DEFINE fin == FinalRow(w, users[u])
  <2>1. fin.state = "deleted" /\ fin.lines = {}
    BY <1>2, <1>4 DEF FinalRow, User
  <2>2. UserOk(fin, roles)
    BY <2>1 DEF UserOk, Live
  <2> HIDE DEF fin
  <2> QED
    BY <1>4, <1>5, <2>2 DEF Planned, UserPlan, Linked, fin
<1> QED
  BY <1>3, <1>5, OrderBegin

LEMMA OrderSaveLines ==
  ASSUME Local, EditsInOrder, NEW e \in Edits, SaveLines(e) PROVE EditsInOrder'
<1> DEFINE u == edit[e].user
           k == IF edit[e].urow = None THEN "idle" ELSE "user"
           w == [edit[e] EXCEPT !.pc = k, !.lines = {None}]
<1>1. UNCHANGED <<roles, profiles, past>> /\ edit[e].pc = "lines" /\ Go(e, w)
      /\ users' = [users EXCEPT ![u].lines = edit[e].lines]
  BY DEF SaveLines
<1>2. /\ edit[e] \in Edit /\ u \in Users /\ users[u] \in User /\ users \in [Users -> User]
      /\ edit[e].lines # {None} /\ ~ edit[e].insert
      /\ edit[e].urow # None => edit[e].urow \in User
  BY <1>1, EditTyped, RowTyped DEF EditLocal, Local, TypeOK
<1>3. /\ w.pc = k /\ w.user = u /\ w.urow = edit[e].urow /\ w.insert = edit[e].insert
      /\ w.lines = {None}
  BY <1>2 DEF Edit
<1>4. \A v \in Users : users'[v] = IF v = u THEN [users[u] EXCEPT !.lines = edit[e].lines] ELSE users[v]
  BY <1>1, <1>2
<1> DEFINE row == [users[u] EXCEPT !.lines = edit[e].lines]
           fin == FinalRow(edit[e], users[u])
           next == FinalRow(w, row)
<1>5. /\ row.state = users[u].state /\ row.role = users[u].role /\ row.centre = users[u].centre
      /\ row.lines = edit[e].lines
  BY <1>2 DEF User
<1>6. CASE edit[e].urow = None
  <2>1. fin = row
    BY <1>2, <1>6 DEF FinalRow
  <2>2. w.pc = "idle"
    BY <1>3, <1>6
  <2>3. ASSUME Planned(edit[e], users, roles, profiles) PROVE Linked(users', roles', profiles')
    <3>1. UserPlan(edit[e], users, roles, profiles)
      BY <1>1, <2>3 DEF Planned
    <3>2. UserOk(row, roles) /\ \A v \in Users \ {u} : UserOk(users[v], roles)
      BY <2>1, <3>1 DEF UserPlan
    <3> HIDE DEF row, u
    <3>3. \A v \in Users : UserOk(users'[v], roles)
      BY <3>2, <1>4 DEF row
    <3> QED
      BY <1>1, <3>1, <3>3 DEF UserPlan, Linked
  <2> HIDE DEF w
  <2> QED
    BY <1>1, <2>2, <2>3, OrderWrite
<1>7. CASE edit[e].urow # None
  <2>1. /\ next.state = fin.state /\ next.role = fin.role /\ next.centre = fin.centre
        /\ next.lines = fin.lines
    <3> HIDE DEF w, row
    <3>1. fin = [edit[e].urow EXCEPT !.lines = edit[e].lines]
      BY <1>2, <1>7 DEF FinalRow
    <3>2. next = [edit[e].urow EXCEPT !.lines = row.lines]
      BY <1>3, <1>7 DEF FinalRow
    <3> QED
      BY <3>1, <3>2, <1>5
  <2>2. w.pc = "user"
    BY <1>3, <1>7
  <2>3. ASSUME Planned(edit[e], users, roles, profiles) PROVE Planned(w, users', roles', profiles')
    <3>1. UserPlan(edit[e], users, roles, profiles)
      BY <1>1, <2>3 DEF Planned
    <3>2. UserOk(fin, roles) /\ \A v \in Users \ {u} : UserOk(users[v], roles)
      BY <3>1 DEF UserPlan
    <3> HIDE DEF fin, next
    <3>3. UserOk(next, roles)
      BY <2>1, <3>2 DEF UserOk, Live
    <3>4. users'[u] = row
      BY <1>2, <1>4
    <3> HIDE DEF u, w, row
    <3>5. UserOk(FinalRow(w, users'[u]), roles)
      BY <3>3, <3>4 DEF next
    <3>6. \A v \in Users \ {u} : UserOk(users'[v], roles)
      BY <3>2, <1>4
    <3> QED
      BY <1>1, <1>2, <1>3, <2>2, <3>1, <3>5, <3>6 DEF UserPlan, Planned
  <2> HIDE DEF w
  <2> QED
    BY <1>1, <2>2, <2>3, OrderWrite
<1> QED
  BY <1>6, <1>7

LEMMA OrderSaveUser ==
  ASSUME Local, EditsInOrder, NEW e \in Edits, SaveUser(e) PROVE EditsInOrder'
<1> DEFINE u == edit[e].user
           k == IF edit[e].lines = {None} THEN "idle" ELSE "lines"
           w == [edit[e] EXCEPT !.pc = k, !.urow = None, !.insert = FALSE]
<1>1. UNCHANGED <<roles, profiles>> /\ edit[e].pc = "user"
  BY DEF SaveUser
<1>2. /\ edit[e] \in Edit /\ u \in Users /\ users[u] \in User /\ users \in [Users -> User]
      /\ edit[e].urow # None /\ edit[e].urow \in User
  BY <1>1, EditTyped, RowTyped DEF EditLocal, Local, TypeOK
<1>3. CASE /\ edit[e].insert /\ users[u].state # "absent"
           /\ edit' = [edit EXCEPT ![e] = NoEdit]
           /\ UNCHANGED <<users, past>>
  <2>1. past.overlap
    BY <1>1, <1>3 DEF EditsInOrder, Planned, UserPlan
  <2> QED
    BY <2>1, <1>3 DEF EditsInOrder
<1>4. CASE /\ users' = [users EXCEPT ![u] = [edit[e].urow EXCEPT !.lines = users[u].lines]]
           /\ Go(e, w) /\ Age
  <2>1. past'.overlap = past.overlap
    BY <1>4, AgeKeepsOverlap
  <2>2. w.pc = k /\ w.user = u /\ w.urow = None /\ w.insert = FALSE /\ w.lines = edit[e].lines
    BY <1>2 DEF Edit
  <2> DEFINE row == [edit[e].urow EXCEPT !.lines = users[u].lines]
             fin == FinalRow(edit[e], users[u])
             next == FinalRow(w, row)
  <2>3. \A v \in Users : users'[v] = IF v = u THEN row ELSE users[v]
    BY <1>2, <1>4
  <2>4. /\ row.state = edit[e].urow.state /\ row.role = edit[e].urow.role
        /\ row.centre = edit[e].urow.centre /\ row.lines = users[u].lines
    BY <1>2 DEF User
  <2>5. CASE edit[e].lines = {None}
    <3>1. fin = row
      BY <1>2, <2>5 DEF FinalRow
    <3>2. w.pc = "idle"
      BY <2>2, <2>5
    <3>3. ASSUME Planned(edit[e], users, roles, profiles) PROVE Linked(users', roles', profiles')
      <4>1. UserPlan(edit[e], users, roles, profiles)
        BY <1>1, <3>3 DEF Planned
      <4>2. UserOk(row, roles) /\ \A v \in Users \ {u} : UserOk(users[v], roles)
        BY <3>1, <4>1 DEF UserPlan
      <4> HIDE DEF row, u
      <4>3. \A v \in Users : UserOk(users'[v], roles)
        BY <4>2, <2>3
      <4> QED
        BY <1>1, <4>1, <4>3 DEF UserPlan, Linked
    <3> HIDE DEF w
    <3> QED
      BY <1>1, <1>4, <2>1, <3>2, <3>3, OrderWrite
  <2>6. CASE edit[e].lines # {None}
    <3>1. /\ next.state = fin.state /\ next.role = fin.role /\ next.centre = fin.centre
          /\ next.lines = fin.lines
      <4>0. row \in User
        <5>1. users[u].lines \in SUBSET Lines
          BY <1>2 DEF User
        <5> QED
          BY <5>1, <1>2 DEF User
      <4> HIDE DEF w, row
      <4>1. fin = [edit[e].urow EXCEPT !.lines = edit[e].lines]
        BY <1>2, <2>6 DEF FinalRow
      <4>2. next = [row EXCEPT !.lines = edit[e].lines]
        BY <2>2, <2>6 DEF FinalRow
      <4> QED
        BY <4>0, <4>1, <4>2, <2>4, <1>2 DEF User
    <3>2. w.pc = "lines"
      BY <2>2, <2>6
    <3>3. ASSUME Planned(edit[e], users, roles, profiles) PROVE Planned(w, users', roles', profiles')
      <4>1. UserPlan(edit[e], users, roles, profiles)
        BY <1>1, <3>3 DEF Planned
      <4>2. UserOk(fin, roles) /\ \A v \in Users \ {u} : UserOk(users[v], roles)
        BY <4>1 DEF UserPlan
      <4> HIDE DEF fin, next
      <4>3. UserOk(next, roles)
        BY <3>1, <4>2 DEF UserOk, Live
      <4>4. users'[u] = row
        BY <1>2, <2>3
      <4> HIDE DEF u, w, row
      <4>5. UserOk(FinalRow(w, users'[u]), roles)
        BY <4>3, <4>4 DEF next
      <4>6. \A v \in Users \ {u} : UserOk(users'[v], roles)
        BY <4>2, <2>3
      <4> QED
        BY <1>1, <2>2, <3>2, <4>1, <4>5, <4>6 DEF UserPlan, Planned
    <3> HIDE DEF w
    <3> QED
      BY <1>1, <1>4, <2>1, <3>2, <3>3, OrderWrite
  <2> QED
    BY <2>5, <2>6
<1> QED
  BY <1>3, <1>4 DEF SaveUser

-----------------------------------------------------------------------------
LEMMA OrderCreateRole ==
  ASSUME Local, EditsInOrder, NEW e \in Edits, CreateRole(e) PROVE EditsInOrder'
<1>1. PICK r \in Roles, p \in RolePatches :
        /\ Live(profiles[p.profile])
        /\ Begin(e, [NoEdit EXCEPT
             !.pc = "role", !.insert = TRUE, !.role = r,
             !.rrow = [state |-> "live", scope |-> p.scope,
                       admin |-> p.scope = "centre" /\ p.admin, profile |-> p.profile]])
  BY DEF CreateRole
<1> DEFINE row == [state |-> "live", scope |-> p.scope,
                   admin |-> p.scope = "centre" /\ p.admin, profile |-> p.profile]
           w == [NoEdit EXCEPT !.pc = "role", !.insert = TRUE, !.role = r, !.rrow = row]
<1>2. row.state = "live" /\ row.profile = p.profile
  OBVIOUS
<1>3. Begin(e, w)
  BY <1>1
<1> HIDE DEF row
<1>4. w.pc = "role" /\ w.rrow = row
  BY DEF NoEdit
<1> HIDE DEF w
<1>5. ASSUME Linked(users, roles, profiles) PROVE Planned(w, users, roles, profiles)
  BY <1>1, <1>2, <1>4, <1>5 DEF Planned, RolePlan, Live
<1> QED
  BY <1>3, <1>5, OrderBegin

LEMMA OrderUpdateRole ==
  ASSUME Local, EditsInOrder, NEW e \in Edits, UpdateRole(e) PROVE EditsInOrder'
<1>1. PICK r \in Roles, p \in RolePatches :
        LET row == [roles[r] EXCEPT !.scope = p.scope, !.admin = p.scope = "centre" /\ p.admin,
                                    !.profile = p.profile] IN
        /\ Live(roles[r])
        /\ Live(profiles[p.profile])
        /\ Begin(e, IF p.access = "same" THEN [NoEdit EXCEPT !.pc = "role", !.role = r, !.rrow = row]
                    ELSE [NoEdit EXCEPT !.pc = "profile", !.role = r, !.rrow = row, !.drop = TRUE,
                            !.profile = p.profile,
                            !.prow = [profiles[p.profile] EXCEPT !.access = p.access]])
  BY DEF UpdateRole
<1> DEFINE row == [roles[r] EXCEPT !.scope = p.scope, !.admin = p.scope = "centre" /\ p.admin,
                                   !.profile = p.profile]
           prow == [profiles[p.profile] EXCEPT !.access = p.access]
           v == [NoEdit EXCEPT !.pc = "role", !.role = r, !.rrow = row]
           w == [NoEdit EXCEPT !.pc = "profile", !.role = r, !.rrow = row, !.drop = TRUE,
                         !.profile = p.profile, !.prow = prow]
<1>2. row.state = "live" /\ row.profile = p.profile
  BY <1>1, RowTyped DEF Role, Live
<1>3. prow.state = "live"
  BY <1>1, RowTyped, RolePatchTyped DEF Profile, Live
<1>4. CASE p.access = "same"
  <2>1. Begin(e, v)
    BY <1>1, <1>4
  <2> HIDE DEF row
  <2>2. v.pc = "role" /\ v.rrow = row
    BY DEF NoEdit
  <2> HIDE DEF v
  <2>3. ASSUME Linked(users, roles, profiles) PROVE Planned(v, users, roles, profiles)
    BY <1>1, <1>2, <2>2, <2>3 DEF Planned, RolePlan, Live
  <2> QED
    BY <2>1, <2>3, OrderBegin
<1>5. CASE p.access # "same"
  <2>1. Begin(e, w)
    BY <1>1, <1>5
  <2> HIDE DEF row, prow
  <2>2. w.pc = "profile" /\ w.rrow = row /\ w.prow = prow
    BY DEF NoEdit
  <2> HIDE DEF w
  <2>3. ASSUME Linked(users, roles, profiles) PROVE Planned(w, users, roles, profiles)
    BY <1>1, <1>2, <1>3, <2>2, <2>3 DEF Planned, RolePlan, Live
  <2> QED
    BY <2>1, <2>3, OrderBegin
<1> QED
  BY <1>4, <1>5

LEMMA OrderRemoveRole ==
  ASSUME Local, EditsInOrder, NEW e \in Edits, RemoveRole(e) PROVE EditsInOrder'
<1>1. PICK r \in Roles :
        /\ Unused(r)
        /\ Begin(e, [NoEdit EXCEPT !.pc = "role", !.role = r,
                                   !.rrow = [roles[r] EXCEPT !.state = "deleted"]])
  BY DEF RemoveRole
<1> DEFINE row == [roles[r] EXCEPT !.state = "deleted"]
           w == [NoEdit EXCEPT !.pc = "role", !.role = r, !.rrow = row]
<1>2. row.state = "deleted"
  BY RowTyped DEF Role
<1>3. Begin(e, w)
  BY <1>1
<1> HIDE DEF row
<1>4. w.pc = "role" /\ w.rrow = row /\ w.role = r
  BY DEF NoEdit
<1> HIDE DEF w
<1>5. ASSUME Linked(users, roles, profiles) PROVE Planned(w, users, roles, profiles)
  BY <1>1, <1>2, <1>4, <1>5 DEF Planned, RolePlan, Live, Unused
<1> QED
  BY <1>3, <1>5, OrderBegin

LEMMA OrderProfileRequests ==
  ASSUME Local, EditsInOrder, NEW e \in Edits, CreateProfile(e) \/ EditProfile(e) \/ RemoveProfile(e)
  PROVE  EditsInOrder'
<1>0. \A p \in Profiles : profiles[p] \in Profile
  BY RowTyped
<1>1. CASE CreateProfile(e)
  <2>1. PICK p \in Profiles, a \in {"full", "narrow"} :
          Begin(e, [NoEdit EXCEPT !.pc = "profile", !.profile = p,
                                  !.prow = [state |-> "live", access |-> a, active |-> TRUE]])
    BY <1>1 DEF CreateProfile
  <2> DEFINE row == [state |-> "live", access |-> a, active |-> TRUE]
             w == [NoEdit EXCEPT !.pc = "profile", !.profile = p, !.prow = row]
  <2>2. row.state = "live" /\ Begin(e, w)
    BY <2>1
  <2> HIDE DEF row
  <2>3. w.pc = "profile" /\ w.rrow = None /\ w.prow = row
    BY DEF NoEdit
  <2> HIDE DEF w
  <2>4. ASSUME Linked(users, roles, profiles) PROVE Planned(w, users, roles, profiles)
    BY <2>2, <2>3, <2>4 DEF Planned, RolePlan, Live
  <2> QED
    BY <2>2, <2>4, OrderBegin
<1>2. CASE EditProfile(e)
  <2>1. PICK p \in Profiles, a \in {"full", "narrow"}, act \in BOOLEAN, d \in BOOLEAN :
          /\ Live(profiles[p])
          /\ Begin(e, [NoEdit EXCEPT !.pc = "profile", !.profile = p, !.drop = d,
                                     !.prow = [profiles[p] EXCEPT !.access = a, !.active = act]])
    BY <1>2 DEF EditProfile
  <2> DEFINE row == [profiles[p] EXCEPT !.access = a, !.active = act]
             w == [NoEdit EXCEPT !.pc = "profile", !.profile = p, !.drop = d, !.prow = row]
  <2>2. row.state = "live"
    BY <1>0, <2>1 DEF Profile, Live
  <2>3. Begin(e, w)
    BY <2>1
  <2> HIDE DEF row
  <2>4. w.pc = "profile" /\ w.rrow = None /\ w.prow = row
    BY DEF NoEdit
  <2> HIDE DEF w
  <2>5. ASSUME Linked(users, roles, profiles) PROVE Planned(w, users, roles, profiles)
    BY <2>2, <2>4, <2>5 DEF Planned, RolePlan, Live
  <2> QED
    BY <2>3, <2>5, OrderBegin
<1>3. CASE RemoveProfile(e)
  <2>1. PICK p \in Profiles :
          /\ ~ \E r \in Roles : Live(roles[r]) /\ roles[r].profile = p
          /\ Begin(e, [NoEdit EXCEPT !.pc = "profile", !.profile = p,
                                     !.prow = [profiles[p] EXCEPT !.state = "deleted"]])
    BY <1>3 DEF RemoveProfile
  <2> DEFINE row == [profiles[p] EXCEPT !.state = "deleted"]
             w == [NoEdit EXCEPT !.pc = "profile", !.profile = p, !.prow = row]
  <2>2. Begin(e, w)
    BY <2>1
  <2> HIDE DEF row
  <2>3. w.pc = "profile" /\ w.rrow = None /\ w.profile = p
    BY DEF NoEdit
  <2> HIDE DEF w
  <2>4. ASSUME Linked(users, roles, profiles) PROVE Planned(w, users, roles, profiles)
    BY <2>1, <2>3, <2>4 DEF Planned, RolePlan
  <2> QED
    BY <2>2, <2>4, OrderBegin
<1> QED
  BY <1>1, <1>2, <1>3

\* The profile is written: the roles that have it, now or soon, keep it live.
LEMMA OrderSaveProfile ==
  ASSUME Local, EditsInOrder, NEW e \in Edits, SaveProfile(e) PROVE EditsInOrder'
<1> DEFINE k == IF edit[e].drop THEN "drop" ELSE "idle"
           w == [edit[e] EXCEPT !.pc = k, !.prow = None]
           f == edit[e].profile
<1>1. UNCHANGED <<users, roles>> /\ edit[e].pc = "profile" /\ Go(e, w)
      /\ profiles' = [profiles EXCEPT ![f] = edit[e].prow]
  BY DEF SaveProfile
<1>2. past'.overlap = past.overlap
  <2>1. past' = past \/ Age
    BY DEF SaveProfile
  <2> QED
    BY <2>1, AgeKeepsOverlap
<1>3. edit[e] \in Edit /\ f \in Profiles /\ profiles \in [Profiles -> Profile]
  BY <1>1, EditTyped DEF Local, TypeOK
<1>4. w.pc = k /\ w.rrow = edit[e].rrow /\ w.role = edit[e].role
  BY <1>3 DEF Edit
<1>5. \A p \in Profiles : profiles'[p] = IF p = f THEN edit[e].prow ELSE profiles[p]
  BY <1>1, <1>3
<1>6. k \in {"drop", "idle"}
  OBVIOUS
<1> HIDE DEF k, w
<1>7. ASSUME Planned(edit[e], users, roles, profiles)
      PROVE  /\ Linked(users', roles', profiles')
             /\ w.pc # "idle" => Planned(w, users', roles', profiles')
  <2>1. RolePlan(edit[e], users, roles, profiles)
    BY <1>1, <1>7 DEF Planned
  <2>2. \A r \in Roles : Live(roles[r]) => Live(profiles'[roles[r].profile])
    <3>1. TAKE r \in Roles
    <3>2. HAVE Live(roles[r])
    <3>3. roles[r].profile \in Profiles
      BY RowTyped
    <3>4. CASE roles[r].profile = f
      BY <3>2, <3>3, <3>4, <2>1, <1>1, <1>5 DEF RolePlan
    <3>5. CASE roles[r].profile # f
      BY <3>2, <3>3, <3>5, <2>1, <1>5 DEF RolePlan, Linked, RolesOk
    <3> QED
      BY <3>4, <3>5
  <2>3. Linked(users', roles', profiles')
    BY <2>1, <2>2, <1>1 DEF RolePlan, Linked, RolesOk
  <2>4. edit[e].rrow # None /\ Live(edit[e].rrow) => Live(profiles'[edit[e].rrow.profile])
    <3>1. HAVE edit[e].rrow # None /\ Live(edit[e].rrow)
    <3>2. edit[e].rrow \in Role
      BY <3>1, <1>3 DEF Edit
    <3>3. edit[e].rrow.profile \in Profiles
      BY <3>2 DEF Role
    <3>4. CASE edit[e].rrow.profile = f
      BY <3>1, <3>3, <3>4, <2>1, <1>1, <1>5 DEF RolePlan
    <3>5. CASE edit[e].rrow.profile # f
      BY <3>1, <3>3, <3>5, <2>1, <1>5 DEF RolePlan
    <3> QED
      BY <3>4, <3>5
  <2>5. w.pc # "idle" => Planned(w, users', roles', profiles')
    <3>1. HAVE w.pc # "idle"
    <3>2. w.pc = "drop"
      BY <3>1, <1>4, <1>6
    <3>3. RolePlan(w, users', roles', profiles')
      BY <1>1, <1>4, <3>2, <2>1, <2>3, <2>4 DEF RolePlan
    <3> QED
      BY <3>2, <3>3 DEF Planned
  <2> QED
    BY <2>3, <2>5
<1> QED
  BY <1>1, <1>2, <1>7, OrderWrite

LEMMA OrderDrop ==
  ASSUME Local, EditsInOrder, NEW e \in Edits, Drop(e) PROVE EditsInOrder'
<1> DEFINE k == IF edit[e].rrow = None THEN "idle" ELSE "role"
           w == [edit[e] EXCEPT !.pc = k, !.profile = None, !.drop = FALSE]
<1>1. UNCHANGED <<users, roles, profiles>> /\ edit[e].pc = "drop" /\ Go(e, w)
  BY DEF Drop, rows
<1>2. past'.overlap = past.overlap
  BY DEF Drop, Local, TypeOK, Past
<1>3. edit[e] \in Edit
  BY EditTyped
<1>4. w.pc = k /\ w.rrow = edit[e].rrow /\ w.role = edit[e].role
  BY <1>3 DEF Edit
<1>5. k \in {"idle", "role"}
  OBVIOUS
<1> HIDE DEF k, w
<1>6. ASSUME Planned(edit[e], users, roles, profiles)
      PROVE  /\ Linked(users', roles', profiles')
             /\ w.pc # "idle" => Planned(w, users', roles', profiles')
  <2>1. RolePlan(edit[e], users, roles, profiles)
    BY <1>1, <1>6 DEF Planned
  <2>2. Linked(users', roles', profiles')
    BY <2>1, <1>1 DEF RolePlan
  <2>3. w.pc # "idle" => RolePlan(w, users', roles', profiles') /\ w.pc = "role"
    BY <1>1, <1>4, <1>5, <2>1, <2>2 DEF RolePlan
  <2> QED
    BY <2>2, <2>3 DEF Planned
<1> QED
  BY <1>1, <1>2, <1>6, OrderWrite

\* The role is written, unless another row has its name or its profile.
LEMMA OrderSaveRole ==
  ASSUME Local, EditsInOrder, NEW e \in Edits, SaveRole(e) PROVE EditsInOrder'
<1> DEFINE r == edit[e].role
           row == edit[e].rrow
<1>1. UNCHANGED <<users, profiles>> /\ edit[e].pc = "role" /\ edit' = [edit EXCEPT ![e] = NoEdit]
  BY DEF SaveRole
<1>2. past'.overlap = past.overlap
  <2>1. past' = past \/ Age
    BY DEF SaveRole
  <2> QED
    BY <2>1, AgeKeepsOverlap
<1>3. edit[e] \in Edit /\ r \in Roles /\ row \in Role /\ row # None /\ roles \in [Roles -> Role]
  BY <1>1, EditTyped, NoneIsNone DEF Local, TypeOK
<1>4. \/ roles' = roles
      \/ /\ roles' = [roles EXCEPT ![r] = row]
         /\ ~ \E x \in Roles \ {r} : roles[x].state # "absent" /\ roles[x].profile = row.profile
  BY DEF SaveRole
<1>5. Go(e, NoEdit) /\ NoEdit.pc = "idle"
  BY <1>1 DEF Go, NoEdit
<1>6. ASSUME Planned(edit[e], users, roles, profiles) PROVE Linked(users', roles', profiles')
  <2>1. RolePlan(edit[e], users, roles, profiles)
    BY <1>1, <1>6 DEF Planned
  <2>2. CASE roles' = roles
    BY <2>1, <2>2, <1>1 DEF RolePlan
  <2>3. CASE /\ roles' = [roles EXCEPT ![r] = row]
             /\ ~ \E x \in Roles \ {r} : roles[x].state # "absent" /\ roles[x].profile = row.profile
    <3>1. \A x \in Roles : roles'[x] = IF x = r THEN row ELSE roles[x]
      BY <2>3, <1>3
    <3> HIDE DEF r, row
    <3>2. \A x \in Roles \ {r} : Live(roles[x]) => roles[x].profile # row.profile
      BY <2>3 DEF Live
    <3>3. /\ Linked(users, roles, profiles)
          /\ IF Live(row) THEN Live(profiles[row.profile])
             ELSE \A u \in Users : ~ (Live(users[u]) /\ users[u].role = r)
      BY <2>1, <1>3 DEF RolePlan, r, row
    <3>4. RolesOk(roles', profiles)
      <4>1. \A x \in Roles : Live(roles'[x]) => Live(profiles[roles'[x].profile])
        BY <3>1, <3>3 DEF Linked, RolesOk
      <4>2. \A x, q \in Roles : x # q /\ Live(roles'[x]) /\ Live(roles'[q])
                                  => roles'[x].profile # roles'[q].profile
        <5>1. TAKE x, q \in Roles
        <5>2. CASE x = r \/ q = r
          BY <5>2, <3>1, <3>2
        <5>3. CASE x # r /\ q # r
          BY <5>3, <3>1, <3>3 DEF Linked, RolesOk
        <5> QED
          BY <5>2, <5>3
      <4> QED
        BY <4>1, <4>2 DEF RolesOk
    <3>5. \A u \in Users : UserOk(users[u], roles')
      <4>1. TAKE u \in Users
      <4>2. UserOk(users[u], roles) /\ users[u].role \in Roles
        BY <3>3, RowTyped DEF Linked
      <4>3. Live(users[u]) => Live(roles'[users[u].role])
        BY <4>2, <3>1, <3>3 DEF UserOk
      <4> QED
        BY <4>2, <4>3 DEF UserOk
    <3> QED
      BY <3>4, <3>5, <1>1 DEF Linked
  <2> QED
    BY <2>2, <2>3, <1>4
<1> QED
  BY <1>1, <1>2, <1>5, <1>6, OrderWrite

LEMMA OrderAuth ==
  ASSUME Local, EditsInOrder, Expire \/ \E t \in Tabs : AuthRequest(t) PROVE EditsInOrder'
<1>1. past \in Past
  BY DEF Local, TypeOK
<1>2. CASE Expire
  BY <1>1, <1>2, OrderKept DEF Expire, Past
<1>3. ASSUME NEW t \in Tabs, AuthRequest(t) PROVE EditsInOrder'
  <2>1. CASE Login(t) \/ Refresh(t) \/ ReadUser(t) \/ Answer(t) \/ EnterLogout(t)
    BY <2>1, OrderKept DEF Login, Refresh, ReadUser, Answer, EnterLogout
  <2>2. CASE IssueTokens(t) \/ Logout(t) \/ LoseAnswer(t)
    <3>1. UNCHANGED <<rows, edit>>
      BY <2>2 DEF IssueTokens, Logout, LoseAnswer
    <3>2. past'.overlap = past.overlap
      BY <2>2, <1>1 DEF IssueTokens, Logout, LoseAnswer, Past
    <3> QED
      BY <3>1, <3>2, OrderKept
  <2> QED
    BY <1>3, <2>1, <2>2 DEF AuthRequest
<1> QED
  BY <1>2, <1>3

LEMMA OrderStep == Local /\ EditsInOrder /\ [Next]_vars => EditsInOrder'
<1> SUFFICES ASSUME Local, EditsInOrder, [Next]_vars PROVE EditsInOrder'
  OBVIOUS
<1>1. CASE UNCHANGED vars
  BY <1>1, OrderKept DEF vars, rows
<1>2. CASE Expire \/ \E t \in Tabs : AuthRequest(t)
  BY <1>2, OrderAuth
<1>3. ASSUME NEW e \in Edits, UserRequest(e) PROVE EditsInOrder'
  BY <1>3, OrderCreateUser, OrderUpdateUser, OrderRemoveUser, OrderSaveLines, OrderSaveUser
  DEF UserRequest
<1>4. ASSUME NEW e \in Edits, RoleRequest(e) PROVE EditsInOrder'
  BY <1>4, OrderCreateRole, OrderUpdateRole, OrderRemoveRole, OrderSaveRole DEF RoleRequest
<1>5. ASSUME NEW e \in Edits, ProfileRequest(e) PROVE EditsInOrder'
  BY <1>5, OrderProfileRequests, OrderSaveProfile DEF ProfileRequest
<1>6. ASSUME NEW e \in Edits, Drop(e) PROVE EditsInOrder'
  BY <1>6, OrderDrop
<1>7. ASSUME NEW e \in Edits, Abandon(e) PROVE EditsInOrder'
  BY <1>7 DEF Abandon, EditsInOrder, Local, TypeOK, Past
<1> QED
  BY <1>1, <1>2, <1>3, <1>4, <1>5, <1>6, <1>7 DEF Next

\* Whatever edits and sessions do, a behaviour keeps its types, and as long as
\* edits neither overlap nor stop half way, every user has a live role, every role
\* a live profile that is its alone, and every user lines of its centre only: the
\* checks of UsersService, RolesService and PermissionService suffice.
THEOREM AccessInvHolds == Spec => []AccessInv
<1>1. Init => Local /\ EditsInOrder
  BY LocalInit, OrderInit
<1>2. Local /\ EditsInOrder /\ [Next]_vars => (Local /\ EditsInOrder)'
  BY LocalStep, OrderStep
<1>3. Local /\ EditsInOrder => AccessInv
  BY LinkedIs DEF Local, EditsInOrder, AccessInv, RolesBacked, LinesOfCentre, Quiet
<1> QED
  BY <1>1, <1>2, <1>3, PTL DEF Spec

-----------------------------------------------------------------------------
(* Tokens.  A card is a pair of tokens with its session and its user, in    *)
(* the row of the session, in the browser or with a request on its way.     *)
(* Cards of one session are of one user, and a token is of one session.     *)

CardIn(ses, held, tabs, u, s, k) ==
  \/ ses[s].user = u /\ ses[s].token = k
  \/ held.user = u /\ held.session = s /\ held.token = k
  \/ \E t \in Tabs : /\ tabs[t].pc # "idle" /\ tabs[t].user = u
                     /\ tabs[t].session = s /\ tabs[t].token = k

Match(ses, held, tabs, n) ==
  /\ \A u \in Users, s \in Tokens, k \in Tokens : CardIn(ses, held, tabs, u, s, k) => s <= n /\ k <= n
  /\ \A u, v \in Users, s, z \in Tokens, k, l \in Tokens :
       CardIn(ses, held, tabs, u, s, k) /\ CardIn(ses, held, tabs, v, z, l)
         => (s = z => u = v) /\ (k = l => s = z)

RowsWhole ==
  \A s \in Tokens : IF sessions[s].user = None THEN sessions[s] = NoSession ELSE sessions[s].token # 0

\* A session that somebody has a card of has its row, unless it was signed out.
CardsBacked ==
  \A u \in Users, s \in Tokens, k \in Tokens :
    CardIn(sessions, hold, tab, u, s, k) /\ sessions[s].user = None => s \in past.crossed

Marked == \A s \in past.out \union past.crossed : s <= issued

\* An answer on its way is the only one to know its tokens, and they are good.
AnswersFresh ==
  \A t \in Tabs : tab[t].pc = "answer" =>
    /\ hold.token # tab[t].token
    /\ \A x \in Tabs \ {t} : tab[x].pc # "idle" => tab[x].token # tab[t].token

AnswersGood ==
  \A t \in Tabs : tab[t].pc = "answer" /\ tab[t].session \notin past.out \union past.crossed
    => Valid(tab[t].session, tab[t].token)

OutAtRest == \A s \in past.out \ past.crossed : ~ sessions[s].active /\ ~ InFlight(s)

Tokenwise ==
  /\ Match(sessions, hold, tab, issued) /\ RowsWhole /\ CardsBacked /\ Marked
  /\ AnswersFresh /\ AnswersGood /\ OutAtRest /\ StaysLoggedIn

LEMMA IssuedTyped ==
  ASSUME Local
  PROVE  /\ issued \in Nat /\ Tokens \subseteq Nat /\ 0 \notin Tokens
         /\ issued < MaxTokens => issued + 1 \in Tokens
         /\ \A s \in Tokens : s # issued + 1 \/ ~ (s <= issued)
<1>1. issued \in 0 .. MaxTokens /\ MaxTokens \in Nat
  BY AccessAssumption DEF Local, TypeOK
<1>2. Tokens = 1 .. MaxTokens
  BY DEF Tokens
<1> QED
  BY <1>1, <1>2

LEMMA PastTyped ==
  ASSUME Local
  PROVE  past \in Past /\ past.out \in SUBSET Tokens /\ past.crossed \in SUBSET Tokens
         /\ past.aged \in SUBSET Tokens
  BY DEF Local, TypeOK, Past

LEMMA SessionTyped ==
  ASSUME Local
  PROVE  /\ sessions \in [Tokens -> Session]
         /\ \A s \in Tokens : /\ sessions[s] \in Session /\ sessions[s].user \in Users \union {None}
                              /\ sessions[s].token \in Tokens \union {0}
                              /\ sessions[s].active \in BOOLEAN /\ sessions[s].fresh \in BOOLEAN
  BY DEF Local, TypeOK, Session

LEMMA TokensInit == Init => Tokenwise
<1> SUFFICES ASSUME Init PROVE Tokenwise
  OBVIOUS
<1>1. /\ \A t \in Tabs : tab[t].pc = "idle"
      /\ hold = NoHold /\ hold.user = None
      /\ \A s \in Tokens : sessions[s] = NoSession /\ sessions[s].user = None
      /\ past.out = {} /\ past.crossed = {} /\ issued = 0
  BY DEF Init, NoTab, NoHold, NoSession
<1>2. \A s \in Tokens : ~ (s <= 0)
  BY AccessAssumption DEF Tokens
<1>3. Match(sessions, hold, tab, issued) /\ CardsBacked
  BY <1>1, NoneIsNone DEF Match, CardIn, CardsBacked
<1> QED
  BY <1>1, <1>2, <1>3 DEF Tokenwise, RowsWhole, Marked, AnswersFresh, AnswersGood, OutAtRest,
     StaysLoggedIn, InFlight

\* Fewer cards match as before.
LEMMA MatchKept ==
  ASSUME NEW ses, NEW hd, NEW ts, NEW ses2, NEW hd2, NEW ts2, NEW n, Match(ses, hd, ts, n),
         \A u \in Users, s \in Tokens, k \in Tokens :
           CardIn(ses2, hd2, ts2, u, s, k) => CardIn(ses, hd, ts, u, s, k)
  PROVE  Match(ses2, hd2, ts2, n)
  BY DEF Match

\* A new token goes to one session, new or of the same user.
LEMMA MatchGrows ==
  ASSUME NEW ses, NEW hd, NEW ts, NEW ses2, NEW hd2, NEW ts2, NEW n \in Nat, Match(ses, hd, ts, n),
         Tokens \subseteq Nat, n + 1 \in Tokens, NEW v \in Users, NEW z \in Tokens,
         z = n + 1 \/ \E l \in Tokens : CardIn(ses, hd, ts, v, z, l),
         \A u \in Users, s \in Tokens, k \in Tokens :
           CardIn(ses2, hd2, ts2, u, s, k) =>
             CardIn(ses, hd, ts, u, s, k) \/ (u = v /\ s = z /\ k = n + 1)
  PROVE  Match(ses2, hd2, ts2, n + 1)
<1>1. \A u \in Users, s \in Tokens, k \in Tokens : CardIn(ses, hd, ts, u, s, k) => s <= n /\ k <= n
  BY DEF Match
<1>2. z <= n + 1
  BY <1>1
<1>3. \A u \in Users, s \in Tokens, k \in Tokens :
        CardIn(ses2, hd2, ts2, u, s, k) => s <= n + 1 /\ k <= n + 1
  <2>1. TAKE u \in Users, s \in Tokens, k \in Tokens
  <2>2. HAVE CardIn(ses2, hd2, ts2, u, s, k)
  <2>3. CardIn(ses, hd, ts, u, s, k) => s <= n /\ k <= n
    BY <1>1
  <2>4. s \in Nat /\ k \in Nat
    OBVIOUS
  <2> QED
    BY <1>2, <2>2, <2>3, <2>4
\* An old card and the new one.
<1>4. ASSUME NEW u \in Users, NEW s \in Tokens, NEW k \in Tokens, CardIn(ses, hd, ts, u, s, k)
      PROVE  (s = z => u = v) /\ k # n + 1
  <2>1. s <= n /\ k <= n /\ s \in Nat /\ k \in Nat
    BY <1>1, <1>4
  <2>2. ASSUME s = z PROVE u = v
    <3>1. z # n + 1
      BY <2>1, <2>2
    <3>2. PICK l \in Tokens : CardIn(ses, hd, ts, v, z, l)
      BY <3>1
    <3> QED
      BY <1>4, <2>2, <3>2 DEF Match
  <2> QED
    BY <2>1, <2>2
<1>5. ASSUME NEW u \in Users, NEW w \in Users, NEW s \in Tokens, NEW x \in Tokens,
             NEW k \in Tokens, NEW l \in Tokens,
             CardIn(ses2, hd2, ts2, u, s, k), CardIn(ses2, hd2, ts2, w, x, l)
      PROVE  (s = x => u = w) /\ (k = l => s = x)
  <2>1. CASE CardIn(ses, hd, ts, u, s, k) /\ CardIn(ses, hd, ts, w, x, l)
    BY <2>1 DEF Match
  <2>2. CASE CardIn(ses, hd, ts, u, s, k) /\ w = v /\ x = z /\ l = n + 1
    BY <2>2, <1>4
  <2>3. CASE CardIn(ses, hd, ts, w, x, l) /\ u = v /\ s = z /\ k = n + 1
    BY <2>3, <1>4
  <2>4. CASE u = v /\ s = z /\ k = n + 1 /\ w = v /\ x = z /\ l = n + 1
    BY <2>4
  <2> QED
    BY <1>5, <2>1, <2>2, <2>3, <2>4
<1> QED
  BY <1>3, <1>5 DEF Match

\* The cards of the browser and of a request.
LEMMA HeldCard ==
  ASSUME Local, hold # NoHold
  PROVE  /\ hold.user \in Users /\ hold.session \in Tokens /\ hold.token \in Tokens
         /\ CardIn(sessions, hold, tab, hold.user, hold.session, hold.token)
  BY HeldTyped DEF CardIn

LEMMA TabCard ==
  ASSUME Local, NEW t \in Tabs, tab[t].pc # "idle", tab[t].session # 0
  PROVE  /\ tab[t].user \in Users /\ tab[t].session \in Tokens /\ tab[t].token \in Tokens
         /\ CardIn(sessions, hold, tab, tab[t].user, tab[t].session, tab[t].token)
  BY TabTyped DEF CardIn

LEMMA RowCard ==
  ASSUME Local, RowsWhole, NEW s \in Tokens, sessions[s].user # None
  PROVE  /\ sessions[s].user \in Users /\ sessions[s].token \in Tokens
         /\ CardIn(sessions, hold, tab, sessions[s].user, s, sessions[s].token)
  BY SessionTyped DEF CardIn, RowsWhole

-----------------------------------------------------------------------------
(* What a step does to the tokens.                                         *)

LEMMA TokensKept ==
  ASSUME Tokenwise, UNCHANGED <<sessions, hold, tab, issued>>,
         past'.out = past.out, past'.crossed = past.crossed
  PROVE  Tokenwise'
  BY DEF Tokenwise, RowsWhole, CardsBacked, Marked, AnswersFresh, AnswersGood, OutAtRest, StaysLoggedIn, Valid, InFlight

\* A request that makes no token moves on, or the browser drops what it holds.
LEMMA TokensMove ==
  ASSUME Local, Tokenwise, NEW t \in Tabs, NEW q, tab' = [tab EXCEPT ![t] = q],
         UNCHANGED <<sessions, issued, past>>, hold' \in {hold, NoHold},
         tab[t].pc # "answer", q.pc # "answer",
         q.pc # "idle" =>
           /\ q.session # 0 => CardIn(sessions, hold, tab, q.user, q.session, q.token)
           /\ q.session = 0 => q.token = 0
           /\ \A a \in Tabs \ {t} : tab[a].pc = "answer" => q.token # tab[a].token,
         q.pc \in {"user", "issue"} => q.session \notin past.out \ past.crossed
  PROVE  Tokenwise'
<1>1. \A x \in Tabs : tab'[x] = IF x = t THEN q ELSE tab[x]
  BY DEF Local, TypeOK
<1>2. 0 \notin Tokens
  BY IssuedTyped
<1>3. NoHold.user = None /\ NoHold.token = 0
  BY DEF NoHold
<1>4. Match(sessions', hold', tab', issued') /\ CardsBacked'
  <2>1. \A u \in Users, s \in Tokens, k \in Tokens :
          CardIn(sessions', hold', tab', u, s, k) => CardIn(sessions, hold, tab, u, s, k)
    <3>1. TAKE u \in Users, s \in Tokens, k \in Tokens
    <3>2. HAVE CardIn(sessions', hold', tab', u, s, k)
    <3>3. CASE sessions'[s].user = u /\ sessions'[s].token = k
      BY <3>3 DEF CardIn
    <3>4. CASE hold'.user = u /\ hold'.session = s /\ hold'.token = k
      BY <3>4, <1>3, NoneIsNone DEF CardIn
    <3>5. ASSUME NEW x \in Tabs, tab'[x].pc # "idle", tab'[x].user = u, tab'[x].session = s,
                 tab'[x].token = k
          PROVE  CardIn(sessions, hold, tab, u, s, k)
      <4>1. CASE x = t
        BY <4>1, <3>5, <1>1, <1>2
      <4>2. CASE x # t
        BY <4>2, <3>5, <1>1 DEF CardIn
      <4> QED
        BY <4>1, <4>2
    <3> QED
      BY <3>2, <3>3, <3>4, <3>5 DEF CardIn
  <2> QED
    BY <2>1, MatchKept DEF Tokenwise, CardsBacked
<1>5. RowsWhole' /\ Marked'
  BY DEF Tokenwise, RowsWhole, Marked
<1>6. AnswersFresh'
  <2> SUFFICES ASSUME NEW a \in Tabs, tab'[a].pc = "answer"
               PROVE  /\ hold'.token # tab'[a].token
                      /\ \A x \in Tabs \ {a} : tab'[x].pc # "idle" => tab'[x].token # tab'[a].token
    BY DEF AnswersFresh
  <2>1. a # t /\ tab'[a] = tab[a]
    BY <1>1
  <2>2. tab[a].token \in Tokens
    BY <2>1, TabTyped
  <2>3. hold'.token # tab'[a].token
    BY <2>1, <2>2, <1>2, <1>3 DEF Tokenwise, AnswersFresh
  <2>4. ASSUME NEW x \in Tabs \ {a}, tab'[x].pc # "idle" PROVE tab'[x].token # tab'[a].token
    <3>1. CASE x = t
      BY <3>1, <2>1, <2>4, <1>1
    <3>2. CASE x # t
      BY <3>2, <2>1, <2>4, <1>1 DEF Tokenwise, AnswersFresh
    <3> QED
      BY <3>1, <3>2
  <2> QED
    BY <2>3, <2>4
<1>7. AnswersGood'
  BY <1>1 DEF Tokenwise, AnswersGood, Valid
<1>8. OutAtRest'
  <2> SUFFICES ASSUME NEW s \in past.out \ past.crossed
               PROVE  ~ sessions[s].active /\ ~ \E x \in Tabs : tab'[x].pc \in {"user", "issue"} /\ tab'[x].session = s
    BY DEF OutAtRest, InFlight
  <2> QED
    BY <1>1 DEF Tokenwise, OutAtRest, InFlight
<1>9. StaysLoggedIn'
  <2>1. CASE hold' = NoHold
    BY <2>1 DEF StaysLoggedIn
  <2>2. CASE hold' = hold
    <3>1. \A x \in Tabs : tab[x].pc = "answer" => tab'[x] = tab[x]
      BY <1>1
    <3> QED
      BY <2>2, <3>1 DEF Tokenwise, StaysLoggedIn, Valid
  <2> QED
    BY <2>1, <2>2
<1> QED
  BY <1>4, <1>5, <1>6, <1>7, <1>8, <1>9 DEF Tokenwise

LEMMA TokensLogin == ASSUME Local, Tokenwise, NEW t \in Tabs, Login(t) PROVE Tokenwise'
<1>1. PICK u \in Users :
        tab' = [tab EXCEPT ![t] = [NoTab EXCEPT !.pc = "issue", !.user = u, !.access = AccessOf(u)]]
  BY DEF Login
<1> DEFINE q == [NoTab EXCEPT !.pc = "issue", !.user = u, !.access = AccessOf(u)]
<1>2. q.pc = "issue" /\ q.session = 0 /\ q.token = 0 /\ tab' = [tab EXCEPT ![t] = q]
  BY <1>1 DEF NoTab
<1> HIDE DEF q
<1>3. UNCHANGED <<sessions, issued, hold, past>> /\ tab[t].pc = "idle"
  BY DEF Login, TabStart
<1>4. 0 \notin past.out
  BY PastTyped, IssuedTyped
<1>5. \A a \in Tabs : tab[a].pc = "answer" => tab[a].token # 0
  BY TabTyped, IssuedTyped
<1> QED
  BY <1>2, <1>3, <1>4, <1>5, TokensMove

LEMMA TokensRefresh == ASSUME Local, Tokenwise, NEW t \in Tabs, Refresh(t) PROVE Tokenwise'
<1>1. UNCHANGED <<sessions, issued, past>> /\ hold # NoHold /\ tab[t].pc = "idle"
  BY DEF Refresh, TabStart
<1>2. CASE tab' = tab /\ hold' = NoHold
  <2>1. tab' = [tab EXCEPT ![t] = tab[t]]
    BY <1>2 DEF Local, TypeOK
  <2> QED
    BY <1>1, <1>2, <2>1, TokensMove
<1>3. ASSUME NEW s \in Tokens, Valid(s, hold.token), hold' = hold,
             tab' = [tab EXCEPT ![t] = [NoTab EXCEPT !.pc = "user", !.user = hold.user,
                                                     !.session = s, !.token = hold.token]]
      PROVE  Tokenwise'
  <2> DEFINE q == [NoTab EXCEPT !.pc = "user", !.user = hold.user, !.session = s, !.token = hold.token]
  <2>1. /\ q.pc = "user" /\ q.user = hold.user /\ q.session = s /\ q.token = hold.token
        /\ tab' = [tab EXCEPT ![t] = q]
    BY <1>3 DEF NoTab
  <2> HIDE DEF q
  <2>2. sessions[s].user # None /\ sessions[s].token = hold.token /\ sessions[s].active
    BY <1>3 DEF Valid
  <2>3. s = hold.session
    BY <1>1, <2>2, HeldCard, RowCard DEF Tokenwise, Match
  <2>4. CardIn(sessions, hold, tab, q.user, q.session, q.token)
    BY <1>1, <2>1, <2>3, HeldCard
  <2>5. s \notin past.out \ past.crossed
    BY <2>2 DEF Tokenwise, OutAtRest
  <2>6. \A a \in Tabs \ {t} : tab[a].pc = "answer" => q.token # tab[a].token
    BY <2>1 DEF Tokenwise, AnswersFresh
  <2>7. q.session # 0
    BY <2>1, IssuedTyped
  <2> QED
    BY <1>1, <1>3, <2>1, <2>4, <2>5, <2>6, <2>7, TokensMove
<1> QED
  BY <1>2, <1>3 DEF Refresh, FindSession

LEMMA TokensReadUser == ASSUME Local, Tokenwise, NEW t \in Tabs, ReadUser(t) PROVE Tokenwise'
<1>1. UNCHANGED <<sessions, issued, past>> /\ tab[t].pc = "user"
  BY DEF ReadUser
<1>2. CASE /\ tab' = [tab EXCEPT ![t].pc = "issue", ![t].access = AccessOf(tab[t].user)]
           /\ hold' = hold
  <2> DEFINE q == [tab[t] EXCEPT !.pc = "issue", !.access = AccessOf(tab[t].user)]
  <2>1. /\ q.pc = "issue" /\ q.user = tab[t].user /\ q.session = tab[t].session
        /\ q.token = tab[t].token /\ tab' = [tab EXCEPT ![t] = q]
    BY <1>2, TabTyped DEF Tab
  <2> HIDE DEF q
  <2>2. q.session # 0 /\ CardIn(sessions, hold, tab, q.user, q.session, q.token)
    BY <1>1, <2>1, TabTyped, IssuedTyped, TabCard
  <2>3. q.session \notin past.out \ past.crossed
    BY <1>1, <2>1 DEF Tokenwise, OutAtRest, InFlight
  <2>4. \A a \in Tabs \ {t} : tab[a].pc = "answer" => q.token # tab[a].token
    BY <1>1, <2>1 DEF Tokenwise, AnswersFresh
  <2> QED
    BY <1>1, <1>2, <2>1, <2>2, <2>3, <2>4, TokensMove
<1>3. CASE Refused(t)
  <2>1. tab' = [tab EXCEPT ![t] = NoTab] /\ hold' \in {hold, NoHold} /\ NoTab.pc = "idle"
    BY <1>3 DEF Refused, NoTab
  <2> QED
    BY <1>1, <2>1, TokensMove
<1> QED
  BY <1>2, <1>3 DEF ReadUser

LEMMA TokensEnterLogout == ASSUME Local, Tokenwise, NEW t \in Tabs, EnterLogout(t) PROVE Tokenwise'
<1>1. UNCHANGED <<sessions, issued, past>> /\ hold # NoHold /\ tab[t].pc = "idle"
  BY DEF EnterLogout, TabStart
<1> DEFINE q == [NoTab EXCEPT !.pc = "leave", !.user = hold.user, !.session = hold.session,
                              !.token = hold.token]
<1>2. q.pc = "leave" /\ q.user = hold.user /\ q.session = hold.session /\ q.token = hold.token
  BY DEF NoTab
<1>3. CASE tab' = [tab EXCEPT ![t] = q] /\ hold' = hold
  <2> HIDE DEF q
  <2>1. CardIn(sessions, hold, tab, q.user, q.session, q.token) /\ q.session # 0
    BY <1>1, <1>2, HeldCard, IssuedTyped
  <2>2. \A a \in Tabs \ {t} : tab[a].pc = "answer" => q.token # tab[a].token
    BY <1>2 DEF Tokenwise, AnswersFresh
  <2> QED
    BY <1>1, <1>2, <1>3, <2>1, <2>2, TokensMove
<1>4. CASE tab' = tab /\ hold' = NoHold
  <2>1. tab' = [tab EXCEPT ![t] = tab[t]]
    BY <1>4 DEF Local, TypeOK
  <2> QED
    BY <1>1, <1>4, <2>1, TokensMove
<1> QED
  BY <1>3, <1>4 DEF EnterLogout

\* A token about to be issued is known to nobody.
LEMMA NextUnknown ==
  ASSUME Local, Tokenwise
  PROVE  /\ hold.token # issued + 1 /\ hold.session # issued + 1
         /\ \A x \in Tabs : tab[x].pc # "idle" => tab[x].token # issued + 1 /\ tab[x].session # issued + 1
         /\ \A s \in Tokens : sessions[s].user # None => s # issued + 1
         /\ \A s \in past.out \union past.crossed : s # issued + 1
<1>0. issued \in Nat
  BY IssuedTyped
<1>1. hold.token # issued + 1 /\ hold.session # issued + 1
  <2>1. CASE hold = NoHold
    BY <1>0, <2>1 DEF NoHold
  <2>2. CASE hold # NoHold
    <3>1. hold.session <= issued /\ hold.token <= issued
      BY <2>2, HeldCard DEF Tokenwise, Match
    <3> QED
      BY <1>0, <3>1
  <2> QED
    BY <2>1, <2>2
<1>2. ASSUME NEW x \in Tabs, tab[x].pc # "idle"
      PROVE  tab[x].token # issued + 1 /\ tab[x].session # issued + 1
  <2>1. CASE tab[x].session = 0
    BY <1>0, <2>1, TabTyped DEF TabLocal
  <2>2. CASE tab[x].session # 0
    <3>1. tab[x].session <= issued /\ tab[x].token <= issued
      BY <1>2, <2>2, TabCard DEF Tokenwise, Match
    <3> QED
      BY <1>0, <3>1
  <2> QED
    BY <2>1, <2>2
<1>3. ASSUME NEW s \in Tokens, sessions[s].user # None PROVE s # issued + 1
  <2>1. s <= issued
    BY <1>3, RowCard DEF Tokenwise, Match
  <2> QED
    BY <1>0, <2>1
<1>4. \A s \in past.out \union past.crossed : s # issued + 1
  BY <1>0 DEF Tokenwise, Marked
<1> QED
  BY <1>1, <1>2, <1>3, <1>4

\* A login makes a session.
LEMMA TokensIssueNew ==
  ASSUME Local, Tokenwise, NEW t \in Tabs, IssueTokens(t), tab[t].session = 0 PROVE Tokenwise'
<1> DEFINE n == issued + 1
           q == [tab[t] EXCEPT !.pc = "answer", !.token = n, !.session = n]
           row == [user |-> tab[t].user, token |-> n, active |-> TRUE, fresh |-> TRUE,
                   access |-> tab[t].access]
<1>1. UNCHANGED hold /\ tab[t].pc = "issue" /\ issued < MaxTokens /\ issued' = n
  BY DEF IssueTokens
<1>2. sessions' = [sessions EXCEPT ![n] = row] /\ tab' = [tab EXCEPT ![t] = q]
  BY DEF IssueTokens
<1>3. past'.out = past.out /\ past'.crossed = past.crossed
  BY PastTyped DEF IssueTokens, Past
<1>4. n \in Tokens /\ n # 0 /\ issued \in Nat /\ Tokens \subseteq Nat
  BY <1>1, IssuedTyped
<1>5. /\ \A s \in Tokens : sessions'[s] = IF s = n THEN row ELSE sessions[s]
      /\ \A x \in Tabs : tab'[x] = IF x = t THEN q ELSE tab[x]
  BY <1>2, <1>4, SessionTyped DEF Local, TypeOK
<1>6. /\ row.user = tab[t].user /\ row.token = n /\ row.active /\ row.fresh
      /\ q.pc = "answer" /\ q.user = tab[t].user /\ q.session = n /\ q.token = n
  BY TabTyped DEF Tab
<1>7. tab[t].user \in Users /\ tab[t].user # None
  BY <1>1, TabTyped, NoneIsNone
<1>8. /\ hold.token # n /\ hold.session # n
      /\ \A x \in Tabs : tab[x].pc # "idle" => tab[x].token # n /\ tab[x].session # n
      /\ \A s \in past.out \union past.crossed : s # n
  BY NextUnknown
<1> HIDE DEF q, row
<1>9. Match(sessions', hold', tab', issued') /\ CardsBacked'
  <2>1. \A u \in Users, s \in Tokens, k \in Tokens :
          CardIn(sessions', hold', tab', u, s, k) =>
            CardIn(sessions, hold, tab, u, s, k) \/ (u = tab[t].user /\ s = n /\ k = n)
    <3>1. TAKE u \in Users, s \in Tokens, k \in Tokens
    <3>2. HAVE CardIn(sessions', hold', tab', u, s, k)
    <3>3. CASE sessions'[s].user = u /\ sessions'[s].token = k
      BY <3>3, <1>5, <1>6 DEF CardIn
    <3>4. CASE hold'.user = u /\ hold'.session = s /\ hold'.token = k
      BY <3>4, <1>1 DEF CardIn
    <3>5. ASSUME NEW x \in Tabs, tab'[x].pc # "idle", tab'[x].user = u, tab'[x].session = s,
                 tab'[x].token = k
          PROVE  CardIn(sessions, hold, tab, u, s, k) \/ (u = tab[t].user /\ s = n /\ k = n)
      <4>1. CASE x = t
        BY <4>1, <3>5, <1>5, <1>6
      <4>2. CASE x # t
        BY <4>2, <3>5, <1>5 DEF CardIn
      <4> QED
        BY <4>1, <4>2
    <3> QED
      BY <3>2, <3>3, <3>4, <3>5 DEF CardIn
  <2>2. CardsBacked'
    <3> SUFFICES ASSUME NEW u \in Users, NEW s \in Tokens, NEW k \in Tokens,
                        CardIn(sessions', hold', tab', u, s, k), sessions'[s].user = None
                 PROVE  s \in past'.crossed
      BY DEF CardsBacked
    <3>1. s # n
      BY <1>4, <1>5, <1>6, <1>7
    <3> QED
      BY <3>1, <2>1, <1>3, <1>5 DEF Tokenwise, CardsBacked
  <2> QED
    BY <2>1, <2>2, <1>1, <1>4, <1>7, MatchGrows DEF Tokenwise
<1>10. RowsWhole'
  BY <1>4, <1>5, <1>6, <1>7 DEF Tokenwise, RowsWhole
<1>11. Marked'
  <2>1. \A s \in past.out \union past.crossed : s \in Nat /\ s <= issued
    BY PastTyped, <1>4 DEF Tokenwise, Marked
  <2>2. \A s \in past.out \union past.crossed : s <= issued'
    BY <2>1, <1>1, <1>4
  <2> QED
    BY <2>2, <1>3 DEF Marked
<1> HIDE DEF n
<1>12. AnswersFresh'
  <2> SUFFICES ASSUME NEW a \in Tabs, tab'[a].pc = "answer"
               PROVE  /\ hold'.token # tab'[a].token
                      /\ \A x \in Tabs \ {a} : tab'[x].pc # "idle" => tab'[x].token # tab'[a].token
    BY DEF AnswersFresh
  <2>1. CASE a = t
    BY <2>1, <1>1, <1>5, <1>6, <1>8
  <2>2. CASE a # t
    <3>1. tab'[a] = tab[a] /\ tab[a].token # n
      BY <2>2, <1>5, <1>8
    <3>2. tab'[t].token = n
      BY <1>5, <1>6
    <3>3. hold'.token # tab'[a].token
      BY <3>1, <1>1 DEF Tokenwise, AnswersFresh
    <3>4. ASSUME NEW x \in Tabs \ {a}, tab'[x].pc # "idle" PROVE tab'[x].token # tab'[a].token
      <4>1. CASE x = t
        BY <4>1, <3>1, <3>2
      <4>2. CASE x # t
        BY <4>2, <3>1, <3>4, <1>5 DEF Tokenwise, AnswersFresh
      <4> QED
        BY <4>1, <4>2
    <3> QED
      BY <3>3, <3>4
  <2> QED
    BY <2>1, <2>2
<1>13. AnswersGood'
  <2> SUFFICES ASSUME NEW a \in Tabs, tab'[a].pc = "answer",
                      tab'[a].session \notin past.out \union past.crossed
               PROVE  /\ sessions'[tab'[a].session].user # None
                      /\ sessions'[tab'[a].session].token = tab'[a].token
                      /\ sessions'[tab'[a].session].active /\ sessions'[tab'[a].session].fresh
    BY <1>3 DEF AnswersGood, Valid
  <2>1. CASE a = t
    BY <2>1, <1>4, <1>5, <1>6, <1>7
  <2>2. CASE a # t
    <3>1. tab'[a] = tab[a] /\ tab[a].session # n /\ tab[a].session \in Tokens
      BY <2>2, <1>5, <1>8, TabTyped
    <3> QED
      BY <3>1, <1>5 DEF Tokenwise, AnswersGood, Valid
  <2> QED
    BY <2>1, <2>2
<1>14. OutAtRest'
  <2> SUFFICES ASSUME NEW s \in past.out \ past.crossed
               PROVE  ~ sessions'[s].active /\ ~ \E x \in Tabs : tab'[x].pc \in {"user", "issue"} /\ tab'[x].session = s
    BY <1>3 DEF OutAtRest, InFlight
  <2>1. s # n /\ s \in Tokens
    BY <1>8, PastTyped
  <2> QED
    BY <2>1, <1>5, <1>6 DEF Tokenwise, OutAtRest, InFlight
<1>15. StaysLoggedIn'
  <2> SUFFICES ASSUME hold # NoHold, hold.session \notin past.out \union past.crossed
               PROVE  \/ /\ sessions'[hold.session].user # None
                         /\ sessions'[hold.session].token = hold.token
                         /\ sessions'[hold.session].active /\ sessions'[hold.session].fresh
                      \/ \E x \in Tabs : tab'[x].pc = "answer" /\ tab'[x].session = hold.session
    BY <1>1, <1>3 DEF StaysLoggedIn, Valid
  <2>1. hold.session \in Tokens /\ hold.session # n
    BY <1>8, HeldCard
  <2>2. sessions'[hold.session] = sessions[hold.session]
    BY <2>1, <1>5
  <2>3. \A x \in Tabs : tab[x].pc = "answer" => tab'[x] = tab[x]
    BY <1>1, <1>5
  <2> QED
    BY <2>2, <2>3 DEF Tokenwise, StaysLoggedIn, Valid
<1> QED
  BY <1>9, <1>10, <1>11, <1>12, <1>13, <1>14, <1>15 DEF Tokenwise

\* A refresh renews the row of its session, if it is still there.
LEMMA TokensIssueAgain ==
  ASSUME Local, Tokenwise, NEW t \in Tabs, IssueTokens(t), tab[t].session # 0 PROVE Tokenwise'
<1> DEFINE n == issued + 1
           z == tab[t].session
           q == [tab[t] EXCEPT !.pc = "answer", !.token = n, !.session = z]
           row == Renewed(sessions[z], n, tab[t].access)
           others == {x \in Tabs \ {t} : tab[x].pc \in {"user", "issue"} /\ tab[x].session = z}
<1>1. UNCHANGED hold /\ tab[t].pc = "issue" /\ issued < MaxTokens /\ issued' = n
  BY DEF IssueTokens
<1>2. tab' = [tab EXCEPT ![t] = q]
      /\ sessions' = IF sessions[z].user = None THEN sessions ELSE [sessions EXCEPT ![z] = row]
  BY DEF IssueTokens
<1>3. /\ past'.out = past.out /\ past.crossed \subseteq past'.crossed
      /\ past'.crossed \subseteq past.crossed \union {z}
      /\ others # {} \/ sessions[z].token # tab[t].token => z \in past'.crossed
  <2>1. past'.out = past.out
    BY PastTyped DEF IssueTokens, Past
  <2>2. past'.crossed = IF others # {} \/ sessions[z].token # tab[t].token
                        THEN past.crossed \union {z} ELSE past.crossed
    BY PastTyped DEF IssueTokens, Past
  <2> HIDE DEF others, z
  <2> QED
    BY <2>1, <2>2
<1>4. n \in Tokens /\ n # 0 /\ issued \in Nat /\ Tokens \subseteq Nat
  BY <1>1, IssuedTyped
<1>5. /\ z \in Tokens /\ tab[t].user \in Users /\ tab[t].token \in Tokens
      /\ CardIn(sessions, hold, tab, tab[t].user, z, tab[t].token)
  BY <1>1, TabCard
<1>6. \A x \in Tabs : tab'[x] = IF x = t THEN q ELSE tab[x]
  BY <1>2 DEF Local, TypeOK
<1>7. q.pc = "answer" /\ q.user = tab[t].user /\ q.session = z /\ q.token = n
  BY TabTyped DEF Tab
<1>8. /\ hold.token # n
      /\ \A x \in Tabs : tab[x].pc # "idle" => tab[x].token # n
  BY NextUnknown
<1>9. ASSUME sessions[z].user # None
      PROVE  /\ sessions[z].user = tab[t].user
             /\ row.user = sessions[z].user /\ row.token = n /\ row.active /\ row.fresh
  <2>1. sessions[z].user = tab[t].user
    BY <1>5, <1>9, RowCard DEF Tokenwise, Match
  <2>2. sessions[z] \in Session
    BY <1>5, SessionTyped
  <2> QED
    BY <2>1, <2>2 DEF Session, Renewed
<1>10. z <= issued
  BY <1>5 DEF Tokenwise, Match
<1>11. sessions[z].user = None => z \in past.crossed
  BY <1>5 DEF Tokenwise, CardsBacked
<1> HIDE DEF q, row, others
<1>12. \A s \in Tokens : sessions'[s] = IF s = z /\ sessions[z].user # None THEN row ELSE sessions[s]
  <2> HIDE DEF z
  <2> QED
    BY <1>2, <1>5, SessionTyped
<1> HIDE DEF z
<1>13. Match(sessions', hold', tab', issued') /\ CardsBacked'
  <2>1. \A u \in Users, s \in Tokens, k \in Tokens :
          CardIn(sessions', hold', tab', u, s, k) =>
            CardIn(sessions, hold, tab, u, s, k) \/ (u = tab[t].user /\ s = z /\ k = n)
    <3>1. TAKE u \in Users, s \in Tokens, k \in Tokens
    <3>2. HAVE CardIn(sessions', hold', tab', u, s, k)
    <3>3. CASE sessions'[s].user = u /\ sessions'[s].token = k
      BY <3>3, <1>9, <1>12 DEF CardIn
    <3>4. CASE hold'.user = u /\ hold'.session = s /\ hold'.token = k
      BY <3>4, <1>1 DEF CardIn
    <3>5. ASSUME NEW x \in Tabs, tab'[x].pc # "idle", tab'[x].user = u, tab'[x].session = s,
                 tab'[x].token = k
          PROVE  CardIn(sessions, hold, tab, u, s, k) \/ (u = tab[t].user /\ s = z /\ k = n)
      <4>1. CASE x = t
        BY <4>1, <3>5, <1>6, <1>7
      <4>2. CASE x # t
        BY <4>2, <3>5, <1>6 DEF CardIn
      <4> QED
        BY <4>1, <4>2
    <3> QED
      BY <3>2, <3>3, <3>4, <3>5 DEF CardIn
  <2>2. CardsBacked'
    <3> SUFFICES ASSUME NEW u \in Users, NEW s \in Tokens, NEW k \in Tokens,
                        CardIn(sessions', hold', tab', u, s, k), sessions'[s].user = None
                 PROVE  s \in past'.crossed
      BY DEF CardsBacked
    <3>1. sessions[s].user = None
      BY <1>9, <1>12, NoneIsNone
    <3> QED
      BY <3>1, <2>1, <1>3, <1>11 DEF Tokenwise, CardsBacked
  <2>3. \E l \in Tokens : CardIn(sessions, hold, tab, tab[t].user, z, l)
    BY <1>5
  <2>4. Match(sessions, hold, tab, issued)
    BY DEF Tokenwise
  <2>5. Match(sessions', hold', tab', n)
    BY <2>1, <2>3, <2>4, <1>4, <1>5, MatchGrows
  <2> QED
    BY <2>2, <2>5, <1>1
<1>14. RowsWhole'
  BY <1>4, <1>9, <1>12 DEF Tokenwise, RowsWhole
<1>15. Marked'
  <2>1. \A s \in past.out \union past.crossed \union {z} : s \in Nat /\ s <= issued
    BY PastTyped, <1>4, <1>5, <1>10 DEF Tokenwise, Marked
  <2>2. \A s \in past.out \union past.crossed \union {z} : s <= issued'
    BY <2>1, <1>1, <1>4
  <2> QED
    BY <2>2, <1>3 DEF Marked
<1> HIDE DEF n
<1>16. AnswersFresh'
  <2> SUFFICES ASSUME NEW a \in Tabs, tab'[a].pc = "answer"
               PROVE  /\ hold'.token # tab'[a].token
                      /\ \A x \in Tabs \ {a} : tab'[x].pc # "idle" => tab'[x].token # tab'[a].token
    BY DEF AnswersFresh
  <2>1. CASE a = t
    BY <2>1, <1>1, <1>6, <1>7, <1>8
  <2>2. CASE a # t
    <3>1. tab'[a] = tab[a] /\ tab[a].token # n
      BY <2>2, <1>6, <1>8
    <3>2. tab'[t].token = n
      BY <1>6, <1>7
    <3>3. hold'.token # tab'[a].token
      BY <3>1, <1>1 DEF Tokenwise, AnswersFresh
    <3>4. ASSUME NEW x \in Tabs \ {a}, tab'[x].pc # "idle" PROVE tab'[x].token # tab'[a].token
      <4>1. CASE x = t
        BY <4>1, <3>1, <3>2
      <4>2. CASE x # t
        BY <4>2, <3>1, <3>4, <1>6 DEF Tokenwise, AnswersFresh
      <4> QED
        BY <4>1, <4>2
    <3> QED
      BY <3>3, <3>4
  <2> QED
    BY <2>1, <2>2
\* No other answer of this session is on its way, or the session is crossed.
<1>17. AnswersGood'
  <2> SUFFICES ASSUME NEW a \in Tabs, tab'[a].pc = "answer",
                      tab'[a].session \notin past'.out \union past'.crossed
               PROVE  /\ sessions'[tab'[a].session].user # None
                      /\ sessions'[tab'[a].session].token = tab'[a].token
                      /\ sessions'[tab'[a].session].active /\ sessions'[tab'[a].session].fresh
    BY DEF AnswersGood, Valid
  <2>1. tab'[a].session \notin past.out \union past.crossed
    BY <1>3
  <2>2. CASE a = t
    <3>1. sessions[z].user # None
      BY <2>1, <2>2, <1>6, <1>7, <1>11
    <3> QED
      BY <3>1, <2>2, <1>5, <1>6, <1>7, <1>9, <1>12
  <2>3. CASE a # t
    <3>1. tab'[a] = tab[a] /\ tab[a].session \in Tokens
      BY <2>3, <1>6, TabTyped
    <3>2. /\ sessions[tab[a].session].user # None
          /\ sessions[tab[a].session].token = tab[a].token
          /\ sessions[tab[a].session].active /\ sessions[tab[a].session].fresh
      BY <2>1, <3>1 DEF Tokenwise, AnswersGood, Valid
    <3>3. tab[t].token # tab[a].token
      BY <2>3, <3>1, <1>1 DEF Tokenwise, AnswersFresh
    <3>4. tab[a].session # z
      BY <3>1, <3>2, <3>3, <1>3
    <3> QED
      BY <3>1, <3>2, <3>4, <1>12
  <2> QED
    BY <2>2, <2>3
<1>18. OutAtRest'
  <2> SUFFICES ASSUME NEW s \in past'.out \ past'.crossed
               PROVE  ~ sessions'[s].active /\ ~ \E x \in Tabs : tab'[x].pc \in {"user", "issue"} /\ tab'[x].session = s
    BY DEF OutAtRest, InFlight
  <2>1. s \in past.out \ past.crossed /\ s \in Tokens
    BY <1>3, PastTyped
  <2>2. ~ sessions[s].active /\ ~ \E x \in Tabs : tab[x].pc \in {"user", "issue"} /\ tab[x].session = s
    BY <2>1 DEF Tokenwise, OutAtRest, InFlight
  <2>3. s # z
    BY <2>2, <1>1 DEF z
  <2> QED
    BY <2>1, <2>2, <2>3, <1>6, <1>7, <1>12
<1>19. StaysLoggedIn'
  <2> SUFFICES ASSUME hold # NoHold, hold.session \notin past'.out \union past'.crossed
               PROVE  \/ /\ sessions'[hold.session].user # None
                         /\ sessions'[hold.session].token = hold.token
                         /\ sessions'[hold.session].active /\ sessions'[hold.session].fresh
                      \/ \E x \in Tabs : tab'[x].pc = "answer" /\ tab'[x].session = hold.session
    BY <1>1 DEF StaysLoggedIn, Valid
  <2>1. CASE hold.session = z
    BY <2>1, <1>6, <1>7
  <2>2. CASE hold.session # z
    <3>1. hold.session \in Tokens /\ hold.session \notin past.out \union past.crossed
      BY <1>3, HeldCard
    <3>2. sessions'[hold.session] = sessions[hold.session]
      BY <2>2, <3>1, <1>12
    <3>3. \A x \in Tabs : tab[x].pc = "answer" => tab'[x] = tab[x]
      BY <1>1, <1>6
    <3> QED
      BY <3>1, <3>2, <3>3 DEF Tokenwise, StaysLoggedIn, Valid
  <2> QED
    BY <2>1, <2>2
<1> QED
  BY <1>13, <1>14, <1>15, <1>16, <1>17, <1>18, <1>19 DEF Tokenwise

LEMMA TokensAnswer == ASSUME Local, Tokenwise, NEW t \in Tabs, Answer(t) PROVE Tokenwise'
<1>1. UNCHANGED <<sessions, issued, past>> /\ tab[t].pc = "answer" /\ tab' = [tab EXCEPT ![t] = NoTab]
  BY DEF Answer
<1>2. hold'.user = tab[t].user /\ hold'.session = tab[t].session /\ hold'.token = tab[t].token
  BY DEF Answer
<1>3. \A x \in Tabs : tab'[x] = IF x = t THEN NoTab ELSE tab[x]
  BY <1>1 DEF Local, TypeOK
<1>4. NoTab.pc = "idle"
  BY DEF NoTab
<1>5. Match(sessions', hold', tab', issued') /\ CardsBacked'
  <2>1. \A u \in Users, s \in Tokens, k \in Tokens :
          CardIn(sessions', hold', tab', u, s, k) => CardIn(sessions, hold, tab, u, s, k)
    BY <1>1, <1>2, <1>3, <1>4 DEF CardIn
  <2> QED
    BY <1>1, <2>1, MatchKept DEF Tokenwise, CardsBacked
<1>6. RowsWhole' /\ Marked'
  BY <1>1 DEF Tokenwise, RowsWhole, Marked
<1>7. AnswersFresh'
  BY <1>1, <1>2, <1>3, <1>4 DEF Tokenwise, AnswersFresh
<1>8. AnswersGood' /\ OutAtRest'
  BY <1>1, <1>3, <1>4 DEF Tokenwise, AnswersGood, OutAtRest, InFlight, Valid
<1>9. StaysLoggedIn'
  BY <1>1, <1>2 DEF Tokenwise, AnswersGood, StaysLoggedIn, Valid
<1> QED
  BY <1>5, <1>6, <1>7, <1>8, <1>9 DEF Tokenwise

LEMMA TokensLoseAnswer == ASSUME Local, Tokenwise, NEW t \in Tabs, LoseAnswer(t) PROVE Tokenwise'
<1> DEFINE z == tab[t].session
<1>1. /\ UNCHANGED <<sessions, issued, hold>> /\ tab[t].pc = "answer"
      /\ tab' = [tab EXCEPT ![t] = NoTab]
  BY DEF LoseAnswer
<1>2. past'.out = past.out /\ past'.crossed = past.crossed \union {z}
  BY PastTyped DEF LoseAnswer, Past
<1>3. \A x \in Tabs : tab'[x] = IF x = t THEN NoTab ELSE tab[x]
  BY <1>1 DEF Local, TypeOK
<1>4. NoTab.pc = "idle"
  BY DEF NoTab
<1>5. Match(sessions', hold', tab', issued') /\ CardsBacked'
  <2>1. \A u \in Users, s \in Tokens, k \in Tokens :
          CardIn(sessions', hold', tab', u, s, k) => CardIn(sessions, hold, tab, u, s, k)
    BY <1>1, <1>3, <1>4 DEF CardIn
  <2> QED
    BY <1>1, <1>2, <2>1, MatchKept DEF Tokenwise, CardsBacked
<1>6. z <= issued
  BY <1>1, TabTyped, IssuedTyped, TabCard DEF Tokenwise, Match
<1> HIDE DEF z
<1>7. RowsWhole' /\ Marked'
  BY <1>1, <1>2, <1>6 DEF Tokenwise, RowsWhole, Marked
<1>8. AnswersFresh' /\ AnswersGood' /\ OutAtRest'
  BY <1>1, <1>2, <1>3, <1>4 DEF Tokenwise, AnswersFresh, AnswersGood, OutAtRest, InFlight, Valid
<1>9. StaysLoggedIn'
  BY <1>1, <1>2, <1>3 DEF Tokenwise, StaysLoggedIn, Valid, z
<1> QED
  BY <1>5, <1>7, <1>8, <1>9 DEF Tokenwise

LEMMA TokensLogout == ASSUME Local, Tokenwise, NEW t \in Tabs, Logout(t) PROVE Tokenwise'
<1> DEFINE z == tab[t].session
           hit == Closed(tab[t].user, tab[t].token)
<1>1. /\ UNCHANGED issued /\ tab[t].pc = "leave"
      /\ tab' = [tab EXCEPT ![t] = NoTab]
      /\ hold' = IF hold.session = z THEN NoHold ELSE hold
  BY DEF Logout
<1>2. /\ past'.out = past.out \union {z} /\ past.crossed \subseteq past'.crossed
      /\ past'.crossed \subseteq past.crossed \union {z}
      /\ InFlight(z) \/ sessions[z].token # tab[t].token => z \in past'.crossed
  <2>1. past'.out = past.out \union {z}
    BY PastTyped DEF Logout, Past
  <2>2. past'.crossed = IF InFlight(z) \/ sessions[z].token # tab[t].token
                        THEN past.crossed \union {z} ELSE past.crossed
    BY PastTyped DEF Logout, Past
  <2> HIDE DEF z
  <2> QED
    BY <2>1, <2>2
<1>3. \A x \in Tabs : tab'[x] = IF x = t THEN NoTab ELSE tab[x]
  BY <1>1 DEF Local, TypeOK
<1>4. NoTab.pc = "idle" /\ NoHold.user = None /\ NoHold.token = 0
  BY DEF NoTab, NoHold
<1>5. /\ z \in Tokens /\ tab[t].user \in Users /\ tab[t].token \in Tokens
      /\ CardIn(sessions, hold, tab, tab[t].user, z, tab[t].token)
  BY <1>1, TabTyped, IssuedTyped, TabCard
<1>6. ASSUME NEW s \in Tokens
      PROVE  /\ sessions'[s].user = sessions[s].user /\ sessions'[s].token = sessions[s].token
             /\ sessions'[s].active = (sessions[s].active /\ s \notin hit)
             /\ s \notin hit => sessions'[s] = sessions[s]
  <2>1. sessions' = [x \in Tokens |-> IF x \in hit THEN [sessions[x] EXCEPT !.active = FALSE]
                                      ELSE sessions[x]]
    BY DEF Logout
  <2>2. sessions[s] \in Session /\ sessions[s].active \in BOOLEAN
    BY SessionTyped
  <2> HIDE DEF hit
  <2>3. CASE s \in hit
    BY <2>1, <2>2, <2>3 DEF Session
  <2>4. CASE s \notin hit
    BY <2>1, <2>2, <2>4
  <2> QED
    BY <2>3, <2>4
\* The row that is closed is that of the session.
<1>7. \A s \in Tokens : s \in hit => s = z
  <2> SUFFICES ASSUME NEW s \in Tokens, s \in hit PROVE s = z
    OBVIOUS
  <2>1. sessions[s].user = tab[t].user /\ sessions[s].token = tab[t].token
    BY DEF Closed
  <2>2. sessions[s].user # None
    BY <2>1, <1>5, NoneIsNone
  <2> QED
    BY <2>1, <2>2, <1>5, RowCard DEF Tokenwise, Match
<1>8. sessions[z].token = tab[t].token => z \in hit
  <2>1. HAVE sessions[z].token = tab[t].token
  <2>2. sessions[z].user # None
    BY <2>1, <1>5, IssuedTyped DEF Tokenwise, RowsWhole, NoSession
  <2>3. sessions[z].user = tab[t].user
    BY <2>2, <1>5, RowCard DEF Tokenwise, Match
  <2> QED
    BY <2>1, <2>3, <1>5 DEF Closed
<1>9. z <= issued
  BY <1>5 DEF Tokenwise, Match
<1>10. \A s \in Tokens : sessions[s].user = None => s \notin hit
  BY <1>5, NoneIsNone DEF Closed
<1> HIDE DEF z, hit
<1>11. Match(sessions', hold', tab', issued') /\ CardsBacked'
  <2>1. \A u \in Users, s \in Tokens, k \in Tokens :
          CardIn(sessions', hold', tab', u, s, k) => CardIn(sessions, hold, tab, u, s, k)
    <3>1. TAKE u \in Users, s \in Tokens, k \in Tokens
    <3>2. HAVE CardIn(sessions', hold', tab', u, s, k)
    <3>3. CASE sessions'[s].user = u /\ sessions'[s].token = k
      BY <3>3, <1>6 DEF CardIn
    <3>4. CASE hold'.user = u /\ hold'.session = s /\ hold'.token = k
      BY <3>4, <1>1, <1>4, NoneIsNone DEF CardIn
    <3>5. CASE \E x \in Tabs : /\ tab'[x].pc # "idle" /\ tab'[x].user = u
                               /\ tab'[x].session = s /\ tab'[x].token = k
      BY <3>5, <1>3, <1>4 DEF CardIn
    <3> QED
      BY <3>2, <3>3, <3>4, <3>5 DEF CardIn
  <2>2. CardsBacked'
    BY <1>2, <1>6, <2>1 DEF Tokenwise, CardsBacked
  <2> QED
    BY <1>1, <2>1, <2>2, MatchKept DEF Tokenwise
<1>12. RowsWhole'
  BY <1>6, <1>10 DEF Tokenwise, RowsWhole
<1>13. Marked'
  BY <1>1, <1>2, <1>9 DEF Tokenwise, Marked
<1>14. AnswersFresh'
  <2> SUFFICES ASSUME NEW a \in Tabs, tab'[a].pc = "answer"
               PROVE  /\ hold'.token # tab'[a].token
                      /\ \A x \in Tabs \ {a} : tab'[x].pc # "idle" => tab'[x].token # tab'[a].token
    BY DEF AnswersFresh
  <2>1. a # t /\ tab'[a] = tab[a] /\ tab[a].token # 0
    BY <1>3, <1>4, TabTyped, IssuedTyped
  <2> QED
    BY <2>1, <1>1, <1>3, <1>4 DEF Tokenwise, AnswersFresh
<1>15. AnswersGood'
  <2> SUFFICES ASSUME NEW a \in Tabs, tab'[a].pc = "answer",
                      tab'[a].session \notin past'.out \union past'.crossed
               PROVE  /\ sessions'[tab'[a].session].user # None
                      /\ sessions'[tab'[a].session].token = tab'[a].token
                      /\ sessions'[tab'[a].session].active /\ sessions'[tab'[a].session].fresh
    BY DEF AnswersGood, Valid
  <2>1. a # t /\ tab'[a] = tab[a] /\ tab[a].session \in Tokens
    BY <1>3, <1>4, TabTyped
  <2>2. tab[a].session # z /\ tab[a].session \notin past.out \union past.crossed
    BY <2>1, <1>2
  <2>3. sessions'[tab[a].session] = sessions[tab[a].session]
    BY <2>1, <2>2, <1>6, <1>7
  <2> QED
    BY <2>1, <2>2, <2>3 DEF Tokenwise, AnswersGood, Valid
<1>16. OutAtRest'
  <2> SUFFICES ASSUME NEW s \in past'.out \ past'.crossed
               PROVE  ~ sessions'[s].active /\ ~ \E x \in Tabs : tab'[x].pc \in {"user", "issue"} /\ tab'[x].session = s
    BY DEF OutAtRest, InFlight
  <2>1. s \in Tokens
    BY <1>2, <1>5, PastTyped
  <2>2. CASE s = z
    BY <2>1, <2>2, <1>2, <1>3, <1>4, <1>6, <1>8 DEF InFlight
  <2>3. CASE s # z
    <3>1. s \in past.out \ past.crossed
      BY <2>3, <1>2
    <3> QED
      BY <3>1, <2>1, <1>3, <1>4, <1>6 DEF Tokenwise, OutAtRest, InFlight
  <2> QED
    BY <2>2, <2>3
<1>17. StaysLoggedIn'
  <2> SUFFICES ASSUME hold' # NoHold, hold'.session \notin past'.out \union past'.crossed
               PROVE  \/ /\ sessions'[hold'.session].user # None
                         /\ sessions'[hold'.session].token = hold'.token
                         /\ sessions'[hold'.session].active /\ sessions'[hold'.session].fresh
                      \/ \E x \in Tabs : tab'[x].pc = "answer" /\ tab'[x].session = hold'.session
    BY DEF StaysLoggedIn, Valid
  <2>1. hold' = hold /\ hold # NoHold /\ hold.session # z
    BY <1>1
  <2>2. hold.session \in Tokens /\ hold.session \notin past.out \union past.crossed
    BY <2>1, <1>2, HeldCard
  <2>3. sessions'[hold.session] = sessions[hold.session]
    BY <2>1, <2>2, <1>6, <1>7
  <2>4. \A x \in Tabs : tab[x].pc = "answer" => tab'[x] = tab[x]
    BY <1>1, <1>3
  <2> QED
    BY <2>1, <2>2, <2>3, <2>4 DEF Tokenwise, StaysLoggedIn, Valid
<1> QED
  BY <1>11, <1>12, <1>13, <1>14, <1>15, <1>16, <1>17 DEF Tokenwise

\* Rows that expire or go are crossed.
LEMMA TokensCross ==
  ASSUME Local, Tokenwise, UNCHANGED <<issued, hold, tab>>, NEW S \in SUBSET Tokens,
         past'.out = past.out, past'.crossed = past.crossed \union S,
         \A s \in S : s <= issued,
         \A s \in Tokens \ S : sessions'[s] = sessions[s],
         \A s \in S : \/ sessions'[s] = NoSession
                      \/ /\ sessions'[s].user = sessions[s].user /\ sessions[s].user # None
                         /\ sessions'[s].token = sessions[s].token
  PROVE  Tokenwise'
<1>1. NoSession.user = None
  BY DEF NoSession
<1>2. Match(sessions', hold', tab', issued') /\ CardsBacked'
  <2>1. \A u \in Users, s \in Tokens, k \in Tokens :
          CardIn(sessions', hold', tab', u, s, k) => CardIn(sessions, hold, tab, u, s, k)
    BY <1>1, NoneIsNone DEF CardIn
  <2>2. CardsBacked'
    BY <2>1 DEF Tokenwise, CardsBacked
  <2> QED
    BY <2>1, <2>2, MatchKept DEF Tokenwise
<1>3. RowsWhole' /\ Marked'
  BY <1>1 DEF Tokenwise, RowsWhole, Marked
<1>4. AnswersFresh'
  BY DEF Tokenwise, AnswersFresh
<1>5. AnswersGood'
  <2>1. \A a \in Tabs : tab[a].pc = "answer" => tab[a].session \in Tokens
    BY TabTyped
  <2> QED
    BY <2>1 DEF Tokenwise, AnswersGood, Valid
<1>6. OutAtRest'
  BY PastTyped DEF Tokenwise, OutAtRest, InFlight
<1>7. StaysLoggedIn'
  BY HeldCard DEF Tokenwise, StaysLoggedIn, Valid
<1> QED
  BY <1>2, <1>3, <1>4, <1>5, <1>6, <1>7 DEF Tokenwise

LEMMA TokensExpire == ASSUME Local, Tokenwise, Expire PROVE Tokenwise'
<1>1. PICK s \in Tokens :
        /\ sessions[s].active /\ sessions' = [sessions EXCEPT ![s].fresh = FALSE]
        /\ past' = [past EXCEPT !.crossed = @ \union {s}]
  BY DEF Expire
<1>2. UNCHANGED <<issued, hold, tab>>
  BY DEF Expire
<1>3. past'.out = past.out /\ past'.crossed = past.crossed \union {s}
  BY <1>1, PastTyped DEF Past
<1>4. sessions[s].user # None
  BY <1>1 DEF Tokenwise, RowsWhole, NoSession
<1>5. s <= issued
  BY <1>4, RowCard DEF Tokenwise, Match
<1>6. /\ \A x \in Tokens \ {s} : sessions'[x] = sessions[x]
      /\ sessions'[s].user = sessions[s].user /\ sessions'[s].token = sessions[s].token
  BY <1>1, SessionTyped DEF Session
<1> DEFINE S == {s}
<1>7. /\ S \in SUBSET Tokens /\ past'.crossed = past.crossed \union S
      /\ \A x \in S : x <= issued
      /\ \A x \in Tokens \ S : sessions'[x] = sessions[x]
      /\ \A x \in S : /\ sessions'[x].user = sessions[x].user /\ sessions[x].user # None
                      /\ sessions'[x].token = sessions[x].token
  BY <1>3, <1>4, <1>5, <1>6
<1> HIDE DEF S
<1> QED
  BY <1>2, <1>3, <1>7, TokensCross

LEMMA TokensDrop == ASSUME Local, Tokenwise, NEW e \in Edits, Drop(e) PROVE Tokenwise'
<1> DEFINE gone == SignedOut(edit[e].profile)
<1>1. /\ UNCHANGED <<issued, hold, tab>> /\ gone \in SUBSET Tokens
      /\ sessions' = [s \in Tokens |-> IF s \in gone THEN NoSession ELSE sessions[s]]
      /\ past' = [past EXCEPT !.crossed = @ \union gone]
  BY DEF Drop, Same, SignedOut
<1>2. \A s \in gone : s <= issued
  <2> SUFFICES ASSUME NEW s \in gone PROVE s <= issued
    OBVIOUS
  <2>1. s \in Tokens /\ sessions[s].user # None
    BY NoneIsNone DEF SignedOut
  <2> QED
    BY <2>1, RowCard DEF Tokenwise, Match
<1> HIDE DEF gone
<1>3. past'.out = past.out /\ past'.crossed = past.crossed \union gone
  BY <1>1, PastTyped DEF Past
<1>4. /\ \A s \in Tokens \ gone : sessions'[s] = sessions[s]
      /\ \A s \in gone : sessions'[s] = NoSession
  BY <1>1
<1> QED
  BY <1>1, <1>2, <1>3, <1>4, TokensCross

LEMMA AgeKeepsMarks ==
  ASSUME Local, Age PROVE past'.out = past.out /\ past'.crossed = past.crossed
  BY PastTyped DEF Age, Past

LEMMA TokensEdit ==
  ASSUME Local, Tokenwise, NEW e \in Edits,
         UserRequest(e) \/ RoleRequest(e) \/ ProfileRequest(e) \/ Abandon(e)
  PROVE  Tokenwise'
<1>1. ASSUME UNCHANGED <<rows, sessions, issued, hold, tab>>,
             past' = [past EXCEPT !.overlap = @ \/ \E x \in Edits : edit[x].pc # "idle"]
      PROVE  Tokenwise'
  BY <1>1, PastTyped, TokensKept DEF Past
<1>2. CASE CreateUser(e) \/ UpdateUser(e) \/ RemoveUser(e)
  <2>1. CASE CreateUser(e)
    BY <1>1, <2>1 DEF CreateUser, Begin
  <2>2. CASE UpdateUser(e)
    BY <1>1, <2>2 DEF UpdateUser, Begin
  <2>3. CASE RemoveUser(e)
    BY <1>1, <2>3 DEF RemoveUser, Begin
  <2> QED
    BY <1>2, <2>1, <2>2, <2>3
<1>3. CASE CreateRole(e) \/ UpdateRole(e) \/ RemoveRole(e)
  <2>1. CASE CreateRole(e)
    BY <1>1, <2>1 DEF CreateRole, Begin
  <2>2. CASE UpdateRole(e)
    BY <1>1, <2>2 DEF UpdateRole, Begin
  <2>3. CASE RemoveRole(e)
    BY <1>1, <2>3 DEF RemoveRole, Begin
  <2> QED
    BY <1>3, <2>1, <2>2, <2>3
<1>4. CASE CreateProfile(e) \/ EditProfile(e) \/ RemoveProfile(e)
  BY <1>1, <1>4 DEF CreateProfile, EditProfile, RemoveProfile, Begin
<1>5. CASE SaveLines(e) \/ SaveUser(e) \/ SaveRole(e) \/ SaveProfile(e)
  <2>1. UNCHANGED <<sessions, hold, tab, issued>>
    BY <1>5 DEF SaveLines, SaveUser, SaveRole, SaveProfile, Same
  <2>2. past' = past \/ Age
    BY <1>5 DEF SaveLines, SaveUser, SaveRole, SaveProfile
  <2> QED
    BY <2>1, <2>2, AgeKeepsMarks, TokensKept
<1>6. CASE Abandon(e)
  BY <1>6, PastTyped, TokensKept DEF Abandon, Past
<1> QED
  BY <1>2, <1>3, <1>4, <1>5, <1>6 DEF UserRequest, RoleRequest, ProfileRequest

LEMMA TokensStep == Local /\ Tokenwise /\ [Next]_vars => Tokenwise'
<1> SUFFICES ASSUME Local, Tokenwise, [Next]_vars PROVE Tokenwise'
  OBVIOUS
<1>1. CASE UNCHANGED vars
  BY <1>1, TokensKept DEF vars
<1>2. ASSUME NEW t \in Tabs, AuthRequest(t) PROVE Tokenwise'
  BY <1>2, TokensLogin, TokensRefresh, TokensReadUser, TokensIssueNew, TokensIssueAgain,
     TokensAnswer, TokensLoseAnswer, TokensEnterLogout, TokensLogout DEF AuthRequest
<1>3. CASE Expire
  BY <1>3, TokensExpire
<1>4. ASSUME NEW e \in Edits, UserRequest(e) \/ RoleRequest(e) \/ ProfileRequest(e) \/ Abandon(e)
      PROVE  Tokenwise'
  BY <1>4, TokensEdit
<1>5. ASSUME NEW e \in Edits, Drop(e) PROVE Tokenwise'
  BY <1>5, TokensDrop
<1> QED
  BY <1>1, <1>2, <1>3, <1>4, <1>5 DEF Next

-----------------------------------------------------------------------------
(* What the browser was told.                                              *)

ProfIn(us, rs, u) == rs[us[u].role].profile
AccIn(us, rs, ps, u) ==
  IF rs[us[u].role].scope = "global" THEN "full"
  ELSE IF ps[ProfIn(us, rs, u)].active THEN ps[ProfIn(us, rs, u)].access ELSE "none"
ToldIn(ses, es, us, rs, ps, aged) ==
  \A s \in Tokens \ aged, u \in Users :
    ses[s].user = u =>
      \/ ses[s].access = AccIn(us, rs, ps, u)
      \/ \E e \in Edits : es[e].pc = "drop" /\ es[e].profile = ProfIn(us, rs, u)

LEMMA AccessIs ==
  ASSUME NEW u
  PROVE  /\ AccessOf(u) = AccIn(users, roles, profiles, u)
         /\ AccessOf(u)' = AccIn(users', roles', profiles', u)
         /\ ProfileOf(u) = ProfIn(users, roles, u)
         /\ ProfileOf(u)' = ProfIn(users', roles', u)
  BY DEF AccessOf, ProfileOf, isGlobalScope, AccIn, ProfIn

LEMMA ToldIs ==
  /\ ToldAsStored <=> ToldIn(sessions, edit, users, roles, profiles, past.aged)
  /\ ToldAsStored' <=> ToldIn(sessions', edit', users', roles', profiles', past'.aged)
<1>1. ToldAsStored <=> ToldIn(sessions, edit, users, roles, profiles, past.aged)
  <2>1. \A p : \A s \in Tokens, u \in Users : sessions[s].user = u => (s \in SignedOut(p) <=> ProfIn(users, roles, u) = p)
    BY DEF SignedOut, ProfileOf, ProfIn
  <2>2. \A u \in Users : AccessOf(u) = AccIn(users, roles, profiles, u)
    BY AccessIs
  <2> QED
    BY <2>1, <2>2 DEF ToldAsStored, ToldIn
<1>2. ToldAsStored' <=> ToldIn(sessions', edit', users', roles', profiles', past'.aged)
  <2>1. \A p : \A s \in Tokens : s \in SignedOut(p)' <=> \E u \in Users : sessions'[s].user = u /\ ProfIn(users', roles', u) = p
    BY DEF SignedOut, ProfileOf, ProfIn
  <2>2. ToldAsStored' <=>
          \A s \in Tokens \ past'.aged, u \in Users :
            sessions'[s].user = u =>
              \/ sessions'[s].access = AccIn(users', roles', profiles', u)
              \/ \E e \in Edits : /\ edit'[e].pc = "drop"
                                  /\ \E v \in Users : sessions'[s].user = v /\ ProfIn(users', roles', v) = edit'[e].profile
    BY DEF ToldAsStored, SignedOut, ProfileOf, AccessOf, isGlobalScope, AccIn, ProfIn
  <2> QED
    BY <2>2 DEF ToldIn
<1> QED
  BY <1>1, <1>2

LEMMA ToldInit == Init => ToldAsStored
<1> SUFFICES ASSUME Init PROVE ToldAsStored
  OBVIOUS
<1>1. \A s \in Tokens, u \in Users : sessions[s].user # u
  BY NoneIsNone DEF Init, NoSession
<1> QED
  BY <1>1 DEF ToldAsStored

\* The rows stand; sessions go or stand, and so do edits about to sign out.
LEMMA ToldKept ==
  ASSUME ToldAsStored, UNCHANGED rows, past.aged \subseteq past'.aged,
         \A s \in Tokens : \/ sessions'[s].user = None
                           \/ sessions'[s].user = sessions[s].user /\ sessions'[s].access = sessions[s].access,
         \A e \in Edits : edit[e].pc = "drop" => edit'[e] = edit[e]
  PROVE  ToldAsStored'
<1>1. ToldIn(sessions, edit, users, roles, profiles, past.aged)
  BY ToldIs
<1>2. users' = users /\ roles' = roles /\ profiles' = profiles
  BY DEF rows
<1>3. ToldIn(sessions', edit', users, roles, profiles, past'.aged)
  <2> SUFFICES ASSUME NEW s \in Tokens \ past'.aged, NEW u \in Users, sessions'[s].user = u
               PROVE  \/ sessions'[s].access = AccIn(users, roles, profiles, u)
                      \/ \E e \in Edits : edit'[e].pc = "drop" /\ edit'[e].profile = ProfIn(users, roles, u)
    BY DEF ToldIn
  <2>1. s \in Tokens \ past.aged /\ sessions[s].user = u /\ sessions'[s].access = sessions[s].access
    BY NoneIsNone
  <2>2. \/ sessions[s].access = AccIn(users, roles, profiles, u)
        \/ \E e \in Edits : edit[e].pc = "drop" /\ edit[e].profile = ProfIn(users, roles, u)
    BY <1>1, <2>1 DEF ToldIn
  <2> QED
    BY <2>1, <2>2
<1> QED
  BY <1>2, <1>3, ToldIs

LEMMA ToldAuth ==
  ASSUME Local, Tokenwise, ToldAsStored, NEW t \in Tabs, AuthRequest(t), ~ IssueTokens(t)
  PROVE  ToldAsStored'
<1>1. UNCHANGED <<rows, edit>>
  BY DEF AuthRequest, Login, Refresh, ReadUser, Answer, LoseAnswer, EnterLogout, Logout
<1>2. past'.aged = past.aged
  <2>1. CASE Login(t) \/ Refresh(t) \/ ReadUser(t) \/ Answer(t) \/ EnterLogout(t)
    BY <2>1 DEF Login, Refresh, ReadUser, Answer, EnterLogout
  <2>2. CASE LoseAnswer(t) \/ Logout(t)
    BY <2>2, PastTyped DEF LoseAnswer, Logout, Past
  <2> QED
    BY <2>1, <2>2 DEF AuthRequest
<1>3. \A s \in Tokens : sessions'[s].user = sessions[s].user /\ sessions'[s].access = sessions[s].access
  <2>1. CASE sessions' = sessions
    BY <2>1
  <2>2. CASE Logout(t)
    BY <2>2, SessionTyped DEF Logout, Session
  <2> QED
    BY <2>1, <2>2 DEF AuthRequest, Login, Refresh, ReadUser, Answer, LoseAnswer, EnterLogout
<1> QED
  BY <1>1, <1>2, <1>3, ToldKept

\* The access is the one that was read; if it is another by now, the session is aged.
LEMMA ToldIssue ==
  ASSUME Local, Tokenwise, ToldAsStored, NEW t \in Tabs, IssueTokens(t) PROVE ToldAsStored'
<1> DEFINE n == issued + 1
           z == tab[t].session
           x == IF z = 0 THEN n ELSE z
           acc == AccIn(users, roles, profiles, tab[t].user)
<1>1. UNCHANGED <<rows, edit>> /\ tab[t].pc = "issue" /\ issued < MaxTokens
  BY DEF IssueTokens
<1>2. n \in Tokens /\ z \in Tokens \union {0} /\ tab[t].user \in Users
  BY <1>1, IssuedTyped, TabTyped
<1>3. past'.aged = IF tab[t].access = acc THEN past.aged \ {x} ELSE past.aged \union {x}
  <2>1. past'.aged = IF tab[t].access = AccessOf(tab[t].user) THEN past.aged \ {x} ELSE past.aged \union {x}
    BY PastTyped DEF IssueTokens, Past
  <2>2. AccessOf(tab[t].user) = acc
    BY DEF AccessOf, ProfileOf, isGlobalScope, AccIn, ProfIn
  <2> HIDE DEF acc, x
  <2> QED
    BY <2>1, <2>2
<1>4. \A s \in Tokens \ {x} : sessions'[s] = sessions[s]
  <2>1. sessions \in [Tokens -> Session]
    BY SessionTyped
  <2>2. CASE z = 0
    BY <2>1, <2>2, <1>2 DEF IssueTokens
  <2>3. CASE z # 0
    BY <2>1, <2>3, <1>2 DEF IssueTokens
  <2> QED
    BY <2>2, <2>3
<1>5. /\ x \in Tokens
      /\ sessions'[x].user # None => sessions'[x].user = tab[t].user /\ sessions'[x].access = tab[t].access
  <2>1. sessions \in [Tokens -> Session]
    BY SessionTyped
  <2>2. CASE z = 0
    <3> DEFINE row == [user |-> tab[t].user, token |-> n, active |-> TRUE, fresh |-> TRUE,
                       access |-> tab[t].access]
    <3>1. sessions' = [sessions EXCEPT ![n] = row]
      BY <2>2 DEF IssueTokens
    <3>2. row.user = tab[t].user /\ row.access = tab[t].access
      OBVIOUS
    <3> HIDE DEF row, n
    <3> QED
      BY <2>1, <2>2, <3>1, <3>2, <1>2
  <2>3. CASE z # 0 /\ sessions[z].user = None
    BY <2>1, <2>3, <1>2 DEF IssueTokens
  <2>4. CASE z # 0 /\ sessions[z].user # None
    <3> DEFINE row == Renewed(sessions[z], n, tab[t].access)
    <3>1. sessions' = [sessions EXCEPT ![z] = row]
      BY <2>4 DEF IssueTokens
    <3>2. row.user = sessions[z].user /\ row.access = tab[t].access
      BY <2>1, <2>4, <1>2 DEF Renewed, Session
    <3>3. sessions[z].user = tab[t].user
      BY <2>4, <1>1, <1>2, TabCard, RowCard DEF Tokenwise, Match
    <3> HIDE DEF row, n
    <3> QED
      BY <2>1, <2>4, <3>1, <3>2, <3>3, <1>2
  <2> QED
    BY <2>2, <2>3, <2>4
<1> HIDE DEF x, z, n
<1>6. ToldIn(sessions', edit, users, roles, profiles, past'.aged)
  <2> SUFFICES ASSUME NEW s \in Tokens \ past'.aged, NEW u \in Users, sessions'[s].user = u
               PROVE  \/ sessions'[s].access = AccIn(users, roles, profiles, u)
                      \/ \E e \in Edits : edit[e].pc = "drop" /\ edit[e].profile = ProfIn(users, roles, u)
    BY DEF ToldIn
  <2>1. CASE s = x
    <3>1. u = tab[t].user /\ sessions'[s].access = tab[t].access
      BY <2>1, <1>5, NoneIsNone
    <3>2. tab[t].access = acc
      BY <2>1, <1>3
    <3> QED
      BY <3>1, <3>2
  <2>2. CASE s # x
    <3>1. s \in Tokens \ past.aged /\ sessions[s] = sessions'[s]
      BY <2>2, <1>3, <1>4
    <3> QED
      BY <3>1, ToldIs DEF ToldIn
  <2> QED
    BY <2>1, <2>2
<1> QED
  BY <1>1, <1>6, ToldIs DEF rows

\* Sessions that an edit does not age have the same user, access and profile.
LEMMA AgeMeans ==
  ASSUME Local, Age, UNCHANGED sessions, NEW s \in Tokens \ past'.aged, NEW u \in Users, sessions[s].user = u
  PROVE  /\ s \notin past.aged
         /\ AccIn(users', roles', profiles', u) = AccIn(users, roles, profiles, u)
         /\ ProfIn(users', roles', u) = ProfIn(users, roles, u)
<1>1. past'.aged = past.aged \union Aging
  BY PastTyped DEF Age, Past
<1>2. s \notin past.aged /\ s \notin Aging
  BY <1>1
<1>3. <<AccIn(users', roles', profiles', u), ProfIn(users', roles', u)>>
        = <<AccIn(users, roles, profiles, u), ProfIn(users, roles, u)>>
  BY <1>2 DEF Aging, AccessOf, ProfileOf, isGlobalScope, AccIn, ProfIn
<1> QED
  BY <1>2, <1>3

LEMMA ToldAged ==
  ASSUME Local, ToldAsStored, Age, UNCHANGED sessions,
         \A e \in Edits : edit[e].pc = "drop" => edit'[e] = edit[e]
  PROVE  ToldAsStored'
<1>1. ToldIn(sessions, edit, users, roles, profiles, past.aged)
  BY ToldIs
<1>2. ToldIn(sessions', edit', users', roles', profiles', past'.aged)
  <2> SUFFICES ASSUME NEW s \in Tokens \ past'.aged, NEW u \in Users, sessions[s].user = u
               PROVE  \/ sessions[s].access = AccIn(users', roles', profiles', u)
                      \/ \E e \in Edits : edit'[e].pc = "drop" /\ edit'[e].profile = ProfIn(users', roles', u)
    BY DEF ToldIn
  <2>1. /\ s \notin past.aged
        /\ AccIn(users', roles', profiles', u) = AccIn(users, roles, profiles, u)
        /\ ProfIn(users', roles', u) = ProfIn(users, roles, u)
    BY AgeMeans
  <2>2. \/ sessions[s].access = AccIn(users, roles, profiles, u)
        \/ \E e \in Edits : edit[e].pc = "drop" /\ edit[e].profile = ProfIn(users, roles, u)
    BY <1>1, <2>1 DEF ToldIn
  <2> QED
    BY <2>1, <2>2
<1> QED
  BY <1>2, ToldIs

\* Any write of an edit that is not about to sign out leaves those that are.
LEMMA DropsStay ==
  ASSUME Local, NEW e \in Edits, edit[e].pc # "drop", NEW w, edit' = [edit EXCEPT ![e] = w]
  PROVE  \A x \in Edits : edit[x].pc = "drop" => edit'[x] = edit[x]
  BY DEF Local, TypeOK

LEMMA DropsStayGo ==
  ASSUME Local, NEW e \in Edits, edit[e].pc # "drop", NEW w, Go(e, w)
  PROVE  \A x \in Edits : edit[x].pc = "drop" => edit'[x] = edit[x]
<1>1. PICK v : edit' = [edit EXCEPT ![e] = v]
  BY DEF Go
<1> QED
  BY <1>1, DropsStay

LEMMA ToldBegin ==
  ASSUME Local, ToldAsStored, NEW e \in Edits, EditStart(e), NEW w, Begin(e, w)
  PROVE  ToldAsStored'
<1>1. UNCHANGED <<rows, sessions>> /\ past'.aged = past.aged
  BY PastTyped DEF Begin, Past
<1>2. \A x \in Edits : edit[x].pc = "drop" => edit'[x] = edit[x]
  BY DropsStay DEF EditStart, Begin
<1> QED
  BY <1>1, <1>2, ToldKept

LEMMA ToldStart ==
  ASSUME Local, ToldAsStored, NEW e \in Edits,
         \/ CreateUser(e) \/ UpdateUser(e) \/ RemoveUser(e) \/ CreateRole(e) \/ UpdateRole(e)
         \/ RemoveRole(e) \/ CreateProfile(e) \/ EditProfile(e) \/ RemoveProfile(e)
  PROVE  ToldAsStored'
<1>1. CASE CreateUser(e)
  BY <1>1, ToldBegin DEF CreateUser
<1>2. CASE UpdateUser(e)
  <2>1. PICK u \in Users, p \in Patches :
          LET row == [users[u] EXCEPT !.role = IF p.role = None THEN @ ELSE p.role,
                                      !.centre = IF p.centre = None THEN @ ELSE p.centre]
              lines == LinesAfter(u, p) IN
          Begin(e, [NoEdit EXCEPT !.pc = IF lines = {None} THEN "user" ELSE "lines",
                                  !.user = u, !.urow = row, !.lines = lines])
    BY <1>2 DEF UpdateUser
  <2>2. EditStart(e)
    BY <1>2 DEF UpdateUser
  <2> QED
    BY <2>1, <2>2, ToldBegin
<1>3. CASE RemoveUser(e)
  BY <1>3, ToldBegin DEF RemoveUser
<1>4. CASE CreateRole(e)
  BY <1>4, ToldBegin DEF CreateRole
<1>5. CASE UpdateRole(e)
  <2>1. PICK r \in Roles, p \in RolePatches :
          LET row == [roles[r] EXCEPT !.scope = p.scope, !.admin = p.scope = "centre" /\ p.admin,
                                      !.profile = p.profile] IN
          Begin(e, IF p.access = "same" THEN [NoEdit EXCEPT !.pc = "role", !.role = r, !.rrow = row]
                   ELSE [NoEdit EXCEPT !.pc = "profile", !.role = r, !.rrow = row, !.drop = TRUE,
                           !.profile = p.profile,
                           !.prow = [profiles[p.profile] EXCEPT !.access = p.access]])
    BY <1>5 DEF UpdateRole
  <2>2. EditStart(e)
    BY <1>5 DEF UpdateRole
  <2> QED
    BY <2>1, <2>2, ToldBegin
<1>6. CASE RemoveRole(e)
  BY <1>6, ToldBegin DEF RemoveRole
<1>7. CASE CreateProfile(e)
  BY <1>7, ToldBegin DEF CreateProfile
<1>8. CASE EditProfile(e)
  BY <1>8, ToldBegin DEF EditProfile
<1>9. CASE RemoveProfile(e)
  BY <1>9, ToldBegin DEF RemoveProfile
<1> QED
  BY <1>1, <1>2, <1>3, <1>4, <1>5, <1>6, <1>7, <1>8, <1>9

LEMMA ToldSaveLines ==
  ASSUME Local, ToldAsStored, NEW e \in Edits, SaveLines(e) PROVE ToldAsStored'
<1>1. /\ UNCHANGED <<roles, profiles, sessions, past>> /\ edit[e].pc = "lines"
      /\ users' = [users EXCEPT ![edit[e].user].lines = edit[e].lines]
  BY DEF SaveLines
<1>2. \A x \in Edits : edit[x].pc = "drop" => edit'[x] = edit[x]
  BY <1>1, DropsStayGo DEF SaveLines
<1>3. \A u \in Users : users'[u].role = users[u].role
  BY <1>1 DEF Local, TypeOK, User
<1>4. ASSUME NEW u \in Users
      PROVE  /\ AccIn(users', roles', profiles', u) = AccIn(users, roles, profiles, u)
             /\ ProfIn(users', roles', u) = ProfIn(users, roles, u)
  <2>1. users'[u].role = users[u].role /\ roles' = roles /\ profiles' = profiles
    BY <1>1, <1>3
  <2>2. ProfIn(users', roles', u) = ProfIn(users, roles, u)
    BY <2>1 DEF ProfIn
  <2> QED
    BY <2>1, <2>2 DEF AccIn
<1>5. ToldIn(sessions, edit, users, roles, profiles, past.aged)
  BY ToldIs
<1>6. ToldIn(sessions', edit', users', roles', profiles', past'.aged)
  BY <1>1, <1>2, <1>4, <1>5 DEF ToldIn
<1> QED
  BY <1>6, ToldIs

LEMMA ToldSaveUser ==
  ASSUME Local, ToldAsStored, NEW e \in Edits, SaveUser(e) PROVE ToldAsStored'
<1>1. UNCHANGED <<roles, profiles, sessions>> /\ edit[e].pc = "user"
  BY DEF SaveUser
<1>2. CASE edit' = [edit EXCEPT ![e] = NoEdit] /\ UNCHANGED <<users, past>>
  BY <1>1, <1>2, DropsStay, ToldKept DEF rows
<1>3. CASE Age /\ \E w : Go(e, w)
  BY <1>1, <1>3, DropsStayGo, ToldAged
<1> QED
  BY <1>2, <1>3 DEF SaveUser

\* An edit that signs nobody out ages; one that does is about to.
LEMMA ToldSaveProfile ==
  ASSUME Local, ToldAsStored, NEW e \in Edits, SaveProfile(e) PROVE ToldAsStored'
<1> DEFINE k == IF edit[e].drop THEN "drop" ELSE "idle"
           w == [edit[e] EXCEPT !.pc = k, !.prow = None]
           f == edit[e].profile
<1>1. /\ UNCHANGED <<users, roles, sessions>> /\ edit[e].pc = "profile" /\ Go(e, w)
      /\ profiles' = [profiles EXCEPT ![f] = edit[e].prow]
      /\ IF edit[e].drop THEN past' = past ELSE Age
  BY DEF SaveProfile
<1>2. \A x \in Edits : edit[x].pc = "drop" => edit'[x] = edit[x]
  BY <1>1, DropsStayGo
<1>3. CASE ~ edit[e].drop
  BY <1>1, <1>2, <1>3, ToldAged
<1>4. CASE edit[e].drop
  <2>1. edit[e] \in Edit /\ profiles \in [Profiles -> Profile] /\ edit \in [Edits -> Edit] /\ f \in Profiles
    BY <1>1, EditTyped DEF Local, TypeOK
  <2>2. w.pc = "drop" /\ w.profile = f
    BY <1>4, <2>1 DEF Edit
  <2>3. edit'[e].pc = "drop" /\ edit'[e].profile = f
    BY <1>1, <2>1, <2>2 DEF Go
  <2> HIDE DEF f, w
  <2>4. \A u \in Users : ProfIn(users', roles', u) = ProfIn(users, roles, u)
    BY <1>1 DEF ProfIn
  <2>5. \A u \in Users : ProfIn(users, roles, u) # f =>
          AccIn(users', roles', profiles', u) = AccIn(users, roles, profiles, u)
    BY <1>1, <2>1, <2>4 DEF AccIn
  <2>6. ToldIn(sessions, edit, users, roles, profiles, past.aged)
    BY ToldIs
  <2>7. ToldIn(sessions', edit', users', roles', profiles', past'.aged)
    <3> SUFFICES ASSUME NEW s \in Tokens \ past.aged, NEW u \in Users, sessions[s].user = u
                 PROVE  \/ sessions[s].access = AccIn(users', roles', profiles', u)
                        \/ \E x \in Edits : edit'[x].pc = "drop" /\ edit'[x].profile = ProfIn(users', roles', u)
      BY <1>1, <1>4 DEF ToldIn
    <3>1. CASE ProfIn(users, roles, u) = f
      BY <3>1, <2>3, <2>4
    <3>2. CASE ProfIn(users, roles, u) # f
      BY <3>2, <1>2, <2>4, <2>5, <2>6 DEF ToldIn
    <3> QED
      BY <3>1, <3>2
  <2> QED
    BY <2>7, ToldIs
<1> QED
  BY <1>3, <1>4

LEMMA ToldSaveRole ==
  ASSUME Local, ToldAsStored, NEW e \in Edits, SaveRole(e) PROVE ToldAsStored'
<1>1. UNCHANGED <<users, profiles, sessions>> /\ edit[e].pc = "role" /\ edit' = [edit EXCEPT ![e] = NoEdit]
  BY DEF SaveRole
<1>2. \A x \in Edits : edit[x].pc = "drop" => edit'[x] = edit[x]
  BY <1>1, DropsStay
<1>3. CASE UNCHANGED <<roles, past>>
  BY <1>1, <1>2, <1>3, ToldKept DEF rows
<1>4. CASE Age
  BY <1>1, <1>2, <1>4, ToldAged
<1> QED
  BY <1>3, <1>4 DEF SaveRole

\* Signing out takes the sessions the edit had to.
LEMMA ToldDrop ==
  ASSUME Local, ToldAsStored, NEW e \in Edits, Drop(e) PROVE ToldAsStored'
<1> DEFINE f == edit[e].profile
           gone == SignedOut(f)
<1>1. /\ UNCHANGED rows /\ edit[e].pc = "drop"
      /\ sessions' = [s \in Tokens |-> IF s \in gone THEN NoSession ELSE sessions[s]]
      /\ \E w : Go(e, w)
  BY DEF Drop
<1>2. past'.aged = past.aged
  BY PastTyped DEF Drop, Past
<1>3. \A x \in Edits \ {e} : edit'[x] = edit[x]
  BY <1>1 DEF Go, Local, TypeOK
<1>4. \A s \in Tokens, u \in Users : sessions[s].user = u /\ ProfIn(users, roles, u) = f => s \in gone
  BY DEF SignedOut, ProfileOf, ProfIn
<1> HIDE DEF gone
<1>5. \A s \in Tokens : sessions'[s].user = None \/ (s \notin gone /\ sessions'[s] = sessions[s])
  BY <1>1 DEF NoSession
<1>6. ToldIn(sessions', edit', users, roles, profiles, past.aged)
  <2> SUFFICES ASSUME NEW s \in Tokens \ past.aged, NEW u \in Users, sessions'[s].user = u
               PROVE  \/ sessions'[s].access = AccIn(users, roles, profiles, u)
                      \/ \E x \in Edits : edit'[x].pc = "drop" /\ edit'[x].profile = ProfIn(users, roles, u)
    BY DEF ToldIn
  <2>1. s \notin gone /\ sessions'[s] = sessions[s]
    BY <1>5, NoneIsNone
  <2>2. ProfIn(users, roles, u) # f
    BY <2>1, <1>4
  <2>3. \/ sessions[s].access = AccIn(users, roles, profiles, u)
        \/ \E x \in Edits : edit[x].pc = "drop" /\ edit[x].profile = ProfIn(users, roles, u)
    BY <2>1, ToldIs DEF ToldIn
  <2> QED
    BY <2>1, <2>2, <2>3, <1>3
<1> QED
  BY <1>1, <1>2, <1>6, ToldIs DEF rows

LEMMA ToldAbandon ==
  ASSUME Local, ToldAsStored, NEW e \in Edits, Abandon(e) PROVE ToldAsStored'
<1>1. UNCHANGED <<rows, sessions>> /\ edit' = [edit EXCEPT ![e] = NoEdit]
  BY DEF Abandon
<1>2. past'.aged = IF edit[e].pc = "drop" THEN past.aged \union SignedOut(edit[e].profile) ELSE past.aged
  BY PastTyped DEF Abandon, Past
<1>3. CASE edit[e].pc # "drop"
  BY <1>1, <1>2, <1>3, DropsStay, ToldKept
<1>4. CASE edit[e].pc = "drop"
  <2>1. \A x \in Edits \ {e} : edit'[x] = edit[x]
    BY <1>1 DEF Local, TypeOK
  <2>2. \A s \in Tokens, u \in Users : sessions[s].user = u /\ ProfIn(users, roles, u) = edit[e].profile
          => s \in past'.aged
    BY <1>2, <1>4 DEF SignedOut, ProfileOf, ProfIn
  <2>3. ToldIn(sessions, edit', users, roles, profiles, past'.aged)
    <3> SUFFICES ASSUME NEW s \in Tokens \ past'.aged, NEW u \in Users, sessions[s].user = u
                 PROVE  \/ sessions[s].access = AccIn(users, roles, profiles, u)
                        \/ \E x \in Edits : edit'[x].pc = "drop" /\ edit'[x].profile = ProfIn(users, roles, u)
      BY DEF ToldIn
    <3>1. s \notin past.aged /\ ProfIn(users, roles, u) # edit[e].profile
      BY <1>2, <1>4, <2>2
    <3>2. \/ sessions[s].access = AccIn(users, roles, profiles, u)
          \/ \E x \in Edits : edit[x].pc = "drop" /\ edit[x].profile = ProfIn(users, roles, u)
      BY <3>1, ToldIs DEF ToldIn
    <3> QED
      BY <3>1, <3>2, <2>1
  <2> QED
    BY <1>1, <2>3, ToldIs DEF rows
<1> QED
  BY <1>3, <1>4

LEMMA ToldStep == Local /\ Tokenwise /\ ToldAsStored /\ [Next]_vars => ToldAsStored'
<1> SUFFICES ASSUME Local, Tokenwise, ToldAsStored, [Next]_vars PROVE ToldAsStored'
  OBVIOUS
<1>1. CASE UNCHANGED vars
  BY <1>1, ToldKept DEF vars, rows
<1>2. ASSUME NEW t \in Tabs, AuthRequest(t) PROVE ToldAsStored'
  BY <1>2, ToldAuth, ToldIssue
<1>3. CASE Expire
  <2>1. UNCHANGED <<rows, edit>> /\ past'.aged = past.aged
    BY <1>3, PastTyped DEF Expire, Past
  <2>2. \A s \in Tokens : sessions'[s].user = sessions[s].user /\ sessions'[s].access = sessions[s].access
    BY <1>3, SessionTyped DEF Expire, Session
  <2> QED
    BY <2>1, <2>2, ToldKept
<1>4. ASSUME NEW e \in Edits, UserRequest(e) PROVE ToldAsStored'
  BY <1>4, ToldStart, ToldSaveLines, ToldSaveUser DEF UserRequest
<1>5. ASSUME NEW e \in Edits, RoleRequest(e) PROVE ToldAsStored'
  BY <1>5, ToldStart, ToldSaveRole DEF RoleRequest
<1>6. ASSUME NEW e \in Edits, ProfileRequest(e) PROVE ToldAsStored'
  BY <1>6, ToldStart, ToldSaveProfile DEF ProfileRequest
<1>7. ASSUME NEW e \in Edits, Drop(e) \/ Abandon(e) PROVE ToldAsStored'
  BY <1>7, ToldDrop, ToldAbandon
<1> QED
  BY <1>1, <1>2, <1>3, <1>4, <1>5, <1>6, <1>7 DEF Next

\* For any number of tabs, and of edits of the access meanwhile: a session that was
\* logged out stays closed, the browser's tokens are good, and it was told the
\* permissions it has, unless a refresh crossed with another or with a logout, an
\* answer was lost, or the edit is one that signs nobody out.
THEOREM SessionsInvHolds == Spec => []SessionsInv
<1>1. Init => Local /\ Tokenwise /\ ToldAsStored
  BY LocalInit, TokensInit, ToldInit
<1>2. Local /\ Tokenwise /\ ToldAsStored /\ [Next]_vars => (Local /\ Tokenwise /\ ToldAsStored)'
  BY LocalStep, TokensStep, ToldStep
<1>3. Tokenwise /\ ToldAsStored => SessionsInv
  BY DEF Tokenwise, OutAtRest, SessionsInv, LoggedOutStays
<1> QED
  BY <1>1, <1>2, <1>3, PTL DEF Spec
-----------------------------------------------------------------------------
(* AuditTrail: what is told of a row while requests have it open.          *)

\* A side that is told tells this row.
Fits(s, r) == s.told => s = Tell(r)

Saving(x) == {w \in Writers : writer[w].at = x /\ writer[w].pc = "save"}

\* What a request holds is the row it read, unless it is stale, and what it
\* told is in its context, and in the stash until another takes it.
OpenInv(q, str) ==
  /\ q.at \in Items
  /\ \E v \in Values : q.want = Wanted(q.op, q.read, v)
  /\ q.op = "create" <=> q.read.st = "absent"
  /\ q.op = "upload" => q.at \in CaptureRows
  /\ ~ q.stale => str[q.at] = q.read
ToldInv(q, ctx, sth) ==
  ~ q.quiet => /\ ctx = Describes(q)
               /\ ~ q.stale /\ q.at \notin ContextRows => sth[q.at].after.told
RequestInv ==
  \A w \in Writers :
    /\ writer[w].pc \in {"describe", "save"} => OpenInv(writer[w], store)
    /\ writer[w].pc = "save" => ToldInv(writer[w], context[w], stash)

\* The stash of a row nobody saves, and of a row one request saves.
RestInv(x) ==
  x \notin odd /\ Saving(x) = {} => Fits(stash[x].before, store[x])
AloneInv(x) ==
  \A w \in Writers :
    x \notin odd /\ x \notin ContextRows /\ Saving(x) = {w} /\ ~ writer[w].stale /\ ~ writer[w].quiet =>
      /\ stash[x].after = Describes(writer[w]).after
      /\ \/ stash[x].before = Describes(writer[w]).before
         \/ ~ Describes(writer[w]).before.told /\ Fits(stash[x].before, store[x])
StashInv ==
  /\ \A x \in ContextRows : stash[x] = Nothing
  /\ \A x \in Items : RestInv(x) /\ AloneInv(x)

AuditInv == TypeOKAudit /\ RequestInv /\ StashInv /\ EntriesNamed /\ LogTellsRow

LEMMA UntoldType == Untold.value \in Values /\ Nothing \in Description /\ Absent \in Item /\ NoWriter \in Writer
<1>1. \E v \in Values : TRUE
  BY RowsAssumption
<1> QED
  BY <1>1 DEF Untold, Nothing, Description, Absent, Item, NoWriter, Writer

LEMMA TellType == \A r \in Item : Tell(r) \in [value : Values, mark : BOOLEAN, told : BOOLEAN]
  BY DEF Tell, Item

LEMMA WantedType ==
  ASSUME NEW r \in Item, NEW v \in Values,
         NEW op \in {"create", "edit", "upload", "validate", "remove"}
  PROVE  /\ Wanted(op, r, v) \in Item
         /\ r.st # "absent" \/ op = "create" => Wanted(op, r, v).st # "absent"
         /\ op = "create" => Wanted(op, r, v).st = "live"
         /\ op = "remove" => Wanted(op, r, v) = [r EXCEPT !.st = "gone"]
         /\ op \in {"edit", "upload"} => Wanted(op, r, v) = [r EXCEPT !.value = v]
<1>1. CASE op = "create"
  BY <1>1 DEF Wanted, Item
<1>2. CASE op \in {"edit", "upload"}
  BY <1>2 DEF Wanted, Item
<1>3. CASE op = "validate"
  BY <1>3 DEF Wanted, Item
<1>4. CASE op = "remove"
  BY <1>4 DEF Wanted, Item
<1> QED
  BY <1>1, <1>2, <1>3, <1>4

LEMMA DescribesType == \A q \in Writer : Describes(q) \in Description /\ Describes(q).after.told
<1> SUFFICES ASSUME NEW q \in Writer PROVE Describes(q) \in Description /\ Describes(q).after.told
  OBVIOUS
<1>1. q.read \in Item /\ q.want \in Item
  BY DEF Writer
<1>2. /\ Tell(q.read) \in [value : Values, mark : BOOLEAN, told : BOOLEAN] /\ Tell(q.read).told
      /\ Tell(q.want) \in [value : Values, mark : BOOLEAN, told : BOOLEAN] /\ Tell(q.want).told
  BY <1>1, TellType DEF Tell
<1>3. Untold \in [value : Values, mark : BOOLEAN, told : BOOLEAN]
  BY UntoldType DEF Untold
<1> QED
  BY <1>2, <1>3 DEF Describes, Description

\* What an entry is made of.
Side(s, c) == IF s.told THEN s ELSE c
Over(r, d) == [r EXCEPT !.value = d.value, !.mark = d.mark]

LEMMA OverTell == \A r, s \in Item : /\ Over(r, Tell(s)) \in Item
                                     /\ r.value = s.value /\ r.mark = s.mark => Over(r, Tell(s)) = r
                                     /\ Tell(Over(r, Tell(s))) = Tell(s)
  BY DEF Over, Tell, Item

LEMMA MergedIs ==
  ASSUME NEW w, NEW x, NEW loaded, NEW saved
  PROVE  /\ Merged(w, x, loaded, saved).after =
              IF Side(stash[x].after, context[w].after).told
              THEN Over(saved, Side(stash[x].after, context[w].after)) ELSE saved
         /\ Merged(w, x, loaded, saved).before =
              IF Side(stash[x].before, context[w].before).told
              THEN Over(loaded, Side(stash[x].before, context[w].before))
              ELSE IF Side(stash[x].after, context[w].after).told /\ loaded.st # "absent"
              THEN Over(loaded, Side(stash[x].after, context[w].after)) ELSE loaded
         /\ Merged(w, x, loaded, saved).named = Side(stash[x].after, context[w].after).told
         /\ Merged(w, x, loaded, saved).action = resolveUpdateAction(loaded, saved)
         /\ Merged(w, x, loaded, saved).fate = "waiting"
  BY DEF Merged, Side, Over

LEMMA MergedType ==
  ASSUME NEW w, NEW x, stash[x] \in Description, context[w] \in Description,
         NEW loaded \in Item, NEW saved \in Item
  PROVE  Merged(w, x, loaded, saved) \in Entry
<1> DEFINE m == Merged(w, x, loaded, saved)
           T == [value : Values, mark : BOOLEAN, told : BOOLEAN]
<1>1. /\ Side(stash[x].after, context[w].after) \in T /\ Side(stash[x].before, context[w].before) \in T
  BY DEF Side, Description
<1>2. \A r \in Item, d \in T : Over(r, d) \in Item
  BY DEF Over, Item
<1>3. resolveUpdateAction(loaded, saved) \in {"CREATE", "UPDATE", "DELETE", "RESTORE"}
  BY DEF resolveUpdateAction
<1>4. m.before \in Item /\ m.after \in Item /\ m.named \in BOOLEAN
  BY <1>1, <1>2, MergedIs
<1>5. m = [action |-> m.action, before |-> m.before, after |-> m.after, named |-> m.named, fate |-> m.fate]
  BY DEF Merged
<1>6. m.action \in {"CREATE", "UPDATE", "DELETE", "RESTORE"} /\ m.fate = "waiting"
  BY <1>3, MergedIs
<1> HIDE DEF m
<1>7. [action |-> m.action, before |-> m.before, after |-> m.after, named |-> m.named, fate |-> m.fate] \in Entry
  BY <1>4, <1>6 DEF Entry
<1> QED
  BY <1>5, <1>7 DEF m

\* The entries of one row since its last gap.
Before(es, b, i) == IF i = b.count + 1 THEN b.row ELSE es[i - 1].after
OfUpload(x, e) == x \in CaptureRows /\ Tell(e.before) = Tell(e.after)
Tells(x, es, b, r) ==
  /\ \A i \in b.count + 1 .. Len(es) : es[i].before = Before(es, b, i) \/ OfUpload(x, es[i])
  /\ r = IF Len(es) = b.count THEN b.row ELSE es[Len(es)].after

LEMMA LogByRow == LogTellsRow <=> \A x \in Items : Tells(x, trail[x], begun[x], store[x])
  BY DEF LogTellsRow, Tells, Before, OfUpload

LEMMA TellsGap ==
  ASSUME NEW x, NEW es \in Seq(Entry), NEW r PROVE Tells(x, es, [count |-> Len(es), row |-> r], r)
<1>1. Len(es) \in Nat
  OBVIOUS
<1>2. Len(es) + 1 .. Len(es) = {}
  BY <1>1
<1> QED
  BY <1>2 DEF Tells

LEMMA TellsAppend ==
  ASSUME NEW x, NEW es \in Seq(Entry), NEW e \in Entry, NEW b, b.count \in Nat, b.count <= Len(es),
         NEW r, Tells(x, es, b, r), e.before = r \/ OfUpload(x, e)
  PROVE  Tells(x, Append(es, e), b, e.after)
<1> DEFINE fs == Append(es, e)
           n == Len(es)
<1>1. n \in Nat /\ Len(fs) = n + 1 /\ fs[n + 1] = e /\ \A i \in 1 .. n : fs[i] = es[i]
  OBVIOUS
<1> HIDE DEF fs, n
<1>2. ASSUME NEW i \in b.count + 1 .. Len(fs) PROVE fs[i].before = Before(fs, b, i) \/ OfUpload(x, fs[i])
  <2>1. CASE i = n + 1
    <3>1. CASE b.count = n
      <4>1. Before(fs, b, i) = r
        BY <2>1, <3>1 DEF Before, Tells, n
      <4> QED
        BY <1>1, <2>1, <4>1
    <3>2. CASE b.count # n
      <4>1. n \in 1 .. n /\ i - 1 = n /\ i # b.count + 1
        BY <1>1, <2>1, <3>2 DEF n
      <4>2. Before(fs, b, i) = es[n].after
        BY <1>1, <4>1 DEF Before
      <4>3. r = es[n].after
        BY <3>2 DEF Tells, n
      <4> QED
        BY <1>1, <2>1, <4>2, <4>3
    <3> QED
      BY <3>1, <3>2
  <2>2. CASE i # n + 1
    <3>1. i \in b.count + 1 .. n /\ i \in 1 .. n /\ (i # b.count + 1 => i - 1 \in 1 .. n)
      BY <1>1, <2>2
    <3>2. Before(fs, b, i) = Before(es, b, i)
      BY <1>1, <3>1 DEF Before
    <3> QED
      BY <1>1, <3>1, <3>2 DEF Tells, n
  <2> QED
    BY <2>1, <2>2
<1>3. Len(fs) # b.count /\ fs[Len(fs)].after = e.after
  BY <1>1 DEF n
<1> QED
  BY <1>2, <1>3 DEF Tells, fs

LEMMA TellsFate ==
  ASSUME NEW x, NEW es \in Seq(Entry), NEW fs, NEW b, b.count \in Nat, NEW r, Tells(x, es, b, r),
         b.count <= Len(es),
         Len(fs) = Len(es), \A i \in 1 .. Len(es) : fs[i].before = es[i].before /\ fs[i].after = es[i].after
  PROVE  Tells(x, fs, b, r)
<1>1. ASSUME NEW i \in b.count + 1 .. Len(es) PROVE fs[i].before = Before(fs, b, i) \/ OfUpload(x, fs[i])
  <2>1. i \in 1 .. Len(es) /\ (i # b.count + 1 => i - 1 \in 1 .. Len(es))
    OBVIOUS
  <2>2. es[i].before = Before(es, b, i) \/ OfUpload(x, es[i])
    BY DEF Tells
  <2>3. Before(fs, b, i) = Before(es, b, i)
    BY <2>1 DEF Before
  <2>4. OfUpload(x, es[i]) => OfUpload(x, fs[i])
    BY <2>1 DEF OfUpload, Tell
  <2> QED
    BY <2>1, <2>2, <2>3, <2>4
<1>2. Len(es) # b.count => Len(es) \in 1 .. Len(es)
  OBVIOUS
<1> QED
  BY <1>1, <1>2 DEF Tells

RequestOK(w) ==
  /\ writer[w].pc \in {"describe", "save"} => OpenInv(writer[w], store)
  /\ writer[w].pc = "save" => ToldInv(writer[w], context[w], stash)
RowInv(x) ==
  /\ Tells(x, trail[x], begun[x], store[x])
  /\ \A i \in 1 .. Len(trail[x]) : trail[x][i].named
  /\ RestInv(x) /\ AloneInv(x)
  /\ x \in ContextRows => stash[x] = Nothing

LEMMA AuditParts ==
  AuditInv <=> TypeOKAudit /\ (\A w \in Writers : RequestOK(w)) /\ (\A x \in Items : RowInv(x))
<1>1. \A x \in ContextRows : x \in Items
  BY DEF Items
<1> QED
  BY <1>1, LogByRow DEF AuditInv, RequestInv, RequestOK, RowInv, StashInv, EntriesNamed

LEMMA AuditNext ==
  ASSUME TypeOKAudit', \A w \in Writers : RequestOK(w)', \A x \in Items : RowInv(x)' PROVE AuditInv'
<1>1. \A x \in ContextRows : x \in Items
  BY DEF Items
<1>2. \A x \in Items : Tells(x, trail'[x], begun'[x], store'[x])
  BY DEF RowInv
<1>3. LogTellsRow'
  BY <1>2 DEF LogTellsRow, Tells, Before, OfUpload
<1>4. EntriesNamed' /\ StashInv'
  BY <1>1 DEF RowInv, EntriesNamed, StashInv
<1>5. RequestInv'
  BY DEF RequestInv, RequestOK
<1> QED
  BY <1>3, <1>4, <1>5 DEF AuditInv

LEMMA AuditTypes ==
  ASSUME TypeOKAudit
  PROVE  /\ store \in [Items -> Item] /\ stash \in [Items -> Description]
         /\ context \in [Writers -> Description] /\ writer \in [Writers -> Writer]
         /\ trail \in [Items -> Seq(Entry)] /\ begun \in [Items -> [count : Nat, row : Item]]
         /\ \A x \in Items : begun[x].count <= Len(trail[x]) /\ Len(trail[x]) \in Nat
         /\ odd \subseteq Items /\ writes \in 0 .. WriteLimit /\ mishaps \in 0 .. MishapLimit
  BY DEF TypeOKAudit

\* A row that nobody touches.
Untouched(x) ==
  /\ trail'[x] = trail[x] /\ begun'[x] = begun[x] /\ store'[x] = store[x] /\ stash'[x] = stash[x]
  /\ x \in odd' <=> x \in odd
  /\ \A w \in Writers : (writer[w].at = x /\ writer[w].pc = "save") \/ (writer'[w].at = x /\ writer'[w].pc = "save")
                        => writer'[w] = writer[w]

LEMMA SameRow == ASSUME NEW x, RowInv(x), Untouched(x) PROVE RowInv(x)'
<1>1. Saving(x)' = Saving(x)
  BY DEF Untouched, Saving
<1>2. RestInv(x)'
  BY <1>1 DEF RowInv, RestInv, Untouched
<1>3. ASSUME NEW w \in Writers, x \notin odd, x \notin ContextRows, Saving(x) = {w}, ~ writer'[w].stale, ~ writer'[w].quiet
      PROVE  /\ stash[x].after = Describes(writer'[w]).after
             /\ \/ stash[x].before = Describes(writer'[w]).before
                \/ ~ Describes(writer'[w]).before.told /\ Fits(stash[x].before, store[x])
  <2>1. w \in Saving(x)
    BY <1>3
  <2>2. writer'[w] = writer[w]
    BY <2>1 DEF Untouched, Saving
  <2> QED
    BY <1>3, <2>2 DEF RowInv, AloneInv
<1>4. AloneInv(x)'
  BY <1>1, <1>3 DEF AloneInv, Untouched
<1>5. Tells(x, trail'[x], begun'[x], store'[x])
  BY DEF RowInv, Untouched
<1> QED
  BY <1>2, <1>4, <1>5 DEF RowInv, Untouched

\* A row whose entries start again.
LEMMA GapRow ==
  ASSUME NEW x, trail'[x] \in Seq(Entry), \A i \in 1 .. Len(trail'[x]) : trail'[x][i].named,
         begun'[x] = [count |-> Len(trail'[x]), row |-> store'[x]],
         x \in odd' <=> stash'[x] # Nothing,
         x \in ContextRows => stash'[x] = Nothing,
         \A w \in Writers : writer'[w].at = x /\ writer'[w].pc = "save" /\ ~ writer'[w].stale /\ ~ writer'[w].quiet
                            /\ x \notin ContextRows => stash'[x] # Nothing
  PROVE  RowInv(x)'
<1>1. Tells(x, trail'[x], begun'[x], store'[x])
  BY TellsGap
<1>2. RestInv(x)'
  BY DEF RestInv, Fits, Nothing, Untold
<1>3. ASSUME NEW w \in Writers, x \notin odd', x \notin ContextRows, Saving(x)' = {w}, ~ writer'[w].stale, ~ writer'[w].quiet
      PROVE  FALSE
  <2>1. writer'[w].at = x /\ writer'[w].pc = "save"
    BY <1>3 DEF Saving
  <2> QED
    BY <1>3, <2>1
<1>4. AloneInv(x)'
  BY <1>3 DEF AloneInv
<1> QED
  BY <1>1, <1>2, <1>4 DEF RowInv

\* A request that goes on as it is, or is outdated.
Kept(w) ==
  /\ context'[w] = context[w]
  /\ \/ /\ writer'[w] = writer[w]
        /\ writer[w].pc \in {"describe", "save"} =>
             /\ store'[writer[w].at] = store[writer[w].at]
             /\ stash[writer[w].at].after.told => stash'[writer[w].at].after.told
     \/ writer'[w] = [writer[w] EXCEPT !.stale = TRUE]

LEMMA KeptOK == ASSUME TypeOKAudit, NEW w \in Writers, RequestOK(w), Kept(w) PROVE RequestOK(w)'
<1> DEFINE q == writer[w]
<1>1. q \in Writer
  BY AuditTypes
<1>2. CASE writer'[w] = q
  <2>1. q.pc \in {"describe", "save"} => OpenInv(q, store') 
    BY <1>2, <1>1 DEF Kept, RequestOK, OpenInv, Writer
  <2>2. q.pc = "save" => ToldInv(q, context'[w], stash')
    BY <1>2, <1>1 DEF Kept, RequestOK, ToldInv, Writer
  <2> QED
    BY <1>2, <2>1, <2>2 DEF RequestOK
<1>3. CASE writer'[w] = [q EXCEPT !.stale = TRUE]
  <2> DEFINE s == [q EXCEPT !.stale = TRUE]
  <2>1. s.pc = q.pc /\ s.at = q.at /\ s.op = q.op /\ s.read = q.read /\ s.want = q.want /\ s.quiet = q.quiet /\ s.stale
    BY <1>1 DEF Writer
  <2> HIDE DEF s
  <2>2. Describes(s) = Describes(q)
    BY <2>1 DEF Describes
  <2>3. q.pc \in {"describe", "save"} => OpenInv(s, store')
    BY <2>1 DEF RequestOK, OpenInv
  <2>4. q.pc = "save" => ToldInv(s, context'[w], stash')
    BY <2>1, <2>2 DEF RequestOK, ToldInv, Kept
  <2> QED
    BY <1>3, <2>1, <2>3, <2>4 DEF RequestOK, s
<1> QED
  BY <1>2, <1>3 DEF Kept

LEMMA ReadAudit ==
  ASSUME AuditInv, NEW w \in Writers, NEW x \in Items, NEW op \in {"create", "edit", "upload", "validate", "remove"},
         NEW v \in Values, NEW quiet \in BOOLEAN, ReadRow(w, x, op, v, quiet)
  PROVE  AuditInv'
<1> DEFINE q == [NoWriter EXCEPT !.pc = "describe", !.at = x, !.op = op, !.read = store[x],
                                 !.want = Wanted(op, store[x], v), !.quiet = quiet]
<1>1. TypeOKAudit /\ (\A p \in Writers : RequestOK(p)) /\ (\A y \in Items : RowInv(y))
  BY AuditParts
<1>2. /\ writer' = [writer EXCEPT ![w] = q] /\ writer[w].pc = "idle" /\ writes < WriteLimit /\ writes' = writes + 1
      /\ store[x].st = (IF op = "create" THEN "absent" ELSE "live") /\ (op \in {"upload", "validate"} => x \in CaptureRows)
      /\ UNCHANGED <<store, stash, context, trail, begun, odd, mishaps>>
  BY DEF ReadRow
<1>3. /\ q.pc = "describe" /\ q.at = x /\ q.op = op /\ q.read = store[x] /\ q.want = Wanted(op, store[x], v)
      /\ q.quiet = quiet /\ q.stale = FALSE
  BY DEF NoWriter
<1>4. Wanted(op, store[x], v) \in Item /\ store[x] \in Item
  BY <1>1, AuditTypes, WantedType
<1>5. q \in Writer
  BY <1>4, UntoldType DEF Writer
<1> HIDE DEF q
<1>6. /\ writer'[w] = q /\ \A p \in Writers \ {w} : writer'[p] = writer[p]
      /\ writer' \in [Writers -> Writer]
  BY <1>1, <1>2, <1>5, AuditTypes
<1>7. TypeOKAudit'
  <2>1. writes' \in 0 .. WriteLimit
    BY <1>1, <1>2, AuditLimits, AuditTypes
  <2> QED
    BY <1>1, <1>2, <1>6, <2>1 DEF TypeOKAudit
<1>8. ASSUME NEW p \in Writers PROVE RequestOK(p)'
  <2>1. CASE p = w
    <3>1. OpenInv(q, store')
      BY <1>2, <1>3 DEF OpenInv
    <3> QED
      BY <1>3, <1>6, <2>1, <3>1 DEF RequestOK
  <2>2. CASE p # w
    <3>1. Kept(p)
      BY <1>2, <1>6, <2>2 DEF Kept
    <3> QED
      BY <1>1, <3>1, KeptOK
  <2> QED
    BY <2>1, <2>2
<1>9. ASSUME NEW y \in Items PROVE RowInv(y)'
  <2>1. ASSUME NEW p \in Writers, p = w PROVE writer'[p].pc # "save" /\ writer[p].pc # "save"
    BY <2>1, <1>2, <1>3, <1>6
  <2>2. Untouched(y)
    BY <1>2, <1>6, <2>1 DEF Untouched
  <2> QED
    BY <1>1, <2>2, SameRow
<1> QED
  BY <1>7, <1>8, <1>9, AuditNext

LEMMA ClearAudit == ASSUME AuditInv, NEW w \in Writers, ClearContext(w) PROVE AuditInv'
<1>1. TypeOKAudit /\ (\A p \in Writers : RequestOK(p)) /\ (\A y \in Items : RowInv(y))
  BY AuditParts
<1>2. /\ writer' = [writer EXCEPT ![w] = NoWriter] /\ writer[w].pc = "end"
      /\ context' = [context EXCEPT ![w] = Nothing]
      /\ UNCHANGED <<store, stash, trail, begun, odd, writes, mishaps>>
  BY DEF ClearContext
<1>3. NoWriter.pc = "idle"
  BY DEF NoWriter
<1>4. /\ writer'[w] = NoWriter /\ \A p \in Writers \ {w} : writer'[p] = writer[p] /\ context'[p] = context[p]
      /\ writer' \in [Writers -> Writer] /\ context' \in [Writers -> Description]
  BY <1>1, <1>2, UntoldType, AuditTypes
<1>5. TypeOKAudit'
  BY <1>1, <1>2, <1>4 DEF TypeOKAudit
<1>6. ASSUME NEW p \in Writers PROVE RequestOK(p)'
  <2>1. CASE p = w
    BY <1>3, <1>4, <2>1 DEF RequestOK
  <2>2. CASE p # w
    <3>1. Kept(p)
      BY <1>2, <1>4, <2>2 DEF Kept
    <3> QED
      BY <1>1, <3>1, KeptOK
  <2> QED
    BY <2>1, <2>2
<1>7. ASSUME NEW y \in Items PROVE RowInv(y)'
  <2>1. Untouched(y)
    BY <1>2, <1>3, <1>4 DEF Untouched
  <2> QED
    BY <1>1, <2>1, SameRow
<1> QED
  BY <1>5, <1>6, <1>7, AuditNext

LEMMA DescribeAudit == ASSUME AuditInv, NEW w \in Writers, Describe(w) PROVE AuditInv'
<1>0. PICK x : x = writer[w].at
  OBVIOUS
<1> DEFINE q == writer[w]
           d == Describes(q)
           q2 == [q EXCEPT !.pc = "save"]
           s2 == [before |-> IF d.before.told THEN d.before ELSE stash[x].before, after |-> d.after]
<1>1. TypeOKAudit /\ (\A p \in Writers : RequestOK(p)) /\ (\A y \in Items : RowInv(y))
  BY AuditParts
<1>2. /\ writer' = [writer EXCEPT ![w] = q2] /\ q.pc = "describe"
      /\ context' = [context EXCEPT ![w] = IF q.quiet THEN Nothing ELSE d]
      /\ stash' = IF q.quiet \/ x \in ContextRows THEN stash ELSE [stash EXCEPT ![x] = s2]
      /\ odd' = (IF ~ q.quiet /\ d.before.told THEN odd \ {x} ELSE odd)
      /\ UNCHANGED <<store, trail, begun, writes, mishaps>>
  BY <1>0 DEF Describe
<1>3. OpenInv(q, store) /\ x \in Items /\ q \in Writer /\ d \in Description /\ d.after.told
  BY <1>0, <1>1, <1>2, DescribesType, AuditTypes DEF RequestOK, OpenInv
<1>4. /\ q2.pc = "save" /\ q2.at = x /\ q2.op = q.op /\ q2.read = q.read /\ q2.want = q.want
      /\ q2.quiet = q.quiet /\ q2.stale = q.stale /\ q2 \in Writer
  BY <1>0, <1>3 DEF Writer
<1>5. s2 \in Description /\ stash \in [Items -> Description]
  BY <1>1, <1>3, AuditTypes DEF Description
<1> HIDE DEF q2
<1>6. Describes(q2) = d
  BY <1>4 DEF Describes
<1> HIDE DEF d, s2
<1>7. /\ writer'[w] = q2 /\ \A p \in Writers \ {w} : writer'[p] = writer[p] /\ context'[p] = context[p]
      /\ context'[w] = IF q.quiet THEN Nothing ELSE d
      /\ writer' \in [Writers -> Writer] /\ context' \in [Writers -> Description]
  BY <1>1, <1>2, <1>3, <1>4, UntoldType, AuditTypes
<1>8. /\ stash' \in [Items -> Description] /\ \A y \in Items \ {x} : stash'[y] = stash[y]
      /\ q.quiet \/ x \in ContextRows => stash'[x] = stash[x]
      /\ ~ q.quiet /\ x \notin ContextRows => stash'[x] = s2
  BY <1>2, <1>3, <1>5
<1>9. s2.after = d.after /\ s2.before = IF d.before.told THEN d.before ELSE stash[x].before
  BY DEF s2
<1>10. TypeOKAudit'
  <2>1. odd' \subseteq Items
    BY <1>1, <1>2 DEF TypeOKAudit
  <2> QED
    BY <1>1, <1>2, <1>7, <1>8, <2>1 DEF TypeOKAudit
<1>11. ASSUME NEW p \in Writers PROVE RequestOK(p)'
  <2>1. CASE p = w
    <3>1. OpenInv(q2, store')
      BY <1>0, <1>2, <1>3, <1>4 DEF OpenInv
    <3>2. ToldInv(q2, context'[w], stash')
      BY <1>3, <1>4, <1>6, <1>7, <1>8, <1>9 DEF ToldInv
    <3> QED
      BY <1>7, <2>1, <3>1, <3>2 DEF RequestOK
  <2>2. CASE p # w
    <3>1. writer[p].pc \in {"describe", "save"} =>
            writer[p].at \in Items /\ (stash[writer[p].at].after.told => stash'[writer[p].at].after.told)
      <4>1. ASSUME writer[p].pc \in {"describe", "save"} PROVE writer[p].at \in Items
        BY <1>1, <4>1 DEF RequestOK, OpenInv
      <4> QED
        BY <1>0, <1>3, <1>8, <1>9, <4>1
    <3>2. Kept(p)
      BY <1>2, <1>7, <2>2, <3>1 DEF Kept
    <3> QED
      BY <1>1, <3>2, KeptOK
  <2> QED
    BY <2>1, <2>2
<1>12. ASSUME NEW y \in Items PROVE RowInv(y)'
  <2>1. CASE y # x
    <3>1. Untouched(y)
      BY <1>0, <1>2, <1>4, <1>7, <1>8, <2>1 DEF Untouched
    <3> QED
      BY <1>1, <3>1, SameRow
  <2>2. CASE y = x
    <3>1. w \in Saving(x)'
      BY <1>4, <1>7 DEF Saving
    <3>2. RestInv(x)'
      BY <3>1 DEF RestInv
    <3>3. ASSUME NEW p \in Writers, x \notin odd', x \notin ContextRows, Saving(x)' = {p}, ~ writer'[p].stale, ~ writer'[p].quiet
          PROVE  /\ stash'[x].after = Describes(writer'[p]).after
                 /\ \/ stash'[x].before = Describes(writer'[p]).before
                    \/ ~ Describes(writer'[p]).before.told /\ Fits(stash'[x].before, store'[x])
      <4>1. p = w
        BY <3>1, <3>3
      <4>2. ~ q.quiet /\ stash'[x] = s2
        BY <1>4, <1>7, <1>8, <3>3, <4>1
      <4>3. CASE d.before.told
        BY <1>6, <1>7, <1>9, <4>1, <4>2, <4>3
      <4>4. CASE ~ d.before.told
        <5>1. x \notin odd
          BY <1>2, <3>3, <4>4
        <5>2. Saving(x) = {}
          <6>1. ASSUME NEW o \in Saving(x) PROVE FALSE
            <7>1. o \in Writers /\ o # w
              BY <1>2, <6>1 DEF Saving
            <7>2. o \in Saving(x)'
              BY <1>7, <6>1, <7>1 DEF Saving
            <7> QED
              BY <3>3, <4>1, <7>1, <7>2
          <6> QED
            BY <6>1
        <5>3. Fits(stash[x].before, store[x])
          BY <1>1, <1>3, <5>1, <5>2 DEF RowInv, RestInv
        <5> QED
          BY <1>2, <1>6, <1>7, <1>9, <4>1, <4>2, <4>4, <5>3
      <4> QED
        BY <4>3, <4>4
    <3>4. AloneInv(x)'
      BY <3>3 DEF AloneInv
    <3>5. RowInv(x)
      BY <1>1, <1>3
    <3>6. Tells(x, trail'[x], begun'[x], store'[x]) /\ \A i \in 1 .. Len(trail'[x]) : trail'[x][i].named
      BY <1>2, <3>5 DEF RowInv
    <3>7. x \in ContextRows => stash'[x] = Nothing
      BY <1>8, <3>5 DEF RowInv
    <3>8. RowInv(x)'
      BY <3>2, <3>4, <3>6, <3>7 DEF RowInv
    <3> QED
      BY <2>2, <3>8
  <2> QED
    BY <2>1, <2>2
<1> QED
  BY <1>10, <1>11, <1>12, AuditNext

\* A request is through with a row, and whoever else has it open is outdated.
LEMMA OutdateIs ==
  ASSUME TypeOKAudit, NEW w \in Writers, NEW x, writer' = Outdate(Others(w, x), w)
  PROVE  /\ writer' \in [Writers -> Writer]
         /\ writer'[w].pc = "end"
         /\ \A p \in Others(w, x) : writer'[p] = [writer[p] EXCEPT !.stale = TRUE]
         /\ \A p \in Writers \ {w} : p \notin Others(w, x) => writer'[p] = writer[p]
         /\ \A p \in Writers : writer'[p].at = x /\ writer'[p].pc = "save" => writer'[p].stale /\ p \in Others(w, x)
                                                                               /\ writer[p].pc = "save"
<1>1. writer \in [Writers -> Writer]
  BY AuditTypes
<1>2. \A p \in Writers : /\ [writer[p] EXCEPT !.stale = TRUE] \in Writer /\ [writer[p] EXCEPT !.pc = "end"] \in Writer
                         /\ [writer[p] EXCEPT !.stale = TRUE].stale
                         /\ [writer[p] EXCEPT !.stale = TRUE].pc = writer[p].pc
                         /\ [writer[p] EXCEPT !.stale = TRUE].at = writer[p].at
                         /\ [writer[p] EXCEPT !.pc = "end"].pc = "end"
  BY <1>1 DEF Writer
<1>3. \A p \in Writers : writer'[p] = IF p = w THEN [writer[p] EXCEPT !.pc = "end"]
                                      ELSE IF p \in Others(w, x) THEN [writer[p] EXCEPT !.stale = TRUE] ELSE writer[p]
  BY DEF Outdate
<1>4. \A p \in Writers : writer'[p] \in Writer
  BY <1>1, <1>2, <1>3
<1>5. writer' \in [Writers -> Writer]
  BY <1>4 DEF Outdate
<1>6. \A p \in Writers \ {w} : p \in Others(w, x) <=> writer[p].at = x /\ writer[p].pc \in {"describe", "save"}
  BY DEF Others
<1>7. ASSUME NEW p \in Writers, writer'[p].at = x, writer'[p].pc = "save"
      PROVE  writer'[p].stale /\ p \in Others(w, x) /\ writer[p].pc = "save"
  <2>1. p # w
    BY <1>2, <1>3, <1>7
  <2>2. CASE p \in Others(w, x)
    BY <1>2, <1>3, <1>7, <2>1, <2>2
  <2>3. CASE p \notin Others(w, x)
    BY <1>3, <1>6, <1>7, <2>1, <2>3
  <2> QED
    BY <2>2, <2>3
<1>8. writer'[w].pc = "end"
  BY <1>2, <1>3
<1>9. /\ \A p \in Others(w, x) : writer'[p] = [writer[p] EXCEPT !.stale = TRUE]
      /\ \A p \in Writers \ {w} : p \notin Others(w, x) => writer'[p] = writer[p]
  BY <1>3 DEF Others
<1> QED
  BY <1>5, <1>7, <1>8, <1>9

LEMMA OutdateRest ==
  ASSUME TypeOKAudit, \A p \in Writers : RequestOK(p), \A y \in Items : RowInv(y),
         NEW w \in Writers, NEW x, writer[w].at = x, writer' = Outdate(Others(w, x), w),
         context' = context,
         \A y \in Items \ {x} : /\ store'[y] = store[y] /\ stash'[y] = stash[y] /\ trail'[y] = trail[y]
                                /\ begun'[y] = begun[y] /\ (y \in odd' <=> y \in odd)
  PROVE  /\ \A p \in Writers : RequestOK(p)'
         /\ \A y \in Items \ {x} : RowInv(y)'
<1>a. /\ writer'[w].pc = "end"
      /\ \A p \in Others(w, x) : writer'[p] = [writer[p] EXCEPT !.stale = TRUE]
      /\ \A p \in Writers \ {w} : p \notin Others(w, x) => writer'[p] = writer[p]
  BY OutdateIs
<1>b. \A p \in Others(w, x) : writer[p].at = x /\ p \in Writers /\ writer[p] \in Writer
  BY AuditTypes DEF Others
<1>1. ASSUME NEW p \in Writers PROVE RequestOK(p)'
  <2>1. CASE p = w
    BY <1>a, <1>b, <2>1 DEF RequestOK
  <2>2. CASE p # w
    <3>1. writer[p].pc \in {"describe", "save"} => writer[p].at \in Items
      BY DEF RequestOK, OpenInv
    <3>2. CASE p \in Others(w, x)
      <4>1. Kept(p)
        BY <1>a, <1>b, <3>2 DEF Kept
      <4> QED
        BY <4>1, KeptOK
    <3>3. CASE p \notin Others(w, x)
      <4>1. writer[p].pc \in {"describe", "save"} => writer[p].at # x
        BY <2>2, <3>3 DEF Others
      <4>2. Kept(p)
        BY <1>a, <1>b, <2>2, <3>1, <3>3, <4>1 DEF Kept
      <4> QED
        BY <4>2, KeptOK
    <3> QED
      BY <3>2, <3>3
  <2> QED
    BY <2>1, <2>2
<1>2. ASSUME NEW y \in Items \ {x} PROVE RowInv(y)'
  <2>1. ASSUME NEW p \in Writers,
               (writer[p].at = y /\ writer[p].pc = "save") \/ (writer'[p].at = y /\ writer'[p].pc = "save")
        PROVE  writer'[p] = writer[p]
    <3>1. p # w
      BY <1>a, <1>b, <2>1
    <3>2. CASE p \in Others(w, x)
      <4>1. writer[p].at = x /\ writer'[p].at = x
        BY <1>a, <1>b, <3>2 DEF Writer
      <4> QED
        BY <2>1, <4>1
    <3> QED
      BY <1>a, <1>b, <3>1, <3>2
  <2>2. Untouched(y)
    BY <2>1 DEF Untouched
  <2> QED
    BY <2>2, SameRow
<1> QED
  BY <1>1, <1>2

\* The entry of a save is of its row, and has its details.
LEMMA NamedEntry ==
  ASSUME TypeOKAudit, NEW w \in Writers, RequestOK(w), writer[w].pc = "save", ~ writer[w].quiet,
         NEW x \in Items, NEW loaded \in Item, NEW saved \in Item
  PROVE  /\ Merged(w, x, loaded, saved) \in Entry
         /\ Merged(w, x, loaded, saved).named
<1>1. writer[w] \in Writer /\ stash[x] \in Description /\ context[w] \in Description
  BY AuditTypes
<1>2. context[w].after.told
  BY <1>1, DescribesType DEF RequestOK, ToldInv
<1>3. Side(stash[x].after, context[w].after).told
  BY <1>2 DEF Side
<1> QED
  BY <1>1, <1>3, MergedType, MergedIs

LEMMA NamedAppend ==
  ASSUME NEW es \in Seq(Entry), NEW e \in Entry, e.named, \A i \in 1 .. Len(es) : es[i].named
  PROVE  /\ Append(es, e) \in Seq(Entry) /\ Len(Append(es, e)) = Len(es) + 1
         /\ \A i \in 1 .. Len(Append(es, e)) : Append(es, e)[i].named
<1> DEFINE fs == Append(es, e)
<1>1. Len(es) \in Nat /\ fs \in Seq(Entry) /\ Len(fs) = Len(es) + 1 /\ fs[Len(es) + 1] = e
      /\ \A i \in 1 .. Len(es) : fs[i] = es[i]
  OBVIOUS
<1> HIDE DEF fs
<1>2. ASSUME NEW i \in 1 .. Len(fs) PROVE fs[i].named
  <2>1. i = Len(es) + 1 \/ i \in 1 .. Len(es)
    BY <1>1
  <2> QED
    BY <1>1, <2>1
<1> QED
  BY <1>1, <1>2 DEF fs

\* A save that crosses no other is retold.
LEMMA RetoldEntry ==
  ASSUME TypeOKAudit, NEW w \in Writers, RequestOK(w), NEW x \in Items, RowInv(x), writer[w].at = x,
         writer[w].pc = "save", ~ Crossed(w, x)
  PROVE  /\ Saving(x) = {w}
         /\ Fits(stash[x].before, store[x]) \/ stash[x].before = Describes(writer[w]).before
         /\ Merged(w, x, store[x], writer[w].want).after = writer[w].want
         /\ \/ Merged(w, x, store[x], writer[w].want).before = store[x]
            \/ OfUpload(x, Merged(w, x, store[x], writer[w].want))
<1> DEFINE q == writer[w]
           d == Describes(q)
           m == Merged(w, x, store[x], q.want)
           sb == Side(stash[x].before, context[w].before)
           sa == Side(stash[x].after, context[w].after)
<1>1. q \in Writer /\ store[x] \in Item /\ q.want \in Item /\ q.read \in Item
  BY AuditTypes DEF Writer
<1>2. ~ q.stale /\ ~ q.quiet /\ x \notin odd
  BY DEF Crossed
<1>3. Saving(x) = {w}
  <2>1. ASSUME NEW p \in Saving(x), p # w PROVE FALSE
    BY <2>1 DEF Crossed, Others, Saving
  <2>2. w \in Saving(x)
    BY DEF Saving
  <2> QED
    BY <2>1, <2>2
<1>4. OpenInv(q, store) /\ context[w] = d /\ q.read = store[x]
  BY <1>2 DEF RequestOK, ToldInv, OpenInv
<1>5. PICK v \in Values : q.want = Wanted(q.op, store[x], v)
  BY <1>4 DEF OpenInv
<1>6. d.after.told /\ d.after = IF q.op = "remove" THEN Tell(store[x]) ELSE Tell(q.want)
  BY <1>1, <1>4, DescribesType DEF Describes
<1>7. d.before = CASE q.op \in {"create", "remove"} -> Untold
                   [] q.op = "upload" -> Tell(q.want)
                   [] OTHER -> Tell(store[x])
  BY <1>4 DEF Describes
<1>8. q.op \in {"create", "edit", "upload", "validate", "remove"}
  BY <1>1 DEF Writer
<1> HIDE DEF d
<1>9. sa = d.after /\ (sb = d.before \/ sb = Tell(store[x]))
      /\ (Fits(stash[x].before, store[x]) \/ stash[x].before = d.before)
  <2>1. CASE x \in ContextRows
    <3>1. stash[x] = Nothing
      BY <2>1 DEF RowInv
    <3>2. ~ stash[x].before.told /\ ~ stash[x].after.told
      BY <3>1 DEF Nothing, Untold
    <3> QED
      BY <1>4, <3>2 DEF Side, Fits
  <2>2. CASE x \notin ContextRows
    <3>1. /\ stash[x].after = d.after
          /\ stash[x].before = d.before \/ (~ d.before.told /\ Fits(stash[x].before, store[x]))
      BY <1>2, <1>3, <2>2 DEF RowInv, AloneInv, d
    <3> QED
      BY <1>4, <1>6, <3>1 DEF Side, Fits
  <2> QED
    BY <2>1, <2>2
<1> HIDE DEF sa, sb
<1>10. /\ m.after = Over(q.want, sa)
       /\ m.before = IF sb.told THEN Over(store[x], sb)
                     ELSE IF store[x].st # "absent" THEN Over(store[x], sa) ELSE store[x]
  BY <1>6, <1>9, MergedIs DEF sa, sb
<1> HIDE DEF m
<1>11. m.after = q.want
  <2>1. CASE q.op = "remove"
    <3>1. q.want.value = store[x].value /\ q.want.mark = store[x].mark
      BY <1>1, <1>5, <2>1, WantedType DEF Item
    <3> QED
      BY <1>1, <1>6, <1>9, <1>10, <2>1, <3>1, OverTell
  <2>2. CASE q.op # "remove"
    BY <1>1, <1>6, <1>9, <1>10, <2>2, OverTell
  <2> QED
    BY <2>1, <2>2
<1>12. m.before = store[x] \/ OfUpload(x, m)
  <2>1. CASE sb = Tell(store[x])
    <3>1. sb.told
      BY <2>1 DEF Tell
    <3> QED
      BY <1>1, <1>10, <2>1, <3>1, OverTell
  <2>2. CASE sb = d.before /\ q.op \in {"edit", "validate"}
    <3>1. sb = Tell(store[x])
      BY <1>7, <2>2
    <3> QED
      BY <2>1, <3>1
  <2>3. CASE sb = d.before /\ q.op = "upload"
    <3>1. sb = Tell(q.want) /\ sb.told
      BY <1>7, <2>3 DEF Tell
    <3>2. Tell(m.before) = Tell(m.after)
      BY <1>1, <1>10, <1>11, <3>1, OverTell
    <3> QED
      BY <1>4, <2>3, <3>2 DEF OfUpload, OpenInv
  <2>4. CASE sb = d.before /\ q.op \in {"create", "remove"}
    <3>1. ~ sb.told
      BY <1>7, <2>4 DEF Untold
    <3>2. CASE q.op = "create"
      BY <1>4, <1>10, <3>1, <3>2 DEF OpenInv
    <3>3. CASE q.op = "remove"
      BY <1>1, <1>6, <1>9, <1>10, <3>1, <3>3, OverTell
    <3> QED
      BY <2>4, <3>2, <3>3
  <2> QED
    BY <1>8, <1>9, <2>1, <2>2, <2>3, <2>4
<1> QED
  BY <1>3, <1>9, <1>11, <1>12 DEF m, d

\* The row of a request that is done with it, where its entries start again.
LEMMA GapOutdated ==
  ASSUME TypeOKAudit, NEW w \in Writers, NEW x \in Items, writer' = Outdate(Others(w, x), w),
         trail'[x] \in Seq(Entry), \A i \in 1 .. Len(trail'[x]) : trail'[x][i].named,
         begun'[x] = [count |-> Len(trail'[x]), row |-> store'[x]],
         x \in odd' <=> stash'[x] # Nothing,
         x \in ContextRows => stash'[x] = Nothing
  PROVE  RowInv(x)'
<1>1. \A p \in Writers : writer'[p].at = x /\ writer'[p].pc = "save" => writer'[p].stale
  BY OutdateIs
<1> QED
  BY <1>1, GapRow

LEMMA GapIs ==
  ASSUME TypeOKAudit, NEW x \in Items, Gap(x)
  PROVE  /\ begun'[x] = [count |-> Len(trail'[x]), row |-> store'[x]]
         /\ \A y \in Items \ {x} : begun'[y] = begun[y] /\ (y \in odd' <=> y \in odd)
         /\ x \in odd' <=> stash'[x] # Nothing
         /\ odd' \subseteq Items
         /\ begun' = [begun EXCEPT ![x] = [count |-> Len(trail'[x]), row |-> store'[x]]]
<1>1. begun \in [Items -> [count : Nat, row : Item]] /\ odd \subseteq Items
  BY AuditTypes
<1>2. CASE stash'[x] # Nothing
  BY <1>1, <1>2 DEF Gap
<1>3. CASE stash'[x] = Nothing
  BY <1>1, <1>3 DEF Gap
<1> QED
  BY <1>2, <1>3

\* Types after a step that appends at most one entry, or none.
LEMMA TypesAfter ==
  ASSUME TypeOKAudit, store' \in [Items -> Item], stash' \in [Items -> Description], context' \in [Writers -> Description],
         writer' \in [Writers -> Writer], trail' \in [Items -> Seq(Entry)], odd' \subseteq Items,
         writes' \in 0 .. WriteLimit, mishaps' \in 0 .. MishapLimit,
         \A y \in Items : Len(trail'[y]) >= Len(trail[y]),
         begun' = begun \/ \E x \in Items : begun' = [begun EXCEPT ![x] = [count |-> Len(trail'[x]), row |-> store'[x]]]
  PROVE  TypeOKAudit'
<1>1. begun \in [Items -> [count : Nat, row : Item]]
      /\ \A y \in Items : begun[y].count <= Len(trail[y]) /\ Len(trail[y]) \in Nat /\ Len(trail'[y]) \in Nat
  BY AuditTypes
<1>2. CASE begun' = begun
  <2>1. \A y \in Items : begun'[y].count <= Len(trail'[y])
    <3> TAKE y \in Items
    <3>1. begun[y].count \in Nat /\ begun[y].count <= Len(trail[y]) /\ Len(trail'[y]) >= Len(trail[y])
      BY <1>1
    <3> QED
      BY <1>1, <1>2, <3>1
  <2> QED
    BY <1>1, <1>2, <2>1 DEF TypeOKAudit
<1>3. ASSUME NEW x \in Items, begun' = [begun EXCEPT ![x] = [count |-> Len(trail'[x]), row |-> store'[x]]]
      PROVE  TypeOKAudit'
  <2>1. [count |-> Len(trail'[x]), row |-> store'[x]] \in [count : Nat, row : Item]
    BY <1>1
  <2>2. begun' \in [Items -> [count : Nat, row : Item]]
    BY <1>1, <1>3, <2>1
  <2>3. \A y \in Items : begun'[y].count <= Len(trail'[y])
    <3> TAKE y \in Items
    <3>1. begun[y].count \in Nat /\ begun[y].count <= Len(trail[y]) /\ Len(trail'[y]) >= Len(trail[y])
      BY <1>1
    <3>2. begun'[y] = IF y = x THEN [count |-> Len(trail'[x]), row |-> store'[x]] ELSE begun[y]
      BY <1>1, <1>3
    <3> QED
      BY <1>1, <3>1, <3>2
  <2> QED
    BY <2>2, <2>3 DEF TypeOKAudit
<1> QED
  BY <1>2, <1>3

LEMMA SaveAudit == ASSUME AuditInv, NEW w \in Writers, SaveRow(w) PROVE AuditInv'
<1>0. PICK x : x = writer[w].at
  OBVIOUS
<1> DEFINE q == writer[w]
           seen == store[x] # q.want /\ ~ q.quiet
           m == Merged(w, x, store[x], q.want)
<1>1. TypeOKAudit /\ (\A p \in Writers : RequestOK(p)) /\ (\A y \in Items : RowInv(y))
  BY AuditParts
<1>2. /\ q.pc = "save" /\ store' = [store EXCEPT ![x] = q.want]
      /\ trail' = (IF seen THEN [trail EXCEPT ![x] = Append(@, m)] ELSE trail)
      /\ stash' = (IF seen THEN [stash EXCEPT ![x] = Nothing] ELSE stash)
      /\ writer' = Outdate(Others(w, x), w)
      /\ UNCHANGED <<context, writes, mishaps>>
  BY <1>0 DEF SaveRow, takeAuditEntityDetails
<1>3. IF Crossed(w, x) THEN Gap(x)
      ELSE /\ odd' = (IF ~ seen /\ q.op = "upload" THEN odd \union {x} ELSE odd)
           /\ begun' = begun
  BY <1>0 DEF SaveRow
<1>4. OpenInv(q, store) /\ x \in Items /\ q \in Writer /\ q.want \in Item /\ RequestOK(w) /\ RowInv(x)
  BY <1>0, <1>1, <1>2, AuditTypes DEF RequestOK, OpenInv, Writer
<1>5. /\ store \in [Items -> Item] /\ stash \in [Items -> Description] /\ trail \in [Items -> Seq(Entry)]
      /\ begun \in [Items -> [count : Nat, row : Item]] /\ odd \subseteq Items /\ begun[x].count <= Len(trail[x])
      /\ trail[x] \in Seq(Entry) /\ begun[x].count \in Nat
  BY <1>1, <1>4, AuditTypes
<1>6. ~ q.quiet => m \in Entry /\ m.named
  BY <1>1, <1>2, <1>4, <1>5, NamedEntry
<1>7. \A i \in 1 .. Len(trail[x]) : trail[x][i].named
  BY <1>4 DEF RowInv
<1> HIDE DEF m
<1>8. /\ trail' \in [Items -> Seq(Entry)] /\ \A y \in Items \ {x} : trail'[y] = trail[y]
      /\ Len(trail'[x]) >= Len(trail[x]) /\ \A i \in 1 .. Len(trail'[x]) : trail'[x][i].named
  <2>1. CASE seen
    <3>1. /\ Append(trail[x], m) \in Seq(Entry) /\ Len(Append(trail[x], m)) = Len(trail[x]) + 1
          /\ \A i \in 1 .. Len(Append(trail[x], m)) : Append(trail[x], m)[i].named
      BY <1>5, <1>6, <1>7, <2>1, NamedAppend
    <3>2. trail' = [trail EXCEPT ![x] = Append(trail[x], m)] /\ trail'[x] = Append(trail[x], m)
      BY <1>2, <1>4, <1>5, <2>1
    <3>3. Len(trail[x]) \in Nat
      BY <1>5
    <3>4. trail' \in [Items -> Seq(Entry)] /\ \A y \in Items \ {x} : trail'[y] = trail[y]
      BY <1>5, <3>1, <3>2
    <3> QED
      BY <3>1, <3>2, <3>3, <3>4
  <2>2. CASE ~ seen
    <3>1. Len(trail[x]) \in Nat /\ trail' = trail
      BY <1>2, <1>5, <2>2
    <3> QED
      BY <1>5, <1>7, <3>1
  <2> QED
    BY <2>1, <2>2
<1>9. /\ stash' \in [Items -> Description] /\ \A y \in Items \ {x} : stash'[y] = stash[y]
      /\ seen => stash'[x] = Nothing
      /\ ~ seen => stash'[x] = stash[x]
      /\ store' \in [Items -> Item] /\ store'[x] = q.want /\ \A y \in Items \ {x} : store'[y] = store[y]
  BY <1>2, <1>4, <1>5, UntoldType
<1>10. x \in ContextRows => stash'[x] = Nothing
  BY <1>4, <1>9 DEF RowInv
<1>11. writer' \in [Writers -> Writer]
  BY <1>1, <1>2, OutdateIs
<1>12. \A y \in Items \ {x} : begun'[y] = begun[y] /\ (y \in odd' <=> y \in odd)
  <2>1. CASE Crossed(w, x)
    BY <1>1, <1>3, <1>4, <2>1, GapIs
  <2>2. CASE ~ Crossed(w, x)
    BY <1>3, <2>2
  <2> QED
    BY <2>1, <2>2
<1>13. odd' \subseteq Items
       /\ (begun' = begun \/ begun' = [begun EXCEPT ![x] = [count |-> Len(trail'[x]), row |-> store'[x]]])
  <2>1. CASE Crossed(w, x)
    BY <1>1, <1>3, <1>4, <2>1, GapIs
  <2>2. CASE ~ Crossed(w, x)
    BY <1>3, <1>4, <1>5, <2>2
  <2> QED
    BY <2>1, <2>2
<1>14. TypeOKAudit'
  <2>1. \A y \in Items : Len(trail'[y]) >= Len(trail[y])
    <3> TAKE y \in Items
    <3>1. Len(trail[y]) \in Nat
      BY <1>5
    <3> QED
      BY <1>8, <3>1
  <2>2. context' \in [Writers -> Description] /\ writes' \in 0 .. WriteLimit /\ mishaps' \in 0 .. MishapLimit
    BY <1>1, <1>2, AuditTypes
  <2> QED
    BY <1>1, <1>4, <1>8, <1>9, <1>11, <1>13, <2>1, <2>2, TypesAfter
<1>15. (\A p \in Writers : RequestOK(p)') /\ \A y \in Items \ {x} : RowInv(y)'
  BY <1>0, <1>1, <1>2, <1>8, <1>9, <1>12, OutdateRest
<1>16. RowInv(x)'
  <2>1. CASE Crossed(w, x)
    <3>1. begun'[x] = [count |-> Len(trail'[x]), row |-> store'[x]] /\ (x \in odd' <=> stash'[x] # Nothing)
      BY <1>1, <1>3, <1>4, <2>1, GapIs
    <3>2. trail'[x] \in Seq(Entry)
      BY <1>4, <1>8
    <3> QED
      BY <1>1, <1>2, <1>4, <1>8, <1>10, <3>1, <3>2, GapOutdated
  <2>2. CASE ~ Crossed(w, x)
    <3>1. /\ Saving(x) = {w}
          /\ Fits(stash[x].before, store[x]) \/ stash[x].before = Describes(q).before
          /\ m.after = q.want /\ (m.before = store[x] \/ OfUpload(x, m))
      BY <1>0, <1>1, <1>2, <1>4, <2>2, RetoldEntry DEF m
    <3>2. begun' = begun /\ (x \in odd => x \in odd') /\ ~ q.quiet /\ ~ q.stale
      BY <1>3, <2>2 DEF Crossed
    <3>3. Saving(x)' = {}
      <4>1. ASSUME NEW p \in Writers, writer'[p].at = x, writer'[p].pc = "save" PROVE FALSE
        <5>1. p \in Others(w, x) /\ writer[p].pc = "save"
          BY <1>1, <1>2, <4>1, OutdateIs
        <5> QED
          BY <2>2, <5>1 DEF Crossed
      <4> QED
        BY <4>1 DEF Saving
    <3>4. AloneInv(x)'
      <4>1. \A p : Saving(x)' # {p}
        BY <3>3
      <4> QED
        BY <4>1 DEF AloneInv
    <3>5. Tells(x, trail[x], begun[x], store[x])
      BY <1>4 DEF RowInv
    <3>6. CASE seen
      <4>1. trail'[x] = Append(trail[x], m) /\ m \in Entry
        BY <1>2, <1>4, <1>5, <1>6, <3>6
      <4>2. Tells(x, Append(trail[x], m), begun[x], m.after)
        BY <1>5, <3>1, <3>5, <4>1, TellsAppend
      <4>3. Tells(x, trail'[x], begun'[x], store'[x])
        BY <1>9, <3>1, <3>2, <4>1, <4>2
      <4>4. RestInv(x)'
        BY <1>9, <3>6 DEF RestInv, Fits, Nothing, Untold
      <4> QED
        BY <1>8, <1>10, <3>4, <4>3, <4>4 DEF RowInv
    <3>7. CASE ~ seen
      <4>1. store[x] = q.want /\ store'[x] = store[x] /\ q.read = store[x] /\ trail'[x] = trail[x]
        BY <1>0, <1>2, <1>4, <1>9, <3>2, <3>7 DEF OpenInv
      <4>2. Tells(x, trail'[x], begun'[x], store'[x])
        BY <3>2, <3>5, <4>1
      <4>3. Fits(Describes(q).before, store[x])
        BY <4>1 DEF Fits, Describes, Untold
      <4>4. Fits(stash'[x].before, store'[x])
        BY <1>9, <3>1, <3>7, <4>1, <4>3
      <4>5. RestInv(x)'
        BY <4>4 DEF RestInv
      <4> QED
        BY <1>8, <1>10, <3>4, <4>2, <4>5 DEF RowInv
    <3> QED
      BY <3>6, <3>7
  <2> QED
    BY <2>1, <2>2
<1> QED
  BY <1>14, <1>15, <1>16, AuditNext

LEMMA SaveFaultAudit == ASSUME AuditInv, NEW w \in Writers, SaveFault(w) PROVE AuditInv'
<1>0. PICK x : x = writer[w].at
  OBVIOUS
<1> DEFINE q == writer[w]
           m == Merged(w, x, store[x], q.want)
<1>1. TypeOKAudit /\ (\A p \in Writers : RequestOK(p)) /\ (\A y \in Items : RowInv(y))
  BY AuditParts
<1>2. /\ q.pc = "save" /\ mishaps < MishapLimit /\ mishaps' = mishaps + 1
      /\ writer' = Outdate(Others(w, x), w)
      /\ UNCHANGED <<store, context, writes>>
      /\ \/ odd' = odd \union {x} /\ UNCHANGED <<stash, trail, begun>>
         \/ /\ ~ q.quiet /\ trail' = [trail EXCEPT ![x] = Append(@, m)] /\ stash' = [stash EXCEPT ![x] = Nothing]
            /\ Gap(x)
  BY <1>0 DEF SaveFault, takeAuditEntityDetails
<1>3. x \in Items /\ q \in Writer /\ q.want \in Item /\ RequestOK(w) /\ RowInv(x)
  BY <1>0, <1>1, <1>2, AuditTypes DEF RequestOK, OpenInv, Writer
<1>4. /\ store \in [Items -> Item] /\ stash \in [Items -> Description] /\ trail \in [Items -> Seq(Entry)]
      /\ odd \subseteq Items /\ trail[x] \in Seq(Entry) /\ context \in [Writers -> Description] /\ writes \in 0 .. WriteLimit
      /\ \A y \in Items : Len(trail[y]) \in Nat
  BY <1>1, <1>3, AuditTypes
<1>5. ~ q.quiet => m \in Entry /\ m.named
  BY <1>1, <1>2, <1>3, <1>4, NamedEntry
<1>6. \A i \in 1 .. Len(trail[x]) : trail[x][i].named
  BY <1>3 DEF RowInv
<1> HIDE DEF m
<1>7. writer' \in [Writers -> Writer] /\ mishaps' \in 0 .. MishapLimit
  BY <1>1, <1>2, OutdateIs, AuditTypes, AuditLimits
<1>8. CASE odd' = odd \union {x} /\ UNCHANGED <<stash, trail, begun>>
  <2>1. TypeOKAudit'
    <3>1. \A y \in Items : Len(trail'[y]) >= Len(trail[y])
      BY <1>4, <1>8
    <3> QED
      BY <1>1, <1>2, <1>3, <1>4, <1>7, <1>8, <3>1, TypesAfter
  <2>2. (\A p \in Writers : RequestOK(p)') /\ \A y \in Items \ {x} : RowInv(y)'
    <3>1. \A y \in Items \ {x} : /\ store'[y] = store[y] /\ stash'[y] = stash[y] /\ trail'[y] = trail[y]
                                 /\ begun'[y] = begun[y] /\ (y \in odd' <=> y \in odd)
      BY <1>2, <1>8
    <3> QED
      BY <1>0, <1>1, <1>2, <3>1, OutdateRest
  <2>3. RestInv(x)' /\ AloneInv(x)'
    BY <1>8 DEF RestInv, AloneInv
  <2>4. Tells(x, trail'[x], begun'[x], store'[x])
    BY <1>2, <1>3, <1>8 DEF RowInv
  <2>5. RowInv(x)'
    BY <1>3, <1>8, <2>3, <2>4 DEF RowInv
  <2> QED
    BY <2>1, <2>2, <2>5, AuditNext
<1>9. CASE /\ ~ q.quiet /\ trail' = [trail EXCEPT ![x] = Append(@, m)] /\ stash' = [stash EXCEPT ![x] = Nothing]
           /\ Gap(x)
  <2>1. /\ Append(trail[x], m) \in Seq(Entry) /\ Len(Append(trail[x], m)) = Len(trail[x]) + 1
        /\ \A i \in 1 .. Len(Append(trail[x], m)) : Append(trail[x], m)[i].named
    BY <1>4, <1>5, <1>6, <1>9, NamedAppend
  <2>2. trail' = [trail EXCEPT ![x] = Append(trail[x], m)] /\ trail'[x] = Append(trail[x], m)
    BY <1>3, <1>4, <1>9
  <2>3. /\ trail' \in [Items -> Seq(Entry)] /\ \A y \in Items \ {x} : trail'[y] = trail[y]
        /\ stash' \in [Items -> Description] /\ stash'[x] = Nothing /\ \A y \in Items \ {x} : stash'[y] = stash[y]
    BY <1>3, <1>4, <1>9, <2>1, <2>2, UntoldType
  <2>4. \A y \in Items : Len(trail'[y]) >= Len(trail[y])
    <3> TAKE y \in Items
    <3>1. Len(trail[y]) \in Nat /\ Len(trail[x]) \in Nat
      BY <1>3, <1>4
    <3> QED
      BY <2>1, <2>2, <2>3, <3>1
  <2>5. /\ begun'[x] = [count |-> Len(trail'[x]), row |-> store'[x]]
        /\ \A y \in Items \ {x} : begun'[y] = begun[y] /\ (y \in odd' <=> y \in odd)
        /\ x \in odd' <=> stash'[x] # Nothing
        /\ odd' \subseteq Items
        /\ begun' = [begun EXCEPT ![x] = [count |-> Len(trail'[x]), row |-> store'[x]]]
    BY <1>1, <1>3, <1>9, GapIs
  <2>6. TypeOKAudit'
    BY <1>1, <1>2, <1>3, <1>4, <1>7, <2>3, <2>4, <2>5, TypesAfter
  <2>7. (\A p \in Writers : RequestOK(p)') /\ \A y \in Items \ {x} : RowInv(y)'
    BY <1>0, <1>1, <1>2, <2>3, <2>5, OutdateRest
  <2>8. RowInv(x)'
    BY <1>1, <1>2, <1>3, <2>1, <2>2, <2>3, <2>5, GapOutdated
  <2> QED
    BY <2>6, <2>7, <2>8, AuditNext
<1> QED
  BY <1>2, <1>8, <1>9

LEMMA StatusAudit == ASSUME AuditInv, NEW x \in CaptureRows, ApplyStatus(x) PROVE AuditInv'
<1> DEFINE open(p) == writer[p].at = x /\ writer[p].pc \in {"describe", "save"}
           s(p) == [writer[p] EXCEPT !.stale = TRUE]
<1>1. TypeOKAudit /\ (\A p \in Writers : RequestOK(p)) /\ (\A y \in Items : RowInv(y))
  BY AuditParts
<1>2. /\ store' = [store EXCEPT ![x].mark = TRUE]
      /\ writer' = [p \in Writers |-> IF open(p) THEN s(p) ELSE writer[p]]
      /\ UNCHANGED <<stash, context, trail, writes, mishaps>> /\ Gap(x)
  BY DEF ApplyStatus
<1>3. x \in Items /\ x \notin ContextRows
  BY RowsAssumption DEF Items
<1>4. \A p \in Writers : s(p) \in Writer /\ s(p).stale /\ s(p).at = writer[p].at /\ s(p).pc = writer[p].pc
  BY <1>1, AuditTypes DEF Writer
<1> HIDE DEF s
<1>5. writer' \in [Writers -> Writer] /\ \A p \in Writers : writer'[p] = IF open(p) THEN s(p) ELSE writer[p]
  BY <1>1, <1>2, <1>4, AuditTypes
<1>6. /\ begun'[x] = [count |-> Len(trail'[x]), row |-> store'[x]]
      /\ \A y \in Items \ {x} : begun'[y] = begun[y] /\ (y \in odd' <=> y \in odd)
      /\ x \in odd' <=> stash'[x] # Nothing
      /\ odd' \subseteq Items
      /\ begun' = [begun EXCEPT ![x] = [count |-> Len(trail'[x]), row |-> store'[x]]]
  BY <1>1, <1>2, <1>3, GapIs
<1>7. store' \in [Items -> Item] /\ \A y \in Items \ {x} : store'[y] = store[y]
  <2>0. store \in [Items -> Item] /\ store[x] \in Item
    BY <1>1, <1>3, AuditTypes
  <2>1. [store[x] EXCEPT !.mark = TRUE] \in Item /\ store \in [Items -> Item]
    BY <2>0 DEF Item
  <2> QED
    BY <1>2, <1>3, <2>1
<1>8. TypeOKAudit'
  <2>1. /\ trail' \in [Items -> Seq(Entry)] /\ stash' \in [Items -> Description] /\ context' \in [Writers -> Description]
        /\ writes' \in 0 .. WriteLimit /\ mishaps' \in 0 .. MishapLimit
        /\ \A y \in Items : Len(trail'[y]) >= Len(trail[y])
    BY <1>1, <1>2, AuditTypes
  <2> QED
    BY <1>1, <1>3, <1>5, <1>6, <1>7, <2>1, TypesAfter
<1>9. ASSUME NEW p \in Writers PROVE RequestOK(p)'
  <2>1. writer[p].pc \in {"describe", "save"} => writer[p].at \in Items
    BY <1>1 DEF RequestOK, OpenInv
  <2>2. CASE open(p)
    <3>1. Kept(p)
      BY <1>2, <1>5, <2>2 DEF Kept, s
    <3> QED
      BY <1>1, <3>1, KeptOK
  <2>3. CASE ~ open(p)
    <3>1. Kept(p)
      BY <1>2, <1>5, <1>7, <2>1, <2>3 DEF Kept
    <3> QED
      BY <1>1, <3>1, KeptOK
  <2> QED
    BY <2>2, <2>3
<1>10. ASSUME NEW y \in Items PROVE RowInv(y)'
  <2>1. CASE y = x
    <3>1. \A p \in Writers : writer'[p].at = x /\ writer'[p].pc = "save" => writer'[p].stale
      BY <1>4, <1>5
    <3>2. trail'[x] \in Seq(Entry) /\ \A i \in 1 .. Len(trail'[x]) : trail'[x][i].named
      BY <1>1, <1>2, <1>3, AuditTypes DEF RowInv
    <3>3. RowInv(x)'
      BY <1>3, <1>6, <3>1, <3>2, GapRow
    <3> QED
      BY <2>1, <3>3
  <2>2. CASE y # x
    <3>1. Untouched(y)
      BY <1>2, <1>4, <1>5, <1>6, <1>7, <2>2 DEF Untouched
    <3> QED
      BY <1>1, <3>1, SameRow
  <2> QED
    BY <2>1, <2>2
<1> QED
  BY <1>8, <1>9, <1>10, AuditNext

\* An entry that waits is inserted or lost.
LEMMA FateIs ==
  ASSUME TypeOKAudit, NEW x \in Items, NEW i \in Waiting(x), NEW f \in {"written", "lost"},
         trail' = [trail EXCEPT ![x][i].fate = f]
  PROVE  /\ trail' \in [Items -> Seq(Entry)] /\ \A y \in Items \ {x} : trail'[y] = trail[y]
         /\ Len(trail'[x]) = Len(trail[x])
         /\ \A j \in 1 .. Len(trail[x]) : /\ trail'[x][j].before = trail[x][j].before
                                          /\ trail'[x][j].after = trail[x][j].after
                                          /\ trail'[x][j].named = trail[x][j].named
<1> DEFINE es == trail[x]
           e == [es[i] EXCEPT !.fate = f]
           fs == [es EXCEPT ![i] = e]
<1>1. trail \in [Items -> Seq(Entry)] /\ es \in Seq(Entry) /\ Len(es) \in Nat /\ i \in 1 .. Len(es)
  BY AuditTypes DEF Waiting
<1>2. es[i] \in Entry
  BY <1>1
<1>3. e \in Entry /\ e.before = es[i].before /\ e.after = es[i].after /\ e.named = es[i].named
  BY <1>2 DEF Entry
<1>4. trail' = [trail EXCEPT ![x] = fs]
  OBVIOUS
<1> HIDE DEF e
<1>5. fs \in Seq(Entry) /\ Len(fs) = Len(es) /\ fs[i] = e /\ \A j \in 1 .. Len(es) : j # i => fs[j] = es[j]
  BY <1>1, <1>3
<1> HIDE DEF fs, es
<1>6. trail' \in [Items -> Seq(Entry)] /\ trail'[x] = fs /\ \A y \in Items \ {x} : trail'[y] = trail[y]
  BY <1>1, <1>4, <1>5
<1>7. \A j \in 1 .. Len(es) : /\ fs[j].before = es[j].before /\ fs[j].after = es[j].after
                              /\ fs[j].named = es[j].named
  BY <1>3, <1>5
<1> QED
  BY <1>5, <1>6, <1>7 DEF es

LEMMA WriteAudit == ASSUME AuditInv, NEW x \in Items, NEW i, WriteEntry(x, i) PROVE AuditInv'
<1>1. TypeOKAudit /\ (\A p \in Writers : RequestOK(p)) /\ (\A y \in Items : RowInv(y))
  BY AuditParts
<1>2. /\ i \in Waiting(x) /\ trail' = [trail EXCEPT ![x][i].fate = "written"]
      /\ UNCHANGED <<store, stash, context, writer, begun, odd, writes, mishaps>>
  BY DEF WriteEntry
<1>3. /\ trail' \in [Items -> Seq(Entry)] /\ \A y \in Items \ {x} : trail'[y] = trail[y]
      /\ Len(trail'[x]) = Len(trail[x])
      /\ \A j \in 1 .. Len(trail[x]) : /\ trail'[x][j].before = trail[x][j].before
                                       /\ trail'[x][j].after = trail[x][j].after
                                       /\ trail'[x][j].named = trail[x][j].named
  BY <1>1, <1>2, FateIs
<1>4. TypeOKAudit'
  <2>1. \A y \in Items : Len(trail'[y]) >= Len(trail[y])
    <3> TAKE y \in Items
    <3>1. Len(trail[y]) \in Nat
      BY <1>1, AuditTypes
    <3> QED
      BY <1>3, <3>1
  <2>2. /\ store' \in [Items -> Item] /\ stash' \in [Items -> Description] /\ context' \in [Writers -> Description]
        /\ writer' \in [Writers -> Writer] /\ odd' \subseteq Items
        /\ writes' \in 0 .. WriteLimit /\ mishaps' \in 0 .. MishapLimit /\ begun' = begun
    BY <1>1, <1>2, AuditTypes
  <2> QED
    BY <1>1, <1>3, <2>1, <2>2, TypesAfter
<1>5. ASSUME NEW p \in Writers PROVE RequestOK(p)'
  <2>1. Kept(p)
    BY <1>2 DEF Kept
  <2> QED
    BY <1>1, <2>1, KeptOK
<1>6. ASSUME NEW y \in Items PROVE RowInv(y)'
  <2>1. CASE y = x
    <3>1. trail[x] \in Seq(Entry) /\ begun[x].count \in Nat /\ begun[x].count <= Len(trail[x]) /\ RowInv(x)
      BY <1>1, AuditTypes
    <3>2. Tells(x, trail[x], begun[x], store[x])
      BY <3>1 DEF RowInv
    <3>3. Tells(x, trail'[x], begun[x], store[x])
      BY <1>3, <3>1, <3>2, TellsFate
    <3>4. \A j \in 1 .. Len(trail'[x]) : trail'[x][j].named
      BY <1>3, <3>1 DEF RowInv
    <3>5. Saving(x)' = Saving(x)
      BY <1>2 DEF Saving
    <3>6. RestInv(x)' /\ AloneInv(x)'
      BY <1>2, <3>1, <3>5 DEF RowInv, RestInv, AloneInv
    <3>7. RowInv(x)'
      BY <1>2, <3>1, <3>3, <3>4, <3>6 DEF RowInv
    <3> QED
      BY <2>1, <3>7
  <2>2. CASE y # x
    <3>1. Untouched(y)
      BY <1>2, <1>3, <2>2 DEF Untouched
    <3> QED
      BY <1>1, <3>1, SameRow
  <2> QED
    BY <2>1, <2>2
<1> QED
  BY <1>4, <1>5, <1>6, AuditNext

LEMMA LoseAudit == ASSUME AuditInv, NEW x \in Items, NEW i, LoseEntry(x, i) PROVE AuditInv'
<1>1. TypeOKAudit /\ (\A p \in Writers : RequestOK(p)) /\ (\A y \in Items : RowInv(y))
  BY AuditParts
<1>2. /\ i \in Waiting(x) /\ trail' = [trail EXCEPT ![x][i].fate = "lost"]
      /\ mishaps < MishapLimit /\ mishaps' = mishaps + 1
      /\ UNCHANGED <<store, stash, context, writer, writes>> /\ Gap(x)
  BY DEF LoseEntry
<1>3. /\ trail' \in [Items -> Seq(Entry)] /\ \A y \in Items \ {x} : trail'[y] = trail[y]
      /\ Len(trail'[x]) = Len(trail[x])
      /\ \A j \in 1 .. Len(trail[x]) : trail'[x][j].named = trail[x][j].named
  BY <1>1, <1>2, FateIs
<1>4. /\ begun'[x] = [count |-> Len(trail'[x]), row |-> store'[x]]
      /\ \A y \in Items \ {x} : begun'[y] = begun[y] /\ (y \in odd' <=> y \in odd)
      /\ x \in odd' <=> stash'[x] # Nothing
      /\ odd' \subseteq Items
      /\ begun' = [begun EXCEPT ![x] = [count |-> Len(trail'[x]), row |-> store'[x]]]
  BY <1>1, <1>2, GapIs
<1>5. TypeOKAudit'
  <2>1. \A y \in Items : Len(trail'[y]) >= Len(trail[y])
    <3> TAKE y \in Items
    <3>1. Len(trail[y]) \in Nat
      BY <1>1, AuditTypes
    <3> QED
      BY <1>3, <3>1
  <2>2. /\ store' \in [Items -> Item] /\ stash' \in [Items -> Description] /\ context' \in [Writers -> Description]
        /\ writer' \in [Writers -> Writer] /\ writes' \in 0 .. WriteLimit /\ mishaps' \in 0 .. MishapLimit
    BY <1>1, <1>2, AuditTypes, AuditLimits
  <2> QED
    BY <1>1, <1>3, <1>4, <2>1, <2>2, TypesAfter
<1>6. ASSUME NEW p \in Writers PROVE RequestOK(p)'
  <2>1. Kept(p)
    BY <1>2 DEF Kept
  <2> QED
    BY <1>1, <2>1, KeptOK
<1>7. ASSUME NEW y \in Items PROVE RowInv(y)'
  <2>1. CASE y = x
    <3>1. trail'[x] \in Seq(Entry) /\ \A j \in 1 .. Len(trail'[x]) : trail'[x][j].named
      BY <1>1, <1>3 DEF RowInv
    <3>2. ASSUME NEW p \in Writers, writer'[p].at = x, writer'[p].pc = "save", ~ writer'[p].stale,
                 ~ writer'[p].quiet, x \notin ContextRows
          PROVE  stash'[x] # Nothing
      <4>1. stash[x].after.told
        BY <1>1, <1>2, <3>2 DEF RequestOK, ToldInv
      <4> QED
        BY <1>2, <4>1 DEF Nothing, Untold
    <3>3. x \in ContextRows => stash'[x] = Nothing
      BY <1>1, <1>2 DEF RowInv
    <3>4. RowInv(x)'
      BY <1>4, <3>1, <3>2, <3>3, GapRow
    <3> QED
      BY <2>1, <3>4
  <2>2. CASE y # x
    <3>1. Untouched(y)
      BY <1>2, <1>3, <1>4, <2>2 DEF Untouched
    <3> QED
      BY <1>1, <3>1, SameRow
  <2> QED
    BY <2>1, <2>2
<1> QED
  BY <1>5, <1>6, <1>7, AuditNext

LEMMA RestartAudit == ASSUME AuditInv, RestartServer PROVE AuditInv'
<1> DEFINE fs(x) == [i \in 1 .. Len(trail[x]) |->
             IF i \in Waiting(x) THEN [trail[x][i] EXCEPT !.fate = "lost"] ELSE trail[x][i]]
<1>1. TypeOKAudit /\ \A y \in Items : RowInv(y)
  BY AuditParts
<1>2. /\ stash' = [x \in Items |-> Nothing] /\ context' = [w \in Writers |-> Nothing]
      /\ writer' = [w \in Writers |-> NoWriter] /\ trail' = [x \in Items |-> fs(x)]
      /\ begun' = [x \in Items |-> [count |-> Len(trail'[x]), row |-> store[x]]]
      /\ odd' = {} /\ mishaps < MishapLimit /\ mishaps' = mishaps + 1 /\ UNCHANGED <<store, writes>>
  BY DEF RestartServer
<1>3. ASSUME NEW x \in Items PROVE fs(x) \in Seq(Entry) /\ \A i \in 1 .. Len(fs(x)) : fs(x)[i].named
  <2>1. trail[x] \in Seq(Entry) /\ Len(trail[x]) \in Nat /\ RowInv(x)
    BY <1>1, AuditTypes
  <2>2. ASSUME NEW i \in 1 .. Len(trail[x]) PROVE fs(x)[i] \in Entry /\ fs(x)[i].named
    <3>1. trail[x][i] \in Entry /\ trail[x][i].named
      BY <2>1 DEF RowInv
    <3>2. [trail[x][i] EXCEPT !.fate = "lost"] \in Entry /\ [trail[x][i] EXCEPT !.fate = "lost"].named
      BY <3>1 DEF Entry
    <3> QED
      BY <3>1, <3>2
  <2> DEFINE e(i) == IF i \in Waiting(x) THEN [trail[x][i] EXCEPT !.fate = "lost"] ELSE trail[x][i]
             n == Len(trail[x])
             gs == [i \in 1 .. n |-> e(i)]
  <2>3. fs(x) = gs /\ n \in Nat
    BY <2>1
  <2>4. \A i \in 1 .. n : e(i) \in Entry /\ e(i).named
    BY <2>2
  <2> HIDE DEF e, n
  <2>5. gs \in Seq(Entry) /\ Len(gs) = n /\ \A i \in 1 .. n : gs[i] = e(i)
    BY <2>3, <2>4
  <2> HIDE DEF gs
  <2> HIDE DEF fs
  <2> QED
    BY <2>3, <2>4, <2>5
<1> HIDE DEF fs
<1>4. trail' \in [Items -> Seq(Entry)] /\ \A x \in Items : trail'[x] = fs(x) /\ Len(trail'[x]) \in Nat
  BY <1>2, <1>3
<1>5. TypeOKAudit'
  <2>1. /\ stash' \in [Items -> Description] /\ context' \in [Writers -> Description]
        /\ writer' \in [Writers -> Writer] /\ store' \in [Items -> Item]
        /\ writes' \in 0 .. WriteLimit /\ mishaps' \in 0 .. MishapLimit
    BY <1>1, <1>2, AuditTypes, AuditLimits, UntoldType
  <2>2. begun' \in [Items -> [count : Nat, row : Item]] /\ \A x \in Items : begun'[x].count <= Len(trail'[x])
    BY <1>1, <1>2, <1>4, AuditTypes
  <2> QED
    BY <1>2, <1>4, <2>1, <2>2 DEF TypeOKAudit
<1>6. \A w \in Writers : writer'[w].pc = "idle"
  BY <1>2 DEF NoWriter
<1>7. ASSUME NEW x \in Items PROVE RowInv(x)'
  <2>1. trail'[x] \in Seq(Entry) /\ \A i \in 1 .. Len(trail'[x]) : trail'[x][i].named
    BY <1>3, <1>4
  <2>2. begun'[x] = [count |-> Len(trail'[x]), row |-> store'[x]] /\ stash'[x] = Nothing /\ x \notin odd'
    BY <1>2
  <2> QED
    BY <1>6, <2>1, <2>2, GapRow
<1>8. \A w \in Writers : RequestOK(w)'
  BY <1>6 DEF RequestOK
<1> QED
  BY <1>5, <1>7, <1>8, AuditNext

LEMMA AuditInit == InitAudit => AuditInv
<1> SUFFICES ASSUME InitAudit PROVE AuditInv
  OBVIOUS
<1>1. store \in [Items -> Item]
  <2>1. PICK T \in SUBSET Items : store = [x \in Items |-> IF x \in T THEN [Absent EXCEPT !.st = "live"] ELSE Absent]
    BY DEF InitAudit
  <2>2. Absent \in Item
    BY UntoldType
  <2>3. [Absent EXCEPT !.st = "live"] \in Item
    BY <2>2 DEF Item
  <2> QED
    BY <2>1, <2>2, <2>3
<1>2. <<>> \in Seq(Entry) /\ Len(<<>>) = 0
  OBVIOUS
<1>3. TypeOKAudit
  <2>1. /\ stash \in [Items -> Description] /\ context \in [Writers -> Description]
        /\ writer \in [Writers -> Writer] /\ trail \in [Items -> Seq(Entry)] /\ odd \subseteq Items
    BY <1>2, UntoldType DEF InitAudit
  <2>2. begun \in [Items -> [count : Nat, row : Item]] /\ \A x \in Items : begun[x].count <= Len(trail[x])
    <3>1. begun = [x \in Items |-> [count |-> 0, row |-> store[x]]] /\ \A x \in Items : trail[x] = <<>>
      BY DEF InitAudit
    <3>2. \A x \in Items : [count |-> 0, row |-> store[x]] \in [count : Nat, row : Item]
      BY <1>1
    <3> QED
      BY <1>2, <3>1, <3>2
  <2>3. writes \in 0 .. WriteLimit /\ mishaps \in 0 .. MishapLimit
    BY AuditLimits DEF InitAudit
  <2> QED
    BY <1>1, <2>1, <2>2, <2>3 DEF TypeOKAudit
<1>4. \A w \in Writers : writer[w].pc = "idle"
  BY DEF InitAudit, NoWriter
<1>5. \A w \in Writers : RequestOK(w)
  BY <1>4 DEF RequestOK
<1>6. ASSUME NEW x \in Items PROVE RowInv(x)
  <2>1. trail[x] = <<>> /\ begun[x] = [count |-> 0, row |-> store[x]] /\ stash[x] = Nothing
    BY DEF InitAudit
  <2>2. Tells(x, trail[x], begun[x], store[x])
    BY <1>2, <2>1 DEF Tells
  <2>3. RestInv(x)
    BY <2>1 DEF RestInv, Fits, Nothing, Untold
  <2>4. Saving(x) = {}
    BY <1>4 DEF Saving
  <2>5. AloneInv(x)
    BY <2>4 DEF AloneInv
  <2> QED
    BY <1>2, <2>1, <2>2, <2>3, <2>5 DEF RowInv
<1> QED
  BY <1>3, <1>5, <1>6, AuditParts

LEMMA StillAudit == ASSUME AuditInv, UNCHANGED auditVars PROVE AuditInv'
<1>1. UNCHANGED <<store, stash, context, writer, trail, begun, odd, writes, mishaps>>
  BY DEF auditVars
<1>2. TypeOKAudit /\ (\A p \in Writers : RequestOK(p)) /\ (\A y \in Items : RowInv(y))
  BY AuditParts
<1>3. TypeOKAudit'
  BY <1>1, <1>2 DEF TypeOKAudit
<1>4. ASSUME NEW p \in Writers PROVE RequestOK(p)'
  <2>1. Kept(p)
    BY <1>1 DEF Kept
  <2> QED
    BY <1>2, <2>1, KeptOK
<1>5. ASSUME NEW y \in Items PROVE RowInv(y)'
  <2>1. Untouched(y)
    BY <1>1 DEF Untouched
  <2> QED
    BY <1>2, <2>1, SameRow
<1> QED
  BY <1>3, <1>4, <1>5, AuditNext

LEMMA AuditStep == AuditInv /\ [NextAudit]_auditVars => AuditInv'
<1> SUFFICES ASSUME AuditInv, [NextAudit]_auditVars PROVE AuditInv'
  OBVIOUS
<1>1. ASSUME NEW w \in Writers, Write(w) PROVE AuditInv'
  BY <1>1, ReadAudit, DescribeAudit, SaveAudit, SaveFaultAudit, ClearAudit DEF Write
<1>2. ASSUME NEW x \in CaptureRows, ApplyStatus(x) PROVE AuditInv'
  BY <1>2, StatusAudit
<1>3. ASSUME NEW x \in Items, NEW i \in 1 .. WriteLimit, WriteEntry(x, i) \/ LoseEntry(x, i) PROVE AuditInv'
  BY <1>3, WriteAudit, LoseAudit
<1> QED
  BY <1>1, <1>2, <1>3, RestartAudit, StillAudit DEF NextAudit

\* For any number of rows, requests, mishaps and restarts: every entry has its
\* details, and the log of a row retells it up to its last gap, whatever failed
\* or empty saves left in the stash (AuditLogSubscriber, stashAuditEntityDetails).
THEOREM TrailInvHolds == SpecAudit => []TrailInv
<1>1. AuditInv => TrailInv
  BY DEF AuditInv, TrailInv
<1> QED
  BY <1>1, AuditInit, AuditStep, PTL DEF SpecAudit

RestoreStep ==
  \A x \in Items : store[x].st = "gone" /\ store'[x].st = "live" =>
    \/ /\ Len(trail'[x]) = Len(trail[x]) + 1
       /\ trail'[x][Len(trail'[x])].action = "RESTORE"
    \/ \E w \in Writers : writer[w].at = x /\ writer[w].quiet /\ writer'[w] # writer[w]

\* For any number of rows, requests, mishaps and restarts: no save brings a
\* removed row back without an entry that says RESTORE, unless its request
\* suppressed the audit (resolveUpdateAction).
THEOREM RestoreIsToldHolds == SpecAudit => RestoreIsTold
<1>1. AuditInv /\ [NextAudit]_auditVars => [RestoreStep]_auditVars
  <2> SUFFICES ASSUME AuditInv, NextAudit PROVE RestoreStep
    BY DEF RestoreStep, auditVars
  <2>1. TypeOKAudit /\ store \in [Items -> Item] /\ trail \in [Items -> Seq(Entry)] /\ writer \in [Writers -> Writer]
    BY AuditTypes DEF AuditInv
  <2>2. ASSUME store' = store PROVE RestoreStep
    BY <2>2 DEF RestoreStep
  <2>3. ASSUME NEW y \in CaptureRows, ApplyStatus(y) PROVE RestoreStep
    <3>1. y \in Items /\ store' = [store EXCEPT ![y].mark = TRUE] /\ store[y] \in Item
      BY <2>1, <2>3 DEF ApplyStatus, Items
    <3>2. [store[y] EXCEPT !.mark = TRUE].st = store[y].st
      BY <3>1 DEF Item
    <3>3. \A x \in Items : store'[x].st = store[x].st
      BY <2>1, <3>1, <3>2
    <3> QED
      BY <3>3 DEF RestoreStep
  <2>4. ASSUME NEW w \in Writers, SaveRow(w) PROVE RestoreStep
    <3>1. PICK y : y = writer[w].at
      OBVIOUS
    <3> DEFINE q == writer[w]
               m == Merged(w, y, store[y], q.want)
    <3>2. /\ q.pc = "save" /\ store' = [store EXCEPT ![y] = q.want] /\ writer' = Outdate(Others(w, y), w)
          /\ trail' = (IF store[y] # q.want /\ ~ q.quiet THEN [trail EXCEPT ![y] = Append(@, m)] ELSE trail)
      BY <2>4, <3>1 DEF SaveRow
    <3>3. y \in Items /\ trail[y] \in Seq(Entry)
      BY <2>1, <3>1, <3>2 DEF AuditInv, RequestInv, OpenInv
    <3>4. writer'[w] # writer[w]
      BY <2>1, <3>2, OutdateIs
    <3>5. m.action = resolveUpdateAction(store[y], q.want)
      BY MergedIs
    <3> HIDE DEF m
    <3>6. ASSUME NEW x \in Items, store[x].st = "gone", store'[x].st = "live", ~ q.quiet \/ x # y
          PROVE  Len(trail'[x]) = Len(trail[x]) + 1 /\ trail'[x][Len(trail'[x])].action = "RESTORE"
      <4>1. x = y /\ store'[y] = q.want
        BY <2>1, <3>2, <3>3, <3>6
      <4>2. trail'[y] = Append(trail[y], m)
        BY <2>1, <3>2, <3>3, <3>6, <4>1
      <4>3. Len(Append(trail[y], m)) = Len(trail[y]) + 1 /\ Append(trail[y], m)[Len(trail[y]) + 1] = m
        BY <3>3
      <4>4. m.action = "RESTORE"
        BY <3>5, <3>6, <4>1 DEF resolveUpdateAction
      <4> QED
        BY <4>1, <4>2, <4>3, <4>4
    <3> QED
      BY <3>1, <3>4, <3>6 DEF RestoreStep
  <2>5. ASSUME NEW w \in Writers, Write(w), ~ SaveRow(w) PROVE store' = store
    BY <2>5 DEF Write, ReadRow, Describe, SaveFault, ClearContext
  <2>6. ASSUME (\E x \in Items, i \in 1 .. WriteLimit : WriteEntry(x, i) \/ LoseEntry(x, i)) \/ RestartServer
        PROVE  store' = store
    BY <2>6 DEF WriteEntry, LoseEntry, RestartServer
  <2> QED
    BY <2>2, <2>3, <2>4, <2>5, <2>6 DEF NextAudit
<1>2. SpecAudit => []AuditInv
  BY AuditInit, AuditStep, PTL DEF SpecAudit
<1> QED
  BY <1>1, <1>2, PTL DEF SpecAudit, RestoreIsTold, RestoreStep

=============================================================================
