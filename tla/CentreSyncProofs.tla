-------------------------- MODULE CentreSyncProofs --------------------------
(***************************************************************************)
(* Proofs about CentreSync, for any number of runs, rows, edits, faults and *)
(* any chunk size and precision.  The invariant is about the one table that *)
(* both sides edit:                                                        *)
(*   DataInv     the newest version of a row is on a side no copy of the   *)
(*               row can overwrite, and a chunk is behind its own side     *)
(*   MarkInv     versions of a row are in the order of their milliseconds, *)
(*               and two rows share none; the bound Crowd is 1 for this    *)
(*   PushInv, PullInv   what a run has still to deliver is ahead of its    *)
(*               cursor or on its way                                      *)
(***************************************************************************)
EXTENDS CentreSync, TLAPS, FiniteSetTheorems, WellFoundedInduction

-----------------------------------------------------------------------------
(* The clock, and times that are cut to milliseconds.                      *)

LEMMA MillisBounds ==
  ASSUME NEW t \in Nat
  PROVE  /\ Millis(t) \in Nat /\ Millis(t) <= t /\ t < Millis(t) + Precision
         /\ \E q \in Nat : Millis(t) = q * Precision
<1> DEFINE q == t \div Precision
<1>1. Precision \in Nat /\ Precision > 0
  BY SizesAssumption
<1>2. q \in Int /\ q * Precision <= t /\ t < q * Precision + Precision
  BY <1>1, Z3
<1>3. q >= 0
  BY <1>1, <1>2, Z3
<1>4. q * Precision \in Nat
  BY <1>1, <1>2, <1>3, Z3
<1> QED
  BY <1>1, <1>2, <1>3, <1>4 DEF Millis

LEMMA MillisUnique ==
  ASSUME NEW t \in Nat, NEW q \in Nat, q * Precision <= t, t < q * Precision + Precision
  PROVE  Millis(t) = q * Precision
<1>1. Precision \in Nat /\ Precision > 0
  BY SizesAssumption
<1>2. PICK p \in Nat : Millis(t) = p * Precision
  BY MillisBounds
<1>3. p * Precision <= t /\ t < p * Precision + Precision
  BY <1>2, MillisBounds
<1>4. ~ (p < q) /\ ~ (q < p)
  <2>1. \A a, b \in Nat : a < b => a * Precision + Precision <= b * Precision
    BY <1>1, Z3
  <2> QED
    BY <1>1, <1>3, <2>1, Z3
<1> QED
  BY <1>2, <1>4

LEMMA MillisWhole ==
  ASSUME NEW t \in Nat
  PROVE  Millis(Millis(t)) = Millis(t)
<1>1. PICK q \in Nat : Millis(t) = q * Precision
  BY MillisBounds
<1>2. Millis(t) \in Nat /\ Precision \in Nat /\ Precision > 0
  BY MillisBounds, SizesAssumption
<1> QED
  BY <1>1, <1>2, MillisUnique

LEMMA MillisMono ==
  ASSUME NEW s \in Nat, NEW t \in Nat, s <= t
  PROVE  Millis(s) <= Millis(t)
<1>1. PICK p \in Nat : Millis(s) = p * Precision
  BY MillisBounds
<1>2. PICK q \in Nat : Millis(t) = q * Precision
  BY MillisBounds
<1>3. Precision \in Nat /\ Precision > 0
  BY SizesAssumption
<1>4. p * Precision <= s /\ t < q * Precision + Precision
  BY <1>1, <1>2, MillisBounds
<1>5. ~ (q < p)
  <2>1. q < p => q * Precision + Precision <= p * Precision
    BY <1>3, Z3
  <2> QED
    BY <1>3, <1>4, <2>1, Z3
<1>6. p <= q => p * Precision <= q * Precision
  BY <1>3, Z3
<1> QED
  BY <1>1, <1>2, <1>5, <1>6, Z3

\* The next moment of the clock is not before this one, and at most a
\* millisecond later.
LEMMA MomentBounds ==
  ASSUME NEW n \in Nat, NEW t \in {n, Millis(n) + 2 * Precision - 1}
  PROVE  /\ t \in Nat /\ n <= t
         /\ Millis(t) \in {Millis(n), Millis(n) + Precision}
<1>1. Precision \in Nat /\ Precision > 0
  BY SizesAssumption
<1>2. /\ Millis(n) \in Nat /\ Millis(n) <= n /\ n < Millis(n) + Precision
  BY MillisBounds
<1>3. CASE t = n
  BY <1>2, <1>3
<1>4. CASE t = Millis(n) + 2 * Precision - 1
  <2>1. t \in Nat /\ n <= t
    BY <1>1, <1>2, <1>4
  <2>2. PICK q \in Nat : Millis(n) = q * Precision
    BY MillisBounds
  <2>3. q + 1 \in Nat /\ (q + 1) * Precision = Millis(n) + Precision
    BY <1>1, <2>2, Z3
  <2>4. Millis(t) = (q + 1) * Precision
    <3>1. (q + 1) * Precision <= t /\ t < (q + 1) * Precision + Precision
      BY <1>1, <1>2, <1>4, <2>3
    <3> QED
      BY <2>1, <2>3, <3>1, MillisUnique
  <2> QED
    BY <2>1, <2>3, <2>4
<1> QED BY <1>3, <1>4

-----------------------------------------------------------------------------
(* The sizes of an instance.                                               *)

LEMMA OrderOfTables ==
  /\ PUSH_ORDER[1] = "Line" /\ Len(PUSH_ORDER) \in {1, 2}
  /\ PULL_ORDER[Len(PULL_ORDER)] = "Line" /\ Len(PULL_ORDER) \in {1, 2}
  /\ \A p \in 1 .. Len(PUSH_ORDER) :
       PUSH_ORDER[p] \in Entities /\ (PUSH_ORDER[p] = "Line" <=> p = 1)
  /\ \A p \in 1 .. Len(PULL_ORDER) :
       PULL_ORDER[p] \in Entities /\ (PULL_ORDER[p] = "Line" <=> p = Len(PULL_ORDER))
BY EntitiesAssumption DEF PUSH_ORDER, PULL_ORDER

LEMMA StartBounds ==
  /\ Start \in Nat /\ Millis(Start) = Start
  /\ \A e \in Entities, i \in Nat : i <= Onboarded[e] => Precision * i <= Start
  /\ \A i \in Nat : Precision * i \in Nat /\ Millis(Precision * i) = Precision * i
<1> DEFINE S == {Onboarded[e] : e \in Entities}
<1>1. Precision \in Nat /\ Precision > 0
  BY SizesAssumption
<1>2. S \subseteq Nat
  BY SizesAssumption
<1>3. \E x \in S : \A y \in S : x >= y
  <2>1. Entities \subseteq {"Vehicle", "Line", "Job"} /\ "Line" \in Entities
    BY EntitiesAssumption DEF direction
  <2>2. \A e \in Entities : Onboarded[e] \in Nat
    BY SizesAssumption
  <2> QED
    BY <2>1, <2>2
<1>4. Max(S) \in S /\ \A y \in S : Max(S) >= y
  BY <1>3 DEF Max
<1>5. \A i \in Nat : Precision * i \in Nat /\ Precision * i = i * Precision
  BY <1>1, Z3
<1>6. \A i \in Nat : Millis(Precision * i) = Precision * i
  BY <1>1, <1>5, MillisUnique
<1>7. \A i, j \in Nat : i <= j => Precision * i <= Precision * j
  BY <1>1, Z3
<1>8. Max(S) \in Nat /\ \A e \in Entities : Onboarded[e] \in S
  BY <1>2, <1>4
<1> HIDE DEF S
<1>9. Start = Precision * Max(S)
  BY DEF Start, S
<1>10. \A e \in Entities, i \in Nat : i <= Onboarded[e] => i <= Max(S)
  <2> TAKE e \in Entities, i \in Nat
  <2> HAVE i <= Onboarded[e]
  <2>1. Onboarded[e] \in Nat /\ Onboarded[e] <= Max(S)
    BY <1>2, <1>4, <1>8
  <2> QED
    BY <1>8, <2>1
<1>11. Start \in Nat /\ Millis(Start) = Start
  BY <1>5, <1>6, <1>8, <1>9
<1>12. \A e \in Entities, i \in Nat : i <= Onboarded[e] => Precision * i <= Start
  BY <1>7, <1>8, <1>9, <1>10
<1> QED
  BY <1>5, <1>6, <1>11, <1>12

-----------------------------------------------------------------------------
(* The table that both sides edit.  The operators are about a side A and   *)
(* the chunks M that left it, and the other side B with its chunks N; the  *)
(* centre and central take either place.                                   *)

LineIds == Ids("Line")
Version == [v : Nat, at : Nat]
Message == [id : LineIds, v : Nat, at : Nat]

\* A chunk holds a row once.
Single(chunk) == \A m, o \in chunk : m.id = o.id => m = o

\* A row that travels was on the side it comes from, which is as late or later.
Behind(M, A, n) == \A m \in M :
  m.v <= n /\ m.at <= A[m.id].at /\ Millis(m.at) = m.at

\* Nothing is of the future.
Dated(A, t, n) == \A i \in LineIds : A[i].v <= n /\ A[i].at <= t

\* A has the last version of a row, and B has nothing to overwrite it with.
Holds(A, B, news, i) == A[i].v = news[i] /\ B[i].at <= A[i].at

DataOK(A, B, M, N, news, t, n) ==
  /\ A \in [LineIds -> Version] /\ B \in [LineIds -> Version]
  /\ M \subseteq Message /\ N \subseteq Message
  /\ t \in Nat /\ n \in Nat /\ DOMAIN news = LineIds
  /\ Behind(M, A, n) /\ Behind(N, B, n)
  /\ Dated(A, t, n) /\ Dated(B, t, n)
  /\ \A i \in LineIds : Holds(A, B, news, i) \/ Holds(B, A, news, i)

LEMMA DataMirrored ==
  ASSUME NEW A, NEW B, NEW M, NEW N, NEW news, NEW t, NEW n, DataOK(A, B, M, N, news, t, n)
  PROVE  DataOK(B, A, N, M, news, t, n)
BY DEF DataOK

\* What upsertWithUpdate makes of a row.
LEMMA UpsertRow ==
  ASSUME NEW B \in [LineIds -> Version], NEW chunk \in SUBSET Message, Single(chunk),
         NEW C, C = upsertWithUpdate("Line", B, chunk)
  PROVE  /\ C \in [LineIds -> Version]
         /\ \A i \in LineIds :
              \/ C[i] = B[i] /\ \A m \in chunk : m.id = i => m.at <= B[i].at
              \/ \E m \in chunk : m.id = i /\ B[i].at < m.at /\ C[i] = [v |-> m.v, at |-> m.at]
<1>1. DOMAIN B = LineIds /\ DOMAIN C = LineIds
  BY DEF upsertWithUpdate
<1>2. ASSUME NEW i \in LineIds
      PROVE  /\ C[i] \in Version
             /\ \/ C[i] = B[i] /\ \A m \in chunk : m.id = i => m.at <= B[i].at
                \/ \E m \in chunk : m.id = i /\ B[i].at < m.at /\ C[i] = [v |-> m.v, at |-> m.at]
  <2>1. B[i].at \in Nat /\ \A m \in chunk : m.at \in Nat /\ m.v \in Nat
    BY DEF Version, Message
  <2>2. CASE \E m \in chunk : m.id = i /\ B[i].at < m.at
    <3>1. PICK m \in chunk : m.id = i /\ B[i].at < m.at
      BY <2>2
    <3>2. (CHOOSE o \in chunk : o.id = i) = m
      BY <3>1 DEF Single
    <3>3. C[i] = [v |-> m.v, at |-> m.at]
      BY <1>1, <3>1, <3>2 DEF upsertWithUpdate
    <3> QED
      BY <2>1, <3>1, <3>3 DEF Version
  <2>3. CASE ~ \E m \in chunk : m.id = i /\ B[i].at < m.at
    <3>1. C[i] = B[i]
      BY <1>1, <2>3 DEF upsertWithUpdate, direction
    <3> QED
      BY <2>1, <2>3, <3>1
  <2> QED
    BY <2>2, <2>3
<1>3. C = [i \in LineIds |-> C[i]]
  BY <1>1 DEF upsertWithUpdate
<1> QED
  BY <1>2, <1>3

\* A chunk of A is stored by B.
LEMMA DataStored ==
  ASSUME NEW A, NEW B, NEW M, NEW N, NEW news, NEW t, NEW n, DataOK(A, B, M, N, news, t, n),
         NEW chunk \in SUBSET M, Single(chunk),
         NEW C, C = upsertWithUpdate("Line", B, chunk)
  PROVE  DataOK(A, C, M, N, news, t, n)
<1>1. /\ A \in [LineIds -> Version] /\ B \in [LineIds -> Version]
      /\ chunk \in SUBSET Message /\ N \subseteq Message
      /\ t \in Nat /\ n \in Nat
  BY DEF DataOK
<1>2. /\ C \in [LineIds -> Version]
      /\ \A i \in LineIds :
           \/ C[i] = B[i] /\ \A m \in chunk : m.id = i => m.at <= B[i].at
           \/ \E m \in chunk : m.id = i /\ B[i].at < m.at /\ C[i] = [v |-> m.v, at |-> m.at]
  BY <1>1, UpsertRow
<1>3. \A i \in LineIds :
        /\ A[i].v \in Nat /\ A[i].at \in Nat /\ B[i].v \in Nat /\ B[i].at \in Nat
        /\ C[i].v \in Nat /\ C[i].at \in Nat
  BY <1>1, <1>2 DEF Version
<1>4. ASSUME NEW i \in LineIds
      PROVE  /\ C[i] = B[i] \/ /\ C[i].v <= n /\ C[i].at <= A[i].at
                               /\ B[i].at < C[i].at /\ B[i].at < A[i].at
  <2>1. CASE \E m \in chunk : m.id = i /\ B[i].at < m.at /\ C[i] = [v |-> m.v, at |-> m.at]
    <3>1. PICK m \in chunk : m.id = i /\ B[i].at < m.at /\ C[i] = [v |-> m.v, at |-> m.at]
      BY <2>1
    <3>2. m.v <= n /\ m.at <= A[i].at /\ m.at \in Nat
      BY <1>1, <3>1 DEF DataOK, Behind, Message
    <3>3. C[i].v = m.v /\ C[i].at = m.at
      BY <3>1
    <3> QED
      BY <1>3, <3>1, <3>2, <3>3
  <2> QED
    BY <1>2, <2>1
<1>5. Dated(C, t, n)
  BY <1>1, <1>3, <1>4 DEF DataOK, Dated
<1>6. \A i \in LineIds : Holds(A, C, news, i) \/ Holds(C, A, news, i)
  BY <1>3, <1>4 DEF DataOK, Holds
<1>7. Behind(N, C, n)
  <2> SUFFICES ASSUME NEW m \in N
               PROVE  m.v <= n /\ m.at <= C[m.id].at /\ Millis(m.at) = m.at
    BY DEF Behind
  <2>1. /\ m.id \in LineIds /\ m.at \in Nat /\ m.v \in Nat
        /\ m.v <= n /\ m.at <= B[m.id].at /\ Millis(m.at) = m.at
    BY <1>1 DEF DataOK, Behind, Message
  <2> QED
    BY <1>3, <1>4, <2>1
<1> QED
  BY <1>1, <1>2, <1>5, <1>6, <1>7 DEF DataOK

\* A makes version n + 1 of row i, at a moment u that is not past.
LEMMA DataEdited ==
  ASSUME NEW A, NEW B, NEW M, NEW N, NEW news, NEW t, NEW n, DataOK(A, B, M, N, news, t, n),
         NEW u \in Nat, t <= u, NEW i \in LineIds
  PROVE  DataOK([A EXCEPT ![i] = [v |-> n + 1, at |-> u]], B, M, N,
                [news EXCEPT ![i] = n + 1], u, n + 1)
<1> DEFINE A2 == [A EXCEPT ![i] = [v |-> n + 1, at |-> u]]
           news2 == [news EXCEPT ![i] = n + 1]
<1>1. /\ A \in [LineIds -> Version] /\ B \in [LineIds -> Version]
      /\ M \subseteq Message /\ N \subseteq Message
      /\ t \in Nat /\ n \in Nat /\ DOMAIN news = LineIds
  BY DEF DataOK
<1>2. A2 \in [LineIds -> Version] /\ DOMAIN news2 = LineIds
  BY <1>1 DEF Version
<1>3. /\ A2[i].v = n + 1 /\ A2[i].at = u /\ news2[i] = n + 1
      /\ \A j \in LineIds \ {i} : A2[j] = A[j] /\ news2[j] = news[j]
  BY <1>1
<1>4. \A j \in LineIds :
        /\ A[j].v \in Nat /\ A[j].at \in Nat /\ B[j].v \in Nat /\ B[j].at \in Nat
        /\ A[j].v <= n /\ A[j].at <= t /\ B[j].v <= n /\ B[j].at <= t
  BY <1>1 DEF Version, DataOK, Dated
<1> HIDE DEF A2, news2
<1>5. Dated(A2, u, n + 1) /\ Dated(B, u, n + 1)
  BY <1>1, <1>3, <1>4 DEF Dated
<1>6. \A j \in LineIds : Holds(A2, B, news2, j) \/ Holds(B, A2, news2, j)
  BY <1>1, <1>3, <1>4 DEF DataOK, Holds
<1>7. Behind(M, A2, n + 1)
  <2> SUFFICES ASSUME NEW m \in M
               PROVE  m.v <= n + 1 /\ m.at <= A2[m.id].at /\ Millis(m.at) = m.at
    BY DEF Behind
  <2>1. /\ m.id \in LineIds /\ m.at \in Nat /\ m.v \in Nat
        /\ m.v <= n /\ m.at <= A[m.id].at /\ Millis(m.at) = m.at
    BY <1>1 DEF DataOK, Behind, Message
  <2> QED
    BY <1>1, <1>3, <1>4, <2>1
<1>8. Behind(N, B, n + 1)
  <2> SUFFICES ASSUME NEW m \in N
               PROVE  m.v <= n + 1 /\ m.at <= B[m.id].at /\ Millis(m.at) = m.at
    BY DEF Behind
  <2>1. /\ m.v \in Nat /\ m.v <= n /\ m.at <= B[m.id].at /\ Millis(m.at) = m.at
    BY <1>1 DEF DataOK, Behind, Message
  <2> QED
    BY <1>1, <2>1
<1>9. n + 1 \in Nat
  BY <1>1
<1>10. DataOK(A2, B, M, N, news2, u, n + 1)
  BY <1>1, <1>2, <1>5, <1>6, <1>7, <1>8, <1>9 DEF DataOK
<1> QED
  BY <1>10 DEF A2, news2

LEMMA PackedRows ==
  ASSUME NEW A \in [LineIds -> Version], NEW c \in SUBSET LineIds, NEW m \in Packed(A, c)
  PROVE  /\ m \in Message /\ m.id \in c
         /\ m.v = A[m.id].v /\ m.at = Millis(A[m.id].at)
<1>1. PICK i \in c : m = [id |-> i, v |-> A[i].v, at |-> Millis(A[i].at)]
  BY DEF Packed
<1>2. A[i].v \in Nat /\ A[i].at \in Nat
  BY DEF Version
<1>3. Millis(A[i].at) \in Nat
  BY <1>2, MillisBounds
<1> QED
  BY <1>1, <1>2, <1>3 DEF Message

\* A packs a chunk; other chunks may be gone.
LEMMA DataPacked ==
  ASSUME NEW A, NEW B, NEW M, NEW N, NEW news, NEW t, NEW n, DataOK(A, B, M, N, news, t, n),
         NEW c \in SUBSET LineIds, NEW M2 \in SUBSET (M \union Packed(A, c)), NEW N2 \in SUBSET N
  PROVE  DataOK(A, B, M2, N2, news, t, n)
<1>1. /\ A \in [LineIds -> Version] /\ B \in [LineIds -> Version]
      /\ M \subseteq Message /\ N \subseteq Message
      /\ t \in Nat /\ n \in Nat
  BY DEF DataOK
<1>2. ASSUME NEW m \in M2
      PROVE  /\ m \in Message
             /\ m.v <= n /\ m.at <= A[m.id].at /\ Millis(m.at) = m.at
  <2>1. CASE m \in M
    BY <1>1, <2>1 DEF DataOK, Behind
  <2>2. CASE m \in Packed(A, c)
    <3>1. /\ m \in Message /\ m.id \in LineIds
          /\ m.v = A[m.id].v /\ m.at = Millis(A[m.id].at)
      BY <1>1, <2>2, PackedRows
    <3>2. A[m.id].at \in Nat /\ A[m.id].v <= n
      BY <1>1, <3>1 DEF Version, DataOK, Dated
    <3> QED
      BY <3>1, <3>2, MillisBounds, MillisWhole
  <2> QED
    BY <2>1, <2>2
<1>3. Behind(M2, A, n) /\ M2 \subseteq Message
  BY <1>2 DEF Behind
<1>4. Behind(N2, B, n) /\ N2 \subseteq Message
  BY <1>1 DEF DataOK, Behind
<1> QED
  BY <1>3, <1>4 DEF DataOK

-----------------------------------------------------------------------------
(* Versions and milliseconds.  When no two rows are edited in one          *)
(* millisecond, the copies of a row have the order of their versions, and  *)
(* a row has its milliseconds to itself.                                   *)

Stamped(x) == [v |-> x.v, ms |-> Millis(x.at)]

\* What a row is, on either side and on its way.
Marks(i, A, B, M, N) ==
  {Stamped(A[i]), Stamped(B[i])} \union {Stamped(m) : m \in {m \in M \union N : m.id = i}}

MarkOK(A, B, M, N) ==
  /\ \A i \in LineIds : \A x, y \in Marks(i, A, B, M, N) : x.v < y.v <=> x.ms < y.ms
  /\ \A i, j \in LineIds : i # j =>
       \A x \in Marks(i, A, B, M, N), y \in Marks(j, A, B, M, N) : x.ms = y.ms => x.ms = 0

\* The rows up to version s that B still has to get from A.
Owed(A, B, s) == {i \in LineIds : A[i].v <= s /\ B[i].v < A[i].v}

\* A step that leaves nothing more to be delivered.
Kept(A, B, A2, B2, s) == \A i \in Owed(A2, B2, s) : i \in Owed(A, B, s) /\ A2[i] = A[i]

LEMMA MarkMirrored ==
  ASSUME NEW A, NEW B, NEW M, NEW N, MarkOK(A, B, M, N)
  PROVE  MarkOK(B, A, N, M)
<1>1. \A i : Marks(i, B, A, N, M) = Marks(i, A, B, M, N)
  BY DEF Marks
<1> QED
  BY <1>1 DEF MarkOK

LEMMA MarkShrinks ==
  ASSUME NEW A, NEW B, NEW M, NEW N, MarkOK(A, B, M, N),
         NEW A2, NEW B2, NEW M2, NEW N2,
         \A i \in LineIds : Marks(i, A2, B2, M2, N2) \subseteq Marks(i, A, B, M, N)
  PROVE  MarkOK(A2, B2, M2, N2)
BY DEF MarkOK

LEMMA MarkTypes ==
  ASSUME NEW A, NEW B, NEW M, NEW N, NEW news, NEW t, NEW n, DataOK(A, B, M, N, news, t, n),
         NEW i \in LineIds, NEW x \in Marks(i, A, B, M, N)
  PROVE  /\ x.v \in Nat /\ x.v <= n /\ x.ms \in Nat
         /\ x.ms <= Millis(A[i].at) \/ x.ms <= Millis(B[i].at)
<1>1. /\ A \in [LineIds -> Version] /\ B \in [LineIds -> Version]
      /\ M \subseteq Message /\ N \subseteq Message
  BY DEF DataOK
<1>2. /\ A[i].v \in Nat /\ A[i].at \in Nat /\ B[i].v \in Nat /\ B[i].at \in Nat
      /\ A[i].v <= n /\ B[i].v <= n
  BY <1>1 DEF Version, DataOK, Dated
<1>3. Millis(A[i].at) \in Nat /\ Millis(B[i].at) \in Nat
  BY <1>2, MillisBounds
<1>4. CASE x \in {Stamped(A[i]), Stamped(B[i])}
  BY <1>2, <1>3, <1>4 DEF Stamped
<1>5. CASE \E m \in M \union N : m.id = i /\ x = Stamped(m)
  <2>1. PICK m \in M \union N : m.id = i /\ x = Stamped(m)
    BY <1>5
  <2>2. m.v \in Nat /\ m.at \in Nat /\ m.v <= n /\ (m.at <= A[i].at \/ m.at <= B[i].at)
    BY <1>1, <2>1 DEF Message, DataOK, Behind
  <2>3. Millis(m.at) \in Nat /\ (Millis(m.at) <= Millis(A[i].at) \/ Millis(m.at) <= Millis(B[i].at))
    BY <1>2, <2>2, MillisBounds, MillisMono
  <2> QED
    BY <2>1, <2>2, <2>3 DEF Stamped
<1> QED
  BY <1>4, <1>5 DEF Marks

LEMMA MarkStored ==
  ASSUME NEW A, NEW B, NEW M, NEW N, NEW news, NEW t, NEW n, DataOK(A, B, M, N, news, t, n),
         MarkOK(A, B, M, N), NEW chunk \in SUBSET M, Single(chunk),
         NEW C, C = upsertWithUpdate("Line", B, chunk)
  PROVE  /\ MarkOK(A, C, M, N)
         /\ \A s \in Nat : Kept(A, B, A, C, s) /\ Kept(B, A, C, A, s)
         /\ \A m \in chunk : m.v <= C[m.id].v
<1>1. /\ A \in [LineIds -> Version] /\ B \in [LineIds -> Version]
      /\ chunk \in SUBSET Message
  BY DEF DataOK
<1>2. /\ C \in [LineIds -> Version]
      /\ \A i \in LineIds :
           \/ C[i] = B[i] /\ \A m \in chunk : m.id = i => m.at <= B[i].at
           \/ \E m \in chunk : m.id = i /\ B[i].at < m.at /\ C[i] = [v |-> m.v, at |-> m.at]
  BY <1>1, UpsertRow
<1>3. \A i \in LineIds :
        /\ A[i].v \in Nat /\ A[i].at \in Nat /\ B[i].v \in Nat /\ B[i].at \in Nat
        /\ C[i].v \in Nat /\ C[i].at \in Nat
        /\ Millis(A[i].at) \in Nat /\ Millis(B[i].at) \in Nat /\ Millis(B[i].at) <= B[i].at
  BY <1>1, <1>2, MillisBounds DEF Version
<1>4. ASSUME NEW m \in chunk
      PROVE  /\ m.id \in LineIds /\ m.v \in Nat /\ m.at \in Nat /\ Millis(m.at) = m.at
             /\ m.v <= A[m.id].v
             /\ B[m.id].at < m.at => B[m.id].v < m.v
             /\ m.at <= B[m.id].at => m.v <= B[m.id].v
  <2>1. /\ m.id \in LineIds /\ m.v \in Nat /\ m.at \in Nat /\ Millis(m.at) = m.at
        /\ m.at <= A[m.id].at
    BY <1>1 DEF Message, DataOK, Behind
  <2>2. {Stamped(m), Stamped(A[m.id]), Stamped(B[m.id])} \subseteq Marks(m.id, A, B, M, N)
    BY DEF Marks
  <2>3. \A x, y \in {Stamped(m), Stamped(A[m.id]), Stamped(B[m.id])} : x.v < y.v <=> x.ms < y.ms
    BY <2>1, <2>2 DEF MarkOK
  <2>4. /\ A[m.id].v < m.v <=> Millis(A[m.id].at) < Millis(m.at)
        /\ B[m.id].v < m.v <=> Millis(B[m.id].at) < Millis(m.at)
    BY <2>3 DEF Stamped
  <2>5. /\ Millis(m.at) <= Millis(A[m.id].at)
        /\ m.at <= B[m.id].at => Millis(m.at) <= Millis(B[m.id].at)
    BY <1>3, <2>1, MillisMono
  <2> QED
    BY <1>3, <2>1, <2>4, <2>5
<1>5. ASSUME NEW i \in LineIds
      PROVE  C[i] = B[i] \/ (B[i].v < C[i].v /\ C[i].v <= A[i].v)
  <2>1. CASE \E m \in chunk : m.id = i /\ B[i].at < m.at /\ C[i] = [v |-> m.v, at |-> m.at]
    <3>1. PICK m \in chunk : m.id = i /\ B[i].at < m.at /\ C[i] = [v |-> m.v, at |-> m.at]
      BY <2>1
    <3> QED
      BY <1>4, <3>1
  <2> QED
    BY <1>2, <2>1
<1>6. MarkOK(A, C, M, N)
  <2>1. ASSUME NEW i \in LineIds
        PROVE  Stamped(C[i]) \in Marks(i, A, B, M, N)
    <3>1. CASE C[i] = B[i]
      BY <3>1 DEF Marks
    <3>2. CASE \E m \in chunk : m.id = i /\ B[i].at < m.at /\ C[i] = [v |-> m.v, at |-> m.at]
      <4>1. PICK m \in chunk : m.id = i /\ C[i] = [v |-> m.v, at |-> m.at]
        BY <3>2
      <4>2. Stamped(C[i]) = Stamped(m)
        BY <4>1 DEF Stamped
      <4> QED
        BY <4>1, <4>2 DEF Marks
    <3> QED
      BY <1>2, <3>1, <3>2
  <2>2. \A i \in LineIds : Marks(i, A, C, M, N) \subseteq Marks(i, A, B, M, N)
    BY <2>1 DEF Marks
  <2> QED
    BY <2>2, MarkShrinks
<1>7. \A s \in Nat : Kept(A, B, A, C, s) /\ Kept(B, A, C, A, s)
  BY <1>3, <1>5 DEF Kept, Owed
<1>8. \A m \in chunk : m.v <= C[m.id].v
  <2> SUFFICES ASSUME NEW m \in chunk PROVE m.v <= C[m.id].v
    OBVIOUS
  <2>1. CASE C[m.id] = B[m.id] /\ m.at <= B[m.id].at
    BY <1>4, <2>1
  <2>2. CASE \E o \in chunk : o.id = m.id /\ C[m.id] = [v |-> o.v, at |-> o.at]
    BY <1>4, <2>2 DEF Single
  <2> QED
    BY <1>2, <1>4, <2>1, <2>2
<1> QED
  BY <1>6, <1>7, <1>8

\* A makes version n + 1 of row i, in a millisecond of its own.
LEMMA MarkEdited ==
  ASSUME NEW A, NEW B, NEW M, NEW N, NEW news, NEW t, NEW n, DataOK(A, B, M, N, news, t, n),
         MarkOK(A, B, M, N), NEW u \in Nat, t <= u, NEW i \in LineIds,
         \A j \in LineIds : Millis(A[j].at) # Millis(u) /\ Millis(B[j].at) # Millis(u),
         NEW A2, A2 = [A EXCEPT ![i] = [v |-> n + 1, at |-> u]]
  PROVE  /\ MarkOK(A2, B, M, N)
         /\ \A s \in 0 .. n : Kept(A, B, A2, B, s) /\ Kept(B, A, B, A2, s)
<1>1. /\ A \in [LineIds -> Version] /\ B \in [LineIds -> Version]
      /\ t \in Nat /\ n \in Nat
  BY DEF DataOK
<1>2. /\ A2[i] = [v |-> n + 1, at |-> u] /\ \A j \in LineIds \ {i} : A2[j] = A[j]
  BY <1>1
<1>3. \A j \in LineIds :
        /\ A[j].v \in Nat /\ A[j].at \in Nat /\ B[j].v \in Nat /\ B[j].at \in Nat
        /\ A[j].v <= n /\ A[j].at <= t /\ B[j].v <= n /\ B[j].at <= t
  BY <1>1 DEF Version, DataOK, Dated
<1>4. \A j \in LineIds : Millis(A[j].at) < Millis(u) /\ Millis(B[j].at) < Millis(u)
  <2> TAKE j \in LineIds
  <2>1. A[j].at <= u /\ B[j].at <= u /\ A[j].at \in Nat /\ B[j].at \in Nat
    BY <1>1, <1>3
  <2>2. Millis(A[j].at) <= Millis(u) /\ Millis(B[j].at) <= Millis(u)
    BY <2>1, MillisMono
  <2>3. Millis(A[j].at) \in Nat /\ Millis(B[j].at) \in Nat /\ Millis(u) \in Nat
    BY <2>1, MillisBounds
  <2> QED
    BY <2>2, <2>3
<1> DEFINE new == [v |-> n + 1, ms |-> Millis(u)]
<1>5. \A j \in LineIds : \A x \in Marks(j, A, B, M, N) :
        x.v \in Nat /\ x.ms \in Nat /\ x.v < new.v /\ x.ms < new.ms
  <2> TAKE j \in LineIds
  <2> TAKE x \in Marks(j, A, B, M, N)
  <2>1. /\ x.v \in Nat /\ x.v <= n /\ x.ms \in Nat
        /\ x.ms <= Millis(A[j].at) \/ x.ms <= Millis(B[j].at)
    BY MarkTypes
  <2>2. Millis(A[j].at) \in Nat /\ Millis(B[j].at) \in Nat /\ Millis(u) \in Nat
    BY <1>3, MillisBounds
  <2> QED
    BY <1>1, <1>4, <2>1, <2>2
<1>6. /\ Marks(i, A2, B, M, N) \subseteq Marks(i, A, B, M, N) \union {new}
      /\ \A j \in LineIds \ {i} : Marks(j, A2, B, M, N) = Marks(j, A, B, M, N)
  BY <1>2 DEF Marks, Stamped
<1>7. new.v \in Nat /\ new.ms \in Nat
  BY <1>1, MillisBounds
<1> HIDE DEF new
<1>8. MarkOK(A2, B, M, N)
  <2>1. ASSUME NEW j \in LineIds, NEW x \in Marks(j, A2, B, M, N), NEW y \in Marks(j, A2, B, M, N)
        PROVE  x.v < y.v <=> x.ms < y.ms
    <3>1. x \in Marks(j, A, B, M, N) \/ x = new
      BY <1>6
    <3>2. y \in Marks(j, A, B, M, N) \/ y = new
      BY <1>6
    <3>3. CASE x \in Marks(j, A, B, M, N) /\ y \in Marks(j, A, B, M, N)
      BY <3>3 DEF MarkOK
    <3>4. CASE x = new \/ y = new
      BY <1>5, <1>7, <3>1, <3>2, <3>4
    <3> QED
      BY <3>1, <3>2, <3>3, <3>4
  <2>2. ASSUME NEW j \in LineIds, NEW k \in LineIds, j # k,
               NEW x \in Marks(j, A2, B, M, N), NEW y \in Marks(k, A2, B, M, N), x.ms = y.ms
        PROVE  x.ms = 0
    <3>1. x \in Marks(j, A, B, M, N) \/ (x = new /\ j = i)
      BY <1>6
    <3>2. y \in Marks(k, A, B, M, N) \/ (y = new /\ k = i)
      BY <1>6
    <3>3. CASE x \in Marks(j, A, B, M, N) /\ y \in Marks(k, A, B, M, N)
      BY <2>2, <3>3 DEF MarkOK
    <3>4. CASE x = new \/ y = new
      BY <1>5, <1>7, <2>2, <3>1, <3>2, <3>4
    <3> QED
      BY <3>1, <3>2, <3>3, <3>4
  <2> QED
    BY <2>1, <2>2 DEF MarkOK
<1>9. \A s \in 0 .. n : Kept(A, B, A2, B, s) /\ Kept(B, A, B, A2, s)
  BY <1>1, <1>2, <1>3 DEF Kept, Owed
<1> QED
  BY <1>8, <1>9

LEMMA MarkPacked ==
  ASSUME NEW A, NEW B, NEW M, NEW N, NEW news, NEW t, NEW n, DataOK(A, B, M, N, news, t, n),
         MarkOK(A, B, M, N), NEW c \in SUBSET LineIds,
         NEW M2 \in SUBSET (M \union Packed(A, c)), NEW N2 \in SUBSET N
  PROVE  MarkOK(A, B, M2, N2)
<1>1. A \in [LineIds -> Version]
  BY DEF DataOK
<1>2. ASSUME NEW m \in Packed(A, c)
      PROVE  Stamped(m) = Stamped(A[m.id])
  <2>1. m.v = A[m.id].v /\ m.at = Millis(A[m.id].at) /\ m.id \in LineIds
    BY <1>1, PackedRows
  <2>2. A[m.id].at \in Nat
    BY <1>1, <2>1 DEF Version
  <2> QED
    BY <2>1, <2>2, MillisWhole DEF Stamped
<1>3. \A i \in LineIds : Marks(i, A, B, M2, N2) \subseteq Marks(i, A, B, M, N)
  BY <1>2 DEF Marks
<1> QED
  BY <1>3, MarkShrinks

-----------------------------------------------------------------------------
(* Chunks and cursors.                                                     *)

LEMMA LeastExists ==
  ASSUME NEW S \in SUBSET Nat, S # {}
  PROVE  \E n \in S : \A m \in S : n <= m
<1>1. PICK n \in S : \A m \in S : ~ (<<m, n>> \in OpToRel(<, Nat))
  BY NatLessThanWellFounded, WFMin
<1>2. \A m \in S : ~ (m < n)
  BY <1>1 DEF OpToRel
<1> QED BY <1>2, SMT

LEMMA LargestExists ==
  ASSUME NEW k \in Nat, NEW S \in SUBSET (0 .. k), S # {}
  PROVE  \E n \in S : \A m \in S : m <= n
<1> DEFINE T == {x \in 0 .. k : k - x \in S}
<1>1. \A x \in T : x \in 0 .. k /\ k - x \in S
  OBVIOUS
<1>2. \A m \in S : m \in 0 .. k /\ k - m \in T
  OBVIOUS
<1> HIDE DEF T
<1>3. T \in SUBSET Nat /\ T # {}
  <2>1. \A x \in T : x \in Nat
    BY <1>1
  <2>2. PICK m \in S : TRUE
    OBVIOUS
  <2> QED
    BY <1>2, <2>1, <2>2
<1>4. PICK x \in T : \A y \in T : x <= y
  BY <1>3, LeastExists
<1>5. k - x \in S /\ x \in 0 .. k
  BY <1>1
<1>6. \A m \in S : m <= k - x
  <2> TAKE m \in S
  <2>1. m \in 0 .. k /\ x <= k - m
    BY <1>2, <1>4
  <2> QED
    BY <1>5, <2>1
<1> QED
  BY <1>5, <1>6

\* The cursor after a chunk is the time of its last row.
LEMMA CursorIsLast ==
  ASSUME NEW k \in Nat, NEW chunk, chunk # {}, \A m \in chunk : m.at \in 0 .. k, NEW cursor
  PROVE  \E o \in chunk : /\ NextCursor(cursor, chunk) = o.at
                          /\ \A m \in chunk : m.at <= o.at
<1> DEFINE S == {m.at : m \in chunk}
<1>1. S \in SUBSET (0 .. k) /\ S # {}
  OBVIOUS
<1>2. \E t \in S : \A s \in S : s <= t
  <2> HIDE DEF S
  <2> QED
    BY <1>1, LargestExists
<1>3. \E t \in S : \A m \in chunk : m.at <= t
  BY <1>2
<1>4. NextCursor(cursor, chunk) \in S /\ \A m \in chunk : m.at <= NextCursor(cursor, chunk)
  BY <1>3 DEF NextCursor
<1> QED
  BY <1>4

LEMMA ChunkFacts ==
  ASSUME NEW k \in Nat, NEW T, DOMAIN T = 1 .. k, NEW cursor, NEW c \in Chunks(T, cursor)
  PROVE  /\ c \in SUBSET (1 .. k) /\ \A i \in c : T[i].at > cursor
         /\ IsFiniteSet(c) /\ Cardinality(c) <= CHUNK_SIZE
         /\ c = {} \/ Cardinality(c) # CHUNK_SIZE => \A i \in 1 .. k : T[i].at > cursor => i \in c
         /\ \A i \in c, j \in 1 .. k : T[j].at > cursor /\ j \notin c => T[i].at <= T[j].at
<1> DEFINE newer == {i \in 1 .. k : T[i].at > cursor}
<1>1. /\ c \in SUBSET newer
      /\ Cardinality(c) = IF Cardinality(newer) < CHUNK_SIZE
                          THEN Cardinality(newer) ELSE CHUNK_SIZE
      /\ \A i \in c, j \in newer \ c : T[i].at <= T[j].at
  BY DEF Chunks
<1>2. IsFiniteSet(1 .. k) /\ newer \in SUBSET (1 .. k)
  BY FS_Interval
<1>3. IsFiniteSet(newer) /\ Cardinality(newer) \in Nat
  BY <1>2, FS_Subset, FS_CardinalityType
<1>4. IsFiniteSet(c) /\ Cardinality(c) \in Nat
  BY <1>1, <1>3, FS_Subset, FS_CardinalityType
<1>5. CHUNK_SIZE \in Nat /\ CHUNK_SIZE > 0
  BY SizesAssumption
<1>6. Cardinality(c) # CHUNK_SIZE => c = newer
  BY <1>1, <1>3, <1>5, FS_Subset
<1>7. c = {} => Cardinality(c) # CHUNK_SIZE
  BY <1>5, FS_EmptySet
<1>8. Cardinality(c) <= CHUNK_SIZE
  BY <1>1, <1>3, <1>5
<1> QED
  BY <1>1, <1>4, <1>6, <1>7, <1>8

LEMMA PackedChunk ==
  ASSUME NEW T, NEW c, IsFiniteSet(c)
  PROVE  Single(Packed(T, c)) /\ Cardinality(Packed(T, c)) = Cardinality(c)
<1> DEFINE row(i) == [id |-> i, v |-> T[i].v, at |-> Millis(T[i].at)]
           f == [i \in c |-> row(i)]
<1>1. Packed(T, c) = {row(i) : i \in c}
  BY DEF Packed
<1>2. \A i \in c : row(i).id = i
  OBVIOUS
<1> HIDE DEF row
<1>3. Single(Packed(T, c))
  BY <1>1, <1>2 DEF Single
<1>4. f \in Bijection(c, Packed(T, c))
  BY <1>1, <1>2 DEF Bijection, Injection, Surjection, IsInjective
<1>5. ExistsBijection(c, Packed(T, c))
  BY <1>4 DEF ExistsBijection
<1> QED
  BY <1>3, <1>5, FS_Bijection

-----------------------------------------------------------------------------
(* What a run r has still to deliver from A to B.  Ahead: while it reads,  *)
(* the rows that B lacks are past the cursor.  OnWay: while a chunk is     *)
(* under way, they are in it, or past its last row if it is a full one.    *)

Ahead(A, B, r) == \A i \in Owed(A, B, r.since) : A[i].at > r.cursor

OnWay(A, B, r) == \A i \in Owed(A, B, r.since) :
  \/ \E m \in r.chunk : m.id = i /\ m.v = A[i].v
  \/ Cardinality(r.chunk) = CHUNK_SIZE /\ A[i].at > NextCursor(r.cursor, r.chunk)

Delivered(A, B, r) == Owed(A, B, r.since) = {}

LEMMA KeptProgress ==
  ASSUME NEW A, NEW B, NEW A2, NEW B2, NEW r, Kept(A, B, A2, B2, r.since)
  PROVE  /\ Ahead(A, B, r) => Ahead(A2, B2, r)
         /\ OnWay(A, B, r) => OnWay(A2, B2, r)
         /\ Delivered(A, B, r) => Delivered(A2, B2, r)
BY DEF Kept, Ahead, OnWay, Delivered

\* A version that B lacks has a later millisecond than B's, so it is not at 0.
LEMMA AheadAtFirst ==
  ASSUME NEW A, NEW B, NEW M, NEW N, NEW news, NEW t, NEW n, DataOK(A, B, M, N, news, t, n),
         MarkOK(A, B, M, N), NEW r, r.cursor = 0
  PROVE  Ahead(A, B, r)
<1> SUFFICES ASSUME NEW i \in LineIds, B[i].v < A[i].v
             PROVE  A[i].at > 0
  BY DEF Ahead, Owed
<1>1. A[i].at \in Nat /\ B[i].at \in Nat
  BY DEF DataOK, Version
<1>2. {Stamped(A[i]), Stamped(B[i])} \subseteq Marks(i, A, B, M, N)
  BY DEF Marks
<1>3. Stamped(B[i]).v < Stamped(A[i]).v <=> Stamped(B[i]).ms < Stamped(A[i]).ms
  BY <1>2 DEF MarkOK
<1>4. Millis(B[i].at) < Millis(A[i].at)
  BY <1>3 DEF Stamped
<1>5. Millis(B[i].at) \in Nat /\ Millis(A[i].at) \in Nat /\ Millis(A[i].at) <= A[i].at
  BY <1>1, MillisBounds
<1> QED
  BY <1>1, <1>4, <1>5

\* The next chunk of A: the rows it leaves behind are after its last row, as no
\* two rows share a millisecond.
LEMMA ChunkOnWay ==
  ASSUME NEW A, NEW B, NEW M, NEW N, NEW news, NEW t, NEW n, DataOK(A, B, M, N, news, t, n),
         MarkOK(A, B, M, N), NEW r, Ahead(A, B, r), r.cursor \in Nat,
         NEW c \in Chunks(A, r.cursor), NEW q,
         q.since = r.since, q.cursor = r.cursor, q.chunk = Packed(A, c)
  PROVE  /\ c = {} => Delivered(A, B, r)
         /\ c # {} => OnWay(A, B, q)
<1>1. A \in [LineIds -> Version] /\ B \in [LineIds -> Version]
  BY DEF DataOK
<1>2. MaxRows["Line"] \in Nat /\ LineIds = 1 .. MaxRows["Line"]
  BY SizesAssumption, EntitiesAssumption DEF LineIds, Ids
<1>3. /\ c \in SUBSET LineIds /\ \A i \in c : A[i].at > r.cursor
      /\ IsFiniteSet(c)
      /\ c = {} \/ Cardinality(c) # CHUNK_SIZE =>
           \A i \in LineIds : A[i].at > r.cursor => i \in c
      /\ \A i \in c, j \in LineIds : A[j].at > r.cursor /\ j \notin c => A[i].at <= A[j].at
  BY <1>1, <1>2, ChunkFacts
<1>4. Cardinality(q.chunk) = Cardinality(c)
  BY <1>3, PackedChunk
<1>5. c = {} => Delivered(A, B, r)
  BY <1>3 DEF Delivered, Ahead, Owed
<1>6. ASSUME c # {}, NEW i \in Owed(A, B, q.since)
      PROVE  \/ \E m \in q.chunk : m.id = i /\ m.v = A[i].v
             \/ Cardinality(q.chunk) = CHUNK_SIZE /\ A[i].at > NextCursor(q.cursor, q.chunk)
  <2>1. i \in LineIds /\ A[i].at > r.cursor /\ A[i].at \in Nat
    BY <1>1, <1>6 DEF Ahead, Owed, Version
  <2>2. CASE i \in c
    <3>1. [id |-> i, v |-> A[i].v, at |-> Millis(A[i].at)] \in q.chunk
      BY <2>2 DEF Packed
    <3> QED
      BY <3>1
  <2>3. CASE i \notin c
    <3>1. Cardinality(q.chunk) = CHUNK_SIZE
      BY <1>3, <1>4, <1>6, <2>1, <2>3
    <3>2. q.chunk # {} /\ \A m \in q.chunk : m.at \in 0 .. t
      <4>1. q.chunk # {}
        BY <1>6 DEF Packed
      <4>2. ASSUME NEW m \in q.chunk
            PROVE  m.at \in 0 .. t
        <5>1. m.id \in LineIds /\ m.at = Millis(A[m.id].at)
          BY <1>1, <1>3, PackedRows
        <5>2. A[m.id].at \in Nat /\ A[m.id].at <= t /\ t \in Nat
          BY <1>1, <5>1 DEF Version, DataOK, Dated
        <5> QED
          BY <5>1, <5>2, MillisBounds
      <4> QED
        BY <4>1, <4>2
    <3>3. PICK o \in q.chunk : NextCursor(q.cursor, q.chunk) = o.at
      <4>1. t \in Nat
        BY DEF DataOK
      <4> QED
        BY <3>2, <4>1, CursorIsLast
    <3>4. o.id \in c /\ o.at = Millis(A[o.id].at)
      BY <1>1, <1>3, <3>3, PackedRows
    <3>5. A[o.id].at \in Nat /\ A[o.id].at <= A[i].at /\ o.id # i
      BY <1>1, <1>3, <2>1, <2>3, <3>4 DEF Version
    <3>6. Millis(A[o.id].at) \in Nat /\ Millis(A[o.id].at) <= A[o.id].at
      BY <3>5, MillisBounds
    <3>7. A[i].at # o.at
      <4> SUFFICES ASSUME A[i].at = Millis(A[o.id].at)
                   PROVE  FALSE
        BY <3>4
      <4>1. Millis(A[i].at) = Millis(A[o.id].at)
        BY <3>5, MillisWhole
      <4>2. /\ Stamped(A[i]) \in Marks(i, A, B, M, N)
            /\ Stamped(A[o.id]) \in Marks(o.id, A, B, M, N)
        BY DEF Marks
      <4>3. Stamped(A[i]).ms = Stamped(A[o.id]).ms
        BY <4>1 DEF Stamped
      <4>4. Stamped(A[i]).ms = 0
        BY <1>3, <2>1, <3>4, <3>5, <4>2, <4>3 DEF MarkOK
      <4>5. A[i].at = 0
        BY <4>1, <4>4 DEF Stamped
      <4> QED
        BY <2>1, <4>5
    <3>8. A[i].at > o.at
      BY <2>1, <3>4, <3>5, <3>6, <3>7
    <3> QED
      BY <3>1, <3>3, <3>8
  <2> QED
    BY <2>2, <2>3
<1> QED
  BY <1>5, <1>6 DEF OnWay

\* Its delivery: a full chunk moves the cursor, another one was the last.
LEMMA ChunkDelivered ==
  ASSUME NEW A, NEW B, NEW C, NEW r, OnWay(A, B, r), Kept(A, B, A, C, r.since),
         \A m \in r.chunk : m.v <= C[m.id].v,
         \A i \in LineIds : A[i].v \in Nat /\ C[i].v \in Nat,
         NEW q, q.since = r.since, q.cursor = NextCursor(r.cursor, r.chunk)
  PROVE  /\ Ahead(A, C, q)
         /\ Cardinality(r.chunk) # CHUNK_SIZE => Delivered(A, C, r)
<1>1. \A i \in Owed(A, C, r.since) : /\ i \in LineIds /\ i \in Owed(A, B, r.since)
                                     /\ ~ \E m \in r.chunk : m.id = i /\ m.v = A[i].v
  BY DEF Kept, Owed
<1> QED
  BY <1>1 DEF OnWay, Ahead, Delivered

-----------------------------------------------------------------------------
(* The invariants.                                                         *)

\* The chunks of Line that left the centre, and those that left central.
Sends(r) == r.pc = "send" /\ r.pos = 1
Gets(r) == r.pc = "apply" /\ r.pos = Len(PULL_ORDER)
Pushed == UNION ({run[k].chunk : k \in {k \in Runs : Sends(run[k])}}
                   \union {l.chunk : l \in {l \in late : l.entity = "Line"}})
Pulled == UNION {run[k].chunk : k \in {k \in Runs : Gets(run[k])}}

\* What the step of a run says of its fields.
Shape(r, n) ==
  /\ r.pc = "slot" => r = [NoRun EXCEPT !.pc = "slot", !.cron = TRUE]
  /\ r.pc \in {"read", "send"} => r.pos \in 1 .. Len(PUSH_ORDER) /\ r.mode # "pull"
  /\ r.pc \in {"ask", "apply"} => r.pos \in 1 .. Len(PULL_ORDER) /\ r.mode # "push"
  /\ r.since <= n
  /\ Single(r.chunk) /\ Cardinality(r.chunk) <= CHUNK_SIZE

RunOK(r, n) == r \in Run /\ Shape(r, n)

TablesOK ==
  /\ now \in Times /\ edits \in Versions /\ Millis(now) <= Start + Precision * edits
  /\ DOMAIN local = Entities /\ DOMAIN central = Entities /\ DOMAIN newest = Entities
  /\ \A e \in Entities :
       /\ local[e] \in [Ids(e) -> Row] /\ central[e] \in [Ids(e) -> Row]
       /\ newest[e] \in [Ids(e) -> Versions]

RunsOK == run \in [Runs -> Run] /\ \A k \in Runs : RunOK(run[k], edits)

CallsOK ==
  /\ running \in BOOLEAN /\ calls \in 0 .. CallLimit
  /\ late \subseteq [entity : Entities, chunk : SUBSET Sent]
  /\ \A l \in late : Single(l.chunk)

TypesInv == TablesOK /\ RunsOK /\ CallsOK

DataInv ==
  DataOK(local["Line"], central["Line"], Pushed, Pulled, newest["Line"], now, edits)

MarkInv == MarkOK(local["Line"], central["Line"], Pushed, Pulled)

PushInv(r, A, B) ==
  r.pushOk /\ r.mode # "pull" =>
    /\ r.pc = "read" /\ r.pos = 1 => Ahead(A, B, r)
    /\ r.pc = "send" /\ r.pos = 1 => OnWay(A, B, r)
    /\ r.pc \in {"read", "send"} /\ r.pos # 1 => Delivered(A, B, r)
    /\ r.pc \in {"ask", "apply", "finish"} => Delivered(A, B, r)

PullInv(r, A, B) ==
  r.pullOk /\ r.mode # "push" =>
    /\ r.pc = "ask" /\ r.pos = Len(PULL_ORDER) => Ahead(A, B, r)
    /\ r.pc = "apply" /\ r.pos = Len(PULL_ORDER) => OnWay(A, B, r)
    /\ r.pc = "finish" => Delivered(A, B, r)

RunsInv == \A k \in Runs : /\ PushInv(run[k], local["Line"], central["Line"])
                           /\ PullInv(run[k], central["Line"], local["Line"])

-----------------------------------------------------------------------------
(* Types.                                                                  *)

LEMMA TypesImply == TypesInv => TypeOK
BY DEF TypesInv, TablesOK, RunsOK, CallsOK, TypeOK, RunOK, Shape

LEMMA Sizes ==
  /\ Start + Precision * (MaxEdits + 1) - 1 \in Nat
  /\ 0 \in Times /\ 0 \in Versions /\ Times \subseteq Nat /\ Versions \subseteq Nat
  /\ CHUNK_SIZE \in Nat /\ CHUNK_SIZE > 0
<1>1. Start \in Nat
  BY StartBounds
<1>2. Precision \in Nat /\ Precision > 0 /\ MaxEdits \in Nat
  BY SizesAssumption
<1>3. Precision * (MaxEdits + 1) \in Nat /\ Precision * (MaxEdits + 1) > 0
  BY <1>2, Z3
<1>4. Start + Precision * (MaxEdits + 1) - 1 \in Nat
  BY <1>1, <1>3
<1> QED
  BY <1>2, <1>4, SizesAssumption DEF Times, Versions

LEMMA MillisTime ==
  ASSUME NEW t \in Times
  PROVE  Millis(t) \in Times
<1>1. t \in Nat
  BY Sizes
<1>2. Millis(t) \in Nat /\ Millis(t) <= t
  BY <1>1, MillisBounds
<1> QED
  BY <1>2, Sizes DEF Times

LEMMA NothingSent == Single({}) /\ Cardinality({}) = 0 /\ Cardinality({}) <= CHUNK_SIZE
BY FS_EmptySet, Sizes DEF Single

LEMMA NoRunOK ==
  /\ NoRun \in Run
  /\ \A n \in Nat : Shape(NoRun, n)
BY Sizes, NothingSent DEF NoRun, Run, Shape

\* A table may take every chunk.
LEMMA UpsertType ==
  ASSUME NEW e \in Entities, NEW T \in [Ids(e) -> Row], NEW chunk \in SUBSET Sent
  PROVE  upsertWithUpdate(e, T, chunk) \in [Ids(e) -> Row]
<1>1. ASSUME NEW i \in Ids(e)
      PROVE  upsertWithUpdate(e, T, chunk)[i] \in Row
  <2>1. CASE \E m \in chunk : m.id = i
    <3>1. (CHOOSE m \in chunk : m.id = i) \in chunk
      BY <2>1
    <3>2. PICK o \in chunk : o = CHOOSE m \in chunk : m.id = i
      BY <3>1
    <3>3. [v |-> o.v, at |-> o.at] \in Row
      BY <3>2 DEF Sent, Row
    <3> QED
      BY <3>2, <3>3 DEF upsertWithUpdate
  <2>2. CASE ~ \E m \in chunk : m.id = i
    BY <2>2 DEF upsertWithUpdate
  <2> QED
    BY <2>1, <2>2
<1> QED
  BY <1>1 DEF upsertWithUpdate

\* A chunk that is read may be sent.
LEMMA PackedType ==
  ASSUME NEW e \in Entities, NEW T \in [Ids(e) -> Row], NEW cursor, NEW c \in Chunks(T, cursor)
  PROVE  /\ c \in SUBSET Ids(e)
         /\ Packed(T, c) \in SUBSET Sent
         /\ Single(Packed(T, c)) /\ Cardinality(Packed(T, c)) <= CHUNK_SIZE
<1>1. MaxRows[e] \in Nat /\ Ids(e) = 1 .. MaxRows[e]
  BY SizesAssumption DEF Ids
<1>2. c \in SUBSET Ids(e) /\ IsFiniteSet(c) /\ Cardinality(c) <= CHUNK_SIZE
  BY <1>1, ChunkFacts
<1>3. Single(Packed(T, c)) /\ Cardinality(Packed(T, c)) = Cardinality(c)
  BY <1>2, PackedChunk
<1>4. ASSUME NEW i \in c
      PROVE  [id |-> i, v |-> T[i].v, at |-> Millis(T[i].at)] \in Sent
  <2>1. T[i].v \in Versions /\ T[i].at \in Times /\ i \in Ids(e)
    BY <1>2 DEF Row
  <2>2. Millis(T[i].at) \in Times
    BY <2>1, MillisTime
  <2>3. i \in UNION {Ids(d) : d \in Entities}
    BY <2>1
  <2> QED
    BY <2>1, <2>2, <2>3 DEF Sent
<1> QED
  BY <1>2, <1>3, <1>4 DEF Packed

LEMMA CursorType ==
  ASSUME NEW cursor \in Times, NEW chunk \in SUBSET Sent
  PROVE  NextCursor(cursor, chunk) \in Times
<1>1. CASE chunk = {}
  BY <1>1 DEF NextCursor
<1>2. CASE chunk # {}
  <2> DEFINE last == Start + Precision * (MaxEdits + 1) - 1
  <2>1. last \in Nat /\ \A m \in chunk : m.at \in 0 .. last
    BY Sizes DEF Sent, Times
  <2> HIDE DEF last
  <2>2. \E o \in chunk : NextCursor(cursor, chunk) = o.at
    BY <1>2, <2>1, CursorIsLast
  <2> QED
    BY <2>2 DEF Sent
<1> QED
  BY <1>1, <1>2

-----------------------------------------------------------------------------
(* The next local state of a run.                                          *)

LEMMA NextPushOK ==
  ASSUME NEW n \in Nat, NEW r, RunOK(r, n), r.pc \in {"read", "send"}, NEW q, q = NextPush(r)
  PROVE  /\ RunOK(q, n)
         /\ q.mode = r.mode /\ q.since = r.since /\ q.cursor = 0 /\ q.chunk = {}
         /\ q.pushOk = r.pushOk /\ q.pullOk = r.pullOk
         /\ \/ q.pc = "read" /\ q.pos # 1
            \/ q.pc = "ask" /\ q.pos = 1
            \/ q.pc = "finish" /\ q.mode = "push"
<1>1. /\ r \in Run /\ r.pos \in 1 .. Len(PUSH_ORDER) /\ r.mode \in {"push", "full"}
      /\ r.since <= n
  BY DEF RunOK, Shape, Run
<1>2. Len(PUSH_ORDER) \in {1, 2} /\ Len(PULL_ORDER) \in {1, 2}
  BY OrderOfTables
<1>3. CASE r.pos < Len(PUSH_ORDER)
  <2>1. q = [r EXCEPT !.pc = "read", !.pos = r.pos + 1, !.cursor = 0, !.chunk = {}]
    BY <1>3 DEF NextPush
  <2>2. r.pos + 1 \in 1 .. Len(PUSH_ORDER) /\ r.pos + 1 \in 1 .. 3 /\ r.pos + 1 # 1
    <3>1. r.pos = 1 /\ Len(PUSH_ORDER) = 2
      <4>1. PICK len \in {1, 2} : Len(PUSH_ORDER) = len
        BY <1>2
      <4>3. r.pos \in 1 .. len /\ r.pos < len
        BY <1>1, <1>3, <4>1
      <4> QED
        BY <4>1, <4>3
    <3> QED
      BY <3>1
  <2>3. q \in Run
    BY <1>1, <2>1, <2>2, Sizes DEF Run
  <2>4. /\ q.pc = "read" /\ q.pos = r.pos + 1 /\ q.cursor = 0 /\ q.chunk = {}
        /\ q.mode = r.mode /\ q.since = r.since
        /\ q.pushOk = r.pushOk /\ q.pullOk = r.pullOk
    BY <1>1, <2>1 DEF Run
  <2>5. Shape(q, n)
    BY <1>1, <2>2, <2>4, NothingSent DEF Shape
  <2> QED
    BY <2>2, <2>3, <2>4, <2>5 DEF RunOK
<1>4. CASE ~ (r.pos < Len(PUSH_ORDER))
  <2> DEFINE pc == IF r.mode = "full" THEN "ask" ELSE "finish"
  <2>1. q = [r EXCEPT !.pc = pc, !.pos = 1, !.cursor = 0, !.chunk = {}]
    BY <1>4 DEF NextPush
  <2>2. pc \in {"ask", "finish"} /\ (pc = "ask" <=> r.mode = "full") /\ 1 \in 1 .. 3
    OBVIOUS
  <2> HIDE DEF pc
  <2>3. q \in Run
    BY <1>1, <2>1, <2>2, Sizes DEF Run
  <2>4. /\ q.pc = pc /\ q.pos = 1 /\ q.cursor = 0 /\ q.chunk = {}
        /\ q.mode = r.mode /\ q.since = r.since
        /\ q.pushOk = r.pushOk /\ q.pullOk = r.pullOk
    BY <1>1, <2>1 DEF Run
  <2>5. Shape(q, n)
    <3>1. 1 \in 1 .. Len(PULL_ORDER)
      BY <1>2
    <3> QED
      BY <1>1, <2>2, <2>4, <3>1, NothingSent DEF Shape
  <2> QED
    BY <1>1, <2>2, <2>3, <2>4, <2>5 DEF RunOK
<1> QED
  BY <1>3, <1>4

LEMMA AcknowledgedOK ==
  ASSUME NEW n \in Nat, NEW r, RunOK(r, n), r.pc = "send", NEW q, q = Acknowledged(r)
  PROVE  /\ RunOK(q, n)
         /\ q.mode = r.mode /\ q.since = r.since /\ q.chunk = {}
         /\ q.pushOk = r.pushOk /\ q.pullOk = r.pullOk
         /\ \/ /\ Cardinality(r.chunk) = CHUNK_SIZE
               /\ q.pc = "read" /\ q.pos = r.pos /\ q.cursor = NextCursor(r.cursor, r.chunk)
            \/ /\ Cardinality(r.chunk) # CHUNK_SIZE /\ q.cursor = 0
               /\ \/ q.pc = "read" /\ q.pos # 1
                  \/ q.pc = "ask" /\ q.pos = 1
                  \/ q.pc = "finish" /\ q.mode = "push"
<1> DEFINE s == [r EXCEPT !.pc = "read", !.cursor = NextCursor(r.cursor, r.chunk), !.chunk = {}]
<1>1. r \in Run /\ r.pos \in 1 .. Len(PUSH_ORDER) /\ r.mode # "pull" /\ r.since <= n
  BY DEF RunOK, Shape
<1>2. r.cursor \in Times /\ r.chunk \in SUBSET Sent
  BY <1>1 DEF Run
<1>3. NextCursor(r.cursor, r.chunk) \in Times
  BY <1>2, CursorType
<1>4. s \in Run
  BY <1>1, <1>3 DEF Run
<1>5. /\ s.pc = "read" /\ s.pos = r.pos /\ s.cursor = NextCursor(r.cursor, r.chunk)
      /\ s.chunk = {} /\ s.mode = r.mode /\ s.since = r.since
      /\ s.pushOk = r.pushOk /\ s.pullOk = r.pullOk
  BY <1>1 DEF Run
<1>6. q = IF Cardinality(r.chunk) = CHUNK_SIZE THEN s ELSE NextPush(s)
  BY DEF Acknowledged
<1> HIDE DEF s
<1>7. RunOK(s, n)
  BY <1>1, <1>4, <1>5, NothingSent DEF RunOK, Shape
<1>8. CASE Cardinality(r.chunk) = CHUNK_SIZE
  BY <1>5, <1>6, <1>7, <1>8
<1>9. CASE Cardinality(r.chunk) # CHUNK_SIZE
  BY <1>5, <1>6, <1>7, <1>9, NextPushOK
<1> QED
  BY <1>8, <1>9

LEMMA NextPullOK ==
  ASSUME NEW n \in Nat, NEW r, RunOK(r, n), r.pc \in {"ask", "apply"}, NEW q, q = NextPull(r)
  PROVE  /\ RunOK(q, n)
         /\ q.mode = r.mode /\ q.since = r.since /\ q.cursor = 0 /\ q.chunk = {}
         /\ q.pushOk = r.pushOk /\ q.pullOk = r.pullOk
         /\ \/ q.pc = "ask" /\ r.pos # Len(PULL_ORDER)
            \/ q.pc = "finish" /\ r.pos = Len(PULL_ORDER)
<1>1. /\ r \in Run /\ r.pos \in 1 .. Len(PULL_ORDER) /\ r.mode # "push"
      /\ r.since <= n
  BY DEF RunOK, Shape, Run
<1>2. Len(PULL_ORDER) \in {1, 2}
  BY OrderOfTables
<1>3. CASE r.pos < Len(PULL_ORDER)
  <2>1. q = [r EXCEPT !.pc = "ask", !.pos = r.pos + 1, !.cursor = 0, !.chunk = {}]
    BY <1>3 DEF NextPull
  <2>2. r.pos + 1 \in 1 .. Len(PULL_ORDER) /\ r.pos + 1 \in 1 .. 3 /\ r.pos # Len(PULL_ORDER)
    <3>1. r.pos = 1 /\ Len(PULL_ORDER) = 2
      <4>1. PICK len \in {1, 2} : Len(PULL_ORDER) = len
        BY <1>2
      <4>3. r.pos \in 1 .. len /\ r.pos < len
        BY <1>1, <1>3, <4>1
      <4> QED
        BY <4>1, <4>3
    <3> QED
      BY <3>1
  <2>3. q \in Run
    BY <1>1, <2>1, <2>2, Sizes DEF Run
  <2>4. /\ q.pc = "ask" /\ q.pos = r.pos + 1 /\ q.cursor = 0 /\ q.chunk = {}
        /\ q.mode = r.mode /\ q.since = r.since
        /\ q.pushOk = r.pushOk /\ q.pullOk = r.pullOk
    BY <1>1, <2>1 DEF Run
  <2>5. Shape(q, n)
    BY <1>1, <2>2, <2>4, NothingSent DEF Shape
  <2> QED
    BY <2>2, <2>3, <2>4, <2>5 DEF RunOK
<1>4. CASE ~ (r.pos < Len(PULL_ORDER))
  <2>1. q = [r EXCEPT !.pc = "finish", !.pos = 1, !.cursor = 0, !.chunk = {}]
    BY <1>4 DEF NextPull
  <2>2. r.pos = Len(PULL_ORDER) /\ 1 \in 1 .. 3
    BY <1>1, <1>2, <1>4
  <2>3. q \in Run
    BY <1>1, <2>1, <2>2, Sizes DEF Run
  <2>4. /\ q.pc = "finish" /\ q.cursor = 0 /\ q.chunk = {}
        /\ q.mode = r.mode /\ q.since = r.since
        /\ q.pushOk = r.pushOk /\ q.pullOk = r.pullOk
    BY <1>1, <2>1 DEF Run
  <2>5. Shape(q, n)
    BY <1>1, <2>4, NothingSent DEF Shape
  <2> QED
    BY <2>2, <2>3, <2>4, <2>5 DEF RunOK
<1> QED
  BY <1>3, <1>4

\* What ApplyChunk makes of its run.
Applied(r) ==
  LET s == [r EXCEPT !.pc = "ask", !.chunk = {}, !.cursor = NextCursor(r.cursor, r.chunk)] IN
  IF Cardinality(r.chunk) = CHUNK_SIZE THEN s ELSE NextPull(s)

LEMMA AppliedOK ==
  ASSUME NEW n \in Nat, NEW r, RunOK(r, n), r.pc = "apply", NEW q, q = Applied(r)
  PROVE  /\ RunOK(q, n)
         /\ q.mode = r.mode /\ q.since = r.since /\ q.chunk = {}
         /\ q.pushOk = r.pushOk /\ q.pullOk = r.pullOk
         /\ \/ /\ Cardinality(r.chunk) = CHUNK_SIZE
               /\ q.pc = "ask" /\ q.pos = r.pos /\ q.cursor = NextCursor(r.cursor, r.chunk)
            \/ /\ Cardinality(r.chunk) # CHUNK_SIZE /\ q.cursor = 0
               /\ \/ q.pc = "ask" /\ r.pos # Len(PULL_ORDER)
                  \/ q.pc = "finish" /\ r.pos = Len(PULL_ORDER)
<1> DEFINE s == [r EXCEPT !.pc = "ask", !.chunk = {}, !.cursor = NextCursor(r.cursor, r.chunk)]
<1>1. r \in Run /\ r.pos \in 1 .. Len(PULL_ORDER) /\ r.mode # "push" /\ r.since <= n
  BY DEF RunOK, Shape
<1>2. r.cursor \in Times /\ r.chunk \in SUBSET Sent
  BY <1>1 DEF Run
<1>3. NextCursor(r.cursor, r.chunk) \in Times
  BY <1>2, CursorType
<1>4. s \in Run
  BY <1>1, <1>3 DEF Run
<1>5. /\ s.pc = "ask" /\ s.pos = r.pos /\ s.cursor = NextCursor(r.cursor, r.chunk)
      /\ s.chunk = {} /\ s.mode = r.mode /\ s.since = r.since
      /\ s.pushOk = r.pushOk /\ s.pullOk = r.pullOk
  BY <1>1 DEF Run
<1>6. q = IF Cardinality(r.chunk) = CHUNK_SIZE THEN s ELSE NextPull(s)
  BY DEF Applied
<1> HIDE DEF s
<1>7. RunOK(s, n)
  BY <1>1, <1>4, <1>5, NothingSent DEF RunOK, Shape
<1>8. CASE Cardinality(r.chunk) = CHUNK_SIZE
  BY <1>5, <1>6, <1>7, <1>8
<1>9. CASE Cardinality(r.chunk) # CHUNK_SIZE
  BY <1>5, <1>6, <1>7, <1>9, NextPullOK
<1> QED
  BY <1>8, <1>9

-----------------------------------------------------------------------------
(* Steps in parts: the tables, the chunks on their way, the runs.          *)

LEMMA ChunksMove ==
  ASSUME RunsOK, NEW k \in Runs, NEW q, run' = [run EXCEPT ![k] = q],
         \A l \in late' : l \in late \/ (l.entity = "Line" => l.chunk \subseteq Pushed)
  PROVE  /\ Pushed' \subseteq Pushed \union {m \in q.chunk : Sends(q)}
         /\ Pulled' \subseteq Pulled \union {m \in q.chunk : Gets(q)}
<1>1. run'[k] = q /\ \A j \in Runs \ {k} : run'[j] = run[j]
  BY DEF RunsOK
<1>2. ASSUME NEW m \in Pushed'
      PROVE  m \in Pushed \/ (m \in q.chunk /\ Sends(q))
  <2>1. \/ \E j \in Runs : Sends(run'[j]) /\ m \in run'[j].chunk
        \/ \E l \in late' : l.entity = "Line" /\ m \in l.chunk
    BY DEF Pushed, Sends
  <2>2. CASE \E j \in Runs : Sends(run'[j]) /\ m \in run'[j].chunk
    BY <1>1, <2>2 DEF Pushed
  <2>3. CASE \E l \in late' : l.entity = "Line" /\ m \in l.chunk
    <3>1. PICK l \in late' : l.entity = "Line" /\ m \in l.chunk
      BY <2>3
    <3>2. CASE l \in late
      BY <3>1, <3>2 DEF Pushed
    <3> QED
      BY <3>1, <3>2
  <2> QED
    BY <2>1, <2>2, <2>3
<1>3. ASSUME NEW m \in Pulled'
      PROVE  m \in Pulled \/ (m \in q.chunk /\ Gets(q))
  <2>1. PICK j \in Runs : Gets(run'[j]) /\ m \in run'[j].chunk
    BY DEF Pulled, Gets
  <2> QED
    BY <1>1, <2>1 DEF Pulled
<1> QED
  BY <1>2, <1>3

LEMMA RunsMove ==
  ASSUME RunsOK, NEW k \in Runs, NEW q, run' = [run EXCEPT ![k] = q], RunOK(q, edits'),
         edits \in Nat, edits' \in Nat, edits <= edits'
  PROVE  RunsOK'
<1>1. run'[k] = q /\ \A j \in Runs \ {k} : run'[j] = run[j]
  BY DEF RunsOK
<1>2. run' \in [Runs -> Run]
  BY DEF RunsOK, RunOK
<1>3. \A j \in Runs \ {k} : RunOK(run[j], edits')
  <2> TAKE j \in Runs \ {k}
  <2>1. RunOK(run[j], edits) /\ run[j].since \in Nat
    BY Sizes DEF RunsOK, Run
  <2> QED
    BY <2>1 DEF RunOK, Shape
<1>4. \A j \in Runs : RunOK(run'[j], edits')
  BY <1>1, <1>3
<1> QED
  BY <1>2, <1>4 DEF RunsOK, RunOK, Shape

\* What a run has to deliver when the step of another one changed the tables.
LEMMA ProgressKept ==
  ASSUME NEW r, NEW A, NEW B, NEW A2, NEW B2,
         Kept(A, B, A2, B2, r.since), Kept(B, A, B2, A2, r.since)
  PROVE  /\ PushInv(r, A, B) => PushInv(r, A2, B2)
         /\ PullInv(r, B, A) => PullInv(r, B2, A2)
<1>1. /\ Ahead(A, B, r) => Ahead(A2, B2, r)
      /\ OnWay(A, B, r) => OnWay(A2, B2, r)
      /\ Delivered(A, B, r) => Delivered(A2, B2, r)
  BY KeptProgress
<1>2. /\ Ahead(B, A, r) => Ahead(B2, A2, r)
      /\ OnWay(B, A, r) => OnWay(B2, A2, r)
      /\ Delivered(B, A, r) => Delivered(B2, A2, r)
  BY KeptProgress
<1> QED
  BY <1>1, <1>2 DEF PushInv, PullInv

LEMMA ProgressMoves ==
  ASSUME RunsOK, RunsInv, edits \in Nat,
         NEW k \in Runs, NEW q, run' = [run EXCEPT ![k] = q],
         PushInv(q, local'["Line"], central'["Line"]),
         PullInv(q, central'["Line"], local'["Line"]),
         \A s \in 0 .. edits :
           /\ Kept(local["Line"], central["Line"], local'["Line"], central'["Line"], s)
           /\ Kept(central["Line"], local["Line"], central'["Line"], local'["Line"], s)
  PROVE  RunsInv'
<1>1. run'[k] = q /\ \A j \in Runs \ {k} : run'[j] = run[j]
  BY DEF RunsOK
<1>2. ASSUME NEW j \in Runs \ {k}
      PROVE  /\ PushInv(run[j], local'["Line"], central'["Line"])
             /\ PullInv(run[j], central'["Line"], local'["Line"])
  <2>1. run[j].since \in 0 .. edits
    <3>1. run[j].since \in Nat /\ run[j].since <= edits
      BY Sizes DEF RunsOK, RunOK, Shape, Run
    <3> QED
      BY <3>1
  <2>2. /\ PushInv(run[j], local["Line"], central["Line"])
        /\ PullInv(run[j], central["Line"], local["Line"])
    BY DEF RunsInv
  <2> QED
    BY <2>1, <2>2, ProgressKept
<1>3. \A j \in Runs : /\ PushInv(run'[j], local'["Line"], central'["Line"])
                      /\ PullInv(run'[j], central'["Line"], local'["Line"])
  BY <1>1, <1>2
<1> QED
  BY <1>3 DEF RunsInv, PushInv, PullInv, Ahead, OnWay, Delivered, Owed

LEMMA NothingMoves ==
  ASSUME NEW A, NEW B, NEW s
  PROVE  Kept(A, B, A, B, s)
BY DEF Kept

IInv == TypesInv /\ DataInv
OrderInv == MarkInv /\ RunsInv

\* A run goes on and leaves the tables alone; a chunk it takes up is one of
\* the rows c of the side it reads.
LEMMA QuietStep ==
  ASSUME IInv, NEW k \in Runs, NEW q, run' = [run EXCEPT ![k] = q], RunOK(q, edits),
         UNCHANGED <<tables, late>>, running' \in BOOLEAN, calls' \in 0 .. CallLimit,
         NEW c \in SUBSET LineIds,
         Sends(q) => q.chunk = Packed(local["Line"], c),
         Gets(q) => q.chunk = Packed(central["Line"], c)
  PROVE  /\ IInv'
         /\ OrderInv /\ PushInv(q, local["Line"], central["Line"])
                     /\ PullInv(q, central["Line"], local["Line"]) => OrderInv'
<1> DEFINE L == local["Line"]
           C == central["Line"]
<1>1. /\ now' = now /\ edits' = edits /\ local' = local /\ central' = central
      /\ newest' = newest /\ late' = late
  BY DEF tables
<1>2. TablesOK /\ RunsOK /\ CallsOK /\ edits \in Nat
  BY Sizes DEF IInv, TypesInv, TablesOK
<1>3. TypesInv'
  <2>1. TablesOK'
    BY <1>1, <1>2 DEF TablesOK
  <2>2. RunsOK'
    <3>1. edits' \in Nat /\ edits <= edits' /\ RunOK(q, edits')
      BY <1>1, <1>2
    <3> QED
      BY <1>2, <3>1, RunsMove
  <2>3. CallsOK'
    BY <1>1, <1>2 DEF CallsOK
  <2> QED
    BY <2>1, <2>2, <2>3 DEF TypesInv
<1>4. /\ Pushed' \subseteq Pushed \union {m \in q.chunk : Sends(q)}
      /\ Pulled' \subseteq Pulled \union {m \in q.chunk : Gets(q)}
  BY <1>1, <1>2, ChunksMove
<1>5. Sends(q) => ~ Gets(q)
  BY DEF Sends, Gets
<1>6. ASSUME ~ Gets(q)
      PROVE  /\ DataOK(L, C, Pushed', Pulled', newest["Line"], now, edits)
             /\ MarkInv => MarkOK(L, C, Pushed', Pulled')
  <2>1. Pushed' \in SUBSET (Pushed \union Packed(L, c)) /\ Pulled' \in SUBSET Pulled
    BY <1>4, <1>6
  <2>2. DataOK(L, C, Pushed', Pulled', newest["Line"], now, edits)
    BY <2>1, DataPacked DEF IInv, DataInv
  <2>3. MarkInv => MarkOK(L, C, Pushed', Pulled')
    BY <2>1, MarkPacked DEF IInv, DataInv, MarkInv
  <2> QED
    BY <2>2, <2>3
<1>7. ASSUME Gets(q)
      PROVE  /\ DataOK(L, C, Pushed', Pulled', newest["Line"], now, edits)
             /\ MarkInv => MarkOK(L, C, Pushed', Pulled')
  <2>1. Pulled' \in SUBSET (Pulled \union Packed(C, c)) /\ Pushed' \in SUBSET Pushed
    BY <1>4, <1>5, <1>7
  <2>2. DataOK(C, L, Pulled, Pushed, newest["Line"], now, edits)
    BY DataMirrored DEF IInv, DataInv
  <2>3. DataOK(C, L, Pulled', Pushed', newest["Line"], now, edits)
    BY <2>1, <2>2, DataPacked
  <2>4. DataOK(L, C, Pushed', Pulled', newest["Line"], now, edits)
    BY <2>3, DataMirrored
  <2>5. ASSUME MarkInv
        PROVE  MarkOK(L, C, Pushed', Pulled')
    <3>1. MarkOK(C, L, Pulled, Pushed)
      BY <2>5, MarkMirrored DEF MarkInv
    <3>2. MarkOK(C, L, Pulled', Pushed')
      BY <2>1, <2>2, <3>1, MarkPacked
    <3> QED
      BY <3>2, MarkMirrored
  <2> QED
    BY <2>4, <2>5
<1>8. DataInv' /\ (MarkInv => MarkInv')
  BY <1>1, <1>6, <1>7 DEF DataInv, MarkInv
<1>9. OrderInv /\ PushInv(q, L, C) /\ PullInv(q, C, L) => RunsInv'
  BY <1>1, <1>2, NothingMoves, ProgressMoves DEF OrderInv
<1> QED
  BY <1>3, <1>8, <1>9 DEF IInv, OrderInv

\* Central stores a chunk of the centre.
LEMMA StoreTables ==
  ASSUME IInv, NEW e \in Entities, NEW chunk \in SUBSET Sent, Single(chunk),
         e = "Line" => chunk \subseteq Pushed,
         Store(e, chunk), UNCHANGED <<now, edits, local, newest>>
  PROVE  /\ TablesOK'
         /\ DataOK(local["Line"], central'["Line"], Pushed, Pulled, newest["Line"], now, edits)
         /\ MarkInv =>
              /\ MarkOK(local["Line"], central'["Line"], Pushed, Pulled)
              /\ \A s \in Nat :
                   /\ Kept(local["Line"], central["Line"], local["Line"], central'["Line"], s)
                   /\ Kept(central["Line"], local["Line"], central'["Line"], local["Line"], s)
              /\ e = "Line" => \A m \in chunk : m.v <= central'["Line"][m.id].v
<1>1. TablesOK /\ "Line" \in Entities
  BY EntitiesAssumption DEF IInv, TypesInv
<1>2. /\ DOMAIN central' = Entities
      /\ central'[e] = upsertWithUpdate(e, central[e], chunk)
      /\ \A d \in Entities \ {e} : central'[d] = central[d]
  BY <1>1 DEF Store, TablesOK
<1>3. central'[e] \in [Ids(e) -> Row]
  BY <1>1, <1>2, UpsertType DEF TablesOK
<1>4. TablesOK'
  BY <1>1, <1>2, <1>3 DEF TablesOK
<1>5. CASE e = "Line"
  <2>1. central'["Line"] = upsertWithUpdate("Line", central["Line"], chunk)
    BY <1>2, <1>5
  <2>2. chunk \in SUBSET Pushed
    BY <1>5
  <2>3. DataOK(local["Line"], central'["Line"], Pushed, Pulled, newest["Line"], now, edits)
    BY <2>1, <2>2, DataStored DEF IInv, DataInv
  <2>4. MarkInv =>
              /\ MarkOK(local["Line"], central'["Line"], Pushed, Pulled)
              /\ \A s \in Nat :
                   /\ Kept(local["Line"], central["Line"], local["Line"], central'["Line"], s)
                   /\ Kept(central["Line"], local["Line"], central'["Line"], local["Line"], s)
              /\ \A m \in chunk : m.v <= central'["Line"][m.id].v
    BY <2>1, <2>2, MarkStored DEF IInv, DataInv, MarkInv
  <2> QED
    BY <1>4, <2>3, <2>4
<1>6. CASE e # "Line"
  <2>1. central'["Line"] = central["Line"]
    BY <1>1, <1>2, <1>6
  <2> QED
    BY <1>4, <1>6, <2>1, NothingMoves DEF IInv, DataInv, MarkInv
<1> QED
  BY <1>5, <1>6

\* The centre applies a chunk of central.
LEMMA ApplyTables ==
  ASSUME IInv, NEW e \in Entities, NEW chunk \in SUBSET Sent, Single(chunk),
         e = "Line" => chunk \subseteq Pulled,
         local' = [local EXCEPT ![e] = upsertWithUpdate(e, local[e], chunk)],
         UNCHANGED <<now, edits, central, newest>>
  PROVE  /\ TablesOK'
         /\ DataOK(local'["Line"], central["Line"], Pushed, Pulled, newest["Line"], now, edits)
         /\ MarkInv =>
              /\ MarkOK(local'["Line"], central["Line"], Pushed, Pulled)
              /\ \A s \in Nat :
                   /\ Kept(local["Line"], central["Line"], local'["Line"], central["Line"], s)
                   /\ Kept(central["Line"], local["Line"], central["Line"], local'["Line"], s)
              /\ e = "Line" => \A m \in chunk : m.v <= local'["Line"][m.id].v
<1>1. TablesOK /\ "Line" \in Entities
  BY EntitiesAssumption DEF IInv, TypesInv
<1>2. /\ DOMAIN local' = Entities
      /\ local'[e] = upsertWithUpdate(e, local[e], chunk)
      /\ \A d \in Entities \ {e} : local'[d] = local[d]
  BY <1>1 DEF TablesOK
<1>3. local'[e] \in [Ids(e) -> Row]
  BY <1>1, <1>2, UpsertType DEF TablesOK
<1>4. TablesOK'
  BY <1>1, <1>2, <1>3 DEF TablesOK
<1>5. CASE e = "Line"
  <2>1. local'["Line"] = upsertWithUpdate("Line", local["Line"], chunk)
    BY <1>2, <1>5
  <2>2. chunk \in SUBSET Pulled
    BY <1>5
  <2>3. DataOK(central["Line"], local["Line"], Pulled, Pushed, newest["Line"], now, edits)
    BY DataMirrored DEF IInv, DataInv
  <2>4. DataOK(central["Line"], local'["Line"], Pulled, Pushed, newest["Line"], now, edits)
    BY <2>1, <2>2, <2>3, DataStored
  <2>5. DataOK(local'["Line"], central["Line"], Pushed, Pulled, newest["Line"], now, edits)
    BY <2>4, DataMirrored
  <2>6. ASSUME MarkInv
        PROVE /\ MarkOK(local'["Line"], central["Line"], Pushed, Pulled)
              /\ \A s \in Nat :
                   /\ Kept(local["Line"], central["Line"], local'["Line"], central["Line"], s)
                   /\ Kept(central["Line"], local["Line"], central["Line"], local'["Line"], s)
              /\ \A m \in chunk : m.v <= local'["Line"][m.id].v
    <3>1. MarkOK(central["Line"], local["Line"], Pulled, Pushed)
      BY <2>6, MarkMirrored DEF MarkInv
    <3>2. /\ MarkOK(central["Line"], local'["Line"], Pulled, Pushed)
          /\ \A s \in Nat :
               /\ Kept(central["Line"], local["Line"], central["Line"], local'["Line"], s)
               /\ Kept(local["Line"], central["Line"], local'["Line"], central["Line"], s)
          /\ \A m \in chunk : m.v <= local'["Line"][m.id].v
      BY <2>1, <2>2, <2>3, <3>1, MarkStored
    <3> QED
      BY <3>2, MarkMirrored
  <2> QED
    BY <1>4, <2>5, <2>6
<1>6. CASE e # "Line"
  <2>1. local'["Line"] = local["Line"]
    BY <1>1, <1>2, <1>6
  <2> QED
    BY <1>4, <1>6, <2>1, NothingMoves DEF IInv, DataInv, MarkInv
<1> QED
  BY <1>5, <1>6

-----------------------------------------------------------------------------
(* The actions of a run that leave the tables alone.                       *)

\* A run at the epoch has everything ahead of it.
LEMMA StartAhead ==
  ASSUME IInv, MarkInv, NEW q, q.cursor = 0
  PROVE  /\ Ahead(local["Line"], central["Line"], q)
         /\ Ahead(central["Line"], local["Line"], q)
<1>1. Ahead(local["Line"], central["Line"], q)
  BY AheadAtFirst DEF IInv, DataInv, MarkInv
<1>2. DataOK(central["Line"], local["Line"], Pulled, Pushed, newest["Line"], now, edits)
  BY DataMirrored DEF IInv, DataInv
<1>3. MarkOK(central["Line"], local["Line"], Pulled, Pushed)
  BY MarkMirrored DEF MarkInv
<1>4. Ahead(central["Line"], local["Line"], q)
  BY <1>2, <1>3, AheadAtFirst
<1> QED
  BY <1>1, <1>4

LEMMA RunFacts ==
  ASSUME IInv, NEW k \in Runs
  PROVE  /\ RunOK(run[k], edits) /\ run[k] \in Run /\ edits \in Nat
         /\ running \in BOOLEAN /\ calls \in 0 .. CallLimit /\ CallLimit \in Nat
BY Sizes, SizesAssumption DEF IInv, TypesInv, TablesOK, RunsOK, RunOK, CallsOK

LEMMA CallCounted ==
  ASSUME IInv, calls < CallLimit, calls' = calls + 1
  PROVE  calls' \in 0 .. CallLimit
<1>1. calls \in 0 .. CallLimit /\ CallLimit \in Nat
  BY SizesAssumption DEF IInv, TypesInv, CallsOK
<1> QED
  BY <1>1

LEMMA ScheduledSlotStep ==
  ASSUME IInv, NEW k \in Runs, ScheduledSlot(k)
  PROVE  IInv' /\ (OrderInv => OrderInv')
<1> DEFINE q == [NoRun EXCEPT !.pc = "slot", !.cron = TRUE]
<1>1. /\ run' = [run EXCEPT ![k] = q] /\ UNCHANGED <<tables, late>>
      /\ running' = running /\ calls' = calls
  BY DEF ScheduledSlot
<1>2. q \in Run /\ q.pc = "slot" /\ q.since = 0 /\ q.chunk = {}
  BY NoRunOK DEF Run, NoRun
<1>3. RunOK(q, edits)
  <2>1. edits \in Nat
    BY RunFacts
  <2>2. q.since <= edits
    BY <1>2, <2>1
  <2> QED
    BY <1>2, <2>2, NothingSent DEF RunOK, Shape
<1>4. \A A, B : PushInv(q, A, B) /\ PullInv(q, A, B)
  BY <1>2 DEF PushInv, PullInv
<1>5. ~ Sends(q) /\ ~ Gets(q)
  BY <1>2 DEF Sends, Gets
<1> HIDE DEF q
<1> QED
  BY <1>1, <1>3, <1>4, <1>5, RunFacts, QuietStep

LEMMA EnterSlotStep ==
  ASSUME IInv, NEW k \in Runs, EnterSlot(k)
  PROVE  IInv' /\ (OrderInv => OrderInv')
<1> DEFINE q == [run[k] EXCEPT !.pc = "read", !.since = edits]
<1>1. /\ run' = [run EXCEPT ![k] = q] /\ UNCHANGED <<tables, late>>
      /\ running' = TRUE /\ calls' = calls /\ run[k].pc = "slot"
  BY DEF EnterSlot
<1>2. /\ run[k] = [NoRun EXCEPT !.pc = "slot", !.cron = TRUE]
      /\ run[k] \in Run /\ edits \in Nat /\ edits \in Versions
  BY <1>1, RunFacts DEF RunOK, Shape, IInv, TypesInv, TablesOK
<1>3. /\ q \in Run /\ q.pc = "read" /\ q.since = edits /\ q.chunk = {}
      /\ q.pos = 1 /\ q.cursor = 0 /\ q.mode = "push"
  BY <1>2 DEF Run, NoRun
<1>4. RunOK(q, edits)
  <2>1. 1 \in 1 .. Len(PUSH_ORDER)
    BY OrderOfTables
  <2>2. q.since <= edits
    BY <1>2, <1>3
  <2> HIDE DEF q
  <2> QED
    BY <1>3, <2>1, <2>2, NothingSent DEF RunOK, Shape
<1>5. ~ Sends(q) /\ ~ Gets(q)
  BY <1>3 DEF Sends, Gets
<1> HIDE DEF q
<1>6. OrderInv => PushInv(q, local["Line"], central["Line"]) /\ PullInv(q, central["Line"], local["Line"])
  BY <1>3, StartAhead DEF OrderInv, PushInv, PullInv
<1> QED
  BY <1>1, <1>4, <1>5, <1>6, RunFacts, QuietStep

LEMMA ManualRunStep ==
  ASSUME IInv, NEW k \in Runs, ManualRun(k)
  PROVE  IInv' /\ (OrderInv => OrderInv')
<1>1. PICK m \in Modes :
        run' = [run EXCEPT ![k] = [NoRun EXCEPT !.pc = IF m = "pull" THEN "ask" ELSE "read",
                                                !.mode = m, !.since = edits]]
  BY DEF ManualRun
<1> DEFINE q == [NoRun EXCEPT !.pc = IF m = "pull" THEN "ask" ELSE "read",
                              !.mode = m, !.since = edits]
<1>2. /\ run' = [run EXCEPT ![k] = q] /\ UNCHANGED <<tables, late>>
      /\ running' = running /\ calls' \in 0 .. CallLimit
  BY <1>1, CallCounted DEF ManualRun
<1>3. m \in {"push", "pull", "full"} /\ edits \in Versions
  BY EntitiesAssumption DEF IInv, TypesInv, TablesOK
<1>4. /\ q \in Run /\ q.pc = (IF m = "pull" THEN "ask" ELSE "read") /\ q.since = edits
      /\ q.chunk = {} /\ q.pos = 1 /\ q.cursor = 0 /\ q.mode = m
  BY <1>3, NoRunOK DEF Run, NoRun
<1>5. RunOK(q, edits)
  <2>1. 1 \in 1 .. Len(PUSH_ORDER) /\ 1 \in 1 .. Len(PULL_ORDER)
    BY OrderOfTables
  <2>2. q.since <= edits
    BY <1>4, RunFacts
  <2> HIDE DEF q
  <2> QED
    BY <1>3, <1>4, <2>1, <2>2, NothingSent DEF RunOK, Shape
<1>6. ~ Sends(q) /\ ~ Gets(q)
  BY <1>4 DEF Sends, Gets
<1> HIDE DEF q
<1>7. OrderInv => PushInv(q, local["Line"], central["Line"]) /\ PullInv(q, central["Line"], local["Line"])
  BY <1>4, StartAhead DEF OrderInv, PushInv, PullInv
<1> QED
  BY <1>2, <1>5, <1>6, <1>7, RunFacts, QuietStep

\* RefuseRun and FinishRun.
LEMMA EndRunStep ==
  ASSUME IInv, NEW k \in Runs, EndRun(k), UNCHANGED <<tables, late>>, calls' \in 0 .. CallLimit
  PROVE  IInv' /\ (OrderInv => OrderInv')
<1>1. run' = [run EXCEPT ![k] = NoRun] /\ running' \in BOOLEAN
  BY RunFacts DEF EndRun
<1>2. NoRun.pc = "idle"
  BY DEF NoRun
<1>3. \A A, B : PushInv(NoRun, A, B) /\ PullInv(NoRun, A, B)
  BY <1>2 DEF PushInv, PullInv
<1>4. ~ Sends(NoRun) /\ ~ Gets(NoRun)
  BY <1>2 DEF Sends, Gets
<1>5. RunOK(NoRun, edits)
  BY RunFacts, NoRunOK DEF RunOK
<1> QED
  BY <1>1, <1>3, <1>4, <1>5, QuietStep

LEMMA PullFaultStep ==
  ASSUME IInv, NEW k \in Runs, PullFault(k)
  PROVE  IInv' /\ (OrderInv => OrderInv')
<1> DEFINE q == [run[k] EXCEPT !.pc = "finish", !.pullOk = FALSE,
                               !.pos = 1, !.cursor = 0, !.chunk = {}]
<1>1. /\ run' = [run EXCEPT ![k] = q] /\ UNCHANGED <<tables, late>>
      /\ running' = running /\ calls' \in 0 .. CallLimit /\ run[k].pc \in {"ask", "apply"}
  BY CallCounted DEF PullFault
<1>2. /\ q \in Run /\ q.pc = "finish" /\ q.pullOk = FALSE /\ q.chunk = {}
      /\ q.since = run[k].since /\ q.mode = run[k].mode /\ q.pushOk = run[k].pushOk
  <2>1. run[k] \in Run /\ 1 \in 1 .. 3
    BY RunFacts
  <2> QED
    BY <2>1, Sizes DEF Run
<1>3. run[k].since <= edits /\ run[k].mode # "push"
  BY <1>1, RunFacts DEF RunOK, Shape
<1>4. ~ Sends(q) /\ ~ Gets(q)
  BY <1>2 DEF Sends, Gets
<1> HIDE DEF q
<1>5. RunOK(q, edits)
  BY <1>2, <1>3, NothingSent DEF RunOK, Shape
<1>6. OrderInv => PushInv(q, local["Line"], central["Line"]) /\ PullInv(q, central["Line"], local["Line"])
  BY <1>1, <1>2 DEF OrderInv, RunsInv, PushInv, PullInv, Delivered
<1> QED
  BY <1>1, <1>4, <1>5, <1>6, RunFacts, QuietStep

LEMMA RestartStep ==
  ASSUME IInv, Restart
  PROVE  IInv' /\ (OrderInv => OrderInv')
<1>1. /\ run' = [k \in Runs |-> NoRun] /\ running' = FALSE /\ late' = late
      /\ now' = now /\ edits' = edits /\ local' = local /\ central' = central
      /\ newest' = newest
  BY DEF Restart, tables
<1>2. TablesOK /\ RunsOK /\ CallsOK /\ edits \in Nat /\ CallLimit \in Nat
  BY Sizes, SizesAssumption DEF IInv, TypesInv, TablesOK
<1>3. calls' \in 0 .. CallLimit
  BY <1>2 DEF Restart, CallsOK
<1>4. TypesInv'
  <2>1. TablesOK'
    BY <1>1, <1>2 DEF TablesOK
  <2>2. RunsOK'
    BY <1>1, <1>2, NoRunOK DEF RunsOK, RunOK, Shape
  <2>3. CallsOK'
    BY <1>1, <1>2, <1>3 DEF CallsOK
  <2> QED
    BY <2>1, <2>2, <2>3 DEF TypesInv
<1>5. \A k \in Runs : run'[k].pc = "idle"
  BY <1>1 DEF NoRun
<1>6. Pushed' \in SUBSET Pushed /\ Pulled' \in SUBSET Pulled
  BY <1>1, <1>5 DEF Pushed, Pulled, Sends, Gets
<1>7. Pushed' \in SUBSET (Pushed \union Packed(local["Line"], {}))
  BY <1>6
<1>8. DataInv'
  BY <1>1, <1>6, <1>7, DataPacked DEF IInv, DataInv
<1>9. MarkInv => MarkInv'
  BY <1>1, <1>6, <1>7, MarkPacked DEF IInv, DataInv, MarkInv
<1>10. RunsInv'
  BY <1>5 DEF RunsInv, PushInv, PullInv
<1> QED
  BY <1>4, <1>8, <1>9, <1>10 DEF IInv, OrderInv

-----------------------------------------------------------------------------
(* Reading chunks.                                                         *)

LEMMA ReadChunkStep ==
  ASSUME IInv, NEW k \in Runs, ReadChunk(k)
  PROVE  IInv' /\ (OrderInv => OrderInv')
<1> DEFINE r == run[k]
           e == PUSH_ORDER[r.pos]
           L == local["Line"]
           C == central["Line"]
<1>1. PICK c \in Chunks(local[e], r.cursor) :
        run' = [run EXCEPT ![k] = IF c = {} THEN NextPush(r)
                                  ELSE [r EXCEPT !.pc = "send", !.chunk = Packed(local[e], c)]]
  BY DEF ReadChunk
<1>2. /\ r.pc = "read" /\ UNCHANGED <<tables, late>> /\ running' = running /\ calls' = calls
      /\ running' \in BOOLEAN /\ calls' \in 0 .. CallLimit
  BY RunFacts DEF ReadChunk
<1>3. /\ RunOK(r, edits) /\ r \in Run /\ edits \in Nat
      /\ r.pos \in 1 .. Len(PUSH_ORDER) /\ r.mode # "pull" /\ r.cursor \in Nat
      /\ r.since <= edits
  BY <1>2, RunFacts, Sizes DEF RunOK, Shape, Run
<1>4. e \in Entities /\ (e = "Line" <=> r.pos = 1)
  BY <1>3, OrderOfTables
<1>5. local[e] \in [Ids(e) -> Row]
  BY <1>4 DEF IInv, TypesInv, TablesOK
<1>6. /\ c \in SUBSET Ids(e) /\ Packed(local[e], c) \in SUBSET Sent
      /\ Single(Packed(local[e], c)) /\ Cardinality(Packed(local[e], c)) <= CHUNK_SIZE
  BY <1>4, <1>5, PackedType
<1>7. OrderInv => /\ r.pushOk /\ r.pos = 1 => Ahead(L, C, r)
                  /\ r.pushOk /\ r.pos # 1 => Delivered(L, C, r)
  BY <1>2, <1>3 DEF OrderInv, RunsInv, PushInv
<1>8. DataOK(L, C, Pushed, Pulled, newest["Line"], now, edits) /\ (OrderInv => MarkOK(L, C, Pushed, Pulled))
  BY DEF IInv, DataInv, OrderInv, MarkInv
<1>9. CASE c = {}
  <2> DEFINE q == NextPush(r)
  <2>1. run' = [run EXCEPT ![k] = q]
    BY <1>1, <1>9
  <2>2. /\ RunOK(q, edits)
        /\ q.mode = r.mode /\ q.since = r.since /\ q.cursor = 0
        /\ q.pushOk = r.pushOk /\ q.pullOk = r.pullOk
        /\ \/ q.pc = "read" /\ q.pos # 1
           \/ q.pc = "ask" /\ q.pos = 1
           \/ q.pc = "finish" /\ q.mode = "push"
    BY <1>2, <1>3, NextPushOK
  <2> HIDE DEF q
  <2>3. OrderInv /\ r.pushOk => Delivered(L, C, r)
    <3>1. OrderInv /\ r.pushOk /\ r.pos = 1 => Delivered(L, C, r)
      <4> SUFFICES ASSUME OrderInv, r.pushOk, r.pos = 1
                   PROVE  Delivered(L, C, r)
        OBVIOUS
      <4>1. c \in Chunks(L, r.cursor) /\ Ahead(L, C, r) /\ MarkOK(L, C, Pushed, Pulled)
        BY <1>4, <1>7, <1>8
      <4> DEFINE s == [since |-> r.since, cursor |-> r.cursor, chunk |-> Packed(L, c)]
      <4>2. s.since = r.since /\ s.cursor = r.cursor /\ s.chunk = Packed(L, c)
        OBVIOUS
      <4> HIDE DEF s, r, L, C
      <4> QED
        BY <1>3, <1>8, <1>9, <4>1, <4>2, ChunkOnWay
    <3> QED
      BY <1>7, <3>1
  <2>4. OrderInv => PushInv(q, L, C)
    BY <2>2, <2>3 DEF PushInv, Delivered
  <2>5. OrderInv => PullInv(q, C, L)
    BY <2>2, StartAhead DEF OrderInv, PullInv
  <2>6. ~ Sends(q) /\ ~ Gets(q)
    BY <2>2 DEF Sends, Gets
  <2> QED
    BY <1>2, <2>1, <2>2, <2>4, <2>5, <2>6, QuietStep
<1>10. CASE c # {}
  <2> DEFINE q == [r EXCEPT !.pc = "send", !.chunk = Packed(local[e], c)]
  <2>1. run' = [run EXCEPT ![k] = q]
    BY <1>1, <1>10
  <2>2. /\ q \in Run /\ q.pc = "send" /\ q.chunk = Packed(local[e], c) /\ q.pos = r.pos
        /\ q.cursor = r.cursor /\ q.since = r.since /\ q.mode = r.mode
        /\ q.pushOk = r.pushOk /\ q.pullOk = r.pullOk
    <3> HIDE DEF e
    <3> QED
      BY <1>3, <1>6 DEF Run
  <2> HIDE DEF q
  <2>3. RunOK(q, edits)
    BY <1>3, <1>6, <2>2 DEF RunOK, Shape
  <2>4. OrderInv => PushInv(q, L, C)
    <3> SUFFICES ASSUME OrderInv, r.pushOk
                 PROVE  (r.pos = 1 => OnWay(L, C, q)) /\ (r.pos # 1 => Delivered(L, C, q))
      BY <2>2 DEF PushInv
    <3>1. ASSUME r.pos = 1
          PROVE  OnWay(L, C, q)
      <4>1. /\ c \in Chunks(L, r.cursor) /\ Ahead(L, C, r) /\ MarkOK(L, C, Pushed, Pulled)
            /\ q.chunk = Packed(L, c)
        BY <1>4, <1>7, <1>8, <2>2, <3>1
      <4> HIDE DEF r, L, C
      <4> QED
        BY <1>3, <1>8, <1>10, <2>2, <4>1, ChunkOnWay
    <3>2. r.pos # 1 => Delivered(L, C, q)
      BY <1>7, <2>2 DEF Delivered
    <3> QED
      BY <3>1, <3>2
  <2>5. PullInv(q, C, L)
    BY <2>2 DEF PullInv
  <2>6. ~ Gets(q)
    BY <2>2 DEF Gets
  <2>7. CASE r.pos = 1
    <3>1. c \in SUBSET LineIds /\ q.chunk = Packed(L, c)
      BY <1>4, <1>6, <2>2, <2>7 DEF LineIds
    <3> QED
      BY <1>2, <2>1, <2>3, <2>4, <2>5, <2>6, <3>1, QuietStep
  <2>8. CASE r.pos # 1
    <3>1. ~ Sends(q)
      BY <2>2, <2>8 DEF Sends
    <3> QED
      BY <1>2, <2>1, <2>3, <2>4, <2>5, <2>6, <3>1, QuietStep
  <2> QED
    BY <2>7, <2>8
<1> QED
  BY <1>9, <1>10

LEMMA AskChunkStep ==
  ASSUME IInv, NEW k \in Runs, AskChunk(k)
  PROVE  IInv' /\ (OrderInv => OrderInv')
<1> DEFINE r == run[k]
           e == PULL_ORDER[r.pos]
           L == local["Line"]
           C == central["Line"]
<1>1. PICK c \in Chunks(central[e], r.cursor) :
        run' = [run EXCEPT ![k] = IF c = {} THEN NextPull(r)
                                  ELSE [r EXCEPT !.pc = "apply", !.chunk = Packed(central[e], c)]]
  BY DEF AskChunk
<1>2. /\ r.pc = "ask" /\ UNCHANGED <<tables, late>> /\ running' = running /\ calls' = calls
      /\ running' \in BOOLEAN /\ calls' \in 0 .. CallLimit
  BY RunFacts DEF AskChunk
<1>3. /\ RunOK(r, edits) /\ r \in Run /\ edits \in Nat
      /\ r.pos \in 1 .. Len(PULL_ORDER) /\ r.mode # "push" /\ r.cursor \in Nat
      /\ r.since <= edits
  BY <1>2, RunFacts, Sizes DEF RunOK, Shape, Run
<1>4. e \in Entities /\ (e = "Line" <=> r.pos = Len(PULL_ORDER))
  BY <1>3, OrderOfTables
<1>5. central[e] \in [Ids(e) -> Row]
  BY <1>4 DEF IInv, TypesInv, TablesOK
<1>6. /\ c \in SUBSET Ids(e) /\ Packed(central[e], c) \in SUBSET Sent
      /\ Single(Packed(central[e], c)) /\ Cardinality(Packed(central[e], c)) <= CHUNK_SIZE
  BY <1>4, <1>5, PackedType
<1>7. OrderInv => /\ r.pullOk /\ r.pos = Len(PULL_ORDER) => Ahead(C, L, r)
                  /\ r.pushOk /\ r.mode # "pull" => Delivered(L, C, r)
  BY <1>2, <1>3 DEF OrderInv, RunsInv, PushInv, PullInv
<1>8. DataOK(C, L, Pulled, Pushed, newest["Line"], now, edits) /\ (OrderInv => MarkOK(C, L, Pulled, Pushed))
  BY DataMirrored, MarkMirrored DEF IInv, DataInv, OrderInv, MarkInv
<1>9. CASE c = {}
  <2> DEFINE q == NextPull(r)
  <2>1. run' = [run EXCEPT ![k] = q]
    BY <1>1, <1>9
  <2>2. /\ RunOK(q, edits)
        /\ q.mode = r.mode /\ q.since = r.since /\ q.cursor = 0
        /\ q.pushOk = r.pushOk /\ q.pullOk = r.pullOk
        /\ \/ q.pc = "ask" /\ r.pos # Len(PULL_ORDER)
           \/ q.pc = "finish" /\ r.pos = Len(PULL_ORDER)
    BY <1>2, <1>3, NextPullOK
  <2> HIDE DEF q
  <2>3. OrderInv /\ r.pullOk /\ r.pos = Len(PULL_ORDER) => Delivered(C, L, r)
    <3> SUFFICES ASSUME OrderInv, r.pullOk, r.pos = Len(PULL_ORDER)
                 PROVE  Delivered(C, L, r)
      OBVIOUS
    <3>1. c \in Chunks(C, r.cursor) /\ Ahead(C, L, r) /\ MarkOK(C, L, Pulled, Pushed)
      BY <1>4, <1>7, <1>8
    <3> DEFINE s == [since |-> r.since, cursor |-> r.cursor, chunk |-> Packed(C, c)]
    <3>2. s.since = r.since /\ s.cursor = r.cursor /\ s.chunk = Packed(C, c)
      OBVIOUS
    <3> HIDE DEF s, r, L, C
    <3> QED
      BY <1>3, <1>8, <1>9, <3>1, <3>2, ChunkOnWay
  <2>4. OrderInv => PushInv(q, L, C)
    BY <1>7, <2>2 DEF PushInv, Delivered
  <2>5. OrderInv => PullInv(q, C, L)
    BY <2>2, <2>3, StartAhead DEF OrderInv, PullInv, Delivered
  <2>6. ~ Sends(q) /\ ~ Gets(q)
    BY <2>2 DEF Sends, Gets
  <2> QED
    BY <1>2, <2>1, <2>2, <2>4, <2>5, <2>6, QuietStep
<1>10. CASE c # {}
  <2> DEFINE q == [r EXCEPT !.pc = "apply", !.chunk = Packed(central[e], c)]
  <2>1. run' = [run EXCEPT ![k] = q]
    BY <1>1, <1>10
  <2>2. /\ q \in Run /\ q.pc = "apply" /\ q.chunk = Packed(central[e], c) /\ q.pos = r.pos
        /\ q.cursor = r.cursor /\ q.since = r.since /\ q.mode = r.mode
        /\ q.pushOk = r.pushOk /\ q.pullOk = r.pullOk
    <3> HIDE DEF e
    <3> QED
      BY <1>3, <1>6 DEF Run
  <2> HIDE DEF q
  <2>3. RunOK(q, edits)
    BY <1>3, <1>6, <2>2 DEF RunOK, Shape
  <2>4. OrderInv => PullInv(q, C, L)
    <3> SUFFICES ASSUME OrderInv, r.pullOk, r.pos = Len(PULL_ORDER)
                 PROVE  OnWay(C, L, q)
      BY <2>2 DEF PullInv
    <3>1. /\ c \in Chunks(C, r.cursor) /\ Ahead(C, L, r) /\ MarkOK(C, L, Pulled, Pushed)
          /\ q.chunk = Packed(C, c)
      BY <1>4, <1>7, <1>8, <2>2
    <3> HIDE DEF r, L, C
    <3> QED
      BY <1>3, <1>8, <1>10, <2>2, <3>1, ChunkOnWay
  <2>5. OrderInv => PushInv(q, L, C)
    BY <1>7, <2>2 DEF PushInv, Delivered
  <2>6. ~ Sends(q)
    BY <2>2 DEF Sends
  <2>7. CASE r.pos = Len(PULL_ORDER)
    <3>1. c \in SUBSET LineIds /\ q.chunk = Packed(C, c)
      BY <1>4, <1>6, <2>2, <2>7 DEF LineIds
    <3> QED
      BY <1>2, <2>1, <2>3, <2>4, <2>5, <2>6, <3>1, QuietStep
  <2>8. CASE r.pos # Len(PULL_ORDER)
    <3>1. ~ Gets(q)
      BY <2>2, <2>8 DEF Gets
    <3> QED
      BY <1>2, <2>1, <2>3, <2>4, <2>5, <2>6, <3>1, QuietStep
  <2> QED
    BY <2>7, <2>8
<1> QED
  BY <1>9, <1>10

-----------------------------------------------------------------------------
(* Chunks that arrive.                                                     *)

\* The chunk of a sending run, as central gets it.
LEMMA SentChunk ==
  ASSUME IInv, NEW k \in Runs, run[k].pc = "send"
  PROVE  /\ PUSH_ORDER[run[k].pos] \in Entities
         /\ PUSH_ORDER[run[k].pos] = "Line" <=> run[k].pos = 1
         /\ run[k].chunk \in SUBSET Sent /\ Single(run[k].chunk)
         /\ PUSH_ORDER[run[k].pos] = "Line" => run[k].chunk \subseteq Pushed
<1>1. run[k].pos \in 1 .. Len(PUSH_ORDER) /\ run[k] \in Run /\ Single(run[k].chunk)
  BY RunFacts DEF RunOK, Shape
<1>2. /\ PUSH_ORDER[run[k].pos] \in Entities
      /\ PUSH_ORDER[run[k].pos] = "Line" <=> run[k].pos = 1
  BY <1>1, OrderOfTables
<1>3. run[k].pos = 1 => run[k].chunk \subseteq Pushed
  BY DEF Pushed, Sends
<1> QED
  BY <1>1, <1>2, <1>3 DEF Run

\* What a request leaves of a sending run: central has stored the chunk or not,
\* and may get to it later.
LEMMA SendStep ==
  ASSUME IInv, NEW k \in Runs, run[k].pc = "send",
         Store(PUSH_ORDER[run[k].pos], run[k].chunk) \/ central' = central,
         late' \subseteq late \union {[entity |-> PUSH_ORDER[run[k].pos], chunk |-> run[k].chunk]},
         NEW q, run' = [run EXCEPT ![k] = q], RunOK(q, edits), q.pc \notin {"send", "apply"},
         UNCHANGED <<now, edits, local, newest>>, running' \in BOOLEAN, calls' \in 0 .. CallLimit,
         \/ q.pc = "read"
         \/ q.pc = "ask" /\ q.cursor = 0
         \/ q.pc = "finish" /\ q.mode = "push",
         /\ OrderInv
         /\ \A s \in Nat : Kept(local["Line"], central["Line"], local["Line"], central'["Line"], s)
         /\ Store(PUSH_ORDER[run[k].pos], run[k].chunk) /\ run[k].pos = 1
              => \A m \in run[k].chunk : m.v <= central'["Line"][m.id].v
         => PushInv(q, local["Line"], central'["Line"])
  PROVE  IInv' /\ (OrderInv => OrderInv')
<1> DEFINE e == PUSH_ORDER[run[k].pos]
           chunk == run[k].chunk
           L == local["Line"]
           C == central["Line"]
           C2 == central'["Line"]
<1>1. /\ e \in Entities /\ (e = "Line" <=> run[k].pos = 1)
      /\ chunk \in SUBSET Sent /\ Single(chunk)
      /\ e = "Line" => chunk \subseteq Pushed
  BY SentChunk
<1>2. TablesOK /\ RunsOK /\ CallsOK /\ edits \in Nat
  BY Sizes DEF IInv, TypesInv, TablesOK
<1>3. /\ TablesOK'
      /\ DataOK(L, C2, Pushed, Pulled, newest["Line"], now, edits)
      /\ MarkInv =>
           /\ MarkOK(L, C2, Pushed, Pulled)
           /\ \A s \in Nat : Kept(L, C, L, C2, s) /\ Kept(C, L, C2, L, s)
           /\ Store(e, chunk) /\ e = "Line" => \A m \in chunk : m.v <= C2[m.id].v
  <2>1. CASE Store(e, chunk)
    <3> HIDE DEF e, chunk
    <3> QED
      BY <1>1, <2>1, StoreTables
  <2>2. CASE central' = central /\ ~ Store(e, chunk)
    <3>1. TablesOK'
      BY <1>2, <2>2 DEF TablesOK
    <3> HIDE DEF e, chunk
    <3> QED
      BY <2>2, <3>1, NothingMoves DEF IInv, DataInv, MarkInv
  <2> QED
    BY <2>1, <2>2
<1>4. /\ edits' = edits /\ now' = now /\ local' = local /\ newest' = newest
  OBVIOUS
<1>5. \A l \in late' : l \in late \/ (l.entity = "Line" => l.chunk \subseteq Pushed)
  BY <1>1
<1>6. Pushed' \in SUBSET Pushed /\ Pulled' \in SUBSET Pulled
  BY <1>2, <1>5, ChunksMove DEF Sends, Gets
<1>7. Pushed' \in SUBSET (Pushed \union Packed(L, {}))
  BY <1>6
<1>8. TypesInv'
  <2>1. RunsOK'
    <3>1. edits' \in Nat /\ edits <= edits' /\ RunOK(q, edits')
      BY <1>2, <1>4
    <3> QED
      BY <1>2, <3>1, RunsMove
  <2>2. [entity |-> e, chunk |-> chunk] \in [entity : Entities, chunk : SUBSET Sent]
    BY <1>1
  <2>3. CallsOK'
    BY <1>1, <1>2, <2>2 DEF CallsOK
  <2> QED
    BY <1>3, <2>1, <2>3 DEF TypesInv
<1> HIDE DEF e, chunk
<1>9. DataOK(L, C2, Pushed', Pulled', newest["Line"], now, edits)
  BY <1>3, <1>6, <1>7, DataPacked
<1>10. ASSUME OrderInv
       PROVE  OrderInv'
  <2>1. /\ MarkOK(L, C2, Pushed, Pulled)
        /\ \A s \in Nat : Kept(L, C, L, C2, s) /\ Kept(C, L, C2, L, s)
        /\ Store(e, chunk) /\ e = "Line" => \A m \in chunk : m.v <= C2[m.id].v
    BY <1>3, <1>10 DEF OrderInv
  <2>2. MarkOK(L, C2, Pushed', Pulled')
    BY <1>3, <1>6, <1>7, <2>1, MarkPacked
  <2>3. PushInv(q, L, C2)
    <3>1. \A s \in Nat : Kept(L, C, L, C2, s)
      BY <2>1
    <3>2. Store(PUSH_ORDER[run[k].pos], run[k].chunk) /\ run[k].pos = 1
            => \A m \in run[k].chunk : m.v <= C2[m.id].v
      BY <1>1, <2>1 DEF e, chunk
    <3> QED
      BY <1>10, <3>1, <3>2
  <2>4. PullInv(q, C2, L)
    <3>1. ASSUME q.cursor = 0
          PROVE  Ahead(C2, L, q)
      <4>1. DataOK(C2, L, Pulled, Pushed, newest["Line"], now, edits)
        BY <1>3, DataMirrored
      <4>2. MarkOK(C2, L, Pulled, Pushed)
        BY <2>1, MarkMirrored
      <4> HIDE DEF C2, L
      <4> QED
        BY <3>1, <4>1, <4>2, AheadAtFirst
    <3>2. CASE q.pc = "read" \/ (q.pc = "ask" /\ q.cursor = 0)
      BY <3>1, <3>2 DEF PullInv
    <3>3. CASE q.pc = "finish" /\ q.mode = "push"
      BY <3>3 DEF PullInv
    <3> QED
      BY <3>2, <3>3
  <2>5. RunsInv'
    <3>1. \A s \in 0 .. edits : Kept(L, C, L, C2, s) /\ Kept(C, L, C2, L, s)
      BY <2>1
    <3> QED
      BY <1>2, <1>4, <1>10, <2>3, <2>4, <3>1, ProgressMoves DEF OrderInv
  <2>6. MarkInv'
    BY <1>4, <2>2 DEF MarkInv
  <2> QED
    BY <2>5, <2>6 DEF OrderInv
<1>11. DataInv'
  BY <1>4, <1>9 DEF DataInv
<1> QED
  BY <1>8, <1>10, <1>11 DEF IInv

\* SendChunk and SendTwice: an acknowledged chunk is stored.
LEMMA AcknowledgedStep ==
  ASSUME IInv, NEW k \in Runs, run[k].pc = "send",
         Store(PUSH_ORDER[run[k].pos], run[k].chunk),
         late' \subseteq late \union {[entity |-> PUSH_ORDER[run[k].pos], chunk |-> run[k].chunk]},
         run' = [run EXCEPT ![k] = Acknowledged(run[k])],
         UNCHANGED <<now, edits, local, newest, running>>, calls' \in 0 .. CallLimit
  PROVE  IInv' /\ (OrderInv => OrderInv')
<1> DEFINE r == run[k]
           q == Acknowledged(r)
           L == local["Line"]
           C == central["Line"]
           C2 == central'["Line"]
<1>1. RunOK(r, edits) /\ r \in Run /\ edits \in Nat /\ running' \in BOOLEAN
  BY RunFacts
<1>2. /\ RunOK(q, edits)
      /\ q.mode = r.mode /\ q.since = r.since
      /\ q.pushOk = r.pushOk /\ q.pullOk = r.pullOk
      /\ \/ /\ Cardinality(r.chunk) = CHUNK_SIZE
            /\ q.pc = "read" /\ q.pos = r.pos /\ q.cursor = NextCursor(r.cursor, r.chunk)
         \/ /\ Cardinality(r.chunk) # CHUNK_SIZE /\ q.cursor = 0
            /\ \/ q.pc = "read" /\ q.pos # 1
               \/ q.pc = "ask" /\ q.pos = 1
               \/ q.pc = "finish" /\ q.mode = "push"
  BY <1>1, AcknowledgedOK
<1> HIDE DEF q
<1>3. r.mode # "pull" /\ r.since \in Nat /\ r.since \in 0 .. edits
  BY <1>1, Sizes DEF RunOK, Shape, Run
<1>4. ASSUME OrderInv,
             \A s \in Nat : Kept(L, C, L, C2, s),
             r.pos = 1 => \A m \in r.chunk : m.v <= C2[m.id].v
      PROVE  PushInv(q, L, C2)
  <2> SUFFICES ASSUME r.pushOk
               PROVE  /\ q.pc = "read" /\ q.pos = 1 => Ahead(L, C2, q)
                      /\ q.pc = "read" /\ q.pos # 1 => Delivered(L, C2, q)
                      /\ q.pc \in {"ask", "finish"} => Delivered(L, C2, q)
    BY <1>2 DEF PushInv
  <2>1. PushInv(r, L, C) /\ Kept(L, C, L, C2, r.since)
    BY <1>3, <1>4 DEF OrderInv, RunsInv
  <2>2. CASE r.pos = 1
    <3>1. OnWay(L, C, r)
      BY <1>3, <2>1, <2>2 DEF PushInv
    <3>2. \A m \in r.chunk : m.v <= C2[m.id].v
      BY <1>4, <2>2
    <3>3. \A i \in LineIds : L[i].v \in Nat /\ C2[i].v \in Nat
      <4>1. PUSH_ORDER[1] = "Line" /\ "Line" \in Entities
        BY OrderOfTables, EntitiesAssumption
      <4>2. r.chunk \in SUBSET Sent /\ Single(r.chunk) /\ ("Line" = "Line" => r.chunk \subseteq Pushed)
        BY <2>2, <4>1, SentChunk
      <4>3. Store("Line", r.chunk)
        BY <2>2, <4>1
      <4>4. DataOK(L, C2, Pushed, Pulled, newest["Line"], now, edits)
        BY <4>1, <4>2, <4>3, StoreTables
      <4> QED
        BY <4>4 DEF DataOK, Version
    <3> DEFINE s == [since |-> r.since, cursor |-> NextCursor(r.cursor, r.chunk)]
    <3>4. s.since = r.since /\ s.cursor = NextCursor(r.cursor, r.chunk)
      OBVIOUS
    <3> HIDE DEF s, r, L, C, C2
    <3>5. Ahead(L, C2, s) /\ (Cardinality(r.chunk) # CHUNK_SIZE => Delivered(L, C2, r))
      BY <2>1, <3>1, <3>2, <3>3, <3>4, ChunkDelivered
    <3>6. Cardinality(r.chunk) # CHUNK_SIZE => Delivered(L, C2, q)
      BY <1>2, <3>5 DEF Delivered
    <3>7. q.cursor = s.cursor => Ahead(L, C2, q)
      BY <1>2, <3>4, <3>5 DEF Ahead
    <3> QED
      BY <1>2, <2>2, <3>4, <3>6, <3>7
  <2>3. CASE r.pos # 1
    <3>1. Delivered(L, C, r)
      BY <1>3, <2>1, <2>3 DEF PushInv
    <3>2. Delivered(L, C2, q)
      BY <1>2, <2>1, <3>1 DEF Kept, Delivered
    <3> QED
      BY <1>2, <2>3, <3>2
  <2> QED
    BY <2>2, <2>3
<1>5. \/ q.pc = "read"
      \/ q.pc = "ask" /\ q.cursor = 0
      \/ q.pc = "finish" /\ q.mode = "push"
  BY <1>2
<1>6. run' = [run EXCEPT ![k] = q] /\ q.pc \notin {"send", "apply"}
  BY <1>2 DEF q
<1> QED
  BY <1>1, <1>2, <1>4, <1>5, <1>6, SendStep

LEMMA SendChunkStep ==
  ASSUME IInv, NEW k \in Runs, SendChunk(k)
  PROVE  IInv' /\ (OrderInv => OrderInv')
<1>1. /\ run[k].pc = "send" /\ Store(PUSH_ORDER[run[k].pos], run[k].chunk)
      /\ run' = [run EXCEPT ![k] = Acknowledged(run[k])]
      /\ UNCHANGED <<now, edits, local, newest, running>> /\ late' = late /\ calls' = calls
  BY DEF SendChunk
<1>2. /\ calls' \in 0 .. CallLimit
      /\ late' \subseteq late \union {[entity |-> PUSH_ORDER[run[k].pos], chunk |-> run[k].chunk]}
  BY <1>1, RunFacts
<1> QED
  BY <1>1, <1>2, AcknowledgedStep

LEMMA SendTwiceStep ==
  ASSUME IInv, NEW k \in Runs, SendTwice(k)
  PROVE  IInv' /\ (OrderInv => OrderInv')
<1>1. /\ run[k].pc = "send" /\ Store(PUSH_ORDER[run[k].pos], run[k].chunk)
      /\ late' \subseteq late \union {[entity |-> PUSH_ORDER[run[k].pos], chunk |-> run[k].chunk]}
      /\ run' = [run EXCEPT ![k] = Acknowledged(run[k])]
      /\ UNCHANGED <<now, edits, local, newest, running>>
      /\ calls < CallLimit /\ calls' = calls + 1
  BY DEF SendTwice
<1>2. calls' \in 0 .. CallLimit
  BY <1>1, CallCounted
<1> QED
  BY <1>1, <1>2, AcknowledgedStep

\* The push is marked as failed, so nothing is promised of it.
LEMMA SendFaultStep ==
  ASSUME IInv, NEW k \in Runs, SendFault(k)
  PROVE  IInv' /\ (OrderInv => OrderInv')
<1> DEFINE r == [run[k] EXCEPT !.pushOk = FALSE]
           q == NextPush(r)
<1>1. /\ run[k].pc = "send"
      /\ Store(PUSH_ORDER[run[k].pos], run[k].chunk) \/ central' = central
      /\ late' \subseteq late \union {[entity |-> PUSH_ORDER[run[k].pos], chunk |-> run[k].chunk]}
      /\ run' = [run EXCEPT ![k] = q]
      /\ UNCHANGED <<now, edits, local, newest>> /\ running' = running
      /\ calls < CallLimit /\ calls' = calls + 1
  BY DEF SendFault
<1>2. calls' \in 0 .. CallLimit
  BY <1>1, CallCounted
<1>3. /\ RunOK(run[k], edits) /\ run[k] \in Run /\ edits \in Nat /\ running' \in BOOLEAN
  BY <1>1, RunFacts
<1>4. r \in Run /\ r.pc = "send" /\ r.pushOk = FALSE /\ r.pos = run[k].pos
      /\ r.mode = run[k].mode /\ r.since = run[k].since /\ r.chunk = run[k].chunk
  BY <1>1, <1>3 DEF Run
<1> HIDE DEF r
<1>5. RunOK(r, edits)
  BY <1>1, <1>3, <1>4 DEF RunOK, Shape
<1>6. /\ RunOK(q, edits) /\ q.pushOk = FALSE /\ q.cursor = 0
      /\ \/ q.pc = "read"
         \/ q.pc = "ask" /\ q.cursor = 0
         \/ q.pc = "finish" /\ q.mode = "push"
  BY <1>3, <1>4, <1>5, NextPushOK
<1> HIDE DEF q
<1>7. q.pc \notin {"send", "apply"}
  BY <1>6
<1>8. PushInv(q, local["Line"], central'["Line"])
  BY <1>6 DEF PushInv
<1> QED
  BY <1>1, <1>2, <1>3, <1>6, <1>7, <1>8, SendStep

\* The chunk of a request that timed out reaches central.
LEMMA DeliverLateStep ==
  ASSUME IInv, DeliverLate
  PROVE  IInv' /\ (OrderInv => OrderInv')
<1> DEFINE L == local["Line"]
           C == central["Line"]
           C2 == central'["Line"]
<1>1. PICK m \in late : Store(m.entity, m.chunk) /\ late' = late \ {m}
  BY DEF DeliverLate
<1>2. /\ now' = now /\ edits' = edits /\ local' = local /\ newest' = newest
      /\ run' = run /\ running' = running /\ calls' = calls
  BY DEF DeliverLate
<1>3. TablesOK /\ RunsOK /\ CallsOK /\ edits \in Nat
  BY Sizes DEF IInv, TypesInv, TablesOK
<1>4. /\ m.entity \in Entities /\ m.chunk \in SUBSET Sent /\ Single(m.chunk)
  BY <1>1, <1>3 DEF CallsOK
<1>5. m.entity = "Line" => m.chunk \subseteq Pushed
  BY <1>1 DEF Pushed
<1>6. /\ TablesOK'
      /\ DataOK(L, C2, Pushed, Pulled, newest["Line"], now, edits)
      /\ MarkInv => /\ MarkOK(L, C2, Pushed, Pulled)
                    /\ \A s \in Nat : Kept(L, C, L, C2, s) /\ Kept(C, L, C2, L, s)
  BY <1>1, <1>2, <1>4, <1>5, StoreTables
<1>7. Pushed' \in SUBSET (Pushed \union Packed(L, {})) /\ Pulled' \in SUBSET Pulled
  <2>1. Pulled' = Pulled
    BY <1>2 DEF Pulled, Gets
  <2>2. Pushed' \subseteq Pushed
    BY <1>1, <1>2 DEF Pushed, Sends
  <2> QED
    BY <2>1, <2>2
<1>8. TypesInv'
  <2>1. RunsOK'
    BY <1>2, <1>3 DEF RunsOK, RunOK, Shape
  <2>2. CallsOK'
    BY <1>1, <1>2, <1>3 DEF CallsOK
  <2> QED
    BY <1>6, <2>1, <2>2 DEF TypesInv
<1>9. DataInv'
  <2>1. DataOK(L, C2, Pushed', Pulled', newest["Line"], now, edits)
    BY <1>6, <1>7, DataPacked
  <2> QED
    BY <1>2, <2>1 DEF DataInv
<1>10. ASSUME OrderInv
       PROVE  OrderInv'
  <2>1. MarkOK(L, C2, Pushed, Pulled)
        /\ \A s \in Nat : Kept(L, C, L, C2, s) /\ Kept(C, L, C2, L, s)
    BY <1>6, <1>10 DEF OrderInv
  <2>2. MarkOK(L, C2, Pushed', Pulled')
    BY <1>6, <1>7, <2>1, MarkPacked
  <2>3. \A j \in Runs : PushInv(run[j], L, C2) /\ PullInv(run[j], C2, L)
    <3> TAKE j \in Runs
    <3>1. run[j].since \in Nat
      BY <1>3, Sizes DEF RunsOK, Run
    <3>2. PushInv(run[j], L, C) /\ PullInv(run[j], C, L)
      BY <1>10 DEF OrderInv, RunsInv
    <3> QED
      BY <2>1, <3>1, <3>2, ProgressKept
  <2>4. MarkInv'
    BY <1>2, <2>2 DEF MarkInv
  <2>5. RunsInv'
    BY <1>2, <2>3 DEF RunsInv, PushInv, PullInv, Ahead, OnWay, Delivered, Owed
  <2> QED
    BY <2>4, <2>5 DEF OrderInv
<1> QED
  BY <1>8, <1>9, <1>10 DEF IInv

\* The chunk of an applying run, as the centre gets it.
LEMMA GotChunk ==
  ASSUME IInv, NEW k \in Runs, run[k].pc = "apply"
  PROVE  /\ PULL_ORDER[run[k].pos] \in Entities
         /\ PULL_ORDER[run[k].pos] = "Line" <=> run[k].pos = Len(PULL_ORDER)
         /\ run[k].chunk \in SUBSET Sent /\ Single(run[k].chunk)
         /\ PULL_ORDER[run[k].pos] = "Line" => run[k].chunk \subseteq Pulled
<1>1. run[k].pos \in 1 .. Len(PULL_ORDER) /\ run[k] \in Run /\ Single(run[k].chunk)
  BY RunFacts DEF RunOK, Shape
<1>2. /\ PULL_ORDER[run[k].pos] \in Entities
      /\ PULL_ORDER[run[k].pos] = "Line" <=> run[k].pos = Len(PULL_ORDER)
  BY <1>1, OrderOfTables
<1>3. run[k].pos = Len(PULL_ORDER) => run[k].chunk \subseteq Pulled
  BY DEF Pulled, Gets
<1> QED
  BY <1>1, <1>2, <1>3 DEF Run

LEMMA ApplyChunkStep ==
  ASSUME IInv, NEW k \in Runs, ApplyChunk(k)
  PROVE  IInv' /\ (OrderInv => OrderInv')
<1> DEFINE r == run[k]
           q == Applied(r)
           e == PULL_ORDER[r.pos]
           chunk == r.chunk
           L == local["Line"]
           C == central["Line"]
           L2 == local'["Line"]
<1>1. /\ r.pc = "apply" /\ run' = [run EXCEPT ![k] = q]
      /\ local' = [local EXCEPT ![e] = upsertWithUpdate(e, local[e], chunk)]
      /\ now' = now /\ edits' = edits /\ central' = central /\ newest' = newest
      /\ running' = running /\ late' = late /\ calls' = calls
  BY DEF ApplyChunk, Applied
<1>2. /\ TablesOK /\ RunsOK /\ CallsOK /\ edits \in Nat
      /\ RunOK(r, edits) /\ r \in Run
  BY RunFacts DEF IInv, TypesInv
<1>3. /\ RunOK(q, edits)
      /\ q.mode = r.mode /\ q.since = r.since
      /\ q.pushOk = r.pushOk /\ q.pullOk = r.pullOk
      /\ \/ /\ Cardinality(r.chunk) = CHUNK_SIZE
            /\ q.pc = "ask" /\ q.pos = r.pos /\ q.cursor = NextCursor(r.cursor, r.chunk)
         \/ /\ Cardinality(r.chunk) # CHUNK_SIZE /\ q.cursor = 0
            /\ \/ q.pc = "ask" /\ r.pos # Len(PULL_ORDER)
               \/ q.pc = "finish" /\ r.pos = Len(PULL_ORDER)
  BY <1>1, <1>2, AppliedOK
<1>4. /\ e \in Entities /\ (e = "Line" <=> r.pos = Len(PULL_ORDER))
      /\ chunk \in SUBSET Sent /\ Single(chunk)
      /\ e = "Line" => chunk \subseteq Pulled
  BY <1>1, GotChunk
<1>5. r.mode # "push" /\ r.since \in Nat
  BY <1>1, <1>2, Sizes DEF RunOK, Shape, Run
<1> HIDE DEF q, e, chunk
<1>6. /\ TablesOK'
      /\ DataOK(L2, C, Pushed, Pulled, newest["Line"], now, edits)
      /\ MarkInv =>
           /\ MarkOK(L2, C, Pushed, Pulled)
           /\ \A s \in Nat : Kept(L, C, L2, C, s) /\ Kept(C, L, C, L2, s)
           /\ e = "Line" => \A m \in chunk : m.v <= L2[m.id].v
  BY <1>1, <1>4, ApplyTables
<1>7. q.pc \notin {"send", "apply"}
  BY <1>3
<1>8. Pushed' \in SUBSET (Pushed \union Packed(L, {})) /\ Pulled' \in SUBSET Pulled
  BY <1>1, <1>2, <1>7, ChunksMove DEF Sends, Gets
<1>9. TypesInv'
  <2>1. RunsOK'
    <3>1. edits' \in Nat /\ edits <= edits' /\ RunOK(q, edits')
      BY <1>1, <1>2, <1>3
    <3> QED
      BY <1>1, <1>2, <3>1, RunsMove
  <2>2. CallsOK'
    BY <1>1, <1>2 DEF CallsOK
  <2> QED
    BY <1>6, <2>1, <2>2 DEF TypesInv
<1>10. DataOK(L2, C, Pushed', Pulled', newest["Line"], now, edits)
  <2>1. Pushed' \in SUBSET (Pushed \union Packed(L2, {}))
    BY <1>8 DEF Packed
  <2> QED
    BY <1>6, <1>8, <2>1, DataPacked
<1>11. ASSUME OrderInv
       PROVE  OrderInv'
  <2>1. /\ MarkOK(L2, C, Pushed, Pulled)
        /\ \A s \in Nat : Kept(L, C, L2, C, s) /\ Kept(C, L, C, L2, s)
        /\ e = "Line" => \A m \in chunk : m.v <= L2[m.id].v
    BY <1>6, <1>11 DEF OrderInv
  <2>2. MarkOK(L2, C, Pushed', Pulled')
    <3>1. Pushed' \in SUBSET (Pushed \union Packed(L2, {}))
      BY <1>8 DEF Packed
    <3> QED
      BY <1>6, <1>8, <2>1, <3>1, MarkPacked
  <2>3. PushInv(r, L, C) /\ PullInv(r, C, L)
    BY <1>11 DEF OrderInv, RunsInv
  <2>4. PushInv(q, L2, C)
    <3>1. Delivered(L, C, r) => Delivered(L2, C, q)
      BY <1>3, <1>5, <2>1 DEF Kept, Delivered
    <3> QED
      BY <1>1, <1>3, <2>3, <3>1 DEF PushInv
  <2>5. PullInv(q, C, L2)
    <3> SUFFICES ASSUME r.pullOk
                 PROVE  /\ q.pc = "ask" /\ q.pos = Len(PULL_ORDER) => Ahead(C, L2, q)
                        /\ q.pc = "finish" => Delivered(C, L2, q)
      BY <1>3 DEF PullInv
    <3>1. CASE r.pos = Len(PULL_ORDER)
      <4>1. OnWay(C, L, r) /\ Kept(C, L, C, L2, r.since)
        BY <1>1, <1>5, <2>1, <2>3, <3>1 DEF PullInv
      <4>2. \A m \in r.chunk : m.v <= L2[m.id].v
        BY <1>4, <2>1, <3>1 DEF chunk
      <4>3. \A i \in LineIds : C[i].v \in Nat /\ L2[i].v \in Nat
        BY <1>6 DEF DataOK, Version
      <4> DEFINE s == [since |-> r.since, cursor |-> NextCursor(r.cursor, r.chunk)]
      <4>4. s.since = r.since /\ s.cursor = NextCursor(r.cursor, r.chunk)
        OBVIOUS
      <4> HIDE DEF s, r, L, C, L2
      <4>5. Ahead(C, L2, s) /\ (Cardinality(r.chunk) # CHUNK_SIZE => Delivered(C, L2, r))
        BY <4>1, <4>2, <4>3, <4>4, ChunkDelivered
      <4>6. Cardinality(r.chunk) # CHUNK_SIZE => Delivered(C, L2, q)
        BY <1>3, <4>5 DEF Delivered
      <4>7. q.cursor = s.cursor => Ahead(C, L2, q)
        BY <1>3, <4>4, <4>5 DEF Ahead
      <4> QED
        BY <1>3, <3>1, <4>4, <4>6, <4>7
    <3>2. CASE r.pos # Len(PULL_ORDER)
      <4>1. q.pc = "ask" /\ q.pos = Len(PULL_ORDER) => q.cursor = 0
        BY <1>3, <3>2
      <4>2. ASSUME q.cursor = 0
            PROVE  Ahead(C, L2, q)
        <5>1. DataOK(C, L2, Pulled, Pushed, newest["Line"], now, edits)
          BY <1>6, DataMirrored
        <5>2. MarkOK(C, L2, Pulled, Pushed)
          BY <2>1, MarkMirrored
        <5> HIDE DEF C, L2
        <5> QED
          BY <4>2, <5>1, <5>2, AheadAtFirst
      <4> QED
        BY <1>3, <3>2, <4>1, <4>2
    <3> QED
      BY <3>1, <3>2
  <2>6. RunsInv'
    <3>1. \A s \in 0 .. edits : Kept(L, C, L2, C, s) /\ Kept(C, L, C, L2, s)
      BY <2>1
    <3> QED
      BY <1>1, <1>2, <1>11, <2>4, <2>5, <3>1, ProgressMoves DEF OrderInv
  <2>7. MarkInv'
    BY <1>1, <2>2 DEF MarkInv
  <2> QED
    BY <2>6, <2>7 DEF OrderInv
<1>12. DataInv'
  BY <1>1, <1>10 DEF DataInv
<1> QED
  BY <1>9, <1>11, <1>12 DEF IInv

-----------------------------------------------------------------------------
(* Edits.                                                                  *)

LEMMA MomentType ==
  ASSUME IInv, edits < MaxEdits, NEW t \in Moments
  PROVE  /\ t \in Times /\ t \in Nat /\ now <= t /\ now \in Nat
         /\ edits + 1 \in Versions /\ edits \in Nat
         /\ Millis(t) <= Start + Precision * (edits + 1)
<1>1. /\ now \in Times /\ edits \in Versions /\ Millis(now) <= Start + Precision * edits
      /\ now \in Nat /\ edits \in Nat /\ MaxEdits \in Nat
  BY Sizes, SizesAssumption DEF IInv, TypesInv, TablesOK
<1>2. Precision \in Nat /\ Precision > 0 /\ Start \in Nat
  BY SizesAssumption, StartBounds
<1>3. t \in Nat /\ now <= t /\ Millis(t) \in {Millis(now), Millis(now) + Precision}
  BY <1>1, MomentBounds DEF Moments
<1>4. /\ Millis(now) \in Nat /\ Millis(t) \in Nat /\ t < Millis(t) + Precision
  BY <1>1, <1>3, MillisBounds
<1>5. /\ Precision * (edits + 1) = Precision * edits + Precision
      /\ Precision * edits \in Nat
  BY <1>1, <1>2, Z3
<1>6. Precision * (edits + 1) + Precision <= Precision * (MaxEdits + 1)
  <2>1. \A a, b \in Nat : a + 1 <= b => Precision * a + Precision <= Precision * b
    BY <1>2, Z3
  <2>2. edits + 1 \in Nat /\ MaxEdits + 1 \in Nat /\ (edits + 1) + 1 <= MaxEdits + 1
    BY <1>1
  <2> QED
    BY <2>1, <2>2
<1>7. Millis(t) <= Start + Precision * (edits + 1)
  BY <1>1, <1>2, <1>3, <1>4, <1>5
<1>8. t \in Times
  <2>1. Precision * (edits + 1) \in Nat /\ Precision * (MaxEdits + 1) \in Nat
    BY <1>1, <1>2, Z3
  <2>2. t <= Start + Precision * (MaxEdits + 1) - 1
    BY <1>2, <1>3, <1>4, <1>6, <1>7, <2>1
  <2> QED
    BY <1>2, <1>3, <2>1, <2>2 DEF Times
<1>9. edits + 1 \in Versions
  BY <1>1 DEF Versions
<1> QED
  BY <1>1, <1>3, <1>7, <1>8, <1>9

\* Where a millisecond holds one edit, a new one has a millisecond of its own.
LEMMA FreshMillis ==
  ASSUME IInv, Crowd = 1, NEW t, Stamp(t)
  PROVE  \A i \in LineIds : /\ Millis(local["Line"][i].at) # Millis(t)
                            /\ Millis(central["Line"][i].at) # Millis(t)
<1> DEFINE S == {r \in Records : Millis(t) \in {Millis(local[r[1]][r[2]].at),
                                              Millis(central[r[1]][r[2]].at)}}
<1>1. PICK n \in Nat : \A e \in Entities : MaxRows[e] <= n
  <2>1. Entities \subseteq {"Vehicle", "Line", "Job"} /\ "Line" \in Entities
    BY EntitiesAssumption DEF direction
  <2>2. \A e \in Entities : MaxRows[e] \in Nat
    BY SizesAssumption
  <2> QED
    BY <2>1, <2>2
<1>2. IsFiniteSet(Entities \X (1 .. n))
  <2>1. IsFiniteSet({"Vehicle", "Line", "Job"})
    <3>1. IsFiniteSet({} \union {"Vehicle"})
      BY FS_EmptySet, FS_AddElement
    <3>2. IsFiniteSet(({} \union {"Vehicle"}) \union {"Line"})
      BY <3>1, FS_AddElement
    <3>3. IsFiniteSet((({} \union {"Vehicle"}) \union {"Line"}) \union {"Job"})
      BY <3>2, FS_AddElement
    <3>4. {"Vehicle", "Line", "Job"} = (({} \union {"Vehicle"}) \union {"Line"}) \union {"Job"}
      OBVIOUS
    <3> QED
      BY <3>3, <3>4
  <2>2. Entities \subseteq {"Vehicle", "Line", "Job"}
    BY EntitiesAssumption DEF direction
  <2>3. IsFiniteSet(Entities)
    BY <2>1, <2>2, FS_Subset
  <2>4. IsFiniteSet(1 .. n)
    BY FS_Interval
  <2> QED
    BY <2>3, <2>4, FS_Product
<1>3. S \subseteq Entities \X (1 .. n)
  <2>1. Records \subseteq Entities \X (1 .. n)
    BY <1>1, SizesAssumption DEF Records, Ids
  <2> QED
    BY <2>1
<1>4. IsFiniteSet(S) /\ Cardinality(S) \in Nat
  BY <1>2, <1>3, FS_Subset, FS_CardinalityType
<1>5. Cardinality(S) < 1
  BY DEF Stamp
<1> HIDE DEF S
<1>6. S = {}
  <2>1. Cardinality(S) = 0
    BY <1>4, <1>5
  <2> QED
    BY <1>4, <2>1, FS_EmptySet
<1>7. \A i \in LineIds : <<"Line", i>> \in Records
  BY EntitiesAssumption DEF Records, LineIds
<1>8. \A r \in Records : Millis(t) \notin {Millis(local[r[1]][r[2]].at),
                                          Millis(central[r[1]][r[2]].at)}
  BY <1>6 DEF S
<1> TAKE i \in LineIds
<1>9. Millis(t) \notin {Millis(local[<<"Line", i>>[1]][<<"Line", i>>[2]].at),
                       Millis(central[<<"Line", i>>[1]][<<"Line", i>>[2]].at)}
  BY <1>7, <1>8
<1> QED
  BY <1>9

LEMMA DataLater ==
  ASSUME NEW A, NEW B, NEW M, NEW N, NEW news, NEW t, NEW n, DataOK(A, B, M, N, news, t, n),
         NEW u \in Nat, t <= u, NEW o \in Nat, n <= o
  PROVE  DataOK(A, B, M, N, news, u, o)
<1>1. /\ A \in [LineIds -> Version] /\ B \in [LineIds -> Version]
      /\ M \subseteq Message /\ N \subseteq Message /\ t \in Nat /\ n \in Nat
      /\ Behind(M, A, n) /\ Behind(N, B, n) /\ Dated(A, t, n) /\ Dated(B, t, n)
  BY DEF DataOK
<1>2. Behind(M, A, o) /\ Behind(N, B, o)
  <2>1. \A m \in M \union N : m.v \in Nat
    BY <1>1 DEF Message
  <2> QED
    BY <1>1, <2>1 DEF Behind
<1>3. Dated(A, u, o) /\ Dated(B, u, o)
  BY <1>1 DEF Dated, Version
<1> QED
  BY <1>1, <1>2, <1>3 DEF DataOK

\* An edit leaves the runs and their chunks alone, and versions up to the last
\* one are owed as before.
LEMMA EditedStep ==
  ASSUME IInv, TablesOK', edits' = edits + 1, UNCHANGED <<run, running, late, calls>>,
         DataOK(local'["Line"], central'["Line"], Pushed, Pulled, newest'["Line"], now', edits'),
         OrderInv /\ Crowd = 1 =>
           /\ MarkOK(local'["Line"], central'["Line"], Pushed, Pulled)
           /\ \A s \in 0 .. edits :
                /\ Kept(local["Line"], central["Line"], local'["Line"], central'["Line"], s)
                /\ Kept(central["Line"], local["Line"], central'["Line"], local'["Line"], s)
  PROVE  IInv' /\ (OrderInv /\ Crowd = 1 => OrderInv')
<1>1. RunsOK /\ CallsOK /\ edits \in Nat
  BY Sizes DEF IInv, TypesInv, TablesOK
<1>2. run' = run /\ running' = running /\ late' = late /\ calls' = calls
  OBVIOUS
<1>3. Pushed' = Pushed /\ Pulled' = Pulled
  BY <1>2 DEF Pushed, Pulled, Sends, Gets
<1>4. RunsOK'
  <2>1. \A j \in Runs : RunOK(run[j], edits')
    <3> TAKE j \in Runs
    <3>1. RunOK(run[j], edits) /\ run[j].since \in Nat
      BY <1>1, Sizes DEF RunsOK, Run
    <3> QED
      BY <1>1, <3>1 DEF RunOK, Shape
  <2> QED
    BY <1>1, <1>2, <2>1 DEF RunsOK, RunOK, Shape
<1>5. CallsOK'
  BY <1>1, <1>2 DEF CallsOK
<1>6. DataInv'
  BY <1>3 DEF DataInv
<1>7. ASSUME OrderInv, Crowd = 1
      PROVE  OrderInv'
  <2>1. MarkInv'
    BY <1>3, <1>7 DEF MarkInv
  <2>2. \A j \in Runs : /\ PushInv(run[j], local'["Line"], central'["Line"])
                        /\ PullInv(run[j], central'["Line"], local'["Line"])
    <3> TAKE j \in Runs
    <3>1. run[j].since \in 0 .. edits
      <4>1. run[j].since \in Nat /\ run[j].since <= edits
        BY <1>1, Sizes DEF RunsOK, RunOK, Shape, Run
      <4> QED
        BY <1>1, <4>1
    <3>2. PushInv(run[j], local["Line"], central["Line"])
          /\ PullInv(run[j], central["Line"], local["Line"])
      BY <1>7 DEF OrderInv, RunsInv
    <3> QED
      BY <1>7, <3>1, <3>2, ProgressKept
  <2>3. RunsInv'
    BY <1>2, <2>2 DEF RunsInv, PushInv, PullInv, Ahead, OnWay, Delivered, Owed
  <2> QED
    BY <2>1, <2>3 DEF OrderInv
<1> QED
  BY <1>4, <1>5, <1>6, <1>7 DEF IInv, TypesInv

LEMMA EditLocalStep ==
  ASSUME IInv, NEW e \in Entities, EditLocal(e)
  PROVE  IInv' /\ (OrderInv /\ Crowd = 1 => OrderInv')
<1> DEFINE L == local["Line"]
           C == central["Line"]
           L2 == local'["Line"]
<1>1. PICK t \in Moments, i \in Editable(e, local[e]) :
        /\ Stamp(t)
        /\ local' = [local EXCEPT ![e][i] = [v |-> edits + 1, at |-> t]]
        /\ newest' = [newest EXCEPT ![e][i] = edits + 1]
  BY DEF EditLocal
<1>2. /\ now' = t /\ edits' = edits + 1 /\ edits < MaxEdits
      /\ central' = central /\ UNCHANGED <<run, running, late, calls>>
  BY <1>1 DEF EditLocal, Stamp
<1>3. i \in Ids(e)
  BY DEF Editable
<1>4. TablesOK /\ "Line" \in Entities
  BY EntitiesAssumption DEF IInv, TypesInv
<1>5. /\ t \in Times /\ t \in Nat /\ now <= t /\ now \in Nat
      /\ edits + 1 \in Versions /\ edits \in Nat
      /\ Millis(t) <= Start + Precision * (edits + 1)
  BY <1>2, MomentType
<1>6. TablesOK'
  <2>1. [v |-> edits + 1, at |-> t] \in Row
    BY <1>5 DEF Row
  <2>2. /\ local'[e] = [local[e] EXCEPT ![i] = [v |-> edits + 1, at |-> t]]
        /\ newest'[e] = [newest[e] EXCEPT ![i] = edits + 1]
        /\ DOMAIN local' = Entities /\ DOMAIN newest' = Entities
        /\ \A d \in Entities \ {e} : local'[d] = local[d] /\ newest'[d] = newest[d]
    BY <1>1, <1>4 DEF TablesOK
  <2>3. local'[e] \in [Ids(e) -> Row] /\ newest'[e] \in [Ids(e) -> Versions]
    <3>1. local[e] \in [Ids(e) -> Row] /\ newest[e] \in [Ids(e) -> Versions]
      BY <1>4 DEF TablesOK
    <3>2. local'[e] \in [Ids(e) -> Row]
      BY <2>1, <2>2, <3>1
    <3>3. newest'[e] \in [Ids(e) -> Versions]
      BY <1>5, <2>2, <3>1
    <3> QED
      BY <3>2, <3>3
  <2> QED
    BY <1>2, <1>4, <1>5, <2>2, <2>3 DEF TablesOK
<1>7. DataOK(L, C, Pushed, Pulled, newest["Line"], now, edits)
  BY DEF IInv, DataInv
<1>8. CASE e = "Line"
  <2>1. /\ L2 = [L EXCEPT ![i] = [v |-> edits + 1, at |-> t]]
        /\ newest'["Line"] = [newest["Line"] EXCEPT ![i] = edits + 1]
    BY <1>1, <1>4, <1>8 DEF TablesOK
  <2>2. i \in LineIds
    BY <1>3, <1>8 DEF LineIds
  <2>3. DataOK(L2, C, Pushed, Pulled, newest'["Line"], t, edits + 1)
    BY <1>5, <1>7, <2>1, <2>2, DataEdited
  <2>4. ASSUME OrderInv, Crowd = 1
        PROVE  /\ MarkOK(L2, C, Pushed, Pulled)
               /\ \A s \in 0 .. edits : Kept(L, C, L2, C, s) /\ Kept(C, L, C, L2, s)
    <3>1. \A j \in LineIds : Millis(L[j].at) # Millis(t) /\ Millis(C[j].at) # Millis(t)
      BY <1>1, <2>4, FreshMillis
    <3>2. MarkOK(L, C, Pushed, Pulled)
      BY <2>4 DEF OrderInv, MarkInv
    <3> HIDE DEF L, C, L2
    <3> QED
      BY <1>5, <1>7, <2>1, <2>2, <3>1, <3>2, MarkEdited
  <2> QED
    BY <1>2, <1>6, <2>3, <2>4, EditedStep
<1>9. CASE e # "Line"
  <2>1. L2 = L /\ newest'["Line"] = newest["Line"]
    BY <1>1, <1>4, <1>9 DEF TablesOK
  <2>2. edits + 1 \in Nat /\ edits <= edits + 1
    BY <1>5
  <2>3. DataOK(L2, C, Pushed, Pulled, newest'["Line"], t, edits + 1)
    BY <1>5, <1>7, <2>1, <2>2, DataLater
  <2>4. ASSUME OrderInv
        PROVE  /\ MarkOK(L2, C, Pushed, Pulled)
               /\ \A s \in 0 .. edits : Kept(L, C, L2, C, s) /\ Kept(C, L, C, L2, s)
    BY <2>1, <2>4, NothingMoves DEF OrderInv, MarkInv
  <2> QED
    BY <1>2, <1>6, <2>3, <2>4, EditedStep
<1> QED
  BY <1>8, <1>9

LEMMA EditCentralStep ==
  ASSUME IInv, NEW e \in Entities, EditCentral(e)
  PROVE  IInv' /\ (OrderInv /\ Crowd = 1 => OrderInv')
<1> DEFINE L == local["Line"]
           C == central["Line"]
           C2 == central'["Line"]
<1>1. PICK t \in Moments, i \in Editable(e, central[e]) :
        /\ Stamp(t)
        /\ central' = [central EXCEPT ![e][i] = [v |-> edits + 1, at |-> t]]
        /\ newest' = [newest EXCEPT ![e][i] = edits + 1]
  BY DEF EditCentral
<1>2. /\ now' = t /\ edits' = edits + 1 /\ edits < MaxEdits
      /\ local' = local /\ UNCHANGED <<run, running, late, calls>>
  BY <1>1 DEF EditCentral, Stamp
<1>3. i \in Ids(e)
  BY DEF Editable
<1>4. TablesOK /\ "Line" \in Entities
  BY EntitiesAssumption DEF IInv, TypesInv
<1>5. /\ t \in Times /\ t \in Nat /\ now <= t /\ now \in Nat
      /\ edits + 1 \in Versions /\ edits \in Nat
      /\ Millis(t) <= Start + Precision * (edits + 1)
  BY <1>2, MomentType
<1>6. TablesOK'
  <2>1. [v |-> edits + 1, at |-> t] \in Row
    BY <1>5 DEF Row
  <2>2. /\ central'[e] = [central[e] EXCEPT ![i] = [v |-> edits + 1, at |-> t]]
        /\ newest'[e] = [newest[e] EXCEPT ![i] = edits + 1]
        /\ DOMAIN central' = Entities /\ DOMAIN newest' = Entities
        /\ \A d \in Entities \ {e} : central'[d] = central[d] /\ newest'[d] = newest[d]
    BY <1>1, <1>4 DEF TablesOK
  <2>3. central'[e] \in [Ids(e) -> Row] /\ newest'[e] \in [Ids(e) -> Versions]
    <3>1. central[e] \in [Ids(e) -> Row] /\ newest[e] \in [Ids(e) -> Versions]
      BY <1>4 DEF TablesOK
    <3>2. central'[e] \in [Ids(e) -> Row]
      BY <2>1, <2>2, <3>1
    <3>3. newest'[e] \in [Ids(e) -> Versions]
      BY <1>5, <2>2, <3>1
    <3> QED
      BY <3>2, <3>3
  <2> QED
    BY <1>2, <1>4, <1>5, <2>2, <2>3 DEF TablesOK
<1>7. DataOK(L, C, Pushed, Pulled, newest["Line"], now, edits)
  BY DEF IInv, DataInv
<1>8. CASE e = "Line"
  <2>1. /\ C2 = [C EXCEPT ![i] = [v |-> edits + 1, at |-> t]]
        /\ newest'["Line"] = [newest["Line"] EXCEPT ![i] = edits + 1]
    BY <1>1, <1>4, <1>8 DEF TablesOK
  <2>2. i \in LineIds
    BY <1>3, <1>8 DEF LineIds
  <2>3. DataOK(C, L, Pulled, Pushed, newest["Line"], now, edits)
    BY <1>7, DataMirrored
  <2>4. DataOK(C2, L, Pulled, Pushed, newest'["Line"], t, edits + 1)
    BY <1>5, <2>1, <2>2, <2>3, DataEdited
  <2>5. DataOK(L, C2, Pushed, Pulled, newest'["Line"], t, edits + 1)
    BY <2>4, DataMirrored
  <2>6. ASSUME OrderInv, Crowd = 1
        PROVE  /\ MarkOK(L, C2, Pushed, Pulled)
               /\ \A s \in 0 .. edits : Kept(L, C, L, C2, s) /\ Kept(C, L, C2, L, s)
    <3>1. \A j \in LineIds : Millis(C[j].at) # Millis(t) /\ Millis(L[j].at) # Millis(t)
      BY <1>1, <2>6, FreshMillis
    <3>2. MarkOK(C, L, Pulled, Pushed)
      BY <2>6, MarkMirrored DEF OrderInv, MarkInv
    <3> HIDE DEF L, C, C2
    <3>3. /\ MarkOK(C2, L, Pulled, Pushed)
          /\ \A s \in 0 .. edits : Kept(C, L, C2, L, s) /\ Kept(L, C, L, C2, s)
      BY <1>5, <2>1, <2>2, <2>3, <3>1, <3>2, MarkEdited
    <3> QED
      BY <3>3, MarkMirrored
  <2> QED
    BY <1>2, <1>6, <2>5, <2>6, EditedStep
<1>9. CASE e # "Line"
  <2>1. C2 = C /\ newest'["Line"] = newest["Line"]
    BY <1>1, <1>4, <1>9 DEF TablesOK
  <2>2. edits + 1 \in Nat /\ edits <= edits + 1
    BY <1>5
  <2>3. DataOK(L, C2, Pushed, Pulled, newest'["Line"], t, edits + 1)
    BY <1>5, <1>7, <2>1, <2>2, DataLater
  <2>4. ASSUME OrderInv
        PROVE  /\ MarkOK(L, C2, Pushed, Pulled)
               /\ \A s \in 0 .. edits : Kept(L, C, L, C2, s) /\ Kept(C, L, C2, L, s)
    BY <2>1, <2>4, NothingMoves DEF OrderInv, MarkInv
  <2> QED
    BY <1>2, <1>6, <2>3, <2>4, EditedStep
<1> QED
  BY <1>8, <1>9

-----------------------------------------------------------------------------
(* The initial state.                                                      *)

LEMMA InitTables ==
  ASSUME Init, NEW e \in Entities, NEW i \in Ids(e)
  PROVE  /\ local[e][i] = [v |-> 0, at |-> IF i <= Onboarded[e] THEN Precision * i ELSE 0]
         /\ local[e][i] \in Row /\ local[e][i].v = 0
         /\ local[e][i].at \in {0, Precision * i} /\ local[e][i].at <= Start
<1>1. local[e][i] = [v |-> 0, at |-> IF i <= Onboarded[e] THEN Precision * i ELSE 0]
  BY DEF Init
<1>2. i \in Nat /\ Start \in Nat /\ 0 <= Start
  BY SizesAssumption, StartBounds DEF Ids
<1>3. Precision * i \in Nat /\ (i <= Onboarded[e] => Precision * i <= Start)
  BY <1>2, StartBounds
<1> DEFINE at == IF i <= Onboarded[e] THEN Precision * i ELSE 0
<1>4. at \in {0, Precision * i} /\ at \in Nat /\ at <= Start
  BY <1>2, <1>3
<1> HIDE DEF at
<1>5. at \in Times
  <2>1. Start + Precision * (MaxEdits + 1) - 1 >= Start
    <3>1. MaxEdits + 1 \in Nat /\ MaxEdits + 1 > 0 /\ Precision \in Nat /\ Precision > 0
      BY SizesAssumption
    <3>2. Precision * (MaxEdits + 1) \in Nat /\ Precision * (MaxEdits + 1) > 0
      BY <3>1, Z3
    <3> QED
      BY <1>2, <3>2
  <2> QED
    BY <1>2, <1>4, <2>1, Sizes DEF Times
<1>6. local[e][i] = [v |-> 0, at |-> at]
  BY <1>1 DEF at
<1> QED
  BY <1>1, <1>4, <1>5, <1>6, Sizes DEF Row

LEMMA InitHolds == Init => IInv /\ OrderInv
<1> SUFFICES ASSUME Init
             PROVE  IInv /\ OrderInv
  OBVIOUS
<1> DEFINE L == local["Line"]
           C == central["Line"]
<1>1. /\ now = Start /\ edits = 0 /\ central = local /\ run = [k \in Runs |-> NoRun]
      /\ newest = [e \in Entities |-> [i \in Ids(e) |-> 0]]
      /\ running = FALSE /\ late = {} /\ calls = 0
  BY DEF Init
<1>2. "Line" \in Entities /\ Start \in Nat /\ Millis(Start) = Start
  BY EntitiesAssumption, StartBounds
<1>3. TablesOK
  <2>1. DOMAIN local = Entities /\ \A e \in Entities : local[e] \in [Ids(e) -> Row]
    <3>1. DOMAIN local = Entities
      BY DEF Init
    <3>2. ASSUME NEW e \in Entities
          PROVE  local[e] \in [Ids(e) -> Row]
      <4>1. local[e] = [i \in Ids(e) |->
                          [v |-> 0, at |-> IF i <= Onboarded[e] THEN Precision * i ELSE 0]]
        BY DEF Init
      <4>2. \A i \in Ids(e) : local[e][i] \in Row
        BY InitTables
      <4> QED
        BY <4>1, <4>2
    <3> QED
      BY <3>1, <3>2
  <2>2. now \in Times /\ Millis(now) <= Start + Precision * edits
    <3>1. MaxEdits + 1 \in Nat /\ MaxEdits + 1 > 0 /\ Precision \in Nat /\ Precision > 0
      BY SizesAssumption
    <3>2. Precision * (MaxEdits + 1) \in Nat /\ Precision * (MaxEdits + 1) > 0
          /\ Precision * 0 = 0
      BY <3>1, Z3
    <3>3. Start \in Times
      BY <1>2, <3>2 DEF Times
    <3> QED
      BY <1>1, <1>2, <3>2, <3>3
  <2> QED
    BY <1>1, <2>1, <2>2, Sizes DEF TablesOK
<1>4. \A k \in Runs : run[k] = NoRun
  BY <1>1
<1>5. RunsOK
  <2>1. RunOK(NoRun, edits)
    BY <1>1, NoRunOK DEF RunOK
  <2> QED
    BY <1>1, <2>1 DEF RunsOK, RunOK
<1>6. CallsOK
  <2>1. running \in BOOLEAN /\ calls \in 0 .. CallLimit
    <3>1. running \in BOOLEAN
      BY <1>1, Zenon
    <3>2. calls = 0 /\ CallLimit \in Nat
      BY <1>1, SizesAssumption
    <3> QED
      BY <3>1, <3>2
  <2>2. late \subseteq [entity : Entities, chunk : SUBSET Sent] /\ \A l \in late : Single(l.chunk)
    BY <1>1
  <2> QED
    BY <2>1, <2>2 DEF CallsOK
<1>7. Pushed = {} /\ Pulled = {}
  BY <1>1, <1>4 DEF Pushed, Pulled, Sends, Gets, NoRun
<1>8. \A i \in LineIds :
        /\ L[i] = C[i] /\ L[i].v = 0 /\ L[i] \in Version /\ L[i].at \in Nat /\ L[i].at <= Start
        /\ L[i].at \in {0, Precision * i} /\ i \in Nat /\ i > 0
  <2> TAKE i \in LineIds
  <2>1. i \in Ids("Line") /\ i \in Nat /\ i > 0
    BY <1>2, SizesAssumption DEF LineIds, Ids
  <2>2. /\ L[i] \in Row /\ L[i].v = 0
        /\ L[i].at \in {0, Precision * i} /\ L[i].at <= Start
    BY <1>2, <2>1, InitTables
  <2>3. L[i] \in Version /\ L[i].at \in Nat
    BY <2>2, Sizes DEF Row, Version
  <2> QED
    BY <1>1, <2>1, <2>2, <2>3
<1>9. DOMAIN L = LineIds /\ DOMAIN C = LineIds /\ L \in [LineIds -> Row]
  BY <1>1, <1>2, <1>3 DEF TablesOK, LineIds
<1>10. DataInv
  <2>1. L \in [LineIds -> Version] /\ C \in [LineIds -> Version]
    BY <1>1, <1>8, <1>9
  <2>2. newest["Line"] = [i \in LineIds |-> 0]
    BY <1>1, <1>2 DEF LineIds
  <2>3. \A i \in LineIds : Holds(L, C, newest["Line"], i)
    BY <1>8, <2>2 DEF Holds
  <2>4. Dated(L, Start, 0) /\ Dated(C, Start, 0)
    BY <1>8 DEF Dated
  <2>5. DataOK(L, C, {}, {}, newest["Line"], Start, 0)
    BY <1>2, <2>1, <2>2, <2>3, <2>4 DEF DataOK, Behind
  <2> QED
    BY <1>1, <1>7, <2>5 DEF DataInv
<1>11. MarkInv
  <2>1. \A i \in LineIds : Marks(i, L, C, {}, {}) = {Stamped(L[i])}
    BY <1>8 DEF Marks
  <2>2. \A i \in LineIds : Stamped(L[i]).v = 0 /\ Stamped(L[i]).ms \in {0, Precision * i}
    <3> TAKE i \in LineIds
    <3>1. Millis(Precision * i) = Precision * i /\ Millis(0) = 0
      <4>1. Precision * 0 = 0 /\ Millis(Precision * 0) = Precision * 0
        BY StartBounds, SizesAssumption
      <4> QED
        BY <1>8, <4>1, StartBounds
    <3> QED
      BY <1>8, <3>1 DEF Stamped
  <2>3. \A i, j \in LineIds : i # j => Precision * i # Precision * j
    <3>1. Precision \in Nat /\ Precision > 0 /\ LineIds \subseteq Nat
      BY <1>8, SizesAssumption
    <3>2. \A a, b \in Nat : Precision * a = Precision * b => a = b
      BY <3>1, Z3
    <3> QED
      BY <3>1, <3>2
  <2>4. \A i \in LineIds : \A x, y \in Marks(i, L, C, {}, {}) : x = y /\ x.v = 0
    BY <2>1, <2>2
  <2>5. \A i \in LineIds : \A x, y \in Marks(i, L, C, {}, {}) : x.v < y.v <=> x.ms < y.ms
    <3> TAKE i \in LineIds
    <3> TAKE x, y \in Marks(i, L, C, {}, {})
    <3>1. x = y /\ x.v = 0 /\ x.ms \in Nat
      BY <1>8, <2>1, <2>2, StartBounds
    <3> QED
      BY <3>1
  <2>6. \A i, j \in LineIds : i # j =>
          \A x \in Marks(i, L, C, {}, {}), y \in Marks(j, L, C, {}, {}) :
            x.ms = y.ms => x.ms = 0
    <3> TAKE i, j \in LineIds
    <3>1. ASSUME i # j,
                 NEW x \in Marks(i, L, C, {}, {}), NEW y \in Marks(j, L, C, {}, {}),
                 x.ms = y.ms
          PROVE  x.ms = 0
      <4>1. x = Stamped(L[i]) /\ y = Stamped(L[j])
        BY <2>1
      <4>2. x.ms \in {0, Precision * i} /\ y.ms \in {0, Precision * j}
        BY <2>2, <4>1
      <4> QED
        BY <2>3, <3>1, <4>2
    <3> QED
      BY <3>1
  <2> QED
    BY <1>7, <2>5, <2>6 DEF MarkInv, MarkOK
<1>12. RunsInv
  BY <1>4 DEF RunsInv, PushInv, PullInv, NoRun
<1> QED
  BY <1>3, <1>5, <1>6, <1>10, <1>11, <1>12 DEF IInv, OrderInv, TypesInv

-----------------------------------------------------------------------------
(* The theorems.                                                           *)

LEMMA StepKeeps ==
  ASSUME IInv, [Next]_vars
  PROVE  IInv' /\ (OrderInv /\ Crowd = 1 => OrderInv')
<1>1. ASSUME NEW e \in Entities, EditLocal(e) \/ EditCentral(e)
      PROVE  IInv' /\ (OrderInv /\ Crowd = 1 => OrderInv')
  BY <1>1, EditLocalStep, EditCentralStep
<1>2. ASSUME NEW k \in Runs, ScheduledSlot(k) \/ EnterSlot(k) \/ ManualRun(k)
      PROVE  IInv' /\ (OrderInv => OrderInv')
  BY <1>2, ScheduledSlotStep, EnterSlotStep, ManualRunStep
<1>3. ASSUME NEW k \in Runs, ReadChunk(k) \/ SendChunk(k) \/ SendTwice(k) \/ SendFault(k)
      PROVE  IInv' /\ (OrderInv => OrderInv')
  BY <1>3, ReadChunkStep, SendChunkStep, SendTwiceStep, SendFaultStep
<1>4. ASSUME NEW k \in Runs, AskChunk(k) \/ ApplyChunk(k) \/ PullFault(k)
      PROVE  IInv' /\ (OrderInv => OrderInv')
  BY <1>4, AskChunkStep, ApplyChunkStep, PullFaultStep
<1>5. ASSUME NEW k \in Runs, RefuseRun(k)
      PROVE  IInv' /\ (OrderInv => OrderInv')
  <2>1. EndRun(k) /\ UNCHANGED <<tables, late>> /\ calls' \in 0 .. CallLimit
    BY <1>5, CallCounted DEF RefuseRun
  <2> QED
    BY <2>1, EndRunStep
<1>6. ASSUME NEW k \in Runs, FinishRun(k)
      PROVE  IInv' /\ (OrderInv => OrderInv')
  <2>1. EndRun(k) /\ UNCHANGED <<tables, late>> /\ calls' \in 0 .. CallLimit
    BY <1>6, RunFacts DEF FinishRun
  <2> QED
    BY <2>1, EndRunStep
<1>7. CASE DeliverLate \/ Restart
  BY <1>7, DeliverLateStep, RestartStep
<1>8. CASE UNCHANGED vars
  <2>1. /\ UNCHANGED tables /\ run' = run /\ running' = running /\ late' = late /\ calls' = calls
    BY <1>8 DEF vars
  <2>2. now' = now /\ edits' = edits /\ local' = local /\ central' = central /\ newest' = newest
    BY <2>1 DEF tables
  <2>3. TypesInv'
    BY <2>1, <2>2 DEF IInv, TypesInv, TablesOK, RunsOK, RunOK, Shape, CallsOK
  <2>4. Pushed' = Pushed /\ Pulled' = Pulled
    BY <2>1 DEF Pushed, Pulled, Sends, Gets
  <2>5. DataInv' /\ (MarkInv => MarkInv')
    BY <2>2, <2>4 DEF IInv, DataInv, MarkInv
  <2>6. RunsInv => RunsInv'
    BY <2>1, <2>2 DEF RunsInv, PushInv, PullInv, Ahead, OnWay, Delivered, Owed
  <2> QED
    BY <2>3, <2>5, <2>6 DEF IInv, OrderInv
<1>9. CASE Next
  BY <1>1, <1>2, <1>3, <1>4, <1>5, <1>6, <1>7, <1>9 DEF Next, Step, CallCentral
<1> QED
  BY <1>8, <1>9

\* Every table, run and request keeps its type; no chunk is longer than
\* CHUNK_SIZE (pushPhase, pullPhase, SyncController).
THEOREM SyncTypeCorrect == Spec => []TypeOK
<1>1. Init => IInv
  BY InitHolds
<1>2. IInv /\ [Next]_vars => IInv'
  BY StepKeeps
<1>3. IInv => TypeOK
  BY TypesImply DEF IInv
<1> QED
  BY <1>1, <1>2, <1>3, PTL DEF Spec

\* However runs overlap, chunks repeat or come late, and requests fail, the last
\* edit of a row that both sides edit stays on one of them, even where edits of
\* both sides share a millisecond (upsertWithUpdate).
THEOREM NoLostEditHolds == Spec => []NoLostEdit
<1>1. Init => IInv
  BY InitHolds
<1>2. IInv /\ [Next]_vars => IInv'
  BY StepKeeps
<1>3. IInv => NoLostEdit
  BY DEF IInv, DataInv, DataOK, Holds, NoLostEdit, LineIds
<1> QED
  BY <1>1, <1>2, <1>3, PTL DEF Spec

\* A run that reports SUCCESS has nothing more to deliver.
LEMMA FinishedDelivered ==
  ASSUME IInv, OrderInv
  PROVE  SuccessDelivered
<1> DEFINE L == local["Line"]
           C == central["Line"]
<1> SUFFICES ASSUME NEW k \in Runs, run[k].pc = "finish", Status(run[k]) = "SUCCESS",
                    NEW i \in LineIds
             PROVE  /\ run[k].mode # "pull" /\ L[i].v <= run[k].since => C[i].v >= L[i].v
                    /\ run[k].mode # "push" /\ C[i].v <= run[k].since => L[i].v >= C[i].v
  BY DEF SuccessDelivered, LineIds
<1>1. run[k].pushOk /\ run[k].pullOk
  BY DEF Status
<1>2. PushInv(run[k], L, C) /\ PullInv(run[k], C, L)
  BY DEF OrderInv, RunsInv
<1>3. /\ run[k].mode # "pull" => Delivered(L, C, run[k])
      /\ run[k].mode # "push" => Delivered(C, L, run[k])
  BY <1>1, <1>2 DEF PushInv, PullInv
<1>4. L[i].v \in Nat /\ C[i].v \in Nat
  BY DEF IInv, DataInv, DataOK, Version
<1> HIDE DEF L, C
<1> QED
  BY <1>3, <1>4 DEF Delivered, Owed

\* Where a millisecond holds one edit, a run that reports SUCCESS has also
\* delivered what its side had when it began: the cursor steps over no row
\* (pushPhase, pullPhase). A row that shares its millisecond with the last one of
\* a chunk may be passed by.
THEOREM SyncInvHolds ==
  ASSUME Crowd = 1
  PROVE  Spec => []SyncInv
<1>1. Init => IInv /\ OrderInv
  BY InitHolds
<1>2. IInv /\ OrderInv /\ [Next]_vars => (IInv /\ OrderInv)'
  BY StepKeeps
<1>3. IInv /\ OrderInv => SyncInv
  <2>1. IInv => TypeOK
    BY TypesImply DEF IInv
  <2>2. IInv => NoLostEdit
    BY DEF IInv, DataInv, DataOK, Holds, NoLostEdit, LineIds
  <2> QED
    BY <2>1, <2>2, FinishedDelivered DEF SyncInv
<1> QED
  BY <1>1, <1>2, <1>3, PTL DEF Spec

=============================================================================
