-------------------------- MODULE RedisListTheorems --------------------------
(* Facts about the list operations of RedisList that the proofs about the     *)
(* queues rest on: which elements they keep, and how many.                    *)
EXTENDS RedisList, SequenceTheorems, FiniteSetTheorems, WellFoundedInduction, TLAPS

-----------------------------------------------------------------------------
\* A list without its last element, as the right pop of RPOPLPUSH leaves it.
LEMMA FrontProperties ==
    ASSUME NEW S, NEW s \in Seq(S), s # <<>>
    PROVE  /\ Len(s) \in Nat \ {0}
           /\ Last(s) \in S
           /\ Front(s) \in Seq(S)
           /\ Len(Front(s)) = Len(s) - 1
           /\ \A i \in 1..Len(s) - 1 : Front(s)[i] = s[i]
  <1>1. Len(s) \in Nat \ {0}
    BY EmptySeq, LenProperties
  <1>2. Last(s) \in S
    BY DEF Last
  <1>3. ASSUME NEW n \in 0..Len(s)
        PROVE  /\ SubSeq(s, 1, n) \in Seq(S)
               /\ Len(SubSeq(s, 1, n)) = n
               /\ \A i \in 1..n : SubSeq(s, 1, n)[i] = s[i]
    OBVIOUS
  <1>4. Len(s) - 1 \in 0..Len(s)
    BY <1>1
  <1>5. QED
    BY <1>1, <1>2, <1>3, <1>4 DEF Front

\* A list with a new head, as the left push of RPOPLPUSH makes it.
LEMMA ConsProperties ==
    ASSUME NEW S, NEW s \in Seq(S), NEW e \in S
    PROVE  /\ Cons(e, s) \in Seq(S)
           /\ Len(Cons(e, s)) = Len(s) + 1
           /\ Cons(e, s)[1] = e
           /\ \A i \in 1..Len(s) : Cons(e, s)[i + 1] = s[i]
  BY DEF Cons

\* r is the list s without its k-th entry.
WithoutEntry(r, s, k) ==
    /\ Len(r) = Len(s) - 1
    /\ \A i \in 1..Len(s) - 1 : r[i] = IF i < k THEN s[i] ELSE s[i + 1]

\* LREM of a value the list holds: one occurrence goes, the others close ranks.
LEMMA RemoveFirstProperties ==
    ASSUME NEW S, NEW s \in Seq(S), NEW e, Contains(s, e)
    PROVE  /\ RemoveFirst(s, e) \in Seq(S)
           /\ \E k \in 1..Len(s) : s[k] = e /\ WithoutEntry(RemoveFirst(s, e), s, k)
  <1> DEFINE I == {i \in 1..Len(s) : s[i] = e}
             k == Min(I)
  <1>1. I # {} /\ I \subseteq Nat
    BY DEF Contains
  <1>2. \E x \in I : \A y \in I : x <= y
    <2>1. OpToRel(<, Nat) = {p \in Nat \X Nat : p[1] < p[2]}
      BY Zenon DEF OpToRel
    <2>2. PICK x \in I : \A y \in I : ~(<<y, x>> \in OpToRel(<, Nat))
      BY <1>1, NatLessThanWellFounded, WFMin
    <2>3. ASSUME NEW y \in I PROVE x <= y
      <3>1. ~(<<y, x>> \in {p \in Nat \X Nat : p[1] < p[2]})
        BY <2>1, <2>2
      <3>2. x \in Nat /\ y \in Nat
        BY <1>1
      <3>3. ~(y < x)
        BY <3>1, <3>2
      <3>4. QED
        BY <3>2, <3>3
    <2>4. QED
      BY <2>3
  <1>3. k \in I
    BY <1>2 DEF Min
  <1>4. SelectInSeq(s, LAMBDA v : v = e) = k
    BY <1>1, Zenon DEF SelectInSeq
  <1>5. RemoveFirst(s, e) = SubSeq(s, 1, k - 1) \o SubSeq(s, k + 1, Len(s))
    BY <1>4 DEF RemoveFirst, RemoveAt, Contains
  <1>6. k \in 1..Len(s) /\ s[k] = e
    BY <1>3
  <1> HIDE DEF I, k
  <1> DEFINE before == SubSeq(s, 1, k - 1)
             after == SubSeq(s, k + 1, Len(s))
  <1>7. /\ before \in Seq(S) /\ Len(before) = k - 1
        /\ \A i \in 1..k - 1 : before[i] = s[i]
    BY <1>6
  <1>8. /\ after \in Seq(S) /\ Len(after) = Len(s) - k
        /\ \A i \in 1..Len(s) - k : after[i] = s[k + i]
    BY <1>6
  <1> HIDE DEF before, after
  <1>9. /\ before \o after \in Seq(S)
        /\ Len(before \o after) = Len(s) - 1
        /\ \A i \in 1..Len(s) - 1 :
              (before \o after)[i] = IF i < k THEN before[i] ELSE after[i - (k - 1)]
    <2>1. /\ before \o after \in Seq(S)
          /\ Len(before \o after) = Len(before) + Len(after)
          /\ \A i \in 1..Len(before) + Len(after) :
                (before \o after)[i] = IF i <= Len(before) THEN before[i]
                                       ELSE after[i - Len(before)]
      BY <1>7, <1>8, ConcatProperties
    <2>2. Len(before) = k - 1 /\ Len(after) = Len(s) - k /\ k \in Nat /\ Len(s) \in Nat
      BY <1>6, <1>7, <1>8
    <2>3. QED
      BY <2>1, <2>2
  <1>10. \A i \in 1..Len(s) - 1 :
            (before \o after)[i] = IF i < k THEN s[i] ELSE s[i + 1]
    BY <1>6, <1>7, <1>8, <1>9
  <1>11. RemoveFirst(s, e) = before \o after
    BY <1>5 DEF before, after
  <1>12. WithoutEntry(RemoveFirst(s, e), s, k)
    BY <1>9, <1>10, <1>11 DEF WithoutEntry
  <1>13. QED
    BY <1>6, <1>9, <1>11, <1>12, Zenon

-----------------------------------------------------------------------------
\* Every queue operation keeps the three lists lists of messages.  M is any set
\* of messages, so the lemma also says that the operations bring no message into
\* a list that was not in some list before.
LEMMA QueueOperationsType ==
    ASSUME NEW M, NEW D, NEW q \in [main : Seq(M), processing : Seq(M), dlq : Seq(D)]
    PROVE  /\ \A m \in M : PushMain(q, m) \in [main : Seq(M), processing : Seq(M), dlq : Seq(D)]
           /\ q.main # <<>> =>
                /\ ReservedMessage(q) \in M
                /\ Reserve(q) \in [main : Seq(M), processing : Seq(M), dlq : Seq(D)]
           /\ q.processing # <<>> =>
                RecoverLast(q) \in [main : Seq(M), processing : Seq(M), dlq : Seq(D)]
           /\ \A m : RemoveReserved(q, m) \in [main : Seq(M), processing : Seq(M), dlq : Seq(D)]
  <1>1. q.main \in Seq(M) /\ q.processing \in Seq(M) /\ q.dlq \in Seq(D)
    OBVIOUS
  <1>2. ASSUME NEW m \in M
        PROVE  PushMain(q, m) \in [main : Seq(M), processing : Seq(M), dlq : Seq(D)]
    <2>1. Append(q.main, m) \in Seq(M)
      BY <1>1, <1>2, AppendProperties
    <2>2. QED
      BY <2>1 DEF PushMain
  <1>3. ASSUME q.main # <<>>
        PROVE  /\ ReservedMessage(q) \in M
               /\ Reserve(q) \in [main : Seq(M), processing : Seq(M), dlq : Seq(D)]
    <2>1. ReservedMessage(q) \in M /\ Front(q.main) \in Seq(M)
      BY <1>1, <1>3, FrontProperties DEF ReservedMessage
    <2>2. Cons(ReservedMessage(q), q.processing) \in Seq(M)
      BY <1>1, <2>1, ConsProperties
    <2>3. QED
      BY <2>1, <2>2 DEF Reserve
  <1>4. ASSUME q.processing # <<>>
        PROVE  RecoverLast(q) \in [main : Seq(M), processing : Seq(M), dlq : Seq(D)]
    <2>1. Last(q.processing) \in M /\ Front(q.processing) \in Seq(M)
      BY <1>1, <1>4, FrontProperties
    <2>2. Cons(Last(q.processing), q.main) \in Seq(M)
      BY <1>1, <2>1, ConsProperties
    <2>3. QED
      BY <2>1, <2>2 DEF RecoverLast
  <1>5. ASSUME NEW m
        PROVE  RemoveReserved(q, m) \in [main : Seq(M), processing : Seq(M), dlq : Seq(D)]
    <2>1. RemoveFirst(q.processing, m) \in Seq(M)
      <3>1. CASE Contains(q.processing, m)
        BY <1>1, <3>1, RemoveFirstProperties
      <3>2. CASE ~Contains(q.processing, m)
        BY <1>1, <3>2 DEF RemoveFirst, Contains
      <3>3. QED
        BY <3>1, <3>2
    <2>2. QED
      BY <2>1 DEF RemoveReserved
  <1>6. QED
    BY <1>2, <1>3, <1>4, <1>5

-----------------------------------------------------------------------------
\* Messages over the payloads P that have attempts left, those that have none, and a
\* queue that keeps the two apart.
Fresh(P, max) == [payload : P, attempts : 0..max - 1]
Spent(P, max) == [payload : P, attempts : {max}]
Sorted(P, max) == [main : Seq(Fresh(P, max)), processing : Seq(Fresh(P, max)),
                   dlq : Seq(Spent(P, max))]

\* The push of RetryJob keeps a queue sorted: only the last attempt leads to the
\* dead letters.
LEMMA RetryKeepsSorted ==
    ASSUME NEW P, NEW max \in Nat \ {0}, NEW q \in Sorted(P, max), NEW m \in Fresh(P, max)
    PROVE  PushRetried(q, m, max) \in Sorted(P, max)
  <1> DEFINE retried == [m EXCEPT !.attempts = @ + 1]
  <1>1. m.attempts \in Nat /\ m.attempts + 1 <= max /\ m.payload \in P
    BY DEF Fresh
  <1>2. retried = [payload |-> m.payload, attempts |-> m.attempts + 1]
    BY DEF Fresh
  <1>3. CASE MovesToDLQ(m, max)
    <2>1. m.attempts + 1 = max
      BY <1>1, <1>3 DEF MovesToDLQ
    <2>2. retried \in Spent(P, max)
      BY <1>1, <1>2, <2>1 DEF Spent
    <2>3. Append(q.dlq, retried) \in Seq(Spent(P, max))
      BY <2>2, AppendProperties DEF Sorted
    <2>4. QED
      BY <2>3, <1>3 DEF PushRetried, Sorted
  <1>4. CASE ~MovesToDLQ(m, max)
    <2>1. m.attempts + 1 \in 0..max - 1
      BY <1>1, <1>4 DEF MovesToDLQ
    <2>2. retried \in Fresh(P, max)
      BY <1>1, <1>2, <2>1 DEF Fresh
    <2>3. Append(q.main, retried) \in Seq(Fresh(P, max))
      BY <2>2, AppendProperties DEF Sorted
    <2>4. QED
      BY <2>3, <1>4 DEF PushRetried, PushMain, Sorted
  <1>5. QED
    BY <1>3, <1>4

\* The other commands do, too, and a sorted queue is a queue.
LEMMA CommandsKeepSorted ==
    ASSUME NEW P, NEW max \in Nat \ {0}, NEW q \in Sorted(P, max)
    PROVE  /\ \A m \in Fresh(P, max) : PushMain(q, m) \in Sorted(P, max)
           /\ q.main # <<>> =>
                ReservedMessage(q) \in Fresh(P, max) /\ Reserve(q) \in Sorted(P, max)
           /\ q.processing # <<>> => RecoverLast(q) \in Sorted(P, max)
           /\ \A m : RemoveReserved(q, m) \in Sorted(P, max)
  BY QueueOperationsType DEF Sorted

LEMMA SortedIsQueue ==
    ASSUME NEW P, NEW max \in Nat \ {0}
    PROVE  Sorted(P, max) \subseteq QueueOf([payload : P, attempts : 0..max])
  <1> DEFINE M == [payload : P, attempts : 0..max]
  <1>1. Fresh(P, max) \subseteq M /\ Spent(P, max) \subseteq M
    BY DEF Fresh, Spent
  <1>2. Seq(Fresh(P, max)) \subseteq Seq(M) /\ Seq(Spent(P, max)) \subseteq Seq(M)
    BY <1>1, SeqMonotonic
  <1>3. QED
    BY <1>2 DEF Sorted, QueueOf

LEMMA EmptyIsSorted ==
    ASSUME NEW P, NEW max \in Nat \ {0}
    PROVE  EmptyQueue \in Sorted(P, max)
  BY EmptySeq DEF EmptyQueue, Sorted

-----------------------------------------------------------------------------
Bit(condition) == IF condition THEN 1 ELSE 0

\* How many entries of a list are in X.
Places(s, X) == {i \in 1..Len(s) : s[i] \in X}

Count(s, X) == Cardinality(Places(s, X))

\* The positions of the members of X in a list are finitely many.
LEMMA PlacesFinite ==
    ASSUME NEW S, NEW s \in Seq(S), NEW X
    PROVE  IsFiniteSet(Places(s, X)) /\ Count(s, X) \in Nat
  <1>1. Len(s) \in Nat
    BY LenProperties
  <1>2. IsFiniteSet(1..Len(s))
    BY <1>1, FS_Interval
  <1>3. Places(s, X) \subseteq 1..Len(s)
    BY DEF Places
  <1>4. IsFiniteSet(Places(s, X))
    BY <1>2, <1>3, FS_Subset
  <1>5. QED
    BY <1>4, FS_CardinalityType DEF Count

\* RPUSH adds one.
LEMMA CountAppend ==
    ASSUME NEW S, NEW s \in Seq(S), NEW m \in S, NEW X
    PROVE  Count(Append(s, m), X) = Count(s, X) + Bit(m \in X)
  <1>1. Len(s) \in Nat /\ IsFiniteSet(Places(s, X)) /\ Count(s, X) \in Nat
    BY PlacesFinite, LenProperties
  <1>2. /\ Len(Append(s, m)) = Len(s) + 1
        /\ \A i \in 1..Len(s) : Append(s, m)[i] = s[i]
        /\ Append(s, m)[Len(s) + 1] = m
    BY AppendProperties
  <1>3. Len(s) + 1 \notin Places(s, X)
    BY <1>1 DEF Places
  <1>4. CASE m \in X
    <2>1. Places(Append(s, m), X) = Places(s, X) \cup {Len(s) + 1}
      BY <1>1, <1>2, <1>4 DEF Places
    <2>2. QED
      BY <2>1, <1>1, <1>3, <1>4, FS_AddElement, ZenonT(40) DEF Count, Bit
  <1>5. CASE m \notin X
    <2>1. Places(Append(s, m), X) = Places(s, X)
      BY <1>1, <1>2, <1>5 DEF Places
    <2>2. QED
      BY <2>1, <1>1, <1>5 DEF Count, Bit
  <1>6. QED
    BY <1>4, <1>5

\* The right pop takes the one it returns.
LEMMA CountFront ==
    ASSUME NEW S, NEW s \in Seq(S), s # <<>>, NEW X
    PROVE  Count(Front(s), X) = Count(s, X) - Bit(Last(s) \in X)
  <1>1. /\ Len(s) \in Nat \ {0} /\ Front(s) \in Seq(S) /\ Len(Front(s)) = Len(s) - 1
        /\ \A i \in 1..Len(s) - 1 : Front(s)[i] = s[i]
    BY FrontProperties
  <1>2. IsFiniteSet(Places(s, X)) /\ Count(s, X) \in Nat
    BY PlacesFinite
  <1>3. CASE Last(s) \in X
    <2>1. Len(s) \in Places(s, X)
      BY <1>1, <1>3 DEF Places, Last
    <2>2. Places(Front(s), X) = Places(s, X) \ {Len(s)}
      BY <1>1, <1>3 DEF Places
    <2>3. QED
      BY <2>1, <2>2, <1>2, <1>3, FS_RemoveElement DEF Count, Bit
  <1>4. CASE Last(s) \notin X
    <2>1. Places(Front(s), X) = Places(s, X)
      BY <1>1, <1>4 DEF Places, Last
    <2>2. QED
      BY <2>1, <1>2, <1>4 DEF Count, Bit
  <1>5. QED
    BY <1>3, <1>4

\* The left push adds one: the others move up one place.
LEMMA CountCons ==
    ASSUME NEW S, NEW s \in Seq(S), NEW m \in S, NEW X
    PROVE  Count(Cons(m, s), X) = Count(s, X) + Bit(m \in X)
  <1> DEFINE P == Places(s, X)
             Up == {i + 1 : i \in P}
             f == [i \in P |-> i + 1]
  <1>1. /\ Len(s) \in Nat /\ Len(Cons(m, s)) = Len(s) + 1 /\ Cons(m, s)[1] = m
        /\ \A i \in 1..Len(s) : Cons(m, s)[i + 1] = s[i]
    BY ConsProperties, LenProperties
  <1>2. IsFiniteSet(P) /\ Count(s, X) \in Nat
    BY PlacesFinite
  <1>3. P \subseteq Nat \ {0}
    BY <1>1 DEF Places
  <1>4. f \in Bijection(P, Up)
    BY <1>3 DEF Bijection, Injection, Surjection, IsInjective
  <1>5. IsFiniteSet(Up) /\ Cardinality(Up) = Count(s, X)
    BY <1>2, <1>4, FS_Bijection DEF Count, ExistsBijection
  <1>6. 1 \notin Up
    BY <1>3
  <1>7. \A j \in 2..Len(s) + 1 : j \in Up <=> Cons(m, s)[j] \in X
    <2>1. ASSUME NEW j \in 2..Len(s) + 1
          PROVE  j \in Up <=> Cons(m, s)[j] \in X
      <3>1. j - 1 \in 1..Len(s) /\ (j - 1) + 1 = j
        BY <2>1, <1>1
      <3>2. Cons(m, s)[j] = s[j - 1]
        BY <3>1, <1>1
      <3>3. j \in Up <=> j - 1 \in P
        BY <3>1, <1>3
      <3>4. QED
        BY <3>1, <3>2, <3>3 DEF Places
    <2>2. QED
      BY <2>1
  <1>8. Up \subseteq 2..Len(s) + 1
    BY <1>1 DEF Places
  <1>9. \A j : j \in Places(Cons(m, s), X)
                <=> \/ j = 1 /\ m \in X
                    \/ j \in 2..Len(s) + 1 /\ Cons(m, s)[j] \in X
    <2>1. \A j : j \in 1..Len(s) + 1 <=> j = 1 \/ j \in 2..Len(s) + 1
      BY <1>1
    <2>2. 1 \notin 2..Len(s) + 1
      BY <1>1
    <2>3. Places(Cons(m, s), X) = {i \in 1..Len(s) + 1 : Cons(m, s)[i] \in X}
      BY <1>1 DEF Places
    <2>4. QED
      BY <2>1, <2>2, <2>3, <1>1, Zenon
  <1> HIDE DEF Up, P, f
  <1>10. CASE m \in X
    <2>1. Places(Cons(m, s), X) = Up \cup {1}
      BY <1>7, <1>8, <1>9, <1>10
    <2>2. QED
      BY <2>1, <1>2, <1>5, <1>6, <1>10, FS_AddElement DEF Count, Bit
  <1>11. CASE m \notin X
    <2>1. Places(Cons(m, s), X) = Up
      BY <1>7, <1>8, <1>9, <1>11
    <2>2. QED
      BY <2>1, <1>2, <1>5, <1>11 DEF Count, Bit
  <1>12. QED
    BY <1>10, <1>11

\* LREM of a value the list holds takes one: the positions behind
\* the removed one move down.
LEMMA CountRemoveFirst ==
    ASSUME NEW S, NEW s \in Seq(S), NEW e, Contains(s, e), NEW X
    PROVE  Count(RemoveFirst(s, e), X) = Count(s, X) - Bit(e \in X)
  <1> DEFINE r == RemoveFirst(s, e)
             P == Places(s, X)
  <1>0. PICK k \in 1..Len(s) : s[k] = e /\ WithoutEntry(r, s, k)
    BY RemoveFirstProperties, Zenon
  <1>1. /\ k \in 1..Len(s)
        /\ s[k] = e
        /\ Len(r) = Len(s) - 1
        /\ \A i \in 1..Len(s) - 1 : r[i] = IF i < k THEN s[i] ELSE s[i + 1]
    BY <1>0, Zenon DEF WithoutEntry
  <1> DEFINE f == [i \in P \ {k} |-> IF i < k THEN i ELSE i - 1]
             Q == Places(r, X)
  <1>2. Len(s) \in Nat /\ IsFiniteSet(P) /\ Count(s, X) \in Nat
    BY PlacesFinite, LenProperties
  <1>3. P \subseteq 1..Len(s) /\ Q \subseteq 1..Len(s) - 1 /\ k \in 1..Len(s)
    BY <1>1 DEF Places
  <1>4. \A i \in P \ {k} : f[i] \in Q
    <2>1. ASSUME NEW i \in P \ {k}, i < k
          PROVE  i \in Q
      BY <2>1, <1>1, <1>2 DEF Places
    <2>2. ASSUME NEW i \in P \ {k}, ~(i < k)
          PROVE  i - 1 \in Q
      <3>1. i \in 1..Len(s) /\ k < i /\ s[i] \in X
        BY <2>2, <1>1, <1>2 DEF Places
      <3>2. i - 1 \in 1..Len(s) - 1 /\ ~(i - 1 < k) /\ (i - 1) + 1 = i
        BY <3>1, <1>2
      <3>3. r[i - 1] = s[i]
        BY <3>2, <1>1
      <3>4. QED
        BY <3>1, <3>2, <3>3, <1>1 DEF Places
    <2>3. QED
      BY <2>1, <2>2
  <1>5. \A i, j \in P \ {k} : f[i] = f[j] => i = j
    BY <1>2, <1>3
  <1>6. \A j \in Q : \E i \in P \ {k} : f[i] = j
    <2>1. ASSUME NEW j \in Q, j < k
          PROVE  j \in P \ {k} /\ f[j] = j
      BY <2>1, <1>1, <1>2 DEF Places
    <2>2. ASSUME NEW j \in Q, ~(j < k)
          PROVE  j + 1 \in P \ {k} /\ f[j + 1] = j
      BY <2>2, <1>1, <1>2 DEF Places
    <2>3. QED
      BY <2>1, <2>2
  <1> HIDE DEF f, Q, P
  <1>7. f \in Bijection(P \ {k}, Q)
    <2>1. f = [i \in P \ {k} |-> f[i]]
      BY DEF f
    <2>2. f \in [P \ {k} -> Q]
      BY <1>4, <2>1
    <2>3. QED
      BY <2>2, <1>5, <1>6 DEF Bijection, Injection, Surjection, IsInjective
  <1>8. IsFiniteSet(P \ {k}) /\ Cardinality(Q) = Cardinality(P \ {k})
    <2>1. IsFiniteSet(P \ {k})
      BY <1>2, FS_Subset
    <2>2. QED
      BY <2>1, <1>7, FS_Bijection DEF ExistsBijection
  <1>9. Cardinality(P \ {k}) = Cardinality(P) - Bit(e \in X)
    <2>1. CASE e \in X
      <3>1. k \in P
        BY <1>1, <2>1 DEF P, Places
      <3>2. QED
        BY <3>1, <1>2, <2>1, FS_RemoveElement DEF Bit
    <2>2. CASE e \notin X
      <3>1. P \ {k} = P
        BY <1>1, <2>2 DEF P, Places
      <3>2. Cardinality(P) \in Nat
        BY <1>2, FS_CardinalityType
      <3>3. Cardinality(P \ {k}) = Cardinality(P)
        BY <3>1
      <3>4. QED
        BY <3>2, <3>3, <2>2 DEF Bit
    <2>3. QED
      BY <2>1, <2>2
  <1>10. QED
    BY <1>8, <1>9 DEF Count, P, Q

-----------------------------------------------------------------------------
\* The copies of a payload, counted as the messages that carry it.
LEMMA CopiesAreCounted ==
    ASSUME NEW S, NEW s \in Seq(S), NEW p
    PROVE  Copies(s, p) = Count(s, {m \in S : m.payload = p})
  <1>1. \A i \in 1..Len(s) : s[i] \in S
    BY ElementOfSeq
  <1>2. Positions(s, p) = Places(s, {m \in S : m.payload = p})
    BY <1>1 DEF Positions, Places
  <1>3. QED
    BY <1>2 DEF Copies, Count

LEMMA CopiesAreNatural ==
    ASSUME NEW S, NEW s \in Seq(S), NEW p
    PROVE  Copies(s, p) \in Nat
  <1> DEFINE X == {m \in S : m.payload = p}
  <1>1. Copies(s, p) = Count(s, X)
    BY CopiesAreCounted
  <1>2. Count(s, X) \in Nat
    BY PlacesFinite
  <1>3. QED
    BY <1>1, <1>2

LEMMA CopiesAppend ==
    ASSUME NEW S, NEW s \in Seq(S), NEW m \in S, NEW p
    PROVE  Copies(Append(s, m), p) = Copies(s, p) + Bit(m.payload = p)
  <1> DEFINE X == {x \in S : x.payload = p}
  <1>1. Append(s, m) \in Seq(S)
    BY AppendProperties
  <1>2. /\ Copies(s, p) = Count(s, X)
        /\ Copies(Append(s, m), p) = Count(Append(s, m), X)
    BY <1>1, CopiesAreCounted
  <1>3. Count(Append(s, m), X) = Count(s, X) + Bit(m \in X)
    BY CountAppend
  <1>4. QED
    BY <1>2, <1>3 DEF Bit

LEMMA CopiesFront ==
    ASSUME NEW S, NEW s \in Seq(S), s # <<>>, NEW p
    PROVE  Copies(Front(s), p) = Copies(s, p) - Bit(Last(s).payload = p)
  <1> DEFINE X == {x \in S : x.payload = p}
  <1>1. Front(s) \in Seq(S) /\ Last(s) \in S
    BY FrontProperties
  <1>2. /\ Copies(s, p) = Count(s, X)
        /\ Copies(Front(s), p) = Count(Front(s), X)
    BY <1>1, CopiesAreCounted
  <1>3. Count(Front(s), X) = Count(s, X) - Bit(Last(s) \in X)
    BY CountFront
  <1>4. QED
    BY <1>1, <1>2, <1>3 DEF Bit

LEMMA CopiesCons ==
    ASSUME NEW S, NEW s \in Seq(S), NEW m \in S, NEW p
    PROVE  Copies(Cons(m, s), p) = Copies(s, p) + Bit(m.payload = p)
  <1> DEFINE X == {x \in S : x.payload = p}
  <1>1. Cons(m, s) \in Seq(S)
    BY ConsProperties
  <1>2. /\ Copies(s, p) = Count(s, X)
        /\ Copies(Cons(m, s), p) = Count(Cons(m, s), X)
    BY <1>1, CopiesAreCounted
  <1>3. Count(Cons(m, s), X) = Count(s, X) + Bit(m \in X)
    BY CountCons
  <1>4. QED
    BY <1>2, <1>3 DEF Bit

LEMMA CopiesRemoveFirst ==
    ASSUME NEW S, NEW s \in Seq(S), NEW e, Contains(s, e), NEW p
    PROVE  Copies(RemoveFirst(s, e), p) = Copies(s, p) - Bit(e.payload = p)
  <1> DEFINE X == {x \in S : x.payload = p}
  <1>1. RemoveFirst(s, e) \in Seq(S) /\ e \in S
    BY RemoveFirstProperties, ElementOfSeq DEF Contains
  <1>2. /\ Copies(s, p) = Count(s, X)
        /\ Copies(RemoveFirst(s, e), p) = Count(RemoveFirst(s, e), X)
    BY <1>1, CopiesAreCounted
  <1>3. Count(RemoveFirst(s, e), X) = Count(s, X) - Bit(e \in X)
    BY CountRemoveFirst
  <1>4. QED
    BY <1>1, <1>2, <1>3 DEF Bit

-----------------------------------------------------------------------------
\* The messages of X that are still to be handled: they wait in main, or somebody has
\* reserved them.
Waiting(q, X) == Count(q.main, X) + Count(q.processing, X)

\* Reserving and recovering a message leave it waiting, RPUSH adds one, and only LREM
\* takes one away.
LEMMA WaitingCommands ==
    ASSUME NEW M, NEW D, NEW q \in [main : Seq(M), processing : Seq(M), dlq : Seq(D)], NEW X
    PROVE  /\ Waiting(q, X) \in Nat
           /\ \A m \in M : Waiting(PushMain(q, m), X) = Waiting(q, X) + Bit(m \in X)
           /\ q.main # <<>> => Waiting(Reserve(q), X) = Waiting(q, X)
           /\ q.processing # <<>> => Waiting(RecoverLast(q), X) = Waiting(q, X)
           /\ \A m : Waiting(RemoveReserved(q, m), X)
                        = Waiting(q, X) - Bit(Holds(q, m) /\ m \in X)
  <1>1. q.main \in Seq(M) /\ q.processing \in Seq(M)
    OBVIOUS
  <1>2. Count(q.main, X) \in Nat /\ Count(q.processing, X) \in Nat
    BY <1>1, PlacesFinite
  <1>3. ASSUME NEW m \in M
        PROVE  Waiting(PushMain(q, m), X) = Waiting(q, X) + Bit(m \in X)
    <2>1. Count(Append(q.main, m), X) = Count(q.main, X) + Bit(m \in X)
      BY <1>1, <1>3, CountAppend
    <2>2. /\ PushMain(q, m).main = Append(q.main, m)
          /\ PushMain(q, m).processing = q.processing
      BY DEF PushMain
    <2>3. QED
      BY <1>2, <2>1, <2>2 DEF Waiting, Bit
  <1>4. ASSUME q.main # <<>>
        PROVE  Waiting(Reserve(q), X) = Waiting(q, X)
    <2> DEFINE last == Last(q.main)
    <2>1. last \in M
      BY <1>1, <1>4, FrontProperties
    <2>2. Count(Front(q.main), X) = Count(q.main, X) - Bit(last \in X)
      BY <1>1, <1>4, CountFront
    <2>3. Count(Cons(last, q.processing), X) = Count(q.processing, X) + Bit(last \in X)
      BY <1>1, <2>1, CountCons
    <2>4. /\ Reserve(q).main = Front(q.main)
          /\ Reserve(q).processing = Cons(last, q.processing)
      BY DEF Reserve, ReservedMessage
    <2> HIDE DEF last
    <2>5. QED
      BY <1>2, <2>2, <2>3, <2>4 DEF Waiting, Bit
  <1>5. ASSUME q.processing # <<>>
        PROVE  Waiting(RecoverLast(q), X) = Waiting(q, X)
    <2> DEFINE last == Last(q.processing)
    <2>1. last \in M
      BY <1>1, <1>5, FrontProperties
    <2>2. Count(Front(q.processing), X) = Count(q.processing, X) - Bit(last \in X)
      BY <1>1, <1>5, CountFront
    <2>3. Count(Cons(last, q.main), X) = Count(q.main, X) + Bit(last \in X)
      BY <1>1, <2>1, CountCons
    <2>4. /\ RecoverLast(q).processing = Front(q.processing)
          /\ RecoverLast(q).main = Cons(last, q.main)
      BY DEF RecoverLast
    <2> HIDE DEF last
    <2>5. QED
      BY <1>2, <2>2, <2>3, <2>4 DEF Waiting, Bit
  <1>6. ASSUME NEW m
        PROVE  Waiting(RemoveReserved(q, m), X) = Waiting(q, X) - Bit(Holds(q, m) /\ m \in X)
    <2>1. /\ RemoveReserved(q, m).main = q.main
          /\ RemoveReserved(q, m).processing = RemoveFirst(q.processing, m)
      BY DEF RemoveReserved
    <2>2. CASE Holds(q, m)
      <3>1. Count(RemoveFirst(q.processing, m), X) = Count(q.processing, X) - Bit(m \in X)
        BY <1>1, <2>2, CountRemoveFirst DEF Holds
      <3>2. QED
        BY <1>2, <2>1, <2>2, <3>1 DEF Waiting, Bit
    <2>3. CASE ~Holds(q, m)
      <3>1. RemoveFirst(q.processing, m) = q.processing
        BY <2>3 DEF Holds, RemoveFirst, Contains
      <3>2. QED
        BY <1>2, <2>1, <2>3, <3>1 DEF Waiting, Bit
    <2>4. QED
      BY <2>2, <2>3
  <1>7. Waiting(q, X) \in Nat
    BY <1>2 DEF Waiting
  <1>8. QED
    BY <1>3, <1>4, <1>5, <1>6, <1>7

\* X holds the messages whose payload is in Y.
About(P, max, X, Y) == \A m \in Fresh(P, max) : m \in X <=> m.payload \in Y

\* The same for the messages whose payload is in Y, in a sorted queue, and for the push
\* of a retry: the message waits again, or is dead.
LEMMA WaitingAbout ==
    ASSUME NEW P, NEW max \in Nat \ {0}, NEW q \in Sorted(P, max), NEW Y, NEW X,
           About(P, max, X, Y)
    PROVE  /\ Waiting(q, X) \in Nat
           /\ \A p \in P : Waiting(PushMain(q, [payload |-> p, attempts |-> 0]), X)
                              = Waiting(q, X) + Bit(p \in Y)
           /\ q.main # <<>> => Waiting(Reserve(q), X) = Waiting(q, X)
           /\ q.processing # <<>> => Waiting(RecoverLast(q), X) = Waiting(q, X)
           /\ \A m \in Fresh(P, max) :
                /\ m.payload \notin Y => Waiting(RemoveReserved(q, m), X) = Waiting(q, X)
                /\ MovesToDLQ(m, max) =>
                      /\ PushRetried(q, m, max).main = q.main
                      /\ Waiting(PushRetried(q, m, max), X) = Waiting(q, X)
                /\ ~MovesToDLQ(m, max) =>
                      Waiting(PushRetried(q, m, max), X) = Waiting(q, X) + Bit(m.payload \in Y)
  <1> DEFINE M == Fresh(P, max)
             D == Spent(P, max)
  <1>1. q \in [main : Seq(M), processing : Seq(M), dlq : Seq(D)]
    BY DEF Sorted
  <1>2. \A p \in P : [payload |-> p, attempts |-> 0] \in M
    BY DEF Fresh
  <1>3. ASSUME NEW m \in M, ~MovesToDLQ(m, max)
        PROVE  /\ [m EXCEPT !.attempts = @ + 1] \in M
               /\ [m EXCEPT !.attempts = @ + 1].payload = m.payload
    BY <1>3 DEF MovesToDLQ, Fresh
  <1>4. \A m \in M : m \in X <=> m.payload \in Y
    BY DEF About
  <1> HIDE DEF M, D
  <1>5. /\ Waiting(q, X) \in Nat
        /\ \A m \in M : Waiting(PushMain(q, m), X) = Waiting(q, X) + Bit(m \in X)
        /\ q.main # <<>> => Waiting(Reserve(q), X) = Waiting(q, X)
        /\ q.processing # <<>> => Waiting(RecoverLast(q), X) = Waiting(q, X)
        /\ \A m : Waiting(RemoveReserved(q, m), X)
                     = Waiting(q, X) - Bit(Holds(q, m) /\ m \in X)
    BY <1>1, WaitingCommands
  <1>6. ASSUME NEW p \in P
        PROVE  Waiting(PushMain(q, [payload |-> p, attempts |-> 0]), X)
                  = Waiting(q, X) + Bit(p \in Y)
    <2>1. [payload |-> p, attempts |-> 0] \in X <=> p \in Y
      BY <1>2, <1>4
    <2>2. QED
      BY <1>2, <1>5, <2>1 DEF Bit
  <1>7. ASSUME NEW m \in M, m.payload \notin Y
        PROVE  Waiting(RemoveReserved(q, m), X) = Waiting(q, X)
    BY <1>4, <1>5, <1>7 DEF Bit
  <1>8. ASSUME NEW m \in M, MovesToDLQ(m, max)
        PROVE  /\ PushRetried(q, m, max).main = q.main
               /\ Waiting(PushRetried(q, m, max), X) = Waiting(q, X)
    BY <1>1, <1>8 DEF PushRetried, Waiting
  <1>9. ASSUME NEW m \in M, ~MovesToDLQ(m, max)
        PROVE  Waiting(PushRetried(q, m, max), X) = Waiting(q, X) + Bit(m.payload \in Y)
    <2> DEFINE retried == [m EXCEPT !.attempts = @ + 1]
    <2>1. PushRetried(q, m, max) = PushMain(q, retried)
      BY <1>9 DEF PushRetried
    <2>2. retried \in M /\ (retried \in X <=> m.payload \in Y)
      BY <1>3, <1>4, <1>9
    <2> HIDE DEF retried
    <2>3. QED
      BY <1>5, <2>1, <2>2 DEF Bit
  <1>10. QED
    BY <1>5, <1>6, <1>7, <1>8, <1>9 DEF M

-----------------------------------------------------------------------------
\* A list with a message of X in it has one at some position.
LEMMA CountedIsThere ==
    ASSUME NEW S, NEW s \in Seq(S), NEW X, Count(s, X) > 0
    PROVE  \E i \in DOMAIN s : s[i] \in X
  <1>1. Places(s, X) # {}
    <2>1. IsFiniteSet(Places(s, X)) /\ Cardinality(Places(s, X)) # 0
      BY PlacesFinite DEF Count
    <2>2. QED
      BY <2>1, FS_EmptySet
  <1>2. DOMAIN s = 1..Len(s)
    OBVIOUS
  <1>3. QED
    BY <1>1, <1>2 DEF Places

\* Dead letters stay, and a message out of attempts becomes one.
LEMMA DeadLettersGrow ==
    ASSUME NEW M, NEW D, NEW q \in [main : Seq(M), processing : Seq(M), dlq : Seq(D)],
           NEW d \in ToSet(q.dlq)
    PROVE  /\ d \in ToSet(Reserve(q).dlq)
           /\ d \in ToSet(RecoverLast(q).dlq)
           /\ \A m : d \in ToSet(PushMain(q, m).dlq) /\ d \in ToSet(RemoveReserved(q, m).dlq)
           /\ \A m, max : d \in ToSet(PushRetried(q, m, max).dlq)
  <1>1. ASSUME NEW m PROVE d \in ToSet(Append(q.dlq, m))
    BY DEF ToSet
  <1>2. \A m, max : \/ PushRetried(q, m, max).dlq = q.dlq
                    \/ \E n : PushRetried(q, m, max).dlq = Append(q.dlq, n)
    BY DEF PushRetried, PushMain
  <1>3. QED
    BY <1>1, <1>2 DEF Reserve, RecoverLast, PushMain, RemoveReserved

LEMMA SpentIsBuried ==
    ASSUME NEW P, NEW max \in Nat \ {0}, NEW q \in Sorted(P, max),
           NEW m \in Fresh(P, max), MovesToDLQ(m, max)
    PROVE  [payload |-> m.payload, attempts |-> max] \in ToSet(PushRetried(q, m, max).dlq)
  <1> DEFINE n == [m EXCEPT !.attempts = @ + 1]
  <1>1. n = [payload |-> m.payload, attempts |-> max]
    BY DEF MovesToDLQ, Fresh
  <1>2. PushRetried(q, m, max).dlq = Append(q.dlq, n) /\ q.dlq \in Seq(Spent(P, max))
    BY DEF PushRetried, Sorted
  <1> HIDE DEF n
  <1>3. n \in ToSet(Append(q.dlq, n))
    BY <1>2 DEF ToSet
  <1>4. QED
    BY <1>1, <1>2, <1>3

\* A message that is reserved waits.
LEMMA HeldWaits ==
    ASSUME NEW M, NEW D, NEW q \in [main : Seq(M), processing : Seq(M), dlq : Seq(D)],
           NEW X, NEW m \in X, Holds(q, m)
    PROVE  Waiting(q, X) > 0
  <1>1. /\ IsFiniteSet(Places(q.processing, X))
        /\ Count(q.main, X) \in Nat /\ Count(q.processing, X) \in Nat
    BY PlacesFinite
  <1>2. Places(q.processing, X) # {}
    BY DEF Holds, Contains, Places
  <1>3. Count(q.processing, X) # 0
    BY <1>1, <1>2, FS_EmptySet DEF Count
  <1>4. QED
    BY <1>1, <1>3 DEF Waiting

\* A consumer that is alone reserves into an empty list, and empties it again.
LEMMA OneReservation ==
    ASSUME NEW M, NEW D, NEW q \in [main : Seq(M), processing : Seq(M), dlq : Seq(D)]
    PROVE  /\ q.main # <<>> /\ q.processing = <<>> =>
                Reserve(q).processing = <<ReservedMessage(q)>>
           /\ \A m \in M : q.processing = <<m>> =>
                /\ Holds(q, m)
                /\ RemoveReserved(q, m).processing = <<>>
           /\ \A m : PushMain(q, m).processing = q.processing
           /\ \A m, max : PushRetried(q, m, max).processing = q.processing
  <1>1. ASSUME q.main # <<>>, q.processing = <<>>
        PROVE  Reserve(q).processing = <<ReservedMessage(q)>>
    <2>1. Reserve(q).processing = Cons(ReservedMessage(q), <<>>)
      BY <1>1 DEF Reserve
    <2>2. ReservedMessage(q) \in M
      BY <1>1, FrontProperties DEF ReservedMessage
    <2>3. QED
      BY <2>1, <2>2 DEF Cons
  <1>2. ASSUME NEW m \in M, q.processing = <<m>>
        PROVE  Holds(q, m) /\ RemoveReserved(q, m).processing = <<>>
    <2>1. <<m>> \in Seq(M) /\ Len(<<m>>) = 1 /\ <<m>>[1] = m
      OBVIOUS
    <2>2. Contains(<<m>>, m)
      BY <2>1 DEF Contains
    <2>3. /\ RemoveFirst(<<m>>, m) \in Seq(M)
          /\ \E k \in 1..Len(<<m>>) : WithoutEntry(RemoveFirst(<<m>>, m), <<m>>, k)
      BY <2>1, <2>2, RemoveFirstProperties
    <2>4. Len(RemoveFirst(<<m>>, m)) = 0
      BY <2>1, <2>3 DEF WithoutEntry
    <2>5. RemoveFirst(<<m>>, m) = <<>>
      BY <2>3, <2>4, EmptySeq
    <2>6. QED
      BY <1>2, <2>2, <2>5 DEF Holds, RemoveReserved
  <1>3. \A m : PushMain(q, m).processing = q.processing
    BY DEF PushMain
  <1>4. \A m, max : PushRetried(q, m, max).processing = q.processing
    BY DEF PushRetried, PushMain
  <1>5. QED
    BY <1>1, <1>2, <1>3, <1>4

\* A message that was reserved, or removed, or pushed again, makes its list another one.
LEMMA CommandsChange ==
    ASSUME NEW M, NEW D, NEW q \in [main : Seq(M), processing : Seq(M), dlq : Seq(D)]
    PROVE  /\ q.main # <<>> =>
                /\ Holds(Reserve(q), ReservedMessage(q))
                /\ Reserve(q).processing # q.processing
           /\ \A m \in M : Holds(q, m) => RemoveReserved(q, m).processing # q.processing
           /\ \A m, max : ~MovesToDLQ(m, max) => PushRetried(q, m, max).main # q.main
  <1>1. ASSUME q.main # <<>>
        PROVE  /\ Holds(Reserve(q), ReservedMessage(q))
               /\ Reserve(q).processing # q.processing
    <2> DEFINE r == Cons(ReservedMessage(q), q.processing)
    <2>1. Reserve(q).processing = r
      BY DEF Reserve
    <2>2. ReservedMessage(q) \in M
      BY <1>1, FrontProperties DEF ReservedMessage
    <2>3. /\ r \in Seq(M)
          /\ Len(r) = Len(q.processing) + 1
          /\ r[1] = ReservedMessage(q)
      BY <2>2, ConsProperties
    <2> HIDE DEF r
    <2>4. Len(q.processing) \in Nat
      OBVIOUS
    <2>5. 1 \in 1..Len(r) /\ Len(r) # Len(q.processing)
      BY <2>3, <2>4
    <2>6. QED
      BY <2>1, <2>3, <2>5 DEF Holds, Contains
  <1>2. ASSUME NEW m \in M, Holds(q, m)
        PROVE  RemoveReserved(q, m).processing # q.processing
    <2>1. Len(RemoveFirst(q.processing, m)) = Len(q.processing) - 1
      BY <1>2, RemoveFirstProperties DEF Holds, WithoutEntry
    <2>2. Len(q.processing) \in Nat
      OBVIOUS
    <2>3. Len(RemoveFirst(q.processing, m)) # Len(q.processing)
      BY <2>1, <2>2
    <2>4. QED
      BY <2>3 DEF RemoveReserved
  <1>3. ASSUME NEW m, NEW max, ~MovesToDLQ(m, max)
        PROVE  PushRetried(q, m, max).main # q.main
    <2> DEFINE n == [m EXCEPT !.attempts = @ + 1]
    <2>1. PushRetried(q, m, max).main = Append(q.main, n)
      BY <1>3 DEF PushRetried, PushMain
    <2> HIDE DEF n
    <2>2. Len(Append(q.main, n)) = Len(q.main) + 1 /\ Len(q.main) \in Nat
      OBVIOUS
    <2>3. Len(Append(q.main, n)) # Len(q.main)
      BY <2>2
    <2>4. QED
      BY <2>1, <2>3
  <1>4. QED
    BY <1>1, <1>2, <1>3

=============================================================================
