----------------------------- MODULE QueueLemmas -----------------------------
(***************************************************************************)
(* What the proofs about the sessions need to know of queues: handing the  *)
(* head of one over to the end of another, as poll() does, and counting    *)
(* the elements of a kind that a log, or a queue of several producers,     *)
(* holds.  A kind is a set of elements, so that no lemma has an operator   *)
(* for a parameter.                                                        *)
(***************************************************************************)
EXTENDS Integers, Sequences, FiniteSets, SequenceTheorems, FunctionTheorems,
        FiniteSetTheorems, TLAPS

-----------------------------------------------------------------------------
(* Two queues seen as one.                                                 *)

\* Handing the head of one queue over to the end of another changes nothing
\* in the two of them together.
LEMMA HandOver ==
  ASSUME NEW S, NEW p \in Seq(S), NEW q \in Seq(S), q # <<>>
  PROVE  Append(p, Head(q)) \o Tail(q) = p \o q
<1>1. /\ Head(q) \in S /\ Tail(q) \in Seq(S) /\ Len(Tail(q)) = Len(q) - 1
      /\ \A i \in 1..Len(Tail(q)) : Tail(q)[i] = q[i + 1]
  BY HeadTailProperties
<1>2. Head(q) = q[1]
  OBVIOUS
<1>3. Len(p) \in Nat /\ Len(q) \in Nat /\ Len(q) > 0
  BY LenProperties, EmptySeq
<1> DEFINE pp == Append(p, Head(q))
<1>4. /\ pp \in Seq(S) /\ Len(pp) = Len(p) + 1
      /\ \A i \in 1..Len(p) : pp[i] = p[i]
      /\ pp[Len(p) + 1] = q[1]
  BY <1>1, <1>2, AppendProperties
<1> HIDE DEF pp
<1> DEFINE qq == Tail(q)
<1>5. /\ qq \in Seq(S) /\ Len(qq) = Len(q) - 1 /\ \A i \in 1..(Len(q) - 1) : qq[i] = q[i + 1]
  BY <1>1
<1> HIDE DEF qq
<1>6. /\ pp \o qq \in Seq(S) /\ Len(pp \o qq) = Len(pp) + Len(qq)
      /\ \A i \in 1..(Len(pp) + Len(qq)) :
           (pp \o qq)[i] = IF i <= Len(pp) THEN pp[i] ELSE qq[i - Len(pp)]
  BY <1>4, <1>5, ConcatProperties
<1>7. /\ p \o q \in Seq(S) /\ Len(p \o q) = Len(p) + Len(q)
      /\ \A i \in 1..(Len(p) + Len(q)) :
           (p \o q)[i] = IF i <= Len(p) THEN p[i] ELSE q[i - Len(p)]
  BY ConcatProperties
<1>8. Len(pp \o qq) = Len(p \o q)
  BY <1>3, <1>4, <1>5, <1>6, <1>7
<1>9. ASSUME NEW i \in 1..Len(p \o q)
      PROVE  (pp \o qq)[i] = (p \o q)[i]
  <2>0. i \in Nat /\ 1 <= i /\ i <= Len(p) + Len(q)
    BY <1>3, <1>7
  <2>1. CASE i <= Len(p)
    <3>1. (pp \o qq)[i] = pp[i] /\ pp[i] = p[i]
      BY <1>3, <1>4, <1>5, <1>6, <2>0, <2>1
    <3> QED
      BY <1>3, <1>7, <2>0, <2>1, <3>1
  <2>2. CASE i = Len(p) + 1
    <3>1. (pp \o qq)[i] = pp[i]
      BY <1>3, <1>4, <1>5, <1>6, <2>0, <2>2
    <3>2. (p \o q)[i] = q[1]
      BY <1>3, <1>7, <2>0, <2>2
    <3> QED
      BY <1>4, <2>2, <3>1, <3>2
  <2>3. CASE i > Len(p) + 1
    <3>1. (pp \o qq)[i] = qq[i - (Len(p) + 1)]
      BY <1>3, <1>4, <1>5, <1>6, <2>0, <2>3
    <3>2. i - (Len(p) + 1) \in 1..(Len(q) - 1)
      BY <1>3, <2>0, <2>3
    <3>3. qq[i - (Len(p) + 1)] = q[(i - (Len(p) + 1)) + 1]
      BY <1>5, <3>2
    <3>4. (i - (Len(p) + 1)) + 1 = i - Len(p)
      BY <1>3, <2>0
    <3>5. (p \o q)[i] = q[i - Len(p)]
      BY <1>3, <1>7, <2>0, <2>3
    <3> QED
      BY <3>1, <3>3, <3>4, <3>5
  <2>4. i <= Len(p) \/ i = Len(p) + 1 \/ i > Len(p) + 1
    BY <1>3, <2>0
  <2> QED
    BY <2>1, <2>2, <2>3, <2>4
<1>10. pp \o qq = p \o q
  BY <1>6, <1>7, <1>8, <1>9, SeqEqual
<1> QED
  BY <1>10 DEF pp, qq

LEMMA AppendToConcat ==
  ASSUME NEW S, NEW p \in Seq(S), NEW q \in Seq(S), NEW f \in S
  PROVE  p \o Append(q, f) = Append(p \o q, f)
<1> DEFINE ff == <<f>>
           r == p \o q
<1>1. Append(q, f) = q \o ff /\ ff \in Seq(S)
  BY AppendIsConcat
<1>2. r \in Seq(S)
  BY ConcatProperties
<1>3. Append(r, f) = r \o ff
  BY <1>2, AppendIsConcat
<1> HIDE DEF ff
<1>4. r \o ff = p \o (q \o ff)
  BY <1>1, ConcatAssociative
<1> QED
  BY <1>1, <1>3, <1>4

-----------------------------------------------------------------------------
(* Counting.                                                               *)

\* How many elements of s are in T.
NumIn(s, T) == Cardinality({i \in 1..Len(s) : s[i] \in T})

\* Appending e to a sequence adds one to the number of its elements that are
\* in T if e is, and nothing otherwise.
LEMMA CountAppend ==
  ASSUME NEW S, NEW s \in Seq(S), NEW e \in S, NEW T
  PROVE  /\ NumIn(s, T) \in Nat
         /\ NumIn(Append(s, e), T) = NumIn(s, T) + (IF e \in T THEN 1 ELSE 0)
<1> DEFINE n == Len(s)
           a == Append(s, e)
           I == {i \in 1..n : s[i] \in T}
           J == {i \in 1..Len(a) : a[i] \in T}
<1>1. n \in Nat
  BY LenProperties
<1>2. Len(a) = n + 1 /\ (\A i \in 1..n : a[i] = s[i]) /\ a[n + 1] = e
  BY AppendProperties
<1>3. IsFiniteSet(1..n)
  BY <1>1, FS_Interval
<1>4. IsFiniteSet(I)
  BY <1>3, FS_Subset
<1>5. Cardinality(I) \in Nat
  BY <1>4, FS_CardinalityType
<1>8. NumIn(s, T) = Cardinality(I) /\ NumIn(a, T) = Cardinality(J)
  BY DEF NumIn
<1> HIDE DEF n, a
<1>6. CASE e \in T
  <2>1. J = I \cup {n + 1}
    BY <1>1, <1>2, <1>6
  <2>2. n + 1 \notin I
    BY <1>1
  <2>3. Cardinality(J) = Cardinality(I) + 1
    BY <1>4, <2>1, <2>2, FS_AddElement
  <2> HIDE DEF I, J
  <2> QED
    BY <1>5, <1>6, <1>8, <2>3 DEF a
<1>7. CASE e \notin T
  <2>1. J = I
    BY <1>1, <1>2, <1>7
  <2> HIDE DEF I, J
  <2> QED
    BY <1>5, <1>7, <1>8, <2>1 DEF a
<1> QED
  BY <1>6, <1>7

\* The elements that a family q of queues, one for each member of H, holds of T:
\* the queue and the position of each.
Places(q, H, T) ==
  {p \in H \X (Nat \ {0}) : p[2] <= Len(q[p[1]]) /\ q[p[1]][p[2]] \in T}

\* B is finite and has k elements more than A.
Larger(B, A, k) ==
  /\ IsFiniteSet(B)
  /\ Cardinality(A) \in Nat /\ Cardinality(B) \in Nat
  /\ Cardinality(B) = Cardinality(A) + k

\* Appending e to one of the queues adds its place if e is in T.
LEMMA PutPlace ==
  ASSUME NEW H, NEW S, NEW q \in [H -> Seq(S)], NEW h \in H, NEW e \in S, NEW T,
         IsFiniteSet(Places(q, H, T))
  PROVE  Larger(Places([q EXCEPT ![h] = Append(@, e)], H, T), Places(q, H, T),
                IF e \in T THEN 1 ELSE 0)
<1> DEFINE r == [q EXCEPT ![h] = Append(@, e)]
           P == Places(q, H, T)
           R == Places(r, H, T)
           n == Len(q[h])
<1>1. q[h] \in Seq(S) /\ n \in Nat
  BY LenProperties
<1>2. r[h] = Append(q[h], e) /\ \A g \in H \ {h} : r[g] = q[g]
  OBVIOUS
<1>3. Len(r[h]) = n + 1 /\ (\A i \in 1..n : r[h][i] = q[h][i]) /\ r[h][n + 1] = e
  BY <1>1, <1>2, AppendProperties
<1>4. Cardinality(P) \in Nat
  BY FS_CardinalityType
<1>5. <<h, n + 1>> \notin P
  BY <1>1 DEF Places
<1>6. ASSUME NEW p \in H \X (Nat \ {0})
      PROVE  p \in R <=> p \in P \/ (p = <<h, n + 1>> /\ e \in T)
  <2> PICK g \in H, i \in Nat \ {0} : p = <<g, i>>
    OBVIOUS
  <2> HIDE DEF n
  <2>1. CASE g # h
    BY <1>2, <2>1 DEF Places
  <2>2. CASE g = h /\ i \in 1..n
    BY <1>1, <1>3, <2>2 DEF Places, n
  <2>3. CASE g = h /\ i = n + 1
    BY <1>1, <1>3, <1>5, <2>3 DEF Places
  <2>4. CASE g = h /\ i > n + 1
    BY <1>1, <1>3, <2>4 DEF Places, n
  <2> QED
    BY <1>1, <2>1, <2>2, <2>3, <2>4
<1>7. P \subseteq H \X (Nat \ {0}) /\ R \subseteq H \X (Nat \ {0})
  BY DEF Places
<1>8. <<h, n + 1>> \in H \X (Nat \ {0})
  BY <1>1
<1> HIDE DEF P, R, n
<1>9. CASE e \in T
  <2>1. R = P \cup {<<h, n + 1>>}
    BY <1>6, <1>7, <1>8, <1>9
  <2>2. IsFiniteSet(R) /\ Cardinality(R) = Cardinality(P) + 1
    BY <1>5, <2>1, FS_AddElement DEF P
  <2> QED
    BY <1>4, <1>9, <2>2 DEF P, R, r, Larger
<1>10. CASE e \notin T
  <2>1. R = P
    BY <1>6, <1>7, <1>10
  <2> QED
    BY <1>4, <1>10, <2>1 DEF P, R, r, Larger
<1> QED
  BY <1>9, <1>10

\* Taking the head of one of the queues removes its place if it is in T; the
\* places behind it move up.
LEMMA TakePlace ==
  ASSUME NEW H, NEW S, NEW q \in [H -> Seq(S)], NEW h \in H, q[h] # <<>>, NEW T,
         IsFiniteSet(Places(q, H, T))
  PROVE  /\ IsFiniteSet(Places([q EXCEPT ![h] = Tail(@)], H, T))
         /\ Larger(Places(q, H, T), Places([q EXCEPT ![h] = Tail(@)], H, T),
                   IF Head(q[h]) \in T THEN 1 ELSE 0)
<1> DEFINE r == [q EXCEPT ![h] = Tail(@)]
           P == Places(q, H, T)
           R == Places(r, H, T)
           B == P \ {<<h, 1>>}
           n == Len(q[h])
<1>1. q[h] \in Seq(S) /\ n \in Nat /\ n > 0
  BY LenProperties, EmptySeq
<1>2. r[h] = Tail(q[h]) /\ \A g \in H \ {h} : r[g] = q[g]
  OBVIOUS
<1>3. /\ Len(r[h]) = n - 1 /\ \A i \in 1..(n - 1) : r[h][i] = q[h][i + 1]
      /\ Head(q[h]) = q[h][1]
  BY <1>1, <1>2, HeadTailProperties
<1>4. <<h, 1>> \in P <=> Head(q[h]) \in T
  BY <1>1, <1>3 DEF Places
<1>5. IsFiniteSet(P) /\ Cardinality(P) \in Nat
  BY FS_CardinalityType
<1>6. /\ IsFiniteSet(B)
      /\ Cardinality(B) = IF <<h, 1>> \in P THEN Cardinality(P) - 1 ELSE Cardinality(P)
  BY <1>5, FS_RemoveElement
<1> DEFINE f == [p \in B |-> IF p[1] = h THEN <<h, p[2] - 1>> ELSE p]
<1>7. \A p \in B : /\ p \in H \X (Nat \ {0}) /\ p = <<p[1], p[2]>>
                   /\ p[1] = h => p[2] > 1 /\ p[2] <= n /\ q[h][p[2]] \in T
                   /\ p[1] # h => p \in R
  BY <1>2 DEF Places
<1>8. f \in [B -> R]
  <2> SUFFICES ASSUME NEW p \in B
               PROVE  (IF p[1] = h THEN <<h, p[2] - 1>> ELSE p) \in R
    OBVIOUS
  <2>1. CASE p[1] = h
    <3>1. p[2] - 1 \in 1..(n - 1) /\ (p[2] - 1) + 1 = p[2]
      BY <1>1, <1>7, <2>1
    <3>2. r[h][p[2] - 1] = q[h][p[2]]
      BY <1>3, <3>1
    <3>3. <<h, p[2] - 1>> \in R
      BY <1>1, <1>3, <1>7, <2>1, <3>1, <3>2 DEF Places
    <3> QED
      BY <2>1, <3>3
  <2>2. CASE p[1] # h
    BY <1>7, <2>2
  <2> QED
    BY <2>1, <2>2
<1>9. \A a, b \in B : f[a] = f[b] => a = b
  <2> SUFFICES ASSUME NEW a \in B, NEW b \in B, f[a] = f[b]
               PROVE  a = b
    OBVIOUS
  <2> HIDE DEF B, n
  <2>1. f[a][1] = a[1] /\ f[b][1] = b[1]
    BY <1>7
  <2>2. a[1] = b[1]
    BY <2>1
  <2>3. CASE a[1] = h
    <3>1. f[a] = <<h, a[2] - 1>> /\ f[b] = <<h, b[2] - 1>>
      BY <2>2, <2>3
    <3>2. a[2] - 1 = b[2] - 1
      BY <3>1
    <3>3. a[2] = b[2]
      BY <1>7, <3>2
    <3> QED
      BY <1>7, <2>2, <3>3
  <2>4. CASE a[1] # h
    BY <2>2, <2>4
  <2> QED
    BY <2>3, <2>4
<1>10. \A t \in R : \E p \in B : f[p] = t
  <2> SUFFICES ASSUME NEW t \in R
               PROVE  \E p \in B : f[p] = t
    OBVIOUS
  <2>1. t \in H \X (Nat \ {0}) /\ t[2] <= Len(r[t[1]]) /\ r[t[1]][t[2]] \in T
    BY DEF Places
  <2>2. t = <<t[1], t[2]>> /\ t[1] \in H /\ t[2] \in Nat \ {0}
    BY <2>1
  <2>3. CASE t[1] = h
    <3> DEFINE p == <<h, t[2] + 1>>
    <3>1. t[2] \in 1..(n - 1)
      BY <1>1, <1>3, <2>1, <2>2, <2>3
    <3>2. q[h][t[2] + 1] \in T
      BY <1>3, <2>1, <2>3, <3>1
    <3>3. p \in B
      BY <1>1, <2>2, <3>1, <3>2 DEF Places
    <3>4. (t[2] + 1) - 1 = t[2]
      BY <2>2
    <3>5. f[p] = <<h, t[2]>>
      BY <3>3, <3>4
    <3> QED
      BY <2>2, <2>3, <3>3, <3>5
  <2>4. CASE t[1] # h
    <3>1. t \in B
      BY <1>2, <2>1, <2>2, <2>4 DEF Places
    <3> QED
      BY <2>4, <3>1
  <2> QED
    BY <2>3, <2>4
<1>11. f \in Bijection(B, R)
  BY <1>8, <1>9, <1>10, Fun_IsBij
<1>12. IsFiniteSet(R) /\ Cardinality(R) = Cardinality(B)
  <2> HIDE DEF f, B, R
  <2>1. ExistsBijection(B, R)
    BY <1>11, Fun_ExistsBij
  <2> QED
    BY <1>6, <2>1, FS_Bijection
<1>13. Cardinality(R) \in Nat
  BY <1>12, FS_CardinalityType
<1> HIDE DEF P, R, B
<1> QED
  BY <1>4, <1>5, <1>6, <1>12, <1>13 DEF P, R, r, Larger

=============================================================================
