--------------------------- MODULE ThreadsProofs ---------------------------
(***************************************************************************)
(* Facts about the ULT layer of Threads, for the proofs about the objects  *)
(* that are built on it.  The layer has an inductive invariant of its own, *)
(* which every object whose waiters are woken by set_ready only keeps; what *)
(* an object has to contribute is that it wakes nobody but a ULT that is   *)
(* BLOCKED.                                                                *)
(***************************************************************************)
EXTENDS Threads, SequencesExt, SequenceTheorems, FiniteSetTheorems, TLAPS

\* An ES whose scheduler is at its loop has no ULT; a ULT that executes is RUNNING,
\* or BLOCKED when it is about to switch back.
RunningOK ==
  \A e \in Xstream :
    /\ phase[e] # "cancel"
    /\ phase[e] = "sched" => running[e] = NoThread
    /\ phase[e] = "ult" => state[running[e]] \in {"RUNNING", "BLOCKED"}
    /\ running[e] # NoThread /\ state[running[e]] = "BLOCKED"
         => "BLOCK" \in request[running[e]]

\* The BLOCK request is there from when the ULT becomes BLOCKED until the scheduler
\* of the ES on whose stack it was has seen it.
BlockOK ==
  \A u \in Thread : "BLOCK" \in request[u] =>
    state[u] = "BLOCKED" /\ \E e \in Xstream : running[e] = u

\* A ULT that has ended, or wants to, comes back neither from a queue nor a pool.
StopOK ==
  \A u \in Thread : request[u] \cap Stop # {} =>
    /\ state[u] # "BLOCKED" /\ ~InPool(u)
    /\ \A e \in Xstream : running[e] = u => phase[e] = "ret"

\* What holds between any two steps: no ULT is on two ESs, in two places of the
\* pools, or in a pool while an ES is on its stack; one that is in a pool is
\* READY, and one that runs and is BLOCKED still has the BLOCK request that
\* set_ready waits for.
LayerInv ==
  /\ ThreadsTypeOK
  /\ OneRunner
  /\ SavedBeforePush
  /\ QueuedOnce
  /\ \A u \in Thread : InPool(u) => state[u] = "READY"
  /\ RunningOK /\ BlockOK /\ StopOK

(***************************************************************************)
(* Queues in which nobody waits twice.                                     *)
(***************************************************************************)

\* Appending an element that is not in an injective sequence.
LEMMA AppendContains ==
  ASSUME NEW S, NEW s \in Seq(S), IsInjective(s), NEW x \in S, ~Contains(s, x)
  PROVE  /\ Append(s, x) \in Seq(S) /\ Append(s, x) # <<>>
         /\ IsInjective(Append(s, x))
         /\ \A y : Contains(Append(s, x), y) <=> Contains(s, y) \/ y = x
<1> DEFINE t == Append(s, x)
           n == Len(s) + 1
<1>1. /\ t \in Seq(S) /\ Len(s) \in Nat /\ DOMAIN s = 1 .. n - 1
      /\ Len(t) = n /\ DOMAIN t = 1 .. n
      /\ t[n] = x /\ \A i \in 1 .. n - 1 : t[i] = s[i]
  BY AppendProperties, LenProperties
<1> HIDE DEF t
<1>2. t # <<>>
  BY <1>1, EmptySeq
<1>3. ASSUME NEW i \in 1 .. n PROVE i = n \/ i \in 1 .. n - 1
  BY <1>1
<1>4. IsInjective(t)
  <2> SUFFICES ASSUME NEW i \in 1 .. n, NEW j \in 1 .. n, t[i] = t[j] PROVE i = j
    BY <1>1 DEF IsInjective
  <2>1. \A k \in 1 .. n - 1 : s[k] # x
    BY DEF Contains
  <2>2. CASE i = n /\ j \in 1 .. n - 1 BY <2>1, <2>2, <1>1
  <2>3. CASE j = n /\ i \in 1 .. n - 1 BY <2>1, <2>3, <1>1
  <2>4. CASE i \in 1 .. n - 1 /\ j \in 1 .. n - 1 BY <2>4, <1>1 DEF IsInjective
  <2> QED BY <1>3, <2>2, <2>3, <2>4
<1>5. ASSUME NEW y PROVE Contains(t, y) <=> Contains(s, y) \/ y = x
  <2>1. n \in 1 .. n /\ \A i \in 1 .. n - 1 : i \in 1 .. n
    BY <1>1
  <2> QED BY <2>1, <1>1, <1>3 DEF Contains
<1> QED
  BY <1>1, <1>2, <1>4, <1>5 DEF t

\* The head of an injective sequence and the rest of it.
LEMMA TailContains ==
  ASSUME NEW S, NEW s \in Seq(S), IsInjective(s), s # <<>>
  PROVE  /\ Tail(s) \in Seq(S) /\ IsInjective(Tail(s))
         /\ Head(s) \in S /\ Contains(s, Head(s)) /\ ~Contains(Tail(s), Head(s))
         /\ \A y : Contains(s, y) <=> Contains(Tail(s), y) \/ y = Head(s)
<1>1. /\ Tail(s) \in Seq(S) /\ Head(s) \in S /\ Head(s) = s[1]
      /\ Len(s) \in Nat /\ Len(s) > 0 /\ DOMAIN s = 1 .. Len(s)
      /\ Len(Tail(s)) = Len(s) - 1 /\ DOMAIN Tail(s) = 1 .. Len(s) - 1
      /\ \A i \in 1 .. Len(s) - 1 : Tail(s)[i] = s[i + 1]
  BY HeadTailProperties, LenProperties, EmptySeq
<1> DEFINE t == Tail(s)
           x == Head(s)
           n == Len(s)
<1> HIDE DEF t, x, n
<1>2. /\ n \in Nat /\ n > 0 /\ x = s[1] /\ DOMAIN s = 1 .. n /\ DOMAIN t = 1 .. n - 1
      /\ Len(t) = n - 1 /\ Len(s) = n /\ \A i \in 1 .. n - 1 : t[i] = s[i + 1]
  BY <1>1 DEF t, x, n
<1>3. IsInjective(t)
  <2> SUFFICES ASSUME NEW i \in 1 .. n - 1, NEW j \in 1 .. n - 1, t[i] = t[j] PROVE i = j
    BY <1>2 DEF IsInjective
  <2>1. i + 1 \in 1 .. n /\ j + 1 \in 1 .. n /\ s[i + 1] = s[j + 1]
    BY <1>2
  <2>2. \A a, b \in 1 .. n : s[a] = s[b] => a = b
    BY <1>2 DEF IsInjective
  <2>3. i + 1 = j + 1
    BY <2>1, <2>2
  <2> QED BY <2>3, <1>2
<1>4. Contains(s, x)
  BY <1>2 DEF Contains
<1>5. ~Contains(t, x)
  <2> SUFFICES ASSUME NEW i \in 1 .. n - 1, t[i] = x PROVE FALSE
    BY <1>2 DEF Contains
  <2>1. i + 1 \in 1 .. n /\ 1 \in 1 .. n /\ s[i + 1] = s[1]
    BY <1>2
  <2>2. i + 1 = 1
    BY <2>1, <1>2 DEF IsInjective
  <2> QED BY <2>2
<1>6. ASSUME NEW y PROVE Contains(s, y) <=> Contains(t, y) \/ y = x
  <2>1. ASSUME NEW i \in 1 .. n, s[i] = y, y # x PROVE Contains(t, y)
    <3>1. i # 1 /\ i - 1 \in 1 .. n - 1
      BY <2>1, <1>2
    <3>2. t[i - 1] = s[i]
      BY <3>1, <1>2
    <3> QED BY <2>1, <3>1, <3>2, <1>2 DEF Contains
  <2>2. ASSUME NEW i \in 1 .. n - 1, t[i] = y PROVE Contains(s, y)
    <3>1. i + 1 \in 1 .. n /\ s[i + 1] = y
      BY <2>2, <1>2
    <3> QED BY <3>1, <1>2 DEF Contains
  <2>3. Contains(s, y) => \E i \in 1 .. n : s[i] = y
    BY <1>2 DEF Contains
  <2>4. Contains(t, y) => \E i \in 1 .. n - 1 : t[i] = y
    BY <1>2 DEF Contains
  <2> QED BY <2>1, <2>2, <2>3, <2>4, <1>4
<1> QED
  BY <1>1, <1>3, <1>4, <1>5, <1>6 DEF t, x

\* The first of the elements of a sequence that equal x, when there is only one.
LEMMA OneIndex ==
  ASSUME NEW s, NEW k \in 1 .. Len(s), \A i \in 1 .. Len(s) : s[i] = s[k] => i = k
  PROVE  RemoveFirst(s, s[k]) = RemoveAt(s, k)
<1>1. {i \in 1 .. Len(s) : s[i] = s[k]} = {k}
  OBVIOUS
<1>2. Min({k}) = k
  BY DEF Min
<1>3. SelectInSeq(s, LAMBDA v : v = s[k]) = k
  BY <1>1, <1>2 DEF SelectInSeq
<1> QED
  BY <1>3 DEF RemoveFirst

\* What is left of a sequence without its k-th element.
LEMMA RemoveAtElements ==
  ASSUME NEW S, NEW s \in Seq(S), NEW k \in 1 .. Len(s)
  PROVE  /\ RemoveAt(s, k) \in Seq(S) /\ Len(RemoveAt(s, k)) = Len(s) - 1
         /\ \A i \in 1 .. Len(s) - 1 :
              RemoveAt(s, k)[i] = IF i < k THEN s[i] ELSE s[i + 1]
<1>0. PICK n \in Nat : n = Len(s)
  BY LenProperties
<1>10. PICK t : t = RemoveAt(s, k)
  OBVIOUS
<1> DEFINE l == SubSeq(s, 1, k - 1)
           r == SubSeq(s, k + 1, n)
<1>1. \A i \in 1 .. n : s[i] \in S
  BY <1>0, ElementOfSeq
<1>2. /\ l \in Seq(S)
      /\ Len(l) = IF 1 <= k - 1 THEN k - 1 - 1 + 1 ELSE 0
      /\ \A i \in 1 .. k - 1 - 1 + 1 : l[i] = s[1 + i - 1]
  <2>1. \A i \in 1 .. k - 1 : s[i] \in S
    BY <1>1, <1>0
  <2> QED BY <2>1, SubSeqProperties, <1>0
<1>3. /\ r \in Seq(S)
      /\ Len(r) = IF k + 1 <= n THEN n - (k + 1) + 1 ELSE 0
      /\ \A i \in 1 .. n - (k + 1) + 1 : r[i] = s[k + 1 + i - 1]
  <2>1. \A i \in k + 1 .. n : s[i] \in S
    BY <1>1, <1>0
  <2> QED BY <2>1, SubSeqProperties, <1>0
<1>4. t = l \o r
  BY <1>0, <1>10 DEF RemoveAt
<1> HIDE DEF l, r
<1>5. /\ t \in Seq(S) /\ Len(t) = Len(l) + Len(r)
      /\ \A i \in 1 .. Len(l) + Len(r) : t[i] = IF i <= Len(l) THEN l[i] ELSE r[i - Len(l)]
  <2>1. /\ l \o r \in Seq(S) /\ Len(l \o r) = Len(l) + Len(r)
        /\ \A i \in 1 .. Len(l) + Len(r) :
             (l \o r)[i] = IF i <= Len(l) THEN l[i] ELSE r[i - Len(l)]
    BY <1>2, <1>3, ConcatProperties
  <2> QED BY <2>1, <1>4, Zenon
<1>6. Len(l) = k - 1
  <2>1. Len(l) = IF 1 <= k - 1 THEN k - 1 - 1 + 1 ELSE 0
    BY <1>2
  <2> QED BY <2>1, <1>0
<1>7. Len(r) = n - k
  <2>1. Len(r) = IF k + 1 <= n THEN n - (k + 1) + 1 ELSE 0
    BY <1>3
  <2> QED BY <2>1, <1>0
<1>8. Len(t) = n - 1
  <2>1. Len(t) = Len(l) + Len(r)
    BY <1>5
  <2> QED BY <2>1, <1>6, <1>7, <1>0
<1>9. ASSUME NEW i \in 1 .. n - 1 PROVE t[i] = IF i < k THEN s[i] ELSE s[i + 1]
  <2>1. i \in 1 .. Len(l) + Len(r)
    BY <1>6, <1>7, <1>0
  <2>2. t[i] = IF i <= Len(l) THEN l[i] ELSE r[i - Len(l)]
    BY <2>1, <1>5
  <2>3. CASE i < k
    <3>1. i <= Len(l) /\ i \in 1 .. k - 1 - 1 + 1 /\ 1 + i - 1 = i
      BY <2>3, <1>6, <1>0
    <3>2. l[i] = s[1 + i - 1]
      BY <3>1, <1>2
    <3> QED BY <2>2, <2>3, <3>1, <3>2
  <2>4. CASE ~(i < k)
    <3> DEFINE j == i - (k - 1)
    <3>1. /\ ~(i <= Len(l)) /\ j = i - Len(l)
          /\ j \in 1 .. n - (k + 1) + 1 /\ k + 1 + j - 1 = i + 1
      BY <2>4, <1>6, <1>0
    <3>2. r[j] = s[k + 1 + j - 1]
      BY <3>1, <1>3
    <3> HIDE DEF j
    <3>3. t[i] = r[j] /\ r[j] = s[i + 1]
      <4>1. t[i] = r[i - Len(l)]
        BY <2>2, <3>1, Zenon
      <4> QED BY <4>1, <3>1, <3>2, Zenon
    <3> QED BY <2>4, <3>3
  <2> QED BY <2>3, <2>4
<1> QED
  BY <1>0, <1>10, <1>5, <1>8, <1>9

\* Unlinking the only element of an injective sequence that equals x.
LEMMA RemoveContains ==
  ASSUME NEW S, NEW s \in Seq(S), IsInjective(s), NEW x
  PROVE  /\ RemoveFirst(s, x) \in Seq(S) /\ IsInjective(RemoveFirst(s, x))
         /\ \A y : Contains(RemoveFirst(s, x), y) <=> Contains(s, y) /\ y # x
         /\ RemoveFirst(s, x) = <<>> => s \in {<<>>, <<x>>}
<1>1. CASE ~Contains(s, x)
  <2>1. ~\E i \in 1 .. Len(s) : s[i] = x
    BY <1>1 DEF Contains
  <2>2. RemoveFirst(s, x) = s
    BY <2>1, Zenon DEF RemoveFirst
  <2> QED BY <1>1, <2>2
<1>2. CASE Contains(s, x)
  <2>1. PICK n : n = Len(s)
    OBVIOUS
  <2>2. n \in Nat /\ DOMAIN s = 1 .. n
    BY <2>1, LenProperties
  <2>3. PICK k \in 1 .. n : s[k] = x
    BY <1>2, <2>1 DEF Contains
  <2>4. PICK t : t = RemoveAt(s, k)
    OBVIOUS
  <2>5. RemoveFirst(s, x) = t
    <3>1. \A i \in 1 .. n : s[i] = s[k] => i = k
      BY <2>2, <2>3 DEF IsInjective
    <3>2. RemoveFirst(s, s[k]) = RemoveAt(s, k)
      BY <2>1, <3>1, OneIndex
    <3> QED BY <2>1, <2>3, <2>4, <3>2
  <2>6. /\ t \in Seq(S) /\ Len(t) = n - 1 /\ DOMAIN t = 1 .. n - 1
        /\ \A i \in 1 .. n - 1 : t[i] = IF i < k THEN s[i] ELSE s[i + 1]
    <3>1. /\ t \in Seq(S) /\ Len(t) = n - 1
          /\ \A i \in 1 .. n - 1 : t[i] = IF i < k THEN s[i] ELSE s[i + 1]
      BY <2>1, <2>4, RemoveAtElements
    <3>2. DOMAIN t = 1 .. Len(t)
      BY <3>1, LenProperties
    <3> QED BY <3>1, <3>2
  \* The element that follows k and all after it move down by one.
  <2> DEFINE At(i) == IF i < k THEN i ELSE i + 1
  <2>7. \A i \in 1 .. n - 1 : At(i) \in 1 .. n /\ At(i) # k /\ t[i] = s[At(i)]
    BY <2>2, <2>6
  <2>8. \A i, j \in 1 .. n - 1 : At(i) = At(j) => i = j
    BY <2>2
  <2>9. \A m \in 1 .. n : m # k => \E i \in 1 .. n - 1 : At(i) = m
    <3> SUFFICES ASSUME NEW m \in 1 .. n, m # k PROVE \E i \in 1 .. n - 1 : At(i) = m
      OBVIOUS
    <3>1. CASE m < k
      <4>1. m \in 1 .. n - 1 /\ At(m) = m BY <3>1, <2>2
      <4> QED BY <4>1
    <3>2. CASE m > k
      <4>1. m - 1 \in 1 .. n - 1 /\ At(m - 1) = m BY <3>2, <2>2
      <4> QED BY <4>1
    <3> QED BY <3>1, <3>2, <2>2
  <2> HIDE DEF At
  <2>10. IsInjective(t)
    <3> SUFFICES ASSUME NEW i \in 1 .. n - 1, NEW j \in 1 .. n - 1, t[i] = t[j] PROVE i = j
      BY <2>6 DEF IsInjective
    <3>1. At(i) = At(j)
      BY <2>2, <2>7 DEF IsInjective
    <3> QED BY <3>1, <2>8
  <2>11. ASSUME NEW y PROVE Contains(t, y) <=> Contains(s, y) /\ y # x
    <3>1. Contains(t, y) <=> \E i \in 1 .. n - 1 : t[i] = y
      BY <2>6 DEF Contains
    <3>2. Contains(s, y) <=> \E m \in 1 .. n : s[m] = y
      BY <2>1 DEF Contains
    <3>3. \A m \in 1 .. n : s[m] = x => m = k
      BY <2>2, <2>3 DEF IsInjective
    <3> QED BY <3>1, <3>2, <3>3, <2>3, <2>7, <2>9
  <2>12. ASSUME t = <<>> PROVE s = <<x>>
    <3>1. Len(t) = 0
      BY <2>12, EmptySeq
    <3>2. n = 1 /\ k = 1
      BY <3>1, <2>2, <2>6
    <3>3. /\ <<x>> \in Seq({x} \cup S) /\ Len(<<x>>) = 1 /\ <<x>>[1] = x
          /\ s \in Seq({x} \cup S)
      BY <2>1, <3>2, LenProperties, ElementOfSeq
    <3> QED BY <3>2, <3>3, <2>1, <2>3, LenProperties
  <2> QED BY <2>5, <2>6, <2>10, <2>11, <2>12
<1> QED
  BY <1>1, <1>2

(***************************************************************************)
(* Sets of ULTs, of which there are finitely many.                        *)
(***************************************************************************)

\* The size of a set of ULTs that one of them enters, and of one that it leaves.
LEMMA CountAdd ==
  ASSUME NEW S \in SUBSET Thread, NEW u \in Thread
  PROVE  /\ Cardinality(S) \in Nat
         /\ u \notin S => Cardinality(S \cup {u}) = Cardinality(S) + 1
         /\ u \in S => Cardinality(S \ {u}) = Cardinality(S) - 1
<1>1. IsFiniteSet(S)
  BY ThreadsAssumption, FS_Subset
<1>2. Cardinality(S) \in Nat
  BY <1>1, FS_CardinalityType
<1>3. u \notin S => Cardinality(S \cup {u}) = Cardinality(S) + 1
  BY <1>1, FS_AddElement
<1>4. u \in S => Cardinality(S \ {u}) = Cardinality(S) - 1
  BY <1>1, FS_RemoveElement
<1> QED
  BY <1>2, <1>3, <1>4

\* The same of one set of ULTs and the next: t enters it, or leaves it, in the pools for
\* which c holds.
LEMMA CountNext ==
  ASSUME NEW S \in SUBSET Thread, NEW T, NEW t \in Thread, NEW c \in BOOLEAN
  PROVE  /\ Cardinality(S) \in Nat
         /\ T = S => Cardinality(T) = Cardinality(S)
         /\ t \notin S /\ T = (IF c THEN S \cup {t} ELSE S) =>
              Cardinality(T) = Cardinality(S) + (IF c THEN 1 ELSE 0)
         /\ (c => t \in S) /\ T = (IF c THEN S \ {t} ELSE S) =>
              Cardinality(T) = Cardinality(S) - (IF c THEN 1 ELSE 0)
<1> PICK n : n = Cardinality(S)
  OBVIOUS
<1>1. /\ n \in Nat
      /\ t \notin S => Cardinality(S \cup {t}) = n + 1
      /\ t \in S => Cardinality(S \ {t}) = n - 1
  BY CountAdd
<1>2. CASE c BY <1>1, <1>2
<1>3. CASE ~c BY <1>1, <1>3
<1> QED
  BY <1>2, <1>3

(***************************************************************************)
(* The pools.                                                              *)
(***************************************************************************)

\* Every unit is in its home pool.
AtHome == \A p \in Pool : \A i \in DOMAIN pool[p] : HomePool[pool[p][i]] = p

\* Pushing a ULT to its pool adds that ULT and nothing else.
LEMMA PushAdds ==
  ASSUME pool \in [Pool -> Seq(Thread)], NEW u \in Thread, Push(u)
  PROVE  /\ pool' \in [Pool -> Seq(Thread)]
         /\ InPool(u)'
         /\ \A v \in Thread : v # u => (InPool(v)' <=> InPool(v))
         /\ QueuedOnce /\ ~InPool(u) => QueuedOnce'
         /\ AtHome => AtHome'
<1> DEFINE h == HomePool[u]
           n == Len(pool[h]) + 1
<1>1. h \in Pool /\ pool[h] \in Seq(Thread)
  BY ThreadsAssumption
<1>2. /\ Append(pool[h], u) \in Seq(Thread)
      /\ Len(pool[h]) \in Nat
      /\ DOMAIN Append(pool[h], u) = 1 .. n /\ DOMAIN pool[h] = 1 .. n - 1
      /\ n \in 1 .. n /\ Append(pool[h], u)[n] = u
      /\ \A i \in 1 .. n - 1 : Append(pool[h], u)[i] = pool[h][i]
  BY <1>1, AppendProperties, LenProperties
<1>3. /\ pool' \in [Pool -> Seq(Thread)]
      /\ pool'[h] = Append(pool[h], u)
      /\ \A p \in Pool : p # h => pool'[p] = pool[p]
  BY <1>1, <1>2 DEF Push
<1> HIDE DEF h, n
<1>4. InPool(u)'
  BY <1>1, <1>2, <1>3 DEF InPool
<1>5. ASSUME NEW v \in Thread, v # u PROVE InPool(v)' <=> InPool(v)
  <2>1. ASSUME NEW p \in Pool
        PROVE  (\E i \in DOMAIN pool'[p] : pool'[p][i] = v)
                 <=> (\E i \in DOMAIN pool[p] : pool[p][i] = v)
    <3>1. CASE p # h BY <3>1, <1>3
    <3>2. CASE p = h
      <4>1. ASSUME NEW i \in DOMAIN pool'[p], pool'[p][i] = v PROVE i \in DOMAIN pool[p]
        BY <4>1, <3>2, <1>5, <1>2, <1>3
      <4>2. \A i \in DOMAIN pool[p] : i \in DOMAIN pool'[p] /\ pool'[p][i] = pool[p][i]
        BY <3>2, <1>2, <1>3
      <4> QED BY <4>1, <4>2
    <3> QED BY <3>1, <3>2
  <2> QED BY <2>1 DEF InPool
<1>6. ASSUME QueuedOnce, ~InPool(u) PROVE QueuedOnce'
  <2> SUFFICES ASSUME NEW p \in Pool, NEW q \in Pool, NEW i \in DOMAIN pool'[p],
                      NEW j \in DOMAIN pool'[q], pool'[p][i] = pool'[q][j]
               PROVE  p = q /\ i = j
    BY DEF QueuedOnce
  <2>1. ASSUME NEW r \in Pool, NEW k \in DOMAIN pool'[r]
        PROVE  \/ r = h /\ k = n /\ pool'[r][k] = u
               \/ k \in DOMAIN pool[r] /\ pool'[r][k] = pool[r][k] /\ pool[r][k] # u
    <3>1. CASE r # h BY <3>1, <1>3, <1>6 DEF InPool
    <3>2. CASE r = h
      <4>1. k \in 1 .. n
        BY <3>2, <1>2, <1>3
      <4>2. CASE k = n BY <3>2, <4>2, <1>2, <1>3
      <4>3. CASE k # n
        <5>1. k \in 1 .. n - 1
          BY <4>1, <4>3, <1>2
        <5> QED BY <5>1, <3>2, <1>1, <1>2, <1>3, <1>6 DEF InPool
      <4> QED BY <4>2, <4>3
    <3> QED BY <3>1, <3>2
  <2> QED BY <2>1, <1>6 DEF QueuedOnce
<1>7. ASSUME AtHome PROVE AtHome'
  <2> SUFFICES ASSUME NEW p \in Pool, NEW i \in DOMAIN pool'[p] PROVE HomePool[pool'[p][i]] = p
    BY DEF AtHome
  <2>1. CASE p # h BY <2>1, <1>3, <1>7 DEF AtHome
  <2>2. CASE p = h /\ i = n BY <2>2, <1>2, <1>3 DEF h
  <2>3. CASE p = h /\ i # n
    <3>1. i \in DOMAIN pool[p] /\ pool'[p][i] = pool[p][i]
      BY <2>3, <1>2, <1>3
    <3> QED BY <3>1, <1>7 DEF AtHome
  <2> QED BY <2>1, <2>2, <2>3
<1> QED
  BY <1>3, <1>4, <1>5, <1>6, <1>7

\* Popping removes the head and nothing else.
LEMMA PopRemoves ==
  ASSUME pool \in [Pool -> Seq(Thread)], QueuedOnce, NEW p \in Pool, pool[p] # <<>>,
         NEW u, u = Head(pool[p]), pool' = [pool EXCEPT ![p] = Tail(@)]
  PROVE  /\ pool' \in [Pool -> Seq(Thread)]
         /\ u \in Thread /\ InPool(u) /\ ~InPool(u)'
         /\ \A v \in Thread : InPool(v)' => InPool(v)
         /\ QueuedOnce'
         /\ AtHome => HomePool[u] = p /\ AtHome'
<1> DEFINE s == pool[p]
<1>1. s \in Seq(Thread) /\ s # <<>>
  OBVIOUS
<1>2. /\ Tail(s) \in Seq(Thread) /\ Head(s) \in Thread /\ Head(s) = s[1]
      /\ Len(s) \in Nat /\ Len(s) > 0 /\ DOMAIN s = 1 .. Len(s)
      /\ DOMAIN Tail(s) = 1 .. Len(s) - 1
      /\ \A i \in 1 .. Len(s) - 1 : Tail(s)[i] = s[i + 1]
  BY <1>1, HeadTailProperties, LenProperties, EmptySeq
<1>3. /\ pool' \in [Pool -> Seq(Thread)]
      /\ pool'[p] = Tail(s)
      /\ \A q \in Pool : q # p => pool'[q] = pool[q]
  BY <1>2
<1> HIDE DEF s
<1>4. ASSUME NEW q \in Pool, NEW i \in DOMAIN pool'[q]
      PROVE  \E j \in DOMAIN pool[q] : /\ pool'[q][i] = pool[q][j]
                                       /\ j = IF q = p THEN i + 1 ELSE i
  <2>1. CASE q = p
    <3>1. i + 1 \in DOMAIN s /\ pool'[q][i] = s[i + 1]
      BY <2>1, <1>2, <1>3
    <3> QED BY <3>1, <2>1 DEF s
  <2>2. CASE q # p BY <2>2, <1>3
  <2> QED BY <2>1, <2>2
<1>5. \A v \in Thread : InPool(v)' => InPool(v)
  BY <1>4 DEF InPool
<1>6. 1 \in DOMAIN pool[p] /\ pool[p][1] = u
  BY <1>2 DEF s
<1>7. ~InPool(u)'
  <2> SUFFICES ASSUME NEW q \in Pool, NEW i \in DOMAIN pool'[q], pool'[q][i] = u
               PROVE  FALSE
    BY DEF InPool
  <2>1. PICK j \in DOMAIN pool[q] : pool'[q][i] = pool[q][j] /\ j = IF q = p THEN i + 1 ELSE i
    BY <1>4
  <2>2. q = p /\ j = 1
    BY <2>1, <1>6 DEF QueuedOnce
  <2>3. i \in 1 .. Len(s) - 1
    BY <2>2, <1>2, <1>3
  <2> QED BY <2>1, <2>2, <2>3, <1>2
<1>8. QueuedOnce'
  <2> SUFFICES ASSUME NEW q \in Pool, NEW r \in Pool, NEW i \in DOMAIN pool'[q],
                      NEW k \in DOMAIN pool'[r], pool'[q][i] = pool'[r][k]
               PROVE  q = r /\ i = k
    BY DEF QueuedOnce
  <2>1. PICK j \in DOMAIN pool[q] : pool'[q][i] = pool[q][j] /\ j = IF q = p THEN i + 1 ELSE i
    BY <1>4
  <2>2. PICK m \in DOMAIN pool[r] : pool'[r][k] = pool[r][m] /\ m = IF r = p THEN k + 1 ELSE k
    BY <1>4
  <2>3. q = r /\ j = m
    BY <2>1, <2>2 DEF QueuedOnce
  <2>4. CASE q = p
    <3>1. i \in Int /\ k \in Int
      BY <2>3, <2>4, <1>2, <1>3
    <3> QED BY <3>1, <2>1, <2>2, <2>3, <2>4
  <2>5. CASE q # p BY <2>1, <2>2, <2>3, <2>5
  <2> QED BY <2>3, <2>4, <2>5
<1>9. ASSUME AtHome PROVE HomePool[u] = p /\ AtHome'
  <2>1. HomePool[u] = p
    BY <1>6, <1>9 DEF AtHome
  <2>2. AtHome'
    <3> SUFFICES ASSUME NEW q \in Pool, NEW i \in DOMAIN pool'[q] PROVE HomePool[pool'[q][i]] = q
      BY DEF AtHome
    <3>1. PICK j \in DOMAIN pool[q] : pool'[q][i] = pool[q][j]
      BY <1>4
    <3> QED BY <3>1, <1>9 DEF AtHome
  <2> QED BY <2>1, <2>2
<1> QED
  <2>1. u \in Thread /\ InPool(u)
    BY <1>2, <1>6 DEF s, InPool
  <2> QED BY <2>1, <1>2, <1>3, <1>5, <1>7, <1>8, <1>9

\* Sequences of units, of which none is there twice.
LEMMA UnitsOnce ==
  ASSUME NEW f \in [Pool -> Seq(Thread)]
  PROVE  /\ \A v : (\E p \in Pool : \E i \in DOMAIN f[p] : f[p][i] = v)
                     <=> \E p \in Pool : Contains(f[p], v)
         /\ (\A p, q \in Pool : \A i \in DOMAIN f[p], j \in DOMAIN f[q] :
               f[p][i] = f[q][j] => p = q /\ i = j)
             <=> /\ \A p \in Pool : IsInjective(f[p])
                 /\ \A p, q \in Pool : \A v \in Thread :
                      Contains(f[p], v) /\ Contains(f[q], v) => p = q
         /\ (\A p \in Pool : \A i \in DOMAIN f[p] : HomePool[f[p][i]] = p)
             <=> \A p \in Pool : \A v \in Thread : Contains(f[p], v) => HomePool[v] = p
<1>1. \A p \in Pool : DOMAIN f[p] = 1 .. Len(f[p])
  BY LenProperties
<1>2. \A p \in Pool : \A i \in DOMAIN f[p] : f[p][i] \in Thread
  BY <1>1, ElementOfSeq
<1>3. \A v : \A p \in Pool : Contains(f[p], v) <=> \E i \in DOMAIN f[p] : f[p][i] = v
  BY <1>1 DEF Contains
<1>4. \A p \in Pool : IsInjective(f[p]) <=>
        \A i, j \in DOMAIN f[p] : f[p][i] = f[p][j] => i = j
  BY DEF IsInjective
<1>5. \A v : (\E p \in Pool : \E i \in DOMAIN f[p] : f[p][i] = v)
             <=> \E p \in Pool : Contains(f[p], v)
  BY <1>3
<1>6. (\A p \in Pool : \A i \in DOMAIN f[p] : HomePool[f[p][i]] = p)
        <=> \A p \in Pool : \A v \in Thread : Contains(f[p], v) => HomePool[v] = p
  BY <1>2, <1>3
<1>7. ASSUME \A p, q \in Pool : \A i \in DOMAIN f[p], j \in DOMAIN f[q] :
               f[p][i] = f[q][j] => p = q /\ i = j
      PROVE  /\ \A p \in Pool : IsInjective(f[p])
             /\ \A p, q \in Pool : \A v \in Thread : Contains(f[p], v) /\ Contains(f[q], v) => p = q
  BY <1>3, <1>4, <1>7
<1>8. ASSUME \A p \in Pool : IsInjective(f[p]),
             \A p, q \in Pool : \A v \in Thread : Contains(f[p], v) /\ Contains(f[q], v) => p = q
      PROVE  \A p, q \in Pool : \A i \in DOMAIN f[p], j \in DOMAIN f[q] :
               f[p][i] = f[q][j] => p = q /\ i = j
  <2> SUFFICES ASSUME NEW p \in Pool, NEW q \in Pool, NEW i \in DOMAIN f[p],
                      NEW j \in DOMAIN f[q], f[p][i] = f[q][j]
               PROVE  p = q /\ i = j
    OBVIOUS
  <2>1. p = q
    BY <1>2, <1>3, <1>8
  <2> QED BY <2>1, <1>4, <1>8
<1> QED
  BY <1>5, <1>6, <1>7, <1>8

\* A unit leaves its pool.
LEMMA UnitLeaves ==
  ASSUME pool \in [Pool -> Seq(Thread)], QueuedOnce, AtHome, NEW p \in Pool, NEW u \in Thread,
         Contains(pool[p], u), NEW s \in Seq(Thread), IsInjective(s),
         \A y : Contains(s, y) <=> Contains(pool[p], y) /\ y # u,
         pool' = [pool EXCEPT ![p] = s]
  PROVE  /\ pool' \in [Pool -> Seq(Thread)]
         /\ InPool(u) /\ HomePool[u] = p
         /\ \A v \in Thread : InPool(v)' <=> InPool(v) /\ v # u
         /\ QueuedOnce' /\ AtHome'
<1>1. pool' \in [Pool -> Seq(Thread)] /\ pool'[p] = s /\ \A q \in Pool : q # p => pool'[q] = pool[q]
  OBVIOUS
<1>2. /\ \A v : InPool(v) <=> \E q \in Pool : Contains(pool[q], v)
      /\ \A q \in Pool : IsInjective(pool[q])
      /\ \A q, r \in Pool : \A v \in Thread : Contains(pool[q], v) /\ Contains(pool[r], v) => q = r
      /\ \A q \in Pool : \A v \in Thread : Contains(pool[q], v) => HomePool[v] = q
  BY UnitsOnce DEF InPool, QueuedOnce, AtHome
<1>3. /\ \A v : InPool(v)' <=> \E q \in Pool : Contains(pool'[q], v)
      /\ QueuedOnce' <=> /\ \A q \in Pool : IsInjective(pool'[q])
                         /\ \A q, r \in Pool : \A v \in Thread :
                              Contains(pool'[q], v) /\ Contains(pool'[r], v) => q = r
      /\ AtHome' <=> \A q \in Pool : \A v \in Thread : Contains(pool'[q], v) => HomePool[v] = q
  BY <1>1, UnitsOnce DEF InPool, QueuedOnce, AtHome
<1>4. \A q \in Pool, v \in Thread : Contains(pool'[q], v) <=> Contains(pool[q], v) /\ v # u
  BY <1>1, <1>2
<1>5. \A q \in Pool : IsInjective(pool'[q])
  BY <1>1, <1>2
<1> QED
  BY <1>1, <1>2, <1>3, <1>4, <1>5

\* The head of a pool is popped.
LEMMA PopLeaves ==
  ASSUME pool \in [Pool -> Seq(Thread)], QueuedOnce, AtHome, NEW p \in Pool, pool[p] # <<>>,
         NEW u, u = Head(pool[p]), pool' = [pool EXCEPT ![p] = Tail(@)]
  PROVE  /\ u \in Thread /\ pool' \in [Pool -> Seq(Thread)]
         /\ InPool(u) /\ HomePool[u] = p
         /\ \A v \in Thread : InPool(v)' <=> InPool(v) /\ v # u
         /\ QueuedOnce' /\ AtHome'
<1>1. PICK s : s = Tail(pool[p])
  OBVIOUS
<1>2. IsInjective(pool[p])
  BY UnitsOnce DEF QueuedOnce
<1>3. /\ s \in Seq(Thread) /\ IsInjective(s) /\ u \in Thread
      /\ Contains(pool[p], u) /\ ~Contains(s, u)
      /\ \A y : Contains(pool[p], y) <=> Contains(s, y) \/ y = u
  BY <1>1, <1>2, TailContains
<1>4. pool' = [pool EXCEPT ![p] = s]
  BY <1>1
<1>5. \A y : Contains(s, y) <=> Contains(pool[p], y) /\ y # u
  BY <1>3
<1> QED
  BY <1>3, <1>4, <1>5, UnitLeaves

\* A unit is taken out of its pool, wherever it is there.
LEMMA TakeLeaves ==
  ASSUME pool \in [Pool -> Seq(Thread)], QueuedOnce, AtHome, NEW u \in Thread, InPool(u),
         pool' = [pool EXCEPT ![HomePool[u]] = RemoveFirst(@, u)]
  PROVE  /\ pool' \in [Pool -> Seq(Thread)]
         /\ \A v \in Thread : InPool(v)' <=> InPool(v) /\ v # u
         /\ QueuedOnce' /\ AtHome'
<1>1. PICK p \in Pool : p = HomePool[u]
  BY ThreadsAssumption
<1>2. PICK s : s = RemoveFirst(pool[p], u)
  OBVIOUS
<1>3. IsInjective(pool[p]) /\ Contains(pool[p], u)
  <2>1. \E q \in Pool : Contains(pool[q], u)
    BY UnitsOnce DEF InPool
  <2>2. \A q \in Pool : Contains(pool[q], u) => HomePool[u] = q
    BY UnitsOnce DEF AtHome
  <2>3. \A q \in Pool : IsInjective(pool[q])
    BY UnitsOnce DEF QueuedOnce
  <2> QED BY <1>1, <2>1, <2>2, <2>3
<1>4. /\ s \in Seq(Thread) /\ IsInjective(s)
      /\ \A y : Contains(s, y) <=> Contains(pool[p], y) /\ y # u
  BY <1>2, <1>3, RemoveContains
<1>5. pool' = [pool EXCEPT ![p] = s]
  BY <1>1, <1>2
<1> QED
  BY <1>3, <1>4, <1>5, UnitLeaves

(***************************************************************************)
(* What the ULTs do.                                                       *)
(***************************************************************************)

\* The layer starts in its invariant.
LEMMA LayerInit ==
  ASSUME ThreadsInit
  PROVE  LayerInv
BY ThreadsAssumption
   DEF ThreadsInit, LayerInv, ThreadsTypeOK, OneRunner, SavedBeforePush, QueuedOnce, InPool,
       RunningOK, BlockOK, StopOK, ThreadState, Phase

\* A step of an object that does not touch the layer keeps it.
LEMMA LayerUnchanged ==
  ASSUME LayerInv, UNCHANGED threadVars
  PROVE  LayerInv'
BY DEF LayerInv, threadVars, ThreadsTypeOK, OneRunner, SavedBeforePush, QueuedOnce, InPool,
       RunningOK, BlockOK, StopOK

\* set_blocked, by the ULT itself.
LEMMA LayerBlocks ==
  ASSUME LayerInv, NEW u \in Thread, NEW e \in Xstream, On(u, e), SetBlocked(u),
         UNCHANGED <<lastES, pool, running, phase>>
  PROVE  LayerInv'
<1> USE DEF LayerInv
<1>1. ~InPool(u) /\ request[u] \cap Stop = {}
  BY DEF On, SavedBeforePush, StopOK, ThreadsTypeOK
<1>2. HomePool[u] \in Pool /\ numBlocked[HomePool[u]] \in Int
  BY ThreadsAssumption DEF ThreadsTypeOK
<1>3. /\ request' = [request EXCEPT ![u] = request[u] \cup {"BLOCK"}]
      /\ state' = [state EXCEPT ![u] = "BLOCKED"]
      /\ numBlocked' = [numBlocked EXCEPT ![HomePool[u]] = @ + 1]
  BY DEF SetBlocked
<1>4. ThreadsTypeOK'
  BY <1>2, <1>3 DEF ThreadsTypeOK, ThreadState, Request
<1>5. \A v \in Thread : InPool(v)' <=> InPool(v)
  BY DEF InPool
<1>6. OneRunner' /\ SavedBeforePush' /\ QueuedOnce'
  BY DEF OneRunner, SavedBeforePush, QueuedOnce, InPool
<1>7. \A v \in Thread : InPool(v)' => state'[v] = "READY"
  BY <1>1, <1>3, <1>5 DEF ThreadsTypeOK
<1>8. RunningOK' /\ BlockOK'
  BY <1>3 DEF RunningOK, BlockOK, On, ThreadsTypeOK
<1>9. StopOK'
  BY <1>1, <1>3, <1>5 DEF StopOK, ThreadsTypeOK, Stop
<1> QED
  BY <1>4, <1>6, <1>7, <1>8, <1>9

\* The switch from a ULT to the scheduler.
LEMMA LayerSwitches ==
  ASSUME LayerInv, NEW u \in Thread, NEW e \in Xstream, On(u, e), SwitchToSched(e),
         UNCHANGED <<state, request, lastES, pool, numBlocked, running>>
  PROVE  LayerInv'
<1>1. \A v \in Thread : InPool(v)' <=> InPool(v)
  BY DEF InPool
<1> QED
  BY <1>1 DEF LayerInv, On, SwitchToSched, ThreadsTypeOK, OneRunner, SavedBeforePush, QueuedOnce,
              InPool, RunningOK, BlockOK, StopOK, Phase

\* The yield of a ULT that is not blocked.
LEMMA LayerYields ==
  ASSUME LayerInv, NEW u \in Thread, NEW e \in Xstream, On(u, e), state[u] # "BLOCKED",
         YieldThread(u, e)
  PROVE  LayerInv'
<1> USE DEF LayerInv, YieldThread, SwitchToSched
<1>1. \A v \in Thread : InPool(v)' <=> InPool(v)
  BY DEF InPool
<1>2. ThreadsTypeOK'
  BY DEF On, ThreadsTypeOK, ThreadState, Phase
<1>3. OneRunner' /\ SavedBeforePush' /\ QueuedOnce'
  BY DEF OneRunner, SavedBeforePush, QueuedOnce, InPool
<1>4. \A v \in Thread : InPool(v)' => state'[v] = "READY"
  BY <1>1 DEF ThreadsTypeOK
<1>5. RunningOK' /\ BlockOK'
  BY DEF RunningOK, BlockOK, On, OneRunner, ThreadsTypeOK
<1>6. StopOK'
  BY <1>1 DEF StopOK, On, ThreadsTypeOK
<1> QED
  BY <1>2, <1>3, <1>4, <1>5, <1>6

\* The end of a ULT that is not blocked.
LEMMA LayerEnds ==
  ASSUME LayerInv, NEW u \in Thread, NEW e \in Xstream, On(u, e), state[u] # "BLOCKED",
         NEW bits \in SUBSET {"JOIN", "TERMINATE"},
         request' = [request EXCEPT ![u] = @ \cup bits], SwitchToSched(e),
         UNCHANGED <<state, lastES, pool, numBlocked, running>>
  PROVE  LayerInv'
<1> USE DEF LayerInv, SwitchToSched
<1>1. \A v \in Thread : InPool(v)' <=> InPool(v)
  BY DEF InPool
<1>2. ThreadsTypeOK'
  BY DEF On, ThreadsTypeOK, Request, Phase
<1>3. OneRunner' /\ SavedBeforePush' /\ QueuedOnce'
  BY DEF OneRunner, SavedBeforePush, QueuedOnce, InPool
<1>4. RunningOK' /\ BlockOK'
  BY DEF RunningOK, BlockOK, On, ThreadsTypeOK
<1>5. ~InPool(u)
  BY DEF On, SavedBeforePush, ThreadsTypeOK
<1>6. StopOK'
  BY <1>1, <1>5 DEF StopOK, On, OneRunner, ThreadsTypeOK
<1> QED
  BY <1>1, <1>2, <1>3, <1>4, <1>6

\* set_ready, for a ULT that is BLOCKED and whose scheduler has seen that.
LEMMA LayerWakes ==
  ASSUME LayerInv, NEW u \in Thread, state[u] = "BLOCKED", CanSetReady(u), MakeReady(u),
         UNCHANGED <<request, lastES, numBlocked, running, phase>>
  PROVE  LayerInv'
<1> USE DEF LayerInv
<1>1. u # NoThread
  BY ThreadsAssumption
<1>2. /\ ~InPool(u) /\ request[u] \cap Stop = {}
      /\ \A e \in Xstream : running[e] # u
  BY <1>1 DEF StopOK, RunningOK, CanSetReady
<1>3. Push(u) /\ state' = [state EXCEPT ![u] = "READY"]
  BY DEF MakeReady
<1>4. /\ pool' \in [Pool -> Seq(Thread)] /\ QueuedOnce'
      /\ InPool(u)' /\ \A v \in Thread : v # u => (InPool(v)' <=> InPool(v))
  BY <1>2, <1>3, PushAdds DEF ThreadsTypeOK
<1>5. ThreadsTypeOK'
  BY <1>3, <1>4 DEF ThreadsTypeOK, ThreadState
<1>6. OneRunner' /\ SavedBeforePush'
  BY <1>2, <1>4 DEF OneRunner, SavedBeforePush, ThreadsTypeOK
<1>7. \A v \in Thread : InPool(v)' => state'[v] = "READY"
  BY <1>3, <1>4 DEF ThreadsTypeOK
<1>8. RunningOK'
  BY <1>1, <1>2, <1>3 DEF RunningOK, ThreadsTypeOK
<1>9. BlockOK' /\ StopOK'
  BY <1>2, <1>3, <1>4 DEF BlockOK, StopOK, CanSetReady, ThreadsTypeOK
<1> QED
  BY <1>4, <1>5, <1>6, <1>7, <1>8, <1>9

\* The count of the pool of a ULT that was woken.
LEMMA LayerCounts ==
  ASSUME LayerInv, NEW u \in Thread, DecNumBlocked(u),
         UNCHANGED <<state, request, lastES, pool, running, phase>>
  PROVE  LayerInv'
<1>1. HomePool[u] \in Pool
  BY ThreadsAssumption
<1>2. ThreadsTypeOK'
  BY <1>1 DEF LayerInv, ThreadsTypeOK, DecNumBlocked
<1> QED
  BY <1>2 DEF LayerInv, OneRunner, SavedBeforePush, QueuedOnce, InPool, RunningOK, BlockOK, StopOK

(***************************************************************************)
(* What a scheduler does.                                                  *)
(***************************************************************************)

\* Running the next unit.
LEMMA LayerRuns ==
  ASSUME LayerInv, NEW e \in Xstream, SchedRun(e)
  PROVE  LayerInv'
<1> USE DEF LayerInv
<1>1. PICK p \in Pool :
        /\ phase[e] = "sched" /\ NextPool(e, p)
        /\ running' = [running EXCEPT ![e] = Head(pool[p])]
        /\ state' = [state EXCEPT ![Head(pool[p])] = "RUNNING"]
        /\ lastES' = [lastES EXCEPT ![Head(pool[p])] = e]
        /\ pool' = [pool EXCEPT ![p] = Tail(@)]
        /\ phase' = [phase EXCEPT ![e] = "ult"]
        /\ UNCHANGED <<request, numBlocked>>
  BY Zenon DEF SchedRun
<1>2. PICK u : u = Head(pool[p])
  OBVIOUS
<1>3. pool[p] # <<>>
  BY <1>1 DEF NextPool
<1>4. /\ pool' \in [Pool -> Seq(Thread)] /\ QueuedOnce'
      /\ u \in Thread /\ InPool(u) /\ ~InPool(u)'
      /\ \A v \in Thread : InPool(v)' => InPool(v)
  BY <1>1, <1>2, <1>3, PopRemoves DEF ThreadsTypeOK
<1>5. /\ state[u] = "READY" /\ u # NoThread
      /\ "BLOCK" \notin request[u] /\ request[u] \cap Stop = {}
      /\ \A f \in Xstream : running[f] # u
  <2>1. state[u] = "READY" /\ u # NoThread
    BY <1>4, ThreadsAssumption
  <2>2. "BLOCK" \notin request[u]
    BY <2>1, <1>4 DEF BlockOK
  <2>3. request[u] \cap Stop = {}
    BY <1>4 DEF StopOK
  <2>4. \A f \in Xstream : running[f] # u
    BY <2>1, <1>4 DEF SavedBeforePush
  <2> QED BY <2>1, <2>2, <2>3, <2>4
<1>6. ThreadsTypeOK'
  BY <1>1, <1>2, <1>4, <1>5 DEF ThreadsTypeOK, ThreadState, Phase
<1>7. OneRunner' /\ SavedBeforePush'
  BY <1>1, <1>2, <1>4, <1>5 DEF OneRunner, SavedBeforePush, ThreadsTypeOK
<1>8. \A v \in Thread : InPool(v)' => state'[v] = "READY"
  BY <1>1, <1>2, <1>4 DEF ThreadsTypeOK
<1>9. RunningOK'
  BY <1>1, <1>2, <1>4, <1>5 DEF RunningOK, ThreadsTypeOK
<1>10. BlockOK'
  <2>1. /\ request' = request
        /\ \A v \in Thread : v # u => state'[v] = state[v]
    BY <1>1, <1>2, <1>4 DEF ThreadsTypeOK
  <2>2. \A f \in Xstream : f # e => running'[f] = running[f]
    BY <1>1 DEF ThreadsTypeOK
  <2>3. ASSUME NEW v \in Thread, "BLOCK" \in request[v]
        PROVE  state[v] = "BLOCKED" /\ v # u /\ v # NoThread
               /\ \E f \in Xstream : running[f] = v
    BY <1>5, <2>3, ThreadsAssumption DEF BlockOK
  <2>4. running[e] = NoThread
    BY <1>1 DEF RunningOK
  <2> QED
    BY <2>1, <2>2, <2>3, <2>4 DEF BlockOK
<1>11. StopOK'
  BY <1>1, <1>2, <1>4, <1>5 DEF StopOK, ThreadsTypeOK
<1> QED
  BY <1>4, <1>6, <1>7, <1>8, <1>9, <1>10, <1>11

\* Ending the ULT that has switched back.
LEMMA LayerTerminated ==
  ASSUME LayerInv, NEW e \in Xstream, ReturnTerminated(e)
  PROVE  LayerInv'
<1> USE DEF LayerInv, ReturnTerminated, BackToSched
<1>1. PICK u : u = running[e]
  OBVIOUS
<1>2. /\ u \in Thread /\ u # NoThread /\ ~InPool(u)
      /\ \A f \in Xstream : running[f] = u => f = e
  BY <1>1, ThreadsAssumption DEF ThreadsTypeOK, OneRunner, SavedBeforePush
<1>3. state[u] # "BLOCKED" /\ "BLOCK" \notin request[u]
  BY <1>1, <1>2 DEF StopOK, BlockOK
<1>4. \A v \in Thread : InPool(v)' <=> InPool(v)
  BY DEF InPool
<1>5. ThreadsTypeOK'
  BY <1>1, <1>2 DEF ThreadsTypeOK, ThreadState, Phase
<1>6. OneRunner' /\ SavedBeforePush' /\ QueuedOnce'
  BY DEF OneRunner, SavedBeforePush, QueuedOnce, InPool, ThreadsTypeOK
<1>7. \A v \in Thread : InPool(v)' => state'[v] = "READY"
  BY <1>1, <1>2, <1>4 DEF ThreadsTypeOK
<1>8. RunningOK' /\ BlockOK'
  BY <1>1, <1>2, <1>3 DEF RunningOK, BlockOK, ThreadsTypeOK
<1>9. StopOK'
  BY ThreadsAssumption, <1>1, <1>2, <1>4 DEF StopOK, ThreadsTypeOK
<1> QED
  BY <1>5, <1>6, <1>7, <1>8, <1>9

\* Pushing the ULT that has yielded.
LEMMA LayerYielded ==
  ASSUME LayerInv, NEW e \in Xstream, ReturnYielded(e)
  PROVE  LayerInv'
<1> USE DEF LayerInv, ReturnYielded, GoesOn, BackToSched, MakeReady
<1>1. PICK u : u = running[e]
  OBVIOUS
<1>2. /\ u \in Thread /\ u # NoThread /\ ~InPool(u)
      /\ \A f \in Xstream : running[f] = u => f = e
  BY <1>1, ThreadsAssumption DEF ThreadsTypeOK, OneRunner, SavedBeforePush
<1>3. "BLOCK" \notin request[u] /\ request[u] \cap Stop = {}
  BY <1>1 DEF NonYield
<1>4. Push(u) /\ state' = [state EXCEPT ![u] = "READY"]
  BY <1>1
<1>5. /\ pool' \in [Pool -> Seq(Thread)] /\ QueuedOnce'
      /\ InPool(u)' /\ \A v \in Thread : v # u => (InPool(v)' <=> InPool(v))
  BY <1>2, <1>4, PushAdds DEF ThreadsTypeOK
<1>6. ThreadsTypeOK'
  BY <1>2, <1>4, <1>5 DEF ThreadsTypeOK, ThreadState, Phase
<1>7. OneRunner'
  BY DEF OneRunner, ThreadsTypeOK
<1>8. SavedBeforePush'
  BY <1>1, <1>2, <1>5 DEF SavedBeforePush, ThreadsTypeOK
<1>9. \A v \in Thread : InPool(v)' => state'[v] = "READY"
  BY <1>2, <1>4, <1>5 DEF ThreadsTypeOK
<1>10. RunningOK' /\ BlockOK'
  BY <1>1, <1>2, <1>3, <1>4 DEF RunningOK, BlockOK, ThreadsTypeOK
<1>11. StopOK'
  BY ThreadsAssumption, <1>1, <1>2, <1>3, <1>4, <1>5 DEF StopOK, ThreadsTypeOK
<1> QED
  BY <1>5, <1>6, <1>7, <1>8, <1>9, <1>10, <1>11

\* Taking note of the ULT that has blocked.
LEMMA LayerBlocked ==
  ASSUME LayerInv, NEW e \in Xstream, ReturnBlocked(e)
  PROVE  LayerInv'
<1> USE DEF LayerInv, ReturnBlocked, GoesOn, BackToSched
<1>1. PICK u : u = running[e]
  OBVIOUS
<1>2. /\ u \in Thread /\ u # NoThread
      /\ \A f \in Xstream : running[f] = u => f = e
  BY <1>1, ThreadsAssumption DEF ThreadsTypeOK, OneRunner
<1>3. \A v \in Thread : InPool(v)' <=> InPool(v)
  BY DEF InPool
<1>4. ThreadsTypeOK'
  BY <1>1, <1>2 DEF ThreadsTypeOK, Phase
<1>5. OneRunner' /\ SavedBeforePush' /\ QueuedOnce'
  BY DEF OneRunner, SavedBeforePush, QueuedOnce, InPool, ThreadsTypeOK
<1>6. \A v \in Thread : InPool(v)' => state'[v] = "READY"
  BY <1>3
<1>7. RunningOK' /\ BlockOK'
  BY <1>1, <1>2 DEF RunningOK, BlockOK, ThreadsTypeOK
<1>8. StopOK'
  BY ThreadsAssumption, <1>1, <1>2, <1>3 DEF StopOK, ThreadsTypeOK, Stop
<1> QED
  BY <1>4, <1>5, <1>6, <1>7, <1>8

\* Every step of a scheduler keeps the layer.
LEMMA LayerScheduler ==
  ASSUME LayerInv, NEW e \in Xstream, Scheduler(e)
  PROVE  LayerInv'
BY LayerRuns, LayerTerminated, LayerYielded, LayerBlocked DEF Scheduler

\* A scheduler neither blocks a ULT nor ends that of one that is BLOCKED, and runs
\* no ULT that is.
LEMMA SchedulerStates ==
  ASSUME LayerInv, NEW e \in Xstream, Scheduler(e)
  PROVE  /\ \A v \in Thread : state'[v] = "BLOCKED" <=> state[v] = "BLOCKED"
         /\ \A v \in Thread, f \in Xstream : On(v, f)' => On(v, f) \/ state'[v] = "RUNNING"
<1> USE DEF LayerInv
<1>1. CASE SchedRun(e)
  <2>1. PICK p \in Pool :
          /\ NextPool(e, p)
          /\ running' = [running EXCEPT ![e] = Head(pool[p])]
          /\ state' = [state EXCEPT ![Head(pool[p])] = "RUNNING"]
          /\ pool' = [pool EXCEPT ![p] = Tail(@)]
          /\ phase' = [phase EXCEPT ![e] = "ult"]
    BY <1>1, Zenon DEF SchedRun
  <2>2. PICK u : u = Head(pool[p])
    OBVIOUS
  <2>3. u \in Thread /\ state[u] = "READY"
    BY <2>1, <2>2, PopRemoves DEF NextPool, ThreadsTypeOK
  <2> QED BY <2>1, <2>2, <2>3 DEF On, ThreadsTypeOK
<1>2. CASE ReturnTerminated(e)
  <2>1. running[e] \in Thread /\ state[running[e]] # "BLOCKED"
    BY <1>2 DEF ReturnTerminated, ThreadsTypeOK, StopOK
  <2> QED BY <1>2, <2>1, ThreadsAssumption DEF ReturnTerminated, BackToSched, On, ThreadsTypeOK
<1>3. CASE ReturnYielded(e)
  <2>1. running[e] \in Thread /\ running[e] # NoThread /\ state[running[e]] # "BLOCKED"
    BY <1>3, ThreadsAssumption DEF ReturnYielded, GoesOn, ThreadsTypeOK, RunningOK, NonYield
  <2> QED BY <1>3, <2>1, ThreadsAssumption
          DEF ReturnYielded, MakeReady, BackToSched, On, ThreadsTypeOK
<1>4. CASE ReturnBlocked(e)
  BY <1>4, ThreadsAssumption DEF ReturnBlocked, BackToSched, On, ThreadsTypeOK
<1> QED
  BY <1>1, <1>2, <1>3, <1>4 DEF Scheduler
=============================================================================
