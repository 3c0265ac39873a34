--------------------------- MODULE RateLimiterProofs ---------------------------
(* Proofs about RateLimiter, for every number of keys, limit, window, table size *)
(* and resolution of the clock.                                                  *)
(*                                                                               *)
(* What the limiter keeps of a key is the end of the key's history; what it no   *)
(* longer keeps has left the window. That is the invariant: it bounds every      *)
(* window of the history when an instant is added, and it says that a key whose  *)
(* queue was emptied was not let through lately, so that the keys still known    *)
(* are exactly the busy ones.                                                    *)
EXTENDS RateLimiter, TLAPS, SequenceTheorems, FiniteSetTheorems

--------------------------------------------------------------------------------
(* One key: a is its history, e its queue, t the time.                          *)

Sorted(a, t) ==
    /\ \A i, j \in 1 .. Len(a) : i <= j => a[i] <= a[j]
    /\ \A i \in 1 .. Len(a) : a[i] <= t

Spaced(a) == \A i, j \in 1 .. Len(a) : j = i + Limit => a[j] >= a[i] + WindowTicks

EndOf(a, e) ==
    /\ Len(e) <= Len(a)
    /\ \A i \in 1 .. Len(e) : e[i] = a[Len(a) - Len(e) + i]

RestExpired(a, e, t) == \A i \in 1 .. (Len(a) - Len(e)) : a[i] + WindowTicks <= t

KeyOK(a, e, t) ==
    /\ a \in Seq(Nat) /\ e \in Seq(Nat)
    /\ Len(e) <= Limit
    /\ Sorted(a, t) /\ Spaced(a) /\ EndOf(a, e) /\ RestExpired(a, e, t)

LEMMA TicksType == WindowTicks \in Nat \ {0}
BY LimiterAssumption DEF LimiterAssumption, WindowTicks

LEMMA KeyLater ==
    ASSUME NEW a, NEW e, NEW t \in Nat, NEW u \in Nat, t <= u, KeyOK(a, e, t)
    PROVE  KeyOK(a, e, u)
<1>1. Sorted(a, u)
  BY DEF KeyOK, Sorted
<1>2. RestExpired(a, e, u)
  BY TicksType DEF KeyOK, RestExpired
<1> QED
  BY <1>1, <1>2 DEF KeyOK

LEMMA KeyDrops ==
    ASSUME NEW a, NEW e, NEW t \in Nat, KeyOK(a, e, t),
           NEW n \in 0 .. Len(e), \A i \in 1 .. n : e[i] + WindowTicks <= t
    PROVE  /\ KeyOK(a, SubSeq(e, n + 1, Len(e)), t)
           /\ Len(SubSeq(e, n + 1, Len(e))) = Len(e) - n
           /\ \A i \in 1 .. (Len(e) - n) : SubSeq(e, n + 1, Len(e))[i] = e[n + i]
<1> DEFINE f == SubSeq(e, n + 1, Len(e))
<1>1. e \in Seq(Nat) /\ a \in Seq(Nat) /\ Len(e) \in Nat /\ Len(a) \in Nat
  BY DEF KeyOK
<1>2. f \in Seq(Nat) /\ Len(f) = Len(e) - n /\ \A i \in 1 .. (Len(e) - n) : f[i] = e[n + i]
  BY <1>1
<1> HIDE DEF f
<1>3. EndOf(a, f)
  <2>1. Len(f) <= Len(a)
    BY <1>1, <1>2 DEF KeyOK, EndOf
  <2>2. ASSUME NEW i \in 1 .. Len(f) PROVE f[i] = a[Len(a) - Len(f) + i]
    <3>1. f[i] = e[n + i] /\ n + i \in 1 .. Len(e)
      BY <1>1, <1>2
    <3>2. e[n + i] = a[Len(a) - Len(e) + (n + i)]
      BY <3>1 DEF KeyOK, EndOf
    <3>3. Len(a) - Len(e) + (n + i) = Len(a) - Len(f) + i
      BY <1>1, <1>2
    <3> QED
      BY <3>1, <3>2, <3>3
  <2> QED
    BY <2>1, <2>2 DEF EndOf
<1>4. RestExpired(a, f, t)
  <2> SUFFICES ASSUME NEW i \in 1 .. (Len(a) - Len(f)) PROVE a[i] + WindowTicks <= t
    BY DEF RestExpired
  <2>1. CASE i <= Len(a) - Len(e)
    BY <1>1, <1>2, <2>1 DEF KeyOK, RestExpired
  <2>2. CASE i > Len(a) - Len(e)
    <3>1. i - (Len(a) - Len(e)) \in 1 .. n
      BY <1>1, <1>2, <2>2
    <3>2. e[i - (Len(a) - Len(e))] = a[i]
      BY <1>1, <3>1 DEF KeyOK, EndOf
    <3> QED
      BY <3>1, <3>2
  <2> QED
    BY <1>1, <1>2, <2>1, <2>2
<1>5. Len(f) <= Limit
  BY <1>1, <1>2, LimiterAssumption DEF KeyOK, LimiterAssumption
<1>6. KeyOK(a, f, t)
  BY <1>2, <1>3, <1>4, <1>5 DEF KeyOK
<1> QED
  BY <1>2, <1>6 DEF f

LEMMA KeyForgotten ==
    ASSUME NEW a, NEW e, NEW t \in Nat, KeyOK(a, e, t),
           e = <<>> \/ e[Len(e)] + WindowTicks <= t
    PROVE  KeyOK(a, <<>>, t)
<1>1. e \in Seq(Nat) /\ a \in Seq(Nat) /\ Len(e) \in Nat /\ Len(a) \in Nat
  BY DEF KeyOK
<1>2. CASE e = <<>>
  BY <1>2
<1>3. CASE e # <<>> /\ e[Len(e)] + WindowTicks <= t
  <2>1. Len(e) \in 1 .. Len(a) /\ e[Len(e)] = a[Len(a)]
    BY <1>1, <1>3 DEF KeyOK, EndOf
  <2>2. ASSUME NEW i \in 1 .. Len(a) PROVE a[i] + WindowTicks <= t
    <3>1. a[i] <= a[Len(a)] /\ a[i] \in Nat /\ a[Len(a)] \in Nat
      BY <1>1, <2>1 DEF KeyOK, Sorted
    <3> QED
      BY <1>3, <2>1, <3>1, TicksType
  <2>3. <<>> \in Seq(Nat) /\ Len(<<>>) = 0
    OBVIOUS
  <2>4. EndOf(a, <<>>) /\ RestExpired(a, <<>>, t)
    BY <1>1, <2>2, <2>3 DEF EndOf, RestExpired
  <2> QED
    BY <2>3, <2>4, LimiterAssumption DEF KeyOK, LimiterAssumption
<1> QED
  BY <1>2, <1>3

LEMMA KeyAdmitted ==
    ASSUME NEW a, NEW e, NEW t \in Nat, KeyOK(a, e, t), Len(e) < Limit
    PROVE  KeyOK(Append(a, t), Append(e, t), t)
<1> DEFINE b == Append(a, t)
           f == Append(e, t)
<1>1. e \in Seq(Nat) /\ a \in Seq(Nat) /\ Len(e) \in Nat /\ Len(a) \in Nat /\ Limit \in Nat
  BY LimiterAssumption DEF KeyOK, LimiterAssumption
<1>2. /\ b \in Seq(Nat) /\ Len(b) = Len(a) + 1
      /\ \A i \in 1 .. Len(a) : b[i] = a[i]
      /\ b[Len(a) + 1] = t
  BY <1>1
<1>3. /\ f \in Seq(Nat) /\ Len(f) = Len(e) + 1
      /\ \A i \in 1 .. Len(e) : f[i] = e[i]
      /\ f[Len(e) + 1] = t
  BY <1>1
<1> HIDE DEF b, f
<1>4. Sorted(b, t)
  <2>1. ASSUME NEW i \in 1 .. Len(b) PROVE b[i] <= t /\ b[i] \in Nat
    <3>1. CASE i = Len(a) + 1
      BY <1>2, <3>1
    <3>2. CASE i \in 1 .. Len(a)
      BY <1>1, <1>2, <3>2 DEF KeyOK, Sorted
    <3> QED
      BY <1>1, <1>2, <3>1, <3>2
  <2>2. ASSUME NEW i \in 1 .. Len(b), NEW j \in 1 .. Len(b), i <= j PROVE b[i] <= b[j]
    <3>1. CASE j = Len(a) + 1
      BY <1>2, <2>1, <3>1
    <3>2. CASE j \in 1 .. Len(a)
      <4>1. i \in 1 .. Len(a)
        BY <1>1, <1>2, <2>2, <3>2
      <4> QED
        BY <1>2, <2>2, <3>2, <4>1 DEF KeyOK, Sorted
    <3> QED
      BY <1>1, <1>2, <3>1, <3>2
  <2> QED
    BY <2>1, <2>2 DEF Sorted
<1>5. EndOf(b, f)
  <2>1. Len(f) <= Len(b)
    BY <1>1, <1>2, <1>3 DEF KeyOK, EndOf
  <2>2. ASSUME NEW i \in 1 .. Len(f) PROVE f[i] = b[Len(b) - Len(f) + i]
    <3>1. Len(b) - Len(f) = Len(a) - Len(e) /\ Len(e) <= Len(a)
      BY <1>1, <1>2, <1>3 DEF KeyOK, EndOf
    <3>2. CASE i = Len(e) + 1
      <4>1. Len(b) - Len(f) + i = Len(a) + 1
        BY <1>1, <3>1, <3>2
      <4> QED
        BY <1>2, <1>3, <3>2, <4>1
    <3>3. CASE i \in 1 .. Len(e)
      <4>1. Len(a) - Len(e) + i \in 1 .. Len(a)
        BY <1>1, <3>1, <3>3
      <4>2. f[i] = e[i] /\ e[i] = a[Len(a) - Len(e) + i]
        BY <1>3, <3>3 DEF KeyOK, EndOf
      <4> QED
        BY <1>2, <3>1, <4>1, <4>2
    <3> QED
      BY <1>1, <1>3, <3>2, <3>3
  <2> QED
    BY <2>1, <2>2 DEF EndOf
<1>6. RestExpired(b, f, t)
  <2> SUFFICES ASSUME NEW i \in 1 .. (Len(b) - Len(f)) PROVE b[i] + WindowTicks <= t
    BY DEF RestExpired
  <2>1. Len(b) - Len(f) = Len(a) - Len(e)
    BY <1>1, <1>2, <1>3
  <2>2. i \in 1 .. (Len(a) - Len(e))
    BY <2>1
  <2>3. i \in 1 .. Len(a)
    BY <1>1, <2>2
  <2> QED
    BY <1>2, <2>2, <2>3 DEF KeyOK, RestExpired
<1>7. Spaced(b)
  <2> SUFFICES ASSUME NEW i \in 1 .. Len(b), NEW j \in 1 .. Len(b), j = i + Limit
               PROVE  b[j] >= b[i] + WindowTicks
    BY DEF Spaced
  <2>1. CASE j \in 1 .. Len(a)
    <3>1. i \in 1 .. Len(a)
      BY <1>1, <2>1
    <3> QED
      BY <1>2, <2>1, <3>1 DEF KeyOK, Spaced
  <2>2. CASE j = Len(a) + 1
    <3>1. i \in 1 .. (Len(b) - Len(f))
      BY <1>1, <1>2, <1>3, <2>2
    <3>2. b[j] = t /\ b[i] + WindowTicks <= t
      BY <1>2, <1>6, <2>2, <3>1 DEF RestExpired
    <3>3. b[i] \in Nat
      BY <1>2
    <3> QED
      BY <3>2, <3>3, TicksType
  <2>3. j \in 1 .. Len(a) \/ j = Len(a) + 1
    <3>1. j \in 1 .. (Len(a) + 1)
      BY <1>2
    <3> QED
      BY <1>1, <3>1
  <2> QED
    BY <2>1, <2>2, <2>3
<1>8. KeyOK(b, f, t)
  BY <1>1, <1>2, <1>3, <1>4, <1>5, <1>6, <1>7 DEF KeyOK
<1> QED
  BY <1>8 DEF b, f

--------------------------------------------------------------------------------
(* The whole seconds of Retry-After.                                            *)

LEMMA RoundedUp ==
    ASSUME NEW x \in Int, NEW d \in Nat, d > 0
    PROVE  (x \div d + 1) * d > x
<1>1. x < (x \div d) * d + d
  BY SMTT(30)
<1>2. x \div d \in Int
  OBVIOUS
<1>3. (x \div d + 1) * d = (x \div d) * d + d
  BY <1>2
<1> QED
  BY <1>1, <1>3

LEMMA RetryLongEnough ==
    ASSUME now \in Nat, NEW oldest \in Nat
    PROVE  /\ RetryAfter(oldest) \in Nat
           /\ oldest + WindowTicks <= now + RetryAfter(oldest) * TicksPerSecond
<1> DEFINE x == oldest + WindowTicks - now
           q == x \div TicksPerSecond + 1
<1>1. x \in Int /\ TicksPerSecond \in Nat \ {0}
  BY TicksType, LimiterAssumption DEF LimiterAssumption
<1>2. q \in Int /\ q * TicksPerSecond > x
  BY <1>1, RoundedUp
<1>3. RetryAfter(oldest) = IF 1 >= q THEN 1 ELSE q
  BY DEF RetryAfter, Larger
<1> HIDE DEF q
<1>4. RetryAfter(oldest) \in Nat /\ RetryAfter(oldest) >= q
  BY <1>2, <1>3
<1>5. RetryAfter(oldest) * TicksPerSecond >= q * TicksPerSecond
  BY <1>1, <1>2, <1>4
<1>6. RetryAfter(oldest) * TicksPerSecond \in Int /\ q * TicksPerSecond \in Int
  BY <1>1, <1>2, <1>4
<1>7. WindowTicks \in Int
  BY TicksType
<1> QED
  BY <1>2, <1>4, <1>5, <1>6, <1>7

--------------------------------------------------------------------------------
(* The invariant.                                                               *)

Table == {k \in Keys : entries[k] # <<>>}

TableOK == IsFiniteSet(Table) /\ Cardinality(Table) <= MaxKeys

Values ==
    /\ now \in Nat
    /\ entries \in [Keys -> Seq(Nat)]
    /\ admitted \in [Keys -> Seq(Nat)]
    /\ told \in [Keys -> Answers]

\* Waiting as long as was said outlasts the oldest instant still kept.
WaitOutlasts(answer, e) ==
    answer.kind = "refused" => e = <<>> \/ e[1] + WindowTicks <= answer.retryAt

KeyInv(k) == KeyOK(admitted[k], entries[k], now) /\ WaitOutlasts(told[k], entries[k])

LimiterInv == Values /\ TableOK /\ \A k \in Keys : KeyInv(k)

LEMMA PurgedKey ==
    ASSUME LimiterInv, NEW k \in Keys
    PROVE  /\ KeyOK(admitted[k], Remaining[k], now)
           /\ WaitOutlasts(told[k], Remaining[k])
           /\ Remaining[k] \in Seq(Nat)
           /\ k \in Known <=> Remaining[k] # <<>>
<1>1. KeyOK(admitted[k], entries[k], now) /\ WaitOutlasts(told[k], entries[k])
      /\ entries[k] \in Seq(Nat) /\ now \in Nat
  BY DEF LimiterInv, KeyInv, Values
<1>2. CASE Inactive(k)
  <2>1. Remaining[k] = <<>> /\ k \notin Known
    BY <1>2 DEF Remaining, Known
  <2>2. entries[k] = <<>> \/ entries[k][Len(entries[k])] + WindowTicks <= now
    <3>1. CASE entries[k] # <<>>
      <4>1. entries[k][Len(entries[k])] \in Nat
        BY <1>1, <3>1
      <4>2. entries[k][Len(entries[k])] <= now - WindowTicks
        BY <1>2, <3>1 DEF Inactive, Newest, Cutoff
      <4> QED
        BY <1>1, <4>1, <4>2, TicksType
    <3> QED
      BY <3>1
  <2>3. KeyOK(admitted[k], <<>>, now)
    BY <1>1, <2>2, KeyForgotten
  <2> QED
    BY <2>1, <2>3 DEF WaitOutlasts
<1>3. CASE ~Inactive(k)
  BY <1>1, <1>3 DEF Remaining, Known, Inactive
<1> QED
  BY <1>2, <1>3

LEMMA KnownKeys ==
    ASSUME LimiterInv
    PROVE  /\ Known \subseteq Table
           /\ IsFiniteSet(Known) /\ Cardinality(Known) \in Nat
           /\ Cardinality(Known) <= MaxKeys
<1>1. Known \subseteq Table
  BY DEF Known, Inactive, Table
<1>2. IsFiniteSet(Table) /\ Cardinality(Table) <= MaxKeys
  BY DEF LimiterInv, TableOK
<1>3. IsFiniteSet(Known) /\ Cardinality(Known) <= Cardinality(Table)
  BY <1>1, <1>2, FS_Subset
<1>4. Cardinality(Known) \in Nat /\ Cardinality(Table) \in Nat /\ MaxKeys \in Nat
  BY <1>2, <1>3, FS_CardinalityType, LimiterAssumption DEF LimiterAssumption
<1> QED
  BY <1>1, <1>2, <1>3, <1>4

\* A call leaves the table within its bound: what it adds is its own key, and only
\* if there is room.
LEMMA TableBounded ==
    ASSUME LimiterInv, NEW k \in Keys, NEW f,
           f = Remaining \/ ~TableFull(k),
           \A j \in Keys \ {k} : f[j] = Remaining[j]
    PROVE  LET T == {j \in Keys : f[j] # <<>>} IN
           IsFiniteSet(T) /\ Cardinality(T) <= MaxKeys
<1> DEFINE T == {j \in Keys : f[j] # <<>>}
<1>1. IsFiniteSet(Known) /\ Cardinality(Known) \in Nat /\ Cardinality(Known) <= MaxKeys
      /\ MaxKeys \in Nat
  BY KnownKeys, LimiterAssumption DEF LimiterAssumption
<1>2. \A j \in Keys : j \in Known <=> Remaining[j] # <<>>
  BY PurgedKey
<1>3. CASE f = Remaining \/ k \in Known
  <2>1. T \subseteq Known
    BY <1>2, <1>3
  <2>2. IsFiniteSet(T) /\ Cardinality(T) <= Cardinality(Known) /\ Cardinality(T) \in Nat
    BY <1>1, <2>1, FS_Subset, FS_CardinalityType
  <2> QED
    BY <1>1, <2>2
<1>4. CASE k \notin Known /\ ~TableFull(k)
  <2>1. ~(Cardinality(Known) >= MaxKeys)
    BY <1>4 DEF TableFull
  <2>2. IsFiniteSet(Known \cup {k}) /\ Cardinality(Known \cup {k}) = Cardinality(Known) + 1
    BY <1>1, <1>4, FS_AddElement
  <2>3. T \subseteq Known \cup {k}
    BY <1>2
  <2>4. IsFiniteSet(T) /\ Cardinality(T) <= Cardinality(Known \cup {k})
        /\ Cardinality(T) \in Nat
    BY <2>2, <2>3, FS_Subset, FS_CardinalityType
  <2> QED
    BY <1>1, <2>1, <2>2, <2>4
<1> QED
  BY <1>3, <1>4

\* What is left of the caller's queue.
LEMMA KeptKey ==
    ASSUME LimiterInv, NEW k \in Keys, NEW n \in Dropped(k)
    PROVE  /\ KeyOK(admitted[k], Kept(k, n), now)
           /\ Kept(k, n) \in Seq(Nat)
           /\ Len(Kept(k, n)) = Len(Remaining[k]) - n
           /\ n \in 0 .. Len(Remaining[k])
<1>1. KeyOK(admitted[k], Remaining[k], now) /\ Remaining[k] \in Seq(Nat) /\ now \in Nat
  BY PurgedKey DEF LimiterInv, Values
<1>2. n \in 0 .. Len(Remaining[k]) /\ \A i \in 1 .. n : Remaining[k][i] <= now - WindowTicks
  BY DEF Dropped, LeadingExpired, Expired, Cutoff
<1>3. \A i \in 1 .. n : Remaining[k][i] + WindowTicks <= now
  <2> SUFFICES ASSUME NEW i \in 1 .. n PROVE Remaining[k][i] + WindowTicks <= now
    OBVIOUS
  <2>1. i \in 1 .. Len(Remaining[k])
    BY <1>1, <1>2
  <2>2. Remaining[k][i] \in Nat
    BY <1>1, <2>1
  <2> QED
    BY <1>1, <1>2, <2>2, TicksType
<1>4. KeyOK(admitted[k], Kept(k, n), now) /\ Len(Kept(k, n)) = Len(Remaining[k]) - n
  BY <1>1, <1>2, <1>3, KeyDrops DEF Kept
<1> QED
  BY <1>2, <1>4 DEF KeyOK

--------------------------------------------------------------------------------
(* Every step keeps the invariant.                                              *)

LEMMA InitLimiterInv == LimiterInit => LimiterInv
<1> SUFFICES ASSUME LimiterInit PROVE LimiterInv
  OBVIOUS
<1>1. <<>> \in Seq(Nat) /\ Len(<<>>) = 0
  OBVIOUS
<1>2. Values
  BY <1>1 DEF LimiterInit, Values, Answers
<1>3. Table = {}
  BY DEF LimiterInit, Table
<1>4. TableOK
  BY <1>3, FS_EmptySet, LimiterAssumption DEF TableOK, LimiterAssumption
<1>5. KeyOK(<<>>, <<>>, 0)
  BY <1>1, LimiterAssumption
  DEF KeyOK, Sorted, Spaced, EndOf, RestExpired, LimiterAssumption
<1>6. \A k \in Keys : KeyInv(k)
  BY <1>5 DEF LimiterInit, KeyInv, WaitOutlasts
<1> QED
  BY <1>2, <1>4, <1>6 DEF LimiterInv

LEMMA TickInv == LimiterInv /\ Tick => LimiterInv'
<1> SUFFICES ASSUME LimiterInv, Tick PROVE LimiterInv'
  OBVIOUS
<1>1. now' = now + 1 /\ now \in Nat /\ now' \in Nat
      /\ entries' = entries /\ admitted' = admitted /\ told' = told
  BY DEF LimiterInv, Values, Tick, Advance, limiter
<1>2. Values' /\ TableOK'
  BY <1>1 DEF LimiterInv, Values, TableOK, Table
<1>3. ASSUME NEW k \in Keys PROVE KeyInv(k)'
  <2>1. KeyOK(admitted[k], entries[k], now)
    BY DEF LimiterInv, KeyInv
  <2>2. KeyOK(admitted[k], entries[k], now')
    BY <1>1, <2>1, KeyLater
  <2> QED
    BY <1>1, <2>2 DEF LimiterInv, KeyInv, KeyOK, Sorted, RestExpired, WaitOutlasts
<1> QED
  BY <1>2, <1>3 DEF LimiterInv

\* For the keys that did not call, only the purge matters; the caller's new queue,
\* history and answer are given.
LEMMA CallInv ==
    ASSUME LimiterInv, UNCHANGED now, NEW k \in Keys,
           NEW e \in Seq(Nat), NEW a \in Seq(Nat), NEW answer \in Answers,
           entries' = [Remaining EXCEPT ![k] = e],
           admitted' = [admitted EXCEPT ![k] = a],
           told' = [told EXCEPT ![k] = answer],
           e = Remaining[k] \/ ~TableFull(k),
           KeyOK(a, e, now), WaitOutlasts(answer, e)
    PROVE  LimiterInv'
<1>1. /\ Remaining \in [Keys -> Seq(Nat)]
      /\ entries \in [Keys -> Seq(Nat)] /\ admitted \in [Keys -> Seq(Nat)]
      /\ told \in [Keys -> Answers]
  BY PurgedKey DEF LimiterInv, Values, Remaining
<1>2. Values'
  BY <1>1 DEF LimiterInv, Values
<1>3. TableOK'
  <2>1. entries' = Remaining \/ ~TableFull(k)
    BY <1>1
  <2>2. \A j \in Keys \ {k} : entries'[j] = Remaining[j]
    BY <1>1
  <2> QED
    BY <2>1, <2>2, TableBounded DEF TableOK, Table
<1>4. ASSUME NEW j \in Keys PROVE KeyInv(j)'
  <2>1. CASE j = k
    BY <1>1, <2>1 DEF KeyInv, KeyOK, Sorted, RestExpired, WaitOutlasts
  <2>2. CASE j # k
    <3>1. KeyOK(admitted[j], Remaining[j], now) /\ WaitOutlasts(told[j], Remaining[j])
      BY PurgedKey
    <3>2. entries'[j] = Remaining[j] /\ admitted'[j] = admitted[j] /\ told'[j] = told[j]
      BY <1>1, <2>2
    <3> QED
      BY <3>1, <3>2 DEF KeyInv, KeyOK, Sorted, RestExpired, WaitOutlasts
  <2> QED
    BY <2>1, <2>2
<1> QED
  BY <1>2, <1>3, <1>4 DEF LimiterInv

LEMMA TurnAwayInv ==
    ASSUME LimiterInv, UNCHANGED now, NEW k \in Keys, TurnAway(k)
    PROVE  LimiterInv'
<1>1. /\ entries' = Remaining /\ admitted' = admitted
      /\ told' = [told EXCEPT ![k] = [kind |-> "full"]]
  BY DEF TurnAway, Tell
<1>2. /\ Remaining \in [Keys -> Seq(Nat)] /\ admitted \in [Keys -> Seq(Nat)]
      /\ KeyOK(admitted[k], Remaining[k], now)
  BY PurgedKey DEF LimiterInv, Values, Remaining
<1>3. /\ entries' = [Remaining EXCEPT ![k] = Remaining[k]]
      /\ admitted' = [admitted EXCEPT ![k] = admitted[k]]
  BY <1>1, <1>2
<1>4. [kind |-> "full"] \in Answers /\ WaitOutlasts([kind |-> "full"], Remaining[k])
  BY DEF Answers, WaitOutlasts
<1>5. Remaining[k] \in Seq(Nat) /\ admitted[k] \in Seq(Nat)
  BY <1>2
<1> QED
  BY <1>1, <1>2, <1>3, <1>4, <1>5, CallInv

LEMMA RefuseInv ==
    ASSUME LimiterInv, UNCHANGED now, NEW k \in Keys, Refuse(k)
    PROVE  LimiterInv'
<1>1. PICK n \in Dropped(k) :
        /\ Len(Kept(k, n)) >= Limit
        /\ entries' = [Remaining EXCEPT ![k] = Kept(k, n)]
        /\ told' = [told EXCEPT ![k] = RefusedFor(RetryAfter(Kept(k, n)[1]))]
  BY DEF Refuse, Tell
<1> DEFINE e == Kept(k, n)
           answer == RefusedFor(RetryAfter(e[1]))
<1>2. KeyOK(admitted[k], e, now) /\ e \in Seq(Nat)
  BY KeptKey
<1>3. e[1] \in Nat
  BY <1>1, <1>2, LimiterAssumption DEF LimiterAssumption
<1>4. now \in Nat /\ TicksPerSecond \in Nat /\ admitted \in [Keys -> Seq(Nat)]
  BY LimiterAssumption DEF LimiterInv, Values, LimiterAssumption
<1>5. /\ RetryAfter(e[1]) \in Nat
      /\ e[1] + WindowTicks <= now + RetryAfter(e[1]) * TicksPerSecond
  BY <1>3, <1>4, RetryLongEnough
<1>6. answer = [kind |-> "refused", retryAt |-> now + RetryAfter(e[1]) * TicksPerSecond]
  BY DEF RefusedFor
<1>7. now + RetryAfter(e[1]) * TicksPerSecond \in Nat
  BY <1>4, <1>5
<1>8. answer \in Answers /\ WaitOutlasts(answer, e)
  BY <1>5, <1>6, <1>7 DEF Answers, WaitOutlasts
<1>9. /\ admitted' = [admitted EXCEPT ![k] = admitted[k]] /\ admitted[k] \in Seq(Nat)
      /\ ~TableFull(k)
  BY <1>4 DEF Refuse
<1> HIDE DEF e, answer
<1>10. entries' = [Remaining EXCEPT ![k] = e] /\ told' = [told EXCEPT ![k] = answer]
  BY <1>1 DEF e, answer
<1> QED
  BY <1>2, <1>8, <1>9, <1>10, CallInv

LEMMA AdmitInv ==
    ASSUME LimiterInv, UNCHANGED now, NEW k \in Keys, Admit(k)
    PROVE  LimiterInv'
<1>1. PICK n \in Dropped(k) :
        /\ Len(Kept(k, n)) < Limit
        /\ entries' = [Remaining EXCEPT ![k] = Append(Kept(k, n), now)]
  BY DEF Admit
<1>2. now \in Nat /\ admitted \in [Keys -> Seq(Nat)]
  BY DEF LimiterInv, Values
<1>3. KeyOK(admitted[k], Kept(k, n), now)
  BY KeptKey
<1> DEFINE e == Append(Kept(k, n), now)
           a == Append(admitted[k], now)
<1>4. KeyOK(a, e, now)
  BY <1>1, <1>2, <1>3, KeyAdmitted
<1>5. a \in Seq(Nat) /\ e \in Seq(Nat)
  BY <1>4 DEF KeyOK
<1>6. /\ admitted' = [admitted EXCEPT ![k] = a]
      /\ told' = [told EXCEPT ![k] = [kind |-> "free"]]
      /\ entries' = [Remaining EXCEPT ![k] = e]
      /\ ~TableFull(k)
  BY <1>1, <1>2 DEF Admit, Tell
<1>7. [kind |-> "free"] \in Answers /\ WaitOutlasts([kind |-> "free"], e)
  BY DEF Answers, WaitOutlasts
<1> HIDE DEF a, e
<1> QED
  BY <1>4, <1>5, <1>6, <1>7, CallInv

LEMMA StepLimiterInv == LimiterInv /\ [LimiterNext]_<<now, limiter>> => LimiterInv'
<1> SUFFICES ASSUME LimiterInv, [LimiterNext]_<<now, limiter>> PROVE LimiterInv'
  OBVIOUS
<1>1. CASE Tick
  BY <1>1, TickInv
<1>2. ASSUME NEW k \in Keys, Consume(k), UNCHANGED now PROVE LimiterInv'
  BY <1>2, TurnAwayInv, RefuseInv, AdmitInv DEF Consume
<1>3. CASE UNCHANGED <<now, limiter>>
  BY <1>3 DEF limiter, LimiterInv, Values, TableOK, Table, KeyInv, KeyOK, Sorted,
     RestExpired, WaitOutlasts
<1> QED
  BY <1>1, <1>2, <1>3 DEF LimiterNext

\* What consume keeps of a key (infrastructure.py:317-339) is always the end of the
\* key's history.
THEOREM LimiterInvariant == LimiterSpec => []LimiterInv
<1>1. LimiterInit => LimiterInv
  BY InitLimiterInv
<1>2. LimiterInv /\ [LimiterNext]_<<now, limiter>> => LimiterInv'
  BY StepLimiterInv
<1> QED
  BY <1>1, <1>2, PTL DEF LimiterSpec

--------------------------------------------------------------------------------
(* The theorems.                                                                *)

\* The values of the limiter have their types and its table stays within its
\* bound (infrastructure.py:317-339), for all constants.
THEOREM LimiterTypes == LimiterSpec => []LimiterTypeOK
<1>1. LimiterInv => LimiterTypeOK
  BY DEF LimiterInv, Values, TableOK, Table, LimiterTypeOK
<1> QED
  BY <1>1, LimiterInvariant, PTL

\* No window holds more than Limit submissions of one key, though the limiter
\* keeps of a key only what has not left the window and forgets keys altogether
\* (infrastructure.py:321-339).
THEOREM WindowsRespected == LimiterSpec => []WindowRespected
<1>1. LimiterInv => WindowRespected
  BY DEF LimiterInv, KeyInv, KeyOK, Spaced, WindowRespected
<1> QED
  BY <1>1, LimiterInvariant, PTL

\* A key that waited as long as it was told finds its oldest instant expired, so
\* that its queue, which never exceeds the limit, gets below it.
LEMMA WaitedEnough ==
    ASSUME LimiterInv, NEW k \in Keys, told[k].kind = "refused", now >= told[k].retryAt
    PROVE  ~Refuse(k)
<1> DEFINE r == Remaining[k]
<1> SUFFICES ASSUME NEW n \in Dropped(k), Len(Kept(k, n)) >= Limit PROVE FALSE
  BY DEF Refuse
<1>1. /\ KeyOK(admitted[k], r, now) /\ WaitOutlasts(told[k], r) /\ r \in Seq(Nat)
      /\ now \in Nat /\ told[k] \in Answers
  BY PurgedKey DEF LimiterInv, Values
<1>2. n \in 0 .. Len(r) /\ Len(Kept(k, n)) = Len(r) - n
  BY KeptKey
<1>3. Len(r) <= Limit
  BY <1>1 DEF KeyOK
<1>4. n < Len(r) => ~(r[n + 1] <= now - WindowTicks)
  BY DEF Dropped, LeadingExpired, Expired, Cutoff
<1> HIDE DEF r
<1>5. n = 0 /\ n < Len(r) /\ r # <<>>
  BY <1>1, <1>2, <1>3, LimiterAssumption DEF LimiterAssumption
<1>6. told[k].retryAt \in Nat
  BY <1>1 DEF Answers
<1>7. r[1] + WindowTicks <= told[k].retryAt /\ r[1] \in Nat
  BY <1>1, <1>2, <1>5 DEF WaitOutlasts
<1> QED
  BY <1>1, <1>4, <1>5, <1>6, <1>7, TicksType

\* The keys the purge leaves are those let through within the window.
LEMMA KnownAreBusy == LimiterInv => Known = Busy
<1> SUFFICES ASSUME LimiterInv, NEW k \in Keys PROVE k \in Known <=> k \in Busy
  BY DEF Known, Busy
<1> DEFINE a == admitted[k]
           e == entries[k]
<1>1. KeyOK(a, e, now) /\ a \in Seq(Nat) /\ e \in Seq(Nat) /\ now \in Nat
  BY DEF LimiterInv, KeyInv, Values
<1>2. k \in Known <=> e # <<>> /\ ~(e[Len(e)] <= now - WindowTicks)
  BY DEF Known, Inactive, Newest, Cutoff
<1>3. k \in Busy <=> a # <<>> /\ a[Len(a)] > now - WindowTicks
  BY DEF Busy, Newest, Cutoff
<1> HIDE DEF a, e
<1>4. CASE e # <<>>
  <2>1. Len(e) \in 1 .. Len(a) /\ e[Len(e)] = a[Len(a)] /\ e[Len(e)] \in Nat
    BY <1>1, <1>4 DEF KeyOK, EndOf
  <2>2. a # <<>>
    BY <1>1, <2>1
  <2> QED
    BY <1>1, <1>2, <1>3, <1>4, <2>1, <2>2, TicksType
<1>5. CASE e = <<>> /\ a # <<>>
  <2>1. Len(e) = 0 /\ Len(a) \in 1 .. (Len(a) - Len(e))
    BY <1>1, <1>5
  <2>2. a[Len(a)] + WindowTicks <= now /\ a[Len(a)] \in Nat
    BY <1>1, <2>1 DEF KeyOK, RestExpired
  <2> QED
    BY <1>1, <1>2, <1>3, <1>5, <2>2, TicksType
<1> QED
  BY <1>2, <1>3, <1>4, <1>5

\* Who is told something new, and what.
LEMMA WhoIsTold ==
    ASSUME LimiterInv, [LimiterNext]_<<now, limiter>>, NEW k \in Keys
    PROVE  \/ told'[k] = told[k]
           \/ TurnAway(k) /\ told'[k].kind = "full"
           \/ Refuse(k) /\ told'[k].kind = "refused"
           \/ Admit(k) /\ told'[k].kind = "free"
<1>1. told \in [Keys -> Answers]
  BY DEF LimiterInv, Values
<1>2. CASE Tick \/ UNCHANGED <<now, limiter>>
  BY <1>2 DEF Tick, limiter
<1>3. ASSUME NEW j \in Keys, Consume(j)
      PROVE  \/ told'[k] = told[k]
             \/ TurnAway(k) /\ told'[k].kind = "full"
             \/ Refuse(k) /\ told'[k].kind = "refused"
             \/ Admit(k) /\ told'[k].kind = "free"
  <2>1. CASE TurnAway(j)
    BY <1>1, <2>1 DEF TurnAway, Tell
  <2>2. CASE Refuse(j)
    <3>1. PICK s : told' = [told EXCEPT ![j] = RefusedFor(s)]
      BY <2>2 DEF Refuse, Tell
    <3> QED
      BY <1>1, <2>2, <3>1 DEF RefusedFor
  <2>3. CASE Admit(j)
    BY <1>1, <2>3 DEF Admit, Tell
  <2> QED
    BY <1>3, <2>1, <2>2, <2>3 DEF Consume
<1> QED
  BY <1>2, <1>3 DEF LimiterNext

\* Retry-After is long enough (infrastructure.py:337) for every limit, window and
\* resolution of the clock.
THEOREM RetryAfterIsEnough == LimiterSpec => RetryAfterSuffices
<1>1. LimiterInv /\ [LimiterNext]_<<now, limiter>> =>
        [\A k \in Keys :
            /\ told[k].kind = "refused"
            /\ now >= told[k].retryAt
            => told'[k] = told[k] \/ told'[k].kind # "refused"]_<<now, limiter>>
  <2> SUFFICES ASSUME LimiterInv, [LimiterNext]_<<now, limiter>>, NEW k \in Keys,
                      told[k].kind = "refused", now >= told[k].retryAt
               PROVE  told'[k] = told[k] \/ told'[k].kind # "refused"
    OBVIOUS
  <2>1. ~Refuse(k)
    BY WaitedEnough
  <2>2. told'[k] = told[k] \/ told'[k].kind = "full" \/ told'[k].kind = "free"
    BY <2>1, WhoIsTold
  <2> QED
    BY <2>2
<1> QED
  BY <1>1, LimiterInvariant, PTL DEF LimiterSpec, RetryAfterSuffices

\* A newcomer is turned away only while MaxKeys others were let through within
\* the window (infrastructure.py:321-333), for every table size.
THEOREM TurnedAwayOnlyWhenBusy == LimiterSpec => FullOnlyWhenBusy
<1>1. LimiterInv /\ [LimiterNext]_<<now, limiter>> =>
        [\A k \in Keys :
            told'[k] # told[k] /\ told'[k].kind = "full" =>
                Cardinality(Busy) >= MaxKeys /\ k \notin Busy]_<<now, limiter>>
  <2> SUFFICES ASSUME LimiterInv, [LimiterNext]_<<now, limiter>>, NEW k \in Keys,
                      told'[k] # told[k], told'[k].kind = "full"
               PROVE  Cardinality(Busy) >= MaxKeys /\ k \notin Busy
    OBVIOUS
  <2>1. TurnAway(k)
    BY WhoIsTold
  <2>2. k \notin Known /\ Cardinality(Known) >= MaxKeys
    BY <2>1 DEF TurnAway, TableFull
  <2> QED
    BY <2>2, KnownAreBusy
<1> QED
  BY <1>1, LimiterInvariant, PTL DEF LimiterSpec, FullOnlyWhenBusy
================================================================================
