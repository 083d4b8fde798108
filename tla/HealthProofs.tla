---------------------------- MODULE HealthProofs ----------------------------
(***************************************************************************)
(* For samples of any admissible length and content: the loop over         *)
(* stretches never finds more of a byte than the count of bytes has; every *)
(* loop computes what its statistic is about; and a sample flagged by      *)
(* itself fails the poker test.                                            *)
(***************************************************************************)
EXTENDS HealthTests, SequenceTheorems, FiniteSetTheorems, TLAPS

Occurring == {sample[i] : i \in DOMAIN sample}

LoopTypes ==
  /\ sample \in Inputs
  /\ read \in 0..Len(sample)
  /\ bytes \in [Occurring -> Nat]
  /\ stretch \in [run : Nat, best : Nat]
  /\ judged => read = Len(sample)

\* A stretch that ends here, and the longest one so far, are made of bytes that
\* are counted.
StretchCounted ==
  IF read = 0 THEN stretch.run = 1 /\ stretch.best = 1
  ELSE /\ stretch.run <= bytes[sample[read]]
       /\ \E b \in Occurring : stretch.best <= bytes[b]

StretchInv == LoopTypes /\ StretchCounted /\ DominanceDecides

-----------------------------------------------------------------------------

LEMMA SampleTyped ==
  ASSUME LoopTypes
  PROVE  /\ Len(sample) \in Nat /\ Len(sample) >= 64
         /\ DOMAIN sample = 1..Len(sample)
<1>1. sample \in Seq(Byte) /\ Len(sample) \in MinWindowBytes..MaxWindowBytes
  BY HealthAssumption DEF LoopTypes
<1>2. Len(sample) \in Nat /\ DOMAIN sample = 1..Len(sample)
  BY <1>1, LenProperties
<1>3. \A n \in MinWindowBytes..MaxWindowBytes : n >= 64
  BY DEF MinWindowBytes, MaxWindowBytes
<1>4. Len(sample) >= 64
  BY <1>1, <1>3, Zenon
<1> QED BY <1>2, <1>4

LEMMA StretchInit == HealthInit => StretchInv
<1> SUFFICES ASSUME HealthInit PROVE StretchInv
  OBVIOUS
<1>1. sample \in Seq(Byte)
  BY HealthAssumption DEF HealthInit
<1>2. Len(sample) \in Nat
  BY <1>1, LenProperties
<1> QED BY <1>2 DEF HealthInit, StretchInv, LoopTypes, StretchCounted, DominanceDecides, Occurring

\* One more byte: the stretch that ends with it grows by one with its count.
LEMMA ReadKeeps ==
  ASSUME StretchInv, ReadByte
  PROVE  StretchInv'
<1>0. LoopTypes /\ StretchCounted /\ DominanceDecides
  BY DEF StretchInv
<1>1. PICK b \in Occurring : b = sample[read + 1]
  BY <1>0, SampleTyped DEF ReadByte, LoopTypes, Occurring
<1>2. /\ UNCHANGED <<sample, degenerate, judged>>
      /\ read' = read + 1 /\ read \in Nat /\ read < Len(sample) /\ Len(sample) \in Nat
  BY <1>0, SampleTyped DEF ReadByte, LoopTypes
<1>3. /\ bytes' \in [Occurring -> Nat]
      /\ bytes'[b] = bytes[b] + 1
      /\ \A c \in Occurring : bytes[c] \in Nat /\ bytes'[c] >= bytes[c]
  BY <1>0, <1>1 DEF ReadByte, LoopTypes, Count
<1>4. PICK run \in Nat : run = RunLength(stretch.run, read > 0 /\ b = sample[read])
  BY <1>0 DEF LoopTypes, RunLength
<1>5. stretch' = [run |-> run, best |-> Larger(stretch.best, run)]
  BY <1>1, <1>4 DEF ReadByte, Stretch
<1>6. stretch.run \in Nat /\ stretch.best \in Nat
  BY <1>0 DEF LoopTypes
<1>7. run <= bytes'[b]
  <2>1. CASE read = 0
    BY <1>3, <1>4, <2>1 DEF RunLength
  <2>2. CASE read > 0
    <3>1. CASE b = sample[read]
      <4>1. stretch.run <= bytes[b]
        BY <1>0, <2>2, <3>1 DEF StretchCounted
      <4>2. run = stretch.run + 1
        BY <1>4, <2>2, <3>1 DEF RunLength
      <4> QED BY <1>3, <1>6, <4>1, <4>2
    <3>2. CASE b # sample[read]
      BY <1>3, <1>4, <3>2 DEF RunLength
    <3> QED BY <3>1, <3>2
  <2> QED BY <1>2, <2>1, <2>2
<1>8. Larger(stretch.best, run) \in Nat
  BY <1>6 DEF Larger
<1>9. \E c \in Occurring : Larger(stretch.best, run) <= bytes'[c]
  <2>1. CASE Larger(stretch.best, run) = run
    BY <1>7, <2>1
  <2>2. CASE Larger(stretch.best, run) = stretch.best /\ read > 0
    <3>1. PICK c \in Occurring : stretch.best <= bytes[c]
      BY <1>0, <2>2 DEF StretchCounted
    <3> QED BY <1>3, <1>6, <2>2, <3>1
  <2>3. CASE read = 0
    <3>1. stretch.best = 1 /\ run = 1
      BY <1>0, <1>4, <2>3 DEF StretchCounted, RunLength
    <3> QED BY <1>7, <3>1 DEF Larger
  <2> QED BY <1>2, <2>1, <2>2, <2>3 DEF Larger
<1>10. LoopTypes'
  BY <1>0, <1>2, <1>3, <1>5, <1>8 DEF LoopTypes, Occurring
<1>11. StretchCounted'
  <2>1. Occurring' = Occurring
    BY <1>2 DEF Occurring
  <2>2. read' # 0 /\ sample'[read'] = b
    BY <1>1, <1>2
  <2>3. stretch'.run = run /\ stretch'.best = Larger(stretch.best, run)
    BY <1>5
  <2> QED BY <1>7, <1>9, <2>1, <2>2, <2>3 DEF StretchCounted
<1>12. ~judged
  BY <1>0, <1>2 DEF LoopTypes
<1> QED BY <1>2, <1>10, <1>11, <1>12 DEF StretchInv, DominanceDecides

\* At the end of the sample: a stretch above 0.9 of it is a byte above 0.9 of it.
LEMMA JudgeKeeps ==
  ASSUME StretchInv, Judge
  PROVE  StretchInv'
<1>0. LoopTypes /\ StretchCounted
  BY DEF StretchInv
<1>1. UNCHANGED <<sample, read, bytes, stretch>> /\ read = Len(sample) /\ judged'
      /\ degenerate' = (StretchScores \/ DominantScores)
  BY DEF Judge, sampleVars
<1>2. Len(sample) \in Nat /\ Len(sample) >= 64
  BY <1>0, SampleTyped
<1>3. DOMAIN bytes = Occurring
  BY <1>0 DEF LoopTypes
<1>4. StretchScores => DominantScores
  <2> SUFFICES ASSUME StretchScores PROVE DominantScores
    OBVIOUS
  <2>1. PICK b \in Occurring : stretch.best <= bytes[b]
    BY <1>0, <1>1, <1>2 DEF StretchCounted
  <2>2. stretch.best \in Nat /\ bytes[b] \in Nat
    BY <1>0 DEF LoopTypes
  <2>3. 10 * bytes[b] > 9 * Len(sample)
    BY <1>2, <2>1, <2>2 DEF StretchScores
  <2> QED BY <1>3, <2>3 DEF DominantScores
<1>5. DominanceDecides'
  BY <1>1, <1>4 DEF DominanceDecides, DominantScores
<1>6. LoopTypes' /\ StretchCounted'
  BY <1>0, <1>1 DEF LoopTypes, StretchCounted, Occurring
<1> QED BY <1>5, <1>6 DEF StretchInv

LEMMA StretchInvariant == HealthSpec => []StretchInv
<1>1. HealthInit => StretchInv
  BY StretchInit
<1>2. StretchInv /\ [HealthNext]_healthVars => StretchInv'
  <2> SUFFICES ASSUME StretchInv, [HealthNext]_healthVars PROVE StretchInv'
    OBVIOUS
  <2>1. CASE ReadByte
    BY <2>1, ReadKeeps
  <2>2. CASE Judge
    BY <2>2, JudgeKeeps
  <2>3. CASE UNCHANGED healthVars
    BY <2>3 DEF healthVars, sampleVars, StretchInv, LoopTypes, StretchCounted, Occurring,
               DominanceDecides, DominantScores
  <2> QED BY <2>1, <2>2, <2>3 DEF HealthNext
<1> QED BY <1>1, <1>2, PTL DEF HealthSpec

\* DetectRepetition flags a sample for a long stretch of one byte only if it flags
\* it for the dominance of that byte as well, whatever the sample.
THEOREM DominanceSuffices == HealthSpec => []DominanceDecides
<1>1. StretchInv => DominanceDecides
  BY DEF StretchInv
<1> QED BY <1>1, StretchInvariant, PTL

-----------------------------------------------------------------------------
(* Every loop computes what its statistic is about, for any sample.        *)

\* The stretch of equal values that ends at n has length r, in a function f on 1..n.
EndsWith(f, n, r) ==
  /\ r \in 1..n
  /\ \A j \in (n - r + 1)..n : f[j] = f[n]
  /\ r < n => f[n - r] # f[n]

\* m is the length of the longest stretch of equal values in f up to n.
LongestIn(f, n, m) ==
  /\ m \in 1..n
  /\ \E k \in 1..(n - m + 1) : \A j \in k..(k + m - 1) : f[j] = f[k]
  /\ \A k \in 1..(n - m) : \E j \in k..(k + m) : f[j] # f[k]

\* What a loop over stretches keeps: the one that ends here and the longest.
Stretches(f, n, r, m) ==
  IF n = 0 THEN r = 1 /\ m = 1 ELSE EndsWith(f, n, r) /\ LongestIn(f, n, m) /\ r <= m

\* One turn of such a loop.
LEMMA StretchTurn ==
  ASSUME NEW f, NEW n \in Nat, NEW r \in Nat, NEW m \in Nat, Stretches(f, n, r, m),
         NEW s, s = RunLength(r, n > 0 /\ f[n + 1] = f[n])
  PROVE  s \in Nat /\ Larger(m, s) \in Nat /\ Stretches(f, n + 1, s, Larger(m, s))
<1>1. CASE n = 0
  <2>1. s = 1 /\ m = 1 /\ Larger(m, s) = 1
    BY <1>1 DEF RunLength, Larger, Stretches
  <2>2. EndsWith(f, 1, 1) /\ LongestIn(f, 1, 1)
    BY DEF EndsWith, LongestIn
  <2> QED BY <1>1, <2>1, <2>2 DEF Stretches
<1>2. CASE n > 0
  <2>0. EndsWith(f, n, r) /\ LongestIn(f, n, m) /\ r <= m
    BY <1>2 DEF Stretches
  <2>1. s \in 1..(n + 1) /\ (s = r + 1 \/ s = 1)
    BY <1>2, <2>0 DEF RunLength, EndsWith
  <2>2. /\ \A j \in (n + 1 - s + 1)..(n + 1) : f[j] = f[n + 1]
        /\ s < n + 1 => f[n + 1 - s] # f[n + 1]
    <3>1. CASE f[n + 1] = f[n]
      <4>1. s = r + 1
        BY <1>2, <3>1 DEF RunLength
      <4>2. n + 1 - s = n - r /\ n + 1 - s + 1 = n - r + 1
        BY <4>1
      <4>3. \A j \in (n - r + 1)..(n + 1) : j = n + 1 \/ j \in (n - r + 1)..n
        OBVIOUS
      <4>4. \A j \in (n - r + 1)..(n + 1) : f[j] = f[n + 1]
        BY <2>0, <3>1, <4>3 DEF EndsWith
      <4>5. s < n + 1 => f[n - r] # f[n + 1]
        BY <2>0, <3>1, <4>1 DEF EndsWith
      <4> QED BY <4>2, <4>4, <4>5
    <3>2. CASE f[n + 1] # f[n]
      <4>1. s = 1
        BY <3>2 DEF RunLength
      <4>2. n + 1 - s = n /\ n + 1 - s + 1 = n + 1
        BY <4>1
      <4>3. \A j \in (n + 1)..(n + 1) : j = n + 1
        OBVIOUS
      <4> QED BY <3>2, <4>2, <4>3
    <3> QED BY <3>1, <3>2
  <2>3. EndsWith(f, n + 1, s)
    BY <2>1, <2>2 DEF EndsWith
  <2> DEFINE t == Larger(m, s)
  <2>4. t \in 1..(n + 1) /\ s <= t /\ m <= t /\ (t = m \/ t = s)
    BY <2>0, <2>1 DEF Larger, LongestIn
  <2> HIDE DEF t
  <2>5. \E k \in 1..(n + 1 - t + 1) : \A j \in k..(k + t - 1) : f[j] = f[k]
    <3>1. CASE t = m
      <4>1. PICK k \in 1..(n - m + 1) : \A j \in k..(k + m - 1) : f[j] = f[k]
        BY <2>0 DEF LongestIn
      <4>2. k \in 1..(n + 1 - t + 1)
        BY <3>1
      <4> QED BY <3>1, <4>1, <4>2
    <3>2. CASE t = s
      <4>1. n + 1 - s + 1 \in 1..(n + 1 - t + 1) /\ (n + 1 - s + 1) + t - 1 = n + 1
        BY <2>1, <3>2
      <4>2. \A j \in (n + 1 - s + 1)..(n + 1) : f[j] = f[n + 1 - s + 1]
        BY <2>1, <2>2
      <4> QED BY <4>1, <4>2
    <3> QED BY <2>4, <3>1, <3>2
  <2>6. ASSUME NEW k \in 1..(n + 1 - t) PROVE \E j \in k..(k + t) : f[j] # f[k]
    <3>1. CASE k + t <= n
      <4>1. k \in 1..(n - m)
        BY <2>4, <3>1
      <4>2. PICK j \in k..(k + m) : f[j] # f[k]
        BY <2>0, <4>1 DEF LongestIn
      <4>3. j \in k..(k + t)
        BY <2>4
      <4> QED BY <4>2, <4>3
    <3>2. CASE k + t = n + 1
      <4>1. n + 1 - s \in k..(k + t) /\ n + 1 \in k..(k + t) /\ s < n + 1
        BY <2>1, <2>4, <3>2
      <4> QED BY <2>2, <4>1
    <3> QED BY <2>4, <3>1, <3>2
  <2>7. LongestIn(f, n + 1, t)
    BY <2>4, <2>5, <2>6 DEF LongestIn
  <2> QED BY <2>1, <2>3, <2>4, <2>7 DEF Stretches, t
<1> QED BY <1>1, <1>2

\* Counting one more position of 1..n.
LEMMA CountOne ==
  ASSUME NEW n \in Nat, NEW S \in SUBSET (1..n), NEW T
  PROVE  /\ Cardinality(S) \in Nat
         /\ T = S \cup {n + 1} => Cardinality(T) = Cardinality(S) + 1
<1>1. IsFiniteSet(1..n)
  BY FS_Interval
<1>2. IsFiniteSet(S)
  BY <1>1, FS_Subset
<1>3. n + 1 \notin S
  OBVIOUS
<1> QED BY <1>2, <1>3, FS_CardinalityType, FS_AddElement

\* The locals of the loops over bits, after n of them.
BitsExact(f, l, n) ==
  /\ l \in [last : Int, sum : Int, runs : Nat, run : Nat, maxRun : Nat]
  /\ l.last = IF n = 0 THEN NoBit ELSE f[n]
  /\ l.sum = 2 * Cardinality({k \in 1..n : f[k] = 1}) - n
  /\ l.runs = 1 + Cardinality({k \in 2..n : f[k] # f[k - 1]})
  /\ Stretches(f, n, l.run, l.maxRun)

LEMMA BitTurnFields ==
  ASSUME NEW l, NEW bit, NEW run, run = RunLength(l.run, bit = l.last),
         NEW runs, runs = IF l.last \in {bit, NoBit} THEN l.runs ELSE l.runs + 1
  PROVE  BitTurn(l, bit) = [last |-> bit, sum |-> l.sum + 2 * bit - 1, runs |-> runs, run |-> run,
                            maxRun |-> Larger(l.maxRun, run)]
BY Zenon DEF BitTurn

LEMMA BitTurnExact ==
  ASSUME NEW f, NEW n \in Nat, \A k \in 1..(n + 1) : f[k] \in {0, 1}, NEW l, BitsExact(f, l, n)
  PROVE  BitsExact(f, BitTurn(l, f[n + 1]), n + 1)
<1>0. PICK bit : bit = f[n + 1]
  OBVIOUS
<1> DEFINE ones == {k \in 1..n : f[k] = 1}
           cuts == {k \in 2..n : f[k] # f[k - 1]}
<1>1. /\ l.last \in Int /\ l.sum \in Int /\ l.runs \in Nat /\ l.run \in Nat /\ l.maxRun \in Nat
      /\ l.last = IF n = 0 THEN NoBit ELSE f[n]
      /\ l.sum = 2 * Cardinality(ones) - n /\ l.runs = 1 + Cardinality(cuts)
      /\ Stretches(f, n, l.run, l.maxRun)
  BY DEF BitsExact
<1>2. bit \in {0, 1} /\ (bit = l.last <=> n > 0 /\ f[n + 1] = f[n])
      /\ (l.last \in {bit, NoBit} <=> n = 0 \/ f[n + 1] = f[n])
  BY <1>0, <1>1 DEF NoBit
<1>3. PICK run : run = RunLength(l.run, bit = l.last)
  OBVIOUS
<1>4. PICK runs : runs = IF l.last \in {bit, NoBit} THEN l.runs ELSE l.runs + 1
  OBVIOUS
<1>5. run \in Nat /\ Larger(l.maxRun, run) \in Nat
      /\ Stretches(f, n + 1, run, Larger(l.maxRun, run))
  <2>1. run = RunLength(l.run, n > 0 /\ f[n + 1] = f[n])
    BY <1>2, <1>3 DEF RunLength
  <2> QED BY <1>1, <2>1, StretchTurn
<1>6. l.sum + 2 * bit - 1 = 2 * Cardinality({k \in 1..(n + 1) : f[k] = 1}) - (n + 1)
  <2> DEFINE new == {k \in 1..(n + 1) : f[k] = 1}
  <2>1. (bit = 1 => new = ones \cup {n + 1}) /\ (bit = 0 => new = ones)
    BY <1>0
  <2>2. ones \in SUBSET (1..n)
    OBVIOUS
  <2> HIDE DEF ones, new
  <2>3. Cardinality(ones) \in Nat /\ Cardinality(new) = Cardinality(ones) + bit
    BY <1>2, <2>1, <2>2, CountOne
  <2>4. l.sum + 2 * bit - 1 = 2 * Cardinality(new) - (n + 1)
    BY <1>1, <1>2, <2>3
  <2> QED BY <2>4 DEF new
<1>7. runs = 1 + Cardinality({k \in 2..(n + 1) : f[k] # f[k - 1]})
  <2> DEFINE new == {k \in 2..(n + 1) : f[k] # f[k - 1]}
  <2>1. /\ n = 0 \/ f[n + 1] = f[n] => new = cuts
        /\ n > 0 /\ f[n + 1] # f[n] => new = cuts \cup {n + 1}
    OBVIOUS
  <2>2. cuts \in SUBSET (1..n)
    OBVIOUS
  <2> HIDE DEF cuts, new
  <2>3. /\ Cardinality(cuts) \in Nat
        /\ l.last \in {bit, NoBit} => Cardinality(new) = Cardinality(cuts)
        /\ l.last \notin {bit, NoBit} => Cardinality(new) = Cardinality(cuts) + 1
    BY <1>2, <2>1, <2>2, CountOne
  <2>4. runs = 1 + Cardinality(new)
    BY <1>1, <1>4, <2>3
  <2> QED BY <2>4 DEF new
<1>8. BitTurn(l, bit) = [last |-> bit, sum |-> l.sum + 2 * bit - 1, runs |-> runs, run |-> run,
                         maxRun |-> Larger(l.maxRun, run)]
  BY <1>3, <1>4, BitTurnFields
<1>9. l.sum + 2 * bit - 1 \in Int /\ runs \in Nat /\ bit \in Int
  BY <1>1, <1>2, <1>4
<1>10. PICK t : t = BitTurn(l, bit)
  OBVIOUS
<1>11. BitsExact(f, t, n + 1)
  BY <1>0, <1>5, <1>6, <1>7, <1>8, <1>9, <1>10 DEF BitsExact
<1> QED BY <1>0, <1>10, <1>11

\* The turns a byte takes, one by one.
LEMMA TurnByTurn ==
  ASSUME NEW l, NEW b
  PROVE  \E t : /\ t[0] = l /\ ByteTurns(l, b) = t[8]
               /\ \A j \in 1..8 : t[j] = BitTurn(t[j - 1], BitOf(b, j))
<1> DEFINE Follows(t) == t = [j \in 0..8 |-> IF j = 0 THEN l ELSE BitTurn(t[j - 1], BitOf(b, j))]
<1>1. PICK t1 : t1 = BitTurn(l, BitOf(b, 1))
  OBVIOUS
<1>2. PICK t2 : t2 = BitTurn(t1, BitOf(b, 2))
  OBVIOUS
<1>3. PICK t3 : t3 = BitTurn(t2, BitOf(b, 3))
  OBVIOUS
<1>4. PICK t4 : t4 = BitTurn(t3, BitOf(b, 4))
  OBVIOUS
<1>5. PICK t5 : t5 = BitTurn(t4, BitOf(b, 5))
  OBVIOUS
<1>6. PICK t6 : t6 = BitTurn(t5, BitOf(b, 6))
  OBVIOUS
<1>7. PICK t7 : t7 = BitTurn(t6, BitOf(b, 7))
  OBVIOUS
<1>8. PICK t8 : t8 = BitTurn(t7, BitOf(b, 8))
  OBVIOUS
<1>9. \E t : Follows(t)
  <2> DEFINE t == [j \in 0..8 |->
                     CASE j = 0 -> l  [] j = 1 -> t1 [] j = 2 -> t2
                       [] j = 3 -> t3 [] j = 4 -> t4 [] j = 5 -> t5
                       [] j = 6 -> t6 [] j = 7 -> t7 [] j = 8 -> t8]
  <2>1. /\ DOMAIN t = 0..8 /\ t[0] = l /\ t[1] = t1 /\ t[2] = t2 /\ t[3] = t3 /\ t[4] = t4
        /\ t[5] = t5 /\ t[6] = t6 /\ t[7] = t7 /\ t[8] = t8
    OBVIOUS
  <2>2. t = [j \in 0..8 |-> t[j]]
    OBVIOUS
  <2> HIDE DEF t
  <2>3. \A j \in 1..8 : t[j] = BitTurn(t[j - 1], BitOf(b, j))
    <3>1. \A j \in 1..8 : j = 1 \/ j = 2 \/ j = 3 \/ j = 4 \/ j = 5 \/ j = 6 \/ j = 7 \/ j = 8
      OBVIOUS
    <3> QED BY <1>1, <1>2, <1>3, <1>4, <1>5, <1>6, <1>7, <1>8, <2>1, <3>1
  <2>4. \A j \in 0..8 : t[j] = IF j = 0 THEN l ELSE BitTurn(t[j - 1], BitOf(b, j))
    BY <2>1, <2>3
  <2> QED BY <2>2, <2>4
<1>10. PICK t : t = CHOOSE g : Follows(g)
  OBVIOUS
<1>11. Follows(t)
  BY <1>9, <1>10
<1>12. ByteTurns(l, b) = t[8]
  BY <1>10 DEF ByteTurns
<1> QED BY <1>11, <1>12

LEMMA ByteTurnsExact ==
  ASSUME NEW f, NEW n \in Nat, NEW b, \A j \in 1..8 : f[n + j] = BitOf(b, j),
         \A k \in 1..(n + 8) : f[k] \in {0, 1}, NEW l, BitsExact(f, l, n)
  PROVE  BitsExact(f, ByteTurns(l, b), n + 8)
<1>1. PICK t : /\ t[0] = l /\ ByteTurns(l, b) = t[8]
               /\ \A j \in 1..8 : t[j] = BitTurn(t[j - 1], BitOf(b, j))
  BY TurnByTurn
<1>2. ASSUME NEW j \in 0..7, BitsExact(f, t[j], n + j)
      PROVE  BitsExact(f, t[j + 1], n + (j + 1))
  <2>1. n + j \in Nat /\ j + 1 \in 1..8 /\ (j + 1) - 1 = j /\ (n + j) + 1 = n + (j + 1)
    OBVIOUS
  <2>2. t[j + 1] = BitTurn(t[j], f[(n + j) + 1])
    BY <1>1, <2>1
  <2>3. \A k \in 1..((n + j) + 1) : f[k] \in {0, 1}
    OBVIOUS
  <2>4. BitsExact(f, BitTurn(t[j], f[(n + j) + 1]), (n + j) + 1)
    BY <1>2, <2>1, <2>3, BitTurnExact
  <2> QED BY <2>1, <2>2, <2>4
<1>3. BitsExact(f, t[0], n + 0)
  BY <1>1
<1>4. /\ 0 + 1 = 1 /\ 1 + 1 = 2 /\ 2 + 1 = 3 /\ 3 + 1 = 4 /\ 4 + 1 = 5 /\ 5 + 1 = 6
      /\ 6 + 1 = 7 /\ 7 + 1 = 8 /\ \A j \in {0, 1, 2, 3, 4, 5, 6, 7} : j \in 0..7
  OBVIOUS
<1>5. BitsExact(f, t[4], n + 4)
  BY <1>2, <1>3, <1>4
<1>6. BitsExact(f, t[8], n + 8)
  BY <1>2, <1>4, <1>5
<1> QED BY <1>1, <1>6

BitSeq == [k \in 1..(8 * Len(sample)) |-> BitAt(k)]

High(v, n) == {i \in 1..n : sample[i] \div 16 = v}
Low(v, n)  == {i \in 1..n : sample[i] % 16 = v}
Equal(b, n) == {i \in 1..n : sample[i] = b}

\* The loops, with the stretches that may still grow.
ExactInv ==
  /\ LoopTypes
  /\ BitsExact(BitSeq, bits, 8 * read)
  /\ Stretches(sample, read, stretch.run, stretch.best)
  /\ nibbles \in [0..15 -> Nat]
  /\ \A v \in 0..15 : nibbles[v] = Cardinality(High(v, read)) + Cardinality(Low(v, read))
  /\ \A b \in Occurring : bytes[b] = Cardinality(Equal(b, read))

LEMMA BitIsBit ==
  ASSUME NEW b \in Byte, NEW j \in 1..8
  PROVE  BitOf(b, j) \in {0, 1}
<1>1. Weight[j] \in {128, 64, 32, 16, 8, 4, 2, 1}
  <2>1. j = 1 \/ j = 2 \/ j = 3 \/ j = 4 \/ j = 5 \/ j = 6 \/ j = 7 \/ j = 8
    OBVIOUS
  <2> QED BY <2>1 DEF Weight
<1>2. PICK w \in {128, 64, 32, 16, 8, 4, 2, 1} : w = Weight[j]
  BY <1>1
<1>3. b \div w \in Int
  BY DEF Byte
<1>4. PICK q \in Int : q = b \div w
  BY <1>3
<1>5. q % 2 \in {0, 1}
  OBVIOUS
<1> QED BY <1>2, <1>4, <1>5 DEF BitOf

\* The bits of the sample, byte by byte.
LEMMA BitsOfByte ==
  ASSUME LoopTypes, read < Len(sample)
  PROVE  /\ \A j \in 1..8 : BitSeq[8 * read + j] = BitOf(sample[read + 1], j)
         /\ \A k \in 1..(8 * Len(sample)) : BitSeq[k] \in {0, 1}
<1>0. Len(sample) \in Nat /\ DOMAIN sample = 1..Len(sample) /\ read \in Nat
      /\ \A i \in 1..Len(sample) : sample[i] \in Byte
  <2>1. sample \in Seq(Byte)
    BY HealthAssumption DEF LoopTypes
  <2> QED BY <2>1, SampleTyped, ElementOfSeq DEF LoopTypes
<1>1. PICK len \in Nat : len = Len(sample)
  BY <1>0
<1>2. ASSUME NEW j \in 1..8 PROVE BitSeq[8 * read + j] = BitOf(sample[read + 1], j)
  <2>1. 8 * read + j \in 1..(8 * len)
    BY <1>0, <1>1
  <2>2. (8 * read + j - 1) \div 8 = read /\ (8 * read + j - 1) % 8 = j - 1
    BY <1>0
  <2>3. BitSeq[8 * read + j] = BitAt(8 * read + j)
    BY <1>1, <2>1 DEF BitSeq
  <2>4. PICK k : k = 8 * read + j
    OBVIOUS
  <2>5. ((k - 1) \div 8) + 1 = read + 1 /\ ((k - 1) % 8) + 1 = j
    BY <1>0, <2>2, <2>4
  <2>6. BitAt(k) = BitOf(sample[read + 1], j)
    BY <2>5 DEF BitAt
  <2> QED BY <2>3, <2>4, <2>6
<1>3. ASSUME NEW k \in 1..(8 * len) PROVE BitSeq[k] \in {0, 1}
  <2>1. /\ ((k - 1) \div 8) + 1 \in 1..len
        /\ ((k - 1) % 8) + 1 \in 1..8
    OBVIOUS
  <2>2. PICK i \in 1..len : i = ((k - 1) \div 8) + 1
    BY <2>1
  <2>3. PICK j \in 1..8 : j = ((k - 1) % 8) + 1
    BY <2>1
  <2>4. BitSeq[k] = BitOf(sample[i], j)
    BY <1>1, <2>2, <2>3 DEF BitSeq, BitAt
  <2>5. sample[i] \in Byte
    BY <1>0, <1>1
  <2> QED BY <2>4, <2>5, BitIsBit
<1> QED BY <1>1, <1>2, <1>3

LEMMA ExactInit == HealthInit => ExactInv
<1> SUFFICES ASSUME HealthInit PROVE ExactInv
  OBVIOUS
<1>1. LoopTypes /\ read = 0
  BY StretchInit DEF StretchInv, HealthInit
<1>2. /\ {k \in 1..0 : BitSeq[k] = 1} = {} /\ {k \in 2..0 : BitSeq[k] # BitSeq[k - 1]} = {}
      /\ Cardinality({}) = 0
  BY FS_EmptySet
<1>3. BitsExact(BitSeq, bits, 0)
  <2> HIDE DEF BitSeq
  <2>1. bits = [last |-> NoBit, sum |-> 0, runs |-> 1, run |-> 1, maxRun |-> 1]
    BY DEF HealthInit
  <2> QED BY <1>2, <2>1 DEF BitsExact, Stretches, NoBit
<1>4. Stretches(sample, read, stretch.run, stretch.best)
  BY <1>1 DEF HealthInit, Stretches
<1>5. \A v : High(v, 0) = {} /\ Low(v, 0) = {} /\ Equal(v, 0) = {}
  BY DEF High, Low, Equal
<1>6. /\ nibbles \in [0..15 -> Nat]
      /\ \A v \in 0..15 : nibbles[v] = Cardinality(High(v, read)) + Cardinality(Low(v, read))
  <2>1. nibbles = [v \in 0..15 |-> 0]
    BY DEF HealthInit
  <2>2. \A v : Cardinality(High(v, read)) = 0 /\ Cardinality(Low(v, read)) = 0
    BY <1>1, <1>2, <1>5
  <2> QED BY <2>1, <2>2
<1>7. \A b \in Occurring : bytes[b] = Cardinality(Equal(b, read))
  BY <1>1, <1>2, <1>5 DEF HealthInit, Occurring
<1>8. 8 * read = 0
  BY <1>1
<1> QED BY <1>1, <1>3, <1>4, <1>6, <1>7, <1>8 DEF ExactInv

\* One more byte, in every loop.
LEMMA ReadExact ==
  ASSUME ExactInv, LoopTypes', ReadByte
  PROVE  ExactInv'
<1>0. LoopTypes /\ read < Len(sample) /\ read \in Nat /\ read' = read + 1 /\ sample' = sample
  BY DEF ExactInv, LoopTypes, ReadByte
<1>1. PICK b \in Byte : b = sample[read + 1]
  <2>1. sample \in Seq(Byte)
    BY <1>0, HealthAssumption DEF LoopTypes
  <2>2. read + 1 \in 1..Len(sample)
    BY <1>0, SampleTyped
  <2> QED BY <2>1, <2>2, ElementOfSeq
<1>2. /\ bits' = ByteTurns(bits, b) /\ stretch' = Stretch(b) /\ bytes' = Count(bytes, b)
      /\ nibbles' = Count(Count(nibbles, b \div 16), b % 16)
  BY <1>1 DEF ReadByte
<1>3. BitsExact(BitSeq, bits, 8 * read)'
  <2>1. PICK f : f = BitSeq
    OBVIOUS
  <2>2. BitSeq' = f
    BY <1>0, <2>1 DEF BitSeq, BitAt
  <2>3. PICK n \in Nat : n = 8 * read
    BY <1>0
  <2>4. /\ \A j \in 1..8 : f[n + j] = BitOf(b, j)
        /\ \A k \in 1..(8 * Len(sample)) : f[k] \in {0, 1}
    BY <1>0, <1>1, <2>1, <2>3, BitsOfByte
  <2>5. \A k \in 1..(n + 8) : k \in 1..(8 * Len(sample))
    BY <1>0, <2>3, SampleTyped
  <2>6. BitsExact(f, bits, n)
    BY <2>1, <2>3 DEF ExactInv
  <2>7. BitsExact(f, ByteTurns(bits, b), n + 8)
    BY <2>4, <2>5, <2>6, ByteTurnsExact
  <2>8. 8 * read' = n + 8
    BY <1>0, <2>3
  <2>9. BitsExact(BitSeq', bits', 8 * read')
    BY <1>2, <2>2, <2>7, <2>8
  <2> QED BY <2>9 DEF BitsExact, Stretches, EndsWith, LongestIn
<1>4. Stretches(sample, read, stretch.run, stretch.best)'
  <2>1. PICK s : s = RunLength(stretch.run, read > 0 /\ sample[read + 1] = sample[read])
    OBVIOUS
  <2>2. stretch' = [run |-> s, best |-> Larger(stretch.best, s)]
    BY <1>1, <1>2, <2>1 DEF Stretch
  <2>3. stretch.run \in Nat /\ stretch.best \in Nat
    BY <1>0 DEF LoopTypes
  <2>4. Stretches(sample, read, stretch.run, stretch.best)
    BY DEF ExactInv
  <2>5. Stretches(sample, read + 1, s, Larger(stretch.best, s))
    BY <1>0, <2>1, <2>3, <2>4, StretchTurn
  <2>6. stretch'.run = s /\ stretch'.best = Larger(stretch.best, s)
    BY <2>2
  <2>7. Stretches(sample', read', stretch'.run, stretch'.best)
    BY <1>0, <2>5, <2>6
  <2> QED BY <2>7 DEF Stretches, EndsWith, LongestIn
<1>5. /\ nibbles' \in [0..15 -> Nat]
      /\ \A v \in 0..15 : nibbles'[v] = Cardinality(High(v, read))' + Cardinality(Low(v, read))'
  <2>1. PICK h \in 0..15 : h = b \div 16
    BY DEF Byte
  <2>2. PICK l \in 0..15 : l = b % 16
    BY DEF Byte
  <2>3. /\ nibbles \in [0..15 -> Nat]
        /\ \A v \in 0..15 : nibbles[v] = Cardinality(High(v, read)) + Cardinality(Low(v, read))
    BY DEF ExactInv
  <2>4. nibbles' = Count(Count(nibbles, h), l)
    BY <1>2, <2>1, <2>2
  <2>5. /\ nibbles' \in [0..15 -> Nat]
        /\ \A v \in 0..15 :
             nibbles'[v] = nibbles[v] + (IF v = h THEN 1 ELSE 0) + (IF v = l THEN 1 ELSE 0)
    BY <2>3, <2>4 DEF Count
  <2>6. ASSUME NEW v \in 0..15
        PROVE  nibbles'[v] = Cardinality(High(v, read))' + Cardinality(Low(v, read))'
    <3>1. High(v, read) \in SUBSET (1..read) /\ Low(v, read) \in SUBSET (1..read)
      BY DEF High, Low
    <3>2. /\ h = v => High(v, read)' = High(v, read) \cup {read + 1}
          /\ h # v => High(v, read)' = High(v, read)
      BY <1>0, <1>1, <2>1 DEF High
    <3>3. /\ l = v => Low(v, read)' = Low(v, read) \cup {read + 1}
          /\ l # v => Low(v, read)' = Low(v, read)
      BY <1>0, <1>1, <2>2 DEF Low
    <3>4. /\ Cardinality(High(v, read)) \in Nat
          /\ Cardinality(High(v, read)') = Cardinality(High(v, read)) + (IF v = h THEN 1 ELSE 0)
      BY <1>0, <3>1, <3>2, CountOne
    <3>5. /\ Cardinality(Low(v, read)) \in Nat
          /\ Cardinality(Low(v, read)') = Cardinality(Low(v, read)) + (IF v = l THEN 1 ELSE 0)
      BY <1>0, <3>1, <3>3, CountOne
    <3>6. nibbles[v] = Cardinality(High(v, read)) + Cardinality(Low(v, read))
      BY <2>3
    <3> QED BY <2>5, <3>4, <3>5, <3>6
  <2> QED BY <2>5, <2>6
<1>6. \A c \in Occurring' : bytes'[c] = Cardinality(Equal(c, read))'
  <2>1. Occurring' = Occurring
    BY <1>0 DEF Occurring
  <2>2. b \in Occurring
    <3>1. read + 1 \in DOMAIN sample
      BY <1>0, SampleTyped
    <3> QED BY <1>1, <3>1 DEF Occurring
  <2> SUFFICES ASSUME NEW c \in Occurring PROVE bytes'[c] = Cardinality(Equal(c, read))'
    BY <2>1
  <2>3. bytes \in [Occurring -> Nat] /\ bytes[c] = Cardinality(Equal(c, read))
    BY <1>0 DEF ExactInv, LoopTypes
  <2>4. bytes'[c] = IF c = b THEN bytes[c] + 1 ELSE bytes[c]
    BY <1>2, <2>2, <2>3 DEF Count
  <2>5. Equal(c, read) \in SUBSET (1..read)
    BY DEF Equal
  <2>6. /\ c = b => Equal(c, read)' = Equal(c, read) \cup {read + 1}
        /\ c # b => Equal(c, read)' = Equal(c, read)
    BY <1>0, <1>1 DEF Equal
  <2>7. Cardinality(Equal(c, read)') = IF c = b THEN Cardinality(Equal(c, read)) + 1
                                                ELSE Cardinality(Equal(c, read))
    BY <1>0, <2>5, <2>6, CountOne
  <2> QED BY <2>3, <2>4, <2>7
<1> QED BY <1>3, <1>4, <1>5, <1>6 DEF ExactInv

\* The longest stretch, in the words of LoopsExact.
LEMMA LongestStretch ==
  ASSUME NEW f, NEW n \in Nat, NEW r, NEW m, Stretches(f, n, r, m)
  PROVE  /\ n > 0 => \E k \in 1..(n - m + 1) : \A j \in k..(k + m - 1) : f[j] = f[k]
         /\ \A k \in 1..(n - m) : ~\A j \in k..(k + (m + 1) - 1) : f[j] = f[k]
<1>1. CASE n = 0
  <2>1. m = 1
    BY <1>1 DEF Stretches
  <2> QED BY <1>1, <2>1
<1>2. CASE n > 0
  <2>1. LongestIn(f, n, m) /\ m \in Nat
    BY <1>2 DEF Stretches, LongestIn
  <2>2. \A k \in 1..(n - m) : k + (m + 1) - 1 = k + m
    BY <2>1
  <2> QED BY <2>1, <2>2 DEF LongestIn
<1> QED BY <1>1, <1>2

LEMMA ExactMeans ==
  ASSUME ExactInv
  PROVE  LoopsExact
<1>0. PICK n \in Nat : n = 8 * read
  BY DEF ExactInv, LoopTypes
<1>1. read \in Nat /\ n <= 8 * Len(sample)
  BY <1>0, SampleTyped DEF ExactInv, LoopTypes
<1>2. \A k \in 1..n : BitSeq[k] = BitAt(k)
  <2>1. \A k \in 1..n : k \in 1..(8 * Len(sample))
    BY <1>0, <1>1, SampleTyped DEF ExactInv
  <2> QED BY <2>1 DEF BitSeq
<1>3. BitsExact(BitSeq, bits, n)
  BY <1>0 DEF ExactInv
<1> HIDE DEF BitSeq
<1>4. bits.sum = 2 * Cardinality({k \in 1..n : BitAt(k) = 1}) - n
  <2>1. {k \in 1..n : BitAt(k) = 1} = {k \in 1..n : BitSeq[k] = 1}
    BY <1>2
  <2> QED BY <1>3, <2>1 DEF BitsExact
<1>5. bits.runs = 1 + Cardinality({k \in 2..n : BitAt(k) # BitAt(k - 1)})
  <2>1. \A k \in 2..n : k \in 1..n /\ k - 1 \in 1..n
    OBVIOUS
  <2>2. {k \in 2..n : BitAt(k) # BitAt(k - 1)} = {k \in 2..n : BitSeq[k] # BitSeq[k - 1]}
    BY <1>2, <2>1
  <2> QED BY <1>3, <2>2 DEF BitsExact
<1>6. Longest(BitAt, n, bits.maxRun)
  <2>1. PICK m : m = bits.maxRun
    OBVIOUS
  <2>2. Stretches(BitSeq, n, bits.run, m) /\ m \in Nat
    BY <1>3, <2>1 DEF BitsExact
  <2>3. /\ n > 0 => \E k \in 1..(n - m + 1) : \A j \in k..(k + m - 1) : BitSeq[j] = BitSeq[k]
        /\ \A k \in 1..(n - m) : ~\A j \in k..(k + (m + 1) - 1) : BitSeq[j] = BitSeq[k]
    BY <2>2, LongestStretch
  <2>4. n > 0 => \E k \in 1..(n - m + 1) : \A j \in k..(k + m - 1) : BitAt(j) = BitAt(k)
    <3> SUFFICES ASSUME n > 0
                 PROVE  \E k \in 1..(n - m + 1) : \A j \in k..(k + m - 1) : BitAt(j) = BitAt(k)
      OBVIOUS
    <3>1. PICK k \in 1..(n - m + 1) : \A j \in k..(k + m - 1) : BitSeq[j] = BitSeq[k]
      BY <2>3
    <3>2. m >= 1
      BY <2>2 DEF Stretches, LongestIn
    <3>3. k \in 1..n /\ \A j \in k..(k + m - 1) : j \in 1..n
      BY <2>2, <3>2
    <3> QED BY <1>2, <3>1, <3>3
  <2>5. ASSUME NEW k \in 1..(n - m), \A j \in k..(k + (m + 1) - 1) : BitAt(j) = BitAt(k) PROVE FALSE
    <3>1. k \in 1..n /\ \A j \in k..(k + (m + 1) - 1) : j \in 1..n
      BY <2>2
    <3> QED BY <1>2, <2>3, <2>5, <3>1
  <2> QED BY <2>1, <2>4, <2>5 DEF Longest, Constant
<1>7. Longest(LAMBDA i : sample[i], read, stretch.best)
  <2>1. PICK m : m = stretch.best
    OBVIOUS
  <2>2. Stretches(sample, read, stretch.run, m)
    BY <2>1 DEF ExactInv
  <2>3. /\ read > 0 => \E k \in 1..(read - m + 1) : \A j \in k..(k + m - 1) : sample[j] = sample[k]
        /\ \A k \in 1..(read - m) : ~\A j \in k..(k + (m + 1) - 1) : sample[j] = sample[k]
    BY <1>1, <2>2, LongestStretch
  <2> QED BY <2>1, <2>3 DEF Longest, Constant
<1>8. /\ \A v \in 0..15 : nibbles[v] = Cardinality({i \in 1..read : sample[i] \div 16 = v})
                                       + Cardinality({i \in 1..read : sample[i] % 16 = v})
      /\ \A b \in DOMAIN bytes : bytes[b] = Cardinality({i \in 1..read : sample[i] = b})
  BY DEF ExactInv, LoopTypes, High, Low, Equal
<1> QED BY <1>0, <1>4, <1>5, <1>6, <1>7, <1>8 DEF LoopsExact

LEMMA LoopsInvariant == HealthSpec => []ExactInv
<1>1. HealthInit => ExactInv
  BY ExactInit
<1>2. ExactInv /\ StretchInv' /\ [HealthNext]_healthVars => ExactInv'
  <2> SUFFICES ASSUME ExactInv, StretchInv', [HealthNext]_healthVars PROVE ExactInv'
    OBVIOUS
  <2>1. CASE ReadByte
    BY <2>1, ReadExact DEF StretchInv
  <2>2. CASE Judge \/ UNCHANGED healthVars
    <3>1. LoopTypes' /\ UNCHANGED <<sample, read, bits, nibbles, bytes, stretch>>
      BY <2>2 DEF StretchInv, Judge, healthVars, sampleVars
    <3>2. BitSeq' = BitSeq /\ Occurring' = Occurring
      BY <3>1 DEF BitSeq, BitAt, Occurring
    <3>3. BitsExact(BitSeq, bits, 8 * read)'
      BY <3>1, <3>2 DEF ExactInv, BitsExact, Stretches, EndsWith, LongestIn
    <3>4. Stretches(sample, read, stretch.run, stretch.best)'
      BY <3>1 DEF ExactInv, Stretches, EndsWith, LongestIn
    <3> QED BY <3>1, <3>2, <3>3, <3>4 DEF ExactInv, High, Low, Equal
  <2> QED BY <2>1, <2>2 DEF HealthNext
<1> QED BY <1>1, <1>2, StretchInvariant, PTL DEF HealthSpec

\* Monobit, Runs, LongRun, Poker, maxIdenticalRun and dominantByteRatio compute, for any
\* sample and after every byte, exactly the numbers their statistics are defined on.
THEOREM LoopsAreExact == HealthSpec => []LoopsExact
<1>1. ExactInv => LoopsExact
  BY ExactMeans
<1> QED BY <1>1, LoopsInvariant, PTL

-----------------------------------------------------------------------------
(* The poker statistic of a dominated sample.                              *)

Nibble == 0..15

\* What MapThenFoldSet computes on the sets of up to n nibbles.
Small(n) == {s \in SUBSET Nibble : Cardinality(s) <= n}
First(s) == CHOOSE x \in s : TRUE
Sums(g, f, n) ==
  /\ g = [s \in Small(n) |-> g[s]]
  /\ g[{}] = 0
  /\ \A s \in Small(n) : s # {} => g[s] = f[First(s)] * f[First(s)] + g[s \ {First(s)}]

LEMMA SmallSets ==
  /\ Small(0) = {{}}
  /\ Small(16) = SUBSET Nibble
  /\ \A n \in Nat : {} \in Small(n) /\ Small(n) \in SUBSET Small(n + 1)
  /\ \A n \in Nat : \A s \in Small(n + 1) :
       s # {} => First(s) \in s /\ First(s) \in Nibble /\ s \ {First(s)} \in Small(n)
<1>1. IsFiniteSet(Nibble) /\ Cardinality(Nibble) = 16
  <2>1. IsFiniteSet(0..15) /\ Cardinality(0..15) = IF 0 > 15 THEN 0 ELSE 15 - 0 + 1
    <3>1. 0 \in Int /\ 15 \in Int
      OBVIOUS
    <3> QED BY <3>1, FS_Interval, Zenon
  <2> QED BY <2>1 DEF Nibble
<1>2. \A s \in SUBSET Nibble : IsFiniteSet(s) /\ Cardinality(s) \in Nat /\ Cardinality(s) <= 16
  BY <1>1, FS_Subset, FS_CardinalityType
<1>3. \A s \in SUBSET Nibble : Cardinality(s) = 0 <=> s = {}
  BY <1>2, FS_EmptySet
<1>4. Small(0) = {{}}
  <2>1. \A s \in SUBSET Nibble : Cardinality(s) <= 0 <=> s = {}
    BY <1>2, <1>3
  <2>2. \A s : s \in Small(0) <=> s = {}
    BY <2>1 DEF Small
  <2> QED BY <2>2
<1>5. Small(16) = SUBSET Nibble
  BY <1>2 DEF Small
<1>6. \A n \in Nat : {} \in Small(n) /\ Small(n) \in SUBSET Small(n + 1)
  BY <1>2, <1>3 DEF Small
<1>7. ASSUME NEW n \in Nat, NEW s \in Small(n + 1), s # {}
      PROVE  First(s) \in s /\ First(s) \in Nibble /\ s \ {First(s)} \in Small(n)
  <2>1. First(s) \in s
    BY <1>7 DEF First
  <2>2. s \in SUBSET Nibble /\ Cardinality(s) <= n + 1
    BY DEF Small
  <2>3. IsFiniteSet(s) /\ Cardinality(s) \in Nat
    BY <1>2, <2>2
  <2>4. Cardinality(s \ {First(s)}) = Cardinality(s) - 1
    BY <2>1, <2>3, FS_RemoveElement
  <2>5. Cardinality(s \ {First(s)}) <= n
    BY <2>2, <2>3, <2>4
  <2>6. s \ {First(s)} \in SUBSET Nibble
    BY <2>2
  <2> QED BY <2>1, <2>2, <2>5, <2>6 DEF Small
<1> QED BY <1>4, <1>5, <1>6, <1>7

LEMMA SumsExtend ==
  ASSUME NEW f, NEW n \in Nat, \E g : Sums(g, f, n)
  PROVE  \E g : Sums(g, f, n + 1)
<1>1. PICK g : Sums(g, f, n)
  OBVIOUS
<1> DEFINE Term(s) == f[First(s)] * f[First(s)] + g[s \ {First(s)}]
           h == [s \in Small(n + 1) |-> IF s = {} THEN 0 ELSE Term(s)]
<1> HIDE DEF Term
<1>2. /\ h = [s \in Small(n + 1) |-> h[s]]
      /\ h[{}] = 0
      /\ \A s \in Small(n + 1) : s # {} => h[s] = Term(s)
  BY SmallSets
<1> HIDE DEF h
<1>3. ASSUME NEW s \in Small(n) PROVE h[s] = g[s]
  <2>1. s \in Small(n + 1)
    BY SmallSets
  <2>2. CASE s = {}
    BY <1>1, <1>2, <2>2 DEF Sums
  <2>3. CASE s # {}
    BY <1>1, <1>2, <2>1, <2>3 DEF Sums, Term
  <2> QED BY <2>2, <2>3
<1>4. ASSUME NEW s \in Small(n + 1), s # {}
      PROVE  h[s] = f[First(s)] * f[First(s)] + h[s \ {First(s)}]
  <2>1. s \ {First(s)} \in Small(n)
    BY <1>4, SmallSets
  <2>2. h[s \ {First(s)}] = g[s \ {First(s)}]
    BY <1>3, <2>1
  <2> QED BY <1>2, <1>4, <2>2 DEF Term
<1>5. Sums(h, f, n + 1)
  BY <1>2, <1>4 DEF Sums
<1> QED BY <1>5

\* A sum of squares, over all nibbles, and its least value given two of them.
SumAtLeast(g, f, n) ==
  \A s \in Small(n) :
    /\ g[s] \in Nat
    /\ \A v \in s : g[s] >= f[v] * f[v]
    /\ \A v, w \in s : v # w => g[s] >= f[v] * f[v] + f[w] * f[w]

LEMMA SumsBound ==
  ASSUME NEW f, \A v \in Nibble : f[v] * f[v] \in Nat, NEW g, Sums(g, f, 16),
         NEW n \in 0..15, SumAtLeast(g, f, n)
  PROVE  SumAtLeast(g, f, n + 1)
<1>0. n \in Nat
  OBVIOUS
<1>1. Small(n + 1) \in SUBSET Small(16)
  BY SmallSets DEF Small
<1> DEFINE AtLeast(s) == /\ g[s] \in Nat
                         /\ \A v \in s : g[s] >= f[v] * f[v]
                         /\ \A v, w \in s : v # w => g[s] >= f[v] * f[v] + f[w] * f[w]
<1>2. AtLeast({})
  BY DEF Sums
<1>3. SUFFICES ASSUME NEW s \in Small(n + 1), s # {} PROVE AtLeast(s)
  <2> SUFFICES \A s \in Small(n + 1) : AtLeast(s)
    BY DEF SumAtLeast
  <2> HIDE DEF AtLeast
  <2> QED BY <1>2
<1>4. PICK x : x = First(s)
  OBVIOUS
<1>5. PICK r \in Small(n) : r = s \ {x}
  BY <1>0, <1>3, <1>4, SmallSets
<1>6. x \in s /\ x \in Nibble /\ s \in SUBSET Nibble
  BY <1>0, <1>3, <1>4, SmallSets DEF Small
<1> DEFINE Sq(v) == f[v] * f[v]
<1>7. g[s] = Sq(x) + g[r]
  BY <1>1, <1>3, <1>4, <1>5 DEF Sums
<1>8. /\ g[r] \in Nat /\ \A v \in r : g[r] >= Sq(v)
      /\ \A v, w \in r : v # w => g[r] >= Sq(v) + Sq(w)
  BY DEF SumAtLeast
<1>9. \A v \in Nibble : Sq(v) \in Nat
  OBVIOUS
<1> HIDE DEF Sq
<1>10. \A v \in s : v = x \/ v \in r
  BY <1>5
<1>11. g[s] \in Nat /\ \A v \in s : g[s] >= Sq(v)
  BY <1>6, <1>7, <1>8, <1>9, <1>10
<1>12. ASSUME NEW v \in s, NEW w \in s, v # w PROVE g[s] >= Sq(v) + Sq(w)
  BY <1>6, <1>7, <1>8, <1>9, <1>10, <1>12
<1> QED BY <1>11, <1>12 DEF Sq

\* The sum over all nibbles that Poker takes.
SumSq == MapThenSumSet(LAMBDA v : nibbles[v] * nibbles[v], 0..15)

LEMMA SumSqBound ==
  ASSUME NEW f, f = nibbles, \A v \in Nibble : f[v] * f[v] \in Nat
  PROVE  /\ SumSq \in Nat
         /\ \A v \in Nibble : SumSq >= f[v] * f[v]
         /\ \A v, w \in Nibble : v # w => SumSq >= f[v] * f[v] + f[w] * f[w]
<1> DEFINE Entry(g, s) == IF s = {} THEN 0
                          ELSE LET x == CHOOSE y \in s : TRUE
                               IN  nibbles[x] * nibbles[x] + g[s \ {x}]
           Follows(g) == g = [s \in SUBSET (0..15) |-> Entry(g, s)]
<1>1. \A g, s : /\ s = {} => Entry(g, s) = 0
                /\ s # {} => Entry(g, s) = f[First(s)] * f[First(s)] + g[s \ {First(s)}]
  BY DEF First
<1>2. /\ 0 + 1 = 1 /\ 1 + 1 = 2 /\ 2 + 1 = 3 /\ 3 + 1 = 4 /\ 4 + 1 = 5 /\ 5 + 1 = 6
      /\ 6 + 1 = 7 /\ 7 + 1 = 8 /\ 8 + 1 = 9 /\ 9 + 1 = 10 /\ 10 + 1 = 11 /\ 11 + 1 = 12
      /\ 12 + 1 = 13 /\ 13 + 1 = 14 /\ 14 + 1 = 15 /\ 15 + 1 = 16
      /\ \A n \in {0, 1, 2, 3, 4, 5, 6, 7, 8, 9, 10, 11, 12, 13, 14, 15} : n \in 0..15 /\ n \in Nat
  OBVIOUS
<1>3. \E g : Sums(g, f, 16)
  <2>1. \E g : Sums(g, f, 0)
    <3>1. Sums([s \in Small(0) |-> 0], f, 0)
      BY SmallSets DEF Sums
    <3> QED BY <3>1
  <2>2. \E g : Sums(g, f, 4)
    BY <1>2, <2>1, SumsExtend
  <2>3. \E g : Sums(g, f, 8)
    BY <1>2, <2>2, SumsExtend
  <2>4. \E g : Sums(g, f, 12)
    BY <1>2, <2>3, SumsExtend
  <2> QED BY <1>2, <2>4, SumsExtend
<1>4. ASSUME NEW g PROVE Follows(g) <=> Sums(g, f, 16)
  <2>1. Follows(g) => Sums(g, f, 16)
    <3> SUFFICES ASSUME Follows(g) PROVE Sums(g, f, 16)
      OBVIOUS
    <3>1. g = [s \in Small(16) |-> Entry(g, s)]
      BY SmallSets DEF Nibble
    <3> HIDE DEF Entry
    <3>2. DOMAIN g = Small(16) /\ \A s \in Small(16) : g[s] = Entry(g, s)
      BY <3>1
    <3>3. g = [s \in Small(16) |-> g[s]]
      BY <3>1, <3>2
    <3> QED BY <1>1, <3>2, <3>3, SmallSets, ZenonT(60) DEF Sums
  <2>2. Sums(g, f, 16) => Follows(g)
    <3> SUFFICES ASSUME Sums(g, f, 16) PROVE Follows(g)
      OBVIOUS
    <3> HIDE DEF Entry
    <3>1. ASSUME NEW s \in Small(16) PROVE g[s] = Entry(g, s)
      <4>1. CASE s = {}
        <5>1. Entry(g, s) = 0
          BY <1>1, <4>1
        <5> QED BY <4>1, <5>1 DEF Sums
      <4>2. CASE s # {}
        <5>1. Entry(g, s) = f[First(s)] * f[First(s)] + g[s \ {First(s)}]
          BY <1>1, <4>2
        <5> QED BY <4>2, <5>1 DEF Sums
      <4> QED BY <4>1, <4>2
    <3>2. g = [s \in Small(16) |-> Entry(g, s)]
      BY <3>1 DEF Sums
    <3> QED BY <3>2, SmallSets DEF Nibble
  <2> QED BY <2>1, <2>2
<1>5. PICK g : g = CHOOSE h : Follows(h)
  OBVIOUS
<1>6. Sums(g, f, 16)
  <2> HIDE DEF Follows
  <2>1. \E h : Follows(h)
    BY <1>3, <1>4
  <2>2. Follows(g)
    BY <1>5, <2>1
  <2> QED BY <1>4, <2>2
<1>7. SumSq = g[0..15]
  BY <1>5 DEF SumSq, MapThenSumSet, MapThenFoldSet
<1>8. SumAtLeast(g, f, 0)
  <2>1. g[{}] = 0
    BY <1>6 DEF Sums
  <2>2. \A s \in Small(0) : s = {}
    BY SmallSets
  <2>3. ASSUME NEW s \in Small(0)
        PROVE  /\ g[s] \in Nat
               /\ \A v \in s : g[s] >= f[v] * f[v]
               /\ \A v, w \in s : v # w => g[s] >= f[v] * f[v] + f[w] * f[w]
    <3>1. s = {} /\ g[s] = 0
      BY <2>1, <2>2
    <3> QED BY <3>1
  <2> QED BY <2>3, Zenon DEF SumAtLeast
<1>9. \A n \in 0..15 : SumAtLeast(g, f, n) => SumAtLeast(g, f, n + 1)
  BY <1>6, SumsBound
<1>10. SumAtLeast(g, f, 8)
  <2>1. SumAtLeast(g, f, 4)
    BY <1>2, <1>8, <1>9
  <2> QED BY <1>2, <1>9, <2>1
<1>11. SumAtLeast(g, f, 16)
  <2>1. SumAtLeast(g, f, 12)
    BY <1>2, <1>9, <1>10
  <2> QED BY <1>2, <1>9, <2>1
<1>12. Nibble \in Small(16)
  BY SmallSets
<1> QED BY <1>7, <1>11, <1>12 DEF SumAtLeast, Nibble

\* Every byte adds to two nibbles, or twice to one.
LEMMA DominantNibbles ==
  ASSUME ExactInv, read = Len(sample), NEW b \in Occurring
  PROVE  \E c, f :
           /\ c \in Nat /\ c = bytes[b] /\ f = nibbles /\ \A v \in Nibble : f[v] \in Nat
           /\ \/ \E v \in Nibble : f[v] >= 2 * c
              \/ \E v, w \in Nibble : v # w /\ f[v] >= c /\ f[w] >= c
<1>0. LoopTypes /\ Len(sample) \in Nat /\ DOMAIN sample = 1..Len(sample)
  BY SampleTyped DEF ExactInv
<1>1. b \in Byte
  <2>1. sample \in Seq(Byte)
    BY <1>0, HealthAssumption DEF LoopTypes
  <2> QED BY <1>0, <2>1, ElementOfSeq DEF Occurring
<1>2. PICK v \in Nibble : v = b \div 16
  BY <1>1 DEF Byte, Nibble
<1>3. PICK w \in Nibble : w = b % 16
  BY <1>1 DEF Byte, Nibble
<1>4. PICK c \in Nat : c = bytes[b]
  BY <1>0 DEF LoopTypes
<1>5. PICK f : f = nibbles
  OBVIOUS
<1>6. \A x \in Nibble : /\ f[x] \in Nat
                         /\ f[x] = Cardinality(High(x, read)) + Cardinality(Low(x, read))
  BY <1>5 DEF ExactInv, Nibble
<1>7. \A x : /\ IsFiniteSet(High(x, read)) /\ Cardinality(High(x, read)) \in Nat
             /\ IsFiniteSet(Low(x, read)) /\ Cardinality(Low(x, read)) \in Nat
  <2>1. IsFiniteSet(1..read)
    BY <1>0, FS_Interval
  <2>2. \A x : High(x, read) \in SUBSET (1..read) /\ Low(x, read) \in SUBSET (1..read)
    BY DEF High, Low
  <2> QED BY <2>1, <2>2, FS_Subset, FS_CardinalityType
<1>8. Cardinality(High(v, read)) >= c /\ Cardinality(Low(w, read)) >= c
  <2>1. Equal(b, read) \in SUBSET High(v, read) /\ Equal(b, read) \in SUBSET Low(w, read)
    BY <1>2, <1>3 DEF Equal, High, Low
  <2>2. c = Cardinality(Equal(b, read))
    BY <1>4 DEF ExactInv
  <2>3. /\ Cardinality(Equal(b, read)) <= Cardinality(High(v, read))
        /\ Cardinality(Equal(b, read)) <= Cardinality(Low(w, read))
    BY <1>7, <2>1, FS_Subset
  <2> QED BY <1>7, <2>2, <2>3
<1>9. CASE v = w
  <2>1. f[v] >= 2 * c
    BY <1>6, <1>7, <1>8, <1>9
  <2> QED BY <1>4, <1>5, <1>6, <2>1
<1>10. CASE v # w
  <2>1. f[v] >= c /\ f[w] >= c
    BY <1>6, <1>7, <1>8
  <2> QED BY <1>4, <1>5, <1>6, <1>10, <2>1
<1> QED BY <1>9, <1>10

LEMMA SquareGrows ==
  ASSUME NEW x \in Nat, NEW y \in Nat, x <= y
  PROVE  x * x \in Nat /\ x * x <= y * y
<1>1. x * x \in Nat /\ x * y \in Nat /\ y * y \in Nat
  OBVIOUS
<1>2. PICK d \in Nat : y = x + d
  <2>1. y - x \in Nat /\ y = x + (y - x)
    OBVIOUS
  <2> QED BY <2>1
<1>3. y * y = x * x + 2 * (x * d) + d * d
  BY <1>2
<1>4. x * d \in Nat /\ d * d \in Nat
  OBVIOUS
<1> QED BY <1>1, <1>3, <1>4

\* A share above 0.9 of one byte takes chi-square far above its limit.
LEMMA PokerExceeds ==
  ASSUME NEW len \in Nat, len >= 64, NEW c \in Nat, 10 * c > 9 * len,
         NEW sum \in Nat, sum >= 2 * (c * c)
  PROVE  5 * (16 * sum - (2 * len) * (2 * len)) > 164 * (2 * len)
<1>1. PICK t \in Nat : t = 9 * len
  OBVIOUS
<1>2. PICK u \in Nat : u = 10 * c
  OBVIOUS
<1>3. t * t <= u * u
  BY <1>1, <1>2, SquareGrows
<1>4. t * t = 81 * (len * len) /\ u * u = 100 * (c * c)
  BY <1>1, <1>2
<1>5. PICK m \in Nat : m = len * len
  OBVIOUS
<1>6. PICK k \in Nat : k = c * c
  OBVIOUS
<1>7. 81 * m <= 100 * k /\ sum >= 2 * k
  BY <1>3, <1>4, <1>5, <1>6
<1>8. m >= 64 * len
  BY <1>5
<1>9. (2 * len) * (2 * len) = 4 * m
  BY <1>5
<1>10. 5 * (16 * sum - 4 * m) > 164 * (2 * len)
  BY <1>7, <1>8
<1> QED BY <1>9, <1>10

\* A sample flagged for dominance leaves the poker test no verdict but a failure.
LEMMA DominanceFailsPoker ==
  ASSUME ExactInv, read = Len(sample), DominantScores
  PROVE  TRUE \notin PokerVerdicts
<1>0. LoopTypes /\ Len(sample) \in Nat /\ Len(sample) >= 64
  BY SampleTyped DEF ExactInv
<1>1. PICK b \in Occurring : 10 * bytes[b] > 9 * Len(sample)
  BY <1>0 DEF DominantScores, LoopTypes
<1>2. PICK c, f :
        /\ c \in Nat /\ c = bytes[b] /\ f = nibbles /\ \A v \in Nibble : f[v] \in Nat
        /\ \/ \E v \in Nibble : f[v] >= 2 * c
           \/ \E v, w \in Nibble : v # w /\ f[v] >= c /\ f[w] >= c
  BY DominantNibbles
<1>3. \A v \in Nibble : f[v] * f[v] \in Nat
  BY <1>2
<1>4. /\ SumSq \in Nat
      /\ \A v \in Nibble : SumSq >= f[v] * f[v]
      /\ \A v, w \in Nibble : v # w => SumSq >= f[v] * f[v] + f[w] * f[w]
  BY <1>2, <1>3, SumSqBound
<1>5. PICK sum \in Nat : sum = SumSq
  BY <1>4
<1>6. sum >= 2 * (c * c)
  <2>1. CASE \E v \in Nibble : f[v] >= 2 * c
    <3>1. PICK v \in Nibble : f[v] >= 2 * c
      BY <2>1
    <3>2. PICK d \in Nat : d = 2 * c
      BY <1>2
    <3>3. PICK k \in Nat : k = c * c
      BY <1>2
    <3>4. d * d = 4 * k
      <4>1. c \in Nat
        BY <1>2
      <4> QED BY <3>2, <3>3, <4>1
    <3>5. d * d <= f[v] * f[v]
      BY <1>2, <3>1, <3>2, SquareGrows
    <3>6. sum >= f[v] * f[v]
      BY <1>4, <1>5
    <3> QED BY <1>3, <3>3, <3>4, <3>5, <3>6
  <2>2. CASE \E v, w \in Nibble : v # w /\ f[v] >= c /\ f[w] >= c
    <3>1. PICK v \in Nibble, w \in Nibble : v # w /\ f[v] >= c /\ f[w] >= c
      BY <2>2
    <3>2. c * c \in Nat /\ c * c <= f[v] * f[v] /\ c * c <= f[w] * f[w]
      BY <1>2, <3>1, SquareGrows
    <3>3. sum >= f[v] * f[v] + f[w] * f[w]
      BY <1>4, <1>5, <3>1
    <3> QED BY <1>3, <3>2, <3>3
  <2> QED BY <1>2, <2>1, <2>2
<1>7. PICK len \in Nat : len = Len(sample)
  BY <1>0
<1>8. 5 * (16 * sum - (2 * len) * (2 * len)) > 164 * (2 * len)
  BY <1>0, <1>1, <1>2, <1>6, <1>7, PokerExceeds
<1>9. Blocks = 2 * len
  BY <1>7 DEF Blocks, Bits
<1>10. SUFFICES ASSUME TRUE \in PokerVerdicts PROVE FALSE
  OBVIOUS
<1>11. 5 * (16 * sum - Blocks * Blocks) <= 164 * Blocks
  BY <1>5, <1>10, Zenon DEF PokerVerdicts, SumSq
<1> QED BY <1>8, <1>9, <1>11

\* What DetectRepetition flags by itself, for the dominance of one byte, fails the poker
\* test too, whatever the sample: the results stored with it never look healthy.
THEOREM DegenerateIsAnomalous == HealthSpec => []DegenerateFails
<1>1. HealthInit => DegenerateFails
  BY DEF HealthInit, DegenerateFails
<1>2. /\ LoopTypes /\ ExactInv /\ DegenerateFails /\ DominanceDecides'
      /\ [HealthNext]_healthVars
      => DegenerateFails'
  <2> SUFFICES ASSUME LoopTypes, ExactInv, DegenerateFails, DominanceDecides',
                      [HealthNext]_healthVars, judged', degenerate'
               PROVE  ("poker" \in failed)'
    BY DEF DegenerateFails
  <2>1. CASE ReadByte
    <3>1. FALSE
      BY <2>1, SampleTyped DEF ReadByte, LoopTypes
    <3> QED BY <3>1
  <2>2. CASE Judge
    <3>1. read = Len(sample) /\ UNCHANGED <<sample, bytes>>
      BY <2>2 DEF Judge, sampleVars
    <3>2. DominantScores
      BY <3>1 DEF DominanceDecides, DominantScores
    <3>3. TRUE \notin PokerVerdicts
      BY <3>1, <3>2, DominanceFailsPoker
    <3>4. PICK passes \in PokerVerdicts : passes \/ "poker" \in failed'
      BY <2>2, Zenon DEF Judge
    <3>5. passes \in BOOLEAN
      BY <3>4, Zenon DEF PokerVerdicts
    <3> QED BY <3>3, <3>4, <3>5
  <2>3. CASE UNCHANGED healthVars
    BY <2>3 DEF healthVars, sampleVars, DegenerateFails
  <2> QED BY <2>1, <2>2, <2>3 DEF HealthNext
<1>3. StretchInv => LoopTypes /\ DominanceDecides
  BY DEF StretchInv
<1> QED BY <1>1, <1>2, <1>3, StretchInvariant, LoopsInvariant, PTL DEF HealthSpec
=============================================================================
