---------------------------- MODULE HealthTests ----------------------------
(***************************************************************************)
(* internal/health: what the four statistics and DetectRepetition make of  *)
(* the bytes of one sample.  Each function loops over the sample by        *)
(* itself; as they share nothing they run here side by side, one byte a    *)
(* step, and a last step takes the verdicts.  Quotients are multiplied     *)
(* out, so that all arithmetic is exact.                                   *)
(*                                                                         *)
(* Domain has the result only, as Degenerate and FailedBy.                 *)
(***************************************************************************)
EXTENDS Integers, Sequences, FiniteSets, FiniteSetsExt

CONSTANT Inputs   \* the samples under test: sequences of bytes

Byte == 0..255

MinWindowBytes == 64
MaxWindowBytes == 65536

ASSUME HealthAssumption ==
  \A x \in Inputs : x \in Seq(Byte) /\ Len(x) \in MinWindowBytes..MaxWindowBytes

VARIABLES
  sample,      \* the bytes of the window
  read,        \* how many of them the loops have seen
  bits,        \* the locals of Monobit, Runs and LongRun
  nibbles,     \* Poker: counts
  bytes,       \* dominantByteRatio: counts, of the bytes that occur
  stretch,     \* maxIdenticalRun: best and run
  failed,      \* the categories that failed
  degenerate,  \* DetectRepetition's verdict with no hash to compare with
  judged       \* whether the verdicts are taken

sampleVars == <<sample, read, bits, nibbles, bytes, stretch>>
healthVars == <<sampleVars, failed, degenerate, judged>>

NoBit == 2

HealthInit ==
  /\ sample \in Inputs
  /\ read = 0
  /\ bits = [last |-> NoBit, sum |-> 0, runs |-> 1, run |-> 1, maxRun |-> 1]
  /\ nibbles = [v \in 0..15 |-> 0]
  /\ bytes = [b \in {sample[i] : i \in DOMAIN sample} |-> 0]
  /\ stretch = [run |-> 1, best |-> 1]
  /\ failed = {}
  /\ degenerate = FALSE
  /\ judged = FALSE

-----------------------------------------------------------------------------
(* The loops *)

Larger(x, y) == IF x >= y THEN x ELSE y

Weight == <<128, 64, 32, 16, 8, 4, 2, 1>>

\* toBits: bit j of byte b, the most significant one first.
BitOf(b, j) == (b \div Weight[j]) % 2

\* The length of the run of equal symbols that ends here.
RunLength(run, continues) == IF continues THEN run + 1 ELSE 1

\* Variant: a run is not cut short by a different bit.
UncutRun(l, bit) ==
  LET run == RunLength(l.run, l.last # NoBit)
  IN  [last   |-> bit,
       sum    |-> l.sum + 2 * bit - 1,
       runs   |-> IF l.last \in {bit, NoBit} THEN l.runs ELSE l.runs + 1,
       run    |-> run,
       maxRun |-> Larger(l.maxRun, run)]

\* One turn of the loops over bits.
BitTurn(l, bit) ==
  LET run == RunLength(l.run, bit = l.last)
  IN  [last   |-> bit,
       sum    |-> l.sum + 2 * bit - 1,
       runs   |-> IF l.last \in {bit, NoBit} THEN l.runs ELSE l.runs + 1,
       run    |-> run,
       maxRun |-> Larger(l.maxRun, run)]

\* ... and the eight turns a byte takes.
ByteTurns(l, b) ==
  LET after[j \in 0..8] == IF j = 0 THEN l ELSE BitTurn(after[j - 1], BitOf(b, j))
  IN  after[8]

Count(counts, v) == [counts EXCEPT ![v] = @ + 1]

\* Variant: the run of a byte goes on whatever comes.
UncutStretch(b) ==
  LET run == RunLength(stretch.run, read > 0)
  IN  [run |-> run, best |-> Larger(stretch.best, run)]

\* maxIdenticalRun: one turn of its loop.
Stretch(b) ==
  LET run == RunLength(stretch.run, read > 0 /\ b = sample[read])
  IN  [run |-> run, best |-> Larger(stretch.best, run)]

ReadByte ==
  /\ read < Len(sample)
  /\ LET b == sample[read + 1]
     IN  /\ bits'    = ByteTurns(bits, b)
         /\ nibbles' = Count(Count(nibbles, b \div 16), b % 16)
         /\ bytes'   = Count(bytes, b)
         /\ stretch' = Stretch(b)
  /\ read' = read + 1
  /\ UNCHANGED <<sample, failed, degenerate, judged>>

-----------------------------------------------------------------------------
(* The verdicts *)

Bits   == 8 * Len(sample)
Blocks == Bits \div 4

\* |S| / sqrt(n) <= 2.5
MonobitPasses == 4 * bits.sum * bits.sum <= 25 * Bits

\* |runs - (n + 1) / 2| / sqrt((n - 1) / 4) <= 2.5
RunsPasses ==
  LET twice == 2 * bits.runs - (Bits + 1)
  IN  4 * twice * twice <= 25 * (Bits - 1)

\* Variant: the quotient 16 / blocks is taken in integers.
PokerDividing ==
  LET chi2 == (16 \div Blocks) * MapThenSumSet(LAMBDA v : nibbles[v] * nibbles[v], 0..15) - Blocks
  IN  {chi2 <= 32}

\* (16 / blocks) * sumSq - blocks <= 32.8.  Neither side of an equality is a
\* binary fraction, and the rounding of the length at hand decides it: sizes 70
\* and 80 differ.
PokerVerdicts ==
  LET sumSq == MapThenSumSet(LAMBDA v : nibbles[v] * nibbles[v], 0..15)
      chi2  == 5 * (16 * sumSq - Blocks * Blocks)
      limit == 164 * Blocks
  IN  {passes \in BOOLEAN : (passes => chi2 <= limit) /\ (~passes => chi2 >= limit)}

LongRunPasses == bits.maxRun < 32

\* The score of a stretch of identical bytes, and that of a dominant byte, is
\* above 0.9.
StretchScores  == stretch.best >= 32 /\ 10 * stretch.best > 9 * Len(sample)
DominantScores == \E b \in DOMAIN bytes : 10 * bytes[b] > 9 * Len(sample)

Judge ==
  /\ read = Len(sample)
  /\ ~judged
  /\ judged' = TRUE
  /\ \E pokerPasses \in PokerVerdicts :
       failed' = (IF MonobitPasses THEN {} ELSE {"monobit"})
                 \cup (IF RunsPasses THEN {} ELSE {"runs"})
                 \cup (IF pokerPasses THEN {} ELSE {"poker"})
                 \cup (IF LongRunPasses THEN {} ELSE {"longrun"})
  /\ degenerate' = (StretchScores \/ DominantScores)
  /\ UNCHANGED sampleVars

HealthNext == ReadByte \/ Judge

HealthSpec == HealthInit /\ [][HealthNext]_healthVars

-----------------------------------------------------------------------------
(* What the loops compute, by definition *)

BitAt(k) == BitOf(sample[(k - 1) \div 8 + 1], ((k - 1) % 8) + 1)

\* Positions k .. k + n - 1 hold one symbol.
Constant(at(_), k, n) == \A j \in k..(k + n - 1) : at(j) = at(k)

\* n is the length of the longest stretch of one symbol among at(1) .. at(len).
Longest(at(_), len, n) ==
  /\ len > 0 => \E k \in 1..(len - n + 1) : Constant(at, k, n)
  /\ \A k \in 1..(len - n) : ~Constant(at, k, n + 1)

\* tests.go and repetition.go: at the end of each loop its locals are what the
\* statistic is about, and on the way those of the bytes read so far: ones less
\* zeros, the number of runs, the longest run of bits and of bytes, and the
\* frequencies of nibbles and bytes.
LoopsExact ==
  LET n == 8 * read
      ones == {k \in 1..n : BitAt(k) = 1}
      cuts == {k \in 2..n : BitAt(k) # BitAt(k - 1)}
      high(v) == {i \in 1..read : sample[i] \div 16 = v}
      low(v)  == {i \in 1..read : sample[i] % 16 = v}
  IN  /\ bits.sum = 2 * Cardinality(ones) - n
      /\ bits.runs = 1 + Cardinality(cuts)
      /\ Longest(BitAt, n, bits.maxRun)
      /\ Longest(LAMBDA i : sample[i], read, stretch.best)
      /\ \A v \in 0..15 : nibbles[v] = Cardinality(high(v)) + Cardinality(low(v))
      /\ \A b \in DOMAIN bytes : bytes[b] = Cardinality({i \in 1..read : sample[i] = b})

\* Repetition detection and the statistics agree on degenerate samples: whatever
\* DetectRepetition flags by itself, on dominance alone, the poker test fails too, so
\* that the tests stored with such a window never call it valid.
DegenerateFails == judged /\ degenerate => "poker" \in failed

\* DetectRepetition scores a stretch of identical bytes by its share of the sample,
\* which is never more than the share of the byte itself: the search for stretches
\* decides nothing that dominance does not.
DominanceDecides == judged /\ degenerate => DominantScores
=============================================================================
