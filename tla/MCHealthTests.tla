--------------------------- MODULE MCHealthTests ---------------------------
(***************************************************************************)
(* Samples for HealthTests: all sequences of four words of 16 bytes, and   *)
(* samples at the edges of the thresholds.                                 *)
(***************************************************************************)
EXTENDS HealthTests, SequencesExt

Repeat(b, n) == [i \in 1..n |-> b]

\* Two words whose every combination passes all tests.
Noise == <<193, 77, 150, 52, 30, 47, 203, 229, 8, 72, 66, 9, 127, 138, 86, 116>>
Hum   == <<242, 1, 249, 18, 248, 35, 204, 171, 118, 73, 221, 59, 78, 60, 163, 137>>

\* Healthy words, stuck at zero, and alternating bits.
Words == {Noise, Hum, Repeat(0, 16), Repeat(85, 16)}

Mixtures == {FlattenSeq(f) : f \in [1..4 -> Words]}

\* Just below and just above a share of 0.9: 57 and 58 of 64 bytes, in one
\* stretch, in two, and before or after the noise.
Dominated == UNION {
  {Repeat(b, n) \o SubSeq(Noise, 1, 64 - n),
   SubSeq(Noise, 1, 64 - n) \o Repeat(b, n),
   Repeat(b, 30) \o SubSeq(Noise, 1, 64 - n) \o Repeat(b, n - 30)}
  : b \in {0, 85, 165}, n \in {57, 58}}

\* Runs of 31 and of 32 bits in the noise; byte 127 goes on with a zero bit.
LongRuns == {Noise \o Repeat(0, n) \o <<x>> \o Hum \o Noise \o Hum
             : n \in {3, 4}, x \in {1, 127, 128}}

\* Nibbles with a chi-square of 32.8 exactly, at lengths 70 and 80.
Pairs(counts) == FlattenSeq([v \in 1..16 |-> Repeat(17 * (v - 1), counts[v])])
Ties == {Pairs(<<7, 6, 3, 4, 4, 3, 0, 7, 3, 3, 8, 1, 6, 5, 5, 5>>),
         Pairs(<<7, 5, 6, 5, 8, 4, 1, 2, 3, 9, 8, 2, 6, 4, 6, 4>>)}

MCInputs == Mixtures \cup Dominated \cup LongRuns \cup Ties
=============================================================================
