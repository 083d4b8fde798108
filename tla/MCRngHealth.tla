---------------------------- MODULE MCRngHealth ----------------------------
(***************************************************************************)
(* Small instances of RngHealth for TLC.                                   *)
(***************************************************************************)
EXTENDS Refinement, Claims, TLC

CONSTANTS s1, p1, p2, good, other, bad, stuck, short

\* Interchangeable requests.
ProcSymmetry == Permutations(Procs)

\* good and other pass every test, bad fails two of them, stuck is a degenerate
\* sample (see DegenerateFails), short is refused for its length.
MCFailedBy ==
  [x \in Samples |-> IF x = bad THEN {"runs", "longrun"}
                     ELSE IF x = stuck THEN {"runs", "poker"} ELSE {}]
MCWellSized  == Samples \ {short}
MCDegenerate == Samples \cap {stuck}
=============================================================================
