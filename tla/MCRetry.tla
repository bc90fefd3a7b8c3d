-------------------------------- MODULE MCRetry --------------------------------
(***************************************************************************)
(* Instances of SendRetry for TLC.  Batches only differ by whether they    *)
(* are empty, so the others are interchangeable.                           *)
(***************************************************************************)
EXTENDS SendRetry, TLC

BatchSymmetry == Permutations(Batches \ EmptyBatches)

=============================================================================
