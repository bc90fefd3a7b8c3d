----------------------------- MODULE MCOtelMetrics -----------------------------
(***************************************************************************)
(* OtelMetrics for TLC.  The series of a metric are interchangeable.       *)
(***************************************************************************)
EXTENDS OtelMetrics

SeriesSymmetry == Permutations(Series)

=============================================================================
