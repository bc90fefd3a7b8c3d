--------------------------- MODULE MCPlatformMetrics ---------------------------
(***************************************************************************)
(* PlatformMetrics for TLC.  Two events follow each other between the      *)
(* reports of two invocations, so that their distance is below, equal to   *)
(* or above the longest one that a rate spans.                             *)
(***************************************************************************)
EXTENDS PlatformMetrics

=============================================================================
