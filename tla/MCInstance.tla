------------------------------ MODULE MCInstance ------------------------------
(***************************************************************************)
(* Instances of LambdaInstance for TLC.                                    *)
(***************************************************************************)
EXTENDS InstanceProperties

NoLeftovers == {<<>>}

\* A previous instance crashed after its last report, with one log not yet delivered.
ShortLeftovers == {<<>>, <<"Function">>}

\* A previous instance crashed after it began an invocation, or during its init.
CrashLeftovers ==
  {<<>>,
   <<"PlatformInitStart", "Function", "PlatformInitRuntimeDone", "PlatformInitReport",
     "PlatformStart", "Function">>,
   <<"Function", "PlatformRuntimeDone", "PlatformReport">>}

=============================================================================
