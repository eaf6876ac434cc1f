------------------------- MODULE MCRuntimeLifecycle -------------------------
(* Model-checking instance of RuntimeLifecycle: three threads calling     *)
(* shutdown(), one of them from a runtime thread, and two start() calls.  *)
EXTENDS RuntimeLifecycle

CONSTANTS s1, s2, s3

MCStoppers == {s1, s2, s3}
MCAsyncStoppers == {s3}
=============================================================================
