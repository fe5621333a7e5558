----------------------------- MODULE MCRtosDemos -----------------------------
(* All four demonstrations.                                                 *)
EXTENDS RtosDemos

AllKernels == {"freertos", "rtthread", "ucos", "embos"}

\* the periods of the programs are long enough
ASSUME PeriodsLongEnough == RtosTiming
=============================================================================
