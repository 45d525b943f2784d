------------------------------ MODULE MCStartup ------------------------------
(***************************************************************************)
(* The start of the process with durations in milliseconds, int64 scaled   *)
(* down to 21 bits so that the multiplication in the validation wraps.     *)
(***************************************************************************)
EXTENDS Startup

MCDefBuckets == <<5, 10, 25, 50, 100, 250, 500, 1000, 2500, 5000, 10000>>
=============================================================================
