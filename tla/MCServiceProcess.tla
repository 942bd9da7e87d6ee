--------------------------- MODULE MCServiceProcess ---------------------------
(***************************************************************************)
(* ServiceProcess with one consumer of each kind of supervisor; seven      *)
(* readers take the delay of the recovery consumer to its cap and beyond.  *)
(***************************************************************************)
EXTENDS ServiceProcess

CONSTANTS s1, s2
=============================================================================
