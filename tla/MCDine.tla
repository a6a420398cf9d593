-------------------------------- MODULE MCDine --------------------------------
(***************************************************************************)
(* Small tables for TLC.  A configuration file cannot write a negative     *)
(* number, so the sets of command-line arguments are defined here.         *)
(***************************************************************************)
EXTENDS Dine

OneCycle == {NoArg}

\* the default, two cycles, an argument atoi makes 0 of, and a negative one
SomeArgs == {NoArg, 2, 0, -3}
=============================================================================
