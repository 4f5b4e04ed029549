---------------------------- MODULE MCFuzzDriver ----------------------------
(***************************************************************************)
(* FuzzDriver with two directories, and four runs after each other.        *)
(***************************************************************************)
EXTENDS FuzzDriver

CONSTANTS tmp, other

TwoDirs == {tmp, other}
=============================================================================
