---------------------------- MODULE MCCPGBuilder ----------------------------
(***************************************************************************)
(* CPGBuilder with every way to build at most five nodes.                  *)
(***************************************************************************)
EXTENDS CPGBuilder
=============================================================================
