--------------------------- MODULE MCCommandChain ---------------------------
(***************************************************************************)
(* A program with a command that has a sub-command, whose sub-command has  *)
(* options that are refused.                                               *)
(***************************************************************************)
EXTENDS ChainProperties, TLC

MCChain == <<"cmd", "sub", "bad">>
=============================================================================
