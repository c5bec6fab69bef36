-------------------------- MODULE MCCommandFanOut ---------------------------
(***************************************************************************)
(* CommandFanOut with channels of one place: every task can be made to     *)
(* wait by the one after it.                                               *)
(***************************************************************************)
EXTENDS CommandFanOut
=============================================================================
