------------------------ MODULE MCHeadlampActuation -------------------------
(***************************************************************************)
(* HeadlampActuation with wire ids so narrow that they repeat: with a      *)
(* session of one bit the third gateway process looks like the first, and  *)
(* with a sequence number of one bit the third command looks like the      *)
(* first.                                                                  *)
(***************************************************************************)
EXTENDS HeadlampActuation
=============================================================================
