--------------------------- MODULE MCIbkrSession ---------------------------
(***************************************************************************)
(* An instance of IbkrSession for TLC; the cfg gives all the constants.    *)
(***************************************************************************)
EXTENDS IbkrSession
=============================================================================
