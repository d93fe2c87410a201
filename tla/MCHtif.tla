------------------------------- MODULE MCHtif -------------------------------
(***************************************************************************)
(* A message of three characters.                                          *)
(***************************************************************************)
EXTENDS Htif

Message == <<"A", "s", "f">>
=============================================================================
