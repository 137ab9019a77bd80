--------------------------- MODULE MCProjectList ---------------------------
(***************************************************************************)
(* Model-checking instance of ProjectList: two lists, so that an old one   *)
(* may overtake the new one.                                               *)
(***************************************************************************)
EXTENDS ProjectList
=============================================================================
