--------------------------- MODULE MCRigolSession ---------------------------
(* RigolSession on a scope with two channels. *)
EXTENDS RigolSession

MCOrder == <<"C1", "C2">>
=============================================================================
