-------------------------- MODULE MCRigolTransport --------------------------
(* The data of a block: none, some with a newline, and some that imitate a *)
(* whole block.                                                             *)
EXTENDS RigolTransport

MCPayloads == {<< >>, <<"newline", "other">>, <<"hash", "length", "other">>}
=============================================================================
