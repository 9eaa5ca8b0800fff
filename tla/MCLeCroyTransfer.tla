-------------------------- MODULE MCLeCroyTransfer --------------------------
(***************************************************************************)
(* LeCroyTransfer with a handful of waveforms: none at all, one segment,   *)
(* two equal segments, and samples that two segments cannot share.         *)
(***************************************************************************)
EXTENDS LeCroyTransfer

Shape(total, count) == [total |-> total, count |-> count]
MCDescriptors == {Shape(0, 1), Shape(2, 1), Shape(1, 2), Shape(4, 2)}
=============================================================================
