-------------------------- MODULE MCVirtualDevice --------------------------
(* Instances of VirtualDevice for TLC: file contents of one and two blocks. *)
EXTENDS VirtualDevice

OneBlock == {<<"x">>}
TwoSizes == {<<"x">>, <<"y", "y">>}
=============================================================================
