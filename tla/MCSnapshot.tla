------------------------------ MODULE MCSnapshot ----------------------------
(***************************************************************************)
(* Instances of Snapshot for TLC.                                          *)
(***************************************************************************)
EXTENDS Snapshot, Sequences

\* each VM snapshot owns a snapshot of the VM's only disk
OneDisk == [v \in VSnaps |-> {"of_" \o v}]
=============================================================================
