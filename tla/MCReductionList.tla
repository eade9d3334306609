-------------------------- MODULE MCReductionList --------------------------
(* A small instance of ReductionList for TLC. *)
EXTENDS ReductionList

ThreeAddresses == 1 .. 3
FourAddresses  == 1 .. 4
=============================================================================
