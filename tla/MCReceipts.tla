------------------------------ MODULE MCReceipts ------------------------------
(***************************************************************************)
(* Small instances of Receipts: two charges of one card.  Charges are      *)
(* numbers because the sweep lists them newest first, so no symmetry.      *)
(***************************************************************************)
EXTENDS Receipts

MCCharges == 1..2
=============================================================================
