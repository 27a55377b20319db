------------------------------- MODULE MCFlash -------------------------------
(***************************************************************************)
(* FlashDevice for TLC, with two written images: programming a page that   *)
(* holds one with the other must be seen to be refused.                    *)
(***************************************************************************)
EXTENDS FlashDevice

MCImages == {Whole(Raw(Zero)), Whole(LZ4(Zero))}
=============================================================================
