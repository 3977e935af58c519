---------------------------- MODULE MCUdsTransfer ----------------------------
(* Small instances of UdsTransfer: 16 addresses, a flash of four cells     *)
(* mapped at 4, write blocks of two cells.                                 *)
EXTENDS UdsTransfer

(* Offsets, an address of the CPU's mapping and one that makes the end of  *)
(* the window wrap.                                                        *)
FlashAddresses == {0, 1, 6, 14}

FlashSizes == {0, 3, 4, 8}
=============================================================================
