---------------------------- MODULE MCUdsRegistry ----------------------------
(* Small instances of UdsRegistry: at most three registrations, and memory *)
(* for two dynamic data identifiers next to one handler of the application.*)
EXTENDS UdsRegistry

(* Every allocation of the 0x2C handler but the last may fail.             *)
AllButLast == Allocations \ {"REG_ID_ITEM"}

(* Every one may.                                                          *)
AnyAllocation == Allocations
=============================================================================
