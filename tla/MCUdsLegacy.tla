---------------------------- MODULE MCUdsLegacy ----------------------------
(* Small instances of UdsLegacy: four blocks and a counter of three        *)
(* values, so that the counter wraps inside an image, and three runs.      *)
EXTENDS UdsLegacy

(* Everything goes wrong, any number of times and in any combination; or   *)
(* only writes fail; or only the initialization does.                      *)
AllFaults == {{"timeout", "write", "init"}, {"write"}, {"init"}}

(* Writes fail, and answers are lost or late.                              *)
LateWrites == {{"timeout", "write"}}
=============================================================================
