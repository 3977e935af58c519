-------------------------- MODULE MCIso14229Server --------------------------
(* Small instances of Iso14229Server.                                      *)
EXTENDS Iso14229Server
=============================================================================
