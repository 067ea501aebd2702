---------------------------- MODULE MCEepromFile ----------------------------
(* EepromFile on a small instance.                                         *)
EXTENDS EepromFile

CONSTANTS v1, v2
=============================================================================
