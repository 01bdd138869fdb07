------------------------ MODULE MCExceptionLifecycle ------------------------
(* A flagged read and a skip, reviewed by two supervisors at once.         *)
EXTENDS ExceptionLifecycle, TLC
CONSTANTS flag, skip, r1
MCFlaggedReader == flag :> r1
=============================================================================
