---------------------------- MODULE MCUsageFile ----------------------------
(* A small instance of UsageFile: one caller in one process, two threads   *)
(* in another.                                                             *)
EXTENDS UsageFile

CONSTANTS c1, c2, c3, p1, p2

TwoProcOf == [c \in Callers |-> IF c = c1 THEN p1 ELSE p2]
============================================================================
