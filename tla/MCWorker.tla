------------------------------- MODULE MCWorker -------------------------------
(* Small instances of Worker for TLC. *)
EXTENDS Worker

CONSTANTS s1, p1, p2
=============================================================================
