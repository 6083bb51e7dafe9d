-------------------------- MODULE MCSpanExtraction --------------------------
(* Three units on two workers: one unit waits in the pool's queue while two *)
(* others contend for the lock.                                             *)
EXTENDS SpanExtraction
=============================================================================
