---------------------------- MODULE MCWebChannel ----------------------------
(* Instances of WebChannel for TLC: a chat with one row before the first    *)
(* start, and up to three before the second.                                *)
EXTENDS WebChannel, TLC

CONSTANTS h1, a, r, p1, p2

MCHistory == <<h1>>
=============================================================================
