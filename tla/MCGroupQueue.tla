---------------------------- MODULE MCGroupQueue ----------------------------
(* Instances of GroupQueue for TLC: a group with two queued entries, so     *)
(* that _drain tasks of it race, and a group with a queued entry and a      *)
(* recovery run beside it.                                                  *)
EXTENDS GroupQueue, TLC

CONSTANTS g1, g2, e1, e2, e3, e4

MCGroups == {g1, g2}
MCEntries == {e1, e2, e3, e4}
MCGroupOf == (e1 :> g1) @@ (e2 :> g1) @@ (e3 :> g2) @@ (e4 :> g2)
=============================================================================
