------------------------------ MODULE MCInbound ------------------------------
(* Instances of Inbound for TLC.  Messages of a registered chat come over   *)
(* both ways: one as a file, one that is older over the web at any time,    *)
(* and the third input delivers the first again; the fourth is a metadata   *)
(* file, the fifth no JSON object.                                          *)
EXTENDS Inbound, TLC

CONSTANTS j1, m1, m2, none

MCKind == [f \in Inputs |->
  CASE f = 4 -> "metadata" [] f = 5 -> "malformed" [] OTHER -> "message"]
MCIdOf == [f \in Inputs |->
  CASE f \in {1, 3} -> m1 [] f = 2 -> m2 [] OTHER -> none]
MCJidOf == [f \in Inputs |-> j1]
MCTimeOf == [f \in Inputs |->
  IF f \in {1, 3} THEN 2 ELSE 1]
=============================================================================
