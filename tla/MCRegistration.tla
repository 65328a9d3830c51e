---------------------------- MODULE MCRegistration ----------------------------
(* An instance of Registration for TLC: the main group moves itself to      *)
(* another chat, registers a second group under that chat or under its old  *)
(* one, and the second group tries to move itself.                          *)
EXTENDS Registration, TLC

CONSTANTS main, team, web, chat, q1, q2, q3, q4

MCSource == (q1 :> main) @@ (q2 :> main) @@ (q3 :> team) @@ (q4 :> main)
MCFolder == (q1 :> main) @@ (q2 :> team) @@ (q3 :> team) @@ (q4 :> team)
MCJid == (q1 :> chat) @@ (q2 :> chat) @@ (q3 :> web) @@ (q4 :> web)
=============================================================================
