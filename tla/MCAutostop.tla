----------------------------- MODULE MCAutostop -----------------------------
(* Autostop for TLC; the instances differ in their constants only. *)
EXTENDS Autostop
=============================================================================
