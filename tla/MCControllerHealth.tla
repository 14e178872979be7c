-------------------------- MODULE MCControllerHealth --------------------------
(* The controller with its observations for TLC. *)
EXTENDS ControllerHealth, MCDemoController
=============================================================================
