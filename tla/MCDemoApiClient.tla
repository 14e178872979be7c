---------------------------- MODULE MCDemoApiClient ----------------------------
(* The runs of one pull request's workflows for TLC. *)
EXTENDS DemoApiClient, MCDemoController
=============================================================================
