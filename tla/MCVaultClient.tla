--------------------------- MODULE MCVaultClient ---------------------------
(* Instances of the Vault client for TLC. *)
EXTENDS VaultClientProperties

CONSTANTS c1, c2
=============================================================================
