-------------------------- MODULE MCVaultMigration --------------------------
(***************************************************************************)
(* Two processes, two units, scripts 1 -> 2 -> 3 of which the package has  *)
(* adopted the first: a run to version 3 always rolls back.                *)
(***************************************************************************)
EXTENDS VaultMigration
=============================================================================
