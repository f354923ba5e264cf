------------------------------ MODULE MCMigrations -----------------------------
(* Two processes, and old databases of every version.                           *)
EXTENDS Migrations
=============================================================================
