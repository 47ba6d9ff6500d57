---------------------------- MODULE MCMigrations ----------------------------
(***************************************************************************)
(* Two servers and two `migrate down`, on the first two migrations of the  *)
(* repository.                                                             *)
(***************************************************************************)
EXTENDS Migrations

CONSTANTS a, b, d, e

TwoServers == {a, b}

TwoReverts == {d, e}
=============================================================================
