----------------------------- MODULE MCMigration -----------------------------
(***************************************************************************)
(* Instances of MigrationRunner for TLC.                                   *)
(***************************************************************************)
EXTENDS MigrationRunner

\* The first release; the one that has seen accounts and links of the new
\* form; the one with the coffee settings of their own; and the last.
MCReleases == {1, 8, 13, 14}
=============================================================================
