---------------------------- MODULE MCMigration ----------------------------
(* One file of two blocks, the last of them short.  Its directory may be  *)
(* marked corrupted twice and stored anew each time, so a listing holds up  *)
(* to two directories that the migration visits in either order.            *)
EXTENDS Migration, TLC

CONSTANTS f1

\* Nothing is claimed of a file stored from an answer that was not it.
Checked == unchecked = {}
=============================================================================
