------------------------- MODULE MCAdminManagement -------------------------
(* One admin, whom two removals may take away, and one who is promoted.     *)
EXTENDS AdminManagement

CONSTANTS alice, bob, add, drop, dropToo
=============================================================================
