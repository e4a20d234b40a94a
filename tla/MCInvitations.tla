--------------------------- MODULE MCInvitations ---------------------------
(* One invitation, accepted once or twice.                                  *)
EXTENDS Invitations
=============================================================================
