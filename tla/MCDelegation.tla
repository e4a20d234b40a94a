--------------------------- MODULE MCDelegation ---------------------------
(* The owner has granted something to alice; she and kim delegate it to     *)
(* each other, with and without what inherits from it, and in the name of   *)
(* somebody else.                                                           *)
EXTENDS Delegation, TLC

CONSTANTS owner, alice, kim, source, inheriting

MCSourceGrant ==
  source :> [grantee |-> alice, grantedBy |-> owner, inheritsFrom |-> None] @@
  inheriting :> [grantee |-> alice, grantedBy |-> owner, inheritsFrom |-> source]

Ask(q, to, topBy, childBy) ==
  [requester |-> q, grantee |-> to, topBy |-> topBy, childBy |-> childBy]

(* A chain to kim, back to alice and again to kim; one that leaves out what *)
(* inherits; two in the name of somebody else.                              *)
MCMessage == {Ask(alice, kim, alice, alice), Ask(kim, alice, kim, kim),
              Ask(kim, kim, kim, None), Ask(alice, kim, alice, owner),
              Ask(kim, alice, alice, None)}

=============================================================================
