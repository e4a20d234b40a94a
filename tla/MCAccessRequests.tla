-------------------------- MODULE MCAccessRequests --------------------------
(* One request for two of three shape trees.                                *)
EXTENDS AccessRequests

CONSTANTS req, t1, t2, t3

MCNeeds(x) == {t1, t2}
=============================================================================
