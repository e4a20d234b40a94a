-------------------------- MODULE MCRoleChanges --------------------------
(* A team that has been granted something and whose members' data bob may   *)
(* be granted.                                                              *)
EXTENDS RoleChanges, TLC

CONSTANTS alice, bob, team,              \* two agents and a role
          toTeam, fromTeam               \* authorizations

(* Nothing is granted while roles change.                                   *)
NoActivity == <<>>
MCGranteeOf == toTeam :> team @@ fromTeam :> bob
MCOwnerRole == toTeam :> None @@ fromTeam :> team

(* A team that has been granted something, and nothing more.                *)
OneGranteeOf == toTeam :> team
OneOwnerRole == toTeam :> None

Symmetry == Permutations(RoleRun)
=============================================================================
