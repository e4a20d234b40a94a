---------------------------- MODULE MCGranting ----------------------------
(* Two activities that meet at alice: one grants to her team, the other     *)
(* delegates somebody else's data to her.                                   *)
EXTENDS Granting, TLC

CONSTANTS alice, team,                \* a social agent, a role
          toTeam, toAlice,            \* authorizations
          first, second               \* activities

MCGranteeOf == toTeam :> team @@ toAlice :> alice
MCCarries == first :> {toTeam} @@ second :> {toAlice}
=============================================================================
