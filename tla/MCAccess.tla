------------------------------ MODULE MCAccess -------------------------------
(* Alice has projects with tasks, and so has carol, who shares some with    *)
(* her.  Alice authorizes bob, a team and an application of hers.  A note   *)
(* refers to tasks by the same predicate as a project does.                 *)
EXTENDS Access, TLC

CONSTANTS alice, carol, bob, dave, app, team, friends, home, away,
          projects, tasks, notes, otherProjects, otherTasks, p1, p2, t1, n1, q1, q2, u1

MCTreeOf == projects :> "Project" @@ tasks :> "Task" @@ notes :> "Note"
            @@ otherProjects :> "Project" @@ otherTasks :> "Task"
MCRegistryOf == projects :> home @@ tasks :> home @@ notes :> home
                @@ otherProjects :> away @@ otherTasks :> away
MCHolderOf == home :> alice @@ away :> carol
MCRegistrationOf == p1 :> projects @@ p2 :> projects @@ t1 :> tasks @@ n1 :> notes
                    @@ q1 :> otherProjects @@ q2 :> otherProjects @@ u1 :> otherTasks
MCMembersOf == friends :> {alice, carol}
MCAdminsOf == home :> {dave} @@ away :> {}

Tasks(modes) == {[tree |-> "Task", modes |-> modes]}
Of(grantee, scope, owner) ==
  [grantee |-> grantee, owner |-> owner, tree |-> "Project", scope |-> scope, reg |-> None,
   instances |-> {}, modes |-> {"Read"}, children |-> {}]

MCAuthorization ==
  {[Of(bob, "All", None) EXCEPT !.modes = {"Read", "Update"}, !.children = Tasks({"Read"})],
   [Of(bob, "Selected", carol) EXCEPT !.reg = otherProjects, !.instances = {q1},
                                      !.modes = {"Read", "Update"}],
   [Of(team, "Selected", alice) EXCEPT !.reg = projects, !.instances = {p1},
                                       !.children = Tasks({"Read", "Update"})],
   [Of(app, "AllFromRole", friends) EXCEPT !.children = Tasks({"Read"})]}

ByCarol(scope, instances, modes) ==
  [grantee |-> alice, grantedBy |-> carol, owner |-> carol, tree |-> "Project",
   reg |-> otherProjects, scope |-> scope, instances |-> instances, modes |-> modes,
   children |-> {[tree |-> "Task", reg |-> otherTasks, modes |-> {"Read"}]}]
MCShared == carol :> {{ByCarol("AllFromRegistry", {}, {"Read"})},
                      {ByCarol("Selected", {q2}, {"Read", "Update"})}}

MCGiven == {<<p1, t1>>, <<p2, t1>>, <<q1, u1>>}
MCReference == MCGiven \cup {<<q1, t1>>, <<n1, t1>>}
MCTree == {"Project", "Task", "Note"}
MCVia == [from \in MCTree |-> [to \in MCTree |->
            IF to = "Task" /\ from # "Task" THEN "hasTask" ELSE "none"]]
=============================================================================
