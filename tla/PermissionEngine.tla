--------------------------- MODULE PermissionEngine --------------------------
(***************************************************************************)
(* What a resource server answers (SaiPermissionsEngine): the access modes *)
(* of a target for credentials, from every grant stored for the target's   *)
(* storage, linked or not.  The engine takes the first grant a query       *)
(* returns, in no defined order, so a question has a set of possible       *)
(* answers.                                                                *)
(***************************************************************************)
EXTENDS GrantGeneration

CONSTANTS AdminsOf,   \* of a registry, the agents with a DataRegistry AdminGrant
          Mode,       \* access modes
          Via         \* the predicate by which one shape tree refers to another

ASSUME ModeAssumption == "Read" \in Mode /\ "astray" \notin Mode

Public == [agent |-> None, client |-> None, uas |-> FALSE]

(* A grant together with the grant it hangs below, or with itself.          *)
Entries(stored) == UNION {{[grant |-> h, top |-> g] : h \in Grants(g)} : g \in stored}

(* Mutated: the client is enough, whoever uses it.                          *)
GrantedToClient(g, cred) ==
  IF cred.uas THEN g.grantee = cred.agent ELSE g.grantee = cred.client

(* The pattern of findGrant for an agent's own authorization agent, and for *)
(* an application that acts for the agent.                                  *)
GrantedTo(g, cred) ==
  IF cred.uas THEN g.grantee = cred.agent
  ELSE g.grantedBy = cred.agent /\ g.grantee = cred.client

(* The grants a question is answered from: the asker's own, and those made  *)
(* to the public, which are tried next.                                     *)
Held(stored, cred) ==
  [by |-> cred,
   own |-> Entries({g \in stored : GrantedTo(g, cred)}),
   public |-> Entries({g \in stored : GrantedTo(g, Public)})]

(* findGrant: any of the matching grants; without one, any public one.      *)
FindGrant(held, scope, r, picked) ==
  LET match(entries) == {e \in entries : /\ e.grant.scope = scope /\ e.grant.reg = r
                                         /\ picked \subseteq e.grant.instances}
  IN IF match(held.own) # {} THEN match(held.own) ELSE match(held.public)

ModesOf(entries) == IF entries = {} THEN {{}} ELSE {e.grant.modes : e \in entries}

(* findAdminModes.                                                          *)
AdminModes(registry, cred) == IF cred.agent \in AdminsOf[registry] THEN {"Read"} ELSE {}

(* findRegistrationModes and findResourceModes.                             *)
RegistrationModes(held, r) == ModesOf(FindGrant(held, "AllFromRegistry", r, {}))
ResourceModes(held, i) == ModesOf(FindGrant(held, "Selected", RegistrationOf[i], {i}))

(* What findParentResource may take for an instance's parent of a shape     *)
(* tree: whatever refers to it by the predicate that tree has for it, of    *)
(* this tree or of another, wherever it is stored.                          *)
Referring(i, tree, refers) ==
  LET treeOf(x) == TreeOf[RegistrationOf[x]] IN
  {p \in Instance : <<p, i>> \in refers /\ Via[treeOf(p)][treeOf(i)] = Via[tree][treeOf(i)]}

(* findInheritedModes, given the answers for the instances above.  The      *)
(* first result counts.  One outside the registration of the parent grant   *)
(* is an error, which "astray" stands for: of this question and of every    *)
(* one that depends on it.                                                  *)
InheritedModes(held, i, refers, answers) ==
  LET found == FindGrant(held, "Inherited", RegistrationOf[i], {})
      parents(e) == Referring(i, e.top.tree, refers)
      below(e, p) == IF RegistrationOf[p] # e.top.reg THEN {{"astray"}}
                     ELSE {IF "astray" \in above THEN {"astray"}
                           ELSE IF "Read" \in above THEN e.grant.modes ELSE {} : above \in answers[p]}
  IN IF found = {} THEN {{}}
     ELSE UNION {IF parents(e) = {} THEN {{}} ELSE UNION {below(e, p) : p \in parents(e)} :
                   e \in found}

-----------------------------------------------------------------------------
(* getPermissions for a registration and for each instance.  An error       *)
(* answers the whole question with nothing.                                 *)
RegistrationAnswers(stored, r, cred) ==
  {m \cup AdminModes(RegistryOf[r], cred) : m \in RegistrationModes(Held(stored, cred), r)}
AnswersFor(held, i, refers, answers) ==
  {IF "astray" \in inherited THEN {"astray"}
   ELSE picked \cup all \cup inherited \cup AdminModes(RegistryOf[RegistrationOf[i]], held.by) :
     picked \in ResourceModes(held, i),
     all \in RegistrationModes(held, RegistrationOf[i]),
     inherited \in InheritedModes(held, i, refers, answers)}
Outcomes(held, refers) ==
  LET answers[i \in Instance] == AnswersFor(held, i, refers, answers) IN answers
InstanceAnswers(stored, refers, cred) ==
  LET outcomes == Outcomes(Held(stored, cred), refers)
  IN [i \in Instance |-> {IF "astray" \in m THEN {} ELSE m : m \in outcomes[i]}]
=============================================================================
