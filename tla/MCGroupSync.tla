---------------------------- MODULE MCGroupSync ----------------------------
(***************************************************************************)
(* Small instances of GroupSync: up to three groups, users and names.      *)
(***************************************************************************)
EXTENDS GroupSync

CONSTANTS g1, g2, g3, anna, bert, n1, n2, n3

\* Neither groups, nor users, nor names differ from each other.
Symmetry == Permutations(Group) \cup Permutations(User) \cup Permutations(Name)

\* "deactivate office user, groups should be clean", and of a user who is put
\* into a group, "Is disabled. Not syncing with azure": no group has a member
\* who is disabled, locked or expired.
GroupsClean ==
  Quiet /\ Calm => \A g \in Group \ Debtors(Cause) :
    Here(g) /\ ldap[g].id # 0 => azure[ldap[g].id].members \subseteq enabled

=============================================================================
