----------------------------- MODULE MCUserSync -----------------------------
(***************************************************************************)
(* Small instances of UserSync: two users and two mail addresses, with two *)
(* connections or with one.                                                *)
(***************************************************************************)
EXTENDS UserSync

CONSTANTS anna, bert, m1, m2, a, b

\* Neither users nor mail addresses differ from each other.
Symmetry == Permutations(User) \cup Permutations(Mail)

\* "Deactivating office365-option (should deactivate azure-user)": the test
\* of deactivation takes it that a user who is not to be synchronised has no
\* working account once the listener has handled every change.
Deprovisioned ==
  Quiet /\ ~failed =>
    \A u \in User \ lapsed, t \in Tenant :
      ldap[u].life = "here" /\ ~ShouldSync(ldap[u]) =>
        \A acc \in Accounts(u, t) : ~acc.enabled

=============================================================================
