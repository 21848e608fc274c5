----------------------------- MODULE MCLicences -----------------------------
(* Two users, two groups with profiles, three subscriptions: one with a     *)
(* seat, one with two, one without plans of Office.                         *)
EXTENDS Licences, TLC

CONSTANTS u1, u2, g1, g2, word, teams, visio

MCGroups == <<g1, g2>>
MCSkus == <<"E1", "V1", "E3">>
MCPlansOf == [s \in {"E1", "E3", "V1"} |->
                CASE s = "E1" -> {word} [] s = "E3" -> {word, teams} [] OTHER -> {visio}]
MCSeats == [s \in {"E1", "E3", "V1"} |-> IF s = "E3" THEN 2 ELSE 1]
MCProfile == {[subscription |-> "E3", white |-> {word, teams}, black |-> {teams}],
              [subscription |-> "E1", white |-> {}, black |-> {visio}],
              [subscription |-> "A5", white |-> {}, black |-> {}]}

MCSymmetry == Permutations(User)

\* "the user listener will search for the first group where an office365/profile
\* is set, and configure the Azure user object accordingly" (README.md:71-73): if
\* there was a seat, and Microsoft did not refuse it.
FirstGroupsProfile ==
  ~failed /\ crashes = 0 =>
    \A u \in User \ raced :
      LET b == basis[u]  P == b.profiles  p == P[First(Groups, DOMAIN P)] IN
      /\ Settled(u) /\ ldap[u].on /\ ~b.refused
      /\ DOMAIN P # {} /\ p.subscription \in b.free
      => licences[u] = {p.subscription}
=============================================================================
