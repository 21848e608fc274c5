------------------------------ MODULE Licences ------------------------------
(***************************************************************************)
(* Licences: UserConnector._assign_subscription within the call that       *)
(* creates or reactivates a user, their return when the user is            *)
(* deactivated, the profiles of groups (SubscriptionProfile) and the       *)
(* subscriptions of the tenant (SubscriptionAzure).                        *)
(*                                                                         *)
(* There is one connection, the tenant has an account for every user, and  *)
(* the listener handles one user at a time, in any order: once an entry    *)
(* differs from the one it handled last, and once more after it was killed *)
(* if it still does.  UserSync has the rest of these calls.                *)
(***************************************************************************)
EXTENDS Integers, Sequences, FiniteSets, Functions

CONSTANTS
  User,       \* users
  Groups,     \* groups, in the order in which a user's entry names them
  Skus,       \* subscriptions, in the order in which Microsoft lists them
  Plan,       \* service plans
  PlansOf,    \* PlansOf[s]: the plans of a subscription
  Office,     \* plans that make a subscription one of Office
  Seats,      \* Seats[s]: prepaidUnits.enabled
  Profile,    \* profiles: a subscription, a white list and a black list
  MaxChanges, \* bound: changes made from outside
  MaxCrashes  \* bound: times the listener is killed

Group == Range(Groups)
Sku == Range(Skus)
NoProfile == [subscription |-> "none", white |-> {}, black |-> {}]

ASSUME OrderAssumption == Groups \in Seq(Group) /\ Skus \in Seq(Sku)
ASSUME SkuAssumption == /\ PlansOf \in [Sku -> SUBSET Plan]
                        /\ Seats \in [Sku -> Nat]
                        /\ "none" \notin Sku
\* A profile may name a subscription the tenant does not have.
ASSUME ProfileAssumption ==
  \A p \in Profile : /\ DOMAIN p = {"subscription", "white", "black"}
                     /\ p.white \in SUBSET Plan /\ p.black \in SUBSET Plan
ASSUME BoundsAssumption == MaxChanges \in Nat /\ MaxCrashes \in Nat

VARIABLES
  ldap,     \* ldap[u]: the user is to be synchronised, its objectId is there
  seen,     \* seen[u]: the same, in the listener's cache
  member,   \* member[u]: its groups
  profile,  \* profile[g]: the profile of a group
  active,   \* subscriptions whose capabilityStatus is Enabled
  others,   \* others[s]: seats other people have
  licences, \* licences[u]: its subscriptions
  off,      \* off[u][s]: the plans that are disabled for it
  job,      \* the call of the listener module, or Idle
  changes,  \* changes made so far
  crashes,  \* times the listener was killed
  failed,   \* some call has failed (history)
  raced,    \* users switched while a change of theirs waited (history)
  basis     \* basis[u]: what the last choice for the user was made from (history)

vars == <<ldap, seen, member, profile, active, others, licences, off, job,
          changes, crashes, failed, raced, basis>>
entries == <<ldap, seen>>
config == <<member, profile, active, others>>
tenant == <<licences, off>>
history == <<changes, crashes, failed, raced>>

Idle == [pc |-> "idle"]
busy == job # Idle
NoProfiles == [g \in {} |-> NoProfile]
NoBasis == [profiles |-> NoProfiles, listed |-> {}, free |-> {}, refused |-> FALSE]
PC == {"list", "choose", "add", "write", "list licences", "strip", "done"}
UserEntry == [on : BOOLEAN, id : BOOLEAN]
Job == [pc : PC, user : User, new : UserEntry, listed : SUBSET Sku, free : SUBSET Sku,
        sku : Sku \cup {"none"}, off : SUBSET Plan, todo : SUBSET Sku]
Profiles == UNION {[G -> Profile] : G \in SUBSET Group}
Basis == [profiles : Profiles, listed : SUBSET Sku, free : SUBSET Sku, refused : BOOLEAN]

TypeOK ==
  /\ ldap \in [User -> UserEntry] /\ seen \in [User -> UserEntry]
  /\ member \in [User -> SUBSET Group]
  /\ profile \in [Group -> Profile \cup {NoProfile}]
  /\ active \subseteq Sku
  /\ others \in [Sku -> Nat]
  /\ licences \in [User -> SUBSET Sku]
  /\ off \in [User -> [Sku -> SUBSET Plan]]
  /\ job \in Job \cup {Idle}
  /\ changes \in 0 .. MaxChanges /\ crashes \in 0 .. MaxCrashes
  /\ failed \in BOOLEAN /\ raced \subseteq User
  /\ basis \in [User -> Basis]

\* At first nobody is synchronised, and all users are in the same groups.
Init ==
  /\ ldap = [u \in User |-> [on |-> FALSE, id |-> FALSE]]
  /\ seen = ldap
  /\ \E G \in SUBSET Group : member = [u \in User |-> G]
  /\ profile = [g \in Group |-> NoProfile]
  /\ active = Sku
  /\ others = [s \in Sku |-> 0]
  /\ licences = [u \in User |-> {}]
  /\ off = [u \in User |-> [s \in Sku |-> {}]]
  /\ job = Idle
  /\ changes = 0 /\ crashes = 0
  /\ failed = FALSE /\ raced = {}
  /\ basis = [u \in User |-> NoBasis]

Consumed(s) == others[s] + Cardinality({u \in User : s \in licences[u]})

\* SubscriptionAzure.has_free_seats
HasFreeSeats(s) == Seats[s] > Consumed(s)

-----------------------------------------------------------------------------
(* Administrators of LDAP and of the tenant.                               *)

Change ==
  /\ changes < MaxChanges
  /\ changes' = changes + 1
  /\ UNCHANGED <<seen, tenant, job, crashes, failed, basis>>

Switch(u) ==
  /\ Change
  /\ ldap' = [ldap EXCEPT ![u].on = ~@]
  /\ raced' = IF seen[u] # ldap[u] THEN raced \cup {u} ELSE raced
  /\ UNCHANGED config

SetProfile(g) ==
  /\ Change
  /\ \E p \in (Profile \cup {NoProfile}) \ {profile[g]} : profile' = [profile EXCEPT ![g] = p]
  /\ UNCHANGED <<ldap, member, active, others, raced>>

TakeSeat(s) ==
  /\ Change
  /\ HasFreeSeats(s)
  /\ others' = [others EXCEPT ![s] = @ + 1]
  /\ UNCHANGED <<ldap, member, profile, active, raced>>

FreeSeat(s) ==
  /\ Change
  /\ others[s] > 0
  /\ others' = [others EXCEPT ![s] = @ - 1]
  /\ UNCHANGED <<ldap, member, profile, active, raced>>

\* The user is put into groups, or taken out.
SetGroups(u) ==
  /\ Change
  /\ \E G \in (SUBSET Group) \ {member[u]} : member' = [member EXCEPT ![u] = G]
  /\ UNCHANGED <<ldap, profile, active, others, raced>>

Suspend(s) ==
  /\ Change
  /\ active' = IF s \in active THEN active \ {s} ELSE active \cup {s}
  /\ UNCHANGED <<ldap, member, profile, others, raced>>

-----------------------------------------------------------------------------
(* The listener.                                                           *)

Call(u, pc) ==
  [pc |-> pc, user |-> u, new |-> ldap[u], listed |-> {}, free |-> {},
   sku |-> "none", off |-> {}, todo |-> {}]

\* Fault: whoever is to be synchronised is activated with every change.
StartFault ==
  /\ ~busy
  /\ \E u \in User :
       /\ seen[u] # ldap[u]
       /\ job' = Call(u, IF ldap[u].on THEN "list" ELSE "list licences")
  /\ UNCHANGED <<entries, config, tenant, history, basis>>

\* new_or_reactivate_user, deactivate, or nothing that is about licences
Start ==
  /\ ~busy
  /\ \E u \in User :
       /\ seen[u] # ldap[u]
       /\ job' = Call(u, IF seen[u].on = ldap[u].on THEN "done"
                         ELSE IF ldap[u].on THEN "list" ELSE "list licences")
  /\ UNCHANGED <<entries, config, tenant, history, basis>>

\* The listener keeps the entry it has read, whether its module raises or not.
Return ==
  /\ seen' = [seen EXCEPT ![job.user] = job.new]
  /\ job' = Idle
  /\ UNCHANGED <<ldap, config, tenant, changes, crashes, raced, basis>>

Finish == job.pc = "done" /\ Return /\ UNCHANGED failed

\* SubscriptionAzure.get_enabled
GetEnabled == {s \in active : PlansOf[s] \cap Office # {}}

\* create_or_modify has found or made the account.
List ==
  /\ job.pc = "list"
  /\ job' = [job EXCEPT !.pc = IF GetEnabled = {} THEN "write" ELSE "choose",
                        !.listed = GetEnabled,
                        !.free = {s \in GetEnabled : HasFreeSeats(s)}]
  /\ basis' = [basis EXCEPT ![job.user] = NoBasis]
  /\ UNCHANGED <<entries, config, tenant, history>>

\* Fault: groups without a profile are not left out.
ProfilesForFault(u) == [g \in member[u] |-> profile[g]]

\* SubscriptionProfile.get_profiles_for_groups
ProfilesFor(u) == [g \in {h \in member[u] : profile[h] # NoProfile} |-> profile[g]]

\* The first and the last member of S in the order of q.
First(q, S) == q[CHOOSE i \in DOMAIN q : q[i] \in S /\ \A j \in DOMAIN q : q[j] \in S => i <= j]
Last(q, S) == q[CHOOSE i \in DOMAIN q : q[i] \in S /\ \A j \in DOMAIN q : q[j] \in S => j <= i]

\* The loop over the profiles goes on after it has found one: that with free
\* seats is the last one, and the subscription is that of the very last.
Usable(P) == {g \in DOMAIN P : P[g].subscription \in job.free}
Selected(P) == P[Last(Groups, DOMAIN P)].subscription

\* Fault: the plans of the black list are forgotten where there is a white list.
DisabledFault(p, s) == IF p.white # {} THEN PlansOf[s] \ p.white ELSE p.black \cap PlansOf[s]

\* the plans that are not on the white list, and those on the black list
Disabled(p, s) ==
  (IF p.white # {} THEN PlansOf[s] \ p.white ELSE {}) \cup (p.black \cap PlansOf[s])

Decide(sku, plans, P) ==
  /\ job' = [job EXCEPT !.pc = "add", !.sku = sku, !.off = plans]
  /\ basis' = [basis EXCEPT ![job.user] =
                 [profiles |-> P, listed |-> job.listed, free |-> job.free, refused |-> FALSE]]

\* Without profiles: the first subscription with free seats, else the first.
ChooseAny ==
  /\ job.pc = "choose" /\ DOMAIN ProfilesFor(job.user) = {}
  /\ Decide(First(Skus, IF job.free = {} THEN job.listed ELSE job.free), {}, NoProfiles)
  /\ UNCHANGED <<entries, config, tenant, history>>

ChooseProfile ==
  /\ job.pc = "choose"
  /\ LET P == ProfilesFor(job.user) IN
     /\ Usable(P) # {} /\ Selected(P) \in job.listed
     /\ Decide(Selected(P), Disabled(P[Last(Groups, Usable(P))], Selected(P)), P)
  /\ UNCHANGED <<entries, config, tenant, history>>

\* NoAllocatableSubscriptions is logged, the tokens stay valid.
ChooseNothing ==
  /\ job.pc = "choose"
  /\ LET P == ProfilesFor(job.user) IN
     /\ DOMAIN P # {} /\ Usable(P) = {}
     /\ basis' = [basis EXCEPT ![job.user] =
                    [profiles |-> P, listed |-> job.listed, free |-> job.free, refused |-> FALSE]]
  /\ job' = [job EXCEPT !.pc = "write"]
  /\ UNCHANGED <<entries, config, tenant, history>>

\* The very last subscription is not there: an AttributeError of None leaves
\* the call, and the objectId is not written.
ChooseNone ==
  /\ job.pc = "choose"
  /\ LET P == ProfilesFor(job.user) IN Usable(P) # {} /\ Selected(P) \notin job.listed
  /\ Return
  /\ failed' = TRUE

\* Fault: the list of licences is replaced.
AddLicenceFault ==
  /\ job.pc = "add"
  /\ job.sku \in licences[job.user] \/ HasFreeSeats(job.sku)
  /\ licences' = [licences EXCEPT ![job.user] = {job.sku}]
  /\ off' = [off EXCEPT ![job.user][job.sku] = job.off]
  /\ job' = [job EXCEPT !.pc = "write"]
  /\ UNCHANGED <<entries, config, history, basis>>

\* assignLicense: Microsoft sets the plans of a subscription the user has.
AddLicence ==
  /\ job.pc = "add"
  /\ job.sku \in licences[job.user] \/ HasFreeSeats(job.sku)
  /\ licences' = [licences EXCEPT ![job.user] = @ \cup {job.sku}]
  /\ off' = [off EXCEPT ![job.user][job.sku] = job.off]
  /\ job' = [job EXCEPT !.pc = "write"]
  /\ UNCHANGED <<entries, config, history, basis>>

\* For want of a seat, or for whatever reason Microsoft has: AddLicenseError is
\* logged.
RefuseLicence ==
  /\ job.pc = "add"
  /\ basis' = [basis EXCEPT ![job.user].refused = TRUE]
  /\ job' = [job EXCEPT !.pc = "write"]
  /\ UNCHANGED <<entries, config, tenant, history>>

\* modify_azure_attributes
Write ==
  /\ job.pc = "write"
  /\ ldap' = [ldap EXCEPT ![job.user].id = TRUE]
  /\ job' = [job EXCEPT !.pc = "done"]
  /\ UNCHANGED <<seen, config, tenant, history, basis>>

\* Fault: the licences are not asked for.
ListLicencesFault ==
  /\ job.pc = "list licences" /\ seen[job.user].id
  /\ job' = [job EXCEPT !.pc = "strip", !.todo = {}]
  /\ UNCHANGED <<entries, config, tenant, history, basis>>

\* UserAzure.deactivate: get_assignedLicenses asks once.
ListLicences ==
  /\ job.pc = "list licences" /\ seen[job.user].id
  /\ job' = [job EXCEPT !.pc = "strip", !.todo = licences[job.user]]
  /\ UNCHANGED <<entries, config, tenant, history, basis>>

\* The entry handled last has no objectId: modify_user raises a ValueError.
ListUnknown ==
  /\ job.pc = "list licences" /\ ~seen[job.user].id
  /\ Return
  /\ UNCHANGED failed

RemoveLicence ==
  /\ job.pc = "strip"
  /\ \E s \in job.todo :
       /\ licences' = [licences EXCEPT ![job.user] = @ \ {s}]
       /\ off' = [off EXCEPT ![job.user][s] = {}]
       /\ job' = [job EXCEPT !.todo = @ \ {s}]
  /\ UNCHANGED <<entries, config, history, basis>>

Stripped ==
  /\ job.pc = "strip" /\ job.todo = {}
  /\ job' = [job EXCEPT !.pc = "done"]
  /\ UNCHANGED <<entries, config, tenant, history, basis>>

\* Any call of Microsoft Graph or LDAP may raise what nobody catches.
Fails ==
  /\ busy /\ job.pc # "done" /\ ~failed
  /\ failed' = TRUE
  /\ Return

\* The listener is killed: it handles the change again when it is back.
Crash ==
  /\ busy /\ crashes < MaxCrashes
  /\ crashes' = crashes + 1
  /\ job' = Idle
  /\ UNCHANGED <<entries, config, tenant, changes, failed, raced, basis>>

Admin == \/ \E u \in User : Switch(u) \/ SetGroups(u)
         \/ \E g \in Group : SetProfile(g)
         \/ \E s \in Sku : TakeSeat(s) \/ FreeSeat(s) \/ Suspend(s)
Assign == List \/ ChooseAny \/ ChooseProfile \/ ChooseNothing \/ ChooseNone
            \/ AddLicence \/ RefuseLicence \/ Write
Revoke == ListLicences \/ ListUnknown \/ RemoveLicence \/ Stripped
Listener == Start \/ (busy /\ (Assign \/ Revoke \/ Finish))

Next == Admin \/ Listener \/ Fails \/ Crash

Spec == Init /\ [][Next]_vars

-----------------------------------------------------------------------------
(* What is promised of licences.                                           *)

Settled(u) == seen[u] = ldap[u] /\ ~(busy /\ job.user = u)

\* Users who are not synchronised have given all their licences back, so that
\* others can have the seats, however seats and profiles changed meanwhile.
\* Not so if a call failed, if the user was switched again before the call that
\* follows the module's own write of the objectId, or if the listener was killed:
\* then the user is not known to have an account.
SeatsReturned ==
  ~failed /\ crashes = 0 =>
    \A u \in User \ raced : Settled(u) /\ ~ldap[u].on => licences[u] = {}

\* Nobody has two licences of the connector, unless it was interrupted.
OneLicence ==
  ~failed /\ crashes = 0 => \A u \in User \ raced : Cardinality(licences[u]) <= 1

Allowed(p) ==
  {x \in PlansOf[p.subscription] : (p.white = {} \/ x \in p.white) /\ x \notin p.black}

\* What the choice b demands of licences L with the plans o disabled.
Demand(b, L, o) ==
  LET P == b.profiles
      p == P[Last(Groups, DOMAIN P)]
      usable == {g \in DOMAIN P : P[g].subscription \in b.free}
      first == First(Skus, IF b.free = {} THEN b.listed ELSE b.free) IN
  /\ b.refused \/ (DOMAIN P # {} /\ usable = {}) => L = {}
  /\ ~b.refused /\ usable # {} =>
       /\ L = {p.subscription}
       /\ p.subscription \in b.free =>
            PlansOf[p.subscription] \ o[p.subscription] = Allowed(p)
  /\ ~b.refused /\ DOMAIN P = {} =>
       L = {s \in b.listed : s = first} /\ \A s \in L : o[s] = {}

\* A user that was synchronised has the licence that its choice demands, and no
\* other.  Of the profiles of its groups, as the choice found them, that of the
\* last group decides: the user has its subscription, with exactly the plans it
\* allows if there was a seat (else the plans are those of another profile).  The
\* user has no licence only if no profile named a subscription with a seat, or
\* Microsoft refused it.  Without profiles it is the first subscription with a
\* seat, or the first one at all, with all its plans.
LicenceAsDemanded ==
  ~failed /\ crashes = 0 =>
    \A u \in User \ raced :
      Settled(u) /\ ldap[u].on => Demand(basis[u], licences[u], off[u])

\* A subscription is chosen only while it is enabled; afterwards a user keeps
\* what it has until it is deactivated: changes of profiles, groups, seats and
\* other users do not take it away.
KeepsLicence ==
  [][\A u \in User : licences[u] \ licences'[u] # {} => busy /\ job.user = u /\ ~job.new.on]_vars

=============================================================================
