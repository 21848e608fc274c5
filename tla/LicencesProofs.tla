--------------------------- MODULE LicencesProofs ---------------------------
(***************************************************************************)
(* What is proved of Licences, for any number of users, groups,            *)
(* subscriptions, seats, changes and kills.  Beside the types, the         *)
(* invariant says of each user what its licences are while the listener is *)
(* at rest with it, and at each step of the call that is about it.         *)
(***************************************************************************)
EXTENDS Licences, WellFoundedInduction, FiniteSetTheorems, TLAPS

Undisturbed == ~failed /\ crashes = 0
Ours(u) == busy /\ job.user = u
OneOf(L) == \A s, t \in L : s = t

\* The subscription and the plans that are asked for next.
Asked(b, s, plans) ==
  LET P == b.profiles
      p == P[Last(Groups, DOMAIN P)]
      usable == {g \in DOMAIN P : P[g].subscription \in b.free}
      first == First(Skus, IF b.free = {} THEN b.listed ELSE b.free) IN
  /\ DOMAIN P # {} =>
       /\ usable # {} /\ s = p.subscription
       /\ s \in b.free => PlansOf[s] \ plans = Allowed(p)
  /\ DOMAIN P = {} => s \in b.listed /\ s = first /\ plans = {}

\* No call is about the user: l is its entry, s the entry handled last.
Rest(l, s, L, o, b) ==
  /\ OneOf(L)
  /\ ~s.on => L = {}
  /\ s.on => Demand(b, L, o)
  /\ L # {} => l.id
  /\ l.on # s.on => l.id = s.id

\* Call j is about the user.
Work(j, l, s, L, o, b) ==
  /\ OneOf(L)
  /\ l.on = j.new.on /\ l # s
  /\ j.pc \in {"list", "choose", "add"} => j.new.on /\ ~s.on /\ L = {}
  /\ j.pc = "add" => Asked(b, j.sku, j.off) /\ ~b.refused
  /\ j.pc = "write" => j.new.on /\ ~s.on /\ Demand(b, L, o)
  /\ j.pc = "list licences" => (L # {} => s.id)
  /\ j.pc = "strip" => L \subseteq j.todo
  /\ j.pc = "done" => /\ L # {} => l.id
                      /\ j.new.on => Demand(b, L, o)
                      /\ ~j.new.on => L = {}

UserInv(u) ==
  /\ Ours(u) => Work(job, ldap[u], seen[u], licences[u], off[u], basis[u])
  /\ ~Ours(u) => Rest(ldap[u], seen[u], licences[u], off[u], basis[u])

Steps ==
  busy => /\ job.pc = "choose" => job.listed # {}
          /\ job.free \subseteq job.listed
          /\ job.pc = "add" => job.sku \in Sku
          /\ job.pc \in {"list licences", "strip"} => ~job.new.on

Kept == Undisturbed => \A u \in User \ raced : UserInv(u)

IInv == TypeOK /\ Steps /\ Kept

-----------------------------------------------------------------------------
(* Operators.                                                              *)

\* Natural numbers have a least one among them: what first and last in an
\* order rest on (connector.py:418, 426).
LEMMA LeastNat ==
  ASSUME NEW S, S \subseteq Nat, S # {}
  PROVE  \E i \in S : \A j \in S : i <= j
<1> DEFINE R == {ss \in Nat \X Nat : ss[1] < ss[2]}
<1>1. IsWellFoundedOn(R, Nat)
  BY NatLessThanWellFounded DEF OpToRel
<1>2. PICK i \in S : \A j \in S : ~ (<<j, i>> \in R)
  <2> HIDE DEF R
  <2> QED BY <1>1, WFMin
<1>3. ASSUME NEW j \in S PROVE i <= j
  <2>1. i \in Nat /\ j \in Nat /\ <<j, i>> \in Nat \X Nat OBVIOUS
  <2>2. ~ (j < i)
    <3> SUFFICES ASSUME j < i PROVE FALSE OBVIOUS
    <3>1. <<j, i>> \in R BY <2>1
    <3> QED BY <1>2, <3>1
  <2> QED BY <2>1, <2>2
<1> QED BY <1>3

LEMMA FirstIn ==
  ASSUME NEW T, NEW q \in Seq(T), NEW S, S \cap Range(q) # {}
  PROVE  First(q, S) \in S
<1> DEFINE I == {i \in DOMAIN q : q[i] \in S}
<1>1. DOMAIN q = 1 .. Len(q) /\ Len(q) \in Nat
  OBVIOUS
<1>2. I \subseteq Nat /\ I # {}
  BY <1>1 DEF Range
<1>3. PICK i \in I : \A j \in I : i <= j
  <2> HIDE DEF I
  <2> QED BY <1>2, LeastNat
<1>4. \E k \in DOMAIN q : q[k] \in S /\ \A j \in DOMAIN q : q[j] \in S => k <= j
  BY <1>3
<1> QED BY <1>4 DEF First

LEMMA LastIndex ==
  ASSUME NEW T, NEW q \in Seq(T), NEW S, S \cap Range(q) # {}
  PROVE  \E k \in DOMAIN q : /\ q[k] \in S /\ Last(q, S) = q[k]
                             /\ \A j \in DOMAIN q : q[j] \in S => j <= k
<1> DEFINE I == {i \in DOMAIN q : q[i] \in S}
           N == {Len(q) - i : i \in I}
<1>1. DOMAIN q = 1 .. Len(q) /\ Len(q) \in Nat
  OBVIOUS
<1>2. I # {} /\ \A i \in I : i \in 1 .. Len(q)
  BY <1>1 DEF Range
<1>3. N \subseteq Nat /\ N # {}
  <2> HIDE DEF I
  <2> QED BY <1>1, <1>2
<1>4. PICK n \in N : \A m \in N : n <= m
  <2> HIDE DEF N
  <2> QED BY <1>3, LeastNat
<1>5. PICK i \in I : n = Len(q) - i
  OBVIOUS
<1>6. ASSUME NEW j \in I PROVE j <= i
  <2>1. Len(q) - i <= Len(q) - j
    BY <1>4, <1>5
  <2> HIDE DEF I
  <2> QED BY <1>1, <1>2, <2>1
<1>7. \E k \in DOMAIN q : q[k] \in S /\ \A j \in DOMAIN q : q[j] \in S => j <= k
  BY <1>6
<1> QED BY <1>7 DEF Last

LEMMA LastIn ==
  ASSUME NEW T, NEW q \in Seq(T), NEW S, S \cap Range(q) # {}
  PROVE  Last(q, S) \in S
BY LastIndex

\* The last of some is the last of all, if that is one of them.
LEMMA LastAgrees ==
  ASSUME NEW T, NEW q \in Seq(T), NEW D, NEW U, U \subseteq D,
         D \cap Range(q) # {}, Last(q, D) \in U
  PROVE  Last(q, U) = Last(q, D)
<1>1. PICK i \in DOMAIN q : /\ q[i] \in D /\ Last(q, D) = q[i]
                            /\ \A j \in DOMAIN q : q[j] \in D => j <= i
  BY LastIndex
<1>2. q[i] \in U \cap Range(q)
  BY <1>1 DEF Range
<1>3. PICK k \in DOMAIN q : /\ q[k] \in U /\ Last(q, U) = q[k]
                            /\ \A j \in DOMAIN q : q[j] \in U => j <= k
  BY <1>2, LastIndex
<1>4. i <= k /\ k <= i /\ i \in Nat /\ k \in Nat
  BY <1>1, <1>2, <1>3
<1>5. i = k
  BY <1>4
<1> QED BY <1>1, <1>3, <1>5

LEMMA SkusType == Skus \in Seq(Sku) /\ Range(Skus) = Sku
BY OrderAssumption DEF Sku

LEMMA GroupsType == Groups \in Seq(Group) /\ Range(Groups) = Group
BY OrderAssumption DEF Group

LEMMA ProfilesType ==
  ASSUME TypeOK, NEW u \in User
  PROVE  ProfilesFor(u) \in Profiles /\ DOMAIN ProfilesFor(u) \subseteq Group
<1> DEFINE G == {h \in member[u] : profile[h] # NoProfile}
<1>1. G \in SUBSET Group
  BY DEF TypeOK
<1>2. \A g \in G : profile[g] \in Profile
  BY DEF TypeOK
<1>3. ProfilesFor(u) = [g \in G |-> profile[g]]
  BY DEF ProfilesFor
<1> HIDE DEF G
<1>4. ProfilesFor(u) \in [G -> Profile]
  BY <1>2, <1>3
<1> QED BY <1>1, <1>3, <1>4 DEF Profiles

LEMMA NoBasisType == NoProfiles \in Profiles /\ NoBasis \in Basis
<1>1. NoProfiles \in [{} -> Profile]
  BY DEF NoProfiles
<1>2. NoProfiles \in Profiles
  BY <1>1 DEF Profiles
<1> QED BY <1>2 DEF NoBasis, Basis

\* Where nothing was chosen there is no licence.
LEMMA NoBasisDemand == \A o : Demand(NoBasis, {}, o)
<1>1. DOMAIN NoBasis.profiles = {} /\ NoBasis.listed = {} /\ ~NoBasis.refused
  BY DEF NoBasis, NoProfiles
<1> QED BY <1>1 DEF Demand

LEMMA DisabledType ==
  ASSUME NEW p \in Profile, NEW s \in Sku
  PROVE  Disabled(p, s) \subseteq Plan
BY ProfileAssumption, SkuAssumption DEF Disabled

\* Without profiles the first subscription that has a seat is asked for, with
\* all its plans (connector.py:418).
LEMMA AnyAsked ==
  ASSUME NEW listed \in SUBSET Sku, listed # {}, NEW free \in SUBSET listed,
         NEW b, b = [profiles |-> NoProfiles, listed |-> listed, free |-> free, refused |-> FALSE],
         NEW s, s = First(Skus, IF free = {} THEN listed ELSE free)
  PROVE  s \in listed /\ Asked(b, s, {})
<1>1. DOMAIN b.profiles = {} /\ b.free = free /\ b.listed = listed
  BY DEF NoProfiles
<1>2. s \in IF free = {} THEN listed ELSE free
  BY SkusType, FirstIn
<1> QED BY <1>1, <1>2 DEF Asked

\* With profiles, if one can be used, the subscription of the last one is asked
\* for, and if that can be used, with its plans (connector.py:426).
LEMMA ProfileAsked ==
  ASSUME NEW P \in Profiles, DOMAIN P \subseteq Group,
         NEW listed, NEW free,
         NEW b, b = [profiles |-> P, listed |-> listed, free |-> free, refused |-> FALSE],
         NEW U, U = {g \in DOMAIN P : P[g].subscription \in free}, U # {},
         NEW s, s = P[Last(Groups, DOMAIN P)].subscription
  PROVE  Asked(b, s, Disabled(P[Last(Groups, U)], s))
<1> DEFINE D == DOMAIN P
           p == P[Last(Groups, D)]
<1>1. b.profiles = P /\ b.free = free
  OBVIOUS
<1>2. D # {} /\ D \cap Range(Groups) # {} /\ U \subseteq D
  BY GroupsType
<1>3. Last(Groups, D) \in D
  BY <1>2, GroupsType, LastIn
<1>4. ASSUME s \in free
      PROVE  PlansOf[s] \ Disabled(P[Last(Groups, U)], s) = Allowed(p)
  <2>1. Last(Groups, D) \in U
    BY <1>3, <1>4
  <2>2. Last(Groups, U) = Last(Groups, D)
    BY <1>2, <2>1, GroupsType, LastAgrees
  <2>3. PlansOf[s] \ Disabled(p, s) = Allowed(p)
    BY DEF Disabled, Allowed
  <2> QED BY <2>2, <2>3
<1>5. U = {g \in DOMAIN b.profiles : b.profiles[g].subscription \in b.free}
  BY <1>1
<1> QED BY <1>1, <1>2, <1>4, <1>5 DEF Asked

-----------------------------------------------------------------------------
(* The initial states, and what is left alone.                             *)

LEMMA JobFields ==
  ASSUME TypeOK, busy
  PROVE  /\ job \in Job /\ job.pc \in PC /\ job.user \in User /\ job.new \in UserEntry
         /\ job.listed \subseteq Sku /\ job.free \subseteq Sku /\ job.off \subseteq Plan
         /\ job.todo \subseteq Sku
<1>1. job \in Job
  BY DEF TypeOK, busy
<1> QED BY <1>1 DEF Job

LEMMA InitInv == Init => IInv
<1> SUFFICES ASSUME Init PROVE IInv
  OBVIOUS
<1>1. ldap \in [User -> UserEntry] /\ seen \in [User -> UserEntry]
  BY DEF Init, UserEntry
<1>2. /\ member \in [User -> SUBSET Group] /\ profile \in [Group -> Profile \cup {NoProfile}]
      /\ active \subseteq Sku /\ others \in [Sku -> Nat] /\ licences \in [User -> SUBSET Sku]
      /\ off \in [User -> [Sku -> SUBSET Plan]] /\ job \in Job \cup {Idle}
      /\ raced \subseteq User
  BY DEF Init
<1>3. changes \in 0 .. MaxChanges /\ crashes \in 0 .. MaxCrashes
  <2>1. changes = 0 /\ crashes = 0
    BY DEF Init
  <2> QED BY <2>1, BoundsAssumption
<1>4. failed \in BOOLEAN
  BY Zenon DEF Init
<1>5. basis \in [User -> Basis]
  BY NoBasisType DEF Init
<1>6. TypeOK
  BY <1>1, <1>2, <1>3, <1>4, <1>5 DEF TypeOK
<1>7. ~busy
  BY DEF Init, busy
<1>8. Kept
  <2> SUFFICES ASSUME NEW u \in User PROVE UserInv(u)
    BY DEF Kept
  <2>1. ldap[u] = seen[u] /\ ~seen[u].on /\ licences[u] = {}
    BY DEF Init
  <2>2. Rest(ldap[u], seen[u], licences[u], off[u], basis[u])
    BY <2>1 DEF Rest, OneOf
  <2> QED BY <1>7, <2>2 DEF UserInv, Ours
<1> QED BY <1>6, <1>7, <1>8 DEF IInv, Steps

\* A step of a call that changes nothing of other users needs to be looked at
\* for its own user only.
LEMMA OthersKept ==
  ASSUME IInv, busy, NEW me, me = job.user,
         job' = Idle \/ job'.user = me,
         Undisturbed' => Undisturbed, raced' = raced,
         \A v \in User \ {me} :
           /\ ldap'[v] = ldap[v] /\ seen'[v] = seen[v] /\ licences'[v] = licences[v]
           /\ off'[v] = off[v] /\ basis'[v] = basis[v],
         Undisturbed /\ Undisturbed' /\ me \notin raced => UserInv(me)'
  PROVE  Kept'
<1> SUFFICES ASSUME Undisturbed', NEW v \in User, v \notin raced
             PROVE  UserInv(v)'
  BY DEF Kept
<1>1. Undisturbed
  OBVIOUS
<1>2. CASE v = me
  BY <1>1, <1>2
<1>3. CASE v # me
  <2>1. UserInv(v)
    BY <1>1 DEF IInv, Kept
  <2>2. ~Ours(v)
    BY <1>3 DEF Ours
  <2>3. ~Ours(v)'
    BY <1>3 DEF Ours, busy
  <2>4. Rest(ldap[v], seen[v], licences[v], off[v], basis[v])
    BY <2>1, <2>2 DEF UserInv
  <2>5. Rest(ldap'[v], seen'[v], licences'[v], off'[v], basis'[v])
    BY <1>3, <2>4
  <2> QED BY <2>3, <2>5 DEF UserInv
<1> QED BY <1>2, <1>3

\* What is known of the user a call is about.
LEMMA Mine ==
  ASSUME IInv, busy, Undisturbed, NEW me, me = job.user, me \notin raced
  PROVE  Work(job, ldap[me], seen[me], licences[me], off[me], basis[me])
<1>1. me \in User
  BY JobFields DEF IInv
<1>2. UserInv(me) /\ Ours(me)
  BY <1>1 DEF IInv, Kept, Ours
<1> QED BY <1>2 DEF UserInv

\* A step that leaves entries, licences and choices alone keeps the users the
\* administrators have not switched.
LEMMA SameKept ==
  ASSUME IInv, job' = job, UNCHANGED <<entries, tenant, basis>>, raced \subseteq raced',
         Undisturbed' => Undisturbed
  PROVE  Kept'
<1> SUFFICES ASSUME Undisturbed', NEW v \in User, v \notin raced'
             PROVE  UserInv(v)'
  BY DEF Kept
<1>1. UserInv(v)
  BY DEF IInv, Kept
<1>2. /\ ldap' = ldap /\ seen' = seen /\ licences' = licences /\ off' = off /\ basis' = basis
      /\ Ours(v)' = Ours(v)
  BY DEF entries, tenant, Ours, busy
<1>3. Ours(v) => Work(job', ldap'[v], seen'[v], licences'[v], off'[v], basis'[v])
  BY <1>1, <1>2 DEF UserInv
<1>4. ~Ours(v) => Rest(ldap'[v], seen'[v], licences'[v], off'[v], basis'[v])
  BY <1>1, <1>2 DEF UserInv
<1> QED BY <1>2, <1>3, <1>4 DEF UserInv

-----------------------------------------------------------------------------
(* The steps of a call.                                                    *)

LEMMA ReturnType ==
  ASSUME IInv, busy, Return, failed' \in BOOLEAN
  PROVE  TypeOK' /\ Steps'
<1>1. job.user \in User /\ job.new \in UserEntry
  BY JobFields DEF IInv
<1>2. ~busy'
  BY DEF Return, busy
<1>3. seen' \in [User -> UserEntry]
  BY <1>1 DEF IInv, TypeOK, Return
<1> QED BY <1>2, <1>3 DEF IInv, TypeOK, Return, config, tenant, Steps

LEMMA ReturnKept ==
  ASSUME IInv, busy, Return, Undisturbed' => Undisturbed,
         Undisturbed => \/ job.pc = "done"
                        \/ job.pc = "list licences" /\ ~seen[job.user].id
  PROVE  Kept'
<1>0. job.user \in User /\ job.new \in UserEntry /\ TypeOK /\ Steps
  BY JobFields DEF IInv
<1>1. PICK me \in User : me = job.user
  BY <1>0
<1>2. /\ seen'[me] = job.new /\ job' = Idle /\ ~busy'
      /\ ldap' = ldap /\ licences' = licences /\ off' = off /\ basis' = basis /\ raced' = raced
      /\ \A v \in User \ {me} : seen'[v] = seen[v]
  BY <1>0, <1>1 DEF Return, TypeOK, tenant, busy
<1>3. ASSUME Undisturbed, me \notin raced PROVE UserInv(me)'
  <2>1. Work(job, ldap[me], seen[me], licences[me], off[me], basis[me])
    BY <1>1, <1>3, Mine
  <2>2. Rest(ldap[me], job.new, licences[me], off[me], basis[me])
    <3>1. CASE job.pc = "done"
      BY <2>1, <3>1 DEF Work, Rest
    <3>2. CASE job.pc = "list licences" /\ ~seen[me].id
      <4>1. ~job.new.on
        BY <1>0, <3>2 DEF Steps
      <4>2. licences[me] = {}
        BY <2>1, <3>2 DEF Work
      <4> QED BY <2>1, <4>1, <4>2 DEF Work, Rest
    <3> QED BY <1>1, <1>3, <3>1, <3>2
  <2>3. Rest(ldap'[me], seen'[me], licences'[me], off'[me], basis'[me])
    BY <1>2, <2>2
  <2> QED BY <1>2, <2>3 DEF UserInv, Ours
<1> QED BY <1>1, <1>2, <1>3, OthersKept

LEMMA FinishInv ==
  ASSUME IInv, busy, Finish
  PROVE  IInv'
<1>1. failed' \in BOOLEAN /\ (Undisturbed' => Undisturbed)
  BY DEF Finish, Return, IInv, TypeOK, Undisturbed
<1> QED BY <1>1, ReturnType, ReturnKept DEF Finish, IInv

LEMMA ListUnknownInv ==
  ASSUME IInv, busy, ListUnknown
  PROVE  IInv'
<1>1. failed' \in BOOLEAN /\ (Undisturbed' => Undisturbed)
  BY DEF ListUnknown, Return, IInv, TypeOK, Undisturbed
<1> QED BY <1>1, ReturnType, ReturnKept DEF ListUnknown, IInv

\* A call fails: nothing is promised any more.
LEMMA FailureInv ==
  ASSUME IInv, busy, Return, failed' = TRUE
  PROVE  IInv'
<1>1. failed' \in BOOLEAN /\ ~Undisturbed'
  BY DEF Undisturbed
<1> QED BY <1>1, ReturnType DEF IInv, Kept

\* The subscriptions are asked for.
LEMMA ListInv ==
  ASSUME IInv, busy, List
  PROVE  IInv'
<1>0. TypeOK /\ Steps
  BY DEF IInv
<1>1. /\ job \in Job /\ job.pc \in PC /\ job.user \in User /\ job.new \in UserEntry
      /\ job.listed \subseteq Sku /\ job.free \subseteq Sku /\ job.off \subseteq Plan
      /\ job.todo \subseteq Sku
  BY <1>0, JobFields
<1>2. PICK me \in User : me = job.user
  BY <1>1
<1>3. /\ job.pc = "list" /\ basis'[me] = NoBasis
      /\ ldap' = ldap /\ seen' = seen /\ licences' = licences /\ off' = off
      /\ raced' = raced /\ (Undisturbed' => Undisturbed)
      /\ \A v \in User \ {me} : basis'[v] = basis[v]
  BY <1>0, <1>1, <1>2 DEF List, TypeOK, entries, tenant, history, Undisturbed
<1>4. /\ job' \in Job /\ job' # Idle
      /\ job'.user = job.user /\ job'.new = job.new
      /\ job'.listed = GetEnabled /\ job'.free \subseteq GetEnabled
      /\ \/ job'.pc = "write"
         \/ job'.pc = "choose" /\ GetEnabled # {}
  <2>1. GetEnabled \subseteq Sku
    BY <1>0 DEF TypeOK, GetEnabled
  <2> QED BY <1>1, <2>1 DEF List, Job, PC, Idle
<1>5. TypeOK'
  <2>1. basis' \in [User -> Basis]
    BY <1>0, NoBasisType DEF List, TypeOK
  <2> QED BY <1>0, <1>4, <2>1 DEF TypeOK, List, entries, config, tenant, history
<1>6. Steps'
  BY <1>0, <1>1, <1>3, <1>4 DEF Steps, List
<1>7. ASSUME Undisturbed, me \notin raced PROVE UserInv(me)'
  <2>1. Work(job, ldap[me], seen[me], licences[me], off[me], basis[me])
    BY <1>2, <1>7, Mine
  <2>2. job'.new.on /\ licences[me] = {} /\ ~seen[me].on
    BY <1>3, <1>4, <2>1 DEF Work
  <2>3. Demand(NoBasis, {}, off[me])
    BY NoBasisDemand
  <2>9. Work(job', ldap'[me], seen'[me], licences'[me], off'[me], basis'[me])
    BY <1>3, <1>4, <2>1, <2>2, <2>3 DEF Work
  <2> QED BY <1>2, <1>4, <2>9 DEF UserInv, Ours, busy
<1>8. Kept'
  BY <1>2, <1>3, <1>4, <1>7, OthersKept
<1> QED BY <1>5, <1>6, <1>8 DEF IInv

\* Without profiles.
LEMMA ChooseAnyInv ==
  ASSUME IInv, busy, ChooseAny
  PROVE  IInv'
<1>0. TypeOK /\ Steps
  BY DEF IInv
<1>1. /\ job \in Job /\ job.pc \in PC /\ job.user \in User /\ job.new \in UserEntry
      /\ job.listed \subseteq Sku /\ job.free \subseteq Sku /\ job.off \subseteq Plan
      /\ job.todo \subseteq Sku
  BY <1>0, JobFields
<1>2. PICK me \in User : me = job.user
  BY <1>1
<1>a. job.listed # {} /\ job.free \in SUBSET job.listed /\ job.pc = "choose"
  BY <1>0 DEF Steps, ChooseAny
<1>b. PICK s : s = First(Skus, IF job.free = {} THEN job.listed ELSE job.free)
  OBVIOUS
<1>c. PICK c : /\ c = [profiles |-> NoProfiles, listed |-> job.listed, free |-> job.free,
                       refused |-> FALSE]
               /\ s \in job.listed /\ s \in Sku /\ Asked(c, s, {}) /\ ~c.refused
               /\ job' = [job EXCEPT !.pc = "add", !.sku = s, !.off = {}]
               /\ basis' = [basis EXCEPT ![job.user] = c]
  BY <1>1, <1>a, <1>b, AnyAsked DEF ChooseAny, Decide
<1>3. /\ job.pc = "choose" /\ basis'[me] = c
      /\ ldap' = ldap /\ seen' = seen /\ licences' = licences /\ off' = off
      /\ raced' = raced /\ (Undisturbed' => Undisturbed)
      /\ \A v \in User \ {me} : basis'[v] = basis[v]
  BY <1>0, <1>1, <1>2, <1>c DEF ChooseAny, Decide, TypeOK, entries, tenant, history, Undisturbed
<1>4. /\ job' \in Job /\ job' # Idle
      /\ job'.user = job.user /\ job'.new = job.new
      /\ job'.pc = "add" /\ job'.sku = s /\ job'.off = {}
      /\ job'.listed = job.listed /\ job'.free = job.free
  BY <1>1, <1>c DEF ChooseAny, Decide, Job, PC, Idle
<1>5. TypeOK'
  <2>1. c \in Basis
    BY <1>1, <1>c, NoBasisType DEF Basis
  <2>2. basis' \in [User -> Basis]
    BY <1>0, <1>c, <2>1 DEF ChooseAny, Decide, TypeOK
  <2> QED BY <1>0, <1>4, <2>2 DEF TypeOK, ChooseAny, Decide, entries, config, tenant, history
<1>6. Steps'
  BY <1>0, <1>1, <1>3, <1>4, <1>c DEF Steps
<1>7. ASSUME Undisturbed, me \notin raced PROVE UserInv(me)'
  <2>1. Work(job, ldap[me], seen[me], licences[me], off[me], basis[me])
    BY <1>2, <1>7, Mine
  <2>2. job'.new.on /\ licences[me] = {} /\ ~seen[me].on
    BY <1>3, <1>4, <2>1 DEF Work
  <2>3. Asked(c, s, job'.off) /\ ~c.refused
    BY <1>4, <1>c
  <2>9. Work(job', ldap'[me], seen'[me], licences'[me], off'[me], basis'[me])
    BY <1>3, <1>4, <2>1, <2>2, <2>3 DEF Work
  <2> QED BY <1>2, <1>4, <2>9 DEF UserInv, Ours, busy
<1>8. Kept'
  BY <1>2, <1>3, <1>4, <1>7, OthersKept
<1> QED BY <1>5, <1>6, <1>8 DEF IInv

\* With a profile.
LEMMA ChooseProfileInv ==
  ASSUME IInv, busy, ChooseProfile
  PROVE  IInv'
<1>0. TypeOK /\ Steps
  BY DEF IInv
<1>1. /\ job \in Job /\ job.pc \in PC /\ job.user \in User /\ job.new \in UserEntry
      /\ job.listed \subseteq Sku /\ job.free \subseteq Sku /\ job.off \subseteq Plan
      /\ job.todo \subseteq Sku
  BY <1>0, JobFields
<1>2. PICK me \in User : me = job.user
  BY <1>1
<1>a. PICK P : P = ProfilesFor(job.user) /\ P \in Profiles /\ DOMAIN P \subseteq Group
  BY <1>0, <1>1, ProfilesType
<1>b. PICK s, U : /\ s = Selected(P) /\ s \in job.listed /\ s \in Sku
                  /\ U = {g \in DOMAIN P : P[g].subscription \in job.free} /\ U # {}
                  /\ s = P[Last(Groups, DOMAIN P)].subscription
  BY <1>1, <1>a DEF ChooseProfile, Selected, Usable
<1>d. PICK plans : plans = Disabled(P[Last(Groups, U)], s) /\ plans \subseteq Plan
  <2>1. U \cap Range(Groups) # {}
    BY <1>a, <1>b, GroupsType
  <2>2. Last(Groups, U) \in U
    BY <2>1, GroupsType, LastIn
  <2>3. P[Last(Groups, U)] \in Profile
    BY <1>a, <1>b, <2>2 DEF Profiles
  <2> QED BY <1>b, <2>3, DisabledType
<1>c. PICK c : /\ c = [profiles |-> P, listed |-> job.listed, free |-> job.free, refused |-> FALSE]
               /\ Asked(c, s, plans) /\ ~c.refused
               /\ job' = [job EXCEPT !.pc = "add", !.sku = s, !.off = plans]
               /\ basis' = [basis EXCEPT ![job.user] = c]
  <2>1. Usable(P) = U
    BY <1>b DEF Usable
  <2>2. \A c : c = [profiles |-> P, listed |-> job.listed, free |-> job.free, refused |-> FALSE]
             => Asked(c, s, plans)
    BY <1>a, <1>b, <1>d, ProfileAsked
  <2> QED BY <1>a, <1>b, <1>d, <2>1, <2>2 DEF ChooseProfile, Decide
<1>3. /\ job.pc = "choose" /\ basis'[me] = c
      /\ ldap' = ldap /\ seen' = seen /\ licences' = licences /\ off' = off
      /\ raced' = raced /\ (Undisturbed' => Undisturbed)
      /\ \A v \in User \ {me} : basis'[v] = basis[v]
  BY <1>0, <1>1, <1>2, <1>c DEF ChooseProfile, Decide, TypeOK, entries, tenant, history, Undisturbed
<1>4. /\ job' \in Job /\ job' # Idle
      /\ job'.user = job.user /\ job'.new = job.new
      /\ job'.pc = "add" /\ job'.sku = s /\ job'.off = plans
      /\ job'.listed = job.listed /\ job'.free = job.free
  BY <1>1, <1>b, <1>c, <1>d DEF Job, PC, Idle
<1>5. TypeOK'
  <2>1. c \in Basis
    BY <1>1, <1>a, <1>c DEF Basis
  <2>2. basis' \in [User -> Basis]
    BY <1>0, <1>c, <2>1 DEF ChooseProfile, Decide, TypeOK
  <2> QED BY <1>0, <1>4, <2>2 DEF TypeOK, ChooseProfile, Decide, entries, config, tenant, history
<1>6. Steps'
  BY <1>0, <1>1, <1>3, <1>4, <1>c, <1>b DEF Steps
<1>7. ASSUME Undisturbed, me \notin raced PROVE UserInv(me)'
  <2>1. Work(job, ldap[me], seen[me], licences[me], off[me], basis[me])
    BY <1>2, <1>7, Mine
  <2>2. job'.new.on /\ licences[me] = {} /\ ~seen[me].on
    BY <1>3, <1>4, <2>1 DEF Work
  <2>3. Asked(c, s, job'.off) /\ ~c.refused
    BY <1>4, <1>c
  <2>9. Work(job', ldap'[me], seen'[me], licences'[me], off'[me], basis'[me])
    BY <1>3, <1>4, <2>1, <2>2, <2>3 DEF Work
  <2> QED BY <1>2, <1>4, <2>9 DEF UserInv, Ours, busy
<1>8. Kept'
  BY <1>2, <1>3, <1>4, <1>7, OthersKept
<1> QED BY <1>5, <1>6, <1>8 DEF IInv

\* No profile can be used.
LEMMA ChooseNothingInv ==
  ASSUME IInv, busy, ChooseNothing
  PROVE  IInv'
<1>0. TypeOK /\ Steps
  BY DEF IInv
<1>1. /\ job \in Job /\ job.pc \in PC /\ job.user \in User /\ job.new \in UserEntry
      /\ job.listed \subseteq Sku /\ job.free \subseteq Sku /\ job.off \subseteq Plan
      /\ job.todo \subseteq Sku
  BY <1>0, JobFields
<1>2. PICK me \in User : me = job.user
  BY <1>1
<1>a. PICK P : P = ProfilesFor(job.user) /\ P \in Profiles
  BY <1>0, <1>1, ProfilesType
<1>c. PICK c : /\ c = [profiles |-> P, listed |-> job.listed, free |-> job.free, refused |-> FALSE]
               /\ basis' = [basis EXCEPT ![job.user] = c]
  BY <1>a DEF ChooseNothing
<1>d. DOMAIN P # {} /\ {g \in DOMAIN P : P[g].subscription \in job.free} = {}
  BY <1>a DEF ChooseNothing, Usable
<1>e. c.profiles = P /\ c.free = job.free /\ ~c.refused
  BY <1>c
<1>3. /\ job.pc = "choose" /\ basis'[me] = c
      /\ ldap' = ldap /\ seen' = seen /\ licences' = licences /\ off' = off
      /\ raced' = raced /\ (Undisturbed' => Undisturbed)
      /\ \A v \in User \ {me} : basis'[v] = basis[v]
  BY <1>0, <1>1, <1>2, <1>c DEF ChooseNothing, TypeOK, entries, tenant, history, Undisturbed
<1>4. /\ job' \in Job /\ job' # Idle
      /\ job'.user = job.user /\ job'.new = job.new
      /\ job'.pc = "write" /\ job'.listed = job.listed /\ job'.free = job.free
  BY <1>1 DEF ChooseNothing, Job, PC, Idle
<1>5. TypeOK'
  <2>1. c \in Basis
    BY <1>1, <1>a, <1>c DEF Basis
  <2>2. basis' \in [User -> Basis]
    BY <1>0, <1>c, <2>1 DEF ChooseNothing, TypeOK
  <2> QED BY <1>0, <1>4, <2>2 DEF TypeOK, ChooseNothing, entries, config, tenant, history
<1>6. Steps'
  BY <1>0, <1>1, <1>3, <1>4 DEF Steps, ChooseNothing
<1>7. ASSUME Undisturbed, me \notin raced PROVE UserInv(me)'
  <2>1. Work(job, ldap[me], seen[me], licences[me], off[me], basis[me])
    BY <1>2, <1>7, Mine
  <2>2. job'.new.on /\ licences[me] = {} /\ ~seen[me].on
    BY <1>3, <1>4, <2>1 DEF Work
  <2>4. Demand(c, {}, off[me])
    BY <1>d, <1>e DEF Demand
  <2>9. Work(job', ldap'[me], seen'[me], licences'[me], off'[me], basis'[me])
    BY <1>3, <1>4, <2>1, <2>2, <2>4 DEF Work
  <2> QED BY <1>2, <1>4, <2>9 DEF UserInv, Ours, busy
<1>8. Kept'
  BY <1>2, <1>3, <1>4, <1>7, OthersKept
<1> QED BY <1>5, <1>6, <1>8 DEF IInv

\* The licence is given.
LEMMA AddLicenceInv ==
  ASSUME IInv, busy, AddLicence
  PROVE  IInv'
<1>0. TypeOK /\ Steps
  BY DEF IInv
<1>1. /\ job \in Job /\ job.pc \in PC /\ job.user \in User /\ job.new \in UserEntry
      /\ job.listed \subseteq Sku /\ job.free \subseteq Sku /\ job.off \subseteq Plan
      /\ job.todo \subseteq Sku
  BY <1>0, JobFields
<1>2. PICK me \in User : me = job.user
  BY <1>1
<1>a. job.pc = "add" /\ job.sku \in Sku
  BY <1>0 DEF Steps, AddLicence
<1>3. /\ licences'[me] = licences[me] \cup {job.sku} /\ off'[me][job.sku] = job.off
      /\ ldap' = ldap /\ seen' = seen /\ basis' = basis
      /\ raced' = raced /\ (Undisturbed' => Undisturbed)
      /\ \A v \in User \ {me} : licences'[v] = licences[v]
      /\ \A v \in User \ {me} : off'[v] = off[v]
  BY <1>0, <1>1, <1>2, <1>a DEF AddLicence, TypeOK, entries, history, Undisturbed
<1>4. /\ job' \in Job /\ job' # Idle
      /\ job'.user = job.user /\ job'.new = job.new
      /\ job'.pc = "write" /\ job'.listed = job.listed /\ job'.free = job.free
  BY <1>1 DEF AddLicence, Job, PC, Idle
<1>5. TypeOK'
  <2>1. licences' \in [User -> SUBSET Sku]
    BY <1>0, <1>1, <1>a DEF AddLicence, TypeOK
  <2>2. off' \in [User -> [Sku -> SUBSET Plan]]
    BY <1>0, <1>1, <1>a DEF AddLicence, TypeOK
  <2> QED BY <1>0, <1>4, <2>1, <2>2 DEF TypeOK, AddLicence, entries, config, history
<1>6. Steps'
  BY <1>0, <1>1, <1>3, <1>4 DEF Steps, AddLicence
<1>7. ASSUME Undisturbed, me \notin raced PROVE UserInv(me)'
  <2>1. Work(job, ldap[me], seen[me], licences[me], off[me], basis[me])
    BY <1>2, <1>7, Mine
  <2>2. /\ job'.new.on /\ licences[me] = {} /\ ~seen[me].on
        /\ Asked(basis[me], job.sku, job.off) /\ ~basis[me].refused
    BY <1>a, <1>4, <2>1 DEF Work
  <2>3. licences'[me] = {job.sku}
    BY <1>3, <2>2
  <2>4. Demand(basis[me], licences'[me], off'[me])
    BY <1>3, <2>2, <2>3 DEF Demand, Asked
  <2>5. OneOf(licences'[me])
    BY <2>3 DEF OneOf
  <2>9. Work(job', ldap'[me], seen'[me], licences'[me], off'[me], basis'[me])
    BY <1>3, <1>4, <2>1, <2>2, <2>4, <2>5 DEF Work
  <2> QED BY <1>2, <1>4, <2>9 DEF UserInv, Ours, busy
<1>8. Kept'
  BY <1>2, <1>3, <1>4, <1>7, OthersKept
<1> QED BY <1>5, <1>6, <1>8 DEF IInv

\* The licence is refused.
LEMMA RefuseLicenceInv ==
  ASSUME IInv, busy, RefuseLicence
  PROVE  IInv'
<1>0. TypeOK /\ Steps
  BY DEF IInv
<1>1. /\ job \in Job /\ job.pc \in PC /\ job.user \in User /\ job.new \in UserEntry
      /\ job.listed \subseteq Sku /\ job.free \subseteq Sku /\ job.off \subseteq Plan
      /\ job.todo \subseteq Sku
  BY <1>0, JobFields
<1>2. PICK me \in User : me = job.user
  BY <1>1
<1>3. /\ job.pc = "add" /\ basis'[me].refused
      /\ ldap' = ldap /\ seen' = seen /\ licences' = licences /\ off' = off
      /\ raced' = raced /\ (Undisturbed' => Undisturbed)
      /\ \A v \in User \ {me} : basis'[v] = basis[v]
  BY <1>0, <1>1, <1>2 DEF RefuseLicence, TypeOK, Basis, entries, tenant, history, Undisturbed
<1>4. /\ job' \in Job /\ job' # Idle
      /\ job'.user = job.user /\ job'.new = job.new
      /\ job'.pc = "write" /\ job'.listed = job.listed /\ job'.free = job.free
  BY <1>1 DEF RefuseLicence, Job, PC, Idle
<1>5. TypeOK'
  <2>1. basis' \in [User -> Basis]
    BY <1>0, <1>1 DEF RefuseLicence, TypeOK, Basis
  <2> QED BY <1>0, <1>4, <2>1 DEF TypeOK, RefuseLicence, entries, config, tenant, history
<1>6. Steps'
  BY <1>0, <1>1, <1>3, <1>4 DEF Steps, RefuseLicence
<1>7. ASSUME Undisturbed, me \notin raced PROVE UserInv(me)'
  <2>1. Work(job, ldap[me], seen[me], licences[me], off[me], basis[me])
    BY <1>2, <1>7, Mine
  <2>2. job'.new.on /\ licences[me] = {} /\ ~seen[me].on
    BY <1>3, <1>4, <2>1 DEF Work
  <2>3. Demand(basis'[me], {}, off[me])
    BY <1>3 DEF Demand
  <2>9. Work(job', ldap'[me], seen'[me], licences'[me], off'[me], basis'[me])
    BY <1>3, <1>4, <2>1, <2>2, <2>3 DEF Work
  <2> QED BY <1>2, <1>4, <2>9 DEF UserInv, Ours, busy
<1>8. Kept'
  BY <1>2, <1>3, <1>4, <1>7, OthersKept
<1> QED BY <1>5, <1>6, <1>8 DEF IInv

\* The objectId is written.
LEMMA WriteInv ==
  ASSUME IInv, busy, Write
  PROVE  IInv'
<1>0. TypeOK /\ Steps
  BY DEF IInv
<1>1. /\ job \in Job /\ job.pc \in PC /\ job.user \in User /\ job.new \in UserEntry
      /\ job.listed \subseteq Sku /\ job.free \subseteq Sku /\ job.off \subseteq Plan
      /\ job.todo \subseteq Sku
  BY <1>0, JobFields
<1>2. PICK me \in User : me = job.user
  BY <1>1
<1>3. /\ job.pc = "write" /\ ldap'[me].id /\ ldap'[me].on = ldap[me].on
      /\ seen' = seen /\ licences' = licences /\ off' = off /\ basis' = basis
      /\ raced' = raced /\ (Undisturbed' => Undisturbed)
      /\ \A v \in User \ {me} : ldap'[v] = ldap[v]
  BY <1>0, <1>1, <1>2 DEF Write, TypeOK, UserEntry, tenant, history, Undisturbed
<1>4. /\ job' \in Job /\ job' # Idle
      /\ job'.user = job.user /\ job'.new = job.new
      /\ job'.pc = "done" /\ job'.listed = job.listed /\ job'.free = job.free
  BY <1>1 DEF Write, Job, PC, Idle
<1>5. TypeOK'
  <2>1. ldap' \in [User -> UserEntry]
    BY <1>0, <1>1 DEF Write, TypeOK, UserEntry
  <2> QED BY <1>0, <1>4, <2>1 DEF TypeOK, Write, config, tenant, history
<1>6. Steps'
  BY <1>0, <1>1, <1>3, <1>4 DEF Steps, Write
<1>7. ASSUME Undisturbed, me \notin raced PROVE UserInv(me)'
  <2>1. Work(job, ldap[me], seen[me], licences[me], off[me], basis[me])
    BY <1>2, <1>7, Mine
  <2>2. /\ job'.new.on /\ ~seen[me].on /\ Demand(basis[me], licences[me], off[me])
        /\ ldap[me].on = job.new.on
    BY <1>3, <1>4, <2>1 DEF Work
  <2>3. ldap'[me] # seen[me]
    BY <1>3, <1>4, <2>2
  <2>9. Work(job', ldap'[me], seen'[me], licences'[me], off'[me], basis'[me])
    BY <1>3, <1>4, <2>1, <2>2, <2>3 DEF Work
  <2> QED BY <1>2, <1>4, <2>9 DEF UserInv, Ours, busy
<1>8. Kept'
  BY <1>2, <1>3, <1>4, <1>7, OthersKept
<1> QED BY <1>5, <1>6, <1>8 DEF IInv

\* The licences are asked for.
LEMMA ListLicencesInv ==
  ASSUME IInv, busy, ListLicences
  PROVE  IInv'
<1>0. TypeOK /\ Steps
  BY DEF IInv
<1>1. /\ job \in Job /\ job.pc \in PC /\ job.user \in User /\ job.new \in UserEntry
      /\ job.listed \subseteq Sku /\ job.free \subseteq Sku /\ job.off \subseteq Plan
      /\ job.todo \subseteq Sku
  BY <1>0, JobFields
<1>2. PICK me \in User : me = job.user
  BY <1>1
<1>3. /\ job.pc = "list licences"
      /\ ldap' = ldap /\ seen' = seen /\ licences' = licences /\ off' = off /\ basis' = basis
      /\ raced' = raced /\ (Undisturbed' => Undisturbed)
  BY DEF ListLicences, entries, tenant, history, Undisturbed
<1>4. /\ job' \in Job /\ job' # Idle
      /\ job'.user = job.user /\ job'.new = job.new
      /\ job'.pc = "strip" /\ job'.listed = job.listed /\ job'.free = job.free
      /\ job'.todo = licences[me]
  BY <1>0, <1>1, <1>2 DEF ListLicences, Job, PC, Idle, TypeOK
<1>5. TypeOK'
  BY <1>0, <1>4 DEF TypeOK, ListLicences, entries, config, tenant, history
<1>6. Steps'
  BY <1>0, <1>1, <1>3, <1>4 DEF Steps, ListLicences
<1>7. ASSUME Undisturbed, me \notin raced PROVE UserInv(me)'
  <2>1. Work(job, ldap[me], seen[me], licences[me], off[me], basis[me])
    BY <1>2, <1>7, Mine
  <2>9. Work(job', ldap'[me], seen'[me], licences'[me], off'[me], basis'[me])
    BY <1>3, <1>4, <2>1 DEF Work
  <2> QED BY <1>2, <1>4, <2>9 DEF UserInv, Ours, busy
<1>8. Kept'
  BY <1>2, <1>3, <1>4, <1>7, OthersKept
<1> QED BY <1>5, <1>6, <1>8 DEF IInv

\* A licence is returned.
LEMMA RemoveLicenceInv ==
  ASSUME IInv, busy, RemoveLicence
  PROVE  IInv'
<1>0. TypeOK /\ Steps
  BY DEF IInv
<1>1. /\ job \in Job /\ job.pc \in PC /\ job.user \in User /\ job.new \in UserEntry
      /\ job.listed \subseteq Sku /\ job.free \subseteq Sku /\ job.off \subseteq Plan
      /\ job.todo \subseteq Sku
  BY <1>0, JobFields
<1>2. PICK me \in User : me = job.user
  BY <1>1
<1>a. PICK s \in job.todo :
        /\ job.pc = "strip"
        /\ licences' = [licences EXCEPT ![job.user] = @ \ {s}]
        /\ off' = [off EXCEPT ![job.user][s] = {}]
        /\ job' = [job EXCEPT !.todo = @ \ {s}]
  BY DEF RemoveLicence
<1>3. /\ job.pc = "strip" /\ licences'[me] = licences[me] \ {s}
      /\ ldap' = ldap /\ seen' = seen /\ basis' = basis
      /\ raced' = raced /\ (Undisturbed' => Undisturbed)
      /\ \A v \in User \ {me} : licences'[v] = licences[v]
      /\ \A v \in User \ {me} : off'[v] = off[v]
  BY <1>0, <1>1, <1>2, <1>a DEF RemoveLicence, TypeOK, entries, history, Undisturbed
<1>4. /\ job' \in Job /\ job' # Idle
      /\ job'.user = job.user /\ job'.new = job.new
      /\ job'.pc = "strip" /\ job'.listed = job.listed /\ job'.free = job.free
      /\ job'.todo = job.todo \ {s}
  BY <1>1, <1>a DEF Job, PC, Idle
<1>5. TypeOK'
  <2>1. licences' \in [User -> SUBSET Sku]
    BY <1>0, <1>1, <1>a DEF TypeOK
  <2>2. off' \in [User -> [Sku -> SUBSET Plan]]
    BY <1>0, <1>1, <1>a DEF TypeOK
  <2> QED BY <1>0, <1>4, <2>1, <2>2 DEF TypeOK, RemoveLicence, entries, config, history
<1>6. Steps'
  BY <1>0, <1>1, <1>3, <1>4 DEF Steps, RemoveLicence
<1>7. ASSUME Undisturbed, me \notin raced PROVE UserInv(me)'
  <2>1. Work(job, ldap[me], seen[me], licences[me], off[me], basis[me])
    BY <1>2, <1>7, Mine
  <2>2. licences[me] \subseteq job.todo /\ OneOf(licences[me])
    BY <1>3, <2>1 DEF Work
  <2>3. licences'[me] \subseteq job'.todo /\ OneOf(licences'[me])
    BY <1>3, <1>4, <2>2 DEF OneOf
  <2>9. Work(job', ldap'[me], seen'[me], licences'[me], off'[me], basis'[me])
    BY <1>3, <1>4, <2>1, <2>3 DEF Work
  <2> QED BY <1>2, <1>4, <2>9 DEF UserInv, Ours, busy
<1>8. Kept'
  BY <1>2, <1>3, <1>4, <1>7, OthersKept
<1> QED BY <1>5, <1>6, <1>8 DEF IInv

\* All are returned.
LEMMA StrippedInv ==
  ASSUME IInv, busy, Stripped
  PROVE  IInv'
<1>0. TypeOK /\ Steps
  BY DEF IInv
<1>1. /\ job \in Job /\ job.pc \in PC /\ job.user \in User /\ job.new \in UserEntry
      /\ job.listed \subseteq Sku /\ job.free \subseteq Sku /\ job.off \subseteq Plan
      /\ job.todo \subseteq Sku
  BY <1>0, JobFields
<1>2. PICK me \in User : me = job.user
  BY <1>1
<1>3. /\ job.pc = "strip" /\ job.todo = {} /\ ~job.new.on
      /\ ldap' = ldap /\ seen' = seen /\ licences' = licences /\ off' = off /\ basis' = basis
      /\ raced' = raced /\ (Undisturbed' => Undisturbed)
  BY <1>0 DEF Stripped, Steps, entries, tenant, history, Undisturbed
<1>4. /\ job' \in Job /\ job' # Idle
      /\ job'.user = job.user /\ job'.new = job.new
      /\ job'.pc = "done" /\ job'.listed = job.listed /\ job'.free = job.free
  BY <1>1 DEF Stripped, Job, PC, Idle
<1>5. TypeOK'
  BY <1>0, <1>4 DEF TypeOK, Stripped, entries, config, tenant, history
<1>6. Steps'
  BY <1>0, <1>1, <1>3, <1>4 DEF Steps, Stripped
<1>7. ASSUME Undisturbed, me \notin raced PROVE UserInv(me)'
  <2>1. Work(job, ldap[me], seen[me], licences[me], off[me], basis[me])
    BY <1>2, <1>7, Mine
  <2>2. licences[me] = {}
    BY <1>3, <2>1 DEF Work
  <2>9. Work(job', ldap'[me], seen'[me], licences'[me], off'[me], basis'[me])
    BY <1>3, <1>4, <2>1, <2>2 DEF Work
  <2> QED BY <1>2, <1>4, <2>9 DEF UserInv, Ours, busy
<1>8. Kept'
  BY <1>2, <1>3, <1>4, <1>7, OthersKept
<1> QED BY <1>5, <1>6, <1>8 DEF IInv

-----------------------------------------------------------------------------
(* The other steps.                                                        *)

\* A call begins.
LEMMA StartInv ==
  ASSUME IInv, Start
  PROVE  IInv'
<1>0. TypeOK /\ ~busy
  BY DEF IInv, Start
<1>1. PICK me \in User :
        /\ seen[me] # ldap[me]
        /\ job' = Call(me, IF seen[me].on = ldap[me].on THEN "done"
                           ELSE IF ldap[me].on THEN "list" ELSE "list licences")
  BY DEF Start
<1>2. /\ ldap' = ldap /\ seen' = seen /\ licences' = licences /\ off' = off /\ basis' = basis
      /\ raced' = raced /\ (Undisturbed' => Undisturbed)
  BY DEF Start, entries, tenant, history, Undisturbed
<1>3. /\ job' \in Job /\ busy' /\ job'.user = me /\ job'.new = ldap[me]
      /\ job'.listed = {} /\ job'.free = {}
      /\ job'.pc = IF seen[me].on = ldap[me].on THEN "done"
                   ELSE IF ldap[me].on THEN "list" ELSE "list licences"
  BY <1>0, <1>1 DEF Call, Job, PC, Idle, busy, TypeOK
<1>4. TypeOK'
  BY <1>0, <1>3 DEF Start, TypeOK, entries, config, tenant, history
<1>5. Steps'
  BY <1>3 DEF Steps
<1>6. Kept'
  <2> SUFFICES ASSUME Undisturbed', NEW v \in User, v \notin raced
               PROVE  UserInv(v)'
    BY <1>2 DEF Kept
  <2>1. Rest(ldap[v], seen[v], licences[v], off[v], basis[v])
    BY <1>0, <1>2 DEF IInv, Kept, UserInv, Ours
  <2>2. CASE v # me
    <3>1. ~Ours(v)'
      BY <1>3, <2>2 DEF Ours
    <3>2. Rest(ldap'[v], seen'[v], licences'[v], off'[v], basis'[v])
      BY <1>2, <2>1
    <3> QED BY <3>1, <3>2 DEF UserInv
  <2>3. CASE v = me
    <3>1. Work(job', ldap[v], seen[v], licences[v], off[v], basis[v])
      BY <1>0, <1>1, <1>3, <2>1, <2>3 DEF Rest, Work, TypeOK, UserEntry
    <3>2. Work(job', ldap'[v], seen'[v], licences'[v], off'[v], basis'[v])
      BY <1>2, <3>1
    <3> QED BY <1>3, <2>3, <3>2 DEF UserInv, Ours
  <2> QED BY <2>2, <2>3
<1> QED BY <1>4, <1>5, <1>6 DEF IInv

\* A user is switched: if a change of theirs was waiting, nothing is promised of
\* them any more.
LEMMA SwitchInv ==
  ASSUME IInv, NEW me \in User, Switch(me)
  PROVE  IInv'
<1>0. TypeOK /\ Steps
  BY DEF IInv
<1>1. /\ seen' = seen /\ licences' = licences /\ off' = off /\ basis' = basis /\ job' = job
      /\ raced \subseteq raced' /\ (Undisturbed' => Undisturbed)
      /\ me \notin raced' => seen[me] = ldap[me]
      /\ \A v \in User \ {me} : ldap'[v] = ldap[v]
  BY <1>0 DEF Switch, Change, TypeOK, tenant, Undisturbed
<1>2. ldap'[me] \in UserEntry /\ ldap'[me].id = ldap[me].id
  BY <1>0 DEF Switch, TypeOK, UserEntry
<1>3. TypeOK'
  <2>1. changes' \in 0 .. MaxChanges
    BY <1>0, BoundsAssumption DEF Switch, Change, TypeOK
  <2>2. ldap' \in [User -> UserEntry]
    BY <1>0 DEF Switch, TypeOK, UserEntry
  <2>3. raced' \subseteq User
    BY <1>0 DEF Switch, TypeOK
  <2> QED BY <1>0, <2>1, <2>2, <2>3 DEF Switch, Change, TypeOK, config, tenant
<1>4. Steps'
  BY <1>0, <1>1 DEF Steps, busy
<1>5. Kept'
  <2> SUFFICES ASSUME Undisturbed', NEW v \in User, v \notin raced'
               PROVE  UserInv(v)'
    BY DEF Kept
  <2>1. UserInv(v) /\ Ours(v)' = Ours(v)
    BY <1>1 DEF IInv, Kept, Ours, busy
  <2>2. CASE v # me
    <3>1. Ours(v) => Work(job', ldap'[v], seen'[v], licences'[v], off'[v], basis'[v])
      BY <1>1, <2>1, <2>2 DEF UserInv
    <3>2. ~Ours(v) => Rest(ldap'[v], seen'[v], licences'[v], off'[v], basis'[v])
      BY <1>1, <2>1, <2>2 DEF UserInv
    <3> QED BY <2>1, <3>1, <3>2 DEF UserInv
  <2>3. CASE v = me
    <3>1. seen[v] = ldap[v]
      BY <1>1, <2>3
    <3>2. ~Ours(v)
      <4>1. Ours(v) => Work(job, ldap[v], seen[v], licences[v], off[v], basis[v])
        BY <2>1 DEF UserInv
      <4> QED BY <3>1, <4>1 DEF Work
    <3>3. Rest(ldap[v], seen[v], licences[v], off[v], basis[v])
      BY <2>1, <3>2 DEF UserInv
    <3>4. Rest(ldap'[v], seen[v], licences[v], off[v], basis[v])
      BY <1>2, <2>3, <3>1, <3>3 DEF Rest
    <3>5. Rest(ldap'[v], seen'[v], licences'[v], off'[v], basis'[v])
      BY <1>1, <3>4
    <3> QED BY <2>1, <3>2, <3>5 DEF UserInv
  <2> QED BY <2>2, <2>3
<1> QED BY <1>3, <1>4, <1>5 DEF IInv

\* What is done to profiles, seats and subscriptions changes no user.
LEMMA AdminInv ==
  ASSUME IInv, Admin
  PROVE  IInv'
<1>0. TypeOK /\ Steps
  BY DEF IInv
<1>1. CASE \E u \in User : Switch(u)
  BY <1>1, SwitchInv
<1>2. CASE \/ \E g \in Group : SetProfile(g)
           \/ \E u \in User : SetGroups(u)
           \/ \E s \in Sku : TakeSeat(s) \/ FreeSeat(s) \/ Suspend(s)
  <2>1. /\ job' = job /\ UNCHANGED <<entries, tenant, basis>> /\ raced' = raced
        /\ crashes' = crashes /\ failed' = failed /\ Change
    BY <1>2 DEF SetProfile, SetGroups, TakeSeat, FreeSeat, Suspend, Change, entries
  <2>2. changes' \in 0 .. MaxChanges
    BY <1>0, <2>1, BoundsAssumption DEF Change, TypeOK
  <2>3. /\ profile' \in [Group -> Profile \cup {NoProfile}] /\ member' \in [User -> SUBSET Group]
        /\ active' \subseteq Sku /\ others' \in [Sku -> Nat]
    <3>1. CASE \E g \in Group : SetProfile(g)
      BY <1>0, <3>1 DEF SetProfile, TypeOK
    <3>2. CASE \E s \in Sku : TakeSeat(s)
      BY <1>0, <3>2 DEF TakeSeat, TypeOK
    <3>3. CASE \E s \in Sku : FreeSeat(s)
      BY <1>0, <3>3 DEF FreeSeat, TypeOK
    <3>4. CASE \E s \in Sku : Suspend(s)
      BY <1>0, <3>4 DEF Suspend, TypeOK
    <3>5. CASE \E u \in User : SetGroups(u)
      BY <1>0, <3>5 DEF SetGroups, TypeOK
    <3> QED BY <1>2, <3>1, <3>2, <3>3, <3>4, <3>5
  <2>4. TypeOK'
    BY <1>0, <2>1, <2>2, <2>3 DEF TypeOK, entries, tenant
  <2>5. Steps'
    BY <1>0, <2>1 DEF Steps, busy
  <2>6. Kept'
    BY <2>1, SameKept DEF Undisturbed
  <2> QED BY <2>4, <2>5, <2>6 DEF IInv
<1> QED BY <1>1, <1>2 DEF Admin

LEMMA NextInv == IInv /\ [Next]_vars => IInv'
<1> SUFFICES ASSUME IInv, [Next]_vars PROVE IInv'
  OBVIOUS
<1>0. TypeOK /\ Steps
  BY DEF IInv
<1>1. CASE Admin
  BY <1>1, AdminInv
<1>2. CASE Start
  BY <1>2, StartInv
<1>3. CASE busy /\ Assign
  <2>1. CASE ChooseNone
    BY <1>3, <2>1, FailureInv DEF ChooseNone
  <2> QED BY <1>3, <2>1, ListInv, ChooseAnyInv, ChooseProfileInv, ChooseNothingInv,
             AddLicenceInv, RefuseLicenceInv, WriteInv DEF Assign
<1>4. CASE busy /\ Revoke
  BY <1>4, ListLicencesInv, ListUnknownInv, RemoveLicenceInv, StrippedInv DEF Revoke
<1>5. CASE busy /\ Finish
  BY <1>5, FinishInv
<1>6. CASE Fails
  BY <1>6, FailureInv DEF Fails
<1>7. CASE Crash
  <2>1. crashes' \in 0 .. MaxCrashes /\ ~Undisturbed'
    BY <1>0, <1>7, BoundsAssumption DEF Crash, TypeOK, Undisturbed
  <2>2. ~busy'
    BY <1>7 DEF Crash, busy
  <2>3. TypeOK'
    BY <1>0, <1>7, <2>1 DEF Crash, TypeOK, entries, config, tenant
  <2> QED BY <2>1, <2>2, <2>3 DEF IInv, Steps, Kept
<1>8. CASE UNCHANGED vars
  <2>1. job' = job /\ UNCHANGED <<entries, tenant, basis>> /\ raced' = raced
        /\ failed' = failed /\ crashes' = crashes
    BY <1>8 DEF vars, entries, tenant
  <2>2. TypeOK'
    BY <1>0, <1>8 DEF vars, TypeOK
  <2>3. Steps'
    BY <1>0, <2>1 DEF Steps, busy
  <2> QED BY <2>1, <2>2, <2>3, SameKept DEF IInv, Undisturbed
<1> QED BY <1>1, <1>2, <1>3, <1>4, <1>5, <1>6, <1>7, <1>8 DEF Next, Listener

LEMMA Invariance == Spec => []IInv
<1> QED BY InitInv, NextInv, PTL DEF Spec

-----------------------------------------------------------------------------
(* What is promised.                                                       *)

\* A licence that is asked for is one the tenant listed, a call knows what it
\* has asked for (connector.py:402-457).
THEOREM TypeCorrect == Spec => []TypeOK
<1>1. IInv => TypeOK
  BY DEF IInv
<1> QED BY <1>1, Invariance, PTL

\* deactivate (azureobjects.py:450) has given back all licences of whoever is
\* not synchronised.
THEOREM ReturnsSeats == Spec => []SeatsReturned
<1>1. IInv => SeatsReturned
  <2> SUFFICES ASSUME IInv, ~failed, crashes = 0, NEW u \in User \ raced,
                      Settled(u), ~ldap[u].on
               PROVE  licences[u] = {}
    BY DEF SeatsReturned
  <2>1. ~Ours(u) /\ seen[u] = ldap[u]
    BY DEF Settled, Ours
  <2>2. Rest(ldap[u], seen[u], licences[u], off[u], basis[u])
    BY <2>1 DEF IInv, Kept, Undisturbed, UserInv
  <2> QED BY <2>1, <2>2 DEF Rest
<1> QED BY <1>1, Invariance, PTL

\* new_or_reactivate_user (connector.py:468) gives a licence only to users who
\* have none.
THEOREM NeverTwoLicences == Spec => []OneLicence
<1>1. IInv => OneLicence
  <2> SUFFICES ASSUME IInv, ~failed, crashes = 0, NEW u \in User \ raced
               PROVE  Cardinality(licences[u]) <= 1
    BY DEF OneLicence
  <2>1. OneOf(licences[u])
    BY DEF IInv, Kept, Undisturbed, UserInv, Rest, Work
  <2>2. CASE licences[u] = {}
    BY <2>2, FS_EmptySet
  <2>3. CASE licences[u] # {}
    <3>1. PICK s \in licences[u] : TRUE
      BY <2>3
    <3>2. licences[u] = {s}
      BY <2>1, <3>1 DEF OneOf
    <3>3. Cardinality({s}) = 1
      BY FS_Singleton
    <3> QED BY <3>2, <3>3
  <2> QED BY <2>2, <2>3
<1> QED BY <1>1, Invariance, PTL

\* _assign_subscription (connector.py:396) gives what its choice demands: the
\* subscription of the last group's profile, or none.
THEOREM GivesWhatIsDemanded == Spec => []LicenceAsDemanded
<1>1. IInv => LicenceAsDemanded
  <2> SUFFICES ASSUME IInv, ~failed, crashes = 0, NEW u \in User \ raced,
                      Settled(u), ldap[u].on
               PROVE  Demand(basis[u], licences[u], off[u])
    BY DEF LicenceAsDemanded
  <2>1. ~Ours(u) /\ seen[u] = ldap[u]
    BY DEF Settled, Ours
  <2>2. Rest(ldap[u], seen[u], licences[u], off[u], basis[u])
    BY <2>1 DEF IInv, Kept, Undisturbed, UserInv
  <2> QED BY <2>1, <2>2 DEF Rest
<1> QED BY <1>1, Invariance, PTL

\* Nothing but the deactivation of a user takes a licence away.
THEOREM LicencesStay == Spec => KeepsLicence
<1>1. ASSUME IInv, [Next]_vars
      PROVE  [\A u \in User : licences[u] \ licences'[u] # {} =>
                 busy /\ job.user = u /\ ~job.new.on]_vars
  <2> SUFFICES ASSUME NEW u \in User, licences[u] \ licences'[u] # {}
               PROVE  busy /\ job.user = u /\ ~job.new.on
    OBVIOUS
  <2>0. TypeOK /\ Steps
    BY <1>1 DEF IInv
  <2>1. licences' # licences
    OBVIOUS
  <2>2. busy /\ (AddLicence \/ RemoveLicence)
    <3>1. CASE Admin
      BY <2>1, <3>1 DEF Admin, Switch, SetGroups, SetProfile, TakeSeat, FreeSeat, Suspend, Change, tenant
    <3>2. CASE Start \/ Fails \/ Crash
      BY <2>1, <3>2 DEF Start, Fails, Crash, Return, tenant
    <3>3. CASE busy /\ (Assign \/ Revoke \/ Finish)
      BY <2>1, <3>3 DEF Assign, Revoke, Finish, List, ChooseAny, ChooseProfile, ChooseNothing,
                        ChooseNone, Decide, RefuseLicence, Write, ListLicences, ListUnknown,
                        Stripped, Return, tenant
    <3>4. CASE UNCHANGED vars
      BY <2>1, <3>4 DEF vars
    <3> QED BY <1>1, <3>1, <3>2, <3>3, <3>4 DEF Next, Listener
  <2>3. job.user \in User
    BY <2>0, <2>2, JobFields
  <2>4. ~AddLicence
    BY <2>0, <2>3 DEF AddLicence, TypeOK
  <2>5. job.user = u /\ job.pc = "strip"
    BY <2>0, <2>2, <2>3, <2>4 DEF RemoveLicence, TypeOK
  <2> QED BY <2>0, <2>2, <2>5 DEF Steps
<1> QED BY <1>1, Invariance, PTL DEF Spec, KeepsLicence

=============================================================================
