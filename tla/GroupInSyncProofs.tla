------------------------- MODULE GroupInSyncProofs -------------------------
(***************************************************************************)
(* GroupConnector's promise, for any groups, users, names and bounds: when *)
(* all changes are handled, a group in Azure has the name of the group in  *)
(* LDAP and its enabled users as members, and nobody else but users of it  *)
(* who were disabled when they were put in (InSync); and when the jobs of  *)
(* the daemon are done, it is a team with the owners of the one in LDAP,   *)
(* where that is one, and else it is none (TeamInSync).                    *)
(*                                                                         *)
(* MemberInv is what makes the first inductive.  Between calls a group     *)
(* has, of those who are enabled and known to be, the users that both LDAP *)
(* and the cache have, and nobody whom neither has (Rest); and all members *)
(* are known, enabled, or were put in later (Accounts).  A call says of    *)
(* its own group what was put right so far: Filling while it is created,   *)
(* Following while it is modified, Clearing while it is deleted; a call    *)
(* for a user has joined the groups it is through with (Joins).  Groups    *)
(* that owe a change are left out (Owing).                                 *)
(*                                                                         *)
(* TeamInv adds the owners and the team, and the jobs that wait.  Between  *)
(* calls they are those of the cache and of LDAP (TeamRest): both have     *)
(* what is owned or waits (Owned), and a team for both is one or has a job *)
(* that will make it one (Formed).  A group that a user's call creates is  *)
(* blank until that call comes to its team (Forming, Promised), or until   *)
(* it is repeated after a kill (Broken); a group's own call says what it   *)
(* has done of both (Past).                                                *)
(***************************************************************************)
EXTENDS GroupSyncProofs

-----------------------------------------------------------------------------
(* The members of the groups in Azure.                                     *)

\* The groups that owe the change of more than a team.
Owing == Debtors(Cause \ {"team"})
\* Who is enabled, with no change of that to be handled.
Active == enabled \cap known

\* Modify goes on only where something it watches has changed.
Changed ==
  Own /\ job.then # "convert" /\ job.new.life = "here" /\ job.pc # "done" =>
    Watched(job.old) # Watched(job.new)

\* Who waits for no call is known as enabled or disabled, and who is known as
\* enabled has an account.
UserSteps ==
  /\ known \subseteq named /\ named \subseteq known \cup enabled
  /\ \A u \in User : u \notin Range(queue) => (u \in enabled <=> u \in known)
  /\ busy /\ job.item \in User =>
       /\ job.item \in enabled \cap named /\ job.todo \subseteq Group
       /\ job.pc = "done" => job.todo = {}

\* Members have accounts, and are enabled, or were so at the last call, or were
\* put in as disabled ones.
Accounts ==
  /\ \A i \in DOMAIN azure : azure[i].members \subseteq ids \cap (known \cup enabled \cup Late(i))
  /\ busy /\ job.pc \in {"team", "members"} => job.adding \subseteq ids \cap (known \cup enabled)

\* An alias without an objectId comes from a change that was ignored.
LastAlias == \A g \in Group : Here(g) /\ ldap[g].alias /\ ldap[g].id = 0 => <<g, "last">> \in owed

\* A group is created for the entry as it is in LDAP, or was before the call;
\* what Azure has of it then is that entry's.
Filling ==
  busy =>
    /\ job.pc \in {"post", "write", "team", "members"} =>
         /\ Watched(job.cur) \in {Watched(ldap[job.target]), Watched(seen[job.target])}
         /\ seen[job.target].life = "none" \/ (Own /\ job.target = job.item) =>
              Watched(job.cur) = Watched(ldap[job.target])
    /\ job.pc = "write" /\ job.target \notin Owing =>
         job.made = job.cur.id \/ azure[job.made].members = {}
    /\ job.pc \in {"team", "members"} =>
         /\ azure[job.made].name = job.cur.name
         /\ job.cur.users \cap (Active \cup {job.item}) \subseteq job.adding \cup azure[job.made].members
         /\ job.adding \subseteq job.cur.users

\* What is promised when a call for the entry e is done.
Ready(g, e) ==
  LET i == ldap[g].id  r == azure[i] IN
  /\ i = 0 => e.users \cap Active = {}
  /\ i # 0 /\ r.name # Gone =>
       /\ r.members \subseteq e.users /\ e.users \cap Active \subseteq r.members
       /\ g \in cleaned \/ r.name = e.name

\* After the group is created, and after its members are changed, it is so.
Following ==
  Own /\ job.item \notin Owing /\ job.new.life = "here" =>
    /\ \/ job.pc \in {"convert", "done"}
       \/ job.then = "convert" /\ (job.pc = "parents" \/ (job.pc \in Creation /\ job.target # job.item))
       => Ready(job.item, job.new)
    /\ job.pc \in {"remove", "forget", "rename"} /\ ldap[job.item].id # 0 =>
         /\ azure[job.id].members \subseteq
              job.new.users \cup (IF job.pc = "remove" THEN job.todo ELSE {})
         /\ job.new.users \cap Active \subseteq azure[job.id].members
         /\ job.pc = "remove" => job.new.users \cap job.todo = {}

\* A group that is deleted is empty before it is renamed.
Clearing ==
  Own /\ job.item \notin Owing /\ job.new.life = "gone" =>
    /\ job.pc = "bury" => azure[job.id].members = {}
    /\ job.pc = "done" /\ job.id # 0 =>
         azure[job.id].name = Gone \/ (azure[job.id].name = Renamed /\ azure[job.id].members = {})

\* A user is a member of the groups its call is through with.
Joins ==
  busy /\ job.item \in User =>
    /\ \A g \in job.todo : job.item \in seen[g].users \cup ldap[g].users
    /\ \A g \in Group \ (Owing \cup job.todo) :
         Here(g) /\ job.item \in seen[g].users \cap ldap[g].users =>
           /\ ldap[g].id = 0 => job.pc \in {"post", "write"} /\ job.target = g
           /\ ldap[g].id # 0 /\ azure[ldap[g].id].name # Gone =>
                \/ job.item \in azure[ldap[g].id].members
                \/ job.pc \in {"team", "members"} /\ job.target = g

\* Modify has created the group anew, and its members are to follow.
Midway(g) ==
  Own /\ job.item = g /\ job.target = g /\ job.then = "owners" /\ job.pc \in {"team", "members"}

\* Between the calls a group in Azure has, of the users that are enabled and
\* not just so, those that the entry in LDAP and the one in the cache both have,
\* and none that neither has.
Rest(g) ==
  LET i == ldap[g].id
      r == azure[i]
      both == seen[g].users \cap ldap[g].users \cap Active IN
  /\ Here(g) /\ i = 0 => both = {}
  /\ Here(g) /\ i # 0 /\ r.name # Gone =>
       /\ r.members \subseteq seen[g].users \cup ldap[g].users
       /\ \/ both \subseteq r.members
          \/ Midway(g)
       /\ Watched(seen[g]) = Watched(ldap[g]) /\ g \notin cleaned => r.name = ldap[g].name
  /\ seen[g].life = "gone" /\ i # 0 => r.name = Gone \/ (r.name = Renamed /\ r.members = {})

\* So it is for all groups that owe nothing.
Resting == \A g \in Group \ Owing : Rest(g)

UsersInv == UserSteps /\ Accounts /\ LastAlias /\ Changed
MemberInv == UsersInv /\ Filling /\ Following /\ Clearing /\ Joins /\ Resting

\* Who is what in LDAP and in the cache.
standing == <<marked, enabled, known, ids, named>>

\* The listener's calls for groups leave the users alone.
LEMMA PeopleStay ==
  ASSUME IInv, busy, Advancing
  PROVE  UNCHANGED standing /\ late \subseteq late' /\ (cleaned' = cleaned \/ job.pc = "revive")
<1>1. CASE PostNew \/ PostTake \/ Write \/ JoinTeam \/ AddMembers \/ CreateParent \/ Created \/ Convert
  BY <1>1, Zenon DEF PostNew, PostTake, Write, JoinTeam, AddMembers, CreateParent, Created, Convert,
     people, standing, outside, counts
<1>2. CASE Lost \/ Get \/ AddOwners \/ Disown \/ CheckTeam \/ Gather \/ AddNew \/ RemoveMember \/ RemoveEmpty
  BY <1>2, Zenon DEF Lost, Get, AddOwners, Disown, CheckTeam, Gather, AddNew, RemoveMember,
     RemoveEmpty, people, standing, outside, counts
<1>3. CASE KeepGroup \/ Forget \/ UpdateName \/ Archive \/ Clear \/ Bury \/ Joined
  BY <1>3 DEF KeepGroup, Forget, UpdateName, Archive, Clear, Bury, Joined, people, standing, outside, counts
<1>4. CASE Join
  BY <1>4 DEF Join, JoinNew, JoinGroup, people, standing, outside, counts
<1>5. CASE Revive
  BY <1>5 DEF Revive, people, standing
<1> QED BY <1>1, <1>2, <1>3, <1>4, <1>5 DEF Advancing

\* Only a new group adds to the tenant, an empty one.
LEMMA Grows ==
  ASSUME IInv, busy, Advancing
  PROVE  \/ DOMAIN azure' = DOMAIN azure
         \/ PostNew /\ job.pc = "post" /\ \A i \in DOMAIN azure' \ DOMAIN azure : azure'[i].members = {}
<1>1. ASSUME \E i, r : SetGroup(i, r) PROVE DOMAIN azure' = DOMAIN azure
  BY <1>1, Kept DEF SetGroup
<1>2. ASSUME \E i, U : AddTo(i, U) PROVE DOMAIN azure' = DOMAIN azure
  BY <1>1, <1>2 DEF AddTo
<1>3. CASE PostNew
  <2>1. azure' = Append(azure, Parse(job.cur)) /\ job.pc = "post"
    BY <1>3 DEF PostNew
  <2>2. ASSUME NEW i \in DOMAIN azure', i \notin DOMAIN azure PROVE azure'[i] = Parse(job.cur)
    BY <2>1, <2>2, Kept
  <2>3. Parse(job.cur).members = {}
    BY DEF Parse
  <2> QED BY <1>3, <2>1, <2>2, <2>3
<1>4. CASE PostTake \/ Write \/ CreateParent \/ Created \/ Convert \/ Lost \/ Get \/ Gather \/ KeepGroup \/ Forget \/ Joined
  BY <1>4, Zenon DEF PostTake, Write, CreateParent, Created, Convert, Lost, Get, Gather, KeepGroup,
     Forget, Joined
<1>5. CASE JoinTeam
  BY <1>1, <1>5, Zenon DEF JoinTeam, AddToTeam
<1>6. CASE AddMembers \/ AddNew
  BY <1>2, <1>6 DEF AddMembers, AddNew
<1>7. CASE Revive \/ AddOwners \/ Disown \/ CheckTeam \/ RemoveEmpty \/ UpdateName \/ Archive \/ Clear \/ Bury
  BY <1>1, <1>7 DEF Revive, AddOwners, Disown, CheckTeam, RemoveEmpty, UpdateName, Archive, Clear, Bury
<1>8. CASE RemoveMember
  BY <1>1, <1>8 DEF RemoveMember
<1>9. CASE Join
  BY <1>2, <1>9 DEF Join, JoinNew, JoinGroup
<1> QED BY <1>3, <1>4, <1>5, <1>6, <1>7, <1>8, <1>9 DEF Advancing

\* Modify puts in who is enabled, and who is late.
LEMMA LateComers ==
  ASSUME IInv, busy, AddNew, NEW i, i = job.id
  PROVE  Newcomers \subseteq ids \cap (enabled \cup Late(i)')
<1>1. Newcomers \subseteq ids /\ ids \subseteq User
  BY Kept DEF Newcomers
<1>2. ASSUME NEW u \in Newcomers, u \notin enabled PROVE <<i, u>> \in late'
  BY <1>2 DEF AddNew, Newcomers
<1> QED BY <1>1, <1>2 DEF Late

\* Nobody becomes a member but users with an account.
LEMMA MembersFrom ==
  ASSUME IInv, CacheInv, UserSteps, Accounts, busy, Advancing, Calm',
         NEW i \in DOMAIN azure'
  PROVE  azure'[i].members \subseteq (IF i \in DOMAIN azure THEN azure[i].members ELSE {})
                                       \cup (ids \cap (known \cup enabled \cup Late(i)'))
<1>1. CASE i \notin DOMAIN azure
  BY <1>1, Grows
<1>2. CASE i \in DOMAIN azure
  <2> DEFINE May == ids \cap (known \cup enabled)
             Might == ids \cap (known \cup enabled \cup Late(i)')
  <2> SUFFICES azure'[i].members \subseteq azure[i].members \cup Might
    BY <1>2
  <2>0. May \subseteq Might
    OBVIOUS
  <2> HIDE DEF May, Might
  <2>1. ASSUME NEW j, NEW U, MembersBut(j, U), U \subseteq azure[j].members \cup May
        PROVE  azure'[i].members \subseteq azure[i].members \cup Might
    BY <1>2, <2>0, <2>1 DEF MembersBut
  <2>2. CASE MembersStay
    BY <1>2, <2>2 DEF MembersStay
  <2>3. CASE job.pc = "team"
    <3>1. PICK R \in SUBSET job.adding : MembersBut(job.made, azure[job.made].members \cup (job.adding \ R))
      BY <2>3, MembersAdvance
    <3>2. job.adding \subseteq May
      BY <2>3 DEF Accounts, May
    <3> QED BY <1>2, <2>1, <3>1, <3>2
  <2>4. CASE job.pc = "members"
    <3>1. job.adding \subseteq May
      BY <2>4 DEF Accounts, May
    <3>2. MembersBut(job.made, azure[job.made].members \cup job.adding)
      BY <2>4, MembersAdvance
    <3> QED BY <2>1, <3>1, <3>2
  <2>5. CASE job.pc = "gather" /\ job'.pc = "remove"
    <3>1. MembersBut(job.id, azure[job.id].members \cup Newcomers)
      BY <2>5, MembersAdvance
    <3>2. AddNew
      BY <2>5, GoesOnFrom, Fields DEF Gather, Job, IInv
    <3>3. CASE i = job.id
      <4>1. Newcomers \subseteq Might
        BY <3>2, <3>3, LateComers DEF Might
      <4> QED BY <1>2, <3>1, <3>3, <4>1 DEF MembersBut
    <3>4. CASE i # job.id
      BY <1>2, <3>1, <3>4 DEF MembersBut
    <3> QED BY <3>3, <3>4
  <2>6. CASE job.pc \in {"remove", "clear"}
    <3>1. \/ MembersStay \/ MembersBut(job.id, {})
          \/ \E x : MembersBut(job.id, azure[job.id].members \ {x})
      BY <2>6, MembersAdvance
    <3> QED BY <1>2, <2>1, <2>2, <3>1
  <2>7. CASE job.pc = "join"
    <3>1. job.item \in User /\ job.item \in May
      BY <2>7, Kept, Fields DEF CacheInv, InHand, UserSteps, IInv, May
    <3>2. MembersStay \/ \E j : MembersBut(j, azure[j].members \cup {job.item})
      BY <2>7, MembersAdvance
    <3> QED BY <1>2, <2>1, <2>2, <3>1, <3>2
  <2> QED BY <1>2, <2>2, <2>3, <2>4, <2>5, <2>6, <2>7, MembersAdvance
<1> QED BY <1>1, <1>2

\* Who owes something does so until the members of the group are put right.
LEMMA OwingStays ==
  ASSUME IInv, [Next]_vars, NEW g \in Group, g \in Owing
  PROVE  g \in Owing' \/ (busy /\ AddMembers /\ job.target = g /\ azure[job.made].members = {})
<1>1. PICK c \in Cause \ {"team"} : <<g, c>> \in owed
  BY DEF Owing, Debtors
<1>2. <<g, c>> \in owed' => g \in Owing'
  BY DEF Owing, Debtors
<1>3. <<g, c>> \in owed' \/ (busy /\ AddMembers /\ job.target = g)
  BY <1>1, OwedStays
<1>4. AddMembers /\ azure[job.made].members # {} => owed' = owed
  BY DEF AddMembers
<1> QED BY <1>1, <1>2, <1>3, <1>4

\* A call's own step aside, what else happens during a call.
LEMMA Aside ==
  ASSUME IInv, IInv', CacheInv, FreshInv, UserSteps, [Next]_vars, Calm', busy, busy', ~Advancing
  PROVE  /\ job' = job /\ seen' = seen /\ NamesStay /\ MembersStay
         /\ UNCHANGED <<known, ids, named, late, cleaned>> /\ DOMAIN azure' = DOMAIN azure
         /\ enabled \cup known \subseteq enabled' \cup known
         /\ enabled' \cap known \subseteq enabled
         /\ job.item \in enabled => job.item \in enabled'
         /\ \A g \in Owing : g \in Group => g \in Owing'
         /\ \/ ldap' = ldap
            \/ \E g \in Group, e \in Entry : /\ Edit(g, e) /\ g \notin Range(queue) /\ seen[g] = ldap[g]
                                             /\ \A h \in Group : h # g => ldap'[h] = ldap[h]
                                             /\ ldap'[g] = e /\ g # job.item
<1>1. job' = job /\ seen' = seen /\ NamesStay /\ MembersStay
  BY Elsewhere, MembersAside, Starting, Enabling
<1>2. \A g \in Owing : g \in Group => g \in Owing'
  <2>1. ~AddMembers
    BY DEF Advancing
  <2> QED BY <2>1, OwingStays
<1>3. ASSUME NEW g \in Group, NEW e \in Entry, Edit(g, e)
      PROVE  /\ UNCHANGED <<known, ids, named, late, cleaned, azure, enabled>>
             /\ Edit(g, e) /\ g \notin Range(queue) /\ seen[g] = ldap[g]
             /\ \A h \in Group : h # g => ldap'[h] = ldap[h]
             /\ ldap'[g] = e /\ g # job.item
  BY <1>3, CalmPut, HeadWaits DEF CacheInv, Settled
<1>4. ASSUME NEW u \in User, Switch(u)
      PROVE  /\ UNCHANGED <<known, ids, named, late, cleaned, azure, ldap>>
             /\ u \notin Range(queue) /\ u # job.item /\ (u \in enabled <=> u \in known)
             /\ enabled' \in {enabled \cup {u}, enabled \ {u}}
  BY <1>4, HeadWaits DEF Switch, Change, Calm, UserSteps
<1>5. CASE RunJob \/ UNCHANGED vars
  <2>1. UNCHANGED <<known, ids, named, late, cleaned, enabled, ldap>>
    BY <1>5 DEF RunJob, people, standing, outside, vars
  <2>2. DOMAIN azure' = DOMAIN azure
    BY <1>5, Kept DEF RunJob, SetGroup, vars
  <2> QED BY <1>1, <1>2, <2>1, <2>2
<1>6. CASE \E g \in Group, e \in Entry : Edit(g, e)
  BY <1>1, <1>2, <1>3, <1>6
<1>7. CASE \E u \in User : Switch(u)
  BY <1>1, <1>2, <1>4, <1>7
<1>8. ~(Purge \/ Clean \/ Start \/ Enable \/ Disable \/ Ignored \/ Crash)
  BY Zenon DEF Purge, Clean, Start, Enable, Disable, Ignored, Crash, busy
<1>9. ~((busy /\ (Finish \/ Raising \/ Ignore)) \/ Fails)
  BY Ends DEF Ended, Return, busy
<1> QED BY <1>5, <1>6, <1>7, <1>8, <1>9, Kinds

LEMMA ChangedNext ==
  ASSUME IInv, IInv', CacheInv, KindInv, FreshInv, MemberInv, [Next]_vars, Calm'
  PROVE  Changed'
<1> USE DEF MemberInv, UsersInv
<1>1. CASE busy /\ Advancing
  <2>0. Onward /\ job.pc \in PC /\ job.then \in {"convert", "owners", "gather"}
    BY <1>1, AdvancingStep, Fields DEF IInv
  <2>1. SUFFICES ASSUME Own', job'.then # "convert", job'.new.life = "here", job'.pc # "done"
                 PROVE  Watched(job'.old) # Watched(job'.new)
    BY DEF Changed
  <2>2. Own /\ job'.old = job.old /\ job'.new = job.new /\ job.pc # "done"
    BY <2>0, <2>1 DEF Onward, Keeps, Own, CacheInv, InHand, Flow
  <2>3. job.then # "convert"
    BY <2>0, <2>1, <2>2 DEF Onward, Keeps, KindInv, Creation, CacheInv, InHand, Own
  <2> QED BY <2>1, <2>2, <2>3 DEF Changed
<1>2. CASE Start
  <2>1. PICK g \in Group : Begun(g)
    BY <1>2, Starting
  <2> QED BY <2>1 DEF Begun, Changed, Still, Here
<1>3. CASE Enable
  BY <1>3, Enabling DEF Changed
<1>4. CASE busy /\ job' = job
  BY <1>4 DEF Changed, Own
<1> QED BY <1>1, <1>2, <1>3, <1>4, Elsewhere DEF Changed, Own

\* What the listener's queue and the users are after each kind of step.
LEMMA UserStepsNext ==
  ASSUME IInv, IInv', CacheInv, KindInv, FreshInv, MemberInv, [Next]_vars, Calm'
  PROVE  UserSteps'
<1> USE DEF MemberInv, UsersInv
<1>1. CASE busy /\ Advancing
  <2>0. Onward /\ job.pc \in PC /\ UNCHANGED standing
    BY <1>1, AdvancingStep, PeopleStay, Fields DEF IInv
  <2>1. Range(queue) \subseteq Range(queue')
    <3>1. Still \/ \E g \in Group, i \in Nat : Given(g, i)
      BY <1>1, AdvancingStep
    <3>2. ASSUME NEW g \in Group, queue' = Notify(g) PROVE Range(queue) \subseteq Range(queue')
      BY <3>2, Notified
    <3> QED BY <3>1, <3>2 DEF Still, Given
  <2>2. job'.item = job.item /\ job.item \in User => job'.todo \subseteq job.todo
    BY <2>0 DEF Onward, Keeps, CacheInv, InHand, Creation, Flow
  <2>3. job'.item = job.item
    BY <2>0 DEF Onward, Keeps
  <2>4. job.item \in User /\ job'.pc = "done" => job'.todo = {}
    <3>1. SUFFICES ASSUME job.item \in User, job'.pc = "done" PROVE job'.todo = {}
      OBVIOUS
    <3>2. job.pc = "join"
      BY <2>0, <3>1 DEF Onward, Flow, CacheInv, InHand, Creation
    <3>3. Joined
      <4>1. CASE Join
        <5>1. job'.pc # "done"
          BY <1>1, <3>2, <4>1, Fields DEF Join, JoinNew, JoinGroup, Drop, Job, IInv
        <5> QED BY <3>1, <5>1
      <4> QED BY <1>1, <3>2, <4>1, GoesOnFrom
    <3> QED BY <1>1, <3>3, Fields DEF Joined, Goto, Job, IInv
  <2> QED BY <1>1, <2>0, <2>1, <2>2, <2>3, <2>4 DEF UserSteps, people, standing
<1>2. CASE Start
  <2>1. PICK g \in Group : Begun(g)
    BY <1>2, Starting
  <2>2. UNCHANGED people
    BY <1>2 DEF Start
  <2> QED BY <2>1, <2>2, GroupOrUser DEF Begun, UserSteps, Still, people, standing
<1>3. CASE Enable
  <2>1. job'.item \in enabled /\ job'.item \in named' /\ job'.todo \subseteq Group /\ job'.pc = "join"
        /\ Still /\ enabled' = enabled /\ known' = known /\ named \subseteq named'
    BY <1>3, Enabling
  <2>2. named' \subseteq named \cup enabled
    BY <1>3, Kept DEF Enable
  <2> QED BY <2>1, <2>2 DEF UserSteps, Still
<1>4. CASE busy /\ busy' /\ ~Advancing
  <2>1. /\ job' = job /\ UNCHANGED <<known, ids, named>>
        /\ job.item \in enabled => job.item \in enabled'
        /\ enabled \cup known \subseteq enabled' \cup known
    BY <1>4, Aside
  <2>2. Range(queue) \subseteq Range(queue')
    <3>1. queue' = queue \/ \E x \in Group \cup User : queue' = Notify(x)
      <4>1. ~((busy /\ (Finish \/ Raising \/ Ignore)) \/ Fails)
        BY <1>4, Ends DEF Ended, Return, busy
      <4> QED BY <1>4, <4>1, Kinds, Zenon DEF Edit, Put, Switch, Change, Purge, Clean, Start, Enable, Disable, Ignored, RunJob, Crash, vars, busy
    <3> QED BY <3>1, Notified
  <2>3. ASSUME NEW u \in User, u \notin Range(queue') PROVE u \in enabled' <=> u \in known
    <3>1. CASE enabled' = enabled
      BY <2>2, <2>3, <3>1 DEF UserSteps
    <3>2. CASE \E v \in User : Switch(v)
      <4>1. PICK v \in User : Switch(v)
        BY <3>2
      <4>2. v \in Range(queue') /\ enabled' \in {enabled \cup {v}, enabled \ {v}}
        BY <4>1, Notified DEF Switch, Change
      <4> QED BY <2>2, <2>3, <4>2 DEF UserSteps
    <3>3. enabled' = enabled \/ \E v \in User : Switch(v)
      <4>1. ~((busy /\ (Finish \/ Raising \/ Ignore)) \/ Fails)
        BY <1>4, Ends DEF Ended, Return, busy
      <4> QED BY <1>4, <4>1, Kinds, Zenon DEF Edit, Put, Purge, Clean, Start, Enable, Disable, Ignored, RunJob, Crash, vars, busy, people, standing
    <3> QED BY <3>1, <3>2, <3>3
  <2> QED BY <1>4, <2>1, <2>3 DEF UserSteps
<1>5. CASE ~busy'
  <2> SUFFICES /\ known' \subseteq named' /\ named' \subseteq known' \cup enabled'
               /\ \A u \in User : u \notin Range(queue') => (u \in enabled' <=> u \in known')
    BY <1>5 DEF UserSteps
  <2>1. CASE (\E g \in Group, e \in Entry : Edit(g, e)) \/ Purge \/ Clean \/ RunJob \/ Crash \/ UNCHANGED vars
    <3>1. UNCHANGED people
      BY <2>1 DEF Edit, Put, Change, Purge, Clean, RunJob, Crash, vars, people, standing
    <3>2. queue' = queue \/ \E g \in Group : queue' = Notify(g)
      BY <2>1 DEF Edit, Put, Change, Purge, Clean, RunJob, Crash, vars
    <3>3. Range(queue) \subseteq Range(queue')
      BY <3>2, Notified
    <3> QED BY <3>1, <3>3 DEF UserSteps, people, standing
  <2>2. CASE \E u \in User : Switch(u)
    <3>1. PICK v \in User : Switch(v)
      BY <2>2
    <3>2. /\ Range(queue') = Range(queue) \cup {v} /\ known' = known /\ named' = named
          /\ (v \in enabled <=> v \in known)
          /\ enabled' \in {enabled \cup {v}, enabled \ {v}}
      BY <3>1, Notified DEF Switch, Change, Calm, UserSteps
    <3> QED BY <3>2 DEF UserSteps
  <2>3. CASE Disable \/ Ignored
    <3>1. queue # <<>> /\ queue' = Tail(queue) /\ Head(queue) = queue[1] /\ queue[1] \in User
      BY <2>3, Kept DEF Disable, Ignored
    <3>2. Range(queue) = {queue[1]} \cup Range(queue')
      BY <3>1, RangeTail, Kept
    <3> QED BY <2>3, <3>1, <3>2 DEF Disable, Ignored, UserSteps, people, standing
  <2>4. CASE (busy /\ (Finish \/ Raising \/ Ignore)) \/ Fails
    <3>1. Ended
      BY <2>4, Ends
    <3>2. /\ known' = (IF job.item \in User THEN known \cup {job.item} ELSE known)
          /\ enabled' = enabled /\ named' = named /\ Head(queue) = job.item /\ queue # <<>> /\ job.group \in Group
      BY <3>1, HeadWaits, Fields DEF Ended, Return, CacheInv, InHand, IInv
    <3>3. queue' = Tail(queue) \/ queue' = Tail(Notify(job.group))
      BY <2>4, <3>1, Ending, Ignoring DEF Closing, Ended
    <3>4. Range(queue) \subseteq {job.item} \cup Range(queue')
      <4>1. Range(queue) = {Head(queue)} \cup Range(Tail(queue))
        BY <3>2, RangeTail, Kept
      <4>2. Range(Tail(Notify(job.group))) = Range(Tail(queue)) \cup {job.group}
        BY <3>1, <3>2, Notified DEF Ended
      <4> QED BY <3>2, <3>3, <4>1, <4>2
    <3> QED BY <3>1, <3>2, <3>4, Fields, GroupOrUser DEF UserSteps, Ended, IInv
  <2> QED BY <1>5, <2>1, <2>2, <2>3, <2>4, AdvancingStep, Starting, Enabling, Kinds DEF Begun, Onward
<1> QED BY <1>1, <1>2, <1>3, <1>4, <1>5, Elsewhere

LEMMA LastAliasNext ==
  ASSUME IInv, IInv', CacheInv, KindInv, FreshInv, NameInv, KeepInv, MemberInv, [Next]_vars, Calm'
  PROVE  LastAlias'
<1> USE DEF MemberInv, UsersInv
<1>1. SUFFICES ASSUME NEW g \in Group, Here(g)', ldap'[g].alias, ldap'[g].id = 0 PROVE <<g, "last">> \in owed'
  BY DEF LastAlias
<1>2. CASE Here(g) /\ ldap[g].alias /\ ldap[g].id = 0
  <2>1. <<g, "last">> \in owed
    BY <1>2 DEF LastAlias
  <2>2. ~(busy /\ AddMembers /\ job.target = g)
    <3>1. SUFFICES ASSUME busy, AddMembers, job.target = g PROVE FALSE
      OBVIOUS
    <3>2. job.pc = "members" /\ job.made = 0
      BY <1>2, <3>1 DEF KeepInv, Made, AddMembers
    <3> QED BY <3>1, <3>2, Mine
  <2> QED BY <2>1, <2>2, OwedStays DEF Cause
<1>3. CASE ldap' = ldap
  BY <1>1, <1>2, <1>3 DEF Here
<1>4. ASSUME NEW h \in Group, NEW i, Given(h, i) PROVE Here(g) /\ ldap[g].alias /\ ldap[g].id = 0
  <2>1. g # h
    BY <1>1, <1>4, Gives
  <2> QED BY <1>1, <1>4, <2>1, Gives DEF Here
<1>5. ASSUME NEW h \in Group, NEW e \in Entry, Edit(h, e) PROVE Here(g) /\ ldap[g].alias /\ ldap[g].id = 0
  BY <1>1, <1>5, CalmPut DEF Edit, Here
<1>6. CASE busy /\ Advancing
  BY <1>2, <1>3, <1>4, <1>6, AdvancingStep DEF Still
<1>7. CASE (busy /\ (Finish \/ Raising \/ Ignore)) \/ Fails
  <2>1. CASE Closing
    BY <1>3, <2>1 DEF Closing
  <2>2. CASE busy /\ Ignore /\ ldap' = [ldap EXCEPT ![job.group].alias = TRUE]
    <3>1. CASE g = job.group
      BY <2>2, <3>1 DEF Ignore
    <3>2. CASE g # job.group
      <4>1. ldap'[g] = ldap[g]
        BY <2>2, <3>2, Kept
      <4> QED BY <1>1, <1>2, <4>1 DEF Here
    <3> QED BY <3>1, <3>2
  <2>3. Fails => busy
    BY DEF Fails
  <2> QED BY <1>7, <2>1, <2>2, <2>3, Ending, Ignoring
<1>8. CASE (\E u \in User : Switch(u)) \/ Purge \/ Clean \/ Start \/ Enable \/ Disable \/ Ignored \/ RunJob \/ Crash \/ UNCHANGED vars
  BY <1>3, <1>8, Zenon DEF Switch, Change, Purge, Clean, Start, Enable, Disable, Ignored, RunJob, Crash, vars
<1> QED BY <1>2, <1>5, <1>6, <1>7, <1>8, Kinds

LEMMA AccountsNext ==
  ASSUME IInv, IInv', CacheInv, KindInv, FreshInv, NameInv, KeepInv, MemberInv, [Next]_vars, Calm'
  PROVE  Accounts'
<1> USE DEF MemberInv, UsersInv
<1>1. CASE busy /\ Advancing
  <2>0. Onward /\ job.pc \in PC /\ UNCHANGED standing /\ job.then \in {"convert", "owners", "gather"}
    BY <1>1, AdvancingStep, PeopleStay, Fields DEF IInv
  <2>1. \A i \in DOMAIN azure' : azure'[i].members \subseteq ids \cap (known \cup enabled \cup Late(i)')
    <3>1. \A i : Late(i) \subseteq Late(i)'
      BY <1>1, PeopleStay DEF Late
    <3>2. \A i \in DOMAIN azure : azure[i].members \subseteq ids \cap (known \cup enabled \cup Late(i))
      BY DEF Accounts
    <3> QED BY <1>1, <3>1, <3>2, MembersFrom
  <2>2. ASSUME job'.pc \in {"team", "members"} PROVE job'.adding \subseteq ids \cap (known \cup enabled)
    <3>1. job.pc \in {"write", "team"}
      BY <2>0, <2>2 DEF Onward, Flow, PC
    <3>2. CASE job.pc = "write"
      <4>1. job'.adding = LdapUsers(job.cur)
        BY <1>1, <3>2, GoesOnFrom, Fields DEF Write, Job, IInv
      <4> QED BY <4>1, Kept DEF LdapUsers, UserSteps
    <3>3. CASE job.pc = "team"
      <4>1. job'.adding \subseteq job.adding
        BY <1>1, <3>3, MembersAdvance
      <4> QED BY <3>3, <1>1, <4>1 DEF Accounts
    <3> QED BY <3>1, <3>2, <3>3
  <2> QED BY <2>0, <2>1, <2>2 DEF Accounts, people, standing
<1>2. CASE Start
  <2>1. job'.pc \notin {"team", "members"} /\ azure' = azure /\ UNCHANGED people
    BY <1>2, Starting DEF Begun, Start
  <2> QED BY <2>1 DEF Accounts, Late, people
<1>3. CASE Enable
  BY <1>3, Enabling DEF Accounts, Late, Enable
<1>4. CASE busy /\ busy' /\ ~Advancing
  <2>1. /\ job' = job /\ MembersStay /\ UNCHANGED <<known, ids>> /\ DOMAIN azure' = DOMAIN azure
        /\ enabled \cup known \subseteq enabled' \cup known /\ late' = late
    BY <1>4, Aside
  <2>2. \A i : Late(i)' = Late(i)
    BY <2>1 DEF Late
  <2> QED BY <1>4, <2>1, <2>2 DEF Accounts, MembersStay
<1>5. CASE ~busy'
  <2> SUFFICES \A i \in DOMAIN azure' : azure'[i].members \subseteq ids' \cap (known' \cup enabled' \cup Late(i)')
    BY <1>5 DEF Accounts
  <2>1. CASE (\E g \in Group, e \in Entry : Edit(g, e)) \/ Crash \/ UNCHANGED vars \/ Ignored
    BY <2>1 DEF Edit, Put, Change, Crash, vars, people, Ignored, Accounts, Late
  <2>2. CASE RunJob \/ Purge \/ Clean
    <3>1. UNCHANGED people
      BY <2>2 DEF RunJob, Purge, Clean
    <3>2. MembersStay /\ DOMAIN azure' = DOMAIN azure
      <4>1. CASE RunJob
        BY <4>1, MembersRunJob, Kept DEF RunJob, SetGroup
      <4>2. CASE Purge
        <5>1. PICK j \in DOMAIN azure : azure' = [azure EXCEPT ![j].name = Gone]
          BY <4>2 DEF Purge
        <5>2. \A i \in DOMAIN azure : azure[i] \in AzureGroup
          BY Kept
        <5>3. \A i \in DOMAIN azure : azure'[i] = IF i = j THEN [azure[i] EXCEPT !.name = Gone] ELSE azure[i]
          BY <5>1, Kept
        <5> QED BY <5>1, <5>2, <5>3, Kept DEF AzureGroup, MembersStay
      <4>3. CASE Clean
        <5>1. azure' = [i \in DOMAIN azure |-> [azure[i] EXCEPT !.name = IF @ = Gone THEN Gone ELSE Renamed]]
          BY <4>3 DEF Clean
        <5>2. \A i \in DOMAIN azure : azure[i] \in AzureGroup
          BY Kept
        <5> QED BY <5>1, <5>2 DEF AzureGroup, MembersStay
      <4> QED BY <2>2, <4>1, <4>2, <4>3
    <3> QED BY <3>1, <3>2 DEF Accounts, MembersStay, Late, people
  <2>3. CASE \E u \in User : Switch(u)
    <3>1. PICK u \in User : Switch(u)
      BY <2>3
    <3>2. /\ UNCHANGED <<known, ids, late, azure>> /\ u \notin Range(queue)
          /\ enabled' \in {enabled \cup {u}, enabled \ {u}}
      BY <3>1 DEF Switch, Change, Calm
    <3>3. enabled \cup known \subseteq enabled' \cup known
      BY <3>2 DEF UserSteps
    <3> QED BY <3>2, <3>3 DEF Accounts, Late
  <2>4. CASE Disable
    <3>1. /\ queue[1] \notin enabled /\ known' = known \ {queue[1]} /\ UNCHANGED <<enabled, ids>>
          /\ late' = {p \in late : p[2] # queue[1]}
          /\ azure' = [i \in DOMAIN azure |-> [azure[i] EXCEPT !.members = @ \ {queue[1]}]]
      BY <2>4 DEF Disable
    <3>2. \A i \in DOMAIN azure : azure[i] \in AzureGroup
      BY Kept
    <3>3. \A i \in DOMAIN azure : azure'[i].members = azure[i].members \ {queue[1]}
      BY <3>1, <3>2 DEF AzureGroup
    <3>4. \A i : Late(i) \ {queue[1]} \subseteq Late(i)'
      BY <3>1 DEF Late
    <3> QED BY <3>1, <3>3, <3>4 DEF Accounts
  <2>5. CASE (busy /\ (Finish \/ Raising \/ Ignore)) \/ Fails
    <3>1. Ended
      BY <2>5, Ends
    <3> QED BY <3>1 DEF Ended, Return, Accounts, Late
  <2> QED BY <1>5, <2>1, <2>2, <2>3, <2>4, <2>5, AdvancingStep, Starting, Enabling, Kinds DEF Begun, Onward
<1> QED BY <1>1, <1>2, <1>3, <1>4, <1>5, Elsewhere

LEMMA FillingAdvance ==
  ASSUME IInv, IInv', CacheInv, KindInv, FreshInv, NameInv, KeepInv, MemberInv, [Next]_vars, Calm', busy, Advancing
  PROVE  Filling'
<1> USE DEF MemberInv, UsersInv
<1>0. /\ Onward /\ job.pc \in PC /\ UNCHANGED standing /\ job.then \in {"convert", "owners", "gather"}
      /\ job \in Job /\ job.target \in Group /\ job.cur \in Entry /\ job.item \in Group \cup User
  BY AdvancingStep, PeopleStay, Fields DEF IInv
<1>1. ASSUME job'.pc \in {"post", "write", "team", "members"}
      PROVE  /\ Watched(job'.cur) \in {Watched(ldap'[job'.target]), Watched(seen'[job'.target])}
             /\ seen'[job'.target].life = "none" \/ (Own' /\ job'.target = job'.item) =>
                  Watched(job'.cur) = Watched(ldap'[job'.target])
  <2>1. /\ seen' = seen /\ \A g \in Group : Watched(ldap'[g]) = Watched(ldap[g])
    BY EntriesStay
  <2>2. CASE job.pc \in {"parents", "gather", "join"}
    <3>1. job'.pc = "post"
      BY <1>0, <1>1, <2>2 DEF Onward, Flow
    <3>2. PICK g \in Group : job'.target = g /\ job'.cur = ldap[g]
      BY <2>2, <3>1, Posting DEF NameInv
    <3> QED BY <2>1, <3>2
  <2>3. CASE job.pc = "get"
    <3>1. Own /\ job'.target = job.target /\ job'.cur = job.cur
      BY <1>0, <2>3, OwnCall DEF Onward, Keeps, Creation
    <3>2. job.target = job.item /\ job.cur = job.new /\ Watched(job.new) = Watched(ldap[job.item])
      BY <2>3, <3>1 DEF NameInv, AtGet, FreshInv, Fresh
    <3> QED BY <1>0, <2>1, <3>1, <3>2
  <2>4. CASE job.pc \in {"post", "write", "team"}
    <3>1. job'.target = job.target /\ job'.item = job.item /\ (Own' <=> Own)
      BY <1>0, <2>4 DEF Onward, Keeps, Flow, Own
    <3>2. Watched(job'.cur) = Watched(job.cur)
      <4>1. CASE job.pc = "write"
        <5>1. job'.cur = [job.cur EXCEPT !.id = job.made, !.alias = TRUE]
          BY <1>0, <4>1, GoesOnFrom DEF Write, Job
        <5> QED BY <1>0, <5>1 DEF Entry, Watched
      <4>2. CASE job.pc # "write"
        BY <1>0, <2>4, <4>2 DEF Onward, Keeps, Flow
      <4> QED BY <4>1, <4>2
    <3>3. /\ Watched(job.cur) \in {Watched(ldap[job.target]), Watched(seen[job.target])}
          /\ seen[job.target].life = "none" \/ (Own /\ job.target = job.item) => Watched(job.cur) = Watched(ldap[job.target])
      BY <2>4 DEF Filling
    <3> HIDE DEF Watched
    <3> QED BY <1>0, <2>1, <3>1, <3>2, <3>3
  <2> QED BY <1>0, <1>1, <2>2, <2>3, <2>4 DEF Onward, Flow, PC
<1>2. ASSUME job'.pc = "write", job'.target \notin Owing'
      PROVE  job'.made = job'.cur.id \/ azure'[job'.made].members = {}
  <2>1. job.pc = "post" /\ job'.target = job.target
    BY <1>0, <1>2 DEF Onward, Flow, Keeps, PC
  <2>2. (PostNew \/ PostTake) /\ job'.cur = job.cur /\ job'.made \in DOMAIN azure'
    BY <2>1, GoesOnFrom, Finding
  <2>3. CASE PostNew
    <3>1. job'.made = Len(azure) + 1 /\ job'.made \notin DOMAIN azure
      BY <1>0, <2>3, Kept DEF PostNew, Job
    <3>2. azure'[job'.made] = Parse(job.cur)
      BY <2>3, <3>1, Kept DEF PostNew
    <3> QED BY <3>2 DEF Parse
  <2>4. CASE PostTake
    <3>1. PICK i \in Called(job.cur.name) :
             /\ job' = [job EXCEPT !.pc = "write", !.made = i]
             /\ i # job.cur.id /\ azure[i].members # {} => <<job.target, "heir">> \in owed'
             /\ azure' = azure
      BY <2>4 DEF PostTake
    <3>2. job'.made = i
      BY <1>0, <3>1 DEF Job
    <3>3. <<job.target, "heir">> \notin owed'
      BY <1>0, <1>2, <2>1 DEF Owing, Debtors, Cause
    <3> QED BY <2>2, <3>1, <3>2, <3>3
  <2> QED BY <2>2, <2>3, <2>4
<1>3. ASSUME job'.pc \in {"team", "members"}
      PROVE  /\ azure'[job'.made].name = job'.cur.name
             /\ job'.cur.users \cap (Active' \cup {job'.item}) \subseteq job'.adding \cup azure'[job'.made].members
             /\ job'.adding \subseteq job'.cur.users
  <2>0. /\ job.pc \in {"write", "team"} /\ job'.made = job.made /\ job'.item = job.item
        /\ Active' = Active /\ job.made \in DOMAIN azure
    BY <1>0, <1>3, CallIds DEF Onward, Flow, Keeps, PC, Active, people, standing
  <2>1. azure'[job.made].name = azure[job.made].name
    BY <2>0, NamesAdvance DEF NamesStay, Renames
  <2>2. CASE job.pc = "write"
    <3>1. job'.cur = [job.cur EXCEPT !.id = job.made, !.alias = TRUE] /\ job'.adding = LdapUsers(job.cur)
      BY <1>0, <2>2, GoesOnFrom DEF Write, Job
    <3>2. job'.cur.name = job.cur.name /\ job'.cur.users = job.cur.users /\ job.cur.users \subseteq User
      BY <1>0, <3>1 DEF Entry
    <3>3. azure[job.made].name = job.cur.name
      BY <2>2 DEF NameInv, AtPost, Creation
    <3>4. job.cur.users \cap (Active \cup {job.item}) \subseteq LdapUsers(job.cur)
      BY <1>0, <3>2, GroupOrUser DEF LdapUsers, Active, UserSteps
    <3> QED BY <2>0, <2>1, <3>1, <3>2, <3>3, <3>4 DEF LdapUsers
  <2>3. CASE job.pc = "team"
    <3>1. PICK R \in SUBSET job.adding :
            job'.adding = R /\ MembersBut(job.made, azure[job.made].members \cup (job.adding \ R))
      BY <2>3, MembersAdvance
    <3>2. job'.cur = job.cur
      BY <1>0, <2>3 DEF Onward, Keeps, Flow
    <3>3. /\ azure[job.made].name = job.cur.name
          /\ job.cur.users \cap (Active \cup {job.item}) \subseteq job.adding \cup azure[job.made].members
          /\ job.adding \subseteq job.cur.users
      BY <2>3 DEF Filling
    <3>4. azure'[job.made].members = azure[job.made].members \cup (job.adding \ R)
      BY <3>1 DEF MembersBut
    <3> QED BY <2>0, <2>1, <3>1, <3>2, <3>3, <3>4
  <2> QED BY <2>0, <2>2, <2>3
<1> QED BY <1>1, <1>2, <1>3 DEF Filling

LEMMA FillingNext ==
  ASSUME IInv, IInv', CacheInv, KindInv, FreshInv, NameInv, KeepInv, MemberInv, [Next]_vars, Calm'
  PROVE  Filling'
<1> USE DEF MemberInv, UsersInv
<1>1. CASE busy /\ Advancing
  BY <1>1, FillingAdvance
<1>2. CASE Start
  <2>1. PICK g \in Group : Begun(g)
    BY <1>2, Starting
  <2>2. job'.target = g /\ job'.cur = ldap[g] /\ ldap' = ldap
        /\ job'.pc \in {"post", "get", "ignore", "done", "archive", "clear"}
    BY <2>1 DEF Begun, Still
  <2> QED BY <2>2 DEF Filling
<1>3. CASE Enable
  BY <1>3, Enabling DEF Filling
<1>4. CASE busy /\ busy' /\ ~Advancing
  <2>0. /\ job' = job /\ seen' = seen /\ NamesStay /\ MembersStay /\ known' = known
        /\ enabled' \cap known \subseteq enabled
        /\ job.target \in Group /\ (job.target \in Owing => job.target \in Owing')
        /\ (Own' <=> Own)
    BY <1>4, Aside, Fields DEF IInv, Own
  <2>1. job.pc \in {"write", "team", "members"} =>
          job.made \in DOMAIN azure /\ azure'[job.made].members = azure[job.made].members
          /\ azure'[job.made].name = azure[job.made].name
    BY <1>4, <2>0, CallIds DEF NamesStay, MembersStay
  <2>2. Active' \subseteq Active
    BY <2>0 DEF Active
  <2>3. ASSUME job.pc \in {"post", "write", "team", "members"}
        PROVE  /\ Watched(job.cur) \in {Watched(ldap'[job.target]), Watched(seen[job.target])}
               /\ seen[job.target].life = "none" \/ (Own /\ job.target = job.item) =>
                    Watched(job.cur) = Watched(ldap'[job.target])
    <3>1. CASE ldap'[job.target] = ldap[job.target]
      BY <1>4, <2>3, <3>1 DEF Filling
    <3>2. CASE job.target # job.item /\ seen[job.target] = ldap[job.target]
      <4>1. ldap[job.target].life # "none"
        BY <1>4, <2>3 DEF NameInv, AtPost, Creation
      <4> HIDE DEF Watched
      <4> QED BY <1>4, <2>3, <3>2, <4>1 DEF Filling
    <3> QED BY <1>4, <2>0, <3>1, <3>2, Aside
  <2> HIDE DEF Watched
  <2> QED BY <1>4, <2>0, <2>1, <2>2, <2>3 DEF Filling
<1> QED BY <1>1, <1>2, <1>3, <1>4, Elsewhere DEF Filling

LEMMA ClearingNext ==
  ASSUME IInv, IInv', CacheInv, KindInv, FreshInv, NameInv, KeepInv, MemberInv, [Next]_vars, Calm'
  PROVE  Clearing'
<1>1. CASE busy /\ Advancing
  <2>0. Onward /\ job.pc \in PC /\ job.then \in {"convert", "owners", "gather"} /\ job.item \in Group \cup User
    BY <1>1, AdvancingStep, Fields DEF IInv
  <2>1. SUFFICES ASSUME Own', job'.item \notin Owing', job'.new.life = "gone"
                 PROVE  /\ job'.pc = "bury" => azure'[job'.id].members = {}
                        /\ job'.pc = "done" /\ job'.id # 0 =>
                             \/ azure'[job'.id].name = Gone
                             \/ azure'[job'.id].name = Renamed /\ azure'[job'.id].members = {}
    BY DEF Clearing
  <2>2. Own /\ job'.new = job.new /\ job'.item = job.item /\ job.pc \in Burial
    BY <2>0, <2>1 DEF Onward, Keeps, Flow, Own, CacheInv, InHand, KindInv
  <2>3. job.item \notin Owing /\ job'.id = job.id /\ job.id \in DOMAIN azure
    <3>1. ~AddMembers
      BY <2>2 DEF AddMembers, Burial
    <3>2. job'.id = job.id
      BY <2>0, <2>2 DEF Onward, Keeps, Burial
    <3>3. job.id \in DOMAIN azure
      BY <2>2, Mine, Kept DEF Loose, Burial, Own
    <3> QED BY <2>1, <2>2, <3>1, <3>2, <3>3, OwingStays DEF Own
  <2>4. CASE job.pc = "archive"
    BY <2>0, <2>4 DEF Onward, Flow
  <2>5. CASE job.pc = "clear"
    <3>1. NamesStay
      BY <1>1, <2>5, NamesAdvance DEF Renames
    <3>2. \/ job'.pc = "done" /\ azure[job.id].name = Gone
          \/ job'.pc = "bury" /\ MembersBut(job.id, {})
      BY <1>1, <2>5, MembersAdvance
    <3> QED BY <2>3, <3>1, <3>2 DEF NamesStay, MembersBut
  <2>6. CASE job.pc = "bury"
    <3>1. MembersStay
      BY <1>1, <2>6, MembersAdvance
    <3>2. azure[job.id].members = {}
      BY <2>1, <2>2, <2>3, <2>6 DEF MemberInv, Clearing
    <3>3. azure'[job.id].name = Renamed
      BY <1>1, <2>6, Rewritten
    <3> QED BY <2>3, <3>1, <3>2, <3>3 DEF MembersStay
  <2> QED BY <2>2, <2>4, <2>5, <2>6 DEF Burial
<1>2. CASE Start
  <2>1. PICK g \in Group : Begun(g)
    BY <1>2, Starting
  <2>2. azure' = azure /\ ~busy
    BY <1>2 DEF Start
  <2>3. SUFFICES ASSUME g \notin Owing', ldap[g].life = "gone", job'.pc = "done", seen[g].id # 0
                 PROVE  \/ azure[seen[g].id].name = Gone
                        \/ azure[seen[g].id].name = Renamed /\ azure[seen[g].id].members = {}
    BY <2>1, <2>2 DEF Clearing, Begun, Here
  <2>4. g \notin Owing
    BY <2>2, <2>3, OwingStays
  <2>5. seen[g].life = "gone" /\ seen[g].id = ldap[g].id
    <3>1. seen[g].life # "none" /\ seen[g].id = ldap[g].id
      BY <2>3 DEF FreshInv, Lives
    <3>2. seen[g].life # "here"
      BY <2>1, <2>3 DEF Begun, Here
    <3> QED BY <3>1, <3>2, Kept DEF Entry
  <2> QED BY <2>3, <2>4, <2>5 DEF MemberInv, Resting, Rest
<1>3. CASE Enable
  BY <1>3, Enabling, GroupOrUser DEF Clearing, Own
<1>4. CASE busy /\ busy' /\ ~Advancing
  <2>1. job' = job /\ NamesStay /\ MembersStay /\ (job.item \in Group /\ job.item \in Owing => job.item \in Owing')
    BY <1>4, Aside DEF MemberInv, UsersInv
  <2>2. job.id # 0 => job.id \in DOMAIN azure
    BY <1>4, CallIds
  <2>3. job.pc = "bury" => job.id \in DOMAIN azure
    BY <1>4, Mine, Kept DEF Loose
  <2> QED BY <1>4, <2>1, <2>2, <2>3 DEF Clearing, MemberInv, NamesStay, MembersStay, Own
<1> QED BY <1>1, <1>2, <1>3, <1>4, Elsewhere DEF Clearing, Own

\* A call for a user only adds members, and goes on with fewer groups.
LEMMA UserCall ==
  ASSUME IInv, IInv', CacheInv, [Next]_vars, Calm', busy, Advancing, job.item \in User
  PROVE  /\ job'.item = job.item /\ job'.todo \subseteq job.todo
         /\ job.pc \in Creation \cup {"convert", "join"} /\ NamesStay
         /\ \A i \in DOMAIN azure : i \in DOMAIN azure' /\ azure[i].members \subseteq azure'[i].members
<1>0. Onward /\ job.pc \in PC
  BY AdvancingStep, Fields DEF IInv
<1>1. job.pc \in Creation \cup {"convert", "join"}
  BY <1>0 DEF Onward, Flow, CacheInv, InHand
<1>2. NamesStay
  BY <1>1, NamesAdvance DEF Renames, Creation
<1>3. job'.item = job.item /\ job'.todo \subseteq job.todo
  BY <1>0, <1>1 DEF Onward, Keeps, Creation
<1>4. \A i \in DOMAIN azure : i \in DOMAIN azure' /\ azure[i].members \subseteq azure'[i].members
  <2>1. MembersStay \/ \E j, U : MembersBut(j, azure[j].members \cup U)
    <3>1. CASE job.pc = "team"
      <4>1. PICK R \in SUBSET job.adding : MembersBut(job.made, azure[job.made].members \cup (job.adding \ R))
        BY <3>1, MembersAdvance
      <4> QED BY <4>1
    <3>2. CASE job.pc = "members"
      BY <3>2, MembersAdvance
    <3>3. CASE job.pc = "join"
      <4>1. CASE MembersStay
        BY <4>1
      <4>2. CASE \E g \in job.todo \cap Group : MembersBut(ldap[g].id, azure[ldap[g].id].members \cup {job.item})
        <5>1. PICK g \in job.todo \cap Group : MembersBut(ldap[g].id, azure[ldap[g].id].members \cup {job.item})
          BY <4>2
        <5> QED BY <5>1
      <4> QED BY <3>3, <4>1, <4>2, MembersAdvance
    <3>4. CASE job.pc \in {"post", "write", "parents", "convert"}
      BY <3>4, MembersAdvance
    <3> QED BY <1>1, <3>1, <3>2, <3>3, <3>4 DEF Creation
  <2> QED BY <2>1 DEF MembersStay, MembersBut
<1> QED BY <1>1, <1>2, <1>3, <1>4

\* What Joins says of a group that the call for the user u is through with.
InGroup(g, u) ==
  Here(g) /\ u \in seen[g].users \cap ldap[g].users =>
    /\ ldap[g].id = 0 => job.pc \in {"post", "write"} /\ job.target = g
    /\ ldap[g].id # 0 /\ azure[ldap[g].id].name # Gone =>
         \/ u \in azure[ldap[g].id].members
         \/ job.pc \in {"team", "members"} /\ job.target = g

LEMMA JoinsAdvance ==
  ASSUME IInv, IInv', CacheInv, KindInv, FreshInv, NameInv, KeepInv, MemberInv, [Next]_vars, Calm',
         busy, Advancing, job.item \in User, NEW g \in Group, g \notin Owing', g \notin job'.todo,
         NEW u, u = job.item
  PROVE  InGroup(g, u)'
<1> USE DEF MemberInv, UsersInv
<1>0. /\ Onward /\ job.pc \in PC /\ UNCHANGED standing /\ job \in Job /\ job.target \in Group /\ job.cur \in Entry
      /\ job'.item = job.item /\ job'.todo \subseteq job.todo
      /\ job.pc \in Creation \cup {"convert", "join"} /\ NamesStay
      /\ seen' = seen /\ \A h \in Group : Watched(ldap'[h]) = Watched(ldap[h]) /\ (Here(h)' <=> Here(h))
  BY AdvancingStep, PeopleStay, Fields, UserCall, EntriesStay DEF IInv
<1>1. \A i \in DOMAIN azure : i \in DOMAIN azure' /\ azure[i].members \subseteq azure'[i].members
  BY UserCall
<1>2. SUFFICES ASSUME Here(g), u \in seen[g].users \cap ldap[g].users
               PROVE  /\ ldap'[g].id = 0 => job'.pc \in {"post", "write"} /\ job'.target = g
                      /\ ldap'[g].id # 0 /\ azure'[ldap'[g].id].name # Gone =>
                           \/ u \in azure'[ldap'[g].id].members
                           \/ job'.pc \in {"team", "members"} /\ job'.target = g
  BY <1>0 DEF InGroup, Watched
<1>3. g \in Owing => job.pc = "members" /\ job.target = g /\ azure[job.made].members = {}
  BY OwingStays DEF AddMembers
<1>4. ldap[g].id # 0 => ldap[g].id \in DOMAIN azure
  BY IdsThere
<1>5. g \notin job.todo /\ g \notin Owing => InGroup(g, u)
  BY DEF Joins, InGroup
<1>6. job.pc # "write" => ldap' = ldap
  BY <1>0, StillUnless DEF Still, Creation
<1>7. CASE job.pc = "join"
  <2>1. g \notin Owing
    BY <1>3, <1>7
  <2>2. CASE g \notin job.todo
    BY <1>0, <1>1, <1>2, <1>4, <1>5, <1>6, <1>7, <2>1, <2>2 DEF InGroup, NamesStay
  <2>3. CASE g \in job.todo
    <3>1. CASE Joined
      BY <1>0, <3>1, <2>3 DEF Joined
    <3>2. CASE Join
      <4>1. PICK h \in job.todo \cap Group : JoinNew(h) \/ JoinGroup(h)
        BY <3>2 DEF Join
      <4>2. job'.todo = job.todo \ {h}
        BY <1>0, <4>1 DEF JoinNew, JoinGroup, Drop, Job
      <4>3. h = g
        BY <2>3, <4>2
      <4>4. CASE JoinNew(g)
        <5>1. ldap[g].id = 0
          BY <4>4 DEF JoinNew, CacheInv, Aliased
        <5>2. job'.pc = "post" /\ job'.target = g
          BY <1>0, <4>4 DEF JoinNew, Job
        <5> QED BY <1>6, <1>7, <5>1, <5>2
      <4>5. CASE JoinGroup(g)
        <5>1. ldap[g].id # 0
          <6>1. SUFFICES ASSUME ldap[g].id = 0 PROVE FALSE
            OBVIOUS
          <6>2. <<g, "last">> \in owed
            BY <4>5, <6>1 DEF JoinGroup, LastAlias
          <6>3. <<g, "last">> \in owed'
            BY <1>7, <6>2, OwedStays DEF AddMembers, Cause
          <6> QED BY <6>3 DEF Owing, Debtors, Cause
        <5>2. ~(ldap[g].team /\ azure[ldap[g].id].team = "none")
          <6>1. SUFFICES ASSUME ldap[g].team, azure[ldap[g].id].team = "none" PROVE FALSE
            OBVIOUS
          <6>2. <<g, "unformed">> \in owed'
            BY <4>5, <5>1, <6>1 DEF JoinGroup
          <6> QED BY <6>2 DEF Owing, Debtors, Cause
        <5>3. AddTo(ldap[g].id, {job.item})
          BY <4>5, <5>1, <5>2 DEF JoinGroup
        <5>4. MembersBut(ldap[g].id, azure[ldap[g].id].members \cup {job.item})
          <6>1. ldap[g].id \in 1 .. Len(azure) /\ ~failed'
            BY <1>4, <5>1, Kept DEF Calm
          <6> QED BY <5>3, <6>1, AddToMembers
        <5>5. u \in azure'[ldap[g].id].members
          BY <5>4 DEF MembersBut
        <5> QED BY <1>6, <1>7, <5>1, <5>5
      <4> QED BY <4>1, <4>3, <4>4, <4>5
    <3> QED BY <1>7, <3>1, <3>2, GoesOnFrom
  <2> QED BY <2>2, <2>3
<1>8. CASE job.pc = "write"
  <2>1. g \notin Owing /\ g \notin job.todo
    BY <1>0, <1>3, <1>8 DEF Onward, Keeps
  <2>2. job'.pc = "team" /\ job'.target = job.target /\ Write
    BY <1>0, <1>8, GoesOnFrom DEF Onward, Flow, Keeps
  <2>3. CASE g = job.target
    <3>1. job.cur.id = ldap[g].id /\ job.made # 0
      BY <1>8, <2>3, Mine DEF NameInv, AtPost, Creation
    <3>2. ldap'[g].id = job.made
      BY <2>2, <2>3, <3>1, WriteData, Gives DEF Still
    <3> QED BY <2>2, <2>3, <3>1, <3>2
  <2>4. CASE g # job.target
    <3>1. ldap'[g].id = ldap[g].id
      BY <1>0, <2>2, <2>4, WriteData, Gives DEF Still
    <3> QED BY <1>0, <1>1, <1>2, <1>4, <1>5, <1>8, <2>1, <2>4, <3>1 DEF InGroup, NamesStay
  <2> QED BY <2>3, <2>4
<1>9. CASE job.pc = "members"
  <2>1. job'.todo = job.todo /\ ldap' = ldap /\ MembersBut(job.made, azure[job.made].members \cup job.adding)
    BY <1>0, <1>6, <1>9, MembersAdvance DEF Onward, Keeps
  <2>2. CASE g = job.target
    <3>1. ldap[g].id = job.made
      BY <1>9, <2>2 DEF KeepInv, Made
    <3>2. u \in job.cur.users
      BY <1>2, <1>9, <2>2 DEF Filling, Watched
    <3>3. u \in job.adding \cup azure[job.made].members
      BY <1>9, <3>2 DEF Filling
    <3>4. u \in azure'[job.made].members /\ job.made # 0
      BY <1>9, <2>1, <3>3, Mine DEF MembersBut
    <3> QED BY <2>1, <3>1, <3>4
  <2>3. CASE g # job.target
    BY <1>0, <1>1, <1>2, <1>3, <1>4, <1>5, <1>9, <2>1, <2>3 DEF InGroup, NamesStay
  <2> QED BY <2>2, <2>3
<1>10. CASE job.pc \in {"post", "team", "parents", "convert"}
  <2>1. g \notin Owing /\ g \notin job.todo /\ ldap' = ldap
    BY <1>0, <1>3, <1>6, <1>10 DEF Onward, Keeps
  <2>2. CASE job.pc = "post"
    <3>1. job'.pc = "write" /\ job'.target = job.target
      BY <1>0, <2>2 DEF Onward, Keeps, Flow
    <3> QED BY <1>0, <1>1, <1>2, <1>4, <1>5, <2>1, <2>2, <3>1 DEF InGroup, NamesStay
  <2>3. CASE job.pc = "team"
    <3>1. job'.pc = "members" /\ job'.target = job.target
      BY <1>0, <2>3 DEF Onward, Keeps, Flow
    <3> QED BY <1>0, <1>1, <1>2, <1>4, <1>5, <2>1, <2>3, <3>1 DEF InGroup, NamesStay
  <2>4. CASE job.pc \in {"parents", "convert"}
    BY <1>0, <1>1, <1>2, <1>4, <1>5, <2>1, <2>4 DEF InGroup, NamesStay
  <2> QED BY <1>10, <2>2, <2>3, <2>4
<1> QED BY <1>0, <1>7, <1>8, <1>9, <1>10 DEF Creation

LEMMA JoinsNext ==
  ASSUME IInv, IInv', CacheInv, KindInv, FreshInv, NameInv, KeepInv, MemberInv, [Next]_vars, Calm'
  PROVE  Joins'
<1> USE DEF MemberInv, UsersInv
<1>0. Joins' <=> (busy' /\ job'.item \in User =>
                   /\ \A g \in job'.todo : job'.item \in seen'[g].users \cup ldap'[g].users
                   /\ \A g \in Group \ (Owing' \cup job'.todo) : InGroup(g, job.item)' \/ job'.item # job.item')
  BY DEF Joins, InGroup
<1>1. CASE busy /\ Advancing
  <2>1. SUFFICES ASSUME job'.item \in User
                 PROVE  /\ \A g \in job'.todo : job'.item \in seen'[g].users \cup ldap'[g].users
                        /\ \A g \in Group \ (Owing' \cup job'.todo) : InGroup(g, job.item)'
    BY <1>0
  <2>2. job.item \in User
    BY <1>1, <2>1, AdvancingStep DEF Onward, Keeps
  <2>3. job'.item = job.item /\ job'.todo \subseteq job.todo /\ job.todo \subseteq Group
    BY <1>1, <2>2, UserCall DEF UserSteps
  <2>4. seen' = seen /\ \A g \in Group : Watched(ldap'[g]) = Watched(ldap[g])
    BY <1>1, EntriesStay
  <2>5. \A g \in job'.todo : job'.item \in seen'[g].users \cup ldap'[g].users
    BY <1>1, <2>2, <2>3, <2>4 DEF Joins, Watched
  <2>6. \A g \in Group \ (Owing' \cup job'.todo) : InGroup(g, job.item)'
    <3>1. TAKE g \in Group \ (Owing' \cup job'.todo)
    <3>2. PICK u : u = job.item
      OBVIOUS
    <3>3. InGroup(g, u)'
      BY <1>1, <2>2, <3>2, JoinsAdvance
    <3> QED BY <2>3, <3>2, <3>3
  <2> QED BY <2>5, <2>6
<1>2. CASE Start
  BY <1>2, Starting, GroupOrUser DEF Begun, Joins
<1>3. CASE Enable
  BY <1>3, Enabling DEF Joins, Still, Here
<1>4. CASE busy /\ busy' /\ ~Advancing
  <2>1. /\ job' = job /\ seen' = seen /\ NamesStay /\ MembersStay
        /\ \A g \in Owing : g \in Group => g \in Owing'
    BY <1>4, Aside
  <2>2. SUFFICES ASSUME job.item \in User
                 PROVE  /\ \A g \in job.todo : job.item \in seen[g].users \cup ldap'[g].users
                        /\ \A g \in Group \ (Owing' \cup job.todo) : InGroup(g, job.item)'
    BY <1>0, <2>1
  <2>3. /\ \A g \in job.todo : job.item \in seen[g].users \cup ldap[g].users
        /\ \A g \in Group \ (Owing \cup job.todo) : InGroup(g, job.item)
        /\ job.todo \subseteq Group
    BY <1>4, <2>2 DEF Joins, InGroup, UserSteps
  <2>4. \A g \in Group : ldap[g].id # 0 => ldap[g].id \in DOMAIN azure
    BY IdsThere
  <2>5. ASSUME NEW g \in Group, ldap'[g] = ldap[g], InGroup(g, job.item) PROVE InGroup(g, job.item)'
    BY <2>1, <2>4, <2>5 DEF InGroup, Here, NamesStay, MembersStay
  <2>6. CASE ldap' = ldap
    BY <2>1, <2>3, <2>5, <2>6
  <2>7. CASE \E g \in Group, e \in Entry : /\ Edit(g, e) /\ g \notin Range(queue) /\ seen[g] = ldap[g]
                                           /\ \A h \in Group : h # g => ldap'[h] = ldap[h]
                                           /\ ldap'[g] = e /\ g # job.item
    <3>1. PICK g \in Group, e \in Entry : /\ Edit(g, e) /\ seen[g] = ldap[g] /\ ldap'[g] = e
                                          /\ \A h \in Group : h # g => ldap'[h] = ldap[h]
      BY <2>7
    <3>2. \A h \in job.todo : job.item \in seen[h].users \cup ldap'[h].users
      BY <2>3, <3>1
    <3>3. ASSUME InGroup(g, job.item) PROVE InGroup(g, job.item)'
      <4>1. SUFFICES ASSUME job.item \in seen[g].users
                     PROVE  InGroup(g, job.item)'
        BY <2>1 DEF InGroup
      <4>2. ldap[g].life # "none"
        BY <3>1, <4>1 DEF FreshInv, Lives, Nothing
      <4>3. Here(g) /\ e.id = ldap[g].id
        BY <3>1, <4>2 DEF Edit
      <4> QED BY <2>1, <2>4, <3>1, <3>3, <4>1, <4>3 DEF InGroup, NamesStay, MembersStay
    <3> QED BY <2>1, <2>3, <2>5, <3>1, <3>2, <3>3
  <2> QED BY <1>4, <2>6, <2>7, Aside
<1> QED BY <1>1, <1>2, <1>3, <1>4, Elsewhere DEF Joins

LEMMA ReadyKept ==
  ASSUME NEW g \in Group, NEW e, Ready(g, e), ldap'[g].id = ldap[g].id,
         Active' \subseteq Active,
         g \in cleaned => g \in cleaned',
         LET i == ldap[g].id IN i # 0 =>
           /\ azure'[i].name = azure[i].name /\ azure'[i].members = azure[i].members
  PROVE  Ready(g, e)'
BY DEF Ready

\* A group is created with the members and the name of its entry.
LEMMA CreatedReady ==
  ASSUME IInv, IInv', CacheInv, KindInv, FreshInv, NameInv, KeepInv, MemberInv, [Next]_vars, Calm',
         Own, Advancing, job.pc = "members", job.target = job.item, job.then = "convert", job.new.life = "here",
         NEW g \in Group, g = job.item, g \notin Owing'
  PROVE  Ready(g, job.new)'
<1> USE DEF MemberInv, UsersInv
<1>0. /\ UNCHANGED standing /\ job.cur \in Entry /\ job.new \in Entry /\ busy /\ AddMembers /\ NamesStay
      /\ ldap' = ldap /\ job'.new = job.new
  <2>1. busy
    BY DEF Own
  <2>2. job.cur \in Entry /\ job.new \in Entry /\ UNCHANGED standing
    BY <2>1, PeopleStay, Fields DEF IInv
  <2>3. AddMembers /\ NamesStay /\ ldap' = ldap
    BY <2>1, GoesOnFrom, NamesAdvance, StillUnless DEF Renames, Still
  <2>4. job'.new = job.new
    BY <2>1, AdvancingStep DEF Onward, Keeps
  <2> QED BY <2>1, <2>2, <2>3, <2>4
<1>1. ldap[g].id = job.made /\ job.made # 0 /\ job.made \in DOMAIN azure
  BY <1>0, Mine, CallIds DEF KeepInv, Made
<1>2. MembersBut(job.made, azure[job.made].members \cup job.adding)
  BY <1>0, MembersAdvance
<1>3. /\ azure[job.made].name = job.cur.name /\ job.adding \subseteq job.cur.users
      /\ job.cur.users \cap Active \subseteq job.adding \cup azure[job.made].members
      /\ Watched(job.cur) = Watched(ldap[g])
  BY <1>0 DEF Filling
<1>4. job.cur.users = ldap[g].users /\ job.cur.name = ldap[g].name
      /\ job.new.users = ldap[g].users /\ job.new.name = ldap[g].name /\ Here(g)
  BY <1>3 DEF Watched, FreshInv, Fresh, Here
<1>5. azure[job.made].name # Gone => azure[job.made].members \subseteq ldap[g].users
  <2>1. CASE azure[job.made].members = {}
    BY <2>1
  <2>2. CASE azure[job.made].members # {}
    <3>1. g \notin Owing
      BY <2>2, OwingStays
    <3>2. seen[g].life = "none"
      BY DEF KindInv, CacheInv, InHand, Own
    <3>3. seen[g].users = {}
      BY <3>2 DEF FreshInv, Lives, Nothing
    <3>4. Rest(g)
      BY <3>1 DEF Resting
    <3> QED BY <1>1, <1>4, <3>3, <3>4 DEF Rest
  <2> QED BY <2>1, <2>2
<1>6. /\ azure'[job.made].members = azure[job.made].members \cup job.adding
      /\ azure'[job.made].name = azure[job.made].name
  BY <1>0, <1>1, <1>2 DEF MembersBut, NamesStay
<1>7. Active' = Active /\ enabled' = enabled
  BY <1>0 DEF Active, people, standing
<1> QED BY <1>0, <1>1, <1>3, <1>4, <1>5, <1>6, <1>7 DEF Ready

\* Neither does what another group is created for touch it.
LEMMA OthersReady ==
  ASSUME IInv, IInv', CacheInv, KindInv, FreshInv, NameInv, KeepInv, MemberInv, [Next]_vars, Calm',
         Own, Advancing, job.new.life = "here", job.then = "convert" \/ job.pc = "convert",
         job.pc \in {"parents", "convert"} \/ (job.pc \in Creation /\ job.target # job.item),
         NEW g \in Group, g = job.item, Ready(g, job.new)
  PROVE  Ready(g, job.new)'
<1> USE DEF MemberInv, UsersInv
<1>0. /\ busy /\ UNCHANGED standing /\ NamesStay /\ cleaned' = cleaned /\ job'.new = job.new
      /\ job.target \in Group
  <2>1. busy
    BY DEF Own
  <2>2. UNCHANGED standing /\ cleaned' = cleaned
    BY <2>1, PeopleStay DEF Creation
  <2>3. NamesStay
    BY <2>1, NamesAdvance DEF Renames, Creation
  <2>4. job'.new = job.new
    BY <2>1, AdvancingStep DEF Onward, Keeps, Creation
  <2> QED BY <2>1, <2>2, <2>3, <2>4, Fields DEF IInv
<1>1. ldap'[g].id = ldap[g].id
  <2>1. CASE job.pc = "write"
    <3>1. job.target # g
      BY <2>1
    <3> QED BY <1>0, <2>1, <3>1, GoesOnFrom, WriteData, Gives DEF Still
  <2>2. CASE job.pc # "write"
    BY <1>0, <2>2, StillUnless DEF Still, Creation
  <2> QED BY <2>1, <2>2
<1>2. ASSUME ldap[g].id # 0
      PROVE  /\ ldap[g].id \in DOMAIN azure
             /\ azure'[ldap[g].id].name = azure[ldap[g].id].name
             /\ azure'[ldap[g].id].members = azure[ldap[g].id].members
  <2>1. ldap[g].id \in DOMAIN azure
    BY <1>2, IdsThere
  <2>2. azure'[ldap[g].id].name = azure[ldap[g].id].name
    BY <1>0, <2>1 DEF NamesStay
  <2>3. CASE job.pc \in {"team", "members"}
    <3>1. job.made = ldap[job.target].id /\ job.made # 0 /\ job.target # g
      BY <1>0, <2>3, Mine DEF KeepInv, Made
    <3>2. ~Excused(g)
      BY <1>0, Holding DEF Own
    <3>3. ~Excused(job.target)
      BY <1>0, <2>3 DEF NameInv, AtPost, Creation, Excused
    <3>4. ldap[g].id \in Holds(g) /\ job.made \in Holds(job.target)
      <4> HIDE DEF Excused
      <4> QED BY <1>2, <3>1, <3>2, <3>3 DEF Holds
    <3>5. ldap[g].id # job.made
      BY <1>0, <3>1, <3>4 DEF NameInv, HeldOnce
    <3>6. \E U : MembersBut(job.made, U)
      BY <1>0, <2>3, MembersAdvance
    <3> QED BY <2>1, <2>2, <3>5, <3>6 DEF MembersBut
  <2>4. CASE job.pc \notin {"team", "members"}
    <3>1. MembersStay
      BY <1>0, <2>4, MembersAdvance DEF Creation
    <3> QED BY <2>1, <2>2, <3>1 DEF MembersStay
  <2> QED BY <2>3, <2>4
<1>3. Active' = Active /\ enabled' = enabled
  BY <1>0 DEF Active, people, standing
<1>4. PICK e : e = job.new
  OBVIOUS
<1>5. Ready(g, e)'
  BY <1>0, <1>1, <1>2, <1>3, <1>4, ReadyKept
<1> QED BY <1>0, <1>4, <1>5 DEF Ready

\* What Following says of the members while modify works on them.
Putting ==
  job.pc \in {"remove", "forget", "rename"} /\ ldap[job.item].id # 0 =>
    /\ azure[job.id].members \subseteq
         job.new.users \cup (IF job.pc = "remove" THEN job.todo ELSE {})
    /\ job.new.users \cap Active \subseteq azure[job.id].members
    /\ job.pc = "remove" => job.new.users \cap job.todo = {}

LEMMA ChangingOn ==
  ASSUME IInv, IInv', CacheInv, KindInv, FreshInv, NameInv, KeepInv, MemberInv, [Next]_vars, Calm',
         Own, Advancing, job.new.life = "here", job.item \notin Owing
  PROVE  Putting'
<1> USE DEF MemberInv, UsersInv
<1>0. /\ busy /\ Onward /\ job.pc \in PC /\ UNCHANGED standing /\ job.new \in Entry /\ job.old \in Entry
      /\ job.then \in {"convert", "owners", "gather"} /\ job.item \in Group
      /\ job'.item = job.item /\ job'.new = job.new
  <2>1. busy /\ job.item \in Group
    BY DEF Own
  <2>2. Onward /\ job.pc \in PC /\ UNCHANGED standing /\ job.new \in Entry /\ job.old \in Entry
        /\ job.then \in {"convert", "owners", "gather"}
    BY <2>1, AdvancingStep, PeopleStay, Fields DEF IInv
  <2>3. job'.item = job.item /\ job'.new = job.new
    BY <2>1, <2>2 DEF Onward, Keeps, CacheInv, InHand
  <2> QED BY <2>1, <2>2, <2>3
<1>1. SUFFICES ASSUME job'.pc \in {"remove", "forget", "rename"}, ldap'[job.item].id # 0
               PROVE  /\ azure'[job'.id].members \subseteq
                           job.new.users \cup (IF job'.pc = "remove" THEN job'.todo ELSE {})
                      /\ job.new.users \cap Active \subseteq azure'[job'.id].members
                      /\ job'.pc = "remove" => job.new.users \cap job'.todo = {}
  BY <1>0 DEF Putting, Active, people, standing
<1>2. job.pc \in {"gather", "remove", "forget"} /\ job'.id = job.id
  BY <1>0, <1>1 DEF Onward, Flow, Keeps, PC
<1>3. job.pc # "forget" /\ ldap' = ldap
  <2>1. job.pc # "forget"
    <3>1. SUFFICES ASSUME job.pc = "forget" PROVE FALSE
      OBVIOUS
    <3>2. Given(job.group, 0) /\ job.group = job.item
      BY <1>0, <3>1, GoesOnFrom, ForgetData DEF CacheInv, InHand
    <3> QED BY <1>0, <1>1, <3>2, Gives
  <2> QED BY <1>0, <1>2, <2>1, StillUnless DEF Still
<1>4. ldap[job.item].id = job.id /\ job.id \in DOMAIN azure /\ azure[job.id].name # Gone
  BY <1>0, <1>1, <1>2, <1>3, CallIds DEF NameInv, AfterWrite, Changing, Own
<1>5. azure[job.id].members \subseteq ids
  BY <1>4 DEF Accounts
<1>6. CASE job.pc = "gather"
  <2>1. /\ job'.pc = "remove"
        /\ MembersBut(job.id, azure[job.id].members \cup Newcomers)
        /\ job'.todo = (job.old.users \ job.new.users) \cup (job.old.groups \ job.new.groups)
    BY <1>0, <1>1, <1>6, MembersAdvance DEF Onward, Flow, Keeps
  <2>2. /\ seen[job.item].users = job.old.users /\ ldap[job.item].users = job.new.users /\ Here(job.item)
    BY <1>0 DEF CacheInv, InHand, FreshInv, Fresh, Watched, Own, Here
  <2>3. Rest(job.item)
    BY <1>0 DEF Resting
  <2>4. /\ azure[job.id].members \subseteq job.old.users \cup job.new.users
        /\ (job.old.users \cap job.new.users) \cap Active \subseteq azure[job.id].members
    BY <1>1, <1>3, <1>4, <1>6, <2>2, <2>3 DEF Rest, Midway
  <2>5. /\ (job.new.users \ job.old.users) \cap Active \subseteq Newcomers
        /\ Newcomers \subseteq job.new.users
    BY Kept DEF Active, UserSteps, Newcomers
  <2>6. azure'[job.id].members = azure[job.id].members \cup Newcomers
    BY <2>1 DEF MembersBut
  <2>7. job.new.users \cap job'.todo = {}
    <3>1. job.new.users \subseteq User /\ job.old.groups \subseteq Group
      BY <1>0 DEF Entry
    <3> QED BY <2>1, <3>1, GroupOrUser
  <2> QED BY <1>2, <2>1, <2>4, <2>5, <2>6, <2>7
<1>7. CASE job.pc = "remove"
  <2>1. /\ azure[job.id].members \subseteq job.new.users \cup job.todo
        /\ job.new.users \cap Active \subseteq azure[job.id].members
        /\ job.new.users \cap job.todo = {}
    BY <1>0, <1>1, <1>3, <1>7 DEF Following, Own
  <2>2. CASE job'.pc # "remove" /\ job.todo = {} /\ MembersStay
    BY <1>2, <1>4, <2>1, <2>2 DEF MembersStay
  <2>3. CASE \E x \in job.todo : /\ job'.pc = "remove" /\ job'.todo = job.todo \ {x}
                                 /\ \/ x \in ids /\ MembersBut(job.id, azure[job.id].members \ {x})
                                    \/ x \notin ids /\ MembersStay
    <3>1. PICK x \in job.todo : /\ job'.pc = "remove" /\ job'.todo = job.todo \ {x}
                                /\ \/ x \in ids /\ MembersBut(job.id, azure[job.id].members \ {x})
                                   \/ x \notin ids /\ MembersStay
      BY <2>3
    <3>2. azure'[job.id].members = azure[job.id].members \ {x}
      BY <1>4, <1>5, <3>1 DEF MembersBut, MembersStay
    <3> QED BY <1>2, <2>1, <3>1, <3>2
  <2> QED BY <1>0, <1>7, <2>2, <2>3, MembersAdvance
<1> QED BY <1>2, <1>3, <1>6, <1>7

\* The last thing modify does is to give the group its name.
LEMMA RenamedReady ==
  ASSUME IInv, IInv', CacheInv, KindInv, FreshInv, NameInv, KeepInv, MemberInv, [Next]_vars, Calm',
         Own, Advancing, job.new.life = "here", job.pc = "rename", NEW g \in Group, g = job.item, g \notin Owing
  PROVE  Ready(g, job.new)'
<1> USE DEF MemberInv, UsersInv
<1>0. /\ busy /\ UNCHANGED standing /\ job'.new = job.new /\ ldap' = ldap /\ MembersStay
      /\ azure'[job.id].name = job.new.name
  <2>1. busy
    BY DEF Own
  <2>2. UNCHANGED standing /\ ldap' = ldap /\ job'.new = job.new
    BY <2>1, PeopleStay, StillUnless, AdvancingStep DEF Still, Onward, Keeps
  <2> QED BY <2>1, <2>2, Rewritten, MembersAdvance
<1>1. Active' = Active /\ enabled' = enabled
  BY <1>0 DEF Active, people, standing
<1>2. CASE ldap[g].id = 0
  <2>1. seen[g].users = job.old.users /\ ldap[g].users = job.new.users /\ Here(g)
    BY DEF CacheInv, InHand, FreshInv, Fresh, Watched, Own, Here
  <2>2. job.new.users \subseteq job.old.users
    BY <1>2 DEF NameInv, AfterWrite, Changing
  <2>3. Rest(g)
    BY DEF Resting
  <2>4. job.new.users \cap Active = {}
    BY <1>2, <2>1, <2>2, <2>3 DEF Rest
  <2> QED BY <1>0, <1>1, <1>2, <2>4 DEF Ready
<1>3. CASE ldap[g].id # 0
  <2>1. ldap[g].id = job.id /\ job.id \in DOMAIN azure
    BY <1>0, <1>3, CallIds DEF NameInv, AfterWrite, Changing
  <2>2. /\ azure[job.id].members \subseteq job.new.users
        /\ job.new.users \cap Active \subseteq azure[job.id].members
    BY <1>3 DEF Following
  <2> QED BY <1>0, <1>1, <1>3, <2>1, <2>2 DEF Ready, MembersStay
<1> QED BY <1>2, <1>3

LEMMA NotInAzure == ASSUME IInv, NEW g \in Group, Here(g), ~InAzure(g) PROVE ldap[g].users \cap enabled = {}
<1>1. g \in Below(g)
  BY DEF Below
<1> HIDE DEF Below
<1>2. ldap[g].users \cap marked = {}
  BY <1>1 DEF InAzure
<1> QED BY <1>2, Kept

LEMMA StartedReady ==
  ASSUME IInv, IInv', CacheInv, KindInv, FreshInv, NameInv, KeepInv, MemberInv, [Next]_vars, Calm',
         Start, NEW g \in Group, Begun(g), Here(g), job'.pc = "done", g \notin Owing'
  PROVE  Ready(g, ldap[g])'
<1> USE DEF MemberInv, UsersInv
<1>0. /\ ~busy /\ ldap' = ldap /\ azure' = azure /\ UNCHANGED people /\ cleaned' = cleaned
  BY DEF Start, outside
<1>1. Rest(g)
  <2>1. g \notin Owing
    BY <1>0, OwingStays
  <2> QED BY <2>1 DEF Resting
<1>2. Ready(g, ldap[g])
  <2>1. CASE seen[g].life = "none" /\ ~InAzure(g)
    <3>1. ldap[g].users \cap enabled = {} /\ seen[g].users = {}
      BY <2>1, NotInAzure DEF FreshInv, Lives, Nothing
    <3>2. ldap[g].id # 0 => azure[ldap[g].id].name \in {ldap[g].name, Gone}
      BY <2>1 DEF KeepInv, Renewed
    <3> QED BY <1>1, <3>1, <3>2 DEF Rest, Ready, Active
  <2>2. CASE Watched(seen[g]) = Watched(ldap[g]) /\ seen[g].life = "here"
    <3>1. seen[g].users = ldap[g].users
      BY <2>2 DEF Watched
    <3>2. ~Own
      BY <1>0 DEF Own
    <3> HIDE DEF Watched
    <3> QED BY <1>1, <2>2, <3>1, <3>2 DEF Rest, Ready, Midway
  <2>3. CASE ~InAzure(g) /\ ~ldap[g].alias
    <3>1. ldap[g].id = 0
      BY <2>3 DEF CacheInv, Aliased
    <3>2. ldap[g].users \cap enabled = {}
      BY <2>3, NotInAzure
    <3> QED BY <3>1, <3>2 DEF Ready, Active
  <2> HIDE DEF InAzure, Watched
  <2> QED BY <2>1, <2>2, <2>3 DEF Begun, Here
<1>3. Active' \subseteq Active
  BY <1>0 DEF Active, people, standing
<1>4. PICK e : e = ldap[g]
  OBVIOUS
<1>5. Ready(g, e)'
  BY <1>0, <1>2, <1>3, <1>4, ReadyKept DEF people, standing
<1> QED BY <1>0, <1>4, <1>5

LEMMA FollowingAdvance ==
  ASSUME IInv, IInv', CacheInv, KindInv, FreshInv, NameInv, KeepInv, MemberInv, [Next]_vars, Calm',
         busy, Advancing
  PROVE  Following'
<1> USE DEF MemberInv, UsersInv
<1>1. SUFFICES ASSUME Own', job'.item \notin Owing', job'.new.life = "here"
               PROVE  /\ \/ job'.pc \in {"convert", "done"}
                         \/ job'.then = "convert" /\ (job'.pc = "parents" \/ (job'.pc \in Creation /\ job'.target # job'.item))
                         => Ready(job.item, job.new)'
                      /\ Putting' /\ job'.item = job.item /\ job'.new = job.new
  <2> HIDE DEF Ready
  <2>1. Putting' => (job'.pc \in {"remove", "forget", "rename"} /\ ldap'[job'.item].id # 0 =>
        /\ azure'[job'.id].members \subseteq
             job'.new.users \cup (IF job'.pc = "remove" THEN job'.todo ELSE {})
        /\ job'.new.users \cap Active' \subseteq azure'[job'.id].members
        /\ job'.pc = "remove" => job'.new.users \cap job'.todo = {})
    BY DEF Putting
  <2> QED BY <1>1, <2>1 DEF Following
<1>2. /\ Onward /\ job.pc \in PC /\ job.then \in {"convert", "owners", "gather"} /\ job.item \in Group
      /\ Own /\ job'.item = job.item /\ job'.new = job.new
  <2>1. Onward /\ job.pc \in PC /\ job.then \in {"convert", "owners", "gather"} /\ job.item \in Group \cup User
    BY AdvancingStep, Fields DEF IInv
  <2>2. Own
    BY <1>1, <2>1 DEF Onward, Keeps, Own
  <2>3. job'.item = job.item /\ job'.new = job.new
    BY <2>1, <2>2 DEF Onward, Keeps, CacheInv, InHand, Own
  <2> QED BY <2>1, <2>2, <2>3 DEF Own
<1>3. PICK g \in Group : g = job.item
  BY <1>2
<1>4. g \in Owing => job.pc = "members" /\ job.target = g
  BY <1>1, <1>2, <1>3, OwingStays DEF AddMembers
<1>5. Putting'
  <2>1. CASE g \notin Owing
    BY <1>1, <1>2, <1>3, <2>1, ChangingOn
  <2>2. CASE g \in Owing
    <3>1. job'.pc = "parents"
      BY <1>2, <1>4, <2>2 DEF Onward, Flow
    <3> QED BY <3>1 DEF Putting
  <2> QED BY <2>1, <2>2
<1>6. ASSUME \/ job'.pc \in {"convert", "done"}
             \/ job'.then = "convert" /\ (job'.pc = "parents" \/ (job'.pc \in Creation /\ job'.target # job'.item))
      PROVE  Ready(job.item, job.new)'
  <2>1. \/ job.pc = "members" /\ job.target = job.item /\ job.then = "convert"
        \/ job.pc = "rename"
        \/ /\ job.then = "convert" \/ job.pc = "convert"
           /\ job.pc \in {"parents", "convert"} \/ (job.pc \in Creation /\ job.target # job.item)
    <3>1. CASE job.pc \in {"post", "write", "team", "members"}
      <4>1. job'.pc \in Creation /\ job'.then = job.then /\ job'.target = job.target
            /\ (job.pc = "members" \/ job'.pc # "parents")
        BY <1>2, <3>1 DEF Onward, Flow, Keeps, Creation
      <4>2. job.then = "convert"
        BY <1>6, <4>1 DEF Creation
      <4> QED BY <1>2, <1>6, <3>1, <4>1, <4>2 DEF Creation
    <3>2. CASE job.pc = "parents"
      <4>1. job'.then = job.then /\ job'.pc \in {"post", job.then}
        BY <1>2, <3>2 DEF Onward, Flow, Keeps
      <4> QED BY <1>2, <1>6, <3>2, <4>1
    <3>3. CASE job.pc = "get"
      BY <1>2, <1>6, <3>3 DEF Onward, Flow, Keeps, NameInv, AtGet
    <3>4. CASE job.pc \in {"revive", "owners", "disown", "teams", "gather", "remove", "forget"}
      BY <1>2, <1>6, <3>4 DEF Onward, Flow, Keeps, Creation
    <3>5. job.pc \notin Burial \cup {"join", "ignore", "done"}
      BY <1>1, <1>2 DEF KindInv, CacheInv, InHand, Own, Onward, Flow
    <3> QED BY <1>2, <3>1, <3>2, <3>3, <3>4, <3>5 DEF PC, Burial
  <2>2. CASE job.pc = "members" /\ job.target = job.item /\ job.then = "convert"
    <3>1. Ready(g, job.new)'
      BY <1>1, <1>2, <1>3, <2>2, CreatedReady
    <3> QED BY <1>2, <1>3, <3>1 DEF Ready
  <2>3. CASE job.pc = "rename"
    <3>1. Ready(g, job.new)'
      BY <1>1, <1>2, <1>3, <1>4, <2>3, RenamedReady
    <3> QED BY <1>2, <1>3, <3>1 DEF Ready
  <2>4. CASE /\ job.then = "convert" \/ job.pc = "convert"
             /\ job.pc \in {"parents", "convert"} \/ (job.pc \in Creation /\ job.target # job.item)
    <3>1. g \notin Owing
      BY <1>3, <1>4, <2>4
    <3>2. Ready(g, job.new)
      <4> HIDE DEF Ready
      <4> QED BY <1>1, <1>2, <1>3, <2>4, <3>1 DEF Following
    <3>3. Ready(g, job.new)'
      BY <1>1, <1>2, <1>3, <2>4, <3>2, OthersReady
    <3> QED BY <1>2, <1>3, <3>3 DEF Ready
  <2> QED BY <2>1, <2>2, <2>3, <2>4
<1> QED BY <1>2, <1>5, <1>6

LEMMA FollowingNext ==
  ASSUME IInv, IInv', CacheInv, KindInv, FreshInv, NameInv, KeepInv, MemberInv, [Next]_vars, Calm'
  PROVE  Following'
<1> USE DEF MemberInv, UsersInv
<1>1. CASE busy /\ Advancing
  BY <1>1, FollowingAdvance
<1>2. CASE Start
  <2>1. PICK g \in Group : Begun(g)
    BY <1>2, Starting
  <2>2. /\ job'.item = g /\ job'.new = ldap[g] /\ job'.target = g
        /\ job'.pc \in {"post", "get", "ignore", "done", "archive", "clear"}
    BY <2>1 DEF Begun
  <2>3. ASSUME g \notin Owing', ldap[g].life = "here", job'.pc = "done" PROVE Ready(g, ldap[g])'
    BY <1>2, <2>1, <2>3, StartedReady DEF Here
  <2>4. ldap' = ldap
    BY <2>1 DEF Begun, Still
  <2>5. Ready(g, ldap[g])' => Ready(job.item, job.new)'
    BY <2>2, <2>4 DEF Ready
  <2> QED BY <2>2, <2>3, <2>5 DEF Following
<1>3. CASE Enable
  BY <1>3, Enabling, GroupOrUser DEF Following, Own
<1>4. CASE busy /\ busy' /\ ~Advancing
  <2>1. SUFFICES ASSUME Own, job.item \notin Owing', job.new.life = "here"
                 PROVE  Following'
    BY <1>4, Aside DEF Following, Own
  <2>2. PICK g \in Group, e \in Entry : g = job.item /\ e = job.new
    BY <2>1, <1>4, Fields DEF Own, IInv
  <2>3. /\ job' = job /\ seen' = seen /\ NamesStay /\ MembersStay /\ job.item \notin Owing
        /\ UNCHANGED <<known, cleaned>> /\ enabled' \cap known \subseteq enabled
        /\ enabled \cup known \subseteq enabled' \cup known
        /\ ldap'[g] = ldap[g]
    BY <1>4, <2>1, <2>2, Aside
  <2>4. Active' \subseteq Active
    BY <2>3 DEF Active
  <2>5. \A i \in DOMAIN azure : azure'[i].members = azure[i].members /\ azure'[i].name = azure[i].name
    BY <2>3 DEF MembersStay, NamesStay
  <2>6. Ready(g, e) => Ready(g, e)'
    BY <2>3, <2>4, <2>5, IdsThere, ReadyKept
  <2>7. Ready(g, e)' => Ready(job.item, job.new)'
    BY <2>2, <2>3 DEF Ready
  <2>8. job.pc \in {"remove", "forget", "rename"} => job.id \in DOMAIN azure
    BY <1>4, Mine, Kept DEF Loose
  <2>9. Ready(g, e) <=> Ready(job.item, job.new)
    BY <2>2 DEF Ready
  <2> HIDE DEF Ready, Creation
  <2> QED BY <2>1, <2>2, <2>3, <2>4, <2>5, <2>6, <2>7, <2>8, <2>9 DEF Following, Own
<1> QED BY <1>1, <1>2, <1>3, <1>4, Elsewhere DEF Following, Own

\* A step that adds nobody who does not belong to the group.
LEMMA RestStays ==
  ASSUME NEW g \in Group, Rest(g), seen'[g] = seen[g], ldap'[g].id = ldap[g].id,
         ldap'[g].life = ldap[g].life, Watched(ldap'[g]) = Watched(ldap[g]),
         Active' \subseteq Active, g \in cleaned => g \in cleaned', Midway(g) => Midway(g)',
         LET i == ldap[g].id IN i # 0 =>
           /\ azure'[i].name \in {azure[i].name, Gone}
           /\ azure'[i].members \subseteq azure[i].members \cup seen[g].users \cup ldap[g].users
           /\ azure[i].members \cap Active' \subseteq azure'[i].members
           /\ seen[g].life = "gone" /\ azure[i].members = {} => azure'[i].members = {}
  PROVE  Rest(g)'
<1>1. ldap'[g].users = ldap[g].users /\ ldap'[g].name = ldap[g].name
  BY DEF Watched
<1> HIDE DEF Watched, Midway, Active
<1>2. CASE ldap[g].id = 0
  BY <1>1, <1>2 DEF Rest, Here
<1>3. CASE ldap[g].id # 0
  BY <1>1, <1>3 DEF Rest, Here
<1> QED BY <1>2, <1>3

\* Of two groups that owe nothing, one's objectId is not the other's.
LEMMA RestHolds ==
  ASSUME IInv, NEW g \in Group, g \notin Owing, ldap[g].id # 0
  PROVE  ldap[g].id \in Holds(g) /\ ldap[g].id \in DOMAIN azure
<1>1. ~Excused(g)
  BY DEF Excused, Owing, Debtors, Cause
<1> HIDE DEF Excused
<1> QED BY <1>1, IdsThere DEF Holds

\* Nobody but the call's group has the objectId it works on.
LEMMA RestOwn ==
  ASSUME IInv, CacheInv, KindInv, HeldOnce, Own, job.new.life = "here" \/ job.pc \in Burial, job.id # 0,
         NEW g \in Group, g \notin Owing, ldap[g].id = job.id
  PROVE  g = job.item
<1>1. job.item \in Group /\ job.id \in Holds(job.item)
  BY Holding DEF Own
<1>2. job.id \in Holds(g)
  BY RestHolds
<1> QED BY <1>1, <1>2 DEF HeldOnce

\* The steps of anybody but the listener.
LEMMA RestingOutside ==
  ASSUME IInv, IInv', CacheInv, KindInv, FreshInv, NameInv, KeepInv, MemberInv, [Next]_vars, Calm',
         NEW g \in Group, g \notin Owing', g \notin Owing,
         \/ \E h \in Group, e \in Entry : Edit(h, e)
         \/ \E u \in User : Switch(u)
         \/ Purge \/ Clean \/ RunJob \/ Crash \/ UNCHANGED vars
  PROVE  Rest(g)'
<1> USE DEF MemberInv, UsersInv
<1>0. Rest(g) /\ (ldap[g].id # 0 => ldap[g].id \in DOMAIN azure)
  BY IdsThere DEF Resting
<1>a. ASSUME job' = job PROVE Midway(g) => Midway(g)'
  BY <1>a DEF Midway, Own, busy
<1>1. CASE \E h \in Group, e \in Entry : Edit(h, e)
  <2>1. PICK h \in Group, e \in Entry : Edit(h, e)
    BY <1>1
  <2>2. /\ h \notin Range(queue) /\ seen[h] = ldap[h] /\ ldap'[h] = e
        /\ \A k \in Group : k # h => ldap'[k] = ldap[k]
        /\ UNCHANGED <<seen, known, azure, job, enabled, cleaned>>
    BY <2>1, CalmPut DEF CacheInv, Settled
  <2>3. Active' = Active
    BY <2>2 DEF Active
  <2>4. CASE g # h
    BY <1>0, <1>a, <2>2, <2>3, <2>4, RestStays
  <2>5. CASE g = h
    <3>1. CASE ldap[g].life = "none"
      <4>1. e.id = 0 /\ seen[g].users = {} /\ seen[g].life = "none"
        BY <2>1, <2>2, <2>5, <3>1 DEF Edit, FreshInv, Lives, Nothing, Here
      <4> QED BY <2>2, <2>5, <4>1 DEF Rest
    <3>2. CASE Here(g)
      <4>1. e.id = ldap[g].id /\ seen[g] = ldap[g]
        BY <2>1, <2>2, <2>5, <3>2 DEF Edit, Here
      <4>2. Watched(seen[g]) = Watched(e) => e.name = ldap[g].name
        BY <4>1 DEF Watched
      <4>3. Midway(g) => Midway(g)'
        BY <1>a, <2>2
      <4> HIDE DEF Watched, Midway, Active
      <4> QED BY <1>0, <2>2, <2>3, <2>5, <3>2, <4>1, <4>2, <4>3 DEF Rest, Here
    <3>3. ldap[g].life \in {"none", "here"}
      BY <2>1, <2>5 DEF Edit, Here
    <3> QED BY <3>1, <3>2, <3>3 DEF Here
  <2> QED BY <2>4, <2>5
<1>2. CASE \E u \in User : Switch(u)
  <2>1. PICK u \in User : Switch(u)
    BY <1>2
  <2>2. /\ UNCHANGED <<ldap, seen, known, azure, job, cleaned>> /\ (u \in enabled <=> u \in known)
        /\ enabled' \in {enabled \cup {u}, enabled \ {u}}
    BY <2>1 DEF Switch, Change, Calm, UserSteps
  <2>3. Active' \subseteq Active
    BY <2>2 DEF Active
  <2> QED BY <1>0, <1>a, <2>2, <2>3, RestStays
<1>3. CASE Purge \/ RunJob \/ UNCHANGED vars
  <2>1. UNCHANGED <<ldap, seen, known, enabled, job, cleaned>>
    BY <1>3 DEF Purge, RunJob, vars, people, standing, outside
  <2>2. \A i \in DOMAIN azure : azure'[i].name \in {azure[i].name, Gone} /\ azure'[i].members = azure[i].members
    <3>1. CASE Purge
      <4>1. PICK j \in DOMAIN azure : azure' = [azure EXCEPT ![j].name = Gone]
        BY <3>1 DEF Purge
      <4>2. \A i \in DOMAIN azure : azure[i] \in AzureGroup
        BY Kept
      <4>3. \A i \in DOMAIN azure : azure'[i] = IF i = j THEN [azure[i] EXCEPT !.name = Gone] ELSE azure[i]
        BY <4>1, Kept
      <4> QED BY <4>2, <4>3 DEF AzureGroup
    <3>2. CASE RunJob
      BY <3>2, RunJobNames, MembersRunJob DEF NamesStay, MembersStay
    <3>3. CASE azure' = azure
      BY <3>3
    <3> QED BY <1>3, <3>1, <3>2, <3>3 DEF vars
  <2>3. Active' = Active
    BY <2>1 DEF Active
  <2> QED BY <1>0, <1>a, <2>1, <2>2, <2>3, RestStays
<1>4. CASE Clean
  <2>1. /\ UNCHANGED <<ldap, seen, known, enabled, job>>
        /\ azure' = [i \in DOMAIN azure |-> [azure[i] EXCEPT !.name = IF @ = Gone THEN Gone ELSE Renamed]]
        /\ cleaned' = {h \in Group : Here(h) /\ ldap[h].id # 0}
    BY <1>4 DEF Clean, people, standing
  <2>2. \A i \in DOMAIN azure : azure[i] \in AzureGroup
    BY Kept
  <2>3. \A i \in DOMAIN azure : /\ azure'[i].name = (IF azure[i].name = Gone THEN Gone ELSE Renamed)
                                /\ azure'[i].members = azure[i].members
    BY <2>1, <2>2 DEF AzureGroup
  <2>4. Active' = Active /\ (Midway(g) => Midway(g)')
    BY <1>a, <2>1 DEF Active
  <2> HIDE DEF Watched, Midway, Active
  <2> QED BY <1>0, <2>1, <2>3, <2>4 DEF Rest, Here
<1>5. CASE Crash
  <2>1. UNCHANGED <<ldap, seen, known, enabled, azure, cleaned>> /\ busy
    BY <1>5 DEF Crash, people, standing
  <2>2. Active' = Active
    BY <2>1 DEF Active
  <2>3. ~Midway(g)
    <3>1. SUFFICES ASSUME Midway(g) PROVE FALSE
      OBVIOUS
    <3>2. job.new.life = "here"
      BY <3>1 DEF Midway, KindInv, Burial, Own
    <3>3. job.old.life = "here" /\ job.pc \in {"team", "members"} /\ job.target = g
      BY <3>1, <3>2 DEF Midway, KindInv, Own
    <3>4. <<g, "killed">> \in owed'
      BY <1>5, <3>3 DEF Crash
    <3> QED BY <3>4 DEF Owing, Debtors, Cause
  <2> QED BY <1>0, <2>1, <2>2, <2>3, RestStays
<1> QED BY <1>1, <1>2, <1>3, <1>4, <1>5

\* A call begins, or there is none.
LEMMA RestingBegins ==
  ASSUME IInv, IInv', CacheInv, KindInv, FreshInv, NameInv, KeepInv, MemberInv, [Next]_vars, Calm',
         NEW g \in Group, g \notin Owing, Start \/ Enable \/ Disable \/ Ignored
  PROVE  Rest(g)'
<1> USE DEF MemberInv, UsersInv
<1>0. Rest(g) /\ (ldap[g].id # 0 => ldap[g].id \in DOMAIN azure)
  BY IdsThere DEF Resting
<1>1. UNCHANGED <<ldap, seen, enabled, cleaned>> /\ ~busy
  BY Zenon DEF Start, Enable, Disable, Ignored, outside, people, standing
<1>2. ~Midway(g)
  BY <1>1 DEF Midway, Own
<1>3. CASE Start \/ Enable \/ Ignored
  <2>1. UNCHANGED <<known, azure>>
    BY <1>3, Zenon DEF Start, Enable, Ignored, people, standing
  <2>2. Active' = Active
    BY <1>1, <2>1 DEF Active
  <2> QED BY <1>0, <1>1, <1>2, <2>1, <2>2, RestStays
<1>4. CASE Disable
  <2>1. /\ queue[1] \notin enabled /\ known' = known \ {queue[1]}
        /\ azure' = [i \in DOMAIN azure |-> [azure[i] EXCEPT !.members = @ \ {queue[1]}]]
    BY <1>4 DEF Disable
  <2>2. \A i \in DOMAIN azure : azure[i] \in AzureGroup
    BY Kept
  <2>3. \A i \in DOMAIN azure : azure'[i].members = azure[i].members \ {queue[1]} /\ azure'[i].name = azure[i].name
    BY <2>1, <2>2 DEF AzureGroup
  <2>4. Active' = Active /\ queue[1] \notin Active
    BY <1>1, <2>1 DEF Active
  <2> QED BY <1>0, <1>1, <1>2, <2>3, <2>4, RestStays
<1> QED BY <1>3, <1>4

\* Where a call for a group raises, something is owed to that group; where a
\* call for a user does, to all it has not been to.
LEMMA EndedOwes ==
  ASSUME IInv, CacheInv, KindInv, MemberInv, [Next]_vars, Ended, NEW g \in Group, g \notin Owing'
  PROVE  /\ g \notin Owing
         /\ Own /\ g = job.item => job.pc = "done"
         /\ job.item \in User => /\ g \notin job.todo
                                 /\ job.pc \in {"post", "write"} /\ job.target = g => ~Here(g)
                                 /\ job.pc \in {"team", "members"} => job.target # g
<1>0. busy /\ job.todo \subseteq Group \cup User
  BY Fields DEF Ended, IInv
<1>1. g \notin Owing
  <2>1. ~AddMembers
    <3>1. SUFFICES ASSUME AddMembers PROVE FALSE
      OBVIOUS
    <3>2. job.pc = "members" /\ job'.pc = "parents"
      BY <1>0, <3>1, Fields DEF AddMembers, Goto, Job, IInv
    <3> QED BY <3>2 DEF Ended, Return, Idle
  <2> QED BY <2>1, OwingStays
<1>2. ASSUME NEW c \in Cause \ {"team"} PROVE <<g, c>> \notin owed'
  BY <1>2 DEF Owing, Debtors
<1>3. CASE Finish
  <2>1. job.pc = "done"
    BY <1>3 DEF Finish
  <2>2. job.item \in User => job.todo = {}
    BY <1>0, <2>1 DEF MemberInv, UsersInv, UserSteps
  <2> QED BY <1>1, <2>1, <2>2
<1>4. CASE WriteGone \/ JoinGone
  <2>1. g \notin {job.group} \cup (job.todo \cap Group)
    <3>1. <<g, "gone">> \notin Left("gone")
      BY <1>2, <1>4 DEF WriteGone, JoinGone, Raise, Cause
    <3> QED BY <3>1 DEF Left
  <2>2. Own => job.group = job.item
    BY <1>0 DEF CacheInv, InHand, Own
  <2>3. job.pc \in {"write", "join"} /\ (job.pc = "write" => ~Here(job.target))
    BY <1>4 DEF WriteGone, JoinGone
  <2> QED BY <1>1, <2>1, <2>2, <2>3
<1>5. CASE NestedUnknown
  <2>1. g \notin {job.group} \cup (job.todo \cap Group) /\ g # job.target
    <3>1. <<g, "nested">> \notin Left("nested") \cup {<<job.target, "nested">>}
      BY <1>2, <1>5 DEF NestedUnknown, Raise, Cause
    <3> QED BY <3>1 DEF Left
  <2>2. Own => job.group = job.item
    BY <1>0 DEF CacheInv, InHand, Own
  <2>3. job.pc = "members"
    BY <1>5 DEF NestedUnknown
  <2> QED BY <1>1, <2>1, <2>2, <2>3
<1>6. CASE GatherUnknown \/ RemoveStranger \/ ForgetNothing \/ ArchiveNothing \/ Ignore
  <2>1. job.pc \in {"gather", "remove", "forget", "archive", "ignore"}
    BY <1>6 DEF GatherUnknown, RemoveStranger, ForgetNothing, ArchiveNothing, Ignore
  <2>2. Own /\ job.group = job.item
    BY <1>0, <2>1, OwnCall DEF CacheInv, InHand, Own, Creation
  <2>3. job.group # g
    BY <1>2, <1>6 DEF GatherUnknown, RemoveStranger, ForgetNothing, ArchiveNothing, Ignore, Raise, Cause
  <2> QED BY <1>1, <2>2, <2>3, GroupOrUser DEF Own
<1> QED BY <1>3, <1>4, <1>5, <1>6 DEF Ended, Raising

LEMMA RestingEnds ==
  ASSUME IInv, IInv', CacheInv, KindInv, FreshInv, NameInv, KeepInv, MemberInv, [Next]_vars, Calm',
         Ended, NEW g \in Group, g \notin Owing'
  PROVE  Rest(g)'
<1> USE DEF MemberInv, UsersInv
<1>0. /\ busy /\ azure' = azure /\ enabled' = enabled /\ cleaned' = cleaned /\ g \notin Owing
      /\ ldap'[g].id = ldap[g].id /\ ldap'[g].life = ldap[g].life /\ Watched(ldap'[g]) = Watched(ldap[g])
      /\ job.item \in Group \cup User /\ ~busy' /\ Rest(g)
      /\ seen' = (IF job.item \in Group THEN [seen EXCEPT ![job.item] = job.new] ELSE seen)
      /\ known' = (IF job.item \in User THEN known \cup {job.item} ELSE known)
  BY EndedOwes, Fields DEF Ended, Return, busy, outside, Resting, IInv
<1>1. CASE job.item # g /\ job.item \in Group
  <2>1. seen'[g] = seen[g] /\ known' = known
    BY <1>0, <1>1, Kept, GroupOrUser
  <2>2. Active' = Active /\ ~Midway(g)
    BY <1>0, <1>1, <2>1 DEF Active, Midway
  <2> QED BY <1>0, <2>1, <2>2, RestStays
<1>2. CASE job.item = g
  <2>1. Own /\ seen'[g] = job.new /\ known' = known /\ job.pc = "done"
    BY <1>0, <1>2, Kept, GroupOrUser, EndedOwes DEF Own
  <2>2. Active' = Active
    BY <1>0, <2>1 DEF Active
  <2>3. Watched(job.new) = Watched(ldap[g]) /\ job.new.life = ldap[g].life /\ (job.new.life = "gone" => job.new.id = ldap[g].id)
    BY <1>2, <2>1 DEF FreshInv, Fresh
  <2>4. CASE job.new.life = "here"
    <3>1. PICK e : e = job.new
      OBVIOUS
    <3>2. Ready(g, e)
      BY <1>0, <1>2, <2>1, <2>4, <3>1 DEF Following
    <3>3. e.users = ldap'[g].users /\ e.name = ldap'[g].name
      BY <1>0, <2>3, <3>1 DEF Watched
    <3> QED BY <1>0, <2>1, <2>2, <2>4, <3>1, <3>2, <3>3 DEF Ready, Rest
  <2>5. CASE job.new.life = "gone"
    <3>1. job.id = ldap[g].id
      BY <1>2, <2>1, <2>3, <2>5 DEF FreshInv, Lives, KindInv, CacheInv, InHand, Own
    <3>2. job.id # 0 => azure[job.id].name = Gone \/ (azure[job.id].name = Renamed /\ azure[job.id].members = {})
      BY <1>0, <1>2, <2>1, <2>5 DEF Clearing
    <3> QED BY <1>0, <2>1, <2>3, <2>5, <3>1, <3>2 DEF Rest, Here
  <2> QED BY <2>1, <2>4, <2>5 DEF KindInv
<1>3. CASE job.item \in User
  <2>1. seen' = seen /\ known' = known \cup {job.item} /\ job.item \in enabled
    BY <1>0, <1>3, GroupOrUser DEF UserSteps
  <2>2. Active' = Active \cup {job.item}
    BY <1>0, <2>1 DEF Active
  <2>3. /\ ~Midway(g) /\ g \notin job.todo
        /\ job.pc \in {"post", "write"} /\ job.target = g => ~Here(g)
        /\ job.pc \in {"team", "members"} => job.target # g
    BY <1>3, EndedOwes, GroupOrUser DEF Midway, Own
  <2>4. Here(g) /\ job.item \in seen[g].users \cap ldap[g].users =>
          /\ ldap[g].id # 0
          /\ azure[ldap[g].id].name # Gone => job.item \in azure[ldap[g].id].members
    BY <1>0, <1>3, <2>3 DEF Joins
  <2>5. ldap'[g].users = ldap[g].users /\ ldap'[g].name = ldap[g].name
    BY <1>0 DEF Watched
  <2> HIDE DEF Watched, Midway, Active
  <2> QED BY <1>0, <2>1, <2>2, <2>3, <2>4, <2>5 DEF Rest, Here
<1> QED BY <1>0, <1>1, <1>2, <1>3

LEMMA MidwayOn ==
  ASSUME IInv, IInv', CacheInv, busy, Advancing, NEW g \in Group, Midway(g)
  PROVE  job.pc = "members" \/ Midway(g)'
<1>1. Onward
  BY AdvancingStep
<1>2. CASE job.pc = "team"
  <2>1. job'.pc = "members" /\ job'.item = job.item /\ job'.target = job.target /\ job'.then = job.then
    BY <1>1, <1>2 DEF Onward, Flow, Keeps
  <2> QED BY <1>1, <2>1 DEF Midway, Own, Onward
<1> QED BY <1>2 DEF Midway

\* A step of a call that does nothing to the group.
LEMMA RestAlone ==
  ASSUME IInv, IInv', CacheInv, MemberInv, busy, Advancing, NEW g \in Group, g \notin Owing,
         ldap'[g].id = ldap[g].id, g \in cleaned => g \in cleaned', job.pc # "members" \/ job.target # g,
         ldap[g].id # 0 =>
           azure'[ldap[g].id].name = azure[ldap[g].id].name /\ azure'[ldap[g].id].members = azure[ldap[g].id].members
  PROVE  Rest(g)'
<1>1. Rest(g)
  BY DEF MemberInv, Resting
<1>2. seen'[g] = seen[g] /\ ldap'[g].life = ldap[g].life /\ Watched(ldap'[g]) = Watched(ldap[g])
  BY EntriesStay
<1>3. Active' = Active /\ enabled' = enabled
  BY PeopleStay DEF Active, people, standing
<1>4. Midway(g) => Midway(g)'
  BY MidwayOn DEF Midway
<1> QED BY <1>1, <1>2, <1>3, <1>4, RestStays

\* A step of a call that only adds members who belong to the group.
LEMMA RestGrows ==
  ASSUME IInv, IInv', CacheInv, MemberInv, busy, Advancing, NEW g \in Group, g \notin Owing,
         ldap' = ldap, cleaned' = cleaned, NamesStay, NEW U, U \subseteq seen[g].users \cup ldap[g].users,
         MembersBut(ldap[g].id, azure[ldap[g].id].members \cup U), seen[g].life # "gone",
         job.pc # "members"
  PROVE  Rest(g)'
<1>1. Rest(g)
  BY DEF MemberInv, Resting
<1>2. seen'[g] = seen[g] /\ ldap'[g].life = ldap[g].life /\ Watched(ldap'[g]) = Watched(ldap[g])
  BY EntriesStay
<1>3. Active' = Active /\ enabled' = enabled
  BY PeopleStay DEF Active, people, standing
<1>4. Midway(g) => Midway(g)'
  BY MidwayOn
<1>5. /\ azure'[ldap[g].id].members = azure[ldap[g].id].members \cup U
      /\ azure'[ldap[g].id].name = azure[ldap[g].id].name
  BY DEF MembersBut, NamesStay
<1> QED BY <1>1, <1>2, <1>3, <1>4, <1>5, RestStays

\* The steps that touch no entry and no group in Azure, and the create.
LEMMA RestingStill ==
  ASSUME IInv, IInv', CacheInv, KindInv, FreshInv, NameInv, KeepInv, MemberInv, [Next]_vars, Calm',
         busy, Advancing, NEW g \in Group, g \notin Owing', g \notin Owing,
         NamesStay, MembersStay, job.pc \notin {"write", "forget", "members", "revive"}
  PROVE  Rest(g)'
<1>1. ldap' = ldap /\ cleaned' = cleaned
  BY StillUnless, PeopleStay DEF Still
<1>2. ldap[g].id # 0 => ldap[g].id \in DOMAIN azure
  BY IdsThere
<1> QED BY <1>1, <1>2, RestAlone DEF NamesStay, MembersStay

LEMMA RestingWrite ==
  ASSUME IInv, IInv', CacheInv, KindInv, FreshInv, NameInv, KeepInv, MemberInv, [Next]_vars, Calm',
         busy, Advancing, NEW g \in Group, g \notin Owing', g \notin Owing, job.pc = "write"
  PROVE  Rest(g)'
<1>0. /\ azure' = azure /\ cleaned' = cleaned /\ job.made # 0 /\ job'.pc = "team" /\ job'.target = job.target
      /\ job'.then = job.then /\ job'.item = job.item /\ busy' /\ job.target \in Group /\ job.cur \in Entry
      /\ UNCHANGED standing
  <2>1. azure' = azure
    BY GoesOnFrom DEF Write
  <2> QED BY <2>1, AdvancingStep, PeopleStay, Mine, Fields DEF Onward, Flow, Keeps, IInv
<1>1. CASE ldap'[g].id = ldap[g].id
  BY <1>0, <1>1, RestAlone
<1>2. CASE ldap'[g].id # ldap[g].id
  <2>1. g = job.target /\ ldap'[g].id = job.made /\ job.cur.id # job.made
    BY <1>0, <1>2, GoesOnFrom, WriteData, Gives DEF Still
  <2>2. azure[job.made].members = {}
    BY <2>1 DEF MemberInv, Filling
  <2>3. /\ seen[g].life # "gone" /\ ldap[g].id = job.cur.id /\ azure[job.made].name = job.cur.name
        /\ job.target # job.item => job.cur.id = 0
        /\ Own /\ job.target = job.item => job.then # "gather"
    BY <2>1 DEF NameInv, AtPost, Creation
  <2>4. seen' = seen /\ Watched(ldap'[g]) = Watched(ldap[g]) /\ ldap'[g].life = ldap[g].life
    BY EntriesStay
  <2>5. Watched(seen[g]) = Watched(ldap[g]) => job.cur.name = ldap[g].name
    BY <2>1 DEF MemberInv, Filling, Watched
  <2>6. Here(g) => seen[g].users \cap ldap[g].users \cap Active = {} \/ Midway(g)'
    <3>1. CASE job.target # job.item
      <4>1. Rest(g)
        BY DEF MemberInv, Resting
      <4> QED BY <2>3, <3>1, <4>1 DEF Rest
    <3>2. CASE Own /\ job.target = job.item
      <4>1. CASE job.then = "convert"
        <5>1. seen[g].life = "none"
          BY <2>1, <3>2, <4>1 DEF KindInv, CacheInv, InHand, Burial, Own
        <5> QED BY <5>1 DEF FreshInv, Lives, Nothing
      <4>2. CASE job.then = "owners"
        BY <1>0, <2>1, <3>2, <4>2 DEF Midway, Own
      <4> QED BY <2>3, <3>2, <4>1, <4>2, Fields DEF IInv
    <3> QED BY <1>0, <3>1, <3>2 DEF Own
  <2>7. Active' = Active /\ enabled' = enabled
    BY <1>0 DEF Active, people, standing
  <2>8. ldap'[g].users = ldap[g].users /\ ldap'[g].name = ldap[g].name
    BY <2>4 DEF Watched
  <2> HIDE DEF Watched, Midway, Active
  <2> QED BY <1>0, <2>1, <2>2, <2>3, <2>4, <2>5, <2>6, <2>7, <2>8 DEF Rest, Here
<1> QED BY <1>1, <1>2

\* The members of the group that was created.
LEMMA RestingFilled ==
  ASSUME IInv, IInv', CacheInv, KindInv, FreshInv, NameInv, KeepInv, MemberInv, [Next]_vars, Calm',
         busy, Advancing, NEW g \in Group, g \notin Owing', job.pc \in {"team", "members"}
  PROVE  Rest(g)'
<1>0. /\ ldap' = ldap /\ cleaned' = cleaned /\ NamesStay /\ job.made # 0 /\ job.target \in Group
      /\ UNCHANGED standing /\ job.made = ldap[job.target].id /\ job.cur \in Entry
      /\ seen[job.target].life # "gone"
      /\ azure[job.made].name = job.cur.name /\ job.adding \subseteq job.cur.users
      /\ job.cur.users \cap Active \subseteq job.adding \cup azure[job.made].members
      /\ Watched(job.cur) \in {Watched(ldap[job.target]), Watched(seen[job.target])}
  <2>1. ldap' = ldap /\ NamesStay
    BY StillUnless, NamesAdvance DEF Still, Renames
  <2>2. UNCHANGED standing /\ cleaned' = cleaned
    BY PeopleStay
  <2>3. job.made # 0 /\ job.target \in Group /\ job.cur \in Entry /\ job.made = ldap[job.target].id
    BY Mine, Fields DEF IInv, KeepInv, Made
  <2>4. seen[job.target].life # "gone"
    BY DEF NameInv, AtPost, Creation
  <2> QED BY <2>1, <2>2, <2>3, <2>4 DEF MemberInv, Filling
<1>1. PICK U \in SUBSET job.adding :
        /\ MembersBut(job.made, azure[job.made].members \cup U)
        /\ job.pc = "members" => U = job.adding
  <2>1. CASE job.pc = "team"
    <3>1. PICK R \in SUBSET job.adding : MembersBut(job.made, azure[job.made].members \cup (job.adding \ R))
      BY <2>1, MembersAdvance
    <3> QED BY <2>1, <3>1
  <2>2. CASE job.pc = "members"
    BY <2>2, MembersAdvance
  <2> QED BY <2>1, <2>2
<1>2. CASE g # job.target
  <2>1. g \notin Owing
    BY <1>2, OwingStays
  <2>2. ldap[g].id # 0 => ldap[g].id # job.made /\ ldap[g].id \in DOMAIN azure
    <3>1. SUFFICES ASSUME ldap[g].id # 0 PROVE ldap[g].id # job.made /\ ldap[g].id \in DOMAIN azure
      OBVIOUS
    <3>2. ldap[g].id \in Holds(g) /\ ldap[g].id \in DOMAIN azure
      BY <2>1, <3>1, RestHolds
    <3>3. job.made \in Holds(job.target)
      <4>1. ~Excused(job.target)
        BY <1>0 DEF Excused
      <4> HIDE DEF Excused
      <4> QED BY <1>0, <4>1 DEF Holds
    <3> QED BY <1>0, <1>2, <3>2, <3>3 DEF NameInv, HeldOnce
  <2> QED BY <1>0, <1>1, <1>2, <2>1, <2>2, RestAlone DEF MembersBut, NamesStay
<1>3. CASE g = job.target /\ job.pc = "team"
  <2>1. g \notin Owing
    BY <1>3, OwingStays DEF AddMembers
  <2>2. U \subseteq seen[g].users \cup ldap[g].users
    BY <1>0, <1>1, <1>3 DEF Watched
  <2> QED BY <1>0, <1>1, <1>3, <2>1, <2>2, RestGrows
<1>4. CASE g = job.target /\ job.pc = "members"
  <2>1. job.made \in DOMAIN azure
    BY CallIds
  <2>2. /\ azure'[job.made].members = azure[job.made].members \cup job.adding
        /\ azure'[job.made].name = job.cur.name
    BY <1>0, <1>1, <1>4, <2>1 DEF MembersBut, NamesStay
  <2>3. Here(g) /\ job.cur.name # Gone => azure[job.made].members \subseteq seen[g].users \cup ldap[g].users
    <3>1. CASE g \notin Owing
      BY <1>0, <1>4, <3>1 DEF MemberInv, Resting, Rest
    <3>2. CASE g \in Owing
      BY <3>2, OwingStays
    <3> QED BY <3>1, <3>2
  <2>4. /\ job.adding \subseteq seen[g].users \cup ldap[g].users
        /\ seen[g].users \cap ldap[g].users \cap Active \subseteq azure'[job.made].members
        /\ Watched(seen[g]) = Watched(ldap[g]) => job.cur.name = ldap[g].name
    BY <1>0, <1>4, <2>2 DEF Watched
  <2>5. Active' = Active /\ enabled' = enabled /\ seen' = seen
    BY <1>0, EntriesStay DEF Active, people, standing
  <2> HIDE DEF Watched, Midway, Active
  <2> QED BY <1>0, <1>4, <2>2, <2>3, <2>4, <2>5 DEF Rest, Here
<1> QED BY <1>2, <1>3, <1>4

\* What a call does to the group it is for, it does to no other.
LEMMA RestingOthers ==
  ASSUME IInv, IInv', CacheInv, KindInv, FreshInv, NameInv, KeepInv, MemberInv, [Next]_vars, Calm',
         busy, Advancing, NEW g \in Group, g \notin Owing, g # job.item,
         job.pc \in {"revive", "gather", "remove", "forget", "rename", "clear", "bury"}
  PROVE  Rest(g)'
<1>0. Own /\ job.group = job.item /\ (job.new.life = "here" \/ job.pc \in Burial) /\ job.id \in DOMAIN azure /\ job.id # 0
  <2>1. Own
    BY OwnCall DEF Creation
  <2>2. job.id \in 1 .. Len(azure) /\ azure \in Seq(AzureGroup)
    BY Mine, Kept DEF Loose
  <2>3. job.new.life = "here" \/ job.pc \in Burial
    BY <2>1 DEF KindInv, Burial
  <2> QED BY <2>1, <2>2, <2>3 DEF CacheInv, InHand, Own
<1>1. ldap'[g].id = ldap[g].id
  <2>1. CASE job.pc = "forget"
    BY <1>0, <2>1, GoesOnFrom, ForgetData, Gives DEF Own
  <2>2. CASE job.pc # "forget"
    BY <2>2, StillUnless DEF Still
  <2> QED BY <2>1, <2>2
<1>2. g \in cleaned => g \in cleaned'
  BY <1>0, PeopleStay, GoesOnFrom DEF Revive
<1>3. ldap[g].id # 0 => ldap[g].id # job.id /\ ldap[g].id \in DOMAIN azure
  BY <1>0, RestOwn, IdsThere DEF NameInv
<1>4. \A i \in DOMAIN azure \ {job.id} : azure'[i].name = azure[i].name
  BY NamesAdvance DEF NamesStay, Renames, NamesBut
<1>5. \A i \in DOMAIN azure \ {job.id} : azure'[i].members = azure[i].members
  <2>1. MembersStay \/ \E U : MembersBut(job.id, U)
    BY MembersAdvance
  <2> QED BY <2>1 DEF MembersStay, MembersBut
<1> QED BY <1>1, <1>2, <1>3, <1>4, <1>5, RestAlone

\* It gives its group a name, or takes the objectId away.
LEMMA RestingNamed ==
  ASSUME IInv, IInv', CacheInv, KindInv, FreshInv, NameInv, KeepInv, MemberInv, [Next]_vars, Calm',
         Own, Advancing, NEW g \in Group, g \notin Owing, g = job.item,
         job.pc \in {"revive", "forget", "rename"} \/ (job.pc = "remove" /\ job'.pc # "remove")
  PROVE  Rest(g)'
<1>0. /\ busy /\ MembersStay /\ UNCHANGED standing /\ seen' = seen /\ Rest(g)
      /\ Watched(ldap'[g]) = Watched(ldap[g]) /\ ldap'[g].life = ldap[g].life
      /\ job.id \in DOMAIN azure /\ azure[job.id].name # Gone /\ ldap[g].id \in {0, job.id} /\ Here(g)
      /\ seen[g].life = "here" /\ Watched(seen[g]) # Watched(ldap[g])
  <2>1. busy
    BY DEF Own
  <2>2. MembersStay
    BY <2>1, MembersAdvance
  <2>3. UNCHANGED standing /\ seen' = seen /\ Watched(ldap'[g]) = Watched(ldap[g]) /\ ldap'[g].life = ldap[g].life
    BY <2>1, PeopleStay, EntriesStay
  <2>4. job.id \in DOMAIN azure /\ azure[job.id].name # Gone /\ ldap[g].id \in {0, job.id}
    BY <2>1, CallIds DEF NameInv, AfterWrite, Changing
  <2>5. job.new.life = "here" /\ job.then # "convert" /\ job.old.life = "here"
    BY DEF KindInv, Burial, Creation
  <2>6. Watched(job.old) # Watched(job.new)
    BY <2>5 DEF MemberInv, UsersInv, Changed
  <2>7. job.old = seen[g] /\ Watched(job.new) = Watched(ldap[g]) /\ job.new.life = ldap[g].life
    BY <2>1 DEF CacheInv, InHand, FreshInv, Fresh, Own
  <2> HIDE DEF Watched
  <2> QED BY <2>1, <2>2, <2>3, <2>4, <2>5, <2>6, <2>7 DEF MemberInv, Resting, Here
<1>1. Active' = Active /\ enabled' = enabled
  BY <1>0 DEF Active, people, standing
<1>2. ~Midway(g)
  BY DEF Midway
<1>3. ldap'[g].users = ldap[g].users
  BY <1>0 DEF Watched
<1>4. CASE ldap'[g].id = ldap[g].id
  <2> HIDE DEF Watched, Midway, Active
  <2> QED BY <1>0, <1>1, <1>2, <1>3, <1>4 DEF Rest, Here, MembersStay
<1>5. CASE ldap'[g].id # ldap[g].id
  <2>1. job.pc = "forget" /\ ldap'[g].id = 0
    <3>1. job.pc = "forget"
      BY <1>0, <1>5, StillUnless DEF Still
    <3>2. Given(g, 0)
      BY <1>0, <3>1, GoesOnFrom, ForgetData DEF CacheInv, InHand, Own
    <3> QED BY <3>1, <3>2, Gives
  <2>2. azure[job.id].members = {} /\ ldap[g].id = job.id /\ job.id # 0
    BY <1>0, <1>5, <2>1 DEF KeepInv, Emptying, NameInv, AfterWrite, Changing
  <2>3. seen[g].users \cap ldap[g].users \cap Active = {}
    BY <1>0, <1>2, <2>2 DEF Rest
  <2> HIDE DEF Watched, Midway, Active
  <2> QED BY <1>0, <1>1, <1>3, <2>1, <2>3 DEF Rest, Here
<1> QED BY <1>4, <1>5

\* It adds and removes the members of its group.
LEMMA RestingMembers ==
  ASSUME IInv, IInv', CacheInv, KindInv, FreshInv, NameInv, KeepInv, MemberInv, [Next]_vars, Calm',
         Own, Advancing, NEW g \in Group, g \notin Owing, g = job.item,
         job.pc \in {"gather", "remove"} /\ job'.pc = "remove"
  PROVE  Rest(g)'
<1>0. /\ busy /\ UNCHANGED standing /\ cleaned' = cleaned /\ ldap' = ldap /\ NamesStay /\ seen[g].life = "here"
      /\ job.id \in DOMAIN azure /\ ldap[g].id \in {0, job.id} /\ job.id # 0
      /\ ldap[g].users = job.new.users /\ seen[g].users = job.old.users /\ seen' = seen
  <2>1. busy
    BY DEF Own
  <2>2. UNCHANGED standing /\ cleaned' = cleaned /\ ldap' = ldap /\ seen' = seen
    BY <2>1, PeopleStay, StillUnless DEF Still
  <2>3. NamesStay
    BY <2>1, NamesAdvance DEF Renames
  <2>4. job.id \in DOMAIN azure /\ ldap[g].id \in {0, job.id} /\ job.id # 0
    BY <2>1, CallIds DEF NameInv, AfterWrite, Changing
  <2>5. job.new.life = "here" /\ job.then # "convert" /\ job.old.life = "here"
    BY DEF KindInv, Burial, Creation
  <2>6. job.old = seen[g] /\ Watched(job.new) = Watched(ldap[g])
    BY <2>1 DEF CacheInv, InHand, FreshInv, Fresh, Own
  <2> QED BY <2>1, <2>2, <2>3, <2>4, <2>5, <2>6 DEF Watched
<1>1. CASE ldap[g].id = 0
  BY <1>0, <1>1, RestAlone
<1>2. CASE ldap[g].id # 0 /\ job.pc = "gather"
  <2>1. PICK U \in SUBSET User : U = Newcomers
    BY Kept DEF Newcomers
  <2>2. U \subseteq seen[g].users \cup ldap[g].users
    BY <1>0, <2>1 DEF Newcomers
  <2>3. MembersBut(job.id, azure[job.id].members \cup U)
    BY <1>0, <1>2, <2>1, MembersAdvance
  <2>4. job.id = ldap[g].id /\ job.pc # "members"
    BY <1>0, <1>2
  <2> QED BY <1>0, <2>2, <2>3, <2>4, RestGrows
<1>3. CASE ldap[g].id # 0 /\ job.pc = "remove"
  <2>1. PICK x \in job.todo : \/ x \in ids /\ MembersBut(job.id, azure[job.id].members \ {x})
                              \/ x \notin ids /\ MembersStay
    BY <1>0, <1>3, MembersAdvance
  <2>2. CASE MembersStay
    BY <1>0, <1>3, <2>2, RestAlone DEF MembersStay, NamesStay
  <2>3. CASE x \in ids /\ MembersBut(job.id, azure[job.id].members \ {x})
    <3>1. x \notin seen[g].users \cap ldap[g].users
      <4>1. x \in Removed /\ x \in User
        BY <1>3, <2>3, Kept DEF KindInv
      <4>2. x \notin job.old.groups
        BY <1>0, <4>1, Fields, GroupOrUser DEF IInv, Entry
      <4> QED BY <1>0, <4>1, <4>2 DEF Removed
    <3>2. azure'[job.id].members = azure[job.id].members \ {x} /\ azure'[job.id].name = azure[job.id].name
      BY <1>0, <2>3 DEF MembersBut, NamesStay
    <3>3. Active' = Active /\ enabled' = enabled
      BY <1>0 DEF Active, people, standing
    <3>4. ~Midway(g) /\ Rest(g)
      BY <1>3 DEF Midway, MemberInv, Resting
    <3> HIDE DEF Watched, Midway, Active
    <3> QED BY <1>0, <1>3, <3>1, <3>2, <3>3, <3>4 DEF Rest, Here
  <2> QED BY <2>1, <2>2, <2>3
<1> QED BY <1>0, <1>1, <1>2, <1>3

\* It empties and renames the group that was deleted.
LEMMA RestingBuried ==
  ASSUME IInv, IInv', CacheInv, KindInv, FreshInv, NameInv, KeepInv, MemberInv, [Next]_vars, Calm',
         Own, Advancing, NEW g \in Group, g \notin Owing, g = job.item, job.pc \in {"clear", "bury"}
  PROVE  Rest(g)'
<1>1. busy /\ ldap' = ldap /\ seen' = seen
  BY StillUnless DEF Own, Still
<1>2. ldap[g].life = "gone" /\ seen[g].life = "here"
  BY DEF KindInv, Burial, FreshInv, Fresh, CacheInv, InHand, Own
<1> QED BY <1>1, <1>2 DEF Rest, Here

\* The user of the call joins another of its groups.
LEMMA RestingJoined ==
  ASSUME IInv, IInv', CacheInv, KindInv, FreshInv, NameInv, KeepInv, MemberInv, [Next]_vars, Calm',
         busy, Advancing, NEW g \in Group, g \notin Owing', g \notin Owing, job.pc = "join"
  PROVE  Rest(g)'
<1>0. /\ NamesStay /\ ldap' = ldap /\ cleaned' = cleaned /\ job.item \in User
  BY NamesAdvance, StillUnless, PeopleStay, Fields DEF Renames, Still, CacheInv, InHand, IInv
<1>1. CASE MembersStay
  BY <1>1, <1>0, RestingStill
<1>2. CASE \E h \in job.todo \cap Group : /\ Here(h) /\ ldap[h].id # 0
                                          /\ MembersBut(ldap[h].id, azure[ldap[h].id].members \cup {job.item})
  <2>1. PICK h \in job.todo \cap Group : /\ Here(h) /\ ldap[h].id # 0
                                         /\ MembersBut(ldap[h].id, azure[ldap[h].id].members \cup {job.item})
    BY <1>2
  <2>2. CASE g = h
    <3>1. job.item \in seen[g].users \cup ldap[g].users
      BY <1>0, <2>1, <2>2 DEF MemberInv, Joins
    <3>2. seen[g].life # "gone"
      BY <2>1, <2>2 DEF FreshInv, Lives, Here
    <3>3. PICK U \in SUBSET User : U = {job.item}
      BY <1>0
    <3>4. U \subseteq seen[g].users \cup ldap[g].users
      BY <3>1, <3>3
    <3>5. MembersBut(ldap[g].id, azure[ldap[g].id].members \cup U)
      BY <2>1, <2>2, <3>3
    <3>6. job.pc # "members"
      OBVIOUS
    <3> QED BY <1>0, <3>2, <3>4, <3>5, <3>6, RestGrows
  <2>3. CASE g # h
    <3>1. ldap[g].id # 0 => ldap[g].id # ldap[h].id /\ ldap[g].id \in DOMAIN azure
      <4>1. SUFFICES ASSUME ldap[g].id # 0 PROVE ldap[g].id # ldap[h].id /\ ldap[g].id \in DOMAIN azure
        OBVIOUS
      <4>2. ldap[g].id \in Holds(g) /\ ldap[g].id \in DOMAIN azure
        BY <4>1, RestHolds
      <4>3. ldap[h].id \in Holds(h)
        <5>1. ~Excused(h)
          BY <2>1 DEF Excused, FreshInv, Lives, Here
        <5> HIDE DEF Excused
        <5> QED BY <2>1, <5>1 DEF Holds
      <4> QED BY <2>1, <2>3, <4>2, <4>3 DEF NameInv, HeldOnce
    <3> QED BY <1>0, <2>1, <2>3, <3>1, RestAlone DEF MembersBut, NamesStay
  <2> QED BY <2>2, <2>3
<1> QED BY <1>1, <1>2, MembersAdvance

LEMMA RestingAdvance ==
  ASSUME IInv, IInv', CacheInv, KindInv, FreshInv, NameInv, KeepInv, MemberInv, [Next]_vars, Calm',
         busy, Advancing, NEW g \in Group, g \notin Owing'
  PROVE  Rest(g)'
<1>0. Onward /\ job.pc \in PC /\ (g \in Owing => job.pc = "members")
  BY AdvancingStep, Fields, OwingStays DEF IInv, AddMembers
<1>1. CASE job.pc \in {"team", "members"}
  BY <1>1, RestingFilled
<1>2. CASE job.pc = "write"
  BY <1>0, <1>2, RestingWrite
<1>3. CASE job.pc = "join"
  BY <1>0, <1>3, RestingJoined
<1>4. CASE \/ job.pc \in {"revive", "remove", "forget", "rename", "clear", "bury"}
           \/ job.pc = "gather" /\ job'.pc = "remove"
  <2>1. CASE g # job.item
    BY <1>0, <1>4, <2>1, RestingOthers
  <2>2. CASE g = job.item
    <3>1. Own
      BY <2>2 DEF Own
    <3>2. job.pc = "remove" \/ job.pc # "remove"
      OBVIOUS
    <3> QED BY <1>0, <1>4, <2>2, <3>1, RestingNamed, RestingMembers, RestingBuried
  <2> QED BY <2>1, <2>2
<1>5. CASE /\ job.pc \notin {"team", "members", "write", "join", "revive", "remove", "forget", "rename", "clear", "bury"}
           /\ job.pc # "gather" \/ job'.pc # "remove"
  <2>1. NamesStay /\ MembersStay
    BY <1>5, NamesAdvance, MembersAdvance DEF Renames
  <2> QED BY <1>0, <1>5, <2>1, RestingStill
<1> QED BY <1>1, <1>2, <1>3, <1>4, <1>5

LEMMA RestingNext ==
  ASSUME IInv, IInv', CacheInv, KindInv, FreshInv, NameInv, KeepInv, MemberInv, [Next]_vars, Calm'
  PROVE  Resting'
<1>1. SUFFICES ASSUME NEW g \in Group, g \notin Owing' PROVE Rest(g)'
  BY DEF Resting
<1>2. CASE busy /\ Advancing
  BY <1>1, <1>2, RestingAdvance
<1>3. CASE (busy /\ (Finish \/ Raising \/ Ignore)) \/ Fails
  BY <1>1, <1>3, Ends, RestingEnds
<1>4. CASE ~(busy /\ Advancing)
  <2>1. g \notin Owing
    <3>1. busy => ~AddMembers
      BY <1>4 DEF Advancing
    <3> QED BY <1>1, <3>1, OwingStays
  <2> QED BY <1>1, <1>3, <1>4, <2>1, RestingOutside, RestingBegins, Kinds
<1> QED BY <1>2, <1>4

LEMMA MemberInit == Init => MemberInv
<1> SUFFICES ASSUME Init PROVE MemberInv
  OBVIOUS
<1>1. /\ ~busy /\ azure = <<>> /\ DOMAIN azure = {} /\ known \subseteq named /\ named \subseteq known
      /\ \A u \in User : u \in enabled <=> u \in known
      /\ \A g \in Group : ldap[g].life = "none" /\ ldap[g].id = 0 /\ seen[g].life = "none"
  BY DEF Init, busy, Nothing
<1>2. UserSteps /\ Accounts /\ LastAlias /\ Changed
  BY <1>1 DEF UserSteps, Accounts, LastAlias, Changed, Own, Here
<1>3. Filling /\ Following /\ Clearing /\ Joins
  BY <1>1 DEF Filling, Following, Clearing, Joins, Own
<1>4. Resting
  <2> HIDE DEF Watched, Midway, Active
  <2> QED BY <1>1 DEF Resting, Rest, Here
<1> QED BY <1>2, <1>3, <1>4 DEF MemberInv, UsersInv

LEMMA MemberNext ==
  ASSUME IInv, IInv', CacheInv, KindInv, FreshInv, NameInv, KeepInv, MemberInv, [Next]_vars, Calm'
  PROVE  MemberInv'
<1>1. UsersInv'
  BY UserStepsNext, AccountsNext, LastAliasNext, ChangedNext DEF UsersInv
<1>2. Filling' /\ Following' /\ Clearing' /\ Joins' /\ Resting'
  BY FillingNext, FollowingNext, ClearingNext, JoinsNext, RestingNext
<1> QED BY <1>1, <1>2 DEF MemberInv

\* MemberInv is inductive together with NamesInv and KeepInv.
LEMMA MemberInvariance == Spec => [](NamesInv /\ (Calm => MemberInv))
<1>1. Init => NamesInv /\ MemberInv
  BY InitInv, CacheInit, FreshInit, NameInit, MemberInit DEF NamesInv
<1>2. /\ NamesInv /\ NamesInv' /\ (Calm => KeepInv) /\ (Calm => MemberInv) /\ [Next]_vars
      => (Calm => MemberInv)'
  <2> SUFFICES ASSUME NamesInv, NamesInv', Calm => KeepInv, Calm => MemberInv, [Next]_vars, Calm'
               PROVE  MemberInv'
    OBVIOUS
  <2>1. Calm
    BY CalmBefore DEF NamesInv
  <2> QED BY <2>1, MemberNext DEF NamesInv
<1> QED BY <1>1, <1>2, KeepInvariance, PTL DEF Spec

\* Between the calls, with nothing left to hand over, a group that owes nothing
\* has in Azure what its entry says.
LEMMA QuietSynced ==
  ASSUME NamesInv, MemberInv, Quiet, Calm, NEW g \in Group, g \notin Owing
  PROVE  Synced(g)
<1>1. seen[g] = ldap[g] /\ ~busy /\ ldap[g] \in Entry /\ ldap[g].users \in SUBSET User
  <2>1. seen[g] = ldap[g] /\ ~busy
    BY DEF NamesInv, CacheInv, Settled, Quiet, Range
  <2>2. ldap[g] \in Entry
    BY Kept DEF NamesInv
  <2> QED BY <2>1, <2>2 DEF Entry
<1>2. \A u \in User : u \in enabled <=> u \in known
  BY DEF Quiet, MemberInv, UsersInv, UserSteps, Range
<1>3. enabled \subseteq User /\ known \subseteq User
  BY Kept DEF NamesInv
<1>4. Active = enabled /\ known = enabled
  BY <1>2, <1>3 DEF Active
<1>5. ~Midway(g)
  BY <1>1 DEF Midway, Own
<1>6. Rest(g)
  BY DEF MemberInv, Resting
<1>7. ASSUME ldap[g].id # 0, ldap[g].life # "none"
      PROVE  /\ ldap[g].id \in DOMAIN azure
             /\ azure[ldap[g].id].members \subseteq enabled \cup Late(ldap[g].id)
  <2>1. ldap[g].id \in DOMAIN azure
    BY <1>7, IdsThere DEF NamesInv
  <2> QED BY <1>4, <2>1 DEF MemberInv, UsersInv, Accounts
<1>8. ldap[g].life = "none" => ldap[g].id = 0
  BY DEF NamesInv, FreshInv, Lives, Nothing
<1> HIDE DEF Watched, Midway, Active
<1> QED BY <1>1, <1>4, <1>5, <1>6, <1>7, <1>8 DEF Synced, Rest, Here

\* When every change is handled, no call failed and none was overtaken by
\* another, each group but those one of whose changes the code ignored or gave
\* up has in Azure its name and all of its enabled users, and nobody else but
\* users of it who were disabled when modify put them into it; a deleted one is
\* renamed and empty: after create, modify and delete, after the calls for its
\* users and those that create groups within and around it, and after kills.
THEOREM GroupsInSync == Spec => []InSync
<1>1. NamesInv /\ (Calm => MemberInv) => InSync
  BY QuietSynced DEF InSync, Owing
<1> QED BY <1>1, MemberInvariance, PTL

-----------------------------------------------------------------------------
(* Teams.                                                                  *)

\* The owners that the jobs have that wait for group i of the tenant.
Waits(i) == {jobs[k].owners : k \in {k \in DOMAIN jobs : jobs[k].id = i}}
Blank(i) == azure[i].owners = {} /\ azure[i].team = "none" /\ Waits(i) = {}
\* The groups with a team not made or archived, or owners not set.
TeamOwing == Debtors({"team"})

\* Where the cache has the entry s of group i of the tenant, and LDAP has l: it
\* is no team that neither has, jobs have the owners of the entry that was a
\* team first, and all owners are known.
Owned(s, l, i) ==
  /\ ~s.team /\ ~l.team => azure[i].team # "active" /\ Waits(i) = {}
  /\ \A O \in Waits(i) : O = IF s.team THEN s.owners ELSE l.owners
  /\ azure[i].owners \subseteq s.owners \cup l.owners
\* What is a team for both is one, or will be when its job is done.
Formed(s, l, i) ==
  s.team /\ l.team =>
    Waits(i) # {} \/ (azure[i].team = "active" /\ s.owners \cap l.owners \subseteq azure[i].owners)

\* A group made anew during the change that is to be handled, or again: nothing
\* is said of it where the cache has a team, or where it was renamed.
Replaced(g) == seen[g].id # ldap[g].id /\ Watched(seen[g]) # Watched(ldap[g])
Doubtful(g) ==
  \/ azure[ldap[g].id].name = Gone
  \/ Replaced(g) /\ seen[g].team
  \/ Replaced(g) /\ seen[g].id # 0 /\ azure[ldap[g].id].name = Renamed
\* The debts of the members are about to be settled.
Filled(g) == busy /\ job.target = g /\ job.pc \in {"team", "members"}
\* The call of a user has created the group and comes to its team,
Promised(g) == busy /\ job.item \in User /\ job.group = g /\ job.pc \in Creation \cup {"convert"}
\* or was killed before: when it is repeated, it finds that there is none.
Broken(g) ==
  /\ queue # <<>> /\ Head(queue) \in (enabled \ known) \cap ldap[g].users
  /\ g \in Range(queue) /\ azure[ldap[g].id].team = "none"
  /\ busy => g \in job.todo

\* Between the calls, and during those for others, a group in Azure has these
\* owners and is this team.
TeamRest(g) ==
  LET i == ldap[g].id IN
  Here(g) /\ i # 0 /\ ~Doubtful(g) =>
    /\ Replaced(g) \/ Filled(g) \/ g \notin Debtors(Cause) => Owned(seen[g], ldap[g], i)
    /\ g \notin Debtors(Cause) => Formed(seen[g], ldap[g], i) \/ Promised(g) \/ Broken(g)
TeamResting == \A g \in Group \ TeamOwing : TeamRest(g)

\* The call of a user is its first since the user was enabled.
Unknown == busy /\ job.item \in User => job.item \notin known

\* A group is created without a team, and where nobody makes one of it, there
\* is none to be made.
Written ==
  busy /\ job.target \notin TeamOwing =>
    /\ job.pc = "write" /\ job.made # job.cur.id => Blank(job.made)
    /\ job.pc \in {"write", "team", "members"} /\ job.target # job.group =>
         ~(job.cur.team /\ seen[job.target].team)

\* What a call for a group knows of the one it has made, or asked for.
Anew ==
  Own =>
    /\ job.pc \in {"team", "members"} /\ job.target = job.item =>
         job.old.id # job.made /\ job.then # "gather"
    /\ job.pc = "parents" => job.made # 0
    /\ job.pc = "convert" => job.then = "convert"
    /\ job.pc = "revive" \/ (job.pc = "owners" /\ job.made = 0) => job.old.id \in {0, job.id}
    /\ job.pc = "rename" /\ ldap[job.item].id # 0 => azure[job.id].name # Renamed

\* The call of a user, where it creates a group: administrators have changed
\* the entry only once since the listener saw it.
Forming ==
  busy /\ Promised(job.group) =>
    LET g == job.group  s == seen[g]  l == ldap[g] IN
    /\ job.item \in s.users \cup l.users
    /\ Watched(job.new) \in {Watched(s), Watched(l)}
    /\ job.pc \in {"team", "members", "parents", "convert"} \/ job.target # g =>
         /\ Here(g) /\ l.id = job.id /\ job.id # 0 /\ g \in Range(queue)
         /\ Watched(s) = Watched(l) \/ s.id = 0
         /\ g \notin TeamOwing => Blank(job.id)

\* The steps after check_and_modify_teams, or of a call that has none.
PastTeams ==
  \/ job.pc \in {"gather", "remove", "forget", "rename"}
  \/ job.pc \in Creation /\ job.then = "gather"
  \/ job.pc = "done" /\ Watched(job.old) # Watched(job.new)
\* What a call has done of the owners and the team of its group.
Past ==
  Own /\ job.new.life = "here" /\ job.item \notin Debtors(Cause) =>
    LET g == job.item  i == ldap[g].id  s == seen[g]  l == ldap[g] IN
    i # 0 /\ azure[i].name # Gone =>
      /\ job.pc \in {"disown", "teams"} =>
           /\ ~(s.team /\ s.id # i)
           /\ \A O \in Waits(i) : O = l.owners
           /\ s.team /\ l.team => Waits(i) # {} \/ l.owners \subseteq azure[i].owners
      /\ job.pc = "teams" => azure[i].owners \subseteq l.owners
      /\ PastTeams => Owned(l, l, i) /\ Formed(l, l, i)

TeamInv == Unknown /\ Written /\ Anew /\ Forming /\ TeamResting /\ Past

\* Owners, team and jobs of group i of the tenant stay.
TeamStays(i) ==
  /\ azure'[i].owners = azure[i].owners /\ azure'[i].team = azure[i].team
  /\ Waits(i)' = Waits(i)
OwnersStay == \A i \in DOMAIN azure : i \in DOMAIN azure' /\ TeamStays(i)
OwnersBut(j) ==
  /\ j \in DOMAIN azure /\ DOMAIN azure' = DOMAIN azure
  /\ \A i \in DOMAIN azure : i # j => TeamStays(i)

LEMMA WaitsStay == ASSUME jobs' = jobs PROVE \A i : Waits(i)' = Waits(i)
BY DEF Waits

\* The jobs of the group that LDAP has then.
LEMMA WaitsAt ==
  ASSUME NEW g, NEW i, i = ldap'[g].id
  PROVE  Waits(ldap[g].id)' = Waits(i)'
BY DEF Waits

LEMMA AzureStays == ASSUME azure' = azure, jobs' = jobs PROVE OwnersStay
BY WaitsStay DEF OwnersStay, TeamStays

LEMMA SetTeam1 ==
  ASSUME IInv, NEW i \in 1 .. Len(azure), NEW r, SetGroup(i, r), jobs' = jobs
  PROVE  /\ OwnersBut(i) /\ azure'[i] = r
         /\ r.owners = azure[i].owners /\ r.team = azure[i].team => OwnersStay
<1>1. /\ DOMAIN azure' = DOMAIN azure /\ azure'[i] = r /\ i \in DOMAIN azure
      /\ \A k \in DOMAIN azure : k # i => azure'[k] = azure[k]
  BY Kept DEF SetGroup
<1> QED BY <1>1, WaitsStay DEF OwnersBut, OwnersStay, TeamStays

LEMMA SetMembersTeam ==
  ASSUME IInv, NEW i \in 1 .. Len(azure), NEW U, SetGroup(i, [azure[i] EXCEPT !.members = U]), jobs' = jobs
  PROVE  OwnersStay
<1>1. [azure[i] EXCEPT !.members = U].owners = azure[i].owners /\ [azure[i] EXCEPT !.members = U].team = azure[i].team
  BY Kept, GroupAt DEF AzureGroup
<1> QED BY <1>1, SetTeam1

LEMMA SetNameTeam ==
  ASSUME IInv, NEW i \in 1 .. Len(azure), NEW n, SetGroup(i, [azure[i] EXCEPT !.name = n]), jobs' = jobs
  PROVE  OwnersStay
<1>1. [azure[i] EXCEPT !.name = n].owners = azure[i].owners /\ [azure[i] EXCEPT !.name = n].team = azure[i].team
  BY Kept, GroupAt DEF AzureGroup
<1> QED BY <1>1, SetTeam1

LEMMA AddToTeams ==
  ASSUME IInv, NEW i \in 1 .. Len(azure), NEW U, AddTo(i, U), jobs' = jobs
  PROVE  OwnersStay
BY SetMembersTeam, AzureStays DEF AddTo

\* A job more for one group.
LEMMA Enqueued ==
  ASSUME IInv, busy, Enqueue, azure' = azure, job.id \in DOMAIN azure
  PROVE  /\ OwnersBut(job.id)
         /\ \A i : i = job.id => Waits(i)' = Waits(i) \cup {job.new.owners \cap ids}
         /\ owed \subseteq owed' /\ owed' \subseteq owed \cup {<<job.group, "team">>}
         /\ <<job.group, "team">> \in owed' \/ job.new.owners \subseteq ids
<1> DEFINE j == [id |-> job.id, owners |-> job.new.owners \cap ids]
<1>1. /\ jobs' = Append(jobs, j) /\ jobs \in Seq(TeamJob)
      /\ owed' = IF job.new.owners \subseteq ids THEN owed ELSE owed \cup {<<job.group, "team">>}
  BY Kept DEF Enqueue
<1>2. j \in TeamJob
  BY Fields, Kept DEF TeamJob, IInv, Entry
<1> HIDE DEF j
<1>3. /\ Len(jobs) \in Nat /\ DOMAIN jobs = 1 .. Len(jobs) /\ DOMAIN jobs' = 1 .. Len(jobs) + 1
      /\ jobs'[Len(jobs) + 1] = j /\ \A k \in DOMAIN jobs : jobs'[k] = jobs[k]
  BY <1>1, <1>2
<1>4. \A k : k \in DOMAIN jobs' <=> k \in DOMAIN jobs \/ k = Len(jobs) + 1
  BY <1>3
<1>5. \A i : Waits(i)' = IF i = j.id THEN Waits(i) \cup {j.owners} ELSE Waits(i)
  <2> TAKE i
  <2>1. \A O : O \in Waits(i)' <=> \E k \in DOMAIN jobs' : jobs'[k].id = i /\ jobs'[k].owners = O
    BY DEF Waits
  <2>2. \A O : O \in Waits(i) <=> \E k \in DOMAIN jobs : jobs[k].id = i /\ jobs[k].owners = O
    BY DEF Waits
  <2>3. \A O : O \in Waits(i)' <=> O \in Waits(i) \/ (j.id = i /\ j.owners = O)
    BY <2>1, <2>2, <1>3, <1>4
  <2> QED BY <2>3
<1>6. j.id = job.id /\ j.owners = job.new.owners \cap ids
  BY DEF j
<1> QED BY <1>1, <1>5, <1>6 DEF OwnersBut, TeamStays

\* Only these steps of a call touch teams, and only the team of its group.
TeamSteps == {"owners", "disown", "teams", "convert", "archive"}

LEMMA TeamsAlone ==
  ASSUME IInv, busy, Advancing, job.pc \notin TeamSteps
  PROVE  OwnersStay
<1>0. /\ job \in Job /\ azure \in Seq(AzureGroup)
      /\ job.pc \notin Loose => job.id \in 1 .. Len(azure)
      /\ job.pc \in {"write", "team", "members"} => job.made \in 1 .. Len(azure)
  BY Mine, Fields, Kept DEF IInv
<1>1. CASE PostNew
  <2>1. azure' = Append(azure, Parse(job.cur)) /\ jobs' = jobs
    BY <1>1 DEF PostNew
  <2>2. \A i \in DOMAIN azure : i \in DOMAIN azure' /\ azure'[i] = azure[i]
    BY <1>0, <2>1
  <2> QED BY <2>1, <2>2, WaitsStay DEF OwnersStay, TeamStays
<1>2. CASE PostTake \/ Write \/ CreateParent \/ Created \/ Lost \/ Get \/ Gather \/ KeepGroup \/ Forget \/ Joined
  <2>1. azure' = azure /\ jobs' = jobs
    BY <1>2, Zenon DEF PostTake, Write, CreateParent, Created, Lost, Get, Gather, KeepGroup, Forget, Joined
  <2> QED BY <2>1, AzureStays
<1>3. CASE JoinTeam
  <2>1. job.made \in 1 .. Len(azure) /\ jobs' = jobs
    BY <1>0, <1>3 DEF JoinTeam
  <2> QED BY <1>3, <2>1, SetMembersTeam, AzureStays, Zenon DEF JoinTeam, AddToTeam
<1>4. CASE AddMembers
  <2>1. job.made \in 1 .. Len(azure) /\ jobs' = jobs
    BY <1>0, <1>4 DEF AddMembers
  <2> QED BY <1>4, <2>1, AddToTeams, AzureStays DEF AddMembers
<1>5. CASE AddNew \/ RemoveMember \/ Clear
  <2>1. job.id \in 1 .. Len(azure) /\ jobs' = jobs
    BY <1>0, <1>5 DEF AddNew, RemoveMember, Clear, Loose
  <2> QED BY <1>5, <2>1, AddToTeams, SetMembersTeam, AzureStays DEF AddNew, RemoveMember, Clear
<1>6. CASE Revive \/ RemoveEmpty \/ UpdateName \/ Bury
  <2>1. job.id \in 1 .. Len(azure) /\ jobs' = jobs
    BY <1>0, <1>6 DEF Revive, RemoveEmpty, UpdateName, Bury, Loose
  <2> QED BY <1>6, <2>1, SetNameTeam, AzureStays DEF Revive, RemoveEmpty, UpdateName, Bury
<1>7. CASE Join
  <2>1. jobs' = jobs
    BY <1>7 DEF Join
  <2>2. azure' = azure \/ \E g \in Group : ldap[g].id # 0 /\ AddTo(ldap[g].id, {job.item})
    BY <1>7 DEF Join, JoinNew, JoinGroup
  <2>3. ASSUME NEW g \in Group, ldap[g].id # 0, AddTo(ldap[g].id, {job.item}) PROVE OwnersStay
    <3>1. ldap[g].id \in 1 .. Len(azure)
      BY <2>3, IdsThere, Kept
    <3> QED BY <2>1, <2>3, <3>1, AddToTeams
  <2> QED BY <2>1, <2>2, <2>3, AzureStays
<1>8. ~(AddOwners \/ Disown \/ CheckTeam \/ Convert \/ Archive)
  BY DEF TeamSteps, AddOwners, Disown, CheckTeam, Convert, Archive
<1> QED BY <1>1, <1>2, <1>3, <1>4, <1>5, <1>6, <1>7, <1>8 DEF Advancing

LEMMA TeamGoes ==
  ASSUME IInv, busy, Advancing
  PROVE  /\ job.pc = "owners" => AddOwners
         /\ job.pc = "disown" => Disown
         /\ job.pc = "teams" => CheckTeam
         /\ job.pc = "archive" => Archive
<1>1. job.pc = "owners" => AddOwners
  BY DEF Advancing, PostNew, PostTake, Write, JoinTeam, AddMembers, CreateParent, Created, Convert,
     Lost, Get, Revive, Disown, CheckTeam, Gather, AddNew, RemoveMember, RemoveEmpty, KeepGroup,
     Forget, UpdateName, Archive, Clear, Bury, Join, Joined
<1>2. job.pc = "disown" => Disown
  BY DEF Advancing, PostNew, PostTake, Write, JoinTeam, AddMembers, CreateParent, Created, Convert,
     Lost, Get, Revive, AddOwners, CheckTeam, Gather, AddNew, RemoveMember, RemoveEmpty, KeepGroup,
     Forget, UpdateName, Archive, Clear, Bury, Join, Joined
<1>3. job.pc = "teams" => CheckTeam
  BY DEF Advancing, PostNew, PostTake, Write, JoinTeam, AddMembers, CreateParent, Created, Convert,
     Lost, Get, Revive, AddOwners, Disown, Gather, AddNew, RemoveMember, RemoveEmpty, KeepGroup,
     Forget, UpdateName, Archive, Clear, Bury, Join, Joined
<1>4. job.pc = "archive" => Archive
  BY DEF Advancing, PostNew, PostTake, Write, JoinTeam, AddMembers, CreateParent, Created, Convert,
     Lost, Get, Revive, AddOwners, Disown, CheckTeam, Gather, AddNew, RemoveMember, RemoveEmpty,
     KeepGroup, Forget, UpdateName, Clear, Bury, Join, Joined
<1> QED BY <1>1, <1>2, <1>3, <1>4

LEMMA TeamsTouched ==
  ASSUME IInv, busy, Advancing, job.pc \in TeamSteps
  PROVE  OwnersBut(job.id) /\ NamesStay
<1>0. job.id \in 1 .. Len(azure) /\ job.id \in DOMAIN azure
  BY Mine, Kept DEF Loose, TeamSteps
<1>1. CASE AddOwners \/ Disown
  <2>1. jobs' = jobs /\ \E r : SetGroup(job.id, r) /\ r.name = azure[job.id].name
    <3>1. \A O : [azure[job.id] EXCEPT !.owners = O].name = azure[job.id].name
      BY <1>0, Kept, GroupAt DEF AzureGroup
    <3>2. CASE AddOwners
      BY <3>1, <3>2 DEF AddOwners
    <3>3. CASE Disown
      BY <3>1, <3>3 DEF Disown
    <3> QED BY <1>1, <3>2, <3>3
  <2> QED BY <1>0, <2>1, SetTeam1, SetNames DEF NamesBut, NamesStay
<1>2. CASE CheckTeam \/ Convert
  <2>1. CASE Enqueue /\ azure' = azure
    BY <1>0, <2>1, Enqueued DEF NamesStay
  <2>2. CASE azure' = azure /\ jobs' = jobs
    BY <1>0, <2>2, AzureStays DEF NamesStay, OwnersStay, OwnersBut
  <2>3. CASE SetGroup(job.id, [azure[job.id] EXCEPT !.team = "archived"]) /\ jobs' = jobs
    BY <1>0, <2>3, SetTeam1, SetTeamNames
  <2> QED BY <1>2, <2>1, <2>2, <2>3 DEF CheckTeam, Convert
<1>3. CASE Archive
  <2>1. jobs' = jobs /\ \E r : SetGroup(job.id, r) /\ r.name = azure[job.id].name
    <3>1. \A t : [azure[job.id] EXCEPT !.team = t].name = azure[job.id].name
      BY <1>0, Kept, GroupAt DEF AzureGroup
    <3>2. [azure[job.id] EXCEPT !.team = IF @ = "none" THEN @ ELSE "archived"].name = azure[job.id].name
      BY <1>0, Kept, GroupAt DEF AzureGroup
    <3> QED BY <1>3, <3>2 DEF Archive
  <2> QED BY <1>0, <2>1, SetTeam1, SetNames DEF NamesBut, NamesStay
<1>4. AddOwners \/ Disown \/ CheckTeam \/ Convert \/ Archive
  BY TeamGoes, GoesOnFrom DEF TeamSteps
<1> QED BY <1>1, <1>2, <1>3, <1>4

\* What these steps do to the team of the call's group.
LEMMA OwnersAdded ==
  ASSUME IInv, busy, Advancing, job.pc = "owners", NEW i, i = job.id
  PROVE  /\ azure'[i].owners = azure[i].owners \cup NewOwners /\ azure'[i].team = azure[i].team
         /\ Waits(i)' = Waits(i) /\ owed \subseteq owed'
         /\ \/ <<job.group, "team">> \in owed'
            \/ /\ job.new.owners # job.old.owners => Waits(i) = {} /\ job.new.owners \subseteq ids
               /\ (job.made = 0 /\ job.old.id # 0) \/ ~job.old.team
<1>1. AddOwners /\ i \in 1 .. Len(azure)
  BY TeamGoes, Mine DEF Loose
<1>2. azure'[i] = [azure[i] EXCEPT !.owners = @ \cup NewOwners] /\ jobs' = jobs
  BY <1>1, SetTeam1 DEF AddOwners
<1>3. Pending <=> Waits(i) # {}
  BY DEF Pending, Waits
<1>4. azure'[i].owners = azure[i].owners \cup NewOwners /\ azure'[i].team = azure[i].team
  BY <1>1, <1>2, Kept, GroupAt DEF AzureGroup
<1> QED BY <1>1, <1>2, <1>3, <1>4, WaitsStay DEF AddOwners

LEMMA OwnersRemoved ==
  ASSUME IInv, busy, Advancing, job.pc = "disown", NEW i, i = job.id
  PROVE  /\ azure'[i].owners = azure[i].owners \ (job.old.owners \ job.new.owners) \/ <<job.group, "team">> \in owed'
         /\ azure'[i].team = azure[i].team /\ Waits(i)' = Waits(i) /\ owed \subseteq owed'
<1>1. Disown /\ i \in 1 .. Len(azure)
  BY TeamGoes, Mine DEF Loose
<1> DEFINE stay == azure[i].owners \ (job.old.owners \ job.new.owners)
<1>2. PICK O : /\ SetGroup(i, [azure[i] EXCEPT !.owners = O])
               /\ owed' = IF O = stay THEN owed ELSE owed \cup {<<job.group, "team">>}
  BY <1>1 DEF Disown
<1>3. azure'[i] = [azure[i] EXCEPT !.owners = O] /\ jobs' = jobs
  BY <1>1, <1>2, SetTeam1 DEF Disown
<1>4. azure'[i].owners = O /\ azure'[i].team = azure[i].team
  BY <1>1, <1>3, Kept, GroupAt DEF AzureGroup
<1> QED BY <1>2, <1>3, <1>4, WaitsStay

LEMMA TeamChecked ==
  ASSUME IInv, busy, Advancing, job.pc = "teams", NEW i, i = job.id
  PROVE  /\ azure'[i].owners = azure[i].owners /\ owed \subseteq owed'
         /\ job.new.team /\ ~job.old.team =>
              /\ azure'[i].team = azure[i].team
              /\ Waits(i)' = Waits(i) \cup {job.new.owners \cap ids}
              /\ <<job.group, "team">> \in owed' \/ job.new.owners \subseteq ids
         /\ ~(job.new.team /\ ~job.old.team) =>
              /\ Waits(i)' = Waits(i)
              /\ azure'[i].team = IF job.old.team /\ ~job.new.team /\ azure[i].team = "active"
                                  THEN "archived" ELSE azure[i].team
              /\ ~job.new.team /\ Waits(i) # {} => <<job.group, "team">> \in owed'
<1>1. CheckTeam /\ i \in 1 .. Len(azure) /\ i \in DOMAIN azure
  BY TeamGoes, Mine, Kept DEF Loose
<1>2. CASE job.new.team /\ ~job.old.team
  BY <1>1, <1>2, Enqueued DEF CheckTeam
<1>3. CASE ~(job.new.team /\ ~job.old.team)
  <2>1. jobs' = jobs /\ owed' = IF ~job.new.team /\ Pending THEN owed \cup {<<job.group, "team">>} ELSE owed
    BY <1>1, <1>3 DEF CheckTeam
  <2>2. Pending <=> Waits(i) # {}
    BY DEF Pending, Waits
  <2>3. /\ azure'[i].owners = azure[i].owners
        /\ azure'[i].team = IF job.old.team /\ ~job.new.team /\ azure[i].team = "active"
                            THEN "archived" ELSE azure[i].team
    <3>1. CASE job.old.team /\ ~job.new.team /\ azure[i].team = "active"
      <4>1. azure'[i] = [azure[i] EXCEPT !.team = "archived"]
        BY <1>1, <1>3, <2>1, <3>1, SetTeam1 DEF CheckTeam
      <4> QED BY <1>1, <3>1, <4>1, Kept, GroupAt DEF AzureGroup
    <3>2. CASE ~(job.old.team /\ ~job.new.team /\ azure[i].team = "active")
      BY <1>1, <1>3, <3>2 DEF CheckTeam
    <3> QED BY <3>1, <3>2
  <2> QED BY <1>3, <2>1, <2>2, <2>3, WaitsStay
<1> QED BY <1>2, <1>3

LEMMA TeamConverted ==
  ASSUME IInv, busy, Advancing, job.pc = "convert", NEW i, i = job.id
  PROVE  /\ azure'[i].owners = azure[i].owners /\ azure'[i].team = azure[i].team /\ owed \subseteq owed'
         /\ ~job.new.team => Waits(i)' = Waits(i)
         /\ job.new.team => /\ Waits(i)' = Waits(i) \cup {job.new.owners \cap ids}
                            /\ <<job.group, "team">> \in owed' \/ job.new.owners \subseteq ids
<1>1. Convert /\ i \in DOMAIN azure
  BY GoesOnFrom, Mine, Kept DEF Loose
<1> QED BY <1>1, Enqueued, WaitsStay DEF Convert

\* Everybody but a call and the daemon leaves them alone.
LEMMA TeamsOutside ==
  ASSUME IInv, [Next]_vars, Calm', ~(busy /\ Advancing), ~RunJob
  PROVE  OwnersStay
<1>1. CASE \E g \in Group, e \in Entry : Edit(g, e)
  BY <1>1, CalmPut, AzureStays
<1>2. CASE (\E u \in User : Switch(u)) \/ Start \/ Enable \/ Ignored \/ Crash \/ UNCHANGED vars
  BY <1>2, AzureStays, Zenon DEF Switch, Change, Start, Enable, Ignored, Crash, vars
<1>3. CASE (busy /\ (Finish \/ Raising \/ Ignore)) \/ Fails
  BY <1>3, Ends, AzureStays DEF Ended, Return
<1>4. CASE Purge
  <2>1. PICK i \in DOMAIN azure : azure' = [azure EXCEPT ![i].name = Gone]
    BY <1>4 DEF Purge
  <2>2. azure[i] \in AzureGroup /\ azure'[i] = [azure[i] EXCEPT !.name = Gone]
    BY <2>1, Kept, GroupAt
  <2>3. azure'[i].owners = azure[i].owners /\ azure'[i].team = azure[i].team
    BY <2>2 DEF AzureGroup
  <2>4. jobs' = jobs /\ DOMAIN azure' = DOMAIN azure /\ \A k \in DOMAIN azure : k # i => azure'[k] = azure[k]
    BY <1>4, <2>1 DEF Purge
  <2> QED BY <2>3, <2>4, WaitsStay DEF OwnersStay, TeamStays
<1>5. CASE Clean \/ Disable
  <2>1. DOMAIN azure' = DOMAIN azure /\ jobs' = jobs
    BY <1>5 DEF Clean, Disable
  <2>2. ASSUME NEW i \in DOMAIN azure PROVE azure'[i].owners = azure[i].owners /\ azure'[i].team = azure[i].team
    <3>1. azure[i] \in AzureGroup
      BY <2>2, Kept, GroupAt
    <3> QED BY <1>5, <2>2, <3>1 DEF Clean, Disable, AzureGroup
  <2> QED BY <2>1, <2>2, WaitsStay DEF OwnersStay, TeamStays
<1> QED BY <1>1, <1>2, <1>3, <1>4, <1>5, Kinds

\* A job that is done makes a team with its owners, or something is owed.
LEMMA RunTeams ==
  ASSUME IInv, RunJob, NEW i \in DOMAIN azure
  PROVE  /\ i \in DOMAIN azure' /\ owed \subseteq owed'
         /\ \/ TeamStays(i)
            \/ azure[i].name = Gone /\ Waits(i) # {}
            \/ \E O \in Waits(i) :
                 /\ azure'[i].owners = azure[i].owners \cup O /\ Waits(i)' \subseteq Waits(i)
                 /\ azure'[i].team = "active" \/ \A g \in Group : ldap[g].id = i => <<g, "team">> \in owed'
<1> DEFINE j == Head(jobs)
<1>1. /\ jobs # <<>> /\ jobs \in Seq(TeamJob) /\ jobs' = Tail(jobs) /\ azure \in Seq(AzureGroup)
      /\ j.id \in 1 .. Len(azure) /\ j = jobs[1] /\ 1 \in DOMAIN jobs
  BY Kept DEF RunJob, IInv, IdsOfGroups, Known
<1>2. \A k : k \in DOMAIN jobs' => k + 1 \in DOMAIN jobs /\ jobs'[k] = jobs[k + 1]
  BY <1>1
<1>3. \A k \in DOMAIN jobs : k = 1 \/ (k - 1 \in DOMAIN jobs' /\ jobs'[k - 1] = jobs[k])
  BY <1>1
<1>4. \A O : O \in Waits(i)' <=> \E k \in DOMAIN jobs' : jobs'[k].id = i /\ jobs'[k].owners = O
  BY DEF Waits
<1>5. \A O : O \in Waits(i) <=> \E k \in DOMAIN jobs : jobs[k].id = i /\ jobs[k].owners = O
  BY DEF Waits
<1>6. Waits(i)' \subseteq Waits(i)
  BY <1>2, <1>4, <1>5
<1>7. j.id # i => Waits(i)' = Waits(i)
  <2>1. ASSUME j.id # i, NEW O \in Waits(i) PROVE O \in Waits(i)'
    <3>1. PICK k \in DOMAIN jobs : jobs[k].id = i /\ jobs[k].owners = O
      BY <1>5, <2>1
    <3>2. k # 1
      BY <1>1, <2>1, <3>1
    <3> QED BY <1>3, <1>4, <3>1, <3>2
  <2> QED BY <1>6, <2>1
<1>8. j.id = i => j.owners \in Waits(i)
  BY <1>1, <1>5
<1>9. CASE azure[j.id].name = Gone
  <2>1. azure' = azure /\ owed' = owed
    BY <1>9 DEF RunJob
  <2> QED BY <1>7, <1>8, <1>9, <2>1 DEF TeamStays
<1>10. CASE azure[j.id].name # Gone
  <2> DEFINE r == azure[j.id]
             O == r.owners \cup j.owners
             made == r.team = "none" /\ O # {}
  <2>1. /\ SetGroup(j.id, [r EXCEPT !.owners = O, !.team = IF made THEN "active" ELSE @])
        /\ owed' = IF made \/ r.team = "active" THEN owed
                   ELSE owed \cup {<<g, "team">> : g \in {h \in Group : ldap[h].id = j.id}}
    BY <1>10 DEF RunJob
  <2>2. r \in AzureGroup
    BY <1>1
  <2>7. PICK q : q = [r EXCEPT !.owners = O, !.team = IF made THEN "active" ELSE @]
    BY Zenon
  <2>3. /\ DOMAIN azure' = DOMAIN azure /\ \A k \in DOMAIN azure : k # j.id => azure'[k] = azure[k]
        /\ azure'[j.id] = q
    <3>1. azure' = [azure EXCEPT ![j.id] = q]
      BY <2>1, <2>7 DEF SetGroup
    <3> QED BY <1>1, <3>1
  <2>4. azure'[j.id].owners = O /\ azure'[j.id].team = IF made THEN "active" ELSE r.team
    BY <2>2, <2>3, <2>7 DEF AzureGroup
  <2>5. CASE j.id # i
    BY <1>7, <2>1, <2>3, <2>5 DEF TeamStays
  <2>6. CASE j.id = i
    BY <1>6, <1>8, <2>1, <2>3, <2>4, <2>6
  <2> QED BY <2>5, <2>6
<1> QED BY <1>9, <1>10

\* What is owed of a team is owed until the group is created anew.
LEMMA TeamOwedStays ==
  ASSUME IInv, [Next]_vars, NEW g \in Group, g \in TeamOwing
  PROVE  g \in TeamOwing' \/ (busy /\ PostNew /\ job.pc = "post" /\ job.target = g)
<1>0. <<g, "team">> \in owed /\ (<<g, "team">> \in owed' => g \in TeamOwing')
  BY DEF TeamOwing, Debtors
<1>1. CASE (\E h \in Group, e \in Entry : Edit(h, e)) \/ (\E u \in User : Switch(u)) \/ Purge \/ Clean
  BY <1>0, <1>1 DEF Edit, Put, Switch, Change, Purge, Clean
<1>2. CASE Start \/ Enable \/ Disable \/ Ignored \/ UNCHANGED vars
  BY <1>0, <1>2, Zenon DEF Start, StartCreate, StartModify, StartDelete, Enable, Disable, Ignored, vars
<1>3. CASE (busy /\ (Finish \/ Raising \/ Ignore)) \/ Fails
  BY <1>0, <1>3 DEF Finish, Raising, Ignore, Fails, WriteGone, NestedUnknown, GatherUnknown,
     RemoveStranger, ForgetNothing, ArchiveNothing, JoinGone, Raise
<1>4. CASE RunJob \/ Crash
  BY <1>0, <1>4 DEF RunJob, Crash
<1>5. CASE busy /\ Advancing
  <2>1. CASE PostNew
    BY <1>0, <1>5, <2>1 DEF PostNew
  <2>2. CASE AddMembers
    <3>1. owed' = owed \/ owed' = owed \ ({job.target} \X (Cause \ {"team"}))
      BY <2>2 DEF AddMembers
    <3> QED BY <1>0, <3>1
  <2>3. CASE PostTake \/ Convert \/ CheckTeam \/ AddOwners \/ Disown \/ Forget \/ Join
    BY <1>0, <2>3, Zenon DEF PostTake, Convert, CheckTeam, Enqueue, AddOwners, Disown, Forget, Join,
       JoinNew, JoinGroup
  <2>4. CASE Write \/ JoinTeam \/ CreateParent \/ Created \/ Lost \/ Get \/ Revive \/ Gather
             \/ AddNew \/ RemoveMember \/ RemoveEmpty \/ KeepGroup \/ UpdateName \/ Archive
             \/ Clear \/ Bury \/ Joined
    BY <1>0, <2>4, Zenon DEF Write, JoinTeam, CreateParent, Created, Lost, Get, Revive, Gather, AddNew,
       RemoveMember, RemoveEmpty, KeepGroup, UpdateName, Archive, Clear, Bury, Joined
  <2> QED BY <1>5, <2>1, <2>2, <2>3, <2>4 DEF Advancing
<1> QED BY <1>1, <1>2, <1>3, <1>4, <1>5, Kinds

LEMMA AllDebts ==
  ASSUME NEW g \in Group
  PROVE  /\ g \in Debtors(Cause) <=> g \in Owing \/ g \in TeamOwing
         /\ g \in Debtors(Cause)' <=> g \in Owing' \/ g \in TeamOwing'
BY DEF Debtors, Owing, TeamOwing, Cause

\* No debt is settled but in these two steps.
LEMMA DebtsStay ==
  ASSUME IInv, [Next]_vars, NEW g \in Group, g \notin TeamOwing',
         ~(busy /\ PostNew /\ job.pc = "post" /\ job.target = g)
  PROVE  /\ g \notin TeamOwing
         /\ g \notin Debtors(Cause)' =>
              g \notin Debtors(Cause) \/ (busy /\ AddMembers /\ job.target = g)
<1>1. g \notin TeamOwing
  BY TeamOwedStays
<1> QED BY <1>1, AllDebts, OwingStays

\* Of two groups in LDAP one's objectId is not the other's, nor that of the
\* call for it.
LEMMA HereHolds ==
  ASSUME IInv, FreshInv, NEW g \in Group, Here(g), ldap[g].id # 0
  PROVE  ldap[g].id \in Holds(g) /\ ldap[g].id \in DOMAIN azure /\ seen[g].life # "gone"
<1>1. seen[g].life # "gone"
  BY DEF FreshInv, Lives, Here
<1> QED BY <1>1, IdsThere DEF Holds, Excused

LEMMA HereOwn ==
  ASSUME IInv, CacheInv, KindInv, FreshInv, NameInv, Own, job.new.life = "here" \/ job.pc \in Burial, job.id # 0,
         NEW g \in Group, Here(g), ldap[g].id = job.id
  PROVE  g = job.item
<1>1. job.id \in Holds(g) /\ job.id \in Holds(job.item) /\ job.item \in Group
  BY HereHolds, Holding DEF Own
<1> QED BY <1>1 DEF NameInv, HeldOnce

LEMMA HereApart ==
  ASSUME IInv, FreshInv, NameInv, NEW g \in Group, NEW h \in Group, Here(g), Here(h),
         ldap[g].id # 0, ldap[g].id = ldap[h].id
  PROVE  g = h
BY HereHolds DEF NameInv, HeldOnce

\* A step after which nothing less is known of a group whose entries stay.
LEMMA TeamRestStays ==
  ASSUME NEW g \in Group, TeamRest(g),
         Watched(seen'[g]) = Watched(seen[g]), seen'[g].id = seen[g].id,
         ldap'[g].id = ldap[g].id, ldap'[g].life = ldap[g].life, Watched(ldap'[g]) = Watched(ldap[g]),
         ldap[g].id # 0 /\ Here(g) /\ Doubtful(g) => Doubtful(g)',
         Filled(g)' => Filled(g) \/ Replaced(g) \/ g \notin Debtors(Cause),
         g \notin Debtors(Cause)' => g \notin Debtors(Cause),
         ldap[g].id # 0 /\ Here(g) /\ ~Doubtful(g) =>
           /\ Owned(seen[g], ldap[g], ldap[g].id) => Owned(seen[g], ldap[g], ldap[g].id)'
           /\ Formed(seen[g], ldap[g], ldap[g].id) => Formed(seen[g], ldap[g], ldap[g].id)'
           /\ Promised(g) \/ Broken(g) =>
                Promised(g)' \/ Broken(g)' \/ g \in Debtors(Cause)' \/ Formed(seen[g], ldap[g], ldap[g].id)'
  PROVE  TeamRest(g)'
<1>1. Here(g)' <=> Here(g)
  BY DEF Here
<1>2. Replaced(g)' <=> Replaced(g)
  BY DEF Replaced
<1> QED BY <1>1, <1>2 DEF TeamRest

\* The same where teams stay.
LEMMA OwnedStays ==
  ASSUME IInv, NEW g \in Group, ldap[g].id # 0, OwnersStay,
         Watched(seen'[g]) = Watched(seen[g]),
         ldap'[g].id = ldap[g].id, Watched(ldap'[g]) = Watched(ldap[g])
  PROVE  /\ Owned(seen[g], ldap[g], ldap[g].id) => Owned(seen[g], ldap[g], ldap[g].id)'
         /\ Formed(seen[g], ldap[g], ldap[g].id) => Formed(seen[g], ldap[g], ldap[g].id)'
         /\ Broken(g) => azure'[ldap'[g].id].team = "none"
<1>1. PICK i : i = ldap[g].id
  OBVIOUS
<1>2. i \in DOMAIN azure
  BY <1>1, IdsThere
<1>3. azure'[i].owners = azure[i].owners /\ azure'[i].team = azure[i].team /\ Waits(i)' = Waits(i)
  BY <1>2 DEF OwnersStay, TeamStays
<1>4. Waits(ldap[g].id)' = Waits(i)
  BY <1>1, <1>3, WaitsAt
<1>5. /\ seen'[g].team = seen[g].team /\ seen'[g].owners = seen[g].owners
      /\ ldap'[g].team = ldap[g].team /\ ldap'[g].owners = ldap[g].owners
  BY DEF Watched
<1>6. Owned(seen[g], ldap[g], ldap[g].id) => Owned(seen[g], ldap[g], ldap[g].id)'
  BY <1>1, <1>3, <1>4, <1>5 DEF Owned
<1>7. Formed(seen[g], ldap[g], ldap[g].id) => Formed(seen[g], ldap[g], ldap[g].id)'
  BY <1>1, <1>3, <1>4, <1>5 DEF Formed
<1> QED BY <1>1, <1>3, <1>6, <1>7 DEF Broken

\* A call's own step takes nothing from the queue.
LEMMA QueueAdvance ==
  ASSUME IInv, IInv', busy, Advancing
  PROVE  Range(queue) \subseteq Range(queue') /\ queue' # <<>> /\ Head(queue') = Head(queue)
<1>1. Still \/ \E g \in Group, i \in Nat : Given(g, i)
  BY AdvancingStep
<1>2. queue # <<>>
  BY DEF IInv, Steps
<1>3. ASSUME NEW g \in Group, queue' = Notify(g)
      PROVE  Range(queue) \subseteq Range(queue') /\ queue' # <<>> /\ Head(queue') = Head(queue)
  BY <1>2, <1>3, Notified
<1> QED BY <1>1, <1>2, <1>3 DEF Still, Given

LEMMA DoubtStays ==
  ASSUME IInv, NEW g \in Group, ldap[g].id # 0,
         Watched(seen'[g]) = Watched(seen[g]), seen'[g].id = seen[g].id,
         ldap'[g].id = ldap[g].id, Watched(ldap'[g]) = Watched(ldap[g]),
         azure'[ldap[g].id].name \in {azure[ldap[g].id].name, Gone} \/ azure'[ldap[g].id].name = Renamed,
         azure[ldap[g].id].name = Gone => azure'[ldap[g].id].name = Gone,
         Doubtful(g)
  PROVE  Doubtful(g)'
<1>1. Replaced(g)' <=> Replaced(g)
  BY DEF Replaced
<1>2. seen'[g].team = seen[g].team
  BY DEF Watched
<1> QED BY <1>1, <1>2 DEF Doubtful

\* What is promised of a group stays so while a call goes on.
LEMMA PromiseOn ==
  ASSUME IInv, IInv', CacheInv, busy, Advancing, NEW g \in Group
  PROVE  /\ Promised(g) /\ job.pc # "convert" => Promised(g)'
         /\ Broken(g) /\ job.pc # "join" /\ azure'[ldap'[g].id].team = "none" => Broken(g)'
         /\ Filled(g)' => job.pc \in {"write", "team"} /\ job.target = g
<1>0. Onward /\ job.pc \in PC /\ job.then \in {"convert", "owners", "gather"} /\ UNCHANGED standing /\ busy'
  BY AdvancingStep, PeopleStay, Fields DEF IInv, Onward
<1>1. Promised(g) /\ job.pc # "convert" => Promised(g)'
  BY <1>0 DEF Promised, Onward, Keeps, Flow, Creation, CacheInv, InHand
<1>2. ASSUME Broken(g), job.pc # "join", azure'[ldap'[g].id].team = "none" PROVE Broken(g)'
  <2>1. job.item \in User /\ g \in job.todo
    BY <1>2, Kept DEF Broken, CacheInv, InHand
  <2>2. job.pc \in Creation \cup {"convert", "done"}
    BY <1>2, <2>1 DEF CacheInv, InHand
  <2>3. job'.todo = job.todo
    BY <1>0, <2>2 DEF Onward, Keeps, Creation, Flow
  <2>4. ldap'[g].users = ldap[g].users
    BY EntriesStay DEF Watched
  <2> QED BY <1>0, <1>2, <2>1, <2>3, <2>4, QueueAdvance DEF Broken, people, standing
<1>3. ASSUME Filled(g)' PROVE job.pc \in {"write", "team"} /\ job.target = g
  <2>1. job'.pc \in {"team", "members"} /\ job'.target = g
    BY <1>3 DEF Filled
  <2>2. job.pc \in {"write", "team"}
    BY <1>0, <2>1 DEF Onward, Flow, PC
  <2> QED BY <1>0, <2>1, <2>2 DEF Onward, Keeps
<1> QED BY <1>1, <1>2, <1>3

\* A call's own step for a group it does not create.
LEMMA TeamRestOn ==
  ASSUME IInv, IInv', CacheInv, [Next]_vars, Calm', busy, Advancing, TeamResting,
         NEW g \in Group, g \notin TeamOwing',
         job.pc \in {"post", "write", "members"} => job.target # g \/ (job.pc = "post" /\ ~PostNew),
         job.pc # "join", job.pc = "convert" => ~Promised(g),
         ldap'[g].id = ldap[g].id,
         ldap[g].id # 0 /\ Here(g) /\ Doubtful(g) => Doubtful(g)',
         ldap[g].id # 0 /\ Here(g) /\ ~Doubtful(g) =>
           /\ Owned(seen[g], ldap[g], ldap[g].id) => Owned(seen[g], ldap[g], ldap[g].id)'
           /\ Formed(seen[g], ldap[g], ldap[g].id) => Formed(seen[g], ldap[g], ldap[g].id)'
           /\ Broken(g) => azure'[ldap'[g].id].team = "none"
  PROVE  TeamRest(g)'
<1>1. ~(busy /\ PostNew /\ job.pc = "post" /\ job.target = g) /\ ~(busy /\ AddMembers /\ job.target = g)
  BY DEF AddMembers
<1>2. g \notin TeamOwing /\ (g \notin Debtors(Cause)' => g \notin Debtors(Cause))
  BY <1>1, DebtsStay
<1>3. TeamRest(g)
  BY <1>2 DEF TeamResting
<1>4. /\ seen'[g] = seen[g] /\ ldap'[g].life = ldap[g].life /\ Watched(ldap'[g]) = Watched(ldap[g])
  BY EntriesStay
<1>5. Filled(g)' => Filled(g)
  BY PromiseOn DEF Filled
<1>6. Promised(g) => Promised(g)'
  BY PromiseOn
<1>7. Broken(g) /\ azure'[ldap'[g].id].team = "none" => Broken(g)'
  BY PromiseOn
<1> QED BY <1>2, <1>3, <1>4, <1>5, <1>6, <1>7, TeamRestStays

LEMMA TeamRestAlone ==
  ASSUME IInv, IInv', CacheInv, [Next]_vars, Calm', busy, Advancing, TeamResting,
         NEW g \in Group, g \notin TeamOwing', job.pc \notin TeamSteps,
         job.pc \in {"post", "write", "members"} => job.target # g \/ (job.pc = "post" /\ ~PostNew),
         job.pc # "join", ldap'[g].id = ldap[g].id,
         ldap[g].id # 0 /\ Here(g) /\ Doubtful(g) => Doubtful(g)'
  PROVE  TeamRest(g)'
<1>1. OwnersStay
  BY TeamsAlone
<1>2. seen'[g] = seen[g] /\ Watched(ldap'[g]) = Watched(ldap[g])
  BY EntriesStay
<1> QED BY <1>1, <1>2, OwnedStays, TeamRestOn DEF TeamSteps

\* A call for a group that is there has the entry that the cache has as the old
\* one and that LDAP has as the new one, and these are different.
LEMMA OwnEntries ==
  ASSUME IInv, CacheInv, KindInv, FreshInv, Changed, Own, job.new.life = "here"
  PROVE  /\ job.group = job.item /\ job.old = seen[job.item] /\ Here(job.item)
         /\ Watched(job.new) = Watched(ldap[job.item])
         /\ job.new.team = ldap[job.item].team /\ job.new.owners = ldap[job.item].owners
         /\ job.then = "convert" => seen[job.item] = Nothing
         /\ job.then # "convert" => seen[job.item].life = "here"
         /\ job.pc # "done" => Watched(seen[job.item]) # Watched(ldap[job.item])
<1>1. job.group = job.item /\ job.old = seen[job.item] /\ Watched(job.new) = Watched(ldap[job.item]) /\ Here(job.item)
  BY DEF CacheInv, InHand, FreshInv, Fresh, Own, Here
<1>2. job.then = "convert" => seen[job.item] = Nothing
  BY <1>1 DEF KindInv, FreshInv, Lives, Own
<1>3. job.then # "convert" => seen[job.item].life = "here"
  BY <1>1 DEF KindInv
<1>4. ASSUME job.pc # "done" PROVE Watched(seen[job.item]) # Watched(ldap[job.item])
  <2>1. CASE job.then # "convert"
    BY <1>1, <1>4, <2>1 DEF Changed
  <2>2. CASE job.then = "convert"
    <3>1. seen[job.item].name = NoName
      BY <1>2, <2>2 DEF Nothing
    <3>2. ldap[job.item].name \in Name
      BY <1>1 DEF FreshInv, OwnNames, Own, Here
    <3> QED BY <3>1, <3>2, NamesAssumption DEF Watched
  <2> QED BY <2>1, <2>2
<1> QED BY <1>1, <1>2, <1>3, <1>4 DEF Watched

\* Where a group with an objectId is created anew, the one it had is gone, or
\* was renamed.
LEMMA TeamRestPosted ==
  ASSUME IInv, IInv', CacheInv, KindInv, FreshInv, NameInv, KeepInv, MemberInv, [Next]_vars, Calm',
         busy, PostNew, job.pc = "post", NEW g \in Group, g = job.target
  PROVE  TeamRest(g)'
<1>0. Advancing /\ Still /\ Called(job.cur.name) = {} /\ Changed
  BY StillUnless DEF Advancing, PostNew, MemberInv, UsersInv
<1>1. SUFFICES ASSUME Here(g), ldap[g].id # 0 PROVE Doubtful(g)'
  BY <1>0 DEF TeamRest, Still, Here
<1>2. ldap[g].id \in DOMAIN azure /\ azure'[ldap[g].id].name = azure[ldap[g].id].name
  BY <1>0, <1>1, IdsThere, NamesAdvance DEF Renames, NamesStay
<1>3. SUFFICES Doubtful(g)
  BY <1>0, <1>1, <1>2, DoubtStays DEF Still
<1>4. azure[ldap[g].id].name # job.cur.name
  BY <1>0, <1>2 DEF Called
<1>5. g = job.item /\ Own /\ job.cur.id = ldap[g].id
  BY <1>1 DEF NameInv, AtPost, Creation, Own
<1>6. /\ job.old.id = 0 \/ azure[job.old.id].name = Gone
      /\ job.id = 0 \/ azure[job.id].name = Gone
      /\ job.then # "gather"
      /\ (seen[g].life = "none" \/ seen[g].id # 0) => job.cur.name = ldap[g].name
  BY <1>5 DEF NameInv, AtPost, Creation
<1>7. job.new.life = "here" /\ job.then \in {"convert", "owners", "gather"}
  BY <1>5, Fields DEF KindInv, Burial, IInv
<1>8. CASE job.then = "convert"
  <2>1. seen[g].life = "none"
    BY <1>0, <1>5, <1>7, <1>8, OwnEntries DEF Nothing
  <2> QED BY <1>1, <1>4, <1>6, <2>1 DEF KeepInv, Renewed, Doubtful
<1>9. CASE job.then = "owners"
  <2>1. seen[g].life = "here" /\ job.old = seen[g] /\ Watched(seen[g]) # Watched(ldap[g])
    BY <1>0, <1>5, <1>7, <1>9, OwnEntries
  <2>2. job.id = IF job.old.id # 0 THEN job.old.id ELSE job.cur.id
    BY <1>5, <1>9 DEF KeepInv, Asked
  <2>3. CASE job.old.id \in {0, ldap[g].id}
    BY <1>1, <1>5, <1>6, <2>2, <2>3 DEF Doubtful
  <2>4. CASE job.old.id \notin {0, ldap[g].id}
    <3>1. azure[ldap[g].id].name \in {Gone, Renamed}
      BY <1>1, <1>4, <1>6, <2>1, <2>4 DEF KeepInv, Renewed
    <3> QED BY <2>1, <2>4, <3>1 DEF Doubtful, Replaced
  <2> QED BY <2>3, <2>4
<1> QED BY <1>6, <1>7, <1>8, <1>9

\* Nobody had the group that was written before, or modify is to say of it what
\* it says of a new one.
LEMMA TeamRestWritten ==
  ASSUME IInv, IInv', CacheInv, KindInv, FreshInv, NameInv, KeepInv, MemberInv, TeamInv, [Next]_vars, Calm',
         busy, Advancing, job.pc = "write", NEW g \in Group, g = job.target, g \notin TeamOwing'
  PROVE  TeamRest(g)'
<1>0. /\ Write /\ Changed /\ OwnersStay /\ NamesStay /\ job.made \in DOMAIN azure /\ job.made # 0
      /\ ~PostNew /\ ~AddMembers /\ job' \in Job /\ owed' = owed /\ busy'
  BY GoesOnFrom, TeamsAlone, NamesAdvance, CallIds, AdvancingStep
     DEF TeamSteps, Renames, MemberInv, UsersInv, PostNew, AddMembers, Write, Onward, IInv, Steps, Handling
<1>1. g \notin TeamOwing /\ TeamRest(g) /\ (g \in Debtors(Cause)' <=> g \in Debtors(Cause))
  BY <1>0, DebtsStay DEF TeamInv, TeamResting, Debtors
<1>2. seen' = seen /\ Watched(ldap'[g]) = Watched(ldap[g]) /\ ldap'[g].life = ldap[g].life
  BY EntriesStay
<1>3. job.cur.id = ldap[g].id /\ (job.target # job.item => job.cur.id = 0) /\ azure[job.made].name = job.cur.name
      /\ job.cur.name \in Claim(g) /\ (Own /\ g = job.item => job.old.id = 0 \/ azure[job.old.id].name = Gone)
  BY DEF NameInv, AtPost, Creation
<1>4. azure[job.made].name # Gone
  BY <1>3, ClaimNames, NamesAssumption
<1>5. Own /\ g = job.item => /\ job.new.life = "here" /\ job.old = seen[g] /\ seen[g].id # job.made
                             /\ Watched(seen[g]) # Watched(ldap[g]) /\ (seen[g] = Nothing \/ job.then # "convert")
  <2>1. SUFFICES ASSUME Own, g = job.item
                 PROVE  /\ job.new.life = "here" /\ job.old = seen[g] /\ seen[g].id # job.made
                        /\ Watched(seen[g]) # Watched(ldap[g]) /\ (seen[g] = Nothing \/ job.then # "convert")
    OBVIOUS
  <2>2. job.new.life = "here"
    BY <2>1 DEF KindInv, Burial
  <2> QED BY <1>0, <1>3, <1>4, <2>1, <2>2, OwnEntries
<1>6. CASE job.cur.id = job.made
  <2>1. Still
    BY <1>0, <1>6, WriteData
  <2>2. Own /\ g = job.item
    BY <1>0, <1>3, <1>6 DEF Own
  <2>3. Replaced(g)
    BY <1>3, <1>5, <1>6, <2>2 DEF Replaced
  <2>4. /\ Owned(seen[g], ldap[g], ldap[g].id) => Owned(seen[g], ldap[g], ldap[g].id)'
        /\ Formed(seen[g], ldap[g], ldap[g].id) => Formed(seen[g], ldap[g], ldap[g].id)'
    BY <1>0, <1>3, <1>6, <2>1, OwnedStays DEF Still
  <2>5. Doubtful(g) => Doubtful(g)'
    BY <1>0, <1>3, <1>6, <2>1, DoubtStays DEF Still, NamesStay
  <2>6. ~Promised(g) /\ ~Broken(g)
    BY <2>2, GroupOrUser, Kept DEF Promised, Broken, Own, CacheInv, InHand
  <2> QED BY <1>1, <2>1, <2>3, <2>4, <2>5, <2>6, TeamRestStays DEF Still
<1>7. CASE job.cur.id # job.made
  <2>1. Given(g, job.made)
    BY <1>0, <1>7, WriteData
  <2>2. ldap'[g].id = job.made
    BY <2>1, Gives
  <2>3. Blank(job.made)
    BY <1>1, <1>7 DEF TeamInv, Written
  <2>4. PICK i : i = job.made
    OBVIOUS
  <2>5. azure'[i].owners = {} /\ azure'[i].team = "none" /\ Waits(i)' = {}
    BY <1>0, <2>3, <2>4 DEF Blank, OwnersStay, TeamStays
  <2>6. Waits(ldap[g].id)' = {}
    BY <2>2, <2>4, <2>5, WaitsAt
  <2>7. Owned(seen[g], ldap[g], ldap[g].id)'
    BY <2>2, <2>4, <2>5, <2>6 DEF Owned
  <2>8. Formed(seen[g], ldap[g], ldap[g].id)' \/ Promised(g)' \/ Doubtful(g)'
    <3>1. SUFFICES ASSUME seen[g].team, ldap[g].team PROVE Promised(g)' \/ Doubtful(g)'
      BY <1>2 DEF Formed, Watched
    <3>2. job.cur.team
      BY <3>1 DEF MemberInv, Filling, Watched
    <3>3. g = job.group
      BY <1>1, <3>1, <3>2 DEF TeamInv, Written
    <3>4. CASE job.item \in User
      BY <1>0, <3>3, <3>4, AdvancingStep DEF Promised, Onward, Flow, Keeps, Creation
    <3>5. CASE job.item \in Group
      <4>1. Own /\ g = job.item
        BY <3>3, <3>5 DEF Own, CacheInv, InHand
      <4>2. Replaced(g)'
        BY <1>2, <1>5, <2>2, <4>1 DEF Replaced
      <4> QED BY <1>2, <3>1, <4>2 DEF Doubtful
    <3> QED BY <3>4, <3>5, Fields DEF IInv
  <2> QED BY <2>7, <2>8 DEF TeamRest
<1> QED BY <1>6, <1>7

\* When the debts of the members are settled, the rest is as it was written.
LEMMA TeamRestFilled ==
  ASSUME IInv, IInv', CacheInv, KindInv, FreshInv, NameInv, KeepInv, MemberInv, TeamInv, [Next]_vars, Calm',
         busy, Advancing, job.pc = "members", NEW g \in Group, g = job.target, g \notin TeamOwing'
  PROVE  TeamRest(g)'
<1>0. /\ AddMembers /\ Changed /\ OwnersStay /\ NamesStay /\ Still /\ ~PostNew /\ busy' /\ job' \in Job
  BY GoesOnFrom, TeamsAlone, NamesAdvance, StillUnless, AdvancingStep
     DEF TeamSteps, Renames, MemberInv, UsersInv, PostNew, Onward
<1>1. g \notin TeamOwing /\ TeamRest(g)
  BY <1>0, DebtsStay DEF TeamInv, TeamResting
<1>2. Filled(g) /\ ldap[g].id = job.made
  BY DEF Filled, KeepInv, Made
<1>3. ~Filled(g)'
  BY <1>0, PromiseOn
<1>4. SUFFICES ASSUME Here(g), ldap[g].id # 0, ~Doubtful(g)'
               PROVE  /\ Owned(seen[g], ldap[g], ldap[g].id)'
                      /\ Formed(seen[g], ldap[g], ldap[g].id)' \/ Promised(g)'
  BY <1>0 DEF TeamRest, Still, Here
<1>5. ~Doubtful(g)
  BY <1>0, <1>4, IdsThere, DoubtStays DEF Still, NamesStay
<1>6. Owned(seen[g], ldap[g], ldap[g].id)
  BY <1>1, <1>2, <1>4, <1>5 DEF TeamRest
<1>7. Owned(seen[g], ldap[g], ldap[g].id)'
  BY <1>0, <1>4, <1>6, OwnedStays DEF Still
<1>8. Formed(seen[g], ldap[g], ldap[g].id)' \/ Promised(g)'
  <2>1. SUFFICES ASSUME seen[g].team, ldap[g].team PROVE Promised(g)'
    BY <1>0 DEF Formed, Still
  <2>2. job.cur.team
    BY <2>1 DEF MemberInv, Filling, Watched
  <2>3. g = job.group
    BY <1>1, <2>1, <2>2 DEF TeamInv, Written
  <2>4. CASE job.item \in User
    BY <1>0, <2>3, <2>4, AdvancingStep DEF Promised, Onward, Flow, Keeps, Creation
  <2>5. CASE job.item \in Group
    <3>1. Own /\ g = job.item /\ job.new.life = "here"
      BY <2>3, <2>5 DEF Own, CacheInv, InHand, KindInv, Burial
    <3>2. job.old.id # job.made /\ job.old = seen[g] /\ Watched(seen[g]) # Watched(ldap[g])
      BY <1>0, <3>1, OwnEntries DEF TeamInv, Anew
    <3>3. Replaced(g)
      BY <1>2, <3>2 DEF Replaced
    <3> QED BY <1>5, <2>1, <3>3 DEF Doubtful
  <2> QED BY <2>4, <2>5, Fields DEF IInv
<1> QED BY <1>7, <1>8

\* A call has its own group when it comes to the team.
LEMMA OwnTeam ==
  ASSUME IInv, CacheInv, KindInv, FreshInv, NameInv, Own, job.new.life = "here",
         job.pc \in Changing \cup {"convert"}
  PROVE  /\ job.id # 0 /\ azure[job.id].name # Gone /\ ldap[job.item].id \in {0, job.id}
         /\ job.pc = "convert" => ldap[job.item].id = job.id
BY DEF NameInv, AfterWrite

\* The owners and the team of another group stay as they are.
LEMMA TeamRestOther ==
  ASSUME IInv, IInv', CacheInv, KindInv, FreshInv, NameInv, KeepInv, MemberInv, TeamInv, [Next]_vars, Calm',
         busy, Advancing, job.pc \in TeamSteps, NEW g \in Group, g \notin TeamOwing',
         Here(g) /\ ldap[g].id # 0 => ldap[g].id # job.id
  PROVE  TeamRest(g)'
<1>1. OwnersBut(job.id) /\ NamesStay /\ Still
  BY TeamsTouched, StillUnless DEF TeamSteps
<1>2. CASE Here(g) /\ ldap[g].id # 0
  <2>1. PICK i : i = ldap[g].id
    OBVIOUS
  <2>2. i \in DOMAIN azure /\ i # job.id
    BY <1>2, <2>1, IdsThere
  <2>3. azure'[i].owners = azure[i].owners /\ azure'[i].team = azure[i].team /\ Waits(i)' = Waits(i)
    BY <1>1, <2>2 DEF OwnersBut, TeamStays
  <2>4. Waits(ldap[g].id)' = Waits(i)
    BY <1>1, <2>1, <2>3, WaitsAt DEF Still
  <2>5. /\ Owned(seen[g], ldap[g], ldap[g].id) => Owned(seen[g], ldap[g], ldap[g].id)'
        /\ Formed(seen[g], ldap[g], ldap[g].id) => Formed(seen[g], ldap[g], ldap[g].id)'
        /\ Broken(g) => azure'[ldap'[g].id].team = "none"
    BY <1>1, <2>1, <2>3, <2>4 DEF Owned, Formed, Broken, Still
  <2>6. job.pc = "convert" => ~Promised(g)
    BY <1>2 DEF TeamInv, Forming, Promised
  <2>7. Doubtful(g) => Doubtful(g)'
    BY <1>1, <1>2, <2>1, <2>2, DoubtStays DEF Still, NamesStay
  <2> QED BY <1>1, <2>5, <2>6, <2>7, TeamRestOn DEF TeamSteps, TeamInv, Still
<1>3. CASE ~(Here(g) /\ ldap[g].id # 0)
  BY <1>1, <1>3 DEF TeamRest, Still, Here
<1> QED BY <1>2, <1>3

\* What modify does to the owners and the team of its own group.
LEMMA TeamRestChanged ==
  ASSUME IInv, IInv', CacheInv, KindInv, FreshInv, NameInv, KeepInv, MemberInv, TeamInv, [Next]_vars, Calm',
         Own, Advancing, job.pc \in {"owners", "disown", "teams"}, NEW g \in Group, g = job.item, g \notin TeamOwing'
  PROVE  TeamRest(g)'
<1>0. /\ busy /\ Changed /\ NamesStay /\ Still /\ ~PostNew
  BY TeamsTouched, StillUnless DEF Own, TeamSteps, MemberInv, UsersInv, PostNew
<1>1. job.new.life = "here"
  BY <1>0 DEF KindInv, Burial
<1>2. /\ job.group = g /\ job.old = seen[g] /\ Here(g)
      /\ job.new.team = ldap[g].team /\ job.new.owners = ldap[g].owners
  BY <1>0, <1>1, OwnEntries
<1>3. SUFFICES ASSUME ldap[g].id # 0 PROVE TeamRest(g)'
  BY <1>0 DEF TeamRest, Still
<1>4. PICK i : i = job.id
  OBVIOUS
<1>5. i = ldap[g].id /\ i # 0 /\ <<g, "team">> \notin owed'
  BY <1>1, <1>3, <1>4, OwnTeam DEF Changing, TeamOwing, Debtors
<1>6. /\ Owned(seen[g], ldap[g], i) => Owned(seen[g], ldap[g], ldap[g].id)'
      /\ Formed(seen[g], ldap[g], i) => Formed(seen[g], ldap[g], ldap[g].id)'
  <2>0. i = ldap'[g].id /\ seen'[g] = seen[g] /\ ldap'[g] = ldap[g]
    BY <1>0, <1>5 DEF Still
  <2>1. CASE job.pc = "owners"
    <3>1. /\ azure'[i].owners = azure[i].owners \cup NewOwners /\ azure'[i].team = azure[i].team
          /\ Waits(i)' = Waits(i)
      BY <1>0, <1>4, <2>1, OwnersAdded
    <3>2. NewOwners \subseteq ldap[g].owners
      BY <1>2 DEF NewOwners
    <3>3. Waits(ldap[g].id)' = Waits(i)
      BY <2>0, <3>1, WaitsAt
    <3> QED BY <2>0, <3>1, <3>2, <3>3 DEF Owned, Formed
  <2>2. CASE job.pc = "disown"
    <3>1. /\ azure'[i].owners = azure[i].owners \ (seen[g].owners \ ldap[g].owners) /\ azure'[i].team = azure[i].team
          /\ Waits(i)' = Waits(i)
      BY <1>0, <1>2, <1>4, <1>5, <2>2, OwnersRemoved
    <3>3. Waits(ldap[g].id)' = Waits(i)
      BY <2>0, <3>1, WaitsAt
    <3> QED BY <2>0, <3>1, <3>3 DEF Owned, Formed
  <2>3. CASE job.pc = "teams" /\ ldap[g].team /\ ~seen[g].team
    <3>1. /\ azure'[i].owners = azure[i].owners /\ azure'[i].team = azure[i].team
          /\ Waits(i)' = Waits(i) \cup {ldap[g].owners}
      BY <1>0, <1>2, <1>4, <1>5, <2>3, TeamChecked
    <3>3. Waits(ldap[g].id)' = Waits(i) \cup {ldap[g].owners}
      BY <2>0, <3>1, WaitsAt
    <3> QED BY <2>0, <2>3, <3>1, <3>3 DEF Owned, Formed
  <2>4. CASE job.pc = "teams" /\ ~(ldap[g].team /\ ~seen[g].team)
    <3>1. /\ azure'[i].owners = azure[i].owners
          /\ azure'[i].team = IF seen[g].team /\ ~ldap[g].team /\ azure[i].team = "active"
                              THEN "archived" ELSE azure[i].team
          /\ Waits(i)' = Waits(i)
      BY <1>0, <1>2, <1>4, <2>4, TeamChecked
    <3>3. Waits(ldap[g].id)' = Waits(i)
      BY <2>0, <3>1, WaitsAt
    <3> QED BY <2>0, <2>4, <3>1, <3>3, Zenon DEF Owned, Formed
  <2> QED BY <2>1, <2>2, <2>3, <2>4
<1>7. ~Broken(g) /\ ~Promised(g)
  BY <1>0, GroupOrUser, Kept DEF Broken, Promised, CacheInv, InHand, Own
<1>8. Doubtful(g) => Doubtful(g)'
  BY <1>0, <1>3, IdsThere, DoubtStays DEF Still, NamesStay
<1> QED BY <1>0, <1>5, <1>6, <1>7, <1>8, TeamRestOn DEF Still, TeamInv

\* A job is put into the queue for a group that was created.
LEMMA ConvertedOwn ==
  ASSUME IInv, IInv', CacheInv, KindInv, FreshInv, NameInv, KeepInv, MemberInv, TeamInv, [Next]_vars, Calm',
         Own, Advancing, job.pc = "convert", NEW g \in Group, g = job.item, g \notin TeamOwing'
  PROVE  /\ job.new.life = "here" /\ Still /\ NamesStay /\ seen[g] = Nothing /\ Replaced(g)
         /\ ~Doubtful(g) /\ ldap[g].id # 0 /\ Owned(seen[g], ldap[g], ldap[g].id)
         /\ Owned(seen[g], ldap[g], ldap[g].id)'
         /\ ldap[g].team => Waits(ldap[g].id)' # {}
<1>0. /\ busy /\ Changed /\ NamesStay /\ Still /\ ~PostNew
  BY TeamsTouched, StillUnless DEF Own, TeamSteps, MemberInv, UsersInv, PostNew
<1>1. job.new.life = "here" /\ job.then = "convert"
  BY <1>0 DEF KindInv, Burial, TeamInv, Anew
<1>2. /\ job.group = g /\ job.old = seen[g] /\ Here(g) /\ seen[g] = Nothing
      /\ job.new.team = ldap[g].team /\ job.new.owners = ldap[g].owners
      /\ Watched(seen[g]) # Watched(ldap[g])
  BY <1>0, <1>1, OwnEntries
<1>3. PICK i : i = job.id
  OBVIOUS
<1>4. i = ldap[g].id /\ i # 0 /\ <<g, "team">> \notin owed' /\ azure[i].name # Gone
  BY <1>1, <1>3, OwnTeam DEF TeamOwing, Debtors
<1>5. seen[g].id = 0 /\ ~seen[g].team /\ seen[g].owners = {}
  BY <1>2 DEF Nothing
<1>6. Replaced(g) /\ ~Doubtful(g)
  BY <1>2, <1>4, <1>5 DEF Replaced, Doubtful
<1>7. Owned(seen[g], ldap[g], i)
  <2>1. g \notin TeamOwing
    BY <1>0, DebtsStay
  <2> QED BY <1>2, <1>4, <1>6, <2>1 DEF TeamInv, TeamResting, TeamRest
<1>8. /\ azure'[i].owners = azure[i].owners /\ azure'[i].team = azure[i].team
      /\ Waits(i)' = IF ldap[g].team THEN Waits(i) \cup {ldap[g].owners} ELSE Waits(i)
  <2>1. job.new.owners \subseteq ids => job.new.owners \cap ids = ldap[g].owners
    BY <1>2
  <2> QED BY <1>0, <1>2, <1>3, <1>4, <2>1, TeamConverted
<1>9. i = ldap'[g].id /\ seen'[g] = seen[g] /\ ldap'[g] = ldap[g]
  BY <1>0, <1>4 DEF Still
<1>10. Waits(ldap[g].id)' = IF ldap[g].team THEN Waits(i) \cup {ldap[g].owners} ELSE Waits(i)
  BY <1>8, <1>9, WaitsAt
<1>11. Owned(seen[g], ldap[g], ldap[g].id)'
  BY <1>5, <1>7, <1>8, <1>9, <1>10 DEF Owned
<1> QED BY <1>0, <1>1, <1>2, <1>4, <1>6, <1>7, <1>10, <1>11

LEMMA TeamRestConverted ==
  ASSUME IInv, IInv', CacheInv, KindInv, FreshInv, NameInv, KeepInv, MemberInv, TeamInv, [Next]_vars, Calm',
         busy, Advancing, job.pc = "convert", NEW g \in Group, g = job.group, g \notin TeamOwing'
  PROVE  TeamRest(g)'
<1>1. CASE job.item \in Group
  <2>1. Own /\ g = job.item
    BY <1>1 DEF Own, CacheInv, InHand
  <2> QED BY <2>1, ConvertedOwn DEF TeamRest, Formed, Nothing, Still
<1>2. CASE job.item \in User
  <2>0. /\ NamesStay /\ Still /\ ~PostNew /\ Promised(g)
    BY <1>2, TeamsTouched, StillUnless DEF TeamSteps, PostNew, Promised
  <2>1. g \notin TeamOwing /\ <<g, "team">> \notin owed'
    BY <2>0, DebtsStay DEF TeamOwing, Debtors
  <2>2. PICK i : i = job.id
    OBVIOUS
  <2>3. /\ Here(g) /\ ldap[g].id = i /\ i # 0 /\ Blank(i)
        /\ Watched(job.new) \in {Watched(seen[g]), Watched(ldap[g])}
        /\ Watched(seen[g]) = Watched(ldap[g]) \/ seen[g].id = 0
    BY <2>0, <2>1, <2>2 DEF TeamInv, Forming
  <2>4. /\ azure'[i].owners = {} /\ azure'[i].team = "none"
        /\ ~job.new.team => Waits(i)' = {}
        /\ job.new.team => Waits(i)' = {job.new.owners}
    <3>1. job.new.owners \subseteq ids => job.new.owners \cap ids = job.new.owners
      OBVIOUS
    <3> QED BY <2>1, <2>2, <2>3, <3>1, TeamConverted DEF Blank
  <2>5. i = ldap'[g].id /\ seen'[g] = seen[g] /\ ldap'[g] = ldap[g]
    BY <2>0, <2>3 DEF Still
  <2>6. Waits(ldap[g].id)' = IF job.new.team THEN {job.new.owners} ELSE {}
    BY <2>4, <2>5, WaitsAt
  <2>7. SUFFICES ASSUME ~Doubtful(g)'
                 PROVE  Owned(seen[g], ldap[g], ldap[g].id)' /\ Formed(seen[g], ldap[g], ldap[g].id)'
    BY DEF TeamRest
  <2>8. Watched(seen[g]) = Watched(ldap[g]) \/ ~seen[g].team
    BY <2>3, <2>5, <2>7 DEF Doubtful, Replaced
  <2>9. /\ job.new.team => job.new.owners = IF seen[g].team THEN seen[g].owners ELSE ldap[g].owners
        /\ job.new.team => seen[g].team \/ ldap[g].team
        /\ seen[g].team /\ ldap[g].team => job.new.team
    BY <2>3, <2>8 DEF Watched
  <2> QED BY <2>4, <2>5, <2>6, <2>9 DEF Owned, Formed
<1> QED BY <1>1, <1>2, Fields DEF IInv

\* A user joins the groups: where there is no team yet, that is owed.
LEMMA TeamRestJoined ==
  ASSUME IInv, IInv', CacheInv, KindInv, FreshInv, NameInv, KeepInv, MemberInv, TeamInv, [Next]_vars, Calm',
         busy, Advancing, job.pc = "join", NEW g \in Group, g \notin TeamOwing'
  PROVE  TeamRest(g)'
<1>0. /\ OwnersStay /\ NamesStay /\ Still /\ ~PostNew /\ ~AddMembers /\ UNCHANGED standing /\ busy' /\ job.item \in User
      /\ job \in Job
  BY TeamsAlone, NamesAdvance, StillUnless, PeopleStay, AdvancingStep, Fields
     DEF TeamSteps, Renames, PostNew, AddMembers, Onward, IInv, Steps, Handling
<1>1. g \notin TeamOwing /\ TeamRest(g) /\ (g \notin Debtors(Cause)' => g \notin Debtors(Cause))
  BY <1>0, DebtsStay DEF TeamInv, TeamResting
<1>2. ~Filled(g)' /\ ~Promised(g)
  BY <1>0, PromiseOn DEF Promised, Creation
<1>3. CASE Here(g) /\ ldap[g].id # 0
  <2>1. Broken(g) => azure'[ldap'[g].id].team = "none"
    BY <1>0, <1>3, OwnedStays DEF Still
  <2>2. ASSUME Broken(g), ~Broken(g)', ~Formed(seen[g], ldap[g], ldap[g].id)' PROVE g \in Debtors(Cause)'
    <3>1. g \in job.todo /\ g \notin job'.todo
      BY <1>0, <2>1, <2>2 DEF Broken, Still, people, standing
    <3>2. CASE Joined
      BY <1>0, <3>1, <3>2 DEF Joined
    <3>3. CASE Join
      <4>1. PICK h \in job.todo \cap Group : JoinNew(h) \/ JoinGroup(h)
        BY <3>3 DEF Join
      <4>2. job'.todo = job.todo \ {h}
        BY <1>0, <4>1 DEF JoinNew, JoinGroup, Drop, Job
      <4>3. h = g
        BY <3>1, <4>2
      <4>4. ldap[g].alias
        BY <1>3 DEF CacheInv, Aliased
      <4>5. JoinGroup(g)
        BY <4>1, <4>3, <4>4 DEF JoinNew
      <4>6. ldap[g].team /\ azure[ldap[g].id].team = "none"
        BY <1>0, <2>2 DEF Formed, Still, Broken
      <4>7. <<g, "unformed">> \in owed'
        BY <1>3, <4>5, <4>6 DEF JoinGroup
      <4> QED BY <4>7 DEF Debtors, Cause
    <3> QED BY <3>2, <3>3, GoesOnFrom
  <2>3. Doubtful(g) => Doubtful(g)'
    BY <1>0, <1>3, IdsThere, DoubtStays DEF Still, NamesStay
  <2>4. /\ Owned(seen[g], ldap[g], ldap[g].id) => Owned(seen[g], ldap[g], ldap[g].id)'
        /\ Formed(seen[g], ldap[g], ldap[g].id) => Formed(seen[g], ldap[g], ldap[g].id)'
    BY <1>0, <1>3, OwnedStays DEF Still
  <2> QED BY <1>0, <1>1, <1>2, <2>2, <2>3, <2>4, TeamRestStays DEF Still
<1>4. CASE ~(Here(g) /\ ldap[g].id # 0)
  BY <1>0, <1>4 DEF TeamRest, Still, Here
<1> QED BY <1>3, <1>4

\* Where a group is renamed, what was doubtful of it stays so.
LEMMA TeamRestNamed ==
  ASSUME IInv, IInv', CacheInv, KindInv, FreshInv, NameInv, KeepInv, MemberInv, TeamInv, [Next]_vars, Calm',
         busy, Advancing, job.pc \in {"revive", "remove", "rename", "bury"}, NEW g \in Group, g \notin TeamOwing'
  PROVE  TeamRest(g)'
<1>0. Still /\ (NamesStay \/ Renames) /\ Changed
  BY StillUnless, NamesAdvance DEF MemberInv, UsersInv
<1>1. SUFFICES ASSUME ldap[g].id # 0, Here(g), Doubtful(g) PROVE Doubtful(g)'
  BY <1>0, TeamRestAlone DEF TeamSteps, Still, TeamInv
<1>2. ldap[g].id \in Holds(g) /\ ldap[g].id \in DOMAIN azure
  BY <1>1, HereHolds
<1>3. CASE NamesStay \/ ldap[g].id # job.id
  <2>1. azure'[ldap[g].id].name = azure[ldap[g].id].name
    BY <1>0, <1>2, <1>3, RenamesOwn DEF NamesStay
  <2> QED BY <1>0, <1>1, <2>1, DoubtStays DEF Still
<1>4. CASE Renames /\ ldap[g].id = job.id
  <2>1. Own /\ g = job.item
    BY <1>2, <1>4, RenamesOwn
  <2>2. job.new.life = "here" /\ job.pc # "bury"
    BY <1>1, <1>4, <2>1, RenamesOwn DEF FreshInv, Fresh, Here
  <2>3. job.old = seen[g] /\ azure[job.id].name # Gone
    BY <1>0, <2>1, <2>2, OwnEntries, OwnTeam DEF Changing
  <2>4. CASE Replaced(g) /\ seen[g].team
    BY <1>0, <2>4 DEF Doubtful, Replaced, Still
  <2>5. CASE Replaced(g) /\ seen[g].id # 0 /\ azure[job.id].name = Renamed
    <3>1. job.pc = "remove"
      BY <1>1, <1>4, <2>1, <2>2, <2>3, <2>5 DEF TeamInv, Anew, Replaced
    <3>2. azure'[job.id].name = Renamed
      BY <1>4, <3>1 DEF Renames, NamesBut
    <3> QED BY <1>0, <1>4, <2>5, <3>2 DEF Doubtful, Replaced, Still
  <2> QED BY <1>1, <1>4, <2>3, <2>4, <2>5 DEF Doubtful
<1> QED BY <1>0, <1>3, <1>4

\* The steps that touch owners and teams touch those of the call's group.
LEMMA TeamRestApart ==
  ASSUME IInv, IInv', CacheInv, KindInv, FreshInv, NameInv, KeepInv, MemberInv, TeamInv, [Next]_vars, Calm',
         busy, Advancing, job.pc \in TeamSteps, NEW g \in Group, g \notin TeamOwing', job.group # g \/ job.pc = "archive"
  PROVE  TeamRest(g)'
<1>1. SUFFICES ASSUME Here(g), ldap[g].id # 0, ldap[g].id = job.id PROVE FALSE
  BY TeamRestOther
<1>2. CASE Own
  <2>1. g = job.item
    BY <1>1, <1>2, HereOwn DEF KindInv, TeamSteps, Burial
  <2>2. job.pc = "archive"
    BY <1>2, <2>1 DEF CacheInv, InHand, Own
  <2> QED BY <1>1, <1>2, <2>1, <2>2 DEF KindInv, Burial, FreshInv, Fresh, Here
<1>3. CASE ~Own
  <2>1. job.item \in User /\ job.pc = "convert" /\ job.group \in Group
    BY <1>3, OwnCall, Fields DEF Own, TeamSteps, Creation, IInv
  <2>2. Here(job.group) /\ ldap[job.group].id = job.id
    BY <2>1 DEF Promised, TeamInv, Forming
  <2>3. g = job.group
    BY <1>1, <2>1, <2>2, HereApart
  <2> QED BY <2>1, <2>3
<1> QED BY <1>2, <1>3

\* A step of a call.
LEMMA TeamRestAdvance ==
  ASSUME IInv, IInv', CacheInv, KindInv, FreshInv, NameInv, KeepInv, MemberInv, TeamInv, [Next]_vars, Calm',
         busy, Advancing, NEW g \in Group, g \notin TeamOwing'
  PROVE  TeamRest(g)'
<1>0. /\ job.pc \notin {"revive", "remove", "rename", "bury"} => NamesStay
      /\ job.pc \notin {"write", "forget"} => Still
      /\ job.group \in Group /\ job.target \in Group
  BY NamesAdvance, StillUnless, Fields DEF Renames, IInv
<1>a. ASSUME NamesStay, ldap'[g].id = ldap[g].id, job.pc \notin TeamSteps \cup {"join"},
             job.pc \in {"post", "write", "members"} => job.target # g \/ (job.pc = "post" /\ ~PostNew)
      PROVE  TeamRest(g)'
  <2>1. seen'[g] = seen[g] /\ Watched(ldap'[g]) = Watched(ldap[g])
    BY EntriesStay
  <2>2. ldap[g].id # 0 => ldap[g].id \in DOMAIN azure
    BY IdsThere
  <2>3. ldap[g].id # 0 /\ Doubtful(g) => Doubtful(g)'
    BY <1>a, <2>1, <2>2, DoubtStays DEF NamesStay
  <2> QED BY <1>a, <2>3, TeamRestAlone DEF TeamInv
<1>1. CASE job.pc = "post"
  <2>1. CASE PostNew /\ job.target = g
    BY <1>1, <2>1, TeamRestPosted
  <2>2. CASE ~(PostNew /\ job.target = g)
    BY <1>0, <1>1, <1>a, <2>2 DEF TeamSteps, Still
  <2> QED BY <2>1, <2>2
<1>2. CASE job.pc = "write"
  <2>1. CASE job.target = g
    BY <1>2, <2>1, TeamRestWritten
  <2>2. CASE job.target # g
    <3>1. Write
      BY <1>2, GoesOnFrom
    <3>2. ldap'[g] = ldap[g]
      BY <1>0, <2>2, <3>1, WriteData, Gives DEF Still
    <3> QED BY <1>0, <1>2, <1>a, <2>2, <3>2 DEF TeamSteps
  <2> QED BY <2>1, <2>2
<1>3. CASE job.pc = "members" /\ job.target = g
  BY <1>3, TeamRestFilled
<1>4. CASE job.pc = "forget"
  <2>1. Given(job.group, 0)
    BY <1>4, GoesOnFrom, ForgetData
  <2>2. CASE g = job.group
    BY <1>0, <2>1, <2>2, Gives DEF TeamRest
  <2>3. CASE g # job.group
    BY <1>0, <1>4, <1>a, <2>1, <2>3, Gives DEF TeamSteps
  <2> QED BY <2>2, <2>3
<1>5. CASE job.pc = "join"
  BY <1>5, TeamRestJoined
<1>6. CASE job.pc \in TeamSteps
  <2>1. CASE job.group # g \/ job.pc = "archive"
    BY <1>6, <2>1, TeamRestApart
  <2>2. CASE job.group = g /\ job.pc = "convert"
    BY <2>2, TeamRestConverted
  <2>3. CASE job.group = g /\ job.pc \in {"owners", "disown", "teams"}
    <3>1. Own /\ g = job.item
      BY <2>3, OwnCall DEF Creation, Own, CacheInv, InHand
    <3> QED BY <2>3, <3>1, TeamRestChanged
  <2> QED BY <1>6, <2>1, <2>2, <2>3 DEF TeamSteps
<1>7. CASE job.pc \in {"revive", "remove", "rename", "bury"}
  BY <1>7, TeamRestNamed
<1>8. CASE job.pc \notin TeamSteps \cup {"post", "write", "forget", "join", "revive", "remove", "rename", "bury"}
           /\ ~(job.pc = "members" /\ job.target = g)
  BY <1>0, <1>8, <1>a DEF Still
<1> QED BY <1>1, <1>2, <1>3, <1>4, <1>5, <1>6, <1>7, <1>8

\* When a call for a user ends, the teams of its groups are made or owed.
LEMMA EndedPromise ==
  ASSUME IInv, CacheInv, KindInv, MemberInv, [Next]_vars, Ended, NEW g \in Group, g \notin Owing'
  PROVE  ~Promised(g) /\ ~Broken(g)
<1>0. busy /\ job.item \in Group \cup User
  BY Fields DEF Ended, IInv
<1>1. ASSUME NEW c \in Cause \ {"team"} PROVE <<g, c>> \notin owed'
  BY <1>1 DEF Owing, Debtors
<1>2. ASSUME Promised(g) PROVE FALSE
  <2>1. job.pc \in Creation \cup {"convert"} /\ job.group = g
    BY <1>2 DEF Promised
  <2>2. WriteGone \/ NestedUnknown
    BY <2>1 DEF Ended, Finish, Raising, Ignore, GatherUnknown, RemoveStranger, ForgetNothing, ArchiveNothing,
       JoinGone, Creation
  <2>3. <<g, "gone">> \in owed' \/ <<g, "nested">> \in owed'
    BY <2>1, <2>2 DEF WriteGone, NestedUnknown, Raise, Left
  <2> QED BY <1>1, <2>3 DEF Cause
<1>3. ASSUME Broken(g) PROVE FALSE
  <2>1. job.item \in User /\ g \in job.todo
    BY <1>0, <1>3, Kept DEF Broken, CacheInv, InHand
  <2> QED BY <2>1, EndedOwes
<1> QED BY <1>2, <1>3

\* A call's end: the cache has then what the call has done.
LEMMA TeamRestEnds ==
  ASSUME IInv, IInv', CacheInv, KindInv, FreshInv, NameInv, KeepInv, MemberInv, TeamInv, [Next]_vars, Calm',
         Ended, NEW g \in Group, g \notin TeamOwing'
  PROVE  TeamRest(g)'
<1>0. /\ busy /\ azure' = azure /\ OwnersStay
      /\ ldap'[g].id = ldap[g].id /\ ldap'[g].life = ldap[g].life /\ Watched(ldap'[g]) = Watched(ldap[g])
      /\ job.item \in Group \cup User /\ ~busy' /\ ldap'[g] \in Entry
      /\ seen' = (IF job.item \in Group THEN [seen EXCEPT ![job.item] = job.new] ELSE seen)
  BY Fields, AzureStays, Kept DEF Ended, Return, busy, IInv, TypeOK
<1>1. ~AddMembers /\ ~PostNew
  <2>1. AddMembers \/ PostNew => job'.pc \in {"parents", "write"}
    BY <1>0, Fields DEF AddMembers, PostNew, Goto, Job, IInv
  <2> QED BY <2>1 DEF Ended, Return, Idle
<1>2. g \notin TeamOwing /\ TeamRest(g) /\ (g \notin Debtors(Cause)' => g \notin Debtors(Cause))
  BY <1>1, DebtsStay DEF TeamInv, TeamResting
<1>3. g \notin Debtors(Cause)' => ~Promised(g) /\ ~Broken(g) /\ g \notin Owing'
  BY AllDebts, EndedPromise
<1>4. CASE seen'[g] = seen[g]
  <2>1. ~Filled(g)'
    BY <1>0 DEF Filled
  <2>2. ldap[g].id # 0 /\ Doubtful(g) => Doubtful(g)'
    BY <1>0, <1>4, DoubtStays
  <2>3. ldap[g].id # 0 =>
           /\ Owned(seen[g], ldap[g], ldap[g].id) => Owned(seen[g], ldap[g], ldap[g].id)'
           /\ Formed(seen[g], ldap[g], ldap[g].id) => Formed(seen[g], ldap[g], ldap[g].id)'
    BY <1>0, <1>4, OwnedStays
  <2> QED BY <1>0, <1>2, <1>3, <1>4, <2>1, <2>2, <2>3, TeamRestStays
<1>5. CASE seen'[g] # seen[g]
  <2>1. Own /\ g = job.item /\ seen'[g] = job.new
    BY <1>0, <1>5, Kept DEF Own
  <2>2. SUFFICES ASSUME Here(g), ldap[g].id # 0, ~Doubtful(g)', g \notin Debtors(Cause)'
                 PROVE  Owned(seen[g], ldap[g], ldap[g].id)' /\ Formed(seen[g], ldap[g], ldap[g].id)'
    <3>1. Watched(job.new) = Watched(ldap[g]) /\ job.new.life = ldap[g].life
      BY <2>1 DEF FreshInv, Fresh
    <3>2. ~Replaced(g)' /\ ~Filled(g)'
      BY <1>0, <2>1, <3>1 DEF Replaced, Filled
    <3> QED BY <1>0, <2>1, <3>2 DEF TeamRest, Here
  <2>3. Watched(job.new) = Watched(ldap[g]) /\ job.new.life = "here" /\ job.old = seen[g] /\ job.pc = "done"
    BY <1>3, <2>1, <2>2, EndedOwes DEF FreshInv, Fresh, CacheInv, InHand, Own, Here
  <2>4. PICK i : i = ldap[g].id
    OBVIOUS
  <2>5. i # 0 /\ azure[i].name # Gone /\ i \in DOMAIN azure /\ g \notin Debtors(Cause)
    BY <1>0, <1>2, <2>2, <2>4, IdsThere DEF Doubtful
  <2>6. Owned(ldap[g], ldap[g], i) /\ Formed(ldap[g], ldap[g], i)
    <3>1. CASE Watched(job.old) # Watched(job.new)
      BY <2>1, <2>3, <2>4, <2>5, <3>1 DEF TeamInv, Past, PastTeams
    <3>2. CASE Watched(job.old) = Watched(job.new)
      <4>1. Watched(seen[g]) = Watched(ldap[g])
        BY <2>3, <3>2
      <4>2. ~Doubtful(g)
        BY <2>4, <2>5, <4>1 DEF Doubtful, Replaced
      <4>3. Owned(seen[g], ldap[g], i) /\ Formed(seen[g], ldap[g], i)
        BY <1>2, <1>3, <2>2, <2>4, <2>5, <4>2 DEF TeamRest
      <4>4. seen[g].team = ldap[g].team /\ seen[g].owners = ldap[g].owners
        BY <4>1 DEF Watched
      <4> QED BY <4>3, <4>4 DEF Owned, Formed
    <3> QED BY <3>1, <3>2
  <2>7. azure'[i].owners = azure[i].owners /\ azure'[i].team = azure[i].team /\ Waits(i)' = Waits(i)
    BY <1>0, <2>5 DEF OwnersStay, TeamStays
  <2>8. ldap'[g].id = i /\ Waits(ldap[g].id)' = Waits(i)
    BY <1>0, <2>4, <2>7, WaitsAt
  <2>9. /\ seen'[g].team = ldap[g].team /\ seen'[g].owners = ldap[g].owners
        /\ ldap'[g].team = ldap[g].team /\ ldap'[g].owners = ldap[g].owners
    BY <1>0, <2>1, <2>3 DEF Watched
  <2>10. Owned(seen[g], ldap[g], ldap[g].id)'
    BY <2>6, <2>7, <2>8, <2>9 DEF Owned
  <2>11. Formed(seen[g], ldap[g], ldap[g].id)'
    BY <2>6, <2>7, <2>8, <2>9 DEF Formed
  <2> QED BY <2>10, <2>11
<1> QED BY <1>4, <1>5

\* An administrator changes a group.
LEMMA TeamRestEdited ==
  ASSUME IInv, IInv', CacheInv, KindInv, FreshInv, NameInv, KeepInv, MemberInv, TeamInv, [Next]_vars, Calm',
         NEW h \in Group, NEW e \in Entry, Edit(h, e), NEW g \in Group, g \notin TeamOwing'
  PROVE  TeamRest(g)'
<1>0. /\ h \notin Range(queue) /\ queue' = Notify(h) /\ seen[h] = ldap[h] /\ ldap'[h] = e
      /\ \A k \in Group : k # h => ldap'[k] = ldap[k]
      /\ seen' = seen /\ azure' = azure /\ jobs' = jobs /\ job' = job /\ owed' = owed
      /\ known' = known /\ enabled' = enabled
  BY CalmPut DEF CacheInv, Settled
<1>1. OwnersStay /\ (g \in Debtors(Cause)' <=> g \in Debtors(Cause)) /\ (Filled(g)' <=> Filled(g)) /\ (Promised(g)' <=> Promised(g))
  BY <1>0, AzureStays DEF Debtors, Filled, Promised, busy
<1>2. TeamRest(g)
  BY <1>0 DEF TeamInv, TeamResting, TeamOwing, Debtors
<1>3. CASE g # h
  <2>1. ldap'[g] = ldap[g]
    BY <1>0, <1>3
  <2>2. ldap[g].id # 0 /\ Doubtful(g) => Doubtful(g)'
    BY <1>0, <2>1, DoubtStays
  <2>3. ldap[g].id # 0 =>
           /\ Owned(seen[g], ldap[g], ldap[g].id) => Owned(seen[g], ldap[g], ldap[g].id)'
           /\ Formed(seen[g], ldap[g], ldap[g].id) => Formed(seen[g], ldap[g], ldap[g].id)'
    BY <1>0, <1>1, <2>1, OwnedStays
  <2>4. Broken(g) => Broken(g)'
    BY <1>0, <2>1, Notified DEF Broken, busy
  <2> QED BY <1>0, <1>1, <1>2, <2>1, <2>2, <2>3, <2>4, TeamRestStays
<1>4. CASE g = h
  <2>1. SUFFICES ASSUME Here(g)', ldap'[g].id # 0, ~Doubtful(g)' PROVE TeamRest(g)'
    BY DEF TeamRest
  <2>2. PICK i : i = ldap[g].id
    OBVIOUS
  <2>3. Here(g) /\ ldap'[g].id = i /\ i # 0
    BY <1>0, <1>4, <2>1, <2>2 DEF Edit
  <2>4. ~Replaced(g) /\ ~Replaced(g)' /\ ~Doubtful(g)
    BY <1>0, <1>4, <2>1, <2>2, <2>3 DEF Replaced, Doubtful
  <2>5. i \in DOMAIN azure
    BY <2>2, <2>3, IdsThere
  <2>6. azure'[i].owners = azure[i].owners /\ azure'[i].team = azure[i].team /\ Waits(i)' = Waits(i)
    BY <1>1, <2>5 DEF OwnersStay, TeamStays
  <2>7. Waits(ldap[g].id)' = Waits(i)
    BY <2>3, <2>6, WaitsAt
  <2>8. ~Broken(g)
    BY <1>0, <1>4 DEF Broken
  <2>9. Owned(ldap[g], ldap[g], i) => Owned(seen[g], ldap[g], ldap[g].id)'
    BY <1>0, <1>4, <2>3, <2>6, <2>7 DEF Owned
  <2>10. Formed(ldap[g], ldap[g], i) => Formed(seen[g], ldap[g], ldap[g].id)'
    BY <1>0, <1>4, <2>3, <2>6, <2>7 DEF Formed
  <2> QED BY <1>0, <1>1, <1>2, <1>4, <2>2, <2>3, <2>4, <2>8, <2>9, <2>10 DEF TeamRest
<1> QED BY <1>3, <1>4

\* Nothing but names and users changes, or a call begins.
LEMMA TeamRestBegins ==
  ASSUME IInv, IInv', CacheInv, KindInv, FreshInv, NameInv, KeepInv, MemberInv, TeamInv, [Next]_vars, Calm',
         NEW g \in Group, g \notin TeamOwing',
         (\E u \in User : Switch(u)) \/ Purge \/ Clean \/ Start \/ Enable \/ Disable \/ Ignored \/ UNCHANGED vars
  PROVE  TeamRest(g)'
<1>0. /\ seen' = seen /\ ldap' = ldap /\ owed \subseteq owed'
      /\ busy /\ busy' => job' = job
  <2>1. CASE (\E u \in User : Switch(u)) \/ Purge \/ Clean \/ Disable \/ Ignored \/ UNCHANGED vars
    BY <2>1 DEF Switch, Change, Purge, Clean, Disable, Ignored, vars
  <2>2. CASE Start \/ Enable
    BY <2>2, Zenon DEF Start, StartCreate, StartModify, StartDelete, Enable
  <2> QED BY <2>1, <2>2
<1>1. TeamRest(g) /\ (g \notin Debtors(Cause)' => g \notin Debtors(Cause))
  BY <1>0 DEF TeamInv, TeamResting, TeamOwing, Debtors
<1>2. \A i \in DOMAIN azure : /\ azure'[i].name = azure[i].name \/ azure'[i].name \in {Renamed, Gone}
                              /\ azure[i].name = Gone => azure'[i].name = Gone
  <2>1. CASE Purge \/ Clean
    BY <2>1, PurgeNames
  <2>2. CASE Disable
    <3>1. \A i \in DOMAIN azure : azure[i] \in AzureGroup
      BY Kept
    <3> QED BY <2>2, <3>1 DEF Disable, AzureGroup
  <2>3. CASE (\E u \in User : Switch(u)) \/ Start \/ Enable \/ Ignored \/ UNCHANGED vars
    BY <2>3, Zenon DEF Switch, Change, Start, Enable, Ignored, vars
  <2> QED BY <2>1, <2>2, <2>3
<1>3. ldap[g].id # 0 /\ Doubtful(g) => Doubtful(g)'
  BY <1>0, <1>2, IdsThere, DoubtStays
<1>4. OwnersStay
  <2>1. CASE (\E u \in User : Switch(u)) \/ Start \/ Enable \/ Ignored \/ UNCHANGED vars
    <3>1. azure' = azure /\ jobs' = jobs
      BY <2>1, Zenon DEF Switch, Change, Start, Enable, Ignored, vars
    <3> QED BY <3>1, AzureStays
  <2>2. CASE Purge \/ Clean \/ Disable
    <3>1. ~busy /\ jobs' = jobs
      BY <2>2 DEF Purge, Clean, Disable
    <3>2. ~RunJob
      BY <3>1, Kept DEF RunJob
    <3> QED BY <3>1, <3>2, TeamsOutside
  <2> QED BY <2>1, <2>2
<1>5. ldap[g].id # 0 =>
        /\ Owned(seen[g], ldap[g], ldap[g].id) => Owned(seen[g], ldap[g], ldap[g].id)'
        /\ Formed(seen[g], ldap[g], ldap[g].id) => Formed(seen[g], ldap[g], ldap[g].id)'
        /\ Broken(g) => azure'[ldap'[g].id].team = "none"
  BY <1>0, <1>4, OwnedStays
<1>6. Filled(g)' => Filled(g)
  <2>1. CASE Start
    BY <2>1, Starting DEF Begun, Filled
  <2>2. CASE Enable
    BY <2>2, Enabling DEF Filled
  <2>3. CASE ~Start /\ ~Enable
    <3>1. job' = job
      BY <2>3 DEF Switch, Change, Purge, Clean, Disable, Ignored, vars
    <3> QED BY <3>1 DEF Filled, busy
  <2> QED BY <2>1, <2>2, <2>3
<1>7. Promised(g) => Promised(g)'
  <2>1. CASE Start \/ Enable
    BY <2>1 DEF Start, Enable, Promised
  <2>2. CASE ~Start /\ ~Enable
    <3>1. job' = job
      BY <2>2 DEF Switch, Change, Purge, Clean, Disable, Ignored, vars
    <3> QED BY <3>1 DEF Promised, busy
  <2> QED BY <2>1, <2>2
<1>8. ASSUME Broken(g), ldap[g].id # 0, Here(g) PROVE Broken(g)'
  <2>0. /\ queue # <<>> /\ Head(queue) \in (enabled \ known) \cap ldap[g].users
        /\ g \in Range(queue) /\ azure'[ldap'[g].id].team = "none"
        /\ Head(queue) = queue[1] /\ Head(queue) \in User
    BY <1>5, <1>8, Kept DEF Broken
  <2>1. CASE \E u \in User : Switch(u)
    <3>1. PICK u \in User : Switch(u)
      BY <2>1
    <3>2. /\ queue' = Notify(u) /\ u \notin Range(queue) /\ job' = job /\ known' = known
          /\ enabled' \in {enabled \cup {u}, enabled \ {u}}
      BY <3>1 DEF Switch, Change, Calm
    <3>3. Head(queue) \in Range(queue)
      BY <2>0, Kept, RangeTail
    <3> QED BY <1>0, <1>8, <2>0, <3>2, <3>3, Notified DEF Broken, busy
  <2>2. CASE Purge \/ Clean \/ UNCHANGED vars
    <3>1. UNCHANGED <<queue, enabled, known, job>>
      BY <2>2 DEF Purge, Clean, vars, people, standing
    <3> QED BY <1>0, <1>8, <2>0, <3>1 DEF Broken, busy
  <2>3. ~Start
    BY <2>0, GroupOrUser DEF Start
  <2>4. CASE Enable
    <3>1. /\ job'.item = Head(queue) /\ job'.todo = {h \in Group : Here(h) /\ job'.item \in ldap[h].users}
          /\ Still /\ enabled' = enabled /\ known' = known
      BY <2>4, Enabling
    <3>2. g \in job'.todo
      BY <1>8, <2>0, <3>1
    <3> QED BY <2>0, <3>1, <3>2 DEF Broken, Still
  <2>5. ~Disable /\ ~Ignored
    BY <2>0 DEF Disable, Ignored
  <2> QED BY <2>1, <2>2, <2>3, <2>4, <2>5
<1> QED BY <1>0, <1>1, <1>3, <1>5, <1>6, <1>7, <1>8, TeamRestStays

\* The daemon does a job: whoever waited has the owners then, and is a team.
LEMMA TeamRestRun ==
  ASSUME IInv, IInv', CacheInv, KindInv, FreshInv, NameInv, KeepInv, MemberInv, TeamInv, [Next]_vars, Calm',
         RunJob, NEW g \in Group, g \notin TeamOwing'
  PROVE  TeamRest(g)'
<1>0. UNCHANGED <<seen, ldap, queue, enabled, known, job>> /\ NamesStay
  BY RunJobNames DEF RunJob, people, standing
<1>1. SUFFICES ASSUME Here(g), ldap[g].id # 0, ~Doubtful(g)' PROVE TeamRest(g)'
  BY <1>0 DEF TeamRest, Here
<1>2. PICK i : i = ldap[g].id
  OBVIOUS
<1>3. i \in DOMAIN azure /\ i # 0 /\ azure'[i].name = azure[i].name
  BY <1>0, <1>1, <1>2, IdsThere DEF NamesStay
<1>4. ~Doubtful(g) /\ (Replaced(g)' <=> Replaced(g)) /\ azure[i].name # Gone
  BY <1>0, <1>1, <1>2, <1>3 DEF Doubtful, Replaced
<1>5. /\ owed \subseteq owed'
      /\ \/ TeamStays(i)
         \/ \E O \in Waits(i) :
              /\ azure'[i].owners = azure[i].owners \cup O /\ Waits(i)' \subseteq Waits(i)
              /\ azure'[i].team = "active" \/ \A h \in Group : ldap[h].id = i => <<h, "team">> \in owed'
  BY <1>3, <1>4, RunTeams
<1>6. /\ g \notin TeamOwing /\ <<g, "team">> \notin owed'
      /\ g \notin Debtors(Cause)' => g \notin Debtors(Cause)
  BY <1>5 DEF TeamOwing, Debtors
<1>7. Waits(ldap[g].id)' = Waits(i)'
  BY <1>0, <1>2, WaitsAt
<1>8. TeamRest(g) /\ (Filled(g)' <=> Filled(g)) /\ (Promised(g)' <=> Promised(g))
  BY <1>0, <1>6 DEF TeamInv, TeamResting, Filled, Promised, busy
<1>9. CASE TeamStays(i)
  <2>1. /\ Owned(seen[g], ldap[g], i) => Owned(seen[g], ldap[g], ldap[g].id)'
        /\ Formed(seen[g], ldap[g], i) => Formed(seen[g], ldap[g], ldap[g].id)'
        /\ Broken(g) => Broken(g)'
    BY <1>0, <1>2, <1>7, <1>9 DEF TeamStays, Owned, Formed, Broken, busy
  <2> QED BY <1>0, <1>1, <1>2, <1>4, <1>6, <1>8, <2>1 DEF TeamRest
<1>10. CASE ~TeamStays(i)
  <2>1. PICK O \in Waits(i) : /\ azure'[i].owners = azure[i].owners \cup O /\ Waits(i)' \subseteq Waits(i)
                              /\ azure'[i].team = "active"
    BY <1>2, <1>5, <1>6, <1>10
  <2>2. Owned(seen[g], ldap[g], i) =>
          Owned(seen[g], ldap[g], ldap[g].id)' /\ Formed(seen[g], ldap[g], ldap[g].id)'
    BY <1>0, <1>2, <1>7, <2>1 DEF Owned, Formed
  <2> QED BY <1>0, <1>1, <1>2, <1>4, <1>6, <1>8, <2>2 DEF TeamRest
<1> QED BY <1>9, <1>10

\* The listener is killed: a user who waits for it brings it to the team again.
LEMMA TeamRestKilled ==
  ASSUME IInv, IInv', CacheInv, KindInv, FreshInv, NameInv, KeepInv, MemberInv, TeamInv, [Next]_vars, Calm',
         Crash, NEW g \in Group, g \notin TeamOwing'
  PROVE  TeamRest(g)'
<1>0. UNCHANGED <<seen, ldap, queue, enabled, known, azure, jobs>> /\ owed \subseteq owed' /\ busy /\ ~busy'
  BY DEF Crash, people, standing, busy
<1>1. TeamRest(g) /\ (g \notin Debtors(Cause)' => g \notin Debtors(Cause)) /\ g \notin TeamOwing
  BY <1>0 DEF TeamInv, TeamResting, TeamOwing, Debtors
<1>2. ~Filled(g)'
  BY <1>0 DEF Filled
<1>3. OwnersStay
  BY <1>0, AzureStays
<1>4. ldap[g].id # 0 =>
        /\ Owned(seen[g], ldap[g], ldap[g].id) => Owned(seen[g], ldap[g], ldap[g].id)'
        /\ Formed(seen[g], ldap[g], ldap[g].id) => Formed(seen[g], ldap[g], ldap[g].id)'
        /\ Broken(g) => azure'[ldap'[g].id].team = "none"
  BY <1>0, <1>3, OwnedStays
<1>5. ldap[g].id # 0 /\ Doubtful(g) => Doubtful(g)'
  BY <1>0, DoubtStays
<1>6. Broken(g) => Broken(g)'
  BY <1>0 DEF Broken
<1>7. ASSUME Promised(g), Here(g), ldap[g].id # 0, ~Doubtful(g)
      PROVE  Broken(g)' \/ Formed(seen[g], ldap[g], ldap[g].id)'
  <2>1. job.item \in User /\ job.group = g /\ job.pc \in Creation \cup {"convert"}
    BY <1>7 DEF Promised
  <2>2. queue # <<>> /\ Head(queue) = job.item /\ job.item \in enabled \ known
    BY <1>0, <2>1 DEF IInv, Steps, CacheInv, InHand, MemberInv, UsersInv, UserSteps, TeamInv, Unknown
  <2>3. ~(job.pc \in {"post", "write"} /\ job.target = g)
    BY <1>0, <1>7, <2>1, GroupOrUser DEF NameInv, AtPost, Creation
  <2>4. /\ job.item \in seen[g].users \cup ldap[g].users
        /\ ldap[g].id = job.id /\ g \in Range(queue) /\ Blank(job.id)
        /\ Watched(seen[g]) = Watched(ldap[g]) \/ seen[g].id = 0
    BY <1>0, <1>1, <1>7, <2>1, <2>3 DEF TeamInv, Forming, Creation
  <2>5. CASE Watched(seen[g]) = Watched(ldap[g])
    <3>1. seen[g].users = ldap[g].users
      BY <2>5 DEF Watched
    <3> QED BY <1>0, <2>2, <2>4, <3>1 DEF Broken, Blank
  <2>6. CASE Watched(seen[g]) # Watched(ldap[g])
    BY <1>0, <1>7, <2>4, <2>6 DEF Doubtful, Replaced, Formed
  <2> QED BY <2>5, <2>6
<1> QED BY <1>0, <1>1, <1>2, <1>4, <1>5, <1>6, <1>7, TeamRestStays

LEMMA TeamRestingNext ==
  ASSUME IInv, IInv', CacheInv, KindInv, FreshInv, NameInv, KeepInv, MemberInv, TeamInv, [Next]_vars, Calm'
  PROVE  TeamResting'
<1>1. SUFFICES ASSUME NEW g \in Group, g \notin TeamOwing' PROVE TeamRest(g)'
  BY DEF TeamResting
<1>2. CASE \E h \in Group, e \in Entry : Edit(h, e)
  BY <1>1, <1>2, TeamRestEdited
<1>3. CASE (\E u \in User : Switch(u)) \/ Purge \/ Clean \/ Start \/ Enable \/ Disable \/ Ignored \/ UNCHANGED vars
  BY <1>1, <1>3, TeamRestBegins
<1>4. CASE RunJob
  BY <1>1, <1>4, TeamRestRun
<1>5. CASE Crash
  BY <1>1, <1>5, TeamRestKilled
<1>6. CASE (busy /\ (Finish \/ Raising \/ Ignore)) \/ Fails
  BY <1>1, <1>6, Ends, TeamRestEnds
<1>7. CASE busy /\ Advancing
  BY <1>1, <1>7, TeamRestAdvance
<1> QED BY <1>2, <1>3, <1>4, <1>5, <1>6, <1>7, Kinds

\* What else happens during a call takes nothing from the queue,
LEMMA QueueAside ==
  ASSUME IInv, IInv', [Next]_vars, Calm', busy, busy', ~Advancing
  PROVE  Range(queue) \subseteq Range(queue')
<1>1. ~((busy /\ (Finish \/ Raising \/ Ignore)) \/ Fails)
  BY Ends DEF Ended, Return, busy
<1>2. queue' = queue \/ \E x \in Group \cup User : queue' = Notify(x)
  BY <1>1, Kinds, Zenon DEF Edit, Put, Switch, Change, Purge, Clean, Start, Enable, Disable,
     Ignored, RunJob, Crash, vars, busy
<1> QED BY <1>2, Notified

\* and does nothing to a group without owners, team and jobs.
LEMMA BlankAside ==
  ASSUME IInv, IInv', [Next]_vars, Calm', busy, ~Advancing, NEW i \in DOMAIN azure, Blank(i)
  PROVE  Blank(i)'
<1>1. TeamStays(i)
  <2>1. CASE RunJob
    BY <2>1, RunTeams DEF Blank
  <2>2. CASE ~RunJob
    BY <2>2, TeamsOutside DEF OwnersStay
  <2> QED BY <2>1, <2>2
<1> QED BY <1>1 DEF Blank, TeamStays

\* The group just made has none after the step.
LEMMA BlankMade ==
  ASSUME NEW i, i = job'.made, Blank(i)'
  PROVE  Blank(job.made)'
BY DEF Blank, Waits

LEMMA UnknownNext ==
  ASSUME IInv, IInv', CacheInv, KindInv, FreshInv, NameInv, KeepInv, MemberInv, TeamInv, [Next]_vars, Calm'
  PROVE  Unknown'
<1>1. CASE busy /\ Advancing
  BY <1>1, AdvancingStep, PeopleStay DEF Onward, Keeps, people, standing, TeamInv, Unknown
<1>2. CASE Start
  BY <1>2, Starting, GroupOrUser DEF Begun, Unknown
<1>3. CASE Enable
  BY <1>3, Enabling DEF Unknown
<1>4. CASE busy /\ busy' /\ ~Advancing
  BY <1>4, Aside DEF TeamInv, Unknown, MemberInv, UsersInv
<1> QED BY <1>1, <1>2, <1>3, <1>4, Elsewhere DEF Unknown

LEMMA WrittenNext ==
  ASSUME IInv, IInv', CacheInv, KindInv, FreshInv, NameInv, KeepInv, MemberInv, TeamInv, [Next]_vars, Calm'
  PROVE  Written'
<1>1. CASE busy /\ Advancing
  <2>0. Onward /\ job \in Job /\ job.pc \in PC /\ job.target \in Group /\ seen' = seen
        /\ job.then \in {"convert", "owners", "gather"}
    BY <1>1, AdvancingStep, Fields, EntriesStay DEF IInv
  <2>1. CASE job.pc = "post"
    <3>1. PostNew \/ PostTake
      BY <1>1, <2>1, GoesOnFrom
    <3>2. job'.pc = "write" /\ job'.target = job.target /\ job'.group = job.group /\ job'.cur = job.cur
      BY <2>0, <2>1 DEF Onward, Keeps, Flow
    <3>3. SUFFICES ASSUME job.target \notin TeamOwing'
                   PROVE  /\ job'.made # job.cur.id => Blank(job.made)'
                          /\ job.target # job.group => ~(job.cur.team /\ seen[job.target].team)
      BY <2>0, <3>2 DEF Written
    <3>4. <<job.target, "team">> \notin owed'
      BY <2>0, <3>3 DEF TeamOwing, Debtors
    <3>5. CASE PostNew
      <4>1. PICK i : i = Len(azure) + 1
        OBVIOUS
      <4>2. job'.made = i /\ azure' = Append(azure, Parse(job.cur)) /\ jobs' = jobs /\ ~Unconverted
        BY <2>0, <3>4, <3>5, <4>1 DEF PostNew, Job
      <4>3. azure'[i] = Parse(job.cur)
        BY <4>1, <4>2, Kept
      <4>4. Waits(i) = {}
        <5>1. \A k \in DOMAIN jobs : jobs[k].id # i
          BY <4>1, Kept DEF IInv, IdsOfGroups, Known
        <5> QED BY <5>1 DEF Waits
      <4>5. Waits(i)' = {}
        BY <4>2, <4>4, WaitsStay
      <4>6. Blank(i)'
        BY <4>3, <4>5 DEF Blank, Parse
      <4>7. Blank(job.made)'
        BY <4>2, <4>6, BlankMade
      <4> QED BY <4>2, <4>7 DEF Unconverted
    <3>6. CASE PostTake
      <4>1. PICK i \in Called(job.cur.name) :
              LET r == azure[i]
                  taken == i # job.cur.id
                  team == r.owners # {} \/ r.team # "none" \/ \E k \in DOMAIN jobs : jobs[k].id = i IN
              /\ job' = [job EXCEPT !.pc = "write", !.made = i]
              /\ owed' = owed
                   \cup (IF taken /\ r.members # {} THEN {<<job.target, "heir">>} ELSE {})
                   \cup (IF (taken /\ team) \/ Unconverted THEN {<<job.target, "team">>} ELSE {})
        BY <3>6 DEF PostTake
      <4>2. job'.made = i /\ azure' = azure /\ jobs' = jobs
        BY <2>0, <3>6, <4>1 DEF PostTake, Job
      <4>3. /\ ~Unconverted
            /\ i # job.cur.id => /\ azure[i].owners = {} /\ azure[i].team = "none"
                                 /\ \A k \in DOMAIN jobs : jobs[k].id # i
        BY <3>4, <4>1
      <4>4. i # job.cur.id => Waits(i) = {}
        BY <4>3 DEF Waits
      <4>5. Waits(i)' = Waits(i)
        BY <4>2, WaitsStay
      <4>6. i # job.cur.id => Blank(i)'
        BY <4>2, <4>3, <4>4, <4>5 DEF Blank
      <4>7. i # job.cur.id => Blank(job.made)'
        BY <4>2, <4>6, BlankMade
      <4> QED BY <3>2, <4>2, <4>3, <4>7 DEF Unconverted
    <3> QED BY <3>1, <3>5, <3>6
  <2>2. CASE job.pc # "post"
    <3>1. SUFFICES ASSUME job'.pc \in {"write", "team", "members"}, job'.target \notin TeamOwing', job'.target # job'.group
                   PROVE  job'.pc # "write" /\ ~(job'.cur.team /\ seen'[job'.target].team)
      <4>1. job'.pc # "write"
        BY <2>0, <2>2 DEF Onward, Flow, PC
      <4> QED BY <3>1, <4>1 DEF Written
    <3>2. job.pc \in {"write", "team"} /\ job'.pc # "write"
      BY <2>0, <2>2, <3>1 DEF Onward, Flow, PC
    <3>3. job'.target = job.target /\ job'.group = job.group
      BY <2>0, <3>1, <3>2 DEF Onward, Keeps
    <3>4. job'.cur.team = job.cur.team
      <4>1. CASE job.pc = "write"
        <5>1. job'.cur = [job.cur EXCEPT !.id = job.made, !.alias = TRUE] /\ job.cur \in Entry
          BY <1>1, <2>0, <4>1, GoesOnFrom DEF Write, Job
        <5> QED BY <5>1 DEF Entry
      <4>2. CASE job.pc = "team"
        BY <2>0, <3>1, <4>2 DEF Onward, Keeps, Flow
      <4> QED BY <3>2, <4>1, <4>2
    <3>5. job.target \notin TeamOwing
      BY <2>0, <2>2, <3>1, <3>3, TeamOwedStays
    <3> QED BY <1>1, <2>0, <3>1, <3>2, <3>3, <3>4, <3>5 DEF TeamInv, Written
  <2> QED BY <2>1, <2>2
<1>2. CASE Start
  BY <1>2, Starting DEF Begun, Written
<1>3. CASE Enable
  BY <1>3, Enabling DEF Written
<1>4. CASE busy /\ busy' /\ ~Advancing
  <2>1. job' = job /\ seen' = seen /\ job.target \in Group
    BY <1>4, Aside, Fields DEF MemberInv, UsersInv, IInv
  <2>2. SUFFICES ASSUME job.target \notin TeamOwing'
                 PROVE  /\ job.pc = "write" /\ job.made # job.cur.id => Blank(job.made)'
                        /\ job.pc \in {"write", "team", "members"} /\ job.target # job.group =>
                              ~(job.cur.team /\ seen[job.target].team)
    BY <2>1 DEF Written
  <2>3. job.target \notin TeamOwing
    BY <1>4, <2>1, <2>2, TeamOwedStays DEF Advancing
  <2>4. PICK i : i = job.made
    OBVIOUS
  <2>5. job.pc = "write" /\ i # job.cur.id => Blank(i)'
    BY <1>4, <2>3, <2>4, CallIds, BlankAside DEF TeamInv, Written
  <2>6. job.pc = "write" /\ job.made # job.cur.id => Blank(job.made)'
    BY <2>1, <2>4, <2>5, BlankMade
  <2> QED BY <1>4, <2>1, <2>3, <2>6 DEF TeamInv, Written
<1> QED BY <1>1, <1>2, <1>3, <1>4, Elsewhere DEF Written

LEMMA AnewNext ==
  ASSUME IInv, IInv', CacheInv, KindInv, FreshInv, NameInv, KeepInv, MemberInv, TeamInv, [Next]_vars, Calm'
  PROVE  Anew'
<1>1. CASE busy /\ Advancing
  <2>0. Onward /\ job \in Job /\ job.pc \in PC /\ job.then \in {"convert", "owners", "gather"}
    BY <1>1, AdvancingStep, Fields DEF IInv
  <2>1. SUFFICES ASSUME Own' PROVE Anew'
    BY DEF Anew
  <2>2. Own /\ job'.item = job.item /\ job'.old = job.old
    BY <1>1, <2>0, <2>1 DEF Onward, Keeps, Own
  <2>3. ASSUME job'.pc \in {"team", "members"}, job'.target = job.item
        PROVE  job'.old.id # job'.made /\ job'.then # "gather"
    <3>1. job.pc \in {"write", "team"} /\ job'.target = job.target /\ job'.made = job.made /\ job'.then = job.then
      BY <2>0, <2>3 DEF Onward, Flow, Keeps, PC
    <3>2. CASE job.pc = "team"
      BY <2>2, <2>3, <3>1, <3>2 DEF TeamInv, Anew
    <3>3. CASE job.pc = "write"
      <4>1. /\ azure[job.made].name = job.cur.name /\ job.cur.name \in Claim(job.item)
            /\ job.then # "gather" /\ (job.old.id = 0 \/ azure[job.old.id].name = Gone)
        BY <1>1, <2>2, <2>3, <3>1, <3>3 DEF NameInv, AtPost, Creation
      <4>2. job.cur.name # Gone /\ job.made # 0
        BY <1>1, <2>2, <3>3, <4>1, ClaimNames, NamesAssumption DEF Own, IInv, Steps, Handling
      <4> QED BY <2>2, <3>1, <4>1, <4>2
    <3> QED BY <3>1, <3>2, <3>3
  <2>4. ASSUME job'.pc = "parents" PROVE job'.made # 0
    BY <1>1, <2>0, <2>4 DEF Onward, Flow, Keeps, PC, IInv, Steps, Handling
  <2>5. ASSUME job'.pc = "convert" PROVE job'.then = "convert"
    BY <2>0, <2>5 DEF Onward, Flow, Keeps, PC
  <2>6. ASSUME job'.pc = "revive" PROVE job'.old.id \in {0, job'.id}
    <3>1. job.pc = "get" /\ job'.id = job.id
      BY <2>0, <2>6 DEF Onward, Flow, Keeps, PC
    <3> QED BY <2>2, <3>1 DEF NameInv, AtGet
  <2>7. ASSUME job'.pc = "owners", job'.made = 0 PROVE job'.old.id \in {0, job'.id}
    <3>1. job.pc \in {"parents", "revive"} /\ job'.made = job.made /\ job'.id = job.id
      BY <2>0, <2>7 DEF Onward, Flow, Keeps, PC
    <3> QED BY <2>2, <2>7, <3>1 DEF TeamInv, Anew
  <2>8. ASSUME job'.pc = "rename", ldap'[job.item].id # 0 PROVE azure'[job'.id].name # Renamed
    <3>1. job.pc \in {"remove", "forget"} /\ job'.id = job.id
      BY <2>0, <2>8 DEF Onward, Flow, Keeps, PC
    <3>2. CASE job.pc = "forget"
      <4>1. Given(job.item, 0) /\ job.item \in Group
        BY <1>1, <2>2, <3>2, GoesOnFrom, ForgetData DEF CacheInv, InHand, Own
      <4> QED BY <2>8, <4>1, Gives
    <3>3. CASE job.pc = "remove"
      <4>1. KeepGroup
        <5>1. ~RemoveMember /\ ~RemoveEmpty
          BY <2>0, <2>8, <3>3 DEF RemoveMember, RemoveEmpty, Drop, Goto, Job
        <5> QED BY <1>1, <3>3, <5>1, GoesOnFrom
      <4>2. azure[job.id].name # Renamed /\ azure' = azure
        BY <2>2, <3>3, <4>1 DEF KeepInv, Alive, Working, Changing, KeepGroup
      <4> QED BY <3>1, <4>2
    <3> QED BY <3>1, <3>2, <3>3
  <2> QED BY <2>2, <2>3, <2>4, <2>5, <2>6, <2>7, <2>8 DEF Anew
<1>2. CASE Start
  BY <1>2, Starting DEF Begun, Anew
<1>3. CASE Enable
  BY <1>3, Enabling, GroupOrUser DEF Anew, Own
<1>4. CASE busy /\ busy' /\ ~Advancing
  <2>1. job' = job /\ NamesStay
    BY <1>4, Aside DEF MemberInv, UsersInv
  <2>2. Own => ldap'[job.item].id = ldap[job.item].id
    <3>1. SUFFICES ASSUME Own PROVE ldap'[job.item].id = ldap[job.item].id
      OBVIOUS
    <3>2. job.item \in Group
      BY <3>1 DEF Own
    <3> QED BY <1>4, <3>2, Aside DEF MemberInv, UsersInv
  <2>3. job.pc = "rename" => job.id \in DOMAIN azure
    BY <1>4, Mine, Kept DEF Loose
  <2>4. job.pc = "rename" => azure'[job.id].name = azure[job.id].name
    BY <2>1, <2>3 DEF NamesStay
  <2>5. Own' <=> Own
    BY <1>4, <2>1 DEF Own
  <2> QED BY <2>1, <2>2, <2>4, <2>5 DEF TeamInv, Anew
<1> QED BY <1>1, <1>2, <1>3, <1>4, Elsewhere DEF Anew, Own

\* What Forming says of the group g and the objectId i of the call.
FormingAt(g, i) ==
  /\ job.item \in seen[g].users \cup ldap[g].users
  /\ Watched(job.new) \in {Watched(seen[g]), Watched(ldap[g])}
  /\ job.pc \in {"team", "members", "parents", "convert"} \/ job.target # g =>
       /\ Here(g) /\ ldap[g].id = i /\ i # 0 /\ g \in Range(queue)
       /\ Watched(seen[g]) = Watched(ldap[g]) \/ seen[g].id = 0
       /\ g \notin TeamOwing => Blank(i)

LEMMA FormingThere ==
  ASSUME IInv, Forming, busy, job.item \in User, job.pc \in Creation \cup {"convert"},
         NEW g, g = job.group, NEW i, i = job.id
  PROVE  FormingAt(g, i)
BY DEF Forming, Promised, FormingAt, Blank, Waits

LEMMA FormingOf ==
  ASSUME NEW g, g = job'.group, NEW i, i = job'.id,
         busy' /\ job'.item \in User /\ job'.pc \in Creation \cup {"convert"} => FormingAt(g, i)'
  PROVE  Forming'
BY DEF Forming, Promised, FormingAt, Blank, Waits

\* A call's own step.
LEMMA FormingAdvance ==
  ASSUME IInv, IInv', CacheInv, KindInv, FreshInv, NameInv, KeepInv, MemberInv, TeamInv, [Next]_vars, Calm',
         busy, Advancing
  PROVE  Forming'
<1>0. /\ Onward /\ job \in Job /\ job.pc \in PC /\ job.target \in Group /\ job.group \in Group
      /\ seen' = seen /\ job' \in Job
      /\ \A g \in Group : Watched(ldap'[g]) = Watched(ldap[g]) /\ (Here(g)' <=> Here(g)) /\ ldap'[g].users = ldap[g].users
  BY AdvancingStep, Fields, EntriesStay DEF IInv, Onward, Watched
<1>1. PICK g, i : g = job'.group /\ i = job'.id
  OBVIOUS
<1>2. SUFFICES ASSUME job'.item \in User, job'.pc \in Creation \cup {"convert"}
               PROVE  FormingAt(g, i)'
  BY <1>1, FormingOf
<1>3. g \in Group /\ job.item \in User /\ job'.item = job.item
  BY <1>0, <1>1, <1>2 DEF Onward, Keeps, Job
<1>4. CASE job.pc = "join"
  <2>1. job'.pc = "post"
    BY <1>0, <1>2, <1>4 DEF Onward, Flow, Creation
  <2>2. PICK h \in job.todo \cap Group : JoinNew(h)
    <3>1. ~Joined /\ \A h : ~JoinGroup(h)
      BY <1>0, <1>4, <2>1 DEF Joined, JoinGroup, Goto, Drop, Job
    <3> QED BY <1>4, <3>1, GoesOnFrom DEF Join
  <2>3. job'.group = h /\ job'.new = ldap[h] /\ job'.target = h
    BY <1>0, <2>2 DEF JoinNew, Job
  <2>4. job.item \in seen[h].users \cup ldap[h].users
    BY <1>3, <2>2 DEF MemberInv, Joins
  <2> QED BY <1>0, <1>1, <1>3, <2>1, <2>3, <2>4 DEF FormingAt
<1>5. CASE job.pc # "join"
  <2>1. job.pc \in Creation
    BY <1>0, <1>2, <1>3, <1>5, UserCall DEF Onward, Flow, Creation
  <2>2. job'.group = job.group /\ job'.new = job.new
    BY <1>0, <1>5 DEF Onward, Keeps
  <2>3. PICK j : j = job.id
    OBVIOUS
  <2>4. FormingAt(g, j)
    BY <1>1, <1>3, <2>1, <2>2, <2>3, FormingThere DEF TeamInv
  <2>5. job'.item \in seen'[g].users \cup ldap'[g].users /\ Watched(job'.new) \in {Watched(seen'[g]), Watched(ldap'[g])}
    BY <1>0, <1>3, <2>2, <2>4 DEF FormingAt
  <2>6. Range(queue) \subseteq Range(queue') /\ OwnersStay
    BY <2>1, QueueAdvance, TeamsAlone DEF Creation, TeamSteps
  <2>7. CASE job.pc \in {"team", "members", "parents"} \/ job.target # g
    <3>1. Here(g) /\ ldap[g].id = j /\ j # 0 /\ g \in Range(queue)
          /\ (Watched(seen[g]) = Watched(ldap[g]) \/ seen[g].id = 0) /\ (g \notin TeamOwing => Blank(j))
      BY <2>4, <2>7 DEF FormingAt
    <3>2. i = j /\ ldap'[g].id = j
      <4>1. CASE job.pc = "write"
        <5>1. job'.id = job.id
          BY <1>0, <1>1, <2>2, <2>7, <4>1, GoesOnFrom DEF Write, Job
        <5>2. ldap'[g].id = ldap[g].id
          BY <1>0, <1>1, <1>3, <2>2, <2>7, <4>1, GoesOnFrom, WriteData, Gives, Mine, Kept DEF Still
        <5> QED BY <1>1, <2>3, <3>1, <5>1, <5>2
      <4>2. CASE job.pc # "write"
        BY <1>0, <1>1, <2>1, <2>3, <3>1, <4>2, StillUnless DEF Onward, Keeps, Still, Creation
      <4> QED BY <4>1, <4>2
    <3>3. ASSUME g \notin TeamOwing' PROVE Blank(j)'
      <4>1. g \notin TeamOwing
        BY <1>3, <2>7, <3>3, TeamOwedStays
      <4>2. j \in DOMAIN azure
        BY <1>3, <3>1, IdsThere
      <4> QED BY <2>6, <3>1, <4>1, <4>2 DEF OwnersStay, TeamStays, Blank
    <3>4. Blank(j)' <=> Blank(i)'
      BY <3>2
    <3> QED BY <1>0, <1>3, <2>5, <2>6, <3>1, <3>2, <3>3, <3>4 DEF FormingAt
  <2>8. CASE job.pc \in {"post", "write"} /\ job.target = g
    <3>1. CASE job.pc = "post"
      <4>1. job'.pc = "write" /\ job'.target = g
        BY <1>0, <2>8, <3>1 DEF Onward, Flow, Keeps
      <4> QED BY <2>5, <4>1 DEF FormingAt
    <3>2. CASE job.pc = "write"
      <4>1. /\ seen[g].life # "gone" /\ job.cur.id = 0 /\ ldap[g].id = 0
            /\ job.made # 0 /\ job.made \in DOMAIN azure
        BY <1>3, <2>1, <2>8, <3>2, GroupOrUser, CallIds DEF NameInv, AtPost, IInv, Steps, Handling
      <4>2. Given(g, job.made) /\ job'.id = job.made
        BY <1>0, <1>1, <2>2, <2>8, <3>2, <4>1, GoesOnFrom, WriteData DEF Write, Job, Still
      <4>3. Here(g) /\ ldap'[g].id = i /\ i # 0 /\ i = job.made /\ g \in Range(queue')
        <5>1. g \in Range(queue')
          BY <1>3, <4>2, Notified DEF Given
        <5>2. Here(g) /\ ldap'[g].id = job.made
          BY <1>3, <4>2, Gives DEF Given
        <5> QED BY <1>1, <4>1, <4>2, <5>1, <5>2
      <4>4. Watched(seen[g]) = Watched(ldap[g]) \/ seen[g].id = 0
        <5>1. SUFFICES ASSUME Watched(seen[g]) # Watched(ldap[g]), seen[g].id # 0
                       PROVE  FALSE
          OBVIOUS
        <5>2. seen[g].life = "here"
          BY <1>3, <4>1, <5>1, Kept DEF FreshInv, Lives, Nothing, Entry
        <5>3. Head(queue) = g
          BY <1>3, <4>1, <4>3, <5>1, <5>2 DEF NameInv, Stale
        <5> QED BY <1>3, <5>3, GroupOrUser DEF CacheInv, InHand
      <4>5. ASSUME g \notin TeamOwing' PROVE Blank(i)'
        <5>1. g \notin TeamOwing
          BY <1>3, <3>2, <4>5, TeamOwedStays
        <5>2. Blank(i)
          BY <2>8, <3>2, <4>1, <4>3, <5>1 DEF TeamInv, Written, Blank, Waits
        <5>3. i \in DOMAIN azure
          BY <4>1, <4>3
        <5> QED BY <2>6, <5>2, <5>3 DEF OwnersStay, TeamStays, Blank
      <4> QED BY <1>0, <1>3, <2>5, <4>3, <4>4, <4>5 DEF FormingAt
    <3> QED BY <2>8, <3>1, <3>2
  <2> QED BY <2>1, <2>7, <2>8 DEF Creation
<1> QED BY <1>4, <1>5

LEMMA FormingNext ==
  ASSUME IInv, IInv', CacheInv, KindInv, FreshInv, NameInv, KeepInv, MemberInv, TeamInv, [Next]_vars, Calm'
  PROVE  Forming'
<1>1. CASE busy /\ Advancing
  BY <1>1, FormingAdvance
<1>2. CASE Start
  BY <1>2, Starting, GroupOrUser DEF Begun, Forming, Promised
<1>3. CASE Enable
  BY <1>3, Enabling DEF Forming, Promised, Creation
<1>4. CASE busy /\ busy' /\ ~Advancing
  <2>0. /\ job' = job /\ seen' = seen /\ job.group \in Group
        /\ ldap'[job.group] = ldap[job.group] \/ (job.group \notin Range(queue) /\ seen[job.group] = ldap[job.group])
    BY <1>4, Aside, Fields DEF MemberInv, UsersInv, IInv
  <2>1. PICK g, i : g = job.group /\ i = job.id
    OBVIOUS
  <2>2. SUFFICES ASSUME job.item \in User, job.pc \in Creation \cup {"convert"}
                 PROVE  FormingAt(g, i)'
    BY <2>0, <2>1, FormingOf
  <2>3. FormingAt(g, i)
    BY <1>4, <2>1, <2>2, FormingThere DEF TeamInv
  <2>4. CASE ldap'[g] = ldap[g]
    <3>1. ASSUME g \notin TeamOwing', i # 0, g \notin TeamOwing => Blank(i) PROVE Blank(i)'
      <4>1. g \notin TeamOwing
        BY <1>4, <2>0, <2>1, <3>1, TeamOwedStays DEF Advancing
      <4>2. i \in DOMAIN azure
        BY <1>4, <2>1, <3>1, CallIds
      <4> QED BY <1>4, <3>1, <4>1, <4>2, BlankAside
    <3> QED BY <1>4, <2>0, <2>3, <2>4, <3>1, QueueAside DEF FormingAt, Here, Watched
  <2>5. CASE g \notin Range(queue) /\ seen[g] = ldap[g]
    BY <2>0, <2>1, <2>3, <2>5 DEF FormingAt
  <2> QED BY <2>0, <2>1, <2>4, <2>5
<1> QED BY <1>1, <1>2, <1>3, <1>4, Elsewhere DEF Forming

\* What Past says of the group g with the objectId i.
PastAt(g, i) ==
  LET s == seen[g]  l == ldap[g] IN
  /\ job.pc \in {"disown", "teams"} =>
       /\ ~(s.team /\ s.id # i)
       /\ \A O \in Waits(i) : O = l.owners
       /\ s.team /\ l.team => Waits(i) # {} \/ l.owners \subseteq azure[i].owners
  /\ job.pc = "teams" => azure[i].owners \subseteq l.owners
  /\ PastTeams => Owned(l, l, i) /\ Formed(l, l, i)

LEMMA PastThere ==
  ASSUME Past, Own, job.new.life = "here", NEW g, g = job.item, g \notin Debtors(Cause),
         NEW i, i = ldap[g].id, i # 0, azure[i].name # Gone
  PROVE  PastAt(g, i)
BY DEF Past, PastAt

LEMMA PastOf ==
  ASSUME NEW g, g = job'.item, NEW i, i = ldap'[g].id,
         Own' /\ job'.new.life = "here" /\ g \notin Debtors(Cause)' /\ i # 0 /\ azure'[i].name # Gone => PastAt(g, i)'
  PROVE  Past'
BY DEF Past, PastAt

\* A step that changes neither the entries nor the team of the call's group.
LEMMA PastStays ==
  ASSUME NEW g, NEW i, PastAt(g, i), TeamStays(i), seen'[g] = seen[g], Watched(ldap'[g]) = Watched(ldap[g]),
         job'.pc \in {"disown", "teams"} => job.pc = job'.pc, PastTeams' => PastTeams
  PROVE  PastAt(g, i)'
<1>1. ldap'[g].team = ldap[g].team /\ ldap'[g].owners = ldap[g].owners
  BY DEF Watched
<1>2. /\ azure'[i].owners = azure[i].owners /\ azure'[i].team = azure[i].team
      /\ Waits(i)' = Waits(i)
  BY DEF TeamStays
<1>3. PastTeams => Owned(ldap[g], ldap[g], i)' /\ Formed(ldap[g], ldap[g], i)'
  BY <1>1, <1>2 DEF PastAt, Owned, Formed
<1> QED BY <1>1, <1>2, <1>3 DEF PastAt

\* What TeamRest says of the group that modify works on.
LEMMA PastRest ==
  ASSUME IInv, CacheInv, KindInv, FreshInv, NameInv, KeepInv, TeamInv, Own, job.new.life = "here",
         job.pc \in {"owners", "disown", "teams"}, NEW g, g = job.item, g \notin Debtors(Cause),
         NEW i, i = ldap[g].id, i # 0, ~(seen[g].team /\ seen[g].id # i)
  PROVE  Owned(seen[g], ldap[g], i) /\ Formed(seen[g], ldap[g], i)
<1>1. g \in Group /\ g \notin TeamOwing /\ i = job.id /\ azure[i].name # Gone
  BY OwnTeam, AllDebts DEF Own, Changing
<1>2. azure[i].name # Renamed
  BY <1>1 DEF KeepInv, Alive, Working, Changing
<1>3. Here(g)
  BY ClaimOwn
<1>4. ~Doubtful(g)
  BY <1>1, <1>2 DEF Doubtful, Replaced
<1>5. ~Promised(g)
  BY GroupOrUser DEF Promised, Own
<1>6. ~Broken(g)
  <2>1. Head(queue) = job.item /\ ldap[g].users \subseteq User
    BY <1>1, Kept DEF CacheInv, InHand, Own, Entry
  <2> QED BY <2>1, GroupOrUser DEF Broken, Own
<1> QED BY <1>1, <1>3, <1>4, <1>5, <1>6 DEF TeamInv, TeamResting, TeamRest

\* A call's own step.
LEMMA PastAdvance ==
  ASSUME IInv, IInv', CacheInv, KindInv, FreshInv, NameInv, KeepInv, MemberInv, TeamInv, [Next]_vars, Calm',
         busy, Advancing
  PROVE  Past'
<1>0. /\ Onward /\ job \in Job /\ job.pc \in PC /\ job.target \in Group /\ seen' = seen /\ job' \in Job
      /\ job.then \in {"convert", "owners", "gather"}
      /\ \A g \in Group : Watched(ldap'[g]) = Watched(ldap[g])
  BY AdvancingStep, Fields, EntriesStay DEF IInv, Onward
<1>1. PICK g, i : g = job'.item /\ i = ldap'[g].id
  OBVIOUS
<1>2. SUFFICES ASSUME Own', job'.new.life = "here", g \notin Debtors(Cause)', i # 0, azure'[i].name # Gone
               PROVE  PastAt(g, i)'
  BY <1>1, PastOf
<1>3. Own /\ g = job.item /\ g \in Group /\ job.pc # "join" /\ job'.new = job.new /\ job.new.life = "here"
      /\ job.group = g /\ job'.old = job.old
  BY <1>0, <1>1, <1>2 DEF Onward, Keeps, Own, CacheInv, InHand
<1>4. /\ job.old = seen[g] /\ Here(g) /\ Watched(job.new) = Watched(ldap[g])
      /\ job.new.team = ldap[g].team /\ job.new.owners = ldap[g].owners
  BY <1>3, OwnEntries DEF MemberInv, UsersInv
<1>5. g \notin TeamOwing' /\ <<g, "team">> \notin owed'
  BY <1>2, <1>3, AllDebts DEF TeamOwing, Debtors
<1>6. job.pc \notin Burial \cup {"done", "ignore"} /\ job.pc # "join"
  BY <1>0, <1>3 DEF KindInv, Onward, Flow, Burial
<1>7. CASE job.pc \in {"post", "write", "members"} /\ job.target = g
  <2>1. job.then # "gather"
    BY <1>3, <1>7 DEF NameInv, AtPost, TeamInv, Anew, Creation
  <2>2. job'.pc \in {"write", "team", "parents"} /\ job'.then = job.then
    BY <1>0, <1>7 DEF Onward, Flow, Keeps
  <2> QED BY <2>1, <2>2 DEF PastAt, PastTeams, Creation
<1>8. CASE ~(job.pc \in {"post", "write", "members"} /\ job.target = g)
  <2>1. g \notin TeamOwing /\ g \notin Debtors(Cause)
    <3>1. ~(AddMembers /\ job.target = g)
      BY <1>8 DEF AddMembers
    <3> QED BY <1>2, <1>3, <1>5, <1>8, <3>1, DebtsStay
  <2>2. i = ldap[g].id
    <3>1. CASE job.pc = "write"
      BY <1>0, <1>1, <1>3, <1>8, <3>1, GoesOnFrom, WriteData, Gives, Mine, Kept DEF Still
    <3>2. CASE job.pc = "forget"
      BY <1>1, <1>2, <1>3, <3>2, GoesOnFrom, ForgetData, Gives
    <3>3. CASE job.pc \notin {"write", "forget"}
      BY <1>1, <3>3, StillUnless DEF Still
    <3> QED BY <3>1, <3>2, <3>3
  <2>3. i \in DOMAIN azure
    BY <1>2, <1>3, <2>2, IdsThere
  <2>4. azure[i].name # Gone
    <3>1. CASE job.pc \in Changing
      BY <1>2, <1>3, <2>2, <3>1, OwnTeam
    <3>2. CASE job.pc \notin Changing
      <4>1. ~Renames
        BY <1>3, <3>2 DEF Renames, Changing, KindInv, Burial
      <4> QED BY <1>2, <2>3, <4>1, NamesAdvance DEF NamesStay
    <3> QED BY <3>1, <3>2
  <2>5. PastAt(g, i)
    BY <1>2, <1>3, <2>1, <2>2, <2>4, PastThere DEF TeamInv
  <2>6. CASE job.pc = "owners"
    <3>1. /\ azure'[i].owners = azure[i].owners \cup NewOwners /\ Waits(i)' = Waits(i)
          /\ job.new.owners # job.old.owners => Waits(i) = {} /\ job.new.owners \subseteq ids
          /\ (job.made = 0 /\ job.old.id # 0) \/ ~job.old.team
      BY <1>2, <1>3, <1>5, <2>2, <2>6, OwnersAdded, OwnTeam DEF Changing
    <3>2. ~(seen[g].team /\ seen[g].id # i)
      BY <1>2, <1>3, <1>4, <2>2, <2>6, <3>1, OwnTeam DEF TeamInv, Anew, Changing
    <3>3. Owned(seen[g], ldap[g], i) /\ Formed(seen[g], ldap[g], i)
      BY <1>2, <1>3, <2>1, <2>2, <2>6, <3>2, PastRest
    <3>4. \A O \in Waits(i) : O = ldap[g].owners
      BY <1>4, <3>1, <3>3 DEF Owned
    <3>5. seen[g].team /\ ldap[g].team => Waits(i) # {} \/ ldap[g].owners \subseteq azure'[i].owners
      BY <1>4, <3>1, <3>3 DEF Formed, NewOwners
    <3>6. job'.pc = "disown" /\ seen'[g] = seen[g] /\ ldap'[g].team = ldap[g].team /\ ldap'[g].owners = ldap[g].owners
      BY <1>0, <1>3, <2>6 DEF Onward, Flow, Watched
    <3> QED BY <3>1, <3>2, <3>4, <3>5, <3>6 DEF PastAt, PastTeams, Creation
  <2>7. CASE job.pc = "disown"
    <3>1. /\ azure'[i].owners = azure[i].owners \ (seen[g].owners \ ldap[g].owners) /\ Waits(i)' = Waits(i)
      BY <1>2, <1>3, <1>4, <1>5, <2>2, <2>7, OwnersRemoved, OwnTeam DEF Changing
    <3>2. /\ ~(seen[g].team /\ seen[g].id # i) /\ \A O \in Waits(i) : O = ldap[g].owners
          /\ seen[g].team /\ ldap[g].team => Waits(i) # {} \/ ldap[g].owners \subseteq azure[i].owners
      BY <2>5, <2>7 DEF PastAt
    <3>3. azure[i].owners \subseteq seen[g].owners \cup ldap[g].owners
      BY <1>2, <1>3, <2>1, <2>2, <2>7, <3>2, PastRest DEF Owned
    <3>4. azure'[i].owners \subseteq ldap[g].owners
      BY <3>1, <3>3
    <3>5. seen[g].team /\ ldap[g].team => Waits(i) # {} \/ ldap[g].owners \subseteq azure'[i].owners
      BY <3>1, <3>2
    <3>6. job'.pc = "teams" /\ seen'[g] = seen[g] /\ ldap'[g].team = ldap[g].team /\ ldap'[g].owners = ldap[g].owners
      BY <1>0, <1>3, <2>7 DEF Onward, Flow, Watched
    <3> QED BY <3>1, <3>2, <3>4, <3>5, <3>6 DEF PastAt, PastTeams, Creation
  <2>8. CASE job.pc = "teams"
    <3>1. /\ azure'[i].owners = azure[i].owners
          /\ ldap[g].team /\ ~seen[g].team =>
               /\ Waits(i)' = Waits(i) \cup {ldap[g].owners \cap ids}
               /\ ldap[g].owners \subseteq ids
          /\ ~(ldap[g].team /\ ~seen[g].team) =>
               /\ Waits(i)' = Waits(i)
               /\ azure'[i].team = IF seen[g].team /\ ~ldap[g].team /\ azure[i].team = "active"
                                   THEN "archived" ELSE azure[i].team
               /\ ~ldap[g].team => Waits(i) = {}
      BY <1>2, <1>3, <1>4, <1>5, <2>2, <2>8, TeamChecked, OwnTeam DEF Changing
    <3>2. /\ ~(seen[g].team /\ seen[g].id # i) /\ \A O \in Waits(i) : O = ldap[g].owners
          /\ seen[g].team /\ ldap[g].team => Waits(i) # {} \/ ldap[g].owners \subseteq azure[i].owners
          /\ azure[i].owners \subseteq ldap[g].owners
      BY <2>5, <2>8 DEF PastAt
    <3>3. Owned(seen[g], ldap[g], i) /\ Formed(seen[g], ldap[g], i)
      BY <1>2, <1>3, <2>1, <2>2, <2>8, <3>2, PastRest
    <3>4. ldap[g].team \in BOOLEAN /\ seen[g].team \in BOOLEAN
      BY <1>3, Kept DEF Entry
    <3>5. ~ldap[g].team => azure'[i].team # "active" /\ Waits(i)' = {}
      BY <3>1, <3>3, <3>4 DEF Owned
    <3>6. \A O \in Waits(i)' : O = ldap[g].owners
      BY <3>1, <3>2, <3>4
    <3>7. ldap[g].team => Waits(i)' # {} \/ (azure'[i].team = "active" /\ ldap[g].owners \subseteq azure'[i].owners)
      BY <3>1, <3>2, <3>3, <3>4 DEF Formed
    <3>8. job'.pc = "gather" /\ ldap'[g].team = ldap[g].team /\ ldap'[g].owners = ldap[g].owners
      BY <1>0, <1>3, <2>8 DEF Onward, Flow, Watched
    <3> QED BY <3>1, <3>2, <3>5, <3>6, <3>7, <3>8 DEF PastAt, Owned, Formed
  <2>9. CASE job.pc = "convert"
    <3>1. Still /\ seen[g] = Nothing /\ Owned(seen[g], ldap[g], ldap[g].id)' /\ (ldap[g].team => Waits(ldap[g].id)' # {})
      BY <1>3, <1>5, <2>9, ConvertedOwn
    <3>2. job'.pc = "done" /\ ldap'[g] = ldap[g] /\ seen'[g] = seen[g] /\ ~seen[g].team /\ seen[g].owners = {}
      BY <1>0, <1>3, <2>9, <3>1, GroupOrUser DEF Onward, Flow, Still, Nothing, Own
    <3>3. Owned(seen[g], ldap[g], i)' /\ (ldap[g].team => Waits(i)' # {})
      BY <2>2, <3>1, <3>2 DEF Owned
    <3> QED BY <3>2, <3>3 DEF PastAt, Owned, Formed
  <2>10. CASE job.pc \notin TeamSteps
    <3>1. TeamStays(i)
      BY <2>3, <2>10, TeamsAlone DEF OwnersStay
    <3>2. job'.pc \notin {"disown", "teams"}
      BY <1>0, <2>10 DEF Onward, Flow, TeamSteps, PC
    <3>3. PastTeams' => PastTeams
      BY <1>0, <1>3, <1>6, <2>10 DEF Onward, Flow, Keeps, PastTeams, Creation, TeamSteps, PC, KindInv, Burial
    <3> QED BY <1>0, <1>3, <2>5, <3>1, <3>2, <3>3, PastStays
  <2> QED BY <1>6, <2>6, <2>7, <2>8, <2>9, <2>10 DEF TeamSteps, Burial
<1> QED BY <1>7, <1>8

\* A call begins that has nothing to do.
LEMMA PastStart ==
  ASSUME IInv, IInv', CacheInv, KindInv, FreshInv, NameInv, KeepInv, MemberInv, TeamInv, [Next]_vars, Calm',
         Start
  PROVE  Past'
<1>1. PICK g \in Group : Begun(g)
  BY Starting
<1>2. PICK i : i = ldap[g].id
  OBVIOUS
<1>3. SUFFICES ASSUME job'.new.life = "here", g \notin Debtors(Cause)', i # 0, azure[i].name # Gone
               PROVE  PastAt(g, i)'
  BY <1>1, <1>2, PastOf DEF Begun, Still, Start
<1>4. job'.pc \in {"disown", "teams", "gather", "remove", "forget", "rename"} => FALSE
  BY <1>1, <1>3 DEF Begun
<1>5. job'.then # "gather"
  BY <1>1 DEF Begun
<1>6. CASE ~(job'.pc = "done" /\ Watched(job'.old) # Watched(job'.new))
  BY <1>4, <1>5, <1>6 DEF PastAt, PastTeams
<1>7. CASE job'.pc = "done" /\ Watched(job'.old) # Watched(job'.new)
  <2>1. seen[g].life = "none" /\ Here(g) /\ ~InAzure(g)
    BY <1>1, <1>2, <1>3, <1>7 DEF Begun, CacheInv, Aliased, Here
  <2>2. StartCreate(g)
    BY <1>1, <2>1 DEF Start, StartModify, StartDelete, Begun, Here
  <2>3. ~ldap[g].team /\ owed' = owed
    BY <1>2, <1>3, <2>1, <2>2 DEF StartCreate, Debtors, Cause
  <2>4. seen[g] = Nothing
    BY <2>1 DEF FreshInv, Lives
  <2>5. g \notin Debtors(Cause) /\ g \notin TeamOwing
    BY <1>3, <2>3, AllDebts DEF Debtors
  <2>6. Owned(seen[g], ldap[g], i)
    BY <1>2, <1>3, <2>1, <2>4, <2>5 DEF TeamInv, TeamResting, TeamRest, Doubtful, Nothing
  <2>7. Owned(ldap[g], ldap[g], i) /\ Formed(ldap[g], ldap[g], i)
    BY <2>3, <2>4, <2>6 DEF Owned, Formed, Nothing
  <2>8. OwnersStay /\ i \in DOMAIN azure
    BY <1>2, <1>3, IdsThere, AzureStays DEF Start
  <2>9. azure'[i].owners = azure[i].owners /\ azure'[i].team = azure[i].team /\ Waits(i)' = Waits(i) /\ ldap'[g] = ldap[g]
    BY <1>1, <2>8 DEF OwnersStay, TeamStays, Begun, Still
  <2> QED BY <1>4, <2>7, <2>9 DEF PastAt, Owned, Formed
<1> QED BY <1>6, <1>7

\* The daemon does a job during a call.
LEMMA PastRun ==
  ASSUME IInv, RunJob, NEW g \in Group, NEW i \in DOMAIN azure, i = ldap[g].id, azure[i].name # Gone,
         g \notin Debtors(Cause)', PastAt(g, i), job' = job, seen' = seen, ldap'[g] = ldap[g]
  PROVE  PastAt(g, i)'
<1>1. CASE TeamStays(i)
  BY <1>1, PastStays DEF PastTeams
<1>2. CASE ~TeamStays(i)
  <2>1. PICK O \in Waits(i) : /\ azure'[i].owners = azure[i].owners \cup O /\ Waits(i)' \subseteq Waits(i)
                              /\ azure'[i].team = "active" \/ <<g, "team">> \in owed'
    BY <1>2, RunTeams
  <2>2. azure'[i].team = "active"
    BY <2>1 DEF Debtors, Cause
  <2>3. ASSUME job.pc \in {"disown", "teams"}
        PROVE  /\ ~(seen[g].team /\ seen[g].id # i) /\ \A P \in Waits(i)' : P = ldap[g].owners
               /\ ldap[g].owners \subseteq azure'[i].owners
               /\ job.pc = "teams" => azure'[i].owners \subseteq ldap[g].owners
    BY <2>1, <2>3 DEF PastAt
  <2>4. ASSUME PastTeams
        PROVE  /\ ldap[g].team /\ \A P \in Waits(i)' : P = ldap[g].owners
               /\ ldap[g].owners \subseteq azure'[i].owners /\ azure'[i].owners \subseteq ldap[g].owners
    BY <2>1, <2>4 DEF PastAt, Owned
  <2>5. PastTeams' <=> PastTeams
    BY DEF PastTeams
  <2>6. PastTeams => Owned(ldap[g], ldap[g], i)' /\ Formed(ldap[g], ldap[g], i)'
    BY <2>2, <2>4 DEF Owned, Formed
  <2> QED BY <2>3, <2>5, <2>6 DEF PastAt
<1> QED BY <1>1, <1>2

LEMMA PastNext ==
  ASSUME IInv, IInv', CacheInv, KindInv, FreshInv, NameInv, KeepInv, MemberInv, TeamInv, [Next]_vars, Calm'
  PROVE  Past'
<1>1. CASE busy /\ Advancing
  BY <1>1, PastAdvance
<1>2. CASE Start
  BY <1>2, PastStart
<1>3. CASE Enable
  BY <1>3, Enabling, GroupOrUser DEF Past, Own
<1>4. CASE busy /\ busy' /\ ~Advancing
  <2>0. PICK g, i : g = job'.item /\ i = ldap'[g].id
    OBVIOUS
  <2>1. SUFFICES ASSUME Own', job'.new.life = "here", g \notin Debtors(Cause)', i # 0, azure'[i].name # Gone
                 PROVE  PastAt(g, i)'
    BY <2>0, PastOf
  <2>2. job' = job /\ seen' = seen /\ NamesStay /\ g \in Group /\ g = job.item /\ Own
    BY <1>4, <2>0, <2>1, Aside DEF MemberInv, UsersInv, Own
  <2>3. ldap'[g] = ldap[g]
    BY <1>4, <2>2, Aside DEF MemberInv, UsersInv
  <2>4. i \in DOMAIN azure /\ azure[i].name # Gone
    BY <2>0, <2>1, <2>2, <2>3, IdsThere DEF NamesStay
  <2>5. g \notin Debtors(Cause)
    BY <1>4, <2>1, <2>2, DebtsStay, AllDebts DEF Advancing
  <2>6. PastAt(g, i)
    BY <2>0, <2>1, <2>2, <2>3, <2>4, <2>5, PastThere DEF TeamInv
  <2>7. CASE RunJob
    BY <2>0, <2>1, <2>2, <2>3, <2>4, <2>6, <2>7, PastRun
  <2>8. CASE ~RunJob
    <3>1. TeamStays(i)
      BY <1>4, <2>4, <2>8, TeamsOutside DEF OwnersStay
    <3> QED BY <2>2, <2>3, <2>6, <3>1, PastStays DEF PastTeams
  <2> QED BY <2>7, <2>8
<1> QED BY <1>1, <1>2, <1>3, <1>4, Elsewhere DEF Past, Own

LEMMA TeamInit == Init => TeamInv
<1> SUFFICES ASSUME Init PROVE TeamInv
  OBVIOUS
<1>1. ~busy /\ \A g \in Group : ldap[g].life = "none"
  BY DEF Init, busy, Nothing
<1>2. Unknown /\ Written /\ Anew /\ Forming /\ Past
  BY <1>1 DEF Unknown, Written, Anew, Forming, Past, Own
<1>3. TeamResting
  <2> HIDE DEF Doubtful, Replaced, Filled, Owned, Formed, Promised, Broken
  <2> QED BY <1>1 DEF TeamResting, TeamRest, Here
<1> QED BY <1>2, <1>3 DEF TeamInv

LEMMA TeamNext ==
  ASSUME IInv, IInv', CacheInv, KindInv, FreshInv, NameInv, KeepInv, MemberInv, TeamInv, [Next]_vars, Calm'
  PROVE  TeamInv'
BY UnknownNext, WrittenNext, AnewNext, FormingNext, TeamRestingNext, PastNext DEF TeamInv

\* TeamInv is inductive together with NamesInv, KeepInv and MemberInv.
LEMMA TeamInvariance == Spec => [](NamesInv /\ (Calm => MemberInv /\ TeamInv))
<1>1. Init => TeamInv
  BY TeamInit
<1>2. /\ NamesInv /\ NamesInv' /\ (Calm => KeepInv) /\ (Calm => MemberInv) /\ (Calm => TeamInv) /\ [Next]_vars
      => (Calm => TeamInv)'
  <2> SUFFICES ASSUME NamesInv, NamesInv', Calm => KeepInv, Calm => MemberInv, Calm => TeamInv, [Next]_vars, Calm'
               PROVE  TeamInv'
    OBVIOUS
  <2>1. Calm
    BY CalmBefore DEF NamesInv
  <2> QED BY <2>1, TeamNext DEF NamesInv
<1> QED BY <1>1, <1>2, KeepInvariance, MemberInvariance, PTL DEF Spec

\* Between the calls, with no job left either, a group in Azure that owes
\* nothing is the team its entry says, with its owners.
LEMMA QuietTeam ==
  ASSUME NamesInv, TeamInv, Quiet, Calm, jobs = <<>>, NEW g \in Group, g \notin Debtors(Cause),
         Here(g), ldap[g].id # 0, azure[ldap[g].id].name # Gone
  PROVE  /\ ldap[g].team <=> azure[ldap[g].id].team = "active"
         /\ ldap[g].team => azure[ldap[g].id].owners = ldap[g].owners
<1>1. PICK i : i = ldap[g].id
  OBVIOUS
<1>2. seen[g] = ldap[g] /\ ~busy /\ ldap[g].team \in BOOLEAN
  BY Kept DEF NamesInv, CacheInv, Settled, Quiet, Range, Entry
<1>3. Waits(i) = {}
  BY DEF Waits
<1>4. ~Doubtful(g) /\ ~Promised(g) /\ ~Broken(g)
  BY <1>2 DEF Doubtful, Replaced, Promised, Broken, Quiet
<1>5. g \notin TeamOwing
  BY AllDebts
<1>6. Owned(ldap[g], ldap[g], i) /\ Formed(ldap[g], ldap[g], i)
  BY <1>1, <1>2, <1>4, <1>5 DEF TeamInv, TeamResting, TeamRest
<1>7. /\ ~ldap[g].team => azure[i].team # "active"
      /\ ldap[g].team => azure[i].team = "active" /\ azure[i].owners = ldap[g].owners
  BY <1>3, <1>6 DEF Owned, Formed
<1> QED BY <1>1, <1>2, <1>7

\* When every change is handled and every job of the daemon is done, no call
\* failed and none was overtaken by another, a group that owes nothing is a team
\* in Azure exactly where its entry says so, with the owners of the entry and the
\* members GroupsInSync speaks of: whether it was created as one or became one
\* later, by its own call, that of a user or of another group, with the daemon at
\* work at any time.
THEOREM TeamsInSync == Spec => []TeamInSync
<1>1. NamesInv /\ (Calm => MemberInv /\ TeamInv) => TeamInSync
  <2>1. SUFFICES ASSUME NamesInv, MemberInv, TeamInv, Quiet, Calm, jobs = <<>>, NEW g \in Group \ Debtors(Cause)
                 PROVE  /\ Synced(g)
                        /\ Here(g) /\ ldap[g].id # 0 /\ azure[ldap[g].id].name # Gone =>
                             /\ ldap[g].team <=> azure[ldap[g].id].team = "active"
                             /\ ldap[g].team => azure[ldap[g].id].owners = ldap[g].owners
    BY DEF TeamInSync
  <2>2. g \notin Owing
    BY AllDebts
  <2> QED BY <2>1, <2>2, QuietSynced, QuietTeam
<1> QED BY <1>1, TeamInvariance, PTL

=============================================================================
