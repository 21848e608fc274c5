-------------------------- MODULE GroupSyncProofs --------------------------
(***************************************************************************)
(* What is proved of GroupSync, for any number of groups, users, names,    *)
(* changes and kills.                                                      *)
(*                                                                         *)
(* 1. The types, and that whatever LDAP, the listener, a call of its       *)
(*    modules or the daemon has for an objectId is the objectId of a group *)
(*    of the tenant (IInv): the code keeps ids in five places and asks     *)
(*    Microsoft for whatever it finds there.                               *)
(* 2. No two groups have one objectId (OneGroupEach).  The code finds a    *)
(*    group it is to create by its name, so NameInv says who may have a    *)
(*    name: the groups in Azure that LDAP, the cache and the call know of  *)
(*    a group (Holds) have a name that belongs to it (Claim), are renamed  *)
(*    or gone, and are no other group's.  The changes wait in an order in  *)
(*    which a name is given up before it is taken (Ordered).               *)
(* 3. A group keeps its objectId (KeepsGroup): KeepInv adds what is empty, *)
(*    renamed or gone at the steps that write another one.                 *)
(*                                                                         *)
(* GroupInSyncProofs goes on with the members.                             *)
(***************************************************************************)
EXTENDS GroupSync, SequenceTheorems, TLAPS

\* An objectId among n groups, or none.
Known(i, n) == i \in 0 .. n

\* LDAP, the listener and the daemon know objectIds of groups only.
IdsOfGroups ==
  /\ \A g \in Group : Known(ldap[g].id, Len(azure)) /\ Known(seen[g].id, Len(azure))
  /\ \A k \in DOMAIN jobs : Known(jobs[k].id, Len(azure)) /\ jobs[k].id # 0

\* The steps at which a call may have no objectId.
Loose == {"ignore", "join", "done", "post", "write"}

\* What call j has at its steps, with n groups in Azure.
Handling(j, n) ==
  /\ Known(j.id, n) /\ Known(j.made, n) /\ Known(j.new.id, n)
  /\ j.pc \notin Loose => j.id # 0
  /\ j.pc \in {"post", "write"} => j.id # 0 \/ j.target = j.group
  /\ j.pc \in {"write", "team", "members"} => j.made # 0
  /\ j.pc = "join" => j.item \in User

Steps == busy => queue # <<>> /\ Handling(job, Len(azure))

IInv == TypeOK /\ IdsOfGroups /\ Steps

-----------------------------------------------------------------------------
(* Operators, and the parts of a call.                                     *)

LEMMA Fields ==
  ASSUME TypeOK, busy
  PROVE  /\ job \in Job /\ job.pc \in PC /\ job.item \in Group \cup User
         /\ job.group \in Group /\ job.old \in Entry /\ job.new \in Entry
         /\ job.id \in Nat /\ job.todo \subseteq Group \cup User
         /\ job.target \in Group /\ job.cur \in Entry /\ job.made \in Nat
         /\ job.adding \subseteq User /\ job.above \subseteq Group
         /\ job.then \in {"convert", "owners", "gather"} /\ job.mine \in BOOLEAN
<1>1. job \in Job
  BY DEF TypeOK, busy
<1> QED BY <1>1 DEF Job

\* GroupAzure objects are changed in place: their number stays.
LEMMA SetGroupType ==
  ASSUME azure \in Seq(AzureGroup), NEW i \in 1 .. Len(azure), NEW r \in AzureGroup,
         SetGroup(i, r)
  PROVE  azure' \in Seq(AzureGroup) /\ Len(azure') = Len(azure)
BY DEF SetGroup

LEMMA GroupAt ==
  ASSUME azure \in Seq(AzureGroup), NEW i \in 1 .. Len(azure)
  PROVE  /\ azure[i] \in AzureGroup
         /\ \A U \in SUBSET User : [azure[i] EXCEPT !.members = U] \in AzureGroup
         /\ \A U \in SUBSET User : [azure[i] EXCEPT !.owners = U] \in AzureGroup
         /\ \A n \in Name \cup {NoName, Renamed, Gone} :
              [azure[i] EXCEPT !.name = n] \in AzureGroup
         /\ \A t \in {"none", "active", "archived"} :
              [azure[i] EXCEPT !.team = t] \in AzureGroup
         /\ azure[i].members \subseteq User /\ azure[i].owners \subseteq User
         /\ azure[i].team \in {"none", "active", "archived"}
         /\ azure[i].name \in Name \cup {NoName, Renamed, Gone}
<1>1. azure[i] \in AzureGroup
  OBVIOUS
<1> QED BY <1>1 DEF AzureGroup

\* add_group_members and what fails of it (core.py:510).
LEMMA AddToType ==
  ASSUME TypeOK, NEW i \in 1 .. Len(azure), NEW U \in SUBSET User, AddTo(i, U)
  PROVE  azure' \in Seq(AzureGroup) /\ Len(azure') = Len(azure) /\ failed' \in BOOLEAN
<1>1. azure \in Seq(AzureGroup) /\ failed \in BOOLEAN
  BY DEF TypeOK
<1>2. CASE SetGroup(i, [azure[i] EXCEPT !.members = @ \cup U]) /\ UNCHANGED failed
  <2>1. [azure[i] EXCEPT !.members = @ \cup U] \in AzureGroup
    BY <1>1, GroupAt
  <2>2. azure' \in Seq(AzureGroup) /\ Len(azure') = Len(azure)
    BY <1>1, <1>2, <2>1, SetGroupType
  <2> QED BY <1>1, <1>2, <2>2
<1>3. CASE ~failed /\ failed' = TRUE /\ UNCHANGED azure
  BY <1>1, <1>3
<1> QED BY <1>2, <1>3 DEF AddTo

\* A change that is put into the listener's queue.
LEMMA NotifyType ==
  ASSUME queue \in Seq(Group \cup User), NEW x \in Group \cup User
  PROVE  Notify(x) \in Seq(Group \cup User) /\ (queue # <<>> => Notify(x) # <<>>)
BY DEF Notify

LEMMA GotoType ==
  ASSUME job \in Job, NEW p \in PC, Goto(p)
  PROVE  /\ job' \in Job /\ job'.pc = p /\ job'.id = job.id /\ job'.made = job.made
         /\ job'.new = job.new /\ job'.target = job.target /\ job'.group = job.group
         /\ job'.item = job.item
BY DEF Goto, Job

LEMMA DropType ==
  ASSUME job \in Job, NEW x, Drop(x)
  PROVE  /\ job' \in Job /\ job'.pc = job.pc /\ job'.id = job.id /\ job'.made = job.made
         /\ job'.new = job.new /\ job'.target = job.target /\ job'.group = job.group
         /\ job'.item = job.item
BY DEF Drop, Job

LEMMA NotIdle == \A j \in Job : j # Idle
BY DEF Job, Idle, PC

-----------------------------------------------------------------------------
(* Steps of one kind.                                                      *)

\* A step of a call that writes nothing to LDAP.
LEMMA CallStep ==
  ASSUME IInv, busy, job' \in Job, Handling(job', Len(azure)),
         ldap' = ldap, seen' = seen, UNCHANGED people, queue' = queue, jobs' = jobs,
         changes' = changes, crashes' = crashes,
         azure' \in Seq(AzureGroup), Len(azure') = Len(azure),
         failed' \in BOOLEAN, raced' \in BOOLEAN,
         owed' \subseteq Group \X Cause, cleaned' \subseteq Group
  PROVE  IInv'
<1>1. TypeOK'
  BY DEF IInv, TypeOK, people
<1>2. IdsOfGroups'
  BY DEF IInv, IdsOfGroups
<1>3. Steps'
  BY DEF IInv, Steps, busy
<1> QED BY <1>1, <1>2, <1>3 DEF IInv

\* The same, where only the call goes on.
LEMMA Going ==
  ASSUME IInv, busy, NEW p \in PC, Goto(p), p \notin {"write", "team", "members", "join"},
         p \in Loose \/ job.id # 0, p = "post" => job.id # 0,
         ldap' = ldap, seen' = seen, UNCHANGED people, queue' = queue, jobs' = jobs,
         changes' = changes, crashes' = crashes,
         azure' \in Seq(AzureGroup), Len(azure') = Len(azure),
         failed' \in BOOLEAN, raced' \in BOOLEAN,
         owed' \subseteq Group \X Cause, cleaned' \subseteq Group
  PROVE  IInv'
<1>1. job \in Job
  BY Fields DEF IInv
<1>2. Handling(job, Len(azure))
  BY DEF IInv, Steps
<1>3. job' \in Job /\ job'.pc = p /\ job'.id = job.id /\ job'.made = job.made
      /\ job'.new = job.new
  BY <1>1, GotoType
<1>4. Handling(job', Len(azure))
  BY <1>2, <1>3 DEF Handling, Loose
<1> QED BY <1>3, <1>4, CallStep

\* The module returns, or an exception leaves it.
LEMMA Returning ==
  ASSUME IInv, busy, Return, queue' \in Seq(Group \cup User), failed' \in BOOLEAN,
         owed' \subseteq Group \X Cause,
         ldap' \in [Group -> Entry], \A g \in Group : ldap'[g].id = ldap[g].id
  PROVE  IInv'
<1>1. /\ job.new \in Entry /\ job.item \in Group \cup User
  BY Fields DEF IInv
<1>2. Known(job.new.id, Len(azure))
  BY DEF IInv, Steps, Handling
<1>3. /\ seen' \in [Group -> Entry]
      /\ \A g \in Group : seen'[g].id = seen[g].id \/ seen'[g].id = job.new.id
  BY <1>1 DEF Return, IInv, TypeOK
<1>4. known' \subseteq User
  BY <1>1 DEF Return, IInv, TypeOK
<1>5. job' = Idle /\ azure' = azure /\ jobs' = jobs
  BY DEF Return
<1>6. TypeOK'
  BY <1>3, <1>4, <1>5 DEF Return, IInv, TypeOK, outside
<1>7. IdsOfGroups'
  BY <1>2, <1>3, <1>5 DEF IInv, IdsOfGroups
<1>8. Steps'
  BY <1>5 DEF Steps, busy
<1> QED BY <1>6, <1>7, <1>8 DEF IInv

LEMMA RaiseInv ==
  ASSUME IInv, busy, NEW more \in SUBSET (Group \X Cause), Raise(more), failed' \in BOOLEAN
  PROVE  IInv'
<1>1. queue \in Seq(Group \cup User) /\ queue # <<>>
  BY DEF IInv, TypeOK, Steps
<1>2. queue' \in Seq(Group \cup User)
  BY <1>1 DEF Raise
<1>3. owed' \subseteq Group \X Cause
  BY DEF Raise, IInv, TypeOK
<1>4. ldap' = ldap
  BY DEF Raise
<1>5. ldap' \in [Group -> Entry] /\ \A g \in Group : ldap'[g].id = ldap[g].id
  BY <1>4 DEF IInv, TypeOK
<1> QED BY <1>2, <1>3, <1>5, Returning DEF Raise

LEMMA LeftType ==
  ASSUME TypeOK, busy, NEW c \in Cause
  PROVE  Left(c) \subseteq Group \X Cause
BY Fields DEF Left

\* What a call leaves alone has its type.
LEMMA Kept ==
  ASSUME IInv
  PROVE  /\ azure \in Seq(AzureGroup) /\ failed \in BOOLEAN /\ raced \in BOOLEAN
         /\ owed \subseteq Group \X Cause /\ cleaned \subseteq Group
         /\ queue \in Seq(Group \cup User) /\ ldap \in [Group -> Entry]
         /\ seen \in [Group -> Entry] /\ jobs \in Seq(TeamJob)
         /\ ids \subseteq User /\ named \subseteq ids /\ enabled \subseteq marked
         /\ marked \subseteq User /\ known \subseteq User /\ late \subseteq Nat \X User
BY DEF IInv, TypeOK

\* The objectId of a call is that of a group, where the call uses it.
LEMMA Mine ==
  ASSUME IInv, busy
  PROVE  /\ job.pc \notin Loose => job.id \in 1 .. Len(azure)
         /\ job.pc \in {"write", "team", "members"} => job.made \in 1 .. Len(azure)
         /\ job.id \in 0 .. Len(azure)
BY DEF IInv, Steps, Handling, Known

LEMMA InitInv == Init => IInv
<1> SUFFICES ASSUME Init PROVE IInv
  OBVIOUS
<1>1. Nothing \in Entry /\ Nothing.id = 0
  BY DEF Nothing, Entry
<1>2. ldap \in [Group -> Entry] /\ \A g \in Group : ldap[g].id = 0
  BY <1>1 DEF Init
<1>3. changes \in 0 .. MaxChanges /\ crashes \in 0 .. MaxCrashes
  BY BoundsAssumption DEF Init
<1>4. failed \in BOOLEAN /\ raced \in BOOLEAN
  BY Zenon DEF Init
<1>5. azure = <<>> /\ jobs = <<>> /\ queue = <<>> /\ seen = ldap /\ ~busy
  BY DEF Init, busy
<1>6. TypeOK
  BY <1>2, <1>3, <1>4, <1>5 DEF Init, TypeOK, busy
<1>7. IdsOfGroups
  BY <1>2, <1>5 DEF IdsOfGroups, Known
<1> QED BY <1>5, <1>6, <1>7 DEF IInv, Steps

-----------------------------------------------------------------------------
(* _create_group (connector.py:832).                                       *)

LEMMA Making ==
  ASSUME job \in Job, NEW i \in Nat, job' = [job EXCEPT !.pc = "write", !.made = i]
  PROVE  /\ job' \in Job /\ job'.pc = "write" /\ job'.made = i
         /\ job'.id = job.id /\ job'.new = job.new /\ job'.target = job.target
         /\ job'.group = job.group
<1>1. "write" \in PC
  BY DEF PC
<1> QED BY <1>1 DEF Job

LEMMA Writing ==
  ASSUME job \in Job, NEW c \in Entry, NEW U \in SUBSET User, NEW m \in BOOLEAN, NEW i \in Nat,
         job' = [job EXCEPT !.pc = "team", !.adding = U, !.cur = c, !.id = i, !.mine = m]
  PROVE  /\ job' \in Job /\ job'.pc = "team" /\ job'.made = job.made
         /\ job'.id = i /\ job'.new = job.new
<1>1. "team" \in PC
  BY DEF PC
<1> QED BY <1>1 DEF Job

LEMMA PostNewInv == ASSUME IInv, busy, PostNew PROVE IInv'
<1>0. /\ job \in Job /\ job.cur \in Entry /\ job.target \in Group
  BY Fields DEF IInv
<1>1. azure \in Seq(AzureGroup) /\ Len(azure) \in Nat
  BY Kept
<1>2. Parse(job.cur) \in AzureGroup
  BY <1>0 DEF Parse, Entry, AzureGroup
<1>3. azure' = Append(azure, Parse(job.cur))
  BY DEF PostNew
<1>4. azure' \in Seq(AzureGroup) /\ Len(azure') = Len(azure) + 1
  BY <1>1, <1>2, <1>3
<1>5. \A i : Known(i, Len(azure)) => Known(i, Len(azure'))
  BY <1>1, <1>4 DEF Known
<1>6. /\ job' \in Job /\ job'.pc = "write" /\ job'.made = Len(azure')
      /\ job'.id = job.id /\ job'.new = job.new /\ job'.target = job.target
      /\ job'.group = job.group
  <2>1. Len(azure) + 1 \in Nat /\ job' = [job EXCEPT !.pc = "write", !.made = Len(azure) + 1]
    BY <1>1 DEF PostNew
  <2> QED BY <1>0, <1>4, <2>1, Making
<1>7. Handling(job, Len(azure)) /\ job.pc = "post"
  BY DEF IInv, Steps, PostNew
<1>8. Handling(job', Len(azure'))
  <2>1. job'.made # 0 /\ Known(job'.made, Len(azure'))
    BY <1>1, <1>4, <1>6 DEF Known
  <2> QED BY <1>5, <1>6, <1>7, <2>1 DEF Handling, Loose
<1>9. owed' \subseteq Group \X Cause
  BY <1>0, Kept DEF PostNew, Cause
<1>a. TypeOK'
  BY <1>4, <1>6, <1>9 DEF IInv, TypeOK, PostNew, people, outside
<1>b. IdsOfGroups'
  BY <1>5 DEF IInv, IdsOfGroups, PostNew
<1>c. Steps'
  BY <1>8 DEF IInv, Steps, busy, PostNew
<1> QED BY <1>a, <1>b, <1>c DEF IInv

LEMMA PostTakeInv == ASSUME IInv, busy, PostTake PROVE IInv'
<1>0. job \in Job /\ Handling(job, Len(azure)) /\ job.pc = "post"
  BY Fields DEF IInv, Steps, PostTake
<1>1. azure \in Seq(AzureGroup)
  BY Kept
<1>2. PICK i \in DOMAIN azure :
        /\ job' = [job EXCEPT !.pc = "write", !.made = i]
        /\ owed' \subseteq owed \cup {<<job.target, "heir">>, <<job.target, "team">>}
  BY DEF PostTake, Called
<1>3. i \in 1 .. Len(azure) /\ i \in Nat
  BY <1>1, <1>2
<1>4. /\ job' \in Job /\ job'.pc = "write" /\ job'.made = i
      /\ job'.id = job.id /\ job'.new = job.new /\ job'.target = job.target
      /\ job'.group = job.group
  BY <1>0, <1>2, <1>3, Making
<1>5. Handling(job', Len(azure))
  BY <1>0, <1>3, <1>4 DEF Handling, Loose, Known
<1>6. owed' \subseteq Group \X Cause
  BY <1>2, Fields, Kept DEF IInv, Cause
<1> QED BY <1>4, <1>5, <1>6, Kept, CallStep DEF PostTake, outside, IInv, TypeOK

LEMMA LdapUsersType ==
  ASSUME NEW e \in Entry
  PROVE  LdapUsers(e) \subseteq User
BY DEF LdapUsers, Entry

\* The id of the group that was made, or found, is written.
LEMMA WriteInv == ASSUME IInv, busy, Write PROVE IInv'
<1>0. /\ job \in Job /\ job.cur \in Entry /\ job.target \in Group /\ job.made \in Nat
      /\ job.mine \in BOOLEAN
  BY Fields DEF IInv
<1>1. Handling(job, Len(azure)) /\ job.pc = "write" /\ queue # <<>>
  BY DEF IInv, Steps, Write
<1>2. job.made # 0 /\ Known(job.made, Len(azure))
  BY <1>1 DEF Handling
<1>3. LdapUsers(job.cur) \subseteq User
  BY <1>0, LdapUsersType
<1>4. /\ job' \in Job /\ job'.pc = "team" /\ job'.made = job.made /\ job'.new = job.new
      /\ job'.id = IF job.target = job.group THEN job.made ELSE job.id
  <2> DEFINE own == job.target = job.group
  <2>1. [job.cur EXCEPT !.id = job.made, !.alias = TRUE] \in Entry
    BY <1>0 DEF Entry
  <2>2. (job.mine \/ own) \in BOOLEAN
    BY Zenon
  <2>3. PICK c \in Entry, U \in SUBSET User, m \in BOOLEAN, i \in Nat :
          /\ i = IF own THEN job.made ELSE job.id
          /\ c = [job.cur EXCEPT !.id = job.made, !.alias = TRUE]
          /\ U = LdapUsers(job.cur) /\ m = (job.mine \/ own)
    <3>1. job.id \in Nat
      BY Fields DEF IInv
    <3> QED BY <1>0, <1>3, <2>1, <2>2, <3>1
  <2>4. job' = [job EXCEPT !.pc = "team", !.adding = U, !.cur = c, !.id = i, !.mine = m]
    BY <1>0, <2>3 DEF Write, Job
  <2>5. /\ job' \in Job /\ job'.pc = "team" /\ job'.made = job.made
        /\ job'.id = i /\ job'.new = job.new
    <3> HIDE DEF own
    <3> QED BY <1>0, <2>4, Writing
  <2> QED BY <2>3, <2>5
<1>5. Handling(job', Len(azure))
  BY <1>1, <1>2, <1>4 DEF Handling, Loose
<1>6. queue' \in Seq(Group \cup User) /\ queue' # <<>>
  BY <1>0, <1>1, NotifyType, Kept DEF Write
<1>7. /\ ldap' \in [Group -> Entry]
      /\ \A g \in Group : Known(ldap'[g].id, Len(azure))
  <2>1. CASE UNCHANGED ldap
    BY <2>1, Kept DEF IInv, IdsOfGroups
  <2>2. CASE ldap' = [ldap EXCEPT ![job.target].id = job.made, ![job.target].alias = TRUE]
    <3>1. [ldap[job.target] EXCEPT !.id = job.made, !.alias = TRUE] \in Entry
      BY <1>0, Kept DEF Entry
    <3>2. PICK e \in Entry :
            /\ e = [ldap[job.target] EXCEPT !.id = job.made, !.alias = TRUE]
            /\ e.id = job.made
      BY <1>0, <3>1, Kept DEF Entry
    <3>3. ldap' = [ldap EXCEPT ![job.target] = e]
      BY <1>0, <2>2, <3>2, Kept
    <3> QED BY <1>0, <1>2, <3>2, <3>3, Kept DEF IInv, IdsOfGroups
  <2> QED BY <2>1, <2>2 DEF Write
<1>a. TypeOK'
  BY <1>4, <1>6, <1>7 DEF IInv, TypeOK, Write, people, outside
<1>b. IdsOfGroups'
  BY <1>7 DEF IInv, IdsOfGroups, Write
<1>c. Steps'
  BY <1>5, <1>6 DEF IInv, Steps, Write
<1> QED BY <1>a, <1>b, <1>c DEF IInv

LEMMA WriteGoneInv == ASSUME IInv, busy, WriteGone PROVE IInv'
<1>1. Left("gone") \in SUBSET (Group \X Cause)
  BY LeftType DEF IInv, Cause
<1> QED BY <1>1, RaiseInv, Kept DEF WriteGone

LEMMA JoinTeamInv == ASSUME IInv, busy, JoinTeam PROVE IInv'
<1>0. /\ job \in Job /\ job.adding \subseteq User /\ job.made \in 1 .. Len(azure)
      /\ job.pc = "team" /\ Handling(job, Len(azure))
  BY Fields, Mine DEF IInv, Steps, JoinTeam
<1>1. azure' \in Seq(AzureGroup) /\ Len(azure') = Len(azure)
  <2>1. CASE UNCHANGED azure
    BY <2>1, Kept
  <2>2. CASE \E refused \in SUBSET job.adding : AddToTeam(job.made, job.adding, refused)
    <3>1. PICK refused \in SUBSET job.adding :
            SetGroup(job.made, [azure[job.made] EXCEPT !.members = @ \cup (job.adding \ refused)])
      BY <2>2 DEF AddToTeam
    <3>2. [azure[job.made] EXCEPT !.members = @ \cup (job.adding \ refused)] \in AzureGroup
      BY <1>0, GroupAt, Kept
    <3> QED BY <1>0, <3>1, <3>2, SetGroupType, Kept
  <2> QED BY <2>1, <2>2 DEF JoinTeam
<1>2. /\ job' \in Job /\ job'.pc = "members" /\ job'.id = job.id /\ job'.made = job.made
      /\ job'.new = job.new
  <2>1. CASE Goto("members")
    BY <1>0, <2>1, GotoType DEF PC
  <2>2. ASSUME NEW U \in SUBSET job.adding,
               job' = [job EXCEPT !.pc = "members", !.adding = U]
        PROVE  job' \in Job /\ job'.pc = "members" /\ job'.id = job.id /\ job'.made = job.made
               /\ job'.new = job.new
    BY <1>0, <2>2 DEF Job, PC
  <2> QED BY <2>1, <2>2 DEF JoinTeam
<1>3. Handling(job', Len(azure))
  BY <1>0, <1>2 DEF Handling, Loose
<1> QED BY <1>1, <1>2, <1>3, Kept, CallStep DEF JoinTeam, outside

LEMMA NestedUnknownInv == ASSUME IInv, busy, NestedUnknown PROVE IInv'
<1>1. (Left("nested") \cup {<<job.target, "nested">>}) \in SUBSET (Group \X Cause)
  BY LeftType, Fields DEF IInv, Cause
<1> QED BY <1>1, RaiseInv, Kept DEF NestedUnknown

LEMMA AddMembersInv == ASSUME IInv, busy, AddMembers PROVE IInv'
<1>0. /\ job.adding \subseteq User /\ job.made \in 1 .. Len(azure) /\ job.id # 0
  BY Fields, Mine DEF IInv, Steps, AddMembers, Handling, Loose
<1>1. azure' \in Seq(AzureGroup) /\ Len(azure') = Len(azure) /\ failed' \in BOOLEAN
  <2>1. CASE UNCHANGED <<azure, failed>>
    BY <2>1, Kept
  <2>2. CASE AddTo(job.made, job.adding)
    BY <1>0, <2>2, AddToType DEF IInv
  <2> QED BY <2>1, <2>2 DEF AddMembers
<1>2. owed' \subseteq Group \X Cause
  BY Kept DEF AddMembers
<1> QED BY <1>0, <1>1, <1>2, Kept, Going DEF AddMembers, PC, outside

LEMMA CreateParentInv == ASSUME IInv, busy, CreateParent PROVE IInv'
<1>0. /\ job \in Job /\ job.above \subseteq Group /\ job.id # 0 /\ Handling(job, Len(azure))
      /\ ldap \in [Group -> Entry]
  BY Fields, Kept DEF IInv, Steps, CreateParent, Handling, Loose
<1>1. Parents \subseteq Group
  BY <1>0 DEF Parents
<1>2. PICK p \in Parents :
        job' = [job EXCEPT !.pc = "post", !.target = p, !.cur = ldap[p],
                           !.above = Parents \ {p}]
  BY DEF CreateParent, Missing
<1>3. PICK e \in Entry, P \in SUBSET Group : e = ldap[p] /\ P = Parents \ {p}
  BY <1>0, <1>1, <1>2
<1>4. job' = [job EXCEPT !.pc = "post", !.target = p, !.cur = e, !.above = P]
  BY <1>2, <1>3
<1>5. /\ job' \in Job /\ job'.pc = "post" /\ job'.id = job.id /\ job'.made = job.made
      /\ job'.new = job.new
  BY <1>0, <1>1, <1>4 DEF Job, PC
<1>6. Handling(job', Len(azure))
  BY <1>0, <1>5 DEF Handling, Loose
<1>7. raced' \in BOOLEAN
  BY Zenon DEF CreateParent
<1> QED BY <1>5, <1>6, <1>7, Kept, CallStep DEF CreateParent, counts

LEMMA CreatedInv == ASSUME IInv, busy, Created PROVE IInv'
<1>0. /\ job \in Job /\ job.then \in {"convert", "owners", "gather"} /\ job.id # 0
      /\ Handling(job, Len(azure))
  BY Fields DEF IInv, Steps, Created, Handling, Loose
<1>1. /\ job' \in Job /\ job'.pc = job.then /\ job'.id = job.id /\ job'.made = job.made
      /\ job'.new = job.new
  BY <1>0 DEF Created, Job, PC
<1>2. Handling(job', Len(azure))
  BY <1>0, <1>1 DEF Handling, Loose
<1> QED BY <1>1, <1>2, Kept, CallStep DEF Created, outside

\* A job for the daemon names a group.
LEMMA EnqueueType ==
  ASSUME IInv, busy, job.id # 0, Enqueue
  PROVE  /\ jobs' \in Seq(TeamJob) /\ owed' \subseteq Group \X Cause
         /\ \A k \in DOMAIN jobs' : Known(jobs'[k].id, Len(azure)) /\ jobs'[k].id # 0
<1>0. job.id \in Nat /\ job.new \in Entry /\ job.group \in Group /\ Known(job.id, Len(azure))
  BY Fields DEF IInv, Steps, Handling
<1>1. PICK t \in TeamJob : t.id = job.id /\ jobs' = Append(jobs, t)
  BY <1>0, Kept DEF Enqueue, TeamJob
<1>2. jobs \in Seq(TeamJob)
  BY Kept
<1>3. \A k \in DOMAIN jobs : Known(jobs[k].id, Len(azure)) /\ jobs[k].id # 0
  BY DEF IInv, IdsOfGroups
<1>4. \A k \in DOMAIN jobs' : jobs'[k] = t \/ (k \in DOMAIN jobs /\ jobs'[k] = jobs[k])
  BY <1>1, <1>2
<1>5. owed' \subseteq Group \X Cause
  BY <1>0, Kept DEF Enqueue, Cause
<1> QED BY <1>0, <1>1, <1>2, <1>3, <1>4, <1>5

\* A step that may put a job into the daemon's queue.
LEMMA QueueStep ==
  ASSUME IInv, busy, job.id # 0, job' \in Job, Handling(job', Len(azure)),
         Enqueue \/ (jobs' = jobs /\ owed' \subseteq Group \X Cause),
         ldap' = ldap, seen' = seen, UNCHANGED people, queue' = queue, UNCHANGED outside,
         azure' \in Seq(AzureGroup), Len(azure') = Len(azure), failed' = failed
  PROVE  IInv'
<1>1. /\ jobs' \in Seq(TeamJob) /\ owed' \subseteq Group \X Cause
      /\ \A k \in DOMAIN jobs' : Known(jobs'[k].id, Len(azure)) /\ jobs'[k].id # 0
  BY EnqueueType, Kept DEF IInv, IdsOfGroups
<1>2. TypeOK'
  BY <1>1 DEF IInv, TypeOK, people, outside
<1>3. IdsOfGroups'
  BY <1>1 DEF IInv, IdsOfGroups
<1>4. Steps'
  BY DEF IInv, Steps, busy
<1> QED BY <1>2, <1>3, <1>4 DEF IInv

LEMMA ConvertInv == ASSUME IInv, busy, Convert PROVE IInv'
<1>0. /\ job \in Job /\ job.id # 0 /\ Handling(job, Len(azure))
  BY Fields DEF IInv, Steps, Convert, Handling, Loose
<1>1. PICK p \in PC : Goto(p) /\ p = IF job.item \in User THEN "join" ELSE "done"
  BY DEF Convert, PC
<1>2. /\ job' \in Job /\ job'.pc = p /\ job'.id = job.id /\ job'.made = job.made
      /\ job'.new = job.new /\ job'.item = job.item
  BY <1>0, <1>1, GotoType
<1>3. Handling(job', Len(azure))
  BY <1>0, <1>1, <1>2 DEF Handling, Loose
<1> QED BY <1>0, <1>2, <1>3, Kept, QueueStep DEF Convert

-----------------------------------------------------------------------------
(* GroupConnector.modify (connector.py:909).                               *)

LEMMA LostInv == ASSUME IInv, busy, Lost PROVE IInv'
<1>1. job.id # 0
  BY Mine DEF Lost, Loose
<1>2. failed' \in BOOLEAN
  BY Kept DEF Lost
<1> QED BY <1>1, <1>2, Kept, Going DEF Lost, PC, outside

LEMMA GetInv == ASSUME IInv, busy, Get PROVE IInv'
<1>1. job.id # 0
  BY Mine DEF Get, Loose
<1> QED BY <1>1, Kept, Going DEF Get, PC, outside

LEMMA ReviveInv == ASSUME IInv, busy, Revive PROVE IInv'
<1>1. job.id \in 1 .. Len(azure) /\ job.new \in Entry
  BY Mine, Fields DEF Revive, Loose, IInv
<1>2. azure' \in Seq(AzureGroup) /\ Len(azure') = Len(azure) /\ cleaned' \subseteq Group
  <2>1. CASE UNCHANGED <<azure, cleaned>>
    BY <2>1, Kept
  <2>2. CASE /\ SetGroup(job.id, [azure[job.id] EXCEPT !.name = job.new.name])
             /\ cleaned' = cleaned \ {job.group}
    <3>1. job.new.name \in Name \cup {NoName, Renamed, Gone}
      BY <1>1 DEF Entry
    <3>2. [azure[job.id] EXCEPT !.name = job.new.name] \in AzureGroup
      BY <1>1, <3>1, GroupAt, Kept
    <3> QED BY <1>1, <2>2, <3>2, SetGroupType, Kept
  <2> QED BY <2>1, <2>2 DEF Revive
<1> QED BY <1>1, <1>2, Kept, Going DEF Revive, PC

LEMMA AddOwnersInv == ASSUME IInv, busy, AddOwners PROVE IInv'
<1>1. job.id \in 1 .. Len(azure) /\ job.new \in Entry /\ job.group \in Group
  BY Mine, Fields DEF AddOwners, Loose, IInv
<1>2. NewOwners \subseteq User
  BY Kept DEF NewOwners
<1>3. azure' \in Seq(AzureGroup) /\ Len(azure') = Len(azure)
  <2>1. [azure[job.id] EXCEPT !.owners = @ \cup NewOwners] \in AzureGroup
    BY <1>1, <1>2, GroupAt, Kept
  <2> QED BY <1>1, <2>1, SetGroupType, Kept DEF AddOwners
<1>4. owed' \subseteq Group \X Cause
  BY <1>1, Kept DEF AddOwners, Cause
<1> QED BY <1>1, <1>3, <1>4, Kept, Going DEF AddOwners, PC, outside

LEMMA DisownInv == ASSUME IInv, busy, Disown PROVE IInv'
<1>1. job.id \in 1 .. Len(azure) /\ job.group \in Group
  BY Mine, Fields DEF Disown, Loose, IInv
<1>2. azure[job.id].owners \subseteq User
  BY <1>1, GroupAt, Kept
<1>3. PICK O \in SUBSET User :
        /\ SetGroup(job.id, [azure[job.id] EXCEPT !.owners = O])
        /\ owed' = owed \/ owed' = owed \cup {<<job.group, "team">>}
  BY <1>2 DEF Disown
<1>4. azure' \in Seq(AzureGroup) /\ Len(azure') = Len(azure)
  <2>1. [azure[job.id] EXCEPT !.owners = O] \in AzureGroup
    BY <1>1, GroupAt, Kept
  <2> QED BY <1>1, <1>3, <2>1, SetGroupType, Kept
<1>5. owed' \subseteq Group \X Cause
  BY <1>1, <1>3, Kept DEF Cause
<1> QED BY <1>1, <1>4, <1>5, Kept, Going DEF Disown, PC, outside

LEMMA CheckTeamInv == ASSUME IInv, busy, CheckTeam PROVE IInv'
<1>0. /\ job \in Job /\ job.new \in Entry /\ job.group \in Group /\ Handling(job, Len(azure))
      /\ job.id \in 1 .. Len(azure)
  BY Fields, Mine DEF IInv, Steps, CheckTeam, Loose
<1>1. PICK T \in SUBSET (Group \cup User) : job' = [job EXCEPT !.pc = "gather", !.todo = T]
  <2>1. job.new.groups \ job.old.groups \in SUBSET (Group \cup User)
    BY <1>0 DEF Entry
  <2> QED BY <2>1 DEF CheckTeam
<1>2. /\ job' \in Job /\ job'.pc = "gather" /\ job'.id = job.id /\ job'.made = job.made
      /\ job'.new = job.new
  BY <1>0, <1>1 DEF Job, PC
<1>3. Handling(job', Len(azure))
  BY <1>0, <1>2 DEF Handling, Loose
<1>4. azure' \in Seq(AzureGroup) /\ Len(azure') = Len(azure)
  <2>1. CASE UNCHANGED azure
    BY <2>1, Kept
  <2>2. CASE SetGroup(job.id, [azure[job.id] EXCEPT !.team = "archived"])
    <3>1. [azure[job.id] EXCEPT !.team = "archived"] \in AzureGroup
      BY <1>0, GroupAt, Kept
    <3> QED BY <1>0, <2>2, <3>1, SetGroupType, Kept
  <2> QED BY <2>1, <2>2 DEF CheckTeam
<1>5. Enqueue \/ (jobs' = jobs /\ owed' \subseteq Group \X Cause)
  BY <1>0, Kept DEF CheckTeam, Cause
<1> QED BY <1>0, <1>2, <1>3, <1>4, <1>5, QueueStep DEF CheckTeam

LEMMA GatherInv == ASSUME IInv, busy, Gather PROVE IInv'
<1>0. /\ job \in Job /\ job.id # 0 /\ Handling(job, Len(azure)) /\ job.pc = "gather"
      /\ ldap \in [Group -> Entry] /\ job.todo \subseteq Group \cup User
  BY Fields, Kept DEF IInv, Steps, Gather, Handling, Loose
<1>1. PICK h \in job.todo \cap Group :
        \/ /\ Here(h)
           /\ job' = [job EXCEPT !.pc = "post", !.todo = @ \ {h}, !.target = h,
                                 !.cur = ldap[h], !.then = "gather"]
        \/ job' = [job EXCEPT !.todo = @ \ {h}]
  BY DEF Gather
<1>2. PICK T \in SUBSET (Group \cup User) : T = job.todo \ {h}
  BY <1>0
<1>3. /\ job' \in Job /\ job'.pc \in {"post", "gather"} /\ job'.id = job.id
      /\ job'.made = job.made /\ job'.new = job.new
  <2>1. CASE job' = [job EXCEPT !.todo = @ \ {h}]
    <3>1. job' = [job EXCEPT !.todo = T]
      BY <1>0, <1>2, <2>1 DEF Job
    <3> QED BY <1>0, <3>1 DEF Job
  <2>2. CASE job' = [job EXCEPT !.pc = "post", !.todo = @ \ {h}, !.target = h,
                                !.cur = ldap[h], !.then = "gather"] /\ Here(h)
    <3>1. h \in Group
      BY <1>1
    <3>2. PICK e \in Entry, g \in Group : e = ldap[h] /\ g = h
      BY <1>0, <3>1
    <3>3. job' = [job EXCEPT !.pc = "post", !.todo = T, !.target = g,
                             !.cur = e, !.then = "gather"]
      BY <1>0, <1>2, <2>2, <3>2 DEF Job
    <3> QED BY <1>0, <3>3 DEF Job, PC
  <2> QED BY <1>1, <2>1, <2>2
<1>4. Handling(job', Len(azure))
  BY <1>0, <1>3 DEF Handling, Loose
<1>5. raced' \in BOOLEAN
  BY Zenon DEF Gather
<1> QED BY <1>3, <1>4, <1>5, Kept, CallStep DEF Gather, counts

\* What the module writes into an entry.
LEMMA EntryWritten ==
  ASSUME NEW e \in Entry
  PROVE  /\ [e EXCEPT !.alias = TRUE] \in Entry /\ [e EXCEPT !.alias = TRUE].id = e.id
         /\ [e EXCEPT !.id = 0, !.alias = FALSE] \in Entry
         /\ [e EXCEPT !.id = 0, !.alias = FALSE].id = 0
BY DEF Entry

LEMMA GatherUnknownInv == ASSUME IInv, busy, GatherUnknown PROVE IInv'
<1>1. {<<job.group, "nested">>} \in SUBSET (Group \X Cause)
  BY Fields DEF IInv, Cause
<1> QED BY <1>1, RaiseInv, Kept DEF GatherUnknown

LEMMA AddNewInv == ASSUME IInv, busy, AddNew PROVE IInv'
<1>0. /\ job \in Job /\ job.new \in Entry /\ job.old \in Entry
      /\ job.id \in 1 .. Len(azure) /\ Handling(job, Len(azure)) /\ job.pc = "gather"
  BY Fields, Mine DEF IInv, Steps, AddNew, Loose
<1>1. Newcomers \in SUBSET User
  BY Kept DEF Newcomers
<1>2. azure' \in Seq(AzureGroup) /\ Len(azure') = Len(azure) /\ failed' \in BOOLEAN
  <2>1. AddTo(job.id, Newcomers)
    BY DEF AddNew
  <2> QED BY <1>0, <1>1, <2>1, AddToType DEF IInv
<1>3. PICK T \in SUBSET (Group \cup User) : job' = [job EXCEPT !.pc = "remove", !.todo = T]
  BY <1>0 DEF AddNew, Removed, Entry
<1>4. /\ job' \in Job /\ job'.pc = "remove" /\ job'.id = job.id /\ job'.made = job.made
      /\ job'.new = job.new
  BY <1>0, <1>3 DEF Job, PC
<1>5. Handling(job', Len(azure))
  BY <1>0, <1>4 DEF Handling, Loose
<1>6. late' \subseteq Nat \X User
  <2>1. (job.new.users \ job.old.users) \cap (marked \ enabled) \subseteq User
    BY Kept
  <2>2. {job.id} \X ((job.new.users \ job.old.users) \cap (marked \ enabled)) \subseteq Nat \X User
    BY <1>0, <2>1
  <2> QED BY <2>2, Kept DEF AddNew
<1>7. TypeOK'
  BY <1>2, <1>4, <1>6 DEF AddNew, IInv, TypeOK, outside
<1>8. IdsOfGroups'
  BY <1>2 DEF AddNew, IInv, IdsOfGroups
<1>9. Steps'
  BY <1>2, <1>4, <1>5 DEF AddNew, IInv, Steps, busy
<1> QED BY <1>7, <1>8, <1>9 DEF IInv

\* What the call has left to do gets less.
LEMMA Dropping ==
  ASSUME IInv, busy, NEW x, Drop(x)
  PROVE  job' \in Job /\ Handling(job', Len(azure))
<1>1. job \in Job /\ Handling(job, Len(azure))
  BY Fields DEF IInv, Steps
<1> QED BY <1>1, DropType DEF Handling

LEMMA RemoveMemberInv == ASSUME IInv, busy, RemoveMember PROVE IInv'
<1>0. job.id \in 1 .. Len(azure)
  BY Mine DEF RemoveMember, Loose
<1>1. PICK x \in job.todo :
        /\ Drop(x)
        /\ \/ SetGroup(job.id, [azure[job.id] EXCEPT !.members = @ \ {x}])
           \/ UNCHANGED azure
  BY DEF RemoveMember
<1>2. azure' \in Seq(AzureGroup) /\ Len(azure') = Len(azure)
  <2>1. CASE UNCHANGED azure
    BY <2>1, Kept
  <2>2. CASE SetGroup(job.id, [azure[job.id] EXCEPT !.members = @ \ {x}])
    <3>1. [azure[job.id] EXCEPT !.members = @ \ {x}] \in AzureGroup
      BY <1>0, GroupAt, Kept
    <3> QED BY <1>0, <2>2, <3>1, SetGroupType, Kept
  <2> QED BY <1>1, <2>1, <2>2
<1>3. job' \in Job /\ Handling(job', Len(azure))
  BY <1>1, Dropping
<1> QED BY <1>2, <1>3, Kept, CallStep DEF RemoveMember, outside

LEMMA RemoveStrangerInv == ASSUME IInv, busy, RemoveStranger PROVE IInv'
<1>1. {<<job.group, "stranger">>} \in SUBSET (Group \X Cause)
  BY Fields DEF IInv, Cause
<1> QED BY <1>1, RaiseInv, Kept DEF RemoveStranger

LEMMA RemoveEmptyInv == ASSUME IInv, busy, RemoveEmpty PROVE IInv'
<1>1. job.id \in 1 .. Len(azure)
  BY Mine DEF RemoveEmpty, Loose
<1>2. azure' \in Seq(AzureGroup) /\ Len(azure') = Len(azure)
  <2>1. [azure[job.id] EXCEPT !.name = Renamed] \in AzureGroup
    BY <1>1, GroupAt, Kept
  <2> QED BY <1>1, <2>1, SetGroupType, Kept DEF RemoveEmpty
<1> QED BY <1>1, <1>2, Kept, Going DEF RemoveEmpty, PC, outside

LEMMA KeepGroupInv == ASSUME IInv, busy, KeepGroup PROVE IInv'
<1>1. job.id # 0
  BY Mine DEF KeepGroup, Loose
<1> QED BY <1>1, Kept, Going DEF KeepGroup, PC, outside

\* An entry written without objectId, and put into the listener's queue again.
LEMMA ForgetInv == ASSUME IInv, busy, Forget PROVE IInv'
<1>0. /\ job \in Job /\ job.group \in Group /\ job.id # 0 /\ Handling(job, Len(azure))
  BY Fields DEF IInv, Steps, Forget, Handling, Loose
<1>1. /\ ldap' \in [Group -> Entry]
      /\ \A g \in Group : ldap'[g].id = 0 \/ ldap'[g].id = ldap[g].id
  <2>1. ldap[job.group] \in Entry
    BY <1>0, Kept
  <2>2. PICK e \in Entry : e = [ldap[job.group] EXCEPT !.id = 0, !.alias = FALSE] /\ e.id = 0
    BY <2>1, EntryWritten
  <2>3. ldap' = [ldap EXCEPT ![job.group] = e]
    BY <1>0, <2>2, Kept DEF Forget
  <2> QED BY <1>0, <2>2, <2>3, Kept
<1>2. queue' \in Seq(Group \cup User) /\ queue' # <<>>
  BY <1>0, Kept, NotifyType DEF Forget, IInv, Steps
<1>3. owed' \subseteq Group \X Cause
  BY <1>0, Kept DEF Forget, Cause
<1>4. /\ job' \in Job /\ job'.pc = "rename" /\ job'.id = job.id /\ job'.made = job.made
      /\ job'.new = job.new
  BY <1>0, GotoType DEF Forget, PC
<1>5. Handling(job', Len(azure))
  BY <1>0, <1>4 DEF Handling, Loose
<1>6. TypeOK'
  BY <1>1, <1>2, <1>3, <1>4 DEF Forget, IInv, TypeOK, people, outside
<1>7. IdsOfGroups'
  BY <1>1 DEF Forget, IInv, IdsOfGroups, Known
<1>8. Steps'
  BY <1>2, <1>5 DEF Forget, Steps
<1> QED BY <1>6, <1>7, <1>8 DEF IInv

LEMMA ForgetNothingInv == ASSUME IInv, busy, ForgetNothing PROVE IInv'
<1>1. {<<job.group, "gone">>} \in SUBSET (Group \X Cause)
  BY Fields DEF IInv, Cause
<1> QED BY <1>1, RaiseInv, Kept DEF ForgetNothing

LEMMA UpdateNameInv == ASSUME IInv, busy, UpdateName PROVE IInv'
<1>1. job.id \in 1 .. Len(azure) /\ job.new \in Entry
  BY Mine, Fields DEF UpdateName, Loose, IInv
<1>2. azure' \in Seq(AzureGroup) /\ Len(azure') = Len(azure)
  <2>1. Parse(job.new).name \in Name \cup {NoName, Renamed, Gone}
    BY <1>1 DEF Parse, Entry
  <2>2. [azure[job.id] EXCEPT !.name = Parse(job.new).name] \in AzureGroup
    BY <1>1, <2>1, GroupAt, Kept
  <2> QED BY <1>1, <2>2, SetGroupType, Kept DEF UpdateName
<1> QED BY <1>2, Kept, Going DEF UpdateName, PC, Loose, outside

\* The module returns, having written at most the alias.
LEMMA IgnoreInv == ASSUME IInv, busy, Ignore PROVE IInv'
<1>0. job.group \in Group /\ queue \in Seq(Group \cup User) /\ queue # <<>>
  BY Fields, Kept DEF IInv, Steps
<1>1. ldap' \in [Group -> Entry] /\ \A g \in Group : ldap'[g].id = ldap[g].id
  <2>1. CASE ldap' = ldap
    BY <2>1, Kept
  <2>2. CASE ldap' = [ldap EXCEPT ![job.group].alias = TRUE]
    <3>1. ldap[job.group] \in Entry
      BY <1>0, Kept
    <3>2. PICK e \in Entry : /\ e = [ldap[job.group] EXCEPT !.alias = TRUE]
                             /\ e.id = ldap[job.group].id
      BY <3>1, EntryWritten
    <3>3. ldap' = [ldap EXCEPT ![job.group] = e]
      BY <1>0, <2>2, <3>2, Kept
    <3> QED BY <1>0, <3>2, <3>3, Kept
  <2> QED BY <2>1, <2>2 DEF Ignore
<1>2. queue' \in Seq(Group \cup User)
  <2>1. queue' = Tail(queue) \/ queue' = Tail(Notify(job.group))
    BY DEF Ignore
  <2>2. Notify(job.group) \in Seq(Group \cup User) /\ Notify(job.group) # <<>>
    BY <1>0, NotifyType
  <2> QED BY <1>0, <2>1, <2>2, SMTT(40)
<1>3. owed' \subseteq Group \X Cause
  BY <1>0, Kept DEF Ignore, Cause
<1> QED BY <1>1, <1>2, <1>3, Kept, Returning DEF Ignore

-----------------------------------------------------------------------------
(* GroupConnector.delete (connector.py:886).                               *)

LEMMA ArchiveInv == ASSUME IInv, busy, Archive PROVE IInv'
<1>1. job.id \in 1 .. Len(azure)
  BY Mine DEF Archive, Loose
<1>2. azure' \in Seq(AzureGroup) /\ Len(azure') = Len(azure)
  <2>1. [azure[job.id] EXCEPT !.team = IF @ = "none" THEN @ ELSE "archived"] \in AzureGroup
    BY <1>1, GroupAt, Kept
  <2> QED BY <1>1, <2>1, SetGroupType, Kept DEF Archive
<1> QED BY <1>1, <1>2, Kept, Going DEF Archive, PC, outside

LEMMA ArchiveNothingInv == ASSUME IInv, busy, ArchiveNothing PROVE IInv'
<1>1. {<<job.group, "unformed">>} \in SUBSET (Group \X Cause)
  BY Fields DEF IInv, Cause
<1> QED BY <1>1, RaiseInv, Kept DEF ArchiveNothing

LEMMA ClearInv == ASSUME IInv, busy, Clear PROVE IInv'
<1>1. job.id \in 1 .. Len(azure)
  BY Mine DEF Clear, Loose
<1>2. azure' \in Seq(AzureGroup) /\ Len(azure') = Len(azure)
  <2>1. CASE UNCHANGED azure
    BY <2>1, Kept
  <2>2. CASE SetGroup(job.id, [azure[job.id] EXCEPT !.members = {}])
    <3>1. [azure[job.id] EXCEPT !.members = {}] \in AzureGroup
      BY <1>1, GroupAt, Kept
    <3> QED BY <1>1, <2>2, <3>1, SetGroupType, Kept
  <2> QED BY <2>1, <2>2 DEF Clear
<1>3. Goto("done") \/ Goto("bury")
  BY DEF Clear
<1> QED BY <1>1, <1>2, <1>3, Kept, Going DEF Clear, PC, Loose, outside

LEMMA BuryInv == ASSUME IInv, busy, Bury PROVE IInv'
<1>1. job.id \in 1 .. Len(azure)
  BY Mine DEF Bury, Loose
<1>2. azure' \in Seq(AzureGroup) /\ Len(azure') = Len(azure)
  <2>1. [azure[job.id] EXCEPT !.name = Renamed] \in AzureGroup
    BY <1>1, GroupAt, Kept
  <2> QED BY <1>1, <2>1, SetGroupType, Kept DEF Bury
<1> QED BY <1>2, Kept, Going DEF Bury, PC, Loose, outside

-----------------------------------------------------------------------------
(* The groups of a user (connector.py:385), and teams.                     *)

\* A step between two calls.
LEMMA IdleStep ==
  ASSUME IInv, ~busy, job' = job,
         ldap' \in [Group -> Entry], \A g \in Group : ldap'[g].id \in {0, ldap[g].id},
         seen' = seen, enabled' \subseteq marked', marked' \subseteq User, known' \subseteq User,
         late' \subseteq Nat \X User,
         ids' \subseteq User, named' \subseteq ids', queue' \in Seq(Group \cup User),
         azure' \in Seq(AzureGroup), Len(azure') = Len(azure), jobs' = jobs,
         changes' \in 0 .. MaxChanges, crashes' = crashes,
         failed' \in BOOLEAN, raced' \in BOOLEAN,
         owed' \subseteq Group \X Cause, cleaned' \subseteq Group
  PROVE  IInv'
<1>1. TypeOK'
  BY DEF IInv, TypeOK
<1>2. IdsOfGroups'
  BY DEF IInv, IdsOfGroups, Known
<1>3. Steps'
  BY DEF Steps, busy
<1> QED BY <1>1, <1>2, <1>3 DEF IInv

\* A call begins.
LEMMA Beginning ==
  ASSUME IInv, ~busy, queue # <<>>, job' \in Job, Handling(job', Len(azure)),
         ldap' = ldap, seen' = seen, queue' = queue, azure' = azure, jobs' = jobs,
         UNCHANGED <<marked, enabled, known, late>>, ids' \subseteq User, named' \subseteq ids',
         UNCHANGED outside, failed' = failed, owed' \subseteq Group \X Cause
  PROVE  IInv'
<1>1. TypeOK'
  BY DEF IInv, TypeOK, outside
<1>2. IdsOfGroups'
  BY DEF IInv, IdsOfGroups
<1>3. Steps'
  BY DEF IInv, Steps
<1> QED BY <1>1, <1>2, <1>3 DEF IInv

\* Every group of the tenant is replaced by another.
LEMMA AllGroupsType ==
  ASSUME NEW n \in Nat, NEW f \in [1 .. n -> AzureGroup]
  PROVE  f \in Seq(AzureGroup) /\ Len(f) = n
OBVIOUS

LEMMA CallType ==
  ASSUME IInv, NEW x \in Group \cup User, NEW g \in Group, NEW p \in PC,
         NEW t \in {"convert", "owners", "gather"}
  PROVE  /\ Call(x, g, p, t) \in Job
         /\ LET j == Call(x, g, p, t) IN
            /\ j.pc = p /\ j.item = x /\ j.group = g /\ j.target = g /\ j.made = 0
            /\ j.id = seen[g].id /\ j.new = ldap[g]
<1>1. /\ ldap[g] \in Entry /\ seen[g] \in Entry
      /\ seen[g].id \in Nat /\ ldap[g].alias \in BOOLEAN
  BY Kept DEF Entry
<1> QED BY <1>1 DEF Call, Job

LEMMA StartInv == ASSUME IInv, Start PROVE IInv'
<1>0. ~busy /\ queue # <<>> /\ queue[1] \in Group
  BY DEF Start
<1>1. PICK g \in Group : g = queue[1]
  BY <1>0
<1>2. /\ ldap[g] \in Entry /\ Known(ldap[g].id, Len(azure)) /\ Known(seen[g].id, Len(azure))
      /\ Len(azure) \in Nat
  BY Kept DEF IInv, IdsOfGroups
<1>3. CASE StartCreate(g)
  <2>1. PICK p \in {"post", "done"} : job' = Call(g, g, p, "convert")
    BY <1>3 DEF StartCreate
  <2>2. /\ job' \in Job /\ job'.pc = p /\ job'.group = g /\ job'.target = g
        /\ job'.made = 0 /\ job'.id = seen[g].id /\ job'.new = ldap[g]
    BY <2>1, CallType DEF PC
  <2>3. Handling(job', Len(azure))
    BY <1>2, <2>2 DEF Handling, Loose, Known
  <2>4. owed' \subseteq Group \X Cause
    BY <1>3, Kept DEF StartCreate, Cause
  <2> QED BY <1>0, <2>2, <2>3, <2>4, Kept, Beginning DEF Start, people
<1>4. CASE StartModify(g)
  <2>1. PICK i \in Nat, p \in {"done", "ignore", "post", "get"} :
          /\ job' = [Call(g, g, p, "owners") EXCEPT !.id = i]
          /\ i \in {seen[g].id, ldap[g].id} /\ (p = "get" => i # 0)
    <3>1. seen[g].id \in Nat /\ ldap[g].id \in Nat
      BY <1>2 DEF Known
    <3> QED BY <1>4, <3>1 DEF StartModify
  <2>2. Call(g, g, p, "owners") \in Job /\ LET j == Call(g, g, p, "owners") IN
          j.pc = p /\ j.group = g /\ j.target = g /\ j.made = 0 /\ j.new = ldap[g]
    BY CallType DEF PC
  <2>3. /\ job' \in Job /\ job'.pc = p /\ job'.group = g /\ job'.target = g
        /\ job'.made = 0 /\ job'.id = i /\ job'.new = ldap[g]
    BY <2>1, <2>2 DEF Job
  <2>4. Handling(job', Len(azure))
    BY <1>2, <2>1, <2>3 DEF Handling, Loose, Known
  <2>5. owed' \subseteq Group \X Cause
    BY <1>4, Kept DEF StartModify
  <2> QED BY <1>0, <2>3, <2>4, <2>5, Kept, Beginning DEF Start, people
<1>5. CASE StartDelete(g)
  <2>1. PICK p \in {"done", "archive", "clear"} :
          job' = Call(g, g, p, "owners") /\ (p = "done" \/ seen[g].id # 0)
    BY <1>5 DEF StartDelete
  <2>2. /\ job' \in Job /\ job'.pc = p /\ job'.group = g /\ job'.target = g
        /\ job'.made = 0 /\ job'.id = seen[g].id /\ job'.new = ldap[g]
    BY <2>1, CallType DEF PC
  <2>3. Handling(job', Len(azure))
    BY <1>2, <2>1, <2>2 DEF Handling, Loose, Known
  <2>4. owed' \subseteq Group \X Cause
    BY <1>5, Kept DEF StartDelete
  <2> QED BY <1>0, <2>2, <2>3, <2>4, Kept, Beginning DEF Start, people
<1> QED BY <1>1, <1>3, <1>4, <1>5 DEF Start

LEMMA EnableInv == ASSUME IInv, Enable PROVE IInv'
<1>0. ~busy /\ queue # <<>> /\ queue[1] \in User
  BY Kept DEF Enable
<1>1. PICK u \in User : u = queue[1]
  BY <1>0
<1>2. PICK g \in Group, T \in SUBSET (Group \cup User) :
        job' = [Call(u, g, "join", "convert") EXCEPT
                  !.todo = T, !.old = Nothing, !.new = Nothing, !.id = 0]
  <2>1. {h \in Group : Here(h) /\ u \in ldap[h].users} \subseteq Group
    OBVIOUS
  <2> QED BY <1>1, <2>1 DEF Enable
<1>3. /\ Nothing \in Entry /\ Nothing.id = 0
  BY DEF Nothing, Entry
<1>4. Call(u, g, "join", "convert") \in Job /\ LET j == Call(u, g, "join", "convert") IN
        j.pc = "join" /\ j.item = u /\ j.group = g /\ j.target = g /\ j.made = 0
  BY CallType DEF PC
<1>5. PICK e \in Entry : e = Nothing /\ e.id = 0
  BY <1>3
<1>6. job' = [Call(u, g, "join", "convert") EXCEPT
                !.todo = T, !.old = e, !.new = e, !.id = 0]
  BY <1>2, <1>5
<1>7. /\ job' \in Job /\ job'.pc = "join" /\ job'.item = u /\ job'.made = 0
      /\ job'.id = 0 /\ job'.new = e
  BY <1>4, <1>6 DEF Job
<1>8. Handling(job', Len(azure))
  BY <1>5, <1>7, Kept DEF Handling, Loose, Known
<1>9. ids' \subseteq User /\ named' \subseteq ids'
  BY <1>1, Kept DEF Enable
<1> QED BY <1>0, <1>7, <1>8, <1>9, Kept, Beginning DEF Enable

LEMMA DisableInv == ASSUME IInv, Disable PROVE IInv'
<1>0. ~busy /\ queue \in Seq(Group \cup User) /\ queue # <<>>
  BY Kept DEF Disable
<1>1. \A i \in DOMAIN azure : [azure[i] EXCEPT !.members = @ \ {queue[1]}] \in AzureGroup
  <2> TAKE i \in DOMAIN azure
  <2>1. i \in 1 .. Len(azure) /\ azure \in Seq(AzureGroup)
    BY Kept
  <2>2. azure[i].members \ {queue[1]} \in SUBSET User
    BY <2>1, GroupAt
  <2> QED BY <2>1, <2>2, GroupAt
<1>2. azure' \in Seq(AzureGroup) /\ Len(azure') = Len(azure)
  <2>1. DOMAIN azure = 1 .. Len(azure) /\ Len(azure) \in Nat
    BY Kept
  <2>2. azure' \in [1 .. Len(azure) -> AzureGroup]
    BY <1>1, <2>1 DEF Disable
  <2> QED BY <2>1, <2>2, AllGroupsType
<1>3. known' \subseteq User /\ named' \subseteq ids
  BY Kept DEF Disable
<1>4. queue' \in Seq(Group \cup User)
  BY <1>0 DEF Disable
<1>5. changes \in 0 .. MaxChanges
  BY DEF IInv, TypeOK
<1> QED BY <1>0, <1>2, <1>3, <1>4, <1>5, Kept, IdleStep DEF Disable, outside

LEMMA IgnoredInv == ASSUME IInv, Ignored PROVE IInv'
<1>0. ~busy /\ queue \in Seq(Group \cup User) /\ queue # <<>>
  BY Kept DEF Ignored
<1>1. queue' \in Seq(Group \cup User)
  BY <1>0 DEF Ignored
<1>2. changes \in 0 .. MaxChanges
  BY DEF IInv, TypeOK
<1> QED BY <1>0, <1>1, <1>2, Kept, IdleStep DEF Ignored, outside, people

LEMMA JoinInv == ASSUME IInv, busy, Join PROVE IInv'
<1>0. /\ job \in Job /\ job.todo \subseteq Group \cup User /\ job.pc = "join"
      /\ job.item \in User /\ Handling(job, Len(azure)) /\ ldap \in [Group -> Entry]
      /\ job.id \in Nat
  BY Fields, Kept DEF IInv, Steps, Handling, Join
<1>1. PICK g \in Group : JoinNew(g) \/ JoinGroup(g)
  BY DEF Join
<1>2. CASE JoinNew(g)
  <2>1. PICK e \in Entry, T \in SUBSET (Group \cup User) : e = ldap[g] /\ T = job.todo \ {g}
    BY <1>0
  <2>2. job' = [job EXCEPT !.pc = "post", !.todo = T, !.group = g, !.new = e,
                           !.target = g, !.cur = e, !.then = "convert"]
    BY <1>0, <1>2, <2>1 DEF JoinNew, Job
  <2>3. /\ job' \in Job /\ job'.pc = "post" /\ job'.id = job.id /\ job'.made = job.made
        /\ job'.new = e /\ job'.target = g /\ job'.group = g
    BY <1>0, <2>2 DEF Job, PC
  <2>4. Known(e.id, Len(azure))
    BY <2>1 DEF IInv, IdsOfGroups
  <2>5. Handling(job', Len(azure))
    BY <1>0, <2>3, <2>4 DEF Handling, Loose
  <2>6. raced' \in BOOLEAN
    BY <1>2, Zenon DEF JoinNew
  <2> QED BY <1>2, <2>3, <2>5, <2>6, Kept, CallStep DEF JoinNew, Join, counts, people
<1>3. CASE JoinGroup(g)
  <2>1. job' \in Job /\ Handling(job', Len(azure))
    BY <1>3, Dropping DEF JoinGroup
  <2>2. azure' \in Seq(AzureGroup) /\ Len(azure') = Len(azure) /\ failed' \in BOOLEAN
    <3>1. CASE UNCHANGED <<azure, failed>>
      BY <3>1, Kept
    <3>2. CASE ldap[g].id # 0 /\ AddTo(ldap[g].id, {job.item})
      <4>1. ldap[g].id \in 1 .. Len(azure)
        BY <3>2 DEF IInv, IdsOfGroups, Known
      <4>2. PICK U \in SUBSET User : U = {job.item}
        BY <1>0
      <4>3. AddTo(ldap[g].id, U)
        BY <3>2, <4>2
      <4> QED BY <4>1, <4>3, AddToType DEF IInv
    <3> QED BY <1>3, <3>1, <3>2 DEF JoinGroup
  <2>3. owed' \subseteq Group \X Cause
    <3>1. owed' = owed \/ owed' = owed \cup {<<g, "unformed">>}
      BY <1>3 DEF JoinGroup
    <3> QED BY <3>1, Kept DEF Cause
  <2> QED BY <1>3, <2>1, <2>2, <2>3, Kept, CallStep DEF JoinGroup, Join, counts, people
<1> QED BY <1>1, <1>2, <1>3

LEMMA JoinedInv == ASSUME IInv, busy, Joined PROVE IInv'
BY Kept, Going DEF Joined, PC, Loose, outside

LEMMA JoinGoneInv == ASSUME IInv, busy, JoinGone PROVE IInv'
<1>1. Left("gone") \in SUBSET (Group \X Cause)
  BY LeftType DEF IInv, Cause
<1> QED BY <1>1, RaiseInv, Kept DEF JoinGone

LEMMA FinishInv == ASSUME IInv, busy, Finish PROVE IInv'
<1>1. queue \in Seq(Group \cup User) /\ queue # <<>>
  BY Kept DEF IInv, Steps
<1>2. queue' \in Seq(Group \cup User)
  BY <1>1 DEF Finish
<1> QED BY <1>2, Kept, Returning DEF Finish

\* The daemon makes a team (asyncqueue/async_task.py).
LEMMA RunJobInv == ASSUME IInv, RunJob PROVE IInv'
<1>0. jobs \in Seq(TeamJob) /\ jobs # <<>>
  BY Kept DEF RunJob
<1>1. PICK j \in TeamJob : j = Head(jobs) /\ j.id \in 1 .. Len(azure)
  BY <1>0 DEF IInv, IdsOfGroups, Known
<1>2. j.owners \subseteq User
  BY DEF TeamJob
<1>3. azure' \in Seq(AzureGroup) /\ Len(azure') = Len(azure)
  <2>1. CASE UNCHANGED azure
    BY <2>1, Kept
  <2>2. CASE \E O \in SUBSET User, t \in {"none", "active", "archived"} :
               SetGroup(j.id, [azure[j.id] EXCEPT !.owners = O, !.team = t])
    <3>1. PICK O \in SUBSET User, t \in {"none", "active", "archived"} :
            SetGroup(j.id, [azure[j.id] EXCEPT !.owners = O, !.team = t])
      BY <2>2
    <3>2. azure[j.id] \in AzureGroup
      BY <1>1, GroupAt, Kept
    <3>3. [azure[j.id] EXCEPT !.owners = O, !.team = t] \in AzureGroup
      BY <3>2 DEF AzureGroup
    <3> QED BY <1>1, <3>1, <3>3, SetGroupType, Kept
  <2>3. UNCHANGED azure \/ \E O \in SUBSET User, t \in {"none", "active", "archived"} :
          SetGroup(j.id, [azure[j.id] EXCEPT !.owners = O, !.team = t])
    <3>1. /\ azure[j.id].owners \subseteq User
          /\ azure[j.id].team \in {"none", "active", "archived"}
      BY <1>1, GroupAt, Kept
    <3>2. PICK O \in SUBSET User : O = azure[j.id].owners \cup j.owners
      BY <1>2, <3>1
    <3>3. CASE azure[j.id].name = Gone
      BY <1>1, <3>3 DEF RunJob
    <3>4. CASE azure[j.id].name # Gone
      <4> DEFINE made == azure[j.id].team = "none" /\ O # {}
      <4>1. SetGroup(j.id, [azure[j.id] EXCEPT !.owners = O,
                              !.team = IF made THEN "active" ELSE @])
        BY <1>1, <3>2, <3>4 DEF RunJob
      <4>2. PICK t \in {"none", "active", "archived"} :
              t = IF made THEN "active" ELSE azure[j.id].team
        BY <3>1
      <4>3. SetGroup(j.id, [azure[j.id] EXCEPT !.owners = O, !.team = t])
        BY <4>1, <4>2
      <4> QED BY <4>3
    <3> QED BY <3>3, <3>4
  <2> QED BY <2>1, <2>2, <2>3
<1>4. owed' \subseteq Group \X Cause
  <2>1. \/ owed' = owed
        \/ owed' = owed \cup {<<g, "team">> : g \in {h \in Group : ldap[h].id = j.id}}
    BY <1>1 DEF RunJob
  <2> QED BY <2>1, Kept DEF Cause
<1>5. jobs' \in Seq(TeamJob) /\ \A k \in DOMAIN jobs' : k + 1 \in DOMAIN jobs /\ jobs'[k] = jobs[k + 1]
  BY <1>0 DEF RunJob
<1>6. TypeOK'
  BY <1>3, <1>4, <1>5 DEF RunJob, IInv, TypeOK, people, outside
<1>7. IdsOfGroups'
  BY <1>3, <1>5 DEF RunJob, IInv, IdsOfGroups
<1>8. Steps'
  BY <1>3 DEF RunJob, IInv, Steps, busy
<1> QED BY <1>6, <1>7, <1>8 DEF IInv

-----------------------------------------------------------------------------
(* What happens to a call, and around it.                                  *)

LEMMA FailsInv == ASSUME IInv, Fails PROVE IInv'
<1>1. {} \in SUBSET (Group \X Cause)
  OBVIOUS
<1> QED BY <1>1, RaiseInv DEF Fails

LEMMA CrashInv == ASSUME IInv, Crash PROVE IInv'
<1>0. job.target \in Group
  BY Fields DEF IInv, Crash
<1>1. owed' \subseteq Group \X Cause
  BY <1>0, Kept DEF Crash, Cause
<1>2. crashes' \in 0 .. MaxCrashes
  BY BoundsAssumption DEF Crash, IInv, TypeOK
<1>3. TypeOK'
  BY <1>1, <1>2 DEF Crash, IInv, TypeOK, people
<1>4. IdsOfGroups'
  BY DEF Crash, IInv, IdsOfGroups
<1>5. Steps'
  BY DEF Crash, Steps, busy
<1> QED BY <1>3, <1>4, <1>5 DEF IInv

\* Administrators change entries and users, and no objectId.
LEMMA ChangeInv ==
  ASSUME IInv, NEW x \in Group \cup User, Change(x), ldap' \in [Group -> Entry],
         \A g \in Group : ldap'[g].id \in {0, ldap[g].id},
         enabled' \subseteq marked', marked' \subseteq User
  PROVE  IInv'
<1>1. queue' \in Seq(Group \cup User) /\ (queue # <<>> => queue' # <<>>)
  BY Kept, NotifyType DEF Change
<1>2. changes' \in 0 .. MaxChanges
  BY BoundsAssumption DEF Change, IInv, TypeOK
<1>3. raced' \in BOOLEAN
  BY Zenon DEF Change
<1>4. TypeOK'
  BY <1>1, <1>2, <1>3 DEF Change, IInv, TypeOK
<1>5. IdsOfGroups'
  BY DEF Change, IInv, IdsOfGroups, Known
<1>6. Steps'
  BY <1>1 DEF Change, IInv, Steps, busy
<1> QED BY <1>4, <1>5, <1>6 DEF IInv

LEMMA PutInv ==
  ASSUME IInv, NEW g \in Group, NEW e \in Entry, e.id \in {0, ldap[g].id}, Put(g, e)
  PROVE  IInv'
<1>1. ldap' \in [Group -> Entry] /\ \A h \in Group : ldap'[h].id \in {0, ldap[h].id}
  BY Kept DEF Put
<1> QED BY <1>1, Kept, ChangeInv DEF Put

LEMMA EntryAdded ==
  ASSUME NEW e \in Entry, NEW n, NEW U, NEW G, NEW t, NEW O
  PROVE  [e EXCEPT !.life = "here", !.name = n, !.users = U,
                   !.groups = G, !.team = t, !.owners = O].id = e.id
BY DEF Entry

LEMMA AddInv == ASSUME IInv, NEW g \in Group, Add(g) PROVE IInv'
<1>1. PICK n \in Free, U \in SUBSET User, G \in SUBSET Nestable(g), O \in Ownable,
           t \in BOOLEAN :
        Put(g, [Nothing EXCEPT !.life = "here", !.name = n, !.users = U,
                               !.groups = G, !.team = t, !.owners = O])
  BY DEF Add
<1>2. n \in Name /\ G \subseteq Group /\ O \subseteq User
  BY DEF Free, Nestable, Ownable
<1>3. PICK e \in Entry :
        /\ e = [Nothing EXCEPT !.life = "here", !.name = n, !.users = U,
                               !.groups = G, !.team = t, !.owners = O]
        /\ e.id = 0
  <2>1. Nothing \in Entry /\ Nothing.id = 0
    BY DEF Nothing, Entry
  <2>2. [Nothing EXCEPT !.life = "here", !.name = n, !.users = U,
                        !.groups = G, !.team = t, !.owners = O] \in Entry
    BY <1>2, <2>1 DEF Entry
  <2>3. [Nothing EXCEPT !.life = "here", !.name = n, !.users = U,
                        !.groups = G, !.team = t, !.owners = O].id = 0
    BY <2>1, EntryAdded
  <2> QED BY <2>2, <2>3
<1> QED BY <1>1, <1>3, PutInv

LEMMA EditInv ==
  ASSUME IInv, NEW g \in Group,
         SetMembers(g) \/ Rename(g) \/ SetOwners(g) \/ SetTeam(g) \/ Delete(g)
  PROVE  IInv'
<1>0. ldap[g] \in Entry
  BY Kept
<1>1. CASE SetMembers(g)
  <2>1. PICK U \in SUBSET User, G \in SUBSET Nestable(g) :
          Put(g, [ldap[g] EXCEPT !.users = U, !.groups = G])
    BY <1>1 DEF SetMembers
  <2>2. G \subseteq Group
    BY DEF Nestable
  <2>3. /\ [ldap[g] EXCEPT !.users = U, !.groups = G] \in Entry
        /\ [ldap[g] EXCEPT !.users = U, !.groups = G].id = ldap[g].id
    BY <1>0, <2>2 DEF Entry
  <2> QED BY <2>1, <2>3, PutInv
<1>2. CASE Rename(g)
  <2>1. PICK n \in Name : Put(g, [ldap[g] EXCEPT !.name = n])
    BY <1>2 DEF Rename, Free
  <2>2. /\ [ldap[g] EXCEPT !.name = n] \in Entry
        /\ [ldap[g] EXCEPT !.name = n].id = ldap[g].id
    BY <1>0 DEF Entry
  <2> QED BY <2>1, <2>2, PutInv
<1>3. CASE SetOwners(g)
  <2>1. PICK O \in SUBSET User : Put(g, [ldap[g] EXCEPT !.owners = O])
    BY <1>3 DEF SetOwners, Ownable
  <2>2. /\ [ldap[g] EXCEPT !.owners = O] \in Entry
        /\ [ldap[g] EXCEPT !.owners = O].id = ldap[g].id
    BY <1>0 DEF Entry
  <2> QED BY <2>1, <2>2, PutInv
<1>4. CASE SetTeam(g)
  <2>1. PICK t \in BOOLEAN : t = ~ldap[g].team
    BY Zenon
  <2>2. Put(g, [ldap[g] EXCEPT !.team = t])
    BY <1>4, <2>1 DEF SetTeam
  <2>3. /\ [ldap[g] EXCEPT !.team = t] \in Entry
        /\ [ldap[g] EXCEPT !.team = t].id = ldap[g].id
    BY <1>0 DEF Entry
  <2> QED BY <2>2, <2>3, PutInv
<1>5. CASE Delete(g)
  <2>1. /\ [ldap[g] EXCEPT !.life = "gone"] \in Entry
        /\ [ldap[g] EXCEPT !.life = "gone"].id = ldap[g].id
    BY <1>0 DEF Entry
  <2> QED BY <1>5, <2>1, PutInv DEF Delete
<1> QED BY <1>1, <1>2, <1>3, <1>4, <1>5

LEMMA SwitchInv == ASSUME IInv, NEW u \in User, Switch(u) PROVE IInv'
BY Kept, ChangeInv DEF Switch

\* In Azure groups get other names, and are never fewer.
LEMMA PurgeInv == ASSUME IInv, Purge PROVE IInv'
<1>1. PICK i \in 1 .. Len(azure) : azure' = [azure EXCEPT ![i].name = Gone]
  <2>1. DOMAIN azure = 1 .. Len(azure)
    BY Kept
  <2> QED BY <2>1 DEF Purge
<1>2. [azure[i] EXCEPT !.name = Gone] \in AzureGroup
  BY GroupAt, Kept
<1>3. azure' \in Seq(AzureGroup) /\ Len(azure') = Len(azure)
  <2>1. PICK r \in AzureGroup : r = [azure[i] EXCEPT !.name = Gone]
    BY <1>2
  <2>2. SetGroup(i, r)
    BY <1>1, <2>1 DEF SetGroup
  <2> QED BY <2>2, SetGroupType, Kept
<1>4. changes' \in 0 .. MaxChanges
  BY BoundsAssumption DEF Purge, IInv, TypeOK
<1> QED BY <1>3, <1>4, Kept, IdleStep DEF Purge, people

LEMMA CleanInv == ASSUME IInv, Clean PROVE IInv'
<1>1. \A i \in DOMAIN azure :
        [azure[i] EXCEPT !.name = IF @ = Gone THEN Gone ELSE Renamed] \in AzureGroup
  <2> TAKE i \in DOMAIN azure
  <2>1. i \in 1 .. Len(azure)
    BY Kept
  <2> QED BY <2>1, GroupAt, Kept
<1>2. azure' \in Seq(AzureGroup) /\ Len(azure') = Len(azure)
  <2>1. DOMAIN azure = 1 .. Len(azure) /\ Len(azure) \in Nat
    BY Kept
  <2>2. azure' \in [1 .. Len(azure) -> AzureGroup]
    BY <1>1, <2>1 DEF Clean
  <2> QED BY <2>1, <2>2, AllGroupsType
<1>3. changes' \in 0 .. MaxChanges
  BY BoundsAssumption DEF Clean, IInv, TypeOK
<1>4. raced' \in BOOLEAN
  BY Zenon DEF Clean
<1>5. cleaned' \subseteq Group
  BY DEF Clean
<1> QED BY <1>2, <1>3, <1>4, <1>5, Kept, IdleStep DEF Clean, people

-----------------------------------------------------------------------------
(* Every step.                                                             *)

LEMMA NextInv == IInv /\ [Next]_vars => IInv'
<1> SUFFICES ASSUME IInv, [Next]_vars PROVE IInv'
  OBVIOUS
<1>1. CASE Admin
  BY <1>1, AddInv, EditInv, SwitchInv, PurgeInv, CleanInv DEF Admin
<1>2. CASE busy /\ Creating
  BY <1>2, PostNewInv, PostTakeInv, WriteInv, WriteGoneInv, JoinTeamInv, NestedUnknownInv,
     AddMembersInv, CreateParentInv, CreatedInv, ConvertInv DEF Creating
<1>3. CASE busy /\ Modifying
  BY <1>3, LostInv, GetInv, ReviveInv, AddOwnersInv, DisownInv, CheckTeamInv, GatherInv,
     GatherUnknownInv, AddNewInv, RemoveMemberInv, RemoveStrangerInv, RemoveEmptyInv,
     KeepGroupInv, ForgetInv, ForgetNothingInv, UpdateNameInv, IgnoreInv DEF Modifying
<1>4. CASE busy /\ Deleting
  BY <1>4, ArchiveInv, ArchiveNothingInv, ClearInv, BuryInv DEF Deleting
<1>5. CASE busy /\ Joining
  BY <1>5, JoinInv, JoinedInv, JoinGoneInv DEF Joining
<1>6. CASE Listener
  BY <1>2, <1>3, <1>4, <1>5, <1>6, StartInv, EnableInv, DisableInv, IgnoredInv, FinishInv
     DEF Listener
<1>7. CASE RunJob \/ Fails \/ Crash
  BY <1>7, RunJobInv, FailsInv, CrashInv
<1>8. CASE UNCHANGED vars
  BY <1>8 DEF vars, people, outside, counts, IInv, TypeOK, IdsOfGroups, Steps, busy
<1> QED BY <1>1, <1>6, <1>7, <1>8 DEF Next

LEMMA Invariance == Spec => []IInv
BY InitInv, NextInv, PTL DEF Spec

\* At every step of the handlers, the script, the daemon and the administrators
\* all variables have their types: a call never leaves the steps of its handler.
THEOREM TypeCorrect == Spec => []TypeOK
<1>1. IInv => TypeOK
  BY DEF IInv
<1> QED BY <1>1, Invariance, PTL

\* Whatever LDAP, the listener's cache or a job of the daemon holds as an
\* objectId is that of a group the tenant has had, and a job has one.
THEOREM IdsAreGroups == Spec => []IdsOfGroups
<1>1. IInv => IdsOfGroups
  BY DEF IInv
<1> QED BY <1>1, Invariance, PTL

\* While a call goes on the listener's queue is not empty, and at the
\* steps at which the handler asks Microsoft by objectId it has one, that of a
\* group of the tenant, as does the entry the listener will keep.
THEOREM CallsKnowTheirGroup == Spec => []Steps
<1>1. IInv => Steps
  BY DEF IInv
<1> QED BY <1>1, Invariance, PTL

-----------------------------------------------------------------------------
(* How a call goes on.                                                     *)

Creation == {"post", "write", "team", "members", "parents"}
Burial == {"archive", "clear", "bury"}

\* From which step a handler gets to which.
Flow(j, k) ==
  /\ j.pc = "post" => k.pc = "write"
  /\ j.pc = "write" => k.pc = "team"
  /\ j.pc = "team" => k.pc = "members"
  /\ j.pc = "members" => k.pc = "parents"
  /\ j.pc = "parents" => k.pc \in {"post", j.then}
  /\ j.pc = "get" => k.pc \in {"post", "revive"}
  /\ j.pc = "revive" => k.pc = "owners"
  /\ j.pc = "owners" => k.pc = "disown"
  /\ j.pc = "disown" => k.pc = "teams"
  /\ j.pc = "teams" => k.pc = "gather"
  /\ j.pc = "gather" => k.pc \in {"post", "gather", "remove"}
  /\ j.pc = "remove" => k.pc \in {"remove", "forget", "rename"}
  /\ j.pc = "forget" => k.pc = "rename"
  /\ j.pc = "rename" => k.pc = "done"
  /\ j.pc = "archive" => k.pc = "clear"
  /\ j.pc = "clear" => k.pc \in {"bury", "done"}
  /\ j.pc = "bury" => k.pc = "done"
  /\ j.pc = "join" => k.pc \in {"post", "join", "done"}
  /\ j.pc = "convert" => k.pc = IF j.item \in User THEN "join" ELSE "done"
  /\ j.pc \notin {"ignore", "done"}

\* What a call keeps as it goes from j to k.
Keeps(j, k) ==
  /\ k.item = j.item /\ k.old = j.old
  /\ j.pc # "join" => k.group = j.group /\ k.new = j.new
  /\ j.pc # "write" => k.id = j.id /\ k.mine = j.mine
  /\ j.pc # "post" => k.made = j.made
  /\ k.pc # "post" \/ j.pc \notin {"parents", "gather", "join"} =>
       k.target = j.target /\ (j.pc # "write" => k.cur = j.cur)
  /\ k.pc # "post" \/ j.pc \notin {"gather", "join"} => k.then = j.then
  /\ j.pc = "gather" /\ k.pc = "post" => k.then = "gather" /\ j.todo \cap Group # {}
  /\ j.pc = "join" /\ k.pc = "post" => k.then = "convert"
  /\ j.pc \notin {"teams", "gather", "remove", "join"} => k.todo = j.todo
  /\ j.pc = "teams" => k.todo = j.new.groups \ j.old.groups
  /\ (j.pc = "gather" /\ k.pc # "remove") \/ j.pc \in {"remove", "join"} => k.todo \subseteq j.todo
  /\ j.pc = "gather" /\ k.pc = "remove" =>
       k.todo = (j.old.users \ j.new.users) \cup (j.old.groups \ j.new.groups)

Onward == busy /\ busy' /\ job' \in Job /\ Flow(job, job') /\ Keeps(job, job')

LEMMA CreatingOnward ==
  ASSUME IInv, IInv', busy, PostNew \/ PostTake \/ Write \/ JoinTeam \/ AddMembers \/ CreateParent \/ Created \/ Convert
  PROVE  Onward
<1>0. job \in Job /\ job.pc \in PC /\ job.then \in {"convert", "owners", "gather"}
  BY Fields DEF IInv
<1>q. job' \in Job \cup {Idle}
  BY DEF IInv, TypeOK
<1>1. CASE PostNew
  BY <1>0, <1>1, <1>q, NotIdle DEF PostNew, Goto, Onward, Flow, Keeps, Job, busy, Idle
<1>2. CASE PostTake
  BY <1>0, <1>2, <1>q, NotIdle DEF PostTake, Goto, Onward, Flow, Keeps, Job, busy, Idle
<1>3. CASE Write
  BY <1>0, <1>3, <1>q, NotIdle, ZenonT(40) DEF Write, Goto, Onward, Flow, Keeps, Job, busy, Idle
<1>4. CASE JoinTeam
  BY <1>0, <1>4, <1>q, NotIdle, ZenonT(40) DEF JoinTeam, Goto, Onward, Flow, Keeps, Job, busy, Idle
<1>5. CASE AddMembers
  BY <1>0, <1>5, <1>q, NotIdle DEF AddMembers, Goto, Onward, Flow, Keeps, Job, busy, Idle
<1>6. CASE CreateParent
  BY <1>0, <1>6, <1>q, NotIdle DEF CreateParent, Goto, Onward, Flow, Keeps, Job, busy, Idle
<1>7. CASE Created
  BY <1>0, <1>7, <1>q, NotIdle DEF Created, Goto, Onward, Flow, Keeps, Job, busy, Idle
<1>8. CASE Convert
  BY <1>0, <1>8, <1>q, NotIdle DEF Convert, Goto, Onward, Flow, Keeps, Job, busy, Idle
<1> QED BY <1>1, <1>2, <1>3, <1>4, <1>5, <1>6, <1>7, <1>8

LEMMA ModifyingOnward ==
  ASSUME IInv, IInv', busy, Lost \/ Get \/ Revive \/ AddOwners \/ Disown \/ CheckTeam \/ Gather \/ AddNew \/ RemoveMember \/ RemoveEmpty \/ KeepGroup \/ Forget \/ UpdateName
  PROVE  Onward
<1>0. job \in Job /\ job.pc \in PC /\ job.then \in {"convert", "owners", "gather"}
  BY Fields DEF IInv
<1>q. job' \in Job \cup {Idle}
  BY DEF IInv, TypeOK
<1>1. CASE Lost
  BY <1>0, <1>1, <1>q, NotIdle DEF Lost, Goto, Onward, Flow, Keeps, Job, busy, Idle
<1>2. CASE Get
  BY <1>0, <1>2, <1>q, NotIdle DEF Get, Goto, Onward, Flow, Keeps, Job, busy, Idle
<1>3. CASE Revive
  BY <1>0, <1>3, <1>q, NotIdle DEF Revive, Goto, Onward, Flow, Keeps, Job, busy, Idle
<1>4. CASE AddOwners
  BY <1>0, <1>4, <1>q, NotIdle DEF AddOwners, Goto, Onward, Flow, Keeps, Job, busy, Idle
<1>5. CASE Disown
  BY <1>0, <1>5, <1>q, NotIdle DEF Disown, Goto, Onward, Flow, Keeps, Job, busy, Idle
<1>6. CASE CheckTeam
  BY <1>0, <1>6, <1>q, NotIdle DEF CheckTeam, Goto, Onward, Flow, Keeps, Job, busy, Idle
<1>7. CASE Gather
  <2>1. PICK h \in job.todo \cap Group :
          \/ job' = [job EXCEPT !.pc = "post", !.todo = @ \ {h}, !.target = h,
                                !.cur = ldap[h], !.then = "gather"]
          \/ job' = [job EXCEPT !.todo = @ \ {h}]
    BY <1>7 DEF Gather
  <2>2. job.pc = "gather"
    BY <1>7 DEF Gather
  <2>3. CASE job' = [job EXCEPT !.pc = "post", !.todo = @ \ {h}, !.target = h,
                                !.cur = ldap[h], !.then = "gather"]
    BY <1>0, <1>q, <2>2, <2>3, NotIdle DEF Onward, Flow, Keeps, Job, busy, Idle
  <2>4. CASE job' = [job EXCEPT !.todo = @ \ {h}]
    BY <1>0, <1>q, <2>2, <2>4, NotIdle DEF Onward, Flow, Keeps, Job, busy, Idle
  <2> QED BY <2>1, <2>3, <2>4
<1>8. CASE AddNew
  BY <1>0, <1>8, <1>q, NotIdle DEF AddNew, Removed, Onward, Flow, Keeps, Job, busy, Idle
<1>9. CASE RemoveMember
  BY <1>0, <1>9, <1>q, NotIdle DEF RemoveMember, Drop, Onward, Flow, Keeps, Job, busy, Idle
<1>10. CASE RemoveEmpty
  BY <1>0, <1>10, <1>q, NotIdle DEF RemoveEmpty, Goto, Onward, Flow, Keeps, Job, busy, Idle
<1>11. CASE KeepGroup
  BY <1>0, <1>11, <1>q, NotIdle DEF KeepGroup, Goto, Onward, Flow, Keeps, Job, busy, Idle
<1>12. CASE Forget
  BY <1>0, <1>12, <1>q, NotIdle DEF Forget, Goto, Onward, Flow, Keeps, Job, busy, Idle
<1>13. CASE UpdateName
  BY <1>0, <1>13, <1>q, NotIdle DEF UpdateName, Goto, Onward, Flow, Keeps, Job, busy, Idle
<1> QED BY <1>1, <1>2, <1>3, <1>4, <1>5, <1>6, <1>7, <1>8, <1>9, <1>10, <1>11, <1>12, <1>13

LEMMA BuryingOnward ==
  ASSUME IInv, IInv', busy, Archive \/ Clear \/ Bury \/ Join \/ Joined
  PROVE  Onward
<1>0. job \in Job /\ job.pc \in PC /\ job.then \in {"convert", "owners", "gather"}
  BY Fields DEF IInv
<1>q. job' \in Job \cup {Idle}
  BY DEF IInv, TypeOK
<1>1. CASE Archive
  BY <1>0, <1>1, <1>q, NotIdle DEF Archive, Goto, Onward, Flow, Keeps, Job, busy, Idle
<1>2. CASE Clear
  BY <1>0, <1>2, <1>q, NotIdle DEF Clear, Goto, Onward, Flow, Keeps, Job, busy, Idle
<1>3. CASE Bury
  BY <1>0, <1>3, <1>q, NotIdle DEF Bury, Goto, Onward, Flow, Keeps, Job, busy, Idle
<1>4. CASE Join
  <2>1. PICK h \in job.todo \cap Group :
          \/ job' = [job EXCEPT !.pc = "post", !.todo = @ \ {h}, !.group = h, !.new = ldap[h],
                                !.target = h, !.cur = ldap[h], !.then = "convert"]
          \/ job' = [job EXCEPT !.todo = @ \ {h}]
    BY <1>4 DEF Join, JoinNew, JoinGroup, Drop
  <2> QED BY <1>0, <1>4, <1>q, <2>1, NotIdle, ZenonT(40) DEF Join, Onward, Flow, Keeps, Job, busy, Idle
<1>5. CASE Joined
  BY <1>0, <1>5, <1>q, NotIdle DEF Joined, Goto, Onward, Flow, Keeps, Job, busy, Idle
<1> QED BY <1>1, <1>2, <1>3, <1>4, <1>5

-----------------------------------------------------------------------------
(* The listener's queue.                                                   *)

LEMMA RangeTail ==
  ASSUME NEW S, NEW q \in Seq(S), q # <<>>
  PROVE  /\ Range(q) = {Head(q)} \cup Range(Tail(q)) /\ Tail(q) \in Seq(S)
         /\ Head(q) \in Range(q) /\ Range(q) \subseteq S
<1>1. Len(q) \in Nat \ {0} /\ DOMAIN q = 1 .. Len(q)
  OBVIOUS
<1>2. DOMAIN Tail(q) = 1 .. Len(q) - 1 /\ \A k \in 1 .. Len(q) - 1 : Tail(q)[k] = q[k + 1]
  BY <1>1
<1>3. Range(Tail(q)) \subseteq Range(q)
  BY <1>1, <1>2 DEF Range
<1>4. ASSUME NEW k \in 1 .. Len(q) PROVE q[k] \in {Head(q)} \cup Range(Tail(q))
  <2>1. CASE k = 1
    BY <2>1
  <2>2. CASE k # 1
    <3>1. k - 1 \in 1 .. Len(q) - 1 /\ Tail(q)[k - 1] = q[k]
      BY <1>1, <1>2, <2>2
    <3> QED BY <1>2, <3>1 DEF Range
  <2> QED BY <2>1, <2>2
<1> QED BY <1>1, <1>3, <1>4 DEF Range

LEMMA RangeAppend ==
  ASSUME NEW S, NEW q \in Seq(S), NEW x \in S
  PROVE  Range(Append(q, x)) = Range(q) \cup {x}
<1>1. Len(q) \in Nat /\ DOMAIN q = 1 .. Len(q) /\ DOMAIN Append(q, x) = 1 .. Len(q) + 1
  OBVIOUS
<1>2. /\ \A k \in 1 .. Len(q) : Append(q, x)[k] = q[k]
      /\ Append(q, x)[Len(q) + 1] = x
  OBVIOUS
<1>3. Len(q) + 1 \in 1 .. Len(q) + 1 /\ \A k \in 1 .. Len(q) : k \in 1 .. Len(q) + 1
  BY <1>1
<1> QED BY <1>1, <1>2, <1>3 DEF Range

\* What is put into the queue comes last, unless it waits there.
LEMMA Notified ==
  ASSUME IInv, NEW x \in Group \cup User
  PROVE  /\ Notify(x) \in Seq(Group \cup User)
         /\ Notify(x) = queue \/ (x \notin Waiting /\ Notify(x) = Append(queue, x))
         /\ Range(Notify(x)) = Range(queue) \cup {x}
         /\ queue # <<>> => Notify(x) # <<>> /\ Head(Notify(x)) = Head(queue)
         /\ busy => Range(Tail(Notify(x))) = Range(Tail(queue)) \cup {x}
<1>0. queue \in Seq(Group \cup User) /\ (busy => queue # <<>>)
  BY DEF IInv, TypeOK, Steps
<1>1. CASE x \in Waiting
  <2>1. Notify(x) = queue
    BY <1>1 DEF Notify
  <2>2. busy => x \in Range(Tail(queue))
    BY <1>1 DEF Waiting
  <2>3. x \in Range(queue)
    BY <1>0, <1>1, RangeTail DEF Waiting
  <2> QED BY <1>0, <2>1, <2>2, <2>3
<1>2. CASE x \notin Waiting
  <2>1. Notify(x) = Append(queue, x)
    BY <1>2 DEF Notify
  <2>2. Append(queue, x) \in Seq(Group \cup User) /\ Range(Append(queue, x)) = Range(queue) \cup {x}
    BY <1>0, RangeAppend
  <2>3. queue # <<>> => Append(queue, x) # <<>> /\ Head(Append(queue, x)) = Head(queue)
    BY <1>0
  <2>4. ASSUME busy PROVE Range(Tail(Append(queue, x))) = Range(Tail(queue)) \cup {x}
    <3>1. Tail(Append(queue, x)) = Append(Tail(queue), x) /\ Tail(queue) \in Seq(Group \cup User)
      BY <1>0, <2>4
    <3>2. PICK t \in Seq(Group \cup User) : t = Tail(queue)
      BY <3>1
    <3>3. Range(Append(t, x)) = Range(t) \cup {x}
      BY RangeAppend
    <3> QED BY <3>1, <3>2, <3>3
  <2> QED BY <1>2, <2>1, <2>2, <2>3, <2>4
<1> QED BY <1>1, <1>2

-----------------------------------------------------------------------------
(* What steps do to LDAP, the cache and the queue.                         *)

Still == ldap' = ldap /\ seen' = seen /\ queue' = queue

\* The module writes an objectId, or takes it away.
Given(g, i) ==
  /\ Here(g)
  /\ ldap' = [ldap EXCEPT ![g].id = i, ![g].alias = (i # 0)]
  /\ queue' = Notify(g) /\ seen' = seen

LEMMA CreatingData ==
  ASSUME IInv, busy, PostNew \/ PostTake \/ JoinTeam \/ AddMembers \/ CreateParent
                       \/ Created \/ Convert
  PROVE  Still
BY DEF PostNew, PostTake, JoinTeam, AddMembers, CreateParent, Created, Convert, Still

LEMMA WriteData ==
  ASSUME IInv, busy, Write
  PROVE  (job.cur.id = job.made /\ Still) \/ (job.cur.id # job.made /\ Given(job.target, job.made))
<1>1. job.made # 0 /\ (job.made # 0) = TRUE
  BY DEF Write, IInv, Steps, Handling
<1>2. CASE job.cur.id = job.made
  BY <1>2 DEF Write, Still
<1>3. CASE job.cur.id # job.made
  BY <1>1, <1>3 DEF Write, Given
<1> QED BY <1>2, <1>3

LEMMA ModifyingData ==
  ASSUME IInv, busy, Lost \/ Get \/ Revive \/ AddOwners \/ Disown \/ CheckTeam \/ Gather
           \/ AddNew \/ RemoveMember \/ RemoveEmpty \/ KeepGroup \/ UpdateName
  PROVE  Still
BY DEF Lost, Get, Revive, AddOwners, Disown, CheckTeam, Gather, AddNew, RemoveMember,
       RemoveEmpty, KeepGroup, UpdateName, Still

LEMMA ForgetData == ASSUME IInv, busy, Forget PROVE Given(job.group, 0)
<1>1. (0 # 0) = FALSE
  OBVIOUS
<1> QED BY <1>1 DEF Forget, Given

LEMMA BuryingData ==
  ASSUME IInv, busy, Archive \/ Clear \/ Bury \/ Join \/ Joined
  PROVE  Still
BY DEF Archive, Clear, Bury, Join, Joined, JoinNew, JoinGroup, Still, counts

Advancing == \/ PostNew \/ PostTake \/ Write \/ JoinTeam \/ AddMembers \/ CreateParent
             \/ Created \/ Convert
             \/ Lost \/ Get \/ Revive \/ AddOwners \/ Disown \/ CheckTeam \/ Gather \/ AddNew
             \/ RemoveMember \/ RemoveEmpty \/ KeepGroup \/ Forget \/ UpdateName
             \/ Archive \/ Clear \/ Bury \/ Join \/ Joined

LEMMA AdvancingStep ==
  ASSUME IInv, IInv', busy, Advancing
  PROVE  /\ Onward
         /\ Still \/ \E g \in Group, i \in Nat : Given(g, i)
<1>1. Onward
  BY CreatingOnward, ModifyingOnward, BuryingOnward DEF Advancing
<1>2. job.target \in Group /\ job.group \in Group /\ job.made \in Nat
  BY Fields DEF IInv
<1>3. CASE Write
  BY <1>1, <1>2, <1>3, WriteData
<1>4. CASE Forget
  BY <1>1, <1>2, <1>4, ForgetData
<1>5. CASE ~Write /\ ~Forget
  BY <1>1, <1>5, CreatingData, ModifyingData, BuryingData DEF Advancing
<1> QED BY <1>1, <1>3, <1>4, <1>5

\* What an administrator may make of the entry of group g, and writes.
Edit(g, e) ==
  /\ e \in Entry /\ Put(g, e)
  /\ \/ /\ ldap[g].life = "none" /\ e.life = "here" /\ e.name \in Free /\ e.id = 0 /\ ~e.alias
     \/ /\ Here(g) /\ e.id = ldap[g].id /\ e.alias = ldap[g].alias
        /\ \/ e.life = "here" /\ e.name = ldap[g].name
           \/ /\ e.life = "here" /\ e.name \in Free
              /\ e.users = ldap[g].users /\ e.groups = ldap[g].groups
           \/ e.life = "gone" /\ e.name = ldap[g].name

LEMMA AddEdits == ASSUME IInv, NEW g \in Group, Add(g) PROVE \E e \in Entry : Edit(g, e)
<1>1. PICK n \in Free, U \in SUBSET User, G \in SUBSET Nestable(g), O \in Ownable,
           t \in BOOLEAN :
        Put(g, [Nothing EXCEPT !.life = "here", !.name = n, !.users = U,
                               !.groups = G, !.team = t, !.owners = O])
  BY DEF Add
<1>2. n \in Name /\ G \subseteq Group /\ O \subseteq User /\ ldap[g].life = "none"
  BY DEF Free, Nestable, Ownable, Add
<1>3. PICK e \in Entry :
        e = [Nothing EXCEPT !.life = "here", !.name = n, !.users = U,
                            !.groups = G, !.team = t, !.owners = O]
  <2>1. Nothing \in Entry
    BY DEF Nothing, Entry
  <2>2. [Nothing EXCEPT !.life = "here", !.name = n, !.users = U,
                        !.groups = G, !.team = t, !.owners = O] \in Entry
    BY <1>2, <2>1 DEF Entry
  <2> QED BY <2>2
<1>4. e.life = "here" /\ e.name = n /\ e.id = 0 /\ e.alias = FALSE
  BY <1>3 DEF Nothing
<1>5. ~e.alias
  BY <1>4
<1> QED BY <1>1, <1>2, <1>3, <1>4, <1>5 DEF Edit

LEMMA ChangeEdits ==
  ASSUME IInv, NEW g \in Group,
         SetMembers(g) \/ Rename(g) \/ SetOwners(g) \/ SetTeam(g) \/ Delete(g)
  PROVE  \E e \in Entry : Edit(g, e)
<1>0. ldap[g] \in Entry
  BY Kept
<1>1. CASE SetMembers(g)
  <2>1. PICK U \in SUBSET User, G \in SUBSET Nestable(g) :
          Put(g, [ldap[g] EXCEPT !.users = U, !.groups = G])
    BY <1>1 DEF SetMembers
  <2>2. G \subseteq Group /\ Here(g)
    BY <1>1 DEF Nestable, SetMembers
  <2>3. PICK e \in Entry : e = [ldap[g] EXCEPT !.users = U, !.groups = G]
    BY <1>0, <2>2 DEF Entry
  <2>4. e.id = ldap[g].id /\ e.alias = ldap[g].alias /\ e.life = "here" /\ e.name = ldap[g].name
    BY <1>0, <2>2, <2>3 DEF Entry, Here
  <2> QED BY <2>1, <2>2, <2>3, <2>4 DEF Edit
<1>2. CASE Rename(g)
  <2>1. PICK n \in Free : Put(g, [ldap[g] EXCEPT !.name = n])
    BY <1>2 DEF Rename
  <2>2. n \in Name /\ Here(g)
    BY <1>2 DEF Free, Rename
  <2>3. PICK e \in Entry : e = [ldap[g] EXCEPT !.name = n]
    BY <1>0, <2>2 DEF Entry
  <2>4. /\ e.id = ldap[g].id /\ e.alias = ldap[g].alias /\ e.life = "here" /\ e.name = n
        /\ e.users = ldap[g].users /\ e.groups = ldap[g].groups
    BY <1>0, <2>2, <2>3 DEF Entry, Here
  <2> QED BY <2>1, <2>2, <2>3, <2>4 DEF Edit
<1>3. CASE SetOwners(g)
  <2>1. PICK O \in SUBSET User : Put(g, [ldap[g] EXCEPT !.owners = O])
    BY <1>3 DEF SetOwners, Ownable
  <2>2. Here(g)
    BY <1>3 DEF SetOwners
  <2>3. PICK e \in Entry : e = [ldap[g] EXCEPT !.owners = O]
    BY <1>0 DEF Entry
  <2>4. e.id = ldap[g].id /\ e.alias = ldap[g].alias /\ e.life = "here" /\ e.name = ldap[g].name
    BY <1>0, <2>2, <2>3 DEF Entry, Here
  <2> QED BY <2>1, <2>2, <2>3, <2>4 DEF Edit
<1>4. CASE SetTeam(g)
  <2>1. PICK t \in BOOLEAN : t = ~ldap[g].team
    BY Zenon
  <2>2. Put(g, [ldap[g] EXCEPT !.team = t]) /\ Here(g)
    BY <1>4, <2>1 DEF SetTeam
  <2>3. PICK e \in Entry : e = [ldap[g] EXCEPT !.team = t]
    BY <1>0 DEF Entry
  <2>4. e.id = ldap[g].id /\ e.alias = ldap[g].alias /\ e.life = "here" /\ e.name = ldap[g].name
    BY <1>0, <2>2, <2>3 DEF Entry, Here
  <2> QED BY <2>2, <2>3, <2>4 DEF Edit
<1>5. CASE Delete(g)
  <2>1. PICK e \in Entry : e = [ldap[g] EXCEPT !.life = "gone"]
    BY <1>0 DEF Entry
  <2>2. Here(g) /\ Put(g, e)
    BY <1>5, <2>1 DEF Delete
  <2>3. e.id = ldap[g].id /\ e.alias = ldap[g].alias /\ e.life = "gone" /\ e.name = ldap[g].name
    BY <1>0, <2>1 DEF Entry
  <2> QED BY <2>1, <2>2, <2>3 DEF Edit
<1> QED BY <1>1, <1>2, <1>3, <1>4, <1>5

-----------------------------------------------------------------------------
(* Calls, and what the listener has seen.                                  *)

Raising == \/ WriteGone \/ NestedUnknown \/ GatherUnknown \/ RemoveStranger
           \/ ForgetNothing \/ ArchiveNothing \/ JoinGone

\* The call ends, and nothing was written in its last step.
Closing == busy /\ Return /\ ldap' = ldap /\ queue' = Tail(queue)

LEMMA Ending ==
  ASSUME IInv, busy, Finish \/ Raising \/ Fails
  PROVE  Closing
BY DEF Raising, WriteGone, NestedUnknown, GatherUnknown, RemoveStranger, ForgetNothing,
       ArchiveNothing, JoinGone, Fails, Finish, Raise, Closing

LEMMA Ignoring ==
  ASSUME IInv, busy, Ignore
  PROVE  \/ Closing
         \/ /\ Return /\ Here(job.group) /\ job.new.id = 0 /\ job.old.id # 0
            /\ ldap' = [ldap EXCEPT ![job.group].alias = TRUE]
            /\ queue' = Tail(Notify(job.group))
BY DEF Ignore, Closing

\* Every step is one of these.
LEMMA Kinds ==
  ASSUME IInv, [Next]_vars
  PROVE  \/ \E g \in Group, e \in Entry : Edit(g, e)
         \/ \E u \in User : Switch(u)
         \/ Purge \/ Clean \/ Start \/ Enable \/ Disable \/ Ignored
         \/ busy /\ (Advancing \/ Finish \/ Raising \/ Ignore)
         \/ RunJob \/ Fails \/ Crash \/ UNCHANGED vars
<1>1. CASE Admin
  BY <1>1, AddEdits, ChangeEdits DEF Admin
<1>2. CASE Listener
  BY <1>2 DEF Listener, Creating, Modifying, Deleting, Joining, Advancing, Raising
<1> QED BY <1>1, <1>2 DEF Next

\* The listener begins a call for group g.
Begun(g) ==
  /\ ~busy /\ busy' /\ job' \in Job /\ queue # <<>> /\ g = Head(queue) /\ Still
  /\ job'.item = g /\ job'.group = g /\ job'.target = g /\ job'.old = seen[g]
  /\ job'.new = ldap[g] /\ job'.cur = ldap[g] /\ job'.mine = ldap[g].alias /\ job'.made = 0
  /\ job'.above = {}
  /\ \/ /\ seen[g].life = "none" /\ Here(g)
        /\ job'.then = "convert" /\ job'.id = seen[g].id
        /\ job'.pc = IF InAzure(g) THEN "post" ELSE "done"
     \/ /\ seen[g].life = "here" /\ Here(g) /\ job'.then = "owners"
        /\ job'.id = IF seen[g].id # 0 THEN seen[g].id ELSE ldap[g].id
        /\ \/ job'.pc = "done" /\ Watched(seen[g]) = Watched(ldap[g])
           \/ job'.pc = "done" /\ ~InAzure(g) /\ ~ldap[g].alias /\ ~seen[g].alias
           \/ /\ job'.pc \in {"ignore", "post", "get"} /\ Watched(seen[g]) # Watched(ldap[g])
              /\ job'.pc = "ignore" <=> ~Differs(seen[g], ldap[g])
              /\ job'.pc = "post" => job'.id = 0
              /\ job'.pc = "get" => job'.id # 0
     \/ /\ ldap[g].life = "gone" /\ job'.then = "owners" /\ job'.id = seen[g].id
        /\ \/ job'.pc = "done" /\ (seen[g].life # "here" \/ seen[g].id = 0)
           \/ job'.pc \in {"archive", "clear"} /\ seen[g].life = "here" /\ seen[g].id # 0

LEMMA Starting == ASSUME IInv, IInv', Start PROVE \E g \in Group : Begun(g)
<1>0. PICK g \in Group : g = queue[1] /\ queue # <<>> /\ ~busy
  BY DEF Start
<1>1. Still /\ g = Head(queue)
  BY <1>0, Kept DEF Start, Still
<1>2. StartCreate(g) \/ StartModify(g) \/ StartDelete(g)
  BY <1>0 DEF Start
<1>3. job' \in Job => busy'
  BY NotIdle DEF busy
<1>4. CASE StartCreate(g)
  <2>1. job' = Call(g, g, IF InAzure(g) THEN "post" ELSE "done", "convert")
    BY <1>4 DEF StartCreate
  <2>2. job'.pc # "idle" /\ job' # Idle
    BY <2>1 DEF Call, Idle
  <2>3. job' \in Job
    BY <2>2 DEF IInv, TypeOK
  <2>4. seen[g].life = "none" /\ Here(g)
    BY <1>4 DEF StartCreate
  <2> HIDE DEF InAzure
  <2> QED BY <1>0, <1>1, <1>3, <2>1, <2>3, <2>4 DEF Call, Begun
<1>5. CASE StartModify(g)
  <2> DEFINE id == IF seen[g].id # 0 THEN seen[g].id ELSE ldap[g].id
             pc == IF Watched(seen[g]) = Watched(ldap[g])
                         \/ ~(InAzure(g) \/ ldap[g].alias \/ seen[g].alias)
                   THEN "done"
                   ELSE IF ~Differs(seen[g], ldap[g]) THEN "ignore"
                   ELSE IF id = 0 THEN "post" ELSE "get"
  <2>1. job' = [Call(g, g, pc, "owners") EXCEPT !.id = id]
    BY <1>5 DEF StartModify
  <2>4. seen[g].life = "here" /\ Here(g)
    BY <1>5 DEF StartModify
  <2>5. /\ job'.item = g /\ job'.group = g /\ job'.target = g /\ job'.old = seen[g]
        /\ job'.new = ldap[g] /\ job'.cur = ldap[g] /\ job'.mine = ldap[g].alias
        /\ job'.made = 0 /\ job'.then = "owners" /\ job'.id = id /\ job'.pc = pc
        /\ job'.above = {}
    <3> HIDE DEF id, pc
    <3> QED BY <2>1 DEF Call
  <2>6. \/ pc = "done" /\ Watched(seen[g]) = Watched(ldap[g])
        \/ pc = "done" /\ ~InAzure(g) /\ ~ldap[g].alias /\ ~seen[g].alias
        \/ /\ pc \in {"ignore", "post", "get"} /\ Watched(seen[g]) # Watched(ldap[g])
           /\ pc = "ignore" <=> ~Differs(seen[g], ldap[g])
           /\ pc = "post" => id = 0
           /\ pc = "get" => id # 0
    <3> HIDE DEF InAzure, Watched, Differs, id
    <3>1. CASE Watched(seen[g]) = Watched(ldap[g]) \/ ~(InAzure(g) \/ ldap[g].alias \/ seen[g].alias)
      BY <3>1, Zenon
    <3>2. CASE ~(Watched(seen[g]) = Watched(ldap[g]) \/ ~(InAzure(g) \/ ldap[g].alias \/ seen[g].alias))
      <4>1. pc = IF ~Differs(seen[g], ldap[g]) THEN "ignore" ELSE IF id = 0 THEN "post" ELSE "get"
        BY <3>2, Zenon
      <4>2. CASE ~Differs(seen[g], ldap[g])
        <5>1. pc = "ignore"
          BY <4>1, <4>2
        <5> QED BY <3>2, <4>2, <5>1
      <4>3. CASE Differs(seen[g], ldap[g])
        <5>1. pc = IF id = 0 THEN "post" ELSE "get"
          BY <4>1, <4>3
        <5> QED BY <3>2, <4>3, <5>1
      <4> QED BY <4>2, <4>3
    <3> QED BY <3>1, <3>2
  <2>2. job'.pc # "idle" /\ job' # Idle
    BY <2>5, <2>6 DEF Idle
  <2>3. job' \in Job
    BY <2>2 DEF IInv, TypeOK
  <2> HIDE DEF pc
  <2>7. job'.id = IF seen[g].id # 0 THEN seen[g].id ELSE ldap[g].id
    BY <2>5
  <2>8. \/ job'.pc = "done" /\ Watched(seen[g]) = Watched(ldap[g])
        \/ job'.pc = "done" /\ ~InAzure(g) /\ ~ldap[g].alias /\ ~seen[g].alias
        \/ /\ job'.pc \in {"ignore", "post", "get"} /\ Watched(seen[g]) # Watched(ldap[g])
           /\ job'.pc = "ignore" <=> ~Differs(seen[g], ldap[g])
           /\ job'.pc = "post" => job'.id = 0
           /\ job'.pc = "get" => job'.id # 0
    BY <2>5, <2>6
  <2> QED BY <1>0, <1>1, <1>3, <2>3, <2>4, <2>5, <2>7, <2>8, Zenon DEF Begun
<1>6. CASE StartDelete(g)
  <2> DEFINE pc == IF seen[g].life # "here" \/ seen[g].id = 0 THEN "done"
                   ELSE IF seen[g].team THEN "archive" ELSE "clear"
  <2>1. job' = Call(g, g, pc, "owners") /\ ldap[g].life = "gone"
    BY <1>6 DEF StartDelete
  <2>2. /\ job'.item = g /\ job'.group = g /\ job'.target = g /\ job'.old = seen[g]
        /\ job'.new = ldap[g] /\ job'.cur = ldap[g] /\ job'.mine = ldap[g].alias
        /\ job'.made = 0 /\ job'.then = "owners" /\ job'.id = seen[g].id /\ job'.pc = pc
        /\ job'.above = {}
    <3> HIDE DEF pc
    <3> QED BY <2>1 DEF Call
  <2>3. \/ pc = "done" /\ (seen[g].life # "here" \/ seen[g].id = 0)
        \/ pc \in {"archive", "clear"} /\ seen[g].life = "here" /\ seen[g].id # 0
    OBVIOUS
  <2>4. job' # Idle
    BY <2>2, <2>3 DEF Idle
  <2>5. job' \in Job
    BY <2>4 DEF IInv, TypeOK
  <2> HIDE DEF pc
  <2>6. \/ job'.pc = "done" /\ (seen[g].life # "here" \/ seen[g].id = 0)
        \/ job'.pc \in {"archive", "clear"} /\ seen[g].life = "here" /\ seen[g].id # 0
    BY <2>2, <2>3
  <2> QED BY <1>0, <1>1, <1>3, <2>1, <2>2, <2>5, <2>6, Zenon DEF Begun
<1> QED BY <1>2, <1>4, <1>5, <1>6

LEMMA Enabling ==
  ASSUME IInv, IInv', Enable
  PROVE  /\ ~busy /\ busy' /\ job' \in Job /\ queue # <<>> /\ Still
         /\ job'.item = Head(queue) /\ job'.item \in enabled \ known /\ job'.item \in User
         /\ job'.pc = "join" /\ job'.then = "convert"
         /\ job'.old = Nothing /\ job'.new = Nothing /\ job'.id = 0 /\ job'.above = {}
         /\ job'.todo = {g \in Group : Here(g) /\ job'.item \in ldap[g].users}
         /\ ids' = ids \cup {job'.item} /\ named' = named \cup {job'.item}
         /\ UNCHANGED <<marked, enabled, known, late, azure, jobs, outside, failed, owed>>
<1>0. ~busy /\ queue # <<>> /\ queue[1] \in enabled \ known /\ Still
      /\ UNCHANGED <<marked, enabled, known, late, azure, jobs, outside, failed, owed>>
  BY DEF Enable, Still
<1>1. queue[1] = Head(queue) /\ queue[1] \in User
  BY <1>0, Kept
<1>2. PICK any :
        job' = [Call(queue[1], any, "join", "convert") EXCEPT
                  !.todo = {g \in Group : Here(g) /\ queue[1] \in ldap[g].users},
                  !.old = Nothing, !.new = Nothing, !.id = 0]
  BY DEF Enable
<1>3. /\ job'.item = queue[1] /\ job'.pc = "join" /\ job'.then = "convert"
      /\ job'.old = Nothing /\ job'.new = Nothing /\ job'.id = 0 /\ job'.above = {}
      /\ job'.todo = {g \in Group : Here(g) /\ queue[1] \in ldap[g].users}
  BY <1>2 DEF Call
<1>4. job' # Idle
  BY <1>3 DEF Idle
<1>5. job' \in Job /\ busy'
  BY <1>4 DEF IInv, TypeOK, busy
<1>6. ids' = ids \cup {queue[1]} /\ named' = named \cup {queue[1]}
  BY DEF Enable
<1> QED BY <1>0, <1>1, <1>3, <1>5, <1>6

-----------------------------------------------------------------------------
(* The listener's cache.                                                   *)

\* A call is for the first of the queue, with the entry in the cache as the
\* old one.
InHand ==
  busy =>
    /\ Head(queue) = job.item
    /\ job.item \in Group =>
         /\ job.group = job.item /\ job.old = seen[job.item] /\ job.pc # "join"
    /\ job.item \in User =>
         job.then = "convert" /\ job.pc \in Creation \cup {"join", "convert", "done"}

\* What waits for no call is in the cache as it is in LDAP.
Settled ==
  /\ \A g \in Group : g \notin Range(queue) => seen[g] = ldap[g]
  /\ busy /\ job.item \in Group /\ job.item \notin Range(Tail(queue)) => job.new = ldap[job.item]

\* An entry with an objectId has an alias.
Aliased ==
  /\ \A g \in Group : (ldap[g].id # 0 => ldap[g].alias) /\ (seen[g].id # 0 => seen[g].alias)
  /\ busy /\ job.new.id # 0 => job.new.alias

CacheInv == InHand /\ Settled /\ Aliased

LEMMA GroupOrUser == \A x : ~(x \in Group /\ x \in User)
BY KindsAssumption

LEMMA InHandNext == ASSUME IInv, IInv', CacheInv, [Next]_vars PROVE InHand'
<1> USE DEF CacheInv
<1>0. queue \in Seq(Group \cup User) /\ queue' \in Seq(Group \cup User)
  BY DEF IInv, TypeOK
<1>a. ASSUME job' = job, seen' = seen \/ ~busy, queue' = queue \/ \E x \in Group \cup User : queue' = Notify(x)
      PROVE  InHand'
  <2>1. busy => Head(queue') = Head(queue)
    BY <1>a, Notified DEF IInv, Steps
  <2> QED BY <1>a, <2>1 DEF InHand, busy
<1>b. ASSUME ~busy' PROVE InHand'
  BY <1>b DEF InHand
<1>1. CASE \E g \in Group, e \in Entry : Edit(g, e)
  <2>1. job' = job /\ seen' = seen /\ \E x \in Group \cup User : queue' = Notify(x)
    BY <1>1 DEF Edit, Put, Change
  <2> QED BY <1>a, <2>1
<1>2. CASE \E u \in User : Switch(u)
  <2>1. job' = job /\ seen' = seen /\ \E x \in Group \cup User : queue' = Notify(x)
    BY <1>2 DEF Switch, Change
  <2> QED BY <1>a, <2>1
<1>3. CASE Purge \/ Clean
  BY <1>3, <1>a DEF Purge, Clean
<1>4. CASE Start
  BY <1>4, Starting, GroupOrUser DEF InHand, Begun, Still
<1>5. CASE Enable
  BY <1>5, Enabling, GroupOrUser DEF InHand, Still
<1>6. CASE Disable \/ Ignored
  BY <1>6, <1>b DEF Disable, Ignored, busy
<1>7. CASE busy /\ Advancing
  <2>1. Onward /\ seen' = seen /\ Head(queue') = Head(queue)
    <3>1. CASE Still
      BY <1>7, <3>1, AdvancingStep DEF Still
    <3>2. CASE \E g \in Group, i \in Nat : Given(g, i)
      <4>1. queue # <<>>
        BY <1>7 DEF IInv, Steps
      <4> QED BY <1>7, <3>2, <4>1, AdvancingStep, Notified DEF Given
    <3> QED BY <1>7, <3>1, <3>2, AdvancingStep
  <2>2. job.item \in Group \cup User
    BY <1>7, Fields DEF IInv
  <2>3. /\ job'.item = job.item /\ job'.old = job.old /\ Head(queue') = job'.item
    BY <1>7, <2>1 DEF Onward, Keeps, InHand
  <2>4. job.item \in Group => job'.group = job.group /\ job'.pc # "join"
    <3>1. job.pc \in PC /\ job.then \in {"convert", "owners", "gather"}
      BY <1>7, Fields DEF IInv
    <3>2. job.item \in Group => job.pc # "join" /\ job.item \notin User
      BY <1>7, GroupOrUser DEF InHand
    <3> QED BY <2>1, <3>1, <3>2 DEF Onward, Keeps, Flow, PC
  <2>5. job.item \in User => job'.then = "convert" /\ job'.pc \in Creation \cup {"join", "convert", "done"}
    BY <1>7, <2>1 DEF Onward, Keeps, Flow, InHand, Creation
  <2> QED BY <1>7, <2>1, <2>3, <2>4, <2>5 DEF InHand
<1>8. CASE (busy /\ (Finish \/ Raising \/ Ignore)) \/ Fails
  <2>1. Closing \/ Return
    BY <1>8, Ending, Ignoring DEF Fails
  <2> QED BY <1>b, <2>1 DEF Closing, Return, busy
<1>9. CASE RunJob
  BY <1>9, <1>a DEF RunJob
<1>10. CASE Crash
  BY <1>10, <1>b DEF Crash, busy
<1>11. CASE UNCHANGED vars
  BY <1>11, <1>a DEF vars
<1> QED BY <1>1, <1>2, <1>3, <1>4, <1>5, <1>6, <1>7, <1>8, <1>9, <1>10, <1>11, Kinds

\* What an entry has apart from the objectId and the alias, which goes with it.
LEMMA Gives ==
  ASSUME IInv, IInv', NEW g \in Group, NEW i, Given(g, i)
  PROVE  /\ ldap'[g].id = i /\ (i # 0 => ldap'[g].alias) /\ (i = 0 => ~ldap'[g].alias)
         /\ Watched(ldap'[g]) = Watched(ldap[g]) /\ ldap'[g].life = ldap[g].life
         /\ \A h \in Group : h # g => ldap'[h] = ldap[h]
<1>1. ldap[g] \in Entry /\ ldap \in [Group -> Entry]
  BY Kept
<1>2. ldap'[g] = [ldap[g] EXCEPT !.id = i, !.alias = (i # 0)]
  BY <1>1 DEF Given
<1>3. ldap'[g].id = i /\ Watched(ldap'[g]) = Watched(ldap[g]) /\ ldap'[g].life = ldap[g].life
  BY <1>1, <1>2 DEF Entry, Watched
<1>4. ldap'[g].alias = (i # 0)
  BY <1>1, <1>2 DEF Entry
<1>5. (i # 0 => ldap'[g].alias) /\ (i = 0 => ~ldap'[g].alias)
  BY <1>4
<1>6. \A h \in Group : h # g => ldap'[h] = ldap[h]
  BY <1>1 DEF Given
<1> QED BY <1>3, <1>5, <1>6

LEMMA SettledNext == ASSUME IInv, IInv', CacheInv, [Next]_vars PROVE Settled'
<1> USE DEF CacheInv
<1>0. /\ queue \in Seq(Group \cup User) /\ queue' \in Seq(Group \cup User)
      /\ ldap \in [Group -> Entry] /\ seen \in [Group -> Entry] /\ (busy => queue # <<>>)
  BY DEF IInv, TypeOK, Steps
\* An entry that changes is put into the queue.
<1>a. ASSUME job' = job, seen' = seen, NEW x \in Group \cup User, queue' = Notify(x),
             \A g \in Group : g # x => ldap'[g] = ldap[g]
      PROVE  Settled'
  <2>1. Range(queue') = Range(queue) \cup {x} /\ (busy => Range(Tail(queue')) = Range(Tail(queue)) \cup {x})
    BY <1>a, Notified
  <2> QED BY <1>a, <2>1 DEF Settled, busy
<1>b. ASSUME Still, job' = job PROVE Settled'
  BY <1>b DEF Still, Settled, busy
<1>c. ASSUME Still, ~busy' PROVE Settled'
  BY <1>c DEF Still, Settled
<1>1. CASE \E g \in Group, e \in Entry : Edit(g, e)
  <2>1. PICK g \in Group : job' = job /\ seen' = seen /\ queue' = Notify(g) /\ \A h \in Group : h # g => ldap'[h] = ldap[h]
    BY <1>0, <1>1 DEF Edit, Put, Change
  <2> QED BY <1>a, <2>1
<1>2. CASE \E u \in User : Switch(u)
  <2>1. PICK u \in User : job' = job /\ seen' = seen /\ queue' = Notify(u) /\ ldap' = ldap
    BY <1>2 DEF Switch, Change
  <2> QED BY <1>a, <2>1
<1>3. CASE Purge \/ Clean
  BY <1>3, <1>b DEF Purge, Clean, Still
<1>4. CASE Start
  BY <1>4, Starting DEF Settled, Begun, Still
<1>5. CASE Enable
  BY <1>5, Enabling, GroupOrUser DEF Settled, Still
<1>6. CASE Disable \/ Ignored
  <2>1. queue # <<>> /\ Head(queue) \in User /\ queue' = Tail(queue) /\ ldap' = ldap /\ seen' = seen
        /\ ~busy'
    BY <1>0, <1>6, Kept DEF Disable, Ignored, busy
  <2>2. Range(queue) = {Head(queue)} \cup Range(queue')
    BY <1>0, <2>1, RangeTail
  <2> QED BY <2>1, <2>2, GroupOrUser DEF Settled
<1>7. CASE busy /\ Advancing
  <2>0. Onward /\ job.item \in Group \cup User
    BY <1>7, AdvancingStep, Fields DEF IInv
  <2>1. job'.item = job.item /\ (job.item \in Group => job'.new = job.new) /\ busy'
    BY <1>7, <2>0 DEF Onward, Keeps, InHand
  <2>2. CASE Still
    BY <1>7, <2>1, <2>2 DEF Settled, Still
  <2>3. CASE \E g \in Group, i \in Nat : Given(g, i)
    <3>1. PICK g \in Group, i \in Nat : Given(g, i)
      BY <2>3
    <3>2. /\ Range(queue') = Range(queue) \cup {g}
          /\ Range(Tail(queue')) = Range(Tail(queue)) \cup {g} /\ seen' = seen
      BY <1>7, <3>1, Notified DEF Given
    <3>3. \A h \in Group : h # g => ldap'[h] = ldap[h]
      BY <3>1, Gives
    <3> QED BY <1>7, <2>1, <3>2, <3>3 DEF Settled
  <2> QED BY <1>7, <2>2, <2>3, AdvancingStep
<1>8. CASE (busy /\ (Finish \/ Raising \/ Ignore)) \/ Fails
  <2>0. busy /\ job.item \in Group \cup User /\ job.new \in Entry /\ queue # <<>> /\ job.group \in Group
    BY <1>8, Fields DEF IInv, Fails, Steps
  <2>1. CASE Closing
    <3>1. Range(queue) = {job.item} \cup Range(queue')
      BY <1>0, <2>0, <2>1, RangeTail DEF InHand, Closing
    <3>2. /\ \A g \in Group : g # job.item => seen'[g] = seen[g]
          /\ job.item \in Group => seen'[job.item] = job.new
      BY <1>0, <2>0, <2>1, GroupOrUser DEF Closing, Return
    <3>3. ldap' = ldap /\ ~busy' /\ queue' = Tail(queue)
      BY <2>1 DEF Closing, Return, busy
    <3> QED BY <2>0, <3>1, <3>2, <3>3 DEF Settled
  <2>2. CASE /\ Ignore /\ Return /\ ldap' = [ldap EXCEPT ![job.group].alias = TRUE]
             /\ queue' = Tail(Notify(job.group))
    <3>1. /\ Range(queue) = {job.item} \cup Range(Tail(queue))
          /\ Range(queue') = Range(Tail(queue)) \cup {job.group}
      BY <1>0, <2>0, <2>2, RangeTail, Notified DEF InHand
    <3>2. /\ \A g \in Group : g # job.item => seen'[g] = seen[g]
          /\ job.item \in Group => seen'[job.item] = job.new
      BY <1>0, <2>0, <2>2, GroupOrUser DEF Return
    <3>3. job.item \in Group => job.group = job.item
      BY <2>0 DEF InHand
    <3>4. job.item \in User => job.pc # "ignore"
      BY <2>0 DEF InHand, Creation
    <3>5. job.item = job.group /\ job.item \in Group
      BY <2>0, <2>2, <3>3, <3>4 DEF Ignore
    <3>6. \A g \in Group : g # job.item => ldap'[g] = ldap[g]
      BY <1>0, <2>2, <3>5
    <3>7. ~busy'
      BY <2>2 DEF Return, busy
    <3>8. Range(queue') = Range(Tail(queue)) \cup {job.item}
      BY <3>1, <3>5
    <3> QED BY <2>0, <3>1, <3>2, <3>5, <3>6, <3>7, <3>8 DEF Settled
  <2> QED BY <1>8, <2>1, <2>2, Ending, Ignoring DEF Fails
<1>9. CASE RunJob
  BY <1>9, <1>b DEF RunJob, Still
<1>10. CASE Crash
  BY <1>10, <1>c DEF Crash, busy, Still
<1>11. CASE UNCHANGED vars
  BY <1>11, <1>b DEF vars, Still
<1> QED BY <1>1, <1>2, <1>3, <1>4, <1>5, <1>6, <1>7, <1>8, <1>9, <1>10, <1>11, Kinds

LEMMA AliasedNext == ASSUME IInv, IInv', CacheInv, [Next]_vars PROVE Aliased'
<1> USE DEF CacheInv
<1>0. ldap \in [Group -> Entry] /\ seen \in [Group -> Entry]
  BY DEF IInv, TypeOK
<1>a. ASSUME ldap' = ldap, seen' = seen, job' = job \/ ~busy' PROVE Aliased'
  BY <1>a DEF Aliased, busy
<1>1. CASE \E g \in Group, e \in Entry : Edit(g, e)
  <2>1. PICK g \in Group, e \in Entry : Edit(g, e)
    BY <1>1
  <2>2. job' = job /\ seen' = seen /\ ldap' = [ldap EXCEPT ![g] = e]
    BY <2>1 DEF Edit, Put, Change
  <2>3. e.id # 0 => e.alias
    BY <2>1 DEF Edit, Aliased
  <2>4. \A h \in Group : ldap'[h] = ldap[h] \/ ldap'[h] = e
    BY <1>0, <2>2
  <2> QED BY <2>2, <2>3, <2>4 DEF Aliased, busy
<1>2. CASE (\E u \in User : Switch(u)) \/ Purge \/ Clean \/ Disable \/ Ignored \/ RunJob
           \/ Crash \/ UNCHANGED vars
  BY <1>2, <1>a DEF Switch, Change, Purge, Clean, Disable, Ignored, RunJob, Crash, vars, busy
<1>4. CASE Start
  BY <1>4, Starting DEF Aliased, Begun, Still
<1>5. CASE Enable
  BY <1>5, Enabling DEF Aliased, Still, Nothing
<1>7. CASE busy /\ Advancing
  <2>0. Onward /\ job.pc \in PC
    BY <1>7, AdvancingStep, Fields DEF IInv
  <2>1. seen' = seen
    BY <1>7, AdvancingStep DEF Still, Given
  <2>2. job'.new = job.new \/ \E g \in Group : job'.new = ldap[g]
    <3>1. CASE Join
      <4>1. PICK h \in job.todo \cap Group :
              \/ job' = [job EXCEPT !.pc = "post", !.todo = @ \ {h}, !.group = h, !.new = ldap[h],
                                    !.target = h, !.cur = ldap[h], !.then = "convert"]
              \/ job' = [job EXCEPT !.todo = @ \ {h}]
        BY <3>1 DEF Join, JoinNew, JoinGroup, Drop
      <4>2. job \in Job
        BY <1>7, Fields DEF IInv
      <4> QED BY <4>1, <4>2 DEF Job
    <3>2. CASE Joined
      <4>1. job \in Job
        BY <1>7, Fields DEF IInv
      <4> QED BY <3>2, <4>1 DEF Joined, Goto, Job
    <3>3. CASE job.pc # "join"
      BY <2>0, <3>3 DEF Onward, Keeps
    <3>4. job.pc = "join" => Join \/ Joined
      BY <1>7 DEF Advancing, PostNew, PostTake, Write, JoinTeam, AddMembers, CreateParent,
         Created, Convert, Lost, Get, Revive, AddOwners, Disown, CheckTeam, Gather, AddNew,
         RemoveMember, RemoveEmpty, KeepGroup, Forget, UpdateName, Archive, Clear, Bury
    <3> QED BY <3>1, <3>2, <3>3, <3>4
  <2>3. busy /\ (job'.new.id # 0 => job'.new.alias)
    BY <1>7, <2>2 DEF Aliased
  <2>4. CASE Still
    BY <2>3, <2>4 DEF Aliased, Still
  <2>5. CASE \E g \in Group, i \in Nat : Given(g, i)
    <3>1. PICK g \in Group, i \in Nat : Given(g, i)
      BY <2>5
    <3>2. \A h \in Group : ldap'[h].id # 0 => ldap'[h].alias
      BY <3>1, Gives DEF Aliased
    <3> QED BY <2>1, <2>3, <3>2 DEF Aliased
  <2> QED BY <1>7, <2>4, <2>5, AdvancingStep
<1>8. CASE (busy /\ (Finish \/ Raising \/ Ignore)) \/ Fails
  <2>0. busy /\ job.new \in Entry /\ job.group \in Group
    BY <1>8, Fields DEF IInv, Fails
  <2>1. Return /\ (ldap' = ldap \/ ldap' = [ldap EXCEPT ![job.group].alias = TRUE])
    BY <1>8, Ending, Ignoring DEF Fails, Closing
  <2>2. \A h \in Group : ldap'[h].id # 0 => ldap'[h].alias
    <3>1. CASE ldap' = ldap
      BY <3>1 DEF Aliased
    <3>2. CASE ldap' = [ldap EXCEPT ![job.group].alias = TRUE]
      <4>1. ASSUME NEW h \in Group, h # job.group PROVE ldap'[h].id # 0 => ldap'[h].alias
        BY <1>0, <3>2, <4>1 DEF Aliased
      <4>2. ldap'[job.group].alias = TRUE
        BY <1>0, <2>0, <3>2 DEF Entry
      <4> QED BY <4>1, <4>2
    <3> QED BY <2>1, <3>1, <3>2
  <2>3. \A h \in Group : seen'[h] = seen[h] \/ seen'[h] = job.new
    BY <1>0, <2>1 DEF Return
  <2>4. ~busy'
    BY <2>1 DEF Return, busy
  <2> QED BY <2>0, <2>2, <2>3, <2>4 DEF Aliased
<1> QED BY <1>1, <1>2, <1>4, <1>5, <1>7, <1>8, Kinds

LEMMA CacheNext == ASSUME IInv, IInv', CacheInv, [Next]_vars PROVE CacheInv'
BY InHandNext, SettledNext, AliasedNext DEF CacheInv

LEMMA CacheInit == Init => CacheInv
<1> SUFFICES ASSUME Init PROVE CacheInv
  OBVIOUS
<1>1. ~busy /\ seen = ldap /\ \A g \in Group : ldap[g].id = 0
  BY DEF Init, busy, Nothing
<1> QED BY <1>1 DEF CacheInv, InHand, Settled, Aliased

-----------------------------------------------------------------------------
(* What kind of call it is.                                                *)

Own == busy /\ job.item \in Group

\* The handler that runs is that of the change: create, modify or delete.
KindInv ==
  Own =>
    /\ job.new.life \in {"here", "gone"}
    /\ job.pc \in Burial => job.new.life = "gone" /\ job.old.life = "here"
    /\ job.pc \notin Burial \cup {"done"} => job.new.life = "here"
    /\ job.new.life = "gone" => job.id = job.old.id /\ job.then = "owners"
    /\ job.new.life = "here" =>
         /\ job.then = "convert" => job.old.life = "none"
         /\ job.then # "convert" => job.old.life = "here"
         /\ job.pc \notin Creation \cup {"convert", "done", "ignore"} => job.then # "convert"
    /\ job.then = "gather" =>
         /\ ~(job.new.groups \subseteq job.old.groups)
         /\ job.pc \in Creation \cup {"gather", "remove", "forget", "rename", "done"}
    /\ job.pc = "gather" \/ (job.pc \in Creation /\ job.then = "gather") =>
         job.todo \subseteq job.new.groups \ job.old.groups
    /\ job.pc = "remove" => job.todo \subseteq Removed

LEMMA KindNext == ASSUME IInv, IInv', CacheInv, KindInv, [Next]_vars PROVE KindInv'
<1> USE DEF CacheInv
<1>a. ASSUME job' = job \/ ~busy' PROVE KindInv'
  BY <1>a DEF KindInv, Own, busy, Removed
<1>1. CASE (\E g \in Group, e \in Entry : Edit(g, e)) \/ (\E u \in User : Switch(u))
  BY <1>1, <1>a DEF Edit, Put, Switch, Change
<1>2. CASE Purge \/ Clean \/ Disable \/ Ignored \/ RunJob \/ Crash \/ UNCHANGED vars
  BY <1>2, <1>a DEF Purge, Clean, Disable, Ignored, RunJob, Crash, vars, busy
<1>4. CASE Start
  <2>1. PICK g \in Group : Begun(g)
    BY <1>4, Starting
  <2>2. job'.pc \notin {"gather", "remove"} /\ job'.then # "gather"
    BY <2>1 DEF Begun
  <2> QED BY <2>1, <2>2 DEF KindInv, Own, Begun, Here, Burial, Creation
<1>5. CASE Enable
  BY <1>5, Enabling, GroupOrUser DEF KindInv, Own
<1>7. CASE busy /\ Advancing
  <2>0. /\ Onward /\ job.pc \in PC /\ job.then \in {"convert", "owners", "gather"}
        /\ job.item \in Group \cup User
    BY <1>7, AdvancingStep, Fields DEF IInv
  <2>1. SUFFICES ASSUME Own' PROVE KindInv'
    BY DEF KindInv
  <2>2. Own /\ job.pc # "join"
    BY <2>0, <2>1 DEF Own, Onward, Keeps, InHand
  <2>3. /\ job'.item = job.item /\ job'.old = job.old /\ job'.new = job.new
    BY <2>0, <2>2 DEF Onward, Keeps
  <2>4. /\ job.pc \notin Burial => job'.pc \notin Burial
        /\ job.pc \in Burial => job'.pc \in Burial \cup {"done"} /\ job'.id = job.id /\ job'.then = job.then
        /\ job.pc # "done" /\ job.pc # "ignore"
    BY <2>0, <2>2, GroupOrUser DEF Onward, Flow, Keeps, Burial, PC, Own
  <2>5. job.new.life = "gone" => job.pc \in Burial
    BY <2>2, <2>4 DEF KindInv
  <2>6. /\ job'.new.life \in {"here", "gone"}
        /\ job'.pc \in Burial => job'.new.life = "gone" /\ job'.old.life = "here"
        /\ job'.pc \notin Burial \cup {"done"} => job'.new.life = "here"
        /\ job'.new.life = "gone" => job'.id = job'.old.id /\ job'.then = "owners"
    BY <2>2, <2>3, <2>4, <2>5 DEF KindInv
  <2>7. ASSUME job.new.life = "here"
        PROVE /\ job'.then = "convert" => job'.old.life = "none"
              /\ job'.then # "convert" => job'.old.life = "here"
              /\ job'.pc \notin Creation \cup {"convert", "done", "ignore"} => job'.then # "convert"
    <3>1. job'.then = job.then \/ (job.pc = "gather" /\ job'.then = "gather")
      BY <2>0, <2>2 DEF Onward, Flow, Keeps, PC
    <3>2. job.pc \notin Burial
      BY <2>2, <2>7 DEF KindInv
    <3>3. job.pc = "gather" => job.then # "convert"
      BY <2>2, <2>7 DEF KindInv, Creation
    <3>4. job'.pc \notin Creation \cup {"convert", "done", "ignore"} =>
            job.pc \notin Creation \cup {"convert", "done", "ignore"} \/ job'.pc = job.then
      BY <2>0, <2>2, GroupOrUser DEF Onward, Flow, PC, Creation, Own
    <3>5. job'.pc \in PC
      BY Fields, <2>1 DEF Own, IInv, TypeOK, Onward, Job, busy
    <3> QED BY <2>0, <2>2, <2>3, <2>7, <3>1, <3>2, <3>3, <3>4 DEF KindInv
  <2>c. job'.pc \in Creation /\ job'.then = "gather" =>
           job.pc = "gather" \/ (job.pc \in Creation /\ job.then = "gather")
    BY <2>0, <2>2, GroupOrUser DEF KindInv, Onward, Flow, Keeps, PC, Own, Creation
  <2>8. /\ job'.pc = "gather" \/ (job'.pc \in Creation /\ job'.then = "gather") =>
             job'.todo \subseteq job'.new.groups \ job'.old.groups
        /\ job'.pc = "remove" => job'.todo \subseteq Removed'
    <3>1. Removed' = Removed
      BY <2>3 DEF Removed
    <3>2. job'.pc = "gather" =>
            \/ job.pc = "teams"
            \/ job.pc = "gather"
            \/ job.pc = "parents" /\ job.then = "gather"
      BY <2>0, <2>2, GroupOrUser DEF Onward, Flow, PC, Own
    <3>3. job'.pc = "remove" => job.pc \in {"gather", "remove"}
      BY <2>0, <2>2, GroupOrUser DEF Onward, Flow, PC, Own
    <3>4. CASE job'.pc = "remove"
      <4>1. job'.todo \subseteq Removed
        BY <2>0, <2>2, <3>3, <3>4 DEF Onward, Keeps, KindInv, Removed
      <4> QED BY <3>1, <3>4, <4>1 DEF Creation
    <3>5. CASE job'.pc = "gather" \/ (job'.pc \in Creation /\ job'.then = "gather")
      <4>1. CASE job.pc = "teams"
        BY <2>0, <2>3, <3>5, <4>1 DEF Onward, Keeps, Creation
      <4>2. CASE job.pc # "teams"
        <5>1. job'.todo \subseteq job.todo
          BY <2>0, <2>2, <3>5, <4>2 DEF Onward, Keeps, Flow, Creation
        <5>2. job.todo \subseteq job.new.groups \ job.old.groups
          BY <2>2, <2>c, <3>2, <3>5, <4>2 DEF KindInv, Creation
        <5> QED BY <2>3, <3>5, <5>1, <5>2 DEF Creation
      <4> QED BY <4>1, <4>2
    <3> QED BY <3>4, <3>5
  <2>9. job'.then = "gather" =>
          /\ ~(job'.new.groups \subseteq job'.old.groups)
          /\ job'.pc \in Creation \cup {"gather", "remove", "forget", "rename", "done"}
    <3>1. CASE job.then = "gather"
      BY <2>0, <2>2, <2>3, <3>1, GroupOrUser DEF KindInv, Onward, Flow, Creation, Own
    <3>2. CASE job.then # "gather" /\ job'.then = "gather"
      <4>1. job.pc = "gather" /\ job.todo \cap Group # {}
        BY <2>0, <2>2, <3>2, GroupOrUser DEF Onward, Keeps, Flow, Own
      <4> QED BY <2>0, <2>2, <2>3, <4>1 DEF KindInv, Onward, Flow, Creation
    <3> QED BY <3>1, <3>2
  <2> QED BY <2>2, <2>3, <2>6, <2>7, <2>8, <2>9 DEF KindInv
<1>8. CASE (busy /\ (Finish \/ Raising \/ Ignore)) \/ Fails
  BY <1>8, <1>a, Ending, Ignoring DEF Closing, Return, busy, Fails
<1> QED BY <1>1, <1>2, <1>4, <1>5, <1>7, <1>8, Kinds

-----------------------------------------------------------------------------
(* Names of groups in LDAP and in the cache, while no change overtakes     *)
(* another.                                                                *)

\* The entry a call has is that in LDAP, the module's own attributes apart.
Fresh ==
  Own => /\ Watched(job.new) = Watched(ldap[job.item]) /\ job.new.life = ldap[job.item].life
         /\ job.new.life = "gone" => job.new.id = ldap[job.item].id

\* A group that is deleted has been seen as it was.
Lives ==
  \A g \in Group :
    /\ ldap[g].life = "gone" =>
         seen[g].life # "none" /\ seen[g].id = ldap[g].id /\ seen[g].name = ldap[g].name
    /\ ldap[g].life # "gone" => seen[g].life # "gone"
    /\ ldap[g].life = "none" => ldap[g] = Nothing
    /\ seen[g].life = "none" => seen[g] = Nothing

\* Groups have names of their own, in LDAP and in the cache.
OwnNames(e) ==
  /\ \A g \in Group : e[g].life # "none" => e[g].name \in Name
  /\ \A g, h \in Group :
       g # h /\ e[g].life = "here" /\ e[h].life = "here" => e[g].name # e[h].name

\* The change that frees a name waits before that of the group that got it.
Ordered(q, l, s) ==
  \A k \in DOMAIN q : \A h \in Group :
    /\ q[k] \in Group /\ h # q[k] /\ l[q[k]].life = "here"
    /\ s[h].life = "here" /\ s[h].name = l[q[k]].name
    => \E m \in 1 .. k - 1 : q[m] = h

\* A change of the name is one of nothing else.
OneChange ==
  \A g \in Group :
    Here(g) /\ seen[g].life = "here" /\ seen[g].name # ldap[g].name =>
      seen[g].users = ldap[g].users /\ seen[g].groups = ldap[g].groups

FreshInv == /\ Fresh /\ Lives /\ OwnNames(ldap) /\ OwnNames(seen)
            /\ Ordered(queue, ldap, seen) /\ OneChange

\* What failed or was overtaken stays so.
LEMMA CalmBefore == ASSUME IInv, [Next]_vars, Calm' PROVE Calm
<1>0. ~failed' /\ ~raced'
  BY DEF Calm
<1>a. ASSUME NEW x, Change(x) PROVE Calm
  <2>1. raced' = (raced \/ x \in Range(queue)) /\ failed' = failed
    BY <1>a DEF Change
  <2> QED BY <1>0, <2>1, Zenon DEF Calm
<1>b. ASSUME NEW i, NEW U, AddTo(i, U) PROVE ~failed
  <2>1. failed' = failed \/ failed' = TRUE
    BY <1>b DEF AddTo
  <2> QED BY <1>0, <2>1
<1>c. ASSUME failed' = failed, raced' = raced PROVE Calm
  BY <1>0, <1>c DEF Calm
<1>d. ASSUME ~failed, raced' = raced PROVE Calm
  BY <1>0, <1>d DEF Calm
<1>e. ASSUME NEW P \in BOOLEAN, raced' = (raced \/ P), ~failed PROVE Calm
  BY <1>0, <1>e, Zenon DEF Calm
<1>1. CASE (\E g \in Group, e \in Entry : Edit(g, e)) \/ (\E u \in User : Switch(u))
  BY <1>1, <1>a DEF Edit, Put, Switch
<1>2. CASE Purge \/ Start \/ Disable \/ Ignored \/ RunJob \/ Crash \/ UNCHANGED vars
  BY <1>2, <1>c DEF Purge, Start, Disable, Ignored, RunJob, Crash, vars, outside
<1>3. CASE Clean
  <2>1. raced' = (raced \/ queue # <<>>) /\ failed' = failed
    BY <1>3 DEF Clean
  <2> QED BY <1>0, <2>1, Zenon DEF Calm
<1>4. CASE Enable
  BY <1>4, <1>c DEF Enable, outside
<1>5. CASE Fails
  BY <1>0, <1>5 DEF Fails
<1>6. CASE Finish \/ Raising \/ Ignore
  BY <1>6, <1>c DEF Finish, Raising, Ignore, WriteGone, NestedUnknown, GatherUnknown,
     RemoveStranger, ForgetNothing, ArchiveNothing, JoinGone, Raise, Return, outside
<1>7. CASE \/ PostNew \/ PostTake \/ Write \/ JoinTeam \/ Created \/ Convert \/ Get \/ AddOwners
           \/ Disown \/ CheckTeam \/ RemoveMember \/ RemoveEmpty \/ KeepGroup \/ Forget
           \/ UpdateName \/ Archive \/ Clear \/ Bury \/ Joined
  BY <1>7, <1>c DEF PostNew, PostTake, Write, JoinTeam, Created, Convert, Get, AddOwners,
     Disown, CheckTeam, RemoveMember, RemoveEmpty, KeepGroup, Forget, UpdateName, Archive,
     Clear, Bury, Joined, outside
<1>8. CASE Revive
  BY <1>8, <1>c DEF Revive
<1>9. CASE AddMembers
  <2>1. ~failed
    BY <1>0, <1>9, <1>b DEF AddMembers
  <2> QED BY <1>9, <1>d, <2>1 DEF AddMembers, outside
<1>10. CASE Lost
  <2>1. ~failed
    BY <1>0, <1>10 DEF Lost
  <2> QED BY <1>10, <1>d, <2>1 DEF Lost, outside
<1>11. CASE AddNew
  <2>1. ~failed
    BY <1>0, <1>11, <1>b DEF AddNew
  <2> QED BY <1>11, <1>d, <2>1 DEF AddNew, outside
<1>12. CASE CreateParent
  <2>1. PICK p : raced' = (raced \/ Early(p)) /\ failed' = failed
    BY <1>12 DEF CreateParent
  <2>2. ~failed /\ Early(p) \in BOOLEAN
    BY <1>0, <2>1 DEF Early
  <2> QED BY <1>e, <2>1, <2>2
<1>13. CASE Gather
  <2>1. PICK h \in Group, P \in BOOLEAN : raced' = (raced \/ P) /\ failed' = failed
    <3>1. PICK h \in job.todo \cap Group :
            /\ raced' = (raced \/ (Here(h) /\ (ldap[h].users \cap marked # {} /\ ldap[h].id = 0) /\ Early(h)))
            /\ failed' = failed
      BY <1>13, Zenon DEF Gather
    <3>2. (Here(h) /\ (ldap[h].users \cap marked # {} /\ ldap[h].id = 0) /\ Early(h)) \in BOOLEAN
      BY Zenon DEF Early
    <3> QED BY <3>1, <3>2, Zenon
  <2>2. ~failed
    BY <1>0, <2>1
  <2> QED BY <1>e, <2>1, <2>2
<1>14. CASE Join
  <2>1. PICK g \in Group : JoinNew(g) \/ JoinGroup(g)
    BY <1>14 DEF Join
  <2>2. CASE JoinNew(g)
    <3>1. raced' = (raced \/ Early(g)) /\ failed' = failed
      BY <2>2 DEF JoinNew
    <3>2. ~failed /\ Early(g) \in BOOLEAN
      BY <1>0, <3>1 DEF Early
    <3> QED BY <1>e, <3>1, <3>2
  <2>3. CASE JoinGroup(g)
    <3>1. raced' = raced /\ (failed' = failed \/ AddTo(ldap[g].id, {job.item}))
      BY <2>3 DEF JoinGroup
    <3>2. ~failed
      BY <1>0, <1>b, <3>1
    <3> QED BY <1>d, <3>1, <3>2
  <2> QED BY <2>1, <2>2, <2>3
<1> QED BY <1>1, <1>2, <1>3, <1>4, <1>5, <1>6, <1>7, <1>8, <1>9, <1>10, <1>11, <1>12, <1>13,
           <1>14, Kinds DEF Advancing

LEMMA CalmPut ==
  ASSUME IInv, Calm', NEW g \in Group, NEW e, Edit(g, e)
  PROVE  /\ g \notin Range(queue) /\ queue' = Notify(g) /\ e \in Entry
         /\ ldap'[g] = e /\ \A h \in Group : h # g => ldap'[h] = ldap[h]
         /\ UNCHANGED <<seen, known, ids, named, azure, jobs, job, crashes, failed, owed, cleaned, marked, enabled, late, raced>>
<1>1. ldap \in [Group -> Entry] /\ ldap' = [ldap EXCEPT ![g] = e] /\ e \in Entry
  BY Kept DEF Edit, Put
<1>2. raced' = (raced \/ g \in Range(queue)) /\ ~raced'
  BY DEF Edit, Put, Change, Calm
<1>3. g \notin Range(queue) /\ ~raced
  BY <1>2
<1>4. raced' = raced
  BY Kept, <1>2, <1>3
<1> QED BY <1>1, <1>3, <1>4 DEF Edit, Put, Change

LEMMA HeadWaits ==
  ASSUME IInv, CacheInv, busy
  PROVE  job.item \in Range(queue) /\ queue # <<>>
BY Kept, RangeTail DEF CacheInv, InHand, IInv, Steps

LEMMA OrderedTail ==
  ASSUME NEW q \in Seq(Group \cup User), q # <<>>, NEW l, NEW s, NEW t, Ordered(q, l, s),
         \A h \in Group : h # Head(q) => t[h] = s[h],
         \A k \in DOMAIN q, h \in Group :
           q[k] \in Group /\ h = Head(q) /\ h # q[k] /\ l[q[k]].life = "here" /\ t[h].life = "here"
             => t[h].name # l[q[k]].name
  PROVE  Ordered(Tail(q), l, t)
<1>1. DOMAIN Tail(q) = 1 .. Len(q) - 1 /\ DOMAIN q = 1 .. Len(q) /\ Len(q) \in Nat
      /\ \A k \in 1 .. Len(q) - 1 : Tail(q)[k] = q[k + 1] /\ k + 1 \in DOMAIN q
  OBVIOUS
<1>a. SUFFICES ASSUME NEW k \in DOMAIN Tail(q), NEW h \in Group,
                      Tail(q)[k] \in Group, h # Tail(q)[k], l[Tail(q)[k]].life = "here",
                      t[h].life = "here", t[h].name = l[Tail(q)[k]].name
               PROVE  \E m \in 1 .. k - 1 : Tail(q)[m] = h
  BY DEF Ordered
<1>2. /\ k \in 1 .. Len(q) - 1 /\ q[k + 1] = Tail(q)[k]
      /\ q[k + 1] \in Group /\ h # q[k + 1] /\ l[q[k + 1]].life = "here"
      /\ t[h].life = "here" /\ t[h].name = l[q[k + 1]].name
  <2>1. k \in 1 .. Len(q) - 1 /\ q[k + 1] = Tail(q)[k]
    BY <1>1
  <2> QED BY <1>a, <2>1
<1>3. h # Head(q)
  BY <1>1, <1>2
<1>4. PICK m \in 1 .. k : q[m] = h
  <2>1. \E m \in 1 .. (k + 1) - 1 : q[m] = h
    BY <1>1, <1>2, <1>3 DEF Ordered
  <2> QED BY <1>1, <2>1
<1>5. m # 1
  BY <1>3, <1>4
<1>6. m - 1 \in 1 .. k - 1 /\ Tail(q)[m - 1] = q[m]
  BY <1>1, <1>4, <1>5
<1> QED BY <1>4, <1>6

\* A change is put behind the change of the group that had the name before.
LEMMA OrderedNotify ==
  ASSUME IInv, NEW x \in Group \cup User, NEW l \in [Group -> Entry], OwnNames(l), Settled,
         Ordered(queue, ldap, seen), \A h \in Group : h # x => l[h] = ldap[h],
         \/ x \notin Range(queue) \/ x \notin Group
         \/ l[x].life = ldap[x].life /\ l[x].name = ldap[x].name
  PROVE  Ordered(Notify(x), l, seen)
<1>0. queue \in Seq(Group \cup User) /\ DOMAIN queue = 1 .. Len(queue) /\ Len(queue) \in Nat
  BY Kept
<1>1. ASSUME NEW k \in DOMAIN queue, NEW h \in Group,
             queue[k] \in Group, h # queue[k], l[queue[k]].life = "here",
             seen[h].life = "here", seen[h].name = l[queue[k]].name
      PROVE  \E m \in 1 .. k - 1 : queue[m] = h
  <2>1. queue[k] \in Range(queue)
    BY DEF Range
  <2>2. l[queue[k]].life = ldap[queue[k]].life /\ l[queue[k]].name = ldap[queue[k]].name
    BY <1>1, <2>1
  <2> QED BY <1>1, <2>2 DEF Ordered
<1>2. CASE Notify(x) = queue
  BY <1>1, <1>2 DEF Ordered
<1>3. CASE Notify(x) = Append(queue, x)
  <2>0. DOMAIN Notify(x) = 1 .. Len(queue) + 1 /\ Notify(x)[Len(queue) + 1] = x
        /\ \A k \in 1 .. Len(queue) : Notify(x)[k] = queue[k]
    BY <1>0, <1>3
  <2>1. SUFFICES ASSUME NEW k \in 1 .. Len(queue) + 1, NEW h \in Group,
             Notify(x)[k] \in Group, h # Notify(x)[k], l[Notify(x)[k]].life = "here",
             seen[h].life = "here", seen[h].name = l[Notify(x)[k]].name
        PROVE  \E m \in 1 .. k - 1 : Notify(x)[m] = h
    BY <2>0 DEF Ordered
  <2>2. CASE k # Len(queue) + 1
    <3>1. k \in DOMAIN queue /\ Notify(x)[k] = queue[k]
      BY <1>0, <2>0, <2>2
    <3>2. PICK m \in 1 .. k - 1 : queue[m] = h
      BY <1>1, <2>1, <3>1
    <3>3. m \in 1 .. Len(queue)
      BY <1>0, <3>1
    <3> QED BY <2>0, <3>2, <3>3
  <2>3. CASE k = Len(queue) + 1
    <3>1. x \in Group /\ h # x /\ l[x].life = "here" /\ seen[h].name = l[x].name
      BY <2>0, <2>1, <2>3
    <3>2. seen[h] # ldap[h]
      BY <2>1, <3>1 DEF OwnNames
    <3>3. h \in Range(queue)
      BY <3>2 DEF Settled
    <3>4. PICK m \in DOMAIN queue : queue[m] = h
      BY <3>3 DEF Range
    <3> QED BY <1>0, <2>0, <2>3, <3>4
  <2> QED BY <1>0, <2>2, <2>3
<1> QED BY <1>2, <1>3, Notified

\* Whatever changes neither LDAP, nor the cache, nor the queue.
LEMMA FreshStill ==
  ASSUME IInv, Still, FreshInv,
         Own' => Own /\ job'.item = job.item /\ job'.new = job.new
  PROVE  FreshInv'
BY DEF Still, FreshInv, Fresh, Lives, OwnNames, Ordered, OneChange, Here

LEMMA FreshEdit ==
  ASSUME IInv, IInv', CacheInv, FreshInv, Calm', NEW g \in Group, NEW e, Edit(g, e)
  PROVE  FreshInv'
<1>1. /\ g \notin Range(queue) /\ queue' = Notify(g) /\ ldap'[g] = e
      /\ \A h \in Group : h # g => ldap'[h] = ldap[h]
      /\ seen' = seen /\ job' = job /\ e \in Entry
  BY CalmPut
<1>2. seen[g] = ldap[g]
  BY <1>1 DEF CacheInv, Settled
<1>3. \/ /\ ldap[g].life = "none" /\ e.life = "here" /\ e.name \in Free
      \/ /\ ldap[g].life = "here" /\ e.id = ldap[g].id
         /\ \/ e.life = "here" /\ e.name = ldap[g].name
            \/ /\ e.life = "here" /\ e.name \in Free
               /\ e.users = ldap[g].users /\ e.groups = ldap[g].groups
            \/ e.life = "gone" /\ e.name = ldap[g].name
  BY DEF Edit, Here
<1>4. Fresh'
  <2>1. busy => job.item # g
    BY <1>1, HeadWaits
  <2> QED BY <1>1, <2>1 DEF FreshInv, Fresh, Own, busy
<1>5. Lives'
  BY <1>1, <1>2, <1>3 DEF FreshInv, Lives
<1>6. OwnNames(ldap')
  <2>1. Free \subseteq Name /\ \A n \in Free, h \in Group : ldap[h].life = "here" => ldap[h].name # n
    BY DEF Free, Here
  <2> QED BY <1>1, <1>3, <2>1 DEF FreshInv, OwnNames
<1>7. OwnNames(seen')
  BY <1>1 DEF FreshInv
<1>8. Ordered(queue', ldap', seen')
  <2>1. ldap' \in [Group -> Entry]
    BY DEF IInv, TypeOK
  <2> QED BY <1>1, <1>6, <2>1, OrderedNotify DEF FreshInv, CacheInv
<1>9. OneChange'
  BY <1>1, <1>2, <1>3 DEF FreshInv, OneChange, Here
<1> QED BY <1>4, <1>5, <1>6, <1>7, <1>8, <1>9 DEF FreshInv

LEMMA FreshSwitch ==
  ASSUME IInv, IInv', CacheInv, FreshInv, NEW u \in User, Switch(u)
  PROVE  FreshInv'
<1>1. queue' = Notify(u) /\ seen' = seen /\ job' = job /\ ldap' = ldap
  BY DEF Switch, Change
<1>2. Ordered(queue', ldap', seen')
  BY <1>1, OrderedNotify, GroupOrUser, Kept DEF FreshInv, CacheInv
<1> QED BY <1>1, <1>2 DEF FreshInv, Fresh, Own, busy, Lives, OwnNames, OneChange, Here

LEMMA FreshGiven ==
  ASSUME IInv, IInv', CacheInv, FreshInv, Onward, NEW g \in Group, NEW i \in Nat, Given(g, i)
  PROVE  FreshInv'
<1>1. /\ seen' = seen /\ queue' = Notify(g) /\ Here(g)
      /\ Watched(ldap'[g]) = Watched(ldap[g]) /\ ldap'[g].life = ldap[g].life
      /\ \A h \in Group : h # g => ldap'[h] = ldap[h]
  BY Gives DEF Given
<1>2. /\ ldap'[g].name = ldap[g].name /\ ldap'[g].users = ldap[g].users
      /\ ldap'[g].groups = ldap[g].groups
  BY <1>1 DEF Watched
<1>3. Fresh'
  <2>1. SUFFICES ASSUME Own' PROVE Fresh'
    BY DEF Fresh
  <2>2. Own /\ job'.item = job.item /\ job'.new = job.new
    BY <2>1 DEF Own, Onward, Keeps, CacheInv, InHand
  <2> QED BY <1>1, <2>2 DEF FreshInv, Fresh, Own, Here
<1>4. Lives'
  BY <1>1 DEF FreshInv, Lives, Here
<1>5. OwnNames(ldap')
  BY <1>1, <1>2 DEF FreshInv, OwnNames
<1>6. Ordered(queue', ldap', seen')
  <2>1. ldap' \in [Group -> Entry]
    BY DEF IInv, TypeOK
  <2> QED BY <1>1, <1>2, <1>5, <2>1, OrderedNotify DEF FreshInv, CacheInv
<1>7. OneChange'
  BY <1>1, <1>2 DEF FreshInv, OneChange, Here
<1> QED BY <1>1, <1>3, <1>4, <1>5, <1>6, <1>7 DEF FreshInv

\* A call ends, after which nothing is known that LDAP does not have.
LEMMA FreshReturn ==
  ASSUME IInv, IInv', CacheInv, KindInv, busy, FreshInv, Return, queue' = Tail(queue), ldap' = ldap
  PROVE  FreshInv'
<1>0. /\ queue \in Seq(Group \cup User) /\ queue # <<>> /\ Head(queue) = job.item
      /\ seen \in [Group -> Entry] /\ job.item \in Group \cup User /\ job.new \in Entry
  BY Kept, HeadWaits, Fields DEF CacheInv, InHand, IInv
<1>1. CASE job.item \in User
  <2>1. seen' = seen /\ ~busy' /\ Head(queue) \notin Group
    BY <1>0, <1>1, GroupOrUser DEF Return, busy
  <2>2. Ordered(queue', ldap', seen')
    BY <1>0, <2>1, OrderedTail DEF FreshInv
  <2> QED BY <2>1, <2>2 DEF FreshInv, Fresh, Own, Lives, OwnNames, OneChange, Here
<1>2. CASE job.item \in Group
  <2> DEFINE g == job.item
  <2>1. /\ seen'[g] = job.new /\ \A h \in Group : h # g => seen'[h] = seen[h]
        /\ ~busy'
    BY <1>0, <1>2 DEF Return, busy
  <2>2. /\ Watched(job.new) = Watched(ldap[g]) /\ job.new.life = ldap[g].life
        /\ job.new.life = "gone" => job.new.id = ldap[g].id
        /\ job.new.life \in {"here", "gone"}
    BY <1>2 DEF FreshInv, Fresh, KindInv, Own
  <2>3. job.new.name = ldap[g].name /\ job.new.users = ldap[g].users /\ job.new.groups = ldap[g].groups
    BY <2>2 DEF Watched
  <2>4. Lives'
    BY <2>1, <2>2, <2>3 DEF FreshInv, Lives
  <2>5. \A h \in Group : h # g /\ ldap[g].life = "here" /\ seen[h].life = "here" => seen[h].name # ldap[g].name
    <3>1. 1 \in DOMAIN queue /\ queue[1] = g
      BY <1>0
    <3>2. ~ \E m \in 1 .. 1 - 1 : TRUE
      OBVIOUS
    <3>3. ASSUME NEW h \in Group, h # g, ldap[g].life = "here", seen[h].life = "here",
                 seen[h].name = ldap[g].name
          PROVE  FALSE
      <4>1. \E m \in 1 .. 1 - 1 : queue[m] = h
        BY <1>2, <3>1, <3>3 DEF FreshInv, Ordered
      <4> QED BY <3>2, <4>1
    <3> QED BY <3>3
  <2>6. OwnNames(seen')
    BY <2>1, <2>2, <2>3, <2>5 DEF FreshInv, OwnNames
  <2>7. Ordered(queue', ldap', seen')
    <3>1. \A k \in DOMAIN queue, h \in Group :
           queue[k] \in Group /\ h = Head(queue) /\ h # queue[k] /\ ldap[queue[k]].life = "here" /\ seen'[h].life = "here"
             => seen'[h].name # ldap[queue[k]].name
      BY <1>0, <2>1, <2>2, <2>3 DEF FreshInv, OwnNames
    <3> HIDE DEF g
    <3> QED BY <1>0, <2>1, <3>1, OrderedTail DEF FreshInv, g
  <2>8. OneChange'
    BY <2>1, <2>2, <2>3 DEF FreshInv, OneChange, Here
  <2> QED BY <2>1, <2>4, <2>6, <2>7, <2>8 DEF FreshInv, Fresh, Own
<1> QED BY <1>0, <1>1, <1>2

LEMMA FreshIgnore ==
  ASSUME IInv, IInv', CacheInv, KindInv, busy, FreshInv, Ignore, Return, Here(job.group),
         ldap' = [ldap EXCEPT ![job.group].alias = TRUE], queue' = Tail(Notify(job.group))
  PROVE  FreshInv'
<1>0. /\ queue \in Seq(Group \cup User) /\ queue # <<>> /\ Head(queue) = job.item
      /\ seen \in [Group -> Entry] /\ job.item \in Group \cup User /\ job.new \in Entry
      /\ ldap \in [Group -> Entry] /\ job.group \in Group
  BY Kept, HeadWaits, Fields DEF CacheInv, InHand, IInv
<1> DEFINE g == job.group
<1>1. job.item \in Group /\ job.group = job.item
  BY <1>0 DEF CacheInv, InHand, Ignore, Creation
<1>2. /\ seen'[g] = job.new /\ \A h \in Group : h # g => seen'[h] = seen[h]
      /\ ~busy'
  BY <1>0, <1>1 DEF Return, busy
<1>3. /\ ldap'[g] = [ldap[g] EXCEPT !.alias = TRUE]
      /\ \A h \in Group : h # g => ldap'[h] = ldap[h]
  BY <1>0
<1>4. /\ ldap'[g].life = "here" /\ ldap[g].life = "here" /\ ldap'[g].name = ldap[g].name
      /\ ldap'[g].users = ldap[g].users /\ ldap'[g].groups = ldap[g].groups
  BY <1>0, <1>3 DEF Entry, Here
<1>5. /\ job.new.life = "here" /\ job.new.name = ldap[g].name
      /\ job.new.users = ldap[g].users /\ job.new.groups = ldap[g].groups
  BY <1>1, <1>4 DEF FreshInv, Fresh, Own, Watched
<1> HIDE DEF g
<1>6. Lives'
  BY <1>2, <1>3, <1>4, <1>5 DEF FreshInv, Lives
<1>7. OwnNames(ldap')
  BY <1>3, <1>4 DEF FreshInv, OwnNames
<1>8. \A h \in Group : h # g /\ seen[h].life = "here" => seen[h].name # ldap[g].name
  <2>1. 1 \in DOMAIN queue /\ queue[1] = g
    BY <1>0, <1>1 DEF g
  <2>2. ~ \E m \in 1 .. 1 - 1 : TRUE
    OBVIOUS
  <2>3. ASSUME NEW h \in Group, h # g, seen[h].life = "here", seen[h].name = ldap[g].name
        PROVE  FALSE
    <3>1. \E m \in 1 .. 1 - 1 : queue[m] = h
      BY <1>0, <1>4, <2>1, <2>3 DEF FreshInv, Ordered, g
    <3> QED BY <2>2, <3>1
  <2> QED BY <2>3
<1>9. OwnNames(seen')
  BY <1>2, <1>4, <1>5, <1>8 DEF FreshInv, OwnNames
<1>10. Ordered(Notify(g), ldap', seen)
  <2>1. ldap' \in [Group -> Entry] /\ g \in Group \cup User
    BY <1>0 DEF IInv, TypeOK, g
  <2> QED BY <1>3, <1>4, <1>7, <2>1, OrderedNotify, ZenonT(40) DEF FreshInv, CacheInv
<1>11. Ordered(queue', ldap', seen')
  <2>1. /\ Notify(g) \in Seq(Group \cup User) /\ Notify(g) # <<>> /\ Head(Notify(g)) = g
    BY <1>0, <1>1, Notified DEF g
  <2>2. \A k \in DOMAIN Notify(g), h \in Group :
           Notify(g)[k] \in Group /\ h = Head(Notify(g)) /\ h # Notify(g)[k]
             /\ ldap'[Notify(g)[k]].life = "here" /\ seen'[h].life = "here"
             => seen'[h].name # ldap'[Notify(g)[k]].name
    BY <1>2, <1>4, <1>5, <1>7, <2>1 DEF OwnNames
  <2>3. \A h \in Group : h # Head(Notify(g)) => seen'[h] = seen[h]
    BY <1>2, <2>1
  <2>4. queue' = Tail(Notify(g))
    BY DEF g
  <2>5. PICK q \in Seq(Group \cup User) : q = Notify(g)
    BY <2>1
  <2>6. Ordered(Tail(q), ldap', seen')
    BY <1>10, <2>1, <2>2, <2>3, <2>5, OrderedTail
  <2> QED BY <2>4, <2>5, <2>6
<1>12. OneChange'
  BY <1>2, <1>3, <1>4, <1>5 DEF FreshInv, OneChange, Here
<1>13. Fresh'
  BY <1>2 DEF Fresh, Own
<1> QED BY <1>6, <1>7, <1>9, <1>11, <1>12, <1>13 DEF FreshInv

\* A call for a user ends in one step.
LEMMA FreshUser ==
  ASSUME IInv, FreshInv, ~busy, queue # <<>>, Head(queue) \in User, job' = job, seen' = seen,
         ldap' = ldap, queue' = Tail(queue)
  PROVE  FreshInv'
<1>1. Ordered(queue', ldap', seen')
  BY Kept, OrderedTail, GroupOrUser DEF FreshInv
<1> QED BY <1>1 DEF FreshInv, Fresh, Own, busy, Lives, OwnNames, OneChange, Here

LEMMA FreshNext ==
  ASSUME IInv, IInv', CacheInv, KindInv, [Next]_vars, Calm => FreshInv
  PROVE  Calm' => FreshInv'
<1> SUFFICES ASSUME Calm' PROVE FreshInv'
  OBVIOUS
<1>0. FreshInv
  BY CalmBefore
<1>1. CASE \E g \in Group, e \in Entry : Edit(g, e)
  BY <1>0, <1>1, FreshEdit
<1>2. CASE \E u \in User : Switch(u)
  BY <1>0, <1>2, FreshSwitch
<1>3. CASE Purge \/ Clean \/ RunJob \/ Crash \/ UNCHANGED vars
  <2>1. Still /\ (job' = job \/ ~busy')
    BY <1>3 DEF Purge, Clean, RunJob, Crash, vars, Still, busy
  <2> QED BY <1>0, <2>1, FreshStill DEF Own, busy
<1>4. CASE Start
  <2>1. PICK g \in Group : Begun(g)
    BY <1>4, Starting
  <2>2. Still /\ job'.item = g /\ job'.new = ldap[g]
    BY <2>1 DEF Begun
  <2> QED BY <1>0, <2>2 DEF Still, FreshInv, Fresh, Lives, OwnNames, Ordered, OneChange, Here, Own
<1>5. CASE Enable
  <2>1. Still /\ job'.item \notin Group
    BY <1>5, Enabling, GroupOrUser
  <2> QED BY <1>0, <2>1, FreshStill DEF Own
<1>6. CASE Disable \/ Ignored
  <2>1. queue # <<>> /\ queue[1] \in User /\ ~busy /\ UNCHANGED <<job, seen, ldap>> /\ queue' = Tail(queue)
    BY <1>6, Kept DEF Disable, Ignored
  <2>2. Head(queue) = queue[1]
    BY <2>1, Kept
  <2> QED BY <1>0, <2>1, <2>2, FreshUser
<1>7. CASE busy /\ Advancing
  <2>1. Onward /\ (Still \/ \E g \in Group, i \in Nat : Given(g, i))
    BY <1>7, AdvancingStep
  <2>2. Own' => Own /\ job'.item = job.item /\ job'.new = job.new
    BY <1>7, <2>1 DEF Own, Onward, Keeps, CacheInv, InHand
  <2> QED BY <1>0, <2>1, <2>2, FreshStill, FreshGiven
<1>8. CASE (busy /\ (Finish \/ Raising \/ Ignore)) \/ Fails
  <2>1. busy
    BY <1>8 DEF Fails
  <2>2. CASE Closing
    BY <1>0, <2>1, <2>2, FreshReturn DEF Closing
  <2>3. CASE /\ Ignore /\ Return /\ Here(job.group)
             /\ ldap' = [ldap EXCEPT ![job.group].alias = TRUE]
             /\ queue' = Tail(Notify(job.group))
    BY <1>0, <2>1, <2>3, FreshIgnore
  <2> QED BY <1>8, <2>1, <2>2, <2>3, Ending, Ignoring
<1> QED BY <1>1, <1>2, <1>3, <1>4, <1>5, <1>6, <1>7, <1>8, Kinds

LEMMA FreshInit == Init => KindInv /\ FreshInv
<1> SUFFICES ASSUME Init PROVE KindInv /\ FreshInv
  OBVIOUS
<1>1. ~busy /\ queue = <<>> /\ seen = ldap /\ \A g \in Group : ldap[g] = Nothing
  BY DEF Init, busy
<1>2. Ordered(queue, ldap, seen)
  BY <1>1 DEF Ordered
<1>3. OwnNames(ldap) /\ OwnNames(seen) /\ OneChange
  BY <1>1 DEF OwnNames, OneChange, Here, Nothing
<1>4. Lives
  BY <1>1 DEF Lives, Nothing
<1> QED BY <1>1, <1>2, <1>3, <1>4 DEF KindInv, FreshInv, Fresh, Own

-----------------------------------------------------------------------------
(* The names of groups in Azure.                                           *)

\* No group of the tenant is renamed, or only group j, to n.
NamesStay == \A i \in DOMAIN azure : i \in DOMAIN azure' /\ azure'[i].name = azure[i].name
NamesBut(j, n) ==
  /\ j \in DOMAIN azure /\ DOMAIN azure' = DOMAIN azure /\ azure'[j].name = n
  /\ \A i \in DOMAIN azure : i # j => azure'[i].name = azure[i].name

LEMMA SetNames ==
  ASSUME IInv, NEW i \in 1 .. Len(azure), NEW r, SetGroup(i, r)
  PROVE  NamesBut(i, r.name)
BY Kept DEF SetGroup, NamesBut

LEMMA SetMembersNames ==
  ASSUME IInv, NEW i \in 1 .. Len(azure), NEW U, SetGroup(i, [azure[i] EXCEPT !.members = U])
  PROVE  NamesStay
<1>1. [azure[i] EXCEPT !.members = U].name = azure[i].name
  BY Kept, GroupAt DEF AzureGroup
<1> QED BY <1>1, SetNames DEF NamesBut, NamesStay

LEMMA SetOwnersNames ==
  ASSUME IInv, NEW i \in 1 .. Len(azure), NEW U, SetGroup(i, [azure[i] EXCEPT !.owners = U])
  PROVE  NamesStay
<1>1. [azure[i] EXCEPT !.owners = U].name = azure[i].name
  BY Kept, GroupAt DEF AzureGroup
<1> QED BY <1>1, SetNames DEF NamesBut, NamesStay

LEMMA SetTeamNames ==
  ASSUME IInv, NEW i \in 1 .. Len(azure), NEW t, SetGroup(i, [azure[i] EXCEPT !.team = t])
  PROVE  NamesStay
<1>1. [azure[i] EXCEPT !.team = t].name = azure[i].name
  BY Kept, GroupAt DEF AzureGroup
<1> QED BY <1>1, SetNames DEF NamesBut, NamesStay

LEMMA SetNameNames ==
  ASSUME IInv, NEW i \in 1 .. Len(azure), NEW n, SetGroup(i, [azure[i] EXCEPT !.name = n])
  PROVE  NamesBut(i, n)
<1>1. [azure[i] EXCEPT !.name = n].name = n
  BY Kept, GroupAt DEF AzureGroup
<1> QED BY <1>1, SetNames

LEMMA AddToNames ==
  ASSUME IInv, NEW i \in 1 .. Len(azure), NEW U, AddTo(i, U)
  PROVE  NamesStay
<1>1. CASE SetGroup(i, [azure[i] EXCEPT !.members = @ \cup U])
  BY <1>1, SetMembersNames
<1>2. CASE azure' = azure
  BY <1>2 DEF NamesStay
<1> QED BY <1>1, <1>2 DEF AddTo

\* The steps of a call that rename a group.
Renames ==
  \/ job.pc = "revive" /\ azure[job.id].name = Renamed /\ NamesBut(job.id, job.new.name)
  \/ job.pc = "rename" /\ NamesBut(job.id, job.new.name)
  \/ /\ job.pc = "remove" /\ job'.pc = "forget" /\ Removed # {} /\ Added = {}
     /\ NamesBut(job.id, Renamed)
  \/ job.pc = "bury" /\ NamesBut(job.id, Renamed)

LEMMA NamesAdvance ==
  ASSUME IInv, busy, Advancing
  PROVE  NamesStay \/ Renames
<1>a. ASSUME azure' = azure PROVE NamesStay
  BY <1>a DEF NamesStay
<1>0. /\ job.pc \notin Loose => job.id \in 1 .. Len(azure)
      /\ job.pc \in {"write", "team", "members"} => job.made \in 1 .. Len(azure)
      /\ job \in Job
  BY Mine, Fields DEF IInv
<1>1. CASE PostTake \/ Write \/ CreateParent \/ Created \/ Convert \/ Lost \/ Get \/ Gather
           \/ KeepGroup \/ Forget \/ Joined
  BY <1>1, <1>a DEF PostTake, Write, CreateParent, Created, Convert, Lost, Get, Gather,
     KeepGroup, Forget, Joined
<1>2. CASE PostNew
  <2>1. azure' = Append(azure, Parse(job.cur)) /\ azure \in Seq(AzureGroup)
    BY <1>2, Kept DEF PostNew
  <2> QED BY <2>1 DEF NamesStay
<1>3. CASE JoinTeam
  <2>1. azure' = azure \/ \E U : SetGroup(job.made, [azure[job.made] EXCEPT !.members = U])
    BY <1>3 DEF JoinTeam, AddToTeam
  <2> QED BY <1>0, <1>3, <1>a, <2>1, SetMembersNames DEF JoinTeam
<1>4. CASE AddMembers
  <2>1. azure' = azure \/ AddTo(job.made, job.adding)
    BY <1>4 DEF AddMembers
  <2> QED BY <1>0, <1>4, <1>a, <2>1, AddToNames DEF AddMembers
<1>5. CASE Revive
  <2>1. azure' = azure \/ (azure[job.id].name = Renamed /\ SetGroup(job.id, [azure[job.id] EXCEPT !.name = job.new.name]))
    BY <1>5 DEF Revive
  <2>2. job.pc = "revive"
    BY <1>5 DEF Revive
  <2> QED BY <1>0, <1>a, <2>1, <2>2, SetNameNames DEF Renames, Loose
<1>6. CASE AddOwners
  <2>1. SetGroup(job.id, [azure[job.id] EXCEPT !.owners = azure[job.id].owners \cup NewOwners]) /\ job.pc = "owners"
    BY <1>6 DEF AddOwners
  <2> QED BY <1>0, <2>1, SetOwnersNames DEF Loose
<1>7. CASE Disown
  <2>1. (\E U : SetGroup(job.id, [azure[job.id] EXCEPT !.owners = U])) /\ job.pc = "disown"
    BY <1>7 DEF Disown
  <2> QED BY <1>0, <2>1, SetOwnersNames DEF Loose
<1>8. CASE CheckTeam
  <2>1. azure' = azure \/ SetGroup(job.id, [azure[job.id] EXCEPT !.team = "archived"])
    BY <1>8 DEF CheckTeam
  <2>2. job.pc = "teams"
    BY <1>8 DEF CheckTeam
  <2> QED BY <1>0, <1>a, <2>1, <2>2, SetTeamNames DEF Loose
<1>9. CASE AddNew
  <2>1. AddTo(job.id, Newcomers) /\ job.pc = "gather"
    BY <1>9 DEF AddNew
  <2> QED BY <1>0, <2>1, AddToNames DEF Loose
<1>10. CASE RemoveMember
  <2>1. azure' = azure \/ \E x : SetGroup(job.id, [azure[job.id] EXCEPT !.members = @ \ {x}])
    BY <1>10 DEF RemoveMember
  <2>2. azure' = azure \/ \E U : SetGroup(job.id, [azure[job.id] EXCEPT !.members = U])
    BY <2>1
  <2>3. job.pc = "remove"
    BY <1>10 DEF RemoveMember
  <2> QED BY <1>0, <1>a, <2>2, <2>3, SetMembersNames DEF Loose
<1>11. CASE RemoveEmpty
  <2>1. /\ SetGroup(job.id, [azure[job.id] EXCEPT !.name = Renamed]) /\ job.pc = "remove"
        /\ job' = [job EXCEPT !.pc = "forget"] /\ Emptied
    BY <1>11 DEF RemoveEmpty, Goto
  <2>2. job'.pc = "forget"
    BY <1>0, <2>1 DEF Job
  <2> QED BY <1>0, <2>1, <2>2, SetNameNames DEF Loose, Renames, Emptied
<1>12. CASE UpdateName
  <2>1. SetGroup(job.id, [azure[job.id] EXCEPT !.name = job.new.name]) /\ job.pc = "rename"
    BY <1>12 DEF UpdateName, Parse
  <2> QED BY <1>0, <2>1, SetNameNames DEF Loose, Renames
<1>13. CASE Archive
  <2>1. (\E t : SetGroup(job.id, [azure[job.id] EXCEPT !.team = t])) /\ job.pc = "archive"
    BY <1>13 DEF Archive
  <2> QED BY <1>0, <2>1, SetTeamNames DEF Loose
<1>14. CASE Clear
  <2>1. (azure' = azure \/ SetGroup(job.id, [azure[job.id] EXCEPT !.members = {}])) /\ job.pc = "clear"
    BY <1>14 DEF Clear
  <2> QED BY <1>0, <1>a, <2>1, SetMembersNames DEF Loose
<1>15. CASE Bury
  <2>1. SetGroup(job.id, [azure[job.id] EXCEPT !.name = Renamed]) /\ job.pc = "bury"
    BY <1>15 DEF Bury
  <2> QED BY <1>0, <2>1, SetNameNames DEF Loose, Renames
<1>16. CASE Join
  <2>1. PICK g \in Group : JoinNew(g) \/ JoinGroup(g)
    BY <1>16 DEF Join
  <2>2. CASE azure' = azure
    BY <1>a, <2>2
  <2>3. CASE ldap[g].id # 0 /\ AddTo(ldap[g].id, {job.item})
    <3>1. ldap[g].id \in 1 .. Len(azure)
      BY <2>3 DEF IInv, IdsOfGroups, Known
    <3> QED BY <2>3, <3>1, AddToNames
  <2> QED BY <2>1, <2>2, <2>3 DEF JoinNew, JoinGroup
<1> QED BY <1>1, <1>2, <1>3, <1>4, <1>5, <1>6, <1>7, <1>8, <1>9, <1>10, <1>11, <1>12, <1>13,
           <1>14, <1>15, <1>16 DEF Advancing

-----------------------------------------------------------------------------
(* Whose a group in Azure is.                                              *)

\* The names that belong to group g: the one its group in Azure has from the
\* last call, and the one it has in LDAP, when no other one is left with it.
Claim(g) == {n \in Name : \/ seen[g].life = "here" /\ n = seen[g].name
                          \/ /\ Here(g) /\ n = ldap[g].name
                             /\ \A h \in Group : h # g /\ seen[h].life = "here" => seen[h].name # n}

\* A team to be was deleted: its group in Azure stays as it is.
Excused(g) == seen[g].life = "gone" /\ <<g, "unformed">> \in owed

\* The objectIds known of group g.
Holds(g) ==
  IF Excused(g) THEN {}
  ELSE ({ldap[g].id, seen[g].id} \cup (IF busy /\ job.item = g THEN {job.id, job.new.id} ELSE {})) \ {0}

\* A group in Azure has a name of the group that knows it, and no other does.
NameHeld == \A g \in Group : \A i \in Holds(g) : azure[i].name \in Claim(g) \cup {Renamed, Gone}
HeldOnce == \A g, h \in Group : g # h => Holds(g) \cap Holds(h) = {}

LEMMA HoldsThere ==
  ASSUME IInv, NEW g \in Group, NEW i \in Holds(g)
  PROVE  i \in DOMAIN azure /\ i # 0 /\ ~Excused(g)
<1>1. azure \in Seq(AzureGroup) /\ DOMAIN azure = 1 .. Len(azure)
  BY Kept
<1>2. /\ ldap[g].id \in 0 .. Len(azure) /\ seen[g].id \in 0 .. Len(azure)
      /\ busy => job.id \in 0 .. Len(azure) /\ job.new.id \in 0 .. Len(azure)
  BY DEF IInv, IdsOfGroups, Steps, Handling, Known
<1>3. ~Excused(g) /\ i # 0 /\ i \in {ldap[g].id, seen[g].id} \cup (IF busy /\ job.item = g THEN {job.id, job.new.id} ELSE {})
  BY DEF Holds
<1> HIDE DEF Excused
<1> QED BY <1>1, <1>2, <1>3

LEMMA ClaimsApart ==
  ASSUME FreshInv, NEW g \in Group, NEW h \in Group, g # h
  PROVE  Claim(g) \cap Claim(h) = {}
BY DEF FreshInv, OwnNames, Claim, Here

LEMMA ClaimNames == ASSUME NEW g \in Group PROVE Claim(g) \subseteq Name
BY DEF Claim

\* The name of a group whose turn it is belongs to it.
LEMMA ClaimFirst ==
  ASSUME IInv, FreshInv, NEW g \in Group, queue # <<>>, Head(queue) = g, Here(g)
  PROVE  ldap[g].name \in Claim(g)
<1>1. 1 \in DOMAIN queue /\ queue[1] = g
  BY Kept
<1>2. ~ \E m \in 1 .. 1 - 1 : TRUE
  OBVIOUS
<1>3. ASSUME NEW h \in Group, h # g, seen[h].life = "here", seen[h].name = ldap[g].name
      PROVE  FALSE
  <2>1. \E m \in 1 .. 1 - 1 : queue[m] = h
    BY <1>1, <1>3 DEF FreshInv, Ordered, Here
  <2> QED BY <1>2, <2>1
<1>4. ldap[g].name \in Name
  BY DEF FreshInv, OwnNames, Here
<1> QED BY <1>3, <1>4 DEF Claim

LEMMA ClaimOwn ==
  ASSUME IInv, CacheInv, FreshInv, Own, job.new.life = "here"
  PROVE  job.new.name \in Claim(job.item) /\ job.new.name = ldap[job.item].name /\ Here(job.item)
<1>1. queue # <<>> /\ Head(queue) = job.item /\ job.item \in Group
  BY HeadWaits DEF Own, CacheInv, InHand
<1>2. job.new.name = ldap[job.item].name /\ Here(job.item)
  BY DEF FreshInv, Fresh, Watched, Here
<1> QED BY <1>1, <1>2, ClaimFirst

LEMMA ClaimStill ==
  ASSUME seen' = seen, NEW g \in Group, Here(g) => Here(g)' /\ ldap'[g].name = ldap[g].name
  PROVE  Claim(g) \subseteq Claim(g)'
BY DEF Claim

LEMMA ClaimEdit ==
  ASSUME IInv, IInv', CacheInv, FreshInv, Calm', NEW g \in Group, NEW e, Edit(g, e), NEW h \in Group
  PROVE  Claim(h) \subseteq Claim(h)'
<1>1. g \notin Range(queue) /\ ldap'[g] = e /\ seen' = seen /\ \A k \in Group : k # g => ldap'[k] = ldap[k]
  BY CalmPut
<1>2. seen[g] = ldap[g]
  BY <1>1 DEF CacheInv, Settled
<1>3. CASE h # g
  BY <1>1, <1>3, ClaimStill DEF Here
<1>4. CASE h = g
  BY <1>1, <1>2, <1>4 DEF Claim, Here
<1> QED BY <1>3, <1>4

\* What a call's end makes of the claims.
LEMMA ClaimReturn ==
  ASSUME IInv, CacheInv, FreshInv, Own, Return, NEW h \in Group, h # job.item,
         \A k \in Group : Here(k)' <=> Here(k), \A k \in Group : ldap'[k].name = ldap[k].name
  PROVE  Claim(h) \subseteq Claim(h)'
<1>1. /\ job.item \in Group /\ seen'[job.item] = job.new
      /\ \A k \in Group : k # job.item => seen'[k] = seen[k]
  BY Kept DEF Own, Return
<1>2. job.new.life = "here" => job.new.name = ldap[job.item].name /\ Here(job.item)
  BY DEF FreshInv, Fresh, Watched, Here
<1>3. job.new.life = "here" /\ Here(h) => ldap[h].name # job.new.name
  BY <1>1, <1>2 DEF FreshInv, OwnNames, Here
<1>4. SUFFICES ASSUME NEW n \in Claim(h) PROVE n \in Claim(h)'
  OBVIOUS
<1>5. n \in Name /\ seen'[h] = seen[h]
  BY <1>1 DEF Claim
<1>6. CASE seen[h].life = "here" /\ n = seen[h].name
  BY <1>5, <1>6 DEF Claim
<1>7. CASE /\ Here(h) /\ n = ldap[h].name
           /\ \A k \in Group : k # h /\ seen[k].life = "here" => seen[k].name # n
  <2>1. \A k \in Group : k # h /\ seen'[k].life = "here" => seen'[k].name # n
    BY <1>1, <1>3, <1>7
  <2> QED BY <1>5, <1>7, <2>1 DEF Claim
<1> QED BY <1>6, <1>7 DEF Claim

LEMMA ClaimReturned ==
  ASSUME IInv, CacheInv, FreshInv, Own, Return, job.new.life = "here", NEW g \in Group, g = job.item
  PROVE  job.new.name \in Claim(g)'
<1>1. seen'[g] = job.new
  BY Kept DEF Own, Return
<1>2. job.new.name \in Name
  BY ClaimOwn, ClaimNames
<1> QED BY <1>1, <1>2 DEF Claim

-----------------------------------------------------------------------------
(* Steps that make nobody know another group.                              *)

Fewer == \A g \in Group : Holds(g)' \subseteq Holds(g)

LEMMA HeldOnceFewer == ASSUME HeldOnce, Fewer PROVE HeldOnce'
BY DEF HeldOnce, Fewer

LEMMA NameHeldFewer ==
  ASSUME IInv, NameHeld, Fewer, NamesStay, \A g \in Group : Claim(g) \subseteq Claim(g)'
  PROVE  NameHeld'
BY HoldsThere DEF NameHeld, Fewer, NamesStay

-----------------------------------------------------------------------------
(* What a call has found out.                                              *)

\* The first request of modify asks for the group the entry has, or had.
AtGet ==
  Own /\ job.pc = "get" =>
    /\ job.target = job.item /\ job.cur = job.new /\ job.new.id = ldap[job.item].id
    /\ job.id = IF job.old.id # 0 THEN job.old.id ELSE job.new.id
    /\ job.then = "owners" /\ Watched(job.old) # Watched(job.new)

\* A group is created under a name of its own, and in place of no other one.
AtPost ==
  busy /\ job.pc \in Creation =>
    /\ seen[job.target].life # "gone" /\ ldap[job.target].life # "none"
    /\ job.pc \in {"post", "write"} =>
         /\ job.cur.id = ldap[job.target].id
         /\ job.cur.name \in Claim(job.target)
         /\ (seen[job.target].life = "none" \/ seen[job.target].id # 0) =>
              job.cur.name = ldap[job.target].name
         /\ job.target # job.item => job.cur.id = 0
         /\ Own /\ job.target = job.item =>
              /\ job.cur.name = job.new.name
              /\ job.then # "gather"
              /\ job.old.id = 0 \/ azure[job.old.id].name = Gone
              /\ job.id = 0 \/ azure[job.id].name = Gone
    /\ job.pc = "write" => azure[job.made].name = job.cur.name

Changing == {"revive", "owners", "disown", "teams", "gather", "remove", "rename", "forget"}

\* Then the call has the objectId that is in LDAP, or was just taken out of it.
AfterWrite ==
  Own =>
    /\ \/ job.pc \in Changing \cup {"convert", "team", "members", "parents"}
       \/ job.pc \in {"post", "write"} /\ job.target # job.item
       => /\ ldap[job.item].id \in {0, job.id} /\ job.id # 0 /\ azure[job.id].name # Gone
          /\ job.pc \in Creation \cup {"convert"} => ldap[job.item].id = job.id
          /\ ldap[job.item].id = 0 => job.new.groups \subseteq job.old.groups /\ job.new.users \subseteq job.old.users
    /\ job.pc = "forget" => Removed # {} /\ Added = {}

\* The groups known of the one that is changed have its new name; the one that
\* is to be renamed may have the old one.
Renaming ==
  Own /\ job.new.life = "here" =>
    \A i \in Holds(job.item) :
      \/ azure[i].name \in {job.new.name, Renamed, Gone}
      \/ /\ i = job.id /\ seen[job.item].name # job.new.name
         /\ job.pc \in (Changing \cup {"get"}) \ {"forget"}

\* A group that is deleted is renamed in the end, unless it is gone.
Burying ==
  Own /\ job.new.life = "gone" /\ job.pc = "done" =>
    Excused(job.item) \/ job.old.id = 0 \/ azure[job.old.id].name \in {Renamed, Gone}

\* What the cache has of a group may be another group in Azure than the one in
\* LDAP: that one has the name then, and where there is a change to handle, the
\* one in the cache is gone.
Stale ==
  \A g \in Group : Here(g) /\ seen[g].life = "here" =>
    /\ ldap[g].id # 0 /\ seen[g].id \notin {0, ldap[g].id} =>
         azure[ldap[g].id].name \in {ldap[g].name, Renamed, Gone}
    /\ Watched(seen[g]) # Watched(ldap[g]) =>
         /\ ldap[g].id # 0 /\ seen[g].id \notin {0, ldap[g].id} =>
              azure[seen[g].id].name = Gone
         /\ ldap[g].id = 0 /\ seen[g].id # 0 =>
              queue # <<>> /\ Head(queue) = g /\ ldap[g].groups \subseteq seen[g].groups /\ ldap[g].users \subseteq seen[g].users

\* The parents of a group that are created next were there.
Above ==
  busy => \A p \in job.above : ldap[p].life # "none" /\ seen[p].life # "gone"

NameInv == NameHeld /\ HeldOnce /\ Above /\ AtGet /\ AtPost /\ AfterWrite /\ Renaming /\ Burying /\ Stale

-----------------------------------------------------------------------------
(* How a call goes on, in detail.                                          *)

LEMMA GoesOnFrom ==
  ASSUME IInv, busy, Advancing
  PROVE  /\ job.pc = "post" => PostNew \/ PostTake
         /\ job.pc = "write" => Write
         /\ job.pc = "team" => JoinTeam
         /\ job.pc = "members" => AddMembers
         /\ job.pc = "parents" => CreateParent \/ Created
         /\ job.pc = "convert" => Convert
         /\ job.pc = "get" => Lost \/ Get
         /\ job.pc = "revive" => Revive
         /\ job.pc = "gather" => Gather \/ AddNew
         /\ job.pc = "remove" => RemoveMember \/ RemoveEmpty \/ KeepGroup
         /\ job.pc = "forget" => Forget
         /\ job.pc = "clear" => Clear
         /\ job.pc = "join" => Join \/ Joined
         /\ Write => job.pc = "write"
         /\ Forget => job.pc = "forget"
BY DEF Advancing, PostNew, PostTake, Write, JoinTeam, AddMembers, CreateParent, Created,
       Convert, Lost, Get, Revive, AddOwners, Disown, CheckTeam, Gather, AddNew, RemoveMember,
       RemoveEmpty, KeepGroup, Forget, UpdateName, Archive, Clear, Bury, Join, Joined

LEMMA StillUnless ==
  ASSUME IInv, busy, Advancing, job.pc \notin {"write", "forget"}
  PROVE  Still
BY CreatingData, ModifyingData, BuryingData, GoesOnFrom DEF Advancing

\* The group that was created, or found, has the name.
LEMMA Finding ==
  ASSUME IInv, busy, PostNew \/ PostTake
  PROVE  job'.made \in DOMAIN azure' /\ azure'[job'.made].name = job.cur.name /\ job'.cur = job.cur
<1>0. job \in Job /\ azure \in Seq(AzureGroup)
  BY Kept, Fields DEF IInv
<1>1. CASE PostNew
  <2>1. azure' = Append(azure, Parse(job.cur)) /\ job'.made = Len(azure) + 1 /\ job'.cur = job.cur
    BY <1>0, <1>1 DEF PostNew, Job
  <2>2. Parse(job.cur).name = job.cur.name
    BY DEF Parse
  <2> QED BY <1>0, <2>1, <2>2
<1>2. CASE PostTake
  <2>1. PICK i \in Called(job.cur.name) : job' = [job EXCEPT !.pc = "write", !.made = i]
    BY <1>2 DEF PostTake
  <2>2. azure' = azure
    BY <1>2 DEF PostTake
  <2> QED BY <1>0, <2>1, <2>2 DEF Called, Job
<1> QED BY <1>1, <1>2

\* Another group is created because it has no objectId, and not too early.
LEMMA Posting ==
  ASSUME IInv, CacheInv, FreshInv, Above, Calm', busy, Advancing, job'.pc = "post",
         job.pc \in {"parents", "gather", "join"}
  PROVE  \E g \in Group : /\ job'.target = g /\ job'.cur = ldap[g] /\ ldap[g].id = 0
                          /\ ldap[g].life # "none" /\ seen[g].life # "gone"
                          /\ ~Early(g) /\ (job.pc = "gather" => g \in job.todo)
<1>0. job \in Job /\ ~raced'
  BY Fields DEF IInv, Calm
<1>1. CASE job.pc = "parents"
  <2>1. CreateParent
    <3>1. Created => job'.pc = job.then /\ job.then # "post"
      BY <1>0 DEF Created, Job
    <3> QED BY <1>1, <3>1, GoesOnFrom
  <2>2. PICK p \in Missing : /\ job' = [job EXCEPT !.pc = "post", !.target = p, !.cur = ldap[p],
                                                  !.above = Parents \ {p}]
                             /\ raced' = (raced \/ Early(p))
    BY <2>1 DEF CreateParent
  <2>3. p \in Parents /\ ldap[p].id = 0
    BY DEF Missing
  <2>4. ~Early(p)
    BY <1>0, <2>2
  <2>5. job'.target = p /\ job'.cur = ldap[p]
    BY <1>0, <2>2 DEF Job
  <2>6. p \in Group
    <3>1. job.above \subseteq Group
      BY Fields DEF IInv
    <3>2. Parents \subseteq Group
      BY <3>1 DEF Parents
    <3> QED BY <2>3, <3>2
  <2>7. ldap[p].life # "none" /\ seen[p].life # "gone"
    BY <2>3, <2>6 DEF Parents, Above, Here, FreshInv, Lives
  <2> QED BY <1>1, <2>3, <2>4, <2>5, <2>6, <2>7
<1>2. CASE job.pc = "gather"
  <2>1. Gather
    BY <1>0, <1>2, GoesOnFrom DEF AddNew, Job
  <2>2. PICK h \in job.todo \cap Group :
          LET new == ldap[h].users \cap marked # {} /\ ldap[h].id = 0 IN
          /\ job' = IF Here(h) /\ new
                    THEN [job EXCEPT !.pc = "post", !.todo = @ \ {h}, !.target = h,
                                     !.cur = ldap[h], !.then = "gather"]
                    ELSE [job EXCEPT !.todo = @ \ {h}]
          /\ raced' = (raced \/ (Here(h) /\ new /\ Early(h)))
    BY <2>1 DEF Gather
  <2>3. Here(h) /\ ldap[h].users \cap marked # {} /\ ldap[h].id = 0
    BY <1>0, <1>2, <2>2 DEF Job
  <2>4. job'.target = h /\ job'.cur = ldap[h]
    BY <1>0, <2>2, <2>3 DEF Job
  <2>5. ~Early(h)
    BY <1>0, <2>2, <2>3
  <2> QED BY <2>3, <2>4, <2>5 DEF Here, FreshInv, Lives
<1>3. CASE job.pc = "join"
  <2>1. Join
    BY <1>0, <1>3, GoesOnFrom DEF Joined, Goto, Job
  <2>2. PICK g \in job.todo \cap Group : JoinNew(g)
    BY <1>0, <1>3, <2>1 DEF Join, JoinGroup, Drop, Job
  <2>3. job'.target = g /\ job'.cur = ldap[g] /\ Here(g) /\ ~ldap[g].alias /\ raced' = (raced \/ Early(g))
    BY <1>0, <2>2 DEF JoinNew, Job
  <2>4. ~Early(g)
    BY <1>0, <2>3
  <2> QED BY <1>3, <2>3, <2>4 DEF CacheInv, Aliased, Here, FreshInv, Lives
<1> QED BY <1>1, <1>2, <1>3

\* Its name in LDAP is its own then.
LEMMA ClaimLate ==
  ASSUME IInv, CacheInv, FreshInv, NEW g \in Group, ldap[g].life # "none", seen[g].life # "gone",
         ~Early(g)
  PROVE  ldap[g].name \in Claim(g)
<1>0. ldap[g].life \in {"here", "gone"} /\ seen[g].life \in {"none", "here"}
  BY Kept DEF Entry
<1>1. CASE ldap[g].life = "gone"
  BY <1>0, <1>1 DEF FreshInv, Lives, OwnNames, Claim
<1>2. CASE Here(g)
  <2>1. ASSUME NEW h \in Group, h # g, seen[h].life = "here", seen[h].name = ldap[g].name
        PROVE  FALSE
    <3>1. h \notin Range(queue)
      BY <2>1 DEF Early
    <3>2. seen[h] = ldap[h]
      BY <3>1 DEF CacheInv, Settled
    <3> QED BY <1>2, <2>1, <3>2 DEF FreshInv, OwnNames, Here
  <2>2. ldap[g].name \in Name
    BY DEF FreshInv, OwnNames
  <2> QED BY <1>2, <2>1, <2>2 DEF Claim
<1> QED BY <1>0, <1>1, <1>2 DEF Here

LEMMA Getting ==
  ASSUME IInv, Calm', busy, Advancing, job.pc = "get"
  PROVE  \/ job'.pc = "post" /\ azure[job.id].name = Gone
         \/ job'.pc = "revive" /\ azure[job.id].name # Gone
<1>1. job \in Job /\ failed' # TRUE
  BY Fields DEF IInv, Calm
<1>2. CASE Lost
  BY <1>1, <1>2 DEF Lost, Goto, Job
<1>3. CASE Get
  BY <1>1, <1>3 DEF Get, Goto, Job
<1> QED BY <1>2, <1>3, GoesOnFrom

-----------------------------------------------------------------------------
(* What is owed stays so, until the members of the group are put right.    *)

LEMMA OwedStays ==
  ASSUME IInv, [Next]_vars, NEW g \in Group, NEW c \in Cause \ {"team"}, <<g, c>> \in owed
  PROVE  <<g, c>> \in owed' \/ (busy /\ AddMembers /\ job.target = g)
<1>1. CASE (\E h \in Group, e \in Entry : Edit(h, e)) \/ (\E u \in User : Switch(u)) \/ Purge \/ Clean
  BY <1>1 DEF Edit, Put, Switch, Change, Purge, Clean
<1>2. CASE Start
  BY <1>2 DEF Start, StartCreate, StartModify, StartDelete
<1>3. CASE Enable \/ Disable \/ Ignored \/ UNCHANGED vars
  BY <1>3 DEF Enable, Disable, Ignored, vars
<1>4. CASE (busy /\ (Finish \/ Raising \/ Ignore)) \/ Fails
  BY <1>4 DEF Finish, Raising, Ignore, Fails, WriteGone, NestedUnknown, GatherUnknown,
     RemoveStranger, ForgetNothing, ArchiveNothing, JoinGone, Raise
<1>5. CASE RunJob
  BY <1>5 DEF RunJob
<1>6. CASE Crash
  BY <1>6 DEF Crash
<1>7. CASE busy /\ Advancing
  <2>1. CASE PostNew \/ PostTake
    <3>1. c # "team"
      OBVIOUS
    <3> QED BY <2>1, <3>1 DEF PostNew, PostTake
  <2>2. CASE AddMembers
    BY <1>7, <2>2 DEF AddMembers
  <2>3. CASE Convert \/ CheckTeam
    BY <2>3 DEF Convert, CheckTeam, Enqueue
  <2>4. CASE AddOwners \/ Disown \/ Forget
    BY <2>4 DEF AddOwners, Disown, Forget
  <2>5. CASE Join
    BY <2>5 DEF Join, JoinNew, JoinGroup
  <2>6. CASE Write \/ JoinTeam \/ CreateParent \/ Created \/ Lost \/ Get \/ Revive \/ Gather
             \/ AddNew \/ RemoveMember \/ RemoveEmpty \/ KeepGroup \/ UpdateName \/ Archive
             \/ Clear \/ Bury \/ Joined
    BY <2>6 DEF Write, JoinTeam, CreateParent, Created, Lost, Get, Revive, Gather, AddNew,
       RemoveMember, RemoveEmpty, KeepGroup, UpdateName, Archive, Clear, Bury, Joined
  <2> QED BY <1>7, <2>1, <2>2, <2>3, <2>4, <2>5, <2>6 DEF Advancing
<1> QED BY <1>1, <1>2, <1>3, <1>4, <1>5, <1>6, <1>7, Kinds

LEMMA ExcusedStays ==
  ASSUME IInv, CacheInv, KindInv, AtPost, [Next]_vars, NEW g \in Group, Excused(g)
  PROVE  Excused(g)'
<1>0. seen[g].life = "gone" /\ <<g, "unformed">> \in owed
  BY DEF Excused
<1>1. <<g, "unformed">> \in owed'
  <2>1. ~(busy /\ AddMembers /\ job.target = g)
    BY <1>0 DEF AddMembers, AtPost, Creation
  <2> QED BY <1>0, <2>1, OwedStays DEF Cause
<1>2. seen'[g].life = "gone"
  <2>1. CASE seen' = seen
    BY <1>0, <2>1
  <2>2. CASE busy /\ Return
    <3>1. seen'[g] = seen[g] \/ (Own /\ job.item = g /\ seen'[g] = job.new)
      BY <2>2, Kept DEF Return, Own
    <3>2. Own /\ job.item = g => job.new.life = "gone"
      BY <1>0 DEF KindInv, CacheInv, InHand, Own
    <3> QED BY <1>0, <3>1, <3>2
  <2>3. seen' = seen \/ (busy /\ Return)
    <3>1. CASE \/ \E h \in Group, e \in Entry : Edit(h, e)
               \/ \E u \in User : Switch(u)
               \/ Purge \/ Clean \/ Start \/ Enable \/ Disable \/ Ignored
               \/ RunJob \/ Crash \/ UNCHANGED vars
      BY <3>1 DEF Edit, Put, Switch, Change, Purge, Clean, Start, Enable, Disable, Ignored,
         RunJob, Crash, vars
    <3>2. CASE busy /\ Advancing
      <4>1. \/ PostNew \/ PostTake \/ JoinTeam \/ AddMembers \/ CreateParent \/ Created \/ Convert
            \/ Write \/ Forget
            \/ Lost \/ Get \/ Revive \/ AddOwners \/ Disown \/ CheckTeam \/ Gather
            \/ AddNew \/ RemoveMember \/ RemoveEmpty \/ KeepGroup \/ UpdateName
            \/ Archive \/ Clear \/ Bury \/ Join \/ Joined
        BY <3>2 DEF Advancing
      <4> QED BY <3>2, <4>1, CreatingData, ModifyingData, BuryingData DEF Still, Write, Forget
    <3>3. CASE (busy /\ (Finish \/ Raising \/ Ignore)) \/ Fails
      BY <3>3, Ending, Ignoring DEF Closing, Fails
    <3> QED BY <3>1, <3>2, <3>3, Kinds
  <2> QED BY <2>1, <2>2, <2>3
<1> QED BY <1>1, <1>2 DEF Excused

-----------------------------------------------------------------------------
(* NameHeld and HeldOnce.                                                  *)

\* Nobody holds a group that was not held, where the call keeps its objectId.
LEMMA FewerStill ==
  ASSUME IInv, CacheInv, KindInv, AtPost, [Next]_vars,
         \A g \in Group : ldap'[g].id \in {0, ldap[g].id} /\ seen'[g].id = seen[g].id,
         Own' => Own /\ job'.item = job.item /\ job'.id = job.id /\ job'.new.id = job.new.id
  PROVE  Fewer
<1>1. SUFFICES ASSUME NEW g \in Group PROVE Holds(g)' \subseteq Holds(g)
  BY DEF Fewer
<1>2. CASE Excused(g)
  BY <1>2, ExcusedStays DEF Holds
<1>3. CASE ~Excused(g)
  <2> HIDE DEF Excused
  <2>1. Holds(g)' \subseteq ({ldap'[g].id, seen'[g].id} \cup (IF busy' /\ job'.item = g THEN {job'.id, job'.new.id} ELSE {})) \ {0}
    BY DEF Holds
  <2>2. busy' /\ job'.item = g => Own'
    BY DEF Own
  <2> QED BY <1>3, <2>1, <2>2 DEF Holds, Own
<1> QED BY <1>2, <1>3

LEMMA NameHeldGiven ==
  ASSUME IInv, NameHeld, Fewer, \A g \in Group : Claim(g) \subseteq Claim(g)',
         \A g \in Group : \A i \in Holds(g) :
           azure'[i].name = azure[i].name \/ azure'[i].name \in Claim(g)' \cup {Renamed, Gone}
  PROVE  NameHeld'
BY DEF NameHeld, Fewer

\* A call holds what it works on.
LEMMA Holding ==
  ASSUME IInv, CacheInv, KindInv, Own, job.new.life = "here" \/ job.pc \in Burial
  PROVE  ~Excused(job.item) /\ (job.id # 0 => job.id \in Holds(job.item))
<1>1. job.old = seen[job.item] /\ job.old.life # "gone"
  BY DEF KindInv, CacheInv, InHand, Own
<1>2. ~Excused(job.item)
  BY <1>1 DEF Excused
<1> HIDE DEF Excused
<1> QED BY <1>2 DEF Holds, Own

\* It is a call for a group.
LEMMA OwnCall ==
  ASSUME IInv, CacheInv, busy, job.pc \notin Creation \cup {"join", "convert", "done"}
  PROVE  Own
BY Fields DEF IInv, CacheInv, InHand, Own

LEMMA RenamesOwn ==
  ASSUME IInv, CacheInv, KindInv, FreshInv, NameInv, busy, Advancing, Renames
  PROVE  /\ Own /\ job.id \in Holds(job.item) /\ job.pc \in Changing \cup {"bury"}
         /\ \A g \in Group : g # job.item => job.id \notin Holds(g)
         /\ \A i \in DOMAIN azure : i # job.id => i \in DOMAIN azure' /\ azure'[i].name = azure[i].name
         /\ azure'[job.id].name # Gone
         /\ job.pc # "bury" => job.new.life = "here" /\ azure'[job.id].name \in {job.new.name, Renamed}
         /\ job.pc = "bury" => azure'[job.id].name = Renamed /\ job.new.life = "gone"
<1>1. job.pc \in {"revive", "rename", "remove", "bury"}
  BY DEF Renames
<1>2. Own
  BY <1>1, OwnCall DEF Creation
<1>3. /\ job.pc = "bury" => job.new.life = "gone"
      /\ job.pc # "bury" => job.new.life = "here"
  BY <1>1, <1>2 DEF KindInv, Burial
<1>4. job.id # 0
  BY <1>1, Mine DEF Loose
<1>5. job.id \in Holds(job.item) /\ job.item \in Group
  BY <1>1, <1>2, <1>3, <1>4, Holding DEF Burial, Own
<1>6. \A g \in Group : g # job.item => job.id \notin Holds(g)
  BY <1>5 DEF NameInv, HeldOnce
<1>7. \A i \in DOMAIN azure : i # job.id => i \in DOMAIN azure' /\ azure'[i].name = azure[i].name
  BY DEF Renames, NamesBut
<1>8. azure'[job.id].name \in {job.new.name, Renamed} /\ (job.pc = "bury" => azure'[job.id].name = Renamed)
  BY <1>1 DEF Renames, NamesBut
<1>9. job.new.life = "here" => job.new.name # Gone
  <2>1. job.new.life = "here" => job.new.name \in Name
    BY <1>2, <1>5, ClaimOwn, ClaimNames
  <2> QED BY <2>1, NamesAssumption
<1>10. Renamed # Gone
  BY DEF Renamed, Gone
<1> QED BY <1>1, <1>2, <1>3, <1>5, <1>6, <1>7, <1>8, <1>9, <1>10 DEF Changing

LEMMA HeldRenames ==
  ASSUME IInv, IInv', CacheInv, KindInv, FreshInv, NameInv, [Next]_vars, busy, Advancing, Renames
  PROVE  NameHeld' /\ HeldOnce'
<1>1. Own /\ job.pc \notin {"write", "forget", "join"} /\ Still /\ Onward
  <2>1. job.pc \in Changing \cup {"bury"} /\ job.pc # "forget" /\ Own
    BY RenamesOwn DEF Renames
  <2> QED BY <2>1, StillUnless, AdvancingStep DEF Changing
<1>2. Fewer
  BY <1>1, FewerStill DEF Still, Onward, Keeps, Own, NameInv
<1>3. \A g \in Group : Claim(g) \subseteq Claim(g)'
  BY <1>1, ClaimStill DEF Still, Here
<1>4. ASSUME NEW g \in Group, NEW i \in Holds(g)
      PROVE  azure'[i].name = azure[i].name \/ azure'[i].name \in Claim(g)' \cup {Renamed, Gone}
  <2>1. i \in DOMAIN azure
    BY <1>4, HoldsThere
  <2>2. CASE i # job.id
    BY <2>1, <2>2, RenamesOwn
  <2>3. CASE i = job.id
    <3>1. g = job.item
      BY <1>4, <2>3, RenamesOwn
    <3>2. CASE job.pc = "bury"
      BY <2>3, <3>2, RenamesOwn
    <3>3. CASE job.pc # "bury"
      <4>1. job.new.name \in Claim(g)
        BY <1>1, <3>1, <3>3, RenamesOwn, ClaimOwn
      <4> QED BY <1>3, <2>3, <3>3, <4>1, RenamesOwn
    <3> QED BY <3>2, <3>3
  <2> QED BY <2>2, <2>3
<1> QED BY <1>2, <1>3, <1>4, HeldOnceFewer, NameHeldGiven DEF NameInv

\* Only the group an objectId is written for gets one.
LEMMA WriteHolds ==
  ASSUME IInv, IInv', CacheInv, KindInv, FreshInv, NameInv, [Next]_vars, busy, Write, NEW g \in Group
  PROVE  Holds(g)' \subseteq Holds(g) \cup (IF g = job.target THEN {job.made} ELSE {})
<1>0. job.target \in Group /\ job \in Job /\ job.pc = "write"
  BY Fields DEF IInv, Write
<1>1. /\ ldap'[g].id = ldap[g].id \/ (g = job.target /\ ldap'[g].id = job.made)
      /\ seen'[g].id = seen[g].id
  BY WriteData, Gives, Fields, SMTT(40) DEF Still, Given, IInv
<1>2. /\ job'.item = job.item /\ job'.new = job.new /\ busy'
      /\ job'.id = job.id \/ (job.target = job.group /\ job'.id = job.made)
  <2>1. Onward
    BY AdvancingStep DEF Advancing
  <2>2. job'.id = IF job.target = job.group THEN job.made ELSE job.id
    BY <1>0 DEF Write, Job
  <2> QED BY <1>0, <2>1, <2>2 DEF Onward, Keeps
<1>3. job.item = g => job.group = g
  BY DEF CacheInv, InHand
<1>4. CASE Excused(g)
  BY <1>4, ExcusedStays DEF Holds, NameInv
<1>5. CASE ~Excused(g)
  <2> HIDE DEF Excused
  <2>1. Holds(g)' \subseteq ({ldap'[g].id, seen'[g].id} \cup (IF busy' /\ job'.item = g THEN {job'.id, job'.new.id} ELSE {})) \ {0}
    BY DEF Holds
  <2> QED BY <1>1, <1>2, <1>3, <1>5, <2>1 DEF Holds
<1> QED BY <1>4, <1>5

LEMMA HeldWrite ==
  ASSUME IInv, IInv', CacheInv, KindInv, FreshInv, NameInv, [Next]_vars, busy, Write
  PROVE  NameHeld' /\ HeldOnce'
<1> DEFINE t == job.target
<1>0. t \in Group /\ job.pc = "write" /\ azure' = azure
  BY Fields DEF IInv, Write
<1>1. azure[job.made].name \in Claim(t)
  BY <1>0 DEF NameInv, AtPost, Creation
<1>2. \A g \in Group : Claim(g) \subseteq Claim(g)'
  <2>1. ASSUME NEW g \in Group, Here(g) PROVE Here(g)' /\ ldap'[g].name = ldap[g].name
    <3>1. Still \/ Given(job.target, job.made)
      BY WriteData
    <3>2. ldap'[g].life = ldap[g].life /\ Watched(ldap'[g]) = Watched(ldap[g])
      BY <1>0, <3>1, Gives DEF Still
    <3> QED BY <2>1, <3>2 DEF Here, Watched
  <2>2. seen' = seen
    BY DEF Write
  <2> QED BY <2>1, <2>2, ClaimStill
<1>3. \A h \in Group : h # t => job.made \notin Holds(h)
  <2>1. Renamed \notin Name /\ Gone \notin Name
    BY NamesAssumption
  <2>2. ASSUME NEW h \in Group, h # t, job.made \in Holds(h) PROVE FALSE
    <3>1. azure[job.made].name \in Claim(h) \cup {Renamed, Gone}
      BY <2>2 DEF NameInv, NameHeld
    <3> QED BY <1>0, <1>1, <2>1, <2>2, <3>1, ClaimsApart, ClaimNames
  <2> QED BY <2>2
<1> HIDE DEF t
<1>4. \A g \in Group : Holds(g)' \subseteq Holds(g) \cup (IF g = t THEN {job.made} ELSE {})
  BY WriteHolds DEF t
<1>5. NameHeld'
  BY <1>0, <1>1, <1>2, <1>4 DEF NameInv, NameHeld
<1>6. HeldOnce'
  <2>1. SUFFICES ASSUME NEW g \in Group, NEW h \in Group, g # h, NEW i, i \in Holds(g)', i \in Holds(h)'
                 PROVE  FALSE
    BY DEF HeldOnce
  <2>2. ~(i \in Holds(g) /\ i \in Holds(h))
    BY <2>1 DEF NameInv, HeldOnce
  <2> QED BY <1>3, <1>4, <2>1, <2>2
<1> QED BY <1>5, <1>6

LEMMA FewerStart ==
  ASSUME IInv, CacheInv, KindInv, AtPost, [Next]_vars, Start
  PROVE  Fewer
<1>1. PICK s \in Group : Begun(s)
  BY Starting, NextInv
<1>2. /\ ldap' = ldap /\ seen' = seen /\ job'.item = s /\ job'.id \in {0, seen[s].id, ldap[s].id}
      /\ job'.new = ldap[s]
  BY <1>1 DEF Begun, Still
<1>3. ASSUME NEW g \in Group PROVE Holds(g)' \subseteq Holds(g)
  <2>1. CASE Excused(g)
    BY <2>1, ExcusedStays DEF Holds
  <2>2. CASE ~Excused(g)
    <3> HIDE DEF Excused
    <3>1. Holds(g)' \subseteq ({ldap'[g].id, seen'[g].id} \cup (IF busy' /\ job'.item = g THEN {job'.id, job'.new.id} ELSE {})) \ {0}
      BY DEF Holds
    <3> QED BY <1>2, <2>2, <3>1 DEF Holds
  <2> QED BY <2>1, <2>2
<1> QED BY <1>3 DEF Fewer

\* The call ends, and nothing is written but the alias.
Ended ==
  /\ busy /\ Return
  /\ \A g \in Group : /\ ldap'[g].id = ldap[g].id /\ ldap'[g].life = ldap[g].life
                      /\ Watched(ldap'[g]) = Watched(ldap[g])
  /\ Finish \/ Raising \/ Ignore

LEMMA Ends ==
  ASSUME IInv, Calm', (busy /\ (Finish \/ Raising \/ Ignore)) \/ Fails
  PROVE  Ended
<1>1. ~Fails
  BY DEF Calm, Fails
<1>2. CASE Closing
  BY <1>1, <1>2 DEF Ended, Closing
<1>3. CASE Ignore /\ busy /\ ~Closing
  <2>1. Return /\ ldap' = [ldap EXCEPT ![job.group].alias = TRUE]
    BY <1>3, Ignoring
  <2>2. ASSUME NEW g \in Group
        PROVE  /\ ldap'[g].id = ldap[g].id /\ ldap'[g].life = ldap[g].life
               /\ Watched(ldap'[g]) = Watched(ldap[g])
    <3>1. ldap[g] \in Entry /\ ldap \in [Group -> Entry]
      BY Kept
    <3>2. ldap'[g] = ldap[g] \/ ldap'[g] = [ldap[g] EXCEPT !.alias = TRUE]
      BY <2>1, <3>1
    <3> QED BY <3>1, <3>2 DEF Entry, Watched
  <2> QED BY <1>3, <2>1, <2>2 DEF Ended
<1> QED BY <1>1, <1>2, <1>3, Ending

\* Where a call ends, the group that is changed has its new name.
LEMMA EndNamed ==
  ASSUME IInv, CacheInv, KindInv, FreshInv, NameInv, Ended, Own, job.new.life = "here",
         NEW i \in Holds(job.item)
  PROVE  azure[i].name \in {job.new.name, Renamed, Gone}
<1>1. SUFFICES ASSUME seen[job.item].name # job.new.name, job.pc \in (Changing \cup {"get"}) \ {"forget"}
               PROVE  FALSE
  BY DEF NameInv, Renaming
<1>2. job.pc \in {"gather", "remove"} /\ \E x \in job.todo : TRUE
  <2>1. CASE Finish \/ Ignore
    BY <1>1, <2>1 DEF Finish, Ignore, Changing
  <2>2. CASE Raising
    BY <1>1, <2>2 DEF Raising, WriteGone, NestedUnknown, GatherUnknown, RemoveStranger,
       ForgetNothing, ArchiveNothing, JoinGone, Changing
  <2> QED BY <2>1, <2>2 DEF Ended
<1>3. /\ job.old = seen[job.item] /\ Here(job.item) /\ job.new.name = ldap[job.item].name
      /\ job.new.users = ldap[job.item].users /\ job.new.groups = ldap[job.item].groups
      /\ job.item \in Group
  BY DEF FreshInv, Fresh, Watched, CacheInv, InHand, Own, Here
<1>4. job.old.life = "here"
  BY <1>2 DEF KindInv, Creation
<1>5. job.new.users = job.old.users /\ job.new.groups = job.old.groups
  BY <1>1, <1>3, <1>4 DEF FreshInv, OneChange
<1>6. job.todo \subseteq (job.new.groups \ job.old.groups) \cup Removed
  BY <1>2 DEF KindInv
<1> QED BY <1>2, <1>5, <1>6 DEF Removed

LEMMA EndHolds ==
  ASSUME IInv, CacheInv, KindInv, FreshInv, NameInv, [Next]_vars, Ended, NEW g \in Group
  PROVE  Holds(g)' \subseteq Holds(g)
<1>1. CASE Excused(g)
  BY <1>1, ExcusedStays DEF Holds, NameInv
<1>2. CASE ~Excused(g)
  <2>1. ~busy' /\ (seen'[g].id = seen[g].id \/ (job.item = g /\ seen'[g].id = job.new.id))
    BY Kept DEF Ended, Return, busy
  <2>2. ldap'[g].id = ldap[g].id
    BY DEF Ended
  <2> HIDE DEF Excused
  <2>3. Holds(g)' \subseteq {ldap'[g].id, seen'[g].id} \ {0}
    BY <2>1 DEF Holds
  <2> QED BY <1>2, <2>1, <2>2, <2>3 DEF Holds, Ended
<1> QED BY <1>1, <1>2

LEMMA EndBuried ==
  ASSUME IInv, CacheInv, KindInv, FreshInv, NameInv, Ended, Own, job.new.life = "gone",
         NEW g \in Group, g = job.item, NEW i \in Holds(g)', i \in Holds(g)
  PROVE  azure[i].name \in {Renamed, Gone}
<1>1. job.pc \in Burial \cup {"done"} /\ job.old = seen[g]
  BY DEF KindInv, CacheInv, InHand, Own
<1>2. ~Excused(g) /\ ~Excused(g)' /\ i # 0
  BY DEF Holds
<1>3. CASE Finish
  <2>1. seen'[g] = job.new /\ ~busy' /\ ldap'[g].id = ldap[g].id
    BY Kept DEF Ended, Return, Own, busy
  <2>2. job.new.id = ldap[g].id /\ seen[g].id = ldap[g].id
    BY DEF FreshInv, Fresh, Lives
  <2>3. i = ldap[g].id
    <3> HIDE DEF Excused
    <3> QED BY <1>2, <2>1, <2>2 DEF Holds
  <2>4. job.pc = "done"
    BY <1>3 DEF Finish
  <2> QED BY <1>1, <1>2, <2>2, <2>3, <2>4 DEF NameInv, Burying
<1>4. CASE Raising
  <2>1. ArchiveNothing
    BY <1>1, <1>4 DEF Raising, WriteGone, NestedUnknown, GatherUnknown, RemoveStranger,
       ForgetNothing, ArchiveNothing, JoinGone, Burial
  <2>2. <<g, "unformed">> \in owed' /\ seen'[g] = job.new
    BY <2>1, Kept DEF ArchiveNothing, Raise, Return, Own, CacheInv, InHand
  <2> QED BY <1>2, <2>2 DEF Excused
<1>5. ~Ignore
  BY <1>1 DEF Ignore, Burial
<1> QED BY <1>3, <1>4, <1>5 DEF Ended

LEMMA HeldEnds ==
  ASSUME IInv, IInv', CacheInv, KindInv, FreshInv, NameInv, [Next]_vars, Ended
  PROVE  NameHeld' /\ HeldOnce'
<1>1. Fewer
  BY EndHolds DEF Fewer
<1>2. azure' = azure
  BY DEF Ended, Return
<1>3. \A k \in Group : (Here(k)' <=> Here(k)) /\ ldap'[k].name = ldap[k].name
  BY DEF Ended, Here, Watched
<1>4. CASE ~Own
  <2>1. seen' = seen
    BY <1>4, Fields DEF Ended, Return, Own, IInv
  <2>2. \A g \in Group : Claim(g) \subseteq Claim(g)'
    BY <1>3, <2>1, ClaimStill
  <2> QED BY <1>1, <1>2, <2>2, HeldOnceFewer, NameHeldGiven DEF NameInv
<1>5. CASE Own
  <2>1. ASSUME NEW g \in Group, NEW i \in Holds(g)'
        PROVE  azure'[i].name \in Claim(g)' \cup {Renamed, Gone}
    <3>1. i \in Holds(g)
      BY <1>1 DEF Fewer
    <3>2. CASE g # job.item
      <4>1. Claim(g) \subseteq Claim(g)'
        BY <1>3, <1>5, <3>2, ClaimReturn DEF Ended
      <4> QED BY <1>2, <3>1, <4>1 DEF NameInv, NameHeld
    <3>3. CASE g = job.item /\ job.new.life = "here"
      <4>1. azure[i].name \in {job.new.name, Renamed, Gone}
        BY <1>5, <3>1, <3>3, EndNamed
      <4>2. job.new.name \in Claim(g)'
        BY <1>5, <3>3, ClaimReturned DEF Ended
      <4> QED BY <1>2, <4>1, <4>2
    <3>4. CASE g = job.item /\ job.new.life = "gone"
      BY <1>2, <1>5, <3>1, <3>4, EndBuried
    <3>5. job.new.life \in {"here", "gone"}
      BY <1>5 DEF KindInv
    <3> QED BY <3>2, <3>3, <3>4, <3>5
  <2>2. NameHeld'
    BY <2>1 DEF NameHeld
  <2> QED BY <1>1, <2>2, HeldOnceFewer DEF NameInv
<1> QED BY <1>4, <1>5

LEMMA PurgeNames ==
  ASSUME IInv, Purge \/ Clean, NEW i \in DOMAIN azure
  PROVE  i \in DOMAIN azure' /\ (azure'[i].name = azure[i].name \/ azure'[i].name \in {Renamed, Gone})
         /\ (azure[i].name = Gone => azure'[i].name = Gone)
<1>0. azure \in Seq(AzureGroup) /\ azure[i] \in AzureGroup /\ DOMAIN azure = 1 .. Len(azure)
  BY Kept
<1>1. CASE Purge
  <2>1. PICK k \in DOMAIN azure : azure' = [azure EXCEPT ![k].name = Gone]
    BY <1>1 DEF Purge
  <2> QED BY <1>0, <2>1 DEF AzureGroup
<1>2. CASE Clean
  <2>1. azure'[i].name = IF azure[i].name = Gone THEN Gone ELSE Renamed
    BY <1>0, <1>2 DEF Clean, AzureGroup
  <2> QED BY <1>0, <1>2, <2>1 DEF Clean
<1> QED BY <1>1, <1>2

LEMMA RunJobNames == ASSUME IInv, RunJob PROVE NamesStay
<1> DEFINE j == Head(jobs)
<1>1. j.id \in 1 .. Len(azure) /\ azure[j.id] \in AzureGroup
  <2>1. jobs # <<>> /\ 1 \in DOMAIN jobs /\ jobs[1] = Head(jobs)
    BY Kept DEF RunJob
  <2>2. Known(jobs[1].id, Len(azure)) /\ jobs[1].id # 0
    BY <2>1 DEF IInv, IdsOfGroups
  <2>3. j.id \in 1 .. Len(azure)
    BY <2>1, <2>2 DEF Known
  <2> QED BY <2>3, Kept
<1>2. azure' = azure \/ \E r : SetGroup(j.id, r) /\ r.name = azure[j.id].name
  <2>1. \A O, t : [azure[j.id] EXCEPT !.owners = O, !.team = t].name = azure[j.id].name
    BY <1>1 DEF AzureGroup
  <2>2. CASE azure' # azure
    <3>1. \E O, t : SetGroup(j.id, [azure[j.id] EXCEPT !.owners = O, !.team = t])
      BY <2>2 DEF RunJob
    <3> QED BY <2>1, <3>1
  <2> QED BY <2>2
<1>3. CASE \E r : SetGroup(j.id, r) /\ r.name = azure[j.id].name
  BY <1>1, <1>3, SetNames DEF NamesBut, NamesStay
<1>4. CASE azure' = azure
  BY <1>4 DEF NamesStay
<1> QED BY <1>2, <1>3, <1>4

LEMMA HeldNext ==
  ASSUME IInv, IInv', CacheInv, KindInv, FreshInv, NameInv, [Next]_vars, Calm'
  PROVE  NameHeld' /\ HeldOnce'
<1> USE DEF NameInv
<1>1. CASE \E g \in Group, e \in Entry : Edit(g, e)
  <2>1. PICK g \in Group, e \in Entry : Edit(g, e)
    BY <1>1
  <2>2. /\ ldap'[g] = e /\ \A h \in Group : h # g => ldap'[h] = ldap[h]
        /\ UNCHANGED <<seen, azure, job, owed>>
    BY <2>1, CalmPut
  <2>3. e.id \in {0, ldap[g].id}
    BY <2>1 DEF Edit
  <2>4. Fewer
    BY <2>2, <2>3, FewerStill DEF Own, busy
  <2>5. NamesStay
    BY <2>2 DEF NamesStay
  <2>6. \A h \in Group : Claim(h) \subseteq Claim(h)'
    BY <2>1, ClaimEdit
  <2> QED BY <2>4, <2>5, <2>6, HeldOnceFewer, NameHeldFewer
<1>2. CASE (\E u \in User : Switch(u)) \/ Disable \/ Ignored \/ RunJob \/ Crash \/ UNCHANGED vars
  <2>1. ldap' = ldap /\ seen' = seen /\ (job' = job \/ ~busy')
    BY <1>2 DEF Switch, Change, Disable, Ignored, RunJob, Crash, vars, busy
  <2>2. Fewer
    BY <2>1, FewerStill DEF Own, busy
  <2>3. NamesStay
    <3>1. CASE azure' = azure
      BY <3>1 DEF NamesStay
    <3>2. CASE Disable
      <4>1. \A i \in DOMAIN azure : i \in DOMAIN azure' /\ azure'[i] = [azure[i] EXCEPT !.members = @ \ {queue[1]}]
        BY <3>2 DEF Disable
      <4>2. \A i \in DOMAIN azure : azure[i] \in AzureGroup
        BY Kept
      <4>3. \A i \in DOMAIN azure : azure'[i].name = azure[i].name
        BY <4>1, <4>2 DEF AzureGroup
      <4> QED BY <4>1, <4>3 DEF NamesStay
    <3>3. CASE RunJob
      BY <3>3, RunJobNames
    <3> QED BY <1>2, <3>1, <3>2, <3>3 DEF Switch, Change, Ignored, Crash, vars
  <2>4. \A h \in Group : Claim(h) \subseteq Claim(h)'
    BY <2>1, ClaimStill DEF Here
  <2> QED BY <2>2, <2>3, <2>4, HeldOnceFewer, NameHeldFewer
<1>3. CASE Purge \/ Clean
  <2>1. ldap' = ldap /\ seen' = seen /\ job' = job
    BY <1>3 DEF Purge, Clean
  <2>2. Fewer
    BY <2>1, FewerStill DEF Own, busy
  <2>3. \A h \in Group : Claim(h) \subseteq Claim(h)'
    BY <2>1, ClaimStill DEF Here
  <2>4. \A g \in Group : \A i \in Holds(g) :
           azure'[i].name = azure[i].name \/ azure'[i].name \in Claim(g)' \cup {Renamed, Gone}
    BY <1>3, HoldsThere, PurgeNames
  <2> QED BY <2>2, <2>3, <2>4, HeldOnceFewer, NameHeldGiven
<1>4. CASE Start
  <2>1. ldap' = ldap /\ seen' = seen /\ azure' = azure
    BY <1>4 DEF Start
  <2>2. NamesStay /\ \A h \in Group : Claim(h) \subseteq Claim(h)'
    BY <2>1, ClaimStill DEF Here, NamesStay
  <2> QED BY <1>4, <2>2, FewerStart, HeldOnceFewer, NameHeldFewer
<1>5. CASE Enable
  <2>1. ldap' = ldap /\ seen' = seen /\ azure' = azure /\ ~Own'
    BY <1>5, Enabling, GroupOrUser DEF Own, Still
  <2>2. NamesStay /\ \A h \in Group : Claim(h) \subseteq Claim(h)'
    BY <2>1, ClaimStill DEF Here, NamesStay
  <2>3. Fewer
    BY <2>1, FewerStill
  <2> QED BY <2>2, <2>3, HeldOnceFewer, NameHeldFewer
<1>6. CASE busy /\ Advancing
  <2>1. CASE Renames
    BY <1>6, <2>1, HeldRenames
  <2>2. CASE job.pc = "write"
    BY <1>6, <2>2, GoesOnFrom, HeldWrite
  <2>3. CASE job.pc # "write" /\ NamesStay
    <3>1. Onward
      BY <1>6, AdvancingStep
    <3>2. Own' => Own /\ job'.item = job.item /\ job'.id = job.id /\ job'.new.id = job.new.id
      BY <2>3, <3>1 DEF Onward, Keeps, Own, CacheInv, InHand
    <3>3. Still \/ Given(job.group, 0)
      BY <1>6, <2>3, StillUnless, GoesOnFrom, ForgetData
    <3>4. job.group \in Group
      BY <1>6, Fields DEF IInv
    <3>5. \A g \in Group : /\ ldap'[g].id \in {0, ldap[g].id} /\ seen'[g].id = seen[g].id
                           /\ ldap'[g].life = ldap[g].life /\ Watched(ldap'[g]) = Watched(ldap[g])
      BY <3>3, <3>4, Gives DEF Still, Given
    <3>6. Fewer
      BY <3>2, <3>5, FewerStill
    <3>7. \A h \in Group : Claim(h) \subseteq Claim(h)'
      <4>1. seen' = seen
        BY <3>3 DEF Still, Given
      <4> QED BY <3>5, <4>1, ClaimStill DEF Here, Watched
    <3> QED BY <2>3, <3>6, <3>7, HeldOnceFewer, NameHeldFewer
  <2> QED BY <1>6, <2>1, <2>2, <2>3, NamesAdvance
<1>7. CASE (busy /\ (Finish \/ Raising \/ Ignore)) \/ Fails
  BY <1>7, Ends, HeldEnds
<1> QED BY <1>1, <1>2, <1>3, <1>4, <1>5, <1>6, <1>7, Kinds

-----------------------------------------------------------------------------
(* Above, AtGet and AtPost.                                                *)

\* Only a change made from outside, the module's own writing and the end of a
\* call touch what is in LDAP or in the cache.
LEMMA EntriesStay ==
  ASSUME IInv, IInv', busy, Advancing
  PROVE  /\ seen' = seen
         /\ \A g \in Group : /\ ldap'[g].life = ldap[g].life /\ Watched(ldap'[g]) = Watched(ldap[g])
                             /\ (Here(g)' <=> Here(g)) /\ ldap'[g].name = ldap[g].name
<1>1. Still \/ Given(job.target, job.made) \/ Given(job.group, 0)
  BY StillUnless, GoesOnFrom, WriteData, ForgetData
<1>2. job.target \in Group /\ job.group \in Group
  BY Fields DEF IInv
<1>3. \A g \in Group : ldap'[g].life = ldap[g].life /\ Watched(ldap'[g]) = Watched(ldap[g])
  BY <1>1, <1>2, Gives DEF Still
<1> QED BY <1>1, <1>3 DEF Still, Given, Here, Watched

LEMMA AboveAdvance ==
  ASSUME IInv, busy, Advancing
  PROVE  job'.above \subseteq job.above \cup {p \in Group : Here(p)}
<1>0. job \in Job
  BY Fields DEF IInv
<1>1. CASE PostNew \/ PostTake \/ Write \/ JoinTeam \/ AddMembers \/ Convert
  BY <1>0, <1>1 DEF PostNew, PostTake, Write, JoinTeam, AddMembers, Convert, Goto, Job
<1>2. CASE CreateParent \/ Created
  <2>1. Parents \subseteq job.above \cup {p \in Group : Here(p)}
    BY DEF Parents
  <2>2. CASE CreateParent
    <3>1. PICK p \in Missing : job' = [job EXCEPT !.pc = "post", !.target = p, !.cur = ldap[p],
                                                  !.above = Parents \ {p}]
      BY <2>2 DEF CreateParent
    <3>2. job'.above = Parents \ {p}
      BY <1>0, <3>1 DEF Job
    <3> QED BY <2>1, <3>2
  <2>3. CASE Created
    BY <1>0, <2>3 DEF Created, Job
  <2> QED BY <1>2, <2>2, <2>3
<1>3. CASE Lost \/ Get \/ Revive \/ AddOwners \/ Disown \/ CheckTeam
  BY <1>0, <1>3 DEF Lost, Get, Revive, AddOwners, Disown, CheckTeam, Goto, Job
<1>4. CASE Gather
  <2>1. PICK h \in job.todo \cap Group :
          \/ job' = [job EXCEPT !.pc = "post", !.todo = @ \ {h}, !.target = h,
                                !.cur = ldap[h], !.then = "gather"]
          \/ job' = [job EXCEPT !.todo = @ \ {h}]
    BY <1>4 DEF Gather
  <2> QED BY <1>0, <2>1 DEF Job
<1>5. CASE AddNew \/ RemoveMember \/ RemoveEmpty \/ KeepGroup \/ Forget \/ UpdateName
  BY <1>0, <1>5 DEF AddNew, RemoveMember, RemoveEmpty, KeepGroup, Forget, UpdateName, Goto, Drop, Job
<1>6. CASE Archive \/ Clear \/ Bury \/ Joined
  BY <1>0, <1>6 DEF Archive, Clear, Bury, Joined, Goto, Job
<1>7. CASE Join
  <2>1. PICK h \in job.todo \cap Group :
          \/ job' = [job EXCEPT !.pc = "post", !.todo = @ \ {h}, !.group = h, !.new = ldap[h],
                                !.target = h, !.cur = ldap[h], !.then = "convert"]
          \/ job' = [job EXCEPT !.todo = @ \ {h}]
    BY <1>7 DEF Join, JoinNew, JoinGroup, Drop
  <2> QED BY <1>0, <2>1 DEF Job
<1> QED BY <1>1, <1>2, <1>3, <1>4, <1>5, <1>6, <1>7 DEF Advancing

\* What a step changes that belongs to no call's own work.
LEMMA Elsewhere ==
  ASSUME IInv, IInv', CacheInv, FreshInv, Calm', [Next]_vars
  PROVE  \/ busy /\ Advancing
         \/ ~busy /\ busy' /\ Start
         \/ ~busy /\ busy' /\ Enable
         \/ ~busy'
         \/ /\ busy' /\ busy /\ job' = job /\ seen' = seen
            /\ NamesStay /\ Head(queue') = Head(queue) /\ queue' # <<>>
            /\ ldap' = ldap \/ \E g \in Group : /\ g \notin Range(queue)
                                                /\ \A h \in Group : h # g => ldap'[h] = ldap[h]
                                                /\ \E e \in Entry : Edit(g, e)
<1>0. busy => queue # <<>>
  BY DEF IInv, Steps
<1>1. CASE \E g \in Group, e \in Entry : Edit(g, e)
  <2>1. PICK g \in Group, e \in Entry : Edit(g, e)
    BY <1>1
  <2>2. /\ g \notin Range(queue) /\ queue' = Notify(g) /\ ldap'[g] = e
        /\ \A h \in Group : h # g => ldap'[h] = ldap[h]
        /\ UNCHANGED <<seen, job, azure>>
    BY <2>1, CalmPut
  <2>3. busy => Head(queue') = Head(queue) /\ queue' # <<>>
    BY <1>0, <2>2, Notified
  <2>4. NamesStay /\ (busy' <=> busy)
    BY <2>2 DEF NamesStay, busy
  <2> QED BY <2>1, <2>2, <2>3, <2>4
<1>2. CASE \E u \in User : Switch(u)
  <2>1. PICK u \in User : Switch(u)
    BY <1>2
  <2>2. queue' = Notify(u) /\ UNCHANGED <<seen, job, azure, ldap>>
    BY <2>1 DEF Switch, Change
  <2>3. busy => Head(queue') = Head(queue) /\ queue' # <<>>
    BY <1>0, <2>2, Notified
  <2>4. NamesStay /\ (busy' <=> busy)
    BY <2>2 DEF NamesStay, busy
  <2> QED BY <2>2, <2>3, <2>4
<1>3. CASE RunJob
  <2>1. UNCHANGED <<ldap, seen, queue, job>>
    BY <1>3 DEF RunJob
  <2>2. NamesStay
    BY <1>3, RunJobNames
  <2> QED BY <1>0, <2>1, <2>2 DEF busy
<1>4. CASE UNCHANGED vars
  BY <1>0, <1>4 DEF vars, NamesStay, busy
<1>5. CASE Purge \/ Clean \/ Disable \/ Ignored \/ Crash
  BY <1>5 DEF Purge, Clean, Disable, Ignored, Crash, busy
<1>6. CASE Start
  BY <1>6, Starting DEF Begun
<1>7. CASE Enable
  BY <1>7, Enabling
<1>8. CASE (busy /\ (Finish \/ Raising \/ Ignore)) \/ Fails
  BY <1>8, Ends DEF Ended, Return, busy
<1> QED BY <1>1, <1>2, <1>3, <1>4, <1>5, <1>6, <1>7, <1>8, Kinds

LEMMA AboveNext ==
  ASSUME IInv, IInv', CacheInv, FreshInv, Above, [Next]_vars, Calm'
  PROVE  Above'
<1>1. CASE busy /\ Advancing
  <2>1. job'.above \subseteq job.above \cup {p \in Group : Here(p)} /\ job.above \subseteq Group
    BY <1>1, AboveAdvance, Fields DEF IInv
  <2> QED BY <1>1, <2>1, EntriesStay DEF Above, FreshInv, Lives, Here
<1>2. CASE Start
  BY <1>2, Starting DEF Begun, Above
<1>3. CASE Enable
  BY <1>3, Enabling DEF Above
<1>4. CASE /\ busy /\ job' = job /\ seen' = seen
           /\ ldap' = ldap \/ \E g \in Group : /\ \A h \in Group : h # g => ldap'[h] = ldap[h]
                                               /\ \E e \in Entry : Edit(g, e)
  <2>0. job.above \subseteq Group
    BY <1>4, Fields DEF IInv
  <2>1. CASE ldap' = ldap
    BY <1>4, <2>1 DEF Above, busy
  <2>2. CASE \E g \in Group : (\A h \in Group : h # g => ldap'[h] = ldap[h]) /\ \E e \in Entry : Edit(g, e)
    <3>1. PICK g \in Group, e \in Entry : (\A h \in Group : h # g => ldap'[h] = ldap[h]) /\ Edit(g, e)
      BY <2>2
    <3>2. ldap'[g].life # "none"
      BY <3>1, CalmPut DEF Edit
    <3> QED BY <1>4, <2>0, <3>1, <3>2 DEF Above, busy
  <2> QED BY <1>4, <2>1, <2>2
<1> QED BY <1>1, <1>2, <1>3, <1>4, Elsewhere DEF Above

LEMMA AtGetNext ==
  ASSUME IInv, IInv', CacheInv, FreshInv, AtGet, [Next]_vars, Calm'
  PROVE  AtGet'
<1>1. CASE busy /\ Advancing
  <2>1. job'.pc # "get"
    <3>1. Onward /\ job.pc \in PC /\ job.then \in {"convert", "owners", "gather"}
      BY <1>1, AdvancingStep, Fields DEF IInv
    <3> QED BY <3>1 DEF Onward, Flow, PC
  <2> QED BY <2>1 DEF AtGet
<1>2. CASE Start
  <2>1. PICK g \in Group : Begun(g)
    BY <1>2, Starting
  <2>2. CASE job'.pc = "get"
    BY <2>1, <2>2 DEF Begun, AtGet, Still
  <2> QED BY <2>2 DEF AtGet
<1>3. CASE Enable
  BY <1>3, Enabling DEF AtGet
<1>4. CASE /\ busy /\ job' = job
           /\ ldap' = ldap \/ \E g \in Group : g \notin Range(queue) /\ \A h \in Group : h # g => ldap'[h] = ldap[h]
  <2>1. job.item \in Range(queue) /\ (Own' <=> Own)
    BY <1>4, HeadWaits DEF Own, busy
  <2> QED BY <1>4, <2>1 DEF AtGet, Own
<1> QED BY <1>1, <1>2, <1>3, <1>4, Elsewhere DEF AtGet, Own

\* The objectIds of a call are those of groups.
LEMMA CallIds ==
  ASSUME IInv, CacheInv, busy
  PROVE  /\ job.id # 0 => job.id \in DOMAIN azure
         /\ Own /\ job.old.id # 0 => job.old.id \in DOMAIN azure
         /\ job.pc \in {"write", "team", "members"} => job.made \in DOMAIN azure
<1>1. azure \in Seq(AzureGroup) /\ DOMAIN azure = 1 .. Len(azure)
  BY Kept
<1>2. Own => job.old = seen[job.item] /\ job.item \in Group
  BY DEF CacheInv, InHand, Own
<1>3. Own => job.old.id \in 0 .. Len(azure)
  BY <1>2 DEF IInv, IdsOfGroups, Known
<1> QED BY <1>1, <1>3, Mine

\* What was found out about the group that is created stays true.
LEMMA PostKept ==
  ASSUME IInv, CacheInv, AtPost, busy, busy', seen' = seen, NamesStay,
         job'.item = job.item, job'.target = job.target, job'.cur = job.cur, job'.new = job.new,
         job'.old = job.old, job'.id = job.id, job'.then = job.then,
         job.pc \in {"post", "write"}, job'.pc \in {"post", "write"},
         job'.pc = "write" => azure'[job'.made].name = job.cur.name,
         NEW t \in Group, t = job.target, ldap'[t].life # "none", ldap'[t].id = ldap[t].id,
         ldap'[t].name = ldap[t].name \/ (seen[t].life # "none" /\ seen[t].id = 0),
         Claim(t) \subseteq Claim(t)'
  PROVE  AtPost'
<1>1. /\ seen[t].life # "gone" /\ job.cur.id = ldap[t].id /\ job.cur.name \in Claim(t)
      /\ (seen[t].life = "none" \/ seen[t].id # 0) => job.cur.name = ldap[t].name
      /\ t # job.item => job.cur.id = 0
      /\ Own /\ t = job.item =>
           /\ job.cur.name = job.new.name
           /\ job.then # "gather"
           /\ job.old.id = 0 \/ azure[job.old.id].name = Gone
           /\ job.id = 0 \/ azure[job.id].name = Gone
  BY DEF AtPost, Creation
<1>2. Own' <=> Own
  BY DEF Own
<1>3. Own /\ t = job.item =>
        /\ job.old.id = 0 \/ azure'[job.old.id].name = Gone
        /\ job.id = 0 \/ azure'[job.id].name = Gone
  BY <1>1, CallIds DEF NamesStay
<1>4. job.cur.name \in Claim(t)'
  BY <1>1
<1>5. job'.target = t /\ job'.cur.name = job.cur.name
  OBVIOUS
<1>6. job'.cur.name \in Claim(job.target)'
  BY <1>4, <1>5 DEF Claim, Here
<1> QED BY <1>1, <1>2, <1>3, <1>5, <1>6 DEF AtPost, Creation

LEMMA PostAdvance ==
  ASSUME IInv, IInv', CacheInv, KindInv, FreshInv, NameInv, [Next]_vars, Calm', busy, Advancing
  PROVE  AtPost'
<1> USE DEF NameInv
<1>0. /\ Onward /\ job \in Job /\ job.target \in Group /\ job.pc \in PC
      /\ job.then \in {"convert", "owners", "gather"}
  BY AdvancingStep, Fields DEF IInv
<1>1. CASE job.pc = "post"
  <2>1. PICK t \in Group : t = job.target
    BY <1>0
  <2>2. Still /\ NamesStay
    BY <1>1, StillUnless, NamesAdvance DEF Renames
  <2>3. job'.pc = "write" /\ busy'
    BY <1>0, <1>1 DEF Onward, Flow
  <2>4. /\ job'.item = job.item /\ job'.target = job.target /\ job'.cur = job.cur /\ job'.new = job.new
        /\ job'.old = job.old /\ job'.id = job.id /\ job'.then = job.then
    BY <1>0, <1>1, <2>3 DEF Onward, Keeps
  <2>5. azure'[job'.made].name = job.cur.name
    BY <1>1, GoesOnFrom, Finding
  <2>6. Claim(t) \subseteq Claim(t)'
    BY <2>2, ClaimStill DEF Still, Here
  <2>7. ldap'[t].life # "none" /\ ldap'[t].id = ldap[t].id /\ ldap'[t].name = ldap[t].name /\ seen' = seen
    BY <1>1, <2>1, <2>2 DEF Still, AtPost, Creation
  <2> QED BY <1>1, <2>1, <2>2, <2>3, <2>4, <2>5, <2>6, <2>7, PostKept
<1>2. CASE job.pc \in {"write", "team", "members"}
  <2>1. job'.pc \in {"team", "members", "parents"} /\ job'.target = job.target
    BY <1>0, <1>2 DEF Onward, Flow, Keeps
  <2> QED BY <1>0, <1>2, <2>1, EntriesStay DEF AtPost, Creation
<1>3. CASE job.pc \in {"parents", "gather", "join"} /\ job'.pc = "post"
  <2>1. PICK g \in Group : /\ job'.target = g /\ job'.cur = ldap[g] /\ ldap[g].id = 0
                           /\ ldap[g].life # "none" /\ seen[g].life # "gone"
                           /\ ~Early(g) /\ (job.pc = "gather" => g \in job.todo)
    BY <1>3, Posting
  <2>2. Still
    BY <1>3, StillUnless
  <2>3. ldap[g].name \in Claim(g)
    BY <2>1, ClaimLate
  <2>4. Claim(g) \subseteq Claim(g)'
    BY <2>2, ClaimStill DEF Still, Here
  <2>5. job'.cur.name \in Claim(job.target)'
    <3>1. ldap[g].name \in Claim(g)'
      BY <2>3, <2>4
    <3> QED BY <2>1, <3>1 DEF Claim, Here
  <2>6. job'.item = job.item /\ (Own' => Own)
    BY <1>0 DEF Onward, Keeps, Own
  <2>7. ~(Own /\ g = job.item)
    <3>1. CASE job.pc = "parents"
      BY <2>1, <3>1 DEF AfterWrite, Creation
    <3>2. CASE job.pc = "gather"
      BY <2>1, <3>2 DEF AfterWrite, Changing, KindInv
    <3>3. CASE job.pc = "join"
      BY <3>3 DEF CacheInv, InHand, Own
    <3> QED BY <1>3, <3>1, <3>2, <3>3
  <2> QED BY <1>3, <2>1, <2>2, <2>5, <2>6, <2>7 DEF Still, AtPost
<1>4. CASE job.pc = "get" /\ job'.pc = "post"
  <2>1. azure[job.id].name = Gone
    BY <1>4, Getting
  <2>2. Still /\ NamesStay
    BY <1>4, StillUnless, NamesAdvance DEF Renames
  <2>3. Own
    BY <1>4, OwnCall DEF Creation
  <2>4. /\ job'.item = job.item /\ job'.target = job.target /\ job'.cur = job.cur /\ job'.new = job.new
        /\ job'.old = job.old /\ job'.id = job.id /\ job'.then = job.then
    BY <1>0, <1>4 DEF Onward, Keeps
  <2>5. PICK g \in Group : g = job.item
    BY <2>3 DEF Own
  <2>6. /\ job.target = g /\ job.cur = job.new /\ job.new.id = ldap[g].id /\ job.then = "owners"
        /\ job.id = IF job.old.id # 0 THEN job.old.id ELSE job.new.id
    BY <1>4, <2>3, <2>5 DEF AtGet
  <2>7. job.new.life = "here" /\ seen[g].life = "here"
    BY <1>4, <2>3, <2>5, <2>6 DEF KindInv, CacheInv, InHand, Creation, Burial, Own
  <2>8. job.new.name \in Claim(g) /\ job.new.name = ldap[g].name /\ Here(g)
    BY <2>3, <2>5, <2>7, ClaimOwn
  <2>9. job'.cur.name \in Claim(job.target)'
    <3>1. Claim(g) \subseteq Claim(g)'
      BY <2>2, ClaimStill DEF Still, Here
    <3>2. job.new.name \in Claim(g)'
      BY <2>8, <3>1
    <3> QED BY <2>4, <2>6, <3>2 DEF Claim, Here
  <2>10. job.id # 0 /\ job.id \in DOMAIN azure
    BY <1>4, CallIds, Mine DEF Loose
  <2>11. (job.old.id = 0 \/ azure'[job.old.id].name = Gone) /\ azure'[job.id].name = Gone
    BY <2>1, <2>2, <2>6, <2>10 DEF NamesStay
  <2> QED BY <1>4, <2>2, <2>4, <2>5, <2>6, <2>7, <2>8, <2>9, <2>11 DEF Still, AtPost, Here
<1>5. CASE ~ job'.pc \in Creation
  BY <1>5 DEF AtPost
<1> QED BY <1>0, <1>1, <1>2, <1>3, <1>4, <1>5 DEF Onward, Flow, Creation, PC

LEMMA AtPostNext ==
  ASSUME IInv, IInv', CacheInv, KindInv, FreshInv, NameInv, [Next]_vars, Calm'
  PROVE  AtPost'
<1>1. CASE busy /\ Advancing
  BY <1>1, PostAdvance
<1>2. CASE Start
  <2>1. PICK g \in Group : Begun(g)
    BY <1>2, Starting
  <2>2. CASE job'.pc \in Creation
    <3>1. /\ job'.pc = "post" /\ Here(g) /\ job'.then # "gather" /\ seen[g].life # "gone"
          /\ seen[g].id = 0 /\ job'.id = 0
      BY <2>1, <2>2 DEF Begun, Creation, FreshInv, Lives, Nothing
    <3>2. /\ job'.item = g /\ job'.target = g /\ job'.cur = ldap[g] /\ job'.new = ldap[g]
          /\ job'.old = seen[g] /\ queue # <<>> /\ Head(queue) = g /\ ldap' = ldap /\ seen' = seen
      BY <2>1 DEF Begun, Still
    <3>3. ldap[g].name \in Claim(g)
      BY <3>1, <3>2, ClaimFirst
    <3>4. job'.cur.name \in Claim(job.target)'
      BY <3>2, <3>3 DEF Claim, Here
    <3> QED BY <3>1, <3>2, <3>4 DEF AtPost, Here
  <2> QED BY <2>2 DEF AtPost
<1>3. CASE Enable
  BY <1>3, Enabling DEF AtPost, Creation
<1>4. CASE /\ busy /\ job' = job /\ seen' = seen /\ NamesStay
           /\ ldap' = ldap \/ \E g \in Group : /\ g \notin Range(queue)
                                               /\ \A h \in Group : h # g => ldap'[h] = ldap[h]
                                               /\ \E e \in Entry : Edit(g, e)
  <2>0. PICK t \in Group : t = job.target
    BY <1>4, Fields DEF IInv
  <2>1. CASE job.pc \in Creation
    <3>1. seen[t].life # "gone" /\ ldap[t].life # "none"
      BY <1>4, <2>0, <2>1 DEF NameInv, AtPost
    <3>2. /\ ldap'[t].life # "none" /\ Claim(t) \subseteq Claim(t)' /\ ldap'[t].id = ldap[t].id
          /\ \/ ldap'[t].name = ldap[t].name
             \/ seen[t] = ldap[t] /\ t # job.item
      <4>1. CASE ldap' = ldap
        BY <1>4, <3>1, <4>1, ClaimStill DEF Here
      <4>2. CASE \E g \in Group : /\ g \notin Range(queue)
                                  /\ \A h \in Group : h # g => ldap'[h] = ldap[h]
                                  /\ \E e \in Entry : Edit(g, e)
        <5>1. PICK g \in Group, e \in Entry :
                /\ g \notin Range(queue)
                /\ \A h \in Group : h # g => ldap'[h] = ldap[h]
                /\ Edit(g, e)
          BY <4>2
        <5>2. Claim(t) \subseteq Claim(t)'
          BY <5>1, ClaimEdit
        <5>3. ldap'[g] = e
          BY <5>1, CalmPut
        <5>4. CASE g # t
          BY <3>1, <5>1, <5>2, <5>4
        <5>5. CASE g = t
          <6>1. seen[t] = ldap[t] /\ t # job.item
            BY <1>4, <5>1, <5>5, HeadWaits DEF CacheInv, Settled
          <6>2. e.life # "none" /\ e.id = ldap[t].id
            BY <3>1, <5>1, <5>5 DEF Edit
          <6> QED BY <5>2, <5>3, <5>5, <6>1, <6>2
        <5> QED BY <5>4, <5>5
      <4> QED BY <1>4, <4>1, <4>2
    <3>3. CASE job.pc \in {"post", "write"}
      <4>1. seen[t] = ldap[t] /\ t # job.item => seen[t].life # "none" /\ seen[t].id = 0
        BY <1>4, <2>0, <3>1, <3>3 DEF NameInv, AtPost, Creation
      <4>2. job.pc = "write" => azure'[job.made].name = job.cur.name
        BY <1>4, CallIds DEF NameInv, AtPost, NamesStay, Creation
      <4>3. ldap'[t].name = ldap[t].name \/ (seen[t].life # "none" /\ seen[t].id = 0)
        BY <3>2, <4>1
      <4>4. /\ job'.item = job.item /\ job'.target = job.target /\ job'.cur = job.cur /\ job'.new = job.new
            /\ job'.old = job.old /\ job'.id = job.id /\ job'.then = job.then /\ job'.pc = job.pc
            /\ job'.made = job.made /\ busy'
        BY <1>4 DEF busy
      <4> QED BY <1>4, <2>0, <3>2, <3>3, <4>2, <4>3, <4>4, PostKept DEF NameInv
    <3>4. CASE job.pc \notin {"post", "write"}
      BY <1>4, <2>0, <3>1, <3>2, <3>4 DEF AtPost
    <3> QED BY <3>3, <3>4
  <2>2. CASE job.pc \notin Creation
    BY <1>4, <2>2 DEF AtPost
  <2> QED BY <2>1, <2>2
<1> QED BY <1>1, <1>2, <1>3, <1>4, Elsewhere DEF AtPost, NameInv

-----------------------------------------------------------------------------
(* AfterWrite.                                                             *)

\* The step of the call's own work at which it has its group.
Working ==
  \/ job.pc \in Changing \cup {"convert", "team", "members", "parents"}
  \/ job.pc \in {"post", "write"} /\ job.target # job.item

LEMMA WriteAfter ==
  ASSUME IInv, IInv', CacheInv, KindInv, NameInv, busy, Advancing, job.pc = "write", Own
  PROVE  /\ job'.pc = "team" /\ ldap'[job.item].id = job'.id /\ job'.id # 0
         /\ azure'[job'.id].name # Gone /\ job'.item = job.item
<1> USE DEF NameInv
<1>0. /\ job \in Job /\ Write /\ azure' = azure /\ job.made # 0 /\ job.item \in Group
      /\ job.group = job.item /\ job.target \in Group
  BY GoesOnFrom, Fields DEF IInv, Steps, Handling, Write, CacheInv, InHand, Own
<1>1. /\ job'.pc = "team" /\ job'.item = job.item
      /\ job'.id = IF job.target = job.group THEN job.made ELSE job.id
  BY <1>0 DEF Write, Job
<1>2. CASE job.target = job.item
  <2>1. job'.id = job.made
    BY <1>0, <1>1, <1>2
  <2>2. ldap'[job.item].id = job.made
    <3>1. CASE job.cur.id = job.made /\ Still
      BY <1>0, <1>2, <3>1 DEF AtPost, Creation, Still, Own
    <3>2. CASE Given(job.target, job.made)
      BY <1>0, <1>2, <3>2, Gives
    <3> QED BY <1>0, <3>1, <3>2, WriteData
  <2>3. azure[job.made].name # Gone
    BY <1>0, ClaimNames, NamesAssumption DEF AtPost, Creation
  <2> QED BY <1>0, <1>1, <2>1, <2>2, <2>3
<1>3. CASE job.target # job.item
  <2>1. job'.id = job.id
    BY <1>0, <1>1, <1>3
  <2>2. ldap'[job.item] = ldap[job.item]
    BY <1>0, <1>3, WriteData, Gives DEF Still
  <2>3. ldap[job.item].id = job.id /\ job.id # 0 /\ azure[job.id].name # Gone
    BY <1>3, <1>0 DEF AfterWrite, Creation, Own, Write
  <2> QED BY <1>0, <1>1, <2>1, <2>2, <2>3
<1> QED BY <1>2, <1>3

LEMMA GetAfter ==
  ASSUME IInv, IInv', CacheInv, KindInv, FreshInv, NameInv, Calm', busy, Advancing,
         job.pc = "get", job'.pc = "revive"
  PROVE  /\ Own /\ ldap[job.item].id \in {0, job.id} /\ job.id # 0 /\ azure[job.id].name # Gone
         /\ ldap[job.item].id = 0 => job.new.groups \subseteq job.old.groups /\ job.new.users \subseteq job.old.users
<1> USE DEF NameInv
<1>1. Own
  BY OwnCall DEF Creation
<1>2. azure[job.id].name # Gone /\ job.id # 0
  BY Getting, Mine DEF Loose
<1>3. PICK g \in Group : g = job.item
  BY <1>1 DEF Own
<1>4. /\ job.new.id = ldap[g].id /\ job.then = "owners" /\ Watched(job.old) # Watched(job.new)
      /\ job.id = IF job.old.id # 0 THEN job.old.id ELSE job.new.id
  BY <1>1, <1>3 DEF AtGet
<1>5. job.new.life = "here" /\ seen[g].life = "here" /\ job.old = seen[g]
  BY <1>1, <1>3, <1>4 DEF KindInv, CacheInv, InHand, Creation, Burial, Own
<1>6. Watched(job.new) = Watched(ldap[g]) /\ Here(g)
  BY <1>1, <1>3, <1>5 DEF FreshInv, Fresh, Here
<1>7. ldap[g].id # 0 /\ seen[g].id \notin {0, ldap[g].id} => azure[seen[g].id].name = Gone
  BY <1>4, <1>5, <1>6 DEF Stale
<1>8. ldap[g].id = 0 /\ seen[g].id # 0 => ldap[g].groups \subseteq seen[g].groups /\ ldap[g].users \subseteq seen[g].users
  BY <1>4, <1>5, <1>6 DEF Stale
<1>9. job.new.groups = ldap[g].groups /\ job.new.users = ldap[g].users
  BY <1>6 DEF Watched
<1> QED BY <1>1, <1>2, <1>3, <1>4, <1>5, <1>7, <1>8, <1>9

LEMMA Forgetting ==
  ASSUME IInv, busy, Advancing, job.pc = "remove", job'.pc = "forget"
  PROVE  Removed # {} /\ Added = {} /\ azure[job.id].members = {}
<1>0. job \in Job
  BY Fields DEF IInv
<1>1. CASE RemoveEmpty
  BY <1>1 DEF RemoveEmpty, Emptied
<1>2. CASE RemoveMember \/ KeepGroup
  BY <1>0, <1>2 DEF RemoveMember, KeepGroup, Goto, Drop, Job
<1> QED BY <1>1, <1>2, GoesOnFrom

LEMMA WorkAdvance ==
  ASSUME IInv, IInv', CacheInv, KindInv, FreshInv, NameInv, [Next]_vars, Calm', busy, Advancing
  PROVE  AfterWrite'
<1> USE DEF NameInv
<1>0. /\ Onward /\ job \in Job /\ job.target \in Group /\ job.pc \in PC
      /\ job.then \in {"convert", "owners", "gather"}
  BY AdvancingStep, Fields DEF IInv
<1>1. /\ job'.item = job.item /\ (Own' <=> Own) /\ job'.old = job.old
      /\ Own => job'.new = job.new
  BY <1>0 DEF Onward, Keeps, Own, CacheInv, InHand
<1>2. SUFFICES ASSUME Own, Own' PROVE AfterWrite'
  BY <1>1 DEF AfterWrite
<1>3. CASE job.pc = "write"
  BY <1>1, <1>3, WriteAfter DEF AfterWrite
<1>4. CASE job.pc = "get"
  <2>1. job'.pc \in {"post", "revive"} /\ job'.id = job.id /\ job'.target = job.target
    BY <1>0, <1>4 DEF Onward, Flow, Keeps
  <2>2. job.target = job.item
    BY <1>2, <1>4 DEF AtGet
  <2>3. Still /\ NamesStay /\ job.id \in DOMAIN azure
    BY <1>4, StillUnless, NamesAdvance, CallIds, Mine DEF Renames, Loose
  <2>4. CASE job'.pc = "post"
    BY <1>1, <2>1, <2>2, <2>4 DEF AfterWrite, Changing
  <2>5. CASE job'.pc = "revive"
    BY <1>1, <1>4, <2>1, <2>3, <2>5, GetAfter DEF AfterWrite, Still, NamesStay, Creation
  <2> QED BY <2>1, <2>4, <2>5
<1>5. CASE job.pc = "forget"
  <2>1. job'.pc = "rename" /\ job'.id = job.id
    BY <1>0, <1>5 DEF Onward, Flow, Keeps
  <2>2. NamesStay /\ job.id \in DOMAIN azure
    BY <1>5, NamesAdvance, CallIds, Mine DEF Renames, Loose
  <2>3. ldap'[job.item].id = 0
    <3>1. job.group = job.item /\ job.item \in Group
      BY <1>2 DEF CacheInv, InHand, Own
    <3>2. Given(job.group, 0)
      BY <1>5, GoesOnFrom, ForgetData
    <3> QED BY <3>1, <3>2, Gives
  <2>4. job.id # 0 /\ azure[job.id].name # Gone /\ Added = {}
    BY <1>2, <1>5 DEF AfterWrite, Changing
  <2> QED BY <1>1, <2>1, <2>2, <2>3, <2>4 DEF AfterWrite, NamesStay, Creation, Added
<1>6. CASE job.pc \notin {"write", "get", "forget"} /\ Working
  <2>1. Still /\ job'.id = job.id
    BY <1>0, <1>6, StillUnless DEF Onward, Keeps
  <2>2. /\ ldap[job.item].id \in {0, job.id} /\ job.id # 0 /\ azure[job.id].name # Gone
        /\ job.pc \in Creation \cup {"convert"} => ldap[job.item].id = job.id
        /\ ldap[job.item].id = 0 => job.new.groups \subseteq job.old.groups /\ job.new.users \subseteq job.old.users
    BY <1>2, <1>6 DEF AfterWrite, Working
  <2>3. azure'[job.id].name # Gone
    BY <1>6, <2>2, NamesAdvance, CallIds, RenamesOwn DEF NamesStay
  <2>4. job'.pc \in Creation \cup {"convert"} => ldap[job.item].id = job.id
    <3>1. CASE job.pc \in Creation \cup {"convert"}
      BY <2>2, <3>1
    <3>2. CASE job.pc = "gather"
      <4>1. ldap[job.item].id # 0 \/ ~(\E x \in job.todo : TRUE)
        BY <1>2, <2>2, <3>2 DEF KindInv
      <4>2. job'.pc = "post" => \E x \in job.todo : TRUE
        BY <1>0, <3>2 DEF Onward, Keeps
      <4> QED BY <1>0, <2>2, <3>2, <4>1, <4>2 DEF Onward, Flow, Creation
    <3> QED BY <1>0, <1>6, <3>1, <3>2 DEF Onward, Flow, Creation, Changing, Working
  <2>5. job'.pc = "forget" => Removed # {} /\ Added = {}
    <3>1. job'.pc = "forget" => job.pc = "remove"
      BY <1>0 DEF Onward, Flow, PC
    <3> QED BY <3>1, Forgetting
  <2> QED BY <1>1, <2>1, <2>2, <2>3, <2>4, <2>5 DEF AfterWrite, Still, Removed, Added
<1>7. CASE job.pc \notin {"write", "get", "forget"} /\ ~Working
  <2>1. ~Working'
    <3>1. job.pc \in {"post", "ignore", "archive", "clear", "bury", "join", "done"} /\ (job.pc = "post" => job.target = job.item)
      BY <1>0, <1>7 DEF Working, Changing, PC
    <3>2. job.pc # "join"
      BY <1>2 DEF CacheInv, InHand, Own
    <3>3. job.pc = "post" => job'.pc = "write" /\ job'.target = job.target
      BY <1>0 DEF Onward, Flow, Keeps
    <3> QED BY <1>0, <1>1, <3>1, <3>2, <3>3 DEF Onward, Flow, Working, Changing
  <2> QED BY <2>1 DEF AfterWrite, Working, Changing
<1> QED BY <1>3, <1>4, <1>5, <1>6, <1>7

LEMMA AfterWriteNext ==
  ASSUME IInv, IInv', CacheInv, KindInv, FreshInv, NameInv, [Next]_vars, Calm'
  PROVE  AfterWrite'
<1>1. CASE busy /\ Advancing
  BY <1>1, WorkAdvance
<1>2. CASE Start
  <2>1. PICK g \in Group : Begun(g)
    BY <1>2, Starting
  <2>2. /\ job'.pc \in {"post", "get", "ignore", "done", "archive", "clear"}
        /\ job'.target = g /\ job'.item = g
    BY <2>1 DEF Begun
  <2> QED BY <2>2 DEF AfterWrite, Changing
<1>3. CASE Enable
  BY <1>3, Enabling, GroupOrUser DEF AfterWrite, Own
<1>4. CASE /\ busy /\ job' = job /\ NamesStay
           /\ ldap' = ldap \/ \E g \in Group : g \notin Range(queue) /\ \A h \in Group : h # g => ldap'[h] = ldap[h]
  <2>1. job.item \in Range(queue) /\ (Own' <=> Own)
    BY <1>4, HeadWaits DEF Own, busy
  <2>2. Own => ldap'[job.item] = ldap[job.item]
    BY <1>4, <2>1 DEF Own
  <2>3. job.id # 0 => job.id \in DOMAIN azure
    BY <1>4, CallIds
  <2> QED BY <1>4, <2>1, <2>2, <2>3 DEF AfterWrite, NameInv, NamesStay, Removed, Added
<1> QED BY <1>1, <1>2, <1>3, <1>4, Elsewhere DEF AfterWrite, Own

-----------------------------------------------------------------------------
(* Renaming and Burying.                                                   *)

\* Without an objectId written, nobody holds more than before.
LEMMA FewerAdvance ==
  ASSUME IInv, IInv', CacheInv, KindInv, AtPost, [Next]_vars, busy, Advancing, job.pc # "write"
  PROVE  Fewer
<1>1. Onward
  BY AdvancingStep
<1>2. Own' => Own /\ job'.item = job.item /\ job'.id = job.id /\ job'.new.id = job.new.id
  BY <1>1 DEF Onward, Keeps, Own, CacheInv, InHand
<1>3. Still \/ Given(job.group, 0)
  BY StillUnless, GoesOnFrom, ForgetData
<1>4. job.group \in Group
  BY Fields DEF IInv
<1>5. \A g \in Group : ldap'[g].id \in {0, ldap[g].id} /\ seen'[g].id = seen[g].id
  BY <1>3, <1>4, Gives DEF Still, Given
<1> QED BY <1>2, <1>5, FewerStill

LEMMA FewerElsewhere ==
  ASSUME IInv, CacheInv, KindInv, FreshInv, AtPost, [Next]_vars, Calm', busy, job' = job, seen' = seen,
         ldap' = ldap \/ \E g \in Group : /\ g \notin Range(queue)
                                          /\ \A h \in Group : h # g => ldap'[h] = ldap[h]
                                          /\ \E e \in Entry : Edit(g, e)
  PROVE  Fewer
<1>1. \A g \in Group : ldap'[g].id \in {0, ldap[g].id}
  <2>1. CASE ldap' # ldap
    <3>1. PICK g \in Group, e \in Entry : Edit(g, e) /\ \A h \in Group : h # g => ldap'[h] = ldap[h]
      BY <2>1
    <3>2. ldap'[g] = e /\ e.id \in {0, ldap[g].id}
      BY <3>1, CalmPut DEF Edit
    <3> QED BY <3>1, <3>2
  <2> QED BY <2>1
<1> QED BY <1>1, FewerStill DEF Own, busy

\* What is not changed in a call that changes a name.
LEMMA OnlyRenamed ==
  ASSUME IInv, CacheInv, KindInv, FreshInv, Own, job.new.life = "here",
         seen[job.item].name # job.new.name, seen[job.item].life = "here"
  PROVE  Removed = {} /\ Added = {} /\ job.new.groups \subseteq job.old.groups /\ job.new.users \subseteq job.old.users
<1>1. /\ job.old = seen[job.item] /\ Here(job.item) /\ job.new.name = ldap[job.item].name
      /\ job.new.users = ldap[job.item].users /\ job.new.groups = ldap[job.item].groups
      /\ job.item \in Group
  BY DEF FreshInv, Fresh, Watched, CacheInv, InHand, Own, Here
<1>2. job.new.users = job.old.users /\ job.new.groups = job.old.groups
  BY <1>1 DEF FreshInv, OneChange
<1> QED BY <1>2 DEF Removed, Added

LEMMA Rewritten ==
  ASSUME IInv, busy, Advancing
  PROVE  /\ job.pc = "rename" => azure'[job.id].name = job.new.name
         /\ job.pc = "bury" => azure'[job.id].name = Renamed
<1>1. ASSUME job.pc = "rename" PROVE azure'[job.id].name = job.new.name
  <2>1. UpdateName
    BY <1>1 DEF Advancing, PostNew, PostTake, Write, JoinTeam, AddMembers, CreateParent, Created,
       Convert, Lost, Get, Revive, AddOwners, Disown, CheckTeam, Gather, AddNew, RemoveMember,
       RemoveEmpty, KeepGroup, Forget, Archive, Clear, Bury, Join, Joined
  <2>2. SetGroup(job.id, [azure[job.id] EXCEPT !.name = job.new.name]) /\ job.id \in 1 .. Len(azure)
    BY <1>1, <2>1, Mine DEF UpdateName, Parse, Loose
  <2> QED BY <2>2, SetNameNames DEF NamesBut
<1>2. ASSUME job.pc = "bury" PROVE azure'[job.id].name = Renamed
  <2>1. Bury
    BY <1>2 DEF Advancing, PostNew, PostTake, Write, JoinTeam, AddMembers, CreateParent, Created,
       Convert, Lost, Get, Revive, AddOwners, Disown, CheckTeam, Gather, AddNew, RemoveMember,
       RemoveEmpty, KeepGroup, Forget, UpdateName, Archive, Clear, Join, Joined
  <2>2. SetGroup(job.id, [azure[job.id] EXCEPT !.name = Renamed]) /\ job.id \in 1 .. Len(azure)
    BY <1>2, <2>1, Mine DEF Bury, Loose
  <2> QED BY <2>2, SetNameNames DEF NamesBut
<1> QED BY <1>1, <1>2

LEMMA RenamingAdvance ==
  ASSUME IInv, IInv', CacheInv, KindInv, FreshInv, NameInv, [Next]_vars, Calm', busy, Advancing
  PROVE  Renaming'
<1> USE DEF NameInv
<1>0. Onward /\ job \in Job /\ job.pc \in PC /\ job.then \in {"convert", "owners", "gather"}
  BY AdvancingStep, Fields DEF IInv
<1>1. job'.item = job.item /\ (Own' <=> Own) /\ (Own => job'.new = job.new) /\ seen' = seen
  BY <1>0, EntriesStay DEF Onward, Keeps, Own, CacheInv, InHand
<1>2. SUFFICES ASSUME Own, job.new.life = "here", NEW g \in Group, g = job.item, NEW i \in Holds(g)'
               PROVE  \/ azure'[i].name \in {job.new.name, Renamed, Gone}
                      \/ /\ i = job'.id /\ seen[g].name # job.new.name
                         /\ job'.pc \in (Changing \cup {"get"}) \ {"forget"}
  <2>1. PICK g \in Group : Own => g = job.item
    BY Fields DEF IInv, Own
  <2>2. Own' => Holds(job.item)' = Holds(g)'
    BY <1>1, <2>1 DEF Holds, Excused, Own
  <2> QED BY <1>1, <2>1, <2>2 DEF Renaming
<1>3. CASE job.pc = "write"
  <2>1. Write /\ azure' = azure
    BY <1>3, GoesOnFrom DEF Write
  <2>2. i \in Holds(g) \/ (g = job.target /\ i = job.made)
    BY <2>1, WriteHolds
  <2>3. CASE i \in Holds(g)
    BY <1>2, <1>3, <2>1, <2>3 DEF Renaming, Changing
  <2>4. CASE g = job.target /\ i = job.made
    BY <1>2, <1>3, <2>1, <2>4 DEF AtPost, Creation
  <2> QED BY <2>2, <2>3, <2>4
<1>4. CASE job.pc # "write"
  <2>1. i \in Holds(g) /\ i \in DOMAIN azure /\ job'.id = job.id
    BY <1>0, <1>2, <1>4, FewerAdvance, HoldsThere DEF Fewer, Onward, Keeps
  <2>2. CASE azure[i].name \in {job.new.name, Renamed, Gone}
    <3>1. job.pc # "bury"
      BY <1>2 DEF KindInv, Burial
    <3>2. CASE Renames
      BY <1>2, <2>1, <2>2, <3>1, <3>2, RenamesOwn
    <3>3. CASE NamesStay
      BY <2>1, <2>2, <3>3 DEF NamesStay
    <3> QED BY <3>2, <3>3, NamesAdvance
  <2>3. CASE i = job.id /\ seen[g].name # job.new.name /\ job.pc \in (Changing \cup {"get"}) \ {"forget"}
    <3>1. seen[g].life = "here"
      BY <1>2, <2>3 DEF KindInv, CacheInv, InHand, Own, Changing, Creation
    <3>2. Removed = {} /\ job.new.groups \subseteq job.old.groups /\ job.new.users \subseteq job.old.users
      BY <1>2, <2>3, <3>1, OnlyRenamed
    <3>3. CASE job.pc = "get"
      <4>1. NamesStay
        BY <3>3, NamesAdvance DEF Renames
      <4> QED BY <2>1, <2>3, <3>3, <4>1, Getting DEF NamesStay, Changing
    <3>4. CASE job.pc = "rename"
      BY <2>3, <3>4, Rewritten
    <3>5. CASE job.pc = "gather"
      <4>1. job.todo = {}
        BY <1>2, <3>2, <3>5 DEF KindInv
      <4> QED BY <1>0, <2>1, <2>3, <3>5, <4>1 DEF Onward, Flow, Keeps, Changing
    <3>6. CASE job.pc = "remove"
      BY <1>0, <2>1, <2>3, <3>2, <3>6, Forgetting DEF Onward, Flow, Changing
    <3>7. CASE job.pc \in {"revive", "owners", "disown", "teams"}
      BY <1>0, <2>1, <2>3, <3>7 DEF Onward, Flow, Changing
    <3> QED BY <2>3, <3>3, <3>4, <3>5, <3>6, <3>7 DEF Changing
  <2> QED BY <1>2, <2>1, <2>2, <2>3 DEF Renaming
<1> QED BY <1>3, <1>4

LEMMA RenamingStart ==
  ASSUME IInv, IInv', CacheInv, KindInv, FreshInv, NameInv, [Next]_vars, Start
  PROVE  Renaming'
<1> USE DEF NameInv
<1>1. PICK g \in Group : Begun(g)
  BY Starting
<1>2. /\ job'.item = g /\ job'.new = ldap[g] /\ job'.old = seen[g] /\ ldap' = ldap /\ seen' = seen
      /\ busy' /\ azure' = azure
  BY <1>1 DEF Begun, Still, Start
<1>3. SUFFICES ASSUME ldap[g].life = "here", NEW i \in Holds(g)', azure[i].name \notin {ldap[g].name, Renamed, Gone}
               PROVE  i = job'.id /\ seen[g].name # ldap[g].name /\ job'.pc = "get"
  <2>1. Own' => Holds(job.item)' = Holds(g)'
    BY <1>2 DEF Holds, Excused, Own
  <2> QED BY <1>2, <2>1 DEF Renaming, Changing
<1>4. i \in Holds(g)
  BY FewerStart DEF Fewer
<1>5. seen[g].life = "here" /\ azure[i].name = seen[g].name
  BY <1>3, <1>4 DEF NameHeld, Claim
<1>6. i # 0 /\ i \in {ldap[g].id, seen[g].id, job'.id}
  BY <1>2, <1>4 DEF Holds, Excused
<1>7. /\ job'.id = IF seen[g].id # 0 THEN seen[g].id ELSE ldap[g].id
      /\ \/ job'.pc = "done" /\ Watched(seen[g]) = Watched(ldap[g])
         \/ job'.pc = "done" /\ ~ldap[g].alias /\ ~seen[g].alias
         \/ /\ job'.pc \in {"ignore", "post", "get"}
            /\ job'.pc = "ignore" => ~Differs(seen[g], ldap[g])
            /\ job'.pc = "post" => job'.id = 0
  BY <1>1, <1>3, <1>5 DEF Begun
<1>8. ~ (~ldap[g].alias /\ ~seen[g].alias)
  BY <1>6, <1>7 DEF CacheInv, Aliased
<1>9. seen[g].name # ldap[g].name /\ Watched(seen[g]) # Watched(ldap[g]) /\ Differs(seen[g], ldap[g])
  BY <1>3, <1>5 DEF Watched, Differs
<1>10. job'.id # 0
  BY <1>6, <1>7
<1>11. job'.pc = "get"
  BY <1>7, <1>8, <1>9, <1>10
<1>12. i = job'.id
  BY <1>3, <1>5, <1>6, <1>7 DEF Stale, Here
<1> QED BY <1>9, <1>11, <1>12

LEMMA RenamingNext ==
  ASSUME IInv, IInv', CacheInv, KindInv, FreshInv, NameInv, [Next]_vars, Calm'
  PROVE  Renaming'
<1>1. CASE busy /\ Advancing
  BY <1>1, RenamingAdvance
<1>2. CASE Start
  BY <1>2, RenamingStart
<1>3. CASE Enable
  BY <1>3, Enabling, GroupOrUser DEF Renaming, Own
<1>4. CASE /\ busy /\ job' = job /\ seen' = seen /\ NamesStay
           /\ ldap' = ldap \/ \E g \in Group : /\ g \notin Range(queue)
                                               /\ \A h \in Group : h # g => ldap'[h] = ldap[h]
                                               /\ \E e \in Entry : Edit(g, e)
  <2>1. Fewer
    BY <1>4, FewerElsewhere DEF NameInv
  <2>2. PICK g \in Group : Own => g = job.item
    BY <1>4, Fields DEF IInv, Own
  <2>3. Own' <=> Own
    BY <1>4 DEF Own, busy
  <2>4. Own' => Holds(job.item)' = Holds(g)'
    BY <1>4, <2>2, <2>3 DEF Holds, Excused, Own
  <2>5. ASSUME Own, job.new.life = "here", NEW i \in Holds(g)'
        PROVE  \/ azure'[i].name \in {job.new.name, Renamed, Gone}
               \/ /\ i = job.id /\ seen[g].name # job.new.name
                  /\ job.pc \in (Changing \cup {"get"}) \ {"forget"}
    <3>1. i \in Holds(g) /\ i \in DOMAIN azure
      BY <2>1, HoldsThere DEF Fewer
    <3> QED BY <1>4, <2>2, <2>5, <3>1 DEF NameInv, Renaming, NamesStay
  <2> QED BY <1>4, <2>2, <2>3, <2>4, <2>5 DEF Renaming
<1> QED BY <1>1, <1>2, <1>3, <1>4, Elsewhere DEF Renaming, Own, NameInv

LEMMA BuryingNext ==
  ASSUME IInv, IInv', CacheInv, KindInv, FreshInv, NameInv, [Next]_vars, Calm'
  PROVE  Burying'
<1> USE DEF NameInv
<1>1. CASE busy /\ Advancing
  <2>0. Onward /\ job \in Job /\ job.pc \in PC /\ job.then \in {"convert", "owners", "gather"}
    BY <1>1, AdvancingStep, Fields DEF IInv
  <2>1. job'.item = job.item /\ (Own' <=> Own) /\ job'.old = job.old /\ (Own => job'.new = job.new)
    BY <2>0 DEF Onward, Keeps, Own, CacheInv, InHand
  <2>2. SUFFICES ASSUME Own, job.new.life = "gone", job'.pc = "done"
                 PROVE  job.old.id = 0 \/ azure'[job.old.id].name \in {Renamed, Gone}
    BY <2>1 DEF Burying
  <2>3. job.pc \in {"clear", "bury"} /\ job.id = job.old.id
    <3>1. job.pc \in Burial \cup {"done"}
      BY <2>2 DEF KindInv
    <3> QED BY <2>0, <2>2, <3>1 DEF Onward, Flow, Burial, KindInv
  <2>4. CASE job.pc = "bury"
    BY <1>1, <2>3, <2>4, Rewritten
  <2>5. CASE job.pc = "clear"
    <3>1. Clear
      BY <1>1, <2>5, GoesOnFrom
    <3>2. azure[job.id].name = Gone /\ azure' = azure
      BY <2>0, <2>2, <3>1 DEF Clear, Goto, Job
    <3> QED BY <2>3, <3>2
  <2> QED BY <2>3, <2>4, <2>5
<1>2. CASE Start
  <2>1. PICK g \in Group : Begun(g)
    BY <1>2, Starting
  <2>2. /\ job'.item = g /\ job'.new = ldap[g] /\ job'.old = seen[g] /\ azure' = azure
        /\ seen' = seen /\ (owed' = owed \/ ldap[g].life = "here")
    BY <1>2, <2>1, SMTT(40) DEF Begun, Start, StartCreate, StartModify, StartDelete, Still, Here
  <2>3. SUFFICES ASSUME ldap[g].life = "gone", job'.pc = "done", seen[g].id # 0, ~Excused(g)
                 PROVE  azure[seen[g].id].name \in {Renamed, Gone}
    <3>1. Excused(g) /\ ldap[g].life = "gone" => Excused(job.item)'
      BY <2>2 DEF Excused
    <3> HIDE DEF Excused
    <3> QED BY <2>2, <3>1 DEF Burying
  <2>4. seen[g].life # "here"
    BY <2>1, <2>3 DEF Begun, Here
  <2>5. seen[g].id \in Holds(g)
    BY <2>3 DEF Holds
  <2>6. Claim(g) = {}
    BY <2>3, <2>4 DEF Claim, Here
  <2> QED BY <2>5, <2>6 DEF NameHeld
<1>3. CASE Enable
  BY <1>3, Enabling, GroupOrUser DEF Burying, Own
<1>4. CASE busy /\ job' = job /\ NamesStay
  <2>1. Own' <=> Own
    BY <1>4 DEF Own, busy
  <2>2. PICK g \in Group : Own => g = job.item
    BY <1>4, Fields DEF IInv, Own
  <2>3. Excused(g) => Excused(g)'
    BY ExcusedStays
  <2>4. job.old.id # 0 /\ Own => job.old.id \in DOMAIN azure
    BY <1>4, CallIds
  <2>5. Own /\ Excused(g)' => Excused(job.item)'
    BY <1>4, <2>2 DEF Excused
  <2>6. Own => (Excused(g) <=> Excused(job.item))
    BY <2>2
  <2> HIDE DEF Excused
  <2> QED BY <1>4, <2>1, <2>2, <2>3, <2>4, <2>5, <2>6 DEF Burying, NamesStay
<1> QED BY <1>1, <1>2, <1>3, <1>4, Elsewhere DEF Burying, Own

-----------------------------------------------------------------------------
(* Stale.                                                                  *)

\* What Stale says of one group, with the queue q.
StaleAt(g, q) ==
  Here(g) /\ seen[g].life = "here" =>
    /\ ldap[g].id # 0 /\ seen[g].id \notin {0, ldap[g].id} =>
         azure[ldap[g].id].name \in {ldap[g].name, Renamed, Gone}
    /\ Watched(seen[g]) # Watched(ldap[g]) =>
         /\ ldap[g].id # 0 /\ seen[g].id \notin {0, ldap[g].id} =>
              azure[seen[g].id].name = Gone
         /\ ldap[g].id = 0 /\ seen[g].id # 0 =>
              q # <<>> /\ Head(q) = g /\ ldap[g].groups \subseteq seen[g].groups /\ ldap[g].users \subseteq seen[g].users

LEMMA StaleEach == (Stale <=> \A g \in Group : StaleAt(g, queue)) /\ (Stale' <=> \A g \in Group : StaleAt(g, queue)')
BY DEF Stale, StaleAt

LEMMA IdsThere ==
  ASSUME IInv, NEW g \in Group
  PROVE  /\ ldap[g].id # 0 => ldap[g].id \in DOMAIN azure
         /\ seen[g].id # 0 => seen[g].id \in DOMAIN azure
<1>1. azure \in Seq(AzureGroup) /\ DOMAIN azure = 1 .. Len(azure)
  BY Kept
<1> QED BY <1>1 DEF IInv, IdsOfGroups, Known

\* A step that changes no entry of the group leaves it so.
LEMMA StaleStays ==
  ASSUME IInv, NEW g \in Group, StaleAt(g, queue), seen'[g] = seen[g],
         ldap'[g].id = ldap[g].id, ldap'[g].life = ldap[g].life, Watched(ldap'[g]) = Watched(ldap[g]),
         Head(queue) = g /\ queue # <<>> => Head(queue') = g /\ queue' # <<>>,
         \A i \in DOMAIN azure \cap {ldap[g].id, seen[g].id} :
            /\ azure'[i].name = azure[i].name \/ azure'[i].name \in {Renamed, Gone}
            /\ azure[i].name = Gone => azure'[i].name = Gone
  PROVE  StaleAt(g, queue)'
<1>1. ldap'[g].name = ldap[g].name /\ ldap'[g].groups = ldap[g].groups /\ ldap'[g].users = ldap[g].users
  BY DEF Watched
<1> HIDE DEF Watched
<1>2. /\ ldap[g].id # 0 => ldap[g].id \in DOMAIN azure
      /\ seen[g].id # 0 => seen[g].id \in DOMAIN azure
  BY IdsThere
<1>3. SUFFICES ASSUME ldap[g].life = "here", seen[g].life = "here"
               PROVE /\ ldap[g].id # 0 /\ seen[g].id \notin {0, ldap[g].id} =>
                          azure'[ldap[g].id].name \in {ldap[g].name, Renamed, Gone}
                     /\ Watched(seen[g]) # Watched(ldap[g]) =>
                          /\ ldap[g].id # 0 /\ seen[g].id \notin {0, ldap[g].id} =>
                               azure'[seen[g].id].name = Gone
                          /\ ldap[g].id = 0 /\ seen[g].id # 0 =>
                               queue' # <<>> /\ Head(queue') = g /\ ldap[g].groups \subseteq seen[g].groups /\ ldap[g].users \subseteq seen[g].users
  BY <1>1 DEF StaleAt, Here
<1> QED BY <1>2, <1>3 DEF StaleAt, Here

LEMMA StaleRenames ==
  ASSUME IInv, IInv', CacheInv, KindInv, FreshInv, NameInv, [Next]_vars, busy, Advancing, Renames,
         NEW g \in Group
  PROVE  StaleAt(g, queue)'
<1>0. StaleAt(g, queue) /\ Still
  <2>1. job.pc \notin {"write", "forget"}
    BY DEF Renames
  <2> QED BY <2>1, StaleEach, StillUnless DEF NameInv
<1>1. SUFFICES ASSUME Here(g), seen[g].life = "here" PROVE StaleAt(g, queue)'
  BY <1>0 DEF StaleAt, Still, Here
<1>2. ldap' = ldap /\ seen' = seen /\ queue' = queue
  BY <1>0 DEF Still
<1>3. ~Excused(g)
  BY <1>1 DEF Excused
<1> HIDE DEF Excused
<1>4. /\ ldap[g].id # 0 => ldap[g].id \in Holds(g) /\ ldap[g].id \in DOMAIN azure
      /\ seen[g].id # 0 => seen[g].id \in Holds(g) /\ seen[g].id \in DOMAIN azure
  BY <1>3, IdsThere DEF Holds
<1>5. /\ Own /\ job.id \in Holds(job.item) /\ job.pc \in Changing \cup {"bury"}
      /\ \A h \in Group : h # job.item => job.id \notin Holds(h)
      /\ \A i \in DOMAIN azure : i # job.id => i \in DOMAIN azure' /\ azure'[i].name = azure[i].name
      /\ job.pc # "bury" => job.new.life = "here" /\ azure'[job.id].name \in {job.new.name, Renamed}
      /\ job.pc = "bury" => job.new.life = "gone"
  BY RenamesOwn
<1>6. CASE g # job.item
  <2>1. ASSUME NEW i \in DOMAIN azure \cap {ldap[g].id, seen[g].id} PROVE azure'[i].name = azure[i].name
    <3>1. i # 0
      BY Kept
    <3>2. i \in Holds(g)
      BY <1>4, <3>1
    <3> QED BY <1>5, <1>6, <3>2
  <2> QED BY <1>0, <1>2, <2>1, StaleStays
<1>7. CASE g = job.item
  <2>1. job.pc # "bury"
    BY <1>1, <1>5, <1>7 DEF FreshInv, Fresh, Here
  <2>2. azure[job.id].name # Gone /\ job.new.name = ldap[g].name
    BY <1>5, <1>7, <2>1 DEF NameInv, AfterWrite, Watched, FreshInv, Fresh
  <2>3. azure'[job.id].name \in {ldap[g].name, Renamed}
    BY <1>5, <2>1, <2>2
  <2> HIDE DEF Watched
  <2>4. /\ ldap[g].id # 0 /\ seen[g].id \notin {0, ldap[g].id} =>
             azure'[ldap[g].id].name \in {ldap[g].name, Renamed, Gone}
        /\ Watched(seen[g]) # Watched(ldap[g]) /\ ldap[g].id # 0 /\ seen[g].id \notin {0, ldap[g].id} =>
             azure'[seen[g].id].name = Gone
    BY <1>0, <1>1, <1>4, <1>5, <2>2, <2>3 DEF StaleAt
  <2> QED BY <1>0, <1>1, <1>2, <2>4 DEF StaleAt, Here, Watched
<1> QED BY <1>6, <1>7

LEMMA StaleWrite ==
  ASSUME IInv, IInv', CacheInv, KindInv, FreshInv, NameInv, [Next]_vars, busy, Write, NEW g \in Group
  PROVE  StaleAt(g, queue)'
<1> USE DEF NameInv
<1>0. /\ StaleAt(g, queue) /\ azure' = azure /\ seen' = seen /\ job.pc = "write" /\ job.target \in Group
      /\ queue # <<>> /\ Head(queue) = job.item
  BY StaleEach, Fields DEF Write, IInv, Steps, CacheInv, InHand
<1>1. CASE Still
  BY <1>0, <1>1, StaleStays DEF Still
<1>2. CASE Given(job.target, job.made) /\ g # job.target
  <2>1. ldap'[g] = ldap[g]
    BY <1>0, <1>2, Gives
  <2>2. queue' # <<>> /\ Head(queue') = Head(queue)
    BY <1>0, <1>2, Notified DEF Given
  <2> QED BY <1>0, <2>1, <2>2, StaleStays
<1>3. CASE Given(job.target, job.made) /\ g = job.target
  <2>1. /\ ldap'[g].id = job.made /\ Watched(ldap'[g]) = Watched(ldap[g]) /\ ldap'[g].life = ldap[g].life
        /\ job.made # 0
    BY <1>0, <1>3, Gives DEF IInv, Steps, Handling
  <2>2. SUFFICES ASSUME ldap[g].life = "here", seen[g].life = "here", seen[g].id \notin {0, job.made}
                 PROVE  /\ azure[job.made].name = ldap[g].name
                        /\ Watched(seen[g]) # Watched(ldap[g]) => azure[seen[g].id].name = Gone
    <3>1. ldap'[g].name = ldap[g].name
      BY <2>1 DEF Watched
    <3> HIDE DEF Watched
    <3> QED BY <1>0, <2>1, <3>1 DEF StaleAt, Here
  <2>3. azure[job.made].name = ldap[g].name
    BY <1>0, <1>3, <2>2 DEF AtPost, Creation
  <2>4. ASSUME Watched(seen[g]) # Watched(ldap[g]) PROVE azure[seen[g].id].name = Gone
    <3>1. CASE g = job.item
      BY <1>0, <1>3, <2>2, <3>1 DEF AtPost, Creation, CacheInv, InHand, Own
    <3>2. CASE g # job.item
      <4>1. ldap[g].id = 0
        BY <1>0, <1>3, <3>2 DEF AtPost, Creation
      <4> QED BY <1>0, <2>2, <2>4, <3>2, <4>1 DEF StaleAt, Here
    <3> QED BY <3>1, <3>2
  <2> QED BY <2>3, <2>4
<1> QED BY <1>1, <1>2, <1>3, WriteData

LEMMA StaleForget ==
  ASSUME IInv, IInv', CacheInv, KindInv, FreshInv, NameInv, [Next]_vars, busy, Forget, NEW g \in Group
  PROVE  StaleAt(g, queue)'
<1> USE DEF NameInv
<1>0. /\ StaleAt(g, queue) /\ azure' = azure /\ seen' = seen /\ job.pc = "forget"
      /\ queue # <<>> /\ Given(job.group, 0)
  BY StaleEach, ForgetData DEF Forget, IInv, Steps
<1>1. Own /\ job.group = job.item /\ job.item \in Group /\ Head(queue) = job.item /\ job.old = seen[job.item]
  BY <1>0, OwnCall DEF Creation, CacheInv, InHand, Own
<1>2. queue' # <<>> /\ Head(queue') = Head(queue)
  BY <1>0, <1>1, Notified DEF Given
<1>3. CASE g # job.item
  <2>1. ldap'[g] = ldap[g]
    BY <1>0, <1>1, <1>3, Gives
  <2> QED BY <1>0, <1>2, <2>1, StaleStays
<1>4. CASE g = job.item
  <2>1. ldap'[g].id = 0 /\ Watched(ldap'[g]) = Watched(ldap[g])
    BY <1>0, <1>1, <1>4, Gives
  <2>2. Added = {}
    BY <1>0, <1>1 DEF AfterWrite
  <2>3. job.new.groups = ldap[g].groups /\ job.new.users = ldap[g].users
    BY <1>1, <1>4 DEF FreshInv, Fresh, Watched
  <2>4. ldap'[g].groups \subseteq seen[g].groups /\ ldap'[g].users \subseteq seen[g].users
    BY <1>1, <1>4, <2>1, <2>2, <2>3 DEF Added, Watched
  <2> QED BY <1>0, <1>1, <1>2, <1>4, <2>1, <2>4 DEF StaleAt
<1> QED BY <1>3, <1>4

LEMMA StaleEnds ==
  ASSUME IInv, IInv', CacheInv, KindInv, FreshInv, NameInv, [Next]_vars, Ended, NEW g \in Group
  PROVE  StaleAt(g, queue)'
<1> USE DEF NameInv
<1>0. /\ StaleAt(g, queue) /\ azure' = azure /\ busy
      /\ ldap'[g].id = ldap[g].id /\ ldap'[g].life = ldap[g].life /\ Watched(ldap'[g]) = Watched(ldap[g])
      /\ Head(queue) = job.item
  BY StaleEach DEF Ended, Return, CacheInv, InHand
<1>1. CASE g # job.item
  <2>1. seen'[g] = seen[g]
    BY <1>1, Kept DEF Ended, Return
  <2> QED BY <1>0, <1>1, <2>1, StaleStays
<1>2. CASE g = job.item
  <2>1. Own /\ seen'[g] = job.new
    BY <1>0, <1>2, Kept DEF Own, Ended, Return
  <2>2. SUFFICES ASSUME job.new.life = "here", ldap[g].id # 0
                 PROVE  azure[ldap[g].id].name \in {ldap[g].name, Renamed, Gone}
    <3>1. Watched(job.new) = Watched(ldap[g])
      BY <1>2, <2>1 DEF FreshInv, Fresh
    <3>2. ldap'[g].name = ldap[g].name
      BY <1>0 DEF Watched
    <3> HIDE DEF Watched
    <3> QED BY <1>0, <2>1, <3>1, <3>2 DEF StaleAt
  <2>3. job.new.name = ldap[g].name
    BY <1>2, <2>1 DEF FreshInv, Fresh, Watched
  <2>4. ~Excused(g)
    BY <1>2, <2>1, <2>2, Holding
  <2>5. ldap[g].id \in Holds(g)
    <3> HIDE DEF Excused
    <3> QED BY <2>2, <2>4 DEF Holds
  <2> QED BY <1>2, <2>1, <2>2, <2>3, <2>5, EndNamed
<1> QED BY <1>1, <1>2

LEMMA StaleNext ==
  ASSUME IInv, IInv', CacheInv, KindInv, FreshInv, NameInv, [Next]_vars, Calm'
  PROVE  Stale'
<1>0. SUFFICES ASSUME NEW g \in Group PROVE StaleAt(g, queue)'
  BY StaleEach
<1>a. StaleAt(g, queue)
  BY StaleEach DEF NameInv
<1>1. CASE \E h \in Group, e \in Entry : Edit(h, e)
  <2>1. PICK h \in Group, e \in Entry : Edit(h, e)
    BY <1>1
  <2>2. /\ h \notin Range(queue) /\ queue' = Notify(h) /\ ldap'[h] = e
        /\ \A k \in Group : k # h => ldap'[k] = ldap[k]
        /\ UNCHANGED <<seen, azure>>
    BY <2>1, CalmPut
  <2>3. CASE g # h
    <3>1. queue # <<>> => queue' # <<>> /\ Head(queue') = Head(queue)
      BY <2>2, Notified
    <3> QED BY <1>a, <2>2, <2>3, <3>1, StaleStays
  <2>4. CASE g = h
    <3>1. seen[g] = ldap[g]
      BY <2>2, <2>4 DEF CacheInv, Settled
    <3>2. ldap[g].life = "none" \/ e.id = ldap[g].id
      BY <2>1, <2>4 DEF Edit
    <3> QED BY <2>2, <2>4, <3>1, <3>2 DEF StaleAt
  <2> QED BY <2>3, <2>4
<1>2. CASE (\E u \in User : Switch(u)) \/ RunJob \/ Purge \/ Clean \/ Start \/ Enable \/ Crash \/ UNCHANGED vars
  <2>1. ldap' = ldap /\ seen' = seen
    BY <1>2 DEF Switch, Change, RunJob, Purge, Clean, Start, Enable, Crash, vars
  <2>2. queue # <<>> => queue' # <<>> /\ Head(queue') = Head(queue)
    <3>1. queue' = queue \/ \E u \in User : queue' = Notify(u)
      BY <1>2 DEF Switch, Change, RunJob, Purge, Clean, Start, Enable, Crash, vars
    <3> QED BY <3>1, Notified
  <2>3. \A i \in DOMAIN azure :
            /\ azure'[i].name = azure[i].name \/ azure'[i].name \in {Renamed, Gone}
            /\ azure[i].name = Gone => azure'[i].name = Gone
    <3>1. CASE Purge \/ Clean
      BY <3>1, PurgeNames
    <3>2. CASE RunJob
      BY <3>2, RunJobNames DEF NamesStay
    <3>3. CASE azure' = azure
      BY <3>3
    <3> QED BY <1>2, <3>1, <3>2, <3>3 DEF Switch, Change, Start, Enable, Crash, vars
  <2> QED BY <1>a, <2>1, <2>2, <2>3, StaleStays
<1>3. CASE Disable \/ Ignored
  <2>1. ldap' = ldap /\ seen' = seen /\ queue # <<>> /\ Head(queue) # g
    BY <1>3, Kept, GroupOrUser DEF Disable, Ignored
  <2>2. \A i \in DOMAIN azure : azure'[i].name = azure[i].name
    <3>1. CASE azure' = azure
      BY <3>1
    <3>2. CASE Disable
      <4>1. \A i \in DOMAIN azure : azure'[i] = [azure[i] EXCEPT !.members = @ \ {queue[1]}]
        BY <3>2 DEF Disable
      <4>2. \A i \in DOMAIN azure : azure[i] \in AzureGroup
        BY Kept
      <4> QED BY <4>1, <4>2 DEF AzureGroup
    <3> QED BY <1>3, <3>1, <3>2 DEF Ignored
  <2> QED BY <1>a, <2>1, <2>2, StaleStays
<1>4. CASE busy /\ Advancing
  <2>1. CASE Renames
    BY <1>4, <2>1, StaleRenames
  <2>2. CASE job.pc = "write"
    BY <1>4, <2>2, GoesOnFrom, StaleWrite
  <2>3. CASE job.pc = "forget"
    BY <1>4, <2>3, GoesOnFrom, StaleForget
  <2>4. CASE job.pc \notin {"write", "forget"} /\ NamesStay
    <3>1. Still
      BY <1>4, <2>4, StillUnless
    <3> QED BY <1>a, <2>4, <3>1, StaleStays DEF Still, NamesStay
  <2> QED BY <1>4, <2>1, <2>2, <2>3, <2>4, NamesAdvance
<1>5. CASE (busy /\ (Finish \/ Raising \/ Ignore)) \/ Fails
  BY <1>5, Ends, StaleEnds
<1> QED BY <1>1, <1>2, <1>3, <1>4, <1>5, Kinds

LEMMA NameInit == Init => NameInv
<1> SUFFICES ASSUME Init PROVE NameInv
  OBVIOUS
<1>1. ~busy /\ seen = ldap /\ \A g \in Group : ldap[g] = Nothing
  BY DEF Init, busy
<1>2. \A g \in Group : Holds(g) = {} /\ ~Here(g)
  BY <1>1 DEF Holds, Nothing, Here
<1>3. NameHeld /\ HeldOnce
  BY <1>2 DEF NameHeld, HeldOnce
<1> QED BY <1>1, <1>2, <1>3 DEF NameInv, Above, AtGet, AtPost, AfterWrite, Renaming, Burying, Stale, Own

LEMMA NameNext ==
  ASSUME IInv, IInv', CacheInv, KindInv, FreshInv, NameInv, [Next]_vars, Calm'
  PROVE  NameInv'
<1>1. NameHeld' /\ HeldOnce'
  BY HeldNext
<1>2. Above' /\ AtGet'
  BY AboveNext, AtGetNext DEF NameInv
<1>3. AtPost' /\ AfterWrite' /\ Renaming' /\ Burying' /\ Stale'
  BY AtPostNext, AfterWriteNext, RenamingNext, BuryingNext, StaleNext
<1> QED BY <1>1, <1>2, <1>3 DEF NameInv

\* The invariant: while no call failed and no change overtook another, groups
\* in Azure have the names of those who know them.
NamesInv == IInv /\ CacheInv /\ KindInv /\ (Calm => FreshInv /\ NameInv)

LEMMA NamesInvariance == Spec => []NamesInv
<1>1. Init => NamesInv
  BY InitInv, CacheInit, FreshInit, NameInit DEF NamesInv
<1>2. NamesInv /\ [Next]_vars => NamesInv'
  <2> SUFFICES ASSUME NamesInv, [Next]_vars PROVE NamesInv'
    OBVIOUS
  <2>1. IInv' /\ CacheInv' /\ KindInv'
    BY NextInv, CacheNext, KindNext DEF NamesInv
  <2>2. ASSUME Calm' PROVE FreshInv' /\ NameInv'
    <3>1. Calm
      BY <2>2, CalmBefore DEF NamesInv
    <3> QED BY <2>1, <2>2, <3>1, FreshNext, NameNext DEF NamesInv
  <2> QED BY <2>1, <2>2 DEF NamesInv
<1> QED BY <1>1, <1>2, PTL DEF Spec

\* Two groups never have one objectId, neither between calls nor during one,
\* while no call failed and no change was overtaken by another: not even where
\* _create_group takes over the first group it finds by the name
\* (azureobjects.py:574), names change hands and the listener is killed.
THEOREM GroupsApart == Spec => []OneGroupEach
<1>1. NamesInv => OneGroupEach
  <2> SUFFICES ASSUME NamesInv, Calm, NEW g \in Group, NEW h \in Group,
                      g # h, Here(g), Here(h), ldap[g].id # 0, ldap[g].id = ldap[h].id
               PROVE  FALSE
    BY DEF OneGroupEach
  <2>1. ~Excused(g) /\ ~Excused(h)
    BY DEF NamesInv, FreshInv, Lives, Excused, Here
  <2> HIDE DEF Excused
  <2>2. ldap[g].id \in Holds(g) /\ ldap[g].id \in Holds(h)
    BY <2>1 DEF Holds
  <2> QED BY <2>2 DEF NamesInv, NameInv, HeldOnce
<1> QED BY <1>1, NamesInvariance, PTL

-----------------------------------------------------------------------------
(* Who is in the groups.                                                   *)

MembersStay == \A i \in DOMAIN azure : i \in DOMAIN azure' /\ azure'[i].members = azure[i].members
MembersBut(j, U) ==
  /\ j \in DOMAIN azure /\ DOMAIN azure' = DOMAIN azure /\ azure'[j].members = U
  /\ \A i \in DOMAIN azure : i # j => azure'[i].members = azure[i].members

LEMMA SetMembersMembers ==
  ASSUME IInv, NEW i \in 1 .. Len(azure), NEW U, SetGroup(i, [azure[i] EXCEPT !.members = U])
  PROVE  MembersBut(i, U)
<1>1. azure[i] \in AzureGroup /\ [azure[i] EXCEPT !.members = U].members = U
  BY Kept, GroupAt, ZenonT(40) DEF AzureGroup
<1> QED BY <1>1, Kept DEF SetGroup, MembersBut

LEMMA SetOtherMembers ==
  ASSUME IInv, NEW i \in 1 .. Len(azure), NEW r, SetGroup(i, r), r.members = azure[i].members
  PROVE  MembersStay
BY Kept DEF SetGroup, MembersStay

LEMMA AddToMembers ==
  ASSUME IInv, ~failed', NEW i \in 1 .. Len(azure), NEW U, AddTo(i, U)
  PROVE  MembersBut(i, azure[i].members \cup U)
<1>1. SetGroup(i, [azure[i] EXCEPT !.members = @ \cup U])
  BY DEF AddTo
<1> QED BY <1>1, SetMembersMembers

LEMMA MembersAlone ==
  ASSUME IInv, MembersStay, NEW i \in DOMAIN azure, DOMAIN azure' = DOMAIN azure, NEW U, U \subseteq azure[i].members
  PROVE  MembersBut(i, azure[i].members \cup U)
BY DEF MembersStay, MembersBut

\* What the steps of a call do to them.
LEMMA MembersAdvance ==
  ASSUME IInv, busy, Advancing, Calm'
  PROVE  /\ job.pc = "team" =>
              \E R \in SUBSET job.adding : /\ job'.adding = R
                                           /\ MembersBut(job.made, azure[job.made].members \cup (job.adding \ R))
         /\ job.pc = "members" => MembersBut(job.made, azure[job.made].members \cup job.adding)
         /\ job.pc = "gather" /\ job'.pc = "remove" =>
              MembersBut(job.id, azure[job.id].members \cup Newcomers)
         /\ job.pc = "remove" =>
              \/ job'.pc # "remove" /\ job.todo = {} /\ MembersStay
              \/ \E x \in job.todo : /\ job'.pc = "remove" /\ job'.todo = job.todo \ {x}
                                     /\ \/ x \in ids /\ MembersBut(job.id, azure[job.id].members \ {x})
                                        \/ x \notin ids /\ MembersStay
         /\ job.pc = "clear" =>
              \/ job'.pc = "done" /\ azure[job.id].name = Gone /\ MembersStay
              \/ job'.pc = "bury" /\ MembersBut(job.id, {})
         /\ job.pc = "join" =>
              \/ MembersStay
              \/ \E g \in job.todo \cap Group : /\ Here(g) /\ ldap[g].id # 0
                                      /\ MembersBut(ldap[g].id, azure[ldap[g].id].members \cup {job.item})
         /\ job.pc \notin {"team", "members", "remove", "clear", "join"} /\ (job.pc # "gather" \/ job'.pc # "remove") =>
              MembersStay
<1>0. /\ job \in Job /\ job.adding \subseteq User /\ azure \in Seq(AzureGroup) /\ ~failed'
      /\ job.pc \notin Loose => job.id \in 1 .. Len(azure)
      /\ job.pc \in {"write", "team", "members"} => job.made \in 1 .. Len(azure)
  BY Mine, Fields, Kept DEF IInv, Calm
<1>a. ASSUME azure' = azure PROVE MembersStay
  BY <1>a DEF MembersStay
<1>b. ASSUME azure' = azure, NEW i \in 1 .. Len(azure), NEW U, U \subseteq azure[i].members
      PROVE MembersBut(i, azure[i].members \cup U)
  BY <1>0, <1>b DEF MembersBut
<1>1. CASE job.pc = "team"
  <2>0. JoinTeam /\ job.made \in 1 .. Len(azure)
    BY <1>0, <1>1, GoesOnFrom
  <2>1. CASE azure' = azure /\ Goto("members")
    <3>1. job'.adding = job.adding /\ job.adding \ job.adding = {}
      BY <1>0, <2>1 DEF Goto, Job
    <3>2. MembersBut(job.made, azure[job.made].members \cup {})
      BY <1>b, <2>0, <2>1
    <3>3. \E R \in SUBSET job.adding : /\ job'.adding = R
                                       /\ MembersBut(job.made, azure[job.made].members \cup (job.adding \ R))
      BY <3>1, <3>2
    <3> QED BY <1>1, <3>3
  <2>2. CASE \E refused \in SUBSET job.adding :
            /\ AddToTeam(job.made, job.adding, refused)
            /\ job' = [job EXCEPT !.pc = "members", !.adding = refused]
    <3>1. PICK refused \in SUBSET job.adding :
            /\ AddToTeam(job.made, job.adding, refused)
            /\ job' = [job EXCEPT !.pc = "members", !.adding = refused]
      BY <2>2
    <3>2. MembersBut(job.made, azure[job.made].members \cup (job.adding \ refused))
      BY <2>0, <3>1, SetMembersMembers DEF AddToTeam
    <3>3. job'.adding = refused
      BY <1>0, <3>1 DEF Job
    <3> QED BY <1>1, <3>2, <3>3
  <2> QED BY <2>0, <2>1, <2>2 DEF JoinTeam
<1>2. CASE job.pc = "members"
  <2>0. AddMembers /\ job.made \in 1 .. Len(azure)
    BY <1>0, <1>2, GoesOnFrom
  <2>1. MembersBut(job.made, azure[job.made].members \cup job.adding)
    <3>1. CASE job.adding = {}
      BY <1>b, <2>0, <3>1 DEF AddMembers
    <3>2. CASE job.adding # {}
      BY <1>0, <2>0, <3>2, AddToMembers DEF AddMembers
    <3> QED BY <3>1, <3>2
  <2> QED BY <1>2, <2>1
<1>3. CASE job.pc = "gather"
  <2>0. job.id \in 1 .. Len(azure)
    BY <1>0, <1>3 DEF Loose
  <2>1. CASE Gather
    <3>1. azure' = azure /\ job'.pc # "remove"
      <4>1. PICK h \in job.todo \cap Group :
          \/ job' = [job EXCEPT !.pc = "post", !.todo = @ \ {h}, !.target = h,
                                !.cur = ldap[h], !.then = "gather"]
          \/ job' = [job EXCEPT !.todo = @ \ {h}]
        BY <2>1 DEF Gather
      <4>2. job'.pc # "remove"
        BY <1>0, <1>3, <4>1 DEF Job
      <4> QED BY <2>1, <4>2 DEF Gather
    <3> QED BY <1>3, <1>a, <3>1
  <2>2. CASE AddNew
    <3>1. job'.pc = "remove"
      BY <1>0, <2>2 DEF AddNew, Job
    <3> QED BY <1>0, <1>3, <2>0, <2>2, <3>1, AddToMembers DEF AddNew
  <2> QED BY <1>3, <2>1, <2>2, GoesOnFrom
<1>4. CASE job.pc = "remove"
  <2>0. job.id \in 1 .. Len(azure)
    BY <1>0, <1>4 DEF Loose
  <2>1. CASE RemoveMember
    <3>1. PICK x \in job.todo :
       /\ Drop(x)
       /\ \/ /\ x \in azure[job.id].members \cap ids
             /\ SetGroup(job.id, [azure[job.id] EXCEPT !.members = @ \ {x}])
          \/ /\ x \in User \ ids
             /\ UNCHANGED azure
          \/ /\ x \in Group
             /\ UNCHANGED azure
      BY <2>1 DEF RemoveMember
    <3>2. job'.pc = "remove" /\ job'.todo = job.todo \ {x}
      BY <1>0, <1>4, <3>1 DEF Drop, Job
    <3>3. \/ x \in ids /\ MembersBut(job.id, azure[job.id].members \ {x})
          \/ x \notin ids /\ MembersStay
      <4>1. x \in Group => x \notin ids
        BY GroupOrUser, Kept
      <4> QED BY <1>a, <2>0, <3>1, <4>1, SetMembersMembers
    <3> QED BY <1>4, <3>2, <3>3
  <2>2. CASE RemoveEmpty
    <3>1. [azure[job.id] EXCEPT !.name = Renamed].members = azure[job.id].members
      BY <1>0, <2>0, GroupAt DEF AzureGroup
    <3>2. MembersStay
      BY <2>0, <2>2, <3>1, SetOtherMembers DEF RemoveEmpty
    <3>3. job'.pc # "remove" /\ job.todo = {}
      BY <1>0, <2>2 DEF RemoveEmpty, Goto, Job
    <3> QED BY <1>4, <3>2, <3>3
  <2>3. CASE KeepGroup
    <3>1. MembersStay
      BY <1>a, <2>3 DEF KeepGroup
    <3>2. job'.pc # "remove" /\ job.todo = {}
      BY <1>0, <2>3 DEF KeepGroup, Goto, Job
    <3> QED BY <1>4, <3>1, <3>2
  <2> QED BY <1>4, <2>1, <2>2, <2>3, GoesOnFrom
<1>5. CASE job.pc = "clear"
  <2>0. job.id \in 1 .. Len(azure) /\ Clear
    BY <1>0, <1>5, GoesOnFrom DEF Loose
  <2>1. CASE azure[job.id].name = Gone
    BY <1>0, <1>5, <1>a, <2>0, <2>1 DEF Clear, Goto, Job
  <2>2. CASE azure[job.id].name # Gone
    <3>1. job'.pc = "bury" /\ SetGroup(job.id, [azure[job.id] EXCEPT !.members = {}])
      BY <1>0, <2>0, <2>2 DEF Clear, Goto, Job
    <3> QED BY <1>5, <2>0, <3>1, SetMembersMembers
  <2> QED BY <2>1, <2>2
<1>6. CASE job.pc = "join"
  <2>1. CASE azure' = azure
    BY <1>6, <1>a, <2>1
  <2>2. CASE azure' # azure
    <3>1. PICK g \in job.todo \cap Group : JoinGroup(g)
      BY <1>6, <2>2, GoesOnFrom DEF Join, Joined, JoinNew
    <3>2. Here(g) /\ ldap[g].id # 0 /\ AddTo(ldap[g].id, {job.item})
      BY <2>2, <3>1 DEF JoinGroup
    <3>3. ldap[g].id \in 1 .. Len(azure)
      BY <1>0, <3>2, IdsThere
    <3>4. MembersBut(ldap[g].id, azure[ldap[g].id].members \cup {job.item})
      BY <1>0, <3>2, <3>3, AddToMembers
    <3> QED BY <1>6, <3>2, <3>4
  <2> QED BY <2>1, <2>2
<1>7. CASE job.pc \notin {"team", "members", "gather", "remove", "clear", "join"}
  <2>1. CASE PostTake \/ Write \/ CreateParent \/ Created \/ Convert \/ Lost \/ Get \/ Forget
    BY <1>a, <2>1 DEF PostTake, Write, CreateParent, Created, Convert, Lost, Get, Forget
  <2>2. CASE PostNew
    BY <1>0, <2>2 DEF PostNew, MembersStay
  <2>3. CASE Revive \/ AddOwners \/ Disown \/ CheckTeam \/ UpdateName \/ Archive \/ Bury
    <3>1. CASE azure' = azure
      BY <1>7, <1>a, <3>1
    <3>2. CASE azure' # azure
      <4>1. job.id \in 1 .. Len(azure)
        BY <1>0, <2>3 DEF Loose, Revive, AddOwners, Disown, CheckTeam, UpdateName, Archive, Bury
      <4>2. azure[job.id] \in AzureGroup
        BY <1>0, <4>1
      <4>3. \/ \E n : SetGroup(job.id, [azure[job.id] EXCEPT !.name = n])
            \/ \E O : SetGroup(job.id, [azure[job.id] EXCEPT !.owners = O])
            \/ \E t : SetGroup(job.id, [azure[job.id] EXCEPT !.team = t])
        BY <2>3, <3>2 DEF Revive, AddOwners, Disown, CheckTeam, UpdateName, Archive, Bury
      <4>4. /\ \A n : [azure[job.id] EXCEPT !.name = n].members = azure[job.id].members
            /\ \A O : [azure[job.id] EXCEPT !.owners = O].members = azure[job.id].members
            /\ \A t : [azure[job.id] EXCEPT !.team = t].members = azure[job.id].members
        BY <4>2 DEF AzureGroup
      <4>5. \E r : SetGroup(job.id, r) /\ r.members = azure[job.id].members
        BY <4>3, <4>4
      <4>6. MembersStay
        BY <4>1, <4>5, SetOtherMembers
      <4> QED BY <1>7, <4>6
    <3> QED BY <3>1, <3>2
  <2>4. ~(JoinTeam \/ AddMembers \/ Gather \/ AddNew \/ RemoveMember \/ RemoveEmpty \/ KeepGroup \/ Clear \/ Join \/ Joined)
    BY <1>7 DEF JoinTeam, AddMembers, Gather, AddNew, RemoveMember, RemoveEmpty, KeepGroup, Clear, Join, Joined
  <2> QED BY <1>7, <2>1, <2>2, <2>3, <2>4 DEF Advancing
<1> QED BY <1>1, <1>2, <1>3, <1>4, <1>5, <1>6, <1>7

-----------------------------------------------------------------------------
(* A group keeps its objectId.                                             *)

\* Only an empty group is taken out of its entry.
Emptying == Own /\ job.pc = "forget" => azure[job.id].members = {}

\* After the create, the entry has the objectId.
Made == busy /\ job.pc \in {"team", "members"} => ldap[job.target].id = job.made

\* The group that modify creates anew is the one it asked for, if any.
Asked ==
  Own /\ job.pc \in {"post", "write"} /\ job.target = job.item /\ job.then = "owners" =>
    job.id = IF job.old.id # 0 THEN job.old.id ELSE job.cur.id

\* While a call works on its group that is not deactivated.
Alive ==
  Own =>
    /\ Working /\ job.pc \notin {"revive", "forget", "rename"} => azure[job.id].name # Renamed
    /\ job.new.life = "here" /\ ldap[job.item].id \notin {0, job.new.id} /\ job.pc # "forget" =>
         azure[ldap[job.item].id].name # Renamed

\* Where LDAP has an objectId that the cache has not, the group was just
\* created; if the call emptied it, that goes on.
Renewed ==
  \A g \in Group : ldap[g].id # 0 =>
    /\ seen[g].life = "none" => azure[ldap[g].id].name \in {ldap[g].name, Gone}
    /\ seen[g].life = "here" /\ seen[g].id \notin {0, ldap[g].id} =>
         \/ azure[ldap[g].id].name \in {ldap[g].name, Gone}
         \/ /\ azure[ldap[g].id].name = Renamed /\ azure[ldap[g].id].members = {}
            /\ queue # <<>> /\ Head(queue) = g

\* A call that was given an alias keeps it.
Minded == Own /\ job.new.alias => job.mine

KeepInv == Emptying /\ Made /\ Asked /\ Alive /\ Renewed /\ Minded

LEMMA MembersRunJob == ASSUME IInv, RunJob PROVE MembersStay
<1> DEFINE j == Head(jobs)
<1>1. j.id \in 1 .. Len(azure) /\ azure[j.id] \in AzureGroup
  <2>1. jobs # <<>> /\ 1 \in DOMAIN jobs /\ jobs[1] = Head(jobs)
    BY Kept DEF RunJob
  <2>2. Known(jobs[1].id, Len(azure)) /\ jobs[1].id # 0
    BY <2>1 DEF IInv, IdsOfGroups
  <2>3. j.id \in 1 .. Len(azure)
    BY <2>1, <2>2 DEF Known
  <2> QED BY <2>3, Kept
<1>2. CASE azure' # azure
  <2>1. \A O, t : [azure[j.id] EXCEPT !.owners = O, !.team = t].members = azure[j.id].members
    BY <1>1 DEF AzureGroup
  <2>2. \E O, t : SetGroup(j.id, [azure[j.id] EXCEPT !.owners = O, !.team = t])
    BY <1>2 DEF RunJob
  <2>3. \E r : SetGroup(j.id, r) /\ r.members = azure[j.id].members
    BY <2>1, <2>2
  <2> QED BY <1>1, <2>3, SetOtherMembers
<1>3. CASE azure' = azure
  BY <1>3 DEF MembersStay
<1> QED BY <1>2, <1>3

\* While a call goes on, nobody else touches the members.
LEMMA MembersAside ==
  ASSUME IInv, IInv', CacheInv, [Next]_vars, Calm', busy, busy'
  PROVE  Advancing \/ MembersStay
<1>1. CASE (\E g \in Group, e \in Entry : Edit(g, e)) \/ (\E u \in User : Switch(u)) \/ UNCHANGED vars
  BY <1>1 DEF Edit, Put, Switch, Change, vars, MembersStay
<1>2. CASE RunJob
  BY <1>2, MembersRunJob
<1>3. CASE Purge \/ Clean \/ Start \/ Enable \/ Disable \/ Ignored \/ Crash
  BY <1>3 DEF Purge, Clean, Start, Enable, Disable, Ignored, Crash, busy
<1>4. CASE (busy /\ (Finish \/ Raising \/ Ignore)) \/ Fails
  BY <1>4, Ends DEF Ended, Return, busy
<1> QED BY <1>1, <1>2, <1>3, <1>4, Kinds

\* An administrator does not change an objectId.
LEMMA IdAside ==
  ASSUME IInv, CacheInv, FreshInv, Calm', NEW t \in Group,
         ldap' = ldap \/ \E g \in Group : /\ \A h \in Group : h # g => ldap'[h] = ldap[h]
                                          /\ \E e \in Entry : Edit(g, e)
  PROVE  ldap'[t].id = ldap[t].id
<1>1. CASE ldap' # ldap
  <2>1. PICK g \in Group, e \in Entry : Edit(g, e) /\ \A h \in Group : h # g => ldap'[h] = ldap[h]
    BY <1>1
  <2>2. ldap'[g] = e
    BY <2>1, CalmPut
  <2>3. e.id = ldap[g].id
    <3>1. ldap[g].life = "none" => ldap[g].id = 0
      BY DEF FreshInv, Lives, Nothing
    <3> QED BY <2>1, <3>1 DEF Edit
  <2> QED BY <2>1, <2>2, <2>3
<1> QED BY <1>1

LEMMA EmptyingNext ==
  ASSUME IInv, IInv', CacheInv, KindInv, FreshInv, NameInv, KeepInv, [Next]_vars, Calm'
  PROVE  Emptying'
<1>1. CASE busy /\ Advancing
  <2>0. Onward /\ job.pc \in PC /\ job.then \in {"convert", "owners", "gather"}
    BY <1>1, AdvancingStep, Fields DEF IInv
  <2>1. SUFFICES ASSUME job'.pc = "forget" PROVE azure'[job'.id].members = {}
    BY DEF Emptying
  <2>2. job.pc = "remove" /\ job'.id = job.id
    BY <2>0, <2>1 DEF Onward, Flow, Keeps, PC
  <2>3. azure[job.id].members = {} /\ MembersStay
    BY <1>1, <2>1, <2>2, Forgetting, MembersAdvance
  <2>4. job.id \in DOMAIN azure
    BY <1>1, <2>2, Mine, Kept DEF Loose
  <2> QED BY <2>2, <2>3, <2>4 DEF MembersStay
<1>2. CASE Start
  BY <1>2, Starting DEF Begun, Emptying
<1>3. CASE Enable
  BY <1>3, Enabling DEF Emptying
<1>4. CASE busy /\ job' = job /\ busy' /\ ~Advancing
  <2>1. MembersStay
    BY <1>4, MembersAside
  <2>2. job.pc = "forget" => job.id \in DOMAIN azure
    BY <1>4, Mine, Kept DEF Loose
  <2> QED BY <1>4, <2>1, <2>2 DEF Emptying, KeepInv, MembersStay, Own
<1> QED BY <1>1, <1>2, <1>3, <1>4, Elsewhere DEF Emptying, Own, NameInv

LEMMA MadeNext ==
  ASSUME IInv, IInv', CacheInv, KindInv, FreshInv, NameInv, KeepInv, [Next]_vars, Calm'
  PROVE  Made'
<1>1. CASE busy /\ Advancing
  <2>0. Onward /\ job.pc \in PC /\ job.then \in {"convert", "owners", "gather"} /\ job.target \in Group
    BY <1>1, AdvancingStep, Fields DEF IInv
  <2>1. SUFFICES ASSUME job'.pc \in {"team", "members"} PROVE ldap'[job'.target].id = job'.made
    BY DEF Made
  <2>2. job.pc \in {"write", "team"} /\ job'.target = job.target /\ job'.made = job.made
    BY <2>0, <2>1 DEF Onward, Flow, Keeps, PC
  <2>3. CASE job.pc = "write"
    <3>1. job.cur.id = ldap[job.target].id
      BY <1>1, <2>3 DEF NameInv, AtPost, Creation
    <3> QED BY <1>1, <2>0, <2>2, <2>3, <3>1, GoesOnFrom, WriteData, Gives DEF Still
  <2>4. CASE job.pc = "team"
    BY <1>1, <2>2, <2>4, StillUnless DEF Still, KeepInv, Made
  <2> QED BY <2>2, <2>3, <2>4
<1>2. CASE Start
  BY <1>2, Starting DEF Begun, Made
<1>3. CASE Enable
  BY <1>3, Enabling DEF Made
<1>4. CASE /\ busy /\ job' = job
           /\ ldap' = ldap \/ \E g \in Group : /\ \A h \in Group : h # g => ldap'[h] = ldap[h]
                                               /\ \E e \in Entry : Edit(g, e)
  BY <1>4, IdAside, Fields DEF Made, KeepInv, IInv
<1> QED BY <1>1, <1>2, <1>3, <1>4, Elsewhere DEF Made, NameInv

LEMMA AskedNext ==
  ASSUME IInv, IInv', CacheInv, KindInv, FreshInv, NameInv, KeepInv, [Next]_vars, Calm'
  PROVE  Asked'
<1> USE DEF NameInv
<1>1. CASE busy /\ Advancing
  <2>0. Onward /\ job.pc \in PC /\ job.then \in {"convert", "owners", "gather"} /\ job.target \in Group
    BY <1>1, AdvancingStep, Fields DEF IInv
  <2>1. SUFFICES ASSUME Own, job'.pc \in {"post", "write"}, job'.target = job.item, job'.then = "owners"
                 PROVE  /\ job'.old = job.old /\ job'.item = job.item
                        /\ job'.id = IF job.old.id # 0 THEN job.old.id ELSE job'.cur.id
    BY <2>0 DEF Asked, Own, Onward, Keeps
  <2>2. job'.old = job.old /\ job'.item = job.item /\ job'.id = job.id
    BY <2>0, <2>1 DEF Onward, Keeps, Flow
  <2>3. CASE job.pc = "post"
    BY <2>0, <2>1, <2>2, <2>3 DEF KeepInv, Asked, Onward, Keeps, Flow
  <2>4. CASE job.pc = "get"
    BY <2>0, <2>1, <2>2, <2>4 DEF AtGet, Onward, Keeps
  <2>5. CASE job.pc = "parents"
    <3>1. ldap[job.item].id # 0
      BY <2>1, <2>5 DEF AfterWrite, Creation
    <3>2. job'.pc = "post"
      BY <2>0, <2>1, <2>5 DEF Onward, Flow
    <3> QED BY <1>1, <2>1, <2>5, <3>1, <3>2, Posting
  <2>6. CASE job.pc \in {"gather", "join"}
    BY <2>0, <2>1, <2>6 DEF Onward, Keeps, Flow
  <2> QED BY <2>0, <2>1, <2>3, <2>4, <2>5, <2>6 DEF Onward, Flow, PC
<1>2. CASE Start
  <2>1. PICK g \in Group : Begun(g)
    BY <1>2, Starting
  <2> QED BY <2>1 DEF Begun, Asked
<1>3. CASE Enable
  BY <1>3, Enabling DEF Asked
<1>4. CASE busy /\ job' = job
  BY <1>4 DEF Asked, KeepInv, Own
<1> QED BY <1>1, <1>2, <1>3, <1>4, Elsewhere DEF Asked, Own

LEMMA MindedNext ==
  ASSUME IInv, IInv', CacheInv, KindInv, FreshInv, NameInv, KeepInv, [Next]_vars, Calm'
  PROVE  Minded'
<1>1. CASE busy /\ Advancing
  <2>0. Onward /\ job.item \in Group \cup User /\ job \in Job
    BY <1>1, AdvancingStep, Fields, Mine DEF IInv
  <2>1. SUFFICES ASSUME Own', job'.new.alias PROVE job'.mine
    BY DEF Minded
  <2>2. Own /\ job'.new = job.new /\ job.mine
    BY <2>0, <2>1 DEF Onward, Keeps, Own, CacheInv, InHand, KeepInv, Minded
  <2>3. CASE job.pc = "write"
    <3>1. job'.mine = (job.mine \/ job.target = job.group)
      BY <1>1, <2>0, <2>3, GoesOnFrom DEF Write, Job
    <3> QED BY <2>2, <3>1
  <2>4. CASE job.pc # "write"
    BY <2>0, <2>2, <2>4 DEF Onward, Keeps
  <2> QED BY <2>3, <2>4
<1>2. CASE Start
  <2>1. PICK g \in Group : Begun(g)
    BY <1>2, Starting
  <2> QED BY <2>1 DEF Begun, Minded
<1>3. CASE Enable
  BY <1>3, Enabling, GroupOrUser DEF Minded, Own
<1>4. CASE busy /\ job' = job
  BY <1>4 DEF Minded, KeepInv, Own
<1> QED BY <1>1, <1>2, <1>3, <1>4, Elsewhere DEF Minded, Own

LEMMA Revived ==
  ASSUME IInv, busy, Advancing, job.pc = "revive", job.new.name \in Name
  PROVE  azure'[job.id].name # Renamed
<1>1. Revive /\ job.id \in 1 .. Len(azure)
  BY GoesOnFrom, Mine DEF Loose
<1>2. Renamed \notin Name
  BY NamesAssumption
<1>3. CASE azure[job.id].name = Renamed
  <2>1. NamesBut(job.id, job.new.name)
    BY <1>1, <1>3, SetNameNames DEF Revive
  <2> QED BY <1>2, <2>1 DEF NamesBut
<1>4. CASE azure[job.id].name # Renamed
  BY <1>1, <1>4 DEF Revive
<1> QED BY <1>3, <1>4

LEMMA AliveAdvance ==
  ASSUME IInv, IInv', CacheInv, KindInv, FreshInv, NameInv, KeepInv, [Next]_vars, Calm', busy, Advancing
  PROVE  Alive'
<1> USE DEF NameInv
<1>0. /\ Onward /\ job.pc \in PC /\ job.then \in {"convert", "owners", "gather"}
      /\ job.target \in Group /\ job.item \in Group \cup User
  BY AdvancingStep, Fields DEF IInv
<1>1. /\ job'.item = job.item /\ (Own' <=> Own)
      /\ Own => job'.new = job.new
  BY <1>0 DEF Onward, Keeps, Own, CacheInv, InHand
<1>2. SUFFICES ASSUME Own, Own'
               PROVE  /\ Working' /\ job'.pc \notin {"revive", "forget", "rename"} => azure'[job'.id].name # Renamed
                      /\ job.new.life = "here" /\ ldap'[job.item].id \notin {0, job.new.id} /\ job'.pc # "forget" =>
                           azure'[ldap'[job.item].id].name # Renamed
  BY <1>1 DEF Alive
<1>3. Renamed \notin Name /\ (job.new.life = "here" => job.new.name \in Name)
  BY <1>2, ClaimOwn, ClaimNames, NamesAssumption DEF Own
<1>4. CASE job.pc = "write"
  <2>1. Write /\ azure' = azure /\ ldap'[job.item].id = job'.id
    BY <1>2, <1>4, GoesOnFrom, WriteAfter DEF Write
  <2>2. job'.id = IF job.target = job.group THEN job.made ELSE job.id
    BY <2>1, Fields DEF Write, Job, IInv
  <2>3. CASE job.target = job.item
    <3>1. job'.id = job.made
      BY <1>2, <2>2, <2>3 DEF CacheInv, InHand, Own
    <3>2. azure[job.made].name \in Name
      BY <1>0, <1>4, ClaimNames DEF AtPost, Creation
    <3> QED BY <1>3, <2>1, <3>1, <3>2
  <2>4. CASE job.target # job.item
    <3>1. job'.id = job.id
      BY <1>2, <2>2, <2>4 DEF CacheInv, InHand, Own
    <3>2. Working
      BY <1>4, <2>4 DEF Working
    <3>3. azure[job.id].name # Renamed
      BY <1>2, <1>4, <3>2 DEF KeepInv, Alive
    <3> QED BY <2>1, <3>1, <3>3
  <2> QED BY <2>3, <2>4
<1>5. CASE job.pc # "write"
  <2>1. job'.id = job.id
    BY <1>0, <1>5 DEF Onward, Keeps
  <2>2. ASSUME Working', job'.pc \notin {"revive", "forget", "rename"} PROVE azure'[job.id].name # Renamed
    <3>1. job.pc # "forget" /\ (job.pc \notin {"get", "rename", "post"} => Working)
      BY <1>0, <1>1, <1>2, <1>5, <2>2 DEF Onward, Flow, PC, Working, Changing, Own, CacheInv, InHand
    <3>2. job.pc \notin {"get", "rename"}
      BY <1>0, <1>1, <1>2, <2>2 DEF Onward, Flow, Working, Changing, Keeps, AtGet
    <3>3. job.pc = "post" => Working
      BY <1>0, <1>1, <2>2 DEF Onward, Flow, Keeps, Working, Changing
    <3>4. job.new.life = "here"
      BY <1>2, <3>1, <3>2, <3>3 DEF KindInv, Working, Changing, Burial
    <3>5. CASE job.pc = "revive"
      BY <1>3, <3>4, <3>5, Revived
    <3>6. CASE job.pc # "revive"
      <4>1. azure[job.id].name # Renamed /\ job.id \in DOMAIN azure
        BY <1>2, <3>1, <3>2, <3>3, <3>6, CallIds DEF KeepInv, Alive, AfterWrite, Working
      <4>2. ~Renames \/ job.pc = "rename"
        BY <1>2, <2>2, <3>1, <3>2, <3>3, <3>4, <3>6 DEF Renames, KindInv, Burial
      <4> QED BY <3>2, <4>1, <4>2, NamesAdvance DEF NamesStay
    <3> QED BY <3>5, <3>6
  <2>3. ASSUME job.new.life = "here", ldap'[job.item].id \notin {0, job.new.id}, job'.pc # "forget"
        PROVE  azure'[ldap'[job.item].id].name # Renamed
    <3>1. job.pc # "forget"
      <4>1. CASE job.pc = "forget"
        <5>1. Given(job.group, 0) /\ job.group = job.item /\ job.item \in Group
          BY <1>2, <4>1, GoesOnFrom, ForgetData DEF CacheInv, InHand, Own
        <5>2. ldap'[job.item].id = 0
          BY <5>1, Gives
        <5> QED BY <2>3, <5>2
      <4> QED BY <4>1
    <3>2. ldap' = ldap
      BY <1>5, <3>1, StillUnless DEF Still
    <3>3. azure[ldap[job.item].id].name # Renamed /\ ldap[job.item].id \in DOMAIN azure
      BY <1>2, <2>3, <3>1, <3>2, IdsThere DEF KeepInv, Alive, Own
    <3>4. CASE NamesStay
      BY <3>2, <3>3, <3>4 DEF NamesStay
    <3>5. CASE Renames
      <4>1. CASE ldap[job.item].id # job.id
        BY <3>2, <3>3, <3>5, <4>1, RenamesOwn
      <4>2. CASE ldap[job.item].id = job.id
        <5>1. job.pc \in {"revive", "rename"}
          BY <1>2, <2>3, <3>5 DEF Renames, KindInv, Burial
        <5> QED BY <1>3, <2>3, <3>2, <4>2, <5>1, Revived, Rewritten
      <4> QED BY <4>1, <4>2
    <3> QED BY <3>4, <3>5, NamesAdvance
  <2> QED BY <2>1, <2>2, <2>3
<1> QED BY <1>4, <1>5

LEMMA AliveNext ==
  ASSUME IInv, IInv', CacheInv, KindInv, FreshInv, NameInv, KeepInv, [Next]_vars, Calm'
  PROVE  Alive'
<1>1. CASE busy /\ Advancing
  BY <1>1, AliveAdvance
<1>2. CASE Start
  <2>1. PICK g \in Group : Begun(g)
    BY <1>2, Starting
  <2>2. /\ job'.item = g /\ job'.target = g /\ job'.new = ldap[g] /\ ldap' = ldap
        /\ job'.pc \in {"post", "get", "ignore", "done", "archive", "clear"}
    BY <2>1 DEF Begun, Still
  <2> QED BY <2>2 DEF Alive, Working, Changing
<1>3. CASE Enable
  BY <1>3, Enabling, GroupOrUser DEF Alive, Own
<1>4. CASE /\ busy /\ job' = job /\ NamesStay
           /\ ldap' = ldap \/ \E g \in Group : g \notin Range(queue) /\ \A h \in Group : h # g => ldap'[h] = ldap[h]
  <2>1. job.item \in Range(queue) /\ (Own' <=> Own)
    BY <1>4, HeadWaits DEF Own, busy
  <2>2. Own => ldap'[job.item] = ldap[job.item]
    BY <1>4, <2>1 DEF Own
  <2>3. job.id # 0 => job.id \in DOMAIN azure
    BY <1>4, CallIds
  <2>4. Own /\ ldap[job.item].id # 0 => ldap[job.item].id \in DOMAIN azure
    BY IdsThere DEF Own
  <2>5. Own /\ Working => job.id # 0
    BY DEF NameInv, AfterWrite, Working
  <2> QED BY <1>4, <2>1, <2>2, <2>3, <2>4, <2>5 DEF Alive, KeepInv, NamesStay, Working
<1> QED BY <1>1, <1>2, <1>3, <1>4, Elsewhere DEF Alive, Own, NameInv

\* What Renewed says of one group, with the queue q.
RenewedAt(g, q) ==
  ldap[g].id # 0 =>
    /\ seen[g].life = "none" => azure[ldap[g].id].name \in {ldap[g].name, Gone}
    /\ seen[g].life = "here" /\ seen[g].id \notin {0, ldap[g].id} =>
         \/ azure[ldap[g].id].name \in {ldap[g].name, Gone}
         \/ /\ azure[ldap[g].id].name = Renamed /\ azure[ldap[g].id].members = {}
            /\ q # <<>> /\ Head(q) = g

LEMMA RenewedEach == (Renewed <=> \A g \in Group : RenewedAt(g, queue)) /\ (Renewed' <=> \A g \in Group : RenewedAt(g, queue)')
BY DEF Renewed, RenewedAt

\* A step that changes no entry of the group leaves it so.
LEMMA RenewedStays ==
  ASSUME IInv, NEW g \in Group, RenewedAt(g, queue), seen'[g] = seen[g],
         ldap'[g].id = ldap[g].id, ldap'[g].name = ldap[g].name,
         Head(queue) = g /\ queue # <<>> => Head(queue') = g /\ queue' # <<>>,
         \A i \in DOMAIN azure \cap {ldap[g].id} : azure'[i].name = azure[i].name \/ azure'[i].name = Gone,
         \A i \in DOMAIN azure \cap {ldap[g].id} :
            /\ azure[i].name = Renamed /\ azure[i].members = {} /\ queue # <<>> /\ Head(queue) = g
            /\ seen[g].life = "here" /\ seen[g].id \notin {0, i}
            => azure'[i].members = {}
  PROVE  RenewedAt(g, queue)'
<1>1. SUFFICES ASSUME ldap[g].id # 0 PROVE RenewedAt(g, queue)'
  BY DEF RenewedAt
<1>2. PICK i \in DOMAIN azure : i = ldap[g].id
  BY <1>1, IdsThere
<1>3. azure'[i].name = azure[i].name \/ azure'[i].name = Gone
  BY <1>2
<1>4. azure[i].name = Renamed /\ azure[i].members = {} /\ queue # <<>> /\ Head(queue) = g /\ seen[g].life = "here" /\ seen[g].id \notin {0, i} => azure'[i].members = {}
  BY <1>2
<1> QED BY <1>1, <1>2, <1>3, <1>4 DEF RenewedAt

LEMMA RenewedRenames ==
  ASSUME IInv, IInv', CacheInv, KindInv, FreshInv, NameInv, KeepInv, [Next]_vars, Calm', busy, Advancing, Renames,
         NEW g \in Group
  PROVE  RenewedAt(g, queue)'
<1>0. RenewedAt(g, queue) /\ Still /\ queue # <<>> /\ Head(queue) = job.item
  <2>1. job.pc \notin {"write", "forget"}
    BY DEF Renames
  <2> QED BY <2>1, RenewedEach, StillUnless, HeadWaits DEF KeepInv, CacheInv, InHand
<1>1. SUFFICES ASSUME ldap[g].id # 0, seen[g].life # "gone" PROVE RenewedAt(g, queue)'
  BY <1>0 DEF RenewedAt, Still
<1>2. ldap' = ldap /\ seen' = seen /\ queue' = queue
  BY <1>0 DEF Still
<1>3. ~Excused(g)
  BY <1>1 DEF Excused
<1> HIDE DEF Excused
<1>4. ldap[g].id \in Holds(g) /\ ldap[g].id \in DOMAIN azure
  BY <1>1, <1>3, IdsThere DEF Holds
<1>5. /\ Own /\ job.id \in Holds(job.item) /\ job.pc \in Changing \cup {"bury"}
      /\ \A h \in Group : h # job.item => job.id \notin Holds(h)
      /\ \A i \in DOMAIN azure : i # job.id => i \in DOMAIN azure' /\ azure'[i].name = azure[i].name
      /\ job.pc # "bury" => job.new.life = "here" /\ azure'[job.id].name \in {job.new.name, Renamed}
      /\ job.pc = "bury" => job.new.life = "gone"
  BY RenamesOwn
<1>6. MembersStay
  <2>1. job.pc \notin {"team", "members", "clear", "join", "gather"} /\ (job.pc = "remove" => job'.pc # "remove")
    BY DEF Renames
  <2> QED BY <2>1, MembersAdvance
<1>7. CASE ldap[g].id # job.id
  <2>1. azure'[ldap[g].id].name = azure[ldap[g].id].name /\ azure'[ldap[g].id].members = azure[ldap[g].id].members
    BY <1>4, <1>5, <1>6, <1>7 DEF MembersStay
  <2> QED BY <1>0, <1>2, <2>1, RenewedStays
<1>8. CASE ldap[g].id = job.id
  <2>1. g = job.item
    BY <1>4, <1>5, <1>8
  <2>2. CASE job.pc = "bury"
    <3>1. seen[g].life = "here" /\ seen[g].id = ldap[g].id
      BY <1>5, <2>1, <2>2 DEF KindInv, Burial, FreshInv, Fresh, Lives, CacheInv, InHand, Own
    <3> QED BY <1>2, <3>1 DEF RenewedAt
  <2>3. CASE job.pc # "bury"
    <3>1. job.new.name = ldap[g].name /\ job.new.life = "here"
      BY <1>5, <2>1, <2>3, ClaimOwn
    <3>2. CASE azure'[job.id].name = ldap[g].name
      BY <1>2, <1>8, <3>2 DEF RenewedAt
    <3>3. CASE azure'[job.id].name = Renamed
      <4>1. Renamed # job.new.name
        BY <1>5, <3>1, ClaimOwn, ClaimNames, NamesAssumption DEF Own
      <4>2. job.pc = "remove" /\ job'.pc = "forget"
        BY <2>3, <3>3, <4>1 DEF Renames, NamesBut
      <4>3. azure'[job.id].members = {}
        BY <1>4, <1>6, <1>8, <4>2, Forgetting DEF MembersStay
      <4>4. seen[g].life = "here"
        BY <1>5, <2>1, <3>1, <4>2 DEF KindInv, Creation, CacheInv, InHand, Own
      <4> QED BY <1>0, <1>2, <1>8, <2>1, <3>3, <4>3, <4>4 DEF RenewedAt
    <3> QED BY <1>5, <2>3, <3>1, <3>2, <3>3
  <2> QED BY <2>2, <2>3
<1> QED BY <1>7, <1>8

LEMMA RenewedGiven ==
  ASSUME IInv, IInv', CacheInv, KindInv, FreshInv, NameInv, KeepInv, [Next]_vars, Calm', busy, Write \/ Forget,
         NEW g \in Group
  PROVE  RenewedAt(g, queue)'
<1> USE DEF NameInv
<1>0. RenewedAt(g, queue) /\ azure' = azure /\ queue # <<>> /\ job.target \in Group /\ job.group \in Group
  BY RenewedEach, HeadWaits, Fields DEF Write, Forget, KeepInv, IInv
<1>1. CASE Still
  BY <1>0, <1>1, RenewedStays DEF Still
<1>2. CASE \E h \in Group, i \in Nat : Given(h, i) /\ g # h
  <2>1. PICK h \in Group, i \in Nat : Given(h, i) /\ g # h
    BY <1>2
  <2>2. ldap'[g] = ldap[g] /\ seen' = seen
    BY <2>1, Gives DEF Given
  <2>3. queue' # <<>> /\ Head(queue') = Head(queue)
    BY <1>0, <2>1, Notified DEF Given
  <2> QED BY <1>0, <2>2, <2>3, RenewedStays
<1>3. CASE Write /\ Given(job.target, job.made) /\ g = job.target
  <2>0. ldap'[g].id = job.made /\ Watched(ldap'[g]) = Watched(ldap[g])
    BY <1>0, <1>3, Gives
  <2>1. /\ ldap'[g].id = job.made /\ ldap'[g].name = ldap[g].name /\ seen' = seen
    BY <1>3, <2>0 DEF Watched, Given
  <2>2. job.pc = "write" /\ job.pc \in Creation
    BY <1>3 DEF Write, Creation
  <2>3. seen[g].life = "none" \/ seen[g].id # 0 => azure[job.made].name = ldap[g].name
    BY <1>3, <2>2 DEF AtPost
  <2> QED BY <1>0, <2>1, <2>3 DEF RenewedAt
<1>4. CASE Given(job.group, 0) /\ g = job.group
  <2>1. ldap'[g].id = 0
    BY <1>0, <1>4, Gives
  <2> QED BY <2>1 DEF RenewedAt
<1>5. CASE Forget
  BY <1>0, <1>2, <1>4, <1>5, ForgetData
<1>6. CASE Write
  <2>1. job.made \in Nat
    BY Fields DEF IInv
  <2> QED BY <1>0, <1>1, <1>2, <1>3, <1>6, <2>1, WriteData
<1> QED BY <1>5, <1>6

LEMMA RenewedOn ==
  ASSUME IInv, IInv', CacheInv, KindInv, FreshInv, NameInv, KeepInv, [Next]_vars, Calm', busy, Advancing,
         NamesStay, job.pc \notin {"write", "forget"}, NEW g \in Group
  PROVE  RenewedAt(g, queue)'
<1> USE DEF NameInv
<1>0. RenewedAt(g, queue) /\ Still /\ queue # <<>> /\ Head(queue) = job.item
  BY RenewedEach, StillUnless, HeadWaits DEF KeepInv, CacheInv, InHand
<1>1. ASSUME NEW i \in DOMAIN azure, i = ldap[g].id, azure[i].name = Renamed, azure[i].members = {}, Head(queue) = g, seen[g].life = "here"
      PROVE  azure'[i].members = {}
  <2>0. Own /\ g = job.item /\ i # 0
    BY <1>0, <1>1, Kept DEF Own
  <2>1. CASE MembersStay
    BY <1>1, <2>1 DEF MembersStay
  <2>2. ASSUME NEW j, NEW U, MembersBut(j, U), j # i PROVE azure'[i].members = {}
    BY <1>1, <2>2 DEF MembersBut
  <2>3. CASE job.pc \in {"team", "members"}
    <3>1. PICK U : MembersBut(job.made, U)
      BY <2>3, MembersAdvance
    <3>2. job.made # i
      <4>0. ldap[job.target].id = job.made /\ job.target \in Group
        BY <2>3, Fields DEF KeepInv, Made, IInv
      <4>1. CASE job.target = g
        <5>1. ldap[g].id = job.id /\ azure[job.id].name # Renamed
          BY <1>1, <2>0, <2>3 DEF AfterWrite, KeepInv, Alive, Working, Creation
        <5> QED BY <1>1, <5>1
      <4>2. CASE job.target # g
        <5>1. ~Excused(job.target) /\ ~Excused(g)
          BY <1>1, <2>3 DEF Excused, AtPost, Creation
        <5> HIDE DEF Excused
        <5>2. ASSUME job.made = i PROVE FALSE
          BY <1>1, <2>0, <4>0, <4>2, <5>1, <5>2 DEF Holds, HeldOnce
        <5> QED BY <5>2
      <4> QED BY <4>1, <4>2
    <3> QED BY <2>2, <3>1, <3>2
  <2>4. CASE job.pc = "gather" /\ job'.pc = "remove"
    <3>1. PICK U : MembersBut(job.id, U)
      BY <2>4, MembersAdvance
    <3>2. job.id # i
      BY <1>1, <2>0, <2>4 DEF KeepInv, Alive, Working, Changing
    <3> QED BY <2>2, <3>1, <3>2
  <2>5. CASE job.pc \in {"remove", "clear"}
    <3>1. MembersStay \/ \E U : MembersBut(job.id, U) /\ U \subseteq azure[job.id].members
      <4>1. ASSUME NEW x, MembersBut(job.id, azure[job.id].members \ {x})
            PROVE  \E U : MembersBut(job.id, U) /\ U \subseteq azure[job.id].members
        BY <4>1
      <4>2. MembersBut(job.id, {}) => \E U : MembersBut(job.id, U) /\ U \subseteq azure[job.id].members
        OBVIOUS
      <4>3. \/ MembersStay \/ MembersBut(job.id, {})
            \/ \E x : MembersBut(job.id, azure[job.id].members \ {x})
        BY <2>5, MembersAdvance
      <4> QED BY <4>1, <4>2, <4>3
    <3>2. CASE \E U : MembersBut(job.id, U) /\ U \subseteq azure[job.id].members
      <4>1. PICK U : MembersBut(job.id, U) /\ U \subseteq azure[job.id].members
        BY <3>2
      <4>2. CASE job.id = i
        BY <1>1, <4>1, <4>2 DEF MembersBut
      <4> QED BY <2>2, <4>1, <4>2
    <3> QED BY <2>1, <3>1, <3>2
  <2>6. job.pc # "join"
    BY <2>0 DEF CacheInv, InHand, Own
  <2> QED BY <2>1, <2>3, <2>4, <2>5, <2>6, MembersAdvance
<1>2. /\ \A i \in DOMAIN azure \cap {ldap[g].id} : azure'[i].name = azure[i].name
      /\ \A i \in DOMAIN azure \cap {ldap[g].id} :
            /\ azure[i].name = Renamed /\ azure[i].members = {} /\ queue # <<>> /\ Head(queue) = g
            /\ seen[g].life = "here" /\ seen[g].id \notin {0, i}
            => azure'[i].members = {}
  BY <1>1 DEF NamesStay
<1> QED BY <1>0, <1>2, RenewedStays DEF Still

LEMMA RenewedEnds ==
  ASSUME IInv, IInv', CacheInv, KindInv, FreshInv, NameInv, KeepInv, [Next]_vars, Ended, NEW g \in Group
  PROVE  RenewedAt(g, queue)'
<1> USE DEF NameInv
<1>0. /\ RenewedAt(g, queue) /\ azure' = azure /\ busy
      /\ ldap'[g].id = ldap[g].id /\ ldap'[g].name = ldap[g].name
      /\ Head(queue) = job.item
  BY RenewedEach DEF Ended, Return, CacheInv, InHand, KeepInv, Watched
<1>1. CASE g # job.item
  <2>1. seen'[g] = seen[g]
    BY <1>1, Kept DEF Ended, Return
  <2> QED BY <1>0, <1>1, <2>1, RenewedStays
<1>2. CASE g = job.item
  <2>1. Own /\ seen'[g] = job.new /\ job.new.life # "none"
    BY <1>0, <1>2, Kept DEF Own, Ended, Return, KindInv
  <2>2. SUFFICES ASSUME job.new.life = "here", ldap[g].id # 0, job.new.id \notin {0, ldap[g].id}
                 PROVE  azure[ldap[g].id].name \in {ldap[g].name, Gone}
    BY <1>0, <2>1 DEF RenewedAt
  <2>3. job.new.name = ldap[g].name /\ Here(g)
    BY <1>2, <2>1, <2>2, ClaimOwn
  <2>4. ~Excused(g)
    BY <1>2, <2>1, <2>2, Holding
  <2>5. ldap[g].id \in Holds(g)
    <3> HIDE DEF Excused
    <3> QED BY <2>2, <2>4 DEF Holds
  <2>6. azure[ldap[g].id].name \in {ldap[g].name, Renamed, Gone}
    BY <1>2, <2>1, <2>2, <2>3, <2>5, EndNamed
  <2>7. job.pc # "forget"
    <3>1. SUFFICES ASSUME job.pc = "forget" PROVE FALSE
      OBVIOUS
    <3>2. job.mine
      BY <2>1, <2>2 DEF CacheInv, Aliased, Own, KeepInv, Minded
    <3>3. ForgetNothing
      BY <3>1, <1>0 DEF Ended, Finish, Ignore, Raising, WriteGone, NestedUnknown, GatherUnknown, RemoveStranger, ArchiveNothing, JoinGone
    <3>4. Here(job.group)
      BY <1>2, <2>1, <2>3 DEF CacheInv, InHand, Own
    <3> QED BY <3>2, <3>3, <3>4 DEF ForgetNothing
  <2>8. azure[ldap[g].id].name # Renamed
    BY <1>2, <2>1, <2>2, <2>7 DEF KeepInv, Alive
  <2> QED BY <2>6, <2>8
<1> QED BY <1>1, <1>2

LEMMA RenewedNext ==
  ASSUME IInv, IInv', CacheInv, KindInv, FreshInv, NameInv, KeepInv, [Next]_vars, Calm'
  PROVE  Renewed'
<1>0. SUFFICES ASSUME NEW g \in Group PROVE RenewedAt(g, queue)'
  BY RenewedEach
<1>a. RenewedAt(g, queue)
  BY RenewedEach DEF KeepInv
<1>1. CASE \E h \in Group, e \in Entry : Edit(h, e)
  <2>1. PICK h \in Group, e \in Entry : Edit(h, e)
    BY <1>1
  <2>2. /\ h \notin Range(queue) /\ queue' = Notify(h) /\ ldap'[h] = e
        /\ \A k \in Group : k # h => ldap'[k] = ldap[k]
        /\ UNCHANGED <<seen, azure>>
    BY <2>1, CalmPut
  <2>3. CASE g # h
    <3>1. queue # <<>> => queue' # <<>> /\ Head(queue') = Head(queue)
      BY <2>2, Notified
    <3> QED BY <1>a, <2>2, <2>3, <3>1, RenewedStays
  <2>4. CASE g = h
    <3>1. seen[g] = ldap[g]
      BY <2>2, <2>4 DEF CacheInv, Settled
    <3>2. e.id = ldap[g].id /\ (seen[g].life = "none" => e.id = 0)
      BY <2>1, <2>4, <3>1 DEF Edit, FreshInv, Lives, Nothing
    <3> QED BY <2>2, <2>4, <3>1, <3>2 DEF RenewedAt
  <2> QED BY <2>3, <2>4
<1>2. CASE (\E u \in User : Switch(u)) \/ RunJob \/ Purge \/ Start \/ Enable \/ Crash \/ UNCHANGED vars
  <2>1. ldap' = ldap /\ seen' = seen
    BY <1>2 DEF Switch, Change, RunJob, Purge, Start, Enable, Crash, vars
  <2>2. queue # <<>> => queue' # <<>> /\ Head(queue') = Head(queue)
    <3>1. queue' = queue \/ \E u \in User : queue' = Notify(u)
      BY <1>2 DEF Switch, Change, RunJob, Purge, Start, Enable, Crash, vars
    <3> QED BY <3>1, Notified
  <2>3. \A i \in DOMAIN azure :
            /\ azure'[i].name = azure[i].name \/ azure'[i].name = Gone
            /\ azure'[i].members = azure[i].members
    <3>1. CASE Purge
      <4>1. PICK j \in DOMAIN azure : azure' = [azure EXCEPT ![j].name = Gone]
        BY <3>1 DEF Purge
      <4>2. \A i \in DOMAIN azure : azure[i] \in AzureGroup
        BY Kept
      <4>3. \A i \in DOMAIN azure : azure'[i] = IF i = j THEN [azure[i] EXCEPT !.name = Gone] ELSE azure[i]
        BY <4>1, Kept
      <4> QED BY <4>2, <4>3 DEF AzureGroup
    <3>2. CASE RunJob
      BY <3>2, RunJobNames, MembersRunJob DEF NamesStay, MembersStay
    <3>3. CASE azure' = azure
      BY <3>3
    <3> QED BY <1>2, <3>1, <3>2, <3>3 DEF Switch, Change, Start, Enable, Crash, vars
  <2> QED BY <1>a, <2>1, <2>2, <2>3, RenewedStays
<1>6. CASE Clean
  <2>1. queue = <<>>
    BY <1>6 DEF Clean, Calm
  <2>2. seen[g] = ldap[g] /\ ldap' = ldap /\ seen' = seen
    BY <1>6, <2>1 DEF Clean, CacheInv, Settled, Range
  <2>3. ldap[g].life = "none" => ldap[g].id = 0
    BY DEF FreshInv, Lives, Nothing
  <2> QED BY <2>2, <2>3 DEF RenewedAt
<1>3. CASE Disable \/ Ignored
  <2>1. ldap' = ldap /\ seen' = seen /\ queue # <<>> /\ Head(queue) # g
    BY <1>3, Kept, GroupOrUser DEF Disable, Ignored
  <2>2. \A i \in DOMAIN azure : azure'[i].name = azure[i].name
    <3>1. CASE azure' = azure
      BY <3>1
    <3>2. CASE Disable
      <4>1. \A i \in DOMAIN azure : azure'[i] = [azure[i] EXCEPT !.members = @ \ {queue[1]}]
        BY <3>2 DEF Disable
      <4>2. \A i \in DOMAIN azure : azure[i] \in AzureGroup
        BY Kept
      <4> QED BY <4>1, <4>2 DEF AzureGroup
    <3> QED BY <1>3, <3>1, <3>2 DEF Ignored
  <2> QED BY <1>a, <2>1, <2>2, RenewedStays
<1>4. CASE busy /\ Advancing
  <2>1. CASE Renames
    BY <1>4, <2>1, RenewedRenames
  <2>2. CASE job.pc \in {"write", "forget"}
    BY <1>4, <2>2, GoesOnFrom, RenewedGiven
  <2>3. CASE job.pc \notin {"write", "forget"} /\ NamesStay
    BY <1>4, <2>3, RenewedOn
  <2> QED BY <1>4, <2>1, <2>2, <2>3, NamesAdvance
<1>5. CASE (busy /\ (Finish \/ Raising \/ Ignore)) \/ Fails
  BY <1>5, Ends, RenewedEnds
<1> QED BY <1>1, <1>2, <1>3, <1>4, <1>5, <1>6, Kinds

LEMMA KeepInit == Init => KeepInv
<1> SUFFICES ASSUME Init PROVE KeepInv
  OBVIOUS
<1>1. ~busy /\ \A g \in Group : ldap[g].id = 0
  BY DEF Init, busy, Nothing
<1> QED BY <1>1 DEF KeepInv, Emptying, Made, Asked, Alive, Renewed, Minded, Own

LEMMA KeepNext ==
  ASSUME IInv, IInv', CacheInv, KindInv, FreshInv, NameInv, KeepInv, [Next]_vars, Calm'
  PROVE  KeepInv'
<1>1. Emptying' /\ Made' /\ Asked'
  BY EmptyingNext, MadeNext, AskedNext
<1>2. Alive' /\ Renewed' /\ Minded'
  BY AliveNext, RenewedNext, MindedNext
<1> QED BY <1>1, <1>2 DEF KeepInv

\* KeepInv is inductive together with NamesInv.
LEMMA KeepInvariance == Spec => [](NamesInv /\ (Calm => KeepInv))
<1>1. Init => NamesInv /\ KeepInv
  BY InitInv, CacheInit, FreshInit, NameInit, KeepInit DEF NamesInv
<1>2. NamesInv /\ NamesInv' /\ (Calm => KeepInv) /\ [Next]_vars => (Calm => KeepInv)'
  <2> SUFFICES ASSUME NamesInv, NamesInv', Calm => KeepInv, [Next]_vars, Calm' PROVE KeepInv'
    OBVIOUS
  <2>1. Calm
    BY CalmBefore DEF NamesInv
  <2> QED BY <2>1, KeepNext DEF NamesInv
<1> QED BY <1>1, <1>2, NamesInvariance, PTL DEF Spec

\* Where the entry of a group gets another objectId.
LEMMA OtherId ==
  ASSUME NamesInv, Calm, [Next]_vars, NEW g \in Group, ldap[g].id # 0, ldap'[g].id # ldap[g].id
  PROVE  /\ busy /\ job.group \in Group /\ job.target \in Group
         /\ \/ Write /\ Given(job.target, job.made) /\ g = job.target
            \/ Forget /\ Given(job.group, 0) /\ g = job.group
<1> USE DEF NamesInv
<1>1. ASSUME NEW h \in Group, NEW e, Edit(h, e) PROVE FALSE
  <2>1. ldap' = [ldap EXCEPT ![h] = e]
    BY <1>1 DEF Edit, Put
  <2>2. ldap[h].life = "none" => ldap[h].id = 0
    BY DEF FreshInv, Lives, Nothing
  <2>3. h # g \/ e.id = ldap[g].id
    BY <1>1, <2>2 DEF Edit
  <2> QED BY <2>1, <2>3, Kept
<1>2. ASSUME ldap' = ldap PROVE FALSE
  BY <1>2
<1>3. ASSUME NEW h \in Group, ldap' = [ldap EXCEPT ![h].alias = TRUE] PROVE FALSE
  <2>1. ldap[g] \in Entry
    BY Kept
  <2>2. ldap'[g] = IF h = g THEN [ldap[g] EXCEPT !.alias = TRUE] ELSE ldap[g]
    BY <1>3, Kept
  <2> QED BY <2>1, <2>2 DEF Entry
<1>4. CASE busy /\ Advancing
  <2>0. job.group \in Group /\ job.target \in Group
    BY <1>4, Fields DEF IInv
  <2>1. CASE Still
    BY <1>2, <2>1 DEF Still
  <2>2. ASSUME NEW h \in Group, NEW i, Given(h, i) PROVE h = g
    <3>1. ldap'[g] = ldap[g] \/ h = g
      BY <2>2, Kept DEF Given
    <3> QED BY <3>1
  <2>3. CASE job.pc = "write"
    <3>1. Given(job.target, job.made) /\ Write
      BY <1>4, <2>1, <2>3, GoesOnFrom, WriteData, <1>2 DEF Still
    <3> QED BY <1>4, <2>0, <2>2, <3>1
  <2>4. CASE job.pc = "forget"
    BY <1>4, <2>0, <2>2, <2>4, GoesOnFrom, ForgetData
  <2> QED BY <1>4, <2>1, <2>3, <2>4, StillUnless
<1>5. CASE (busy /\ (Finish \/ Raising \/ Ignore)) \/ Fails
  <2>1. busy /\ job.group \in Group
    BY <1>5, Fields DEF IInv, Fails
  <2>2. ldap' = ldap \/ ldap' = [ldap EXCEPT ![job.group].alias = TRUE]
    BY <1>5, <2>1, Ending, Ignoring DEF Closing
  <2> QED BY <1>2, <1>3, <2>1, <2>2
<1>6. CASE (\E u \in User : Switch(u)) \/ Purge \/ Clean \/ Start \/ Enable \/ Disable \/ Ignored \/ RunJob \/ Crash \/ UNCHANGED vars
  BY <1>2, <1>6 DEF Switch, Change, Purge, Clean, Start, Enable, Disable, Ignored, RunJob, Crash, vars
<1> QED BY <1>1, <1>4, <1>5, <1>6, Kinds

\* Whoever has an objectId keeps it: _create_group and modify write another one,
\* or none, only where the group in Azure was deleted for good, has no members
\* or is not the only one of its name.
THEOREM GroupKept == Spec => KeepsGroup
<1> DEFINE Kind(g) ==
       LET i == ldap[g].id IN
         \/ azure[i].name = Gone \/ azure[i].members = {}
         \/ \E k \in DOMAIN azure \ {i} : azure[k].name = azure[i].name
           Keep == Calm => \A g \in Group :
             LET i == ldap[g].id IN
               i # 0 /\ ldap'[g].id # i =>
                 \/ azure[i].name = Gone \/ azure[i].members = {}
                 \/ \E k \in DOMAIN azure \ {i} : azure[k].name = azure[i].name
<1>1. NamesInv /\ (Calm => KeepInv) /\ [Next]_vars => [Keep]_vars
  <2> SUFFICES ASSUME NamesInv, Calm => KeepInv, [Next]_vars, Calm, NEW g \in Group, ldap[g].id # 0, ldap'[g].id # ldap[g].id
               PROVE  Kind(g)
    OBVIOUS
  <2> USE DEF NamesInv, NameInv, KeepInv
  <2>0. PICK i \in DOMAIN azure : i = ldap[g].id
    BY IdsThere
  <2>1. CASE Forget /\ Given(job.group, 0) /\ g = job.group
    <3>1. busy /\ job.pc = "forget"
      BY <2>1, OtherId DEF Forget
    <3>2. Own /\ job.group = job.item
      BY <3>1, OwnCall DEF Creation, CacheInv, InHand, Own
    <3> QED BY <2>1, <3>1, <3>2 DEF AfterWrite, Changing, Emptying
  <2>2. CASE Write /\ Given(job.target, job.made) /\ g = job.target
    <3>1. busy /\ job.pc = "write" /\ job.pc \in Creation /\ job.pc \notin Burial \cup {"done"} \cup Changing \cup {"get"}
      BY <2>2, OtherId DEF Write, Creation, Burial, Changing
    <3>2. /\ job.cur.id = i /\ seen[g].life # "gone" /\ job.cur.name \in Claim(g)
          /\ azure[job.made].name = job.cur.name /\ job.made \in DOMAIN azure
          /\ seen[g].life = "none" \/ seen[g].id # 0 => job.cur.name = ldap[g].name
      BY <2>0, <2>2, <3>1, CallIds DEF AtPost
    <3>3. g = job.item /\ Own /\ job.old = seen[g] /\ job.new.life = "here"
      BY <2>0, <2>2, <3>1, <3>2 DEF AtPost, Own, CacheInv, InHand, KindInv
    <3>4. job.cur.name = job.new.name /\ job.then # "gather"
          /\ (job.old.id = 0 \/ azure[job.old.id].name = Gone) /\ (job.id = 0 \/ azure[job.id].name = Gone)
      BY <2>2, <3>1, <3>3 DEF AtPost
    <3>5. azure[i].name \in {job.new.name, Renamed, Gone}
      <4>1. i \in Holds(g)
        <5>1. ~Excused(g)
          BY <3>2 DEF Excused
        <5> HIDE DEF Excused
        <5> QED BY <2>0, <5>1 DEF Holds
      <4> QED BY <3>1, <3>3, <4>1 DEF Renaming
    <3>6. CASE azure[i].name = job.new.name
      <4>1. job.made # i
        <5>1. ldap'[g].id = job.made
          <6>1. ldap[g] \in Entry
            BY Kept
          <6>2. ldap'[g] = [ldap[g] EXCEPT !.id = job.made, !.alias = (job.made # 0)]
            BY <2>2, Kept DEF Given
          <6> QED BY <6>1, <6>2 DEF Entry
        <5> QED BY <2>0, <5>1
      <4> QED BY <2>0, <3>2, <3>4, <3>6, <4>1
    <3>7. CASE azure[i].name = Renamed
      <4>1. Renamed # job.cur.name /\ Renamed # Gone
        BY <3>2, ClaimNames, NamesAssumption DEF Renamed, Gone
      <4>2. seen[g].life = "here" /\ job.then = "owners"
        <5>1. seen[g].life # "none"
          BY <2>0, <3>2, <3>7, <4>1 DEF Renewed
        <5>2. job.then # "convert"
          BY <3>3, <5>1 DEF KindInv
        <5>3. seen[g].life \in {"none", "here", "gone"} /\ job.then \in {"convert", "owners", "gather"}
          BY <3>1, Kept, Fields DEF Entry, IInv
        <5> QED BY <3>2, <3>4, <5>1, <5>2, <5>3
      <4>3. seen[g].id # 0
        BY <2>0, <2>2, <3>1, <3>2, <3>3, <3>4, <3>7, <4>1, <4>2 DEF Asked
      <4>4. seen[g].id # i
        BY <2>0, <3>3, <3>4, <3>7, <4>1
      <4>5. azure[i].members = {}
        BY <2>0, <3>2, <3>7, <4>1, <4>2, <4>3, <4>4 DEF Renewed
      <4> QED BY <2>0, <4>5
    <3> QED BY <2>0, <3>5, <3>6, <3>7
  <2> QED BY <2>1, <2>2, OtherId
<1> QED BY <1>1, KeepInvariance, PTL DEF Spec, KeepsGroup

=============================================================================
