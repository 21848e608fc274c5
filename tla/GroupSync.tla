----------------------------- MODULE GroupSync -----------------------------
(***************************************************************************)
(* Groups in LDAP and their groups and teams in Azure: the listener module *)
(* office365-group, GroupConnector, UDMOfficeGroup, GroupAzure, TeamAzure, *)
(* the part of the user module that puts a user into its groups, the jobs  *)
(* that turn a group into a team, and the script check_for_empty_groups.   *)
(*                                                                         *)
(* One listener process calls both modules, one change after the other,    *)
(* with the entry as it was at the last call (old) and as it is now (new). *)
(* Whatever else the handlers read, they read from LDAP at that moment.    *)
(* The group module watches neither the objectId nor the alias it writes.  *)
(*                                                                         *)
(* There is one connection, all users carry its alias, and a user stands   *)
(* for its account.  The user module asks whether a user is to be          *)
(* synchronised (should_sync, here enabled): marked for Office 365, and    *)
(* neither disabled, nor locked, nor expired.  The group module asks only  *)
(* for the mark (is_enable, here marked).  An Azure group is a record at a *)
(* position of azure, the position being its objectId; 0 is none.  Of the  *)
(* attributes the name is kept.  An administrator changes one attribute at *)
(* a time and deletes only groups that are nested in no other.             *)
(***************************************************************************)
EXTENDS Integers, Sequences, FiniteSets, SequencesExt

CONSTANTS
  Group,      \* groups in LDAP
  Name,       \* their names, cn and displayName
  User,       \* users
  Nesting,    \* administrators put groups into groups
  Teams,      \* administrators make teams of groups
  Locks,      \* users are disabled or locked, or expire, and keep their mark
  MaxChanges, \* bound: changes made from outside
  MaxCrashes  \* bound: times the listener is killed

Renamed == "renamed"  \* ZZZ_deleted_<time>_<name>
Gone == "gone"        \* deleted for good by an administrator of Azure
NoName == "no name"   \* a group that has not been created

ASSUME NamesAssumption == {Renamed, Gone, NoName} \cap Name = {}
ASSUME KindsAssumption == User \cap Group = {} /\ NoName \notin User \cup Group
ASSUME BoundsAssumption == MaxChanges \in Nat /\ MaxCrashes \in Nat

VARIABLES
  ldap,     \* ldap[g]: the group in LDAP
  seen,     \* seen[g]: the group in the listener's cache
  marked,   \* users with univentionOffice365Enabled in LDAP
  enabled,  \* those of them who are not disabled, locked or expired in LDAP
  known,    \* users who were so in the listener's cache
  ids,      \* users with an objectId in LDAP
  named,    \* users with an objectId and a userPrincipalName in LDAP
  queue,    \* groups and users whose changes the listener has not handled
  azure,    \* groups of the tenant
  jobs,     \* jobs of the queue that turn a group into a team
  job,      \* the call of a listener module, or Idle
  changes,  \* changes made so far
  crashes,  \* times the listener was killed
  failed,   \* some call has failed (history)
  raced,    \* a group or a user was changed before its last change, or the
            \* module's own one that follows it, was handled, or a group was
            \* created before the change that freed its name was (history)
  owed,     \* groups of whose changes the code ignored or gave up one, and why
            \* (history, until all members are added to the empty group)
  late,     \* disabled users, and the groups of the tenant modify has put them
            \* into since, for their mark (history)
  cleaned   \* groups the script renamed, and the listener not back (history)

vars == <<ldap, seen, marked, enabled, known, ids, named, queue, azure, jobs, job,
          changes, crashes, failed, raced, owed, late, cleaned>>
people == <<marked, enabled, known, ids, named, late>>
outside == <<changes, crashes, raced, cleaned>>
counts == <<changes, crashes, cleaned>>

Nothing == [life |-> "none", name |-> NoName, users |-> {}, groups |-> {},
            team |-> FALSE, owners |-> {}, id |-> 0, alias |-> FALSE]
Idle == [pc |-> "idle"]
busy == job # Idle

PC == {"post", "write", "team", "members", "parents", "convert", "get", "revive",
       "owners", "disown", "teams", "gather", "remove", "forget",
       "rename", "ignore", "archive", "clear", "bury", "join", "done"}
Cause == {"last",      \* the last value of an attribute was removed
          "nested",    \* a KeyError, for a group with nested groups
          "stranger",  \* who was to be removed was no member
          "unformed",  \* the team was not made yet
          "gone",      \* one of a user's groups was deleted meanwhile
          "killed",    \* modify made a group anew, and did not get to its members
          "heir",      \* it took over a group of its name, which had members
          "team"}      \* a team not made or archived, owners not set
Entry == [life : {"none", "here", "gone"}, name : Name \cup {NoName},
          users : SUBSET User, groups : SUBSET Group, team : BOOLEAN,
          owners : SUBSET User, id : Nat, alias : BOOLEAN]
AzureGroup == [name : Name \cup {NoName, Renamed, Gone}, members : SUBSET User,
               owners : SUBSET User, team : {"none", "active", "archived"}]
TeamJob == [id : Nat, owners : SUBSET User]
Job == [pc : PC, item : Group \cup User, group : Group, old : Entry, new : Entry,
        id : Nat, todo : SUBSET (Group \cup User), target : Group, cur : Entry,
        made : Nat, adding : SUBSET User, above : SUBSET Group,
        then : {"convert", "owners", "gather"}, mine : BOOLEAN]

TypeOK ==
  /\ ldap \in [Group -> Entry]
  /\ seen \in [Group -> Entry]
  /\ marked \subseteq User /\ enabled \subseteq marked /\ known \subseteq User
  /\ ids \subseteq User /\ named \subseteq ids
  /\ queue \in Seq(Group \cup User)
  /\ azure \in Seq(AzureGroup)
  /\ jobs \in Seq(TeamJob)
  /\ job \in Job \cup {Idle}
  /\ changes \in 0 .. MaxChanges
  /\ crashes \in 0 .. MaxCrashes
  /\ failed \in BOOLEAN /\ raced \in BOOLEAN
  /\ owed \subseteq Group \X Cause /\ cleaned \subseteq Group
  /\ late \subseteq Nat \X User

\* Some users are enabled and have an account, there are no groups.
Init ==
  /\ ldap = [g \in Group |-> Nothing]
  /\ seen = ldap
  /\ enabled \in SUBSET User
  /\ marked \in IF Locks THEN {M \in SUBSET User : enabled \subseteq M} ELSE {enabled}
  /\ known = enabled /\ ids = enabled /\ named = enabled
  /\ queue = <<>> /\ azure = <<>> /\ jobs = <<>>
  /\ job = Idle
  /\ changes = 0 /\ crashes = 0
  /\ failed = FALSE /\ raced = FALSE
  /\ owed = {} /\ late = {} /\ cleaned = {}

Here(g) == ldap[g].life = "here"

\* The groups below a group, as far as LDAP has them.
Below(g) ==
  LET closed(S) == \A h \in S : ldap[h].groups \subseteq S
  IN {h \in Group : Here(h) /\ \A S \in SUBSET Group : g \in S /\ closed(S) => h \in S}

-----------------------------------------------------------------------------
(* Administrators, and the script.                                         *)

\* A change that still waits is read together with this one.
Waiting == Range(IF busy THEN Tail(queue) ELSE queue)
Notify(x) == IF x \in Waiting THEN queue ELSE Append(queue, x)

Change(x) ==
  /\ changes < MaxChanges
  /\ changes' = changes + 1
  /\ queue' = Notify(x)
  /\ raced' = (raced \/ x \in Range(queue))
  /\ UNCHANGED <<seen, known, ids, named, azure, jobs, job, crashes, failed, owed,
                 late, cleaned>>

Put(g, e) ==
  /\ Change(g)
  /\ ldap' = [ldap EXCEPT ![g] = e]
  /\ UNCHANGED <<marked, enabled>>

Free == {n \in Name : \A g \in Group : Here(g) => ldap[g].name # n}
Nestable(g) == IF Nesting THEN {h \in Group : Here(h) /\ g \notin Below(h) /\ h # g} ELSE {}
Ownable == IF Teams THEN SUBSET User ELSE {{}}

Add(g) ==
  /\ ldap[g].life = "none"
  /\ \E n \in Free, U \in SUBSET User, G \in SUBSET Nestable(g), O \in Ownable :
       \E t \in IF O = {} THEN {FALSE} ELSE BOOLEAN :
         Put(g, [Nothing EXCEPT !.life = "here", !.name = n, !.users = U,
                                !.groups = G, !.team = t, !.owners = O])

SetMembers(g) ==
  /\ Here(g)
  /\ \E U \in SUBSET User, G \in SUBSET Nestable(g) :
       /\ <<U, G>> # <<ldap[g].users, ldap[g].groups>>
       /\ Put(g, [ldap[g] EXCEPT !.users = U, !.groups = G])

Rename(g) ==
  /\ Here(g)
  /\ \E n \in Free : Put(g, [ldap[g] EXCEPT !.name = n])

\* A team has an owner.
SetOwners(g) ==
  /\ Here(g)
  /\ \E O \in Ownable \ {ldap[g].owners} :
       /\ ldap[g].team => O # {}
       /\ Put(g, [ldap[g] EXCEPT !.owners = O])

SetTeam(g) ==
  /\ Here(g) /\ ldap[g].owners # {}
  /\ Put(g, [ldap[g] EXCEPT !.team = ~@])

Delete(g) ==
  /\ Here(g)
  /\ \A h \in Group : Here(h) => g \notin ldap[h].groups
  /\ Put(g, [ldap[g] EXCEPT !.life = "gone"])

\* A user gets or loses the mark, is disabled or locked, or is not so any more.
Switch(u) ==
  /\ Change(u)
  /\ \E mark, sync \in BOOLEAN :
       /\ <<mark, sync>> # <<u \in marked, u \in enabled>>
       /\ sync => mark
       /\ mark => sync \/ Locks
       /\ marked' = IF mark THEN marked \cup {u} ELSE marked \ {u}
       /\ enabled' = IF sync THEN enabled \cup {u} ELSE enabled \ {u}
  /\ UNCHANGED ldap

\* While the listener is idle an administrator of Azure deletes a group for good,
Purge ==
  /\ ~busy /\ changes < MaxChanges
  /\ changes' = changes + 1
  /\ \E i \in DOMAIN azure :
       /\ azure[i].name # Gone
       /\ azure' = [azure EXCEPT ![i].name = Gone]
  /\ UNCHANGED <<ldap, seen, people, queue, jobs, job, crashes, failed, raced, owed, cleaned>>

\* or runs check_for_empty_groups --delete: get_members of the script returns
\* the empty list for every group.
Clean ==
  /\ ~busy /\ changes < MaxChanges
  /\ changes' = changes + 1
  /\ azure' = [i \in DOMAIN azure |->
                 [azure[i] EXCEPT !.name = IF @ = Gone THEN Gone ELSE Renamed]]
  /\ cleaned' = {g \in Group : Here(g) /\ ldap[g].id # 0}
  /\ raced' = (raced \/ queue # <<>>)
  /\ UNCHANGED <<ldap, seen, people, queue, jobs, job, crashes, failed, owed>>

-----------------------------------------------------------------------------
(* The listener calls its modules.                                         *)

\* UDMOfficeGroup.in_azure
InAzure(g) == marked \cap UNION {ldap[h].users : h \in Below(g)} # {}

Watched(e) == <<e.name, e.users, e.groups, e.team, e.owners>>

\* UDMOfficeObject.diff_keys looks at the attributes the new entry has.
Differs(old, new) ==
  \/ old.name # new.name
  \/ old.team # new.team
  \/ new.owners # {} /\ old.owners # new.owners
  \/ new.users \cup new.groups # {} /\ <<old.users, old.groups>> # <<new.users, new.groups>>

Call(x, g, pc, then) ==
  [pc |-> pc, item |-> x, group |-> g, old |-> seen[g], new |-> ldap[g],
   id |-> seen[g].id, todo |-> {}, target |-> g, cur |-> ldap[g], made |-> 0,
   adding |-> {}, above |-> {}, then |-> then, mine |-> ldap[g].alias]

\* GroupConnector.create.  After a crash nothing may be left to do, though the
\* group was created and should become a team.
StartCreate(g) ==
  /\ seen[g].life = "none" /\ Here(g)
  /\ job' = Call(g, g, IF InAzure(g) THEN "post" ELSE "done", "convert")
  /\ owed' = IF ldap[g].team /\ ldap[g].id # 0 /\ ~InAzure(g)
             THEN owed \cup {<<g, "team">>} ELSE owed

\* The first tests of GroupConnector.modify
StartModify(g) ==
  /\ seen[g].life = "here" /\ Here(g)
  /\ LET old == seen[g]  new == ldap[g]
         id == IF old.id # 0 THEN old.id ELSE new.id
         pc == IF Watched(old) = Watched(new) \/ ~(InAzure(g) \/ new.alias \/ old.alias)
               THEN "done"
               ELSE IF ~Differs(old, new) THEN "ignore"
               ELSE IF id = 0 THEN "post" ELSE "get"
     IN job' = [Call(g, g, pc, "owners") EXCEPT !.id = id]
  /\ UNCHANGED owed

StartDelete(g) ==
  /\ ldap[g].life = "gone"
  /\ LET old == seen[g]
         pc == IF old.life # "here" \/ old.id = 0 THEN "done"
               ELSE IF old.team THEN "archive" ELSE "clear"
     IN job' = Call(g, g, pc, "owners")
  /\ UNCHANGED owed

Start ==
  /\ ~busy /\ queue # <<>> /\ queue[1] \in Group
  /\ StartCreate(queue[1]) \/ StartModify(queue[1]) \/ StartDelete(queue[1])
  /\ UNCHANGED <<ldap, seen, people, queue, azure, jobs, outside, failed>>

\* The listener keeps the entry it has read, whether its module raises or not.
Return ==
  /\ seen' = IF job.item \in Group THEN [seen EXCEPT ![job.item] = job.new] ELSE seen
  /\ known' = IF job.item \in User THEN known \cup {job.item} ELSE known
  /\ job' = Idle
  /\ UNCHANGED <<marked, enabled, ids, named, late, azure, jobs, outside>>

Finish ==
  /\ job.pc = "done"
  /\ Return
  /\ queue' = Tail(queue)
  /\ UNCHANGED <<ldap, failed, owed>>

\* An exception leaves the handler.  A user's other groups are not reached.
Left(cause) == {<<g, cause>> : g \in {job.group} \cup (job.todo \cap Group)}
Raise(more) ==
  /\ Return
  /\ queue' = Tail(queue)
  /\ owed' = owed \cup more
  /\ UNCHANGED ldap

Goto(pc) == job' = [job EXCEPT !.pc = pc]
SetGroup(i, r) == azure' = [azure EXCEPT ![i] = r]

\* add_members, whose errors are logged
AddTo(i, U) ==
  \/ /\ SetGroup(i, [azure[i] EXCEPT !.members = @ \cup U])
     /\ UNCHANGED failed
  \/ /\ ~failed /\ failed' = TRUE
     /\ UNCHANGED azure

\* "No modifications found, ignoring."  An objectId that is only in the old
\* entry is written as None, with the alias.
Ignore ==
  /\ job.pc = "ignore"
  /\ LET write == job.old.id # 0 /\ job.new.id = 0 /\ Here(job.group) IN
     /\ ldap' = IF write THEN [ldap EXCEPT ![job.group].alias = TRUE] ELSE ldap
     /\ queue' = Tail(IF write THEN Notify(job.group) ELSE queue)
  /\ Return
  /\ owed' = owed \cup {<<job.group, "last">>}
  /\ UNCHANGED failed

-----------------------------------------------------------------------------
(* _create_group, for the group of the call, one nested in it, or one it   *)
(* is nested in.                                                           *)

\* Fault: the filter is not applied.
CalledFault(n) == {i \in DOMAIN azure : azure[i].name \in Name}
Called(n) == {i \in DOMAIN azure : azure[i].name = n}

\* GroupConnector.parse: what Azure is to have of an entry.
Parse(e) == [name |-> e.name, members |-> {}, owners |-> {}, team |-> "none"]

\* Nobody makes a team of a group that another one's change created again.
Unconverted == job.target # job.group /\ job.cur.team /\ seen[job.target].team

\* GroupAzure.create_or_modify
PostNew ==
  /\ job.pc = "post" /\ Called(job.cur.name) = {}
  /\ azure' = Append(azure, Parse(job.cur))
  /\ job' = [job EXCEPT !.pc = "write", !.made = Len(azure) + 1]
  /\ owed' = IF Unconverted THEN owed \cup {<<job.target, "team">>}
             ELSE owed \ {<<job.target, "team">>}
  /\ UNCHANGED <<ldap, seen, people, queue, jobs, outside, failed>>

\* exist takes the first group of the name, whoever is in it.
PostTake ==
  /\ job.pc = "post"
  /\ \E i \in Called(job.cur.name) :
       LET r == azure[i]
           taken == i # job.cur.id
           team == r.owners # {} \/ r.team # "none" \/ \E k \in DOMAIN jobs : jobs[k].id = i IN
       /\ job' = [job EXCEPT !.pc = "write", !.made = i]
       /\ owed' = owed
            \cup (IF taken /\ r.members # {} THEN {<<job.target, "heir">>} ELSE {})
            \cup (IF (taken /\ team) \/ Unconverted THEN {<<job.target, "team">>} ELSE {})
  /\ UNCHANGED <<ldap, seen, people, queue, azure, jobs, outside, failed>>

\* Fault: the users are not told from the groups of uniqueMember.
LdapUsersFault(e) == e.users \cup e.groups
\* UDMOfficeGroup.get_users_from_ldap
LdapUsers(e) == e.users \cap marked \cap named

\* modify_azure_attributes writes the id if it is another one.
Write ==
  /\ job.pc = "write"
  /\ IF job.cur.id = job.made
     THEN UNCHANGED <<ldap, queue>>
     ELSE /\ Here(job.target)
          /\ ldap' = [ldap EXCEPT ![job.target].id = job.made, ![job.target].alias = TRUE]
          /\ queue' = Notify(job.target)
  /\ job' = LET own == job.target = job.group IN
       [job EXCEPT !.pc = "team", !.adding = LdapUsers(job.cur),
                   !.cur.id = job.made, !.cur.alias = TRUE,
                   !.id = IF own THEN job.made ELSE @, !.mine = @ \/ own]
  /\ UNCHANGED <<seen, people, azure, jobs, outside, failed, owed>>

\* noObject: the group has been deleted meanwhile.
WriteGone ==
  /\ job.pc = "write"
  /\ job.cur.id # job.made /\ ~Here(job.target)
  /\ Raise(Left("gone"))
  /\ UNCHANGED failed

\* add_team_members: the answer names those it could not add.
AddToTeam(i, U, refused) ==
  SetGroup(i, [azure[i] EXCEPT !.members = @ \cup (U \ refused)])

\* add_ldap_members_to_azure_group, as members of the team if there is one
JoinTeam ==
  /\ job.pc = "team"
  /\ IF job.cur.team /\ azure[job.made].team = "active"
     THEN \E refused \in SUBSET job.adding :
            /\ AddToTeam(job.made, job.adding, refused)
            /\ job' = [job EXCEPT !.pc = "members", !.adding = refused]
     ELSE Goto("members") /\ UNCHANGED azure
  /\ UNCHANGED <<ldap, seen, people, queue, jobs, outside, failed, owed>>

\* get_nested_groups_with_azure_users calls udm_groups_with_azure_users of
\* every nested group, which no class has: __getattr__ raises a KeyError.
NestedUnknown ==
  /\ job.pc = "members" /\ job.cur.groups # {}
  /\ Raise(Left("nested") \cup {<<job.target, "nested">>})
  /\ UNCHANGED failed

AddMembers ==
  /\ job.pc = "members" /\ job.cur.groups = {}
  /\ IF job.adding = {} THEN UNCHANGED <<azure, failed>> ELSE AddTo(job.made, job.adding)
  /\ owed' = IF azure[job.made].members = {}
             THEN owed \ ({job.target} \X (Cause \ {"team"})) ELSE owed
  /\ Goto("parents")
  /\ UNCHANGED <<ldap, seen, people, queue, jobs, outside>>

\* The group waits for its own call, as does another one, which had its name.
Early(g) == \E h \in Group \cap Range(queue) : h # g /\ seen[h].name = ldap[g].name

\* get_groups_member_of_not_in_azure
Parents == job.above \cup {p \in Group : Here(p) /\ job.target \in ldap[p].groups}
Missing == {p \in Parents : ldap[p].id = 0}

CreateParent ==
  /\ job.pc = "parents"
  /\ \E p \in Missing :
       /\ job' = [job EXCEPT !.pc = "post", !.target = p, !.cur = ldap[p],
                             !.above = Parents \ {p}]
       /\ raced' = (raced \/ Early(p))
  /\ UNCHANGED <<ldap, seen, people, queue, azure, jobs, counts, failed, owed>>

Created ==
  /\ job.pc = "parents" /\ Missing = {}
  /\ job' = [job EXCEPT !.pc = job.then, !.above = {}]
  /\ UNCHANGED <<ldap, seen, people, queue, azure, jobs, outside, failed, owed>>

-----------------------------------------------------------------------------
(* GroupConnector.modify, for a group with an objectId.                    *)

\* Whatever the error, the group is taken for one that doesn't exist.
Lost ==
  /\ job.pc = "get"
  /\ \/ azure[job.id].name = Gone /\ UNCHANGED failed
     \/ ~failed /\ failed' = TRUE
  /\ Goto("post")
  /\ UNCHANGED <<ldap, seen, people, queue, azure, jobs, outside, owed>>

Get ==
  /\ job.pc = "get" /\ azure[job.id].name # Gone
  /\ Goto("revive")
  /\ UNCHANGED <<ldap, seen, people, queue, azure, jobs, outside, failed, owed>>

\* "If the azure group is deactivates, reactivate"
Revive ==
  /\ job.pc = "revive"
  /\ IF azure[job.id].name = Renamed
     THEN /\ SetGroup(job.id, [azure[job.id] EXCEPT !.name = job.new.name])
          /\ cleaned' = cleaned \ {job.group}
     ELSE UNCHANGED <<azure, cleaned>>
  /\ Goto("owners")
  /\ UNCHANGED <<ldap, seen, people, queue, jobs, changes, crashes, raced, failed, owed>>

Added == (job.new.users \ job.old.users) \cup (job.new.groups \ job.old.groups)
Removed == (job.old.users \ job.new.users) \cup (job.old.groups \ job.new.groups)
Pending == \E k \in DOMAIN jobs : jobs[k].id = job.id

\* Fault: owners_changes is read as the removed ones and the added ones.
NewOwnersFault == (job.old.owners \ job.new.owners) \cap ids
NewOwners == (job.new.owners \ job.old.owners) \cap ids

\* check_and_modify_owners: owners without an account are not added, a job
\* that waits knows other owners, and a team just created is left a group.
AddOwners ==
  /\ job.pc = "owners"
  /\ SetGroup(job.id, [azure[job.id] EXCEPT !.owners = @ \cup NewOwners])
  /\ owed' = IF \/ /\ job.new.owners # job.old.owners
                   /\ Pending \/ ~(job.new.owners \subseteq ids)
                \/ (job.made # 0 \/ job.old.id = 0) /\ job.old.team
             THEN owed \cup {<<job.group, "team">>} ELSE owed
  /\ Goto("disown")
  /\ UNCHANGED <<ldap, seen, people, queue, jobs, outside, failed>>

\* Microsoft refuses to remove the last one, whichever that is.
Disown ==
  /\ job.pc = "disown"
  /\ LET has == azure[job.id].owners
         stay == has \ (job.old.owners \ job.new.owners) IN
     \E O \in {stay} \cup {{u} : u \in has} :
       /\ O # stay <=> stay = {} /\ has # {}
       /\ SetGroup(job.id, [azure[job.id] EXCEPT !.owners = O])
       /\ owed' = IF O = stay THEN owed ELSE owed \cup {<<job.group, "team">>}
  /\ Goto("teams")
  /\ UNCHANGED <<ldap, seen, people, queue, jobs, outside, failed>>

\* convert_group_to_team
Enqueue ==
  /\ jobs' = Append(jobs, [id |-> job.id, owners |-> job.new.owners \cap ids])
  /\ owed' = IF job.new.owners \subseteq ids THEN owed
             ELSE owed \cup {<<job.group, "team">>}

\* check_and_modify_teams
CheckTeam ==
  /\ job.pc = "teams"
  /\ IF job.new.team /\ ~job.old.team
     THEN Enqueue /\ UNCHANGED azure
     ELSE /\ IF job.old.team /\ ~job.new.team /\ azure[job.id].team = "active"
             THEN SetGroup(job.id, [azure[job.id] EXCEPT !.team = "archived"])
             ELSE UNCHANGED azure
          /\ owed' = IF ~job.new.team /\ Pending THEN owed \cup {<<job.group, "team">>} ELSE owed
          /\ UNCHANGED jobs
  /\ job' = [job EXCEPT !.pc = "gather", !.todo = job.new.groups \ job.old.groups]
  /\ UNCHANGED <<ldap, seen, people, queue, outside, failed>>

\* check_and_modify_members: a nested group that has users is created; as it
\* is not nested in itself, it does not become a member.
Gather ==
  /\ job.pc = "gather"
  /\ \E h \in job.todo \cap Group :
       LET new == ldap[h].users \cap marked # {} /\ ldap[h].id = 0 IN
       /\ Here(h) => ldap[h].groups = {}
       /\ job' = IF Here(h) /\ new
                 THEN [job EXCEPT !.pc = "post", !.todo = @ \ {h}, !.target = h,
                                  !.cur = ldap[h], !.then = "gather"]
                 ELSE [job EXCEPT !.todo = @ \ {h}]
       /\ raced' = (raced \/ (Here(h) /\ new /\ Early(h)))
  /\ UNCHANGED <<ldap, seen, people, queue, azure, jobs, counts, failed, owed>>

GatherUnknown ==
  /\ job.pc = "gather"
  /\ \E h \in job.todo : Here(h) /\ ldap[h].groups # {}
  /\ Raise({<<job.group, "nested">>})
  /\ UNCHANGED failed

\* Fault: who has an account is not asked for the mark.
NewcomersFault == (job.new.users \ job.old.users) \cap ids
\* A user who is disabled keeps the mark and the objectId.
Newcomers == (job.new.users \ job.old.users) \cap marked \cap ids
AddNew ==
  /\ job.pc = "gather" /\ job.todo = {}
  /\ AddTo(job.id, Newcomers)
  /\ late' = late \cup {job.id} \X ((job.new.users \ job.old.users) \cap (marked \ enabled))
  /\ job' = [job EXCEPT !.pc = "remove", !.todo = Removed]
  /\ UNCHANGED <<ldap, seen, marked, enabled, known, ids, named, queue, jobs, outside, owed>>

Drop(x) == job' = [job EXCEPT !.todo = @ \ {x}]

\* A user without account, or a group that has none in Azure, is passed over.
RemoveMember ==
  /\ job.pc = "remove"
  /\ \E x \in job.todo :
       /\ Drop(x)
       /\ \/ /\ x \in azure[job.id].members \cap ids
             /\ SetGroup(job.id, [azure[job.id] EXCEPT !.members = @ \ {x}])
          \/ /\ x \in User \ ids
             /\ UNCHANGED azure
          \/ /\ x \in Group
             /\ Here(x) => ldap[x].id = 0 /\ Called(ldap[x].name) = {}
             /\ UNCHANGED azure
  /\ UNCHANGED <<ldap, seen, people, queue, jobs, outside, failed, owed>>

\* Microsoft knows no such member: 404, which nobody catches.
RemoveStranger ==
  /\ job.pc = "remove"
  /\ \E x \in job.todo :
       \/ x \in ids \ azure[job.id].members
       \/ /\ x \in Group /\ Here(x)
          /\ ldap[x].id # 0 \/ Called(ldap[x].name) # {}
  /\ Raise({<<job.group, "stranger">>})
  /\ UNCHANGED failed

\* Fault: whoever removes the last of the entry's users removes the group.
EmptiedFault == Removed # {} /\ Added = {}
Emptied == Removed # {} /\ Added = {} /\ azure[job.id].members = {}

\* delete_empty_group renames the group and takes it out of the entry: what
\* becomes of its team is not followed any more.
RemoveEmpty ==
  /\ job.pc = "remove" /\ job.todo = {} /\ Emptied
  /\ SetGroup(job.id, [azure[job.id] EXCEPT !.name = Renamed])
  /\ Goto("forget")
  /\ UNCHANGED <<ldap, seen, people, queue, jobs, outside, failed, owed>>

KeepGroup ==
  /\ job.pc = "remove" /\ job.todo = {} /\ ~Emptied
  /\ Goto("rename")
  /\ UNCHANGED <<ldap, seen, people, queue, azure, jobs, outside, failed, owed>>

\* deactivate_azure_attributes.  As no group is ever a member of another in
\* Azure, there is no parent to look at next.
Forget ==
  /\ job.pc = "forget" /\ job.mine /\ Here(job.group)
  /\ ldap' = [ldap EXCEPT ![job.group].id = 0, ![job.group].alias = FALSE]
  /\ queue' = Notify(job.group)
  /\ owed' = owed \cup {<<job.group, "team">>}
  /\ Goto("rename")
  /\ UNCHANGED <<seen, people, azure, jobs, outside, failed>>

\* The entry the handler has is without data, or gone from LDAP.
ForgetNothing ==
  /\ job.pc = "forget" /\ ~(job.mine /\ Here(job.group))
  /\ Raise({<<job.group, "gone">>})
  /\ UNCHANGED failed

\* check_and_modify_attributes, also of the group just removed
UpdateName ==
  /\ job.pc = "rename"
  /\ SetGroup(job.id, [azure[job.id] EXCEPT !.name = Parse(job.new).name])
  /\ Goto("done")
  /\ UNCHANGED <<ldap, seen, people, queue, jobs, outside, failed, owed>>

-----------------------------------------------------------------------------
(* GroupConnector.delete.                                                  *)

\* Microsoft finds no team, and delete catches another exception than that.
Archive ==
  /\ job.pc = "archive"
  /\ azure[job.id].team # "none" \/ azure[job.id].name = Gone
  /\ SetGroup(job.id, [azure[job.id] EXCEPT !.team = IF @ = "none" THEN @ ELSE "archived"])
  /\ Goto("clear")
  /\ UNCHANGED <<ldap, seen, people, queue, jobs, outside, failed, owed>>

ArchiveNothing ==
  /\ job.pc = "archive" /\ azure[job.id].team = "none"
  /\ Raise({<<job.group, "unformed">>})
  /\ UNCHANGED failed

\* Fault: the members stay.
ClearFault ==
  /\ job.pc = "clear"
  /\ Goto(IF azure[job.id].name = Gone THEN "done" ELSE "bury")
  /\ UNCHANGED <<ldap, seen, people, queue, azure, jobs, outside, failed, owed>>

\* remove_direct_members, or "Group didn't exist in Azure"
Clear ==
  /\ job.pc = "clear"
  /\ IF azure[job.id].name = Gone
     THEN Goto("done") /\ UNCHANGED azure
     ELSE Goto("bury") /\ SetGroup(job.id, [azure[job.id] EXCEPT !.members = {}])
  /\ UNCHANGED <<ldap, seen, people, queue, jobs, outside, failed, owed>>

Bury ==
  /\ job.pc = "bury"
  /\ SetGroup(job.id, [azure[job.id] EXCEPT !.name = Renamed])
  /\ Goto("done")
  /\ UNCHANGED <<ldap, seen, people, queue, jobs, outside, failed, owed>>

-----------------------------------------------------------------------------
(* The groups of a user, and teams.                                        *)

\* new_or_reactivate_user after the account: the groups follow.
Enable ==
  /\ ~busy /\ queue # <<>> /\ queue[1] \in enabled \ known
  /\ LET u == queue[1] IN
     /\ ids' = ids \cup {u} /\ named' = named \cup {u}
     /\ LET G == {g \in Group : Here(g) /\ u \in ldap[g].users} IN
        \E any \in IF G = {} THEN Group ELSE G :
          job' = [Call(u, any, "join", "convert") EXCEPT
                    !.todo = G, !.old = Nothing, !.new = Nothing, !.id = 0]
  /\ UNCHANGED <<ldap, seen, marked, enabled, known, late, queue, azure, jobs, outside,
                 failed, owed>>

\* Fault: the account stays in its groups.
DisableFault ==
  /\ ~busy /\ queue # <<>> /\ queue[1] \in known \ enabled
  /\ named' = named \ {queue[1]}
  /\ known' = known \ {queue[1]}
  /\ queue' = Tail(queue)
  /\ UNCHANGED <<ldap, seen, marked, enabled, ids, late, azure, jobs, job, outside, failed, owed>>

\* UserAzure.deactivate leaves all groups; the entry keeps the id.
Disable ==
  /\ ~busy /\ queue # <<>> /\ queue[1] \in known \ enabled
  /\ azure' = [i \in DOMAIN azure |-> [azure[i] EXCEPT !.members = @ \ {queue[1]}]]
  /\ named' = named \ {queue[1]}
  /\ known' = known \ {queue[1]}
  /\ late' = {p \in late : p[2] # queue[1]}
  /\ queue' = Tail(queue)
  /\ UNCHANGED <<ldap, seen, marked, enabled, ids, jobs, job, outside, failed, owed>>

\* Neither enabled nor disabled since the last call.
Ignored ==
  /\ ~busy /\ queue # <<>> /\ queue[1] \in User
  /\ queue[1] \in enabled <=> queue[1] \in known
  /\ queue' = Tail(queue)
  /\ UNCHANGED <<ldap, seen, people, azure, jobs, job, outside, failed, owed>>

JoinNew(g) ==
  /\ Here(g) /\ ~ldap[g].alias
  /\ job' = [job EXCEPT !.pc = "post", !.todo = @ \ {g}, !.group = g, !.new = ldap[g],
                        !.target = g, !.cur = ldap[g], !.then = "convert"]
  /\ raced' = (raced \/ Early(g))
  /\ UNCHANGED <<queue, seen, known, azure, failed, owed>>

\* add_member: where there is no team yet, the user is added to nothing.
JoinGroup(g) ==
  LET i == ldap[g].id
      unformed == i # 0 /\ ldap[g].team /\ azure[i].team = "none" IN
  /\ Here(g) /\ ldap[g].alias
  /\ Drop(g)
  /\ IF i = 0 \/ unformed
     THEN UNCHANGED <<azure, failed>>
     ELSE AddTo(i, {job.item})
  /\ owed' = IF unformed THEN owed \cup {<<g, "unformed">>} ELSE owed
  /\ UNCHANGED <<queue, seen, known, raced>>

Join ==
  /\ job.pc = "join"
  /\ \E g \in job.todo \cap Group : JoinNew(g) \/ JoinGroup(g)
  /\ UNCHANGED <<ldap, marked, enabled, ids, named, late, jobs, counts>>

Joined ==
  /\ job.pc = "join" /\ job.todo = {}
  /\ Goto("done")
  /\ UNCHANGED <<ldap, seen, people, queue, azure, jobs, outside, failed, owed>>

\* noObject: one of the groups has been deleted meanwhile.
JoinGone ==
  /\ job.pc = "join"
  /\ \E g \in job.todo : ~Here(g)
  /\ Raise(Left("gone"))
  /\ UNCHANGED failed

\* GroupConnector.create, new_or_reactivate_user: after _create_group
Convert ==
  /\ job.pc = "convert"
  /\ IF job.new.team THEN Enqueue ELSE UNCHANGED <<jobs, owed>>
  /\ Goto(IF job.item \in User THEN "join" ELSE "done")
  /\ UNCHANGED <<ldap, seen, people, queue, azure, outside, failed>>

\* The daemon adds the owners and makes the team.  Microsoft refuses a team
\* that exists, or one without an owner, and the job is given up.
RunJob ==
  /\ jobs # <<>>
  /\ jobs' = Tail(jobs)
  /\ LET j == Head(jobs)  r == azure[j.id]  O == r.owners \cup j.owners
         made == r.team = "none" /\ O # {} IN
     IF r.name = Gone
     THEN UNCHANGED <<azure, owed>>
     ELSE /\ SetGroup(j.id, [r EXCEPT !.owners = O,
                               !.team = IF made THEN "active" ELSE @])
          /\ owed' = IF made \/ r.team = "active" THEN owed
                     ELSE owed \cup {<<g, "team">> : g \in {h \in Group : ldap[h].id = j.id}}
  /\ UNCHANGED <<ldap, seen, people, queue, job, outside, failed>>

-----------------------------------------------------------------------------
\* Any call may raise what no handler catches.
Fails ==
  /\ busy /\ job.pc # "done" /\ ~failed
  /\ failed' = TRUE
  /\ Raise({})

\* The listener is killed: it handles the change again when it is back.  The
\* group then has its id, and modify only looks at what was changed.
Crash ==
  /\ busy /\ crashes < MaxCrashes
  /\ crashes' = crashes + 1
  /\ owed' = IF job.pc \in {"team", "members"} /\ job.old.life = "here"
             THEN owed \cup {<<job.target, "killed">>} ELSE owed
  /\ job' = Idle
  /\ UNCHANGED <<ldap, seen, people, queue, azure, jobs, changes, raced, cleaned, failed>>

Admin == \/ \E g \in Group : \/ Add(g) \/ SetMembers(g) \/ Rename(g) \/ SetOwners(g)
                             \/ SetTeam(g) \/ Delete(g)
         \/ \E u \in User : Switch(u)
         \/ Purge \/ Clean
Creating == PostNew \/ PostTake \/ Write \/ WriteGone \/ JoinTeam \/ NestedUnknown
              \/ AddMembers \/ CreateParent \/ Created \/ Convert
Modifying == Lost \/ Get \/ Revive \/ AddOwners \/ Disown \/ CheckTeam \/ Gather
               \/ GatherUnknown \/ AddNew \/ RemoveMember \/ RemoveStranger \/ RemoveEmpty
               \/ KeepGroup \/ Forget \/ ForgetNothing \/ UpdateName \/ Ignore
Deleting == Archive \/ ArchiveNothing \/ Clear \/ Bury
Joining == Join \/ Joined \/ JoinGone
Listener == \/ Start \/ Enable \/ Disable \/ Ignored
            \/ busy /\ (Creating \/ Modifying \/ Deleting \/ Joining \/ Finish)

Next == Admin \/ Listener \/ RunJob \/ Fails \/ Crash

Spec == Init /\ [][Next]_vars

-----------------------------------------------------------------------------
(* What the connector promises.                                            *)

Quiet == ~busy /\ queue = <<>>
Calm == ~failed /\ ~raced

Late(i) == {u \in User : <<i, u>> \in late}

\* What is promised of the members and the name of group g, whose changes
\* were all taken up.  A disabled user is a member only if put into it later.
Synced(g) ==
  LET e == ldap[g]  i == e.id  r == azure[i] IN
  /\ i = 0 /\ e.life = "here" => e.users \cap enabled = {}
  /\ i # 0 /\ r.name # Gone /\ e.life = "here" =>
       /\ e.users \cap enabled \subseteq r.members
       /\ r.members \subseteq e.users \cap (enabled \cup Late(i))
       /\ g \in cleaned \/ r.name = e.name
  /\ i # 0 /\ r.name # Gone /\ e.life = "gone" => r.members = {} /\ r.name = Renamed

Debtors(C) == {g \in Group : \E c \in C : <<g, c>> \in owed}

\* When every change has been handled, no call failed and nothing was changed
\* again before that, the group in Azure has the name of the group in LDAP and
\* the enabled ones of its users as members, and nobody else but users of the
\* group who were disabled or locked before they were put into it; a group that
\* was deleted is empty and renamed, and one without objectId has no enabled
\* user.  Users are enabled, disabled and locked while their groups change, and
\* the listener may have been killed.  Not so where the code ignored or gave up
\* a change.
InSync ==
  Quiet /\ Calm => \A g \in Group \ Debtors(Cause \ {"team"}) : Synced(g)

\* Neither do two groups ever share one in Azure, also in between.
OneGroupEach ==
  Calm => \A g, h \in Group :
    g # h /\ Here(g) /\ Here(h) /\ ldap[g].id # 0 => ldap[g].id # ldap[h].id

\* When the jobs are done as well, a group that is a team in LDAP is one in
\* Azure, with the owners of LDAP and the members InSync speaks of, though the
\* daemon works while the listener changes both; and no other group is.
TeamInSync ==
  Quiet /\ Calm /\ jobs = <<>> =>
    \A g \in Group \ Debtors(Cause) :
      LET i == ldap[g].id IN
      /\ Synced(g)
      /\ Here(g) /\ i # 0 /\ azure[i].name # Gone =>
           /\ ldap[g].team <=> azure[i].team = "active"
           /\ ldap[g].team => azure[i].owners = ldap[g].owners

\* A group keeps its objectId unless the group in Azure is gone or empty, so
\* that what people have there does not move to another one; or unless Azure has
\* another group of its name, which exist may find first.
KeepsGroup ==
  [][Calm => \A g \in Group :
       LET i == ldap[g].id IN
       i # 0 /\ ldap'[g].id # i =>
         \/ azure[i].name = Gone \/ azure[i].members = {}
         \/ \E k \in DOMAIN azure \ {i} : azure[k].name = azure[i].name]_vars

=============================================================================
