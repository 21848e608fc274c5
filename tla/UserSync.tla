------------------------------ MODULE UserSync ------------------------------
(***************************************************************************)
(* Users in LDAP and their accounts in Azure: the listener module          *)
(* office365-user, UserConnector, UDMOfficeUser and UserAzure.             *)
(*                                                                         *)
(* The directory listener keeps a cache of the entries it has handled.     *)
(* For every change it reads the entry as it is now and calls the module   *)
(* with the cached entry (old) and the one it read (new).  The module      *)
(* talks to Azure connection by connection and writes the ids of the       *)
(* accounts into the entry, which is a change of its own.                  *)
(*                                                                         *)
(* An account is a record at a position of its tenant's sequence, the      *)
(* position being its objectId.  A user stands for its entryUUID, so it    *)
(* is not created again once it is deleted.  Of the attributes the mail    *)
(* address is kept, because the userPrincipalName is made of it.  Groups   *)
(* are synchronised (office365/groups/sync), and the groups of the users   *)
(* have been synchronised with every connection before.                    *)
(***************************************************************************)
EXTENDS Integers, Sequences, SequencesExt

CONSTANTS
  User,       \* users
  Mail,       \* primary mail addresses
  Tenant,     \* aliases of the initialised connections
  Default,    \* the default connection, or a value that is no connection
  Seats,      \* connections whose subscription has seats left
  Races,      \* administrators also change a user whose last change, or the
              \* module's own one that follows it, has not been handled
  MaxChanges, \* bound: changes administrators make
  MaxCrashes  \* bound: times the listener is killed

NoName == "no name"   \* an entry of the Azure data without userPrincipalName
Renamed == "renamed"  \* ZZZ_deleted_<time>_<name>, never that of a user

ASSUME NamesAssumption == {NoName, Renamed} \cap Mail = {}
\* Without an initialised connection the listener module does nothing.
ASSUME TenantAssumption == Tenant # {}
ASSUME BoundsAssumption == MaxChanges \in Nat /\ MaxCrashes \in Nat

VARIABLES
  ldap,     \* ldap[u]: the user in LDAP
  seen,     \* seen[u]: the user in the listener's cache
  queue,    \* users whose changes the listener has not handled
  azure,    \* azure[t]: the accounts of the tenant
  job,      \* the call of the listener module, or Idle
  past,     \* the day of every userexpiry is over
  changes,  \* changes made so far
  crashes,  \* times the listener was killed
  lapsed,   \* users whose userexpiry came while it stood in LDAP (history)
  failed,   \* some call has failed or was refused (history)
  raced     \* a user was changed before its last change, or the module's own
            \* one that follows it, was handled (history)

vars == <<ldap, seen, queue, azure, job, past, changes, crashes, lapsed, failed, raced>>
history == <<changes, crashes, lapsed, failed, raced>>
directory == <<ldap, seen, queue, past>>

NoEntry == [id |-> 0, upn |-> NoName]
Nobody == [life |-> "none", enabled |-> FALSE, expires |-> FALSE,
           mail |-> NoName, aliases |-> {}, data |-> [t \in Tenant |-> NoEntry]]
Idle == [pc |-> "idle"]
busy == job # Idle

Op == {"new", "out", "edit", "off", "del"}
PC == {"pick", "post", "licence", "write", "join",
       "disable", "leave", "unlicense", "edit"}
Person == [life : {"none", "here", "gone"}, enabled : BOOLEAN,
           expires : BOOLEAN, mail : Mail \cup {NoName},
           aliases : SUBSET Tenant,
           data : [Tenant -> [id : Nat, upn : Mail \cup {NoName}]]]
AccountRecord == [owner : User, upn : Mail \cup {Renamed}, enabled : BOOLEAN,
            member : BOOLEAN, licensed : BOOLEAN]
Job == [pc : PC, user : User, old : Person, new : Person,
        todo : SUBSET (Op \X Tenant), op : Op, at : Tenant, id : Nat,
        data : [Tenant -> [id : Nat, upn : Mail \cup {NoName}]]]

TypeOK ==
  /\ ldap \in [User -> Person]
  /\ seen \in [User -> Person]
  /\ queue \in Seq(User)
  /\ azure \in [Tenant -> Seq(AccountRecord)]
  /\ job \in Job \cup {Idle}
  /\ past \in BOOLEAN /\ failed \in BOOLEAN /\ raced \in BOOLEAN
  /\ lapsed \subseteq User
  /\ changes \in 0 .. MaxChanges
  /\ crashes \in 0 .. MaxCrashes

Init ==
  /\ ldap = [u \in User |-> Nobody]
  /\ seen = ldap
  /\ queue = <<>>
  /\ azure = [t \in Tenant |-> <<>>]
  /\ job = Idle
  /\ past = FALSE /\ failed = FALSE /\ raced = FALSE
  /\ lapsed = {}
  /\ changes = 0 /\ crashes = 0

\* UDMOfficeUser.should_sync
ShouldSync(p) == p.life = "here" /\ p.enabled /\ ~(p.expires /\ past)

-----------------------------------------------------------------------------
(* Administrators and time.                                                *)

\* A change that still waits is read together with this one.
Waiting == Range(IF busy THEN Tail(queue) ELSE queue)
Notify(u) == IF u \in Waiting THEN queue ELSE Append(queue, u)

Put(u, p) ==
  /\ changes < MaxChanges
  /\ u \in Range(queue) => Races
  /\ changes' = changes + 1
  /\ ldap' = [ldap EXCEPT ![u] = p]
  /\ queue' = Notify(u)
  /\ raced' = (raced \/ u \in Range(queue))
  /\ UNCHANGED <<seen, azure, job, past, crashes, lapsed, failed>>

Free == {m \in Mail : \A u \in User : ldap[u].life = "here" => ldap[u].mail # m}

Add(u) ==
  /\ ldap[u].life = "none"
  /\ \E m \in Free, A \in SUBSET Tenant :
       Put(u, [Nobody EXCEPT !.life = "here", !.enabled = TRUE,
                             !.mail = m, !.aliases = A])

Switch(u) ==
  /\ ldap[u].life = "here"
  /\ Put(u, [ldap[u] EXCEPT !.enabled = ~@])

Rename(u) ==
  /\ ldap[u].life = "here"
  /\ \E m \in Free : Put(u, [ldap[u] EXCEPT !.mail = m])

Connect(u) ==
  /\ ldap[u].life = "here"
  /\ \E A \in (SUBSET Tenant) \ {ldap[u].aliases} :
       Put(u, [ldap[u] EXCEPT !.aliases = A])

SetExpiry(u) ==
  /\ ldap[u].life = "here"
  /\ Put(u, [ldap[u] EXCEPT !.expires = ~@])

Delete(u) ==
  /\ ldap[u].life = "here"
  /\ Put(u, [ldap[u] EXCEPT !.life = "gone"])

DayPasses ==
  /\ ~past
  /\ past' = TRUE
  /\ lapsed' = {u \in User : ldap[u].expires \/ seen[u].expires}
  /\ UNCHANGED <<ldap, seen, queue, azure, job, changes, crashes, failed, raced>>

-----------------------------------------------------------------------------
(* The listener calls its module.                                          *)

Tasks(op, A) == {op} \X A

\* UserConnector.create, and the first branch of modify.
Targets(new) == IF new.aliases # {} THEN new.aliases ELSE {Default} \cap Tenant

\* UserConnector.create, modify and delete, and the listener module's
\* create, modify and remove: what is to be done for which connection.
Work(old, new) ==
  IF new.life # "here"
  THEN IF ShouldSync(old) THEN Tasks("del", old.aliases) ELSE {}
  ELSE IF ShouldSync(new)
  THEN IF ShouldSync(old)
       THEN UNION {Tasks("new", new.aliases \ old.aliases),
                   Tasks("out", old.aliases \ new.aliases),
                   Tasks("edit", old.aliases \cap new.aliases)}
       ELSE Tasks("new", Targets(new))
  ELSE IF ShouldSync(old) THEN Tasks("off", old.aliases) ELSE {}

Start ==
  /\ ~busy /\ queue # <<>>
  /\ LET u == queue[1] IN
       job' = [pc |-> "pick", user |-> u, old |-> seen[u], new |-> ldap[u],
               todo |-> Work(seen[u], ldap[u]), data |-> ldap[u].data,
               op |-> "new", at |-> CHOOSE t \in Tenant : TRUE, id |-> 0]
  /\ UNCHANGED <<directory, azure, history>>

\* The loops over new, removed and common connections follow each other.
Rank(op) == CASE op = "new" -> 1 [] op = "out" -> 2 [] OTHER -> 3

FirstStep(op) ==
  CASE op = "new" -> "post" [] op = "edit" -> "edit" [] OTHER -> "disable"

\* parse reads the objectId from the old entry where an account is to be
\* deactivated or changed.
Pick ==
  /\ job.pc = "pick"
  /\ \E w \in job.todo :
       /\ \A v \in job.todo : Rank(w[1]) <= Rank(v[1])
       /\ job' = [job EXCEPT !.pc = FirstStep(w[1]), !.todo = @ \ {w},
                             !.op = w[1], !.at = w[2],
                             !.id = IF w[1] = "new" THEN 0 ELSE job.old.data[w[2]].id]
  /\ UNCHANGED <<directory, azure, history>>

\* The listener keeps the entry it has read, whether its module raises or not.
Return ==
  /\ seen' = [seen EXCEPT ![job.user] = job.new]
  /\ queue' = Tail(queue)
  /\ job' = Idle
  /\ UNCHANGED <<ldap, azure, past, changes, crashes, lapsed, raced>>

Finish ==
  /\ job.pc = "pick" /\ job.todo = {}
  /\ Return
  /\ UNCHANGED failed

\* An exception leaves the loops; the connections that follow are not reached.
Raise(refused) == Return /\ failed' = (failed \/ refused)

Goto(pc) == job' = [job EXCEPT !.pc = pc]
Account(i) == azure[job.at][i]
SetAccount(i, a) == azure' = [azure EXCEPT ![job.at][i] = a]
Named(m) == {i \in DOMAIN azure[job.at] : Account(i).upn = m}
Owned(u) == {i \in DOMAIN azure[job.at] : Account(i).owner = u}

-----------------------------------------------------------------------------
(* new_or_reactivate_user.                                                 *)

\* create_or_modify, the user is unknown to the tenant.
CreateAccount ==
  /\ job.pc = "post"
  /\ Named(job.new.mail) \cup Owned(job.user) = {}
  /\ azure' = [azure EXCEPT ![job.at] =
                 Append(@, [owner |-> job.user, upn |-> job.new.mail, enabled |-> TRUE,
                            member |-> FALSE, licensed |-> FALSE])]
  /\ job' = [job EXCEPT !.pc = "licence", !.id = Len(azure[job.at]) + 1]
  /\ UNCHANGED <<directory, history>>

\* Fault: accountEnabled is not among the attributes of a reactivation.
TakeFault ==
  /\ job.pc = "post"
  /\ \E i \in DOMAIN azure[job.at] :
       /\ Named(job.new.mail) \cup Owned(job.user) = {i}
       /\ SetAccount(i, [Account(i) EXCEPT !.owner = job.user, !.upn = job.new.mail])
       /\ job' = [job EXCEPT !.pc = "licence", !.id = i]
  /\ UNCHANGED <<directory, history>>

\* create_or_modify, an account has its userPrincipalName or its
\* onPremisesImmutableId: that account becomes the user's.
TakeAccount ==
  /\ job.pc = "post"
  /\ \E i \in DOMAIN azure[job.at] :
       /\ Named(job.new.mail) \cup Owned(job.user) = {i}
       /\ SetAccount(i, [Account(i) EXCEPT !.owner = job.user, !.upn = job.new.mail,
                                           !.enabled = TRUE])
       /\ job' = [job EXCEPT !.pc = "licence", !.id = i]
  /\ UNCHANGED <<directory, history>>

\* One account has the one, another account the other.
RefuseAccount ==
  /\ job.pc = "post"
  /\ \E i \in Named(job.new.mail), j \in Owned(job.user) : i # j
  /\ Raise(TRUE)

\* _assign_subscription: no seat or plan, or an AddLicenseError, is logged.
AssignLicence ==
  /\ job.pc = "licence"
  /\ SetAccount(job.id, [Account(job.id) EXCEPT !.licensed = @ \/ job.at \in Seats])
  /\ Goto("write")
  /\ UNCHANGED <<directory, history>>

\* add_member of the user's groups; an MSGraphError is logged.
Join ==
  /\ job.pc = "join"
  /\ \/ /\ SetAccount(job.id, [Account(job.id) EXCEPT !.member = TRUE])
        /\ UNCHANGED failed
     \/ /\ ~failed /\ failed' = TRUE
        /\ UNCHANGED azure
  /\ Goto("pick")
  /\ UNCHANGED <<directory, changes, crashes, lapsed, raced>>

-----------------------------------------------------------------------------
(* UserAzure.deactivate.                                                   *)

Disable ==
  /\ job.pc = "disable" /\ job.id # 0
  /\ SetAccount(job.id, [Account(job.id) EXCEPT
                           !.enabled = FALSE,
                           !.upn = IF job.op = "off" THEN @ ELSE Renamed])
  /\ Goto("leave")
  /\ UNCHANGED <<directory, history>>

\* modify_user: "missing AzureID".
DisableUnknown ==
  /\ job.pc = "disable" /\ job.id = 0
  /\ Raise(FALSE)

Leave ==
  /\ job.pc = "leave"
  /\ \/ /\ SetAccount(job.id, [Account(job.id) EXCEPT !.member = FALSE])
        /\ UNCHANGED failed
     \/ /\ ~failed /\ failed' = TRUE
        /\ UNCHANGED azure
  /\ Goto("unlicense")
  /\ UNCHANGED <<directory, changes, crashes, lapsed, raced>>

RemoveLicences ==
  /\ job.pc = "unlicense"
  /\ SetAccount(job.id, [Account(job.id) EXCEPT !.licensed = FALSE])
  /\ Goto(IF job.op = "del" THEN "pick" ELSE "write")
  /\ UNCHANGED <<directory, history>>

-----------------------------------------------------------------------------
(* Attributes that changed, and the entry in LDAP.                         *)

\* assert_id: the account of the old entry, else the one with the user's
\* onPremisesImmutableId.
Known == IF job.id # 0 THEN {job.id} ELSE Owned(job.user)

Same ==
  /\ job.pc = "edit" /\ Known # {}
  /\ job.old.mail = job.new.mail
  /\ Goto("pick")
  /\ UNCHANGED <<directory, azure, history>>

\* Fault: userPrincipalName is among the attributes that cannot be modified.
UpdateFault ==
  /\ job.pc = "edit" /\ job.old.mail # job.new.mail
  /\ \E i \in Known : Named(job.new.mail) \subseteq {i}
  /\ Goto("pick")
  /\ UNCHANGED <<directory, azure, history>>

\* update has copied the new userPrincipalName into old_azure when modify
\* compares the two: they are equal, and LDAP is not written.
Update ==
  /\ job.pc = "edit" /\ job.old.mail # job.new.mail
  /\ \E i \in Known :
       /\ Named(job.new.mail) \subseteq {i}
       /\ SetAccount(i, [Account(i) EXCEPT !.upn = job.new.mail])
  /\ Goto("pick")
  /\ UNCHANGED <<directory, history>>

RefuseUpdate ==
  /\ job.pc = "edit" /\ job.old.mail # job.new.mail
  /\ \E i \in Known : Named(job.new.mail) \ {i} # {}
  /\ Raise(TRUE)

Unknown ==
  /\ job.pc = "edit" /\ Known = {}
  /\ job' = [job EXCEPT !.pc = "post", !.op = "new"]
  /\ UNCHANGED <<directory, azure, history>>

\* Fault: the entry of a connection is dropped with the connection.
EntryFault == IF job.op = "new" THEN [id |-> job.id, upn |-> job.new.mail] ELSE NoEntry

\* Fault: the name a deactivated account got is written into the entry.
RenamedFault == [id |-> job.id, upn |-> Account(job.id).upn]

\* prepare_azure_attributes
Entry == [id |-> job.id, upn |-> IF job.op = "new" THEN job.new.mail ELSE NoName]
NewData == [job.data EXCEPT ![job.at] = Entry]

\* Fault: the data is written whether it changed or not.
WriteFault ==
  /\ job.pc = "write"
  /\ ldap[job.user].life = "here"
  /\ ldap' = [ldap EXCEPT ![job.user].data = NewData,
                ![job.user].aliases =
                   IF job.op = "new" /\ job.at \notin job.new.aliases
                   THEN @ \cup {job.at} ELSE @]
  /\ queue' = Notify(job.user)
  /\ job' = [job EXCEPT !.data = NewData,
                        !.pc = IF job.op = "new" THEN "join" ELSE "pick"]
  /\ UNCHANGED <<seen, azure, past, history>>

\* UDMOfficeUser.modify_azure_attributes: the alias of a default connection
\* is written with the data, and only if the data changed.
Write ==
  /\ job.pc = "write"
  /\ IF NewData = job.data
     THEN UNCHANGED <<ldap, queue>>
     ELSE /\ ldap[job.user].life = "here"
          /\ ldap' = [ldap EXCEPT ![job.user].data = NewData,
                        ![job.user].aliases =
                           IF job.op = "new" /\ job.at \notin job.new.aliases
                           THEN @ \cup {job.at} ELSE @]
          /\ queue' = Notify(job.user)
  /\ job' = [job EXCEPT !.data = NewData,
                        !.pc = IF job.op = "new" THEN "join" ELSE "pick"]
  /\ UNCHANGED <<seen, azure, past, history>>

\* noObject: the user has been deleted meanwhile.
WriteGone ==
  /\ job.pc = "write"
  /\ NewData # job.data /\ ldap[job.user].life # "here"
  /\ Raise(FALSE)

-----------------------------------------------------------------------------
\* Any call of Microsoft Graph or LDAP may raise.
Fails ==
  /\ busy /\ job.pc # "pick" /\ ~failed
  /\ Raise(TRUE)

\* The listener is killed: it handles the change again when it is back.
Crash ==
  /\ busy /\ crashes < MaxCrashes
  /\ crashes' = crashes + 1
  /\ job' = Idle
  /\ UNCHANGED <<directory, azure, changes, lapsed, failed, raced>>

Admin == \E u \in User : \/ Add(u) \/ Switch(u) \/ Rename(u) \/ Connect(u)
                         \/ SetExpiry(u) \/ Delete(u)

Reactivate == CreateAccount \/ TakeAccount \/ RefuseAccount \/ AssignLicence \/ Join
Deactivate == Disable \/ DisableUnknown \/ Leave \/ RemoveLicences
Edit == Same \/ Update \/ RefuseUpdate \/ Unknown

Listener == \/ Start
            \/ busy /\ (Pick \/ Finish \/ Reactivate \/ Deactivate \/ Edit
                             \/ Write \/ WriteGone)

Next == Admin \/ DayPasses \/ Listener \/ Fails \/ Crash

Spec == Init /\ [][Next]_vars

-----------------------------------------------------------------------------
(* What the connector promises.                                            *)

Quiet == ~busy /\ queue = <<>>
Calm == ~failed /\ ~raced

Accounts(u, t) == {azure[t][i] : i \in {j \in DOMAIN azure[t] : azure[t][j].owner = u}}
Wants(p, t) == ShouldSync(p) /\ t \in p.aliases
Meant(u, t) == Wants(ldap[u], t)

\* When every change has been handled, no call failed and no user was changed
\* again before that, a user whose userexpiry has not come (LDAP does not change on
\* that day, so the listener is not called) has a working account in exactly the connections of its
\* entry, under its own name, and the entry knows its id.  Accounts in other
\* connections are disabled, in no group and without licence.  The listener
\* may have been killed, and user names may have moved between users.
InSync ==
  Quiet /\ Calm =>
    \A u \in User \ lapsed, t \in Tenant :
      IF Meant(u, t)
      THEN LET i == ldap[u].data[t].id IN
           /\ i # 0 /\ ldap[u].data[t].upn # NoName
           /\ Accounts(u, t) = {azure[t][i]}
           /\ azure[t][i].upn = ldap[u].mail
           /\ azure[t][i].enabled /\ azure[t][i].member
           /\ t \in Seats => azure[t][i].licensed
      ELSE \A acc \in Accounts(u, t) : ~(acc.enabled \/ acc.member \/ acc.licensed)

\* The entry keeps the id of an account for as long as the account is the
\* user's, also when calls fail, the listener is killed or the user leaves
\* the connection: a user who comes back gets the same account.  (A user who
\* is changed too early may get the id of an older entry back.)
KeepsAccount ==
  [][~raced => \A u \in User, t \in Tenant :
       LET i == ldap[u].data[t].id IN
       i # 0 /\ ldap[u].data[t].id' # i => azure[t][i].owner # u]_vars

\* Handling a user's change touches the accounts of that user.  An account
\* passes to another user with its name, and only when its former owner, as
\* the listener knows it, is not to have one in this connection.
OnlyOwnAccounts ==
  [][Calm => \A t \in Tenant : \A i \in DOMAIN azure[t] :
       LET acc == azure[t][i] IN
       acc # azure'[t][i] =>
         /\ azure'[t][i].owner = job.user
         /\ acc.owner # job.user /\ acc.owner \notin lapsed
              => ~Wants(seen[acc.owner], t)]_vars

\* The module's own change of an entry calls the module again.  Handling that
\* call does not change LDAP once more, so that the calls come to an end.
NoEcho ==
  [][Calm /\ crashes = 0 /\ busy /\ job.new.data # job.old.data =>
       changes' # changes \/ Len(queue') <= Len(queue)]_vars

=============================================================================
