# Microsoft 365 connector: specifications, model checks and proofs

This directory holds TLA+ specifications of the Microsoft 365 (Azure AD)
connector of Univention Corporate Server, the configurations with which TLC
checks them on small instances, and proofs that TLAPS checks for every instance.
Paths such as `connector/connector.py` are relative to
`src/modules/univention/office365/`.

## 1. The system

The connector copies users and groups of an OpenLDAP directory into one or more
Azure tenants ("connections", each known by an alias). Three kinds of processes
work on the same connections:

* the **directory listener**, which calls the modules
  `listeners/office365-user.py` and `listeners/office365-group.py` for every
  change of an LDAP entry, one change at a time, and synchronously sends what has
  to be changed to Microsoft Graph;
* the **asynchronous daemon** `univention-ms-office-async`, which takes jobs out
  of a directory that the listener fills, for what takes Microsoft too long to
  wait for (a team can only be made of a group some time after its owners exist);
* **the wizard** (a UMC module) and the **scripts**, which set connections up and
  remove them, and act on the same files.

They share the LDAP entries, the configuration registry, the files of a
connection (`ids.json`, `manifest.json`, `token.json`), the job directory, and the
tenant itself. Nothing but the lock file of the daemon keeps them apart.

| component | state it keeps | operations | what makes it correct | modelled in |
|---|---|---|---|---|
| asynchronous queue and daemon (`asyncqueue/`, `univention-ms-office-async`) | job files, `failed/`, the lock file, the job in memory and the position in its task tree | enqueue, dequeue, verify, run with retries, store a failure, lock | one worker; no job run twice or forgotten; oldest first; sub-tasks before the task; every job ends; a dead worker is replaced | `AsyncQueue`, `AsyncJobs` |
| Graph calls and the access token (`microsoft/core.py`, `token.py`, `jsonstorage.py`) | the token on disk and in each process, the flag `renewing`, the page of a call | get_token, save, call with pages, one repetition after a Timeout | the current token in every request; no page lost; the file never half a token; calls end | `GraphCall` |
| user synchronisation (`connector/connector.py`, `udmwrapper/`, `microsoft/objects/`) | LDAP entry with ids and names per connection; the listener's old entry; the accounts | create, modify, delete, and the (de)activation and changes they consist of, per connection | accounts agree with the entries once everything is handled; a user keeps its account; nobody else's is touched; the module's own writes settle | `UserSync` |
| group and team synchronisation (same files) | LDAP group with its id, Azure groups, members, owners, teams | create, modify, delete, nested groups, empty groups, owners, conversion to a team and archiving; a user joining and leaving its groups; the script that renames groups | name, members and owners agree; two groups never share one; a group in use is not exchanged | `GroupSync` |
| licences (`UserConnector._assign_subscription`) | subscriptions and seats of the tenant, profiles in LDAP | choose subscription and plans, add, return | a seat for those whose profile has one, never two; seats come back; nobody loses one by somebody else's change | `Licences` |
| attribute configuration (`ConnectorAttributes`, `parse`, `update`) | configuration registry, the lists the listener made of it, the fields of the account | compute what is sent, anonymised, never sent, static; send differences | nothing is sent otherwise than the registry wants; what it wants arrives | `Attributes` |
| connections and the wizard (`microsoft/account.py`, `manifest.py`, `connector/account_connector.py`, `umc/python/office365`) | ids, nonce, token file, registry, LDAP object, the wizard's process, what the listener has loaded | create, remove, upload, hand out an address, receive and check the answer, initial token, load, renew | a tenant only by its administrator's consent; only the latest answer counts; token and application of one tenant; directory, registry and LDAP agree | `Connections` |
| UDM access and hooks, command line tools | LDAP | create and remove the object of a connection; `manage_adconnections`, `check_for_empty_groups` | see the modules | part of `Connections`, `GroupSync` |
| Redis queue, certificates, addresses, logging, user interface, packaging | none, or somebody else's | | see section 8 | |

**How they interact.** A change in LDAP is put into the listener's transaction
queue. The listener reads the entry as it is *when it gets to it*, and hands the
module the entry it handled last (`old`) and the one it read (`new`). The module
calls Microsoft Graph by way of `_call_graph_api` (which may stop to renew the
token, and repeats a request after a Timeout), then writes ids into the LDAP
entry, which for users is a change of its own and calls the module again. A user
that is enabled is put into its groups by the user module, which creates those
groups if need be: both modules create groups. `GroupConnector` and
`UserConnector` put jobs into the directory of the queue; the daemon takes them
out and uses the same `_call_graph_api`, with its own copy of the token and of the
connection's ids. The wizard writes ids and tokens under the listener's feet,
which notices when it is restarted.

**What is hard in it.** A process can be killed between any two of its steps, and
a step is a request to a remote system whose answer may be lost. The listener
never rolls back: when a module raises, the entry counts as handled. `old` and
`new` may lie several changes apart. Names pass from one user or group to another
and Azure finds accounts and groups by name. Every process renews the same token
in the same temporary file. Errors come in two hierarchies (`MSGraphError`,
`GenericGraphError`), and most handlers catch only the first. `PROJECT.json` lists
these hazards at the lines where they bite, with the properties that would show
them going wrong, or with the reason why none does.

## 2. The modules

| module | what it is | code |
|---|---|---|
| `AsyncJobs` | what the queue promises: jobs submitted, begun, performed call by call, completed, failed or lost | the specification of the next one |
| `AsyncQueue` | job directory, lock, daemon, retries, crashes; refines `AsyncJobs` | `asyncqueue/`, `univention-ms-office-async`, its service unit |
| `GraphCall` | `_call_graph_api`, `get_token`, `Token`, `JsonStorage` for several processes | `microsoft/core.py`, `token.py`, `jsonstorage.py`, `account.py` |
| `UserSync` | LDAP, listener, user handlers, the accounts of the tenants | `listeners/office365-user.py`, `connector/connector.py`, `udmwrapper/udmobjects.py`, `microsoft/objects/azureobjects.py` |
| `GroupSync` | groups and teams: LDAP, listener, group handlers and the part of the user handlers about groups, the daemon's jobs, the script | `listeners/office365-group.py`, `connector/connector.py`, `udmwrapper/`, `azureobjects.py`, `check_for_empty_groups` |
| `Licences` | the choice of a licence within a user's call, its return, profiles and seats changing meanwhile | `connector/connector.py:395-578`, `udmwrapper/subscriptions.py`, `azureobjects.py` |
| `Attributes` | the registry's lists, what parse and update make of an entry, what the account gets | `connector/connector.py:122-738`, `connector/utils.py`, `ucr_helper.py`, `azureobjects.py` |
| `Connections` | command line, wizard, listener over the files, the registry and LDAP | `microsoft/account.py`, `manifest.py`, `token.py`, `account_connector.py`, `umc/python/office365`, `manage_adconnections` |
| `...Proofs` (eight; two about `GroupSync`) | the theorems about each of the above and their proofs | |
| `MC...` (seven) | instances for TLC; what the repository's documents say and the code does not do | |

An operator whose name ends in `Fault` stands before the definition it varies and
is used by no specification: it is that definition with a plausible bug (a guard
dropped, a branch forgotten). Putting it in the definition's place makes TLC
find the property named in `PROJECT.json` under "mutants" violated, which shows
that the property depends on that code.

`UserSync`, `GroupSync`, `Licences` and `Attributes` look at the same handlers from
four sides. Each has every step of the handlers that its state depends on and
leaves out what the others have: `UserSync` the accounts and connections,
`GroupSync` the groups, `Licences` the seats, `Attributes` the contents. Each has
the listener's cache, its kills and the failures of calls.

### AsyncQueue

| variable | in the code |
|---|---|
| `tmp`, `pending`, `failed` | jobs with a `*.json.tmp` file, a `*.json` file, a `*.json` file under `failed/` |
| `clock`, `stamp` | `time.time()`, and the time that is the file's name |
| `writing` | the job `enqueue` has written but not yet renamed, in the listener |
| `lock`, `tries` | holder of the lock file; failed attempts to get it |
| `pc`, `job`, `pos`, `attempt` | per daemon: where `main` or `worker` is, the task in memory, the place in `Task.process`, the attempt `retrying` makes |
| `initialized` | `AzureAccount.is_initialized()`: the connection has its ids and token |
| `applied` | what Microsoft has carried out |
| `done`, `lost`, `crashes` | history |

`WriteTmp`/`Publish` are `enqueue`; `Take` is `dequeue`, which deletes the file
*before* the job runs; `Verified`/`NotVerified` are `verify()` of the task and,
for each sub-task, inside `process`; `RunOk`, `Retry`, `GiveUp` and `Escape` are
the ways an attempt ends: `GiveUp` the exception `worker` catches, `Escape` the
one it does not, which ends the process. `StoreTmp`/`StoreFailed` are
`enqueue(task, error=True)`. `Exit` is what every end of a process does: the lock
goes, and so does the job in memory. A failed attempt may have been carried out
(the answer was lost), and `create_team_from_group` is refused when repeated,
`add_group_owner` is not.

Abstractions: file names grow with the clock, which is taken to be monotone; a
job is the sequence of its Graph calls; a 400 for an owner means that the group
has it already; the option `--no-delete` and the unused Redis queue are left out.

### GraphCall

One connection, used by any number of processes. Tokens are numbered as Microsoft
hands them out; `overHere` are those past the `expires_on` the connector computed,
`overThere` those Microsoft refuses, and a token may join either set at any time.
`file` and `tmp` are `token.json` and `token.json.tmp`: a token, an object without
one, half a file, or none. `pc` follows `get_token` (`login`), `JsonStorage._save`
(`touch`, `chmod`, `dump`) and the move, and the loop of `_call_graph_api` (`top`,
`send`); `frame` says who needed the token, the constructor or a call. Processes
interleave at every step. `overlapped` remembers that two of them were saving at a
time.

Abstractions: opening the file a second time and writing it is one step (`Dump`);
the endpoint, its arguments and its expected codes are left out, an answer is an
expected one with or without `nextLink`, a 401, another error or a Timeout; two
threads within one process are not modelled (none are started).

### UserSync

| variable | in the code |
|---|---|
| `ldap[u]` | the entry: existence, enabled (the option, `disabled` and `locked` in one), `userexpiry`, `mailPrimaryAddress`, aliases, and the id and userPrincipalName kept per alias (`univentionOffice365Data`) |
| `seen[u]` | the entry the listener handled last |
| `queue` | changes that the listener has not handled |
| `azure[t]` | the accounts of a tenant, the position being the objectId: owner (`onPremisesImmutableId`), name, enabled, in the user's groups, licensed |
| `job` | the call of the listener module: entries, the connections still to do, the step of the current one |
| `past`, `lapsed` | the day of `userexpiry` is over; the users whose day came |
| `failed`, `raced`, `changes`, `crashes` | history |

`Work` says which of the handlers' loops does what for which connection; the
other actions are the requests those handlers make, one by one, so that the
listener can be killed between any two and administrators act in between. `Return`
is the listener's part: it keeps the entry it read, whether the module raised or
not. `CreateAccount`, `TakeAccount` and `RefuseAccount` are `create_or_modify`,
which takes over an account of the same name or owner. `Write` is
`modify_azure_attributes`.

Abstractions: a user is its entryUUID and is not created again; the mail address
stands for the attributes, since the userPrincipalName is made of it; the choice
of a licence is reduced to whether the connection has seats; group
synchronisation is on and the user's groups exist; two changes of one user that
wait are read as one (the listener reads the current entry); every connection has
its core; the connections of a loop come in any order.

### GroupSync

| variable | in the code |
|---|---|
| `ldap[g]`, `seen[g]` | the group in LDAP and in the listener's cache: existence, name, users, nested groups, team, owners, objectId, alias |
| `marked`, `enabled`, `known` | users with `univentionOffice365Enabled`; those of them who are neither disabled, locked nor expired, in LDAP and in the cache |
| `ids`, `named` | users with an objectId; with an objectId and a userPrincipalName |
| `queue` | groups and users whose changes the listener has not handled |
| `azure[i]` | the group with objectId `i`: name (`Renamed` for `ZZZ_deleted_...`, `Gone` for one deleted for good), members, owners, team |
| `jobs` | the daemon's jobs: group and owners |
| `job` | the listener's call: old and new entry, step, the group it is creating (`target`, `cur`, `made`) for which step (`then`), what is left to do |
| `failed`, `raced`, `owed`, `late`, `cleaned` | history, see below |

The code asks two questions about a user, and the model keeps them apart. The user
module activates and deactivates by `should_sync()` (`enabled`), and a deactivated user
leaves all its groups in Azure and loses its userPrincipalName (`named`), but keeps the
mark, the alias and the objectId. The group module asks for the mark alone (`marked`):
`in_azure`, which decides whether a group is created or followed (`InAzure`, `Gather`),
and `is_enable()` when members are added (`Newcomers`). A user who is disabled, locked
or expired and is put into a group that has its objectId becomes a member again; `late`
remembers these, per group. A group may be created, and stay empty, for such users only:
creation adds those with a userPrincipalName. `Switch` has all the ways between the
three states.

`Start` is the first half of `create`, `modify` and `delete`; `Enable`, `Disable`,
`Join...` the groups of a user. `Creating` is `_create_group`, entered from `create`,
from `modify` (no id yet, or the group is lost), for a nested group (`Gather`), for
the groups around one just made (`CreateParent`) and from a user's handler
(`JoinNew`); it makes the group or takes over one of the same name
(`PostNew`, `PostTake`), writes the id, adds members (for a team by way of the
team), makes parents and goes back. `AddOwners`, `Disown`, `CheckTeam`, `Gather`,
`AddNew`, `RemoveMember`, `RemoveEmpty`, `UpdateName` are `modify` in its order.
`RunJob` is the daemon. `Purge` is an administrator of Azure, `Clean` the script
`check_for_empty_groups --delete`; both act while the listener is idle.

`owed` lists the groups one of whose changes the code ignored or gave up, with the
cause: `last` (the last value of an attribute was removed, section 4), `nested` (a
KeyError for a group with nested groups), `stranger` (someone to be removed was no
member, a 404 nobody catches), `unformed` (the team was not made yet), `gone` (a group
was deleted meanwhile, and the user's other groups were not reached), `killed` (`modify`
made a group anew after it was lost, and was killed before it added the members), `heir`
(a group that is created took over one of its name which had members of its own), `team`
(a team not made, not converted or not archived, an owner not set). The promises are
about the other groups: with nesting that leaves out every group whose members were
gathered while it had nested groups (`nested`). When all members are added to the empty
group a group owes nothing any more.

Assumed of Microsoft: a group without a team answers ItemNotFound when a team is
asked for; an owner added twice is a 400 that is accepted; the last owner cannot be
removed; `create_team` is refused when the team exists or there is no owner.
Abstractions: one connection, which all users and groups have; a user stands for
its account; of the attributes the name is kept; an administrator changes one
attribute at a time and deletes only groups that are nested in no other; the
batches of 20 members are one request.

### Licences

`ldap[u]`, `seen[u]`: whether the user is to be synchronised and has its objectId;
`member`, `profile`: its groups, and the profile of each group; `active`, `others`: the
tenant's enabled subscriptions and the seats other people hold; `licences`, `off`: what
the user has, and the plans disabled in it; `basis[u]`: from which profiles,
subscriptions and free seats the last choice for the user was made, and whether
Microsoft refused what was chosen (history). `List`, `Choose...`,
`AddLicence`/`RefuseLicence`, `Write` are `_assign_subscription` and what follows;
`ListLicences`, `RemoveLicence`, `Stripped` are `deactivate`. Between any two of these
administrators change profiles (`SetProfile`), the groups of users (`SetGroups`) and
users, others take and free seats, and a subscription is suspended. `RefuseLicence`
happens with or without a free seat, because `AzureObject.add_license` logs every
`MSGraphError` and goes on.

### Attributes

`ldap`, `seen`: the one user's entry: to be synchronised, its attributes as
sequences of values, the objectId; `ucr`: the registry's lists; `attrs`: the
listener's `ConnectorAttributes`, made of them when it started; `account`: each field
with the set of the values it holds and the attribute each came from; `job`: the call.
`Load` is the constructor with its two corrections (`Sanitize`, `Disjoint`), `Parse`
the data of an entry, `Update` the difference of two, `PostNew`, `PostTake`,
`EditNew`, `Edit`, `Off`, `Write` the requests. The registry changes at any time, the
listener only learns of it by `Restart`. A value is written with its attribute, a
random uuid and the static value are a value each, so that a property can say where a
field's contents come from. Assumed: no two attributes are mapped to one field that
holds one value (parse would raise for every user).

### Connections

`there`, `ids`, `token`: the connection's directory, `ids.json` and `token.json`
(nonce and token); `ucr`, `udm`: registry variable and LDAP object; `wizard`: the
variable that names the wizard's connection; `proc[s]`: the process of a session of
the management console; `cmd`: the call of `manage_adconnections`; `listener[a]`: the
account the listener loaded; `urls`, `answered`: addresses handed out (the nonce is
the number) and those an administrator consented to. `Upload`, `StoreManifest`,
`HandOut`, `Receive`, `Check`, `Store`, `Login`, `Register`, `Complete` are a way
through the wizard (`NoIDsStored` is the address asked for before a manifest was
stored: the nonce is written, then the exception comes; `Raises` is a directory that
is gone); `Create` ... `RestartListener` and `Remove` ... `Unset` the two
commands step by step; `Load`, `Restart`, `Renew` the listener. Processes are killed
and requests fail (`Disturb`) between any two steps.

Assumed of Microsoft: an application is registered in one tenant, whose
administrator alone can consent to it, and the token asked for at `common` is that
tenant's. Writing the script `install.ps1` is part of `Login`. `rename_adconnection`
and `ConnectionsPool`, which nothing calls, are left out.

## 3. The runs

| run | instance | what it shows |
|---|---|---|
| `AsyncQueue` | a group with two owners made a team, and made a team again with another owner; the service and an instance started by hand; 3 attempts, 3 tries for the lock, 2 kills; fair | types, one worker, every job in exactly one place, sub-tasks first, success is real, oldest first; the implementation of `AsyncJobs`; every job in the directory is settled, and some instance always works again |
| `AsyncQueueKept` | one job, no kill | **violated**: an error other than `MSGraphError` ends the daemon, and the job it held is gone |
| `GraphCall` | listener and daemon, 2 pages, 2 tokens, any number of crashes; fair | one repetition, current token, whole file, renewals and calls end |
| `UserSync` | 2 users, 2 mail addresses, 2 connections, one of them the default, one without seats; 3 changes at any moment, 1 kill, 1 failed call | accounts agree with entries, also when users move between connections; they are kept, and are not anybody else's; writes settle |
| `UserSyncRace` | 2 users, changes at any moment | **violated**: a user disabled while it is created keeps a working account |
| `GroupSync` | 3 groups nested to two levels, 1 user who is also disabled and locked, 3 names, 4 changes, 1 kill, purges and the script | types; groups agree with entries, also where they are created for groups within or around them; two never share one; a group in use is not exchanged |
| `GroupTeams` | 1 group, 2 users who are also disabled and locked, a team and owners, 4 changes, 1 kill, the daemon at any moment | members, teams and owners agree once the jobs are done |
| `GroupLocked` | 1 group, 2 users, 3 changes | **violated**: a disabled user who is put into a group becomes a member in Azure |
| `Licences` | 2 users, 2 groups, 3 subscriptions with few seats, profiles that change; 4 changes, 1 kill, 1 failed call | seats come back, one licence at most, the one the last group's profile demands, kept until deactivation |
| `LicenceFirst` | the same with 3 changes and no kill | **violated**: of two groups with a profile the last counts |
| `Attributes` | 1 user, attributes of every kind, registries with overlapping lists; 4 changes, 1 kill, 1 failed call, restarts | nothing is sent otherwise than wanted, and what is wanted arrives |
| `Connections` | 2 connections, 2 tenants, an application of each; a session of the wizard, 2 uploads, 3 commands, 1 kill or failure, restarts and renewals at any moment | tenants only with consent, only by the latest answer, tokens of the right tenant, directory, registry and LDAP agree |

What the properties say is written above each of them; the ones to know are
these.

* `OnePlace` and `NothingVanishes` together: a job is waiting, held by one process,
  under `failed/`, finished or lost, never two of these and never none.
* `SubTasksFirst`: through retries, verification and lost answers, a call is not
  sent before all sub-tasks before it were carried out.
* `FileIntact`, `SaveSucceeds`: both hold unless two processes saved at a time.
  That they are conditional is itself a result: there is no lock, and two savers
  can leave half a token in `token.json`, which readers take for no token.
* `InSync` of `UserSync`: after any history without a failed call or an overtaken
  change, every user has a working account, under its name and with its id in LDAP,
  in exactly the connections of its entry. The conditions are the finding's other
  side: a failed call is never repeated, and a change that overtakes the module's
  own write leaves the account as it was (`UserSyncRace`). Nothing in the code
  handles the day of `userexpiry`, so users on whose entry it fell are exempt.
* `InSync`, `TeamInSync` of `GroupSync` say of groups: name, team and owners are those
  of the entry; all enabled users of the entry are members; and nobody else is, but
  users of it who were disabled, locked or expired when `modify` put them into it. That
  the last are members is not what a test of the repository expects (`GroupLocked`); it
  is the only way in which the members differ from the enabled users. Exempt are the groups in `owed`. The list of causes is
  the result: it is what a run had to exempt for the rest to hold. `OneGroupEach` has
  its reason in a case that a larger instance showed: a group renamed and another
  created with its old name, while a user is enabled who is in the other. The user's
  handler creates the other group before the listener gets to the renaming, finds the
  first one's Azure group by name and takes it over; both groups then keep one objectId.
  Such histories count as `raced`. `KeepsGroup` allows one more exchange than was
  thought: where Azure has two groups of one name, `exist` takes the first, and `modify`
  exchanges the one for the other.
* `LicenceAsDemanded` (`Demand`) says which profile counts: the subscription is that of
  the last group with a profile, if any of the profiles names one with a free seat, and
  so are the plans, if it has a free seat itself. A user with profiles none of which can
  be had has no licence, one without profiles the first subscription with a free seat,
  or the first of all. After a refusal it is none. That the README of the repository has
  the first group's profile instead is `LicenceFirst`.
* `SeatsReturned`, `OneLicence`, `LicenceAsDemanded`: unless a call failed or the
  listener was killed. A kill after the licence was added and before the id was
  written loses the seat for good (`connector.py:479`).
* `OnlyAsWanted`: a field only gets what the registry, as it was when the listener
  started, allows of an attribute mapped to it. The value of the userPrincipalName
  and the usageLocation are exempt because the code makes them of `mailPrimaryAddress`
  and `st` past all lists.
* `LatestAnswer`, `TokenOfTenant`: unless two sessions worked on one connection. A
  renewal of the token by the listener overwrites the nonce, and the answer is then
  refused for ever; nothing promises that the wizard gets through.

### Bounds

The theorems of section 5 do not depend on any bound. For what is only
model-checked the bounds are these.

*Queue and calls.* `MaxAttempts` is 10 in the code and `LockTries` 10; the code
treats all attempts but the last alike, so 3 gives a first, a last, and one between.
Two kills reach every pair of steps of two processes. A third job, of another group,
was checked by hand (961,000 states, with liveness). Two pages give one with a
successor and a last one, two tokens one that is replaced (further renewals fail, as
they may in any case).

*Users.* `MaxChanges` is the bound that matters: a name that passes from one user to
the other takes three changes (create, release or disable, create); the histories
behind the conditions of `InSync` take three. By hand: 4 changes (1.1 million
states) and 5 (5.9 million) with two connections, and 6 with one, each without
overtaking changes, 4 with one connection and with them.

*Groups.* Four changes give a group, its owners or its nesting, a change, and one
that passes the name on. `GroupSync` has the three groups that nesting to two levels
takes and one user; `GroupTeams` has two users, of whom one stays when the other
leaves. Both at a time were checked by hand: 2 groups that may be nested and 2 users,
4 changes and 1 kill (5.4 million states). Both runs have `CONSTRAINT Calm`: TLC does
not go on from a state in which a call has failed or a change was overtaken. Neither
is ever taken back, and the properties say nothing of what follows, so nothing is
lost. By hand, 3 groups were checked beyond overtaken changes, too (2.9 million
states). The types and all properties of `GroupSync` are proved without any constraint.

*Licences, attributes, connections.* With 6 changes `Licences` was checked by hand
without failures (6.8 million states). The invariant of `Connections` was checked
with two sessions as well.

One failed call per behaviour is enough because the properties of a behaviour with
one are void or already demanded without it. Symmetry is used for users, groups, names
and connections that no definition tells apart, and only in runs without liveness.
Deadlock is checked for the queue and the calls; in the others nothing is left to do
when the changes are used up.

### Fairness

`AsyncQueue`: weak fairness of `Publish` (the listener finishes `enqueue`), of the
steps of a started daemon, and of starting the service's instance, because the unit
says `Restart=always`. Instances by hand, kills and changes of the connection are
not fair. `GraphCall`: weak fairness of the steps of a process inside a call;
requests are sent with a timeout of ten seconds, so each is answered or times
out. The other modules have no fairness: a handler that raises is not called again,
and when a listener is restarted is not the connector's affair. What takes the place
of liveness there are the properties about states in which nothing is left to do, and
`NoEcho`: the call that a module's own write causes writes nothing, so that a change
causes a bounded number of calls.

## 4. Where the code does not do what it says

Each of these runs states what a document, comment or test of the repository says
and finds a behaviour of the code that does otherwise; `PROJECT.json` quotes both.

1. `AsyncQueueKept`: the worker catches `MSGraphError`; a `GenericGraphError` (any
   401, 403, 5xx) or an exception of `requests` ends the daemon with the job already
   deleted.
2. `UserSyncRace`: a user disabled or deleted before the listener has handled the
   module's own write of its id has no id in `old`: deactivation raises, and is not
   tried again.
3. `GroupLocked`: a test wants the groups of a deactivated user clean, and the user
   module takes it out of them; `check_and_modify_members` (`connector.py:1129`) asks for
   the mark only, which the user keeps, and adds it to the next group it is put into,
   though the message for those it passes over is "Is disabled. Not syncing".
4. `LicenceFirst`: the loop over a user's profiles has no `break`. The subscription is
   that of the last group with a profile, the plans those of the last profile that can
   be had; README.md:71-73 says the first.

Further disagreements, met while modelling, are part of the models as the code has
them and have no run of their own:

* `--retry-count` is parsed and documented, and reaches nothing.
* `account.renewing` is set before the login and cleared after the save, without
  `finally`: after one failed renewal the process sends every later request without
  an Authorization header (`microsoft/core.py:89`).
* A comment relies on a 401 being answered with a new token (`microsoft/token.py:105`);
  it is raised, and the token is kept until its computed end.
* The old Azure object is overwritten before it is compared with the new one, so a
  new userPrincipalName never reaches LDAP (`connector.py:608`).
* `diff_keys` (`udmwrapper/udmobjects.py:375`) is to give "the changes needed to be made
  to self to make it equal to other", but looks at the attributes the new entry has.
  When the last member or owner goes, the attribute is not among them: modify logs "No
  modifications found, ignoring.", and the user stays in the group in Azure, also after
  later changes (cause `last`). The same goes for the last nested group.
* A group with nested groups raises a KeyError whenever its members are gathered
  (`udmwrapper/udmobjects.py:581`), after its id was written; it stays empty.
* A removed empty group is renamed back in the same call by
  `check_and_modify_attributes`, though `README-code.md:322` has it disabled and
  renamed. The script `check_for_empty_groups --delete` renames every group, because
  its `get_members` is always the empty list.
* A team made by `modify` of a group that had to be created is never converted, one
  archived is never made active again, and one whose creation was cut off in a
  user's handler never becomes a team.
* `delete` of a team that is not formed yet raises an exception it does not catch,
  and the group stays as it is (`connector.py:902`).
* `_create_group` takes the first group Azure finds by the name
  (`azureobjects.py:598`), which may be one that `delete` left as it was: the new group
  begins with the old one's members and owners, and nothing removes them (cause `heir`).
* A group that is created for a user, or within or around another group, is never
  made a team: only the group's own handler calls `convert_group_to_team`.
* If the tenant does not have the subscription of a user's last profile, an
  AttributeError leaves the handler and the user's id is not written
  (`connector.py:426`).
* `attributes = list(...).extend(...)` is None, so that the listener watches every
  attribute. Attributes that lost their value stay in Azure (`connector.py:640`
  says otherwise). A static value is only sent where the entry has the attribute.
* Removing a connection whose directory is missing raises, after "Removing Azure AD
  connection anyway..." (`account_connector.py:311`).
* `README-code.md` says that a job which cannot be verified is removed; it is kept
  under `failed/`. It says, too, that the file of a job is removed after its success;
  it is removed before the job is run.

## 5. What is proved

All theorems are safety and hold for every value of the constants that satisfies the
named assumptions. None of the properties is inductive by itself; each module has an
invariant `IInv` with lemmas, one step per action. The invariants were checked with
TLC before they were proved.

**AsyncQueue** (`AsyncQueueProofs`). `OnePlace` needs to know that a job in memory
belongs to a working process (`JobHeld`) and that a job not yet handed over is nowhere
(`Fresh`); that a worker puts its job into `failed` only when it is the only worker
needs `OneWorker`, the holder of the lock. `SubTasksFirst` and `DoneIsDone` need
`Progress`: at position `i` the calls before `i` were carried out, also while a
sub-task is being verified. `OldestFirst` needs that stamps are distinct and below the
clock (`Stamps`). The invariant is

    IInv == TypeOK /\ JobHeld /\ OneWorker /\ OnePlace /\ Fresh
            /\ Progress /\ DoneIsDone /\ Stamps /\ OldestFirst

`Refinement` proves that `AsyncQueue` implements `AsyncJobs` with a job's status read
off `done`, `failed`, `lost`, memory and `pending`: every action maps to one of the
abstract actions or to a stuttering step.

**GraphCall** (`GraphCallProofs`). `RepeatedOnce` needs `NoCall` (outside a call
nothing is counted), `CurrentToken` needs `HasToken` (between login and move the
client has a token), and `FileIntact` needs `OneSaver`: without an overlap at most
one client is between `touch` and `move`, and what the temporary file holds is
determined by where that client is.

**UserSync** (`UserSyncProofs`). `TypeCorrect` needs that ids are those of accounts
wherever they are kept (`Entries`, `Handling`) and that only existing users wait
(`Queued`); `IdsAreAccounts` states the first for itself. `AccountsAreKept` proves the
action property `KeepsAccount`. It is about `Write`, which puts the id of the
account in hand into the entry. When that account was just found, it is the only one
of the user (`OnlyOne`), so whatever id the entry had is not the user's any more. When
it is one being given up, its id came from the old entry, and it has to be shown that
LDAP still has that id (`Departure`). That is where the order of events comes in: the
cached entry and LDAP may differ in an id that is in use only by the module's own
writes (`CacheIds`), which never give rise to an operation that gives an account up
(`WorkParts`); a new account is only looked for where the old entry has none in use
(`Arrival`); users for whom nothing waits are known as they are (`Settled`), and a
call knows what it has written (`Current`). `KInv` is the conjunction of these with
the typing invariant.

The second half of the module proves the other three. `AccountsAreInSync` compares three
copies of a user: its entry, the listener's cache and its accounts. `SInv` says what
holds of them between calls (`AtRest`: whoever the listener knows as a user of a
connection has its one account there, in working order if the entry still wants it;
whoever neither is nor is to become one has none that works), and during a call
(`InCall`) what each operation that waits will find, where the one that runs is, and
what those that are done left behind; a call that ends turns the last into the first.
A name that moves from one user to another is the difficult case: that the account
taken over is not one its former owner still needs follows from the order of the queue
(`InOrder`: whoever gave a name up is handled before whoever got it), and it is for
`OnlyOwnAccountsChange` what it is for `InSync`. `NotYet` and `OwnCall` are about the
day of expiry and what a call has written. Nothing in it depends on `crashes`: a call
that is repeated begins in a state where `AtRest` holds, because `AtRest` holds during
calls too. `EchoesEnd` adds `EInv`: an entry that differs from the cached one in its
ids has an account for each alias that was added (`Written`), so that the call for it
finds what it would write; the alias of the default connection is added by the only
operation of its call (`Alone`). It needs `crashes = 0`, as `NoEcho` does: a listener
killed after the write handles the change and its own write as one.

**GroupSync** (`GroupSyncProofs`). `TypeCorrect` is not a matter of declarations: that
the request of a step goes to a group of the tenant (`azure[job.id]`) depends on the
way the call came there. `IInv == TypeOK /\ IdsOfGroups /\ Steps`: ids in LDAP, in the
cache and in jobs are those of groups (`IdsOfGroups`), and a call has an objectId at
all steps but those of `Loose`; while it is making a group it may lack one only if
that group is its own (`target = group`), which is what lets it come back from nested
and parent groups with the id it set out with.

That two groups never share one (`GroupsApart`) and that a group keeps its own
(`GroupKept`) depend on names, because the code finds a group it is to create by its
name. `NamesInv` has three layers.

* `CacheInv` and `KindInv`, without conditions: a call is for the first in the queue,
  with the cached entry as the old one (`InHand`); whatever waits for no call is
  cached as it is in LDAP (`Settled`); which handler runs at which step.
* `FreshInv`, while `Calm`: groups have names of their own in LDAP and in the cache,
  and the change that frees a name waits before that of the group that took it
  (`Ordered`). This is what `raced` excludes, and where it is needed.
* `NameInv`, while `Calm`: each objectId that LDAP, the cache or the call has for a
  group (`Holds`) is that of a group in Azure with a name that belongs to it (`Claim`),
  or renamed or gone (`NameHeld`), and is nobody else's (`HeldOnce`). A group that is
  created has a name nobody else claims, and is created in place of none that lives
  (`AtGet`, `AtPost`), so that what `exist` finds is its own or nobody's; `AfterWrite`,
  `Renaming`, `Burying` and `Stale` follow the new id and the new name through `modify`
  and `delete`.

`KeepInv` adds what is known at the two steps that write another id: only an empty
group is taken out of its entry (`Emptying`), a group is created in place of the one
`modify` asked for in vain (`Asked`), and where LDAP has an id that the cache has not,
the group was just created (`Renewed`).

`GroupInSyncProofs` proves `GroupsInSync`. Members are set by three handlers that
overlap: the group's own, that of a user who is enabled, and that of another group which
creates this one. `MemberInv` says what they leave behind. Between calls (`Rest`) a
group has, of the users who are enabled and whose enabling was handled (`Active`), those
that both LDAP and the cache have, and no user that neither has, or who is not in one of
`Accounts`: users who are enabled, whose disabling was not handled yet, or who came
late. When nothing waits LDAP and the cache agree, and this is `InSync`. During a call
it holds too, for every group but the one that `modify` has just created anew
(`Midway`); the call says of its own group what was put right so far (`Filling`,
`Following`, `Clearing`, `Joins`). Like `AtRest` of `UserSync` it does not mention
`crashes`. What a group owes (`Owing`) is exempt from the step that incurs it to the one
that fills the group (`AddMembers`), and the lemmas about `Owing` show that nothing else
ends it. The attempt to find this invariant showed that the properties as they were
stated before were false on larger instances, and TLC confirmed it: `heir` and the third
disjunct of `KeepsGroup` are the outcome.

The second half of the module proves `TeamsInSync`, what `TeamInSync` says when the
daemon has nothing left to do. The owners and the team are set by the same three
handlers, but only in part: the team itself is made by a job that the daemon carries
out at any later time, with the owners the handler wrote into it. `TeamInv` therefore
speaks of the group in Azure and of the jobs that wait for it (`Waits`) together.
Between calls (`TeamRest`) nobody is an owner whom neither the cache nor LDAP has, a
group that is a team in neither is none and waits for none, and a job that waits has
the owners of the cache's entry, where that is a team, and else of LDAP's (`Owned`); a
group that is a team in both is one, or a job waits (`Formed`). Three situations make
this hard.

* A user's call creates a group that is a team before it asks for the team. Until then
  the group is `Blank`: `Forming` and `Promised` follow that call, and where it is
  killed, `Broken` says that it is repeated, that it finds no team, and that the
  group's own change still waits.
* `modify` makes a group anew, so that LDAP has an id the cache has not (`Replaced`).
  If the call is killed then, and the cache has a team or the new group was renamed,
  nothing is known of it until the call is repeated (`Doubtful`).
* The group's own call says step by step what it has done of owners, team and job
  (`Past`), and what it knows of a group it has just made (`Written`, `Anew`).

`RunTeams` is the lemma about the daemon: a job that is run makes its group a team
with the owners in the job, or the group owes its team from then on (cause `team` of
`owed`). `TeamInv` is inductive together with `NamesInv`, `KeepInv` and `MemberInv`.
TLC found no state of `GroupTeams` (4.8 million), nor of an instance of two nested
groups and one user, in which it fails.

**Licences** (`LicencesProofs`). One invariant, `UserInv`, says of each user what its
licences have to do with its entry, the cache and the choice made last, either at rest
(`Rest`) or at each step of its call (`Work`); `Steps` is about the call itself. It
holds for users whose change nobody overtook while no call failed and the listener was
not killed, as do `SeatsReturned`, `OneLicence` and `LicenceAsDemanded`, which follow.
For the last it carries `Demand` from the step that chooses to the end of the call and
beyond, while groups and profiles change and the call for the module's own write runs.
`KeepsLicence` needs no condition.

**Attributes** (`AttributesProofs`). `OnlyAsWanted` follows from `Loaded` (the lists
are those made of the registry at the start) and a lemma on what `Parse` makes of an
entry, by cases of how a list is corrected. `StaysInSync` needs, beside, when the
account is enabled (`On`) and that what the account has is what parse made of the
entry compared with last (`Has`), at every step of the call.

**Connections** (`ConnectionsProofs`). The invariant follows the nonce: which
addresses a process may hold (`Answers`, `Nonces`), that while a session is at work
alone the files are what it has written (`Alone`, `Stored`), that a token on disk is of
the tenant of the ids beside it unless it was overwritten (`Tokens`), what the steps of
a command leave (`Commands`, `Absent`, `Steps`). All five properties of the run are
proved, for any number of sessions.

**Only model-checked**: liveness (`EveryJobSettled`, `WorkerReturns`,
`EveryCallEnds`), which needs fairness and ENABLED. Every safety property that a
passing run checks is proved.

## 6. Running

    tlc -workers 2 -config AsyncQueue.cfg MCAsyncQueue
    tlapm AsyncQueueProofs.tla

With two workers `UserSync` (4.5 million states), `GroupTeams` (4.8 million) and
`GroupSync` (1.2 million) take two to three minutes, `Licences` (2.7 million),
`GraphCall` (0.3 million, with liveness) and `Connections` (1.3 million) a good minute
each, the others less; `GroupSyncProofs` and `GroupInSyncProofs` take fifteen to twenty
minutes each, the other proof modules a few.

## 7. What could follow

1. `GroupSync` with the queue of `AsyncQueue` in place of `jobs`, so that a job may be
   lost or refused after a retry while the listener goes on; the polling of
   `TeamAzure.wait_for_operation`.
2. Several connections in `GroupSync`: an administrator moves a group or its users
   from one to another.

## 8. Not modelled

The **Redis queue**, which nothing instantiates; the **UDM wrappers and hooks** beyond
the objects of connections, thin layers whose effect are the LDAP entries of the
modules; the **command line tools** that print what they read, and `o365_usertokens`,
a loop of one request and one write per user; certificates, addresses, logging and
helpers, which are pure functions or output; the browser's part of the wizard, the
signature of Microsoft's answer, the SAML configuration and packaging. Among the 60
endpoint wrappers of `microsoft/core.py` only those the queue, the handlers and the
wizard call appear, as requests that succeed, fail, or lose their answer. Operations
nothing calls are left out (`TeamAzure.create`, `delete`, `update`, `reactivate`,
`GroupAzure.delete`, `rename_adconnection`, `ConnectionsPool`).

Most hazards that `PROJECT.json` lists without a property are steps the code does not
repeat or undo: the models have them, and the properties must exempt what follows, as
each note says. Two more have no property because no state of the models shows them: a
job file that does not parse stops the queue, the daemon dying on it each time it is
restarted (`jsonfilesqueue.py:79`), but such a file does not arise from the program; and
`set_current_alias` restores the alias without `finally`, which matters only to an
object that is used again after an exception, and the listener makes new ones for each
call.
