---------------------------- MODULE Connections -----------------------------
(***************************************************************************)
(* Connections to tenants: how they are made and removed on the command    *)
(* line (manage_adconnections, AccountConnector), how the wizard gives one *)
(* the application and the tenant it stands for (the module of the         *)
(* management console, AzureAccount, Manifest), and what the listener has  *)
(* of them in memory since it was started (Connector).                     *)
(*                                                                         *)
(* A connection is a directory with ids.json and token.json, a variable of *)
(* the registry, which says its tenant, and an object in LDAP.  Every      *)
(* session of the management console has a process of its own, which       *)
(* handles one request at a time; the browser asks for the state again and *)
(* again.  An application is registered in one tenant, whose administrator *)
(* alone can consent to it.  Microsoft's answer is for the last address    *)
(* that was handed out, or for an earlier one, and it may come twice.  An  *)
(* access token is written as the tenant it is for; GraphCall has its      *)
(* renewal in detail.                                                      *)
(***************************************************************************)
EXTENDS Integers, Sequences, FiniteSets

CONSTANTS
  Alias,       \* connections
  Tenant,      \* tenants
  App,         \* applications: manifests that can be uploaded
  Home,        \* Home[p]: the tenant application p is registered in
  Session,     \* sessions of the management console
  MaxUploads,  \* bound: uploads of a manifest
  MaxCommands, \* bound: calls of manage_adconnections
  MaxCrashes   \* bound: processes killed or failing between two steps

None == "none"
Common == "common"
Uninitialized == "uninitialized"

ASSUME NamesAssumption ==
  {None, Common, Uninitialized} \cap (Alias \cup Tenant \cup App) = {}
ASSUME HomeAssumption == Home \in [App -> Tenant]
ASSUME BoundsAssumption ==
  MaxUploads \in Nat /\ MaxCommands \in Nat /\ MaxCrashes \in Nat

VARIABLES
  there,     \* connections whose directory exists
  ids,       \* ids[a]: what ids.json holds
  token,     \* token[a]: what token.json holds
  ucr,       \* ucr[a]: office365/adconnection/alias/a
  udm,       \* connections with an object in LDAP
  wizard,    \* office365/adconnection/wizard
  proc,      \* proc[s]: the session's process, or NoProc
  cmd,       \* the call of manage_adconnections, or Idle
  listener,  \* listener[a]: the account the listener has in memory, or NoAccount
  urls,      \* addresses handed out: nonces are their numbers
  answered,  \* addresses an administrator has answered
  uploads,   \* uploads so far
  commands,  \* calls of manage_adconnections so far
  crashes,   \* processes killed so far
  cut,       \* connections on which something was killed or failed (history)
  spoiled,   \* connections whose token file the listener has overwritten with the
             \* token of the application it had before (history)
  taken,     \* connections the listener took up with such a token (history)
  overlapped \* two sessions have worked on one connection at a time, or a
             \* connection was removed while a session worked on it (history)

disk == <<there, ids, token>>
registry == <<ucr, udm, wizard>>
azure == <<urls, answered>>
history == <<uploads, commands, crashes, cut, spoiled, taken, overlapped>>
vars == <<disk, registry, proc, cmd, listener, azure, history>>

NoIds == [app |-> None, tenant |-> None, domain |-> FALSE]
NoToken == [nonce |-> 0, access |-> None]
NoAnswer == [kind |-> None, nonce |-> 0]
NoProc == [pc |-> "off", alias |-> None, answer |-> NoAnswer]
NoAccount == [app |-> None, access |-> None]
Idle == [op |-> "none", pc |-> "idle", alias |-> None]

ProcPC == {"off", "idle", "manifest", "url", "store", "login", "register"}
Ids == [app : App \cup {None}, tenant : Tenant \cup {None, Common}, domain : BOOLEAN]
Answer == [kind : {None, "token", "error", "used"}, nonce : Nat]
Proc == [pc : ProcPC, alias : Alias \cup {None}, answer : Answer]
Cmd == [op : {"none", "create", "remove"}, alias : Alias \cup {None},
        pc : {"idle", "files", "ucr", "udm", "wizard", "kill", "restart",
              "object", "rmtree", "unset"}]
Url == [alias : Alias, app : App, tenant : Tenant \cup {Common}]

TypeOK ==
  /\ there \subseteq Alias
  /\ ids \in [Alias -> Ids]
  /\ token \in [Alias -> [nonce : Nat, access : Tenant \cup {None}]]
  /\ ucr \in [Alias -> Tenant \cup {None, Uninitialized}]
  /\ udm \subseteq Alias
  /\ wizard \in Alias \cup {None}
  /\ proc \in [Session -> Proc]
  /\ cmd \in Cmd
  /\ listener \in [Alias -> [app : App \cup {None}, access : Tenant \cup {None}]]
  /\ urls \in Seq(Url)
  /\ answered \subseteq DOMAIN urls
  /\ uploads \in 0 .. MaxUploads /\ commands \in 0 .. MaxCommands
  /\ crashes \in 0 .. MaxCrashes
  /\ cut \subseteq Alias /\ overlapped \subseteq Alias
  /\ spoiled \subseteq Alias /\ taken \subseteq Alias

Init ==
  /\ there = {} /\ udm = {}
  /\ ids = [a \in Alias |-> NoIds]
  /\ token = [a \in Alias |-> NoToken]
  /\ ucr = [a \in Alias |-> None]
  /\ wizard = None
  /\ proc = [s \in Session |-> NoProc]
  /\ cmd = Idle
  /\ listener = [a \in Alias |-> NoAccount]
  /\ urls = <<>> /\ answered = {}
  /\ uploads = 0 /\ commands = 0 /\ crashes = 0
  /\ cut = {} /\ spoiled = {} /\ taken = {} /\ overlapped = {}

\* AzureAccount.is_initialized: an upload alone makes it so.
IsInitialized(a) == ids[a].app # None /\ ids[a].tenant # None /\ ids[a].domain

-----------------------------------------------------------------------------
(* The listener.                                                           *)

\* client_assertion: which application asks, at the address of which tenant.
Assertion(a) == [app |-> ids[a].app, tenant |-> ids[a].tenant]

\* Microsoft gives a token to an application its tenant has consented to.
Granted(q) == /\ q.tenant \in {Common, Home[q.app]}
              /\ \E n \in answered : urls[n].app = q.app

\* get_adconnection_aliases
Listed == {a \in Alias : ucr[a] # None}

Serves(a) == a \in Listed /\ IsInitialized(a) /\ Granted(Assertion(a))

\* The token of a connection is taken from its file, or asked for.
Load ==
  /\ listener' = [a \in Alias |->
       IF ~Serves(a) THEN NoAccount
       ELSE [app |-> ids[a].app,
             access |-> IF token[a].access # None THEN token[a].access ELSE Home[ids[a].app]]]
  /\ token' = [a \in Alias |->
       IF Serves(a) /\ token[a].access = None
       THEN [nonce |-> 0, access |-> Home[ids[a].app]] ELSE token[a]]
  /\ taken' = {a \in spoiled : Serves(a) /\ token[a].access # None}
  /\ UNCHANGED <<there, ids, registry, azure, uploads, commands, crashes, cut, spoiled,
                 overlapped>>

\* The listener is restarted by anyone.
Restart ==
  /\ Load
  /\ UNCHANGED <<proc, cmd>>

\* What is saved is Microsoft's answer alone: the nonce is lost.
Renew(a) ==
  /\ listener[a] # NoAccount /\ a \in there
  /\ listener' = [listener EXCEPT ![a].access = Home[listener[a].app]]
  /\ token' = [token EXCEPT ![a] = [nonce |-> 0, access |-> Home[listener[a].app]]]
  /\ taken' = taken \ {a}
  /\ spoiled' = IF listener[a].app # ids[a].app THEN spoiled \cup {a} ELSE spoiled
  /\ UNCHANGED <<there, ids, registry, proc, cmd, azure, uploads, commands, crashes,
                 cut, overlapped>>

-----------------------------------------------------------------------------
(* The wizard.                                                             *)

\* Instance.init
Fresh == [pc |-> "idle", alias |-> wizard, answer |-> NoAnswer]

Goto(s, pc) == proc' = [proc EXCEPT ![s].pc = pc]
At(s, pc) == proc[s].pc = pc
Of(s) == proc[s].alias
Asked(s) == urls[proc[s].answer.nonce].app
Working(a) == {s \in Session : proc[s].alias = a /\ proc[s].pc \notin {"off", "idle"}}
Overlaps(s) == overlapped' =
  IF Working(Of(s)) \ {s} # {} THEN overlapped \cup {Of(s)} ELSE overlapped

\* The first request of a session; without the variable every request fails.
Open(s) ==
  /\ At(s, "off") /\ wizard # None
  /\ proc' = [proc EXCEPT ![s] = Fresh]
  /\ UNCHANGED <<disk, registry, cmd, listener, azure, history>>

\* Fault: token.json is left as it is.
UploadFault(s) ==
  /\ At(s, "idle") /\ Of(s) \in there /\ uploads < MaxUploads
  /\ uploads' = uploads + 1
  /\ ids' = [ids EXCEPT ![Of(s)] = NoIds]
  /\ Overlaps(s)
  /\ Goto(s, "manifest")
  /\ UNCHANGED <<there, token, registry, cmd, listener, azure, commands, crashes, cut, spoiled, taken>>

\* upload: uninitialize, before the manifest is looked at.
Upload(s) ==
  /\ At(s, "idle") /\ Of(s) \in there /\ uploads < MaxUploads
  /\ uploads' = uploads + 1
  /\ ids' = [ids EXCEPT ![Of(s)] = NoIds]
  /\ token' = [token EXCEPT ![Of(s)] = NoToken]
  /\ spoiled' = spoiled \ {Of(s)}
  /\ Overlaps(s)
  /\ Goto(s, "manifest")
  /\ UNCHANGED <<there, registry, cmd, listener, azure, commands, crashes, cut, taken>>

\* A manifest that is no JSON, or without an id or the address for answers, or a
\* name of a tenant that is no good: the answer says so.
BadManifest(s) ==
  /\ At(s, "manifest")
  /\ Goto(s, "idle")
  /\ UNCHANGED <<disk, registry, cmd, listener, azure, history>>

\* Manifest, transform, store_manifest
StoreManifest(s) ==
  /\ At(s, "manifest") /\ Of(s) \in there
  /\ \E p \in App, t \in Tenant \cup {Common} :
       ids' = [ids EXCEPT ![Of(s)] = [app |-> p, tenant |-> t, domain |-> TRUE]]
  /\ Goto(s, "url")
  /\ UNCHANGED <<there, token, registry, cmd, listener, azure, history>>

\* get_authorization_url
HandOut(s) ==
  /\ At(s, "url") /\ Of(s) \in there
  /\ LET a == Of(s) IN
     /\ token' = [token EXCEPT ![a].nonce = Len(urls) + 1]
     /\ ids[a].app # None
     /\ urls' = Append(urls, [alias |-> a, app |-> ids[a].app, tenant |-> ids[a].tenant])
  /\ Goto(s, "idle")
  /\ UNCHANGED <<there, ids, registry, cmd, listener, answered, history>>

\* NoIDsStored, after a nonce was written that nobody is given.
NoIDsStored(s) ==
  /\ At(s, "url") /\ Of(s) \in there /\ ids[Of(s)].app = None
  /\ token' = [token EXCEPT ![Of(s)].nonce = 0]
  /\ Goto(s, "idle")
  /\ UNCHANGED <<there, ids, registry, cmd, listener, azure, history>>

\* The directory is gone, and with it the files.
Raises(s) ==
  /\ proc[s].pc \in {"manifest", "url", "store", "login"} /\ Of(s) \notin there
  /\ Goto(s, "idle")
  /\ UNCHANGED <<disk, registry, cmd, listener, azure, history>>

\* authorize_internal: the browser brings an answer of Microsoft.
Receive(s) ==
  /\ At(s, "idle")
  /\ \E n \in DOMAIN urls :
       /\ urls[n].tenant \in {Common, Home[urls[n].app]}
       /\ answered' = answered \cup {n}
       /\ proc' = [proc EXCEPT ![s] = [Fresh EXCEPT !.answer = [kind |-> "token", nonce |-> n]]]
  /\ UNCHANGED <<disk, registry, cmd, listener, urls, history>>

\* The administrator declined, and the next state says so.
Decline(s) ==
  /\ At(s, "idle") /\ urls # <<>>
  /\ proc' = [proc EXCEPT ![s] = [Fresh EXCEPT !.answer.kind = "error"]]
  /\ UNCHANGED <<disk, registry, cmd, listener, azure, history>>

Report(s) ==
  /\ At(s, "idle") /\ proc[s].answer.kind = "error"
  /\ proc' = [proc EXCEPT ![s] = Fresh]
  /\ UNCHANGED <<disk, registry, cmd, listener, azure, history>>

\* Fault: the nonce is not looked at.
CheckFault(s) ==
  /\ At(s, "idle") /\ proc[s].answer.kind = "token"
  /\ ids[Of(s)].app = Asked(s)
  /\ Goto(s, "store")
  /\ UNCHANGED <<disk, registry, cmd, listener, azure, history>>

\* state, parse_id_token: ids, nonce and token are read from the files.  If
\* something does not fit, the exception (a TokenValidationError, a KeyError)
\* is not caught, and the next poll tries the same answer again.
Check(s) ==
  /\ At(s, "idle") /\ proc[s].answer.kind = "token"
  /\ token[Of(s)].nonce = proc[s].answer.nonce
  /\ ids[Of(s)].app = Asked(s)
  /\ Goto(s, "store")
  /\ UNCHANGED <<disk, registry, cmd, listener, azure, history>>

\* The certificates have been fetched: store_ids adds to what the file holds now.
Store(s) ==
  /\ At(s, "store") /\ Of(s) \in there
  /\ ids' = [ids EXCEPT ![Of(s)].app = Asked(s), ![Of(s)].tenant = Home[Asked(s)]]
  /\ Goto(s, "login")
  /\ UNCHANGED <<there, token, registry, cmd, listener, azure, history>>

Disturb(a) ==
  /\ crashes < MaxCrashes
  /\ crashes' = crashes + 1
  /\ cut' = cut \cup {a}

\* The script for the single sign-on is written, and an access token asked for.
Login(s) ==
  LET a == Of(s) IN
  /\ At(s, "login") /\ a \in there
  /\ token' = [token EXCEPT ![a] = [nonce |-> 0, access |-> Home[Asked(s)]]]
  /\ spoiled' = spoiled \ {a}
  /\ Goto(s, "register")
  /\ UNCHANGED <<there, ids, registry, cmd, listener, azure, uploads, commands, crashes,
                 cut, taken, overlapped>>

\* An MSGraphError drops the answer; another error, one of writing the script
\* among them, leaves it to the next poll.  ids.json stays.
LoginFails(s) ==
  /\ At(s, "login")
  /\ Disturb(Of(s))
  /\ proc' \in {[proc EXCEPT ![s] = Fresh], [proc EXCEPT ![s].pc = "idle"]}
  /\ UNCHANGED <<disk, registry, cmd, listener, azure, uploads, commands, spoiled, taken, overlapped>>

\* Fault: the tenant ids.json had before the answer.
RegisterFault(s) ==
  /\ At(s, "register")
  /\ ucr' = [ucr EXCEPT ![Of(s)] = urls[proc[s].answer.nonce].tenant]
  /\ proc' = [proc EXCEPT ![s].pc = "idle", ![s].answer.kind = "used"]
  /\ UNCHANGED <<disk, udm, wizard, cmd, listener, azure, history>>

\* The registry gets the tenant of the answer, whatever ids.json says by now.
Register(s) ==
  /\ At(s, "register")
  /\ ucr' = [ucr EXCEPT ![Of(s)] = Home[Asked(s)]]
  /\ proc' = [proc EXCEPT ![s].pc = "idle", ![s].answer.kind = "used"]
  /\ UNCHANGED <<disk, udm, wizard, cmd, listener, azure, history>>

\* The next poll: list_users, then the listener is restarted.
Complete(s) ==
  /\ At(s, "idle") /\ proc[s].answer.kind = "used" /\ IsInitialized(Of(s))
  /\ proc' = [proc EXCEPT ![s] = Fresh]
  /\ Load
  /\ UNCHANGED cmd

\* list_users raises: the listener is not restarted, and no poll comes back to it.
CompleteFails(s) ==
  /\ At(s, "idle") /\ proc[s].answer.kind = "used" /\ IsInitialized(Of(s))
  /\ Disturb(Of(s))
  /\ proc' = [proc EXCEPT ![s] = Fresh]
  /\ UNCHANGED <<disk, registry, cmd, listener, azure, uploads, commands, spoiled, taken, overlapped>>

\* The process of a session ends, between requests or killed within one.
Close(s) ==
  /\ ~At(s, "off")
  /\ IF At(s, "idle") THEN UNCHANGED <<crashes, cut>> ELSE Disturb(Of(s))
  /\ proc' = [proc EXCEPT ![s] = NoProc]
  /\ UNCHANGED <<disk, registry, cmd, listener, azure, uploads, commands, spoiled, taken, overlapped>>

-----------------------------------------------------------------------------
(* manage_adconnections.                                                   *)

Doing(op, pc) == cmd.op = op /\ cmd.pc = pc
Step(pc) == cmd' = [cmd EXCEPT !.pc = pc]
Begin(op, a, pc) ==
  /\ cmd = Idle /\ commands < MaxCommands
  /\ commands' = commands + 1
  /\ cmd' = [op |-> op, pc |-> pc, alias |-> a]

\* A directory that is there without the variable is an error.
Create(a) ==
  /\ Begin("create", a, "files")
  /\ a \notin Listed \cup there
  /\ UNCHANGED <<disk, registry, proc, listener, azure, uploads, crashes, cut, spoiled,
                 taken, overlapped>>

\* The directory, the certificates, uninitialize.
MakeFiles ==
  /\ Doing("create", "files")
  /\ there' = there \cup {cmd.alias}
  /\ ids' = [ids EXCEPT ![cmd.alias] = NoIds]
  /\ token' = [token EXCEPT ![cmd.alias] = NoToken]
  /\ Step("ucr")
  /\ UNCHANGED <<registry, proc, listener, azure, history>>

SetUcr ==
  /\ Doing("create", "ucr")
  /\ ucr' = [ucr EXCEPT ![cmd.alias] = Uninitialized]
  /\ Step("udm")
  /\ UNCHANGED <<disk, udm, wizard, proc, listener, azure, history>>

CreateUdm ==
  /\ Doing("create", "udm") /\ cmd.alias \notin udm
  /\ udm' = udm \cup {cmd.alias}
  /\ Step("wizard")
  /\ UNCHANGED <<disk, ucr, wizard, proc, listener, azure, history>>

\* configure_wizard_for_adconnection
SetWizard ==
  /\ Doing("create", "wizard")
  /\ wizard' = cmd.alias
  /\ Step("kill")
  /\ UNCHANGED <<disk, ucr, udm, proc, listener, azure, history>>

\* pkill meets a process of the wizard wherever it is.
KillWizard ==
  /\ Doing("create", "kill")
  /\ cut' = cut \cup {Of(s) : s \in {x \in Session : proc[x].pc \notin {"off", "idle"}}}
  /\ proc' = [s \in Session |-> NoProc]
  /\ Step("restart")
  /\ UNCHANGED <<disk, registry, listener, azure, uploads, commands, crashes,
                 spoiled, taken, overlapped>>

\* listener_restart
RestartListener ==
  /\ cmd.pc = "restart"
  /\ Load
  /\ cmd' = Idle
  /\ UNCHANGED proc

Remove(a) ==
  /\ Begin("remove", a, "object")
  /\ a \in Listed
  /\ UNCHANGED <<disk, registry, proc, listener, azure, uploads, crashes, cut, spoiled,
                 taken, overlapped>>

RemoveUdm ==
  /\ Doing("remove", "object")
  /\ udm' = udm \ {cmd.alias}
  /\ Step("rmtree")
  /\ UNCHANGED <<disk, ucr, wizard, proc, listener, azure, history>>

RemoveFiles ==
  /\ Doing("remove", "rmtree") /\ cmd.alias \in there
  /\ there' = there \ {cmd.alias}
  /\ ids' = [ids EXCEPT ![cmd.alias] = NoIds]
  /\ token' = [token EXCEPT ![cmd.alias] = NoToken]
  /\ overlapped' = IF Working(cmd.alias) # {} THEN overlapped \cup {cmd.alias} ELSE overlapped
  /\ Step("unset")
  /\ UNCHANGED <<registry, proc, listener, azure, uploads, commands, crashes, cut, spoiled, taken>>

\* rmtree raises.
RemoveNothing ==
  /\ Doing("remove", "rmtree") /\ cmd.alias \notin there
  /\ cmd' = Idle
  /\ UNCHANGED <<disk, registry, proc, listener, azure, history>>

\* Fault: office365/defaultalias is unset instead of the alias.
UnsetFault ==
  /\ Doing("remove", "unset")
  /\ Step("restart")
  /\ UNCHANGED <<disk, registry, proc, listener, azure, history>>

Unset ==
  /\ Doing("remove", "unset")
  /\ ucr' = [ucr EXCEPT ![cmd.alias] = None]
  /\ Step("restart")
  /\ UNCHANGED <<disk, udm, wizard, proc, listener, azure, history>>

KillCommand ==
  /\ cmd # Idle
  /\ Disturb(cmd.alias)
  /\ cmd' = Idle
  /\ UNCHANGED <<disk, registry, proc, listener, azure, uploads, commands, spoiled, taken, overlapped>>

-----------------------------------------------------------------------------

Request(s) == \/ Open(s) \/ Upload(s) \/ BadManifest(s) \/ StoreManifest(s) \/ HandOut(s)
              \/ NoIDsStored(s) \/ Raises(s) \/ Receive(s) \/ Decline(s) \/ Close(s)
Poll(s) == \/ Report(s) \/ Check(s) \/ Store(s) \/ Login(s) \/ LoginFails(s)
           \/ Register(s) \/ Complete(s) \/ CompleteFails(s)
Manage == \/ \E a \in Alias : Create(a) \/ Remove(a)
          \/ MakeFiles \/ SetUcr \/ CreateUdm \/ SetWizard \/ KillWizard \/ RestartListener
          \/ RemoveUdm \/ RemoveFiles \/ RemoveNothing \/ Unset \/ KillCommand

Next == \/ \E s \in Session : Request(s) \/ Poll(s)
        \/ Manage
        \/ Restart \/ \E a \in Alias : Renew(a)

Spec == Init /\ [][Next]_vars

-----------------------------------------------------------------------------
(* What is promised of connections.                                        *)

\* A connection stands for a tenant only if an administrator of this tenant
\* answered an address that was handed out for this very connection, whichever
\* process got the answer, and whenever.
Consented ==
  \A a \in Alias : ucr[a] \in Tenant =>
    \E n \in answered : urls[n].alias = a /\ Home[urls[n].app] = ucr[a]

\* The address handed out last for a connection.
Latest(a) == {n \in DOMAIN urls : urls[n].alias = a /\
                \A m \in DOMAIN urls : urls[m].alias = a => m <= n}

\* ids.json gets a tenant from an answer only if it is the answer to the address
\* handed out last for the connection: an upload makes earlier ones void,
\* though every poll reads nonce and ids from files others write.  Not so where
\* two sessions work on one connection at a time.
LatestAnswer ==
  [][\A s \in Session : \A a \in Alias \ overlapped :
       Of(s) = a /\ At(s, "store") /\ proc'[s].pc = "login"
         => proc[s].answer.nonce \in Latest(a) /\ Asked(s) = ids[a].app]_vars

\* The listener never works for one application with the token of another
\* tenant, although the wizard gives a connection another application and tenant
\* under its feet.  Not so where it overwrote the token and met it again, or where
\* two sessions work on one connection at a time.
TokenOfTenant ==
  \A a \in Alias \ (taken \cup overlapped) :
    listener[a] # NoAccount => listener[a].access = Home[listener[a].app]

\* Directory, registry and LDAP know the same connections, unless something was
\* killed or a connection was removed while the wizard worked on it.
SameConnections ==
  cmd = Idle =>
    \A a \in Alias \ (cut \cup overlapped) :
      (ucr[a] # None) = (a \in there) /\ (a \in udm) = (a \in there)

=============================================================================
