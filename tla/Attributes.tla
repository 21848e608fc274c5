----------------------------- MODULE Attributes -----------------------------
(***************************************************************************)
(* Which attributes of a user reach Azure, and as what: the registry       *)
(* variables office365/attributes/*, ConnectorAttributes, which is made of *)
(* them when the listener starts, UserConnector.parse and UserAzure.update.*)
(*                                                                         *)
(* There is one user and one connection.  The listener sends the           *)
(* difference between what it makes of the entry it handled last and what  *)
(* it makes of the entry it reads; only the activation of a user compares  *)
(* with Azure.  What an attribute contains is a sequence of values, what   *)
(* a field of the account contains a set of values, each with the          *)
(* attribute it comes from.                                                *)
(***************************************************************************)
EXTENDS Integers, Sequences, FiniteSets, SequencesExt

CONSTANTS
  Attr,       \* LDAP attributes
  Value,      \* their values
  Contents,   \* Contents[a]: what attribute a may contain
  Order,      \* attributes with a mapping, in the order of the registry
  MapTo,      \* MapTo[a]: the field an attribute is mapped to
  System,     \* ConnectorAttributes.system
  Dangerous,  \* attributes of the connector itself
  Field,      \* fields of an account
  Many,       \* fields that hold a list
  FirstOnly,  \* those of them that hold one value all the same: businessPhones
  CreateOnly, \* fields that are never modified: mobilePhone
  Config,     \* values of the registry variables
  MaxChanges, \* bound: changes made from outside
  MaxCrashes  \* bound: times the listener is killed

Mapped == Range(Order)

\* Fields that parse sets itself, whatever the registry says.
Mandatory == {"userPrincipalName", "displayName", "usageLocation"}

ASSUME AttrAssumption ==
  /\ {"mailPrimaryAddress", "st"} \subseteq Attr
  /\ Order \in Seq(Attr) /\ MapTo \in [Mapped -> Field]
  /\ Contents \in [Attr -> SUBSET Seq(Value)] /\ {} \notin Range(Contents)
  /\ {"uuid", "static"} \cap Value = {}
  \* A user has an address.
  /\ <<>> \notin Contents["mailPrimaryAddress"]
ASSUME FieldAssumption == Mandatory \cup {"otherMails"} \cup FirstOnly \subseteq Field
                          /\ Many \subseteq Field \ Mandatory
                          /\ CreateOnly \subseteq Field \ Mandatory
\* UserAzure refuses a list for a field that holds one value.
ASSUME MappingAssumption ==
  \A a, b \in Mapped : MapTo[a] = MapTo[b] => a = b \/ MapTo[a] \in Many \cup {"usageLocation"}
ASSUME ConfigAssumption ==
  Config \subseteq [never : SUBSET Attr, anonymize : SUBSET Attr,
                    static : SUBSET Attr, sync : SUBSET Attr]
ASSUME BoundsAssumption == MaxChanges \in Nat /\ MaxCrashes \in Nat

VARIABLES
  ldap,    \* the user's entry
  seen,    \* the entry in the listener's cache
  ucr,     \* the registry
  attrs,   \* the listener's ConnectorAttributes
  account, \* the account in Azure, or NoAccount
  job,     \* the call of the listener module, or Idle
  changes, \* changes made so far
  crashes, \* times the listener was killed
  loaded,  \* what the registry held when the listener started (history)
  failed,  \* a call has failed (history)
  raced,   \* the user was changed before a change was handled, which may be one
           \* that a killed listener had half handled (history)
  outdated \* the account has not been compared with since the registry changed (history)

vars == <<ldap, seen, ucr, attrs, account, job, changes, crashes, loaded, failed,
          raced, outdated>>
entries == <<ldap, seen>>
config == <<ucr, attrs, loaded>>
history == <<changes, crashes, failed, raced, outdated>>

Idle == [pc |-> "idle"]
busy == job # Idle
NoAccount == [enabled |-> FALSE, has |-> [f \in Field |-> {}]]

Plain(a) == {<<a, v>> : v \in UNION {Range(c) : c \in Contents[a]}}
Said(a) == Plain(a) \cup {<<a, "uuid">>, <<a, "static">>}
Unsaid == {<<"none", "no name">>, <<"none", "country">>}
Sent == Unsaid \cup UNION {Said(a) : a \in Attr}
Entry == [on : BOOLEAN, id : BOOLEAN,
          at : {e \in [Attr -> Seq(Value)] : \A a \in Attr : e[a] \in Contents[a]}]
Azure == [enabled : BOOLEAN, has : [Field -> SUBSET Sent]]
Job == [pc : {"post", "edit", "off", "write", "done"}, old : Entry, new : Entry]
AttrSets == [never : SUBSET Attr, anonymize : SUBSET Attr,
             static : SUBSET Attr, sync : SUBSET Attr]
Apart(c) == /\ (c.anonymize \cup c.static \cup c.sync) \cap c.never = {}
            /\ c.anonymize \cap c.static = {}
            /\ (c.anonymize \cup c.static) \cap c.sync = {}

TypeOK ==
  /\ ldap \in Entry /\ seen \in Entry
  /\ ucr \in Config /\ loaded \in Config
  /\ attrs \in AttrSets /\ Apart(attrs)
  /\ account \in Azure
  /\ job \in Job \cup {Idle}
  /\ changes \in 0 .. MaxChanges /\ crashes \in 0 .. MaxCrashes
  /\ failed \in BOOLEAN /\ raced \in BOOLEAN /\ outdated \in BOOLEAN

-----------------------------------------------------------------------------
(* ConnectorAttributes.                                                    *)

AllSyncKeys(c) == (c.static \cup c.sync \cup c.anonymize) \ c.never

\* utils.remove_elements_from_containers
Without(c, S) ==
  [c EXCEPT !.anonymize = @ \ S, !.static = @ \ S, !.sync = @ \ S]

Sanitize(c) ==
  LET d == Without(c, AllSyncKeys(c) \ (Mapped \cup System))
  IN IF AllSyncKeys(d) \cap Dangerous # {} THEN Without(d, Dangerous) ELSE d

\* Fault: what has a constant is still in the list of what is sent as it is.
DisjointFault(c) ==
  LET anonymize == c.anonymize \ c.never
      static == (c.static \ c.never) \ anonymize
  IN [c EXCEPT !.anonymize = anonymize, !.static = static,
               !.sync = (@ \ c.never) \ anonymize]

\* never > anonymize > static > sync
Disjoint(c) ==
  LET anonymize == c.anonymize \ c.never
      static == (c.static \ c.never) \ anonymize
  IN [c EXCEPT !.anonymize = anonymize, !.static = static,
               !.sync = ((@ \ c.never) \ anonymize) \ static]

Load(c) == Disjoint(Sanitize(c))

-----------------------------------------------------------------------------
(* UserConnector.parse.                                                    *)

\* An attribute the entry does not have is left out: parse is never called
\* with modify.
Present(e) == {a \in AllSyncKeys(attrs) \ System : e.at[a] # <<>>}

Tag(a, c) == [i \in DOMAIN c |-> <<a, c[i]>>]

\* anonymize > static > sync
Converted(e, a) ==
  IF a \in attrs.anonymize THEN <<<<a, "uuid">>>>
  ELSE IF a \in attrs.static THEN <<<<a, "static">>>>
  ELSE Tag(a, e.at[a])

\* The attributes that make a field.
Sources(e, f) == {a \in Present(e) \cap Mapped : MapTo[a] = f}

\* the one that is first in the registry
Leading(S) == CHOOSE a \in S : \E i \in DOMAIN Order :
                /\ Order[i] = a
                /\ \A j \in 1 .. i - 1 : Order[j] \notin S

\* Fault: where several attributes have one field, their values are taken
\* from the entry.
DataFault(e, f) ==
  LET S == Sources(e, f) IN
  IF S = {} THEN {}
  ELSE IF f \in Many \ FirstOnly THEN UNION {Range(Tag(a, e.at[a])) : a \in S}
  ELSE {Converted(e, Leading(S))[1]}

\* A list gets the values of all attributes that are mapped to it.
Data(e, f) ==
  LET S == Sources(e, f) IN
  IF S = {} THEN {}
  ELSE IF f \in Many \ FirstOnly THEN UNION {Range(Converted(e, a)) : a \in S}
  ELSE {Converted(e, Leading(S))[1]}

Default(S, d) == IF S # {} THEN S ELSE {d}

\* The local part of the address, the name and the country.
Parse(e) ==
  [f \in Field |->
     CASE f = "userPrincipalName" -> {Tag("mailPrimaryAddress", e.at["mailPrimaryAddress"])[1]}
       [] f = "displayName" -> Default(Data(e, f), <<"none", "no name">>)
       [] f = "usageLocation" -> IF e.at["st"] = <<>> THEN {<<"none", "country">>}
                                 ELSE {Tag("st", e.at["st"])[1]}
       [] OTHER -> Data(e, f)]

\* An anonymised value is another one each time.
Random(S) == \E x \in S : x[2] = "uuid"

\* Fault: a list that was there is not sent again.
UpdateFault(old, new) ==
  LET diff == {f \in Field \ CreateOnly : new[f] # {} /\ (old[f] = {} \/ f \notin Many)}
  IN [f \in Field |-> IF f \in diff THEN new[f] ELSE account.has[f]]

\* UserAzure.update: what differs and is not None, but for a few fields.
Update(old, new) ==
  LET diff == {f \in Field \ CreateOnly :
                 new[f] # {} /\ (old[f] # new[f] \/ Random(new[f]))}
  IN [f \in Field |-> IF f \in diff THEN new[f] ELSE account.has[f]]

-----------------------------------------------------------------------------

\* The shortest contents.
Least(a) == CHOOSE c \in Contents[a] : \A d \in Contents[a] : Len(c) <= Len(d)

Init ==
  /\ ldap = [on |-> FALSE, id |-> FALSE, at |-> [a \in Attr |-> Least(a)]]
  /\ seen = ldap
  /\ ucr \in Config /\ loaded = ucr
  /\ attrs = Load(ucr)
  /\ account = NoAccount
  /\ job = Idle
  /\ changes = 0 /\ crashes = 0
  /\ failed = FALSE /\ raced = FALSE /\ outdated = FALSE

(* Administrators.                                                         *)

Put(e) ==
  /\ changes < MaxChanges
  /\ changes' = changes + 1
  /\ ldap' = e
  /\ raced' = (raced \/ (crashes > 0 /\ seen # ldap))
  /\ UNCHANGED <<seen, config, account, job, crashes, failed, outdated>>

Switch == Put([ldap EXCEPT !.on = ~@])

SetAttribute(a) == \E c \in Contents[a] \ {ldap.at[a]} : Put([ldap EXCEPT !.at[a] = c])

\* The listener does not look at the registry again.
Configure ==
  /\ changes < MaxChanges
  /\ changes' = changes + 1
  /\ \E c \in Config \ {ucr} : ucr' = c
  /\ UNCHANGED <<entries, attrs, loaded, account, job, crashes, failed, raced, outdated>>

-----------------------------------------------------------------------------
(* The listener.                                                           *)

\* Fault: the attributes of the time before are kept.
LoadConfigFault ==
  /\ attrs' = attrs
  /\ loaded' = ucr
  /\ outdated' = (outdated \/ ucr # loaded)
  /\ UNCHANGED ucr

\* Connector.__init__
LoadConfig ==
  /\ attrs' = Load(ucr)
  /\ loaded' = ucr
  /\ outdated' = (outdated \/ ucr # loaded)
  /\ UNCHANGED ucr

Restart ==
  /\ ~busy /\ ucr # loaded
  /\ LoadConfig
  /\ UNCHANGED <<entries, account, job, changes, crashes, failed, raced>>

\* UserConnector.modify
Branch(old, new) ==
  IF new.on THEN IF old.on THEN "edit" ELSE "post"
  ELSE IF old.on THEN "off" ELSE "done"

Start ==
  /\ ~busy /\ seen # ldap
  /\ job' = [pc |-> Branch(seen, ldap), old |-> seen, new |-> ldap]
  /\ UNCHANGED <<entries, config, account, history>>

\* The listener keeps the entry it has read, whether its module raises or not.
Return ==
  /\ seen' = job.new
  /\ job' = Idle
  /\ UNCHANGED <<ldap, config, account, changes, crashes, raced, outdated>>

Finish == job.pc = "done" /\ Return /\ UNCHANGED failed

\* create_or_modify, the user has no account: create.
PostNew ==
  /\ job.pc = "post" /\ account = NoAccount
  /\ account' = [enabled |-> TRUE, has |-> Parse(job.new)]
  /\ outdated' = FALSE
  /\ job' = [job EXCEPT !.pc = "write"]
  /\ UNCHANGED <<entries, config, changes, crashes, failed, raced>>

\* create_or_modify, the account is there: it is read, and updated.
PostTake ==
  /\ job.pc = "post" /\ account # NoAccount
  /\ account' = [enabled |-> TRUE, has |-> Update(account.has, Parse(job.new))]
  /\ outdated' = FALSE
  /\ job' = [job EXCEPT !.pc = "write"]
  /\ UNCHANGED <<entries, config, changes, crashes, failed, raced>>

\* assert_id finds no account: new_or_reactivate_user.
EditNew ==
  /\ job.pc = "edit" /\ account = NoAccount
  /\ job' = [job EXCEPT !.pc = "post"]
  /\ UNCHANGED <<entries, config, account, history>>

Edit ==
  /\ job.pc = "edit" /\ account # NoAccount
  /\ account' = [account EXCEPT !.has = Update(Parse(job.old), Parse(job.new))]
  /\ job' = [job EXCEPT !.pc = "done"]
  /\ UNCHANGED <<entries, config, history>>

\* UserAzure.deactivate
Off ==
  /\ job.pc = "off" /\ job.old.id
  /\ account' = [account EXCEPT !.enabled = FALSE, !.has["otherMails"] = {}]
  /\ job' = [job EXCEPT !.pc = "done"]
  /\ UNCHANGED <<entries, config, history>>

\* modify_user: "missing AzureID".
OffUnknown ==
  /\ job.pc = "off" /\ ~job.old.id
  /\ Return
  /\ UNCHANGED failed

\* modify_azure_attributes
Write ==
  /\ job.pc = "write"
  /\ ldap' = [ldap EXCEPT !.id = TRUE]
  /\ job' = [job EXCEPT !.pc = "done"]
  /\ UNCHANGED <<seen, config, account, history>>

\* Any call of Microsoft Graph or LDAP may raise what nobody catches.
Fails ==
  /\ busy /\ job.pc # "done" /\ ~failed
  /\ failed' = TRUE
  /\ Return

\* The listener is killed and started again.
Crash ==
  /\ busy /\ crashes < MaxCrashes
  /\ crashes' = crashes + 1
  /\ job' = Idle
  /\ raced' = (raced \/ ldap # job.new)
  /\ LoadConfig
  /\ UNCHANGED <<entries, account, changes, failed>>

Admin == Switch \/ (\E a \in Attr : SetAttribute(a)) \/ Configure
Handler == PostNew \/ PostTake \/ EditNew \/ Edit \/ Off \/ OffUnknown \/ Write \/ Finish
Listener == Restart \/ Start \/ (busy /\ Handler)

Next == Admin \/ Listener \/ Fails \/ Crash

Spec == Init /\ [][Next]_vars

-----------------------------------------------------------------------------
(* What the registry variables promise.                                    *)

Quiet == seen = ldap /\ ~busy

\* What the registry asks for, put in words: an attribute in several lists
\* counts for the first of never, anonymize, static and sync.
Wanted(c, a) ==
  IF a \in c.never \cup Dangerous \cup System \cup (Attr \ Mapped) THEN {}
  ELSE IF a \in c.anonymize THEN {<<a, "uuid">>}
  ELSE IF a \in c.static THEN {<<a, "static">>}
  ELSE IF a \in c.sync THEN Plain(a)
  ELSE {}

\* However often entries and registry change and the listener is killed, a
\* field gets a value only of an attribute that is mapped to it, and only as
\* the registry wanted it when the listener was started: nothing of an
\* attribute that is never to be sent, no anonymised one as it is.  Exempt are
\* the fields made of the address and of st, which no variable governs.
OnlyAsWanted ==
  [][\A f \in Field \ {"userPrincipalName", "usageLocation"} :
       \A x \in account'.has[f] \ account.has[f] :
         \/ x = <<"none", "no name">>
         \/ \E a \in Mapped : MapTo[a] = f /\ x \in Wanted(loaded, a)]_vars

\* What the user's attributes give for a field.
Due(f) ==
  UNION {Wanted(loaded, a) \cap
           (Range(Tag(a, ldap.at[a])) \cup {<<a, "uuid">>, <<a, "static">>}) :
           a \in {b \in Mapped : MapTo[b] = f /\ ldap.at[b] # <<>>}}

\* When nothing is left to do, the account has what the registry wants of the
\* entry: all of it in a list, one value elsewhere, and nothing besides.
\* Exempt are fields for which the entry has nothing any more, those that are
\* set only once, and what a new registry says of an account that has not been
\* activated since.
InSync ==
  Quiet /\ ldap.on /\ ~failed /\ ~raced /\ ~outdated =>
    /\ account.enabled
    /\ account.has["userPrincipalName"] \subseteq
         Range(Tag("mailPrimaryAddress", ldap.at["mailPrimaryAddress"]))
    /\ \A f \in Field \ (CreateOnly \cup {"userPrincipalName", "usageLocation"}) :
         LET have == account.has[f] IN
         Due(f) # {} =>
           IF f \in Many \ FirstOnly THEN have = Due(f)
           ELSE have \subseteq Due(f) /\ Cardinality(have) = 1

=============================================================================
