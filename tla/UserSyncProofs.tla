--------------------------- MODULE UserSyncProofs ---------------------------
(***************************************************************************)
(* UserSync for any users, addresses, connections and bounds.              *)
(*                                                                         *)
(* 1. Every id, in an entry, in the listener's cache or in the call that   *)
(*    is running, is that of an account of its tenant, and everything      *)
(*    keeps its type.                                                      *)
(* 2. An entry keeps the id of an account for as long as the account is    *)
(*    the user's.                                                          *)
(* 3. Accounts end up as the entries are (InSync), no call touches another *)
(*    user's account (OnlyOwnAccounts), and the module's own changes of    *)
(*    LDAP come to an end (NoEcho).                                        *)
(*                                                                         *)
(* SInv is what makes InSync inductive.  Between calls it relates three    *)
(* copies of a user, its entry, the listener's cache and its accounts: one *)
(* the listener knows as a user of a connection has its account there, and *)
(* one who neither is nor is to become one has none that works.  During a  *)
(* call it says of every connection what the operation that waits for it   *)
(* finds, where the one that runs is, and what a finished one left behind. *)
(* It needs the order of the queue: who gives a name up is handled before  *)
(* who gets it.  EInv adds what a call for the module's own change finds.  *)
(***************************************************************************)
EXTENDS UserSync, TLAPS

IdsOf(d) == \A t \in Tenant : d[t].id \in 0 .. Len(azure[t])

\* Ids in LDAP and in the cache are those of accounts, and a user who
\* exists, or existed, has a mail address.
Entries ==
  \A u \in User :
    /\ IdsOf(ldap[u].data) /\ IdsOf(seen[u].data)
    /\ ldap[u].life # "none" => ldap[u].mail \in Mail

\* Only users who exist, or existed, wait for the listener.
Queued == \A k \in 1 .. Len(queue) : ldap[queue[k]].life # "none"

\* The account a call is at, once it has found one.
AtAccount == {"licence", "write", "join", "leave", "unlicense"}

\* What a call of the listener module has in its hands.
Handling ==
  busy =>
    /\ queue # <<>>
    /\ job.new.mail \in Mail
    /\ IdsOf(job.old.data) /\ IdsOf(job.new.data) /\ IdsOf(job.data)
    /\ job.pc \in {"disable", "edit"} => job.id \in 0 .. Len(azure[job.at])
    /\ job.pc \in AtAccount => job.id \in 1 .. Len(azure[job.at])

IInv == TypeOK /\ Entries /\ Queued /\ Handling

LEMMA InitIInv == Init => IInv
<1> SUFFICES ASSUME Init PROVE IInv
  OBVIOUS
<1> USE DEF Init
<1>1. Nobody \in Person /\ Nobody.life = "none"
  BY DEF Nobody, Person, NoEntry
<1>2. TypeOK
  <2>1. ldap \in [User -> Person] /\ seen \in [User -> Person]
    BY <1>1
  <2>2. queue \in Seq(User) /\ azure \in [Tenant -> Seq(AccountRecord)]
    OBVIOUS
  <2>3. changes \in 0 .. MaxChanges /\ crashes \in 0 .. MaxCrashes
    BY BoundsAssumption
  <2> QED BY <2>1, <2>2, <2>3 DEF TypeOK
<1>3. Entries
  BY DEF Entries, IdsOf, Nobody, NoEntry
<1>4. Queued /\ Handling
  BY DEF Queued, Handling, busy
<1> QED BY <1>2, <1>3, <1>4 DEF IInv

\* Changing an account leaves the accounts what and as many as they are.
LEMMA SetAccountKeeps ==
  ASSUME azure \in [Tenant -> Seq(AccountRecord)],
         NEW t \in Tenant, NEW i \in 1 .. Len(azure[t]), NEW a \in AccountRecord,
         azure' = [azure EXCEPT ![t][i] = a]
  PROVE  /\ azure' \in [Tenant -> Seq(AccountRecord)]
         /\ \A s \in Tenant : Len(azure'[s]) = Len(azure[s])
<1>1. azure' = [azure EXCEPT ![t] = [azure[t] EXCEPT ![i] = a]]
  OBVIOUS
<1>2. /\ [azure[t] EXCEPT ![i] = a] \in Seq(AccountRecord)
      /\ Len([azure[t] EXCEPT ![i] = a]) = Len(azure[t])
  OBVIOUS
<1> QED BY <1>1, <1>2

-----------------------------------------------------------------------------
(* Three kinds of steps: an administrator's change, the end of a call, and *)
(* what a call does without touching LDAP.                                 *)

LEMMA PutKeeps ==
  ASSUME IInv, NEW u \in User, NEW p \in Person,
         p.life # "none", p.mail \in Mail, IdsOf(p.data), Put(u, p)
  PROVE  IInv'
<1> USE DEF IInv
<1>1. /\ ldap' = [ldap EXCEPT ![u] = p]
      /\ queue' = queue \/ queue' = Append(queue, u)
      /\ raced' = (raced \/ u \in Range(queue))
      /\ changes' = changes + 1 /\ changes < MaxChanges
      /\ UNCHANGED <<seen, azure, job, past, crashes, lapsed, failed>>
  BY DEF Put, Notify
<1>2. TypeOK'
  <2>1. ldap' \in [User -> Person] /\ seen' \in [User -> Person] /\ queue' \in Seq(User)
    BY <1>1 DEF TypeOK
  <2>2. raced' \in BOOLEAN
    BY <1>1 DEF TypeOK
  <2>3. changes' \in 0 .. MaxChanges
    BY <1>1, BoundsAssumption DEF TypeOK
  <2> QED BY <1>1, <2>1, <2>2, <2>3 DEF TypeOK
<1>3. Entries'
  BY <1>1 DEF TypeOK, Entries, IdsOf
<1>4. Queued'
  <2> SUFFICES ASSUME NEW k \in 1 .. Len(queue')
               PROVE  ldap'[queue'[k]].life # "none"
    BY DEF Queued
  <2>1. queue \in Seq(User) /\ ldap \in [User -> Person]
    BY DEF TypeOK
  <2>2. queue'[k] = u \/ (k \in 1 .. Len(queue) /\ queue'[k] = queue[k])
    BY <1>1, <2>1
  <2> QED BY <1>1, <2>1, <2>2 DEF Queued
<1>5. Handling'
  <2>1. queue # <<>> => queue' # <<>>
    BY <1>1 DEF TypeOK
  <2> QED BY <1>1, <2>1 DEF Handling, busy, IdsOf
<1> QED BY <1>2, <1>3, <1>4, <1>5

\* A call of the listener module is a record of all its parts.
LEMMA BusyJob == IInv /\ busy => job \in Job
BY DEF IInv, TypeOK, busy

LEMMA ReturnKeeps ==
  ASSUME IInv, busy, Return, failed' \in BOOLEAN
  PROVE  IInv'
<1> USE DEF IInv
<1>1. /\ seen' = [seen EXCEPT ![job.user] = job.new]
      /\ queue' = Tail(queue)
      /\ job' = Idle
      /\ UNCHANGED <<ldap, azure, past, changes, crashes, lapsed, raced>>
  BY DEF Return
<1>2. job.user \in User /\ job.new \in Person
  BY BusyJob DEF Job
<1>3. queue \in Seq(User) /\ queue # <<>>
  BY DEF TypeOK, Handling
<1>4. TypeOK'
  BY <1>1, <1>2, <1>3 DEF TypeOK
<1>5. Entries'
  BY <1>1, <1>2 DEF TypeOK, Entries, IdsOf, Handling
<1>6. Queued'
  BY <1>1, <1>3 DEF Queued
<1>7. Handling'
  BY <1>1 DEF Handling, busy
<1> QED BY <1>4, <1>5, <1>6, <1>7

LEMMA CallKeeps ==
  ASSUME IInv, busy, UNCHANGED directory,
         UNCHANGED <<changes, crashes, lapsed, raced>>, failed' \in BOOLEAN,
         azure' \in [Tenant -> Seq(AccountRecord)],
         \A s \in Tenant : Len(azure'[s]) >= Len(azure[s]),
         job' \in Job,
         job'.old = job.old, job'.new = job.new, job'.data = job.data,
         job'.pc \in {"disable", "edit"} => job'.id \in 0 .. Len(azure'[job'.at]),
         job'.pc \in AtAccount => job'.id \in 1 .. Len(azure'[job'.at])
  PROVE  IInv'
<1> USE DEF IInv
<1>1. \A s \in Tenant : 0 .. Len(azure[s]) \subseteq 0 .. Len(azure'[s])
  BY DEF TypeOK
<1>2. TypeOK'
  BY DEF TypeOK, directory
<1>3. Entries'
  BY <1>1 DEF Entries, IdsOf, directory
<1>4. Queued'
  BY DEF Queued, directory
<1>5. Handling'
  BY <1>1 DEF Handling, IdsOf, directory
<1> QED BY <1>2, <1>3, <1>4, <1>5

-----------------------------------------------------------------------------
(* Administrators, time, and the beginning of a call.                      *)

LEMMA AdminKeeps == IInv /\ (Admin \/ DayPasses) => IInv'
<1> SUFFICES ASSUME IInv, Admin \/ DayPasses PROVE IInv'
  OBVIOUS
<1> USE DEF IInv
<1>1. \A u \in User :
        /\ ldap[u] \in Person /\ IdsOf(ldap[u].data)
        /\ ldap[u].life # "none" => ldap[u].mail \in Mail
  BY DEF TypeOK, Entries
<1>2. ASSUME NEW u \in User, Add(u) PROVE IInv'
  <2>1. PICK m \in Mail, A \in SUBSET Tenant :
          Put(u, [Nobody EXCEPT !.life = "here", !.enabled = TRUE, !.mail = m, !.aliases = A])
    BY <1>2 DEF Add, Free
  <2> DEFINE p == [Nobody EXCEPT !.life = "here", !.enabled = TRUE, !.mail = m, !.aliases = A]
  <2>2. p \in Person /\ p.life # "none" /\ p.mail \in Mail
    BY DEF Nobody, Person, NoEntry
  <2>3. IdsOf(p.data)
    BY DEF IdsOf, TypeOK, Nobody, NoEntry
  <2> QED BY <2>1, <2>2, <2>3, PutKeeps
<1>3. ASSUME NEW u \in User, Switch(u) PROVE IInv'
  <2> DEFINE p == [ldap[u] EXCEPT !.enabled = ~@]
  <2>1. p \in Person /\ p.life = ldap[u].life /\ p.mail = ldap[u].mail /\ p.data = ldap[u].data
    BY <1>1 DEF Person
  <2> QED BY <1>1, <1>3, <2>1, PutKeeps DEF Switch
<1>4. ASSUME NEW u \in User, Rename(u) PROVE IInv'
  <2>1. PICK m \in Mail : Put(u, [ldap[u] EXCEPT !.mail = m])
    BY <1>4 DEF Rename, Free
  <2> DEFINE p == [ldap[u] EXCEPT !.mail = m]
  <2>2. p \in Person /\ p.life = ldap[u].life /\ p.mail = m /\ p.data = ldap[u].data
    BY <1>1 DEF Person
  <2> QED BY <1>1, <1>4, <2>1, <2>2, PutKeeps DEF Rename
<1>5. ASSUME NEW u \in User, Connect(u) PROVE IInv'
  <2>1. PICK A \in SUBSET Tenant : Put(u, [ldap[u] EXCEPT !.aliases = A])
    BY <1>5 DEF Connect
  <2> DEFINE p == [ldap[u] EXCEPT !.aliases = A]
  <2>2. p \in Person /\ p.life = ldap[u].life /\ p.mail = ldap[u].mail /\ p.data = ldap[u].data
    BY <1>1 DEF Person
  <2> QED BY <1>1, <1>5, <2>1, <2>2, PutKeeps DEF Connect
<1>6. ASSUME NEW u \in User, SetExpiry(u) PROVE IInv'
  <2> DEFINE p == [ldap[u] EXCEPT !.expires = ~@]
  <2>1. p \in Person /\ p.life = ldap[u].life /\ p.mail = ldap[u].mail /\ p.data = ldap[u].data
    BY <1>1 DEF Person
  <2> QED BY <1>1, <1>6, <2>1, PutKeeps DEF SetExpiry
<1>7. ASSUME NEW u \in User, Delete(u) PROVE IInv'
  <2> DEFINE p == [ldap[u] EXCEPT !.life = "gone"]
  <2>1. p \in Person /\ p.life = "gone" /\ p.mail = ldap[u].mail /\ p.data = ldap[u].data
    BY <1>1 DEF Person
  <2> QED BY <1>1, <1>7, <2>1, PutKeeps DEF Delete
<1>8. CASE DayPasses
  <2>1. lapsed' \subseteq User /\ past' \in BOOLEAN
    BY <1>8 DEF DayPasses
  <2>2. UNCHANGED <<ldap, seen, queue, azure, job, changes, crashes, failed, raced>>
    BY <1>8 DEF DayPasses
  <2> QED BY <2>1, <2>2 DEF TypeOK, Entries, Queued, Handling, IdsOf, busy
<1> QED BY <1>2, <1>3, <1>4, <1>5, <1>6, <1>7, <1>8 DEF Admin

LEMMA WorkType ==
  ASSUME NEW o \in Person, NEW n \in Person
  PROVE  Work(o, n) \subseteq Op \X Tenant
<1>1. o.aliases \subseteq Tenant /\ n.aliases \subseteq Tenant
  BY DEF Person
<1>2. \A op \in Op, A \in SUBSET Tenant : Tasks(op, A) \subseteq Op \X Tenant
  BY DEF Tasks
<1>3. Targets(n) \subseteq Tenant
  BY <1>1 DEF Targets
<1>4. /\ Tasks("new", n.aliases \ o.aliases) \subseteq Op \X Tenant
      /\ Tasks("out", o.aliases \ n.aliases) \subseteq Op \X Tenant
      /\ Tasks("edit", o.aliases \cap n.aliases) \subseteq Op \X Tenant
      /\ Tasks("new", Targets(n)) \subseteq Op \X Tenant
      /\ Tasks("off", o.aliases) \subseteq Op \X Tenant
      /\ Tasks("del", o.aliases) \subseteq Op \X Tenant
  BY <1>1, <1>2, <1>3 DEF Op
<1> QED BY <1>4 DEF Work

LEMMA StartKeeps == IInv /\ Start => IInv'
<1> SUFFICES ASSUME IInv, Start PROVE IInv'
  OBVIOUS
<1> USE DEF IInv
<1> DEFINE u == queue[1]
<1>1. u \in User /\ ldap[u] \in Person /\ seen[u] \in Person /\ ldap[u].mail \in Mail
  <2>1. queue \in Seq(User) /\ queue # <<>>
    BY DEF Start, TypeOK
  <2>2. u \in User /\ 1 \in 1 .. Len(queue)
    BY <2>1
  <2> QED BY <2>2 DEF TypeOK, Entries, Queued
<1>2. /\ job' = [pc |-> "pick", user |-> u, old |-> seen[u], new |-> ldap[u],
                 todo |-> Work(seen[u], ldap[u]), data |-> ldap[u].data,
                 op |-> "new", at |-> CHOOSE t \in Tenant : TRUE, id |-> 0]
      /\ queue # <<>>
      /\ UNCHANGED <<ldap, seen, queue, past, azure, changes, crashes, lapsed, failed, raced>>
  BY DEF Start, directory, history
<1>3. (CHOOSE t \in Tenant : TRUE) \in Tenant
  BY TenantAssumption
<1>4. ldap[u].data \in [Tenant -> [id : Nat, upn : Mail \cup {NoName}]]
  BY <1>1 DEF Person
<1>5. job' \in Job
  <2>1. Work(seen[u], ldap[u]) \in SUBSET (Op \X Tenant)
    BY <1>1, WorkType
  <2> HIDE DEF u
  <2> QED BY <1>1, <1>2, <1>3, <1>4, <2>1 DEF Job, PC, Op
<1>6. TypeOK'
  BY <1>2, <1>5 DEF TypeOK
<1>7. Entries' /\ Queued'
  BY <1>2 DEF Entries, Queued, IdsOf
<1>8. Handling'
  BY <1>1, <1>2 DEF Handling, Entries, IdsOf, AtAccount
<1> QED BY <1>6, <1>7, <1>8

-----------------------------------------------------------------------------
(* The steps of a call.                                                    *)

\* What a step may use of the call it belongs to.
LEMMA JobParts ==
  ASSUME IInv, busy
  PROVE  /\ job \in Job
         /\ job.user \in User /\ job.at \in Tenant /\ job.id \in Nat /\ job.pc \in PC
         /\ job.old \in Person /\ job.new \in Person /\ job.new.mail \in Mail
         /\ job.todo \subseteq Op \X Tenant
         /\ azure \in [Tenant -> Seq(AccountRecord)]
         /\ DOMAIN azure[job.at] = 1 .. Len(azure[job.at])
<1>1. job \in Job /\ job.new.mail \in Mail
  BY BusyJob DEF IInv, Handling
<1>2. azure \in [Tenant -> Seq(AccountRecord)]
  BY DEF IInv, TypeOK
<1> QED BY <1>1, <1>2 DEF Job

\* A step that goes on to x, having changed the account i at most.
LEMMA GoesOn ==
  ASSUME IInv, busy, UNCHANGED directory,
         UNCHANGED <<changes, crashes, lapsed, raced>>, failed' \in BOOLEAN,
         NEW i \in 1 .. Len(azure[job.at]),
         NEW x \in PC \ {"disable", "edit"},
         UNCHANGED azure \/ (\E a \in AccountRecord : SetAccount(i, a)),
         job' = [job EXCEPT !.pc = x, !.id = i]
  PROVE  IInv'
<1>1. /\ azure' \in [Tenant -> Seq(AccountRecord)]
      /\ \A s \in Tenant : Len(azure'[s]) = Len(azure[s])
  <2>1. CASE UNCHANGED azure
    BY <2>1, JobParts
  <2>2. ASSUME NEW a \in AccountRecord, SetAccount(i, a)
        PROVE  /\ azure' \in [Tenant -> Seq(AccountRecord)]
               /\ \A s \in Tenant : Len(azure'[s]) = Len(azure[s])
    <3>1. azure' = [azure EXCEPT ![job.at][i] = a]
      BY <2>2 DEF SetAccount
    <3> QED BY <3>1, JobParts, SetAccountKeeps
  <2> QED BY <2>1, <2>2
<1>2. \A s \in Tenant : Len(azure'[s]) >= Len(azure[s])
  BY <1>1, JobParts
<1>3. i \in Nat /\ x \in PC
  BY JobParts
<1>4. /\ job' \in Job
      /\ job'.pc = x /\ job'.id = i /\ job'.at = job.at
      /\ job'.old = job.old /\ job'.new = job.new /\ job'.data = job.data
  BY <1>3, JobParts DEF Job
<1>5. job'.id \in 1 .. Len(azure'[job'.at])
  BY <1>1, <1>4, JobParts
<1> QED BY <1>1, <1>2, <1>4, <1>5, CallKeeps

\* A step that does not touch the account it has in hand.
LEMMA GoesTo ==
  ASSUME IInv, busy, UNCHANGED <<directory, azure, history>>,
         NEW x \in {"pick", "post"}, NEW y \in Op,
         job' = [job EXCEPT !.pc = x, !.op = y] \/ job' = [job EXCEPT !.pc = x]
  PROVE  IInv'
<1>1. /\ job' \in Job
      /\ job'.pc = x
      /\ job'.old = job.old /\ job'.new = job.new /\ job'.data = job.data
  BY JobParts DEF Job, PC
<1>2. \A s \in Tenant : Len(azure'[s]) >= Len(azure[s])
  BY JobParts DEF history
<1>3. failed' \in BOOLEAN
  BY DEF IInv, TypeOK, history
<1> QED BY <1>1, <1>2, <1>3, CallKeeps, JobParts DEF AtAccount, history

LEMMA AccountParts ==
  ASSUME IInv, busy, NEW i \in 1 .. Len(azure[job.at])
  PROVE  /\ Account(i) \in AccountRecord
         /\ Account(i).owner \in User /\ Account(i).upn \in Mail \cup {Renamed}
<1>1. azure[job.at] \in Seq(AccountRecord)
  BY JobParts
<1>2. Account(i) \in AccountRecord
  BY <1>1 DEF Account
<1> QED BY <1>2 DEF AccountRecord

LEMMA PickKeeps == IInv /\ busy /\ Pick => IInv'
<1> SUFFICES ASSUME IInv, busy, Pick PROVE IInv'
  OBVIOUS
<1>1. PICK w \in job.todo :
        job' = [job EXCEPT !.pc = FirstStep(w[1]), !.todo = @ \ {w}, !.op = w[1], !.at = w[2],
                           !.id = IF w[1] = "new" THEN 0 ELSE job.old.data[w[2]].id]
  BY DEF Pick
<1>2. w[1] \in Op /\ w[2] \in Tenant /\ job.todo \ {w} \subseteq Op \X Tenant
  BY JobParts
<1>3. FirstStep(w[1]) \in {"post", "edit", "disable"}
  BY DEF FirstStep
<1>4. job.old.data[w[2]].id \in 0 .. Len(azure[w[2]]) /\ Len(azure[w[2]]) \in Nat
  BY <1>2, JobParts DEF IInv, Handling, IdsOf
<1> DEFINE i == IF w[1] = "new" THEN 0 ELSE job.old.data[w[2]].id
           x == FirstStep(w[1])
           rest == job.todo \ {w}
<1>5. i \in Nat /\ x \in PC /\ i \in {0, job.old.data[w[2]].id}
  BY <1>3, <1>4 DEF PC
<1>6. job' = [job EXCEPT !.pc = x, !.todo = rest, !.op = w[1], !.at = w[2], !.id = i]
  BY <1>1
<1> HIDE DEF i, x, rest
<1>7. /\ job' \in Job
      /\ job'.pc = x /\ job'.at = w[2]
      /\ job'.id = i
      /\ job'.old = job.old /\ job'.new = job.new /\ job'.data = job.data
  <2>1. rest \subseteq Op \X Tenant
    BY <1>2 DEF rest
  <2> QED BY <1>2, <1>5, <1>6, <2>1, JobParts DEF Job
<1>8. UNCHANGED <<directory, azure, changes, crashes, lapsed, failed, raced>>
  BY DEF Pick, history
<1>9. failed' \in BOOLEAN /\ \A s \in Tenant : Len(azure'[s]) >= Len(azure[s])
  BY <1>8, JobParts DEF IInv, TypeOK
<1>10. job'.id \in 0 .. Len(azure'[job'.at]) /\ job'.pc \notin AtAccount
  BY <1>3, <1>4, <1>7, <1>8, <1>5 DEF AtAccount, x
<1> QED BY <1>7, <1>8, <1>9, <1>10, CallKeeps, JobParts

LEMMA ReactivateKeeps == IInv /\ busy /\ Reactivate => IInv'
<1> SUFFICES ASSUME IInv, busy, Reactivate PROVE IInv'
  OBVIOUS
<1>0. failed \in BOOLEAN
  BY DEF IInv, TypeOK
<1>1. CASE CreateAccount
  <2> DEFINE a == [owner |-> job.user, upn |-> job.new.mail, enabled |-> TRUE,
                   member |-> FALSE, licensed |-> FALSE]
  <2>1. a \in AccountRecord
    BY JobParts DEF AccountRecord
  <2>2. azure' = [azure EXCEPT ![job.at] = Append(@, a)]
    BY <1>1 DEF CreateAccount
  <2> HIDE DEF a
  <2>3. /\ azure' \in [Tenant -> Seq(AccountRecord)]
        /\ \A s \in Tenant : Len(azure'[s]) >= Len(azure[s])
        /\ Len(azure'[job.at]) = Len(azure[job.at]) + 1
    BY <2>1, <2>2, JobParts
  <2>4. job' = [job EXCEPT !.pc = "licence", !.id = Len(azure[job.at]) + 1]
    BY <1>1 DEF CreateAccount
  <2>5. Len(azure[job.at]) + 1 \in Nat
    BY JobParts
  <2>6. /\ job' \in Job
        /\ job'.pc = "licence" /\ job'.id = Len(azure[job.at]) + 1 /\ job'.at = job.at
        /\ job'.old = job.old /\ job'.new = job.new /\ job'.data = job.data
    BY <2>4, <2>5, JobParts DEF Job, PC
  <2>7. job'.id \in 1 .. Len(azure'[job'.at])
    BY <2>3, <2>6, JobParts
  <2> QED BY <1>0, <1>1, <2>3, <2>6, <2>7, CallKeeps DEF CreateAccount, history
<1>2. CASE TakeAccount
  <2>1. PICK i \in 1 .. Len(azure[job.at]) :
          /\ SetAccount(i, [Account(i) EXCEPT !.owner = job.user, !.upn = job.new.mail,
                                              !.enabled = TRUE])
          /\ job' = [job EXCEPT !.pc = "licence", !.id = i]
    BY <1>2, JobParts DEF TakeAccount
  <2>2. [Account(i) EXCEPT !.owner = job.user, !.upn = job.new.mail, !.enabled = TRUE]
          \in AccountRecord
    BY JobParts, AccountParts DEF AccountRecord
  <2> QED BY <1>0, <1>2, <2>1, <2>2, GoesOn DEF TakeAccount, history, PC
<1>3. CASE RefuseAccount
  BY <1>0, <1>3, ReturnKeeps DEF RefuseAccount, Raise
<1>4. CASE AssignLicence
  <2>1. job.id \in 1 .. Len(azure[job.at])
    BY <1>4 DEF AssignLicence, IInv, Handling, AtAccount
  <2>2. [Account(job.id) EXCEPT !.licensed = @ \/ job.at \in Seats] \in AccountRecord
    BY <2>1, AccountParts DEF AccountRecord
  <2>3. job' = [job EXCEPT !.pc = "write", !.id = job.id]
    BY <1>4, JobParts DEF AssignLicence, Goto, Job
  <2> QED BY <1>0, <1>4, <2>1, <2>2, <2>3, GoesOn DEF AssignLicence, history, PC
<1>5. CASE Join
  <2>1. job.id \in 1 .. Len(azure[job.at])
    BY <1>5 DEF Join, IInv, Handling, AtAccount
  <2>2. [Account(job.id) EXCEPT !.member = TRUE] \in AccountRecord
    BY <2>1, AccountParts DEF AccountRecord
  <2>3. job' = [job EXCEPT !.pc = "pick", !.id = job.id]
    BY <1>5, JobParts DEF Join, Goto, Job
  <2> QED BY <1>0, <1>5, <2>1, <2>2, <2>3, GoesOn DEF Join, PC
<1> QED BY <1>1, <1>2, <1>3, <1>4, <1>5 DEF Reactivate

LEMMA DeactivateKeeps == IInv /\ busy /\ Deactivate => IInv'
<1> SUFFICES ASSUME IInv, busy, Deactivate PROVE IInv'
  OBVIOUS
<1>0. failed \in BOOLEAN
  BY DEF IInv, TypeOK
<1>1. CASE Disable
  <2>1. job.id \in 1 .. Len(azure[job.at])
    BY <1>1, JobParts DEF Disable, IInv, Handling
  <2> DEFINE name == IF job.op = "off" THEN Account(job.id).upn ELSE Renamed
  <2>2. name \in Mail \cup {Renamed}
    BY <2>1, AccountParts
  <2>3. SetAccount(job.id, [Account(job.id) EXCEPT !.enabled = FALSE, !.upn = name])
    BY <1>1, <2>1, AccountParts DEF Disable, AccountRecord
  <2> HIDE DEF name
  <2>4. [Account(job.id) EXCEPT !.enabled = FALSE, !.upn = name] \in AccountRecord
    BY <2>1, <2>2, AccountParts DEF AccountRecord
  <2>5. job' = [job EXCEPT !.pc = "leave", !.id = job.id]
    BY <1>1, JobParts DEF Disable, Goto, Job
  <2> QED BY <1>0, <1>1, <2>1, <2>3, <2>4, <2>5, GoesOn DEF Disable, history, PC
<1>2. CASE DisableUnknown
  BY <1>0, <1>2, ReturnKeeps DEF DisableUnknown, Raise
<1>3. CASE Leave
  <2>1. job.id \in 1 .. Len(azure[job.at])
    BY <1>3 DEF Leave, IInv, Handling, AtAccount
  <2>2. [Account(job.id) EXCEPT !.member = FALSE] \in AccountRecord
    BY <2>1, AccountParts DEF AccountRecord
  <2>3. job' = [job EXCEPT !.pc = "unlicense", !.id = job.id]
    BY <1>3, JobParts DEF Leave, Goto, Job
  <2> QED BY <1>0, <1>3, <2>1, <2>2, <2>3, GoesOn DEF Leave, PC
<1>4. CASE RemoveLicences
  <2>1. job.id \in 1 .. Len(azure[job.at])
    BY <1>4 DEF RemoveLicences, IInv, Handling, AtAccount
  <2>2. [Account(job.id) EXCEPT !.licensed = FALSE] \in AccountRecord
    BY <2>1, AccountParts DEF AccountRecord
  <2>3. PICK x \in {"pick", "write"} : job' = [job EXCEPT !.pc = x, !.id = job.id]
    BY <1>4, JobParts DEF RemoveLicences, Goto, Job
  <2> QED BY <1>0, <1>4, <2>1, <2>2, <2>3, GoesOn DEF RemoveLicences, history, PC
<1> QED BY <1>1, <1>2, <1>3, <1>4 DEF Deactivate

LEMMA EditKeeps == IInv /\ busy /\ Edit => IInv'
<1> SUFFICES ASSUME IInv, busy, Edit PROVE IInv'
  OBVIOUS
<1>0. failed \in BOOLEAN
  BY DEF IInv, TypeOK
<1>1. CASE Same
  BY <1>1, GoesTo DEF Same, Goto, Op
<1>2. CASE Update
  <2>1. PICK i \in Known : SetAccount(i, [Account(i) EXCEPT !.upn = job.new.mail])
    BY <1>2 DEF Update
  <2>2. i \in 1 .. Len(azure[job.at])
    <3>1. job.id \in 0 .. Len(azure[job.at])
      BY <1>2 DEF Update, IInv, Handling
    <3>2. Owned(job.user) \subseteq 1 .. Len(azure[job.at])
      BY JobParts DEF Owned
    <3> QED BY <3>1, <3>2, JobParts DEF Known
  <2>3. [Account(i) EXCEPT !.upn = job.new.mail] \in AccountRecord
    BY <2>2, AccountParts, JobParts DEF AccountRecord
  <2>4. /\ azure' \in [Tenant -> Seq(AccountRecord)]
        /\ \A s \in Tenant : Len(azure'[s]) = Len(azure[s])
    <3>1. azure' = [azure EXCEPT ![job.at][i] = [Account(i) EXCEPT !.upn = job.new.mail]]
      BY <2>1 DEF SetAccount
    <3> QED BY <2>2, <2>3, <3>1, JobParts, SetAccountKeeps
  <2>5. \A s \in Tenant : Len(azure'[s]) >= Len(azure[s])
    BY <2>4, JobParts
  <2>6. /\ job' \in Job /\ job'.pc = "pick"
        /\ job'.old = job.old /\ job'.new = job.new /\ job'.data = job.data
    BY <1>2, JobParts DEF Update, Goto, Job, PC
  <2> QED BY <1>0, <1>2, <2>4, <2>5, <2>6, CallKeeps DEF Update, history, AtAccount
<1>3. CASE RefuseUpdate
  BY <1>0, <1>3, ReturnKeeps DEF RefuseUpdate, Raise
<1>4. CASE Unknown
  BY <1>4, GoesTo DEF Unknown, Op
<1> QED BY <1>1, <1>2, <1>3, <1>4 DEF Edit

\* The entry that is written holds the id of the account in hand.
LEMMA EntryType ==
  ASSUME IInv, busy, job.pc = "write"
  PROVE  /\ job.id \in 1 .. Len(azure[job.at])
         /\ NewData \in [Tenant -> [id : Nat, upn : Mail \cup {NoName}]]
         /\ IdsOf(NewData)
<1>1. job.id \in 1 .. Len(azure[job.at])
  BY DEF IInv, Handling, AtAccount
<1>2. Entry \in [id : Nat, upn : Mail \cup {NoName}] /\ Entry.id = job.id
  BY JobParts DEF Entry
<1>3. job.data \in [Tenant -> [id : Nat, upn : Mail \cup {NoName}]] /\ IdsOf(job.data)
  BY JobParts DEF Job, IInv, Handling
<1>4. NewData = [job.data EXCEPT ![job.at] = Entry]
  BY DEF NewData
<1>5. NewData \in [Tenant -> [id : Nat, upn : Mail \cup {NoName}]]
  BY <1>2, <1>3, <1>4
<1>6. IdsOf(NewData)
  <2> SUFFICES ASSUME NEW t \in Tenant PROVE NewData[t].id \in 0 .. Len(azure[t])
    BY DEF IdsOf
  <2>1. CASE t = job.at
    BY <1>1, <1>2, <1>3, <1>4, <2>1, JobParts
  <2>2. CASE t # job.at
    BY <1>3, <1>4, <2>2 DEF IdsOf
  <2> QED BY <2>1, <2>2
<1> QED BY <1>1, <1>5, <1>6

LEMMA WriteKeeps == IInv /\ busy /\ (Write \/ WriteGone) => IInv'
<1> SUFFICES ASSUME IInv, busy, Write \/ WriteGone PROVE IInv'
  OBVIOUS
<1>0. failed \in BOOLEAN /\ queue \in Seq(User) /\ ldap \in [User -> Person]
  BY DEF IInv, TypeOK
<1>1. CASE WriteGone
  BY <1>0, <1>1, ReturnKeeps DEF WriteGone, Raise
<1>2. CASE Write
  <2> DEFINE x == IF job.op = "new" THEN "join" ELSE "pick"
             A == IF job.op = "new" /\ job.at \notin job.new.aliases
                  THEN ldap[job.user].aliases \cup {job.at} ELSE ldap[job.user].aliases
             p == [ldap[job.user] EXCEPT !.data = NewData, !.aliases = A]
  <2>1. /\ ldap[job.user] \in Person /\ A \in SUBSET Tenant
        /\ job.id \in 1 .. Len(azure[job.at])
        /\ NewData \in [Tenant -> [id : Nat, upn : Mail \cup {NoName}]] /\ IdsOf(NewData)
    BY <1>0, <1>2, JobParts, EntryType DEF Write, Person
  <2>2. /\ p \in Person /\ p.data = NewData
        /\ p.life = ldap[job.user].life /\ p.mail = ldap[job.user].mail
    BY <2>1 DEF Person
  <2>3. job' = [job EXCEPT !.data = NewData, !.pc = x] /\ x \in {"join", "pick"}
    BY <1>2 DEF Write
  <2>4. \/ UNCHANGED <<ldap, queue>>
        \/ /\ ldap' = [ldap EXCEPT ![job.user] = p]
           /\ queue' = queue \/ queue' = Append(queue, job.user)
           /\ ldap[job.user].life # "none"
    <3>1. CASE NewData = job.data
      BY <1>2, <3>1 DEF Write
    <3>2. CASE NewData # job.data
      <4>1. /\ ldap[job.user].life = "here"
            /\ queue' = Notify(job.user)
            /\ ldap' = [ldap EXCEPT ![job.user].data = NewData,
                          ![job.user].aliases =
                             IF job.op = "new" /\ job.at \notin job.new.aliases
                             THEN @ \cup {job.at} ELSE @]
        BY <1>2, <3>2 DEF Write
      <4>2. ldap' = [ldap EXCEPT ![job.user] = p]
        BY <1>0, <2>1, <4>1, JobParts DEF Person
      <4> QED BY <4>1, <4>2 DEF Notify
    <3> QED BY <3>1, <3>2
  <2>5. UNCHANGED <<seen, azure, past, changes, crashes, lapsed, failed, raced>>
    BY <1>2 DEF Write, history
  <2> HIDE DEF x, A, p
  <2>6. /\ job' \in Job /\ job'.pc = x /\ job'.id = job.id /\ job'.at = job.at
        /\ job'.old = job.old /\ job'.new = job.new /\ job'.data = NewData
    BY <2>1, <2>3, JobParts DEF Job, PC
  <2>7. TypeOK'
    <3>1. ldap' \in [User -> Person]
      BY <1>0, <2>2, <2>4, JobParts
    <3>2. queue' \in Seq(User)
      BY <1>0, <2>4, JobParts
    <3> QED BY <2>5, <2>6, <3>1, <3>2 DEF IInv, TypeOK
  <2>8. Entries'
    BY <1>0, <2>1, <2>2, <2>4, <2>5 DEF IInv, Entries, IdsOf
  <2>9. Queued'
    <3>1. CASE UNCHANGED <<ldap, queue>>
      BY <3>1 DEF IInv, Queued
    <3>2. CASE ~UNCHANGED <<ldap, queue>>
      <4> SUFFICES ASSUME NEW k \in 1 .. Len(queue') PROVE ldap'[queue'[k]].life # "none"
        BY DEF Queued
      <4>1. queue'[k] = job.user \/ (k \in 1 .. Len(queue) /\ queue'[k] = queue[k])
        BY <1>0, <2>4, <3>2
      <4> QED BY <1>0, <2>2, <2>4, <3>2, <4>1, JobParts DEF IInv, Queued
    <3> QED BY <3>1, <3>2
  <2>10. Handling'
    <3>1. queue' # <<>>
      BY <1>0, <2>4 DEF IInv, Handling
    <3> QED BY <2>1, <2>3, <2>5, <2>6, <3>1 DEF IInv, Handling, IdsOf, AtAccount
  <2> QED BY <2>7, <2>8, <2>9, <2>10 DEF IInv
<1> QED BY <1>1, <1>2

LEMMA EndKeeps == IInv /\ ((busy /\ Finish) \/ Fails \/ Crash) => IInv'
<1> SUFFICES ASSUME IInv, (busy /\ Finish) \/ Fails \/ Crash PROVE IInv'
  OBVIOUS
<1>0. failed \in BOOLEAN
  BY DEF IInv, TypeOK
<1>1. CASE busy /\ Finish
  BY <1>0, <1>1, ReturnKeeps DEF Finish
<1>2. CASE Fails
  BY <1>0, <1>2, ReturnKeeps DEF Fails, Raise
<1>3. CASE Crash
  <2>1. /\ UNCHANGED <<ldap, seen, queue, past, azure, changes, lapsed, failed, raced>>
        /\ crashes < MaxCrashes /\ crashes' = crashes + 1 /\ job' = Idle
    BY <1>3 DEF Crash, directory
  <2>2. crashes' \in 0 .. MaxCrashes
    BY <2>1, BoundsAssumption DEF IInv, TypeOK
  <2> QED BY <2>1, <2>2 DEF IInv, TypeOK, Entries, Queued, Handling, IdsOf, busy
<1> QED BY <1>1, <1>2, <1>3

LEMMA NextIInv == IInv /\ [Next]_vars => IInv'
<1> SUFFICES ASSUME IInv, [Next]_vars PROVE IInv'
  OBVIOUS
<1>1. CASE Next
  BY <1>1, AdminKeeps, StartKeeps, PickKeeps, ReactivateKeeps, DeactivateKeeps, EditKeeps,
     WriteKeeps, EndKeeps DEF Next, Listener
<1>2. CASE UNCHANGED vars
  BY <1>2 DEF vars, IInv, TypeOK, Entries, Queued, Handling, IdsOf, busy
<1> QED BY <1>1, <1>2

LEMMA Invariance == Spec => []IInv
BY InitIInv, NextIInv, PTL DEF Spec

\* Entries, accounts and the running call keep their types for any users,
\* addresses and connections: in particular create_or_modify and update
\* never give an account a name that is no mail address.
THEOREM TypeCorrect == Spec => []TypeOK
<1>1. IInv => TypeOK
  BY DEF IInv
<1> QED BY <1>1, Invariance, PTL

\* No id of an entry, in LDAP or in the listener's cache, is ever that of an
\* account the tenant does not have, although ids are written long after the
\* account was made and are read from entries of any age.
THEOREM IdsAreAccounts == Spec => []Entries
<1>1. IInv => Entries
  BY DEF IInv
<1> QED BY <1>1, Invariance, PTL

-----------------------------------------------------------------------------
(* What a user's pending change can be, as long as nobody is changed too   *)
(* early: an administrator's single change, or the module's own writes.    *)

\* A user for whom nothing waits is known to the listener as it is.
Settled == \A u \in User : u \notin Range(queue) => seen[u] = ldap[u]

\* A user who was never created has no ids.
NoIdYet == \A u \in User : ldap[u].life = "none" => ldap[u].data = Nobody.data

\* p became q by the module's own writes, if by anything.
OwnWrites(p, q) ==
  /\ q.life = p.life /\ q.enabled = p.enabled /\ q.expires = p.expires
  /\ p.aliases \subseteq q.aliases

\* The id of an account the cached entry has in use differs from the one in
\* LDAP only if nobody but the module has changed the user since.
CacheIds ==
  ~raced => \A u \in User, t \in Tenant :
    /\ ShouldSync(seen[u]) /\ t \in seen[u].aliases
    /\ seen[u].data[t].id # 0 /\ ldap[u].data[t].id # seen[u].data[t].id
    => OwnWrites(seen[u], ldap[u])

Off == {"out", "off"}
OffPC == {"disable", "leave", "unlicense"}
NewPC == {"post", "licence", "join"}

\* The call that is running handles the first change of the queue, and
\* knows what is in LDAP, because it wrote it.
Current ==
  busy =>
    /\ queue[1] = job.user
    /\ job.old = seen[job.user]
    /\ job.data = ldap[job.user].data
    /\ job.user \notin Range(Tail(queue)) => ldap[job.user] = job.new
    /\ ~raced => OwnWrites(job.new, ldap[job.user])

\* Which steps belong to which operation, each connection having one.
Operation ==
  busy =>
    /\ \A v, w \in job.todo : v[2] = w[2] => v = w
    /\ job.pc # "pick" => \A w \in job.todo : w[2] # job.at
    /\ job.pc \in NewPC => job.op = "new"
    /\ job.pc \in OffPC => job.op \in Off \cup {"del"}
    /\ job.pc = "write" => job.op \in Off \cup {"new"}
    /\ job.pc = "edit" => job.op = "edit" /\ job.id = job.old.data[job.at].id

\* The old entry has no account in use where a new one is looked for.
NotInUse(t) ==
  ~ShouldSync(job.old) \/ t \notin job.old.aliases \/ job.old.data[t].id = 0

Arrival ==
  busy =>
    /\ \A w \in job.todo : w[1] = "new" => NotInUse(w[2])
    /\ job.op = "new" /\ job.pc # "pick" => NotInUse(job.at)

\* The account a user arrived at is the only one of the user.
OnlyOne ==
  busy /\ job.op = "new" /\ job.pc \in {"licence", "write"} => Owned(job.user) \subseteq {job.id}

\* An account that is given up is the one LDAP has the id of.
Departure ==
  busy /\ ~raced =>
    /\ \A w \in job.todo : w[1] \in Off /\ job.old.data[w[2]].id # 0 =>
         ldap[job.user].data[w[2]].id = job.old.data[w[2]].id
    /\ job.op \in Off /\ job.pc \in OffPC \cup {"write"} /\ job.id # 0 =>
         ldap[job.user].data[job.at].id = job.id

KInv ==
  /\ IInv /\ Settled /\ NoIdYet /\ CacheIds
  /\ Current /\ Operation /\ Arrival /\ OnlyOne /\ Departure

LEMMA InitKInv == Init => KInv
<1> SUFFICES ASSUME Init PROVE KInv
  OBVIOUS
<1>1. IInv
  BY InitIInv
<1>2. ~busy
  BY DEF Init, busy
<1>3. Settled /\ NoIdYet /\ CacheIds
  BY DEF Init, Settled, NoIdYet, CacheIds, Nobody
<1> QED BY <1>1, <1>2, <1>3 DEF KInv, Current, Operation, Arrival, OnlyOne, Departure

\* Who waits after a change has been noted, and who waits behind the head.
LEMMA NotifyAdds ==
  ASSUME IInv, NEW u \in User, queue' = Notify(u)
  PROVE  /\ Range(queue') = Range(queue) \cup {u}
         /\ busy => /\ queue'[1] = queue[1]
                    /\ Range(Tail(queue')) = Range(Tail(queue)) \cup {u}
<1>1. queue \in Seq(User) /\ (busy => queue # <<>>)
  BY DEF IInv, TypeOK, Handling
<1>2. queue # <<>> => Range(Tail(queue)) \subseteq Range(queue)
  BY <1>1 DEF Range
<1>3. CASE queue' = queue /\ u \in Waiting
  BY <1>1, <1>2, <1>3 DEF Waiting
<1>4. CASE queue' = Append(queue, u)
  <2>1. Range(queue') = Range(queue) \cup {u}
    <3>1. \A k \in 1 .. Len(queue) : queue'[k] = queue[k]
      BY <1>1, <1>4
    <3>2. DOMAIN queue = 1 .. Len(queue) /\ DOMAIN queue' = 1 .. (Len(queue) + 1)
          /\ queue'[Len(queue) + 1] = u /\ Len(queue) \in Nat
      BY <1>1, <1>4
    <3> QED BY <3>1, <3>2 DEF Range
  <2>2. ASSUME queue # <<>> PROVE Range(Tail(queue')) = Range(Tail(queue)) \cup {u}
    <3>1. Tail(queue') = Append(Tail(queue), u) /\ Tail(queue) \in Seq(User)
      BY <1>1, <1>4, <2>2
    <3> DEFINE q == Tail(queue)
               r == Append(q, u)
    <3>2. q \in Seq(User)
      BY <3>1
    <3> HIDE DEF q
    <3>3. \A k \in 1 .. Len(q) : r[k] = q[k]
      BY <3>2
    <3>4. DOMAIN q = 1 .. Len(q) /\ DOMAIN r = 1 .. (Len(q) + 1)
          /\ r[Len(q) + 1] = u /\ Len(q) \in Nat
      BY <3>2
    <3>5. Range(r) = Range(q) \cup {u}
      BY <3>3, <3>4 DEF Range
    <3> QED BY <3>1, <3>5 DEF q
  <2>3. queue # <<>> => queue'[1] = queue[1]
    BY <1>1, <1>4
  <2> QED BY <1>1, <2>1, <2>2, <2>3
<1> QED BY <1>3, <1>4 DEF Notify

LEMMA HeadAndTail ==
  ASSUME IInv, busy
  PROVE  Range(queue) = Range(Tail(queue)) \cup {queue[1]}
<1>1. queue \in Seq(User) /\ queue # <<>>
  BY DEF IInv, TypeOK, Handling
<1>2. /\ DOMAIN queue = 1 .. Len(queue) /\ Len(queue) \in Nat \ {0}
      /\ DOMAIN Tail(queue) = 1 .. (Len(queue) - 1)
      /\ \A k \in 1 .. (Len(queue) - 1) : Tail(queue)[k] = queue[k + 1]
  BY <1>1
<1>3. \A k \in 2 .. Len(queue) : queue[k] = Tail(queue)[k - 1] /\ k - 1 \in DOMAIN Tail(queue)
  BY <1>2
<1>4. \A k \in DOMAIN queue : k = 1 \/ k \in 2 .. Len(queue)
  BY <1>2
<1>5. ASSUME NEW x \in Range(queue) PROVE x \in Range(Tail(queue)) \cup {queue[1]}
  <2>1. PICK k \in DOMAIN queue : x = queue[k]
    BY DEF Range
  <2> QED BY <1>3, <1>4, <2>1 DEF Range
<1>6. ASSUME NEW x \in Range(Tail(queue)) PROVE x \in Range(queue)
  <2>1. PICK k \in DOMAIN Tail(queue) : x = Tail(queue)[k]
    BY DEF Range
  <2>2. k + 1 \in DOMAIN queue /\ x = queue[k + 1]
    BY <1>2, <2>1
  <2> QED BY <2>2 DEF Range
<1>7. queue[1] \in Range(queue)
  <2>1. 1 \in DOMAIN queue
    BY <1>2
  <2> QED BY <2>1 DEF Range
<1> QED BY <1>5, <1>6, <1>7

-----------------------------------------------------------------------------
(* KInv is preserved by what administrators do, by time, and by the        *)
(* beginning and the end of a call.                                        *)

LEMMA PutKeepsK ==
  ASSUME KInv, IInv', NEW u \in User, NEW p \in Person,
         p.life # "none", p.data = ldap[u].data, Put(u, p)
  PROVE  KInv'
<1> USE DEF KInv
<1>1. /\ ldap' = [ldap EXCEPT ![u] = p]
      /\ queue' = Notify(u)
      /\ raced' = (raced \/ u \in Range(queue))
      /\ UNCHANGED <<seen, azure, job, past>>
  BY DEF Put
<1>2. ldap \in [User -> Person]
  BY DEF IInv, TypeOK
<1>3. /\ ldap'[u] = p
      /\ \A v \in User \ {u} : ldap'[v] = ldap[v]
      /\ \A v \in User : ldap'[v].data = ldap[v].data
  BY <1>1, <1>2
<1>4. /\ Range(queue') = Range(queue) \cup {u}
      /\ busy => queue'[1] = queue[1] /\ Range(Tail(queue')) = Range(Tail(queue)) \cup {u}
  BY <1>1, NotifyAdds
<1>5. busy' = busy
  BY <1>1 DEF busy
<1>6. ~raced' => ~raced /\ u \notin Range(queue)
  BY <1>1
<1>7. busy => job.user \in User /\ queue[1] = job.user /\ job.user \in Range(queue)
  BY JobParts, HeadAndTail DEF Current
<1>8. Settled' /\ NoIdYet'
  BY <1>1, <1>3, <1>4 DEF Settled, NoIdYet, Nobody
<1>9. CacheIds'
  <2> SUFFICES ASSUME ~raced', NEW v \in User, NEW t \in Tenant,
                      ShouldSync(seen[v])', t \in seen'[v].aliases, seen'[v].data[t].id # 0,
                      ldap'[v].data[t].id # seen'[v].data[t].id
               PROVE  OwnWrites(seen[v], ldap[v])'
    BY DEF CacheIds
  <2>1. v # u
    BY <1>1, <1>3, <1>6 DEF Settled
  <2> QED BY <1>1, <1>3, <1>6, <2>1 DEF CacheIds, OwnWrites, ShouldSync
<1>10. Current'
  <2> SUFFICES ASSUME busy PROVE Current'
    BY <1>5 DEF Current
  <2>1. CASE u = job.user
    BY <1>1, <1>3, <1>4, <1>6, <1>7, <2>1 DEF Current
  <2>2. CASE u # job.user
    BY <1>1, <1>3, <1>4, <1>6, <1>7, <2>2 DEF Current, OwnWrites
  <2> QED BY <2>1, <2>2
<1>11. Operation' /\ Arrival' /\ OnlyOne'
  BY <1>1, <1>5 DEF Operation, Arrival, NotInUse, ShouldSync, OnlyOne, Owned, Account
<1>12. Departure'
  BY <1>1, <1>3, <1>5, <1>6, <1>7 DEF Departure
<1> QED BY <1>8, <1>9, <1>10, <1>11, <1>12

\* Whatever an administrator does leaves the Azure data of the entry alone.
LEMMA AdminPuts ==
  ASSUME KInv, Admin
  PROVE  \E u \in User, p \in Person : Put(u, p) /\ p.life # "none" /\ p.data = ldap[u].data
<1>1. PICK u \in User : Add(u) \/ Switch(u) \/ Rename(u) \/ Connect(u) \/ SetExpiry(u) \/ Delete(u)
  BY DEF Admin
<1>2. ldap[u] \in Person
  BY DEF KInv, IInv, TypeOK
<1>3. CASE Add(u)
  <2>1. PICK m \in Mail, A \in SUBSET Tenant :
          Put(u, [Nobody EXCEPT !.life = "here", !.enabled = TRUE, !.mail = m, !.aliases = A])
    BY <1>3 DEF Add, Free
  <2> DEFINE p == [Nobody EXCEPT !.life = "here", !.enabled = TRUE, !.mail = m, !.aliases = A]
  <2>2. p \in Person /\ p.life # "none" /\ p.data = Nobody.data
    BY DEF Nobody, Person, NoEntry
  <2>3. ldap[u].data = Nobody.data
    BY <1>3 DEF Add, KInv, NoIdYet
  <2> QED BY <2>1, <2>2, <2>3
<1>4. CASE Switch(u)
  <2> DEFINE p == [ldap[u] EXCEPT !.enabled = ~@]
  <2>1. p \in Person /\ p.life = ldap[u].life /\ p.data = ldap[u].data
    BY <1>2 DEF Person
  <2>2. Put(u, p) /\ ldap[u].life = "here"
    BY <1>4 DEF Switch
  <2> QED BY <2>1, <2>2
<1>5. CASE Rename(u)
  BY <1>2, <1>5 DEF Rename, Person, Free
<1>6. CASE Connect(u)
  BY <1>2, <1>6 DEF Connect, Person
<1>7. CASE SetExpiry(u)
  <2> DEFINE p == [ldap[u] EXCEPT !.expires = ~@]
  <2>1. p \in Person /\ p.life = ldap[u].life /\ p.data = ldap[u].data
    BY <1>2 DEF Person
  <2>2. Put(u, p) /\ ldap[u].life = "here"
    BY <1>7 DEF SetExpiry
  <2> QED BY <2>1, <2>2
<1>8. CASE Delete(u)
  BY <1>2, <1>8 DEF Delete, Person
<1> QED BY <1>1, <1>3, <1>4, <1>5, <1>6, <1>7, <1>8

LEMMA AdminKeepsK == KInv /\ IInv' /\ (Admin \/ DayPasses) => KInv'
<1> SUFFICES ASSUME KInv, IInv', Admin \/ DayPasses PROVE KInv'
  OBVIOUS
<1>1. ASSUME Admin PROVE KInv'
  BY <1>1, AdminPuts, PutKeepsK
<1>2. ASSUME DayPasses PROVE KInv'
  <2>1. UNCHANGED <<ldap, seen, queue, azure, job, raced>> /\ ~past
    BY <1>2 DEF DayPasses
  <2>2. CacheIds'
    BY <2>1 DEF KInv, CacheIds, OwnWrites, ShouldSync
  <2>3. Arrival'
    BY <2>1 DEF KInv, Arrival, NotInUse, ShouldSync, busy
  <2>4. Settled' /\ NoIdYet' /\ Current'
    BY <2>1 DEF KInv, Settled, NoIdYet, Nobody, Current, OwnWrites, busy
  <2>5. Operation' /\ OnlyOne' /\ Departure'
    BY <2>1 DEF KInv, Operation, OnlyOne, Owned, Account, Departure, busy
  <2> QED BY <2>2, <2>3, <2>4, <2>5 DEF KInv
<1> QED BY <1>1, <1>2

\* What is done with a connection depends on the change.
LEMMA WorkParts ==
  ASSUME NEW o \in Person, NEW n \in Person
  PROVE  /\ \A v, w \in Work(o, n) : v[2] = w[2] => v = w
         /\ \A w \in Work(o, n) :
              /\ w[1] = "new" => ~ShouldSync(o) \/ w[2] \notin o.aliases
              /\ w[1] \in Off =>
                   ShouldSync(o) /\ w[2] \in o.aliases /\ ~OwnWrites(o, n)
<1>1. \A op, A : \A w \in Tasks(op, A) : w = <<op, w[2]>> /\ w[1] = op /\ w[2] \in A
  BY DEF Tasks
<1>2. CASE n.life # "here"
  BY <1>1, <1>2 DEF Work, Off
<1>3. CASE n.life = "here" /\ ShouldSync(n) /\ ShouldSync(o)
  <2>1. Work(o, n) = UNION {Tasks("new", n.aliases \ o.aliases), Tasks("out", o.aliases \ n.aliases),
                            Tasks("edit", o.aliases \cap n.aliases)}
    BY <1>3 DEF Work
  <2>2. \A w \in Work(o, n) :
          \/ w = <<"new", w[2]>> /\ w[1] = "new" /\ w[2] \in n.aliases \ o.aliases
          \/ w = <<"out", w[2]>> /\ w[1] = "out" /\ w[2] \in o.aliases \ n.aliases
          \/ w = <<"edit", w[2]>> /\ w[1] = "edit" /\ w[2] \in o.aliases \cap n.aliases
    BY <1>1, <2>1
  <2> QED BY <1>3, <2>2 DEF Off, OwnWrites
<1>4. CASE n.life = "here" /\ ShouldSync(n) /\ ~ShouldSync(o)
  <2>1. Work(o, n) = Tasks("new", Targets(n))
    BY <1>4 DEF Work
  <2> QED BY <1>1, <1>4, <2>1 DEF Off
<1>5. CASE n.life = "here" /\ ~ShouldSync(n)
  <2>1. ShouldSync(o) => ~OwnWrites(o, n)
    BY <1>5 DEF OwnWrites, ShouldSync
  <2>2. Work(o, n) = IF ShouldSync(o) THEN Tasks("off", o.aliases) ELSE {}
    BY <1>5 DEF Work
  <2> QED BY <1>1, <2>1, <2>2 DEF Off
<1> QED BY <1>2, <1>3, <1>4, <1>5

LEMMA StartKeepsK == KInv /\ IInv' /\ Start => KInv'
<1> SUFFICES ASSUME KInv, IInv', Start PROVE KInv'
  OBVIOUS
<1> USE DEF KInv
<1> DEFINE u == queue[1]
<1>1. u \in User /\ ldap[u] \in Person /\ seen[u] \in Person
  <2>1. queue \in Seq(User) /\ queue # <<>>
    BY DEF Start, IInv, TypeOK
  <2>2. u \in User
    BY <2>1
  <2> QED BY <2>2 DEF IInv, TypeOK
<1>2. /\ job'.pc = "pick" /\ job'.user = u /\ job'.old = seen[u] /\ job'.new = ldap[u]
      /\ job'.todo = Work(seen[u], ldap[u]) /\ job'.data = ldap[u].data /\ job'.op = "new"
      /\ UNCHANGED <<ldap, seen, queue, past, azure, raced>>
  BY DEF Start, directory, history
<1> HIDE DEF u
<1>3. \A v, w \in job'.todo : v[2] = w[2] => v = w
  BY <1>1, <1>2, WorkParts
<1>4. \A w \in job'.todo : w[1] = "new" => NotInUse(w[2])'
  BY <1>1, <1>2, WorkParts DEF NotInUse, ShouldSync
<1>5. \A w \in job'.todo : w[1] \in Off /\ ~raced /\ seen[u].data[w[2]].id # 0 =>
        ldap[u].data[w[2]].id = seen[u].data[w[2]].id
  <2>1. job'.todo \subseteq Op \X Tenant
    BY <1>1, <1>2, WorkType
  <2> QED BY <1>1, <1>2, <2>1, WorkParts DEF CacheIds
<1>6. Settled' /\ NoIdYet' /\ CacheIds'
  BY <1>2 DEF Settled, NoIdYet, Nobody, CacheIds, OwnWrites, ShouldSync
<1>7. Current'
  BY <1>2 DEF Current, OwnWrites, u
<1>8. Operation' /\ Arrival' /\ OnlyOne'
  BY <1>2, <1>3, <1>4 DEF Operation, Arrival, OnlyOne, NewPC, OffPC
<1>9. Departure'
  BY <1>2, <1>5 DEF Departure, OffPC
<1> QED BY <1>6, <1>7, <1>8, <1>9

LEMMA ReturnKeepsK ==
  ASSUME KInv, IInv', busy, Return
  PROVE  KInv'
<1> USE DEF KInv
<1>1. /\ seen' = [seen EXCEPT ![job.user] = job.new]
      /\ queue' = Tail(queue)
      /\ ~busy'
      /\ UNCHANGED <<ldap, past, raced>>
  BY DEF Return, busy
<1>2. job.user \in User /\ seen \in [User -> Person]
  BY JobParts DEF IInv, TypeOK
<1>3. /\ seen'[job.user] = job.new
      /\ \A v \in User \ {job.user} : seen'[v] = seen[v]
  BY <1>1, <1>2
<1>4. Settled'
  BY <1>1, <1>3, HeadAndTail DEF Settled, Current
<1>5. NoIdYet'
  BY <1>1 DEF NoIdYet, Nobody
<1>6. CacheIds'
  <2> SUFFICES ASSUME ~raced, NEW v \in User, NEW t \in Tenant,
                      ShouldSync(seen[v])', t \in seen'[v].aliases, seen'[v].data[t].id # 0,
                      ldap'[v].data[t].id # seen'[v].data[t].id
               PROVE  OwnWrites(seen[v], ldap[v])'
    BY <1>1 DEF CacheIds
  <2>1. CASE v = job.user
    BY <1>1, <1>3, <2>1 DEF Current, OwnWrites
  <2>2. CASE v # job.user
    BY <1>1, <1>3, <2>2 DEF CacheIds, OwnWrites, ShouldSync
  <2> QED BY <2>1, <2>2
<1> QED BY <1>1, <1>4, <1>5, <1>6 DEF Current, Operation, Arrival, OnlyOne, Departure

LEMMA CrashKeepsK == KInv /\ IInv' /\ Crash => KInv'
<1> SUFFICES ASSUME KInv, IInv', Crash PROVE KInv'
  OBVIOUS
<1>1. UNCHANGED <<ldap, seen, queue, past, raced>> /\ ~busy'
  BY DEF Crash, directory, busy
<1>2. Settled' /\ NoIdYet' /\ CacheIds'
  BY <1>1 DEF KInv, Settled, NoIdYet, Nobody, CacheIds, OwnWrites, ShouldSync
<1> QED BY <1>1, <1>2 DEF KInv, Current, Operation, Arrival, OnlyOne, Departure
-----------------------------------------------------------------------------
(* KInv is preserved by the steps of a call.                               *)

LEMMA CallKeepsK ==
  ASSUME KInv, busy, UNCHANGED directory, UNCHANGED raced, busy',
         job'.user = job.user, job'.old = job.old, job'.new = job.new, job'.data = job.data
  PROVE  Settled' /\ NoIdYet' /\ CacheIds' /\ Current'
<1>1. UNCHANGED <<ldap, seen, queue, past>>
  BY DEF directory
<1> QED BY <1>1 DEF KInv, Settled, NoIdYet, Nobody, CacheIds, Current, OwnWrites, ShouldSync

\* A step within an operation: a lookup that found an account, a change of
\* that account, or the end of the operation.
LEMMA StepKeepsK ==
  ASSUME KInv, IInv', busy, UNCHANGED directory, UNCHANGED raced,
         NEW x \in PC \ {"post", "edit"}, NEW i \in Nat,
         job' = [job EXCEPT !.pc = x, !.id = i],
         x \in {"licence", "join"} => job.op = "new",
         x \in OffPC => job.op \in Off \cup {"del"},
         x = "write" => job.op \in Off \cup {"new"},
         job.pc # "pick",
         job.op = "new" /\ x \in {"licence", "write"} => Owned(job.user)' \subseteq {i},
         job.op \in Off /\ x # "pick" => job.pc \in OffPC /\ i = job.id
  PROVE  KInv'
<1> USE DEF KInv
<1>1. job \in Job
  BY JobParts
<1>2. /\ job'.pc = x /\ job'.id = i /\ job'.op = job.op /\ job'.at = job.at
      /\ job'.todo = job.todo /\ job'.user = job.user
      /\ job'.old = job.old /\ job'.new = job.new /\ job'.data = job.data
  BY <1>1 DEF Job
<1>3. busy'
  <2>1. x \in PC /\ job'.pc # "idle"
    BY <1>2 DEF PC
  <2> QED BY <2>1 DEF busy, Idle
<1>4. UNCHANGED <<ldap, seen, queue, past>>
  BY DEF directory
<1>5. Settled' /\ NoIdYet' /\ CacheIds' /\ Current'
  BY <1>2, <1>3, CallKeepsK
<1>6. Operation'
  BY <1>2, <1>3 DEF Operation, NewPC
<1>7. Arrival'
  BY <1>2, <1>3, <1>4 DEF Arrival, NotInUse, ShouldSync
<1>8. OnlyOne'
  BY <1>2, <1>3 DEF OnlyOne
<1>9. Departure'
  BY <1>2, <1>3, <1>4 DEF Departure, OffPC
<1> QED BY <1>5, <1>6, <1>7, <1>8, <1>9

\* An account that changes without changing hands is owned as before.
LEMMA OwnedStays ==
  ASSUME IInv, busy, NEW i \in 1 .. Len(azure[job.at]), NEW a \in AccountRecord,
         SetAccount(i, a), job'.at = job.at, job'.user = job.user
  PROVE  /\ a.owner = Account(i).owner => Owned(job.user)' = Owned(job.user)
         /\ Owned(job.user) \subseteq {i} => Owned(job.user)' \subseteq {i}
<1>1. azure' = [azure EXCEPT ![job.at][i] = a]
  BY DEF SetAccount
<1>2. /\ DOMAIN azure'[job.at] = 1 .. Len(azure[job.at])
      /\ azure'[job.at][i] = a
      /\ \A k \in 1 .. Len(azure[job.at]) : k # i => azure'[job.at][k] = azure[job.at][k]
  <2>1. azure'[job.at] = [azure[job.at] EXCEPT ![i] = a]
    BY <1>1, JobParts
  <2>2. azure[job.at] \in Seq(AccountRecord)
    BY JobParts
  <2> QED BY <2>1, <2>2
<1> QED BY <1>2, JobParts DEF Owned, Account

LEMMA PickKeepsK == KInv /\ IInv' /\ busy /\ Pick => KInv'
<1> SUFFICES ASSUME KInv, IInv', busy, Pick PROVE KInv'
  OBVIOUS
<1> USE DEF KInv
<1>1. PICK w \in job.todo :
        job' = [job EXCEPT !.pc = FirstStep(w[1]), !.todo = @ \ {w}, !.op = w[1], !.at = w[2],
                           !.id = IF w[1] = "new" THEN 0 ELSE job.old.data[w[2]].id]
  BY DEF Pick
<1>2. w[1] \in Op /\ w[2] \in Tenant /\ job \in Job
  BY JobParts
<1>3. /\ job'.pc = FirstStep(w[1]) /\ job'.op = w[1] /\ job'.at = w[2]
      /\ job'.todo = job.todo \ {w} /\ job'.user = job.user
      /\ job'.id = IF w[1] = "new" THEN 0 ELSE job.old.data[w[2]].id
      /\ job'.old = job.old /\ job'.new = job.new /\ job'.data = job.data
  BY <1>1, <1>2 DEF Job
<1>4. /\ w[1] = "new" => job'.pc = "post"
      /\ w[1] = "edit" => job'.pc = "edit"
      /\ w[1] \in Off \cup {"del"} => job'.pc = "disable"
      /\ w[1] \in {"new", "edit"} \/ w[1] \in Off \cup {"del"}
  BY <1>2, <1>3 DEF FirstStep, Op, Off
<1>5. busy'
  <2>1. job'.pc # "idle"
    BY <1>4
  <2> QED BY <2>1 DEF busy, Idle
<1>6. UNCHANGED directory /\ UNCHANGED <<ldap, seen, past, azure, raced>>
  BY DEF Pick, directory, history
<1>7. Settled' /\ NoIdYet' /\ CacheIds' /\ Current'
  BY <1>3, <1>5, <1>6, CallKeepsK
<1>8. Operation'
  BY <1>3, <1>4, <1>5 DEF Operation, NewPC, OffPC, Off
<1>9. Arrival'
  BY <1>3, <1>5, <1>6 DEF Arrival, NotInUse, ShouldSync
<1>10. OnlyOne'
  BY <1>3, <1>4 DEF OnlyOne
<1>11. Departure'
  BY <1>3, <1>5, <1>6 DEF Departure, Off
<1> QED BY <1>7, <1>8, <1>9, <1>10, <1>11

LEMMA ReactivateKeepsK == KInv /\ IInv' /\ busy /\ Reactivate => KInv'
<1> SUFFICES ASSUME KInv, IInv', busy, Reactivate PROVE KInv'
  OBVIOUS
<1> USE DEF KInv
<1>1. CASE CreateAccount
  <2> DEFINE a == [owner |-> job.user, upn |-> job.new.mail, enabled |-> TRUE,
                   member |-> FALSE, licensed |-> FALSE]
             n == Len(azure[job.at]) + 1
  <2>1. /\ azure' = [azure EXCEPT ![job.at] = Append(@, a)]
        /\ job' = [job EXCEPT !.pc = "licence", !.id = n]
        /\ Owned(job.user) = {} /\ job.pc = "post"
        /\ UNCHANGED directory /\ UNCHANGED raced
    BY <1>1 DEF CreateAccount, history
  <2>2. a \in AccountRecord
    BY JobParts DEF AccountRecord
  <2>3. job.op = "new"
    BY <2>1 DEF Operation, NewPC
  <2>4. Owned(job.user)' \subseteq {n}
    <3>1. job'.at = job.at /\ job'.user = job.user
      BY <2>1, JobParts DEF Job
    <3>2. azure'[job.at] = Append(azure[job.at], a) /\ azure[job.at] \in Seq(AccountRecord)
      BY <2>1, JobParts
    <3> HIDE DEF a
    <3>3. /\ DOMAIN azure'[job.at] = 1 .. n
          /\ \A k \in 1 .. Len(azure[job.at]) : azure'[job.at][k] = azure[job.at][k]
      BY <2>2, <3>2
    <3>4. \A k \in 1 .. n : k = n \/ k \in 1 .. Len(azure[job.at])
      BY JobParts
    <3>5. \A k \in 1 .. Len(azure[job.at]) : azure[job.at][k].owner # job.user
      BY <2>1, JobParts DEF Owned, Account
    <3> QED BY <3>1, <3>3, <3>4, <3>5 DEF Owned, Account
  <2>5. n \in Nat
    BY JobParts
  <2> HIDE DEF n
  <2> QED BY <2>1, <2>3, <2>4, <2>5, StepKeepsK DEF PC, OffPC, Off
<1>2. CASE TakeAccount
  <2>1. PICK i \in 1 .. Len(azure[job.at]) :
          /\ Named(job.new.mail) \cup Owned(job.user) = {i}
          /\ SetAccount(i, [Account(i) EXCEPT !.owner = job.user, !.upn = job.new.mail,
                                              !.enabled = TRUE])
          /\ job' = [job EXCEPT !.pc = "licence", !.id = i]
    BY <1>2, JobParts DEF TakeAccount
  <2> DEFINE a == [Account(i) EXCEPT !.owner = job.user, !.upn = job.new.mail, !.enabled = TRUE]
  <2>2. a \in AccountRecord
    BY JobParts, AccountParts DEF AccountRecord
  <2>3. job.op = "new" /\ job.pc = "post" /\ UNCHANGED directory /\ UNCHANGED raced
    BY <1>2 DEF TakeAccount, Operation, NewPC, history
  <2>4. job'.at = job.at /\ job'.user = job.user
    BY <2>1, JobParts DEF Job
  <2>5. SetAccount(i, a) /\ Owned(job.user) \subseteq {i}
    BY <2>1
  <2> HIDE DEF a
  <2>6. Owned(job.user)' \subseteq {i}
    BY <2>2, <2>4, <2>5, OwnedStays
  <2>7. i \in Nat
    BY JobParts
  <2> QED BY <2>1, <2>3, <2>6, <2>7, StepKeepsK DEF PC, OffPC, Off
<1>3. CASE RefuseAccount
  BY <1>3, ReturnKeepsK DEF RefuseAccount, Raise
<1>4. CASE AssignLicence
  <2> DEFINE a == [Account(job.id) EXCEPT !.licensed = @ \/ job.at \in Seats]
  <2>1. job.id \in 1 .. Len(azure[job.at]) /\ job.pc = "licence"
    BY <1>4 DEF AssignLicence, IInv, Handling, AtAccount
  <2>2. a \in AccountRecord /\ a.owner = Account(job.id).owner
    BY <2>1, AccountParts DEF AccountRecord
  <2>3. SetAccount(job.id, a) /\ UNCHANGED directory /\ UNCHANGED raced
    BY <1>4 DEF AssignLicence, history
  <2>4. job' = [job EXCEPT !.pc = "write", !.id = job.id]
    BY <1>4, JobParts DEF AssignLicence, Goto, Job
  <2>5. job.op = "new" /\ Owned(job.user) \subseteq {job.id}
    BY <2>1 DEF Operation, NewPC, OnlyOne
  <2>6. job'.at = job.at /\ job'.user = job.user
    BY <2>4, JobParts DEF Job
  <2> HIDE DEF a
  <2>7. Owned(job.user)' \subseteq {job.id}
    BY <2>1, <2>2, <2>3, <2>5, <2>6, OwnedStays
  <2> QED BY <2>1, <2>3, <2>4, <2>5, <2>7, JobParts, StepKeepsK DEF PC, OffPC, Off
<1>5. CASE Join
  <2>1. job.pc = "join" /\ UNCHANGED directory /\ UNCHANGED raced
    BY <1>5 DEF Join
  <2>2. job' = [job EXCEPT !.pc = "pick", !.id = job.id]
    BY <1>5, JobParts DEF Join, Goto, Job
  <2> QED BY <2>1, <2>2, JobParts, StepKeepsK DEF PC, OffPC, Off
<1> QED BY <1>1, <1>2, <1>3, <1>4, <1>5 DEF Reactivate

LEMMA DeactivateKeepsK == KInv /\ IInv' /\ busy /\ Deactivate => KInv'
<1> SUFFICES ASSUME KInv, IInv', busy, Deactivate PROVE KInv'
  OBVIOUS
<1> USE DEF KInv
<1>1. CASE DisableUnknown
  BY <1>1, ReturnKeepsK DEF DisableUnknown, Raise
<1>2. CASE ~DisableUnknown
  <2>1. /\ job.pc \in OffPC /\ UNCHANGED directory /\ UNCHANGED raced
        /\ \E x \in {"leave", "unlicense", "pick", "write"} :
             /\ job' = [job EXCEPT !.pc = x]
             /\ x = "write" => job.op # "del"
    BY <1>2 DEF Deactivate, Disable, Leave, RemoveLicences, Goto, OffPC, history
  <2>2. PICK x \in {"leave", "unlicense", "pick", "write"} :
          /\ job' = [job EXCEPT !.pc = x, !.id = job.id]
          /\ x = "write" => job.op # "del"
    BY <2>1, JobParts DEF Job
  <2>3. job.op \in Off \cup {"del"} /\ job.pc # "pick"
    BY <2>1 DEF Operation, OffPC
  <2> QED BY <2>1, <2>2, <2>3, JobParts, StepKeepsK DEF PC, Off
<1> QED BY <1>1, <1>2

LEMMA EditKeepsK == KInv /\ IInv' /\ busy /\ Edit => KInv'
<1> SUFFICES ASSUME KInv, IInv', busy, Edit PROVE KInv'
  OBVIOUS
<1> USE DEF KInv
<1>1. CASE Same \/ Update
  <2>1. job.pc = "edit" /\ UNCHANGED directory /\ UNCHANGED raced
    BY <1>1 DEF Same, Update, history
  <2>2. job' = [job EXCEPT !.pc = "pick", !.id = job.id]
    BY <1>1, JobParts DEF Same, Update, Goto, Job
  <2>3. job.op = "edit"
    BY <2>1 DEF Operation
  <2> QED BY <2>1, <2>2, <2>3, JobParts, StepKeepsK DEF PC, OffPC, Off
<1>2. CASE RefuseUpdate
  BY <1>2, ReturnKeepsK DEF RefuseUpdate, Raise
<1>3. CASE Unknown
  <2>1. /\ job' = [job EXCEPT !.pc = "post", !.op = "new"]
        /\ job.pc = "edit" /\ Known = {}
        /\ UNCHANGED directory /\ UNCHANGED <<ldap, seen, queue, past, azure, raced>>
    BY <1>3 DEF Unknown, directory, history
  <2>2. /\ job'.pc = "post" /\ job'.op = "new" /\ job'.id = job.id /\ job'.at = job.at
        /\ job'.todo = job.todo /\ job'.user = job.user
        /\ job'.old = job.old /\ job'.new = job.new /\ job'.data = job.data
    BY <2>1, JobParts DEF Job
  <2>3. busy'
    BY <2>2 DEF busy, Idle
  <2>4. Settled' /\ NoIdYet' /\ CacheIds' /\ Current'
    BY <2>1, <2>2, <2>3, CallKeepsK
  <2>5. job.old.data[job.at].id = 0
    BY <2>1 DEF Known, Operation
  <2>6. Operation'
    BY <2>1, <2>2 DEF Operation, NewPC, OffPC
  <2>7. Arrival' /\ OnlyOne'
    BY <2>1, <2>2, <2>5 DEF Arrival, NotInUse, ShouldSync, OnlyOne
  <2>8. Departure'
    BY <2>1, <2>2 DEF Departure, Off
  <2> QED BY <2>4, <2>6, <2>7, <2>8
<1> QED BY <1>1, <1>2, <1>3 DEF Edit

\* Writing the entry changes the ids of the call's user only, and in the
\* call's connection only.
LEMMA WriteParts ==
  ASSUME KInv, busy, Write
  PROVE  /\ job.pc = "write"
         /\ UNCHANGED <<seen, azure, past, raced>>
         /\ \A v \in User \ {job.user} : ldap'[v] = ldap[v]
         /\ OwnWrites(ldap[job.user], ldap'[job.user])
         /\ ldap'[job.user].data = NewData
         /\ NewData[job.at].id = job.id
         /\ \A t \in Tenant \ {job.at} : NewData[t] = ldap[job.user].data[t]
         /\ \/ UNCHANGED <<ldap, queue>>
            \/ queue' = Notify(job.user) /\ ldap[job.user].life = "here"
         /\ job' = [job EXCEPT !.data = NewData, !.pc = IF job.op = "new" THEN "join" ELSE "pick"]
<1> USE DEF KInv
<1>1. /\ job.pc = "write"
      /\ UNCHANGED <<seen, azure, past, raced>>
      /\ job' = [job EXCEPT !.data = NewData, !.pc = IF job.op = "new" THEN "join" ELSE "pick"]
  BY DEF Write, history
<1>2. job.data = ldap[job.user].data /\ ldap \in [User -> Person] /\ ldap[job.user] \in Person
  BY JobParts DEF Current, IInv, TypeOK
<1>3. /\ NewData[job.at].id = job.id
      /\ \A t \in Tenant \ {job.at} : NewData[t] = ldap[job.user].data[t]
  <2>1. job.data \in [Tenant -> [id : Nat, upn : Mail \cup {NoName}]]
    BY JobParts DEF Job
  <2> QED BY <1>2, <2>1, JobParts DEF NewData, Entry
<1>4. CASE NewData = job.data
  <2>1. UNCHANGED <<ldap, queue>>
    BY <1>4 DEF Write
  <2> QED BY <1>1, <1>2, <1>3, <1>4, <2>1 DEF OwnWrites
<1>5. CASE NewData # job.data
  <2>1. /\ ldap[job.user].life = "here"
        /\ queue' = Notify(job.user)
        /\ ldap' = [ldap EXCEPT ![job.user].data = NewData,
                      ![job.user].aliases =
                         IF job.op = "new" /\ job.at \notin job.new.aliases
                         THEN @ \cup {job.at} ELSE @]
    BY <1>5 DEF Write
  <2>2. /\ \A v \in User \ {job.user} : ldap'[v] = ldap[v]
        /\ ldap'[job.user].data = NewData
        /\ OwnWrites(ldap[job.user], ldap'[job.user])
    BY <1>2, <2>1, JobParts DEF OwnWrites, Person
  <2> QED BY <1>1, <1>3, <2>1, <2>2
<1> QED BY <1>4, <1>5

LEMMA WriteKeepsK == KInv /\ IInv' /\ busy /\ (Write \/ WriteGone) => KInv'
<1> SUFFICES ASSUME KInv, IInv', busy, Write \/ WriteGone PROVE KInv'
  OBVIOUS
<1> USE DEF KInv
<1>1. CASE WriteGone
  BY <1>1, ReturnKeepsK DEF WriteGone, Raise
<1>2. CASE Write
  <2> DEFINE u == job.user
  <2>1. /\ job.pc = "write" /\ job.id \in Nat \ {0}
        /\ u \in User /\ job \in Job
        /\ job.op \in Off \cup {"new"}
    BY <1>2, WriteParts, EntryType, JobParts DEF Operation
  <2>2. /\ job'.pc = (IF job.op = "new" THEN "join" ELSE "pick")
        /\ job'.data = NewData
        /\ job'.op = job.op /\ job'.id = job.id /\ job'.at = job.at /\ job'.todo = job.todo
        /\ job'.user = u /\ job'.old = job.old /\ job'.new = job.new
    BY <1>2, <2>1, WriteParts DEF Job
  <2>3. busy'
    BY <2>2 DEF busy, Idle
  <2>4. /\ UNCHANGED <<seen, azure, past, raced>>
        /\ \A v \in User \ {u} : ldap'[v] = ldap[v]
        /\ OwnWrites(ldap[u], ldap'[u])
        /\ ldap'[u].data = NewData /\ NewData[job.at].id = job.id
        /\ \A t \in Tenant \ {job.at} : NewData[t] = ldap[u].data[t]
        /\ \/ UNCHANGED <<ldap, queue>>
           \/ queue' = Notify(u) /\ ldap[u].life = "here"
    BY <1>2, WriteParts
  <2> HIDE DEF u
  <2>5. /\ UNCHANGED queue \/ Range(queue') = Range(queue) \cup {u}
        /\ queue'[1] = queue[1]
        /\ UNCHANGED <<ldap, queue>> \/ u \in Range(Tail(queue'))
    BY <2>1, <2>4, NotifyAdds
  <2>6. u \in Range(queue)
    BY HeadAndTail DEF Current, u
  <2>7. Settled' /\ NoIdYet'
    <3>1. \A v \in User : v \notin Range(queue') => v # u /\ v \notin Range(queue)
      BY <2>5, <2>6
    <3>2. UNCHANGED ldap \/ (ldap[u].life = "here" /\ ldap'[u].life = "here")
      BY <2>4 DEF OwnWrites
    <3> QED BY <2>4, <3>1, <3>2 DEF Settled, NoIdYet, Nobody
  <2>8. CacheIds'
    <3> SUFFICES ASSUME ~raced, NEW v \in User, NEW t \in Tenant,
                        ShouldSync(seen[v]), t \in seen[v].aliases, seen[v].data[t].id # 0,
                        ldap'[v].data[t].id # seen[v].data[t].id
                 PROVE  OwnWrites(seen[v], ldap'[v])
      BY <2>4 DEF CacheIds, OwnWrites, ShouldSync
    <3>1. CASE v # u
      BY <2>4, <3>1 DEF CacheIds
    <3>2. CASE v = u
      <4>1. seen[u] = job.old
        BY DEF Current, u
      <4>2. ldap[u].data[t].id # seen[u].data[t].id
        <5>1. CASE t # job.at
          BY <2>4, <3>2, <5>1
        <5>2. CASE t = job.at
          <6>1. job.op \in Off
            BY <2>1, <3>2, <4>1, <5>2 DEF Arrival, NotInUse
          <6>2. ldap[u].data[t].id = job.id
            BY <2>1, <5>2, <6>1 DEF Departure, u
          <6> QED BY <2>4, <3>2, <5>2, <6>2
        <5> QED BY <5>1, <5>2
      <4>3. OwnWrites(seen[u], ldap[u])
        BY <3>2, <4>2 DEF CacheIds
      <4> QED BY <2>4, <3>2, <4>3 DEF OwnWrites
    <3> QED BY <3>1, <3>2
  <2>9. Current'
    <3>1. ~raced => OwnWrites(job.new, ldap'[u])
      BY <2>4 DEF Current, OwnWrites, u
    <3>2. u \notin Range(Tail(queue')) => ldap'[u] = job.new
      BY <2>5 DEF Current, u
    <3> QED BY <2>2, <2>4, <2>5, <3>1, <3>2 DEF Current, OwnWrites, u
  <2>10. Operation'
    BY <2>1, <2>2 DEF Operation, NewPC, OffPC
  <2>11. Arrival' /\ OnlyOne'
    BY <2>1, <2>2, <2>4 DEF Arrival, NotInUse, ShouldSync, OnlyOne
  <2>12. Departure'
    <3>1. \A w \in job.todo : w[2] \in Tenant \ {job.at}
      BY <2>1, JobParts DEF Operation
    <3>2. job.op \in Off => job'.pc = "pick"
      BY <2>2 DEF Off
    <3> QED BY <2>2, <2>4, <3>1, <3>2 DEF Departure, OffPC, u
  <2> QED BY <2>7, <2>8, <2>9, <2>10, <2>11, <2>12
<1> QED BY <1>1, <1>2

LEMMA NextKInv == KInv /\ [Next]_vars => KInv'
<1> SUFFICES ASSUME KInv, [Next]_vars PROVE KInv'
  OBVIOUS
<1>1. IInv'
  BY NextIInv DEF KInv
<1>2. CASE (busy /\ Finish) \/ Fails
  BY <1>1, <1>2, ReturnKeepsK DEF Finish, Fails, Raise
<1>3. CASE Next /\ ~((busy /\ Finish) \/ Fails)
  BY <1>1, <1>3, AdminKeepsK, StartKeepsK, PickKeepsK, ReactivateKeepsK, DeactivateKeepsK,
     EditKeepsK, WriteKeepsK, CrashKeepsK DEF Next, Listener
<1>4. CASE UNCHANGED vars
  <2>1. UNCHANGED <<ldap, seen, queue, azure, job, past, raced>>
    BY <1>4 DEF vars
  <2>2. Settled' /\ NoIdYet' /\ CacheIds' /\ Current'
    BY <2>1 DEF KInv, Settled, NoIdYet, Nobody, CacheIds, Current, OwnWrites, ShouldSync, busy
  <2>3. Operation' /\ Arrival' /\ OnlyOne' /\ Departure'
    BY <2>1 DEF KInv, Operation, Arrival, NotInUse, ShouldSync, OnlyOne, Owned, Account,
                Departure, busy
  <2> QED BY <1>1, <2>2, <2>3 DEF KInv
<1> QED BY <1>2, <1>3, <1>4

LEMMA KInvariance == Spec => []KInv
BY InitKInv, NextKInv, PTL DEF Spec

-----------------------------------------------------------------------------
(* What KInv is for.                                                       *)

\* The step of KeepsAccount.
Keeps ==
  ~raced => \A u \in User, t \in Tenant :
    LET i == ldap[u].data[t].id IN
    i # 0 /\ ldap[u].data[t].id' # i => azure[t][i].owner # u

LEMMA NextKeeps == KInv /\ [Next]_vars => Keeps
<1> SUFFICES ASSUME KInv, [Next]_vars, ~raced, NEW u \in User, NEW t \in Tenant,
                    ldap[u].data[t].id # 0, ldap'[u].data[t].id # ldap[u].data[t].id
             PROVE  azure[t][ldap[u].data[t].id].owner # u
  BY DEF Keeps
<1>1. ~UNCHANGED ldap
  OBVIOUS
<1>2. busy /\ Write
  <2>1. ~Admin
    <3> SUFFICES ASSUME Admin PROVE FALSE
      OBVIOUS
    <3>1. PICK v \in User, p \in Person : Put(v, p) /\ p.data = ldap[v].data
      BY AdminPuts
    <3> QED BY <3>1 DEF Put, KInv, IInv, TypeOK
  <2>2. DayPasses \/ Start \/ Fails \/ Crash \/ WriteGone \/ Finish \/ Pick => UNCHANGED ldap
    BY DEF DayPasses, Start, Fails, Crash, WriteGone, Finish, Pick, Raise, Return, directory
  <2>3. Reactivate => UNCHANGED ldap
    BY DEF Reactivate, CreateAccount, TakeAccount, RefuseAccount, AssignLicence, Join,
           Raise, Return, directory
  <2>4. Deactivate => UNCHANGED ldap
    BY DEF Deactivate, Disable, DisableUnknown, Leave, RemoveLicences, Raise, Return, directory
  <2>5. Edit => UNCHANGED ldap
    BY DEF Edit, Same, Update, RefuseUpdate, Unknown, Raise, Return, directory
  <2> QED BY <1>1, <2>1, <2>2, <2>3, <2>4, <2>5 DEF Next, Listener, vars
<1>3. u = job.user /\ t = job.at /\ job.id # ldap[u].data[t].id
  BY <1>2, WriteParts
<1>4. job.pc = "write" /\ job.id # 0
  BY <1>2, WriteParts, EntryType, JobParts DEF KInv
<1>5. job.op = "new"
  BY <1>2, <1>3, <1>4 DEF KInv, Operation, Departure
<1>6. Owned(u) \subseteq {job.id}
  BY <1>2, <1>3, <1>4, <1>5 DEF KInv, OnlyOne
<1>7. ldap[u].data[t].id \in DOMAIN azure[t]
  <2>1. ldap[u].data[t].id \in 0 .. Len(azure[t])
    BY DEF KInv, IInv, Entries, IdsOf
  <2> QED BY <1>2, <1>3, <2>1, JobParts DEF KInv
<1> QED BY <1>3, <1>6, <1>7 DEF Owned, Account

\* A user who leaves a connection and comes back, who is disabled and enabled
\* again, or whose creation was interrupted and repeated gets the account it
\* had: the entry never gives up the id of an account that is the user's, for
\* any number of users, connections, crashes and failed calls, unless the
\* user was changed before its last change had been handled.
THEOREM AccountsAreKept == Spec => KeepsAccount
<1>1. KInv /\ [Next]_vars => [Keeps]_vars
  BY NextKeeps
<1>2. Spec => [][Keeps]_vars
  BY <1>1, KInvariance, PTL DEF Spec
<1>3. [][Keeps]_vars => KeepsAccount
  BY DEF Keeps, KeepsAccount
<1> QED BY <1>2, <1>3

-----------------------------------------------------------------------------
(* Accounts are as the entries are: the invariant.                         *)

\* p became q by nothing but the module's own writes.
Untouched(p, q) == OwnWrites(p, q) /\ q.mail = p.mail

OwnedBy(u, t) == {i \in DOMAIN azure[t] : azure[t][i].owner = u}
Works(t, i) ==
  azure[t][i].enabled /\ azure[t][i].member /\ (t \in Seats => azure[t][i].licensed)
IsOff(t, i) == ~(azure[t][i].enabled \/ azure[t][i].member \/ azure[t][i].licensed)
AllOff(u, t) == \A i \in OwnedBy(u, t) : IsOff(t, i)

\* A mail address is one user's.
Mails ==
  \A u, v \in User :
    u # v /\ ldap[u].life = "here" /\ ldap[v].life = "here" => ldap[u].mail # ldap[v].mail

\* A user is handled after the one whose name it got.
InOrder ==
  ~raced => \A k \in 1 .. Len(queue), v \in User :
    /\ queue[k] # v /\ ldap[queue[k]].life = "here" /\ seen[v].life = "here"
    /\ ldap[queue[k]].mail \in {seen[v].mail, ldap[v].mail}
    => \E j \in 1 .. (k - 1) : queue[j] = v

NotYet == ~past => lapsed = {}

\* LDAP holds what the call was given and what the call has written.
OwnCall ==
  busy /\ ~raced =>
    /\ ldap[job.user].mail = job.new.mail
    /\ ~failed => ldap[job.user].aliases \in {job.new.aliases, Targets(job.new)}

\* A user the listener knows as one to be synchronised has its account.
HasAccount(u, t) ==
  Wants(seen[u], t) => \E i \in DOMAIN azure[t] :
    /\ OwnedBy(u, t) = {i}
    /\ azure[t][i].upn \in {seen[u].mail, ldap[u].mail, Renamed}
    /\ Wants(ldap[u], t) =>
         /\ Works(t, i) /\ azure[t][i].upn # Renamed
         /\ ldap[u].data[t].id = i /\ ldap[u].data[t].upn # NoName
         /\ seen[u].data[t].id = i \/ Untouched(seen[u], ldap[u])
    /\ ~Wants(ldap[u], t) => seen[u].data[t].id = i

\* One who is not, and is not to become one, has none that works.
HasNone(u, t) ==
  ~Wants(seen[u], t) /\ ~Wants(ldap[u], t) /\ u \notin lapsed =>
    /\ ldap[u].life = "here" => ldap[u].data[t].upn = NoName
    /\ \/ AllOff(u, t)
       \/ ShouldSync(ldap[u]) /\ ~ShouldSync(seen[u]) /\ t \in Targets(ldap[u])

AtRest == Calm => \A u \in User, t \in Tenant : HasAccount(u, t) /\ HasNone(u, t)

\* What an operation that waits, or begins, finds.
ReadyNew(t) ==
  /\ t \in Targets(job.new) /\ job.new.life = "here"
  /\ ~Wants(job.old, t)
  /\ job.user \notin lapsed =>
       /\ ShouldSync(job.new)
       /\ t \notin job.new.aliases =>
            ~ShouldSync(job.old) /\ ldap[job.user].data[t].upn = NoName

ReadyEdit(t) ==
  /\ job.user \notin lapsed => Wants(job.old, t) /\ Wants(job.new, t)
  /\ \E i \in DOMAIN azure[t] :
       /\ OwnedBy(job.user, t) = {i} /\ Works(t, i)
       /\ azure[t][i].upn \in {job.old.mail, job.new.mail}
       /\ ldap[job.user].data[t].id = i /\ ldap[job.user].data[t].upn # NoName
       /\ job.old.data[t].id = i \/ job.old.mail = job.new.mail

Leaves(op, t) ==
  /\ job.user \notin lapsed => Wants(job.old, t)
  /\ ~Wants(ldap[job.user], t)
  /\ op = "del" <=> job.new.life # "here"
  
ReadyOff(op, t) ==
  Leaves(op, t) /\ job.old.data[t].id # 0 /\ OwnedBy(job.user, t) = {job.old.data[t].id}

Ready(op, t) ==
  /\ op = "new" => ReadyNew(t)
  /\ op = "edit" => ReadyEdit(t)
  /\ op \in Off \cup {"del"} => ReadyOff(op, t)

\* What an operation leaves behind.
Done(t) ==
  /\ Wants(job.new, t) => \E i \in DOMAIN azure[t] :
       /\ OwnedBy(job.user, t) = {i} /\ Works(t, i)
       /\ azure[t][i].upn = job.new.mail
       /\ ldap[job.user].data[t].id = i /\ ldap[job.user].data[t].upn # NoName
  /\ ~Wants(job.new, t) /\ ~Wants(ldap[job.user], t) /\ job.user \notin lapsed =>
       /\ AllOff(job.user, t)
       /\ ldap[job.user].life = "here" => ldap[job.user].data[t].upn = NoName

\* Where the operation that is being carried out is.
MidNew ==
  LET t == job.at  acc == azure[t][job.id] IN
  /\ job.pc # "join" => ReadyNew(t)
  /\ job.pc # "post" =>
       /\ OwnedBy(job.user, t) = {job.id} /\ acc.enabled /\ acc.upn = job.new.mail
       /\ job.pc # "licence" /\ t \in Seats => acc.licensed
  /\ job.pc = "join" =>
       /\ ldap[job.user].data[t] = [id |-> job.id, upn |-> job.new.mail]
       /\ ~Wants(job.old, t)
       /\ job.user \notin lapsed => Wants(ldap[job.user], t)

MidOff ==
  LET t == job.at  acc == azure[t][job.id] IN
  /\ Leaves(job.op, t)
  /\ job.id # 0 /\ job.id = job.old.data[t].id /\ OwnedBy(job.user, t) = {job.id}
  /\ job.pc # "disable" => ~acc.enabled
  /\ job.pc \notin {"disable", "leave"} => ~acc.member
  /\ job.pc = "write" => ~acc.licensed

Mid ==
  /\ job.op = "new" => MidNew
  /\ job.op = "edit" => ReadyEdit(job.at)
  /\ job.op \in Off \cup {"del"} => MidOff

InCall ==
  busy /\ Calm =>
    /\ \A w \in job.todo : Ready(w[1], w[2])
    /\ job.pc # "pick" => Mid
    /\ \A t \in Tenant :
         (\A w \in job.todo : w[2] # t) /\ (job.pc = "pick" \/ job.at # t) => Done(t)

SInv == Mails /\ InOrder /\ NotYet /\ OwnCall /\ AtRest /\ InCall

LEMMA InitSInv == Init => SInv
<1> SUFFICES ASSUME Init PROVE SInv
  OBVIOUS
<1>1. /\ ldap = [u \in User |-> Nobody] /\ seen = ldap /\ queue = <<>>
      /\ azure = [t \in Tenant |-> <<>>] /\ lapsed = {} /\ ~busy
  BY DEF Init, busy
<1>2. \A u \in User : ldap[u].life = "none" /\ ~Wants(ldap[u], "any") /\ ~ShouldSync(ldap[u])
  BY <1>1 DEF Wants, ShouldSync, Nobody
<1>3. Mails /\ InOrder /\ NotYet
  BY <1>1, <1>2 DEF Mails, InOrder, NotYet
<1>4. OwnCall /\ InCall
  BY <1>1 DEF OwnCall, InCall
<1>5. \A u \in User, t \in Tenant : OwnedBy(u, t) = {}
  BY <1>1 DEF OwnedBy
<1>6. AtRest
  BY <1>1, <1>2, <1>5 DEF AtRest, HasAccount, HasNone, AllOff, Wants
<1> QED BY <1>3, <1>4, <1>6 DEF SInv

-----------------------------------------------------------------------------
(* Time and administrators.                                                *)

LEMMA DayKeepsS == KInv /\ SInv /\ DayPasses => SInv'
<1> SUFFICES ASSUME KInv, SInv, DayPasses PROVE SInv'
  OBVIOUS
<1> USE DEF SInv
<1>1. /\ ~past /\ past' = TRUE /\ lapsed = {}
      /\ lapsed' = {u \in User : ldap[u].expires \/ seen[u].expires}
      /\ UNCHANGED <<ldap, seen, queue, azure, job, failed, raced>>
  BY DEF DayPasses, NotYet
<1>2. Mails' /\ InOrder' /\ NotYet' /\ OwnCall'
  BY <1>1 DEF Mails, InOrder, NotYet, OwnCall, busy, Targets
<1>3. \A u \in User :
        /\ ShouldSync(ldap[u])' => ShouldSync(ldap[u]) /\ ~ldap[u].expires
        /\ ShouldSync(seen[u])' => ShouldSync(seen[u]) /\ ~seen[u].expires
        /\ u \notin lapsed' => /\ ShouldSync(ldap[u])' = ShouldSync(ldap[u])
                               /\ ShouldSync(seen[u])' = ShouldSync(seen[u])
  BY <1>1 DEF ShouldSync
<1>4. \A u \in User, t \in Tenant :
        /\ Wants(ldap[u], t)' => Wants(ldap[u], t) /\ ~ldap[u].expires
        /\ Wants(seen[u], t)' => Wants(seen[u], t) /\ ~seen[u].expires
        /\ Wants(ldap[u], t) /\ ~Wants(ldap[u], t)' => ldap[u].expires
        /\ u \notin lapsed' => /\ Wants(ldap[u], t)' = Wants(ldap[u], t)
                               /\ Wants(seen[u], t)' = Wants(seen[u], t)
  BY <1>1 DEF Wants, ShouldSync
<1>5. \A u \in User, t \in Tenant :
        OwnedBy(u, t)' = OwnedBy(u, t) /\ AllOff(u, t)' = AllOff(u, t)
  BY <1>1 DEF OwnedBy, AllOff, IsOff
<1>6. \A t \in Tenant : \A i : Works(t, i)' = Works(t, i)
  BY <1>1 DEF Works
<1>7. AtRest'
  <2> SUFFICES ASSUME Calm, NEW u \in User, NEW t \in Tenant
               PROVE  HasAccount(u, t)' /\ HasNone(u, t)'
    BY <1>1 DEF AtRest, Calm
  <2>1. HasAccount(u, t) /\ HasNone(u, t)
    BY DEF AtRest
  <2>2. HasAccount(u, t)'
    <3> SUFFICES ASSUME Wants(seen[u], t)' PROVE HasAccount(u, t)'
      BY DEF HasAccount
    <3>1. Wants(seen[u], t) /\ ~seen[u].expires
      BY <1>4
    <3>2. PICK i \in DOMAIN azure[t] :
            /\ OwnedBy(u, t) = {i}
            /\ azure[t][i].upn \in {seen[u].mail, ldap[u].mail, Renamed}
            /\ Wants(ldap[u], t) =>
                 /\ Works(t, i) /\ azure[t][i].upn # Renamed
                 /\ ldap[u].data[t].id = i /\ ldap[u].data[t].upn # NoName
                 /\ seen[u].data[t].id = i \/ Untouched(seen[u], ldap[u])
            /\ ~Wants(ldap[u], t) => seen[u].data[t].id = i
      BY <2>1, <3>1 DEF HasAccount
    <3>3. ~Wants(ldap[u], t)' => seen[u].data[t].id = i
      BY <1>4, <3>1, <3>2 DEF Untouched, OwnWrites
    <3>4. Untouched(seen[u], ldap[u])' = Untouched(seen[u], ldap[u])
      BY <1>1 DEF Untouched, OwnWrites
    <3> QED BY <1>1, <1>4, <1>5, <1>6, <3>2, <3>3, <3>4 DEF HasAccount
  <2>3. HasNone(u, t)'
    BY <1>1, <1>3, <1>4, <1>5, <2>1 DEF HasNone, Targets
  <2> QED BY <2>2, <2>3
<1>8. InCall'
  <2> SUFFICES ASSUME busy, Calm PROVE InCall'
    BY <1>1 DEF InCall, Calm, busy
  <2>1. /\ job.user \in User /\ job.todo \subseteq Op \X Tenant /\ job.at \in Tenant
        /\ job.op \in Op
        /\ job.old = seen[job.user] /\ OwnWrites(job.new, ldap[job.user])
    BY JobParts DEF KInv, Current, Calm, Job
  <2>2. /\ ShouldSync(job.new)' => ShouldSync(job.new)
        /\ ShouldSync(job.old)' => ShouldSync(job.old)
        /\ job.user \notin lapsed' => /\ job.user \notin lapsed
                                      /\ ShouldSync(job.new)' = ShouldSync(job.new)
                                      /\ ShouldSync(job.old)' = ShouldSync(job.old)
    BY <1>1, <1>3, <2>1 DEF OwnWrites, ShouldSync
  <2>3. \A t \in Tenant :
          /\ Wants(job.new, t)' => Wants(job.new, t)
          /\ Wants(job.old, t)' => Wants(job.old, t)
          /\ job.user \notin lapsed' => /\ Wants(job.new, t)' = Wants(job.new, t)
                                        /\ Wants(job.old, t)' = Wants(job.old, t)
    BY <1>1, <2>2 DEF Wants
  <2>4. \A t \in Tenant : Done(t) => Done(t)'
    BY <1>1, <1>4, <1>5, <1>6, <2>1, <2>2, <2>3 DEF Done
  <2>5. \A t \in Tenant : ReadyNew(t) => ReadyNew(t)'
    BY <1>1, <2>1, <2>2, <2>3 DEF ReadyNew, Targets
  <2>6. \A t \in Tenant : ReadyEdit(t) => ReadyEdit(t)'
    BY <1>1, <1>5, <1>6, <2>1, <2>2, <2>3 DEF ReadyEdit
  <2>7. \A op \in Op, t \in Tenant : Leaves(op, t) => Leaves(op, t)'
    BY <1>1, <1>4, <2>1, <2>2, <2>3 DEF Leaves
  <2>8. \A op \in Op, t \in Tenant : ReadyOff(op, t) => ReadyOff(op, t)'
    BY <1>1, <1>5, <2>1, <2>7 DEF ReadyOff
  <2>9. \A w \in job.todo : Ready(w[1], w[2]) => Ready(w[1], w[2])'
    BY <2>1, <2>5, <2>6, <2>8 DEF Ready
  <2>10. Mid => Mid'
    <3>1. MidNew => MidNew'
      BY <1>1, <1>4, <1>5, <2>1, <2>2, <2>3, <2>5 DEF MidNew
    <3>2. MidOff => MidOff'
      BY <1>1, <1>5, <2>1, <2>7 DEF MidOff
    <3> QED BY <1>1, <2>1, <2>6, <3>1, <3>2 DEF Mid
  <2> QED BY <1>1, <2>1, <2>4, <2>9, <2>10 DEF InCall
<1> QED BY <1>2, <1>7, <1>8

\* Where nothing it depends on changes, a call has the same before it.
LEMMA CallStays ==
  ASSUME KInv, InCall, Calm' => Calm, UNCHANGED <<job, azure, past, lapsed>>,
         busy => ldap'[job.user] = ldap[job.user]
  PROVE  InCall'
<1> SUFFICES ASSUME busy, Calm PROVE InCall'
  BY DEF InCall, busy
<1>1. job.user \in User /\ job.todo \subseteq Op \X Tenant /\ job.at \in Tenant /\ job.op \in Op
  BY JobParts DEF KInv, Job
<1>2. \A t \in Tenant, u \in User :
        OwnedBy(u, t)' = OwnedBy(u, t) /\ AllOff(u, t)' = AllOff(u, t)
  BY DEF OwnedBy, AllOff, IsOff
<1>3. \A t \in Tenant : \A i : Works(t, i)' = Works(t, i)
  BY DEF Works
<1>4. \A t \in Tenant : /\ Wants(job.new, t)' = Wants(job.new, t)
                        /\ Wants(job.old, t)' = Wants(job.old, t)
                        /\ Wants(ldap[job.user], t)' = Wants(ldap[job.user], t)
  BY DEF Wants, ShouldSync
<1>5. /\ ShouldSync(job.new)' = ShouldSync(job.new)
      /\ ShouldSync(job.old)' = ShouldSync(job.old)
      /\ Targets(job.new)' = Targets(job.new)
  BY DEF ShouldSync, Targets
<1>6. \A t \in Tenant : Done(t)' = Done(t)
  BY <1>1, <1>2, <1>3, <1>4 DEF Done
<1>7. \A t \in Tenant : ReadyNew(t)' = ReadyNew(t) /\ ReadyEdit(t)' = ReadyEdit(t)
  BY <1>1, <1>2, <1>3, <1>4, <1>5 DEF ReadyNew, ReadyEdit
<1>8. \A op \in Op, t \in Tenant :
        Leaves(op, t)' = Leaves(op, t) /\ ReadyOff(op, t)' = ReadyOff(op, t)
  BY <1>1, <1>2, <1>4 DEF Leaves, ReadyOff
<1>9. \A w \in job.todo : Ready(w[1], w[2])' = Ready(w[1], w[2])
  BY <1>1, <1>7, <1>8 DEF Ready
<1>10. Mid' = Mid
  BY <1>1, <1>2, <1>4, <1>7, <1>8 DEF Mid, MidNew, MidOff
<1> QED BY <1>6, <1>9, <1>10 DEF InCall

\* Users keep their accounts where neither they nor these change.
LEMMA RestStays ==
  ASSUME NEW u \in User, NEW t \in Tenant, HasAccount(u, t), HasNone(u, t),
         UNCHANGED <<past, lapsed>>, azure'[t] = azure[t],
         ldap'[u] = ldap[u], seen'[u] = seen[u]
  PROVE  HasAccount(u, t)' /\ HasNone(u, t)'
<1>1. OwnedBy(u, t)' = OwnedBy(u, t) /\ AllOff(u, t)' = AllOff(u, t)
  BY DEF OwnedBy, AllOff, IsOff
<1>2. \A i : Works(t, i)' = Works(t, i)
  BY DEF Works
<1>3. /\ Wants(ldap[u], t)' = Wants(ldap[u], t) /\ Wants(seen[u], t)' = Wants(seen[u], t)
      /\ ShouldSync(ldap[u])' = ShouldSync(ldap[u])
      /\ ShouldSync(seen[u])' = ShouldSync(seen[u])
      /\ Untouched(seen[u], ldap[u])' = Untouched(seen[u], ldap[u])
      /\ Targets(ldap[u])' = Targets(ldap[u])
  BY DEF Wants, ShouldSync, Untouched, OwnWrites, Targets
<1>4. HasAccount(u, t)'
  BY <1>1, <1>2, <1>3 DEF HasAccount
<1>5. HasNone(u, t)'
  BY <1>1, <1>3 DEF HasNone
<1> QED BY <1>4, <1>5

\* The elements of a sequence have positions.
LEMMA Positions ==
  ASSUME NEW q \in Seq(User), NEW v \in Range(q)
  PROVE  \E j \in 1 .. Len(q) : q[j] = v
BY DEF Range

\* The order is kept where users are only appended, if users who are not the
\* last stay behind those whose names they have.
LEMMA OrderKeeps ==
  ASSUME KInv, KInv', Mails', NEW u \in User, UNCHANGED seen,
         queue' = queue \/ queue' = Append(queue, u),
         \A k \in 1 .. Len(queue), v \in User :
           /\ queue[k] # v /\ ldap'[queue[k]].life = "here" /\ seen[v].life = "here"
           /\ ldap'[queue[k]].mail \in {seen[v].mail, ldap'[v].mail}
           => \E j \in 1 .. (k - 1) : queue[j] = v
  PROVE  InOrder'
<1> SUFFICES ASSUME NEW k \in 1 .. Len(queue'), NEW v \in User,
                    queue'[k] # v, ldap'[queue'[k]].life = "here", seen[v].life = "here",
                    ldap'[queue'[k]].mail \in {seen[v].mail, ldap'[v].mail}
             PROVE  \E j \in 1 .. (k - 1) : queue'[j] = v
  BY DEF InOrder
<1>1. queue \in Seq(User) /\ queue' \in Seq(User)
  BY DEF KInv, IInv, TypeOK
<1>2. CASE k \in 1 .. Len(queue)
  <2>1. queue'[k] = queue[k] /\ \A j \in 1 .. (k - 1) : queue'[j] = queue[j]
    <3>1. \A j \in 1 .. Len(queue) : queue'[j] = queue[j]
      BY <1>1
    <3>2. 1 .. (k - 1) \subseteq 1 .. Len(queue)
      BY <1>1, <1>2
    <3> QED BY <1>2, <3>1, <3>2
  <2>2. \E j \in 1 .. (k - 1) : queue[j] = v
    BY <1>2, <2>1
  <2> QED BY <2>1, <2>2
<1>3. CASE k \notin 1 .. Len(queue)
  <2>1. k = Len(queue')
    BY <1>1, <1>3
  <2>2. queue'[k] \in User
    BY <1>1
  <2>3. v \in Range(queue')
    BY <2>2 DEF KInv, Settled, Mails
  <2> QED BY <1>1, <2>1, <2>3, Positions
<1> QED BY <1>2, <1>3

\* An administrator's change, of what kind it may be.
Change(u, p) ==
  /\ Put(u, p) /\ p \in Person
  /\ p.life # "none" /\ p.data = ldap[u].data
  /\ p.life = "here" =>
       /\ ldap[u].life \in {"none", "here"}
       /\ \A v \in User \ {u} : ldap[v].life = "here" => ldap[v].mail # p.mail
  /\ p.life # "here" => p.mail = ldap[u].mail

LEMMA AdminChanges == KInv /\ Mails /\ Admin => \E u \in User, p \in Person : Change(u, p)
<1> SUFFICES ASSUME KInv, Mails, Admin PROVE \E u \in User, p \in Person : Change(u, p)
  OBVIOUS
<1>1. PICK u \in User : Add(u) \/ Switch(u) \/ Rename(u) \/ Connect(u) \/ SetExpiry(u) \/ Delete(u)
  BY DEF Admin
<1>2. ldap[u] \in Person
  BY DEF KInv, IInv, TypeOK
<1>3. \A v \in User \ {u} : ldap[u].life = "here" /\ ldap[v].life = "here" => ldap[v].mail # ldap[u].mail
  BY DEF Mails
<1>4. CASE Add(u)
  <2>1. PICK m \in Free, A \in SUBSET Tenant :
          Put(u, [Nobody EXCEPT !.life = "here", !.enabled = TRUE, !.mail = m, !.aliases = A])
    BY <1>4 DEF Add
  <2> DEFINE p == [Nobody EXCEPT !.life = "here", !.enabled = TRUE, !.mail = m, !.aliases = A]
  <2>2. p \in Person /\ p.life = "here" /\ p.data = Nobody.data /\ p.mail = m
    BY DEF Nobody, Person, NoEntry, Free
  <2>3. ldap[u].data = Nobody.data /\ ldap[u].life = "none"
    BY <1>4 DEF Add, KInv, NoIdYet
  <2>4. Put(u, p)
    BY <2>1
  <2> HIDE DEF p
  <2>5. Change(u, p)
    BY <2>2, <2>3, <2>4 DEF Change, Free
  <2> QED BY <2>2, <2>5
<1>5. CASE Switch(u)
  <2> DEFINE p == [ldap[u] EXCEPT !.enabled = ~@]
  <2>1. /\ p \in Person /\ p.life = ldap[u].life /\ p.data = ldap[u].data
        /\ p.mail = ldap[u].mail
    BY <1>2 DEF Person
  <2>2. Put(u, p) /\ ldap[u].life = "here"
    BY <1>5 DEF Switch
  <2> HIDE DEF p
  <2> QED BY <1>3, <2>1, <2>2 DEF Change
<1>6. CASE Rename(u)
  <2>1. PICK m \in Free : Put(u, [ldap[u] EXCEPT !.mail = m]) /\ ldap[u].life = "here"
    BY <1>6 DEF Rename
  <2> DEFINE p == [ldap[u] EXCEPT !.mail = m]
  <2>2. p \in Person /\ p.life = "here" /\ p.data = ldap[u].data /\ p.mail = m
    BY <1>2, <2>1 DEF Person, Free
  <2>3. Put(u, p)
    BY <2>1
  <2> HIDE DEF p
  <2>4. Change(u, p)
    BY <2>1, <2>2, <2>3 DEF Change, Free
  <2> QED BY <2>2, <2>4
<1>7. CASE Connect(u)
  <2>1. PICK A \in SUBSET Tenant : Put(u, [ldap[u] EXCEPT !.aliases = A]) /\ ldap[u].life = "here"
    BY <1>7 DEF Connect
  <2> DEFINE p == [ldap[u] EXCEPT !.aliases = A]
  <2>2. /\ p \in Person /\ p.life = ldap[u].life /\ p.data = ldap[u].data
        /\ p.mail = ldap[u].mail
    BY <1>2 DEF Person
  <2>3. Put(u, p)
    BY <2>1
  <2> HIDE DEF p
  <2> QED BY <1>3, <2>1, <2>2, <2>3 DEF Change
<1>8. CASE SetExpiry(u)
  <2> DEFINE p == [ldap[u] EXCEPT !.expires = ~@]
  <2>1. /\ p \in Person /\ p.life = ldap[u].life /\ p.data = ldap[u].data
        /\ p.mail = ldap[u].mail
    BY <1>2 DEF Person
  <2>2. Put(u, p) /\ ldap[u].life = "here"
    BY <1>8 DEF SetExpiry
  <2> HIDE DEF p
  <2> QED BY <1>3, <2>1, <2>2 DEF Change
<1>9. CASE Delete(u)
  <2> DEFINE p == [ldap[u] EXCEPT !.life = "gone"]
  <2>1. /\ p \in Person /\ p.life = "gone" /\ p.data = ldap[u].data
        /\ p.mail = ldap[u].mail
    BY <1>2 DEF Person
  <2>2. Put(u, p)
    BY <1>9 DEF Delete
  <2> HIDE DEF p
  <2> QED BY <2>1, <2>2 DEF Change
<1> QED BY <1>1, <1>4, <1>5, <1>6, <1>7, <1>8, <1>9

LEMMA AdminKeepsS == KInv /\ KInv' /\ SInv /\ Admin => SInv'
<1> SUFFICES ASSUME KInv, KInv', SInv, NEW u \in User, NEW p \in Person, Change(u, p)
             PROVE  SInv'
  BY AdminChanges DEF SInv
<1> USE DEF SInv
<1>1. /\ ldap' = [ldap EXCEPT ![u] = p]
      /\ queue' = queue \/ queue' = Append(queue, u)
      /\ raced' = (raced \/ u \in Range(queue))
      /\ UNCHANGED <<seen, azure, job, past, lapsed, failed>>
  BY DEF Change, Put, Notify
<1>2. /\ ldap'[u] = p /\ seen[u] \in Person /\ ldap[u] \in Person
      /\ \A v \in User \ {u} : ldap'[v] = ldap[v]
  BY <1>1 DEF KInv, IInv, TypeOK
<1>3. Mails'
  BY <1>2 DEF Mails, Change
<1>4. NotYet'
  BY <1>1 DEF NotYet
<1>5. ~raced' => /\ ~raced /\ u \notin Range(queue) /\ seen[u] = ldap[u]
                 /\ busy => job.user # u
  BY <1>1, HeadAndTail DEF KInv, Settled, Current
<1>6. InOrder'
  <2> SUFFICES ASSUME ~raced', InOrder PROVE InOrder'
    BY DEF InOrder
  <2>1. ASSUME NEW k \in 1 .. Len(queue), NEW v \in User,
               queue[k] # v, ldap'[queue[k]].life = "here", seen[v].life = "here",
               ldap'[queue[k]].mail \in {seen[v].mail, ldap'[v].mail}
        PROVE  \E j \in 1 .. (k - 1) : queue[j] = v
    <3>1. queue \in Seq(User)
      BY DEF KInv, IInv, TypeOK
    <3>2. queue[k] \in User /\ queue[k] # u
      BY <1>5, <3>1 DEF Range
    <3>3. ldap'[queue[k]] = ldap[queue[k]]
      BY <1>2, <3>2
    <3>4. CASE v # u
      BY <1>2, <1>5, <2>1, <3>3, <3>4 DEF InOrder
    <3>5. CASE v = u
      <4>1. ldap'[queue[k]].mail \in {seen[u].mail, ldap[u].mail}
        BY <1>2, <1>5, <2>1, <3>2, <3>5 DEF Mails, Change
      <4> QED BY <1>2, <1>5, <2>1, <3>3, <3>5, <4>1 DEF InOrder
    <3> QED BY <3>4, <3>5
  <2> QED BY <1>1, <1>3, <2>1, OrderKeeps
<1>7. OwnCall'
  BY <1>1, <1>2, <1>5, JobParts DEF OwnCall, busy, Targets, KInv
<1>8. AtRest'
  <2> SUFFICES ASSUME Calm', NEW v \in User, NEW t \in Tenant
               PROVE  HasAccount(v, t)' /\ HasNone(v, t)'
    BY DEF AtRest
  <2>1. Calm /\ HasAccount(v, t) /\ HasNone(v, t)
    BY <1>1 DEF AtRest, Calm
  <2>2. CASE v # u
    BY <1>1, <1>2, <2>1, <2>2, RestStays
  <2>3. CASE v = u
    <3>1. /\ seen[u] = ldap[u] /\ p.data = ldap[u].data
          /\ p.life = "here" /\ ldap[u].life # "here" => ldap[u].data = Nobody.data
      BY <1>5, <2>1 DEF Calm, Change, KInv, NoIdYet
    <3>2. OwnedBy(u, t)' = OwnedBy(u, t) /\ AllOff(u, t)' = AllOff(u, t)
      BY <1>1 DEF OwnedBy, AllOff, IsOff
    <3>3. \A i : Works(t, i)' = Works(t, i)
      BY <1>1 DEF Works
    <3>4. /\ Wants(seen[u], t)' = Wants(seen[u], t)
          /\ Wants(seen[u], t) = Wants(ldap[u], t)
          /\ ShouldSync(seen[u]) = ShouldSync(ldap[u])
      BY <1>1, <3>1 DEF Wants, ShouldSync
    <3>5. HasAccount(u, t)'
      BY <1>1, <1>2, <2>1, <2>3, <3>1, <3>2, <3>3, <3>4 DEF HasAccount
    <3>6. HasNone(u, t)'
      <4>1. Nobody.data[t].upn = NoName
        BY DEF Nobody, NoEntry
      <4> QED BY <1>1, <1>2, <2>1, <2>3, <3>1, <3>2, <3>4, <4>1 DEF HasNone
    <3> QED BY <2>3, <3>5, <3>6
  <2> QED BY <2>2, <2>3
<1>9. InCall'
  <2>1. ~Calm' => InCall'
    BY DEF InCall
  <2>2. ASSUME Calm' PROVE InCall'
    <3>1. Calm /\ (busy => ldap'[job.user] = ldap[job.user])
      BY <1>1, <1>2, <1>5, <2>2, JobParts DEF Calm, KInv
    <3> QED BY <1>1, <3>1, CallStays
  <2> QED BY <2>1, <2>2
<1> QED BY <1>3, <1>4, <1>6, <1>7, <1>8, <1>9

-----------------------------------------------------------------------------
(* Calls begin and end.                                                    *)

\* What is to be done follows from who is to have an account.
LEMMA WorkIs ==
  ASSUME NEW o \in Person, NEW n \in Person
  PROVE  /\ \A w \in Work(o, n) :
              /\ w[1] = "new" => /\ ShouldSync(n) /\ w[2] \in Targets(n) /\ ~Wants(o, w[2])
                                 /\ w[2] \notin n.aliases => ~ShouldSync(o)
              /\ w[1] = "edit" => Wants(o, w[2]) /\ Wants(n, w[2])
              /\ w[1] \in Off \cup {"del"} =>
                   /\ Wants(o, w[2]) /\ ~Wants(n, w[2])
                   /\ w[1] = "del" <=> n.life # "here"
         /\ \A t \in Tenant : (\A w \in Work(o, n) : w[2] # t) =>
              /\ ~Wants(o, t) /\ ~Wants(n, t)
              /\ ~(ShouldSync(n) /\ ~ShouldSync(o) /\ t \in Targets(n))
<1>1. \A op, A : \A w \in Tasks(op, A) : w[1] = op /\ w[2] \in A
  BY DEF Tasks
<1>2. \A op, A : \A t \in A : <<op, t>> \in Tasks(op, A)
  BY DEF Tasks
<1>3. n.aliases # {} => Targets(n) = n.aliases
  BY DEF Targets
<1>4. \A t : <<"new", t>>[2] = t /\ <<"out", t>>[2] = t /\ <<"edit", t>>[2] = t
             /\ <<"off", t>>[2] = t /\ <<"del", t>>[2] = t
  OBVIOUS
<1>5. CASE n.life # "here"
  <2>1. Work(o, n) = IF ShouldSync(o) THEN Tasks("del", o.aliases) ELSE {}
    BY <1>5 DEF Work
  <2>2. ~ShouldSync(n)
    BY <1>5 DEF ShouldSync
  <2>3. \A w \in Work(o, n) : w[1] = "del" /\ ShouldSync(o) /\ w[2] \in o.aliases
    BY <1>1, <2>1
  <2>4. ShouldSync(o) => \A t \in o.aliases : <<"del", t>> \in Work(o, n)
    BY <1>2, <2>1
  <2> QED BY <1>4, <1>5, <2>2, <2>3, <2>4 DEF Off, Wants
<1>6. CASE n.life = "here" /\ ShouldSync(n) /\ ShouldSync(o)
  <2>1. Work(o, n) = UNION {Tasks("new", n.aliases \ o.aliases), Tasks("out", o.aliases \ n.aliases),
                            Tasks("edit", o.aliases \cap n.aliases)}
    BY <1>6 DEF Work
  <2>2. \A w \in Work(o, n) :
          \/ w[1] = "new" /\ w[2] \in n.aliases \ o.aliases
          \/ w[1] = "out" /\ w[2] \in o.aliases \ n.aliases
          \/ w[1] = "edit" /\ w[2] \in o.aliases \cap n.aliases
    BY <1>1, <2>1
  <2>3. \A t \in n.aliases \cup o.aliases : \E w \in Work(o, n) : w[2] = t
    <3> SUFFICES ASSUME NEW t \in n.aliases \cup o.aliases
                 PROVE  \E w \in Work(o, n) : w[2] = t
      OBVIOUS
    <3>1. CASE t \in n.aliases \ o.aliases
      BY <1>2, <1>4, <2>1, <3>1
    <3>2. CASE t \in o.aliases \ n.aliases
      BY <1>2, <1>4, <2>1, <3>2
    <3>3. CASE t \in o.aliases \cap n.aliases
      BY <1>2, <1>4, <2>1, <3>3
    <3> QED BY <3>1, <3>2, <3>3
  <2> QED BY <1>3, <1>6, <2>2, <2>3 DEF Off, Wants
<1>7. CASE n.life = "here" /\ ShouldSync(n) /\ ~ShouldSync(o)
  <2>1. Work(o, n) = Tasks("new", Targets(n))
    BY <1>7 DEF Work
  <2>2. \A w \in Work(o, n) : w[1] = "new" /\ w[2] \in Targets(n)
    BY <1>1, <2>1
  <2>3. \A t \in Targets(n) : <<"new", t>> \in Work(o, n)
    BY <1>2, <2>1
  <2> QED BY <1>3, <1>4, <1>7, <2>2, <2>3 DEF Off, Wants
<1>8. CASE n.life = "here" /\ ~ShouldSync(n)
  <2>1. Work(o, n) = IF ShouldSync(o) THEN Tasks("off", o.aliases) ELSE {}
    BY <1>8 DEF Work
  <2>2. \A w \in Work(o, n) : w[1] = "off" /\ ShouldSync(o) /\ w[2] \in o.aliases
    BY <1>1, <2>1
  <2>3. ShouldSync(o) => \A t \in o.aliases : <<"off", t>> \in Work(o, n)
    BY <1>2, <2>1
  <2> QED BY <1>4, <1>8, <2>2, <2>3 DEF Off, Wants
<1> QED BY <1>5, <1>6, <1>7, <1>8

LEMMA StartKeepsS == KInv /\ KInv' /\ SInv /\ Start => SInv'
<1> SUFFICES ASSUME KInv, KInv', SInv, Start PROVE SInv'
  OBVIOUS
<1> USE DEF SInv
<1>1. PICK u \in User : u = queue[1] /\ ldap[u] \in Person /\ seen[u] \in Person
  <2>1. queue \in Seq(User) /\ queue # <<>>
    BY DEF Start, KInv, IInv, TypeOK
  <2>2. queue[1] \in User
    BY <2>1
  <2> QED BY <2>2 DEF KInv, IInv, TypeOK
<1>2. /\ job'.pc = "pick" /\ job'.user = u /\ job'.old = seen[u] /\ job'.new = ldap[u]
      /\ job'.todo = Work(seen[u], ldap[u])
      /\ UNCHANGED <<ldap, seen, queue, past, azure, lapsed, failed, raced>>
  BY <1>1 DEF Start, directory, history
<1>3. Mails' /\ InOrder' /\ NotYet' /\ OwnCall'
  BY <1>2 DEF Mails, InOrder, NotYet, OwnCall, Targets
<1>4. \A v \in User, t \in Tenant :
        /\ OwnedBy(v, t)' = OwnedBy(v, t) /\ AllOff(v, t)' = AllOff(v, t)
        /\ \A i : Works(t, i)' = Works(t, i)
  BY <1>2 DEF OwnedBy, AllOff, IsOff, Works
<1>5. AtRest'
  <2> SUFFICES ASSUME Calm', NEW v \in User, NEW t \in Tenant
               PROVE  HasAccount(v, t)' /\ HasNone(v, t)'
    BY DEF AtRest
  <2> QED BY <1>2, RestStays DEF AtRest, Calm
<1>6. InCall'
  <2> SUFFICES ASSUME Calm PROVE InCall'
    BY <1>2 DEF InCall, Calm
  <2>1. \A t \in Tenant : HasAccount(u, t) /\ HasNone(u, t)
    BY <1>1 DEF AtRest
  <2>2. \A p \in {seen[u], ldap[u]} : ShouldSync(p)' = ShouldSync(p)
    BY <1>2 DEF ShouldSync
  <2>3. \A p \in {seen[u], ldap[u]}, t \in Tenant : Wants(p, t)' = Wants(p, t)
    BY <2>2 DEF Wants
  <2>4. Targets(ldap[u])' = Targets(ldap[u])
    BY <1>2 DEF Targets
  <2>5. ASSUME NEW w \in Work(seen[u], ldap[u]) PROVE Ready(w[1], w[2])'
    <3> DEFINE t == w[2]
    <3>1. t \in Tenant /\ w[1] \in Op
      BY <1>1, WorkType
    <3>2. HasAccount(u, t) /\ HasNone(u, t)
      BY <2>1, <3>1
    <3> HIDE DEF t
    <3>3. w[1] = "new" => ReadyNew(t)'
      <4>1. w[1] = "new" => /\ ShouldSync(ldap[u]) /\ t \in Targets(ldap[u]) /\ ~Wants(seen[u], t)
                            /\ t \notin ldap[u].aliases => ~ShouldSync(seen[u])
        BY <1>1, WorkIs DEF t
      <4>2. ShouldSync(ldap[u]) => ldap[u].life = "here"
        BY DEF ShouldSync
      <4>3. w[1] = "new" /\ u \notin lapsed /\ t \notin ldap[u].aliases => ldap[u].data[t].upn = NoName
        BY <3>2, <4>1, <4>2 DEF HasNone, Wants
      <4> QED BY <1>2, <2>2, <2>3, <2>4, <3>1, <4>1, <4>2, <4>3 DEF ReadyNew
    <3>4. w[1] = "edit" => ReadyEdit(t)'
      <4>1. w[1] = "edit" => Wants(seen[u], t) /\ Wants(ldap[u], t)
        BY <1>1, WorkIs DEF t
      <4>2. Untouched(seen[u], ldap[u]) => seen[u].mail = ldap[u].mail
        BY DEF Untouched
      <4> QED BY <1>1, <1>2, <1>4, <2>3, <3>1, <3>2, <4>1, <4>2 DEF HasAccount, ReadyEdit
    <3>5. w[1] \in Off \cup {"del"} => ReadyOff(w[1], t)'
      <4>1. w[1] \in Off \cup {"del"} => /\ Wants(seen[u], t) /\ ~Wants(ldap[u], t)
                                         /\ w[1] = "del" <=> ldap[u].life # "here"
        BY <1>1, WorkIs DEF t
      <4>2. w[1] \in Off \cup {"del"} => /\ OwnedBy(u, t) = {seen[u].data[t].id}
                                         /\ seen[u].data[t].id \in DOMAIN azure[t]
        BY <3>2, <4>1 DEF HasAccount
      <4>3. DOMAIN azure[t] = 1 .. Len(azure[t])
        BY <3>1 DEF KInv, IInv, TypeOK
      <4>4. w[1] \in Off \cup {"del"} => seen[u].data[t].id # 0
        BY <4>2, <4>3
      <4> QED BY <1>1, <1>2, <1>4, <2>3, <3>1, <4>1, <4>2, <4>4 DEF ReadyOff, Leaves
    <3> QED BY <3>3, <3>4, <3>5 DEF Ready, t
  <2>6. ASSUME NEW t \in Tenant, \A w \in Work(seen[u], ldap[u]) : w[2] # t
        PROVE  Done(t)'
    <3>1. ~Wants(seen[u], t) /\ ~Wants(ldap[u], t)
          /\ ~(ShouldSync(ldap[u]) /\ ~ShouldSync(seen[u]) /\ t \in Targets(ldap[u]))
      BY <1>1, <2>6, WorkIs
    <3> QED BY <1>1, <1>2, <1>4, <2>1, <2>3, <3>1 DEF HasNone, Done
  <2> QED BY <1>2, <2>5, <2>6 DEF InCall
<1> QED BY <1>3, <1>5, <1>6

LEMMA ReturnKeepsS ==
  ASSUME KInv, SInv, busy, Return, Calm' => Calm /\ \A t \in Tenant : Done(t)
  PROVE  SInv'
<1> USE DEF SInv
<1>1. /\ seen' = [seen EXCEPT ![job.user] = job.new]
      /\ queue' = Tail(queue)
      /\ ~busy'
      /\ UNCHANGED <<ldap, azure, past, lapsed, raced>>
  BY DEF Return, busy
<1>2. /\ job.user \in User /\ seen \in [User -> Person] /\ queue \in Seq(User)
      /\ queue # <<>> /\ queue[1] = job.user /\ ldap[job.user] \in Person
  BY JobParts DEF KInv, IInv, TypeOK, Handling, Current
<1>3. /\ seen'[job.user] = job.new
      /\ \A v \in User \ {job.user} : seen'[v] = seen[v]
  BY <1>1, <1>2
<1>4. Mails' /\ NotYet' /\ OwnCall' /\ InCall'
  BY <1>1 DEF Mails, NotYet, OwnCall, InCall
<1>5. InOrder'
  <2> SUFFICES ASSUME ~raced, NEW k \in 1 .. Len(queue'), NEW v \in User,
                      queue'[k] # v, ldap[queue'[k]].life = "here", seen'[v].life = "here",
                      ldap[queue'[k]].mail \in {seen'[v].mail, ldap[v].mail}
               PROVE  \E j \in 1 .. (k - 1) : queue'[j] = v
    BY <1>1 DEF InOrder
  <2>1. /\ k + 1 \in 1 .. Len(queue) /\ queue'[k] = queue[k + 1] /\ queue[k + 1] \in User
        /\ k \in 1 .. (Len(queue) - 1) /\ Len(queue) \in Nat
        /\ \A j \in 1 .. (Len(queue) - 1) : queue'[j] = queue[j + 1]
    BY <1>1, <1>2
  <2>2. CASE v = job.user
    <3>1. job.new.mail = ldap[v].mail /\ ldap[v].life = "here"
      BY <1>3, <2>2 DEF OwnCall, KInv, Current, OwnWrites
    <3> QED BY <1>3, <2>1, <2>2, <3>1 DEF Mails
  <2>3. CASE v # job.user
    <3>1. PICK j \in 1 .. k : queue[j] = v
      BY <1>3, <2>1, <2>3 DEF InOrder
    <3>2. j - 1 \in 1 .. (k - 1)
      BY <1>2, <2>1, <2>3, <3>1
    <3>3. queue'[j - 1] = v
      BY <2>1, <3>1, <3>2
    <3> QED BY <3>2, <3>3
  <2> QED BY <2>2, <2>3
<1>6. AtRest'
  <2> SUFFICES ASSUME Calm', NEW v \in User, NEW t \in Tenant
               PROVE  HasAccount(v, t)' /\ HasNone(v, t)'
    BY DEF AtRest
  <2>1. Calm /\ ~raced /\ Done(t) /\ HasAccount(v, t) /\ HasNone(v, t)
    BY DEF AtRest, Calm
  <2>2. CASE v # job.user
    BY <1>1, <1>3, <2>1, <2>2, RestStays
  <2>3. CASE v = job.user
    <3>1. Untouched(job.new, ldap[v])
      BY <2>1, <2>3 DEF Untouched, KInv, Current, OwnCall
    <3>2. /\ OwnedBy(v, t)' = OwnedBy(v, t) /\ AllOff(v, t)' = AllOff(v, t)
          /\ \A i : Works(t, i)' = Works(t, i)
      BY <1>1 DEF OwnedBy, AllOff, IsOff, Works
    <3>3. /\ Wants(seen[v], t)' = Wants(job.new, t)
          /\ Wants(ldap[v], t)' = Wants(ldap[v], t)
          /\ Wants(job.new, t) => Wants(ldap[v], t)
      BY <1>1, <1>3, <2>3, <3>1 DEF Wants, ShouldSync, Untouched, OwnWrites
    <3>4. Untouched(seen[v], ldap[v])'
      BY <1>1, <1>3, <2>3, <3>1 DEF Untouched, OwnWrites
    <3>5. HasAccount(v, t)'
      <4> SUFFICES ASSUME Wants(job.new, t) PROVE HasAccount(v, t)'
        BY <3>3 DEF HasAccount
      <4>1. PICK i \in DOMAIN azure[t] :
              /\ OwnedBy(v, t) = {i} /\ Works(t, i)
              /\ azure[t][i].upn = job.new.mail
              /\ ldap[v].data[t].id = i /\ ldap[v].data[t].upn # NoName
        BY <2>1, <2>3 DEF Done
      <4>2. job.new.mail = ldap[v].mail /\ job.new.mail # Renamed
        BY <3>1, JobParts, NamesAssumption DEF KInv, Untouched
      <4> QED BY <1>1, <1>3, <2>3, <3>2, <3>3, <3>4, <4>1, <4>2 DEF HasAccount
    <3>6. HasNone(v, t)'
      BY <1>1, <1>3, <2>1, <2>3, <3>2, <3>3 DEF HasNone, Done
    <3> QED BY <3>5, <3>6
  <2> QED BY <2>2, <2>3
<1> QED BY <1>4, <1>5, <1>6

LEMMA CrashKeepsS == KInv /\ SInv /\ Crash => SInv'
<1> SUFFICES ASSUME KInv, SInv, Crash PROVE SInv'
  OBVIOUS
<1> USE DEF SInv
<1>1. UNCHANGED <<ldap, seen, queue, past, azure, lapsed, failed, raced>> /\ ~busy'
  BY DEF Crash, directory, busy
<1>2. Mails' /\ InOrder' /\ NotYet' /\ OwnCall' /\ InCall'
  BY <1>1 DEF Mails, InOrder, NotYet, OwnCall, InCall
<1>3. AtRest'
  BY <1>1, RestStays DEF AtRest, Calm
<1> QED BY <1>2, <1>3

-----------------------------------------------------------------------------
(* What a step of a call does not touch.                                   *)

\* An operation changes nothing of those for other connections.
LEMMA ElsewhereStays ==
  ASSUME NEW t \in Tenant, azure'[t] = azure[t], UNCHANGED <<past, lapsed>>,
         job'.user = job.user, job'.old = job.old, job'.new = job.new,
         ldap'[job.user].data[t] = ldap[job.user].data[t],
         ldap'[job.user].life = ldap[job.user].life,
         Wants(ldap[job.user], t)' = Wants(ldap[job.user], t)
  PROVE  Done(t)' = Done(t) /\ \A op \in Op : Ready(op, t)' = Ready(op, t)
<1>1. OwnedBy(job.user, t)' = OwnedBy(job.user, t) /\ AllOff(job.user, t)' = AllOff(job.user, t)
  BY DEF OwnedBy, AllOff, IsOff
<1>2. \A i : Works(t, i)' = Works(t, i)
  BY DEF Works
<1>3. /\ Wants(job.new, t)' = Wants(job.new, t) /\ Wants(job.old, t)' = Wants(job.old, t)
      /\ ShouldSync(job.new)' = ShouldSync(job.new)
      /\ ShouldSync(job.old)' = ShouldSync(job.old)
      /\ Targets(job.new)' = Targets(job.new)
  BY DEF Wants, ShouldSync, Targets
<1>4. Done(t)' = Done(t)
  BY <1>1, <1>2, <1>3 DEF Done
<1>5. ReadyNew(t)' = ReadyNew(t) /\ ReadyEdit(t)' = ReadyEdit(t)
  BY <1>1, <1>2, <1>3 DEF ReadyNew, ReadyEdit
<1>6. \A op \in Op : ReadyOff(op, t)' = ReadyOff(op, t)
  BY <1>1, <1>3 DEF ReadyOff, Leaves
<1> QED BY <1>4, <1>5, <1>6 DEF Ready

\* Users keep their accounts where these stay, except that one who is not to
\* have any may lose some.
LEMMA OthersRest ==
  ASSUME NEW v \in User, NEW t \in Tenant, HasAccount(v, t), HasNone(v, t),
         UNCHANGED <<ldap, seen, past, lapsed>>,
         Wants(seen[v], t) => OwnedBy(v, t)' = OwnedBy(v, t),
         \A j \in OwnedBy(v, t)' : j \in OwnedBy(v, t) /\ azure'[t][j] = azure[t][j]
  PROVE  HasAccount(v, t)' /\ HasNone(v, t)'
<1>1. /\ Wants(ldap[v], t)' = Wants(ldap[v], t) /\ Wants(seen[v], t)' = Wants(seen[v], t)
      /\ ShouldSync(ldap[v])' = ShouldSync(ldap[v])
      /\ ShouldSync(seen[v])' = ShouldSync(seen[v])
      /\ Untouched(seen[v], ldap[v])' = Untouched(seen[v], ldap[v])
      /\ Targets(ldap[v])' = Targets(ldap[v])
  BY DEF Wants, ShouldSync, Untouched, OwnWrites, Targets
<1>2. \A j \in OwnedBy(v, t)' : j \in DOMAIN azure'[t] /\ Works(t, j)' = Works(t, j)
                                /\ IsOff(t, j)' = IsOff(t, j)
  BY DEF OwnedBy, Works, IsOff
<1>3. HasAccount(v, t)'
  <2> SUFFICES ASSUME Wants(seen[v], t) PROVE HasAccount(v, t)'
    BY <1>1 DEF HasAccount
  <2>1. PICK i \in DOMAIN azure[t] :
          /\ OwnedBy(v, t) = {i}
          /\ azure[t][i].upn \in {seen[v].mail, ldap[v].mail, Renamed}
          /\ Wants(ldap[v], t) =>
               /\ Works(t, i) /\ azure[t][i].upn # Renamed
               /\ ldap[v].data[t].id = i /\ ldap[v].data[t].upn # NoName
               /\ seen[v].data[t].id = i \/ Untouched(seen[v], ldap[v])
          /\ ~Wants(ldap[v], t) => seen[v].data[t].id = i
    BY DEF HasAccount
  <2>2. /\ i \in OwnedBy(v, t)' /\ OwnedBy(v, t)' = {i}
        /\ azure'[t][i] = azure[t][i] /\ i \in DOMAIN azure'[t] /\ Works(t, i)' = Works(t, i)
    BY <1>2, <2>1
  <2> QED BY <1>1, <2>1, <2>2 DEF HasAccount
<1>4. AllOff(v, t) => AllOff(v, t)'
  BY <1>2 DEF AllOff
<1>5. HasNone(v, t)'
  BY <1>1, <1>4 DEF HasNone
<1> QED BY <1>3, <1>5

\* A step of an operation, or its end.
LEMMA CallKeepsS ==
  ASSUME KInv, SInv, busy, busy', job.pc # "pick",
         UNCHANGED <<ldap, seen, queue, past, lapsed, raced>>,
         job'.user = job.user, job'.old = job.old, job'.new = job.new,
         job'.at = job.at, job'.todo = job.todo,
         \A s \in Tenant \ {job.at} : azure'[s] = azure[s],
         Calm' =>
           /\ Calm
           /\ \A v \in User : HasAccount(v, job.at)' /\ HasNone(v, job.at)'
           /\ job'.pc # "pick" => Mid'
           /\ job'.pc = "pick" => Done(job.at)'
  PROVE  SInv'
<1> USE DEF SInv
<1>1. Mails' /\ InOrder' /\ NotYet' /\ OwnCall'
  BY DEF Mails, InOrder, NotYet, OwnCall, Targets, Calm
<1>2. AtRest'
  <2> SUFFICES ASSUME Calm', NEW v \in User, NEW t \in Tenant
               PROVE  HasAccount(v, t)' /\ HasNone(v, t)'
    BY DEF AtRest
  <2>1. CASE t = job.at
    BY <2>1
  <2>2. CASE t # job.at
    BY <2>2, RestStays DEF AtRest
  <2> QED BY <2>1, <2>2
<1>3. InCall'
  <2> SUFFICES ASSUME Calm' PROVE InCall'
    BY DEF InCall
  <2>1. /\ job.todo \subseteq Op \X Tenant /\ job.at \in Tenant
        /\ \A w \in job.todo : w[2] # job.at
    BY JobParts DEF KInv, Operation
  <2>2. \A t \in Tenant \ {job.at} : Done(t)' = Done(t) /\ \A op \in Op : Ready(op, t)' = Ready(op, t)
    <3> SUFFICES ASSUME NEW t \in Tenant \ {job.at}
                 PROVE  Done(t)' = Done(t) /\ \A op \in Op : Ready(op, t)' = Ready(op, t)
      OBVIOUS
    <3>1. Wants(ldap[job.user], t)' = Wants(ldap[job.user], t)
      BY DEF Wants, ShouldSync
    <3> QED BY <3>1, ElsewhereStays
  <2>3. \A w \in job.todo : Ready(w[1], w[2])'
    <3> SUFFICES ASSUME NEW w \in job.todo PROVE Ready(w[1], w[2])'
      OBVIOUS
    <3>1. w[1] \in Op /\ w[2] \in Tenant \ {job.at}
      BY <2>1
    <3> QED BY <2>2, <3>1 DEF InCall
  <2>4. ASSUME NEW t \in Tenant, \A w \in job.todo : w[2] # t, job'.pc = "pick" \/ job.at # t
        PROVE  Done(t)'
    <3>1. CASE t = job.at
      BY <2>4, <3>1
    <3>2. CASE t # job.at
      BY <2>2, <2>4, <3>2 DEF InCall
    <3> QED BY <3>1, <3>2
  <2> QED BY <2>3, <2>4 DEF InCall
<1> QED BY <1>1, <1>2, <1>3

\* A change of one account of the call's connection.
LEMMA OneAccount ==
  ASSUME KInv, busy, NEW i \in 1 .. Len(azure[job.at]), NEW acc \in AccountRecord,
         SetAccount(i, acc)
  PROVE  /\ \A s \in Tenant \ {job.at} : azure'[s] = azure[s]
         /\ DOMAIN azure'[job.at] = DOMAIN azure[job.at]
         /\ DOMAIN azure[job.at] = 1 .. Len(azure[job.at])
         /\ azure'[job.at][i] = acc
         /\ \A j \in DOMAIN azure[job.at] \ {i} : azure'[job.at][j] = azure[job.at][j]
<1>1. azure \in [Tenant -> Seq(AccountRecord)] /\ job.at \in Tenant
  BY JobParts DEF KInv
<1>2. azure' = [azure EXCEPT ![job.at] = [azure[job.at] EXCEPT ![i] = acc]]
  BY <1>1 DEF SetAccount
<1> QED BY <1>1, <1>2


\* A change of the user's own account concerns no one else.
LEMMA OwnStep ==
  ASSUME KInv, SInv, busy, Calm, UNCHANGED <<ldap, seen, past, lapsed>>,
         NEW u \in User, u = job.user, NEW t \in Tenant, t = job.at,
         NEW i \in 1 .. Len(azure[t]), NEW acc \in AccountRecord,
         SetAccount(i, acc), OwnedBy(u, t) = {i}, acc.owner = u
  PROVE  /\ OwnedBy(u, t)' = {i} /\ i \in DOMAIN azure'[t] /\ azure'[t][i] = acc
         /\ \A v \in User \ {u} : HasAccount(v, t)' /\ HasNone(v, t)'
<1>1. /\ DOMAIN azure'[t] = DOMAIN azure[t] /\ i \in DOMAIN azure[t]
      /\ azure'[t][i] = acc
      /\ \A j \in DOMAIN azure[t] \ {i} : azure'[t][j] = azure[t][j]
  BY OneAccount
<1>2. azure[t][i].owner = u
  BY DEF OwnedBy
<1>3. \A v \in User : OwnedBy(v, t)' = OwnedBy(v, t)
  BY <1>1, <1>2 DEF OwnedBy
<1>4. ASSUME NEW v \in User \ {u} PROVE HasAccount(v, t)' /\ HasNone(v, t)'
  <2>1. \A j \in OwnedBy(v, t) : azure'[t][j] = azure[t][j]
    BY <1>1, <1>2 DEF OwnedBy
  <2>2. HasAccount(v, t) /\ HasNone(v, t)
    BY DEF SInv, AtRest
  <2> QED BY <1>3, <2>1, <2>2, OthersRest
<1> QED BY <1>1, <1>3, <1>4

\* An administrator cannot have changed the user of a call.
LEMMA OwnUser ==
  ASSUME KInv, SInv, busy, Calm
  PROVE  /\ seen[job.user] = job.old /\ queue[1] = job.user
         /\ ldap[job.user].life = job.new.life /\ ldap[job.user].mail = job.new.mail
         /\ job.new.aliases \subseteq ldap[job.user].aliases
         /\ ldap[job.user].aliases \in {job.new.aliases, Targets(job.new)}
         /\ ShouldSync(ldap[job.user]) = ShouldSync(job.new)
         /\ \A t \in Tenant : Wants(job.new, t) => Wants(ldap[job.user], t)
         /\ job.data = ldap[job.user].data
BY DEF KInv, Current, OwnWrites, SInv, OwnCall, ShouldSync, Wants, Calm

\* While the user's account is being made nothing is asked of it.
LEMMA NewRests ==
  ASSUME KInv, SInv, busy, Calm, UNCHANGED <<ldap, seen, past, lapsed>>,
         NEW u \in User, u = job.user, NEW t \in Tenant, ReadyNew(t)
  PROVE  HasAccount(u, t)' /\ HasNone(u, t)'
<1>1. /\ ~Wants(seen[u], t) /\ t \in Targets(job.new)
      /\ u \notin lapsed =>
           /\ ShouldSync(job.new)
           /\ t \notin job.new.aliases => ~ShouldSync(seen[u]) /\ ldap[u].data[t].upn = NoName
  BY OwnUser DEF ReadyNew, Calm
<1>2. ~Wants(seen[u], t)' /\ Wants(ldap[u], t)' = Wants(ldap[u], t)
      /\ ShouldSync(seen[u])' = ShouldSync(seen[u]) /\ ShouldSync(ldap[u])' = ShouldSync(ldap[u])
      /\ Targets(ldap[u])' = Targets(ldap[u])
  BY <1>1 DEF Wants, ShouldSync, Targets
<1>3. ASSUME u \notin lapsed, ~Wants(ldap[u], t)
      PROVE  /\ ldap[u].data[t].upn = NoName
             /\ ShouldSync(ldap[u]) /\ ~ShouldSync(seen[u]) /\ t \in Targets(ldap[u])
  <2>1. ShouldSync(ldap[u]) /\ t \notin ldap[u].aliases
    BY <1>1, <1>3, OwnUser DEF Calm, Wants
  <2>2. t \notin job.new.aliases
    BY <2>1, OwnUser DEF Calm
  <2>3. job.new.aliases = {} /\ Targets(job.new) = {Default} \cap Tenant
    BY <1>1, <2>2 DEF Targets
  <2>4. ldap[u].aliases = {}
    BY <1>1, <2>1, <2>3, OwnUser DEF Calm
  <2> QED BY <1>1, <1>3, <2>1, <2>2, <2>3, <2>4 DEF Targets
<1> QED BY <1>2, <1>3 DEF HasAccount, HasNone

\* While the account is being put out of work it is the one the listener knows.
LEMMA OffRests ==
  ASSUME KInv, SInv, busy, Calm, UNCHANGED <<ldap, seen, past, lapsed>>,
         NEW u \in User, u = job.user, NEW t \in Tenant, NEW op, Leaves(op, t),
         NEW i \in DOMAIN azure'[t], OwnedBy(u, t)' = {i}, OwnedBy(u, t) = {i},
         i = job.old.data[t].id,
         azure'[t][i].upn \in {Renamed, azure[t][i].upn}
  PROVE  HasAccount(u, t)' /\ HasNone(u, t)'
<1>1. /\ Wants(seen[u], t)' = Wants(seen[u], t) /\ ~Wants(ldap[u], t)'
      /\ u \notin lapsed => Wants(seen[u], t)
  BY OwnUser DEF Leaves, Calm, Wants, ShouldSync
<1>2. Wants(seen[u], t) => azure[t][i].upn \in {seen[u].mail, ldap[u].mail, Renamed}
  BY DEF SInv, AtRest, HasAccount
<1>3. seen[u].data[t].id = i
  BY OwnUser DEF Calm
<1> QED BY <1>1, <1>2, <1>3 DEF HasAccount, HasNone

\* An account that passes to another user with its name is not one its
\* owner, as the listener knows it, is to have.
LEMMA Passes ==
  ASSUME KInv, SInv, busy, Calm, job.new.life = "here",
         NEW t \in Tenant, t = job.at,
         NEW i \in DOMAIN azure[t], azure[t][i].upn = job.new.mail,
         NEW v \in User, v # job.user, azure[t][i].owner = v
  PROVE  ~Wants(seen[v], t)
<1> SUFFICES ASSUME Wants(seen[v], t) PROVE FALSE
  OBVIOUS
<1>1. azure[t][i].upn \in {seen[v].mail, ldap[v].mail, Renamed}
  <2>1. i \in OwnedBy(v, t)
    BY DEF OwnedBy
  <2> QED BY <2>1 DEF SInv, AtRest, HasAccount
<1>2. job.new.mail \in {seen[v].mail, ldap[v].mail}
  BY <1>1, JobParts, NamesAssumption DEF KInv
<1>3. /\ queue[1] = job.user /\ ldap[job.user].life = "here" /\ ldap[job.user].mail = job.new.mail
      /\ seen[v].life = "here"
  BY OwnUser DEF Calm, Wants, ShouldSync
<1>4. 1 \in 1 .. Len(queue)
  <2>1. queue \in Seq(User) /\ queue # <<>>
    BY DEF KInv, IInv, TypeOK, Handling
  <2> QED BY <2>1
<1>5. \E j \in 1 .. (1 - 1) : queue[j] = v
  BY <1>2, <1>3, <1>4 DEF SInv, InOrder, Calm
<1> QED BY <1>5

\* The parts of the job a step leaves as they are.
LEMMA SameJob ==
  ASSUME KInv, busy, NEW x \in PC, NEW i \in Nat, job' = [job EXCEPT !.pc = x, !.id = i]
  PROVE  /\ job'.pc = x /\ job'.id = i /\ job'.op = job.op /\ job'.at = job.at
         /\ job'.todo = job.todo /\ job'.user = job.user
         /\ job'.old = job.old /\ job'.new = job.new /\ busy'
<1>1. job \in Job
  BY JobParts DEF KInv
<1>2. job'.pc = x /\ job'.pc # "idle"
  BY <1>1 DEF Job, PC
<1>3. busy'
  BY <1>2 DEF busy, Idle
<1> QED BY <1>1, <1>3 DEF Job

LEMMA PickKeepsS == KInv /\ SInv /\ busy /\ Pick => SInv'
<1> SUFFICES ASSUME KInv, SInv, busy, Pick PROVE SInv'
  OBVIOUS
<1> USE DEF SInv
<1>1. PICK w \in job.todo :
        job' = [job EXCEPT !.pc = FirstStep(w[1]), !.todo = @ \ {w}, !.op = w[1], !.at = w[2],
                           !.id = IF w[1] = "new" THEN 0 ELSE job.old.data[w[2]].id]
  BY DEF Pick
<1>2. job \in Job /\ w[1] \in Op /\ w[2] \in Tenant /\ job.todo \subseteq Op \X Tenant
  BY JobParts DEF KInv
<1>3. /\ job'.pc = FirstStep(w[1]) /\ job'.todo = job.todo \ {w}
      /\ job'.op = w[1] /\ job'.at = w[2]
      /\ job'.user = job.user /\ job'.old = job.old /\ job'.new = job.new
      /\ w[1] # "new" => job'.id = job.old.data[w[2]].id
  BY <1>1, <1>2 DEF Job
<1>4. UNCHANGED <<ldap, seen, queue, past, azure, lapsed, failed, raced>> /\ job.pc = "pick"
  BY DEF Pick, directory, history
<1>5. busy'
  BY <1>3 DEF busy, Idle, FirstStep
<1>6. Mails' /\ InOrder' /\ NotYet' /\ OwnCall'
  BY <1>3, <1>4 DEF Mails, InOrder, NotYet, OwnCall, Targets
<1>7. AtRest'
  <2> SUFFICES ASSUME Calm, NEW v \in User, NEW t \in Tenant
               PROVE  HasAccount(v, t)' /\ HasNone(v, t)'
    BY <1>4 DEF AtRest, Calm
  <2> QED BY <1>4, RestStays DEF AtRest
<1>8. InCall'
  <2> SUFFICES ASSUME Calm PROVE InCall'
    BY <1>4 DEF InCall, Calm
  <2>1. \A t \in Tenant : Done(t)' = Done(t) /\ \A op \in Op : Ready(op, t)' = Ready(op, t)
    <3> SUFFICES ASSUME NEW t \in Tenant
                 PROVE  Done(t)' = Done(t) /\ \A op \in Op : Ready(op, t)' = Ready(op, t)
      OBVIOUS
    <3>1. Wants(ldap[job.user], t)' = Wants(ldap[job.user], t)
      BY <1>3, <1>4 DEF Wants, ShouldSync
    <3> QED BY <1>3, <1>4, <3>1, ElsewhereStays
  <2>2. \A v \in job.todo : Ready(v[1], v[2])'
    <3> SUFFICES ASSUME NEW v \in job.todo PROVE Ready(v[1], v[2])'
      OBVIOUS
    <3>1. v[1] \in Op /\ v[2] \in Tenant
      BY <1>2
    <3> QED BY <2>1, <3>1 DEF InCall
  <2>3. Mid'
    <3>1. w[1] = "new" => MidNew'
      <4>1. w[1] = "new" => ReadyNew(w[2])'
        BY <2>2 DEF Ready
      <4> QED BY <1>3, <4>1 DEF MidNew, FirstStep
    <3>2. w[1] = "edit" => ReadyEdit(w[2])'
      BY <2>2 DEF Ready
    <3>3. w[1] \in Off \cup {"del"} => MidOff'
      <4>1. w[1] \in Off \cup {"del"} => ReadyOff(w[1], w[2])'
        BY <2>2 DEF Ready
      <4>2. w[1] \in Off \cup {"del"} => job'.pc = "disable" /\ w[1] # "new"
        BY <1>3 DEF FirstStep, Off
      <4> QED BY <1>3, <4>1, <4>2 DEF ReadyOff, MidOff
    <3> QED BY <1>3, <3>1, <3>2, <3>3 DEF Mid
  <2>4. ASSUME NEW t \in Tenant, \A v \in job'.todo : v[2] # t, job'.pc = "pick" \/ job'.at # t
        PROVE  Done(t)'
    <3>1. t # w[2]
      BY <1>3, <2>4 DEF FirstStep
    <3>2. \A v \in job.todo : v[2] # t
      BY <1>3, <2>4, <3>1
    <3> QED BY <1>4, <2>1, <3>2 DEF InCall
  <2> QED BY <1>3, <2>2, <2>3, <2>4 DEF InCall
<1> QED BY <1>6, <1>7, <1>8

-----------------------------------------------------------------------------
(* The operations.                                                         *)

\* Whatever an operation does, it is in the middle of it.
LEMMA Begun ==
  ASSUME KInv, SInv, busy, Calm, job.pc # "pick"
  PROVE  /\ job.pc \in NewPC => job.op = "new"
         /\ job.op = "new" => MidNew
         /\ job.op = "edit" => ReadyEdit(job.at)
         /\ job.op \in Off \cup {"del"} => MidOff
BY DEF SInv, InCall, Mid, KInv, Operation

LEMMA CreateKeepsS == KInv /\ KInv' /\ SInv /\ busy /\ CreateAccount => SInv'
<1> SUFFICES ASSUME KInv, KInv', SInv, busy, CreateAccount PROVE SInv'
  OBVIOUS
<1>1. PICK u \in User, t \in Tenant : u = job.user /\ t = job.at
  BY JobParts DEF KInv
<1> DEFINE acc == [owner |-> u, upn |-> job.new.mail, enabled |-> TRUE,
                   member |-> FALSE, licensed |-> FALSE]
           n == Len(azure[t]) + 1
<1>2. /\ azure' = [azure EXCEPT ![t] = Append(@, acc)]
      /\ job' = [job EXCEPT !.pc = "licence", !.id = n] /\ job.pc = "post"
      /\ OwnedBy(u, t) = {}
      /\ UNCHANGED <<ldap, seen, queue, past, lapsed, failed, raced>>
  BY <1>1 DEF CreateAccount, directory, history, Owned, OwnedBy, Account
<1>3. acc.owner = u /\ acc.upn = job.new.mail /\ acc.enabled
  OBVIOUS
<1> HIDE DEF acc
<1>4. /\ \A s \in Tenant \ {t} : azure'[s] = azure[s]
      /\ DOMAIN azure'[t] = DOMAIN azure[t] \cup {n} /\ n \notin DOMAIN azure[t]
      /\ azure'[t][n] = acc /\ n \in Nat
      /\ \A j \in DOMAIN azure[t] : azure'[t][j] = azure[t][j]
  <2>1. azure[t] \in Seq(AccountRecord) /\ azure \in [Tenant -> Seq(AccountRecord)]
    BY <1>1, JobParts DEF KInv
  <2>2. azure'[t] = Append(azure[t], acc) /\ \A s \in Tenant \ {t} : azure'[s] = azure[s]
    BY <1>2, <2>1
  <2>3. /\ DOMAIN azure[t] = 1 .. Len(azure[t]) /\ Len(azure[t]) \in Nat
        /\ DOMAIN azure'[t] = 1 .. (Len(azure[t]) + 1)
        /\ azure'[t][Len(azure[t]) + 1] = acc
        /\ \A j \in 1 .. Len(azure[t]) : azure'[t][j] = azure[t][j]
    BY <2>1, <2>2
  <2> QED BY <2>2, <2>3
<1> HIDE DEF n
<1>5. /\ job'.pc = "licence" /\ job'.id = n /\ job'.op = job.op /\ job'.at = t
      /\ job'.todo = job.todo /\ job'.user = u
      /\ job'.old = job.old /\ job'.new = job.new /\ busy'
  BY <1>1, <1>2, <1>4, SameJob DEF PC
<1>6. /\ OwnedBy(u, t)' = {n}
      /\ \A v \in User \ {u} : OwnedBy(v, t)' = OwnedBy(v, t)
  BY <1>2, <1>3, <1>4 DEF OwnedBy
<1>7. ASSUME Calm
      PROVE  /\ \A v \in User : HasAccount(v, t)' /\ HasNone(v, t)'
             /\ Mid'
  <2>1. job.op = "new" /\ ReadyNew(t)
    BY <1>1, <1>2, <1>7, Begun DEF NewPC, MidNew
  <2>2. HasAccount(u, t)' /\ HasNone(u, t)'
    BY <1>1, <1>2, <1>7, <2>1, NewRests
  <2>3. ASSUME NEW v \in User \ {u} PROVE HasAccount(v, t)' /\ HasNone(v, t)'
    <3>1. \A j \in OwnedBy(v, t)' : j \in OwnedBy(v, t) /\ azure'[t][j] = azure[t][j]
      BY <1>4, <1>6 DEF OwnedBy
    <3> QED BY <1>2, <1>6, <1>7, <3>1, OthersRest DEF SInv, AtRest
  <2>4. ReadyNew(t)'
    <3>1. Wants(job.old, t)' = Wants(job.old, t) /\ ShouldSync(job.new)' = ShouldSync(job.new)
          /\ ShouldSync(job.old)' = ShouldSync(job.old) /\ Targets(job.new)' = Targets(job.new)
      BY <1>2, <1>5 DEF Wants, ShouldSync, Targets
    <3> QED BY <1>1, <1>2, <1>5, <2>1, <3>1 DEF ReadyNew
  <2>5. MidNew'
    BY <1>3, <1>4, <1>5, <1>6, <2>4 DEF MidNew
  <2> QED BY <1>5, <2>1, <2>2, <2>3, <2>5 DEF Mid, Off
<1> QED BY <1>1, <1>2, <1>4, <1>5, <1>7, CallKeepsS DEF Calm

LEMMA TakeKeepsS == KInv /\ SInv /\ busy /\ TakeAccount => SInv'
<1> SUFFICES ASSUME KInv, SInv, busy, TakeAccount PROVE SInv'
  OBVIOUS
<1>1. PICK u \in User, t \in Tenant : u = job.user /\ t = job.at
  BY JobParts DEF KInv
<1>2. PICK i \in 1 .. Len(azure[t]) :
        /\ Named(job.new.mail) \cup Owned(u) = {i}
        /\ SetAccount(i, [Account(i) EXCEPT !.owner = u, !.upn = job.new.mail, !.enabled = TRUE])
        /\ job' = [job EXCEPT !.pc = "licence", !.id = i]
  BY <1>1, JobParts DEF TakeAccount, KInv
<1> DEFINE acc == [Account(i) EXCEPT !.owner = u, !.upn = job.new.mail, !.enabled = TRUE]
<1>3. /\ acc \in AccountRecord /\ acc.owner = u /\ acc.upn = job.new.mail /\ acc.enabled
  BY <1>1, JobParts, AccountParts DEF KInv, AccountRecord
<1>4. /\ SetAccount(i, acc) /\ job.pc = "post" /\ i \in Nat
      /\ UNCHANGED <<ldap, seen, queue, past, lapsed, failed, raced>>
  BY <1>1, <1>2, JobParts DEF TakeAccount, directory, history, KInv
<1> HIDE DEF acc
<1>5. /\ \A s \in Tenant \ {t} : azure'[s] = azure[s]
      /\ DOMAIN azure'[t] = DOMAIN azure[t] /\ i \in DOMAIN azure[t]
      /\ azure'[t][i] = acc
      /\ \A j \in DOMAIN azure[t] \ {i} : azure'[t][j] = azure[t][j]
  BY <1>1, <1>3, <1>4, OneAccount
<1>6. /\ job'.pc = "licence" /\ job'.id = i /\ job'.op = job.op /\ job'.at = t
      /\ job'.todo = job.todo /\ job'.user = u
      /\ job'.old = job.old /\ job'.new = job.new /\ busy'
  BY <1>1, <1>2, <1>4, SameJob DEF PC
<1>7. OwnedBy(u, t) \subseteq {i} /\ OwnedBy(u, t)' = {i}
  BY <1>1, <1>2, <1>3, <1>5 DEF Owned, Account, OwnedBy
<1>8. ASSUME Calm
      PROVE  /\ \A v \in User : HasAccount(v, t)' /\ HasNone(v, t)'
             /\ Mid'
  <2>1. job.op = "new" /\ ReadyNew(t)
    BY <1>1, <1>4, <1>8, Begun DEF NewPC, MidNew
  <2>2. HasAccount(u, t)' /\ HasNone(u, t)'
    BY <1>1, <1>4, <1>8, <2>1, NewRests
  <2>3. ASSUME NEW v \in User \ {u} PROVE HasAccount(v, t)' /\ HasNone(v, t)'
    <3>1. \A j \in OwnedBy(v, t)' : j \in OwnedBy(v, t) /\ azure'[t][j] = azure[t][j]
      BY <1>3, <1>5 DEF OwnedBy
    <3>2. Wants(seen[v], t) => azure[t][i].owner # v
      <4>1. azure[t][i].owner = v => azure[t][i].upn = job.new.mail
        BY <1>1, <1>2 DEF Named, Owned, Account
      <4> QED BY <1>1, <1>5, <1>8, <2>1, <4>1, Passes DEF ReadyNew
    <3>3. Wants(seen[v], t) => OwnedBy(v, t)' = OwnedBy(v, t)
      BY <1>3, <1>5, <3>2 DEF OwnedBy
    <3> QED BY <1>4, <1>8, <3>1, <3>3, OthersRest DEF SInv, AtRest
  <2>4. ReadyNew(t)'
    <3>1. Wants(job.old, t)' = Wants(job.old, t) /\ ShouldSync(job.new)' = ShouldSync(job.new)
          /\ ShouldSync(job.old)' = ShouldSync(job.old) /\ Targets(job.new)' = Targets(job.new)
      BY <1>4, <1>6 DEF Wants, ShouldSync, Targets
    <3> QED BY <1>1, <1>4, <1>6, <2>1, <3>1 DEF ReadyNew
  <2>5. MidNew'
    BY <1>3, <1>5, <1>6, <1>7, <2>4 DEF MidNew
  <2> QED BY <1>6, <2>1, <2>2, <2>3, <2>5 DEF Mid, Off
<1> QED BY <1>1, <1>4, <1>5, <1>6, <1>8, CallKeepsS DEF Calm

LEMMA LicenceKeepsS == KInv /\ SInv /\ busy /\ AssignLicence => SInv'
<1> SUFFICES ASSUME KInv, SInv, busy, AssignLicence PROVE SInv'
  OBVIOUS
<1>1. PICK u \in User, t \in Tenant, i \in Nat : u = job.user /\ t = job.at /\ i = job.id
  BY JobParts DEF KInv
<1>2. i \in 1 .. Len(azure[t]) /\ job.pc = "licence"
  BY <1>1 DEF AssignLicence, KInv, IInv, Handling, AtAccount
<1> DEFINE acc == [Account(i) EXCEPT !.licensed = @ \/ t \in Seats]
<1>3. /\ acc \in AccountRecord /\ acc.owner = azure[t][i].owner /\ acc.upn = azure[t][i].upn
      /\ acc.enabled = azure[t][i].enabled
      /\ t \in Seats => acc.licensed
  <2>1. Account(i) \in AccountRecord
    BY <1>1, <1>2, AccountParts DEF KInv
  <2>2. Account(i) = azure[t][i]
    BY <1>1 DEF Account
  <2> QED BY <2>1, <2>2 DEF AccountRecord
<1>4. /\ SetAccount(i, acc)
      /\ UNCHANGED <<ldap, seen, queue, past, lapsed, failed, raced>>
      /\ job' = [job EXCEPT !.pc = "write", !.id = i]
  BY <1>1, JobParts DEF AssignLicence, directory, history, Goto, KInv, Job
<1> HIDE DEF acc
<1>5. /\ \A s \in Tenant \ {t} : azure'[s] = azure[s]
  BY <1>1, <1>2, <1>3, <1>4, OneAccount
<1>6. /\ job'.pc = "write" /\ job'.id = i /\ job'.op = job.op /\ job'.at = t
      /\ job'.todo = job.todo /\ job'.user = u
      /\ job'.old = job.old /\ job'.new = job.new /\ busy'
  BY <1>1, <1>4, SameJob DEF PC
<1>7. ASSUME Calm
      PROVE  /\ \A v \in User : HasAccount(v, t)' /\ HasNone(v, t)'
             /\ Mid'
  <2>1. /\ job.op = "new" /\ ReadyNew(t) /\ OwnedBy(u, t) = {i}
        /\ azure[t][i].enabled /\ azure[t][i].upn = job.new.mail
    BY <1>1, <1>2, <1>7, Begun DEF NewPC, MidNew
  <2>2. acc.owner = u
    BY <1>3, <2>1 DEF OwnedBy
  <2>3. /\ OwnedBy(u, t)' = {i} /\ azure'[t][i] = acc
        /\ \A v \in User \ {u} : HasAccount(v, t)' /\ HasNone(v, t)'
    BY <1>1, <1>2, <1>3, <1>4, <1>7, <2>1, <2>2, OwnStep
  <2>4. HasAccount(u, t)' /\ HasNone(u, t)'
    BY <1>1, <1>4, <1>7, <2>1, NewRests
  <2>5. ReadyNew(t)'
    <3>1. Wants(job.old, t)' = Wants(job.old, t) /\ ShouldSync(job.new)' = ShouldSync(job.new)
          /\ ShouldSync(job.old)' = ShouldSync(job.old) /\ Targets(job.new)' = Targets(job.new)
      BY <1>4, <1>6 DEF Wants, ShouldSync, Targets
    <3> QED BY <1>1, <1>4, <1>6, <2>1, <3>1 DEF ReadyNew
  <2>6. MidNew'
    BY <1>3, <1>6, <2>1, <2>3, <2>5 DEF MidNew
  <2> QED BY <1>6, <2>1, <2>3, <2>4, <2>6 DEF Mid, Off
<1> QED BY <1>1, <1>2, <1>4, <1>5, <1>6, <1>7, CallKeepsS DEF Calm

LEMMA JoinKeepsS == KInv /\ SInv /\ busy /\ Join => SInv'
<1> SUFFICES ASSUME KInv, SInv, busy, Join PROVE SInv'
  OBVIOUS
<1>1. PICK u \in User, t \in Tenant, i \in Nat : u = job.user /\ t = job.at /\ i = job.id
  BY JobParts DEF KInv
<1>2. i \in 1 .. Len(azure[t]) /\ job.pc = "join"
  BY <1>1 DEF Join, KInv, IInv, Handling, AtAccount
<1> DEFINE acc == [Account(i) EXCEPT !.member = TRUE]
<1>3. /\ acc \in AccountRecord /\ acc.owner = azure[t][i].owner /\ acc.upn = azure[t][i].upn
      /\ acc.enabled = azure[t][i].enabled /\ acc.licensed = azure[t][i].licensed /\ acc.member
  <2>1. Account(i) \in AccountRecord
    BY <1>1, <1>2, AccountParts DEF KInv
  <2>2. Account(i) = azure[t][i]
    BY <1>1 DEF Account
  <2> QED BY <2>1, <2>2 DEF AccountRecord
<1>4. /\ \/ UNCHANGED azure /\ failed'
         \/ SetAccount(i, acc) /\ UNCHANGED failed
      /\ UNCHANGED <<ldap, seen, queue, past, lapsed, raced>>
      /\ job' = [job EXCEPT !.pc = "pick", !.id = i]
  <2>1. job' = [job EXCEPT !.pc = "pick", !.id = i]
    BY <1>1, JobParts DEF Join, Goto, KInv, Job
  <2> QED BY <1>1, <2>1 DEF Join, directory
<1> HIDE DEF acc
<1>5. /\ \A s \in Tenant \ {t} : azure'[s] = azure[s]
  BY <1>1, <1>2, <1>3, <1>4, OneAccount
<1>6. /\ job'.pc = "pick" /\ job'.id = i /\ job'.op = job.op /\ job'.at = t
      /\ job'.todo = job.todo /\ job'.user = u
      /\ job'.old = job.old /\ job'.new = job.new /\ busy'
  BY <1>1, <1>4, SameJob DEF PC
<1>7. ASSUME Calm, SetAccount(i, acc)
      PROVE  /\ \A v \in User : HasAccount(v, t)' /\ HasNone(v, t)'
             /\ Done(t)'
  <2>1. /\ OwnedBy(u, t) = {i}
        /\ azure[t][i].enabled /\ azure[t][i].upn = job.new.mail
        /\ t \in Seats => azure[t][i].licensed
        /\ ldap[u].data[t] = [id |-> i, upn |-> job.new.mail]
        /\ ~Wants(job.old, t)
        /\ u \notin lapsed => Wants(ldap[u], t)
    BY <1>1, <1>2, <1>7, Begun DEF NewPC, MidNew
  <2>2. acc.owner = u
    BY <1>3, <2>1 DEF OwnedBy
  <2>3. /\ OwnedBy(u, t)' = {i} /\ i \in DOMAIN azure'[t] /\ azure'[t][i] = acc
        /\ \A v \in User \ {u} : HasAccount(v, t)' /\ HasNone(v, t)'
    BY <1>1, <1>2, <1>3, <1>4, <1>7, <2>1, <2>2, OwnStep
  <2>4. /\ Wants(seen[u], t)' = Wants(seen[u], t) /\ seen[u] = job.old
        /\ Wants(ldap[u], t)' = Wants(ldap[u], t)
    BY <1>1, <1>4, <1>7, OwnUser DEF Wants, ShouldSync, Calm
  <2>5. HasAccount(u, t)' /\ HasNone(u, t)'
    BY <1>4, <2>1, <2>4 DEF HasAccount, HasNone
  <2>6. job.new.mail # NoName
    BY JobParts, NamesAssumption DEF KInv
  <2>7. Works(t, i)'
    BY <1>3, <2>1, <2>3 DEF Works
  <2>8. u \notin lapsed => Wants(ldap[u], t)'
    BY <2>1, <2>4
  <2>9. Done(t)'
    BY <1>3, <1>4, <1>6, <2>1, <2>3, <2>6, <2>7, <2>8 DEF Done
  <2> QED BY <2>3, <2>5, <2>9
<1> QED BY <1>1, <1>2, <1>4, <1>5, <1>6, <1>7, CallKeepsS DEF Calm

\* A step of a deactivation changes the account in hand and goes on.
LEMMA OffStep ==
  ASSUME KInv, SInv, busy, NEW u \in User, u = job.user, NEW t \in Tenant, t = job.at,
         NEW i \in 1 .. Len(azure[t]), i = job.id,
         NEW acc \in AccountRecord, acc.owner = azure[t][i].owner,
         acc.upn \in {Renamed, azure[t][i].upn},
         NEW x \in PC, job' = [job EXCEPT !.pc = x, !.id = i], job.pc \in OffPC,
         UNCHANGED <<ldap, seen, queue, past, lapsed, raced>>,
         SetAccount(i, acc) \/ UNCHANGED azure,
         Calm' => Calm /\ SetAccount(i, acc),
         Calm => \/ /\ x = "leave" /\ ~acc.enabled
                 \/ /\ x = "unlicense" /\ ~acc.enabled /\ ~acc.member
                 \/ /\ ~acc.enabled /\ ~acc.member /\ ~acc.licensed
                    /\ x = IF job.op = "del" THEN "pick" ELSE "write"
  PROVE  SInv'
<1>1. \A s \in Tenant \ {t} : azure'[s] = azure[s]
  BY OneAccount
<1>2. /\ job'.pc = x /\ job'.id = i /\ job'.op = job.op /\ job'.at = t
      /\ job'.todo = job.todo /\ job'.user = u
      /\ job'.old = job.old /\ job'.new = job.new /\ busy'
  <2>1. i \in Nat
    BY JobParts DEF KInv
  <2> QED BY <2>1, SameJob
<1>3. job.op \in Off \cup {"del"} /\ job.pc # "pick"
  BY DEF KInv, Operation, OffPC
<1>4. ASSUME Calm, SetAccount(i, acc)
      PROVE  /\ \A v \in User : HasAccount(v, t)' /\ HasNone(v, t)'
             /\ job'.pc # "pick" => Mid'
             /\ job'.pc = "pick" => Done(t)'
  <2>1. /\ Leaves(job.op, t) /\ i # 0 /\ i = job.old.data[t].id /\ OwnedBy(u, t) = {i}
    BY <1>3, <1>4, Begun DEF MidOff
  <2>2. acc.owner = u
    BY <2>1 DEF OwnedBy
  <2>3. /\ OwnedBy(u, t)' = {i} /\ i \in DOMAIN azure'[t] /\ azure'[t][i] = acc
        /\ \A v \in User \ {u} : HasAccount(v, t)' /\ HasNone(v, t)'
    <3>1. UNCHANGED <<ldap, seen, past, lapsed>> /\ SetAccount(i, acc) /\ Calm
      BY <1>4
    <3> QED BY ONLY KInv, SInv, busy, u \in User, u = job.user, t \in Tenant, t = job.at,
               i \in 1 .. Len(azure[t]), acc \in AccountRecord, <2>1, <2>2, <3>1, OwnStep
  <2>4. HasAccount(u, t)' /\ HasNone(u, t)'
    BY <1>4, <2>1, <2>3, OffRests
  <2>5. /\ Wants(job.old, t)' = Wants(job.old, t) /\ Wants(job.new, t)' = Wants(job.new, t)
        /\ Wants(ldap[u], t)' = Wants(ldap[u], t)
    BY <1>2 DEF Wants, ShouldSync
  <2>6. Leaves(job.op, t)'
    <3>1. /\ job'.user = u /\ job'.old = job.old /\ job'.new = job.new /\ job'.op = job.op
          /\ UNCHANGED <<ldap, lapsed>>
      BY <1>2
    <3> QED BY ONLY u = job.user, <2>1, <2>5, <3>1 DEF Leaves
  <2>7. job'.pc # "pick" => MidOff'
    BY <1>2, <1>4, <2>1, <2>3, <2>6 DEF MidOff
  <2>8. job'.pc = "pick" => Done(t)'
    <3> SUFFICES ASSUME x = "pick" PROVE Done(t)'
      BY <1>2
    <3>1. job.op = "del" /\ ~acc.enabled /\ ~acc.member /\ ~acc.licensed
      BY <1>4
    <3>2. ~Wants(job.new, t) /\ ldap[u].life # "here"
      BY <1>4, <2>1, <3>1, OwnUser DEF Leaves, Calm
    <3>3. AllOff(u, t)'
      BY <2>3, <3>1 DEF AllOff, IsOff
    <3> QED BY <1>2, <2>5, <3>2, <3>3 DEF Done
  <2> QED BY <1>2, <1>3, <2>3, <2>4, <2>7, <2>8 DEF Mid, Off
<1> QED BY <1>1, <1>2, <1>3, <1>4, CallKeepsS

LEMMA DeactivateKeepsS == KInv /\ SInv /\ busy /\ Deactivate /\ ~DisableUnknown => SInv'
<1> SUFFICES ASSUME KInv, SInv, busy, Deactivate, ~DisableUnknown PROVE SInv'
  OBVIOUS
<1>1. PICK u \in User, t \in Tenant, i \in Nat : u = job.user /\ t = job.at /\ i = job.id
  BY JobParts DEF KInv
<1>2. i \in 1 .. Len(azure[t]) /\ DOMAIN azure[t] = 1 .. Len(azure[t])
  <2>1. Disable => i \in 1 .. Len(azure[t])
    BY <1>1, JobParts DEF Disable, KInv, IInv, Handling
  <2>2. Leave \/ RemoveLicences => i \in 1 .. Len(azure[t])
    BY <1>1 DEF Leave, RemoveLicences, KInv, IInv, Handling, AtAccount
  <2> QED BY <1>1, <2>1, <2>2, JobParts DEF Deactivate, KInv
<1>3. Account(i) \in AccountRecord /\ Account(i) = azure[t][i]
  BY <1>1, <1>2, AccountParts DEF KInv, Account
<1>4. \A x : job' = [job EXCEPT !.pc = x] => job' = [job EXCEPT !.pc = x, !.id = i]
  BY <1>1, JobParts DEF KInv, Job
<1>5. Calm => MidOff
  BY Begun DEF Deactivate, Disable, Leave, RemoveLicences, KInv, Operation, OffPC
<1>6. CASE Disable
  <2> DEFINE name == IF job.op = "off" THEN Account(i).upn ELSE Renamed
             acc == [Account(i) EXCEPT !.enabled = FALSE, !.upn = name]
  <2>1. name \in Mail \cup {Renamed} /\ name \in {Renamed, azure[t][i].upn}
    BY <1>3 DEF AccountRecord
  <2>2. /\ SetAccount(i, [Account(i) EXCEPT !.enabled = FALSE,
                            !.upn = IF job.op = "off" THEN @ ELSE Renamed])
    BY <1>1, <1>6 DEF Disable
  <2>3. SetAccount(i, acc)
    BY <1>3, <2>2 DEF AccountRecord
  <2> HIDE DEF name
  <2>4. acc \in AccountRecord /\ acc.owner = azure[t][i].owner /\ acc.upn = name /\ ~acc.enabled
    BY <1>3, <2>1 DEF AccountRecord
  <2>5. /\ job' = [job EXCEPT !.pc = "leave"] /\ job.pc \in OffPC
        /\ UNCHANGED <<ldap, seen, queue, past, lapsed, raced, failed>>
    BY <1>6 DEF Disable, Goto, OffPC, directory, history
  <2> HIDE DEF acc
  <2>6. Calm' => Calm
    BY <2>5 DEF Calm
  <2> QED BY <1>1, <1>2, <1>4, <2>1, <2>3, <2>4, <2>5, <2>6, OffStep DEF PC
<1>7. CASE Leave
  <2> DEFINE acc == [Account(i) EXCEPT !.member = FALSE]
  <2>1. /\ acc \in AccountRecord /\ acc.owner = azure[t][i].owner /\ acc.upn = azure[t][i].upn
        /\ acc.enabled = azure[t][i].enabled /\ ~acc.member
    BY <1>3 DEF AccountRecord
  <2>2. \/ SetAccount(i, acc) /\ UNCHANGED failed
        \/ UNCHANGED azure /\ failed' = TRUE
    BY <1>1, <1>7 DEF Leave
  <2>3. /\ job' = [job EXCEPT !.pc = "unlicense"] /\ job.pc = "leave"
        /\ UNCHANGED <<ldap, seen, queue, past, lapsed, raced>>
    BY <1>7 DEF Leave, Goto, directory
  <2> HIDE DEF acc
  <2>4. Calm' => Calm /\ SetAccount(i, acc)
    BY <2>2, <2>3 DEF Calm
  <2>5. Calm => ~azure[t][i].enabled
    BY <1>1, <1>5, <2>3 DEF MidOff
  <2>6. SetAccount(i, acc) \/ UNCHANGED azure
    BY <2>2
  <2>7. PICK x \in PC : x = "unlicense"
    BY DEF PC
  <2>8. /\ job' = [job EXCEPT !.pc = x, !.id = i] /\ job.pc \in OffPC
        /\ acc.upn \in {Renamed, azure[t][i].upn}
        /\ Calm => \/ /\ x = "leave" /\ ~acc.enabled
                   \/ /\ x = "unlicense" /\ ~acc.enabled /\ ~acc.member
                   \/ /\ ~acc.enabled /\ ~acc.member /\ ~acc.licensed
                      /\ x = IF job.op = "del" THEN "pick" ELSE "write"
    BY <1>4, <2>1, <2>3, <2>5, <2>7 DEF OffPC
  <2>9. i \in 1 .. Len(azure[t]) /\ UNCHANGED <<ldap, seen, queue, past, lapsed, raced>>
    BY <1>2, <2>3
  <2>10. acc \in AccountRecord /\ acc.owner = azure[t][i].owner
    BY <2>1
  <2> QED BY ONLY KInv, SInv, busy, u \in User, t \in Tenant, x \in PC, <1>1,
             <2>4, <2>6, <2>8, <2>9, <2>10, OffStep
<1>8. CASE RemoveLicences
  <2> DEFINE acc == [Account(i) EXCEPT !.licensed = FALSE]
             x == IF job.op = "del" THEN "pick" ELSE "write"
  <2>1. /\ acc \in AccountRecord /\ acc.owner = azure[t][i].owner /\ acc.upn = azure[t][i].upn
        /\ acc.enabled = azure[t][i].enabled /\ acc.member = azure[t][i].member
        /\ ~acc.licensed
    BY <1>3 DEF AccountRecord
  <2>2. SetAccount(i, acc)
    BY <1>1, <1>8 DEF RemoveLicences
  <2>3. /\ job' = [job EXCEPT !.pc = x] /\ job.pc = "unlicense" /\ x \in PC
        /\ UNCHANGED <<ldap, seen, queue, past, lapsed, raced, failed>>
    BY <1>8 DEF RemoveLicences, Goto, directory, history, PC
  <2> HIDE DEF acc
  <2>4. Calm' => Calm
    BY <2>3 DEF Calm
  <2>5. Calm => ~azure[t][i].enabled /\ ~azure[t][i].member
    BY <1>1, <1>5, <2>3 DEF MidOff
  <2> QED BY <1>1, <1>2, <1>4, <2>1, <2>2, <2>3, <2>4, <2>5, OffStep DEF OffPC
<1> QED BY <1>6, <1>7, <1>8 DEF Deactivate

\* The account of a user who is changed is the one the edit finds.
LEMMA EditFinds ==
  ASSUME KInv, SInv, busy, Calm, job.pc = "edit"
  PROVE  /\ job.op = "edit" /\ ReadyEdit(job.at) /\ Known # {}
         /\ job.old.mail # job.new.mail =>
              OwnedBy(job.user, job.at) = Known /\ Known = {job.old.data[job.at].id}
<1>1. job.op = "edit" /\ job.id = job.old.data[job.at].id
  BY DEF KInv, Operation
<1>2. ReadyEdit(job.at)
  BY <1>1, Begun
<1>3. Owned(job.user) = OwnedBy(job.user, job.at) /\ DOMAIN azure[job.at] = 1 .. Len(azure[job.at])
  BY JobParts DEF Owned, OwnedBy, Account, KInv
<1> QED BY <1>1, <1>2, <1>3 DEF ReadyEdit, Known

LEMMA EditKeepsS == KInv /\ SInv /\ busy /\ (Same \/ Update) => SInv'
<1> SUFFICES ASSUME KInv, SInv, busy, Same \/ Update PROVE SInv'
  OBVIOUS
<1>1. PICK u \in User, t \in Tenant, i \in Nat : u = job.user /\ t = job.at /\ i = job.id
  BY JobParts DEF KInv
<1>2. /\ UNCHANGED <<ldap, seen, queue, past, lapsed, raced, failed>> /\ job.pc = "edit"
      /\ job' = [job EXCEPT !.pc = "pick", !.id = i]
  <2>1. job' = [job EXCEPT !.pc = "pick", !.id = i]
    BY <1>1, JobParts DEF Same, Update, Goto, KInv, Job
  <2> QED BY <2>1 DEF Same, Update, directory, history
<1>3. /\ job'.pc = "pick" /\ job'.at = t
      /\ job'.todo = job.todo /\ job'.user = u
      /\ job'.old = job.old /\ job'.new = job.new /\ busy'
  BY <1>1, <1>2, SameJob DEF PC
<1>4. /\ Wants(job.new, t)' = Wants(job.new, t) /\ Wants(ldap[u], t)' = Wants(ldap[u], t)
      /\ Wants(seen[u], t)' = Wants(seen[u], t)
  BY <1>2, <1>3 DEF Wants, ShouldSync
<1>5. CASE Same
  <2>1. azure' = azure /\ job.old.mail = job.new.mail
    BY <1>5 DEF Same
  <2>2. ASSUME Calm
        PROVE  (\A v \in User : HasAccount(v, t)' /\ HasNone(v, t)') /\ Done(t)'
    <3>1. \A v \in User : HasAccount(v, t)' /\ HasNone(v, t)'
      BY <1>2, <2>1, <2>2, RestStays DEF SInv, AtRest
    <3>2. ReadyEdit(t)
      BY <1>1, <1>2, <2>2, EditFinds
    <3>3. OwnedBy(u, t)' = OwnedBy(u, t) /\ \A k : Works(t, k)' = Works(t, k)
      BY <2>1 DEF OwnedBy, Works
    <3>4. Done(t)'
      BY <1>1, <1>2, <1>3, <1>4, <2>1, <3>2, <3>3 DEF ReadyEdit, Done
    <3> QED BY <3>1, <3>4
  <2> QED BY <1>1, <1>2, <1>3, <2>1, <2>2, CallKeepsS DEF Calm
<1>6. CASE Update
  <2>1. PICK k \in Known : SetAccount(k, [Account(k) EXCEPT !.upn = job.new.mail])
    BY <1>6 DEF Update
  <2> DEFINE acc == [Account(k) EXCEPT !.upn = job.new.mail]
  <2>2. k \in 1 .. Len(azure[t])
    <3>1. job.id \in 0 .. Len(azure[t])
      BY <1>1, <1>2 DEF KInv, IInv, Handling
    <3>2. Owned(job.user) \subseteq 1 .. Len(azure[t])
      BY <1>1, JobParts DEF Owned, KInv
    <3> QED BY <3>1, <3>2, <1>1, JobParts DEF Known, KInv
  <2>3. /\ acc \in AccountRecord /\ acc.owner = azure[t][k].owner /\ acc.upn = job.new.mail
        /\ acc.enabled = azure[t][k].enabled /\ acc.member = azure[t][k].member
        /\ acc.licensed = azure[t][k].licensed
    <3>1. Account(k) \in AccountRecord /\ Account(k) = azure[t][k]
      BY <1>1, <2>2, AccountParts DEF KInv, Account
    <3> QED BY <3>1, JobParts DEF AccountRecord, KInv
  <2>4. SetAccount(k, acc) /\ job.old.mail # job.new.mail
    BY <1>6, <2>1 DEF Update
  <2> HIDE DEF acc
  <2>5. \A s \in Tenant \ {t} : azure'[s] = azure[s]
    BY <1>1, <2>2, <2>3, <2>4, OneAccount
  <2>6. ASSUME Calm
        PROVE  (\A v \in User : HasAccount(v, t)' /\ HasNone(v, t)') /\ Done(t)'
    <3>1. ReadyEdit(t) /\ OwnedBy(u, t) = {k} /\ k = job.old.data[t].id
      BY <1>1, <1>2, <2>1, <2>4, <2>6, EditFinds
    <3>2. /\ u \notin lapsed => Wants(job.old, t) /\ Wants(job.new, t)
          /\ Works(t, k) /\ ldap[u].data[t].id = k /\ ldap[u].data[t].upn # NoName
      BY <1>1, <3>1 DEF ReadyEdit
    <3>3. acc.owner = u
      BY <2>3, <3>1 DEF OwnedBy
    <3>4. /\ OwnedBy(u, t)' = {k} /\ k \in DOMAIN azure'[t] /\ azure'[t][k] = acc
          /\ \A v \in User \ {u} : HasAccount(v, t)' /\ HasNone(v, t)'
      <4>1. u = job.user /\ t = job.at
        BY <1>1
      <4>2. UNCHANGED <<ldap, seen, past, lapsed>>
        BY <1>2
      <4>3. SetAccount(k, acc) /\ acc \in AccountRecord
        BY <2>3, <2>4
      <4>4. OwnedBy(u, t) = {k}
        BY <3>1
      <4> QED BY ONLY KInv, SInv, busy, Calm, u \in User, t \in Tenant, <2>2, <3>3,
                 <4>1, <4>2, <4>3, <4>4, OwnStep
    <3>5. Works(t, k)'
      BY <2>3, <3>2, <3>4 DEF Works
    <3>6. job.new.mail = ldap[u].mail /\ job.new.mail # Renamed /\ seen[u] = job.old
      BY <1>1, <2>6, OwnUser, JobParts, NamesAssumption DEF KInv, Calm
    <3>7. HasAccount(u, t)'
      BY <1>2, <1>4, <2>3, <3>1, <3>2, <3>4, <3>5, <3>6 DEF HasAccount
    <3>8. HasNone(u, t)'
      BY <1>2, <1>4, <3>2, <3>6 DEF HasNone
    <3>9. Done(t)'
      BY <1>2, <1>3, <1>4, <2>3, <3>2, <3>4, <3>5 DEF Done
    <3> QED BY <3>4, <3>7, <3>8, <3>9
  <2> QED BY <1>1, <1>2, <1>3, <2>5, <2>6, CallKeepsS DEF Calm
<1> QED BY <1>5, <1>6

-----------------------------------------------------------------------------
(* The entry in LDAP.                                                      *)

\* What is written into the entry of the call's user.
LEMMA WriteEntry ==
  ASSUME KInv, busy, Write, NEW u \in User, u = job.user, NEW t \in Tenant, t = job.at
  PROVE  /\ ldap'[u].life = ldap[u].life /\ ldap'[u].mail = ldap[u].mail
         /\ ldap'[u].enabled = ldap[u].enabled /\ ldap'[u].expires = ldap[u].expires
         /\ \/ ldap'[u].aliases = ldap[u].aliases
            \/ /\ ldap'[u].aliases = ldap[u].aliases \cup {t}
               /\ job.op = "new" /\ t \notin job.new.aliases
         /\ job.op = "new" /\ t \notin job.new.aliases /\ ldap[u].data[t].upn = NoName
              => t \in ldap'[u].aliases
         /\ ldap'[u].data[t] = Entry
         /\ \A s \in Tenant \ {t} : ldap'[u].data[s] = ldap[u].data[s]
         /\ \A v \in User \ {u} : ldap'[v] = ldap[v]
         /\ job' = [job EXCEPT !.data = NewData, !.pc = IF job.op = "new" THEN "join" ELSE "pick"]
         /\ queue' = queue \/ queue' = Append(queue, u)
         /\ UNCHANGED <<seen, azure, past, lapsed, failed, raced>> /\ job.pc = "write"
<1>1. /\ job.data = ldap[u].data /\ ldap \in [User -> Person] /\ ldap[u] \in Person
      /\ job.data \in [Tenant -> [id : Nat, upn : Mail \cup {NoName}]]
      /\ job.new.mail # NoName
  BY JobParts, NamesAssumption DEF KInv, IInv, Current, TypeOK, Job
<1>2. NewData[t] = Entry
  BY <1>1 DEF NewData
<1>3. /\ ldap'[u].data = NewData
      /\ \A s \in Tenant \ {t} : NewData[s] = ldap[u].data[s]
      /\ \A v \in User \ {u} : ldap'[v] = ldap[v]
      /\ job' = [job EXCEPT !.data = NewData, !.pc = IF job.op = "new" THEN "join" ELSE "pick"]
      /\ UNCHANGED <<seen, azure, past, raced>> /\ job.pc = "write"
  BY WriteParts
<1>4. UNCHANGED <<lapsed, failed>>
  BY DEF Write, history
<1>5. CASE NewData = job.data
  <2>1. UNCHANGED <<ldap, queue>>
    BY <1>5 DEF Write
  <2>2. job.op = "new" => ldap[u].data[t].upn # NoName
    BY <1>1, <1>2, <1>5 DEF Entry
  <2> QED BY <1>2, <1>3, <1>4, <2>1, <2>2
<1>6. CASE NewData # job.data
  <2>1. /\ ldap' = [ldap EXCEPT ![job.user].data = NewData,
                      ![job.user].aliases =
                         IF job.op = "new" /\ job.at \notin job.new.aliases
                         THEN @ \cup {job.at} ELSE @]
        /\ queue' = Notify(u)
    BY <1>6 DEF Write
  <2>2. /\ ldap'[u].life = ldap[u].life /\ ldap'[u].mail = ldap[u].mail
        /\ ldap'[u].enabled = ldap[u].enabled /\ ldap'[u].expires = ldap[u].expires
        /\ ldap'[u].aliases = IF job.op = "new" /\ t \notin job.new.aliases
                              THEN ldap[u].aliases \cup {t} ELSE ldap[u].aliases
    BY <1>1, <2>1 DEF Person
  <2>3. queue' = queue \/ queue' = Append(queue, u)
    BY <2>1 DEF Notify
  <2> QED BY <1>2, <1>3, <1>4, <2>2, <2>3
<1> QED BY <1>5, <1>6

LEMMA WriteKeepsS == KInv /\ KInv' /\ SInv /\ busy /\ Write => SInv'
<1> SUFFICES ASSUME KInv, KInv', SInv, busy, Write PROVE SInv'
  OBVIOUS
<1>1. PICK u \in User, t \in Tenant : u = job.user /\ t = job.at
  BY JobParts DEF KInv
<1>2. /\ ldap'[u].life = ldap[u].life /\ ldap'[u].mail = ldap[u].mail
      /\ ldap'[u].enabled = ldap[u].enabled /\ ldap'[u].expires = ldap[u].expires
      /\ \/ ldap'[u].aliases = ldap[u].aliases
         \/ /\ ldap'[u].aliases = ldap[u].aliases \cup {t}
            /\ job.op = "new" /\ t \notin job.new.aliases
      /\ ldap'[u].data[t] = Entry
      /\ \A s \in Tenant \ {t} : ldap'[u].data[s] = ldap[u].data[s]
      /\ \A v \in User \ {u} : ldap'[v] = ldap[v]
      /\ queue' = queue \/ queue' = Append(queue, u)
      /\ UNCHANGED <<seen, azure, past, lapsed, failed, raced>> /\ job.pc = "write"
  BY <1>1, WriteEntry
<1>3. /\ job.op = "new" /\ t \notin job.new.aliases /\ ldap[u].data[t].upn = NoName
           => t \in ldap'[u].aliases
      /\ job' = [job EXCEPT !.data = NewData, !.pc = IF job.op = "new" THEN "join" ELSE "pick"]
  BY <1>1, WriteEntry
<1>4. /\ job'.pc = (IF job.op = "new" THEN "join" ELSE "pick")
      /\ job'.id = job.id /\ job'.op = job.op /\ job'.at = t
      /\ job'.todo = job.todo /\ job'.user = u
      /\ job'.old = job.old /\ job'.new = job.new /\ busy'
  <2>1. job \in Job
    BY JobParts DEF KInv
  <2>2. job'.pc = (IF job.op = "new" THEN "join" ELSE "pick")
    BY <1>3, <2>1 DEF Job
  <2> QED BY <1>1, <1>3, <2>1, <2>2 DEF Job, busy, Idle
<1>5. \A v \in User : ldap'[v].life = ldap[v].life /\ ldap'[v].mail = ldap[v].mail
  BY <1>2
<1>6. Mails' /\ NotYet'
  BY <1>2, <1>5 DEF SInv, Mails, NotYet
<1>7. InOrder'
  <2> SUFFICES ASSUME ~raced PROVE InOrder'
    BY <1>2 DEF InOrder
  <2>1. queue \in Seq(User)
    BY DEF KInv, IInv, TypeOK
  <2>2. \A k \in 1 .. Len(queue) : queue[k] \in User
    BY <2>1
  <2>3. \A k \in 1 .. Len(queue), v \in User :
          /\ queue[k] # v /\ ldap'[queue[k]].life = "here" /\ seen[v].life = "here"
          /\ ldap'[queue[k]].mail \in {seen[v].mail, ldap'[v].mail}
          => \E j \in 1 .. (k - 1) : queue[j] = v
    BY <1>5, <2>2 DEF SInv, InOrder
  <2> QED BY <1>2, <1>6, <2>3, OrderKeeps
<1>8. Calm => t \in Targets(job.new) \/ job.op # "new"
  BY <1>1, <1>2, Begun DEF MidNew, ReadyNew
<1>9. ASSUME Calm
      PROVE  /\ ldap'[u].aliases # ldap[u].aliases => ldap'[u].aliases = {t} /\ ldap[u].aliases = {}
             /\ ldap'[u].aliases # ldap[u].aliases => Targets(job.new) = {t} /\ Default = t
  <2>1. ldap[u].aliases \in {job.new.aliases, Targets(job.new)}
    BY <1>1, <1>9, OwnUser
  <2>2. job.op = "new" /\ t \notin job.new.aliases
          => job.new.aliases = {} /\ Targets(job.new) = {t} /\ Default = t
    BY <1>8, <1>9 DEF Targets
  <2> QED BY <1>2, <2>1, <2>2
<1>10. OwnCall'
  <2>1. Targets(job.new)' = Targets(job.new)
    BY <1>4 DEF Targets
  <2> QED BY <1>1, <1>2, <1>4, <1>9, <2>1 DEF SInv, OwnCall, Calm
<1>11. /\ ShouldSync(ldap[u])' = ShouldSync(ldap[u]) /\ ShouldSync(seen[u])' = ShouldSync(seen[u])
       /\ ShouldSync(job.old)' = ShouldSync(job.old) /\ ShouldSync(job.new)' = ShouldSync(job.new)
  BY <1>2, <1>4 DEF ShouldSync
<1>12. \A s \in Tenant : /\ OwnedBy(u, s)' = OwnedBy(u, s) /\ AllOff(u, s)' = AllOff(u, s)
                         /\ Wants(seen[u], s)' = Wants(seen[u], s)
                         /\ Wants(job.old, s)' = Wants(job.old, s)
                         /\ Wants(job.new, s)' = Wants(job.new, s)
                         /\ s # t => Wants(ldap[u], s)' = Wants(ldap[u], s)
                         /\ job.op # "new" => Wants(ldap[u], s)' = Wants(ldap[u], s)
                         /\ \A i : Works(s, i)' = Works(s, i)
  BY <1>2, <1>4, <1>11 DEF OwnedBy, AllOff, IsOff, Wants, Works
<1>13. ASSUME Calm, job.op = "new"
       PROVE  /\ ReadyNew(t) /\ OwnedBy(u, t) = {job.id}
              /\ azure[t][job.id].enabled /\ azure[t][job.id].upn = job.new.mail
              /\ t \in Seats => azure[t][job.id].licensed
              /\ u \notin lapsed => Wants(ldap[u], t)'
  <2>1. /\ ReadyNew(t) /\ OwnedBy(u, t) = {job.id}
        /\ azure[t][job.id].enabled /\ azure[t][job.id].upn = job.new.mail
        /\ t \in Seats => azure[t][job.id].licensed
    BY <1>1, <1>2, <1>13, Begun DEF MidNew
  <2>2. ASSUME u \notin lapsed PROVE Wants(ldap[u], t)'
    <3>1. ShouldSync(ldap[u])'
      BY <1>1, <1>11, <1>13, <2>1, <2>2, OwnUser DEF ReadyNew
    <3>2. job.new.aliases \subseteq ldap[u].aliases
      BY <1>1, <1>13, OwnUser
    <3>3. t \in ldap'[u].aliases
      BY <1>1, <1>2, <1>3, <1>13, <2>1, <2>2, <3>2 DEF ReadyNew
    <3> QED BY <3>1, <3>3 DEF Wants
  <2> QED BY <2>1, <2>2
<1>14. ASSUME Calm, job.op # "new"
       PROVE  /\ job.op \in Off /\ Leaves(job.op, t) /\ job.id = job.old.data[t].id
              /\ OwnedBy(u, t) = {job.id} /\ IsOff(t, job.id) /\ seen[u] = job.old
  <2>1. job.op \in Off
    BY <1>2, <1>14 DEF KInv, Operation
  <2> QED BY <1>1, <1>2, <1>14, <2>1, Begun, OwnUser DEF MidOff, IsOff
<1>15. AtRest'
  <2> SUFFICES ASSUME Calm, NEW v \in User, NEW s \in Tenant
               PROVE  HasAccount(v, s)' /\ HasNone(v, s)'
    BY <1>2 DEF AtRest, Calm
  <2>1. HasAccount(v, s) /\ HasNone(v, s)
    BY DEF SInv, AtRest
  <2>2. CASE v # u
    BY <1>2, <2>1, <2>2, RestStays
  <2>3. CASE v = u /\ s # t
    <3>1. Untouched(seen[u], ldap[u]) => Untouched(seen[u], ldap[u])'
      BY <1>2 DEF Untouched, OwnWrites
    <3>2. s \in Targets(ldap[u]) => s \in Targets(ldap[u])'
      BY <1>9, <2>3 DEF Targets
    <3>3. HasAccount(u, s)'
      BY <1>2, <1>12, <2>1, <2>3, <3>1 DEF HasAccount
    <3>4. HasNone(u, s)'
      BY <1>2, <1>11, <1>12, <2>1, <2>3, <3>2 DEF HasNone
    <3> QED BY <2>3, <3>3, <3>4
  <2>4. CASE v = u /\ s = t /\ job.op = "new"
    <3>1. ~Wants(seen[u], t)
      BY <1>1, <1>13, <2>4, OwnUser DEF ReadyNew
    <3> QED BY <1>2, <1>12, <1>13, <2>4, <3>1 DEF HasAccount, HasNone
  <2>5. CASE v = u /\ s = t /\ job.op # "new"
    <3>1. ~Wants(ldap[u], t) /\ (u \notin lapsed => Wants(seen[u], t))
      BY <1>1, <1>14, <2>5 DEF Leaves
    <3>2. HasAccount(u, t)'
      BY <1>2, <1>12, <2>1, <2>5, <3>1 DEF HasAccount
    <3>3. HasNone(u, t)'
      BY <1>2, <1>12, <2>5, <3>1 DEF HasNone
    <3> QED BY <2>5, <3>2, <3>3
  <2> QED BY <2>2, <2>3, <2>4, <2>5
<1>16. InCall'
  <2> SUFFICES ASSUME Calm PROVE InCall'
    BY <1>2 DEF InCall, Calm
  <2>1. \A s \in Tenant \ {t} :
          Done(s)' = Done(s) /\ \A op \in Op : Ready(op, s)' = Ready(op, s)
    <3> SUFFICES ASSUME NEW s \in Tenant \ {t}
                 PROVE  Done(s)' = Done(s) /\ \A op \in Op : Ready(op, s)' = Ready(op, s)
      OBVIOUS
    <3>1. /\ azure'[s] = azure[s] /\ UNCHANGED <<past, lapsed>>
          /\ job'.user = job.user /\ job'.old = job.old /\ job'.new = job.new
          /\ ldap'[job.user].data[s] = ldap[job.user].data[s]
          /\ ldap'[job.user].life = ldap[job.user].life
      BY <1>1, <1>2, <1>4
    <3>2. Wants(ldap[job.user], s)' = Wants(ldap[job.user], s)
      <4>1. Wants(ldap[u], s)' = Wants(ldap[u], s)
        BY <1>12
      <4> QED BY <1>1, <1>4, <4>1 DEF Wants, ShouldSync
    <3> QED BY <3>1, <3>2, ElsewhereStays
  <2>2. job.todo \subseteq Op \X Tenant /\ \A w \in job.todo : w[2] # t
    BY <1>1, <1>2, JobParts DEF KInv, Operation
  <2>3. \A w \in job.todo : Ready(w[1], w[2])'
    <3> SUFFICES ASSUME NEW w \in job.todo PROVE Ready(w[1], w[2])'
      OBVIOUS
    <3>1. w[1] \in Op /\ w[2] \in Tenant \ {t}
      BY <2>2
    <3> QED BY <2>1, <3>1 DEF SInv, InCall
  <2>4. ASSUME job.op = "new" PROVE Mid'
    <3>1. Entry = [id |-> job.id, upn |-> job.new.mail]
      BY <2>4 DEF Entry
    <3>2. ~Wants(job.old, t)
      BY <1>13, <2>4 DEF ReadyNew
    <3>3. MidNew'
      BY <1>2, <1>4, <1>12, <1>13, <2>4, <3>1, <3>2 DEF MidNew
    <3> QED BY <1>4, <2>4, <3>3 DEF Mid, Off
  <2>5. ASSUME job.op # "new" PROVE Done(t)'
    <3>1. ~Wants(job.new, t) /\ AllOff(u, t)
      BY <1>1, <1>14, <2>5, OwnUser DEF Leaves, AllOff
    <3>2. Entry.upn = NoName
      BY <2>5 DEF Entry
    <3> QED BY <1>2, <1>4, <1>12, <3>1, <3>2 DEF Done
  <2>6. ASSUME NEW s \in Tenant, \A w \in job.todo : w[2] # s, job'.pc = "pick" \/ t # s
        PROVE  Done(s)'
    <3>1. CASE s = t
      BY <1>4, <2>5, <2>6, <3>1
    <3>2. CASE s # t
      BY <1>1, <2>1, <2>6, <3>2 DEF SInv, InCall
    <3> QED BY <3>1, <3>2
  <2> QED BY <1>4, <2>3, <2>4, <2>6 DEF InCall
<1> QED BY <1>6, <1>7, <1>10, <1>15, <1>16 DEF SInv

-----------------------------------------------------------------------------
(* Calls that end, and the invariant.                                      *)

\* A call that was refused, or failed, is one nothing is asked of any more.
LEMMA RaiseKeepsS == KInv /\ SInv /\ busy /\ Raise(TRUE) => SInv'
BY ReturnKeepsS DEF Raise, Calm

LEMMA FinishKeepsS == KInv /\ SInv /\ busy /\ Finish => SInv'
<1> SUFFICES ASSUME KInv, SInv, busy, Finish PROVE SInv'
  OBVIOUS
<1>1. Return /\ UNCHANGED <<failed, raced>> /\ job.pc = "pick" /\ job.todo = {}
  BY DEF Finish, Return
<1>2. Calm => \A t \in Tenant : Done(t)
  BY <1>1 DEF SInv, InCall
<1> QED BY <1>1, <1>2, ReturnKeepsS DEF Calm

\* As long as no call failed the account to put out of work is known, and its
\* user is still there.
LEMMA GoneNotCalm ==
  ASSUME KInv, SInv, busy, DisableUnknown \/ WriteGone
  PROVE  Return /\ ~Calm /\ ~Calm'
<1>1. Return /\ (Calm' => Calm)
  <2>1. Return /\ failed' = (failed \/ FALSE)
    BY DEF DisableUnknown, WriteGone, Raise
  <2>2. UNCHANGED raced
    BY <2>1 DEF Return
  <2>3. failed \in BOOLEAN
    BY DEF KInv, IInv, TypeOK
  <2> QED BY <2>1, <2>2, <2>3 DEF Calm
<1>2. ~Calm
  <2> SUFFICES ASSUME Calm PROVE FALSE
    OBVIOUS
  <2>1. CASE DisableUnknown
    <3>1. job.pc = "disable" /\ job.id = 0
      BY <2>1 DEF DisableUnknown
    <3>2. job.op \in Off \cup {"del"}
      BY <3>1 DEF KInv, Operation, OffPC
    <3> QED BY <3>1, <3>2, Begun DEF MidOff
  <2>2. CASE WriteGone
    <3>1. job.pc = "write" /\ job.new.life # "here"
      BY <2>2, OwnUser DEF WriteGone
    <3>2. job.op \in Off \cup {"new"}
      BY <3>1 DEF KInv, Operation
    <3>3. CASE job.op = "new"
      BY <3>1, <3>3, Begun DEF MidNew, ReadyNew
    <3>4. CASE job.op \in Off
      BY <3>1, <3>4, Begun DEF MidOff, Leaves, Off
    <3> QED BY <3>2, <3>3, <3>4
  <2> QED BY <2>1, <2>2
<1> QED BY <1>1, <1>2

LEMMA GoneKeepsS == KInv /\ SInv /\ busy /\ (DisableUnknown \/ WriteGone) => SInv'
BY GoneNotCalm, ReturnKeepsS

\* Nor is an account to be changed ever unknown then.
LEMMA UnknownKeepsS == KInv /\ SInv /\ busy /\ Unknown => SInv'
<1> SUFFICES ASSUME KInv, SInv, busy, Unknown PROVE SInv'
  OBVIOUS
<1>1. /\ job.pc = "edit" /\ Known = {}
      /\ job' = [job EXCEPT !.pc = "post", !.op = "new"]
      /\ UNCHANGED <<ldap, seen, queue, azure, past, lapsed, raced, failed>>
  BY DEF Unknown, directory, history
<1>2. ~Calm'
  BY <1>1, EditFinds DEF Calm
<1>3. /\ job'.user = job.user /\ job'.old = job.old /\ job'.new = job.new
      /\ job'.at = job.at /\ job'.todo = job.todo /\ job'.pc = "post"
  BY <1>1, JobParts DEF KInv, Job
<1>4. busy'
  BY <1>3 DEF busy, Idle
<1> QED BY <1>1, <1>2, <1>3, <1>4, CallKeepsS

LEMMA NextSInv == KInv /\ SInv /\ [Next]_vars => SInv'
<1> SUFFICES ASSUME KInv, SInv, [Next]_vars PROVE SInv'
  OBVIOUS
<1>1. KInv'
  BY NextKInv
<1>2. CASE Admin \/ DayPasses
  BY <1>1, <1>2, AdminKeepsS, DayKeepsS
<1>3. CASE Start \/ Crash
  BY <1>1, <1>3, StartKeepsS, CrashKeepsS
<1>4. CASE Fails
  BY <1>4, RaiseKeepsS DEF Fails
<1>5. CASE busy /\ (Pick \/ Finish)
  BY <1>5, PickKeepsS, FinishKeepsS
<1>6. CASE busy /\ Reactivate
  BY <1>1, <1>6, CreateKeepsS, TakeKeepsS, RaiseKeepsS, LicenceKeepsS, JoinKeepsS
     DEF Reactivate, RefuseAccount
<1>7. CASE busy /\ Deactivate
  BY <1>7, DeactivateKeepsS, GoneKeepsS
<1>8. CASE busy /\ Edit
  BY <1>8, EditKeepsS, UnknownKeepsS, RaiseKeepsS DEF Edit, RefuseUpdate
<1>9. CASE busy /\ (Write \/ WriteGone)
  BY <1>1, <1>9, WriteKeepsS, GoneKeepsS
<1>10. CASE UNCHANGED vars
  <2>1. /\ UNCHANGED <<ldap, seen, queue, azure, job, past, lapsed, failed, raced>>
        /\ Calm' = Calm /\ busy' = busy
    BY <1>10 DEF vars, Calm, busy
  <2>2. Mails' /\ InOrder' /\ NotYet' /\ OwnCall'
    BY <2>1 DEF SInv, Mails, InOrder, NotYet, OwnCall, Targets
  <2>3. AtRest'
    BY <2>1, RestStays DEF SInv, AtRest
  <2>4. InCall'
    BY <2>1, CallStays DEF SInv
  <2> QED BY <2>2, <2>3, <2>4 DEF SInv
<1> QED BY <1>2, <1>3, <1>4, <1>5, <1>6, <1>7, <1>8, <1>9, <1>10 DEF Next, Listener

LEMMA SInvariance == Spec => [](KInv /\ SInv)
<1>1. Init => KInv /\ SInv
  BY InitKInv, InitSInv
<1>2. KInv /\ SInv /\ [Next]_vars => (KInv /\ SInv)'
  BY NextKInv, NextSInv
<1> QED BY <1>1, <1>2, PTL DEF Spec

-----------------------------------------------------------------------------
(* What the invariant is for.                                              *)

\* UserConnector keeps its promise: when every change has been handled, no
\* call has failed and no user was changed too early, each user has a working
\* account of its own name in exactly the connections of its entry.  For any
\* number of users, connections and changes, however often the listener was
\* killed, and whoever got whose user name.
THEOREM AccountsAreInSync == Spec => []InSync
<1>1. KInv /\ SInv => InSync
  <2> SUFFICES ASSUME KInv, SInv, Quiet, Calm, NEW u \in User \ lapsed, NEW t \in Tenant
               PROVE  IF Meant(u, t)
                      THEN LET i == ldap[u].data[t].id IN
                           /\ i # 0 /\ ldap[u].data[t].upn # NoName
                           /\ Accounts(u, t) = {azure[t][i]}
                           /\ azure[t][i].upn = ldap[u].mail
                           /\ azure[t][i].enabled /\ azure[t][i].member
                           /\ t \in Seats => azure[t][i].licensed
                      ELSE \A acc \in Accounts(u, t) :
                             ~(acc.enabled \/ acc.member \/ acc.licensed)
    BY DEF InSync
  <2>1. seen[u] = ldap[u]
    BY DEF KInv, Settled, Quiet, Range
  <2>2. HasAccount(u, t) /\ HasNone(u, t)
    BY DEF SInv, AtRest
  <2>3. Accounts(u, t) = {azure[t][i] : i \in OwnedBy(u, t)}
    BY DEF Accounts, OwnedBy
  <2>4. CASE Meant(u, t)
    <3>1. PICK i \in DOMAIN azure[t] :
            /\ OwnedBy(u, t) = {i} /\ Works(t, i)
            /\ azure[t][i].upn = ldap[u].mail
            /\ ldap[u].data[t].id = i /\ ldap[u].data[t].upn # NoName
      BY <2>1, <2>2, <2>4 DEF HasAccount, Meant
    <3>2. DOMAIN azure[t] = 1 .. Len(azure[t])
      BY DEF KInv, IInv, TypeOK
    <3> QED BY <2>3, <2>4, <3>1, <3>2 DEF Works
  <2>5. CASE ~Meant(u, t)
    <3>1. AllOff(u, t)
      BY <2>1, <2>2, <2>5 DEF HasNone, Meant
    <3> QED BY <2>3, <2>5, <3>1 DEF AllOff, IsOff
  <2> QED BY <2>4, <2>5
<1> QED BY <1>1, SInvariance, PTL

\* The step of OnlyOwnAccounts.
OwnOnly ==
  Calm => \A t \in Tenant : \A i \in DOMAIN azure[t] :
    LET acc == azure[t][i] IN
    acc # azure'[t][i] =>
      /\ azure'[t][i].owner = job.user
      /\ acc.owner # job.user /\ acc.owner \notin lapsed
           => ~Wants(seen[acc.owner], t)

\* A step that changes one account.
LEMMA OneOwn ==
  ASSUME KInv, busy, NEW k \in 1 .. Len(azure[job.at]), NEW acc \in AccountRecord,
         SetAccount(k, acc),
         Calm => /\ acc.owner = job.user
                 /\ azure[job.at][k].owner # job.user =>
                      ~Wants(seen[azure[job.at][k].owner], job.at)
  PROVE  OwnOnly
<1>1. /\ \A s \in Tenant \ {job.at} : azure'[s] = azure[s]
      /\ \A j \in DOMAIN azure[job.at] \ {k} : azure'[job.at][j] = azure[job.at][j]
      /\ azure'[job.at][k] = acc
  BY OneAccount
<1> QED BY <1>1 DEF OwnOnly

LEMMA NextOwnOnly == KInv /\ SInv /\ [Next]_vars => OwnOnly
<1> SUFFICES ASSUME KInv, SInv, [Next]_vars, Calm PROVE OwnOnly
  BY DEF OwnOnly
<1>1. CASE UNCHANGED azure
  BY <1>1 DEF OwnOnly
<1>2. ASSUME busy, CreateAccount PROVE OwnOnly
  <2>1. /\ azure \in [Tenant -> Seq(AccountRecord)] /\ job.at \in Tenant
        /\ \E acc : azure' = [azure EXCEPT ![job.at] = Append(@, acc)]
    BY <1>2, JobParts DEF CreateAccount, KInv
  <2>2. \A t \in Tenant : \A i \in DOMAIN azure[t] : azure'[t][i] = azure[t][i]
    <3>1. PICK acc : azure' = [azure EXCEPT ![job.at] = Append(@, acc)]
      BY <2>1
    <3>2. /\ \A t \in Tenant \ {job.at} : azure'[t] = azure[t]
          /\ azure'[job.at] = Append(azure[job.at], acc)
          /\ azure[job.at] \in Seq(AccountRecord)
      BY <2>1, <3>1
    <3>3. \A i \in DOMAIN azure[job.at] : azure'[job.at][i] = azure[job.at][i]
      BY <3>2
    <3> QED BY <3>2, <3>3
  <2> QED BY <2>2 DEF OwnOnly
<1>3. ASSUME busy, TakeAccount PROVE OwnOnly
  <2>1. PICK k \in DOMAIN azure[job.at] :
          /\ Named(job.new.mail) \cup Owned(job.user) = {k}
          /\ SetAccount(k, [Account(k) EXCEPT !.owner = job.user, !.upn = job.new.mail,
                                              !.enabled = TRUE])
    BY <1>3 DEF TakeAccount
  <2> DEFINE acc == [Account(k) EXCEPT !.owner = job.user, !.upn = job.new.mail, !.enabled = TRUE]
  <2>2. k \in 1 .. Len(azure[job.at])
    BY <1>3, JobParts DEF KInv
  <2>3. Account(k) \in AccountRecord /\ Account(k) = azure[job.at][k]
    BY <1>3, <2>2, AccountParts DEF KInv, Account
  <2>4. acc \in AccountRecord /\ acc.owner = job.user
    BY <1>3, <2>3, JobParts DEF KInv, AccountRecord
  <2>5. SetAccount(k, acc)
    BY <2>1
  <2> HIDE DEF acc
  <2>6. ASSUME azure[job.at][k].owner # job.user
        PROVE  ~Wants(seen[azure[job.at][k].owner], job.at)
    <3>1. azure[job.at][k].upn = job.new.mail
      BY <2>1, <2>6 DEF Named, Owned, Account
    <3>2. job.new.life = "here"
      BY <1>3, Begun DEF TakeAccount, NewPC, MidNew, ReadyNew
    <3>3. azure[job.at][k].owner \in User /\ job.at \in Tenant
      BY <1>3, <2>3, JobParts DEF AccountRecord, KInv
    <3> QED BY <1>3, <2>6, <3>1, <3>2, <3>3, Passes
  <2> QED BY <1>3, <2>2, <2>4, <2>5, <2>6, OneOwn
<1>4. ASSUME busy, NEW k \in 1 .. Len(azure[job.at]), OwnedBy(job.user, job.at) = {k},
             NEW acc \in AccountRecord, acc.owner = azure[job.at][k].owner,
             SetAccount(k, acc)
      PROVE  OwnOnly
  <2>1. azure[job.at][k].owner = job.user
    BY <1>4 DEF OwnedBy
  <2> QED BY <1>4, <2>1, OneOwn
<1>5. ASSUME busy, AssignLicence \/ Join PROVE UNCHANGED azure \/ OwnOnly
  <2>1. job.id \in 1 .. Len(azure[job.at])
    BY <1>5 DEF AssignLicence, Join, KInv, IInv, Handling, AtAccount
  <2>2. OwnedBy(job.user, job.at) = {job.id}
    <3>1. job.pc \in {"licence", "join"}
      BY <1>5 DEF AssignLicence, Join
    <3>2. job.op = "new" => MidNew
      BY <1>5, <3>1, Begun
    <3>3. job.op = "new"
      BY <1>5, <3>1, Begun DEF NewPC
    <3> QED BY <3>1, <3>2, <3>3 DEF MidNew
  <2>3. Account(job.id) \in AccountRecord /\ Account(job.id) = azure[job.at][job.id]
    BY <1>5, <2>1, AccountParts DEF KInv, Account
  <2>4. CASE AssignLicence
    <3> DEFINE acc == [Account(job.id) EXCEPT !.licensed = @ \/ job.at \in Seats]
    <3>1. acc \in AccountRecord /\ acc.owner = azure[job.at][job.id].owner
      BY <2>3 DEF AccountRecord
    <3>2. SetAccount(job.id, acc)
      BY <2>4 DEF AssignLicence
    <3> HIDE DEF acc
    <3> QED BY <1>4, <1>5, <2>1, <2>2, <3>1, <3>2
  <2>5. CASE Join
    <3> DEFINE acc == [Account(job.id) EXCEPT !.member = TRUE]
    <3>1. acc \in AccountRecord /\ acc.owner = azure[job.at][job.id].owner
      BY <2>3 DEF AccountRecord
    <3>2. UNCHANGED azure \/ SetAccount(job.id, acc)
      BY <2>5 DEF Join
    <3> HIDE DEF acc
    <3> QED BY <1>4, <1>5, <2>1, <2>2, <3>1, <3>2
  <2> QED BY <1>5, <2>4, <2>5
<1>6. ASSUME busy, Disable \/ Leave \/ RemoveLicences PROVE UNCHANGED azure \/ OwnOnly
  <2>1. job.pc \in OffPC /\ job.op \in Off \cup {"del"} /\ job.pc # "pick"
    BY <1>6 DEF Disable, Leave, RemoveLicences, KInv, Operation, OffPC
  <2>2. OwnedBy(job.user, job.at) = {job.id}
    BY <1>6, <2>1, Begun DEF MidOff
  <2>3. job.id \in 1 .. Len(azure[job.at])
    <3>1. DOMAIN azure[job.at] = 1 .. Len(azure[job.at])
      BY <1>6, JobParts DEF KInv
    <3> QED BY <2>2, <3>1 DEF OwnedBy
  <2>4. Account(job.id) \in AccountRecord /\ Account(job.id) = azure[job.at][job.id]
    BY <1>6, <2>3, AccountParts DEF KInv, Account
  <2>5. CASE Disable
    <3> DEFINE name == IF job.op = "off" THEN Account(job.id).upn ELSE Renamed
               acc == [Account(job.id) EXCEPT !.enabled = FALSE, !.upn = name]
    <3>1. name \in Mail \cup {Renamed}
      BY <2>4 DEF AccountRecord
    <3>2. SetAccount(job.id, [Account(job.id) EXCEPT !.enabled = FALSE,
                                !.upn = IF job.op = "off" THEN @ ELSE Renamed])
      BY <2>5 DEF Disable
    <3>3. SetAccount(job.id, acc)
      BY <2>4, <3>2 DEF AccountRecord
    <3> HIDE DEF name
    <3>4. acc \in AccountRecord /\ acc.owner = azure[job.at][job.id].owner
      BY <2>4, <3>1 DEF AccountRecord
    <3> HIDE DEF acc
    <3> QED BY <1>4, <1>6, <2>2, <2>3, <3>3, <3>4
  <2>6. CASE Leave
    <3> DEFINE acc == [Account(job.id) EXCEPT !.member = FALSE]
    <3>1. acc \in AccountRecord /\ acc.owner = azure[job.at][job.id].owner
      BY <2>4 DEF AccountRecord
    <3>2. UNCHANGED azure \/ SetAccount(job.id, acc)
      BY <2>6 DEF Leave
    <3> HIDE DEF acc
    <3> QED BY <1>4, <1>6, <2>2, <2>3, <3>1, <3>2
  <2>7. CASE RemoveLicences
    <3> DEFINE acc == [Account(job.id) EXCEPT !.licensed = FALSE]
    <3>1. acc \in AccountRecord /\ acc.owner = azure[job.at][job.id].owner
      BY <2>4 DEF AccountRecord
    <3>2. SetAccount(job.id, acc)
      BY <2>7 DEF RemoveLicences
    <3> HIDE DEF acc
    <3> QED BY <1>4, <1>6, <2>2, <2>3, <3>1, <3>2
  <2> QED BY <1>6, <2>5, <2>6, <2>7
<1>7. ASSUME busy, Update PROVE OwnOnly
  <2>1. PICK k \in Known : SetAccount(k, [Account(k) EXCEPT !.upn = job.new.mail])
    BY <1>7 DEF Update
  <2>2. OwnedBy(job.user, job.at) = {k}
    BY <1>7, <2>1, EditFinds DEF Update
  <2>3. k \in 1 .. Len(azure[job.at])
    <3>1. DOMAIN azure[job.at] = 1 .. Len(azure[job.at])
      BY <1>7, JobParts DEF KInv
    <3> QED BY <2>2, <3>1 DEF OwnedBy
  <2> DEFINE acc == [Account(k) EXCEPT !.upn = job.new.mail]
  <2>4. Account(k) \in AccountRecord /\ Account(k) = azure[job.at][k] /\ job.new.mail \in Mail
    BY <1>7, <2>3, AccountParts, JobParts DEF KInv, Account
  <2>5. acc \in AccountRecord /\ acc.owner = azure[job.at][k].owner
    BY <2>4 DEF AccountRecord
  <2>6. SetAccount(k, acc)
    BY <2>1
  <2> HIDE DEF acc
  <2> QED BY <1>4, <1>7, <2>2, <2>3, <2>5, <2>6
<1>8. \/ UNCHANGED azure
      \/ busy /\ \/ CreateAccount \/ TakeAccount \/ AssignLicence \/ Join
                 \/ Disable \/ Leave \/ RemoveLicences \/ Update
  <2>1. Admin => UNCHANGED azure
    BY DEF Admin, Add, Switch, Rename, Connect, SetExpiry, Delete, Put
  <2>2. DayPasses \/ Start \/ Fails \/ Crash \/ WriteGone \/ Write \/ Finish \/ Pick => UNCHANGED azure
    BY DEF DayPasses, Start, Fails, Crash, WriteGone, Write, Finish, Pick, Raise, Return
  <2>3. RefuseAccount \/ DisableUnknown \/ Same \/ RefuseUpdate \/ Unknown => UNCHANGED azure
    BY DEF RefuseAccount, DisableUnknown, Same, RefuseUpdate, Unknown, Raise, Return
  <2> QED BY <2>1, <2>2, <2>3 DEF Next, Listener, Reactivate, Deactivate, Edit, vars
<1> QED BY <1>1, <1>2, <1>3, <1>5, <1>6, <1>7, <1>8

\* The listener never touches another user's account, but where a user gets a
\* name that one had who, as the listener knows it, is not to have an account
\* in that connection: who is handled first decides, and the queue keeps the
\* order in which the names moved.
THEOREM OnlyOwnAccountsChange == Spec => OnlyOwnAccounts
<1>1. KInv /\ SInv /\ [Next]_vars => [OwnOnly]_vars
  BY NextOwnOnly
<1>2. Spec => [][OwnOnly]_vars
  BY <1>1, SInvariance, PTL DEF Spec
<1>3. [][OwnOnly]_vars => OnlyOwnAccounts
  BY DEF OwnOnly, OnlyOwnAccounts
<1> QED BY <1>2, <1>3

-----------------------------------------------------------------------------
(* The module's own changes come to an end.                                *)

\* The user has its account in the connection, and the entry knows it.
Given(u, t) ==
  /\ ldap[u].life = "here"
  /\ \E i \in DOMAIN azure[t] :
       /\ OwnedBy(u, t) = {i} /\ azure[t][i].upn = ldap[u].mail
       /\ ldap[u].data[t] = [id |-> i, upn |-> ldap[u].mail]

\* A call for the module's own change.
Echo == busy /\ job.old.data # job.new.data

\* What the module has written, and only that, is what the listener is
\* called for again.
Written ==
  \A u \in User :
    seen[u].data # ldap[u].data /\ (busy /\ job.user = u => Echo) =>
      /\ Untouched(seen[u], ldap[u])
      /\ \A t \in ldap[u].aliases \ seen[u].aliases : Given(u, t)

\* Such a call finds accounts of the user, and nothing to change.
EchoTask(op, t) ==
  \/ op = "new" /\ t \in job.new.aliases \ job.old.aliases
  \/ op = "edit" /\ t \in job.old.aliases

EchoTasks ==
  Echo =>
    /\ ldap[job.user] = job.new
    /\ \A w \in job.todo : EchoTask(w[1], w[2])
    /\ job.pc # "pick" => EchoTask(job.op, job.at)

\* The default connection is the only one of the call, and is added last.
Alone ==
  busy =>
    /\ \A w \in job.todo : w[1] = "new" /\ w[2] \notin job.new.aliases => job.todo = {w}
    /\ job.pc # "pick" /\ job.op = "new" /\ job.at \notin job.new.aliases => job.todo = {}
    /\ \A t \in ldap[job.user].aliases \ job.new.aliases :
         /\ Given(job.user, t) /\ job.todo = {}
         /\ job.pc = "pick" \/ (job.pc = "join" /\ job.at = t)

EInv == Calm /\ crashes = 0 => Written /\ EchoTasks /\ Alone

LEMMA InitEInv == Init => EInv
BY DEF Init, EInv, Written, EchoTasks, Alone, Echo, busy

\* Where a user's entry and its account's name stay, it is given what it was.
LEMMA GivenStays ==
  ASSUME NEW u \in User, NEW t \in Tenant, Given(u, t), ldap'[u] = ldap[u],
         OwnedBy(u, t)' = OwnedBy(u, t),
         \A j \in OwnedBy(u, t) :
           j \in DOMAIN azure'[t] /\ azure'[t][j].upn = azure[t][j].upn
  PROVE  Given(u, t)'
BY DEF Given

LEMMA GivenRests ==
  ASSUME NEW u \in User, NEW t \in Tenant, Given(u, t), ldap'[u] = ldap[u], azure'[t] = azure[t]
  PROVE  Given(u, t)'
<1>1. OwnedBy(u, t)' = OwnedBy(u, t) /\ OwnedBy(u, t) \subseteq DOMAIN azure'[t]
  BY DEF OwnedBy
<1> QED BY <1>1, GivenStays

LEMMA DayKeepsE == KInv /\ EInv /\ DayPasses => EInv'
<1> SUFFICES ASSUME KInv, EInv, DayPasses, Calm, crashes = 0 PROVE EInv'
  BY DEF EInv, DayPasses, Calm
<1>1. UNCHANGED <<ldap, seen, azure, job>>
  BY DEF DayPasses
<1>2. \A u \in User, t \in Tenant : Given(u, t) => Given(u, t)'
  BY <1>1, GivenRests
<1>3. \A u \in User : ldap[u].aliases \subseteq Tenant
  BY DEF KInv, IInv, TypeOK, Person
<1>4. Written'
  BY <1>1, <1>2, <1>3 DEF EInv, Written, Untouched, OwnWrites, Echo, busy
<1>5. EchoTasks'
  BY <1>1 DEF EInv, EchoTasks, EchoTask, Echo, busy
<1>6. Alone'
  <2>1. busy => job.user \in User
    BY JobParts DEF KInv
  <2> QED BY <1>1, <1>2, <1>3, <2>1 DEF EInv, Alone, busy
<1> QED BY <1>4, <1>5, <1>6 DEF EInv

LEMMA AdminKeepsE == KInv /\ SInv /\ EInv /\ Admin => EInv'
<1> SUFFICES ASSUME KInv, SInv, EInv, NEW u \in User, NEW p \in Person, Change(u, p),
                    Calm', crashes' = 0
             PROVE  EInv'
  BY AdminChanges DEF SInv, EInv
<1>1. /\ ldap' = [ldap EXCEPT ![u] = p]
      /\ raced' = (raced \/ u \in Range(queue))
      /\ UNCHANGED <<seen, azure, job, failed, crashes>> /\ p.data = ldap[u].data
  BY DEF Change, Put
<1>2. /\ ldap'[u] = p /\ ldap \in [User -> Person]
      /\ \A v \in User \ {u} : ldap'[v] = ldap[v]
  BY <1>1 DEF KInv, IInv, TypeOK
<1>3. /\ Calm /\ crashes = 0 /\ seen[u] = ldap[u]
      /\ busy => job.user \in User \ {u}
  BY <1>1, HeadAndTail, JobParts DEF KInv, Settled, Current, Calm
<1>4. \A v \in User \ {u}, t \in Tenant : Given(v, t) => Given(v, t)'
  BY <1>1, <1>2, GivenRests
<1>5. \A v \in User : ldap[v].aliases \subseteq Tenant
  BY <1>2 DEF Person
<1>6. Written'
  <2> SUFFICES ASSUME NEW v \in User, seen[v].data # ldap'[v].data,
                      busy /\ job.user = v => Echo
               PROVE  /\ Untouched(seen[v], ldap'[v])
                      /\ \A t \in ldap'[v].aliases \ seen[v].aliases : Given(v, t)'
    BY <1>1 DEF Written, Untouched, OwnWrites, Echo, busy
  <2>1. v \in User \ {u}
    BY <1>1, <1>2, <1>3
  <2> QED BY <1>2, <1>3, <1>4, <1>5, <2>1 DEF EInv, Written
<1>7. EchoTasks'
  BY <1>1, <1>2, <1>3 DEF EInv, EchoTasks, EchoTask, Echo, busy
<1>8. Alone'
  BY <1>1, <1>2, <1>3, <1>4, <1>5 DEF EInv, Alone, busy
<1> QED BY <1>6, <1>7, <1>8 DEF EInv

\* What a call is to do, where the module itself made the change, and where
\* it is to add the default connection.
LEMMA WorkForEcho ==
  ASSUME NEW o \in Person, NEW n \in Person
  PROVE  /\ OwnWrites(o, n) => \A w \in Work(o, n) :
              \/ w[1] = "new" /\ w[2] \in n.aliases \ o.aliases
              \/ w[1] = "edit" /\ w[2] \in o.aliases
         /\ \A w \in Work(o, n) : w[1] = "new" /\ w[2] \notin n.aliases => Work(o, n) = {w}
<1>1. \A op, A : \A w \in Tasks(op, A) : w[1] = op /\ w[2] \in A
  BY DEF Tasks
<1>2. CASE n.life # "here" \/ ~ShouldSync(n)
  <2>1. ~ShouldSync(n)
    BY <1>2 DEF ShouldSync
  <2>2. \/ Work(o, n) = {}
        \/ /\ ShouldSync(o)
           /\ Work(o, n) = Tasks("del", o.aliases) \/ Work(o, n) = Tasks("off", o.aliases)
    BY <2>1 DEF Work
  <2>3. OwnWrites(o, n) => ~ShouldSync(o)
    BY <2>1 DEF OwnWrites, ShouldSync
  <2>4. \A w \in Work(o, n) : w[1] # "new"
    BY <1>1, <2>2
  <2> QED BY <2>2, <2>3, <2>4
<1>3. CASE n.life = "here" /\ ShouldSync(n) /\ ShouldSync(o)
  <2>1. Work(o, n) = UNION {Tasks("new", n.aliases \ o.aliases), Tasks("out", o.aliases \ n.aliases),
                            Tasks("edit", o.aliases \cap n.aliases)}
    BY <1>3 DEF Work
  <2>2. \A w \in Work(o, n) :
          \/ w[1] = "new" /\ w[2] \in n.aliases \ o.aliases
          \/ w[1] = "out" /\ w[2] \in o.aliases \ n.aliases
          \/ w[1] = "edit" /\ w[2] \in o.aliases \cap n.aliases
    BY <1>1, <2>1
  <2> QED BY <2>2 DEF OwnWrites
<1>4. CASE n.life = "here" /\ ShouldSync(n) /\ ~ShouldSync(o)
  <2>1. Work(o, n) = Tasks("new", Targets(n))
    BY <1>4 DEF Work
  <2>2. ~OwnWrites(o, n)
    BY <1>4 DEF OwnWrites, ShouldSync
  <2>3. ASSUME NEW w \in Work(o, n), w[2] \notin n.aliases PROVE Work(o, n) = {w}
    <3>1. n.aliases = {}
      BY <1>1, <2>1, <2>3 DEF Targets
    <3>2. Work(o, n) = {"new"} \X ({Default} \cap Tenant)
      BY <2>1, <3>1 DEF Targets, Tasks
    <3> QED BY <3>2
  <2> QED BY <2>2, <2>3
<1> QED BY <1>2, <1>3, <1>4

LEMMA StartKeepsE == KInv /\ EInv /\ Start => EInv'
<1> SUFFICES ASSUME KInv, EInv, Start, Calm, crashes = 0 PROVE EInv'
  BY DEF EInv, Start, history, Calm
<1>1. PICK u \in User : u = queue[1] /\ ldap[u] \in Person /\ seen[u] \in Person
  <2>1. queue \in Seq(User) /\ queue # <<>>
    BY DEF Start, KInv, IInv, TypeOK
  <2>2. queue[1] \in User
    BY <2>1
  <2> QED BY <2>2 DEF KInv, IInv, TypeOK
<1>2. /\ job'.pc = "pick" /\ job'.user = u /\ job'.old = seen[u] /\ job'.new = ldap[u]
      /\ job'.todo = Work(seen[u], ldap[u]) /\ ~busy
      /\ UNCHANGED <<ldap, seen, azure>>
  BY <1>1 DEF Start, directory
<1>3. busy' /\ (Echo' <=> seen[u].data # ldap[u].data)
  BY <1>2 DEF Echo, busy, Idle
<1>4. Written'
  <2>1. \A v \in User, t \in Tenant : Given(v, t) => Given(v, t)'
    BY <1>2, GivenRests
  <2>2. \A v \in User : ldap[v].aliases \subseteq Tenant
    BY DEF KInv, IInv, TypeOK, Person
  <2> QED BY <1>2, <2>1, <2>2 DEF EInv, Written, Untouched, OwnWrites
<1>5. EchoTasks'
  <2> SUFFICES ASSUME seen[u].data # ldap[u].data PROVE EchoTasks'
    BY <1>3 DEF EchoTasks
  <2>1. OwnWrites(seen[u], ldap[u])
    BY <1>2 DEF EInv, Written, Untouched
  <2> QED BY <1>1, <1>2, <2>1, WorkForEcho DEF EchoTasks, EchoTask
<1>6. Alone'
  BY <1>1, <1>2, WorkForEcho DEF Alone
<1> QED BY <1>4, <1>5, <1>6 DEF EInv

LEMMA ReturnKeepsE ==
  ASSUME KInv, SInv, EInv, busy, Return, Calm' => Calm
  PROVE  EInv'
<1> SUFFICES ASSUME Calm, crashes = 0 PROVE EInv'
  BY DEF EInv, Return
<1>1. /\ seen' = [seen EXCEPT ![job.user] = job.new] /\ ~busy'
      /\ UNCHANGED <<ldap, azure>>
  BY DEF Return, busy
<1>2. job.user \in User /\ seen \in [User -> Person] /\ ldap \in [User -> Person]
  BY JobParts DEF KInv, IInv, TypeOK
<1>3. \A v \in User, t \in Tenant : Given(v, t) => Given(v, t)'
  BY <1>1, GivenRests
<1>4. \A v \in User : ldap[v].aliases \subseteq Tenant
  BY <1>2 DEF Person
<1>5. Untouched(job.new, ldap[job.user])
  BY OwnUser DEF KInv, Current, Calm, Untouched
<1>6. Written'
  <2> SUFFICES ASSUME NEW v \in User, seen'[v].data # ldap[v].data
               PROVE  /\ Untouched(seen'[v], ldap[v])
                      /\ \A t \in ldap[v].aliases \ seen'[v].aliases : Given(v, t)'
    BY <1>1 DEF Written, Untouched, OwnWrites
  <2>1. CASE v = job.user
    BY <1>1, <1>2, <1>3, <1>4, <1>5, <2>1 DEF EInv, Alone
  <2>2. CASE v # job.user
    BY <1>1, <1>2, <1>3, <1>4, <2>2 DEF EInv, Written
  <2> QED BY <2>1, <2>2
<1> QED BY <1>1, <1>6 DEF EInv, EchoTasks, Alone, Echo

LEMMA PickKeepsE == KInv /\ EInv /\ busy /\ Pick => EInv'
<1> SUFFICES ASSUME KInv, EInv, busy, Pick, Calm', crashes' = 0 PROVE EInv'
  BY DEF EInv
<1>0. Calm /\ crashes = 0
  <2>1. UNCHANGED <<failed, raced, crashes>>
    BY DEF Pick, history
  <2> QED BY <2>1 DEF Calm
<1>1. PICK w \in job.todo :
        job' = [job EXCEPT !.pc = FirstStep(w[1]), !.todo = @ \ {w}, !.op = w[1], !.at = w[2],
                           !.id = IF w[1] = "new" THEN 0 ELSE job.old.data[w[2]].id]
  BY DEF Pick
<1>2. /\ job \in Job /\ job.user \in User
      /\ UNCHANGED <<ldap, seen, azure>>
  BY JobParts DEF KInv, Pick, directory
<1>3. /\ job'.pc = FirstStep(w[1]) /\ job'.todo = job.todo \ {w}
      /\ job'.op = w[1] /\ job'.at = w[2]
      /\ job'.user = job.user /\ job'.old = job.old /\ job'.new = job.new
  BY <1>1, <1>2 DEF Job
<1>4. busy' /\ Echo' = Echo
  BY <1>3 DEF Echo, busy, Idle, FirstStep
<1>5. Written'
  <2>1. \A v \in User, t \in Tenant : Given(v, t) => Given(v, t)'
    BY <1>2, GivenRests
  <2>2. \A v \in User : ldap[v].aliases \subseteq Tenant
    BY DEF KInv, IInv, TypeOK, Person
  <2> QED BY <1>0, <1>2, <1>3, <1>4, <2>1, <2>2 DEF EInv, Written, Untouched, OwnWrites
<1>6. EchoTasks'
  BY <1>0, <1>2, <1>3, <1>4 DEF EInv, EchoTasks, EchoTask
<1>7. Alone'
  BY <1>0, <1>2, <1>3 DEF EInv, Alone
<1> QED BY <1>5, <1>6, <1>7 DEF EInv

-----------------------------------------------------------------------------
(* The steps of an operation.                                              *)

\* The steps that go on with the call, without writing the entry.
Step ==
  \/ CreateAccount \/ TakeAccount \/ AssignLicence \/ Join
  \/ Disable \/ Leave \/ RemoveLicences \/ Same \/ Update

LEMMA StepJob ==
  ASSUME KInv, busy, Step
  PROVE  /\ UNCHANGED <<ldap, seen, queue, crashes, raced>>
         /\ Calm' => Calm
         /\ busy' /\ job.pc # "pick" /\ (job.pc = "join" => job'.pc = "pick")
         /\ job'.user = job.user /\ job'.old = job.old /\ job'.new = job.new
         /\ job'.op = job.op /\ job'.at = job.at /\ job'.todo = job.todo
<1>1. job \in Job
  BY JobParts DEF KInv
<1>2. /\ UNCHANGED <<ldap, seen, queue, crashes, raced>>
      /\ UNCHANGED failed \/ failed' = TRUE
  BY DEF Step, CreateAccount, TakeAccount, AssignLicence, Join, Disable, Leave,
         RemoveLicences, Same, Update, directory, history
<1>3. Calm' => Calm
  BY <1>2 DEF Calm
<1>4. job.pc # "pick"
  BY DEF Step, CreateAccount, TakeAccount, AssignLicence, Join, Disable, Leave,
         RemoveLicences, Same, Update
<1>5. \E x \in PC, i \in Nat : /\ job' = [job EXCEPT !.pc = x, !.id = i]
                               /\ job.pc = "join" => x = "pick"
  <2>1. \A x : job' = [job EXCEPT !.pc = x] => job' = [job EXCEPT !.pc = x, !.id = job.id]
    BY <1>1 DEF Job
  <2>2. job.id \in Nat
    BY <1>1 DEF Job
  <2>3. \A x \in PC : Goto(x) /\ (job.pc = "join" => x = "pick") =>
          \E y \in PC, i \in Nat : /\ job' = [job EXCEPT !.pc = y, !.id = i]
                                   /\ job.pc = "join" => y = "pick"
    BY <2>1, <2>2 DEF Goto
  <2>4. CASE CreateAccount
    <3>1. Len(azure[job.at]) + 1 \in Nat
      BY JobParts DEF KInv
    <3> QED BY <2>4, <3>1 DEF CreateAccount, PC
  <2>5. CASE TakeAccount
    <3>1. DOMAIN azure[job.at] \subseteq Nat
      BY JobParts DEF KInv
    <3> QED BY <2>5, <3>1 DEF TakeAccount, PC
  <2>6. CASE AssignLicence \/ Join \/ Disable \/ Leave \/ Same \/ Update
    <3>1. \E x \in PC : Goto(x) /\ (job.pc = "join" => x = "pick")
      BY <2>6 DEF AssignLicence, Join, Disable, Leave, Same, Update, PC
    <3> QED BY <2>3, <3>1
  <2>7. CASE RemoveLicences
    <3>1. \E x \in PC : Goto(x) /\ (job.pc = "join" => x = "pick")
      BY <2>7 DEF RemoveLicences, PC
    <3> QED BY <2>3, <3>1
  <2> QED BY <2>4, <2>5, <2>6, <2>7 DEF Step
<1> QED BY <1>2, <1>3, <1>4, <1>5, SameJob

\* A step takes nothing from a user who is given a connection, but from the
\* one whose account it is to put out of work.
LEMMA GivenKept ==
  ASSUME KInv, SInv, busy, UNCHANGED ldap, NEW u \in User, u = job.user,
         NEW t \in Tenant, t = job.at,
         NEW k \in 1 .. Len(azure[t]), NEW acc \in AccountRecord, SetAccount(k, acc),
         \/ acc.owner = azure[t][k].owner /\ acc.upn = azure[t][k].upn
         \/ /\ OwnedBy(u, t) \subseteq {k} /\ acc.owner = u
            /\ \/ azure[t][k].owner = u
               \/ azure[t][k].upn = job.new.mail /\ job.new.life = "here"
            /\ acc.upn = job.new.mail \/ job.op \in Off \cup {"del"},
         Calm,
         NEW v \in User, v = u => job.op \notin Off \cup {"del"},
         NEW s \in Tenant, Given(v, s)
  PROVE  Given(v, s)'
<1>1. /\ \A r \in Tenant \ {t} : azure'[r] = azure[r]
      /\ DOMAIN azure'[t] = DOMAIN azure[t] /\ k \in DOMAIN azure[t]
      /\ azure'[t][k] = acc
      /\ \A j \in DOMAIN azure[t] \ {k} : azure'[t][j] = azure[t][j]
  BY OneAccount
<1>2. CASE s # t
  BY <1>1, <1>2, GivenRests
<1>3. CASE s = t /\ acc.owner = azure[t][k].owner /\ acc.upn = azure[t][k].upn
  <2>1. OwnedBy(v, t)' = OwnedBy(v, t)
    BY <1>1, <1>3 DEF OwnedBy
  <2>2. \A j \in OwnedBy(v, t) : j \in DOMAIN azure'[t] /\ azure'[t][j].upn = azure[t][j].upn
    BY <1>1, <1>3 DEF OwnedBy
  <2> QED BY <1>3, <2>1, <2>2, GivenStays
<1>4. CASE /\ s = t /\ OwnedBy(u, t) \subseteq {k} /\ acc.owner = u
           /\ \/ azure[t][k].owner = u
              \/ azure[t][k].upn = job.new.mail /\ job.new.life = "here"
           /\ acc.upn = job.new.mail \/ job.op \in Off \cup {"del"}
  <2>1. PICK i \in DOMAIN azure[t] : /\ OwnedBy(v, t) = {i} /\ azure[t][i].upn = ldap[v].mail
                                     /\ ldap[v].data[t] = [id |-> i, upn |-> ldap[v].mail]
                                     /\ ldap[v].life = "here"
    BY <1>4 DEF Given
  <2>2. ldap[u].mail = job.new.mail /\ ldap[u].life = job.new.life
    BY OwnUser
  <2>3. CASE v = u
    <3>1. i = k /\ acc.upn = job.new.mail
      BY <1>4, <2>1, <2>3
    <3>2. OwnedBy(u, t)' = {k}
      BY <1>1, <1>4, <2>1, <2>3, <3>1 DEF OwnedBy
    <3> QED BY <1>1, <1>4, <2>1, <2>2, <2>3, <3>1, <3>2 DEF Given
  <2>4. CASE v # u
    <3>1. azure[t][k].owner # v
      <4> SUFFICES ASSUME azure[t][k].owner = v PROVE FALSE
        OBVIOUS
      <4>1. i = k
        BY <1>1, <2>1 DEF OwnedBy
      <4> QED BY <1>4, <2>1, <2>2, <2>4, <4>1 DEF SInv, Mails
    <3>2. OwnedBy(v, t)' = OwnedBy(v, t)
      BY <1>1, <1>4, <2>4, <3>1 DEF OwnedBy
    <3>3. \A j \in OwnedBy(v, t) : j \in DOMAIN azure'[t] /\ azure'[t][j].upn = azure[t][j].upn
      BY <1>1, <3>1 DEF OwnedBy
    <3> QED BY <1>4, <3>2, <3>3, GivenStays
  <2> QED BY <2>3, <2>4
<1> QED BY <1>2, <1>3, <1>4

LEMMA StepGiven ==
  ASSUME KInv, SInv, busy, Step, Calm, Calm',
         NEW v \in User, v = job.user => job.op \notin Off \cup {"del"},
         NEW s \in Tenant, Given(v, s)
  PROVE  Given(v, s)'
<1>1. UNCHANGED ldap
  BY StepJob
<1>2. PICK u \in User, t \in Tenant : u = job.user /\ t = job.at
  BY JobParts DEF KInv
<1>3. DOMAIN azure[t] = 1 .. Len(azure[t])
  BY <1>2, JobParts DEF KInv
<1>4. CASE UNCHANGED azure
  BY <1>1, <1>4, GivenRests
<1>5. CASE CreateAccount
  <2>1. PICK acc : azure' = [azure EXCEPT ![t] = Append(@, acc)] /\ acc.owner = u
    <3> DEFINE a == [owner |-> u, upn |-> job.new.mail, enabled |-> TRUE,
                     member |-> FALSE, licensed |-> FALSE]
    <3>1. azure' = [azure EXCEPT ![t] = Append(@, a)]
      BY <1>2, <1>5 DEF CreateAccount
    <3>2. a.owner = u
      OBVIOUS
    <3> HIDE DEF a
    <3> QED BY <3>1, <3>2
  <2>2. azure \in [Tenant -> Seq(AccountRecord)] /\ azure[t] \in Seq(AccountRecord)
    BY <1>2, JobParts DEF KInv
  <2>3. /\ \A r \in Tenant \ {t} : azure'[r] = azure[r]
        /\ azure'[t] = Append(azure[t], acc)
    BY <2>1, <2>2
  <2>4. /\ DOMAIN azure'[t] = DOMAIN azure[t] \cup {Len(azure[t]) + 1}
        /\ azure'[t][Len(azure[t]) + 1] = acc
        /\ \A j \in DOMAIN azure[t] : azure'[t][j] = azure[t][j]
    BY <1>3, <2>2, <2>3
  <2>5. OwnedBy(u, t) = {}
    BY <1>2, <1>5 DEF CreateAccount, Owned, OwnedBy, Account
  <2>6. CASE s # t
    BY <1>1, <2>3, <2>6, GivenRests
  <2>7. CASE s = t
    <3>1. v # u
      BY <2>5, <2>7 DEF Given
    <3>2. OwnedBy(v, t)' = OwnedBy(v, t)
      BY <2>1, <2>4, <3>1 DEF OwnedBy
    <3>3. \A j \in OwnedBy(v, t) : j \in DOMAIN azure'[t] /\ azure'[t][j].upn = azure[t][j].upn
      BY <2>4 DEF OwnedBy
    <3> QED BY <1>1, <2>7, <3>2, <3>3, GivenStays
  <2> QED BY <2>6, <2>7
<1>6. CASE TakeAccount
  <2>1. PICK k \in DOMAIN azure[t] :
          /\ Named(job.new.mail) \cup Owned(u) = {k}
          /\ SetAccount(k, [Account(k) EXCEPT !.owner = u, !.upn = job.new.mail, !.enabled = TRUE])
    BY <1>2, <1>6 DEF TakeAccount
  <2> DEFINE acc == [Account(k) EXCEPT !.owner = u, !.upn = job.new.mail, !.enabled = TRUE]
  <2>2. k \in 1 .. Len(azure[t]) /\ Account(k) = azure[t][k]
    BY <1>2, <1>3 DEF Account
  <2>3. acc \in AccountRecord /\ acc.owner = u /\ acc.upn = job.new.mail
    BY <1>2, <2>2, AccountParts, JobParts DEF KInv, AccountRecord
  <2>4. SetAccount(k, acc)
    BY <2>1
  <2> HIDE DEF acc
  <2>5. /\ OwnedBy(u, t) \subseteq {k}
        /\ azure[t][k].owner = u \/ azure[t][k].upn = job.new.mail
    BY <1>2, <2>1 DEF Owned, Named, OwnedBy, Account
  <2>6. job.new.life = "here"
    BY <1>6, Begun DEF TakeAccount, NewPC, MidNew, ReadyNew
  <2> QED BY <1>1, <1>2, <2>2, <2>3, <2>4, <2>5, <2>6, GivenKept
<1>7. CASE (AssignLicence \/ Join \/ Leave \/ RemoveLicences) /\ ~UNCHANGED azure
  <2>1. PICK k \in 1 .. Len(azure[t]) : k = job.id
    BY <1>2, <1>7 DEF AssignLicence, Join, Leave, RemoveLicences, KInv, IInv, Handling, AtAccount
  <2>2. Account(k) \in AccountRecord /\ Account(k) = azure[t][k]
    BY <1>2, AccountParts DEF KInv, Account
  <2>3. \E x \in BOOLEAN : \/ SetAccount(k, [Account(k) EXCEPT !.licensed = x])
                           \/ SetAccount(k, [Account(k) EXCEPT !.member = x])
    <3>1. Account(k).licensed \in BOOLEAN
      BY <2>2 DEF AccountRecord
    <3>2. CASE AssignLicence
      <4>1. SetAccount(k, [Account(k) EXCEPT !.licensed = @ \/ t \in Seats])
        BY <1>2, <2>1, <3>2 DEF AssignLicence
      <4>2. SetAccount(k, [Account(k) EXCEPT !.licensed = Account(k).licensed \/ t \in Seats])
        BY <2>2, <4>1 DEF AccountRecord
      <4> QED BY <3>1, <4>2
    <3>3. CASE Join \/ Leave
      BY <1>7, <2>1, <3>3 DEF Join, Leave
    <3>4. CASE RemoveLicences
      BY <2>1, <3>4 DEF RemoveLicences
    <3> QED BY <1>7, <3>2, <3>3, <3>4
  <2>4. PICK acc \in AccountRecord : /\ SetAccount(k, acc) /\ acc.owner = azure[t][k].owner
                                     /\ acc.upn = azure[t][k].upn
    <3>1. \A x \in BOOLEAN :
            /\ [Account(k) EXCEPT !.licensed = x] \in AccountRecord
            /\ [Account(k) EXCEPT !.licensed = x].owner = azure[t][k].owner
            /\ [Account(k) EXCEPT !.licensed = x].upn = azure[t][k].upn
            /\ [Account(k) EXCEPT !.member = x] \in AccountRecord
            /\ [Account(k) EXCEPT !.member = x].owner = azure[t][k].owner
            /\ [Account(k) EXCEPT !.member = x].upn = azure[t][k].upn
      BY <2>2 DEF AccountRecord
    <3> QED BY <2>3, <3>1
  <2> QED BY <1>1, <1>2, <2>1, <2>4, GivenKept
<1>8. CASE Disable
  <2>1. job.pc \in OffPC /\ job.op \in Off \cup {"del"} /\ job.pc # "pick"
    BY <1>8 DEF Disable, KInv, Operation, OffPC
  <2>2. OwnedBy(u, t) = {job.id}
    BY <1>2, <2>1, Begun DEF MidOff
  <2>3. PICK k \in 1 .. Len(azure[t]) : k = job.id
    BY <1>3, <2>2 DEF OwnedBy
  <2>4. Account(k) \in AccountRecord /\ Account(k) = azure[t][k]
    BY <1>2, AccountParts DEF KInv, Account
  <2> DEFINE name == IF job.op = "off" THEN Account(k).upn ELSE Renamed
             acc == [Account(k) EXCEPT !.enabled = FALSE, !.upn = name]
  <2>5. name \in Mail \cup {Renamed}
    BY <2>4 DEF AccountRecord
  <2>6. SetAccount(k, [Account(k) EXCEPT !.enabled = FALSE,
                          !.upn = IF job.op = "off" THEN @ ELSE Renamed])
    BY <1>8, <2>3 DEF Disable
  <2>7. SetAccount(k, acc)
    BY <2>4, <2>6 DEF AccountRecord
  <2> HIDE DEF name
  <2>8. acc \in AccountRecord /\ acc.owner = azure[t][k].owner
    BY <2>4, <2>5 DEF AccountRecord
  <2> HIDE DEF acc
  <2>9. azure[t][k].owner = u /\ OwnedBy(u, t) \subseteq {k}
    BY <2>2, <2>3 DEF OwnedBy
  <2> QED BY <1>1, <1>2, <2>1, <2>7, <2>8, <2>9, GivenKept
<1>9. CASE Update
  <2>1. PICK k \in Known : SetAccount(k, [Account(k) EXCEPT !.upn = job.new.mail])
    BY <1>9 DEF Update
  <2>2. OwnedBy(u, t) = {k}
    BY <1>2, <1>9, <2>1, EditFinds DEF Update
  <2>3. k \in 1 .. Len(azure[t]) /\ azure[t][k].owner = u
    BY <1>3, <2>2 DEF OwnedBy
  <2> DEFINE acc == [Account(k) EXCEPT !.upn = job.new.mail]
  <2>4. Account(k) \in AccountRecord /\ Account(k) = azure[t][k] /\ job.new.mail \in Mail
    BY <1>2, <2>3, AccountParts, JobParts DEF KInv, Account
  <2>5. acc \in AccountRecord /\ acc.owner = azure[t][k].owner /\ acc.upn = job.new.mail
    BY <2>4 DEF AccountRecord
  <2>6. SetAccount(k, acc)
    BY <2>1
  <2> HIDE DEF acc
  <2> QED BY <1>1, <1>2, <2>2, <2>3, <2>5, <2>6, GivenKept
<1>10. Same => UNCHANGED azure
  BY DEF Same
<1> QED BY <1>4, <1>5, <1>6, <1>7, <1>8, <1>9, <1>10 DEF Step

LEMMA StepKeepsE == KInv /\ SInv /\ EInv /\ busy /\ Step => EInv'
<1> SUFFICES ASSUME KInv, SInv, EInv, busy, Step, Calm', crashes' = 0 PROVE EInv'
  BY DEF EInv
<1>1. /\ UNCHANGED <<ldap, seen, crashes>> /\ Calm
      /\ busy' /\ job.pc # "pick" /\ (job.pc = "join" => job'.pc = "pick")
      /\ job'.user = job.user /\ job'.old = job.old /\ job'.new = job.new
      /\ job'.op = job.op /\ job'.at = job.at /\ job'.todo = job.todo
  BY StepJob
<1>2. Echo' = Echo /\ job.user \in User
  BY <1>1, JobParts DEF Echo, KInv
<1>3. \A v \in User : ldap[v].aliases \subseteq Tenant
  BY DEF KInv, IInv, TypeOK, Person
<1>4. \A v \in User, s \in Tenant :
        /\ v = job.user => job.op \notin Off \cup {"del"}
        /\ Given(v, s)
        => Given(v, s)'
  BY <1>1, StepGiven
<1>5. Written /\ EchoTasks /\ Alone
  BY <1>1 DEF EInv
<1>6. Echo => job.op \in {"new", "edit"}
  BY <1>1, <1>5 DEF EchoTasks, EchoTask
<1>7. Written'
  <2> SUFFICES ASSUME NEW v \in User, seen[v].data # ldap[v].data,
                      job.user = v => Echo
               PROVE  /\ Untouched(seen[v], ldap[v])
                      /\ \A t \in ldap[v].aliases \ seen[v].aliases : Given(v, t)'
    BY <1>1, <1>2 DEF Written, Untouched, OwnWrites
  <2>1. v = job.user => job.op \notin Off \cup {"del"}
    BY <1>6 DEF Off
  <2> QED BY <1>3, <1>4, <1>5, <2>1 DEF Written
<1>8. EchoTasks'
  BY <1>1, <1>2, <1>5 DEF EchoTasks, EchoTask
<1>9. Alone'
  <2>1. job.pc = "join" => job.op = "new"
    BY DEF KInv, Operation, NewPC
  <2> QED BY <1>1, <1>2, <1>3, <1>4, <1>5, <2>1 DEF Alone, Off
<1> QED BY <1>7, <1>8, <1>9 DEF EInv

-----------------------------------------------------------------------------
(* Writing the entry.                                                      *)

\* In a call for the module's own change nothing is written.
LEMMA EchoWritesNothing ==
  ASSUME KInv, SInv, EInv, Calm, crashes = 0, Echo, Write
  PROVE  UNCHANGED <<ldap, queue>> /\ job.op = "new"
<1>1. busy
  BY DEF Echo
<1>2. PICK u \in User, t \in Tenant : u = job.user /\ t = job.at
  BY <1>1, JobParts DEF KInv
<1>3. job.pc = "write" /\ job.op \in Off \cup {"new"}
  BY <1>1, WriteParts DEF KInv, Operation
<1>4. job.op = "new" /\ t \in job.new.aliases \ job.old.aliases /\ ldap[u] = job.new
  BY <1>2, <1>3 DEF EInv, EchoTasks, EchoTask, Off
<1>5. Given(u, t)
  <2>1. seen[u] = job.old
    BY <1>1, <1>2, OwnUser
  <2> QED BY <1>2, <1>4, <2>1 DEF EInv, Written, Echo
<1>6. OwnedBy(u, t) = {job.id}
  BY <1>1, <1>2, <1>3, <1>4, Begun DEF MidNew
<1>7. ldap[u].data[t] = Entry
  BY <1>4, <1>5, <1>6 DEF Given, Entry
<1>8. NewData = job.data
  <2>1. job.data = ldap[u].data /\ job.data \in [Tenant -> [id : Nat, upn : Mail \cup {NoName}]]
    BY <1>1, <1>2, OwnUser, JobParts DEF KInv, Job
  <2> QED BY <1>2, <1>7, <2>1 DEF NewData
<1> QED BY <1>4, <1>8 DEF Write

LEMMA WriteKeepsE == KInv /\ SInv /\ EInv /\ busy /\ Write => EInv'
<1> SUFFICES ASSUME KInv, SInv, EInv, busy, Write, Calm', crashes' = 0 PROVE EInv'
  BY DEF EInv
<1>1. PICK u \in User, t \in Tenant : u = job.user /\ t = job.at
  BY JobParts DEF KInv
<1>2. /\ ldap'[u].life = ldap[u].life /\ ldap'[u].mail = ldap[u].mail
      /\ \/ ldap'[u].aliases = ldap[u].aliases
         \/ /\ ldap'[u].aliases = ldap[u].aliases \cup {t}
            /\ job.op = "new" /\ t \notin job.new.aliases
      /\ ldap'[u].data[t] = Entry
      /\ \A v \in User \ {u} : ldap'[v] = ldap[v]
      /\ job' = [job EXCEPT !.data = NewData, !.pc = IF job.op = "new" THEN "join" ELSE "pick"]
      /\ UNCHANGED <<seen, azure, failed, raced>> /\ job.pc = "write"
  BY <1>1, WriteEntry
<1>3. UNCHANGED crashes
  BY DEF Write, history
<1>4. Calm /\ crashes = 0 /\ Written /\ EchoTasks /\ Alone
  BY <1>2, <1>3 DEF Calm, EInv
<1>5. /\ job'.pc = (IF job.op = "new" THEN "join" ELSE "pick")
      /\ job'.op = job.op /\ job'.at = t /\ job'.todo = job.todo /\ job'.user = u
      /\ job'.old = job.old /\ job'.new = job.new /\ busy'
  <2>1. job \in Job
    BY JobParts DEF KInv
  <2>2. job'.pc = (IF job.op = "new" THEN "join" ELSE "pick")
    BY <1>2, <2>1 DEF Job
  <2> QED BY <1>1, <1>2, <2>1, <2>2 DEF Job, busy, Idle
<1>6. Echo' = Echo
  BY <1>5 DEF Echo
<1>7. \A v \in User : ldap[v].aliases \subseteq Tenant
  BY DEF KInv, IInv, TypeOK, Person
<1>8. \A v \in User, s \in Tenant : v # u \/ Echo => (Given(v, s) => Given(v, s)')
  <2>1. Echo => UNCHANGED ldap
    BY <1>4, EchoWritesNothing
  <2>2. \A v \in User : v # u \/ Echo => ldap'[v] = ldap[v]
    BY <1>2, <2>1
  <2> QED BY <1>2, <2>2, GivenRests
<1>9. Written'
  <2> SUFFICES ASSUME NEW v \in User, seen[v].data # ldap'[v].data, v = u => Echo
               PROVE  /\ Untouched(seen[v], ldap'[v])
                      /\ \A s \in ldap'[v].aliases \ seen[v].aliases : Given(v, s)'
    BY <1>2, <1>5, <1>6 DEF Written, Untouched, OwnWrites
  <2>1. ldap'[v] = ldap[v]
    BY <1>2, <1>4, EchoWritesNothing
  <2> QED BY <1>1, <1>4, <1>7, <1>8, <2>1 DEF Written
<1>10. EchoTasks'
  BY <1>1, <1>2, <1>4, <1>5, <1>6, EchoWritesNothing DEF EchoTasks, EchoTask
<1>11. ASSUME NEW s \in ldap'[u].aliases \ job.new.aliases
       PROVE  Given(u, s)' /\ job.todo = {} /\ s = t /\ job.op = "new"
  <2>1. s \notin ldap[u].aliases
    BY <1>1, <1>2, <1>4 DEF Alone
  <2>2. s = t /\ job.op = "new" /\ t \notin job.new.aliases
    BY <1>2, <2>1
  <2>3. job.todo = {}
    BY <1>1, <1>2, <1>4, <2>2 DEF Alone
  <2>4. /\ OwnedBy(u, t) = {job.id} /\ azure[t][job.id].upn = job.new.mail
        /\ job.new.life = "here" /\ ldap[u].mail = job.new.mail /\ ldap[u].life = job.new.life
    BY <1>1, <1>2, <1>4, <2>2, Begun, OwnUser DEF MidNew, ReadyNew
  <2>5. Given(u, t)'
    <3>1. OwnedBy(u, t)' = {job.id} /\ job.id \in DOMAIN azure'[t]
      BY <1>2, <2>4 DEF OwnedBy
    <3>2. ldap'[u].data[t] = [id |-> job.id, upn |-> ldap'[u].mail]
      BY <1>2, <2>2, <2>4 DEF Entry
    <3> QED BY <1>2, <2>4, <3>1, <3>2 DEF Given
  <2> QED BY <2>2, <2>3, <2>5
<1>12. Alone'
  BY <1>1, <1>2, <1>4, <1>5, <1>11 DEF Alone
<1> QED BY <1>9, <1>10, <1>12 DEF EInv

LEMMA NextEInv == KInv /\ SInv /\ EInv /\ [Next]_vars => EInv'
<1> SUFFICES ASSUME KInv, SInv, EInv, [Next]_vars PROVE EInv'
  OBVIOUS
<1>1. CASE Admin \/ DayPasses
  BY <1>1, AdminKeepsE, DayKeepsE
<1>2. CASE Start \/ (busy /\ Pick)
  BY <1>2, StartKeepsE, PickKeepsE
<1>3. CASE Crash
  <2>1. crashes' # 0
    BY <1>3 DEF Crash, KInv, IInv, TypeOK
  <2> QED BY <2>1 DEF EInv
<1>4. CASE busy /\ (Fails \/ RefuseAccount \/ RefuseUpdate)
  <2>1. failed'
    BY <1>4 DEF Fails, RefuseAccount, RefuseUpdate, Raise
  <2> QED BY <2>1 DEF EInv, Calm
<1>5. CASE busy /\ Finish
  <2>1. Return /\ (Calm' => Calm)
    BY <1>5 DEF Finish, Return, Calm
  <2> QED BY <1>5, <2>1, ReturnKeepsE
<1>6. CASE busy /\ (DisableUnknown \/ WriteGone)
  BY <1>6, GoneNotCalm DEF EInv
<1>7. CASE busy /\ Unknown
  <2>1. UNCHANGED <<failed, raced>> /\ ~Calm
    BY <1>7, EditFinds DEF Unknown, history
  <2> QED BY <2>1 DEF EInv, Calm
<1>8. CASE busy /\ Step
  BY <1>8, StepKeepsE
<1>9. CASE busy /\ Write
  BY <1>9, WriteKeepsE
<1>10. CASE UNCHANGED vars
  <2>1. /\ UNCHANGED <<ldap, seen, azure, job, crashes>>
        /\ Calm' = Calm /\ busy' = busy /\ Echo' = Echo
    BY <1>10 DEF vars, Calm, busy, Echo
  <2>2. \A v \in User, s \in Tenant : Given(v, s)' = Given(v, s)
    BY <2>1 DEF Given, OwnedBy
  <2>3. \A v \in User : ldap[v].aliases \subseteq Tenant
    BY DEF KInv, IInv, TypeOK, Person
  <2>4. Written' = Written
    BY <2>1, <2>2, <2>3 DEF Written, Untouched, OwnWrites
  <2>5. EchoTasks' = EchoTasks
    BY <2>1 DEF EchoTasks, EchoTask
  <2>6. busy => job.user \in User
    BY JobParts DEF KInv
  <2>7. Alone' = Alone
    BY <2>1, <2>2, <2>3, <2>6 DEF Alone
  <2> QED BY <2>1, <2>4, <2>5, <2>7 DEF EInv
<1>11. Fails => busy
  BY DEF Fails
<1> QED BY <1>1, <1>2, <1>3, <1>4, <1>5, <1>6, <1>7, <1>8, <1>9, <1>10, <1>11
        DEF Next, Listener, Reactivate, Deactivate, Edit, Step

\* The step of NoEcho.
Quietly ==
  Calm /\ crashes = 0 /\ busy /\ job.new.data # job.old.data =>
    changes' # changes \/ Len(queue') <= Len(queue)

LEMMA NextQuietly == KInv /\ SInv /\ EInv /\ [Next]_vars => Quietly
<1> SUFFICES ASSUME KInv, SInv, EInv, [Next]_vars, Calm, crashes = 0, Echo,
                    changes' = changes, ~UNCHANGED queue
             PROVE  Len(queue') <= Len(queue)
  BY DEF Quietly, Echo, KInv, IInv, TypeOK
<1>1. queue \in Seq(User) /\ queue # <<>> /\ changes \in Nat
  BY BoundsAssumption DEF KInv, IInv, TypeOK, Handling, Echo
<1>2. ~Admin
  <2>1. Admin => changes' = changes + 1
    BY DEF Admin, Add, Switch, Rename, Connect, SetExpiry, Delete, Put
  <2> QED BY <1>1, <2>1
<1>3. ~Write
  BY EchoWritesNothing
<1>4. ~Step
  BY StepJob DEF Echo
<1>5. ~(DayPasses \/ Start \/ Crash \/ Pick \/ Unknown \/ UNCHANGED vars)
  BY DEF DayPasses, Start, Crash, Pick, Unknown, directory, vars
<1>6. Return
  <2>1. Finish \/ Fails \/ RefuseAccount \/ RefuseUpdate \/ DisableUnknown \/ WriteGone => Return
    BY DEF Finish, Fails, RefuseAccount, RefuseUpdate, DisableUnknown, WriteGone, Raise
  <2> QED BY <1>2, <1>3, <1>4, <1>5, <2>1 DEF Next, Listener, Reactivate, Deactivate, Edit, Step
<1>7. queue' = Tail(queue)
  BY <1>6 DEF Return
<1> QED BY <1>1, <1>7

\* The module's own changes of LDAP call it again, and they come to an end: a
\* call that is made for such a change finds the account it has made for the
\* user, under the same id and name, and has nothing to write.  For any number
\* of users and connections, unless a call failed, a user was changed too
\* early or the listener was killed.
THEOREM EchoesEnd == Spec => NoEcho
<1>1. Init => KInv /\ SInv /\ EInv
  BY InitKInv, InitSInv, InitEInv
<1>2. KInv /\ SInv /\ EInv /\ [Next]_vars => (KInv /\ SInv /\ EInv)'
  BY NextKInv, NextSInv, NextEInv
<1>3. KInv /\ SInv /\ EInv /\ [Next]_vars => [Quietly]_vars
  BY NextQuietly
<1>4. Spec => [][Quietly]_vars
  BY <1>1, <1>2, <1>3, PTL DEF Spec
<1>5. [][Quietly]_vars => NoEcho
  BY DEF Quietly, NoEcho
<1> QED BY <1>4, <1>5

=============================================================================
