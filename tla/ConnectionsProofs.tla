-------------------------- MODULE ConnectionsProofs -------------------------
(***************************************************************************)
(* Connections for any connections, tenants, applications, sessions and    *)
(* bounds.  The inductive invariant IInv says where an answer comes from   *)
(* (Answers, Nonces), that a session is alone with its connection while it *)
(* uploads (Alone) and keeps to its answer until the token is there        *)
(* (Stored), whose the token in a file is (Tokens), and how far a command  *)
(* has come (Steps).                                                       *)
(***************************************************************************)
EXTENDS Connections, TLAPS

Uploading == {"manifest", "url"}
Storing == {"store", "login"}

Commands ==
  /\ cmd.op = "none" => cmd = Idle
  /\ cmd.op # "none" => cmd.alias \in Alias
  /\ cmd.op = "create" => cmd.pc \in {"files", "ucr", "udm", "wizard", "kill", "restart"}
  /\ cmd.op = "remove" => cmd.pc \in {"object", "rmtree", "unset", "restart"}

\* The answer a process works with is one of Microsoft's, to an address that
\* was handed out for the connection of the process.
Answers ==
  \A s \in Session :
    /\ proc[s].pc # "off" => wizard # None /\ proc[s].alias \in Alias
    /\ proc[s].answer.kind \in {"token", "used"} => proc[s].answer.nonce \in answered
    /\ proc[s].pc \in Storing \cup {"register"} =>
         /\ proc[s].answer.kind = "token"
         /\ urls[proc[s].answer.nonce].alias = proc[s].alias

\* Where there is no directory, no file says anything, and ids.json never
\* names an application alone.
Absent ==
  /\ \A a \in Alias \ there : ids[a] = NoIds /\ token[a] = NoToken
  /\ \A a \in Alias : ids[a].app # None => ids[a].tenant # None
  /\ Doing("create", "files") => cmd.alias \notin there

\* The nonce in token.json is that of the address handed out last.
Nonces == \A a \in Alias : token[a].nonce # 0 => token[a].nonce \in Latest(a)

\* While a session uploads, the connection is without nonce and application,
\* and no other one is at work there.
Alone ==
  \A s \in Session :
    proc[s].alias \notin overlapped =>
      /\ proc[s].pc \notin {"off", "idle"} => proc[s].alias \in there
      /\ proc[s].pc = "manifest" => ids[proc[s].alias].app = None
      /\ proc[s].pc \in Uploading =>
           /\ token[proc[s].alias].nonce = 0
           /\ \A x \in Session \ {s} : proc[x].alias = proc[s].alias =>
                proc[x].pc \notin Uploading \cup Storing

\* Between the check of an answer and the access token ids.json keeps the
\* application that was asked about.
Stored ==
  \A s \in Session :
    proc[s].pc \in Storing /\ proc[s].alias \notin overlapped =>
      /\ ids[proc[s].alias].app = urls[proc[s].answer.nonce].app
      /\ proc[s].pc = "store" => proc[s].answer.nonce \in Latest(proc[s].alias)

\* The token in a file is of the tenant of the application ids.json names, and
\* the listener has no account without an application.
Tokens ==
  /\ \A a \in Alias \ (spoiled \cup overlapped) :
       token[a].access # None => ids[a].app # None /\ token[a].access = Home[ids[a].app]
  /\ \A a \in Alias : listener[a] # NoAccount => listener[a].app \in App

\* What of a connection is there at every step of a command.
Whole(a) == ucr[a] # None /\ a \in there /\ a \in udm
Lacking(a) == ucr[a] = None /\ a \notin there /\ a \notin udm
Steps ==
  \A a \in Alias \ (cut \cup overlapped) :
    IF cmd.alias # a \/ cmd.pc = "restart" THEN Whole(a) \/ Lacking(a)
    ELSE CASE cmd.pc = "files" -> Lacking(a)
           [] cmd.pc = "ucr" -> a \in there /\ a \notin udm
           [] cmd.pc = "udm" -> ucr[a] # None /\ a \in there /\ a \notin udm
           [] cmd.pc \in {"wizard", "kill", "object"} -> Whole(a)
           [] cmd.pc = "rmtree" -> ucr[a] # None /\ a \in there /\ a \notin udm
           [] cmd.pc = "unset" -> ucr[a] # None /\ a \notin there /\ a \notin udm
           [] OTHER -> FALSE

IInv == /\ TypeOK /\ Commands /\ Answers /\ Absent /\ Nonces /\ Consented
        /\ Alone /\ Stored /\ Tokens /\ TokenOfTenant /\ Steps

USE DEF disk, registry, azure, history, ProcPC, Uploading, Storing

LEMMA InitIInv == Init => IInv
<1> SUFFICES ASSUME Init PROVE IInv
  OBVIOUS
<1> USE DEF Init
<1>1. /\ NoIds \in Ids /\ NoToken \in [nonce : Nat, access : Tenant \cup {None}]
      /\ NoProc \in Proc /\ Idle \in Cmd
      /\ NoAccount \in [app : App \cup {None}, access : Tenant \cup {None}]
  BY DEF NoIds, Ids, NoToken, NoProc, NoAnswer, Answer, Proc, Idle, Cmd, NoAccount
<1>2. TypeOK
  <2>1. /\ ids \in [Alias -> Ids] /\ proc \in [Session -> Proc]
        /\ token \in [Alias -> [nonce : Nat, access : Tenant \cup {None}]]
        /\ ucr \in [Alias -> Tenant \cup {None, Uninitialized}]
        /\ listener \in [Alias -> [app : App \cup {None}, access : Tenant \cup {None}]]
    BY <1>1
  <2>2. urls \in Seq(Url)
    OBVIOUS
  <2> QED BY <1>1, <2>1, <2>2, BoundsAssumption DEF TypeOK
<1>3. Commands /\ Answers /\ Absent
  BY DEF Commands, Answers, Absent, Doing, Idle, NoProc, NoAnswer, NoIds, None
<1>4. Nonces /\ Alone /\ Stored /\ Tokens
  BY DEF Nonces, Alone, Stored, Tokens, NoProc, NoToken, NoAccount
<1>5. Consented /\ TokenOfTenant
  BY NamesAssumption DEF Consented, TokenOfTenant
<1>6. Steps
  <2>1. \A a \in Alias : a # None
    BY NamesAssumption
  <2> QED BY <2>1 DEF Steps, Lacking, Idle
<1> QED BY <1>2, <1>3, <1>4, <1>5, <1>6 DEF IInv

-----------------------------------------------------------------------------
(* Steps that touch neither files nor registry.                            *)

\* What is written of a record is what it says afterwards.
LEMMA Went ==
  ASSUME TypeOK, NEW s \in Session, NEW pc \in ProcPC, Goto(s, pc)
  PROVE  /\ proc' \in [Session -> Proc]
         /\ \A x \in Session \ {s} : proc'[x] = proc[x]
         /\ proc'[s].pc = pc /\ proc'[s].alias = proc[s].alias
         /\ proc'[s].answer = proc[s].answer
<1>1. proc[s] \in Proc /\ proc \in [Session -> Proc]
  BY DEF TypeOK
<1> DEFINE r == [proc[s] EXCEPT !.pc = pc]
<1>2. /\ r \in Proc /\ r.pc = pc /\ r.alias = proc[s].alias /\ r.answer = proc[s].answer
  BY <1>1 DEF Proc
<1>3. proc' = [proc EXCEPT ![s] = r]
  BY DEF Goto
<1> HIDE DEF r
<1> QED BY <1>1, <1>2, <1>3

\* Processes that end, or wait for the next request.
Resting(p) ==
  /\ p \in Proc /\ p.pc \in {"off", "idle"}
  /\ p.pc = "idle" => wizard # None /\ p.alias \in Alias
  /\ p.answer.kind \in {"token", "used"} => p.answer.nonce \in answered'

Rested ==
  /\ proc' \in [Session -> Proc]
  /\ \A s \in Session : proc'[s] = proc[s] \/ Resting(proc'[s])

LEMMA OneRests ==
  ASSUME TypeOK, NEW s \in Session, NEW p, Resting(p), proc' = [proc EXCEPT ![s] = p]
  PROVE  Rested
BY DEF Rested, Resting, TypeOK

LEMMA RestKeeps ==
  ASSUME IInv, Rested, UNCHANGED <<disk, registry, listener, urls, spoiled, taken, overlapped>>,
         answered \subseteq answered', answered' \subseteq DOMAIN urls,
         cut \subseteq cut', cut' \subseteq Alias,
         uploads' \in 0 .. MaxUploads, commands' \in 0 .. MaxCommands,
         crashes' \in 0 .. MaxCrashes, UNCHANGED cmd
  PROVE  IInv'
<1> USE DEF IInv
<1>1. TypeOK'
  BY DEF TypeOK, Rested
<1>2. Commands' /\ Absent' /\ Tokens' /\ TokenOfTenant'
  BY DEF Commands, Absent, Doing, Tokens, TokenOfTenant
<1>3. Answers'
  BY DEF Answers, Rested, Resting
<1>4. Nonces' /\ Consented'
  BY DEF Nonces, Latest, Consented
<1>5. Alone'
  BY DEF Alone, Rested, Resting
<1>6. Stored'
  BY DEF Stored, Rested, Resting, Latest
<1>7. Steps'
  BY DEF Steps, Whole, Lacking
<1> QED BY <1>1, <1>2, <1>3, <1>4, <1>5, <1>6, <1>7

LEMMA FreshRests ==
  ASSUME IInv, NEW s \in Session, ~At(s, "off"), UNCHANGED answered
  PROVE  Resting(Fresh)
BY DEF IInv, TypeOK, Resting, Fresh, Proc, Answer, NoAnswer, Answers, At, None

LEMMA IdleRests ==
  ASSUME IInv, NEW s \in Session, ~At(s, "off"), UNCHANGED answered
  PROVE  Resting([proc[s] EXCEPT !.pc = "idle"])
<1> DEFINE p == [proc[s] EXCEPT !.pc = "idle"]
<1>1. proc[s] \in Proc
  BY DEF IInv, TypeOK
<1>2. p \in Proc /\ p.pc = "idle" /\ p.alias = proc[s].alias /\ p.answer = proc[s].answer
  BY <1>1 DEF Proc
<1> HIDE DEF p
<1>3. Resting(p)
  BY <1>2 DEF IInv, Resting, Answers, At
<1> QED BY <1>3 DEF p

LEMMA Disturbed ==
  ASSUME TypeOK, NEW a \in Alias, Disturb(a)
  PROVE  crashes' \in 0 .. MaxCrashes /\ cut \subseteq cut' /\ cut' \subseteq Alias /\ a \in cut'
BY BoundsAssumption DEF TypeOK, Disturb

LEMMA OpenKeeps == ASSUME IInv, NEW s \in Session, Open(s) PROVE IInv'
<1>1. Fresh \in Proc /\ Fresh.pc = "idle" /\ Fresh.alias = wizard /\ Fresh.answer.kind = None
  BY DEF IInv, TypeOK, Open, Fresh, Proc, Answer, NoAnswer
<1>2. Resting(Fresh)
  BY <1>1 DEF IInv, TypeOK, Open, Resting, None
<1>3. Rested
  BY <1>2, OneRests DEF Open, IInv
<1> QED BY <1>3, RestKeeps DEF Open, IInv, TypeOK

LEMMA RequestRests ==
  ASSUME IInv, NEW s \in Session, BadManifest(s) \/ Raises(s)
  PROVE  IInv'
<1>1. /\ ~At(s, "off") /\ UNCHANGED <<disk, registry, cmd, listener, azure, history>>
      /\ proc' = [proc EXCEPT ![s] = [proc[s] EXCEPT !.pc = "idle"]]
  BY DEF BadManifest, Raises, Goto, At
<1>2. Rested
  BY <1>1, IdleRests, OneRests DEF IInv
<1> QED BY <1>1, <1>2, RestKeeps DEF IInv, TypeOK

LEMMA ReceiveKeeps == ASSUME IInv, NEW s \in Session, Receive(s) PROVE IInv'
<1>1. PICK n \in DOMAIN urls :
        /\ answered' = answered \cup {n}
        /\ proc' = [proc EXCEPT ![s] = [Fresh EXCEPT !.answer = [kind |-> "token", nonce |-> n]]]
  BY DEF Receive
<1> DEFINE p == [Fresh EXCEPT !.answer = [kind |-> "token", nonce |-> n]]
<1>2. n \in Nat /\ wizard \in Alias
  BY DEF IInv, TypeOK, Receive, At, Answers
<1>3. /\ p.pc = "idle" /\ p.alias = wizard /\ p.answer = [kind |-> "token", nonce |-> n]
      /\ p \in Proc
  BY <1>2 DEF Fresh, Proc, Answer
<1>4. wizard # None
  BY DEF IInv, Receive, At, Answers
<1>5. Resting(p)
  <2> HIDE DEF p
  <2> QED BY <1>1, <1>2, <1>3, <1>4 DEF Resting
<1>6. Rested
  <2> HIDE DEF p
  <2>1. proc' = [proc EXCEPT ![s] = p]
    BY <1>1 DEF p
  <2> QED BY <1>5, <2>1, OneRests DEF IInv
<1> QED BY <1>1, <1>6, RestKeeps DEF IInv, TypeOK, Receive

LEMMA DeclineKeeps == ASSUME IInv, NEW s \in Session, Decline(s) PROVE IInv'
<1> DEFINE p == [Fresh EXCEPT !.answer.kind = "error"]
<1>1. wizard \in Alias /\ wizard # None
  BY DEF IInv, TypeOK, Decline, At, Answers
<1>2. p = [pc |-> "idle", alias |-> wizard, answer |-> [kind |-> "error", nonce |-> 0]]
  BY DEF Fresh, NoAnswer
<1>3. Resting(p)
  <2> HIDE DEF p
  <2> QED BY <1>1, <1>2 DEF Resting, Proc, Answer
<1>4. Rested
  <2> HIDE DEF p
  <2>1. proc' = [proc EXCEPT ![s] = p]
    BY DEF Decline, p
  <2> QED BY <1>3, <2>1, OneRests DEF IInv
<1> QED BY <1>4, RestKeeps DEF IInv, TypeOK, Decline

LEMMA PollRests ==
  ASSUME IInv, NEW s \in Session, Report(s) \/ CompleteFails(s) \/ LoginFails(s)
  PROVE  IInv'
<1>1. ~At(s, "off") /\ UNCHANGED answered
  BY DEF Report, CompleteFails, LoginFails, At
<1>2. Rested
  <2>1. proc' = [proc EXCEPT ![s] = Fresh] \/ proc' = [proc EXCEPT ![s] = [proc[s] EXCEPT !.pc = "idle"]]
    BY DEF Report, CompleteFails, LoginFails
  <2> QED BY <1>1, <2>1, FreshRests, IdleRests, OneRests DEF IInv
<1>3. Of(s) \in Alias
  BY <1>1 DEF IInv, Answers, At, Of
<1>4. crashes' \in 0 .. MaxCrashes /\ cut \subseteq cut' /\ cut' \subseteq Alias
  BY <1>3, Disturbed DEF IInv, TypeOK, Report, CompleteFails, LoginFails
<1> QED BY <1>2, <1>4, RestKeeps DEF IInv, TypeOK, Report, CompleteFails, LoginFails

LEMMA CloseKeeps == ASSUME IInv, NEW s \in Session, Close(s) PROVE IInv'
<1>1. Resting(NoProc)
  BY DEF Resting, NoProc, NoAnswer, Proc, Answer, None
<1>2. Rested
  BY <1>1, OneRests DEF Close, IInv
<1>3. Of(s) \in Alias
  BY DEF IInv, Answers, At, Of, Close
<1>4. crashes' \in 0 .. MaxCrashes /\ cut \subseteq cut' /\ cut' \subseteq Alias
  BY <1>3, Disturbed DEF IInv, TypeOK, Close
<1> QED BY <1>2, <1>4, RestKeeps DEF IInv, TypeOK, Close

-----------------------------------------------------------------------------
(* The steps of a session.                                                 *)

\* Who works on a connection, and who overlaps.
LEMMA Overlapped ==
  ASSUME IInv, NEW s \in Session, Of(s) \in Alias, Overlaps(s)
  PROVE  /\ overlapped \subseteq overlapped' /\ overlapped' \subseteq Alias
         /\ Of(s) \notin overlapped' =>
              \A x \in Session \ {s} :
                proc[x].alias = Of(s) => proc[x].pc \in {"off", "idle"}
BY DEF IInv, TypeOK, Overlaps, Working

LEMMA NoIDsStoredKeeps == ASSUME IInv, NEW s \in Session, NoIDsStored(s) PROVE IInv'
<1> USE DEF IInv
<1> DEFINE a == proc[s].alias
<1>1. /\ proc[s].pc = "url" /\ a \in there /\ a \in Alias /\ Goto(s, "idle")
      /\ token' = [token EXCEPT ![a].nonce = 0]
      /\ UNCHANGED <<there, ids, registry, cmd, listener, azure, history>>
  BY DEF NoIDsStored, At, Of, TypeOK
<1>2. /\ proc' \in [Session -> Proc]
      /\ \A x \in Session \ {s} : proc'[x] = proc[x]
      /\ proc'[s].pc = "idle" /\ proc'[s].alias = a /\ proc'[s].answer = proc[s].answer
  BY <1>1, Went
<1>3. /\ token' \in [Alias -> [nonce : Nat, access : Tenant \cup {None}]]
      /\ token'[a].nonce = 0 /\ token'[a].access = token[a].access
      /\ \A b \in Alias \ {a} : token'[b] = token[b]
  BY <1>1 DEF TypeOK
<1>4. TypeOK'
  BY <1>1, <1>2, <1>3 DEF TypeOK
<1>5. Commands' /\ Absent'
  BY <1>1, <1>3 DEF Commands, Absent, Doing
<1>6. Answers'
  BY <1>1, <1>2 DEF Answers
<1>7. Nonces' /\ Consented'
  BY <1>1, <1>3 DEF Nonces, Latest, Consented
<1>8. Alone'
  BY <1>1, <1>2, <1>3 DEF Alone, Answers
<1>9. Stored'
  BY <1>1, <1>2 DEF Stored, Latest, Answers
<1>10. Tokens'
  BY <1>1, <1>3 DEF Tokens
<1>11. TokenOfTenant' /\ Steps'
  BY <1>1 DEF TokenOfTenant, Steps, Whole, Lacking
<1> QED BY <1>4, <1>5, <1>6, <1>7, <1>8, <1>9, <1>10, <1>11

LEMMA UploadKeeps == ASSUME IInv, NEW s \in Session, Upload(s) PROVE IInv'
<1> USE DEF IInv
<1> DEFINE a == proc[s].alias
<1>1. /\ proc[s].pc = "idle" /\ a \in there /\ a \in Alias /\ Overlaps(s) /\ Goto(s, "manifest")
      /\ ids' = [ids EXCEPT ![a] = NoIds] /\ token' = [token EXCEPT ![a] = NoToken]
      /\ spoiled' = spoiled \ {a} /\ uploads' = uploads + 1 /\ uploads < MaxUploads
      /\ UNCHANGED <<there, registry, cmd, listener, azure, commands, crashes, cut, taken>>
  BY DEF Upload, At, Of, TypeOK
<1>2. /\ proc' \in [Session -> Proc]
      /\ \A x \in Session \ {s} : proc'[x] = proc[x]
      /\ proc'[s].pc = "manifest" /\ proc'[s].alias = a /\ proc'[s].answer = proc[s].answer
  BY <1>1, Went
<1>3. /\ overlapped \subseteq overlapped' /\ overlapped' \subseteq Alias
      /\ a \notin overlapped' =>
           \A x \in Session \ {s} : proc[x].alias = a => proc[x].pc \in {"off", "idle"}
  BY <1>1, Overlapped DEF Of
<1>4. /\ ids' \in [Alias -> Ids] /\ ids'[a] = NoIds /\ \A b \in Alias \ {a} : ids'[b] = ids[b]
      /\ token' \in [Alias -> [nonce : Nat, access : Tenant \cup {None}]]
      /\ token'[a] = NoToken /\ \A b \in Alias \ {a} : token'[b] = token[b]
      /\ NoIds.app = None /\ NoToken.nonce = 0 /\ NoToken.access = None
  BY <1>1 DEF TypeOK, NoIds, NoToken, Ids
<1>5. TypeOK'
  BY <1>1, <1>2, <1>3, <1>4, BoundsAssumption DEF TypeOK
<1>6. Commands' /\ Absent'
  BY <1>1, <1>4 DEF Commands, Absent, Doing
<1>7. Answers'
  BY <1>1, <1>2 DEF Answers
<1>8. Nonces' /\ Consented'
  BY <1>1, <1>4 DEF Nonces, Latest, Consented
<1>9. Alone'
  BY <1>1, <1>2, <1>3, <1>4 DEF Alone, Answers
<1>10. Stored'
  BY <1>1, <1>2, <1>3, <1>4 DEF Stored, Latest, Answers
<1>11. Tokens'
  BY <1>1, <1>3, <1>4 DEF Tokens
<1>12. TokenOfTenant' /\ Steps'
  BY <1>1, <1>3 DEF TokenOfTenant, Steps, Whole, Lacking
<1> QED BY <1>5, <1>6, <1>7, <1>8, <1>9, <1>10, <1>11, <1>12

LEMMA StoreManifestKeeps == ASSUME IInv, NEW s \in Session, StoreManifest(s) PROVE IInv'
<1> USE DEF IInv
<1> DEFINE a == proc[s].alias
<1>1. PICK p \in App, t \in Tenant \cup {Common} :
        ids' = [ids EXCEPT ![a] = [app |-> p, tenant |-> t, domain |-> TRUE]]
  BY DEF StoreManifest, Of
<1>2. /\ proc[s].pc = "manifest" /\ a \in there /\ a \in Alias /\ Goto(s, "url")
      /\ UNCHANGED <<there, token, registry, cmd, listener, azure, history>>
  BY DEF StoreManifest, At, Of, TypeOK
<1>3. /\ proc' \in [Session -> Proc]
      /\ \A x \in Session \ {s} : proc'[x] = proc[x]
      /\ proc'[s].pc = "url" /\ proc'[s].alias = a /\ proc'[s].answer = proc[s].answer
  BY <1>2, Went
<1>4. /\ ids' \in [Alias -> Ids] /\ \A b \in Alias \ {a} : ids'[b] = ids[b]
  BY <1>1, <1>2 DEF TypeOK, Ids
<1>5. TypeOK'
  BY <1>2, <1>3, <1>4 DEF TypeOK
<1>6. Commands' /\ Answers'
  BY <1>2, <1>3 DEF Commands, Answers
<1>12. Absent'
  <2>1. t # None
    BY NamesAssumption, <1>1 DEF None, Common
  <2> QED BY <1>1, <1>2, <1>4, <2>1 DEF Absent, Doing, TypeOK
<1>7. Nonces' /\ Consented'
  BY <1>2 DEF Nonces, Latest, Consented
<1>8. Alone'
  BY <1>2, <1>3, <1>4 DEF Alone, Answers
<1>9. Stored'
  <2>1. \A x \in Session : proc'[x].pc \in Storing /\ proc'[x].alias \notin overlapped => x # s /\ proc[x].alias # a
    BY <1>2, <1>3 DEF Alone
  <2> QED BY <1>2, <1>3, <1>4, <2>1 DEF Stored, Latest, Answers
<1>10. Tokens'
  <2>1. a \notin spoiled \cup overlapped => token[a].access = None
    BY <1>2 DEF Tokens, Alone
  <2> QED BY <1>2, <1>4, <2>1 DEF Tokens
<1>11. TokenOfTenant' /\ Steps'
  BY <1>2 DEF TokenOfTenant, Steps, Whole, Lacking
<1> QED BY <1>5, <1>6, <1>7, <1>8, <1>9, <1>10, <1>11, <1>12

LEMMA HandOutKeeps == ASSUME IInv, NEW s \in Session, HandOut(s) PROVE IInv'
<1> USE DEF IInv
<1> DEFINE a == proc[s].alias
           n == Len(urls) + 1
           url == [alias |-> a, app |-> ids[a].app, tenant |-> ids[a].tenant]
           t == [token[a] EXCEPT !.nonce = n]
<1>1. /\ proc[s].pc = "url" /\ a \in there /\ a \in Alias /\ Goto(s, "idle")
      /\ ids[a].app # None
      /\ UNCHANGED <<there, ids, registry, cmd, listener, answered, history>>
  BY DEF HandOut, At, Of, TypeOK
<1>2. urls' = Append(urls, url) /\ token' = [token EXCEPT ![a] = t]
  BY DEF HandOut, Of
<1>3. /\ proc' \in [Session -> Proc]
      /\ \A x \in Session \ {s} : proc'[x] = proc[x]
      /\ proc'[s].pc = "idle" /\ proc'[s].alias = a /\ proc'[s].answer = proc[s].answer
  BY <1>1, Went
<1>4. t \in [nonce : Nat, access : Tenant \cup {None}] /\ t.nonce = n /\ t.access = token[a].access
  <2>1. token[a] \in [nonce : Nat, access : Tenant \cup {None}] /\ n \in Nat
    BY <1>1 DEF TypeOK
  <2> HIDE DEF n
  <2> QED BY <2>1
<1>5. url.alias = a
  OBVIOUS
<1> HIDE DEF t
<1>6. /\ token' \in [Alias -> [nonce : Nat, access : Tenant \cup {None}]]
      /\ token'[a] = t /\ \A b \in Alias \ {a} : token'[b] = token[b]
  BY <1>1, <1>2, <1>4 DEF TypeOK
<1>7. url \in Url
  BY <1>1 DEF TypeOK, Ids, Url, Absent
<1> HIDE DEF url
<1>8. /\ urls' \in Seq(Url) /\ DOMAIN urls' = 1 .. n /\ DOMAIN urls = 1 .. (n - 1) /\ n \in Nat \ {0}
      /\ urls'[n] = url /\ \A m \in 1 .. (n - 1) : urls'[m] = urls[m]
  BY <1>2, <1>7 DEF TypeOK
<1> HIDE DEF n
<1>9. /\ \A b \in Alias : b = a => n \in {m \in DOMAIN urls' : urls'[m].alias = b /\
           \A k \in DOMAIN urls' : urls'[k].alias = b => k <= m}
      /\ \A b \in Alias \ {a} : Latest(b)' = Latest(b)
  <2>1. ASSUME NEW b \in Alias, b = a
        PROVE  n \in {m \in DOMAIN urls' : urls'[m].alias = b /\
                      \A k \in DOMAIN urls' : urls'[k].alias = b => k <= m}
    BY <1>5, <1>8, <2>1
  <2>2. ASSUME NEW b \in Alias \ {a} PROVE Latest(b)' = Latest(b)
    <3>1. \A m \in 1 .. n : urls'[m].alias = b <=> m \in 1 .. (n - 1) /\ urls[m].alias = b
      BY <1>5, <1>8
    <3> QED BY <1>8, <3>1 DEF Latest
  <2> QED BY <2>1, <2>2
<1>10. \A m \in answered : m \in 1 .. (n - 1)
  BY <1>8 DEF TypeOK
<1>11. TypeOK'
  <2>1. answered' \subseteq DOMAIN urls'
    BY <1>1, <1>8, <1>10
  <2> QED BY <1>1, <1>3, <1>6, <1>8, <2>1 DEF TypeOK
<1>12. Commands' /\ Tokens' /\ TokenOfTenant' /\ Steps'
  BY <1>1, <1>4, <1>6 DEF Commands, Tokens, TokenOfTenant, Steps, Whole, Lacking
<1>13. Absent'
  BY <1>1, <1>6 DEF Absent, Doing
<1>14. Answers'
  BY <1>1, <1>3, <1>8, <1>10 DEF Answers
<1>15. Nonces'
  <2> SUFFICES ASSUME NEW b \in Alias, token'[b].nonce # 0 PROVE token'[b].nonce \in Latest(b)'
    BY DEF Nonces
  <2>1. CASE b = a
    BY <1>4, <1>6, <1>9, <2>1 DEF Latest
  <2>2. CASE b # a
    BY <1>6, <1>9, <2>2 DEF Nonces
  <2> QED BY <2>1, <2>2
<1>16. Consented'
  BY <1>1, <1>8, <1>10 DEF Consented
<1>17. Alone'
  <2>1. \A x \in Session \ {s} : proc[x].pc \in Uploading /\ proc[x].alias \notin overlapped
                                => proc[x].alias # a
    BY <1>1 DEF Alone
  <2> QED BY <1>1, <1>3, <1>6, <2>1 DEF Alone, Answers
<1>18. Stored'
  <2>1. \A x \in Session : proc'[x].pc \in Storing /\ proc'[x].alias \notin overlapped
          => x # s /\ proc[x].alias \in Alias \ {a} /\ proc[x].answer.nonce \in 1 .. (n - 1)
    BY <1>1, <1>3, <1>10 DEF Alone, Answers
  <2> QED BY <1>1, <1>3, <1>8, <1>9, <2>1 DEF Stored
<1> QED BY <1>11, <1>12, <1>13, <1>14, <1>15, <1>16, <1>17, <1>18

LEMMA CheckKeeps == ASSUME IInv, NEW s \in Session, Check(s) PROVE IInv'
<1> USE DEF IInv
<1> DEFINE a == proc[s].alias
           n == proc[s].answer.nonce
<1>1. /\ proc[s].pc = "idle" /\ proc[s].answer.kind = "token" /\ Goto(s, "store")
      /\ token[a].nonce = n /\ ids[a].app = urls[n].app
      /\ UNCHANGED <<disk, registry, cmd, listener, azure, history>>
  BY DEF Check, At, Of, Asked
<1>2. a \in Alias /\ n \in answered /\ n \in DOMAIN urls /\ n # 0
  BY <1>1 DEF Answers, TypeOK
<1>3. /\ proc' \in [Session -> Proc]
      /\ \A x \in Session \ {s} : proc'[x] = proc[x]
      /\ proc'[s].pc = "store" /\ proc'[s].alias = a /\ proc'[s].answer = proc[s].answer
  BY <1>1, Went
<1>4. n \in Latest(a) /\ urls[n].alias = a
  BY <1>1, <1>2 DEF Nonces, Latest
<1>5. TypeOK' /\ Commands' /\ Absent'
  BY <1>1, <1>3 DEF TypeOK, Commands, Absent, Doing
<1>6. Answers'
  BY <1>1, <1>2, <1>3, <1>4 DEF Answers
<1>7. Nonces' /\ Consented' /\ Tokens' /\ TokenOfTenant' /\ Steps'
  BY <1>1 DEF Nonces, Latest, Consented, Tokens, TokenOfTenant, Steps, Whole, Lacking
<1>8. Alone'
  <2>1. a \in there
    BY <1>1, <1>2 DEF Absent, NoToken
  <2>2. \A x \in Session \ {s} : proc[x].pc \in Uploading /\ proc[x].alias \notin overlapped
                                => proc[x].alias # a
    BY <1>1, <1>2 DEF Alone
  <2> QED BY <1>1, <1>3, <2>1, <2>2 DEF Alone
<1>9. Stored'
  BY <1>1, <1>3, <1>4 DEF Stored, Latest
<1> QED BY <1>5, <1>6, <1>7, <1>8, <1>9

LEMMA StoreKeeps == ASSUME IInv, NEW s \in Session, Store(s) PROVE IInv'
<1> USE DEF IInv
<1> DEFINE a == proc[s].alias
           n == proc[s].answer.nonce
           i == [ids[a] EXCEPT !.app = urls[n].app, !.tenant = Home[urls[n].app]]
<1>1. /\ proc[s].pc = "store" /\ a \in there /\ a \in Alias /\ Goto(s, "login")
      /\ UNCHANGED <<there, token, registry, cmd, listener, azure, history>>
  BY DEF Store, At, Of, TypeOK
<1>2. ids' = [ids EXCEPT ![a] = i]
  BY DEF Store, Of, Asked
<1>3. /\ proc' \in [Session -> Proc]
      /\ \A x \in Session \ {s} : proc'[x] = proc[x]
      /\ proc'[s].pc = "login" /\ proc'[s].alias = a /\ proc'[s].answer = proc[s].answer
  BY <1>1, Went
<1>4. n \in answered /\ urls[n] \in Url /\ urls[n].alias = a
  BY <1>1 DEF Answers, TypeOK
<1>5. /\ Home[urls[n].app] \in Tenant /\ i \in Ids
      /\ i.app = urls[n].app /\ i.tenant = Home[urls[n].app]
  <2>1. Home[urls[n].app] \in Tenant /\ urls[n].app \in App
    BY <1>4, HomeAssumption DEF Url
  <2>2. ids[a] \in Ids
    BY <1>1 DEF TypeOK
  <2> QED BY <2>1, <2>2 DEF Ids
<1> HIDE DEF i
<1>6. ids' \in [Alias -> Ids] /\ ids'[a] = i /\ \A b \in Alias \ {a} : ids'[b] = ids[b]
  BY <1>1, <1>2, <1>5 DEF TypeOK
<1>7. TypeOK'
  BY <1>1, <1>3, <1>6 DEF TypeOK
<1>8. Commands' /\ Answers'
  BY <1>1, <1>3 DEF Commands, Answers
<1>9. Absent'
  <2>1. i.tenant # None
    BY <1>5, NamesAssumption
  <2> QED BY <1>1, <1>6, <2>1 DEF Absent, Doing, TypeOK
<1>10. Nonces' /\ Consented' /\ TokenOfTenant' /\ Steps'
  BY <1>1 DEF Nonces, Latest, Consented, TokenOfTenant, Steps, Whole, Lacking
<1>11. a \notin overlapped => ids[a].app = urls[n].app
  BY <1>1 DEF Stored
<1>12. Alone'
  <2>1. \A x \in Session \ {s} : proc[x].pc \in Uploading /\ proc[x].alias \notin overlapped
                                => proc[x].alias # a
    BY <1>1 DEF Alone
  <2> QED BY <1>1, <1>3, <1>6, <2>1 DEF Alone, Answers
<1>13. Stored'
  BY <1>1, <1>3, <1>5, <1>6, <1>11 DEF Stored, Latest, Answers
<1>14. Tokens'
  BY <1>1, <1>5, <1>6, <1>11 DEF Tokens
<1> QED BY <1>7, <1>8, <1>9, <1>10, <1>12, <1>13, <1>14

LEMMA LoginKeeps == ASSUME IInv, NEW s \in Session, Login(s) PROVE IInv'
<1> USE DEF IInv
<1> DEFINE a == proc[s].alias
           n == proc[s].answer.nonce
           t == [nonce |-> 0, access |-> Home[urls[n].app]]
<1>1. /\ proc[s].pc = "login" /\ a \in there /\ a \in Alias /\ Goto(s, "register")
      /\ spoiled' = spoiled \ {a}
      /\ UNCHANGED <<there, ids, registry, cmd, listener, azure, uploads, commands, crashes,
                     cut, taken, overlapped>>
  BY DEF Login, At, Of, TypeOK
<1>2. token' = [token EXCEPT ![a] = t]
  BY DEF Login, Of, Asked
<1>3. /\ proc' \in [Session -> Proc]
      /\ \A x \in Session \ {s} : proc'[x] = proc[x]
      /\ proc'[s].pc = "register" /\ proc'[s].alias = a /\ proc'[s].answer = proc[s].answer
  BY <1>1, Went
<1>4. n \in answered /\ urls[n] \in Url /\ urls[n].alias = a
  BY <1>1 DEF Answers, TypeOK
<1>5. Home[urls[n].app] \in Tenant /\ urls[n].app # None
  BY <1>4, HomeAssumption, NamesAssumption DEF Url
<1>6. /\ token' \in [Alias -> [nonce : Nat, access : Tenant \cup {None}]]
      /\ token'[a].nonce = 0 /\ token'[a].access = Home[urls[n].app]
      /\ \A b \in Alias \ {a} : token'[b] = token[b]
  BY <1>1, <1>2, <1>5 DEF TypeOK
<1>7. TypeOK'
  BY <1>1, <1>3, <1>6 DEF TypeOK
<1>8. Commands' /\ Answers' /\ Absent'
  BY <1>1, <1>3, <1>6 DEF Commands, Answers, Absent, Doing
<1>9. Nonces' /\ Consented' /\ TokenOfTenant' /\ Steps'
  BY <1>1, <1>6 DEF Nonces, Latest, Consented, TokenOfTenant, Steps, Whole, Lacking
<1>10. Alone'
  <2>1. \A x \in Session \ {s} : proc[x].pc \in Uploading /\ proc[x].alias \notin overlapped
                                => proc[x].alias # a
    BY <1>1 DEF Alone
  <2> QED BY <1>1, <1>3, <1>6, <2>1 DEF Alone, Answers
<1>11. Stored'
  BY <1>1, <1>3 DEF Stored, Latest
<1>12. Tokens'
  <2>1. a \notin overlapped => ids[a].app = urls[n].app
    BY <1>1 DEF Stored
  <2> QED BY <1>1, <1>5, <1>6, <2>1 DEF Tokens
<1> QED BY <1>7, <1>8, <1>9, <1>10, <1>11, <1>12

LEMMA RegisterKeeps == ASSUME IInv, NEW s \in Session, Register(s) PROVE IInv'
<1> USE DEF IInv
<1>0. PICK a : a = proc[s].alias
  OBVIOUS
<1> DEFINE n == proc[s].answer.nonce
           p == [proc[s] EXCEPT !.pc = "idle", !.answer.kind = "used"]
<1>1. /\ proc[s].pc = "register" /\ a \in Alias
      /\ ucr' = [ucr EXCEPT ![a] = Home[urls[n].app]]
      /\ UNCHANGED <<disk, udm, wizard, cmd, listener, azure, history>>
  BY <1>0 DEF Register, At, Of, Asked, Answers
<1>2. proc' = [proc EXCEPT ![s] = p]
  BY DEF Register
<1>3. n \in answered /\ urls[n] \in Url /\ urls[n].alias = a
  <2>1. n \in answered /\ urls[n].alias = a
    BY <1>0, <1>1 DEF Answers
  <2> QED BY <2>1 DEF TypeOK
<1>4. Home[urls[n].app] \in Tenant /\ Home[urls[n].app] # None
  BY <1>3, HomeAssumption, NamesAssumption DEF Url
<1>5. p \in Proc /\ p.pc = "idle" /\ p.alias = a /\ p.answer.kind = "used" /\ p.answer.nonce = n
  <2>1. proc[s] \in Proc
    BY DEF TypeOK
  <2> QED BY <1>0, <2>1 DEF Proc, Answer
<1> HIDE DEF p
<1>6. /\ proc' \in [Session -> Proc] /\ proc'[s] = p
      /\ \A x \in Session \ {s} : proc'[x] = proc[x]
  BY <1>2, <1>5 DEF TypeOK
<1>7. ucr'[a] = Home[urls[n].app] /\ \A b \in Alias \ {a} : ucr'[b] = ucr[b]
  BY <1>1 DEF TypeOK
<1>8. TypeOK'
  BY <1>1, <1>4, <1>6, <1>7 DEF TypeOK
<1>9. Commands' /\ Absent' /\ Nonces' /\ Tokens' /\ TokenOfTenant'
  BY <1>1 DEF Commands, Absent, Doing, Nonces, Latest, Tokens, TokenOfTenant
<1>10. Answers'
  BY <1>1, <1>3, <1>5, <1>6 DEF Answers
<1>11. Consented'
  <2> SUFFICES ASSUME NEW b \in Alias, ucr'[b] \in Tenant
               PROVE  \E m \in answered' : urls'[m].alias = b /\ Home[urls'[m].app] = ucr'[b]
    BY DEF Consented
  <2>1. CASE b = a
    BY <1>1, <1>3, <1>7, <2>1
  <2>2. CASE b # a
    BY <1>1, <1>7, <2>2 DEF Consented
  <2> QED BY <2>1, <2>2
<1>12. Alone' /\ Stored'
  BY <1>1, <1>5, <1>6 DEF Alone, Stored, Latest
<1>13. Steps'
  <2>1. a \notin overlapped => a \in there
    BY <1>0, <1>1 DEF Alone
  <2>2. a \notin overlapped => ~Lacking(a)
    BY <2>1 DEF Lacking
  <2>3. \A b \in Alias : b # a => (Whole(b)' <=> Whole(b)) /\ (Lacking(b)' <=> Lacking(b))
    BY <1>1, <1>7 DEF Whole, Lacking
  <2>4. Whole(a) => Whole(a)'
    BY <1>1, <1>4, <1>7 DEF Whole
  <2>5. ucr'[a] # None
    BY <1>4, <1>7
  <2> QED BY <1>1, <1>7, <2>1, <2>2, <2>3, <2>4, <2>5 DEF Steps
<1> QED BY <1>8, <1>9, <1>10, <1>11, <1>12, <1>13

-----------------------------------------------------------------------------
(* The listener.                                                           *)

\* What the listener has of a connection when it was started.
LEMMA LoadedOne ==
  ASSUME IInv, Load, NEW a \in Alias
  PROVE  /\ listener'[a] \in [app : App \cup {None}, access : Tenant \cup {None}]
         /\ token'[a] \in [nonce : Nat, access : Tenant \cup {None}]
         /\ \/ token'[a] = token[a]
            \/ /\ token'[a].nonce = 0 /\ token'[a].access = Home[ids[a].app]
               /\ a \in there /\ ids[a].app # None
         /\ listener'[a] # NoAccount => listener'[a].app \in App
         /\ listener'[a] # NoAccount /\ a \notin taken' \cup overlapped =>
              listener'[a].access = Home[listener'[a].app]
<1> USE DEF IInv
<1> DEFINE t == [nonce |-> 0, access |-> Home[ids[a].app]]
           l == [app |-> ids[a].app, access |->
                   IF token[a].access # None THEN token[a].access ELSE Home[ids[a].app]]
<1>1. token[a] \in [nonce : Nat, access : Tenant \cup {None}]
  BY DEF TypeOK
<1>2. CASE ~Serves(a)
  <2>1. listener'[a] = NoAccount /\ token'[a] = token[a]
    BY <1>2 DEF Load
  <2> QED BY <1>1, <2>1 DEF NoAccount
<1>3. CASE Serves(a)
  <2>1. ids[a].app \in App /\ ids[a].app # None /\ Home[ids[a].app] \in Tenant /\ a \in there
    BY <1>3, HomeAssumption DEF TypeOK, Serves, IsInitialized, Ids, Absent, NoIds
  <2>2. listener'[a] = l /\ token'[a] = IF token[a].access = None THEN t ELSE token[a]
    BY <1>3 DEF Load
  <2>3. t \in [nonce : Nat, access : Tenant \cup {None}] /\ t.nonce = 0 /\ t.access = Home[ids[a].app]
    BY <2>1
  <2>4. l \in [app : App \cup {None}, access : Tenant \cup {None}] /\ l.app = ids[a].app
    BY <1>1, <2>1
  <2>5. a \notin taken' \cup overlapped => l.access = Home[ids[a].app]
    <3>1. taken' = {b \in spoiled : Serves(b) /\ token[b].access # None}
      BY DEF Load
    <3>2. CASE token[a].access = None
      BY <3>2
    <3>3. CASE token[a].access # None
      <4>1. a \notin taken' => a \notin spoiled
        BY <1>3, <3>1, <3>3
      <4>2. l.access = token[a].access
        BY <3>3
      <4> QED BY <3>3, <4>1, <4>2 DEF Tokens
    <3> QED BY <3>2, <3>3
  <2> HIDE DEF t, l
  <2> QED BY <1>1, <2>1, <2>2, <2>3, <2>4, <2>5
<1> QED BY <1>2, <1>3

LEMMA Loaded ==
  ASSUME IInv, Load
  PROVE  /\ listener' \in [Alias -> [app : App \cup {None}, access : Tenant \cup {None}]]
         /\ token' \in [Alias -> [nonce : Nat, access : Tenant \cup {None}]]
         /\ taken' \subseteq Alias
<1>1. /\ taken' \subseteq spoiled
      /\ listener' = [a \in Alias |-> listener'[a]] /\ token' = [a \in Alias |-> token'[a]]
  BY DEF Load
<1> QED BY <1>1, LoadedOne DEF IInv, TypeOK

LEMMA LoadKeeps ==
  ASSUME IInv, Load, Rested, UNCHANGED cmd \/ (cmd.pc = "restart" /\ cmd' = Idle)
  PROVE  IInv'
<1> USE DEF IInv
<1>1. UNCHANGED <<there, ids, registry, azure, uploads, commands, crashes, cut, spoiled,
                  overlapped>>
  BY DEF Load
<1>2. TypeOK'
  <2>1. cmd' \in Cmd
    BY DEF TypeOK, Idle, Cmd
  <2> QED BY <1>1, <2>1, Loaded DEF TypeOK, Rested
<1>3. Commands'
  BY DEF Commands, Idle
<1>4. Absent'
  BY <1>1, LoadedOne DEF Absent, Doing, Idle
<1>5. Answers'
  BY <1>1 DEF Answers, Rested, Resting
<1>6. Nonces' /\ Consented'
  <2>1. \A a \in Alias : token'[a].nonce # 0 => token'[a].nonce = token[a].nonce
    BY LoadedOne
  <2> QED BY <1>1, <2>1 DEF Nonces, Latest, Consented
<1>7. Alone'
  <2>1. \A a \in Alias : token[a].nonce = 0 => token'[a].nonce = 0
    BY LoadedOne
  <2> QED BY <1>1, <2>1 DEF Alone, Answers, Rested, Resting
<1>8. Stored'
  BY <1>1 DEF Stored, Rested, Resting, Latest
<1>9. Tokens'
  BY <1>1, LoadedOne DEF Tokens
<1>10. TokenOfTenant'
  BY <1>1, LoadedOne DEF TokenOfTenant
<1>11. Steps'
  <2>1. \A a \in Alias : a # None
    BY NamesAssumption
  <2> QED BY <1>1, <2>1 DEF Steps, Whole, Lacking, Idle
<1> QED BY <1>2, <1>3, <1>4, <1>5, <1>6, <1>7, <1>8, <1>9, <1>10, <1>11

LEMMA CompleteKeeps == ASSUME IInv, NEW s \in Session, Complete(s) PROVE IInv'
<1>1. UNCHANGED answered /\ ~At(s, "off")
  BY DEF Complete, Load, At
<1>2. Rested
  BY <1>1, FreshRests, OneRests DEF Complete, IInv
<1> QED BY <1>2, LoadKeeps DEF Complete

LEMMA RestartKeeps == ASSUME IInv, Restart \/ RestartListener PROVE IInv'
<1>1. Load /\ UNCHANGED proc /\ (UNCHANGED cmd \/ (cmd.pc = "restart" /\ cmd' = Idle))
  BY DEF Restart, RestartListener
<1>2. Rested
  BY <1>1 DEF Rested, IInv, TypeOK
<1> QED BY <1>1, <1>2, LoadKeeps

LEMMA RenewKeeps == ASSUME IInv, NEW a \in Alias, Renew(a) PROVE IInv'
<1> USE DEF IInv
<1> DEFINE app == listener[a].app
           t == [nonce |-> 0, access |-> Home[app]]
           l == [listener[a] EXCEPT !.access = Home[app]]
<1>1. /\ listener[a] # NoAccount /\ a \in there
      /\ taken' = taken \ {a}
      /\ spoiled' = IF app # ids[a].app THEN spoiled \cup {a} ELSE spoiled
      /\ UNCHANGED <<there, ids, registry, proc, cmd, azure, uploads, commands, crashes,
                     cut, overlapped>>
  BY DEF Renew
<1>2. listener' = [listener EXCEPT ![a] = l] /\ token' = [token EXCEPT ![a] = t]
  BY DEF Renew
<1>3. app \in App /\ Home[app] \in Tenant /\ app # None
  BY <1>1, HomeAssumption, NamesAssumption DEF Tokens
<1>4. /\ l \in [app : App \cup {None}, access : Tenant \cup {None}]
      /\ l.app = app /\ l.access = Home[app]
  <2>1. listener[a] \in [app : App \cup {None}, access : Tenant \cup {None}]
    BY DEF TypeOK
  <2> QED BY <1>3, <2>1
<1>5. t \in [nonce : Nat, access : Tenant \cup {None}] /\ t.nonce = 0 /\ t.access = Home[app]
  BY <1>3
<1> HIDE DEF l, t
<1>6. /\ listener' \in [Alias -> [app : App \cup {None}, access : Tenant \cup {None}]]
      /\ token' \in [Alias -> [nonce : Nat, access : Tenant \cup {None}]]
      /\ listener'[a] = l /\ token'[a] = t
      /\ \A b \in Alias \ {a} : listener'[b] = listener[b] /\ token'[b] = token[b]
  BY <1>2, <1>4, <1>5 DEF TypeOK
<1>7. TypeOK'
  BY <1>1, <1>6 DEF TypeOK
<1>8. Commands' /\ Absent' /\ Answers' /\ Consented' /\ Steps'
  BY <1>1, <1>6 DEF Commands, Absent, Doing, Answers, Consented, Steps, Whole, Lacking
<1>9. Nonces'
  BY <1>1, <1>5, <1>6 DEF Nonces, Latest
<1>10. Alone'
  BY <1>1, <1>5, <1>6 DEF Alone, Answers
<1>11. Stored'
  BY <1>1 DEF Stored, Latest
<1>12. Tokens'
  <2>1. a \notin spoiled' => app = ids[a].app
    BY <1>1
  <2>2. spoiled \subseteq spoiled'
    BY <1>1
  <2>3. ASSUME NEW b \in Alias \ (spoiled' \cup overlapped'), token'[b].access # None
        PROVE  ids'[b].app # None /\ token'[b].access = Home[ids'[b].app]
    <3>1. CASE b = a
      <4> HIDE DEF app
      <4> QED BY <1>1, <1>3, <1>5, <1>6, <2>1, <2>3, <3>1
    <3>2. CASE b # a
      BY <1>1, <1>6, <2>2, <2>3, <3>2 DEF Tokens
    <3> QED BY <3>1, <3>2
  <2>4. \A b \in Alias : listener'[b] # NoAccount => listener'[b].app \in App
    BY <1>3, <1>4, <1>6 DEF Tokens
  <2> QED BY <2>3, <2>4 DEF Tokens
<1>13. TokenOfTenant'
  BY <1>1, <1>4, <1>6 DEF TokenOfTenant
<1> QED BY <1>7, <1>8, <1>9, <1>10, <1>11, <1>12, <1>13

-----------------------------------------------------------------------------
(* manage_adconnections.                                                   *)

\* A step of a command that leaves files, registry and sessions alone.
LEMMA CommandKeeps ==
  ASSUME IInv, UNCHANGED <<disk, registry, proc, listener, azure, uploads, spoiled, taken, overlapped>>,
         cmd' \in Cmd, Commands', Absent', Steps',
         commands' \in 0 .. MaxCommands, crashes' \in 0 .. MaxCrashes, cut' \subseteq Alias
  PROVE  IInv'
<1> USE DEF IInv
<1>1. TypeOK'
  BY DEF TypeOK
<1>2. Answers' /\ Nonces' /\ Consented' /\ Alone' /\ Stored' /\ Tokens' /\ TokenOfTenant'
  BY DEF Answers, Nonces, Latest, Consented, Alone, Stored, Tokens, TokenOfTenant
<1> QED BY <1>1, <1>2

LEMMA BeginKeeps == ASSUME IInv, NEW a \in Alias, Create(a) \/ Remove(a) PROVE IInv'
<1> USE DEF IInv
<1>1. /\ cmd = Idle /\ commands < MaxCommands /\ commands' = commands + 1
      /\ UNCHANGED <<disk, registry, proc, listener, azure, uploads, crashes, cut, spoiled,
                     taken, overlapped>>
      /\ \/ /\ cmd' = [op |-> "create", pc |-> "files", alias |-> a]
            /\ ucr[a] = None /\ a \notin there
         \/ /\ cmd' = [op |-> "remove", pc |-> "object", alias |-> a]
            /\ ucr[a] # None
  BY DEF Create, Remove, Begin, Listed
<1>2. cmd' \in Cmd /\ Commands'
  BY <1>1 DEF Cmd, Commands
<1>3. Absent'
  BY <1>1 DEF Absent, Doing
<1>4. Steps'
  <2>1. \A b \in Alias \ (cut \cup overlapped) : Whole(b) \/ Lacking(b)
    BY <1>1, NamesAssumption DEF Steps, Idle
  <2>2. \A b \in Alias : (Whole(b)' <=> Whole(b)) /\ (Lacking(b)' <=> Lacking(b))
    BY <1>1 DEF Whole, Lacking
  <2>3. ucr[a] # None => ~Lacking(a)
    BY DEF Lacking
  <2>4. a \notin there => ~Whole(a)
    BY DEF Whole
  <2> QED BY <1>1, <2>1, <2>2, <2>3, <2>4 DEF Steps
<1> QED BY <1>1, <1>2, <1>3, <1>4, BoundsAssumption, CommandKeeps DEF TypeOK

LEMMA EndKeeps == ASSUME IInv, RemoveNothing \/ KillCommand PROVE IInv'
<1> USE DEF IInv
<1>1. /\ cmd' = Idle
      /\ UNCHANGED <<disk, registry, proc, listener, azure, uploads, commands, spoiled, taken,
                     overlapped>>
      /\ \/ Doing("remove", "rmtree") /\ cmd.alias \notin there /\ UNCHANGED <<crashes, cut>>
         \/ Disturb(cmd.alias) /\ cmd # Idle
  BY DEF RemoveNothing, KillCommand
<1>2. cmd' \in Cmd /\ Commands' /\ Absent'
  BY <1>1 DEF Idle, Cmd, Commands, Absent, Doing
<1>3. cmd.alias \in Alias
  BY <1>1 DEF Commands, Doing
<1>4. crashes' \in 0 .. MaxCrashes /\ cut \subseteq cut' /\ cut' \subseteq Alias
  BY <1>1, <1>3, Disturbed DEF TypeOK
<1>5. Steps'
  <2>1. \A b \in Alias : (Whole(b)' <=> Whole(b)) /\ (Lacking(b)' <=> Lacking(b))
    BY <1>1 DEF Whole, Lacking
  <2>2. cmd.alias \in cut' \cup overlapped
    BY <1>1, <1>3 DEF Doing, Steps, Disturb
  <2>3. \A b \in Alias \ (cut' \cup overlapped) : Whole(b) \/ Lacking(b)
    BY <1>4, <2>2 DEF Steps
  <2>4. \A b \in Alias : b # Idle.alias
    BY NamesAssumption DEF Idle
  <2> QED BY <1>1, <2>1, <2>3, <2>4 DEF Steps
<1> QED BY <1>1, <1>2, <1>4, <1>5, CommandKeeps DEF TypeOK

\* The next step of a command.
LEMMA Stepped ==
  ASSUME IInv, NEW pc \in {"ucr", "udm", "wizard", "kill", "restart", "rmtree", "unset"}, Step(pc),
         cmd.op = "create" => pc \in {"ucr", "udm", "wizard", "kill", "restart"},
         cmd.op = "remove" => pc \in {"rmtree", "unset", "restart"}, cmd.op # "none"
  PROVE  /\ cmd' \in Cmd /\ Commands' /\ cmd'.pc = pc
         /\ cmd'.alias = cmd.alias /\ cmd'.op = cmd.op
         /\ cmd.alias \in Alias
<1>1. cmd \in Cmd /\ cmd' = [cmd EXCEPT !.pc = pc]
  BY DEF IInv, TypeOK, Step
<1>2. cmd' \in Cmd /\ cmd'.pc = pc /\ cmd'.alias = cmd.alias /\ cmd'.op = cmd.op
  BY <1>1 DEF Cmd
<1>3. cmd.alias \in Alias
  BY DEF IInv, Commands
<1>4. Commands'
  BY <1>2, <1>3 DEF Commands
<1> QED BY <1>2, <1>3, <1>4

LEMMA RegistryKeeps ==
  ASSUME IInv, UNCHANGED <<disk, proc, listener, azure, history>>,
         ucr' \in [Alias -> Tenant \cup {None, Uninitialized}], udm' \subseteq Alias,
         wizard' \in Alias \cup {None}, wizard # None => wizard' # None,
         cmd' \in Cmd, Commands', cmd'.pc # "files", Consented', Steps'
  PROVE  IInv'
<1> USE DEF IInv
<1>1. TypeOK'
  BY DEF TypeOK
<1>2. Answers' /\ Absent'
  BY DEF Answers, Absent, Doing
<1>3. Nonces' /\ Alone' /\ Stored' /\ Tokens' /\ TokenOfTenant'
  BY DEF Nonces, Latest, Alone, Stored, Tokens, TokenOfTenant
<1> QED BY <1>1, <1>2, <1>3

LEMMA SetUcrKeeps == ASSUME IInv, SetUcr \/ Unset PROVE IInv'
<1> USE DEF IInv
<1>0. PICK a : a = cmd.alias
  OBVIOUS
<1>1. /\ UNCHANGED <<disk, udm, wizard, proc, listener, azure, history>>
      /\ \/ Doing("create", "ucr") /\ ucr' = [ucr EXCEPT ![a] = Uninitialized] /\ Step("udm")
         \/ Doing("remove", "unset") /\ ucr' = [ucr EXCEPT ![a] = None] /\ Step("restart")
  BY <1>0 DEF SetUcr, Unset
<1>2. /\ cmd' \in Cmd /\ Commands' /\ cmd'.alias = a /\ a \in Alias
      /\ cmd'.pc = IF cmd.pc = "ucr" THEN "udm" ELSE "restart"
  BY <1>0, <1>1, Stepped DEF Doing
<1>3. /\ ucr' \in [Alias -> Tenant \cup {None, Uninitialized}]
      /\ ucr'[a] = IF cmd.pc = "ucr" THEN Uninitialized ELSE None
      /\ \A b \in Alias \ {a} : ucr'[b] = ucr[b]
  BY <1>1, <1>2 DEF TypeOK, Doing
<1>4. ucr'[a] \notin Tenant /\ Uninitialized # None
  BY <1>3, NamesAssumption DEF Uninitialized, None
<1>5. Consented'
  BY <1>1, <1>3, <1>4 DEF Consented
<1>6. Steps'
  <2>1. \A b \in Alias \ {a} : (Whole(b)' <=> Whole(b)) /\ (Lacking(b)' <=> Lacking(b))
    BY <1>1, <1>3 DEF Whole, Lacking
  <2>2. a \notin cut \cup overlapped => a \notin udm /\ (a \in there <=> cmd.pc = "ucr")
    BY <1>0, <1>1, <1>2 DEF Steps, Doing
  <2>3. a \notin cut \cup overlapped /\ cmd.pc # "ucr" => Lacking(a)'
    BY <1>0, <1>1, <1>3, <2>2 DEF Lacking
  <2> QED BY <1>0, <1>1, <1>2, <1>3, <1>4, <2>1, <2>2, <2>3 DEF Steps
<1> QED BY <1>1, <1>2, <1>3, <1>5, <1>6, RegistryKeeps DEF TypeOK

LEMMA UdmKeeps == ASSUME IInv, CreateUdm \/ RemoveUdm PROVE IInv'
<1> USE DEF IInv
<1>0. PICK a : a = cmd.alias
  OBVIOUS
<1>1. /\ UNCHANGED <<disk, ucr, wizard, proc, listener, azure, history>>
      /\ \/ Doing("create", "udm") /\ udm' = udm \cup {a} /\ Step("wizard")
         \/ Doing("remove", "object") /\ udm' = udm \ {a} /\ Step("rmtree")
  BY <1>0 DEF CreateUdm, RemoveUdm
<1>2. /\ cmd' \in Cmd /\ Commands' /\ cmd'.alias = a /\ a \in Alias
      /\ cmd'.pc = IF cmd.pc = "udm" THEN "wizard" ELSE "rmtree"
  BY <1>0, <1>1, Stepped DEF Doing
<1>3. Consented'
  BY <1>1 DEF Consented
<1>4. Steps'
  <2>1. \A b \in Alias \ {a} : (Whole(b)' <=> Whole(b)) /\ (Lacking(b)' <=> Lacking(b))
    BY <1>1 DEF Whole, Lacking
  <2>2. a \notin cut \cup overlapped => ucr[a] # None /\ a \in there
    BY <1>0, <1>1, <1>2 DEF Steps, Doing, Whole
  <2>3. a \notin cut \cup overlapped /\ cmd.pc = "udm" => Whole(a)'
    BY <1>0, <1>1, <1>2, <2>2 DEF Whole, Doing
  <2>4. cmd.pc # "udm" => a \notin udm'
    BY <1>1 DEF Doing
  <2> QED BY <1>0, <1>1, <1>2, <2>1, <2>2, <2>3, <2>4 DEF Steps
<1> QED BY <1>1, <1>2, <1>3, <1>4, RegistryKeeps DEF TypeOK

LEMMA SetWizardKeeps == ASSUME IInv, SetWizard PROVE IInv'
<1> USE DEF IInv
<1>1. /\ UNCHANGED <<disk, ucr, udm, proc, listener, azure, history>>
      /\ Doing("create", "wizard") /\ wizard' = cmd.alias /\ Step("kill")
  BY DEF SetWizard
<1>2. /\ cmd' \in Cmd /\ Commands' /\ cmd'.alias = cmd.alias /\ cmd.alias \in Alias
      /\ cmd'.pc = "kill"
  BY <1>1, Stepped DEF Doing
<1>3. Consented'
  BY <1>1 DEF Consented
<1>4. Steps'
  BY <1>1, <1>2 DEF Steps, Whole, Lacking, Doing
<1>5. wizard' # None
  BY <1>1, <1>2, NamesAssumption
<1> QED BY <1>1, <1>2, <1>3, <1>4, <1>5, RegistryKeeps DEF TypeOK

LEMMA KillWizardKeeps == ASSUME IInv, KillWizard PROVE IInv'
<1> USE DEF IInv
<1>1. /\ UNCHANGED <<disk, registry, listener, azure, uploads, commands, crashes,
                     spoiled, taken, overlapped>>
      /\ Doing("create", "kill") /\ Step("restart") /\ proc' = [s \in Session |-> NoProc]
  BY DEF KillWizard
<1>2. cut \subseteq cut' /\ cut' \subseteq Alias
  BY DEF KillWizard, Of, Answers, TypeOK
<1>3. /\ cmd' \in Cmd /\ Commands' /\ cmd'.alias = cmd.alias /\ cmd.alias \in Alias
      /\ cmd'.pc = "restart"
  BY <1>1, Stepped DEF Doing
<1>4. NoProc \in Proc /\ NoProc.pc = "off" /\ NoProc.answer.kind = None
  BY DEF NoProc, Proc, Answer, NoAnswer
<1>5. TypeOK'
  BY <1>1, <1>2, <1>3, <1>4 DEF TypeOK
<1>6. Answers' /\ Alone' /\ Stored'
  BY <1>1, <1>4 DEF Answers, Alone, Stored, None
<1>7. Absent' /\ Nonces' /\ Consented' /\ Tokens' /\ TokenOfTenant'
  BY <1>1, <1>3 DEF Absent, Doing, Nonces, Latest, Consented, Tokens, TokenOfTenant
<1>8. Steps'
  BY <1>1, <1>2, <1>3 DEF Steps, Whole, Lacking, Doing
<1> QED BY <1>3, <1>5, <1>6, <1>7, <1>8

\* The files that are made are empty.
LEMMA MakeFilesKeeps == ASSUME IInv, MakeFiles PROVE IInv'
<1> USE DEF IInv
<1>0. PICK a : a = cmd.alias
  OBVIOUS
<1>1. /\ UNCHANGED <<registry, proc, listener, azure, history>>
      /\ Doing("create", "files") /\ Step("ucr") /\ there' = there \cup {a}
      /\ ids' = [ids EXCEPT ![a] = NoIds] /\ token' = [token EXCEPT ![a] = NoToken]
  BY <1>0 DEF MakeFiles
<1>2. /\ cmd' \in Cmd /\ Commands' /\ cmd'.alias = a /\ a \in Alias /\ cmd'.pc = "ucr"
  BY <1>0, <1>1, Stepped DEF Doing
<1>3. UNCHANGED <<ids, token>>
  BY <1>0, <1>1, <1>2 DEF Absent, TypeOK
<1>4. TypeOK'
  BY <1>1, <1>2, <1>3 DEF TypeOK
<1>5. Answers' /\ Nonces' /\ Consented' /\ Alone' /\ Stored'
  BY <1>1, <1>3 DEF Answers, Nonces, Latest, Consented, Alone, Stored
<1>6. Absent' /\ Tokens' /\ TokenOfTenant'
  BY <1>1, <1>2, <1>3 DEF Absent, Doing, Tokens, TokenOfTenant
<1>7. Steps'
  <2>1. \A b \in Alias \ {a} : (Whole(b)' <=> Whole(b)) /\ (Lacking(b)' <=> Lacking(b))
    BY <1>1 DEF Whole, Lacking
  <2> QED BY <1>0, <1>1, <1>2, <2>1 DEF Steps, Lacking, Doing
<1> QED BY <1>2, <1>4, <1>5, <1>6, <1>7

LEMMA RemoveFilesKeeps == ASSUME IInv, RemoveFiles PROVE IInv'
<1> USE DEF IInv
<1>0. PICK a : a = cmd.alias
  OBVIOUS
<1>1. /\ UNCHANGED <<registry, proc, listener, azure, uploads, commands, crashes, cut, spoiled, taken>>
      /\ Doing("remove", "rmtree") /\ Step("unset") /\ there' = there \ {a}
      /\ ids' = [ids EXCEPT ![a] = NoIds] /\ token' = [token EXCEPT ![a] = NoToken]
      /\ overlapped' = IF Working(a) # {} THEN overlapped \cup {a} ELSE overlapped
  BY <1>0 DEF RemoveFiles
<1>2. /\ cmd' \in Cmd /\ Commands' /\ cmd'.alias = a /\ a \in Alias /\ cmd'.pc = "unset"
  BY <1>0, <1>1, Stepped DEF Doing
<1>3. /\ ids' \in [Alias -> Ids] /\ ids'[a] = NoIds /\ \A b \in Alias \ {a} : ids'[b] = ids[b]
      /\ token' \in [Alias -> [nonce : Nat, access : Tenant \cup {None}]]
      /\ token'[a] = NoToken /\ \A b \in Alias \ {a} : token'[b] = token[b]
      /\ NoIds.app = None /\ NoToken.nonce = 0 /\ NoToken.access = None
  BY <1>1, <1>2 DEF TypeOK, NoIds, NoToken, Ids
<1>4. /\ overlapped \subseteq overlapped' /\ overlapped' \subseteq Alias
      /\ a \notin overlapped' =>
           \A s \in Session : proc[s].alias = a => proc[s].pc \in {"off", "idle"}
  BY <1>1, <1>2 DEF Working, TypeOK
<1>5. TypeOK'
  BY <1>1, <1>2, <1>3, <1>4 DEF TypeOK
<1>6. Answers' /\ Absent'
  BY <1>1, <1>2, <1>3 DEF Answers, Absent, Doing
<1>7. Nonces' /\ Consented'
  BY <1>1, <1>3 DEF Nonces, Latest, Consented
<1>8. Alone'
  BY <1>1, <1>3, <1>4 DEF Alone, Answers
<1>9. Stored'
  BY <1>1, <1>3, <1>4 DEF Stored, Latest, Answers
<1>10. Tokens' /\ TokenOfTenant'
  BY <1>1, <1>3, <1>4 DEF Tokens, TokenOfTenant
<1>11. Steps'
  <2>1. \A b \in Alias \ {a} : (Whole(b)' <=> Whole(b)) /\ (Lacking(b)' <=> Lacking(b))
    BY <1>1 DEF Whole, Lacking
  <2> QED BY <1>0, <1>1, <1>2, <1>4, <2>1 DEF Steps, Doing
<1> QED BY <1>2, <1>5, <1>6, <1>7, <1>8, <1>9, <1>10, <1>11

-----------------------------------------------------------------------------
(* The theorems.                                                           *)

LEMMA NextIInv == IInv /\ [Next]_vars => IInv'
<1> SUFFICES ASSUME IInv, [Next]_vars PROVE IInv'
  OBVIOUS
<1>1. ASSUME NEW s \in Session, Request(s) PROVE IInv'
  BY <1>1, OpenKeeps, UploadKeeps, RequestRests, NoIDsStoredKeeps, StoreManifestKeeps, HandOutKeeps,
     ReceiveKeeps, DeclineKeeps, CloseKeeps DEF Request
<1>2. ASSUME NEW s \in Session, Poll(s) PROVE IInv'
  BY <1>2, PollRests, CheckKeeps, StoreKeeps, LoginKeeps, RegisterKeeps, CompleteKeeps DEF Poll
<1>3. CASE Manage
  BY <1>3, BeginKeeps, MakeFilesKeeps, SetUcrKeeps, UdmKeeps, SetWizardKeeps, KillWizardKeeps,
     RestartKeeps, RemoveFilesKeeps, EndKeeps DEF Manage
<1>4. CASE Restart
  BY <1>4, RestartKeeps
<1>5. ASSUME NEW a \in Alias, Renew(a) PROVE IInv'
  BY <1>5, RenewKeeps
<1>6. CASE UNCHANGED vars
  <2>1. Rested
    BY <1>6 DEF Rested, IInv, TypeOK, vars
  <2> QED BY <1>6, <2>1, RestKeeps DEF vars, IInv, TypeOK
<1> QED BY <1>1, <1>2, <1>3, <1>4, <1>5, <1>6 DEF Next

LEMMA Invariant == Spec => []IInv
<1>1. Init => IInv
  BY InitIInv
<1>2. IInv /\ [Next]_vars => IInv'
  BY NextIInv
<1> QED BY <1>1, <1>2, PTL DEF Spec

\* Files, registry, processes and the listener keep their types.
THEOREM TypeCorrect == Spec => []TypeOK
<1>1. IInv => TypeOK
  BY DEF IInv
<1> QED BY <1>1, Invariant, PTL

\* The registry names a tenant of a connection only after an administrator of
\* this tenant has answered an address handed out for the connection.
THEOREM OnlyWithConsent == Spec => []Consented
<1>1. IInv => Consented
  BY DEF IInv
<1> QED BY <1>1, Invariant, PTL

\* The listener works for an application with a token of its tenant, whatever
\* the wizard does meanwhile.
THEOREM TokensFit == Spec => []TokenOfTenant
<1>1. IInv => TokenOfTenant
  BY DEF IInv
<1> QED BY <1>1, Invariant, PTL

\* Directory, registry and LDAP agree on the connections between two commands.
THEOREM ConnectionsAgree == Spec => []SameConnections
<1>1. IInv => SameConnections
  <2>1. \A a \in Alias : a # None
    BY NamesAssumption
  <2> QED BY <2>1 DEF IInv, Steps, Whole, Lacking, SameConnections, Idle
<1> QED BY <1>1, Invariant, PTL

\* Only the answer to the address handed out last gives ids.json a tenant.
THEOREM LatestWins == Spec => LatestAnswer
<1> DEFINE Last(s, a) ==
      Of(s) = a /\ At(s, "store") /\ proc'[s].pc = "login"
        => proc[s].answer.nonce \in Latest(a) /\ Asked(s) = ids[a].app
<1>1. IInv => \A s \in Session : \A a \in Alias \ overlapped : Last(s, a)
  BY DEF IInv, Stored, Of, At, Asked
<1>2. IInv /\ [Next]_vars => [\A s \in Session : \A a \in Alias \ overlapped : Last(s, a)]_vars
  BY <1>1
<1> QED BY <1>2, Invariant, PTL DEF Spec, LatestAnswer

=============================================================================
