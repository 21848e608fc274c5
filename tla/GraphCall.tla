----------------------------- MODULE GraphCall -----------------------------
(***************************************************************************)
(* Calls of the Microsoft Graph API and the access token they need:        *)
(* MSGraphApiCore.__init__, get_token and _call_graph_api, Token,          *)
(* JsonStorage.  Every process (the directory listener, the asynchronous   *)
(* daemon, the scripts) keeps the token of a connection in memory and      *)
(* renews it by itself; all of them save it to the same token.json, by way *)
(* of the same token.json.tmp.                                             *)
(*                                                                         *)
(* The module is about one connection.  Tokens are numbered in the order   *)
(* in which Microsoft hands them out.  The clock is left out: a token may  *)
(* be over at any time, for Microsoft or by the expires_on the connector   *)
(* computed from the moment the answer arrived, in either order.           *)
(***************************************************************************)
EXTENDS Integers

CONSTANTS
  Client,     \* the processes that use the connection
  MaxPages,   \* bound: pages of an answer
  MaxTokens   \* bound: tokens handed out

ASSUME BoundsAssumption == MaxPages \in Nat \ {0} /\ MaxTokens \in Nat

NoToken == 0    \* a JSON object without an access token
Truncated == -1 \* not a JSON object: opened for writing, nothing written yet
Missing == -2   \* no file

VARIABLES
  issued,     \* tokens handed out so far
  overHere,   \* tokens past their expires_on
  overThere,  \* tokens Microsoft does not accept any more
  file,       \* content of token.json
  tmp,        \* content of token.json.tmp
  memory,     \* memory[c]: the token c holds
  renewing,   \* renewing[c]: AzureAccount.renewing
  pc,         \* pc[c]: what c does
  frame,      \* frame[c]: who needs the token, __init__ or _call_graph_api
  timedOut,   \* timedOut[c]: the frames that had their one Timeout
  header,     \* header[c]: the token in the headers of c's call
  page,       \* page[c]: the page c's call asks for
  performed,  \* performed[c]: requests of the call that were carried out (history)
  overlapped  \* two clients were saving a token at a time (history)

server == <<issued, overHere, overThere>>
disk == <<file, tmp, overlapped>>
call == <<header, page, performed>>
account == <<memory, renewing>>
control == <<pc, frame, timedOut>>
vars == <<server, disk, call, account, control>>

PC == {"off", "ready", "top", "login", "touch", "chmod", "dump", "move", "send"}

Tokens == 1 .. issued

TypeOK ==
  /\ issued \in 0 .. MaxTokens
  /\ overHere \subseteq Tokens
  /\ overThere \subseteq Tokens
  /\ file \in Tokens \cup {NoToken, Truncated}
  /\ tmp \in Tokens \cup {Truncated, Missing}
  /\ memory \in [Client -> Tokens \cup {NoToken}]
  /\ renewing \in [Client -> BOOLEAN]
  /\ pc \in [Client -> PC]
  /\ frame \in [Client -> {"init", "call"}]
  /\ timedOut \in [Client -> SUBSET {"call", "login"}]
  /\ header \in [Client -> Tokens \cup {NoToken}]
  /\ page \in [Client -> 1 .. MaxPages]
  /\ performed \in [Client -> Nat]
  /\ overlapped \in BOOLEAN

\* The wizard has left a token.json without a token.
Init ==
  /\ issued = 0 /\ overHere = {} /\ overThere = {}
  /\ file = NoToken /\ tmp = Missing
  /\ memory = [c \in Client |-> NoToken]
  /\ renewing = [c \in Client |-> FALSE]
  /\ pc = [c \in Client |-> "off"]
  /\ frame = [c \in Client |-> "init"]
  /\ timedOut = [c \in Client |-> {}]
  /\ header = [c \in Client |-> NoToken]
  /\ page = [c \in Client |-> 1]
  /\ performed = [c \in Client |-> 0]
  /\ overlapped = FALSE

-----------------------------------------------------------------------------
(* Tokens.                                                                 *)

ExpireHere ==
  /\ \E t \in Tokens : overHere' = overHere \cup {t}
  /\ UNCHANGED <<issued, overThere, disk, call, account, control>>

ExpireThere ==
  /\ \E t \in Tokens : overThere' = overThere \cup {t}
  /\ UNCHANGED <<issued, overHere, disk, call, account, control>>

\* Token.check_token.
CheckToken(c) == memory[c] # NoToken /\ memory[c] \notin overHere

\* Faulty variants are named ...Fault and stand before the definition they
\* replace: each breaks one property the module's run checks.

\* The ValueError of the parser is not caught.
ReadFault(content) == content

\* JsonStorage.read: what cannot be parsed counts as an empty object.
Read(content) == IF content = Truncated THEN NoToken ELSE content

Accepted(t) == t # NoToken /\ t \notin overThere

-----------------------------------------------------------------------------
(* A process begins and ends.                                              *)

\* A temporary file left over by a crash is cleaned up.
StartFault(c) ==
  /\ pc[c] = "off"
  /\ memory' = [memory EXCEPT ![c] = Read(file)]
  /\ tmp' = Missing
  /\ pc' = [pc EXCEPT ![c] = "top"]
  /\ frame' = [frame EXCEPT ![c] = "init"]
  /\ UNCHANGED <<server, file, overlapped, call, renewing, timedOut>>

\* The core of the connection is made: the token cache is read and checked.
Start(c) ==
  /\ pc[c] = "off"
  /\ memory' = [memory EXCEPT ![c] = Read(file)]
  /\ pc' = [pc EXCEPT ![c] = "top"]
  /\ frame' = [frame EXCEPT ![c] = "init"]
  /\ UNCHANGED <<server, disk, call, renewing, timedOut>>

\* Nothing of the call is kept.
DropCall(c) ==
  /\ timedOut' = [timedOut EXCEPT ![c] = {}]
  /\ header' = [header EXCEPT ![c] = NoToken]
  /\ page' = [page EXCEPT ![c] = 1]
  /\ performed' = [performed EXCEPT ![c] = 0]

\* The account object is gone, with its token and its flag.
DropAccount(c) ==
  /\ memory' = [memory EXCEPT ![c] = NoToken]
  /\ renewing' = [renewing EXCEPT ![c] = FALSE]

Crash(c) ==
  /\ pc[c] # "off"
  /\ pc' = [pc EXCEPT ![c] = "off"]
  /\ DropCall(c)
  /\ DropAccount(c)
  /\ UNCHANGED <<server, disk, frame>>

\* An exception leaves get_token or _call_graph_api.  In __init__ it leaves
\* the connection without a core; a call reports it to its caller, and the
\* account stays as it is.
Raise(c) ==
  /\ DropCall(c)
  /\ IF frame[c] = "init"
     THEN /\ pc' = [pc EXCEPT ![c] = "off"]
          /\ DropAccount(c)
     ELSE /\ pc' = [pc EXCEPT ![c] = "ready"]
          /\ UNCHANGED account
  /\ UNCHANGED frame

-----------------------------------------------------------------------------
(* get_token.                                                              *)

\* Reached from __init__ and from the top of the loop of _call_graph_api,
\* there only while the account is not renewing: the request of get_token
\* itself asks for no token.
Renew(c) ==
  /\ pc[c] = "top"
  /\ ~renewing[c]
  /\ ~CheckToken(c)
  /\ renewing' = [renewing EXCEPT ![c] = TRUE]
  /\ pc' = [pc EXCEPT ![c] = "login"]
  /\ UNCHANGED <<server, disk, call, memory, frame, timedOut>>

LoginTimeout(c) ==
  /\ pc[c] = "login"
  /\ "login" \notin timedOut[c]
  /\ timedOut' = [timedOut EXCEPT ![c] = @ \cup {"login"}]
  /\ UNCHANGED <<server, disk, call, account, pc, frame>>

\* A second Timeout, no connection, an unexpected status, no certificate.
LoginFails(c) ==
  /\ pc[c] = "login"
  /\ Raise(c)
  /\ UNCHANGED <<server, disk>>

\* Token.update_and_save, the part in memory.
LoginOk(c) ==
  /\ pc[c] = "login"
  /\ issued < MaxTokens
  /\ issued' = issued + 1
  /\ memory' = [memory EXCEPT ![c] = issued']
  /\ timedOut' = [timedOut EXCEPT ![c] = @ \ {"login"}]
  /\ pc' = [pc EXCEPT ![c] = "touch"]
  /\ UNCHANGED <<overHere, overThere, disk, call, renewing, frame>>

Saving(c) == pc[c] \in {"chmod", "dump", "move"}

\* The token cache itself is opened for writing.
TouchFault(c) ==
  /\ pc[c] = "touch"
  /\ tmp' = Truncated
  /\ file' = Truncated
  /\ overlapped' = (overlapped \/ \E d \in Client \ {c} : Saving(d))
  /\ pc' = [pc EXCEPT ![c] = "chmod"]
  /\ UNCHANGED <<server, call, account, frame, timedOut>>

\* JsonStorage._save(token.json.tmp): open(..., "w").close(), chmod and
\* chown, then open and write.
Touch(c) ==
  /\ pc[c] = "touch"
  /\ tmp' = Truncated
  /\ overlapped' = (overlapped \/ \E d \in Client \ {c} : Saving(d))
  /\ pc' = [pc EXCEPT ![c] = "chmod"]
  /\ UNCHANGED <<server, file, call, account, frame, timedOut>>

Chmod(c) ==
  /\ pc[c] = "chmod"
  /\ tmp # Missing
  /\ pc' = [pc EXCEPT ![c] = "dump"]
  /\ UNCHANGED <<server, disk, call, account, frame, timedOut>>

Dump(c) ==
  /\ pc[c] = "dump"
  /\ tmp' = memory[c]
  /\ pc' = [pc EXCEPT ![c] = "move"]
  /\ UNCHANGED <<server, file, overlapped, call, account, frame, timedOut>>

\* The headers are completed before the loop over the pages only.
GoOnFault(c) ==
  IF frame[c] = "init"
  THEN /\ pc' = [pc EXCEPT ![c] = "ready"]
       /\ UNCHANGED header
  ELSE /\ pc' = [pc EXCEPT ![c] = "send"]
       /\ header' = [header EXCEPT ![c] = IF @ = NoToken THEN memory[c] ELSE @]

\* Back to whoever needed the token: the constructor is done, the call goes
\* on with the new token.
GoOn(c) ==
  IF frame[c] = "init"
  THEN /\ pc' = [pc EXCEPT ![c] = "ready"]
       /\ UNCHANGED header
  ELSE /\ pc' = [pc EXCEPT ![c] = "send"]
       /\ header' = [header EXCEPT ![c] = memory[c]]

\* shutil.move(token.json.tmp, token.json), and the renewal is over.
Move(c) ==
  /\ pc[c] = "move"
  /\ tmp # Missing
  /\ file' = tmp
  /\ tmp' = Missing
  /\ renewing' = [renewing EXCEPT ![c] = FALSE]
  /\ GoOn(c)
  /\ UNCHANGED <<server, overlapped, memory, page, performed, frame, timedOut>>

\* Another client has moved the temporary file away.
SaveFails(c) ==
  /\ pc[c] \in {"chmod", "move"}
  /\ tmp = Missing
  /\ Raise(c)
  /\ UNCHANGED <<server, disk>>

-----------------------------------------------------------------------------
(* _call_graph_api.                                                        *)

Begin(c) ==
  /\ pc[c] = "ready"
  /\ pc' = [pc EXCEPT ![c] = "top"]
  /\ frame' = [frame EXCEPT ![c] = "call"]
  /\ UNCHANGED <<server, disk, call, account, timedOut>>

\* The token in memory is still good.
UseToken(c) ==
  /\ pc[c] = "top"
  /\ ~renewing[c]
  /\ CheckToken(c)
  /\ GoOn(c)
  /\ UNCHANGED <<server, disk, page, performed, account, frame, timedOut>>

\* The flag says that this is the request for a token, so the headers get
\* none.
SkipToken(c) ==
  /\ pc[c] = "top"
  /\ renewing[c]
  /\ pc' = [pc EXCEPT ![c] = "send"]
  /\ UNCHANGED <<server, disk, call, account, frame, timedOut>>

\* An expected status, and a nextLink in the answer.
NextPage(c) ==
  /\ pc[c] = "send"
  /\ Accepted(header[c])
  /\ page[c] < MaxPages
  /\ page' = [page EXCEPT ![c] = @ + 1]
  /\ performed' = [performed EXCEPT ![c] = @ + 1]
  /\ pc' = [pc EXCEPT ![c] = "top"]
  /\ UNCHANGED <<server, disk, header, account, frame, timedOut>>

\* The last page: the call returns.
Return(c) ==
  /\ pc[c] = "send"
  /\ Accepted(header[c])
  /\ DropCall(c)
  /\ pc' = [pc EXCEPT ![c] = "ready"]
  /\ UNCHANGED <<server, disk, account, frame>>

\* The loop goes on to the next page after a Timeout.
TimeoutSkipsFault(c) ==
  /\ pc[c] = "send"
  /\ "call" \notin timedOut[c]
  /\ page[c] < MaxPages
  /\ timedOut' = [timedOut EXCEPT ![c] = @ \cup {"call"}]
  /\ page' = [page EXCEPT ![c] = @ + 1]
  /\ pc' = [pc EXCEPT ![c] = "top"]
  /\ UNCHANGED <<server, disk, header, performed, account, frame>>

\* Every Timeout is followed by another attempt.
TimeoutForeverFault(c) ==
  /\ pc[c] = "send"
  /\ pc' = [pc EXCEPT ![c] = "top"]
  /\ UNCHANGED <<server, disk, call, account, frame, timedOut>>

\* requests gives up after ten seconds; whether Microsoft carried the
\* request out nobody knows.  The same request is sent again, once.
Timeout(c) ==
  /\ pc[c] = "send"
  /\ "call" \notin timedOut[c]
  /\ timedOut' = [timedOut EXCEPT ![c] = @ \cup {"call"}]
  /\ \/ UNCHANGED performed
     \/ Accepted(header[c]) /\ performed' = [performed EXCEPT ![c] = @ + 1]
  /\ pc' = [pc EXCEPT ![c] = "top"]
  /\ UNCHANGED <<server, disk, header, page, account, frame>>

\* 401: no token, or one that Microsoft does not accept.
Unauthorized(c) ==
  /\ pc[c] = "send"
  /\ ~Accepted(header[c])
  /\ Raise(c)
  /\ UNCHANGED <<server, disk>>

\* Any other unexpected status, a second Timeout, no connection.
Fails(c) ==
  /\ pc[c] = "send"
  /\ Raise(c)
  /\ UNCHANGED <<server, disk>>

-----------------------------------------------------------------------------
Login(c) == Renew(c) \/ LoginTimeout(c) \/ LoginFails(c) \/ LoginOk(c)

Save(c) == Touch(c) \/ Chmod(c) \/ Dump(c) \/ Move(c) \/ SaveFails(c)

Request(c) ==
  \/ UseToken(c) \/ SkipToken(c)
  \/ NextPage(c) \/ Return(c) \/ Timeout(c) \/ Unauthorized(c) \/ Fails(c)

Step(c) == Login(c) \/ Save(c) \/ Request(c)

Next ==
  \/ ExpireHere \/ ExpireThere
  \/ \E c \in Client : Start(c) \/ Crash(c) \/ Begin(c) \/ Step(c)

Spec == Init /\ [][Next]_vars

\* A process that is in a call runs: every request is answered or times out.
FairSpec == Spec /\ \A c \in Client : WF_vars(Step(c))

-----------------------------------------------------------------------------
(* Properties                                                              *)

\* A call sends each page's request once, but for one that it repeats after
\* a Timeout: whatever the pages and the renewals in between, Microsoft has
\* carried out every page before the current one, and at most one request
\* of the call more than once.
RepeatedOnce ==
  \A c \in Client :
    /\ performed[c] >= page[c] - 1
    /\ performed[c] <= page[c] - 1 + (IF "call" \in timedOut[c] THEN 1 ELSE 0)

\* A page and the repetition after a Timeout are sent with the token the
\* client holds at that moment, never with the one the call began with.
CurrentToken ==
  \A c \in Client : pc[c] = "send" /\ ~renewing[c] => header[c] = memory[c]

\* As long as no two clients save at the same time, token.json holds a whole
\* token (or none yet), wherever a client was killed while it saved.
FileIntact == ~overlapped => file # Truncated

\* Nor does then any renewal fail because of the temporary file.
SaveSucceeds ==
  ~overlapped => \A c \in Client : pc[c] \in {"chmod", "move"} => tmp # Missing

\* Every call and every start ends: the loop over pages, the repetition after
\* a Timeout and the renewal inside the call never keep each other going.
EveryCallEnds ==
  \A c \in Client : pc[c] \notin {"off", "ready"} ~> pc[c] \in {"off", "ready"}

=============================================================================
