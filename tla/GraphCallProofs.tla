-------------------------- MODULE GraphCallProofs --------------------------
(***************************************************************************)
(* Proofs about GraphCall, for any set of clients and any bounds.  The     *)
(* inductive invariant says who may have a half-saved token (HasToken),    *)
(* that a client outside a call keeps nothing of one (NoCall), and what    *)
(* the temporary file holds as long as no two clients save at a time       *)
(* (OneSaver).                                                             *)
(***************************************************************************)
EXTENDS GraphCall, TLAPS

\* Whoever is past the login has a token in memory.
HasToken ==
  \A c \in Client : pc[c] \in {"touch", "chmod", "dump", "move"} => memory[c] # NoToken

\* A client that is not in a call has no page, no Timeout and no request,
\* and a constructor never sends a request with its account still renewing.
NoCall ==
  \A c \in Client :
    /\ pc[c] \in {"off", "ready"} \/ frame[c] = "init" =>
         page[c] = 1 /\ performed[c] = 0 /\ "call" \notin timedOut[c]
    /\ pc[c] = "off" => ~renewing[c]
    /\ pc[c] = "top" /\ frame[c] = "init" => ~renewing[c]
    /\ pc[c] = "send" => frame[c] = "call"

\* As long as no two clients saved at a time, at most one does now, and the
\* temporary file is its own: empty until it is written, then its token.
OneSaver ==
  ~overlapped =>
    /\ \A c, d \in Client : Saving(c) /\ Saving(d) => c = d
    /\ \A c \in Client : pc[c] \in {"chmod", "dump"} => tmp # Missing
    /\ \A c \in Client : pc[c] = "move" => tmp = memory[c]

IInv ==
  /\ TypeOK /\ HasToken
  /\ NoCall /\ RepeatedOnce
  /\ CurrentToken
  /\ OneSaver /\ FileIntact

LEMMA InitIInv == Init => IInv
<1> SUFFICES ASSUME Init PROVE IInv
  OBVIOUS
<1> USE BoundsAssumption DEF Init
<1>1. TypeOK
  <2>1. /\ issued \in 0 .. MaxTokens /\ overHere \subseteq Tokens /\ overThere \subseteq Tokens
    OBVIOUS
  <2>2. file \in Tokens \cup {NoToken, Truncated} /\ tmp \in Tokens \cup {Truncated, Missing}
    OBVIOUS
  <2>3. overlapped \in BOOLEAN
    OBVIOUS
  <2>4. /\ memory \in [Client -> Tokens \cup {NoToken}]
        /\ header \in [Client -> Tokens \cup {NoToken}]
        /\ page \in [Client -> 1 .. MaxPages] /\ performed \in [Client -> Nat]
    OBVIOUS
  <2>5. /\ renewing \in [Client -> BOOLEAN] /\ pc \in [Client -> PC]
        /\ frame \in [Client -> {"init", "call"}]
        /\ timedOut \in [Client -> SUBSET {"call", "login"}]
    BY DEF PC
  <2>6. QED
    BY <2>1, <2>2, <2>3, <2>4, <2>5 DEF TypeOK
<1>2. HasToken /\ NoCall /\ RepeatedOnce /\ CurrentToken
  BY DEF HasToken, NoCall, RepeatedOnce, CurrentToken
<1>3. OneSaver /\ FileIntact
  BY DEF OneSaver, Saving, FileIntact, NoToken, Truncated
<1>4. QED
  BY <1>1, <1>2, <1>3 DEF IInv

\* An exception leaves everything typed.
LEMMA RaiseType ==
  ASSUME TypeOK, NEW c \in Client, Raise(c)
  PROVE  /\ memory' \in [Client -> Tokens \cup {NoToken}]
         /\ renewing' \in [Client -> BOOLEAN]
         /\ pc' \in [Client -> PC]
         /\ frame' \in [Client -> {"init", "call"}]
         /\ timedOut' \in [Client -> SUBSET {"call", "login"}]
         /\ header' \in [Client -> Tokens \cup {NoToken}]
         /\ page' \in [Client -> 1 .. MaxPages]
         /\ performed' \in [Client -> Nat]
<1> USE BoundsAssumption DEF TypeOK, Raise, DropCall, DropAccount, PC, account
<1>1. /\ timedOut' \in [Client -> SUBSET {"call", "login"}]
      /\ header' \in [Client -> Tokens \cup {NoToken}]
      /\ page' \in [Client -> 1 .. MaxPages]
      /\ performed' \in [Client -> Nat]
  OBVIOUS
<1>2. /\ memory' \in [Client -> Tokens \cup {NoToken}]
      /\ pc' \in [Client -> PC]
      /\ frame' \in [Client -> {"init", "call"}]
  OBVIOUS
<1>3. renewing' \in [Client -> BOOLEAN]
  OBVIOUS
<1>4. QED
  BY <1>1, <1>2, <1>3

LEMMA NextTypeOK == IInv /\ [Next]_vars => TypeOK'
<1> SUFFICES ASSUME IInv, [Next]_vars PROVE TypeOK'
  OBVIOUS
<1> USE BoundsAssumption DEF IInv, TypeOK, HasToken, PC, Tokens, NoToken, Truncated, Missing, server, disk, call, account, control
<1>1. CASE ExpireHere
  BY <1>1 DEF ExpireHere
<1>2. CASE ExpireThere
  BY <1>2 DEF ExpireThere
<1>3. ASSUME NEW c \in Client, Start(c) PROVE TypeOK'
  BY <1>3 DEF Start, Read
<1>4. ASSUME NEW c \in Client, Crash(c) PROVE TypeOK'
  BY <1>4 DEF Crash, DropCall, DropAccount
<1>5. ASSUME NEW c \in Client, Begin(c) PROVE TypeOK'
  BY <1>5 DEF Begin
<1>6. ASSUME NEW c \in Client, Renew(c) PROVE TypeOK'
  BY <1>6 DEF Renew
<1>7. ASSUME NEW c \in Client, LoginTimeout(c) PROVE TypeOK'
  BY <1>7 DEF LoginTimeout
<1>8. ASSUME NEW c \in Client, LoginFails(c) PROVE TypeOK'
  BY <1>8, RaiseType DEF LoginFails
<1>9. ASSUME NEW c \in Client, LoginOk(c) PROVE TypeOK'
  BY <1>9 DEF LoginOk
<1>10. ASSUME NEW c \in Client, Touch(c) PROVE TypeOK'
  BY <1>10 DEF Touch, Saving
<1>11. ASSUME NEW c \in Client, Chmod(c) PROVE TypeOK'
  BY <1>11 DEF Chmod
<1>12. ASSUME NEW c \in Client, Dump(c) PROVE TypeOK'
  BY <1>12 DEF Dump
<1>13. ASSUME NEW c \in Client, Move(c) PROVE TypeOK'
  BY <1>13 DEF Move, GoOn, CheckToken
<1>14. ASSUME NEW c \in Client, SaveFails(c) PROVE TypeOK'
  BY <1>14, RaiseType DEF SaveFails
<1>15. ASSUME NEW c \in Client, UseToken(c) PROVE TypeOK'
  BY <1>15 DEF UseToken, GoOn, CheckToken
<1>16. ASSUME NEW c \in Client, SkipToken(c) PROVE TypeOK'
  BY <1>16 DEF SkipToken
<1>17. ASSUME NEW c \in Client, NextPage(c) PROVE TypeOK'
  BY <1>17 DEF NextPage, Accepted
<1>18. ASSUME NEW c \in Client, Return(c) PROVE TypeOK'
  BY <1>18 DEF Return, DropCall
<1>19. ASSUME NEW c \in Client, Timeout(c) PROVE TypeOK'
  BY <1>19 DEF Timeout, Accepted
<1>20. ASSUME NEW c \in Client, Unauthorized(c) PROVE TypeOK'
  BY <1>20, RaiseType DEF Unauthorized
<1>21. ASSUME NEW c \in Client, Fails(c) PROVE TypeOK'
  BY <1>21, RaiseType DEF Fails
<1>22. CASE UNCHANGED vars
  BY <1>22 DEF vars
<1>23. QED
  BY <1>1, <1>2, <1>3, <1>4, <1>5, <1>6, <1>7, <1>8, <1>9, <1>10, <1>11, <1>12,
     <1>13, <1>14, <1>15, <1>16, <1>17, <1>18, <1>19, <1>20, <1>21, <1>22
     DEF Next, Step, Login, Save, Request

LEMMA NextHasToken == IInv /\ [Next]_vars => HasToken'
<1> SUFFICES ASSUME IInv, [Next]_vars PROVE HasToken'
  OBVIOUS
<1> USE BoundsAssumption DEF IInv, TypeOK, HasToken, Tokens, NoToken, server, disk, call, account, control
<1>1. CASE ExpireHere
  BY <1>1 DEF ExpireHere
<1>2. CASE ExpireThere
  BY <1>2 DEF ExpireThere
<1>3. ASSUME NEW c \in Client, Start(c) PROVE HasToken'
  BY <1>3 DEF Start, Read
<1>4. ASSUME NEW c \in Client, Crash(c) PROVE HasToken'
  BY <1>4 DEF Crash, DropCall, DropAccount
<1>5. ASSUME NEW c \in Client, Begin(c) PROVE HasToken'
  BY <1>5 DEF Begin
<1>6. ASSUME NEW c \in Client, Renew(c) PROVE HasToken'
  BY <1>6 DEF Renew
<1>7. ASSUME NEW c \in Client, LoginTimeout(c) PROVE HasToken'
  BY <1>7 DEF LoginTimeout
<1>8. ASSUME NEW c \in Client, LoginFails(c) PROVE HasToken'
  BY <1>8 DEF LoginFails, Raise, DropCall, DropAccount
<1>9. ASSUME NEW c \in Client, LoginOk(c) PROVE HasToken'
  BY <1>9 DEF LoginOk
<1>10. ASSUME NEW c \in Client, Touch(c) PROVE HasToken'
  BY <1>10 DEF Touch, Saving
<1>11. ASSUME NEW c \in Client, Chmod(c) PROVE HasToken'
  BY <1>11 DEF Chmod
<1>12. ASSUME NEW c \in Client, Dump(c) PROVE HasToken'
  BY <1>12 DEF Dump
<1>13. ASSUME NEW c \in Client, Move(c) PROVE HasToken'
  BY <1>13 DEF Move, GoOn, CheckToken
<1>14. ASSUME NEW c \in Client, SaveFails(c) PROVE HasToken'
  BY <1>14 DEF SaveFails, Raise, DropCall, DropAccount
<1>15. ASSUME NEW c \in Client, UseToken(c) PROVE HasToken'
  BY <1>15 DEF UseToken, GoOn, CheckToken
<1>16. ASSUME NEW c \in Client, SkipToken(c) PROVE HasToken'
  BY <1>16 DEF SkipToken
<1>17. ASSUME NEW c \in Client, NextPage(c) PROVE HasToken'
  BY <1>17 DEF NextPage, Accepted
<1>18. ASSUME NEW c \in Client, Return(c) PROVE HasToken'
  BY <1>18 DEF Return, DropCall
<1>19. ASSUME NEW c \in Client, Timeout(c) PROVE HasToken'
  BY <1>19 DEF Timeout, Accepted
<1>20. ASSUME NEW c \in Client, Unauthorized(c) PROVE HasToken'
  BY <1>20 DEF Unauthorized, Raise, DropCall, DropAccount
<1>21. ASSUME NEW c \in Client, Fails(c) PROVE HasToken'
  BY <1>21 DEF Fails, Raise, DropCall, DropAccount
<1>22. CASE UNCHANGED vars
  BY <1>22 DEF vars
<1>23. QED
  BY <1>1, <1>2, <1>3, <1>4, <1>5, <1>6, <1>7, <1>8, <1>9, <1>10, <1>11, <1>12,
     <1>13, <1>14, <1>15, <1>16, <1>17, <1>18, <1>19, <1>20, <1>21, <1>22
     DEF Next, Step, Login, Save, Request

LEMMA NextCalls == IInv /\ [Next]_vars => (NoCall /\ RepeatedOnce)'
<1> SUFFICES ASSUME IInv, [Next]_vars PROVE (NoCall /\ RepeatedOnce)'
  OBVIOUS
<1> USE BoundsAssumption DEF IInv, TypeOK, NoCall, RepeatedOnce, server, disk, call, account, control
<1>1. CASE ExpireHere
  BY <1>1 DEF ExpireHere
<1>2. CASE ExpireThere
  BY <1>2 DEF ExpireThere
<1>3. ASSUME NEW c \in Client, Start(c) PROVE (NoCall /\ RepeatedOnce)'
  BY <1>3 DEF Start, Read
<1>4. ASSUME NEW c \in Client, Crash(c) PROVE (NoCall /\ RepeatedOnce)'
  BY <1>4 DEF Crash, DropCall, DropAccount
<1>5. ASSUME NEW c \in Client, Begin(c) PROVE (NoCall /\ RepeatedOnce)'
  BY <1>5 DEF Begin
<1>6. ASSUME NEW c \in Client, Renew(c) PROVE (NoCall /\ RepeatedOnce)'
  BY <1>6 DEF Renew
<1>7. ASSUME NEW c \in Client, LoginTimeout(c) PROVE (NoCall /\ RepeatedOnce)'
  BY <1>7 DEF LoginTimeout
<1>8. ASSUME NEW c \in Client, LoginFails(c) PROVE (NoCall /\ RepeatedOnce)'
  BY <1>8 DEF LoginFails, Raise, DropCall, DropAccount
<1>9. ASSUME NEW c \in Client, LoginOk(c) PROVE (NoCall /\ RepeatedOnce)'
  BY <1>9 DEF LoginOk
<1>10. ASSUME NEW c \in Client, Touch(c) PROVE (NoCall /\ RepeatedOnce)'
  BY <1>10 DEF Touch, Saving
<1>11. ASSUME NEW c \in Client, Chmod(c) PROVE (NoCall /\ RepeatedOnce)'
  BY <1>11 DEF Chmod
<1>12. ASSUME NEW c \in Client, Dump(c) PROVE (NoCall /\ RepeatedOnce)'
  BY <1>12 DEF Dump
<1>13. ASSUME NEW c \in Client, Move(c) PROVE (NoCall /\ RepeatedOnce)'
  BY <1>13 DEF Move, GoOn, CheckToken
<1>14. ASSUME NEW c \in Client, SaveFails(c) PROVE (NoCall /\ RepeatedOnce)'
  BY <1>14 DEF SaveFails, Raise, DropCall, DropAccount
<1>15. ASSUME NEW c \in Client, UseToken(c) PROVE (NoCall /\ RepeatedOnce)'
  BY <1>15 DEF UseToken, GoOn, CheckToken
<1>16. ASSUME NEW c \in Client, SkipToken(c) PROVE (NoCall /\ RepeatedOnce)'
  BY <1>16 DEF SkipToken
<1>17. ASSUME NEW c \in Client, NextPage(c) PROVE (NoCall /\ RepeatedOnce)'
  BY <1>17 DEF NextPage, Accepted
<1>18. ASSUME NEW c \in Client, Return(c) PROVE (NoCall /\ RepeatedOnce)'
  BY <1>18 DEF Return, DropCall
<1>19. ASSUME NEW c \in Client, Timeout(c) PROVE (NoCall /\ RepeatedOnce)'
  BY <1>19 DEF Timeout, Accepted
<1>20. ASSUME NEW c \in Client, Unauthorized(c) PROVE (NoCall /\ RepeatedOnce)'
  BY <1>20 DEF Unauthorized, Raise, DropCall, DropAccount
<1>21. ASSUME NEW c \in Client, Fails(c) PROVE (NoCall /\ RepeatedOnce)'
  BY <1>21 DEF Fails, Raise, DropCall, DropAccount
<1>22. CASE UNCHANGED vars
  BY <1>22 DEF vars
<1>23. QED
  BY <1>1, <1>2, <1>3, <1>4, <1>5, <1>6, <1>7, <1>8, <1>9, <1>10, <1>11, <1>12,
     <1>13, <1>14, <1>15, <1>16, <1>17, <1>18, <1>19, <1>20, <1>21, <1>22
     DEF Next, Step, Login, Save, Request

LEMMA NextCurrentToken == IInv /\ [Next]_vars => CurrentToken'
<1> SUFFICES ASSUME IInv, [Next]_vars PROVE CurrentToken'
  OBVIOUS
<1> USE BoundsAssumption DEF IInv, TypeOK, CurrentToken, server, disk, call, account, control
<1>1. CASE ExpireHere
  BY <1>1 DEF ExpireHere
<1>2. CASE ExpireThere
  BY <1>2 DEF ExpireThere
<1>3. ASSUME NEW c \in Client, Start(c) PROVE CurrentToken'
  BY <1>3 DEF Start, Read
<1>4. ASSUME NEW c \in Client, Crash(c) PROVE CurrentToken'
  BY <1>4 DEF Crash, DropCall, DropAccount
<1>5. ASSUME NEW c \in Client, Begin(c) PROVE CurrentToken'
  BY <1>5 DEF Begin
<1>6. ASSUME NEW c \in Client, Renew(c) PROVE CurrentToken'
  BY <1>6 DEF Renew
<1>7. ASSUME NEW c \in Client, LoginTimeout(c) PROVE CurrentToken'
  BY <1>7 DEF LoginTimeout
<1>8. ASSUME NEW c \in Client, LoginFails(c) PROVE CurrentToken'
  BY <1>8 DEF LoginFails, Raise, DropCall, DropAccount
<1>9. ASSUME NEW c \in Client, LoginOk(c) PROVE CurrentToken'
  BY <1>9 DEF LoginOk
<1>10. ASSUME NEW c \in Client, Touch(c) PROVE CurrentToken'
  BY <1>10 DEF Touch, Saving
<1>11. ASSUME NEW c \in Client, Chmod(c) PROVE CurrentToken'
  BY <1>11 DEF Chmod
<1>12. ASSUME NEW c \in Client, Dump(c) PROVE CurrentToken'
  BY <1>12 DEF Dump
<1>13. ASSUME NEW c \in Client, Move(c) PROVE CurrentToken'
  BY <1>13 DEF Move, GoOn, CheckToken
<1>14. ASSUME NEW c \in Client, SaveFails(c) PROVE CurrentToken'
  BY <1>14 DEF SaveFails, Raise, DropCall, DropAccount
<1>15. ASSUME NEW c \in Client, UseToken(c) PROVE CurrentToken'
  BY <1>15 DEF UseToken, GoOn, CheckToken
<1>16. ASSUME NEW c \in Client, SkipToken(c) PROVE CurrentToken'
  BY <1>16 DEF SkipToken
<1>17. ASSUME NEW c \in Client, NextPage(c) PROVE CurrentToken'
  BY <1>17 DEF NextPage, Accepted
<1>18. ASSUME NEW c \in Client, Return(c) PROVE CurrentToken'
  BY <1>18 DEF Return, DropCall
<1>19. ASSUME NEW c \in Client, Timeout(c) PROVE CurrentToken'
  BY <1>19 DEF Timeout, Accepted
<1>20. ASSUME NEW c \in Client, Unauthorized(c) PROVE CurrentToken'
  BY <1>20 DEF Unauthorized, Raise, DropCall, DropAccount
<1>21. ASSUME NEW c \in Client, Fails(c) PROVE CurrentToken'
  BY <1>21 DEF Fails, Raise, DropCall, DropAccount
<1>22. CASE UNCHANGED vars
  BY <1>22 DEF vars
<1>23. QED
  BY <1>1, <1>2, <1>3, <1>4, <1>5, <1>6, <1>7, <1>8, <1>9, <1>10, <1>11, <1>12,
     <1>13, <1>14, <1>15, <1>16, <1>17, <1>18, <1>19, <1>20, <1>21, <1>22
     DEF Next, Step, Login, Save, Request

LEMMA NextFile == IInv /\ [Next]_vars => (OneSaver /\ FileIntact)'
<1> SUFFICES ASSUME IInv, [Next]_vars PROVE (OneSaver /\ FileIntact)'
  OBVIOUS
<1> USE BoundsAssumption DEF IInv, TypeOK, HasToken, OneSaver, FileIntact, Saving, Tokens, NoToken, Truncated, Missing, server, disk, call, account, control
<1>1. CASE ExpireHere
  BY <1>1 DEF ExpireHere
<1>2. CASE ExpireThere
  BY <1>2 DEF ExpireThere
<1>3. ASSUME NEW c \in Client, Start(c) PROVE (OneSaver /\ FileIntact)'
  BY <1>3 DEF Start, Read
<1>4. ASSUME NEW c \in Client, Crash(c) PROVE (OneSaver /\ FileIntact)'
  BY <1>4 DEF Crash, DropCall, DropAccount
<1>5. ASSUME NEW c \in Client, Begin(c) PROVE (OneSaver /\ FileIntact)'
  BY <1>5 DEF Begin
<1>6. ASSUME NEW c \in Client, Renew(c) PROVE (OneSaver /\ FileIntact)'
  BY <1>6 DEF Renew
<1>7. ASSUME NEW c \in Client, LoginTimeout(c) PROVE (OneSaver /\ FileIntact)'
  BY <1>7 DEF LoginTimeout
<1>8. ASSUME NEW c \in Client, LoginFails(c) PROVE (OneSaver /\ FileIntact)'
  BY <1>8 DEF LoginFails, Raise, DropCall, DropAccount
<1>9. ASSUME NEW c \in Client, LoginOk(c) PROVE (OneSaver /\ FileIntact)'
  BY <1>9 DEF LoginOk
<1>10. ASSUME NEW c \in Client, Touch(c) PROVE (OneSaver /\ FileIntact)'
  <2>1. file' = file /\ tmp' = Truncated /\ memory' = memory
    BY <1>10 DEF Touch
  <2>2. pc'[c] = "chmod" /\ \A d \in Client \ {c} : pc'[d] = pc[d]
    BY <1>10 DEF Touch
  <2>3. CASE overlapped'
    BY <2>3
  <2>4. CASE ~overlapped'
    <3>1. ~overlapped /\ \A d \in Client \ {c} : ~Saving(d)
      BY <1>10, <2>4 DEF Touch
    <3>2. QED
      BY <2>1, <2>2, <3>1
  <2>5. QED
    BY <2>3, <2>4
<1>11. ASSUME NEW c \in Client, Chmod(c) PROVE (OneSaver /\ FileIntact)'
  BY <1>11 DEF Chmod
<1>12. ASSUME NEW c \in Client, Dump(c) PROVE (OneSaver /\ FileIntact)'
  BY <1>12 DEF Dump
<1>13. ASSUME NEW c \in Client, Move(c) PROVE (OneSaver /\ FileIntact)'
  BY <1>13 DEF Move, GoOn, CheckToken
<1>14. ASSUME NEW c \in Client, SaveFails(c) PROVE (OneSaver /\ FileIntact)'
  BY <1>14 DEF SaveFails, Raise, DropCall, DropAccount
<1>15. ASSUME NEW c \in Client, UseToken(c) PROVE (OneSaver /\ FileIntact)'
  BY <1>15 DEF UseToken, GoOn, CheckToken
<1>16. ASSUME NEW c \in Client, SkipToken(c) PROVE (OneSaver /\ FileIntact)'
  BY <1>16 DEF SkipToken
<1>17. ASSUME NEW c \in Client, NextPage(c) PROVE (OneSaver /\ FileIntact)'
  BY <1>17 DEF NextPage, Accepted
<1>18. ASSUME NEW c \in Client, Return(c) PROVE (OneSaver /\ FileIntact)'
  BY <1>18 DEF Return, DropCall
<1>19. ASSUME NEW c \in Client, Timeout(c) PROVE (OneSaver /\ FileIntact)'
  BY <1>19 DEF Timeout, Accepted
<1>20. ASSUME NEW c \in Client, Unauthorized(c) PROVE (OneSaver /\ FileIntact)'
  BY <1>20 DEF Unauthorized, Raise, DropCall, DropAccount
<1>21. ASSUME NEW c \in Client, Fails(c) PROVE (OneSaver /\ FileIntact)'
  BY <1>21 DEF Fails, Raise, DropCall, DropAccount
<1>22. CASE UNCHANGED vars
  BY <1>22 DEF vars
<1>23. QED
  BY <1>1, <1>2, <1>3, <1>4, <1>5, <1>6, <1>7, <1>8, <1>9, <1>10, <1>11, <1>12,
     <1>13, <1>14, <1>15, <1>16, <1>17, <1>18, <1>19, <1>20, <1>21, <1>22
     DEF Next, Step, Login, Save, Request

LEMMA NextIInv == IInv /\ [Next]_vars => IInv'
BY NextTypeOK, NextHasToken, NextCalls, NextCurrentToken, NextFile DEF IInv

LEMMA Invariance == Spec => []IInv
<1>1. Init => IInv
  BY InitIInv
<1>2. IInv /\ [Next]_vars => IInv'
  BY NextIInv
<1>3. QED
  BY <1>1, <1>2, PTL DEF Spec

\* What every variable of a client and of the disk can hold: in particular a
\* client never has half a token in memory (Token.load_token_cache).
THEOREM TypeCorrect == Spec => []TypeOK
<1>1. IInv => TypeOK
  BY DEF IInv
<1>2. QED
  BY <1>1, Invariance, PTL

\* A call carries out at most one request more than it has pages, whatever is
\* renewed, times out or expires in between (_call_graph_api).
THEOREM OneRepetition == Spec => []RepeatedOnce
<1>1. IInv => RepeatedOnce
  BY DEF IInv
<1>2. QED
  BY <1>1, Invariance, PTL

\* Every request of a client that is not stuck goes out with the token the
\* client holds (_call_graph_api).
THEOREM HeadersAreCurrent == Spec => []CurrentToken
<1>1. IInv => CurrentToken
  BY DEF IInv
<1>2. QED
  BY <1>1, Invariance, PTL

\* One saver at a time never leaves half a token.json, whoever is killed
\* (Token.update_and_save).
THEOREM NoTruncatedFile == Spec => []FileIntact
<1>1. IInv => FileIntact
  BY DEF IInv
<1>2. QED
  BY <1>1, Invariance, PTL

\* One saver at a time never misses the temporary file it has just written
\* (Token.update_and_save).
THEOREM SavingWorks == Spec => []SaveSucceeds
<1>1. IInv => SaveSucceeds
  BY DEF IInv, OneSaver, SaveSucceeds, TypeOK, HasToken, Tokens, NoToken, Missing
<1>2. QED
  BY <1>1, Invariance, PTL

=============================================================================
