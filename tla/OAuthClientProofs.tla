-------------------------- MODULE OAuthClientProofs --------------------------
(***************************************************************************)
(* Theorems about OAuthClient, for any clients, ports, bounds and faults.  *)
(***************************************************************************)
EXTENDS OAuthClient, TLAPS

-----------------------------------------------------------------------------
(* Types                                                                   *)

\* What a client in the middle of a call holds: credentials to refresh, and an
\* answer to its code that has a refresh token in it.
Held ==
    \A c \in Clients :
        /\ pc[c] \in {"refreshSent", "refreshReply"} => mem[c] \in Creds
        /\ pc[c] = "codeReply" => reply[c] \in Creds \cup {Failed}

TypeInv == TypeOK /\ Held

LEMMA InitTypeInv == Init => TypeInv
<1> SUFFICES ASSUME Init PROVE TypeInv
    OBVIOUS
<1>1. OldCreds \in Creds
    BY BoundAssumption DEF OldCreds, Creds, Tokens
<1>2. TypeOK
    BY <1>1, BoundAssumption, StateAssumption, RoleAssumption
    DEF Init, TypeOK, ServerInit, ServerTypeOK, PCs, Tokens
<1>3. Held
    BY DEF Init, Held
<1>. QED
    BY <1>2, <1>3 DEF TypeInv

LEMMA LoadedType ==
    ASSUME TypeOK, NEW c \in Clients, Readable(c)
    PROVE  Loaded(c) \in Creds \cup {None}
BY DEF TypeOK, Readable, Loaded

\* Counting up one entry leaves an array of counters one.
LEMMA CountType ==
    ASSUME NEW D, NEW f \in [D -> Nat], NEW x
    PROVE  [f EXCEPT ![x] = @ + 1] \in [D -> Nat]
<1> DEFINE g == [f EXCEPT ![x] = @ + 1]
<1>1. \A d \in D : g[d] \in Nat
    <2> TAKE d \in D
    <2>1. CASE d = x
        BY <2>1
    <2>2. CASE d # x
        BY <2>2
    <2>. QED
        BY <2>1, <2>2
<1>. QED
    BY <1>1

\* One lemma per group of actions.
LEMMA TypeInvAccess ==
    ASSUME TypeInv, NEW c \in Clients,
           \/ AccessTokenCached(c) \/ AccessTokenExpired(c)
           \/ CredentialsMissing(c) \/ DeleteCredsFile(c) \/ RefreshStart(c)
    PROVE  TypeInv'
<1> USE DEF TypeInv, clientVars, setup, providerVars, loginVars, serverVars
<1>1. CASE AccessTokenCached(c)
    <2>1. Loaded(c) \in Creds \cup {None}
        BY <1>1, LoadedType DEF AccessTokenCached
    <2>2. TypeOK'
        BY <1>1, <2>1 DEF AccessTokenCached, TypeOK, ServerTypeOK
    <2>3. Held'
        BY <1>1, <2>1 DEF AccessTokenCached, TypeOK, Held
    <2>. QED
        BY <2>2, <2>3
<1>2. CASE AccessTokenExpired(c)
    <2>1. Loaded(c) \in Creds \cup {None}
        BY <1>2, LoadedType DEF AccessTokenExpired
    <2>2. TypeOK'
        BY <1>2, <2>1 DEF AccessTokenExpired, Goto, TypeOK, ServerTypeOK, PCs
    <2>3. Held'
        BY <1>2, <2>1 DEF AccessTokenExpired, Goto, TypeOK, Held
    <2>. QED
        BY <2>2, <2>3
<1>3. CASE CredentialsMissing(c)
    <2>1. TypeOK'
        BY <1>3 DEF CredentialsMissing, Goto, TypeOK, ServerTypeOK, PCs
    <2>2. Held'
        BY <1>3 DEF CredentialsMissing, Goto, TypeOK, Held
    <2>. QED
        BY <2>1, <2>2
<1>4. CASE DeleteCredsFile(c)
    <2>1. TypeOK'
        BY <1>4, BoundAssumption DEF DeleteCredsFile, TypeOK, ServerTypeOK
    <2>2. Held'
        BY <1>4 DEF DeleteCredsFile, Held
    <2>. QED
        BY <2>1, <2>2
<1>5. CASE RefreshStart(c)
    <2>1. Readable(c) => Loaded(c) \in Creds \cup {None}
        BY LoadedType
    <2>2. TypeOK'
        BY <1>5, <2>1 DEF RefreshStart, Goto, Raise, TypeOK, ServerTypeOK, PCs
    <2>3. Held'
        BY <1>5, <2>1 DEF RefreshStart, Goto, Raise, TypeOK, Held
    <2>. QED
        BY <2>2, <2>3
<1>. QED
    BY <1>1, <1>2, <1>3, <1>4, <1>5

LEMMA TypeInvRefresh ==
    ASSUME TypeInv, NEW c \in Clients,
           \/ ProviderRefresh(c) \/ ProviderRefuses(c) \/ RefreshFailed(c) \/ RefreshSucceeded(c)
    PROVE  TypeInv'
<1> USE DEF TypeInv, clientVars, setup, providerVars, loginVars, serverVars
<1>1. CASE ProviderRefresh(c)
    <2> DEFINE n == issued + 1
    <2>1. n \in Tokens
        BY <1>1, BoundAssumption DEF ProviderRefresh, TypeOK, Tokens
    <2>2. [at |-> n, rt |-> IF rotating THEN n ELSE None] \in Grants
        BY <2>1 DEF Grants
    <2> HIDE DEF n
    <2>3. TypeOK'
        BY <1>1, <2>1, <2>2 DEF ProviderRefresh, Goto, n, TypeOK, ServerTypeOK, PCs
    <2>4. Held'
        BY <1>1 DEF ProviderRefresh, Goto, TypeOK, Held
    <2>. QED
        BY <2>3, <2>4
<1>2. CASE ProviderRefuses(c)
    <2>1. TypeOK'
        BY <1>2 DEF ProviderRefuses, Goto, PCs, TypeOK, ServerTypeOK
    <2>2. Held'
        BY <1>2 DEF ProviderRefuses, Goto, PCs, TypeOK, Held
    <2>. QED
        BY <2>1, <2>2
<1>3. CASE RefreshFailed(c)
    <2>1. TypeOK'
        BY <1>3 DEF RefreshFailed, Goto, Raise, PCs, TypeOK, ServerTypeOK
    <2>2. Held'
        BY <1>3 DEF RefreshFailed, Goto, Raise, PCs, TypeOK, Held
    <2>. QED
        BY <2>1, <2>2
<1>4. CASE RefreshSucceeded(c)
    <2>1. mem[c] \in Creds /\ reply[c] \in Grants
        BY <1>4 DEF RefreshSucceeded, Goto, Held
    <2>2. UpdateAccessToken(mem[c], reply[c]) \in Creds
        BY <2>1 DEF UpdateAccessToken, Creds, Grants
    <2>3. TypeOK'
        BY <1>4, <2>2 DEF RefreshSucceeded, Goto, TypeOK, ServerTypeOK, PCs
    <2>4. Held'
        BY <1>4 DEF RefreshSucceeded, Goto, TypeOK, Held
    <2>. QED
        BY <2>3, <2>4
<1>. QED
    BY <1>1, <1>2, <1>3, <1>4

LEMMA TypeInvLogin ==
    ASSUME TypeInv, NEW c \in Clients,
           \/ LoginRefused(c) \/ LoginStart(c) \/ LoginAborted(c) \/ WaitSeesRequest(c) \/ WaitTimesOut(c) \/ RequestAccepted(c) \/ RequestRejected(c) \/ ProviderExchange(c) \/ ExchangeFailed(c) \/ ExchangeSucceeded(c)
    PROVE  TypeInv'
<1> USE DEF TypeInv, clientVars, setup, providerVars, loginVars, serverVars
<1>1. CASE LoginRefused(c)
    <2>1. TypeOK'
        BY <1>1 DEF LoginRefused, Goto, Raise, PCs, TypeOK, ServerTypeOK
    <2>2. Held'
        BY <1>1 DEF LoginRefused, Goto, Raise, PCs, TypeOK, Held
    <2>. QED
        BY <2>1, <2>2
<1>2. CASE LoginStart(c)
    <2>1. TypeOK'
        BY <1>2, StateAssumption DEF LoginStart, Goto, StartServer, States, PCs, TypeOK, ServerTypeOK
    <2>2. Held'
        BY <1>2, StateAssumption DEF LoginStart, Goto, StartServer, States, PCs, TypeOK, Held
    <2>. QED
        BY <2>1, <2>2
<1>3. CASE LoginAborted(c)
    <2>1. TypeOK'
        BY <1>3 DEF LoginAborted, Goto, Raise, StartServer, PCs, TypeOK, ServerTypeOK
    <2>2. Held'
        BY <1>3 DEF LoginAborted, Goto, Raise, StartServer, PCs, TypeOK, Held
    <2>. QED
        BY <2>1, <2>2
<1>4. CASE WaitSeesRequest(c)
    <2>1. TypeOK'
        BY <1>4 DEF WaitSeesRequest, Goto, PCs, TypeOK, ServerTypeOK
    <2>2. Held'
        BY <1>4 DEF WaitSeesRequest, Goto, PCs, TypeOK, Held
    <2>. QED
        BY <2>1, <2>2
<1>5. CASE WaitTimesOut(c)
    <2>1. TypeOK'
        BY <1>5 DEF WaitTimesOut, Goto, Raise, EndLogin, PCs, TypeOK, ServerTypeOK
    <2>2. Held'
        BY <1>5 DEF WaitTimesOut, Goto, Raise, EndLogin, PCs, TypeOK, Held
    <2>. QED
        BY <2>1, <2>2
<1>6. CASE RequestAccepted(c)
    <2>1. TypeOK'
        BY <1>6 DEF RequestAccepted, Goto, StopServer, PCs, TypeOK, ServerTypeOK
    <2>2. Held'
        BY <1>6 DEF RequestAccepted, Goto, StopServer, PCs, TypeOK, Held
    <2>. QED
        BY <2>1, <2>2
<1>7. CASE RequestRejected(c)
    <2>1. TypeOK'
        BY <1>7 DEF RequestRejected, Goto, Raise, EndLogin, StopServer, PCs, TypeOK, ServerTypeOK
    <2>2. Held'
        BY <1>7 DEF RequestRejected, Goto, Raise, EndLogin, StopServer, PCs, TypeOK, Held
    <2>. QED
        BY <2>1, <2>2
<1>8. CASE ProviderExchange(c)
    <2> DEFINE n == issued + 1
    <2>1. n \in Tokens
        BY <1>8, BoundAssumption DEF ProviderExchange, TypeOK, Tokens
    <2>2. [at |-> n, rt |-> n] \in Creds /\ [at |-> n, rt |-> n] \in Grants
        BY <2>1 DEF Creds, Grants
    <2> HIDE DEF n
    <2>3. /\ issued' = n /\ validRT' = validRT \cup {n}
          /\ reply' = [reply EXCEPT ![c] = [at |-> n, rt |-> n]]
          /\ exchanges' = [exchanges EXCEPT ![requestArgs[c].state] = @ + 1]
          /\ pc' = [pc EXCEPT ![c] = "codeReply"]
          /\ UNCHANGED <<serverVars, mem, stateToken, file, setup, expired,
                         consumer, logins, link, answered, callbacks, faults,
                         deletes>>
        BY <1>8 DEF ProviderExchange, Goto, n
    <2>4. TypeOK'
        <3>1. exchanges' \in [States -> Nat]
            BY <2>3, CountType DEF TypeOK
        <3>2. reply' \in [Clients -> Grants \cup {None, Failed}]
            BY <2>2, <2>3 DEF TypeOK
        <3>3. validRT' \in SUBSET Tokens /\ issued' \in Tokens
            BY <2>1, <2>3 DEF TypeOK
        <3>4. pc' \in [Clients -> PCs]
            BY <2>3 DEF TypeOK, PCs
        <3>. QED
            BY <2>3, <3>1, <3>2, <3>3, <3>4 DEF TypeOK, ServerTypeOK
    <2>5. Held'
        BY <2>2, <2>3 DEF TypeOK, Held
    <2>. QED
        BY <2>4, <2>5
<1>9. CASE ExchangeFailed(c)
    <2>1. TypeOK'
        BY <1>9 DEF ExchangeFailed, Goto, Raise, EndLogin, PCs, TypeOK, ServerTypeOK
    <2>2. Held'
        BY <1>9 DEF ExchangeFailed, Goto, Raise, EndLogin, PCs, TypeOK, Held
    <2>. QED
        BY <2>1, <2>2
<1>10. CASE ExchangeSucceeded(c)
    <2>1. reply[c] \in Creds
        BY <1>10, SentinelAssumption DEF ExchangeSucceeded, Goto, Held
    <2>2. TypeOK'
        BY <1>10, <2>1 DEF ExchangeSucceeded, Goto, EndLogin, TypeOK, ServerTypeOK, PCs
    <2>3. Held'
        BY <1>10 DEF ExchangeSucceeded, Goto, EndLogin, TypeOK, Held
    <2>. QED
        BY <2>2, <2>3
<1>. QED
    BY <1>1, <1>2, <1>3, <1>4, <1>5, <1>6, <1>7, <1>8, <1>9, <1>10

LEMMA TypeInvFiles ==
    ASSUME TypeInv, NEW c \in Clients,
           \/ WriteOpen(c) \/ WriteDone(c) \/ WriteFails(c) \/ LoseReply(c) \/ Crash(c)
    PROVE  TypeInv'
<1> USE DEF TypeInv, clientVars, setup, providerVars, loginVars, serverVars
<1>1. CASE WriteOpen(c)
    <2>1. TypeOK'
        BY <1>1 DEF WriteOpen, Goto, PCs, TypeOK, ServerTypeOK
    <2>2. Held'
        BY <1>1 DEF WriteOpen, Goto, PCs, TypeOK, Held
    <2>. QED
        BY <2>1, <2>2
<1>2. CASE WriteDone(c)
    <2>1. TypeOK'
        BY <1>2 DEF WriteDone, Goto, PCs, TypeOK, ServerTypeOK
    <2>2. Held'
        BY <1>2 DEF WriteDone, Goto, PCs, TypeOK, Held
    <2>. QED
        BY <2>1, <2>2
<1>3. CASE WriteFails(c)
    <2>1. TypeOK'
        BY <1>3, BoundAssumption DEF WriteFails, Goto, Raise, PCs, TypeOK, ServerTypeOK
    <2>2. Held'
        BY <1>3, BoundAssumption DEF WriteFails, Goto, Raise, PCs, TypeOK, Held
    <2>. QED
        BY <2>1, <2>2
<1>4. CASE LoseReply(c)
    <2>1. TypeOK'
        BY <1>4, BoundAssumption DEF LoseReply, TypeOK, ServerTypeOK
    <2>2. Held'
        BY <1>4, BoundAssumption DEF LoseReply, TypeOK, Held
    <2>. QED
        BY <2>1, <2>2
<1>5. CASE Crash(c)
    <2>1. TypeOK'
        BY <1>5, BoundAssumption DEF Crash, ServerLost, EndLogin, PCs, TypeOK, ServerTypeOK
    <2>2. Held'
        BY <1>5, BoundAssumption DEF Crash, ServerLost, EndLogin, PCs, TypeOK, Held
    <2>. QED
        BY <2>1, <2>2
<1>. QED
    BY <1>1, <1>2, <1>3, <1>4, <1>5

LEMMA TypeInvCallback ==
    ASSUME TypeInv, NEW s \in States, NEW c \in Clients, NEW code \in BOOLEAN,
           Callback(s, c, code)
    PROVE  TypeInv'
<1> USE DEF TypeInv, clientVars, setup, providerVars, loginVars, serverVars
<1>1. [state |-> s, code |-> code] \in Args
    BY DEF Args
<1>2. TypeOK'
    BY <1>1, BoundAssumption DEF Callback, GetAuthCode, TypeOK, ServerTypeOK
<1>3. Held'
    BY DEF Callback, Held
<1>. QED
    BY <1>2, <1>3

LEMMA TypeInvNext == TypeInv /\ [Next]_vars => TypeInv'
<1> SUFFICES ASSUME TypeInv, [Next]_vars PROVE TypeInv'
    OBVIOUS
<1>1. CASE \E c \in Clients :
               \/ AccessTokenCached(c) \/ AccessTokenExpired(c)
               \/ CredentialsMissing(c) \/ DeleteCredsFile(c)
               \/ Step(c)
               \/ WriteFails(c) \/ LoseReply(c) \/ Crash(c)
    BY <1>1, TypeInvAccess, TypeInvRefresh, TypeInvLogin, TypeInvFiles DEF Step
<1>2. CASE \E s \in States, c \in Clients, code \in BOOLEAN : Callback(s, c, code)
    BY <1>2, TypeInvCallback
<1>3. CASE TimePasses
    <2>1. TypeOK'
        BY <1>3, BoundAssumption
        DEF TypeInv, TimePasses, TypeOK, ServerTypeOK, Tokens, serverVars, clientVars, setup, loginVars
    <2>2. Held'
        BY <1>3 DEF TypeInv, TimePasses, Held, clientVars
    <2>. QED
        BY <2>1, <2>2 DEF TypeInv
<1>4. CASE UNCHANGED vars
    BY <1>4 DEF TypeInv, TypeOK, ServerTypeOK, Held, vars, serverVars, clientVars,
                setup, providerVars, loginVars
<1>. QED
    BY <1>1, <1>2, <1>3, <1>4 DEF Next

\* The variables of OAuthClient always have their types.
THEOREM TypeCorrect == Spec => []TypeOK
<1>1. TypeInv => TypeOK
    BY DEF TypeInv
<1>. QED
    BY InitTypeInv, TypeInvNext, <1>1, PTL DEF Spec

-----------------------------------------------------------------------------
(* Logins                                                                  *)

LoginPCs == {"wait", "stop", "codeSent", "codeReply"}

\* A login has a state token of its own while it is under way ...
TokenOfLogin ==
    \A c \in Clients :
        /\ pc[c] \in LoginPCs <=> stateToken[c] # None
        /\ stateToken[c] # None => stateToken[c] <= logins
        /\ \A d \in Clients :
              stateToken[c] # None /\ stateToken[c] = stateToken[d] => c = d

\* ... whose code has not been exchanged before the login does it ...
CodeUnused ==
    /\ \A s \in States : exchanges[s] <= 1 /\ (s > logins => exchanges[s] = 0)
    /\ \A c \in Clients : pc[c] \in {"wait", "stop", "codeSent"} =>
                              exchanges[stateToken[c]] = 0

\* ... and which is the state of the request the login goes on with; by then
\* the server has been stopped, so no other request can replace that one.
RequestFixed ==
    \A c \in Clients :
        /\ pc[c] \in {"stop", "codeSent", "codeReply"} => requestArgs[c] # None
        /\ pc[c] \in {"codeSent", "codeReply"} =>
              bound[c] = None /\ requestArgs[c].state = stateToken[c]

PortsDistinct ==
    \A c, d \in Clients : bound[c] # None /\ bound[c] = bound[d] => c = d

LoginInv == TypeInv /\ TokenOfLogin /\ CodeUnused /\ RequestFixed /\ PortsDistinct

LEMMA InitLoginInv == Init => LoginInv
<1> SUFFICES ASSUME Init PROVE LoginInv
    OBVIOUS
<1>1. TypeInv
    BY InitTypeInv
<1>2. TokenOfLogin /\ CodeUnused /\ RequestFixed /\ PortsDistinct
    BY DEF Init, ServerInit, TokenOfLogin, CodeUnused, RequestFixed,
           PortsDistinct, LoginPCs
<1>. QED
    BY <1>1, <1>2 DEF LoginInv

\* Most steps happen outside logins.
LEMMA LoginInvElsewhere ==
    ASSUME LoginInv, TypeInv',
           UNCHANGED <<bound, requestArgs, stateToken, logins, exchanges>>,
           \A c \in Clients : \/ pc'[c] = pc[c]
                              \/ pc[c] \notin LoginPCs /\ pc'[c] \notin LoginPCs
    PROVE  LoginInv'
BY DEF LoginInv, TokenOfLogin, CodeUnused, RequestFixed, PortsDistinct, LoginPCs

LEMMA LoginInvProviderRefuses ==
    ASSUME LoginInv, TypeInv', NEW c \in Clients, ProviderRefuses(c)
    PROVE  LoginInv'
<1> USE DEF LoginInv, TypeInv, serverVars, providerVars, loginVars, setup, clientVars
<1>1. TokenOfLogin'
    BY DEF ProviderRefuses, Goto, TypeOK, ServerTypeOK, States, Ports, TokenOfLogin, CodeUnused, RequestFixed, PortsDistinct, LoginPCs
<1>2. CodeUnused'
    BY DEF ProviderRefuses, Goto, TypeOK, ServerTypeOK, States, Ports, TokenOfLogin, CodeUnused, RequestFixed, PortsDistinct, LoginPCs
<1>3. RequestFixed'
    BY DEF ProviderRefuses, Goto, TypeOK, ServerTypeOK, States, Ports, TokenOfLogin, CodeUnused, RequestFixed, PortsDistinct, LoginPCs
<1>4. PortsDistinct'
    BY DEF ProviderRefuses, Goto, TypeOK, ServerTypeOK, States, Ports, TokenOfLogin, CodeUnused, RequestFixed, PortsDistinct, LoginPCs
<1>. QED
    BY <1>1, <1>2, <1>3, <1>4

LEMMA LoginInvLoginStart ==
    ASSUME LoginInv, TypeInv', NEW c \in Clients, LoginStart(c)
    PROVE  LoginInv'
<1> USE DEF LoginInv, TypeInv, serverVars, providerVars, loginVars, setup, clientVars
<1>1. TokenOfLogin'
    BY AbsentAssumption DEF LoginStart, Goto, StartServer, IsRunning, FirstFree, FreePorts, TypeOK, ServerTypeOK, States, Ports, TokenOfLogin, CodeUnused, RequestFixed, PortsDistinct, LoginPCs
<1>2. CodeUnused'
    BY DEF LoginStart, Goto, StartServer, IsRunning, FirstFree, FreePorts, TypeOK, ServerTypeOK, States, Ports, TokenOfLogin, CodeUnused, RequestFixed, PortsDistinct, LoginPCs
<1>3. RequestFixed'
    BY DEF LoginStart, Goto, StartServer, IsRunning, FirstFree, FreePorts, TypeOK, ServerTypeOK, States, Ports, TokenOfLogin, CodeUnused, RequestFixed, PortsDistinct, LoginPCs
<1>4. PortsDistinct'
    BY DEF LoginStart, Goto, StartServer, IsRunning, FirstFree, FreePorts, TypeOK, ServerTypeOK, States, Ports, TokenOfLogin, CodeUnused, RequestFixed, PortsDistinct, LoginPCs
<1>. QED
    BY <1>1, <1>2, <1>3, <1>4

LEMMA LoginInvLoginAborted ==
    ASSUME LoginInv, TypeInv', NEW c \in Clients, LoginAborted(c)
    PROVE  LoginInv'
<1> USE DEF LoginInv, TypeInv, serverVars, providerVars, loginVars, setup, clientVars
<1>1. TokenOfLogin'
    BY DEF LoginAborted, Goto, Raise, StartServer, IsRunning, FirstFree, FreePorts, TypeOK, ServerTypeOK, States, Ports, TokenOfLogin, CodeUnused, RequestFixed, PortsDistinct, LoginPCs
<1>2. CodeUnused'
    BY DEF LoginAborted, Goto, Raise, StartServer, IsRunning, FirstFree, FreePorts, TypeOK, ServerTypeOK, States, Ports, TokenOfLogin, CodeUnused, RequestFixed, PortsDistinct, LoginPCs
<1>3. RequestFixed'
    BY DEF LoginAborted, Goto, Raise, StartServer, IsRunning, FirstFree, FreePorts, TypeOK, ServerTypeOK, States, Ports, TokenOfLogin, CodeUnused, RequestFixed, PortsDistinct, LoginPCs
<1>4. PortsDistinct'
    BY DEF LoginAborted, Goto, Raise, StartServer, IsRunning, FirstFree, FreePorts, TypeOK, ServerTypeOK, States, Ports, TokenOfLogin, CodeUnused, RequestFixed, PortsDistinct, LoginPCs
<1>. QED
    BY <1>1, <1>2, <1>3, <1>4

LEMMA LoginInvWaitSeesRequest ==
    ASSUME LoginInv, TypeInv', NEW c \in Clients, WaitSeesRequest(c)
    PROVE  LoginInv'
<1> USE DEF LoginInv, TypeInv, serverVars, providerVars, loginVars, setup, clientVars
<1>1. TokenOfLogin'
    BY DEF WaitSeesRequest, Goto, TypeOK, ServerTypeOK, States, Ports, TokenOfLogin, CodeUnused, RequestFixed, PortsDistinct, LoginPCs
<1>2. CodeUnused'
    BY DEF WaitSeesRequest, Goto, TypeOK, ServerTypeOK, States, Ports, TokenOfLogin, CodeUnused, RequestFixed, PortsDistinct, LoginPCs
<1>3. RequestFixed'
    BY DEF WaitSeesRequest, Goto, TypeOK, ServerTypeOK, States, Ports, TokenOfLogin, CodeUnused, RequestFixed, PortsDistinct, LoginPCs
<1>4. PortsDistinct'
    BY DEF WaitSeesRequest, Goto, TypeOK, ServerTypeOK, States, Ports, TokenOfLogin, CodeUnused, RequestFixed, PortsDistinct, LoginPCs
<1>. QED
    BY <1>1, <1>2, <1>3, <1>4

LEMMA LoginInvWaitTimesOut ==
    ASSUME LoginInv, TypeInv', NEW c \in Clients, WaitTimesOut(c)
    PROVE  LoginInv'
<1> USE DEF LoginInv, TypeInv, serverVars, providerVars, loginVars, setup, clientVars
<1>1. TokenOfLogin'
    BY DEF WaitTimesOut, Goto, Raise, EndLogin, TypeOK, ServerTypeOK, States, Ports, TokenOfLogin, CodeUnused, RequestFixed, PortsDistinct, LoginPCs
<1>2. CodeUnused'
    BY DEF WaitTimesOut, Goto, Raise, EndLogin, TypeOK, ServerTypeOK, States, Ports, TokenOfLogin, CodeUnused, RequestFixed, PortsDistinct, LoginPCs
<1>3. RequestFixed'
    BY DEF WaitTimesOut, Goto, Raise, EndLogin, TypeOK, ServerTypeOK, States, Ports, TokenOfLogin, CodeUnused, RequestFixed, PortsDistinct, LoginPCs
<1>4. PortsDistinct'
    BY DEF WaitTimesOut, Goto, Raise, EndLogin, TypeOK, ServerTypeOK, States, Ports, TokenOfLogin, CodeUnused, RequestFixed, PortsDistinct, LoginPCs
<1>. QED
    BY <1>1, <1>2, <1>3, <1>4

LEMMA LoginInvRequestAccepted ==
    ASSUME LoginInv, TypeInv', NEW c \in Clients, RequestAccepted(c)
    PROVE  LoginInv'
<1> USE DEF LoginInv, TypeInv, serverVars, providerVars, loginVars, setup, clientVars
<1>1. TokenOfLogin'
    BY DEF RequestAccepted, Goto, StopServer, OwnRequest, TypeOK, ServerTypeOK, States, Ports, TokenOfLogin, CodeUnused, RequestFixed, PortsDistinct, LoginPCs
<1>2. CodeUnused'
    BY DEF RequestAccepted, Goto, StopServer, OwnRequest, TypeOK, ServerTypeOK, States, Ports, TokenOfLogin, CodeUnused, RequestFixed, PortsDistinct, LoginPCs
<1>3. RequestFixed'
    BY DEF RequestAccepted, Goto, StopServer, OwnRequest, TypeOK, ServerTypeOK, States, Ports, TokenOfLogin, CodeUnused, RequestFixed, PortsDistinct, LoginPCs
<1>4. PortsDistinct'
    BY DEF RequestAccepted, Goto, StopServer, OwnRequest, TypeOK, ServerTypeOK, States, Ports, TokenOfLogin, CodeUnused, RequestFixed, PortsDistinct, LoginPCs
<1>. QED
    BY <1>1, <1>2, <1>3, <1>4

LEMMA LoginInvRequestRejected ==
    ASSUME LoginInv, TypeInv', NEW c \in Clients, RequestRejected(c)
    PROVE  LoginInv'
<1> USE DEF LoginInv, TypeInv, serverVars, providerVars, loginVars, setup, clientVars
<1>1. TokenOfLogin'
    BY DEF RequestRejected, Goto, Raise, EndLogin, StopServer, TypeOK, ServerTypeOK, States, Ports, TokenOfLogin, CodeUnused, RequestFixed, PortsDistinct, LoginPCs
<1>2. CodeUnused'
    BY DEF RequestRejected, Goto, Raise, EndLogin, StopServer, TypeOK, ServerTypeOK, States, Ports, TokenOfLogin, CodeUnused, RequestFixed, PortsDistinct, LoginPCs
<1>3. RequestFixed'
    BY DEF RequestRejected, Goto, Raise, EndLogin, StopServer, TypeOK, ServerTypeOK, States, Ports, TokenOfLogin, CodeUnused, RequestFixed, PortsDistinct, LoginPCs
<1>4. PortsDistinct'
    BY DEF RequestRejected, Goto, Raise, EndLogin, StopServer, TypeOK, ServerTypeOK, States, Ports, TokenOfLogin, CodeUnused, RequestFixed, PortsDistinct, LoginPCs
<1>. QED
    BY <1>1, <1>2, <1>3, <1>4

LEMMA LoginInvProviderExchange ==
    ASSUME LoginInv, TypeInv', NEW c \in Clients, ProviderExchange(c)
    PROVE  LoginInv'
<1> USE DEF LoginInv, TypeInv, serverVars, providerVars, loginVars, setup, clientVars
<1>1. TokenOfLogin'
    BY DEF ProviderExchange, Goto, TypeOK, ServerTypeOK, States, Ports, TokenOfLogin, CodeUnused, RequestFixed, PortsDistinct, LoginPCs
<1>2. CodeUnused'
    BY DEF ProviderExchange, Goto, TypeOK, ServerTypeOK, States, Ports, TokenOfLogin, CodeUnused, RequestFixed, PortsDistinct, LoginPCs
<1>3. RequestFixed'
    BY DEF ProviderExchange, Goto, TypeOK, ServerTypeOK, States, Ports, TokenOfLogin, CodeUnused, RequestFixed, PortsDistinct, LoginPCs
<1>4. PortsDistinct'
    BY DEF ProviderExchange, Goto, TypeOK, ServerTypeOK, States, Ports, TokenOfLogin, CodeUnused, RequestFixed, PortsDistinct, LoginPCs
<1>. QED
    BY <1>1, <1>2, <1>3, <1>4

LEMMA LoginInvExchangeFailed ==
    ASSUME LoginInv, TypeInv', NEW c \in Clients, ExchangeFailed(c)
    PROVE  LoginInv'
<1> USE DEF LoginInv, TypeInv, serverVars, providerVars, loginVars, setup, clientVars
<1>1. TokenOfLogin'
    BY DEF ExchangeFailed, Goto, Raise, EndLogin, TypeOK, ServerTypeOK, States, Ports, TokenOfLogin, CodeUnused, RequestFixed, PortsDistinct, LoginPCs
<1>2. CodeUnused'
    BY DEF ExchangeFailed, Goto, Raise, EndLogin, TypeOK, ServerTypeOK, States, Ports, TokenOfLogin, CodeUnused, RequestFixed, PortsDistinct, LoginPCs
<1>3. RequestFixed'
    BY DEF ExchangeFailed, Goto, Raise, EndLogin, TypeOK, ServerTypeOK, States, Ports, TokenOfLogin, CodeUnused, RequestFixed, PortsDistinct, LoginPCs
<1>4. PortsDistinct'
    BY DEF ExchangeFailed, Goto, Raise, EndLogin, TypeOK, ServerTypeOK, States, Ports, TokenOfLogin, CodeUnused, RequestFixed, PortsDistinct, LoginPCs
<1>. QED
    BY <1>1, <1>2, <1>3, <1>4

LEMMA LoginInvExchangeSucceeded ==
    ASSUME LoginInv, TypeInv', NEW c \in Clients, ExchangeSucceeded(c)
    PROVE  LoginInv'
<1> USE DEF LoginInv, TypeInv, serverVars, providerVars, loginVars, setup, clientVars
<1>1. TokenOfLogin'
    BY DEF ExchangeSucceeded, Goto, EndLogin, TypeOK, ServerTypeOK, States, Ports, TokenOfLogin, CodeUnused, RequestFixed, PortsDistinct, LoginPCs
<1>2. CodeUnused'
    BY DEF ExchangeSucceeded, Goto, EndLogin, TypeOK, ServerTypeOK, States, Ports, TokenOfLogin, CodeUnused, RequestFixed, PortsDistinct, LoginPCs
<1>3. RequestFixed'
    BY DEF ExchangeSucceeded, Goto, EndLogin, TypeOK, ServerTypeOK, States, Ports, TokenOfLogin, CodeUnused, RequestFixed, PortsDistinct, LoginPCs
<1>4. PortsDistinct'
    BY DEF ExchangeSucceeded, Goto, EndLogin, TypeOK, ServerTypeOK, States, Ports, TokenOfLogin, CodeUnused, RequestFixed, PortsDistinct, LoginPCs
<1>. QED
    BY <1>1, <1>2, <1>3, <1>4

LEMMA LoginInvCrash ==
    ASSUME LoginInv, TypeInv', NEW c \in Clients, Crash(c)
    PROVE  LoginInv'
<1> USE DEF LoginInv, TypeInv, serverVars, providerVars, loginVars, setup, clientVars
<1>1. TokenOfLogin'
    BY DEF Crash, ServerLost, EndLogin, TypeOK, ServerTypeOK, States, Ports, TokenOfLogin, CodeUnused, RequestFixed, PortsDistinct, LoginPCs
<1>2. CodeUnused'
    BY DEF Crash, ServerLost, EndLogin, TypeOK, ServerTypeOK, States, Ports, TokenOfLogin, CodeUnused, RequestFixed, PortsDistinct, LoginPCs
<1>3. RequestFixed'
    BY DEF Crash, ServerLost, EndLogin, TypeOK, ServerTypeOK, States, Ports, TokenOfLogin, CodeUnused, RequestFixed, PortsDistinct, LoginPCs
<1>4. PortsDistinct'
    BY DEF Crash, ServerLost, EndLogin, TypeOK, ServerTypeOK, States, Ports, TokenOfLogin, CodeUnused, RequestFixed, PortsDistinct, LoginPCs
<1>. QED
    BY <1>1, <1>2, <1>3, <1>4

LEMMA LoginInvCallback ==
    ASSUME LoginInv, TypeInv', NEW s \in States, NEW c \in Clients,
           NEW code \in BOOLEAN, Callback(s, c, code)
    PROVE  LoginInv'
<1> USE DEF LoginInv, TypeInv, providerVars, loginVars, setup, clientVars
<1>1. TokenOfLogin' /\ CodeUnused' /\ PortsDistinct'
    BY DEF Callback, GetAuthCode, TokenOfLogin, CodeUnused, PortsDistinct
<1>2. RequestFixed'
    <2>1. bound[c] # None
        BY DEF Callback
    <2>2. [state |-> s, code |-> code] # None
        BY AbsentAssumption DEF Args
    <2>. QED
        BY <2>1, <2>2 DEF Callback, GetAuthCode, RequestFixed, TypeOK, ServerTypeOK
<1>. QED
    BY <1>1, <1>2

LEMMA LoginInvNext == LoginInv /\ [Next]_vars => LoginInv'
<1> SUFFICES ASSUME LoginInv, [Next]_vars PROVE LoginInv'
    OBVIOUS
<1>0. TypeInv /\ TypeInv'
    BY TypeInvNext DEF LoginInv
<1>1. ASSUME NEW c \in Clients,
             \/ AccessTokenCached(c) \/ AccessTokenExpired(c)
             \/ CredentialsMissing(c) \/ DeleteCredsFile(c) \/ RefreshStart(c)
             \/ ProviderRefresh(c) \/ RefreshFailed(c) \/ RefreshSucceeded(c)
             \/ LoginRefused(c) \/ WriteOpen(c) \/ WriteDone(c)
             \/ WriteFails(c) \/ LoseReply(c)
      PROVE  LoginInv'
    <2>1. UNCHANGED <<bound, requestArgs, stateToken, logins, exchanges>>
        BY <1>1
        DEF AccessTokenCached, AccessTokenExpired, CredentialsMissing,
            DeleteCredsFile, RefreshStart, ProviderRefresh, RefreshFailed,
            RefreshSucceeded, LoginRefused, WriteOpen, WriteDone, WriteFails,
            LoseReply, serverVars, clientVars, loginVars
    <2>2. \/ pc' = pc
          \/ \E to : pc' = [pc EXCEPT ![c] = to] /\ pc[c] \notin LoginPCs /\ to \notin LoginPCs
        BY <1>1
        DEF AccessTokenCached, AccessTokenExpired, CredentialsMissing,
            DeleteCredsFile, RefreshStart, ProviderRefresh, RefreshFailed,
            RefreshSucceeded, LoginRefused, WriteOpen, WriteDone, WriteFails,
            LoseReply, clientVars, Goto, Raise, LoginPCs
    <2>3. \A d \in Clients : \/ pc'[d] = pc[d]
                             \/ pc[d] \notin LoginPCs /\ pc'[d] \notin LoginPCs
        BY <1>0, <2>2 DEF TypeInv, TypeOK
    <2>. QED
        BY <1>0, <2>1, <2>3, LoginInvElsewhere
<1>2. ASSUME NEW c \in Clients,
             \/ ProviderRefuses(c) \/ LoginStart(c) \/ LoginAborted(c)
             \/ WaitSeesRequest(c) \/ WaitTimesOut(c)
             \/ RequestAccepted(c) \/ RequestRejected(c)
             \/ ProviderExchange(c) \/ ExchangeFailed(c) \/ ExchangeSucceeded(c)
             \/ Crash(c)
      PROVE  LoginInv'
    BY <1>0, <1>2, LoginInvProviderRefuses, LoginInvLoginStart,
       LoginInvLoginAborted, LoginInvWaitSeesRequest, LoginInvWaitTimesOut,
       LoginInvRequestAccepted, LoginInvRequestRejected,
       LoginInvProviderExchange, LoginInvExchangeFailed,
       LoginInvExchangeSucceeded, LoginInvCrash
<1>3. ASSUME NEW s \in States, NEW c \in Clients, NEW code \in BOOLEAN,
             Callback(s, c, code)
      PROVE  LoginInv'
    BY <1>0, <1>3, LoginInvCallback
<1>4. CASE TimePasses \/ UNCHANGED vars
    <2>1. UNCHANGED <<pc, bound, requestArgs, stateToken, logins, exchanges>>
        BY <1>4 DEF TimePasses, vars, serverVars, clientVars, loginVars
    <2>. QED
        BY <1>0, <2>1, LoginInvElsewhere
<1>. QED
    BY <1>1, <1>2, <1>3, <1>4 DEF Next, Step

\* The code of a login link is exchanged at most once, and by its own login.
THEOREM CodesExchangedOnce == Spec => []OwnCodeOnce
<1>1. LoginInv => OwnCodeOnce
    BY DEF LoginInv, CodeUnused, RequestFixed, OwnCodeOnce
<1>. QED
    BY InitLoginInv, LoginInvNext, <1>1, PTL DEF Spec

\* Servers keep out of each other's way and are stopped before a code is used.
THEOREM ServersReleased == Spec => []ServerReleased
<1>1. LoginInv => ServerReleased
    BY DEF LoginInv, RequestFixed, PortsDistinct, ServerReleased, IsRunning
<1>. QED
    BY InitLoginInv, LoginInvNext, <1>1, PTL DEF Spec

-----------------------------------------------------------------------------
(* The credentials: refresh tokens are not lost and the cache file does not *)
(* go bad, for any clients sharing it.                                      *)

HasRT(x, t) == x \in Grants /\ x.rt = t

\* The token that c is to write to the file next.
Carries(c, t) ==
    \/ pc[c] \in {"refreshReply", "codeReply"} /\ HasRT(reply[c], t)
    \/ pc[c] \in {"write", "writing"} /\ HasRT(mem[c], t)

Holds(c, t) == HasRT(mem[c], t) \/ HasRT(reply[c], t)

\* A new token is a new number.
NoneFromFuture ==
    \A t \in Tokens :
        t \in validRT \/ HasRT(file, t) \/ (\E c \in Clients : Holds(c, t)) => t <= issued

\* A provider that does not rotate refresh tokens accepts them all.
NoneRevoked ==
    ~rotating => \A t \in Tokens :
        HasRT(file, t) \/ (\E c \in Clients : Holds(c, t)) => t \in validRT

\* A client that writes has credentials; a rotating provider answers with a
\* refresh token.
WriteReady ==
    \A c \in Clients :
        /\ pc[c] \in {"write", "writing"} => mem[c] \in Creds
        /\ rotating /\ pc[c] = "refreshReply" => reply[c] \in Creds \cup {Failed}

\* A token on its way from a rotating provider to the file works, and nobody
\* else can use it up.
CarriedTokens ==
    rotating => \A c \in Clients, t \in Tokens :
        Carries(c, t) => /\ t \in validRT
                         /\ ~HasRT(file, t)
                         /\ \A d \in Clients \ {c} : ~Holds(d, t)

\* Without faults, a client without credentials has used up no token, ...
NoneUsedUnheld ==
    faults = 0 => \A c \in Clients, t \in Tokens :
        consumer[t] = c => mem[c] # None

\* ... one with a token that it has used up itself has the answer, ...
ReplacementHeld ==
    faults = 0 => \A c \in Clients, t \in Tokens :
        HasRT(mem[c], t) /\ t \notin validRT /\ consumer[t] = c =>
            pc[c] = "refreshReply" /\ reply[c] \in Grants

\* ... and the one that used up the token in the file will replace it.
ReplacementComing ==
    faults = 0 => \A t \in Tokens :
        HasRT(file, t) /\ t \notin validRT =>
            \E c \in Clients :
                /\ consumer[t] = c
                /\ \/ pc[c] = "refreshReply" /\ reply[c] \in Grants
                   \/ pc[c] = "write"

CredsInv ==
    /\ TypeInv /\ NoneFromFuture /\ NoneRevoked /\ WriteReady
    /\ CarriedTokens /\ NoneUsedUnheld /\ ReplacementHeld /\ ReplacementComing

LEMMA CredsAreGrants == Creds \subseteq Grants
BY DEF Creds, Grants

LEMMA InitCredsInv == Init => CredsInv
<1> SUFFICES ASSUME Init PROVE CredsInv
    OBVIOUS
<1>1. TypeInv
    BY InitTypeInv
<1>2. \A t \in Tokens : HasRT(file, t) => t = 1
    BY SentinelAssumption DEF Init, HasRT, OldCreds
<1>3. \A c \in Clients, t \in Tokens : Holds(c, t) => t = 1
    BY <1>2, SentinelAssumption DEF Init, HasRT, Holds
<1>4. NoneFromFuture /\ NoneRevoked
    BY <1>2, <1>3 DEF Init, NoneFromFuture, NoneRevoked
<1>5. WriteReady /\ CarriedTokens
    BY DEF Init, WriteReady, CarriedTokens, Carries
<1>6. NoneUsedUnheld /\ ReplacementHeld
    BY SentinelAssumption, AbsentAssumption
    DEF Init, NoneUsedUnheld, ReplacementHeld
<1>7. ReplacementComing
    BY <1>2 DEF Init, ReplacementComing
<1>. QED
    BY <1>1, <1>4, <1>5, <1>6, <1>7 DEF CredsInv

-----------------------------------------------------------------------------
(* Steps                                                                   *)

\* A token about to be written works, whether or not the provider rotates them.
LEMMA CarriedValid ==
    ASSUME CredsInv, NEW c \in Clients, NEW t \in Tokens, Carries(c, t)
    PROVE  t \in validRT
BY DEF CredsInv, CarriedTokens, NoneRevoked, Carries, Holds

AnswerPCs == {"refreshReply", "codeReply", "write", "writing"}

\* Steps that touch no token.
LEMMA CredsInvElsewhere ==
    ASSUME CredsInv, TypeInv',
           UNCHANGED <<mem, reply, file, rotating, issued, validRT, consumer, faults>>,
           \A c \in Clients : \/ pc'[c] = pc[c]
                              \/ pc[c] \notin AnswerPCs /\ pc'[c] \notin AnswerPCs
    PROVE  CredsInv'
<1> USE DEF CredsInv, HasRT, Holds, AnswerPCs
<1>1. NoneFromFuture' /\ NoneRevoked' /\ NoneUsedUnheld'
    BY DEF NoneFromFuture, NoneRevoked, NoneUsedUnheld
<1>2. WriteReady' /\ CarriedTokens'
    BY DEF WriteReady, CarriedTokens, Carries
<1>3. ReplacementHeld' /\ ReplacementComing'
    BY DEF ReplacementHeld, ReplacementComing
<1>. QED
    BY <1>1, <1>2, <1>3

\* A client without credentials takes those in the file.
LEMMA CredsInvLoads ==
    ASSUME CredsInv, TypeInv', NEW c \in Clients, Readable(c),
           pc[c] \in {"idle", "refresh"}, pc'[c] \notin AnswerPCs,
           \A d \in Clients \ {c} : pc'[d] = pc[d],
           mem' = [mem EXCEPT ![c] = Loaded(c)],
           UNCHANGED <<reply, file, rotating, issued, validRT, consumer, faults>>
    PROVE  CredsInv'
<1> USE DEF CredsInv, TypeInv, AnswerPCs
<1>1. \A d \in Clients, t \in Tokens :
          HasRT(mem'[d], t) => HasRT(mem[d], t) \/ (d = c /\ mem[c] = None /\ HasRT(file, t))
    <2> TAKE d \in Clients, t \in Tokens
    <2>1. mem'[d] = IF d = c THEN Loaded(c) ELSE mem[d]
        BY DEF TypeOK
    <2>. QED
        BY <2>1 DEF Loaded, HasRT
<1>2. \A d \in Clients, t \in Tokens : Carries(d, t)' => d # c /\ Carries(d, t)
    BY DEF Carries, TypeOK
<1>3. NoneFromFuture'
    BY <1>1 DEF NoneFromFuture, Holds
<1>4. NoneRevoked'
    BY <1>1 DEF NoneRevoked, Holds
<1>5. WriteReady'
    BY DEF WriteReady, TypeOK
<1>6. CarriedTokens'
    BY <1>1, <1>2 DEF CarriedTokens, Holds
<1>7. NoneUsedUnheld'
    BY DEF NoneUsedUnheld, Loaded, TypeOK
<1>8. ReplacementHeld'
    BY <1>1 DEF ReplacementHeld, NoneUsedUnheld, TypeOK
<1>9. ReplacementComing'
    BY DEF ReplacementComing, TypeOK
<1>. QED
    BY <1>3, <1>4, <1>5, <1>6, <1>7, <1>8, <1>9

LEMMA CredsInvDeleteCredsFile ==
    ASSUME CredsInv, TypeInv', NEW c \in Clients, DeleteCredsFile(c)
    PROVE  CredsInv'
<1> USE DEF CredsInv, TypeInv, TypeOK, clientVars, setup, providerVars, loginVars
<1>1. NoneFromFuture'
    BY SentinelAssumption, CredsAreGrants DEF DeleteCredsFile, HasRT, Holds, NoneFromFuture
<1>2. NoneRevoked'
    BY SentinelAssumption, CredsAreGrants DEF DeleteCredsFile, HasRT, Holds, NoneRevoked
<1>3. WriteReady'
    BY SentinelAssumption, CredsAreGrants DEF DeleteCredsFile, WriteReady
<1>4. CarriedTokens'
    BY SentinelAssumption, CredsAreGrants DEF DeleteCredsFile, HasRT, Holds, Carries, CarriedTokens, WriteReady
<1>5. NoneUsedUnheld'
    BY SentinelAssumption, CredsAreGrants DEF DeleteCredsFile, NoneUsedUnheld
<1>6. ReplacementHeld'
    BY SentinelAssumption, CredsAreGrants DEF DeleteCredsFile, HasRT, Holds, Carries, ReplacementHeld, CarriedTokens, WriteReady
<1>7. ReplacementComing'
    BY SentinelAssumption, CredsAreGrants DEF DeleteCredsFile, HasRT, Holds, ReplacementComing, CarriedTokens, WriteReady
<1>. QED
    BY <1>1, <1>2, <1>3, <1>4, <1>5, <1>6, <1>7

LEMMA CredsInvProviderRefresh ==
    ASSUME CredsInv, TypeInv', NEW c \in Clients, ProviderRefresh(c)
    PROVE  CredsInv'
<1> DEFINE n  == issued + 1
           rt == mem[c].rt
<1>1. /\ n \in Tokens /\ issued' = n
      /\ pc[c] = "refreshSent" /\ pc' = [pc EXCEPT ![c] = "refreshReply"]
      /\ reply' = [reply EXCEPT ![c] = [at |-> n, rt |-> IF rotating THEN n ELSE None]]
      /\ UNCHANGED <<mem, file, rotating, faults>>
    BY BoundAssumption DEF ProviderRefresh, Goto, CredsInv, TypeInv, TypeOK, Tokens, setup
<1>2. /\ rotating => /\ validRT' = (validRT \ {rt}) \cup {n}
                     /\ consumer' = [consumer EXCEPT ![rt] = c]
      /\ ~rotating => UNCHANGED <<validRT, consumer>>
    BY DEF ProviderRefresh
<1>3. mem[c] \in Creds /\ rt \in Tokens /\ HasRT(mem[c], rt) /\ rt \in validRT
    BY CredsAreGrants DEF ProviderRefresh, Goto, CredsInv, TypeInv, Held, Creds, HasRT
<1>4. /\ ~HasRT(file, n) /\ n \notin validRT
      /\ \A d \in Clients : ~Holds(d, n)
    <2>1. ~(n <= issued)
        BY DEF CredsInv, TypeInv, TypeOK, Tokens
    <2>. QED
        BY <1>1, <2>1 DEF CredsInv, NoneFromFuture
<1>5. /\ [at |-> n, rt |-> n] \in Creds
      /\ [at |-> n, rt |-> IF rotating THEN n ELSE None] \in Grants
    BY <1>1 DEF Creds, Grants
<1>6. /\ \A d \in Clients \ {c} : pc'[d] = pc[d] /\ reply'[d] = reply[d]
      /\ pc'[c] = "refreshReply"
      /\ rotating => reply'[c] = [at |-> n, rt |-> n]
      /\ reply'[c] \in Grants
      /\ \A t \in Tokens : HasRT(reply'[c], t) => rotating /\ t = n
    BY <1>1, <1>5, SentinelAssumption DEF CredsInv, TypeInv, TypeOK, HasRT
<1> HIDE DEF n, rt
<1>7. \A d \in Clients, t \in Tokens :
          Holds(d, t)' => Holds(d, t) \/ (rotating /\ d = c /\ t = n)
    <2> TAKE d \in Clients, t \in Tokens
    <2>1. HasRT(mem[d], t)' => HasRT(mem[d], t)
        BY <1>1 DEF HasRT
    <2>2. CASE d = c
        BY <1>6, <2>1, <2>2 DEF Holds, HasRT
    <2>3. CASE d # c
        BY <1>6, <2>1, <2>3 DEF Holds, HasRT
    <2>. QED
        BY <2>2, <2>3
<1>8. NoneFromFuture'
    BY <1>1, <1>2, <1>7 DEF n, CredsInv, NoneFromFuture, HasRT, TypeInv, TypeOK, Tokens
<1>9. NoneRevoked'
    BY <1>1, <1>2, <1>7 DEF CredsInv, NoneRevoked, HasRT
<1>10. WriteReady'
    BY <1>1, <1>5, <1>6 DEF CredsInv, WriteReady
<1>11. CarriedTokens'
    <2> SUFFICES ASSUME rotating, NEW d \in Clients, NEW t \in Tokens, Carries(d, t)'
                 PROVE  /\ t \in validRT' /\ ~HasRT(file, t)
                        /\ \A e \in Clients \ {d} : ~Holds(e, t)'
        BY <1>1 DEF CarriedTokens, HasRT
    <2>1. CASE d = c
        <3>1. t = n
            BY <1>6, <2>1 DEF Carries
        <3>. QED
            BY <1>2, <1>4, <1>7, <2>1, <3>1
    <2>2. CASE d # c
        <3>1. Carries(d, t)
            BY <1>1, <1>6, <2>2 DEF Carries, HasRT
        <3>2. t \in validRT /\ ~HasRT(file, t) /\ \A e \in Clients \ {d} : ~Holds(e, t)
            BY <3>1 DEF CredsInv, CarriedTokens
        <3>3. t # rt /\ t # n
            BY <1>3, <1>4, <2>2, <3>2 DEF Holds
        <3>. QED
            BY <1>2, <1>7, <3>2, <3>3
    <2>. QED
        BY <2>1, <2>2
<1>12. NoneUsedUnheld'
    BY <1>1, <1>2, <1>3, SentinelAssumption, CredsAreGrants
    DEF CredsInv, NoneUsedUnheld, TypeInv, TypeOK
<1>13. ReplacementHeld'
    <2> SUFFICES ASSUME faults = 0, NEW d \in Clients, NEW t \in Tokens,
                        HasRT(mem[d], t), t \notin validRT', consumer'[t] = d, d # c
                 PROVE  pc'[d] = "refreshReply" /\ reply'[d] \in Grants
        BY <1>1, <1>6 DEF ReplacementHeld, HasRT
    <2>1. t \notin validRT /\ consumer[t] = d
        BY <1>2, <1>3 DEF CredsInv, TypeInv, TypeOK
    <2>. QED
        BY <1>6, <2>1 DEF CredsInv, ReplacementHeld
<1>14. ReplacementComing'
    <2> SUFFICES ASSUME faults = 0, NEW t \in Tokens, HasRT(file, t), t \notin validRT'
                 PROVE  \E d \in Clients :
                            /\ consumer'[t] = d
                            /\ \/ pc'[d] = "refreshReply" /\ reply'[d] \in Grants
                               \/ pc'[d] = "write"
        BY <1>1 DEF ReplacementComing, HasRT
    <2>1. CASE t \in validRT
        BY <1>2, <1>6, <2>1 DEF CredsInv, TypeInv, TypeOK
    <2>2. CASE t \notin validRT
        <3>1. PICK d \in Clients : /\ consumer[t] = d
                                   /\ \/ pc[d] = "refreshReply" /\ reply[d] \in Grants
                                      \/ pc[d] = "write"
            BY <2>2 DEF CredsInv, ReplacementComing
        <3>2. d # c
            BY <1>1, <3>1
        <3>3. consumer'[t] = d
            BY <1>2, <1>3, <2>2, <3>1 DEF CredsInv, TypeInv, TypeOK
        <3>. QED
            BY <1>6, <3>1, <3>2, <3>3
    <2>. QED
        BY <2>1, <2>2
<1>. QED
    BY <1>8, <1>9, <1>10, <1>11, <1>12, <1>13, <1>14 DEF CredsInv

LEMMA CredsInvProviderRefuses ==
    ASSUME CredsInv, TypeInv', NEW c \in Clients, ProviderRefuses(c)
    PROVE  CredsInv'
<1> USE DEF CredsInv, TypeInv, TypeOK, clientVars, setup, providerVars, loginVars
<1>1. NoneFromFuture'
    BY SentinelAssumption, CredsAreGrants DEF ProviderRefuses, Goto, HasRT, Holds, NoneFromFuture
<1>2. NoneRevoked'
    BY SentinelAssumption, CredsAreGrants DEF ProviderRefuses, Goto, HasRT, Holds, NoneRevoked
<1>3. WriteReady'
    BY SentinelAssumption, CredsAreGrants DEF ProviderRefuses, Goto, WriteReady
<1>4. CarriedTokens'
    BY SentinelAssumption, CredsAreGrants DEF ProviderRefuses, Goto, HasRT, Holds, Carries, CarriedTokens, WriteReady
<1>5. NoneUsedUnheld'
    BY SentinelAssumption, CredsAreGrants DEF ProviderRefuses, Goto, NoneUsedUnheld
<1>6. ReplacementHeld'
    BY SentinelAssumption, CredsAreGrants DEF ProviderRefuses, Goto, HasRT, Holds, Carries, ReplacementHeld, CarriedTokens, WriteReady
<1>7. ReplacementComing'
    BY SentinelAssumption, CredsAreGrants DEF ProviderRefuses, Goto, HasRT, Holds, ReplacementComing, CarriedTokens, WriteReady
<1>. QED
    BY <1>1, <1>2, <1>3, <1>4, <1>5, <1>6, <1>7

LEMMA CredsInvRefreshFailed ==
    ASSUME CredsInv, TypeInv', NEW c \in Clients, RefreshFailed(c)
    PROVE  CredsInv'
<1> USE DEF CredsInv, TypeInv, TypeOK, clientVars, setup, providerVars, loginVars
<1>1. NoneFromFuture'
    BY SentinelAssumption, CredsAreGrants DEF RefreshFailed, Goto, Raise, HasRT, Holds, NoneFromFuture
<1>2. NoneRevoked'
    BY SentinelAssumption, CredsAreGrants DEF RefreshFailed, Goto, Raise, HasRT, Holds, NoneRevoked
<1>3. WriteReady'
    BY SentinelAssumption, CredsAreGrants DEF RefreshFailed, Goto, Raise, WriteReady
<1>4. CarriedTokens'
    BY SentinelAssumption, CredsAreGrants DEF RefreshFailed, Goto, Raise, HasRT, Holds, Carries, CarriedTokens, WriteReady
<1>5. NoneUsedUnheld'
    BY SentinelAssumption, CredsAreGrants DEF RefreshFailed, Goto, Raise, NoneUsedUnheld
<1>6. ReplacementHeld'
    BY SentinelAssumption, CredsAreGrants DEF RefreshFailed, Goto, Raise, HasRT, Holds, Carries, ReplacementHeld, CarriedTokens, WriteReady
<1>7. ReplacementComing'
    BY SentinelAssumption, CredsAreGrants DEF RefreshFailed, Goto, Raise, HasRT, Holds, ReplacementComing, CarriedTokens, WriteReady
<1>. QED
    BY <1>1, <1>2, <1>3, <1>4, <1>5, <1>6, <1>7

LEMMA CredsInvRefreshSucceeded ==
    ASSUME CredsInv, TypeInv', NEW c \in Clients, RefreshSucceeded(c)
    PROVE  CredsInv'
<1> DEFINE new == UpdateAccessToken(mem[c], reply[c])
<1>1. /\ mem[c] \in Creds /\ reply[c] \in Grants /\ pc[c] = "refreshReply"
      /\ rotating => reply[c] \in Creds
    BY SentinelAssumption
    DEF RefreshSucceeded, Goto, CredsInv, TypeInv, Held, WriteReady
<1>2. /\ pc' = [pc EXCEPT ![c] = "write"]
      /\ mem' = [mem EXCEPT ![c] = new]
      /\ reply' = [reply EXCEPT ![c] = None]
      /\ UNCHANGED <<file, rotating, issued, validRT, consumer, faults>>
    BY DEF RefreshSucceeded, Goto, providerVars, setup
<1>3. new \in Creds /\ new.rt \in Tokens
    BY <1>1 DEF UpdateAccessToken, Creds, Grants
<1>4. /\ rotating => HasRT(reply[c], new.rt)
      /\ HasRT(reply[c], new.rt) \/ HasRT(mem[c], new.rt)
    BY <1>1, SentinelAssumption, CredsAreGrants DEF UpdateAccessToken, Creds, HasRT
<1>5. /\ \A d \in Clients \ {c} : pc'[d] = pc[d] /\ mem'[d] = mem[d] /\ reply'[d] = reply[d]
      /\ pc'[c] = "write" /\ mem'[c] = new /\ reply'[c] = None
    BY <1>2 DEF CredsInv, TypeInv, TypeOK
<1> HIDE DEF new
<1>6. \A t \in Tokens : ~HasRT(reply'[c], t)
    BY <1>5, SentinelAssumption DEF HasRT
<1>7. \A d \in Clients, t \in Tokens : Holds(d, t)' => Holds(d, t)
    BY <1>4, <1>5, <1>6 DEF Holds, HasRT
<1>8. rotating => Carries(c, new.rt)
    BY <1>1, <1>4 DEF Carries
<1>9. new.rt \in validRT
    BY <1>3, <1>4, <1>8 DEF CredsInv, NoneRevoked, CarriedTokens, Holds
<1>10. NoneFromFuture' /\ NoneRevoked'
    BY <1>2, <1>7 DEF CredsInv, NoneFromFuture, NoneRevoked, HasRT
<1>11. WriteReady'
    BY <1>2, <1>3, <1>5 DEF CredsInv, WriteReady
<1>12. CarriedTokens'
    <2>1. \A d \in Clients, t \in Tokens : Carries(d, t)' /\ rotating => Carries(d, t)
        BY <1>5, <1>8 DEF Carries, HasRT
    <2>. QED
        BY <1>2, <1>7, <2>1 DEF CredsInv, CarriedTokens, HasRT
<1>13. NoneUsedUnheld'
    BY <1>2, <1>3, <1>5, SentinelAssumption, CredsAreGrants DEF CredsInv, NoneUsedUnheld
<1>14. ReplacementHeld'
    BY <1>2, <1>5, <1>9 DEF CredsInv, ReplacementHeld, HasRT
<1>15. ReplacementComing'
    BY <1>2, <1>5 DEF CredsInv, ReplacementComing, HasRT
<1>. QED
    BY <1>10, <1>11, <1>12, <1>13, <1>14, <1>15 DEF CredsInv

LEMMA CredsInvProviderExchange ==
    ASSUME CredsInv, TypeInv', NEW c \in Clients, ProviderExchange(c)
    PROVE  CredsInv'
<1> DEFINE n == issued + 1
<1>1. /\ n \in Tokens /\ issued' = n /\ validRT' = validRT \cup {n}
      /\ pc[c] = "codeSent" /\ pc' = [pc EXCEPT ![c] = "codeReply"]
      /\ reply' = [reply EXCEPT ![c] = [at |-> n, rt |-> n]]
      /\ UNCHANGED <<mem, file, rotating, consumer, faults>>
    BY BoundAssumption DEF ProviderExchange, Goto, CredsInv, TypeInv, TypeOK, Tokens, setup
<1>2. /\ ~HasRT(file, n) /\ n \notin validRT
      /\ \A d \in Clients : ~Holds(d, n)
    BY <1>1 DEF CredsInv, NoneFromFuture, TypeInv, TypeOK, Tokens
<1>3. /\ \A d \in Clients \ {c} : pc'[d] = pc[d] /\ reply'[d] = reply[d]
      /\ pc'[c] = "codeReply" /\ reply'[c] = [at |-> n, rt |-> n]
      /\ \A t \in Tokens : HasRT(reply'[c], t) => t = n
    BY <1>1 DEF CredsInv, TypeInv, TypeOK, HasRT
<1> HIDE DEF n
<1>4. \A d \in Clients, t \in Tokens : Holds(d, t)' => Holds(d, t) \/ (d = c /\ t = n)
    <2> TAKE d \in Clients, t \in Tokens
    <2>1. HasRT(mem[d], t)' => HasRT(mem[d], t)
        BY <1>1 DEF HasRT
    <2>2. CASE d = c
        BY <1>3, <2>1, <2>2 DEF Holds, HasRT
    <2>3. CASE d # c
        BY <1>3, <2>1, <2>3 DEF Holds, HasRT
    <2>. QED
        BY <2>2, <2>3
<1>5. \A d \in Clients, t \in Tokens : Carries(d, t)' =>
          (Carries(d, t) /\ d # c) \/ (d = c /\ t = n)
    <2> TAKE d \in Clients, t \in Tokens
    <2>1. HasRT(mem[d], t)' => HasRT(mem[d], t)
        BY <1>1 DEF HasRT
    <2>2. CASE d = c
        BY <1>3, <2>2 DEF Carries, HasRT
    <2>3. CASE d # c
        BY <1>3, <2>1, <2>3 DEF Carries, HasRT
    <2>. QED
        BY <2>2, <2>3
<1>6. NoneFromFuture'
    BY <1>1, <1>4 DEF n, CredsInv, NoneFromFuture, HasRT, TypeInv, TypeOK, Tokens
<1>7. NoneRevoked' /\ WriteReady'
    BY <1>1, <1>3, <1>4 DEF CredsInv, NoneRevoked, WriteReady, HasRT
<1>8. CarriedTokens'
    <2> SUFFICES ASSUME rotating, NEW d \in Clients, NEW t \in Tokens, Carries(d, t)'
                 PROVE  /\ t \in validRT' /\ ~HasRT(file, t)
                        /\ \A e \in Clients \ {d} : ~Holds(e, t)'
        BY <1>1 DEF CarriedTokens, HasRT
    <2>1. CASE d = c
        BY <1>1, <1>2, <1>4, <1>5, <2>1
    <2>2. CASE d # c
        <3>1. t \in validRT /\ ~HasRT(file, t) /\ \A e \in Clients \ {d} : ~Holds(e, t)
            BY <1>5, <2>2 DEF CredsInv, CarriedTokens
        <3>. QED
            BY <1>1, <1>2, <1>4, <3>1
    <2>. QED
        BY <2>1, <2>2
<1>9. NoneUsedUnheld' /\ ReplacementHeld' /\ ReplacementComing'
    BY <1>1, <1>3 DEF CredsInv, NoneUsedUnheld, ReplacementHeld, ReplacementComing, HasRT
<1>. QED
    BY <1>6, <1>7, <1>8, <1>9 DEF CredsInv

LEMMA CredsInvExchangeFailed ==
    ASSUME CredsInv, TypeInv', NEW c \in Clients, ExchangeFailed(c)
    PROVE  CredsInv'
<1> USE DEF CredsInv, TypeInv, TypeOK, clientVars, setup, providerVars, loginVars
<1>1. NoneFromFuture'
    BY SentinelAssumption, CredsAreGrants DEF ExchangeFailed, Goto, Raise, HasRT, Holds, NoneFromFuture
<1>2. NoneRevoked'
    BY SentinelAssumption, CredsAreGrants DEF ExchangeFailed, Goto, Raise, HasRT, Holds, NoneRevoked
<1>3. WriteReady'
    BY SentinelAssumption, CredsAreGrants DEF ExchangeFailed, Goto, Raise, WriteReady
<1>4. CarriedTokens'
    BY SentinelAssumption, CredsAreGrants DEF ExchangeFailed, Goto, Raise, HasRT, Holds, Carries, CarriedTokens, WriteReady
<1>5. NoneUsedUnheld'
    BY SentinelAssumption, CredsAreGrants DEF ExchangeFailed, Goto, Raise, NoneUsedUnheld
<1>6. ReplacementHeld'
    BY SentinelAssumption, CredsAreGrants DEF ExchangeFailed, Goto, Raise, HasRT, Holds, Carries, ReplacementHeld, CarriedTokens, WriteReady
<1>7. ReplacementComing'
    BY SentinelAssumption, CredsAreGrants DEF ExchangeFailed, Goto, Raise, HasRT, Holds, ReplacementComing, CarriedTokens, WriteReady
<1>. QED
    BY <1>1, <1>2, <1>3, <1>4, <1>5, <1>6, <1>7

LEMMA CredsInvExchangeSucceeded ==
    ASSUME CredsInv, TypeInv', NEW c \in Clients, ExchangeSucceeded(c)
    PROVE  CredsInv'
<1> USE DEF CredsInv, TypeInv, TypeOK, clientVars, setup, providerVars, loginVars
<1>1. NoneFromFuture'
    BY SentinelAssumption, CredsAreGrants DEF ExchangeSucceeded, Goto, HasRT, Holds, NoneFromFuture
<1>2. NoneRevoked'
    BY SentinelAssumption, CredsAreGrants DEF ExchangeSucceeded, Goto, HasRT, Holds, NoneRevoked
<1>3. WriteReady'
    BY SentinelAssumption, CredsAreGrants DEF ExchangeSucceeded, Goto, WriteReady
<1>4. CarriedTokens'
    BY SentinelAssumption, CredsAreGrants DEF ExchangeSucceeded, Goto, HasRT, Holds, Carries, CarriedTokens, WriteReady
<1>5. NoneUsedUnheld'
    BY SentinelAssumption, CredsAreGrants DEF ExchangeSucceeded, Goto, NoneUsedUnheld
<1>6. ReplacementHeld'
    <2>1. \A t \in Tokens : HasRT(reply[c], t) => t \in validRT
        BY CarriedValid DEF ExchangeSucceeded, Goto, Carries
    <2>2. /\ \A d \in Clients \ {c} : mem'[d] = mem[d] /\ pc'[d] = pc[d] /\ reply'[d] = reply[d]
          /\ mem'[c] = reply[c]
          /\ UNCHANGED <<validRT, consumer, faults>>
        BY DEF ExchangeSucceeded, Goto
    <2>. QED
        BY <2>1, <2>2 DEF ReplacementHeld, HasRT
<1>7. ReplacementComing'
    BY SentinelAssumption, CredsAreGrants DEF ExchangeSucceeded, Goto, HasRT, Holds, ReplacementComing, CarriedTokens, WriteReady
<1>. QED
    BY <1>1, <1>2, <1>3, <1>4, <1>5, <1>6, <1>7

LEMMA CredsInvWriteOpen ==
    ASSUME CredsInv, TypeInv', NEW c \in Clients, WriteOpen(c)
    PROVE  CredsInv'
<1> USE DEF CredsInv, TypeInv, TypeOK, clientVars, setup, providerVars, loginVars
<1>1. NoneFromFuture'
    BY SentinelAssumption, CredsAreGrants DEF WriteOpen, Goto, HasRT, Holds, NoneFromFuture
<1>2. NoneRevoked'
    BY SentinelAssumption, CredsAreGrants DEF WriteOpen, Goto, HasRT, Holds, NoneRevoked
<1>3. WriteReady'
    BY SentinelAssumption, CredsAreGrants DEF WriteOpen, Goto, WriteReady
<1>4. CarriedTokens'
    BY SentinelAssumption, CredsAreGrants DEF WriteOpen, Goto, HasRT, Holds, Carries, CarriedTokens, WriteReady
<1>5. NoneUsedUnheld'
    BY SentinelAssumption, CredsAreGrants DEF WriteOpen, Goto, NoneUsedUnheld
<1>6. ReplacementHeld'
    BY SentinelAssumption, CredsAreGrants DEF WriteOpen, Goto, HasRT, Holds, Carries, ReplacementHeld, CarriedTokens, WriteReady
<1>7. ReplacementComing'
    BY SentinelAssumption, CredsAreGrants DEF WriteOpen, Goto, HasRT, Holds, ReplacementComing, CarriedTokens, WriteReady
<1>. QED
    BY <1>1, <1>2, <1>3, <1>4, <1>5, <1>6, <1>7

LEMMA CredsInvWriteDone ==
    ASSUME CredsInv, TypeInv', NEW c \in Clients, WriteDone(c)
    PROVE  CredsInv'
<1> USE DEF CredsInv, TypeInv, TypeOK, clientVars, setup, providerVars, loginVars
<1>1. NoneFromFuture'
    BY SentinelAssumption, CredsAreGrants DEF WriteDone, Goto, HasRT, Holds, NoneFromFuture
<1>2. NoneRevoked'
    BY SentinelAssumption, CredsAreGrants DEF WriteDone, Goto, HasRT, Holds, NoneRevoked
<1>3. WriteReady'
    BY SentinelAssumption, CredsAreGrants DEF WriteDone, Goto, WriteReady
<1>4. CarriedTokens'
    BY SentinelAssumption, CredsAreGrants DEF WriteDone, Goto, HasRT, Holds, Carries, CarriedTokens, WriteReady
<1>5. NoneUsedUnheld'
    BY SentinelAssumption, CredsAreGrants DEF WriteDone, Goto, NoneUsedUnheld
<1>6. ReplacementHeld'
    BY SentinelAssumption, CredsAreGrants DEF WriteDone, Goto, HasRT, Holds, Carries, ReplacementHeld, CarriedTokens, WriteReady
<1>7. ReplacementComing'
    <2>1. \A t \in Tokens : HasRT(mem[c], t) => t \in validRT
        BY CarriedValid DEF WriteDone, Goto, Carries
    <2>2. file' \in {mem[c], file, Torn, None} /\ UNCHANGED validRT
        BY DEF WriteDone
    <2>3. CASE file' = mem[c]
        BY <2>1, <2>2, <2>3 DEF ReplacementComing, HasRT
    <2>4. CASE file' \in {Torn, None}
        BY <2>2, <2>4, SentinelAssumption, CredsAreGrants DEF ReplacementComing, HasRT
    <2>5. CASE file' = file
        BY <2>2, <2>5 DEF ReplacementComing, HasRT, WriteDone, Goto
    <2>. QED
        BY <2>2, <2>3, <2>4, <2>5
<1>. QED
    BY <1>1, <1>2, <1>3, <1>4, <1>5, <1>6, <1>7

LEMMA CredsInvWriteFails ==
    ASSUME CredsInv, TypeInv', NEW c \in Clients, WriteFails(c)
    PROVE  CredsInv'
<1> USE DEF CredsInv, TypeInv, TypeOK, clientVars, setup, providerVars, loginVars
<1>1. NoneFromFuture'
    BY SentinelAssumption, CredsAreGrants DEF WriteFails, Goto, Raise, HasRT, Holds, NoneFromFuture
<1>2. NoneRevoked'
    BY SentinelAssumption, CredsAreGrants DEF WriteFails, Goto, Raise, HasRT, Holds, NoneRevoked
<1>3. WriteReady'
    BY SentinelAssumption, CredsAreGrants DEF WriteFails, Goto, Raise, WriteReady
<1>4. CarriedTokens'
    BY SentinelAssumption, CredsAreGrants DEF WriteFails, Goto, Raise, HasRT, Holds, Carries, CarriedTokens, WriteReady
<1>5. NoneUsedUnheld'
    BY SentinelAssumption, CredsAreGrants DEF WriteFails, Goto, Raise, NoneUsedUnheld
<1>6. ReplacementHeld'
    BY SentinelAssumption, CredsAreGrants DEF WriteFails, Goto, Raise, HasRT, Holds, Carries, ReplacementHeld, CarriedTokens, WriteReady
<1>7. ReplacementComing'
    BY SentinelAssumption, CredsAreGrants DEF WriteFails, Goto, Raise, HasRT, Holds, ReplacementComing, CarriedTokens, WriteReady
<1>. QED
    BY <1>1, <1>2, <1>3, <1>4, <1>5, <1>6, <1>7

LEMMA CredsInvLoseReply ==
    ASSUME CredsInv, TypeInv', NEW c \in Clients, LoseReply(c)
    PROVE  CredsInv'
<1> USE DEF CredsInv, TypeInv, TypeOK, clientVars, setup, providerVars, loginVars
<1>1. NoneFromFuture'
    BY SentinelAssumption, CredsAreGrants DEF LoseReply, HasRT, Holds, NoneFromFuture
<1>2. NoneRevoked'
    BY SentinelAssumption, CredsAreGrants DEF LoseReply, HasRT, Holds, NoneRevoked
<1>3. WriteReady'
    BY SentinelAssumption, CredsAreGrants DEF LoseReply, WriteReady
<1>4. CarriedTokens'
    BY SentinelAssumption, CredsAreGrants DEF LoseReply, HasRT, Holds, Carries, CarriedTokens, WriteReady
<1>5. NoneUsedUnheld'
    BY SentinelAssumption, CredsAreGrants DEF LoseReply, NoneUsedUnheld
<1>6. ReplacementHeld'
    BY SentinelAssumption, CredsAreGrants DEF LoseReply, HasRT, Holds, Carries, ReplacementHeld, CarriedTokens, WriteReady
<1>7. ReplacementComing'
    BY SentinelAssumption, CredsAreGrants DEF LoseReply, HasRT, Holds, ReplacementComing, CarriedTokens, WriteReady
<1>. QED
    BY <1>1, <1>2, <1>3, <1>4, <1>5, <1>6, <1>7

LEMMA CredsInvCrash ==
    ASSUME CredsInv, TypeInv', NEW c \in Clients, Crash(c)
    PROVE  CredsInv'
<1> USE DEF CredsInv, TypeInv, TypeOK, clientVars, setup, providerVars, loginVars
<1>1. NoneFromFuture'
    BY SentinelAssumption, CredsAreGrants DEF Crash, HasRT, Holds, NoneFromFuture
<1>2. NoneRevoked'
    BY SentinelAssumption, CredsAreGrants DEF Crash, HasRT, Holds, NoneRevoked
<1>3. WriteReady'
    BY SentinelAssumption, CredsAreGrants DEF Crash, WriteReady
<1>4. CarriedTokens'
    BY SentinelAssumption, CredsAreGrants DEF Crash, HasRT, Holds, Carries, CarriedTokens, WriteReady
<1>5. NoneUsedUnheld'
    BY SentinelAssumption, CredsAreGrants DEF Crash, NoneUsedUnheld
<1>6. ReplacementHeld'
    BY SentinelAssumption, CredsAreGrants DEF Crash, HasRT, Holds, Carries, ReplacementHeld, CarriedTokens, WriteReady
<1>7. ReplacementComing'
    BY SentinelAssumption, CredsAreGrants DEF Crash, HasRT, Holds, ReplacementComing, CarriedTokens, WriteReady
<1>. QED
    BY <1>1, <1>2, <1>3, <1>4, <1>5, <1>6, <1>7

LEMMA CredsInvNext == CredsInv /\ [Next]_vars => CredsInv'
<1> SUFFICES ASSUME CredsInv, [Next]_vars PROVE CredsInv'
    OBVIOUS
<1>0. TypeInv /\ TypeInv'
    BY TypeInvNext DEF CredsInv
<1>1. ASSUME NEW c \in Clients,
             \/ CredentialsMissing(c) \/ LoginRefused(c) \/ LoginStart(c)
             \/ LoginAborted(c) \/ WaitSeesRequest(c) \/ WaitTimesOut(c)
             \/ RequestAccepted(c) \/ RequestRejected(c)
      PROVE  CredsInv'
    <2>1. UNCHANGED <<mem, reply, file, rotating, issued, validRT, consumer, faults>>
        BY <1>1
        DEF CredentialsMissing, LoginRefused, LoginStart, LoginAborted,
            WaitSeesRequest, WaitTimesOut, RequestAccepted, RequestRejected,
            providerVars, setup
    <2>2. \E to : /\ pc' = [pc EXCEPT ![c] = to]
                  /\ pc[c] \notin AnswerPCs /\ to \notin AnswerPCs
        BY <1>1
        DEF CredentialsMissing, LoginRefused, LoginStart, LoginAborted,
            WaitSeesRequest, WaitTimesOut, RequestAccepted, RequestRejected,
            Goto, Raise, AnswerPCs
    <2>3. \A d \in Clients : \/ pc'[d] = pc[d]
                             \/ pc[d] \notin AnswerPCs /\ pc'[d] \notin AnswerPCs
        BY <1>0, <2>2 DEF TypeInv, TypeOK
    <2>. QED
        BY <1>0, <2>1, <2>3, CredsInvElsewhere
<1>2. ASSUME NEW c \in Clients, AccessTokenCached(c) \/ AccessTokenExpired(c)
      PROVE  CredsInv'
    <2>1. /\ Readable(c) /\ pc[c] \in {"idle", "refresh"}
          /\ mem' = [mem EXCEPT ![c] = Loaded(c)]
          /\ UNCHANGED <<reply, file, rotating, issued, validRT, consumer, faults>>
        BY <1>2 DEF AccessTokenCached, AccessTokenExpired, Goto, providerVars, setup
    <2>2. pc'[c] \notin AnswerPCs /\ \A d \in Clients \ {c} : pc'[d] = pc[d]
        BY <1>0, <1>2
        DEF AccessTokenCached, AccessTokenExpired, Goto, AnswerPCs, TypeInv, TypeOK
    <2>. QED
        BY <1>0, <2>1, <2>2, CredsInvLoads
<1>3. ASSUME NEW c \in Clients, RefreshStart(c)
      PROVE  CredsInv'
    <2>1. /\ pc[c] = "refresh"
          /\ UNCHANGED <<reply, file, rotating, issued, validRT, consumer, faults>>
        BY <1>3 DEF RefreshStart, Goto, Raise, providerVars, setup
    <2>2. pc'[c] \notin AnswerPCs /\ \A d \in Clients \ {c} : pc'[d] = pc[d]
        BY <1>0, <1>3 DEF RefreshStart, Goto, Raise, AnswerPCs, TypeInv, TypeOK
    <2>3. CASE Readable(c)
        <3>1. mem' = [mem EXCEPT ![c] = Loaded(c)]
            BY <1>3, <2>3 DEF RefreshStart
        <3>. QED
            BY <1>0, <2>1, <2>2, <2>3, <3>1, CredsInvLoads
    <2>4. CASE ~Readable(c)
        <3>1. UNCHANGED mem
            BY <1>0, <1>3, <2>4 DEF RefreshStart, TypeInv, TypeOK
        <3>2. \A d \in Clients : \/ pc'[d] = pc[d]
                                 \/ pc[d] \notin AnswerPCs /\ pc'[d] \notin AnswerPCs
            BY <1>0, <2>1, <2>2 DEF TypeInv, TypeOK, AnswerPCs
        <3>. QED
            BY <1>0, <2>1, <3>1, <3>2, CredsInvElsewhere
    <2>. QED
        BY <2>3, <2>4
<1>4. ASSUME NEW c \in Clients,
             \/ DeleteCredsFile(c) \/ ProviderRefresh(c) \/ ProviderRefuses(c)
             \/ RefreshFailed(c) \/ RefreshSucceeded(c) \/ ProviderExchange(c)
             \/ ExchangeFailed(c) \/ ExchangeSucceeded(c) \/ WriteOpen(c)
             \/ WriteDone(c) \/ WriteFails(c) \/ LoseReply(c) \/ Crash(c)
      PROVE  CredsInv'
    BY <1>0, <1>4, CredsInvDeleteCredsFile, CredsInvProviderRefresh,
       CredsInvProviderRefuses, CredsInvRefreshFailed,
       CredsInvRefreshSucceeded, CredsInvProviderExchange,
       CredsInvExchangeFailed, CredsInvExchangeSucceeded, CredsInvWriteOpen,
       CredsInvWriteDone, CredsInvWriteFails, CredsInvLoseReply, CredsInvCrash
<1>5. CASE \/ \E s \in States, c \in Clients, code \in BOOLEAN : Callback(s, c, code)
           \/ TimePasses
           \/ UNCHANGED vars
    <2>1. UNCHANGED <<pc, mem, reply, file, rotating, issued, validRT, consumer, faults>>
        BY <1>5 DEF Callback, TimePasses, vars, clientVars, providerVars, setup
    <2>. QED
        BY <1>0, <2>1, CredsInvElsewhere
<1>. QED
    BY <1>1, <1>2, <1>3, <1>4, <1>5 DEF Next, Step

-----------------------------------------------------------------------------
(* Theorems                                                                *)

LEMMA CredsInvAlways == Spec => []CredsInv
BY InitCredsInv, CredsInvNext, PTL DEF Spec

LEMMA HeldRT ==
    ASSUME NEW x, x \in Creds
    PROVE  x.rt \in Tokens /\ HasRT(x, x.rt)
BY CredsAreGrants DEF HasRT, Creds

\* Unless a fault hit a call, a client never forgets the refresh token that
\* replaced the one it used up.
THEOREM RefreshTokensKept == Spec => []OwnRefreshTokenKept
<1>1. CredsInv => OwnRefreshTokenKept
    <2> SUFFICES ASSUME CredsInv, faults = 0, NEW c \in Clients,
                        mem[c] # None, mem[c].rt \notin validRT,
                        consumer[mem[c].rt] = c
                 PROVE  pc[c] = "refreshReply"
        BY DEF OwnRefreshTokenKept
    <2>1. mem[c] \in Creds
        BY DEF CredsInv, TypeInv, TypeOK
    <2>. QED
        BY <2>1, HeldRT DEF CredsInv, ReplacementHeld
<1>. QED
    BY <1>1, CredsInvAlways, PTL

\* Unless a fault hit a call, a dead token in the cache file is on its way to
\* being replaced.
THEOREM CacheFileStaysUsable == Spec => []CacheFileUsable
<1>1. CredsInv => CacheFileUsable
    <2> SUFFICES ASSUME CredsInv, faults = 0, file \in Creds, file.rt \notin validRT
                 PROVE  \E c \in Clients : /\ consumer[file.rt] = c
                                           /\ pc[c] \in {"refreshReply", "write"}
        BY DEF CacheFileUsable
    <2>. QED
        BY HeldRT DEF CredsInv, ReplacementComing
<1>. QED
    BY <1>1, CredsInvAlways, PTL

\* No write ever puts a refresh token in the cache file that the provider
\* refuses, whatever the faults.
THEOREM DeadTokensNotCached == Spec => NeverCachesDeadToken
<1>1. CredsInv /\ [Next]_vars => [file' \in Creds /\ file' # file => file'.rt \in validRT]_file
    <2> SUFFICES ASSUME CredsInv, Next, file' \in Creds, file' # file
                 PROVE  file'.rt \in validRT
        BY DEF vars
    <2>1. PICK c \in Clients : WriteDone(c)
        <3>1. file' # Torn /\ file' # None
            BY SentinelAssumption, CredsAreGrants
        <3>. QED
            BY ZenonT(60), <3>1
            DEF Next, Step, AccessTokenCached, AccessTokenExpired,
                CredentialsMissing, DeleteCredsFile, RefreshStart,
                ProviderRefresh, ProviderRefuses, RefreshFailed,
                RefreshSucceeded, LoginRefused, LoginStart, LoginAborted,
                WaitSeesRequest, WaitTimesOut, RequestAccepted,
                RequestRejected, ProviderExchange, ExchangeFailed,
                ExchangeSucceeded, WriteOpen, WriteFails, LoseReply, Crash,
                Callback, TimePasses
    <2>2. file' = mem[c] /\ pc[c] = "writing"
        BY <2>1, SentinelAssumption, CredsAreGrants DEF WriteDone, Goto
    <2>3. file'.rt \in Tokens /\ Carries(c, file'.rt)
        BY <2>2, HeldRT DEF Carries
    <2>. QED
        BY <2>3, CarriedValid
<1>. QED
    BY <1>1, CredsInvAlways, PTL DEF Spec, NeverCachesDeadToken
==============================================================================
