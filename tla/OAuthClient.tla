----------------------------- MODULE OAuthClient -----------------------------
(***************************************************************************)
(* Life cycle of the credentials of an OAuth client                        *)
(* (wg_utilities/clients/oauth_client.py): first-time login through a      *)
(* TempAuthServer, refresh of the access token, and the cache file.        *)
(*                                                                         *)
(* The clients are objects of different processes that were built with the *)
(* same client ID, hence share one cache file; each is driven by one       *)
(* thread.  The OAuth provider, the user and the file system are the       *)
(* environment.  A token is the number of the grant that issued it.        *)
(***************************************************************************)
EXTENDS TempAuthServer, FiniteSets

CONSTANTS
    MayRefuse,      \* clients that may be built with
                    \* use_existing_credentials_only=True
    EagerLoad,      \* clients built with creds_cache_path: __init__ reads it
    MaxIssue,       \* bound: grants the provider ever makes
    MaxCallbacks,   \* bound: redirects that ever reach a server
    MaxUpsets,      \* bound: faults (crashes, lost replies and failed writes)
                    \* plus calls of delete_creds_file
    Torn,           \* contents that are no credentials: before the write is
                    \* done, and when two of them are mixed
    Failed          \* an error response, or no response at all

Tokens == 1 .. MaxIssue
Creds  == [at : Tokens, rt : Tokens]
Grants == [at : Tokens, rt : Tokens \cup {None}]

ASSUME RoleAssumption  == MayRefuse \subseteq Clients /\ EagerLoad \subseteq Clients
ASSUME BoundAssumption == /\ MaxIssue \in Nat \ {0}
                          /\ MaxCallbacks \in Nat
                          /\ MaxUpsets \in Nat
ASSUME SentinelAssumption ==
    /\ None \notin Grants \cup Tokens
    /\ Torn \notin Grants \cup {None}
    /\ Failed \notin Grants \cup {None}

VARIABLES
    \* the client objects
    existingOnly, \* clients with use_existing_credentials_only=True
    pc,          \* where the client's thread is
    mem,         \* [Clients -> Creds or None]: _credentials
    stateToken,  \* [Clients -> States or None]: state_token of the login
    reply,       \* [Clients -> Grants, None or Failed]: the provider's answer
    \* shared by the clients
    file,        \* Creds, None (no such file) or Torn
    \* the provider and the user
    rotating,    \* does a refresh replace the refresh token (Monzo)?
    issued,      \* number of grants made
    expired,     \* access tokens 1..expired are within the expiry threshold
    validRT,     \* refresh tokens the provider accepts
    logins,      \* number of login links handed out
    link,        \* [States -> Ports or None]: port in a link's redirect_uri
    \* history and bounds
    consumer,    \* [Tokens -> Clients or None]: who used up a refresh token
    exchanges,   \* [States -> Nat]: exchanges attempted of a link's code
    answered,    \* clients whose endpoint got a request since the wait began
    callbacks, faults, deletes

clientVars   == <<pc, mem, stateToken, reply>>
setup        == <<existingOnly, rotating>>
providerVars == <<setup, issued, expired, validRT, consumer>>
loginVars    == <<logins, link, exchanges, answered, callbacks>>
vars == <<serverVars, clientVars, file, providerVars, loginVars, faults, deletes>>

PCs == {"idle", "refresh", "refreshSent", "refreshReply",
        "login", "wait", "stop", "codeSent", "codeReply", "write", "writing"}

\* The types of the variables; a client's credentials are complete (both
\* tokens) whatever combination of answers they were put together from.
TypeOK ==
    /\ ServerTypeOK
    /\ existingOnly \in SUBSET Clients
    /\ pc \in [Clients -> PCs]
    /\ mem \in [Clients -> Creds \cup {None}]
    /\ stateToken \in [Clients -> States \cup {None}]
    /\ reply \in [Clients -> Grants \cup {None, Failed}]
    /\ file \in Creds \cup {None, Torn}
    /\ rotating \in BOOLEAN
    /\ issued \in Tokens
    /\ expired \in 0 .. MaxIssue
    /\ validRT \in SUBSET Tokens
    /\ logins \in 0 .. MaxLogins
    /\ link \in [States -> Ports \cup {None}]
    /\ consumer \in [Tokens -> Clients \cup {None}]
    /\ exchanges \in [States -> Nat]
    /\ answered \in SUBSET Clients
    /\ callbacks \in 0 .. MaxCallbacks
    /\ faults \in 0 .. MaxUpsets
    /\ deletes \in 0 .. MaxUpsets

\* The credentials an earlier life of the program obtained and cached.
OldCreds == [at |-> 1, rt |-> 1]

Init ==
    /\ ServerInit
    /\ file \in {None, OldCreds}
    /\ existingOnly \in SUBSET MayRefuse
    /\ pc = [c \in Clients |-> "idle"]
    /\ mem = [c \in Clients |-> IF c \in EagerLoad THEN file ELSE None]
    /\ stateToken = [c \in Clients |-> None]
    /\ reply = [c \in Clients |-> None]
    /\ rotating \in BOOLEAN
    /\ issued = 1 /\ expired = 0 /\ validRT = {1}
    /\ logins = 0
    /\ link = [s \in States |-> None]
    /\ consumer = [t \in Tokens |-> None]
    /\ exchanges = [s \in States |-> 0]
    /\ answered = {}
    /\ callbacks = 0 /\ faults = 0 /\ deletes = 0

-----------------------------------------------------------------------------
Goto(c, from, to) ==
    /\ pc[c] = from
    /\ pc' = [pc EXCEPT ![c] = to]

\* The state token is a local variable of run_first_time_login.
EndLogin(c) ==
    /\ stateToken' = [stateToken EXCEPT ![c] = None]
    /\ answered' = answered \ {c}

\* An exception leaves the call that client c is in.
Raise(c, from) == Goto(c, from, "idle")

\* `hasattr(self, "_credentials") or self._load_local_credentials()`: the
\* credentials held, else those in the file, else None.  An unreadable file
\* makes model_validate_json raise.
Readable(c) == mem[c] # None \/ file # Torn
Loaded(c)   == IF mem[c] # None THEN mem[c] ELSE file

HasExpired(creds) == creds # None => creds.at <= expired

\* Mutants of UpdateAccessToken: the new refresh token is dropped; an absent
\* one is stored.
UpdateAccessTokenOnly(creds, grant) == [at |-> grant.at, rt |-> creds.rt]
UpdateWithAbsentToken(creds, grant) == [at |-> grant.at, rt |-> grant.rt]

\* update_access_token: the refresh token changes only if one was returned.
UpdateAccessToken(creds, grant) ==
    [at |-> grant.at, rt |-> IF grant.rt = None THEN creds.rt ELSE grant.rt]

\* The access_token property, read by request_headers for every API request.
AccessTokenCached(c) ==
    /\ pc[c] = "idle" /\ Readable(c)
    /\ ~HasExpired(Loaded(c))
    /\ mem' = [mem EXCEPT ![c] = Loaded(c)]
    /\ UNCHANGED <<serverVars, pc, stateToken, reply, file, providerVars,
                   loginVars, faults, deletes>>

AccessTokenExpired(c) ==
    /\ Readable(c)
    /\ HasExpired(Loaded(c))
    /\ Goto(c, "idle", "refresh")
    /\ mem' = [mem EXCEPT ![c] = Loaded(c)]
    /\ UNCHANGED <<serverVars, stateToken, reply, file, providerVars, loginVars,
                   faults, deletes>>

\* The credentials property (client_id, client_secret, refresh_token read it)
\* of a client with neither credentials nor file goes straight to the login.
CredentialsMissing(c) ==
    /\ mem[c] = None /\ file = None
    /\ Goto(c, "idle", "login")
    /\ UNCHANGED <<serverVars, mem, stateToken, reply, file, providerVars,
                   loginVars, faults, deletes>>

\* delete_creds_file removes the file and keeps the object's credentials.
DeleteCredsFile(c) ==
    /\ pc[c] = "idle" /\ faults + deletes < MaxUpsets /\ file # None
    /\ file' = None
    /\ deletes' = deletes + 1
    /\ UNCHANGED <<serverVars, clientVars, providerVars, loginVars, faults>>

-----------------------------------------------------------------------------
(* refresh_access_token                                                    *)

\* It looks for the file a second time: another client may have written it.
RefreshStart(c) ==
    /\ \/ Readable(c) /\ Loaded(c) = None /\ Goto(c, "refresh", "login")
       \/ Readable(c) /\ Loaded(c) # None /\ Goto(c, "refresh", "refreshSent")
       \/ ~Readable(c) /\ Raise(c, "refresh")
    /\ mem' = [mem EXCEPT ![c] = IF Readable(c) THEN Loaded(c) ELSE @]
    /\ UNCHANGED <<serverVars, stateToken, reply, file, providerVars, loginVars,
                   faults, deletes>>

\* The provider accepts the refresh token the client read when it sent the
\* request (its credentials have not changed since).
ProviderRefresh(c) ==
    LET rt == mem[c].rt
        n  == issued + 1
    IN  /\ Goto(c, "refreshSent", "refreshReply")
        /\ rt \in validRT /\ issued < MaxIssue
        /\ issued' = n
        /\ IF rotating
           THEN /\ validRT' = (validRT \ {rt}) \cup {n}
                /\ consumer' = [consumer EXCEPT ![rt] = c]
           ELSE UNCHANGED <<validRT, consumer>>
        /\ reply' = [reply EXCEPT
                       ![c] = [at |-> n, rt |-> IF rotating THEN n ELSE None]]
        /\ UNCHANGED <<serverVars, mem, stateToken, file, setup, expired,
                       loginVars, faults, deletes>>

\* It refuses an unknown token, or fails before it does anything.
ProviderRefuses(c) ==
    /\ \/ Goto(c, "refreshSent", "refreshReply") /\ UNCHANGED exchanges
       \/ /\ Goto(c, "codeSent", "codeReply")
          /\ exchanges' = [exchanges EXCEPT ![requestArgs[c].state] = @ + 1]
    /\ reply' = [reply EXCEPT ![c] = Failed]
    /\ UNCHANGED <<serverVars, mem, stateToken, file, providerVars, logins,
                   link, answered, callbacks, faults, deletes>>

\* post_json_response raises on an error response and on a lost reply.
RefreshFailed(c) ==
    /\ reply[c] = Failed
    /\ Raise(c, "refreshReply")
    /\ reply' = [reply EXCEPT ![c] = None]
    /\ UNCHANGED <<serverVars, mem, stateToken, file, providerVars, loginVars,
                   faults, deletes>>

\* Mutant: the refreshed credentials are not saved.
RefreshNotSaved(c) ==
    /\ reply[c] \in Grants
    /\ Raise(c, "refreshReply")
    /\ mem' = [mem EXCEPT ![c] = UpdateAccessToken(@, reply[c])]
    /\ reply' = [reply EXCEPT ![c] = None]
    /\ UNCHANGED <<serverVars, stateToken, file, providerVars, loginVars,
                   faults, deletes>>

RefreshSucceeded(c) ==
    /\ reply[c] \in Grants
    /\ Goto(c, "refreshReply", "write")
    /\ mem' = [mem EXCEPT ![c] = UpdateAccessToken(@, reply[c])]
    /\ reply' = [reply EXCEPT ![c] = None]
    /\ UNCHANGED <<serverVars, stateToken, file, providerVars, loginVars,
                   faults, deletes>>

-----------------------------------------------------------------------------
(* run_first_time_login                                                    *)

LoginRefused(c) ==
    /\ c \in existingOnly
    /\ Raise(c, "login")
    /\ UNCHANGED <<serverVars, mem, stateToken, reply, file, providerVars,
                   loginVars, faults, deletes>>

\* Up to the first look at the recorded request in wait_for_request.
LoginStart(c) ==
    /\ c \notin existingOnly /\ logins < MaxLogins
    /\ Goto(c, "login", "wait")
    /\ logins' = logins + 1
    /\ stateToken' = [stateToken EXCEPT ![c] = logins + 1]
    /\ \E p \in Ports : /\ StartServer(c, p)
                        /\ link' = [link EXCEPT ![logins + 1] = p]
    /\ UNCHANGED <<mem, reply, file, providerVars, exchanges, answered, callbacks,
                   faults, deletes>>

\* No port is free, or sending the link to the user raises: in the latter
\* case the server has been started and stays up.
LoginAborted(c) ==
    /\ c \notin existingOnly
    /\ Raise(c, "login")
    /\ IF IsRunning(c) \/ FreePorts # {}
       THEN \E p \in Ports : StartServer(c, p)
       ELSE UNCHANGED serverVars
    /\ UNCHANGED <<mem, stateToken, reply, file, providerVars, loginVars,
                   faults, deletes>>

\* The user follows a link, now or long after it was sent, once or again, and
\* the browser is redirected to the port named in it, whoever listens there.
Callback(s, c, code) ==
    /\ s <= logins /\ callbacks < MaxCallbacks
    /\ link[s] # None /\ link[s] = bound[c]
    /\ GetAuthCode(c, [state |-> s, code |-> code])
    /\ answered' = IF pc[c] \in {"wait", "stop"} THEN answered \cup {c}
                                              ELSE answered
    /\ callbacks' = callbacks + 1
    /\ UNCHANGED <<clientVars, file, providerVars, logins, link, exchanges,
                   faults, deletes>>

\* wait_for_request leaves its loop: a request is recorded ...
WaitSeesRequest(c) ==
    /\ requestArgs[c] # None
    /\ Goto(c, "wait", "stop")
    /\ UNCHANGED <<serverVars, mem, stateToken, reply, file, providerVars,
                   loginVars, faults, deletes>>

\* Mutant: the time limit is looked at only once a request has come in.
WaitTimesOutLate(c) ==
    /\ requestArgs[c] # None
    /\ Raise(c, "wait")
    /\ EndLogin(c)
    /\ UNCHANGED <<serverVars, mem, reply, file, providerVars, logins, link,
                   exchanges, callbacks, faults, deletes>>

\* ... or max_wait is over, which counts even if a request came in meanwhile.
\* The server is left running.
WaitTimesOut(c) ==
    /\ Raise(c, "wait")
    /\ EndLogin(c)
    /\ UNCHANGED <<serverVars, mem, reply, file, providerVars,
                   logins, link,
                   exchanges, callbacks, faults, deletes>>

\* Mutant: the state that came back is not compared.
AnyRequest(c) == requestArgs[c].code

\* The server is stopped, then what is recorded by now is read: another request
\* may have replaced the one the loop saw.  Its state must be this login's, and
\* it must have a code.
OwnRequest(c) ==
    /\ requestArgs[c].state = stateToken[c]
    /\ requestArgs[c].code

RequestAccepted(c) ==
    /\ Goto(c, "stop", "codeSent")
    /\ OwnRequest(c)
    /\ StopServer(c)
    /\ UNCHANGED <<mem, stateToken, reply, file, providerVars, loginVars,
                   faults, deletes>>

RequestRejected(c) ==
    /\ Raise(c, "stop")
    /\ ~OwnRequest(c)
    /\ StopServer(c)
    /\ EndLogin(c)
    /\ UNCHANGED <<mem, reply, file, providerVars, logins, link,
                   exchanges, callbacks, faults, deletes>>

\* The code in the recorded request is the one issued for its state.
ProviderExchange(c) ==
    LET s == requestArgs[c].state
        n == issued + 1
    IN  /\ Goto(c, "codeSent", "codeReply")
        /\ exchanges[s] = 0 /\ issued < MaxIssue
        /\ exchanges' = [exchanges EXCEPT ![s] = @ + 1]
        /\ issued' = n
        /\ validRT' = validRT \cup {n}
        /\ reply' = [reply EXCEPT ![c] = [at |-> n, rt |-> n]]
        /\ UNCHANGED <<serverVars, mem, stateToken, file, setup, expired,
                       consumer, logins, link, answered, callbacks, faults,
                       deletes>>

ExchangeFailed(c) ==
    /\ reply[c] = Failed
    /\ Raise(c, "codeReply")
    /\ reply' = [reply EXCEPT ![c] = None]
    /\ EndLogin(c)
    /\ UNCHANGED <<serverVars, mem, file, providerVars, logins, link,
                   exchanges, callbacks, faults, deletes>>

\* parse_first_time_login and the first half of the credentials setter.
ExchangeSucceeded(c) ==
    /\ reply[c] \in Grants
    /\ Goto(c, "codeReply", "write")
    /\ mem' = [mem EXCEPT ![c] = reply[c]]
    /\ reply' = [reply EXCEPT ![c] = None]
    /\ EndLogin(c)
    /\ UNCHANGED <<serverVars, file, providerVars, logins, link,
                   exchanges, callbacks, faults, deletes>>

-----------------------------------------------------------------------------
(* The cache file: Path.write_text truncates, then writes.                 *)

WriteOpen(c) ==
    /\ Goto(c, "write", "writing")
    /\ file' = Torn
    /\ UNCHANGED <<serverVars, mem, stateToken, reply, providerVars, loginVars,
                   faults, deletes>>

\* If another client wrote, is writing or deleted the file since it was opened, then a
\* longer content's end may be left, or this one is in a file that is no longer there.
WriteDone(c) ==
    /\ Goto(c, "writing", "idle")
    /\ \/ file # None /\ file' = mem[c]
       \/ /\ file # Torn \/ \E d \in Clients \ {c} : pc[d] = "writing"
          /\ file' \in IF file = None THEN {None} ELSE {file, Torn}
    /\ UNCHANGED <<serverVars, mem, stateToken, reply, providerVars, loginVars,
                   faults, deletes>>

-----------------------------------------------------------------------------
(* Faults and the passage of time                                          *)

WriteFails(c) ==
    /\ faults + deletes < MaxUpsets
    /\ Raise(c, "write")
    /\ faults' = faults + 1
    /\ UNCHANGED <<serverVars, mem, stateToken, reply, file, providerVars,
                   loginVars, deletes>>

LoseReply(c) ==
    /\ faults + deletes < MaxUpsets
    /\ pc[c] \in {"refreshReply", "codeReply"} /\ reply[c] \in Grants
    /\ reply' = [reply EXCEPT ![c] = Failed]
    /\ faults' = faults + 1
    /\ UNCHANGED <<serverVars, pc, mem, stateToken, file, providerVars,
                   loginVars, deletes>>

\* The process dies and the program is started again: a new client object.
Crash(c) ==
    /\ faults + deletes < MaxUpsets
    /\ faults' = faults + 1
    /\ ServerLost(c)
    /\ pc' = [pc EXCEPT ![c] = "idle"]
    /\ mem' = [mem EXCEPT
                 ![c] = IF c \in EagerLoad /\ file # Torn THEN file ELSE None]
    /\ reply' = [reply EXCEPT ![c] = None]
    /\ EndLogin(c)
    /\ UNCHANGED <<file, providerVars, logins, link, exchanges, callbacks, deletes>>

\* Tokens live equally long, so they come within the threshold in order.
TimePasses ==
    /\ expired < issued
    /\ expired' = issued
    /\ UNCHANGED <<serverVars, clientVars, file, setup, issued, validRT,
                   consumer, loginVars, faults, deletes>>

-----------------------------------------------------------------------------
\* What the client's thread does once a call is under way, and the answers it
\* blocks on.
Step(c) ==
    \/ RefreshStart(c) \/ ProviderRefresh(c) \/ ProviderRefuses(c)
    \/ RefreshFailed(c) \/ RefreshSucceeded(c)
    \/ LoginRefused(c) \/ LoginStart(c) \/ LoginAborted(c)
    \/ WaitSeesRequest(c) \/ WaitTimesOut(c)
    \/ RequestAccepted(c) \/ RequestRejected(c)
    \/ ProviderExchange(c) \/ ExchangeFailed(c) \/ ExchangeSucceeded(c)
    \/ WriteOpen(c) \/ WriteDone(c)

Next ==
    \/ \E c \in Clients :
          \/ AccessTokenCached(c) \/ AccessTokenExpired(c)
          \/ CredentialsMissing(c) \/ DeleteCredsFile(c)
          \/ Step(c)
          \/ WriteFails(c) \/ LoseReply(c) \/ Crash(c)
    \/ \E s \in States, c \in Clients, code \in BOOLEAN : Callback(s, c, code)
    \/ TimePasses

\* A thread is never stopped for good, and a request is answered or fails.
Fairness == \A c \in Clients : WF_vars(Step(c))

Spec     == Init /\ [][Next]_vars
FairSpec == Spec /\ Fairness
-----------------------------------------------------------------------------
(* Properties                                                              *)

\* The code of a login link is exchanged once at most, and by the login that
\* sent the link: a second tab, a late redirect to a port that now belongs to
\* another client, or a request left over from a failed login never gets its
\* code sent to the provider (the state comparison of run_first_time_login).
OwnCodeOnce ==
    /\ \A s \in States : exchanges[s] <= 1
    /\ \A c \in Clients : pc[c] \in {"codeSent", "codeReply"} =>
          requestArgs[c] # None /\ requestArgs[c].state = stateToken[c]

\* Unless a fault hit a call, a client that holds a refresh token the provider
\* no longer accepts lost it to another client: it never forgets the
\* replacement it got itself (update_access_token, the credentials setter).
OwnRefreshTokenKept ==
    faults = 0 =>
        \A c \in Clients :
            mem[c] # None /\ mem[c].rt \notin validRT =>
                \/ consumer[mem[c].rt] # c
                \/ pc[c] = "refreshReply"

\* Unless a fault hit a call, the cache file never holds a refresh token that no longer
\* works, except while the client that has used it up is on its way to replace it: a
\* program started later that can read the file goes on without a login.  That it can
\* read it is not said: two writes that overlap may leave what is no JSON.
CacheFileUsable ==
    faults = 0 /\ file \in Creds /\ file.rt \notin validRT =>
        \E c \in Clients : /\ consumer[file.rt] = c
                           /\ pc[c] \in {"refreshReply", "write"}

\* Whatever the interleaving and the faults, a write to the cache file never
\* puts a refresh token there that the provider refuses.
NeverCachesDeadToken ==
    [][file' \in Creds /\ file' # file => file'.rt \in validRT]_file

\* Two clients never listen on one port, and a client whose login succeeded
\* far enough to have credentials to write no longer listens at all.
ServerReleased ==
    \A c \in Clients :
        /\ pc[c] \in {"codeSent", "codeReply"} => ~IsRunning(c)
        /\ \A d \in Clients : IsRunning(c) /\ bound[c] = bound[d] => c = d

\* Every call returns or raises: a login does not wait for the user for ever.
CallsEnd == \A c \in Clients : pc[c] # "idle" ~> pc[c] = "idle"

\* wait_for_request returns the arguments of a request that came in while it
\* was waiting ("Wait for a request to come into the server").
WaitReturnsNewRequest ==
    \A c \in Clients : pc[c] = "stop" => c \in answered
=============================================================================
