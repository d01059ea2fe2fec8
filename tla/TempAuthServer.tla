--------------------------- MODULE TempAuthServer ---------------------------
(***************************************************************************)
(* The temporary web server that catches the redirect at the end of an     *)
(* OAuth login (wg_utilities/api/temp_auth_server.py).  One server object  *)
(* per owner; the servers of all owners run on the same host, so they      *)
(* compete for the same ports.                                             *)
(*                                                                         *)
(* A redirect is represented by the `state` it carries back and whether it *)
(* also carries a `code` (it does not when the user refuses consent).      *)
(***************************************************************************)
EXTENDS Naturals

CONSTANTS
    Clients,     \* the owners of a server: the OAuth client objects
    MaxPort,     \* ports are 1..MaxPort (the code scans 5001..5020)
    MaxLogins,   \* bound: how many login links are ever handed to the user
    None         \* the absent value

Ports  == 1 .. MaxPort
States == 1 .. MaxLogins
Args   == [state : States, code : BOOLEAN]

ASSUME PortAssumption   == MaxPort \in Nat
ASSUME StateAssumption  == MaxLogins \in Nat
ASSUME AbsentAssumption == None \notin Ports \cup States \cup Args \cup Clients

VARIABLES
    bound,        \* [Clients -> Ports or None]: port of the live server thread
    requestArgs   \* [Clients -> Args or None]: _request_args["/get_auth_code"]

serverVars == <<bound, requestArgs>>

ServerTypeOK ==
    /\ bound \in [Clients -> Ports \cup {None}]
    /\ requestArgs \in [Clients -> Args \cup {None}]

ServerInit ==
    /\ bound = [c \in Clients |-> None]
    /\ requestArgs = [c \in Clients |-> None]

IsRunning(c) == bound[c] # None

FreePorts == {p \in Ports : \A c \in Clients : bound[c] # p}

\* ServerThread.__init__ tries the ports in order and keeps the first it can
\* bind; with none free it raises OSError, so there is no such p.
FirstFree(p) == p \in FreePorts /\ \A q \in FreePorts : p <= q

\* start_server leaves a running server (and its port) alone.
StartServer(c, p) ==
    /\ IF IsRunning(c) THEN p = bound[c] ELSE FirstFree(p)
    /\ bound' = [bound EXCEPT ![c] = p]
    /\ UNCHANGED requestArgs

\* Mutant: the thread is told to stop and never joined.
LeaveServer(c) == UNCHANGED serverVars

\* stop_server: the thread ends and its port is free; what the endpoint has
\* recorded stays in the object.
StopServer(c) ==
    /\ bound' = [bound EXCEPT ![c] = None]
    /\ UNCHANGED requestArgs

\* The endpoint: whatever request reaches the port replaces what was recorded.
GetAuthCode(c, a) ==
    /\ IsRunning(c)
    /\ requestArgs' = [requestArgs EXCEPT ![c] = a]
    /\ UNCHANGED bound

\* The process that owns the server dies.
ServerLost(c) ==
    /\ bound' = [bound EXCEPT ![c] = None]
    /\ requestArgs' = [requestArgs EXCEPT ![c] = None]
=============================================================================
