--------------------------- MODULE YamahaListener ---------------------------
(***************************************************************************)
(* The Yamaha YAS-209 soundbar client                                      *)
(* (wg_utilities/devices/yamaha_yas_209/yamaha_yas_209.py): the listener   *)
(* threads that subscribe to the soundbar's events, the local copies of    *)
(* its state and volume, and the commands of the application.              *)
(* The current track is left out: it is set by the events that set the     *)
(* state, and fetched at the first read like the volume.                   *)
(*                                                                         *)
(* One application thread calls the client; stop_listening may also be     *)
(* called by a callback, hence at any time.  The soundbar, its owner's     *)
(* remote control and the network are the environment.                     *)
(***************************************************************************)
EXTENDS Naturals, Sequences, FiniteSets

CONSTANTS
    PlayStates,   \* transport states: members of Yas209State
    Actions,      \* those set_state has an action for (play, pause, stop)
    Volumes,      \* volume levels, in hundredths
    MaxWorkers,   \* bound: listener threads ever started
    MaxIncidents, \* bound: commands, uses of the remote control, calls of
                  \* stop_listening, failing calls, lost events, dying threads
    Unset,        \* the attribute does not exist yet
    None

Workers  == 1 .. MaxWorkers
Services == {"AVT", "RC"}
Attrs    == {"state", "volume"}

ASSUME ActionAssumption == Actions \subseteq PlayStates
ASSUME VolumeAssumption == Volumes \subseteq 0 .. 100
\* The absence of an attribute, or of a call, is not taken for one.
ASSUME UnsetAssumption  == Unset \notin PlayStates \cup 0 .. 100
ASSUME NoneAssumption   ==
    None \notin [op : {"get", "set"}, attr : Attrs, value : PlayStates \cup 0 .. 100]
ASSUME YamahaBounds     == MaxWorkers \in Nat /\ MaxIncidents \in Nat

VARIABLES
    listening,    \* _listening
    caller,       \* "idle", "listen" (waiting in it) or "call" (for a reply)
    awaited,      \* the listener thread that `listen` waits for
    call,         \* the service action under way, or None
    local,        \* _state and _volume_level
    worker,       \* [Workers -> where the listener thread is]
    todo,         \* [Workers -> services its loop still has to try]
    subscribed,   \* [Workers -> SUBSET Services]
    failed,       \* [Workers -> SUBSET Services]: failed_subscriptions
    dev,          \* what the soundbar really does
    events,       \* [Workers -> [Services -> queue of the values on the way]]
    \* history and bounds
    excused,      \* attributes the soundbar was never told, or lost an event of
    stoppedInListen,
    incidents

callerVars == <<caller, awaited, call>>
workerVars == <<worker, todo, subscribed, failed>>
history    == <<excused, stoppedInListen>>
vars == <<listening, callerVars, local, workerVars, dev, events, history, incidents>>

Device == [state : PlayStates, volume : Volumes]
Value(a)   == IF a = "state" THEN PlayStates ELSE Volumes
AttrOf(s)  == IF s = "AVT" THEN "state" ELSE "volume"
Calls == [op : {"get", "set"}, attr : Attrs, value : PlayStates \cup 0 .. 100]

\* What an attribute can become: a volume asked for may be one below a level of
\* the application.
Real(a) == IF a = "state" THEN PlayStates ELSE 0 .. 100

Alive(w) == worker[w] \in {"subscribing", "looping", "retrying"}
Loops(w) == worker[w] \in {"looping", "retrying"}

\* Types; one service is not subscribed to and on the list of failures at a
\* time, and what `listen` waits for is a thread that was started.
TypeOK ==
    /\ listening \in BOOLEAN
    /\ caller \in {"idle", "listen", "call"}
    /\ awaited \in Workers \cup {None}
    /\ call \in Calls \cup {None}
    /\ \A a \in Attrs : local[a] \in Real(a) \cup {Unset}
    /\ worker \in [Workers -> {"off", "subscribing", "looping", "retrying",
                               "ended", "failed"}]
    /\ todo \in [Workers -> SUBSET Services]
    /\ subscribed \in [Workers -> SUBSET Services]
    /\ failed \in [Workers -> SUBSET Services]
    /\ dev \in [state : PlayStates, volume : 0 .. 100]
    /\ \A w \in Workers, s \in Services :
          events[w][s] \in Seq(Real(AttrOf(s)))
    /\ excused \in SUBSET Attrs
    /\ stoppedInListen \in BOOLEAN
    /\ incidents \in 0 .. MaxIncidents
    /\ caller = "call" => call # None
    /\ caller = "listen" => awaited \in Workers /\ worker[awaited] # "off"

Init ==
    /\ listening = FALSE
    /\ caller = "idle" /\ awaited = None /\ call = None
    /\ local = [a \in Attrs |-> Unset]
    /\ worker = [w \in Workers |-> "off"]
    /\ todo = [w \in Workers |-> {}]
    /\ subscribed = [w \in Workers |-> {}]
    /\ failed = [w \in Workers |-> {}]
    /\ dev \in Device
    /\ events = [w \in Workers |-> [s \in Services |-> <<>>]]
    /\ excused = {} /\ stoppedInListen = FALSE
    /\ incidents = 0

Incident == incidents < MaxIncidents /\ incidents' = incidents + 1

-----------------------------------------------------------------------------
(* The soundbar                                                            *)

\* Every subscriber is sent the changed attribute of a service.
Changed(s, new) == new[AttrOf(s)] # dev[AttrOf(s)]

Becomes(new) ==
    /\ dev' = new
    /\ events' = [w \in Workers |-> [s \in Services |->
                    IF s \in subscribed[w] /\ Alive(w) /\ Changed(s, new)
                    THEN Append(events[w][s], new[AttrOf(s)]) ELSE events[w][s]]]

\* The remote control, or the end of what was played.
DeviceChanges(a, v) ==
    /\ Incident /\ v # dev[a]
    /\ Becomes([dev EXCEPT ![a] = v])
    /\ UNCHANGED <<listening, callerVars, local, workerVars, history>>

-----------------------------------------------------------------------------
(* Commands                                                                *)

Request(op, a, v) == call' = [op |-> op, attr |-> a, value |-> v]

Send(op, a, v) ==
    /\ caller = "idle" /\ Incident
    /\ caller' = "call"
    /\ Request(op, a, v)
    /\ UNCHANGED <<listening, awaited, workerVars, dev, events, stoppedInListen>>

\* play, pause, stop and play_pause.
Command(v) ==
    /\ v \in Actions
    /\ Send("set", "state", v)
    /\ UNCHANGED <<local, excused>>

\* set_state stores the state, then calls the method for it, if there is one.
SetState(v) ==
    /\ v \in Actions
    /\ Send("set", "state", v)
    /\ local' = [local EXCEPT !.state = v]
    /\ UNCHANGED excused

SetStateUnsent(v) ==
    /\ caller = "idle" /\ v \notin Actions /\ Incident
    /\ local' = [local EXCEPT !.state = v]
    /\ excused' = excused \cup {"state"}
    /\ UNCHANGED <<listening, callerVars, workerVars, dev, events,
                   stoppedInListen>>

\* Mutant: rounded up instead of down.
DesiredVolumeUp(v) == v + 1

\* int(level * 100) for a level in hundredths: the binary product of these
\* three is below the integer.
DesiredVolume(v) == IF v \in {29, 57, 58} THEN v - 1 ELSE v

\* set_volume_level, volume_up and volume_down (which read volume_level first).
SetVolume(v) ==
    /\ Send("set", "volume", DesiredVolume(v))
    /\ local' = [local EXCEPT !.volume = v]
    /\ UNCHANGED excused

\* The first read of volume_level (or current_track).
Fetch ==
    /\ local.volume = Unset
    /\ Send("get", "volume", dev.volume)
    /\ UNCHANGED <<local, excused>>

\* The soundbar answers; a value is read now and returned later.
DeviceExecutes ==
    /\ caller = "call" /\ call.op = "set"
    /\ caller' = "idle" /\ call' = None
    /\ Becomes([dev EXCEPT ![call.attr] = call.value])
    /\ UNCHANGED <<listening, awaited, local, workerVars, history, incidents>>

\* The attribute is assigned without another look: an event handled meanwhile
\* is overwritten.
FetchReturns ==
    /\ caller = "call" /\ call.op = "get"
    /\ caller' = "idle" /\ call' = None
    /\ local' = [local EXCEPT ![call.attr] = call.value]
    /\ excused' = IF local[call.attr] = Unset THEN excused
                                              ELSE excused \cup {call.attr}
    /\ UNCHANGED <<listening, awaited, workerVars, dev, events,
                   stoppedInListen, incidents>>

\* The exception leaves the call, and what was stored before stays; the
\* soundbar may have done its part.
CallFails ==
    /\ caller = "call" /\ Incident
    /\ caller' = "idle" /\ call' = None
    /\ excused' = excused \cup {call.attr}
    /\ \/ call.op = "set" /\ Becomes([dev EXCEPT ![call.attr] = call.value])
       \/ UNCHANGED <<dev, events>>
    /\ UNCHANGED <<listening, awaited, local, workerVars, stoppedInListen>>

-----------------------------------------------------------------------------
(* listen and stop_listening                                               *)

\* While listening, `listen` returns at once and changes nothing.
Listen(w) ==
    /\ caller = "idle" /\ ~listening
    /\ \A x \in Workers : worker[x] = "off" <=> w <= x
    /\ caller' = "listen" /\ awaited' = w
    /\ worker' = [worker EXCEPT ![w] = "subscribing"]
    /\ todo' = [todo EXCEPT ![w] = Services]
    /\ stoppedInListen' = FALSE
    /\ UNCHANGED <<listening, call, local, subscribed, failed, dev, events,
                   excused, incidents>>

\* Mutant: the thread's exception is not looked at.
ListenReturnsListening ==
    /\ caller = "listen" /\ listening
    /\ caller' = "idle" /\ awaited' = None
    /\ UNCHANGED <<listening, call, local, workerVars, dev, events, history,
                   incidents>>

\* It returns, or raises the exception that ended the thread.
ListenReturns ==
    /\ caller = "listen"
    /\ listening \/ worker[awaited] = "failed"
    /\ caller' = "idle" /\ awaited' = None
    /\ UNCHANGED <<listening, call, local, workerVars, dev, events, history,
                   incidents>>

StopListening ==
    /\ listening /\ Incident
    /\ listening' = FALSE
    /\ stoppedInListen' = (stoppedInListen \/ caller = "listen")
    /\ UNCHANGED <<callerVars, local, workerVars, dev, events, excused>>

-----------------------------------------------------------------------------
(* The listener thread                                                     *)

\* The services are tried in the (arbitrary, but fixed) order of the device.
First(w) == CHOOSE s \in todo[w] : TRUE

Try(w, s, phase) ==
    /\ worker[w] = phase /\ todo[w] # {} /\ s = First(w)
    /\ todo' = [todo EXCEPT ![w] = @ \ {s}]
    /\ UNCHANGED <<listening, callerVars, local, worker, dev, history,
                   incidents>>

\* A new subscription is sent the present values first.
Subscribed(w, s) ==
    /\ subscribed' = [subscribed EXCEPT ![w] = @ \cup {s}]
    /\ events' = [events EXCEPT ![w][s] = Append(@, dev[AttrOf(s)])]
    /\ UNCHANGED failed

Subscribe(w, s) == Try(w, s, "subscribing") /\ Subscribed(w, s)

\* Only UpnpCommunicationError is caught.
SubscribeFails(w, s) ==
    /\ Try(w, s, "subscribing")
    /\ failed' = [failed EXCEPT ![w] = @ \cup {s}]
    /\ UNCHANGED <<subscribed, events>>

\* _listening is set, whatever it was set to meanwhile.
StartLoop(w) ==
    /\ worker[w] = "subscribing" /\ todo[w] = {}
    /\ listening' = TRUE
    /\ worker' = [worker EXCEPT ![w] = "looping"]
    /\ UNCHANGED <<callerVars, local, todo, subscribed, failed, dev, events,
                   history, incidents>>

\* What has been sent to the thread's server is not handled any more.
DropEvents(w) ==
    /\ events' = [events EXCEPT ![w] = [s \in Services |-> <<>>]]
    /\ excused' = excused \cup
          {AttrOf(s) : s \in {x \in Services : events[w][x] # <<>>}}

End(w) ==
    /\ worker' = [worker EXCEPT ![w] = "ended"]
    /\ DropEvents(w)
    /\ UNCHANGED <<listening, callerVars, local, todo, subscribed, failed, dev,
                   stoppedInListen, incidents>>

\* Mutants of LoopEnds: only the list of failures is looked at; it is as well.
LoopEndsUnasked(w)   == worker[w] = "looping" /\ failed[w] = {} /\ End(w)
LoopEndsCompleted(w) == LoopEndsUnasked(w) /\ ~listening

\* The loop looks at _listening once a second.
LoopEnds(w) == worker[w] = "looping" /\ ~listening /\ End(w)

\* After resubscribe_seconds all subscriptions are renewed, and those that had
\* failed are tried again.
Resubscribe(w) ==
    /\ worker[w] = "looping" /\ listening
    /\ worker' = [worker EXCEPT ![w] = "retrying"]
    /\ todo' = [todo EXCEPT ![w] = failed[w]]
    /\ UNCHANGED <<listening, callerVars, local, subscribed, failed, dev,
                   events, history, incidents>>

Retry(w, s) == Try(w, s, "retrying") /\ Subscribed(w, s)

RetryFails(w, s) ==
    /\ Try(w, s, "retrying")
    /\ UNCHANGED <<subscribed, failed, events>>

\* Mutant: what has been subscribed to stays on the list.
KeepFailed(w) == UNCHANGED failed

RemoveSubscribed(w) == failed' = [failed EXCEPT ![w] = @ \ subscribed[w]]

RetriesDone(w) ==
    /\ worker[w] = "retrying" /\ todo[w] = {}
    /\ worker' = [worker EXCEPT ![w] = "looping"]
    /\ RemoveSubscribed(w)
    /\ UNCHANGED <<listening, callerVars, local, todo, subscribed, dev,
                   events, history, incidents>>

\* Creating the device, starting the notify server, a subscription or the
\* renewal raises anything else: the thread ends and _listening stays as it is.
WorkerRaises(w) ==
    /\ Incident
    /\ Alive(w)
    /\ worker' = [worker EXCEPT ![w] = "failed"]
    /\ DropEvents(w)
    /\ UNCHANGED <<listening, callerVars, local, todo, subscribed, failed, dev,
                   stoppedInListen>>

\* Mutant: an event only fills in what is not known yet.
FromFirstEvent(s, v) ==
    [local EXCEPT ![AttrOf(s)] = IF @ = Unset THEN v ELSE @]

\* on_event_wrapper, in the event loop of the thread.
FromEvent(s, v) == [local EXCEPT ![AttrOf(s)] = v]

HandleEvent(w, s) ==
    /\ Alive(w) /\ events[w][s] # <<>>
    /\ events' = [events EXCEPT ![w][s] = Tail(@)]
    /\ local' = FromEvent(s, Head(events[w][s]))
    /\ UNCHANGED <<listening, callerVars, workerVars, dev, history, incidents>>

LoseEvent(w, s) ==
    /\ Incident /\ events[w][s] # <<>>
    /\ events' = [events EXCEPT ![w][s] = Tail(@)]
    /\ excused' = excused \cup {AttrOf(s)}
    /\ UNCHANGED <<listening, callerVars, local, workerVars, dev,
                   stoppedInListen>>

-----------------------------------------------------------------------------
Application ==
    \/ \E v \in PlayStates : Command(v) \/ SetState(v) \/ SetStateUnsent(v)
    \/ \E v \in Volumes : SetVolume(v)
    \/ Fetch \/ DeviceExecutes \/ FetchReturns \/ CallFails
    \/ \E w \in Workers : Listen(w)
    \/ StopListening

Setup(w) ==
    \/ \E s \in Services : Subscribe(w, s) \/ SubscribeFails(w, s)
    \/ StartLoop(w)

Loop(w) ==
    \/ LoopEnds(w) \/ Resubscribe(w) \/ RetriesDone(w)
    \/ \E s \in Services : Retry(w, s) \/ RetryFails(w, s)

Next ==
    \/ \E a \in Attrs : \E v \in Value(a) : DeviceChanges(a, v)
    \/ Application
    \/ ListenReturns
    \/ \E w \in Workers :
          \/ Setup(w) \/ Loop(w) \/ WorkerRaises(w)
          \/ \E s \in Services : HandleEvent(w, s) \/ LoseEvent(w, s)

\* The threads are scheduled, and an attempt to subscribe ends.
Fairness ==
    /\ WF_vars(ListenReturns)
    /\ \A w \in Workers : WF_vars(Setup(w)) /\ WF_vars(Loop(w))

Spec     == Init /\ [][Next]_vars
FairSpec == Spec /\ Fairness

-----------------------------------------------------------------------------
(* Properties                                                              *)

\* A listener thread that has started its loop is subscribed to each service
\* or has it on its list for the next attempt, never neither and never both:
\* no service is lost between the first attempt and the retries, which add
\* to one list and remove from another at different times.
ServicesKept ==
    \A w \in Workers : worker[w] = "looping" =>
        /\ subscribed[w] \cup failed[w] = Services
        /\ subscribed[w] \cap failed[w] = {}

\* While the client says it is listening, a loop is running, unless a thread
\* died of an exception: stopping and starting again in quick succession never
\* leaves the client with no loop, though it may leave it with two.
ListeningServed ==
    listening => \E w \in Workers : Loops(w) \/ worker[w] = "failed"

\* When no event is on its way and no command under way, what the client holds
\* is what the soundbar does (for the volume, up to what it would ask for), in
\* whatever order commands, the remote control, events and further listener
\* threads met; except after a failed call, an event lost on the way or with its
\* listener, a state that cannot be sent, or an event that overtook a first read.
LocalFollowsDevice ==
    \A w \in Workers : \A s \in subscribed[w] :
        Alive(w) /\ call = None /\ (\A x \in Workers : events[x][s] = <<>>) =>
            LET a == AttrOf(s)
            IN  a \notin excused =>
                    \/ dev[a] = local[a]
                    \/ a = "volume" /\ dev[a] = DesiredVolume(local[a])

\* `listen` returns or raises, unless the listener is stopped (by a callback)
\* before `listen` has seen it start.
ListenEnds == caller = "listen" ~> caller # "listen" \/ stoppedInListen

\* After stop_listening every loop ends, or listening is started again.
StopStops ==
    ~listening ~> listening \/ \A w \in Workers : ~Loops(w)

\* is_listening: "Whether the event listener is running".
IsListening ==
    listening => \E w \in Workers : Loops(w)
=============================================================================
