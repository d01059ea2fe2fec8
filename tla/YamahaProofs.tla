----------------------------- MODULE YamahaProofs -----------------------------
(***************************************************************************)
(* What YamahaListener promises of the listener threads and of the local   *)
(* copies, for any number of threads and whatever the soundbar, the        *)
(* network and the callbacks do.                                           *)
(***************************************************************************)
EXTENDS YamahaListener, TLAPS

\* The variables the arguments below depend on.
ThreadTypes ==
    /\ worker \in [Workers -> {"off", "subscribing", "looping", "retrying",
                               "ended", "failed"}]
    /\ todo \in [Workers -> SUBSET Services]
    /\ subscribed \in [Workers -> SUBSET Services]
    /\ failed \in [Workers -> SUBSET Services]

\* Where each service is, at every stage of a thread: still to be tried,
\* subscribed to, or on the list of failures.  During the retries a service
\* that has just been subscribed to is still on the list.
Accounted(w) ==
    /\ worker[w] = "off" => subscribed[w] = {} /\ failed[w] = {}
    /\ worker[w] = "subscribing" =>
          /\ subscribed[w] \cup failed[w] \cup todo[w] = Services
          /\ subscribed[w] \cap failed[w] = {}
          /\ todo[w] \cap (subscribed[w] \cup failed[w]) = {}
    /\ worker[w] = "looping" =>
          /\ subscribed[w] \cup failed[w] = Services
          /\ subscribed[w] \cap failed[w] = {}
    /\ worker[w] = "retrying" =>
          /\ subscribed[w] \cup failed[w] = Services
          /\ todo[w] \subseteq failed[w] \ subscribed[w]

ListenerInv ==
    /\ ThreadTypes
    /\ ListeningServed
    /\ \A w \in Workers : Accounted(w)

-----------------------------------------------------------------------------
LEMMA FirstIsTodo ==
    ASSUME NEW w \in Workers, todo[w] # {}
    PROVE  First(w) \in todo[w]
BY DEF First

LEMMA ListenerInit == Init => ListenerInv
BY DEF Init, ListenerInv, ThreadTypes, ListeningServed, Accounted

\* The steps of the application and of the soundbar that leave the threads alone.
LEMMA ThreadsUntouched ==
    ASSUME ListenerInv, UNCHANGED workerVars, listening' => listening
    PROVE  ListenerInv'
BY DEF ListenerInv, ThreadTypes, ListeningServed, Accounted, workerVars, Loops

LEMMA ListenKeeps ==
    ASSUME ListenerInv, NEW w \in Workers, Listen(w)
    PROVE  ListenerInv'
<1>1. worker[w] = "off" /\ ~listening'
  BY DEF Listen, Workers
<1>2. ThreadTypes'
  BY DEF ListenerInv, ThreadTypes, Listen
<1>3. ListeningServed'
  BY <1>1 DEF ListeningServed
<1>4. \A x \in Workers : Accounted(x)'
  BY <1>1 DEF ListenerInv, ThreadTypes, Accounted, Listen
<1> QED BY <1>2, <1>3, <1>4 DEF ListenerInv

\* One attempt, in either phase, with either outcome.
LEMMA AttemptKeeps ==
    ASSUME ListenerInv, NEW w \in Workers, NEW s \in Services,
           \/ Subscribe(w, s) \/ SubscribeFails(w, s)
           \/ Retry(w, s) \/ RetryFails(w, s)
    PROVE  ListenerInv'
<1>1. s \in todo[w]
  BY FirstIsTodo DEF Subscribe, SubscribeFails, Retry, RetryFails, Try
<1>2. ThreadTypes'
  BY DEF ListenerInv, ThreadTypes, Subscribe, SubscribeFails, Retry,
         RetryFails, Try, Subscribed
<1>3. ListeningServed'
  BY DEF ListenerInv, ListeningServed, Loops, Subscribe, SubscribeFails, Retry,
         RetryFails, Try
<1>4. ASSUME NEW x \in Workers PROVE Accounted(x)'
  <2>1. CASE Subscribe(w, s)
    BY <1>1, <2>1 DEF ListenerInv, ThreadTypes, Accounted, Subscribe, Try, Subscribed
  <2>2. CASE SubscribeFails(w, s)
    BY <1>1, <2>2 DEF ListenerInv, ThreadTypes, Accounted, SubscribeFails, Try
  <2>3. CASE Retry(w, s)
    BY <1>1, <2>3 DEF ListenerInv, ThreadTypes, Accounted, Retry, Try, Subscribed
  <2>4. CASE RetryFails(w, s)
    BY <1>1, <2>4 DEF ListenerInv, ThreadTypes, Accounted, RetryFails, Try
  <2> QED BY <2>1, <2>2, <2>3, <2>4
<1> QED BY <1>2, <1>3, <1>4 DEF ListenerInv

\* A thread passes from one phase to the next.
LEMMA PhaseKeeps ==
    ASSUME ListenerInv, NEW w \in Workers,
           StartLoop(w) \/ LoopEnds(w) \/ Resubscribe(w) \/ RetriesDone(w)
    PROVE  ListenerInv'
<1>1. ThreadTypes'
  BY DEF ListenerInv, ThreadTypes, StartLoop, LoopEnds, End, Resubscribe,
         RetriesDone, RemoveSubscribed
<1>2. ListeningServed'
  BY DEF ListenerInv, ThreadTypes, ListeningServed, Loops, StartLoop, LoopEnds,
         End, Resubscribe, RetriesDone
<1>3. ASSUME NEW x \in Workers PROVE Accounted(x)'
  <2>1. CASE StartLoop(w)
    BY <2>1 DEF ListenerInv, ThreadTypes, Accounted, StartLoop
  <2>2. CASE LoopEnds(w)
    BY <2>2 DEF ListenerInv, ThreadTypes, Accounted, LoopEnds, End
  <2>3. CASE Resubscribe(w)
    BY <2>3 DEF ListenerInv, ThreadTypes, Accounted, Resubscribe
  <2>4. CASE RetriesDone(w)
    BY <2>4 DEF ListenerInv, ThreadTypes, Accounted, RetriesDone, RemoveSubscribed
  <2> QED BY <2>1, <2>2, <2>3, <2>4
<1> QED BY <1>1, <1>2, <1>3 DEF ListenerInv

LEMMA RaiseKeeps ==
    ASSUME ListenerInv, NEW w \in Workers, WorkerRaises(w)
    PROVE  ListenerInv'
BY DEF ListenerInv, ThreadTypes, ListeningServed, Loops, Accounted, WorkerRaises

LEMMA ListenerNext == ListenerInv /\ [Next]_vars => ListenerInv'
<1> SUFFICES ASSUME ListenerInv, [Next]_vars PROVE ListenerInv'
  OBVIOUS
<1>1. CASE UNCHANGED vars
  BY <1>1, ThreadsUntouched DEF vars, workerVars
<1>2. CASE \E a \in Attrs : \E v \in Value(a) : DeviceChanges(a, v)
  BY <1>2, ThreadsUntouched DEF DeviceChanges
<1>3. CASE Application
  <2>1. ASSUME NEW v \in PlayStates,
               Command(v) \/ SetState(v) \/ SetStateUnsent(v)
        PROVE  ListenerInv'
    BY <2>1, ThreadsUntouched DEF Command, SetState, SetStateUnsent, Send
  <2>2. ASSUME NEW v \in Volumes, SetVolume(v) PROVE ListenerInv'
    BY <2>2, ThreadsUntouched DEF SetVolume, Send
  <2>3. CASE Fetch \/ DeviceExecutes \/ FetchReturns \/ CallFails
    BY <2>3, ThreadsUntouched
       DEF Fetch, Send, DeviceExecutes, FetchReturns, CallFails
  <2>4. ASSUME NEW w \in Workers, Listen(w) PROVE ListenerInv'
    BY <2>4, ListenKeeps
  <2>5. CASE StopListening
    BY <2>5, ThreadsUntouched DEF StopListening
  <2> QED BY <1>3, <2>1, <2>2, <2>3, <2>4, <2>5 DEF Application
<1>4. CASE ListenReturns
  BY <1>4, ThreadsUntouched DEF ListenReturns
<1>5. ASSUME NEW w \in Workers, Setup(w) \/ Loop(w) PROVE ListenerInv'
  BY <1>5, AttemptKeeps, PhaseKeeps DEF Setup, Loop
<1>6. ASSUME NEW w \in Workers, WorkerRaises(w) PROVE ListenerInv'
  BY <1>6, RaiseKeeps
<1>7. ASSUME NEW w \in Workers, NEW s \in Services,
             HandleEvent(w, s) \/ LoseEvent(w, s)
      PROVE  ListenerInv'
  BY <1>7, ThreadsUntouched DEF HandleEvent, LoseEvent
<1> QED BY <1>1, <1>2, <1>3, <1>4, <1>5, <1>6, <1>7 DEF Next

\* Every service is either subscribed to or waiting for the next attempt
\* whenever a listener thread is in its loop (_subscribe).
THEOREM NoServiceLost == Spec => []ServicesKept
<1>1. ListenerInv => ServicesKept
  BY DEF ListenerInv, ServicesKept, Accounted
<1> QED BY <1>1, ListenerInit, ListenerNext, PTL DEF Spec

\* A client that is listening has a listener thread in its loop, or one that
\* died of an exception: no order of listen and stop_listening, from any
\* thread, ends the last loop while _listening is set.
THEOREM SomeLoopRuns == Spec => []ListeningServed
<1>1. ListenerInv => ListeningServed
  BY DEF ListenerInv
<1> QED BY <1>1, ListenerInit, ListenerNext, PTL DEF Spec

-----------------------------------------------------------------------------
(* The local copies                                                        *)

CopyTypes ==
    /\ local \in [Attrs -> PlayStates \cup 0 .. 100 \cup {Unset}]
    /\ dev \in [state : PlayStates, volume : 0 .. 100]
    /\ events \in [Workers -> [Services -> Seq(PlayStates \cup 0 .. 100)]]
    /\ caller = "call" =>
          call \in [op : {"get", "set"}, attr : Attrs, value : PlayStates \cup 0 .. 100]
    /\ caller = "call" => call.value \in Real(call.attr)

\* What is still on its way to a listener ends with the present value, and
\* is on its way to a living thread that subscribed to it.
LatestOnItsWay ==
    \A w \in Workers, s \in Services : events[w][s] # <<>> =>
        /\ Alive(w) /\ s \in subscribed[w]
        /\ events[w][s][Len(events[w][s])] = dev[AttrOf(s)]

Agrees(a, held, value) ==
    value = held \/ (a = "volume" /\ value = DesiredVolume(held))

\* A service somebody listens to, with no event on its way.
Quiet(s) ==
    /\ \E w \in Workers : Alive(w) /\ s \in subscribed[w]
    /\ \A x \in Workers : events[x][s] = <<>>

\* The local copy then agrees with the soundbar, or with the command that is
\* about to change the soundbar.
CopyFollows ==
    \A s \in Services : Quiet(s) /\ AttrOf(s) \notin excused =>
        \/ Agrees(AttrOf(s), local[AttrOf(s)], dev[AttrOf(s)])
        \/ /\ caller = "call" /\ call.op = "set" /\ call.attr = AttrOf(s)
           /\ Agrees(AttrOf(s), local[AttrOf(s)], call.value)

CopyInv == CopyTypes /\ LatestOnItsWay /\ CopyFollows

\* What threads need to be, for the copies: one not started has subscribed
\* to nothing.
ThreadsSound ==
    /\ worker \in [Workers -> {"off", "subscribing", "looping", "retrying",
                               "ended", "failed"}]
    /\ subscribed \in [Workers -> SUBSET Services]
    /\ \A w \in Workers : worker[w] = "off" => subscribed[w] = {}

LEMMA SoundThreads == ListenerInv => ThreadsSound
BY DEF ListenerInv, ThreadTypes, ThreadsSound, Accounted

LEMMA CopyInit == Init => CopyInv
<1> SUFFICES ASSUME Init PROVE CopyInv
  OBVIOUS
<1>1. CopyTypes
  <2>1. dev \in [state : PlayStates, volume : 0 .. 100]
    BY VolumeAssumption DEF Init, Device
  <2>2. <<>> \in Seq(PlayStates \cup 0 .. 100)
    OBVIOUS
  <2>3. events \in [Workers -> [Services -> Seq(PlayStates \cup 0 .. 100)]]
    BY <2>2 DEF Init
  <2>4. local \in [Attrs -> PlayStates \cup 0 .. 100 \cup {Unset}]
    BY DEF Init
  <2> QED BY <2>1, <2>3, <2>4 DEF Init, CopyTypes
<1>2. LatestOnItsWay
  BY DEF Init, LatestOnItsWay
<1>3. CopyFollows
  BY DEF Init, CopyFollows, Quiet, Alive
<1> QED BY <1>1, <1>2, <1>3 DEF CopyInv

LEMMA AttrOfType == \A s \in Services : AttrOf(s) \in Attrs
BY DEF AttrOf, Services, Attrs

\* The soundbar changes and tells: nobody is quiet about what has changed.
LEMMA BecomesTells ==
    ASSUME CopyInv, ThreadsSound, UNCHANGED <<worker, subscribed>>,
           NEW new \in [state : PlayStates, volume : 0 .. 100], Becomes(new)
    PROVE  /\ dev' = new
           /\ events' \in [Workers -> [Services -> Seq(PlayStates \cup 0 .. 100)]]
           /\ LatestOnItsWay'
           /\ \A s \in Services :
                 Quiet(s)' => Quiet(s) /\ dev'[AttrOf(s)] = dev[AttrOf(s)]
<1>1. /\ dev' = new
      /\ events \in [Workers -> [Services -> Seq(PlayStates \cup 0 .. 100)]]
      /\ \A w \in Workers : Alive(w)' = Alive(w)
      /\ \A s \in Services : new[AttrOf(s)] \in PlayStates \cup 0 .. 100
  BY DEF Becomes, CopyInv, CopyTypes, Alive, AttrOf
<1>2. ASSUME NEW w \in Workers, NEW s \in Services
      PROVE  events'[w][s] =
                IF s \in subscribed[w] /\ Alive(w) /\ Changed(s, new)
                THEN Append(events[w][s], new[AttrOf(s)]) ELSE events[w][s]
  BY DEF Becomes
<1>3. ASSUME NEW w \in Workers, NEW s \in Services
      PROVE  events[w][s] \in Seq(PlayStates \cup 0 .. 100)
  BY <1>1
<1>4. events' \in [Workers -> [Services -> Seq(PlayStates \cup 0 .. 100)]]
  <2>1. ASSUME NEW w \in Workers, NEW s \in Services
        PROVE  (IF s \in subscribed[w] /\ Alive(w) /\ Changed(s, new)
                THEN Append(events[w][s], new[AttrOf(s)]) ELSE events[w][s])
                    \in Seq(PlayStates \cup 0 .. 100)
    BY <1>1, <1>3
  <2> QED BY <2>1 DEF Becomes
<1>5. LatestOnItsWay'
  <2> SUFFICES ASSUME NEW w \in Workers, NEW s \in Services,
                      events'[w][s] # <<>>
               PROVE  /\ Alive(w)' /\ s \in subscribed'[w]
                      /\ events'[w][s][Len(events'[w][s])] = dev'[AttrOf(s)]
    BY DEF LatestOnItsWay
  <2>1. CASE s \in subscribed[w] /\ Alive(w) /\ Changed(s, new)
    <3>1. events'[w][s] = Append(events[w][s], new[AttrOf(s)])
      BY <2>1, <1>2
    <3>2. events'[w][s][Len(events'[w][s])] = new[AttrOf(s)]
      BY <3>1, <1>3, <1>1
    <3> QED BY <3>2, <2>1, <1>1
  <2>2. CASE ~(s \in subscribed[w] /\ Alive(w) /\ Changed(s, new))
    <3>1. events'[w][s] = events[w][s]
      BY <2>2, <1>2
    <3>2. /\ Alive(w) /\ s \in subscribed[w]
          /\ events[w][s][Len(events[w][s])] = dev[AttrOf(s)]
      BY <3>1 DEF CopyInv, LatestOnItsWay
    <3> QED BY <3>1, <3>2, <2>2, <1>1 DEF Changed
  <2> QED BY <2>1, <2>2
<1>6. ASSUME NEW s \in Services, Quiet(s)'
      PROVE  Quiet(s) /\ dev'[AttrOf(s)] = dev[AttrOf(s)]
  <2>1. PICK w \in Workers : Alive(w) /\ s \in subscribed[w]
    BY <1>6, <1>1 DEF Quiet
  <2>2. \A x \in Workers : events'[x][s] = <<>>
    BY <1>6 DEF Quiet
  <2>3. ~Changed(s, new)
    <3>1. Append(events[w][s], new[AttrOf(s)]) # <<>>
      BY <1>1, <1>3
    <3> QED BY <3>1, <2>1, <2>2, <1>2
  <2>4. \A x \in Workers : events[x][s] = <<>>
    BY <2>2, <2>3, <1>2
  <2> QED BY <2>1, <2>3, <2>4, <1>1 DEF Quiet, Changed
<1> QED BY <1>1, <1>4, <1>5, <1>6

\* Nothing happens to the soundbar, to the threads or to what is on its way.
LEMMA NothingOnItsWay ==
    ASSUME CopyInv, UNCHANGED <<worker, subscribed, dev, events>>
    PROVE  LatestOnItsWay' /\ \A s \in Services : Quiet(s)' = Quiet(s)
BY DEF CopyInv, LatestOnItsWay, Quiet, Alive

\* With no command under way, a quiet copy agrees with the soundbar.
LEMMA IdleAgrees ==
    ASSUME CopyInv, caller # "call", NEW s \in Services, Quiet(s),
           AttrOf(s) \notin excused
    PROVE  Agrees(AttrOf(s), local[AttrOf(s)], dev[AttrOf(s)])
BY DEF CopyInv, CopyFollows

LEMMA DesiredInRange == \A v \in Volumes : DesiredVolume(v) \in 0 .. 100
BY VolumeAssumption DEF DesiredVolume

-----------------------------------------------------------------------------
LEMMA SentKeeps ==
    ASSUME CopyInv, ThreadsSound,
           \/ \E v \in PlayStates : Command(v) \/ SetState(v)
           \/ \E v \in Volumes : SetVolume(v)
           \/ Fetch
    PROVE  CopyInv'
<1>1. /\ UNCHANGED <<worker, subscribed, dev, events, excused>>
      /\ caller # "call" /\ caller' = "call"
  BY DEF Command, SetState, SetVolume, Fetch, Send, workerVars
<1>2. PICK op \in {"get", "set"}, a \in Attrs,
         v \in PlayStates \cup 0 .. 100 :
         /\ v \in Real(a)
         /\ call' = [op |-> op, attr |-> a, value |-> v]
         /\ \/ local' = local
            \/ /\ op = "set"
               /\ \E h \in PlayStates \cup 0 .. 100 :
                     local' = [local EXCEPT ![a] = h] /\ Agrees(a, h, v)
  <2>1. CASE \E v \in PlayStates : Command(v) \/ SetState(v)
    BY <2>1 DEF Command, SetState, Send, Request, Attrs, Real, Agrees
  <2>2. CASE \E v \in Volumes : SetVolume(v)
    <3>1. PICK v \in Volumes : SetVolume(v)
      BY <2>2
    <3>2. v \in 0 .. 100 /\ DesiredVolume(v) \in Real("volume")
      BY DesiredInRange, VolumeAssumption DEF Real
    <3>3. Agrees("volume", v, DesiredVolume(v))
      BY DEF Agrees
    <3>4. /\ call' = [op |-> "set", attr |-> "volume", value |-> DesiredVolume(v)]
          /\ local' = [local EXCEPT !["volume"] = v]
      BY <3>1 DEF SetVolume, Send, Request
    <3>5. DesiredVolume(v) \in PlayStates \cup 0 .. 100
      BY DesiredInRange
    <3> QED BY <3>2, <3>3, <3>4, <3>5 DEF Attrs
  <2>3. CASE Fetch
    BY <2>3 DEF Fetch, Send, Request, Attrs, Real, CopyInv, CopyTypes
  <2> QED BY <2>1, <2>2, <2>3
<1>3. CopyTypes'
  <2>1. v \in PlayStates \cup 0 .. 100
    BY DEF Real
  <2> QED BY <1>1, <1>2, <2>1 DEF CopyInv, CopyTypes
<1>4. CopyFollows'
  <2> SUFFICES ASSUME NEW s \in Services, Quiet(s)', AttrOf(s) \notin excused'
               PROVE  \/ Agrees(AttrOf(s), local[AttrOf(s)], dev[AttrOf(s)])'
                      \/ /\ caller' = "call" /\ call'.op = "set"
                         /\ call'.attr = AttrOf(s)
                         /\ Agrees(AttrOf(s), local[AttrOf(s)], call.value)'
    BY DEF CopyFollows
  <2>1. Agrees(AttrOf(s), local[AttrOf(s)], dev[AttrOf(s)])
    BY <1>1, NothingOnItsWay, IdleAgrees
  <2>2. CASE local' = local
    BY <2>1, <2>2, <1>1 DEF Agrees
  <2>3. CASE local' # local
    <3>1. /\ op = "set" /\ call'.attr = a /\ call'.op = op /\ call'.value = v
          /\ \E h \in PlayStates \cup 0 .. 100 :
                local' = [local EXCEPT ![a] = h] /\ Agrees(a, h, v)
      BY <1>2, <2>3
    <3>2. CASE AttrOf(s) = a
      BY <3>1, <3>2, <1>1, AttrOfType DEF Agrees, CopyInv, CopyTypes
    <3>3. CASE AttrOf(s) # a
      BY <3>1, <3>3, <2>1, <1>1, AttrOfType DEF Agrees, CopyInv, CopyTypes
    <3> QED BY <3>2, <3>3
  <2> QED BY <2>2, <2>3
<1> QED BY <1>1, <1>3, <1>4, NothingOnItsWay DEF CopyInv

LEMMA UnsentKeeps ==
    ASSUME CopyInv, NEW v \in PlayStates, SetStateUnsent(v)
    PROVE  CopyInv'
<1>1. /\ UNCHANGED <<worker, subscribed, dev, events, caller, call>>
      /\ caller # "call" /\ excused' = excused \cup {"state"}
      /\ local' = [local EXCEPT !["state"] = v]
  BY DEF SetStateUnsent, callerVars, workerVars
<1>2. CopyTypes'
  BY <1>1 DEF CopyInv, CopyTypes
<1>3. CopyFollows'
  <2> SUFFICES ASSUME NEW s \in Services, Quiet(s)', AttrOf(s) \notin excused'
               PROVE  Agrees(AttrOf(s), local[AttrOf(s)], dev[AttrOf(s)])'
    BY DEF CopyFollows
  <2>1. Agrees(AttrOf(s), local[AttrOf(s)], dev[AttrOf(s)])
    BY <1>1, NothingOnItsWay, IdleAgrees
  <2>2. local'[AttrOf(s)] = local[AttrOf(s)]
    BY <1>1, AttrOfType DEF CopyInv, CopyTypes
  <2> QED BY <1>1, <2>1, <2>2 DEF Agrees
<1> QED BY <1>1, <1>2, <1>3, NothingOnItsWay DEF CopyInv

LEMMA DeviceKeeps ==
    ASSUME CopyInv, ThreadsSound, NEW a \in Attrs, NEW v \in Value(a),
           DeviceChanges(a, v)
    PROVE  CopyInv'
<1>1. /\ UNCHANGED <<worker, subscribed, caller, call, local, excused>>
      /\ Becomes([dev EXCEPT ![a] = v])
  BY DEF DeviceChanges, callerVars, workerVars, history
<1>2. [dev EXCEPT ![a] = v] \in [state : PlayStates, volume : 0 .. 100]
  BY VolumeAssumption DEF CopyInv, CopyTypes, Attrs, Value
<1>3. /\ dev' = [dev EXCEPT ![a] = v]
      /\ events' \in [Workers -> [Services -> Seq(PlayStates \cup 0 .. 100)]]
      /\ LatestOnItsWay'
      /\ \A s \in Services :
            Quiet(s)' => Quiet(s) /\ dev'[AttrOf(s)] = dev[AttrOf(s)]
  BY <1>1, <1>2, BecomesTells
<1>4. CopyTypes'
  BY <1>1, <1>2, <1>3 DEF CopyInv, CopyTypes
<1>5. CopyFollows'
  BY <1>1, <1>3 DEF CopyInv, CopyFollows, Agrees
<1> QED BY <1>3, <1>4, <1>5 DEF CopyInv

\* A command takes effect: whoever held its value, or the soundbar's and was
\* told nothing, holds the soundbar's.
LEMMA ExecutesKeeps ==
    ASSUME CopyInv, ThreadsSound, DeviceExecutes
    PROVE  CopyInv'
<1>1. /\ UNCHANGED <<worker, subscribed, local, excused>>
      /\ caller = "call" /\ call.op = "set" /\ caller' = "idle"
      /\ Becomes([dev EXCEPT ![call.attr] = call.value])
  BY DEF DeviceExecutes, workerVars, history
<1>2. [dev EXCEPT ![call.attr] = call.value]
         \in [state : PlayStates, volume : 0 .. 100]
  BY <1>1 DEF CopyInv, CopyTypes, Attrs, Real
<1>3. /\ dev' = [dev EXCEPT ![call.attr] = call.value]
      /\ events' \in [Workers -> [Services -> Seq(PlayStates \cup 0 .. 100)]]
      /\ LatestOnItsWay'
      /\ \A s \in Services :
            Quiet(s)' => Quiet(s) /\ dev'[AttrOf(s)] = dev[AttrOf(s)]
  BY <1>1, <1>2, BecomesTells
<1>4. CopyTypes'
  BY <1>1, <1>2, <1>3 DEF CopyInv, CopyTypes
<1>5. CopyFollows'
  <2> SUFFICES ASSUME NEW s \in Services, Quiet(s)', AttrOf(s) \notin excused'
               PROVE  Agrees(AttrOf(s), local[AttrOf(s)], dev[AttrOf(s)])'
    BY DEF CopyFollows
  <2>1. /\ dev'[AttrOf(s)] = dev[AttrOf(s)]
        /\ \/ Agrees(AttrOf(s), local[AttrOf(s)], dev[AttrOf(s)])
           \/ /\ call.attr = AttrOf(s)
              /\ Agrees(AttrOf(s), local[AttrOf(s)], call.value)
    BY <1>1, <1>3 DEF CopyInv, CopyFollows
  <2>2. call.attr = AttrOf(s) => dev'[AttrOf(s)] = call.value
    BY <1>1, <1>3 DEF CopyInv, CopyTypes, Attrs
  <2> QED BY <1>1, <2>1, <2>2 DEF Agrees
<1> QED BY <1>3, <1>4, <1>5 DEF CopyInv

\* A first read comes back.  Nobody was quiet about the volume while it was
\* unknown: whoever subscribes is sent it.
LEMMA ReturnsKeeps ==
    ASSUME CopyInv, FetchReturns
    PROVE  CopyInv'
<1>1. /\ UNCHANGED <<worker, subscribed, dev, events>>
      /\ caller = "call" /\ call.op = "get" /\ caller' = "idle"
      /\ local' = [local EXCEPT ![call.attr] = call.value]
      /\ excused' = IF local[call.attr] = Unset THEN excused
                                                ELSE excused \cup {call.attr}
  BY DEF FetchReturns, workerVars
<1>2. CopyTypes'
  BY <1>1 DEF CopyInv, CopyTypes
<1>3. CopyFollows'
  <2> SUFFICES ASSUME NEW s \in Services, Quiet(s)', AttrOf(s) \notin excused'
               PROVE  Agrees(AttrOf(s), local[AttrOf(s)], dev[AttrOf(s)])'
    BY DEF CopyFollows
  <2>1. Agrees(AttrOf(s), local[AttrOf(s)], dev[AttrOf(s)])
    BY <1>1, NothingOnItsWay DEF CopyInv, CopyFollows
  <2>2. local[AttrOf(s)] # Unset
    <3>1. dev[AttrOf(s)] # Unset
      BY UnsetAssumption DEF CopyInv, CopyTypes, AttrOf
    <3>2. AttrOf(s) = "volume" => DesiredVolume(Unset) # dev[AttrOf(s)]
      BY UnsetAssumption DEF CopyInv, CopyTypes, DesiredVolume
    <3> QED BY <2>1, <3>1, <3>2 DEF Agrees
  <2>3. call.attr # AttrOf(s)
    BY <1>1, <2>2
  <2>4. local'[AttrOf(s)] = local[AttrOf(s)]
    BY <1>1, <2>3, AttrOfType DEF CopyInv, CopyTypes
  <2> QED BY <1>1, <2>1, <2>4 DEF Agrees
<1> QED BY <1>1, <1>2, <1>3, NothingOnItsWay DEF CopyInv

\* Of a command that failed nobody knows whether it took effect.
LEMMA FailsKeeps ==
    ASSUME CopyInv, ThreadsSound, CallFails
    PROVE  CopyInv'
<1>1. /\ UNCHANGED <<worker, subscribed, local>>
      /\ caller = "call" /\ caller' = "idle"
      /\ excused' = excused \cup {call.attr}
      /\ \/ Becomes([dev EXCEPT ![call.attr] = call.value])
         \/ UNCHANGED <<dev, events>>
  BY DEF CallFails, workerVars
<1>2. [dev EXCEPT ![call.attr] = call.value]
         \in [state : PlayStates, volume : 0 .. 100]
  BY <1>1 DEF CopyInv, CopyTypes, Attrs, Real
<1>3. /\ dev' \in [state : PlayStates, volume : 0 .. 100]
      /\ events' \in [Workers -> [Services -> Seq(PlayStates \cup 0 .. 100)]]
      /\ LatestOnItsWay'
      /\ \A s \in Services :
            Quiet(s)' => Quiet(s) /\ dev'[AttrOf(s)] = dev[AttrOf(s)]
  <2>1. CASE Becomes([dev EXCEPT ![call.attr] = call.value])
    BY <1>1, <1>2, <2>1, BecomesTells
  <2>2. CASE UNCHANGED <<dev, events>>
    BY <1>1, <2>2, NothingOnItsWay DEF CopyInv, CopyTypes
  <2> QED BY <1>1, <2>1, <2>2
<1>4. CopyTypes'
  BY <1>1, <1>3 DEF CopyInv, CopyTypes
<1>5. CopyFollows'
  BY <1>1, <1>3 DEF CopyInv, CopyFollows, Agrees
<1> QED BY <1>3, <1>4, <1>5 DEF CopyInv

-----------------------------------------------------------------------------
\* A thread that starts has subscribed to nothing; one that passes from a
\* phase to the next goes on listening.
LEMMA StartsKeeps ==
    ASSUME CopyInv, ThreadsSound,
           NEW w \in Workers, Listen(w) \/ StartLoop(w) \/ Resubscribe(w)
                               \/ RetriesDone(w)
    PROVE  CopyInv'
<1>1. UNCHANGED <<subscribed, dev, events, local, excused, call>>
  BY DEF Listen, StartLoop, Resubscribe, RetriesDone, callerVars, history
<1>2. \/ caller # "call" /\ caller' = "listen"
      \/ caller' = caller
  BY DEF Listen, StartLoop, Resubscribe, RetriesDone, callerVars
<1>3. /\ \A x \in Workers : Alive(x) => Alive(x)'
      /\ \A x \in Workers, s \in Services :
            Alive(x)' /\ s \in subscribed[x] => Alive(x)
  <2>1. CASE Listen(w)
    <3>1. worker[w] = "off"
      BY <2>1 DEF Listen, Workers
    <3>2. worker' = [worker EXCEPT ![w] = "subscribing"] /\ subscribed[w] = {}
      BY <2>1, <3>1 DEF Listen, ThreadsSound
    <3> QED BY <3>1, <3>2 DEF Alive, ThreadsSound
  <2>2. CASE StartLoop(w) \/ Resubscribe(w) \/ RetriesDone(w)
    BY <2>2 DEF StartLoop, Resubscribe, RetriesDone, Alive, ThreadsSound
  <2> QED BY <2>1, <2>2
<1>4. CopyTypes'
  BY <1>1, <1>2 DEF CopyInv, CopyTypes
<1>5. LatestOnItsWay'
  BY <1>1, <1>3 DEF CopyInv, LatestOnItsWay
<1>6. \A s \in Services : Quiet(s)' => Quiet(s)
  BY <1>1, <1>3 DEF Quiet
<1>7. CopyFollows'
  BY <1>1, <1>2, <1>6 DEF CopyInv, CopyFollows, Agrees
<1> QED BY <1>4, <1>5, <1>7 DEF CopyInv

\* A service subscribed to is not quiet: its present value is on its way.
LEMMA AttemptCopies ==
    ASSUME CopyInv, ThreadsSound, NEW w \in Workers, NEW s \in Services,
           \/ Subscribe(w, s) \/ SubscribeFails(w, s)
           \/ Retry(w, s) \/ RetryFails(w, s)
    PROVE  CopyInv'
<1>1. /\ UNCHANGED <<worker, dev, local, excused, caller, call>>
      /\ Alive(w)
  BY DEF Subscribe, SubscribeFails, Retry, RetryFails, Try, callerVars, history,
         Alive
<1>2. CASE UNCHANGED <<subscribed, events>>
  BY <1>1, <1>2, NothingOnItsWay DEF CopyInv, CopyTypes, CopyFollows, Agrees
<1>3. CASE /\ subscribed' = [subscribed EXCEPT ![w] = @ \cup {s}]
           /\ events' = [events EXCEPT ![w][s] = Append(@, dev[AttrOf(s)])]
  <2>1. /\ events[w][s] \in Seq(PlayStates \cup 0 .. 100)
        /\ dev[AttrOf(s)] \in PlayStates \cup 0 .. 100
    BY DEF CopyInv, CopyTypes, AttrOf
  <2>2. Append(events[w][s], dev[AttrOf(s)]) \in Seq(PlayStates \cup 0 .. 100)
    BY <2>1
  <2>3. CopyTypes'
    BY <1>1, <1>3, <2>2 DEF CopyInv, CopyTypes
  <2>4. /\ events'[w][s] = Append(events[w][s], dev[AttrOf(s)])
        /\ \A x \in Workers, y \in Services :
              <<x, y>> # <<w, s>> => events'[x][y] = events[x][y]
    BY <1>3 DEF CopyInv, CopyTypes
  <2>5. /\ events'[w][s] # <<>>
        /\ events'[w][s][Len(events'[w][s])] = dev[AttrOf(s)]
    BY <2>1, <2>4
  <2>6. /\ s \in subscribed'[w]
        /\ \A x \in Workers : subscribed[x] \subseteq subscribed'[x]
        /\ \A x \in Workers, y \in Services :
              y \in subscribed'[x] => <<x, y>> = <<w, s>> \/ y \in subscribed[x]
    BY <1>3 DEF ThreadsSound
  <2>7. \A x \in Workers : Alive(x)' = Alive(x)
    BY <1>1 DEF Alive
  <2>8. LatestOnItsWay'
    <3> SUFFICES ASSUME NEW x \in Workers, NEW y \in Services,
                        events'[x][y] # <<>>
                 PROVE  /\ Alive(x)' /\ y \in subscribed'[x]
                        /\ events'[x][y][Len(events'[x][y])] = dev'[AttrOf(y)]
      BY DEF LatestOnItsWay
    <3>1. CASE <<x, y>> = <<w, s>>
      BY <3>1, <1>1, <2>5, <2>6, <2>7
    <3>2. CASE <<x, y>> # <<w, s>>
      BY <3>2, <1>1, <2>4, <2>6, <2>7 DEF CopyInv, LatestOnItsWay
    <3> QED BY <3>1, <3>2
  <2>9. \A y \in Services : Quiet(y)' => y # s /\ Quiet(y)
    BY <2>4, <2>5, <2>6, <2>7 DEF Quiet
  <2> QED BY <1>1, <2>3, <2>8, <2>9 DEF CopyInv, CopyFollows, Agrees
<1> QED BY <1>2, <1>3
    DEF Subscribe, SubscribeFails, Retry, RetryFails, Try, Subscribed

\* What was on its way to a thread that ends is excused.
LEMMA EndsKeeps ==
    ASSUME CopyInv, ThreadsSound, NEW w \in Workers,
           LoopEnds(w) \/ WorkerRaises(w)
    PROVE  CopyInv'
<1>1. /\ UNCHANGED <<subscribed, dev, local, caller, call>>
      /\ events' = [events EXCEPT ![w] = [s \in Services |-> <<>>]]
      /\ excused' = excused \cup
            {AttrOf(s) : s \in {x \in Services : events[w][x] # <<>>}}
      /\ \E end \in {"ended", "failed"} : worker' = [worker EXCEPT ![w] = end]
  BY DEF LoopEnds, WorkerRaises, End, DropEvents, callerVars
<1>2. /\ ~Alive(w)'
      /\ \A x \in Workers : x # w => Alive(x)' = Alive(x)
  BY <1>1 DEF Alive, ThreadsSound
<1>3. /\ \A s \in Services : events'[w][s] = <<>>
      /\ \A x \in Workers : x # w => events'[x] = events[x]
  BY <1>1 DEF CopyInv, CopyTypes
<1>4. CopyTypes'
  <2>1. [s \in Services |-> <<>>] \in [Services -> Seq(PlayStates \cup 0 .. 100)]
    OBVIOUS
  <2>2. events' \in [Workers -> [Services -> Seq(PlayStates \cup 0 .. 100)]]
    BY <1>1, <2>1 DEF CopyInv, CopyTypes
  <2> QED BY <1>1, <2>2 DEF CopyInv, CopyTypes
<1>5. LatestOnItsWay'
  BY <1>1, <1>2, <1>3 DEF CopyInv, LatestOnItsWay
<1>6. ASSUME NEW s \in Services, Quiet(s)', AttrOf(s) \notin excused'
      PROVE  Quiet(s) /\ AttrOf(s) \notin excused
  <2>1. events[w][s] = <<>>
    BY <1>1, <1>6
  <2> QED BY <2>1, <1>1, <1>2, <1>3, <1>6 DEF Quiet
<1>7. CopyFollows'
  BY <1>1, <1>6 DEF CopyInv, CopyFollows, Agrees
<1> QED BY <1>4, <1>5, <1>7 DEF CopyInv

LEMMA NoneLeft == ASSUME NEW S, NEW queue \in Seq(S), Len(queue) = 0
                  PROVE  queue = <<>>
OBVIOUS

LEMMA LastOfTail ==
    ASSUME NEW S, NEW queue \in Seq(S), queue # <<>>
    PROVE  /\ Tail(queue) \in Seq(S)
           /\ Head(queue) \in S
           /\ Tail(queue) # <<>> => Tail(queue)[Len(Tail(queue))] = queue[Len(queue)]
           /\ Tail(queue) = <<>> => Head(queue) = queue[Len(queue)]
<1>1. Len(queue) \in Nat \ {0} /\ Tail(queue) \in Seq(S) /\ Head(queue) \in S
  OBVIOUS
<1>2. Len(Tail(queue)) = Len(queue) - 1 /\ Head(queue) = queue[1]
  OBVIOUS
<1>3. CASE Len(queue) = 1
  <2>1. Len(Tail(queue)) = 0
    BY <1>2, <1>3
  <2>2. Tail(queue) = <<>>
    BY <1>1, <2>1, NoneLeft
  <2> QED BY <1>1, <1>2, <1>3, <2>2
<1>4. CASE Len(queue) > 1
  <2>1. Len(Tail(queue)) # 0
    BY <1>1, <1>2, <1>4
  <2>2. Tail(queue)[Len(queue) - 1] = queue[Len(queue)]
    BY <1>1, <1>4
  <2> QED BY <1>1, <1>2, <1>4, <2>1, <2>2
<1> QED BY <1>1, <1>3, <1>4

\* The last event on its way carries the present value.
LEMMA EventKeeps ==
    ASSUME CopyInv, ThreadsSound, NEW w \in Workers, NEW s \in Services,
           HandleEvent(w, s) \/ LoseEvent(w, s)
    PROVE  CopyInv'
<1>1. /\ UNCHANGED <<worker, subscribed, dev, caller, call>>
      /\ events[w][s] # <<>>
      /\ events' = [events EXCEPT ![w][s] = Tail(@)]
      /\ \/ /\ local' = [local EXCEPT ![AttrOf(s)] = Head(events[w][s])]
            /\ excused' = excused
         \/ /\ local' = local
            /\ excused' = excused \cup {AttrOf(s)}
  BY DEF HandleEvent, LoseEvent, FromEvent, callerVars, workerVars, history
<1> DEFINE queue == events[w][s]
<1>2. /\ queue \in Seq(PlayStates \cup 0 .. 100) /\ queue # <<>>
      /\ queue[Len(queue)] = dev[AttrOf(s)]
      /\ events'[w][s] = Tail(queue)
      /\ \A x \in Workers, y \in Services :
            <<x, y>> # <<w, s>> => events'[x][y] = events[x][y]
  BY <1>1 DEF CopyInv, CopyTypes, LatestOnItsWay
<1> HIDE DEF queue
<1>3. /\ Tail(queue) \in Seq(PlayStates \cup 0 .. 100)
      /\ Head(queue) \in PlayStates \cup 0 .. 100
      /\ Tail(queue) # <<>> => Tail(queue)[Len(Tail(queue))] = queue[Len(queue)]
      /\ Tail(queue) = <<>> => Head(queue) = queue[Len(queue)]
  BY <1>2, LastOfTail
<1>4. CopyTypes'
  <2>1. events' \in [Workers -> [Services -> Seq(PlayStates \cup 0 .. 100)]]
    BY <1>1, <1>3 DEF CopyInv, CopyTypes, queue
  <2>2. local' \in [Attrs -> PlayStates \cup 0 .. 100 \cup {Unset}]
    BY <1>1, <1>3, AttrOfType DEF CopyInv, CopyTypes, queue
  <2> QED BY <1>1, <2>1, <2>2 DEF CopyInv, CopyTypes
<1>5. \A x \in Workers : Alive(x)' = Alive(x)
  BY <1>1 DEF Alive
<1>6. LatestOnItsWay'
  <2> SUFFICES ASSUME NEW x \in Workers, NEW y \in Services,
                      events'[x][y] # <<>>
               PROVE  /\ Alive(x)' /\ y \in subscribed'[x]
                      /\ events'[x][y][Len(events'[x][y])] = dev'[AttrOf(y)]
    BY DEF LatestOnItsWay
  <2>1. CASE <<x, y>> = <<w, s>>
    BY <2>1, <1>1, <1>2, <1>3, <1>5 DEF CopyInv, LatestOnItsWay
  <2>2. CASE <<x, y>> # <<w, s>>
    BY <2>2, <1>1, <1>2, <1>5 DEF CopyInv, LatestOnItsWay
  <2> QED BY <2>1, <2>2
<1>7. CopyFollows'
  <2> SUFFICES ASSUME NEW y \in Services, Quiet(y)', AttrOf(y) \notin excused'
               PROVE  \/ Agrees(AttrOf(y), local[AttrOf(y)], dev[AttrOf(y)])'
                      \/ /\ caller' = "call" /\ call'.op = "set"
                         /\ call'.attr = AttrOf(y)
                         /\ Agrees(AttrOf(y), local[AttrOf(y)], call.value)'
    BY DEF CopyFollows
  <2>1. \A x \in Workers : events'[x][y] = <<>>
    BY DEF Quiet
  <2>2. CASE y = s
    <3>1. local' = [local EXCEPT ![AttrOf(s)] = Head(queue)]
      BY <1>1, <2>2 DEF queue
    <3>2. Head(queue) = dev[AttrOf(s)]
      BY <1>2, <1>3, <2>1, <2>2
    <3>3. local'[AttrOf(s)] = dev'[AttrOf(s)]
      BY <1>1, <3>1, <3>2, AttrOfType DEF CopyInv, CopyTypes
    <3> QED BY <2>2, <3>3 DEF Agrees
  <2>3. CASE y # s
    <3>1. Quiet(y)
      BY <2>1, <2>3, <1>1, <1>2, <1>5 DEF Quiet
    <3>2. AttrOf(y) # AttrOf(s)
      BY <2>3 DEF AttrOf, Services
    <3>3. local'[AttrOf(y)] = local[AttrOf(y)] /\ AttrOf(y) \notin excused
      BY <1>1, <3>2, AttrOfType DEF CopyInv, CopyTypes
    <3> QED BY <1>1, <3>1, <3>3 DEF CopyInv, CopyFollows, Agrees
  <2> QED BY <2>2, <2>3
<1> QED BY <1>4, <1>6, <1>7 DEF CopyInv

\* Nothing that the copies depend on.
LEMMA OtherKeeps ==
    ASSUME CopyInv, UNCHANGED <<worker, subscribed, dev, events, local, excused, call>>,
           caller' = caller \/ (caller = "listen" /\ caller' = "idle")
    PROVE  CopyInv'
BY NothingOnItsWay DEF CopyInv, CopyTypes, CopyFollows, Agrees

LEMMA CopyNext == CopyInv /\ ThreadsSound /\ [Next]_vars => CopyInv'
<1> SUFFICES ASSUME CopyInv, ThreadsSound, [Next]_vars PROVE CopyInv'
  OBVIOUS
<1>1. CASE UNCHANGED vars \/ ListenReturns \/ StopListening
  BY <1>1, OtherKeeps
     DEF vars, ListenReturns, StopListening, callerVars, workerVars, history
<1>2. CASE \E a \in Attrs : \E v \in Value(a) : DeviceChanges(a, v)
  BY <1>2, DeviceKeeps
<1>3. CASE Application
  <2>1. CASE \/ \E v \in PlayStates : Command(v) \/ SetState(v)
             \/ \E v \in Volumes : SetVolume(v)
             \/ Fetch
    BY <2>1, SentKeeps
  <2>2. CASE \E v \in PlayStates : SetStateUnsent(v)
    BY <2>2, UnsentKeeps
  <2>3. CASE \E w \in Workers : Listen(w)
    BY <2>3, StartsKeeps
  <2> QED BY <1>1, <1>3, <2>1, <2>2, <2>3, ExecutesKeeps, ReturnsKeeps, FailsKeeps
      DEF Application
<1>4. ASSUME NEW w \in Workers, Setup(w) \/ Loop(w) PROVE CopyInv'
  BY <1>4, AttemptCopies, StartsKeeps, EndsKeeps DEF Setup, Loop
<1>5. ASSUME NEW w \in Workers, WorkerRaises(w) PROVE CopyInv'
  BY <1>5, EndsKeeps
<1>6. ASSUME NEW w \in Workers, NEW s \in Services,
             HandleEvent(w, s) \/ LoseEvent(w, s)
      PROVE  CopyInv'
  BY <1>6, EventKeeps
<1> QED BY <1>1, <1>2, <1>3, <1>4, <1>5, <1>6 DEF Next

\* When all that was sent has been handled and no command is under way, the
\* client holds what the soundbar does, for any number of listener threads,
\* whatever order their events, the commands and the remote control met in
\* (on_event_wrapper, set_state, set_volume_level, volume_level).
THEOREM CopiesFollow == Spec => []LocalFollowsDevice
<1>1. CopyInv /\ ThreadsSound => LocalFollowsDevice
  <2> SUFFICES ASSUME CopyInv, ThreadsSound, NEW w \in Workers,
                      NEW s \in subscribed[w], Alive(w), call = None,
                      \A x \in Workers : events[x][s] = <<>>,
                      AttrOf(s) \notin excused
               PROVE  Agrees(AttrOf(s), local[AttrOf(s)], dev[AttrOf(s)])
    BY DEF LocalFollowsDevice, Agrees
  <2>1. caller # "call"
    BY NoneAssumption DEF CopyInv, CopyTypes
  <2>2. s \in Services /\ Quiet(s)
    BY DEF Quiet, ThreadsSound
  <2> QED BY <2>1, <2>2, IdleAgrees
<1> QED BY <1>1, ListenerInit, ListenerNext, SoundThreads, CopyInit, CopyNext, PTL
    DEF Spec

-----------------------------------------------------------------------------
(* Types                                                                   *)

Flags ==
    /\ listening \in BOOLEAN /\ stoppedInListen \in BOOLEAN
    /\ incidents \in 0 .. MaxIncidents
    /\ excused \in SUBSET Attrs

\* What the application's thread waits for.
Waits ==
    /\ caller \in {"idle", "listen", "call"}
    /\ awaited \in Workers \cup {None}
    /\ caller = "listen" => awaited \in Workers /\ worker[awaited] # "off"
    /\ caller # "call" => call = None

Copies ==
    /\ \A a \in Attrs : local[a] \in Real(a) \cup {Unset}
    /\ \A w \in Workers, s \in Services : events[w][s] \in Seq(Real(AttrOf(s)))

LEMMA TypesInit == Init => Flags /\ Waits /\ Copies
<1> SUFFICES ASSUME Init PROVE Flags /\ Waits /\ Copies
  OBVIOUS
<1>1. Flags
  <2>1. incidents \in 0 .. MaxIncidents
    BY YamahaBounds DEF Init
  <2> QED BY <2>1 DEF Init, Flags
<1>2. Waits
  BY DEF Init, Waits
<1>3. Copies
  <2>1. \A S : <<>> \in Seq(S)
    OBVIOUS
  <2> QED BY <2>1 DEF Init, Copies
<1> QED BY <1>1, <1>2, <1>3

LEMMA FlagSteps ==
    ASSUME [Next]_vars
    PROVE  /\ UNCHANGED incidents \/ Incident
           /\ listening' \in {listening, TRUE, FALSE}
           /\ stoppedInListen' \in {stoppedInListen, FALSE,
                                    stoppedInListen \/ caller = "listen"}
BY DEF Next, vars, Application, Setup, Loop, DeviceChanges, Command, SetState,
       SetStateUnsent, SetVolume, Fetch, Send, DeviceExecutes, FetchReturns,
       CallFails, Listen, StopListening, ListenReturns, Subscribe,
       SubscribeFails, Subscribed, StartLoop, LoopEnds, End, Resubscribe,
       RetriesDone, Retry, RetryFails, Try, WorkerRaises, HandleEvent, LoseEvent,
       callerVars, workerVars, history

\* What a step adds to excused is an attribute.
LEMMA ExcusedNext ==
    ASSUME CopyTypes, excused \in SUBSET Attrs, [Next]_vars
    PROVE  excused' \in SUBSET Attrs
<1>1. \A s \in Services : AttrOf(s) \in Attrs
  BY AttrOfType
<1>2. caller = "call" => call.attr \in Attrs
  BY DEF CopyTypes
<1>3. CASE UNCHANGED excused
  BY <1>3
<1>4. CASE \/ excused' = excused \cup {"state"}
           \/ caller = "call" /\ excused' = excused \cup {call.attr}
           \/ \E s \in Services : excused' = excused \cup {AttrOf(s)}
           \/ \E w \in Workers : DropEvents(w)
  BY <1>1, <1>2, <1>4 DEF DropEvents, Attrs
<1> QED
  BY <1>3, <1>4
     DEF Next, vars, Application, Setup, Loop, DeviceChanges, Command, SetState,
       SetStateUnsent, SetVolume, Fetch, Send, DeviceExecutes, FetchReturns,
       CallFails, Listen, StopListening, ListenReturns, Subscribe,
       SubscribeFails, Subscribed, StartLoop, LoopEnds, End, Resubscribe,
       RetriesDone, Retry, RetryFails, Try, WorkerRaises, HandleEvent, LoseEvent,
       callerVars, workerVars, history

LEMMA FlagsNext ==
    ASSUME CopyTypes, Flags, [Next]_vars
    PROVE  Flags'
<1>1. incidents' \in 0 .. MaxIncidents
  <2>1. incidents \in 0 .. MaxIncidents
    BY DEF Flags
  <2>2. UNCHANGED incidents \/ (incidents < MaxIncidents /\ incidents' = incidents + 1)
    BY FlagSteps DEF Incident
  <2> QED BY <2>1, <2>2, YamahaBounds
<1>2. listening' \in BOOLEAN /\ stoppedInListen' \in BOOLEAN
  BY FlagSteps DEF Flags
<1>3. excused' \in SUBSET Attrs
  BY ExcusedNext DEF Flags
<1> QED BY <1>1, <1>2, <1>3 DEF Flags

LEMMA WaitsNext ==
    ASSUME ThreadsSound, Waits, [Next]_vars
    PROVE  Waits'
<1>1. \A w \in Workers : worker[w] # "off" => worker'[w] # "off"
  BY DEF ThreadsSound, Next, vars, Application, Setup, Loop, DeviceChanges, Command, SetState,
       SetStateUnsent, SetVolume, Fetch, Send, DeviceExecutes, FetchReturns,
       CallFails, Listen, StopListening, ListenReturns, Subscribe,
       SubscribeFails, Subscribed, StartLoop, LoopEnds, End, Resubscribe,
       RetriesDone, Retry, RetryFails, Try, WorkerRaises, HandleEvent, LoseEvent,
       callerVars, workerVars, history
<1>2. CASE UNCHANGED callerVars
  BY <1>1, <1>2 DEF Waits, callerVars
<1>3. CASE caller' = "call" /\ UNCHANGED awaited
  BY <1>3 DEF Waits
<1>4. CASE caller = "call" /\ caller' = "idle" /\ call' = None /\ UNCHANGED awaited
  BY <1>4 DEF Waits
<1>5. CASE \E w \in Workers : Listen(w)
  BY <1>5 DEF Waits, Listen, ThreadsSound
<1>6. CASE ListenReturns
  BY <1>6 DEF Waits, ListenReturns
<1> QED
  BY <1>2, <1>3, <1>4, <1>5, <1>6
     DEF Next, vars, Application, Setup, Loop, DeviceChanges, Command, SetState,
       SetStateUnsent, SetVolume, Fetch, Send, DeviceExecutes, FetchReturns,
       CallFails, StopListening, Subscribe,
       SubscribeFails, Subscribed, StartLoop, LoopEnds, End, Resubscribe,
       RetriesDone, Retry, RetryFails, Try, WorkerRaises, HandleEvent, LoseEvent,
       callerVars, workerVars

LEMMA LocalNext ==
    ASSUME CopyTypes, Copies, [Next]_vars, NEW a \in Attrs
    PROVE  local'[a] \in Real(a) \cup {Unset}
<1>1. local \in [Attrs -> PlayStates \cup 0 .. 100 \cup {Unset}] /\ local[a] \in Real(a) \cup {Unset}
  BY DEF CopyTypes, Copies
<1>2. ASSUME NEW b \in Attrs, NEW v \in Real(b), local' = [local EXCEPT ![b] = v]
      PROVE  local'[a] \in Real(a) \cup {Unset}
  BY <1>1, <1>2
<1>3. CASE UNCHANGED local
  BY <1>1, <1>3
<1>4. CASE \E v \in PlayStates : SetState(v) \/ SetStateUnsent(v)
  BY <1>2, <1>4 DEF SetState, SetStateUnsent, Real, Attrs
<1>5. CASE \E v \in Volumes : SetVolume(v)
  BY <1>2, <1>5, VolumeAssumption DEF SetVolume, Real, Attrs
<1>6. CASE FetchReturns
  BY <1>2, <1>6 DEF FetchReturns, CopyTypes
<1>7. ASSUME NEW w \in Workers, NEW s \in Services, HandleEvent(w, s)
      PROVE  local'[a] \in Real(a) \cup {Unset}
  <2>1. PICK q : q = events[w][s]
    OBVIOUS
  <2>2. q \in Seq(Real(AttrOf(s))) /\ q # <<>>
    BY <1>7, <2>1 DEF Copies, HandleEvent
  <2>3. Head(q) \in Real(AttrOf(s))
    BY <2>2
  <2>4. local' = [local EXCEPT ![AttrOf(s)] = Head(q)]
    BY <1>7, <2>1 DEF HandleEvent, FromEvent
  <2> QED BY <1>2, <2>3, <2>4, AttrOfType
<1> QED
  BY <1>3, <1>4, <1>5, <1>6, <1>7
     DEF Next, vars, Application, Setup, Loop, DeviceChanges, Command,
       Fetch, DeviceExecutes,
       CallFails, Listen, StopListening, ListenReturns, Subscribe,
       SubscribeFails, Subscribed, StartLoop, LoopEnds, End, Resubscribe,
       RetriesDone, Retry, RetryFails, Try, WorkerRaises, LoseEvent

\* What a step leaves of a queue: all, nothing, its tail, or one more value,
\* which the soundbar has then.
LEMMA QueueNext ==
    ASSUME CopyTypes, [Next]_vars, NEW w \in Workers, NEW s \in Services
    PROVE  LET q == events[w][s] IN
               events'[w][s] \in {q, <<>>, Append(q, dev'[AttrOf(s)])}
                   \cup {Tail(x) : x \in {y \in {q} : y # <<>>}}
<1> DEFINE q == events[w][s]
           Goal == events'[w][s] \in {q, <<>>, Append(q, dev'[AttrOf(s)])}
                       \cup {Tail(x) : x \in {y \in {q} : y # <<>>}}
<1> SUFFICES Goal
  OBVIOUS
<1>1. events \in [Workers -> [Services -> Seq(PlayStates \cup 0 .. 100)]]
  BY DEF CopyTypes
<1>2. CASE UNCHANGED events
  BY <1>2
<1>3. ASSUME NEW new, Becomes(new) PROVE Goal
  BY <1>3 DEF Becomes
<1>4. ASSUME NEW x \in Workers, DropEvents(x) PROVE Goal
  BY <1>1, <1>4 DEF DropEvents
<1>5. ASSUME NEW x \in Workers, NEW t \in Services, Subscribed(x, t), UNCHANGED dev PROVE Goal
  BY <1>1, <1>5 DEF Subscribed
<1>6. ASSUME NEW x \in Workers, NEW t \in Services, events[x][t] # <<>>,
             events' = [events EXCEPT ![x][t] = Tail(@)]
      PROVE  Goal
  BY <1>1, <1>6
<1>7. CASE Application
  BY <1>2, <1>3, <1>7
     DEF Application, Command, SetState, SetStateUnsent, SetVolume, Fetch, Send,
         DeviceExecutes, FetchReturns, CallFails, Listen, StopListening
<1>8. ASSUME NEW x \in Workers, Setup(x) \/ Loop(x) \/ WorkerRaises(x) PROVE Goal
  BY <1>2, <1>4, <1>5, <1>8
     DEF Setup, Loop, Subscribe, SubscribeFails, StartLoop, LoopEnds, End,
         Resubscribe, RetriesDone, Retry, RetryFails, Try, WorkerRaises
<1>9. ASSUME NEW x \in Workers, NEW t \in Services, HandleEvent(x, t) \/ LoseEvent(x, t)
      PROVE  Goal
  BY <1>6, <1>9 DEF HandleEvent, LoseEvent
<1>10. ASSUME NEW a \in Attrs, NEW v \in Value(a), DeviceChanges(a, v) PROVE Goal
  BY <1>3, <1>10 DEF DeviceChanges
<1>11. CASE ListenReturns \/ UNCHANGED vars
  BY <1>2, <1>11 DEF ListenReturns, vars
<1> HIDE DEF Goal
<1> QED BY <1>7, <1>8, <1>9, <1>10, <1>11 DEF Next

LEMMA CopiesNext ==
    ASSUME CopyTypes, CopyTypes', Copies, [Next]_vars
    PROVE  Copies'
<1>1. \A a \in Attrs : local'[a] \in Real(a) \cup {Unset}
  BY LocalNext
<1>2. ASSUME NEW w \in Workers, NEW s \in Services
      PROVE  events'[w][s] \in Seq(Real(AttrOf(s)))
  <2>1. PICK S, q, r, d : /\ S = Real(AttrOf(s)) /\ q = events[w][s]
                          /\ r = events'[w][s] /\ d = dev'[AttrOf(s)]
    OBVIOUS
  <2>2. d \in S
    BY <2>1, AttrOfType DEF CopyTypes, Real, Attrs
  <2>3. q \in Seq(S)
    BY <2>1 DEF Copies
  <2>4. r = q \/ r = <<>> \/ r = Append(q, d) \/ (q # <<>> /\ r = Tail(q))
    BY <2>1, QueueNext
  <2>5. r \in Seq(S)
    <3>1. <<>> \in Seq(S) /\ Append(q, d) \in Seq(S)
      BY <2>2, <2>3
    <3>2. q # <<>> => Tail(q) \in Seq(S)
      BY <2>3
    <3> QED BY <2>3, <2>4, <3>1, <3>2
  <2> QED BY <2>1, <2>5
<1> QED BY <1>1, <1>2 DEF Copies

\* Every variable of the client keeps its type, for any states, volumes and
\* listener threads: what `listen` waits for is a thread that was started, a
\* command under way is one, and a volume, which a command may put one below
\* the level it was given (set_volume_level), stays one of the soundbar's.
THEOREM ListenerTypes == Spec => []TypeOK
<1>1. ThreadTypes /\ CopyTypes /\ Flags /\ Waits /\ Copies => TypeOK
  <2> SUFFICES ASSUME ThreadTypes, CopyTypes, Flags, Waits, Copies PROVE TypeOK
    OBVIOUS
  <2>1. call \in Calls \cup {None} /\ (caller = "call" => call # None)
    BY NoneAssumption DEF CopyTypes, Waits, Calls, Attrs
  <2>2. dev \in [state : PlayStates, volume : 0 .. 100]
    BY DEF CopyTypes
  <2> QED BY <2>1, <2>2 DEF ThreadTypes, Flags, Waits, Copies, TypeOK
<1>2. ListenerInv => ThreadTypes
  BY DEF ListenerInv
<1>3. CopyInv => CopyTypes
  BY DEF CopyInv
<1>4. CopyTypes /\ CopyTypes' /\ ThreadsSound /\ Flags /\ Waits /\ Copies /\ [Next]_vars
          => (Flags /\ Waits /\ Copies)'
  BY FlagsNext, WaitsNext, CopiesNext
<1> QED BY <1>1, <1>2, <1>3, <1>4, TypesInit, ListenerInit, ListenerNext, SoundThreads,
           CopyInit, CopyNext, PTL DEF Spec
=============================================================================
