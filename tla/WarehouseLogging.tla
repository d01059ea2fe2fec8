-------------------------- MODULE WarehouseLogging --------------------------
(***************************************************************************)
(* Logging into Item Warehouses through a queue                            *)
(* (wg_utilities/loggers/item_warehouse, functions/decorators.py).         *)
(*                                                                         *)
(* add_warehouse_handler gives a logger a queue handler and starts a       *)
(* listener thread that posts what it takes from the queue to the          *)
(* handler's warehouse, retrying with backoff.  All handlers and listeners *)
(* share the module's one LOG_QUEUE.  At exit, callbacks that were pushed  *)
(* when the handlers were added put sentinels on the queue, wait for it to *)
(* drain and join the threads.  A handler stands for the queue handler,    *)
(* its listener and its WarehouseHandler together.                         *)
(***************************************************************************)
EXTENDS Naturals, Sequences, FiniteSets

CONSTANTS
    Handlers,
    Warehouses,
    Dest,           \* [Handlers -> Warehouses]: the handler's base_url
    AppRecords,     \* records the application logs
    OwnRecords,     \* records the package's own loggers emit about the above
    HandlersOf,     \* [Records -> SUBSET Handlers]: on the record's logger or
                    \* on one it propagates to
    Keys,
    Key,            \* [Records -> Keys]: (log_hash, logger, log_host)
    TryLimits,      \* values of WAREHOUSE_HANDLER_BACKOFF_MAX_TRIES (0: none)
    Sentinel,       \* the None that ends a listener
    NoRecord

Records == AppRecords \cup OwnRecords

ASSUME RecordAssumption  == /\ AppRecords \cap OwnRecords = {}
                            /\ Sentinel \notin Records
                            /\ NoRecord \notin Records
ASSUME HandlerAssumption == /\ Dest \in [Handlers -> Warehouses]
                            /\ HandlersOf \in [Records -> SUBSET Handlers]
                            /\ Key \in [Records -> Keys]
                            /\ IsFiniteSet(Handlers)
ASSUME LimitAssumption   == TryLimits \subseteq Nat

VARIABLES
    maxTries,   \* the retry limit of this program run
    attached,   \* handlers that have been added
    atexitOps,  \* callbacks registered with atexit, run last to first
    queue,      \* LOG_QUEUE
    piped,      \* how many items, from the head, the feeder thread has put in
                \* the pipe: the others are neither gettable nor seen by empty()
    listener,   \* [Handlers -> state of the listener thread]
    job,        \* [Handlers -> Records or NoRecord]: being posted
    tries,      \* [Handlers -> Nat]: failed attempts, counted if limited
    main,       \* where the main thread is
    stored,     \* [Warehouses -> SUBSET Keys]
    \* history
    logged,     \* sequence of the records put on the queue
    refused,    \* records a warehouse answered with a permanent error
    abandoned   \* records whose retries ran out

listenerVars == <<listener, job, tries>>
queueVars    == <<queue, piped, logged>>
outcomeVars  == <<stored, refused, abandoned>>
vars == <<maxTries, attached, atexitOps, queueVars, listenerVars, main, outcomeVars>>

ListenerStates == {"off", "waiting", "posting", "ended", "dead"}
MainStates     == {"running", "exiting", "joining", "done"}
Ops            == [op : {"put", "flush", "info"}, of : Handlers]

\* Types; a listener thread holds a record just while it is posting it, and
\* the main thread joins a thread only on behalf of a registered callback.
TypeOK ==
    /\ maxTries \in TryLimits
    /\ attached \in SUBSET Handlers
    /\ atexitOps \in Seq(Ops)
    /\ queue \in Seq(Records \cup {Sentinel})
    /\ piped \in 0 .. Len(queue)
    /\ listener \in [Handlers -> ListenerStates]
    /\ job \in [Handlers -> Records \cup {NoRecord}]
    /\ tries \in [Handlers -> Nat]
    /\ main \in MainStates
    /\ stored \in [Warehouses -> SUBSET Keys]
    /\ logged \in Seq(Records)
    /\ refused \in SUBSET Records
    /\ abandoned \in SUBSET Records
    /\ \A h \in Handlers : (job[h] # NoRecord) = (listener[h] = "posting")
    /\ main = "joining" => atexitOps # <<>>

Init ==
    /\ maxTries \in TryLimits
    /\ attached = {}
    /\ atexitOps = <<>>
    /\ queue = <<>> /\ piped = 0
    /\ listener = [h \in Handlers |-> "off"]
    /\ job = [h \in Handlers |-> NoRecord]
    /\ tries = [h \in Handlers |-> 0]
    /\ main = "running"
    /\ stored = [w \in Warehouses |-> {}]
    /\ logged = <<>> /\ refused = {} /\ abandoned = {}

-----------------------------------------------------------------------------
WasLogged(r) == \E i \in DOMAIN logged : logged[i] = r

\* A record is enqueued once by each handler it reaches.
Reached(r) == attached \cap HandlersOf[r]
Copies(r)  == [i \in 1 .. Cardinality(Reached(r)) |-> r]

\* The package logs a message of its own, then something is put on the queue.
\* Bound: each member of OwnRecords is emitted once.
OwnMessages == {r \in OwnRecords : ~WasLogged(r) /\ Reached(r) # {}}

LogOwnThen(items) ==
    IF OwnMessages = {}
    THEN queue' = queue \o items /\ UNCHANGED logged
    ELSE \E r \in OwnMessages : /\ queue' = queue \o Copies(r) \o items
                                /\ logged' = Append(logged, r)

-----------------------------------------------------------------------------
(* The main thread                                                         *)

\* add_warehouse_handler; for a handler equal to one the logger has, it
\* returns that one and changes nothing.
AddHandler(h) ==
    /\ main = "running" /\ h \notin attached
    /\ attached' = attached \cup {h}
    /\ listener' = [listener EXCEPT ![h] = "waiting"]
    /\ atexitOps' = atexitOps \o << [op |-> "info", of |-> h],
                                    [op |-> "flush", of |-> h],
                                    [op |-> "put", of |-> h] >>
    /\ UNCHANGED <<maxTries, queueVars, job, tries, main, outcomeVars>>

Log(r) ==
    /\ main = "running" /\ ~WasLogged(r) /\ Reached(r) # {}
    /\ queue' = queue \o Copies(r)
    /\ logged' = Append(logged, r)
    /\ UNCHANGED <<maxTries, attached, atexitOps, piped, listenerVars, main,
                   outcomeVars>>

BeginExit ==
    /\ main = "running"
    /\ main' = "exiting"
    /\ UNCHANGED <<maxTries, attached, atexitOps, queueVars, listenerVars,
                   outcomeVars>>

NextOp  == atexitOps[Len(atexitOps)]
NextIs(op) == atexitOps # <<>> /\ NextOp.op = op
PopOp   == atexitOps' = SubSeq(atexitOps, 1, Len(atexitOps) - 1)

\* Mutant: one sentinel too many.
ExitPutTwo ==
    /\ main = "exiting" /\ NextIs("put")
    /\ queue' = queue \o <<Sentinel, Sentinel>>
    /\ PopOp
    /\ UNCHANGED <<maxTries, attached, piped, logged, listenerVars, main,
                   outcomeVars>>

\* LOG_QUEUE.put(None)
ExitPut ==
    /\ main = "exiting" /\ NextIs("put")
    /\ queue' = Append(queue, Sentinel)
    /\ PopOp
    /\ UNCHANGED <<maxTries, attached, piped, logged, listenerVars, main,
                   outcomeVars>>

\* LOGGER.info("Stopped WarehouseHandler")
ExitInfo ==
    /\ main = "exiting" /\ NextIs("info")
    /\ LogOwnThen(<<>>)
    /\ PopOp
    /\ UNCHANGED <<maxTries, attached, piped, listenerVars, main, outcomeVars>>

\* flush_and_stop looks at the queue once a second
Flushing == main = "exiting" /\ NextIs("flush")

\* until it is empty, then enqueues a sentinel ...
FlushEmpty ==
    /\ Flushing /\ piped = 0
    /\ queue' = Append(queue, Sentinel)
    /\ main' = "joining"
    /\ UNCHANGED <<maxTries, attached, atexitOps, piped, logged, listenerVars,
                   outcomeVars>>

\* Mutant: the loop is not left when the time is up.
FlushGoesOn ==
    /\ Flushing /\ piped > 0
    /\ LogOwnThen(<<>>)
    /\ UNCHANGED <<maxTries, attached, atexitOps, piped, listenerVars, main,
                   outcomeVars>>

\* ... or until its own timeout, which it reports, and enqueues one as well ...
FlushTimesOut ==
    /\ Flushing /\ piped > 0
    /\ LogOwnThen(<<Sentinel>>)
    /\ main' = "joining"
    /\ UNCHANGED <<maxTries, attached, atexitOps, piped, listenerVars, outcomeVars>>

\* Mutant: the thread is not joined.
LeaveThread ==
    /\ main = "joining"
    /\ main' = "exiting"
    /\ PopOp
    /\ UNCHANGED <<maxTries, attached, queueVars, listenerVars, outcomeVars>>

\* ... and joins the thread of its own handler.
Join ==
    /\ main = "joining"
    /\ listener[NextOp.of] \in {"ended", "dead"}
    /\ main' = "exiting"
    /\ PopOp
    /\ UNCHANGED <<maxTries, attached, queueVars, listenerVars, outcomeVars>>

\* The listeners are daemon threads: they end with the process.
ExitDone ==
    /\ main = "exiting" /\ atexitOps = <<>>
    /\ main' = "done"
    /\ UNCHANGED <<maxTries, attached, atexitOps, queueVars, listenerVars,
                   outcomeVars>>

-----------------------------------------------------------------------------
(* The queue's feeder thread and the listener threads                      *)

Alive == main # "done"

Feed ==
    /\ Alive /\ piped < Len(queue)
    /\ piped' = piped + 1
    /\ UNCHANGED <<maxTries, attached, atexitOps, queue, logged, listenerVars,
                   main, outcomeVars>>

\* QueueListener._monitor: a sentinel ends the thread, whoever it was for.
Dequeue(h) ==
    /\ Alive /\ listener[h] = "waiting" /\ piped > 0
    /\ queue' = Tail(queue)
    /\ piped' = piped - 1
    /\ IF Head(queue) = Sentinel
       THEN listener' = [listener EXCEPT ![h] = "ended"] /\ UNCHANGED job
       ELSE /\ listener' = [listener EXCEPT ![h] = "posting"]
            /\ job' = [job EXCEPT ![h] = Head(queue)]
    /\ UNCHANGED <<maxTries, attached, atexitOps, logged, tries, main, outcomeVars>>

Posting(h) == Alive /\ listener[h] = "posting"

StoreAt(h) == stored' = [stored EXCEPT ![Dest[h]] = @ \cup {Key[job[h]]}]
Holds(h)   == Key[job[h]] \in stored[Dest[h]]

\* Mutant: the listener keeps hold of the record it has dealt with.
KeepJob(h) ==
    /\ listener' = [listener EXCEPT ![h] = "waiting"]
    /\ tries' = [tries EXCEPT ![h] = 0]
    /\ UNCHANGED job

\* post_with_backoff returns and the listener goes on to the next record.
Finish(h) ==
    /\ listener' = [listener EXCEPT ![h] = "waiting"]
    /\ job' = [job EXCEPT ![h] = NoRecord]
    /\ tries' = [tries EXCEPT ![h] = 0]

\* The warehouse stores the record, or answers CONFLICT as it has the key.
PostSucceeds(h) ==
    /\ Posting(h)
    /\ StoreAt(h)
    /\ Finish(h)
    /\ UNCHANGED <<maxTries, attached, atexitOps, queueVars, main, refused, abandoned>>

\* Any other 4xx than TOO_MANY_REQUESTS is logged and the record dropped.
PostRefused(h) ==
    /\ Posting(h)
    /\ refused' = refused \cup {job[h]}
    /\ LogOwnThen(<<>>)
    /\ Finish(h)
    /\ UNCHANGED <<maxTries, attached, atexitOps, piped, main, stored, abandoned>>

\* The decorator's worker gives up when the tries are used up ...
OutOfTries(h) == 0 < maxTries /\ maxTries <= tries[h] + 1

\* Mutant: the exception is swallowed and the record forgotten.
Forget(h) == Finish(h) /\ UNCHANGED abandoned

\* The exception leaves emit and ends the listener thread.
GiveUp(h) ==
    /\ listener' = [listener EXCEPT ![h] = "dead"]
    /\ job' = [job EXCEPT ![h] = NoRecord]
    /\ abandoned' = abandoned \cup {job[h]}
    /\ tries' = [tries EXCEPT ![h] = 0]

\* Bound: tries are counted only when they are limited.
TryAgain(h) ==
    /\ tries' = [tries EXCEPT ![h] = IF maxTries = 0 THEN 0 ELSE @ + 1]
    /\ UNCHANGED <<listener, job, abandoned>>

\* No answer, TOO_MANY_REQUESTS or a server error; the record may have been
\* stored all the same.  The decorator logs a warning on each failure.
Failure(h) ==
    /\ Posting(h)
    /\ UNCHANGED stored \/ (~Holds(h) /\ StoreAt(h))
    /\ LogOwnThen(<<>>)
    /\ UNCHANGED <<maxTries, attached, atexitOps, piped, main, refused>>

\* Mutant: instead of waiting, the record goes to the end of the queue.
Requeue(h) ==
    /\ Posting(h)
    /\ queue' = Append(queue, job[h])
    /\ Finish(h)
    /\ UNCHANGED <<maxTries, attached, atexitOps, piped, logged, main, outcomeVars>>

PostFails(h) ==
    /\ Failure(h)
    /\ IF OutOfTries(h) THEN GiveUp(h) ELSE TryAgain(h)

\* Mutant: the time that has passed is not looked at.
RetryForEver(h) ==
    /\ Failure(h)
    /\ TryAgain(h)

\* ... or the timeout (a day at most) has passed, which it looks at after a
\* failure.  Time is not modelled: it may have passed at any failure.
PostFailsLate(h) ==
    /\ Failure(h)
    /\ GiveUp(h)

-----------------------------------------------------------------------------
Exit == ExitPut \/ ExitInfo \/ FlushEmpty \/ FlushTimesOut \/ Join \/ ExitDone

Post(h) == PostSucceeds(h) \/ PostRefused(h) \/ PostFails(h) \/ PostFailsLate(h)

Next ==
    \/ \E h \in Handlers : AddHandler(h)
    \/ \E r \in AppRecords : Log(r)
    \/ BeginExit
    \/ Exit
    \/ Feed
    \/ \E h \in Handlers : Dequeue(h) \/ Post(h)

\* Threads are scheduled; attempts end (each has a timeout) and the time for
\* them passes; a queue.get is served in the end.  The application need not exit.
Fairness ==
    /\ WF_vars(Exit)
    /\ WF_vars(Feed)
    /\ \A h \in Handlers : /\ SF_vars(Dequeue(h))
                           /\ WF_vars(PostFailsLate(h))

Spec     == Init /\ [][Next]_vars
FairSpec == Spec /\ Fairness

-----------------------------------------------------------------------------
(* Properties                                                              *)

InQueue(r) == \E i \in DOMAIN queue : queue[i] = r
InHand(r)  == \E h \in Handlers : job[h] = r
Settled(r) == WasLogged(r) /\ ~InQueue(r) /\ ~InHand(r)

\* The threads, the shared queue and the retries implement LogDelivery: no
\* copy of a record disappears without being stored, refused or abandoned.
PendingCopies(r) ==
    Cardinality({i \in DOMAIN queue : queue[i] = r})
        + Cardinality({h \in Handlers : job[h] = r})

Delivery == INSTANCE LogDelivery WITH pending <- [r \in Records |-> PendingCopies(r)]

ImplementsDelivery == Delivery!Spec

\* With one handler, records are dealt with in the order they were logged: a
\* record that is being retried is not overtaken.
OrderKept ==
    Cardinality(attached) = 1 =>
        \A i, j \in DOMAIN logged :
            i < j /\ Settled(logged[j]) => Settled(logged[i])

\* When the program has exited, and a listener lived to see its end, nothing
\* the application logged is left on the queue or in a thread that dies with
\* the process, however many handlers shared the queue and its sentinels.
ExitDrains ==
    main = "done" /\ (\E h \in attached : listener[h] = "ended") =>
        \A r \in AppRecords : WasLogged(r) => Settled(r)

\* While the exit of a program with one handler waits for the queue to drain,
\* the listener that can drain it has not ended, unless the package's own
\* messages reach the queue too.
FlushNotStuck ==
    \A h \in Handlers :
        Flushing /\ attached = {h} /\ queue # <<>>
        /\ (\A r \in OwnRecords : h \notin HandlersOf[r])
            => listener[h] # "ended"

\* The exit ends, whether or not the warehouses ever answer.
ExitEnds == main = "exiting" ~> main = "done"

\* As long as a listener survives, every record is dealt with in the end.
EveryRecordSettled ==
    \A r \in AppRecords :
        WasLogged(r) ~> \/ Settled(r)
                        \/ \A h \in attached : listener[h] = "dead"
                        \/ main = "done"

\* A warehouse holds only records that were logged through a handler for it
\* ("warehouse_host (str): the hostname of the Item Warehouse").
RightWarehouse ==
    \A w \in Warehouses, r \in Records :
        Key[r] \in stored[w] => \E h \in HandlersOf[r] : Dest[h] = w
=============================================================================
