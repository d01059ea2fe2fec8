--------------------------- MODULE WarehouseProofs ---------------------------
(***************************************************************************)
(* What WarehouseLogging promises, for any finite set of handlers, any     *)
(* records, loggers and warehouses and any limits of the retries.          *)
(***************************************************************************)
EXTENDS WarehouseLogging, FiniteSetTheorems, TLAPS

Items == Records \cup {Sentinel}

\* The records logged so far.
Past == {logged[i] : i \in DOMAIN logged}

\* What is on the queue or in hand was logged, and nothing is logged twice or
\* before there is a handler.
LoggedInv ==
    /\ \A p \in DOMAIN queue : queue[p] # Sentinel => queue[p] \in Past
    /\ \A h \in Handlers : job[h] # NoRecord => job[h] \in Past
    /\ \A i, j \in DOMAIN logged : logged[i] = logged[j] => i = j
    /\ attached = {} => logged = <<>>

\* A listener is started when its handler is added.
OffInv == \A h \in Handlers \ attached : listener[h] = "off"

\* With one handler, what it holds was logged before what is on the queue,
\* and that is on the queue in the order it was logged.
OrderInv ==
    \A h \in Handlers : attached = {h} =>
        /\ \A i, j \in DOMAIN logged :
              i < j /\ Settled(logged[j]) => Settled(logged[i])
        /\ \A p, q \in DOMAIN queue, i, j \in DOMAIN logged :
              p < q /\ queue[p] = logged[i] /\ queue[q] = logged[j] => i < j
        /\ \A q \in DOMAIN queue, i, j \in DOMAIN logged :
              job[h] = logged[i] /\ queue[q] = logged[j] => i < j

Over(h) == listener[h] \in {"ended", "dead"}

\* A sentinel comes after all that the application logged.
SentinelInv ==
    /\ main = "running" => /\ \A p \in DOMAIN queue : queue[p] # Sentinel
                           /\ \A h \in Handlers : listener[h] # "ended"
    /\ \A p, q \in DOMAIN queue :
          p < q /\ queue[p] = Sentinel => queue[q] \notin AppRecords
    /\ (\E h \in Handlers : listener[h] = "ended") =>
          \A p \in DOMAIN queue : queue[p] \notin AppRecords

\* The exit joins every listener.
JoinInv ==
    /\ \A h \in attached :
          Over(h) \/ \E k \in DOMAIN atexitOps : atexitOps[k] = [op |-> "flush", of |-> h]
    /\ main = "joining" => NextIs("flush")
    /\ main = "done" => atexitOps = <<>>

WarehouseInv == TypeOK /\ OffInv /\ LoggedInv /\ OrderInv /\ SentinelInv /\ JoinInv

-----------------------------------------------------------------------------
(* What is put on the queue                                                *)

\* Something is put on the queue, perhaps after the copies of one of R, which
\* is logged at that moment.
Puts(R, items) ==
    \/ queue' = queue \o items /\ logged' = logged
    \/ \E r \in R : /\ ~WasLogged(r) /\ Reached(r) # {}
                    /\ queue' = queue \o Copies(r) \o items
                    /\ logged' = Append(logged, r)

\* The same, item by item.
Grown(R, items) ==
    /\ queue' \in Seq(Items) /\ Len(queue) <= Len(queue')
    /\ \A p \in 1 .. Len(queue) : queue'[p] = queue[p]
    /\ \A p \in Len(queue) + 1 .. Len(queue') :
          \/ queue'[p] = Sentinel /\ items # <<>>
          \/ /\ queue'[p] \in R /\ ~WasLogged(queue'[p])
             /\ logged' = Append(logged, queue'[p])
    /\ \/ logged' = logged
       \/ \E r \in R : /\ ~WasLogged(r) /\ Reached(r) # {}
                       /\ logged' = Append(logged, r)
                       /\ \E p \in 1 .. Len(queue') : queue'[p] = r
    /\ \A h \in Handlers : attached = {h} =>
          \A p, q \in Len(queue) + 1 .. Len(queue') :
              p < q => queue'[q] = Sentinel

LEMMA ConcatItems ==
    ASSUME NEW S, NEW s \in Seq(S), NEW t \in Seq(S)
    PROVE  /\ s \o t \in Seq(S) /\ Len(s \o t) = Len(s) + Len(t)
           /\ Len(s) \in Nat /\ Len(t) \in Nat
           /\ \A i \in 1 .. Len(s) : (s \o t)[i] = s[i]
           /\ \A i \in 1 .. Len(t) : (s \o t)[Len(s) + i] = t[i]
OBVIOUS

LEMMA CopiesType ==
    ASSUME attached \in SUBSET Handlers, NEW r \in Records
    PROVE  /\ IsFiniteSet(Reached(r)) /\ Cardinality(Reached(r)) \in Nat
           /\ Copies(r) \in Seq(Items) /\ Len(Copies(r)) = Cardinality(Reached(r))
           /\ \A i \in 1 .. Len(Copies(r)) : Copies(r)[i] = r
<1>1. Reached(r) \in SUBSET Handlers
  BY DEF Reached
<1>2. IsFiniteSet(Reached(r)) /\ Cardinality(Reached(r)) \in Nat
  BY <1>1, HandlerAssumption, FS_Subset, FS_CardinalityType
<1> QED  BY <1>2 DEF Copies, Items

LEMMA PutsGrown ==
    ASSUME queue \in Seq(Items), attached \in SUBSET Handlers,
           NEW R \in SUBSET Records, NEW items \in {<<>>, <<Sentinel>>},
           Puts(R, items)
    PROVE  Grown(R, items)
<1>1. /\ items \in Seq(Items) /\ Len(items) \in 0 .. 1
      /\ \A p \in 1 .. Len(items) : items[p] = Sentinel /\ items # <<>>
  <2>1. CASE items = <<>>
    BY <2>1
  <2>2. CASE items = <<Sentinel>>
    <3>1. Sentinel \in Items /\ Len(items) = 1 /\ items[1] = Sentinel
      BY <2>2 DEF Items
    <3> QED  BY <2>2, <3>1
  <2> QED  BY <2>1, <2>2
<1>2. CASE queue' = queue \o items /\ logged' = logged
  <2>1. /\ queue' \in Seq(Items) /\ Len(queue') = Len(queue) + Len(items)
        /\ \A p \in 1 .. Len(queue) : queue'[p] = queue[p]
        /\ \A p \in Len(queue) + 1 .. Len(queue') :
              queue'[p] = items[p - Len(queue)] /\ p - Len(queue) \in 1 .. Len(items)
    BY <1>1, <1>2
  <2>2. \A p \in Len(queue) + 1 .. Len(queue') : queue'[p] = Sentinel /\ items # <<>>
    BY <1>1, <2>1
  <2> QED  BY <1>1, <1>2, <2>1, <2>2 DEF Grown
<1>3. ASSUME NEW r \in R, ~WasLogged(r), Reached(r) # {},
             queue' = queue \o Copies(r) \o items, logged' = Append(logged, r)
      PROVE  Grown(R, items)
  <2> DEFINE n == Cardinality(Reached(r))
  <2>1. IsFiniteSet(Reached(r)) /\ n \in Nat
    BY CopiesType
  <2>2. n # 0
    BY <2>1, <1>3, FS_EmptySet
  <2>3. ASSUME NEW h \in Handlers, attached = {h}
        PROVE  n = 1
    <3>1. Reached(r) = {h}
      BY <1>3, <2>3 DEF Reached
    <3> QED  BY <3>1, FS_Singleton
  <2>5. /\ Copies(r) \in Seq(Items) /\ Len(Copies(r)) = n
        /\ \A i \in 1 .. n : Copies(r)[i] = r
    BY CopiesType
  <2> HIDE DEF n
  <2> DEFINE new == Copies(r) \o items
  <2>6. /\ new \in Seq(Items) /\ Len(new) = n + Len(items)
        /\ \A i \in 1 .. n : new[i] = r
        /\ \A i \in n + 1 .. Len(new) : new[i] = Sentinel /\ items # <<>>
    <3>1. /\ new \in Seq(Items) /\ Len(new) = n + Len(items)
          /\ \A i \in 1 .. n : new[i] = Copies(r)[i]
          /\ \A i \in 1 .. Len(items) : new[n + i] = items[i]
      BY <1>1, <2>5, ConcatItems
    <3>2. \A i \in n + 1 .. n + Len(items) : i - n \in 1 .. Len(items) /\ new[i] = items[i - n]
      <4> HIDE DEF new
      <4> SUFFICES ASSUME NEW i \in n + 1 .. n + Len(items)
                   PROVE  i - n \in 1 .. Len(items) /\ new[i] = items[i - n]
        OBVIOUS
      <4>1. i - n \in 1 .. Len(items) /\ n + (i - n) = i
        BY <1>1, <2>1
      <4> QED  BY <3>1, <4>1
    <3> HIDE DEF new
    <3> QED  BY <1>1, <2>5, <3>1, <3>2
  <2>7. queue' = queue \o new
    BY <1>1, <1>3, <2>5
  <2> HIDE DEF new
  <2>8. /\ queue' \in Seq(Items) /\ Len(queue') = Len(queue) + Len(new)
        /\ Len(new) \in Nat
        /\ \A p \in 1 .. Len(queue) : queue'[p] = queue[p]
        /\ \A i \in 1 .. Len(new) : queue'[Len(queue) + i] = new[i]
    BY <2>6, <2>7
  <2>9. \A p \in Len(queue) + 1 .. Len(queue') :
           \/ queue'[p] = r /\ p <= Len(queue) + n
           \/ queue'[p] = Sentinel /\ items # <<>>
    <3> SUFFICES ASSUME NEW p \in Len(queue) + 1 .. Len(queue')
                 PROVE  \/ queue'[p] = r /\ p <= Len(queue) + n
                        \/ queue'[p] = Sentinel /\ items # <<>>
      OBVIOUS
    <3>1. p - Len(queue) \in 1 .. Len(new) /\ queue'[p] = new[p - Len(queue)]
      BY <2>8
    <3> QED  BY <2>1, <2>6, <2>8, <3>1
  <2>10. queue'[Len(queue) + 1] = r /\ Len(queue) + 1 \in 1 .. Len(queue')
    BY <1>1, <2>1, <2>2, <2>6, <2>8
  <2>11. \A h \in Handlers : attached = {h} =>
            \A p, q \in Len(queue) + 1 .. Len(queue') : p < q => queue'[q] = Sentinel
    BY <2>3, <2>9
  <2>12. \A p \in Len(queue) + 1 .. Len(queue') :
          \/ queue'[p] = Sentinel /\ items # <<>>
          \/ /\ queue'[p] \in R /\ ~WasLogged(queue'[p])
             /\ logged' = Append(logged, queue'[p])
    BY <1>3, <2>9
  <2>13. Len(queue) <= Len(queue')
    BY <2>8
  <2> QED  BY <1>3, <2>8, <2>10, <2>11, <2>12, <2>13 DEF Grown
<1> QED  BY <1>2, <1>3 DEF Puts
-----------------------------------------------------------------------------
(* What a step does                                                        *)

\* A step that takes nothing off the queue and starts no listener.  Once the
\* exit has begun only the package itself logs.
Ships ==
    /\ attached' = attached
    /\ main' = "running" => main = "running"
    /\ \/ main = "running" /\ Grown(AppRecords, <<>>)
       \/ \E items \in {<<>>, <<Sentinel>>} :
             Grown(OwnRecords, items) /\ (items = <<>> \/ main # "running")
    /\ \/ job' = job /\ listener' = listener
       \/ \E h \in Handlers :
             /\ listener[h] = "posting"
             /\ job' = [job EXCEPT ![h] = NoRecord]
             /\ \E s \in {"waiting", "dead"} : listener' = [listener EXCEPT ![h] = s]

LEMMA LogPuts ==
    ASSUME TypeOK, NEW r \in AppRecords, Log(r)
    PROVE  Puts(AppRecords, <<>>)
<1>1. Copies(r) \in Seq(Items)
  BY CopiesType DEF TypeOK, Records
<1>2. queue \o Copies(r) = queue \o Copies(r) \o <<>>
  BY <1>1 DEF TypeOK, Items
<1> QED  BY <1>2 DEF Log, Puts

LEMMA LogOwnPuts ==
    ASSUME NEW items, LogOwnThen(items)
    PROVE  Puts(OwnRecords, items)
BY DEF LogOwnThen, OwnMessages, Puts

\* Putting one thing on the queue, or nothing.
LEMMA AppendGrown ==
    ASSUME TypeOK, logged' = logged,
           NEW items \in {<<>>, <<Sentinel>>},
           queue' = IF items = <<>> THEN queue ELSE Append(queue, Sentinel)
    PROVE  Grown(OwnRecords, items)
<1>1. queue \in Seq(Items) /\ attached \in SUBSET Handlers
  BY DEF TypeOK, Items
<1>2. queue' = queue \o items
  <2>1. CASE items = <<>>
    BY <1>1, <2>1
  <2>2. CASE items = <<Sentinel>>
    <3>1. queue' = Append(queue, Sentinel)
      BY <2>2
    <3> QED  BY <1>1, <2>2, <3>1
  <2> QED  BY <2>1, <2>2
<1>3. Puts(OwnRecords, items)
  BY <1>2 DEF Puts
<1> QED  BY <1>1, <1>3, PutsGrown DEF Records

LEMMA LogOwnGrown ==
    ASSUME TypeOK, NEW items \in {<<>>, <<Sentinel>>}, LogOwnThen(items)
    PROVE  Grown(OwnRecords, items)
BY LogOwnPuts, PutsGrown DEF TypeOK, Items, Records

LEMMA QuietGrown ==
    ASSUME TypeOK, UNCHANGED <<queue, logged>>
    PROVE  Grown(OwnRecords, <<>>)
BY AppendGrown

LEMMA NextShips ==
    ASSUME TypeOK, [Next]_vars
    PROVE  \/ \E h \in Handlers : AddHandler(h)
           \/ \E h \in Handlers : Dequeue(h)
           \/ Ships
<1>1. CASE UNCHANGED vars
  BY <1>1, QuietGrown DEF Ships, vars, queueVars, listenerVars
<1>2. ASSUME NEW r \in AppRecords, Log(r)
      PROVE  Ships
  <2>1. Puts(AppRecords, <<>>)
    BY <1>2, LogPuts
  <2>2. Grown(AppRecords, <<>>)
    BY <2>1, PutsGrown DEF TypeOK, Items, Records
  <2> QED  BY <1>2, <2>2 DEF Log, Ships, listenerVars
<1>3. CASE BeginExit
  BY <1>3, QuietGrown DEF BeginExit, Ships, queueVars, listenerVars
<1>4. CASE ExitPut
  <2>1. Grown(OwnRecords, <<Sentinel>>)
    BY <1>4, AppendGrown DEF ExitPut
  <2> QED  BY <1>4, <2>1 DEF ExitPut, Ships, listenerVars
<1>5. CASE ExitInfo
  BY <1>5, LogOwnGrown DEF ExitInfo, Ships, listenerVars
<1>6. CASE FlushEmpty
  <2>1. Grown(OwnRecords, <<Sentinel>>)
    BY <1>6, AppendGrown DEF FlushEmpty
  <2> QED  BY <1>6, <2>1 DEF FlushEmpty, Flushing, Ships, listenerVars
<1>7. CASE FlushTimesOut
  BY <1>7, LogOwnGrown DEF FlushTimesOut, Flushing, Ships, listenerVars
<1>8. CASE Join
  BY <1>8, QuietGrown DEF Join, Ships, queueVars, listenerVars
<1>9. CASE ExitDone
  BY <1>9, QuietGrown DEF ExitDone, Ships, queueVars, listenerVars
<1>10. CASE Feed
  BY <1>10, QuietGrown DEF Feed, Ships, listenerVars
<1>11. ASSUME NEW h \in Handlers, PostSucceeds(h)
       PROVE  Ships
  BY <1>11, QuietGrown DEF PostSucceeds, Posting, Finish, Ships, queueVars
<1>12. ASSUME NEW h \in Handlers, PostRefused(h)
       PROVE  Ships
  BY <1>12, LogOwnGrown DEF PostRefused, Posting, Finish, Ships
<1>13. ASSUME NEW h \in Handlers, PostFails(h)
       PROVE  Ships
  BY <1>13, LogOwnGrown DEF PostFails, Failure, Posting, GiveUp, TryAgain, Ships
<1>14. ASSUME NEW h \in Handlers, PostFailsLate(h)
       PROVE  Ships
  BY <1>14, LogOwnGrown DEF PostFailsLate, Failure, Posting, GiveUp, Ships
<1> QED
  BY <1>1, <1>2, <1>3, <1>4, <1>5, <1>6, <1>7, <1>8, <1>9, <1>10, <1>11, <1>12,
     <1>13, <1>14 DEF Next, Exit, Post

-----------------------------------------------------------------------------
(* The types                                                               *)

LEMMA GrownTypes ==
    ASSUME TypeOK, NEW R \in SUBSET Records, NEW items, Grown(R, items)
    PROVE  /\ queue' \in Seq(Records \cup {Sentinel}) /\ logged' \in Seq(Records)
           /\ piped \in 0 .. Len(queue') /\ Len(queue) <= Len(queue')
<1>1. queue' \in Seq(Records \cup {Sentinel}) /\ Len(queue) <= Len(queue')
  BY DEF Grown, Items
<1>2. logged' \in Seq(Records)
  <2>1. logged \in Seq(Records)
    BY DEF TypeOK
  <2>2. \A r \in R : Append(logged, r) \in Seq(Records)
    BY <2>1
  <2> QED  BY <2>1, <2>2 DEF Grown
<1>3. piped \in 0 .. Len(queue')
  BY <1>1 DEF TypeOK
<1> QED  BY <1>1, <1>2, <1>3

LEMMA PopType ==
    ASSUME TypeOK, atexitOps # <<>>, PopOp
    PROVE  /\ atexitOps' \in Seq(Ops)
           /\ Len(atexitOps') = Len(atexitOps) - 1
           /\ \A k \in 1 .. Len(atexitOps) - 1 : atexitOps'[k] = atexitOps[k]
<1>1. atexitOps \in Seq(Ops) /\ Len(atexitOps) \in Nat \ {0}
  BY DEF TypeOK
<1>2. \A n \in 0 .. Len(atexitOps) :
         /\ SubSeq(atexitOps, 1, n) \in Seq(Ops)
         /\ Len(SubSeq(atexitOps, 1, n)) = n
         /\ \A k \in 1 .. n : SubSeq(atexitOps, 1, n)[k] = atexitOps[k]
  BY <1>1
<1>3. Len(atexitOps) - 1 \in 0 .. Len(atexitOps)
  BY <1>1
<1> QED  BY <1>2, <1>3 DEF PopOp

LEMMA StoreType ==
    ASSUME TypeOK, NEW h \in Handlers, job[h] \in Records, StoreAt(h)
    PROVE  stored' \in [Warehouses -> SUBSET Keys]
BY HandlerAssumption DEF StoreAt, TypeOK

LEMMA FinishTypes ==
    ASSUME TypeOK, NEW h \in Handlers, listener[h] = "posting",
           \/ Finish(h) /\ UNCHANGED abandoned
           \/ GiveUp(h)
           \/ TryAgain(h)
    PROVE  /\ listener' \in [Handlers -> ListenerStates]
           /\ job' \in [Handlers -> Records \cup {NoRecord}]
           /\ tries' \in [Handlers -> Nat]
           /\ abandoned' \in SUBSET Records
           /\ \A g \in Handlers : (job'[g] # NoRecord) = (listener'[g] = "posting")
<1>1. job[h] \in Records
  BY DEF TypeOK
<1>2. CASE Finish(h) /\ UNCHANGED abandoned
  BY <1>2 DEF TypeOK, Finish, ListenerStates
<1>3. CASE GiveUp(h)
  BY <1>1, <1>3 DEF TypeOK, GiveUp, ListenerStates
<1>4. CASE TryAgain(h)
  <2>1. \A n \in Nat : n + 1 \in Nat
    OBVIOUS
  <2> QED  BY <1>4, <2>1 DEF TypeOK, TryAgain
<1> QED  BY <1>2, <1>3, <1>4

LEMMA TypesStep ==
    ASSUME TypeOK, OffInv, [Next]_vars
    PROVE  TypeOK'
<1> USE DEF queueVars, listenerVars, outcomeVars
<1>0. OwnRecords \in SUBSET Records /\ AppRecords \in SUBSET Records
  BY DEF Records
<1>1. CASE UNCHANGED vars
  BY <1>1 DEF vars, TypeOK
<1>2. ASSUME NEW h \in Handlers, AddHandler(h)
      PROVE  TypeOK'
  <2>1. listener[h] = "off" /\ main = "running"
    BY <1>2 DEF AddHandler, OffInv
  <2>2. /\ listener' \in [Handlers -> ListenerStates]
        /\ \A g \in Handlers : (job[g] # NoRecord) = (listener'[g] = "posting")
    BY <1>2, <2>1 DEF AddHandler, TypeOK, ListenerStates
  <2>3. atexitOps' \in Seq(Ops)
    <3>1. \A op \in {"put", "flush", "info"} : [op |-> op, of |-> h] \in Ops
      BY DEF Ops
    <3>2. << [op |-> "info", of |-> h], [op |-> "flush", of |-> h],
             [op |-> "put", of |-> h] >> \in Seq(Ops)
      BY <3>1
    <3> QED  BY <1>2, <3>2 DEF AddHandler, TypeOK
  <2> QED  BY <1>2, <2>1, <2>2, <2>3 DEF AddHandler, TypeOK
<1>3. ASSUME NEW r \in AppRecords, Log(r)
      PROVE  TypeOK'
  <2>1. Puts(AppRecords, <<>>)
    BY <1>3, LogPuts
  <2>2. Grown(AppRecords, <<>>)
    BY <2>1, PutsGrown DEF TypeOK, Items, Records
  <2> QED  BY <1>0, <1>3, <2>2, GrownTypes DEF Log, TypeOK
<1>4. CASE BeginExit
  BY <1>4 DEF BeginExit, TypeOK, MainStates
<1>5. CASE ExitPut
  <2>1. Grown(OwnRecords, <<Sentinel>>)
    BY <1>5, AppendGrown DEF ExitPut
  <2> QED  BY <1>0, <1>5, <2>1, GrownTypes, PopType DEF ExitPut, NextIs, TypeOK
<1>6. CASE ExitInfo
  <2>1. Grown(OwnRecords, <<>>)
    BY <1>6, LogOwnGrown DEF ExitInfo
  <2> QED  BY <1>0, <1>6, <2>1, GrownTypes, PopType DEF ExitInfo, NextIs, TypeOK
<1>7. CASE FlushEmpty
  <2>1. Grown(OwnRecords, <<Sentinel>>)
    BY <1>7, AppendGrown DEF FlushEmpty
  <2> QED  BY <1>0, <1>7, <2>1, GrownTypes
           DEF FlushEmpty, Flushing, NextIs, TypeOK, MainStates
<1>8. CASE FlushTimesOut
  <2>1. Grown(OwnRecords, <<Sentinel>>)
    BY <1>8, LogOwnGrown DEF FlushTimesOut
  <2> QED  BY <1>0, <1>8, <2>1, GrownTypes
           DEF FlushTimesOut, Flushing, NextIs, TypeOK, MainStates
<1>9. CASE Join
  BY <1>9, PopType DEF Join, TypeOK, MainStates
<1>10. CASE ExitDone
  BY <1>10 DEF ExitDone, TypeOK, MainStates
<1>11. CASE Feed
  BY <1>11 DEF Feed, TypeOK
<1>12. ASSUME NEW h \in Handlers, Dequeue(h)
       PROVE  TypeOK'
  <2>1. queue # <<>> /\ queue' = Tail(queue) /\ piped' = piped - 1 /\ piped > 0
    BY <1>12 DEF Dequeue, TypeOK
  <2>2. /\ queue' \in Seq(Records \cup {Sentinel}) /\ piped' \in 0 .. Len(queue')
        /\ Head(queue) \in Records \cup {Sentinel}
    BY <2>1 DEF TypeOK
  <2>3. /\ listener' \in [Handlers -> ListenerStates]
        /\ job' \in [Handlers -> Records \cup {NoRecord}]
        /\ \A g \in Handlers : (job'[g] # NoRecord) = (listener'[g] = "posting")
    <3>1. CASE Head(queue) = Sentinel
      <4>1. /\ job' = job /\ listener[h] = "waiting"
            /\ listener' = [listener EXCEPT ![h] = "ended"]
        BY <1>12, <3>1 DEF Dequeue
      <4> QED  BY <4>1 DEF TypeOK, ListenerStates
    <3>2. CASE Head(queue) # Sentinel
      <4>1. /\ job' = [job EXCEPT ![h] = Head(queue)]
            /\ listener' = [listener EXCEPT ![h] = "posting"]
        BY <1>12, <3>2 DEF Dequeue
      <4>2. Head(queue) \in Records /\ Head(queue) # NoRecord
        BY <2>2, <3>2, RecordAssumption
      <4> QED  BY <4>1, <4>2 DEF TypeOK, ListenerStates
    <3> QED  BY <3>1, <3>2
  <2> QED  BY <1>12, <2>2, <2>3 DEF Dequeue, TypeOK
<1>13. ASSUME NEW h \in Handlers, PostSucceeds(h)
       PROVE  TypeOK'
  <2>1. job[h] \in Records /\ listener[h] = "posting"
    BY <1>13 DEF PostSucceeds, Posting, TypeOK
  <2>2. stored' \in [Warehouses -> SUBSET Keys]
    BY <1>13, <2>1, StoreType DEF PostSucceeds
  <2> QED  BY <1>13, <2>1, <2>2, FinishTypes DEF PostSucceeds, TypeOK
<1>14. ASSUME NEW h \in Handlers, PostRefused(h)
       PROVE  TypeOK'
  <2>1. job[h] \in Records /\ listener[h] = "posting"
    BY <1>14 DEF PostRefused, Posting, TypeOK
  <2>2. Grown(OwnRecords, <<>>)
    BY <1>14, LogOwnGrown DEF PostRefused
  <2> QED  BY <1>0, <1>14, <2>1, <2>2, GrownTypes, FinishTypes DEF PostRefused, TypeOK
<1>15. ASSUME NEW h \in Handlers, PostFails(h) \/ PostFailsLate(h)
       PROVE  TypeOK'
  <2>1. Failure(h) /\ (GiveUp(h) \/ TryAgain(h))
    BY <1>15 DEF PostFails, PostFailsLate
  <2>2. job[h] \in Records /\ listener[h] = "posting"
    BY <2>1 DEF Failure, Posting, TypeOK
  <2>3. stored' \in [Warehouses -> SUBSET Keys]
    BY <2>1, <2>2, StoreType DEF Failure, TypeOK
  <2>4. Grown(OwnRecords, <<>>)
    BY <2>1, LogOwnGrown DEF Failure
  <2> QED  BY <1>0, <2>1, <2>2, <2>3, <2>4, GrownTypes, FinishTypes DEF Failure, TypeOK
<1> QED
  BY <1>1, <1>2, <1>3, <1>4, <1>5, <1>6, <1>7, <1>8, <1>9, <1>10, <1>11, <1>12,
     <1>13, <1>14, <1>15 DEF Next, Exit, Post

-----------------------------------------------------------------------------
(* What has been logged                                                    *)

LEMMA PastLogged ==
    ASSUME NEW r
    PROVE  WasLogged(r) <=> r \in Past
BY DEF WasLogged, Past

LEMMA GrownLogged ==
    ASSUME TypeOK, NEW R \in SUBSET Records, NEW items, Grown(R, items)
    PROVE  /\ Len(logged) <= Len(logged')
           /\ \A i \in DOMAIN logged : i \in DOMAIN logged' /\ logged'[i] = logged[i]
           /\ \A i \in DOMAIN logged' \ DOMAIN logged :
                 /\ i = Len(logged') /\ logged' = Append(logged, logged'[i])
                 /\ logged'[i] \notin Past /\ Reached(logged'[i]) # {}
                 /\ \E p \in 1 .. Len(queue') : queue'[p] = logged'[i]
<1>1. logged \in Seq(Records)
  BY DEF TypeOK
<1>2. CASE logged' = logged
  BY <1>1, <1>2
<1>3. ASSUME NEW r \in R, ~WasLogged(r), Reached(r) # {}, logged' = Append(logged, r),
             \E p \in 1 .. Len(queue') : queue'[p] = r
      PROVE  /\ Len(logged) <= Len(logged')
             /\ \A i \in DOMAIN logged : i \in DOMAIN logged' /\ logged'[i] = logged[i]
             /\ \A i \in DOMAIN logged' \ DOMAIN logged :
                   i = Len(logged') /\ logged'[i] = r
  BY <1>1, <1>3
<1> QED  BY <1>2, <1>3, PastLogged DEF Grown

LEMMA DequeueFacts ==
    ASSUME TypeOK, NEW h \in Handlers, Dequeue(h)
    PROVE  /\ queue # <<>> /\ queue' \in Seq(Items)
           /\ Len(queue) \in Nat \ {0} /\ Len(queue') = Len(queue) - 1
           /\ \A p \in 1 .. Len(queue') : queue'[p] = queue[p + 1]
           /\ listener[h] = "waiting" /\ job[h] = NoRecord
           /\ UNCHANGED <<attached, logged, main>> /\ main # "done"
           /\ \/ /\ queue[1] = Sentinel /\ job' = job
                 /\ listener' = [listener EXCEPT ![h] = "ended"]
              \/ /\ queue[1] \in Records
                 /\ job' = [job EXCEPT ![h] = queue[1]]
                 /\ listener' = [listener EXCEPT ![h] = "posting"]
<1>1. queue \in Seq(Items) /\ queue # <<>> /\ queue' = Tail(queue)
  BY DEF Dequeue, TypeOK, Items
<1>2. /\ queue' \in Seq(Items) /\ Len(queue') = Len(queue) - 1
      /\ Len(queue) \in Nat \ {0}
      /\ \A p \in 1 .. Len(queue') : queue'[p] = queue[p + 1]
      /\ Head(queue) = queue[1] /\ queue[1] \in Items
  BY <1>1
<1>3. listener[h] = "waiting" /\ job[h] = NoRecord /\ main # "done"
  BY DEF Dequeue, TypeOK, Alive
<1>4. UNCHANGED <<attached, logged, main>>
  BY DEF Dequeue
<1>5. \/ /\ queue[1] = Sentinel /\ job' = job
         /\ listener' = [listener EXCEPT ![h] = "ended"]
      \/ /\ queue[1] \in Records
         /\ job' = [job EXCEPT ![h] = queue[1]]
         /\ listener' = [listener EXCEPT ![h] = "posting"]
  BY <1>2 DEF Dequeue, Items
<1> QED  BY <1>1, <1>2, <1>3, <1>4, <1>5

LEMMA OffStep ==
    ASSUME TypeOK, OffInv, [Next]_vars
    PROVE  OffInv'
<1>1. ASSUME NEW h \in Handlers, AddHandler(h)
      PROVE  OffInv'
  BY <1>1 DEF AddHandler, OffInv, TypeOK
<1>2. ASSUME NEW h \in Handlers, Dequeue(h)
      PROVE  OffInv'
  <2>1. \A g \in Handlers : listener[g] = "off" => listener'[g] = "off"
    BY <1>2, DequeueFacts DEF TypeOK
  <2> QED  BY <1>2, <2>1, DequeueFacts DEF OffInv
<1>3. CASE Ships
  <2>1. \A g \in Handlers : listener[g] = "off" => listener'[g] = "off"
    BY <1>3 DEF Ships, TypeOK
  <2> QED  BY <1>3, <2>1 DEF Ships, OffInv
<1> QED  BY <1>1, <1>2, <1>3, NextShips

LEMMA LoggedGrown ==
    ASSUME TypeOK, LoggedInv, NEW R \in SUBSET Records, NEW items, Grown(R, items),
           attached' = attached,
           \A h \in Handlers : job'[h] \in {job[h], NoRecord}
    PROVE  LoggedInv'
<1>1. Past \subseteq Past'
  BY GrownLogged DEF Past
<1>2. ASSUME NEW p \in DOMAIN queue', queue'[p] # Sentinel
      PROVE  queue'[p] \in Past'
  <2>1. queue \in Seq(Items) /\ queue' \in Seq(Items)
    BY DEF TypeOK, Grown, Items
  <2>2. CASE p \in 1 .. Len(queue)
    <3>1. queue'[p] = queue[p] /\ p \in DOMAIN queue
      BY <2>1, <2>2 DEF Grown
    <3> QED  BY <1>1, <1>2, <3>1 DEF LoggedInv
  <2>3. CASE p \in Len(queue) + 1 .. Len(queue')
    <3>1. logged' = Append(logged, queue'[p])
      BY <1>2, <2>3 DEF Grown
    <3>2. queue'[p] \in Records /\ logged \in Seq(Records)
      BY <1>2, <2>3 DEF Grown, TypeOK
    <3>3. Len(logged) + 1 \in DOMAIN logged' /\ logged'[Len(logged) + 1] = queue'[p]
      BY <3>1, <3>2
    <3> QED  BY <3>3 DEF Past
  <2> QED  BY <2>1, <2>2, <2>3
<1>3. \A h \in Handlers : job'[h] # NoRecord => job'[h] \in Past'
  BY <1>1 DEF LoggedInv
<1>4. ASSUME NEW i \in DOMAIN logged', NEW j \in DOMAIN logged', logged'[i] = logged'[j]
      PROVE  i = j
  <2>1. CASE i \in DOMAIN logged /\ j \in DOMAIN logged
    BY <1>4, <2>1, GrownLogged DEF LoggedInv
  <2>2. CASE i \notin DOMAIN logged /\ j \notin DOMAIN logged
    BY <2>2, GrownLogged
  <2>3. CASE i \in DOMAIN logged /\ j \notin DOMAIN logged
    BY <1>4, <2>3, GrownLogged DEF Past
  <2>4. CASE i \notin DOMAIN logged /\ j \in DOMAIN logged
    BY <1>4, <2>4, GrownLogged DEF Past
  <2> QED  BY <2>1, <2>2, <2>3, <2>4
<1>5. attached' = {} => logged' = <<>>
  <2>1. attached = {} => logged' = logged
    BY DEF Grown, Reached
  <2> QED  BY <2>1 DEF LoggedInv
<1> QED  BY <1>2, <1>3, <1>4, <1>5 DEF LoggedInv

LEMMA LoggedStep ==
    ASSUME TypeOK, LoggedInv, [Next]_vars
    PROVE  LoggedInv'
<1>1. ASSUME NEW h \in Handlers, AddHandler(h)
      PROVE  LoggedInv'
  BY <1>1 DEF AddHandler, LoggedInv, queueVars, Past
<1>2. ASSUME NEW h \in Handlers, Dequeue(h)
      PROVE  LoggedInv'
  <2>1. Past' = Past
    BY <1>2, DequeueFacts DEF Past
  <2>2. \A p \in DOMAIN queue' : queue'[p] # Sentinel => queue'[p] \in Past'
    <3>1. \A p \in DOMAIN queue' : p + 1 \in DOMAIN queue /\ queue'[p] = queue[p + 1]
      <4>1. /\ queue \in Seq(Items) /\ queue' \in Seq(Items)
            /\ Len(queue) \in Nat \ {0} /\ Len(queue') = Len(queue) - 1
            /\ \A p \in 1 .. Len(queue') : queue'[p] = queue[p + 1]
        BY <1>2, DequeueFacts DEF TypeOK, Items
      <4> QED  BY <4>1
    <3> QED  BY <2>1, <3>1 DEF LoggedInv
  <2>3. queue[1] # Sentinel => queue[1] \in Past
    BY <1>2, DequeueFacts DEF LoggedInv, TypeOK
  <2>4. \A g \in Handlers : job'[g] # NoRecord => job'[g] \in Past'
    <3>1. \A g \in Handlers : job'[g] = job[g] \/ (job'[g] = queue[1] /\ queue[1] \in Records)
      BY <1>2, DequeueFacts DEF TypeOK
    <3> QED  BY <2>1, <2>3, <3>1, RecordAssumption DEF LoggedInv
  <2> QED  BY <1>2, <2>2, <2>4, DequeueFacts DEF LoggedInv
<1>3. CASE Ships
  <2>1. \A h \in Handlers : job'[h] \in {job[h], NoRecord}
    BY <1>3 DEF Ships, TypeOK
  <2>2. \E R \in SUBSET Records, items \in {<<>>, <<Sentinel>>} : Grown(R, items)
    BY <1>3 DEF Ships, Records
  <2> QED  BY <1>3, <2>1, <2>2, LoggedGrown DEF Ships
<1> QED  BY <1>1, <1>2, <1>3, NextShips

-----------------------------------------------------------------------------
(* The exit                                                                *)

LEMMA SentinelStep ==
    ASSUME TypeOK, SentinelInv, [Next]_vars
    PROVE  SentinelInv'
<1>0. Sentinel \notin AppRecords /\ AppRecords \cap OwnRecords = {}
  BY RecordAssumption DEF Records
<1>1. ASSUME NEW h \in Handlers, AddHandler(h)
      PROVE  SentinelInv'
  <2>1. \A g \in Handlers : listener'[g] = "ended" => listener[g] = "ended"
    BY <1>1 DEF AddHandler, TypeOK
  <2>2. UNCHANGED <<queue, main>>
    BY <1>1 DEF AddHandler, queueVars
  <2> QED  BY <2>1, <2>2 DEF SentinelInv
<1>2. ASSUME NEW h \in Handlers, Dequeue(h)
      PROVE  SentinelInv'
  <2>1. /\ queue \in Seq(Items) /\ queue' \in Seq(Items)
        /\ Len(queue) \in Nat \ {0} /\ Len(queue') = Len(queue) - 1
        /\ \A p \in 1 .. Len(queue') : queue'[p] = queue[p + 1]
        /\ main' = main
    BY <1>2, DequeueFacts DEF TypeOK, Items
  <2>2. \A p \in DOMAIN queue' : p + 1 \in DOMAIN queue /\ queue'[p] = queue[p + 1]
    BY <2>1
  <2>3. 1 \in DOMAIN queue
    BY <2>1
  <2>4. CASE queue[1] = Sentinel
    <3>1. \A p \in DOMAIN queue' : 1 < p + 1
      BY <2>1
    <3>2. \A p \in DOMAIN queue' : queue'[p] \notin AppRecords
      BY <2>2, <2>3, <2>4, <3>1 DEF SentinelInv
    <3>3. main # "running"
      BY <2>3, <2>4 DEF SentinelInv
    <3> QED  BY <2>1, <3>2, <3>3 DEF SentinelInv
  <2>5. CASE queue[1] # Sentinel
    <3>1. \A g \in Handlers : listener'[g] = "ended" => listener[g] = "ended"
      BY <1>2, <2>5, DequeueFacts DEF TypeOK
    <3>2. \A p, q \in DOMAIN queue' : p < q => p + 1 < q + 1
      BY <2>1
    <3> QED  BY <2>1, <2>2, <3>1, <3>2 DEF SentinelInv
  <2> QED  BY <2>4, <2>5
<1>3. CASE Ships
  <2>1. \A g \in Handlers : listener'[g] = "ended" => listener[g] = "ended"
    BY <1>3 DEF Ships, TypeOK
  <2>2. queue \in Seq(Items)
    BY DEF TypeOK, Items
  <2>3. CASE main = "running" /\ Grown(AppRecords, <<>>)
    <3>1. \A p \in DOMAIN queue' : queue'[p] # Sentinel
      <4>1. \A p \in 1 .. Len(queue) : queue[p] # Sentinel
        BY <2>2, <2>3 DEF SentinelInv
      <4> QED  BY <1>0, <2>2, <2>3, <4>1 DEF Grown
    <3>2. \A g \in Handlers : listener'[g] # "ended"
      BY <2>1, <2>3 DEF SentinelInv
    <3> QED  BY <3>1, <3>2 DEF SentinelInv
  <2>4. ASSUME NEW items \in {<<>>, <<Sentinel>>}, Grown(OwnRecords, items),
               items = <<>> \/ main # "running"
        PROVE  SentinelInv'
    <3>1. /\ queue' \in Seq(Items) /\ Len(queue) <= Len(queue')
          /\ \A p \in 1 .. Len(queue) : queue'[p] = queue[p]
          /\ \A p \in Len(queue) + 1 .. Len(queue') :
                \/ queue'[p] = Sentinel /\ items # <<>>
                \/ queue'[p] \in OwnRecords
      BY <2>4 DEF Grown
    <3>2. ASSUME NEW p \in DOMAIN queue', p \notin DOMAIN queue
          PROVE  /\ queue'[p] \notin AppRecords
                 /\ queue'[p] = Sentinel => main # "running"
      <4>1. p \in Len(queue) + 1 .. Len(queue')
        BY <2>2, <3>1, <3>2
      <4> QED  BY <1>0, <2>4, <3>1, <4>1, RecordAssumption DEF Records
    <3>3. \A p \in DOMAIN queue' : p \in DOMAIN queue => queue'[p] = queue[p]
      BY <2>2, <3>1
    <3>4. \A p, q \in DOMAIN queue' : p < q /\ q \in DOMAIN queue => p \in DOMAIN queue
      BY <2>2, <3>1
    <3>5. main' = "running" => main = "running"
      BY <1>3 DEF Ships
    <3> QED  BY <2>1, <3>2, <3>3, <3>4, <3>5 DEF SentinelInv
  <2> QED  BY <1>3, <2>3, <2>4 DEF Ships
<1> QED  BY <1>1, <1>2, <1>3, NextShips

LEMMA OverStep ==
    ASSUME TypeOK, OffInv, [Next]_vars, NEW h \in attached, Over(h)
    PROVE  Over(h)'
<1>0. h \in Handlers
  BY DEF TypeOK
<1>1. ASSUME NEW g \in Handlers, AddHandler(g)
      PROVE  listener'[h] = listener[h]
  BY <1>0, <1>1 DEF AddHandler, TypeOK
<1>2. ASSUME NEW g \in Handlers, Dequeue(g)
      PROVE  listener'[h] = listener[h]
  BY <1>0, <1>2, DequeueFacts DEF Over, TypeOK
<1>3. CASE Ships
  BY <1>0, <1>3 DEF Ships, Over, TypeOK
<1> QED  BY <1>1, <1>2, <1>3, NextShips DEF Over

\* A callback that is run is not the one that joins some handler's thread.
LEMMA PopKeeps ==
    ASSUME TypeOK, JoinInv, atexitOps # <<>>, NextOp.op # "flush" \/ Over(NextOp.of),
           PopOp, NEW h \in attached
    PROVE  \/ Over(h)
           \/ \E k \in DOMAIN atexitOps' : atexitOps'[k] = [op |-> "flush", of |-> h]
<1>1. /\ atexitOps \in Seq(Ops) /\ atexitOps' \in Seq(Ops)
      /\ Len(atexitOps) \in Nat \ {0} /\ Len(atexitOps') = Len(atexitOps) - 1
      /\ \A k \in 1 .. Len(atexitOps) - 1 : atexitOps'[k] = atexitOps[k]
  BY PopType DEF TypeOK
<1>2. ASSUME NEW k \in DOMAIN atexitOps, atexitOps[k] = [op |-> "flush", of |-> h], ~Over(h)
      PROVE  k \in DOMAIN atexitOps' /\ atexitOps'[k] = [op |-> "flush", of |-> h]
  <2>1. k # Len(atexitOps)
    BY <1>2 DEF NextOp
  <2>2. k \in 1 .. Len(atexitOps) - 1
    BY <1>1, <2>1
  <2> QED  BY <1>1, <1>2, <2>2
<1> QED  BY <1>2 DEF JoinInv

LEMMA JoinStep ==
    ASSUME TypeOK, OffInv, JoinInv, [Next]_vars
    PROVE  JoinInv'
<1> DEFINE Waits(h) == Over(h) \/ \E k \in DOMAIN atexitOps :
                                    atexitOps[k] = [op |-> "flush", of |-> h]
<1>1. ASSUME NEW h \in Handlers, AddHandler(h)
      PROVE  JoinInv'
  <2> DEFINE three == << [op |-> "info", of |-> h], [op |-> "flush", of |-> h],
                         [op |-> "put", of |-> h] >>
  <2>1. /\ \A o \in {"info", "flush", "put"} : [op |-> o, of |-> h] \in Ops
        /\ three \in Seq(Ops) /\ Len(three) = 3 /\ three[2] = [op |-> "flush", of |-> h]
    BY DEF Ops
  <2>2. atexitOps \in Seq(Ops) /\ atexitOps' = atexitOps \o three /\ main' = "running"
    BY <1>1 DEF AddHandler, TypeOK
  <2> HIDE DEF three
  <2>3. /\ \A k \in DOMAIN atexitOps : k \in DOMAIN atexitOps' /\ atexitOps'[k] = atexitOps[k]
        /\ Len(atexitOps) + 2 \in DOMAIN atexitOps'
        /\ atexitOps'[Len(atexitOps) + 2] = [op |-> "flush", of |-> h]
    <3>1. /\ atexitOps' \in Seq(Ops) /\ Len(atexitOps') = Len(atexitOps) + 3
          /\ Len(atexitOps) \in Nat
          /\ \A k \in 1 .. Len(atexitOps) : atexitOps'[k] = atexitOps[k]
          /\ \A k \in 1 .. 3 : atexitOps'[Len(atexitOps) + k] = three[k]
      <4>1. \A t \in Seq(Ops) :
               /\ atexitOps \o t \in Seq(Ops) /\ Len(atexitOps) \in Nat
               /\ Len(atexitOps \o t) = Len(atexitOps) + Len(t)
               /\ \A k \in 1 .. Len(atexitOps) : (atexitOps \o t)[k] = atexitOps[k]
               /\ \A k \in 1 .. Len(t) : (atexitOps \o t)[Len(atexitOps) + k] = t[k]
        BY <2>2, ConcatItems
      <4> QED  BY <2>1, <2>2, <4>1
    <3>2. 2 \in 1 .. 3
      OBVIOUS
    <3>3. Len(atexitOps) + 2 \in DOMAIN atexitOps'
      BY <3>1
    <3>4. \A k \in DOMAIN atexitOps : k \in DOMAIN atexitOps' /\ atexitOps'[k] = atexitOps[k]
      BY <2>2, <3>1
    <3> QED  BY <2>1, <3>1, <3>2, <3>3, <3>4
  <2>4. ASSUME NEW g \in attached', g # h
        PROVE  Waits(g)'
    <3>1. g \in attached
      BY <1>1, <2>4 DEF AddHandler
    <3>2. Over(g) => Over(g)'
      BY <3>1, OverStep
    <3> QED  BY <2>3, <3>1, <3>2 DEF JoinInv
  <2>5. Waits(h)'
    BY <2>3
  <2> QED  BY <2>2, <2>4, <2>5 DEF JoinInv
<1>2. CASE attached' = attached /\ atexitOps' = atexitOps /\ main' \in {main, "running", "exiting"}
  <2>1. \A h \in attached : Over(h) => Over(h)'
    BY OverStep
  <2>2. main' \in {"joining", "done"} => main' = main
    BY <1>2
  <2> QED  BY <1>2, <2>1, <2>2 DEF JoinInv, NextIs, NextOp
<1>3. CASE /\ attached' = attached /\ main' = "exiting"
           /\ atexitOps # <<>> /\ PopOp
           /\ NextOp.op # "flush" \/ Over(NextOp.of)
  <2>1. \A h \in attached : Over(h) => Over(h)'
    BY OverStep
  <2>2. \A h \in attached : Over(h) \/ \E k \in DOMAIN atexitOps' :
                               atexitOps'[k] = [op |-> "flush", of |-> h]
    BY <1>3, PopKeeps
  <2> QED  BY <1>3, <2>1, <2>2 DEF JoinInv
<1>4. CASE attached' = attached /\ atexitOps' = atexitOps /\ NextIs("flush") /\ main' = "joining"
  <2>1. \A h \in attached : Over(h) => Over(h)'
    BY OverStep
  <2> QED  BY <1>4, <2>1 DEF JoinInv, NextIs, NextOp
<1>5. CASE ExitDone
  <2>1. \A h \in attached : Over(h) => Over(h)'
    BY OverStep
  <2>2. attached' = attached /\ atexitOps' = atexitOps /\ atexitOps = <<>> /\ main' = "done"
    BY <1>5 DEF ExitDone
  <2> QED  BY <2>1, <2>2 DEF JoinInv
<1>6. CASE ExitPut \/ ExitInfo
  BY <1>3, <1>6 DEF ExitPut, ExitInfo, NextIs
<1>7. CASE FlushEmpty \/ FlushTimesOut
  BY <1>4, <1>7 DEF FlushEmpty, FlushTimesOut, Flushing
<1>8. CASE Join
  BY <1>3, <1>8 DEF Join, Over, TypeOK
<1>9. CASE UNCHANGED vars \/ BeginExit \/ Feed \/ \E r \in AppRecords : Log(r)
  BY <1>2, <1>9 DEF vars, BeginExit, Feed, Log
<1>10. CASE \E h \in Handlers : Dequeue(h) \/ Post(h)
  BY <1>2, <1>10 DEF Dequeue, Post, PostSucceeds, PostRefused, PostFails, PostFailsLate, Failure
<1> QED  BY <1>1, <1>5, <1>6, <1>7, <1>8, <1>9, <1>10 DEF Next, Exit

-----------------------------------------------------------------------------
(* The order of the records                                                *)

\* A step that takes nothing off the queue keeps the order, whether or not the
\* one listener is done with its record in it.
LEMMA OrderShips ==
    ASSUME TypeOK, LoggedInv, OffInv, OrderInv, NEW R \in SUBSET Records, NEW items,
           Grown(R, items), attached' = attached,
           NEW h \in Handlers, attached = {h}, job'[h] \in {job[h], NoRecord},
           \A g \in Handlers : g # h => job'[g] = NoRecord /\ job[g] = NoRecord
    PROVE  /\ \A i, j \in DOMAIN logged' :
                 i < j /\ Settled(logged[j])' => Settled(logged[i])'
           /\ \A p, q \in DOMAIN queue', i, j \in DOMAIN logged' :
                 p < q /\ queue'[p] = logged'[i] /\ queue'[q] = logged'[j] => i < j
           /\ \A q \in DOMAIN queue', i, j \in DOMAIN logged' :
                 job'[h] = logged'[i] /\ queue'[q] = logged'[j] => i < j
<1>1. /\ queue \in Seq(Items) /\ queue' \in Seq(Items) /\ Len(queue) <= Len(queue')
      /\ \A p \in DOMAIN queue : p \in DOMAIN queue' /\ queue'[p] = queue[p]
      /\ logged \in Seq(Records) /\ Len(logged) \in Nat
  BY DEF TypeOK, Grown, Items
<1>2. LoggedInv'
  <2>1. \A g \in Handlers : job'[g] \in {job[g], NoRecord}
    OBVIOUS
  <2> QED  BY <2>1, LoggedGrown
\* A new item is a sentinel, or the one record that is logged in this step.
<1>3. ASSUME NEW p \in DOMAIN queue', p \notin DOMAIN queue,
             NEW i \in DOMAIN logged', queue'[p] = logged'[i]
      PROVE  /\ i = Len(logged) + 1
             /\ \A q \in DOMAIN queue' : q < p => q \in DOMAIN queue
  <2>1. p \in Len(queue) + 1 .. Len(queue')
    BY <1>1, <1>3
  <2>2. logged' \in Seq(Records)
    BY GrownTypes
  <2>3. queue'[p] # Sentinel
    BY <1>3, <2>2, RecordAssumption
  <2>4. queue'[p] \notin Past
    BY <2>1, <2>3, PastLogged DEF Grown
  <2>5. i \notin DOMAIN logged
    BY <1>3, <2>4, GrownLogged DEF Past
  <2>6. i = Len(logged') /\ logged' = Append(logged, logged'[i])
    BY <2>5, GrownLogged
  <2>7. Len(logged') = Len(logged) + 1
    BY <1>1, <2>6, <2>2
  <2>8. \A q \in Len(queue) + 1 .. Len(queue') : q < p => FALSE
    BY <2>1, <2>3 DEF Grown
  <2>9. \A q \in DOMAIN queue' : q < p => q \in DOMAIN queue
    BY <1>1, <2>8
  <2> QED  BY <2>6, <2>7, <2>9
<1>4. \A i \in DOMAIN logged' : i \in DOMAIN logged \/ i = Len(logged) + 1
  <2>1. ASSUME NEW i \in DOMAIN logged', i \notin DOMAIN logged
        PROVE  i = Len(logged) + 1
    <3>1. i = Len(logged') /\ logged' = Append(logged, logged'[i])
      BY <2>1, GrownLogged
    <3>2. Len(logged') = Len(logged) + 1
      BY <1>1, <3>1
    <3> QED  BY <3>1, <3>2
  <2> QED  BY <2>1
<1>5. \A i \in DOMAIN logged : i \in DOMAIN logged' /\ logged'[i] = logged[i] /\ i <= Len(logged)
  <2>1. \A i \in DOMAIN logged : i <= Len(logged)
    BY <1>1
  <2> QED  BY <2>1, GrownLogged
<1>6. \A i, j \in DOMAIN logged' : logged'[i] = logged'[j] => i = j
  BY <1>2 DEF LoggedInv
\* What was logged before is on the queue where it was.
<1>7. ASSUME NEW p \in DOMAIN queue', NEW i \in DOMAIN logged, queue'[p] = logged[i]
      PROVE  p \in DOMAIN queue /\ queue[p] = logged[i]
  <2>1. p \in DOMAIN queue
    BY <1>1, <1>3, <1>5, <1>7
  <2> QED  BY <1>1, <1>7, <2>1
<1>8. ASSUME NEW p \in DOMAIN queue', NEW q \in DOMAIN queue',
             NEW i \in DOMAIN logged', NEW j \in DOMAIN logged',
             p < q, queue'[p] = logged'[i], queue'[q] = logged'[j]
      PROVE  i < j
  <2>1. CASE j \in DOMAIN logged
    <3>1. q \in DOMAIN queue /\ queue[q] = logged[j]
      BY <1>5, <1>7, <1>8, <2>1
    <3>2. p \in DOMAIN queue /\ queue'[p] = queue[p]
      BY <1>1, <1>8, <3>1
    <3>3. queue[p] # Sentinel /\ queue[p] \in Past
      <4>1. logged' \in Seq(Records)
        BY GrownTypes
      <4>2. queue[p] = logged'[i]
        BY <1>8, <3>2
      <4>3. queue[p] # Sentinel
        <5>1. logged'[i] \in Records
          BY <4>1
        <5> QED  BY <4>2, <5>1, RecordAssumption
      <4> QED  BY <3>2, <4>3 DEF LoggedInv
    <3>4. i \in DOMAIN logged
      BY <1>5, <1>6, <1>8, <3>2, <3>3 DEF Past
    <3> QED  BY <1>5, <1>8, <2>1, <3>1, <3>2, <3>4 DEF OrderInv
  <2>2. CASE j \notin DOMAIN logged
    <3>1. j = Len(logged) + 1
      BY <1>4, <2>2
    <3>2. CASE i \in DOMAIN logged
      BY <1>1, <1>5, <3>1, <3>2
    <3>3. CASE i \notin DOMAIN logged
      <4>1. i = j
        BY <1>4, <3>1, <3>3
      <4>2. p \notin DOMAIN queue /\ q \notin DOMAIN queue
        <5>1. \A k \in DOMAIN queue : queue'[k] # logged'[j]
          <6>1. logged'[j] \notin Past /\ logged'[j] # Sentinel
            <7>1. logged' \in Seq(Records)
              BY GrownTypes
            <7> QED  BY <2>2, <7>1, GrownLogged, RecordAssumption
          <6> QED  BY <1>1, <6>1 DEF LoggedInv
        <5> QED  BY <1>8, <4>1, <5>1
      <4> QED  BY <1>3, <1>8, <4>2
    <3> QED  BY <3>2, <3>3
  <2> QED  BY <2>1, <2>2
<1>9. ASSUME NEW q \in DOMAIN queue', NEW i \in DOMAIN logged', NEW j \in DOMAIN logged',
             job'[h] = logged'[i], queue'[q] = logged'[j]
      PROVE  i < j
  <2>1. job'[h] = job[h] /\ job[h] \in Past
    <3>1. logged'[i] # NoRecord
      <4>1. logged' \in Seq(Records)
        BY GrownTypes
      <4> QED  BY <4>1, RecordAssumption
    <3> QED  BY <1>9, <3>1 DEF LoggedInv
  <2>2. i \in DOMAIN logged /\ job[h] = logged[i]
    <3>1. PICK k \in DOMAIN logged : logged[k] = job[h]
      BY <2>1 DEF Past
    <3> QED  BY <1>5, <1>6, <1>9, <2>1, <3>1
  <2>3. CASE j \in DOMAIN logged
    BY <1>5, <1>7, <1>9, <2>2, <2>3 DEF OrderInv
  <2>4. CASE j \notin DOMAIN logged
    BY <1>1, <1>4, <1>5, <2>2, <2>4
  <2> QED  BY <2>3, <2>4
<1>10. ASSUME NEW i \in DOMAIN logged', NEW j \in DOMAIN logged', i < j,
              Settled(logged[j])'
       PROVE  Settled(logged[i])'
  \* The record that is logged in this step is on the queue.
  <2>1. j \in DOMAIN logged
    BY <1>1, <1>10, GrownLogged DEF Settled, InQueue
  <2>2. i \in DOMAIN logged
    BY <1>1, <1>4, <1>5, <1>10, <2>1
  <2>3. logged'[i] = logged[i] /\ logged'[j] = logged[j]
    BY <1>5, <2>1, <2>2
  <2>4. WasLogged(logged[i])'
    BY <1>10 DEF WasLogged
  <2>5. ASSUME NEW p \in DOMAIN queue', queue'[p] = logged[i]
        PROVE  FALSE
    <3>1. p \in DOMAIN queue /\ queue[p] = logged[i]
      BY <1>7, <2>2, <2>5
    <3>2. ~Settled(logged[i])
      BY <3>1 DEF Settled, InQueue
    <3>3. ~Settled(logged[j])
      BY <1>10, <2>1, <2>2, <3>2 DEF OrderInv
    <3>4. InQueue(logged[j]) \/ InHand(logged[j])
      BY <2>1, <3>3 DEF Settled, WasLogged
    <3>5. ~InQueue(logged[j])
      BY <1>1, <1>10, <2>3 DEF Settled, InQueue
    <3>6. job[h] = logged[j]
      <4>1. logged[j] # NoRecord
        BY <1>1, <2>1, RecordAssumption
      <4> QED  BY <3>4, <3>5, <4>1 DEF InHand
    <3>7. j < i
      BY <2>1, <2>2, <3>1, <3>6 DEF OrderInv
    <3> QED  BY <1>1, <1>10, <2>1, <2>2, <3>7
  <2>6. ASSUME job'[h] = logged[i]
        PROVE  FALSE
    <3>1. job[h] = logged[i] /\ logged[i] # NoRecord
      BY <1>1, <2>2, <2>6, RecordAssumption
    <3>2. ~Settled(logged[i])
      BY <3>1 DEF Settled, InHand
    <3>3. ~Settled(logged[j])
      BY <1>10, <2>1, <2>2, <3>2 DEF OrderInv
    <3>4. InQueue(logged[j]) \/ InHand(logged[j])
      BY <2>1, <3>3 DEF Settled, WasLogged
    <3>5. ~InQueue(logged[j])
      BY <1>1, <1>10, <2>3 DEF Settled, InQueue
    <3>6. job[h] = logged[j]
      <4>1. logged[j] # NoRecord
        BY <1>1, <2>1, RecordAssumption
      <4> QED  BY <3>4, <3>5, <4>1 DEF InHand
    <3>7. i = j
      BY <2>1, <2>2, <3>1, <3>6 DEF LoggedInv
    <3> QED  BY <1>1, <1>10, <2>1, <3>7
  <2>7. ~InHand(logged[i])'
    <3>1. logged[i] # NoRecord
      BY <1>1, <2>2, RecordAssumption
    <3> QED  BY <2>3, <2>6, <3>1 DEF InHand
  <2>8. ~InQueue(logged[i])'
    BY <2>3, <2>5 DEF InQueue
  <2> QED  BY <2>4, <2>7, <2>8 DEF Settled
<1> QED  BY <1>8, <1>9, <1>10

LEMMA OrderStep ==
    ASSUME TypeOK, LoggedInv, OffInv, OrderInv, [Next]_vars
    PROVE  OrderInv'
<1>0. logged \in Seq(Records)
  BY DEF TypeOK
<1>1. ASSUME NEW h \in Handlers, AddHandler(h)
      PROVE  OrderInv'
  <2> SUFFICES ASSUME NEW g \in Handlers, attached' = {g}
               PROVE  DOMAIN logged' = {}
    BY DEF OrderInv
  <2>1. attached = {}
    BY <1>1 DEF AddHandler
  <2> QED  BY <1>1, <2>1 DEF AddHandler, queueVars, LoggedInv
<1>2. ASSUME NEW h \in Handlers, Dequeue(h)
      PROVE  OrderInv'
  <2>0. attached' = attached /\ logged' = logged
    BY <1>2, DequeueFacts
  <2> SUFFICES ASSUME NEW g \in Handlers, attached = {g}
               PROVE  /\ \A i, j \in DOMAIN logged :
                            i < j /\ Settled(logged[j])' => Settled(logged[i])'
                      /\ \A p, q \in DOMAIN queue', i, j \in DOMAIN logged :
                            p < q /\ queue'[p] = logged[i] /\ queue'[q] = logged[j] => i < j
                      /\ \A q \in DOMAIN queue', i, j \in DOMAIN logged :
                            job'[g] = logged[i] /\ queue'[q] = logged[j] => i < j
    BY <2>0 DEF OrderInv
  <2>1. /\ queue \in Seq(Items) /\ queue' \in Seq(Items)
        /\ Len(queue) \in Nat \ {0} /\ Len(queue') = Len(queue) - 1
        /\ \A p \in 1 .. Len(queue') : queue'[p] = queue[p + 1]
        /\ logged' = logged /\ job[h] = NoRecord
        /\ h \in attached
    BY <1>2, DequeueFacts DEF TypeOK, Items, OffInv
  <2>2. g = h
    BY <2>1
  <2>3. /\ 1 \in DOMAIN queue
        /\ \A p \in DOMAIN queue' : /\ p + 1 \in DOMAIN queue /\ 1 < p + 1
                                    /\ queue'[p] = queue[p + 1]
        /\ \A p, q \in DOMAIN queue' : p < q => p + 1 < q + 1
        /\ \A p \in DOMAIN queue : p # 1 => p - 1 \in DOMAIN queue' /\ queue'[p - 1] = queue[p]
    BY <2>1
  <2>4. \/ queue[1] = Sentinel /\ job' = job
        \/ queue[1] \in Records /\ job'[h] = queue[1]
           /\ \A f \in Handlers : f # h => job'[f] = job[f]
    BY <1>2, DequeueFacts DEF TypeOK
  <2>5. \A i \in DOMAIN logged : logged[i] # Sentinel /\ logged[i] # NoRecord
    BY <1>0, RecordAssumption
  \* A record that leaves the queue is in hand.
  <2>6. ASSUME NEW i \in DOMAIN logged
        PROVE  Settled(logged[i])' = Settled(logged[i])
    <3>1. InQueue(logged[i]) => InQueue(logged[i])' \/ job'[h] = logged[i]
      <4>1. logged'[i] = logged[i]
        BY <2>1
      <4> QED  BY <2>3, <2>4, <2>5, <4>1 DEF InQueue
    <3>2. InQueue(logged[i])' => InQueue(logged[i])
      BY <2>1, <2>3 DEF InQueue
    <3>3. \A f \in Handlers : job[f] = logged[i] => job'[f] = logged[i]
      BY <2>1, <2>4, <2>5
    <3>4. \A f \in Handlers : job'[f] = logged[i] => job[f] = logged[i] \/ InQueue(logged[i])
      BY <2>3, <2>4 DEF InQueue
    <3>5. WasLogged(logged[i])' = WasLogged(logged[i])
      BY <2>1 DEF WasLogged
    <3>6. (InQueue(logged[i]) \/ InHand(logged[i])) = (InQueue(logged[i]) \/ InHand(logged[i]))'
      BY <2>1, <3>1, <3>2, <3>3, <3>4 DEF InHand
    <3> QED  BY <3>5, <3>6 DEF Settled
  <2>7. \A i, j \in DOMAIN logged :
           i < j /\ Settled(logged[j])' => Settled(logged[i])'
    BY <2>6 DEF OrderInv
  <2>8. \A p, q \in DOMAIN queue', i, j \in DOMAIN logged :
           p < q /\ queue'[p] = logged[i] /\ queue'[q] = logged[j] => i < j
    BY <2>3 DEF OrderInv
  <2>9. \A q \in DOMAIN queue', i, j \in DOMAIN logged :
           job'[h] = logged[i] /\ queue'[q] = logged[j] => i < j
    <3>1. CASE job'[h] = NoRecord
      BY <2>5, <3>1
    <3>2. CASE job'[h] = queue[1]
      <4>1. \A q \in DOMAIN queue, i, j \in DOMAIN logged :
               1 < q /\ queue[1] = logged[i] /\ queue[q] = logged[j] => i < j
        BY <2>2, <2>3 DEF OrderInv
      <4> QED  BY <2>3, <3>2, <4>1
    <3> QED  BY <2>1, <2>4, <3>1, <3>2
  <2> QED  BY <2>2, <2>7, <2>8, <2>9
<1>3. CASE Ships
  <2>1. \A h \in Handlers : job'[h] \in {job[h], NoRecord}
    BY <1>3 DEF Ships, TypeOK
  <2>2. PICK R \in SUBSET Records, items \in {<<>>, <<Sentinel>>} : Grown(R, items)
    BY <1>3 DEF Ships, Records
  <2> SUFFICES ASSUME NEW h \in Handlers, attached = {h}
               PROVE  /\ \A i, j \in DOMAIN logged' :
                            i < j /\ Settled(logged[j])' => Settled(logged[i])'
                      /\ \A p, q \in DOMAIN queue', i, j \in DOMAIN logged' :
                            p < q /\ queue'[p] = logged'[i] /\ queue'[q] = logged'[j] => i < j
                      /\ \A q \in DOMAIN queue', i, j \in DOMAIN logged' :
                            job'[h] = logged'[i] /\ queue'[q] = logged'[j] => i < j
    BY <1>3 DEF OrderInv, Ships
  <2>3. \A g \in Handlers : g # h => job[g] = NoRecord /\ job'[g] = NoRecord
    BY <2>1 DEF OffInv, TypeOK
  <2>4. attached' = attached
    BY <1>3 DEF Ships
  <2> QED  BY <2>1, <2>2, <2>3, <2>4, OrderShips
<1> QED  BY <1>1, <1>2, <1>3, NextShips

-----------------------------------------------------------------------------
(* The theorems                                                            *)

LEMMA WarehouseInvariant == Spec => []WarehouseInv
<1>1. Init => WarehouseInv
  <2> SUFFICES ASSUME Init  PROVE  WarehouseInv
    OBVIOUS
  <2>1. TypeOK
    BY DEF Init, TypeOK, ListenerStates, MainStates
  <2>2. OffInv /\ LoggedInv /\ OrderInv /\ SentinelInv /\ JoinInv
    BY DEF Init, OffInv, LoggedInv, OrderInv, SentinelInv, JoinInv
  <2> QED  BY <2>1, <2>2 DEF WarehouseInv
<1>2. WarehouseInv /\ [Next]_vars => WarehouseInv'
  BY TypesStep, OffStep, LoggedStep, OrderStep, SentinelStep, JoinStep DEF WarehouseInv
<1> QED  BY <1>1, <1>2, PTL DEF Spec

\* Each variable keeps its type; a listener thread holds a record just while it
\* is posting it, whatever the order in which the threads run.
THEOREM WarehouseTypes == Spec => []TypeOK
BY WarehouseInvariant, PTL DEF WarehouseInv

\* With one handler, records are dealt with in the order they were logged: the
\* listener posts one record at a time and retries it before it takes the next.
THEOREM OrderIsKept == Spec => []OrderKept
<1>1. WarehouseInv => OrderKept
  <2> SUFFICES ASSUME WarehouseInv, Cardinality(attached) = 1
               PROVE  \A i, j \in DOMAIN logged :
                          i < j /\ Settled(logged[j]) => Settled(logged[i])
    BY DEF OrderKept
  <2>1. attached \in SUBSET Handlers /\ IsFiniteSet(attached)
    BY HandlerAssumption, FS_Subset DEF WarehouseInv, TypeOK
  <2>2. PICK h : attached = {h}
    BY <2>1, FS_Singleton
  <2> QED  BY <2>1, <2>2 DEF WarehouseInv, OrderInv
<1> QED  BY <1>1, WarehouseInvariant, PTL

\* When the program has exited and a listener saw a sentinel, nothing the
\* application logged is left on the queue or in a thread: a sentinel is put
\* there only by the exit, after all of that, and the exit joins every listener.
THEOREM ExitHasDrained == Spec => []ExitDrains
<1>1. WarehouseInv => ExitDrains
  <2> SUFFICES ASSUME WarehouseInv, main = "done",
                      NEW g \in attached, listener[g] = "ended",
                      NEW r \in AppRecords, WasLogged(r)
               PROVE  Settled(r)
    BY DEF ExitDrains
  <2>1. ~InQueue(r)
    BY DEF WarehouseInv, SentinelInv, InQueue, TypeOK
  <2>2. \A h \in attached : Over(h)
    BY DEF WarehouseInv, JoinInv
  <2>3. \A h \in Handlers : job[h] = NoRecord
    BY <2>2 DEF WarehouseInv, OffInv, Over, TypeOK
  <2>4. ~InHand(r)
    BY <2>3, RecordAssumption DEF InHand, Records
  <2> QED  BY <2>1, <2>4 DEF Settled
<1> QED  BY <1>1, WarehouseInvariant, PTL

-----------------------------------------------------------------------------
(* Counting copies                                                         *)

Places(list, r) == {i \in DOMAIN list : list[i] = r}
Holders(r)      == {h \in Handlers : job[h] = r}

LEMMA PlacesFinite ==
    ASSUME NEW S, NEW list \in Seq(S), NEW r
    PROVE  IsFiniteSet(Places(list, r)) /\ Cardinality(Places(list, r)) \in Nat
<1>1. IsFiniteSet(1 .. Len(list)) /\ Places(list, r) \in SUBSET (1 .. Len(list))
  <2>1. 1 \in Int /\ Len(list) \in Int
    OBVIOUS
  <2> QED  BY <2>1, FS_Interval DEF Places
<1> QED  BY <1>1, FS_Subset, FS_CardinalityType

LEMMA HoldersFinite ==
    ASSUME NEW r
    PROVE  IsFiniteSet(Holders(r)) /\ Cardinality(Holders(r)) \in Nat
<1>1. Holders(r) \in SUBSET Handlers
  BY DEF Holders
<1> QED  BY <1>1, HandlerAssumption, FS_Subset, FS_CardinalityType

LEMMA PendingIs ==
    ASSUME TypeOK, NEW r
    PROVE  /\ PendingCopies(r) = Cardinality(Places(queue, r)) + Cardinality(Holders(r))
           /\ PendingCopies(r) \in Nat
           /\ Cardinality(Places(queue, r)) \in Nat /\ Cardinality(Holders(r)) \in Nat
<1>1. PendingCopies(r) = Cardinality(Places(queue, r)) + Cardinality(Holders(r))
  BY DEF PendingCopies, Places, Holders
<1>2. Cardinality(Places(queue, r)) \in Nat
  BY PlacesFinite DEF TypeOK
<1>3. Cardinality(Holders(r)) \in Nat
  BY HoldersFinite
<1> QED  BY <1>1, <1>2, <1>3

\* What is put on the queue adds copies, and none of a record logged before.
LEMMA GrownPlaces ==
    ASSUME TypeOK, LoggedInv, NEW R \in SUBSET Records, NEW items, Grown(R, items),
           NEW r \in Records
    PROVE  /\ Cardinality(Places(queue, r)) <= Cardinality(Places(queue, r)')
           /\ r \in Past => Cardinality(Places(queue, r)') = Cardinality(Places(queue, r))
<1>1. /\ queue \in Seq(Items) /\ queue' \in Seq(Items) /\ Len(queue) <= Len(queue')
      /\ \A p \in 1 .. Len(queue) : queue'[p] = queue[p]
  BY DEF TypeOK, Grown, Items
<1>2. Places(queue, r)' = Places(queue', r)
  BY DEF Places
<1>3. Places(queue, r) \subseteq Places(queue', r)
  BY <1>1 DEF Places
<1>4. IsFiniteSet(Places(queue', r))
  BY <1>1, PlacesFinite
<1>5. ASSUME r \in Past
      PROVE  Places(queue', r) = Places(queue, r)
  <2> SUFFICES ASSUME NEW p \in DOMAIN queue', queue'[p] = r, p \notin DOMAIN queue
               PROVE  FALSE
    BY <1>1, <1>3 DEF Places
  <2>1. p \in Len(queue) + 1 .. Len(queue')
    BY <1>1
  <2>2. r # Sentinel
    BY RecordAssumption
  <2> QED  BY <1>5, <2>1, <2>2, PastLogged DEF Grown
<1> QED  BY <1>2, <1>3, <1>4, <1>5, FS_Subset

\* A copy that is taken off the queue is in hand.
LEMMA TailPlaces ==
    ASSUME TypeOK, NEW h \in Handlers, Dequeue(h), NEW r \in Records
    PROVE  PendingCopies(r)' = PendingCopies(r)
<1> DEFINE rest == Places(queue, r) \ {1}
           move == [i \in Places(queue', r) |-> i + 1]
<1>1. /\ queue \in Seq(Items) /\ queue' \in Seq(Items)
      /\ Len(queue) \in Nat \ {0} /\ Len(queue') = Len(queue) - 1
      /\ \A p \in 1 .. Len(queue') : queue'[p] = queue[p + 1]
      /\ job[h] = NoRecord
  BY DequeueFacts DEF TypeOK, Items
<1>2. move \in Bijection(Places(queue', r), rest)
  <2>1. \A i \in Places(queue', r) : i \in Nat /\ i + 1 \in rest
    BY <1>1 DEF Places
  <2>2. \A j \in rest : j \in Nat /\ j - 1 \in Places(queue', r) /\ move[j - 1] = j
    BY <1>1 DEF Places
  <2> QED  BY <2>1, <2>2 DEF Bijection, Injection, Surjection, IsInjective
<1>3. Cardinality(rest) = Cardinality(Places(queue', r))
  <2>1. IsFiniteSet(Places(queue', r)) /\ ExistsBijection(Places(queue', r), rest)
    BY <1>1, <1>2, PlacesFinite DEF ExistsBijection
  <2> HIDE DEF rest
  <2> QED  BY <2>1, FS_Bijection
<1>4. IsFiniteSet(Places(queue, r)) /\ IsFiniteSet(Holders(r))
  BY <1>1, PlacesFinite, HoldersFinite
<1>5. /\ PendingCopies(r) = Cardinality(Places(queue, r)) + Cardinality(Holders(r))
      /\ Cardinality(Places(queue, r)) \in Nat /\ Cardinality(Holders(r)) \in Nat
  BY PendingIs
<1>6. PendingCopies(r)' = Cardinality(Places(queue', r)) + Cardinality(Holders(r)')
  BY DEF PendingCopies, Places, Holders
<1>7. h \notin Holders(r) /\ (1 \in Places(queue, r)) = (queue[1] = r)
  BY <1>1, RecordAssumption DEF Holders, Places
<1>8. CASE queue[1] = r
  <2>1. Cardinality(rest) = Cardinality(Places(queue, r)) - 1
    BY <1>4, <1>7, <1>8, FS_RemoveElement
  <2>2. job' = [job EXCEPT ![h] = r]
    BY <1>8, DequeueFacts, RecordAssumption
  <2>3. Holders(r)' = Holders(r) \cup {h}
    BY <2>2 DEF Holders, TypeOK
  <2>4. Cardinality(Holders(r) \cup {h}) = Cardinality(Holders(r)) + 1
    BY <1>4, <1>7, FS_AddElement
  <2> QED  BY <1>3, <1>5, <1>6, <2>1, <2>3, <2>4
<1>9. CASE queue[1] # r
  <2>1. rest = Places(queue, r)
    BY <1>7, <1>9
  <2>2. job' = job \/ job' = [job EXCEPT ![h] = queue[1]]
    BY DequeueFacts
  <2>3. Holders(r)' = Holders(r)
    BY <1>7, <1>9, <2>2 DEF Holders, TypeOK
  <2> QED  BY <1>3, <1>5, <1>6, <2>1, <2>3
<1> QED  BY <1>8, <1>9

\* What a listener is done with is one copy less.
LEMMA DropHolder ==
    ASSUME TypeOK, LoggedInv, NEW R \in SUBSET Records, NEW items, Grown(R, items),
           NEW h \in Handlers, job[h] \in Records, job' = [job EXCEPT ![h] = NoRecord]
    PROVE  /\ PendingCopies(job[h]) > 0
           /\ \A r \in Records : 
                 IF r = job[h] THEN PendingCopies(r)' = PendingCopies(r) - 1
                               ELSE PendingCopies(r)' >= PendingCopies(r)
           /\ queue' = queue => \A r \in Records \ {job[h]} :
                                   PendingCopies(r)' = PendingCopies(r)
<1>1. \A r \in Records : 
         /\ PendingCopies(r)' = Cardinality(Places(queue, r)') + Cardinality(Holders(r)')
         /\ Cardinality(Places(queue, r)') \in Nat
  <2> TAKE r \in Records
  <2>1. Places(queue, r)' = Places(queue', r)
    BY DEF Places
  <2>2. queue' \in Seq(Items)
    BY DEF Grown
  <2> QED  BY <2>1, <2>2, PlacesFinite DEF PendingCopies, Places, Holders
<1>2. job[h] \in Past
  BY RecordAssumption DEF LoggedInv
<1>3. ASSUME NEW r \in Records, r = job[h]
      PROVE  PendingCopies(r) > 0 /\ PendingCopies(r)' = PendingCopies(r) - 1
  <2>1. h \in Holders(r) /\ Holders(r)' = Holders(r) \ {h}
    BY <1>3, RecordAssumption DEF Holders, TypeOK
  <2>2. Cardinality(Holders(r) \ {h}) = Cardinality(Holders(r)) - 1
    BY <2>1, HoldersFinite, FS_RemoveElement
  <2>3. Cardinality(Holders(r) \ {h}) \in Nat
    BY HoldersFinite, FS_RemoveElement, FS_CardinalityType
  <2>4. Cardinality(Places(queue, r)') = Cardinality(Places(queue, r))
    BY <1>2, <1>3, GrownPlaces
  <2>5. Cardinality(Holders(r)') = Cardinality(Holders(r)) - 1 /\ Cardinality(Holders(r)) > 0
    BY <2>1, <2>2, <2>3, HoldersFinite
  <2>6. /\ PendingCopies(r) = Cardinality(Places(queue, r)) + Cardinality(Holders(r))
        /\ Cardinality(Places(queue, r)) \in Nat /\ Cardinality(Holders(r)) \in Nat
    BY PendingIs
  <2> QED  BY <1>1, <2>4, <2>5, <2>6
<1>4. ASSUME NEW r \in Records, r # job[h]
      PROVE  /\ PendingCopies(r)' >= PendingCopies(r)
             /\ queue' = queue => PendingCopies(r)' = PendingCopies(r)
  <2>1. Holders(r)' = Holders(r)
    BY <1>4, RecordAssumption DEF Holders, TypeOK
  <2>2. Cardinality(Places(queue, r)') >= Cardinality(Places(queue, r))
    BY <1>1, GrownPlaces, PendingIs
  <2>3. queue' = queue => Places(queue, r)' = Places(queue, r)
    BY DEF Places
  <2> QED  BY <1>1, <2>1, <2>2, <2>3, PendingIs
<1> QED  BY <1>3, <1>4

LEMMA KeepHolders ==
    ASSUME TypeOK, LoggedInv, NEW R \in SUBSET Records, NEW items, Grown(R, items),
           job' = job, NEW r \in Records
    PROVE  PendingCopies(r)' >= PendingCopies(r)
<1>1. PendingCopies(r)' = Cardinality(Places(queue, r)') + Cardinality(Holders(r))
  BY DEF PendingCopies, Places, Holders
<1>2. Cardinality(Places(queue, r)') >= Cardinality(Places(queue, r))
      /\ Cardinality(Places(queue, r)') \in Nat
  <2>1. Places(queue, r)' = Places(queue', r)
    BY DEF Places
  <2>2. queue' \in Seq(Items)
    BY DEF Grown
  <2>3. Cardinality(Places(queue', r)) \in Nat
    BY <2>2, PlacesFinite
  <2> QED  BY <2>1, <2>3, GrownPlaces, PendingIs
<1> QED  BY <1>1, <1>2, PendingIs

-----------------------------------------------------------------------------
(* The refinement                                                          *)

\* A step that changes no outcome and loses no copy is LogDelivery's Accept.
LEMMA AcceptStep ==
    ASSUME \A r \in Records : PendingCopies(r)' >= PendingCopies(r),
           UNCHANGED outcomeVars
    PROVE  Delivery!Accept
BY DEF Delivery!Accept, outcomeVars

LEMMA StoreStep ==
    ASSUME TypeOK, NEW h \in Handlers, job[h] \in Records, PendingCopies(job[h]) > 0,
           ~Holds(h), StoreAt(h)
    PROVE  Delivery!Store(job[h], Dest[h])
BY DEF Delivery!Store, Holds, StoreAt

LEMMA ReportStep ==
    ASSUME TypeOK, LoggedInv, NEW h \in Handlers, job[h] \in Records,
           LogOwnThen(<<>>), job' = [job EXCEPT ![h] = NoRecord]
    PROVE  PendingCopies(job[h]) > 0 /\ Delivery!DropAndReport(job[h])
<1>1. Grown(OwnRecords, <<>>)
  BY LogOwnGrown
<1>2. OwnRecords \in SUBSET Records
  BY DEF Records
<1>3. /\ PendingCopies(job[h]) > 0
      /\ \A r \in Records : 
            IF r = job[h] THEN PendingCopies(r)' = PendingCopies(r) - 1
                          ELSE PendingCopies(r)' >= PendingCopies(r)
  BY <1>1, <1>2, DropHolder
<1> QED  BY <1>3 DEF Delivery!DropAndReport

LEMMA DeliveryStep ==
    ASSUME TypeOK, LoggedInv, OffInv, [Next]_vars
    PROVE  Delivery!Next
<1>0. OwnRecords \in SUBSET Records /\ AppRecords \in SUBSET Records
  BY DEF Records
<1>1. ASSUME NEW R \in SUBSET Records, NEW items, Grown(R, items), job' = job,
             UNCHANGED outcomeVars
      PROVE  Delivery!Next
  <2>1. \A r \in Records : PendingCopies(r)' >= PendingCopies(r)
    BY <1>1, KeepHolders
  <2> QED  BY <1>1, <2>1, AcceptStep DEF Delivery!Next
<1>2. CASE \/ UNCHANGED vars \/ BeginExit \/ Join \/ ExitDone \/ Feed
           \/ \E h \in Handlers : AddHandler(h)
  <2>1. UNCHANGED <<queue, logged, job, outcomeVars>>
    BY <1>2 DEF vars, BeginExit, Join, ExitDone, Feed, AddHandler, queueVars, listenerVars
  <2>2. Grown(OwnRecords, <<>>)
    BY <2>1, QuietGrown
  <2> QED  BY <1>0, <1>1, <2>1, <2>2
<1>3. ASSUME NEW r \in AppRecords, Log(r)
      PROVE  Delivery!Next
  <2>1. Grown(AppRecords, <<>>)
    BY <1>0, <1>3, LogPuts, PutsGrown DEF TypeOK, Items
  <2> QED  BY <1>0, <1>1, <1>3, <2>1 DEF Log, listenerVars
<1>4. CASE ExitPut \/ FlushEmpty
  <2>1. Grown(OwnRecords, <<Sentinel>>)
    BY <1>4, AppendGrown DEF ExitPut, FlushEmpty
  <2> QED  BY <1>0, <1>1, <1>4, <2>1 DEF ExitPut, FlushEmpty, listenerVars
<1>5. CASE ExitInfo \/ FlushTimesOut
  <2>1. PICK items \in {<<>>, <<Sentinel>>} : LogOwnThen(items)
    BY <1>5 DEF ExitInfo, FlushTimesOut
  <2>2. Grown(OwnRecords, items)
    BY <2>1, LogOwnGrown
  <2> QED  BY <1>0, <1>1, <1>5, <2>2 DEF ExitInfo, FlushTimesOut, listenerVars
<1>6. ASSUME NEW h \in Handlers, Dequeue(h)
      PROVE  Delivery!Next
  <2>1. \A r \in Records : PendingCopies(r)' = PendingCopies(r) /\ PendingCopies(r) \in Nat
    BY <1>6, TailPlaces, PendingIs
  <2>2. \A r \in Records : PendingCopies(r)' >= PendingCopies(r)
    BY <2>1
  <2>3. UNCHANGED outcomeVars
    BY <1>6 DEF Dequeue
  <2> QED  BY <2>2, <2>3, AcceptStep DEF Delivery!Next
<1>7. ASSUME NEW h \in Handlers, Posting(h)
      PROVE  job[h] \in Records /\ Dest[h] \in Warehouses /\ Key[job[h]] \in Keys
  BY <1>7, HandlerAssumption DEF Posting, TypeOK
<1>8. ASSUME NEW h \in Handlers, PostSucceeds(h)
      PROVE  Delivery!Next
  <2>1. job[h] \in Records /\ Dest[h] \in Warehouses
    BY <1>7, <1>8 DEF PostSucceeds
  <2>2. job' = [job EXCEPT ![h] = NoRecord] /\ UNCHANGED <<queue, logged>>
    BY <1>8 DEF PostSucceeds, Finish, queueVars
  <2>3. Grown(OwnRecords, <<>>)
    BY <2>2, QuietGrown
  <2>4. /\ PendingCopies(job[h]) > 0
        /\ \A r \in Records : 
              PendingCopies(r)' = IF r = job[h] THEN PendingCopies(r) - 1 ELSE PendingCopies(r)
    BY <1>0, <2>1, <2>2, <2>3, DropHolder
  <2>5. Delivery!Drop(job[h])
    BY <2>1, <2>4 DEF Delivery!Drop
  <2>6. StoreAt(h) /\ UNCHANGED <<refused, abandoned>>
    BY <1>8 DEF PostSucceeds
  <2>7. CASE Holds(h)
    <3>1. stored' = stored
      BY <2>6, <2>7 DEF StoreAt, Holds, TypeOK
    <3>2. Delivery!AlreadyStored(job[h], Dest[h])
      BY <2>5, <2>6, <2>7, <3>1 DEF Delivery!AlreadyStored, Holds
    <3> QED  BY <2>1, <3>2 DEF Delivery!Next
  <2>8. CASE ~Holds(h)
    <3>1. Delivery!Store(job[h], Dest[h])
      BY <2>1, <2>4, <2>6, <2>8, StoreStep
    <3>2. Delivery!StoreConfirmed(job[h], Dest[h])
      BY <2>5, <2>6, <3>1 DEF Delivery!StoreConfirmed
    <3> QED  BY <2>1, <3>2 DEF Delivery!Next
  <2> QED  BY <2>7, <2>8
<1>9. ASSUME NEW h \in Handlers, PostRefused(h)
      PROVE  Delivery!Next
  <2>1. job[h] \in Records
    BY <1>7, <1>9 DEF PostRefused
  <2>2. Delivery!DropAndReport(job[h])
    BY <1>9, <2>1, ReportStep DEF PostRefused, Finish
  <2>3. Delivery!Refuse(job[h])
    BY <1>9, <2>2 DEF PostRefused, Delivery!Refuse
  <2> QED  BY <2>1, <2>3 DEF Delivery!Next
<1>10. ASSUME NEW h \in Handlers, Failure(h), GiveUp(h)
       PROVE  Delivery!Next
  <2>1. job[h] \in Records /\ Dest[h] \in Warehouses
    BY <1>7, <1>10 DEF Failure
  <2>2. PendingCopies(job[h]) > 0 /\ Delivery!DropAndReport(job[h])
    BY <1>10, <2>1, ReportStep DEF Failure, GiveUp
  <2>3. stored' = stored \/ Delivery!Store(job[h], Dest[h])
    BY <1>10, <2>1, <2>2, StoreStep DEF Failure
  <2>4. Delivery!Abandon(job[h])
    BY <1>10, <2>1, <2>2, <2>3 DEF Failure, GiveUp, Delivery!Abandon
  <2> QED  BY <2>1, <2>4 DEF Delivery!Next
<1>11. ASSUME NEW h \in Handlers, Failure(h), TryAgain(h)
       PROVE  Delivery!Next
  <2>1. job[h] \in Records /\ Dest[h] \in Warehouses
    BY <1>7, <1>11 DEF Failure
  <2>2. Grown(OwnRecords, <<>>)
    BY <1>11, LogOwnGrown DEF Failure
  <2>3. job' = job /\ UNCHANGED <<refused, abandoned>>
    BY <1>11 DEF Failure, TryAgain
  <2>4. \A r \in Records : PendingCopies(r)' >= PendingCopies(r)
    BY <1>0, <2>2, <2>3, KeepHolders
  <2>5. CASE stored' = stored
    BY <1>0, <1>1, <2>2, <2>3, <2>5 DEF outcomeVars
  <2>6. CASE ~Holds(h) /\ StoreAt(h)
    <3>1. PendingCopies(job[h]) > 0
      <4>1. h \in Holders(job[h]) /\ IsFiniteSet(Holders(job[h]))
        BY HoldersFinite DEF Holders
      <4>2. Cardinality(Holders(job[h])) # 0
        BY <4>1, FS_EmptySet
      <4> QED  BY <4>2, PendingIs
    <3>2. Delivery!Store(job[h], Dest[h])
      BY <2>1, <2>6, <3>1, StoreStep
    <3>3. Delivery!StoreUnconfirmed(job[h], Dest[h])
      BY <2>3, <2>4, <3>2 DEF Delivery!StoreUnconfirmed
    <3> QED  BY <2>1, <3>3 DEF Delivery!Next
  <2> QED  BY <1>11, <2>5, <2>6 DEF Failure
<1>12. ASSUME NEW h \in Handlers, PostFails(h) \/ PostFailsLate(h)
       PROVE  Delivery!Next
  BY <1>10, <1>11, <1>12 DEF PostFails, PostFailsLate
<1> QED
  BY <1>2, <1>3, <1>4, <1>5, <1>6, <1>8, <1>9, <1>12 DEF Next, Exit, Post

\* The threads, the one queue they share and the retries implement LogDelivery:
\* no copy of a record disappears unless a warehouse has stored or refused the
\* record or the retries have run out.
THEOREM DeliveryIsImplemented == Spec => ImplementsDelivery
<1>1. Init => Delivery!Init
  <2> SUFFICES ASSUME Init  PROVE  Delivery!Init
    OBVIOUS
  <2>1. \A r \in Records : PendingCopies(r) = 0
    <3> TAKE r \in Records
    <3>1. {i \in DOMAIN queue : queue[i] = r} = {} /\ {h \in Handlers : job[h] = r} = {}
      BY RecordAssumption DEF Init
    <3> QED  BY <3>1, FS_EmptySet DEF PendingCopies
  <2> QED  BY <2>1 DEF Init, Delivery!Init
<1>2. WarehouseInv /\ [Next]_vars => [Delivery!Next]_(Delivery!vars)
  BY DeliveryStep DEF WarehouseInv
<1> QED  BY <1>1, <1>2, WarehouseInvariant, PTL DEF Spec, ImplementsDelivery, Delivery!Spec
=============================================================================
