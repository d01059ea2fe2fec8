--------------------------------- MODULE RecordList ---------------------------------
(***************************************************************************)
(* The list handler (loggers/list_handler.py).  The logging module gives a     *)
(* handler's lock to one thread that emits a record at a time; whoever reads   *)
(* the list does without it, and both expire old records first.  A thread may  *)
(* be stopped between any two operations on the list.  Records are numbered as *)
(* they are created, which is not always the order they are emitted in.        *)
(***************************************************************************)
EXTENDS Integers, FiniteSets, Sequences, SequencesExt, PythonNone

CONSTANTS Writers,     \* threads that log
          Readers,     \* threads that read the list
          TimeToLive,  \* log_ttl
          MaxRecords,  \* bound: records that are created
          MaxReads,    \* bound: reads
          LastTick     \* bound: the time

Threads == Writers \cup Readers

\* A thread has a record and is not in the handler yet; or it is in emit, or in a
\* reader, where it has no record.
ThreadStates ==
    [step : {"created"}, record : Nat]
        \cup [step : {"check", "pop", "decide", "use"}, record : Nat \cup {None},
              asOf : Nat, held : Nat \cup {None}]

ASSUME RecordsAssumption ==
    /\ {TimeToLive, MaxRecords, MaxReads, LastTick} \subseteq Nat
    /\ Writers \cap Readers = {} /\ IsFiniteSet(Threads)
    /\ None \notin ThreadStates /\ None \notin Nat

VARIABLES tick,        \* the clock
          records,     \* _records_list
          created,     \* record.created of every record there has been
          threads,     \* what every thread does, or None
          emitted,     \* history: records whose emit returned, in that order
          expired,     \* history: the calls of on_expiry
          reads,       \* history: reads so far
          lastRead,    \* what the last read returned, or None
          overlapped   \* history: two threads have been expiring records at once

recordHistory == <<emitted, expired, reads, lastRead, overlapped>>
recordVars == <<tick, records, created, threads, recordHistory>>

RecordsInit ==
    /\ tick = 0
    /\ records = <<>> /\ created = <<>>
    /\ threads = [t \in Threads |-> None]
    /\ emitted = <<>> /\ expired = <<>> /\ reads = 0
    /\ lastRead = None /\ overlapped = FALSE

At(t, step) == threads[t] # None /\ threads[t].step = step
Inside == {t \in Threads : threads[t] # None /\ threads[t].step # "created"}
Steps(t, step) == threads' = [threads EXCEPT ![t].step = step]
EndsThread(t) == threads' = [threads EXCEPT ![t] = None]

TickPasses ==
    /\ tick < LastTick
    /\ tick' = tick + 1
    /\ UNCHANGED <<records, created, threads, recordHistory>>

-----------------------------------------------------------------------------
(* Both begin with expire_records *)

CreateRecord(t) ==
    /\ t \in Writers /\ threads[t] = None
    /\ Len(created) < MaxRecords
    /\ created' = Append(created, tick)
    /\ threads' = [threads EXCEPT ![t] = [step |-> "created", record |-> Len(created) + 1]]
    /\ UNCHANGED <<tick, records, recordHistory>>

Expiring(t, record) ==
    /\ threads' = [threads EXCEPT ![t] =
            [step |-> "check", record |-> record, asOf |-> tick, held |-> None]]
    /\ overlapped' = (overlapped \/ Inside # {})

\* Handler.handle takes the lock for emit.
StartEmit(t) ==
    /\ At(t, "created")
    /\ Inside \cap Writers = {}
    /\ Expiring(t, threads[t].record)
    /\ UNCHANGED <<tick, records, created, emitted, expired, reads, lastRead>>

StartRead(t) ==
    /\ t \in Readers /\ threads[t] = None
    /\ reads < MaxReads
    /\ reads' = reads + 1
    /\ Expiring(t, None)
    /\ UNCHANGED <<tick, records, created, emitted, expired, lastRead>>

CheckList(t) ==
    /\ At(t, "check")
    /\ Steps(t, IF records = <<>> THEN "use" ELSE "pop")
    /\ UNCHANGED <<tick, records, created, recordHistory>>

PopRecord(t) ==
    /\ At(t, "pop")
    /\ records # <<>>
    /\ threads' = [threads EXCEPT ![t].held = Head(records), ![t].step = "decide"]
    /\ records' = Tail(records)
    /\ UNCHANGED <<tick, created, recordHistory>>

\* Another thread has popped the last record: IndexError ends the emit or the read.
PopFails(t) ==
    /\ At(t, "pop")
    /\ records = <<>>
    /\ EndsThread(t)
    /\ UNCHANGED <<tick, records, created, recordHistory>>

IsOld(record, time) == created[record] < time - TimeToLive

\* Mutant: one old record is expired at a time.
AfterOldMutant == "use"

\* All old records in front of the first fresh one are expired.
AfterOld == "check"

\* on_expiry may raise, which ends the emit or the read.
Expire(t) ==
    /\ At(t, "decide")
    /\ IsOld(threads[t].held, threads[t].asOf)
    /\ expired' = Append(expired, threads[t].held)
    /\ \/ threads' = [threads EXCEPT ![t].held = None, ![t].step = AfterOld]
       \/ EndsThread(t)
    /\ UNCHANGED <<tick, records, created, emitted, reads, lastRead, overlapped>>

\* Mutant: the record that ends the expiry is gone.
PutBackMutant(record) == records

PutBack(record) == <<record>> \o records

\* The first fresh record goes back to the front, and ends the expiry.
KeepFresh(t) ==
    /\ At(t, "decide")
    /\ ~IsOld(threads[t].held, threads[t].asOf)
    /\ records' = PutBack(threads[t].held)
    /\ threads' = [threads EXCEPT ![t].held = None, ![t].step = "use"]
    /\ UNCHANGED <<tick, created, recordHistory>>

-----------------------------------------------------------------------------
(* What they expired them for *)

\* An error in on_record comes after.
AppendRecord(t) ==
    /\ At(t, "use") /\ t \in Writers
    /\ records' = Append(records, threads[t].record)
    /\ emitted' = Append(emitted, threads[t].record)
    /\ EndsThread(t)
    /\ UNCHANGED <<tick, created, expired, reads, lastRead, overlapped>>

\* records and the five lists by level.
ReadRecords(t) ==
    /\ At(t, "use") /\ t \in Readers
    /\ lastRead' = [got |-> records, asOf |-> threads[t].asOf]
    /\ EndsThread(t)
    /\ UNCHANGED <<tick, records, created, emitted, expired, reads, overlapped>>

RecordsNext ==
    \/ TickPasses
    \/ \E t \in Threads :
        \/ CreateRecord(t) \/ StartEmit(t) \/ StartRead(t)
        \/ CheckList(t) \/ PopRecord(t) \/ PopFails(t) \/ Expire(t) \/ KeepFresh(t)
        \/ AppendRecord(t) \/ ReadRecords(t)

RecordsSpec == RecordsInit /\ [][RecordsNext]_recordVars

-----------------------------------------------------------------------------
(* Properties *)

\* Where a record is: how often in a list, and in whose hands.
Copies(list, r) == Cardinality({i \in DOMAIN list : list[i] = r})
Holders(r) == {t \in Inside : threads[t].held = r}

\* Threads that expire records while others read and log lose none: a record that was
\* emitted is in the list, or in the hands of one thread, or was given to on_expiry, once
\* in all and only when it was too old (list_handler.py:61, 67).
NothingLost ==
    /\ \A r \in ToSet(emitted) :
        Copies(records, r) + Cardinality(Holders(r)) + Copies(expired, r) = 1
    /\ \A r \in ToSet(expired) : IsOld(r, tick)

\* A record too old to be there is read only behind one that was emitted before it and
\* created later; or after two threads have been expiring records at once
\* (list_handler.py:68).
OldBehindFresh ==
    lastRead # None /\ ~overlapped =>
        \A i \in DOMAIN lastRead.got :
            IsOld(lastRead.got[i], lastRead.asOf) =>
                \E j \in 1..(i - 1) : created[lastRead.got[j]] > created[lastRead.got[i]]

\* Both: every record is kept exactly as long as it is fresh, but for what these allow.
RecordsRight == NothingLost /\ OldBehindFresh
=====================================================================================
