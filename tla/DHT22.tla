---------------------------------- MODULE DHT22 ----------------------------------
(***************************************************************************)
(* The DHT22 driver of devices/dht22/dht22_lib.py.  The application's       *)
(* thread is in trigger; pigpio's thread calls _cb once for every edge of   *)
(* the data line and for every timeout of the watchdog, in their order but  *)
(* at any later time; the watchdog itself belongs to the pigpio daemon.     *)
(* Rising edges within a reply only set high_tick: the width of the pulse   *)
(* that the next falling edge ends stands for them.  Edges may be lost, any *)
(* number of them; none comes from elsewhere.                               *)
(***************************************************************************)
EXTENDS Integers, FiniteSets, Sequences, SequencesExt

CONSTANTS ByteBits,      \* bits in a byte: 8 in the code
          MaxNoResponse, \* MAX_NO_RESPONSE: 2 in the code
          Replies,       \* the messages the sensor may send, as sequences of bits
          Gaps,          \* times between the rising edges of two messages
          Quiet,         \* above this a rising edge begins a message: 250000 us
          Wrap,          \* ticks are counted modulo this: 2^32
          MaxTriggers,   \* bound: calls of trigger
          MaxTimeouts,   \* bound: timeouts that wait to be handled
          MaxUpsets,     \* bound: edges lost or late, wrong distances, lags of _cb
          None           \* no message

\* The powers of 2, and how many values a byte has.
Power[n \in 0..ByteBits] == IF n = 0 THEN 1 ELSE 2 * Power[n - 1]
ByteValues == Power[ByteBits]

\* The number that a part of a message stands for.
Number(bits, from, to) ==
    LET N[i \in (from - 1)..Len(bits)] == IF i < from THEN 0 ELSE 2 * N[i - 1] + bits[i]
    IN N[to]

\* A message is two bytes of humidity, two of temperature and their sum.
Byte(reply, i) == Number(reply, (i - 1) * ByteBits + 1, i * ByteBits)
IsValid(reply) ==
    (Byte(reply, 1) + Byte(reply, 2) + Byte(reply, 3) + Byte(reply, 4)) % ByteValues
        = Byte(reply, 5)

ASSUME ConstantsAssumption ==
    /\ ByteBits \in Nat \ {0}
    /\ MaxNoResponse \in Nat
    /\ Replies \subseteq [1..(5 * ByteBits) -> {0, 1}]
    /\ Gaps \subseteq Nat
    /\ {Quiet, Wrap, MaxTriggers, MaxTimeouts, MaxUpsets} \subseteq Nat
    /\ Quiet + 1 < Wrap
    /\ None \notin Replies
    /\ \A r \in Replies : IsValid(r)

VARIABLES bit, acc, checksum,      \* the message: bit, the four bytes, checksum
          reading,                 \* humidity and temperature, in tenths
          astray,                  \* history: see below, until a message begins
          bad_cs, bad_sm, bad_mm, bad_sr, no_response,
          powered,                 \* powered
          watchdog,                \* whether the daemon's watchdog is set
          events,                  \* notifications that _cb has not handled
          callback,                \* "ready", "cycling" (the power) or "cancelled"
          trigger,                 \* where the application is in trigger
          triggers, readings,      \* history: calls, and accepted readings
          silent,                  \* history: calls without a byte since the last with
          rushed,                  \* history: _cb lagged behind (see below)
          mistimed,                \* history: see below
          upsets                   \* history: how often the bound was used

message == <<bit, acc, checksum, reading, astray>>
counters == <<bad_cs, bad_sm, bad_mm, bad_sr, no_response>>
history == <<triggers, silent, rushed, mistimed, upsets>>
vars == <<message, counters, powered, watchdog, events, callback, trigger,
          history, readings>>

-----------------------------------------------------------------------------
(* What is on the line *)

Zero == "zero"    \* a pulse below 50 us
One  == "one"     \* from 50 us
Bad  == "bad"     \* from 200 us
Widths == {Zero, One, Bad}

\* of is the reply a falling edge belongs to, longer how many of its pulses are; seen
\* is whether the edge of the pull before a rising edge was notified.
Fall(width, of, longer) == [level |-> 0, width |-> width, of |-> of, longer |-> longer]
Rise(gap, seen) == [level |-> 1, gap |-> gap, seen |-> seen]
Timeout == [level |-> 2]

\* A reply is two pulses of its own, the data and the checksum.
Pulses(reply) ==
    <<Zero, One>> \o [i \in 1..Len(reply) |-> IF reply[i] = 1 THEN One ELSE Zero]

\* One more disturbance of what arrives of a reply: it breaks off, a falling edge is
\* lost, a pulse is longer or, its rising edge lost, seems so, or it is the first
\* rising edge that is lost, and a falling edge comes before any.
Disturbed(a) ==
    LET p == a.pulses
        Arrives(early, pulses, longer) ==
            [early |-> early, pulses |-> pulses, longer |-> longer, faults |-> a.faults + 1]
    IN  {Arrives(a.early, SubSeq(p, 1, n), a.longer) : n \in 0..(Len(p) - 1)}
          \cup {Arrives(a.early, RemoveAt(p, i), a.longer) : i \in 1..Len(p)}
          \cup {Arrives(a.early, [p EXCEPT ![i] = w], a.longer + 1) :
                    i \in {j \in 1..Len(p) : p[j] = Zero}, w \in {One, Bad}}
          \cup {Arrives(a.early, [p EXCEPT ![i] = Bad], a.longer + 1) :
                    i \in {j \in 1..Len(p) : p[j] = One}}
          \cup IF p = <<>> THEN {} ELSE {Arrives(a.early + 1, Tail(p), a.longer)}

\* What may arrive of each reply.
Arriving == [reply \in Replies |->
    LET A[n \in 0..MaxUpsets] ==
            IF n = 0
            THEN {[early |-> 0, pulses |-> Pulses(reply), longer |-> 0, faults |-> 0]}
            ELSE A[n - 1] \cup UNION {Disturbed(a) : a \in A[n - 1]}
    IN A[MaxUpsets]]

\* What a reply means.
Decoded(reply) ==
    LET magnitude == Number(reply, 2 * ByteBits + 2, 4 * ByteBits) IN
    [humidity |-> Number(reply, 1, 2 * ByteBits),
     temperature |-> IF reply[2 * ByteBits + 1] = 1 THEN -magnitude ELSE magnitude]

Unread == [humidity |-> -999, temperature |-> -999]

-----------------------------------------------------------------------------
Init ==
    /\ bit = 5 * ByteBits
    /\ acc = [byte \in 0..3 |-> 0]     \* unset in the code until a message begins
    /\ checksum = 0
    /\ reading = Unread /\ astray = FALSE
    /\ bad_cs = 0 /\ bad_sm = 0 /\ bad_mm = 0 /\ bad_sr = 0 /\ no_response = 0
    /\ powered = TRUE
    /\ watchdog = FALSE
    /\ events = <<>>
    /\ callback = "ready"
    /\ trigger = "idle"
    /\ triggers = 0 /\ readings = 0 /\ silent = 0
    /\ rushed = FALSE /\ mistimed = FALSE /\ upsets = 0

Upset(faults) ==
    /\ upsets' = upsets + faults
    /\ upsets' <= MaxUpsets

Times(condition) == IF condition THEN 1 ELSE 0

AtRest ==
    /\ callback = "ready" /\ trigger = "idle"
    /\ events = <<>>
    /\ ~watchdog

-----------------------------------------------------------------------------
(* trigger *)

\* The line is pulled low, which is an edge like any other.
Notified(edges) == events' = IF callback = "cancelled" THEN events ELSE events \o edges

\* high_tick is long ago, so that the edge ends a pulse that is too long: unless the
\* ticks have come round, or the edge is lost.
Lost == "lost"
PullEdge(width) == IF width = Lost THEN <<>> ELSE <<Fall(width, None, 0)>>

Pull ==
    /\ powered
    /\ trigger = "idle"
    /\ triggers < MaxTriggers
    /\ triggers' = triggers + 1
    /\ \E width \in Widths \cup {Lost} :
        /\ trigger' = CASE width = Bad -> "pulled"
                        [] width = Lost -> "unseen"
                        [] OTHER -> "wrapped"
        /\ Notified(PullEdge(width))
        /\ mistimed' = (mistimed \/ width # Bad)
        /\ Upset(Times(~AtRest) + Times(width # Bad))
    /\ rushed' = (rushed \/ ~AtRest)
    /\ UNCHANGED <<message, counters, powered, watchdog, callback, silent, readings>>

\* set_mode lets the line rise, and the sensor replies.  What arrives of the reply is
\* notified at once: _cb may handle any part of it before the application goes on.
\* Its first rising edge resets nothing if the ticks have come round since the last.
Release ==
    /\ trigger \in {"pulled", "wrapped", "unseen"}
    /\ trigger' = "released"
    /\ \E gap \in Gaps, reply \in Replies : \E a \in Arriving[reply] :
        LET missed == gap % Wrap <= Quiet
            silence == a.pulses = <<>> /\ a.early = 0
        IN
        /\ trigger = "wrapped" => missed
        /\ \E widths \in [1..a.early -> IF missed THEN Widths ELSE {Bad}] :
            Notified([i \in 1..a.early |-> Fall(widths[i], None, 0)]
                     \o <<Rise(gap, trigger # "unseen")>>
                     \o [i \in 1..Len(a.pulses) |-> Fall(a.pulses[i], reply, a.longer)])
        /\ mistimed' = (mistimed \/ missed \/ a.early > 0)
        /\ Upset(Times(missed) + IF silence THEN 0 ELSE a.faults)
        /\ silent' = IF Len(a.pulses) < ByteBits + 2 THEN silent + 1 ELSE 0
    /\ UNCHANGED <<message, counters, powered, watchdog, callback, triggers, rushed,
                   readings>>

\* set_watchdog, which may come after the reply.
SetWatchdog ==
    /\ trigger = "released"
    /\ trigger' = "idle"
    /\ watchdog' = TRUE
    /\ LET lags == \E e \in ToSet(events) : e.level = 0 /\ e.of = None IN
        rushed' = (rushed \/ lags) /\ Upset(Times(lags))
    /\ UNCHANGED <<message, counters, powered, events, callback, triggers, silent,
                   mistimed, readings>>

Cancel ==
    /\ callback = "ready" /\ trigger = "idle"
    /\ callback' = "cancelled"
    /\ watchdog' = FALSE
    /\ events' = <<>>
    /\ UNCHANGED <<message, counters, powered, trigger, history, readings>>

-----------------------------------------------------------------------------
(* The daemon *)

Waiting == Cardinality({i \in DOMAIN events : events[i] = Timeout})

\* No edge for 200 ms.  The daemon goes on until the watchdog is set to 0.
TimesOut ==
    /\ watchdog
    /\ trigger = "idle" /\ callback # "cancelled"
    /\ Waiting < MaxTimeouts
    /\ events' = Append(events, Timeout)
    /\ rushed' = (rushed \/ Waiting > 0)
    /\ Upset(Times(Waiting > 0))
    /\ UNCHANGED <<message, counters, powered, watchdog, callback, trigger,
                   triggers, silent, mistimed, readings>>

-----------------------------------------------------------------------------
(* _cb *)

Handles(level) ==
    /\ callback = "ready"
    /\ events # <<>>
    /\ Head(events).level = level
    /\ events' = Tail(events)

Value(width) == IF width = Zero THEN 0 ELSE 1

\* Mutant: a pulse that is too long counts as a 1 and no more.
MarkedMutant(width) == checksum

\* A pulse that is too long makes a checksum that no byte equals.
Marked(width) == IF width = Bad THEN ByteValues ELSE checksum

\* temp_high & 128 is the sign.
Measured ==
    LET sign == Power[ByteBits - 1]
        magnitude == (acc[2] % sign) * ByteValues + acc[3]
    IN [humidity |-> acc[0] * ByteValues + acc[1],
        temperature |-> IF acc[2] >= sign THEN -magnitude ELSE magnitude]

ChecksumOk(sum) == (acc[0] + acc[1] + acc[2] + acc[3]) % ByteValues = sum

FallingAfter ==
    /\ bit >= 5 * ByteBits
    /\ bit' = 5 * ByteBits + 1
    /\ checksum' = Marked(Head(events).width)
    /\ UNCHANGED <<acc, reading, counters, watchdog, readings>>

FallingInChecksum ==
    /\ bit >= 4 * ByteBits /\ bit < 5 * ByteBits
    /\ bit' = bit + 1
    /\ checksum' = 2 * Marked(Head(events).width) + Value(Head(events).width)
    /\ IF bit = 5 * ByteBits - 1
       THEN /\ watchdog' = FALSE
            /\ no_response' = 0
            /\ IF ChecksumOk(checksum')
               THEN /\ reading' = Measured
                    /\ acc' = [acc EXCEPT ![2] = acc[2] % Power[ByteBits - 1]]
                    /\ readings' = readings + 1
                    /\ bad_cs' = bad_cs
               ELSE /\ bad_cs' = bad_cs + 1
                    /\ UNCHANGED <<reading, acc, readings>>
       ELSE UNCHANGED <<watchdog, no_response, bad_cs, reading, acc, readings>>
    /\ UNCHANGED <<bad_sm, bad_mm, bad_sr>>

FallingInData ==
    /\ bit >= 0 /\ bit < 4 * ByteBits
    /\ bit' = bit + 1
    /\ LET byte == bit \div ByteBits IN
        acc' = [acc EXCEPT ![byte] = 2 * acc[byte] + Value(Head(events).width)]
    /\ checksum' = Marked(Head(events).width)
    /\ UNCHANGED <<reading, counters, watchdog, readings>>

FallingInHeader ==
    /\ bit < 0
    /\ bit' = bit + 1
    /\ checksum' = Marked(Head(events).width)
    /\ UNCHANGED <<acc, reading, counters, watchdog, readings>>

FallingEdge ==
    /\ Handles(0)
    /\ FallingAfter \/ FallingInChecksum \/ FallingInData \/ FallingInHeader
    /\ astray' = (astray \/ (Head(events).of = None /\ Head(events).width # Bad))
    /\ UNCHANGED <<powered, callback, trigger, history>>

\* tickDiff subtracts modulo the width of a tick.
RisingEdge ==
    /\ Handles(1)
    /\ IF Head(events).gap % Wrap > Quiet
       THEN /\ bit' = -2
            /\ acc' = [byte \in 0..3 |-> 0]
            /\ checksum' = 0
            /\ astray' = FALSE
       ELSE /\ UNCHANGED <<bit, acc, checksum>>
            /\ astray' = (astray \/ ~Head(events).seen)
    /\ UNCHANGED <<reading, counters, powered, watchdog, callback, trigger,
                   history, readings>>

\* Mutant: a message whose absence leads to a reset is not counted as missing.
MissingMutant ==
    /\ bit < ByteBits
    /\ bad_sm' = bad_sm
    /\ IF no_response + 1 > MaxNoResponse
       THEN /\ no_response' = 0
            /\ bad_sr' = bad_sr + 1
            /\ UNCHANGED <<bad_mm, powered, callback>>
       ELSE /\ no_response' = no_response + 1
            /\ bad_mm' = bad_mm + 1
            /\ UNCHANGED <<bad_sr, powered, callback>>

Missing ==
    /\ bit < ByteBits
    /\ bad_mm' = bad_mm + 1
    /\ bad_sm' = bad_sm
    /\ IF no_response + 1 > MaxNoResponse
       THEN /\ no_response' = 0
            /\ bad_sr' = bad_sr + 1
            /\ \/ powered' = FALSE /\ callback' = "cycling"
               \/ UNCHANGED <<powered, callback>>     \* no power pin
       ELSE /\ no_response' = no_response + 1
            /\ UNCHANGED <<bad_sr, powered, callback>>

\* Mutant: a short message leaves the count of missing ones.
ShortMutant ==
    /\ bit >= ByteBits /\ bit < 5 * ByteBits - 1
    /\ bad_sm' = bad_sm + 1
    /\ UNCHANGED <<no_response, bad_mm, bad_sr, powered, callback>>

Short ==
    /\ bit >= ByteBits /\ bit < 5 * ByteBits - 1
    /\ bad_sm' = bad_sm + 1
    /\ no_response' = 0
    /\ UNCHANGED <<bad_mm, bad_sr, powered, callback>>

Full ==
    /\ bit >= 5 * ByteBits - 1
    /\ no_response' = 0
    /\ UNCHANGED <<bad_sm, bad_mm, bad_sr, powered, callback>>

WatchdogTimeout ==
    /\ Handles(2)
    /\ watchdog' = FALSE
    /\ Missing \/ Short \/ Full
    /\ UNCHANGED <<message, bad_cs, trigger, history, readings>>

\* The end of the power cycle, whose edges on the line may have been noticed.
PowerBack ==
    /\ callback = "cycling"
    /\ callback' = "ready"
    /\ powered' = TRUE
    /\ \/ UNCHANGED <<events, mistimed, upsets>>
       \/ \E width \in Widths \cup {Lost}, gaps \in {<<>>, <<Quiet>>, <<Quiet + 1>>} :
            LET usual == width = Bad /\ gaps = <<Quiet + 1>> IN
            /\ width \in {Zero, One} => gaps # <<Quiet + 1>>
            /\ events' = events \o PullEdge(width)
                          \o [i \in 1..Len(gaps) |-> Rise(gaps[i], width # Lost)]
            /\ mistimed' = (mistimed \/ ~usual)
            /\ Upset(Times(~usual))
    /\ UNCHANGED <<message, counters, watchdog, trigger, triggers, silent, rushed, readings>>

Next ==
    \/ Pull \/ Release \/ SetWatchdog \/ Cancel
    \/ TimesOut \/ FallingEdge \/ RisingEdge \/ WatchdogTimeout \/ PowerBack

Spec == Init /\ [][Next]_vars

-----------------------------------------------------------------------------
(* Properties *)

TypeOK ==
    /\ bit \in -2..(5 * ByteBits + 1)
    /\ acc \in [0..3 -> 0..(ByteValues - 1)]
    /\ checksum \in Nat
    /\ {bad_cs, bad_sm, bad_mm, bad_sr} \subseteq Nat
    /\ no_response \in 0..MaxNoResponse
    /\ powered \in BOOLEAN /\ watchdog \in BOOLEAN
    /\ callback \in {"ready", "cycling", "cancelled"}
    /\ trigger \in {"idle", "pulled", "wrapped", "unseen", "released"}
    /\ powered <=> callback # "cycling"

\* A reading that is accepted is the one the sensor sent with the message whose edge
\* completed it, whichever of its edges are lost and however triggers follow each
\* other: unless two of that message's pulses were longer, for two bits that are
\* raised may make up for each other in the checksum (dht22_lib.py:122); or the
\* message before lacks an edge and goes on into this one.  It does when _cb takes the
\* edge of a pull for a bit of it, because the ticks have come round (:96), or misses
\* that edge, and no rising edge begins a message either: astray, until one does.
ReadingSent ==
    [][readings' # readings /\ ~astray' =>
        /\ Head(events).of # None
        /\ reading' = Decoded(Head(events).of) \/ Head(events).longer >= 2]_vars

\* rushed is set when trigger is called before the driver has dealt with the call
\* before, when two timeouts wait, and when the watchdog is set before _cb has handled
\* the pull: then a late set_watchdog(0) cancels it.  mistimed is set when the reply's
\* first rising edge is lost or resets nothing, by the distance or the ticks' wrap, and
\* when the edge of the pull is lost or within a wrap of the last rising edge.
Orderly == AtRest /\ ~rushed /\ ~mistimed

\* Once a trigger is dealt with it has been counted exactly once: as a reading, a bad
\* checksum, a short message or a missing one.  A message that lacks a single edge is
\* counted only when the next trigger completes it (dht22_lib.py:181, :185).
Accounted ==
    Orderly => readings + bad_cs + bad_sm + bad_mm
                   = triggers - (IF bit = 5 * ByteBits - 1 THEN 1 ELSE 0)

\* The sensor is reset at every third trigger in a row that it leaves unanswered, and
\* at no other time: the count the driver keeps is that of those triggers (:170).
ResetsJustified ==
    Orderly => no_response = silent % (MaxNoResponse + 1)
==================================================================================
