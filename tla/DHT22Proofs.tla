------------------------------ MODULE DHT22Proofs ------------------------------
(***************************************************************************)
(* What DHT22 promises of the counters of the driver and of the readings   *)
(* it accepts, for bytes of any number of bits, any replies and any number *)
(* of calls.                                                               *)
(***************************************************************************)
EXTENDS DHT22, FiniteSetTheorems, SequenceTheorems, TLAPS

\* What _cb may be notified of.
Notes ==
    [level : {0}, width : Widths, of : Replies \cup {None}, longer : Nat]
        \cup [level : {1}, gap : Nat, seen : BOOLEAN] \cup [level : {2}]

Period == MaxNoResponse + 1

DriverTypes ==
    /\ bit \in Int /\ events \in Seq(Notes)
    /\ {bad_cs, bad_sm, bad_mm, bad_sr, no_response} \subseteq Nat
    /\ {triggers, readings, silent} \subseteq Nat
    /\ rushed \in BOOLEAN /\ mistimed \in BOOLEAN

\* All of the four outcomes, and the one that is still to come of a message
\* that lacks an edge.
Counted == readings + bad_cs + bad_sm + bad_mm
Dangling == bit = 5 * ByteBits - 1
Late == IF Dangling THEN 1 ELSE 0

\* The count of missing messages is that of the calls without an answer.
Kept == no_response = silent % Period

\* silent already counts the call whose reply is on its way, of n edges, or the
\* rest of it.
Unanswered == silent > 0 /\ no_response = (silent - 1) % Period
Awaited(n) == IF n < ByteBits + 2 THEN Unanswered ELSE silent = 0
AwaitedRest(n) == IF bit + n < ByteBits THEN Unanswered ELSE silent = 0

PullNote == Fall(Bad, None, 0)
PowerNote == Rise(Quiet + 1, TRUE)

\* A rising edge that begins a message.
Opens(e) == e.level = 1 /\ e.gap \in Nat /\ e.gap % Wrap > Quiet

\* From k on: n edges of a reply, and a timeout if t = 1.
Edges(q, k, n, t) ==
    /\ \A i \in k .. (k + n - 1) : q[i].level = 0 /\ q[i].of # None
    /\ Len(q) = k + n - 1 + t
    /\ t = 1 => q[k + n] = Timeout

\* The stages of a call of trigger, in an orderly life of the driver.
Settled ==
    /\ callback = "ready" /\ trigger = "idle" /\ events = <<>> /\ ~watchdog
    /\ Counted = triggers - Late /\ Kept
    /\ Dangling => silent = 0

PullWaits ==
    /\ callback = "ready" /\ trigger = "pulled" /\ events = <<PullNote>>
    /\ Counted = triggers - 1 - Late /\ Kept
    /\ Dangling => silent = 0

PullSeen ==
    /\ callback = "ready" /\ trigger = "pulled" /\ events = <<>>
    /\ Counted = triggers - 1 /\ Kept

PullAndReplyWait(n) ==
    /\ callback = "ready" /\ trigger = "released"
    /\ events[1] = PullNote /\ Opens(events[2]) /\ Edges(events, 3, n, 0)
    /\ Counted = triggers - 1 - Late /\ Awaited(n)
    /\ Dangling => silent <= 1

ReplyWaits(n, t) ==
    /\ callback = "ready" /\ trigger \in {"released", "idle"}
    /\ trigger = "idle" => watchdog
    /\ t = 1 => trigger = "idle"
    /\ Opens(events[1]) /\ Edges(events, 2, n, t)
    /\ Counted = triggers - 1 /\ Awaited(n)

ReplyRead(n, t) ==
    /\ callback = "ready" /\ trigger \in {"released", "idle"}
    /\ t = 1 => trigger = "idle"
    /\ Edges(events, 1, n, t)
    /\ IF bit < 5 * ByteBits
       THEN /\ trigger = "idle" => watchdog
            /\ Counted = triggers - 1 /\ AwaitedRest(n)
       ELSE Counted = triggers /\ silent = 0 /\ no_response = 0

PowerOff ==
    /\ callback = "cycling" /\ ~powered
    /\ trigger = "idle" /\ events = <<>> /\ ~watchdog
    /\ bit < ByteBits /\ Counted = triggers /\ Kept

PowerOn ==
    /\ callback = "ready" /\ trigger = "idle" /\ ~watchdog
    /\ \/ events = <<PullNote, PowerNote>> /\ bit < ByteBits
       \/ events = <<PowerNote>>
    /\ Counted = triggers /\ Kept

Stage ==
    \/ Settled \/ PullWaits \/ PullSeen \/ PowerOff \/ PowerOn
    \/ \E n \in Nat : PullAndReplyWait(n)
    \/ \E n \in Nat, t \in {0, 1} : ReplyWaits(n, t) \/ ReplyRead(n, t)

DriverInv == DriverTypes /\ (~rushed /\ ~mistimed /\ callback # "cancelled" => Stage)

-----------------------------------------------------------------------------
(* Remainders                                                              *)

LEMMA DivMod ==
    ASSUME NEW s \in Nat, NEW m \in Nat \ {0}
    PROVE  /\ s = m * (s \div m) + (s % m)
           /\ s % m \in 0 .. (m - 1) /\ s \div m \in Nat
OBVIOUS

LEMMA OneRemainder ==
    ASSUME NEW m \in Nat \ {0}, NEW k \in Int, NEW d \in Int,
           NEW r \in 0 .. (m - 1), NEW x \in 0 .. (m - 1), m * k + r = m * d + x
    PROVE  r = x
<1>1. m * (k - d) = x - r
  OBVIOUS
<1>2. CASE k - d >= 1
  <2>1. m * (k - d) >= m
    BY <1>2
  <2> QED BY <2>1, <1>1
<1>3. CASE k - d <= -1
  <2>1. m * (k - d) <= -m
    BY <1>3
  <2> QED BY <2>1, <1>1
<1>4. CASE k = d
  BY <1>4
<1> QED BY <1>2, <1>3, <1>4

\* A counter that is reset when it reaches m counts modulo m.
LEMMA CountsModulo ==
    ASSUME NEW s \in Nat, NEW m \in Nat \ {0}
    PROVE  (s + 1) % m = IF (s % m) + 1 = m THEN 0 ELSE (s % m) + 1
<1>1. /\ s = m * (s \div m) + (s % m)
      /\ s % m \in 0 .. (m - 1) /\ s \div m \in Int
      /\ s + 1 = m * ((s + 1) \div m) + ((s + 1) % m)
      /\ (s + 1) % m \in 0 .. (m - 1) /\ (s + 1) \div m \in Int
  BY DivMod
<1>2. CASE (s % m) + 1 = m
  <2>1. s + 1 = m * ((s \div m) + 1) + 0
    BY <1>1, <1>2
  <2>2. 0 \in 0 .. (m - 1) /\ (s \div m) + 1 \in Int
    BY <1>1
  <2>3. m * ((s \div m) + 1) + 0 = m * ((s + 1) \div m) + ((s + 1) % m)
    BY <2>1, <1>1
  <2>4. 0 = (s + 1) % m
    BY <1>1, <2>2, <2>3, OneRemainder
  <2> QED BY <1>2, <2>4
<1>3. CASE (s % m) + 1 # m
  <2>1. m * (s \div m) + ((s % m) + 1) = m * ((s + 1) \div m) + ((s + 1) % m)
    BY <1>1
  <2>2. (s % m) + 1 \in 0 .. (m - 1)
    BY <1>1, <1>3
  <2>3. (s % m) + 1 = (s + 1) % m
    BY <1>1, <2>1, <2>2, OneRemainder
  <2> QED BY <1>3, <2>3
<1> QED BY <1>2, <1>3

LEMMA Constants ==
    /\ ByteBits \in Nat /\ ByteBits > 0
    /\ Period \in Nat \ {0} /\ 0 % Period = 0
    /\ Quiet \in Nat /\ Wrap \in Nat \ {0} /\ (Quiet + 1) % Wrap > Quiet
    /\ \A g \in Gaps : g \in Nat /\ g % Wrap \in Nat
    /\ \A r \in Replies : r # None /\ r \in Seq({0, 1})
<1>1. /\ ByteBits \in Nat \ {0} /\ MaxNoResponse \in Nat
      /\ Quiet \in Nat /\ Wrap \in Nat /\ Quiet + 1 < Wrap
      /\ Gaps \subseteq Nat
  BY ConstantsAssumption
<1>2. Period \in Nat \ {0} /\ 0 % Period = 0
  BY <1>1 DEF Period
<1>3. Wrap \in Nat \ {0} /\ (Quiet + 1) % Wrap = Quiet + 1
  BY <1>1
<1>4. \A r \in Replies : r # None /\ r \in Seq({0, 1})
  BY ConstantsAssumption, <1>1
<1> QED BY <1>1, <1>2, <1>3, <1>4

-----------------------------------------------------------------------------
(* What arrives of a reply                                                 *)

\* Induction over the numbers: a set that lacked one would lack a least one.
LEMMA AllNumbers ==
    ASSUME NEW T, 0 \in T, \A n \in Nat : n \in T => n + 1 \in T
    PROVE  \A n \in Nat : n \in T
<1> DEFINE S == Nat \ T
           R == OpToRel(<, Nat)
<1>1. IsWellFoundedOn(R, Nat)
  BY NatLessThanWellFounded
<1>2. \A x, y \in Nat : x < y => <<x, y>> \in R
  BY DEF OpToRel
<1> HIDE DEF R
<1>3. SUFFICES ASSUME S # {}  PROVE FALSE
  OBVIOUS
<1>4. PICK m \in S : \A y \in S : ~(<<y, m>> \in R)
  BY <1>1, <1>3, WFMin
<1>5. m \in Nat /\ m # 0 /\ m - 1 \in Nat /\ m - 1 < m /\ (m - 1) + 1 = m
  OBVIOUS
<1>6. m - 1 \notin S
  BY <1>2, <1>4, <1>5
<1> QED BY <1>4, <1>5, <1>6

\* Disturbing what arrives once more, step by step, defines a function.
Grown(g, first, n) ==
    g = [k \in 0 .. n |->
            IF k = 0 THEN {first} ELSE g[k - 1] \cup UNION {Disturbed(a) : a \in g[k - 1]}]

LEMMA GrownDefined ==
    ASSUME NEW first
    PROVE  \A n \in Nat : \E g : Grown(g, first, n)
<1> DEFINE T == {n \in Nat : \E g : Grown(g, first, n)}
<1>1. 0 \in T
  <2>1. PICK g : g = [k \in 0 .. 0 |-> {first}]
    OBVIOUS
  <2>2. \A k \in 0 .. 0 : k = 0
    OBVIOUS
  <2>3. g = [k \in 0 .. 0 |->
              IF k = 0 THEN {first} ELSE g[k - 1] \cup UNION {Disturbed(a) : a \in g[k - 1]}]
    BY <2>1, <2>2
  <2>4. Grown(g, first, 0)
    BY <2>3 DEF Grown
  <2> QED BY <2>4
<1>2. ASSUME NEW n \in Nat, n \in T  PROVE n + 1 \in T
  <2>1. PICK g : Grown(g, first, n)
    BY <1>2
  <2>2. \A k \in 0 .. n : g[k] = IF k = 0 THEN {first}
                                 ELSE g[k - 1] \cup UNION {Disturbed(a) : a \in g[k - 1]}
    BY <2>1 DEF Grown
  <2>3. PICK last : last = g[n] \cup UNION {Disturbed(a) : a \in g[n]}
    OBVIOUS
  <2>4. PICK h : h = [k \in 0 .. (n + 1) |-> IF k = n + 1 THEN last ELSE g[k]]
    OBVIOUS
  <2>5. h[n + 1] = last /\ \A k \in 0 .. n : h[k] = g[k]
    BY <2>4
  <2>6. ASSUME NEW k \in 0 .. (n + 1)
        PROVE  h[k] = IF k = 0 THEN {first}
                      ELSE h[k - 1] \cup UNION {Disturbed(a) : a \in h[k - 1]}
    <3>1. CASE k = n + 1
      <4>1. k - 1 = n /\ n \in 0 .. n /\ k # 0
        BY <3>1
      <4>2. h[k - 1] = g[n]
        BY <2>5, <4>1
      <4> QED BY <2>3, <2>5, <3>1, <4>1, <4>2
    <3>2. CASE k # n + 1
      <4>1. k \in 0 .. n /\ (k # 0 => k - 1 \in 0 .. n)
        BY <3>2
      <4> QED BY <2>2, <2>5, <4>1
    <3> QED BY <3>1, <3>2
  <2>7. Grown(h, first, n + 1)
    BY <2>4, <2>6 DEF Grown
  <2> QED BY <2>7
<1> HIDE DEF T
<1>3. \A n \in Nat : n \in T
  BY <1>1, <1>2, AllNumbers
<1> QED BY <1>3 DEF T

\* At most as many pulses as were sent; if it is as many, they are the same but for
\* those that are longer.
Came(reply, a) ==
    LET p == Pulses(reply) IN
    /\ a.early \in Nat /\ a.longer \in Nat /\ a.pulses \in Seq(Widths)
    /\ Len(a.pulses) <= Len(p)
    /\ Len(a.pulses) = Len(p) =>
         /\ a.longer = 0 => a.pulses = p
         /\ a.longer = 1 =>
              \E i \in 1 .. Len(p) : \E w \in {One, Bad} : a.pulses = [p EXCEPT ![i] = w]

LEMMA SentPulses ==
    ASSUME NEW reply \in Replies
    PROVE  Pulses(reply) \in Seq(Widths) /\ Len(Pulses(reply)) \in Nat
BY Constants DEF Pulses, Widths, Zero, One

LEMMA DisturbedCame ==
    ASSUME NEW reply \in Replies, NEW a, Came(reply, a), NEW b \in Disturbed(a)
    PROVE  Came(reply, b)
<1>1. PICK p \in Seq(Widths) : p = Pulses(reply) /\ Len(p) \in Nat
  BY SentPulses
<1>2. PICK ps \in Seq(Widths), l \in Nat, e \in Nat :
        /\ ps = a.pulses /\ l = a.longer /\ e = a.early
        /\ Len(ps) \in Nat /\ Len(ps) <= Len(p)
        /\ Len(ps) = Len(p) /\ l = 0 => ps = p
  BY <1>1 DEF Came
<1>3. ASSUME NEW qs \in Seq(Widths), NEW f \in Nat, b.pulses = qs, b.longer = l, b.early = f,
             Len(qs) < Len(ps)
      PROVE  Came(reply, b)
  <2>1. Len(qs) <= Len(p) /\ Len(qs) # Len(p)
    BY <1>1, <1>2, <1>3
  <2> QED BY <1>1, <1>3, <2>1 DEF Came
<1>4. ASSUME NEW i \in 1 .. Len(ps), NEW w \in {One, Bad}, b.pulses = [ps EXCEPT ![i] = w],
             b.longer = l + 1, b.early = e
      PROVE  Came(reply, b)
  <2>1. PICK qs \in Seq(Widths) : qs = [ps EXCEPT ![i] = w] /\ Len(qs) = Len(ps)
    <3>1. [ps EXCEPT ![i] = w] \in Seq(Widths) /\ Len([ps EXCEPT ![i] = w]) = Len(ps)
      BY DEF Widths
    <3> QED BY <3>1
  <2>2. l + 1 \in Nat /\ l + 1 # 0 /\ (l + 1 = 1 => l = 0)
    OBVIOUS
  <2>3. ASSUME Len(qs) = Len(p), l + 1 = 1
        PROVE  \E j \in 1 .. Len(p) : \E v \in {One, Bad} : qs = [p EXCEPT ![j] = v]
    <3>1. ps = p
      BY <1>2, <2>1, <2>2, <2>3
    <3> QED BY <2>1, <3>1
  <2> QED BY <1>1, <1>2, <1>4, <2>1, <2>2, <2>3 DEF Came
<1>5. CASE \E n \in 0 .. (Len(ps) - 1) :
             b = [early |-> e, pulses |-> SubSeq(ps, 1, n), longer |-> l, faults |-> a.faults + 1]
  <2>1. PICK n \in 0 .. (Len(ps) - 1) : b.early = e /\ b.pulses = SubSeq(ps, 1, n) /\ b.longer = l
    BY <1>5
  <2>2. SubSeq(ps, 1, n) \in Seq(Widths) /\ Len(SubSeq(ps, 1, n)) = n /\ n < Len(ps)
    BY <1>2
  <2> QED BY <1>3, <2>1, <2>2
<1>6. CASE \E i \in 1 .. Len(ps) :
             b = [early |-> e, pulses |-> RemoveAt(ps, i), longer |-> l, faults |-> a.faults + 1]
  <2>1. PICK i \in 1 .. Len(ps) : b.early = e /\ b.pulses = RemoveAt(ps, i) /\ b.longer = l
    BY <1>6
  <2>2. RemoveAt(ps, i) \in Seq(Widths) /\ Len(RemoveAt(ps, i)) < Len(ps)
    <3>1. /\ SubSeq(ps, 1, i - 1) \in Seq(Widths) /\ Len(SubSeq(ps, 1, i - 1)) = i - 1
          /\ SubSeq(ps, i + 1, Len(ps)) \in Seq(Widths)
          /\ Len(SubSeq(ps, i + 1, Len(ps))) = Len(ps) - i
      OBVIOUS
    <3>2. PICK x \in Seq(Widths), y \in Seq(Widths) :
            /\ x = SubSeq(ps, 1, i - 1) /\ y = SubSeq(ps, i + 1, Len(ps))
            /\ Len(x) = i - 1 /\ Len(y) = Len(ps) - i
      BY <3>1
    <3>3. x \o y \in Seq(Widths) /\ Len(x \o y) = Len(x) + Len(y)
      OBVIOUS
    <3>4. Len(x) + Len(y) < Len(ps)
      <4>1. \A j, k \in Int : (j - 1) + (k - j) < k
        OBVIOUS
      <4>2. i \in Int /\ Len(ps) \in Int
        BY <1>2
      <4> QED BY <3>2, <4>1, <4>2
    <3>5. RemoveAt(ps, i) = x \o y
      BY <3>2 DEF RemoveAt
    <3> QED BY <3>3, <3>4, <3>5
  <2> QED BY <1>3, <2>1, <2>2
<1>7. CASE \E i \in 1 .. Len(ps), w \in {One, Bad} :
             b = [early |-> e, pulses |-> [ps EXCEPT ![i] = w], longer |-> l + 1,
                  faults |-> a.faults + 1]
  <2>1. PICK i \in 1 .. Len(ps), w \in {One, Bad} :
             b = [early |-> e, pulses |-> [ps EXCEPT ![i] = w], longer |-> l + 1,
                  faults |-> a.faults + 1]
    BY <1>7
  <2>2. PICK qs : qs = [ps EXCEPT ![i] = w]
    OBVIOUS
  <2>3. b = [early |-> e, pulses |-> qs, longer |-> l + 1, faults |-> a.faults + 1]
    BY <2>1, <2>2
  <2>4. b.early = e /\ b.pulses = qs /\ b.longer = l + 1
    BY <2>3
  <2> QED BY <1>4, <2>2, <2>4
<1>8. CASE /\ ps # <<>>
           /\ b = [early |-> e + 1, pulses |-> Tail(ps), longer |-> l, faults |-> a.faults + 1]
  <2>1. b.early = e + 1 /\ b.pulses = Tail(ps) /\ b.longer = l /\ e + 1 \in Nat
    BY <1>8
  <2>2. Tail(ps) \in Seq(Widths) /\ Len(Tail(ps)) < Len(ps)
    BY <1>2, <1>8
  <2> QED BY <1>3, <2>1, <2>2
<1> QED BY <1>2, <1>5, <1>6, <1>7, <1>8 DEF Disturbed

LEMMA Arrives ==
    ASSUME NEW reply \in Replies, NEW a \in Arriving[reply]
    PROVE  /\ Came(reply, a)
           /\ a.pulses \in Seq(Widths) /\ Len(a.pulses) \in Nat
           /\ a.early \in Nat /\ a.longer \in Nat
<1>1. PICK N \in Nat : N = MaxUpsets
  BY ConstantsAssumption
<1>2. PICK first : first = [early |-> 0, pulses |-> Pulses(reply), longer |-> 0, faults |-> 0]
  OBVIOUS
<1> DEFINE A == CHOOSE A : A = [n \in 0..MaxUpsets |->
                  IF n = 0
                  THEN {[early |-> 0, pulses |-> Pulses(reply), longer |-> 0, faults |-> 0]}
                  ELSE A[n - 1] \cup UNION {Disturbed(b) : b \in A[n - 1]}]
<1>3. Arriving[reply] = A[MaxUpsets]
  BY DEF Arriving
<1>4. \E g : g = [n \in 0..MaxUpsets |->
                  IF n = 0
                  THEN {[early |-> 0, pulses |-> Pulses(reply), longer |-> 0, faults |-> 0]}
                  ELSE g[n - 1] \cup UNION {Disturbed(b) : b \in g[n - 1]}]
  <2>1. PICK g : Grown(g, first, N)
    BY <1>1, GrownDefined
  <2> QED BY <1>1, <1>2, <2>1 DEF Grown
<1>5. A = [n \in 0..MaxUpsets |->
                  IF n = 0
                  THEN {[early |-> 0, pulses |-> Pulses(reply), longer |-> 0, faults |-> 0]}
                  ELSE A[n - 1] \cup UNION {Disturbed(b) : b \in A[n - 1]}]
  BY <1>4
<1> HIDE DEF A
<1>12. Grown(A, first, N)
  BY <1>1, <1>2, <1>5 DEF Grown
<1>13. \A n \in 0 .. N : A[n] = IF n = 0 THEN {first}
                              ELSE A[n - 1] \cup UNION {Disturbed(b) : b \in A[n - 1]}
  BY <1>12 DEF Grown
<1>14. /\ 0 \in 0 .. N
       /\ \A n \in 1 .. N : n \in 0 .. N /\ n # 0
  OBVIOUS
<1>6. A[0] = {first} /\ \A n \in 1 .. N : A[n] = A[n - 1] \cup UNION {Disturbed(b) : b \in A[n - 1]}
  BY <1>13, <1>14
<1>7. Came(reply, first)
  <2>1. first.early = 0 /\ first.longer = 0 /\ first.pulses = Pulses(reply)
    BY <1>2
  <2> QED BY <2>1, SentPulses DEF Came
<1> DEFINE T == {n \in Nat : n <= N => \A b \in A[n] : Came(reply, b)}
<1>8. 0 \in T
  BY <1>6, <1>7
<1>9. ASSUME NEW n \in Nat, n \in T  PROVE n + 1 \in T
  <2> SUFFICES ASSUME n + 1 <= N, NEW b \in A[n + 1]  PROVE Came(reply, b)
    OBVIOUS
  <2>1. n + 1 \in 1 .. N /\ (n + 1) - 1 = n /\ n <= N
    OBVIOUS
  <2>2. b \in A[n] \/ \E c \in A[n] : b \in Disturbed(c)
    BY <1>6, <2>1
  <2>3. \A c \in A[n] : Came(reply, c)
    BY <1>9, <2>1
  <2> QED BY <2>2, <2>3, DisturbedCame
<1> HIDE DEF T
<1>10. N \in T
  BY <1>8, <1>9, AllNumbers
<1>11. Came(reply, a)
  BY <1>1, <1>3, <1>10 DEF T
<1> QED BY <1>11 DEF Came

\* Of a reply these pulses may arrive, l of them longer.
Arrived(reply, l) ==
    {ps \in Seq(Widths) : \E a \in Arriving[reply] : a.pulses = ps /\ a.longer = l}

-----------------------------------------------------------------------------
(* Notifications                                                           *)

LEMMA NoteTypes ==
    /\ PullNote \in Notes /\ Timeout \in Notes
    /\ \A gap \in Nat, seen \in BOOLEAN : Rise(gap, seen) \in Notes
    /\ \A w \in Widths, r \in Replies \cup {None}, l \in Nat : Fall(w, r, l) \in Notes
    /\ PullNote.level = 0 /\ PullNote.of = None /\ Timeout.level = 2
    /\ PowerNote \in Notes /\ PowerNote.level = 1 /\ PowerNote.gap = Quiet + 1
    /\ \A gap, seen : /\ Rise(gap, seen).level = 1 /\ Rise(gap, seen).gap = gap
                      /\ Rise(gap, seen).seen = seen
    /\ \A w, r, l : /\ Fall(w, r, l).level = 0 /\ Fall(w, r, l).width = w
                    /\ Fall(w, r, l).of = r /\ Fall(w, r, l).longer = l
BY Constants DEF Notes, PullNote, PowerNote, Timeout, Rise, Fall, Widths, Bad

LEMMA Joined ==
    ASSUME NEW q \in Seq(Notes), NEW s \in Seq(Notes)
    PROVE  /\ q \o s \in Seq(Notes) /\ Len(q \o s) = Len(q) + Len(s)
           /\ \A i \in 1 .. Len(q) : (q \o s)[i] = q[i]
           /\ \A i \in 1 .. Len(s) : (q \o s)[Len(q) + i] = s[i]
<1>1. q \o s \in Seq(Notes) /\ Len(q \o s) = Len(q) + Len(s)
  OBVIOUS
<1>2. \A i \in 1 .. Len(q) : (q \o s)[i] = q[i]
  OBVIOUS
<1>3. \A i \in 1 .. Len(s) : (q \o s)[Len(q) + i] = s[i]
  OBVIOUS
<1> QED BY <1>1, <1>2, <1>3

LEMMA Pair == ASSUME NEW x \in Notes, NEW y \in Notes
              PROVE  <<x>> \o <<y>> = <<x, y>>
<1>1. <<x>> \o <<y>> = Append(<<x>>, y)
  OBVIOUS
<1>2. <<x, y>> = Append(<<x>>, y)
  OBVIOUS
<1> QED BY <1>1, <1>2

\* What is left when the first notification is handled.
LEMMA Handled ==
    ASSUME NEW q \in Seq(Notes), q # <<>>
    PROVE  /\ Tail(q) \in Seq(Notes) /\ Len(Tail(q)) = Len(q) - 1 /\ Len(q) > 0
           /\ Head(q) = q[1]
           /\ \A i \in 1 .. (Len(q) - 1) : Tail(q)[i] = q[i + 1]
OBVIOUS

LEMMA NoneIsEmpty == ASSUME NEW S, NEW q \in Seq(S), Len(q) = 0
                     PROVE  q = <<>>
OBVIOUS

LEMMA EdgesShift ==
    ASSUME NEW q \in Seq(Notes), q # <<>>, NEW k \in Nat, NEW n \in Nat,
           NEW t \in {0, 1}, k > 0, Edges(q, k + 1, n, t)
    PROVE  Edges(Tail(q), k, n, t)
<1>1. /\ Len(q) = k + n + t /\ Len(Tail(q)) = k + n - 1 + t
      /\ \A i \in 1 .. (Len(q) - 1) : Tail(q)[i] = q[i + 1]
  BY Handled DEF Edges
<1>2. ASSUME NEW i \in k .. (k + n - 1)
      PROVE  Tail(q)[i].level = 0 /\ Tail(q)[i].of # None
  <2>1. i \in 1 .. (Len(q) - 1) /\ i + 1 \in (k + 1) .. (k + 1 + n - 1)
    BY <1>1
  <2> QED BY <1>1, <2>1 DEF Edges
<1>3. t = 1 => Tail(q)[k + n] = Timeout
  BY <1>1 DEF Edges
<1> QED BY <1>1, <1>2, <1>3 DEF Edges

\* One of n edges is handled.
LEMMA EdgesNext ==
    ASSUME NEW q \in Seq(Notes), q # <<>>, NEW n \in Nat, NEW t \in {0, 1},
           Edges(q, 1, n, t), Head(q).level = 0
    PROVE  n - 1 \in Nat /\ Edges(Tail(q), 1, n - 1, t)
<1>1. n # 0
  BY Handled, NoteTypes DEF Edges
<1>2. Edges(q, 2, n - 1, t)
  BY <1>1 DEF Edges
<1> QED BY <1>1, <1>2, EdgesShift

\* A timeout that is handled is all there was.
LEMMA EdgesLast ==
    ASSUME NEW q \in Seq(Notes), q # <<>>, NEW n \in Nat, NEW t \in {0, 1},
           Edges(q, 1, n, t), Head(q).level = 2
    PROVE  n = 0 /\ t = 1 /\ Tail(q) = <<>>
<1>1. n = 0 /\ t = 1
  BY Handled DEF Edges
<1>2. Len(Tail(q)) = 0 /\ Tail(q) \in Seq(Notes)
  BY <1>1, Handled DEF Edges
<1> QED BY <1>1, <1>2, NoneIsEmpty

LEMMA EdgesTimedOut ==
    ASSUME NEW q \in Seq(Notes), NEW k \in Nat, k > 0, NEW n \in Nat,
           Edges(q, k, n, 0)
    PROVE  Edges(Append(q, Timeout), k, n, 1)
BY DEF Edges

LEMMA WaitingCounts ==
    ASSUME events \in Seq(Notes), NEW i \in 1 .. Len(events), events[i] = Timeout
    PROVE  Waiting > 0
<1> DEFINE W == {j \in DOMAIN events : events[j] = Timeout}
<1>1. W \subseteq 1 .. Len(events) /\ W # {}
  OBVIOUS
<1>2. 1 \in Int /\ Len(events) \in Int
  OBVIOUS
<1>3. IsFiniteSet(1 .. Len(events))
  BY <1>2, FS_Interval
<1>4. IsFiniteSet(W)
  BY <1>1, <1>3, FS_Subset
<1>5. Cardinality(W) \in Nat /\ Cardinality(W) # 0
  BY <1>1, <1>4, FS_CardinalityType, FS_EmptySet
<1> QED BY <1>5 DEF Waiting

-----------------------------------------------------------------------------
(* The stages                                                              *)

LEMMA DriverInit == Init => DriverInv
<1> SUFFICES ASSUME Init PROVE DriverInv
  OBVIOUS
<1>1. DriverTypes
  <2>1. bit \in Int
    BY Constants DEF Init
  <2>2. <<>> \in Seq(Notes)
    OBVIOUS
  <2>3. events \in Seq(Notes)
    BY <2>2 DEF Init
  <2>4. {bad_cs, bad_sm, bad_mm, bad_sr, no_response} \subseteq Nat
    BY DEF Init
  <2> QED BY <2>1, <2>3, <2>4 DEF Init, DriverTypes
<1>2. Settled
  <2>1. ~Dangling /\ Late = 0
    BY Constants DEF Init, Late, Dangling
  <2>2. Counted = 0 /\ Kept
    BY Constants DEF Init, Counted, Kept
  <2> QED BY <2>1, <2>2 DEF Init, Settled
<1> QED BY <1>1, <1>2 DEF DriverInv, Stage

\* A driver that is at rest and orderly has dealt with every call.
LEMMA RestIsSettled ==
    ASSUME DriverTypes, Stage, AtRest
    PROVE  Settled
<1>1. events = <<>> /\ Len(events) = 0 /\ callback = "ready" /\ trigger = "idle" /\ ~watchdog
  BY DEF AtRest
<1>2. CASE PullWaits \/ PullSeen \/ PowerOff \/ PowerOn
  BY <1>1, <1>2 DEF PullWaits, PullSeen, PowerOff, PowerOn
<1>3. ASSUME NEW n \in Nat, PullAndReplyWait(n) PROVE FALSE
  BY <1>1, <1>3 DEF PullAndReplyWait
<1>4. ASSUME NEW n \in Nat, NEW t \in {0, 1}, ReplyWaits(n, t) PROVE FALSE
  BY <1>1, <1>4 DEF ReplyWaits
<1>5. ASSUME NEW n \in Nat, NEW t \in {0, 1}, ReplyRead(n, t) PROVE Settled
  <2>1. ~(bit < 5 * ByteBits)
    BY <1>1, <1>5 DEF ReplyRead
  <2>2. Counted = triggers /\ silent = 0 /\ no_response = 0
    BY <2>1, <1>5 DEF ReplyRead
  <2>3. ~Dangling
    BY <2>1, Constants DEF Dangling, DriverTypes
  <2> QED BY <1>1, <2>2, <2>3, Constants DEF Settled, Late, Kept, DriverTypes
<1> QED BY <1>2, <1>3, <1>4, <1>5 DEF Stage

\* An orderly life was orderly before.
OrderlyLife == ~rushed /\ ~mistimed /\ callback # "cancelled"

LEMMA LifeBefore ==
    ASSUME DriverInv, Next, OrderlyLife'
    PROVE  OrderlyLife /\ Stage
<1>1. DriverTypes
  BY DEF DriverInv
<1>2. callback # "cancelled"
  BY DEF OrderlyLife, Next, Pull, Release, SetWatchdog, Cancel, TimesOut,
         FallingEdge, RisingEdge, WatchdogTimeout, PowerBack, Handles
<1>3. (rushed => rushed') /\ (mistimed => mistimed')
  <2>1. CASE Pull
    BY <2>1 DEF Pull
  <2>2. CASE Release
    BY <2>2 DEF Release
  <2>3. CASE SetWatchdog
    BY <2>3 DEF SetWatchdog
  <2>4. CASE TimesOut
    BY <2>4 DEF TimesOut
  <2>5. CASE Cancel \/ FallingEdge \/ RisingEdge \/ WatchdogTimeout
    BY <2>5 DEF Cancel, FallingEdge, RisingEdge, WatchdogTimeout, history
  <2>6. CASE PowerBack
    <3>1. /\ rushed' = rushed
          /\ \/ mistimed' = mistimed
             \/ \E width \in Widths \cup {Lost}, gaps \in {<<>>, <<Quiet>>, <<Quiet + 1>>} :
                   mistimed' = (mistimed \/ ~(width = Bad /\ gaps = <<Quiet + 1>>))
      BY <2>6, Zenon DEF PowerBack
    <3>2. mistimed \in BOOLEAN
      BY DEF DriverInv, DriverTypes
    <3>3. CASE \E width \in Widths \cup {Lost}, gaps \in {<<>>, <<Quiet>>, <<Quiet + 1>>} :
                   mistimed' = (mistimed \/ ~(width = Bad /\ gaps = <<Quiet + 1>>))
      <4>1. PICK width \in Widths \cup {Lost}, gaps \in {<<>>, <<Quiet>>, <<Quiet + 1>>} :
                   mistimed' = (mistimed \/ ~(width = Bad /\ gaps = <<Quiet + 1>>))
        BY <3>3
      <4> QED BY <3>1, <4>1
    <3> QED BY <3>1, <3>3
  <2> QED BY <2>1, <2>2, <2>3, <2>4, <2>5, <2>6 DEF Next
<1>4. ~rushed /\ ~mistimed
  BY <1>3 DEF OrderlyLife
<1> QED BY <1>2, <1>4 DEF DriverInv, OrderlyLife

\* What the pull adds to the queue.
LEMMA PullEdgeIs ==
    ASSUME NEW width \in Widths \cup {Lost}
    PROVE  /\ PullEdge(width) \in Seq(Notes)
           /\ PullEdge(width) = <<>> \/ \E w \in Widths : PullEdge(width) = <<Fall(w, None, 0)>>
           /\ (PullEdge(width) = <<>>) = (width = Lost)
           /\ PullEdge(Bad) = <<PullNote>>
<1>1. Lost \notin Widths /\ Bad \in Widths /\ Bad # Lost
  BY DEF Lost, Widths, Zero, One, Bad
<1>2. CASE width = Lost
  <2>1. PullEdge(width) = <<>> /\ <<>> \in Seq(Notes)
    BY <1>2 DEF PullEdge
  <2> QED BY <1>1, <1>2, <2>1 DEF PullEdge, PullNote
<1>3. CASE width # Lost
  <2>1. width \in Widths /\ PullEdge(width) = <<Fall(width, None, 0)>>
    BY <1>3 DEF PullEdge
  <2>2. Fall(width, None, 0) \in Notes
    BY <2>1, NoteTypes
  <2>3. <<Fall(width, None, 0)>> \in Seq(Notes) /\ <<Fall(width, None, 0)>> # <<>>
    BY <2>2
  <2> QED BY <1>1, <1>3, <2>1, <2>3 DEF PullEdge, PullNote
<1> QED BY <1>2, <1>3

LEMMA PullKeeps ==
    ASSUME DriverInv, Pull
    PROVE  DriverTypes' /\ (OrderlyLife' => Stage')
<1>1. DriverTypes
  BY DEF DriverInv
<1>2. /\ UNCHANGED <<bit, bad_cs, bad_sm, bad_mm, bad_sr, no_response, readings,
                     silent, watchdog, callback>>
      /\ triggers' = triggers + 1
      /\ rushed' = (rushed \/ ~AtRest)
  BY DEF Pull, message, counters
<1>3. PICK width \in Widths \cup {Lost} :
        /\ trigger' = CASE width = Bad -> "pulled"
                        [] width = Lost -> "unseen"
                        [] OTHER -> "wrapped"
        /\ Notified(PullEdge(width))
        /\ mistimed' = (mistimed \/ width # Bad)
  BY DEF Pull
<1>4. DriverTypes'
  <2>1. PullEdge(width) \in Seq(Notes)
    BY PullEdgeIs
  <2>2. events' \in Seq(Notes)
    BY <1>1, <1>3, <2>1, Joined DEF Notified, DriverTypes
  <2> QED BY <1>1, <1>2, <1>3, <2>2 DEF DriverTypes
<1>5. ASSUME OrderlyLife' PROVE PullWaits'
  <2>1. Stage /\ AtRest
    BY <1>2, <1>5, LifeBefore DEF OrderlyLife, Next
  <2>2. Settled
    BY <1>1, <2>1, RestIsSettled
  <2>3. width = Bad
    BY <1>3, <1>5 DEF OrderlyLife
  <2>4. PullEdge(width) = <<PullNote>>
    BY <2>3, PullEdgeIs
  <2>5. events' = <<PullNote>> /\ trigger' = "pulled"
    <3>1. events = <<>> /\ callback # "cancelled"
      BY <2>2 DEF Settled
    <3>2. events' = events \o <<PullNote>>
      BY <1>3, <2>4, <3>1 DEF Notified
    <3>3. <<PullNote>> \in Seq(Notes)
      BY NoteTypes
    <3>4. events' = <<PullNote>>
      BY <3>1, <3>2, <3>3
    <3>5. trigger' = "pulled"
      <4>1. trigger' = CASE width = Bad -> "pulled"
                         [] width = Lost -> "unseen"
                         [] OTHER -> "wrapped"
        BY <1>3
      <4>2. Bad # Lost
        BY DEF Bad, Lost
      <4> QED BY <2>3, <4>1, <4>2
    <3> QED BY <3>4, <3>5
  <2> QED BY <1>1, <1>2, <2>2, <2>5
      DEF Settled, PullWaits, Counted, Late, Dangling, Kept, DriverTypes
<1> QED BY <1>4, <1>5 DEF Stage

\* What is notified of a reply: its rising edge and the pulses that arrive.
FallsOf(ps, of, l) == [i \in 1 .. Len(ps) |-> Fall(ps[i], of, l)]

LEMMA Falls ==
    ASSUME NEW of \in Replies, NEW ps \in Seq(Widths), NEW l \in Nat
    PROVE  /\ FallsOf(ps, of, l) \in Seq(Notes) /\ Len(FallsOf(ps, of, l)) = Len(ps)
           /\ \A i \in 1 .. Len(ps) :
                 /\ FallsOf(ps, of, l)[i] = Fall(ps[i], of, l)
                 /\ FallsOf(ps, of, l)[i].level = 0 /\ FallsOf(ps, of, l)[i].of # None
<1>6. PICK f : f = FallsOf(ps, of, l)
  OBVIOUS
<1>7. f = [i \in 1 .. Len(ps) |-> Fall(ps[i], of, l)]
  BY <1>6 DEF FallsOf
<1>1. Len(ps) \in Nat /\ \A i \in 1 .. Len(ps) : ps[i] \in Widths
  OBVIOUS
<1>2. \A i \in 1 .. Len(ps) : Fall(ps[i], of, l) \in Notes
  BY <1>1, NoteTypes
<1>3. f \in Seq(Notes) /\ Len(f) = Len(ps)
  BY <1>1, <1>2, <1>7
<1>4. \A i \in 1 .. Len(ps) : f[i] = Fall(ps[i], of, l)
  BY <1>1, <1>7
<1>5. \A i \in 1 .. Len(ps) : f[i].level = 0 /\ f[i].of # None
  BY <1>4, NoteTypes, Constants
<1> QED BY <1>3, <1>4, <1>5, <1>6

WithReply(q, e, ps, of, l) == q \o (<<e>> \o FallsOf(ps, of, l))

IsReplied(r, q, e, ps, of, l) ==
    /\ Len(ps) \in Nat
    /\ r \in Seq(Notes) /\ Len(r) = Len(q) + 1 + Len(ps)
    /\ \A i \in 1 .. Len(q) : r[i] = q[i]
    /\ r[Len(q) + 1] = e
    /\ \A j \in 1 .. Len(ps) : r[Len(q) + 1 + j] = Fall(ps[j], of, l)
    /\ ~(e.gap % Wrap <= Quiet) =>
          Opens(r[Len(q) + 1]) /\ Edges(r, Len(q) + 2, Len(ps), 0)

LEMMA Replied ==
    ASSUME NEW q \in Seq(Notes), NEW e \in Notes, e.level = 1, e.gap \in Gaps,
           NEW of \in Replies, NEW ps \in Seq(Widths), NEW l \in Nat
    PROVE  IsReplied(WithReply(q, e, ps, of, l), q, e, ps, of, l)
<1>14. PICK r : r = WithReply(q, e, ps, of, l)
  OBVIOUS
<1>15. PICK gap \in Gaps : gap = e.gap
  OBVIOUS
<1>1. Len(ps) \in Nat /\ Len(q) \in Nat
  OBVIOUS
<1>13. PICK f : f = FallsOf(ps, of, l)
  OBVIOUS
<1>12. /\ f \in Seq(Notes) /\ Len(f) = Len(ps)
       /\ \A i \in 1 .. Len(ps) :
             f[i] = Fall(ps[i], of, l) /\ f[i].level = 0 /\ f[i].of # None
  BY <1>13, Falls
<1>2. f \in Seq(Notes) /\ Len(f) = Len(ps)
  BY <1>12
<1>3. \A i \in 1 .. Len(ps) : f[i] = Fall(ps[i], of, l) /\ f[i].level = 0 /\ f[i].of # None
  BY <1>12
<1>4. gap \in Nat /\ e \in Notes /\ e.level = 1 /\ e.gap = gap
  BY <1>15, Constants
<1>5. PICK s : s = <<e>> \o f
  OBVIOUS
<1>6. /\ s \in Seq(Notes) /\ Len(s) = Len(ps) + 1 /\ s[1] = e
      /\ \A i \in 1 .. Len(ps) : s[i + 1] = f[i]
  BY <1>1, <1>2, <1>4, <1>5
<1>7. r = q \o s
  BY <1>5, <1>13, <1>14 DEF WithReply
<1>8. /\ r \in Seq(Notes) /\ Len(r) = Len(q) + 1 + Len(ps)
      /\ \A i \in 1 .. Len(q) : r[i] = q[i]
      /\ \A i \in 1 .. (Len(ps) + 1) : r[Len(q) + i] = s[i]
  <2>1. s \in Seq(Notes) /\ Len(s) = Len(ps) + 1 /\ Len(s) \in Nat
    BY <1>1, <1>6
  <2>2. /\ q \o s \in Seq(Notes) /\ Len(q \o s) = Len(q) + Len(s)
        /\ \A i \in 1 .. Len(q) : (q \o s)[i] = q[i]
        /\ \A i \in 1 .. Len(s) : (q \o s)[Len(q) + i] = s[i]
    BY <2>1, Joined
  <2>3. Len(q) + Len(s) = Len(q) + 1 + Len(ps)
    BY <1>1, <2>1
  <2> QED BY <1>7, <2>1, <2>2, <2>3
<1>9. r[Len(q) + 1] = e
  <2>1. 1 \in 1 .. (Len(ps) + 1)
    BY <1>1
  <2> QED BY <1>6, <1>8, <2>1
<1>10. ASSUME NEW j \in 1 .. Len(ps)
       PROVE  r[Len(q) + 1 + j] = f[j]
  <2>1. j + 1 \in 1 .. (Len(ps) + 1) /\ Len(q) + (j + 1) = Len(q) + 1 + j
    BY <1>1
  <2>2. r[Len(q) + (j + 1)] = s[j + 1] /\ s[j + 1] = f[j]
    BY <1>6, <1>8, <2>1
  <2> QED BY <2>1, <2>2
<1>11. ASSUME ~(gap % Wrap <= Quiet)
       PROVE  Opens(r[Len(q) + 1]) /\ Edges(r, Len(q) + 2, Len(ps), 0)
  <2>1. Opens(r[Len(q) + 1])
    <3>1. gap % Wrap > Quiet
      BY <1>11, Constants
    <3> QED BY <1>4, <1>9, <3>1 DEF Opens
  <2>2. ASSUME NEW i \in (Len(q) + 2) .. (Len(q) + 2 + Len(ps) - 1)
        PROVE  r[i].level = 0 /\ r[i].of # None
    <3>1. PICK j \in 1 .. Len(ps) : i = Len(q) + 1 + j
      <4>1. i - Len(q) - 1 \in 1 .. Len(ps) /\ i = Len(q) + 1 + (i - Len(q) - 1)
        BY <1>1
      <4> QED BY <4>1
    <3>2. r[i] = f[j]
      BY <1>10, <3>1
    <3> QED BY <1>3, <3>2
  <2>3. Len(r) = Len(q) + 2 + Len(ps) - 1 + 0
    <3>1. \A a, b \in Nat : a + 1 + b = a + 2 + b - 1 + 0
      OBVIOUS
    <3>2. Len(q) + 1 + Len(ps) = Len(q) + 2 + Len(ps) - 1 + 0
      BY <1>1, <3>1, Zenon
    <3> QED BY <1>8, <3>2
  <2>4. Edges(r, Len(q) + 2, Len(ps), 0)
    BY <2>2, <2>3 DEF Edges
  <2> QED BY <2>1, <2>4
<1>16. ~(e.gap % Wrap <= Quiet) =>
          Opens(r[Len(q) + 1]) /\ Edges(r, Len(q) + 2, Len(ps), 0)
  BY <1>11, <1>15
<1>17. \A j \in 1 .. Len(ps) : r[Len(q) + 1 + j] = Fall(ps[j], of, l)
  BY <1>3, <1>10
<1> QED BY <1>1, <1>8, <1>9, <1>14, <1>16, <1>17 DEF IsReplied

\* What a reply adds to the queue: the edges before any rising one, that rising edge
\* and the pulses that arrive.
ReleaseAdds(gap, of, seen, p, l, ps) ==
    /\ trigger = "unseen" => ~seen
    /\ \A i \in 1 .. Len(p) : p[i].level = 0 /\ p[i].of = None
    /\ mistimed' \in BOOLEAN
    /\ ~mistimed' => ~mistimed /\ p = <<>> /\ ~(gap % Wrap <= Quiet)
    /\ silent' = IF Len(ps) < ByteBits + 2 THEN silent + 1 ELSE 0
    /\ Notified((p \o <<Rise(gap, seen)>>) \o FallsOf(ps, of, l))

LEMMA ReleaseIs ==
    ASSUME DriverTypes, Release
    PROVE  \E gap \in Gaps, of \in Replies, seen \in BOOLEAN, p \in Seq(Notes) :
           \E l \in Nat : \E ps \in Arrived(of, l) :
             ReleaseAdds(gap, of, seen, p, l, ps)
<1>1. PICK gap \in Gaps, of \in Replies : \E a \in Arriving[of] :
        /\ \E widths \in [1..a.early -> IF gap % Wrap <= Quiet THEN Widths ELSE {Bad}] :
            Notified([i \in 1..a.early |-> Fall(widths[i], None, 0)]
                     \o <<Rise(gap, trigger # "unseen")>>
                     \o [i \in 1..Len(a.pulses) |-> Fall(a.pulses[i], of, a.longer)])
        /\ mistimed' = (mistimed \/ gap % Wrap <= Quiet \/ a.early > 0)
        /\ silent' = IF Len(a.pulses) < ByteBits + 2 THEN silent + 1 ELSE 0
  BY DEF Release
<1>2. PICK a \in Arriving[of] :
        /\ \E widths \in [1..a.early -> IF gap % Wrap <= Quiet THEN Widths ELSE {Bad}] :
            Notified([i \in 1..a.early |-> Fall(widths[i], None, 0)]
                     \o <<Rise(gap, trigger # "unseen")>>
                     \o [i \in 1..Len(a.pulses) |-> Fall(a.pulses[i], of, a.longer)])
        /\ mistimed' = (mistimed \/ gap % Wrap <= Quiet \/ a.early > 0)
        /\ silent' = IF Len(a.pulses) < ByteBits + 2 THEN silent + 1 ELSE 0
  BY <1>1
<1>3. PICK widths \in [1..a.early -> IF gap % Wrap <= Quiet THEN Widths ELSE {Bad}] :
            Notified([i \in 1..a.early |-> Fall(widths[i], None, 0)]
                     \o <<Rise(gap, trigger # "unseen")>>
                     \o [i \in 1..Len(a.pulses) |-> Fall(a.pulses[i], of, a.longer)])
  BY <1>2
<1>4. /\ a.pulses \in Seq(Widths) /\ a.early \in Nat /\ a.longer \in Nat
  BY Arrives
<1>5. PICK ps \in Seq(Widths), l \in Nat, e \in Nat :
        ps = a.pulses /\ l = a.longer /\ e = a.early
  BY <1>4
<1>6. PICK seen \in BOOLEAN : seen = (trigger # "unseen")
  OBVIOUS
<1>7. PICK p : p = [i \in 1 .. e |-> Fall(widths[i], None, 0)]
  OBVIOUS
<1>8. \A i \in 1 .. e : widths[i] \in Widths
  BY <1>3, <1>5 DEF Widths
<1>9. \A i \in 1 .. e : Fall(widths[i], None, 0) \in Notes
  <2>1. \A w \in Widths : Fall(w, None, 0) \in Notes
    <3>1. None \in Replies \cup {None} /\ 0 \in Nat
      OBVIOUS
    <3> QED BY <3>1, NoteTypes, Zenon
  <2> QED BY <1>8, <2>1
<1>10. p \in Seq(Notes) /\ Len(p) = e /\ \A i \in 1 .. e : p[i] = Fall(widths[i], None, 0)
  BY <1>7, <1>9
<1>11. \A i \in 1 .. Len(p) : p[i].level = 0 /\ p[i].of = None
  BY <1>10, NoteTypes
<1>12. ~mistimed' => ~mistimed /\ p = <<>> /\ ~(gap % Wrap <= Quiet)
  <2> SUFFICES ASSUME ~mistimed'  PROVE ~mistimed /\ p = <<>> /\ ~(gap % Wrap <= Quiet)
    OBVIOUS
  <2>1. ~mistimed /\ ~(gap % Wrap <= Quiet) /\ ~(a.early > 0)
    BY <1>2
  <2>2. Len(p) = 0
    BY <1>5, <1>10, <2>1
  <2>3. p = <<>>
    BY <1>10, <2>2, NoneIsEmpty
  <2> QED BY <2>1, <2>3
<1>13. Notified((p \o <<Rise(gap, seen)>>) \o FallsOf(ps, of, l))
  BY <1>3, <1>5, <1>6, <1>7 DEF FallsOf
<1>14. /\ mistimed' \in BOOLEAN
       /\ silent' = IF Len(ps) < ByteBits + 2 THEN silent + 1 ELSE 0
  BY <1>2, <1>5
<1>15. ps \in Arrived(of, l)
  BY <1>5 DEF Arrived
<1>16. trigger = "unseen" => ~seen
  BY <1>6
<1>17. ReleaseAdds(gap, of, seen, p, l, ps)
  BY <1>11, <1>12, <1>13, <1>14, <1>16, Zenon DEF ReleaseAdds
<1> QED BY <1>10, <1>15, <1>17

LEMMA ReleaseKeeps ==
    ASSUME DriverInv, Release
    PROVE  DriverTypes' /\ (OrderlyLife' => Stage')
<1>1. DriverTypes
  BY DEF DriverInv
<1>2. PICK gap \in Gaps, of \in Replies, seen \in BOOLEAN, p \in Seq(Notes), l \in Nat :
           \E ps \in Arrived(of, l) : ReleaseAdds(gap, of, seen, p, l, ps)
  BY <1>1, ReleaseIs
<1>9. PICK ps \in Arrived(of, l) : ReleaseAdds(gap, of, seen, p, l, ps)
  BY <1>2
<1>3. /\ mistimed' \in BOOLEAN
      /\ ~mistimed' => ~mistimed /\ p = <<>> /\ ~(gap % Wrap <= Quiet)
      /\ silent' = IF Len(ps) < ByteBits + 2 THEN silent + 1 ELSE 0
      /\ Notified((p \o <<Rise(gap, seen)>>) \o FallsOf(ps, of, l))
  BY <1>9, Zenon DEF ReleaseAdds
<1>4. /\ UNCHANGED <<bit, bad_cs, bad_sm, bad_mm, bad_sr, no_response, readings,
                     rushed, watchdog, callback, triggers>>
      /\ trigger \in {"pulled", "wrapped", "unseen"} /\ trigger' = "released"
  BY DEF Release, message, counters
<1>5. ps \in Seq(Widths) /\ Len(ps) \in Nat /\ gap \in Nat
  BY Constants DEF Arrived
<1>6. DriverTypes'
  <2>1. PICK f : f = FallsOf(ps, of, l)
    OBVIOUS
  <2>2. f \in Seq(Notes)
    BY <1>5, <2>1, Falls
  <2>3. <<Rise(gap, seen)>> \in Seq(Notes)
    BY <1>5, NoteTypes
  <2>4. p \o <<Rise(gap, seen)>> \in Seq(Notes)
    BY <2>3, Joined
  <2>5. (p \o <<Rise(gap, seen)>>) \o f \in Seq(Notes)
    BY <2>2, <2>4, Joined
  <2>6. events' \in Seq(Notes)
    BY <1>1, <1>3, <2>1, <2>5, Joined DEF Notified, DriverTypes
  <2> QED BY <1>1, <1>3, <1>4, <1>5, <2>6 DEF DriverTypes
<1>7. no_response = silent % Period => Awaited(Len(ps))'
  <2>1. silent \in Nat /\ (silent + 1) - 1 = silent /\ silent + 1 > 0
    BY <1>1 DEF DriverTypes
  <2> QED BY <1>3, <1>4, <2>1 DEF Awaited, Unanswered
<1>8. ASSUME OrderlyLife' PROVE Stage'
  <2>1. Stage /\ callback # "cancelled" /\ ~(gap % Wrap <= Quiet) /\ p = <<>>
    BY <1>3, <1>8, LifeBefore DEF OrderlyLife, Next
  <2>2. PICK e, f : e = Rise(gap, seen) /\ f = FallsOf(ps, of, l)
    OBVIOUS
  <2>3. events' = events \o (<<e>> \o f)
    <3>2. <<>> \o <<e>> = <<e>>
      OBVIOUS
    <3>3. events' = events \o ((<<>> \o <<e>>) \o f)
      BY <1>3, <2>1, <2>2 DEF Notified
    <3> QED BY <3>2, <3>3
  <2>4. /\ events' \in Seq(Notes)
        /\ \A i \in 1 .. Len(events) : events'[i] = events[i]
        /\ Opens(events'[Len(events) + 1])
        /\ Edges(events', Len(events) + 2, Len(ps), 0)
    <3>4. PICK q \in Seq(Notes) : q = events
      BY <1>1 DEF DriverTypes
    <3>5. PICK r : r = events'
      OBVIOUS
    <3>1. q = events /\ r = events'
      BY <3>4, <3>5
    <3>2. r = WithReply(q, e, ps, of, l)
      BY <2>2, <2>3, <3>1 DEF WithReply
    <3>3. /\ r \in Seq(Notes)
          /\ \A i \in 1 .. Len(q) : r[i] = q[i]
          /\ ~(gap % Wrap <= Quiet) =>
                Opens(r[Len(q) + 1]) /\ Edges(r, Len(q) + 2, Len(ps), 0)
      <4>1. e \in Notes /\ e.level = 1 /\ e.gap = gap /\ ps \in Seq(Widths)
        BY <1>5, <2>2, NoteTypes
      <4>2. IsReplied(r, q, e, ps, of, l)
        BY <3>2, <4>1, Replied
      <4> QED BY <4>1, <4>2 DEF IsReplied
    <3> QED BY <2>1, <3>1, <3>3
  <2>5. PullWaits \/ PullSeen
    BY <1>4, <2>1 DEF Stage, Settled, PullAndReplyWait, ReplyWaits, ReplyRead,
                      PowerOff, PowerOn
  <2>6. CASE PullSeen
    <3>1. Len(events) = 0
      BY <2>6 DEF PullSeen
    <3>2. Awaited(Len(ps))'
      BY <1>4, <1>7, <2>6 DEF PullSeen, Kept
    <3>3. Opens(events'[1]) /\ Edges(events', 2, Len(ps), 0)
      BY <2>4, <3>1
    <3>4. ReplyWaits(Len(ps), 0)'
      BY <1>4, <2>6, <3>2, <3>3 DEF PullSeen, ReplyWaits, Counted
    <3> QED BY <1>5, <3>4 DEF Stage
  <2>7. CASE PullWaits
    <3>1. Len(events) = 1 /\ events[1] = PullNote
      BY <2>7 DEF PullWaits
    <3>2. /\ events'[1] = PullNote /\ Opens(events'[2])
          /\ Edges(events', 3, Len(ps), 0)
      BY <2>4, <3>1
    <3>3. Awaited(Len(ps))'
      BY <1>4, <1>7, <2>7 DEF PullWaits, Kept
    <3>4. Dangling' => silent' <= 1
      BY <1>1, <1>3, <1>4, <2>7 DEF PullWaits, Dangling, DriverTypes
    <3>5. PullAndReplyWait(Len(ps))'
      BY <1>4, <2>7, <3>2, <3>3, <3>4
         DEF PullWaits, PullAndReplyWait, Counted, Late, Dangling
    <3> QED BY <1>5, <3>5 DEF Stage
  <2> QED BY <2>5, <2>6, <2>7
<1> QED BY <1>6, <1>8

LEMMA WatchdogKeeps ==
    ASSUME DriverInv, SetWatchdog
    PROVE  DriverTypes' /\ (OrderlyLife' => Stage')
<1>1. DriverTypes
  BY DEF DriverInv
<1>2. /\ UNCHANGED <<bit, bad_cs, bad_sm, bad_mm, bad_sr, no_response, readings,
                     events, callback, triggers, silent, mistimed>>
      /\ trigger = "released" /\ trigger' = "idle" /\ watchdog' = TRUE
      /\ rushed' = (rushed \/ \E e \in ToSet(events) : e.level = 0 /\ e.of = None)
  BY DEF SetWatchdog, message, counters
<1>3. DriverTypes'
  BY <1>1, <1>2 DEF DriverTypes
<1>4. ASSUME OrderlyLife' PROVE Stage'
  <2>1. Stage /\ \A e \in ToSet(events) : ~(e.level = 0 /\ e.of = None)
    BY <1>2, <1>4, LifeBefore DEF OrderlyLife, Next
  <2>2. ASSUME NEW n \in Nat, PullAndReplyWait(n) PROVE FALSE
    <3>1. Len(events) = n + 2 /\ events[1] = PullNote
      BY <2>2 DEF PullAndReplyWait, Edges
    <3>2. PullNote \in ToSet(events)
      BY <1>1, <3>1 DEF ToSet, DriverTypes
    <3> QED BY <2>1, <3>2, NoteTypes
  <2>3. ASSUME NEW n \in Nat, NEW t \in {0, 1}, ReplyWaits(n, t) PROVE Stage'
    <3>1. ReplyWaits(n, t)'
      BY <1>2, <2>3 DEF ReplyWaits, Counted, Awaited, Unanswered
    <3> QED BY <3>1 DEF Stage
  <2>4. ASSUME NEW n \in Nat, NEW t \in {0, 1}, ReplyRead(n, t) PROVE Stage'
    <3>1. ReplyRead(n, t)'
      BY <1>2, <2>4 DEF ReplyRead, Counted, AwaitedRest, Unanswered
    <3> QED BY <3>1 DEF Stage
  <2> QED BY <1>2, <2>1, <2>2, <2>3, <2>4
      DEF Stage, Settled, PullWaits, PullSeen, PowerOff, PowerOn
<1> QED BY <1>3, <1>4

LEMMA TimesOutKeeps ==
    ASSUME DriverInv, TimesOut
    PROVE  DriverTypes' /\ (OrderlyLife' => Stage')
<1>1. DriverTypes
  BY DEF DriverInv
<1>2. /\ UNCHANGED <<bit, bad_cs, bad_sm, bad_mm, bad_sr, no_response, readings,
                     watchdog, trigger, callback, triggers, silent, mistimed>>
      /\ watchdog /\ trigger = "idle"
      /\ rushed' = (rushed \/ Waiting > 0)
      /\ events' = Append(events, Timeout)
  BY DEF TimesOut, message, counters
<1>3. DriverTypes'
  BY <1>1, <1>2, NoteTypes DEF DriverTypes
<1>4. ASSUME OrderlyLife' PROVE Stage'
  <2>1. Stage /\ ~(Waiting > 0)
    BY <1>2, <1>4, LifeBefore DEF OrderlyLife, Next
  <2>2. \A i \in 1 .. Len(events) : events[i] # Timeout
    BY <1>1, <2>1, WaitingCounts DEF DriverTypes
  <2>3. ASSUME NEW n \in Nat, NEW t \in {0, 1}, ReplyWaits(n, t) PROVE Stage'
    <3>1. Edges(events, 2, n, t) /\ events \in Seq(Notes)
      BY <1>1, <2>3 DEF ReplyWaits, DriverTypes
    <3>2. t = 0 /\ Len(events) = n + 1
      BY <2>2, <3>1 DEF Edges
    <3>3. Edges(events', 2, n, 1) /\ events'[1] = events[1]
      BY <1>2, <3>1, <3>2, EdgesTimedOut
    <3>4. ReplyWaits(n, 1)'
      BY <1>2, <2>3, <3>3 DEF ReplyWaits, Counted, Awaited, Unanswered
    <3> QED BY <3>4 DEF Stage
  <2>4. ASSUME NEW n \in Nat, NEW t \in {0, 1}, ReplyRead(n, t) PROVE Stage'
    <3>1. Edges(events, 1, n, t) /\ events \in Seq(Notes)
      BY <1>1, <2>4 DEF ReplyRead, DriverTypes
    <3>2. t = 0
      BY <2>2, <3>1 DEF Edges
    <3>3. Edges(events', 1, n, 1)
      BY <1>2, <3>1, <3>2, EdgesTimedOut
    <3>4. ReplyRead(n, 1)'
      BY <1>2, <2>4, <3>3 DEF ReplyRead, Counted, AwaitedRest, Unanswered
    <3> QED BY <3>4 DEF Stage
  <2> QED BY <1>2, <2>1, <2>3, <2>4
      DEF Stage, Settled, PullWaits, PullSeen, PullAndReplyWait, PowerOff, PowerOn
<1> QED BY <1>3, <1>4

\* What a falling edge does to the counters: the last edge of a message is
\* counted once, as a reading or a bad checksum.
LEMMA FallCounts ==
    ASSUME DriverTypes, FallingEdge
    PROVE  /\ DriverTypes'
           /\ events # <<>> /\ Head(events).level = 0 /\ events' = Tail(events)
           /\ callback = "ready"
           /\ UNCHANGED <<callback, trigger, triggers, silent, powered>>
           /\ IF Dangling
              THEN /\ bit' = 5 * ByteBits /\ ~watchdog' /\ no_response' = 0
                   /\ Counted' = Counted + 1
              ELSE /\ bit' = IF bit < 5 * ByteBits THEN bit + 1 ELSE 5 * ByteBits + 1
                   /\ UNCHANGED <<watchdog, no_response>> /\ Counted' = Counted
<1>1. /\ events # <<>> /\ Head(events).level = 0 /\ events' = Tail(events)
      /\ callback = "ready"
      /\ UNCHANGED <<callback, trigger, triggers, silent, powered, rushed, mistimed>>
  BY DEF FallingEdge, Handles, history
<1>2. events' \in Seq(Notes)
  BY <1>1, Handled DEF DriverTypes
<1>3. /\ UNCHANGED <<bad_sm, bad_mm, bad_sr>>
      /\ \/ /\ Dangling /\ bit' = 5 * ByteBits /\ ~watchdog' /\ no_response' = 0
            /\ \/ readings' = readings + 1 /\ bad_cs' = bad_cs
               \/ readings' = readings /\ bad_cs' = bad_cs + 1
         \/ /\ ~Dangling
            /\ bit' = IF bit < 5 * ByteBits THEN bit + 1 ELSE 5 * ByteBits + 1
            /\ UNCHANGED <<watchdog, no_response, readings, bad_cs>>
  <2>1. bit \in Int /\ ByteBits \in Nat /\ ByteBits > 0
    BY Constants DEF DriverTypes
  <2>2. CASE FallingAfter
    BY <2>1, <2>2 DEF FallingAfter, counters, Dangling
  <2>3. CASE FallingInChecksum /\ Dangling
    <3>1. /\ bit = 5 * ByteBits - 1 /\ bit' = bit + 1 /\ watchdog' = FALSE
          /\ no_response' = 0 /\ UNCHANGED <<bad_sm, bad_mm, bad_sr>>
      BY <2>3 DEF FallingInChecksum, Dangling
    <3>2. \/ readings' = readings + 1 /\ bad_cs' = bad_cs
          \/ readings' = readings /\ bad_cs' = bad_cs + 1
      BY <2>3 DEF FallingInChecksum, Dangling
    <3> QED BY <2>1, <2>3, <3>1, <3>2
  <2>4. CASE FallingInChecksum /\ ~Dangling
    BY <2>1, <2>4 DEF FallingInChecksum, Dangling
  <2>5. CASE FallingInData \/ FallingInHeader
    BY <2>1, <2>5 DEF FallingInData, FallingInHeader, counters, Dangling
  <2> QED BY <2>2, <2>3, <2>4, <2>5 DEF FallingEdge
<1>4. DriverTypes'
  <2>1. bit' \in Int
    <3>1. bit \in Int /\ ByteBits \in Nat
      BY Constants DEF DriverTypes
    <3>2. \/ bit' = 5 * ByteBits \/ bit' = bit + 1 \/ bit' = 5 * ByteBits + 1
      BY <1>3
    <3> QED BY <3>1, <3>2
  <2>2. readings' \in Nat /\ bad_cs' \in Nat /\ no_response' \in Nat
    <3>1. readings \in Nat /\ bad_cs \in Nat /\ no_response \in Nat
      BY DEF DriverTypes
    <3> QED BY <1>3, <3>1
  <2> QED BY <1>1, <1>2, <1>3, <2>1, <2>2 DEF DriverTypes
<1>5. /\ readings \in Nat /\ bad_cs \in Nat /\ bad_sm \in Nat /\ bad_mm \in Nat
  BY DEF DriverTypes
<1> QED BY <1>1, <1>3, <1>4, <1>5 DEF Counted

LEMMA FallingKeeps ==
    ASSUME DriverInv, FallingEdge
    PROVE  DriverTypes' /\ (OrderlyLife' => Stage')
<1>1. /\ DriverTypes /\ DriverTypes'
      /\ events # <<>> /\ Head(events).level = 0 /\ events' = Tail(events)
      /\ callback = "ready"
      /\ UNCHANGED <<callback, trigger, triggers, silent, powered>>
      /\ IF Dangling
         THEN /\ bit' = 5 * ByteBits /\ ~watchdog' /\ no_response' = 0
              /\ Counted' = Counted + 1
         ELSE /\ bit' = IF bit < 5 * ByteBits THEN bit + 1 ELSE 5 * ByteBits + 1
              /\ UNCHANGED <<watchdog, no_response>> /\ Counted' = Counted
  BY FallCounts DEF DriverInv
<1>2. /\ Counted \in Int /\ triggers \in Int /\ silent \in Nat /\ bit \in Int
      /\ no_response \in Nat /\ events \in Seq(Notes)
  <2>1. DriverTypes
    BY <1>1
  <2>2. /\ readings \in Nat /\ bad_cs \in Nat /\ bad_sm \in Nat /\ bad_mm \in Nat
        /\ no_response \in Nat /\ triggers \in Nat /\ silent \in Nat
    BY <2>1 DEF DriverTypes
  <2>3. bit \in Int /\ events \in Seq(Notes)
    BY <2>1 DEF DriverTypes
  <2> QED BY <2>2, <2>3 DEF Counted
<1>3. Head(events) = events[1] /\ events[1] \in Notes /\ Len(events) > 0
  BY <1>1, <1>2, Handled
<1>4. ASSUME OrderlyLife' PROVE Stage'
  <2>1. Stage
    BY <1>4, LifeBefore DEF Next
  <2>2. CASE PullWaits
    <3>1. events' = <<>>
      BY <1>1, <2>2 DEF PullWaits
    <3>2. Counted' = triggers' - 1
      BY <1>1, <1>2, <2>2 DEF PullWaits, Late
    <3>3. Kept'
      BY <1>1, <2>2, Constants DEF PullWaits, Kept
    <3> QED BY <1>1, <2>2, <3>1, <3>2, <3>3 DEF PullWaits, PullSeen, Stage
  <2>3. ASSUME NEW n \in Nat, PullAndReplyWait(n) PROVE Stage'
    <3>1. /\ Opens(events[2]) /\ Edges(events, 3, n, 0) /\ Len(events) = n + 2
      BY <2>3 DEF PullAndReplyWait, Edges
    <3>2. events'[1] = events[2]
      BY <1>1, <1>2, <3>1, Handled
    <3>3. Edges(events', 2, n, 0)
      BY <1>1, <1>2, <3>1, EdgesShift
    <3>4. Counted' = triggers' - 1
      BY <1>1, <1>2, <2>3 DEF PullAndReplyWait, Late
    <3>5. Awaited(n)'
      BY <1>1, <1>2, <2>3, Constants
         DEF PullAndReplyWait, Awaited, Unanswered
    <3>6. ReplyWaits(n, 0)'
      BY <1>1, <2>3, <3>1, <3>2, <3>3, <3>4, <3>5
         DEF PullAndReplyWait, ReplyWaits
    <3> QED BY <3>6 DEF Stage
  <2>4. ASSUME NEW n \in Nat, NEW t \in {0, 1}, ReplyRead(n, t) PROVE Stage'
    <3>1. n - 1 \in Nat /\ Edges(events', 1, n - 1, t)
      BY <1>1, <1>2, <2>4, EdgesNext DEF ReplyRead
    <3> DEFINE m == n - 1
    <3>2. m \in Nat /\ n = m + 1
      BY <3>1
    <3>3. Edges(events', 1, m, t)
      BY <3>1
    <3> HIDE DEF m
    <3>4. CASE Dangling
      <4>1. bit < 5 * ByteBits /\ bit + n >= ByteBits
        BY <3>2, <3>4, Constants DEF Dangling
      <4>2. Counted = triggers - 1 /\ silent = 0
        BY <2>4, <4>1, <3>2, <1>2, Constants DEF ReplyRead, AwaitedRest
      <4>3. ReplyRead(m, t)'
        BY <1>1, <1>2, <2>4, <3>3, <3>4, <4>2, Constants DEF ReplyRead
      <4> QED BY <3>2, <4>3 DEF Stage
    <3>5. CASE ~Dangling /\ bit < 5 * ByteBits
      <4>1. bit' = bit + 1 /\ bit' < 5 * ByteBits /\ bit' + m = bit + n
        BY <1>1, <1>2, <3>2, <3>5, Constants DEF Dangling
      <4>2. AwaitedRest(m)'
        BY <1>1, <2>4, <3>5, <4>1 DEF ReplyRead, AwaitedRest, Unanswered
      <4>3. ReplyRead(m, t)'
        BY <1>1, <2>4, <3>3, <3>5, <4>1, <4>2 DEF ReplyRead
      <4> QED BY <3>2, <4>3 DEF Stage
    <3>6. CASE ~(bit < 5 * ByteBits)
      <4>1. ~Dangling
        BY <1>2, <3>6, Constants DEF Dangling
      <4>2. bit' = 5 * ByteBits + 1 /\ ~(bit' < 5 * ByteBits)
        BY <1>1, <3>6, <4>1, Constants
      <4>3. ReplyRead(m, t)'
        BY <1>1, <2>4, <3>3, <3>6, <4>1, <4>2 DEF ReplyRead
      <4> QED BY <3>2, <4>3 DEF Stage
    <3> QED BY <3>4, <3>5, <3>6
  <2>5. CASE PowerOn
    <3>1. events = <<PullNote, PowerNote>> /\ bit < ByteBits
      <4>1. PowerNote.level = 1
        BY NoteTypes, Constants
      <4> QED BY <1>1, <2>5, <4>1 DEF PowerOn
    <3>2. ~Dangling /\ events' = <<PowerNote>>
      BY <1>1, <1>2, <3>1, Constants DEF Dangling
    <3> QED BY <1>1, <2>5, <3>2 DEF PowerOn, Kept, Stage
  <2>6. ASSUME NEW n \in Nat, NEW t \in {0, 1}, ReplyWaits(n, t) PROVE FALSE
    BY <1>1, <1>3, <2>6 DEF ReplyWaits, Opens
  <2> QED BY <1>1, <2>1, <2>2, <2>3, <2>4, <2>5, <2>6
      DEF Stage, Settled, PullSeen, PowerOff
<1> QED BY <1>1, <1>4

LEMMA RisingKeeps ==
    ASSUME DriverInv, RisingEdge
    PROVE  DriverTypes' /\ (OrderlyLife' => Stage')
<1>1. /\ UNCHANGED <<bad_cs, bad_sm, bad_mm, bad_sr, no_response, readings, rushed,
                     watchdog, trigger, callback, triggers, silent, mistimed>>
      /\ bit' = IF Head(events).gap % Wrap > Quiet THEN -2 ELSE bit
      /\ events # <<>> /\ Head(events).level = 1 /\ events' = Tail(events)
      /\ callback = "ready"
  BY DEF RisingEdge, Handles, counters, history
<1>2. /\ DriverTypes
      /\ events \in Seq(Notes) /\ bit \in Int /\ silent \in Nat
      /\ Head(events) = events[1] /\ Len(events) > 0
      /\ Tail(events) \in Seq(Notes)
  BY <1>1, Handled DEF DriverInv, DriverTypes
<1>3. DriverTypes'
  BY <1>1, <1>2 DEF DriverTypes
<1>4. ASSUME OrderlyLife' PROVE Stage'
  <2>1. Stage
    BY <1>4, LifeBefore DEF Next
  <2>2. ASSUME NEW n \in Nat, NEW t \in {0, 1}, ReplyWaits(n, t) PROVE Stage'
    <3>1. bit' = -2
      BY <1>1, <1>2, <2>2 DEF ReplyWaits, Opens
    <3>2. Edges(events', 1, n, t)
      BY <1>1, <1>2, <2>2, EdgesShift DEF ReplyWaits
    <3>3. AwaitedRest(n)'
      <4>1. (bit' + n < ByteBits) = (n < ByteBits + 2)
        BY <3>1, Constants
      <4> QED BY <1>1, <2>2, <4>1 DEF ReplyWaits, AwaitedRest, Awaited, Unanswered
    <3>4. Counted' = triggers' - 1
      BY <1>1, <2>2 DEF ReplyWaits, Counted
    <3>5. bit' < 5 * ByteBits
      BY <3>1, Constants
    <3>6. ReplyRead(n, t)'
      BY <1>1, <2>2, <3>2, <3>3, <3>4, <3>5 DEF ReplyWaits, ReplyRead
    <3> QED BY <3>6 DEF Stage
  <2>3. CASE PowerOn
    <3>1. events = <<PowerNote>>
      BY <1>1, <2>3, NoteTypes DEF PowerOn
    <3>2. bit' = -2
      BY <1>1, <3>1, NoteTypes, Constants
    <3>3. ~Dangling' /\ events' = <<>>
      <4>1. -2 # 5 * ByteBits - 1
        BY Constants
      <4>2. Tail(<<PowerNote>>) = <<>>
        OBVIOUS
      <4> QED BY <1>1, <3>1, <3>2, <4>1, <4>2 DEF Dangling
    <3>4. Counted' = triggers' - Late'
      BY <1>1, <1>2, <2>3, <3>3 DEF PowerOn, Counted, Late, DriverTypes
    <3> QED BY <1>1, <2>3, <3>3, <3>4 DEF PowerOn, Kept, Settled, Stage
  <2>4. ASSUME NEW n \in Nat, PullAndReplyWait(n) PROVE FALSE
    BY <1>1, <1>2, <2>4, NoteTypes DEF PullAndReplyWait
  <2>5. ASSUME NEW n \in Nat, NEW t \in {0, 1}, ReplyRead(n, t) PROVE FALSE
    BY <1>1, <1>2, <2>5, NoteTypes DEF ReplyRead, Edges
  <2>6. CASE PullWaits
    BY <1>1, <1>2, <2>6, NoteTypes DEF PullWaits
  <2> QED BY <1>1, <2>1, <2>2, <2>3, <2>4, <2>5, <2>6
      DEF Stage, Settled, PullSeen, PowerOff
<1> QED BY <1>3, <1>4

LEMMA TimeoutKeeps ==
    ASSUME DriverInv, WatchdogTimeout
    PROVE  DriverTypes' /\ (OrderlyLife' => Stage')
<1>1. /\ UNCHANGED <<bit, bad_cs, readings, rushed, trigger, triggers, silent, mistimed>>
      /\ events # <<>> /\ Head(events).level = 2 /\ events' = Tail(events)
      /\ callback = "ready" /\ ~watchdog'
      /\ Missing \/ Short \/ Full
  BY DEF WatchdogTimeout, Handles, message, history
<1>2. /\ DriverTypes
      /\ events \in Seq(Notes) /\ bit \in Int /\ silent \in Nat /\ no_response \in Nat
      /\ readings \in Nat /\ bad_cs \in Nat /\ bad_sm \in Nat /\ bad_mm \in Nat
      /\ bad_sr \in Nat /\ triggers \in Nat
      /\ Head(events) = events[1] /\ Len(events) > 0
      /\ Tail(events) \in Seq(Notes)
  BY <1>1, Handled DEF DriverInv, DriverTypes
<1>3. DriverTypes'
  BY <1>1, <1>2 DEF DriverTypes, Missing, Short, Full
<1>4. ASSUME OrderlyLife' PROVE Stage'
  <2>1. Stage
    BY <1>4, LifeBefore DEF Next
  <2>2. ASSUME NEW n \in Nat, NEW t \in {0, 1}, ReplyRead(n, t) PROVE Stage'
    <3>1. n = 0 /\ t = 1 /\ events' = <<>>
      BY <1>1, <1>2, <2>2, EdgesLast DEF ReplyRead
    <3>2. trigger' = "idle"
      BY <1>1, <2>2, <3>1 DEF ReplyRead
    <3>3. IF bit < 5 * ByteBits
          THEN /\ Counted = triggers - 1
               /\ IF bit < ByteBits THEN silent > 0 /\ no_response = (silent - 1) % Period
                                    ELSE silent = 0
          ELSE Counted = triggers /\ silent = 0
      BY <1>2, <2>2, <3>1 DEF ReplyRead, AwaitedRest, Unanswered
    <3>4. CASE Missing
      <4>1. bit < ByteBits /\ bit < 5 * ByteBits /\ ~Dangling
        BY <1>2, <3>4, Constants DEF Missing, Dangling
      <4>2. Counted' = triggers' /\ Late' = 0 /\ ~Dangling'
        BY <1>1, <1>2, <3>3, <3>4, <4>1 DEF Missing, Counted, Late, Dangling
      <4>3. Kept'
        <5>1. silent - 1 \in Nat /\ no_response = (silent - 1) % Period
          BY <1>2, <3>3, <4>1
        <5>2. silent % Period = IF no_response + 1 = Period THEN 0 ELSE no_response + 1
          <6>1. ((silent - 1) + 1) % Period
                   = IF ((silent - 1) % Period) + 1 = Period
                     THEN 0 ELSE ((silent - 1) % Period) + 1
            BY <5>1, Constants, CountsModulo
          <6>2. (silent - 1) + 1 = silent
            BY <1>2
          <6> QED BY <5>1, <6>1, <6>2
        <5>3. no_response \in 0 .. (Period - 1)
          BY <5>1, Constants, DivMod
        <5>4. no_response' = IF no_response + 1 > MaxNoResponse THEN 0 ELSE no_response + 1
          BY <3>4 DEF Missing
        <5>5. (no_response + 1 > MaxNoResponse) = (no_response + 1 = Period)
          BY <5>3, ConstantsAssumption DEF Period
        <5> QED BY <1>1, <5>2, <5>4, <5>5 DEF Kept
      <4>4. CASE callback' = "ready"
        BY <1>1, <1>2, <3>1, <3>2, <4>2, <4>3, <4>4 DEF Settled, Stage
      <4>5. CASE callback' # "ready"
        <5>1. callback' = "cycling" /\ ~powered'
          BY <1>1, <3>4, <4>5 DEF Missing
        <5> QED BY <1>1, <3>1, <3>2, <4>1, <4>2, <4>3, <5>1 DEF PowerOff, Stage
      <4> QED BY <4>4, <4>5
    <3>5. CASE Short
      <4>1. ~(bit < ByteBits) /\ bit < 5 * ByteBits /\ ~Dangling
        BY <1>2, <3>5, Constants DEF Short, Dangling
      <4>2. Counted' = triggers' /\ Late' = 0 /\ ~Dangling'
        BY <1>1, <1>2, <3>3, <3>5, <4>1 DEF Short, Counted, Late, Dangling
      <4>3. Kept' /\ callback' = "ready"
        BY <1>1, <3>3, <3>5, <4>1, Constants DEF Short, Kept
      <4> QED BY <1>1, <1>2, <3>1, <3>2, <4>2, <4>3 DEF Settled, Stage
    <3>6. CASE Full
      <4>1. ~(bit < ByteBits) /\ (bit < 5 * ByteBits <=> Dangling)
        BY <1>2, <3>6, Constants DEF Full, Dangling
      <4>2. Counted' = Counted
        BY <1>1, <3>6 DEF Full, Counted
      <4>3. Counted' = triggers' - Late' /\ silent = 0
        BY <1>1, <1>2, <3>3, <4>1, <4>2 DEF Late, Dangling
      <4>4. Kept' /\ callback' = "ready"
        BY <1>1, <3>6, <4>3, Constants DEF Full, Kept
      <4> QED BY <1>1, <3>1, <3>2, <4>3, <4>4 DEF Settled, Stage
    <3> QED BY <1>1, <3>4, <3>5, <3>6
  <2>3. ASSUME NEW n \in Nat, NEW t \in {0, 1}, ReplyWaits(n, t) PROVE FALSE
    BY <1>1, <1>2, <2>3 DEF ReplyWaits, Opens
  <2>4. CASE PowerOn
    BY <1>1, <1>2, <2>4, NoteTypes, Constants DEF PowerOn
  <2>5. ASSUME NEW n \in Nat, PullAndReplyWait(n) PROVE FALSE
    BY <1>1, <1>2, <2>5, NoteTypes DEF PullAndReplyWait
  <2>6. CASE PullWaits
    BY <1>1, <1>2, <2>6, NoteTypes DEF PullWaits
  <2> QED BY <1>1, <2>1, <2>2, <2>3, <2>4, <2>5, <2>6
      DEF Stage, Settled, PullSeen, PowerOff
<1> QED BY <1>3, <1>4

\* What a power cycle adds to the queue: an edge like that of a pull and a rising one,
\* if they are noticed.
LEMMA PowerIsBack ==
    ASSUME DriverTypes, PowerBack
    PROVE  \E p \in Seq(Notes), g \in Seq(Notes) :
             /\ events' = (events \o p) \o g
             /\ p = <<>> \/ \E w \in Widths : p = <<Fall(w, None, 0)>>
             /\ g = <<>> \/ (Len(g) = 1 /\ g[1].level = 1 /\ (p = <<>> => ~g[1].seen))
             /\ ~mistimed' => /\ ~mistimed
                              /\ \/ p = <<>> /\ g = <<>>
                                 \/ p = <<PullNote>> /\ g = <<PowerNote>>
<1>1. events \in Seq(Notes) /\ <<>> \in Seq(Notes) /\ Quiet \in Nat /\ Quiet + 1 \in Nat
  BY Constants DEF DriverTypes
<1>2. CASE UNCHANGED <<events, mistimed>>
  <2>1. (events \o <<>>) \o <<>> = events
    BY <1>1
  <2> QED BY <1>1, <1>2, <2>1
<1>3. CASE \E width \in Widths \cup {Lost}, gaps \in {<<>>, <<Quiet>>, <<Quiet + 1>>} :
            /\ events' = events \o PullEdge(width)
                          \o [i \in 1..Len(gaps) |-> Rise(gaps[i], width # Lost)]
            /\ mistimed' = (mistimed \/ ~(width = Bad /\ gaps = <<Quiet + 1>>))
  <2>1. PICK width \in Widths \cup {Lost}, gaps \in {<<>>, <<Quiet>>, <<Quiet + 1>>} :
            /\ events' = events \o PullEdge(width)
                          \o [i \in 1..Len(gaps) |-> Rise(gaps[i], width # Lost)]
            /\ mistimed' = (mistimed \/ ~(width = Bad /\ gaps = <<Quiet + 1>>))
    BY <1>3
  <2>2. PICK p \in Seq(Notes) :
          /\ p = PullEdge(width) /\ (p = <<>> \/ \E w \in Widths : p = <<Fall(w, None, 0)>>)
          /\ width = Bad => p = <<PullNote>>
          /\ p = <<>> => width = Lost
    BY PullEdgeIs
  <2>3. PICK seen \in BOOLEAN : seen = (width # Lost) /\ (width = Bad => seen = TRUE)
    BY DEF Bad, Lost
  <2>4. PICK g : g = [i \in 1..Len(gaps) |-> Rise(gaps[i], seen)]
    OBVIOUS
  <2>5. CASE gaps = <<>>
    <3>1. g = <<>>
      BY <2>4, <2>5
    <3>2. events' = (events \o p) \o g
      BY <2>1, <2>2, <2>3, <2>4
    <3>3. mistimed'
      BY <2>1, <2>5
    <3> QED BY <1>1, <2>2, <3>1, <3>2, <3>3
  <2>6. ASSUME NEW x \in {Quiet, Quiet + 1}, gaps = <<x>>
        PROVE  /\ g \in Seq(Notes) /\ Len(g) = 1 /\ g[1].level = 1 /\ g = <<Rise(x, seen)>>
               /\ p = <<>> => ~g[1].seen
    <3>1. PICK y : y = Rise(x, seen)
      OBVIOUS
    <3>2. y \in Notes /\ y.level = 1
      BY <1>1, <3>1, NoteTypes
    <3>3. g = <<y>>
      BY <2>4, <2>6, <3>1
    <3>4. y.seen = seen
      BY <3>1, NoteTypes
    <3>5. p = <<>> => ~seen
      BY <2>2, <2>3
    <3>6. g[1] = y
      BY <3>3
    <3>7. p = <<>> => ~g[1].seen
      BY <3>4, <3>5, <3>6
    <3> QED BY <3>1, <3>2, <3>3, <3>7
  <2>7. ~mistimed' => ~mistimed /\ width = Bad /\ gaps = <<Quiet + 1>>
    BY <2>1
  <2>8. width = Bad /\ gaps = <<Quiet + 1>> => p = <<PullNote>> /\ g = <<PowerNote>>
    <3> SUFFICES ASSUME width = Bad, gaps = <<Quiet + 1>>
                 PROVE  p = <<PullNote>> /\ g = <<PowerNote>>
      OBVIOUS
    <3>1. g = <<Rise(Quiet + 1, seen)>>
      BY <1>1, <2>6
    <3>2. seen = TRUE
      BY <2>3
    <3>3. g = <<PowerNote>>
      BY <3>1, <3>2 DEF PowerNote
    <3> QED BY <2>2, <3>3
  <2>9. CASE gaps = <<Quiet>> \/ gaps = <<Quiet + 1>>
    <3>1. g \in Seq(Notes) /\ Len(g) = 1 /\ g[1].level = 1 /\ (p = <<>> => ~g[1].seen)
      BY <2>6, <2>9
    <3>2. events' = (events \o p) \o g
      BY <2>1, <2>2, <2>3, <2>4
    <3> QED BY <2>2, <2>7, <2>8, <3>1, <3>2
  <2> QED BY <2>5, <2>9
<1> QED BY <1>2, <1>3 DEF PowerBack

LEMMA PowerKeeps ==
    ASSUME DriverInv, PowerBack
    PROVE  DriverTypes' /\ (OrderlyLife' => Stage')
<1>1. /\ UNCHANGED <<bit, bad_cs, bad_sm, bad_mm, bad_sr, no_response, readings, rushed,
                     watchdog, trigger, triggers, silent>>
      /\ callback = "cycling" /\ callback' = "ready" /\ mistimed' \in BOOLEAN
  BY DEF PowerBack, message, counters, DriverInv, DriverTypes
<1>2. DriverTypes
  BY DEF DriverInv
<1>5. PICK p \in Seq(Notes), g \in Seq(Notes) :
             /\ events' = (events \o p) \o g
             /\ ~mistimed' => \/ p = <<>> /\ g = <<>>
                              \/ p = <<PullNote>> /\ g = <<PowerNote>>
  BY <1>2, PowerIsBack
<1>3. DriverTypes'
  <2>1. events \in Seq(Notes)
    BY <1>2 DEF DriverTypes
  <2>2. events \o p \in Seq(Notes)
    BY <2>1, Joined
  <2>3. events' \in Seq(Notes)
    BY <1>5, <2>2, Joined
  <2> QED BY <1>1, <1>2, <2>3 DEF DriverTypes
<1>4. ASSUME OrderlyLife' PROVE Stage'
  <2>1. Stage /\ ~mistimed'
    BY <1>4, LifeBefore DEF Next, OrderlyLife
  <2>2. PowerOff /\ events = <<>>
    BY <1>1, <2>1 DEF Stage, Settled, PullWaits, PullSeen, PullAndReplyWait,
                      ReplyWaits, ReplyRead, PowerOn, PowerOff
  <2>3. Counted' = triggers' /\ Kept' /\ ~Dangling' /\ Late' = 0
    BY <1>1, <1>2, <2>2, Constants
       DEF PowerOff, Counted, Kept, Dangling, Late, DriverTypes
  <2>4. CASE p = <<>> /\ g = <<>>
    <3>1. events' = <<>>
      BY <1>5, <2>2, <2>4
    <3> QED BY <1>1, <1>2, <2>2, <2>3, <3>1 DEF PowerOff, Settled, Stage, DriverTypes
  <2>5. CASE p = <<PullNote>> /\ g = <<PowerNote>>
    <3>1. events' = <<PullNote, PowerNote>>
      <4>1. PICK x, y : x = PullNote /\ y = PowerNote
        OBVIOUS
      <4>4. \A z \in Seq(Notes) : <<>> \o z = z
        OBVIOUS
      <4>5. <<x>> \in Seq(Notes) /\ <<y>> \in Seq(Notes)
        BY <4>1, NoteTypes
      <4>6. <<x>> \o <<y>> = <<x, y>>
        BY <4>1, NoteTypes, Pair
      <4>2. <<>> \o <<x>> = <<x>> /\ <<x>> \o <<y>> = <<x, y>>
        BY <4>4, <4>5, <4>6
      <4>3. (<<>> \o <<x>>) \o <<y>> = <<x, y>>
        BY <4>2
      <4> QED BY <1>5, <2>2, <2>5, <4>1, <4>3
    <3> QED BY <1>1, <2>2, <2>3, <3>1 DEF PowerOff, PowerOn, Stage
  <2> QED BY <1>5, <2>1, <2>4, <2>5
<1> QED BY <1>3, <1>4

LEMMA DriverNext == DriverInv /\ [Next]_vars => DriverInv'
<1> SUFFICES ASSUME DriverInv, [Next]_vars PROVE DriverInv'
  OBVIOUS
<1>1. CASE Cancel
  <2>1. DriverTypes'
    BY <1>1 DEF DriverInv, DriverTypes, Cancel, message, counters, history
  <2> QED BY <1>1, <2>1 DEF Cancel, DriverInv
<1>2. CASE UNCHANGED vars
  BY <1>2 DEF vars, message, counters, history, DriverInv, DriverTypes, Stage,
         Settled, PullWaits, PullSeen, PullAndReplyWait, ReplyWaits, ReplyRead,
         PowerOff, PowerOn, Counted, Late, Dangling, Kept, Awaited, AwaitedRest,
         Unanswered
<1>3. CASE Next /\ ~Cancel
  <2>1. DriverTypes' /\ (OrderlyLife' => Stage')
    BY <1>3, PullKeeps, ReleaseKeeps, WatchdogKeeps, TimesOutKeeps, FallingKeeps,
       RisingKeeps, TimeoutKeeps, PowerKeeps DEF Next
  <2> QED BY <2>1 DEF DriverInv, OrderlyLife
<1> QED BY <1>1, <1>2, <1>3

LEMMA OrderlySettled == DriverInv /\ Orderly => Settled
BY RestIsSettled DEF DriverInv, Orderly, AtRest

\* Once a call of trigger is dealt with, it has been counted exactly once, for
\* messages of any length, whatever part of a reply arrives, and however its
\* edges, the watchdog and a power cycle meet (_cb).
THEOREM CallsCounted == Spec => []Accounted
<1>1. DriverInv => Accounted
  <2> SUFFICES ASSUME DriverInv, Orderly PROVE Counted = triggers - Late
    BY DEF Accounted, Counted, Late, Dangling
  <2> QED BY OrderlySettled DEF Settled
<1> QED BY <1>1, DriverInit, DriverNext, PTL DEF Spec

\* The count after which the driver resets the sensor is that of the calls in
\* a row without an answer, for any limit on them (_cb, level 2).
THEOREM ResetsInTurn == Spec => []ResetsJustified
<1>1. DriverInv => ResetsJustified
  BY OrderlySettled DEF ResetsJustified, Settled, Kept, Period
<1> QED BY <1>1, DriverInit, DriverNext, PTL DEF Spec

-----------------------------------------------------------------------------
(* Numbers, bit by bit                                                     *)

\* Doubling and adding, step by step, defines a function.
Doubles(g, low, n, first, c) ==
    g = [i \in low .. (low + n) |-> IF i = low THEN first ELSE 2 * g[i - 1] + c[i]]

LEMMA DoublesDefined ==
    ASSUME NEW low \in Int, NEW first, NEW c
    PROVE  \A n \in Nat : \E g : Doubles(g, low, n, first, c)
<1> DEFINE T == {n \in Nat : \E g : Doubles(g, low, n, first, c)}
<1>1. 0 \in T
  <2>1. PICK g : g = [i \in low .. (low + 0) |-> first]
    OBVIOUS
  <2>2. \A i \in low .. (low + 0) : i = low
    OBVIOUS
  <2>3. g = [i \in low .. (low + 0) |-> IF i = low THEN first ELSE 2 * g[i - 1] + c[i]]
    BY <2>1, <2>2
  <2> QED BY <2>3 DEF Doubles
<1>2. ASSUME NEW n \in Nat, n \in T  PROVE n + 1 \in T
  <2>1. PICK g : g = [i \in low .. (low + n) |->
                        IF i = low THEN first ELSE 2 * g[i - 1] + c[i]]
    BY <1>2 DEF Doubles
  <2>2. \A i \in low .. (low + n) : g[i] = IF i = low THEN first ELSE 2 * g[i - 1] + c[i]
    BY <2>1
  <2>3. PICK last : last = 2 * g[low + n] + c[low + (n + 1)]
    OBVIOUS
  <2>4. PICK h : h = [i \in low .. (low + (n + 1)) |->
                        IF i = low + (n + 1) THEN last ELSE g[i]]
    OBVIOUS
  <2>5. h[low + (n + 1)] = last /\ \A i \in low .. (low + n) : h[i] = g[i]
    BY <2>4
  <2>6. ASSUME NEW i \in low .. (low + (n + 1))
        PROVE  h[i] = IF i = low THEN first ELSE 2 * h[i - 1] + c[i]
    <3>1. CASE i = low + (n + 1)
      <4>1. i - 1 = low + n /\ low + n \in low .. (low + n) /\ i # low
        BY <3>1
      <4>2. h[i] = 2 * g[low + n] + c[i]
        BY <2>3, <2>5, <3>1
      <4> QED BY <2>5, <4>1, <4>2
    <3>2. CASE i # low + (n + 1)
      <4>1. i \in low .. (low + n) /\ (i # low => i - 1 \in low .. (low + n))
        BY <3>2
      <4> QED BY <2>2, <2>5, <4>1
    <3> QED BY <3>1, <3>2
  <2>7. h = [i \in low .. (low + (n + 1)) |->
                IF i = low THEN first ELSE 2 * h[i - 1] + c[i]]
    BY <2>4, <2>6
  <2>8. \E k : Doubles(k, low, n + 1, first, c)
    BY <2>7 DEF Doubles
  <2> QED BY <2>8
<1> HIDE DEF T
<1>3. \A n \in Nat : n \in T
  BY <1>1, <1>2, AllNumbers
<1> QED BY <1>3 DEF T

LEMMA Doubling ==
    ASSUME NEW g, NEW low \in Int, NEW n \in Nat, NEW first, NEW c,
           Doubles(g, low, n, first, c)
    PROVE  /\ g[low] = first
           /\ \A i \in (low + 1) .. (low + n) : g[i] = 2 * g[i - 1] + c[i]
BY DEF Doubles

LEMMA DoublesNat ==
    ASSUME NEW g, NEW low \in Int, NEW n \in Nat, NEW first \in Nat, NEW c,
           Doubles(g, low, n, first, c), \A i \in (low + 1) .. (low + n) : c[i] \in Nat
    PROVE  \A i \in low .. (low + n) : g[i] \in Nat
<1> DEFINE T == {k \in Nat : k <= n => g[low + k] \in Nat}
<1>1. 0 \in T
  <2>1. g[low] = first /\ low + 0 = low
    BY DEF Doubles
  <2>2. g[low + 0] \in Nat
    BY <2>1
  <2> QED BY <2>2
<1>2. ASSUME NEW k \in Nat, k \in T  PROVE k + 1 \in T
  <2> SUFFICES ASSUME k + 1 <= n  PROVE g[low + (k + 1)] \in Nat
    OBVIOUS
  <2>1. PICK i : i = low + (k + 1)
    OBVIOUS
  <2>2. i \in (low + 1) .. (low + n) /\ i - 1 = low + k /\ k <= n
    BY <2>1
  <2>3. g[i] = 2 * g[i - 1] + c[i]
    BY <2>2, Doubling
  <2>4. g[i - 1] \in Nat /\ c[i] \in Nat
    BY <1>2, <2>2
  <2>5. g[i] \in Nat
    BY <2>3, <2>4
  <2> QED BY <2>1, <2>5
<1> HIDE DEF T
<1>3. \A k \in Nat : k \in T
  BY <1>1, <1>2, AllNumbers
<1>4. ASSUME NEW i \in low .. (low + n)  PROVE g[i] \in Nat
  <2>1. i - low \in Nat /\ i - low <= n /\ low + (i - low) = i
    OBVIOUS
  <2> QED BY <1>3, <2>1 DEF T
<1> QED BY <1>4

LEMMA PowerIs ==
    /\ Power[0] = 1
    /\ \A n \in 1 .. ByteBits : Power[n] = 2 * Power[n - 1]
    /\ \A n \in 0 .. ByteBits : Power[n] \in Nat /\ Power[n] > 0
<1>1. ByteBits \in Nat
  BY ConstantsAssumption
<1>2. PICK c : c = [i \in Nat |-> 0]
  OBVIOUS
<1>3. PICK g : Doubles(g, 0, ByteBits, 1, c)
  BY <1>1, DoublesDefined
<1>4. g = [i \in 0 .. ByteBits |-> IF i = 0 THEN 1 ELSE 2 * g[i - 1] + c[i]]
  BY <1>1, <1>3 DEF Doubles
<1>5. \A i \in 0 .. ByteBits : g[i] \in Nat
  BY <1>1, <1>2, <1>3, DoublesNat
<1>6. \A i \in 0 .. ByteBits :
        g[i] = IF i = 0 THEN 1 ELSE 2 * g[i - 1]
  <2> TAKE i \in 0 .. ByteBits
  <2>1. CASE i = 0
    BY <1>4, <2>1
  <2>2. CASE i # 0
    <3>1. i - 1 \in 0 .. ByteBits /\ i \in Nat
      BY <1>1, <2>2
    <3>2. g[i] = 2 * g[i - 1] + c[i] /\ c[i] = 0 /\ g[i - 1] \in Nat
      BY <1>2, <1>4, <1>5, <2>2, <3>1
    <3> QED BY <2>2, <3>2
  <2> QED BY <2>1, <2>2
<1>7. g = [i \in 0 .. ByteBits |-> IF i = 0 THEN 1 ELSE 2 * g[i - 1]]
  BY <1>4, <1>6
<1>8. Power = [i \in 0 .. ByteBits |-> IF i = 0 THEN 1 ELSE 2 * Power[i - 1]]
  BY <1>7 DEF Power
<1>9. /\ Power[0] = 1 /\ \A n \in 1 .. ByteBits : Power[n] = 2 * Power[n - 1]
  BY <1>1, <1>8
<1> DEFINE T == {k \in Nat : k <= ByteBits => Power[k] \in Nat /\ Power[k] > 0}
<1>10. 0 \in T
  BY <1>9
<1>11. ASSUME NEW k \in Nat, k \in T  PROVE k + 1 \in T
  <2>1. k + 1 <= ByteBits => k + 1 \in 1 .. ByteBits /\ (k + 1) - 1 = k
    BY <1>1
  <2>2. k + 1 <= ByteBits => Power[k + 1] = 2 * Power[k]
    BY <1>9, <2>1
  <2> QED BY <1>1, <1>11, <2>2
<1> HIDE DEF T
<1>12. \A k \in Nat : k \in T
  BY <1>10, <1>11, AllNumbers
<1> QED BY <1>1, <1>9, <1>12 DEF T

LEMMA NumberIs ==
    ASSUME NEW v, Len(v) \in Nat, \A i \in 1 .. Len(v) : v[i] \in {0, 1},
           NEW from \in 1 .. (Len(v) + 1)
    PROVE  /\ Number(v, from, from - 1) = 0
           /\ \A to \in from .. Len(v) : Number(v, from, to) = 2 * Number(v, from, to - 1) + v[to]
           /\ \A to \in (from - 1) .. Len(v) : Number(v, from, to) \in Nat
<1>1. PICK low \in Int, n \in Nat : low = from - 1 /\ low + n = Len(v)
  <2>1. /\ from - 1 \in Int /\ Len(v) - (from - 1) \in Nat
        /\ (from - 1) + (Len(v) - (from - 1)) = Len(v)
    OBVIOUS
  <2> QED BY <2>1
<1> DEFINE N == CHOOSE N : N = [i \in (from - 1) .. Len(v) |->
                                  IF i < from THEN 0 ELSE 2 * N[i - 1] + v[i]]
<1>2. \A to : Number(v, from, to) = N[to]
  BY DEF Number
<1>3. PICK g : Doubles(g, low, n, 0, v)
  BY <1>1, DoublesDefined
<1>4. g = [i \in low .. (low + n) |-> IF i = low THEN 0 ELSE 2 * g[i - 1] + v[i]]
  BY <1>3 DEF Doubles
<1>5. \A i \in (from - 1) .. Len(v) : (i = low) = (i < from)
  BY <1>1
<1>6. g = [i \in (from - 1) .. Len(v) |-> IF i < from THEN 0 ELSE 2 * g[i - 1] + v[i]]
  BY <1>1, <1>4, <1>5
<1>7. N = [i \in (from - 1) .. Len(v) |-> IF i < from THEN 0 ELSE 2 * N[i - 1] + v[i]]
  BY <1>6
<1> HIDE DEF N
<1>8. Doubles(N, low, n, 0, v)
  BY <1>1, <1>5, <1>7 DEF Doubles
<1>9. \A i \in (low + 1) .. (low + n) : v[i] \in Nat
  BY <1>1
<1>10. \A i \in low .. (low + n) : N[i] \in Nat
  BY <1>8, <1>9, DoublesNat
<1>11. \A i \in low .. (low + n) : N[i] = IF i < from THEN 0 ELSE 2 * N[i - 1] + v[i]
  BY <1>1, <1>7
<1>12. Number(v, from, from - 1) = 0
  BY <1>1, <1>2, <1>11
<1>13. ASSUME NEW to \in from .. Len(v)
       PROVE  Number(v, from, to) = 2 * Number(v, from, to - 1) + v[to]
  <2>1. to \in low .. (low + n) /\ ~(to < from)
    BY <1>1
  <2>2. N[to] = 2 * N[to - 1] + v[to]
    BY <1>11, <2>1
  <2> QED BY <1>2, <2>2
<1>14. \A to \in (from - 1) .. Len(v) : Number(v, from, to) \in Nat
  BY <1>1, <1>2, <1>10
<1> QED BY <1>12, <1>13, <1>14

Bits == [1 .. (5 * ByteBits) -> {0, 1}]

LEMMA BitsAre ==
    /\ ByteBits \in Nat /\ ByteBits > 0
    /\ \A v \in Bits : /\ Len(v) = 5 * ByteBits /\ Len(v) \in Nat
                       /\ \A i \in 1 .. (5 * ByteBits) : v[i] \in {0, 1}
<1>1. ByteBits \in Nat /\ ByteBits > 0 /\ 5 * ByteBits \in Nat
  BY ConstantsAssumption
<1>2. ASSUME NEW v \in Bits
      PROVE  /\ Len(v) = 5 * ByteBits /\ Len(v) \in Nat
             /\ \A i \in 1 .. (5 * ByteBits) : v[i] \in {0, 1}
  <2>1. PICK n \in Nat : n = 5 * ByteBits
    BY <1>1
  <2>2. v \in [1 .. n -> {0, 1}]
    BY <2>1 DEF Bits
  <2>3. Len(v) = n /\ \A i \in 1 .. n : v[i] \in {0, 1}
    BY <2>2
  <2> QED BY <2>1, <2>3
<1> QED BY <1>1, <1>2

LEMMA NumberStep ==
    ASSUME NEW v \in Bits, NEW from \in 1 .. (5 * ByteBits + 1)
    PROVE  /\ Number(v, from, from - 1) = 0
           /\ \A to \in from .. (5 * ByteBits) :
                /\ Number(v, from, to) = 2 * Number(v, from, to - 1) + v[to]
                /\ v[to] \in {0, 1}
           /\ \A to \in (from - 1) .. (5 * ByteBits) : Number(v, from, to) \in Nat
BY BitsAre, NumberIs

\* A number of n bits.
LEMMA NumberBelow ==
    ASSUME NEW v \in Bits, NEW from \in 1 .. (5 * ByteBits + 1), NEW n \in 0 .. ByteBits,
           from + n <= 5 * ByteBits + 1
    PROVE  Number(v, from, from + n - 1) < Power[n]
<1> DEFINE T == {k \in Nat : k <= n => Number(v, from, from + k - 1) < Power[k]}
<1>1. n \in Nat /\ n <= ByteBits /\ ByteBits \in Nat /\ from \in Nat
  BY BitsAre
<1>2. 0 \in T
  <2>1. from + 0 - 1 = from - 1
    OBVIOUS
  <2>2. Number(v, from, from + 0 - 1) = 0 /\ Power[0] = 1
    BY <2>1, NumberStep, PowerIs
  <2> QED BY <2>2
<1>3. ASSUME NEW k \in Nat, k \in T  PROVE k + 1 \in T
  <2> SUFFICES ASSUME k + 1 <= n
               PROVE  Number(v, from, from + (k + 1) - 1) < Power[k + 1]
    OBVIOUS
  <2>1. PICK to \in Nat : to = from + k
    BY <1>1
  <2>2. /\ to \in from .. (5 * ByteBits) /\ from + (k + 1) - 1 = to /\ from + k - 1 = to - 1
        /\ k + 1 \in 1 .. ByteBits /\ k \in 0 .. ByteBits /\ (k + 1) - 1 = k
        /\ to - 1 \in (from - 1) .. (5 * ByteBits)
    BY <1>1, <2>1
  <2>3. /\ Number(v, from, to) = 2 * Number(v, from, to - 1) + v[to] /\ v[to] \in {0, 1}
        /\ Number(v, from, to - 1) \in Nat
    BY <2>2, NumberStep
  <2>4. Number(v, from, to - 1) < Power[k]
    BY <1>1, <1>3, <2>2
  <2>5. Power[k + 1] = 2 * Power[k] /\ Power[k] \in Nat
    BY <2>2, PowerIs
  <2> QED BY <2>2, <2>3, <2>4, <2>5
<1> HIDE DEF T
<1>4. \A k \in Nat : k \in T
  BY <1>2, <1>3, AllNumbers
<1> QED BY <1>1, <1>4 DEF T

LEMMA NumberAgrees ==
    ASSUME NEW v \in Bits, NEW w \in Bits, NEW from \in 1 .. (5 * ByteBits + 1),
           NEW to \in (from - 1) .. (5 * ByteBits), \A i \in from .. to : v[i] = w[i]
    PROVE  Number(v, from, to) = Number(w, from, to)
<1> DEFINE T == {k \in Nat : from - 1 + k <= to =>
                               Number(v, from, from - 1 + k) = Number(w, from, from - 1 + k)}
<1>1. ByteBits \in Nat /\ from \in Nat /\ from > 0 /\ to \in Int
  BY BitsAre
<1>2. 0 \in T
  <2>1. from - 1 + 0 = from - 1
    OBVIOUS
  <2>2. Number(v, from, from - 1 + 0) = Number(w, from, from - 1 + 0)
    BY <2>1, NumberStep
  <2> QED BY <2>2
<1>3. ASSUME NEW k \in Nat, k \in T  PROVE k + 1 \in T
  <2> SUFFICES ASSUME from - 1 + (k + 1) <= to
               PROVE  Number(v, from, from - 1 + (k + 1)) = Number(w, from, from - 1 + (k + 1))
    OBVIOUS
  <2>1. PICK i \in Nat : i = from + k
    BY <1>1
  <2>2. /\ i \in from .. (5 * ByteBits) /\ i \in from .. to
        /\ from - 1 + (k + 1) = i /\ from - 1 + k = i - 1 /\ from - 1 + k <= to
    BY <1>1, <2>1
  <2>3. /\ Number(v, from, i) = 2 * Number(v, from, i - 1) + v[i]
        /\ Number(w, from, i) = 2 * Number(w, from, i - 1) + w[i]
    BY <2>2, NumberStep
  <2>4. v[i] = w[i] /\ Number(v, from, i - 1) = Number(w, from, i - 1)
    BY <1>3, <2>2
  <2> QED BY <2>2, <2>3, <2>4
<1> HIDE DEF T
<1>4. \A k \in Nat : k \in T
  BY <1>2, <1>3, AllNumbers
<1>5. PICK k \in Nat : from - 1 + k = to
  <2>1. to - (from - 1) \in Nat /\ from - 1 + (to - (from - 1)) = to
    BY <1>1
  <2> QED BY <2>1
<1>6. k \in T
  BY <1>4
<1>7. from - 1 + k <= to
  BY <1>1, <1>5
<1> QED BY <1>5, <1>6, <1>7 DEF T

LEMMA Shifted ==
    ASSUME NEW a \in Int, NEW p \in Int, NEW b \in Int, NEW c \in Int
    PROVE  2 * (a * p + b) + c = a * (2 * p) + (2 * b + c)
OBVIOUS

\* The upper bits and the lower ones.
LEMMA NumberSplits ==
    ASSUME NEW v \in Bits, NEW from \in 1 .. (5 * ByteBits + 1),
           NEW mid \in (from - 1) .. (5 * ByteBits), NEW n \in 0 .. ByteBits,
           mid + n <= 5 * ByteBits
    PROVE  Number(v, from, mid + n) = Number(v, from, mid) * Power[n] + Number(v, mid + 1, mid + n)
<1> DEFINE Splits(k) ==
        Number(v, from, mid + k) = Number(v, from, mid) * Power[k] + Number(v, mid + 1, mid + k)
           T == {k \in Nat : k <= n => Splits(k)}
<1>1. /\ ByteBits \in Nat /\ from \in Nat /\ from > 0 /\ mid \in Nat /\ mid + 1 > 0
      /\ n \in Nat /\ n <= ByteBits
  BY BitsAre
<1>2. PICK a \in Nat : a = Number(v, from, mid)
  BY <1>1, NumberStep
<1>3. 0 \in T
  <2>1. mid + 0 = mid /\ mid + 1 - 1 = mid /\ mid + 1 \in 1 .. (5 * ByteBits + 1)
    BY <1>1
  <2>2. Number(v, mid + 1, mid + 1 - 1) = 0 /\ Power[0] = 1
    BY <2>1, NumberStep, PowerIs
  <2>3. Splits(0)
    BY <1>2, <2>1, <2>2
  <2> QED BY <2>3
<1>4. ASSUME NEW k \in Nat, k \in T  PROVE k + 1 \in T
  <2> SUFFICES ASSUME k + 1 <= n  PROVE Splits(k + 1)
    OBVIOUS
  <2>1. PICK to \in Nat : to = mid + (k + 1)
    BY <1>1
  <2>2. /\ to \in from .. (5 * ByteBits) /\ to \in (mid + 1) .. (5 * ByteBits)
        /\ to - 1 = mid + k /\ mid + 1 \in 1 .. (5 * ByteBits + 1)
        /\ k + 1 \in 1 .. ByteBits /\ (k + 1) - 1 = k /\ k \in 0 .. ByteBits /\ k <= n
        /\ to - 1 \in ((mid + 1) - 1) .. (5 * ByteBits)
    BY <1>1, <2>1
  <2>3. /\ Number(v, from, to) = 2 * Number(v, from, to - 1) + v[to] /\ v[to] \in {0, 1}
        /\ Number(v, mid + 1, to) = 2 * Number(v, mid + 1, to - 1) + v[to]
    BY <2>2, NumberStep
  <2>4. PICK b \in Nat : b = Number(v, mid + 1, to - 1)
    BY <2>2, NumberStep
  <2>5. PICK p \in Nat : p = Power[k] /\ Power[k + 1] = 2 * p
    BY <2>2, PowerIs
  <2>6. Number(v, from, to - 1) = a * p + b
    BY <1>2, <1>4, <2>2, <2>4, <2>5
  <2>7. Number(v, from, to) = a * (2 * p) + (2 * b + v[to])
    BY <2>3, <2>6, Shifted
  <2>8. Number(v, from, to) = a * Power[k + 1] + Number(v, mid + 1, to)
    BY <2>3, <2>4, <2>5, <2>7
  <2> QED BY <1>2, <2>1, <2>8
<1> HIDE DEF T
<1>5. \A k \in Nat : k \in T
  BY <1>3, <1>4, AllNumbers
<1> QED BY <1>1, <1>5 DEF T

\* A bit that is 1 and not 0 adds its power.
LEMMA NumberRaised ==
    ASSUME NEW v \in Bits, NEW w \in Bits, NEW from \in 1 .. (5 * ByteBits),
           NEW p \in from .. (5 * ByteBits), NEW n \in 0 .. ByteBits, p + n <= 5 * ByteBits,
           v[p] = 0, w[p] = 1, \A i \in from .. (p + n) : i # p => v[i] = w[i]
    PROVE  Number(w, from, p + n) = Number(v, from, p + n) + Power[n]
<1> DEFINE T == {k \in Nat : k <= n => Number(w, from, p + k) = Number(v, from, p + k) + Power[k]}
<1>1. /\ ByteBits \in Nat /\ from \in Nat /\ from > 0 /\ p \in Nat /\ n \in Nat
      /\ n <= ByteBits /\ from \in 1 .. (5 * ByteBits + 1)
  BY BitsAre
<1>2. 0 \in T
  <2>1. p - 1 \in (from - 1) .. (5 * ByteBits) /\ p + 0 = p
    BY <1>1
  <2>2. \A i \in from .. (p - 1) : v[i] = w[i]
    BY <1>1
  <2>3. Number(v, from, p - 1) = Number(w, from, p - 1)
    BY <1>1, <2>1, <2>2, NumberAgrees
  <2>4. /\ Number(v, from, p) = 2 * Number(v, from, p - 1) + 0
        /\ Number(w, from, p) = 2 * Number(w, from, p - 1) + 1
        /\ Number(v, from, p - 1) \in Nat
    BY <1>1, <2>1, NumberStep
  <2>5. Number(w, from, p) = Number(v, from, p) + Power[0]
    BY <2>3, <2>4, PowerIs
  <2> QED BY <2>1, <2>5
<1>3. ASSUME NEW k \in Nat, k \in T  PROVE k + 1 \in T
  <2> SUFFICES ASSUME k + 1 <= n
               PROVE  Number(w, from, p + (k + 1)) = Number(v, from, p + (k + 1)) + Power[k + 1]
    OBVIOUS
  <2>1. PICK i \in Nat : i = p + (k + 1)
    BY <1>1
  <2>2. /\ i \in from .. (5 * ByteBits) /\ i - 1 = p + k /\ i # p /\ i \in from .. (p + n)
        /\ k + 1 \in 1 .. ByteBits /\ (k + 1) - 1 = k /\ k \in 0 .. ByteBits /\ k <= n
        /\ i - 1 \in (from - 1) .. (5 * ByteBits)
    BY <1>1, <2>1
  <2>3. /\ Number(v, from, i) = 2 * Number(v, from, i - 1) + v[i]
        /\ Number(w, from, i) = 2 * Number(w, from, i - 1) + w[i]
        /\ v[i] \in {0, 1} /\ Number(v, from, i - 1) \in Nat
    BY <1>1, <2>2, NumberStep
  <2>4. v[i] = w[i]
    BY <2>2
  <2>5. Number(w, from, i - 1) = Number(v, from, i - 1) + Power[k]
    BY <1>3, <2>2
  <2>6. Power[k + 1] = 2 * Power[k] /\ Power[k] \in Nat
    BY <2>2, PowerIs
  <2>7. Number(w, from, i) = Number(v, from, i) + Power[k + 1]
    BY <2>3, <2>5, <2>6, <2>4
  <2> QED BY <2>1, <2>7
<1> HIDE DEF T
<1>4. \A k \in Nat : k \in T
  BY <1>2, <1>3, AllNumbers
<1> QED BY <1>1, <1>4 DEF T

-----------------------------------------------------------------------------
(* Whose edges are on their way                                            *)

\* A falling edge of no reply, as that of a pull; and what comes after a message: such
\* an edge, or a rising one if that edge was missed.
IsPull(e) == e.level = 0 /\ e.of = None
Breaks(e) == IsPull(e) \/ (e.level = 1 /\ ~e.seen)

\* After timeouts at most, a message ends, or the queue does unless the next call's pull
\* was notified already (t is where trigger is).
Ends(q, k, t) ==
    \E m \in k .. (Len(q) + 1) :
        /\ \A j \in k .. (m - 1) : q[j].level = 2
        /\ IF m <= Len(q) THEN Breaks(q[m]) ELSE t \notin {"pulled", "wrapped"}

\* After timeouts at most, another pull or rising edge comes, or nothing.
Starts(q, k) ==
    \E m \in k .. (Len(q) + 1) :
        /\ \A j \in k .. (m - 1) : q[j].level = 2
        /\ m <= Len(q) => IsPull(q[m]) \/ q[m].level = 1

\* From k on: what of the pulses ps has not been handled, n have.
Coming(q, k, ps, n, of, l, t) ==
    /\ k - 1 + (Len(ps) - n) <= Len(q)
    /\ \A j \in 1 .. (Len(ps) - n) : q[k - 1 + j] = Fall(ps[n + j], of, l)
    /\ Ends(q, k + (Len(ps) - n), t)

\* What follows the rising edge at i.
Announced(q, i, t) ==
    \/ Starts(q, i + 1)
    \/ \E of \in Replies, l \in Nat : \E ps \in Arrived(of, l) :
            Coming(q, i + 1, ps, 0, of, l, t)

QueueRight(q, t) == \A i \in 1 .. Len(q) : q[i].level = 1 => Announced(q, i, t)

\* r is q without its first notification.
Shifts(q, r) ==
    /\ Len(q) \in Nat /\ Len(r) \in Nat /\ Len(q) = Len(r) + 1
    /\ \A i \in 1 .. Len(r) : r[i] = q[i + 1]

LEMMA TailShifts ==
    ASSUME NEW q \in Seq(Notes), q # <<>>
    PROVE  Shifts(q, Tail(q))
<1>1. /\ Len(q) \in Nat /\ Tail(q) \in Seq(Notes) /\ Len(Tail(q)) \in Nat
      /\ Len(Tail(q)) = Len(q) - 1
      /\ \A i \in 1 .. (Len(q) - 1) : Tail(q)[i] = q[i + 1]
  BY Handled
<1> QED BY <1>1 DEF Shifts

LEMMA StartsShift ==
    ASSUME NEW q, NEW r, Shifts(q, r), NEW k \in Nat \ {0}, Starts(q, k + 1)
    PROVE  Starts(r, k)
<1>1. /\ Len(q) \in Nat /\ Len(r) \in Nat /\ Len(q) = Len(r) + 1
      /\ \A i \in 1 .. Len(r) : r[i] = q[i + 1]
  BY DEF Shifts
<1>2. PICK m \in (k + 1) .. (Len(q) + 1) :
        /\ \A j \in (k + 1) .. (m - 1) : q[j].level = 2
        /\ m <= Len(q) => IsPull(q[m]) \/ q[m].level = 1
  BY DEF Starts
<1>3. m - 1 \in k .. (Len(r) + 1) /\ (m - 1) + 1 = m
  BY <1>1
<1>4. ASSUME NEW j \in k .. ((m - 1) - 1)  PROVE r[j].level = 2
  <2>1. j + 1 \in (k + 1) .. (m - 1) /\ j \in 1 .. Len(r)
    BY <1>1
  <2> QED BY <1>1, <1>2, <2>1
<1>5. m - 1 <= Len(r) => m - 1 \in 1 .. Len(r) /\ m <= Len(q)
  BY <1>1
<1>6. m - 1 <= Len(r) => IsPull(r[m - 1]) \/ r[m - 1].level = 1
  BY <1>1, <1>2, <1>3, <1>5
<1> QED BY <1>3, <1>4, <1>6 DEF Starts

LEMMA EndsShift ==
    ASSUME NEW q, NEW r, Shifts(q, r), NEW k \in Nat \ {0}, NEW t, Ends(q, k + 1, t)
    PROVE  Ends(r, k, t)
<1>1. /\ Len(q) \in Nat /\ Len(r) \in Nat /\ Len(q) = Len(r) + 1
      /\ \A i \in 1 .. Len(r) : r[i] = q[i + 1]
  BY DEF Shifts
<1>2. PICK m \in (k + 1) .. (Len(q) + 1) :
        /\ \A j \in (k + 1) .. (m - 1) : q[j].level = 2
        /\ IF m <= Len(q) THEN Breaks(q[m]) ELSE t \notin {"pulled", "wrapped"}
  BY DEF Ends
<1>3. m - 1 \in k .. (Len(r) + 1) /\ (m - 1) + 1 = m
  BY <1>1
<1>4. ASSUME NEW j \in k .. ((m - 1) - 1)  PROVE r[j].level = 2
  <2>1. j + 1 \in (k + 1) .. (m - 1) /\ j \in 1 .. Len(r)
    BY <1>1
  <2> QED BY <1>1, <1>2, <2>1
<1>5. (m - 1 <= Len(r)) = (m <= Len(q)) /\ (m - 1 <= Len(r) => m - 1 \in 1 .. Len(r))
  BY <1>1
<1>6. IF m - 1 <= Len(r) THEN Breaks(r[m - 1]) ELSE t \notin {"pulled", "wrapped"}
  BY <1>1, <1>2, <1>3, <1>5
<1> QED BY <1>3, <1>4, <1>6 DEF Ends

\* A timeout is all that lies between.
LEMMA StartsLater ==
    ASSUME NEW q, Len(q) \in Nat, NEW k \in 1 .. Len(q), Starts(q, k), q[k].level = 2
    PROVE  Starts(q, k + 1)
<1>1. PICK m \in k .. (Len(q) + 1) :
        /\ \A j \in k .. (m - 1) : q[j].level = 2
        /\ m <= Len(q) => IsPull(q[m]) \/ q[m].level = 1
  BY DEF Starts
<1>2. m # k
  BY <1>1 DEF IsPull, Breaks
<1>3. m \in (k + 1) .. (Len(q) + 1)
  BY <1>2
<1> QED BY <1>1, <1>3 DEF Starts

LEMMA EndsLater ==
    ASSUME NEW q, Len(q) \in Nat, NEW k \in 1 .. Len(q), NEW t, Ends(q, k, t), q[k].level = 2
    PROVE  Ends(q, k + 1, t)
<1>1. PICK m \in k .. (Len(q) + 1) :
        /\ \A j \in k .. (m - 1) : q[j].level = 2
        /\ IF m <= Len(q) THEN Breaks(q[m]) ELSE t \notin {"pulled", "wrapped"}
  BY DEF Ends
<1>2. m # k
  BY <1>1 DEF IsPull, Breaks
<1>3. m \in (k + 1) .. (Len(q) + 1)
  BY <1>2
<1> QED BY <1>1, <1>3 DEF Ends

\* What follows the timeouts is a falling edge only if it is one of no reply.
LEMMA StartsWith ==
    ASSUME NEW q, Len(q) \in Nat, NEW k \in 1 .. Len(q), Starts(q, k), q[k].level = 0
    PROVE  IsPull(q[k])
BY DEF Starts, IsPull

LEMMA EndsWith ==
    ASSUME NEW q, Len(q) \in Nat, NEW k \in 1 .. Len(q), NEW t, Ends(q, k, t), q[k].level # 2
    PROVE  Breaks(q[k])
BY DEF Ends

LEMMA ComingShift ==
    ASSUME NEW q, NEW r, Shifts(q, r), NEW k \in Nat \ {0}, NEW ps \in Seq(Widths),
           NEW n \in 0 .. Len(ps), NEW of, NEW l, NEW t, Coming(q, k + 1, ps, n, of, l, t)
    PROVE  Coming(r, k, ps, n, of, l, t)
<1>1. /\ Len(q) \in Nat /\ Len(r) \in Nat /\ Len(q) = Len(r) + 1
      /\ \A i \in 1 .. Len(r) : r[i] = q[i + 1]
  BY DEF Shifts
<1>2. PICK left \in Nat : left = Len(ps) - n
  OBVIOUS
<1>3. /\ k + left <= Len(q)
      /\ \A j \in 1 .. left : q[k + j] = Fall(ps[n + j], of, l)
      /\ Ends(q, (k + left) + 1, t)
  <2>1. k + 1 - 1 = k /\ k + 1 + left = (k + left) + 1
    OBVIOUS
  <2> QED BY <1>2, <2>1 DEF Coming
<1>4. Ends(r, k + left, t)
  BY <1>3, EndsShift
<1>5. k - 1 + left <= Len(r)
  BY <1>1, <1>3
<1>6. ASSUME NEW j \in 1 .. left  PROVE r[k - 1 + j] = Fall(ps[n + j], of, l)
  <2>1. k - 1 + j \in 1 .. Len(r) /\ (k - 1 + j) + 1 = k + j
    BY <1>5
  <2> QED BY <1>1, <1>3, <2>1
<1> QED BY <1>2, <1>4, <1>5, <1>6 DEF Coming

\* The first of the pulses that are left, and the others.
LEMMA ComingNext ==
    ASSUME NEW q, NEW r, Shifts(q, r), NEW ps \in Seq(Widths), NEW n \in 0 .. Len(ps),
           NEW of, NEW l, NEW t, Coming(q, 1, ps, n, of, l, t), n < Len(ps)
    PROVE  q[1] = Fall(ps[n + 1], of, l) /\ Coming(r, 1, ps, n + 1, of, l, t)
<1>1. /\ Len(q) \in Nat /\ Len(r) \in Nat /\ Len(q) = Len(r) + 1
      /\ \A i \in 1 .. Len(r) : r[i] = q[i + 1]
  BY DEF Shifts
<1>2. PICK left \in Nat : left = Len(ps) - (n + 1) /\ Len(ps) - n = left + 1
  <2>1. Len(ps) \in Nat /\ n \in Nat
    OBVIOUS
  <2>2. Len(ps) - (n + 1) \in Nat /\ Len(ps) - n = (Len(ps) - (n + 1)) + 1
    BY <2>1
  <2> QED BY <2>2
<1>3. /\ left + 1 <= Len(q)
      /\ \A j \in 1 .. (left + 1) : q[j] = Fall(ps[n + j], of, l)
      /\ Ends(q, (1 + left) + 1, t)
  <2>1. 1 - 1 + (left + 1) = left + 1 /\ 1 + (left + 1) = (1 + left) + 1
    OBVIOUS
  <2>2. \A j \in 1 .. (left + 1) : 1 - 1 + j = j
    OBVIOUS
  <2> QED BY <1>2, <2>1, <2>2 DEF Coming
<1>4. Ends(r, 1 + left, t)
  BY <1>3, EndsShift
<1>5. ASSUME NEW j \in 1 .. left  PROVE r[1 - 1 + j] = Fall(ps[(n + 1) + j], of, l)
  <2>1. 1 - 1 + j \in 1 .. Len(r) /\ 1 - 1 + j = j /\ j + 1 \in 1 .. (left + 1)
        /\ n + (j + 1) = (n + 1) + j
    BY <1>1, <1>3
  <2>2. r[j] = q[j + 1] /\ q[j + 1] = Fall(ps[n + (j + 1)], of, l)
    BY <1>1, <1>3, <2>1
  <2> QED BY <2>1, <2>2
<1>6. 1 - 1 + left <= Len(r)
  BY <1>1, <1>3
<1>7. q[1] = Fall(ps[n + 1], of, l)
  <2>1. 1 \in 1 .. (left + 1)
    OBVIOUS
  <2> QED BY <1>3, <2>1
<1> QED BY <1>2, <1>4, <1>5, <1>6, <1>7 DEF Coming

\* Nothing of the message is left.
LEMMA ComingDone ==
    ASSUME NEW q, Len(q) \in Nat, NEW ps \in Seq(Widths), NEW of, NEW l, NEW t,
           Coming(q, 1, ps, Len(ps), of, l, t)
    PROVE  Ends(q, 1, t)
<1>1. 1 + (Len(ps) - Len(ps)) = 1
  OBVIOUS
<1> QED BY <1>1 DEF Coming

LEMMA ComingLater ==
    ASSUME NEW q, NEW r, Shifts(q, r), NEW ps \in Seq(Widths), NEW n \in 0 .. Len(ps),
           NEW of, NEW l, NEW t, Coming(q, 1, ps, n, of, l, t), q[1].level = 2,
           \A w : Fall(w, of, l).level = 0
    PROVE  Coming(r, 1, ps, n, of, l, t)
<1>1. Len(q) \in Nat /\ Len(r) \in Nat /\ Len(q) = Len(r) + 1
  BY DEF Shifts
<1>2. n = Len(ps)
  BY ComingNext
<1>3. Ends(q, 1, t)
  BY <1>1, <1>2, ComingDone
<1>4. Ends(q, 1 + 1, t)
  BY <1>1, <1>3, EndsLater
<1>5. Ends(r, 1, t)
  BY <1>4, EndsShift
<1>6. /\ Len(ps) - n = 0 /\ 1 - 1 + (Len(ps) - n) <= Len(r) /\ 1 + (Len(ps) - n) = 1
      /\ 1 .. (Len(ps) - n) = {}
  BY <1>1, <1>2
<1> QED BY <1>5, <1>6 DEF Coming

LEMMA AnnouncedShift ==
    ASSUME NEW q, NEW r, Shifts(q, r), NEW i \in Nat \ {0}, NEW t, Announced(q, i + 1, t)
    PROVE  Announced(r, i, t)
<1>1. CASE Starts(q, i + 1 + 1)
  <2>1. Starts(r, i + 1)
    BY <1>1, StartsShift
  <2> QED BY <2>1 DEF Announced
<1>2. ASSUME NEW of \in Replies, NEW l \in Nat, NEW ps \in Arrived(of, l),
               Coming(q, i + 1 + 1, ps, 0, of, l, t)
      PROVE  Announced(r, i, t)
  <2>1. ps \in Seq(Widths) /\ 0 \in 0 .. Len(ps)
    BY DEF Arrived
  <2>2. Coming(r, i + 1, ps, 0, of, l, t)
    BY <1>2, <2>1, ComingShift
  <2> QED BY <2>2 DEF Announced
<1> QED BY <1>1, <1>2 DEF Announced

LEMMA QueueShift ==
    ASSUME NEW q, NEW r, Shifts(q, r), NEW t, QueueRight(q, t)
    PROVE  QueueRight(r, t)
<1>1. /\ Len(q) \in Nat /\ Len(r) \in Nat /\ Len(q) = Len(r) + 1
      /\ \A i \in 1 .. Len(r) : r[i] = q[i + 1]
  BY DEF Shifts
<1>2. ASSUME NEW i \in 1 .. Len(r), r[i].level = 1  PROVE Announced(r, i, t)
  <2>1. i + 1 \in 1 .. Len(q) /\ i \in Nat \ {0}
    BY <1>1
  <2>2. Announced(q, i + 1, t)
    BY <1>1, <1>2, <2>1 DEF QueueRight
  <2> QED BY <2>1, <2>2, AnnouncedShift
<1> QED BY <1>2 DEF QueueRight

\* r is q with more at its end, while trigger goes from t to u.
Grows(q, t, r, u) ==
    /\ Len(q) \in Nat /\ Len(r) \in Nat /\ Len(q) <= Len(r)
    /\ \A i \in 1 .. Len(q) : r[i] = q[i]
    /\ Starts(r, Len(q) + 1)
    /\ t \notin {"pulled", "wrapped"} => Ends(r, Len(q) + 1, u)

LEMMA StartsGrow ==
    ASSUME NEW q, NEW t, NEW r, NEW u, Grows(q, t, r, u), NEW k \in Nat \ {0}, Starts(q, k)
    PROVE  Starts(r, k)
<1>1. /\ Len(q) \in Nat /\ Len(r) \in Nat /\ Len(q) <= Len(r)
      /\ \A i \in 1 .. Len(q) : r[i] = q[i]
      /\ Starts(r, Len(q) + 1)
  BY DEF Grows
<1>2. PICK m \in k .. (Len(q) + 1) :
        /\ \A j \in k .. (m - 1) : q[j].level = 2
        /\ m <= Len(q) => IsPull(q[m]) \/ q[m].level = 1
  BY DEF Starts
<1>3. \A j \in k .. (m - 1) : r[j].level = 2
  BY <1>1, <1>2
<1>4. CASE m <= Len(q)
  <2>1. m \in k .. (Len(r) + 1) /\ r[m] = q[m]
    BY <1>1, <1>4
  <2> QED BY <1>2, <1>3, <1>4, <2>1 DEF Starts
<1>5. CASE m = Len(q) + 1
  <2>1. PICK e \in (Len(q) + 1) .. (Len(r) + 1) :
          /\ \A j \in (Len(q) + 1) .. (e - 1) : r[j].level = 2
          /\ e <= Len(r) => IsPull(r[e]) \/ r[e].level = 1
    BY <1>1 DEF Starts
  <2>2. e \in k .. (Len(r) + 1) /\ \A j \in k .. (e - 1) : j \in k .. (m - 1) \/ j \in (Len(q) + 1) .. (e - 1)
    BY <1>1, <1>5
  <2>3. \A j \in k .. (e - 1) : r[j].level = 2
    BY <1>3, <2>1, <2>2
  <2> QED BY <2>1, <2>2, <2>3 DEF Starts
<1> QED BY <1>1, <1>4, <1>5

LEMMA EndsGrow ==
    ASSUME NEW q, NEW t, NEW r, NEW u, Grows(q, t, r, u), NEW k \in Nat \ {0}, Ends(q, k, t)
    PROVE  Ends(r, k, u)
<1>1. /\ Len(q) \in Nat /\ Len(r) \in Nat /\ Len(q) <= Len(r)
      /\ \A i \in 1 .. Len(q) : r[i] = q[i]
      /\ t \notin {"pulled", "wrapped"} => Ends(r, Len(q) + 1, u)
  BY DEF Grows
<1>2. PICK m \in k .. (Len(q) + 1) :
        /\ \A j \in k .. (m - 1) : q[j].level = 2
        /\ IF m <= Len(q) THEN Breaks(q[m]) ELSE t \notin {"pulled", "wrapped"}
  BY DEF Ends
<1>3. \A j \in k .. (m - 1) : r[j].level = 2
  BY <1>1, <1>2
<1>4. CASE m <= Len(q)
  <2>1. m \in k .. (Len(r) + 1) /\ r[m] = q[m] /\ m <= Len(r)
    BY <1>1, <1>4
  <2> QED BY <1>2, <1>3, <1>4, <2>1 DEF Ends
<1>5. CASE m = Len(q) + 1
  <2>1. PICK e \in (Len(q) + 1) .. (Len(r) + 1) :
          /\ \A j \in (Len(q) + 1) .. (e - 1) : r[j].level = 2
          /\ IF e <= Len(r) THEN Breaks(r[e]) ELSE u \notin {"pulled", "wrapped"}
    BY <1>1, <1>2, <1>5 DEF Ends
  <2>2. e \in k .. (Len(r) + 1) /\ \A j \in k .. (e - 1) : j \in k .. (m - 1) \/ j \in (Len(q) + 1) .. (e - 1)
    BY <1>1, <1>5
  <2>3. \A j \in k .. (e - 1) : r[j].level = 2
    BY <1>3, <2>1, <2>2
  <2> QED BY <2>1, <2>2, <2>3 DEF Ends
<1> QED BY <1>1, <1>4, <1>5

LEMMA ComingGrow ==
    ASSUME NEW q, NEW t, NEW r, NEW u, Grows(q, t, r, u), NEW k \in Nat \ {0},
           NEW ps \in Seq(Widths), NEW n \in 0 .. Len(ps), NEW of, NEW l,
           Coming(q, k, ps, n, of, l, t)
    PROVE  Coming(r, k, ps, n, of, l, u)
<1>1. /\ Len(q) \in Nat /\ Len(r) \in Nat /\ Len(q) <= Len(r)
      /\ \A i \in 1 .. Len(q) : r[i] = q[i]
  BY DEF Grows
<1>2. PICK left \in Nat : left = Len(ps) - n
  OBVIOUS
<1>3. /\ k - 1 + left <= Len(q)
      /\ \A j \in 1 .. left : q[k - 1 + j] = Fall(ps[n + j], of, l)
      /\ Ends(q, k + left, t)
  BY <1>2 DEF Coming
<1>4. Ends(r, k + left, u)
  BY <1>3, EndsGrow
<1>5. k - 1 + left <= Len(r) /\ \A j \in 1 .. left : k - 1 + j \in 1 .. Len(q)
  BY <1>1, <1>3
<1>6. \A j \in 1 .. left : r[k - 1 + j] = Fall(ps[n + j], of, l)
  BY <1>1, <1>3, <1>5
<1> QED BY <1>2, <1>4, <1>5, <1>6 DEF Coming

LEMMA QueueGrow ==
    ASSUME NEW q, NEW t, NEW r, NEW u, Grows(q, t, r, u), QueueRight(q, t),
           \A i \in (Len(q) + 1) .. Len(r) : r[i].level = 1 => Announced(r, i, u)
    PROVE  QueueRight(r, u)
<1>1. /\ Len(q) \in Nat /\ Len(r) \in Nat /\ Len(q) <= Len(r)
      /\ \A i \in 1 .. Len(q) : r[i] = q[i]
  BY DEF Grows
<1>2. ASSUME NEW i \in 1 .. Len(q), r[i].level = 1  PROVE Announced(r, i, u)
  <2>1. Announced(q, i, t) /\ i + 1 \in Nat \ {0}
    BY <1>1, <1>2 DEF QueueRight
  <2>2. CASE Starts(q, i + 1)
    <3>1. Starts(r, i + 1)
      BY <2>1, <2>2, StartsGrow
    <3> QED BY <3>1 DEF Announced
  <2>3. ASSUME NEW of \in Replies, NEW l \in Nat, NEW ps \in Arrived(of, l),
               Coming(q, i + 1, ps, 0, of, l, t)
        PROVE  Announced(r, i, u)
    <3>1. ps \in Seq(Widths) /\ 0 \in 0 .. Len(ps)
      BY DEF Arrived
    <3>2. Coming(r, i + 1, ps, 0, of, l, u)
      BY <2>1, <2>3, <3>1, ComingGrow
    <3> QED BY <3>2 DEF Announced
  <2> QED BY <2>1, <2>2, <2>3 DEF Announced
<1>3. \A i \in 1 .. Len(r) : i \in 1 .. Len(q) \/ i \in (Len(q) + 1) .. Len(r)
  BY <1>1
<1> QED BY <1>2, <1>3 DEF QueueRight

-----------------------------------------------------------------------------
(* What has been read of a message                                         *)

\* The bits that the pulses stand for, after the two that are the sensor's own.
Got(ps) == [j \in 1 .. (5 * ByteBits) |-> IF j + 2 <= Len(ps) THEN Value(ps[j + 2]) ELSE 0]

\* Byte b of the first k bits of v, and whether a and c are what they make.
Filled(b, k) ==
    IF k < b * ByteBits THEN b * ByteBits
    ELSE IF k < (b + 1) * ByteBits THEN k ELSE (b + 1) * ByteBits
Sum(v, b, k) == Number(v, b * ByteBits + 1, Filled(b, k))
Holds(a, c, v, k) == a = [b \in 0 .. 3 |-> Sum(v, b, k)] /\ c = Sum(v, 4, k)

LEMMA GotBits ==
    ASSUME NEW ps \in Seq(Widths)
    PROVE  /\ Got(ps) \in Bits
           /\ \A j \in 1 .. (5 * ByteBits) : j + 2 <= Len(ps) => Got(ps)[j] = Value(ps[j + 2])
BY DEF Got, Bits, Value

\* Where byte b lies.
LEMMA Places ==
    ASSUME NEW b \in 0 .. 4
    PROVE  /\ b * ByteBits \in Nat /\ (b + 1) * ByteBits = b * ByteBits + ByteBits
           /\ b * ByteBits + ByteBits <= 5 * ByteBits
<1>1. ByteBits \in Nat
  BY BitsAre
<1>2. CASE b = 0
  BY <1>1, <1>2
<1>3. CASE b = 1
  BY <1>1, <1>3
<1>4. CASE b = 2
  BY <1>1, <1>4
<1>5. CASE b = 3
  BY <1>1, <1>5
<1>6. CASE b = 4
  BY <1>1, <1>6
<1> QED BY <1>2, <1>3, <1>4, <1>5, <1>6

LEMMA SumIs ==
    ASSUME NEW v \in Bits, NEW b \in 0 .. 4, NEW k \in (-2) .. (5 * ByteBits)
    PROVE  /\ k <= 0 => Sum(v, b, k) = 0
           /\ Sum(v, b, k) \in Nat
           /\ k >= (b + 1) * ByteBits => Sum(v, b, k) = Byte(v, b + 1)
<1>1. PICK low \in Nat : /\ low = b * ByteBits /\ (b + 1) * ByteBits = low + ByteBits
                         /\ low + ByteBits <= 5 * ByteBits
  BY Places
<1>2. /\ ByteBits \in Nat /\ ByteBits > 0 /\ low + 1 \in 1 .. (5 * ByteBits + 1)
      /\ (low + 1) - 1 = low
  BY <1>1, BitsAre
<1>3. PICK f : f = Filled(b, k)
  OBVIOUS
<1>4. f = IF k < low THEN low ELSE IF k < low + ByteBits THEN k ELSE low + ByteBits
  BY <1>1, <1>3 DEF Filled
<1>5. Sum(v, b, k) = Number(v, low + 1, f)
  BY <1>1, <1>3 DEF Sum
<1>6. f \in ((low + 1) - 1) .. (5 * ByteBits)
  BY <1>1, <1>2, <1>4
<1>7. Sum(v, b, k) \in Nat
  BY <1>2, <1>5, <1>6, NumberStep
<1>8. k <= 0 => f = (low + 1) - 1
  BY <1>1, <1>2, <1>4
<1>9. k <= 0 => Sum(v, b, k) = 0
  BY <1>2, <1>5, <1>8, NumberStep
<1>10. ASSUME k >= (b + 1) * ByteBits  PROVE Sum(v, b, k) = Byte(v, b + 1)
  <2>1. f = (b + 1) * ByteBits
    BY <1>1, <1>2, <1>4, <1>10
  <2>2. ((b + 1) - 1) * ByteBits + 1 = low + 1
    BY <1>1
  <2> QED BY <1>5, <2>1, <2>2 DEF Byte
<1> QED BY <1>7, <1>9, <1>10

LEMMA SumNext ==
    ASSUME NEW v \in Bits, NEW b \in 0 .. 4, NEW k \in (-2) .. (5 * ByteBits - 1)
    PROVE  Sum(v, b, k + 1) = IF b * ByteBits <= k /\ k < (b + 1) * ByteBits
                              THEN 2 * Sum(v, b, k) + v[k + 1] ELSE Sum(v, b, k)
<1>1. PICK low \in Nat : /\ low = b * ByteBits /\ (b + 1) * ByteBits = low + ByteBits
                         /\ low + ByteBits <= 5 * ByteBits
  BY Places
<1>2. /\ ByteBits \in Nat /\ ByteBits > 0 /\ low + 1 \in 1 .. (5 * ByteBits + 1)
      /\ (low + 1) - 1 = low
  BY <1>1, BitsAre
<1>3. PICK f, g : f = Filled(b, k) /\ g = Filled(b, k + 1)
  OBVIOUS
<1>4. /\ f = IF k < low THEN low ELSE IF k < low + ByteBits THEN k ELSE low + ByteBits
      /\ g = IF k + 1 < low THEN low ELSE IF k + 1 < low + ByteBits THEN k + 1 ELSE low + ByteBits
  BY <1>1, <1>3 DEF Filled
<1>5. Sum(v, b, k) = Number(v, low + 1, f) /\ Sum(v, b, k + 1) = Number(v, low + 1, g)
  BY <1>1, <1>3 DEF Sum
<1>6. CASE low <= k /\ k < low + ByteBits
  <2>1. f = k /\ g = k + 1 /\ (k + 1) - 1 = k /\ k + 1 \in (low + 1) .. (5 * ByteBits)
    BY <1>1, <1>2, <1>4, <1>6
  <2>2. Number(v, low + 1, k + 1) = 2 * Number(v, low + 1, k) + v[k + 1]
    BY <1>2, <2>1, NumberStep
  <2> QED BY <1>1, <1>5, <1>6, <2>1, <2>2
<1>7. CASE ~(low <= k /\ k < low + ByteBits)
  <2>1. f = g
    BY <1>1, <1>2, <1>4, <1>7
  <2> QED BY <1>1, <1>5, <1>7, <2>1
<1> QED BY <1>6, <1>7

\* Before the data.
LEMMA HoldsNone ==
    ASSUME NEW v \in Bits, NEW a, NEW c, NEW k \in (-2) .. 0
    PROVE  Holds(a, c, v, k) <=> a = [b \in 0 .. 3 |-> 0] /\ c = 0
<1>1. k \in (-2) .. (5 * ByteBits) /\ k <= 0
  BY BitsAre
<1>2. \A b \in 0 .. 4 : Sum(v, b, k) = 0
  BY <1>1, SumIs
<1>3. [b \in 0 .. 3 |-> Sum(v, b, k)] = [b \in 0 .. 3 |-> 0]
  BY <1>2
<1> QED BY <1>2, <1>3 DEF Holds

\* The byte that a bit of the data belongs to.
LEMMA ByteOf ==
    ASSUME NEW k \in 0 .. (4 * ByteBits - 1)
    PROVE  /\ k \div ByteBits \in 0 .. 3
           /\ k = ByteBits * (k \div ByteBits) + (k % ByteBits)
           /\ k % ByteBits \in 0 .. (ByteBits - 1)
<1>1. ByteBits \in Nat \ {0} /\ k \in Nat
  BY BitsAre
<1>2. /\ k = ByteBits * (k \div ByteBits) + (k % ByteBits)
      /\ k % ByteBits \in 0 .. (ByteBits - 1) /\ k \div ByteBits \in Nat
  BY <1>1, DivMod
<1>3. PICK d \in Nat, x \in 0 .. (ByteBits - 1) : d = k \div ByteBits /\ k = ByteBits * d + x
  BY <1>2
<1>4. CASE d >= 4
  <2>1. ByteBits * d >= ByteBits * 4
    BY <1>1, <1>3, <1>4
  <2> QED BY <1>1, <1>3, <2>1
<1> QED BY <1>2, <1>3, <1>4

\* A bit of the data.
LEMMA HoldsData ==
    ASSUME NEW v \in Bits, NEW k \in 0 .. (4 * ByteBits - 1), NEW a, NEW c, Holds(a, c, v, k),
           NEW x, x = [a EXCEPT ![k \div ByteBits] = 2 * a[k \div ByteBits] + v[k + 1]]
    PROVE  Holds(x, c, v, k + 1)
<1>1. ByteBits \in Nat /\ ByteBits > 0 /\ k \in Nat /\ k \in (-2) .. (5 * ByteBits - 1)
  BY BitsAre
<1>2. PICK d : d = k \div ByteBits
  OBVIOUS
<1>3. d \in 0 .. 3 /\ k = ByteBits * d + (k % ByteBits) /\ k % ByteBits \in 0 .. (ByteBits - 1)
  BY <1>2, ByteOf
<1>4. d \in 0 .. 3
  BY <1>3
<1>5. ASSUME NEW b \in 0 .. 4
      PROVE  (b * ByteBits <= k /\ k < (b + 1) * ByteBits) <=> b = d
  <2>1. d * ByteBits <= k /\ k < d * ByteBits + ByteBits /\ (d + 1) * ByteBits = d * ByteBits + ByteBits
    BY <1>1, <1>3, <1>4, Places
  <2>2. CASE b < d
    <3>1. (b + 1) * ByteBits <= d * ByteBits
      BY <1>1, <1>4, <2>2
    <3> QED BY <1>1, <1>4, <2>1, <2>2, <3>1
  <2>3. CASE b > d
    <3>1. (d + 1) * ByteBits <= b * ByteBits
      BY <1>1, <1>4, <2>3
    <3> QED BY <1>1, <1>4, <2>1, <2>3, <3>1
  <2>4. CASE b = d
    BY <2>1, <2>4
  <2> QED BY <1>4, <2>2, <2>3, <2>4
<1>6. \A b \in 0 .. 4 : Sum(v, b, k + 1) = IF b = d THEN 2 * Sum(v, b, k) + v[k + 1] ELSE Sum(v, b, k)
  BY <1>1, <1>5, SumNext
<1>7. a = [b \in 0 .. 3 |-> Sum(v, b, k)] /\ c = Sum(v, 4, k)
  BY DEF Holds
<1>8. x = [b \in 0 .. 3 |-> IF b = d THEN 2 * a[d] + v[k + 1] ELSE a[b]]
  BY <1>2, <1>7
<1>9. \A b \in 0 .. 3 : x[b] = Sum(v, b, k + 1)
  BY <1>6, <1>7, <1>8
<1>10. x = [b \in 0 .. 3 |-> Sum(v, b, k + 1)]
  BY <1>8, <1>9
<1>11. c = Sum(v, 4, k + 1)
  BY <1>4, <1>6, <1>7
<1> QED BY <1>10, <1>11 DEF Holds

\* A bit of the checksum.
LEMMA HoldsChecksum ==
    ASSUME NEW v \in Bits, NEW k \in (4 * ByteBits) .. (5 * ByteBits - 1), NEW a, NEW c,
           Holds(a, c, v, k)
    PROVE  Holds(a, 2 * c + v[k + 1], v, k + 1)
<1>1. ByteBits \in Nat /\ ByteBits > 0 /\ k \in (-2) .. (5 * ByteBits - 1)
  BY BitsAre
<1>2. a = [b \in 0 .. 3 |-> Sum(v, b, k)] /\ c = Sum(v, 4, k)
  BY DEF Holds
<1>3. ASSUME NEW b \in 0 .. 3  PROVE Sum(v, b, k + 1) = Sum(v, b, k)
  <2>1. (b + 1) * ByteBits <= 4 * ByteBits
    BY <1>1
  <2>2. ~(k < (b + 1) * ByteBits) /\ b \in 0 .. 4
    BY <1>1, <2>1
  <2> QED BY <1>1, <2>2, SumNext
<1>4. Sum(v, 4, k + 1) = 2 * Sum(v, 4, k) + v[k + 1]
  <2>1. 4 * ByteBits <= k /\ k < (4 + 1) * ByteBits
    BY <1>1
  <2> QED BY <1>1, <2>1, SumNext
<1>5. [b \in 0 .. 3 |-> Sum(v, b, k + 1)] = [b \in 0 .. 3 |-> Sum(v, b, k)]
  BY <1>3
<1> QED BY <1>2, <1>4, <1>5 DEF Holds

\* All of the message.
LEMMA HoldsAll ==
    ASSUME NEW v \in Bits, NEW a, NEW c, NEW k \in (4 * ByteBits) .. (5 * ByteBits - 1),
           Holds(a, c, v, k)
    PROVE  \A b \in 0 .. 3 : a[b] = Byte(v, b + 1)
<1>1. ByteBits \in Nat /\ ByteBits > 0 /\ k \in (-2) .. (5 * ByteBits)
  BY BitsAre
<1>2. ASSUME NEW b \in 0 .. 3  PROVE a[b] = Byte(v, b + 1)
  <2>1. (b + 1) * ByteBits <= 4 * ByteBits
    BY <1>1
  <2>2. k >= (b + 1) * ByteBits /\ b \in 0 .. 4
    BY <1>1, <2>1
  <2>3. Sum(v, b, k) = Byte(v, b + 1)
    BY <1>1, <2>2, SumIs
  <2> QED BY <2>3 DEF Holds
<1> QED BY <1>2

-----------------------------------------------------------------------------
(* Which messages pass the checksum                                        *)

LEMMA PowerLess ==
    ASSUME NEW n \in 0 .. (ByteBits - 1)
    PROVE  0 < Power[n] /\ Power[n] < ByteValues /\ Power[n] \in Nat /\ ByteValues \in Nat
<1> DEFINE T == {k \in Nat : n + (k + 1) <= ByteBits => Power[n] < Power[n + (k + 1)]}
<1>1. ByteBits \in Nat /\ n \in Nat /\ n < ByteBits
  BY BitsAre
<1>2. \A m \in 0 .. (ByteBits - 1) :
        Power[m + 1] = 2 * Power[m] /\ Power[m] > 0 /\ Power[m] \in Nat
  <2> TAKE m \in 0 .. (ByteBits - 1)
  <2>1. m + 1 \in 1 .. ByteBits /\ (m + 1) - 1 = m /\ m \in 0 .. ByteBits
    BY <1>1
  <2> QED BY <2>1, PowerIs
<1>3. 0 \in T
  <2>1. n + (0 + 1) = n + 1 /\ Power[n + 1] = 2 * Power[n] /\ Power[n] > 0 /\ Power[n] \in Nat
    BY <1>1, <1>2
  <2>2. Power[n] < Power[n + (0 + 1)]
    BY <2>1
  <2> QED BY <2>2
<1>4. ASSUME NEW k \in Nat, k \in T  PROVE k + 1 \in T
  <2> SUFFICES ASSUME n + ((k + 1) + 1) <= ByteBits
               PROVE  Power[n] < Power[n + ((k + 1) + 1)]
    OBVIOUS
  <2>1. PICK m \in Nat : m = n + (k + 1)
    BY <1>1
  <2>2. m \in 0 .. (ByteBits - 1) /\ n + ((k + 1) + 1) = m + 1 /\ m <= ByteBits
    BY <1>1, <2>1
  <2>3. Power[n] < Power[m] /\ Power[n] \in Nat
    BY <1>1, <1>2, <1>4, <2>1, <2>2
  <2>4. Power[m + 1] = 2 * Power[m] /\ Power[m] > 0 /\ Power[m] \in Nat
    BY <1>2, <2>2
  <2> QED BY <2>2, <2>3, <2>4
<1> HIDE DEF T
<1>5. \A k \in Nat : k \in T
  BY <1>3, <1>4, AllNumbers
<1>6. PICK k \in Nat : n + (k + 1) = ByteBits
  <2>1. ByteBits - n - 1 \in Nat /\ n + ((ByteBits - n - 1) + 1) = ByteBits
    BY <1>1
  <2> QED BY <2>1
<1>7. Power[n] < Power[ByteBits]
  BY <1>1, <1>5, <1>6 DEF T
<1> QED BY <1>1, <1>2, <1>7, PowerIs DEF ByteValues

\* w is v with a 1 at p, where v has a 0.
Raised(v, w, p) ==
    /\ p \in 1 .. (5 * ByteBits) /\ v[p] = 0 /\ w[p] = 1
    /\ \A i \in 1 .. (5 * ByteBits) : i # p => v[i] = w[i]

\* One byte is greater, by less than a byte can count.
LEMMA ByteRaised ==
    ASSUME NEW v \in Bits, NEW w \in Bits, NEW p, Raised(v, w, p)
    PROVE  \E c \in 1 .. 5, d \in 1 .. (ByteValues - 1) :
              /\ Byte(w, c) = Byte(v, c) + d
              /\ \A b \in 1 .. 5 : b # c => Byte(w, b) = Byte(v, b)
<1>1. /\ ByteBits \in Nat /\ ByteBits > 0
      /\ p \in 1 .. (5 * ByteBits) /\ v[p] = 0 /\ w[p] = 1
      /\ \A i \in 1 .. (5 * ByteBits) : i # p => v[i] = w[i]
  BY BitsAre DEF Raised
<1>2. ASSUME NEW b \in 1 .. 5
      PROVE  /\ (b - 1) * ByteBits \in Nat /\ b * ByteBits = (b - 1) * ByteBits + ByteBits
             /\ b * ByteBits <= 5 * ByteBits
  <2>1. b - 1 \in 0 .. 4 /\ (b - 1) + 1 = b
    OBVIOUS
  <2> QED BY <2>1, Places
<1>3. PICK c \in 1 .. 5 : (c - 1) * ByteBits < p /\ p <= c * ByteBits
  <2>1. CASE p <= ByteBits
    <3>1. (1 - 1) * ByteBits < p /\ p <= 1 * ByteBits
      BY <1>1, <2>1
    <3> QED BY <3>1
  <2>2. CASE ByteBits < p /\ p <= 2 * ByteBits
    <3>1. (2 - 1) * ByteBits < p /\ p <= 2 * ByteBits
      BY <1>1, <2>2
    <3> QED BY <3>1
  <2>3. CASE 2 * ByteBits < p /\ p <= 3 * ByteBits
    <3>1. (3 - 1) * ByteBits < p /\ p <= 3 * ByteBits
      BY <1>1, <2>3
    <3> QED BY <3>1
  <2>4. CASE 3 * ByteBits < p /\ p <= 4 * ByteBits
    <3>1. (4 - 1) * ByteBits < p /\ p <= 4 * ByteBits
      BY <1>1, <2>4
    <3> QED BY <3>1
  <2>5. CASE 4 * ByteBits < p /\ p <= 5 * ByteBits
    <3>1. (5 - 1) * ByteBits < p /\ p <= 5 * ByteBits
      BY <1>1, <2>5
    <3> QED BY <3>1
  <2> QED BY <1>1, <2>1, <2>2, <2>3, <2>4, <2>5
<1>4. PICK n \in 0 .. (ByteBits - 1) : p + n = c * ByteBits
  <2>1. PICK low \in Nat : /\ low = (c - 1) * ByteBits /\ c * ByteBits = low + ByteBits
                           /\ low < p /\ p <= low + ByteBits
    BY <1>2, <1>3
  <2>2. (low + ByteBits) - p \in 0 .. (ByteBits - 1) /\ p + ((low + ByteBits) - p) = low + ByteBits
    BY <1>1, <2>1
  <2> QED BY <2>1, <2>2
<1>5. Byte(w, c) = Byte(v, c) + Power[n]
  <2>1. PICK low \in Nat : low = (c - 1) * ByteBits /\ low < p /\ p + n <= 5 * ByteBits
    BY <1>2, <1>3, <1>4
  <2>2. /\ low + 1 \in 1 .. (5 * ByteBits) /\ p \in (low + 1) .. (5 * ByteBits)
        /\ n \in 0 .. ByteBits
    BY <1>1, <2>1
  <2>3. \A i \in (low + 1) .. (p + n) : i # p => v[i] = w[i]
    BY <1>1, <2>1
  <2>4. Number(w, low + 1, p + n) = Number(v, low + 1, p + n) + Power[n]
    BY <1>1, <2>1, <2>2, <2>3, NumberRaised
  <2> QED BY <1>4, <2>1, <2>4 DEF Byte
<1>6. ASSUME NEW b \in 1 .. 5, b # c  PROVE Byte(w, b) = Byte(v, b)
  <2>1. PICK low \in Nat : /\ low = (b - 1) * ByteBits /\ b * ByteBits = low + ByteBits
                           /\ low + ByteBits <= 5 * ByteBits
    BY <1>2
  <2>2. ~(low < p /\ p <= low + ByteBits)
    <3>1. CASE b < c
      <4>1. b * ByteBits <= (c - 1) * ByteBits
        BY <1>1, <3>1
      <4> QED BY <1>1, <1>2, <1>3, <2>1, <4>1
    <3>2. CASE c < b
      <4>1. c * ByteBits <= (b - 1) * ByteBits
        BY <1>1, <3>2
      <4> QED BY <1>1, <1>2, <1>3, <2>1, <4>1
    <3> QED BY <1>6, <3>1, <3>2
  <2>3. \A i \in (low + 1) .. (low + ByteBits) : v[i] = w[i]
    BY <1>1, <2>1, <2>2
  <2>4. low + 1 \in 1 .. (5 * ByteBits + 1) /\ low + ByteBits \in ((low + 1) - 1) .. (5 * ByteBits)
    BY <1>1, <2>1
  <2>5. Number(v, low + 1, low + ByteBits) = Number(w, low + 1, low + ByteBits)
    BY <2>3, <2>4, NumberAgrees
  <2> QED BY <2>1, <2>5 DEF Byte
<1>7. Power[n] \in 1 .. (ByteValues - 1)
  BY PowerLess
<1> QED BY <1>5, <1>6, <1>7

LEMMA BytesNat ==
    ASSUME NEW v \in Bits, NEW b \in 1 .. 5
    PROVE  Byte(v, b) \in Nat
<1>1. b - 1 \in 0 .. 4 /\ (b - 1) + 1 = b
  OBVIOUS
<1>2. /\ (b - 1) * ByteBits \in Nat /\ b * ByteBits = (b - 1) * ByteBits + ByteBits
      /\ b * ByteBits <= 5 * ByteBits
  BY <1>1, Places
<1>3. PICK low \in Nat : low = (b - 1) * ByteBits
  BY <1>2
<1>4. low + 1 \in 1 .. (5 * ByteBits + 1) /\ b * ByteBits \in ((low + 1) - 1) .. (5 * ByteBits)
  BY <1>2, <1>3, BitsAre
<1> QED BY <1>3, <1>4, NumberStep DEF Byte

LEMMA RemaindersDiffer ==
    ASSUME NEW m \in Nat \ {0}, NEW s \in Nat, NEW d \in 1 .. (m - 1)
    PROVE  (s + d) % m # s % m
<1>1. /\ s = m * (s \div m) + (s % m) /\ s \div m \in Nat /\ s % m \in 0 .. (m - 1)
  BY DivMod
<1>2. /\ s + d = m * ((s + d) \div m) + ((s + d) % m) /\ (s + d) \div m \in Nat
      /\ (s + d) % m \in 0 .. (m - 1)
  <2>1. s + d \in Nat
    OBVIOUS
  <2> QED BY <2>1, DivMod
<1>3. PICK k \in Nat, l \in Nat : k = s \div m /\ l = (s + d) \div m
  BY <1>1, <1>2
<1>4. SUFFICES ASSUME (s + d) % m = s % m  PROVE FALSE
  OBVIOUS
<1>5. d = m * (l - k)
  BY <1>1, <1>2, <1>3, <1>4
<1>6. CASE l - k >= 1
  <2>1. m * (l - k) >= m
    BY <1>6
  <2> QED BY <1>5, <2>1
<1>7. CASE l - k <= 0
  <2>1. m * (l - k) <= 0
    BY <1>7
  <2> QED BY <1>5, <2>1
<1> QED BY <1>6, <1>7

\* A single bit that is read as 1 and was 0 does not pass.
LEMMA RaisedInvalid ==
    ASSUME NEW v \in Bits, NEW w \in Bits, NEW p, Raised(v, w, p), IsValid(v)
    PROVE  ~IsValid(w)
<1>1. PICK c \in 1 .. 5, d \in 1 .. (ByteValues - 1) :
              /\ Byte(w, c) = Byte(v, c) + d
              /\ \A b \in 1 .. 5 : b # c => Byte(w, b) = Byte(v, b)
  BY ByteRaised
<1>2. PICK s \in Nat, t \in Nat : /\ s = Byte(v, 1) + Byte(v, 2) + Byte(v, 3) + Byte(v, 4)
                                  /\ t = Byte(w, 1) + Byte(w, 2) + Byte(w, 3) + Byte(w, 4)
  BY BytesNat
<1>3. ByteValues \in Nat \ {0}
  BY PowerIs, BitsAre DEF ByteValues
<1>4. s % ByteValues = Byte(v, 5)
  BY <1>2 DEF IsValid
<1>5. CASE c = 5
  <2>1. s = t /\ Byte(w, 5) # Byte(v, 5)
    BY <1>1, <1>2, <1>5, BytesNat
  <2> QED BY <1>2, <1>4, <2>1 DEF IsValid
<1>6. CASE c # 5
  <2>1. Byte(w, 5) = Byte(v, 5)
    BY <1>1, <1>6
  <2>2. t = s + d
    <3>1. \A b \in 1 .. 4 : Byte(w, b) = IF b = c THEN Byte(v, b) + d ELSE Byte(v, b)
      BY <1>1
    <3> QED BY <1>1, <1>2, <1>6, <3>1, BytesNat
  <2>3. t % ByteValues # s % ByteValues
    BY <1>3, <2>2, RemaindersDiffer
  <2> QED BY <1>2, <1>4, <2>1, <2>3 DEF IsValid
<1> QED BY <1>5, <1>6

\* All the pulses of a reply have arrived, and fewer than two are longer: they are its
\* bits, but for one at most.
LEMMA WhatArrives ==
    ASSUME NEW reply \in Replies, NEW l \in 0 .. 1, NEW ps \in Arrived(reply, l),
           5 * ByteBits + 2 <= Len(ps)
    PROVE  /\ reply \in Bits
           /\ Got(ps) = reply \/ \E p : Raised(reply, Got(ps), p)
<1>1. /\ ByteBits \in Nat /\ ByteBits > 0 /\ reply \in Bits
      /\ Len(reply) = 5 * ByteBits
      /\ \A i \in 1 .. (5 * ByteBits) : reply[i] \in {0, 1}
  BY ConstantsAssumption, BitsAre DEF Bits
<1>2. PICK all \in Nat : all = 5 * ByteBits
  BY <1>1
<1>3. PICK p : p = Pulses(reply)
  OBVIOUS
<1>4. /\ p \in Seq(Widths) /\ Len(p) = all + 2
      /\ \A i \in 1 .. all : p[i + 2] = IF reply[i] = 1 THEN One ELSE Zero
  <2>1. PICK f : f = [i \in 1 .. all |-> IF reply[i] = 1 THEN One ELSE Zero]
    OBVIOUS
  <2>2. f \in Seq(Widths) /\ Len(f) = all
    BY <2>1 DEF Widths
  <2>3. p = <<Zero, One>> \o f
    BY <1>1, <1>2, <1>3, <2>1 DEF Pulses
  <2>4. <<Zero, One>> \in Seq(Widths) /\ Len(<<Zero, One>>) = 2
    BY DEF Widths
  <2>5. p \in Seq(Widths) /\ Len(p) = all + 2 /\ \A i \in 1 .. all : p[i + 2] = f[i]
    BY <2>2, <2>3, <2>4
  <2> QED BY <2>1, <2>5
<1>5. ps \in Seq(Widths)
  BY DEF Arrived
<1>6. /\ Got(ps) \in Bits
      /\ \A j \in 1 .. all : Got(ps)[j] = Value(ps[j + 2])
  <2>1. \A j \in 1 .. all : j + 2 <= Len(ps)
    BY <1>2, <1>5
  <2> QED BY <1>2, <1>5, <2>1, GotBits
<1>7. ASSUME NEW x \in Bits, NEW y \in Bits, \A j \in 1 .. all : x[j] = y[j]  PROVE x = y
  BY <1>2, <1>7 DEF Bits
<1>8. ASSUME NEW i \in 1 .. all, p[i + 2] = ps[i + 2]  PROVE Got(ps)[i] = reply[i]
  BY <1>1, <1>2, <1>4, <1>6, <1>8 DEF Value, One, Zero
<1>9. CASE ps = p
  BY <1>1, <1>6, <1>7, <1>8, <1>9
<1>12. ASSUME NEW i \in 1 .. Len(p), NEW w \in {One, Bad}, ps = [p EXCEPT ![i] = w]
       PROVE  Got(ps) = reply \/ \E at : Raised(reply, Got(ps), at)
  <2>1. ps[i] = w /\ \A j \in 1 .. Len(p) : j # i => ps[j] = p[j]
    BY <1>4, <1>12
  <2>2. CASE i <= 2
    <3>1. ASSUME NEW j \in 1 .. all  PROVE Got(ps)[j] = reply[j]
      <4>1. j + 2 # i /\ j + 2 \in 1 .. Len(p)
        BY <1>4, <2>2
      <4> QED BY <1>8, <2>1, <4>1
    <3> QED BY <1>1, <1>6, <1>7, <3>1
  <2>3. CASE i > 2
    <3>1. PICK at \in 1 .. all : at + 2 = i
      <4>1. i - 2 \in 1 .. all /\ (i - 2) + 2 = i
        BY <1>4, <2>3
      <4> QED BY <4>1
    <3>2. Got(ps)[at] = 1
      BY <1>6, <2>1, <3>1 DEF Value, One, Bad, Zero
    <3>3. ASSUME NEW j \in 1 .. all, j # at  PROVE Got(ps)[j] = reply[j]
      <4>1. j + 2 # i /\ j + 2 \in 1 .. Len(p)
        BY <1>4, <3>1, <3>3
      <4> QED BY <1>8, <2>1, <4>1
    <3>4. CASE reply[at] = 1
      <4>1. Got(ps)[at] = reply[at]
        BY <3>2, <3>4
      <4>2. \A j \in 1 .. all : Got(ps)[j] = reply[j]
        BY <3>3, <4>1
      <4>3. Got(ps) = reply
        BY <1>1, <1>6, <1>7, <4>2
      <4> QED BY <4>3
    <3>5. CASE reply[at] = 0
      <4>1. Raised(reply, Got(ps), at)
        BY <1>2, <3>2, <3>3, <3>5 DEF Raised
      <4> QED BY <4>1
    <3> QED BY <1>1, <1>2, <3>4, <3>5
  <2> QED BY <1>4, <2>2, <2>3
<1>13. CASE \E i \in 1 .. Len(p), w \in {One, Bad} : ps = [p EXCEPT ![i] = w]
  BY <1>1, <1>12, <1>13
<1>14. ps = p \/ \E i \in 1 .. Len(p), w \in {One, Bad} : ps = [p EXCEPT ![i] = w]
  <2>1. PICK a \in Arriving[reply] : a.pulses = ps /\ a.longer = l
    BY DEF Arrived
  <2>2. Came(reply, a)
    BY Arrives
  <2>3. /\ Len(ps) <= Len(p)
        /\ Len(ps) = Len(p) => /\ l = 0 => ps = p
                               /\ l = 1 => \E i \in 1 .. Len(p) : \E w \in {One, Bad} :
                                              ps = [p EXCEPT ![i] = w]
    BY <1>3, <2>1, <2>2 DEF Came
  <2>4. Len(ps) \in Nat
    BY <1>5
  <2>5. Len(ps) = Len(p)
    BY <1>2, <1>4, <2>3, <2>4
  <2>6. l = 0 \/ l = 1
    OBVIOUS
  <2> QED BY <2>3, <2>5, <2>6
<1> QED BY <1>9, <1>13, <1>14

\* The reading that the driver takes from the bytes is what they mean.
LEMMA MeasuredIs ==
    ASSUME NEW v \in Bits, \A b \in 0 .. 3 : acc[b] = Byte(v, b + 1)
    PROVE  Measured = Decoded(v)
<1>1. PICK B \in Nat : B = ByteBits /\ B > 0
  BY BitsAre
<1>2. PICK P : P = ByteValues /\ P = Power[B] /\ P \in Nat
  BY <1>1, PowerIs DEF ByteValues
<1>3. PICK sign : sign = Power[B - 1] /\ sign \in Nat \ {0}
  <2>1. B - 1 \in 0 .. ByteBits
    BY <1>1
  <2> QED BY <1>1, <2>1, PowerIs
<1>4. /\ acc[0] = Number(v, 1, B) /\ acc[1] = Number(v, B + 1, 2 * B)
      /\ acc[2] = Number(v, 2 * B + 1, 3 * B) /\ acc[3] = Number(v, 3 * B + 1, 4 * B)
  <2>1. /\ (1 - 1) * B + 1 = 1 /\ 1 * B = B /\ (2 - 1) * B + 1 = B + 1
        /\ (3 - 1) * B + 1 = 2 * B + 1 /\ (4 - 1) * B + 1 = 3 * B + 1
    BY <1>1
  <2>2. /\ Byte(v, 1) = Number(v, 1, B) /\ Byte(v, 2) = Number(v, B + 1, 2 * B)
        /\ Byte(v, 3) = Number(v, 2 * B + 1, 3 * B) /\ Byte(v, 4) = Number(v, 3 * B + 1, 4 * B)
    BY <1>1, <2>1 DEF Byte
  <2> QED BY <2>2
<1>5. acc[0] * P + acc[1] = Number(v, 1, 2 * B)
  <2>1. /\ B \in (1 - 1) .. (5 * ByteBits) /\ B \in 0 .. ByteBits /\ B + B <= 5 * ByteBits
        /\ B + B = 2 * B /\ 1 \in 1 .. (5 * ByteBits + 1)
    BY <1>1
  <2>2. Number(v, 1, B + B) = Number(v, 1, B) * Power[B] + Number(v, B + 1, B + B)
    BY <2>1, NumberSplits
  <2> QED BY <1>2, <1>4, <2>1, <2>2
<1>6. PICK rest \in Nat : rest = Number(v, 2 * B + 2, 3 * B) /\ rest < sign
  <2>1. /\ 2 * B + 2 \in 1 .. (5 * ByteBits + 1) /\ B - 1 \in 0 .. ByteBits
        /\ (2 * B + 2) + (B - 1) <= 5 * ByteBits + 1 /\ (2 * B + 2) + (B - 1) - 1 = 3 * B
        /\ 3 * B \in ((2 * B + 2) - 1) .. (5 * ByteBits)
    BY <1>1
  <2>2. Number(v, 2 * B + 2, (2 * B + 2) + (B - 1) - 1) < Power[B - 1]
    BY <2>1, NumberBelow
  <2>3. Number(v, 2 * B + 2, 3 * B) \in Nat
    BY <2>1, NumberStep
  <2> QED BY <1>3, <2>1, <2>2, <2>3
<1>7. acc[2] = v[2 * B + 1] * sign + rest /\ v[2 * B + 1] \in {0, 1}
  <2>1. /\ 2 * B + 1 \in 1 .. (5 * ByteBits + 1) /\ B - 1 \in 0 .. ByteBits
        /\ 2 * B + 1 \in ((2 * B + 1) - 1) .. (5 * ByteBits)
        /\ (2 * B + 1) + (B - 1) = 3 * B /\ (2 * B + 1) + 1 = 2 * B + 2
        /\ (2 * B + 1) + (B - 1) <= 5 * ByteBits
        /\ 2 * B + 1 \in (2 * B + 1) .. (5 * ByteBits)
    BY <1>1
  <2>2. Number(v, 2 * B + 1, 3 * B)
           = Number(v, 2 * B + 1, 2 * B + 1) * Power[B - 1] + Number(v, 2 * B + 2, 3 * B)
    <3>1. Number(v, 2 * B + 1, (2 * B + 1) + (B - 1))
           = Number(v, 2 * B + 1, 2 * B + 1) * Power[B - 1]
               + Number(v, (2 * B + 1) + 1, (2 * B + 1) + (B - 1))
      BY <2>1, NumberSplits
    <3> QED BY <2>1, <3>1
  <2>3. /\ Number(v, 2 * B + 1, (2 * B + 1) - 1) = 0 /\ v[2 * B + 1] \in {0, 1}
        /\ Number(v, 2 * B + 1, 2 * B + 1)
              = 2 * Number(v, 2 * B + 1, (2 * B + 1) - 1) + v[2 * B + 1]
    BY <2>1, NumberStep
  <2>4. Number(v, 2 * B + 1, 2 * B + 1) = v[2 * B + 1]
    BY <2>3
  <2> QED BY <1>3, <1>4, <1>6, <2>2, <2>3, <2>4
<1>8. (acc[2] >= sign) = (v[2 * B + 1] = 1)
  BY <1>3, <1>6, <1>7
<1>9. acc[2] % sign = rest
  <2>1. CASE v[2 * B + 1] = 0
    <3>1. acc[2] = rest
      BY <1>3, <1>6, <1>7, <2>1
    <3>2. sign \in Nat \ {0} /\ rest \in Nat /\ rest < sign
      BY <1>3, <1>6
    <3>3. rest % sign = rest
      BY <3>2
    <3> QED BY <3>1, <3>3
  <2>2. CASE v[2 * B + 1] = 1
    <3>1. acc[2] = sign + rest /\ acc[2] \in Nat
      BY <1>3, <1>6, <1>7, <2>2
    <3>2. PICK k \in Int, r \in 0 .. (sign - 1) : acc[2] = sign * k + r /\ r = acc[2] % sign
      <4>1. /\ acc[2] = sign * (acc[2] \div sign) + (acc[2] % sign)
            /\ acc[2] % sign \in 0 .. (sign - 1) /\ acc[2] \div sign \in Nat
        BY <1>3, <3>1, DivMod
      <4> QED BY <4>1
    <3>3. PICK one \in Int : one = 1 /\ sign * k + r = sign * one + rest
      BY <1>3, <1>6, <3>1, <3>2
    <3>4. rest \in 0 .. (sign - 1)
      BY <1>3, <1>6
    <3>5. r = rest
      BY <1>3, <3>3, <3>4, OneRemainder
    <3> QED BY <3>2, <3>5
  <2> QED BY <1>7, <2>1, <2>2
<1>10. rest * P + acc[3] = Number(v, 2 * B + 2, 4 * B)
  <2>1. /\ 2 * B + 2 \in 1 .. (5 * ByteBits + 1) /\ 3 * B \in ((2 * B + 2) - 1) .. (5 * ByteBits)
        /\ B \in 0 .. ByteBits /\ 3 * B + B <= 5 * ByteBits /\ 3 * B + B = 4 * B
    BY <1>1
  <2>2. Number(v, 2 * B + 2, 3 * B + B)
          = Number(v, 2 * B + 2, 3 * B) * Power[B] + Number(v, 3 * B + 1, 3 * B + B)
    BY <2>1, NumberSplits
  <2> QED BY <1>2, <1>4, <1>6, <2>1, <2>2
<1>11. Measured = [humidity |-> acc[0] * P + acc[1],
                   temperature |-> IF acc[2] >= sign THEN -((acc[2] % sign) * P + acc[3])
                                   ELSE (acc[2] % sign) * P + acc[3]]
  BY <1>1, <1>2, <1>3 DEF Measured
<1>12. Decoded(v) = [humidity |-> Number(v, 1, 2 * B),
                     temperature |-> IF v[2 * B + 1] = 1 THEN -Number(v, 2 * B + 2, 4 * B)
                                     ELSE Number(v, 2 * B + 2, 4 * B)]
  BY <1>1 DEF Decoded
<1> QED BY <1>5, <1>8, <1>9, <1>10, <1>11, <1>12

-----------------------------------------------------------------------------
(* Whose bits have been read                                               *)

\* The message cannot be accepted any more.
Poisoned == bit >= 5 * ByteBits \/ checksum >= ByteValues

\* Nothing of a message has been read, nor is it coming.
Awaits ==
    /\ bit = -2 /\ acc = [b \in 0 .. 3 |-> 0] /\ checksum = 0
    /\ Starts(events, 1)

\* The bits are those of the pulses that were handled, and the others come next.
ReceivesOf(of, l, ps, n) ==
    /\ bit = n - 2 /\ Holds(acc, checksum, Got(ps), bit)
    /\ Coming(events, 1, ps, n, of, l, trigger)

Receives ==
    \E of \in Replies, l \in Nat : \E ps \in Arrived(of, l) : \E n \in 0 .. Len(ps) :
        ReceivesOf(of, l, ps, n)

SourceInv ==
    /\ acc \in [0 .. 3 -> Nat] /\ checksum \in Nat /\ astray \in BOOLEAN
    /\ callback # "cancelled" =>
         (~astray => Poisoned \/ Awaits \/ Receives) /\ QueueRight(events, trigger)

LEMMA SourceInit == Init => SourceInv
<1> SUFFICES ASSUME Init  PROVE SourceInv
  OBVIOUS
<1>1. bit = 5 * ByteBits /\ checksum = 0 /\ events = <<>> /\ astray \in BOOLEAN
  BY DEF Init
<1>2. Poisoned
  BY <1>1, BitsAre DEF Poisoned
<1>3. QueueRight(events, trigger)
  BY <1>1 DEF QueueRight
<1>4. acc \in [0 .. 3 -> Nat]
  BY DEF Init
<1> QED BY <1>1, <1>2, <1>3, <1>4 DEF SourceInv

\* What goes to the end of the queue changes nothing of what was read.
LEMMA AppendKeeps ==
    ASSUME SourceInv, bit' = bit, acc' = acc, checksum' = checksum, astray' = astray,
           callback' # "cancelled" =>
              /\ callback # "cancelled"
              /\ Grows(events, trigger, events', trigger')
              /\ \A i \in (Len(events) + 1) .. Len(events') :
                    events'[i].level = 1 => Announced(events', i, trigger')
    PROVE  SourceInv'
<1>1. acc' \in [0 .. 3 -> Nat] /\ checksum' \in Nat /\ astray' \in BOOLEAN
  BY DEF SourceInv
<1>2. ASSUME callback' # "cancelled"
      PROVE  (~astray' => (Poisoned \/ Awaits \/ Receives)') /\ QueueRight(events', trigger')
  <2>1. PICK r, u : r = events' /\ u = trigger'
    OBVIOUS
  <2>2. /\ ~astray => Poisoned \/ Awaits \/ Receives
        /\ QueueRight(events, trigger) /\ Grows(events, trigger, r, u)
        /\ \A i \in (Len(events) + 1) .. Len(r) : r[i].level = 1 => Announced(r, i, u)
    BY <1>2, <2>1 DEF SourceInv
  <2>3. QueueRight(events', trigger')
    BY <2>1, <2>2, QueueGrow
  <2>4. ASSUME Poisoned  PROVE Poisoned'
    BY <2>4 DEF Poisoned
  <2>5. ASSUME Awaits  PROVE Awaits'
    <3>1. Starts(r, 1)
      BY <2>2, <2>5, StartsGrow DEF Awaits
    <3> QED BY <2>1, <2>5, <3>1 DEF Awaits
  <2>6. ASSUME Receives  PROVE Receives'
    <3>1. PICK of \in Replies, l \in Nat : \E ps \in Arrived(of, l) : \E n \in 0 .. Len(ps) :
            ReceivesOf(of, l, ps, n)
      BY <2>6 DEF Receives
    <3>2. PICK ps \in Arrived(of, l) : \E n \in 0 .. Len(ps) : ReceivesOf(of, l, ps, n)
      BY <3>1
    <3>3. PICK n \in 0 .. Len(ps) : ReceivesOf(of, l, ps, n)
      BY <3>2
    <3>4. ps \in Seq(Widths) /\ 1 \in Nat \ {0}
      BY DEF Arrived
    <3>5. Coming(r, 1, ps, n, of, l, u)
      BY <2>2, <3>3, <3>4, ComingGrow DEF ReceivesOf
    <3>6. ReceivesOf(of, l, ps, n)'
      BY <2>1, <3>3, <3>5 DEF ReceivesOf
    <3> QED BY <3>6 DEF Receives
  <2> QED BY <2>2, <2>3, <2>4, <2>5, <2>6
<1> QED BY <1>1, <1>2 DEF SourceInv

\* What comes first, or nothing does.
LEMMA AtEnd ==
    ASSUME NEW r, Len(r) \in Nat, NEW u
    PROVE  /\ Starts(r, Len(r) + 1) /\ Announced(r, Len(r), u)
           /\ u \notin {"pulled", "wrapped"} => Ends(r, Len(r) + 1, u)
<1>1. PICK n \in Nat : n = Len(r)
  OBVIOUS
<1>2. n + 1 \in (n + 1) .. (n + 1) /\ (n + 1) .. ((n + 1) - 1) = {} /\ ~(n + 1 <= n)
  OBVIOUS
<1>3. Starts(r, n + 1) /\ (u \notin {"pulled", "wrapped"} => Ends(r, n + 1, u))
  BY <1>1, <1>2 DEF Starts, Ends
<1> QED BY <1>1, <1>3 DEF Announced

LEMMA First ==
    ASSUME NEW r, Len(r) \in Nat, NEW k \in 1 .. Len(r), NEW u
    PROVE  /\ IsPull(r[k]) \/ r[k].level = 1 => Starts(r, k)
           /\ Breaks(r[k]) => Ends(r, k, u)
<1>1. k \in k .. (Len(r) + 1) /\ k .. (k - 1) = {} /\ k <= Len(r)
  OBVIOUS
<1> QED BY <1>1 DEF Starts, Ends

LEMMA PullSource ==
    ASSUME DriverTypes, SourceInv, Pull
    PROVE  SourceInv'
<1>1. /\ bit' = bit /\ acc' = acc /\ checksum' = checksum /\ callback' = callback
      /\ astray' = astray /\ trigger = "idle"
  BY DEF Pull, message
<1>2. PICK width \in Widths \cup {Lost} :
        /\ trigger' = CASE width = Bad -> "pulled"
                        [] width = Lost -> "unseen"
                        [] OTHER -> "wrapped"
        /\ Notified(PullEdge(width))
  BY DEF Pull
<1>3. PICK p \in Seq(Notes) :
        /\ p = PullEdge(width) /\ (p = <<>> \/ \E w \in Widths : p = <<Fall(w, None, 0)>>)
        /\ p = <<>> => width = Lost
  BY PullEdgeIs
<1>4. ASSUME callback' # "cancelled"
      PROVE  /\ Grows(events, trigger, events', trigger')
             /\ \A i \in (Len(events) + 1) .. Len(events') :
                    events'[i].level = 1 => Announced(events', i, trigger')
  <2>1. events \in Seq(Notes)
    BY DEF DriverTypes
  <2>2. PICK r : r = events' /\ r = events \o p
    BY <1>1, <1>2, <1>3, <1>4 DEF Notified
  <2>3. PICK n \in Nat : n = Len(events)
    BY <2>1
  <2>4. /\ r \in Seq(Notes) /\ Len(r) = n + Len(p) /\ Len(p) \in Nat /\ Len(r) \in Nat
        /\ \A i \in 1 .. n : r[i] = events[i]
        /\ \A i \in 1 .. Len(p) : r[n + i] = p[i]
    BY <2>1, <2>2, <2>3, Joined
  <2>5. CASE p = <<>>
    <3>1. Len(r) = n
      BY <2>4, <2>5
    <3>2. width = Lost /\ Lost # Bad
      BY <1>3, <2>5 DEF Lost, Bad
    <3>3. trigger' \notin {"pulled", "wrapped"}
      BY <1>2, <3>2
    <3>4. Starts(r, n + 1) /\ Ends(r, n + 1, trigger')
      BY <2>4, <3>1, <3>3, AtEnd
    <3>5. Grows(events, trigger, r, trigger')
      BY <2>3, <2>4, <3>1, <3>4 DEF Grows
    <3>6. (n + 1) .. Len(r) = {}
      BY <3>1
    <3> QED BY <2>2, <2>3, <3>5, <3>6
  <2>6. CASE \E w \in Widths : p = <<Fall(w, None, 0)>>
    <3>1. PICK w \in Widths : p = <<Fall(w, None, 0)>>
      BY <2>6
    <3>2. PICK e : e = Fall(w, None, 0)
      OBVIOUS
    <3>3. Len(p) = 1 /\ p[1] = e
      BY <3>1, <3>2
    <3>4. e.level = 0 /\ e.of = None
      BY <3>2, NoteTypes
    <3>5. /\ Len(r) = n + 1 /\ n + 1 \in 1 .. Len(r) /\ r[n + 1] = e
      BY <2>4, <3>3
    <3>6. IsPull(r[n + 1]) /\ Breaks(r[n + 1])
      BY <3>4, <3>5 DEF IsPull, Breaks
    <3>7. Starts(r, n + 1) /\ Ends(r, n + 1, trigger')
      BY <2>4, <3>5, <3>6, First
    <3>8. Grows(events, trigger, r, trigger')
      BY <2>3, <2>4, <3>5, <3>7 DEF Grows
    <3>9. \A i \in (n + 1) .. Len(r) : r[i].level # 1
      BY <3>4, <3>5
    <3> QED BY <2>2, <2>3, <3>8, <3>9
  <2> QED BY <1>3, <2>5, <2>6
<1> QED BY <1>1, <1>4, AppendKeeps

LEMMA ReleaseSource ==
    ASSUME DriverTypes, SourceInv, Release
    PROVE  SourceInv'
<1>1. /\ bit' = bit /\ acc' = acc /\ checksum' = checksum /\ callback' = callback
      /\ astray' = astray
      /\ trigger \in {"pulled", "wrapped", "unseen"} /\ trigger' = "released"
  BY DEF Release, message
<1>2. PICK gap \in Gaps, of \in Replies, seen \in BOOLEAN, p \in Seq(Notes), l \in Nat :
           \E ps \in Arrived(of, l) : ReleaseAdds(gap, of, seen, p, l, ps)
  BY ReleaseIs
<1>3. PICK ps \in Arrived(of, l) : ReleaseAdds(gap, of, seen, p, l, ps)
  BY <1>2
<1>4. /\ trigger = "unseen" => ~seen
      /\ \A i \in 1 .. Len(p) : p[i].level = 0 /\ p[i].of = None
      /\ Notified((p \o <<Rise(gap, seen)>>) \o FallsOf(ps, of, l))
  BY <1>3, Zenon DEF ReleaseAdds
<1>5. ASSUME callback' # "cancelled"
      PROVE  /\ Grows(events, trigger, events', trigger')
             /\ \A i \in (Len(events) + 1) .. Len(events') :
                    events'[i].level = 1 => Announced(events', i, trigger')
  <2>1. PICK e, f : e = Rise(gap, seen) /\ f = FallsOf(ps, of, l)
    OBVIOUS
  <2>2. /\ gap \in Nat /\ e \in Notes /\ e.level = 1 /\ e.gap = gap /\ e.seen = seen
    BY <2>1, Constants, NoteTypes
  <2>3. ps \in Seq(Widths) /\ events \in Seq(Notes) /\ <<e>> \in Seq(Notes)
    BY <2>2 DEF Arrived, DriverTypes
  <2>4. f \in Seq(Notes)
    BY <2>1, <2>3, Falls
  <2>5. PICK q : q = events \o p
    OBVIOUS
  <2>6. q \in Seq(Notes)
    BY <2>3, <2>5, Joined
  <2>7. PICK r : r = events'
    OBVIOUS
  <2>8. r = q \o (<<e>> \o f)
    <3>1. r = events \o ((p \o <<e>>) \o f)
      BY <1>1, <1>4, <1>5, <2>1, <2>7 DEF Notified
    <3>2. (p \o <<e>>) \o f = p \o (<<e>> \o f)
      BY <2>3, <2>4, ConcatAssociative
    <3>3. <<e>> \o f \in Seq(Notes)
      BY <2>3, <2>4, Joined
    <3>4. (events \o p) \o (<<e>> \o f) = events \o (p \o (<<e>> \o f))
      BY <2>3, <3>3, ConcatAssociative
    <3> QED BY <2>5, <3>1, <3>2, <3>4
  <2>9. r = WithReply(q, e, ps, of, l)
    BY <2>1, <2>8 DEF WithReply
  <2>10. IsReplied(r, q, e, ps, of, l)
    BY <2>2, <2>3, <2>6, <2>9, Replied
  <2>11. PICK n \in Nat, m \in Nat, k \in Nat : n = Len(events) /\ m = Len(p) /\ k = Len(ps)
    BY <2>3
  <2>12. /\ Len(q) = n + m /\ \A i \in 1 .. n : q[i] = events[i]
         /\ \A i \in 1 .. m : q[n + i] = p[i]
    BY <2>3, <2>5, <2>11, Joined
  <2>13. /\ r \in Seq(Notes) /\ Len(r) = (n + m) + 1 + k /\ Len(r) \in Nat
         /\ r[(n + m) + 1] = e
         /\ \A j \in 1 .. k : r[(n + m) + 1 + j] = Fall(ps[j], of, l)
    BY <2>10, <2>11, <2>12 DEF IsReplied
  <2>14. \A i \in 1 .. (n + m) : r[i] = q[i]
    BY <2>10, <2>12 DEF IsReplied
  <2>15. \A i \in 1 .. n : r[i] = events[i]
    <3>1. \A i \in 1 .. n : i \in 1 .. (n + m)
      OBVIOUS
    <3> QED BY <2>12, <2>14, <3>1
  <2>16. \A i \in 1 .. m : r[n + i].level = 0 /\ IsPull(r[n + i])
    <3>1. \A i \in 1 .. m : n + i \in 1 .. (n + m)
      OBVIOUS
    <3>2. \A i \in 1 .. m : r[n + i] = p[i]
      BY <2>12, <2>14, <3>1
    <3> QED BY <1>4, <2>11, <3>2 DEF IsPull
  <2>17. n + 1 \in 1 .. Len(r)
    BY <2>13
  <2>18. /\ IsPull(r[n + 1]) \/ r[n + 1].level = 1
         /\ trigger = "unseen" => Breaks(r[n + 1])
    <3>1. CASE m = 0
      <4>1. r[n + 1] = e
        BY <2>13, <3>1
      <4>2. trigger = "unseen" => ~e.seen
        BY <1>4, <2>2
      <4> QED BY <2>2, <4>1, <4>2 DEF Breaks
    <3>2. CASE m # 0
      <4>1. 1 \in 1 .. m
        BY <3>2
      <4>2. IsPull(r[n + 1])
        BY <2>16, <4>1
      <4> QED BY <4>2 DEF Breaks
    <3> QED BY <3>1, <3>2
  <2>19. /\ Starts(r, n + 1)
         /\ trigger \notin {"pulled", "wrapped"} => Ends(r, n + 1, trigger')
    BY <1>1, <2>13, <2>17, <2>18, First
  <2>20. Grows(events, trigger, r, trigger')
    <3>1. Len(events) <= Len(r) /\ Len(r) \in Nat /\ Len(events) \in Nat
      BY <2>11, <2>13
    <3> QED BY <2>11, <2>15, <2>19, <3>1 DEF Grows
  <2>21. PICK c \in Nat : c = (n + m) + 1
    OBVIOUS
  <2>22. Coming(r, c + 1, ps, 0, of, l, trigger')
    <3>1. (c + 1) - 1 + (Len(ps) - 0) <= Len(r)
      BY <2>11, <2>13, <2>21
    <3>2. ASSUME NEW j \in 1 .. (Len(ps) - 0)
          PROVE  r[(c + 1) - 1 + j] = Fall(ps[0 + j], of, l)
      <4>1. (c + 1) - 1 + j = (n + m) + 1 + j /\ 0 + j = j /\ j \in 1 .. k
        BY <2>11, <2>21
      <4> QED BY <2>13, <4>1
    <3>3. Ends(r, (c + 1) + (Len(ps) - 0), trigger')
      <4>1. (c + 1) + (Len(ps) - 0) = Len(r) + 1
        BY <2>11, <2>13, <2>21
      <4>2. trigger' \notin {"pulled", "wrapped"}
        BY <1>1
      <4> QED BY <2>13, <4>1, <4>2, AtEnd
    <3> QED BY <3>1, <3>2, <3>3 DEF Coming
  <2>23. Announced(r, c, trigger')
    BY <2>22 DEF Announced
  <2>24. ASSUME NEW i \in (n + 1) .. Len(r), r[i].level = 1  PROVE Announced(r, i, trigger')
    <3>1. CASE i = c
      BY <2>23, <3>1
    <3>2. CASE i < c
      <4>1. PICK j \in 1 .. m : i = n + j
        <5>1. i - n \in 1 .. m /\ i = n + (i - n)
          BY <2>13, <2>21, <3>2
        <5> QED BY <5>1
      <4> QED BY <2>16, <2>24, <4>1
    <3>3. CASE i > c
      <4>1. PICK j \in 1 .. k : i = (n + m) + 1 + j
        <5>1. i - c \in 1 .. k /\ i = c + (i - c)
          BY <2>13, <2>21, <3>3
        <5> QED BY <2>21, <5>1
      <4>2. r[i] = Fall(ps[j], of, l)
        BY <2>13, <4>1
      <4>3. Fall(ps[j], of, l).level = 0
        BY DEF Fall
      <4> QED BY <2>24, <4>2, <4>3
    <3> QED BY <2>13, <2>21, <3>1, <3>2, <3>3
  <2> QED BY <2>7, <2>11, <2>20, <2>24
<1> QED BY <1>1, <1>5, AppendKeeps

LEMMA WatchdogSource ==
    ASSUME DriverTypes, SourceInv, SetWatchdog
    PROVE  SourceInv'
<1>1. /\ bit' = bit /\ acc' = acc /\ checksum' = checksum /\ callback' = callback
      /\ astray' = astray /\ trigger' = "idle" /\ events' = events
  BY DEF SetWatchdog, message
<1>2. PICK n \in Nat : n = Len(events)
  BY DEF DriverTypes
<1>3. n + 1 \in (n + 1) .. (n + 1) /\ (n + 1) .. ((n + 1) - 1) = {} /\ ~(n + 1 <= n)
  OBVIOUS
<1>4. Starts(events, n + 1) /\ Ends(events, n + 1, trigger')
  BY <1>1, <1>2, <1>3 DEF Starts, Ends
<1>5. Grows(events, trigger, events, trigger')
  BY <1>2, <1>4 DEF Grows
<1>6. (n + 1) .. n = {}
  OBVIOUS
<1> QED BY <1>1, <1>2, <1>5, <1>6, AppendKeeps

LEMMA TimesOutSource ==
    ASSUME DriverTypes, SourceInv, TimesOut
    PROVE  SourceInv'
<1>1. /\ bit' = bit /\ acc' = acc /\ checksum' = checksum /\ callback' = callback
      /\ astray' = astray
      /\ trigger = "idle" /\ trigger' = "idle" /\ events' = Append(events, Timeout)
  BY DEF TimesOut, message
<1>2. events \in Seq(Notes)
  BY DEF DriverTypes
<1>3. PICK r : r = events' /\ r = Append(events, Timeout)
  BY <1>1
<1>4. PICK n \in Nat : n = Len(events)
  BY <1>2
<1>5. /\ r \in Seq(Notes) /\ Len(r) = n + 1 /\ \A i \in 1 .. n : r[i] = events[i]
      /\ r[n + 1] = Timeout
  BY <1>2, <1>3, <1>4, NoteTypes
<1>6. /\ n + 2 \in (n + 1) .. (Len(r) + 1) /\ (n + 1) .. ((n + 2) - 1) = {n + 1}
      /\ ~(n + 2 <= Len(r))
  BY <1>5
<1>7. r[n + 1].level = 2
  BY <1>5, NoteTypes
<1>8. Starts(r, n + 1) /\ Ends(r, n + 1, trigger')
  BY <1>1, <1>6, <1>7 DEF Starts, Ends
<1>9. Grows(events, trigger, r, trigger')
  BY <1>4, <1>5, <1>8 DEF Grows
<1>10. \A i \in (n + 1) .. Len(r) : r[i].level # 1
  BY <1>5, <1>7
<1> QED BY <1>1, <1>3, <1>4, <1>9, <1>10, AppendKeeps

LEMMA PowerSource ==
    ASSUME DriverTypes, SourceInv, PowerBack
    PROVE  SourceInv'
<1>1. /\ bit' = bit /\ acc' = acc /\ checksum' = checksum /\ astray' = astray
      /\ callback = "cycling" /\ callback' = "ready" /\ trigger' = trigger
  BY DEF PowerBack, message
<1>2. PICK p \in Seq(Notes), g \in Seq(Notes) :
        /\ events' = (events \o p) \o g
        /\ p = <<>> \/ \E w \in Widths : p = <<Fall(w, None, 0)>>
        /\ g = <<>> \/ (Len(g) = 1 /\ g[1].level = 1 /\ (p = <<>> => ~g[1].seen))
  BY PowerIsBack
<1>3. events \in Seq(Notes) /\ events \o p \in Seq(Notes)
  BY Joined DEF DriverTypes
<1>4. PICK n \in Nat, m \in Nat, k \in Nat : n = Len(events) /\ m = Len(p) /\ k = Len(g)
  BY <1>3
<1>5. PICK r : r = events'
  OBVIOUS
<1>6. /\ Len(r) = n + m + k /\ Len(r) \in Nat
      /\ \A i \in 1 .. n : r[i] = events[i]
      /\ \A i \in 1 .. m : r[n + i] = p[i]
      /\ \A i \in 1 .. k : r[n + m + i] = g[i]
  <2>1. PICK q \in Seq(Notes) : q = events \o p
    BY <1>3
  <2>2. /\ Len(q) = n + m /\ \A i \in 1 .. n : q[i] = events[i]
        /\ \A i \in 1 .. m : q[n + i] = p[i]
    BY <1>3, <1>4, <2>1, Joined
  <2>3. r = q \o g
    BY <1>2, <1>5, <2>1
  <2>4. /\ Len(r) = n + m + k /\ \A i \in 1 .. (n + m) : r[i] = q[i]
        /\ \A i \in 1 .. k : r[n + m + i] = g[i]
    <3>1. /\ Len(q \o g) = Len(q) + Len(g)
          /\ \A i \in 1 .. Len(q) : (q \o g)[i] = q[i]
          /\ \A i \in 1 .. Len(g) : (q \o g)[Len(q) + i] = g[i]
      BY <2>1, Joined
    <3> QED BY <1>4, <2>2, <2>3, <3>1
  <2>5. \A i \in 1 .. n : i \in 1 .. (n + m)
    OBVIOUS
  <2>6. \A i \in 1 .. m : n + i \in 1 .. (n + m)
    OBVIOUS
  <2> QED BY <2>2, <2>4, <2>5, <2>6
<1>7. (m = 0 /\ p = <<>>) \/ (m = 1 /\ p[1].level = 0 /\ IsPull(p[1]))
  <2>1. ASSUME NEW w \in Widths, p = <<Fall(w, None, 0)>>
        PROVE  m = 1 /\ p[1].level = 0 /\ IsPull(p[1])
    <3>1. PICK e : e = Fall(w, None, 0)
      OBVIOUS
    <3>2. m = 1 /\ p[1] = e
      BY <1>4, <2>1, <3>1
    <3> QED BY <3>1, <3>2, NoteTypes DEF IsPull
  <2>2. p = <<>> => m = 0
    BY <1>4
  <2> QED BY <1>2, <2>1, <2>2
<1>8. \/ k = 0
      \/ k = 1 /\ g[1].level = 1 /\ (m = 0 => Breaks(g[1]))
  <2>1. m = 0 => p = <<>>
    BY <1>7
  <2> QED BY <1>2, <1>4, <2>1 DEF Breaks
<1>9. /\ Starts(r, n + 1)
      /\ trigger \notin {"pulled", "wrapped"} => Ends(r, n + 1, trigger')
  <2>1. CASE m = 1
    <3>1. n + 1 \in 1 .. Len(r) /\ r[n + 1] = p[1]
      BY <1>6, <2>1
    <3>2. IsPull(r[n + 1])
      BY <1>7, <2>1, <3>1
    <3>3. Starts(r, n + 1) /\ Ends(r, n + 1, trigger')
      BY <1>6, <3>1, <3>2, First DEF Breaks
    <3> QED BY <3>3
  <2>2. CASE m = 0 /\ k = 1
    <3>1. n + 1 \in 1 .. Len(r) /\ r[n + 1] = g[1]
      BY <1>6, <2>2
    <3>2. r[n + 1].level = 1 /\ Breaks(r[n + 1])
      BY <1>8, <2>2, <3>1
    <3>3. Starts(r, n + 1) /\ Ends(r, n + 1, trigger')
      BY <1>6, <3>1, <3>2, First
    <3> QED BY <3>3
  <2>3. CASE m = 0 /\ k = 0
    <3>1. Len(r) + 1 = n + 1
      BY <1>6, <2>3
    <3> QED BY <1>1, <1>6, <3>1, AtEnd
  <2> QED BY <1>7, <1>8, <2>1, <2>2, <2>3
<1>10. Grows(events, trigger, r, trigger')
  <2>1. Len(events) <= Len(r) /\ Len(events) \in Nat
    BY <1>4, <1>6
  <2> QED BY <1>4, <1>6, <1>9, <2>1 DEF Grows
<1>11. ASSUME NEW i \in (n + 1) .. Len(r), r[i].level = 1  PROVE Announced(r, i, trigger')
  <2>1. CASE i = Len(r)
    BY <1>6, <2>1, AtEnd
  <2>2. CASE i # Len(r)
    <3>1. m = 1 /\ i = n + 1
      BY <1>6, <1>7, <1>8, <2>2
    <3>2. r[i] = p[1]
      BY <1>6, <3>1
    <3> QED BY <1>7, <1>11, <3>1, <3>2
  <2> QED BY <2>1, <2>2
<1> QED BY <1>1, <1>4, <1>5, <1>10, <1>11, AppendKeeps

\* What a falling edge does to the message, by the width w of its pulse.
LEMMA FallIs ==
    ASSUME DriverTypes, SourceInv, FallingEdge
    PROVE  \E w \in Widths :
             /\ w = events[1].width /\ events[1].level = 0
             /\ acc' \in [0 .. 3 -> Nat] /\ checksum' \in Nat /\ astray' \in BOOLEAN
             /\ ~astray' => ~astray /\ ~(IsPull(events[1]) /\ w # Bad)
             /\ Poisoned \/ w = Bad => Poisoned'
             /\ ~Poisoned /\ w # Bad =>
                  \/ /\ bit < 0 /\ bit' = bit + 1 /\ acc' = acc /\ checksum' = checksum
                  \/ /\ bit \in 0 .. (4 * ByteBits - 1) /\ bit' = bit + 1 /\ checksum' = checksum
                     /\ acc' = [acc EXCEPT ![bit \div ByteBits]
                                   = 2 * acc[bit \div ByteBits] + Value(w)]
                  \/ /\ bit \in (4 * ByteBits) .. (5 * ByteBits - 1) /\ bit' = bit + 1
                     /\ checksum' = 2 * checksum + Value(w)
                     /\ bit' = 5 * ByteBits \/ acc' = acc
<1>1. /\ events \in Seq(Notes) /\ events # <<>> /\ Head(events).level = 0
      /\ bit \in Int /\ checksum \in Nat
  BY DEF FallingEdge, Handles, DriverTypes, SourceInv
<1>2. Head(events) = events[1] /\ events[1] \in Notes
  BY <1>1, Handled
<1>3. PICK w : w = events[1].width
  OBVIOUS
<1>4. w \in Widths /\ events[1].level = 0 /\ Head(events).width = w
  BY <1>1, <1>2, <1>3 DEF Notes
<1>5. ByteValues \in Nat /\ ByteValues > 0 /\ ByteBits \in Nat /\ ByteBits > 0
  BY PowerIs, BitsAre DEF ByteValues
<1>6. /\ Marked(w) \in Nat /\ Value(w) \in {0, 1}
      /\ w # Bad => Marked(w) = checksum
      /\ w = Bad \/ checksum >= ByteValues => Marked(w) >= ByteValues
  BY <1>1, <1>5 DEF Marked, Value
<1>12. astray' \in BOOLEAN /\ (~astray' => ~astray /\ ~(IsPull(events[1]) /\ w # Bad))
  <2>1. astray' = (astray \/ (events[1].of = None /\ w # Bad))
    BY <1>2, <1>4 DEF FallingEdge
  <2> QED BY <2>1 DEF IsPull
<1>7. acc' \in [0 .. 3 -> Nat]
  <2>1. acc \in [0 .. 3 -> Nat]
    BY DEF SourceInv
  <2>2. CASE FallingInData
    <3>1. bit \in 0 .. (4 * ByteBits - 1)
      BY <1>1, <1>5, <2>2 DEF FallingInData
    <3>2. PICK b \in 0 .. 3 : b = bit \div ByteBits
      BY <3>1, ByteOf
    <3>3. PICK x \in Nat : x = 2 * acc[b] + Value(w)
      BY <1>6, <2>1
    <3>4. acc' = [acc EXCEPT ![b] = x]
      BY <1>4, <2>2, <3>2, <3>3 DEF FallingInData
    <3> QED BY <2>1, <3>4
  <2>3. CASE FallingInChecksum
    <3>1. PICK sign \in Nat \ {0} : sign = Power[ByteBits - 1]
      <4>1. ByteBits - 1 \in 0 .. ByteBits
        BY <1>5
      <4> QED BY <4>1, PowerIs
    <3>2. PICK x \in Nat : x = acc[2] % sign
      BY <2>1
    <3>3. acc' = acc \/ acc' = [acc EXCEPT ![2] = x]
      BY <2>3, <3>1, <3>2 DEF FallingInChecksum
    <3> QED BY <2>1, <3>3
  <2>4. CASE FallingAfter \/ FallingInHeader
    BY <2>1, <2>4 DEF FallingAfter, FallingInHeader
  <2> QED BY <2>2, <2>3, <2>4 DEF FallingEdge
<1>8. CASE FallingAfter
  <2>1. bit >= 5 * ByteBits /\ bit' = 5 * ByteBits + 1 /\ checksum' = Marked(w)
    BY <1>4, <1>8 DEF FallingAfter
  <2>2. Poisoned /\ Poisoned'
    BY <1>5, <2>1 DEF Poisoned
  <2> QED BY <1>3, <1>4, <1>7, <1>12, <1>6, <2>1, <2>2
<1>9. CASE FallingInHeader
  <2>1. bit < 0 /\ bit' = bit + 1 /\ checksum' = Marked(w) /\ acc' = acc
    BY <1>4, <1>9 DEF FallingInHeader
  <2>2. Poisoned \/ w = Bad => Poisoned'
    BY <1>1, <1>5, <1>6, <2>1 DEF Poisoned
  <2> QED BY <1>3, <1>4, <1>7, <1>12, <1>6, <2>1, <2>2
<1>10. CASE FallingInData
  <2>1. /\ bit >= 0 /\ bit < 4 * ByteBits /\ bit' = bit + 1 /\ checksum' = Marked(w)
        /\ acc' = [acc EXCEPT ![bit \div ByteBits] = 2 * acc[bit \div ByteBits] + Value(w)]
    BY <1>4, <1>10 DEF FallingInData
  <2>2. Poisoned \/ w = Bad => Poisoned'
    BY <1>1, <1>5, <1>6, <2>1 DEF Poisoned
  <2>3. bit \in 0 .. (4 * ByteBits - 1)
    BY <1>1, <1>5, <2>1
  <2> QED BY <1>3, <1>4, <1>7, <1>12, <1>6, <2>1, <2>2, <2>3
<1>11. CASE FallingInChecksum
  <2>1. /\ bit >= 4 * ByteBits /\ bit < 5 * ByteBits /\ bit' = bit + 1
        /\ checksum' = 2 * Marked(w) + Value(w)
        /\ bit = 5 * ByteBits - 1 \/ acc' = acc
    BY <1>4, <1>11 DEF FallingInChecksum
  <2>2. Poisoned \/ w = Bad => Poisoned'
    BY <1>1, <1>5, <1>6, <2>1 DEF Poisoned
  <2>3. /\ bit \in (4 * ByteBits) .. (5 * ByteBits - 1) /\ checksum' \in Nat
        /\ bit' = 5 * ByteBits \/ acc' = acc
    BY <1>1, <1>5, <1>6, <2>1
  <2>4. w # Bad => checksum' = 2 * checksum + Value(w)
    BY <1>6, <2>1
  <2> QED BY <1>3, <1>4, <1>7, <1>12, <2>1, <2>2, <2>3, <2>4
<1> QED BY <1>8, <1>9, <1>10, <1>11 DEF FallingEdge

LEMMA FallingSource ==
    ASSUME DriverTypes, SourceInv, FallingEdge
    PROVE  SourceInv'
<1>1. /\ events \in Seq(Notes) /\ events # <<>> /\ events' = Tail(events) /\ bit \in Int
      /\ callback = "ready" /\ trigger' = trigger
  BY DEF FallingEdge, Handles, DriverTypes
<1>2. PICK r : r = events'
  OBVIOUS
<1>3. r = events' /\ Shifts(events, r) /\ Len(events) \in Nat /\ 1 \in 1 .. Len(events)
  <2>1. Shifts(events, r)
    BY <1>1, <1>2, TailShifts
  <2>2. Len(events) \in Nat /\ 1 \in 1 .. Len(events)
    BY <1>1, Handled
  <2> QED BY <1>2, <2>1, <2>2
<1>4. QueueRight(r, trigger) /\ (~astray => Poisoned \/ Awaits \/ Receives)
  BY <1>1, <1>3, QueueShift DEF SourceInv
<1>5. PICK w \in Widths :
             /\ w = events[1].width /\ events[1].level = 0
             /\ acc' \in [0 .. 3 -> Nat] /\ checksum' \in Nat /\ astray' \in BOOLEAN
             /\ ~astray' => ~astray /\ ~(IsPull(events[1]) /\ w # Bad)
             /\ Poisoned \/ w = Bad => Poisoned'
             /\ ~Poisoned /\ w # Bad =>
                  \/ /\ bit < 0 /\ bit' = bit + 1 /\ acc' = acc /\ checksum' = checksum
                  \/ /\ bit \in 0 .. (4 * ByteBits - 1) /\ bit' = bit + 1 /\ checksum' = checksum
                     /\ acc' = [acc EXCEPT ![bit \div ByteBits]
                                   = 2 * acc[bit \div ByteBits] + Value(w)]
                  \/ /\ bit \in (4 * ByteBits) .. (5 * ByteBits - 1) /\ bit' = bit + 1
                     /\ checksum' = 2 * checksum + Value(w)
                     /\ bit' = 5 * ByteBits \/ acc' = acc
  BY FallIs
<1>6. SUFFICES ASSUME ~astray', ~Poisoned, w # Bad  PROVE Receives' \/ Poisoned'
  BY <1>1, <1>3, <1>4, <1>5 DEF SourceInv
<1>7. ~IsPull(events[1]) /\ ~Breaks(events[1])
  BY <1>5, <1>6 DEF Breaks
<1>8. ~Awaits
  BY <1>3, <1>5, <1>7, StartsWith DEF Awaits
<1>9. PICK of \in Replies, l \in Nat : \E ps \in Arrived(of, l) : \E n \in 0 .. Len(ps) :
        ReceivesOf(of, l, ps, n)
  BY <1>4, <1>5, <1>6, <1>8 DEF Receives
<1>10. PICK ps \in Arrived(of, l) : \E n \in 0 .. Len(ps) : ReceivesOf(of, l, ps, n)
  BY <1>9
<1>11. PICK n \in 0 .. Len(ps) :
        /\ bit = n - 2 /\ Holds(acc, checksum, Got(ps), bit)
        /\ Coming(events, 1, ps, n, of, l, trigger)
  BY <1>10 DEF ReceivesOf
<1>12. ps \in Seq(Widths) /\ Len(ps) \in Nat
  BY DEF Arrived
<1>13. n < Len(ps)
  <2>1. CASE n = Len(ps)
    <3>1. Ends(events, 1, trigger)
      BY <1>3, <1>11, <1>12, <2>1, ComingDone
    <3>2. events[1].level # 2
      BY <1>5
    <3> QED BY <1>3, <1>7, <3>1, <3>2, EndsWith
  <2> QED BY <1>12, <2>1
<1>14. events[1] = Fall(ps[n + 1], of, l) /\ Coming(r, 1, ps, n + 1, of, l, trigger)
  BY <1>3, <1>11, <1>12, <1>13, ComingNext
<1>15. w = ps[n + 1]
  BY <1>5, <1>14 DEF Fall
<1>16. PICK v \in Bits : v = Got(ps)
  BY <1>12, GotBits
<1>17. bit \in 0 .. (5 * ByteBits - 1) => v[bit + 1] = Value(w)
  <2> SUFFICES ASSUME bit \in 0 .. (5 * ByteBits - 1)  PROVE v[bit + 1] = Value(w)
    OBVIOUS
  <2>1. bit + 1 \in 1 .. (5 * ByteBits) /\ (bit + 1) + 2 = n + 1 /\ n + 1 <= Len(ps)
    BY <1>11, <1>12, <1>13, BitsAre
  <2>2. (bit + 1) + 2 <= Len(ps)
    BY <2>1
  <2>3. Got(ps)[bit + 1] = Value(ps[(bit + 1) + 2])
    BY <1>12, <2>1, <2>2, GotBits
  <2> QED BY <1>15, <1>16, <2>1, <2>3
<1>18. bit' = 5 * ByteBits \/ (bit' = bit + 1 /\ Holds(acc', checksum', v, bit'))
  <2>1. ByteBits \in Nat /\ ByteBits > 0
    BY BitsAre
  <2>2. CASE bit < 0 /\ bit' = bit + 1 /\ acc' = acc /\ checksum' = checksum
    <3>1. bit \in (-2) .. 0 /\ bit + 1 \in (-2) .. 0
      BY <1>1, <1>11, <1>12, <2>2
    <3>2. Holds(acc, checksum, v, bit + 1)
      BY <1>11, <1>16, <3>1, HoldsNone
    <3> QED BY <2>2, <3>2
  <2>3. CASE /\ bit \in 0 .. (4 * ByteBits - 1) /\ bit' = bit + 1 /\ checksum' = checksum
             /\ acc' = [acc EXCEPT ![bit \div ByteBits]
                                   = 2 * acc[bit \div ByteBits] + Value(w)]
    <3>1. v[bit + 1] = Value(w)
      BY <1>17, <2>1, <2>3
    <3>2. acc' = [acc EXCEPT ![bit \div ByteBits] = 2 * acc[bit \div ByteBits] + v[bit + 1]]
      BY <2>3, <3>1
    <3>3. Holds(acc', checksum, v, bit + 1)
      BY <1>11, <1>16, <2>3, <3>2, HoldsData
    <3> QED BY <2>3, <3>3
  <2>4. CASE /\ bit \in (4 * ByteBits) .. (5 * ByteBits - 1) /\ bit' = bit + 1
             /\ checksum' = 2 * checksum + Value(w)
             /\ acc' = acc
    <3>1. v[bit + 1] = Value(w)
      BY <1>17, <2>1, <2>4
    <3>2. Holds(acc, 2 * checksum + v[bit + 1], v, bit + 1)
      BY <1>11, <1>16, <2>4, HoldsChecksum
    <3> QED BY <2>4, <3>1, <3>2
  <2> QED BY <1>5, <1>6, <2>2, <2>3, <2>4
<1>19. CASE bit' = 5 * ByteBits
  <2>1. bit' >= 5 * ByteBits
    BY <1>19, BitsAre
  <2> QED BY <2>1 DEF Poisoned
<1>20. CASE bit' = bit + 1 /\ Holds(acc', checksum', v, bit')
  <2>1. n + 1 \in 0 .. Len(ps) /\ bit' = (n + 1) - 2
    BY <1>1, <1>11, <1>12, <1>13, <1>20
  <2>2. /\ Holds(acc', checksum', Got(ps), bit')
        /\ Coming(events', 1, ps, n + 1, of, l, trigger')
    BY <1>1, <1>3, <1>14, <1>16, <1>20
  <2>3. Receives'
    BY <2>1, <2>2 DEF Receives, ReceivesOf
  <2> QED BY <2>3
<1> QED BY <1>18, <1>19, <1>20

\* A rising edge that begins no message comes before any of it has been read, or the
\* message goes astray.
LEMMA RisingSource ==
    ASSUME DriverTypes, SourceInv, RisingEdge
    PROVE  SourceInv'
<1>1. /\ events \in Seq(Notes) /\ events # <<>> /\ events' = Tail(events)
      /\ callback = "ready" /\ trigger' = trigger
      /\ Head(events).level = 1 /\ checksum \in Nat
      /\ \/ bit' = -2 /\ acc' = [byte \in 0..3 |-> 0] /\ checksum' = 0
         \/ UNCHANGED <<bit, acc, checksum>> /\ (~astray' => ~astray /\ Head(events).seen)
      /\ astray' \in BOOLEAN
  BY DEF RisingEdge, Handles, DriverTypes, SourceInv
<1>2. PICK r : r = events'
  OBVIOUS
<1>3. r = events' /\ Shifts(events, r) /\ Len(events) \in Nat /\ 1 \in 1 .. Len(events)
  <2>1. Shifts(events, r)
    BY <1>1, <1>2, TailShifts
  <2>2. Len(events) \in Nat /\ 1 \in 1 .. Len(events)
    BY <1>1, Handled
  <2> QED BY <1>2, <2>1, <2>2
<1>4. /\ QueueRight(r, trigger) /\ (~astray => Poisoned \/ Awaits \/ Receives)
      /\ acc' \in [0 .. 3 -> Nat] /\ checksum' \in Nat
  BY <1>1, <1>3, QueueShift DEF SourceInv
<1>5. /\ events[1].level = 1 /\ Announced(events, 1, trigger)
      /\ Head(events) = events[1]
  BY <1>1, <1>3, Handled DEF SourceInv, QueueRight
<1>6. ASSUME Receives, Head(events).seen
      PROVE  bit = -2 /\ acc = [b \in 0 .. 3 |-> 0] /\ checksum = 0
  <2>1. PICK of \in Replies, l \in Nat : \E ps \in Arrived(of, l) : \E n \in 0 .. Len(ps) :
        ReceivesOf(of, l, ps, n)
    BY <1>6 DEF Receives
  <2>2. PICK ps \in Arrived(of, l) : \E n \in 0 .. Len(ps) : ReceivesOf(of, l, ps, n)
    BY <2>1
  <2>3. PICK n \in 0 .. Len(ps) : Coming(events, 1, ps, n, of, l, trigger)
    BY <2>2 DEF ReceivesOf
  <2>4. ps \in Seq(Widths) /\ Len(ps) \in Nat
    BY DEF Arrived
  <2>5. CASE n < Len(ps)
    <3>1. events[1] = Fall(ps[n + 1], of, l)
      BY <1>3, <2>3, <2>4, <2>5, ComingNext
    <3>2. Fall(ps[n + 1], of, l).level = 0
      BY DEF Fall
    <3> QED BY <1>5, <3>1, <3>2
  <2>6. CASE n = Len(ps)
    <3>1. Ends(events, 1, trigger)
      BY <1>3, <2>3, <2>4, <2>6, ComingDone
    <3>2. Breaks(events[1])
      BY <1>3, <1>5, <3>1, EndsWith
    <3> QED BY <1>5, <1>6, <3>2 DEF Breaks, IsPull
  <2> QED BY <2>4, <2>5, <2>6
<1>7. \/ astray' \/ Poisoned'
      \/ bit' = -2 /\ acc' = [b \in 0 .. 3 |-> 0] /\ checksum' = 0
  <2>1. CASE UNCHANGED <<bit, acc, checksum>> /\ (~astray' => ~astray /\ Head(events).seen)
    BY <1>4, <1>6, <2>1 DEF Poisoned, Awaits
  <2> QED BY <1>1, <2>1
<1>8. SUFFICES ASSUME bit' = -2 /\ acc' = [b \in 0 .. 3 |-> 0] /\ checksum' = 0
               PROVE  Awaits' \/ Receives'
  BY <1>1, <1>3, <1>4, <1>7 DEF SourceInv
<1>9. CASE Starts(events, 1 + 1)
  <2>1. Starts(r, 1)
    BY <1>3, <1>9, StartsShift
  <2> QED BY <1>3, <1>8, <2>1 DEF Awaits
<1>10. ASSUME NEW of \in Replies, NEW l \in Nat, NEW ps \in Arrived(of, l),
              Coming(events, 1 + 1, ps, 0, of, l, trigger)
       PROVE  Receives'
  <2>1. ps \in Seq(Widths) /\ 0 \in 0 .. Len(ps) /\ Got(ps) \in Bits
    BY GotBits DEF Arrived
  <2>2. Coming(r, 1, ps, 0, of, l, trigger)
    BY <1>3, <1>10, <2>1, ComingShift
  <2>3. Holds(acc', checksum', Got(ps), -2)
    BY <1>8, <2>1, HoldsNone
  <2>4. /\ bit' = 0 - 2 /\ Holds(acc', checksum', Got(ps), bit')
        /\ Coming(events', 1, ps, 0, of, l, trigger')
    BY <1>1, <1>3, <1>8, <2>2, <2>3
  <2>5. ReceivesOf(of, l, ps, 0)'
    BY <2>4 DEF ReceivesOf
  <2> QED BY <2>1, <2>5 DEF Receives
<1> QED BY <1>5, <1>9, <1>10 DEF Announced

LEMMA TimeoutSource ==
    ASSUME DriverTypes, SourceInv, WatchdogTimeout
    PROVE  SourceInv'
<1>1. /\ events \in Seq(Notes) /\ events # <<>> /\ events' = Tail(events)
      /\ callback = "ready" /\ trigger' = trigger
      /\ Head(events).level = 2
      /\ bit' = bit /\ acc' = acc /\ checksum' = checksum /\ astray' = astray
  BY DEF WatchdogTimeout, Handles, DriverTypes, message
<1>2. PICK r : r = events'
  OBVIOUS
<1>3. r = events' /\ Shifts(events, r) /\ Len(events) \in Nat /\ 1 \in 1 .. Len(events)
  <2>1. Shifts(events, r)
    BY <1>1, <1>2, TailShifts
  <2>2. Len(events) \in Nat /\ 1 \in 1 .. Len(events)
    BY <1>1, Handled
  <2> QED BY <1>2, <2>1, <2>2
<1>4. /\ QueueRight(r, trigger) /\ (~astray => Poisoned \/ Awaits \/ Receives)
      /\ acc' \in [0 .. 3 -> Nat] /\ checksum' \in Nat /\ astray' \in BOOLEAN
      /\ events[1].level = 2
  BY <1>1, <1>3, QueueShift, Handled DEF SourceInv
<1>5. CASE Poisoned
  <2>1. Poisoned'
    BY <1>1, <1>5 DEF Poisoned
  <2> QED BY <1>1, <1>3, <1>4, <2>1 DEF SourceInv
<1>6. CASE Awaits
  <2>1. Starts(events, 1 + 1)
    BY <1>3, <1>4, <1>6, StartsLater DEF Awaits
  <2>2. Starts(r, 1)
    BY <1>3, <2>1, StartsShift
  <2>3. Awaits'
    BY <1>1, <1>3, <1>6, <2>2 DEF Awaits
  <2> QED BY <1>1, <1>3, <1>4, <2>3 DEF SourceInv
<1>7. CASE Receives
  <2>1. PICK of \in Replies, l \in Nat : \E ps \in Arrived(of, l) : \E n \in 0 .. Len(ps) :
        ReceivesOf(of, l, ps, n)
    BY <1>7 DEF Receives
  <2>2. PICK ps \in Arrived(of, l) : \E n \in 0 .. Len(ps) : ReceivesOf(of, l, ps, n)
    BY <2>1
  <2>3. PICK n \in 0 .. Len(ps) :
        /\ bit = n - 2 /\ Holds(acc, checksum, Got(ps), bit)
        /\ Coming(events, 1, ps, n, of, l, trigger)
    BY <2>2 DEF ReceivesOf
  <2>4. ps \in Seq(Widths) /\ \A x : Fall(x, of, l).level = 0
    BY DEF Arrived, Fall
  <2>5. Coming(r, 1, ps, n, of, l, trigger)
    BY <1>3, <1>4, <2>3, <2>4, ComingLater
  <2>6. /\ bit' = n - 2 /\ Holds(acc', checksum', Got(ps), bit')
        /\ Coming(events', 1, ps, n, of, l, trigger')
    BY <1>1, <1>3, <2>3, <2>5
  <2>7. Receives'
    BY <2>6 DEF Receives, ReceivesOf
  <2> QED BY <1>1, <1>3, <1>4, <2>7 DEF SourceInv
<1>8. CASE astray
  BY <1>1, <1>3, <1>4, <1>8 DEF SourceInv
<1> QED BY <1>4, <1>5, <1>6, <1>7, <1>8

LEMMA SourceNext == DriverInv /\ SourceInv /\ [Next]_vars => SourceInv'
<1> SUFFICES ASSUME DriverInv, SourceInv, [Next]_vars  PROVE SourceInv'
  OBVIOUS
<1>1. DriverTypes
  BY DEF DriverInv
<1>2. CASE Cancel
  <2>1. acc' = acc /\ checksum' = checksum /\ callback' = "cancelled" /\ astray' = astray
    BY <1>2 DEF Cancel, message
  <2> QED BY <2>1 DEF SourceInv
<1>3. CASE UNCHANGED vars
  <2>1. UNCHANGED <<bit, acc, checksum, astray, events, callback, trigger>>
    BY <1>3 DEF vars, message
  <2> QED BY <2>1 DEF SourceInv, Poisoned, Awaits, Receives, ReceivesOf
<1> QED BY <1>1, <1>2, <1>3, PullSource, ReleaseSource, WatchdogSource, TimesOutSource,
           FallingSource, RisingSource, TimeoutSource, PowerSource DEF Next

\* The step that accepts a reading.
LEMMA AcceptedSent ==
    ASSUME DriverTypes, SourceInv, FallingEdge, readings' # readings, ~astray'
    PROVE  /\ Head(events).of # None
           /\ reading' = Decoded(Head(events).of) \/ Head(events).longer >= 2
<1>1. /\ events \in Seq(Notes) /\ events # <<>> /\ events' = Tail(events) /\ bit \in Int
      /\ callback = "ready" /\ acc \in [0 .. 3 -> Nat] /\ checksum \in Nat
  BY DEF FallingEdge, Handles, DriverTypes, SourceInv
<1>2. /\ bit = 5 * ByteBits - 1 /\ ChecksumOk(checksum') /\ reading' = Measured
      /\ checksum' = 2 * Marked(Head(events).width) + Value(Head(events).width)
  BY DEF FallingEdge, FallingAfter, FallingInChecksum, FallingInData, FallingInHeader
<1>3. PICK r : r = events'
  OBVIOUS
<1>4. r = events' /\ Shifts(events, r) /\ Len(events) \in Nat /\ 1 \in 1 .. Len(events)
  <2>1. Shifts(events, r)
    BY <1>1, <1>3, TailShifts
  <2>2. Len(events) \in Nat /\ 1 \in 1 .. Len(events)
    BY <1>1, Handled
  <2> QED BY <1>3, <2>1, <2>2
<1>5. Head(events) = events[1] /\ events[1].level = 0
  BY <1>1, Handled DEF FallingEdge, Handles
<1>6. PICK B \in Nat : B = ByteBits /\ B > 0
  BY BitsAre
<1>7. PICK M \in Nat \ {0} : M = ByteValues
  BY PowerIs, BitsAre DEF ByteValues
<1>8. PICK s \in Nat : s = acc[0] + acc[1] + acc[2] + acc[3]
  BY <1>1
<1>9. s % M = checksum'
  BY <1>2, <1>7, <1>8 DEF ChecksumOk
<1>10. checksum' < M
  BY <1>7, <1>8, <1>9, DivMod
<1>11. PICK w : w = Head(events).width
  OBVIOUS
<1>12. w # Bad /\ checksum < M /\ checksum' = 2 * checksum + Value(w)
  <2>1. checksum' = 2 * (IF w = Bad THEN M ELSE checksum) + Value(w)
    BY <1>2, <1>7, <1>11 DEF Marked
  <2>2. Value(w) \in {0, 1}
    BY DEF Value
  <2>3. PICK c \in Nat : c = checksum
    BY <1>1
  <2>4. w # Bad
    BY <1>7, <1>10, <2>1, <2>2
  <2> QED BY <1>7, <1>10, <2>1, <2>2, <2>3, <2>4
<1>13. ~Poisoned /\ ~Awaits
  BY <1>1, <1>2, <1>6, <1>7, <1>12 DEF Poisoned, Awaits
<1>30. ~astray /\ ~IsPull(events[1])
  <2>1. ~astray /\ ~(Head(events).of = None /\ Head(events).width # Bad)
    BY DEF FallingEdge, SourceInv
  <2> QED BY <1>5, <1>11, <1>12, <2>1 DEF IsPull
<1>14. PICK of \in Replies, l \in Nat : \E ps \in Arrived(of, l) : \E n \in 0 .. Len(ps) :
        ReceivesOf(of, l, ps, n)
  BY <1>1, <1>13, <1>30 DEF SourceInv, Receives
<1>15. PICK ps \in Arrived(of, l) : \E n \in 0 .. Len(ps) : ReceivesOf(of, l, ps, n)
  BY <1>14
<1>16. PICK n \in 0 .. Len(ps) :
        /\ bit = n - 2 /\ Holds(acc, checksum, Got(ps), bit)
        /\ Coming(events, 1, ps, n, of, l, trigger)
  BY <1>15 DEF ReceivesOf
<1>17. ps \in Seq(Widths) /\ Len(ps) \in Nat
  BY DEF Arrived
<1>18. n < Len(ps)
  <2>1. CASE n = Len(ps)
    <3>1. Ends(events, 1, trigger)
      BY <1>4, <1>16, <1>17, <2>1, ComingDone
    <3>2. Breaks(events[1])
      BY <1>4, <1>5, <3>1, EndsWith
    <3> QED BY <1>5, <1>30, <3>2 DEF Breaks
  <2> QED BY <1>17, <2>1
<1>19. events[1] = Fall(ps[n + 1], of, l)
  BY <1>4, <1>16, <1>17, <1>18, ComingNext
<1>20. w = ps[n + 1] /\ Head(events).of = of /\ Head(events).longer = l
  BY <1>5, <1>11, <1>19 DEF Fall
<1>21. 5 * ByteBits + 2 <= Len(ps) /\ n + 1 = 5 * ByteBits + 2
  <2>1. n - 2 = 5 * B - 1 /\ n \in Nat /\ 5 * B \in Nat
    BY <1>2, <1>6, <1>16, <1>17
  <2>2. n + 1 = 5 * B + 2
    BY <2>1
  <2>3. 5 * B + 2 <= Len(ps)
    BY <1>17, <1>18, <2>1, <2>2
  <2> QED BY <1>6, <2>2, <2>3
<1>22. PICK v \in Bits : v = Got(ps)
  BY <1>17, GotBits
<1>23. bit \in (4 * ByteBits) .. (5 * ByteBits - 1) /\ bit + 1 = 5 * ByteBits
  BY <1>2, <1>6
<1>24. \A b \in 0 .. 3 : acc[b] = Byte(v, b + 1)
  BY <1>16, <1>22, <1>23, HoldsAll
<1>25. checksum' = Byte(v, 5)
  <2>1. v[bit + 1] = Value(w)
    <3>1. bit + 1 \in 1 .. (5 * ByteBits) /\ (bit + 1) + 2 <= Len(ps) /\ (bit + 1) + 2 = n + 1
      BY <1>6, <1>21, <1>23
    <3>2. Got(ps)[bit + 1] = Value(ps[(bit + 1) + 2])
      BY <1>17, <3>1, GotBits
    <3> QED BY <1>20, <1>22, <3>1, <3>2
  <2>2. Holds(acc, 2 * checksum + v[bit + 1], v, bit + 1)
    BY <1>16, <1>22, <1>23, HoldsChecksum
  <2>3. checksum' = Sum(v, 4, 5 * ByteBits)
    BY <1>12, <1>23, <2>1, <2>2 DEF Holds
  <2>4. 5 * ByteBits \in (-2) .. (5 * ByteBits) /\ 5 * ByteBits >= (4 + 1) * ByteBits /\ 4 + 1 = 5
    BY <1>6
  <2>5. Sum(v, 4, 5 * ByteBits) = Byte(v, 4 + 1)
    BY <2>4, SumIs
  <2> QED BY <2>3, <2>4, <2>5
<1>26. IsValid(v)
  <2>1. acc[0] = Byte(v, 1) /\ acc[1] = Byte(v, 2) /\ acc[2] = Byte(v, 3) /\ acc[3] = Byte(v, 4)
    BY <1>24
  <2>2. s = Byte(v, 1) + Byte(v, 2) + Byte(v, 3) + Byte(v, 4)
    BY <1>8, <2>1
  <2> QED BY <1>7, <1>9, <1>25, <2>2 DEF IsValid
<1>27. of # None /\ IsValid(of)
  BY ConstantsAssumption
<1>28. CASE l >= 2
  BY <1>20, <1>27, <1>28
<1>29. CASE ~(l >= 2)
  <2>1. l \in 0 .. 1
    BY <1>29
  <2>2. of \in Bits /\ (v = of \/ \E p : Raised(of, v, p))
    BY <1>21, <1>22, <2>1, WhatArrives
  <2>3. v = of
    BY <1>26, <1>27, <2>2, RaisedInvalid
  <2>4. Measured = Decoded(of)
    BY <1>24, <2>3, MeasuredIs
  <2> QED BY <1>2, <1>20, <1>27, <2>4
<1> QED BY <1>28, <1>29

\* A reading that is accepted is the one the sensor sent with the message whose edge
\* completed it, for bytes of any number of bits, any replies and any number of edges
\* lost, and however triggers, timeouts and power cycles follow each other (_cb): unless
\* two or more of that message's pulses were longer, or the message before it went
\* astray, because _cb took the edge of a pull for a bit of it or missed that edge and no
\* rising edge has begun a message since.
THEOREM ReadingsAreSent == Spec => ReadingSent
<1> DEFINE Sent == readings' # readings /\ ~astray' =>
                     /\ Head(events).of # None
                     /\ reading' = Decoded(Head(events).of) \/ Head(events).longer >= 2
<1>1. DriverInv /\ SourceInv /\ [Next]_vars => [Sent]_vars
  <2> SUFFICES ASSUME DriverInv, SourceInv, Next, readings' # readings, ~astray'
               PROVE  /\ Head(events).of # None
                      /\ reading' = Decoded(Head(events).of) \/ Head(events).longer >= 2
    BY DEF vars
  <2>1. FallingEdge
    BY DEF Next, Pull, Release, SetWatchdog, Cancel, TimesOut, RisingEdge, WatchdogTimeout,
           PowerBack, history
  <2> QED BY <2>1, AcceptedSent DEF DriverInv
<1> QED BY <1>1, DriverInit, DriverNext, SourceInit, SourceNext, PTL DEF Spec, ReadingSent

-----------------------------------------------------------------------------
(* Bytes that fit                                                          *)

\* How many bits of byte b have been read when the next is bit k.
BitsOf(b, k) ==
    IF k <= b * ByteBits THEN 0
    ELSE IF k >= (b + 1) * ByteBits THEN ByteBits ELSE k - b * ByteBits

Fits(a, k) ==
    /\ a \in [0 .. 3 -> Nat]
    /\ \A b \in 0 .. 3 : a[b] < Power[BitsOf(b, k)]

DriverNumbers ==
    /\ checksum \in Nat
    /\ {bad_cs, bad_sm, bad_mm, bad_sr} \subseteq Nat
    /\ no_response \in 0 .. MaxNoResponse

DriverSwitches ==
    /\ powered \in BOOLEAN /\ watchdog \in BOOLEAN
    /\ callback \in {"ready", "cycling", "cancelled"}
    /\ trigger \in {"idle", "pulled", "wrapped", "unseen", "released"}
    /\ powered <=> callback # "cycling"

DriverFields == DriverNumbers /\ DriverSwitches

BytesInv == DriverFields /\ bit \in (-2) .. (5 * ByteBits + 1) /\ Fits(acc, bit)

LEMMA NoneFit ==
    ASSUME NEW k \in Int
    PROVE  Fits([b \in 0 .. 3 |-> 0], k)
<1>1. ASSUME NEW b \in 0 .. 3 PROVE Power[BitsOf(b, k)] > 0
  <2>1. b * ByteBits \in Nat /\ (b + 1) * ByteBits = b * ByteBits + ByteBits /\ ByteBits \in Nat
    BY Places, BitsAre
  <2>2. BitsOf(b, k) \in 0 .. ByteBits
    BY <2>1 DEF BitsOf
  <2> QED BY <2>2, PowerIs
<1> QED BY <1>1 DEF Fits

\* Nothing is added to the bytes.
LEMMA FitsOn ==
    ASSUME NEW k \in Int, NEW m \in Int, NEW a, Fits(a, k),
           (m <= 0 /\ k <= 0) \/ (m >= 4 * ByteBits /\ k >= 4 * ByteBits)
    PROVE  Fits(a, m)
<1>1. ASSUME NEW b \in 0 .. 3 PROVE BitsOf(b, k) = BitsOf(b, m)
  <2>1. b * ByteBits \in Nat /\ (b + 1) * ByteBits = b * ByteBits + ByteBits /\ ByteBits \in Nat
    BY Places, BitsAre
  <2>2. (b + 1) * ByteBits <= 4 * ByteBits
    BY <2>1
  <2> QED BY <2>1, <2>2 DEF BitsOf
<1> QED BY <1>1 DEF Fits

\* A bit is added to the byte that it belongs to.
LEMMA FitsBit ==
    ASSUME NEW k \in 0 .. (4 * ByteBits - 1), NEW a, Fits(a, k), NEW v \in {0, 1},
           NEW d, d = k \div ByteBits, NEW x, x = [a EXCEPT ![d] = 2 * a[d] + v]
    PROVE  Fits(x, k + 1)
<1>1. ByteBits \in Nat /\ ByteBits > 0 /\ k \in Nat
  BY BitsAre
<1>2. PICK r : r = k % ByteBits
  OBVIOUS
<1>3. d \in 0 .. 3 /\ k = ByteBits * d + r /\ r \in 0 .. (ByteBits - 1)
  BY <1>2, ByteOf
<1>4. /\ d * ByteBits \in Nat /\ (d + 1) * ByteBits = d * ByteBits + ByteBits
      /\ k = d * ByteBits + r
  BY <1>1, <1>3, Places
<1>5. a \in [0 .. 3 -> Nat]
  BY DEF Fits
<1>6. x \in [0 .. 3 -> Nat] /\ x[d] = 2 * a[d] + v /\ \A b \in 0 .. 3 : b # d => x[b] = a[b]
  BY <1>3, <1>5
<1>7. x[d] < Power[BitsOf(d, k + 1)]
  <2>1. BitsOf(d, k) = r /\ BitsOf(d, k + 1) = r + 1
    BY <1>1, <1>3, <1>4 DEF BitsOf
  <2>2. r + 1 \in 1 .. ByteBits /\ (r + 1) - 1 = r /\ r \in 0 .. ByteBits
    BY <1>1, <1>3
  <2>3. Power[r + 1] = 2 * Power[r] /\ Power[r] \in Nat
    BY <2>2, PowerIs
  <2>4. a[d] < Power[r] /\ a[d] \in Nat
    BY <1>3, <1>5, <2>1 DEF Fits
  <2>5. 2 * a[d] + v < Power[r + 1]
    BY <2>3, <2>4
  <2> QED BY <1>6, <2>1, <2>5
<1>8. ASSUME NEW b \in 0 .. 3, b # d
      PROVE  x[b] < Power[BitsOf(b, k + 1)]
  <2>1. b * ByteBits \in Nat /\ (b + 1) * ByteBits = b * ByteBits + ByteBits
    BY Places
  <2>2. BitsOf(b, k + 1) = BitsOf(b, k)
    <3>1. CASE b < d
      <4>1. (b + 1) * ByteBits <= d * ByteBits
        BY <1>1, <1>3, <3>1
      <4> QED BY <1>1, <1>3, <1>4, <2>1, <4>1 DEF BitsOf
    <3>2. CASE b > d
      <4>1. (d + 1) * ByteBits <= b * ByteBits
        BY <1>1, <1>3, <3>2
      <4> QED BY <1>1, <1>3, <1>4, <2>1, <4>1 DEF BitsOf
    <3> QED BY <1>3, <1>8, <3>1, <3>2
  <2>3. a[b] < Power[BitsOf(b, k)]
    BY DEF Fits
  <2> QED BY <1>6, <1>8, <2>2, <2>3
<1> QED BY <1>6, <1>7, <1>8 DEF Fits

\* The sign is taken off.
LEMMA FitsSign ==
    ASSUME NEW a, Fits(a, 5 * ByteBits), NEW x,
           x = [a EXCEPT ![2] = a[2] % Power[ByteBits - 1]]
    PROVE  Fits(x, 5 * ByteBits)
<1>1. a \in [0 .. 3 -> Nat] /\ \A b \in 0 .. 3 : a[b] < Power[BitsOf(b, 5 * ByteBits)]
  BY DEF Fits
<1>2. PICK p, q, n : p = Power[ByteBits - 1] /\ q = a[2] % p /\ n = a[2]
  OBVIOUS
<1>3. p \in Nat \ {0} /\ n \in Nat
  <2>1. ByteBits - 1 \in 0 .. ByteBits
    BY BitsAre
  <2> QED BY <1>1, <1>2, <2>1, PowerIs
<1>4. q \in Nat /\ q <= n
  <2>1. PICK t : t = n \div p
    OBVIOUS
  <2>2. n = p * t + q /\ q \in 0 .. (p - 1) /\ t \in Nat
    BY <1>2, <1>3, <2>1, DivMod
  <2>3. p * t >= 0 /\ p * t \in Nat
    BY <1>3, <2>2
  <2> QED BY <1>3, <2>2, <2>3
<1>5. x = [a EXCEPT ![2] = q]
  BY <1>2
<1>6. x \in [0 .. 3 -> Nat] /\ x[2] = q /\ \A b \in 0 .. 3 : b # 2 => x[b] = a[b]
  BY <1>1, <1>4, <1>5
<1>7. Power[BitsOf(2, 5 * ByteBits)] \in Nat
  <2>1. BitsOf(2, 5 * ByteBits) = ByteBits
    BY BitsAre DEF BitsOf
  <2> QED BY <2>1, PowerIs, BitsAre
<1>8. x[2] < Power[BitsOf(2, 5 * ByteBits)]
  BY <1>1, <1>2, <1>4, <1>6, <1>7
<1> QED BY <1>1, <1>6, <1>8 DEF Fits

LEMMA BytesInit == Init => BytesInv
<1> SUFFICES ASSUME Init PROVE BytesInv
  OBVIOUS
<1>1. bit = 5 * ByteBits /\ bit \in (-2) .. (5 * ByteBits + 1) /\ bit \in Int
  BY BitsAre DEF Init
<1>2. Fits(acc, bit)
  BY <1>1, NoneFit DEF Init
<1>3. DriverNumbers
  BY ConstantsAssumption DEF Init, DriverNumbers
<1>4. DriverSwitches
  BY DEF Init, DriverSwitches
<1> QED BY <1>1, <1>2, <1>3, <1>4 DEF BytesInv, DriverFields

LEMMA MarkIs ==
    ASSUME checksum \in Nat, NEW w
    PROVE  Marked(w) \in Nat /\ Value(w) \in {0, 1} /\ 2 * Marked(w) + Value(w) \in Nat
<1>1. ByteValues \in Nat
  BY PowerIs, BitsAre DEF ByteValues
<1>2. Marked(w) \in Nat /\ Value(w) \in {0, 1}
  BY <1>1 DEF Marked, Value
<1> QED BY <1>2

\* The edges of a message.
LEMMA FallingFits ==
    ASSUME BytesInv, FallingEdge
    PROVE  BytesInv'
<1> DEFINE w == Head(events).width
<1> HIDE DEF w
<1>1. ByteBits \in Nat /\ ByteBits > 0 /\ bit \in (-2) .. (5 * ByteBits + 1) /\ bit \in Int
  BY BitsAre DEF BytesInv
<1>2. DriverFields /\ Fits(acc, bit) /\ checksum \in Nat
  BY DEF BytesInv, DriverFields, DriverNumbers
<1>3. Marked(w) \in Nat /\ Value(w) \in {0, 1} /\ 2 * Marked(w) + Value(w) \in Nat
  BY <1>2, MarkIs
<1>4. UNCHANGED <<powered, callback, trigger>>
  BY DEF FallingEdge, history
<1>5. MaxNoResponse \in Nat
  BY ConstantsAssumption
<1>6. CASE FallingAfter
  <2>1. /\ bit >= 5 * ByteBits /\ bit' = 5 * ByteBits + 1 /\ checksum' = Marked(w)
        /\ UNCHANGED <<acc, bad_cs, bad_sm, bad_mm, bad_sr, no_response, watchdog>>
    BY <1>6 DEF FallingAfter, counters, w
  <2>2. Fits(acc, bit')
    BY <1>1, <1>2, <2>1, FitsOn
  <2>3. Fits(acc, bit)' /\ bit' \in (-2) .. (5 * ByteBits + 1)
    BY <1>1, <2>1, <2>2 DEF Fits, BitsOf
  <2>4. DriverFields'
    <3>1. DriverNumbers'
      BY <1>2, <1>3, <1>4, <2>1 DEF DriverFields, DriverNumbers
    <3>2. DriverSwitches'
      BY <1>2, <1>3, <1>4, <2>1 DEF DriverFields, DriverSwitches
    <3> QED BY <3>1, <3>2 DEF DriverFields
  <2> QED BY <2>3, <2>4 DEF BytesInv
<1>7. CASE FallingInChecksum
  <2>1. /\ bit >= 4 * ByteBits /\ bit < 5 * ByteBits /\ bit' = bit + 1
        /\ checksum' = 2 * Marked(w) + Value(w)
        /\ UNCHANGED <<bad_sm, bad_mm, bad_sr>>
    BY <1>7 DEF FallingInChecksum, w
  <2>2. Fits(acc, bit') /\ bit' \in (-2) .. (5 * ByteBits + 1)
    BY <1>1, <1>2, <2>1, FitsOn
  <2>3. CASE bit = 5 * ByteBits - 1 /\ ChecksumOk(checksum')
    <3>1. /\ acc' = [acc EXCEPT ![2] = acc[2] % Power[ByteBits - 1]]
          /\ watchdog' = FALSE /\ no_response' = 0 /\ bad_cs' = bad_cs
      BY <1>7, <2>3 DEF FallingInChecksum
    <3>2. bit' = 5 * ByteBits
      BY <1>1, <2>1, <2>3
    <3>3. PICK x : x = [acc EXCEPT ![2] = acc[2] % Power[ByteBits - 1]]
      OBVIOUS
    <3>4. Fits(acc, 5 * ByteBits)
      BY <2>2, <3>2
    <3>5. Fits(x, 5 * ByteBits)
      BY <3>3, <3>4, FitsSign
    <3>6. Fits(acc, bit)'
      BY <3>1, <3>2, <3>3, <3>5 DEF Fits, BitsOf
    <3>7. DriverFields'
      <4>1. DriverNumbers'
        BY <1>2, <1>3, <1>5, <2>1, <3>1 DEF DriverFields, DriverNumbers
      <4>2. DriverSwitches'
        BY <1>2, <1>4, <3>1 DEF DriverFields, DriverSwitches
      <4> QED BY <4>1, <4>2 DEF DriverFields
    <3> QED BY <2>2, <3>6, <3>7 DEF BytesInv
  <2>4. CASE ~(bit = 5 * ByteBits - 1 /\ ChecksumOk(checksum'))
    <3>1. /\ acc' = acc
          /\ \/ watchdog' = FALSE /\ no_response' = 0 /\ bad_cs' = bad_cs + 1
             \/ UNCHANGED <<watchdog, no_response, bad_cs>>
      BY <1>7, <2>4 DEF FallingInChecksum
    <3>2. Fits(acc, bit)'
      BY <2>2, <3>1 DEF Fits, BitsOf
    <3>3. DriverFields'
      <4>1. DriverNumbers'
        <5>1. bad_cs \in Nat /\ bad_sm \in Nat /\ bad_mm \in Nat /\ bad_sr \in Nat
          BY <1>2 DEF DriverFields, DriverNumbers
        <5>2. no_response' \in 0 .. MaxNoResponse /\ bad_cs' \in Nat
          BY <1>2, <1>5, <3>1, <5>1 DEF DriverFields, DriverNumbers
        <5> QED BY <1>3, <2>1, <5>1, <5>2 DEF DriverNumbers
      <4>2. DriverSwitches'
        BY <1>2, <1>4, <3>1 DEF DriverFields, DriverSwitches
      <4> QED BY <4>1, <4>2 DEF DriverFields
    <3> QED BY <2>2, <3>2, <3>3 DEF BytesInv
  <2> QED BY <2>3, <2>4
<1>8. CASE FallingInData
  <2>1. /\ bit >= 0 /\ bit < 4 * ByteBits /\ bit' = bit + 1 /\ checksum' = Marked(w)
        /\ acc' = [acc EXCEPT ![bit \div ByteBits] = 2 * acc[bit \div ByteBits] + Value(w)]
        /\ UNCHANGED <<bad_cs, bad_sm, bad_mm, bad_sr, no_response, watchdog>>
    BY <1>8 DEF FallingInData, counters, w
  <2>2. bit \in 0 .. (4 * ByteBits - 1) /\ bit' \in (-2) .. (5 * ByteBits + 1)
    BY <1>1, <2>1
  <2>3. PICK d, x, v : /\ d = bit \div ByteBits /\ v = Value(w)
                       /\ x = [acc EXCEPT ![d] = 2 * acc[d] + v]
    OBVIOUS
  <2>4. Fits(x, bit + 1)
    BY <1>2, <1>3, <2>2, <2>3, FitsBit
  <2>5. acc' = x
    BY <2>1, <2>3
  <2>6. Fits(acc, bit)'
    BY <2>1, <2>4, <2>5 DEF Fits, BitsOf
  <2>7. DriverFields'
    <3>1. DriverNumbers'
      BY <1>2, <1>3, <1>4, <2>1 DEF DriverFields, DriverNumbers
    <3>2. DriverSwitches'
      BY <1>2, <1>3, <1>4, <2>1 DEF DriverFields, DriverSwitches
    <3> QED BY <3>1, <3>2 DEF DriverFields
  <2> QED BY <2>2, <2>6, <2>7 DEF BytesInv
<1>9. CASE FallingInHeader
  <2>1. /\ bit < 0 /\ bit' = bit + 1 /\ checksum' = Marked(w)
        /\ UNCHANGED <<acc, bad_cs, bad_sm, bad_mm, bad_sr, no_response, watchdog>>
    BY <1>9 DEF FallingInHeader, counters, w
  <2>2. Fits(acc, bit') /\ bit' \in (-2) .. (5 * ByteBits + 1)
    BY <1>1, <1>2, <2>1, FitsOn
  <2>3. Fits(acc, bit)'
    BY <2>1, <2>2 DEF Fits, BitsOf
  <2>4. DriverFields'
    <3>1. DriverNumbers'
      BY <1>2, <1>3, <1>4, <2>1 DEF DriverFields, DriverNumbers
    <3>2. DriverSwitches'
      BY <1>2, <1>3, <1>4, <2>1 DEF DriverFields, DriverSwitches
    <3> QED BY <3>1, <3>2 DEF DriverFields
  <2> QED BY <2>2, <2>3, <2>4 DEF BytesInv
<1> QED BY <1>6, <1>7, <1>8, <1>9 DEF FallingEdge

LEMMA RisingFits ==
    ASSUME BytesInv, RisingEdge
    PROVE  BytesInv'
<1>1. /\ UNCHANGED <<bad_cs, bad_sm, bad_mm, bad_sr, no_response, powered, watchdog,
                     callback, trigger>>
      /\ \/ bit' = -2 /\ acc' = [byte \in 0..3 |-> 0] /\ checksum' = 0
         \/ UNCHANGED <<bit, acc, checksum>>
  BY DEF RisingEdge, counters
<1>2. DriverFields /\ Fits(acc, bit) /\ bit \in (-2) .. (5 * ByteBits + 1)
  BY DEF BytesInv
<1>3. DriverFields'
  <2>1. DriverNumbers'
    BY <1>1, <1>2 DEF DriverFields, DriverNumbers
  <2>2. DriverSwitches'
    BY <1>1, <1>2 DEF DriverFields, DriverSwitches
  <2> QED BY <2>1, <2>2 DEF DriverFields
<1>4. CASE bit' = -2 /\ acc' = [byte \in 0..3 |-> 0]
  <2>1. Fits([byte \in 0..3 |-> 0], -2)
    BY NoneFit
  <2>2. Fits(acc, bit)'
    BY <1>4, <2>1 DEF Fits, BitsOf
  <2>3. bit' \in (-2) .. (5 * ByteBits + 1)
    BY <1>4, BitsAre
  <2> QED BY <1>3, <2>2, <2>3 DEF BytesInv
<1>5. CASE UNCHANGED <<bit, acc>>
  <2>1. Fits(acc, bit)' /\ bit' \in (-2) .. (5 * ByteBits + 1)
    BY <1>2, <1>5 DEF Fits, BitsOf
  <2> QED BY <1>3, <2>1 DEF BytesInv
<1> QED BY <1>1, <1>4, <1>5

LEMMA TimeoutFits ==
    ASSUME BytesInv, WatchdogTimeout
    PROVE  BytesInv'
<1>1. /\ UNCHANGED <<bit, acc, checksum, bad_cs, trigger>>
      /\ callback = "ready" /\ watchdog' = FALSE
      /\ Missing \/ Short \/ Full
  BY DEF WatchdogTimeout, Handles, message
<1>2. DriverFields /\ Fits(acc, bit) /\ bit \in (-2) .. (5 * ByteBits + 1)
  BY DEF BytesInv
<1>3. MaxNoResponse \in Nat
  BY ConstantsAssumption
<1>4. /\ {bad_sm', bad_mm', bad_sr'} \subseteq Nat
      /\ no_response' \in 0 .. MaxNoResponse
      /\ \/ powered' = FALSE /\ callback' = "cycling"
         \/ UNCHANGED <<powered, callback>>
  <2>1. CASE Missing
    BY <1>2, <1>3, <2>1 DEF Missing, DriverFields, DriverNumbers
  <2>2. CASE Short
    BY <1>2, <1>3, <2>2 DEF Short, DriverFields, DriverNumbers
  <2>3. CASE Full
    BY <1>2, <1>3, <2>3 DEF Full, DriverFields, DriverNumbers
  <2> QED BY <1>1, <2>1, <2>2, <2>3
<1>5. DriverFields'
  <2>1. DriverNumbers'
    BY <1>1, <1>2, <1>4 DEF DriverFields, DriverNumbers
  <2>2. watchdog' \in BOOLEAN /\ trigger' \in {"idle", "pulled", "wrapped", "unseen", "released"}
    BY <1>1, <1>2 DEF DriverFields, DriverSwitches
  <2>3. DriverSwitches'
    <3>1. CASE powered' = FALSE /\ callback' = "cycling"
      BY <2>2, <3>1 DEF DriverSwitches
    <3>2. CASE UNCHANGED <<powered, callback>>
      BY <1>2, <2>2, <3>2 DEF DriverFields, DriverSwitches
    <3> QED BY <1>4, <3>1, <3>2
  <2> QED BY <2>1, <2>3 DEF DriverFields
<1>6. Fits(acc, bit)' /\ bit' \in (-2) .. (5 * ByteBits + 1)
  BY <1>1, <1>2 DEF Fits, BitsOf
<1> QED BY <1>5, <1>6 DEF BytesInv

LEMMA BytesNext == BytesInv /\ [Next]_vars => BytesInv'
<1> SUFFICES ASSUME BytesInv, [Next]_vars PROVE BytesInv'
  OBVIOUS
<1>1. ASSUME UNCHANGED <<bit, acc, checksum, bad_cs, bad_sm, bad_mm, bad_sr, no_response>>,
             /\ watchdog' \in BOOLEAN /\ powered' \in BOOLEAN
             /\ callback' \in {"ready", "cycling", "cancelled"}
             /\ trigger' \in {"idle", "pulled", "wrapped", "unseen", "released"}
             /\ powered' <=> callback' # "cycling"
      PROVE  BytesInv'
  <2>1. DriverFields'
    BY <1>1 DEF BytesInv, DriverFields, DriverNumbers, DriverSwitches
  <2>2. Fits(acc, bit)' /\ bit' \in (-2) .. (5 * ByteBits + 1)
    BY <1>1 DEF BytesInv, Fits, BitsOf
  <2> QED BY <2>1, <2>2 DEF BytesInv
<1>2. DriverFields
  BY DEF BytesInv
<1>3. CASE Pull
  BY <1>1, <1>2, <1>3 DEF Pull, message, counters, DriverFields, DriverSwitches
<1>4. CASE Release
  BY <1>1, <1>2, <1>4 DEF Release, message, counters, DriverFields, DriverSwitches
<1>5. CASE SetWatchdog
  BY <1>1, <1>2, <1>5 DEF SetWatchdog, message, counters, DriverFields, DriverSwitches
<1>6. CASE Cancel
  BY <1>1, <1>2, <1>6 DEF Cancel, message, counters, DriverFields, DriverSwitches
<1>7. CASE TimesOut
  BY <1>1, <1>2, <1>7 DEF TimesOut, message, counters, DriverFields, DriverSwitches
<1>8. CASE PowerBack
  BY <1>1, <1>2, <1>8 DEF PowerBack, message, counters, DriverFields, DriverSwitches
<1>9. CASE UNCHANGED vars
  BY <1>1, <1>2, <1>9 DEF vars, message, counters, DriverFields, DriverSwitches
<1> QED
  BY <1>3, <1>4, <1>5, <1>6, <1>7, <1>8, <1>9, FallingFits, RisingFits, TimeoutFits
  DEF Next

\* None of the four bytes of a message outgrows a byte, whatever is lost or
\* disturbed on the line: bit always names the byte that the next bit belongs to
\* (_cb), and the driver resets the sensor before no_response passes its limit.
THEOREM BytesFit == Spec => []TypeOK
<1>1. BytesInv => TypeOK
  <2> SUFFICES ASSUME BytesInv PROVE TypeOK
    OBVIOUS
  <2>1. ASSUME NEW b \in 0 .. 3 PROVE acc[b] \in 0 .. (ByteValues - 1)
    <3>1. PICK n : n = BitsOf(b, bit)
      OBVIOUS
    <3>2. b * ByteBits \in Nat /\ (b + 1) * ByteBits = b * ByteBits + ByteBits
      BY Places
    <3>3. n \in 0 .. ByteBits /\ ByteBits \in Nat
      BY <3>1, <3>2, BitsAre DEF BitsOf, BytesInv
    <3>4. Power[n] <= ByteValues /\ Power[n] \in Nat /\ ByteValues \in Nat
      BY <3>3, PowerLess, PowerIs DEF ByteValues
    <3>5. acc[b] \in Nat /\ acc[b] < Power[n]
      BY <3>1 DEF BytesInv, Fits
    <3> QED BY <3>4, <3>5
  <2>2. acc \in [0 .. 3 -> 0 .. (ByteValues - 1)]
    BY <2>1 DEF BytesInv, Fits
  <2> QED BY <2>2 DEF BytesInv, DriverFields, DriverNumbers, DriverSwitches, TypeOK
<1> QED BY <1>1, BytesInit, BytesNext, PTL DEF Spec
================================================================================
