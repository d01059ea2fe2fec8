------------------------------ MODULE JSONProofs ------------------------------
(***************************************************************************)
(* What JSONProcessor promises, for every value of its constants: whatever    *)
(* the callbacks do, a traversal that returns has been everywhere, and has     *)
(* made every call that the last type of a value asks for; and what a stack      *)
(* that has reached the limit of recursion contains.                             *)
(***************************************************************************)
EXTENDS JSONProcessor, FiniteSetTheorems, WellFoundedInduction, TLAPS

(* Sequences of anything *)

IsSeq(s) == \E S : s \in Seq(S)

LEMMA AppendTo ==
    ASSUME NEW s, IsSeq(s), NEW e
    PROVE  /\ IsSeq(Append(s, e)) /\ Len(Append(s, e)) = Len(s) + 1
           /\ \A i \in 1 .. Len(s) : Append(s, e)[i] = s[i]
           /\ Append(s, e)[Len(s) + 1] = e
<1>1. PICK S : s \in Seq(S)
  BY DEF IsSeq
<1>2. s \in Seq(S \cup {e}) /\ e \in S \cup {e}
  BY <1>1
<1>3. Append(s, e) \in Seq(S \cup {e})
  BY <1>2
<1> QED BY <1>2, <1>3 DEF IsSeq

LEMMA CutTo ==
    ASSUME NEW s, IsSeq(s), NEW n \in 0 .. Len(s)
    PROVE  /\ IsSeq(SubSeq(s, 1, n)) /\ Len(SubSeq(s, 1, n)) = n
           /\ \A i \in 1 .. n : SubSeq(s, 1, n)[i] = s[i]
<1>1. PICK S : s \in Seq(S)
  BY DEF IsSeq
<1>2. Len(s) \in Nat /\ n \in Nat /\ n <= Len(s)
  BY <1>1
<1>3. SubSeq(s, 1, n) \in Seq(S)
  BY <1>1, <1>2
<1> QED BY <1>1, <1>2, <1>3 DEF IsSeq

LEMMA FrontOf ==
    ASSUME NEW s, IsSeq(s), s # <<>>
    PROVE  /\ Len(s) \in Nat /\ Len(s) > 0
           /\ Front(s) = SubSeq(s, 1, Len(s) - 1)
<1>1. PICK S : s \in Seq(S)
  BY DEF IsSeq
<1> QED BY <1>1 DEF Front

WithEnd(s, e) == [s EXCEPT ![Len(s)] = e]

LEMMA EndReplaced ==
    ASSUME NEW s, IsSeq(s), Len(s) > 0, NEW e
    PROVE  /\ IsSeq(WithEnd(s, e)) /\ Len(WithEnd(s, e)) = Len(s)
           /\ \A i \in 1 .. Len(s) : i # Len(s) => WithEnd(s, e)[i] = s[i]
           /\ WithEnd(s, e)[Len(s)] = e
<1> DEFINE t == [s EXCEPT ![Len(s)] = e]
<1>1. PICK S : s \in Seq(S)
  BY DEF IsSeq
<1>2. s \in Seq(S \cup {e}) /\ e \in S \cup {e} /\ Len(s) \in 1 .. Len(s)
  BY <1>1
<1>3. t \in Seq(S \cup {e}) /\ Len(t) = Len(s)
  BY <1>2
<1>4. \A i \in 1 .. Len(s) : i # Len(s) => t[i] = s[i]
  BY <1>2
<1>5. t[Len(s)] = e
  BY <1>2
<1> QED BY <1>3, <1>4, <1>5 DEF IsSeq, WithEnd

LEMMA PlaceReplaced ==
    ASSUME NEW s, IsSeq(s), NEW p \in DOMAIN s, NEW e
    PROVE  LET t == [s EXCEPT ![p] = e] IN IsSeq(t) /\ Len(t) = Len(s)
<1>1. PICK S : s \in Seq(S)
  BY DEF IsSeq
<1>2. s \in Seq(S \cup {e}) /\ e \in S \cup {e}
  BY <1>1
<1>3. [s EXCEPT ![p] = e] \in Seq(S \cup {e}) /\ Len([s EXCEPT ![p] = e]) = Len(s)
  BY <1>2
<1> QED BY <1>3 DEF IsSeq

LEMMA PlaceRemoved ==
    ASSUME NEW s, IsSeq(s), NEW p \in DOMAIN s
    PROVE  IsSeq(RemoveAt(s, p)) /\ Len(RemoveAt(s, p)) = Len(s) - 1
<1>1. PICK S : s \in Seq(S)
  BY DEF IsSeq
<1>2. Len(s) \in Nat /\ p \in 1 .. Len(s)
  BY <1>1
<1>3. /\ SubSeq(s, 1, p - 1) \in Seq(S) /\ Len(SubSeq(s, 1, p - 1)) = p - 1
      /\ SubSeq(s, p + 1, Len(s)) \in Seq(S) /\ Len(SubSeq(s, p + 1, Len(s))) = Len(s) - p
  BY <1>1, <1>2
<1>4. /\ RemoveAt(s, p) \in Seq(S)
      /\ Len(RemoveAt(s, p)) = (p - 1) + (Len(s) - p)
  BY <1>3 DEF RemoveAt
<1> QED BY <1>2, <1>4 DEF IsSeq

LEMMA PlaceInserted ==
    ASSUME NEW s, IsSeq(s), NEW p \in 1 .. (Len(s) + 1), NEW e
    PROVE  IsSeq(InsertAt(s, p, e)) /\ Len(InsertAt(s, p, e)) = Len(s) + 1
<1>1. PICK S : s \in Seq(S)
  BY DEF IsSeq
<1>2. s \in Seq(S \cup {e}) /\ Len(s) \in Nat
  BY <1>1
<1>3. /\ SubSeq(s, 1, p - 1) \in Seq(S \cup {e}) /\ Len(SubSeq(s, 1, p - 1)) = p - 1
      /\ SubSeq(s, p, Len(s)) \in Seq(S \cup {e}) /\ Len(SubSeq(s, p, Len(s))) = Len(s) - p + 1
      /\ <<e>> \in Seq(S \cup {e}) /\ Len(<<e>>) = 1
  BY <1>2
<1>4. PICK a, b, c : a = SubSeq(s, 1, p - 1) /\ b = <<e>> /\ c = SubSeq(s, p, Len(s))
  OBVIOUS
<1>5. PICK t : t = a \o b
  OBVIOUS
<1>6. t \in Seq(S \cup {e}) /\ Len(t) = (p - 1) + 1
  BY <1>3, <1>4, <1>5
<1>7. t \o c \in Seq(S \cup {e}) /\ Len(t \o c) = ((p - 1) + 1) + (Len(s) - p + 1)
  BY <1>3, <1>4, <1>6
<1>8. ((p - 1) + 1) + (Len(s) - p + 1) = Len(s) + 1
  BY <1>2
<1>9. InsertAt(s, p, e) = t \o c
  BY <1>4, <1>5 DEF InsertAt
<1> QED BY <1>7, <1>8, <1>9 DEF IsSeq

\* A sequence with a value put in one of its places.
SetAt(s, p, e) == [l \in DOMAIN s \cup {p} |-> IF l = p THEN e ELSE s[l]]

LEMMA PlaceSet ==
    ASSUME NEW s, IsSeq(s), NEW p \in DOMAIN s, NEW e
    PROVE  IsSeq(SetAt(s, p, e)) /\ Len(SetAt(s, p, e)) = Len(s)
<1> DEFINE t == SetAt(s, p, e)
<1>1. PICK S : s \in Seq(S)
  BY DEF IsSeq
<1>2. s \in [1 .. Len(s) -> S] /\ Len(s) \in Nat /\ DOMAIN s = 1 .. Len(s)
  BY <1>1
<1>3. DOMAIN s \cup {p} = 1 .. Len(s)
  BY <1>2
<1>4. t \in [1 .. Len(s) -> S \cup {e}]
  BY <1>2, <1>3 DEF SetAt
<1>5. t \in Seq(S \cup {e}) /\ Len(t) = Len(s)
  BY <1>2, <1>4
<1> QED BY <1>5 DEF IsSeq

LEMMA ListDomain ==
    ASSUME NEW s, IsSeq(s)
    PROVE  Len(s) \in Nat /\ DOMAIN s = 1 .. Len(s)
BY DEF IsSeq

-----------------------------------------------------------------------------
(* The inductive invariant *)

\* A frame has the fields of its kind.
IsLoop(f) ==
    f = [what |-> "iter", obj |-> f.obj, left |-> f.left, size |-> f.size,
         at |-> f.at, fresh |-> f.fresh]
IsCall(f) ==
    f = [what |-> "loc", obj |-> f.obj, loc |-> f.loc, orig |-> f.orig,
         callbacks |-> f.callbacks, tolerant |-> f.tolerant]

\* k loops, and above them the calls for the location the innermost is at.
Nest(s, k) ==
    /\ IsSeq(s) /\ k \in 0 .. Len(s)
    /\ \A i \in 1 .. k : IsLoop(s[i]) /\ s[i].obj \in Objects
    /\ \A i \in (k + 1) .. Len(s) :
        /\ IsCall(s[i]) /\ k > 0
        /\ s[i].obj = s[k].obj /\ s[i].loc = s[k].at /\ s[k].at # None

\* The loops are those of s, whatever the calls.
SameLoops(s, t, k) == Nest(t, k) /\ \A i \in 1 .. k : t[i] = s[i]

\* The last of the places that a loop over a list has before it is not before
\* the end of the list.
Reaches(places, list) == places # {} => \E l \in places : l >= Len(list)

LoopRight(f, c, g) ==
    /\ None \notin f.left
    /\ Kind[f.obj] = "list" =>
        /\ f.left \subseteq Nat
        /\ f.at # None => f.at \in Nat
        /\ f.obj \notin g =>
            /\ Reaches(f.left, c[f.obj])
            /\ f.at # None => Reaches(f.left \cup {f.at}, c[f.obj])

Contents(c) ==
    /\ DOMAIN c = Objects
    /\ \A o \in Objects : /\ None \notin DOMAIN c[o]
                          /\ Kind[o] = "list" => IsSeq(c[o])

\* The models of the set are some that have been entered.
SeenRight(s, e) == \A m, h : <<m, h>> \in s => m \in e

Machine ==
    /\ \E k : Nest(stack, k)
    /\ \A i \in 1 .. Len(stack) : stack[i].what = "iter" => LoopRight(stack[i], content, grown)
    /\ Contents(content)
    /\ entered \subseteq Objects /\ SeenRight(seen, entered) /\ root \in Objects
    /\ status = "running" <=> stack # <<>>
    /\ status = "setup" => entered = {} /\ looked = {}

\* A place that a loop over an object has before it is gone: it will raise when it gets there.
Gone(s, c, o) ==
    \E i \in 1 .. Len(s) :
        /\ s[i].what = "iter" /\ s[i].obj = o
        /\ \E l \in s[i].left \cup {s[i].at} : l # None /\ l \notin DOMAIN c[o]

Awaits(s, obj, loc) ==
    \E i \in 1 .. Len(s) : s[i].what = "iter" /\ s[i].obj = obj /\ loc \in s[i].left
IsAt(s, obj, loc) ==
    \E i \in 1 .. Len(s) : s[i].what = "iter" /\ s[i].obj = obj /\ loc = s[i].at

\* A container that has been entered, or a model that another one stood for.
Visited(item) == item \in entered \/ \E m \in entered : <<item, m>> \in alike

\* Every location of an object has been processed or will be, and so has what it holds.
Covered(obj) ==
    obj \in entered => \A loc \in DOMAIN content[obj] :
        /\ <<obj, loc>> \in looked \/ Awaits(stack, obj, loc)
        /\ content[obj][loc] \in Objects \ {Text} =>
            \/ Visited(content[obj][loc])
            \/ Awaits(stack, obj, loc) \/ IsAt(stack, obj, loc)

Coverage ==
    ~broke /\ ~config.ignores /\ status # "raised" =>
        \A obj \in Objects \ grown : Gone(stack, content, obj) \/ Covered(obj)

CompleteInv == Machine /\ Coverage

-----------------------------------------------------------------------------
(* Stacks *)

LEMMA FrameKinds ==
    ASSUME NEW f
    PROVE  (IsLoop(f) => f.what = "iter") /\ (IsCall(f) => f.what = "loc")
<1>1. ASSUME IsLoop(f) PROVE f.what = "iter"
  <2> DEFINE g == [what |-> "iter", obj |-> f.obj, left |-> f.left, size |-> f.size,
                   at |-> f.at, fresh |-> f.fresh]
  <2>1. g.what = "iter"
    OBVIOUS
  <2>2. f = g
    BY <1>1 DEF IsLoop
  <2> QED BY <2>1, <2>2
<1>2. ASSUME IsCall(f) PROVE f.what = "loc"
  <2> DEFINE g == [what |-> "loc", obj |-> f.obj, loc |-> f.loc, orig |-> f.orig,
                   callbacks |-> f.callbacks, tolerant |-> f.tolerant]
  <2>1. g.what = "loc"
    OBVIOUS
  <2>2. f = g
    BY <1>2 DEF IsCall
  <2> QED BY <2>1, <2>2
<1> QED BY <1>1, <1>2

LEMMA LoopsBelow ==
    ASSUME NEW s, NEW k, Nest(s, k)
    PROVE  /\ Len(s) \in Nat /\ k \in Nat /\ k <= Len(s)
           /\ \A i \in 1 .. Len(s) : /\ s[i].what \in {"iter", "loc"}
                                     /\ s[i].what = "iter" <=> i <= k
<1>1. Len(s) \in Nat
  BY ListDomain DEF Nest
<1>2. \A i \in 1 .. k : s[i].what = "iter"
  BY FrameKinds DEF Nest
<1>3. \A i \in (k + 1) .. Len(s) : s[i].what = "loc"
  BY FrameKinds DEF Nest
<1> QED BY <1>1, <1>2, <1>3 DEF Nest

\* What is said of the loops alone is said of any stack that has the same.
LEMMA LoopsAlike ==
    ASSUME NEW s, NEW t, NEW k, Nest(s, k), SameLoops(s, t, k)
    PROVE  /\ \A i \in 1 .. Len(s) : s[i].what = "iter" =>
                i \in 1 .. Len(t) /\ t[i] = s[i]
           /\ \A i \in 1 .. Len(t) : t[i].what = "iter" =>
                i \in 1 .. Len(s) /\ t[i] = s[i]
<1>1. Nest(t, k) /\ \A i \in 1 .. k : t[i] = s[i]
  BY DEF SameLoops
<1>2. \A i \in 1 .. Len(s) : s[i].what = "iter" <=> i <= k
  BY LoopsBelow
<1>3. \A i \in 1 .. Len(t) : t[i].what = "iter" <=> i <= k
  BY <1>1, LoopsBelow
<1>4. Len(s) \in Nat /\ Len(t) \in Nat /\ k \in Nat /\ k <= Len(s) /\ k <= Len(t)
  BY <1>1, LoopsBelow
<1> QED BY <1>1, <1>2, <1>3, <1>4

LEMMA CallPushed ==
    ASSUME NEW s, NEW k, Nest(s, k), k > 0, s[k].at # None,
           NEW f, IsCall(f), f.obj = s[k].obj, f.loc = s[k].at
    PROVE  SameLoops(s, Append(s, f), k)
<1> DEFINE t == Append(s, f)
<1>1. /\ IsSeq(t) /\ Len(t) = Len(s) + 1 /\ t[Len(s) + 1] = f
      /\ \A i \in 1 .. Len(s) : t[i] = s[i]
  BY AppendTo DEF Nest
<1>2. Len(s) \in Nat /\ k \in 1 .. Len(s)
  BY LoopsBelow
<1>3. t[k] = s[k]
  BY <1>1, <1>2
<1>4. \A i \in (k + 1) .. Len(t) : i = Len(s) + 1 \/ i \in (k + 1) .. Len(s)
  BY <1>1, <1>2
<1>5. \A i \in (k + 1) .. Len(t) :
        IsCall(t[i]) /\ t[i].obj = t[k].obj /\ t[i].loc = t[k].at
  BY <1>1, <1>2, <1>3, <1>4 DEF Nest
<1>6. \A i \in 1 .. k : t[i] = s[i]
  BY <1>1, <1>2
<1> HIDE DEF t
<1>7. Nest(t, k)
  BY <1>1, <1>2, <1>3, <1>5, <1>6 DEF Nest
<1> QED BY <1>6, <1>7 DEF SameLoops, t

LEMMA CallsCut ==
    ASSUME NEW s, NEW k, Nest(s, k), NEW n \in k .. Len(s)
    PROVE  SameLoops(s, SubSeq(s, 1, n), k)
<1> DEFINE t == SubSeq(s, 1, n)
<1>1. Len(s) \in Nat /\ k \in Nat /\ n \in 0 .. Len(s)
  BY LoopsBelow
<1>2. IsSeq(t) /\ Len(t) = n /\ \A i \in 1 .. n : t[i] = s[i]
  BY <1>1, CutTo DEF Nest
<1> HIDE DEF t
<1>3. \A i \in 1 .. k : t[i] = s[i]
  BY <1>1, <1>2
<1>4. \A i \in (k + 1) .. n : i \in (k + 1) .. Len(s) /\ t[i] = s[i]
  BY <1>1, <1>2
<1>5. k > 0 => t[k] = s[k]
  BY <1>1, <1>3
<1>6. Nest(t, k)
  BY <1>1, <1>2, <1>3, <1>4, <1>5 DEF Nest
<1> QED BY <1>3, <1>6 DEF SameLoops, t

LEMMA CallReplaced ==
    ASSUME NEW s, NEW k, Nest(s, k), k < Len(s),
           NEW f, IsCall(f), f.obj = s[Len(s)].obj, f.loc = s[Len(s)].loc
    PROVE  /\ SameLoops(s, WithEnd(s, f), k)
           /\ WithEnd(s, f)[Len(s)] = f /\ Len(WithEnd(s, f)) = Len(s)
           /\ \A i \in 1 .. Len(s) : i # Len(s) => WithEnd(s, f)[i] = s[i]
<1> DEFINE t == WithEnd(s, f)
<1>1. Len(s) \in Nat /\ k \in Nat /\ Len(s) > 0
  BY LoopsBelow
<1>2. /\ IsSeq(t) /\ Len(t) = Len(s) /\ t[Len(s)] = f
      /\ \A i \in 1 .. Len(s) : i # Len(s) => t[i] = s[i]
  BY <1>1, EndReplaced DEF Nest
<1>3. \A i \in 1 .. k : t[i] = s[i]
  BY <1>1, <1>2
<1>4. \A i \in (k + 1) .. Len(s) : t[i] = s[i] \/ i = Len(s)
  BY <1>1, <1>2
<1>5. \A i \in (k + 1) .. Len(s) :
        IsCall(t[i]) /\ k > 0 /\ t[i].obj = s[k].obj /\ t[i].loc = s[k].at
        /\ s[k].at # None
  BY <1>1, <1>2, <1>4 DEF Nest
<1>6. k > 0 => t[k] = s[k]
  BY <1>1, <1>3
<1>7. Nest(t, k)
  BY <1>1, <1>2, <1>3, <1>5, <1>6 DEF Nest
<1> QED BY <1>2, <1>3, <1>7 DEF SameLoops

LEMMA LoopReplaced ==
    ASSUME NEW s, NEW k, Nest(s, k), k = Len(s), k > 0,
           NEW f, IsLoop(f), f.obj = s[k].obj
    PROVE  /\ Nest(WithEnd(s, f), k) /\ WithEnd(s, f)[k] = f
           /\ Len(WithEnd(s, f)) = k
           /\ \A i \in 1 .. (k - 1) : WithEnd(s, f)[i] = s[i]
<1> DEFINE t == WithEnd(s, f)
<1>1. Len(s) \in Nat /\ k \in Nat /\ Len(s) > 0
  BY LoopsBelow
<1>2. /\ IsSeq(t) /\ Len(t) = Len(s) /\ t[Len(s)] = f
      /\ \A i \in 1 .. Len(s) : i # Len(s) => t[i] = s[i]
  BY <1>1, EndReplaced DEF Nest
<1>3. \A i \in 1 .. k : IsLoop(t[i]) /\ t[i].obj \in Objects
  BY <1>1, <1>2 DEF Nest
<1>4. Nest(t, k)
  BY <1>1, <1>2, <1>3 DEF Nest
<1> QED BY <1>1, <1>2, <1>4

LEMMA LoopPushed ==
    ASSUME NEW s, NEW k, Nest(s, k), k = Len(s),
           NEW f, IsLoop(f), f.obj \in Objects
    PROVE  /\ Nest(Append(s, f), k + 1) /\ Append(s, f)[k + 1] = f
           /\ Len(Append(s, f)) = k + 1
           /\ \A i \in 1 .. k : Append(s, f)[i] = s[i]
<1> DEFINE t == Append(s, f)
<1>1. /\ IsSeq(t) /\ Len(t) = Len(s) + 1 /\ t[Len(s) + 1] = f
      /\ \A i \in 1 .. Len(s) : t[i] = s[i]
  BY AppendTo DEF Nest
<1>2. Len(s) \in Nat /\ k \in Nat
  BY LoopsBelow
<1> HIDE DEF t
<1>3. \A i \in 1 .. (k + 1) : i \in 1 .. k \/ i = k + 1
  BY <1>2
<1>4. \A i \in 1 .. (k + 1) : IsLoop(t[i]) /\ t[i].obj \in Objects
  BY <1>1, <1>2, <1>3 DEF Nest
<1>5. Nest(t, k + 1)
  BY <1>1, <1>2, <1>4 DEF Nest
<1> QED BY <1>1, <1>5 DEF t

LEMMA LoopPopped ==
    ASSUME NEW s, NEW k, Nest(s, k), k > 0
    PROVE  LET t == SubSeq(s, 1, k - 1)
           IN  /\ Nest(t, k - 1) /\ Len(t) = k - 1
               /\ \A i \in 1 .. (k - 1) : t[i] = s[i]
<1> DEFINE t == SubSeq(s, 1, k - 1)
<1>1. Len(s) \in Nat /\ k \in Nat /\ k <= Len(s) /\ k - 1 \in 0 .. Len(s)
  BY LoopsBelow
<1>2. IsSeq(t) /\ Len(t) = k - 1 /\ \A i \in 1 .. (k - 1) : t[i] = s[i]
  BY <1>1, CutTo DEF Nest
<1> HIDE DEF t
<1>3. \A i \in 1 .. (k - 1) : IsLoop(t[i]) /\ t[i].obj \in Objects
  BY <1>1, <1>2 DEF Nest
<1>4. Nest(t, k - 1)
  BY <1>1, <1>2, <1>3 DEF Nest
<1> QED BY <1>2, <1>4 DEF t

LEMMA LoopsThrough ==
    ASSUME NEW s, NEW t, NEW u, NEW k, SameLoops(s, t, k), SameLoops(t, u, k)
    PROVE  SameLoops(s, u, k)
BY DEF SameLoops

WithCalls(f, c, b) == [f EXCEPT !.callbacks = c, !.tolerant = b]

LEMMA CallUpdated ==
    ASSUME NEW f, IsCall(f), NEW c, NEW b, NEW g, g = WithCalls(f, c, b)
    PROVE  IsCall(g) /\ g.obj = f.obj /\ g.loc = f.loc /\ g.orig = f.orig
           /\ g.callbacks = c
<1> DEFINE h == [what |-> "loc", obj |-> f.obj, loc |-> f.loc, orig |-> f.orig,
                 callbacks |-> f.callbacks, tolerant |-> f.tolerant]
<1>1. f = h
  BY DEF IsCall
<1>2. [h EXCEPT !.callbacks = c, !.tolerant = b]
        = [what |-> "loc", obj |-> f.obj, loc |-> f.loc, orig |-> f.orig,
           callbacks |-> c, tolerant |-> b]
  <2> DEFINE m == [what |-> "loc", obj |-> f.obj, loc |-> f.loc, orig |-> f.orig,
                   callbacks |-> c, tolerant |-> f.tolerant]
  <2>1. [h EXCEPT !.callbacks = c] = m
    OBVIOUS
  <2>2. [m EXCEPT !.tolerant = b]
          = [what |-> "loc", obj |-> f.obj, loc |-> f.loc, orig |-> f.orig,
             callbacks |-> c, tolerant |-> b]
    OBVIOUS
  <2> QED BY <2>1, <2>2
<1>3. g = [what |-> "loc", obj |-> f.obj, loc |-> f.loc, orig |-> f.orig,
           callbacks |-> c, tolerant |-> b]
  BY <1>1, <1>2 DEF WithCalls
<1> QED BY <1>3 DEF IsCall

WithPlaces(f, l, a) == [f EXCEPT !.left = l, !.at = a]

LEMMA LoopUpdated ==
    ASSUME NEW f, IsLoop(f), NEW l, NEW a, NEW g, g = WithPlaces(f, l, a)
    PROVE  IsLoop(g) /\ g.obj = f.obj /\ g.left = l /\ g.at = a /\ g.fresh = f.fresh
<1> DEFINE h == [what |-> "iter", obj |-> f.obj, left |-> f.left, size |-> f.size,
                 at |-> f.at, fresh |-> f.fresh]
           r == [what |-> "iter", obj |-> f.obj, left |-> l, size |-> f.size,
                 at |-> a, fresh |-> f.fresh]
<1>1. f = h
  BY DEF IsLoop
<1>2. [h EXCEPT !.left = l, !.at = a] = r
  <2> DEFINE m == [what |-> "iter", obj |-> f.obj, left |-> l, size |-> f.size,
                   at |-> f.at, fresh |-> f.fresh]
  <2>1. [h EXCEPT !.left = l] = m
    OBVIOUS
  <2>2. [m EXCEPT !.at = a] = r
    OBVIOUS
  <2> QED BY <2>1, <2>2
<1>3. g = r
  BY <1>1, <1>2 DEF WithPlaces
<1> QED BY <1>3 DEF IsLoop

WithoutPlace(f) == [f EXCEPT !.at = None]

LEMMA LoopLeft ==
    ASSUME NEW f, IsLoop(f), NEW g, g = WithoutPlace(f)
    PROVE  IsLoop(g) /\ g.obj = f.obj /\ g.left = f.left /\ g.at = None
           /\ g.fresh = f.fresh
<1> DEFINE h == [what |-> "iter", obj |-> f.obj, left |-> f.left, size |-> f.size,
                 at |-> f.at, fresh |-> f.fresh]
           r == [what |-> "iter", obj |-> f.obj, left |-> f.left, size |-> f.size,
                 at |-> None, fresh |-> f.fresh]
<1>1. f = h
  BY DEF IsLoop
<1>2. [h EXCEPT !.at = None] = r
  OBVIOUS
<1>3. g = r
  BY <1>1, <1>2 DEF WithoutPlace
<1> QED BY <1>3 DEF IsLoop

LoopOver(o, b) == [IterFrame(o) EXCEPT !.fresh = b]

LEMMA NewLoop ==
    ASSUME NEW o, NEW b, NEW g, g = LoopOver(o, b)
    PROVE  IsLoop(g) /\ g.obj = o /\ g.left = DOMAIN content[o] /\ g.at = None
           /\ g.fresh = b
<1> DEFINE r == [what |-> "iter", obj |-> o, left |-> DOMAIN content[o],
                 size |-> Cardinality(DOMAIN content[o]), at |-> None, fresh |-> b]
<1>1. g = r
  BY DEF IterFrame, LoopOver
<1>2. IsLoop(r) /\ r.obj = o /\ r.left = DOMAIN content[o] /\ r.at = None /\ r.fresh = b
  BY DEF IsLoop
<1> QED BY <1>1, <1>2

LEMMA NewCall ==
    ASSUME NEW o, NEW l, NEW c, NEW g, g = LocFrame(o, l, c)
    PROVE  IsCall(g) /\ g.obj = o /\ g.loc = l /\ g.orig = TypeOf(c[o][l])
           /\ g.callbacks = CallbacksFor(TypeOf(c[o][l]))
BY DEF LocFrame, IsCall

-----------------------------------------------------------------------------
(* Exceptions *)

Raised == status' = "raised" /\ stack' = <<>> /\ seen' = {}

LEMMA RaiseUnwinds ==
    ASSUME NEW f, NEW k, Nest(f, k), Raise(f)
    PROVE  /\ failed' = TRUE
           /\ \/ Raised
              \/ k < Len(f) /\ SameLoops(f, stack', k) /\ UNCHANGED <<status, seen>>
<1>1. failed' = TRUE
  BY DEF Raise
<1> DEFINE tolerant == {i \in DOMAIN f : f[i].what = "loc" /\ f[i].tolerant}
<1>2. CASE tolerant = {}
  BY <1>1, <1>2 DEF Raise, Raised
<1>3. CASE tolerant # {}
  <2>1. PICK i \in tolerant : stack' = SubSeq(f, 1, i)
    BY <1>3 DEF Raise
  <2>2. i \in 1 .. Len(f) /\ f[i].what = "loc"
    BY ListDomain DEF Nest
  <2>3. i \in k .. Len(f) /\ k < Len(f)
    BY <2>2, LoopsBelow
  <2>4. UNCHANGED <<status, seen>>
    BY <1>3 DEF Raise
  <2> QED BY <1>1, <2>1, <2>3, <2>4, CallsCut
<1> QED BY <1>2, <1>3

LEMMA TopCall ==
    ASSUME NEW k, Nest(stack, k), Top.what = "loc", stack # <<>>
    PROVE  /\ k \in Nat /\ Len(stack) \in Nat /\ k > 0 /\ k < Len(stack)
           /\ IsCall(Top)
           /\ Top.obj = stack[k].obj /\ Top.loc = stack[k].at /\ stack[k].at # None
           /\ stack[k].what = "iter" /\ IsLoop(stack[k]) /\ Top.obj \in Objects
<1>1. Len(stack) \in Nat /\ Len(stack) > 0
  BY FrontOf DEF Nest
<1>2. k \in Nat /\ k < Len(stack)
  BY <1>1, LoopsBelow DEF Top
<1>3. /\ IsCall(Top) /\ k > 0 /\ Top.obj = stack[k].obj /\ Top.loc = stack[k].at
      /\ stack[k].at # None
  BY <1>1, <1>2 DEF Nest, Top
<1>4. IsLoop(stack[k]) /\ stack[k].obj \in Objects
  BY <1>2, <1>3 DEF Nest
<1> QED BY <1>1, <1>2, <1>3, <1>4, FrameKinds

LEMMA TopLoop ==
    ASSUME NEW k, Nest(stack, k), Top.what = "iter", stack # <<>>
    PROVE  /\ k \in Nat /\ k = Len(stack) /\ k > 0 /\ Top = stack[k]
           /\ IsLoop(Top) /\ Top.obj \in Objects
<1>1. Len(stack) \in Nat /\ Len(stack) > 0
  BY FrontOf DEF Nest
<1>2. k \in Nat /\ k = Len(stack)
  BY <1>1, LoopsBelow DEF Top
<1> QED BY <1>1, <1>2 DEF Nest, Top

LEMMA AfterCallKeeps ==
    ASSUME NEW k, Nest(stack, k), Top.what = "loc", stack # <<>>, NEW b,
           NEW t, t = AfterCall(b), NEW n, n = Len(stack)
    PROVE  /\ SameLoops(stack, t, k) /\ Len(t) = n
           /\ \A i \in 1 .. n : i # n => t[i] = stack[i]
           /\ IsCall(t[n]) /\ t[n].obj = Top.obj /\ t[n].loc = Top.loc
           /\ t[n].orig = Top.orig /\ t[n].callbacks = Top.callbacks \ {NextCall}
<1> DEFINE g == WithCalls(Top, Top.callbacks \ {NextCall}, b)
<1>1. Nest(stack, k) /\ k < Len(stack) /\ IsCall(Top) /\ Top = stack[Len(stack)]
  BY TopCall DEF Top
<1>2. /\ IsCall(g) /\ g.obj = Top.obj /\ g.loc = Top.loc /\ g.orig = Top.orig
      /\ g.callbacks = Top.callbacks \ {NextCall}
  BY <1>1, CallUpdated
<1>3. t = WithEnd(stack, g)
  BY DEF AfterCall, Replaced, WithEnd, WithCalls
<1> HIDE DEF g
<1>4. g.obj = stack[Len(stack)].obj /\ g.loc = stack[Len(stack)].loc
  BY <1>1, <1>2
<1>5. /\ SameLoops(stack, t, k) /\ t[Len(stack)] = g /\ Len(t) = Len(stack)
      /\ \A i \in 1 .. Len(stack) : i # Len(stack) => t[i] = stack[i]
  BY <1>1, <1>2, <1>3, <1>4, CallReplaced
<1> QED BY <1>2, <1>5

-----------------------------------------------------------------------------
(* Steps that the callbacks of a location take *)

\* Nothing that a callback does adds a location to a container, but to those of g.
Shrunk(c, d, g) ==
    /\ Contents(d)
    /\ \A o \in Objects \ g : /\ DOMAIN d[o] \subseteq DOMAIN c[o]
                              /\ Kind[o] = "list" => Len(d[o]) <= Len(c[o])

LEMMA SameShrunk ==
    ASSUME NEW c, Contents(c), NEW g
    PROVE  Shrunk(c, c, g)
<1>1. \A o \in Objects : Kind[o] = "list" => Len(c[o]) \in Nat
  BY ListDomain DEF Contents
<1> QED BY <1>1 DEF Shrunk

\* One location is set.
Put(c, o, l, v) == [c EXCEPT ![o] = SetAt(c[o], l, v)]

LEMMA PutHolds ==
    ASSUME NEW c, Contents(c), NEW o \in Objects, NEW l, l # None,
           Kind[o] = "list" => l \in DOMAIN c[o], NEW v
    PROVE  /\ Contents(Put(c, o, l, v))
           /\ Put(c, o, l, v)[o][l] = v
           /\ DOMAIN Put(c, o, l, v)[o] = DOMAIN c[o] \cup {l}
           /\ \A m \in DOMAIN c[o] : m # l => Put(c, o, l, v)[o][m] = c[o][m]
           /\ \A p \in Objects : p # o => Put(c, o, l, v)[p] = c[p]
           /\ Kind[o] = "list" => Len(Put(c, o, l, v)[o]) = Len(c[o])
<1> DEFINE e == SetAt(c[o], l, v)
           d == Put(c, o, l, v)
<1>1. DOMAIN c = Objects
  BY DEF Contents
<1>2. DOMAIN d = Objects /\ d[o] = e /\ \A p \in Objects : p # o => d[p] = c[p]
  BY <1>1 DEF Put
<1>3. DOMAIN e = DOMAIN c[o] \cup {l} /\ e[l] = v
      /\ \A m \in DOMAIN c[o] : m # l => e[m] = c[o][m]
  BY DEF SetAt
<1>4. Kind[o] = "list" => IsSeq(e) /\ Len(e) = Len(c[o])
  BY PlaceSet DEF Contents
<1> HIDE DEF e, d
<1>5. Contents(d)
  BY <1>2, <1>3, <1>4 DEF Contents
<1> QED BY <1>2, <1>3, <1>4, <1>5 DEF d

LEMMA PutShrinks ==
    ASSUME NEW c, Contents(c), NEW o \in Objects, NEW l \in DOMAIN c[o], NEW v, NEW g
    PROVE  /\ Shrunk(c, Put(c, o, l, v), g)
           /\ Put(c, o, l, v)[o][l] = v
           /\ \A p \in Objects : \A m \in DOMAIN c[p] :
                ~(p = o /\ m = l) => Put(c, o, l, v)[p][m] = c[p][m]
           /\ \A p \in Objects : DOMAIN Put(c, o, l, v)[p] = DOMAIN c[p]
<1> DEFINE d == Put(c, o, l, v)
<1>1. /\ Contents(d) /\ d[o][l] = v /\ DOMAIN d[o] = DOMAIN c[o] \cup {l}
      /\ \A m \in DOMAIN c[o] : m # l => d[o][m] = c[o][m]
      /\ \A p \in Objects : p # o => d[p] = c[p]
      /\ Kind[o] = "list" => Len(d[o]) = Len(c[o])
  <2>1. l # None
    BY DEF Contents
  <2> QED BY <2>1, PutHolds
<1> HIDE DEF d
<1>2. \A p \in Objects : Kind[p] = "list" => Len(c[p]) \in Nat
  BY ListDomain DEF Contents
<1>3. \A p \in Objects : DOMAIN d[p] = DOMAIN c[p]
  BY <1>1
<1>4. \A p \in Objects : Kind[p] = "list" => Len(d[p]) <= Len(c[p])
  BY <1>1, <1>2
<1>5. Shrunk(c, d, g)
  BY <1>1, <1>3, <1>4 DEF Shrunk
<1> QED BY <1>1, <1>3, <1>5 DEF d

\* One item is inserted into a list.
With(c, o, l, v) == [c EXCEPT ![o] = InsertAt(c[o], l, v)]

LEMMA WithHolds ==
    ASSUME NEW c, Contents(c), NEW o \in Objects, Kind[o] = "list",
           NEW l \in 1 .. (Len(c[o]) + 1), NEW v
    PROVE  /\ Contents(With(c, o, l, v))
           /\ \A p \in Objects : p # o => With(c, o, l, v)[p] = c[p]
<1> DEFINE e == InsertAt(c[o], l, v)
           d == With(c, o, l, v)
<1>1. DOMAIN c = Objects /\ IsSeq(c[o])
  BY DEF Contents
<1>2. DOMAIN d = Objects /\ d[o] = e /\ \A p \in Objects : p # o => d[p] = c[p]
  BY <1>1 DEF With
<1>3. IsSeq(e) /\ DOMAIN e \subseteq Nat
  <2>1. IsSeq(e)
    BY <1>1, PlaceInserted
  <2> HIDE DEF e
  <2> QED BY <2>1, ListDomain
<1> HIDE DEF e, d
<1>4. None \notin DOMAIN e
  BY <1>3, InputsAssumption
<1>5. Contents(d)
  BY <1>2, <1>3, <1>4 DEF Contents
<1> QED BY <1>2, <1>5 DEF d

\* One location is taken away.
Without(c, o, l) ==
    [c EXCEPT ![o] = IF Ordered(o) THEN RemoveAt(c[o], l)
                     ELSE [m \in DOMAIN c[o] \ {l} |-> c[o][m]]]

LEMMA WithoutShrinks ==
    ASSUME NEW c, Contents(c), NEW o \in Objects, NEW l \in DOMAIN c[o], ~Fixed(o), NEW g
    PROVE  /\ Shrunk(c, Without(c, o, l), g)
           /\ \A p \in Objects : p # o => Without(c, o, l)[p] = c[p]
           /\ IF Kind[o] = "list"
              THEN DOMAIN Without(c, o, l)[o] = 1 .. (Len(c[o]) - 1) /\ Len(c[o]) \in Nat
              ELSE l \notin DOMAIN Without(c, o, l)[o]
<1> DEFINE d == Without(c, o, l)
           e == d[o]
<1>1. DOMAIN c = Objects /\ (Ordered(o) <=> Kind[o] = "list")
  BY DEF Contents, Ordered, Fixed
<1>2. DOMAIN d = Objects /\ \A p \in Objects : p # o => d[p] = c[p]
  BY <1>1 DEF Without
<1>3. CASE Kind[o] = "list"
  <2>1. e = RemoveAt(c[o], l)
    BY <1>1, <1>3 DEF Without
  <2>2. IsSeq(c[o]) /\ Len(c[o]) \in Nat /\ DOMAIN c[o] = 1 .. Len(c[o])
    BY <1>3, ListDomain DEF Contents
  <2>3. IsSeq(e) /\ Len(e) = Len(c[o]) - 1
    BY <2>1, <2>2, PlaceRemoved
  <2>4. Len(e) \in Nat /\ DOMAIN e = 1 .. Len(e)
    BY <2>3, ListDomain
  <2> HIDE DEF e, d
  <2>5. None \notin DOMAIN e /\ DOMAIN e \subseteq DOMAIN c[o]
    BY <2>2, <2>3, <2>4 DEF Contents
  <2>6. \A p \in Objects : Kind[p] = "list" => Len(c[p]) \in Nat
    BY ListDomain DEF Contents
  <2>7. Contents(d)
    BY <1>2, <2>3, <2>5 DEF Contents, e
  <2>8. \A p \in Objects : /\ DOMAIN d[p] \subseteq DOMAIN c[p]
                           /\ Kind[p] = "list" => Len(d[p]) <= Len(c[p])
    BY <1>2, <2>2, <2>3, <2>5, <2>6 DEF e
  <2> QED BY <1>2, <1>3, <2>2, <2>3, <2>4, <2>7, <2>8 DEF Shrunk, d, e
<1>4. CASE Kind[o] # "list"
  <2>1. e = [m \in DOMAIN c[o] \ {l} |-> c[o][m]]
    BY <1>1, <1>4 DEF Without
  <2>2. DOMAIN e = DOMAIN c[o] \ {l}
    BY <2>1
  <2> HIDE DEF e, d
  <2>3. \A p \in Objects : Kind[p] = "list" => Len(c[p]) \in Nat
    BY ListDomain DEF Contents
  <2>4. Contents(d)
    BY <1>2, <1>4, <2>2 DEF Contents, e
  <2>5. \A p \in Objects : /\ DOMAIN d[p] \subseteq DOMAIN c[p]
                           /\ Kind[p] = "list" => Len(d[p]) <= Len(c[p])
    BY <1>2, <1>4, <2>2, <2>3 DEF e
  <2> QED BY <1>2, <1>4, <2>2, <2>4, <2>5 DEF Shrunk, d, e
<1> QED BY <1>3, <1>4

\* A step of the calls leaves the loops alone, or raises.
CallStep ==
    \/ Filtered \/ Vanished \/ Returns \/ Observes \/ Removes \/ Inserts \/ Fails
    \/ Misdefined \/ EndLoc

LEMMA PushKeeps ==
    ASSUME NEW f, NEW k, Nest(f, k), k > 0, f[k].at # None,
           NEW g, IsCall(g), g.obj = f[k].obj, g.loc = f[k].at, Push(f, g, seen)
    PROVE  Raised \/ (SameLoops(f, stack', k) /\ UNCHANGED <<status, seen>>)
<1>1. CASE Len(f) < MaxDepth
  BY <1>1, CallPushed DEF Push
<1>2. CASE ~(Len(f) < MaxDepth)
  <2>1. Raise(f)
    BY <1>2 DEF Push
  <2> QED BY <2>1, RaiseUnwinds
<1> QED BY <1>1, <1>2

LEMMA CallsKeepLoops ==
    ASSUME NEW k, Machine, Nest(stack, k), CallStep
    PROVE  /\ status = "running" /\ Top.what = "loc" /\ stack # <<>>
           /\ UNCHANGED <<config, root, entered, alike, broke>> /\ grown \subseteq grown'
           /\ Raised \/ (SameLoops(stack, stack', k) /\ UNCHANGED <<status, seen>>)
<1>1. status = "running" /\ Top.what = "loc" /\ stack # <<>>
  BY DEF Machine, CallStep, Filtered, Vanished, Returns, Observes, Removes, Inserts, Fails,
         Misdefined, EndLoc, Called, Calling
<1>2. UNCHANGED <<config, root, entered, alike, broke>> /\ grown \subseteq grown'
  BY DEF CallStep, Filtered, Vanished, Returns, Observes, Removes, Inserts, Fails,
         Misdefined, EndLoc, setup, traversed, outcomes
<1>3. ASSUME NEW b, NEW f, f = AfterCall(b)
      PROVE  SameLoops(stack, f, k) /\ Nest(f, k) /\ f[k] = stack[k]
  <2>1. SameLoops(stack, f, k) /\ k \in Nat /\ k > 0
    BY <1>1, <1>3, AfterCallKeeps, TopCall
  <2> QED BY <2>1 DEF SameLoops
<1>4. ASSUME NEW b, stack' = AfterCall(b)
      PROVE  SameLoops(stack, stack', k)
  BY <1>3, <1>4
<1>5. ASSUME NEW b, Raise(AfterCall(b))
      PROVE  Raised \/ (SameLoops(stack, stack', k) /\ UNCHANGED <<status, seen>>)
  <2> DEFINE f == AfterCall(b)
  <2>1. SameLoops(stack, f, k) /\ Nest(f, k) /\ Raise(f)
    BY <1>3, <1>5
  <2> HIDE DEF f
  <2> QED BY <2>1, RaiseUnwinds, LoopsThrough
<1>6. ASSUME Filtered
     PROVE  Raised \/ (SameLoops(stack, stack', k) /\ UNCHANGED <<status, seen>>)
  BY <1>4, <1>5, <1>6 DEF Filtered
<1>7. ASSUME Vanished
     PROVE  Raised \/ (SameLoops(stack, stack', k) /\ UNCHANGED <<status, seen>>)
  BY <1>5, <1>7 DEF Vanished
<1>8. ASSUME Returns
     PROVE  Raised \/ (SameLoops(stack, stack', k) /\ UNCHANGED <<status, seen>>)
  <2>1. PICK value \in Does[Callee.callback].returns :
          \/ Raise(AfterCall(Callee.tolerant))
          \/ IF Reprocesses(value)
             THEN Push(AfterCall(Callee.tolerant), LocFrame(Top.obj, Top.loc, content'), seen)
             ELSE stack' = AfterCall(FALSE) /\ UNCHANGED <<seen, status, failed, overflow>>
    BY <1>8 DEF Returns
  <2> SUFFICES ASSUME ~Raise(AfterCall(Callee.tolerant))
      PROVE  Raised \/ (SameLoops(stack, stack', k) /\ UNCHANGED <<status, seen>>)
    BY <1>5
  <2>2. CASE Reprocesses(value)
    <3> DEFINE f == AfterCall(Callee.tolerant)
               g == LocFrame(Top.obj, Top.loc, content')
    <3>1. SameLoops(stack, f, k) /\ Nest(f, k) /\ f[k] = stack[k]
      BY <1>3
    <3>2. IsCall(g) /\ g.obj = Top.obj /\ g.loc = Top.loc
      BY NewCall
    <3>3. Push(f, g, seen)
      BY <2>1, <2>2
    <3> HIDE DEF f, g
    <3>4. /\ k > 0 /\ f[k].at # None /\ g.obj = f[k].obj /\ g.loc = f[k].at
      BY <1>1, <3>1, <3>2, TopCall
    <3> QED BY <3>1, <3>2, <3>3, <3>4, PushKeeps, LoopsThrough
  <2>3. CASE ~Reprocesses(value)
    BY <1>4, <2>1, <2>3
  <2> QED BY <2>2, <2>3
<1>9. ASSUME Observes
     PROVE  Raised \/ (SameLoops(stack, stack', k) /\ UNCHANGED <<status, seen>>)
  BY <1>4, <1>9 DEF Observes
<1>10. ASSUME Removes
     PROVE  Raised \/ (SameLoops(stack, stack', k) /\ UNCHANGED <<status, seen>>)
  BY <1>4, <1>10 DEF Removes
<1>14. ASSUME Inserts
     PROVE  Raised \/ (SameLoops(stack, stack', k) /\ UNCHANGED <<status, seen>>)
  BY <1>4, <1>14 DEF Inserts
<1>11. ASSUME Fails
     PROVE  Raised \/ (SameLoops(stack, stack', k) /\ UNCHANGED <<status, seen>>)
  BY <1>5, <1>11 DEF Fails
<1>12. ASSUME Misdefined
     PROVE  Raised \/ (SameLoops(stack, stack', k) /\ UNCHANGED <<status, seen>>)
  BY <1>12 DEF Misdefined, Raised
<1>13. ASSUME EndLoc
     PROVE  Raised \/ (SameLoops(stack, stack', k) /\ UNCHANGED <<status, seen>>)
  <2>1. stack' = Front(stack) /\ UNCHANGED <<seen, status>>
    BY <1>13 DEF EndLoc
  <2>2. stack' = SubSeq(stack, 1, Len(stack) - 1)
    BY <1>1, <2>1, FrontOf DEF Nest
  <2>3. Len(stack) - 1 \in k .. Len(stack)
    BY <1>1, TopCall
  <2> QED BY <2>1, <2>2, <2>3, CallsCut
<1> QED BY <1>1, <1>2, <1>6, <1>7, <1>8, <1>9, <1>10, <1>11, <1>12, <1>13, <1>14
        DEF CallStep

\* What a step of the calls leaves as it is of an object, but at the location it is for.
Kept(o) ==
    /\ \A l \in DOMAIN content'[o] :
        content'[o][l] = content[o][l] \/ (o = Top.obj /\ l = Top.loc)
    /\ \A at : at[1] = o => (at \in looked' <=> at \in looked)

LEMMA CallsSet ==
    ASSUME NEW k, Machine, Nest(stack, k), Returns
    PROVE  /\ Shrunk(content, content', grown')
           /\ \A o \in Objects \ grown' : Kept(o)
<1>1. Top.what = "loc" /\ stack # <<>> /\ Contents(content)
  BY CallsKeepLoops DEF CallStep, Machine
<1>2. PICK o, l, d : o = Top.obj /\ l = Top.loc /\ d = content'
  OBVIOUS
<1>7. o \in Objects /\ l # None
  BY <1>1, <1>2, TopCall
<1>3. Shrunk(content, content, grown')
  BY <1>1, SameShrunk
<1>4. looked' = looked
  BY DEF Returns
<1>5. CASE content' = content
  BY <1>3, <1>4, <1>5 DEF Kept
<1>6. CASE content' # content
  <2>1. PICK value :
          /\ d = Put(content, o, l, value)
          /\ Present \/ Kind[o] # "list"
          /\ grown' = IF Present THEN grown ELSE grown \cup {o}
    <3>1. PICK value \in Does[Callee.callback].returns :
            IF ~Present /\ Kind[Top.obj] = "list"
            THEN UNCHANGED content
            ELSE /\ content' = IF Fixed(Top.obj) THEN content
                              ELSE [content EXCEPT ![Top.obj] =
                                       [m \in DOMAIN @ \cup {Top.loc} |->
                                           IF m = Top.loc THEN value ELSE @[m]]]
                 /\ grown' = IF Present THEN grown ELSE grown \cup {Top.obj}
      BY DEF Returns
    <3>2. Present \/ Kind[o] # "list"
      BY <1>2, <1>6, <3>1
    <3>3. ~Fixed(Top.obj) /\ ~(~Present /\ Kind[Top.obj] = "list")
      BY <1>6, <3>1
    <3>4. content' = [content EXCEPT ![Top.obj] =
                        [m \in DOMAIN @ \cup {Top.loc} |->
                            IF m = Top.loc THEN value ELSE @[m]]]
      BY <3>1, <3>3
    <3>5. d = Put(content, o, l, value)
      BY <1>2, <3>4 DEF Put, SetAt
    <3> QED BY <1>2, <3>1, <3>2, <3>3, <3>5
  <2>2. CASE Present
    <3>1. l \in DOMAIN content[o]
      BY <1>2, <2>2 DEF Present
    <3>2. /\ Shrunk(content, d, grown')
          /\ \A p \in Objects : \A m \in DOMAIN content[p] :
               ~(p = o /\ m = l) => d[p][m] = content[p][m]
          /\ \A p \in Objects : DOMAIN d[p] = DOMAIN content[p]
      <4>1. PICK g, c, v : g = grown' /\ c = content /\ v = value
        OBVIOUS
      <4>3. o \in Objects /\ l \in DOMAIN c[o] /\ Contents(c)
        BY <1>1, <1>7, <3>1, <4>1
      <4>2. /\ Shrunk(c, Put(c, o, l, v), g)
            /\ \A p \in Objects : \A m \in DOMAIN c[p] :
                 ~(p = o /\ m = l) => Put(c, o, l, v)[p][m] = c[p][m]
            /\ \A p \in Objects : DOMAIN Put(c, o, l, v)[p] = DOMAIN c[p]
        BY <4>3, PutShrinks
      <4> QED BY <2>1, <4>1, <4>2
    <3> QED BY <1>2, <1>4, <3>2 DEF Kept
  <2>3. CASE ~Present
    <3>0. Kind[o] # "list"
      BY <1>2, <2>1, <2>3
    <3>5. /\ Contents(Put(content, o, l, value))
          /\ \A p \in Objects : p # o => Put(content, o, l, value)[p] = content[p]
      BY <1>1, <1>7, <3>0, PutHolds
    <3>1. /\ Contents(d)
          /\ \A p \in Objects : p # o => d[p] = content[p]
      BY <2>1, <3>5
    <3>2. o \in grown'
      BY <2>1, <2>3
    <3>3. \A p \in Objects : Kind[p] = "list" => Len(content[p]) \in Nat
      BY <1>1, ListDomain DEF Contents
    <3>4. Shrunk(content, content', grown')
      BY <1>2, <3>1, <3>2, <3>3 DEF Shrunk
    <3> QED BY <1>2, <1>4, <3>1, <3>2, <3>4 DEF Kept
  <2> QED BY <2>2, <2>3
<1> QED BY <1>5, <1>6

LEMMA CallsInsert ==
    ASSUME NEW k, Machine, Nest(stack, k), Inserts
    PROVE  /\ Shrunk(content, content', grown')
           /\ \A o \in Objects \ grown' : Kept(o)
<1>1. Top.what = "loc" /\ stack # <<>> /\ Contents(content)
  BY CallsKeepLoops DEF CallStep, Machine
<1>2. PICK o, d : o = Top.obj /\ d = content'
  OBVIOUS
<1>9. o \in Objects
  BY <1>1, <1>2, TopCall
<1>3. PICK value, loc :
        /\ loc \in IF Ordered(o) THEN 1 .. Len(content[o]) + 1
                   ELSE NewKeys \ DOMAIN content[o]
        /\ d = IF Ordered(o) THEN With(content, o, loc, value) ELSE Put(content, o, loc, value)
        /\ looked' = IF Ordered(o) THEN MovedDown(o, loc) ELSE looked
  <2>1. PICK value \in Does[Callee.callback].inserts :
          \E loc \in IF Ordered(Top.obj) THEN 1 .. Len(content[Top.obj]) + 1
                     ELSE NewKeys \ DOMAIN content[Top.obj] :
            /\ content' = [content EXCEPT ![Top.obj] =
                    IF Ordered(Top.obj) THEN InsertAt(@, loc, value)
                    ELSE [l \in DOMAIN @ \cup {loc} |-> IF l = loc THEN value ELSE @[l]]]
            /\ looked' = IF Ordered(Top.obj) THEN MovedDown(Top.obj, loc) ELSE looked
    BY DEF Inserts
  <2>2. PICK loc \in IF Ordered(o) THEN 1 .. Len(content[o]) + 1
                     ELSE NewKeys \ DOMAIN content[o] :
            /\ d = [content EXCEPT ![o] =
                    IF Ordered(o) THEN InsertAt(@, loc, value)
                    ELSE [l \in DOMAIN @ \cup {loc} |-> IF l = loc THEN value ELSE @[l]]]
            /\ looked' = IF Ordered(o) THEN MovedDown(o, loc) ELSE looked
    BY <1>2, <2>1
  <2>3. CASE Ordered(o)
    BY <2>2, <2>3 DEF With
  <2>4. CASE ~Ordered(o)
    BY <2>2, <2>4 DEF Put, SetAt
  <2> QED BY <2>3, <2>4
<1>4. o \in grown' /\ Kind[o] \in {"dict", "list"}
  BY <1>2 DEF Inserts
<1>5. /\ Contents(d)
      /\ \A p \in Objects : p # o => d[p] = content[p]
  <2>1. CASE Kind[o] = "list"
    <3>1. loc \in 1 .. (Len(content[o]) + 1) /\ d = With(content, o, loc, value)
      BY <1>3, <2>1 DEF Ordered
    <3>2. /\ Contents(With(content, o, loc, value))
          /\ \A p \in Objects : p # o => With(content, o, loc, value)[p] = content[p]
      BY <1>1, <1>9, <2>1, <3>1, WithHolds
    <3> QED BY <3>1, <3>2
  <2>2. CASE Kind[o] = "dict"
    <3>1. loc \in NewKeys /\ d = Put(content, o, loc, value)
      BY <1>3, <2>2 DEF Ordered
    <3>2. loc # None
      BY <3>1, InputsAssumption
    <3>3. Kind[o] # "list"
      BY <2>2
    <3>4. /\ Contents(Put(content, o, loc, value))
          /\ \A p \in Objects : p # o => Put(content, o, loc, value)[p] = content[p]
      BY <1>1, <1>9, <3>2, <3>3, PutHolds
    <3> QED BY <3>1, <3>4
  <2> QED BY <1>4, <2>1, <2>2
<1>6. \A p \in Objects : Kind[p] = "list" => Len(content[p]) \in Nat
  BY <1>1, ListDomain DEF Contents
<1>7. Shrunk(content, content', grown')
  BY <1>2, <1>4, <1>5, <1>6 DEF Shrunk
<1>8. ASSUME NEW at, at[1] # o PROVE at \in looked' <=> at \in looked
  <2>1. \A x : <<o, x>>[1] = o
    OBVIOUS
  <2> QED BY <1>3, <1>8, <2>1 DEF MovedDown
<1> QED BY <1>2, <1>4, <1>5, <1>7, <1>8 DEF Kept

LEMMA CallsRemove ==
    ASSUME NEW k, Machine, Nest(stack, k), Removes
    PROVE  /\ Shrunk(content, content', grown')
           /\ \A o \in Objects \ grown' :
                IF o = Top.obj THEN Gone(stack, content', o) ELSE Kept(o)
           /\ \A at \in looked' : at \in looked \/ at[1] = Top.obj
<1>0. PICK o, l, d : o = Top.obj /\ l = Top.loc /\ d = content'
  OBVIOUS
<1>1. Top.what = "loc" /\ stack # <<>> /\ Contents(content)
  BY CallsKeepLoops DEF CallStep, Machine
<1>2. /\ k \in Nat /\ k > 0 /\ k < Len(stack) /\ o = stack[k].obj
      /\ l = stack[k].at /\ stack[k].at # None /\ stack[k].what = "iter"
      /\ o \in Objects /\ Len(stack) \in Nat /\ k \in 1 .. Len(stack)
  BY <1>0, <1>1, TopCall
<1>3. ~Fixed(o) /\ l \in DOMAIN content[o] /\ d = Without(content, o, l)
      /\ grown' = grown /\ looked' = IF Ordered(o) THEN MovedUp(o, l) ELSE looked
  BY <1>0 DEF Removes, Present, Without
<1>4. /\ Shrunk(content, d, grown')
      /\ \A p \in Objects : p # o => d[p] = content[p]
      /\ IF Kind[o] = "list"
         THEN DOMAIN d[o] = 1 .. (Len(content[o]) - 1) /\ Len(content[o]) \in Nat
         ELSE l \notin DOMAIN d[o]
  <2>1. PICK g : g = grown'
    OBVIOUS
  <2>2. /\ Shrunk(content, Without(content, o, l), g)
        /\ \A p \in Objects : p # o => Without(content, o, l)[p] = content[p]
        /\ IF Kind[o] = "list"
           THEN DOMAIN Without(content, o, l)[o] = 1 .. (Len(content[o]) - 1)
                /\ Len(content[o]) \in Nat
           ELSE l \notin DOMAIN Without(content, o, l)[o]
    <3>1. o \in Objects /\ l \in DOMAIN content[o] /\ ~Fixed(o)
      BY <1>2, <1>3
    <3> QED BY <1>1, <3>1, WithoutShrinks
  <2> QED BY <1>3, <2>1, <2>2
<1>5. ASSUME NEW at, at[1] # o PROVE at \in looked' <=> at \in looked
  <2>1. \A x : <<o, x>>[1] = o
    OBVIOUS
  <2> QED BY <1>3, <1>5, <2>1 DEF MovedUp
<1>6. \A p \in Objects : p # o => Kept(p)
  BY <1>0, <1>4, <1>5 DEF Kept
<1>7. ASSUME o \notin grown PROVE Gone(stack, d, o)
  <2>1. LoopRight(stack[k], content, grown)
    BY <1>2 DEF Machine
  <2>2. CASE Kind[o] = "list"
    <3>1. /\ stack[k].left \subseteq Nat /\ l \in Nat
          /\ Reaches(stack[k].left \cup {l}, content[o])
      BY <1>2, <1>7, <2>1, <2>2 DEF LoopRight
    <3>2. PICK p \in stack[k].left \cup {l} : p >= Len(content[o])
      BY <3>1 DEF Reaches
    <3>3. p \in Nat /\ p \notin DOMAIN d[o]
      BY <1>4, <2>2, <3>1, <3>2
    <3>4. p # None
      BY <1>2, <2>1, <3>2 DEF LoopRight
    <3> QED BY <1>2, <3>2, <3>3, <3>4 DEF Gone
  <2>3. CASE Kind[o] # "list"
    BY <1>2, <1>4, <2>3 DEF Gone
  <2> QED BY <2>2, <2>3
<1>8. \A at \in looked' : at \in looked \/ at[1] = o
  BY <1>5
<1> QED BY <1>0, <1>3, <1>4, <1>6, <1>7, <1>8

LEMMA CallsShrink ==
    ASSUME NEW k, Machine, Nest(stack, k), CallStep
    PROVE  /\ Shrunk(content, content', grown')
           /\ \A o \in Objects \ grown' :
                \/ Removes /\ Gone(stack, content', o)
                \/ Kept(o) /\ (Removes => o # Top.obj)
           /\ \A at \in looked' : at \in looked \/ at[1] = Top.obj
<1>1. Contents(content)
  BY DEF Machine
<1>2. Shrunk(content, content, grown')
  BY <1>1, SameShrunk
<1>3. CASE Removes
  BY <1>3, CallsRemove
<1>4. CASE ~Removes /\ Returns
  <2>1. looked' = looked
    BY <1>4 DEF Returns
  <2>2. Shrunk(content, content', grown') /\ \A o \in Objects \ grown' : Kept(o)
    BY <1>4, CallsSet
  <2> QED BY <1>4, <2>1, <2>2
<1>5. CASE ~Removes /\ Inserts
  <2>1. \A at \in looked' : at \in looked \/ at[1] = Top.obj
    BY <1>5 DEF Inserts, MovedDown
  <2>2. Shrunk(content, content', grown') /\ \A o \in Objects \ grown' : Kept(o)
    BY <1>5, CallsInsert
  <2> QED BY <1>5, <2>1, <2>2
<1>6. CASE ~Removes /\ ~Returns /\ ~Inserts
  <2>1. content' = content /\ looked' = looked
    BY <1>6 DEF CallStep, Filtered, Vanished, Observes, Fails, Misdefined, EndLoc, traversed
  <2> QED BY <1>2, <1>6, <2>1 DEF Kept
<1> QED BY <1>3, <1>4, <1>5, <1>6

LEMMA NoCalls == Nest(<<>>, 0) /\ Len(<<>>) = 0
<1>1. <<>> \in Seq({}) /\ Len(<<>>) = 0
  OBVIOUS
<1>2. IsSeq(<<>>)
  BY <1>1 DEF IsSeq
<1> QED BY <1>1, <1>2 DEF Nest

LEMMA LoopStaysRight ==
    ASSUME NEW f, NEW c, NEW d, NEW g, NEW h, f.obj \in Objects, Contents(c),
           LoopRight(f, c, g), Shrunk(c, d, h), g \subseteq h
    PROVE  LoopRight(f, d, h)
<1>1. CASE Kind[f.obj] = "list" /\ f.obj \notin h
  <2>1. /\ Len(d[f.obj]) \in Nat /\ Len(c[f.obj]) \in Nat
        /\ Len(d[f.obj]) <= Len(c[f.obj])
    BY <1>1, ListDomain DEF Contents, Shrunk
  <2>2. ASSUME NEW places, places \subseteq Nat, Reaches(places, c[f.obj])
        PROVE  Reaches(places, d[f.obj])
    BY <2>1, <2>2 DEF Reaches
  <2>3. /\ f.left \subseteq Nat
        /\ f.at # None => f.at \in Nat
        /\ Reaches(f.left, c[f.obj])
        /\ f.at # None => Reaches(f.left \cup {f.at}, c[f.obj])
    BY <1>1 DEF LoopRight
  <2>4. Reaches(f.left, d[f.obj])
    BY <2>2, <2>3
  <2>5. ASSUME f.at # None PROVE Reaches(f.left \cup {f.at}, d[f.obj])
    <3>1. PICK l, a : l = f.left /\ a = f.at
      OBVIOUS
    <3>2. l \subseteq Nat /\ a \in Nat
      BY <2>3, <2>5, <3>1
    <3>3. l \cup {a} \subseteq Nat
      BY <3>2
    <3> QED BY <2>2, <2>3, <2>5, <3>1, <3>3
  <2> QED BY <2>3, <2>4, <2>5 DEF LoopRight
<1>2. CASE Kind[f.obj] # "list" \/ f.obj \in h
  BY <1>2 DEF LoopRight
<1> QED BY <1>1, <1>2

LEMMA AllRaised ==
    ASSUME Machine, Raised, Contents(content'), UNCHANGED root, entered' \subseteq Objects
    PROVE  Machine' /\ Coverage'
<1>1. Nest(stack', 0) /\ Len(stack') = 0
  BY NoCalls DEF Raised
<1>2. Machine'
  BY <1>1 DEF Machine, Raised, SeenRight
<1> QED BY <1>2 DEF Coverage, Raised

LEMMA CallsKeepMachine ==
    ASSUME Machine, CallStep
    PROVE  Machine'
<1>1. PICK k : Nest(stack, k)
  BY DEF Machine
<1>2. /\ status = "running" /\ Top.what = "loc" /\ stack # <<>>
      /\ UNCHANGED <<config, root, entered, broke>> /\ grown \subseteq grown'
      /\ Raised \/ (SameLoops(stack, stack', k) /\ UNCHANGED <<status, seen>>)
  BY <1>1, CallsKeepLoops
<1>3. Shrunk(content, content', grown') /\ Contents(content')
  BY <1>1, CallsShrink DEF Shrunk
<1>4. CASE Raised
  BY <1>2, <1>3, <1>4, AllRaised DEF Machine
<1>5. CASE SameLoops(stack, stack', k) /\ UNCHANGED <<status, seen>>
  <2>1. Nest(stack', k) /\ Len(stack') \in Nat /\ k > 0 /\ k \in Nat /\ k <= Len(stack')
    BY <1>1, <1>2, <1>5, TopCall, LoopsBelow DEF SameLoops
  <2>2. stack' # <<>>
    BY <2>1, NoCalls
  <2>3. ASSUME NEW i \in 1 .. Len(stack'), stack'[i].what = "iter"
        PROVE  LoopRight(stack'[i], content', grown')
    <3>1. i \in 1 .. Len(stack) /\ stack'[i] = stack[i]
      BY <1>1, <1>5, <2>3, LoopsAlike
    <3>2. LoopRight(stack[i], content, grown) /\ Contents(content)
      BY <2>3, <3>1 DEF Machine
    <3>3. i \in 1 .. k
      BY <1>1, <2>3, <3>1, LoopsBelow
    <3>4. stack[i].obj \in Objects
      BY <1>1, <3>3 DEF Nest
    <3> QED BY <1>2, <1>3, <3>1, <3>2, <3>4, LoopStaysRight
  <2> QED BY <1>2, <1>3, <1>5, <2>1, <2>2, <2>3 DEF Machine
<1> QED BY <1>2, <1>4, <1>5

\* What the loops have before them when the calls move on.
LEMMA LoopsAhead ==
    ASSUME NEW s, NEW t, NEW k, Nest(s, k), SameLoops(s, t, k), NEW obj, NEW loc
    PROVE  /\ Awaits(s, obj, loc) <=> Awaits(t, obj, loc)
           /\ IsAt(s, obj, loc) <=> IsAt(t, obj, loc)
BY LoopsAlike DEF Awaits, IsAt

LEMMA GoneForGood ==
    ASSUME NEW s, NEW t, NEW k, Nest(s, k), SameLoops(s, t, k),
           NEW c, NEW d, NEW g, Shrunk(c, d, g), NEW o \in Objects \ g, Gone(s, c, o)
    PROVE  Gone(t, d, o)
<1>1. PICK i \in 1 .. Len(s) :
        /\ s[i].what = "iter" /\ s[i].obj = o
        /\ \E l \in s[i].left \cup {s[i].at} : l # None /\ l \notin DOMAIN c[o]
  BY DEF Gone
<1>2. i \in 1 .. Len(t) /\ t[i] = s[i]
  BY <1>1, LoopsAlike
<1>3. DOMAIN d[o] \subseteq DOMAIN c[o]
  BY DEF Shrunk
<1> QED BY <1>1, <1>2, <1>3 DEF Gone

LEMMA CallsKeepCoverage ==
    ASSUME CompleteInv, CallStep
    PROVE  Coverage'
<1>1. PICK k : Nest(stack, k)
  BY DEF CompleteInv, Machine
<1>2. /\ Machine /\ status = "running" /\ Top.what = "loc" /\ stack # <<>>
      /\ UNCHANGED <<config, root, entered, alike, broke>> /\ grown \subseteq grown'
      /\ Raised \/ (SameLoops(stack, stack', k) /\ UNCHANGED <<status, seen>>)
  BY <1>1, CallsKeepLoops DEF CompleteInv
<1>3. SUFFICES ASSUME ~broke, ~config.ignores, SameLoops(stack, stack', k), ~Raised,
                      NEW obj \in Objects \ grown'
      PROVE  Gone(stack', content', obj) \/ Covered(obj)'
  BY <1>2 DEF Coverage, Raised
<1>4. Shrunk(content, content', grown') /\ (Gone(stack, content', obj) \/ Kept(obj))
  BY <1>1, <1>2, CallsShrink
<1>5. Shrunk(content', content', grown')
  BY <1>4, SameShrunk DEF Shrunk
<1>6. CASE Gone(stack, content', obj)
  BY <1>1, <1>3, <1>5, <1>6, GoneForGood
<1>7. CASE Gone(stack, content, obj)
  BY <1>1, <1>3, <1>4, <1>7, GoneForGood
<1>8. CASE Kept(obj) /\ Covered(obj)
  <2>1. ASSUME obj \in entered, NEW loc \in DOMAIN content'[obj]
        PROVE  /\ <<obj, loc>> \in looked' \/ Awaits(stack', obj, loc)
               /\ content'[obj][loc] \in Objects \ {Text} =>
                    \/ Visited(content'[obj][loc])
                    \/ Awaits(stack', obj, loc) \/ IsAt(stack', obj, loc)
    <3>1. loc \in DOMAIN content[obj]
      BY <1>4, <2>1 DEF Shrunk
    <3>2. <<obj, loc>> \in looked \/ Awaits(stack, obj, loc)
      BY <1>8, <2>1, <3>1 DEF Covered
    <3>3. <<obj, loc>> \in looked' \/ Awaits(stack', obj, loc)
      <4>1. <<obj, loc>>[1] = obj
        OBVIOUS
      <4>2. <<obj, loc>> \in looked => <<obj, loc>> \in looked'
        BY <1>8, <4>1 DEF Kept
      <4> QED BY <1>1, <1>3, <3>2, <4>2, LoopsAhead
    <3>4. CASE obj = Top.obj /\ loc = Top.loc
      <4>1. /\ k \in 1 .. Len(stack) /\ Top.obj = stack[k].obj /\ Top.loc = stack[k].at
            /\ stack[k].what = "iter"
        BY <1>1, <1>2, TopCall
      <4>2. IsAt(stack, obj, loc)
        BY <3>4, <4>1 DEF IsAt
      <4> QED BY <1>1, <1>3, <3>3, <4>2, LoopsAhead
    <3>5. CASE ~(obj = Top.obj /\ loc = Top.loc)
      <4>1. content'[obj][loc] = content[obj][loc]
        BY <1>8, <2>1, <3>5 DEF Kept
      <4>2. content[obj][loc] \in Objects \ {Text} =>
              \/ Visited(content[obj][loc])
              \/ Awaits(stack, obj, loc) \/ IsAt(stack, obj, loc)
        BY <1>8, <2>1, <3>1 DEF Covered
      <4> QED BY <1>1, <1>3, <3>3, <4>1, <4>2, LoopsAhead
    <3> QED BY <3>4, <3>5
  <2> QED BY <1>2, <2>1 DEF Covered, Visited
<1>9. Gone(stack, content, obj) \/ Covered(obj)
  <2>1. status # "raised" /\ obj \notin grown
    BY <1>2
  <2> QED BY <1>3, <2>1 DEF CompleteInv, Coverage
<1> QED BY <1>4, <1>6, <1>7, <1>8, <1>9

-----------------------------------------------------------------------------
(* Steps of the loops *)

LEMMA LoopRaises ==
    ASSUME NEW f, NEW k, Nest(f, k), k = Len(f), Raise(f)
    PROVE  Raised
<1>1. Len(f) \in Nat
  BY ListDomain DEF Nest
<1>2. Raised \/ k < Len(f)
  BY RaiseUnwinds
<1> QED BY <1>1, <1>2

\* The innermost loop, from which a location is taken.
LEMMA LocTaken ==
    ASSUME NEW k, Nest(stack, k), k = Len(stack), k > 0, IsLoop(Top), Top = stack[k],
           NEW rest, NEW at, NEW f, f = WithEnd(stack, WithPlaces(Top, rest, at))
    PROVE  /\ Nest(f, k) /\ Len(f) = k /\ \A i \in 1 .. (k - 1) : f[i] = stack[i]
           /\ f[k].what = "iter" /\ f[k].obj = Top.obj
           /\ f[k].left = rest /\ f[k].at = at /\ f[k].fresh = Top.fresh
<1> DEFINE g == WithPlaces(Top, rest, at)
<1>1. IsLoop(g) /\ g.obj = Top.obj /\ g.left = rest /\ g.at = at
      /\ g.fresh = Top.fresh
  BY LoopUpdated
<1>2. f = WithEnd(stack, g)
  OBVIOUS
<1> HIDE DEF g
<1>3. /\ Nest(f, k) /\ f[k] = g /\ Len(f) = k
      /\ \A i \in 1 .. (k - 1) : f[i] = stack[i]
  <2>1. IsLoop(g) /\ g.obj = stack[k].obj
    BY <1>1
  <2>2. /\ Nest(WithEnd(stack, g), k) /\ WithEnd(stack, g)[k] = g
        /\ Len(WithEnd(stack, g)) = k
        /\ \A i \in 1 .. (k - 1) : WithEnd(stack, g)[i] = stack[i]
    BY <2>1, LoopReplaced
  <2> QED BY <1>2, <2>2
<1> QED BY <1>1, <1>3, FrameKinds

\* The innermost loop, done with the location it was at.
LEMMA LocLeft ==
    ASSUME NEW k, Nest(stack, k), k = Len(stack), k > 0, IsLoop(Top), Top = stack[k],
           NEW f, f = WithEnd(stack, WithoutPlace(Top))
    PROVE  /\ Nest(f, k) /\ Len(f) = k /\ \A i \in 1 .. (k - 1) : f[i] = stack[i]
           /\ f[k].what = "iter" /\ f[k].obj = Top.obj
           /\ f[k].left = Top.left /\ f[k].at = None /\ f[k].fresh = Top.fresh
<1> DEFINE g == WithoutPlace(Top)
<1>1. IsLoop(g) /\ g.obj = Top.obj /\ g.left = Top.left /\ g.at = None
      /\ g.fresh = Top.fresh
  BY LoopLeft
<1>2. f = WithEnd(stack, g)
  OBVIOUS
<1> HIDE DEF g
<1>3. /\ Nest(f, k) /\ f[k] = g /\ Len(f) = k
      /\ \A i \in 1 .. (k - 1) : f[i] = stack[i]
  <2>1. IsLoop(g) /\ g.obj = stack[k].obj
    BY <1>1
  <2>2. /\ Nest(WithEnd(stack, g), k) /\ WithEnd(stack, g)[k] = g
        /\ Len(WithEnd(stack, g)) = k
        /\ \A i \in 1 .. (k - 1) : WithEnd(stack, g)[i] = stack[i]
    BY <2>1, LoopReplaced
  <2> QED BY <1>2, <2>2
<1> QED BY <1>1, <1>3, FrameKinds

\* Either of them keeps what is known of the loops.
LEMMA LoopsStayRight ==
    ASSUME Machine, NEW k, Nest(stack, k), k = Len(stack), k > 0,
           NEW f, Nest(f, k), Len(f) = k, \A i \in 1 .. (k - 1) : f[i] = stack[i],
           LoopRight(f[k], content, grown)
    PROVE  \A i \in 1 .. Len(f) : LoopRight(f[i], content, grown)
<1>1. k \in Nat
  BY LoopsBelow
<1>2. \A i \in 1 .. k : i \in 1 .. (k - 1) \/ i = k
  BY <1>1
<1>3. \A i \in 1 .. k : stack[i].what = "iter"
  BY <1>1, LoopsBelow
<1>4. \A i \in 1 .. k : LoopRight(stack[i], content, grown)
  BY <1>3 DEF Machine
<1>5. \A i \in 1 .. (k - 1) : LoopRight(f[i], content, grown)
  BY <1>1, <1>4
<1> QED BY <1>2, <1>5

LEMMA NextLocSteps ==
    ASSUME Machine, NEW k, Nest(stack, k), NextLoc
    PROVE  \E loc \in Top.left : \E at, f :
            /\ stack # <<>> /\ status = "running" /\ Top.what = "iter" /\ Top.at = None
            /\ UNCHANGED <<config, root, content, entered, alike, grown, broke>>
            /\ looked' = looked \cup {<<Top.obj, at>>}
            /\ Ordered(Top.obj) => \A l \in Top.left : loc <= l
            /\ at # None
            /\ at = loc \/ (Top.obj \in grown /\ Kind[Top.obj] # "list")
            /\ Nest(f, k) /\ Len(f) = k /\ \A i \in 1 .. (k - 1) : f[i] = stack[i]
            /\ f[k].what = "iter" /\ f[k].obj = Top.obj
            /\ f[k].left = Top.left \ {loc} /\ f[k].at = at
            /\ Raised \/ (SameLoops(f, stack', k) /\ UNCHANGED <<status, seen>>)
<1>1. status = "running" /\ Top.what = "iter" /\ Top.at = None /\ stack # <<>>
  BY DEF NextLoc, Looping, Machine
<1>2. UNCHANGED <<config, root, content, entered, alike, grown, broke>>
  BY DEF NextLoc, setup
<1>3. PICK loc \in Top.left :
        /\ Ordered(Top.obj) => \A l \in Top.left : loc <= l
        /\ \E at \in {loc} \cup (IF Rekeyed THEN DOMAIN content[Top.obj] ELSE {}) :
             LET obj == Top.obj
                 frames == Replaced([Top EXCEPT !.left = Remaining(loc), !.at = at])
             IN /\ looked' = looked \cup {<<Top.obj, at>>}
                /\ IF at \in DOMAIN content[obj]
                   THEN Push(frames, LocFrame(obj, at, content), seen)
                   ELSE stack' = frames /\ UNCHANGED <<seen, status, failed, overflow>>
  BY DEF NextLoc
<1>10. PICK at \in {loc} \cup (IF Rekeyed THEN DOMAIN content[Top.obj] ELSE {}) :
             LET obj == Top.obj
                 frames == Replaced([Top EXCEPT !.left = Remaining(loc), !.at = at])
             IN /\ looked' = looked \cup {<<Top.obj, at>>}
                /\ IF at \in DOMAIN content[obj]
                   THEN Push(frames, LocFrame(obj, at, content), seen)
                   ELSE stack' = frames /\ UNCHANGED <<seen, status, failed, overflow>>
  BY <1>3
<1> DEFINE f == WithEnd(stack, WithPlaces(Top, Top.left \ {loc}, at))
           g == LocFrame(Top.obj, at, content)
<1>4. \/ Push(f, g, seen) /\ at \in DOMAIN content[Top.obj]
      \/ stack' = f /\ UNCHANGED <<seen, status>>
  <2>1. f = Replaced([Top EXCEPT !.left = Remaining(loc), !.at = at])
    BY DEF WithEnd, WithPlaces, Replaced, Remaining
  <2> HIDE DEF f
  <2> QED BY <1>10, <2>1
<1>5. k \in Nat /\ k = Len(stack) /\ k > 0 /\ Top = stack[k] /\ IsLoop(Top)
      /\ Top.obj \in Objects
  BY <1>1, TopLoop
<1>6. /\ Nest(f, k) /\ Len(f) = k /\ \A i \in 1 .. (k - 1) : f[i] = stack[i]
      /\ f[k].what = "iter" /\ f[k].obj = Top.obj
      /\ f[k].left = Top.left \ {loc} /\ f[k].at = at
  <2>1. PICK rest, a : rest = Top.left \ {loc} /\ a = at
    OBVIOUS
  <2>2. PICK e : e = WithEnd(stack, WithPlaces(Top, rest, a))
    OBVIOUS
  <2>3. /\ Nest(e, k) /\ Len(e) = k /\ \A i \in 1 .. (k - 1) : e[i] = stack[i]
        /\ e[k].what = "iter" /\ e[k].obj = Top.obj
        /\ e[k].left = rest /\ e[k].at = a
    BY <1>5, <2>2, LocTaken
  <2> QED BY <2>1, <2>2, <2>3
<1>7. IsCall(g) /\ g.obj = Top.obj /\ g.loc = at
  BY NewCall
<1> HIDE DEF f, g
<1>8. at # None
  <2>1. k \in 1 .. Len(stack)
    BY <1>5
  <2>2. LoopRight(stack[k], content, grown)
    BY <1>1, <1>5, <2>1 DEF Machine
  <2>3. loc # None
    BY <1>3, <1>5, <2>2 DEF LoopRight
  <2>4. None \notin DOMAIN content[Top.obj]
    BY <1>5 DEF Machine, Contents
  <2>5. at = loc \/ at \in DOMAIN content[Top.obj]
    BY <1>10
  <2> QED BY <2>3, <2>4, <2>5
<1>11. at = loc \/ (Top.obj \in grown /\ Kind[Top.obj] # "list")
  BY <1>10 DEF Rekeyed
<1>9. Raised \/ (SameLoops(f, stack', k) /\ UNCHANGED <<status, seen>>)
  <2>1. CASE Push(f, g, seen)
    BY <1>5, <1>6, <1>7, <1>8, <2>1, PushKeeps
  <2>2. CASE stack' = f /\ UNCHANGED <<seen, status>>
    BY <1>6, <2>2 DEF SameLoops
  <2> QED BY <1>4, <2>1, <2>2
<1>12. looked' = looked \cup {<<Top.obj, at>>}
  BY <1>10
<1> QED BY <1>1, <1>2, <1>3, <1>6, <1>8, <1>9, <1>11, <1>12

LEMMA SameMachine ==
    ASSUME Machine, UNCHANGED <<root, content, entered, grown, status, seen>>, status = "running",
           NEW f, NEW k, k > 0, Nest(f, k), SameLoops(f, stack', k),
           \A i \in 1 .. k : LoopRight(f[i], content, grown)
    PROVE  Machine'
<1>1. Nest(stack', k) /\ Len(stack') \in Nat /\ k \in Nat /\ k <= Len(stack')
  BY LoopsBelow DEF SameLoops
<1>2. stack' # <<>>
  BY <1>1, NoCalls
<1>3. ASSUME NEW i \in 1 .. Len(stack'), stack'[i].what = "iter"
      PROVE  LoopRight(stack'[i], content', grown')
  <2>1. i \in 1 .. k
    BY <1>1, <1>3, LoopsBelow
  <2> QED BY <2>1 DEF SameLoops
<1>4. Contents(content') /\ entered' \subseteq Objects /\ SeenRight(seen', entered')
      /\ root' \in Objects
  BY DEF Machine, SeenRight
<1>5. \A i \in 1 .. Len(stack') : stack'[i].what = "iter" => LoopRight(stack'[i], content', grown')
  BY <1>3
<1>6. \E j : Nest(stack', j)
  BY <1>1
<1>7. status' = "running"
  OBVIOUS
<1> QED BY <1>2, <1>4, <1>5, <1>6, <1>7 DEF Machine

LEMMA NextLocKeeps ==
    ASSUME CompleteInv, NextLoc
    PROVE  /\ Machine' /\ Coverage'
           /\ \A o : o \notin grown /\ Gone(stack, content, o) =>
                Raised \/ Gone(stack', content', o)
<1>1. PICK k : Nest(stack, k)
  BY DEF CompleteInv, Machine
<1>2. Machine
  BY DEF CompleteInv
<1>3. PICK loc, at, f :
        /\ loc \in Top.left
        /\ stack # <<>> /\ status = "running" /\ Top.what = "iter" /\ Top.at = None
        /\ UNCHANGED <<config, root, content, entered, alike, grown, broke>>
        /\ looked' = looked \cup {<<Top.obj, at>>}
        /\ Ordered(Top.obj) => \A l \in Top.left : loc <= l
        /\ at # None
        /\ at = loc \/ (Top.obj \in grown /\ Kind[Top.obj] # "list")
        /\ Nest(f, k) /\ Len(f) = k /\ \A i \in 1 .. (k - 1) : f[i] = stack[i]
        /\ f[k].what = "iter" /\ f[k].obj = Top.obj
        /\ f[k].left = Top.left \ {loc} /\ f[k].at = at
        /\ Raised \/ (SameLoops(f, stack', k) /\ UNCHANGED <<status, seen>>)
  BY <1>1, <1>2, NextLocSteps
<1>4. k \in Nat /\ k = Len(stack) /\ k > 0 /\ Top = stack[k] /\ k \in 1 .. Len(stack)
  BY <1>1, <1>3, TopLoop
<1>5. stack[k].what = "iter" /\ LoopRight(stack[k], content, grown)
  BY <1>2, <1>3, <1>4 DEF Machine
<1>6. LoopRight(f[k], content, grown)
  <2>1. None \notin f[k].left /\ f[k].at # None
    BY <1>3, <1>4, <1>5 DEF LoopRight
  <2>2. CASE Kind[f[k].obj] = "list"
    <3>0. at = loc
      BY <1>3, <2>2
    <3>1. Top.left \subseteq Nat /\ \A l \in Top.left : loc <= l
      BY <1>3, <1>4, <1>5, <2>2 DEF LoopRight, Ordered
    <3>2. f[k].left \subseteq Nat /\ f[k].at \in Nat
          /\ f[k].left \cup {f[k].at} = Top.left
      BY <1>3, <3>0, <3>1
    <3>3. ASSUME Top.obj \notin grown
          PROVE  /\ Reaches(f[k].left \cup {f[k].at}, content[f[k].obj])
                 /\ Reaches(f[k].left, content[f[k].obj])
      <4>1. Reaches(Top.left, content[Top.obj])
        BY <1>3, <1>4, <1>5, <2>2, <3>3 DEF LoopRight
      <4>2. Len(content[Top.obj]) \in Nat
        <5>1. Top.obj \in Objects
          BY <1>1, <1>3, TopLoop
        <5> QED BY <1>2, <1>3, <2>2, <5>1, ListDomain DEF Machine, Contents
      <4>3. Reaches(f[k].left \cup {f[k].at}, content[f[k].obj])
        BY <1>3, <3>2, <4>1
      <4>4. Reaches(f[k].left, content[f[k].obj])
        BY <1>3, <3>0, <3>1, <4>1, <4>2 DEF Reaches
      <4> QED BY <4>3, <4>4
    <3> QED BY <1>3, <2>1, <3>2, <3>3 DEF LoopRight
  <2> QED BY <2>1, <2>2 DEF LoopRight
<1>7. CASE Raised
  BY <1>2, <1>3, <1>7, AllRaised DEF Machine
<1>8. CASE SameLoops(f, stack', k) /\ UNCHANGED <<status, seen>>
  <2>1. \A i \in 1 .. k : LoopRight(f[i], content, grown)
    BY <1>1, <1>2, <1>3, <1>4, <1>6, LoopsStayRight
  <2>2. Machine'
    BY <1>2, <1>3, <1>4, <1>8, <2>1, SameMachine
  <2>3. \A i \in 1 .. Len(stack) : i \in 1 .. Len(f) /\ (f[i] = stack[i] \/ i = k)
    BY <1>3, <1>4
  <2>4. ASSUME NEW o, Gone(stack, content, o), o \notin grown
        PROVE  Gone(stack', content', o)
    <3>1. PICK i \in 1 .. Len(stack) :
            /\ stack[i].what = "iter" /\ stack[i].obj = o
            /\ \E l \in stack[i].left \cup {stack[i].at} : l # None /\ l \notin DOMAIN content[o]
      BY <2>4 DEF Gone
    <3>2. i = k => stack[i].left \cup {stack[i].at} \subseteq f[i].left \cup {f[i].at, None}
      BY <1>3, <1>4, <2>4, <3>1
    <3>3. f[i].what = "iter" /\ f[i].obj = stack[i].obj
      BY <1>3, <1>4, <2>3, <3>1
    <3>4. \E l \in f[i].left \cup {f[i].at} : l # None /\ l \notin DOMAIN content[o]
      BY <2>3, <3>1, <3>2, <3>3
    <3>5. i \in 1 .. Len(f)
      BY <2>3
    <3>6. SameLoops(f, stack', k) /\ Nest(f, k) /\ content' = content
      BY <1>3, <1>8
    <3>7. i \in 1 .. Len(stack') /\ stack'[i] = f[i]
      BY <3>3, <3>1, <3>5, <3>6, LoopsAlike
    <3> QED BY <3>1, <3>3, <3>4, <3>6, <3>7 DEF Gone
  <2>5. SUFFICES ASSUME ~broke, ~config.ignores, NEW o \in Objects \ grown
        PROVE  Gone(stack', content', o) \/ Covered(o)'
    BY <1>3, <2>2, <2>4 DEF Coverage
  <2>6. CASE Covered(o)
    <3>1. ASSUME NEW l, Awaits(stack, o, l)
          PROVE  /\ <<o, l>> \in looked' \/ Awaits(f, o, l)
                 /\ Awaits(f, o, l) \/ IsAt(f, o, l)
      <4>1. PICK i \in 1 .. Len(stack) :
              stack[i].what = "iter" /\ stack[i].obj = o /\ l \in stack[i].left
        BY <3>1 DEF Awaits
      <4>5. i = k => at = loc
        BY <1>3, <1>4, <2>5, <4>1
      <4>2. CASE i = k /\ l = loc
        BY <1>3, <1>4, <2>3, <4>1, <4>2, <4>5 DEF IsAt
      <4>3. CASE i = k /\ l # loc
        BY <1>3, <1>4, <2>3, <4>1, <4>3 DEF Awaits
      <4>4. CASE f[i] = stack[i]
        BY <2>3, <4>1, <4>4 DEF Awaits
      <4> QED BY <2>3, <4>2, <4>3, <4>4
    <3>2. ASSUME NEW l, l # None, IsAt(stack, o, l)
          PROVE  IsAt(f, o, l)
      <4>1. PICK i \in 1 .. Len(stack) :
              stack[i].what = "iter" /\ stack[i].obj = o /\ l = stack[i].at
        BY <3>2 DEF IsAt
      <4>2. i # k
        BY <1>3, <1>4, <3>2, <4>1
      <4> QED BY <2>3, <4>1, <4>2 DEF IsAt
    <3>3. ASSUME o \in entered, NEW l \in DOMAIN content[o]
          PROVE  /\ <<o, l>> \in looked' \/ Awaits(stack', o, l)
                 /\ content[o][l] \in Objects \ {Text} =>
                      \/ Visited(content[o][l])
                      \/ Awaits(stack', o, l) \/ IsAt(stack', o, l)
      <4>1. /\ <<o, l>> \in looked \/ Awaits(stack, o, l)
            /\ content[o][l] \in Objects \ {Text} =>
                 \/ Visited(content[o][l])
                 \/ Awaits(stack, o, l) \/ IsAt(stack, o, l)
        BY <2>6, <3>3 DEF Covered
      <4>2. l # None
        BY <1>2, <3>3 DEF Machine, Contents
      <4>3. /\ <<o, l>> \in looked' \/ Awaits(f, o, l)
            /\ content[o][l] \in Objects \ {Text} =>
                 \/ Visited(content[o][l])
                 \/ Awaits(f, o, l) \/ IsAt(f, o, l)
        BY <1>3, <3>1, <3>2, <4>1, <4>2
      <4>4. /\ Awaits(f, o, l) => Awaits(stack', o, l)
            /\ IsAt(f, o, l) => IsAt(stack', o, l)
        BY <1>3, <1>8, LoopsAhead
      <4> QED BY <4>3, <4>4
    <3> QED BY <1>3, <3>3 DEF Covered, Visited
  <2>7. Gone(stack, content, o) \/ Covered(o)
    BY <1>3, <2>5 DEF CompleteInv, Coverage
  <2> QED BY <2>4, <2>5, <2>6, <2>7
<1> QED BY <1>3, <1>7, <1>8

LEMMA KeysChangedKeeps ==
    ASSUME CompleteInv, KeysChanged
    PROVE  Raised /\ Machine' /\ Coverage'
<1>1. PICK k : Nest(stack, k)
  BY DEF CompleteInv, Machine
<1>2. Top.what = "iter" /\ stack # <<>> /\ Raise(stack)
  BY DEF CompleteInv, Machine, KeysChanged, Looping
<1>3. k = Len(stack)
  BY <1>1, <1>2, TopLoop
<1>4. Raised
  BY <1>1, <1>2, <1>3, LoopRaises
<1>5. UNCHANGED <<root, entered, content>>
  BY DEF KeysChanged, setup, traversed
<1> QED BY <1>4, <1>5, AllRaised DEF CompleteInv, Machine

LEMMA NotFoundKeeps ==
    ASSUME CompleteInv, NotFound
    PROVE  Machine' /\ Coverage'
<1>1. PICK k : Nest(stack, k)
  BY DEF CompleteInv, Machine
<1>2. /\ Machine /\ status = "running" /\ Top.what = "iter" /\ stack # <<>>
      /\ UNCHANGED <<config, root, content, entered, grown, broke>>
  BY DEF CompleteInv, Machine, NotFound, Looping, setup, traversed
<1>3. k \in Nat /\ k = Len(stack) /\ k > 0 /\ Top = stack[k] /\ IsLoop(Top)
  BY <1>1, <1>2, TopLoop
<1>4. CASE ~config.ignores
  <2>1. Raise(stack)
    BY <1>4 DEF NotFound, Ignored
  <2>2. Raised
    BY <1>1, <1>3, <2>1, LoopRaises
  <2> QED BY <1>2, <2>2, AllRaised DEF Machine
<1>5. CASE config.ignores
  <2> DEFINE f == WithEnd(stack, WithoutPlace(Top))
  <2>1. f = Replaced([Top EXCEPT !.at = None])
    BY DEF WithEnd, WithoutPlace, Replaced
  <2>2. stack' = f /\ UNCHANGED <<seen, status>>
    <3> HIDE DEF f
    <3> QED BY <1>5, <2>1 DEF NotFound, Ignored
  <2>3. /\ Nest(f, k) /\ Len(f) = k /\ \A i \in 1 .. (k - 1) : f[i] = stack[i]
        /\ f[k].obj = Top.obj /\ f[k].left = Top.left /\ f[k].at = None
    BY <1>1, <1>3, LocLeft
  <2> HIDE DEF f
  <2>4. k \in 1 .. Len(stack)
    BY <1>3
  <2>5. LoopRight(stack[k], content, grown)
    BY <1>2, <1>3, <2>4 DEF Machine
  <2>6. LoopRight(f[k], content, grown)
    BY <1>3, <2>3, <2>5 DEF LoopRight
  <2>7. \A i \in 1 .. k : LoopRight(f[i], content, grown)
    BY <1>1, <1>2, <1>3, <2>3, <2>6, LoopsStayRight
  <2>8. SameLoops(f, stack', k)
    BY <2>2, <2>3 DEF SameLoops
  <2>9. Machine'
    BY <1>2, <1>3, <2>2, <2>3, <2>7, <2>8, SameMachine
  <2> QED BY <1>2, <1>5, <2>9 DEF Coverage
<1> QED BY <1>4, <1>5

\* The innermost loop ends.
LEMMA LoopLeaves ==
    ASSUME Machine, NEW k, Nest(stack, k), k > 0, stack' = SubSeq(stack, 1, k - 1),
           seen' \in {seen, {}}, status' = IF k = 1 THEN "done" ELSE status,
           status = "running", UNCHANGED <<content, entered, grown, root>>
    PROVE  /\ Machine'
           /\ Nest(stack', k - 1) /\ Len(stack') = k - 1 /\ k \in Nat
           /\ \A i \in 1 .. (k - 1) : stack'[i] = stack[i] /\ stack[i].what = "iter"
<1>1. /\ Nest(stack', k - 1) /\ Len(stack') = k - 1
      /\ \A i \in 1 .. (k - 1) : stack'[i] = stack[i]
  BY LoopPopped
<1>2. k \in Nat /\ Len(stack) \in Nat /\ k <= Len(stack)
  BY LoopsBelow
<1>3. \A i \in 1 .. (k - 1) : i \in 1 .. Len(stack) /\ stack[i].what = "iter"
  BY <1>2, LoopsBelow
<1>4. \A i \in 1 .. Len(stack') : LoopRight(stack'[i], content', grown')
  BY <1>1, <1>3 DEF Machine
<1>5. stack' = <<>> <=> k = 1
  <2>1. ASSUME k = 1 PROVE stack' = <<>>
    <3>1. IsSeq(stack') /\ Len(stack') = 0
      BY <1>1, <2>1 DEF Nest
    <3>2. PICK S : stack' \in Seq(S)
      BY <3>1 DEF IsSeq
    <3> QED BY <3>1, <3>2
  <2>2. ASSUME stack' = <<>> PROVE k = 1
    BY <1>1, <1>2, <2>2, NoCalls
  <2> QED BY <2>1, <2>2
<1>6. status' = "running" <=> stack' # <<>>
  BY <1>5
<1>7. Contents(content') /\ entered' \subseteq Objects /\ SeenRight(seen', entered')
      /\ root' \in Objects
  BY DEF Machine, SeenRight
<1>8. \E j : Nest(stack', j)
  BY <1>1
<1>9. status' # "setup"
  OBVIOUS
<1>10. Machine'
  BY <1>4, <1>6, <1>7, <1>8, <1>9 DEF Machine
<1> QED BY <1>1, <1>2, <1>3, <1>10

LEMMA EndLoopKeeps ==
    ASSUME CompleteInv, EndLoop
    PROVE  /\ Machine' /\ Coverage'
           /\ \A o : Gone(stack, content, o) => Gone(stack', content', o)
<1>1. PICK k : Nest(stack, k)
  BY DEF CompleteInv, Machine
<1>2. /\ Machine /\ status = "running" /\ Top.what = "iter" /\ Top.at = None
      /\ stack # <<>> /\ Top.left = {}
      /\ UNCHANGED <<config, root, content, entered, looked, alike, grown, broke>>
  BY DEF CompleteInv, Machine, EndLoop, Looping, setup, traversed, outcomes
<1>3. k \in Nat /\ k = Len(stack) /\ k > 0 /\ Top = stack[k] /\ IsLoop(Top)
  BY <1>1, <1>2, TopLoop
<1>4. stack' = SubSeq(stack, 1, k - 1)
  BY <1>1, <1>2, <1>3, FrontOf DEF EndLoop, Leave, Nest
<1>5. seen' \in {seen, {}} /\ status' = IF k = 1 THEN "done" ELSE status
  BY <1>3 DEF EndLoop, Leave
<1>6. /\ Machine' /\ Len(stack') = k - 1
      /\ \A i \in 1 .. (k - 1) : stack'[i] = stack[i] /\ stack[i].what = "iter"
  BY <1>1, <1>2, <1>3, <1>4, <1>5, LoopLeaves
<1>7. \A i \in 1 .. Len(stack) : i = k \/ (i \in 1 .. Len(stack') /\ stack'[i] = stack[i])
  BY <1>3, <1>6
<1>8. ASSUME NEW o, Gone(stack, content, o) PROVE Gone(stack', content', o)
  <2>1. PICK i \in 1 .. Len(stack) :
          /\ stack[i].what = "iter" /\ stack[i].obj = o
          /\ \E l \in stack[i].left \cup {stack[i].at} : l # None /\ l \notin DOMAIN content[o]
    BY <1>8 DEF Gone
  <2>2. i # k
    BY <1>2, <1>3, <2>1
  <2>3. i \in 1 .. Len(stack') /\ stack'[i] = stack[i]
    BY <1>7, <2>2
  <2> QED BY <1>2, <2>1, <2>3 DEF Gone
<1>9. SUFFICES ASSUME ~broke, ~config.ignores, NEW obj \in Objects \ grown
      PROVE  Gone(stack', content', obj) \/ Covered(obj)'
  BY <1>2, <1>6, <1>8 DEF Coverage
<1>10. CASE Covered(obj)
  <2>1. ASSUME obj \in entered, NEW l \in DOMAIN content[obj]
        PROVE  /\ <<obj, l>> \in looked \/ Awaits(stack', obj, l)
               /\ content[obj][l] \in Objects \ {Text} =>
                    \/ Visited(content[obj][l])
                    \/ Awaits(stack', obj, l) \/ IsAt(stack', obj, l)
    <3>1. /\ <<obj, l>> \in looked \/ Awaits(stack, obj, l)
          /\ content[obj][l] \in Objects \ {Text} =>
               \/ Visited(content[obj][l])
               \/ Awaits(stack, obj, l) \/ IsAt(stack, obj, l)
      BY <1>10, <2>1 DEF Covered
    <3>2. l # None
      BY <1>2, <1>9, <2>1 DEF Machine, Contents
    <3>3. Awaits(stack, obj, l) => Awaits(stack', obj, l)
      BY <1>2, <1>3, <1>7 DEF Awaits
    <3>4. IsAt(stack, obj, l) => IsAt(stack', obj, l)
      BY <1>2, <1>3, <1>7, <3>2 DEF IsAt
    <3> QED BY <3>1, <3>3, <3>4
  <2> QED BY <1>2, <2>1 DEF Covered, Visited
<1>11. Gone(stack, content, obj) \/ Covered(obj)
  BY <1>2, <1>9 DEF CompleteInv, Coverage
<1> QED BY <1>8, <1>10, <1>11

LEMMA BreaksKeeps ==
    ASSUME CompleteInv, Breaks
    PROVE  Machine' /\ Coverage'
<1>1. PICK k : Nest(stack, k)
  BY DEF CompleteInv, Machine
<1>2. /\ Machine /\ status = "running" /\ Top.what = "loc" /\ stack # <<>>
      /\ UNCHANGED <<root, content, entered, grown>> /\ broke' = TRUE
  BY DEF CompleteInv, Machine, Breaks, Called, Calling, setup
<1>3. /\ k \in Nat /\ k > 0 /\ k < Len(stack) /\ Len(stack) \in Nat
  BY <1>1, <1>2, TopCall
<1> DEFINE loops == {i \in DOMAIN stack : stack[i].what = "iter"}
<1>4. PICK i \in loops : (\A j \in loops : j <= i) /\ Leave(SubSeq(stack, 1, i))
  BY DEF Breaks
<1>5. DOMAIN stack = 1 .. Len(stack)
  BY <1>1, ListDomain DEF Nest
<1>6. loops = 1 .. k
  BY <1>1, <1>3, <1>5, LoopsBelow
<1>7. i = k
  BY <1>3, <1>4, <1>6
<1>8. Leave(SubSeq(stack, 1, k))
  BY <1>4, <1>7
<1> DEFINE f == SubSeq(stack, 1, k)
<1>9. IsSeq(f) /\ Len(f) = k /\ \A j \in 1 .. k : f[j] = stack[j]
  BY <1>1, <1>3, CutTo DEF Nest
<1> HIDE DEF f
<1>10. f # <<>>
  BY <1>3, <1>9, NoCalls
<1>11. stack' = SubSeq(f, 1, k - 1)
  BY <1>8, <1>9, <1>10, FrontOf DEF Leave, f
<1>12. SubSeq(f, 1, k - 1) = SubSeq(stack, 1, k - 1)
  <2>1. PICK S : stack \in Seq(S)
    BY <1>1 DEF Nest, IsSeq
  <2>2. f \in Seq(S)
    BY <1>3, <2>1 DEF f
  <2> QED BY <1>3, <1>9, <2>1, <2>2
<1>13. seen' \in {seen, {}} /\ status' = IF k = 1 THEN "done" ELSE status
  BY <1>8, <1>9 DEF Leave, f
<1>14. Machine'
  BY <1>1, <1>2, <1>3, <1>11, <1>12, <1>13, LoopLeaves
<1> QED BY <1>2, <1>14 DEF Coverage

\* What is known of the models that a model is passed over for.
PassedOver(item) ==
    IF TypeOf(item) = "model" THEN alike \cup {<<item, m>> : m \in Known(item)} ELSE alike

\* A container is entered from the location that the innermost loop is at.
LEMMA Descends ==
    ASSUME Machine, NEW k, Nest(stack, k), Descend
    PROVE  \E f :
            /\ stack # <<>> /\ status = "running" /\ Top.what = "iter" /\ Top.at # None
            /\ Top.obj \in Objects /\ Top.at \in DOMAIN content[Top.obj]
            /\ UNCHANGED <<config, root, content, looked, grown, digest, broke>>
            /\ Nest(f, k) /\ Len(f) = k /\ \A i \in 1 .. (k - 1) : f[i] = stack[i]
            /\ f[k].what = "iter" /\ f[k].obj = Top.obj
            /\ f[k].left = Top.left /\ f[k].at = None
            /\ LET item == content[Top.obj][Top.at]
               IN  IF IsProcessable(Top.obj, item)
                   THEN /\ entered' = entered \cup {item} /\ UNCHANGED alike
                        /\ \/ Raised
                           \/ /\ seen' = Models(item) /\ UNCHANGED status
                              /\ \E b : stack' = Append(f, LoopOver(item, b))
                   ELSE /\ stack' = f /\ UNCHANGED <<seen, status, entered>>
                        /\ alike' = PassedOver(item)
<1>1. /\ stack # <<>> /\ status = "running" /\ Top.what = "iter" /\ Top.at # None
      /\ Top.at \in DOMAIN content[Top.obj]
      /\ UNCHANGED <<config, root, content, looked, grown, digest, broke>>
  BY DEF Descend, Looping, Machine, setup, hashes, Found
<1>2. k \in Nat /\ k = Len(stack) /\ k > 0 /\ Top = stack[k] /\ IsLoop(Top)
      /\ Top.obj \in Objects
  BY <1>1, TopLoop
<1> DEFINE f == WithEnd(stack, WithoutPlace(Top))
           item == content[Top.obj][Top.at]
<1>3. f = Replaced([Top EXCEPT !.at = None])
  BY DEF WithEnd, WithoutPlace, Replaced
<1>4. /\ Nest(f, k) /\ Len(f) = k /\ \A i \in 1 .. (k - 1) : f[i] = stack[i]
      /\ f[k].what = "iter" /\ f[k].obj = Top.obj
      /\ f[k].left = Top.left /\ f[k].at = None
  BY <1>2, LocLeft
<1> HIDE DEF f
<1>5. IF IsProcessable(Top.obj, item)
      THEN /\ Push(f, LoopOver(item, Kind[item] = "model" /\ seen = {}), Models(item))
           /\ entered' = entered \cup {item} /\ UNCHANGED alike
      ELSE /\ stack' = f /\ UNCHANGED <<seen, status, entered>>
           /\ alike' = PassedOver(item)
  BY <1>3 DEF Descend, LoopOver, PassedOver
<1>6. ASSUME NEW g, Push(f, g, Models(item))
      PROVE  Raised \/ (seen' = Models(item) /\ UNCHANGED status /\ stack' = Append(f, g))
  <2>1. CASE Len(f) < MaxDepth
    BY <1>6, <2>1 DEF Push
  <2>2. CASE ~(Len(f) < MaxDepth)
    <3>1. Raise(f)
      BY <1>6, <2>2 DEF Push
    <3> QED BY <1>4, <3>1, LoopRaises
  <2> QED BY <2>1, <2>2
<1>7. CASE IsProcessable(Top.obj, item)
  <2>1. PICK b : Push(f, LoopOver(item, b), Models(item))
    BY <1>5, <1>7
  <2>2. Raised \/ (seen' = Models(item) /\ UNCHANGED status
                   /\ stack' = Append(f, LoopOver(item, b)))
    BY <1>6, <2>1
  <2> HIDE DEF item
  <2> QED BY <1>1, <1>2, <1>4, <1>5, <1>7, <2>2 DEF item
<1>8. CASE ~IsProcessable(Top.obj, item)
  BY <1>1, <1>2, <1>4, <1>5, <1>8
<1> QED BY <1>7, <1>8

LEMMA NewLoopRight ==
    ASSUME Machine, NEW o \in Objects, NEW b, NEW g, g = LoopOver(o, b)
    PROVE  LoopRight(g, content, grown)
<1>1. g.obj = o /\ g.left = DOMAIN content[o] /\ g.at = None
  BY NewLoop
<1>2. None \notin g.left
  BY <1>1 DEF Machine, Contents
<1>3. CASE Kind[o] = "list"
  <2>1. Len(content[o]) \in Nat /\ DOMAIN content[o] = 1 .. Len(content[o])
    BY <1>3, ListDomain DEF Machine, Contents
  <2>2. g.left # {} => Len(content[o]) \in g.left /\ Len(content[o]) >= Len(content[o])
    BY <1>1, <2>1
  <2>3. Reaches(g.left, content[o])
    BY <2>2 DEF Reaches
  <2>4. g.left \subseteq Nat
    BY <1>1, <2>1
  <2> QED BY <1>1, <1>2, <2>3, <2>4 DEF LoopRight
<1>4. CASE Kind[o] # "list"
  BY <1>1, <1>2, <1>4 DEF LoopRight
<1> QED BY <1>3, <1>4

LEMMA DescendKeeps ==
    ASSUME CompleteInv, Descend
    PROVE  /\ Machine' /\ Coverage'
           /\ \A o : Gone(stack, content, o) => Raised \/ Gone(stack', content', o)
<1>1. PICK k : Nest(stack, k)
  BY DEF CompleteInv, Machine
<1> DEFINE item == content[Top.obj][Top.at]
<1>2. PICK f :
        /\ stack # <<>> /\ status = "running" /\ Top.what = "iter" /\ Top.at # None
        /\ Top.obj \in Objects /\ Top.at \in DOMAIN content[Top.obj]
        /\ UNCHANGED <<config, root, content, looked, grown, digest, broke>>
        /\ Nest(f, k) /\ Len(f) = k /\ \A i \in 1 .. (k - 1) : f[i] = stack[i]
        /\ f[k].what = "iter" /\ f[k].obj = Top.obj
        /\ f[k].left = Top.left /\ f[k].at = None
        /\ IF IsProcessable(Top.obj, item)
           THEN /\ entered' = entered \cup {item} /\ UNCHANGED alike
                /\ \/ Raised
                   \/ /\ seen' = Models(item) /\ UNCHANGED status
                      /\ \E b : stack' = Append(f, LoopOver(item, b))
           ELSE /\ stack' = f /\ UNCHANGED <<seen, status, entered>>
                /\ alike' = PassedOver(item)
  BY <1>1, Descends DEF CompleteInv
<1> HIDE DEF item
<1>3. Machine
  BY DEF CompleteInv
<1>4. k \in Nat /\ k = Len(stack) /\ k > 0 /\ Top = stack[k] /\ k \in 1 .. Len(stack)
  BY <1>1, <1>2, TopLoop
<1>5. stack[k].what = "iter" /\ LoopRight(stack[k], content, grown)
  BY <1>2, <1>3, <1>4 DEF Machine
<1>6. LoopRight(f[k], content, grown)
  BY <1>2, <1>4, <1>5 DEF LoopRight
<1>7. \A i \in 1 .. k : LoopRight(f[i], content, grown)
  BY <1>1, <1>2, <1>3, <1>4, <1>6, LoopsStayRight
<1>8. \A i \in 1 .. Len(stack) : i \in 1 .. k /\ (f[i] = stack[i] \/ i = k)
  BY <1>2, <1>4
<1>9. IsProcessable(Top.obj, item) => item \in Objects
  BY DEF IsProcessable
<1>10. CASE Raised
  <2>1. entered' \subseteq Objects
    BY <1>2, <1>3, <1>9 DEF Machine
  <2> QED BY <1>2, <1>3, <1>10, <2>1, AllRaised DEF Machine
<1>11. CASE ~Raised
  <2>1. /\ status' = "running" /\ entered \subseteq entered' /\ entered' \subseteq Objects
        /\ entered' \subseteq entered \cup {item} /\ alike \subseteq alike'
    BY <1>2, <1>3, <1>9, <1>11 DEF Machine, PassedOver
  <2>12. SeenRight(seen', entered')
    <3>1. SeenRight(seen, entered)
      BY <1>3 DEF Machine
    <3>2. CASE IsProcessable(Top.obj, item)
      <4>1. seen' = Models(item) /\ entered' = entered \cup {item}
        BY <1>2, <1>11, <3>2
      <4>2. ASSUME NEW m, NEW h, <<m, h>> \in Models(item)
            PROVE  m \in entered \cup {item}
        <5>1. <<m, h>> \in seen \/ <<m, h>> = <<item, digest[item].hash>>
          BY <4>2 DEF Models
        <5>2. <<m, h>> = <<item, digest[item].hash>> => m = item
          OBVIOUS
        <5> QED BY <3>1, <5>1, <5>2 DEF SeenRight
      <4> QED BY <4>1, <4>2 DEF SeenRight
    <3>3. CASE ~IsProcessable(Top.obj, item)
      BY <1>2, <3>1, <3>3
    <3> QED BY <3>2, <3>3
  <2>2. \E j : /\ Nest(stack', j) /\ j >= k /\ j = Len(stack')
               /\ \A i \in 1 .. k : stack'[i] = f[i]
               /\ \A i \in 1 .. j : LoopRight(stack'[i], content, grown)
               /\ IsProcessable(Top.obj, item) =>
                    /\ stack'[j].what = "iter" /\ stack'[j].obj = item
                    /\ stack'[j].left = DOMAIN content[item]
    <3>1. CASE IsProcessable(Top.obj, item)
      <4>1. PICK b : stack' = Append(f, LoopOver(item, b))
        BY <1>2, <1>11, <3>1
      <4> DEFINE g == LoopOver(item, b)
      <4>2. IsLoop(g) /\ g.obj = item /\ g.left = DOMAIN content[item]
        BY NewLoop
      <4>3. LoopRight(g, content, grown)
        BY <1>3, <1>9, <3>1, NewLoopRight
      <4>4. stack' = Append(f, g)
        BY <4>1
      <4> HIDE DEF g
      <4>5. /\ Nest(stack', k + 1) /\ stack'[k + 1] = g /\ Len(stack') = k + 1
            /\ \A i \in 1 .. k : stack'[i] = f[i]
        BY <1>2, <1>9, <3>1, <4>2, <4>4, LoopPushed
      <4>6. \A i \in 1 .. (k + 1) : LoopRight(stack'[i], content, grown)
        <5>1. \A i \in 1 .. (k + 1) : i \in 1 .. k \/ i = k + 1
          BY <1>4
        <5> QED BY <1>7, <4>3, <4>5, <5>1
      <4> QED BY <1>4, <4>2, <4>5, <4>6, FrameKinds
    <3>2. CASE ~IsProcessable(Top.obj, item)
      <4>1. stack' = f
        BY <1>2, <3>2
      <4>2. Nest(stack', k) /\ k = Len(stack')
        BY <1>2, <4>1
      <4>3. \A i \in 1 .. k : stack'[i] = f[i] /\ LoopRight(stack'[i], content, grown)
        BY <1>7, <4>1
      <4> QED BY <1>4, <3>2, <4>2, <4>3
    <3> QED BY <3>1, <3>2
  <2>3. PICK j :
          /\ Nest(stack', j) /\ j >= k /\ j = Len(stack')
          /\ \A i \in 1 .. k : stack'[i] = f[i]
          /\ \A i \in 1 .. j : LoopRight(stack'[i], content, grown)
          /\ IsProcessable(Top.obj, item) =>
               /\ stack'[j].what = "iter" /\ stack'[j].obj = item
               /\ stack'[j].left = DOMAIN content[item]
    BY <2>2
  <2>4. j \in Nat /\ j > 0
    BY <1>4, <2>3, LoopsBelow
  <2>5. stack' # <<>>
    BY <2>3, <2>4, NoCalls
  <2>6. Machine'
    <3>1. \A i \in 1 .. Len(stack') : LoopRight(stack'[i], content', grown')
      BY <1>2, <2>3
    <3>2. Contents(content') /\ root' \in Objects
      BY <1>2, <1>3 DEF Machine
    <3>3. \E n : Nest(stack', n)
      BY <2>3
    <3> QED BY <2>1, <2>5, <2>12, <3>1, <3>2, <3>3 DEF Machine
  <2>7. \A i \in 1 .. k : i \in 1 .. Len(stack')
    BY <1>4, <2>3, <2>4
  <2>8. ASSUME NEW o, Gone(stack, content, o) PROVE Gone(stack', content', o)
    <3>1. PICK i \in 1 .. Len(stack) :
            /\ stack[i].what = "iter" /\ stack[i].obj = o
            /\ \E l \in stack[i].left \cup {stack[i].at} : l # None /\ l \notin DOMAIN content[o]
      BY <2>8 DEF Gone
    <3>2. PICK l \in stack[i].left \cup {stack[i].at} : l # None /\ l \notin DOMAIN content[o]
      BY <3>1
    <3>3. i \in 1 .. Len(stack') /\ stack'[i] = f[i]
      BY <1>8, <2>3, <2>7
    <3>4. CASE i = k
      <4>1. l \in f[k].left /\ f[k].obj = stack[k].obj
        BY <1>2, <1>4, <3>1, <3>2, <3>4
      <4> QED BY <1>2, <1>4, <3>1, <3>2, <3>3, <3>4, <4>1 DEF Gone
    <3>5. CASE i # k
      BY <1>2, <1>8, <3>1, <3>2, <3>3, <3>5 DEF Gone
    <3> QED BY <3>4, <3>5
  <2>9. SUFFICES ASSUME ~broke, ~config.ignores, NEW obj \in Objects \ grown
        PROVE  Gone(stack', content', obj) \/ Covered(obj)'
    BY <1>2, <2>6, <2>8 DEF Coverage
  <2>10. CASE Covered(obj)
    <3>1. ASSUME NEW l, Awaits(stack, obj, l)
          PROVE  Awaits(stack', obj, l)
      <4>1. PICK i \in 1 .. Len(stack) :
              stack[i].what = "iter" /\ stack[i].obj = obj /\ l \in stack[i].left
        BY <3>1 DEF Awaits
      <4>2. i \in 1 .. Len(stack') /\ stack'[i] = f[i]
        BY <1>8, <2>3, <2>7
      <4>3. f[i].what = "iter" /\ f[i].obj = obj /\ l \in f[i].left
        BY <1>2, <1>4, <1>8, <4>1
      <4> QED BY <4>2, <4>3 DEF Awaits
    <3>2. ASSUME NEW l, IsAt(stack, obj, l)
          PROVE  IsAt(stack', obj, l) \/ (obj = Top.obj /\ l = Top.at)
      <4>1. PICK i \in 1 .. Len(stack) :
              stack[i].what = "iter" /\ stack[i].obj = obj /\ l = stack[i].at
        BY <3>2 DEF IsAt
      <4>2. i \in 1 .. Len(stack') /\ stack'[i] = f[i]
        BY <1>8, <2>3, <2>7
      <4>3. CASE i = k
        BY <1>4, <4>1, <4>3
      <4>4. CASE i # k
        BY <1>8, <4>1, <4>2, <4>4 DEF IsAt
      <4> QED BY <4>3, <4>4
    <3>3. item \in Objects \ {Text} =>
            item \in entered' \/ \E m \in entered' : <<item, m>> \in alike'
      <4>1. CASE IsProcessable(Top.obj, item)
        BY <1>2, <4>1
      <4>2. CASE ~IsProcessable(Top.obj, item) /\ item \in Objects \ {Text}
        <5>1. Kind[item] = "model" /\ Known(item) # {}
          BY <4>2 DEF IsProcessable
        <5>2. PICK m : m \in Known(item)
          BY <5>1
        <5>3. m \in entered
          BY <1>3, <5>2 DEF Known, Machine, SeenRight
        <5>4. <<item, m>> \in alike'
          BY <1>2, <4>2, <5>1, <5>2 DEF PassedOver, TypeOf
        <5> QED BY <2>1, <5>3, <5>4
      <4> QED BY <4>1, <4>2
    <3>4. ASSUME obj \in entered', NEW l \in DOMAIN content[obj]
          PROVE  /\ <<obj, l>> \in looked \/ Awaits(stack', obj, l)
                 /\ content[obj][l] \in Objects \ {Text} =>
                      \/ Visited(content[obj][l])'
                      \/ Awaits(stack', obj, l) \/ IsAt(stack', obj, l)
      <4>1. CASE obj \in entered
        <5>1. /\ <<obj, l>> \in looked \/ Awaits(stack, obj, l)
              /\ content[obj][l] \in Objects \ {Text} =>
                   \/ Visited(content[obj][l])
                   \/ Awaits(stack, obj, l) \/ IsAt(stack, obj, l)
          BY <2>10, <3>4, <4>1 DEF Covered
        <5>2. obj = Top.obj /\ l = Top.at => content[obj][l] = item
          BY DEF item
        <5>3. Visited(content[obj][l]) => Visited(content[obj][l])'
          BY <1>2, <2>1 DEF Visited
        <5>4. ASSUME obj = Top.obj, l = Top.at, content[obj][l] \in Objects \ {Text}
              PROVE  Visited(content[obj][l])'
          <6>1. PICK v : v = content[obj][l]
            OBVIOUS
          <6>2. v \in entered' \/ \E m \in entered' : <<v, m>> \in alike'
            BY <3>3, <5>2, <5>4, <6>1
          <6>3. v = content'[obj][l]
            BY <1>2, <6>1
          <6> QED BY <6>2, <6>3 DEF Visited
        <5> QED BY <3>1, <3>2, <5>1, <5>3, <5>4
      <4>2. CASE obj \notin entered
        <5>1. obj = item /\ IsProcessable(Top.obj, item)
          BY <1>2, <2>1, <3>4, <4>2
        <5>2. Awaits(stack', obj, l)
          <6>1. j \in 1 .. Len(stack')
            BY <2>3, <2>4
          <6> QED BY <2>3, <3>4, <5>1, <6>1 DEF Awaits
        <5> QED BY <5>2
      <4> QED BY <4>1, <4>2
    <3> QED BY <1>2, <3>4 DEF Covered, Visited
  <2>11. Gone(stack, content, obj) \/ Covered(obj)
    BY <1>2, <2>9 DEF CompleteInv, Coverage
  <2> QED BY <2>8, <2>9, <2>10, <2>11
<1> QED BY <1>10, <1>11

-----------------------------------------------------------------------------
(* The first steps, and all of them *)

LEMMA InitComplete == Init => CompleteInv
<1> SUFFICES ASSUME Init PROVE CompleteInv
  OBVIOUS
<1>1. PICK input \in Inputs : root = input.root /\ content = input.content
  BY DEF Init
<1>2. root \in Objects /\ DOMAIN content = Objects
  BY <1>1, InputsAssumption
<1>3. \A o \in Objects : /\ None \notin DOMAIN content[o]
                         /\ Kind[o] = "list" => content[o] \in Seq(Values)
  BY <1>1, InputsAssumption
<1>4. Contents(content)
  BY <1>2, <1>3 DEF Contents, IsSeq
<1>5. stack = <<>> /\ status = "setup" /\ entered = {} /\ looked = {}
  BY DEF Init
<1>9. SeenRight(seen, entered)
  BY DEF Init, SeenRight
<1>6. Nest(stack, 0) /\ Len(stack) = 0
  BY <1>5, NoCalls
<1>7. Machine
  BY <1>2, <1>4, <1>5, <1>6, <1>9 DEF Machine
<1>8. Coverage
  BY <1>5 DEF Coverage, Covered
<1> QED BY <1>7, <1>8 DEF CompleteInv

LEMMA StartKeeps ==
    ASSUME CompleteInv, Start
    PROVE  /\ Machine' /\ Coverage'
           /\ \A i \in 1 .. Len(stack') : stack'[i].what = "iter"
<1>1. /\ Machine /\ status' = "running" /\ entered' = {root}
      /\ UNCHANGED <<config, root, content, looked, grown, alike, broke>>
      /\ root \in Objects
  BY DEF Start, CompleteInv, Machine, setup, outcomes
<1>10. SeenRight(seen', entered')
  <2>1. ASSUME NEW m, NEW h, <<m, h>> \in seen' PROVE m = root
    <3>1. <<m, h>> = <<root, digest[root].hash>>
      BY <2>1 DEF Start
    <3> QED BY <3>1
  <2> QED BY <1>1, <2>1 DEF SeenRight
<1> DEFINE g == LoopOver(root, Kind[root] = "model")
<1>2. IsLoop(g) /\ g.obj = root /\ g.left = DOMAIN content[root]
  BY NewLoop
<1>3. LoopRight(g, content, grown)
  BY <1>1, NewLoopRight
<1>4. stack' = Append(<<>>, g)
  <2>1. stack' = <<LoopOver(root, Kind[root] = "model")>>
    BY DEF Start, LoopOver
  <2> HIDE DEF g
  <2> QED BY <2>1 DEF g
<1> HIDE DEF g
<1>5. Nest(stack', 1) /\ stack'[1] = g /\ Len(stack') = 1
  <2>1. Nest(<<>>, 0) /\ 0 = Len(<<>>) /\ IsLoop(g) /\ g.obj \in Objects
    BY <1>1, <1>2, NoCalls
  <2>2. PICK s, k : s = <<>> /\ k = 0
    OBVIOUS
  <2>3. Nest(s, k) /\ k = Len(s)
    BY <2>1, <2>2
  <2>4. /\ Nest(Append(s, g), k + 1) /\ Append(s, g)[k + 1] = g
        /\ Len(Append(s, g)) = k + 1
    BY <2>1, <2>3, LoopPushed
  <2>5. k + 1 = 1
    BY <2>2
  <2> QED BY <1>4, <2>2, <2>4, <2>5
<1>6. Machine'
  <2>1. stack' # <<>>
    BY <1>5, NoCalls
  <2>2. \A i \in 1 .. Len(stack') : LoopRight(stack'[i], content', grown')
    BY <1>1, <1>3, <1>5
  <2>3. Contents(content') /\ root' \in Objects
    BY <1>1 DEF Machine
  <2>4. \E n : Nest(stack', n)
    BY <1>5
  <2> QED BY <1>1, <1>10, <2>1, <2>2, <2>3, <2>4 DEF Machine
<1>7. ASSUME NEW l \in DOMAIN content[root]
      PROVE  Awaits(stack', root, l)
  BY <1>2, <1>5, FrameKinds DEF Awaits
<1>8. \A obj : Covered(obj)'
  BY <1>1, <1>7 DEF Covered
<1>9. \A i \in 1 .. Len(stack') : stack'[i].what = "iter"
  BY <1>2, <1>5, FrameKinds
<1> QED BY <1>6, <1>8, <1>9 DEF Coverage

LEMMA RegisterKeeps ==
    ASSUME CompleteInv, NEW d, Register(d)
    PROVE  Machine' /\ Coverage'
<1>1. UNCHANGED <<config, root, content, stack, seen, status, entered, looked, alike,
                  grown, broke>>
  BY DEF Register, setup, traversed, outcomes
<1>2. Machine /\ Coverage
  BY DEF CompleteInv
<1>3. Machine'
  BY <1>1, <1>2 DEF Machine, SeenRight
<1>4. Coverage'
  BY <1>1, <1>2 DEF Coverage, Covered, Visited
<1> QED BY <1>3, <1>4

LEMMA SameCompleteInv ==
    ASSUME CompleteInv, UNCHANGED vars
    PROVE  CompleteInv'
BY DEF CompleteInv, Machine, SeenRight, Coverage, Covered, Visited, vars, setup, traversed,
       outcomes

LEMMA NextComplete ==
    ASSUME CompleteInv, [Next]_vars
    PROVE  CompleteInv'
<1>1. CASE UNCHANGED vars
  BY <1>1, SameCompleteInv
<1>2. ASSUME NEW d \in Definitions, Register(d) PROVE CompleteInv'
  BY <1>2, RegisterKeeps DEF CompleteInv
<1>3. CASE Start
  BY <1>3, StartKeeps DEF CompleteInv
<1>4. CASE NextLoc
  BY <1>4, NextLocKeeps DEF CompleteInv
<1>5. CASE KeysChanged
  BY <1>5, KeysChangedKeeps DEF CompleteInv
<1>6. CASE EndLoop
  BY <1>6, EndLoopKeeps DEF CompleteInv
<1>7. CASE Descend
  BY <1>7, DescendKeeps DEF CompleteInv
<1>8. CASE NotFound
  BY <1>8, NotFoundKeeps DEF CompleteInv
<1>9. CASE CallStep
  BY <1>9, CallsKeepMachine, CallsKeepCoverage DEF CompleteInv
<1>10. CASE Breaks
  BY <1>10, BreaksKeeps DEF CompleteInv
<1> QED BY <1>1, <1>2, <1>3, <1>4, <1>5, <1>6, <1>7, <1>8, <1>9, <1>10
        DEF Next, CallStep

LEMMA CompleteFollows ==
    ASSUME CompleteInv
    PROVE  Complete
<1> SUFFICES ASSUME status = "done", ~broke, ~config.ignores,
                    NEW obj \in entered \ grown, NEW loc \in DOMAIN content[obj]
             PROVE  /\ <<obj, loc>> \in looked
                    /\ content[obj][loc] \in Objects \ {Text} =>
                        Visited(content[obj][loc])
  BY DEF Complete, Visited
<1>1. stack = <<>> /\ Len(stack) = 0
  BY NoCalls DEF CompleteInv, Machine
<1>2. /\ \A o : ~Gone(stack, content, o)
      /\ \A o, l : ~Awaits(stack, o, l) /\ ~IsAt(stack, o, l)
  BY <1>1 DEF Gone, Awaits, IsAt
<1>3. Covered(obj)
  BY <1>2 DEF CompleteInv, Machine, Coverage
<1> QED BY <1>2, <1>3 DEF Covered

\* Whatever the callbacks set, insert, remove and do to hashes and equality, a traversal that
\* returns without a break and without ignoring the locations that went missing has been to
\* every location of every container it can reach at the end, but for those that were
\* inserted into, and passes a model over only for one that was equal to it and has been
\* entered: process_model and _process_loc skip nothing else.
THEOREM ReturnsComplete == Spec => []Complete
<1>1. Init => CompleteInv
  BY InitComplete
<1>2. CompleteInv /\ [Next]_vars => CompleteInv'
  BY NextComplete
<1>3. CompleteInv => Complete
  BY CompleteFollows
<1> QED BY <1>1, <1>2, <1>3, PTL DEF Spec

-----------------------------------------------------------------------------
(* The callbacks of the last type *)

For(m, sub, type) ==
    {i \in DOMAIN m : IF sub THEN m[i].type \in Supers[type] ELSE m[i].type = type}

\* Every callback for a type has been called at a location, or is still listed.
CalledOr(m, sub, calls, obj, loc, type, list) ==
    \A i \in For(m, sub, type) :
        m[i].filtered \/ <<obj, loc, m[i]>> \in calls \/ i \in list

Listed(m, sub, calls, s) ==
    \A i \in 1 .. Len(s) : s[i].what = "loc" =>
        CalledOr(m, sub, calls, s[i].obj, s[i].loc, s[i].orig, s[i].callbacks)

\* The value of a location is being processed as one of a type.
Converting(s, obj, loc, type) ==
    \E i \in 1 .. Len(s) :
        s[i].what = "loc" /\ s[i].obj = obj /\ s[i].loc = loc /\ s[i].orig = type

ProcessedAt(m, sub, calls, s, c, obj, loc) ==
    loc \in DOMAIN c[obj] =>
        \/ CalledOr(m, sub, calls, obj, loc, TypeOf(c[obj][loc]), {})
        \/ Converting(s, obj, loc, TypeOf(c[obj][loc]))

ProcessedIn(obj) ==
    \A at \in looked : at[1] = obj =>
        ProcessedAt(mapping, config.subclasses, called, stack, content, obj, at[2])

Strict ==
    config.typeChanges /\ ~broke /\ ~failed /\ ~config.ignores /\ status # "raised"

Conversions ==
    /\ \A at \in looked : at[1] \in Objects
    /\ Strict => /\ Listed(mapping, config.subclasses, called, stack)
                 /\ \A o \in Objects \ grown : Gone(stack, content, o) \/ ProcessedIn(o)

TypesInv == CompleteInv /\ Conversions

\* Calls are only added.
LEMMA MoreCalls ==
    ASSUME NEW m, NEW sub, NEW calls, NEW more, calls \subseteq more,
           NEW obj, NEW loc, NEW type, NEW list
    PROVE  CalledOr(m, sub, calls, obj, loc, type, list)
               => CalledOr(m, sub, more, obj, loc, type, list)
BY DEF CalledOr

\* The call on top has made one more of its callbacks, and that one is accounted for.
LEMMA CallMade ==
    ASSUME Machine, Listed(mapping, config.subclasses, called, stack),
           Top.what = "loc", stack # <<>>,
           NEW calls, called \subseteq calls,
           Callee.filtered \/ <<Top.obj, Top.loc, Callee>> \in calls,
           NEW b, NEW t, t = AfterCall(b)
    PROVE  /\ IsSeq(t) /\ Listed(mapping, config.subclasses, calls, t)
           /\ \A obj, loc, type :
                Converting(stack, obj, loc, type) => Converting(t, obj, loc, type)
           /\ Converting(t, Top.obj, Top.loc, Top.orig)
<1>1. PICK k : Nest(stack, k)
  BY DEF Machine
<1>2. PICK n : n = Len(stack)
  OBVIOUS
<1>3. n \in Nat /\ n > 0
  BY <1>1, <1>2, TopCall
<1>4. /\ SameLoops(stack, t, k) /\ Len(t) = n
      /\ \A i \in 1 .. n : i # n => t[i] = stack[i]
      /\ IsCall(t[n]) /\ t[n].obj = Top.obj /\ t[n].loc = Top.loc
      /\ t[n].orig = Top.orig /\ t[n].callbacks = Top.callbacks \ {NextCall}
  BY <1>1, <1>2, AfterCallKeeps
<1>5. Top = stack[n] /\ t[n].what = "loc" /\ n \in 1 .. n
  BY <1>2, <1>3, <1>4, FrameKinds DEF Top
<1>6. CalledOr(mapping, config.subclasses, called, Top.obj, Top.loc, Top.orig,
               Top.callbacks)
  BY <1>2, <1>5 DEF Listed
<1>7. CalledOr(mapping, config.subclasses, calls, Top.obj, Top.loc, Top.orig,
               Top.callbacks \ {NextCall})
  BY <1>6 DEF CalledOr, Callee
<1>8. ASSUME NEW i \in 1 .. n, t[i].what = "loc"
      PROVE  CalledOr(mapping, config.subclasses, calls, t[i].obj, t[i].loc, t[i].orig,
                      t[i].callbacks)
  <2>1. CASE i = n
    BY <1>4, <1>7, <2>1
  <2>2. CASE i # n
    <3>1. t[i] = stack[i]
      BY <1>4, <2>2
    <3>2. CalledOr(mapping, config.subclasses, called, stack[i].obj, stack[i].loc,
                   stack[i].orig, stack[i].callbacks)
      BY <1>2, <1>8, <3>1 DEF Listed
    <3> QED BY <3>1, <3>2, MoreCalls
  <2> QED BY <2>1, <2>2
<1>9. Listed(mapping, config.subclasses, calls, t)
  BY <1>4, <1>8 DEF Listed
<1>10. ASSUME NEW obj, NEW loc, NEW type, Converting(stack, obj, loc, type)
       PROVE  Converting(t, obj, loc, type)
  <2>1. PICK i \in 1 .. n :
          stack[i].what = "loc" /\ stack[i].obj = obj /\ stack[i].loc = loc
          /\ stack[i].orig = type
    BY <1>2, <1>10 DEF Converting
  <2>2. t[i].what = "loc" /\ t[i].obj = obj /\ t[i].loc = loc /\ t[i].orig = type
    BY <1>4, <1>5, <2>1
  <2> QED BY <1>4, <2>1, <2>2 DEF Converting
<1>11. Converting(t, Top.obj, Top.loc, Top.orig)
  BY <1>4, <1>5 DEF Converting
<1>12. IsSeq(t)
  BY <1>4 DEF SameLoops, Nest
<1> QED BY <1>9, <1>10, <1>11, <1>12

\* A location that is looked at with all the callbacks of its type.
LEMMA AllListed ==
    ASSUME NEW g, g.callbacks = CallbacksFor(g.orig), NEW calls
    PROVE  CalledOr(mapping, config.subclasses, calls, g.obj, g.loc, g.orig, g.callbacks)
BY DEF CalledOr, For, CallbacksFor, Matches

LEMMA CallBegun ==
    ASSUME NEW m, NEW sub, NEW calls, NEW t, IsSeq(t), Listed(m, sub, calls, t),
           NEW g, g.what = "loc",
           CalledOr(m, sub, calls, g.obj, g.loc, g.orig, g.callbacks)
    PROVE  /\ Listed(m, sub, calls, Append(t, g))
           /\ \A obj, loc, type :
                Converting(t, obj, loc, type) => Converting(Append(t, g), obj, loc, type)
           /\ Converting(Append(t, g), g.obj, g.loc, g.orig)
<1> DEFINE u == Append(t, g)
<1>1. /\ Len(t) \in Nat /\ Len(u) = Len(t) + 1 /\ u[Len(t) + 1] = g
      /\ \A i \in 1 .. Len(t) : u[i] = t[i]
  BY AppendTo, ListDomain
<1> HIDE DEF u
<1>2. \A i \in 1 .. Len(u) : i \in 1 .. Len(t) \/ i = Len(t) + 1
  BY <1>1
<1>3. \A i \in 1 .. Len(t) : i \in 1 .. Len(u)
  BY <1>1
<1>4. Len(t) + 1 \in 1 .. Len(u)
  BY <1>1
<1>5. Listed(m, sub, calls, u)
  BY <1>1, <1>2 DEF Listed
<1>6. \A obj, loc, type :
        Converting(t, obj, loc, type) => Converting(u, obj, loc, type)
  BY <1>1, <1>3 DEF Converting
<1>7. Converting(u, g.obj, g.loc, g.orig)
  BY <1>1, <1>4 DEF Converting
<1> QED BY <1>5, <1>6, <1>7 DEF u

LEMMA CallsKeepTypes ==
    ASSUME TypesInv, CallStep
    PROVE  Conversions'
<1>1. PICK k : Nest(stack, k)
  BY DEF TypesInv, CompleteInv, Machine
<1>2. /\ Machine /\ Conversions /\ status = "running" /\ Top.what = "loc" /\ stack # <<>>
      /\ UNCHANGED <<config, root, entered, broke>> /\ grown \subseteq grown'
      /\ Raised \/ (SameLoops(stack, stack', k) /\ UNCHANGED <<status, seen>>)
  BY <1>1, CallsKeepLoops DEF TypesInv, CompleteInv
<1>3. /\ Shrunk(content, content', grown')
      /\ \A o \in Objects \ grown' :
           \/ Removes /\ Gone(stack, content', o)
           \/ Kept(o) /\ (Removes => o # Top.obj)
      /\ \A at \in looked' : at \in looked \/ at[1] = Top.obj
  BY <1>1, <1>2, CallsShrink
<1>4. Top.obj \in Objects
  BY <1>1, <1>2, TopCall
<1>5. mapping' = mapping /\ called \subseteq called'
  BY DEF CallStep, Filtered, Vanished, Returns, Observes, Removes, Inserts, Fails, Misdefined,
         EndLoc, traversed, Called, Calls
<1>6. \A at \in looked' : at[1] \in Objects
  BY <1>2, <1>3, <1>4 DEF Conversions
<1> DEFINE Goal == /\ Listed(mapping, config.subclasses, called', stack')
                   /\ \A o \in Objects \ grown' : Gone(stack', content', o) \/ ProcessedIn(o)'
<1>7. SUFFICES ASSUME Strict' PROVE Goal
  BY <1>2, <1>5, <1>6 DEF Conversions
<1>8. SameLoops(stack, stack', k) /\ ~failed' /\ status' # "raised"
  BY <1>2, <1>7 DEF Strict, Raised
<1>9. failed' \in {failed, TRUE}
  BY DEF CallStep, Filtered, Vanished, Returns, Observes, Removes, Inserts, Fails, Misdefined,
         EndLoc, outcomes, Push, Raise
<1>10. Strict
  <2>1. /\ config'.typeChanges /\ ~broke' /\ ~failed' /\ ~config'.ignores
    BY <1>7 DEF Strict
  <2>2. ~failed
    BY <1>9, <2>1
  <2>3. config' = config /\ broke' = broke /\ status # "raised"
    BY <1>2
  <2> QED BY <2>1, <2>2, <2>3 DEF Strict
<1>11. /\ Listed(mapping, config.subclasses, called, stack)
       /\ \A o \in Objects \ grown' : Gone(stack, content, o) \/ ProcessedIn(o)
  BY <1>2, <1>10 DEF Conversions
<1>12. Shrunk(content', content', grown')
  BY <1>3, SameShrunk DEF Shrunk
<1>13. ASSUME NEW o \in Objects \ grown',
              Gone(stack, content, o) \/ Gone(stack, content', o)
       PROVE  Gone(stack', content', o)
  BY <1>1, <1>3, <1>8, <1>12, <1>13, GoneForGood
\* Where the calls go on converting what they did, and what was set.
<1>14. ASSUME NEW o \in Objects \ grown', ProcessedIn(o), Kept(o),
              \A p, l, type : Converting(stack, p, l, type) => Converting(stack', p, l, type),
              \/ o # Top.obj \/ content' = content
              \/ Converting(stack', Top.obj, Top.loc, TypeOf(content'[Top.obj][Top.loc]))
       PROVE  ProcessedIn(o)'
  <2>1. ASSUME NEW at \in looked', at[1] = o, at[2] \in DOMAIN content'[o]
        PROVE  \/ CalledOr(mapping, config.subclasses, called', o, at[2],
                           TypeOf(content'[o][at[2]]), {})
               \/ Converting(stack', o, at[2], TypeOf(content'[o][at[2]]))
    <3>1. at \in looked
      BY <1>14, <2>1 DEF Kept
    <3>2. at[2] \in DOMAIN content[o]
      BY <1>3, <2>1 DEF Shrunk
    <3>3. CASE content'[o][at[2]] = content[o][at[2]]
      <4> DEFINE type == TypeOf(content[o][at[2]])
      <4>1. \/ CalledOr(mapping, config.subclasses, called, o, at[2], type, {})
            \/ Converting(stack, o, at[2], type)
        BY <1>14, <2>1, <3>1, <3>2 DEF ProcessedIn, ProcessedAt
      <4>2. TypeOf(content'[o][at[2]]) = type
        BY <3>3
      <4> HIDE DEF type
      <4>3. \/ CalledOr(mapping, config.subclasses, called', o, at[2], type, {})
            \/ Converting(stack', o, at[2], type)
        BY <1>5, <1>14, <4>1, MoreCalls
      <4> QED BY <4>2, <4>3
    <3>4. CASE content'[o][at[2]] # content[o][at[2]]
      <4>1. o = Top.obj /\ at[2] = Top.loc
        BY <1>14, <2>1, <3>4 DEF Kept
      <4>2. content' # content
        BY <3>4
      <4> QED BY <1>14, <4>1, <4>2
    <3> QED BY <3>3, <3>4
  <2> QED BY <1>2, <1>5, <2>1 DEF ProcessedIn, ProcessedAt
<1>15. ASSUME Listed(mapping, config.subclasses, called', stack'),
              \A o, l, type : Converting(stack, o, l, type) => Converting(stack', o, l, type),
              \/ Removes \/ Inserts \/ content' = content
              \/ Converting(stack', Top.obj, Top.loc, TypeOf(content'[Top.obj][Top.loc]))
       PROVE  Goal
  <2>1. ASSUME NEW o \in Objects \ grown'
        PROVE  Gone(stack', content', o) \/ ProcessedIn(o)'
    <3>1. CASE Gone(stack, content, o) \/ Gone(stack, content', o)
      BY <1>13, <3>1
    <3>2. CASE ProcessedIn(o) /\ Kept(o) /\ (Removes => o # Top.obj)
      <4>1. Inserts => o # Top.obj
        BY <2>1 DEF Inserts
      <4> QED BY <1>14, <1>15, <3>2, <4>1
    <3> QED BY <1>3, <1>11, <3>1, <3>2
  <2> QED BY <1>15, <2>1
<1>16. ASSUME NEW b, Raise(AfterCall(b)) PROVE FALSE
  BY <1>8, <1>16 DEF Raise
<1>17. ASSUME NEW b, NEW t, t = AfterCall(b),
              Callee.filtered \/ <<Top.obj, Top.loc, Callee>> \in called'
       PROVE  /\ IsSeq(t) /\ Listed(mapping, config.subclasses, called', t)
              /\ \A o, l, type : Converting(stack, o, l, type) => Converting(t, o, l, type)
              /\ Converting(t, Top.obj, Top.loc, Top.orig)
  BY <1>2, <1>5, <1>11, <1>17, CallMade
<1>18. ASSUME Removes \/ Inserts PROVE Goal
  <2>1. stack' = AfterCall(FALSE) /\ <<Top.obj, Top.loc, Callee>> \in called'
    BY <1>18 DEF Removes, Inserts, Called, Calls
  <2> QED BY <1>15, <1>17, <1>18, <2>1
<1>19. ASSUME Filtered PROVE Goal
  <2>1. stack' = AfterCall(FALSE) /\ Callee.filtered /\ content' = content
    BY <1>16, <1>19 DEF Filtered
  <2> QED BY <1>15, <1>17, <1>19, <2>1
<1>20. ASSUME Observes PROVE Goal
  <2>1. /\ stack' = AfterCall(FALSE) /\ content' = content
        /\ <<Top.obj, Top.loc, Callee>> \in called'
    BY <1>20 DEF Observes, Called, Calls
  <2> QED BY <1>15, <1>17, <1>20, <2>1
<1>21. ASSUME Vanished \/ Fails PROVE FALSE
  BY <1>16, <1>21 DEF Vanished, Fails
<1>22. ASSUME Misdefined PROVE FALSE
  BY <1>8, <1>22 DEF Misdefined
<1>23. ASSUME Returns PROVE Goal
  <2>2. <<Top.obj, Top.loc, Callee>> \in called' /\ Top.loc \in DOMAIN content[Top.obj]
    BY <1>10, <1>23 DEF Returns, Called, Calls, Present, Strict
  <2>1. PICK value \in Does[Callee.callback].returns :
          /\ content' = IF Fixed(Top.obj) THEN content
                        ELSE Put(content, Top.obj, Top.loc, value)
          /\ IF Reprocesses(value)
             THEN Push(AfterCall(Callee.tolerant), LocFrame(Top.obj, Top.loc, content'), seen)
             ELSE stack' = AfterCall(FALSE) /\ UNCHANGED <<seen, status, failed, overflow>>
    BY <1>23, <2>2 DEF Returns, Present, Put, SetAt
  <2>3. CASE Reprocesses(value)
    <3> DEFINE g == LocFrame(Top.obj, Top.loc, content')
    <3>1. PICK t : t = AfterCall(Callee.tolerant)
      OBVIOUS
    <3>2. Push(t, g, seen)
      BY <2>1, <2>3, <3>1
    <3>3. ~Raise(t)
      BY <1>16, <3>1
    <3>4. stack' = Append(t, g)
      BY <3>2, <3>3 DEF Push
    <3>5. /\ IsSeq(t) /\ Listed(mapping, config.subclasses, called', t)
          /\ \A p, m, type : Converting(stack, p, m, type) => Converting(t, p, m, type)
      BY <1>17, <2>2, <3>1
    <3>6. /\ g.what = "loc" /\ g.obj = Top.obj /\ g.loc = Top.loc
          /\ g.orig = TypeOf(content'[Top.obj][Top.loc])
          /\ g.callbacks = CallbacksFor(g.orig)
      BY NewCall, FrameKinds
    <3> HIDE DEF g
    <3>7. CalledOr(mapping, config.subclasses, called', g.obj, g.loc, g.orig, g.callbacks)
      BY <3>6, AllListed
    <3>8. /\ Listed(mapping, config.subclasses, called', stack')
          /\ \A p, m, type : Converting(t, p, m, type) => Converting(stack', p, m, type)
          /\ Converting(stack', g.obj, g.loc, g.orig)
      BY <3>4, <3>5, <3>6, <3>7, CallBegun
    <3>9. Converting(stack', Top.obj, Top.loc, TypeOf(content'[Top.obj][Top.loc]))
      BY <3>6, <3>8
    <3> QED BY <1>15, <1>23, <3>5, <3>8, <3>9
  <2>4. CASE ~Reprocesses(value)
    <3>1. stack' = AfterCall(FALSE)
      BY <2>1, <2>4
    <3>2. /\ Listed(mapping, config.subclasses, called', stack')
          /\ \A o, l, type : Converting(stack, o, l, type) => Converting(stack', o, l, type)
          /\ Converting(stack', Top.obj, Top.loc, Top.orig)
      BY <1>17, <2>2, <3>1
    <3>3. TypeOf(value) = Top.orig
      BY <1>10, <2>4 DEF Reprocesses, Strict
    <3>4. CASE Fixed(Top.obj)
      BY <1>15, <1>23, <2>1, <3>2, <3>4
    <3>5. CASE ~Fixed(Top.obj)
      <4>1. content' = Put(content, Top.obj, Top.loc, value)
        BY <2>1, <3>5
      <4>2. content'[Top.obj][Top.loc] = value
        <5>1. PICK c, o, l, v : c = content /\ o = Top.obj /\ l = Top.loc /\ v = value
          OBVIOUS
        <5>2. Contents(c) /\ o \in Objects /\ l \in DOMAIN c[o]
          BY <1>2, <1>4, <2>2, <5>1 DEF Machine
        <5>3. Shrunk(c, Put(c, o, l, v), {}) /\ Put(c, o, l, v)[o][l] = v
          BY <5>2, PutShrinks
        <5> QED BY <4>1, <5>1, <5>3
      <4>3. Converting(stack', Top.obj, Top.loc, TypeOf(content'[Top.obj][Top.loc]))
        BY <3>2, <3>3, <4>2
      <4> QED BY <1>15, <1>23, <3>2, <4>3
    <3> QED BY <3>4, <3>5
  <2> QED BY <2>3, <2>4
<1>24. ASSUME EndLoc PROVE Goal
  <2>1. /\ stack' = Front(stack) /\ Top.callbacks = {}
        /\ UNCHANGED <<content, called, looked, grown>>
    BY <1>24 DEF EndLoc, traversed
  <2>2. PICK n : n = Len(stack)
    OBVIOUS
  <2>3. n \in Nat /\ n > 0 /\ Top = stack[n] /\ k < n /\ k \in Nat
    BY <1>1, <1>2, <2>2, TopCall DEF Top
  <2>4. stack' = SubSeq(stack, 1, n - 1)
    BY <1>1, <1>2, <2>1, <2>2, FrontOf DEF Nest
  <2>5. n - 1 \in 0 .. Len(stack)
    BY <2>2, <2>3
  <2>6. Len(stack') = n - 1 /\ \A i \in 1 .. (n - 1) : stack'[i] = stack[i]
    BY <1>1, <2>4, <2>5, CutTo DEF Nest
  <2>7. \A i \in 1 .. (n - 1) : i \in 1 .. n
    BY <2>3
  <2>8. Listed(mapping, config.subclasses, called', stack')
    BY <1>11, <2>1, <2>2, <2>6, <2>7 DEF Listed
  <2>9. CalledOr(mapping, config.subclasses, called, Top.obj, Top.loc, Top.orig, {})
    <3>1. n \in 1 .. n /\ stack[n].what = "loc"
      BY <1>2, <2>3
    <3> QED BY <1>11, <2>1, <2>2, <2>3, <3>1 DEF Listed
  <2>10. ASSUME NEW o, NEW l, NEW type, Converting(stack, o, l, type)
         PROVE  \/ Converting(stack', o, l, type)
                \/ CalledOr(mapping, config.subclasses, called, o, l, type, {})
    <3>1. PICK i \in 1 .. n :
            stack[i].what = "loc" /\ stack[i].obj = o /\ stack[i].loc = l
            /\ stack[i].orig = type
      BY <2>2, <2>10 DEF Converting
    <3>2. CASE i = n
      BY <2>3, <2>9, <3>1, <3>2
    <3>3. CASE i # n
      <4>1. i \in 1 .. (n - 1)
        BY <2>3, <3>1, <3>3
      <4> QED BY <2>6, <3>1, <4>1 DEF Converting
    <3> QED BY <3>2, <3>3
  <2>11. ASSUME NEW o \in Objects \ grown', ProcessedIn(o) PROVE ProcessedIn(o)'
    <3>1. ASSUME NEW at \in looked, at[1] = o, at[2] \in DOMAIN content[o]
          PROVE  \/ CalledOr(mapping, config.subclasses, called, o, at[2],
                             TypeOf(content[o][at[2]]), {})
                 \/ Converting(stack', o, at[2], TypeOf(content[o][at[2]]))
      <4> DEFINE type == TypeOf(content[o][at[2]])
      <4>1. \/ CalledOr(mapping, config.subclasses, called, o, at[2], type, {})
            \/ Converting(stack, o, at[2], type)
        BY <2>11, <3>1 DEF ProcessedIn, ProcessedAt
      <4> HIDE DEF type
      <4>2. \/ CalledOr(mapping, config.subclasses, called, o, at[2], type, {})
            \/ Converting(stack', o, at[2], type)
        BY <2>10, <4>1
      <4> QED BY <4>2 DEF type
    <3> QED BY <1>2, <1>5, <2>1, <3>1 DEF ProcessedIn, ProcessedAt
  <2> QED BY <1>11, <1>13, <2>8, <2>11
<1> QED BY <1>18, <1>19, <1>20, <1>21, <1>22, <1>23, <1>24 DEF CallStep

LEMMA LoopsAlone ==
    ASSUME NEW s, NEW k, Nest(s, k), k = Len(s), NEW m, NEW sub, NEW calls
    PROVE  /\ Listed(m, sub, calls, s)
           /\ \A o, l, type : ~Converting(s, o, l, type)
<1>1. \A i \in 1 .. Len(s) : s[i].what = "iter"
  BY LoopsBelow
<1> QED BY <1>1 DEF Listed, Converting

\* With no call in progress every location of the object is processed.
LEMMA ProcessedAlone ==
    ASSUME NEW k, Nest(stack, k), k = Len(stack), NEW o, ProcessedIn(o), NEW at \in looked,
           at[1] = o, at[2] \in DOMAIN content[o]
    PROVE  CalledOr(mapping, config.subclasses, called, o, at[2], TypeOf(content[o][at[2]]), {})
<1>1. ~Converting(stack, o, at[2], TypeOf(content[o][at[2]]))
  BY LoopsAlone
<1> QED BY <1>1 DEF ProcessedIn, ProcessedAt

LEMMA LoopStepKeepsTypes ==
    ASSUME TypesInv, Top.what = "iter", stack # <<>>,
           UNCHANGED <<config, mapping, content, looked, called, grown, broke>>,
           failed' \in {failed, TRUE},
           \A o : o \notin grown /\ Gone(stack, content, o) => Raised \/ Gone(stack', content', o),
           Raised \/ config.ignores \/ \E j : Nest(stack', j) /\ j = Len(stack'),
           status = "running"
    PROVE  Conversions'
<1>1. \A at \in looked' : at[1] \in Objects
  BY DEF TypesInv, Conversions
<1>2. SUFFICES ASSUME Strict'
      PROVE  /\ Listed(mapping, config.subclasses, called, stack')
             /\ \A o \in Objects \ grown : Gone(stack', content', o) \/ ProcessedIn(o)'
  BY <1>1 DEF Conversions
<1>3. ~Raised /\ ~config.ignores
  BY <1>2 DEF Strict, Raised
<1>4. PICK j : Nest(stack', j) /\ j = Len(stack')
  BY <1>3
<1>5. Listed(mapping, config.subclasses, called, stack')
  BY <1>4, LoopsAlone
<1>6. Strict
  <2>1. /\ config'.typeChanges /\ ~broke' /\ ~failed' /\ ~config'.ignores
    BY <1>2 DEF Strict
  <2>2. ~failed
    BY <2>1
  <2> QED BY <2>1, <2>2 DEF Strict
<1>7. SUFFICES ASSUME NEW o \in Objects \ grown
      PROVE  Gone(stack', content', o) \/ ProcessedIn(o)'
  BY <1>5
<1>8. CASE Gone(stack, content, o)
  BY <1>3, <1>8
<1>9. CASE ProcessedIn(o)
  <2>1. PICK k : Nest(stack, k)
    BY DEF TypesInv, CompleteInv, Machine
  <2>2. k = Len(stack)
    BY <2>1, TopLoop
  <2>3. ASSUME NEW at \in looked, at[1] = o, at[2] \in DOMAIN content[o]
        PROVE  CalledOr(mapping, config.subclasses, called, o, at[2],
                        TypeOf(content[o][at[2]]), {})
    BY <1>9, <2>1, <2>2, <2>3, ProcessedAlone
  <2> QED BY <2>3 DEF ProcessedIn, ProcessedAt
<1>10. Gone(stack, content, o) \/ ProcessedIn(o)
  BY <1>6 DEF TypesInv, Conversions
<1> QED BY <1>8, <1>9, <1>10

LEMMA KeysChangedTypes ==
    ASSUME TypesInv, KeysChanged
    PROVE  Conversions'
<1>1. Raised /\ status = "running" /\ Top.what = "iter" /\ stack # <<>>
  BY KeysChangedKeeps DEF TypesInv, CompleteInv, Machine, KeysChanged, Looping
<1>2. /\ UNCHANGED <<config, mapping, content, looked, called, grown, broke>>
      /\ failed' \in {failed, TRUE}
  BY DEF KeysChanged, setup, traversed, Raise
<1> QED BY <1>1, <1>2, LoopStepKeepsTypes

LEMMA NotFoundTypes ==
    ASSUME TypesInv, NotFound
    PROVE  Conversions'
<1>1. status = "running" /\ Top.what = "iter" /\ stack # <<>>
  BY DEF TypesInv, CompleteInv, Machine, NotFound, Looping
<1>2. /\ UNCHANGED <<config, mapping, content, looked, called, grown, broke>>
      /\ failed' \in {failed, TRUE}
  BY DEF NotFound, setup, traversed, Raise
<1>3. SUFFICES ASSUME Strict' PROVE FALSE
  <2>1. \A at \in looked' : at[1] \in Objects
    BY <1>2 DEF TypesInv, Conversions
  <2> QED BY <2>1 DEF Conversions
<1>4. ~config.ignores /\ ~failed'
  BY <1>2, <1>3 DEF Strict
<1> QED BY <1>4 DEF NotFound, Ignored, Raise

LEMMA EndLoopTypes ==
    ASSUME TypesInv, EndLoop
    PROVE  Conversions'
<1>1. /\ status = "running" /\ Top.what = "iter" /\ stack # <<>>
      /\ UNCHANGED <<config, mapping, content, looked, called, grown, broke,
                  failed>>
  BY DEF TypesInv, CompleteInv, Machine, EndLoop, Looping, setup, traversed, outcomes
<1>2. \A o : Gone(stack, content, o) => Gone(stack', content', o)
  BY EndLoopKeeps DEF TypesInv
<1>3. PICK k : Nest(stack, k)
  BY DEF TypesInv, CompleteInv, Machine
<1>4. k \in Nat /\ k = Len(stack) /\ k > 0
  BY <1>1, <1>3, TopLoop
<1>5. stack' = SubSeq(stack, 1, k - 1)
  BY <1>1, <1>3, <1>4, FrontOf DEF EndLoop, Leave, Nest
<1>6. Nest(stack', k - 1) /\ Len(stack') = k - 1
  BY <1>3, <1>4, <1>5, LoopPopped
<1> QED BY <1>1, <1>2, <1>6, LoopStepKeepsTypes

LEMMA DescendTypes ==
    ASSUME TypesInv, Descend
    PROVE  Conversions'
<1>1. PICK k : Nest(stack, k)
  BY DEF TypesInv, CompleteInv, Machine
<1> DEFINE item == content[Top.obj][Top.at]
<1>2. PICK f :
        /\ stack # <<>> /\ status = "running" /\ Top.what = "iter"
        /\ UNCHANGED <<config, content, looked, grown, broke>>
        /\ Nest(f, k) /\ Len(f) = k
        /\ IF IsProcessable(Top.obj, item)
           THEN Raised \/ \E b : stack' = Append(f, LoopOver(item, b))
           ELSE stack' = f
  <2>1. Machine
    BY DEF TypesInv, CompleteInv
  <2> QED BY <1>1, <2>1, Descends
<1> HIDE DEF item
<1>3. UNCHANGED <<mapping, called>> /\ failed' \in {failed, TRUE}
  BY DEF Descend, setup, Push, Raise
<1>4. \A o : Gone(stack, content, o) => Raised \/ Gone(stack', content', o)
  BY DescendKeeps DEF TypesInv
<1>5. Raised \/ \E j : Nest(stack', j) /\ j = Len(stack')
  <2>1. CASE IsProcessable(Top.obj, item) /\ ~Raised
    <3>1. PICK b : stack' = Append(f, LoopOver(item, b))
      BY <1>2, <2>1
    <3> DEFINE g == LoopOver(item, b)
    <3>2. IsLoop(g) /\ g.obj = item
      BY NewLoop
    <3>3. g.obj \in Objects
      BY <2>1, <3>2 DEF IsProcessable
    <3>4. stack' = Append(f, g)
      BY <3>1
    <3> HIDE DEF g
    <3>5. Nest(stack', k + 1) /\ Len(stack') = k + 1
      BY <1>2, <3>2, <3>3, <3>4, LoopPushed
    <3> QED BY <3>5
  <2>2. CASE ~IsProcessable(Top.obj, item)
    BY <1>2, <2>2
  <2> QED BY <2>1, <2>2
<1> QED BY <1>2, <1>3, <1>4, <1>5, LoopStepKeepsTypes

LEMMA NextLocTypes ==
    ASSUME TypesInv, NextLoc
    PROVE  Conversions'
<1>1. PICK k : Nest(stack, k)
  BY DEF TypesInv, CompleteInv, Machine
<1>2. /\ status = "running" /\ Top.what = "iter" /\ stack # <<>>
      /\ UNCHANGED <<config, mapping, content, called, grown, broke>>
  BY DEF TypesInv, CompleteInv, Machine, NextLoc, Looping, setup
<1>3. k \in Nat /\ k = Len(stack) /\ k > 0 /\ Top = stack[k] /\ IsLoop(Top)
      /\ Top.obj \in Objects
  BY <1>1, <1>2, TopLoop
<1>4. PICK loc, at :
        /\ looked' = looked \cup {<<Top.obj, at>>}
        /\ LET obj == Top.obj
               frames == Replaced([Top EXCEPT !.left = Remaining(loc), !.at = at])
           IN IF at \in DOMAIN content[obj]
              THEN Push(frames, LocFrame(obj, at, content), seen)
              ELSE stack' = frames /\ UNCHANGED <<seen, status, failed, overflow>>
  BY DEF NextLoc
<1>19. PICK rest : rest = Top.left \ {loc}
  OBVIOUS
<1> DEFINE h == WithEnd(stack, WithPlaces(Top, rest, at))
           g == LocFrame(Top.obj, at, content)
<1>20. PICK f : f = h
  OBVIOUS
<1>5. IF at \in DOMAIN content[Top.obj]
      THEN Push(f, g, seen)
      ELSE stack' = f /\ UNCHANGED <<seen, status, failed, overflow>>
  <2>1. f = Replaced([Top EXCEPT !.left = Remaining(loc), !.at = at])
    BY <1>19, <1>20 DEF WithEnd, WithPlaces, Replaced, Remaining
  <2> QED BY <1>4, <2>1
<1>6. Nest(f, k) /\ Len(f) = k
  BY <1>1, <1>3, <1>20, LocTaken
<1>7. /\ g.what = "loc" /\ g.obj = Top.obj /\ g.loc = at
      /\ g.orig = TypeOf(content[Top.obj][at]) /\ g.callbacks = CallbacksFor(g.orig)
  BY NewCall, FrameKinds
<1> HIDE DEF g, h
<1>8. \A x \in looked' : x[1] \in Objects
  <2>1. \A x \in looked : x[1] \in Objects
    BY DEF TypesInv, Conversions
  <2> QED BY <1>3, <1>4, <2>1
<1>9. SUFFICES ASSUME Strict'
      PROVE  /\ Listed(mapping, config.subclasses, called, stack')
             /\ \A o \in Objects \ grown : Gone(stack', content', o) \/ ProcessedIn(o)'
  BY <1>2, <1>8 DEF Conversions
<1>10. ~failed' /\ status' # "raised" /\ ~Raised
  BY <1>9 DEF Strict, Raised
<1>11. IF at \in DOMAIN content[Top.obj]
       THEN stack' = Append(f, g) /\ failed' = failed
       ELSE stack' = f /\ failed' = failed
  BY <1>5, <1>10 DEF Push, Raise
<1>12. Strict
  <2>1. /\ config'.typeChanges /\ ~broke' /\ ~failed' /\ ~config'.ignores
    BY <1>9 DEF Strict
  <2>2. ~failed
    BY <1>11, <2>1
  <2> QED BY <1>2, <2>1, <2>2 DEF Strict
<1>13. CalledOr(mapping, config.subclasses, called, g.obj, g.loc, g.orig, g.callbacks)
  BY <1>7, AllListed
<1>14. IsSeq(f) /\ Listed(mapping, config.subclasses, called, f)
  BY <1>6, LoopsAlone DEF Nest
<1>15. /\ Listed(mapping, config.subclasses, called, stack')
       /\ at \in DOMAIN content[Top.obj] =>
            Converting(stack', Top.obj, at, TypeOf(content[Top.obj][at]))
  <2>1. CASE at \in DOMAIN content[Top.obj]
    <3>1. stack' = Append(f, g)
      BY <1>11, <2>1
    <3>2. Listed(mapping, config.subclasses, called, stack')
          /\ Converting(stack', g.obj, g.loc, g.orig)
      BY <1>7, <1>13, <1>14, <3>1, CallBegun
    <3> QED BY <1>7, <3>2
  <2>2. CASE at \notin DOMAIN content[Top.obj]
    BY <1>11, <1>14, <2>2
  <2> QED BY <2>1, <2>2
<1>21. SUFFICES ASSUME NEW o \in Objects \ grown
       PROVE  Gone(stack', content', o) \/ ProcessedIn(o)'
  BY <1>15
<1>16. CASE Gone(stack, content, o)
  BY <1>10, <1>16, NextLocKeeps DEF TypesInv
<1>17. CASE ProcessedIn(o)
  <2>1. ASSUME NEW x \in looked', x[1] = o, x[2] \in DOMAIN content[o]
        PROVE  \/ CalledOr(mapping, config.subclasses, called, o, x[2],
                           TypeOf(content[o][x[2]]), {})
               \/ Converting(stack', o, x[2], TypeOf(content[o][x[2]]))
    <3>1. CASE x \in looked
      BY <1>1, <1>3, <1>17, <2>1, <3>1, ProcessedAlone
    <3>2. CASE x = <<Top.obj, at>>
      <4>1. o = Top.obj /\ x[2] = at
        BY <2>1, <3>2
      <4> QED BY <1>15, <2>1, <4>1
    <3> QED BY <1>4, <2>1, <3>1, <3>2
  <2> QED BY <1>2, <2>1 DEF ProcessedIn, ProcessedAt
<1>18. Gone(stack, content, o) \/ ProcessedIn(o)
  BY <1>12 DEF TypesInv, Conversions
<1> QED BY <1>16, <1>17, <1>18

LEMMA BreaksTypes ==
    ASSUME TypesInv, Breaks
    PROVE  Conversions'
<1>1. broke' = TRUE /\ looked' = looked
  BY DEF Breaks
<1>2. \A at \in looked' : at[1] \in Objects
  BY <1>1 DEF TypesInv, Conversions
<1> QED BY <1>1, <1>2 DEF Conversions, Strict

LEMMA StartTypes ==
    ASSUME TypesInv, Start
    PROVE  Conversions'
<1>1. looked' = {}
  BY DEF TypesInv, CompleteInv, Machine, Start
<1>2. \A i \in 1 .. Len(stack') : stack'[i].what = "iter"
  BY StartKeeps DEF TypesInv
<1>3. PICK m, sub, calls :
        m = mapping' /\ sub = config'.subclasses /\ calls = called'
  OBVIOUS
<1>4. Listed(m, sub, calls, stack')
  BY <1>2 DEF Listed
<1>5. \A o : ProcessedIn(o)'
  BY <1>1 DEF ProcessedIn
<1> QED BY <1>1, <1>3, <1>4, <1>5 DEF Conversions

LEMMA RegisterTypes ==
    ASSUME TypesInv, NEW d, Register(d)
    PROVE  Conversions'
<1>1. status = "setup" /\ UNCHANGED <<stack, looked>>
  BY DEF Register, traversed
<1>2. stack' = <<>> /\ looked' = {} /\ Len(stack') = 0
  BY <1>1, NoCalls DEF TypesInv, CompleteInv, Machine
<1>3. PICK m, sub, calls :
        m = mapping' /\ sub = config'.subclasses /\ calls = called'
  OBVIOUS
<1>4. Listed(m, sub, calls, stack')
  BY <1>2 DEF Listed
<1>5. \A o : ProcessedIn(o)'
  BY <1>2 DEF ProcessedIn
<1> QED BY <1>2, <1>3, <1>4, <1>5 DEF Conversions

LEMMA InitTypes == Init => TypesInv
<1> SUFFICES ASSUME Init PROVE Conversions
  BY InitComplete DEF TypesInv
<1>1. stack = <<>> /\ looked = {} /\ Len(stack) = 0
  BY NoCalls DEF Init
<1>2. Listed(mapping, config.subclasses, called, stack)
  BY <1>1 DEF Listed
<1> QED BY <1>1, <1>2 DEF Conversions, ProcessedIn

LEMMA NextTypes ==
    ASSUME TypesInv, [Next]_vars
    PROVE  TypesInv'
<1>1. CompleteInv'
  BY NextComplete DEF TypesInv
<1>2. CASE UNCHANGED vars
  BY <1>1, <1>2 DEF TypesInv, Conversions, Strict, ProcessedIn, vars, setup, traversed,
                    outcomes
<1>3. ASSUME NEW d \in Definitions, Register(d) PROVE Conversions'
  BY <1>3, RegisterTypes
<1>4. CASE Start
  BY <1>1, <1>4, StartTypes DEF TypesInv
<1>5. CASE NextLoc
  BY <1>1, <1>5, NextLocTypes DEF TypesInv
<1>6. CASE KeysChanged
  BY <1>1, <1>6, KeysChangedTypes DEF TypesInv
<1>7. CASE EndLoop
  BY <1>1, <1>7, EndLoopTypes DEF TypesInv
<1>8. CASE Descend
  BY <1>1, <1>8, DescendTypes DEF TypesInv
<1>9. CASE NotFound
  BY <1>1, <1>9, NotFoundTypes DEF TypesInv
<1>10. CASE CallStep
  BY <1>1, <1>10, CallsKeepTypes DEF TypesInv
<1>11. CASE Breaks
  BY <1>1, <1>11, BreaksTypes DEF TypesInv
<1> QED BY <1>1, <1>2, <1>3, <1>4, <1>5, <1>6, <1>7, <1>8, <1>9, <1>10, <1>11
        DEF Next, CallStep, TypesInv

LEMMA TypesFollow ==
    ASSUME TypesInv
    PROVE  TypeChangesProcessed
<1> SUFFICES ASSUME status = "done", config.typeChanges, ~broke, ~failed, ~config.ignores,
                    NEW at \in looked, at[1] \notin grown, at[2] \in DOMAIN content[at[1]],
                    NEW i \in CallbacksFor(TypeOf(content[at[1]][at[2]])),
                    ~mapping[i].filtered
             PROVE  <<at[1], at[2], mapping[i]>> \in called
  BY DEF TypeChangesProcessed
<1>1. stack = <<>> /\ Nest(stack, 0) /\ Len(stack) = 0
  BY NoCalls DEF TypesInv, CompleteInv, Machine
<1>2. ~Gone(stack, content, at[1])
  BY <1>1 DEF Gone
<1>3. ProcessedIn(at[1])
  BY <1>2 DEF TypesInv, Conversions, Strict
<1>4. CalledOr(mapping, config.subclasses, called, at[1], at[2],
               TypeOf(content[at[1]][at[2]]), {})
  BY <1>1, <1>3, ProcessedAlone
<1>5. i \in For(mapping, config.subclasses, TypeOf(content[at[1]][at[2]]))
  BY DEF For, CallbacksFor, Matches
<1> QED BY <1>4, <1>5 DEF CalledOr

\* However many conversions make the value that a location has at the end, every callback
\* for its type has been called there when a traversal with process_type_changes returns
\* without a failure, in every container that was not inserted into: _process_item
\* processes the location anew until the type is stable.
THEOREM TypesConverge == Spec => []TypeChangesProcessed
<1>1. Init => TypesInv
  BY InitTypes
<1>2. TypesInv /\ [Next]_vars => TypesInv'
  BY NextTypes
<1>3. TypesInv => TypeChangesProcessed
  BY TypesFollow
<1> QED BY <1>1, <1>2, <1>3, PTL DEF Spec

-----------------------------------------------------------------------------
(* What a stack that is full contains *)

\* The definitions that register_callback takes, and the types of what they return.
Registrable == {d \in Definitions : d.callback \in Decorated}
Returned == {TypeOf(v) : v \in UNION {Does[d.callback].returns : d \in Registrable}}

Handles(d, type) == d.type = type \/ d.type \in Supers[type]

\* Conversions end: each leads from a type that callbacks return to one of a higher rank,
\* so that none leads back to where another began.
ConversionsEnd(rank) ==
    /\ rank \in [Returned -> Nat]
    /\ \A d \in Registrable : \A v \in Does[d.callback].returns : \A type \in Returned :
        Handles(d, type) /\ type # TypeOf(v) => rank[type] < rank[TypeOf(v)]

ModelObjects == {o \in Objects : Kind[o] = "model"}

\* The interpreter's limit is beyond what a document without such a cycle needs: every
\* container once within each model and once outside of them, a call for every type
\* that is returned, and one for the type that was there first.
DeepEnough ==
    /\ IsFiniteSet(Objects) /\ IsFiniteSet(Returned) /\ MaxDepth \in Nat
    /\ MaxDepth > Cardinality(Objects) * (Cardinality(ModelObjects) + 1)
                    + Cardinality(Returned) + 1

\* What is known of the models: the set, those of which it tells that they are in it, but
\* for a change of their hash, and those whose hash has changed.
MarksOf(models, digests, changed) ==
    [seen |-> models, altered |-> changed,
     held |-> changed \cup {m \in ModelObjects : <<m, digests[m].hash>> \in models}]
marks == MarksOf(seen, digest, altered)

\* The same when the callback has been called, and the set is still what it was.
after == MarksOf(seen, digest', altered')

\* The models that the loops are of are known, and a loop within one of them does not begin
\* the set and is of the same model only if its hash has changed.
LoopsNest(s, k, models) ==
    \A i \in 1 .. k : s[i].obj \in ModelObjects =>
        /\ s[i].obj \in models.held /\ models.seen # {}
        /\ \A j \in (i + 1) .. k :
            ~s[j].fresh /\ (s[j].obj = s[i].obj => s[i].obj \in models.altered)

\* The callbacks of a call are for its type, and a call above another is of a type that
\* a callback returned, and that no call between them has.
CallNests(s, i, k, defs, changes, rank) ==
    /\ \A p \in s[i].callbacks : p \in DOMAIN defs /\ Handles(defs[p], s[i].orig)
    /\ i > k + 1 =>
        /\ changes
        /\ ~Fixed(s[i].obj) =>
            /\ s[i].orig \in Returned
            /\ \A j \in (k + 2) .. (i - 1) : rank[s[j].orig] < rank[s[i].orig]

CallsNest(s, k, defs, changes, rank) ==
    \A i \in (k + 1) .. Len(s) : CallNests(s, i, k, defs, changes, rank)

Nested(s, k, models, defs, changes, rank) ==
    /\ Nest(s, k) /\ LoopsNest(s, k, models) /\ CallsNest(s, k, defs, changes, rank)

Explained(f, conf, changed) ==
    \/ \E i, j \in DOMAIN f :
        /\ i < j /\ f[i].what = "iter" /\ f[j].what = "iter"
        /\ f[i].obj = f[j].obj
        /\ \/ f[i].obj \in changed
           \/ \A k \in i .. j : Kind[f[k].obj] # "model"
    \/ \E i \in DOMAIN f : f[i].what = "loc" /\ Fixed(f[i].obj) /\ conf.typeChanges
    \/ \E i \in DOMAIN f : f[i].obj = Text /\ ~conf.subclasses

Depth(rank) ==
    /\ mapping \in Seq(Registrable)
    /\ \E k : Nested(stack, k, marks, mapping, config.typeChanges, rank)
    /\ overflow # <<>> => Explained(overflow, config, altered)

Digests == DOMAIN digest = ModelObjects

DepthInv(rank) == CompleteInv /\ Digests /\ Depth(rank)

-----------------------------------------------------------------------------
(* Stacks that are deep enough repeat themselves *)

LEMMA LastOf ==
    ASSUME NEW n \in Nat, NEW S, S \subseteq 1 .. n, S # {}
    PROVE  \E x \in S : \A y \in S : y <= x
<1> DEFINE T == {i \in Nat : n - i \in S}
           R == OpToRel(<, Nat)
<1>1. IsWellFoundedOn(R, Nat)
  BY NatLessThanWellFounded
<1>2. \A x, y \in Nat : x < y => <<x, y>> \in R
  BY DEF OpToRel
<1> HIDE DEF R
<1>3. T # {}
  <2>1. PICK x \in S : TRUE
    OBVIOUS
  <2>2. n - x \in Nat /\ n - (n - x) = x
    BY <2>1
  <2> QED BY <2>1, <2>2
<1>4. PICK m \in T : \A i \in T : ~(<<i, m>> \in R)
  BY <1>1, <1>3, WFMin
<1>5. n - m \in S /\ m \in Nat
  OBVIOUS
<1>6. ASSUME NEW y \in S PROVE y <= n - m
  <2>1. n - y \in Nat /\ n - (n - y) = y /\ y \in Nat
    OBVIOUS
  <2>2. n - y \in T
    BY <2>1
  <2>3. ~(n - y < m)
    BY <1>2, <1>4, <2>1, <2>2
  <2> QED BY <2>1, <2>3
<1> QED BY <1>5, <1>6

LEMMA FirstOf ==
    ASSUME NEW S, S \subseteq Nat, S # {}
    PROVE  \E x \in S : \A y \in S : x <= y
<1> DEFINE R == OpToRel(<, Nat)
<1>1. IsWellFoundedOn(R, Nat)
  BY NatLessThanWellFounded
<1>2. \A x, y \in Nat : x < y => <<x, y>> \in R
  BY DEF OpToRel
<1> HIDE DEF R
<1>3. PICK x \in S : \A y \in S : ~(<<y, x>> \in R)
  BY <1>1, WFMin
<1>4. \A y \in S : ~(y < x)
  BY <1>2, <1>3
<1> QED BY <1>4

\* The model that the i-th loop is of, or that is innermost around it.
Around(s, i) == {j \in 1 .. i : s[j].obj \in ModelObjects}
NoModel == CHOOSE x : x \notin ModelObjects
ModelAround(s, i) ==
    IF Around(s, i) = {} THEN NoModel
    ELSE s[CHOOSE j \in Around(s, i) : \A l \in Around(s, i) : l <= j].obj

LEMMA NoModelIsNone == NoModel \notin ModelObjects
BY NoSetContainsEverything DEF NoModel

LEMMA ModelAroundIs ==
    ASSUME NEW s, NEW i \in Nat, Around(s, i) # {}
    PROVE  \E j \in Around(s, i) :
            /\ \A l \in Around(s, i) : l <= j
            /\ ModelAround(s, i) = s[j].obj
<1>1. Around(s, i) \subseteq 1 .. i
  BY DEF Around
<1>2. \E j \in Around(s, i) : \A l \in Around(s, i) : l <= j
  BY <1>1, LastOf
<1> DEFINE c == CHOOSE j \in Around(s, i) : \A l \in Around(s, i) : l <= j
<1>3. c \in Around(s, i) /\ \A l \in Around(s, i) : l <= c
  BY <1>2
<1>4. ModelAround(s, i) = s[c].obj
  BY DEF ModelAround
<1> HIDE DEF c
<1> QED BY <1>3, <1>4

\* No loop over a model is within another.
ModelsOnce(s, k) ==
    \A i \in 1 .. k : s[i].obj \in ModelObjects => \A j \in (i + 1) .. k : s[j].obj # s[i].obj

\* Two loops over one container are told apart by the models around them.
LEMMA LoopsApart ==
    ASSUME NEW s, NEW k \in Nat, ModelsOnce(s, k),
           NEW i \in 1 .. k, NEW j \in 1 .. k, i < j, s[i].obj = s[j].obj,
           NEW l \in i .. j, s[l].obj \in ModelObjects
    PROVE  ModelAround(s, i) # ModelAround(s, j)
<1>1. l \in 1 .. j /\ l \in 1 .. k
  OBVIOUS
<1>2. l \in Around(s, j)
  BY <1>1 DEF Around
<1>3. PICK q \in Around(s, j) : /\ \A p \in Around(s, j) : p <= q
                                /\ ModelAround(s, j) = s[q].obj
  BY <1>2, ModelAroundIs
<1>4. q \in 1 .. k /\ s[q].obj \in ModelObjects /\ l <= q /\ q <= j
  BY <1>2, <1>3 DEF Around
<1>5. CASE Around(s, i) = {}
  BY <1>3, <1>4, <1>5, NoModelIsNone DEF ModelAround
<1>6. CASE Around(s, i) # {}
  <2>1. PICK p \in Around(s, i) : ModelAround(s, i) = s[p].obj
    BY <1>6, ModelAroundIs
  <2>2. p \in 1 .. k /\ s[p].obj \in ModelObjects /\ p <= i
    BY <2>1 DEF Around
  <2>3. CASE p < q
    <3>1. q \in (p + 1) .. k
      BY <1>4, <2>2, <2>3
    <3>2. s[q].obj # s[p].obj
      BY <2>2, <3>1 DEF ModelsOnce
    <3> QED BY <1>3, <2>1, <3>2
  <2>4. CASE ~(p < q)
    <3>1. p = i /\ l = i /\ q = i
      BY <1>4, <2>2, <2>4
    <3>2. s[i].obj \in ModelObjects /\ j \in (i + 1) .. k
      BY <2>2, <3>1
    <3>3. s[j].obj # s[i].obj
      BY <3>2 DEF ModelsOnce
    <3> QED BY <3>3
  <2> QED BY <2>3, <2>4
<1> QED BY <1>5, <1>6

\* A cycle that no model is part of.
Cycle(s, k) ==
    \E i, j \in 1 .. k :
        i < j /\ s[i].obj = s[j].obj /\ \A l \in i .. j : s[l].obj \notin ModelObjects

LEMMA LoopsBounded ==
    ASSUME IsFiniteSet(Objects), NEW s, NEW k \in Nat, ModelsOnce(s, k),
           \A i \in 1 .. k : s[i].obj \in Objects, ~Cycle(s, k)
    PROVE  /\ Cardinality(Objects) \in Nat /\ Cardinality(ModelObjects) \in Nat
           /\ k <= Cardinality(Objects) * (Cardinality(ModelObjects) + 1)
<1> DEFINE M == ModelObjects \cup {NoModel}
           T == Objects \X M
           f == [i \in 1 .. k |-> <<s[i].obj, ModelAround(s, i)>>]
<1>1. IsFiniteSet(ModelObjects) /\ Cardinality(ModelObjects) \in Nat
      /\ Cardinality(Objects) \in Nat
  <2>1. ModelObjects \in SUBSET Objects
    BY DEF ModelObjects
  <2> QED BY <2>1, FS_Subset, FS_CardinalityType
<1>2. IsFiniteSet(M) /\ Cardinality(M) = Cardinality(ModelObjects) + 1
  BY <1>1, NoModelIsNone, FS_AddElement
<1>3. IsFiniteSet(T) /\ Cardinality(T) = Cardinality(Objects) * (Cardinality(ModelObjects) + 1)
  BY <1>2, FS_Product
<1>4. \A i \in 1 .. k : ModelAround(s, i) \in M
  <2> SUFFICES ASSUME NEW i \in 1 .. k PROVE ModelAround(s, i) \in M
    OBVIOUS
  <2>1. CASE Around(s, i) = {}
    BY <2>1 DEF ModelAround
  <2>2. CASE Around(s, i) # {}
    <3>1. PICK j \in Around(s, i) : ModelAround(s, i) = s[j].obj
      BY <2>2, ModelAroundIs
    <3> QED BY <3>1 DEF Around
  <2> QED BY <2>1, <2>2
<1> HIDE DEF M
<1>5. f \in [1 .. k -> T]
  BY <1>4
<1>6. ASSUME NEW i \in 1 .. k, NEW j \in 1 .. k, i < j
      PROVE  f[i] # f[j]
  <2>1. f[i] = <<s[i].obj, ModelAround(s, i)>> /\ f[j] = <<s[j].obj, ModelAround(s, j)>>
    OBVIOUS
  <2>2. CASE s[i].obj = s[j].obj
    <3>1. PICK l \in i .. j : s[l].obj \in ModelObjects
      BY <1>6, <2>2 DEF Cycle
    <3>2. ModelAround(s, i) # ModelAround(s, j)
      BY <1>6, <2>2, <3>1, LoopsApart
    <3> QED BY <2>1, <3>2
  <2> QED BY <2>1, <2>2
<1>7. \A i, j \in 1 .. k : i # j => f[i] # f[j]
  <2> HIDE DEF f
  <2> TAKE i, j \in 1 .. k
  <2>1. i \in Int /\ j \in Int
    OBVIOUS
  <2> QED BY <1>6, <2>1
<1>8. f \in Injection(1 .. k, T)
  <2> HIDE DEF f
  <2> QED BY <1>5, <1>7 DEF Injection, IsInjective
<1> HIDE DEF f, T
<1>9. Cardinality(1 .. k) <= Cardinality(T)
  BY <1>3, <1>8, FS_Injection
<1>10. Cardinality(1 .. k) = k
  <2>1. Cardinality(1 .. k) = IF 1 > k THEN 0 ELSE k - 1 + 1
    BY FS_Interval
  <2> QED BY <2>1
<1> QED BY <1>1, <1>3, <1>9, <1>10

\* Calls upon calls end where conversions do.
LEMMA CallsBounded ==
    ASSUME IsFiniteSet(Returned), NEW rank \in [Returned -> Nat], NEW s, NEW k,
           NEW defs, NEW changes, Nest(s, k), CallsNest(s, k, defs, changes, rank),
           \A i \in (k + 1) .. Len(s) : ~(Fixed(s[i].obj) /\ changes)
    PROVE  Cardinality(Returned) \in Nat /\ Len(s) <= k + 1 + Cardinality(Returned)
<1>1. Len(s) \in Nat /\ k \in Nat /\ k <= Len(s)
  BY LoopsBelow
<1>2. Cardinality(Returned) \in Nat
  BY FS_CardinalityType
<1> DEFINE I == (k + 2) .. Len(s)
           f == [i \in I |-> s[i].orig]
<1>3. ASSUME NEW i \in I
      PROVE  s[i].orig \in Returned /\ \A j \in (k + 2) .. (i - 1) : rank[s[j].orig] < rank[s[i].orig]
  <2>1. i \in (k + 1) .. Len(s) /\ i > k + 1
    BY <1>1
  <2>2. changes /\ ~Fixed(s[i].obj)
    BY <2>1 DEF CallsNest, CallNests
  <2> QED BY <2>1, <2>2 DEF CallsNest, CallNests
<1>4. f \in [I -> Returned]
  BY <1>3
<1>5. ASSUME NEW i \in I, NEW j \in I, i < j
      PROVE  f[i] # f[j]
  <2>1. i \in (k + 2) .. (j - 1)
    BY <1>1, <1>5
  <2>2. rank[s[i].orig] < rank[s[j].orig]
    BY <1>3, <2>1
  <2>3. s[i].orig \in Returned /\ s[j].orig \in Returned
    BY <1>3
  <2>4. s[i].orig # s[j].orig
    <3>1. rank[s[i].orig] \in Nat
      BY <2>3
    <3> QED BY <2>2, <3>1
  <2> QED BY <2>4
<1>6. \A i, j \in I : i # j => f[i] # f[j]
  <2> HIDE DEF f
  <2> TAKE i, j \in I
  <2>1. i \in Int /\ j \in Int
    BY <1>1
  <2> QED BY <1>5, <2>1
<1>7. f \in Injection(I, Returned)
  <2> HIDE DEF f, I
  <2> QED BY <1>4, <1>6 DEF Injection, IsInjective
<1> HIDE DEF f
<1>8. Cardinality(I) <= Cardinality(Returned)
  <2> HIDE DEF I
  <2> QED BY <1>7, FS_Injection
<1>9. Cardinality(I) = IF k + 2 > Len(s) THEN 0 ELSE Len(s) - (k + 2) + 1
  <2>1. PICK a, b : a = k + 2 /\ b = Len(s)
    OBVIOUS
  <2>2. a \in Int /\ b \in Int
    BY <1>1, <2>1
  <2>3. Cardinality(a .. b) = IF a > b THEN 0 ELSE b - a + 1
    BY <2>2, FS_Interval
  <2> QED BY <2>1, <2>3
<1> QED BY <1>1, <1>2, <1>8, <1>9

\* A stack as deep as the limit has one of the explanations.
LEMMA DeepExplained ==
    ASSUME DeepEnough, NEW rank, ConversionsEnd(rank), NEW s, NEW k, NEW models,
           NEW defs, NEW conf, Nested(s, k, models, defs, conf.typeChanges, rank),
           ~(Len(s) < MaxDepth)
    PROVE  Explained(s, conf, models.altered)
<1> SUFFICES ASSUME ~Explained(s, conf, models.altered) PROVE FALSE
  OBVIOUS
<1>1. /\ Nest(s, k) /\ LoopsNest(s, k, models)
      /\ CallsNest(s, k, defs, conf.typeChanges, rank)
  BY DEF Nested
<1>2. Len(s) \in Nat /\ k \in Nat /\ k <= Len(s) /\ DOMAIN s = 1 .. Len(s)
  BY <1>1, LoopsBelow, ListDomain DEF Nest
<1>3. \A i \in 1 .. k : s[i].what = "iter" /\ s[i].obj \in Objects
  <2> TAKE i \in 1 .. k
  <2>1. Nest(s, k)
    BY <1>1
  <2>2. IsLoop(s[i]) /\ s[i].obj \in Objects
    BY <2>1 DEF Nest
  <2> QED BY <2>2, FrameKinds
<1>4. ~Cycle(s, k)
  <2> SUFFICES ASSUME NEW i \in 1 .. k, NEW j \in 1 .. k, i < j, s[i].obj = s[j].obj,
                      \A l \in i .. j : s[l].obj \notin ModelObjects
               PROVE  FALSE
    BY DEF Cycle
  <2>1. i \in DOMAIN s /\ j \in DOMAIN s /\ s[i].what = "iter" /\ s[j].what = "iter"
    BY <1>2, <1>3
  <2>2. \A l \in i .. j : Kind[s[l].obj] # "model"
    <3> TAKE l \in i .. j
    <3>1. l \in 1 .. k
      BY <1>2
    <3> QED BY <1>3, <3>1 DEF ModelObjects
  <2> QED BY <2>1, <2>2 DEF Explained
<1>11. ModelsOnce(s, k)
  <2> SUFFICES ASSUME NEW i \in 1 .. k, s[i].obj \in ModelObjects, NEW j \in (i + 1) .. k,
                      s[j].obj = s[i].obj
               PROVE  FALSE
    BY DEF ModelsOnce
  <2>1. s[i].obj \in models.altered
    BY <1>1 DEF LoopsNest
  <2>2. i \in DOMAIN s /\ j \in DOMAIN s /\ i < j /\ j \in 1 .. k
    BY <1>2
  <2>3. s[i].what = "iter" /\ s[j].what = "iter"
    BY <1>3, <2>2
  <2> QED BY <2>1, <2>2, <2>3 DEF Explained
<1>5. /\ Cardinality(Objects) \in Nat /\ Cardinality(ModelObjects) \in Nat
      /\ k <= Cardinality(Objects) * (Cardinality(ModelObjects) + 1)
  BY <1>2, <1>3, <1>4, <1>11, LoopsBounded DEF DeepEnough
<1>6. \A i \in (k + 1) .. Len(s) : ~(Fixed(s[i].obj) /\ conf.typeChanges)
  <2> TAKE i \in (k + 1) .. Len(s)
  <2>1. i \in DOMAIN s /\ s[i].what = "loc"
    BY <1>1, <1>2, FrameKinds DEF Nest
  <2> QED BY <2>1 DEF Explained
<1>7. Cardinality(Returned) \in Nat /\ Len(s) <= k + 1 + Cardinality(Returned)
  <2>1. rank \in [Returned -> Nat] /\ IsFiniteSet(Returned)
    BY DEF ConversionsEnd, DeepEnough
  <2>2. PICK changes : changes = conf.typeChanges
    OBVIOUS
  <2> QED BY <1>1, <1>6, <2>1, <2>2, CallsBounded
<1>8. PICK b : b = Cardinality(Objects) * (Cardinality(ModelObjects) + 1)
  OBVIOUS
<1>9. b \in Nat
  BY <1>5, <1>8
<1>10. MaxDepth \in Nat /\ MaxDepth > b + Cardinality(Returned) + 1
  BY <1>8 DEF DeepEnough
<1> QED BY <1>2, <1>5, <1>7, <1>8, <1>9, <1>10

-----------------------------------------------------------------------------
(* What the steps do to the nesting *)

LEMMA NestedCut ==
    ASSUME NEW s, NEW k, NEW models, NEW defs, NEW changes, NEW rank,
           Nested(s, k, models, defs, changes, rank),
           NEW n \in k .. Len(s), NEW t, t = SubSeq(s, 1, n)
    PROVE  Nested(t, k, models, defs, changes, rank) /\ Len(t) = n
<1>1. Nest(s, k)
  BY DEF Nested
<1>2. Len(s) \in Nat /\ k \in Nat /\ k <= Len(s) /\ n \in 0 .. Len(s)
  BY <1>1, LoopsBelow
<1>3. Nest(t, k)
  BY <1>1, CallsCut DEF SameLoops
<1>4. Len(t) = n /\ \A i \in 1 .. n : t[i] = s[i]
  BY <1>1, <1>2, CutTo DEF Nest
<1>5. LoopsNest(t, k, models)
  <2>1. \A i \in 1 .. k : t[i] = s[i]
    BY <1>2, <1>4
  <2>2. \A i \in 1 .. k : \A j \in (i + 1) .. k : j \in 1 .. k
    BY <1>2
  <2> QED BY <2>1, <2>2 DEF Nested, LoopsNest
<1>6. CallsNest(t, k, defs, changes, rank)
  <2> SUFFICES ASSUME NEW i \in (k + 1) .. n
               PROVE  CallNests(t, i, k, defs, changes, rank)
    BY <1>4 DEF CallsNest
  <2>1. i \in (k + 1) .. Len(s) /\ t[i] = s[i]
    BY <1>2, <1>4
  <2>2. CallNests(s, i, k, defs, changes, rank)
    BY <2>1 DEF Nested, CallsNest
  <2>3. \A j \in (k + 2) .. (i - 1) : t[j] = s[j]
    BY <1>2, <1>4
  <2> HIDE <1>2
  <2> QED BY <2>1, <2>2, <2>3 DEF CallNests
<1> QED BY <1>3, <1>4, <1>5, <1>6 DEF Nested

LEMMA NestedLoops ==
    ASSUME NEW s, NEW k, NEW models, NEW defs, NEW changes, NEW rank,
           Nested(s, k, models, defs, changes, rank), NEW t, t = SubSeq(s, 1, k)
    PROVE  Nested(t, k, models, defs, changes, rank) /\ Len(t) = k
<1>1. Nest(s, k)
  BY DEF Nested
<1>2. Len(s) \in Nat /\ k \in Nat /\ k <= Len(s)
  BY <1>1, LoopsBelow
<1>3. PICK n : n = k
  OBVIOUS
<1>4. n \in k .. Len(s) /\ t = SubSeq(s, 1, n)
  BY <1>2, <1>3
<1>5. Nested(t, k, models, defs, changes, rank) /\ Len(t) = n
  BY <1>4, NestedCut
<1> QED BY <1>3, <1>5

\* Ending the innermost loop, which may have begun the set of models.
LEMMA NestedPopped ==
    ASSUME NEW s, NEW k, NEW models, NEW defs, NEW changes, NEW rank,
           Nested(s, k, models, defs, changes, rank), k > 0,
           NEW t, t = SubSeq(s, 1, k - 1),
           NEW left, ~s[k].fresh => left = models
    PROVE  Nested(t, k - 1, left, defs, changes, rank)
<1>1. Nest(s, k) /\ LoopsNest(s, k, models)
  BY DEF Nested
<1>2. k \in Nat
  BY <1>1, LoopsBelow
<1>3. Nest(t, k - 1) /\ Len(t) = k - 1 /\ \A i \in 1 .. (k - 1) : t[i] = s[i]
  BY <1>1, LoopPopped
<1>4. LoopsNest(t, k - 1, left)
  <2> SUFFICES ASSUME NEW i \in 1 .. (k - 1), t[i].obj \in ModelObjects
               PROVE  /\ t[i].obj \in left.held /\ left.seen # {}
                      /\ \A j \in (i + 1) .. (k - 1) :
                            ~t[j].fresh /\ (t[j].obj = t[i].obj => t[i].obj \in left.altered)
    BY DEF LoopsNest
  <2>1. i \in 1 .. k /\ t[i] = s[i] /\ k \in (i + 1) .. k
    BY <1>2, <1>3
  <2>2. /\ s[i].obj \in models.held /\ models.seen # {}
        /\ \A j \in (i + 1) .. k :
              ~s[j].fresh /\ (s[j].obj = s[i].obj => s[i].obj \in models.altered)
    BY <1>1, <2>1 DEF LoopsNest
  <2>3. left = models
    BY <2>1, <2>2
  <2>4. \A j \in (i + 1) .. (k - 1) : j \in (i + 1) .. k /\ t[j] = s[j]
    BY <1>2, <1>3
  <2> QED BY <2>1, <2>2, <2>3, <2>4
<1>5. CallsNest(t, k - 1, defs, changes, rank)
  BY <1>2, <1>3 DEF CallsNest
<1> QED BY <1>3, <1>4, <1>5 DEF Nested

\* The innermost call has one callback less.
LEMMA NestedCalled ==
    ASSUME NEW s, NEW k, NEW models, NEW defs, NEW changes, NEW rank,
           Nested(s, k, models, defs, changes, rank),
           NEW n, n = Len(s), k < n, NEW t, SameLoops(s, t, k), Len(t) = n,
           \A i \in 1 .. n : i # n => t[i] = s[i],
           t[n].obj = s[n].obj, t[n].orig = s[n].orig, t[n].callbacks \subseteq s[n].callbacks
    PROVE  Nested(t, k, models, defs, changes, rank)
<1>1. Nest(s, k) /\ Nest(t, k) /\ \A i \in 1 .. k : t[i] = s[i]
  BY DEF Nested, SameLoops
<1>2. n \in Nat /\ k \in Nat /\ k < n
  BY <1>1, LoopsBelow
<1>3. LoopsNest(t, k, models)
  <2>1. \A i \in 1 .. k : \A j \in (i + 1) .. k : j \in 1 .. k
    BY <1>2
  <2> QED BY <1>1, <2>1 DEF Nested, LoopsNest
<1>4. ASSUME NEW i \in (k + 1) .. n PROVE CallNests(t, i, k, defs, changes, rank)
  <2>1. CallNests(s, i, k, defs, changes, rank)
    BY <1>4 DEF Nested, CallsNest
  <2>2. \A j \in (k + 2) .. (i - 1) : t[j] = s[j]
    BY <1>2
  <2>3. t[i].obj = s[i].obj /\ t[i].orig = s[i].orig /\ t[i].callbacks \subseteq s[i].callbacks
    <3>1. i = n \/ t[i] = s[i]
      BY <1>2
    <3> QED BY <3>1
  <2> HIDE <1>2
  <2> QED BY <2>1, <2>2, <2>3 DEF CallNests
<1> QED BY <1>1, <1>3, <1>4 DEF Nested, CallsNest

\* A call for the location that the innermost loop is at, upon the calls there are.
LEMMA NestedCallPushed ==
    ASSUME NEW s, NEW k, NEW models, NEW defs, NEW changes, NEW rank,
           Nested(s, k, models, defs, changes, rank), k > 0, s[k].at # None,
           NEW f, IsCall(f), f.obj = s[k].obj, f.loc = s[k].at,
           \A p \in f.callbacks : p \in DOMAIN defs /\ Handles(defs[p], f.orig),
           k < Len(s) =>
            /\ changes
            /\ ~Fixed(f.obj) =>
                /\ f.orig \in Returned
                /\ \A j \in (k + 2) .. Len(s) : rank[s[j].orig] < rank[f.orig],
           NEW t, t = Append(s, f)
    PROVE  Nested(t, k, models, defs, changes, rank)
<1>1. Nest(s, k)
  BY DEF Nested
<1>2. SameLoops(s, t, k)
  BY <1>1, CallPushed
<1>3. Len(s) \in Nat /\ k \in Nat /\ k <= Len(s)
  BY <1>1, LoopsBelow
<1>4. Len(t) = Len(s) + 1 /\ t[Len(s) + 1] = f /\ \A i \in 1 .. Len(s) : t[i] = s[i]
  BY <1>1, AppendTo DEF Nest
<1>5. LoopsNest(t, k, models)
  <2>1. \A i \in 1 .. k : \A j \in (i + 1) .. k : j \in 1 .. k
    BY <1>3
  <2> QED BY <1>2, <2>1 DEF Nested, LoopsNest, SameLoops
<1>6. ASSUME NEW i \in (k + 1) .. Len(t) PROVE CallNests(t, i, k, defs, changes, rank)
  <2>1. CASE i \in (k + 1) .. Len(s)
    <3>1. CallNests(s, i, k, defs, changes, rank)
      BY <2>1 DEF Nested, CallsNest
    <3>2. t[i] = s[i] /\ \A j \in (k + 2) .. (i - 1) : t[j] = s[j]
      BY <1>3, <1>4, <2>1
    <3> HIDE <1>3, <1>4
    <3> QED BY <3>1, <3>2 DEF CallNests
  <2>2. CASE i = Len(s) + 1
    <3>1. t[i] = f /\ i - 1 = Len(s) /\ \A j \in (k + 2) .. (i - 1) : t[j] = s[j]
      BY <1>3, <1>4, <2>2
    <3>2. i > k + 1 => k < Len(s)
      BY <1>3, <2>2
    <3> HIDE <1>3, <1>4
    <3> QED BY <3>1, <3>2 DEF CallNests
  <2> QED BY <1>3, <1>4, <1>6, <2>1, <2>2
<1> QED BY <1>2, <1>5, <1>6 DEF Nested, SameLoops, CallsNest

\* What a conversion leads to has a higher rank than every type before it.
LEMMA RanksRise ==
    ASSUME NEW s, NEW k, NEW models, NEW defs, NEW changes, NEW rank,
           Nested(s, k, models, defs, changes, rank), ConversionsEnd(rank),
           k < Len(s), ~Fixed(s[Len(s)].obj),
           NEW d \in Registrable, Handles(d, s[Len(s)].orig),
           NEW v \in Does[d.callback].returns, s[Len(s)].orig # TypeOf(v)
    PROVE  /\ TypeOf(v) \in Returned
           /\ \A j \in (k + 2) .. Len(s) : rank[s[j].orig] < rank[TypeOf(v)]
<1>1. Nest(s, k) /\ CallsNest(s, k, defs, changes, rank)
  BY DEF Nested
<1>2. Len(s) \in Nat /\ k \in Nat /\ k <= Len(s)
  BY <1>1, LoopsBelow
<1>3. TypeOf(v) \in Returned
  BY DEF Returned
<1> SUFFICES ASSUME NEW j \in (k + 2) .. Len(s) PROVE rank[s[j].orig] < rank[TypeOf(v)]
  BY <1>3
<1>4. PICK n : n = Len(s)
  OBVIOUS
<1>5. s[j].obj = s[k].obj /\ s[n].obj = s[k].obj
  BY <1>1, <1>2, <1>4 DEF Nest
<1>6. CallNests(s, n, k, defs, changes, rank) /\ n > k + 1
  BY <1>1, <1>2, <1>4 DEF CallsNest
<1>7. s[n].orig \in Returned /\ \A i \in (k + 2) .. (n - 1) : rank[s[i].orig] < rank[s[n].orig]
  BY <1>4, <1>6 DEF CallNests
<1>8. CallNests(s, j, k, defs, changes, rank) /\ j > k + 1
  BY <1>1, <1>2, <1>4 DEF CallsNest
<1>9. s[j].orig \in Returned
  BY <1>4, <1>5, <1>8 DEF CallNests
<1>10. rank[s[n].orig] < rank[TypeOf(v)]
  BY <1>4, <1>7 DEF ConversionsEnd
<1>11. rank[s[n].orig] \in Nat /\ rank[s[j].orig] \in Nat /\ rank[TypeOf(v)] \in Nat
  BY <1>3, <1>7, <1>9 DEF ConversionsEnd
<1>12. j = n \/ j \in (k + 2) .. (n - 1)
  BY <1>2, <1>4
<1>13. j = n \/ rank[s[j].orig] < rank[s[n].orig]
  BY <1>7, <1>12
<1> QED BY <1>10, <1>11, <1>13

\* More is known of the models.
MarksMore(m, n) ==
    m.held \subseteq n.held /\ m.altered \subseteq n.altered /\ (m.seen # {} => n.seen # {})

LEMMA NestedMore ==
    ASSUME NEW s, NEW k, NEW models, NEW defs, NEW changes, NEW rank,
           Nested(s, k, models, defs, changes, rank), NEW more, MarksMore(models, more)
    PROVE  Nested(s, k, more, defs, changes, rank)
<1>1. LoopsNest(s, k, models)
  BY DEF Nested
<1>2. LoopsNest(s, k, more)
  BY <1>1 DEF LoopsNest, MarksMore
<1> QED BY <1>2 DEF Nested

\* A callback that changes the hash of a model leaves it among those that are known.
LEMMA CallsMark ==
    ASSUME Digests, UNCHANGED hashes \/ Calls
    PROVE  Digests' /\ MarksMore(marks, after) /\ altered \subseteq altered'
<1>1. CASE UNCHANGED hashes
  <2>1. digest' = digest /\ altered' = altered
    BY <1>1 DEF hashes
  <2> QED BY <2>1 DEF Digests, MarksMore, marks, after
<1>2. CASE Calls
  <2>1. DOMAIN digest' = ModelObjects /\ altered \subseteq altered'
    BY <1>2 DEF Calls, Digests
  <2>2. ASSUME NEW m \in ModelObjects, <<m, digest[m].hash>> \in seen
        PROVE  m \in altered' \/ <<m, digest'[m].hash>> \in seen
    <3>1. CASE digest'[m].hash = digest[m].hash
      BY <2>2, <3>1
    <3>2. CASE digest'[m].hash # digest[m].hash
      BY <1>2, <3>2 DEF Calls, Digests
    <3> QED BY <3>1, <3>2
  <2>3. marks.held \subseteq after.held
    BY <2>1, <2>2 DEF marks, after, MarksOf
  <2>4. marks.seen = after.seen /\ marks.altered \subseteq after.altered
    BY <2>1 DEF marks, after, MarksOf
  <2> QED BY <2>1, <2>3, <2>4 DEF Digests, MarksMore
<1> QED BY <1>1, <1>2

LEMMA MarksStay ==
    ASSUME UNCHANGED hashes
    PROVE  after = marks /\ altered' = altered
BY DEF hashes, marks, after

\* The innermost loop goes on.
LEMMA NestedMoved ==
    ASSUME NEW s, NEW k, NEW models, NEW defs, NEW changes, NEW rank,
           Nested(s, k, models, defs, changes, rank), k = Len(s), k > 0,
           NEW t, Nest(t, k), Len(t) = k, \A i \in 1 .. (k - 1) : t[i] = s[i],
           t[k].obj = s[k].obj, t[k].fresh = s[k].fresh
    PROVE  Nested(t, k, models, defs, changes, rank)
<1>1. k \in Nat
  BY LoopsBelow
<1>2. \A i \in 1 .. k : t[i].obj = s[i].obj /\ t[i].fresh = s[i].fresh
  <2> TAKE i \in 1 .. k
  <2>1. i = k \/ i \in 1 .. (k - 1)
    BY <1>1
  <2> QED BY <2>1
<1>3. \A i \in 1 .. k : \A j \in (i + 1) .. k : j \in 1 .. k
  BY <1>1
<1>4. LoopsNest(t, k, models)
  BY <1>2, <1>3 DEF Nested, LoopsNest
<1>5. CallsNest(t, k, defs, changes, rank)
  BY <1>1 DEF CallsNest
<1> QED BY <1>4, <1>5 DEF Nested

\* A loop within the innermost: over no model that is known but one whose hash has changed.
LEMMA NestedLoopPushed ==
    ASSUME NEW s, NEW k, NEW models, NEW defs, NEW changes, NEW rank,
           Nested(s, k, models, defs, changes, rank), k = Len(s),
           NEW f, IsLoop(f), f.obj \in Objects, NEW more, MarksMore(models, more),
           f.obj \in ModelObjects =>
            /\ f.obj \in models.held => f.obj \in models.altered
            /\ f.obj \in more.held /\ more.seen # {},
           f.fresh => models.seen = {},
           NEW t, t = Append(s, f)
    PROVE  Nested(t, k + 1, more, defs, changes, rank)
<1>1. Nest(s, k) /\ LoopsNest(s, k, models)
  BY DEF Nested
<1>2. k \in Nat
  BY <1>1, LoopsBelow
<1>3. Nest(t, k + 1) /\ t[k + 1] = f /\ Len(t) = k + 1 /\ \A i \in 1 .. k : t[i] = s[i]
  BY <1>1, LoopPushed
<1>4. ASSUME NEW i \in 1 .. (k + 1), t[i].obj \in ModelObjects
      PROVE  /\ t[i].obj \in more.held /\ more.seen # {}
             /\ \A j \in (i + 1) .. (k + 1) :
                   ~t[j].fresh /\ (t[j].obj = t[i].obj => t[i].obj \in more.altered)
  <2>1. CASE i = k + 1
    <3>1. \A j \in (i + 1) .. (k + 1) : FALSE
      BY <1>2, <2>1
    <3> QED BY <1>3, <1>4, <2>1, <3>1
  <2>2. CASE i \in 1 .. k
    <3>1. t[i] = s[i] /\ s[i].obj \in ModelObjects
      BY <1>3, <1>4, <2>2
    <3>2. /\ s[i].obj \in models.held /\ models.seen # {}
          /\ \A j \in (i + 1) .. k :
                ~s[j].fresh /\ (s[j].obj = s[i].obj => s[i].obj \in models.altered)
      BY <1>1, <2>2, <3>1 DEF LoopsNest
    <3>4. models.held \subseteq more.held /\ models.altered \subseteq more.altered /\ more.seen # {}
      BY <3>2 DEF MarksMore
    <3>3. ASSUME NEW j \in (i + 1) .. (k + 1)
          PROVE  ~t[j].fresh /\ (t[j].obj = t[i].obj => t[i].obj \in more.altered)
      <4>1. CASE j = k + 1
        BY <1>3, <3>1, <3>2, <3>4, <4>1
      <4>2. CASE j \in (i + 1) .. k
        <5>1. t[j] = s[j]
          BY <1>2, <1>3, <2>2, <4>2
        <5> QED BY <3>1, <3>2, <3>4, <4>2, <5>1
      <4>3. j = k + 1 \/ j \in (i + 1) .. k
        BY <1>2, <2>2, <3>3
      <4> QED BY <4>1, <4>2, <4>3
    <3> QED BY <3>1, <3>2, <3>3, <3>4
  <2> QED BY <1>2, <2>1, <2>2
<1>5. LoopsNest(t, k + 1, more)
  BY <1>4 DEF LoopsNest
<1>6. CallsNest(t, k + 1, defs, changes, rank)
  BY <1>2, <1>3 DEF CallsNest
<1> QED BY <1>3, <1>5, <1>6 DEF Nested

LEMMA NestedEmpty ==
    ASSUME NEW models, NEW defs, NEW changes, NEW rank
    PROVE  Nested(<<>>, 0, models, defs, changes, rank)
BY NoCalls DEF Nested, LoopsNest, CallsNest

LEMMA NestedRaise ==
    ASSUME NEW f, NEW k, NEW defs, NEW changes, NEW rank,
           Nested(f, k, after, defs, changes, rank), Raise(f)
    PROVE  \E j : Nested(stack', j, marks', defs, changes, rank)
<1>1. Nest(f, k)
  BY DEF Nested
<1>4. PICK m : m = after
  OBVIOUS
<1> DEFINE tolerant == {i \in DOMAIN f : f[i].what = "loc" /\ f[i].tolerant}
<1>2. CASE tolerant = {}
  <2>1. stack' = <<>>
    BY <1>2 DEF Raise
  <2>2. PICK n : n = marks'
    OBVIOUS
  <2>3. Nested(stack', 0, n, defs, changes, rank)
    BY <2>1, NestedEmpty
  <2> QED BY <2>2, <2>3
<1>3. CASE tolerant # {}
  <2>1. PICK i \in tolerant : stack' = SubSeq(f, 1, i)
    BY <1>3 DEF Raise
  <2>2. i \in 1 .. Len(f) /\ f[i].what = "loc"
    BY <1>1, ListDomain DEF Nest
  <2>3. i \in k .. Len(f)
    BY <1>1, <2>2, LoopsBelow
  <2>4. seen' = seen
    BY <1>3 DEF Raise
  <2>5. marks' = m
    BY <1>4, <2>4 DEF marks, after
  <2>6. Nested(f, k, m, defs, changes, rank)
    BY <1>4
  <2>7. PICK t : t = stack'
    OBVIOUS
  <2>8. Nested(t, k, m, defs, changes, rank)
    BY <2>1, <2>3, <2>6, <2>7, NestedCut
  <2> QED BY <2>5, <2>7, <2>8
<1> QED BY <1>2, <1>3

LEMMA NestedPush ==
    ASSUME DeepEnough, NEW rank, ConversionsEnd(rank), NEW f, NEW k, NEW defs,
           Nested(f, k, after, defs, config.typeChanges, rank),
           NEW g, NEW models, NEW j, NEW more, more = MarksOf(models, digest', altered'),
           Nested(Append(f, g), j, more, defs, config.typeChanges, rank),
           Push(f, g, models), overflow # <<>> => Explained(overflow, config, altered')
    PROVE  /\ \E i : Nested(stack', i, marks', defs, config.typeChanges, rank)
           /\ overflow' # <<>> => Explained(overflow', config, altered')
<1>1. CASE Len(f) < MaxDepth
  <2>1. stack' = Append(f, g) /\ seen' = models /\ overflow' = overflow
    BY <1>1 DEF Push
  <2>2. marks' = more
    BY <2>1 DEF marks
  <2> QED BY <2>1, <2>2
<1>2. CASE ~(Len(f) < MaxDepth)
  <2>1. Raise(f) /\ overflow' = f
    BY <1>2 DEF Push
  <2>2. Explained(f, config, altered')
    <3>1. PICK m : m = after
      OBVIOUS
    <3>2. m.altered = altered'
      BY <3>1 DEF after, MarksOf
    <3>3. PICK conf : conf = config
      OBVIOUS
    <3>4. Nested(f, k, m, defs, conf.typeChanges, rank)
      BY <3>1, <3>3
    <3>5. Explained(f, conf, m.altered)
      BY <1>2, <3>4, DeepExplained
    <3> QED BY <3>2, <3>3, <3>5
  <2>3. PICK changes : changes = config.typeChanges
    OBVIOUS
  <2>4. \E i : Nested(stack', i, marks', defs, changes, rank)
    BY <2>1, <2>3, NestedRaise
  <2> QED BY <2>1, <2>2, <2>3, <2>4
<1> QED BY <1>1, <1>2

-----------------------------------------------------------------------------
(* Every step keeps it *)

\* What a step of a traversal in progress leaves.
DepthNext(rank) ==
    /\ UNCHANGED <<config, mapping>>
    /\ \E j : Nested(stack', j, marks', mapping, config.typeChanges, rank)
    /\ overflow' # <<>> => Explained(overflow', config, altered')

LEMMA DepthFollows ==
    ASSUME NEW CONSTANT rank, Depth(rank), DepthNext(rank)
    PROVE  Depth(rank)'
BY DEF Depth, DepthNext

LEMMA InitDepth ==
    ASSUME NEW CONSTANT rank, Init
    PROVE  Depth(rank)
<1>1. mapping = <<>> /\ stack = <<>> /\ overflow = <<>>
  BY DEF Init
<1>2. Nested(stack, 0, marks, mapping, config.typeChanges, rank)
  BY <1>1, NestedEmpty
<1> QED BY <1>1, <1>2 DEF Depth

LEMMA InitDigests == Init => Digests
BY InputsAssumption DEF Init, Digests, ModelObjects

LEMMA NextDigests ==
    ASSUME Digests, [Next]_vars
    PROVE  Digests'
<1>1. CASE UNCHANGED hashes
  BY <1>1 DEF hashes, Digests
<1>2. CASE Calls
  BY <1>2 DEF Calls, Digests
<1>3. CASE UNCHANGED vars
  BY <1>1, <1>3 DEF vars
<1>4. CASE \E d \in Definitions : Register(d)
  BY <1>1, <1>4 DEF Register
<1>5. CASE Start \/ NextLoc \/ KeysChanged \/ EndLoop \/ Descend \/ NotFound
  BY <1>1, <1>5 DEF Start, NextLoc, KeysChanged, EndLoop, Descend, NotFound
<1>6. CASE Filtered \/ Vanished \/ Misdefined \/ EndLoc
  BY <1>1, <1>6 DEF Filtered, Vanished, Misdefined, EndLoc
<1>7. CASE Returns \/ Observes \/ Removes \/ Inserts \/ Fails \/ Breaks
  BY <1>2, <1>7 DEF Returns, Observes, Removes, Inserts, Fails, Breaks, Called
<1> QED BY <1>3, <1>4, <1>5, <1>6, <1>7 DEF Next

LEMMA RegisterDepth ==
    ASSUME NEW CONSTANT rank, DepthInv(rank), NEW d \in Definitions, Register(d)
    PROVE  Depth(rank)'
<1>1. /\ mapping \in Seq(Registrable) /\ d \in Registrable
      /\ UNCHANGED <<config, stack, overflow, altered>> /\ stack = <<>>
  BY DEF DepthInv, Depth, Register, Registrable, CompleteInv, Machine, setup, outcomes, hashes
<1> DEFINE same == {i \in DOMAIN mapping : mapping[i].type = d.type}
<1>2. mapping' = IF same = {} THEN Append(mapping, d)
                 ELSE InsertAt(mapping, Max(same) + 1, d)
  BY DEF Register
<1>3. Len(mapping) \in Nat /\ same \subseteq 1 .. Len(mapping)
  BY <1>1
<1>4. mapping' \in Seq(Registrable)
  <2>1. CASE same = {}
    BY <1>1, <1>2, <2>1
  <2>2. CASE same # {}
    <3>1. \E x \in same : \A y \in same : y <= x
      BY <1>3, <2>2, LastOf
    <3>2. \E x \in same : \A y \in same : x >= y
      BY <1>3, <3>1
    <3>3. Max(same) \in same
      BY <3>2 DEF Max
    <3>4. PICK m : m = Max(same) + 1
      OBVIOUS
    <3>5. m \in 2 .. (Len(mapping) + 1)
      BY <1>3, <3>3, <3>4
    <3>6. /\ SubSeq(mapping, 1, m - 1) \in Seq(Registrable)
          /\ SubSeq(mapping, m, Len(mapping)) \in Seq(Registrable)
          /\ <<d>> \in Seq(Registrable)
      BY <1>1, <1>3, <3>5
    <3>7. InsertAt(mapping, m, d) \in Seq(Registrable)
      BY <3>6 DEF InsertAt
    <3> QED BY <1>2, <2>2, <3>4, <3>7
  <2> QED BY <2>1, <2>2
<1>5. Nested(stack', 0, marks', mapping', config'.typeChanges, rank)
  <2>1. PICK m, defs, changes : m = marks' /\ defs = mapping' /\ changes = config'.typeChanges
    OBVIOUS
  <2>2. Nested(<<>>, 0, m, defs, changes, rank)
    BY NestedEmpty
  <2> QED BY <1>1, <2>1, <2>2
<1>6. overflow' # <<>> => Explained(overflow', config', altered')
  BY <1>1 DEF DepthInv, Depth
<1> QED BY <1>4, <1>5, <1>6 DEF Depth

\* More changes of hashes explain as much.
LEMMA ExplainedMore ==
    ASSUME NEW f, NEW conf, NEW changed, Explained(f, conf, changed),
           NEW more, changed \subseteq more
    PROVE  Explained(f, conf, more)
BY DEF Explained

LEMMA StartDepth ==
    ASSUME NEW CONSTANT rank, DepthInv(rank), Start
    PROVE  DepthNext(rank)
<1>1. /\ UNCHANGED <<config, mapping, overflow, digest, altered>> /\ root \in Objects
      /\ overflow # <<>> => Explained(overflow, config, altered)
  BY DEF Start, DepthInv, Depth, CompleteInv, Machine, setup, outcomes, hashes
<1> DEFINE g == LoopOver(root, Kind[root] = "model")
<1>2. IsLoop(g) /\ g.obj = root
  BY NewLoop
<1>3. stack' = Append(<<>>, g)
  <2>1. stack' = <<LoopOver(root, Kind[root] = "model")>>
    BY DEF Start, LoopOver
  <2> HIDE DEF g
  <2> QED BY <2>1 DEF g
<1> HIDE DEF g
<1>4. PICK s, k, models, more :
        /\ s = <<>> /\ k = 0 /\ models = [seen |-> {}, held |-> {}, altered |-> {}]
        /\ more = marks'
  OBVIOUS
<1>5. Nested(s, k, models, mapping, config.typeChanges, rank) /\ k = Len(s)
  BY <1>4, NestedEmpty, NoCalls
<1>8. root \in ModelObjects => root \in more.held /\ more.seen # {}
  <2> SUFFICES ASSUME root \in ModelObjects PROVE root \in more.held /\ more.seen # {}
    OBVIOUS
  <2>1. seen' = {<<root, digest'[root].hash>>}
    BY <1>1 DEF Start, ModelObjects
  <2> QED BY <1>4, <2>1 DEF marks, MarksOf
<1>9. MarksMore(models, more)
  BY <1>4 DEF MarksMore
<1>6. Nested(stack', k + 1, more, mapping, config.typeChanges, rank)
  <2>1. PICK t, changes : t = Append(s, g) /\ changes = config.typeChanges
    OBVIOUS
  <2>2. /\ g.obj \in Objects
        /\ g.obj \in ModelObjects =>
            /\ g.obj \in models.held => g.obj \in models.altered
            /\ g.obj \in more.held /\ more.seen # {}
        /\ g.fresh => models.seen = {}
    BY <1>1, <1>2, <1>4, <1>8
  <2>3. Nested(s, k, models, mapping, changes, rank)
    BY <1>5, <2>1
  <2>4. Nested(t, k + 1, more, mapping, changes, rank)
    BY <1>2, <1>5, <1>9, <2>1, <2>2, <2>3, NestedLoopPushed
  <2> QED BY <1>3, <1>4, <2>1, <2>4
<1>7. Nested(stack', k + 1, marks', mapping, config.typeChanges, rank)
  BY <1>4, <1>6
<1> QED BY <1>1, <1>7 DEF DepthNext

\* The stack of a traversal in progress, when the callback has been called, if one is.
LEMMA Underway ==
    ASSUME NEW CONSTANT rank, DepthInv(rank), status = "running", UNCHANGED hashes \/ Calls
    PROVE  /\ \E k : /\ Nested(stack, k, after, mapping, config.typeChanges, rank)
                     /\ Nest(stack, k)
           /\ stack # <<>> /\ Machine /\ Contents(content)
           /\ mapping \in Seq(Registrable)
           /\ overflow # <<>> => Explained(overflow, config, altered')
<1>1. MarksMore(marks, after) /\ altered \subseteq altered'
  BY CallsMark DEF DepthInv
<1>2. PICK k : Nested(stack, k, marks, mapping, config.typeChanges, rank)
  BY DEF DepthInv, Depth
<1>3. Nested(stack, k, after, mapping, config.typeChanges, rank) /\ Nest(stack, k)
  <2>1. PICK m, n, changes : m = marks /\ n = after /\ changes = config.typeChanges
    OBVIOUS
  <2>2. Nested(stack, k, m, mapping, changes, rank) /\ MarksMore(m, n)
    BY <1>1, <1>2, <2>1
  <2>3. Nested(stack, k, n, mapping, changes, rank)
    BY <2>2, NestedMore
  <2> QED BY <2>1, <2>3 DEF Nested
<1>4. overflow # <<>> => Explained(overflow, config, altered')
  <2>1. PICK more : more = altered'
    OBVIOUS
  <2>2. overflow # <<>> => Explained(overflow, config, altered)
    BY DEF DepthInv, Depth
  <2> QED BY <1>1, <2>1, <2>2, ExplainedMore
<1> QED BY <1>3, <1>4 DEF DepthInv, Depth, CompleteInv, Machine

LEMMA SetStays == UNCHANGED seen => marks' = after
BY DEF marks, after

\* The callbacks of a new call are for its type.
LEMMA CallbacksHandle ==
    ASSUME NEW type
    PROVE  \A p \in CallbacksFor(type) : p \in DOMAIN mapping /\ Handles(mapping[p], type)
BY DEF CallbacksFor, Matches, Handles

LEMMA NextLocDepth ==
    ASSUME DeepEnough, NEW CONSTANT rank, ConversionsEnd(rank), DepthInv(rank), NextLoc
    PROVE  DepthNext(rank)
<1>1. status = "running" /\ Top.what = "iter" /\ UNCHANGED <<config, mapping, hashes>>
  BY DEF NextLoc, Looping, setup
<1>2. PICK k : /\ Nested(stack, k, after, mapping, config.typeChanges, rank)
               /\ Nest(stack, k)
  BY <1>1, Underway
<1>3. stack # <<>> /\ (overflow # <<>> => Explained(overflow, config, altered')) /\ Machine
  BY <1>1, Underway
<1>4. k \in Nat /\ k = Len(stack) /\ k > 0 /\ Top = stack[k] /\ IsLoop(Top)
      /\ Top.obj \in Objects
  BY <1>1, <1>2, <1>3, TopLoop
<1>5. PICK loc, at :
        /\ loc \in Top.left
        /\ at = loc \/ at \in DOMAIN content[Top.obj]
        /\ LET obj == Top.obj
               frames == Replaced([Top EXCEPT !.left = Remaining(loc), !.at = at])
           IN IF at \in DOMAIN content[obj]
              THEN Push(frames, LocFrame(obj, at, content), seen)
              ELSE stack' = frames /\ UNCHANGED <<seen, status, failed, overflow>>
  BY DEF NextLoc
<1>15. PICK rest : rest = Top.left \ {loc}
  OBVIOUS
<1>16. PICK f : f = WithEnd(stack, WithPlaces(Top, rest, at))
  OBVIOUS
<1> DEFINE g == LocFrame(Top.obj, at, content)
<1>6. Push(f, g, seen) \/ (stack' = f /\ UNCHANGED <<seen, overflow>>)
  <2>1. f = Replaced([Top EXCEPT !.left = Remaining(loc), !.at = at])
    BY <1>15, <1>16 DEF WithEnd, WithPlaces, Replaced, Remaining
  <2> QED BY <1>5, <2>1
<1>7. /\ Nest(f, k) /\ Len(f) = k /\ \A i \in 1 .. (k - 1) : f[i] = stack[i]
      /\ f[k].obj = Top.obj /\ f[k].at = at /\ f[k].fresh = Top.fresh
  BY <1>2, <1>4, <1>16, LocTaken
<1> DEFINE type == TypeOf(content[Top.obj][at])
<1>8. IsCall(g) /\ g.obj = Top.obj /\ g.loc = at /\ g.orig = type
      /\ g.callbacks = CallbacksFor(type)
  BY NewCall
<1>9. \A p \in g.callbacks : p \in DOMAIN mapping /\ Handles(mapping[p], g.orig)
  <2> HIDE DEF g, type
  <2> QED BY <1>8, CallbacksHandle
<1> HIDE DEF g
<1>10. Nested(f, k, after, mapping, config.typeChanges, rank)
  <2>1. PICK m, changes : m = after /\ changes = config.typeChanges
    OBVIOUS
  <2>2. Nested(stack, k, m, mapping, changes, rank)
    BY <1>2, <2>1
  <2>3. Nested(f, k, m, mapping, changes, rank)
    BY <1>4, <1>7, <2>2, NestedMoved
  <2> QED BY <2>1, <2>3
<1>11. at # None
  <2>1. k \in 1 .. Len(stack)
    BY <1>4
  <2>2. LoopRight(stack[k], content, grown)
    BY <1>1, <1>3, <1>4, <2>1 DEF Machine
  <2>3. loc # None
    BY <1>4, <1>5, <2>2 DEF LoopRight
  <2>4. None \notin DOMAIN content[Top.obj]
    BY <1>3, <1>4 DEF Machine, Contents
  <2> QED BY <1>5, <2>3, <2>4
<1>17. PICK more : more = MarksOf(seen, digest', altered')
  OBVIOUS
<1>12. Nested(Append(f, g), k, more, mapping, config.typeChanges, rank)
  <2>1. /\ k > 0 /\ f[k].at # None /\ IsCall(g) /\ g.obj = f[k].obj /\ g.loc = f[k].at
        /\ ~(k < Len(f))
    BY <1>4, <1>7, <1>8, <1>11
  <2>2. PICK changes, t : changes = config.typeChanges /\ t = Append(f, g)
    OBVIOUS
  <2>4. Nested(f, k, more, mapping, changes, rank)
    BY <1>10, <1>17, <2>2 DEF after
  <2>3. Nested(t, k, more, mapping, changes, rank)
    BY <1>9, <2>1, <2>2, <2>4, NestedCallPushed
  <2> QED BY <2>2, <2>3
<1>13. CASE Push(f, g, seen)
  <2>1. /\ \E i : Nested(stack', i, marks', mapping, config.typeChanges, rank)
        /\ overflow' # <<>> => Explained(overflow', config, altered')
    BY <1>3, <1>10, <1>12, <1>13, <1>17, NestedPush
  <2> QED BY <1>1, <2>1 DEF DepthNext
<1>14. CASE stack' = f /\ UNCHANGED <<seen, overflow>>
  BY <1>1, <1>3, <1>10, <1>14, SetStays DEF DepthNext
<1> QED BY <1>6, <1>13, <1>14

LEMMA KeysChangedDepth ==
    ASSUME NEW CONSTANT rank, DepthInv(rank), KeysChanged
    PROVE  DepthNext(rank)
<1>1. status = "running" /\ Raise(stack) /\ UNCHANGED <<config, mapping, overflow, hashes>>
  BY DEF KeysChanged, Looping, setup
<1>2. PICK k : Nested(stack, k, after, mapping, config.typeChanges, rank)
  BY <1>1, Underway
<1>3. overflow # <<>> => Explained(overflow, config, altered')
  BY <1>1, Underway
<1> QED BY <1>1, <1>2, <1>3, NestedRaise DEF DepthNext

\* A loop that ends, whatever calls are above it.
LEMMA LeaveDepth ==
    ASSUME NEW CONSTANT rank, NEW k, k > 0,
           Nested(stack, k, after, mapping, config.typeChanges, rank),
           NEW f, f = SubSeq(stack, 1, k), Leave(f)
    PROVE  \E j : Nested(stack', j, marks', mapping, config.typeChanges, rank)
<1>1. Nest(stack, k)
  BY DEF Nested
<1>2. Len(stack) \in Nat /\ k \in Nat /\ k <= Len(stack) /\ k \in k .. Len(stack)
  BY <1>1, LoopsBelow
<1>3. Nested(f, k, after, mapping, config.typeChanges, rank) /\ Len(f) = k
  <2>1. PICK changes, m : changes = config.typeChanges /\ m = after
    OBVIOUS
  <2>2. Nested(stack, k, m, mapping, changes, rank)
    BY <2>1
  <2>3. Nested(f, k, m, mapping, changes, rank) /\ Len(f) = k
    BY <2>2, NestedLoops
  <2> QED BY <2>1, <2>3
<1>4. f # <<>>
  BY <1>2, <1>3, NoCalls
<1>5. stack' = SubSeq(f, 1, k - 1)
  BY <1>3, <1>4, FrontOf DEF Leave, Nested, Nest
<1>6. seen' = IF f[k].fresh THEN {} ELSE seen
  BY <1>3 DEF Leave, Last
<1>7. PICK t, m, left, changes :
        t = stack' /\ m = after /\ left = marks' /\ changes = config.typeChanges
  OBVIOUS
<1>8. ~f[k].fresh => left = m
  BY <1>6, <1>7, SetStays
<1>9. Nested(f, k, m, mapping, changes, rank) /\ t = SubSeq(f, 1, k - 1)
  BY <1>3, <1>5, <1>7
<1>10. Nested(t, k - 1, left, mapping, changes, rank)
  BY <1>8, <1>9, NestedPopped
<1> QED BY <1>7, <1>10

LEMMA EndLoopDepth ==
    ASSUME NEW CONSTANT rank, DepthInv(rank), EndLoop
    PROVE  DepthNext(rank)
<1>1. status = "running" /\ Top.what = "iter" /\ Leave(stack)
      /\ UNCHANGED <<config, mapping, overflow, hashes>>
  BY DEF EndLoop, Looping, setup, outcomes
<1>2. PICK k : /\ Nested(stack, k, after, mapping, config.typeChanges, rank)
               /\ Nest(stack, k)
  BY <1>1, Underway
<1>3. stack # <<>> /\ (overflow # <<>> => Explained(overflow, config, altered'))
  BY <1>1, Underway
<1>4. k \in Nat /\ k = Len(stack) /\ k > 0
  BY <1>1, <1>2, <1>3, TopLoop
<1>5. stack = SubSeq(stack, 1, k)
  <2>1. PICK S : stack \in Seq(S)
    BY <1>2 DEF Nest, IsSeq
  <2> QED BY <1>4, <2>1
<1>6. \E j : Nested(stack', j, marks', mapping, config.typeChanges, rank)
  BY <1>1, <1>2, <1>4, <1>5, LeaveDepth
<1> QED BY <1>1, <1>3, <1>6 DEF DepthNext

LEMMA BreaksDepth ==
    ASSUME NEW CONSTANT rank, DepthInv(rank), Breaks
    PROVE  DepthNext(rank)
<1>1. status = "running" /\ Top.what = "loc" /\ UNCHANGED <<config, mapping, overflow>>
      /\ Calls
  BY DEF Breaks, Called, Calling, setup
<1>2. PICK k : /\ Nested(stack, k, after, mapping, config.typeChanges, rank)
               /\ Nest(stack, k)
  BY <1>1, Underway
<1>3. stack # <<>> /\ (overflow # <<>> => Explained(overflow, config, altered'))
  BY <1>1, Underway
<1>4. k \in Nat /\ k > 0 /\ k < Len(stack) /\ Len(stack) \in Nat
  BY <1>1, <1>2, <1>3, TopCall
<1> DEFINE loops == {i \in DOMAIN stack : stack[i].what = "iter"}
<1>5. PICK i \in loops : (\A j \in loops : j <= i) /\ Leave(SubSeq(stack, 1, i))
  BY DEF Breaks
<1>6. DOMAIN stack = 1 .. Len(stack)
  BY <1>2, ListDomain DEF Nest
<1>7. loops = 1 .. k
  BY <1>2, <1>4, <1>6, LoopsBelow
<1>8. i = k
  BY <1>4, <1>5, <1>7
<1>9. \E j : Nested(stack', j, marks', mapping, config.typeChanges, rank)
  BY <1>2, <1>4, <1>5, <1>8, LeaveDepth
<1> QED BY <1>1, <1>3, <1>9 DEF DepthNext

\* The innermost loop, done with a location, is as nested as it was.
LEMMA LocLeftNested ==
    ASSUME NEW CONSTANT rank, DepthInv(rank), status = "running", Top.what = "iter",
           UNCHANGED hashes, NEW f, f = WithEnd(stack, WithoutPlace(Top))
    PROVE  \E k : Nested(f, k, after, mapping, config.typeChanges, rank) /\ k = Len(f)
<1>1. PICK k : /\ Nested(stack, k, after, mapping, config.typeChanges, rank)
               /\ Nest(stack, k)
  BY Underway
<1>2. stack # <<>>
  BY Underway
<1>3. k \in Nat /\ k = Len(stack) /\ k > 0 /\ Top = stack[k] /\ IsLoop(Top)
  BY <1>1, <1>2, TopLoop
<1>4. /\ Nest(f, k) /\ Len(f) = k /\ \A i \in 1 .. (k - 1) : f[i] = stack[i]
      /\ f[k].obj = stack[k].obj /\ f[k].fresh = stack[k].fresh
  BY <1>1, <1>3, LocLeft
<1>5. Nested(f, k, after, mapping, config.typeChanges, rank)
  <2>1. PICK m, changes : m = after /\ changes = config.typeChanges
    OBVIOUS
  <2>2. Nested(stack, k, m, mapping, changes, rank)
    BY <1>1, <2>1
  <2>3. Nested(f, k, m, mapping, changes, rank)
    BY <1>3, <1>4, <2>2, NestedMoved
  <2> QED BY <2>1, <2>3
<1> QED BY <1>4, <1>5

LEMMA DescendDepth ==
    ASSUME DeepEnough, NEW CONSTANT rank, ConversionsEnd(rank), DepthInv(rank), Descend
    PROVE  DepthNext(rank)
<1>1. status = "running" /\ Top.what = "iter" /\ UNCHANGED <<config, mapping, hashes>>
  BY DEF Descend, Looping, setup
<1>2. overflow # <<>> => Explained(overflow, config, altered')
  BY <1>1, Underway
<1> DEFINE item == content[Top.obj][Top.at]
           g == LoopOver(item, Kind[item] = "model" /\ seen = {})
<1>8. PICK f : f = WithEnd(stack, WithoutPlace(Top))
  OBVIOUS
<1>3. f = Replaced([Top EXCEPT !.at = None])
  BY <1>8 DEF WithEnd, WithoutPlace, Replaced
<1>4. PICK k : Nested(f, k, after, mapping, config.typeChanges, rank) /\ k = Len(f)
  BY <1>1, <1>8, LocLeftNested
<1>5. IF IsProcessable(Top.obj, item) THEN Push(f, g, Models(item))
      ELSE stack' = f /\ UNCHANGED <<seen, overflow>>
  BY <1>3 DEF Descend, LoopOver
<1>6. CASE IsProcessable(Top.obj, item)
  <2>1. item \in Objects /\ (Kind[item] = "model" => Known(item) = {})
    BY <1>6 DEF IsProcessable
  <2>2. IsLoop(g) /\ g.obj = item /\ (g.fresh => seen = {})
    <3>1. PICK b, o : b = (Kind[item] = "model" /\ seen = {}) /\ o = item
      OBVIOUS
    <3>2. g = LoopOver(o, b)
      BY <3>1
    <3> HIDE DEF g
    <3>3. IsLoop(g) /\ g.obj = o /\ g.fresh = b
      BY <3>2, NewLoop
    <3> QED BY <3>1, <3>3
  <2>3. Push(f, g, Models(item))
    BY <1>5, <1>6
  <2>10. PICK o, h : o = item /\ h = g
    OBVIOUS
  <2>11. IsLoop(h) /\ h.obj = o /\ (h.fresh => seen = {}) /\ Push(f, h, Models(o))
         /\ o \in Objects /\ (Kind[o] = "model" => Known(o) = {})
    BY <2>1, <2>2, <2>3, <2>10
  <2> HIDE DEF g, item
  <2>12. DOMAIN digest = ModelObjects /\ digest' = digest /\ altered' = altered
    BY <1>1 DEF DepthInv, Digests, hashes
  <2>4. PICK more, models :
          more = MarksOf(Models(o), digest', altered') /\ models = after
    OBVIOUS
  <2>5. /\ models.seen = seen /\ models.altered = altered
        /\ models.held = altered \cup {m \in ModelObjects : <<m, digest[m].hash>> \in seen}
        /\ more.seen = Models(o) /\ more.altered = altered
        /\ more.held = altered \cup {m \in ModelObjects : <<m, digest[m].hash>> \in Models(o)}
    BY <2>4, <2>12 DEF after, MarksOf
  <2>13. seen \subseteq Models(o)
    BY DEF Models
  <2>14. MarksMore(models, more)
    BY <2>5, <2>13 DEF MarksMore
  <2>15. ASSUME o \in ModelObjects
         PROVE  /\ o \in models.held => o \in models.altered
                /\ o \in more.held /\ more.seen # {}
    <3>1. Kind[o] = "model" /\ Known(o) = {}
      BY <2>11, <2>15 DEF ModelObjects
    <3>2. <<o, digest[o].hash>> \notin seen
      BY <2>12, <2>15, <3>1 DEF Known
    <3>3. <<o, digest[o].hash>> \in Models(o)
      BY <3>1 DEF Models
    <3> QED BY <2>5, <2>15, <3>2, <3>3
  <2>6. PICK changes, t : changes = config.typeChanges /\ t = Append(f, h)
    OBVIOUS
  <2>7. Nested(t, k + 1, more, mapping, changes, rank)
    <3>1. Nested(f, k, models, mapping, changes, rank) /\ k = Len(f)
      BY <1>4, <2>4, <2>6
    <3>2. /\ h.obj \in Objects
          /\ h.obj \in ModelObjects =>
              /\ h.obj \in models.held => h.obj \in models.altered
              /\ h.obj \in more.held /\ more.seen # {}
          /\ h.fresh => models.seen = {}
      BY <2>5, <2>11, <2>15
    <3> QED BY <2>6, <2>11, <2>14, <3>1, <3>2, NestedLoopPushed
  <2>8. Nested(Append(f, h), k + 1, more, mapping, config.typeChanges, rank)
    BY <2>6, <2>7
  <2>9. PICK new : new = Models(o)
    OBVIOUS
  <2>16. Push(f, h, new) /\ more = MarksOf(new, digest', altered')
    BY <2>4, <2>9, <2>11
  <2>17. /\ \E i : Nested(stack', i, marks', mapping, config.typeChanges, rank)
         /\ overflow' # <<>> => Explained(overflow', config, altered')
    BY <1>2, <1>4, <2>8, <2>16, NestedPush
  <2> QED BY <1>1, <2>17 DEF DepthNext
<1>7. CASE ~IsProcessable(Top.obj, item)
  BY <1>1, <1>2, <1>4, <1>5, <1>7, SetStays DEF DepthNext
<1> QED BY <1>6, <1>7

LEMMA NotFoundDepth ==
    ASSUME NEW CONSTANT rank, DepthInv(rank), NotFound
    PROVE  DepthNext(rank)
<1>1. status = "running" /\ Top.what = "iter" /\ UNCHANGED <<config, mapping, overflow, hashes>>
  BY DEF NotFound, Looping, setup
<1>2. overflow # <<>> => Explained(overflow, config, altered')
  BY <1>1, Underway
<1>8. PICK f : f = WithEnd(stack, WithoutPlace(Top))
  OBVIOUS
<1>3. f = Replaced([Top EXCEPT !.at = None])
  BY <1>8 DEF WithEnd, WithoutPlace, Replaced
<1>4. PICK k : Nested(f, k, after, mapping, config.typeChanges, rank)
  BY <1>1, <1>8, LocLeftNested
<1>5. (stack' = f /\ UNCHANGED seen) \/ Raise(stack)
  BY <1>3 DEF NotFound
<1>6. CASE Raise(stack)
  <2>1. PICK i : Nested(stack, i, after, mapping, config.typeChanges, rank)
    BY <1>1, Underway
  <2> QED BY <1>1, <1>2, <1>6, <2>1, NestedRaise DEF DepthNext
<1>7. CASE stack' = f /\ UNCHANGED seen
  BY <1>1, <1>2, <1>4, <1>7, SetStays DEF DepthNext
<1> QED BY <1>5, <1>6, <1>7

\* A callback of the innermost call has been called, or passed over.
LEMMA CalledNested ==
    ASSUME NEW CONSTANT rank, DepthInv(rank), status = "running", Top.what = "loc",
           UNCHANGED hashes \/ Calls, NEW b, NEW f, f = AfterCall(b)
    PROVE  \E k : /\ Nested(f, k, after, mapping, config.typeChanges, rank)
                  /\ k \in Nat /\ k > 0 /\ k < Len(f) /\ f[Len(f)].obj = Top.obj
                  /\ f[Len(f)].orig = Top.orig /\ f[k].obj = Top.obj
                  /\ f[k].at = Top.loc /\ f[k].at # None
<1>1. PICK k : /\ Nested(stack, k, after, mapping, config.typeChanges, rank)
               /\ Nest(stack, k)
  BY Underway
<1>2. stack # <<>>
  BY Underway
<1>3. PICK n : n = Len(stack)
  OBVIOUS
<1>4. /\ k \in Nat /\ k > 0 /\ k < n /\ Top = stack[n]
      /\ Top.obj = stack[k].obj /\ Top.loc = stack[k].at /\ stack[k].at # None
  BY <1>1, <1>2, <1>3, TopCall DEF Top
<1>5. /\ SameLoops(stack, f, k) /\ Len(f) = n
      /\ \A i \in 1 .. n : i # n => f[i] = stack[i]
      /\ f[n].obj = Top.obj /\ f[n].orig = Top.orig
      /\ f[n].callbacks = Top.callbacks \ {NextCall}
  BY <1>1, <1>2, <1>3, AfterCallKeeps
<1>6. Nested(f, k, after, mapping, config.typeChanges, rank)
  <2>1. PICK changes, m : changes = config.typeChanges /\ m = after
    OBVIOUS
  <2>2. Nested(stack, k, m, mapping, changes, rank)
    BY <1>1, <2>1
  <2>3. f[n].obj = stack[n].obj /\ f[n].orig = stack[n].orig
        /\ f[n].callbacks \subseteq stack[n].callbacks
    BY <1>4, <1>5
  <2>4. Nested(f, k, m, mapping, changes, rank)
    BY <1>3, <1>4, <1>5, <2>2, <2>3, NestedCalled
  <2> QED BY <2>1, <2>4
<1>7. f[k] = stack[k]
  BY <1>4, <1>5 DEF SameLoops
<1> QED BY <1>4, <1>5, <1>6, <1>7

\* The definition called is one that was registered, for the type of the call.
LEMMA CalleeHandles ==
    ASSUME NEW CONSTANT rank, DepthInv(rank), Calling, UNCHANGED hashes \/ Calls
    PROVE  Callee \in Registrable /\ Handles(Callee, Top.orig)
<1>1. status = "running" /\ Top.what = "loc" /\ Top.callbacks # {}
  BY DEF Calling
<1>2. PICK k : /\ Nested(stack, k, after, mapping, config.typeChanges, rank)
               /\ Nest(stack, k)
  BY <1>1, Underway
<1>3. stack # <<>> /\ mapping \in Seq(Registrable)
  BY <1>1, Underway
<1>4. PICK n : n = Len(stack)
  OBVIOUS
<1>5. n \in (k + 1) .. Len(stack) /\ Top = stack[n]
  BY <1>1, <1>2, <1>3, <1>4, TopCall DEF Top
<1>6. \A p \in Top.callbacks : p \in DOMAIN mapping /\ Handles(mapping[p], Top.orig)
  <2>1. PICK changes, m : changes = config.typeChanges /\ m = after
    OBVIOUS
  <2>3. Nested(stack, k, m, mapping, changes, rank)
    BY <1>2, <2>1
  <2>2. CallNests(stack, n, k, mapping, changes, rank)
    BY <1>5, <2>3 DEF Nested, CallsNest
  <2> QED BY <1>5, <2>2 DEF CallNests
<1>7. DOMAIN mapping \subseteq Nat /\ \A p \in DOMAIN mapping : mapping[p] \in Registrable
  BY <1>3
<1>8. Top.callbacks \subseteq Nat
  BY <1>6, <1>7
<1>9. \E i \in Top.callbacks : \A j \in Top.callbacks : i <= j
  BY <1>1, <1>8, FirstOf
<1>10. NextCall \in Top.callbacks
  BY <1>9 DEF NextCall
<1> QED BY <1>6, <1>7, <1>10 DEF Callee

LEMMA PutThere ==
    ASSUME NEW c, Contents(c), NEW o \in Objects, NEW l, NEW v
    PROVE  Put(c, o, l, v)[o][l] = v
<1>1. DOMAIN c = Objects
  BY DEF Contents
<1>2. Put(c, o, l, v)[o] = SetAt(c[o], l, v)
  BY <1>1 DEF Put
<1>3. SetAt(c[o], l, v)[l] = v
  BY DEF SetAt
<1> QED BY <1>2, <1>3

LEMMA ReturnsDepth ==
    ASSUME DeepEnough, NEW CONSTANT rank, ConversionsEnd(rank), DepthInv(rank), Returns
    PROVE  DepthNext(rank)
<1>1. /\ status = "running" /\ Top.what = "loc" /\ UNCHANGED <<config, mapping>>
      /\ Calling /\ Calls
  BY DEF Returns, Called, Calling, setup
<1>2. /\ overflow # <<>> => Explained(overflow, config, altered')
      /\ stack # <<>> /\ Contents(content)
  BY <1>1, Underway
<1>3. PICK value \in Does[Callee.callback].returns :
        IF ~Present /\ Kind[Top.obj] = "list"
        THEN Raise(AfterCall(Callee.tolerant)) /\ UNCHANGED overflow
        ELSE /\ content' = IF Fixed(Top.obj) THEN content
                           ELSE [content EXCEPT ![Top.obj] =
                                    [l \in DOMAIN @ \cup {Top.loc} |->
                                        IF l = Top.loc THEN value ELSE @[l]]]
             /\ IF Reprocesses(value)
                THEN Push(AfterCall(Callee.tolerant),
                          LocFrame(Top.obj, Top.loc, content'), seen)
                ELSE stack' = AfterCall(FALSE) /\ UNCHANGED <<seen, status, failed, overflow>>
  BY DEF Returns
<1>10. PICK f : f = AfterCall(Callee.tolerant)
  OBVIOUS
<1>11. PICK k : /\ Nested(f, k, after, mapping, config.typeChanges, rank)
                /\ k \in Nat /\ k > 0 /\ k < Len(f) /\ f[Len(f)].obj = Top.obj
                /\ f[Len(f)].orig = Top.orig /\ f[k].obj = Top.obj
                /\ f[k].at = Top.loc /\ f[k].at # None
  BY <1>1, <1>10, CalledNested
<1>12. CASE ~Present /\ Kind[Top.obj] = "list"
  <2>1. Raise(f) /\ UNCHANGED overflow
    BY <1>3, <1>10, <1>12
  <2> QED BY <1>1, <1>2, <1>11, <2>1, NestedRaise DEF DepthNext
<1>4. CASE Present \/ Kind[Top.obj] # "list"
  <2> USE <1>4
  <2>1. CASE ~Reprocesses(value)
    <3>1. stack' = AfterCall(FALSE) /\ UNCHANGED <<seen, overflow>>
      BY <1>3, <2>1
    <3>2. PICK i : Nested(stack', i, after, mapping, config.typeChanges, rank)
      BY <1>1, <3>1, CalledNested
    <3> QED BY <1>1, <1>2, <3>1, <3>2, SetStays DEF DepthNext
  <2>2. CASE Reprocesses(value)
    <3>1. PICK c : c = content'
      OBVIOUS
    <3> DEFINE type == TypeOf(c[Top.obj][Top.loc])
    <3>2. PICK g : g = LocFrame(Top.obj, Top.loc, c)
      OBVIOUS
    <3>3. Push(f, g, seen)
      BY <1>3, <1>10, <2>2, <3>1, <3>2
    <3>4. IsCall(g) /\ g.obj = Top.obj /\ g.loc = Top.loc /\ g.orig = type
          /\ g.callbacks = CallbacksFor(type)
      BY <3>2, NewCall
    <3>5. config.typeChanges /\ TypeOf(value) # Top.orig
      BY <2>2 DEF Reprocesses
    <3>6. ~Fixed(Top.obj) => type = TypeOf(value)
      <4> SUFFICES ASSUME ~Fixed(Top.obj) PROVE c[Top.obj][Top.loc] = value
        OBVIOUS
      <4>1. c = [content EXCEPT ![Top.obj] =
                    [l \in DOMAIN @ \cup {Top.loc} |-> IF l = Top.loc THEN value ELSE @[l]]]
        BY <1>3, <3>1
      <4>2. c = Put(content, Top.obj, Top.loc, value)
        BY <4>1 DEF Put, SetAt
      <4>3. Top.obj \in Objects
        <5>1. PICK i : Nest(stack, i)
          BY <1>1, Underway
        <5> QED BY <1>1, <1>2, <5>1, TopCall
      <4>4. PICK o, l, v : o = Top.obj /\ l = Top.loc /\ v = value
        OBVIOUS
      <4>5. Put(content, o, l, v)[o][l] = v
        BY <1>2, <4>3, <4>4, PutThere
      <4> QED BY <4>2, <4>4, <4>5
    <3>7. \A p \in g.callbacks : p \in DOMAIN mapping /\ Handles(mapping[p], g.orig)
      <4> HIDE DEF type
      <4> QED BY <3>4, CallbacksHandle
    <3> HIDE DEF type
    <3>8. PICK changes, t, m : changes = config.typeChanges /\ t = Append(f, g) /\ m = after
      OBVIOUS
    <3>9. Nested(f, k, m, mapping, changes, rank)
      BY <1>11, <3>8
    <3>10. ~Fixed(g.obj) =>
             /\ g.orig \in Returned
             /\ \A j \in (k + 2) .. Len(f) : rank[f[j].orig] < rank[g.orig]
      <4> SUFFICES ASSUME ~Fixed(g.obj)
                   PROVE  /\ g.orig \in Returned
                          /\ \A j \in (k + 2) .. Len(f) : rank[f[j].orig] < rank[g.orig]
        OBVIOUS
      <4>1. PICK d : d = Callee
        OBVIOUS
      <4>2. d \in Registrable /\ Handles(d, f[Len(f)].orig)
            /\ value \in Does[d.callback].returns
        BY <1>1, <1>11, <4>1, CalleeHandles
      <4>3. ~Fixed(f[Len(f)].obj) /\ f[Len(f)].orig # TypeOf(value) /\ g.orig = TypeOf(value)
        BY <1>11, <3>4, <3>5, <3>6
      <4>4. /\ TypeOf(value) \in Returned
            /\ \A j \in (k + 2) .. Len(f) : rank[f[j].orig] < rank[TypeOf(value)]
        BY <1>11, <3>9, <4>2, <4>3, RanksRise
      <4> QED BY <4>3, <4>4
    <3>11. Nested(t, k, m, mapping, changes, rank)
      <4>1. g.obj = f[k].obj /\ g.loc = f[k].at /\ changes
        BY <1>11, <3>4, <3>5, <3>8
      <4> QED BY <1>11, <3>4, <3>7, <3>8, <3>9, <3>10, <4>1, NestedCallPushed
    <3>12. PICK more : more = MarksOf(seen, digest', altered')
      OBVIOUS
    <3>13. Nested(Append(f, g), k, more, mapping, config.typeChanges, rank)
      BY <3>8, <3>11, <3>12 DEF after
    <3>14. /\ \E i : Nested(stack', i, marks', mapping, config.typeChanges, rank)
           /\ overflow' # <<>> => Explained(overflow', config, altered')
      BY <1>2, <1>11, <3>3, <3>12, <3>13, NestedPush
    <3> QED BY <1>1, <3>14 DEF DepthNext
  <2> QED BY <2>1, <2>2
<1> QED BY <1>4, <1>12

LEMMA CallsDepth ==
    ASSUME DeepEnough, NEW CONSTANT rank, ConversionsEnd(rank), DepthInv(rank), CallStep
    PROVE  DepthNext(rank)
<1>1. CASE Returns
  BY <1>1, ReturnsDepth
<1>2. CASE \/ Filtered \/ Vanished \/ Observes \/ Removes \/ Inserts \/ Fails
           \/ Misdefined \/ EndLoc
  <2>1. status = "running" /\ Top.what = "loc" /\ UNCHANGED <<config, mapping, overflow>>
    BY <1>2 DEF Filtered, Vanished, Observes, Removes, Inserts, Fails, Misdefined, EndLoc,
                Called, Calling, setup, outcomes
  <2>12. UNCHANGED hashes \/ Calls
    BY <1>2 DEF Filtered, Vanished, Observes, Removes, Inserts, Fails, Misdefined, EndLoc,
                Called
  <2>2. overflow # <<>> => Explained(overflow, config, altered')
    BY <2>1, <2>12, Underway
  <2>3. ASSUME NEW b, stack' = AfterCall(b), UNCHANGED seen
        PROVE  DepthNext(rank)
    <3>1. \E k : Nested(stack', k, after, mapping, config.typeChanges, rank)
      BY <2>1, <2>3, <2>12, CalledNested
    <3> QED BY <2>1, <2>2, <2>3, <3>1, SetStays DEF DepthNext
  <2>4. ASSUME NEW b, Raise(AfterCall(b))
        PROVE  DepthNext(rank)
    <3>1. PICK f : f = AfterCall(b)
      OBVIOUS
    <3>2. PICK k : Nested(f, k, after, mapping, config.typeChanges, rank)
      BY <2>1, <2>12, <3>1, CalledNested
    <3>3. Raise(f)
      BY <2>4, <3>1
    <3> QED BY <2>1, <2>2, <3>2, <3>3, NestedRaise DEF DepthNext
  <2>5. CASE Filtered
    BY <2>3, <2>4, <2>5 DEF Filtered
  <2>6. CASE Vanished
    BY <2>4, <2>6 DEF Vanished
  <2>7. CASE Observes
    BY <2>3, <2>7 DEF Observes, outcomes
  <2>8. CASE Removes
    BY <2>3, <2>8 DEF Removes
  <2>13. CASE Inserts
    BY <2>3, <2>13 DEF Inserts
  <2>9. CASE Fails
    BY <2>4, <2>9 DEF Fails
  <2>10. CASE Misdefined
    <3>1. stack' = <<>>
      BY <2>10 DEF Misdefined
    <3>2. PICK m : m = marks'
      OBVIOUS
    <3>3. Nested(stack', 0, m, mapping, config.typeChanges, rank)
      BY <3>1, NestedEmpty
    <3> QED BY <2>1, <2>2, <3>2, <3>3 DEF DepthNext
  <2>11. CASE EndLoc
    <3>1. stack' = Front(stack) /\ UNCHANGED seen
      BY <2>11 DEF EndLoc
    <3>2. PICK k : /\ Nested(stack, k, after, mapping, config.typeChanges, rank)
                   /\ Nest(stack, k)
      BY <2>1, <2>12, Underway
    <3>3. stack # <<>>
      BY <2>1, <2>12, Underway
    <3>4. k \in Nat /\ Len(stack) \in Nat /\ k < Len(stack)
      BY <2>1, <3>2, <3>3, TopCall
    <3>5. PICK n, changes, m :
            n = Len(stack) - 1 /\ changes = config.typeChanges /\ m = after
      OBVIOUS
    <3>6. /\ n \in k .. Len(stack) /\ stack' = SubSeq(stack, 1, n)
          /\ Nested(stack, k, m, mapping, changes, rank)
      BY <3>1, <3>2, <3>3, <3>4, <3>5, FrontOf DEF Nest
    <3>7. Nested(stack', k, m, mapping, changes, rank)
      BY <3>6, NestedCut
    <3> QED BY <2>1, <2>2, <3>1, <3>5, <3>7, SetStays DEF DepthNext
  <2> QED BY <1>2, <2>5, <2>6, <2>7, <2>8, <2>9, <2>10, <2>11, <2>13
<1> QED BY <1>1, <1>2 DEF CallStep

LEMMA NextDepth ==
    ASSUME DeepEnough, NEW CONSTANT rank, ConversionsEnd(rank), DepthInv(rank), [Next]_vars
    PROVE  DepthInv(rank)'
<1>1. CompleteInv'
  BY NextComplete DEF DepthInv
<1>2. Depth(rank) /\ Digests'
  BY NextDigests DEF DepthInv
<1>3. CASE UNCHANGED vars
  <2>1. DepthNext(rank)
    <3>1. UNCHANGED <<config, mapping, stack, seen, digest, altered, overflow>>
      BY <1>3 DEF vars, setup, outcomes, hashes
    <3>2. marks' = marks
      BY <3>1 DEF marks, MarksOf
    <3> QED BY <1>2, <3>1, <3>2 DEF Depth, DepthNext
  <2> QED BY <1>1, <1>2, <2>1, DepthFollows DEF DepthInv
<1>4. ASSUME NEW d \in Definitions, Register(d) PROVE DepthInv(rank)'
  BY <1>1, <1>2, <1>4, RegisterDepth DEF DepthInv
<1>5. CASE Start \/ NextLoc \/ KeysChanged \/ EndLoop \/ Descend \/ NotFound \/ CallStep
           \/ Breaks
  <2>1. DepthNext(rank)
    BY <1>5, StartDepth, NextLocDepth, KeysChangedDepth, EndLoopDepth, DescendDepth,
       NotFoundDepth, CallsDepth, BreaksDepth
  <2> QED BY <1>1, <1>2, <2>1, DepthFollows DEF DepthInv
<1> QED BY <1>3, <1>4, <1>5 DEF Next, CallStep

\* With a limit of recursion that a document without such a cycle cannot reach, and
\* callbacks whose conversions end, only four things exhaust the stack: a cycle that no
\* model is part of, a model entered within itself because a callback has changed its hash
\* (json.py:678), a new type in a container that takes no new value, and a string taken for
\* a sequence of strings (json.py:297).  Models that keep their hash are each entered once,
\* however they refer to each other and whichever of them are equal.
THEOREM OverflowsAreExplained ==
    ASSUME DeepEnough, NEW CONSTANT rank, ConversionsEnd(rank)
    PROVE  Spec => []OverflowExplained
<1>1. Init => DepthInv(rank)
  BY InitComplete, InitDigests, InitDepth DEF DepthInv
<1>2. DepthInv(rank) /\ [Next]_vars => DepthInv(rank)'
  BY NextDepth
<1>3. DepthInv(rank) => OverflowExplained
  BY DEF DepthInv, Depth, Explained, OverflowExplained
<1> QED BY <1>1, <1>2, <1>3, PTL DEF Spec
===============================================================================
