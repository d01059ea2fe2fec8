---------------------------- MODULE SpotifyProofs ----------------------------
(***************************************************************************)
(* What SpotifyPlaylists promises, for any finite set of playlists, any    *)
(* number of instances, changes and failures.                              *)
(***************************************************************************)
EXTENDS SpotifyPlaylists, FiniteSetTheorems, TLAPS

InstanceType == [id : Playlists, snapshot : Nat, live : Nat \cup {None},
                 recent : BOOLEAN, count : Nat \cup {None}, seen : Nat]

CallType == [op : {"read", "add", "remove"}, of : Nat,
             at : {"before", "request", "after"}, fetching : BOOLEAN,
             some : BOOLEAN]

\* The variables the arguments below depend on.
Types ==
    /\ library \in SUBSET Playlists
    /\ remote \in [Playlists -> [version : Nat, count : Nat]]
    /\ list \in Seq(InstanceType)
    /\ call \in CallType \cup {None}
    /\ call # None => call.of \in 1 .. Len(list)

\* Everything an instance says of its playlist is about a version that the
\* service has reached.
Reached(x) ==
    /\ x.snapshot <= remote[x.id].version
    /\ x.live # None => x.live <= remote[x.id].version
    /\ x.seen <= remote[x.id].version
    /\ x.count # None => x.snapshot <= x.seen

\* The call has changed the playlist, and not yet the tracklist.
Changed == call # None /\ call.at = "after" /\ (call.op = "add" => call.some)

SpotifyInv ==
    /\ Types
    /\ \A k \in 1 .. Len(list) : Reached(list[k])
    /\ Changed => Inst.snapshot < remote[Inst.id].version
    /\ TracksRight

-----------------------------------------------------------------------------
(* The search in the generator                                             *)

\* The items found are at most all of them.
LEMMA FoundFirstType ==
    ASSUME NEW ids, NEW answer, Len(answer) \in Nat
    PROVE  FoundFirst(ids, answer) \in 0 .. Len(answer)
<1> DEFINE n == Len(answer)
           F == {m \in 1 .. n : Found(ids, answer, m)}
<1>1. IsFiniteSet(1 .. n) /\ Cardinality(1 .. n) = n
  <2>1. 1 \in Int /\ n \in Int /\ (IF 1 > n THEN 0 ELSE n - 1 + 1) = n
    OBVIOUS
  <2> QED  BY <2>1, FS_Interval
<1>2. IsFiniteSet(F) /\ Cardinality(F) <= n
  BY <1>1, FS_Subset
<1>3. Cardinality(F) \in Nat
  BY <1>2, FS_CardinalityType
<1> QED  BY <1>2, <1>3 DEF FoundFirst

\* What is found of m items is found of fewer.
LEMMA FoundFewer ==
    ASSUME NEW ids \in Seq(Playlists), NEW answer \in Seq(Playlists),
           NEW m \in Nat, Found(ids, answer, m), NEW l \in 0 .. m
    PROVE  Found(ids, answer, l)
<1>1. PICK at \in [1 .. m -> 1 .. Len(ids)] :
         /\ \A i \in 1 .. m : ids[at[i]] = answer[i]
         /\ \A i, j \in 1 .. m : i < j => at[i] < at[j]
  BY DEF Found
<1> DEFINE few == [i \in 1 .. l |-> at[i]]
<1>2. few \in [1 .. l -> 1 .. Len(ids)]
  OBVIOUS
<1>3. /\ \A i \in 1 .. l : ids[few[i]] = answer[i]
      /\ \A i, j \in 1 .. l : i < j => few[i] < few[j]
  BY <1>1
<1> QED  BY <1>2, <1>3 DEF Found

\* An item that can be found, with all before it, is among the first.
LEMMA FoundCounted ==
    ASSUME NEW ids \in Seq(Playlists), NEW answer \in Seq(Playlists),
           NEW m \in 1 .. Len(answer), Found(ids, answer, m)
    PROVE  m <= FoundFirst(ids, answer)
<1> DEFINE F == {i \in 1 .. Len(answer) : Found(ids, answer, i)}
<1>1. 1 .. m \in SUBSET F
  BY FoundFewer
<1>2. IsFiniteSet(F)
  <2>1. IsFiniteSet(1 .. Len(answer))
    BY FS_Interval
  <2> QED  BY <2>1, FS_Subset
<1>3. Cardinality(1 .. m) <= Cardinality(F)
  BY <1>1, <1>2, FS_Subset
<1>4. Cardinality(1 .. m) = m
  BY FS_Interval
<1> QED  BY <1>3, <1>4 DEF FoundFirst

\* The answers of the service name playlists of the library, each once.
LEMMA AnswerType ==
    ASSUME library \in SUBSET Playlists, NEW answer \in SetToSeqs(library)
    PROVE  /\ answer \in Seq(Playlists)
           /\ Len(answer) = Cardinality(library)
           /\ \A i, j \in 1 .. Len(answer) : i # j => answer[i] # answer[j]
           /\ \A p \in library : \E i \in 1 .. Len(answer) : answer[i] = p
<1> DEFINE n == Cardinality(library)
<1>1. IsFiniteSet(library) /\ n \in Nat
  BY SpotifyAssumption, FS_Subset, FS_CardinalityType
<1>2. /\ answer \in [1 .. n -> library]
      /\ \A i, j \in 1 .. n : i # j => answer[i] # answer[j]
  BY DEF SetToSeqs
<1>3. answer \in Seq(Playlists) /\ Len(answer) = n
  BY <1>1, <1>2
<1>4. answer \in Injection(1 .. n, library)
  BY <1>2 DEF Injection, IsInjective
<1>5. Cardinality(1 .. n) = n
  BY <1>1, FS_Interval
<1>6. answer \in Surjection(1 .. n, library)
  BY <1>1, <1>4, <1>5, FS_Injection
<1>7. \A p \in library : \E i \in 1 .. n : answer[i] = p
  BY <1>6 DEF Surjection
<1> QED  BY <1>2, <1>3, <1>7
\* The first items are found.
LEMMA CountedFound ==
    ASSUME NEW ids \in Seq(Playlists), NEW answer \in Seq(Playlists),
           NEW m \in 1 .. Len(answer), m <= FoundFirst(ids, answer)
    PROVE  Found(ids, answer, m)
<1> SUFFICES ASSUME ~Found(ids, answer, m) PROVE FALSE
  OBVIOUS
<1> DEFINE F == {i \in 1 .. Len(answer) : Found(ids, answer, i)}
<1>1. F \in SUBSET (1 .. m - 1)
  BY FoundFewer
<1>2. IsFiniteSet(1 .. m - 1) /\ Cardinality(1 .. m - 1) = m - 1
  <2>1. 1 \in Int /\ m - 1 \in Int /\ (IF 1 > m - 1 THEN 0 ELSE m - 1 - 1 + 1) = m - 1
    OBVIOUS
  <2> HIDE DEF F
  <2> QED  BY <2>1, FS_Interval
<1>3. Cardinality(F) <= m - 1
  BY <1>1, <1>2, FS_Subset
<1>4. Cardinality(F) \in Nat
  BY <1>1, <1>2, FS_Subset, FS_CardinalityType
<1> QED  BY <1>3, <1>4 DEF FoundFirst

\* The IDs of the list, one for each instance.
LEMMA IdsType ==
    ASSUME list \in Seq(InstanceType)
    PROVE  /\ Ids \in Seq(Playlists) /\ Len(Ids) = Len(list)
           /\ \A i \in 1 .. Len(list) : Ids[i] = list[i].id
<1>1. Len(list) \in Nat /\ \A k \in 1 .. Len(list) : list[k] \in InstanceType
  OBVIOUS
<1>2. \A k \in 1 .. Len(list) : list[k].id \in Playlists
  BY <1>1 DEF InstanceType
<1> DEFINE f == [k \in 1 .. Len(list) |-> list[k].id]
<1>3. f \in [1 .. Len(list) -> Playlists]
  BY <1>2
<1>4. f \in Seq(Playlists) /\ Len(f) = Len(list)
  BY <1>1, <1>3
<1>5. \A i \in 1 .. Len(list) : f[i] = list[i].id
  OBVIOUS
<1> HIDE DEF f
<1>6. Ids = f
  BY DEF Ids, f
<1> QED  BY <1>4, <1>5, <1>6

\* With the known playlists first, and in order, every known one is found.
LEMMA KnownFound ==
    ASSUME list \in Seq(InstanceType), NEW answer \in Seq(Playlists),
           \A i, j \in 1 .. Len(answer) : i # j => answer[i] # answer[j],
           \A i, j \in 1 .. Len(list) : list[i].id = list[j].id => i = j,
           InOrder(answer),
           NEW m \in 1 .. Len(answer), NEW k \in 1 .. Len(list),
           list[k].id = answer[m]
    PROVE  m <= FoundFirst(Ids, answer)
<1>1. /\ Ids \in Seq(Playlists) /\ Len(Ids) = Len(list)
      /\ \A i \in 1 .. Len(list) : Ids[i] = list[i].id
  BY IdsType
<1>2. \A i \in 1 .. m : \E l \in 1 .. Len(Ids) : Ids[l] = answer[i]
  <2> TAKE i \in 1 .. m
  <2>1. Ids[k] = answer[m] /\ k \in 1 .. Len(Ids)
    BY <1>1
  <2>2. CASE i = m
    BY <2>1, <2>2
  <2>3. CASE i < m
    <3>1. i \in 1 .. Len(answer)
      OBVIOUS
    <3>2. \E l \in 1 .. k : Ids[l] = answer[i]
      BY <2>1, <2>3, <3>1 DEF InOrder
    <3>3. 1 .. k \subseteq 1 .. Len(Ids)
      BY <2>1
    <3> QED  BY <3>2, <3>3
  <2> QED  BY <2>2, <2>3
<1> DEFINE at == [i \in 1 .. m |-> CHOOSE l \in 1 .. Len(Ids) : Ids[l] = answer[i]]
<1>3. at \in [1 .. m -> 1 .. Len(Ids)] /\ \A i \in 1 .. m : Ids[at[i]] = answer[i]
  BY <1>2
<1> HIDE DEF at
<1>4. ASSUME NEW i \in 1 .. m, NEW j \in 1 .. m, i < j
      PROVE  at[i] < at[j]
  <2>1. /\ at[i] \in 1 .. Len(Ids) /\ Ids[at[i]] = answer[i]
        /\ at[j] \in 1 .. Len(Ids) /\ Ids[at[j]] = answer[j]
    BY <1>3, <1>4
  <2>2. i \in 1 .. Len(answer) /\ j \in 1 .. Len(answer)
    BY <1>4
  <2>3. PICK l \in 1 .. at[j] : Ids[l] = answer[i]
    <3>1. \A l \in 1 .. Len(Ids) : Ids[l] = answer[j] =>
             \E h \in 1 .. l : Ids[h] = answer[i]
      BY <2>2, <1>4 DEF InOrder
    <3> QED  BY <2>1, <3>1
  <2>4. l \in 1 .. Len(list) /\ at[i] \in 1 .. Len(list)
    BY <2>1, <2>3, <1>1
  <2>5. l = at[i]
    BY <2>1, <2>3, <2>4, <1>1
  <2>6. at[i] # at[j]
    BY <2>1, <2>2, <1>4
  <2> QED  BY <2>1, <2>3, <2>5, <2>6
<1>5. Found(Ids, answer, m)
  BY <1>3, <1>4 DEF Found
<1> QED  BY <1>1, <1>5, FoundCounted

\* What is new in the list after a refresh.
LEMMA UnknownType ==
    ASSUME Types, NEW answer \in Seq(Playlists)
    PROVE  /\ Ids \in Seq(Playlists) /\ Len(Ids) = Len(list)
           /\ FoundFirst(Ids, answer) \in 0 .. Len(answer)
           /\ Unknown(Ids, answer) \in Seq(InstanceType)
           /\ Len(Unknown(Ids, answer)) = Len(answer) - FoundFirst(Ids, answer)
           /\ \A i \in 1 .. Len(Unknown(Ids, answer)) :
                 Unknown(Ids, answer)[i] = NewInstance(answer[FoundFirst(Ids, answer) + i])
<1>1. Ids \in Seq(Playlists) /\ Len(Ids) = Len(list)
  BY IdsType DEF Types
<1>2. FoundFirst(Ids, answer) \in 0 .. Len(answer)
  BY <1>1, FoundFirstType
<1>3. \A i \in 1 .. Len(answer) : NewInstance(answer[i]) \in InstanceType
  BY DEF NewInstance, InstanceType, Types
<1> DEFINE n == Len(answer) - FoundFirst(Ids, answer)
           u == [i \in 1 .. n |-> NewInstance(answer[FoundFirst(Ids, answer) + i])]
<1>4. n \in Nat
  BY <1>2
<1>5. u \in [1 .. n -> InstanceType]
  <2>1. \A i \in 1 .. n : FoundFirst(Ids, answer) + i \in 1 .. Len(answer)
    BY <1>2
  <2> QED  BY <2>1, <1>3
<1>6. u \in Seq(InstanceType) /\ Len(u) = n
  BY <1>4, <1>5
<1>7. Unknown(Ids, answer) = u
  BY DEF Unknown
<1>8. \A i \in 1 .. n : u[i] = NewInstance(answer[FoundFirst(Ids, answer) + i])
  OBVIOUS
<1> QED  BY <1>1, <1>2, <1>6, <1>7, <1>8
-----------------------------------------------------------------------------
(* Instances                                                               *)

LEMMA ReplacedType ==
    ASSUME list \in Seq(InstanceType), NEW k \in 1 .. Len(list),
           NEW y \in InstanceType, list' = [list EXCEPT ![k] = y]
    PROVE  /\ list' \in Seq(InstanceType) /\ Len(list') = Len(list)
           /\ list'[k] = y
           /\ \A j \in 1 .. Len(list) : j # k => list'[j] = list[j]
OBVIOUS

LEMMA LookedType ==
    ASSUME Types, NEW x \in InstanceType
    PROVE  /\ Looked(x) \in InstanceType
           /\ Looked(x).id = x.id /\ Looked(x).snapshot = x.snapshot
           /\ Looked(x).seen = x.seen /\ Looked(x).count = x.count
           /\ Looked(x).live \in {x.live, remote[x.id].version}
BY DEF Looked, InstanceType, Types

LEMMA FetchedType ==
    ASSUME Types, NEW x \in InstanceType
    PROVE  /\ Fetched(x) \in InstanceType
           /\ Fetched(x).id = x.id /\ Fetched(x).seen = remote[x.id].version
           /\ Fetched(x).count = remote[x.id].count
           /\ Fetched(x).snapshot = IF x.live = None THEN x.snapshot ELSE x.live
           /\ Fetched(x).live = IF x.live = None THEN x.snapshot ELSE x.live
BY SpotifyAssumption DEF Fetched, InstanceType, Types

LEMMA CountAfterType ==
    ASSUME NEW n \in Nat, call # None, call \in CallType
    PROVE  /\ CountAfter(n) \in Nat
           /\ CountAfter(n) # n => Changed
BY DEF CountAfter, Applied, Changed, CallType

LEMMA ProceedType ==
    ASSUME NEW n \in Nat, call # None, call \in CallType
    PROVE  /\ Proceed(n) \in CallType \cup {None}
           /\ Proceed(n) # None =>
                 /\ Proceed(n).of = call.of /\ Proceed(n).op = "add"
                 /\ Proceed(n).at = "after" => ~Proceed(n).some
BY DEF Proceed, CallType

LEMMA EditedType ==
    ASSUME Types, NEW p \in Playlists, NEW n \in Nat, remote' = Edited(p, n)
    PROVE  /\ remote' \in [Playlists -> [version : Nat, count : Nat]]
           /\ remote'[p].version = remote[p].version + 1
           /\ \A q \in Playlists : q # p => remote'[q] = remote[q]
BY DEF Edited, Types
\* A change at the service outdates the tracklists of the playlist.
LEMMA ServiceChanged ==
    ASSUME SpotifyInv, NEW p \in Playlists, NEW n \in Nat,
           remote' = Edited(p, n), list' = list, twice' = twice
    PROVE  /\ \A k \in 1 .. Len(list) : Reached(list[k])'
           /\ \A k \in 1 .. Len(list) :
                 /\ list[k].snapshot <= remote'[list[k].id].version
                 /\ list[k].snapshot < remote[list[k].id].version
                       => list[k].snapshot < remote'[list[k].id].version
                 /\ list[k].id = p => list[k].snapshot < remote'[p].version
           /\ TracksRight'
<1>1. /\ remote' \in [Playlists -> [version : Nat, count : Nat]]
      /\ remote'[p].version = remote[p].version + 1
      /\ \A q \in Playlists : q # p => remote'[q] = remote[q]
  BY EditedType DEF SpotifyInv
<1>2. ASSUME NEW k \in 1 .. Len(list)
      PROVE  /\ Reached(list[k])'
             /\ list[k].snapshot <= remote'[list[k].id].version
             /\ list[k].snapshot < remote[list[k].id].version
                   => list[k].snapshot < remote'[list[k].id].version
             /\ list[k].id = p => list[k].snapshot < remote'[p].version
  <2>1. list[k] \in InstanceType /\ Reached(list[k])
    BY DEF SpotifyInv, Types
  <2>2. remote[list[k].id].version \in Nat /\ remote'[list[k].id].version \in Nat
    BY <2>1, <1>1 DEF SpotifyInv, Types, InstanceType
  <2>3. remote[list[k].id].version <= remote'[list[k].id].version
    <3>1. list[k].id \in Playlists
      BY <2>1 DEF InstanceType
    <3>2. CASE list[k].id = p
      BY <1>1, <2>2, <3>2
    <3>3. CASE list[k].id # p
      BY <1>1, <2>2, <3>1, <3>3
    <3> QED  BY <3>2, <3>3
  <2>4. /\ list[k].snapshot \in Nat /\ list[k].seen \in Nat
        /\ list[k].live \in Nat \cup {None}
    BY <2>1 DEF InstanceType
  <2>5. Reached(list[k])'
    BY <2>1, <2>2, <2>3, <2>4, SpotifyAssumption DEF Reached
  <2>6. /\ list[k].snapshot <= remote[list[k].id].version
        /\ list[k].snapshot <= remote'[list[k].id].version
    BY <2>1, <2>5 DEF Reached
  <2>7. list[k].id = p => list[k].snapshot < remote'[p].version
    BY <1>1, <2>2, <2>4, <2>6
  <2>8. list[k].snapshot < remote[list[k].id].version
          => list[k].snapshot < remote'[list[k].id].version
    BY <2>2, <2>3, <2>4
  <2> QED  BY <2>5, <2>6, <2>7, <2>8
<1>3. TracksRight'
  <2> SUFFICES ASSUME NEW k \in 1 .. Len(list) \ twice, list[k].count # None,
                      list[k].snapshot = remote'[list[k].id].version
               PROVE  list[k].count = remote'[list[k].id].count
    BY DEF TracksRight
  <2>1. list[k] \in InstanceType /\ k \in 1 .. Len(list)
    BY DEF SpotifyInv, Types
  <2>2. list[k].id \in Playlists /\ list[k].id # p
    BY <2>1, <1>1, <1>2 DEF InstanceType
  <2> QED  BY <2>2, <1>1 DEF SpotifyInv, TracksRight
<1> QED  BY <1>2, <1>3

\* Nothing is said here of the variables below.
LEMMA SameBooks ==
    ASSUME SpotifyInv, library' \in SUBSET Playlists,
           UNCHANGED <<remote, list, twice, call>>
    PROVE  SpotifyInv'
BY DEF SpotifyInv, Types, Reached, Changed, Inst, TracksRight

\* No call is under way afterwards that has to keep a tracklist right.
LEMMA NotChanged ==
    ASSUME SpotifyInv, UNCHANGED <<library, remote, list, twice>>,
           call' \in CallType \cup {None},
           call' # None => call'.of \in 1 .. Len(list),
           ~Changed'
    PROVE  SpotifyInv'
BY DEF SpotifyInv, Types, Reached, TracksRight
-----------------------------------------------------------------------------
(* The steps                                                               *)

LEMMA InvEdit ==
    ASSUME SpotifyInv, NEW p \in Playlists, Edit(p)
    PROVE  SpotifyInv'
<1>1. PICK n \in {remote[p].count + 1, remote[p].count, 0} : remote' = Edited(p, n)
  BY DEF Edit
<1>2. n \in Nat
  BY DEF SpotifyInv, Types
<1>3. UNCHANGED <<library, list, twice, call>>
  BY DEF Edit, cached, history
<1>4. Types'
  BY <1>1, <1>2, <1>3, EditedType DEF SpotifyInv, Types
<1>5. Changed' => Inst'.snapshot < remote'[Inst'.id].version
  BY <1>1, <1>2, <1>3, ServiceChanged DEF SpotifyInv, Types, Changed, Inst
<1> QED  BY <1>1, <1>2, <1>3, <1>4, <1>5, ServiceChanged DEF SpotifyInv

LEMMA InvRequest ==
    ASSUME SpotifyInv, Request
    PROVE  SpotifyInv'
<1> DEFINE p == Inst.id
           n == IF call.op = "add" THEN remote[p].count + 1 ELSE 0
<1>1. /\ Inst \in InstanceType /\ call \in CallType
      /\ call.of \in 1 .. Len(list)
  BY DEF Request, SpotifyInv, Types, Inst
<1>2. p \in Playlists /\ n \in Nat
  BY <1>1 DEF SpotifyInv, Types, InstanceType
<1>3. remote' = Edited(p, n) /\ UNCHANGED <<library, list, twice>>
  BY DEF Request, cached, history
<1>4. call' \in CallType /\ call'.of = call.of
  BY <1>1 DEF Request, CallType
<1> HIDE DEF n
<1>5. Types'
  BY <1>1, <1>2, <1>3, <1>4, EditedType DEF SpotifyInv, Types
<1>6. Inst'.snapshot < remote'[Inst'.id].version
  BY <1>1, <1>2, <1>3, <1>4, ServiceChanged DEF Inst
<1> QED  BY <1>2, <1>3, <1>5, <1>6, ServiceChanged DEF SpotifyInv

LEMMA InvCallFails ==
    ASSUME SpotifyInv, CallFails
    PROVE  SpotifyInv'
<1>1. UNCHANGED <<library, list, twice>> /\ call' = None /\ ~Changed'
  BY DEF CallFails, cached, history, Changed
<1>2. CASE UNCHANGED remote
  BY <1>1, <1>2, NotChanged
<1>3. CASE remote' = Edited(Inst.id, IF call.op = "add" THEN remote[Inst.id].count + 1 ELSE 0)
  <2> DEFINE p == Inst.id
             n == IF call.op = "add" THEN remote[p].count + 1 ELSE 0
  <2>1. Inst \in InstanceType
    BY DEF CallFails, SpotifyInv, Types, Inst
  <2>2. p \in Playlists /\ n \in Nat
    BY <2>1 DEF SpotifyInv, Types, InstanceType
  <2>3. remote' = Edited(p, n)
    BY <1>3
  <2> HIDE DEF n
  <2>4. Types'
    BY <1>1, <2>2, <2>3, EditedType DEF SpotifyInv, Types
  <2> QED  BY <1>1, <2>2, <2>3, <2>4, ServiceChanged DEF SpotifyInv
<1> QED  BY <1>2, <1>3 DEF CallFails

\* A step that looks up the snapshot ID, and applies what the call changed.
LEMMA Applying ==
    ASSUME SpotifyInv, call # None,
           NEW y \in InstanceType, list' = [list EXCEPT ![call.of] = y],
           UNCHANGED <<library, remote>>, Reached(y), y.id = Inst.id,
           call' \in CallType \cup {None},
           call' # None => call'.of = call.of,
           Changed' => y.snapshot < remote[y.id].version,
           \A k \in 1 .. Len(list) : k # call.of => (k \in twice' <=> k \in twice),
           call.of \notin twice' /\ y.count # None
             /\ y.snapshot = remote[y.id].version => y.count = remote[y.id].count
    PROVE  SpotifyInv'
<1>1. call.of \in 1 .. Len(list) /\ list \in Seq(InstanceType)
  BY DEF SpotifyInv, Types
<1>2. /\ list' \in Seq(InstanceType) /\ Len(list') = Len(list)
      /\ list'[call.of] = y
      /\ \A j \in 1 .. Len(list) : j # call.of => list'[j] = list[j]
  BY <1>1, ReplacedType
<1>3. Types'
  BY <1>1, <1>2 DEF SpotifyInv, Types
<1>4. (\A k \in 1 .. Len(list) : Reached(list[k]))'
  BY <1>2 DEF SpotifyInv, Reached
<1>5. Changed' => Inst'.snapshot < remote'[Inst'.id].version
  BY <1>2 DEF Inst, Changed
<1>6. TracksRight'
  BY <1>2 DEF SpotifyInv, TracksRight
<1> QED  BY <1>3, <1>4, <1>5, <1>6 DEF SpotifyInv
LEMMA InvUnchanged ==
    ASSUME SpotifyInv, Unchanged
    PROVE  SpotifyInv'
<1> DEFINE y == Noted(Looked(Inst))
<1>1. /\ Inst \in InstanceType /\ Reached(Inst) /\ Inst.count \in Nat
      /\ call # None /\ call \in CallType /\ call.of \in 1 .. Len(list)
  <2>1. call # None /\ call \in CallType /\ call.of \in 1 .. Len(list)
    BY DEF Unchanged, Evaluating, SpotifyInv, Types
  <2>2. Inst \in InstanceType /\ Reached(Inst)
    BY <2>1 DEF SpotifyInv, Types, Inst
  <2>3. Inst.count \in Nat
    BY <2>2 DEF Unchanged, InstanceType
  <2> QED  BY <2>1, <2>2, <2>3
<1>2. CountAfter(Inst.count) \in Nat /\ (CountAfter(Inst.count) # Inst.count => Changed)
  BY <1>1, CountAfterType
<1>3. /\ y \in InstanceType
      /\ y.id = Inst.id /\ y.snapshot = Inst.snapshot /\ y.seen = Inst.seen
      /\ y.live \in {Inst.live, remote[Inst.id].version}
      /\ y.count = CountAfter(Inst.count)
  BY <1>1, <1>2, LookedType DEF SpotifyInv, InstanceType, Noted
<1>4. list' = [list EXCEPT ![call.of] = y] /\ UNCHANGED <<library, remote, twice>>
  BY DEF Unchanged, Inst, history
<1> HIDE DEF y
<1>5. remote[Inst.id].version \in Nat
  BY <1>1 DEF SpotifyInv, Types, InstanceType
<1>6. Reached(y)
  BY <1>1, <1>3, <1>5, SpotifyAssumption DEF Reached
<1>7. /\ call' \in CallType \cup {None}
      /\ call' # None => call'.of = call.of
      /\ ~Changed'
  BY <1>1, ProceedType DEF Unchanged, Changed
<1>8. call.of \notin twice' /\ y.count # None
        /\ y.snapshot = remote[y.id].version => y.count = remote[y.id].count
  <2>1. CASE Changed
    BY <2>1, <1>1, <1>3, <1>5 DEF SpotifyInv, InstanceType
  <2>2. CASE ~Changed
    BY <2>2, <1>1, <1>2, <1>3, <1>4, SpotifyAssumption DEF SpotifyInv, TracksRight, Inst
  <2> QED  BY <2>1, <2>2
<1> QED  BY <1>1, <1>3, <1>4, <1>6, <1>7, <1>8, Applying

LEMMA InvFetch ==
    ASSUME SpotifyInv, Fetch
    PROVE  SpotifyInv'
<1> DEFINE x == Fetched(Inst)
           y == Noted(x)
<1>1. /\ Inst \in InstanceType /\ Reached(Inst)
      /\ call # None /\ call \in CallType /\ call.of \in 1 .. Len(list)
  BY DEF Fetch, SpotifyInv, Types, Inst
<1>2. remote[Inst.id].version \in Nat /\ remote[Inst.id].count \in Nat
  BY <1>1 DEF SpotifyInv, Types, InstanceType
<1>3. /\ x \in InstanceType /\ x.id = Inst.id
      /\ x.seen = remote[Inst.id].version /\ x.count = remote[Inst.id].count
      /\ x.snapshot = IF Inst.live = None THEN Inst.snapshot ELSE Inst.live
      /\ x.live = x.snapshot
  BY <1>1, FetchedType DEF SpotifyInv
<1> HIDE DEF x
<1>4. CountAfter(x.count) \in Nat
  BY <1>1, <1>2, <1>3, CountAfterType
<1>5. /\ y \in InstanceType /\ y.id = x.id /\ y.snapshot = x.snapshot
      /\ y.seen = x.seen /\ y.live = x.live /\ y.count = CountAfter(x.count)
  BY <1>3, <1>4 DEF InstanceType, Noted
<1>6. /\ list' = [list EXCEPT ![call.of] = y] /\ UNCHANGED <<library, remote>>
      /\ twice' = IF CountAfter(x.count) = x.count
                   THEN twice \ {call.of} ELSE twice \cup {call.of}
      /\ call' = Proceed(x.count)
  BY DEF Fetch, Inst, x
<1> HIDE DEF y
<1>7. Reached(y)
  BY <1>1, <1>2, <1>3, <1>5, SpotifyAssumption DEF Reached, InstanceType
<1>8. /\ call' \in CallType \cup {None}
      /\ call' # None => call'.of = call.of
      /\ ~Changed'
  BY <1>1, <1>2, <1>3, <1>6, ProceedType DEF Changed
<1>9. /\ \A k \in 1 .. Len(list) : k # call.of => (k \in twice' <=> k \in twice)
      /\ call.of \notin twice' => y.count = remote[y.id].count
  BY <1>3, <1>5, <1>6
<1> QED  BY <1>1, <1>3, <1>5, <1>6, <1>7, <1>8, <1>9, Applying
LEMMA InvOutdated ==
    ASSUME SpotifyInv, Outdated
    PROVE  SpotifyInv'
<1>1. /\ Inst \in InstanceType /\ Reached(Inst)
      /\ call # None /\ call \in CallType /\ call.of \in 1 .. Len(list)
  BY DEF Outdated, Evaluating, SpotifyInv, Types, Inst
<1>2. /\ call' \in CallType /\ call'.of = call.of /\ (Changed' => Changed)
      /\ UNCHANGED <<library, remote, twice>>
  BY <1>1 DEF Outdated, CallType, Changed, history
<1>3. remote[Inst.id].version \in Nat
  BY <1>1 DEF SpotifyInv, Types, InstanceType
<1>4. PICK y \in {Inst, Looked(Inst)} : list' = [list EXCEPT ![call.of] = y]
  <2>1. list = [list EXCEPT ![call.of] = Inst]
    BY <1>1 DEF Inst, SpotifyInv, Types
  <2> QED  BY <2>1 DEF Outdated, Inst
<1>5. /\ y \in InstanceType
      /\ y.id = Inst.id /\ y.snapshot = Inst.snapshot /\ y.seen = Inst.seen
      /\ y.live \in {Inst.live, remote[Inst.id].version} /\ y.count = Inst.count
  BY <1>1, LookedType DEF SpotifyInv
<1>6. Reached(y)
  BY <1>1, <1>3, <1>5, SpotifyAssumption DEF Reached, InstanceType
<1>7. Changed' => y.snapshot < remote[y.id].version
  BY <1>2, <1>5 DEF SpotifyInv
<1>8. call.of \notin twice' /\ y.count # None
        /\ y.snapshot = remote[y.id].version => y.count = remote[y.id].count
  BY <1>1, <1>2, <1>5 DEF SpotifyInv, TracksRight, Inst
<1> QED  BY <1>1, <1>2, <1>4, <1>5, <1>6, <1>7, <1>8, Applying

LEMMA InvOneMinute ==
    ASSUME SpotifyInv, NEW k \in 1 .. Len(list), OneMinute(k)
    PROVE  SpotifyInv'
<1> DEFINE y == [list[k] EXCEPT !.recent = FALSE]
<1>1. list[k] \in InstanceType /\ list \in Seq(InstanceType)
  BY DEF SpotifyInv, Types
<1>2. /\ y \in InstanceType /\ list' = [list EXCEPT ![k] = y]
      /\ y.id = list[k].id /\ y.snapshot = list[k].snapshot
      /\ y.seen = list[k].seen /\ y.live = list[k].live /\ y.count = list[k].count
  BY <1>1 DEF OneMinute, InstanceType
<1> HIDE DEF y
<1>3. /\ list' \in Seq(InstanceType) /\ Len(list') = Len(list)
      /\ list'[k] = y
      /\ \A j \in 1 .. Len(list) : j # k => list'[j] = list[j]
  BY <1>1, <1>2, ReplacedType
<1>4. UNCHANGED <<library, remote, call, twice>>
  BY DEF OneMinute, history
<1>5. Types'
  BY <1>3, <1>4 DEF SpotifyInv, Types
<1>6. (\A j \in 1 .. Len(list) : Reached(list[j]))'
  BY <1>2, <1>3, <1>4 DEF SpotifyInv, Reached
<1>7. (Changed => Inst.snapshot < remote[Inst.id].version)'
  BY <1>2, <1>3, <1>4 DEF SpotifyInv, Changed, Inst, Types
<1>8. TracksRight'
  BY <1>2, <1>3, <1>4 DEF SpotifyInv, TracksRight
<1> QED  BY <1>5, <1>6, <1>7, <1>8 DEF SpotifyInv

LEMMA InvRefresh ==
    ASSUME SpotifyInv, NEW answer \in SetToSeqs(library), Refresh(answer)
    PROVE  SpotifyInv'
<1> DEFINE new == Unknown(Ids, answer)
           found == FoundFirst(Ids, answer)
<1>1. answer \in Seq(Playlists)
  BY AnswerType DEF SpotifyInv, Types
<1>2. /\ new \in Seq(InstanceType) /\ found \in 0 .. Len(answer)
      /\ Len(new) = Len(answer) - found
      /\ \A i \in 1 .. Len(new) : new[i] = NewInstance(answer[found + i])
  BY <1>1, UnknownType DEF SpotifyInv
<1> HIDE DEF new, found
<1>3. /\ list' = list \o new /\ call = None
      /\ UNCHANGED <<library, remote, call, twice>>
  BY DEF Refresh, new
<1>4. /\ list' \in Seq(InstanceType) /\ Len(list') = Len(list) + Len(new)
      /\ \A k \in 1 .. Len(list) : list'[k] = list[k]
      /\ \A k \in 1 .. Len(list') : k \notin 1 .. Len(list) =>
            k - Len(list) \in 1 .. Len(new) /\ list'[k] = new[k - Len(list)]
  <2>1. list \in Seq(InstanceType) /\ Len(list) \in Nat /\ Len(new) \in Nat
    BY <1>2 DEF SpotifyInv, Types
  <2>2. list' \in Seq(InstanceType) /\ Len(list') = Len(list) + Len(new)
    <3>1. new \in Seq(InstanceType) /\ list' = list \o new
      BY <1>2, <1>3
    <3>2. list' \in Seq(InstanceType)
      BY <2>1, <3>1
    <3>3. Len(list') = Len(list) + Len(new)
      BY <2>1, <3>1
    <3> QED  BY <3>2, <3>3
  <2>3. \A k \in 1 .. Len(list) + Len(new) :
           list'[k] = IF k <= Len(list) THEN list[k] ELSE new[k - Len(list)]
    BY <1>2, <1>3, <2>1
  <2> QED  BY <2>1, <2>2, <2>3
<1>5. Types'
  BY <1>3, <1>4 DEF SpotifyInv, Types
<1>6. ASSUME NEW k \in 1 .. Len(list'), k \notin 1 .. Len(list)
      PROVE  Reached(list'[k]) /\ list'[k].count = None
  <2>1. PICK p \in Playlists : list'[k] = NewInstance(p)
    <3>1. /\ k - Len(list) \in 1 .. Len(new)
          /\ list'[k] = NewInstance(answer[found + (k - Len(list))])
      BY <1>2, <1>4, <1>6
    <3>2. found + (k - Len(list)) \in 1 .. Len(answer)
      BY <1>2, <3>1
    <3> QED  BY <1>1, <3>1, <3>2
  <2>2. remote[p].version \in Nat
    BY DEF SpotifyInv, Types
  <2> QED  BY <2>1, <2>2 DEF NewInstance, Reached
<1>7. (\A k \in 1 .. Len(list) : Reached(list[k]))'
  BY <1>3, <1>4, <1>6 DEF SpotifyInv, Reached
<1>8. TracksRight'
  <2> SUFFICES ASSUME NEW k \in 1 .. Len(list'), k \notin twice', list'[k].count # None,
                      list'[k].snapshot = remote'[list'[k].id].version
               PROVE  list'[k].count = remote'[list'[k].id].count
    BY DEF TracksRight
  <2>1. k \in 1 .. Len(list) /\ list'[k] = list[k]
    BY <1>4, <1>6
  <2> QED  BY <1>3, <2>1 DEF SpotifyInv, TracksRight
<1> QED  BY <1>3, <1>5, <1>7, <1>8 DEF SpotifyInv, Changed

LEMMA InvReset ==
    ASSUME SpotifyInv, Reset
    PROVE  SpotifyInv'
BY DEF SpotifyInv, Reset, Types, Changed, TracksRight

LEMMA InvBegin ==
    ASSUME SpotifyInv, NEW op \in {"read", "add", "remove"}, NEW k \in Nat,
           NEW force \in BOOLEAN, Begin(op, k, force)
    PROVE  SpotifyInv'
<1>1. call' \in CallType /\ call'.of = k /\ call'.at # "after"
  BY DEF Begin, CallType
<1> QED  BY <1>1, NotChanged DEF Begin, cached, history, Changed

LEMMA InvLeaveTracklist ==
    ASSUME SpotifyInv, LeaveTracklist
    PROVE  SpotifyInv'
BY NotChanged DEF LeaveTracklist, cached, history, Changed
\* The invariant holds, whatever is done.
LEMMA InvInit ==
    ASSUME Init
    PROVE  SpotifyInv
BY DEF Init, SpotifyInv, Types, Changed, TracksRight

LEMMA InvNext ==
    ASSUME SpotifyInv, [Next]_vars
    PROVE  SpotifyInv'
<1>1. ASSUME NEW p \in Playlists, Follow(p) \/ Unfollow(p)  PROVE SpotifyInv'
  <2>1. library' \in SUBSET Playlists
    BY <1>1 DEF Follow, Unfollow, SpotifyInv, Types
  <2> QED  BY <1>1, <2>1, SameBooks DEF Follow, Unfollow, cached, history
<1>2. ASSUME NEW p \in Playlists, Edit(p)  PROVE SpotifyInv'
  BY <1>2, InvEdit
<1>3. CASE TenMinutes
  BY <1>3, SameBooks DEF TenMinutes, history, SpotifyInv, Types
<1>4. ASSUME NEW k \in 1 .. Len(list), OneMinute(k)  PROVE SpotifyInv'
  BY <1>4, InvOneMinute
<1>5. ASSUME NEW answer \in SetToSeqs(library), Refresh(answer)  PROVE SpotifyInv'
  BY <1>5, InvRefresh
<1>6. CASE RefreshFails
  BY <1>6, SameBooks DEF RefreshFails, SpotifyInv, Types
<1>7. CASE Reset
  BY <1>7, InvReset
<1>8. ASSUME NEW k \in 1 .. MaxInstances, NEW force \in BOOLEAN,
             Begin("read", k, FALSE) \/ Begin("remove", k, FALSE) \/ Begin("add", k, force)
      PROVE  SpotifyInv'
  <2>1. k \in Nat
    BY SpotifyAssumption
  <2> QED  BY <1>8, <2>1, InvBegin
<1>9. CASE Unchanged
  BY <1>9, InvUnchanged
<1>10. CASE Outdated
  BY <1>10, InvOutdated
<1>11. CASE Fetch
  BY <1>11, InvFetch
<1>12. CASE Request
  BY <1>12, InvRequest
<1>13. CASE CallFails
  BY <1>13, InvCallFails
<1>14. CASE LeaveTracklist
  BY <1>14, InvLeaveTracklist
<1>15. CASE UNCHANGED vars
  BY <1>15, SameBooks DEF vars, cached, history, SpotifyInv, Types
<1> QED  BY <1>1, <1>2, <1>3, <1>4, <1>5, <1>6, <1>7, <1>8, <1>9, <1>10,
            <1>11, <1>12, <1>13, <1>14, <1>15 DEF Next

LEMMA Bookkeeping == Spec => []SpotifyInv
<1>1. Init => SpotifyInv
  BY InvInit
<1>2. SpotifyInv /\ [Next]_vars => SpotifyInv'
  BY InvNext
<1> QED  BY <1>1, <1>2, PTL DEF Spec

\* A playlist's snapshot ID is never newer than its tracklist: a change at the
\* service is noticed sooner or later, whenever it came (live_snapshot_id,
\* tracks and updates_available).
THEOREM SnapshotNeverAhead == Spec => []SnapshotNotAhead
<1>1. SpotifyInv => SnapshotNotAhead
  BY DEF SpotifyInv, Reached, SnapshotNotAhead
<1> QED  BY <1>1, Bookkeeping, PTL

\* A tracklist that counts as up to date is the service's, however often tracks
\* were added and removed through the client (add_tracks_to_playlist,
\* remove_tracks_from_playlist), but for tracklists fetched after the request.
THEOREM UpToDateTracks == Spec => []TracksRight
<1>1. SpotifyInv => TracksRight
  BY DEF SpotifyInv
<1> QED  BY <1>1, Bookkeeping, PTL
-----------------------------------------------------------------------------
(* The list                                                                *)

LEMMA OneInit ==
    ASSUME Init
    PROVE  OneInstancePerPlaylist
BY DEF Init, OneInstancePerPlaylist

\* Only a refresh adds instances, and what it adds was not in the list.
LEMMA OneRefresh ==
    ASSUME Types, OneInstancePerPlaylist,
           NEW answer \in SetToSeqs(library), Refresh(answer)
    PROVE  OneInstancePerPlaylist'
<1> SUFFICES ASSUME ordered'  PROVE (\A i, j \in 1 .. Len(list) :
                                        list[i].id = list[j].id => i = j)'
  BY DEF OneInstancePerPlaylist
<1> DEFINE new == Unknown(Ids, answer)
           found == FoundFirst(Ids, answer)
<1>1. /\ InOrder(answer)
      /\ \A i, j \in 1 .. Len(list) : list[i].id = list[j].id => i = j
  BY DEF Refresh, OneInstancePerPlaylist
<1>2. /\ answer \in Seq(Playlists)
      /\ \A i, j \in 1 .. Len(answer) : i # j => answer[i] # answer[j]
  BY AnswerType DEF Types
<1>3. /\ new \in Seq(InstanceType) /\ found \in 0 .. Len(answer)
      /\ Len(new) = Len(answer) - found
      /\ \A i \in 1 .. Len(new) : new[i].id = answer[found + i]
  <2>1. /\ new \in Seq(InstanceType) /\ found \in 0 .. Len(answer)
        /\ Len(new) = Len(answer) - found
        /\ \A i \in 1 .. Len(new) : new[i] = NewInstance(answer[found + i])
    BY <1>2, UnknownType
  <2> HIDE DEF new, found
  <2>2. \A p : NewInstance(p).id = p
    BY DEF NewInstance
  <2> QED  BY <2>1, <2>2
<1>4. ASSUME NEW k \in 1 .. Len(list), NEW i \in 1 .. Len(new)
      PROVE  list[k].id # new[i].id
  <2>1. found + i \in 1 .. Len(answer) /\ ~(found + i <= found)
    BY <1>3
  <2> HIDE DEF new
  <2>2. list \in Seq(InstanceType)
    BY DEF Types
  <2>3. list[k].id = answer[found + i] => found + i <= found
    BY <1>1, <1>2, <2>1, <2>2, KnownFound
  <2> QED  BY <2>1, <2>3, <1>3
<1>5. ASSUME NEW i \in 1 .. Len(new), NEW j \in 1 .. Len(new), new[i].id = new[j].id
      PROVE  i = j
  <2>1. found + i \in 1 .. Len(answer) /\ found + j \in 1 .. Len(answer)
    BY <1>3
  <2> HIDE DEF new, found
  <2>2. answer[found + i] = answer[found + j]
    BY <1>3, <1>5
  <2>3. found + i = found + j
    BY <1>2, <2>1, <2>2
  <2> QED  BY <1>3, <2>3
<1>6. list' = list \o new
  BY DEF Refresh
<1> HIDE DEF new, found
<1>7. /\ Len(list') = Len(list) + Len(new) /\ Len(list) \in Nat /\ Len(new) \in Nat
      /\ \A k \in 1 .. Len(list') :
           \/ k \in 1 .. Len(list) /\ list'[k] = list[k]
           \/ k - Len(list) \in 1 .. Len(new) /\ list'[k] = new[k - Len(list)]
  <2>1. list \in Seq(InstanceType) /\ new \in Seq(InstanceType)
    BY <1>3 DEF Types
  <2>2. Len(list') = Len(list) + Len(new) /\ Len(list) \in Nat /\ Len(new) \in Nat
    BY <1>6, <2>1
  <2>3. \A k \in 1 .. Len(list) + Len(new) :
           list'[k] = IF k <= Len(list) THEN list[k] ELSE new[k - Len(list)]
    BY <1>6, <2>1
  <2> QED  BY <2>2, <2>3
<1>8. ASSUME NEW i \in 1 .. Len(list'), NEW j \in 1 .. Len(list'),
             list'[i].id = list'[j].id
      PROVE  i = j
  <2>1. CASE i \in 1 .. Len(list) /\ list'[i] = list[i]
             /\ j \in 1 .. Len(list) /\ list'[j] = list[j]
    BY <1>1, <1>8, <2>1
  <2>2. CASE i - Len(list) \in 1 .. Len(new) /\ list'[i] = new[i - Len(list)]
             /\ j - Len(list) \in 1 .. Len(new) /\ list'[j] = new[j - Len(list)]
    <3>1. i - Len(list) = j - Len(list)
      BY <1>5, <1>8, <2>2
    <3> QED  BY <1>7, <3>1
  <2>3. CASE i \in 1 .. Len(list) /\ list'[i] = list[i]
             /\ j - Len(list) \in 1 .. Len(new) /\ list'[j] = new[j - Len(list)]
    BY <1>4, <1>8, <2>3
  <2>4. CASE i - Len(list) \in 1 .. Len(new) /\ list'[i] = new[i - Len(list)]
             /\ j \in 1 .. Len(list) /\ list'[j] = list[j]
    BY <1>4, <1>8, <2>4
  <2> QED  BY <1>7, <2>1, <2>2, <2>3, <2>4
<1> QED  BY <1>8
\* The other steps leave the playlists of the instances as they are.
LEMMA OneReplaced ==
    ASSUME Types, OneInstancePerPlaylist, ordered' = ordered,
           NEW k \in 1 .. Len(list), NEW y \in InstanceType, y.id = list[k].id,
           list' = [list EXCEPT ![k] = y]
    PROVE  OneInstancePerPlaylist'
<1>1. /\ Len(list') = Len(list)
      /\ \A j \in 1 .. Len(list) : list'[j].id = list[j].id
  BY ReplacedType DEF Types
<1> QED  BY <1>1 DEF OneInstancePerPlaylist

LEMMA OneNext ==
    ASSUME Types, OneInstancePerPlaylist, [Next]_vars
    PROVE  OneInstancePerPlaylist'
<1>1. CASE list' = list /\ ordered' = ordered
  BY <1>1 DEF OneInstancePerPlaylist
<1>2. ASSUME NEW answer \in SetToSeqs(library), Refresh(answer)
      PROVE  OneInstancePerPlaylist'
  BY <1>2, OneRefresh
<1>3. ASSUME NEW k \in 1 .. Len(list), OneMinute(k)
      PROVE  OneInstancePerPlaylist'
  <2> DEFINE y == [list[k] EXCEPT !.recent = FALSE]
  <2>1. list[k] \in InstanceType
    BY DEF Types
  <2>2. y \in InstanceType /\ y.id = list[k].id
    BY <2>1 DEF InstanceType
  <2>3. list' = [list EXCEPT ![k] = y] /\ ordered' = ordered
    BY <1>3 DEF OneMinute, history
  <2> HIDE DEF y
  <2> QED  BY <2>2, <2>3, OneReplaced
<1>4. CASE Reset
  BY <1>4 DEF Reset, OneInstancePerPlaylist
<1>5. CASE Unchanged \/ Outdated \/ Fetch
  <2>1. /\ call # None /\ call \in CallType /\ call.of \in 1 .. Len(list)
        /\ Inst \in InstanceType /\ Inst = list[call.of]
    BY <1>5 DEF Unchanged, Outdated, Fetch, Evaluating, Types, Inst
  <2>2. ordered' = ordered
    BY <1>5 DEF Unchanged, Outdated, Fetch, history
  <2>3. /\ Looked(Inst) \in InstanceType /\ Looked(Inst).id = Inst.id
        /\ Fetched(Inst) \in InstanceType /\ Fetched(Inst).id = Inst.id
        /\ Looked(Inst).count = Inst.count /\ Fetched(Inst).count = remote[Inst.id].count
    BY <2>1, LookedType, FetchedType
  <2>4. ASSUME NEW x \in InstanceType, x.count \in Nat
        PROVE  Noted(x) \in InstanceType /\ Noted(x).id = x.id
    <3>1. CountAfter(x.count) \in Nat
      BY <2>1, <2>4, CountAfterType
    <3> QED  BY <2>4, <3>1 DEF Noted, InstanceType
  <2>5. CASE Unchanged
    <3>1. Inst.count \in Nat
      BY <2>1, <2>5 DEF Unchanged, InstanceType
    <3>2. list' = [list EXCEPT ![call.of] = Noted(Looked(Inst))]
      BY <2>5 DEF Unchanged, Inst
    <3> QED  BY <2>1, <2>2, <2>3, <2>4, <3>1, <3>2, OneReplaced
  <2>6. CASE Fetch
    <3>1. remote[Inst.id].count \in Nat
      BY <2>1 DEF Types, InstanceType
    <3>2. list' = [list EXCEPT ![call.of] = Noted(Fetched(Inst))]
      BY <2>6 DEF Fetch, Inst
    <3> QED  BY <2>1, <2>2, <2>3, <2>4, <3>1, <3>2, OneReplaced
  <2>7. CASE Outdated
    <3>1. list' = list \/ list' = [list EXCEPT ![call.of] = Looked(Inst)]
      BY <2>7 DEF Outdated, Inst
    <3> QED  BY <1>1, <2>1, <2>2, <2>3, <3>1, OneReplaced
  <2> QED  BY <1>5, <2>5, <2>6, <2>7
<1>6. \A p \in Playlists : Follow(p) \/ Unfollow(p) \/ Edit(p) => list' = list /\ ordered' = ordered
  BY DEF Follow, Unfollow, Edit, cached, history
<1>7. TenMinutes \/ RefreshFails => list' = list /\ ordered' = ordered
  BY DEF TenMinutes, RefreshFails, history
<1>8. \A op, k, force : Begin(op, k, force) => list' = list /\ ordered' = ordered
  BY DEF Begin, cached, history
<1>9. Request \/ CallFails \/ LeaveTracklist \/ UNCHANGED vars
         => list' = list /\ ordered' = ordered
  BY DEF Request, CallFails, LeaveTracklist, vars, cached, history
<1> QED  BY <1>1, <1>2, <1>3, <1>4, <1>5, <1>6, <1>7, <1>8, <1>9 DEF Next

\* As long as the service lists the known playlists first, and in order, the
\* list has one instance per playlist (User.playlists).
THEOREM OneInstance == Spec => []OneInstancePerPlaylist
<1>1. Init => OneInstancePerPlaylist
  BY OneInit
<1>2. SpotifyInv /\ OneInstancePerPlaylist /\ [Next]_vars => OneInstancePerPlaylist'
  BY OneNext DEF SpotifyInv
<1> QED  BY <1>1, <1>2, Bookkeeping, PTL DEF Spec
ListInv == ListReadable /\ failures \in Nat

LEMMA ListNext ==
    ASSUME ListInv, [Next]_vars
    PROVE  /\ ListInv'
           /\ fresh' /\ ~fresh /\ failures' = failures
                => \E answer \in SetToSeqs(library) : Refresh(answer)
<1> USE DEF ListInv, ListReadable
<1>1. CASE UNCHANGED <<listed, timed, fresh, unfetched>> /\ failures' \in Nat
  BY <1>1
<1>2. CASE \E answer \in SetToSeqs(library) : Refresh(answer)
  BY <1>2 DEF Refresh, bounds
<1>3. CASE RefreshFails \/ Reset \/ TenMinutes
  <2>1. CASE RefreshFails
    <3>1. failures' \in Nat /\ failures' # failures
      BY <2>1 DEF RefreshFails, Failure
    <3>2. unfetched' = ~listed /\ listed' = listed
      BY <2>1 DEF RefreshFails
    <3>3. ListReadable'
      BY ONLY <3>2, Zenon DEF ListReadable
    <3> QED  BY <3>1, <3>3
  <2>2. CASE Reset
    BY <2>2 DEF Reset, bounds
  <2>3. CASE TenMinutes
    BY <2>3 DEF TenMinutes, bounds, history
  <2> QED  BY <1>3, <2>1, <2>2, <2>3
<1>4. \A p \in Playlists : Follow(p) \/ Unfollow(p) \/ Edit(p)
         => UNCHANGED <<listed, timed, fresh, unfetched>> /\ failures' \in Nat
  BY DEF Follow, Unfollow, Edit, cached, history
<1>5. \A op, k, force : OneMinute(k) \/ Begin(op, k, force)
         => UNCHANGED <<listed, timed, fresh, unfetched>> /\ failures' \in Nat
  BY DEF OneMinute, Begin, cached, history, bounds
<1>6. Unchanged \/ Outdated \/ Fetch
         => UNCHANGED <<listed, timed, fresh, unfetched>> /\ failures' \in Nat
  BY DEF Unchanged, Outdated, Fetch, history, bounds
<1>7. Request \/ CallFails \/ LeaveTracklist \/ UNCHANGED vars
         => UNCHANGED <<listed, timed, fresh, unfetched>> /\ failures' \in Nat
  BY DEF Request, CallFails, LeaveTracklist, Failure, vars, cached, history, bounds
<1> QED  BY <1>1, <1>2, <1>3, <1>4, <1>5, <1>6, <1>7 DEF Next

LEMMA ListKept == Spec => []ListInv
<1>1. Init => ListInv
  BY DEF Init, ListInv, ListReadable
<1> QED  BY <1>1, ListNext, PTL DEF Spec

\* The list can be read while its refresh time is recent, unless the first
\* request for it failed (User.playlists, reset_properties).
THEOREM RecentListReadable == Spec => []ListReadable
<1>1. ListInv => ListReadable
  BY DEF ListInv
<1> QED  BY <1>1, ListKept, PTL

\* What a refresh finds: an item that is not new is one of the list.
LEMMA RefreshCovers ==
    ASSUME Types, NEW answer \in SetToSeqs(library), Refresh(answer)
    PROVE  /\ \A p \in library : \E k \in 1 .. Len(list') : list'[k].id = p
           /\ IsPrefix(list, list')
<1> DEFINE new == Unknown(Ids, answer)
           found == FoundFirst(Ids, answer)
<1>1. /\ answer \in Seq(Playlists)
      /\ \A p \in library : \E i \in 1 .. Len(answer) : answer[i] = p
  BY AnswerType DEF Types
<1>2. /\ new \in Seq(InstanceType) /\ found \in 0 .. Len(answer)
      /\ Len(new) = Len(answer) - found
      /\ \A i \in 1 .. Len(new) : new[i] = NewInstance(answer[found + i])
  BY <1>1, UnknownType
<1>3. list' = list \o new /\ list \in Seq(InstanceType)
  BY DEF Refresh, Types
<1>4. /\ Ids \in Seq(Playlists) /\ Len(Ids) = Len(list)
      /\ \A i \in 1 .. Len(list) : Ids[i] = list[i].id
  BY <1>3, IdsType
<1>5. ASSUME NEW m \in 1 .. Len(answer), m <= found
      PROVE  \E k \in 1 .. Len(list) : list[k].id = answer[m]
  <2>1. Found(Ids, answer, m)
    BY <1>1, <1>4, <1>5, CountedFound
  <2> QED  BY <1>4, <2>1 DEF Found
<1>6. ASSUME NEW m \in 1 .. Len(answer), m > found
      PROVE  \E i \in 1 .. Len(new) : new[i].id = answer[m]
  <2> HIDE DEF new, found
  <2>1. m - found \in 1 .. Len(new) /\ found + (m - found) = m
    BY <1>2, <1>6
  <2>2. new[m - found] = NewInstance(answer[m])
    BY <1>2, <2>1
  <2> QED  BY <2>1, <2>2 DEF NewInstance
<1> HIDE DEF new, found
<1>7. /\ Len(list') = Len(list) + Len(new) /\ Len(list) \in Nat /\ Len(new) \in Nat
      /\ \A k \in 1 .. Len(list) : list'[k] = list[k]
      /\ \A i \in 1 .. Len(new) : list'[Len(list) + i] = new[i]
  <2>1. new \in Seq(InstanceType)
    BY <1>2
  <2>2. Len(list') = Len(list) + Len(new) /\ Len(list) \in Nat /\ Len(new) \in Nat
    BY <1>3, <2>1
  <2>3. \A k \in 1 .. Len(list) + Len(new) :
           list'[k] = IF k <= Len(list) THEN list[k] ELSE new[k - Len(list)]
    BY <1>3, <2>1
  <2>4. \A i \in 1 .. Len(new) : Len(list) + i \in 1 .. Len(list) + Len(new)
            /\ ~(Len(list) + i <= Len(list)) /\ Len(list) + i - Len(list) = i
    BY <2>2
  <2> QED  BY <2>2, <2>3, <2>4
<1>8. ASSUME NEW p \in library
      PROVE  \E k \in 1 .. Len(list') : list'[k].id = p
  <2>1. PICK m \in 1 .. Len(answer) : answer[m] = p
    BY <1>1
  <2>2. CASE m <= found
    BY <1>5, <1>7, <2>1, <2>2
  <2>3. CASE m > found
    <3>1. PICK i \in 1 .. Len(new) : new[i].id = p
      BY <1>6, <2>1, <2>3
    <3>2. Len(list) + i \in 1 .. Len(list')
      BY <1>7
    <3> QED  BY <1>7, <3>1, <3>2
  <2> QED  BY <1>2, <2>2, <2>3
<1>9. IsPrefix(list, list')
  BY <1>3, <1>7, <1>2 DEF IsPrefix
<1> QED  BY <1>8, <1>9

\* After a refresh every playlist of the library has an instance, and every
\* instance known before is still where it was (User.playlists).
THEOREM RefreshComplete == Spec => RefreshFindsAll
<1>1. /\ Types /\ ListInv /\ [Next]_vars
      => [fresh' /\ ~fresh /\ failures' = failures =>
            /\ \A p \in library : \E k \in 1 .. Len(list') : list'[k].id = p
            /\ IsPrefix(list, list')]_vars
  BY ListNext, RefreshCovers
<1>2. SpotifyInv => Types
  BY DEF SpotifyInv
<1> QED  BY <1>1, <1>2, Bookkeeping, ListKept, PTL DEF Spec, RefreshFindsAll

=============================================================================
