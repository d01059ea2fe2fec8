----------------------------- MODULE DriveProofs -----------------------------
(* Proofs about DriveTree, for every drive and any number of objects made.  *)
EXTENDS DriveTree, TLAPS

\* The parts depend on one another: a list is complete only if nothing but
\* children gets into it, which follows from what parents the objects know.
TreeInv == /\ TypeOK
           /\ UniqueChildren
           /\ ListedUnderParent
           /\ ParentRight
           /\ LoadedComplete

\* No two objects of a set were made for one directory.
OneEach(S) == \A x, y \in S : IdOf(x) = IdOf(y) => x = y

\* What every operation does to the tree: objects appear and stay, an object
\* that knows its parent keeps it, what enters a list knows its owner, and
\* the lists of all objects but o keep the directories they have.
Typed == /\ made' \in [Dirs -> 0 .. MaxCopies]
         /\ parent' \in [Objs -> Existing' \cup {None}]
         /\ dirs' \in [Objs -> SUBSET (Existing' \ {Drive})]
         /\ allDirs' \in SUBSET (Existing' \ {Drive})
         /\ Existing \subseteq Existing'

Progress(o) ==
    /\ Typed
    /\ UniqueChildren'
    /\ \A x \in Existing : parent[x] # None => parent'[x] = parent[x]
    /\ \A p \in Objs : \A x \in dirs'[p] : x \in dirs[p] \/ parent'[x] = p
    /\ ParentRight'
    /\ \A p \in Objs \ {o} : Ids(dirs[p]) \subseteq Ids(dirs'[p])

-----------------------------------------------------------------------------
(* Objects                                                                 *)

\* The drive is no directory, and the ID of an object is that of its entity.
LEMMA Objects ==
    /\ Drive \in Objs /\ IdOf(Drive) = Root
    /\ \A o \in Objs : o = Drive \/ (IdOf(o) \in Dirs /\ o[2] \in 1 .. MaxCopies)
    /\ \A o \in Objs : o # Drive <=> IdOf(o) \in Dirs
BY DriveAssumption DEF Drive, Objs, IdOf

\* Objects that are made exist afterwards and did not before; the others stay.
LEMMA Making ==
    ASSUME TypeOK, NEW I \in SUBSET Dirs, Make(I)
    PROVE  /\ made' \in [Dirs -> 0 .. MaxCopies]
           /\ Existing' = Existing \cup News(I)
           /\ News(I) \cap Existing = {}
           /\ News(I) \subseteq Objs \ {Drive}
           /\ \A x \in News(I) : IdOf(x) \in I /\ x = New(IdOf(x))
<1> USE DriveAssumption
<1>1. made' \in [Dirs -> 0 .. MaxCopies]
  BY DEF TypeOK, Make
<1>2. \A i \in I : /\ New(i) \in Objs /\ New(i) # Drive
                   /\ New(i)[2] = made[i] + 1 /\ New(i)[1] = i
  BY Objects DEF TypeOK, Make, New, Objs, Drive
<1>3. News(I) \cap Existing = {}
  BY <1>2 DEF News, Existing, Exists, TypeOK
<1>4. ASSUME NEW o \in Objs, o \in Existing'
      PROVE  o \in Existing \cup News(I)
  <2>1. CASE o = Drive
    BY <2>1 DEF Existing, Exists
  <2>2. CASE o # Drive
    <3>1. /\ o[1] \in Dirs /\ o[2] \in 1 .. MaxCopies /\ o = <<o[1], o[2]>>
          /\ o[2] <= made'[o[1]]
      BY <2>2, <1>4 DEF Existing, Exists, Objs, Drive
    <3>2. o[2] <= made[o[1]] \/ (o[1] \in I /\ o[2] = made[o[1]] + 1)
      BY <3>1 DEF Make, TypeOK
    <3> QED BY <3>1, <3>2 DEF Existing, Exists, News, New
  <2> QED BY <2>1, <2>2
<1>5. ASSUME NEW o \in Existing \cup News(I)
      PROVE  o \in Existing'
  <2>1. CASE o \in Existing
    BY <2>1, <1>1, Objects DEF Existing, Exists, Make, TypeOK, IdOf
  <2>2. CASE o \in News(I)
    BY <2>2, <1>2 DEF Existing, Exists, Make, TypeOK, News
  <2> QED BY <2>1, <2>2
<1>6. Existing' = Existing \cup News(I)
  BY <1>4, <1>5 DEF Existing
<1> QED BY <1>1, <1>2, <1>3, <1>6 DEF News, IdOf

\* What _add_directory keeps.
LEMMA Adding ==
    ASSUME NEW S, NEW X
    PROVE  /\ S \subseteq AddTo(S, X) /\ AddTo(S, X) \subseteq S \cup X
           /\ Ids(AddTo(S, X)) = Ids(S) \cup Ids(X)
           /\ OneEach(S) /\ OneEach(X) => OneEach(AddTo(S, X))
BY DEF AddTo, Ids, OneEach

\* UniqueChildren, list by list.
LEMMA Unique ==
    UniqueChildren <=> OneEach(allDirs) /\ \A p \in Objs : OneEach(dirs[p])
BY DEF UniqueChildren, OneEach

\* New objects are one each.
LEMMA NewOnes ==
    ASSUME NEW I
    PROVE  OneEach(News(I)) /\ Ids(News(I)) = I
<1>1. \A i \in I : New(i) \in News(I) /\ IdOf(New(i)) = i
  BY DEF News, New, IdOf
<1>2. \A x \in News(I) : \E i \in I : x = New(i)
  BY DEF News
<1>3. OneEach(News(I))
  BY <1>1, <1>2 DEF OneEach
<1>4. ASSUME NEW j PROVE j \in Ids(News(I)) <=> j \in I
  BY <1>1, <1>2 DEF Ids
<1> QED BY <1>3, <1>4

-----------------------------------------------------------------------------
(* What the operations do to the tree                                      *)

\* directories.
LEMMA LoadStep ==
    ASSUME TreeInv, NEW o \in Objs, Exists(o), up' = up, LoadDirs(o)
    PROVE  Progress(o) /\ Ids(dirs'[o]) = ChildDirs(IdOf(o))
<1> DEFINE I == ChildDirs(IdOf(o))
<1>1. I \in SUBSET Dirs /\ Make(I)
  BY DEF LoadDirs, ChildDirs
<1> HIDE DEF I
<1>2. TypeOK /\ UniqueChildren /\ ListedUnderParent /\ ParentRight
  BY DEF TreeInv
<1>3. /\ parent' = [x \in Objs |-> IF x \in News(I) THEN o ELSE parent[x]]
      /\ dirs' = [dirs EXCEPT ![o] = News(I)]
      /\ allDirs' = AddToAll(o, News(I))
  BY DEF LoadDirs, SetParents, I
<1>4. /\ made' \in [Dirs -> 0 .. MaxCopies]
      /\ Existing' = Existing \cup News(I)
      /\ News(I) \cap Existing = {}
      /\ News(I) \subseteq Objs \ {Drive}
      /\ \A x \in News(I) : IdOf(x) \in I /\ x = New(IdOf(x))
  BY <1>1, <1>2, Making
<1>5. o \in Existing
  BY DEF Existing
<1>6. allDirs' \subseteq allDirs \cup News(I) /\ OneEach(allDirs')
  BY <1>2, <1>3, Adding, Unique, NewOnes DEF AddToAll
<1>7. Typed
  BY <1>2, <1>3, <1>4, <1>5, <1>6 DEF Typed, TypeOK
<1>8. dirs'[o] = News(I) /\ \A p \in Objs \ {o} : dirs'[p] = dirs[p]
  BY <1>2, <1>3 DEF TypeOK
<1>9. UniqueChildren'
  <2>1. \A p \in Objs : OneEach(dirs'[p])
    BY <1>2, <1>8, Unique, NewOnes
  <2> QED BY <2>1, <1>6 DEF UniqueChildren, OneEach
<1>10. \A x \in Existing : parent'[x] = parent[x]
  BY <1>3, <1>4 DEF Existing
<1>11. \A x \in News(I) : parent'[x] = o /\ up[IdOf(x)] = IdOf(o)
  BY <1>3, <1>4 DEF I, ChildDirs
<1>12. ParentRight'
  BY <1>2, <1>4, <1>5, <1>10, <1>11, DriveAssumption DEF ParentRight
<1> QED BY <1>4, <1>7, <1>8, <1>9, <1>10, <1>11, <1>12, NewOnes DEF Progress, I

\* What from_json_response makes of the lists of the drive.
LEMMA Adopting ==
    ASSUME TypeOK, UniqueChildren, NEW i \in Dirs, Make({i})
    PROVE  LET x == New(i)
           IN  /\ DriveWith(x) \in [Objs -> SUBSET (Existing' \ {Drive})]
               /\ AllWith(x) \in SUBSET (Existing' \ {Drive})
               /\ OneEach(AllWith(x))
               /\ \A p \in Objs :
                      /\ OneEach(DriveWith(x)[p])
                      /\ dirs[p] \subseteq DriveWith(x)[p]
                      /\ DriveWith(x)[p] \subseteq dirs[p] \cup {x}
                      /\ x \in DriveWith(x)[p] => p = AdoptedBy(i)
<1> DEFINE x == New(i)
<1>1. /\ Existing' = Existing \cup {x} /\ x \notin Existing
      /\ x \in Objs \ {Drive} /\ IdOf(x) = i
  <2>1. News({i}) = {x}
    BY DEF News
  <2> HIDE DEF x
  <2>2. {i} \in SUBSET Dirs
    OBVIOUS
  <2>3. /\ Existing' = Existing \cup News({i})
        /\ News({i}) \cap Existing = {}
        /\ News({i}) \subseteq Objs \ {Drive}
        /\ \A y \in News({i}) : IdOf(y) \in {i}
    BY <2>2, Making
  <2> QED BY <2>1, <2>3
<1> HIDE DEF x
<1>2. OneEach({x}) /\ OneEach(allDirs) /\ \A p \in Objs : OneEach(dirs[p])
  BY Unique DEF OneEach
<1>3. /\ \A p \in Objs : dirs[p] \in SUBSET (Existing \ {Drive})
      /\ allDirs \in SUBSET (Existing \ {Drive})
      /\ dirs \in [Objs -> SUBSET (Existing \ {Drive})]
  BY DEF TypeOK
<1>4. /\ AllWith(x) \subseteq allDirs \cup {x} /\ OneEach(AllWith(x))
  BY <1>2, Adding DEF AllWith
<1>5. \A p \in Objs :
         DriveWith(x)[p] = IF p = Drive /\ up[i] = Root THEN AddTo(dirs[p], {x})
                                                       ELSE dirs[p]
  BY <1>1, <1>3 DEF DriveWith
<1>6. ASSUME NEW p \in Objs
      PROVE  /\ OneEach(DriveWith(x)[p])
             /\ dirs[p] \subseteq DriveWith(x)[p]
             /\ DriveWith(x)[p] \subseteq dirs[p] \cup {x}
  <2>1. CASE DriveWith(x)[p] = dirs[p]
    BY <2>1, <1>2
  <2>2. CASE DriveWith(x)[p] = AddTo(dirs[p], {x})
    BY <2>2, <1>2, Adding
  <2> QED BY <1>5, <2>1, <2>2
<1>7. DriveWith(x) \in [Objs -> SUBSET (Existing' \ {Drive})]
  <2>1. /\ DOMAIN DriveWith(x) = Objs
        /\ DriveWith(x) = [p \in Objs |-> DriveWith(x)[p]]
    BY <1>3 DEF DriveWith
  <2>2. \A p \in Objs : DriveWith(x)[p] \in SUBSET (Existing' \ {Drive})
    BY <1>1, <1>3, <1>6
  <2> QED BY <2>1, <2>2
<1>8. \A p \in Objs : x \in DriveWith(x)[p] => p = AdoptedBy(i)
  BY <1>1, <1>3, <1>5 DEF AdoptedBy
<1> QED BY <1>1, <1>3, <1>4, <1>6, <1>7, <1>8 DEF x

\* FindDirectory, and ParentOfFile when the parent is not known.
LEMMA FindStep ==
    ASSUME TreeInv, NEW i \in Dirs, up' = up, Make({i}),
           SetParents({New(i)}, AdoptedBy(i)),
           dirs' = DriveWith(New(i)), allDirs' = AllWith(New(i))
    PROVE  Progress(None)
<1> DEFINE x == New(i)
<1>1. /\ made' \in [Dirs -> 0 .. MaxCopies]
      /\ Existing' = Existing \cup {x} /\ x \notin Existing
      /\ x \in Objs \ {Drive} /\ IdOf(x) = i
  <2>1. News({i}) = {x}
    BY DEF News
  <2> QED BY <2>1, Making DEF TreeInv
<1>2. TypeOK /\ UniqueChildren /\ ListedUnderParent /\ ParentRight
  BY DEF TreeInv
<1>3. parent' = [y \in Objs |-> IF y \in {x} THEN AdoptedBy(i) ELSE parent[y]]
  BY DEF SetParents
<1>4. /\ DriveWith(x) \in [Objs -> SUBSET (Existing' \ {Drive})]
      /\ AllWith(x) \in SUBSET (Existing' \ {Drive})
      /\ OneEach(AllWith(x))
      /\ \A p \in Objs :
             /\ OneEach(DriveWith(x)[p])
             /\ dirs[p] \subseteq DriveWith(x)[p]
             /\ DriveWith(x)[p] \subseteq dirs[p] \cup {x}
             /\ x \in DriveWith(x)[p] => p = AdoptedBy(i)
  BY <1>2, Adopting
<1> HIDE DEF x
<1>5. AdoptedBy(i) \in Existing \cup {None} /\ AdoptedBy(i) \in {Drive, None}
  BY Objects DEF AdoptedBy, Existing, Exists
<1>6. Typed
  BY <1>1, <1>2, <1>3, <1>4, <1>5 DEF Typed, TypeOK, x
<1>7. UniqueChildren'
  BY <1>4 DEF UniqueChildren, OneEach, x
<1>8. \A y \in Existing : parent'[y] = parent[y]
  BY <1>1, <1>3 DEF Existing
<1>9. \A p \in Objs : \A y \in dirs'[p] : y \in dirs[p] \/ parent'[y] = p
  BY <1>1, <1>3, <1>4 DEF x
<1>10. ParentRight'
  BY <1>1, <1>2, <1>3, <1>8, Objects, DriveAssumption DEF ParentRight, AdoptedBy
<1>11. \A p \in Objs : Ids(dirs[p]) \subseteq Ids(dirs'[p])
  BY <1>4 DEF Ids, x
<1> QED BY <1>6, <1>7, <1>8, <1>9, <1>10, <1>11 DEF Progress

\* NavigateToDirectory.
LEMMA NavigateStep ==
    ASSUME TreeInv, NEW o \in Objs, NEW i \in Dirs, NavigateToDirectory(o, i)
    PROVE  Progress(None)
<1> DEFINE x == New(i)
<1>1. /\ made' \in [Dirs -> 0 .. MaxCopies]
      /\ Existing' = Existing \cup {x} /\ x \notin Existing
      /\ x \in Objs \ {Drive} /\ IdOf(x) = i
  <2>1. News({i}) = {x}
    BY DEF News
  <2> QED BY <2>1, Making DEF TreeInv, NavigateToDirectory
<1>2. TypeOK /\ UniqueChildren /\ ListedUnderParent /\ ParentRight
  BY DEF TreeInv
<1>3. /\ parent' = [y \in Objs |-> IF y \in {x} THEN o ELSE parent[y]]
      /\ dirs' = [dirs EXCEPT ![o] = AddTo(dirs[o], {x})]
      /\ allDirs' = IF o = Drive THEN AddTo(allDirs, {x}) ELSE allDirs
      /\ o \in Existing /\ up[i] = IdOf(o) /\ up' = up
  BY DEF NavigateToDirectory, SetParents, AddToAll, Existing
<1> HIDE DEF x
<1>4. OneEach({x}) /\ OneEach(allDirs) /\ \A p \in Objs : OneEach(dirs[p])
  BY <1>2, Unique DEF OneEach
<1>5. /\ allDirs' \subseteq allDirs \cup {x} /\ OneEach(allDirs')
  BY <1>3, <1>4, Adding
<1>6. /\ dirs'[o] = AddTo(dirs[o], {x})
      /\ \A p \in Objs \ {o} : dirs'[p] = dirs[p]
  BY <1>2, <1>3 DEF TypeOK
<1>7. /\ dirs[o] \subseteq dirs'[o] /\ dirs'[o] \subseteq dirs[o] \cup {x}
      /\ OneEach(dirs'[o])
  BY <1>4, <1>6, Adding
<1>8. Typed
  BY <1>1, <1>2, <1>3, <1>5, <1>7 DEF Typed, TypeOK
<1>9. UniqueChildren'
  BY <1>4, <1>5, <1>6, <1>7 DEF UniqueChildren, OneEach
<1>10. \A y \in Existing : parent'[y] = parent[y]
  BY <1>1, <1>3 DEF Existing
<1>11. parent'[x] = o
  BY <1>1, <1>3
<1>12. ParentRight'
  BY <1>1, <1>2, <1>3, <1>10, <1>11, DriveAssumption DEF ParentRight
<1> QED BY <1>6, <1>7, <1>8, <1>9, <1>10, <1>11, <1>12 DEF Progress, Ids

\* A directory among all directories is one of its ID.
LEMMA Looking ==
    ASSUME TypeOK, NEW i, IsKnown(i)
    PROVE  /\ Known(i) \in allDirs /\ IdOf(Known(i)) = i
           /\ Known(i) \in Existing \ {Drive}
BY DEF IsKnown, Known, Ids, TypeOK

\* ParentOfDirectory, when the parent is known.
LEMMA ParentKnownStep ==
    ASSUME TreeInv, NEW o \in Objs, ParentOfDirectory(o), IsKnown(up[IdOf(o)])
    PROVE  Progress(None)
<1> DEFINE p == Known(up[IdOf(o)])
<1>1. /\ p \in Existing \ {Drive} /\ IdOf(p) = up[IdOf(o)]
  BY Looking DEF TreeInv
<1>2. TypeOK /\ UniqueChildren /\ ListedUnderParent /\ ParentRight
  BY DEF TreeInv
<1>3. /\ parent' = [parent EXCEPT ![o] = p]
      /\ dirs' = [dirs EXCEPT ![p] = AddTo(dirs[p], {o})]
      /\ made' = made /\ allDirs' = allDirs /\ up' = up
      /\ o \in Existing \ {Drive} /\ parent[o] = None
  BY DEF ParentOfDirectory, Adopt, Existing
<1> HIDE DEF p
<1>4. Existing' = Existing
  BY <1>3 DEF Existing, Exists
<1>5. OneEach({o}) /\ OneEach(allDirs) /\ \A q \in Objs : OneEach(dirs[q])
  BY <1>2, Unique DEF OneEach
<1>6. /\ dirs'[p] = AddTo(dirs[p], {o})
      /\ \A q \in Objs \ {p} : dirs'[q] = dirs[q]
  BY <1>1, <1>2, <1>3 DEF TypeOK, Existing
<1>7. /\ dirs[p] \subseteq dirs'[p] /\ dirs'[p] \subseteq dirs[p] \cup {o}
      /\ OneEach(dirs'[p])
  <2>1. OneEach(dirs[p])
    BY <1>1, <1>5 DEF Existing
  <2> QED BY <2>1, <1>5, <1>6, Adding
<1>8. Typed
  BY <1>1, <1>2, <1>3, <1>4, <1>7 DEF Typed, TypeOK
<1>9. UniqueChildren'
  BY <1>3, <1>5, <1>6, <1>7 DEF UniqueChildren, OneEach
<1>10. /\ \A y \in Existing : parent[y] # None => parent'[y] = parent[y]
       /\ parent'[o] = p
       /\ \A y \in Existing \ {o} : parent'[y] = parent[y]
  BY <1>2, <1>3 DEF TypeOK, Existing
<1>11. ParentRight'
  BY <1>1, <1>2, <1>3, <1>4, <1>10, DriveAssumption DEF ParentRight, Existing
<1> QED BY SMTT(30), <1>6, <1>7, <1>8, <1>9, <1>10, <1>11 DEF Progress, Ids

\* ParentOfDirectory, when the parent is made: the lists of the drive get the
\* parent, whose own list gets the child.
LEMMA ParentNewStep ==
    ASSUME TreeInv, NEW o \in Objs, ParentOfDirectory(o), ~IsKnown(up[IdOf(o)]),
           up[IdOf(o)] # Root
    PROVE  Progress(None)
<1> DEFINE j == up[IdOf(o)]
           p == New(j)
<1>1. TypeOK /\ UniqueChildren /\ ListedUnderParent /\ ParentRight
  BY DEF TreeInv
<1>2. /\ o \in Existing \ {Drive} /\ parent[o] = None /\ Make({j}) /\ up' = up
      /\ parent' = [[parent EXCEPT ![o] = p] EXCEPT ![p] = AdoptedBy(j)]
      /\ dirs' = [DriveWith(p) EXCEPT ![p] = AddTo(DriveWith(p)[p], {o})]
      /\ allDirs' = AllWith(p)
  BY DEF ParentOfDirectory, Adopt, Existing
<1>3. j \in Dirs
  BY <1>1, <1>2, Objects DEF TypeOK
<1>4. /\ made' \in [Dirs -> 0 .. MaxCopies]
      /\ Existing' = Existing \cup {p} /\ p \notin Existing
      /\ p \in Objs \ {Drive} /\ IdOf(p) = j
  <2>1. News({j}) = {p}
    BY DEF News
  <2> QED BY SMTT(30), <1>1, <1>2, <1>3, <2>1, Making
<1>5. /\ DriveWith(p) \in [Objs -> SUBSET (Existing' \ {Drive})]
      /\ AllWith(p) \in SUBSET (Existing' \ {Drive})
      /\ OneEach(AllWith(p))
      /\ \A q \in Objs :
             /\ OneEach(DriveWith(p)[q])
             /\ dirs[q] \subseteq DriveWith(p)[q]
             /\ DriveWith(p)[q] \subseteq dirs[q] \cup {p}
             /\ p \in DriveWith(p)[q] => q = AdoptedBy(j)
  BY <1>1, <1>2, <1>3, Adopting
<1> HIDE DEF p, j
<1>6. AdoptedBy(j) \in {Drive, None} /\ Drive \in Existing /\ o # p
  BY <1>2, <1>4, Objects DEF AdoptedBy, Existing, Exists
<1>7. /\ parent'[o] = p /\ parent'[p] = AdoptedBy(j)
      /\ \A y \in Existing \ {o} : parent'[y] = parent[y]
      /\ parent' \in [Objs -> Existing' \cup {None}]
  BY <1>1, <1>2, <1>4, <1>6 DEF TypeOK, Existing
<1>8. /\ dirs'[p] = AddTo(DriveWith(p)[p], {o})
      /\ \A q \in Objs \ {p} : dirs'[q] = DriveWith(p)[q]
  BY <1>2, <1>4, <1>5
<1>9. OneEach({o})
  BY DEF OneEach
<1>10. /\ DriveWith(p)[p] \subseteq dirs'[p] /\ OneEach(dirs'[p])
       /\ dirs'[p] \subseteq DriveWith(p)[p] \cup {o}
  BY <1>4, <1>5, <1>8, <1>9, Adding
<1>11. ASSUME NEW q \in Objs
       PROVE  /\ dirs[q] \subseteq dirs'[q] /\ OneEach(dirs'[q])
              /\ \A y \in dirs'[q] : \/ y \in dirs[q]
                                   \/ (y = p /\ q = AdoptedBy(j))
                                   \/ (y = o /\ q = p)
  <2>1. /\ OneEach(DriveWith(p)[q])
        /\ dirs[q] \subseteq DriveWith(p)[q]
        /\ DriveWith(p)[q] \subseteq dirs[q] \cup {p}
        /\ p \in DriveWith(p)[q] => q = AdoptedBy(j)
    BY <1>5
  <2>2. \A y \in DriveWith(p)[q] : y \in dirs[q] \/ (y = p /\ q = AdoptedBy(j))
    BY <2>1
  <2>3. CASE q = p
    BY <2>1, <2>2, <2>3, <1>10
  <2>4. CASE q # p
    <3>1. dirs'[q] = DriveWith(p)[q]
      BY <2>4, <1>8
    <3> QED BY <3>1, <2>1, <2>2
  <2> QED BY <2>3, <2>4
<1>12. dirs' \in [Objs -> SUBSET (Existing' \ {Drive})]
  <2>1. dirs' = [q \in Objs |-> dirs'[q]]
    BY <1>2, <1>5
  <2>2. ASSUME NEW q \in Objs, NEW y \in dirs'[q]
        PROVE  y \in Existing' \ {Drive}
    <3>1. dirs[q] \subseteq Existing \ {Drive}
      BY <1>1 DEF TypeOK
    <3> QED BY <3>1, <1>2, <1>4, <1>11
  <2> QED BY <2>1, <2>2
<1>13. Typed
  BY <1>2, <1>4, <1>5, <1>7, <1>12 DEF Typed
<1>14. UniqueChildren'
  <2>1. OneEach(allDirs')
    BY <1>2, <1>5
  <2>2. \A q \in Objs : OneEach(dirs'[q])
    BY <1>11
  <2> QED BY <2>1, <2>2 DEF UniqueChildren, OneEach
<1>15. \A q \in Objs : \A y \in dirs'[q] : y \in dirs[q] \/ parent'[y] = q
  BY <1>7, <1>11
<1>16. ParentRight'
  <2>1. ASSUME NEW y \in Existing' \ {Drive}
        PROVE  IF parent'[y] = None THEN up[IdOf(y)] # Root
                                    ELSE IdOf(parent'[y]) = up[IdOf(y)]
    <3>1. CASE y = p
      BY <3>1, <1>4, <1>7, Objects, DriveAssumption DEF AdoptedBy
    <3>2. CASE y = o
      BY <3>2, <1>4, <1>7, DriveAssumption DEF j
    <3>3. CASE y \in Existing \ {o}
      BY <3>3, <2>1, <1>1, <1>7 DEF ParentRight
    <3> QED BY <3>1, <3>2, <3>3, <1>4
  <2> QED BY <2>1, <1>2 DEF ParentRight
<1>17. \A q \in Objs : Ids(dirs[q]) \subseteq Ids(dirs'[q])
  BY <1>11 DEF Ids
<1> QED BY <1>2, <1>7, <1>13, <1>14, <1>15, <1>16, <1>17 DEF Progress

\* The object that stands for a directory in a mapping is one of its ID, and
\* is there when the new objects are.
LEMMA Standing ==
    ASSUME TypeOK, Make(NewDirs), NEW j \in Dirs \cup {Root}
    PROVE  ObjOf(j) \in Existing' /\ ObjOf(j) \in Objs /\ IdOf(ObjOf(j)) = j
<1>1. /\ Existing' = Existing \cup News(NewDirs)
      /\ News(NewDirs) \subseteq Objs \ {Drive}
  BY Making DEF NewDirs
<1>2. CASE j = Root
  BY <1>1, <1>2, Objects DEF ObjOf, Existing, Exists
<1>3. CASE j # Root /\ IsKnown(j)
  BY <1>1, <1>3, Looking DEF ObjOf, Existing
<1>4. CASE j # Root /\ ~IsKnown(j)
  <2>1. ObjOf(j) = New(j)
    BY <1>4 DEF ObjOf
  <2>2. New(j) \in News(NewDirs) /\ IdOf(New(j)) = j
    BY <1>4 DEF News, NewDirs, New, IdOf
  <2> QED BY <1>1, <2>1, <2>2
<1> QED BY <1>2, <1>3, <1>4

\* map, as far as directories go.
LEMMA MapStep ==
    ASSUME TreeInv, up' = up, MapDirs
    PROVE  Progress(None)
<1> DEFINE X == News(NewDirs)
<1>1. TypeOK /\ UniqueChildren /\ ListedUnderParent /\ ParentRight
  BY DEF TreeInv
<1>2. /\ made' \in [Dirs -> 0 .. MaxCopies]
      /\ Existing' = Existing \cup X /\ X \cap Existing = {}
      /\ X \subseteq Objs \ {Drive}
      /\ \A x \in X : IdOf(x) \in NewDirs /\ x = New(IdOf(x))
  <2>1. NewDirs \in SUBSET Dirs /\ Make(NewDirs)
    BY DEF NewDirs, MapDirs
  <2> QED BY <2>1, <1>1, Making
<1>3. \A x \in X : LET p == ObjOf(up[IdOf(x)])
                  IN  p \in Existing' /\ p \in Objs /\ IdOf(p) = up[IdOf(x)]
  BY <1>1, <1>2, Standing DEF TypeOK, MapDirs, NewDirs
<1>4. /\ parent' = [o \in Objs |-> IF o \in X THEN ObjOf(up[IdOf(o)]) ELSE parent[o]]
      /\ dirs' = [o \in Objs |-> AddTo(dirs[o], News(Below(o, NewDirs)))]
      /\ allDirs' = X
  BY DEF MapDirs
<1>5. \A o \in Objs : \A x \in News(Below(o, NewDirs)) :
          x \in X /\ ObjOf(up[IdOf(x)]) = o
  BY DEF News, Below, New, IdOf
<1> HIDE DEF X
<1>6. ASSUME NEW o \in Objs
      PROVE  /\ OneEach(dirs'[o]) /\ dirs[o] \subseteq dirs'[o]
             /\ \A x \in dirs'[o] : x \in dirs[o] \/ (x \in X /\ parent'[x] = o)
  <2>1. dirs'[o] = AddTo(dirs[o], News(Below(o, NewDirs)))
    BY <1>4
  <2>2. OneEach(dirs[o]) /\ OneEach(News(Below(o, NewDirs)))
    BY <1>1, Unique, NewOnes
  <2>3. /\ OneEach(dirs'[o]) /\ dirs[o] \subseteq dirs'[o]
        /\ dirs'[o] \subseteq dirs[o] \cup News(Below(o, NewDirs))
    BY <2>1, <2>2, Adding
  <2> QED BY <2>3, <1>2, <1>4, <1>5
<1>7. Typed
  <2>1. parent' \in [Objs -> Existing' \cup {None}]
    BY <1>1, <1>2, <1>3, <1>4 DEF TypeOK
  <2>2. dirs' \in [Objs -> SUBSET (Existing' \ {Drive})]
    <3>1. \A o \in Objs : dirs[o] \subseteq Existing \ {Drive}
      BY <1>1 DEF TypeOK
    <3>2. \A o \in Objs : dirs'[o] \subseteq Existing' \ {Drive}
      BY <3>1, <1>2, <1>6
    <3>3. dirs' = [o \in Objs |-> dirs'[o]]
      BY <1>4
    <3> QED BY <3>2, <3>3
  <2> QED BY <2>1, <2>2, <1>2, <1>4 DEF Typed
<1>8. UniqueChildren'
  <2>1. OneEach(allDirs')
    BY <1>4, NewOnes DEF X
  <2> QED BY <2>1, <1>6 DEF UniqueChildren, OneEach
<1>9. \A x \in Existing : parent'[x] = parent[x]
  BY <1>2, <1>4 DEF Existing
<1>10. ParentRight'
  <2>1. ASSUME NEW y \in Existing' \ {Drive}
        PROVE  IF parent'[y] = None THEN up[IdOf(y)] # Root
                                    ELSE IdOf(parent'[y]) = up[IdOf(y)]
    <3>1. CASE y \in X
      BY <3>1, <1>2, <1>3, <1>4, DriveAssumption
    <3>2. CASE y \in Existing
      BY <3>2, <2>1, <1>1, <1>9 DEF ParentRight
    <3> QED BY <3>1, <3>2, <1>2
  <2> QED BY <2>1 DEF ParentRight
<1>11. \A o \in Objs : Ids(dirs[o]) \subseteq Ids(dirs'[o])
  BY <1>6 DEF Ids
<1> QED BY <1>6, <1>7, <1>8, <1>9, <1>10, <1>11 DEF Progress

-----------------------------------------------------------------------------
(* The invariant                                                           *)

\* Progress on directories and files, with flags that are set for lists that
\* were just loaded, keeps the invariant.
LEMMA Keeping ==
    ASSUME TreeInv, up' = up, NEW o, Progress(o),
           files' \in [Objs -> SUBSET Files], allFiles' \in SUBSET Files,
           dirsLoaded' \in SUBSET Existing', filesLoaded' \in SUBSET Existing',
           dirsMapped' \in BOOLEAN, filesMapped' \in BOOLEAN,
           \A p \in dirsLoaded' :
              \/ p \in dirsLoaded /\ p # o
              \/ Ids(dirs'[p]) = ChildDirs(IdOf(p)),
           \A p \in filesLoaded' : files'[p] = ChildFiles(IdOf(p))
    PROVE  TreeInv'
<1>1. TypeOK /\ UniqueChildren /\ ListedUnderParent /\ ParentRight /\ LoadedComplete
  BY DEF TreeInv
<1>2. TypeOK'
  BY <1>1 DEF Progress, Typed, TypeOK
<1>3. ListedUnderParent'
  BY <1>1, DriveAssumption DEF Progress, ListedUnderParent, TypeOK
<1>4. ASSUME NEW p \in Objs
      PROVE  Ids(dirs'[p]) \subseteq ChildDirs(IdOf(p))
  <2>1. ASSUME NEW x \in dirs'[p]
        PROVE  IdOf(x) \in Dirs /\ up[IdOf(x)] = IdOf(p)
    <3>1. x \in Existing' \ {Drive} /\ x \in Objs
      BY <1>2 DEF TypeOK, Existing
    <3>2. parent'[x] = p /\ p # None
      BY <1>3, DriveAssumption DEF ListedUnderParent
    <3>3. ParentRight'
      BY DEF Progress
    <3> QED BY <3>1, <3>2, <3>3, Objects DEF ParentRight
  <2> QED BY <2>1 DEF Ids, ChildDirs
<1>5. ASSUME NEW p \in dirsLoaded'
      PROVE  Ids(dirs'[p]) = ChildDirs(IdOf(p))
  <2>1. CASE p \in dirsLoaded /\ p # o
    <3>1. p \in Objs
      BY <1>2 DEF TypeOK, Existing
    <3>2. Ids(dirs[p]) = ChildDirs(IdOf(p))
      BY <1>1, <2>1 DEF LoadedComplete, TypeOK
    <3>3. Ids(dirs[p]) \subseteq Ids(dirs'[p])
      BY <2>1, <3>1 DEF Progress
    <3> QED BY <3>1, <3>2, <3>3, <1>4
  <2> QED BY <2>1
<1>6. LoadedComplete'
  BY <1>5 DEF LoadedComplete, ChildDirs, ChildFiles
<1> QED BY <1>2, <1>3, <1>6 DEF TreeInv, Progress

\* The same for an operation that loads no list of directories.
LEMMA KeepingFlags ==
    ASSUME TreeInv, up' = up, Progress(None),
           files' \in [Objs -> SUBSET Files], allFiles' \in SUBSET Files,
           dirsLoaded' = dirsLoaded, filesLoaded' = filesLoaded,
           dirsMapped' \in BOOLEAN, filesMapped' \in BOOLEAN,
           \A p \in filesLoaded : files'[p] = ChildFiles(IdOf(p))
    PROVE  TreeInv'
<1>1. dirsLoaded \in SUBSET Existing /\ filesLoaded \in SUBSET Existing
  BY DEF TreeInv, TypeOK
<1>2. Existing \subseteq Existing' /\ None \notin Existing
  BY DriveAssumption DEF Progress, Typed, Existing
<1> QED BY <1>1, <1>2, Keeping

\* A step that leaves the directories alone is progress.
LEMMA Still ==
    ASSUME TreeInv, UNCHANGED <<up, made, parent, dirs, allDirs>>
    PROVE  Progress(None) /\ Existing' = Existing
<1>1. Existing' = Existing
  BY DEF Existing, Exists
<1>2. Typed
  BY <1>1 DEF Typed, TreeInv, TypeOK
<1> QED BY <1>1, <1>2 DEF TreeInv, Progress, UniqueChildren, ParentRight

\* A file put in the list of its parent's object keeps the lists of files.
LEMMA FileAdded ==
    ASSUME TreeInv, NEW p \in Objs, NEW f \in Files, up[f] = IdOf(p),
           files' = [files EXCEPT ![p] = @ \cup {f}]
    PROVE  /\ files' \in [Objs -> SUBSET Files]
           /\ \A q \in filesLoaded : files'[q] = ChildFiles(IdOf(q))
BY DEF TreeInv, TypeOK, LoadedComplete, ChildFiles

\* The invariant holds of a client that has not asked for anything.
LEMMA Begins ==
    ASSUME Init
    PROVE  TreeInv
<1>1. TypeOK
  <2>1. 0 \in 0 .. MaxCopies
    BY DriveAssumption
  <2> QED BY <2>1 DEF Init, TypeOK
<1>2. \A o \in Objs \ {Drive} : ~Exists(o)
  BY Objects DEF Init, Exists, IdOf
<1>3. ParentRight
  BY <1>2 DEF ParentRight, Existing
<1> QED BY <1>1, <1>3 DEF Init, TreeInv, UniqueChildren, ListedUnderParent,
           LoadedComplete

\* Every operation keeps the invariant.
LEMMA Continues ==
    ASSUME TreeInv, [Next]_vars
    PROVE  TreeInv'
<1>1. TypeOK /\ LoadedComplete /\ ParentRight
  BY DEF TreeInv
<1>2. /\ files \in [Objs -> SUBSET Files] /\ allFiles \in SUBSET Files
      /\ dirsLoaded \in SUBSET Existing /\ filesLoaded \in SUBSET Existing
      /\ dirsMapped \in BOOLEAN /\ filesMapped \in BOOLEAN
      /\ \A p \in filesLoaded : files[p] = ChildFiles(IdOf(p))
  BY <1>1 DEF TypeOK, LoadedComplete
<1>3. \A i : ChildFiles(i) \in SUBSET Files
  BY DEF ChildFiles
<1>4. ASSUME NEW o \in Objs, Directories(o) PROVE TreeInv'
  <2>1. Progress(o) /\ Ids(dirs'[o]) = ChildDirs(IdOf(o))
    BY <1>4, LoadStep DEF Directories
  <2>2. Existing \subseteq Existing' /\ o \in Existing'
    BY <2>1, <1>4 DEF Progress, Typed, Directories, Existing
  <2> QED BY <1>2, <1>4, <2>1, <2>2, Keeping DEF Directories
<1>5. ASSUME NEW o \in Objs, FilesOf(o) PROVE TreeInv'
  <2>1. Progress(None) /\ Existing' = Existing
    BY <1>5, Still DEF FilesOf
  <2>2. /\ files' \in [Objs -> SUBSET Files] /\ allFiles' \in SUBSET Files
        /\ o \in Existing
        /\ \A p \in filesLoaded' : files'[p] = ChildFiles(IdOf(p))
    BY <1>2, <1>3, <1>5 DEF FilesOf, LoadFiles, AddToAllFiles, Existing
  <2> QED BY <1>1, <1>2, <1>5, <2>1, <2>2, Keeping, DriveAssumption
          DEF FilesOf, Existing
<1>6. ASSUME NEW o \in Objs, Children(o) PROVE TreeInv'
  <2>1. Progress(o) /\ Ids(dirs'[o]) = ChildDirs(IdOf(o))
    BY <1>6, LoadStep DEF Children
  <2>2. Existing \subseteq Existing' /\ o \in Existing'
    BY <2>1, <1>6 DEF Progress, Typed, Children, Existing
  <2>3. /\ files' \in [Objs -> SUBSET Files] /\ allFiles' \in SUBSET Files
        /\ \A p \in filesLoaded' : files'[p] = ChildFiles(IdOf(p))
    BY <1>2, <1>3, <1>6 DEF Children, LoadFiles, AddToAllFiles, Existing
  <2> QED BY <1>2, <1>6, <2>1, <2>2, <2>3, Keeping DEF Children
<1>7. ASSUME NEW o \in Objs, Reset(o) PROVE TreeInv'
  <2>1. Existing' = Existing
    BY <1>7 DEF Reset, Existing, Exists
  <2>2. /\ dirs' = [dirs EXCEPT ![o] = {}] /\ files' = [files EXCEPT ![o] = {}]
        /\ dirsLoaded' = dirsLoaded \ {o} /\ filesLoaded' = filesLoaded \ {o}
        /\ UNCHANGED <<up, made, parent, allDirs, allFiles, dirsMapped, filesMapped>>
    BY <1>7 DEF Reset
  <2>3. TypeOK'
    BY <1>1, <2>1, <2>2 DEF TypeOK
  <2>4. UniqueChildren' /\ ListedUnderParent' /\ ParentRight'
    BY <2>1, <2>2, <1>1 DEF TreeInv, UniqueChildren, ListedUnderParent, ParentRight, TypeOK
  <2>5. LoadedComplete'
    BY <2>1, <2>2, <1>1 DEF LoadedComplete, TypeOK, Existing, ChildDirs, ChildFiles
  <2> QED BY <2>3, <2>4, <2>5 DEF TreeInv
<1>8. ASSUME NEW o \in Objs, NEW i \in Dirs, NavigateToDirectory(o, i) PROVE TreeInv'
  <2>1. Progress(None)
    BY <1>8, NavigateStep
  <2>2. UNCHANGED <<up, files, allFiles, flags>>
    BY <1>8 DEF NavigateToDirectory
  <2> QED BY <1>2, <2>1, <2>2, KeepingFlags DEF flags
<1>9. ASSUME NEW o \in Objs, NEW f \in Files, NavigateToFile(o, f) PROVE TreeInv'
  <2>1. Progress(None) /\ Existing' = Existing
    BY <1>9, Still DEF NavigateToFile
  <2>2. /\ files' \in [Objs -> SUBSET Files]
        /\ \A p \in filesLoaded : files'[p] = ChildFiles(IdOf(p))
    BY <1>9, FileAdded DEF NavigateToFile
  <2>3. allFiles' \in SUBSET Files
    BY <1>2, <1>9 DEF NavigateToFile, AddToAllFiles
  <2> QED BY <1>2, <1>9, <2>1, <2>2, <2>3, KeepingFlags DEF NavigateToFile, flags
<1>10. ASSUME NEW o \in Objs, ParentOfDirectory(o) PROVE TreeInv'
  <2>1. up[IdOf(o)] # Root
    BY <1>1, <1>10 DEF ParentRight, ParentOfDirectory, Existing
  <2>2. Progress(None)
    BY <1>10, <2>1, ParentKnownStep, ParentNewStep
  <2>3. UNCHANGED <<up, files, allFiles, flags>>
    BY <1>10 DEF ParentOfDirectory
  <2> QED BY <1>2, <2>2, <2>3, KeepingFlags DEF flags
<1>11. ASSUME NEW i \in Dirs, FindDirectory(i) PROVE TreeInv'
  <2>1. Progress(None)
    BY <1>11, FindStep DEF FindDirectory
  <2>2. UNCHANGED <<up, files, allFiles, flags>>
    BY <1>11 DEF FindDirectory
  <2> QED BY <1>2, <2>1, <2>2, KeepingFlags DEF flags
<1>12. ASSUME NEW f \in Files, FindFile(f) PROVE TreeInv'
  <2>1. Progress(None) /\ Existing' = Existing
    BY <1>12, Still DEF FindFile
  <2>2. /\ files' \in [Objs -> SUBSET Files]
        /\ \A p \in filesLoaded : files'[p] = ChildFiles(IdOf(p))
    BY <1>12, FileAdded, Objects DEF FindFile
  <2>3. allFiles' \in SUBSET Files
    BY <1>2, <1>12 DEF FindFile
  <2> QED BY <1>2, <1>12, <2>1, <2>2, <2>3, KeepingFlags DEF FindFile, flags
<1>13. ASSUME NEW f \in Files, ParentOfFile(f) PROVE TreeInv'
  <2> DEFINE j == up[f]
             p == IF IsKnown(j) THEN Known(j) ELSE New(j)
  <2>1. /\ j \in Dirs /\ files' = [files EXCEPT ![p] = @ \cup {f}]
        /\ UNCHANGED <<up, allFiles, flags>>
    BY <1>1, <1>13 DEF ParentOfFile, TypeOK
  <2>2. CASE IsKnown(j)
    <3>1. p \in Objs /\ IdOf(p) = j
      BY <1>1, <2>2, Looking DEF Existing
    <3>2. UNCHANGED <<made, parent, dirs, allDirs>>
      BY <1>13, <2>2 DEF ParentOfFile
    <3>3. Progress(None)
      BY <2>1, <3>2, Still
    <3>4. /\ files' \in [Objs -> SUBSET Files]
          /\ \A q \in filesLoaded : files'[q] = ChildFiles(IdOf(q))
      BY <2>1, <3>1, FileAdded
    <3> QED BY <1>2, <2>1, <3>3, <3>4, KeepingFlags DEF flags
  <2>3. CASE ~IsKnown(j)
    <3>1. /\ Make({j}) /\ SetParents({p}, AdoptedBy(j))
          /\ dirs' = DriveWith(p) /\ allDirs' = AllWith(p) /\ p = New(j)
      BY <1>13, <2>3 DEF ParentOfFile
    <3>2. Progress(None)
      BY <2>1, <3>1, FindStep
    <3>3. p \in Objs /\ IdOf(p) = j
      <4>1. p \in News({j}) /\ {j} \in SUBSET Dirs
        BY <2>1, <3>1 DEF News
      <4> QED BY <1>1, <3>1, <4>1, Making
    <3>4. /\ files' \in [Objs -> SUBSET Files]
          /\ \A q \in filesLoaded : files'[q] = ChildFiles(IdOf(q))
      BY <2>1, <3>3, FileAdded
    <3> QED BY <1>2, <2>1, <3>2, <3>4, KeepingFlags DEF flags
  <2> QED BY <2>2, <2>3
<1>14. ASSUME MapDirectories PROVE TreeInv'
  <2>1. Progress(None)
    BY <1>14, MapStep DEF MapDirectories
  <2> QED BY <1>2, <1>14, <2>1, KeepingFlags DEF MapDirectories, MapDirs
<1>15. ASSUME MapFiles PROVE TreeInv'
  <2>1. Progress(None)
    BY <1>15, MapStep DEF MapFiles
  <2>2. \A o \in Objs : \A f \in Below(o, NewFiles) : f \in Files /\ up[f] = IdOf(o)
    BY <1>1, <1>15, Standing DEF Below, NewFiles, TypeOK, MapFiles, MapDirs
  <2>3. /\ files' \in [Objs -> SUBSET Files] /\ allFiles' \in SUBSET Files
        /\ \A p \in filesLoaded : files'[p] = ChildFiles(IdOf(p))
    BY <1>1, <1>2, <1>15, <2>2 DEF MapFiles, NewFiles, ChildFiles, Existing
  <2> QED BY <1>2, <1>15, <2>1, <2>3, KeepingFlags DEF MapFiles, MapDirs
<1>16. CASE UNCHANGED vars
  <2>1. Existing' = Existing
    BY <1>16 DEF vars, Existing, Exists
  <2> QED BY <2>1, <1>16 DEF vars, lists, flags, TreeInv, TypeOK, UniqueChildren,
             ListedUnderParent, ParentRight, LoadedComplete, ChildDirs, ChildFiles
<1> QED BY <1>4, <1>5, <1>6, <1>7, <1>8, <1>9, <1>10, <1>11, <1>12, <1>13, <1>14,
           <1>15, <1>16 DEF Next

\* In every drive, however many objects are made for a directory, and in
\* whatever order it is listed, navigated, searched, looked up and mapped, no
\* list of children has two objects for one directory.
THEOREM OneObjectPerList == Spec => []UniqueChildren
<1>1. Init => TreeInv
  BY Begins
<1>2. TreeInv /\ [Next]_vars => TreeInv'
  BY Continues
<1>3. TreeInv => UniqueChildren
  BY DEF TreeInv
<1> QED BY <1>1, <1>2, <1>3, PTL DEF Spec

\* A list that counts as loaded has exactly the children in the drive: no
\* other operation puts in or takes out what does not belong there.
THEOREM LoadedListsComplete == Spec => []LoadedComplete
<1>1. Init => TreeInv
  BY Begins
<1>2. TreeInv /\ [Next]_vars => TreeInv'
  BY Continues
<1>3. TreeInv => LoadedComplete
  BY DEF TreeInv
<1> QED BY <1>1, <1>2, <1>3, PTL DEF Spec

\* The objects form a tree: who is in a list has its owner as parent.
THEOREM TreeOfObjects == Spec => []ListedUnderParent
<1>1. Init => TreeInv
  BY Begins
<1>2. TreeInv /\ [Next]_vars => TreeInv'
  BY Continues
<1>3. TreeInv => ListedUnderParent
  BY DEF TreeInv
<1> QED BY <1>1, <1>2, <1>3, PTL DEF Spec

\* The parents that objects know, by whatever operation they came to know
\* them, are those of the drive.
THEOREM ParentsOfTheDrive == Spec => []ParentRight
<1>1. Init => TreeInv
  BY Begins
<1>2. TreeInv /\ [Next]_vars => TreeInv'
  BY Continues
<1>3. TreeInv => ParentRight
  BY DEF TreeInv
<1> QED BY <1>1, <1>2, <1>3, PTL DEF Spec

-----------------------------------------------------------------------------
(* What a mapping achieves                                                 *)

\* An object not made yet has no children.
LEMMA NotMadeEmpty ==
    ASSUME TreeInv, NEW o \in Objs, o \notin Existing
    PROVE  dirs[o] = {}
<1> SUFFICES ASSUME NEW x \in dirs[o] PROVE FALSE
  OBVIOUS
<1>1. x \in Objs /\ parent[x] \in Existing \cup {None}
  BY DEF TreeInv, TypeOK, Existing
<1>2. parent[x] = o
  BY DEF TreeInv, ListedUnderParent
<1> QED BY <1>1, <1>2, DriveAssumption

\* A directory that is among all directories is where the tree has it: in the
\* list of the object that stands for its parent.
LEMMA KnownInPlace ==
    ASSUME TreeInv, TreeAgrees, NEW i \in Dirs, IsKnown(i)
    PROVE  Known(i) \in dirs[ObjOf(up[i])]
<1>1. TypeOK /\ UniqueChildren /\ ListedUnderParent /\ ParentRight
  BY DEF TreeInv
<1>2. /\ Known(i) \in allDirs /\ IdOf(Known(i)) = i
      /\ Known(i) \in Existing \ {Drive}
  BY <1>1, Looking
<1>3. PICK p \in allDirs \cup {Drive} : Known(i) \in dirs[p]
  BY <1>2 DEF TreeAgrees
<1>4. p \in Objs
  BY <1>1, Objects DEF TypeOK, Existing
<1>5. parent[Known(i)] = p /\ p # None
  BY <1>1, <1>3, <1>4, DriveAssumption DEF ListedUnderParent
<1>6. IdOf(p) = up[i]
  BY <1>1, <1>2, <1>5 DEF ParentRight
<1>7. ObjOf(up[i]) = p
  <2>1. CASE p = Drive
    BY <2>1, <1>6, Objects DEF ObjOf
  <2>2. CASE p # Drive
    <3>1. p \in allDirs /\ IdOf(p) \in Dirs
      BY <2>2, <1>4, Objects
    <3>2. up[i] # Root /\ IsKnown(up[i])
      BY <3>1, <1>6, DriveAssumption DEF IsKnown, Ids
    <3>3. Known(up[i]) \in allDirs /\ IdOf(Known(up[i])) = up[i]
      BY <3>2, <1>1, Looking
    <3>4. OneEach(allDirs)
      BY <1>1, Unique
    <3>5. Known(up[i]) = p
      BY <3>1, <3>3, <3>4, <1>6 DEF OneEach
    <3> QED BY <3>2, <3>5 DEF ObjOf
  <2> QED BY <2>1, <2>2
<1> QED BY <1>3, <1>7

\* A directory that is made by the mapping gets into that list, for the list
\* has no object of its ID.
LEMMA NewInPlace ==
    ASSUME TreeInv, TreeAgrees, MapDirs, NEW i \in Dirs, ~IsKnown(i)
    PROVE  New(i) \in dirs'[ObjOf(up[i])]
<1> DEFINE o == ObjOf(up[i])
<1>1. TypeOK
  BY DEF TreeInv
<1>2. up[i] \in Dirs \cup {Root} /\ Make(NewDirs)
  BY <1>1 DEF TypeOK, MapDirs
<1>3. o \in Objs
  BY <1>1, <1>2, Standing
<1>4. i \notin Ids(dirs[o])
  <2>1. CASE o \in allDirs \cup {Drive}
    <3>1. Ids(dirs[o]) \subseteq Ids(allDirs)
      BY <2>1 DEF TreeAgrees, Ids
    <3> QED BY <3>1 DEF IsKnown
  <2>2. CASE o \notin allDirs \cup {Drive}
    <3>1. up[i] # Root /\ ~IsKnown(up[i])
      BY <2>2, <1>1, Looking DEF ObjOf
    <3>2. o = New(up[i]) /\ up[i] \in NewDirs
      BY <3>1, <1>2 DEF ObjOf, NewDirs
    <3>3. o \in News(NewDirs) /\ NewDirs \in SUBSET Dirs
      BY <3>2 DEF News, NewDirs
    <3>4. o \notin Existing
      BY <3>3, <1>1, <1>2, Making
    <3>5. dirs[o] = {}
      BY <3>4, <1>3, NotMadeEmpty
    <3> QED BY <3>5 DEF Ids
  <2> QED BY <2>1, <2>2
<1>5. i \in Below(o, NewDirs)
  BY DEF Below, NewDirs
<1>6. New(i) \in News(Below(o, NewDirs)) /\ IdOf(New(i)) = i
  BY <1>5 DEF News, New, IdOf
<1>7. dirs'[o] = AddTo(dirs[o], News(Below(o, NewDirs)))
  BY <1>3 DEF MapDirs
<1> QED BY <1>4, <1>6, <1>7 DEF AddTo

LEMMA MappingReachesAll ==
    ASSUME TreeInv, TreeAgrees, MapDirs, up' = up
    PROVE  TreeComplete'
<1> DEFINE obj == [i \in Dirs |-> ObjOf(i)]
<1>1. TypeOK /\ Make(NewDirs)
  BY DEF TreeInv, MapDirs
<1>2. \A i \in Dirs : ObjOf(i) \in Existing' /\ IdOf(ObjOf(i)) = i
  BY <1>1, Standing
<1>3. obj \in [Dirs -> Existing']
  BY <1>2
<1>4. ASSUME NEW i \in Dirs
      PROVE  obj[i] \in dirs'[IF up[i] = Root THEN Drive ELSE obj[up[i]]]
  <2>1. up[i] \in Dirs \cup {Root} /\ i # Root
    BY <1>1, DriveAssumption DEF TypeOK
  <2>2. (IF up[i] = Root THEN Drive ELSE obj[up[i]]) = ObjOf(up[i])
    BY <2>1 DEF ObjOf
  <2>3. CASE IsKnown(i)
    <3>1. Known(i) \in dirs[ObjOf(up[i])]
      BY <2>3, KnownInPlace
    <3>2. ObjOf(up[i]) \in Objs
      BY <2>1, <1>1, Standing
    <3>3. dirs'[ObjOf(up[i])]
             = AddTo(dirs[ObjOf(up[i])], News(Below(ObjOf(up[i]), NewDirs)))
      BY <3>2 DEF MapDirs
    <3> QED BY <2>1, <2>2, <2>3, <3>1, <3>3 DEF ObjOf, AddTo
  <2>4. CASE ~IsKnown(i)
    <3>1. New(i) \in dirs'[ObjOf(up[i])]
      BY <2>4, NewInPlace
    <3> QED BY <2>1, <2>2, <2>4, <3>1 DEF ObjOf
  <2> QED BY <2>3, <2>4
<1> HIDE DEF obj
<1>5. \A i \in Dirs : IdOf(obj[i]) = i
  BY <1>2 DEF obj
<1> QED BY <1>3, <1>4, <1>5 DEF TreeComplete

\* Nothing but a mapping sets the flags of the drive.
LEMMA MappingFlags ==
    ASSUME [Next]_vars
    PROVE  UNCHANGED <<dirsMapped, filesMapped>> \/ MapDirectories \/ MapFiles
BY DEF Next, vars, flags, Directories, FilesOf, Children, Reset,
       NavigateToDirectory, NavigateToFile, ParentOfDirectory, FindDirectory,
       FindFile, ParentOfFile

\* However much of the drive was listed, navigated to or looked up before, a
\* mapping that starts from a tree in agreement with the list of all
\* directories leaves a tree that reaches every directory of the drive (map).
THEOREM MappingCompletes == Spec => MapCompletesTree
<1> DEFINE Mapping == dirsMapped' /\ (~dirsMapped \/ (filesMapped' /\ ~filesMapped))
           Completes == Mapping /\ TreeAgrees => TreeComplete'
<1>1. Init => TreeInv
  BY Begins
<1>2. TreeInv /\ [Next]_vars => TreeInv'
  BY Continues
<1>3. TreeInv /\ [Next]_vars => [Completes]_vars
  <2> SUFFICES ASSUME TreeInv, [Next]_vars, Mapping, TreeAgrees PROVE TreeComplete'
    OBVIOUS
  <2>1. MapDirectories \/ MapFiles
    BY MappingFlags
  <2>2. MapDirs /\ up' = up
    BY <2>1 DEF MapDirectories, MapFiles
  <2> QED BY <2>2, MappingReachesAll
<1> QED BY <1>1, <1>2, <1>3, PTL DEF Spec, MapCompletesTree
=============================================================================
