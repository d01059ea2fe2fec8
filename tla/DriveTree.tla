------------------------------ MODULE DriveTree ------------------------------
(***************************************************************************)
(* The local picture of a Google Drive                                     *)
(* (wg_utilities/clients/google_drive.py): Drive and Directory objects     *)
(* that fetch their children when asked, find each other by ID, name or    *)
(* search, and the mapping of the whole drive.                             *)
(*                                                                         *)
(* The contents of the drive do not change.  An object is <<id, n>>, the   *)
(* n-th object the program made for that ID: nothing stops it from making  *)
(* several.  A File object has no children, so files are just their IDs.   *)
(* Equality of entities, which the code's `in` uses, is equality of IDs.   *)
(***************************************************************************)
EXTENDS Naturals, FiniteSets

CONSTANTS
    Dirs, Files,  \* the IDs in the drive
    Root,         \* the ID of the drive
    MaxCopies,    \* bound: objects made for one ID
    None

Drive == <<Root, 1>>
Objs  == {Drive} \cup (Dirs \X (1 .. MaxCopies))

ASSUME DriveAssumption == /\ Dirs \cap Files = {}
                          /\ Root \notin Dirs \cup Files
                          /\ None \notin Objs
                          /\ MaxCopies \in Nat

VARIABLES
    up,           \* [Dirs \cup Files -> Dirs or Root]: the parent in the drive
    made,         \* [Dirs -> Nat]: objects made for the ID
    parent,       \* [Objs -> Objs or None]: parent_
    dirs, files,  \* [Objs -> SUBSET Objs], [Objs -> SUBSET Files]
    dirsLoaded, filesLoaded,    \* objects whose flag is set
    allDirs, allFiles,          \* _all_directories, _all_files of the Drive
    dirsMapped, filesMapped     \* flags of the Drive

lists == <<dirs, files, allDirs, allFiles>>
flags == <<dirsLoaded, filesLoaded, dirsMapped, filesMapped>>
vars  == <<up, made, parent, lists, flags>>

IdOf(o)   == o[1]
Ids(S)    == {IdOf(o) : o \in S}
Exists(o) == IF o = Drive THEN TRUE ELSE o[2] <= made[o[1]]
Existing  == {o \in Objs : Exists(o)}

\* Types; lists and parents are objects that have been made.
TypeOK ==
    /\ up \in [Dirs \cup Files -> Dirs \cup {Root}]
    /\ made \in [Dirs -> 0 .. MaxCopies]
    /\ parent \in [Objs -> Existing \cup {None}]
    /\ dirs \in [Objs -> SUBSET (Existing \ {Drive})]
    /\ files \in [Objs -> SUBSET Files]
    /\ dirsLoaded \in SUBSET Existing /\ filesLoaded \in SUBSET Existing
    /\ allDirs \in SUBSET (Existing \ {Drive})
    /\ allFiles \in SUBSET Files
    /\ dirsMapped \in BOOLEAN /\ filesMapped \in BOOLEAN

\* No directory is below itself.
IsTree(u) ==
    \A S \in SUBSET Dirs : S # {} => \E d \in S : u[d] \notin S

Init ==
    /\ up \in {u \in [Dirs \cup Files -> Dirs \cup {Root}] : IsTree(u)}
    /\ made = [d \in Dirs |-> 0]
    /\ parent = [o \in Objs |-> None]
    /\ dirs = [o \in Objs |-> {}] /\ files = [o \in Objs |-> {}]
    /\ dirsLoaded = {} /\ filesLoaded = {}
    /\ allDirs = {} /\ allFiles = {}
    /\ dirsMapped = FALSE /\ filesMapped = FALSE

-----------------------------------------------------------------------------
(* What the API answers, and new objects                                   *)

\* Mutant: the query does not exclude directories.
AnyChildren(i) == {x \in Dirs \cup Files : up[x] = i}

ChildFiles(i) == {f \in Files : up[f] = i}

ChildDirs(i)  == {d \in Dirs : up[d] = i}

New(i)  == <<i, made[i] + 1>>
News(I) == {New(i) : i \in I}

Make(I) ==
    /\ \A i \in I : made[i] < MaxCopies
    /\ made' = [d \in Dirs |-> IF d \in I THEN made[d] + 1 ELSE made[d]]

\* Mutant: the list is not searched for an equal object.
AddAny(S, X) == S \cup X

\* _add_directory
AddTo(S, X) == S \cup {x \in X : IdOf(x) \notin Ids(S)}

\* The Drive keeps a list of all directories (files) beside that of its own.
AddToAll(o, X)      == IF o = Drive THEN AddTo(allDirs, X) ELSE allDirs
AddToAllFiles(o, F) == IF o = Drive THEN allFiles \cup F ELSE allFiles

SetParents(X, p) == parent' = [o \in Objs |-> IF o \in X THEN p ELSE parent[o]]

-----------------------------------------------------------------------------
(* The properties of Drive and Directory                                   *)

\* directories: each new object is added to its parent's list and, for the
\* drive, to all directories; then the new objects replace the parent's list.
LoadDirs(o) ==
    LET I == ChildDirs(IdOf(o))
    IN  /\ Make(I)
        /\ SetParents(News(I), o)
        /\ dirs' = [dirs EXCEPT ![o] = News(I)]
        /\ allDirs' = AddToAll(o, News(I))

LoadFiles(o) ==
    /\ files' = [files EXCEPT ![o] = ChildFiles(IdOf(o))]
    /\ allFiles' = AddToAllFiles(o, ChildFiles(IdOf(o)))

Directories(o) ==
    /\ Exists(o) /\ o \notin dirsLoaded
    /\ LoadDirs(o)
    /\ dirsLoaded' = dirsLoaded \cup {o}
    /\ UNCHANGED <<up, files, allFiles, filesLoaded, dirsMapped, filesMapped>>

FilesOf(o) ==
    /\ Exists(o) /\ o \notin filesLoaded
    /\ LoadFiles(o)
    /\ filesLoaded' = filesLoaded \cup {o}
    /\ UNCHANGED <<up, made, parent, dirs, allDirs, dirsLoaded, dirsMapped, filesMapped>>

\* children: reset_known_children, then both lists are fetched.  If a query
\* fails, what is left is what Reset, or Reset and FilesOf, leave.
Children(o) ==
    /\ Exists(o)
    /\ LoadDirs(o) /\ LoadFiles(o)
    /\ dirsLoaded' = dirsLoaded \cup {o}
    /\ filesLoaded' = filesLoaded \cup {o}
    /\ UNCHANGED <<up, dirsMapped, filesMapped>>

\* Mutant: the lists are emptied and the flags stay.
ResetLists(o) ==
    /\ Exists(o)
    /\ dirs' = [dirs EXCEPT ![o] = {}] /\ files' = [files EXCEPT ![o] = {}]
    /\ UNCHANGED <<up, made, parent, allDirs, allFiles, flags>>

\* reset_known_children
Reset(o) ==
    /\ Exists(o)
    /\ dirs' = [dirs EXCEPT ![o] = {}] /\ files' = [files EXCEPT ![o] = {}]
    /\ dirsLoaded' = dirsLoaded \ {o} /\ filesLoaded' = filesLoaded \ {o}
    /\ UNCHANGED <<up, made, parent, allDirs, allFiles, dirsMapped, filesMapped>>

\* One step of navigate, to a name that is not among the known children: the
\* one item the query returns is added to them.
NavigateToDirectory(o, i) ==
    /\ Exists(o) /\ up[i] = IdOf(o) /\ i \notin Ids(dirs[o])
    /\ Make({i})
    /\ SetParents({New(i)}, o)
    /\ dirs' = [dirs EXCEPT ![o] = AddTo(@, {New(i)})]
    /\ allDirs' = AddToAll(o, {New(i)})
    /\ UNCHANGED <<up, files, allFiles, flags>>

NavigateToFile(o, f) ==
    /\ Exists(o) /\ up[f] = IdOf(o) /\ f \notin files[o]
    /\ files' = [files EXCEPT ![o] = @ \cup {f}]
    /\ allFiles' = AddToAllFiles(o, {f})
    /\ UNCHANGED <<up, made, parent, dirs, allDirs, flags>>

-----------------------------------------------------------------------------
(* Finding by ID or by name                                                *)

\* Mutant: the ID of the parent is not compared with that of the drive.
AlwaysDrive(i) == Drive

\* from_json_response without a parent, of a search result or of an ID that is
\* not among all directories: only the drive's own children get a parent.
AdoptedBy(i) == IF up[i] = Root THEN Drive ELSE None

\* What from_json_response makes of the lists of the drive.
DriveWith(x) == IF up[IdOf(x)] = Root
                THEN [dirs EXCEPT ![Drive] = AddTo(@, {x})] ELSE dirs
AllWith(x)   == IF up[IdOf(x)] = Root THEN AddTo(allDirs, {x}) ELSE allDirs

FindDirectory(i) ==
    /\ Make({i})
    /\ SetParents({New(i)}, AdoptedBy(i))
    /\ dirs' = DriveWith(New(i))
    /\ allDirs' = AllWith(New(i))
    /\ UNCHANGED <<up, files, allFiles, flags>>

FindFile(f) ==
    /\ up[f] = Root
    /\ files' = [files EXCEPT ![Drive] = @ \cup {f}]
    /\ allFiles' = allFiles \cup {f}
    /\ UNCHANGED <<up, made, parent, dirs, allDirs, flags>>

\* get_directory_by_id returns the object among all directories.
IsKnown(i) == i \in Ids(allDirs)
Known(i)   == CHOOSE o \in allDirs : IdOf(o) = i

\* Mutant: the parent found is not remembered.
Orphan(o, p) == parent

Adopt(o, p) == [parent EXCEPT ![o] = p]

\* The parent property of a Directory, or of a File, made without one: the
\* parent is found by its ID, and gets the child.  It is not the drive, which
\* its own children got when they were made.
ParentOfDirectory(o) ==
    LET j == up[IdOf(o)]
        p == IF IsKnown(j) THEN Known(j) ELSE New(j)
    IN  /\ o # Drive /\ Exists(o) /\ parent[o] = None
        /\ IF IsKnown(j)
           THEN /\ parent' = Adopt(o, p)
                /\ dirs' = [dirs EXCEPT ![p] = AddTo(@, {o})]
                /\ UNCHANGED <<made, allDirs>>
           ELSE /\ Make({j})
                /\ parent' = [Adopt(o, p) EXCEPT ![p] = AdoptedBy(j)]
                /\ dirs' = [DriveWith(p) EXCEPT ![p] = AddTo(@, {o})]
                /\ allDirs' = AllWith(p)
        /\ UNCHANGED <<up, files, allFiles, flags>>

ParentOfFile(f) ==
    LET j == up[f]
        p == IF IsKnown(j) THEN Known(j) ELSE New(j)
    IN  /\ j # Root
        /\ IF IsKnown(j)
           THEN UNCHANGED <<made, parent, dirs, allDirs>>
           ELSE /\ Make({j})
                /\ SetParents({p}, AdoptedBy(j))
                /\ dirs' = DriveWith(p)
                /\ allDirs' = AllWith(p)
        /\ files' = [files EXCEPT ![p] = @ \cup {f}]
        /\ UNCHANGED <<up, allFiles, flags>>

-----------------------------------------------------------------------------
(* map: one query for all items; those not among all known descendents are *)
(* made, under the object that stands for their parent, known or new       *)

NewDirs  == {i \in Dirs : ~IsKnown(i)}
NewFiles == Files \ allFiles

ObjOf(i) == IF i = Root THEN Drive
            ELSE IF IsKnown(i) THEN Known(i) ELSE New(i)

\* Mutant: the children of a directory that is known are not looked at.
BelowNew(o, I) == {i \in I : ObjOf(up[i]) = o /\ o \notin allDirs}

Below(o, I) == {i \in I : ObjOf(up[i]) = o}

MapDirs ==
    /\ Make(NewDirs)
    /\ parent' = [o \in Objs |-> IF o \in News(NewDirs) THEN ObjOf(up[IdOf(o)])
                                                       ELSE parent[o]]
    /\ dirs' = [o \in Objs |-> AddTo(dirs[o], News(Below(o, NewDirs)))]
    /\ allDirs' = News(NewDirs)
    /\ dirsMapped' = TRUE

MapDirectories ==
    /\ ~dirsMapped
    /\ MapDirs
    /\ UNCHANGED <<up, files, allFiles, dirsLoaded, filesLoaded, filesMapped>>

MapFiles ==
    /\ ~filesMapped
    /\ MapDirs
    /\ files' = [o \in Objs |-> files[o] \cup Below(o, NewFiles)]
    /\ allFiles' = NewFiles
    /\ filesMapped' = TRUE
    /\ UNCHANGED <<up, dirsLoaded, filesLoaded>>

-----------------------------------------------------------------------------
Next ==
    \/ \E o \in Objs :
          \/ Directories(o) \/ FilesOf(o) \/ Children(o) \/ Reset(o)
          \/ \E i \in Dirs : NavigateToDirectory(o, i)
          \/ \E f \in Files : NavigateToFile(o, f)
          \/ ParentOfDirectory(o)
    \/ \E i \in Dirs : FindDirectory(i)
    \/ \E f \in Files : FindFile(f) \/ ParentOfFile(f)
    \/ MapDirectories
    \/ MapFiles

Spec == Init /\ [][Next]_vars

-----------------------------------------------------------------------------
(* Properties                                                              *)

\* No list of children, nor the drive's list of all directories, holds two
\* objects made for one directory, in whatever order it was found by listing,
\* by navigating to it, by its ID, through a child or by the mapping
\* (_add_directory).
UniqueChildren ==
    \A S \in {dirs[o] : o \in Objs} \cup {allDirs} :
        \A x, y \in S : IdOf(x) = IdOf(y) => x = y

\* An object in a list of children knows the owner of the list as its parent,
\* so that the path it reports runs through the objects it was reached by,
\* and no object is in two lists.
ListedUnderParent ==
    \A p \in Objs : \A o \in dirs[p] : parent[o] = p

\* The parent an object knows stands for the parent in the drive, and one that
\* knows none is not a child of the drive itself (_validate_parent_instance,
\* parent).
ParentRight ==
    \A o \in Existing \ {Drive} :
        IF parent[o] = None THEN up[IdOf(o)] # Root
                            ELSE IdOf(parent[o]) = up[IdOf(o)]

\* A list whose flag says it is loaded has exactly the children in the drive,
\* whatever was reset, navigated to or mapped since (directories, files).
LoadedComplete ==
    \A o \in Existing :
        /\ o \in dirsLoaded => Ids(dirs[o]) = ChildDirs(IdOf(o))
        /\ o \in filesLoaded => files[o] = ChildFiles(IdOf(o))

\* The tree of objects reaches every directory of the drive.
TreeComplete ==
    \E obj \in [Dirs -> Existing] :
        \A i \in Dirs :
            /\ IdOf(obj[i]) = i
            /\ obj[i] \in dirs[IF up[i] = Root THEN Drive ELSE obj[up[i]]]

\* The tree and the drive's list of all directories hold the same objects.
TreeAgrees ==
    /\ \A o \in allDirs : \E p \in allDirs \cup {Drive} : o \in dirs[p]
    /\ \A p \in allDirs \cup {Drive} : dirs[p] \subseteq allDirs

\* A mapping of a drive whose tree and list of all directories agree leaves a
\* tree that reaches every directory, however much of it was known.
MapCompletesTree ==
    [][dirsMapped' /\ (~dirsMapped \/ (filesMapped' /\ ~filesMapped)) /\ TreeAgrees
         => TreeComplete']_vars

\* The drive's list of all directories has all directories once it is mapped.
\* The docstring of all_directories says so.
MapComplete == dirsMapped => Ids(allDirs) = Dirs

=============================================================================
