------------------------------- MODULE JSONProcessor -------------------------------
(***************************************************************************)
(* The traversal of helpers/processor/json.py: process, process_model,      *)
(* _process_loc and _process_item as one stack of frames over a heap of      *)
(* containers.  A leaf is its type.  Callbacks are the application's: what    *)
(* each may do is a constant, and between any two reads of a location a       *)
(* callback may have replaced what is there, removed it, or inserted before it.*)
(* What has been processed is a set of models, and so a matter of the hashes  *)
(* and the equality they define, which a callback may change as well.         *)
(***************************************************************************)
EXTENDS Integers, FiniteSets, Sequences, SequencesExt

CONSTANTS Objects,       \* the containers, and Text
          Text,          \* a string, whose only character is itself
          Kind,          \* the type of an object: "dict", "list", "tuple", "model" or "str"
          Supers,        \* for every type, the types it is a subclass of, and itself
          Inputs,        \* records of the root, the content of every object and the
                         \* digest of every model: its __hash__, and what its __eq__ reads
          Definitions,   \* callback definitions: [callback, type, tolerant, filtered]
          Decorated,     \* _DECORATED_CALLBACKS
          Does,          \* for every callback, the outcomes it may have
          NewKeys,       \* keys a callback may add to a dictionary
          Configs,       \* records [subclasses, typeChanges, ignores]
          MaxCallbacks,  \* bound: definitions registered
          MaxSize,       \* bound: locations of a container that has been inserted into
          MaxDepth,      \* the interpreter's limit of recursion
          None

\* What a location may hold: a container, or a leaf, which is its type.
Values == Objects \cup DOMAIN Supers

ASSUME InputsAssumption ==
    /\ \A input \in Inputs :
        /\ input.root \in Objects
        /\ DOMAIN input.content = Objects
        /\ DOMAIN input.digest = {o \in Objects : Kind[o] = "model"}
        /\ \A o \in Objects :
            /\ None \notin DOMAIN input.content[o]
            /\ Kind[o] = "list" => input.content[o] \in Seq(Values)
    /\ None \notin NewKeys \cup Nat

VARIABLES config,            \* config
          mapping,           \* callback_mapping: its definitions, type by type
          content,           \* what the containers hold, by location
          stack,             \* the calls in progress
          digest,            \* for every model, its hash and the key its equality reads
          seen,              \* __processed_models, each with the hash it was added with;
                             \* {} where it is None
          status,            \* "setup", "running", "done" or "raised"
          root,              \* the argument of process or process_model
          entered, looked,   \* history: containers and locations processed
          called,            \* history: definitions called, by location
          alike,             \* history: models passed over, with those they were equal to
          grown,             \* history: containers that were inserted into
          altered,           \* history: models whose hash has changed
          broke, failed,     \* history: Break, and exceptions
          overflow           \* history: the stack when it reached the limit

setup == <<config, root>>
traversed == <<entered, looked, called, alike, grown>>
hashes == <<digest, altered>>
outcomes == <<broke, failed, overflow>>
vars == <<setup, mapping, content, stack, seen, status, traversed, hashes, outcomes>>

-----------------------------------------------------------------------------
(* Values, containers and callbacks *)

TypeOf(value) == IF value \in Objects THEN Kind[value] ELSE value

\* _set_item has no effect on a value whose type has no __setitem__.
Fixed(obj) == Kind[obj] \in {"tuple", "str"}
Ordered(obj) == Kind[obj] \in {"list", "tuple", "str"}

\* The models in the set that a model is taken for: the hash is the one it was added with,
\* and it is the same object, or equal to it.
Known(item) ==
    {m \in DOMAIN digest :
        <<m, digest[item].hash>> \in seen /\ (m = item \/ digest[m].key = digest[item].key)}

\* In processable_types and not in unprocessable_types; process_model rejects str itself.
IsProcessable(obj, item) ==
    /\ item \in Objects
    /\ item = Text => ~config.subclasses /\ Kind[obj] # "model"
    /\ Kind[item] = "model" => Known(item) = {}

Matches(type, target) == IF config.subclasses THEN target \in Supers[type] ELSE target = type

\* _get_callbacks: every definition of every matching type, by its place.
CallbacksFor(type) == {i \in DOMAIN mapping : Matches(type, mapping[i].type)}

IterFrame(obj) ==
    [what |-> "iter", obj |-> obj, left |-> DOMAIN content[obj],
     size |-> Cardinality(DOMAIN content[obj]), at |-> None, fresh |-> FALSE]

LocFrame(obj, loc, cont) ==
    LET type == TypeOf(cont[obj][loc]) IN
    [what |-> "loc", obj |-> obj, loc |-> loc, orig |-> type,
     callbacks |-> CallbacksFor(type), tolerant |-> FALSE]

-----------------------------------------------------------------------------
Init ==
    /\ config \in Configs
    /\ \E input \in Inputs : 
            root = input.root /\ content = input.content /\ digest = input.digest
    /\ mapping = <<>>
    /\ stack = <<>> /\ seen = {}
    /\ status = "setup"
    /\ entered = {} /\ looked = {} /\ called = {}
    /\ alike = {} /\ grown = {} /\ altered = {}
    /\ broke = FALSE /\ failed = FALSE /\ overflow = <<>>

\* The constructor and register_callback; a callback that is not decorated is refused.
Register(d) ==
    /\ status = "setup"
    /\ d.callback \in Decorated
    /\ Len(mapping) < MaxCallbacks
    /\ LET same == {i \in DOMAIN mapping : mapping[i].type = d.type} IN
        mapping' = IF same = {} THEN Append(mapping, d)
                   ELSE InsertAt(mapping, Max(same) + 1, d)
    /\ UNCHANGED <<setup, content, stack, seen, status, traversed, hashes, outcomes>>

\* process, or process_model.
Start ==
    /\ status = "setup"
    /\ status' = "running"
    /\ stack' = <<[IterFrame(root) EXCEPT !.fresh = Kind[root] = "model"]>>
    /\ seen' = IF Kind[root] = "model" THEN {<<root, digest[root].hash>>} ELSE {}
    /\ entered' = {root}
    /\ UNCHANGED <<setup, mapping, content, looked, called, alike, grown, hashes, outcomes>>

-----------------------------------------------------------------------------
(* Exceptions *)

Top == stack[Len(stack)]
Replaced(frame) == [stack EXCEPT ![Len(stack)] = frame]

\* An exception leaves the callbacks in progress up to the first that may fail; outside
\* of callbacks nothing stops it.
Raise(frames) ==
    LET tolerant == {i \in DOMAIN frames : frames[i].what = "loc" /\ frames[i].tolerant} IN
    /\ failed' = TRUE
    /\ IF tolerant = {}
       THEN stack' = <<>> /\ status' = "raised" /\ seen' = {}
       ELSE /\ \E i \in tolerant :
                (\A j \in tolerant : j <= i) /\ stack' = SubSeq(frames, 1, i)
            /\ UNCHANGED <<status, seen>>

\* A call; one too many is a RecursionError.
Push(frames, frame, models) ==
    IF Len(frames) < MaxDepth
    THEN /\ stack' = Append(frames, frame) /\ seen' = models
         /\ UNCHANGED <<status, failed, overflow>>
    ELSE /\ Raise(frames)
         /\ overflow' = frames

\* A loop that ends, and with it the set of models if it was begun there.
Leave(frames) ==
    /\ stack' = Front(frames)
    /\ seen' = IF Last(frames).fresh THEN {} ELSE seen
    /\ status' = IF Len(frames) = 1 THEN "done" ELSE status

-----------------------------------------------------------------------------
(* process and process_model *)

Looping == status = "running" /\ Top.what = "iter"

\* A dictionary whose size has changed has no next key, nor an end.
Resized == Kind[Top.obj] = "dict" /\ Cardinality(DOMAIN content[Top.obj]) # Top.size

\* A dictionary given a key while it is iterated: Python may give some keys twice and some
\* not at all, or raise, even where the size is what it was.
Rekeyed == Kind[Top.obj] = "dict" /\ Top.obj \in grown

\* Mutant: the locations are read again at every step.
RemainingMutant(loc) == DOMAIN content[Top.obj] \ {loc}

Remaining(loc) == Top.left \ {loc}

\* The next location, and what its callbacks are.
NextLoc ==
    /\ Looping /\ Top.at = None
    /\ ~Resized
    /\ \E loc \in Top.left :
        /\ Ordered(Top.obj) => \A l \in Top.left : loc <= l
        /\ \E at \in {loc} \cup (IF Rekeyed THEN DOMAIN content[Top.obj] ELSE {}) :
            LET obj == Top.obj
                frames == Replaced([Top EXCEPT !.left = Remaining(loc), !.at = at])
            IN /\ looked' = looked \cup {<<obj, at>>}
               /\ IF at \in DOMAIN content[obj]
                  THEN Push(frames, LocFrame(obj, at, content), seen)
                  ELSE stack' = frames /\ UNCHANGED <<seen, status, failed, overflow>>
    /\ UNCHANGED <<setup, mapping, content, entered, called, alike, grown, hashes, broke>>

KeysChanged ==
    /\ Looping /\ Top.at = None
    /\ Resized \/ Rekeyed
    /\ Raise(stack)
    /\ UNCHANGED <<setup, mapping, content, traversed, hashes, broke, overflow>>

EndLoop ==
    /\ Looping /\ Top.at = None
    /\ ~Resized
    /\ Top.left = {}
    /\ Leave(stack)
    /\ UNCHANGED <<setup, mapping, content, traversed, hashes, outcomes>>

\* Mutant: the set of models is not extended.
ModelsMutant(item) ==
    IF Kind[item] = "model" /\ seen = {} THEN {<<item, digest[item].hash>>} ELSE seen

Models(item) ==
    IF Kind[item] = "model" THEN seen \cup {<<item, digest[item].hash>>} ELSE seen

Found == Top.at \in DOMAIN content[Top.obj]

\* What is there when the location is read again after its callbacks.
Descend ==
    /\ Looping /\ Top.at # None
    /\ LET obj == Top.obj
           frames == Replaced([Top EXCEPT !.at = None])
           item == content[obj][Top.at]
       IN /\ Found
          /\ IF IsProcessable(obj, item)
             THEN /\ Push(frames, [IterFrame(item) EXCEPT
                              !.fresh = Kind[item] = "model" /\ seen = {}], Models(item))
                  /\ entered' = entered \cup {item}
                  /\ UNCHANGED alike
             ELSE /\ stack' = frames
                  /\ alike' = IF TypeOf(item) = "model"
                              THEN alike \cup {<<item, m>> : m \in Known(item)} ELSE alike
                  /\ UNCHANGED <<seen, status, failed, overflow, entered>>
    /\ UNCHANGED <<setup, mapping, content, looked, called, grown, hashes, broke>>

\* Mutant: a location that is gone is passed over.
IgnoredMutant == TRUE

\* LocNotFoundError or AttributeError, which the configuration may ignore.
Ignored == config.ignores

NotFound ==
    /\ Looping /\ Top.at # None
    /\ ~Found
    /\ IF Ignored
       THEN stack' = Replaced([Top EXCEPT !.at = None]) /\ UNCHANGED <<seen, status, failed>>
       ELSE Raise(stack)
    /\ UNCHANGED <<setup, mapping, content, traversed, hashes, broke, overflow>>

-----------------------------------------------------------------------------
(* _process_loc and _process_item *)

Calling == status = "running" /\ Top.what = "loc" /\ Top.callbacks # {}
NextCall == CHOOSE i \in Top.callbacks : \A j \in Top.callbacks : i <= j
Callee == mapping[NextCall]

\* The callbacks are those of the type the item had when _process_loc began.
AfterCall(tolerant) ==
    Replaced([Top EXCEPT !.callbacks = @ \ {NextCall}, !.tolerant = tolerant])

Present == Top.loc \in DOMAIN content[Top.obj]

\* item_filter says no, or fails itself, which allow_failures does not cover.
Filtered ==
    /\ Calling
    /\ Callee.filtered
    /\ \/ stack' = AfterCall(FALSE) /\ UNCHANGED <<seen, status, failed>>
       \/ Raise(AfterCall(FALSE))
    /\ UNCHANGED <<setup, mapping, content, traversed, hashes, broke, overflow>>

\* The location went missing between two callbacks: the second is not even called.
Vanished ==
    /\ Calling
    /\ ~Present /\ ~config.ignores
    /\ Raise(AfterCall(Callee.tolerant))
    /\ UNCHANGED <<setup, mapping, content, traversed, hashes, broke, overflow>>

\* With the call, what it and the assignment of its value do to hashes and equality.
Calls ==
    /\ called' = called \cup {<<Top.obj, Top.loc, Callee>>}
    /\ \E new \in Does[Callee.callback].digests :
        digest' = [m \in DOMAIN digest |-> IF m \in DOMAIN new THEN new[m] ELSE digest[m]]
    /\ altered' = altered \cup {m \in DOMAIN digest : digest'[m].hash # digest[m].hash}

\* Mutant: what is processed anew is not processed anew again.
ReprocessesMutant(value) ==
    config.typeChanges /\ TypeOf(value) # Top.orig /\ stack[Len(stack) - 1].what = "iter"

\* The new value is set, and processed anew if its type is not the one it had.
Reprocesses(value) == config.typeChanges /\ TypeOf(value) # Top.orig

\* The callback is called: what is not there, errors being ignored, is the sentinel.
Called == Calling /\ (Present \/ config.ignores) /\ Calls

Returns ==
    /\ Called
    /\ \E value \in Does[Callee.callback].returns :
        IF ~Present /\ Kind[Top.obj] = "list"
        THEN Raise(AfterCall(Callee.tolerant)) /\ UNCHANGED <<content, grown, overflow>>
        ELSE /\ content' = IF Fixed(Top.obj) THEN content
                           ELSE [content EXCEPT ![Top.obj] =
                                    [l \in DOMAIN @ \cup {Top.loc} |->
                                        IF l = Top.loc THEN value ELSE @[l]]]
             /\ grown' = IF Present THEN grown ELSE grown \cup {Top.obj}
             /\ IF Reprocesses(value)
                THEN Push(AfterCall(Callee.tolerant),
                          LocFrame(Top.obj, Top.loc, content'), seen)
                ELSE stack' = AfterCall(FALSE) /\ UNCHANGED <<seen, status, failed, overflow>>
    /\ UNCHANGED <<setup, mapping, entered, looked, alike, broke>>

\* No new value: the sentinel.
Observes ==
    /\ Called
    /\ "observes" \in Does[Callee.callback].may
    /\ stack' = AfterCall(FALSE)
    /\ UNCHANGED <<setup, mapping, content, seen, status, entered, looked, alike, grown,
                   outcomes>>

\* The items of a list move, and so does what is known of them.
MovedUp(obj, loc) ==
    {at \in looked : at[1] = obj => at[2] < loc}
        \cup {<<obj, at[2] - 1>> : at \in {x \in looked : x[1] = obj /\ x[2] > loc}}
MovedDown(obj, loc) ==
    {at \in looked : at[1] = obj => at[2] < loc}
        \cup {<<obj, at[2] + 1>> : at \in {x \in looked : x[1] = obj /\ x[2] >= loc}}

\* The callback deletes its own location.
Removes ==
    /\ Called /\ Present
    /\ ~Fixed(Top.obj)
    /\ "removes" \in Does[Callee.callback].may
    /\ content' = [content EXCEPT ![Top.obj] =
            IF Ordered(Top.obj) THEN RemoveAt(@, Top.loc)
            ELSE [l \in DOMAIN @ \ {Top.loc} |-> @[l]]]
    /\ looked' = IF Ordered(Top.obj) THEN MovedUp(Top.obj, Top.loc) ELSE looked
    /\ stack' = AfterCall(FALSE)
    /\ UNCHANGED <<setup, mapping, seen, status, entered, alike, grown, outcomes>>

\* The callback inserts into the container it was called for.
Inserts ==
    /\ Called
    /\ Kind[Top.obj] \in {"dict", "list"}
    /\ Cardinality(DOMAIN content[Top.obj]) < MaxSize
    /\ \E value \in Does[Callee.callback].inserts :
        \E loc \in IF Ordered(Top.obj) THEN 1 .. Len(content[Top.obj]) + 1
                   ELSE NewKeys \ DOMAIN content[Top.obj] :
            /\ content' = [content EXCEPT ![Top.obj] =
                    IF Ordered(Top.obj) THEN InsertAt(@, loc, value)
                    ELSE [l \in DOMAIN @ \cup {loc} |-> IF l = loc THEN value ELSE @[l]]]
            /\ looked' = IF Ordered(Top.obj) THEN MovedDown(Top.obj, loc) ELSE looked
    /\ grown' = grown \cup {Top.obj}
    /\ stack' = AfterCall(FALSE)
    /\ UNCHANGED <<setup, mapping, seen, status, entered, alike, outcomes>>

Fails ==
    /\ Called
    /\ "fails" \in Does[Callee.callback].may
    /\ Raise(AfterCall(Callee.tolerant))
    /\ UNCHANGED <<setup, mapping, content, entered, looked, alike, grown, broke, overflow>>

\* A missing argument is an error of the definition, which nothing tolerates.
Misdefined ==
    /\ Calling
    /\ Present \/ config.ignores
    /\ "misdefined" \in Does[Callee.callback].may
    /\ stack' = <<>> /\ status' = "raised" /\ seen' = {}
    /\ failed' = TRUE
    /\ UNCHANGED <<setup, mapping, content, traversed, hashes, broke, overflow>>

\* Break ends the innermost loop, whatever calls it is raised from.
Breaks ==
    /\ Called
    /\ "breaks" \in Does[Callee.callback].may
    /\ broke' = TRUE
    /\ LET loops == {i \in DOMAIN stack : stack[i].what = "iter"} IN
        \E i \in loops : (\A j \in loops : j <= i) /\ Leave(SubSeq(stack, 1, i))
    /\ UNCHANGED <<setup, mapping, content, entered, looked, alike, grown, failed, overflow>>

EndLoc ==
    /\ status = "running" /\ Top.what = "loc" /\ Top.callbacks = {}
    /\ stack' = Front(stack)
    /\ UNCHANGED <<setup, mapping, content, seen, status, traversed, hashes, outcomes>>

Next ==
    \/ \E d \in Definitions : Register(d)
    \/ Start
    \/ NextLoc \/ KeysChanged \/ EndLoop \/ Descend \/ NotFound
    \/ Filtered \/ Vanished \/ Returns \/ Observes \/ Removes \/ Inserts \/ Fails
    \/ Misdefined \/ Breaks \/ EndLoc

Spec == Init /\ [][Next]_vars /\ WF_vars(Next)

-----------------------------------------------------------------------------
(* Properties *)

\* A traversal that returns, and was neither broken off nor told to ignore locations that
\* are gone, has been to every location of every container it can reach at the end,
\* including those its callbacks put in the place of others (json.py:663); nothing that a
\* callback removes makes it skip another item without an exception.  Two things are not
\* promised: a list that a callback makes longer is not looked at to its new end, whose
\* range was taken when the loop began (json.py:470), and a model may be passed over for
\* another that was equal to it then, and has been entered (json.py:678, :723).
Complete ==
    status = "done" /\ ~broke /\ ~config.ignores =>
        \A obj \in entered \ grown : \A loc \in DOMAIN content[obj] :
            /\ <<obj, loc>> \in looked
            /\ LET item == content[obj][loc] IN
                item \in Objects \ {Text} =>
                    item \in entered \/ \E m \in entered : <<item, m>> \in alike

\* With process_type_changes, a value is left only when every callback for the type it
\* has at the end has been called there, however many conversions made it (json.py:568),
\* in every container that has kept its places.
TypeChangesProcessed ==
    status = "done" /\ config.typeChanges /\ ~broke /\ ~failed /\ ~config.ignores =>
        \A at \in looked :
            at[1] \notin grown /\ at[2] \in DOMAIN content[at[1]] =>
                \A i \in CallbacksFor(TypeOf(content[at[1]][at[2]])) :
                    ~mapping[i].filtered => <<at[1], at[2], mapping[i]>> \in called

\* Only four things exhaust the stack: a cycle that no model is part of, a model whose hash
\* was changed and which is therefore entered within itself, a new type in a container
\* that takes no new value, and a string taken for a sequence of strings because
\* subclasses are not processed (json.py:297).  Models that keep their hash may refer to
\* each other in any way, whichever are equal, and conversions that end need no more calls
\* than there are types.
OverflowExplained ==
    overflow # <<>> =>
        \/ \E i, j \in DOMAIN overflow :
            /\ i < j /\ overflow[i].what = "iter" /\ overflow[j].what = "iter"
            /\ overflow[i].obj = overflow[j].obj
            /\ \/ overflow[i].obj \in altered
               \/ \A k \in i..j : Kind[overflow[k].obj] # "model"
        \/ \E i \in DOMAIN overflow :
            overflow[i].what = "loc" /\ Fixed(overflow[i].obj) /\ config.typeChanges
        \/ \E i \in DOMAIN overflow : overflow[i].obj = Text /\ ~config.subclasses

\* Once started it returns or raises: no callback, cycle or conversion makes it go on for
\* ever, even where a RecursionError is among the failures that are tolerated.
Terminates == status = "running" ~> status \in {"done", "raised"}
==================================================================================
