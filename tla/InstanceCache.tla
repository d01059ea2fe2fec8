-------------------------------- MODULE InstanceCache --------------------------------
(***************************************************************************)
(* The mixin that keeps every instance of a class under its cache ID           *)
(* (helpers/mixin/instance_cache.py, helpers/meta/post_init.py).  A class       *)
(* names an attribute, a method or both that make the ID, or inherits them, or  *)
(* has "__hash__" as its method; it has a dictionary of its own.  The ID is     *)
(* taken once, when the instance is made, and the attribute may change later.   *)
(* Instances are made by one thread at a time: nothing else comes between the   *)
(* look-up of an ID and its entry, for which the code has no lock.               *)
(***************************************************************************)
EXTENDS Integers, FiniteSets, Sequences, SequencesExt, PythonNone

CONSTANTS Mixin,       \* InstanceCacheMixin
          Classes,     \* the classes that may be declared
          Values,      \* what attributes, methods and a __hash__ of one's own return
          MaxInstances \* bound: instances made, refused ones included

ASSUME CacheAssumption ==
    /\ MaxInstances \in Nat
    /\ Mixin \notin Classes
    /\ None \notin Values

VARIABLES declared,    \* what the classes so far have: parent, attr, func, hashes
          instances,   \* the instances made: class, their values now and at first, the key
          registry     \* _INSTANCES: under which key a class has which instance

cacheVars == <<declared, instances, registry>>

CacheInit ==
    /\ declared = [c \in {Mixin} |-> [parent |-> None, attr |-> FALSE, func |-> None,
                                    hashes |-> FALSE]]
    /\ instances = <<>>
    /\ registry = {}

-----------------------------------------------------------------------------
(* Classes *)

\* __init_subclass__: what is not named is inherited, but a class that names nothing gets
\* "__hash__" as its method, whatever its parent has.  It may have a __hash__ of its own.
DeclareClass ==
    /\ \E class \in Classes \ DOMAIN declared, parent \in DOMAIN declared,
          attr, func, hashes \in BOOLEAN :
        LET new == [parent |-> parent,
                    attr |-> attr \/ declared[parent].attr,
                    func |-> IF func THEN "method"
                             ELSE IF attr THEN declared[parent].func ELSE "hash",
                    hashes |-> hashes \/ declared[parent].hashes]
        IN declared' = [c \in DOMAIN declared \cup {class} |->
                           IF c = class THEN new ELSE declared[c]]
    /\ UNCHANGED <<instances, registry>>

-----------------------------------------------------------------------------
(* Instances *)

Number == Len(instances) + 1

\* cache_id: the one that there is, which may be a pair itself, or the pair of both.
CacheId(attr, func) ==
    IF attr = None /\ func = None THEN None
    ELSE IF func = None THEN attr
    ELSE IF attr = None THEN func
    ELSE <<attr, func>>

\* Mutant: a subclass does without a dictionary of its own.
RegistryOfMutant(class) ==
    IF declared[class].parent = Mixin THEN class ELSE declared[class].parent

RegistryOf(class) == class

\* from_cache and has_cache_entry look in the dictionary of the class they are asked of.
FromCache(class, key) ==
    {e.instance : e \in {x \in registry : x.class = RegistryOf(class) /\ x.key = key}}

\* What the attribute and the method return: nothing that is not there, and, unless the
\* class has its own __hash__, a hash of its own for every instance.
PossibleIds(class) ==
    {<<a, f>> : a \in IF declared[class].attr THEN Values \cup {None} ELSE {None},
                f \in CASE declared[class].func = "method" -> Values \cup {None}
                        [] declared[class].func = "hash" ->
                             IF declared[class].hashes THEN Values ELSE {<<Number>>}
                        [] OTHER -> {None}}

\* The constructor has run by the time that __post_init__ refuses the instance, for want
\* of a key (CacheIdGenerationError) or for another that has it.
MakeInstance ==
    /\ Len(instances) < MaxInstances
    /\ \E class \in DOMAIN declared \ {Mixin} : \E ids \in PossibleIds(class) :
        LET key == CacheId(ids[1], ids[2])
            accepted == key # None /\ FromCache(class, key) = {}
        IN /\ instances' = Append(instances,
                [class |-> class, ids |-> ids, attr |-> ids[1], key |-> key,
                 accepted |-> accepted])
           /\ registry' = IF accepted
                          THEN registry \cup {[class |-> RegistryOf(class), key |-> key,
                                               instance |-> Number]}
                          ELSE registry
    /\ UNCHANGED declared

\* The application changes the attribute; the key stays.
ChangeAttribute ==
    /\ \E i \in DOMAIN instances, value \in Values :
        /\ declared[instances[i].class].attr
        /\ instances' = [instances EXCEPT ![i].attr = value]
    /\ UNCHANGED <<declared, registry>>

CacheNext == DeclareClass \/ MakeInstance \/ ChangeAttribute

CacheSpec == CacheInit /\ [][CacheNext]_cacheVars

-----------------------------------------------------------------------------
(* Properties *)

\* What is the one part of q that there is is the pair p.
Doubles(p, q) == None \notin ToSet(p) /\ None \in ToSet(q) /\ p \in ToSet(q) \ {None}

\* i and j had the same IDs at first, or the one had as its only ID what the other had from
\* its other source and nothing else, or had as a pair.
Alike(i, j) ==
    LET p == instances[i].ids
        q == instances[j].ids
    IN /\ instances[i].class = instances[j].class
       /\ \/ p = q
          \/ p = <<q[2], q[1]>> /\ None \in ToSet(p)
          \/ Doubles(p, q) \/ Doubles(q, p)

\* Of the instances of a class that began alike one is there and the others were refused,
\* whatever became of their attributes since; an instance is refused for no other reason
\* than such another or the want of an ID, never for one of a parent or a subclass; and
\* from_cache finds it by its first ID (instance_cache.py:126, 140).
DuplicatesJustified ==
    \A j \in DOMAIN instances :
        /\ instances[j].accepted <=>
             instances[j].key # None /\ ~\E i \in 1..(j - 1) : Alike(i, j)
        /\ instances[j].accepted =>
             FromCache(instances[j].class, instances[j].key) = {j}
======================================================================================
