----------------------------- MODULE LogDelivery -----------------------------
(***************************************************************************)
(* What shipping log records to Item Warehouses promises, whatever threads *)
(* and queues do it: a copy of a record that was accepted stays pending    *)
(* until a warehouse holds the record, a warehouse has refused it for      *)
(* good, or the retries are used up; and a warehouse holds what it was     *)
(* given once, under the record's primary key.                             *)
(***************************************************************************)
EXTENDS Naturals

CONSTANTS Records, Keys, Warehouses,
          Key           \* [Records -> Keys]: the primary key of a log item

VARIABLES
    pending,    \* [Records -> Nat]: copies not yet dealt with
    stored,     \* [Warehouses -> SUBSET Keys]
    refused,    \* records a warehouse has refused for good
    abandoned   \* records given up on

vars == <<pending, stored, refused, abandoned>>

Init ==
    /\ pending = [r \in Records |-> 0]
    /\ stored = [w \in Warehouses |-> {}]
    /\ refused = {}
    /\ abandoned = {}

Drop(r) ==
    /\ pending[r] > 0
    /\ pending' = [pending EXCEPT ![r] = @ - 1]

\* Any copies of some records are accepted.
Accept ==
    /\ \A r \in Records : pending'[r] >= pending[r]
    /\ UNCHANGED <<stored, refused, abandoned>>

\* The warehouse stores the record; whether the sender learns it is open.
Store(r, w) ==
    /\ pending[r] > 0
    /\ Key[r] \notin stored[w]
    /\ stored' = [stored EXCEPT ![w] = @ \cup {Key[r]}]

StoreUnconfirmed(r, w) ==
    /\ Store(r, w)
    /\ \A s \in Records : pending'[s] >= pending[s]
    /\ UNCHANGED <<refused, abandoned>>

StoreConfirmed(r, w) ==
    /\ Store(r, w)
    /\ Drop(r)
    /\ UNCHANGED <<refused, abandoned>>

AlreadyStored(r, w) ==
    /\ Key[r] \in stored[w]
    /\ Drop(r)
    /\ UNCHANGED <<stored, refused, abandoned>>

\* Refusing a record, and giving it up, may add records about that.
DropAndReport(r) ==
    /\ pending[r] > 0
    /\ pending'[r] = pending[r] - 1
    /\ \A s \in Records \ {r} : pending'[s] >= pending[s]

Refuse(r) ==
    /\ DropAndReport(r)
    /\ refused' = refused \cup {r}
    /\ UNCHANGED <<stored, abandoned>>

Abandon(r) ==
    /\ DropAndReport(r)
    /\ abandoned' = abandoned \cup {r}
    /\ UNCHANGED refused
    /\ \/ UNCHANGED stored
       \/ \E w \in Warehouses : Store(r, w)

Next ==
    \/ Accept
    \/ \E r \in Records :
          \/ Refuse(r)
          \/ Abandon(r)
          \/ \E w \in Warehouses : \/ StoreUnconfirmed(r, w)
                                   \/ StoreConfirmed(r, w)
                                   \/ AlreadyStored(r, w)

Spec == Init /\ [][Next]_vars
=============================================================================
