---------------------------------- MODULE MonzoPots ----------------------------------
(***************************************************************************)
(* Monzo's deposits into a pot (clients/monzo.py): the dedupe ID by which the  *)
(* bank knows a repeated deposit, and the account that pays, which is looked   *)
(* up once.  A request may be lost or come late and so may its reply; the       *)
(* call then raises, and the application may repeat the deposit.               *)
(***************************************************************************)
EXTENDS Integers, FiniteSets, Sequences, SequencesExt, PythonNone

CONSTANTS Accounts,    \* current accounts at the bank
          Pots,        \* pots at the bank
          Amounts,     \* amounts in pence
          OwnIds,      \* dedupe IDs the application makes up
          MaxSeconds,  \* bound: the time
          MaxIntents   \* bound: deposits the application means to make

ASSUME PotsAssumption == None \notin OwnIds \cup Accounts

VARIABLES second,        \* utcnow(DTU.SECOND)
          open,          \* accounts that are not closed
          current,       \* _current_account, or None
          deposit,       \* deposit_into_pot in progress, or None
          requests,      \* requests on their way to the bank
          moved,         \* the deposits that the bank has made
          intents,       \* history: what the application meant to deposit
          confirmed      \* history: the intents for which deposit_into_pot returned

potsVars == <<second, open, current, deposit, requests, moved, intents, confirmed>>

PotsInit ==
    /\ second = 0
    /\ open = Accounts
    /\ current = None /\ deposit = None
    /\ requests = {} /\ moved = {}
    /\ intents = <<>> /\ confirmed = {}

SecondPasses ==
    /\ second < MaxSeconds
    /\ second' = second + 1
    /\ UNCHANGED <<open, current, deposit, requests, moved, intents, confirmed>>

CloseAccount ==
    /\ \E account \in open : open' = open \ {account}
    /\ UNCHANGED <<second, current, deposit, requests, moved, intents, confirmed>>

-----------------------------------------------------------------------------
(* deposit_into_pot *)

\* Mutant: the amount is not part of the ID.
DedupeIdMutant(intent) ==
    IF intent.own # None THEN <<intent.own>> ELSE <<intent.pot, second>>

\* Pot, amount and the time in seconds, unless the caller has an ID.
DedupeId(intent) ==
    IF intent.own # None THEN <<intent.own>> ELSE <<intent.pot, intent.amount, second>>

\* An attempt at an intent gets its ID before anything else.
Attempt(i, intent) ==
    [by |-> i, at |-> second, id |-> DedupeId(intent), stage |-> "account"]

\* An ID of the application's own is for one intent.
IntendDeposit ==
    /\ deposit = None
    /\ Len(intents) < MaxIntents
    /\ \E intent \in [pot : Pots, amount : Amounts, own : OwnIds \cup {None}] :
        /\ \A other \in ToSet(intents) : intent.own # None => other.own # intent.own
        /\ intents' = Append(intents, intent)
        /\ deposit' = Attempt(Len(intents) + 1, intent)
    /\ UNCHANGED <<second, open, current, requests, moved, confirmed>>

\* The application tries again what it has not seen succeed.
RepeatDeposit ==
    /\ deposit = None
    /\ \E i \in DOMAIN intents \ confirmed : deposit' = Attempt(i, intents[i])
    /\ UNCHANGED <<second, open, current, requests, moved, intents, confirmed>>

\* The first open account that the bank lists, once and for all.
CurrentAccount ==
    /\ deposit # None /\ deposit.stage = "account"
    /\ IF current = None THEN current' \in open ELSE current' = current
    /\ deposit' = [deposit EXCEPT !.stage = "put"]
    /\ UNCHANGED <<second, open, requests, moved, intents, confirmed>>

PutDeposit ==
    /\ deposit # None /\ deposit.stage = "put"
    /\ requests' = requests \cup {[by |-> deposit.by, at |-> deposit.at, id |-> deposit.id,
                                   account |-> current]}
    /\ deposit' = [deposit EXCEPT !.stage = "waits"]
    /\ UNCHANGED <<second, open, current, moved, intents, confirmed>>

\* raise_for_status has nothing to raise.
DepositReturns ==
    /\ deposit # None /\ deposit.stage = "made"
    /\ confirmed' = confirmed \cup {deposit.by}
    /\ deposit' = None
    /\ UNCHANGED <<second, open, current, requests, moved, intents>>

\* No account is listed or the list fails, the bank refuses, or no reply is had in time.
DepositRaises ==
    /\ deposit # None /\ deposit.stage \in {"account", "waits", "refused"}
    /\ deposit' = None
    /\ UNCHANGED <<second, open, current, requests, moved, intents, confirmed>>

-----------------------------------------------------------------------------
(* The bank *)

\* The reply, if it is to the call that waits and is not lost.
Answered(r, reply) ==
    \/ deposit' = deposit
    \/ /\ deposit # None /\ deposit.stage = "waits"
       /\ deposit.by = r.by /\ deposit.at = r.at
       /\ deposit' = [deposit EXCEPT !.stage = reply]

\* A deposit is made once for an ID.  One from an account that was closed after it was
\* looked up is refused, now and whenever it is tried again.
BankHandles ==
    /\ \E r \in requests :
        /\ requests' = requests \ {r}
        /\ IF \E m \in moved : m.id = r.id
           THEN moved' = moved /\ Answered(r, "made")
           ELSE IF r.account \in open
                THEN /\ moved' = moved \cup {[by |-> r.by, at |-> r.at, id |-> r.id]}
                     /\ Answered(r, "made")
                ELSE moved' = moved /\ Answered(r, "refused")
    /\ UNCHANGED <<second, open, current, intents, confirmed>>

RequestLost ==
    /\ \E r \in requests : requests' = requests \ {r}
    /\ UNCHANGED <<second, open, current, deposit, moved, intents, confirmed>>

PotsNext ==
    \/ SecondPasses \/ CloseAccount
    \/ IntendDeposit \/ RepeatDeposit \/ CurrentAccount \/ PutDeposit
    \/ DepositReturns \/ DepositRaises \/ BankHandles \/ RequestLost

PotsSpec == PotsInit /\ [][PotsNext]_potsVars

-----------------------------------------------------------------------------
(* Properties *)

\* A deposit m is one of intent i: it was made for it, or for an equal intent in the same
\* second when neither had an ID of its own.
MadeFor(m, i) ==
    \/ m.by = i
    \/ /\ intents[m.by] = intents[i]
       /\ intents[i].own = None

\* A deposit that deposit_into_pot has returned for is in the bank, however many attempts
\* failed, whichever of them the bank has handled late, and whatever else was deposited
\* meanwhile; and no deposit is made twice unless it has no ID of its own and was tried
\* in two different seconds (monzo.py:459).
DepositsMade ==
    /\ \A i \in confirmed : \E m \in moved : MadeFor(m, i)
    /\ \A m, n \in moved :
        m # n /\ m.by = n.by => intents[m.by].own = None /\ m.at # n.at
======================================================================================
