-------------------------------- MODULE BankBalances --------------------------------
(***************************************************************************)
(* What the Monzo client (clients/monzo.py) and the TrueLayer client           *)
(* (clients/truelayer.py) keep of the balances of an account.  A value is the   *)
(* time it was right at the bank, and whether it was zero.  The application      *)
(* makes one call at a time, but time passes within calls.                       *)
(***************************************************************************)
EXTENDS Integers, FiniteSets, Sequences, SequencesExt, PythonNone

CONSTANTS Banks,       \* the clients: "monzo" or "truelayer"
          Fields,      \* BALANCE_FIELDS, with "available" and "current"
          Threshold,   \* balance_update_threshold: 15 minutes
          Latency,     \* bound: time a request takes
          MaxTime      \* bound: the time

ASSUME BankAssumption ==
    /\ {"available", "current"} \subseteq Fields
    /\ {Threshold, Latency, MaxTime} \subseteq Nat
    /\ Threshold > 0

VARIABLES bank,          \* the client this is about
          now,           \* the time
          values,        \* what is kept of every field, or None
          last,          \* last_balance_update
          wanted,        \* the property being read, or None
          request,       \* a request for balances: when it was sent, and the reply
          answer,        \* what the last read returned
          omitted        \* history: fields that the last reply left out

balanceVars == <<values, last, wanted, request, answer, omitted>>
bankVars == <<bank, now, balanceVars>>

Never == -Threshold
Blank == [f \in Fields |-> None]

-----------------------------------------------------------------------------
BankInit ==
    /\ bank \in Banks
    /\ now = 0
    /\ values = Blank /\ last = Never
    /\ wanted = None /\ request = None /\ answer = None /\ omitted = {}

\* A request is answered or given up within Latency.
TimePasses ==
    /\ now < MaxTime
    /\ request # None => now < request.sent + Latency
    /\ now' = now + 1
    /\ UNCHANGED <<bank, balanceVars>>

-----------------------------------------------------------------------------
(* Reading a balance *)

\* Mutant: a reading whose threshold has passed is good for one more.
StaleMutant == last <= now - 2 * Threshold

Stale == last <= now - Threshold

\* Monzo keeps all fields or none.
Unset(field) == values[field] = None

\* balance is the available balance, or the current one: two reads in a row.
FieldOf(property) == IF property = "balance" THEN "available" ELSE property

Returned(property, field) ==
    answer' = [property |-> property, value |-> values'[field], at |-> now,
               outdated |-> field \in omitted']

\* The next step of reading a property, now that the field is as fresh as it gets.
Settle(property, field) ==
    /\ request' = None
    /\ IF property = "balance" /\ field = "available" /\ bank = "truelayer"
          /\ (values'[field] = None \/ values'[field].zero)
       THEN wanted' = [property |-> property, field |-> "current"] /\ answer' = answer
       ELSE wanted' = None /\ Returned(property, field)

Want(property) ==
    /\ wanted = None /\ request = None
    /\ wanted' = [property |-> property, field |-> FieldOf(property)]
    /\ UNCHANGED <<bank, now, values, last, request, answer, omitted>>

ReadKept ==
    /\ wanted # None /\ request = None
    /\ ~Stale /\ ~Unset(wanted.field)
    /\ UNCHANGED <<bank, now, values, last, omitted>>
    /\ Settle(wanted.property, wanted.field)

Ask ==
    /\ wanted # None /\ request = None
    /\ Stale \/ Unset(wanted.field)
    /\ request' = [sent |-> now, reply |-> None]
    /\ UNCHANGED <<bank, now, values, last, wanted, answer, omitted>>

\* Monzo's reply has every field or is refused; TrueLayer's need not.
BankReplies ==
    /\ request # None /\ request.reply = None
    /\ \E fields \in SUBSET Fields, zero \in BOOLEAN :
        /\ bank = "monzo" => fields = Fields
        /\ request' = [request EXCEPT !.reply =
                [f \in fields |-> [asOf |-> now, zero |-> zero /\ f = "available"]]]
    /\ UNCHANGED <<bank, now, values, last, wanted, answer, omitted>>

Replied == request # None /\ request.reply # None
With(reply) == [f \in Fields |-> IF f \in DOMAIN reply THEN reply[f] ELSE values[f]]

\* update_balance_values keeps what the reply leaves out, and dates it all anew.
UpdateValues ==
    /\ Replied /\ bank = "truelayer"
    /\ values' = With(request.reply)
    /\ last' = now
    /\ omitted' = Fields \ DOMAIN request.reply
    /\ Settle(wanted.property, wanted.field)
    /\ UNCHANGED <<bank, now>>

UpdateVariables ==
    /\ Replied /\ bank = "monzo"
    /\ values' = request.reply
    /\ last' = now
    /\ UNCHANGED <<bank, now, omitted>>
    /\ Settle(wanted.property, wanted.field)

\* A date that cannot be read ends the update with the fields before it set.
UpdateBreaksOff ==
    /\ Replied /\ bank = "truelayer"
    /\ \E set \in SUBSET DOMAIN request.reply :
        values' = With([f \in set |-> request.reply[f]])
    /\ wanted' = None /\ request' = None
    /\ UNCHANGED <<bank, now, last, answer, omitted>>

\* An error, an invalid reply, or not one result.
UpdateFails ==
    /\ request # None
    /\ wanted' = None /\ request' = None
    /\ UNCHANGED <<bank, now, values, last, answer, omitted>>

\* get_account_by_id, get_card_by_id and the lists make objects that know no balance.
GetEntity ==
    /\ wanted = None
    /\ values' = Blank /\ last' = Never /\ answer' = None /\ omitted' = {}
    /\ UNCHANGED <<bank, now, wanted, request>>

BankNext ==
    \/ TimePasses
    \/ \E property \in Fields \cup {"balance"} : Want(property)
    \/ ReadKept \/ Ask \/ BankReplies
    \/ UpdateValues \/ UpdateVariables \/ UpdateBreaksOff \/ UpdateFails \/ GetEntity

BankSpec == BankInit /\ [][BankNext]_bankVars

-----------------------------------------------------------------------------
(* Properties *)

\* A balance that is read was right at the bank less than the threshold and the time of
\* a request ago, also when a balance takes two reads or an update broke off halfway;
\* except where TrueLayer's last reply left the field out, and the old value got the
\* new date (truelayer.py:311, monzo.py:323).
BalanceFresh ==
    answer # None /\ answer.value # None /\ ~answer.outdated =>
        answer.at - answer.value.asOf < Threshold + Latency
=====================================================================================
