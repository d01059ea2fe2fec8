------------------------------ MODULE ClientProofs ------------------------------
(***************************************************************************)
(* What the smaller machines promise, each for itself and for every value   *)
(* of its constants: the balances and the pots of the bank clients, the      *)
(* photos of an album, the records of a list handler, the instances of a       *)
(* cached class, the dates that clients are asked for and the pages of lists.  *)
(***************************************************************************)
EXTENDS PagedLists, BankBalances, MonzoPots, PhotoLibrary, RecordList, InstanceCache,
        DateRanges, FiniteSetTheorems, TLAPS

-----------------------------------------------------------------------------
(* BankBalances: a balance that is read was asked for while it was wanted. *)

Times ==
    /\ now \in Nat
    /\ last \in Int /\ last <= now

\* The values kept are no newer than now and, but for those that the last reply left
\* out, no older than the update by more than a request takes.
ValuesDated ==
    /\ DOMAIN values = Fields
    /\ \A f \in Fields : values[f] # None =>
        /\ values[f].asOf \in Nat
        /\ f \notin omitted => last - values[f].asOf <= Latency

\* A request was sent after the last update, is not older than a request can be, and
\* what is in the reply was right since.
RequestDated ==
    request # None =>
        /\ wanted # None
        /\ request = [sent |-> request.sent, reply |-> request.reply]
        /\ request.sent \in Nat
        /\ last <= request.sent /\ request.sent <= now
        /\ now <= request.sent + Latency
        /\ request.reply # None =>
            /\ DOMAIN request.reply \subseteq Fields
            /\ bank = "monzo" => DOMAIN request.reply = Fields
            /\ \A f \in DOMAIN request.reply :
                /\ request.reply[f].asOf \in Nat
                /\ request.sent <= request.reply[f].asOf

WantedField == wanted # None => wanted.field \in Fields

BankInv == Times /\ ValuesDated /\ RequestDated /\ WantedField /\ BalanceFresh

-----------------------------------------------------------------------------
LEMMA BankInitInv == BankInit => BankInv
<1> SUFFICES ASSUME BankInit PROVE BankInv
  OBVIOUS
<1>1. Times
  BY BankAssumption DEF BankInit, Times, Never
<1>2. ValuesDated
  BY DEF BankInit, ValuesDated, Blank
<1>3. RequestDated /\ WantedField /\ BalanceFresh
  BY DEF BankInit, RequestDated, WantedField, BalanceFresh
<1> QED
  BY <1>1, <1>2, <1>3 DEF BankInv

\* The end of a read, once the value is known to be fresh.
LEMMA SettledFresh ==
    ASSUME Times, Times', WantedField, wanted # None, ValuesDated', now' = now,
           now - last' < Threshold,
           BalanceFresh,
           Settle(wanted.property, wanted.field)
    PROVE  BalanceFresh' /\ WantedField'
<1>1. WantedField'
  BY BankAssumption DEF Settle, WantedField
<1>2. CASE answer' = answer
  BY <1>1, <1>2 DEF BalanceFresh
<1>3. CASE Returned(wanted.property, wanted.field)
  <2> DEFINE f == wanted.field
  <2>1. f \in Fields
    BY DEF WantedField
  <2>2. answer'.value = values'[f] /\ answer'.at = now /\ answer'.outdated = (f \in omitted')
    BY <1>3 DEF Returned
  <2> SUFFICES ASSUME answer'.value # None, ~answer'.outdated
               PROVE  answer'.at - answer'.value.asOf < Threshold + Latency
    BY <1>1 DEF BalanceFresh
  <2>3. values'[f].asOf \in Nat /\ last' - values'[f].asOf <= Latency
    BY <2>1, <2>2 DEF ValuesDated
  <2> QED
    BY <2>2, <2>3, BankAssumption DEF Times
<1> QED
  BY <1>2, <1>3 DEF Settle

LEMMA TimePassesKeeps == BankInv /\ TimePasses => BankInv'
<1> SUFFICES ASSUME BankInv, TimePasses PROVE BankInv'
  OBVIOUS
<1> USE DEF BankInv, TimePasses, balanceVars
<1>1. Times' /\ ValuesDated' /\ WantedField'
  BY DEF Times, ValuesDated, WantedField
<1>2. RequestDated'
  BY BankAssumption DEF RequestDated, Times
<1>3. BalanceFresh'
  BY DEF BalanceFresh
<1> QED
  BY <1>1, <1>2, <1>3

LEMMA WantKeeps ==
    ASSUME NEW property \in Fields \cup {"balance"}, BankInv, Want(property)
    PROVE  BankInv'
<1> USE DEF BankInv, Want
<1>1. Times' /\ ValuesDated' /\ RequestDated'
  BY DEF Times, ValuesDated, RequestDated
<1>2. WantedField'
  BY BankAssumption DEF WantedField, FieldOf
<1>3. BalanceFresh'
  BY DEF BalanceFresh
<1> QED
  BY <1>1, <1>2, <1>3

LEMMA ReadKeptKeeps == BankInv /\ ReadKept => BankInv'
<1> SUFFICES ASSUME BankInv, ReadKept PROVE BankInv'
  OBVIOUS
<1> USE DEF BankInv, ReadKept
<1>1. Times' /\ ValuesDated'
  BY DEF Times, ValuesDated
<1>2. RequestDated'
  BY DEF RequestDated, Settle
<1>3. now - last' < Threshold
  BY BankAssumption DEF Stale, Times
<1>4. BalanceFresh' /\ WantedField'
  BY <1>1, <1>3, SettledFresh
<1> QED
  BY <1>1, <1>2, <1>4

LEMMA AskKeeps == BankInv /\ Ask => BankInv'
<1> SUFFICES ASSUME BankInv, Ask PROVE BankInv'
  OBVIOUS
<1> USE DEF BankInv, Ask
<1>1. Times' /\ ValuesDated' /\ WantedField'
  BY DEF Times, ValuesDated, WantedField
<1>2. RequestDated'
  BY BankAssumption DEF RequestDated, Times
<1>3. BalanceFresh'
  BY DEF BalanceFresh
<1> QED
  BY <1>1, <1>2, <1>3

LEMMA BankRepliesKeeps == BankInv /\ BankReplies => BankInv'
<1> SUFFICES ASSUME BankInv, BankReplies PROVE BankInv'
  OBVIOUS
<1> USE DEF BankInv, BankReplies
<1>1. Times' /\ ValuesDated' /\ WantedField'
  BY DEF Times, ValuesDated, WantedField
<1>2. RequestDated'
  <2>1. PICK fields \in SUBSET Fields, zero \in BOOLEAN :
          /\ bank = "monzo" => fields = Fields
          /\ request' = [request EXCEPT !.reply =
                [f \in fields |-> [asOf |-> now, zero |-> zero /\ f = "available"]]]
    OBVIOUS
  <2> DEFINE reply == [f \in fields |-> [asOf |-> now, zero |-> zero /\ f = "available"]]
  <2>2. request' = [sent |-> request.sent, reply |-> reply]
    BY <2>1 DEF RequestDated
  <2>3. request'.reply = reply /\ request'.sent = request.sent
    BY <2>2
  <2>4. \A f \in fields : reply[f].asOf = now
    OBVIOUS
  <2>5. DOMAIN reply = fields
    OBVIOUS
  <2> HIDE DEF reply
  <2>6. request'.sent \in Nat /\ last <= request.sent /\ now <= request.sent + Latency
        /\ request.sent <= now /\ wanted # None
    BY <2>3 DEF RequestDated, Times
  <2> QED
    BY <2>1, <2>2, <2>3, <2>4, <2>5, <2>6 DEF RequestDated, Times
<1>3. BalanceFresh'
  BY DEF BalanceFresh
<1> QED
  BY <1>1, <1>2, <1>3

\* Some of the values of the reply that was waited for, or all of them.
LEMMA PartDated ==
    ASSUME Times, ValuesDated, RequestDated, Replied,
           NEW part, DOMAIN part \subseteq DOMAIN request.reply,
           \A f \in DOMAIN part : part[f] = request.reply[f],
           values' = With(part),
           UNCHANGED <<last, omitted>>
    PROVE  ValuesDated'
<1>1. DOMAIN values' = Fields
  BY DEF With
<1> SUFFICES ASSUME NEW f \in Fields, values'[f] # None
             PROVE  values'[f].asOf \in Nat /\
                    (f \notin omitted => last - values'[f].asOf <= Latency)
  BY <1>1 DEF ValuesDated
<1>2. CASE f \in DOMAIN part
  <2>1. values'[f] = request.reply[f]
    BY <1>2 DEF With
  <2> QED
    BY <1>2, <2>1, BankAssumption DEF RequestDated, Replied, Times
<1>3. CASE f \notin DOMAIN part
  <2>1. values'[f] = values[f]
    BY <1>3 DEF With
  <2> QED
    BY <2>1 DEF ValuesDated
<1> QED
  BY <1>2, <1>3

LEMMA UpdateValuesKeeps == BankInv /\ UpdateValues => BankInv'
<1> SUFFICES ASSUME BankInv, UpdateValues PROVE BankInv'
  OBVIOUS
<1> USE DEF BankInv, UpdateValues
<1>1. Times'
  BY DEF Times
<1>2. ValuesDated'
  <2> SUFFICES ASSUME NEW f \in Fields, values'[f] # None
               PROVE  values'[f].asOf \in Nat /\
                      (f \notin omitted' => last' - values'[f].asOf <= Latency)
    BY DEF ValuesDated, With
  <2>1. CASE f \in DOMAIN request.reply
    <3>1. values'[f] = request.reply[f]
      BY <2>1 DEF With
    <3> QED
      BY <2>1, <3>1, BankAssumption DEF RequestDated, Replied, Times
  <2>2. CASE f \notin DOMAIN request.reply
    <3>1. values'[f] = values[f] /\ f \in omitted'
      BY <2>2 DEF With
    <3> QED
      BY <3>1 DEF ValuesDated
  <2> QED
    BY <2>1, <2>2
<1>3. RequestDated'
  BY DEF RequestDated, Settle
<1>4. now - last' < Threshold
  BY BankAssumption DEF Times
<1>5. wanted # None
  BY DEF RequestDated, Replied
<1>6. BalanceFresh' /\ WantedField'
  BY <1>1, <1>2, <1>4, <1>5, SettledFresh
<1> QED
  BY <1>1, <1>2, <1>3, <1>6

LEMMA UpdateVariablesKeeps == BankInv /\ UpdateVariables => BankInv'
<1> SUFFICES ASSUME BankInv, UpdateVariables PROVE BankInv'
  OBVIOUS
<1> USE DEF BankInv, UpdateVariables
<1>1. Times'
  BY DEF Times
<1>2. ValuesDated'
  BY BankAssumption DEF ValuesDated, RequestDated, Replied, Times
<1>3. RequestDated'
  BY DEF RequestDated, Settle
<1>4. now - last' < Threshold /\ wanted # None
  BY BankAssumption DEF Times, RequestDated, Replied
<1>5. BalanceFresh' /\ WantedField'
  BY <1>1, <1>2, <1>4, SettledFresh
<1> QED
  BY <1>1, <1>2, <1>3, <1>5

LEMMA UpdateBreaksOffKeeps == BankInv /\ UpdateBreaksOff => BankInv'
<1> SUFFICES ASSUME BankInv, UpdateBreaksOff PROVE BankInv'
  OBVIOUS
<1> USE DEF BankInv, UpdateBreaksOff
<1>1. Times' /\ RequestDated' /\ WantedField'
  BY DEF Times, RequestDated, WantedField
<1>2. ValuesDated'
  <2>1. PICK set \in SUBSET DOMAIN request.reply :
          values' = With([f \in set |-> request.reply[f]])
    OBVIOUS
  <2> DEFINE part == [f \in set |-> request.reply[f]]
  <2>2. DOMAIN part \subseteq DOMAIN request.reply
    OBVIOUS
  <2>3. \A f \in DOMAIN part : part[f] = request.reply[f]
    OBVIOUS
  <2>4. values' = With(part)
    BY <2>1
  <2> HIDE DEF part
  <2> QED
    BY <2>2, <2>3, <2>4, PartDated
<1>3. BalanceFresh'
  BY DEF BalanceFresh
<1> QED
  BY <1>1, <1>2, <1>3

LEMMA ForgettingKeeps == BankInv /\ (UpdateFails \/ GetEntity) => BankInv'
<1> SUFFICES ASSUME BankInv, UpdateFails \/ GetEntity PROVE BankInv'
  OBVIOUS
<1> USE DEF BankInv
<1>1. Times'
  BY BankAssumption DEF Times, UpdateFails, GetEntity, Never
<1>2. ValuesDated'
  BY DEF ValuesDated, UpdateFails, GetEntity, Blank
<1>3. RequestDated' /\ WantedField'
  BY DEF RequestDated, WantedField, UpdateFails, GetEntity
<1>4. BalanceFresh'
  BY DEF BalanceFresh, UpdateFails, GetEntity
<1> QED
  BY <1>1, <1>2, <1>3, <1>4

-----------------------------------------------------------------------------
\* A balance that is read was right at the bank less than the threshold and the time of a
\* request ago, whichever steps a read takes and wherever an update broke off, except for
\* fields that TrueLayer's last reply left out (truelayer.py:311, monzo.py:323).
THEOREM BalancesFresh == BankSpec => []BalanceFresh
<1>1. BankInv /\ [BankNext]_bankVars => BankInv'
  <2> SUFFICES ASSUME BankInv, [BankNext]_bankVars PROVE BankInv'
    OBVIOUS
  <2>1. CASE UNCHANGED bankVars
    BY <2>1 DEF bankVars, balanceVars, BankInv, Times, ValuesDated, RequestDated, WantedField,
             BalanceFresh
  <2>2. CASE TimePasses
    BY <2>2, TimePassesKeeps
  <2>3. ASSUME NEW property \in Fields \cup {"balance"}, Want(property) PROVE BankInv'
    BY <2>3, WantKeeps
  <2>4. CASE ReadKept
    BY <2>4, ReadKeptKeeps
  <2>5. CASE Ask
    BY <2>5, AskKeeps
  <2>6. CASE BankReplies
    BY <2>6, BankRepliesKeeps
  <2>7. CASE UpdateValues
    BY <2>7, UpdateValuesKeeps
  <2>8. CASE UpdateVariables
    BY <2>8, UpdateVariablesKeeps
  <2>9. CASE UpdateBreaksOff
    BY <2>9, UpdateBreaksOffKeeps
  <2>10. CASE UpdateFails \/ GetEntity
    BY <2>10, ForgettingKeeps
  <2> QED
    BY <2>1, <2>2, <2>3, <2>4, <2>5, <2>6, <2>7, <2>8, <2>9, <2>10 DEF BankNext
<1>2. BankInv => BalanceFresh
  BY DEF BankInv
<1> QED
  BY <1>1, <1>2, BankInitInv, PTL DEF BankSpec

-----------------------------------------------------------------------------
(* MonzoPots: a deposit that was confirmed is made, and none is made twice. *)

Intent == [pot : Pots, amount : Amounts, own : OwnIds \cup {None}]

\* What is asked of the bank under an ID was meant by the application.
Meant(r) ==
    /\ r.by \in DOMAIN intents
    /\ r.id = LET intent == intents[r.by] IN
              IF intent.own # None THEN <<intent.own>> ELSE <<intent.pot, intent.amount, r.at>>

IntentsInv ==
    /\ intents \in Seq(Intent)
    /\ \A i, j \in DOMAIN intents :
        intents[i].own # None /\ intents[i].own = intents[j].own => i = j

\* No two deposits at the bank have the same ID.
MovesInv ==
    /\ \A r \in requests : Meant(r)
    /\ \A m \in moved : Meant(m)
    /\ \A m, n \in moved : m.id = n.id => m = n

AttemptInv ==
    deposit # None =>
        /\ deposit = [by |-> deposit.by, at |-> deposit.at, id |-> deposit.id,
                      stage |-> deposit.stage]
        /\ Meant(deposit)
        /\ deposit.stage = "made" => \E m \in moved : m.id = deposit.id

ConfirmedInv ==
    /\ confirmed \subseteq DOMAIN intents
    /\ \A i \in confirmed : \E m \in moved : MadeFor(m, i)

PotsInv == IntentsInv /\ MovesInv /\ AttemptInv /\ ConfirmedInv

\* What has the ID of an attempt was made for the intent of it.
LEMMA SameId ==
    ASSUME IntentsInv, NEW m, NEW r, Meant(m), Meant(r), m.id = r.id
    PROVE  MadeFor(m, r.by)
<1>1. \A a, b, c, d : <<a>> # <<b, c, d>>
  <2> SUFFICES ASSUME NEW a, NEW b, NEW c, NEW d, <<a>> = <<b, c, d>>
               PROVE  FALSE
    OBVIOUS
  <2>1. Len(<<a>>) = 1 /\ Len(<<b, c, d>>) = 3
    OBVIOUS
  <2> QED  BY <2>1
<1>2. PICK i \in DOMAIN intents, j \in DOMAIN intents : i = m.by /\ j = r.by
  BY DEF Meant
<1>3. intents[i] \in Intent /\ intents[j] \in Intent
  BY <1>2 DEF IntentsInv
<1>4. CASE intents[i].own # None /\ intents[j].own # None
  <2>1. <<intents[i].own>> = <<intents[j].own>>
    BY <1>2, <1>4 DEF Meant
  <2>2. intents[i].own = intents[j].own
    BY <2>1
  <2> QED  BY <1>2, <1>4, <2>2 DEF IntentsInv, MadeFor
<1>5. CASE intents[i].own = None /\ intents[j].own = None
  <2>1. <<intents[i].pot, intents[i].amount, m.at>> = <<intents[j].pot, intents[j].amount, r.at>>
    BY <1>2, <1>5 DEF Meant
  <2>2. intents[i].pot = intents[j].pot /\ intents[i].amount = intents[j].amount
    BY <2>1
  <2>3. intents[i] = intents[j]
    BY <1>3, <1>5, <2>2 DEF Intent
  <2> QED  BY <1>2, <1>5, <2>3 DEF MadeFor
<1>6. CASE intents[i].own # None /\ intents[j].own = None
  BY <1>1, <1>2, <1>6 DEF Meant
<1>7. CASE intents[i].own = None /\ intents[j].own # None
  BY <1>1, <1>2, <1>7 DEF Meant
<1> QED  BY <1>4, <1>5, <1>6, <1>7

LEMMA PotsRight ==
    ASSUME PotsInv
    PROVE  DepositsMade
<1>1. ASSUME NEW m \in moved, NEW n \in moved, m # n, m.by = n.by
      PROVE  intents[m.by].own = None /\ m.at # n.at
  <2>1. m.id # n.id /\ Meant(m) /\ Meant(n)
    BY <1>1 DEF PotsInv, MovesInv
  <2> QED  BY <1>1, <2>1 DEF Meant
<1> QED  BY <1>1 DEF PotsInv, ConfirmedInv, DepositsMade

\* A first attempt at an intent.
LEMMA IntendKeeps ==
    ASSUME PotsInv, IntendDeposit
    PROVE  PotsInv'
<1>1. PICK intent \in Intent :
         /\ \A other \in ToSet(intents) : intent.own # None => other.own # intent.own
         /\ intents' = Append(intents, intent)
         /\ deposit' = Attempt(Len(intents) + 1, intent)
  BY DEF IntendDeposit, Intent
<1>2. /\ intents \in Seq(Intent) /\ Len(intents) \in Nat
      /\ DOMAIN intents = 1 .. Len(intents)
      /\ moved' = moved /\ requests' = requests /\ confirmed' = confirmed
  BY DEF IntendDeposit, PotsInv, IntentsInv
<1>3. /\ intents' \in Seq(Intent)
      /\ DOMAIN intents' = 1 .. (Len(intents) + 1)
      /\ \A i \in 1 .. Len(intents) : intents'[i] = intents[i]
      /\ intents'[Len(intents) + 1] = intent
  BY <1>1, <1>2
<1>4. \A i \in DOMAIN intents : intents[i] \in ToSet(intents)
  BY DEF ToSet
<1>5. IntentsInv'
  <2> SUFFICES ASSUME NEW i \in DOMAIN intents', NEW j \in DOMAIN intents',
                      intents'[i].own # None, intents'[i].own = intents'[j].own
               PROVE  i = j
    BY <1>3 DEF IntentsInv
  <2>1. CASE i \in DOMAIN intents /\ j \in DOMAIN intents
    BY <1>2, <1>3, <2>1 DEF PotsInv, IntentsInv
  <2>2. CASE i \in DOMAIN intents /\ j = Len(intents) + 1
    BY <1>1, <1>2, <1>3, <1>4, <2>2
  <2>3. CASE i = Len(intents) + 1 /\ j \in DOMAIN intents
    BY <1>1, <1>2, <1>3, <1>4, <2>3
  <2> QED  BY <1>2, <1>3, <2>1, <2>2, <2>3
<1>6. ASSUME NEW r, Meant(r)  PROVE Meant(r)'
  BY <1>2, <1>3, <1>6 DEF Meant
<1>7. MovesInv'
  BY <1>2, <1>6 DEF PotsInv, MovesInv
<1>8. AttemptInv'
  <2>1. deposit' = [by |-> Len(intents) + 1, at |-> second, id |-> DedupeId(intent),
                    stage |-> "account"]
    BY <1>1 DEF Attempt
  <2> QED  BY <1>2, <1>3, <2>1 DEF AttemptInv, Meant, DedupeId
<1>9. ConfirmedInv'
  <2>1. ASSUME NEW i \in confirmed  PROVE \E m \in moved : MadeFor(m, i)'
    <3>1. PICK m \in moved : MadeFor(m, i)
      BY <2>1 DEF PotsInv, ConfirmedInv
    <3>2. m.by \in DOMAIN intents /\ i \in DOMAIN intents
      BY <2>1 DEF PotsInv, ConfirmedInv, MovesInv, Meant
    <3> QED  BY <1>2, <1>3, <3>1, <3>2 DEF MadeFor
  <2> QED  BY <1>2, <1>3, <2>1 DEF PotsInv, ConfirmedInv
<1> QED  BY <1>5, <1>7, <1>8, <1>9 DEF PotsInv

\* What an attempt does but for its first step and its last.
LEMMA AttemptKeeps ==
    ASSUME PotsInv, RepeatDeposit \/ CurrentAccount \/ PutDeposit \/ DepositRaises
    PROVE  PotsInv'
<1>1. /\ intents' = intents /\ moved' = moved /\ confirmed' = confirmed
  BY DEF RepeatDeposit, CurrentAccount, PutDeposit, DepositRaises
<1>2. IntentsInv' /\ ConfirmedInv'
  BY <1>1 DEF PotsInv, IntentsInv, ConfirmedInv, MadeFor
<1>3. CASE RepeatDeposit
  <2>1. PICK i \in DOMAIN intents : deposit' = Attempt(i, intents[i])
    BY <1>3 DEF RepeatDeposit
  <2>2. deposit' = [by |-> i, at |-> second, id |-> DedupeId(intents[i]), stage |-> "account"]
    BY <2>1 DEF Attempt
  <2>3. AttemptInv'
    BY <1>1, <2>2 DEF AttemptInv, Meant, DedupeId
  <2>4. MovesInv'
    BY <1>1, <1>3 DEF PotsInv, MovesInv, Meant, RepeatDeposit
  <2> QED  BY <1>2, <2>3, <2>4 DEF PotsInv
<1>4. CASE CurrentAccount
  <2>1. MovesInv'
    BY <1>1, <1>4 DEF PotsInv, MovesInv, Meant, CurrentAccount
  <2>2. AttemptInv'
    BY <1>1, <1>4 DEF PotsInv, AttemptInv, Meant, CurrentAccount
  <2> QED  BY <1>2, <2>1, <2>2 DEF PotsInv
<1>5. CASE PutDeposit
  <2> DEFINE new == [by |-> deposit.by, at |-> deposit.at, id |-> deposit.id,
                     account |-> current]
  <2>1. requests' = requests \cup {new} /\ deposit # None
    BY <1>5 DEF PutDeposit
  <2>2. new.by = deposit.by /\ new.at = deposit.at /\ new.id = deposit.id
    OBVIOUS
  <2> HIDE DEF new
  <2>3. Meant(deposit)
    BY <2>1 DEF PotsInv, AttemptInv
  <2>4. Meant(new)
    BY <2>2, <2>3 DEF Meant
  <2>5. ASSUME NEW r, Meant(r)  PROVE Meant(r)'
    BY <1>1, <2>5 DEF Meant
  <2>6. MovesInv'
    BY <1>1, <2>1, <2>4, <2>5 DEF PotsInv, MovesInv
  <2>7. AttemptInv'
    BY <1>1, <1>5 DEF PotsInv, AttemptInv, Meant, PutDeposit
  <2> QED  BY <1>2, <2>6, <2>7 DEF PotsInv
<1>6. CASE DepositRaises
  <2>1. MovesInv' /\ AttemptInv'
    BY <1>1, <1>6 DEF PotsInv, MovesInv, AttemptInv, Meant, DepositRaises
  <2> QED  BY <1>2, <2>1 DEF PotsInv
<1> QED  BY <1>3, <1>4, <1>5, <1>6

LEMMA ReturnsKeeps ==
    ASSUME PotsInv, DepositReturns
    PROVE  PotsInv'
<1>1. /\ intents' = intents /\ moved' = moved /\ requests' = requests
      /\ confirmed' = confirmed \cup {deposit.by} /\ deposit' = None
  BY DEF DepositReturns
<1>2. IntentsInv' /\ MovesInv' /\ AttemptInv'
  BY <1>1 DEF PotsInv, IntentsInv, MovesInv, AttemptInv, Meant
<1>3. PICK m \in moved : m.id = deposit.id
  BY DEF PotsInv, AttemptInv, DepositReturns
<1>4. Meant(m) /\ Meant(deposit)
  BY DEF PotsInv, MovesInv, AttemptInv, DepositReturns
<1>5. MadeFor(m, deposit.by)
  BY <1>3, <1>4, SameId DEF PotsInv
<1>6. ConfirmedInv'
  BY <1>1, <1>4, <1>5 DEF PotsInv, ConfirmedInv, MadeFor, Meant
<1> QED  BY <1>2, <1>6 DEF PotsInv

LEMMA HandledKeeps ==
    ASSUME PotsInv, BankHandles
    PROVE  PotsInv'
<1>1. PICK r \in requests :
        /\ requests' = requests \ {r}
        /\ IF \E m \in moved : m.id = r.id
           THEN moved' = moved /\ Answered(r, "made")
           ELSE IF r.account \in open
                THEN /\ moved' = moved \cup {[by |-> r.by, at |-> r.at, id |-> r.id]}
                     /\ Answered(r, "made")
                ELSE moved' = moved /\ Answered(r, "refused")
  BY DEF BankHandles
<1> DEFINE new == [by |-> r.by, at |-> r.at, id |-> r.id]
<1>2. intents' = intents /\ confirmed' = confirmed /\ Meant(r)
  BY DEF BankHandles, PotsInv, MovesInv
<1>3. Meant(new) /\ new.id = r.id
  BY <1>2 DEF Meant
<1> HIDE DEF new
<1>4. /\ moved \subseteq moved'
      /\ MovesInv'
  <2>1. CASE moved' = moved
    BY <1>1, <1>2, <2>1 DEF PotsInv, MovesInv, Meant
  <2>2. CASE moved' = moved \cup {new} /\ ~\E m \in moved : m.id = r.id
    BY <1>1, <1>2, <1>3, <2>2 DEF PotsInv, MovesInv, Meant
  <2> QED  BY <1>1, <2>1, <2>2 DEF new
<1>5. IntentsInv' /\ ConfirmedInv'
  BY <1>2, <1>4 DEF PotsInv, IntentsInv, ConfirmedInv, MadeFor
<1>6. AttemptInv'
  <2>1. CASE deposit' = deposit
    BY <1>2, <1>4, <2>1 DEF PotsInv, AttemptInv, Meant
  <2>2. CASE deposit' # deposit
    <3>1. PICK reply \in {"made", "refused"} :
            /\ Answered(r, reply)
            /\ reply = "made" => \E m \in moved' : m.id = r.id
      BY <1>1, <1>3, <1>4 DEF new
    <3>2. /\ deposit # None /\ deposit.by = r.by /\ deposit.at = r.at
          /\ deposit' = [deposit EXCEPT !.stage = reply]
      BY <2>2, <3>1 DEF Answered
    <3>3. /\ Meant(deposit)
          /\ deposit = [by |-> deposit.by, at |-> deposit.at, id |-> deposit.id,
                        stage |-> deposit.stage]
      BY <3>2 DEF PotsInv, AttemptInv
    <3>4. deposit.id = r.id
      BY <1>2, <3>2, <3>3 DEF Meant
    <3>5. deposit' = [by |-> deposit.by, at |-> deposit.at, id |-> deposit.id,
                      stage |-> reply]
      BY <3>2, <3>3
    <3> QED  BY <1>2, <3>1, <3>3, <3>4, <3>5 DEF AttemptInv, Meant
  <2> QED  BY <2>1, <2>2
<1> QED  BY <1>4, <1>5, <1>6 DEF PotsInv

\* A deposit that was confirmed is in the bank, however many attempts failed and whichever
\* of them the bank handled late, and none is made twice unless it has no ID of its own and
\* was tried in two seconds (monzo.py:459).
THEOREM DepositsAreMade == PotsSpec => []DepositsMade
<1>1. PotsInit => PotsInv
  BY DEF PotsInit, PotsInv, IntentsInv, MovesInv, AttemptInv, ConfirmedInv
<1>2. PotsInv /\ [PotsNext]_potsVars => PotsInv'
  <2> SUFFICES ASSUME PotsInv, [PotsNext]_potsVars  PROVE  PotsInv'
    OBVIOUS
  <2>1. CASE /\ UNCHANGED <<deposit, moved, intents, confirmed>>
             /\ requests' \subseteq requests
    BY <2>1 DEF PotsInv, IntentsInv, MovesInv, AttemptInv, ConfirmedInv, Meant, MadeFor
  <2>2. CASE IntendDeposit
    BY <2>2, IntendKeeps
  <2>3. CASE RepeatDeposit \/ CurrentAccount \/ PutDeposit \/ DepositRaises
    BY <2>3, AttemptKeeps
  <2>4. CASE DepositReturns
    BY <2>4, ReturnsKeeps
  <2>5. CASE BankHandles
    BY <2>5, HandledKeeps
  <2> QED
    BY <2>1, <2>2, <2>3, <2>4, <2>5
    DEF PotsNext, potsVars, SecondPasses, CloseAccount, RequestLost
<1> QED  BY <1>1, <1>2, PotsRight, PTL DEF PotsSpec

-----------------------------------------------------------------------------
(* PhotoLibrary: albums, paths and files. *)

AlbumsInv ==
    /\ online \subseteq Albums
    /\ albums = None \/ (albums \in Seq(Albums) /\ IsInjective(albums))

\* A path that may be the one of an item.
Suits(path, item) ==
    path[2] = item.day /\ (path[3] \in FileNames \/ path[3] = item.name)

\* What is in a file was downloaded to that path, and it is whole unless it is being
\* written or that was broken off.
FilesInv ==
    \A path \in DOMAIN files :
        /\ Suits(path, files[path].of)
        /\ ~files[path].whole =>
            broken \/ (download # None /\ download.step = "write" /\ download.path = path)

PathsInv == \A item \in Photos : localPath[item] # None => Suits(localPath[item], item)

DownloadInv ==
    /\ DOMAIN localPath = Photos
    /\ download # None => download \in DownloadStates /\ Suits(download.path, download.item)

PhotosInv == AlbumsInv /\ FilesInv /\ PathsInv /\ DownloadInv /\ OwnContent

-----------------------------------------------------------------------------
LEMMA PhotosInitInv == PhotosInit => PhotosInv
BY DEF PhotosInit, PhotosInv, AlbumsInv, FilesInv, PathsInv, DownloadInv, OwnContent

-----------------------------------------------------------------------------
(* Albums *)

LEMMA AlbumByIdKeeps == AlbumsInv /\ AlbumById => AlbumsInv'
<1> SUFFICES ASSUME AlbumsInv, AlbumById PROVE AlbumsInv'
  OBVIOUS
<1>1. PICK id \in online \ Known :
        albums' = IF albums = None THEN <<id>> ELSE Append(albums, id)
  BY DEF AlbumById
<1>2. id \in Albums
  BY DEF AlbumById, AlbumsInv
<1>3. CASE albums = None
  BY <1>1, <1>2, <1>3 DEF AlbumsInv, IsInjective, AlbumById
<1>4. CASE albums # None
  <2>1. \A i \in DOMAIN albums : albums[i] # id
    BY <1>1, <1>4 DEF Known, ToSet
  <2> QED
    BY <1>1, <1>2, <1>4, <2>1 DEF AlbumsInv, IsInjective, AlbumById
<1> QED
  BY <1>3, <1>4

\* What a listing adds to a list of albums without duplicates is another such list.
LEMMA ListAlbumsKeeps == AlbumsInv /\ ListAlbums => AlbumsInv'
<1> SUFFICES ASSUME AlbumsInv, ListAlbums PROVE AlbumsInv'
  OBVIOUS
<1>1. PICK new \in SetToSeqs(MissingAlbums) :
        albums' = IF albums = None THEN new ELSE albums \o new
  BY DEF ListAlbums
<1> DEFINE n == Cardinality(MissingAlbums)
<1>2. n \in Nat
  <2>1. IsFiniteSet(MissingAlbums)
    BY PhotosAssumption, FS_Subset DEF MissingAlbums, AlbumsInv
  <2> QED
    BY <2>1, FS_CardinalityType
<1>3. /\ new \in [1..n -> MissingAlbums]
      /\ \A i, j \in 1..n : i # j => new[i] # new[j]
  BY <1>1 DEF SetToSeqs
<1> HIDE DEF n
<1>4. new \in Seq(Albums) /\ Len(new) = n
  BY <1>2, <1>3 DEF MissingAlbums, AlbumsInv
<1>5. online' = online
  BY DEF ListAlbums
<1>6. CASE albums = None
  BY <1>1, <1>3, <1>4, <1>5, <1>6 DEF AlbumsInv, IsInjective
<1>7. CASE albums # None
  <2>1. albums \in Seq(Albums) /\ IsInjective(albums)
    BY <1>7 DEF AlbumsInv
  <2>2. albums' = albums \o new /\ albums' \in Seq(Albums) /\ Len(albums') = Len(albums) + n
    <3>1. albums' = albums \o new
      BY <1>1, <1>7
    <3>2. albums \o new \in Seq(Albums) /\ Len(albums \o new) = Len(albums) + Len(new)
      BY <1>4, <2>1
    <3> QED
      BY <1>4, <3>1, <3>2
  <2>3. \A i \in 1..Len(albums), j \in 1..n : albums[i] # new[j]
    <3> SUFFICES ASSUME NEW i \in 1..Len(albums), NEW j \in 1..n PROVE albums[i] # new[j]
      OBVIOUS
    <3>1. albums[i] \in Known
      BY <1>7, <2>1 DEF Known, ToSet
    <3>2. new[j] \notin Known
      BY <1>3 DEF MissingAlbums
    <3> QED
      BY <3>1, <3>2
  <2>4. \A i \in 1..Len(albums') :
          albums'[i] = IF i <= Len(albums) THEN albums[i] ELSE new[i - Len(albums)]
    <3>1. Len(new) = n /\ Len(albums) \in Nat
      BY <1>4, <2>1
    <3> QED
      BY <1>2, <1>4, <2>1, <2>2, <3>1
  <2>5. ASSUME NEW i \in 1..Len(albums'), NEW j \in 1..Len(albums'), i < j
        PROVE  albums'[i] # albums'[j]
    <3>1. CASE j <= Len(albums)
      BY <2>1, <2>4, <2>5, <3>1 DEF IsInjective
    <3>2. CASE j > Len(albums) /\ i <= Len(albums)
      <4>1. j - Len(albums) \in 1..n
        BY <1>2, <2>1, <2>2, <3>2
      <4> QED
        BY <2>1, <2>3, <2>4, <3>2, <4>1
    <3>3. CASE i > Len(albums)
      <4>1. i - Len(albums) \in 1..n /\ j - Len(albums) \in 1..n
            /\ i - Len(albums) # j - Len(albums)
        BY <1>2, <2>1, <2>2, <2>5, <3>3
      <4>2. albums'[i] = new[i - Len(albums)] /\ albums'[j] = new[j - Len(albums)]
        BY <2>1, <2>4, <2>5, <3>3
      <4> QED
        BY <1>3, <4>1, <4>2
    <3> QED
      BY <2>1, <3>1, <3>2, <3>3
  <2>6. IsInjective(albums')
    BY <2>1, <2>2, <2>5, <1>2 DEF IsInjective
  <2> QED
    BY <1>5, <2>2, <2>6 DEF AlbumsInv
<1> QED
  BY <1>6, <1>7

LEMMA AlbumStepKeeps ==
    ASSUME PhotosInv, AlbumById \/ ListAlbums \/ AlbumsChange
    PROVE  PhotosInv'
<1>1. AlbumsInv'
  <2>1. CASE AlbumById
    BY <2>1, AlbumByIdKeeps DEF PhotosInv
  <2>2. CASE ListAlbums
    BY <2>2, ListAlbumsKeeps DEF PhotosInv
  <2>3. CASE AlbumsChange
    BY <2>3 DEF AlbumsChange, PhotosInv, AlbumsInv
  <2> QED
    BY <2>1, <2>2, <2>3
<1>2. UNCHANGED fileVars
  BY DEF AlbumById, ListAlbums, AlbumsChange
<1>3. FilesInv' /\ PathsInv' /\ DownloadInv' /\ OwnContent'
  BY <1>2 DEF fileVars, PhotosInv, FilesInv, PathsInv, DownloadInv, OwnContent, Suits
<1> QED
  BY <1>1, <1>3 DEF PhotosInv

-----------------------------------------------------------------------------
(* Downloads *)

LEMMA AlbumsUntouched == AlbumsInv /\ UNCHANGED albumVars => AlbumsInv'
BY DEF AlbumsInv, albumVars

LEMMA DownloadStarts == PhotosInv /\ (Download \/ ReadMissing) => PhotosInv'
<1> SUFFICES ASSUME PhotosInv, Download \/ ReadMissing PROVE PhotosInv'
  OBVIOUS
<1>1. PICK item \in Photos, directory \in Directories, name \in FileNames \cup {None},
           force \in BOOLEAN, read \in BOOLEAN :
        StartDownload(item, directory, name, force, read)
  BY PhotosAssumption DEF Download, ReadMissing
<1>2. download = None /\ UNCHANGED <<albumVars, files, content, broken>>
  BY DEF Download, ReadMissing
<1> DEFINE path == Path(item, directory, name)
<1>3. Suits(path, item)
  BY PhotosAssumption DEF Suits, Path
<1>4. path \in Directories \X {p.day : p \in Photos}
                 \X (FileNames \cup {p.name : p \in Photos})
  BY DEF Path
<1>5. localPath' = [localPath EXCEPT ![item] = path]
      /\ download' \in DownloadStates /\ download'.item = item /\ download'.path = path
  BY <1>1, <1>4 DEF StartDownload, DownloadStates
<1> HIDE DEF path
<1>6. AlbumsInv'
  BY <1>2, AlbumsUntouched DEF PhotosInv
<1>7. FilesInv'
  BY <1>2 DEF PhotosInv, FilesInv
<1>8. PathsInv' /\ DownloadInv'
  BY <1>3, <1>5 DEF PhotosInv, PathsInv, DownloadInv
<1>9. OwnContent'
  BY <1>2 DEF PhotosInv, OwnContent
<1> QED
  BY <1>6, <1>7, <1>8, <1>9 DEF PhotosInv

LEMMA OpenFileKeeps == PhotosInv /\ OpenFile => PhotosInv'
<1> SUFFICES ASSUME PhotosInv, OpenFile PROVE PhotosInv'
  OBVIOUS
<1>1. download # None /\ download \in DownloadStates /\ Suits(download.path, download.item)
  BY DEF OpenFile, PhotosInv, DownloadInv
<1>2. download' \in DownloadStates /\ download' # None /\ download'.step = "write"
      /\ download'.path = download.path /\ download'.item = download.item
  BY <1>1, PhotosAssumption DEF OpenFile, DownloadStates
<1>3. AlbumsInv'
  BY AlbumsUntouched DEF PhotosInv, OpenFile
<1>4. FilesInv'
  <2> SUFFICES ASSUME NEW path \in DOMAIN files' PROVE
          /\ Suits(path, files'[path].of)
          /\ ~files'[path].whole =>
              broken' \/ (download' # None /\ download'.step = "write" /\ download'.path = path)
    BY DEF FilesInv
  <2>1. CASE path = download.path
    BY <1>1, <1>2, <2>1 DEF OpenFile, WithFile, Written
  <2>2. CASE path # download.path
    <3>1. path \in DOMAIN files /\ files'[path] = files[path]
      BY <2>2 DEF OpenFile, WithFile
    <3> QED
      BY <2>2, <3>1 DEF OpenFile, PhotosInv, FilesInv
  <2> QED
    BY <2>1, <2>2
<1>5. PathsInv' /\ DownloadInv'
  BY <1>1, <1>2 DEF OpenFile, PhotosInv, PathsInv, DownloadInv
<1>6. OwnContent'
  BY DEF OpenFile, PhotosInv, OwnContent
<1> QED
  BY <1>3, <1>4, <1>5, <1>6 DEF PhotosInv

LEMMA WriteBytesKeeps == PhotosInv /\ WriteBytes => PhotosInv'
<1> SUFFICES ASSUME PhotosInv, WriteBytes PROVE PhotosInv'
  OBVIOUS
<1>1. download # None /\ download \in DownloadStates /\ Suits(download.path, download.item)
  BY DEF WriteBytes, PhotosInv, DownloadInv
<1>2. download' \in DownloadStates
      /\ download'.path = download.path /\ download'.item = download.item
  BY <1>1 DEF WriteBytes, DownloadStates
<1>3. AlbumsInv'
  BY AlbumsUntouched DEF PhotosInv, WriteBytes
<1>4. FilesInv'
  <2> SUFFICES ASSUME NEW path \in DOMAIN files' PROVE
          /\ Suits(path, files'[path].of)
          /\ ~files'[path].whole => broken'
    BY DEF FilesInv
  <2>1. CASE path = download.path
    BY <1>1, <2>1 DEF WriteBytes, WithFile, Written
  <2>2. CASE path # download.path
    <3>1. path \in DOMAIN files /\ files'[path] = files[path]
      BY <2>2 DEF WriteBytes, WithFile
    <3> QED
      BY <2>2, <3>1 DEF WriteBytes, PhotosInv, FilesInv
  <2> QED
    BY <2>1, <2>2
<1>5. PathsInv' /\ DownloadInv'
  BY <1>1, <1>2 DEF WriteBytes, PhotosInv, PathsInv, DownloadInv
<1>6. OwnContent'
  BY DEF WriteBytes, PhotosInv, OwnContent
<1> QED
  BY <1>3, <1>4, <1>5, <1>6 DEF PhotosInv

LEMMA EndingKeeps ==
    ASSUME PhotosInv, RequestBytesFails \/ WriteBreaksOff \/ DeleteFile \/ Restart
    PROVE  PhotosInv'
<1>1. AlbumsInv'
  BY AlbumsUntouched DEF PhotosInv, RequestBytesFails, WriteBreaksOff, DeleteFile, Restart,
                         AlbumsInv
<1>2. FilesInv'
  <2>1. CASE RequestBytesFails
    BY <2>1 DEF PhotosInv, FilesInv, RequestBytesFails
  <2>2. CASE WriteBreaksOff
    BY <2>2 DEF PhotosInv, FilesInv, WriteBreaksOff
  <2>3. CASE DeleteFile
    BY <2>3 DEF PhotosInv, FilesInv, DeleteFile
  <2>4. CASE Restart
    BY <2>4 DEF PhotosInv, FilesInv, Restart
  <2> QED
    BY <2>1, <2>2, <2>3, <2>4
<1>3. PathsInv' /\ DownloadInv'
  BY DEF PhotosInv, PathsInv, DownloadInv, RequestBytesFails, WriteBreaksOff, DeleteFile, Restart
<1>4. OwnContent'
  BY DEF PhotosInv, OwnContent, RequestBytesFails, WriteBreaksOff, DeleteFile, Restart
<1> QED
  BY <1>1, <1>2, <1>3, <1>4 DEF PhotosInv

\* What is read is as good as the file it is read from.
LEMMA ReadFresh ==
    ASSUME PhotosInv, NEW item \in Photos, IsDownloaded(item), ReadBytes(item),
           download = None \/ download.step # "write", broken' = broken
    PROVE  OwnContent'
<1>1. localPath[item] # None /\ localPath[item] \in DOMAIN files
  BY DEF IsDownloaded
<1>2. Suits(localPath[item], item) /\ Suits(localPath[item], files[localPath[item]].of)
  BY <1>1 DEF PhotosInv, PathsInv, FilesInv
<1>3. ~files[localPath[item]].whole => broken
  BY <1>1 DEF PhotosInv, FilesInv
<1>4. content'.item = item /\ content'.path = localPath[item]
      /\ content'.got = files[localPath[item]]
  BY DEF ReadBytes
<1> QED
  BY <1>2, <1>3, <1>4 DEF OwnContent, Suits

LEMMA ReadKeeps == PhotosInv /\ (EndDownload \/ ReadDownloaded) => PhotosInv'
<1> SUFFICES ASSUME PhotosInv, EndDownload \/ ReadDownloaded PROVE PhotosInv'
  OBVIOUS
<1>1. AlbumsInv'
  BY AlbumsUntouched DEF PhotosInv, EndDownload, ReadDownloaded
<1>2. FilesInv' /\ PathsInv' /\ DownloadInv'
  BY DEF PhotosInv, FilesInv, PathsInv, DownloadInv, EndDownload, ReadDownloaded
<1>3. OwnContent'
  <2>1. CASE EndDownload
    <3>1. download.item \in Photos
      BY <2>1 DEF EndDownload, PhotosInv, DownloadInv, DownloadStates
    <3>2. CASE download.read /\ IsDownloaded(download.item)
      BY <2>1, <3>1, <3>2, ReadFresh DEF EndDownload
    <3>3. CASE ~(download.read /\ IsDownloaded(download.item))
      BY <2>1, <3>3 DEF EndDownload, PhotosInv, OwnContent
    <3> QED
      BY <3>2, <3>3
  <2>2. CASE ReadDownloaded
    BY <2>2, ReadFresh DEF ReadDownloaded
  <2> QED
    BY <2>1, <2>2
<1> QED
  BY <1>1, <1>2, <1>3 DEF PhotosInv

-----------------------------------------------------------------------------
\* However albums are found, by ID or by listing, none is known as two objects; and what is
\* read for a media item is its own content and whole, but for files that share their
\* path and writes that were broken off (google_photos.py:233, 405).
THEOREM PhotosStayRight == PhotosSpec => []PhotosRight
<1>1. PhotosInv /\ [PhotosNext]_photoVars => PhotosInv'
  <2> SUFFICES ASSUME PhotosInv, [PhotosNext]_photoVars PROVE PhotosInv'
    OBVIOUS
  <2>1. CASE UNCHANGED photoVars
    BY <2>1 DEF photoVars, albumVars, fileVars, PhotosInv, AlbumsInv, FilesInv, PathsInv,
             DownloadInv, OwnContent
  <2>2. CASE AlbumById \/ ListAlbums \/ AlbumsChange
    BY <2>2, AlbumStepKeeps
  <2>3. CASE Download \/ ReadMissing
    BY <2>3, DownloadStarts
  <2>4. CASE OpenFile
    BY <2>4, OpenFileKeeps
  <2>5. CASE WriteBytes
    BY <2>5, WriteBytesKeeps
  <2>6. CASE RequestBytesFails \/ WriteBreaksOff \/ DeleteFile \/ Restart
    BY <2>6, EndingKeeps
  <2>7. CASE EndDownload \/ ReadDownloaded
    BY <2>7, ReadKeeps
  <2> QED
    BY <2>1, <2>2, <2>3, <2>4, <2>5, <2>6, <2>7 DEF PhotosNext
<1>2. PhotosInv => PhotosRight
  BY DEF PhotosInv, PhotosRight, AlbumsInv, OneAlbum
<1> QED
  BY <1>1, <1>2, PhotosInitInv, PTL DEF PhotosSpec

-----------------------------------------------------------------------------
(* RecordList: every record is in one place. *)

Ids == 1..Len(created)

ListTypes ==
    /\ tick \in Nat
    /\ created \in Seq(Nat)
    /\ records \in Seq(Ids) /\ expired \in Seq(Ids) /\ emitted \in Seq(Ids)
    /\ threads \in [Threads -> ThreadStates \cup {None}]
    /\ lastRead # None => lastRead.got \in Seq(Ids)

\* A thread holds a record while it decides about it, and never else.
ThreadsInv ==
    \A t \in Threads : threads[t] # None =>
        /\ threads[t].record # None => threads[t].record \in Ids
        /\ threads[t].step # "created" =>
            /\ threads[t].asOf <= tick
            /\ threads[t].step # "decide" => threads[t].held = None
            /\ threads[t].step = "decide" => threads[t].held \in Ids
            /\ t \in Writers => threads[t].record # None

\* What a thread is to emit nobody else has emitted or will.
OwnInv ==
    \A t \in Threads : threads[t] # None /\ threads[t].record # None =>
        /\ threads[t].record \notin ToSet(emitted)
        /\ \A u \in Threads : threads[u] # None /\ threads[u].record = threads[t].record => u = t

Total(r) == Copies(records, r) + Cardinality(Holders(r)) + Copies(expired, r)

\* A record is where it can be once, from its emit on.
AccountInv == \A r \in Nat : Total(r) = IF r \in ToSet(emitted) THEN 1 ELSE 0

ExpiredInv == \A r \in ToSet(expired) : IsOld(r, tick)

\* If no two threads have been in the handler at once, then what a thread finds in front
\* after it has expired records is fresh.
AloneInv ==
    ~overlapped =>
        /\ \A t, u \in Inside : t = u
        /\ \A t \in Threads : At(t, "use") =>
            records = <<>> \/ ~IsOld(Head(records), threads[t].asOf)

RecordInv ==
    /\ ListTypes /\ ThreadsInv /\ OwnInv
    /\ AccountInv /\ ExpiredInv
    /\ AloneInv /\ OldBehindFresh

-----------------------------------------------------------------------------
(* Copies in a list *)

Places(list, r) == {i \in DOMAIN list : list[i] = r}

LEMMA CopiesNat ==
    ASSUME NEW S, NEW s \in Seq(S), NEW r
    PROVE  IsFiniteSet(Places(s, r)) /\ Copies(s, r) \in Nat /\ Copies(s, r) = Cardinality(Places(s, r))
<1>1. IsFiniteSet(1..Len(s))
  BY FS_Interval
<1>2. Places(s, r) \subseteq 1..Len(s)
  BY DEF Places
<1>3. IsFiniteSet(Places(s, r))
  BY <1>1, <1>2, FS_Subset
<1> QED
  BY <1>3, FS_CardinalityType DEF Copies, Places

LEMMA CopiesEmpty ==
    ASSUME NEW r
    PROVE  Copies(<<>>, r) = 0
<1>1. {i \in DOMAIN <<>> : <<>>[i] = r} = {}
  OBVIOUS
<1> QED
  BY <1>1, FS_EmptySet DEF Copies

LEMMA CopiesAppend ==
    ASSUME NEW S, NEW s \in Seq(S), NEW x \in S, NEW r
    PROVE  Copies(Append(s, x), r) = Copies(s, r) + IF x = r THEN 1 ELSE 0
<1> DEFINE n == Len(s) + 1
<1>1. Append(s, x) \in Seq(S)
  OBVIOUS
<1>2. n \notin Places(s, r)
  BY DEF Places
<1>3. Places(Append(s, x), r) = IF x = r THEN Places(s, r) \cup {n} ELSE Places(s, r)
  BY DEF Places
<1>4. IsFiniteSet(Places(s, r)) /\ Copies(s, r) = Cardinality(Places(s, r))
  BY CopiesNat
<1>5. Copies(Append(s, x), r) = Cardinality(Places(Append(s, x), r))
  BY <1>1, CopiesNat
<1>6. Copies(s, r) \in Nat
  BY CopiesNat
<1> HIDE DEF n
<1>7. CASE x = r
  <2>1. Cardinality(Places(s, r) \cup {n}) = Cardinality(Places(s, r)) + 1
    BY <1>2, <1>4, FS_AddElement
  <2> QED
    BY <1>3, <1>4, <1>5, <1>7, <2>1
<1>8. CASE x # r
  BY <1>3, <1>4, <1>5, <1>6, <1>8
<1> QED
  BY <1>7, <1>8

\* Taking the first of a list moves all others.
LEMMA CopiesTail ==
    ASSUME NEW S, NEW s \in Seq(S), s # <<>>, NEW r
    PROVE  Copies(s, r) = Copies(Tail(s), r) + IF Head(s) = r THEN 1 ELSE 0
<1>1. Tail(s) \in Seq(S) /\ Len(Tail(s)) = Len(s) - 1 /\ Len(s) \in Nat \ {0}
  OBVIOUS
<1>2. \A i \in 1..(Len(s) - 1) : Tail(s)[i] = s[i + 1]
  OBVIOUS
<1> DEFINE rest == {i \in 2..Len(s) : s[i] = r}
           move == [i \in Places(Tail(s), r) |-> i + 1]
<1>3. move \in Bijection(Places(Tail(s), r), rest)
  <2>1. \A i \in Places(Tail(s), r) : i \in Nat /\ i + 1 \in rest
    BY <1>1, <1>2 DEF Places
  <2>2. \A j \in rest : j \in Nat /\ j - 1 \in Places(Tail(s), r) /\ move[j - 1] = j
    BY <1>1, <1>2 DEF Places
  <2> QED
    BY <2>1, <2>2 DEF Bijection, Injection, Surjection, IsInjective
<1>4. ExistsBijection(Places(Tail(s), r), rest)
  BY <1>3 DEF ExistsBijection
<1>5. IsFiniteSet(rest) /\ Cardinality(rest) = Copies(Tail(s), r)
  <2>1. IsFiniteSet(Places(Tail(s), r))
        /\ Copies(Tail(s), r) = Cardinality(Places(Tail(s), r))
    BY <1>1, CopiesNat
  <2> HIDE DEF rest
  <2> QED
    BY <1>4, <2>1, FS_Bijection
<1>6. 1 \notin rest
  OBVIOUS
<1>7. Places(s, r) = IF Head(s) = r THEN rest \cup {1} ELSE rest
  BY <1>1 DEF Places
<1>8. Copies(s, r) = Cardinality(Places(s, r))
  BY CopiesNat
<1>9. Copies(Tail(s), r) \in Nat
  BY <1>1, CopiesNat
<1> HIDE DEF rest
<1>10. CASE Head(s) = r
  BY <1>5, <1>6, <1>7, <1>8, <1>10, FS_AddElement
<1>11. CASE Head(s) # r
  BY <1>5, <1>7, <1>8, <1>9, <1>11
<1> QED
  BY <1>10, <1>11

LEMMA CopiesFront ==
    ASSUME NEW S, NEW s \in Seq(S), NEW x \in S, NEW r
    PROVE  Copies(<<x>> \o s, r) = Copies(s, r) + IF x = r THEN 1 ELSE 0
<1>1. <<x>> \o s \in Seq(S) /\ <<x>> \o s # <<>> /\ Head(<<x>> \o s) = x /\ Tail(<<x>> \o s) = s
  OBVIOUS
<1> QED
  BY <1>1, CopiesTail

LEMMA ToSetAppend ==
    ASSUME NEW S, NEW s \in Seq(S), NEW x \in S
    PROVE  ToSet(Append(s, x)) = ToSet(s) \cup {x}
<1>1. DOMAIN Append(s, x) = 1..(Len(s) + 1) /\ DOMAIN s = 1..Len(s) /\ Len(s) \in Nat
  OBVIOUS
<1>2. \A i \in 1..(Len(s) + 1) : Append(s, x)[i] = IF i = Len(s) + 1 THEN x ELSE s[i]
  OBVIOUS
<1> QED
  BY <1>1, <1>2 DEF ToSet

LEMMA OneLess ==
    ASSUME NEW H, IsFiniteSet(H), NEW t, NEW h, NEW r, t \in H <=> h = r
    PROVE  Cardinality(H) = Cardinality(H \ {t}) + IF h = r THEN 1 ELSE 0
<1>1. Cardinality(H) \in Nat
  BY FS_CardinalityType
<1>2. Cardinality(H \ {t}) = IF t \in H THEN Cardinality(H) - 1 ELSE Cardinality(H)
  BY FS_RemoveElement
<1> QED
  BY <1>1, <1>2

-----------------------------------------------------------------------------
(* The steps *)

LEMMA HoldersNat ==
    ASSUME NEW r
    PROVE  IsFiniteSet(Holders(r)) /\ Cardinality(Holders(r)) \in Nat
<1>1. Holders(r) \subseteq Threads
  BY DEF Holders, Inside
<1> QED
  BY <1>1, RecordsAssumption, FS_Subset, FS_CardinalityType

LEMMA RecordsInitInv == RecordsInit => RecordInv
<1> SUFFICES ASSUME RecordsInit PROVE RecordInv
  OBVIOUS
<1> USE DEF RecordsInit
<1>1. ListTypes /\ ThreadsInv /\ OwnInv /\ OldBehindFresh
  BY DEF ListTypes, ThreadsInv, OwnInv, OldBehindFresh
<1>2. ExpiredInv /\ ToSet(emitted) = {}
  BY DEF ExpiredInv, ToSet
<1>3. Inside = {}
  BY DEF Inside
<1>4. AloneInv
  BY <1>3 DEF AloneInv, At
<1>5. AccountInv
  <2> SUFFICES ASSUME NEW r \in Nat PROVE Total(r) = 0
    BY <1>2 DEF AccountInv
  <2>1. Holders(r) = {}
    BY <1>3 DEF Holders
  <2>2. Cardinality(Holders(r)) = 0
    BY <2>1, FS_EmptySet
  <2> QED
    BY <2>2, CopiesEmpty DEF Total
<1> QED
  BY <1>1, <1>2, <1>4, <1>5 DEF RecordInv

\* A thread that is in the handler is in one of these states.
LEMMA StateOf ==
    ASSUME ListTypes, NEW t \in Threads, threads[t] # None
    PROVE  /\ threads[t] \in ThreadStates
           /\ threads[t].step # "created" =>
                threads[t] \in [step : {"check", "pop", "decide", "use"}, record : Nat \cup {None},
                                asOf : Nat, held : Nat \cup {None}]
BY DEF ListTypes, ThreadStates

\* The account depends on where the records are only.
LEMMA SameAccount ==
    ASSUME AccountInv, UNCHANGED <<records, expired, emitted>>,
           \A r \in Nat : Holders(r)' = Holders(r)
    PROVE  AccountInv'
BY DEF AccountInv, Total, Copies

LEMMA TickKeeps == RecordInv /\ TickPasses => RecordInv'
<1> SUFFICES ASSUME RecordInv, TickPasses PROVE RecordInv'
  OBVIOUS
<1> USE DEF RecordInv, TickPasses, recordHistory
<1>1. ListTypes' /\ OwnInv'
  BY DEF ListTypes, Ids, OwnInv
<1>2. ThreadsInv'
  <2> SUFFICES ASSUME NEW t \in Threads, threads[t] # None, threads[t].step # "created"
               PROVE  threads[t].asOf <= tick'
    BY DEF ThreadsInv, Ids
  <2>1. threads[t].asOf \in Nat
    BY StateOf
  <2>2. threads[t].asOf <= tick
    BY DEF ThreadsInv
  <2>3. tick \in Nat /\ tick' = tick + 1
    BY DEF ListTypes
  <2> QED
    BY <2>1, <2>2, <2>3
<1>3. ExpiredInv'
  <2> SUFFICES ASSUME NEW r \in ToSet(expired) PROVE IsOld(r, tick')
    BY DEF ExpiredInv, IsOld
  <2>1. created[r] \in Nat
    BY DEF ListTypes, Ids, ToSet
  <2> QED
    BY <2>1, RecordsAssumption DEF ExpiredInv, IsOld, ListTypes
<1>4. AloneInv' /\ OldBehindFresh'
  BY DEF AloneInv, OldBehindFresh, Inside, At, IsOld
<1>5. AccountInv'
  BY SameAccount DEF Holders, Inside
<1> QED
  BY <1>1, <1>2, <1>3, <1>4, <1>5

LEMMA CreateKeeps ==
    ASSUME NEW t \in Threads, RecordInv, CreateRecord(t)
    PROVE  RecordInv'
<1> USE DEF RecordInv, CreateRecord, recordHistory
<1> DEFINE new == Len(created) + 1
<1>1. created' \in Seq(Nat) /\ Len(created') = new /\ new \in Nat
      /\ \A r \in Ids : r \in Ids' /\ created'[r] = created[r]
  BY DEF ListTypes, Ids
<1>2. [step |-> "created", record |-> new] \in ThreadStates
  BY <1>1 DEF ThreadStates
<1>3. ListTypes'
  <2>1. Ids \subseteq Ids'
    BY <1>1
  <2> QED
    BY <1>1, <1>2, <2>1 DEF ListTypes
<1>4. threads' = [threads EXCEPT ![t] = [step |-> "created", record |-> new]]
      /\ threads[t] = None
  OBVIOUS
<1> HIDE DEF new
<1>5. threads'[t] = [step |-> "created", record |-> new]
      /\ \A u \in Threads \ {t} : threads'[u] = threads[u]
  BY <1>4 DEF ListTypes
<1>6. new \in Ids'
  BY <1>1 DEF Ids
<1>7. ThreadsInv'
  BY <1>1, <1>5, <1>6 DEF ThreadsInv
<1>8. OwnInv'
  <2>1. new \notin Ids
    BY DEF Ids, new, ListTypes
  <2>2. \A u \in Threads \ {t} : threads[u] # None => threads[u].record # new
    BY <1>1, <2>1, RecordsAssumption DEF ThreadsInv
  <2>3. new \notin ToSet(emitted)
    BY <2>1 DEF ListTypes, ToSet
  <2> QED
    BY <1>5, <2>2, <2>3 DEF OwnInv
<1>9. Inside' = Inside
  BY <1>4, <1>5 DEF Inside
<1>10. AccountInv'
  <2>1. t \notin Inside
    BY <1>4 DEF Inside
  <2>2. \A u \in Inside : threads'[u] = threads[u]
    BY <1>5, <2>1 DEF Inside
  <2> QED
    BY <1>9, <2>2, SameAccount DEF Holders
<1>11. ExpiredInv'
  <2> SUFFICES ASSUME NEW r \in ToSet(expired) PROVE created'[r] < tick - TimeToLive
    BY DEF ExpiredInv, IsOld
  <2>1. r \in Ids
    BY DEF ListTypes, ToSet
  <2> QED
    BY <1>1, <2>1 DEF ExpiredInv, IsOld
<1>12. AloneInv'
  <2>1. \A u \in Threads : At(u, "use")' => At(u, "use") /\ threads'[u] = threads[u]
    BY <1>5 DEF At
  <2>2. records # <<>> => Head(records) \in Ids
    BY DEF ListTypes
  <2> QED
    BY <1>1, <1>9, <2>1, <2>2 DEF AloneInv, IsOld
<1>13. OldBehindFresh'
  <2> DEFINE got == lastRead.got
  <2> SUFFICES ASSUME lastRead # None, ~overlapped, NEW i \in DOMAIN got,
                      created'[got[i]] < lastRead.asOf - TimeToLive
               PROVE  \E j \in 1..(i - 1) : created'[got[j]] > created'[got[i]]
    BY DEF OldBehindFresh, IsOld
  <2>1. got \in Seq(Ids)
    BY DEF ListTypes
  <2>2. ~(created[got[i]] < lastRead.asOf - TimeToLive)
        \/ \E j \in 1..(i - 1) : created[got[j]] > created[got[i]]
    BY DEF OldBehindFresh, IsOld
  <2> HIDE DEF got
  <2>3. i \in Nat \ {0} /\ \A j \in 1..i : j \in DOMAIN got /\ got[j] \in Ids
    BY <2>1
  <2>4. \A j \in 1..i : created'[got[j]] = created[got[j]]
    BY <1>1, <2>3
  <2>5. i \in 1..i /\ \A j \in 1..(i - 1) : j \in 1..i
    BY <2>3
  <2>6. created'[got[i]] = created[got[i]]
    BY <2>4, <2>5
  <2>7. PICK j \in 1..(i - 1) : created[got[j]] > created[got[i]]
    BY <2>2, <2>6
  <2>8. created'[got[j]] = created[got[j]]
    BY <2>4, <2>5
  <2> QED
    BY <2>6, <2>7, <2>8
<1> QED
  BY <1>3, <1>7, <1>8, <1>10, <1>11, <1>12, <1>13

\* A step of one thread that creates nothing, emits nothing, and has the record it had.
LEMMA ThreadStep ==
    ASSUME RecordInv, NEW t \in Threads, UNCHANGED <<tick, created, emitted>>,
           NEW s \in ThreadStates \cup {None}, threads' = [threads EXCEPT ![t] = s],
           s # None /\ s.record # None => threads[t] # None /\ s.record = threads[t].record,
           s # None /\ s.step # "created" =>
               /\ s.asOf <= tick
               /\ s.step # "decide" => s.held = None
               /\ s.step = "decide" => s.held \in Ids
               /\ t \in Writers => s.record # None
    PROVE  /\ ThreadsInv' /\ OwnInv'
           /\ threads' \in [Threads -> ThreadStates \cup {None}]
           /\ threads'[t] = s
           /\ \A u \in Threads \ {t} : threads'[u] = threads[u]
<1> USE DEF RecordInv
<1>1. /\ threads' \in [Threads -> ThreadStates \cup {None}]
      /\ threads'[t] = s
      /\ \A u \in Threads \ {t} : threads'[u] = threads[u]
  BY DEF ListTypes
<1>2. ThreadsInv'
  BY <1>1 DEF ThreadsInv, Ids
<1>3. OwnInv'
  BY <1>1 DEF OwnInv
<1> QED
  BY <1>1, <1>2, <1>3

\* If only one thread is in the handler, the others do not stand in front of a list.
LEMMA AloneStep ==
    ASSUME RecordInv, NEW t \in Inside, UNCHANGED <<created, overlapped>>,
           \A u \in Threads \ {t} : threads'[u] = threads[u],
           At(t, "use")' => records' = <<>> \/ ~IsOld(Head(records'), threads'[t].asOf)
    PROVE  AloneInv'
<1>1. Inside' \subseteq Inside /\ t \in Threads
  BY DEF Inside
<1>2. \A u \in Threads \ {t} : At(u, "use")' => u \in Inside
  BY DEF Inside, At
<1> QED
  BY <1>1, <1>2 DEF RecordInv, AloneInv, IsOld

LEMMA StartRecordKeeps ==
    ASSUME NEW t \in Threads, RecordInv, StartEmit(t) \/ StartRead(t)
    PROVE  RecordInv'
<1> USE DEF RecordInv
<1> DEFINE r == IF StartEmit(t) THEN threads[t].record ELSE None
           s == [step |-> "check", record |-> r, asOf |-> tick, held |-> None]
<1>1. UNCHANGED <<tick, records, created, emitted, expired, lastRead>>
      /\ threads' = [threads EXCEPT ![t] = s]
      /\ overlapped' = (overlapped \/ Inside # {})
      /\ t \notin Inside
  BY DEF StartEmit, StartRead, Expiring, At, Inside
<1>2. StartEmit(t) => threads[t] # None /\ threads[t].record \in Nat
  <2> SUFFICES ASSUME StartEmit(t) PROVE threads[t] # None /\ threads[t].record \in Nat
    OBVIOUS
  <2>1. threads[t] # None /\ threads[t] \in ThreadStates /\ threads[t].step = "created"
    BY StateOf DEF StartEmit, At
  <2> QED
    BY <2>1 DEF ThreadStates
<1>3. t \in Writers => r # None
  BY <1>2, RecordsAssumption DEF StartEmit, StartRead
<1>4. s \in ThreadStates
  BY <1>2 DEF ThreadStates, ListTypes
<1>5. s.record # None => threads[t] # None /\ s.record = threads[t].record
  BY <1>2
<1>6. s.step = "check" /\ s.record = r /\ s.asOf = tick /\ s.held = None
  OBVIOUS
<1> HIDE DEF s, r
<1>7. tick <= tick
  BY DEF ListTypes
<1>8. /\ ThreadsInv' /\ OwnInv'
      /\ threads' \in [Threads -> ThreadStates \cup {None}]
      /\ threads'[t] = s
      /\ \A u \in Threads \ {t} : threads'[u] = threads[u]
  BY <1>1, <1>3, <1>4, <1>5, <1>6, <1>7, ThreadStep
<1>9. ListTypes'
  BY <1>1, <1>8 DEF ListTypes, Ids
<1>10. Inside' = Inside \cup {t}
  BY <1>4, <1>6, <1>8, RecordsAssumption DEF Inside
<1>11. AccountInv'
  <2>1. \A u \in Inside : threads'[u] = threads[u]
    BY <1>1, <1>8 DEF Inside
  <2>2. \A q \in Nat : Holders(q)' = Holders(q)
    BY <1>6, <1>8, <1>10, <2>1, RecordsAssumption DEF Holders
  <2> QED
    BY <1>1, <2>2, SameAccount
<1>12. ExpiredInv'
  BY <1>1 DEF ExpiredInv, IsOld
<1>13. AloneInv'
  BY <1>1, <1>6, <1>8, <1>10 DEF AloneInv, At, Inside
<1>14. OldBehindFresh'
  BY <1>1 DEF OldBehindFresh, IsOld
<1> QED
  BY <1>8, <1>9, <1>11, <1>12, <1>13, <1>14

LEMMA CheckKeeps ==
    ASSUME NEW t \in Threads, RecordInv, CheckList(t)
    PROVE  RecordInv'
<1> USE DEF RecordInv
<1> DEFINE s == [threads[t] EXCEPT !.step = IF records = <<>> THEN "use" ELSE "pop"]
<1>1. threads[t] # None /\ threads[t].step = "check" /\ t \in Inside
      /\ threads' = [threads EXCEPT ![t] = s]
      /\ UNCHANGED <<tick, records, created, recordHistory>>
  BY DEF CheckList, At, Steps, Inside
<1>2. threads[t] \in [step : {"check", "pop", "decide", "use"}, record : Nat \cup {None},
                      asOf : Nat, held : Nat \cup {None}]
  BY <1>1, StateOf
<1>3. s \in ThreadStates /\ s.step \in {"use", "pop"} /\ s.record = threads[t].record
      /\ s.asOf = threads[t].asOf /\ s.held = threads[t].held
      /\ (s.step = "use" => records = <<>>)
  BY <1>2 DEF ThreadStates
<1>4. threads[t].asOf <= tick /\ threads[t].held = None
      /\ (t \in Writers => threads[t].record # None)
  BY <1>1 DEF ThreadsInv
<1> HIDE DEF s
<1>5. /\ ThreadsInv' /\ OwnInv'
      /\ threads' \in [Threads -> ThreadStates \cup {None}]
      /\ threads'[t] = s
      /\ \A u \in Threads \ {t} : threads'[u] = threads[u]
  BY <1>1, <1>3, <1>4, ThreadStep DEF recordHistory
<1>6. ListTypes' /\ ExpiredInv' /\ OldBehindFresh'
  BY <1>1, <1>5 DEF ListTypes, Ids, ExpiredInv, IsOld, OldBehindFresh, recordHistory
<1>7. AccountInv'
  <2>1. Inside' = Inside
    BY <1>1, <1>3, <1>5, RecordsAssumption DEF Inside
  <2>2. \A q \in Nat : Holders(q)' = Holders(q)
    BY <1>3, <1>5, <2>1 DEF Holders, Inside
  <2> QED
    BY <1>1, <2>2, SameAccount DEF recordHistory
<1>8. AloneInv'
  BY <1>1, <1>3, <1>5, AloneStep DEF At, recordHistory
<1> QED
  BY <1>5, <1>6, <1>7, <1>8

LEMMA PopKeeps ==
    ASSUME NEW t \in Threads, RecordInv, PopRecord(t)
    PROVE  RecordInv'
<1> USE DEF RecordInv
<1> DEFINE h == Head(records)
           s == [threads[t] EXCEPT !.held = h, !.step = "decide"]
<1>1. threads[t] # None /\ threads[t].step = "pop" /\ t \in Inside
      /\ threads' = [threads EXCEPT ![t] = s]
      /\ records # <<>> /\ records' = Tail(records)
      /\ UNCHANGED <<tick, created, recordHistory>>
  BY DEF PopRecord, At, Inside
<1>2. threads[t] \in [step : {"check", "pop", "decide", "use"}, record : Nat \cup {None},
                      asOf : Nat, held : Nat \cup {None}]
  BY <1>1, StateOf
<1>3. h \in Ids /\ h \in Nat /\ records' \in Seq(Ids)
  BY <1>1 DEF ListTypes, Ids
<1>4. s \in ThreadStates /\ s.step = "decide" /\ s.record = threads[t].record
      /\ s.asOf = threads[t].asOf /\ s.held = h
  BY <1>2, <1>3 DEF ThreadStates
<1>5. threads[t].asOf <= tick /\ threads[t].held = None
      /\ (t \in Writers => threads[t].record # None)
  BY <1>1 DEF ThreadsInv
<1> HIDE DEF s
<1>6. /\ ThreadsInv' /\ OwnInv'
      /\ threads' \in [Threads -> ThreadStates \cup {None}]
      /\ threads'[t] = s
      /\ \A u \in Threads \ {t} : threads'[u] = threads[u]
  BY <1>1, <1>3, <1>4, <1>5, ThreadStep DEF recordHistory
<1>7. ListTypes' /\ ExpiredInv' /\ OldBehindFresh'
  BY <1>1, <1>3, <1>6 DEF ListTypes, Ids, ExpiredInv, IsOld, OldBehindFresh, recordHistory
<1>8. AccountInv'
  <2> SUFFICES ASSUME NEW r \in Nat
               PROVE  Total(r)' = IF r \in ToSet(emitted) THEN 1 ELSE 0
    BY <1>1 DEF AccountInv, recordHistory
  <2>1. Copies(records, r) = Copies(records', r) + IF h = r THEN 1 ELSE 0
    BY <1>1, CopiesTail DEF ListTypes
  <2>2. Copies(records', r) \in Nat
    BY <1>3, CopiesNat
  <2>3. Holders(r)' = IF h = r THEN Holders(r) \cup {t} ELSE Holders(r)
    <3>1. Inside' = Inside
      BY <1>1, <1>4, <1>6, RecordsAssumption DEF Inside
    <3> QED
      BY <1>1, <1>4, <1>5, <1>6, <3>1, RecordsAssumption DEF Holders, Inside
  <2>4. t \notin Holders(r)
    BY <1>5, RecordsAssumption DEF Holders
  <2>5. Cardinality(Holders(r)') = Cardinality(Holders(r)) + IF h = r THEN 1 ELSE 0
    <3>1. CASE h = r
      BY <2>3, <2>4, <3>1, HoldersNat, FS_AddElement
    <3>2. CASE h # r
      BY <2>3, <3>2, HoldersNat
    <3> QED
      BY <3>1, <3>2
  <2>6. Total(r)' = Copies(records', r) + Cardinality(Holders(r)') + Copies(expired, r)
    BY <1>1 DEF Total, Copies, recordHistory
  <2>7. Copies(expired, r) \in Nat /\ Cardinality(Holders(r)) \in Nat
    BY HoldersNat, CopiesNat DEF ListTypes
  <2>8. Total(r)' = Total(r)
    BY <2>1, <2>2, <2>5, <2>6, <2>7 DEF Total
  <2> QED
    BY <2>8 DEF AccountInv
<1>9. AloneInv'
  BY <1>1, <1>4, <1>6, AloneStep DEF At, recordHistory
<1> QED
  BY <1>6, <1>7, <1>8, <1>9

LEMMA ExpireKeeps ==
    ASSUME NEW t \in Threads, RecordInv, Expire(t)
    PROVE  RecordInv'
<1> USE DEF RecordInv
<1> DEFINE h == threads[t].held
           next == [threads[t] EXCEPT !.held = None, !.step = AfterOld]
<1>1. threads[t] # None /\ threads[t].step = "decide" /\ t \in Inside
      /\ IsOld(h, threads[t].asOf) /\ expired' = Append(expired, h)
      /\ UNCHANGED <<tick, records, created, emitted, reads, lastRead, overlapped>>
  BY DEF Expire, At, Inside
<1>2. PICK s \in {next, None} : threads' = [threads EXCEPT ![t] = s]
  BY DEF Expire, EndsThread
<1>3. threads[t] \in [step : {"check", "pop", "decide", "use"}, record : Nat \cup {None},
                      asOf : Nat, held : Nat \cup {None}]
  BY <1>1, StateOf
<1>4. h \in Ids /\ h \in Nat /\ threads[t].asOf \in Nat /\ threads[t].asOf <= tick
      /\ (t \in Writers => threads[t].record # None)
  BY <1>1, <1>3 DEF ThreadsInv, Ids
<1>5. s \in ThreadStates \cup {None}
      /\ (s # None => s.step = "check" /\ s.record = threads[t].record
                      /\ s.asOf = threads[t].asOf /\ s.held = None)
  BY <1>2, <1>3 DEF ThreadStates, AfterOld
<1> HIDE DEF next
<1>6. /\ ThreadsInv' /\ OwnInv'
      /\ threads' \in [Threads -> ThreadStates \cup {None}]
      /\ threads'[t] = s
      /\ \A u \in Threads \ {t} : threads'[u] = threads[u]
  BY <1>1, <1>2, <1>4, <1>5, ThreadStep
<1>7. expired' \in Seq(Ids)
  BY <1>1, <1>4 DEF ListTypes
<1>8. ListTypes' /\ OldBehindFresh'
  BY <1>1, <1>6, <1>7 DEF ListTypes, Ids, IsOld, OldBehindFresh
<1>9. ExpiredInv'
  <2>1. IsOld(h, tick)
    <3>1. created[h] \in Nat /\ created[h] < threads[t].asOf - TimeToLive
      BY <1>1, <1>4 DEF IsOld, Ids, ListTypes
    <3>2. tick \in Nat
      BY DEF ListTypes
    <3> HIDE DEF h
    <3> QED
      BY <1>4, <3>1, <3>2, RecordsAssumption DEF IsOld
  <2>2. ToSet(expired') \subseteq ToSet(expired) \cup {h}
    BY <1>1, <1>4 DEF ToSet, ListTypes
  <2> QED
    BY <1>1, <2>1, <2>2 DEF ExpiredInv, IsOld
<1>10. AccountInv'
  <2> SUFFICES ASSUME NEW r \in Nat
               PROVE  Total(r)' = IF r \in ToSet(emitted) THEN 1 ELSE 0
    BY <1>1 DEF AccountInv
  <2>1. Copies(expired', r) = Copies(expired, r) + IF h = r THEN 1 ELSE 0
    BY <1>1, <1>4, CopiesAppend DEF ListTypes
  <2>2. Holders(r)' = Holders(r) \ {t}
    <3>1. Inside \ {t} \subseteq Inside' /\ Inside' \subseteq Inside
      BY <1>1, <1>6 DEF Inside
    <3> QED
      BY <1>1, <1>5, <1>6, <3>1, RecordsAssumption DEF Holders, Inside
  <2>3. t \in Holders(r) <=> h = r
    BY <1>1 DEF Holders
  <2>4. Cardinality(Holders(r)) = Cardinality(Holders(r)') + IF h = r THEN 1 ELSE 0
    <3>1. Cardinality(Holders(r)) = Cardinality(Holders(r) \ {t}) + IF h = r THEN 1 ELSE 0
      BY <2>3, HoldersNat, OneLess
    <3> QED
      BY <2>2, <3>1
  <2>5. Total(r)' = Copies(records, r) + Cardinality(Holders(r)') + Copies(expired', r)
    BY <1>1 DEF Total, Copies
  <2>6. Copies(expired, r) \in Nat /\ Cardinality(Holders(r)) \in Nat
        /\ Copies(records, r) \in Nat /\ Cardinality(Holders(r)') \in Nat
    <3>1. IsFiniteSet(Holders(r)')
      BY <2>2, HoldersNat, FS_RemoveElement
    <3> QED
      BY <3>1, HoldersNat, CopiesNat, FS_CardinalityType DEF ListTypes
  <2>7. Total(r)' = Total(r)
    BY <2>1, <2>4, <2>5, <2>6 DEF Total
  <2> QED
    BY <2>7 DEF AccountInv
<1>11. AloneInv'
  BY <1>1, <1>5, <1>6, AloneStep DEF At
<1> QED
  BY <1>6, <1>8, <1>9, <1>10, <1>11

LEMMA KeepFreshKeeps ==
    ASSUME NEW t \in Threads, RecordInv, KeepFresh(t)
    PROVE  RecordInv'
<1> USE DEF RecordInv
<1> DEFINE h == threads[t].held
           s == [threads[t] EXCEPT !.held = None, !.step = "use"]
<1>1. threads[t] # None /\ threads[t].step = "decide" /\ t \in Inside
      /\ ~IsOld(h, threads[t].asOf) /\ records' = <<h>> \o records
      /\ threads' = [threads EXCEPT ![t] = s]
      /\ UNCHANGED <<tick, created, recordHistory>>
  BY DEF KeepFresh, PutBack, At, Inside
<1>2. threads[t] \in [step : {"check", "pop", "decide", "use"}, record : Nat \cup {None},
                      asOf : Nat, held : Nat \cup {None}]
  BY <1>1, StateOf
<1>3. h \in Ids /\ h \in Nat /\ threads[t].asOf <= tick
      /\ (t \in Writers => threads[t].record # None)
  BY <1>1 DEF ThreadsInv, Ids
<1>4. s \in ThreadStates /\ s.step = "use" /\ s.record = threads[t].record
      /\ s.asOf = threads[t].asOf /\ s.held = None
  BY <1>2 DEF ThreadStates
<1> HIDE DEF s
<1>5. /\ ThreadsInv' /\ OwnInv'
      /\ threads' \in [Threads -> ThreadStates \cup {None}]
      /\ threads'[t] = s
      /\ \A u \in Threads \ {t} : threads'[u] = threads[u]
  BY <1>1, <1>3, <1>4, ThreadStep DEF recordHistory
<1>6. records' \in Seq(Ids) /\ Head(records') = h
  BY <1>1, <1>3 DEF ListTypes
<1>7. ListTypes' /\ ExpiredInv' /\ OldBehindFresh'
  BY <1>1, <1>5, <1>6 DEF ListTypes, Ids, ExpiredInv, IsOld, OldBehindFresh, recordHistory
<1>8. AccountInv'
  <2> SUFFICES ASSUME NEW r \in Nat
               PROVE  Total(r)' = IF r \in ToSet(emitted) THEN 1 ELSE 0
    BY <1>1 DEF AccountInv, recordHistory
  <2>1. Copies(records', r) = Copies(records, r) + IF h = r THEN 1 ELSE 0
    BY <1>1, <1>3, CopiesFront DEF ListTypes
  <2>2. Holders(r)' = Holders(r) \ {t}
    <3>1. Inside' = Inside
      BY <1>1, <1>4, <1>5, RecordsAssumption DEF Inside
    <3> QED
      BY <1>1, <1>4, <1>5, <3>1, RecordsAssumption DEF Holders, Inside
  <2>3. t \in Holders(r) <=> h = r
    BY <1>1 DEF Holders
  <2>4. Cardinality(Holders(r)) = Cardinality(Holders(r)') + IF h = r THEN 1 ELSE 0
    <3>1. Cardinality(Holders(r)) = Cardinality(Holders(r) \ {t}) + IF h = r THEN 1 ELSE 0
      BY <2>3, HoldersNat, OneLess
    <3> QED
      BY <2>2, <3>1
  <2>5. Total(r)' = Copies(records', r) + Cardinality(Holders(r)') + Copies(expired, r)
    BY <1>1 DEF Total, Copies, recordHistory
  <2>6. Copies(expired, r) \in Nat /\ Cardinality(Holders(r)) \in Nat
        /\ Copies(records, r) \in Nat /\ Cardinality(Holders(r)') \in Nat
    <3>1. IsFiniteSet(Holders(r)')
      BY <2>2, HoldersNat, FS_RemoveElement
    <3> QED
      BY <3>1, HoldersNat, CopiesNat, FS_CardinalityType DEF ListTypes
  <2>7. Total(r)' = Total(r)
    BY <2>1, <2>4, <2>5, <2>6 DEF Total
  <2> QED
    BY <2>7 DEF AccountInv
<1>9. AloneInv'
  BY <1>1, <1>4, <1>5, <1>6, AloneStep DEF At, recordHistory
<1> QED
  BY <1>5, <1>7, <1>8, <1>9

\* The end of an emit or a read, whether it was what it was to be or an IndexError.
LEMMA LeaveStep ==
    ASSUME NEW t \in Inside, RecordInv, UNCHANGED <<tick, created, overlapped>>,
           EndsThread(t), threads[t].step # "decide"
    PROVE  /\ threads' \in [Threads -> ThreadStates \cup {None}]
           /\ threads'[t] = None
           /\ \A u \in Threads \ {t} : threads'[u] = threads[u]
           /\ ThreadsInv' /\ AloneInv'
           /\ \A r \in Nat : Holders(r)' = Holders(r)
<1> USE DEF RecordInv
<1>1. t \in Threads /\ threads[t] # None /\ threads[t].held = None
  BY DEF Inside, ThreadsInv
<1>2. /\ threads' \in [Threads -> ThreadStates \cup {None}]
      /\ threads'[t] = None
      /\ \A u \in Threads \ {t} : threads'[u] = threads[u]
  BY <1>1 DEF EndsThread, ListTypes
<1>3. ThreadsInv'
  BY <1>2 DEF ThreadsInv, Ids
<1>4. AloneInv'
  BY <1>1, <1>2, AloneStep DEF At
<1>5. Inside' = Inside \ {t}
  BY <1>1, <1>2 DEF Inside
<1>6. \A r \in Nat : Holders(r)' = Holders(r)
  BY <1>1, <1>2, <1>5, RecordsAssumption DEF Holders, Inside
<1> QED
  BY <1>2, <1>3, <1>4, <1>6

LEMMA PopFailsKeeps ==
    ASSUME NEW t \in Threads, RecordInv, PopFails(t)
    PROVE  RecordInv'
<1> USE DEF RecordInv
<1>1. t \in Inside /\ EndsThread(t) /\ threads[t].step # "decide"
      /\ UNCHANGED <<tick, records, created, recordHistory>>
  BY DEF PopFails, At, Inside
<1>2. /\ threads' \in [Threads -> ThreadStates \cup {None}]
      /\ threads'[t] = None
      /\ \A u \in Threads \ {t} : threads'[u] = threads[u]
      /\ ThreadsInv' /\ AloneInv'
      /\ \A r \in Nat : Holders(r)' = Holders(r)
  BY <1>1, LeaveStep DEF recordHistory
<1>3. ListTypes' /\ ExpiredInv' /\ OldBehindFresh' /\ OwnInv'
  BY <1>1, <1>2 DEF ListTypes, Ids, ExpiredInv, IsOld, OldBehindFresh, OwnInv, recordHistory
<1>4. AccountInv'
  BY <1>1, <1>2, SameAccount DEF recordHistory
<1> QED
  BY <1>2, <1>3, <1>4

LEMMA AppendKeeps ==
    ASSUME NEW t \in Threads, RecordInv, AppendRecord(t)
    PROVE  RecordInv'
<1> USE DEF RecordInv
<1> DEFINE x == threads[t].record
<1>1. t \in Inside /\ EndsThread(t) /\ threads[t].step # "decide" /\ threads[t] # None
      /\ records' = Append(records, x) /\ emitted' = Append(emitted, x)
      /\ UNCHANGED <<tick, created, expired, reads, lastRead, overlapped>>
  BY DEF AppendRecord, At, Inside
<1>2. x \in Ids /\ x \in Nat /\ x # None
  BY <1>1, RecordsAssumption DEF AppendRecord, ThreadsInv, Ids, At
<1>3. /\ threads' \in [Threads -> ThreadStates \cup {None}]
      /\ threads'[t] = None
      /\ \A u \in Threads \ {t} : threads'[u] = threads[u]
      /\ ThreadsInv' /\ AloneInv'
      /\ \A r \in Nat : Holders(r)' = Holders(r)
  BY <1>1, LeaveStep
<1>4. records' \in Seq(Ids) /\ emitted' \in Seq(Ids)
  BY <1>1, <1>2 DEF ListTypes
<1>5. ListTypes' /\ ExpiredInv' /\ OldBehindFresh'
  BY <1>1, <1>3, <1>4 DEF ListTypes, Ids, ExpiredInv, IsOld, OldBehindFresh
<1>6. ToSet(emitted') = ToSet(emitted) \cup {x} /\ x \notin ToSet(emitted)
  <2>1. x \notin ToSet(emitted)
    BY <1>1, <1>2 DEF OwnInv
  <2>2. ToSet(emitted') = ToSet(emitted) \cup {x}
    BY <1>1, <1>2, ToSetAppend DEF ListTypes
  <2> QED
    BY <2>1, <2>2
<1>7. OwnInv'
  BY <1>1, <1>2, <1>3, <1>6 DEF OwnInv
<1>8. AccountInv'
  <2> SUFFICES ASSUME NEW r \in Nat
               PROVE  Total(r)' = IF r \in ToSet(emitted)' THEN 1 ELSE 0
    BY DEF AccountInv
  <2>1. Copies(records', r) = Copies(records, r) + IF x = r THEN 1 ELSE 0
    BY <1>1, <1>2, CopiesAppend DEF ListTypes
  <2>2. Total(r)' = Copies(records', r) + Cardinality(Holders(r)) + Copies(expired, r)
    BY <1>1, <1>3 DEF Total, Copies
  <2>3. Copies(expired, r) \in Nat /\ Cardinality(Holders(r)) \in Nat
        /\ Copies(records, r) \in Nat
    BY HoldersNat, CopiesNat DEF ListTypes
  <2>4. Total(r)' = Total(r) + IF x = r THEN 1 ELSE 0
    BY <2>1, <2>2, <2>3 DEF Total
  <2>5. Total(r) = IF r \in ToSet(emitted) THEN 1 ELSE 0
    BY DEF AccountInv
  <2>6. r \in ToSet(emitted)' <=> r \in ToSet(emitted) \/ r = x
    BY <1>6 DEF ToSet
  <2> QED
    BY <1>6, <2>4, <2>5, <2>6
<1> QED
  BY <1>3, <1>5, <1>7, <1>8

LEMMA ReadRecordsKeeps ==
    ASSUME NEW t \in Threads, RecordInv, ReadRecords(t)
    PROVE  RecordInv'
<1> USE DEF RecordInv
<1>1. t \in Inside /\ EndsThread(t) /\ threads[t].step # "decide" /\ At(t, "use")
      /\ lastRead' = [got |-> records, asOf |-> threads[t].asOf]
      /\ UNCHANGED <<tick, records, created, emitted, expired, reads, overlapped>>
  BY DEF ReadRecords, At, Inside
<1>2. /\ threads' \in [Threads -> ThreadStates \cup {None}]
      /\ threads'[t] = None
      /\ \A u \in Threads \ {t} : threads'[u] = threads[u]
      /\ ThreadsInv' /\ AloneInv'
      /\ \A r \in Nat : Holders(r)' = Holders(r)
  BY <1>1, LeaveStep
<1>3. ListTypes' /\ ExpiredInv' /\ OwnInv'
  BY <1>1, <1>2 DEF ListTypes, Ids, ExpiredInv, IsOld, OwnInv
<1>4. AccountInv'
  BY <1>1, <1>2, SameAccount
<1>5. OldBehindFresh'
  <2> DEFINE asOf == threads[t].asOf
  <2>1. lastRead'.got = records /\ lastRead'.asOf = asOf
    BY <1>1
  <2> SUFFICES ASSUME ~overlapped, NEW i \in DOMAIN records,
                      created[records[i]] < asOf - TimeToLive
               PROVE  \E j \in 1..(i - 1) : created[records[j]] > created[records[i]]
    BY <1>1, <2>1 DEF OldBehindFresh, IsOld
  <2>2. i \in Nat \ {0} /\ records # <<>> /\ Head(records) = records[1]
        /\ records[i] \in Ids /\ records[1] \in Ids
    BY DEF ListTypes
  <2>3. ~(created[records[1]] < asOf - TimeToLive)
    BY <1>1, <2>2 DEF AloneInv, IsOld
  <2>4. created[records[i]] \in Nat /\ created[records[1]] \in Nat
    BY <2>2 DEF ListTypes, Ids
  <2>5. asOf \in Nat
    <3>1. threads[t] # None /\ threads[t].step # "created"
      BY <1>1 DEF At
    <3> QED
      BY <3>1, StateOf
  <2>6. i # 1 /\ created[records[1]] > created[records[i]]
    BY <2>3, <2>4, <2>5, RecordsAssumption
  <2> QED
    BY <2>2, <2>6
<1> QED
  BY <1>2, <1>3, <1>4, <1>5

-----------------------------------------------------------------------------
\* Every record that was emitted is in the list, in the hands of one thread, or was given
\* to on_expiry, once in all and only when too old, whatever threads read and log at once;
\* and unless two of them were expiring records at once, an old record is read only
\* behind a newer one (list_handler.py:61, 67, 68).
THEOREM RecordsStayRight == RecordsSpec => []RecordsRight
<1>1. RecordInv /\ [RecordsNext]_recordVars => RecordInv'
  <2> SUFFICES ASSUME RecordInv, [RecordsNext]_recordVars PROVE RecordInv'
    OBVIOUS
  <2>1. CASE UNCHANGED recordVars
    BY <2>1 DEF recordVars, recordHistory, RecordInv, ListTypes, Ids, ThreadsInv, OwnInv,
             AccountInv, Total, Copies, Holders, Inside, At, ExpiredInv, IsOld, AloneInv,
             OldBehindFresh
  <2>2. CASE TickPasses
    BY <2>2, TickKeeps
  <2>3. CASE \E t \in Threads : CreateRecord(t) \/ StartEmit(t) \/ StartRead(t)
    BY <2>3, CreateKeeps, StartRecordKeeps
  <2>4. CASE \E t \in Threads : CheckList(t) \/ PopRecord(t) \/ PopFails(t)
    BY <2>4, CheckKeeps, PopKeeps, PopFailsKeeps
  <2>5. CASE \E t \in Threads : Expire(t) \/ KeepFresh(t)
    BY <2>5, ExpireKeeps, KeepFreshKeeps
  <2>6. CASE \E t \in Threads : AppendRecord(t) \/ ReadRecords(t)
    BY <2>6, AppendKeeps, ReadRecordsKeeps
  <2> QED
    BY <2>1, <2>2, <2>3, <2>4, <2>5, <2>6 DEF RecordsNext
<1>2. RecordInv => RecordsRight
  <2> SUFFICES ASSUME RecordInv PROVE RecordsRight
    OBVIOUS
  <2>1. \A r \in ToSet(emitted) : r \in Nat
    BY DEF RecordInv, ListTypes, Ids, ToSet
  <2> QED
    BY <2>1 DEF RecordInv, RecordsRight, NothingLost, AccountInv, Total, ExpiredInv
<1> QED
  BY <1>1, <1>2, RecordsInitInv, PTL DEF RecordsSpec

-----------------------------------------------------------------------------
(* InstanceCache: two instances of one key. *)

IdParts == Values \cup {None} \cup {<<n>> : n \in Nat}
CacheKeys == IdParts \cup (IdParts \X IdParts)
InstanceType == [class : Classes \cup {Mixin}, ids : IdParts \X IdParts, attr : IdParts,
                 key : CacheKeys, accepted : BOOLEAN]

SameKey(made, i, j) == made[i].class = made[j].class /\ made[i].key = made[j].key

\* The key of an instance is that of its first IDs; it is accepted if it has one and is
\* the first of its class with it, and if it is not then another has been.
KeyRight(made, j) ==
    /\ made[j].key = CacheId(made[j].ids[1], made[j].ids[2])
    /\ made[j].accepted <=> made[j].key # None /\ \A i \in 1..(j - 1) : ~SameKey(made, i, j)
    /\ made[j].key # None => \E i \in DOMAIN made : made[i].accepted /\ SameKey(made, i, j)

\* The registry has the instances that were accepted.
CacheInv ==
    /\ DOMAIN declared \subseteq Classes \cup {Mixin}
    /\ instances \in Seq(InstanceType)
    /\ \A j \in DOMAIN instances : KeyRight(instances, j)
    /\ registry = {[class |-> instances[i].class, key |-> instances[i].key, instance |-> i] :
                      i \in {k \in DOMAIN instances : instances[k].accepted}}

\* Two pairs of IDs make one key if they are the same, if each is a single ID that the one
\* has in the place where the other has nothing, or if the single ID of one is the other.
LEMMA SameCacheId ==
    ASSUME NEW p \in IdParts \X IdParts, NEW q \in IdParts \X IdParts,
           CacheId(q[1], q[2]) # None
    PROVE  CacheId(p[1], p[2]) = CacheId(q[1], q[2])
               <=> \/ p = q
                   \/ p = <<q[2], q[1]>> /\ None \in ToSet(p)
                   \/ Doubles(p, q) \/ Doubles(q, p)
<1>1. ASSUME NEW r \in IdParts \X IdParts
      PROVE  r = <<r[1], r[2]>> /\ ToSet(r) = {r[1], r[2]}
  BY DEF ToSet
<1>2. \A a, b, c, d : <<a, b>> = <<c, d>> <=> a = c /\ b = d
  OBVIOUS
<1>3. PICK a, b, c, d : p = <<a, b>> /\ q = <<c, d>>
  OBVIOUS
<1>4. p[1] = a /\ p[2] = b /\ q[1] = c /\ q[2] = d
  BY <1>3
<1>5. ToSet(p) = {a, b} /\ ToSet(q) = {c, d}
  BY <1>1, <1>4
<1>6. CacheId(c, d) # None
  BY <1>4
<1>7. Doubles(p, q) <=> a # None /\ b # None /\ (c = None \/ d = None) /\ (p = c \/ p = d) /\ p # None
  BY <1>5 DEF Doubles
<1>8. Doubles(q, p) <=> c # None /\ d # None /\ (a = None \/ b = None) /\ (q = a \/ q = b) /\ q # None
  BY <1>5 DEF Doubles
<1>9. (p = q) <=> (a = c /\ b = d)
  BY <1>2, <1>3
<1>10. (p = <<q[2], q[1]>>) <=> (a = d /\ b = c)
  BY <1>2, <1>3, <1>4
<1>11. CacheId(a, b) = IF a = None /\ b = None THEN None ELSE
                       IF b = None THEN a ELSE IF a = None THEN b ELSE p
  BY <1>3 DEF CacheId
<1>12. CacheId(c, d) = IF c = None /\ d = None THEN None ELSE
                       IF d = None THEN c ELSE IF c = None THEN d ELSE q
  BY <1>3 DEF CacheId
<1>13. CacheId(a, b) = CacheId(c, d)
          <=> \/ a = c /\ b = d
              \/ a = d /\ b = c /\ (a = None \/ b = None)
              \/ Doubles(p, q) \/ Doubles(q, p)
  <2> HIDE DEF CacheId
  <2>1. CASE a = None /\ b = None
    BY <1>6, <1>7, <1>8, <1>11, <1>12, <2>1
  <2>2. ASSUME (a # None /\ b = None) \/ (a = None /\ b # None)
        PROVE  CacheId(a, b) = CacheId(c, d)
                  <=> \/ a = c /\ b = d
                      \/ a = d /\ b = c
                      \/ Doubles(q, p)
    <3>1. PICK e : e # None /\ e \in {a, b} /\ CacheId(a, b) = e /\ {a, b} = {e, None}
      BY <1>11, <2>2
    <3>2. CASE c # None /\ d # None
      <4>1. CacheId(c, d) = q /\ q # None
        BY <1>6, <1>12, <3>2
      <4>2. Doubles(q, p) <=> q = e
        BY <1>8, <2>2, <3>1, <3>2, <4>1
      <4> QED  BY <2>2, <3>1, <3>2, <4>1, <4>2
    <3>3. CASE c = None \/ d = None
      <4>1. ~Doubles(q, p)
        BY <1>8, <3>3
      <4> QED  BY <1>6, <1>12, <2>2, <3>1, <3>3, <4>1
    <3> QED  BY <3>2, <3>3
  <2>3. ASSUME (a # None /\ b = None) \/ (a = None /\ b # None)
        PROVE  ~Doubles(p, q)
    BY <1>7, <2>3
  <2>4. CASE a # None /\ b # None
    BY <1>6, <1>7, <1>8, <1>9, <1>11, <1>12, <2>4
  <2>5. CASE (a # None /\ b = None) \/ (a = None /\ b # None)
    BY <2>2, <2>3, <2>5
  <2> QED  BY <2>1, <2>4, <2>5
<1> QED  BY <1>4, <1>5, <1>9, <1>10, <1>13

\* from_cache finds the accepted instances that have the key.
LEMMA FromCacheIs ==
    ASSUME CacheInv, NEW class, NEW key
    PROVE  FromCache(class, key) = {i \in DOMAIN instances :
               instances[i].accepted /\ instances[i].class = class /\ instances[i].key = key}
<1> DEFINE Entry(i) == [class |-> instances[i].class, key |-> instances[i].key, instance |-> i]
<1>1. \A i : Entry(i).class = instances[i].class /\ Entry(i).key = instances[i].key
             /\ Entry(i).instance = i
  OBVIOUS
<1>2. registry = {Entry(i) : i \in {k \in DOMAIN instances : instances[k].accepted}}
  BY DEF CacheInv
<1> HIDE DEF Entry
<1>3. ASSUME NEW i \in DOMAIN instances, instances[i].accepted, instances[i].class = class,
             instances[i].key = key
      PROVE  i \in FromCache(class, key)
  <2>1. Entry(i) \in {x \in registry : x.class = class /\ x.key = key}
    BY <1>1, <1>2, <1>3
  <2> QED  BY <1>1, <2>1 DEF FromCache, RegistryOf
<1>4. ASSUME NEW i \in FromCache(class, key)
      PROVE  /\ i \in DOMAIN instances
             /\ instances[i].accepted /\ instances[i].class = class /\ instances[i].key = key
  <2>1. PICK e \in registry : e.class = class /\ e.key = key /\ i = e.instance
    BY DEF FromCache, RegistryOf
  <2>2. PICK k \in DOMAIN instances : instances[k].accepted /\ e = Entry(k)
    BY <1>2, <2>1
  <2> QED  BY <1>1, <2>1, <2>2
<1> QED  BY <1>3, <1>4

\* An instance that is made is accepted unless another of its class has its key.
LEMMA MakeKeeps ==
    ASSUME CacheInv, MakeInstance
    PROVE  CacheInv'
<1>0. PICK class \in DOMAIN declared \ {Mixin} : \E ids \in PossibleIds(class) :
         LET key == CacheId(ids[1], ids[2])
             accepted == key # None /\ FromCache(class, key) = {}
         IN /\ instances' = Append(instances,
                 [class |-> class, ids |-> ids, attr |-> ids[1], key |-> key,
                  accepted |-> accepted])
            /\ registry' = IF accepted
                           THEN registry \cup {[class |-> class, key |-> key,
                                                instance |-> Number]}
                           ELSE registry
  BY DEF MakeInstance, RegistryOf
<1>1. PICK ids \in PossibleIds(class) :
         LET key == CacheId(ids[1], ids[2])
             accepted == key # None /\ FromCache(class, key) = {}
         IN /\ instances' = Append(instances,
                 [class |-> class, ids |-> ids, attr |-> ids[1], key |-> key,
                  accepted |-> accepted])
            /\ registry' = IF accepted
                           THEN registry \cup {[class |-> class, key |-> key,
                                                instance |-> Number]}
                           ELSE registry
  BY <1>0
<1> DEFINE key == CacheId(ids[1], ids[2])
           accepted == key # None /\ FromCache(class, key) = {}
           new == [class |-> class, ids |-> ids, attr |-> ids[1], key |-> key,
                   accepted |-> accepted]
           n == Len(instances)
<1>2. instances \in Seq(InstanceType) /\ n \in Nat /\ class \in Classes \cup {Mixin}
  BY DEF CacheInv
<1>3. ids \in IdParts \X IdParts
  BY <1>2 DEF PossibleIds, IdParts, Number
<1>4. key \in CacheKeys
  BY <1>3 DEF CacheId, CacheKeys
<1>5. new \in InstanceType
  <2>1. ids[1] \in IdParts /\ accepted \in BOOLEAN
    BY <1>3
  <2> HIDE DEF key, accepted
  <2> QED  BY <1>2, <1>3, <1>4, <2>1 DEF InstanceType
<1>6. /\ new.class = class /\ new.ids = ids /\ new.key = key
      /\ new.accepted = accepted
  OBVIOUS
<1>7. instances' = Append(instances, new)
  BY <1>1
<1>8. registry' = IF accepted THEN registry \cup {[class |-> class, key |-> key, instance |-> n + 1]}
                              ELSE registry
  BY <1>1 DEF Number
<1> HIDE DEF new, key
<1>9. /\ instances' \in Seq(InstanceType) /\ DOMAIN instances' = DOMAIN instances \cup {n + 1}
      /\ DOMAIN instances = 1..n
      /\ instances'[n + 1] = new
      /\ \A i \in 1..n : instances'[i] = instances[i]
  BY <1>2, <1>5, <1>7
\* A key that an accepted instance has is in the registry.
<1>10. key # None => (FromCache(class, key) = {} <=> \A i \in 1..n : instances[i].class # class \/ instances[i].key # key)
  <2>1. FromCache(class, key) = {i \in 1..n : /\ instances[i].accepted
                                              /\ instances[i].class = class
                                              /\ instances[i].key = key}
    BY <1>9, FromCacheIs
  <2>2. \A i \in 1..n : key # None /\ instances[i].class = class /\ instances[i].key = key =>
           \E k \in 1..n : /\ instances[k].accepted
                           /\ instances[k].class = class /\ instances[k].key = key
    <3> TAKE i \in 1..n
    <3>1. KeyRight(instances, i)
      BY <1>9 DEF CacheInv
    <3> QED  BY <1>9, <3>1 DEF KeyRight, SameKey
  <2> QED  BY <2>1, <2>2 DEF CacheInv
<1>11. accepted <=> key # None /\ \A i \in 1..n : ~SameKey(instances', i, n + 1)
  BY <1>6, <1>9, <1>10 DEF SameKey
<1>12. accepted => key # None /\ FromCache(class, key) = {}
  OBVIOUS
<1>13. key # None /\ ~accepted =>
         \E i \in 1..n : instances[i].accepted /\ instances[i].class = class /\ instances[i].key = key
  BY <1>9, FromCacheIs DEF accepted
<1> HIDE DEF accepted
<1>14. \A i, j \in 1..n : SameKey(instances', i, j) = SameKey(instances, i, j)
  BY <1>9 DEF SameKey
<1>15. \A j \in 1..n : \A i \in 1..(j - 1) : i \in 1..n
  BY <1>2
<1>16. ASSUME NEW j \in 1..n
       PROVE  KeyRight(instances', j)
  <2>1. KeyRight(instances, j)
    BY <1>9 DEF CacheInv
  <2>2. instances'[j] = instances[j]
    BY <1>9
  <2>3. \A i \in 1..(j - 1) : SameKey(instances', i, j) = SameKey(instances, i, j)
    BY <1>14, <1>15
  <2>4. instances[j].key # None =>
           \E i \in DOMAIN instances' : instances'[i].accepted /\ SameKey(instances', i, j)
    BY <1>9, <1>14, <2>1 DEF KeyRight
  <2> QED  BY <2>1, <2>2, <2>3, <2>4 DEF KeyRight
<1>17. KeyRight(instances', n + 1)
  <2>1. 1..(n + 1 - 1) = 1..n
    BY <1>2
  <2>2. new.key = CacheId(new.ids[1], new.ids[2])
    BY <1>6 DEF key
  <2>3. new.key # None =>
          \E i \in DOMAIN instances' : instances'[i].accepted /\ SameKey(instances', i, n + 1)
    <3>1. CASE accepted
      BY <1>6, <1>9, <3>1 DEF SameKey
    <3>2. CASE ~accepted
      BY <1>6, <1>9, <1>13, <3>2 DEF SameKey
    <3> QED  BY <3>1, <3>2
  <2>4. new.accepted <=> new.key # None /\ \A i \in 1..(n + 1 - 1) : ~SameKey(instances', i, n + 1)
    BY <1>6, <1>11, <2>1
  <2> QED  BY <1>9, <2>2, <2>3, <2>4 DEF KeyRight
<1>18. registry' = {[class |-> instances'[i].class, key |-> instances'[i].key, instance |-> i] :
                       i \in {k \in DOMAIN instances' : instances'[k].accepted}}
  <2>1. n + 1 \notin 1..n
    BY <1>2
  <2>2. registry = {[class |-> instances[i].class, key |-> instances[i].key, instance |-> i] :
                       i \in {k \in 1..n : instances[k].accepted}}
    BY <1>9 DEF CacheInv
  <2>3. registry = {[class |-> instances'[i].class, key |-> instances'[i].key, instance |-> i] :
                       i \in {k \in 1..n : instances'[k].accepted}}
    BY <1>9, <2>2
  <2>4. CASE accepted
    <3>1. {k \in DOMAIN instances' : instances'[k].accepted}
             = {k \in 1..n : instances'[k].accepted} \cup {n + 1}
      BY <1>6, <1>9, <2>4
    <3> QED  BY <1>6, <1>8, <1>9, <2>3, <2>4, <3>1
  <2>5. CASE ~accepted
    <3>1. {k \in DOMAIN instances' : instances'[k].accepted}
             = {k \in 1..n : instances'[k].accepted}
      BY <1>6, <1>9, <2>5
    <3> QED  BY <1>8, <2>3, <2>5, <3>1
  <2> QED  BY <2>4, <2>5
<1>19. declared' = declared
  BY DEF MakeInstance
<1>20. \A j \in DOMAIN instances' : KeyRight(instances', j)
  BY <1>9, <1>16, <1>17
<1> QED  BY <1>9, <1>18, <1>19, <1>20 DEF CacheInv

LEMMA DeclareKeeps ==
    ASSUME CacheInv, DeclareClass
    PROVE  CacheInv'
<1>1. UNCHANGED <<instances, registry>>
  BY DEF DeclareClass
<1>2. DOMAIN declared' \subseteq Classes \cup {Mixin}
  BY DEF DeclareClass, CacheInv
<1> QED  BY <1>1, <1>2 DEF CacheInv

LEMMA ChangeKeeps ==
    ASSUME CacheInv, ChangeAttribute
    PROVE  CacheInv'
<1>1. PICK k \in DOMAIN instances, value \in Values :
         instances' = [instances EXCEPT ![k].attr = value]
  BY DEF ChangeAttribute
<1>2. UNCHANGED <<declared, registry>>
  BY DEF ChangeAttribute
<1>3. instances' \in Seq(InstanceType) /\ DOMAIN instances' = DOMAIN instances
  <2>1. value \in IdParts
    BY DEF IdParts
  <2>2. [instances[k] EXCEPT !.attr = value] \in InstanceType
    <3>1. instances[k] \in InstanceType
      BY DEF CacheInv
    <3> QED  BY <2>1, <3>1 DEF InstanceType
  <2> QED  BY <1>1, <2>2 DEF CacheInv
<1>4. \A i \in DOMAIN instances :
         /\ instances'[i].class = instances[i].class /\ instances'[i].key = instances[i].key
         /\ instances'[i].ids = instances[i].ids
         /\ instances'[i].accepted = instances[i].accepted
  BY <1>1 DEF CacheInv, InstanceType
<1>5. \A j \in DOMAIN instances : \A i \in 1..(j - 1) : i \in DOMAIN instances
  BY DEF CacheInv
<1>6. \A i, j \in DOMAIN instances : SameKey(instances', i, j) = SameKey(instances, i, j)
  BY <1>4 DEF SameKey
<1>7. {k1 \in DOMAIN instances' : instances'[k1].accepted}
         = {k1 \in DOMAIN instances : instances[k1].accepted}
  BY <1>3, <1>4
<1>8. registry' = {[class |-> instances'[i].class, key |-> instances'[i].key, instance |-> i] :
                      i \in {k1 \in DOMAIN instances' : instances'[k1].accepted}}
  BY <1>2, <1>4, <1>7 DEF CacheInv
<1>9. ASSUME NEW j \in DOMAIN instances
      PROVE  KeyRight(instances', j)
  <2>1. KeyRight(instances, j)
    BY DEF CacheInv
  <2>2. \A i \in 1..(j - 1) : SameKey(instances', i, j) = SameKey(instances, i, j)
    BY <1>5, <1>6
  <2>3. instances[j].key # None =>
           \E i \in DOMAIN instances' : instances'[i].accepted /\ SameKey(instances', i, j)
    BY <1>3, <1>4, <1>6, <2>1 DEF KeyRight
  <2> QED  BY <1>4, <2>1, <2>2, <2>3 DEF KeyRight
<1> QED  BY <1>2, <1>3, <1>8, <1>9 DEF CacheInv

LEMMA CacheJustified ==
    ASSUME CacheInv
    PROVE  DuplicatesJustified
<1> SUFFICES ASSUME NEW j \in DOMAIN instances
             PROVE  /\ instances[j].accepted <=>
                         instances[j].key # None /\ ~\E i \in 1..(j - 1) : Alike(i, j)
                    /\ instances[j].accepted =>
                         FromCache(instances[j].class, instances[j].key) = {j}
  BY DEF DuplicatesJustified
<1>1. \A i \in 1..(j - 1) : i \in DOMAIN instances
  BY DEF CacheInv
<1>2. ASSUME instances[j].key # None, NEW i \in 1..(j - 1)
      PROVE  SameKey(instances, i, j) <=> Alike(i, j)
  <2> DEFINE p == instances[i].ids
             q == instances[j].ids
  <2>1. p \in IdParts \X IdParts /\ q \in IdParts \X IdParts
    <3>1. instances[i] \in InstanceType /\ instances[j] \in InstanceType
      BY <1>1 DEF CacheInv
    <3> QED  BY <3>1 DEF InstanceType
  <2>2. instances[i].key = CacheId(p[1], p[2]) /\ instances[j].key = CacheId(q[1], q[2])
    BY <1>1 DEF CacheInv, KeyRight
  <2> HIDE DEF p, q
  <2>3. instances[i].key = instances[j].key
            <=> \/ p = q
                \/ p = <<q[2], q[1]>> /\ None \in ToSet(p)
                \/ Doubles(p, q) \/ Doubles(q, p)
    BY <1>2, <2>1, <2>2, SameCacheId
  <2> QED  BY <2>3 DEF SameKey, Alike, p, q
<1>3. instances[j].accepted <=>
         instances[j].key # None /\ ~\E i \in 1..(j - 1) : Alike(i, j)
  BY <1>2 DEF CacheInv, KeyRight
\* Of two instances with one key the later is not accepted.
<1>4. ASSUME instances[j].accepted
      PROVE  FromCache(instances[j].class, instances[j].key) = {j}
  <2>1. FromCache(instances[j].class, instances[j].key)
           = {i \in DOMAIN instances : instances[i].accepted /\ SameKey(instances, i, j)}
    BY FromCacheIs DEF SameKey
  <2>2. ASSUME NEW i \in DOMAIN instances, instances[i].accepted, SameKey(instances, i, j), i # j
        PROVE  FALSE
    <3>1. i \in Nat /\ j \in Nat /\ i > 0 /\ j > 0
      BY DEF CacheInv
    <3>2. CASE i < j
      <4>1. i \in 1..(j - 1)
        BY <3>1, <3>2
      <4> QED  BY <1>4, <2>2, <4>1 DEF CacheInv, KeyRight
    <3>3. CASE j < i
      <4>1. j \in 1..(i - 1) /\ SameKey(instances, j, i)
        BY <2>2, <3>1, <3>3 DEF SameKey
      <4> QED  BY <2>2, <4>1 DEF CacheInv, KeyRight
    <3> QED  BY <2>2, <3>1, <3>2, <3>3
  <2> QED  BY <1>4, <2>1, <2>2 DEF SameKey
<1> QED  BY <1>3, <1>4

\* Of the instances of a class that began alike the first is there and all others were
\* refused, whatever became of their attributes since, and from_cache finds it by its
\* first ID (instance_cache.py:126, 140).
THEOREM DuplicatesAreJustified == CacheSpec => []DuplicatesJustified
<1>1. CacheInit => CacheInv
  <2> SUFFICES ASSUME CacheInit  PROVE  CacheInv
    OBVIOUS
  <2>1. DOMAIN declared \subseteq Classes \cup {Mixin}
    BY DEF CacheInit
  <2>2. instances \in Seq(InstanceType) /\ DOMAIN instances = {} /\ registry = {}
    BY DEF CacheInit
  <2> QED  BY <2>1, <2>2 DEF CacheInv
<1>2. CacheInv /\ [CacheNext]_cacheVars => CacheInv'
  <2> SUFFICES ASSUME CacheInv, [CacheNext]_cacheVars  PROVE  CacheInv'
    OBVIOUS
  <2>1. CASE UNCHANGED cacheVars
    BY <2>1 DEF cacheVars, CacheInv
  <2> QED  BY <2>1, DeclareKeeps, MakeKeeps, ChangeKeeps DEF CacheNext
<1> QED  BY <1>1, <1>2, CacheJustified, PTL DEF CacheSpec

-----------------------------------------------------------------------------
(* DateRanges: what a client asks for is what it was asked for. *)

Dates ==
    /\ hour \in Nat /\ back \in DaysBack /\ local \in Int
    /\ items \subseteq Spans

RangesInv == Dates /\ RangesRight

\* A time in UTC, and one that is a while before it.
LEMMA InUTC ==
    ASSUME NEW w \in Int, NEW z \in Zones \cup {None}, NEW zone \in Int, NEW d \in Int,
           NEW time, time = [wall |-> w, zone |-> z]
    PROVE  /\ InZone(time, zone) \in Int
           /\ z # None => InZone(time, zone) = InZone(time, 0)
           /\ z = 0 => InZone(time, zone) = w
           /\ Before(time, d).zone = z
           /\ Before(time, d).wall = w - d
           /\ InZone(Before(time, d), zone) = InZone(time, zone) - d
<1>1. z # None => z \in Int
  BY RangesAssumption
<1>2. 0 # None
  BY RangesAssumption
<1>3. time.wall = w /\ time.zone = z
  OBVIOUS
<1>4. Before(time, d) = [wall |-> w - d, zone |-> z]
  BY DEF Before
<1>5. Before(time, d).zone = z /\ Before(time, d).wall = w - d
  BY <1>4
<1>6. CASE z = None
  BY <1>2, <1>3, <1>5, <1>6 DEF InZone
<1>7. CASE z # None
  BY <1>1, <1>2, <1>3, <1>5, <1>7 DEF InZone
<1> QED  BY <1>5, <1>6, <1>7

\* A time that was given, or now.
LEMMA GivenTime ==
    ASSUME hour \in Nat, NEW time \in Datetimes \cup {Now}, NEW d \in Int, NEW zone \in Int
    PROVE  /\ time.wall \in Int
           /\ InZone(time, zone) \in Int
           /\ time.zone # None => InZone(time, zone) = InZone(time, 0)
           /\ time.zone = 0 => InZone(time, zone) = time.wall
           /\ Before(time, d).zone = time.zone
           /\ Before(time, d).wall = time.wall - d
           /\ InZone(Before(time, d), zone) = InZone(time, zone) - d
<1>1. PICK w \in Int, z \in Zones \cup {None} : time = [wall |-> w, zone |-> z]
  BY RangesAssumption DEF Datetimes, Hours, Now
<1>2. time.wall = w /\ time.zone = z
  BY <1>1
<1> QED  BY <1>1, <1>2, InUTC

LEMMA NowIsUTC ==
    ASSUME hour \in Nat
    PROVE  InZone(Now, 0) = hour /\ Now.wall = hour /\ Now.zone = 0 /\ 0 # None
<1>1. 0 # None
  BY RangesAssumption
<1> QED  BY <1>1 DEF InZone, Now

\* An answer is right if its range is.
LEMMA RightRange ==
    ASSUME Dates, NEW a, answered' = a, items' = items, back' = back,
           NEW begin \in Int, NEW end \in Int,
           end = Ends(a), begin \in Beginnings(a),
           NEW plain, plain = (Plain(a.client, a.from) /\ Plain(a.client, a.to)),
           a.range = None => a.limit # None /\ ~plain,
           a.range # None =>
               /\ a.range.from \in Int /\ a.range.to \in Int
               /\ a.got = ReachingInto(a.range) \/ a.got = Within(a.range)
               /\ plain /\ a.limit = None =>
                    \/ a.range = Everything
                    \/ a.range.from <= begin /\ end <= a.range.to
               /\ plain /\ (a.from # None \/ a.to # None) /\ ~Truthy(a.limit) =>
                    begin <= a.range.from /\ a.range.to <= end
               /\ a.limit # None /\ (a.limit # 0 \/ a.range # Everything) =>
                    a.range.to - a.range.from <= a.limit * Day
    PROVE  RangesRight'
<1>1. \A i \in items : /\ i.start \in Int /\ i.end \in Int
                       /\ 0 <= i.start /\ i.end <= LastHour /\ i.start <= i.end
  BY RangesAssumption DEF Dates, Spans, Hours
<1> DEFINE inside == {i \in items : i.end < Ends(a) /\ \A b \in Beginnings(a) : i.start > b}
           around == {i \in items : i.start <= Ends(a) /\ \E b \in Beginnings(a) : i.end >= b}
<1>0. /\ Ends(a)' = Ends(a) /\ Beginnings(a)' = Beginnings(a)
      /\ answered' = a /\ items' = items
  BY DEF Ends, Beginnings
<1>2. CASE a.range = None
  BY <1>0, <1>2 DEF RangesRight
<1>3. CASE a.range # None
  <2>1. ASSUME plain, a.limit = None  PROVE inside \subseteq a.got
    BY <1>1, <1>3, <2>1, RangesAssumption DEF Everything, ReachingInto, Within
  <2>2. ASSUME plain, a.from # None \/ a.to # None, ~Truthy(a.limit)
        PROVE  a.got \subseteq around
    BY <1>1, <1>3, <2>2 DEF ReachingInto, Within
  <2> QED  BY <1>0, <1>3, <2>1, <2>2 DEF RangesRight
<1> QED  BY <1>2, <1>3

Questions == Datetimes \cup {None}

\* The end of a question, and its beginning if that is given.
LEMMA GivenEnds ==
    ASSUME Dates, NEW from \in Questions, NEW to \in Questions
    PROVE  LET end == IF to = None THEN hour ELSE InZone(to, 0) IN
           /\ end \in Int
           /\ end = InZone(IF to = None THEN Now ELSE to, 0)
           /\ from # None => InZone(from, 0) \in Int /\ from.wall \in Int
<1>1. hour \in Nat /\ 0 \in Int
  BY DEF Dates
<1>2. to # None => InZone(to, 0) \in Int
  BY <1>1, GivenTime DEF Questions
<1>3. from # None => InZone(from, 0) \in Int /\ from.wall \in Int
  BY <1>1, GivenTime DEF Questions
<1> QED  BY <1>1, <1>2, <1>3, NowIsUTC

LEMMA DaysAreInts ==
    ASSUME Dates
    PROVE  /\ back * Day \in Nat
           /\ \A limit \in Limits : limit * Day \in Nat /\ (limit = 0 => limit * Day = 0)
<1>1. back \in Nat /\ Limits \subseteq Nat /\ Day \in Nat
  BY RangesAssumption DEF Dates
<1> QED  BY <1>1

LEMMA TransactionsRight ==
    ASSUME Dates, NEW from \in Questions, NEW to \in Questions, GetTransactions(from, to)
    PROVE  RangesRight'
<1> DEFINE range == TrueLayerRange(from, to)
           a == [client |-> "truelayer", from |-> from, to |-> to, limit |-> None,
                 at |-> hour, range |-> range, got |-> Within(range)]
           end == IF to = None THEN hour ELSE InZone(to, 0)
           begin == IF from = None THEN hour - back * Day ELSE InZone(from, 0)
           plain == Plain(a.client, from) /\ Plain(a.client, to)
<1>1. answered' = a /\ items' = items /\ back' = back
  BY DEF GetTransactions, Answers
<1>2. end \in Int /\ begin \in Int
  BY GivenEnds, DaysAreInts DEF Dates
<1>3. range = IF from = None /\ to = None THEN Everything ELSE [from |-> begin, to |-> end]
  <2>1. InZone(Before(Now, back * Day), 0) = hour - back * Day
    BY DaysAreInts, GivenTime, NowIsUTC DEF Dates
  <2> QED  BY <2>1, GivenEnds DEF TrueLayerRange
<1>4. range.from \in Int /\ range.to \in Int /\ range # None
  <2>1. range \in [from : Int, to : Int]
    BY <1>2, <1>3, RangesAssumption DEF Everything
  <2> QED  BY <2>1, RangesAssumption
<1>5. begin \in Beginnings(a)
  BY DEF Beginnings, Ends, Moment, InZone
<1>6. /\ a.range = range /\ a.got = Within(range) /\ a.limit = None
      /\ a.from = from /\ a.to = to /\ a.at = hour
  OBVIOUS
<1>7. \/ range = Everything /\ from = None /\ to = None
      \/ range.from = begin /\ range.to = end
  BY <1>3
<1> HIDE DEF a, range, begin, end, plain
<1>8. end = Ends(a)
  BY <1>6 DEF end, Ends, Moment, InZone
<1> DEFINE p == Plain(a.client, a.from) /\ Plain(a.client, a.to)
<1> HIDE DEF p
<1>9. p = (Plain(a.client, a.from) /\ Plain(a.client, a.to))
  BY DEF p
<1> QED  BY <1>1, <1>2, <1>4, <1>5, <1>6, <1>7, <1>8, <1>9, RightRange

LEMMA ListRight ==
    ASSUME Dates, NEW from \in Questions, NEW to \in Questions, ListTransactions(from, to)
    PROVE  RangesRight'
<1> DEFINE range == MonzoRange(from, to)
           a == [client |-> "monzo", from |-> from, to |-> to, limit |-> None,
                 at |-> hour, range |-> range, got |-> Within(range)]
           end == IF to = None THEN hour ELSE InZone(to, 0)
           begin == IF from = None THEN hour - back * Day ELSE InZone(from, 0)
           p == Plain(a.client, a.from) /\ Plain(a.client, a.to)
<1>1. answered' = a /\ items' = items /\ back' = back
  BY DEF ListTransactions, Answers
<1>2. end \in Int /\ begin \in Int
  BY GivenEnds, DaysAreInts DEF Dates
<1>3. /\ a.range = range /\ a.got = Within(range) /\ a.limit = None
      /\ a.from = from /\ a.to = to /\ a.at = hour /\ a.client = "monzo"
  OBVIOUS
<1>4. begin \in Beginnings(a)
  BY DEF Beginnings, Ends, Moment, InZone
<1>5. end = Ends(a)
  BY DEF Ends, Moment, InZone
<1>6. /\ range.from = IF from = None THEN hour - back * Day ELSE from.wall
      /\ range.to = IF to = None THEN hour ELSE to.wall
  <2>1. Before(Now, back * Day).wall = hour - back * Day
    BY DaysAreInts, GivenTime, NowIsUTC DEF Dates
  <2>2. Now.wall = hour
    BY DEF Now
  <2> QED  BY <2>1, <2>2 DEF MonzoRange
<1>7. range = [from |-> range.from, to |-> range.to]
  BY DEF MonzoRange
<1>8. range.from \in Int /\ range.to \in Int
  BY <1>2, <1>6, GivenEnds DEF Dates
<1>9. range # None
  BY <1>7, <1>8, RangesAssumption
<1>10. p => range.from = begin /\ range.to = end
  <2> SUFFICES ASSUME p  PROVE  range.from = begin /\ range.to = end
    OBVIOUS
  <2>1. \A time \in Datetimes : time.zone = 0 => InZone(time, 0) = time.wall
    BY GivenTime DEF Dates
  <2>2. /\ from # None => from \in Datetimes /\ from.zone = 0
        /\ to # None => to \in Datetimes /\ to.zone = 0
    BY DEF Plain, Questions
  <2> QED  BY <1>6, <2>1, <2>2
<1> HIDE DEF a, range, begin, end, p
<1>11. p = (Plain(a.client, a.from) /\ Plain(a.client, a.to))
  BY DEF p
<1> QED  BY <1>1, <1>2, <1>3, <1>4, <1>5, <1>8, <1>9, <1>10, <1>11, RightRange

LEMMA SumRight ==
    ASSUME Dates, NEW from \in Questions, NEW to \in Questions, SumDataPoints(from, to)
    PROVE  RangesRight'
<1> DEFINE range == FitRange(from, to)
           a == [client |-> "fit", from |-> from, to |-> to, limit |-> None,
                 at |-> hour, range |-> range, got |-> Within(range)]
           end == IF to = None THEN hour ELSE InZone(to, 0)
           begin == IF from = None THEN hour - (hour % Day) ELSE InZone(from, 0)
           p == Plain(a.client, a.from) /\ Plain(a.client, a.to)
<1>1. answered' = a /\ items' = items /\ back' = back
  BY DEF SumDataPoints, Answers
<1>2. end \in Int /\ begin \in Int
  <2>1. hour % Day \in Int
    BY RangesAssumption DEF Dates
  <2> QED  BY <2>1, GivenEnds DEF Dates
<1>3. /\ a.range = range /\ a.got = Within(range) /\ a.limit = None
      /\ a.from = from /\ a.to = to /\ a.at = hour /\ a.client = "fit"
  OBVIOUS
<1>4. begin \in Beginnings(a)
  BY DEF Beginnings, Ends, Moment, InZone
<1>5. end = Ends(a)
  BY DEF Ends, Moment, InZone
<1>6. /\ range.from = IF from = None THEN hour - (hour % Day) ELSE InZone(from, local)
      /\ range.to = IF to = None THEN hour ELSE InZone(to, local)
      /\ range = [from |-> range.from, to |-> range.to]
  BY DEF FitRange
<1>7. \A time \in Datetimes : /\ InZone(time, local) \in Int
                              /\ time.zone # None => InZone(time, local) = InZone(time, 0)
  BY GivenTime DEF Dates
<1>8. range.from \in Int /\ range.to \in Int
  BY <1>2, <1>6, <1>7 DEF Questions
<1>9. range # None
  BY <1>6, <1>8, RangesAssumption
<1>10. p => range.from = begin /\ range.to = end
  <2> SUFFICES ASSUME p  PROVE  range.from = begin /\ range.to = end
    OBVIOUS
  <2>1. /\ from # None => from \in Datetimes /\ from.zone # None
        /\ to # None => to \in Datetimes /\ to.zone # None
    BY DEF Plain, Questions
  <2> QED  BY <1>6, <1>7, <2>1
<1> HIDE DEF a, range, begin, end, p
<1>11. p = (Plain(a.client, a.from) /\ Plain(a.client, a.to))
  BY DEF p
<1> QED  BY <1>1, <1>2, <1>3, <1>4, <1>5, <1>8, <1>9, <1>10, <1>11, RightRange

\* The range of a calendar: without bounds, refused, or from a first to a last moment.
LEMMA EventsRight ==
    ASSUME Dates, NEW from \in Questions, NEW to \in Questions, NEW limit \in Limits \cup {None},
           GetEvents(from, to, limit)
    PROVE  RangesRight'
<1> DEFINE range == CalendarRange(from, to, limit)
           a == [client |-> "calendar", from |-> from, to |-> to, limit |-> limit,
                 at |-> hour, range |-> range,
                 got |-> IF range = None THEN {} ELSE ReachingInto(range)]
           end == IF to = None THEN hour ELSE InZone(to, 0)
           begin == IF from = None THEN end - back * Day ELSE InZone(from, 0)
           p == Plain(a.client, a.from) /\ Plain(a.client, a.to)
           until == IF to = None THEN Now ELSE to
           days == IF Truthy(limit) THEN limit ELSE back
           since == IF from # None THEN from ELSE UnaskedFrom(until, days)
           start == InZone(since, 0)
<1>1. answered' = a /\ items' = items /\ back' = back
  BY DEF GetEvents, Answers
<1>2. end \in Int /\ begin \in Int
  BY GivenEnds, DaysAreInts DEF Dates
<1>3. /\ a.range = range /\ a.limit = limit
      /\ a.from = from /\ a.to = to /\ a.at = hour /\ a.client = "calendar"
  OBVIOUS
<1>4. begin \in Beginnings(a)
  BY DEF Beginnings, Ends, Moment, InZone
<1>5. end = Ends(a)
  BY DEF Ends, Moment, InZone
<1>6. range # None => a.got = ReachingInto(a.range)
  BY <1>3
<1>7. end = InZone(until, 0) /\ until \in Datetimes \cup {Now}
  BY NowIsUTC DEF Dates, Questions
<1>8. limit # None => limit \in Limits /\ limit * Day \in Nat /\ (limit = 0 => limit * Day = 0)
  BY DaysAreInts
<1>9. days * Day \in Nat
  BY DaysAreInts, <1>8 DEF Truthy
<1>10. from = None => since.zone = until.zone /\ start = end - days * Day
  <2> SUFFICES ASSUME from = None
               PROVE  since.zone = until.zone /\ start = end - days * Day
    OBVIOUS
  <2>1. since = Before(until, days * Day)
    BY DEF UnaskedFrom
  <2>2. /\ Before(until, days * Day).zone = until.zone
        /\ InZone(Before(until, days * Day), 0) = InZone(until, 0) - days * Day
    BY <1>7, <1>9, GivenTime DEF Dates
  <2> QED  BY <1>7, <2>1, <2>2
<1>11. from # None => since = from /\ start = begin
  OBVIOUS
<1>12. start \in Int
  BY <1>2, <1>9, <1>10, <1>11
<1>13. limit = None => days = back
  BY DEF Truthy
<1>14. ~Truthy(limit) => start = begin
  BY <1>10, <1>11
<1>15. \/ range = Everything /\ from = None /\ to = None /\ ~Truthy(limit)
       \/ limit = None /\ range = [from |-> start, to |-> end]
       \/ limit # None /\ Mixed(since, until) /\ range = None
       \/ /\ limit # None
          /\ range = [from |-> start, to |-> IF end <= start + limit * Day THEN end
                                             ELSE start + limit * Day]
  BY <1>7 DEF CalendarRange
<1>16. Mixed(since, until) => ~p
  <2> SUFFICES ASSUME p, Mixed(since, until)  PROVE  FALSE
    OBVIOUS
  <2>1. to # None => until.zone # None
    BY DEF Plain
  <2>2. to = None => until.zone # None
    BY NowIsUTC DEF Dates
  <2>3. since.zone # None
    BY <1>10, <1>11, <2>1, <2>2 DEF Plain
  <2> QED  BY <2>1, <2>2, <2>3 DEF Mixed
<1> HIDE DEF a, range, begin, end, p, until, days, since, start
<1>17. p = (Plain(a.client, a.from) /\ Plain(a.client, a.to))
  BY DEF p
<1>18. CASE range = Everything /\ from = None /\ to = None /\ ~Truthy(limit)
  <2>1. range.from \in Int /\ range.to \in Int /\ range # None
    BY <1>18, RangesAssumption DEF Everything
  <2>2. limit # None => limit = 0
    BY <1>18 DEF Truthy
  <2> QED  BY <1>1, <1>2, <1>3, <1>4, <1>5, <1>6, <1>17, <1>18, <2>1, <2>2, RightRange
<1>19. CASE limit = None /\ range = [from |-> start, to |-> end]
  <2>1. range.from = start /\ range.to = end
    BY <1>19
  <2>2. range # None
    BY <1>2, <1>12, <1>19, RangesAssumption
  <2>3. start = begin
    BY <1>14, <1>19 DEF Truthy
  <2> QED  BY <1>1, <1>2, <1>3, <1>4, <1>5, <1>6, <1>17, <1>19, <2>1, <2>2, <2>3, RightRange
<1>20. CASE limit # None /\ Mixed(since, until) /\ range = None
  BY <1>1, <1>2, <1>3, <1>4, <1>5, <1>16, <1>17, <1>20, RightRange
<1>21. CASE /\ limit # None
            /\ range = [from |-> start, to |-> IF end <= start + limit * Day THEN end
                                               ELSE start + limit * Day]
  <2> DEFINE stop == IF end <= start + limit * Day THEN end ELSE start + limit * Day
  <2>1. range.from = start /\ range.to = stop
    BY <1>21
  <2>2. stop \in Int /\ stop <= end /\ stop - start <= limit * Day
    BY <1>2, <1>8, <1>12, <1>21
  <2>3. range # None
    BY <1>12, <1>21, <2>2, RangesAssumption
  <2> HIDE DEF stop
  <2> QED  BY <1>1, <1>2, <1>3, <1>4, <1>5, <1>6, <1>12, <1>14, <1>17, <1>21, <2>1, <2>2,
              <2>3, RightRange
<1> QED  BY <1>15, <1>18, <1>19, <1>20, <1>21

\* What lies inside of the dates asked for is had, and nothing that lies outside, from all
\* four clients, whatever the time, the zones, the length of a day and the limit; a
\* question fails only if a limit meets a time with a zone and one without
\* (google_calendar.py:317, 323, google_fit.py, truelayer.py:247, monzo.py:294).
THEOREM RangesAreRight == RangesSpec => []RangesRight
<1>1. RangesInit => RangesInv
  BY RangesAssumption DEF RangesInit, RangesInv, Dates, RangesRight
<1>2. RangesInv /\ [RangesNext]_rangeVars => RangesInv'
  <2> SUFFICES ASSUME RangesInv, [RangesNext]_rangeVars  PROVE  RangesInv'
    OBVIOUS
  <2>1. Dates' /\ (answered' = None => RangesRight')
    <3>1. answered' = None => RangesRight'
      BY DEF RangesRight
    <3>2. CASE UNCHANGED rangeVars
      BY <3>1, <3>2 DEF RangesInv, Dates, rangeVars
    <3>3. CASE HourPasses \/ CreateEvent \/ DeleteEvent
      BY <3>1, <3>3 DEF RangesInv, Dates, HourPasses, CreateEvent, DeleteEvent
    <3>4. CASE \E from, to \in Questions :
                  \/ \E limit \in Limits \cup {None} : GetEvents(from, to, limit)
                  \/ GetTransactions(from, to)
                  \/ ListTransactions(from, to) \/ SumDataPoints(from, to)
      BY <3>1, <3>4 DEF RangesInv, Dates, GetEvents, GetTransactions, ListTransactions,
                        SumDataPoints, Answers
    <3> QED  BY <3>2, <3>3, <3>4 DEF RangesNext, Questions
  <2>2. CASE UNCHANGED rangeVars
    BY <2>1, <2>2 DEF RangesInv, RangesRight, rangeVars, Beginnings, Ends
  <2>3. CASE HourPasses \/ CreateEvent \/ DeleteEvent
    BY <2>1, <2>3 DEF RangesInv, HourPasses, CreateEvent, DeleteEvent
  <2>4. CASE \E from, to \in Questions :
                \/ \E limit \in Limits \cup {None} : GetEvents(from, to, limit)
                \/ GetTransactions(from, to)
                \/ ListTransactions(from, to) \/ SumDataPoints(from, to)
    BY <2>1, <2>4, EventsRight, TransactionsRight, ListRight, SumRight DEF RangesInv
  <2> QED  BY <2>2, <2>3, <2>4 DEF RangesNext, Questions
<1>3. RangesInv => RangesRight
  BY DEF RangesInv
<1> QED  BY <1>1, <1>2, <1>3, PTL DEF RangesSpec

-----------------------------------------------------------------------------
(* PagedLists: the pages of a list that changes. *)

\* Strictly from the newest to the oldest.
Falling(s) == \A p, q \in DOMAIN s : p < q => s[p] > s[q]

ListInv ==
    /\ way \in Ways
    /\ newest \in Nat
    /\ listing \in Seq(1..newest) /\ Falling(listing)
    /\ disturbed \in BOOLEAN

\* An item is on the pages from a place on.
AheadIn(list, i, place) ==
    \E p \in DOMAIN list : list[p] = i /\ (IF way.by = "token" THEN i < place ELSE p > place)

Ahead(i, place) == AheadIn(listing, i, place)

\* What was due and is not there yet is still to come, and is older than what is.
ToCome(due, got, next) ==
    \A i \in due : i >= way.since /\ i \notin ToSet(got) =>
        /\ \A j \in ToSet(got) : i < j
        /\ next # None /\ Ahead(i, next)

\* What was fetched so far.
GotRight(got) ==
    /\ got \in Seq(Nat) /\ Len(got) <= way.limit
    /\ \A i \in ToSet(got) : i >= way.since

CallRight(c) ==
    /\ c = [got |-> c.got, next |-> c.next]
    /\ GotRight(c.got)
    /\ c.next \in Nat \cup {None}

CallInv ==
    call # None =>
        /\ CallRight(call)
        /\ ~disturbed => ToCome(throughout, call.got, call.next)

PagesInv == ListInv /\ CallInv /\ PagesComplete

-----------------------------------------------------------------------------
\* A set of numbers has a least one, from the order of the numbers being well-founded.
LEMMA LeastNumber ==
    ASSUME NEW S \in SUBSET Nat, S # {}
    PROVE  \E m \in S : \A k \in S : m <= k
<1> DEFINE R == OpToRel(<, Nat)
<1>1. IsWellFoundedOn(R, Nat)
  BY NatLessThanWellFounded
<1>2. \A x, y \in Nat : x < y => <<x, y>> \in R
  BY DEF OpToRel
<1> HIDE DEF R
<1>3. PICK m \in S : \A y \in S : ~(<<y, m>> \in R)
  BY <1>1, WFMin
<1>4. \A k \in S : k \in Nat /\ m \in Nat /\ ~(k < m)
  BY <1>2, <1>3
<1>5. \A k \in S : m <= k
  BY <1>4
<1> QED  BY <1>5

LEMMA Greatest ==
    ASSUME NEW n \in Nat, NEW S \in SUBSET (0..n), 0 \in S
    PROVE  Max(S) \in S /\ \A x \in S : x <= Max(S)
<1> DEFINE T == {n - x : x \in S}
<1>1. T \in SUBSET Nat /\ T # {}
  OBVIOUS
<1>2. PICK m \in T : \A k \in T : m <= k
  BY <1>1, LeastNumber
<1>3. PICK g \in S : m = n - g
  OBVIOUS
<1>4. \A x \in S : g >= x
  <2> TAKE x \in S
  <2>1. n - x \in T /\ n - g <= n - x
    BY <1>2, <1>3
  <2> QED  BY <2>1
<1>5. Max(S) \in S /\ \A x \in S : Max(S) >= x
  BY <1>4 DEF Max
<1> QED  BY <1>5

LEMMA Least ==
    ASSUME NEW m \in Int, NEW n \in Int
    PROVE  /\ Min({m, n}) = IF m <= n THEN m ELSE n
<1>1. \E x \in {m, n} : \A y \in {m, n} : x <= y
  OBVIOUS
<1> QED  BY <1>1 DEF Min

LEMMA ItemsOf ==
    ASSUME NEW S, NEW s \in Seq(S)
    PROVE  /\ Len(s) \in Nat /\ DOMAIN s = 1..Len(s)
           /\ \A p \in 1..Len(s) : s[p] \in S
           /\ ToSet(s) = {s[p] : p \in 1..Len(s)}
BY DEF ToSet

\* What is between two places.
Cut(s, m, n) == SubSeq(s, m, n)

LEMMA CutOut ==
    ASSUME NEW s \in Seq(Nat), NEW m \in 1..(Len(s) + 1), NEW n \in 0..Len(s)
    PROVE  /\ Cut(s, m, n) \in Seq(Nat)
           /\ Len(Cut(s, m, n)) \in Nat
           /\ Len(Cut(s, m, n)) = IF m <= n THEN n - m + 1 ELSE 0
           /\ DOMAIN Cut(s, m, n) = 1..Len(Cut(s, m, n))
           /\ \A p \in 1..Len(Cut(s, m, n)) : Cut(s, m, n)[p] = s[m - 1 + p]
<1> DEFINE t == SubSeq(s, m, n)
<1>1. /\ t \in Seq(Nat) /\ Len(t) = IF m <= n THEN n - m + 1 ELSE 0
      /\ \A p \in 1..Len(t) : t[p] = s[m - 1 + p]
  <2>1. t \in Seq(Nat)
    OBVIOUS
  <2>2. Len(t) = IF m <= n THEN n - m + 1 ELSE 0
    OBVIOUS
  <2>3. \A p \in 1..Len(t) : t[p] = s[m - 1 + p]
    BY <2>2
  <2> QED  BY <2>1, <2>2, <2>3
<1>2. Cut(s, m, n) = t
  BY DEF Cut
<1> HIDE DEF t
<1>3. Len(t) \in Nat /\ DOMAIN t = 1..Len(t)
  BY <1>1
<1> QED  BY <1>1, <1>2, <1>3

LEMMA CutNothing ==
    ASSUME NEW s \in Seq(Nat), NEW m \in Nat, NEW n \in Nat, m > n
    PROVE  Cut(s, m, n) = <<>>
BY DEF Cut

\* The items a token is behind.
LEMMA PassedRight ==
    ASSUME ListInv, NEW place \in Nat
    PROVE  /\ Passed(place) \in Nat
           /\ \A i : Ahead(i, place) <=>
                \E p \in DOMAIN listing : listing[p] = i /\ p > Passed(place)
<1>1. /\ DOMAIN listing = 1..Len(listing) /\ Len(listing) \in Nat
      /\ \A p \in 1..Len(listing) : listing[p] \in Nat
  BY DEF ListInv
<1>2. CASE way.by # "token"
  BY <1>1, <1>2 DEF Passed, Ahead, AheadIn
<1>3. CASE way.by = "token"
  <2> DEFINE S == {0} \cup {p \in DOMAIN listing : listing[p] >= place}
             m == Max(S)
  <2>1. S \in SUBSET (0..Len(listing)) /\ 0 \in S
    BY <1>1
  <2>2. m \in S /\ \A x \in S : x <= m
    BY <1>1, <2>1, Greatest
  <2>3. Passed(place) = m
    BY <1>3 DEF Passed
  <2> HIDE DEF m
  <2>4. m \in Nat
    BY <1>1, <2>2
  <2>5. \A p \in DOMAIN listing : p > m <=> listing[p] < place
    <3> TAKE p \in DOMAIN listing
    <3>1. CASE listing[p] >= place
      <4>1. p \in S
        BY <3>1
      <4> QED  BY <1>1, <2>2, <2>4, <3>1, <4>1
    <3>2. CASE listing[p] < place
      <4>1. m = 0 \/ (m \in 1..Len(listing) /\ listing[m] >= place)
        BY <1>1, <2>2
      <4>2. CASE m = 0
        BY <1>1, <3>2, <4>2
      <4>3. CASE m \in 1..Len(listing) /\ listing[m] >= place
        <5>1. p # m
          BY <1>1, <3>2, <4>3
        <5>2. p < m => listing[p] > listing[m]
          BY <1>1, <4>3 DEF ListInv, Falling
        <5> QED  BY <1>1, <3>2, <4>3, <5>1, <5>2
      <4> QED  BY <4>1, <4>2, <4>3
    <3> QED  BY <1>1, <3>1, <3>2
  <2> QED  BY <1>3, <2>3, <2>4, <2>5 DEF Ahead, AheadIn
<1> QED  BY <1>2, <1>3

\* What limit_func lets through of a page that is in order.
LEMMA UntilRight ==
    ASSUME ListInv, NEW page \in Seq(Nat), Falling(page)
    PROVE  /\ Until(page) \in Seq(Nat) /\ Len(Until(page)) <= Len(page)
           /\ \A p \in 1..Len(Until(page)) :
                Until(page)[p] = page[p] /\ page[p] >= way.since
           /\ \A p \in (Len(Until(page)) + 1)..Len(page) : page[p] < way.since
<1> DEFINE S == {n \in 0..Len(page) : \A p \in 1..n : page[p] >= way.since}
           m == Max(S)
<1>1. way.since \in Nat /\ Len(page) \in Nat /\ \A p \in 1..Len(page) : page[p] \in Nat
  BY PagesAssumption DEF ListInv
<1>2. S \in SUBSET (0..Len(page)) /\ 0 \in S
  BY <1>1
<1>3. m \in S /\ \A x \in S : x <= m
  BY <1>1, <1>2, Greatest
<1>4. Until(page) = SubSeq(page, 1, m)
  BY DEF Until
<1> HIDE DEF m
<1>5. m \in 0..Len(page) /\ \A p \in 1..m : page[p] >= way.since
  BY <1>3
<1>6. /\ Until(page) \in Seq(Nat) /\ Len(Until(page)) = m
      /\ \A p \in 1..m : Until(page)[p] = page[p]
  BY <1>1, <1>4, <1>5
<1>7. m < Len(page) => page[m + 1] < way.since
  <2> SUFFICES ASSUME m < Len(page), ~(page[m + 1] < way.since)  PROVE  FALSE
    OBVIOUS
  <2>1. \A p \in 1..(m + 1) : page[p] >= way.since
    BY <1>1, <1>5
  <2>2. m + 1 \in S
    BY <1>5, <2>1
  <2> QED  BY <1>3, <1>5, <2>2
<1>8. \A p \in (m + 1)..Len(page) : page[p] < way.since
  <2> TAKE p \in (m + 1)..Len(page)
  <2>1. p > m + 1 => page[m + 1] > page[p]
    BY <1>1, <1>5 DEF Falling
  <2> QED  BY <1>1, <1>5, <1>7, <2>1
<1> QED  BY <1>5, <1>6, <1>8

\* No more is asked for than is needed.
LEMMA RoomRight ==
    ASSUME way \in Ways, NEW got \in Seq(Nat), Len(got) <= way.limit
    PROVE  /\ Room(got) \in Nat /\ Len(got) + Room(got) <= way.limit
           /\ Len(got) < way.limit => Room(got) > 0
<1>1. way.limit \in Nat /\ PageSize \in Nat /\ PageSize > 0 /\ Len(got) \in Nat
  BY PagesAssumption
<1>2. way.limit - Len(got) \in Nat
  BY <1>1
<1>3. Room(got) = IF way.limit - Len(got) <= PageSize THEN way.limit - Len(got) ELSE PageSize
  BY <1>1, <1>2, Least DEF Room
<1>4. CASE way.limit - Len(got) <= PageSize
  BY <1>1, <1>2, <1>3, <1>4
<1>5. CASE ~(way.limit - Len(got) <= PageSize)
  BY <1>1, <1>2, <1>3, <1>5
<1> QED  BY <1>4, <1>5

LEMMA NoItems ==
    <<>> \in Seq(Nat) /\ Len(<<>>) = 0 /\ DOMAIN <<>> = {}
<1>1. <<>> \in Seq(Nat) /\ Len(<<>>) = 0
  OBVIOUS
<1>2. DOMAIN <<>> = 1..Len(<<>>)
  OBVIOUS
<1> QED  BY <1>1, <1>2

LEMMA PageCut ==
    ASSUME NEW list \in Seq(Nat), Falling(list), NEW passed \in Nat, NEW room \in Nat,
           NEW end \in 0..Len(list),
           passed + room < Len(list) => end = passed + room,
           passed + room >= Len(list) => end = Len(list),
           NEW page, page = Cut(list, passed + 1, end)
    PROVE  /\ page \in Seq(Nat) /\ Len(page) \in 0..room /\ Falling(page)
           /\ \A p \in 1..Len(page) : page[p] = list[passed + p] /\ passed + p \in 1..Len(list)
           /\ passed + room < Len(list) => Len(page) = room
           /\ passed + room >= Len(list) => passed + Len(page) >= Len(list)
<1>1. Len(list) \in Nat /\ end \in Nat /\ end <= Len(list)
  OBVIOUS
<1>2. CASE passed <= Len(list)
  <2>1. passed + 1 \in 1..(Len(list) + 1)
    BY <1>1, <1>2
  <2>2. /\ page \in Seq(Nat)
        /\ Len(page) = IF passed + 1 <= end THEN end - (passed + 1) + 1 ELSE 0
        /\ \A p \in 1..Len(page) : page[p] = list[(passed + 1) - 1 + p]
    BY <2>1, CutOut
  <2>3. Len(page) \in Nat /\ Len(page) = IF passed + 1 <= end THEN end - passed ELSE 0
    BY <1>1, <2>2
  <2>4. \A p \in 1..Len(page) : page[p] = list[passed + p] /\ passed + p \in 1..Len(list)
    <3> TAKE p \in 1..Len(page)
    <3>1. page[p] = list[(passed + 1) - 1 + p]
      BY <2>2
    <3>2. p \in Nat /\ (passed + 1) - 1 + p = passed + p
      BY <2>3
    <3>3. passed + p \in 1..Len(list)
      BY <1>1, <2>3
    <3> QED  BY <3>1, <3>2, <3>3
  <2>5. Falling(page)
    <3>1. DOMAIN page = 1..Len(page)
      BY <2>1, CutOut
    <3>2. \A p, q \in 1..Len(list) : p < q => list[p] > list[q]
      BY DEF Falling
    <3>3. \A p, q \in 1..Len(page) : p < q => page[p] > page[q]
      <4> TAKE p, q \in 1..Len(page)
      <4>1. p \in Nat /\ q \in Nat
        BY <2>3
      <4>2. /\ page[p] = list[passed + p] /\ passed + p \in 1..Len(list)
            /\ page[q] = list[passed + q] /\ passed + q \in 1..Len(list)
        BY <2>4
      <4>3. p < q => passed + p < passed + q
        BY <4>1
      <4> QED  BY <3>2, <4>2, <4>3
    <3> QED  BY <3>1, <3>3 DEF Falling
  <2>6. Len(page) \in 0..room
    BY <1>1, <1>2, <2>3
  <2>7. /\ passed + room < Len(list) => Len(page) = room
        /\ passed + room >= Len(list) => passed + Len(page) >= Len(list)
    BY <1>1, <1>2, <2>3
  <2> QED  BY <2>2, <2>4, <2>5, <2>6, <2>7
<1>3. CASE passed > Len(list)
  <2>1. page = <<>>
    <3>1. passed + 1 \in Nat /\ passed + 1 > end
      BY <1>1, <1>3
    <3> QED  BY <1>1, <3>1, CutNothing
  <2>2. page \in Seq(Nat) /\ Len(page) = 0 /\ DOMAIN page = {}
    BY <2>1, NoItems
  <2>3. Falling(page)
    BY <2>2 DEF Falling
  <2> QED  BY <1>1, <1>3, <2>2, <2>3
<1> QED  BY <1>1, <1>2, <1>3

PageFrom(passed, room) == SubSeq(listing, passed + 1, Min({passed + room, Len(listing)}))

PageIs(page, passed, room) ==
    /\ page \in Seq(Nat) /\ Len(page) \in 0..room /\ Falling(page)
    /\ \A p \in 1..Len(page) :
         page[p] = listing[passed + p] /\ passed + p \in 1..Len(listing)
    /\ passed + room < Len(listing) => Len(page) = room
    /\ passed + room >= Len(listing) => passed + Len(page) >= Len(listing)

LEMMA PageRight ==
    ASSUME ListInv, NEW passed \in Nat, NEW room \in Nat, NEW page,
           page = PageFrom(passed, room)
    PROVE  PageIs(page, passed, room)
<1>1. listing \in Seq(Nat) /\ Len(listing) \in Nat /\ Falling(listing)
  BY DEF ListInv
<1>2. PICK end : end = Min({passed + room, Len(listing)})
  OBVIOUS
<1>3. end = IF passed + room <= Len(listing) THEN passed + room ELSE Len(listing)
  BY <1>1, <1>2, Least
<1>4. page = Cut(listing, passed + 1, end)
  BY <1>2 DEF PageFrom, Cut
<1>5. end \in 0..Len(listing)
  BY <1>1, <1>3
<1>6. /\ passed + room < Len(listing) => end = passed + room
      /\ passed + room >= Len(listing) => end = Len(listing)
  BY <1>1, <1>3
<1> QED  BY <1>1, <1>4, <1>5, <1>6, PageCut DEF PageIs

LEMMA BothParts ==
    ASSUME NEW s \in Seq(Nat), NEW t \in Seq(Nat)
    PROVE  /\ s \o t \in Seq(Nat) /\ Len(s \o t) = Len(s) + Len(t)
           /\ ToSet(s \o t) = ToSet(s) \cup ToSet(t)
<1>1. /\ Len(s) \in Nat /\ Len(t) \in Nat
      /\ s \o t \in Seq(Nat) /\ Len(s \o t) = Len(s) + Len(t)
      /\ \A p \in 1..Len(s) : (s \o t)[p] = s[p]
      /\ \A p \in (Len(s) + 1)..(Len(s) + Len(t)) : (s \o t)[p] = t[p - Len(s)]
  OBVIOUS
<1> DEFINE u == s \o t
<1>2. /\ ToSet(s) = {s[p] : p \in 1..Len(s)} /\ ToSet(t) = {t[p] : p \in 1..Len(t)}
      /\ ToSet(u) = {u[p] : p \in 1..(Len(s) + Len(t))}
  <2>1. DOMAIN s = 1..Len(s) /\ DOMAIN t = 1..Len(t) /\ DOMAIN u = 1..(Len(s) + Len(t))
    BY <1>1
  <2> HIDE DEF u
  <2> QED  BY <2>1 DEF ToSet
<1>3. /\ \A p \in 1..Len(s) : u[p] = s[p]
      /\ \A p \in (Len(s) + 1)..(Len(s) + Len(t)) : u[p] = t[p - Len(s)]
  BY <1>1
<1>4. Len(s) \in Nat /\ Len(t) \in Nat
  BY <1>1
<1> HIDE DEF u
<1>5. ASSUME NEW p \in 1..(Len(s) + Len(t))  PROVE u[p] \in ToSet(s) \cup ToSet(t)
  <2>1. CASE p <= Len(s)
    BY <1>2, <1>3, <1>4, <2>1
  <2>2. CASE p > Len(s)
    <3>1. p - Len(s) \in 1..Len(t) /\ u[p] = t[p - Len(s)]
      BY <1>3, <1>4, <2>2
    <3> QED  BY <1>2, <3>1
  <2> QED  BY <1>4, <2>1, <2>2
<1>6. ASSUME NEW p \in 1..Len(s)  PROVE s[p] \in ToSet(u)
  <2>1. p \in 1..(Len(s) + Len(t)) /\ u[p] = s[p]
    BY <1>3, <1>4
  <2> QED  BY <1>2, <2>1
<1>7. ASSUME NEW p \in 1..Len(t)  PROVE t[p] \in ToSet(u)
  <2>1. /\ Len(s) + p \in (Len(s) + 1)..(Len(s) + Len(t))
        /\ Len(s) + p \in 1..(Len(s) + Len(t)) /\ (Len(s) + p) - Len(s) = p
    BY <1>4
  <2>2. u[Len(s) + p] = t[p]
    BY <1>3, <2>1
  <2> QED  BY <1>2, <2>1, <2>2
<1>8. ToSet(u) = ToSet(s) \cup ToSet(t)
  BY <1>2, <1>5, <1>6, <1>7
<1> QED  BY <1>1, <1>8 DEF u

\* A page more: it takes what is next of what is due, or else it is the last.
LEMMA ExtendedRight ==
    ASSUME ListInv, NEW got, GotRight(got), NEW place \in Nat,
           way.by = "token" => Len(got) < way.limit,
           NEW due, NEW c, c = Extended(got, place)
    PROVE  /\ CallRight(c)
           /\ ToCome(due, got, place) => ToCome(due, c.got, c.next)
<1>1. /\ got \in Seq(Nat) /\ Len(got) \in Nat /\ Len(got) <= way.limit /\ way \in Ways
      /\ \A i \in ToSet(got) : i >= way.since
      /\ way.limit \in Nat /\ way.since \in Nat
  BY PagesAssumption DEF GotRight, ListInv
<1>2. PICK passed \in Nat :
        /\ passed = Passed(place)
        /\ way.by # "token" => passed = place
        /\ \A i : Ahead(i, place) => \E p \in DOMAIN listing : listing[p] = i /\ p > passed
  <2>1. way.by # "token" => Passed(place) = place
    BY DEF Passed
  <2> QED  BY <2>1, PassedRight
<1>3. PICK room \in Nat :
        /\ room = Room(got) /\ Len(got) + room <= way.limit
        /\ way.by = "token" => room > 0
  BY <1>1, RoomRight
<1>4. PICK len \in Nat :
        /\ len = Len(listing) /\ DOMAIN listing = 1..len
        /\ \A p \in 1..len : listing[p] \in Nat
        /\ \A p, q \in 1..len : p < q => listing[p] > listing[q]
  <2>1. Len(listing) \in Nat /\ DOMAIN listing = 1..Len(listing)
    BY DEF ListInv
  <2>2. \A p \in 1..Len(listing) : listing[p] \in Nat
    BY DEF ListInv
  <2>3. \A p, q \in 1..Len(listing) : p < q => listing[p] > listing[q]
    BY <2>1 DEF ListInv, Falling
  <2> QED  BY <2>1, <2>2, <2>3
<1>5. PICK page : page = PageFrom(passed, room)
  OBVIOUS
<1>6. /\ page \in Seq(Nat) /\ Len(page) \in 0..room /\ Falling(page)
      /\ \A p \in 1..Len(page) : page[p] = listing[passed + p] /\ passed + p \in 1..len
      /\ passed + room < len => Len(page) = room
      /\ passed + room >= len => passed + Len(page) >= len
  <2>1. len = Len(listing)
    BY <1>4
  <2>2. /\ page \in Seq(Nat) /\ Len(page) \in 0..room /\ Falling(page)
        /\ \A p \in 1..Len(page) :
             page[p] = listing[passed + p] /\ passed + p \in 1..Len(listing)
        /\ passed + room < Len(listing) => Len(page) = room
        /\ passed + room >= Len(listing) => passed + Len(page) >= Len(listing)
    <3>1. PageIs(page, passed, room)
      BY <1>5, PageRight
    <3> QED  BY <3>1 DEF PageIs
  <2> QED  BY <2>1, <2>2
<1>7. PICK taken :
        /\ taken = Until(page) /\ taken \in Seq(Nat)
        /\ Len(taken) \in Nat /\ Len(taken) <= Len(page)
        /\ \A p \in 1..Len(taken) : taken[p] = page[p] /\ page[p] >= way.since
        /\ \A p \in (Len(taken) + 1)..Len(page) : page[p] < way.since
        /\ ToSet(taken) = {taken[p] : p \in 1..Len(taken)}
  BY <1>6, UntilRight, ItemsOf
<1>8. PICK ends \in BOOLEAN : ends = (len <= passed + room \/ Len(taken) < Len(page))
  OBVIOUS
<1>9. c = [got |-> got \o taken,
           next |-> IF ends THEN None
                    ELSE IF way.by = "token" THEN Last(page) ELSE place + Len(page)]
  BY <1>2, <1>3, <1>4, <1>5, <1>7, <1>8 DEF Extended, PageFrom
<1>10. /\ got \o taken \in Seq(Nat) /\ Len(got \o taken) = Len(got) + Len(taken)
       /\ ToSet(got \o taken) = ToSet(got) \cup ToSet(taken)
  BY <1>1, <1>7, BothParts
<1>11. ~ends => Len(page) = room /\ passed + room < len
  <2> SUFFICES ASSUME ~ends  PROVE  Len(page) = room /\ passed + room < len
    OBVIOUS
  <2>1. ~(len <= passed + room)
    BY <1>8
  <2>2. passed + room < len
    BY <2>1
  <2> QED  BY <1>6, <2>2
<1>12. c.got = got \o taken
  BY <1>9
<1>13. /\ ends => c.next = None
       /\ ~ends /\ way.by = "token" => /\ passed + Len(page) \in 1..len
                                       /\ c.next = listing[passed + Len(page)]
       /\ ~ends /\ way.by # "token" => c.next = passed + Len(page)
  <2>1. /\ ends => c.next = None
        /\ ~ends /\ way.by = "token" => c.next = Last(page)
        /\ ~ends /\ way.by # "token" => c.next = place + Len(page)
    BY <1>9
  <2>2. ~ends /\ way.by = "token" =>
            Len(page) \in 1..Len(page) /\ Last(page) = page[Len(page)]
    BY <1>3, <1>6, <1>11 DEF Last
  <2> QED  BY <1>2, <1>6, <2>1, <2>2
<1>14. GotRight(got \o taken)
  <2>1. Len(got) + Len(taken) <= way.limit
    BY <1>1, <1>3, <1>6, <1>7
  <2>2. \A i \in ToSet(taken) : i >= way.since
    BY <1>7
  <2> QED  BY <1>1, <1>10, <2>1, <2>2 DEF GotRight
<1>15. CallRight(c)
  <2>1. c.next \in Nat \cup {None}
    BY <1>4, <1>6, <1>8, <1>13
  <2>2. c = [got |-> c.got, next |-> c.next]
    BY <1>9
  <2> QED  BY <1>12, <1>14, <2>1, <2>2 DEF CallRight
<1>17. ASSUME ToCome(due, got, place), NEW i \in due, i >= way.since,
              i \notin ToSet(got \o taken)
       PROVE  /\ \A j \in ToSet(got \o taken) : i < j
              /\ c.next # None /\ Ahead(i, c.next)
  <2>1. i \notin ToSet(got) /\ i \notin ToSet(taken)
    BY <1>10, <1>17
  <2>2. (\A j \in ToSet(got) : i < j) /\ Ahead(i, place)
    BY <1>17, <2>1 DEF ToCome
  <2>3. PICK p \in 1..len : listing[p] = i /\ p > passed
    BY <1>2, <1>4, <2>2
  <2>4. i \in Nat
    BY <1>4, <2>3
  <2>5. p > passed + Len(page)
    <3> SUFFICES ASSUME p <= passed + Len(page)  PROVE  FALSE
      BY <1>6, <2>3
    <3>1. p - passed \in 1..Len(page) /\ passed + (p - passed) = p
      BY <1>6, <2>3
    <3>2. page[p - passed] = i
      BY <1>6, <2>3, <3>1
    <3>3. ~(p - passed \in (Len(taken) + 1)..Len(page))
      <4>1. i >= way.since
        BY <1>17
      <4>2. p - passed \in (Len(taken) + 1)..Len(page) => i < way.since
        BY <1>7, <3>2
      <4> QED  BY <1>1, <2>4, <4>1, <4>2
    <3>4. p - passed \in 1..Len(taken)
      BY <1>6, <1>7, <3>1, <3>3
    <3>5. taken[p - passed] = i
      BY <1>7, <3>2, <3>4
    <3> QED  BY <1>7, <2>1, <3>4, <3>5
  <2>6. ~ends
    <3>1. ~(len <= passed + room)
      BY <1>4, <1>6, <2>3, <2>5
    <3>2. ~(Len(taken) < Len(page))
      <4> SUFFICES ASSUME Len(taken) < Len(page)  PROVE  FALSE
        OBVIOUS
      <4>1. Len(page) \in (Len(taken) + 1)..Len(page) /\ Len(page) \in 1..Len(page)
        BY <1>6, <1>7
      <4>2. page[Len(page)] < way.since
        BY <1>7, <4>1
      <4>3. page[Len(page)] = listing[passed + Len(page)] /\ passed + Len(page) \in 1..len
        BY <1>6, <4>1
      <4>4. listing[passed + Len(page)] > listing[p]
        BY <1>4, <1>6, <2>3, <2>5, <4>3
      <4>5. listing[p] < way.since /\ listing[p] = i
        BY <1>1, <1>4, <2>3, <4>2, <4>3, <4>4
      <4> QED  BY <1>1, <1>17, <2>4, <4>5
    <3> QED  BY <1>6, <1>7, <1>8, <3>1, <3>2
  <2>7. \A q \in 1..Len(taken) : i < taken[q]
    <3> TAKE q \in 1..Len(taken)
    <3>1. q \in 1..Len(page)
      BY <1>6, <1>7
    <3>2. taken[q] = listing[passed + q] /\ passed + q \in 1..len
      BY <1>6, <1>7, <3>1
    <3>3. passed + q < p
      BY <1>6, <2>5, <3>1
    <3> QED  BY <1>4, <2>3, <3>2, <3>3
  <2>8. \A j \in ToSet(got \o taken) : i < j
    BY <1>7, <1>10, <2>2, <2>7
  <2>9. CASE way.by = "token"
    <3>1. c.next = listing[passed + Len(page)] /\ passed + Len(page) \in 1..len
      BY <1>13, <2>6, <2>9
    <3>2. c.next \in Nat /\ i < c.next
      BY <1>4, <2>3, <2>5, <3>1
    <3>3. c.next # None
      BY <3>2, PagesAssumption
    <3> QED  BY <1>4, <2>3, <2>8, <2>9, <3>2, <3>3 DEF Ahead, AheadIn
  <2>10. CASE way.by # "token"
    <3>1. c.next = passed + Len(page) /\ c.next \in Nat
      BY <1>6, <1>13, <2>6, <2>10
    <3>2. c.next # None
      BY <3>1, PagesAssumption
    <3>3. p > c.next
      BY <2>5, <3>1
    <3> QED  BY <1>4, <2>3, <2>8, <2>10, <3>2, <3>3 DEF Ahead, AheadIn
  <2> QED  BY <2>9, <2>10
<1>18. ToCome(due, got, place) => ToCome(due, c.got, c.next)
  BY <1>12, <1>17 DEF ToCome
<1> QED  BY <1>15, <1>18

-----------------------------------------------------------------------------
LEMMA ListStays ==
    ASSUME PagesInv, UNCHANGED <<way, listing, newest>>, disturbed' \in BOOLEAN
    PROVE  ListInv'
BY DEF PagesInv, ListInv, Falling

LEMMA ResultStays ==
    ASSUME PagesInv, UNCHANGED <<way, result>>
    PROVE  PagesComplete'
BY DEF PagesInv, PagesComplete

LEMMA CallStays ==
    ASSUME PagesInv, UNCHANGED <<way, listing, call, throughout, disturbed>>
    PROVE  CallInv'
BY DEF PagesInv, CallInv, CallRight, GotRight, ToCome, Ahead, AheadIn

\* What is right of a call stays so while the list does.
LEMMA CallBecomes ==
    ASSUME UNCHANGED <<way, listing>>, NEW c, call' = c, CallRight(c),
           ~disturbed' => ToCome(throughout', c.got, c.next)
    PROVE  CallInv'
BY DEF CallInv, CallRight, GotRight, ToCome, Ahead, AheadIn

\* Before the first request everything is to come.
LEMMA StartRight ==
    ASSUME ListInv
    PROVE  /\ Start \in Nat /\ GotRight(<<>>)
           /\ ToCome(ToSet(listing), <<>>, Start)
<1>1. /\ newest \in Nat /\ way \in Ways /\ way.limit \in Nat /\ None \notin Nat
  BY PagesAssumption DEF ListInv
<1>2. Start \in Nat /\ Start # None
  BY <1>1 DEF Start
<1>3. ToSet(<<>>) = {}
  BY NoItems DEF ToSet
<1>4. GotRight(<<>>)
  BY <1>1, <1>3, NoItems DEF GotRight
<1>5. ASSUME NEW i \in ToSet(listing)  PROVE Ahead(i, Start)
  <2>1. /\ ToSet(listing) = {listing[p] : p \in 1..Len(listing)}
        /\ DOMAIN listing = 1..Len(listing)
        /\ \A p \in 1..Len(listing) : listing[p] \in 1..newest
    BY ItemsOf DEF ListInv
  <2>2. PICK p \in 1..Len(listing) : listing[p] = i
    BY <1>5, <2>1
  <2>3. p > 0 /\ i < newest + 1
    BY <1>1, <2>1, <2>2
  <2> QED  BY <2>1, <2>2, <2>3 DEF Ahead, AheadIn, Start
<1> QED  BY <1>2, <1>3, <1>4, <1>5 DEF ToCome

LEMMA InitPages == PagesInit => PagesInv
<1> SUFFICES ASSUME PagesInit  PROVE PagesInv
  OBVIOUS
<1>1. newest \in Nat /\ way \in Ways /\ disturbed = FALSE
  BY PagesAssumption DEF PagesInit
<1>2. PICK n \in Nat : n = newest
  BY <1>1
<1>3. listing = [p \in 1..n |-> n + 1 - p]
  BY <1>2 DEF PagesInit
<1>4. /\ DOMAIN listing = 1..n
      /\ \A p \in 1..n : listing[p] = n + 1 - p /\ listing[p] \in 1..n
  BY <1>3
<1>5. listing \in Seq(1..n)
  BY <1>3, <1>4
<1>6. Falling(listing)
  BY <1>4 DEF Falling
<1>7. CallInv /\ PagesComplete
  BY DEF PagesInit, CallInv, PagesComplete
<1> QED  BY <1>1, <1>2, <1>5, <1>6, <1>7 DEF PagesInv, ListInv

LEMMA BeginPages == PagesInv /\ Begin => PagesInv'
<1> SUFFICES ASSUME PagesInv, Begin  PROVE PagesInv'
  OBVIOUS
<1>1. ListInv' /\ PagesComplete'
  BY ListStays, ResultStays DEF Begin
<1>2. ListInv
  BY DEF PagesInv
<1>3. /\ Start \in Nat /\ GotRight(<<>>)
      /\ ToCome(ToSet(listing), <<>>, Start)
  BY <1>2, StartRight
<1>4. PICK c : c = call'
  OBVIOUS
<1>5. CallRight(c) /\ ToCome(ToSet(listing), c.got, c.next)
  <2>1. CASE way.head
    <3>1. c = Extended(<<>>, Start)
      BY <1>4, <2>1 DEF Begin
    <3>2. way.by # "token"
      BY <1>2, <2>1, PagesAssumption DEF ListInv
    <3> QED  BY <1>2, <1>3, <3>1, <3>2, ExtendedRight
  <2>2. CASE ~way.head
    <3>1. c = [got |-> <<>>, next |-> Start]
      BY <1>4, <2>2 DEF Begin
    <3> QED  BY <1>3, <3>1 DEF CallRight
  <2> QED  BY <2>1, <2>2
<1>6. CallInv'
  BY <1>4, <1>5, CallBecomes DEF Begin
<1> QED  BY <1>1, <1>6 DEF PagesInv

LEMMA FetchPages == PagesInv /\ FetchPage => PagesInv'
<1> SUFFICES ASSUME PagesInv, FetchPage  PROVE PagesInv'
  OBVIOUS
<1>1. ListInv /\ CallInv /\ call # None /\ disturbed \in BOOLEAN
  BY DEF PagesInv, FetchPage, Asking, ListInv
<1>2. ListInv' /\ PagesComplete'
  BY <1>1, ListStays, ResultStays DEF FetchPage, pagesHistory
<1>3. /\ GotRight(call.got) /\ call.next \in Nat /\ Len(call.got) < way.limit
      /\ ~disturbed => ToCome(throughout, call.got, call.next)
  BY <1>1 DEF FetchPage, Asking, CallInv, CallRight
<1>4. PICK c : c = Extended(call.got, call.next)
  OBVIOUS
<1>5. CallRight(c) /\ (~disturbed => ToCome(throughout, c.got, c.next))
  BY <1>1, <1>3, <1>4, ExtendedRight
<1>6. CallInv'
  BY <1>4, <1>5, CallBecomes DEF FetchPage, pagesHistory
<1> QED  BY <1>2, <1>6 DEF PagesInv

LEMMA EmptyPages == PagesInv /\ EmptyAnswer => PagesInv'
<1> SUFFICES ASSUME PagesInv, EmptyAnswer  PROVE PagesInv'
  OBVIOUS
<1>1. CallInv /\ call # None
  BY DEF PagesInv, EmptyAnswer, Asking
<1>2. ListInv' /\ PagesComplete'
  BY ListStays, ResultStays DEF EmptyAnswer
<1>3. CASE call' = None
  BY <1>2, <1>3 DEF PagesInv, CallInv
<1>4. CASE call' = [call EXCEPT !.next = None]
  <2>1. PICK c : c = call'
    OBVIOUS
  <2>2. c = [got |-> call.got, next |-> None]
    BY <1>1, <1>4, <2>1 DEF CallInv, CallRight
  <2>3. CallRight(c)
    BY <1>1, <2>2 DEF CallInv, CallRight
  <2>4. CallInv'
    BY <2>1, <2>3, CallBecomes DEF EmptyAnswer
  <2> QED  BY <1>2, <2>4 DEF PagesInv
<1> QED  BY <1>3, <1>4 DEF EmptyAnswer

LEMMA FinishPages == PagesInv /\ Finish => PagesInv'
<1> SUFFICES ASSUME PagesInv, Finish  PROVE PagesInv'
  OBVIOUS
<1>1. /\ CallInv /\ call # None /\ call' = None /\ ListInv /\ way' = way
      /\ call.next = None \/ ~(Len(call.got) < way.limit)
  BY DEF PagesInv, Finish, Asking
<1>2. ListInv' /\ CallInv'
  BY <1>1, ListStays DEF Finish, pagesHistory, CallInv, ListInv
<1>3. /\ GotRight(call.got)
      /\ ~disturbed => ToCome(throughout, call.got, call.next)
  BY <1>1 DEF CallInv, CallRight
<1>4. /\ Len(call.got) \in Nat /\ Len(call.got) <= way.limit /\ way.limit \in Nat
      /\ \A i \in ToSet(call.got) : i >= way.since
  BY <1>1, <1>3, PagesAssumption DEF GotRight, ListInv
<1>5. ASSUME ~disturbed, NEW i \in throughout, i >= way.since, i \notin ToSet(call.got)
      PROVE  Len(call.got) = way.limit /\ \A j \in ToSet(call.got) : i < j
  <2>1. call.next # None /\ \A j \in ToSet(call.got) : i < j
    BY <1>3, <1>5 DEF ToCome
  <2> QED  BY <1>1, <1>4, <2>1
<1>6. /\ result'.got = call.got /\ result'.due = throughout /\ result'.disturbed = disturbed
  BY DEF Finish
<1>7. PagesComplete'
  BY <1>1, <1>4, <1>5, <1>6 DEF PagesComplete
<1> QED  BY <1>2, <1>7 DEF PagesInv

\* What a change of the list must keep for the calls in progress.
LEMMA ChangedList ==
    ASSUME PagesInv, UNCHANGED <<way, call, result>>,
           NEW list, list = listing', NEW due \in SUBSET throughout, due = throughout',
           newest' \in Nat, list \in Seq(1..newest'), Falling(list),
           disturbed' \in BOOLEAN, ~disturbed' => ~disturbed,
           ~disturbed' => \A i \in due, place \in Nat :
                            AheadIn(listing, i, place) => AheadIn(list, i, place)
    PROVE  PagesInv'
<1>1. ListInv' /\ PagesComplete'
  BY ResultStays DEF PagesInv, ListInv, Falling
<1>2. CASE call = None
  BY <1>1, <1>2 DEF PagesInv, CallInv
<1>3. CASE call # None
  <2>1. CallRight(call) /\ (~disturbed => ToCome(throughout, call.got, call.next))
    BY <1>3 DEF PagesInv, CallInv
  <2>2. PICK c : c = call
    OBVIOUS
  <2>3. c.next \in Nat \cup {None}
    BY <2>1, <2>2 DEF CallRight
  <2>4. CallRight(c)'
    BY <2>1, <2>2 DEF CallRight, GotRight
  <2>5. ASSUME ~disturbed', NEW i \in due, i >= way.since, i \notin ToSet(c.got)
        PROVE  /\ \A j \in ToSet(c.got) : i < j
               /\ c.next # None /\ AheadIn(list, i, c.next)
    <3>1. /\ \A j \in ToSet(c.got) : i < j
          /\ c.next # None /\ AheadIn(listing, i, c.next)
      BY <2>1, <2>2, <2>5 DEF ToCome, Ahead
    <3> QED  BY <2>3, <2>5, <3>1
  <2>6. ~disturbed' =>
            \A i \in due : i >= way.since /\ i \notin ToSet(c.got) =>
                /\ \A j \in ToSet(c.got) : i < j
                /\ c.next # None /\ AheadIn(list, i, c.next)
    BY <2>5
  <2>7. ~disturbed' => ToCome(throughout, c.got, c.next)'
    BY <2>6 DEF ToCome, Ahead, AheadIn
  <2>8. CallInv'
    BY <2>2, <2>4, <2>7 DEF CallInv, CallRight, GotRight, ToCome, Ahead, AheadIn
  <2> QED  BY <1>1, <2>8 DEF PagesInv
<1> QED  BY <1>2, <1>3

LEMMA SavedFirst ==
    ASSUME NEW n \in Nat, NEW s \in Seq(1..n), Falling(s), NEW t, t = <<n + 1>> \o s
    PROVE  /\ t \in Seq(1..(n + 1)) /\ Falling(t)
           /\ \A p \in DOMAIN s : p \in Nat /\ p + 1 \in DOMAIN t /\ t[p + 1] = s[p]
<1>1. PICK len \in Nat : len = Len(s) /\ DOMAIN s = 1..len
  OBVIOUS
<1>2. \A p \in 1..len : s[p] \in 1..n
  BY <1>1
<1>3. /\ t \in Seq(1..(n + 1)) /\ Len(t) = len + 1 /\ t[1] = n + 1
      /\ \A p \in 2..(len + 1) : t[p] = s[p - 1]
  <2>1. s \in Seq(1..(n + 1)) /\ <<n + 1>> \in Seq(1..(n + 1))
    BY <1>1, <1>2
  <2>2. <<n + 1>> \o s \in Seq(1..(n + 1))
    BY <2>1
  <2>3. Len(<<n + 1>> \o s) = len + 1
    BY <1>1
  <2>4. (<<n + 1>> \o s)[1] = n + 1
    BY <1>1
  <2>5. \A p \in 2..(len + 1) : (<<n + 1>> \o s)[p] = s[p - 1]
    BY <1>1
  <2> QED  BY <2>2, <2>3, <2>4, <2>5
<1>4. DOMAIN t = 1..(len + 1)
  BY <1>3
<1>5. \A p \in 1..len : p \in Nat /\ p + 1 \in 1..(len + 1) /\ t[p + 1] = s[p]
  <2> TAKE p \in 1..len
  <2>1. p + 1 \in 2..(len + 1) /\ (p + 1) - 1 = p
    OBVIOUS
  <2>2. t[p + 1] = s[(p + 1) - 1]
    BY <1>3, <2>1
  <2>3. p \in Nat /\ p + 1 \in 1..(len + 1)
    OBVIOUS
  <2>4. t[p + 1] = s[p]
    BY <2>1, <2>2
  <2> QED  BY <2>3, <2>4
<1>6. \A p, q \in 1..len : p < q => s[p] > s[q]
  BY <1>1 DEF Falling
<1>7. ASSUME NEW p \in 1..(len + 1), NEW q \in 1..(len + 1), p < q
      PROVE  t[p] > t[q]
  <2>1. q - 1 \in 1..len /\ q \in 2..(len + 1) /\ t[q] = s[q - 1]
    BY <1>3, <1>7
  <2>2. CASE p = 1
    BY <1>2, <1>3, <2>1, <2>2
  <2>3. CASE p # 1
    <3>1. p - 1 \in 1..len /\ p \in 2..(len + 1) /\ p - 1 < q - 1
      BY <1>7, <2>3
    <3>2. t[p] = s[p - 1]
      BY <1>3, <3>1
    <3> QED  BY <1>6, <2>1, <3>1, <3>2
  <2> QED  BY <2>2, <2>3
<1> QED  BY <1>1, <1>3, <1>4, <1>5, <1>7 DEF Falling

LEMMA SavePages == PagesInv /\ SaveItem => PagesInv'
<1> SUFFICES ASSUME PagesInv, SaveItem  PROVE PagesInv'
  OBVIOUS
<1>1. PICK list, due : list = listing' /\ due = throughout'
  OBVIOUS
<1>2. /\ newest \in Nat /\ listing \in Seq(1..newest) /\ Falling(listing)
      /\ disturbed \in BOOLEAN
  BY DEF PagesInv, ListInv
<1>3. /\ list = <<newest + 1>> \o listing /\ newest' = newest + 1
      /\ due = throughout /\ disturbed' = disturbed
      /\ UNCHANGED <<way, call, result>>
  BY <1>1 DEF SaveItem, pagesHistory
<1>4. /\ list \in Seq(1..(newest + 1)) /\ Falling(list)
      /\ \A p \in DOMAIN listing :
            p \in Nat /\ p + 1 \in DOMAIN list /\ list[p + 1] = listing[p]
  BY <1>2, <1>3, SavedFirst
<1>5. ASSUME NEW i \in due, NEW place \in Nat, AheadIn(listing, i, place)
      PROVE  AheadIn(list, i, place)
  <2>1. PICK p \in DOMAIN listing :
            listing[p] = i /\ (IF way.by = "token" THEN i < place ELSE p > place)
    BY <1>5 DEF AheadIn
  <2>2. p \in Nat /\ p + 1 \in DOMAIN list /\ list[p + 1] = i
    BY <1>4, <2>1
  <2>3. IF way.by = "token" THEN i < place ELSE p + 1 > place
    BY <2>1, <2>2
  <2> QED  BY <2>2, <2>3 DEF AheadIn
<1>6. /\ due \in SUBSET throughout /\ newest' \in Nat /\ list \in Seq(1..newest')
      /\ disturbed' \in BOOLEAN /\ (~disturbed' => ~disturbed)
  BY <1>2, <1>3, <1>4
<1> QED  BY <1>1, <1>3, <1>4, <1>5, <1>6, ChangedList

LEMMA Joined ==
    ASSUME NEW S, NEW s \in Seq(S), NEW t \in Seq(S), NEW u, u = s \o t
    PROVE  /\ u \in Seq(S) /\ Len(u) = Len(s) + Len(t)
           /\ \A p \in 1..Len(s) : u[p] = s[p]
           /\ \A p \in (Len(s) + 1)..(Len(s) + Len(t)) : u[p] = t[p - Len(s)]
OBVIOUS

LEMMA RemovedOne ==
    ASSUME NEW n \in Nat, NEW s \in Seq(1..n), Falling(s), NEW k \in DOMAIN s,
           NEW t, t = RemoveAt(s, k)
    PROVE  /\ t \in Seq(1..n) /\ Falling(t)
           /\ \A p \in DOMAIN s : p # k => \E q \in DOMAIN t : t[q] = s[p]
<1>1. PICK len \in Nat : len = Len(s) /\ DOMAIN s = 1..len
  OBVIOUS
<1>2. k \in 1..len /\ \A p \in 1..len : s[p] \in 1..n
  BY <1>1
<1>3. PICK a : a = SubSeq(s, 1, k - 1)
  OBVIOUS
<1>4. PICK b : b = SubSeq(s, k + 1, len)
  OBVIOUS
<1>5. t = a \o b
  BY <1>1, <1>3, <1>4 DEF RemoveAt
<1>6. /\ a \in Seq(1..n) /\ Len(a) = k - 1
      /\ \A p \in 1..(k - 1) : a[p] = s[p]
  BY <1>1, <1>2, <1>3
<1>7. b \in Seq(1..n) /\ Len(b) = len - k
  BY <1>1, <1>2, <1>4
<1>8. \A p \in 1..(len - k) : b[p] = s[k + p]
  <2>1. s \in Seq(Nat) /\ k + 1 \in 1..(Len(s) + 1) /\ len \in 0..Len(s)
    BY <1>1, <1>2
  <2>2. b = Cut(s, k + 1, len)
    BY <1>4 DEF Cut
  <2>3. \A p \in 1..Len(b) : b[p] = s[(k + 1) - 1 + p]
    BY <2>1, <2>2, CutOut
  <2> TAKE p \in 1..(len - k)
  <2>4. (k + 1) - 1 + p = k + p
    BY <1>2
  <2> QED  BY <1>7, <2>3, <2>4
<1>9. /\ t \in Seq(1..n) /\ Len(t) = (k - 1) + (len - k)
      /\ \A p \in 1..(k - 1) : t[p] = a[p]
      /\ \A p \in ((k - 1) + 1)..((k - 1) + (len - k)) : t[p] = b[p - (k - 1)]
  <2>1. /\ t \in Seq(1..n) /\ Len(t) = Len(a) + Len(b)
        /\ \A p \in 1..Len(a) : t[p] = a[p]
        /\ \A p \in (Len(a) + 1)..(Len(a) + Len(b)) : t[p] = b[p - Len(a)]
    <3>1. PICK all : all = 1..n
      OBVIOUS
    <3>2. a \in Seq(all) /\ b \in Seq(all)
      BY <1>6, <1>7, <3>1
    <3>3. /\ t \in Seq(all) /\ Len(t) = Len(a) + Len(b)
          /\ \A p \in 1..Len(a) : t[p] = a[p]
          /\ \A p \in (Len(a) + 1)..(Len(a) + Len(b)) : t[p] = b[p - Len(a)]
      BY <1>5, <3>2, Joined
    <3> QED  BY <3>1, <3>3
  <2> QED  BY <1>6, <1>7, <2>1
<1>10. Len(t) = len - 1 /\ \A p \in 1..(k - 1) : t[p] = s[p]
  <2>1. (k - 1) + (len - k) = len - 1
    BY <1>2
  <2>2. Len(t) = len - 1
    BY <1>9, <2>1
  <2>3. \A p \in 1..(k - 1) : t[p] = s[p]
    BY <1>6, <1>9
  <2> QED  BY <2>2, <2>3
<1>11. \A p \in k..(len - 1) : t[p] = s[p + 1]
  <2> TAKE p \in k..(len - 1)
  <2>1. /\ p - (k - 1) \in 1..(len - k) /\ k + (p - (k - 1)) = p + 1
        /\ p \in ((k - 1) + 1)..((k - 1) + (len - k))
    BY <1>2
  <2>2. t[p] = b[p - (k - 1)]
    BY <1>9, <2>1
  <2> QED  BY <1>8, <2>1, <2>2
<1>12. DOMAIN t = 1..(len - 1)
  BY <1>9, <1>10
<1>13. \A p, q \in 1..len : p < q => s[p] > s[q]
  BY <1>1 DEF Falling
<1>14. ASSUME NEW p \in 1..(len - 1), NEW q \in 1..(len - 1), p < q
       PROVE  t[p] > t[q]
  <2>1. CASE q < k
    <3>1. p \in 1..(k - 1) /\ q \in 1..(k - 1) /\ p \in 1..len /\ q \in 1..len
      BY <1>2, <1>14, <2>1
    <3>2. t[p] = s[p] /\ t[q] = s[q]
      BY <1>10, <3>1
    <3> QED  BY <1>13, <1>14, <3>1, <3>2
  <2>2. CASE p < k /\ q >= k
    <3>1. t[p] = s[p] /\ t[q] = s[q + 1]
      BY <1>2, <1>10, <1>11, <2>2
    <3> QED  BY <1>2, <1>13, <1>14, <3>1
  <2>3. CASE p >= k
    <3>1. t[p] = s[p + 1] /\ t[q] = s[q + 1]
      BY <1>2, <1>11, <1>14, <2>3
    <3> QED  BY <1>2, <1>13, <1>14, <3>1
  <2> QED  BY <1>2, <2>1, <2>2, <2>3
<1>15. ASSUME NEW p \in 1..len, p # k
       PROVE  \E q \in 1..(len - 1) : t[q] = s[p]
  <2>1. CASE p < k
    BY <1>2, <1>10, <2>1
  <2>2. CASE p > k
    <3>1. p - 1 \in k..(len - 1) /\ p - 1 \in 1..(len - 1) /\ (p - 1) + 1 = p
      BY <1>2, <2>2
    <3>2. t[p - 1] = s[(p - 1) + 1]
      BY <1>11, <3>1
    <3> QED  BY <3>1, <3>2
  <2> QED  BY <1>2, <1>15, <2>1, <2>2
<1> QED  BY <1>1, <1>9, <1>12, <1>14, <1>15 DEF Falling

LEMMA UnsavePages == PagesInv /\ UnsaveItem => PagesInv'
<1> SUFFICES ASSUME PagesInv, UnsaveItem  PROVE PagesInv'
  OBVIOUS
<1>1. PICK list, due : list = listing' /\ due = throughout'
  OBVIOUS
<1>2. PICK k \in DOMAIN listing :
        list = RemoveAt(listing, k) /\ due = throughout \ {listing[k]}
  BY <1>1 DEF UnsaveItem
<1>3. /\ newest \in Nat /\ listing \in Seq(1..newest) /\ Falling(listing)
      /\ disturbed \in BOOLEAN
  BY DEF PagesInv, ListInv
<1>4. /\ newest' = newest /\ disturbed' = (disturbed \/ way.by = "offset")
      /\ UNCHANGED <<way, call, result>>
  BY DEF UnsaveItem
<1>5. /\ list \in Seq(1..newest) /\ Falling(list)
      /\ \A p \in DOMAIN listing : p # k => \E q \in DOMAIN list : list[q] = listing[p]
  BY <1>2, <1>3, RemovedOne
<1>6. way.by \in {"offset", "token"}
  BY PagesAssumption DEF PagesInv, ListInv
<1>7. ASSUME ~disturbed', NEW i \in due, NEW place \in Nat, AheadIn(listing, i, place)
      PROVE  AheadIn(list, i, place)
  <2>1. way.by = "token" /\ way.by # "offset"
    BY <1>4, <1>6, <1>7
  <2>2. PICK p \in DOMAIN listing : listing[p] = i /\ i < place
    BY <1>7, <2>1 DEF AheadIn
  <2>3. p # k
    BY <1>2, <1>7, <2>2
  <2> QED  BY <1>5, <2>1, <2>2, <2>3 DEF AheadIn
<1>8. ~disturbed' => ~disturbed
  BY <1>3, <1>4
<1> QED  BY <1>1, <1>2, <1>3, <1>4, <1>5, <1>7, <1>8, ChangedList

\* What was fetched page by page misses nothing that it should hold: PagesComplete.
THEOREM PagesAreComplete == PagesSpec => []PagesComplete
<1>1. PagesInit => PagesInv
  BY InitPages
<1>2. PagesInv /\ [PagesNext]_pagesVars => PagesInv'
  <2> SUFFICES ASSUME PagesInv, [PagesNext]_pagesVars  PROVE PagesInv'
    OBVIOUS
  <2>1. CASE Begin
    BY <2>1, BeginPages
  <2>2. CASE FetchPage
    BY <2>2, FetchPages
  <2>3. CASE EmptyAnswer
    BY <2>3, EmptyPages
  <2>4. CASE RequestFails
    <3>1. ListInv' /\ PagesComplete'
      BY <2>4, ListStays, ResultStays DEF RequestFails, pagesHistory, PagesInv, ListInv
    <3> QED  BY <2>4, <3>1 DEF RequestFails, PagesInv, CallInv
  <2>5. CASE Finish
    BY <2>5, FinishPages
  <2>6. CASE ResetList
    <3>1. ListInv' /\ CallInv'
      BY <2>6, ListStays, CallStays DEF ResetList, pagesHistory, PagesInv, ListInv
    <3> QED  BY <2>6, <3>1 DEF ResetList, PagesInv, PagesComplete
  <2>7. CASE SaveItem
    BY <2>7, SavePages
  <2>8. CASE UnsaveItem
    BY <2>8, UnsavePages
  <2>9. CASE UNCHANGED pagesVars
    <3>1. ListInv' /\ CallInv' /\ PagesComplete'
      BY <2>9, ListStays, CallStays, ResultStays DEF pagesVars, pagesHistory, PagesInv, ListInv
    <3> QED  BY <3>1 DEF PagesInv
  <2> QED
    BY <2>1, <2>2, <2>3, <2>4, <2>5, <2>6, <2>7, <2>8, <2>9 DEF PagesNext
<1>3. PagesInv => PagesComplete
  BY DEF PagesInv
<1> QED  BY <1>1, <1>2, <1>3, PTL DEF PagesSpec
=================================================================================
