---------------------------------- MODULE DateRanges ----------------------------------
(***************************************************************************)
(* The dates that clients are asked for lists of: events of a calendar          *)
(* (clients/google_calendar.py), data points that are summed (google_fit.py)    *)
(* and transactions (truelayer.py, monzo.py).  Each gives its own meaning to     *)
(* what is left out and to a time without a zone.  The clients keep nothing of   *)
(* what they are asked, so that one question in every state stands for all.      *)
(***************************************************************************)
EXTENDS Integers, FiniteSets, Sequences, SequencesExt, PythonNone

CONSTANTS Local,        \* possible offsets of the application's own time zone
          Zones,        \* offsets of the zones it gives times in, with 0
          Day,          \* the length of a day
          DaysBack,     \* 90 days, Monzo: 89
          Limits,       \* day_limit
          LastHour      \* bound: the time

ASSUME RangesAssumption ==
    /\ 0 \in Zones /\ None \notin Zones \cup [from : Int, to : Int]
    /\ Local \cup Zones \subseteq Int
    /\ Day \in Nat \ {0}
    /\ {LastHour} \cup DaysBack \cup Limits \subseteq Nat

VARIABLES hour,         \* now, in UTC
          local,        \* the application's own zone
          back,         \* how far a bank or a calendar goes back unasked
          items,        \* the start and the end of the items at the service
          answered      \* what was asked for and what came back, or None

rangeVars == <<hour, local, back, items, answered>>

Hours == 0..LastHour
\* A datetime: what the clock on the wall says, and the zone, or None if it is naive.
Datetimes == [wall : Hours, zone : Zones \cup {None}]
Spans == {s \in [start : Hours, end : Hours] : s.start <= s.end}

RangesInit ==
    /\ hour = 0 /\ local \in Local /\ back \in DaysBack
    /\ items = {} /\ answered = None

HourPasses ==
    /\ answered = None
    /\ hour < LastHour
    /\ hour' = hour + 1
    /\ UNCHANGED <<local, back, items, answered>>

\* create_event, or an item that comes from elsewhere.  One stands for all: whether it is
\* in a range does not depend on others.
CreateEvent ==
    /\ answered = None /\ items = {}
    /\ \E span \in Spans : items' = {span}
    /\ UNCHANGED <<hour, local, back, answered>>

DeleteEvent ==
    /\ answered = None
    /\ \E item \in items : items' = items \ {item}
    /\ UNCHANGED <<hour, local, back, answered>>

-----------------------------------------------------------------------------
(* The ranges asked for: the first and the last moment in UTC *)

\* Mutant: the zone is replaced, whether there is one or not.
InZoneMutant(time, zone) == time.wall - zone

\* A time without a zone is taken to be in the one that the client thinks of.
InZone(time, zone) == time.wall - (IF time.zone = None THEN zone ELSE time.zone)
\* No range: from before the first item to after the last.
Everything == [from |-> -1, to |-> LastHour + 1]
Now == [wall |-> hour, zone |-> 0]
Before(time, length) == [time EXCEPT !.wall = @ - length]

\* A calendar is asked for the days before the end.
UnaskedFrom(to, days) == Before(to, days * Day)

\* A limit of 0 counts as none where it is looked at for truth.
Truthy(limit) == limit # None /\ limit # 0

Mixed(from, to) == (from.zone = None) # (to.zone = None)

\* get_events.  The earlier of two times cannot be told if one has a zone and one has none.
CalendarRange(from, to, limit) ==
    IF from = None /\ to = None /\ ~Truthy(limit) THEN Everything
    ELSE LET end == IF to = None THEN Now ELSE to
             start == IF from # None THEN from
                      ELSE UnaskedFrom(end, IF Truthy(limit) THEN limit ELSE back)
             last == InZone(start, 0) + limit * Day
         IN IF limit = None THEN [from |-> InZone(start, 0), to |-> InZone(end, 0)]
            ELSE IF Mixed(start, end) THEN None
            ELSE [from |-> InZone(start, 0),
                  to |-> IF InZone(end, 0) <= last THEN InZone(end, 0) ELSE last]

\* TrueLayer's get_transactions: naive times are left to the bank, which has them as UTC.
TrueLayerRange(from, to) ==
    IF from = None /\ to = None THEN Everything
    ELSE [from |-> InZone(IF from = None THEN Before(Now, back * Day) ELSE from, 0),
          to |-> InZone(IF to = None THEN Now ELSE to, 0)]

\* Monzo's list_transactions drops the zone and says that it is UTC.
MonzoRange(from, to) ==
    [from |-> (IF from = None THEN Before(Now, back * Day) ELSE from).wall,
     to |-> (IF to = None THEN Now ELSE to).wall]

\* sum_data_points_in_range: timestamp() has naive times in the application's own zone.
FitRange(from, to) ==
    [from |-> IF from = None THEN hour - (hour % Day) ELSE InZone(from, local),
     to |-> IF to = None THEN hour ELSE InZone(to, local)]

\* A calendar has all events that reach into the range, the sum those within it.
ReachingInto(range) == {i \in items : i.end > range.from /\ i.start < range.to}
Within(range) == {i \in items : i.start >= range.from /\ i.end <= range.to}

\* The answer to a question, or None for TypeError.
Answers(client, from, to, limit, range, got) ==
    /\ answered = None
    /\ answered' = [client |-> client, from |-> from, to |-> to, limit |-> limit,
                    at |-> hour, range |-> range, got |-> got]
    /\ UNCHANGED <<hour, local, back, items>>

GetEvents(from, to, limit) ==
    LET range == CalendarRange(from, to, limit) IN
    Answers("calendar", from, to, limit, range,
            IF range = None THEN {} ELSE ReachingInto(range))

GetTransactions(from, to) ==
    LET range == TrueLayerRange(from, to) IN
    Answers("truelayer", from, to, None, range, Within(range))

ListTransactions(from, to) ==
    LET range == MonzoRange(from, to) IN
    Answers("monzo", from, to, None, range, Within(range))

SumDataPoints(from, to) ==
    LET range == FitRange(from, to) IN
    Answers("fit", from, to, None, range, Within(range))

RangesNext ==
    \/ HourPasses \/ CreateEvent \/ DeleteEvent
    \/ \E from, to \in Datetimes \cup {None} :
        \/ \E limit \in Limits \cup {None} : GetEvents(from, to, limit)
        \/ GetTransactions(from, to) \/ ListTransactions(from, to) \/ SumDataPoints(from, to)

RangesSpec == RangesInit /\ [][RangesNext]_rangeVars

-----------------------------------------------------------------------------
(* Properties *)

\* Times that mean the same to every client: those with a zone, and for Monzo, which
\* drops the zone, those in UTC.
Plain(client, time) ==
    time # None => time.zone # None /\ (client = "monzo" => time.zone = 0)

\* The moment that a time with a zone stands for; one without could be any.
Moment(time) == time.wall - (IF time.zone = None THEN 0 ELSE time.zone)
Ends(a) == IF a.to = None THEN a.at ELSE Moment(a.to)

\* Where a range may begin: at the time given, or as far back as the client goes.  A
\* calendar goes back from the end (google_calendar.py:319), though its docstring says
\* "90 days ago" (:298): either is right here, and they differ if an end is given.
Beginnings(a) ==
    IF a.from # None THEN {Moment(a.from)}
    ELSE CASE a.client = "calendar" -> {a.at - back * Day, Ends(a) - back * Day}
           [] a.client = "fit" -> {a.at - (a.at % Day)}
           [] OTHER -> {a.at - back * Day}

\* What lies inside of the dates asked for is had, and nothing that lies outside, from
\* every client alike, whatever zones the dates are given in and whichever of them is left
\* out.  A limit of days is kept, except that of 0 on its own, which is none; and a
\* question fails only if a limit meets a time with a zone and one without
\* (google_calendar.py:317, 323, monzo.py:294, google_fit.py:100).  How far back the two
\* banks go is the code's own choice.
RangesRight ==
    answered # None =>
        LET a == answered
            inside == {i \in items : i.end < Ends(a) /\ \A b \in Beginnings(a) : i.start > b}
            around == {i \in items : i.start <= Ends(a) /\ \E b \in Beginnings(a) : i.end >= b}
            plain == Plain(a.client, a.from) /\ Plain(a.client, a.to)
        IN IF a.range = None
           THEN a.limit # None /\ ~plain
           ELSE /\ plain /\ a.limit = None => inside \subseteq a.got
                /\ plain /\ (a.from # None \/ a.to # None) /\ ~Truthy(a.limit) =>
                     a.got \subseteq around
                /\ a.limit # None /\ (a.limit # 0 \/ a.range # Everything) =>
                     a.range.to - a.range.from <= a.limit * Day
=======================================================================================
