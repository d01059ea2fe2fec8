--------------------------------- MODULE PagedLists ---------------------------------
(***************************************************************************)
(* The lists that the clients fetch page by page: get_items of the Spotify   *)
(* client (clients/spotify.py), which follows the service's links, by offset   *)
(* or after an item, and may be told to stop, and that of the Google clients   *)
(* (clients/_google.py), which pages by token; the requests of                *)
(* clients/json_api_client.py under both; and the properties that keep what     *)
(* they fetched.  The service lists its items from the newest to the oldest:   *)
(* the greater the number the newer.  Others add and remove items between any   *)
(* two requests, and a token stands for a place even if its item is removed.    *)
(***************************************************************************)
EXTENDS Integers, FiniteSets, Sequences, SequencesExt, PythonNone

CONSTANTS Ways,       \* how lists are asked for: see Kept, Asked and Tokens
          PageSize,   \* items on a page: 50
          MaxItems    \* bound: items there ever are

\* Only what is listed by offset comes with something else, and only that has a limit.
ASSUME PagesAssumption ==
    /\ PageSize \in Nat \ {0} /\ MaxItems \in Nat /\ None \notin Nat
    /\ \A w \in Ways :
        /\ w.by \in {"offset", "token"} /\ {w.limit, w.since} \subseteq Nat
        /\ w.by = "token" => ~w.head

VARIABLES way,        \* the list that this is about
          listing,    \* the items at the service, the newest first
          newest,     \* the number of items there have been
          call,       \* get_items in progress, or None
          result,     \* what the last call returned, or what the property keeps
          throughout, \* history: the items the service has had since the call began
          disturbed   \* history: an item was removed, or an answer empty, in the call

pagesHistory == <<throughout, disturbed>>
pagesVars == <<way, listing, newest, call, result, pagesHistory>>

-----------------------------------------------------------------------------
(* The lists *)

Unlimited == 1000000

\* by: "offset" or "token"; key: top_level_key; head: the first page comes with
\* something else; keeps: the property keeps it; resets: reset_properties knows it.
Asked(limit, since) == [by |-> "offset", key |-> FALSE, head |-> FALSE, keeps |-> FALSE,
                        resets |-> FALSE, limit |-> limit, since |-> since]
Kept(key, resets) ==
    [Asked(Unlimited, 0) EXCEPT !.key = key, !.keeps = TRUE, !.resets = resets]

SavedAlbums == Kept(FALSE, TRUE)
FollowedArtists == [Kept(TRUE, TRUE) EXCEPT !.by = "token"]   \* after=<the last artist>
TopArtists == Kept(FALSE, TRUE)
TopTracks == Kept(FALSE, TRUE)
SavedTracks == Kept(FALSE, TRUE)
ArtistAlbums == Kept(FALSE, FALSE)
AlbumTracks == [Kept(FALSE, FALSE) EXCEPT !.head = TRUE]
SearchResults == [Asked(Unlimited, 0) EXCEPT !.key = TRUE, !.head = TRUE]
BestMatch == Asked(1, 0)
RecentlyLiked(limit, since) == Asked(limit, since)
TopTracksUpTo(limit) == Asked(limit, 0)
Devices == Asked(Unlimited, 0)

Tokens(keeps) == [Asked(Unlimited, 0) EXCEPT !.by = "token", !.keeps = keeps]
CalendarEvents == Tokens(FALSE)
CalendarList == Tokens(FALSE)
DataPoints == Tokens(FALSE)
MediaItems == Tokens(TRUE)

-----------------------------------------------------------------------------
PagesInit ==
    /\ way \in Ways
    /\ newest \in 0..(MaxItems - 1)
    /\ listing = [p \in 1..newest |-> newest + 1 - p]
    /\ call = None /\ result = None
    /\ throughout = {} /\ disturbed = FALSE

\* The items that a place is behind: a token stands for the last item of a page.
Passed(place) ==
    IF way.by = "token" THEN Max({0} \cup {p \in DOMAIN listing : listing[p] >= place})
    ELSE place

\* Mutant: a page is as large as it can be.
RoomMutant(got) == PageSize

\* No more than is needed is asked for.
Room(got) == Min({way.limit - Len(got), PageSize})

\* What limit_func lets through: the items before the first that is too old.
Until(page) ==
    SubSeq(page, 1, Max({n \in 0..Len(page) : \A p \in 1..n : page[p] >= way.since}))

\* The call after a page of its list.
Extended(got, place) ==
    LET passed == Passed(place)
        page == SubSeq(listing, passed + 1, Min({passed + Room(got), Len(listing)}))
        taken == Until(page)
        ends == Len(listing) <= passed + Room(got) \/ Len(taken) < Len(page)
    IN [got |-> got \o taken,
        next |-> IF ends THEN None
                 ELSE IF way.by = "token" THEN Last(page) ELSE place + Len(page)]

Start == IF way.by = "token" THEN newest + 1 ELSE 0

-----------------------------------------------------------------------------
(* The calls *)

\* A property that has something to return does not ask again.
Begin ==
    /\ call = None
    /\ way.keeps => result = None
    /\ call' = IF way.head THEN Extended(<<>>, Start) ELSE [got |-> <<>>, next |-> Start]
    /\ throughout' = ToSet(listing)
    /\ disturbed' = FALSE
    /\ UNCHANGED <<way, listing, newest, result>>

Asking == call # None /\ call.next # None /\ Len(call.got) < way.limit

FetchPage ==
    /\ Asking
    /\ call' = Extended(call.got, call.next)
    /\ UNCHANGED <<way, listing, newest, result, pagesHistory>>

\* No content is taken for an empty answer.  It has no next page, but where the items
\* have a key of their own or are looked up by it, that is missed.
EmptyAnswer ==
    /\ Asking
    /\ IF way.by = "token" \/ way.key THEN call' = None
       ELSE call' = [call EXCEPT !.next = None]
    /\ disturbed' = TRUE
    /\ UNCHANGED <<way, listing, newest, result, throughout>>

\* An error status, or no answer: nothing of what was fetched is kept.
RequestFails ==
    /\ Asking
    /\ call' = None
    /\ UNCHANGED <<way, listing, newest, result, pagesHistory>>

Finish ==
    /\ call # None /\ ~Asking
    /\ result' = [got |-> call.got, due |-> throughout, disturbed |-> disturbed]
    /\ call' = None
    /\ UNCHANGED <<way, listing, newest, pagesHistory>>

ResetList ==
    /\ call = None
    /\ way.resets
    /\ result' = None
    /\ UNCHANGED <<way, listing, newest, call, pagesHistory>>

\* save, here or elsewhere: the item is the newest of all.  A list that is kept is left.
SaveItem ==
    /\ newest < MaxItems
    /\ newest' = newest + 1
    /\ listing' = <<newest + 1>> \o listing
    /\ UNCHANGED <<way, call, result, pagesHistory>>

UnsaveItem ==
    /\ \E p \in DOMAIN listing :
        /\ listing' = RemoveAt(listing, p)
        /\ throughout' = throughout \ {listing[p]}
    /\ disturbed' = (disturbed \/ way.by = "offset")
    /\ UNCHANGED <<way, newest, call, result>>

PagesNext ==
    \/ Begin \/ FetchPage \/ EmptyAnswer \/ RequestFails \/ Finish
    \/ ResetList \/ SaveItem \/ UnsaveItem

PagesSpec == PagesInit /\ [][PagesNext]_pagesVars

-----------------------------------------------------------------------------
(* Properties *)

\* A list that was fetched while its service changed misses no item that was there all
\* the time and is newer than its last, nor any at all that is not too old, if it is not
\* full; it is never longer than was asked for, and holds nothing too old.  Only the
\* removal of an item moves others past the next offset, and only an empty answer ends
\* the pages early (spotify.py:331, json_api_client.py:220); tokens mind neither.
PagesComplete ==
    result # None =>
        LET got == ToSet(result.got)
            due == {i \in result.due : i >= way.since}
        IN /\ Len(result.got) <= way.limit
           /\ \A i \in got : i >= way.since
           /\ ~result.disturbed =>
                \A i \in due \ got :
                    Len(result.got) = way.limit /\ \A j \in got : i < j
=====================================================================================
