-------------------------- MODULE SpotifyPlaylists --------------------------
(***************************************************************************)
(* What the Spotify client (wg_utilities/clients/spotify.py) remembers of  *)
(* the playlists of a user: the list of Playlist instances, which is       *)
(* refreshed every ten minutes and only gains instances, and in each       *)
(* instance a tracklist, which is fetched again when the snapshot ID of    *)
(* the service, looked up once a minute, differs from its own.             *)
(*                                                                         *)
(* A tracklist is followed for one track: how often it holds it.  Snapshot *)
(* IDs are numbered in the order in which they come about.  One            *)
(* application thread calls the client; other applications change the      *)
(* playlists between any two of its requests, and any request may fail.    *)
(***************************************************************************)
EXTENDS Naturals, Sequences, FiniteSets, SequencesExt

CONSTANTS
    Playlists,    \* IDs of playlists owned by the user
    MaxInstances, \* bound: Playlist instances in the list
    MaxChanges,   \* bound: changes of playlists at the service
    MaxFailures,  \* bound: requests that fail
    None

ASSUME SpotifyAssumption == /\ IsFiniteSet(Playlists) /\ MaxInstances \in Nat
                            /\ MaxChanges \in Nat /\ MaxFailures \in Nat
                            /\ None \notin Nat

VARIABLES
    library,      \* playlists the user has at the service
    remote,       \* [Playlists -> [version, count]]: the service's playlists
    list,         \* _playlists: a sequence of instances
    listed,       \* _playlists exists
    timed, fresh, \* _playlist_refresh_time exists, and is not ten minutes old
    call,         \* the call on a tracklist under way, or None
    \* history and bounds
    ordered,      \* the service has always listed known playlists first, in the
                  \* order in which they are known
    unfetched,    \* the first listing (since a reset) failed
    twice,        \* instances that applied a change to a tracklist fetched after it
    changes, failures

cached  == <<list, listed, timed, fresh>>
history == <<ordered, unfetched, twice>>
bounds  == <<changes, failures>>
vars    == <<library, remote, cached, call, history, bounds>>

Versions == 0 .. MaxChanges
Counts   == 0 .. MaxChanges + 1  \* one more if a change is applied twice
Change   == changes < MaxChanges /\ changes' = changes + 1
Failure  == failures < MaxFailures /\ failures' = failures + 1

\* snapshot: snapshot_id; live: _live_snapshot_id; recent: it was looked up
\* less than a minute ago; count: _tracks, or None; seen: history, the version
\* of which count was the answer.
Instances == [id : Playlists, snapshot : Versions, live : Versions \cup {None},
              recent : BOOLEAN, count : Counts \cup {None}, seen : Versions]

\* at: "before" the request of the call evaluates `tracks`, "request", "after"
\* it evaluates `tracks` again; fetching: `tracks` decided to fetch; some: the
\* track was not in the playlist, or need not be looked for.
Calls == [op : {"read", "add", "remove"}, of : 1 .. MaxInstances,
          at : {"before", "request", "after"}, fetching : BOOLEAN, some : BOOLEAN]

\* Types; a call is about an instance in the list.
TypeOK ==
    /\ library \in SUBSET Playlists
    /\ remote \in [Playlists -> [version : Versions, count : Counts]]
    /\ list \in Seq(Instances) /\ Len(list) <= MaxInstances
    /\ (~listed => list = <<>>) /\ listed \in BOOLEAN
    /\ timed \in BOOLEAN /\ fresh \in BOOLEAN
    /\ call \in Calls \cup {None}
    /\ call # None => call.of <= Len(list)
    /\ ordered \in BOOLEAN /\ unfetched \in BOOLEAN
    /\ twice \in SUBSET (1 .. MaxInstances)
    /\ changes \in Versions /\ failures \in 0 .. MaxFailures

Init ==
    /\ library \in SUBSET Playlists
    /\ remote = [p \in Playlists |-> [version |-> 0, count |-> 0]]
    /\ list = <<>> /\ listed = FALSE /\ timed = FALSE /\ fresh = FALSE
    /\ call = None
    /\ ordered = TRUE /\ unfetched = FALSE /\ twice = {}
    /\ changes = 0 /\ failures = 0

-----------------------------------------------------------------------------
(* The service and time                                                    *)

Edited(p, n) == [remote EXCEPT ![p] = [version |-> @.version + 1, count |-> n]]

\* Another application adds the track, removes it, or changes something else.
Edit(p) ==
    /\ Change
    /\ \E n \in {remote[p].count + 1, remote[p].count, 0} : remote' = Edited(p, n)
    /\ UNCHANGED <<library, cached, call, history, failures>>

\* Playlists come and go by other applications, and by create_playlist, save
\* and unsave, which leave the list alone.
Follow(p) ==
    /\ p \notin library /\ Change
    /\ library' = library \cup {p}
    /\ UNCHANGED <<remote, cached, call, history, failures>>

Unfollow(p) ==
    /\ p \in library /\ Change
    /\ library' = library \ {p}
    /\ UNCHANGED <<remote, cached, call, history, failures>>

TenMinutes ==
    /\ fresh
    /\ fresh' = FALSE
    /\ UNCHANGED <<library, remote, list, listed, timed, call, history, bounds>>

OneMinute(k) ==
    /\ list[k].recent
    /\ list' = [list EXCEPT ![k].recent = FALSE]
    /\ UNCHANGED <<library, remote, listed, timed, fresh, call, history, bounds>>

-----------------------------------------------------------------------------
(* The list of playlists                                                   *)

NewInstance(p) ==
    [id |-> p, snapshot |-> remote[p].version, live |-> None, recent |-> FALSE,
     count |-> None, seen |-> 0]

\* The first m items are found: each search goes on where the last one ended.
Found(ids, answer, m) ==
    \E at \in [1 .. m -> 1 .. Len(ids)] :
        /\ \A i \in 1 .. m : ids[at[i]] = answer[i]
        /\ \A i, j \in 1 .. m : i < j => at[i] < at[j]

\* Mutant: known IDs are not looked for.
FoundNone(ids, answer) == 0

\* existing_ids is a generator that `item["id"] not in existing_ids` consumes:
\* the first item it does not find exhausts it, and no later item is found.
FoundFirst(ids, answer) ==
    Cardinality({m \in 1 .. Len(answer) : Found(ids, answer, m)})

\* Mutant: only the first listing makes instances.
UnknownAtFirst(ids, answer) ==
    IF ids # <<>> THEN <<>> ELSE [i \in 1 .. Len(answer) |-> NewInstance(answer[i])]

Unknown(ids, answer) ==
    LET found == FoundFirst(ids, answer)
    IN  [i \in 1 .. Len(answer) - found |-> NewInstance(answer[found + i])]

Ids == [k \in 1 .. Len(list) |-> list[k].id]

\* The playlists that are known come first, in the order they are known in.
InOrder(answer) ==
    \A i, j \in 1 .. Len(answer) : i < j =>
        \A k \in 1 .. Len(Ids) : Ids[k] = answer[j] =>
            \E l \in 1 .. k : Ids[l] = answer[i]

\* playlists: the time is set before the request.
Refresh(answer) ==
    /\ call = None /\ ~(timed /\ fresh)
    /\ Len(list) + Len(Unknown(Ids, answer)) <= MaxInstances
    /\ timed' = TRUE /\ fresh' = TRUE
    /\ list' = list \o Unknown(Ids, answer) /\ listed' = TRUE
    /\ ordered' = (ordered /\ InOrder(answer))
    /\ unfetched' = FALSE
    /\ UNCHANGED <<library, remote, call, twice, bounds>>

RefreshFails ==
    /\ call = None /\ ~(timed /\ fresh) /\ Failure
    /\ timed' = TRUE /\ fresh' = TRUE
    /\ unfetched' = ~listed
    /\ UNCHANGED <<library, remote, list, listed, call, ordered, twice, changes>>

\* Mutant: the refresh time is kept.
ResetListOnly ==
    /\ call = None /\ timed
    /\ list' = <<>> /\ listed' = FALSE
    /\ twice' = {}
    /\ UNCHANGED <<library, remote, timed, fresh, call, ordered, unfetched, bounds>>

\* reset_properties, of the playlists.  Without a refresh time it raises, with
\* nothing to delete.  The application forgets the instances.
Reset ==
    /\ call = None /\ timed
    /\ list' = <<>> /\ listed' = FALSE /\ timed' = FALSE /\ fresh' = FALSE
    /\ unfetched' = FALSE /\ twice' = {}
    /\ UNCHANGED <<library, remote, call, ordered, bounds>>

-----------------------------------------------------------------------------
(* Tracklists                                                              *)

Begin(op, k, force) ==
    /\ call = None /\ k \in 1 .. Len(list)
    /\ call' = [op |-> op, of |-> k, fetching |-> FALSE, some |-> TRUE,
                at |-> IF op = "remove" \/ force THEN "request" ELSE "before"]
    /\ UNCHANGED <<library, remote, cached, history, bounds>>

Inst == list[call.of]

\* Mutant: what is already in the playlist is appended to its list again.
AppliedAlways(n) == CASE call.op = "add"              -> n + 1
                      [] call.op = "remove" /\ n > 0 -> n - 1
                      [] OTHER                        -> n

\* Mutant: the track need not be in the list to be taken out of it.
AppliedUnchecked(n) == CASE call.op = "add" /\ call.some -> n + 1
                         [] call.op = "remove"           -> n - 1
                         [] OTHER                        -> n

\* What a call does to the tracklist that `tracks` returns in the end:
\* add_tracks_to_playlist adds what is not in the playlist (unless forced), and
\* extends the list of what `tracks` then gives; remove_tracks_from_playlist
\* removes one occurrence from it.
Applied(n) == CASE call.op = "add" /\ call.some -> n + 1
                [] call.op = "remove" /\ n > 0  -> n - 1
                [] OTHER                        -> n

\* The call goes on when `tracks` has returned a list with n of the track.
Proceed(n) ==
    IF call.at = "before" /\ call.op = "add"
    THEN [call EXCEPT !.at = IF n = 0 THEN "request" ELSE "after",
                      !.some = (n = 0), !.fetching = FALSE]
    ELSE None

CountAfter(n) == IF call.at = "after" THEN Applied(n) ELSE n
Noted(x) == [x EXCEPT !.count = CountAfter(@)]

\* Mutant: the new snapshot ID is taken over before the tracks are fetched.
LookedEager(x) == LET live == remote[x.id].version
                  IN  [x EXCEPT !.live = live, !.recent = TRUE, !.snapshot = live]

\* updates_available, with live_snapshot_id looked up again after a minute.
Looked(x) == IF x.recent /\ x.live # None THEN x
             ELSE [x EXCEPT !.live = remote[x.id].version, !.recent = TRUE]

Evaluating == call # None /\ call.at \in {"before", "after"} /\ ~call.fetching

\* `tracks` with a tracklist that is up to date.
Unchanged ==
    /\ Evaluating /\ Inst.count # None
    /\ Looked(Inst).live = Inst.snapshot
    /\ list' = [list EXCEPT ![call.of] = Noted(Looked(@))]
    /\ call' = Proceed(Inst.count)
    /\ UNCHANGED <<library, remote, listed, timed, fresh, history, bounds>>

\* `tracks` decides to fetch; without a tracklist it does not look for updates.
Outdated ==
    /\ Evaluating
    /\ IF Inst.count = None
       THEN list' = list
       ELSE /\ Looked(Inst).live # Inst.snapshot
            /\ list' = [list EXCEPT ![call.of] = Looked(@)]
    /\ call' = [call EXCEPT !.fetching = TRUE]
    /\ UNCHANGED <<library, remote, listed, timed, fresh, history, bounds>>

\* The tracks arrive; the snapshot ID becomes the one that was looked up.
Fetched(x) ==
    [x EXCEPT !.count = remote[x.id].count, !.seen = remote[x.id].version,
              !.snapshot = IF x.live = None THEN @ ELSE x.live,
              !.live = IF @ = None THEN x.snapshot ELSE @]

Fetch ==
    /\ call # None /\ call.fetching
    /\ list' = [list EXCEPT ![call.of] = Noted(Fetched(@))]
    /\ call' = Proceed(Fetched(Inst).count)
    /\ twice' = IF CountAfter(Fetched(Inst).count) = Fetched(Inst).count
                  THEN twice \ {call.of} ELSE twice \cup {call.of}
    /\ UNCHANGED <<library, remote, listed, timed, fresh, ordered, unfetched, bounds>>

\* The request that adds or removes the track.
Request ==
    /\ call # None /\ call.at = "request" /\ Change
    /\ remote' = Edited(Inst.id, IF call.op = "add" THEN remote[Inst.id].count + 1 ELSE 0)
    /\ call' = [call EXCEPT !.at = "after"]
    /\ UNCHANGED <<library, cached, history, failures>>

\* A request of the call raises, having been carried out or not.
CallFails ==
    /\ call # None /\ Failure
    /\ call' = None
    /\ \/ UNCHANGED <<remote, changes>>
       \/ /\ call.at = "request" /\ Change
          /\ remote' = Edited(Inst.id, IF call.op = "add" THEN remote[Inst.id].count + 1 ELSE 0)
    /\ UNCHANGED <<library, cached, history>>

\* add_tracks_to_playlist without update_instance_tracklist.
LeaveTracklist ==
    /\ call # None /\ call.op = "add" /\ call.at = "after" /\ ~call.fetching
    /\ call' = None
    /\ UNCHANGED <<library, remote, cached, history, bounds>>

-----------------------------------------------------------------------------
Next ==
    \/ \E p \in Playlists : Follow(p) \/ Unfollow(p) \/ Edit(p)
    \/ TenMinutes \/ \E k \in 1 .. Len(list) : OneMinute(k)
    \/ \E answer \in SetToSeqs(library) : Refresh(answer)
    \/ RefreshFails \/ Reset
    \/ \E k \in 1 .. MaxInstances :
          \/ Begin("read", k, FALSE) \/ Begin("remove", k, FALSE)
          \/ \E force \in BOOLEAN : Begin("add", k, force)
    \/ Unchanged \/ Outdated \/ Fetch \/ Request \/ CallFails
    \/ LeaveTracklist

Spec == Init /\ [][Next]_vars

-----------------------------------------------------------------------------
(* Properties                                                              *)

\* A tracklist is never older than the snapshot ID its playlist claims, so that
\* a change is never taken for seen: the ID is looked up before the tracks are
\* fetched, changes may come between the two, and either request may fail.
SnapshotNotAhead ==
    \A k \in 1 .. Len(list) :
        list[k].count # None => list[k].snapshot <= list[k].seen

\* A tracklist whose snapshot ID is the service's is the service's tracklist,
\* whatever was added or removed through the client, except where the tracklist
\* was fetched between the request and its bookkeeping, which then adds or
\* removes the track once more.
TracksRight ==
    \A k \in 1 .. Len(list) \ twice :
        list[k].count # None /\ list[k].snapshot = remote[list[k].id].version =>
            list[k].count = remote[list[k].id].count

\* There is one instance per playlist, as long as the service lists the known
\* playlists first and in the order they are known in (the generator of
\* existing IDs is searched only once).
OneInstancePerPlaylist ==
    ordered => \A i, j \in 1 .. Len(list) : list[i].id = list[j].id => i = j

\* While its refresh time is recent the list can be read, unless the first
\* request for it failed.
ListReadable == timed /\ fresh => listed \/ unfetched

\* A refresh that succeeds finds every playlist and keeps every instance.
RefreshFindsAll ==
    [][fresh' /\ ~fresh /\ failures' = failures =>
         /\ \A p \in library : \E k \in 1 .. Len(list') : list'[k].id = p
         /\ IsPrefix(list, list')]_vars

=============================================================================
