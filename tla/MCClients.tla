---------------------------------- MODULE MCClients ----------------------------------
(* The smaller machines of the repository, each on its own: which one it is about is    *)
(* chosen at the start, and the others rest.                                           *)
EXTENDS PagedLists, BankBalances, MonzoPots, PhotoLibrary, RecordList, InstanceCache,
        DateRanges

CONSTANTS value1, value2

VARIABLE focus

MCWays == {SavedAlbums, FollowedArtists, AlbumTracks, SearchResults, RecentlyLiked(3, 2),
           RecentlyLiked(Unlimited, 2), RecentlyLiked(0, 0), TopTracksUpTo(1), ArtistAlbums,
           MediaItems, CalendarEvents}

\* Two items of the same name and day, and one of another day.
MCPhotos == {[day |-> 1, name |-> "a", id |-> 1], [day |-> 2, name |-> "a", id |-> 2],
             [day |-> 2, name |-> "a", id |-> 3]}

\* A value may be a pair of others.
MCValues == {value1, value2, <<value1, value2>>}

Init ==
    /\ focus \in {"pages", "balances", "pots", "photos", "records", "instances", "ranges"}
    /\ PagesInit /\ BankInit /\ PotsInit /\ PhotosInit /\ RecordsInit /\ CacheInit
    /\ RangesInit
    /\ focus # "pages" => way = SavedAlbums /\ newest = 0
    /\ focus # "balances" => bank = "monzo"
    /\ focus # "photos" => online = {}
    /\ focus # "ranges" => local = 0

allVars == <<focus, pagesVars, bankVars, potsVars, photoVars, recordVars, cacheVars, rangeVars>>

Next ==
    /\ UNCHANGED focus
    /\ \/ /\ focus = "pages" /\ PagesNext
          /\ UNCHANGED <<bankVars, potsVars, photoVars, recordVars, cacheVars, rangeVars>>
       \/ /\ focus = "balances" /\ BankNext
          /\ UNCHANGED <<pagesVars, potsVars, photoVars, recordVars, cacheVars, rangeVars>>
       \/ /\ focus = "pots" /\ PotsNext
          /\ UNCHANGED <<pagesVars, bankVars, photoVars, recordVars, cacheVars, rangeVars>>
       \/ /\ focus = "photos" /\ PhotosNext
          /\ UNCHANGED <<pagesVars, bankVars, potsVars, recordVars, cacheVars, rangeVars>>
       \/ /\ focus = "records" /\ RecordsNext
          /\ UNCHANGED <<pagesVars, bankVars, potsVars, photoVars, cacheVars, rangeVars>>
       \/ /\ focus = "instances" /\ CacheNext
          /\ UNCHANGED <<pagesVars, bankVars, potsVars, photoVars, recordVars, rangeVars>>
       \/ /\ focus = "ranges" /\ RangesNext
          /\ UNCHANGED <<pagesVars, bankVars, potsVars, photoVars, recordVars, cacheVars>>

Spec == Init /\ [][Next]_allVars
======================================================================================
