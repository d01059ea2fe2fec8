# A formal model of wg-utilities

TLA+ specifications of the parts of `wg-utilities` in which state, concurrency or
failure make the code hard to test, with TLC configurations that check them on
small instances and TLAPS proofs of what matters most for every instance.
Paths are relative to `src/wg_utilities/`.

## 1. The system

`wg-utilities` is a library: API clients, device drivers, loggers and helpers that
an application calls. There is no server and no common state: each component below
is independent, except that the clients are built on the OAuth client, which is
built on the JSON API client and the temporary auth server, and that the warehouse
handler posts through the backoff decorator.

| Component | State it keeps | Operations | What is hard | What makes it correct |
|---|---|---|---|---|
| OAuth client (`clients/oauth_client.py`) | credentials in memory, a cache file shared by all processes with the same client ID, the provider's tokens | `access_token`, `credentials`, `refresh_access_token`, `run_first_time_login`, `delete_creds_file` | two processes refresh with one token; provider may rotate refresh tokens; non-atomic write; lost reply, crash; late redirects | a refresh token that replaced another is not lost; the file stays usable; a code goes to the login that asked for it |
| Temporary auth server (`api/temp_auth_server.py`) | server thread, port, last request per endpoint | `start_server`, `stop_server`, `wait_for_request`, endpoint | request against time limit; port pool; request replaced between look and read | waits end; ports released |
| Item Warehouse logging (`loggers/item_warehouse/`) | one queue, a listener thread per handler, `atexit` callbacks | `add_warehouse_handler`, logging, `emit`, `post_with_backoff`, `flush_and_stop` | shared queue and sentinels; feeder thread; retries and lost acknowledgements; a listener that dies; exit | no record vanishes; exit ends and drains |
| Backoff decorator (`functions/decorators.py`) | tries, start time, delay | `backoff` | which limit ends the retries | bounded tries, exception reaches the caller |
| Yamaha YAS-209 (`devices/yamaha_yas_209/`) | `_listening`, active subscriptions, last state/volume/track | `listen`, `stop_listening`, events, commands | listener thread against caller; failing resubscription; events against commands | at most one loop; `is_listening` tells the truth |
| Spotify client (`clients/spotify.py`) | lazily fetched lists, refresh times, snapshot IDs | properties, playlist refresh, `reset_properties` | staleness; failing refresh; changes by other applications | one instance per playlist, no change taken for seen |
| Google Drive client (`clients/google_drive.py`) | tree of known files and directories, "mapped" flags | lazy properties, `map`, search | two ways of filling one tree | one object per ID, mapped means complete |
| JSON processor (`helpers/processor/json.py`) | callback registry, the traversed object, the set of models processed so far | `process`, `process_model`, `register_callback` | callbacks replace, remove, insert and convert what is traversed, and change what models are equal; cycles; nested failures | everything reachable at the end was visited; a value is left only when the callbacks of its type were called; it ends |
| DHT22 (`devices/dht22/dht22_lib.py`) | bit counter, bytes of the message, counters | edge and watchdog callbacks, `trigger`, power cycle | callbacks lag behind edges, watchdog and application; 32-bit ticks | a reading is one the sensor sent, as far as the checksum can tell; each trigger is counted once; resets at every third silence only |
| List handler (`loggers/list_handler.py`) | records in memory with a time to live | `emit`, `expire_records`, properties | readers take no lock; records are not in order of creation; callbacks raise | no emitted record is lost or reported twice; old records are read only behind newer ones |
| Monzo, TrueLayer (`clients/monzo.py`, `truelayer.py`) | balances with a time of update, the current account | balance properties, deposits, transactions | updates that break off, partial replies, repeated deposits | a balance is at most a threshold and a request old; a deposit that is confirmed is made, and one with an ID of its own once |
| Google Photos (`clients/google_photos.py`) | known albums, paths of downloads, files | albums by ID and by list, `download`, `binary_content` | two ways of finding an album; a write that breaks off | one object per album; the content of an item is its own and whole |
| Instance cache (`helpers/mixin/instance_cache.py`) | registry of instances by cache ID, per class | `__init_subclass__`, `__post_init__`, `from_cache` | IDs inherited in part, attributes that change | duplicates are refused, and nothing else |
| JSON API client (`clients/json_api_client.py`) | none (paging state during a call) | `get_items` of its subclasses, requests | lists change between pages, empty answers, limits | no page misses an item that was there all the time |
| Google Calendar, Google Fit | none | ranges of dates, limits of days, sums | naive times, dates left out, a limit of 0 | what lies in the range is had, and nothing else |
| Pure helpers (`functions/`) | none | `chunk_list`, `flatten_dict`, ... | boundaries | agree with a reference |

`PROJECT.json` lists every component with its status, and every hazard with the line
where it bites and the properties that cover it.

## 2. The modules

### OAuth

* **`TempAuthServer`** models the server objects of all logins of a host:
  `bound` is the port of the server thread, `requestArgs` what the endpoint recorded.
  `StartServer` is `start_server` with the scan for the first free port,
  `StopServer` is `stop_server`, `GetAuthCode` the endpoint.
* **`OAuthClient`** extends it with the life cycle of credentials. `Clients` are client
  objects in different processes sharing one cache file. A call is a sequence of
  actions between the points at which another process, the provider or the user can be
  seen or can act: `refresh` → `refreshSent` → `refreshReply` → `write` → `writing`, or
  `login` → `wait` → `stop` → `codeSent` → `codeReply` → `write` → `writing`.
  Tokens are numbered by the grant that issued them; a JWT is expired when its
  number is at most `expired`. The environment is in the model: the provider
  (`ProviderRefresh`, `ProviderRefuses`, `ProviderExchange`), which rotates refresh
  tokens or not; the user (`Callback`), who may follow any link, at any time, several
  times, and may refuse; time; and the faults (`WriteFails`, `LoseReply`, `Crash`).
  `delete_creds_file` removes the file between calls.
  A call by another client that finds the file truncated raises (`Torn`). When two clients
  write at once, whoever ends last leaves the file with its own credentials, torn for good,
  or gone where it was deleted meanwhile (`WriteDone`).

`MCOAuth` instantiates both.

### Logging to warehouses

* **`LogDelivery`** is the abstract specification: a copy of an accepted record is
  pending until a warehouse holds the record, refused it, or the retries were given up.
* **`WarehouseLogging`** models `add_warehouse_handler`, logging, the `atexit` callbacks
  in their order, `flush_and_stop`, the feeder thread of the multiprocessing queue
  (`piped` items of `queue` are visible to `get` and `empty`), the listener threads and
  `post_with_backoff`. The package's own messages (`LogOwnThen`) are records as well, if
  its loggers have a handler. A handler with `job[h] = r` is in the post of record `r`.
  It implements `LogDelivery` under the mapping that counts copies of a record in the
  queue and in the listeners' hands.

`MCWarehouse` instantiates it with one warehouse and with two.

### Yamaha soundbar

* **`YamahaListener`** models the client, its listener threads and the soundbar.
  `listening` is `_listening`, `local` the attributes `_state` and `_volume_level`,
  `caller`, `awaited` and `call` where the application thread is in `listen` or in a
  service call. A thread (`worker[w]`) subscribes to each service in `todo[w]`, keeps the
  outcome in `subscribed[w]` and `failed[w]`, loops while it is listening, and tries the
  failures again from time to time. `dev` is what the soundbar does and `events` what it
  has told each subscription that is not handled yet. `Send`, `DeviceExecutes` and
  `CallFails` are the halves of a service action, so that events and the remote control
  come between them. `stop_listening` may be called at any time, as a callback can.
  `excused` is history: the attributes for which the code had no chance.
  The order in which services are tried is that of the code; the current track is left out
  because it is kept and fetched as the state and the volume are.

### Google Drive

* **`DriveTree`** models the tree of `Drive`, `Directory` and `File` objects. An object is
  `<<id, n>>`, the n-th made for a directory, because equality in the code is equality of
  IDs and nothing prevents several objects. `up` is the real tree; `dirs`, `files`,
  `parent`, `allDirs`, `allFiles` and the flags are the private attributes. Actions:
  `directories`, `files`, `children`, `reset_known_children`, one step of `navigate`,
  `search` and lookups by ID (`FindDirectory`, `FindFile`), the `parent` property, and both
  mappings. Each is one step: a single thread uses the client, and a failing request
  changes nothing except in `children`, whose halves are actions too. A mapping visits
  the items of one reply by recursion; on a tree, that is the same as hanging every item
  that is not known under the object that stands for its parent, which is how `MapDirs`
  states it. The contents of the drive do not change: the code keeps what it fetched and
  never claims to follow changes.

### Spotify playlists

* **`SpotifyPlaylists`** models `User.playlists`, `reset_properties` and the tracklists of the
  `Playlist` instances. `list` is `_playlists` (`listed`: it exists), `timed` and `fresh` say
  whether `_playlist_refresh_time` exists and is recent. An instance has the private
  attributes of the code: `snapshot`, `live` with `recent` for its time stamp, and `count`,
  how often `_tracks` holds the one track that is followed. `call` is an
  `add_tracks_to_playlist`, `remove_tracks_from_playlist` or a reading of `tracks` under way:
  between its requests other applications change the service (`Edit`, `Follow`, `Unfollow`),
  time passes, or the request fails. The existing IDs that a refresh looks for are a
  generator, which a failing search exhausts; `FoundFirst` says, without iterating, what it
  finds: the longest beginning of the reply that is a subsequence of the known IDs.
  Pages of one reply are not told apart here, but in `PagedLists`.

### JSON processor

* **`JSONProcessor`** is the traversal as a stack of calls over a heap of containers. An "iter"
  frame is `process` or `process_model` in its loop, with the locations it has `left`; a "loc"
  frame is `_process_loc` with the callbacks it has still to call. `content` is what the
  containers hold, a leaf being its type. What each callback may do is a constant: return a
  value of some type, return none, remove its own location, insert into the container it was
  called for, raise `Break`, fail, or lack an argument; and with any of these it may change
  `digest`, that is, a model's hash and what its equality reads. Reads of one location are
  separate steps, since a callback may have changed what is there. `MaxDepth` is the recursion
  limit, so a `RecursionError` is an outcome like another, and may be tolerated like another.
  `seen` is the set of models processed so far as Python has it: each is there with the hash it
  was added with, and a model is known (`Known`) if one with its present hash is there that is
  the same object or equal to it. Equal models are therefore passed over, and a model whose hash
  was changed is entered again. A dictionary that is given a key while it is iterated may give
  any keys next or raise (`Rekeyed`), as Python leaves open. `alike`, `grown` and `altered` are
  history: who was passed over for whom, what was inserted into, and whose hash has changed.
  Custom getters and iterators, and models that have no hash, are not modelled.

### DHT22

* **`DHT22`** has three actors: the application in `trigger`, the pigpio daemon with the
  watchdog, and `_cb`, which handles `events` in order and late. `bit`, `acc`, `checksum` and
  the counters are the attributes of the code. What arrives of a reply (`Arriving`) is what any
  number of disturbances leave of it, up to the bound: it breaks off, edges are lost, pulses are
  longer. The edge of the pull may be lost as well, or end a pulse that looks short because the
  ticks have come round (`Pull`), and the first rising edge may be lost or come within a wrap of
  the one before (`Release`). The line makes no edges up. The power cycle stops `_cb` and its
  edges may be noticed, lost or wrapped likewise (`PowerBack`). `astray` is history: a message
  lacks its beginning or goes on into the next. A byte has `ByteBits` bits, and ticks wrap at
  `Wrap`.

### Small machines

These have `PythonNone` in common, which declares `None`, and no state; `MCClients` runs them
in one model in which `focus` says, once and for all, which of them moves.

* **`PagedLists`**: every list that is fetched by pages, one `way` at a time: by offset
  (Spotify) or by token (Google), with a limit or a date at which it stops, kept by a property
  or not, and with what comes with the first page. The service's list, the newest item first,
  changes between any two pages, and an answer may be empty.
* **`BankBalances`**: the balance properties of both banks. A value is the time it was right,
  and a read is a sequence of steps between which time passes; TrueLayer's replies may lack
  fields, and a date that cannot be parsed ends an update in the middle.
* **`MonzoPots`**: what the application means to deposit (`intents`), the calls that try it, the
  requests on their way to the bank, each with the dedupe ID it got when the call began, and
  what the bank has made (`moved`). A request may be lost or handled after its call has
  given up, a reply may be lost, and the application repeats what it has not seen succeed,
  in any later second. The account that pays is looked up once and may be closed later,
  and then the bank refuses.
* **`PhotoLibrary`**: albums found by ID and by listing, and downloads to paths that several
  items may share; a write may break off, and the process may die and start again.
* **`RecordList`**: the list handler, one step for every operation on the list, with writers
  that exclude one another by the handler's lock and readers that do not.
* **`InstanceCache`**: classes declared with an attribute, a method, both or neither, and with a
  `__hash__` of their own or not, in any order of inheritance, and instances with any IDs, one
  of which may be a pair of others. Look-up and entry are one step: instances are made by
  one thread.
* **`DateRanges`**: what ranges of dates four clients ask their services for, for every
  combination of times left out, naive or in a zone, and limits of days.

## 3. The runs

| Run | Shows | Bounds |
|---|---|---|
| `oauth` | types; a code is exchanged once and by its own login; without faults refresh tokens are not lost and the file stays usable; the file never receives a dead token; servers are released; calls end | 2 clients, 1 port (so that they compete for it), 2 links, 3 grants, 2 redirects, 1 fault or file deletion |
| `oauth_stale_request` | **violation**: `wait_for_request` returns a request of an earlier login | 1 client, 2 links, 1 redirect |
| `warehouse` | order is kept with one handler; exit drains the queue and ends; `LogDelivery` is implemented; records are settled | 2 handlers on one warehouse, 2 application records and 1 record of the package itself, tries limited to 2 or unlimited |
| `warehouse_misroute` | **violation**: a record is posted to the other logger's warehouse | 2 handlers, 2 warehouses |
| `yamaha` | no service is lost between subscription and retries; listening means that a loop runs unless a thread died; what the client holds is what the soundbar does once all is quiet; `listen` returns; loops end after `stop_listening` | 2 listener threads, 2 incidents (commands, remote control, stops, failures, lost events, together), 2 states, 2 volumes |
| `yamaha_dead_listener` | **violation**: `is_listening` is true and no thread runs | 1 listener thread, 1 incident |
| `drive` | lists have one object per directory; objects form the tree of the drive; loaded lists are complete; a mapping completes a tree that agrees with the drive's list | 2 directories in every tree, 1 file, 2 objects per directory |
| `drive_map` | **violation**: `all_directories` lacks directories known before | the same |
| `spotify` | a snapshot ID is never newer than the tracklist; a tracklist that counts as up to date is; one instance per playlist, under a condition on the order of the replies; a refresh finds every playlist and keeps the instances | 2 playlists, 3 instances, 2 changes by anybody, 1 failing request |
| `json` | whatever callbacks do, a traversal that returns has been everywhere, but in what was inserted and in models passed over for equal ones, and called what applies; what exhausts the stack; it ends | 7 documents of up to 4 containers (shared, cyclic, equal models, tuple, string), 8 definitions of which 2 are registered, containers of at most 3 after an insertion, 4 hashes, 7 calls deep |
| `dht22` | an accepted reading is the one the sensor sent, unless two pulses of its message were longer or a message went on into the next; triggers are counted once; resets are justified | bytes of 2 bits, 4 triggers, 2 upsets (edges lost or late, in one reply or several, wrapped pulls, wrong distances, lags), 2 waiting timeouts, ticks modulo 7 |
| `clients` | lists are complete; balances are fresh; deposits that are confirmed are made, and none twice but for a repetition in another second; albums and contents are right; no record is lost; duplicates are refused; ranges mean what was asked | pages of 2 of up to 5 items; threshold 2, requests of 1, 4 units of time; 1 account, 2 pots, 2 amounts, 2 intended deposits, 1 ID of the application's own, 2 seconds; 2 albums, 3 photos, 2 downloads; 2 writers, 1 reader, 3 records; 2 classes, 2 instances, 2 values and the pair of them; 4 hours in days of 2 |

Two clients are enough for the interference through the file and the port: each property
speaks of one client and of what one other did. Three grants are the old one and one more
for each client, which is what it takes for one to use up the token the other holds and
for a refresh after a login. Two links allow a late redirect of the first to reach the
server of the second. Two handlers give each listener a sentinel that is not its own;
two records make an order, and the package's record the feedback into the queue.
Two listener threads are an old one that has not yet seen that it should end and a new
one; volumes 28 and 29 differ in whether `int(level * 100)` gives them back. Two
incidents are enough for a command to cross a use of the remote control, for a stop and
a failure, and for a failure among the retries of another. Two directories make a chain
and a pair of siblings, and two objects for each what a second way of finding it makes.
Four triggers are the three silent ones that lead to a reset and one after; two bits are the
least in which a byte has a sign and a magnitude, and the message of the run uses both. The
callbacks of `json` lead from one type to the next and never back, as conversions that are
meant to end do; two of them are enough for one to act on what the other left. Seven calls are
enough for every document of the run in which nothing repeats, and few enough for those in
which something does to fill the stack; four hashes let a model be entered within itself until it
is. Five items
make three pages of which one can move while it is fetched; two instances are one and its
duplicate, of one class or of a class and its subclass; two intended deposits are a repeated
one and another; two upsets raise two bits of one reply, or lose the edge of a pull and
that after it; three records are an old one, a fresh one and one that arrives late.
Two playlists have an order in a reply, three instances are a known one, a new one and a
duplicate, and two changes are the client's own and another application's.

Fairness. `OAuthClient`: `WF(Step(c))`, that is, a thread inside a call is scheduled and
what it waits for happens: its time limit passes (`max_wait` is finite), and a request is
answered or its connection breaks. The last is an assumption: the code gives its requests
no timeout. Redirects, expiry and new calls are never assumed to happen.
`WarehouseLogging`: the main thread gets on with the exit once it has begun, the feeder
thread is scheduled, a waiting listener that can infinitely often take an item takes one
(strong fairness: `get` is contended by the listeners), and attempts end, with the
decorator's timeout, a day by default, passing in the end. The application need never exit,
and a warehouse need never answer.
`YamahaListener`: `WF(ListenReturns)`, `WF(Setup(w))`, `WF(Loop(w))`: the threads are
scheduled (each loop sleeps and looks again) and an attempt to subscribe ends, which the
UPnP requester's timeout sees to. Events, commands and failures are never assumed.
`JSONProcessor`: `WF(Next)`: a traversal is one thread that runs, and callbacks return or raise.
`DriveTree`, `SpotifyPlaylists`, `DHT22` and the small machines have no liveness: their
operations are calls that return, and a trigger that is not answered is the watchdog's to count.
`CHECK_DEADLOCK FALSE` stands where a run may stop because its bounds are used up.

## 4. What is proved

For every number of clients, ports, links, grants, redirects and faults, of listener
threads and incidents, of records, retries and warehouses and every finite set of handlers,
for every drive and number of objects, for every finite set of playlists, for every heap of
containers, types, callbacks and depth of recursion, for bytes of any size, and for every
threshold and latency, set of media items, tree of classes, zones and limits, and finite set
of albums or of threads that log:

* `OAuthClientProofs`: `TypeCorrect`, `CodesExchangedOnce`, `ServersReleased`,
  `RefreshTokensKept`, `CacheFileStaysUsable`, `DeadTokensNotCached`.
  `TypeOK` is not inductive alone: a refresh and a write need credentials in memory, which
  `Held` adds. `LoginInv` strengthens the login properties: a state token belongs to one
  login, is not above `logins`, and a link's code is exchanged only by the login that
  is at `codeSent` with it, so that an exchange count is 0 before that. `CredsInv`
  strengthens the others: no token comes from a grant not yet made,
  a token the provider no longer accepts has a known consumer, credentials about
  to be written hold a valid refresh token, and, without faults, whoever used up the
  token in memory or in the file has the replacement or is about to receive it. Of a file that
  two overlapping writes have left torn or gone nothing is said.
* `WarehouseProofs`: `WarehouseTypes`, `OrderIsKept`, `ExitHasDrained`,
  `DeliveryIsImplemented`. `WarehouseInv` says where things are: nothing is on the queue or in
  hand that was not logged, nothing is logged twice; with one handler, what it holds is
  settled before what is on the queue, and that is on the queue in order (`OrderInv`); a
  sentinel comes after all that the application logged, and once a listener has ended
  none of that is left (`SentinelInv`); and each listener that is not over has a flush that
  will join it (`JoinInv`). That settles `ExitDrains` for every number of handlers that share
  a queue and take each other's sentinels. The refinement is by cases: each action of
  `WarehouseLogging` changes the number of copies of at most one record, as an action of
  `LogDelivery` does, or of none, as the feeder does. Counting copies takes lemmas on the
  places in a sequence at which a record is, after `Append`, `Tail` and concatenation.
* `YamahaProofs`: `NoServiceLost`, `SomeLoopRuns`, `CopiesFollow`, `ListenerTypes`.
  `ServicesKept` speaks of threads in their loop only; `ListenerInv` accounts for each service
  at every stage: to be tried, subscribed to or failed. During the retries the account is
  weaker, because a service is subscribed to before it is taken off the list of failures, and
  what is still to be tried must be a failure that is not subscribed to. `CopyInv` adds that the
  last event on its way to any thread is the present value (`LatestOnItsWay`), and that for a
  service with none on its way the copy agrees with the soundbar or with the command that is
  about to change it (`CopyFollows`). `ListenerTypes` is type correctness, for which the volume
  of the soundbar has to be any of 0 to 100 and not only a level of the application: what is
  sent may be one below it (`DesiredVolume`).
* `DriveProofs`: `OneObjectPerList`, `LoadedListsComplete`, `TreeOfObjects`,
  `ParentsOfTheDrive`, `MappingCompletes`. The parts of
  `TreeInv` need one another: a loaded list stays complete because what other operations
  add to it are children, and they are children because whatever is in a list knows the
  owner of the list as its parent, and parents are right. `Progress` says what every
  operation does to the tree; one lemma per operation shows it, and `Keeping` shows once
  that it preserves the invariant. `MappingCompletes` is about the two actions that
  complete a mapping.
* `SpotifyProofs`: `SnapshotNeverAhead`, `UpToDateTracks`, `OneInstance`, `RecentListReadable`,
  `RefreshComplete`, that is, every property of the run, and that the list can be read
  (`ListReadable`).
  `SpotifyInv` adds that no version an instance mentions is ahead of the service, and that
  after a request, until its bookkeeping, the playlist's snapshot ID is out of date; so a
  tracklist that the bookkeeping changes is not taken for the service's. The lemmas on
  `FoundFirst` count: what is found of a reply is closed downwards, hence an initial part.
* `JSONProofs`: `ReturnsComplete`, `TypesConverge`, `OverflowsAreExplained`, for any hashes and
  any equality of the models, whatever callbacks make of them. The first two properties do not
  mention the stack, and neither is inductive without it. `Machine` gives its shape: loops, and
  above them the calls for the one location the innermost loop is at. `Coverage` says that each
  location of each container that was entered has been looked at, or a loop has it before it or
  is at it; or else a location some loop has before it is gone, and that loop will raise when it
  gets there (`Gone`), which is why removing an item of a list cannot make the traversal skip
  another quietly; and that a container in a place that was looked at was entered, or was passed
  over for one that was. What was inserted into is left out of it (`grown`). `Conversions` says
  of each location that all callbacks for the type it has now were called, or a call for that
  type is on the stack with the rest of them. `OverflowsAreExplained` counts. `Depth` keeps what
  limits a stack: the models that its loops are of are in `seen` under their present hash or
  have had it changed (`MarksOf`), no two of those that have kept it are one, and the loop that
  will empty `seen` has no model below it (`LoopsNest`); a call above another is of a type that
  a callback returned, of a higher rank than the calls below (`CallsNest`), unless the container
  takes no new value. So, without a cycle outside of models and without a model that was
  rehashed and entered within itself, a loop is known by its container and the innermost model
  around it, and a call by its type: injections into finite sets, whose cardinalities bound the
  stack (`LoopsBounded`, `CallsBounded`). The theorem has two hypotheses beyond those of the
  constants. `DeepEnough`: the limit of recursion is greater than the containers times one more
  than the models, plus the types returned and one; below that a document without any cycle may
  be too deep. `ConversionsEnd`: the types that callbacks return can be ranked so that every
  conversion raises the rank; callbacks that convert to and fro exhaust any stack. Under them
  the last explanation, the string, is a case of the first. `DeepEnough` is a bound that
  suffices for every heap; with the containers of the run it asks for 27, too many states for
  TLC. The run has a limit of 7, and the lower the limit, the more often is the stack full and
  has to be explained: the documents of the run are so small that the explanations do for 7
  already.
* `DHT22Proofs`: `CallsCounted`, `ResetsInTurn`, `ReadingsAreSent`, `BytesFit`. The first two
  speak of the driver at rest, so that `DriverInv` has to say what is counted at each `Stage` of
  a call of `trigger`: before and after `_cb` has seen the pull, with n edges of the reply
  waiting behind the rising edge, with n edges left to read, with or without the watchdog's
  timeout behind them, and through a power cycle. A message that lacks one edge is carried over
  (`Late`). For `ReadingsAreSent`, `SourceInv` follows the bits: unless a message is `astray`,
  the one that is read can no longer be accepted (its checksum is beyond what a byte holds, or a
  bit lies behind the last), or is awaited (`Awaits`), or what was read of it is the first
  pulses of one reply as it arrives, and its other pulses come next, before anything that ends
  or begins a message (`Receives`). Since edges may be lost in any number, the invariant says of
  what arrives only that it is a reply's pulses with some left out and some longer. When all the
  bits are there none was left out, and with at most one longer than it was sent, one bit may
  have been raised from 0 to 1. That adds the worth of one place to one byte, which is less than
  the values a byte has, so that the checksum refuses the message (`RaisedInvalid`); two such
  bits may make up for each other, which is why the property excepts them. `Number` is a
  recursive function, and what it says of the bits (`NumberSplits`, `NumberRaised`) is an
  induction over places, from `AllNumbers`: a set of numbers that holds 0 and every successor is
  all of them. `BytesFit` is type correctness: a byte of which `bit` says that k bits were read
  is below the k-th power of 2 (`Fits`).
* `ClientProofs`, for the small machines:
  - `BalancesFresh`. The invariant dates everything: what is kept is older than the
    update by at most a request, unless the reply left it out, and a request under way was sent
    after the last update, so that an update that breaks off cannot make a value look fresher.
  - `DepositsAreMade`. Whatever is on its way or made has the ID its intent had in the second
    of the attempt (`Meant`), no two deposits that were made have one ID, and a call that has its
    reply finds its own ID among them (`AttemptInv`). An ID then leads back to the intent, or to
    an equal one of the same second (`SameId`).
  - `PhotosStayRight`. Every file suits the path it has, and one that is not whole is
    being written or was broken off; lists of albums grow by what is not in them.
  - `RecordsStayRight`. The invariant counts where a record is: in the list, in a
    thread's hands, given to `on_expiry`; the sum is 1 from the record's emit on and 0 before.
    It also says that the record a thread is to emit is nobody else's, and, as long as no two
    threads were in the handler at once, that what is in front after an expiry is fresh.
  - `DuplicatesAreJustified`. The registry holds exactly the accepted instances, each under
    the ID it had when it was made, so that later changes of attributes do not matter. When two
    instances have one ID is a lemma on pairs (`SameCacheId`): a value alone is that value
    wherever it comes from, even if it is a pair.
  - `RangesAreRight`. The question and its answer are one step; the lemmas say how a time that
    is given, or now, moves to UTC and back by days, and the proof is by client. For a calendar
    both of the beginnings that its docstring and its code give are accepted.
  - `PagesAreComplete`. What was due and is not fetched yet is ahead of the next place and
    older than all that was fetched (`ToCome`). A saved item moves the others further on; a
    removed one moves them back, past an offset but not past a token. The lemmas turn the
    greatest item that a token or a date divides a list at into positions, from
    `LeastNumber`: that a set of numbers has a least one follows from the library's
    `NatLessThanWellFounded`, which takes no operator.

Each proof shows that `Init` implies the invariant, that every action preserves it, one
lemma per action or per group of actions that disturb the same variables, and that it
implies the property. The assumptions are those of the constants in the modules: the
bounds are natural numbers, the sentinels and `None` differ from the data, a day and a page
are not empty, the inputs of a traversal are well-formed, and handlers, albums and threads
are finitely many. The proofs assume no fairness.

The strengthened invariants of `OAuthClient`, `YamahaListener` (`CopyInv` over 326,635 states),
`DriveTree`, `SpotifyPlaylists`, `WarehouseLogging` (with one warehouse and with two) and
`PagedLists` (`ToCome` over 460,726 states) were model-checked before they were proved. Those of
`DHT22`, `JSONProcessor`, `MonzoPots` and `InstanceCache` quantify over all numbers or sequences,
and TLC has found out about the properties themselves: over 497,633 states for `dht22`, 536,070
for `json` and 2,261,330 for `clients`; `oauth` has 295,511.

Of the properties that the runs check, these are only model-checked:

* all liveness (`CallsEnd`, `ExitEnds`, `EveryRecordSettled`, `ListenEnds`, `StopStops`,
  `Terminates`), which is beyond the prover.

## 5. Where the code and its texts disagree

* `wait_for_request` is documented to wait for a request; a request recorded in an earlier
  login satisfies it at once, so each later login on that client fails with the old state.
* Handlers of two warehouses share one queue, so records reach the wrong warehouse.
* `is_listening` is documented to say whether the listener is running; it stays true when
  the listener thread dies of an exception after it began.
* `all_directories` is documented to give all directories; a mapping keeps only those it
  made itself, so the ones that were known before disappear from the list.

Met while modelling, and stated as conditions of properties that hold: `User.playlists`
promises that "Only new playlists will be added", but if the service lists a new playlist
before a known one, the known one is added again (`OneInstancePerPlaylist` is conditional on
`ordered`); if the first request for the list fails, reading the list raises for ten minutes
(`unfetched`); and `add_tracks_to_playlist` extends a tracklist that it may just have fetched
again, which then holds the track twice until the next change (`twice`).

The newer modules met these; each is a behaviour of the model, and where a property holds
only without it, a condition of the property:

* TrueLayer: `balance` is `available or current`, so an available balance of 0 gives the
  current one (`truelayer.py:387`); a field that a reply leaves out keeps its old value under
  the new date (`:311`); with nothing but an old `to_datetime`, `get_transactions` asks for a
  range that begins, 90 days ago, after its end (`:247`), although its docstring says that the
  date left out "maximises the range of results returned" (`:237`). `RangesRight` has the range of
  the code, and nothing in it.
* OAuth: two writes of the cache file that overlap may leave it torn for good, and whoever reads it
  raises until it is written anew or deleted (`oauth_client.py:388`). `CacheFileUsable` speaks of the
  refresh token in a file that can be read.
* Monzo: `list_transactions` writes the wall clock of any zone as UTC (`monzo.py:294`); the
  result of `sort_code.ljust` is discarded (`:254`); a deposit repeated in a later second
  without an ID of its own is made twice (`:459`), whether or not the first was heard of.
* Paging: an empty answer ends the paging of Spotify lists quietly and is a `KeyError` in those
  with a key of their own and for Google.
* Calendar: the docstring of `get_events` says that `from_datetime` "Defaults to 90 days ago" and
  `to_datetime` "to now" (`google_calendar.py:298`, `:300`), but with an end given and no beginning
  the code counts the 90 days back from that end (`:319`). `RangesRight` accepts either beginning:
  what lies after both is had, and nothing that lies before both.
* Calendar and Fit: a `day_limit` of 0 alone is no limit, and a limit with one naive and one
  aware time is a `TypeError` (`google_calendar.py:323`). Naive times are UTC for a calendar and
  local for Fit.
* JSON processor: with `process_subclasses` off a string is processed as a sequence of strings
  until the stack is full (`json.py:297`), and so is a callback that changes the type of an item
  of a tuple; callbacks registered for the old type are still called with the converted value
  (`:619`); a failure in a nested call that is not tolerated is swallowed by an outer callback
  that is; and the removal of an item ends in `LocNotFoundError` unless errors are ignored. A
  model is passed over if it is equal to one that is being processed or was in the same call
  (`:678`, `:723`), which for Spotify's entities is one of the same URI, ID and name
  (`spotify.py:657`, `:671`), even if what it holds differs; a model whose hash a callback
  changes while it is processed is entered again where it contains itself, until
  `RecursionError` if that goes on. The end of a list is taken once (`:470`), so that what an
  insertion moves behind it is not looked at, and a dictionary that is given a key ends in
  `RuntimeError` or, if another went, in any order of keys. These are the exceptions of
  `Complete` and `OverflowExplained`.
* List handler: readers take no lock, so `pop` may find the list empty and the `emit` of a
  record ends in `IndexError`, records may change places, and a reader may miss a fresh record
  that another thread holds (`list_handler.py:67`).
* Google Photos: a file left half written counts as downloaded from then on
  (`google_photos.py:233`).
* Instance cache: a subclass that names nothing gets `__hash__` beside an inherited attribute,
  so no duplicate of its instances is ever found, unless it defines a `__hash__` of its own
  (`instance_cache.py:113`).
* DHT22: a `set_watchdog` that comes late lets the handling of the old message cancel the new
  watchdog, and a message that lacks one edge counts as full when its watchdog comes
  (`dht22_lib.py:181`). The sum of four bytes does not see two raised bits that make up for each
  other, one of the data and the same place of the checksum, say: two lost rising edges that
  make two pulses long are then accepted as a reading (`:100` to `:122`). The edge of a pull
  is a long pulse by the ticks except near a multiple of 2^32 microseconds after the last
  rising edge (`:96`), or it is lost: then a message that lacks an edge goes on into the next,
  and what is accepted may be of both. `ReadingSent` excepts these two, and only these.

## 6. Not modelled, and why

Formatting and parsing of payloads, URLs and headers; time as a number (a time limit or an
expiry may fall between any two steps instead); the growth of backoff delays; vendor
drivers and thin wrappers of the standard library (`PROJECT.json` names them). In
`WarehouseLogging`, the creation of the warehouse on start-up and handlers without a queue
are not modelled. Of Spotify, single entities with their lazy properties (the lists are in
`PagedLists`); of Monzo, the list of pots; of the JSON processor, custom getters and
iterators. The pure helpers (`chunk_list`, `flatten_dict` and the like) have no state, and
their unit tests reach the cases a bounded check would. Two threads using one client object at
the same time are not modelled, except for the list handler, whose base class is made for
it: the clients have no such use and no protection for it, and the instance cache looks for an ID
and enters it without a lock (`instance_cache.py:140`, `:143`). Edges that no sensor made are
not on the line of `DHT22`.

Hazards that no run covers: requests have no time limit of their own
(`json_api_client.py:178`), which is a fairness assumption here; equal warehouse handlers are
looked for in two ways (`warehouse_handler.py:194`), of which the direct mode is not modelled;
the error after a failing first request for playlists (`spotify.py:1490`) is covered by the
theorem `RecentListReadable` and by no run; whether a CONFLICT is logged as an error
(`warehouse_handler.py:125`) is a message; and a stop that the worker overwrites, or that leaves
`listen` waiting (`yamaha_yas_209.py:780`), is what the code does, so that `StopStops` and
`ListenEnds` hold with both excused. Where a property holds because it excuses what the code
does, the note of the hazard in `PROJECT.json` says so.

## 7. Plan

What is left is `WarehouseLogging`: the creation of the warehouse on start-up and the direct
mode of its handlers.
