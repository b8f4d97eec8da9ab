# Muzon in TLA+

TLA+ modules for the parts of Muzon that keep state and can get it wrong in
ways a unit test hardly reaches, the TLC configurations that check small
instances, and proofs for every instance. The definitions are translated from
the Rust sources under `src/`; `PROJECT.json` gives for each of them the lines
it stands for, and for each property a mutation of the code that breaks it.

## 1. The system

Muzon is a local music player. A *core* process owns the state and serves a
Unix socket; the desktop shell and the control tool are its clients.

```
 shell, muzon ctl ──IpcClient──► socket ──serve──► CoreHandle ──► queue, playback, skins
                                                      │
                                          library (SQLite)  ◄── scanner ◄── files
 every process ──► RotatingWriter ──► muzon.log, muzon.log.1, ...
```

| part | state | operations | what makes it hard |
|---|---|---|---|
| playback queue (`muzon-audio/queue.rs`) | history, current, up_next, a shadow list of the unshuffled order, repeat mode, shuffle | enqueue, enqueue_next, remove, move_item, clear, next, prev, set_shuffle, set_repeat | four lists that must agree after any sequence of calls; positions across three lists |
| log writer (`muzon-core/logging.rs`) | the open file, a byte counter; on disk: the log and its numbered predecessors | write, rotate | several processes and no lock, a rename that fails, a kill between two renames, a handle that outlives its file's name |
| IPC transport (`muzon-ipc/client.rs`, `server.rs`) | a byte stream per connection, where each side is in a frame | connect, call; accept, read, handle, write | timeouts in the middle of a frame, late answers, panics, backpressure |
| headless core (`muzon-cli/headless.rs`, `main.rs`) | main task, server task, socket file, logging subscriber | start, serve, signal, exit | two tasks and a file shared by all cores of a user; crashes leave the file |
| library scanner (`muzon-library/scanner.rs`, `schema.rs`, `migrations/`) | `tracks`, its full-text rows, the locals of each scan in flight | scan_all, scan_one, refresh, remove | several statements without a transaction, files that change underneath, concurrent scans |
| library queries (`search.rs`, `db.rs`, `playback_log.rs`) | the tables of the scanner, and the playback log | search, facets, counts, overview, record | several queries without a transaction, rows that come and go between them, foreign keys |
| tags, path parser (`tags.rs`, `tagwrite.rs`, `path_parse.rs`) | none | read, back up, parse | text and file formats |
| smart playlists, duplicates (`smart_playlist.rs`, `duplicates.rs`) | a list of ids / none | evaluate, parse, update; find | precedence, tolerance over groups |
| recommendation (`vec_index.rs`, `mood_map.rs`) | a list of vectors | insert, nearest, cluster | ties and boundaries |
| analysis (`features/`, `embeddings.rs`, `quality.rs`) | none | numeric functions | floating point |
| metadata services (`autotag.rs`, `musicbrainz.rs`, `muzon-musiclab`) | none | HTTP calls, stubs | the network |
| skins (`muzon-skin`) | installed packages, one staging directory, the active skin | install, list, load, validate | shared staging directory, test before rename, interrupted installs |
| core handle (`muzon-ui/lib.rs`) | volume, active skin, settings behind a lock | dispatch | lock released between an update and the status it answers with |
| play command, engine (`muzon-cli/main.rs`, `muzon-audio/engine.rs`) | a GStreamer pipeline, a timer | play, stop | a stop that comes before the play or produces no end of stream |
| configuration, paths, start (`muzon-core/config.rs`, `paths.rs`, `main.rs`) | the configuration | load, override, validate, create directories | four layers, an opt-in that must hold after all of them |
| control client, message types, shell, frontend | little or none | forwarding | – |

## 2. What is modelled

What keeps state and runs beside something else has a module with one action per
step; what is a pure function has a module of operators, which `MCAlgorithms`
compares with definitions of their own. Section 6 says what has neither.

### Queue, Playlist

`Queue` has the six fields of `struct Queue` as variables and one action per
public method. A track is an opaque value, and may be queued twice. The seeded
Fisher–Yates shuffle is a choice among all reorderings. Positions are the
0-based positions of the snapshot a client sees and may be out of range.
The constant `Ops` says which operations a client uses.

`Playlist` is what a listener sees: one tape and a cursor. `MCQueue` maps the
queue to it (`tape` is history, current and upcoming in a row, the cursor is the
length of the history), and `QueueIsPlaylist` shows that the queue implements
it, so that three lists and the positions across them amount to one. Every
operation maps to one of the tape's, `next` to a move of the cursor alone. Two
of them are weaker than a user would expect, and `Playlist` says as much as the
code does:

* `next` pops the head of the *shuffled* list and index 0 of the shadow list.
  From then on the shadow list is no longer "a parallel list of `up_next`"
  (queue.rs:36), and a later shuffle-off brings the played track back and loses
  another. `Playlist!Restore` lets the entries after the cursor become any list
  that is not longer.
* `prev` puts the track it goes back to in front of `up_next` *and* into
  `current`; with an empty history it drops the current track. Both are in the
  model (`Playlist!GoBack`); `EntriesConserved` names `prev` and shuffle-off as
  its exceptions.

### LogRotation

`dir` is the directory (slot 0 the log, slot n `path.n`), `size` the length of
each file; each process has its open file, its counter and its place in
`rotate`. A process holds a mutex during `write`, so it makes one at a time; no
lock is shared between processes, so every file-system call of `rotate` is a
step of its own. A rename or remove may fail (`MayFail`) and its error is
ignored, as in the code. `Stop` kills a process anywhere. The reset of the
counter, which only its own process sees, is part of the write that starts the
rotation.

`MCLogRotation` adds the history variable `calm`: processes have run one after
the other and no call has failed. That is what `OnlyOldestDiscarded` and
`WriteLeavesPathWithinCap` assume; kills are allowed.

The open handle is never replaced: after the first rotation records go to
`path.1` and later to a file without a name, although the comment in `rotate`
means the next write to open a fresh file. The model writes where the code does.

### Ipc

A value of `Client` is one connection. `phase` is where `IpcClient::call` is,
`task` where `handle_connection` is; `up` and `down` are the two directions of
the stream, each item the length or the body of a frame, labelled with the call
it belongs to. The label is for the properties only: no guard reads it, since
the messages of the code carry no number. A timeout may come at any wait and
leaves the stream as it is. Bytes out of step that are read as a length give one
that means nothing (`recv_junk`, `read_junk`), and a payload takes as many bytes
as its length says, of whatever frames (`ReadAny`, `Swallow`): it may stop within
an item, whose remainder is of kind `rest`, or at the end of a frame, and then the
two ends are in step again. Decoding such a payload ends the task or gives a request nobody
made (`Junk`). So the length that a call left behind when it timed out may swallow a later
request that was sent whole, on a connection that lives on. `SentIsHandled` is
therefore about a request with nothing but whole frames before and after it
(`WholeFrames`), which is every request of a connection without a timeout, and
those of the others from the moment they are in step again.

The next call after a timeout returns the late response;
up to the first timeout responses and calls match
(`AnswersOwnCall`).

`Calls` is what a caller is promised, without streams or frames: requests are
executed at most once and responses returned at most once, both in the order of
the calls; nothing is returned that was not executed; and only after a timeout may
an answer be late or be made up from half a frame. `IpcCalls` adds the history
variable `last` (the last call whose response was returned) to `Ipc` and states
that it implements `Calls` (`IpcIsCalls`).

### Headless

Each core has a main task (`main`), a server task (`server`), and shares
`socket` with all others. The steps of a task are separated where it awaits or
where another process can interfere: the removal of the old socket, the bind
and the chmod of `serve`, and the removal and abort of the shutdown are
separate. `abort` takes effect where the server task yields.

`LoggerSet` says whether the process has a logging subscriber when `headless::run`
is entered. The `muzon` binary sets one in `main`, and `run` then fails with exit
code 1 (run `headless_main`). Were it not for that, its `block_on` would panic,
since `main` is inside a runtime already; `muzonctl` does panic there (`CoreHandle`,
constant `Nested`). What `run` does after that point is modelled with `LoggerSet`
containing FALSE. `overlap` is a history variable: it is true while the running
cores have met or follow one another, and the properties of a core alone are
conditioned on it.

### Scanner

`tracks` and `fts` are the two tables by row id. Each SQL statement is one
operator, triggers included; each action of a task is one step of `scan_one`
between two awaits: stat, upsert, tag read, tag update, path update, search
row. `Edit` changes files at any time, and the watcher's events are delivered
late, out of order or, with a crash, not at all. A statement may fail, a scan
may be cancelled or die anywhere. A title stands for where it comes from, so a
title in the wrong row or an outdated one can be told.

The path's title is written over the tag's in `tracks`, against the comment in
the code that the tag is authoritative, while the search row ends with the tag's. It
takes a path that parses, hence a configured scan root: `muzon scan` has none.

### SkinInstall

A directory is a function from names to files, and of a file the model keeps
the package it comes from and whether it is complete. `at` is the place of each
install in `install_zip` and `load_zip`, or `install_directory`; every call
that another install can disturb is a step. All installs of a user share
`cache/skin-staging`. What a process has open stays open when the directory is
renamed, as in the kernel: a write goes on into the installed skin (`open`),
and so does the removal of files, since `remove_dir_all` works on the open
directory (`wiping`). So an install that starts while another is about to
commit may take files out of a skin that was just reported as installed; what
the model shows is that nothing else can happen to it (`InstalledIsKept`).
`alone` and `asked` are history variables: an install that had the staging
directory to itself, and the package a skin was made from by such an install.

The layout check refuses every entry whose path is absolute or has a `..` in it, and
the paths it sees begin with the directory it is given (`Absolute`, `Dotted`). Under
`MuzonPaths` that is absolute unless `MUZON_HOME` is a relative path, so in a normal
setup `install_zip` extracts the package and then always fails (run
`skin_absolute`). `skin_installs` has the staging directory at a relative path, a
package directory at another, one at an absolute path, and one that is reached
through a `..`; `LeftoversAreHarmless` is about the paths that are not refused.

### CoreHandle

The core behind the connections of a headless core or the commands of the
shell: a volume and an active skin, each behind its own mutex. A caller (`at`,
`req`, `answer`) goes through the critical sections of its request one by one;
`lock` holds who has a mutex and for which step, since a guard is a temporary
of one statement, and a statement that kept it would wait for itself at the
next. The files of a skin are read with no lock (`LoadFile`), and may be lost.
Playing, the queue and the library are placeholders in the code: the requests
to them are answered without a look at the core, and so they are here. `Die`
and `Restart` end and start the process; nothing of the core is persisted.

`volumes` and `skins` are history variables: the values a call's subject had
while the call was in progress. An answer is right if it was true at *some*
moment of the call, which is all the locks promise: a SetVolume writes, unlocks,
locks and reads, so it may answer with the volume of another client.
`SettingsTakeEffect` says that this is the only way it can (`quiet`).

`f32::clamp` lets NaN through, so a volume may be NaN once a client of the socket has
asked for it (`Clamp`, `Volume`): postcard carries any float. The page of the shell speaks
JSON, which has no NaN, and `muzonctl` sends a whole number of percent.

`Nested` is whether `ctl::run` is called within a runtime, where its `block_on`
panics. In the `muzon` binary it is, so that subcommand never reaches a core; the
runs set `Nested` to FALSE, to check what `ctl::run` does where it works.

### PlayCommand

`muzon play`: the main thread in `AudioEngine::play`, a thread that waits for SIGINT
or SIGTERM and one that sleeps for `--max-duration`. The pipeline and its bus are
external: `Null` flushes the bus and posts nothing. The signal thread stops the
pipeline and exits the process with 130; the timer only stops it. No end of stream
follows, so `play` then waits on the bus for ever, although `--max-duration` is
there to bound a run (main.rs:68: "Optional max duration in seconds"). `PlayEnds`
has this as its only exception. A stop that comes before `play` sets the pipeline
playing is lost (`late`), which is the exception of `DeviceReleased`.

### LibraryReads

The reads of the library against the writes of a scanner and of the player. One
query is one step, as in SQLite; a search is a query for row ids and then one
for each of them, and an overview is eleven. A path and a title stand for the
words in them. Deleting a track takes its search row (trigger) and its playback
log (foreign key) with it in one statement. `matched` and `during` are history
variables: the rows a search matched, and the states `tracks` had while a call
was in progress. Nothing in the code writes play counts, albums, artists or
genres, so their counts are 0; the LIMIT of `recently_added` is applied to the
single row of a COUNT and limits nothing.

### Asking

What keeps no state is asked: a state of `Asking` names an algorithm and an input,
its successor has the answer (`Compute`), and a property compares the two. So the
algorithms have a specification with runs and invariants like everything else, and
the inputs are a constant with an assumption: TLC takes a small set, a proof any.

### Config, StartUp

`Start` is `main` up to its subcommand: directories, configuration, logging, and the
exit code of each failure. `Load` is the default, the file over it, `MUZON_*`
variables over that, and then the opt-in check. The directory order and where
`create_all` stops are kept. paths.rs speaks of a fallback under `~/.local`; there
is none in the code, and none here. `StartUp` says what a start promises, for any
set `Starts` of files, environments and command lines. Two things are left out:
a configuration file whose `exists()` fails or that is a dangling link, which the code
takes for none, and the log filter of `RUST_LOG`, which `init_logging` prefers to the
level that `Load` and `--log-level` settle.

### SmartPlaylist, Duplicates, Texts, PathParse, SkinFormat, Recommend

Pure functions, translated branch by branch; texts are sequences of pieces (a
word, a keyword, an operator, a number, a separator), so that the parsers'
control is kept without their characters. What the code does against its own
words is kept: a numeric field equals nothing and `favourite` matches nothing
(smart_playlist.rs documents both as comparable); a metadata group with one track
out of tolerance is dropped as a whole; `validate` takes `--accent` for declared
when only `--accent-2` is; an index keeps the old vector of a track that is
inserted again; a smart playlist whose predicate does not parse keeps its list.

`Recommend` compares scores as `cosine` computes them. The floats are a set of
integers in their order, with NaN, and their operations are constants of which only
the types are assumed: sums and roots may round, overflow or come out 0, parallel
vectors may differ and others tie. The filter `s > 0.0` drops NaN before the sort,
whose comparison would not be an order with it. `MCAlgorithms` has a small float
arithmetic of quarters, with rounding, underflow, infinity and NaN.

What they promise describes the result and does not repeat the algorithm: a flat
sentence is evaluated by its ORs and ANDs, a group by its pairs, a path by how it was
put together.

* `LibraryAnswers` has the promises of `Duplicates` and `Recommend`, for any lists of
  tracks with ids of their own (`IsTrackList`), vectors of floats (`IsSearch`) and maps.
  The tracks of one metadata are one group or none, so two tracks of the same length
  are left apart if any two of that metadata are too long or too short for each other,
  be they a third and a fourth. That is the exception of `DuplicatesAreGrouped`.
* `PathPlaces` has the places the path parser documents, made of names, numbers and
  separators (`IsPlace`), and that they are read as what they were made of. A name
  that itself begins like one with a year or a number ("1999 - Live" with no year of
  its own) is no such name: nothing in the path tells the two apart.
* `SkinTexts` has the promises of `SkinFormat`, for stylesheets of any lines
  (`IsStylesheet`) and templates written as their placeholders (`IsTemplate`): texts
  that open none, a key that may be unknown, may itself have a "{{" in it or be empty,
  and a rest that may open one and never close it. Every text of pieces can be written so.
* `MCAlgorithms` puts all of them beside the promises of `SmartPlaylist`, which it
  states itself, and gives the inputs.

## 3. Runs

| run | module | shows |
|---|---|---|
| `queue_full` | MCQueue | all operations in any order: `ShadowNeverLonger` (an index into `up_next` is never short of what `remove` skips), `InOrderKept` (only `prev` and `move_item` put the shadow list out of step), `EntriesConserved`, `RepeatAllPlaysEverything`, and `QueueIsPlaylist`, the implementation of `Playlist` |
| `log_files` | MCLogRotation | two processes, failing calls, kills: `CappedFiles`, and while it is calm `OnlyOldestDiscarded`, `WriteLeavesPathWithinCap` |
| `ipc_connections` | MCIpc | `AnswersOwnCall`, `HandledInOrder`, `IpcIsCalls`, `CallEnds`, `SentIsHandled` with a connection the server abandons and frames that fall apart |
| `headless_cores` | Headless | `StartupNotBlocked`, `ServingIsReachable`, `LaunchLeadsToService`, `ShutdownEnds` over restarts, crashes and overlaps |
| `headless_main` | Headless | violation, see above |
| `scanner_tasks` | Scanner | `SearchRowsAreTracks`, `TitlesStayWithTheirFile`, `IndexCatchesUp` |
| `skin_installs` | MCSkinInstall | two installs, broken off anywhere: `InstalledAsAsked`, `LeftoversAreHarmless` for an install that runs alone after any others, `InstalledIsKept` for any overlap |
| `skin_absolute` | MCSkinInstall | violation, see above |
| `core_clients` | MCCoreHandle | two callers, deaths and lost files: `AnswersAreCurrent`, `SettingsTakeEffect`, `CallsEnd` |
| `play_command` | PlayCommand | `ExitTellsTheOutcome`, `DeviceReleased`, `SignalEnds`, `PlayEnds` for a play with and without a limit, of a file that may vanish, with up to two signals |
| `library_reads` | MCLibraryReads | a search or an overview among five writes: `SearchAnswersItsMatches`, `OverviewDrift`, `LogIsOfTracks` |
| `library_algorithms` | MCAlgorithms | `StartsAsConfigured` (configuration layers, no network without the opt-in, directories first), `PlaylistsHoldWhatTheySay` (a printed predicate is read back, AND binds tighter than OR, what is accepted makes sense, an update filters), `GroupsAreTheDuplicates` (groups are duplicates, duplicates are grouped), `PathParsesBack`, `SkinTextsAreAsAsked` (accent, required tokens, template), `RecommendsTheBest` (highest scores, clusters) |

The type invariants have the relations between the variables that the other
properties take for granted. `skin_installs` checks its own; the eight others are
theorems (section 4), as are `NextKeepsSnapshot`, `OneName` and `OneRowPerPath`,
which no run repeats.

### Bounds

* Queue: four entries of two tracks (so equal entries occur), which gives every
  division of a list over history, current and up_next with two entries on
  either side of a position.
* LogRotation: two processes, with `max_files` 3 so that the shift loop runs
  twice; five files are the four that can be linked and one that is unlinked and
  open; `MaxSize` is twice the cap, so a file can be beyond it before a restart.
* Ipc: three calls on one connection, so that a late answer, a misaligned frame
  and a later call meet; buffers of two items, which is one frame, so that writes
  block behind it and in the middle of the next; one call on the connection the
  server may abandon. The read of a length does not cut again what was left of an item; the
  read of a payload does.
* Headless: two cores, each started any number of times.
* Scanner: two files (one that parses), one walk and one refresh at a time, two
  edits (a file deleted and created again overtakes its delete event), one
  fault, three row ids.
* SkinInstall: two installs at a time, any number in a row; two packages of one
  id, one with a file less, so that a leftover file shows, and one whose
  manifest is not valid.
* CoreHandle: two callers, since a mutex has a holder and others; volumes below and
  above the range, and NaN; two skins, one of which may lose its
  stylesheet.
* PlayCommand: two signals, the second of which comes while the first is served.
* LibraryReads: two files of two formats, three row ids so that one path gets two
  of them in a row, five writes, one reader, a limit of two rows. One reader is
  enough: readers do not write.
* Algorithms: predicates of depth two, sentences of four comparisons, any text of
  four pieces; three tracks for duplicates, smart playlists and vectors, and chains of
  four for duplicates; places with every combination of the parts the path parser
  knows; stylesheets of four lines; seven points. These are
  the sizes at which a third element can tell a pairwise rule from a chain, and an
  operator stands beside another of each kind.

`CHECK_DEADLOCK FALSE` is set in `library_algorithms`, which stops at the result,
in `ipc_connections`, where a client may have made all its calls, and in
`scanner_tasks`, where a task that needs a row beyond `MaxId` waits.

### Fairness

* `Ipc!Fairness`: the client's runtime polls its future, so an unanswered wait
  is ended by its five-second timer (`WF(Timeout)`); the server's runtime polls
  the accept loop and its tasks. Nothing at all is assumed of the server for the
  connections in `Slow`, so `CallEnds` rests on the timers alone there.
* `Headless!FairSpec`: both tasks of a running process are polled. Nobody has to
  start, signal or kill a core.
* `Scanner!FairSpec`: a scan in progress goes on, and scans are started again
  and again, which is what `IndexCatchesUp` is about; failures are finite.
* `CoreHandle!FairSpec`: a thread that can go on does; a mutex that others take for a
  moment at a time is obtained some day (`SF(Acquire)`: std's mutexes promise no
  order, but their holders never keep them).
* `PlayCommand!FairPlaySpec`: the threads are scheduled and a playing stream ends or fails.
  Nobody has to send a signal.
* `RepeatAllPlaysEverything` carries the listener's behaviour as an assumption
  in the formula; the queue itself has no fairness.

## 4. What is proved

The proofs are checked by TLAPS and hold for every value of the constants:
any tracks, processes, files and bounds.

* `QueueProofs`. `TypeCorrect`, `ShadowBounded`, `ShadowInOrder`,
  `OnlyPrevAndMoveBreakOrder`, `NextIsPure`, `QueueImplementsPlaylist`,
  `OnlyAskedChangesEntries`.
  `ShadowNeverLonger` is inductive together with the type invariant: every
  method that shortens `up_next` shortens the shadow list unless it is already
  empty or shorter than the index, and every method that grows the shadow list
  grows `up_next` at least as much. `InOrderShadow` is inductive for a client
  without `prev` and `move_item` (an assumption on `Ops`); without the assumption,
  the same lemma about the other operations gives `InOrderKept`. `NextIsPure` is
  the action property `NextKeepsSnapshot`; it needs only the types.
  The refinement maps the three lists to one tape, `history \o current \o up_next`,
  and the position to the length of the history; each operation has a lemma that
  names its step of `Playlist`, resting on what `InsertAt` and `RemoveAt` do on each
  side of the seams (`InsertAtSeam`, `RemoveAtLeft`, `RemoveAtRight`) and on
  `move_item` being a permutation of the tape (`MovedProperties`). It needs
  `ShadowNeverLonger`: turning shuffle off swaps in the shadow list, which must not be
  longer. `OnlyAskedChangesEntries` counts with bijections between the positions
  that hold a track before and after.
* `LogRotationProofs`. `TypeCorrect`, `FilesHaveOneName`, `FilesAreCapped`,
  `RotationDiscardsOldest`, `WritesStayWithinCap`. The
  inductive invariant of the first three is the conjunction of the types, of
  `OneName` and of `ShiftInRange` (a process in the shift loop is at a slot between 1
  and `max_files - 1`), from which no rename ever targets the slot beyond
  `max_files`; `FilesAreCapped` then counts the slots, for `max_files > 0`.
  The other two are about calm histories (one process at a time, any of them killed
  anywhere, no failing rename) and need `CalmInv`: at most one process is up; while it
  shifts, the slot above the one it is about to move is free (`TargetFree`), which is
  what makes a rename lose nothing, also over the half-done shift of a killed process;
  and the byte counter of a process that holds a file is the size of that file
  (`CounterTrue`). Both are stated for `max_files > 0`, the cap for a positive
  `max_bytes`: with `max_files = 0` the only rename replaces the one kept log, and
  `max_bytes = 0` turns rotation off.
* `ScannerProofs`. `TypeCorrect`, `IndexMatchesTable`, `FilesHaveOneRow`,
  `RowsKeepTheirTitles`. The hard case is the scan that goes on with the id of a
  row which was removed, and perhaps inserted again, since its upsert. The
  inductive invariant says of every task that the id it holds was given to its
  own path if it is still a row (`LocalsOK`), that no id beyond `seq` is in use
  (`IdsWereGiven`: AUTOINCREMENT gives no id twice), and that different rows have
  different paths. A statement by id then either misses or hits the row of the
  task's own file, which is what `TitlesStayWithTheirFile` needs; the search
  index follows because each statement's triggers touch the same id.

* `IpcProofs`. `TypeCorrect`, `CallsGetTheirAnswers`, `RequestsAreHandledInOrder`,
  `AnswersWereHandled`, `CallsAreImplemented`. The protocol has no numbers, so the
  order of calls must be read off the stream. `OrderOf` says that the bodies on the
  way up ascend, and lie above all that was executed and below the next call; a body
  that is skipped as a length, or a timeout that leaves half a frame, only removes
  items, so it survives every misalignment. `AnswerOf` says that what is on the way
  down was executed. `AlignedOf` is for the calls before the first timeout: it lists
  the states in which client, streams and task can be together (`Quiet`, `Asking`,
  `Answering`, `Died`), each with at most one frame between them. For the refinement
  `DownOf` and `UpOf` add that both ends are at the same place of a frame: on the
  way down always, since the task finishes a frame or ends, and on the way up until
  a call gives up in the middle of one. `OnceOf` orders what was returned before
  what is on its way and that before what the task is about to write, which is why a
  late response is never returned twice. Every step then maps to a step of `Calls`
  or to none that its callers see.
* `CoreHandleProofs`. `TypeCorrect`, `AnswersAreOfTheirTime`,
  `SettingsTookEffect`. An answer is put together in several critical sections;
  `CallOf` says for each of them what the values already taken have to do with
  the values the core had since the call began, the present one included.
  `TypeCorrect` has the volume within 0 and 100, or NaN where NaN may be asked for. The
  proof needs no fact about who holds which mutex: that a read or a write is one
  step is all the locks give, and all the answers need.
* `LibraryReadsProofs`. `TypeCorrect`, `LogIsOfLiveTracks`, `SearchesAreAnswered`,
  `OverviewIsBounded`, and of the library's algorithms
  `GroupsAreDuplicatesOfAnyList` (`GroupsAreTheDuplicates`), `TheBestIsRecommended`
  (`RecommendsTheBest`) and `PlacesParseBack` (`PathParsesBack`). Between the
  matches of a search and its reads by id a row may go and another may come.
  `ReadOf` says that an id which matched is still that of the same file or of none,
  which rests on AUTOINCREMENT: no id is given twice (`TypeOK`, with `seq`), and
  that each match is still to be read, in the result, or was gone at a moment of the
  call. `OverviewOf` does the same for the eleven queries of an overview: each count
  is still among the queries to be made, or is of a state that the tracks had during
  the call. That the counts of the formats add up to the number of tracks
  (`FormatsCountAll`) needs no induction over data: the function that counts the
  tracks of a set of formats satisfies the recursion of the fold, and a set of
  formats with the fewest tracks on which the fold differed from it would have a
  smaller one (`LeastOfNaturals`, from the well-foundedness of the naturals).
  `FindDuplicates` runs through its list with recursive functions. `LoopRuns` shows
  that such a function exists for a list of any length, since a first place at which
  it could not go on would have one before it; what it returns at each place follows
  in the same way. So `Pushed` lists the id of each track of a key once
  (`PushedIds`, `OnceCounts`), and a group is the tracks of one key
  (`GroupsAreOfOneKey`). For `CosineTopK`, what passes the filter has a score that
  is a number (`MatchesHaveScores`, over sums of any length by `DotIsFloat`),
  whatever the float operations return, so the order of the matches, with ties
  broken by their place, is total and strict (`BeforeIsAnOrder`), and the rank of a
  match, the number of those before it, numbers them without a gap (`RanksAreOnce`).
  The clusters are quotients of the positions. For the path parser the lemmas say of
  a name made of any pieces where `find` and `rfind` stop (`SecondIsFirst`,
  `ExtensionGoes`), that what has two words is no number however it is trimmed
  (`TwoWordsAreNoNumber`), hence that no separator within a name is taken for the
  one after a year or a number (`NoNumberBefore`), and which of the three separators
  wins (`TrackNoIsRead`).
* `CliProofs`, of what `muzon` does from its start to its exit. For
  `PlayCommand`: `PlayTypeCorrect`, `ExitCodeIsRight`, `PipelineIsReleased`.
  The two properties are inductive with four facts about the order of things:
  nothing plays before `play` (`UntouchedBefore`), an end of stream on the bus came
  from a finished stream (`EosWasPosted`), a returned `play` is silent
  (`ReturnedIsSilent`), and after a stop the pipeline plays only if it was set
  playing later (`StopsCount`). For `Headless`: `CoreTypeCorrect`, `StartIsNotBlocked`
  (`StartupNotBlocked`), `ServedIsReached` (`ServingIsReachable`).
  `Alone` is needed first: without an overlap at most one core is not down. For that
  core `FileOf` follows the socket file through `serve`: none after the removal, then
  its own until its shutdown takes it away. For `StartUp`: `StartIsAsConfigured`
  (`StartsAsConfigured`), field by field: the file leaves a field at its default or
  sets it, and each later layer leaves it or replaces it, so the strongest layer that
  speaks has the last word; the network flags are then bound to the opt-in by the
  check at the end, and the opt-in itself comes from a layer the user wrote. The
  directories are made in order, so that the fourth is there only if the others are.
* `SkinProofs`. Of installs `TypeCorrect`, `LoneInstallIsAsAsked`,
  `SettledSkinsAreKept`, `LeftoversDoNotHinder` (for paths the layout check takes),
  and of the texts of a skin `SkinsReadAsAsked` (`SkinTextsAreAsAsked`). `PhaseOf`
  says what an install has in hand in each phase, and that nobody writes into a
  package directory (`Untouched`). `StagedOf` follows the staging directory of an
  install that is alone: gone before it is made, then exactly the entries extracted
  so far, one of them half written, then the whole package, and before the rename a
  target that is not there. `SkinOf` carries this over the rename: a skin made so is
  open to nobody, and a later install can open only the staging directory, so no
  step changes it. `SettledSkinsAreKept` needs only the types: an open file and an
  opened directory follow a rename, and a rename replaces nothing that has entries.
  For the texts: whether a line is in `:root` depends on the kinds of the lines
  before it (`InRootIs`), which an accent leaves alone (`AccentApplied`), so the
  second accent meets the same lines. `Render` is a function of the position in the
  text, which exists because each value needs a later one only (`LaterFirst`). A
  written template holds each of its parts where those before it end
  (`JoinedHolds`), the first placeholder found from there is that of the part
  (`PartIsFound`), and the rest has none (`RestHasNone`); the last part at which the
  two texts differ would then have a later one (`TemplateIsFilledIn`).

Assumptions are those named `...Assumption` in the modules: `None`-like constants
differ from the values they stand beside, bounds are natural numbers, and `Slow`,
`Walker` and `Ops` are subsets of what they restrict. Those on inputs are `IsStart`,
`IsTrackList`, `IsSearch`, `IsMap`, `IsPlace`, `IsStylesheet` and `IsTemplate`, and
`FloatAssumption` gives the types of the float operations; TLC evaluates them for
the inputs of the run. `PieceAssumption` and `NumAssumption` keep numbers and
separators apart, and `TokenAssumption` says that names and values are texts.

## 5. Only model-checked

* Liveness (`RepeatAllPlaysEverything`, `CallEnds`, `SentIsHandled`,
  `LaunchLeadsToService`, `ShutdownEnds`, `IndexCatchesUp`, `CallsEnd`,
  `SignalEnds`, `PlayEnds`), which is out of the prover's reach.
* `PlaylistsHoldWhatTheySay`: the parser of smart playlists is three operators that
  call each other, and what they make of any text is an induction over the text,
  which the prover cannot do; recursive operators also take its SMT backend away.

## 6. Not modelled

* Tag reading and writing: wrappers around the lofty crate. The backup of
  `tagwrite` is one copy before one save, and nothing calls it yet.
* Metadata services: HTTP clients and stubs without state, which nothing in the
  core calls.
* `features/`, `embeddings.rs`, the projection of `mood_map.rs`: floating point.
  `quality.rs` copies properties of a file into a record.
* The web page, the window, command-line parsing, serde attributes, log
  formatting, wording.
* The version rule and the font licences of the skin validator; the bm25 ranking
  and the text columns of the library but path and title.

## 7. Plan

1. Models: everything above is done. When the player, the queue or the library
   stop being placeholders behind `CoreHandle`, their requests become actions that
   call `Queue`, `PlayCommand` and `LibraryReads`.
2. Proofs next: the parser of smart playlists as a function of a position in the
   text, by the argument of `LaterFirst`.
