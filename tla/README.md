# A TLA+ model of Distributed-File-Sync

The program keeps one folder the same on every computer of a local network. It
is about 1400 lines of C++ (`src/Distributed File Sync/Distributed File Sync/`
and `.../Networking Library/`; the headers of SFML are vendored beside them).
This directory holds a model of it, the instances TLC checks, and theorems TLAPS
proves about the model for every number of nodes, files, contents and messages.

Line numbers below are those of `Node.cpp` unless another file is named.

## 1. The system

### 1.1 Components

| Component | Code | State | Operations | Model |
|---|---|---|---|---|
| Discovery and initial sync | 6-11, 51-98, 338-382, 429-452 | `fileHashes`, `receivedTable`, `tableManagerMessage` | broadcast the arrival (pid 0), answer it (pid 1), compare a foreign table, request what differs | `FileSync` |
| Propagation of changes | 185-296, 395-427 | `todoUdp`, `fileHashes`, `fileChangeBuf` | broadcast and learn the watcher's changes (pid 6), recreate foreign ones | `FileSync`, and with real hashes and packets `Announcements` |
| Directory watcher | `DirectoryMonitor.cpp` | its own listing `fileHashes`, the Windows change handle, `fileChangeBuf` | rescan the folder, list the differences | `DirectoryWatcher`, path by path; one round is one step of `FileSync` |
| File transfer | 100-183, 236-275, 299-336, `Server.cpp`, `Client.cpp` | one TCP server and one TCP client per node, port 25565 for the negotiation, the two file streams | negotiate (pid 5), listen, connect, send chunks (pid 100), end (pid 101) | negotiation and outcome in `FileSync`, the chunks in `FileTransfer` |
| UDP pipeline | 19-91, 209-233, 354-393, `UdpConnection.cpp` | `todoUdp`, the one-place mailbox, three mutexes, the `UdpMessage` objects | receive, sort, queue, hand over, dispose of messages | `UdpPipeline`; the contents of the messages in `FileSync` |
| Packet formats | `fileChangePacket.cpp`, 455-476 | none | `<<` and `>>` of tables, changes, chunks | `Announcements`, `FileTransfer` |
| Hashes and paths | `FileHelper.cpp` | none | `getFileHash`, `getFilepaths`, `filesize` | `FileHash`, `DirectoryWatcher` |
| Start-up | `main.cpp` | the four threads, `dirLock` | construct the `Node`, create the threads | `FileSync` |
| Message handling of `Server` and `Client` | `Server.cpp`, `Client.cpp` | `todo` queues | `handle`, `getNBytes`, strings | not modelled: nothing calls it |
| SFML | `_sfml/` | sockets, packets | | external, modelled by how the nodes use it |

### 1.2 How they interact

Each node runs four threads.

* **discoverer** (`discoverDriver`): broadcasts its table once, then reads the
  UDP port for ever. An arrival it deals with on the spot: it answers with its
  own table, and *fetches the newcomer's files itself*. Everything else goes to
  `todoUdp`.
* **handler** (`handlerDriver`): `handleUdp` first flushes `fileChangeBuf` if
  `dirLock.try_lock()` succeeds: it enters the changes in `fileHashes` and
  broadcasts them. Then it takes a message from `todoUdp`: a response goes to
  the mailbox of the table manager, a file request is served *on this thread*,
  a change list is carried out *on this thread*.
* **tableManager**: takes a response from the mailbox and fetches what differs.
* **watcher** (`WatchDirectory`): waits for the change notification, rescans the
  folder under `dirLock`, and appends the differences to `fileChangeBuf`.

The first three call `requestFiles`, which takes `dirLock` for each change
separately and holds it through the whole of `negotiateTCPTransfer`: bind port
25565, ask, wait for one datagram, truncate the file, connect, receive. So
`dirLock` ties the threads of one node together, and the two blocking calls
(`receive` on the negotiation port, `accept` in `sendFile`) tie the nodes
together. Neither has a timeout.

### 1.3 What is hard here

* A handler that waits for another node cannot serve that node: any cycle of
  such waits is a deadlock, and there are several.
* A file that has been *received* looks to the watcher like one the user
  changed, and is announced again.
* The hash of a file includes its path, and the two sides spell the path
  differently (one separator after the shared folder, or two). What is announced
  never compares as equal, so every announced file is fetched, by its own writer
  too. The echoes end only because the watcher compares hashes of one spelling.
* The file is truncated before the connection exists, and other nodes may be
  served from it. A program that is stopped then leaves a torn file, which it
  lists like any other when it is started again.
* The folder is read path by path, and hashed file by file, while users go on; a
  file is opened twice for its hash, once to measure and once to read it.
* A file may be written to while it is sent, by a user or by the server's own
  `receiveFile`. If it gets shorter than `sendFile` measured it, neither loop ends.
* What a node knows is in three tables kept by three threads: the folder, the
  watcher's listing and `Node::fileHashes`. `fileChangeBuf` joins the last two.
* Datagrams carry no request number; the next datagram on the port is the
  answer. Nothing is acknowledged or sent again.
* A `UdpMessage` is handed on by pointer through three threads, and the last one
  deletes it.
* Start-up takes two listings of the folder at different times.
* The index loop in `dealWithHashTable` erases while it counts.
* Lengths and positions of a transfer are 32 bits wide, -1 is a legal value for
  `tellg` and `tellp` to return, and a `size_t` is written where 32 bits are read.
* `getFileHash` multiplies bytes by 0 to 9, reads in text mode and adds signed
  numbers to an unsigned one.

The hazards are listed with their lines in `PROJECT.json`, each with the
properties that would catch it.

### 1.4 What correctness means

* Locks: whoever negotiates holds `dirLock`; a truncated file belongs to the
  holder (`LockDiscipline`); queue and mailbox are used by one thread at a time
  (`QueuesMutexed`).
* Memory: a `UdpMessage` has one holder and is not used after it was deleted
  (`OneHolder`); only a superseded response is never deleted
  (`OnlyResponsesAreDropped`).
* Data: half a file is never announced (`OnlyWholeFilesAnnounced`,
  `WholeReports`); no copy of a file disappears because nodes fetch from each
  other (`NoFileLost`); a transfer that ends delivers the file (`Delivers`,
  `MeasuredLengthArrives`).
* Pairing: an answer is for the request that waits for it
  (`AnswersMatchRequests`); a server waits only for a client that still wants
  the file (`ServersAreAwaited`).
* Folders: whatever the nodes send each other, a folder only changes by its user,
  by a deletion, or by one file at a time that is fetched from another node, whole
  unless it is written to or received itself meanwhile (`FoldersExchanged`).
* Waiting: nodes that wait for each other in a circle wait for ever
  (`CirclesStay`), and as long as no datagram is lost and no connection comes too
  early only three things stop the threads: such a circle, a file that goes between
  the answer and its opening for sending, and a file that is written to while it is
  sent and may end before the measured length (`StopsExplained`).
* Bookkeeping: the three tables add up (`ListingAccountedFor`,
  `NothingMissed`), and a file that differs in the end has one of a few named
  reasons (`WhyDifferent`).
* Intent: the network follows the user who made a change (`EditsArrive`) and, on
  arrival, the existing node (`EstablishedFilesKept`).
* Progress: the nodes come to agree and stop (`Converges`); transfers end
  unless the file is cut short (`EndsUnlessCut`); every message is dealt with if
  the transfers of the node return (`EveryMessageEnds`); the watcher catches up
  (`FolderKnown`).

## 2. The modules

    HashTables ─┬─ FileSync ─────────────── MCFileSync            7 configurations
                │      ╚═implements═> SharedFolders
                ├─ DirectoryWatcher ─────── MCDirectoryWatcher    watcher
                │      ╚═implements═> DirectoryFeed
                └─ Announcements ────────── MCAnnouncements       formats
       FileHash ───┘
    UdpPipeline ─────────────────────────── MCUdpPipeline         pipeline, table_race
        ╚═implements═> UdpFlow
    FileTransfer ────────────────────────── MCFileTransfer        transfer
        ╚═implements═> FileCopy

    HashTablesProofs ─┬─ FileSyncProofs ─┬─ FileSyncSafetyProofs
                      │                  └─ FileSyncPairingProofs
                      ├─ DirectoryWatcherProofs
                      └─ AnnouncementsProofs
    FileTransferProofs   UdpPipelineProofs

`FileSync` is the whole network with each part at the grain at which the parts
meet. The other modules take one part each and go down to single lock
operations, packets or bytes. Of the four abstract specifications one
(`SharedFolders`) says what `FileSync` itself promises; the other three
(`FileCopy`, `UdpFlow`, `DirectoryFeed`) say what it relies on, and the detailed
modules implement them:

| Step of `FileSync` | Detailed module | Why one step is right |
|---|---|---|
| `Transfer`, `LosesEnd` | `FileTransfer` | `Delivers`: an undisturbed transfer is `FileCopy`, one step that delivers the file; `EndsUnlessCut`: one of a file that is not cut short ends. A file that is written to meanwhile gives a torn copy or no end |
| `CollectForHandler`, the pops, `HandleResponse`, `TakeTable` | `UdpPipeline` | `Flows`: between its lock operations the pipeline takes the steps of `UdpFlow`, which are these |
| `Scan`, `StartWatching` | `DirectoryWatcher` | `Feeds`: a listing is made of looks the files had since the one before, and is repeated until it is the folder; `NothingMissed` |
| hashes as contents, messages as values | `Announcements`, `FileHash` | `WhyDifferent` names the cases in which it is not right |

An operator whose comment begins with "Mutant" is a variant of the definition
that follows it with a plausible mistake in it. It belongs to no specification;
put in the place of that definition it makes a property of `PROJECT.json` fail,
which shows that the property depends on the code.

### HashTables

Tables and the lists computed from them, as operators. A path is a number, its
rank in the order of `std::map`; a table is a total function with `NoFile` for
an absent key; a hash stands for the contents. `DirectoryChanges` is the
comparison of two listings (additions and edits in map order, then deletions),
`RequestLists` what `dealWithHashTable` asks for, `Learn` the update loop at the
head of `handleUdp`. An operator that builds *the* sequence of a set in map order
returns the set that holds this one sequence; actions pick it with `\E`. That
avoids recursion, which the provers cannot unfold.

`Erased` is the index loop of `dealWithHashTable`: `erase(begin() + i)` followed
by `++i` never looks at the entry that moves into place `i`, so an entry goes
when it is an edit and the entry before it stayed.

### FileSync

The nodes. One variable per piece of state, a function of the node:

| Variable | Code |
|---|---|
| `disk`, `signalled` | the shared folder, the change handle of `WatchDirectory` |
| `snapshot` | `fileHashes` of `WatchDirectory` |
| `changeBuf` | `fileChangeBuf` |
| `fileHashes` | `Node::fileHashes` |
| `dirLock` | the holder of `dirLock` while a file is negotiated |
| `udp`, `todoUdp` | socket buffer and queue of the UDP port |
| `tableMsg` | `tableManagerMessage` with `receivedTable` |
| `pc`, `job` | where each of the three threads is, and the server and list of its `requestFiles` |
| `reply`, `incoming` | the datagram on port 25565, the file being received |
| `serving` | the file being served by case 5 of `handleUdp`, and what became of its contents since it was opened |

Actions, in the order of the code: `Start`, `Announce`, `StartWatching`; the
user's `UserWrites`, `UserDeletes`; `Scan` (one round of the watcher);
`PublishChanges`, `HandleResponse`, `HandleFileRequest`, `OpenAndListen`,
`EndService`, `HandleDirChanges` (the handler); `CollectForHandler`,
`CollectArrival` (the discoverer); `TakeTable` (the table manager);
`CompareTables` (`dealWithHashTable` on either); `SkipChange`, `ApplyDeletion`,
`RequestFile`, `Abandoned`, `OpenForWriting`, `Connect`, `ConnectTooEarly`,
`Transfer`, `LosesEnd` (`requestFiles` on any thread); `LoseDatagram`,
`LoseReply`.

`fileHashes` is read twice for an arrival, each time without a lock: for the
answer (`CollectArrival`, 69 and 96) and for the comparison (`CompareTables`, 433).
The handler may enter changes in between. `RequestFile` looks whether the
negotiation port is free, since nobody looks at what `bind` returns: without the
port `receive` fails, and `negotiateTCPTransfer` returns true (335). That `dirLock`
never lets this happen is part of `LockDiscipline`, not of the action.

A transfer is a step that begins (`Connect`) and one that ends it (`Transfer`), or
finds that it has no end (`LosesEnd`). In between `serving[n].file` says what
`sendFile` reads from: "open", a whole file that nobody has touched since it was
measured; "growing", a file that the node itself was still receiving when it was
measured; "changed", a file that a user or `OpenForWriting` has written to since.
Of an open file the copy is what the server has; of the others it may be torn, or
the file as it is now. A changed file may have become shorter than measured: then
`read` gives nothing any more, the position stays below the length and both loops
(117-138, 152-179) go round for ever. One that was growing has been measured short
and ends.

An action is what a thread does up to its next blocking call or to the next
point where another thread can tell the difference. A section that takes
`dirLock` and does not block while it holds it (a scan, a skipped or deleted
file, the flush) is one step with the guard `dirLock[n] = Free`.

`Respelt` is the hash that a content has under the other spelling of its path.
`SpellingAssumption` says that it is a different one; it may happen to be the
hash of another content (`ByChance`), and then `requestFiles` takes a file for
up to date that is not.

`Partial` marks a file that was truncated by `std::ofstream` and not completed,
`Torn` one copied from a partial file or from one that changed while it was sent.
`Init` lets a newcomer have a torn file: that is what a program leaves that was
stopped while it received one. A condition of `Init` says that an established node
still has the file. Nothing else outlives a program, so a crash and a restart are
an arrival with such a folder.

### SharedFolders

What all of `FileSync` does to the folders, without nodes, threads, locks or
messages: `Edit`, `Open` a file for receiving, `Complete` it with what another
node has of the same path at that moment. A node is `spoilt` from the moment on when
somebody writes to the file it may be fetching, or when the other node is found to
be fetching the same file (`Meet`): only a spoilt node may end with a torn file.
`FoldersExchanged` says that `FileSync` implements it under `folder <- disk` and
`spoilt` the clients of the servers whose file is growing or changed. There is no
request in it, so it also says that no confusion of requests, answers and files can
show in a folder.

### DirectoryWatcher and DirectoryFeed

`WatchDirectory` on one node: rearm, take `dirLock`, meet every path in any order
(`ListPath`), then one file after the other: measure and close it (`MeasureFile`,
that is `filesize`), open it again (`OpenFile`), read and hash it (`HashFile`);
then compare, append. Users of the folder act between any two of these steps; the
other threads of the node only when they can have `dirLock`. Windows does not
delete a file while it is open, but between the two openings it can go: then
`getFileHash` adds the measured size and the path, and no contents (`OpenFails`).
That hash, and the one of a file that changes while it is read, is of no content
(`Mixed`), unless the size was 0; a file that goes between listing and measuring
looks `Empty`. `since` is a history variable:
the looks of every file since the last listing. `DirectoryFeed` is the promise: a
new listing gives every path a look from `since`, not all of one moment, and once
the folder stays as it is the listing becomes the folder.

### UdpPipeline and UdpFlow

Discoverer, handler and table manager of one node between two lock operations.
`UdpMessage` objects are known by the number of their allocation; `message` holds
the local pointers, `disposed` what has been deleted, the three mutexes their
holders. What comes in is any datagram at any time, so lost, doubled and late
ones are among them. A comparison of tables leads to no request or one, a list of
changes, which is never empty, to one, and each request takes `dirLock`: what
`requestFiles` does is in `FileSync`. `Serve` and `TransferOne` are the returns from
`accept` and `sendFile`, and from `negotiateTCPTransfer`. Nothing makes them happen.
`UdpFlow` is the same in three steps, collect, handle and take.

### FileTransfer and FileCopy

`FileTransfer` is `sendFile` against `receiveFile` on one connection: the loop
over chunks, positions and lengths that are 32 bits wide (`Word` values, so -1
is `Word - 1`), a stream that is only read on and stays at its end, the end
packets, a connection that breaks, a write that fails, a file that users change
while it is sent or that could not be opened. `WideSize` is the x64 build, in
which `packet << contents.size()` writes 64 bits. `FileCopy` is what a caller may
rely on: the file is delivered in one step.

### Announcements and FileHash

The way of a change from the folder of one node into that of another with
everything that `FileSync` takes to be exact: `HashOf` is `getFileHash` on a small
word (the cycle of weights, the text mode, the signed bytes, the two moduli). It
adds the characters of the path and then the weighted bytes one by one and reduces
the sum each time (`AddedUp`), so that a sum below zero wraps round wherever it gets
there; a wide character enters as a `char` (`AsChar`). The writer hashes a path as it
lists it, the reader with one separator more (`ListedAs`, `AskedAs`). Packets have a
size and a limit, a table has its number of entries cut to `HalfWord`, a list has
its length written as a `size_t` of one or two words (`wide` is the x64 build) and
read as one word.
`unsent` and `early` are history variables for `WhyDifferent`.

## 3. The runs

"Violated" runs check one statement of the repository that the code does not
keep; `PROJECT.json` quotes the statement and says what happens.

| Run | Instance | Shows |
|---|---|---|
| `two_nodes` | 2 nodes that arrive in any order, perhaps with a torn file; 1 path; 1 user change on any node; 1 fault; hashes that meet by chance; 1,413,520 states | types; locks, pairing, whole files, open files; `StopsExplained`, `CirclesStay`; the refinement of `SharedFolders` |
| `arrival` | 2 nodes, one of them established, 2 paths, at most one differing or torn file, nobody edits; 5,573 states | the nodes agree and stop, on the existing node's files; no file is lost |
| `one_change` | 2 established nodes, 2 paths, 1 change of one user; 824 states | the tables add up (`ListingAccountedFor`); the change reaches the other node, the file is fetched back once, and what the user left is what stays |
| `both_ways` | as `arrival`, two differing files | **violated** (`Converges`): the newcomer and the existing node have both fetched a file from each other, both announce what they fetched, and the two handlers that ask it back wait for each other |
| `newcomer_wins` | as `arrival`, two differing files | **violated** (`EstablishedFilesKept`): the second edit survives the erase loop |
| `edit_echo` | 2 nodes, one user saves twice | **violated** (`EditsArrive`): the echo of the first edit overwrites the second |
| `change_at_start` | 2 nodes, a change during start-up | **violated** (`NoChangeForgotten`): the change is never entered |
| `transfer` | files up to 5 bytes, chunks of 2; 2 changes by users and 1 fault of any kind, or a file that cannot be opened; 407,724 states | types; no seek needed; the length found at the start arrives; refinement; a transfer ends unless its file is cut short |
| `watcher` | 2 files, 3 changes by users and the node, between any two steps of a listing and between the two openings of a file; 560,053 states | nothing stays unnoticed, no half-received file is reported, refinement, the watcher catches up |
| `pipeline` | 3 datagrams of 6 pids, transfers that need not return; 34,886 states | one holder for each message, mutual exclusion, what can be dropped, refinement, every message ends if the transfers do |
| `table_race` | 1 datagram | **violated** (`TableMutexed`): the discoverer reads `fileHashes` while the handler writes it |
| `formats` | 4 paths, 2 of them edited, 9 files of up to 4 bytes, 3 saves, 1 lost datagram, both builds; 1,585,512 states | why files can stay different, what fits in a datagram arrives although the number of entries is cut, nothing travels in the x64 build, which bytes the hash does not see |

Some more behaviours of the code show when the constants of a configuration are
changed; no run is kept for them, since they ask the same questions. Each was
checked with TLC on the instance named here.

| From | Change | What happens |
|---|---|---|
| `one_change` | `Node` and `Established` `{a, b, c}`, one path | `Converges` and with it `EditsArrive` fail after a *single* addition: both receivers announce the file, and the three handlers ask each other for it in a circle |
| `two_nodes` | `Node` and `Established` `{a, b, c}`, `MayEdit <- OnlyA`, `MaxFaults = 0`, `Respelt <- NoChance` | nothing fails: with one change, 25,765 states, circles of two and of three form, stay, and are all that stops the threads |
| `two_nodes` | `MaxFaults = 0`, `StopsExplained` without `FileCut` | fails: a user writes to a file while it is sent, and neither loop ends |
| `two_nodes` | the same with `MaxEdits = 0` | holds, 17,489 states: a file that is received while it is sent has been measured short, and its transfer ends |
| `arrival` | `Node = {a, b, c}`, `Established = {a, b}`, one path | `Converges` fails: with two servers the same waits close over one file; so does `EstablishedFilesKept` |
| `one_change` | `MayEdit <- Anybody`, `MaxEdits = 2` | `Converges` fails: two users change a file each, and the handlers wait for each other |
| `edit_echo` | check `Converges` | fails: for the same reason with one user |
| `arrival` | `Established = {}`, one path | `NoFileLost` fails: two nodes that start together truncate their files to fetch each other's |
| `arrival` | one path, `MaxFaults = 1` | `Converges` fails: a lost datagram leaves its sender waiting |
| `transfer` | `Word = 4`, no edits, no faults | `Delivers` fails: files are cut off modulo the word, in the code at 4 GiB |
| `transfer` | `Faults = {"fileGone"}`, no edits; check `<>BothReturned` | fails: a file that cannot be opened has length 4294967295 |
| `transfer` | no faults, one edit; check `<>BothReturned` | fails: a file cut short while it is sent |
| `transfer` | `Faults = {"disconnect"}`, no edits; check `<>BothReturned` | fails: `receiveFile` never returns |
| `transfer` | `WideSize = TRUE`, no edits, no faults; check `<>BothReturned` | fails: the x64 client reads 0 for the size of every chunk |

### Bounds

* *Two nodes* are enough for every two-party wait and for two threads of one
  node against the third. *Three* bring in circles of three and two servers of one
  client; as the table says, progress fails there at once, so the passing runs have
  two nodes, and safety, with what can stop the nodes, is proved of any number
  (section 5).
* *One path* is enough for everything about locks, pairing and echoes, because
  `requestFiles` handles one change at a time; *two* for the erase loop and for
  waits over different files.
* `MaxEdits` 2 in `edit_echo` gives a change that overtakes the echo of another, 1
  in `two_nodes` a change at any point of an arrival or of a transfer.
  `MaxDiffering` 1 in the passing arrival run marks the border that `both_ways` and
  `newcomer_wins` are on the other side of. `MaxFaults` 1 gives one lost datagram,
  lost answer or connection that comes too early, at any point. The runs about
  progress have `MaxFaults` 0, so they also leave out the early connection, which
  is a race of the program itself and not of the network: with it a client is lost
  for good, and so is progress.
* In `transfer` five bytes in chunks of two give the empty file, a partial, one
  full, and a full-and-partial last chunk; a word of 8 values is larger than
  every file. Two edits cut the file and let it grow again; one fault of each
  kind meets every order of the two loops.
* In `watcher` three changes let a file go and come back while the other is being
  read, let one go between its two openings, and let a received file be opened and
  closed around a listing.
* In `pipeline` three datagrams let a second response reach the mailbox before
  the first is taken while a third object is in the queue.
* In `formats` a half word has 4 values, so that a table of four entries is sent
  with the number 0, and such a table is larger than a datagram of 63, as is a list
  of three changes. A cycle of 3 weights puts the fourth byte where the first is;
  three of the files differ from a fourth in one byte, at 1, 3 and 4. Bytes below
  zero, and a name whose characters are below zero as `char`s, let the sum wrap
  round before and after the reduction.

`CHECK_DEADLOCK FALSE` is in every configuration, because every instance may
stop: users run out of changes, the network of nodes becomes quiet once it
agrees, a transfer ends, and some of the code's own deadlocks are reachable in
the safety runs (a lost datagram leaves its sender waiting for ever; there is no
timeout). That the nodes do not stop *before* they agree is what `Converges`,
`EditsArrive`, `EndsUnlessCut`, `FolderKnown` and `EveryMessageEnds` say.

## 4. Fairness

`FileSync` has one weak fairness condition for each thread of each node
(discoverer, handler, table manager, watcher), one for the watcher's start and
one for the flush at the head of `handleUdp`. They are the loops of the
four functions at `main.cpp` 44-58, which the scheduler of the operating system
keeps running. Weak fairness
is enough: a thread that waits for `dirLock` is only promised to go on when the
lock is free and stays free, so nothing depends on the order in which
`std::mutex` serves. `PublishChanges` has a condition of its own: `try_lock` may
fail, also spuriously, and the handler then goes on to its queue; what is assumed
is that it does not fail for ever while the lock is free. Starting a program,
editing a file and faults are not fair: nobody has to.

`FileTransfer` has one condition for each of the two threads. `DirectoryWatcher`
has one for the watcher and one for the node that has a file open: it closes the
file at last, which is what `EndsUnlessCut` says of a transfer.

`UdpPipeline` is finer and needs more. The threads run on (`WF`), and a thread
that finds a mutex free time and again gets it at last (`SF` on the acquisitions
that compete with a loop: of the queue by the discoverer, of the mailbox by the
handler, of `dirLock` by each thread). The C++ standard does not promise that of
`std::mutex`; it is the assumption the program makes, whose critical sections on
the queue and the mailbox are short against the loops around them. `Serve` and
`TransferOne` have no fairness at all: `accept`, the receives of `sendFile` and that
of `negotiateTCPTransfer` have no timeout, so a thread may stay there for ever, and
in the circles of `both_ways` does. `EveryMessageEnds` is therefore conditional: it
says what the threads of one node owe each other *if* each of them comes back from
the other nodes time and again. Nothing is assumed of the arrival of datagrams.

## 5. What is proved

All theorems are for any sets of nodes, paths, contents, bytes and datagrams and
any bounds; the assumptions are the named `ASSUME`s of the modules: paths are
numbers and finitely many, the marker values are distinct from the data, the
bounds are natural numbers, the chunk size, the cycle of weights and the word are
positive, the hash of a path depends on its spelling, and a datagram has no room
for as many entries as a cut size can tell apart, each of 16 bytes at least
(65507 < 65536 * 16 in the code).

| Theorem | Module | States |
|---|---|---|
| `TypeCorrect` | `FileSyncProofs` | `Spec => []TypeOK` |
| `LockDisciplineHolds` | `FileSyncProofs` | `Spec => []LockDiscipline` |
| `AnswersAreMatched` | `FileSyncPairingProofs` | `Spec => []AnswersMatchRequests` |
| `ServersAreAwaitedFor` | `FileSyncPairingProofs` | `Spec => []ServersAreAwaited` |
| `CirclesDoStay` | `FileSyncPairingProofs` | `Spec => CirclesStay` |
| `StopsAreExplained` | `FileSyncPairingProofs` | `Spec => []StopsExplained` |
| `FoldersAreExchanged` | `FileSyncPairingProofs` | `Spec => FoldersExchanged` |
| `ListingIsAccountedFor` | `FileSyncSafetyProofs` | `Spec => []ListingAccountedFor` |
| `OpenFilesDoStay` | `FileSyncSafetyProofs` | `Spec => []OpenFilesStay` |
| `OnlyWholeFilesAreAnnounced` | `FileSyncSafetyProofs` | `Spec => []OnlyWholeFilesAnnounced` |
| `TransferTypes` | `FileTransferProofs` | `Spec => []TypeOK` |
| `ReadingOnIsEnough` | `FileTransferProofs` | `Narrow => (Spec => []NoSeekNeeded)` |
| `MeasuredLengthIsKept` | `FileTransferProofs` | `Narrow => (Spec => []MeasuredLengthArrives)` |
| `TransferDelivers` | `FileTransferProofs` | `Narrow => (Spec => Delivers)` |
| `WatcherTypes` | `DirectoryWatcherProofs` | `Spec => []TypeOK` |
| `NothingIsMissed` | `DirectoryWatcherProofs` | `Spec => []NothingMissed` |
| `ReportsAreWhole` | `DirectoryWatcherProofs` | `Spec => []WholeReports` |
| `ListingsAreOfTheFolder` | `DirectoryWatcherProofs` | the safety part of `Feeds` |
| `PipelineTypesHold` | `UdpPipelineProofs` | `Spec => []TypeOK` |
| `MessagesHaveOneHolder` | `UdpPipelineProofs` | `Spec => []OneHolder` |
| `QueuesAreMutexed` | `UdpPipelineProofs` | `Spec => []QueuesMutexed` |
| `ResponsesReplaceResponses` | `UdpPipelineProofs` | `Spec => OnlyResponsesAreDropped` |
| `PipelineFlows` | `UdpPipelineProofs` | `Spec => Flows` |
| `WideBuildIsSilent` | `AnnouncementsProofs` | `Spec => NothingTravelsWide` |
| `FormatTypes` | `AnnouncementsProofs` | `Spec => []TypeOK` |
| `FittingArrives` | `AnnouncementsProofs` | `Spec => []WhatFitsArrives` |
| `DifferencesExplained` | `AnnouncementsProofs` | `Spec => []WhyDifferent` |
| `TenthBytesGoUnseen` | `AnnouncementsProofs` | `Spec => TenthBytesUnseen` |

All safety invariants of the passing runs are among them.

*Locks.* `LockDiscipline` is not inductive: that a truncated file is the one
being received also depends on what an idle handler, a reply in flight and a
server in mid-service know of each other. `LockInv` adds to `TypeOK` and
`LockHeld`: `Unstarted` (a node that has not started has idle threads and empty
places), `Places` (which threads can be at which place: only the handler serves)
and `Claims` (a client that is connected to a server is the one that server is
serving, so that the transfer that ends is the one that was begun). One lemma
for each conjunct, one step for each action.

*Pairing.* No datagram has a number, so pairing rests on there being one
negotiation of a node at a time. `PairInv` says where it can be: a request in one
socket buffer (`OneOf(udp)`) or one queue, or one server at work on it, with or
without its answer, or the file on its way, and each of these names the server and
the path that the negotiating thread names (`RequestsOf`, `ServiceOf`,
`AnswerOf`). A node whose `dirLock` is free has nothing under way
(`QuietIsSilent`), which is why the next request starts from nothing
(`RequestPairs`); a thread that gives the lock back leaves nothing behind
(`LeavingPairs`). In every other step the negotiations stay or lose something
(`PairedKept`): losing a datagram or an answer cannot mix up two of them.

*Circles.* A node of a circle waits under `dirLock`, so no thread of its own moves
what the circle consists of, and the handler or discoverer that would have to
collect, queue or serve a request of another node of it is waiting too.
`CircleStep` goes through the actions; the one that needs care is a queue that
another thread shortens or fills (`QueueShrinks`, `AnswerArrives`): no request
appears in it, and the answer to one comes from the handler only, which waits.

*What stops.* `StopsExplained` needs to know where the request of a waiting node
is. `PeerInv` says that whatever a node has received, and whomever its threads
ask, is another node that is up (own broadcasts are ignored, ports stay bound);
`AwaitInv` that a node that waits while nothing was lost has its request in the
socket buffer or the queue of its server, or is being served (`AwaitedBy`), and that
a client is in a transfer without an end only while its server sends a file that
was written to (`CutFor`, `StuckBegins`, `CutKept`). It is these that make the
argument: a thread that cannot go on waits for `dirLock`, whose holder is at rest as
well, or for a connection, whose server is (`ServiceAwaited`), or for the end of a
transfer, whose file is gone or was cut, or for an answer, whose server must then be
in `requestFiles` itself and wait, too (`StoppedInCircle`). If no file is gone or
cut, the set of all nodes that wait is a circle.

*Folders.* `SourceWhole` says that a file that `sendFile` has open, untouched since
it was measured, is not one that is being received; `Receives` that whoever sends a
file sends it to a node that is fetching that path. So what disturbs a transfer
falls on a node with a partial file (`WritingDisturbs`, `SpoiltAside`), as
`SharedFolders` asks. With `LockDiscipline` and `PairInv`, `OpenForWriting` is an
`Open`, `Connect` a `Meet` or nothing (`ConnectionMeets`), `Transfer` a `Complete`
from a peer (`TransferCompletes`), `UserWrites`, `UserDeletes` and `ApplyDeletion` are
`Edit`s, and every other action leaves the folders alone (`FolderStep`).

*Bookkeeping.* `ListingAccountedFor` is inductive with the types; the work is in
the lemmas about `DirectoryChanges` and `Learn`: the list that `Scan` computes,
appended to what is waiting, carries the old listing to the new one
(`LearnScan`), and the last entry for a path decides (`LearnDecides`).

*Open files.* `NoDeletions` says that a list from a table never holds a deletion
and that a foreign deletion is only met by the handler itself, which is not in
mid-service then; hence nobody removes an open file.

*Whole files.* `Start`, `Scan` and `StartWatching` read the folder. A node that has
not started has no thread that receives (`Unstarted`, `LockDiscipline`), so its
first table is whole. `Scan` needs `dirLock`, which a receiver holds.
`StartWatching` takes no lock and may see a half-received file, but a list of
changes only carries hashes of the *later* listing. `AnnouncedInv` carries that
through `fileHashes` and the change buffer (`KnownWhole`), the datagrams
(`SentWhole`) and the lists of the threads (`AskedWhole`).

*Transfer.* `Narrow` says that the longest file is below the limit of the
positions (`MaxLength + 1 < Word`) and that the build is the 32 bit one; the
instances of section 3 show that both are needed. `LockstepInv` describes the one
packet under way at each point of the two loops, as long as the connection stands
and no write has failed (`Steady`), and says that the position that stands for -1
never meets a chunk (`ChunksBelow`), so a client that failed to write stays out.
`CopyInv` adds that what is written is a prefix of the file and that the chunk
under way is what follows. Every step of `FileTransfer` is then a step of
`FileCopy` or leaves it unchanged; only `ReturnFromReceive` delivers.
`MeasuredInv` follows the length through broken connections and changes of the
file: once the end packet is on its way the copy has reached the length
(`LongEnough`), and it never runs a whole chunk past it.

*Watcher.* `RoundOK` says where the parts of a round have a value. `CaughtInv`
says that whatever of the folder differs from what the round has read has
signalled the handle; with the handle rearmed *before* the folder is read this
survives every interleaving and gives `NothingMissed`. `SeenInv` says that every
entry of the listing under way is a look from `since`, from which each `Listed`
step is a `List` step of `DirectoryFeed`. `WholeInv` says that only a node
that holds `dirLock` has a partial file, one at most, and that a round that holds
`dirLock` has read none.

*Pipeline.* `LockInv` ties the mutexes to the places of the threads, `PointerInv`
the local pointers to them, and `ApartInv` keeps the five places an object can be
in apart from each other and from the deleted ones. `PipelineFlows` goes through
all actions: `Push` and the allocation are hidden or a `Collect`, a response is
handled when it is deposited and any other message when it is popped, because
`Waiting` counts a response in the handler's hands as not yet handled.

*Formats.* In the x64 build every list under way begins with a word that is 0
(`WideInv`), so `requestFiles` never gets a change. `FormatInv` adds to the types
that the changes of the writer carry NULL exactly when they are deletions and that
every datagram was made of such a list; then what is read of it is the list again
(`ReadBack`). That `getFileHash` returns a hash for every file needs an induction
over its two loops. The library's induction theorems cannot be used for it, but a
least counterexample can (`AllRounds`): with it `LoopRuns` shows that the function
of the rounds exists, and `RoundsKeep` that each value is a hash. In the same way
each of the sums stays a hash however far below zero a character or byte takes it
(`AddedUpRounds`, `AddedUpType`), and the size of a table is at least sixteen bytes
an entry (`EntrySize`, `TableSizeBound`), so that a table that fits has fewer than
2^16 entries and the cut of its size changes nothing.

*Differences.* `TravelInv` follows a path through all the places where news of it
can be: the last change under way, in `fileChangeBuf`, else in a datagram, else in
`requestFiles`, says what the watcher listed last (`Says`), and if none is under
way the copy is as it was listed (`Settled`) or was fetched too early. Each step
moves one end of one of these lists (`RestOfList`, `TwoLists`, `RestOfPackets`,
`OneMorePacket`). The proof uses no more of the hash than its type, so it holds for
a better hash as well.

*Unseen bytes.* `TenthBytesUnseen` is about files that are not too long:
`NoSumWraps` says of a file that the sum of its path and its bytes, were they all as
large as the largest byte and had they the largest weight, stays below
`Modulus - Gap`. In the program every file below 2^53 bytes whose path adds up
above zero is such a file, and in `formats` each of the nine, under every name. Then the hash of a plain text is the plain sum (`PlainSums`), two texts that
differ in one byte have hashes that differ by the difference of these bytes times
its weight (`OneByteCounts`), and the weight is 0 for the first byte and every tenth
from there (`NoWeight`). Without the premise the theorem could fail: a sum that
passes 2^64 is reduced by another number than one that passes `modBase`.

Model-checked only:

* the liveness properties `Converges`, `EditsArrive`, `EndsUnlessCut`,
  `FolderKnown`, `EveryMessageEnds` and the fairness part of `Feeds`: liveness
  under fairness and `ENABLED` are out of the prover's reach here;
* `EstablishedFilesKept` and `NoFileLost`, which hold in the given instances and,
  as `newcomer_wins` and the instance of two arriving nodes show, not in all.

## 6. What the README of the repository says and the code does not

Besides the five violated runs:

* `README.md`:47 says that each value is "multiplied my a single prime from a
  predetermined list"; the code multiplies by the index into that list, 0 to 9
  (`FileHelper.cpp` 80-84), so the first and then every tenth byte do not count.
  `TenthBytesUnseen` says exactly which single changes go unseen.
* `README.md`:15 says "All nodes compare the hash table they received". A response
  that arrives while another waits in the one place of the table manager takes that
  place, and the first is compared by nobody. `OnlyResponsesAreDropped` says that
  this, and nothing else, is lost inside a node.
* `README.md`:39 says that the server seeks to the position the client sends back;
  `sendFile` does not seek, and `NoSeekNeeded` says why that makes no difference.
* A file "of any format and size" is promised; lengths are 32 bits wide, and
  `Delivers` holds for files below 4 GiB (the row with `Word = 4` in section 3).
* `README.md`:3 promises that changes travel. In an x64 build none does
  (`NothingTravelsWide`).

## 7. What is not modelled

* *SFML.* Only headers are in the repository, 25,000 of the 26,600 lines of code
  that are there, most of them about graphics, sound and windows. The sockets are
  modelled by what the nodes do with them and what the headers say of the calls
  used. The share of
  the repository's lines that the model covers is therefore small, though every
  function the program runs is in it, save those below.
* *Outcomes of the data race on `fileHashes`.* `table_race` shows that the race
  exists; what a `std::map` that is read while it is written gives is undefined.
  `FileSync` takes each access to be atomic.
* *UDP duplication and reordering in `FileSync`.* Loss is modelled. On one network
  segment datagrams keep their order and are not doubled. `UdpPipeline` takes any
  datagram at any time.
* *Users who write to a file while it is received*, and what the sharing modes of
  their programs would do. Writing to a file while it is *sent* is modelled (`Torn`
  copies, `LosesEnd`).
* *A port 25565 that another program holds, and receives that fail* on a bound
  socket. Then `negotiateTCPTransfer` returns true and the change is dropped. That a
  node's own threads leave the port free is modelled.
* *`fs::remove` against the first listing of the watcher*, which holds each file
  open for a moment without a lock: `remove` would throw and end the program.
  `OpenFilesStay` is about `sendFile`. Later listings hold `dirLock`.
* *What the code does not survive*: an early connection, a server that disconnects, a
  file that cannot be opened, a write that fails, a list too large for a datagram.
  These happen in the models, and their effects are excepted by name in the
  properties (`StopsExplained`, `EndsUnlessCut`, `WhyDifferent`) and shown in section
  3: nothing could be proved to go well.
* *Faults at every point of a crash.* A stopped program is an arrival with what it
  left in the folder; its peers do not notice in the code either, and those that
  wait for it wait for ever, like after a lost datagram. The loss of a TCP
  connection is in `FileTransfer` only.
* *Collisions of `getFileHash`* in `FileSync`: equal hashes mean equal contents
  there. `Announcements` has the hash.
* *Stream buffers*: `FileTransfer` reads the file as it is at that moment; the
  program may read up to a buffer ahead.
* *The x64 build in `FileSync`*: `WideBuildIsSilent` says that no change arrives at
  all. `FileSync` is the Win32 build.
* *Directories*: `getFilepaths` walks them recursively; a path here is a file.
* *`handle`, `accept(n)`, `getNBytes` and the string functions* of `Server` and
  `Client`: nothing calls them. *Shutdown*: the program has none.
