-------------------------- MODULE DirectoryWatcher --------------------------
(***************************************************************************)
(* WatchDirectory on one node, file by file: every round first lists the   *)
(* paths (getFilepaths) and then hashes them one after the other           *)
(* (CreateFileHashes), while users of the folder go on.  A file is opened  *)
(* twice for its hash: filesize measures and closes it, then getFileHash   *)
(* reads it.  The other threads of the node change the folder under        *)
(* dirLock only.  Scan of FileSync is such a round in one step.            *)
(***************************************************************************)
EXTENDS HashTables

CONSTANTS Empty,       \* hash of an empty file, and of one that cannot be opened
          Partial,     \* a file that receiveFile is writing
          Mixed,       \* hash of a file that changes while it is read, or goes
                       \* between being measured and being read
          Nothing,     \* no file is being read
          MaxChanges   \* bound: changes of the folder

ASSUME LookAssumption    == {Empty, Partial, Mixed} \subseteq Hash
                            /\ Cardinality({Empty, Partial, Mixed}) = 3
ASSUME ChangesAssumption == MaxChanges \in Nat

UserContent == Hash \ {Partial, Mixed}

VARIABLES
    folder,      \* the shared folder
    signalled,   \* dirChangeHandle is signalled
    dirLock,     \* who holds dirLock
    at,          \* where the watcher is
    unlisted,    \* paths directory_iterator has not come to
    listed,      \* paths found and not yet hashed
    reading,     \* the file that getFileHash is at: what it measured, whether the
                 \* file changed since and whether it is open for reading
    newDir,      \* pathToHash of CreateFileHashes
    table,       \* fileHashes of WatchDirectory
    changeBuf,   \* fileChangeBuf
    changes,     \* number of changes of the folder
    since        \* history: the looks of every file since the last listing

round == <<at, unlisted, listed, newDir>>
vars  == <<folder, signalled, dirLock, round, reading, table, changeBuf, changes, since>>

Looks(c) == IF c = NoFile THEN {NoFile, Empty, Mixed} ELSE {c, Mixed}

Reading == [path : Path, look : Hash, changed : BOOLEAN, open : BOOLEAN]

ASSUME ReadingAssumption == Nothing \notin Reading

NoTable == [p \in Path |-> NoFile]

Init ==
    /\ folder \in [Path -> UserContent \cup {NoFile}]
    /\ signalled = FALSE /\ dirLock = "free"
    /\ at = "start" /\ unlisted = {} /\ listed = {} /\ newDir = NoTable
    /\ reading = Nothing /\ table = NoTable /\ changeBuf = << >> /\ changes = 0
    /\ since = [p \in Path |-> {folder[p]}]

-----------------------------------------------------------------------------
(* The watcher.                                                            *)

BeginListing ==
    /\ at' = "list"
    /\ unlisted' = Path /\ listed' = {} /\ newDir' = NoTable

\* FindFirstChangeNotification, then CreateFileHashes without dirLock.
Register ==
    /\ at = "start"
    /\ BeginListing
    /\ UNCHANGED <<folder, signalled, dirLock, reading, table, changeBuf, changes, since>>

\* getFilepaths meets the paths in the order of the file system.
ListPath(p) ==
    /\ at = "list" /\ p \in unlisted
    /\ unlisted' = unlisted \ {p}
    /\ listed' = IF folder[p] = NoFile THEN listed ELSE listed \cup {p}
    /\ UNCHANGED <<folder, signalled, dirLock, at, newDir, reading, table, changeBuf,
                   changes, since>>

ListingDone ==
    /\ at = "list" /\ unlisted = {}
    /\ at' = "hash"
    /\ UNCHANGED <<folder, signalled, dirLock, unlisted, listed, newDir, reading, table,
                   changeBuf, changes, since>>

\* Mutant: a file that was there in the round before is not read again.
OldMeasure(p) == IF table[p] # NoFile THEN table[p] ELSE folder[p]
\* Mutant: nobody looks whether the file could be opened.
MeasureUnopened(p) == folder[p]
\* What filesize finds of a file: of one that has gone, that it is empty.
Measure(p) == IF folder[p] = NoFile THEN Empty ELSE folder[p]

\* filesize opens the next file, and closes it.
MeasureFile(p) ==
    /\ at = "hash" /\ reading = Nothing
    /\ p \in listed
    /\ reading' = [path |-> p, look |-> Measure(p), changed |-> FALSE, open |-> FALSE]
    /\ listed' = listed \ {p}
    /\ UNCHANGED <<folder, signalled, dirLock, at, unlisted, newDir, table, changeBuf,
                   changes, since>>

\* getFileHash opens it again.
OpenFile ==
    /\ reading # Nothing /\ ~reading.open /\ folder[reading.path] # NoFile
    /\ reading' = [reading EXCEPT !.open = TRUE]
    /\ UNCHANGED <<folder, signalled, dirLock, round, table, changeBuf, changes, since>>

HashIs(h) ==
    /\ newDir' = [newDir EXCEPT ![reading.path] = h]
    /\ reading' = Nothing
    /\ UNCHANGED <<folder, signalled, dirLock, at, unlisted, listed, table, changeBuf,
                   changes, since>>

\* A hash of a size, which may be zero, and no contents.
SizeOnly(look) ==
    IF look = Empty THEN {Empty} ELSE IF look = Partial THEN {Empty, Mixed} ELSE {Mixed}

\* The file has gone: its hash is that of its path and of what it measured.
OpenFails ==
    /\ reading # Nothing /\ ~reading.open /\ folder[reading.path] = NoFile
    /\ \E h \in SizeOnly(reading.look) : HashIs(h)

\* A file that changed under getFileHash has the hash it had before or has
\* now, or one of a content it never had.
HashFile ==
    /\ reading # Nothing /\ reading.open
    /\ \E h \in IF reading.changed THEN {reading.look, folder[reading.path], Mixed}
                ELSE {reading.look} : HashIs(h)

\* The table takes the place of the one before (prevDir = newDir).
Listed ==
    /\ at = "hash" /\ listed = {} /\ reading = Nothing
    /\ table' = newDir
    /\ since' = [p \in Path |-> {folder[p]}]
    /\ at' = "wait"
    /\ UNCHANGED <<folder, unlisted, listed, newDir, reading, changes>>

FirstListing ==
    /\ dirLock # "watcher"
    /\ Listed
    /\ UNCHANGED <<signalled, dirLock, changeBuf>>

\* WaitForSingleObject, then FindNextChangeNotification rearms the handle.
Wake ==
    /\ at = "wait" /\ signalled
    /\ signalled' = FALSE
    /\ at' = "lock"
    /\ UNCHANGED <<folder, dirLock, unlisted, listed, newDir, reading, table, changeBuf,
                   changes, since>>

\* Mutant: dirLock.lock() is left out.
LockNothing ==
    /\ at = "lock"
    /\ dirLock' = "watcher"
    /\ BeginListing
    /\ UNCHANGED <<folder, signalled, reading, table, changeBuf, changes, since>>

LockFolder ==
    /\ at = "lock" /\ dirLock = "free"
    /\ dirLock' = "watcher"
    /\ BeginListing
    /\ UNCHANGED <<folder, signalled, reading, table, changeBuf, changes, since>>

\* Mutant: the handle is rearmed after the folder was read.
RearmLate ==
    /\ dirLock = "watcher"
    /\ Listed
    /\ \E found \in DirectoryChanges(table, newDir) : changeBuf' = changeBuf \o found
    /\ dirLock' = "free"
    /\ signalled' = FALSE

\* getDirectoryChanges is done; its list goes into fileChangeBuf.
Report ==
    /\ dirLock = "watcher"
    /\ Listed
    /\ \E found \in DirectoryChanges(table, newDir) : changeBuf' = changeBuf \o found
    /\ dirLock' = "free"
    /\ UNCHANGED signalled

-----------------------------------------------------------------------------
(* The users of the folder and the other threads.                          *)

Reads(p) == reading # Nothing /\ reading.path = p

\* Windows does not delete a file that is open.
InUse(p) == Reads(p) /\ reading.open

FileBecomes(p, c) ==
    /\ folder[p] # c /\ (c = NoFile => ~InUse(p))
    /\ folder' = [folder EXCEPT ![p] = c]
    /\ since' = [since EXCEPT ![p] = @ \cup Looks(c)]
    /\ signalled' = (at # "start" \/ signalled)
    /\ reading' = IF Reads(p) THEN [reading EXCEPT !.changed = TRUE] ELSE reading
    /\ UNCHANGED <<round, table, changeBuf>>

FolderBecomes(p, c) ==
    /\ changes < MaxChanges
    /\ changes' = changes + 1
    /\ FileBecomes(p, c)

\* A user adds, edits or deletes a file.
UserChanges(p, c) ==
    /\ folder[p] # Partial
    /\ FolderBecomes(p, c)
    /\ UNCHANGED dirLock

\* requestFiles deletes a file while it holds dirLock.  (The first listing
\* takes no lock: if it has the file open, fs::remove throws and the program
\* is over.)
NodeDeletes(p) ==
    /\ dirLock = "free"
    /\ FolderBecomes(p, NoFile)
    /\ UNCHANGED dirLock

\* negotiateTCPTransfer opens the file, and later closes it.
NodeOpens(p) ==
    /\ dirLock = "free"
    /\ FolderBecomes(p, Partial)
    /\ dirLock' = "node"

\* No bound holds up what has been begun.
NodeCloses(p, c) ==
    /\ dirLock = "node" /\ folder[p] = Partial
    /\ FileBecomes(p, c)
    /\ dirLock' = "free"
    /\ UNCHANGED changes

\* The head of handleUdp.
Publish ==
    /\ dirLock = "free" /\ changeBuf # << >>
    /\ changeBuf' = << >>
    /\ UNCHANGED <<folder, signalled, dirLock, round, reading, table, changes, since>>

-----------------------------------------------------------------------------
WatcherStep ==
    \/ Register \/ ListingDone \/ OpenFile \/ OpenFails \/ HashFile
    \/ FirstListing \/ Wake \/ LockFolder \/ Report
    \/ \E p \in Path : ListPath(p) \/ MeasureFile(p)

NodeStep ==
    \/ Publish
    \/ \E p \in Path : NodeDeletes(p) \/ NodeOpens(p) \/ \E c \in UserContent : NodeCloses(p, c)

UserStep == \E p \in Path, c \in UserContent \cup {NoFile} : UserChanges(p, c)

Next == WatcherStep \/ NodeStep \/ UserStep

Spec == Init /\ [][Next]_vars

\* The watcher's loop runs on, and a file that was opened gets closed.
FairSpec ==
    /\ Spec
    /\ WF_vars(WatcherStep)
    /\ WF_vars(\E p \in Path, c \in UserContent : NodeCloses(p, c))

-----------------------------------------------------------------------------
(* Properties.                                                             *)

TypeOK ==
    /\ folder \in Table /\ signalled \in BOOLEAN
    /\ dirLock \in {"free", "watcher", "node"}
    /\ at \in {"start", "list", "hash", "wait", "lock"}
    /\ unlisted \subseteq Path /\ listed \subseteq Path
    /\ newDir \in Table /\ table \in Table
    /\ reading \in {Nothing} \cup Reading
    /\ changeBuf \in Seq(Change)
    /\ changes \in 0..MaxChanges
    /\ since \in [Path -> SUBSET (Hash \cup {NoFile})]

(***************************************************************************)
(* FindNextChangeNotification comes before the folder is read, so a watcher *)
(* that waits for a signal nobody has given has not missed anything: what  *)
(* changed behind its back, after a path was listed or hashed, has         *)
(* signalled the handle again.                                             *)
(***************************************************************************)
NothingMissed == at = "wait" /\ ~signalled => table = folder

(***************************************************************************)
(* "We must lock the dirLock so Node.cpp does not start changing the       *)
(* directory while detecting what changed": a file the node is still       *)
(* receiving may get into the first listing, which takes no lock, but its  *)
(* hash is never reported.                                                 *)
(***************************************************************************)
WholeReports == \A i \in 1..Len(changeBuf) : changeBuf[i].hash # Partial

(***************************************************************************)
(* The listings are those of a folder that changes while it is read, and   *)
(* the folder is listed again as long as that matters.                     *)
(***************************************************************************)
Feed == INSTANCE DirectoryFeed WITH known <- table, Content <- Hash
Feeds == Feed!Spec

(***************************************************************************)
(* README.md: "If a change is made inside the shared folder while a node   *)
(* is on the network then the file change data is stored".  The changes    *)
(* come to an end, and then the watcher knows the folder as it is.         *)
(***************************************************************************)
FolderKnown == <>[](table = folder)

=============================================================================
