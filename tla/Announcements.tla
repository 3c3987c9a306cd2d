--------------------------- MODULE Announcements ---------------------------
(***************************************************************************)
(* The way of a change from the folder of one node, the writer, into that  *)
(* of another, in full detail: the hash by which it is noticed, the        *)
(* datagram it travels in, and the comparison at the other end.  FileSync  *)
(* takes these to be exact; this module says what is lost in them.         *)
(*                                                                         *)
(* The reader's own changes, and the threads of either node, are           *)
(* FileSync's.  Its requests are served at once (FileTransfer).            *)
(***************************************************************************)
EXTENDS HashTables, FileHash, FiniteSetsExt

CONSTANTS
    Root,           \* the folder, as the characters that follow "Documents"
    Name,           \* of a path: the characters that follow the folder
    Separator,      \* the character that requestFiles has twice in between
    HalfWord,       \* 2^16 in the code
    MaxPacket,      \* sf::UdpSocket::MaxDatagramSize, 65507 bytes
    Files,          \* the files users write
    FirstFolders,   \* what may be there at the start
    Edited,         \* bound: the paths they change
    MaxSaves,       \* bound: changes made by the user
    MaxLost         \* bound: datagrams lost

Folder == [Path -> Files \cup {NoFile}]

ASSUME FilesAssumption ==
    /\ Files \subseteq Seq(Byte) /\ NoFile \notin Seq(Byte)
    /\ FirstFolders \subseteq Folder /\ Edited \subseteq Path
    /\ Hash = 0..(Modulus - Gap - 1)
ASSUME NameAssumption ==
    /\ Root \in Seq(Nat) /\ Separator \in Nat
    /\ \A p \in Path : Name[p] \in Seq(Nat) /\ Name[p] # << >>
ASSUME BoundAssumption == {HalfWord, MaxPacket, MaxSaves, MaxLost} \subseteq Nat

\* A std::wstring in a packet has its length first, and four bytes for each of
\* its characters.
PathSize(p) == 4 + 4 * Len(Name[p])
HashSize == 8
KindSize == 1

\* A number of table entries that is cut to 16 bits belongs to no datagram: an
\* entry takes 16 bytes or more, and in the code 65507 < 65536 * 16.
ASSUME DatagramAssumption == MaxPacket < HalfWord * 16

VARIABLES
    wide,           \* the x64 build, for both nodes: size_t has two words
    folder,         \* of the writer
    listing,        \* the watcher's listing of it
    fileChangeBuf,
    fileHashes,
    net,            \* datagrams on their way
    fileChanges,    \* what the reader's requestFiles has before it
    copy,           \* the folder of the reader
    saves, lost,
    \* For the properties only: paths of which a list was not sent or lost, and
    \* those that were fetched before the watcher had seen the latest change.
    unsent, early

vars == <<wide, folder, listing, fileChangeBuf, fileHashes, net, fileChanges, copy,
          saves, lost, unsent, early>>

\* The path as getFilepaths gives it, and as requestFiles puts it together.
ListedAs(p) == Root \o Name[p]
AskedAs(p)  == Root \o <<Separator>> \o Name[p]

\* CreateFileHashes.
HashTable(f) == [p \in Path |-> IF f[p] = NoFile THEN NoFile ELSE HashOf(ListedAs(p), f[p])]

-----------------------------------------------------------------------------
(* Packets.                                                                *)

\* Mutant: the number is a Uint32 at both ends.
SizeWritten32(n) == <<n>>
\* size_t, high word first; a Uint32 is read back.
SizeWritten(n) == IF wide THEN <<0, n>> ELSE <<n>>

CodeOf == [Addition |-> 0, Deletion |-> 1, Edit |-> 2]

KindRead(code) == IF code = 0 THEN "Addition" ELSE IF code = 1 THEN "Deletion" ELSE "Edit"

ChangesPacket(changes) ==
    [size |-> SizeWritten(Len(changes)),
     entries |-> [i \in DOMAIN changes |->
                     [path |-> changes[i].path, code |-> CodeOf[changes[i].kind],
                      hash |-> IF changes[i].hash = NoFile THEN 0 ELSE changes[i].hash]]]

ReadChanges(packet) ==
    [i \in 1..Head(packet.size) |->
        LET entry == packet.entries[i]
        IN  [path |-> entry.path, hash |-> entry.hash, kind |-> KindRead(entry.code)]]

\* A pid and a size_t, and the entries.
ChangesSize(changes) ==
    (IF wide THEN 9 ELSE 5)
        + MapThenSumSet(LAMBDA i : PathSize(changes[i].path) + HashSize + KindSize,
                        DOMAIN changes)

\* Mutant: the number of entries is cut to a byte.
SizeCutShort(n) == n % 2
SizeCut(n) == n % HalfWord

Present(table) == {p \in Path : table[p] # NoFile}

TablePacket(table) == [size |-> SizeCut(Cardinality(Present(table))), entries |-> table]

\* A pid and a Uint16, and the entries.
TableSize(table) == 3 + MapThenSumSet(LAMBDA p : PathSize(p) + HashSize, Present(table))

\* The entries are in map order; as many are read as the size says.
ReadTable(packet) ==
    [p \in Path |->
        IF Cardinality({q \in Present(packet.entries) : q <= p}) <= packet.size
        THEN packet.entries[p] ELSE NoFile]

\* sf::UdpSocket::send.
Fits(size) == size <= MaxPacket

-----------------------------------------------------------------------------
Init ==
    /\ wide \in BOOLEAN
    /\ folder \in FirstFolders /\ copy = folder
    /\ listing = HashTable(folder) /\ fileHashes = listing
    /\ fileChangeBuf = << >> /\ net = << >> /\ fileChanges = << >>
    /\ saves = 0 /\ lost = 0
    /\ unsent = {} /\ early = {}

-----------------------------------------------------------------------------
(* The writer.                                                             *)

UserChanges(p, file) ==
    /\ saves < MaxSaves /\ saves' = saves + 1
    /\ folder[p] # file /\ folder' = [folder EXCEPT ![p] = file]
    /\ UNCHANGED <<wide, listing, fileChangeBuf, fileHashes, net, fileChanges, copy, lost,
                   unsent, early>>

\* WatchDirectory, once round.
WatchDirectory ==
    /\ HashTable(folder) # listing
    /\ \E changes \in DirectoryChanges(listing, HashTable(folder)) :
          fileChangeBuf' = fileChangeBuf \o changes
    /\ listing' = HashTable(folder)
    /\ UNCHANGED <<wide, folder, fileHashes, net, fileChanges, copy, saves, lost, unsent, early>>

PathsOf(changes) == {changes[i].path : i \in DOMAIN changes}

\* The head of handleUdp.  What broadcast returns is not looked at.
Publish ==
    /\ fileChangeBuf # << >> /\ fileChangeBuf' = << >>
    /\ fileHashes' = Learn(fileHashes, fileChangeBuf)
    /\ LET fits == Fits(ChangesSize(fileChangeBuf))
       IN  /\ net' = IF fits THEN Append(net, ChangesPacket(fileChangeBuf)) ELSE net
           /\ unsent' = IF fits THEN unsent ELSE unsent \cup PathsOf(fileChangeBuf)
    /\ UNCHANGED <<wide, folder, listing, fileChanges, copy, saves, lost, early>>

Lose ==
    /\ net # << >> /\ net' = Tail(net)
    /\ lost < MaxLost /\ lost' = lost + 1
    /\ unsent' = unsent \cup PathsOf(Head(net).entries)
    /\ UNCHANGED <<wide, folder, listing, fileChangeBuf, fileHashes, fileChanges, copy,
                   saves, early>>

-----------------------------------------------------------------------------
(* The reader.                                                             *)

\* Case 6 of handleUdp.
Receive ==
    /\ net # << >> /\ net' = Tail(net)
    /\ fileChanges = << >> /\ fileChanges' = ReadChanges(Head(net))
    /\ UNCHANGED <<wide, folder, listing, fileChangeBuf, fileHashes, copy, saves, lost,
                   unsent, early>>

\* Mutant: a file that is there is taken to be up to date.
AnyFile(change) == copy[change.path] # NoFile
SameHash(change) ==
    /\ copy[change.path] # NoFile
    /\ HashOf(AskedAs(change.path), copy[change.path]) = change.hash

\* requestFiles for one change.  A file the writer no longer has is abandoned.
RequestFile ==
    /\ fileChanges # << >> /\ fileChanges' = Tail(fileChanges)
    /\ LET change == Head(fileChanges)
           p      == change.path
           asked  == change.kind # "Deletion" /\ ~SameHash(change)
       IN  /\ copy' = CASE change.kind = "Deletion"     -> [copy EXCEPT ![p] = NoFile]
                        [] asked /\ folder[p] # NoFile -> [copy EXCEPT ![p] = folder[p]]
                        [] OTHER                       -> copy
           /\ early' = IF asked /\ HashTable(folder)[p] # listing[p]
                       THEN early \cup {p} ELSE early \ {p}
    /\ UNCHANGED <<wide, folder, listing, fileChangeBuf, fileHashes, net, saves, lost, unsent>>

-----------------------------------------------------------------------------
Next ==
    \/ \E p \in Edited, file \in Files \cup {NoFile} : UserChanges(p, file)
    \/ WatchDirectory \/ Publish \/ Lose \/ Receive \/ RequestFile

Spec == Init /\ [][Next]_vars

-----------------------------------------------------------------------------
(* Properties.                                                             *)

TypeOK ==
    /\ wide \in BOOLEAN
    /\ {folder, copy} \subseteq Folder /\ {listing, fileHashes} \subseteq Table
    /\ {fileChangeBuf, fileChanges} \subseteq Seq(Change)
    /\ \A i \in DOMAIN net : Head(net[i].size) \in 0..Len(net[i].entries)
    /\ saves \in 0..MaxSaves /\ lost \in 0..MaxLost
    /\ unsent \subseteq Path /\ early \subseteq Path

(***************************************************************************)
(* README.md: "Anything you add, remove, or edit from this folder will     *)
(* add, remove, or edit it on computers of connected nodes."  When all     *)
(* that was noticed has been dealt with, a file that still differs has     *)
(* changed without a change of its hash, or the reader's old one has, as   *)
(* the reader spells the path, the hash of the new; or a list with it was  *)
(* lost or too large for a datagram; or the reader fetched it between a    *)
(* change and a change back that the watcher saw as none.                  *)
(***************************************************************************)
AtRest == HashTable(folder) = listing /\ fileChangeBuf \o net \o fileChanges = << >>

HashesMeet(p) ==
    /\ folder[p] # NoFile /\ copy[p] # NoFile
    /\ HashOf(ListedAs(p), folder[p]) \in {HashOf(ListedAs(p), copy[p]),
                                           HashOf(AskedAs(p), copy[p])}

WhyDifferent ==
    AtRest /\ ~wide =>
        \A p \in Path : folder[p] = copy[p] \/ HashesMeet(p) \/ p \in unsent \cup early

(***************************************************************************)
(* A size_t is written and a Uint32 is read: in the x64 build, that        *)
(* reads the high word, no change ever reaches another node.               *)
(***************************************************************************)
NothingTravelsWide == [][wide => copy' = copy]_vars

(***************************************************************************)
(* A table that can be sent at all arrives as it was sent, although its    *)
(* size is cut to 16 bits, and so does a list of changes in the x86 build. *)
(***************************************************************************)
WhatFitsArrives ==
    /\ Fits(TableSize(fileHashes)) => ReadTable(TablePacket(fileHashes)) = fileHashes
    /\ ~wide => \A i \in 1..Len(fileChangeBuf) :
          LET change == ReadChanges(ChangesPacket(fileChangeBuf))[i]
          IN  /\ change.path = fileChangeBuf[i].path /\ change.kind = fileChangeBuf[i].kind
              /\ change.kind # "Deletion" => change.hash = fileChangeBuf[i].hash

(***************************************************************************)
(* README.md says that every byte is multiplied by a prime.  It is by its  *)
(* number, from 0 to 9 and round again.  Of a plain text file, in which no *)
(* sum wraps round, the change of a single byte goes unseen exactly when   *)
(* it is the first or comes a multiple of ten after it.                    *)
(***************************************************************************)
PlainText(file) == \A n \in DOMAIN file : file[n] >= 0 /\ file[n] \notin {Cr, Eof}

OneByte(file, other) ==
    IF file = NoFile \/ other = NoFile \/ Len(file) # Len(other) THEN {}
    ELSE LET new == {n \in DOMAIN file : file[n] # other[n]}
         IN  IF PlainText(file) /\ PlainText(other) /\ Cardinality(new) = 1 THEN new ELSE {}

\* So many bytes, each no larger than the largest and with the highest weight.
NoSumWraps(path, file) ==
    \E most \in Byte :
        /\ \A n \in DOMAIN file : file[n] <= most
        /\ PathHash(path, Len(file)) + Len(file) * (most * (Cycle - 1)) < Modulus - Gap

TenthBytesUnseen ==
    [][\A p \in Path : \A n \in OneByte(folder[p], folder'[p]) :
          NoSumWraps(ListedAs(p), folder[p]) /\ NoSumWraps(ListedAs(p), folder'[p]) =>
            (HashTable(folder)[p] = HashTable(folder')[p] <=> n % Cycle = 1 % Cycle)]_vars

=============================================================================
