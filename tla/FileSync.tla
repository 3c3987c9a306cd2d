------------------------------ MODULE FileSync ------------------------------
(***************************************************************************)
(* Nodes of the file sync network: the discoverer, handler, table manager  *)
(* and directory watcher threads of every node (Node.cpp, main.cpp,        *)
(* DirectoryMonitor.cpp), the UDP datagrams between nodes and the          *)
(* negotiation of TCP transfers.                                           *)
(*                                                                         *)
(* A file is its contents, and the contents are their hash.  Partial is    *)
(* a file that receiveFile has truncated and not yet completed; Torn is    *)
(* a copy of a Partial file, or of one that changed while it was sent.  A  *)
(* TCP transfer is a step that begins and one that ends it, or finds that  *)
(* it has no end.                                                          *)
(***************************************************************************)
EXTENDS HashTables

CONSTANTS Node,
          Partial, Torn,    \* see above
          Nothing,          \* an empty place
          Respelt,          \* a hash: what it is under the other spelling
          Established,      \* nodes already on the network, in agreement
          MayEdit,          \* <<node, path>>: a user of the node touches the file
          MaxDiffering,     \* bound: paths in which a newcomer differs
          MaxEdits,         \* bound: changes made by users
          MaxFaults         \* bound: datagrams lost and connections refused

ASSUME ContentAssumption == {Partial, Torn} \subseteq Hash /\ Partial # Torn
ASSUME NodeAssumption == Established \subseteq Node /\ MayEdit \subseteq Node \X Path
ASSUME BoundAssumption == {MaxDiffering, MaxEdits, MaxFaults} \subseteq Nat

UserContent == Hash \ {Partial, Torn}

\* getFileHash adds up the characters of the path, too.  The directory walk
\* spells a path with one separator after the shared folder; requestFiles
\* joins directory, a separator and a path that begins with one.
ASSUME SpellingAssumption == \A h \in Hash : Respelt[h] # h

\* The threads that run requestFiles.
Thread == {"discoverer", "handler", "tableManager"}
Free   == "free"

VARIABLES
    running,     \* nodes whose Node object is constructed and port bound
    watching,    \* nodes whose watcher has taken its first directory listing
    disk,        \* the shared folder of each node
    signalled,   \* dirChangeHandle of the watcher is signalled
    snapshot,    \* fileHashes of WatchDirectory
    changeBuf,   \* fileChangeBuf
    fileHashes,  \* Node::fileHashes
    dirLock,     \* holder of dirLock, or Free
    udp,         \* datagrams in the socket buffer of the node's UDP port
    todoUdp,     \* Node::todoUdp
    tableMsg,    \* tableManagerMessage; Nothing when receivedTable is false
    pc,          \* where each thread is
    job,         \* dealWithHashTable and requestFiles: the other node, its
                 \* table until it is compared, and the changes left
    reply,       \* datagram on the negotiation port, or Nothing
    incoming,    \* path and sender of the file being received
    serving,     \* case 5 of handleUdp: client, path and state of the file
    edits, faults

nodeVars  == <<running, watching>>
dirVars   == <<disk, signalled>>
tableVars == <<snapshot, changeBuf, fileHashes>>
queueVars == <<udp, todoUdp, tableMsg>>
callVars  == <<dirLock, pc, job>>
tcpVars   == <<reply, incoming, serving>>
budget    == <<edits, faults>>
vars == <<nodeVars, dirVars, tableVars, queueVars, callVars, tcpVars, budget>>

-----------------------------------------------------------------------------
Arrival(n, table)     == [pid |-> 0, from |-> n, table |-> table]
Response(n, table)    == [pid |-> 1, from |-> n, table |-> table]
FileRequest(n, c)     == [pid |-> 5, from |-> n, change |-> c]
DirChanges(n, list)   == [pid |-> 6, from |-> n, changes |-> list]

TableDatagram == [pid : {0, 1}, from : Node, table : Table]
Datagram == TableDatagram
            \cup [pid : {5}, from : Node, change : Change]
            \cup [pid : {6}, from : Node, changes : Seq(Change)]
Reply     == [from : Node, abandon : BOOLEAN, path : Path]
Reception == [path : Path, from : Node]

\* The ifstream of case 5: not open, open, open although the file was still
\* being received when sendFile measured it, or open and since changed.
FileState == {"closed", "open", "growing", "changed"}
Service   == [client : Node, path : Path, file : FileState]
Job       == [from : Node, table : {Nothing} \cup Table, list : Seq(Change)]

ASSUME NothingAssumption ==
    Nothing \notin Datagram \cup Reply \cup Reception \cup Service \cup Table

\* UdpConnection::send to a bound port.
SentTo(buffers, m, msg) ==
    IF m \in running THEN [buffers EXCEPT ![m] = Append(@, msg)] ELSE buffers

\* Node::broadcast; the sender ignores its own copy (isMyOwn).
BroadcastBy(n, msg) ==
    [m \in Node |-> IF m \in running \ {n} THEN Append(udp[m], msg) ELSE udp[m]]

\* The threads of n that are inside negotiateTCPTransfer.
Negotiating == {"negotiate", "connect", "receive", "stuck"}

\* The threads of n that have a file open for writing.
Receiving   == Negotiating \ {"negotiate"}

\* Where a thread can be.  "open" to "sent" are in case 5 of handleUdp.
Place == {"idle", "announce", "compare", "request", "open", "accept", "send", "sent"}
         \cup Negotiating

\* requestFiles goes on to the next change, or returns.
NextEntry(n, t) == IF Len(job[n][t].list) = 1 THEN "idle" ELSE "request"
Begun(list)     == IF list = << >> THEN "idle" ELSE "request"

Entry(n, t) == Head(job[n][t].list)

-----------------------------------------------------------------------------
\* A program that stopped while it was receiving a file may have left a torn
\* one, of which the network has a whole copy.
Init ==
    /\ running = Established
    /\ watching = Established
    /\ disk \in [Node -> [Path -> (Hash \ {Partial}) \cup {NoFile}]]
    /\ \A m, n \in Established : disk[m] = disk[n]
    /\ \A m \in Established, p \in Path : disk[m][p] # Torn
    /\ \A n \in Node, p \in Path :
          disk[n][p] = Torn => \E m \in Established : disk[m][p] # NoFile
    /\ \A m \in Established, n \in Node :
          Cardinality({p \in Path : disk[m][p] # disk[n][p]}) <= MaxDiffering
    /\ snapshot = disk
    /\ fileHashes = disk
    /\ signalled = [n \in Node |-> FALSE]
    /\ changeBuf = [n \in Node |-> << >>]
    /\ dirLock = [n \in Node |-> Free]
    /\ udp = [n \in Node |-> << >>]
    /\ todoUdp = [n \in Node |-> << >>]
    /\ tableMsg = [n \in Node |-> Nothing]
    /\ pc = [n \in Node |-> [t \in Thread |-> "idle"]]
    /\ job = [n \in Node |-> [t \in Thread |->
                  [from |-> n, table |-> Nothing, list |-> << >>]]]
    /\ reply = [n \in Node |-> Nothing]
    /\ incoming = [n \in Node |-> Nothing]
    /\ serving = [n \in Node |-> Nothing]
    /\ edits = 0
    /\ faults = 0

-----------------------------------------------------------------------------
(* Start-up: main, the constructor of Node and discoverDriver.             *)

Start(n) ==
    /\ n \notin running
    /\ running' = running \cup {n}
    /\ fileHashes' = [fileHashes EXCEPT ![n] = disk[n]]
    /\ pc' = [pc EXCEPT ![n]["discoverer"] = "announce"]
    /\ UNCHANGED <<watching, dirVars, snapshot, changeBuf, queueVars,
                   dirLock, job, tcpVars, budget>>

Announce(n) ==
    /\ pc[n]["discoverer"] = "announce"
    /\ pc' = [pc EXCEPT ![n]["discoverer"] = "idle"]
    /\ udp' = BroadcastBy(n, Arrival(n, fileHashes[n]))
    /\ UNCHANGED <<nodeVars, dirVars, tableVars, todoUdp, tableMsg,
                   dirLock, job, tcpVars, budget>>

\* Mutant: the watcher thread is created before the Node.
WatchingFirst(n) ==
    /\ n \notin watching
    /\ watching' = watching \cup {n}
    /\ snapshot' = [snapshot EXCEPT ![n] = disk[n]]
    /\ UNCHANGED <<running, dirVars, changeBuf, fileHashes, queueVars,
                   callVars, tcpVars, budget>>

\* WatchDirectory up to its loop: the first listing is taken without dirLock.
StartWatching(n) ==
    /\ n \in running \ watching
    /\ watching' = watching \cup {n}
    /\ snapshot' = [snapshot EXCEPT ![n] = disk[n]]
    /\ UNCHANGED <<running, dirVars, changeBuf, fileHashes, queueVars,
                   callVars, tcpVars, budget>>

-----------------------------------------------------------------------------
(* The shared folder: its user, the change notification and the watcher.   *)

DiskBecomes(n, p, c) ==
    /\ disk' = [disk EXCEPT ![n][p] = c]
    /\ signalled' = [signalled EXCEPT ![n] = n \in watching]

\* sendFile of n has the file at p open.
OpenAt(n, p) == serving[n] # Nothing /\ serving[n].path = p /\ serving[n].file # "closed"

\* A file that sendFile has measured is written to before it has been sent.
WrittenTo(n, p) ==
    IF pc[n]["handler"] = "send" /\ OpenAt(n, p)
    THEN [serving EXCEPT ![n].file = "changed"] ELSE serving

\* A user adds or edits a file, but not one that is being received.
UserWrites(n, p, c) ==
    /\ n \in running /\ <<n, p>> \in MayEdit /\ edits < MaxEdits
    /\ disk[n][p] \notin {c, Partial}
    /\ DiskBecomes(n, p, c)
    /\ serving' = WrittenTo(n, p)
    /\ edits' = edits + 1
    /\ UNCHANGED <<nodeVars, tableVars, queueVars, callVars, reply, incoming, faults>>

\* Windows does not delete a file that sendFile or receiveFile has open.
UserDeletes(n, p) ==
    /\ n \in running /\ <<n, p>> \in MayEdit /\ edits < MaxEdits
    /\ disk[n][p] \notin {NoFile, Partial}
    /\ ~OpenAt(n, p)
    /\ DiskBecomes(n, p, NoFile)
    /\ edits' = edits + 1
    /\ UNCHANGED <<nodeVars, tableVars, queueVars, callVars, tcpVars, faults>>

\* Mutant: the directory is compared without dirLock.
ScanUnlocked(n) ==
    /\ signalled[n]
    /\ signalled' = [signalled EXCEPT ![n] = FALSE]
    /\ \E changes \in DirectoryChanges(snapshot[n], disk[n]) :
          changeBuf' = [changeBuf EXCEPT ![n] = @ \o changes]
    /\ snapshot' = [snapshot EXCEPT ![n] = disk[n]]
    /\ UNCHANGED <<nodeVars, disk, fileHashes, queueVars, callVars, tcpVars, budget>>

\* Mutant: the previous listing is never replaced.
ScanAgainstFirst(n) ==
    /\ signalled[n] /\ dirLock[n] = Free
    /\ signalled' = [signalled EXCEPT ![n] = FALSE]
    /\ \E changes \in DirectoryChanges(snapshot[n], disk[n]) :
          changeBuf' = [changeBuf EXCEPT ![n] = @ \o changes]
    /\ UNCHANGED <<nodeVars, disk, snapshot, fileHashes, queueVars, callVars,
                   tcpVars, budget>>

\* One round of WatchDirectory: the handle is rearmed, then the directory is
\* compared with the previous listing under dirLock.
Scan(n) ==
    /\ signalled[n] /\ dirLock[n] = Free
    /\ signalled' = [signalled EXCEPT ![n] = FALSE]
    /\ \E changes \in DirectoryChanges(snapshot[n], disk[n]) :
          changeBuf' = [changeBuf EXCEPT ![n] = @ \o changes]
    /\ snapshot' = [snapshot EXCEPT ![n] = disk[n]]
    /\ UNCHANGED <<nodeVars, disk, fileHashes, queueVars, callVars, tcpVars, budget>>

-----------------------------------------------------------------------------
(* The handler thread outside requestFiles: handleUdp.                     *)

\* The head of handleUdp.  try_lock may fail, so the handler may also go on
\* to its queue without this step.
PublishChanges(n) ==
    /\ n \in running /\ pc[n]["handler"] = "idle"
    /\ dirLock[n] = Free /\ changeBuf[n] # << >>
    /\ fileHashes' = [fileHashes EXCEPT ![n] = Learn(@, changeBuf[n])]
    /\ udp' = BroadcastBy(n, DirChanges(n, changeBuf[n]))
    /\ changeBuf' = [changeBuf EXCEPT ![n] = << >>]
    /\ UNCHANGED <<nodeVars, dirVars, snapshot, todoUdp, tableMsg, callVars,
                   tcpVars, budget>>

\* The handler takes a datagram with this pid from todoUdp.
Pops(n, pid) ==
    /\ pc[n]["handler"] = "idle"
    /\ todoUdp[n] # << >> /\ Head(todoUdp[n]).pid = pid
    /\ todoUdp' = [todoUdp EXCEPT ![n] = Tail(@)]

\* case 1: the message is left in the one place the table manager looks at.
HandleResponse(n) ==
    /\ Pops(n, 1)
    /\ tableMsg' = [tableMsg EXCEPT ![n] = Head(todoUdp[n])]
    /\ UNCHANGED <<nodeVars, dirVars, tableVars, udp, callVars, tcpVars, budget>>

\* Mutant: the break after "if (abandon)" is missing.
GoesOn(abandon) == FALSE
\* case 5 is left when there is no file to send.
EndsHere(abandon) == abandon

\* case 5 up to the opening of the file: the details go to the negotiation
\* port of the client, who reads only the first datagram that comes there.
HandleFileRequest(n) ==
    /\ Pops(n, 5)
    /\ LET client  == Head(todoUdp[n]).from
           path    == Head(todoUdp[n]).change.path
           abandon == disk[n][path] = NoFile
           details == [from |-> n, abandon |-> abandon, path |-> path]
           waits   == \E t \in Thread : pc[client][t] = "negotiate"
       IN  /\ reply' = IF waits /\ reply[client] = Nothing
                       THEN [reply EXCEPT ![client] = details] ELSE reply
           /\ IF EndsHere(abandon) THEN UNCHANGED <<pc, serving>>
              ELSE /\ pc' = [pc EXCEPT ![n]["handler"] = "open"]
                   /\ serving' = [serving EXCEPT ![n] =
                          [client |-> client, path |-> path, file |-> "closed"]]
    /\ UNCHANGED <<nodeVars, dirVars, tableVars, udp, tableMsg, dirLock, job,
                   incoming, budget>>

\* case 5 goes on: the file is opened, if it is still there, and the
\* listener, which may be open since an earlier transfer, starts anew.
OpenAndListen(n) ==
    /\ pc[n]["handler"] = "open"
    /\ serving' = [serving EXCEPT ![n].file =
                      IF disk[n][serving[n].path] = NoFile THEN "closed" ELSE "open"]
    /\ pc' = [pc EXCEPT ![n]["handler"] = "accept"]
    /\ UNCHANGED <<nodeVars, dirVars, tableVars, queueVars, dirLock, job,
                   reply, incoming, budget>>

\* The empty packet of the client has come; sendFile and case 5 return.
EndService(n) ==
    /\ pc[n]["handler"] = "sent"
    /\ pc' = [pc EXCEPT ![n]["handler"] = "idle"]
    /\ serving' = [serving EXCEPT ![n] = Nothing]
    /\ UNCHANGED <<nodeVars, dirVars, tableVars, queueVars, dirLock, job,
                   reply, incoming, budget>>

\* case 6: requestFiles runs on the handler thread itself.
HandleDirChanges(n) ==
    /\ Pops(n, 6)
    /\ LET msg == Head(todoUdp[n])
       IN  /\ job' = [job EXCEPT ![n]["handler"] =
                          [from |-> msg.from, table |-> Nothing, list |-> msg.changes]]
           /\ pc' = [pc EXCEPT ![n]["handler"] = Begun(msg.changes)]
    /\ UNCHANGED <<nodeVars, dirVars, tableVars, udp, tableMsg, dirLock,
                   tcpVars, budget>>

-----------------------------------------------------------------------------
(* The discoverer (collectUdpTraffic) and the table manager.               *)

\* Any datagram but an arrival is left to the handler.
CollectForHandler(n) ==
    /\ pc[n]["discoverer"] = "idle"
    /\ udp[n] # << >> /\ Head(udp[n]).pid # 0
    /\ udp' = [udp EXCEPT ![n] = Tail(@)]
    /\ todoUdp' = [todoUdp EXCEPT ![n] = Append(@, Head(udp[n]))]
    /\ UNCHANGED <<nodeVars, dirVars, tableVars, tableMsg, callVars, tcpVars,
                   budget>>

\* Mutant: the table of an arriving node is left to the table manager, which
\* takes edits as well.
CollectArrivalLater(n) ==
    /\ pc[n]["discoverer"] = "idle"
    /\ udp[n] # << >> /\ Head(udp[n]).pid = 0
    /\ LET msg == Head(udp[n])
       IN  /\ udp' = SentTo([udp EXCEPT ![n] = Tail(@)], msg.from,
                            Response(n, fileHashes[n]))
           /\ tableMsg' = [tableMsg EXCEPT ![n] = msg]
    /\ UNCHANGED <<nodeVars, dirVars, tableVars, todoUdp, callVars, tcpVars, budget>>

\* The thread is in dealWithHashTable with the table that came in msg.
Considers(n, t, msg) ==
    /\ job' = [job EXCEPT ![n][t] = [from |-> msg.from, table |-> msg.table, list |-> << >>]]
    /\ pc' = [pc EXCEPT ![n][t] = "compare"]

\* An arrival is answered with the node's own table; the table that came with
\* it is dealt with on this thread.
CollectArrival(n) ==
    /\ pc[n]["discoverer"] = "idle"
    /\ udp[n] # << >> /\ Head(udp[n]).pid = 0
    /\ LET msg == Head(udp[n])
       IN  /\ udp' = SentTo([udp EXCEPT ![n] = Tail(@)], msg.from,
                            Response(n, fileHashes[n]))
           /\ Considers(n, "discoverer", msg)
    /\ UNCHANGED <<nodeVars, dirVars, tableVars, todoUdp, tableMsg, dirLock,
                   tcpVars, budget>>

\* tableManagerDriver finds receivedTable set.
TakeTable(n) ==
    /\ pc[n]["tableManager"] = "idle"
    /\ tableMsg[n] # Nothing
    /\ tableMsg' = [tableMsg EXCEPT ![n] = Nothing]
    /\ Considers(n, "tableManager", tableMsg[n])
    /\ UNCHANGED <<nodeVars, dirVars, tableVars, udp, todoUdp, dirLock,
                   tcpVars, budget>>

\* dealWithHashTable reads fileHashes, without a lock, once more.  Only the
\* discoverer ignores edits.
CompareTables(n, t) ==
    /\ pc[n][t] = "compare"
    /\ \E list \in RequestLists(fileHashes[n], job[n][t].table, t = "discoverer") :
          /\ job' = [job EXCEPT ![n][t] = [@ EXCEPT !.table = Nothing, !.list = list]]
          /\ pc' = [pc EXCEPT ![n][t] = Begun(list)]
    /\ UNCHANGED <<nodeVars, dirVars, tableVars, queueVars, dirLock, tcpVars, budget>>

-----------------------------------------------------------------------------
(* requestFiles and negotiateTCPTransfer, on any of the three threads.     *)

\* Mutant: dirLock->lock() is left out.
LocksNothing(n, t) == pc[n][t] = "request"
\* The thread turns to the next change of its list and holds dirLock.
LocksFor(n, t) == pc[n][t] = "request" /\ dirLock[n] = Free

Advance(n, t, pcs) ==
    /\ job' = [job EXCEPT ![n][t].list = Tail(@)]
    /\ pc' = [pcs EXCEPT ![n][t] = NextEntry(n, t)]

\* The file is there and has, under the spelling of requestFiles, the hash
\* that was announced under the other.
UpToDate(n, change) ==
    /\ disk[n][change.path] # NoFile
    /\ Respelt[disk[n][change.path]] = change.hash

SkipChange(n, t) ==
    /\ LocksFor(n, t)
    /\ Entry(n, t).kind # "Deletion" /\ UpToDate(n, Entry(n, t))
    /\ Advance(n, t, pc)
    /\ UNCHANGED <<nodeVars, dirVars, tableVars, queueVars, dirLock, tcpVars, budget>>

ApplyDeletion(n, t) ==
    /\ LocksFor(n, t)
    /\ Entry(n, t).kind = "Deletion"
    /\ IF disk[n][Entry(n, t).path] = NoFile THEN UNCHANGED dirVars
       ELSE DiskBecomes(n, Entry(n, t).path, NoFile)
    /\ Advance(n, t, pc)
    /\ UNCHANGED <<nodeVars, tableVars, queueVars, dirLock, tcpVars, budget>>

\* bind succeeds unless another call has the negotiation port.
PortFree(n) == \A t \in Thread : pc[n][t] \notin Negotiating

\* The file is missing or differs: bind the negotiation port, ask the server.
\* Nobody looks at what bind returns: without the port receive fails, and the
\* call returns true and leaves the change.
RequestFile(n, t) ==
    /\ LocksFor(n, t)
    /\ Entry(n, t).kind # "Deletion" /\ ~UpToDate(n, Entry(n, t))
    /\ udp' = SentTo(udp, job[n][t].from, FileRequest(n, Entry(n, t)))
    /\ IF PortFree(n)
       THEN /\ dirLock' = [dirLock EXCEPT ![n] = t]
            /\ pc' = [pc EXCEPT ![n][t] = "negotiate"]
            /\ UNCHANGED job
       ELSE Advance(n, t, pc) /\ UNCHANGED dirLock
    /\ UNCHANGED <<nodeVars, dirVars, tableVars, todoUdp, tableMsg, tcpVars, budget>>

\* Mutant: a call that was told to give up returns without dirLock->unlock().
AbandonedHolding(n, t) ==
    /\ pc[n][t] = "negotiate" /\ reply[n] # Nothing /\ reply[n].abandon
    /\ reply' = [reply EXCEPT ![n] = Nothing]
    /\ Advance(n, t, pc)
    /\ UNCHANGED <<nodeVars, dirVars, tableVars, queueVars, dirLock, incoming,
                   serving, budget>>

\* The server does not have the file: the client lets itself get out of sync.
Abandoned(n, t) ==
    /\ pc[n][t] = "negotiate" /\ reply[n] # Nothing /\ reply[n].abandon
    /\ reply' = [reply EXCEPT ![n] = Nothing]
    /\ dirLock' = [dirLock EXCEPT ![n] = Free]
    /\ Advance(n, t, pc)
    /\ UNCHANGED <<nodeVars, dirVars, tableVars, queueVars, incoming, serving,
                   budget>>

\* Mutant: the negotiation socket, and what came to it, outlives the call.
OpenKeepingReply(n, t) ==
    /\ pc[n][t] = "negotiate" /\ reply[n] # Nothing /\ ~reply[n].abandon
    /\ incoming' = [incoming EXCEPT ![n] = [path |-> reply[n].path, from |-> reply[n].from]]
    /\ DiskBecomes(n, reply[n].path, Partial)
    /\ serving' = WrittenTo(n, reply[n].path)
    /\ pc' = [pc EXCEPT ![n][t] = "connect"]
    /\ UNCHANGED <<nodeVars, tableVars, queueVars, dirLock, job, reply, budget>>

\* The ofstream truncates the file before the client connects.
OpenForWriting(n, t) ==
    /\ pc[n][t] = "negotiate" /\ reply[n] # Nothing /\ ~reply[n].abandon
    /\ incoming' = [incoming EXCEPT ![n] = [path |-> reply[n].path, from |-> reply[n].from]]
    /\ reply' = [reply EXCEPT ![n] = Nothing]
    /\ DiskBecomes(n, reply[n].path, Partial)
    /\ serving' = WrittenTo(n, reply[n].path)
    /\ pc' = [pc EXCEPT ![n][t] = "connect"]
    /\ UNCHANGED <<nodeVars, tableVars, queueVars, dirLock, job, budget>>

\* sendFile of m measures a file that may still be on its way to m.
Measured(m) ==
    IF serving[m].file = "open" /\ disk[m][serving[m].path] = Partial
    THEN [serving EXCEPT ![m].file = "growing"] ELSE serving

\* Client::connect meets Server::accept, and sendFile begins.
Connect(n, t) ==
    /\ pc[n][t] = "connect" /\ pc[incoming[n].from]["handler"] = "accept"
    /\ pc' = [pc EXCEPT ![n][t] = "receive",
                        ![incoming[n].from]["handler"] = "send"]
    /\ serving' = Measured(incoming[n].from)
    /\ UNCHANGED <<nodeVars, dirVars, tableVars, queueVars, dirLock, job,
                   reply, incoming, budget>>

\* The server has sent the details and does not listen yet: the connection is
\* refused, or taken by the listener it is about to close.  startClient's
\* result is ignored and receiveFile goes round for ever.
ConnectTooEarly(n, t) ==
    /\ faults < MaxFaults
    /\ pc[n][t] = "connect" /\ pc[incoming[n].from]["handler"] = "open"
    /\ pc' = [pc EXCEPT ![n][t] = "stuck"]
    /\ faults' = faults + 1
    /\ UNCHANGED <<nodeVars, dirVars, tableVars, queueVars, dirLock, job,
                   tcpVars, edits>>

\* What is received of the file m sends: all of it, but if the file was not
\* whole or changed meanwhile, part of it or parts of different contents.
\* (What was read in full before a change is the file that was sent before.)
Copies(m) ==
    IF serving[m].file = "open" THEN {disk[m][serving[m].path]}
    ELSE {disk[m][serving[m].path], Torn} \ {Partial}

\* sendFile and receiveFile come to their end, then the rest of requestFiles
\* for this change.  A file that is not open has no end.
Transfer(n, t) ==
    /\ pc[n][t] = "receive"
    /\ LET server == incoming[n].from
       IN  /\ serving[server].file # "closed"
           /\ \E copy \in Copies(server) : DiskBecomes(n, incoming[n].path, copy)
           /\ Advance(n, t, [pc EXCEPT ![server]["handler"] = "sent"])
    /\ incoming' = [incoming EXCEPT ![n] = Nothing]
    /\ dirLock' = [dirLock EXCEPT ![n] = Free]
    /\ UNCHANGED <<nodeVars, tableVars, queueVars, reply, serving, budget>>

\* The file is cut below the length that sendFile found: neither of the two
\* loops ends.
LosesEnd(n, t) ==
    /\ pc[n][t] = "receive" /\ serving[incoming[n].from].file = "changed"
    /\ pc' = [pc EXCEPT ![n][t] = "stuck"]
    /\ UNCHANGED <<nodeVars, dirVars, tableVars, queueVars, dirLock, job, tcpVars, budget>>

-----------------------------------------------------------------------------
(* Faults of the network.                                                  *)

LoseDatagram(n) ==
    /\ faults < MaxFaults /\ udp[n] # << >>
    /\ udp' = [udp EXCEPT ![n] = Tail(@)]
    /\ faults' = faults + 1
    /\ UNCHANGED <<nodeVars, dirVars, tableVars, todoUdp, tableMsg, callVars,
                   tcpVars, edits>>

LoseReply(n) ==
    /\ faults < MaxFaults /\ reply[n] # Nothing
    /\ reply' = [reply EXCEPT ![n] = Nothing]
    /\ faults' = faults + 1
    /\ UNCHANGED <<nodeVars, dirVars, tableVars, queueVars, callVars,
                   incoming, serving, edits>>

-----------------------------------------------------------------------------
RequestStep(n, t) ==
    \/ SkipChange(n, t)  \/ ApplyDeletion(n, t)  \/ RequestFile(n, t)
    \/ Abandoned(n, t)   \/ OpenForWriting(n, t) \/ Connect(n, t)
    \/ CompareTables(n, t) \/ Transfer(n, t) \/ LosesEnd(n, t)

StartUp(n)        == Start(n) \/ Announce(n)
DiscovererStep(n) == CollectForHandler(n) \/ CollectArrival(n)
HandlerStep(n)    == \/ HandleResponse(n) \/ HandleFileRequest(n)
                     \/ OpenAndListen(n)  \/ EndService(n) \/ HandleDirChanges(n)

UserStep(n)  == \E p \in Path : UserDeletes(n, p) \/ \E c \in UserContent : UserWrites(n, p, c)
FaultStep(n) == \/ LoseDatagram(n) \/ LoseReply(n)
                \/ \E t \in Thread : ConnectTooEarly(n, t)

Next == \E n \in Node :
    \/ StartUp(n) \/ StartWatching(n) \/ Scan(n) \/ PublishChanges(n)
    \/ DiscovererStep(n) \/ HandlerStep(n) \/ TakeTable(n)
    \/ \E t \in Thread : RequestStep(n, t)
    \/ UserStep(n) \/ FaultStep(n)

Spec == Init /\ [][Next]_vars

\* Every thread is a loop that the scheduler keeps running.  Nobody has to
\* start a program or edit a file, and nothing has to go wrong.
ThreadFairness(n) ==
    /\ WF_vars(Announce(n) \/ DiscovererStep(n) \/ RequestStep(n, "discoverer"))
    /\ WF_vars(HandlerStep(n) \/ RequestStep(n, "handler"))
    /\ WF_vars(PublishChanges(n))
    /\ WF_vars(TakeTable(n) \/ RequestStep(n, "tableManager"))
    /\ WF_vars(StartWatching(n))
    /\ WF_vars(Scan(n))

FairSpec == Spec /\ \A n \in Node : ThreadFairness(n)

-----------------------------------------------------------------------------
(* Properties.                                                             *)

TypeOK ==
    /\ running \subseteq Node /\ watching \subseteq running
    /\ disk \in [Node -> Table]
    /\ signalled \in [Node -> BOOLEAN]
    /\ snapshot \in [Node -> Table] /\ fileHashes \in [Node -> Table]
    /\ changeBuf \in [Node -> Seq(Change)]
    /\ dirLock \in [Node -> Thread \cup {Free}]
    /\ udp \in [Node -> Seq(Datagram)] /\ todoUdp \in [Node -> Seq(Datagram)]
    /\ tableMsg \in [Node -> {Nothing} \cup TableDatagram]
    /\ pc \in [Node -> [Thread -> Place]]
    /\ job \in [Node -> [Thread -> Job]]
    /\ reply \in [Node -> {Nothing} \cup Reply]
    /\ incoming \in [Node -> {Nothing} \cup Reception]
    /\ serving \in [Node -> {Nothing} \cup Service]
    /\ edits \in Nat /\ faults \in Nat

(***************************************************************************)
(* dirLock is what keeps the one TCP client, the negotiation port and the  *)
(* shared folder of a node to one thread: a thread is inside               *)
(* negotiateTCPTransfer exactly while it holds dirLock, and a file that    *)
(* receiveFile has truncated is the one the holder is receiving.           *)
(***************************************************************************)
LockHeld == \A n \in Node, t \in Thread : pc[n][t] \in Negotiating <=> dirLock[n] = t

PartialIsIncoming ==
    \A n \in Node, p \in Path : disk[n][p] = Partial =>
        /\ incoming[n] # Nothing /\ incoming[n].path = p
        /\ \E t \in Thread : dirLock[n] = t /\ pc[n][t] \in Receiving

LockDiscipline == LockHeld /\ PartialIsIncoming

(***************************************************************************)
(* A half-received file is never announced: no table, no change list and   *)
(* no request carries its hash, although the files of an arriving node and *)
(* of the watcher are hashed while transfers go on ("We must lock the      *)
(* dirLock so Node.cpp does not start changing the directory while         *)
(* detecting what changed", DirectoryMonitor.cpp).                         *)
(***************************************************************************)
Whole(changes) == \A i \in 1..Len(changes) : changes[i].hash # Partial
WholeMessage(msg) ==
    /\ msg.pid \in {0, 1} => \A p \in Path : msg.table[p] # Partial
    /\ msg.pid = 5 => msg.change.hash # Partial
    /\ msg.pid = 6 => Whole(msg.changes)

OnlyWholeFilesAnnounced ==
    \A n \in Node :
        /\ \A p \in Path : fileHashes[n][p] # Partial
        /\ Whole(changeBuf[n])
        /\ \A i \in 1..Len(udp[n]) : WholeMessage(udp[n][i])
        /\ \A i \in 1..Len(todoUdp[n]) : WholeMessage(todoUdp[n][i])
        /\ tableMsg[n] # Nothing => WholeMessage(tableMsg[n])
        /\ \A t \in Thread :
              /\ Whole(job[n][t].list)
              /\ job[n][t].table # Nothing => \A p \in Path : job[n][t].table[p] # Partial

(***************************************************************************)
(* Nothing in a reply says which request it answers.  The reply on the     *)
(* negotiation port, and the file being received, are nevertheless those   *)
(* of the change the node is negotiating about.                            *)
(***************************************************************************)
AsksFor(n, t, server, path) ==
    /\ pc[n][t] \in Negotiating
    /\ job[n][t].from = server /\ Entry(n, t).path = path

AnswersMatchRequests ==
    \A n \in Node :
        /\ reply[n] # Nothing =>
              \E t \in Thread : AsksFor(n, t, reply[n].from, reply[n].path)
        /\ incoming[n] # Nothing =>
              \E t \in Thread : AsksFor(n, t, incoming[n].from, incoming[n].path)

(***************************************************************************)
(* Server::accept and Server::receive have no timeout, so a handler must   *)
(* only wait there for a client that still waits for this very file.       *)
(***************************************************************************)
ServersAreAwaited ==
    \A n \in Node : pc[n]["handler"] \in {"open", "accept", "send"} =>
        \E t \in Thread : AsksFor(serving[n].client, t, n, serving[n].path)

(***************************************************************************)
(* fs::remove in requestFiles never meets a file that sendFile has open    *)
(* (it would throw, and end the program): whichever thread deletes, and    *)
(* however tables and change lists arrive, an open file stays.             *)
(***************************************************************************)
OpenFilesStay ==
    \A n \in Node, p \in Path : OpenAt(n, p) => disk[n][p] # NoFile

(***************************************************************************)
(* All that the threads of all nodes ever do to the folders is what        *)
(* SharedFolders allows: no file is made up, gets the contents of another  *)
(* path, is written by two threads, or is removed while it is received,    *)
(* and only a copy of a file that was written to meanwhile is not whole.   *)
(***************************************************************************)
Spoils(m) == /\ pc[m]["handler"] \in {"accept", "send"}
             /\ serving[m].file \in {"growing", "changed"}
Spoilt    == {n \in Node : \E m \in Node : Spoils(m) /\ serving[m].client = n}

Folders == INSTANCE SharedFolders WITH folder <- disk, spoilt <- Spoilt

FoldersExchanged == Folders!Spec

(***************************************************************************)
(* Neither the wait for an answer nor the one for dirLock has a timeout.   *)
(* Nodes wait in a circle when each has asked one of them that cannot      *)
(* answer: the handler there is in requestFiles, too, or the discoverer is *)
(* and has not passed the request on.  Such a circle never opens.          *)
(***************************************************************************)
Asks(msg, n)   == msg.pid = 5 /\ msg.from = n
NoneOf(q, n)   == \A i \in 1..Len(q) : ~Asks(q[i], n)

Waits(n, t)    == pc[n][t] = "negotiate" /\ reply[n] = Nothing
Requests(n, t) == pc[n][t] \in {"request", "negotiate"}

WaitsIn(C, n, t) ==
    LET m == job[n][t].from
    IN  /\ Waits(n, t) /\ m \in C
        /\ \/ Requests(m, "handler")
           \/ Requests(m, "discoverer") /\ NoneOf(todoUdp[m], n)

Circle(C) == C # {} /\ \A n \in C : \E t \in Thread : WaitsIn(C, n, t)

CirclesStay == [][\A C \in SUBSET Node : Circle(C) => Circle(C)']_vars

(***************************************************************************)
(* The threads stop for a reason.  While no datagram is lost and no        *)
(* connection comes too early, threads that are not back in their loops    *)
(* can go on somewhere, unless nodes wait in a circle, or a handler sends  *)
(* a file that went between the answer and its opening, or a file was cut  *)
(* while it was sent.                                                      *)
(***************************************************************************)
CanGoOn(n, t) ==
    \/ pc[n][t] \in {"announce", "compare", "open", "sent"}
    \/ pc[n][t] = "request" /\ dirLock[n] = Free
    \/ pc[n][t] = "negotiate" /\ reply[n] # Nothing
    \/ pc[n][t] = "connect" /\ pc[incoming[n].from]["handler"] = "accept"
    \/ pc[n][t] = "receive" /\ serving[incoming[n].from].file # "closed"
    \/ /\ pc[n][t] = "idle"
       /\ \/ t = "discoverer" /\ udp[n] # << >>
          \/ t = "handler" /\ todoUdp[n] # << >>
          \/ t = "tableManager" /\ tableMsg[n] # Nothing

FileGone(n) == pc[n]["handler"] \in {"accept", "send"} /\ serving[n].file = "closed"
FileCut(n)  == pc[n]["handler"] = "send" /\ serving[n].file = "changed"

StopsExplained ==
    faults = 0 /\ (\E n \in Node, t \in Thread : pc[n][t] # "idle") =>
        \/ \E n \in Node, t \in Thread : CanGoOn(n, t)
        \/ \E C \in SUBSET Node : Circle(C)
        \/ \E n \in Node : FileGone(n) \/ FileCut(n)

(***************************************************************************)
(* The watcher and the handler split the knowledge of the folder: what the *)
(* handler has entered in fileHashes and what waits in fileChangeBuf add   *)
(* up to the listing of the watcher, on every node that was up before the  *)
(* changes began.                                                          *)
(***************************************************************************)
ListingAccountedFor ==
    \A n \in Established : Learn(fileHashes[n], changeBuf[n]) = snapshot[n]

(***************************************************************************)
(* README.md: "Anything you add, remove, or edit from this folder will     *)
(* add, remove, or edit it on computers of connected nodes."  The nodes    *)
(* come to agree on every file and stay so, and every thread gets back to  *)
(* its loop, ready for the next change.                                    *)
(***************************************************************************)
WholeEverywhere == \A n \in running, p \in Path : disk[n][p] \notin {Partial, Torn}
Agreement == WholeEverywhere /\ \A m, n \in running : disk[m] = disk[n]
Ready     == \A n \in running, t \in Thread : pc[n][t] = "idle"
Converges == <>[](Agreement /\ Ready)

(***************************************************************************)
(* README.md: files of the same path but different hashes are handled "by  *)
(* claiming the existing node's file as the correct one".  While no user   *)
(* touches anything, what an existing node knows of its files is not       *)
(* changed by an arrival: it may fetch its own version back, no other.     *)
(***************************************************************************)
EstablishedFilesKept ==
    [][\A n \in Established, p \in Path :
          fileHashes[n][p] # NoFile => fileHashes'[n][p] = fileHashes[n][p]]_vars

(***************************************************************************)
(* A node overwrites its file when it fetches another's, and the other may *)
(* be doing the same: of a file that no user touches, one whole copy must  *)
(* be left on the network at every moment.                                 *)
(***************************************************************************)
CopyLeft(d, p) == \E n \in running : d[n][p] \in UserContent

NoFileLost ==
    [][\A p \in Path : CopyLeft(disk, p) /\ edits' = edits => CopyLeft(disk', p)]_vars

(***************************************************************************)
(* README.md: "if node A and node B exist and A edits the contents of a    *)
(* file, then a fileChangeData is sent to B with details of the            *)
(* transaction. B then uses that to adjust his local files".  What a user  *)
(* leaves is what every node ends up with, whatever is fetched back.       *)
(***************************************************************************)
EditsArrive ==
    \A e \in MayEdit, c \in UserContent \cup {NoFile} :
        (edits = MaxEdits /\ disk[e[1]][e[2]] = c)
            ~> [](\A n \in running : disk[n][e[2]] = c)

(***************************************************************************)
(* README.md: "If a change is made inside the shared folder while a node   *)
(* is on the network then the file change data is stored and sent across   *)
(* the network": whatever the watcher of any node has listed is entered in *)
(* fileHashes or waits in fileChangeBuf.                                   *)
(***************************************************************************)
NoChangeForgotten ==
    \A n \in watching : Learn(fileHashes[n], changeBuf[n]) = snapshot[n]

=============================================================================
