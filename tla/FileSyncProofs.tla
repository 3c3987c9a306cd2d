--------------------------- MODULE FileSyncProofs ---------------------------
(* Theorems about FileSync.                                                *)
EXTENDS FileSync, HashTablesProofs

InCase5 == {"open", "accept", "send", "sent"}

(***************************************************************************)
(* Nothing reaches a node that is not up: its port is not bound.           *)
(***************************************************************************)
Unstarted ==
    \A n \in Node \ running :
        /\ udp[n] = << >> /\ todoUdp[n] = << >> /\ tableMsg[n] = Nothing
        /\ \A t \in Thread : pc[n][t] = "idle"

(***************************************************************************)
(* What a thread may rely on where it is, beyond the types.                *)
(***************************************************************************)
PlaceOf(n, t) ==
    /\ pc[n][t] \in InCase5 => t = "handler"
    /\ pc[n][t] = "announce" => t = "discoverer"
    /\ pc[n][t] = "compare" => t # "handler" /\ job[n][t].table # Nothing
    /\ pc[n][t] \in {"request"} \cup Negotiating => job[n][t].list # << >>
    /\ pc[n][t] \in Receiving => incoming[n] # Nothing

Places ==
    \A n \in Node :
        /\ \A t \in Thread : PlaceOf(n, t)
        /\ pc[n]["handler"] \in InCase5 <=> serving[n] # Nothing

(***************************************************************************)
(* A client that was answered, or connects, or receives, has its server to *)
(* itself: serving names one client.                                       *)
(***************************************************************************)
Serves(m, n, places) == pc[m]["handler"] \in places /\ serving[m].client = n

ReplyOf(n) ==
    reply[n] # Nothing =>
        /\ \E t \in Thread : pc[n][t] = "negotiate"
        /\ reply[n].abandon \/ Serves(reply[n].from, n, {"open", "accept"})

ServerOf(n, t) ==
    /\ pc[n][t] = "connect" => Serves(incoming[n].from, n, {"open", "accept"})
    /\ pc[n][t] = "receive" => Serves(incoming[n].from, n, {"send"})

Claims == \A n \in Node : ReplyOf(n) /\ \A t \in Thread : ServerOf(n, t)

LockInv == TypeOK /\ Unstarted /\ LockHeld /\ Places /\ Claims

-----------------------------------------------------------------------------
\* The fields of the datagrams with each pid.
LEMMA DatagramFields ==
    ASSUME NEW msg \in Datagram
    PROVE  /\ msg.from \in Node
           /\ msg.pid \in {0, 1, 5, 6}
           /\ msg.pid \in {0, 1} => msg \in TableDatagram /\ msg.table \in Table
           /\ msg.pid = 5 => msg.change \in Change
           /\ msg.pid = 6 => msg.changes \in Seq(Change)
BY DEF Datagram, TableDatagram

LEMMA MessageTypes ==
    ASSUME NEW n \in Node
    PROVE  /\ \A table \in Table : Arrival(n, table) \in Datagram
           /\ \A table \in Table : Response(n, table) \in Datagram
           /\ \A c \in Change : FileRequest(n, c) \in Datagram
           /\ \A list \in Seq(Change) : DirChanges(n, list) \in Datagram
BY DEF Arrival, Response, FileRequest, DirChanges, Datagram, TableDatagram

\* Sending keeps the socket buffers well typed.
LEMMA SendTypes ==
    ASSUME TypeOK, NEW n \in Node, NEW msg \in Datagram
    PROVE  /\ \A buffers \in [Node -> Seq(Datagram)] :
                 SentTo(buffers, n, msg) \in [Node -> Seq(Datagram)]
           /\ BroadcastBy(n, msg) \in [Node -> Seq(Datagram)]
<1>1. \A s \in Seq(Datagram) : Append(s, msg) \in Seq(Datagram)
  OBVIOUS
<1> QED BY <1>1 DEF TypeOK, SentTo, BroadcastBy

\* Writing a file keeps the folders well typed.
LEMMA DiskTypes ==
    ASSUME TypeOK, NEW n \in Node, NEW p \in Path, NEW c \in Hash \cup {NoFile},
           DiskBecomes(n, p, c)
    PROVE  disk' \in [Node -> Table] /\ signalled' \in [Node -> BOOLEAN]
BY DEF DiskBecomes, TypeOK, Table

(***************************************************************************)
(* What becomes of the file while it is sent leaves the service as it is.  *)
(***************************************************************************)
FileOnly(s) ==
    \/ s = serving
    \/ \E m \in Node, f \in FileState :
          serving[m] # Nothing /\ s = [serving EXCEPT ![m].file = f]

SameService ==
    \A m \in Node : /\ serving'[m] # Nothing <=> serving[m] # Nothing
                    /\ serving'[m].client = serving[m].client
                    /\ serving'[m].path = serving[m].path

LEMMA ServiceKept ==
    ASSUME serving \in [Node -> {Nothing} \cup Service], FileOnly(serving')
    PROVE  SameService /\ serving' \in [Node -> {Nothing} \cup Service]
<1>1. CASE serving' = serving
  BY <1>1 DEF SameService
<1>2. ASSUME NEW m \in Node, NEW f \in FileState, serving[m] # Nothing,
             serving' = [serving EXCEPT ![m].file = f]
      PROVE  SameService /\ serving' \in [Node -> {Nothing} \cup Service]
  <2> DEFINE now == [serving[m] EXCEPT !.file = f]
  <2>1. serving[m] \in Service
    BY <1>2
  <2>2. now \in Service /\ now.client = serving[m].client /\ now.path = serving[m].path
    BY <2>1 DEF Service
  <2>3. now # Nothing
    BY <2>2, NothingAssumption
  <2>4. serving' = [serving EXCEPT ![m] = now]
    BY <1>2
  <2> HIDE DEF now
  <2> QED BY <1>2, <2>2, <2>3, <2>4 DEF SameService
<1> QED BY <1>1, <1>2 DEF FileOnly

LEMMA WrittenToService ==
    ASSUME NEW n \in Node, NEW p PROVE FileOnly(WrittenTo(n, p))
BY DEF FileOnly, WrittenTo, OpenAt, FileState

LEMMA MeasuredService ==
    ASSUME NEW m \in Node, serving[m] # Nothing PROVE FileOnly(Measured(m))
BY DEF FileOnly, Measured, FileState

\* All that users do, but for the folder and the number of their changes.
LEMMA UserTouchesFile ==
    ASSUME serving \in [Node -> {Nothing} \cup Service], NEW n \in Node, UserStep(n)
    PROVE  /\ SameService
           /\ UNCHANGED <<nodeVars, tableVars, queueVars, dirLock, pc, job, reply, incoming, faults>>
<1>1. FileOnly(serving')
  <2>1. PICK p \in Path : UserDeletes(n, p) \/ \E c \in UserContent : UserWrites(n, p, c)
    BY DEF UserStep
  <2>2. CASE UserDeletes(n, p)
    BY <2>2 DEF UserDeletes, FileOnly, tcpVars
  <2>3. CASE \E c \in UserContent : UserWrites(n, p, c)
    BY <2>3, WrittenToService DEF UserWrites
  <2> QED BY <2>1, <2>2, <2>3
<1>2. UNCHANGED <<nodeVars, tableVars, queueVars, dirLock, pc, job, reply, incoming, faults>>
  BY DEF UserStep, UserWrites, UserDeletes, callVars, tcpVars
<1> QED BY <1>1, <1>2, ServiceKept

\* A thread inside requestFiles has a change to deal with.
LEMMA EntryType ==
    ASSUME TypeOK, Places, NEW n \in Node, NEW t \in Thread,
           pc[n][t] \in {"request"} \cup Negotiating
    PROVE  /\ job[n][t].list \in Seq(Change) /\ job[n][t].list # << >>
           /\ job[n][t].from \in Node
           /\ Entry(n, t) \in Change
           /\ Tail(job[n][t].list) \in Seq(Change)
<1>1. job[n][t] \in Job
  BY DEF TypeOK
<1>2. PlaceOf(n, t)
  BY DEF Places
<1>3. job[n][t].list # << >>
  BY <1>2 DEF PlaceOf
<1> QED BY <1>1, <1>3 DEF Entry, Job

LEMMA AdvanceTypes ==
    ASSUME TypeOK, Places, NEW n \in Node, NEW t \in Thread,
           pc[n][t] \in {"request"} \cup Negotiating,
           NEW pcs \in [Node -> [Thread -> Place]], Advance(n, t, pcs)
    PROVE  /\ job' \in [Node -> [Thread -> Job]]
           /\ pc' \in [Node -> [Thread -> Place]]
<1>1. NextEntry(n, t) \in Place
  BY DEF NextEntry, Place
<1>2. pc' \in [Node -> [Thread -> Place]]
  BY <1>1 DEF Advance
<1>3. /\ Tail(job[n][t].list) \in Seq(Change)
      /\ job[n][t] \in Job
  BY EntryType DEF TypeOK
<1>4. [job[n][t] EXCEPT !.list = Tail(job[n][t].list)] \in Job
  BY ONLY <1>3 DEF Job
<1>5. job' = [job EXCEPT ![n] = [job[n] EXCEPT ![t] = [job[n][t] EXCEPT !.list = Tail(job[n][t].list)]]]
  BY DEF Advance
<1>6. [job[n] EXCEPT ![t] = [job[n][t] EXCEPT !.list = Tail(job[n][t].list)]]
        \in [Thread -> Job]
  BY <1>4 DEF TypeOK
<1> QED BY <1>2, <1>5, <1>6 DEF TypeOK

LEMMA ConsidersTypes ==
    ASSUME TypeOK, NEW n \in Node, NEW t \in Thread, NEW msg,
           msg.from \in Node, msg.table \in Table, Considers(n, t, msg)
    PROVE  job' \in [Node -> [Thread -> Job]] /\ pc' \in [Node -> [Thread -> Place]]
<1>1. [from |-> msg.from, table |-> msg.table, list |-> << >>] \in Job
  BY DEF Job
<1> QED BY <1>1 DEF Considers, TypeOK, Place

LEMMA TypeInit == Init => TypeOK
<1> SUFFICES ASSUME Init PROVE TypeOK
  OBVIOUS
<1>1. << >> \in Seq(Change) /\ << >> \in Seq(Datagram)
  OBVIOUS
<1>2. disk \in [Node -> Table]
  BY DEF Init, Table, UserContent
<1> QED BY <1>1, <1>2, NodeAssumption DEF Init, TypeOK, Job, Place, Thread

LEMMA TypeStep == LockInv /\ [Next]_vars => TypeOK'
<1> SUFFICES ASSUME LockInv, [Next]_vars PROVE TypeOK'
  OBVIOUS
<1> USE DEF LockInv
<1>1. CASE UNCHANGED vars
  BY <1>1 DEF TypeOK, vars, nodeVars, dirVars, tableVars, queueVars, callVars, tcpVars, budget
<1>2. ASSUME NEW n \in Node, Start(n) PROVE TypeOK'
  BY <1>2 DEF TypeOK, Start, dirVars, queueVars, tcpVars, budget, Place, Thread
<1>3. ASSUME NEW n \in Node, Announce(n) PROVE TypeOK'
  <2>1. Arrival(n, fileHashes[n]) \in Datagram
    BY MessageTypes DEF TypeOK
  <2>2. udp' \in [Node -> Seq(Datagram)]
    BY <1>3, <2>1, SendTypes DEF Announce
  <2> QED BY <1>3, <2>2 DEF TypeOK, Announce, nodeVars, dirVars, tableVars, tcpVars, budget, Place, Thread
<1>4. ASSUME NEW n \in Node, StartWatching(n) PROVE TypeOK'
  BY <1>4 DEF TypeOK, StartWatching, dirVars, queueVars, callVars, tcpVars, budget
<1>5. ASSUME NEW n \in Node, Scan(n) PROVE TypeOK'
  <2>1. \A list \in DirectoryChanges(snapshot[n], disk[n]) : changeBuf[n] \o list \in Seq(Change)
    BY DirectoryChangesList DEF TypeOK
  <2>2. changeBuf' \in [Node -> Seq(Change)]
    BY <1>5, <2>1 DEF TypeOK, Scan
  <2> QED BY <1>5, <2>2 DEF TypeOK, Scan, nodeVars, queueVars, callVars, tcpVars, budget
<1>6. ASSUME NEW n \in Node, PublishChanges(n) PROVE TypeOK'
  <2>1. DirChanges(n, changeBuf[n]) \in Datagram
    BY MessageTypes DEF TypeOK
  <2>2. udp' \in [Node -> Seq(Datagram)]
    BY <1>6, <2>1, SendTypes DEF PublishChanges
  <2>3. Learn(fileHashes[n], changeBuf[n]) \in Table
    BY LearnType DEF TypeOK
  <2>4. changeBuf' \in [Node -> Seq(Change)]
    <3>1. << >> \in Seq(Change)  OBVIOUS
    <3> QED BY <1>6, <3>1 DEF TypeOK, PublishChanges
  <2>5. fileHashes' \in [Node -> Table]
    BY <1>6, <2>3 DEF TypeOK, PublishChanges
  <2> QED BY <1>6, <2>2, <2>4, <2>5 DEF TypeOK, PublishChanges, nodeVars, dirVars, callVars, tcpVars, budget
<1>7. ASSUME NEW n \in Node, HandleResponse(n) PROVE TypeOK'
  <2>1. Head(todoUdp[n]) \in TableDatagram
    BY <1>7, DatagramFields DEF TypeOK, HandleResponse, Pops
  <2>2. tableMsg' \in [Node -> {Nothing} \cup TableDatagram]
    BY <1>7, <2>1 DEF TypeOK, HandleResponse
  <2>3. todoUdp' \in [Node -> Seq(Datagram)]
    <3>1. Tail(todoUdp[n]) \in Seq(Datagram)
      BY <1>7 DEF TypeOK, HandleResponse, Pops
    <3> QED BY <1>7, <3>1 DEF TypeOK, HandleResponse, Pops
  <2> QED BY <1>7, <2>2, <2>3 DEF TypeOK, HandleResponse, nodeVars, dirVars, tableVars, callVars, tcpVars, budget
<1>8. ASSUME NEW n \in Node, HandleFileRequest(n) PROVE TypeOK'
  <2>1. /\ Head(todoUdp[n]) \in Datagram /\ Tail(todoUdp[n]) \in Seq(Datagram)
        /\ Head(todoUdp[n]).pid = 5
    BY <1>8 DEF TypeOK, HandleFileRequest, Pops
  <2>2. Head(todoUdp[n]).from \in Node /\ Head(todoUdp[n]).change.path \in Path
    BY <2>1, DatagramFields DEF Change
  <2>3. [from |-> n, abandon |-> disk[n][Head(todoUdp[n]).change.path] = NoFile,
         path |-> Head(todoUdp[n]).change.path] \in Reply
    BY <2>2 DEF Reply
  <2>4. [client |-> Head(todoUdp[n]).from, path |-> Head(todoUdp[n]).change.path,
         file |-> "closed"] \in Service
    BY <2>2 DEF Service, FileState
  <2>5. reply' \in [Node -> {Nothing} \cup Reply]
    BY <1>8, <2>3 DEF TypeOK, HandleFileRequest
  <2>6. serving' \in [Node -> {Nothing} \cup Service]
    <3>1. \/ serving' = serving
          \/ serving' = [serving EXCEPT ![n] =
                [client |-> Head(todoUdp[n]).from, path |-> Head(todoUdp[n]).change.path,
                 file |-> "closed"]]
      BY <1>8 DEF HandleFileRequest
    <3> QED BY <2>4, <3>1 DEF TypeOK
  <2>7. pc' \in [Node -> [Thread -> Place]]
    <3>1. pc' = pc \/ pc' = [pc EXCEPT ![n]["handler"] = "open"]
      BY <1>8 DEF HandleFileRequest
    <3>2. "handler" \in Thread /\ "open" \in Place
      BY DEF Thread, Place
    <3>3. [pc EXCEPT ![n]["handler"] = "open"] \in [Node -> [Thread -> Place]]
      BY <3>2 DEF TypeOK
    <3>4. pc \in [Node -> [Thread -> Place]]
      BY DEF TypeOK
    <3> QED BY ONLY <3>1, <3>3, <3>4
  <2> QED BY <1>8, <2>1, <2>5, <2>6, <2>7 DEF TypeOK, HandleFileRequest, Pops, nodeVars, dirVars, tableVars, budget
<1>9. ASSUME NEW n \in Node, OpenAndListen(n) PROVE TypeOK'
  <2>1. serving[n] \in Service
    BY <1>9 DEF TypeOK, OpenAndListen, Places, PlaceOf, InCase5
  <2> DEFINE opened == IF disk[n][serving[n].path] = NoFile THEN "closed" ELSE "open"
  <2>2. [serving[n] EXCEPT !.file = opened] \in Service
    <3>1. opened \in FileState  BY DEF FileState
    <3> HIDE DEF opened
    <3> QED BY <2>1, <3>1 DEF Service
  <2>3. serving' = [serving EXCEPT ![n] = [serving[n] EXCEPT !.file = opened]]
    BY <1>9 DEF OpenAndListen
  <2>4. serving' \in [Node -> {Nothing} \cup Service]
    <3> HIDE DEF opened
    <3> QED BY <2>2, <2>3 DEF TypeOK
  <2>5. pc' \in [Node -> [Thread -> Place]]
    BY <1>9 DEF TypeOK, OpenAndListen, Place, Thread
  <2> QED BY <1>9, <2>4, <2>5 DEF TypeOK, OpenAndListen, nodeVars, dirVars, tableVars, queueVars, budget
<1>10. ASSUME NEW n \in Node, EndService(n) PROVE TypeOK'
  BY <1>10 DEF TypeOK, EndService, nodeVars, dirVars, tableVars, queueVars, budget, Place, Thread
<1>11. ASSUME NEW n \in Node, HandleDirChanges(n) PROVE TypeOK'
  <2>1. /\ Head(todoUdp[n]) \in Datagram /\ Tail(todoUdp[n]) \in Seq(Datagram)
        /\ Head(todoUdp[n]).pid = 6
    BY <1>11 DEF TypeOK, HandleDirChanges, Pops
  <2>2. Head(todoUdp[n]).from \in Node /\ Head(todoUdp[n]).changes \in Seq(Change)
    BY <2>1, DatagramFields
  <2>3. job' \in [Node -> [Thread -> Job]]
    BY <1>11, <2>2 DEF TypeOK, HandleDirChanges, Job, Thread
  <2> QED BY <1>11, <2>1, <2>3 DEF TypeOK, HandleDirChanges, Pops, Begun, nodeVars, dirVars, tableVars, tcpVars, budget, Place, Thread
<1>12. ASSUME NEW n \in Node, CollectForHandler(n) PROVE TypeOK'
  <2>1. Head(udp[n]) \in Datagram /\ Tail(udp[n]) \in Seq(Datagram)
    BY <1>12 DEF TypeOK, CollectForHandler
  <2>2. Append(todoUdp[n], Head(udp[n])) \in Seq(Datagram)
    BY <2>1 DEF TypeOK
  <2> QED BY <1>12, <2>1, <2>2 DEF TypeOK, CollectForHandler, nodeVars, dirVars, tableVars, callVars, tcpVars, budget
<1>13. ASSUME NEW n \in Node, CollectArrival(n) PROVE TypeOK'
  <2> DEFINE msg == Head(udp[n])
  <2>1. /\ msg \in Datagram /\ Tail(udp[n]) \in Seq(Datagram) /\ msg.pid = 0
    BY <1>13 DEF TypeOK, CollectArrival
  <2>2. msg.from \in Node /\ msg.table \in Table
    BY <2>1, DatagramFields
  <2>3. Response(n, fileHashes[n]) \in Datagram
    BY MessageTypes DEF TypeOK
  <2>4. udp' \in [Node -> Seq(Datagram)]
    <3>1. [udp EXCEPT ![n] = Tail(@)] \in [Node -> Seq(Datagram)]
      BY <2>1 DEF TypeOK
    <3> QED BY <1>13, <2>2, <2>3, <3>1, SendTypes DEF CollectArrival
  <2>5. /\ job' \in [Node -> [Thread -> Job]] /\ pc' \in [Node -> [Thread -> Place]]
    BY <1>13, <2>2, ConsidersTypes DEF CollectArrival, Thread
  <2> QED BY <1>13, <2>4, <2>5 DEF TypeOK, CollectArrival, nodeVars, dirVars, tableVars, tcpVars, budget
<1>14. ASSUME NEW n \in Node, TakeTable(n) PROVE TypeOK'
  <2>1. tableMsg[n].from \in Node /\ tableMsg[n].table \in Table
    BY <1>14 DEF TypeOK, TakeTable, TableDatagram
  <2>2. /\ job' \in [Node -> [Thread -> Job]] /\ pc' \in [Node -> [Thread -> Place]]
    BY <1>14, <2>1, ConsidersTypes DEF TakeTable, Thread
  <2> QED BY <1>14, <2>2 DEF TypeOK, TakeTable, nodeVars, dirVars, tableVars, tcpVars, budget
<1>15. ASSUME NEW n \in Node, NEW t \in Thread, RequestStep(n, t) PROVE TypeOK'
  <2>1. CASE SkipChange(n, t)
    <3>1. /\ job' \in [Node -> [Thread -> Job]]
          /\ pc' \in [Node -> [Thread -> Place]]
      BY <2>1, AdvanceTypes DEF TypeOK, SkipChange, LocksFor
    <3> QED BY <2>1, <3>1 DEF TypeOK, SkipChange, nodeVars, dirVars, tableVars, queueVars, tcpVars, budget
  <2>2. CASE ApplyDeletion(n, t)
    <3>1. /\ job' \in [Node -> [Thread -> Job]]
          /\ pc' \in [Node -> [Thread -> Place]]
      BY <2>2, AdvanceTypes DEF TypeOK, ApplyDeletion, LocksFor
    <3>2. Entry(n, t).path \in Path
      BY <2>2, EntryType DEF ApplyDeletion, LocksFor, Change
    <3>3. disk' \in [Node -> Table] /\ signalled' \in [Node -> BOOLEAN]
      BY <2>2, <3>2, DiskTypes DEF TypeOK, ApplyDeletion, dirVars
    <3> QED BY <2>2, <3>1, <3>3 DEF TypeOK, ApplyDeletion, nodeVars, tableVars, queueVars, tcpVars, budget
  <2>3. CASE RequestFile(n, t)
    <3>1. job[n][t].from \in Node /\ FileRequest(n, Entry(n, t)) \in Datagram
      BY <2>3, EntryType, MessageTypes DEF RequestFile, LocksFor
    <3>2. udp' \in [Node -> Seq(Datagram)]
      BY <2>3, <3>1, SendTypes DEF RequestFile, TypeOK
    <3>3. /\ dirLock' \in [Node -> Thread \cup {Free}]
          /\ job' \in [Node -> [Thread -> Job]] /\ pc' \in [Node -> [Thread -> Place]]
      <4>1. CASE PortFree(n)
        <5>1. "negotiate" \in Place /\ pc \in [Node -> [Thread -> Place]]
          BY DEF TypeOK, Place, Negotiating
        <5>2. /\ dirLock' = [dirLock EXCEPT ![n] = t] /\ job' = job
              /\ pc' = [pc EXCEPT ![n][t] = "negotiate"]
          BY <2>3, <4>1 DEF RequestFile
        <5>3. /\ dirLock \in [Node -> Thread \cup {Free}]
              /\ job \in [Node -> [Thread -> Job]]
          BY DEF TypeOK
        <5> QED BY <5>1, <5>2, <5>3
      <4>2. CASE ~PortFree(n)
        BY <2>3, <4>2, AdvanceTypes DEF TypeOK, RequestFile, LocksFor
      <4> QED BY <4>1, <4>2
    <3> QED BY <2>3, <3>2, <3>3 DEF TypeOK, RequestFile, nodeVars, dirVars, tableVars, tcpVars, budget
  <2>4. CASE Abandoned(n, t)
    <3>1. /\ job' \in [Node -> [Thread -> Job]]
          /\ pc' \in [Node -> [Thread -> Place]]
      BY <2>4, AdvanceTypes DEF TypeOK, Abandoned, Negotiating
    <3> QED BY <2>4, <3>1 DEF TypeOK, Abandoned, nodeVars, dirVars, tableVars, queueVars, budget
  <2>5. CASE OpenForWriting(n, t)
    <3>1. reply[n].path \in Path /\ reply[n].from \in Node
      BY <2>5 DEF TypeOK, OpenForWriting, Reply
    <3>2. disk' \in [Node -> Table] /\ signalled' \in [Node -> BOOLEAN]
      BY <2>5, <3>1, DiskTypes, ContentAssumption DEF OpenForWriting
    <3>3. [path |-> reply[n].path, from |-> reply[n].from] \in Reception
      BY <3>1 DEF Reception
    <3>4. serving' \in [Node -> {Nothing} \cup Service]
      BY <2>5, WrittenToService, ServiceKept DEF TypeOK, OpenForWriting
    <3> QED BY <2>5, <3>2, <3>3, <3>4 DEF TypeOK, OpenForWriting, Place, Negotiating, nodeVars, tableVars, queueVars, budget
  <2>6. CASE Connect(n, t)
    <3>1. pc' \in [Node -> [Thread -> Place]]
      BY <2>6 DEF TypeOK, Connect, Place, Negotiating, Thread
    <3>2. incoming[n].from \in Node /\ serving[incoming[n].from] # Nothing
      BY <2>6 DEF TypeOK, Connect, Places, PlaceOf, InCase5, Receiving, Negotiating, Reception
    <3>3. serving' \in [Node -> {Nothing} \cup Service]
      BY <2>6, <3>2, MeasuredService, ServiceKept DEF TypeOK, Connect
    <3> QED BY <2>6, <3>1, <3>3 DEF TypeOK, Connect, nodeVars, dirVars, tableVars, queueVars, budget
  <2>7. CASE Transfer(n, t)
    <3> DEFINE server == incoming[n].from
               source == disk[server][serving[server].path]
    <3>c. PICK copy \in Copies(server) : DiskBecomes(n, incoming[n].path, copy)
      BY <2>7 DEF Transfer
    <3>1. incoming[n] \in Reception /\ server \in Node /\ incoming[n].path \in Path
      BY <2>7 DEF TypeOK, Transfer, Places, PlaceOf, Receiving, Negotiating, Reception
    <3>2. serving[server] \in Service
      <4>1. pc[server]["handler"] \in InCase5
        BY <2>7 DEF Transfer, Claims, ServerOf, Serves, InCase5
      <4> QED BY <3>1, <4>1 DEF TypeOK, Places
    <3>3. copy \in Hash \cup {NoFile}
      <4>1. serving[server].path \in Path
        BY <3>2 DEF Service
      <4>2. source \in Hash \cup {NoFile}
        <5>1. disk[server] \in Table
          BY <3>1 DEF TypeOK
        <5> QED BY <4>1, <5>1 DEF Table
      <4> QED BY <4>2, ContentAssumption DEF Copies
    <3>4. disk' \in [Node -> Table] /\ signalled' \in [Node -> BOOLEAN]
      BY <3>c, <3>1, <3>3, DiskTypes
    <3>5. [pc EXCEPT ![server]["handler"] = "sent"] \in [Node -> [Thread -> Place]]
      BY <3>1 DEF TypeOK, Place, Thread
    <3>6. /\ job' \in [Node -> [Thread -> Job]]
          /\ pc' \in [Node -> [Thread -> Place]]
      BY <2>7, <3>5, AdvanceTypes DEF Transfer, Negotiating
    <3> QED BY <2>7, <3>4, <3>6 DEF TypeOK, Transfer, nodeVars, tableVars, queueVars, budget
  <2>8. CASE CompareTables(n, t)
    <3>1. PICK list \in RequestLists(fileHashes[n], job[n][t].table, t = "discoverer") :
             /\ job' = [job EXCEPT ![n][t] = [job[n][t] EXCEPT !.table = Nothing, !.list = list]]
             /\ pc' = [pc EXCEPT ![n][t] = Begun(list)]
      BY <2>8 DEF CompareTables
    <3>2. job[n][t].table \in Table
      BY <2>8 DEF TypeOK, Job, CompareTables, Places, PlaceOf
    <3>3. list \in Seq(Change)
      BY <3>1, <3>2, RequestListsList DEF TypeOK
    <3>j. job[n][t] \in Job
      BY DEF TypeOK
    <3>4. [job[n][t] EXCEPT !.table = Nothing, !.list = list] \in Job
      BY <3>3, <3>j DEF Job
    <3>5. job' \in [Node -> [Thread -> Job]] /\ pc' \in [Node -> [Thread -> Place]]
      BY <3>1, <3>4 DEF TypeOK, Begun, Place
    <3> QED BY <2>8, <3>5 DEF TypeOK, CompareTables, nodeVars, dirVars, tableVars, queueVars, tcpVars, budget
  <2>9. CASE LosesEnd(n, t)
    BY <2>9 DEF TypeOK, LosesEnd, Place, Negotiating, nodeVars, dirVars, tableVars, queueVars, tcpVars, budget
  <2> QED BY <1>15, <2>1, <2>2, <2>3, <2>4, <2>5, <2>6, <2>7, <2>8, <2>9 DEF RequestStep
<1>16. ASSUME NEW n \in Node, UserStep(n) PROVE TypeOK'
  <2>1. ASSUME NEW p \in Path, NEW c \in Hash \cup {NoFile}, DiskBecomes(n, p, c),
               edits' = edits + 1, serving' \in [Node -> {Nothing} \cup Service],
               UNCHANGED <<nodeVars, tableVars, queueVars, callVars, reply, incoming, faults>>
        PROVE  TypeOK'
    <3>1. disk' \in [Node -> Table] /\ signalled' \in [Node -> BOOLEAN]
      BY <2>1, DiskTypes
    <3> QED BY <2>1, <3>1 DEF TypeOK, nodeVars, tableVars, queueVars, callVars
  <2>2. PICK p \in Path : UserDeletes(n, p) \/ \E c \in UserContent : UserWrites(n, p, c)
    BY <1>16 DEF UserStep
  <2>3. CASE UserDeletes(n, p)
    BY <2>1, <2>3 DEF UserDeletes, TypeOK, tcpVars
  <2>4. ASSUME NEW c \in UserContent, UserWrites(n, p, c) PROVE TypeOK'
    <3>1. c \in Hash \cup {NoFile}
      BY DEF UserContent
    <3>2. serving' \in [Node -> {Nothing} \cup Service]
      BY <2>4, WrittenToService, ServiceKept DEF TypeOK, UserWrites
    <3> QED BY <2>1, <2>4, <3>1, <3>2 DEF UserWrites
  <2> QED BY <2>2, <2>3, <2>4
<1>17. ASSUME NEW n \in Node, FaultStep(n) PROVE TypeOK'
  <2>1. CASE LoseDatagram(n)
    BY <2>1 DEF TypeOK, LoseDatagram, nodeVars, dirVars, tableVars, callVars, tcpVars
  <2>2. CASE LoseReply(n)
    BY <2>2 DEF TypeOK, LoseReply, nodeVars, dirVars, tableVars, queueVars, callVars
  <2>3. ASSUME NEW t \in Thread, ConnectTooEarly(n, t) PROVE TypeOK'
    <3>1. pc' \in [Node -> [Thread -> Place]]
      BY <2>3 DEF TypeOK, ConnectTooEarly, Place, Negotiating
    <3>2. faults' \in Nat
      BY <2>3 DEF TypeOK, ConnectTooEarly
    <3> QED BY <2>3, <3>1, <3>2 DEF TypeOK, ConnectTooEarly, nodeVars, dirVars, tableVars, queueVars, tcpVars
  <2> QED BY <1>17, <2>1, <2>2, <2>3 DEF FaultStep
<1> QED
  BY <1>1, <1>2, <1>3, <1>4, <1>5, <1>6, <1>7, <1>8, <1>9, <1>10, <1>11, <1>12,
     <1>13, <1>14, <1>15, <1>16, <1>17
     DEF Next, StartUp, DiscovererStep, HandlerStep

-----------------------------------------------------------------------------
\* Tail of a list that NextEntry goes on with.
LEMMA RestOfList ==
    ASSUME NEW S, NEW list \in Seq(S), list # << >>, Len(list) # 1
    PROVE  Tail(list) # << >>
<1>1. Len(Tail(list)) = Len(list) - 1 /\ Len(list) \in Nat /\ Len(list) > 0
  OBVIOUS
<1>2. Len(Tail(list)) # 0 /\ Len(<< >>) = 0
  BY <1>1
<1>3. \A s : s = << >> => Len(s) = Len(<< >>)
  OBVIOUS
<1> QED BY ONLY <1>2, <1>3

\* What an advance does to the places: one thread goes to "idle" or "request".
LEMMA AdvancePlaces ==
    ASSUME TypeOK, Places, NEW n \in Node, NEW t \in Thread,
           pc[n][t] = "request" \/ pc[n][t] \in Negotiating,
           NEW pcs, Advance(n, t, pcs)
    PROVE  /\ pc' = [pcs EXCEPT ![n][t] = NextEntry(n, t)]
           /\ NextEntry(n, t) \in {"idle", "request"}
           /\ NextEntry(n, t) = "request" => job'[n][t].list # << >>
           /\ \A m \in Node, u \in Thread : ~(m = n /\ u = t) => job'[m][u] = job[m][u]
<1>1. /\ pc' = [pcs EXCEPT ![n][t] = NextEntry(n, t)]
      /\ NextEntry(n, t) \in {"idle", "request"}
  BY DEF Advance, NextEntry
<1>2. job[n][t].list \in Seq(Change) /\ job[n][t].list # << >>
  BY EntryType
<1>3. job'[n][t].list = Tail(job[n][t].list)
  BY DEF Advance, TypeOK
<1>4. NextEntry(n, t) = "request" => Len(job[n][t].list) # 1
  BY DEF NextEntry
<1>5. Len(job[n][t].list) # 1 => Tail(job[n][t].list) # << >>
  BY <1>2, RestOfList
<1>6. \A m \in Node, u \in Thread : ~(m = n /\ u = t) => job'[m][u] = job[m][u]
  BY DEF Advance, TypeOK
<1> QED BY <1>1, <1>3, <1>4, <1>5, <1>6

LEMMA LockInit == Init => Unstarted /\ LockHeld /\ Places /\ Claims
BY DEF Init, Unstarted, LockHeld, Places, PlaceOf, Claims, ReplyOf, ServerOf, InCase5, Receiving, Negotiating, Thread, Free

\* A thread that stays inside, or outside, negotiateTCPTransfer.
LEMMA LockKept ==
    ASSUME pc \in [Node -> [Thread -> Place]], LockHeld, dirLock' = dirLock,
           NEW n \in Node, NEW t \in Thread, NEW v,
           pc' = [pc EXCEPT ![n][t] = v],
           pc[n][t] \in Negotiating <=> v \in Negotiating
    PROVE  LockHeld'
BY DEF LockHeld

\* A thread that enters it with the lock, or leaves it and unlocks.
LEMMA LockTaken ==
    ASSUME pc \in [Node -> [Thread -> Place]],
           dirLock \in [Node -> Thread \cup {Free}], LockHeld,
           NEW n \in Node, NEW t \in Thread, NEW v,
           pc' = [pc EXCEPT ![n][t] = v],
           \/ v \in Negotiating /\ dirLock[n] = Free /\ dirLock' = [dirLock EXCEPT ![n] = t]
           \/ /\ pc[n][t] \in Negotiating /\ v \notin Negotiating
              /\ dirLock' = [dirLock EXCEPT ![n] = Free]
    PROVE  LockHeld'
<1>1. Free \notin Thread
  BY DEF Free, Thread
<1> QED BY <1>1 DEF LockHeld

\* A thread that gets dirLock finds the negotiation port free.
LEMMA LockFreesPort ==
    ASSUME LockHeld, NEW n \in Node, dirLock[n] = Free PROVE PortFree(n)
<1>1. Free \notin Thread
  BY DEF Free, Thread
<1> QED BY <1>1 DEF LockHeld, PortFree

\* So RequestFile always takes dirLock.
LEMMA RequestTakesLock ==
    ASSUME LockHeld, NEW n \in Node, NEW t \in Thread, RequestFile(n, t)
    PROVE  /\ pc[n][t] = "request" /\ dirLock[n] = Free
           /\ dirLock' = [dirLock EXCEPT ![n] = t]
           /\ pc' = [pc EXCEPT ![n][t] = "negotiate"]
           /\ udp' = SentTo(udp, job[n][t].from, FileRequest(n, Entry(n, t)))
           /\ UNCHANGED <<nodeVars, dirVars, tableVars, todoUdp, tableMsg, job, tcpVars, budget>>
BY LockFreesPort DEF RequestFile, LocksFor

(***************************************************************************)
(* dirLock: taken when a thread starts to negotiate, released when it is   *)
(* abandoned or the file has come.                                         *)
(***************************************************************************)
LEMMA LockHeldStep == LockInv /\ [Next]_vars => LockHeld'
<1> SUFFICES ASSUME LockInv, [Next]_vars PROVE LockHeld'
  OBVIOUS
<1>0. /\ pc \in [Node -> [Thread -> Place]] /\ dirLock \in [Node -> Thread \cup {Free}]
      /\ LockHeld /\ Unstarted /\ Places /\ Claims /\ TypeOK
  BY DEF LockInv, TypeOK
<1>a. "discoverer" \in Thread /\ "handler" \in Thread /\ "tableManager" \in Thread
  BY DEF Thread
<1>b. /\ {"negotiate", "connect", "receive", "stuck"} = Negotiating
      /\ {"idle", "announce", "compare", "request", "open", "accept", "send", "sent"} \cap Negotiating = {}
  BY DEF Negotiating
<1>1. ASSUME UNCHANGED <<pc, dirLock>> PROVE LockHeld'
  BY <1>0, <1>1 DEF LockHeld
<1>2. ASSUME NEW n \in Node, StartUp(n) PROVE LockHeld'
  <2>1. n \notin running => pc[n]["discoverer"] = "idle"
    BY <1>0, <1>a DEF Unstarted
  <2> QED BY <1>0, <1>2, <1>a, <1>b, <2>1, LockKept DEF StartUp, Start, Announce
<1>3. ASSUME NEW n \in Node, HandlerStep(n) PROVE LockHeld'
  <2>1. CASE HandleResponse(n)
    BY <1>1, <2>1 DEF HandleResponse, callVars
  <2>2. CASE HandleFileRequest(n)
    <3>1. /\ pc' = pc \/ pc' = [pc EXCEPT ![n]["handler"] = "open"]
          /\ pc[n]["handler"] = "idle" /\ dirLock' = dirLock
      BY <2>2 DEF HandleFileRequest, Pops
    <3> QED BY <1>0, <1>1, <1>a, <1>b, <3>1, LockKept
  <2>3. CASE OpenAndListen(n) \/ EndService(n)
    BY <1>0, <1>a, <1>b, <2>3, LockKept DEF OpenAndListen, EndService
  <2>4. CASE HandleDirChanges(n)
    <3>1. /\ pc[n]["handler"] = "idle" /\ dirLock' = dirLock
          /\ \E v \in {"idle", "request"} : pc' = [pc EXCEPT ![n]["handler"] = v]
      BY <2>4 DEF HandleDirChanges, Pops, Begun
    <3> QED BY <1>0, <1>a, <1>b, <3>1, LockKept
  <2> QED BY <1>3, <2>1, <2>2, <2>3, <2>4 DEF HandlerStep
<1>4. ASSUME NEW n \in Node, DiscovererStep(n) PROVE LockHeld'
  <2>1. CASE CollectForHandler(n)
    BY <1>1, <2>1 DEF CollectForHandler, callVars
  <2>2. CASE CollectArrival(n)
    <3>1. /\ pc[n]["discoverer"] = "idle" /\ dirLock' = dirLock
          /\ pc' = [pc EXCEPT ![n]["discoverer"] = "compare"]
      BY <2>2 DEF CollectArrival, Considers
    <3> QED BY <1>0, <1>a, <1>b, <3>1, LockKept
  <2> QED BY <1>4, <2>1, <2>2 DEF DiscovererStep
<1>5. ASSUME NEW n \in Node, TakeTable(n) PROVE LockHeld'
  <2>1. /\ pc[n]["tableManager"] = "idle" /\ dirLock' = dirLock
        /\ pc' = [pc EXCEPT ![n]["tableManager"] = "compare"]
    BY <1>5 DEF TakeTable, Considers
  <2> QED BY <1>0, <1>a, <1>b, <2>1, LockKept
<1>6. ASSUME NEW n \in Node, NEW t \in Thread, RequestStep(n, t) PROVE LockHeld'
  <2> DEFINE v == NextEntry(n, t)
  <2>0. v \in {"idle", "request"}
    BY DEF NextEntry
  <2>1. CASE SkipChange(n, t) \/ ApplyDeletion(n, t)
    <3>1. /\ pc[n][t] = "request" /\ dirLock' = dirLock
          /\ pc' = [pc EXCEPT ![n][t] = v]
      BY <2>1 DEF SkipChange, ApplyDeletion, LocksFor, Advance
    <3> HIDE DEF v
    <3> QED BY <1>0, <1>b, <2>0, <3>1, LockKept
  <2>2. CASE RequestFile(n, t)
    <3>1. /\ pc' = [pc EXCEPT ![n][t] = "negotiate"] /\ dirLock[n] = Free
          /\ dirLock' = [dirLock EXCEPT ![n] = t]
      BY <1>0, <2>2, RequestTakesLock
    <3>2. "negotiate" \in Negotiating
      BY <1>b
    <3> QED BY <1>0, <3>1, <3>2, LockTaken
  <2>3. CASE Abandoned(n, t)
    <3>1. /\ pc[n][t] = "negotiate" /\ dirLock' = [dirLock EXCEPT ![n] = Free]
          /\ pc' = [pc EXCEPT ![n][t] = v]
      BY <2>3 DEF Abandoned, Advance
    <3> HIDE DEF v
    <3> QED BY <1>0, <1>b, <2>0, <3>1, LockTaken
  <2>4. CASE OpenForWriting(n, t)
    BY <1>0, <1>b, <2>4, LockKept DEF OpenForWriting
  <2>5. CASE Connect(n, t)
    <3> DEFINE s == incoming[n].from
    <3>1. /\ pc[n][t] = "connect" /\ dirLock' = dirLock /\ pc[s]["handler"] = "accept"
          /\ pc' = [[pc EXCEPT ![n][t] = "receive"] EXCEPT ![s]["handler"] = "send"]
      BY <2>5 DEF Connect
    <3> HIDE DEF s
    <3> QED BY <1>0, <1>b, <3>1 DEF LockHeld
  <2>6. CASE Transfer(n, t)
    <3> DEFINE s == incoming[n].from
    <3>1. pc[n][t] = "receive" /\ pc[s]["handler"] = "send"
      BY <1>0, <2>6 DEF Transfer, Claims, ServerOf, Serves
    <3>2. /\ dirLock' = [dirLock EXCEPT ![n] = Free]
          /\ pc' = [[pc EXCEPT ![s]["handler"] = "sent"] EXCEPT ![n][t] = v]
      BY <2>6 DEF Transfer, Advance
    <3>3. Free \notin Thread
      BY DEF Free, Thread
    <3> HIDE DEF s, v
    <3>4. ~(s = n /\ t = "handler")
      BY <3>1
    <3>5. /\ pc'[n][t] = v /\ v \notin Negotiating /\ pc[n][t] \in Negotiating
          /\ \A m \in Node, u \in Thread : ~(m = n /\ u = t) =>
                (pc'[m][u] \in Negotiating <=> pc[m][u] \in Negotiating)
      BY <1>0, <1>b, <2>0, <3>1, <3>2, <3>4
    <3>6. dirLock'[n] = Free /\ \A m \in Node : m # n => dirLock'[m] = dirLock[m]
      BY <1>0, <3>2
    <3> QED BY <1>0, <3>3, <3>5, <3>6 DEF LockHeld
  <2>7. CASE CompareTables(n, t)
    <3>1. /\ pc[n][t] = "compare" /\ dirLock' = dirLock
          /\ \E w \in {"idle", "request"} : pc' = [pc EXCEPT ![n][t] = w]
      <4>1. \A list : Begun(list) \in {"idle", "request"}
        BY DEF Begun
      <4> QED BY <2>7, <4>1 DEF CompareTables
    <3> QED BY <1>0, <1>b, <3>1, LockKept
  <2>8. CASE LosesEnd(n, t)
    BY <1>0, <1>b, <2>8, LockKept DEF LosesEnd
  <2> QED BY <1>6, <2>1, <2>2, <2>3, <2>4, <2>5, <2>6, <2>7, <2>8 DEF RequestStep
<1>7. ASSUME NEW n \in Node, FaultStep(n) PROVE LockHeld'
  <2>1. CASE LoseDatagram(n) \/ LoseReply(n)
    BY <1>1, <2>1 DEF LoseDatagram, LoseReply, callVars
  <2>2. ASSUME NEW t \in Thread, ConnectTooEarly(n, t) PROVE LockHeld'
    BY <1>0, <1>b, <2>2, LockKept DEF ConnectTooEarly
  <2> QED BY <1>7, <2>1, <2>2 DEF FaultStep
<1>8. ASSUME NEW n \in Node, StartWatching(n) \/ Scan(n) \/ PublishChanges(n) \/ UserStep(n)
      PROVE  LockHeld'
  BY <1>1, <1>8 DEF StartWatching, Scan, PublishChanges, UserStep, UserWrites, UserDeletes, callVars
<1>9. CASE UNCHANGED vars
  BY <1>1, <1>9 DEF vars, callVars
<1> QED BY <1>2, <1>3, <1>4, <1>5, <1>6, <1>7, <1>8, <1>9 DEF Next

(***************************************************************************)
(* A node that acts is up, and only nodes that are up are sent anything.   *)
(***************************************************************************)
LEMMA UnstartedStep == LockInv /\ [Next]_vars => Unstarted'
<1> SUFFICES ASSUME LockInv, [Next]_vars, NEW m \in Node, m \notin running'
             PROVE  /\ udp'[m] = << >> /\ todoUdp'[m] = << >> /\ tableMsg'[m] = Nothing
                    /\ \A t \in Thread : pc'[m][t] = "idle"
  BY DEF Unstarted
<1> DEFINE Goal == /\ udp'[m] = << >> /\ todoUdp'[m] = << >> /\ tableMsg'[m] = Nothing
                   /\ \A t \in Thread : pc'[m][t] = "idle"
<1>1. running \subseteq running'
  <2>1. ASSUME NEW n \in Node, StartUp(n) \/ StartWatching(n) \/ Scan(n) \/ PublishChanges(n)
        PROVE  running \subseteq running'
    BY <2>1 DEF StartUp, Start, Announce, StartWatching, Scan, PublishChanges, nodeVars
  <2>2. ASSUME NEW n \in Node, DiscovererStep(n) \/ HandlerStep(n) \/ TakeTable(n)
        PROVE  running \subseteq running'
    BY <2>2 DEF DiscovererStep, CollectForHandler, CollectArrival, HandlerStep, HandleResponse,
                HandleFileRequest, OpenAndListen, EndService, HandleDirChanges, TakeTable, nodeVars
  <2>3. ASSUME NEW n \in Node, NEW t \in Thread, RequestStep(n, t)
        PROVE  running \subseteq running'
    BY <2>3 DEF RequestStep, SkipChange, ApplyDeletion, RequestFile, Abandoned, OpenForWriting,
                Connect, CompareTables, Transfer, LosesEnd, nodeVars
  <2>4. ASSUME NEW n \in Node, UserStep(n) \/ FaultStep(n)
        PROVE  running \subseteq running'
    BY <2>4 DEF UserStep, UserWrites, UserDeletes, FaultStep, LoseDatagram, LoseReply,
                ConnectTooEarly, nodeVars
  <2>5. UNCHANGED vars => running \subseteq running'
    BY DEF vars, nodeVars
  <2> QED BY <2>1, <2>2, <2>3, <2>4, <2>5 DEF Next
<1>2. /\ udp[m] = << >> /\ todoUdp[m] = << >> /\ tableMsg[m] = Nothing
      /\ \A t \in Thread : pc[m][t] = "idle"
  BY <1>1 DEF LockInv, Unstarted
<1>3. /\ udp \in [Node -> Seq(Datagram)] /\ todoUdp \in [Node -> Seq(Datagram)]
      /\ tableMsg \in [Node -> {Nothing} \cup TableDatagram]
      /\ pc \in [Node -> [Thread -> Place]]
  BY DEF LockInv, TypeOK
<1>a. "discoverer" \in Thread /\ "handler" \in Thread /\ "tableManager" \in Thread
  BY DEF Thread
<1>4. ASSUME UNCHANGED <<queueVars, pc>> PROVE Goal
  BY <1>2, <1>4 DEF queueVars
<1>5. ASSUME NEW n \in Node, StartUp(n) PROVE Goal
  BY <1>1, <1>2, <1>3, <1>a, <1>5 DEF StartUp, Start, Announce, BroadcastBy, queueVars
<1>6. ASSUME NEW n \in Node, PublishChanges(n) PROVE Goal
  BY <1>1, <1>2, <1>6 DEF PublishChanges, BroadcastBy, callVars
<1>7. ASSUME NEW n \in Node, HandlerStep(n) PROVE Goal
  <2>1. n # m
    BY <1>2, <1>7, <1>a DEF HandlerStep, HandleResponse, HandleFileRequest, OpenAndListen,
                       EndService, HandleDirChanges, Pops
  <2>2. CASE HandleFileRequest(n)
    <3>1. pc' = pc \/ pc' = [pc EXCEPT ![n]["handler"] = "open"]
      BY <2>2 DEF HandleFileRequest
    <3> QED BY <1>2, <1>3, <2>1, <2>2, <3>1 DEF HandleFileRequest, Pops
  <2> QED BY <1>2, <1>3, <1>7, <2>1, <2>2 DEF HandlerStep, HandleResponse, OpenAndListen,
                       EndService, HandleDirChanges, Pops, queueVars, callVars
<1>8. ASSUME NEW n \in Node, DiscovererStep(n) PROVE Goal
  <2>1. n # m
    BY <1>2, <1>8 DEF DiscovererStep, CollectForHandler, CollectArrival
  <2> QED BY <1>1, <1>2, <1>3, <1>8, <2>1
          DEF DiscovererStep, CollectForHandler, CollectArrival, Considers, SentTo, callVars
<1>9. ASSUME NEW n \in Node, TakeTable(n) PROVE Goal
  BY <1>2, <1>3, <1>9 DEF TakeTable, Considers
<1>10. ASSUME NEW n \in Node, NEW t \in Thread, RequestStep(n, t) PROVE Goal
  <2>1. n # m
    BY <1>2, <1>10 DEF RequestStep, SkipChange, ApplyDeletion, RequestFile, LocksFor,
                       Abandoned, OpenForWriting, Connect, CompareTables, Transfer, LosesEnd
  <2>2. CASE SkipChange(n, t) \/ ApplyDeletion(n, t) \/ Abandoned(n, t)
    BY <1>2, <1>3, <2>1, <2>2 DEF SkipChange, ApplyDeletion, Abandoned, Advance, queueVars
  <2>3. CASE RequestFile(n, t)
    <3>1. LockHeld
      BY DEF LockInv
    <3>2. /\ pc' = [pc EXCEPT ![n][t] = "negotiate"]
          /\ udp' = SentTo(udp, job[n][t].from, FileRequest(n, Entry(n, t)))
          /\ UNCHANGED <<nodeVars, todoUdp, tableMsg>>
      BY <2>3, <3>1, RequestTakesLock
    <3> QED BY <1>1, <1>2, <1>3, <2>1, <3>2 DEF SentTo, nodeVars
  <2>4. CASE OpenForWriting(n, t)
    BY <1>2, <1>3, <2>1, <2>4 DEF OpenForWriting, queueVars
  <2>5. CASE Connect(n, t)
    BY <1>2, <1>3, <1>a, <2>1, <2>5 DEF Connect, queueVars
  <2>6. CASE Transfer(n, t)
    <3> DEFINE s == incoming[n].from
    <3>1. pc[s]["handler"] = "send"
      BY <2>6 DEF LockInv, Claims, ServerOf, Serves, Transfer
    <3>2. s # m
      BY <1>2, <1>a, <3>1
    <3>3. pc' = [[pc EXCEPT ![s]["handler"] = "sent"] EXCEPT ![n][t] = NextEntry(n, t)]
      BY <2>6 DEF Transfer, Advance
    <3>4. UNCHANGED queueVars
      BY <2>6 DEF Transfer
    <3> HIDE DEF s
    <3> QED BY <1>2, <1>3, <2>1, <3>2, <3>3, <3>4 DEF queueVars
  <2>7. CASE CompareTables(n, t) \/ LosesEnd(n, t)
    BY <1>2, <1>3, <2>1, <2>7 DEF CompareTables, LosesEnd, queueVars
  <2> QED BY <1>10, <2>2, <2>3, <2>4, <2>5, <2>6, <2>7 DEF RequestStep
<1>11. ASSUME NEW n \in Node, FaultStep(n) PROVE Goal
  <2>1. CASE LoseDatagram(n)
    BY <1>2, <1>3, <2>1 DEF LoseDatagram, callVars
  <2>2. CASE LoseReply(n)
    BY <1>4, <2>2 DEF LoseReply, callVars
  <2>3. ASSUME NEW t \in Thread, ConnectTooEarly(n, t) PROVE Goal
    BY <1>2, <1>3, <2>3 DEF ConnectTooEarly, queueVars
  <2> QED BY <1>11, <2>1, <2>2, <2>3 DEF FaultStep
<1>12. ASSUME NEW n \in Node, StartWatching(n) \/ Scan(n) \/ UserStep(n) PROVE Goal
  BY <1>4, <1>12 DEF StartWatching, Scan, UserStep, UserWrites, UserDeletes, callVars
<1>13. CASE UNCHANGED vars
  BY <1>4, <1>13 DEF vars, callVars
<1> QED BY <1>5, <1>6, <1>7, <1>8, <1>9, <1>10, <1>11, <1>12, <1>13 DEF Next

\* A place that the step leaves as it is.
LEMMA PlaceKept ==
    ASSUME NEW m, NEW u, PlaceOf(m, u), pc'[m][u] = pc[m][u],
           job'[m][u] = job[m][u],
           incoming'[m] = incoming[m] \/ incoming'[m] # Nothing
    PROVE  PlaceOf(m, u)'
BY DEF PlaceOf

\* A thread that goes to v, or stays where it is, while no call of
\* negotiateTCPTransfer begins or ends.
LEMMA PlacesAfter ==
    ASSUME pc \in [Node -> [Thread -> Place]], Places,
           NEW n \in Node, NEW t \in Thread, NEW v,
           pc' = [pc EXCEPT ![n][t] = v],
           v \in InCase5 => t = "handler", v # "announce" \/ t = "discoverer",
           v = "compare" => t # "handler" /\ job'[n][t].table # Nothing,
           v = "request" \/ v \in Negotiating => job'[n][t].list # << >>,
           v \in Receiving => incoming'[n] # Nothing,
           \A m \in Node, u \in Thread : ~(m = n /\ u = t) => job'[m][u] = job[m][u],
           \A m \in Node : incoming'[m] = incoming[m] \/ incoming'[m] # Nothing,
           \A m \in Node : pc'[m]["handler"] \in InCase5 <=> serving'[m] # Nothing
    PROVE  Places'
<1>1. ASSUME NEW m \in Node, NEW u \in Thread PROVE PlaceOf(m, u)'
  <2>1. CASE m = n /\ u = t
    BY <2>1 DEF PlaceOf
  <2>2. CASE ~(m = n /\ u = t)
    <3>1. PlaceOf(m, u) /\ pc'[m][u] = pc[m][u] /\ job'[m][u] = job[m][u]
      BY <2>2 DEF Places
    <3> QED BY <3>1, PlaceKept
  <2> QED BY <2>1, <2>2
<1> QED BY <1>1 DEF Places

\* The same, of a thread that is not in case 5 and stays out of it.
LEMMA PlacesOutside ==
    ASSUME pc \in [Node -> [Thread -> Place]], Places,
           NEW n \in Node, NEW t \in Thread, NEW v,
           pc' = [pc EXCEPT ![n][t] = v],
           v \notin InCase5, pc[n][t] \notin InCase5, v # "announce" \/ t = "discoverer",
           v = "compare" => t # "handler" /\ job'[n][t].table # Nothing,
           v = "request" \/ v \in Negotiating => job'[n][t].list # << >>,
           v \in Receiving => incoming'[n] # Nothing,
           \A m \in Node, u \in Thread : ~(m = n /\ u = t) => job'[m][u] = job[m][u],
           \A m \in Node : incoming'[m] = incoming[m] \/ incoming'[m] # Nothing,
           serving' = serving \/ SameService
    PROVE  Places'
<1>1. \A m \in Node : pc'[m]["handler"] \in InCase5 <=> pc[m]["handler"] \in InCase5
  OBVIOUS
<1>2. \A m \in Node : pc'[m]["handler"] \in InCase5 <=> serving'[m] # Nothing
  BY <1>1 DEF Places, SameService
<1> QED BY <1>2, PlacesAfter

(***************************************************************************)
(* No step leaves a thread where it lacks what it needs.                   *)
(***************************************************************************)
LEMMA PlacesStep == LockInv /\ [Next]_vars => Places'
<1> SUFFICES ASSUME LockInv, [Next]_vars PROVE Places'
  OBVIOUS
<1>0. pc \in [Node -> [Thread -> Place]] /\ TypeOK /\ LockHeld /\ Places /\ Claims
  BY DEF LockInv, TypeOK
<1>i. incoming \in [Node -> {Nothing} \cup Reception]
  BY DEF LockInv, TypeOK
<1>j. job \in [Node -> [Thread -> Job]]
  BY DEF LockInv, TypeOK
<1>k. serving \in [Node -> {Nothing} \cup Service]
  BY DEF LockInv, TypeOK
<1>a. "discoverer" \in Thread /\ "handler" \in Thread /\ "tableManager" \in Thread
  BY DEF Thread
<1>b. /\ "idle" \notin InCase5 /\ "idle" \notin Negotiating /\ "idle" \notin Receiving
      /\ "announce" \notin InCase5 /\ "announce" \notin Negotiating /\ "announce" \notin Receiving
      /\ "compare" \notin InCase5 /\ "compare" \notin Negotiating /\ "compare" \notin Receiving
      /\ "request" \notin InCase5 /\ "request" \notin Negotiating /\ "request" \notin Receiving
      /\ "negotiate" \notin InCase5 /\ "negotiate" \in Negotiating /\ "negotiate" \notin Receiving
      /\ "connect" \notin InCase5 /\ "connect" \in Negotiating /\ "connect" \in Receiving
      /\ "receive" \notin InCase5 /\ "receive" \in Negotiating /\ "receive" \in Receiving
      /\ "stuck" \notin InCase5 /\ "stuck" \in Negotiating /\ "stuck" \in Receiving
      /\ "open" \in InCase5 /\ "open" \notin Negotiating /\ "open" \notin Receiving
      /\ "accept" \in InCase5 /\ "accept" \notin Negotiating /\ "accept" \notin Receiving
      /\ "send" \in InCase5 /\ "send" \notin Negotiating /\ "send" \notin Receiving
      /\ "sent" \in InCase5 /\ "sent" \notin Negotiating /\ "sent" \notin Receiving
      /\ \A u \in Receiving : u \in Negotiating
  BY DEF InCase5, Negotiating, Receiving
<1>c. \A n \in Node : pc[n]["handler"] \in InCase5 <=> serving[n] # Nothing
  BY <1>0 DEF Places
<1>d. \A r \in Reception : r # Nothing
  BY NothingAssumption
<1>1. ASSUME UNCHANGED <<pc, job, incoming>>, serving' = serving \/ SameService PROVE Places'
  BY <1>0, <1>1 DEF Places, PlaceOf, SameService
<1>2. ASSUME NEW n \in Node, StartUp(n) PROVE Places'
  <2>1. n \notin running => pc[n]["discoverer"] = "idle"
    BY <1>a DEF LockInv, Unstarted
  <2>2. /\ pc[n]["discoverer"] \in {"idle", "announce"} /\ UNCHANGED <<job, incoming, serving>>
        /\ \E v \in {"idle", "announce"} : pc' = [pc EXCEPT ![n]["discoverer"] = v]
    BY <1>2, <2>1 DEF StartUp, Start, Announce, tcpVars
  <2>3. PICK v \in {"idle", "announce"} : pc' = [pc EXCEPT ![n]["discoverer"] = v]
    BY <2>2
  <2>4. /\ v # "request" /\ v # "compare" /\ v \notin Negotiating /\ v \notin Receiving /\ v \notin InCase5
        /\ pc[n]["discoverer"] \notin InCase5
    BY <1>b, <2>2
  <2>5. \A m \in Node : incoming'[m] = incoming[m]
    BY <2>2
  <2> QED BY <1>0, <1>a, <2>2, <2>3, <2>4, <2>5, PlacesOutside
<1>3. ASSUME NEW n \in Node, HandlerStep(n) PROVE Places'
  <2>1. CASE HandleResponse(n)
    BY <1>1, <2>1 DEF HandleResponse, callVars, tcpVars
  <2>2. CASE HandleFileRequest(n)
    <3> DEFINE msg == Head(todoUdp[n])
               s == [client |-> msg.from, path |-> msg.change.path, file |-> "closed"]
    <3>1. msg \in Datagram /\ msg.pid = 5
      BY <1>0, <2>2 DEF HandleFileRequest, Pops, TypeOK
    <3>2. s \in Service
      BY <3>1, DatagramFields DEF Service, FileState, Change
    <3>3. \/ UNCHANGED <<pc, serving>>
          \/ pc' = [pc EXCEPT ![n]["handler"] = "open"] /\ serving' = [serving EXCEPT ![n] = s]
      BY <2>2 DEF HandleFileRequest
    <3>4. UNCHANGED <<job, incoming>> /\ pc[n]["handler"] = "idle"
      BY <2>2 DEF HandleFileRequest, Pops
    <3> HIDE DEF s
    <3>5. s # Nothing
      BY <3>2, NothingAssumption
    <3>6. CASE pc' = [pc EXCEPT ![n]["handler"] = "open"] /\ serving' = [serving EXCEPT ![n] = s]
      <4>1. \A m \in Node : pc'[m]["handler"] \in InCase5 <=> serving'[m] # Nothing
        BY <1>0, <1>k, <1>a, <1>b, <1>c, <3>5, <3>6
      <4> QED BY <1>0, <1>a, <1>b, <3>4, <3>6, <4>1, PlacesAfter
    <3> QED BY <1>1, <3>3, <3>4, <3>6
  <2>3. CASE OpenAndListen(n)
    <3>1. /\ pc[n]["handler"] = "open" /\ pc' = [pc EXCEPT ![n]["handler"] = "accept"]
          /\ UNCHANGED <<job, incoming>>
      BY <2>3 DEF OpenAndListen
    <3>2. serving[n] # Nothing /\ serving[n] \in Service
      BY <1>k, <1>b, <1>c, <3>1
    <3> DEFINE opened == IF disk[n][serving[n].path] = NoFile THEN "closed" ELSE "open"
               s == [serving[n] EXCEPT !.file = opened]
    <3>3. serving' = [serving EXCEPT ![n] = s]
      BY <2>3 DEF OpenAndListen
    <3>4. s # Nothing
      <4>1. opened \in FileState  BY DEF FileState
      <4> HIDE DEF opened
      <4> QED BY <3>2, <4>1, NothingAssumption DEF Service
    <3> HIDE DEF s
    <3>5. \A m \in Node : pc'[m]["handler"] \in InCase5 <=> serving'[m] # Nothing
      BY <1>0, <1>k, <1>a, <1>b, <1>c, <3>1, <3>3, <3>4
    <3> QED BY <1>0, <1>a, <1>b, <3>1, <3>5, PlacesAfter
  <2>4. CASE EndService(n)
    <3>1. /\ pc' = [pc EXCEPT ![n]["handler"] = "idle"]
          /\ serving' = [serving EXCEPT ![n] = Nothing] /\ UNCHANGED <<job, incoming>>
      BY <2>4 DEF EndService
    <3>2. \A m \in Node : pc'[m]["handler"] \in InCase5 <=> serving'[m] # Nothing
      BY <1>0, <1>k, <1>a, <1>b, <1>c, <3>1
    <3> QED BY <1>0, <1>a, <1>b, <3>1, <3>2, PlacesAfter
  <2>5. CASE HandleDirChanges(n)
    <3> DEFINE msg == Head(todoUdp[n])
    <3>1. /\ pc[n]["handler"] = "idle" /\ UNCHANGED <<incoming, serving>>
          /\ job' = [job EXCEPT ![n]["handler"] =
                        [from |-> msg.from, table |-> Nothing, list |-> msg.changes]]
          /\ pc' = [pc EXCEPT ![n]["handler"] = Begun(msg.changes)]
      BY <2>5 DEF HandleDirChanges, Pops, tcpVars
    <3> HIDE DEF msg
    <3>2. /\ Begun(msg.changes) \in {"idle", "request"}
          /\ Begun(msg.changes) = "request" => msg.changes # << >>
      BY DEF Begun
    <3>3. job'[n]["handler"].list = msg.changes
      BY <1>j, <1>a, <3>1
    <3>4. \A m \in Node, u \in Thread : ~(m = n /\ u = "handler") => job'[m][u] = job[m][u]
      BY <1>j, <3>1
    <3>5. /\ Begun(msg.changes) \notin InCase5 \cup Receiving \cup Negotiating
          /\ Begun(msg.changes) # "announce" /\ Begun(msg.changes) # "compare"
          /\ pc[n]["handler"] \notin InCase5
      BY <1>b, <3>1, <3>2
    <3>6. Begun(msg.changes) = "request" => job'[n]["handler"].list # << >>
      BY <3>2, <3>3
    <3>7. "handler" \in Thread
      BY DEF Thread
    <3> QED BY <1>0, <1>a, <3>1, <3>4, <3>5, <3>6, <3>7, PlacesOutside
  <2> QED BY <1>3, <2>1, <2>2, <2>3, <2>4, <2>5 DEF HandlerStep
<1>4. ASSUME NEW n \in Node, DiscovererStep(n) \/ TakeTable(n) PROVE Places'
  <2>1. CASE CollectForHandler(n)
    BY <1>1, <2>1 DEF CollectForHandler, callVars, tcpVars
  <2>2. CASE CollectArrival(n) \/ TakeTable(n)
    <3>1. PICK t \in {"discoverer", "tableManager"}, msg \in TableDatagram :
             /\ pc[n][t] = "idle" /\ UNCHANGED <<incoming, serving>> /\ Considers(n, t, msg)
      <4>1. CASE CollectArrival(n)
        <5>1. Head(udp[n]) \in TableDatagram
          BY <1>0, <4>1, DatagramFields DEF TypeOK, CollectArrival
        <5> QED BY <4>1, <5>1 DEF CollectArrival, tcpVars
      <4>2. CASE TakeTable(n)
        BY <1>0, <4>2 DEF TypeOK, TakeTable, tcpVars
      <4> QED BY <2>2, <4>1, <4>2
    <3>2. /\ t \in Thread /\ t # "handler" /\ pc[n][t] \notin InCase5
          /\ pc' = [pc EXCEPT ![n][t] = "compare"]
      BY <1>a, <1>b, <3>1 DEF Considers
    <3>3. job'[n][t].table # Nothing
      <4>1. msg.table # Nothing
        BY NothingAssumption DEF TableDatagram
      <4> QED BY <1>j, <3>1, <3>2, <4>1 DEF Considers
    <3>4. \A m \in Node, u \in Thread : ~(m = n /\ u = t) => job'[m][u] = job[m][u]
      BY <1>j, <3>1 DEF Considers
    <3> QED BY <1>0, <1>a, <1>b, <3>1, <3>2, <3>3, <3>4, PlacesOutside
  <2> QED BY <1>4, <2>1, <2>2 DEF DiscovererStep
<1>5. ASSUME NEW n \in Node, NEW t \in Thread, RequestStep(n, t) PROVE Places'
  <2> DEFINE v == NextEntry(n, t)
  <2>1. CASE SkipChange(n, t) \/ ApplyDeletion(n, t) \/ Abandoned(n, t)
    <3>1. /\ pc[n][t] \in {"request", "negotiate"} /\ UNCHANGED <<incoming, serving>>
          /\ Advance(n, t, pc)
      BY <2>1 DEF SkipChange, ApplyDeletion, Abandoned, LocksFor, tcpVars
    <3>2. /\ pc' = [pc EXCEPT ![n][t] = v] /\ v \in {"idle", "request"}
          /\ v = "request" => job'[n][t].list # << >>
          /\ \A m \in Node, u \in Thread : ~(m = n /\ u = t) => job'[m][u] = job[m][u]
      BY <1>0, <1>b, <3>1, AdvancePlaces
    <3> HIDE DEF v
    <3>3. /\ v \notin Negotiating /\ v \notin Receiving /\ v \notin InCase5 /\ v # "announce"
          /\ v # "compare" /\ pc[n][t] \notin InCase5
      BY <1>b, <3>1, <3>2
    <3> QED BY <1>0, <3>1, <3>2, <3>3, PlacesOutside
  <2>2. CASE RequestFile(n, t)
    <3>1. /\ pc[n][t] = "request" /\ UNCHANGED <<job, incoming, serving>>
          /\ pc' = [pc EXCEPT ![n][t] = "negotiate"]
      BY <1>0, <2>2, RequestTakesLock DEF tcpVars
    <3>2. job[n][t].list # << >>
      BY <1>0, <3>1, EntryType
    <3> QED BY <1>0, <1>b, <3>1, <3>2, PlacesOutside
  <2>3. CASE OpenForWriting(n, t)
    <3> DEFINE r == [path |-> reply[n].path, from |-> reply[n].from]
    <3>1. /\ pc[n][t] = "negotiate" /\ UNCHANGED job /\ reply[n] # Nothing
          /\ pc' = [pc EXCEPT ![n][t] = "connect"]
          /\ incoming' = [incoming EXCEPT ![n] = r]
      BY <2>3 DEF OpenForWriting
    <3>s. SameService
      BY <1>k, <2>3, WrittenToService, ServiceKept DEF OpenForWriting
    <3>2. r \in Reception
      BY <1>0, <3>1 DEF TypeOK, Reply, Reception
    <3> HIDE DEF r
    <3>3. job[n][t].list # << >>
      BY <1>0, <1>b, <3>1, EntryType
    <3>4. \A m \in Node : incoming'[m] = incoming[m] \/ incoming'[m] # Nothing
      BY <1>i, <1>d, <3>1, <3>2
    <3>5. incoming'[n] # Nothing
      BY <1>i, <1>d, <3>1, <3>2
    <3> QED BY <1>0, <1>b, <3>1, <3>s, <3>3, <3>4, <3>5, PlacesOutside
  <2>4. CASE Connect(n, t)
    <3> DEFINE s == incoming[n].from
    <3>1. /\ pc[n][t] = "connect" /\ pc[s]["handler"] = "accept"
          /\ UNCHANGED <<job, incoming>>
          /\ pc' = [[pc EXCEPT ![n][t] = "receive"] EXCEPT ![s]["handler"] = "send"]
      BY <2>4 DEF Connect
    <3>s. SameService
      <4>1. s \in Node /\ serving[s] # Nothing
        BY <1>0, <1>i, <1>b, <3>1 DEF Places, PlaceOf, Reception
      <4> QED BY <1>k, <2>4, <4>1, MeasuredService, ServiceKept DEF Connect
    <3> HIDE DEF s
    <3>2. job[n][t].list # << >> /\ incoming[n] # Nothing
      BY <1>0, <1>b, <3>1 DEF Places, PlaceOf
    <3>3. \A m \in Node, u \in Thread : PlaceOf(m, u)'
      BY <1>0, <1>a, <1>b, <3>1, <3>2 DEF Places, PlaceOf
    <3>4. \A m \in Node : pc'[m]["handler"] \in InCase5 <=> serving'[m] # Nothing
      BY <1>0, <1>a, <1>b, <1>c, <3>1, <3>s DEF SameService
    <3> QED BY <3>3, <3>4 DEF Places
  <2>5. CASE Transfer(n, t)
    <3> DEFINE s == incoming[n].from
               pcs == [pc EXCEPT ![s]["handler"] = "sent"]
    <3>1. /\ pc[n][t] = "receive" /\ pc[s]["handler"] = "send"
          /\ UNCHANGED serving /\ Advance(n, t, pcs)
          /\ incoming' = [incoming EXCEPT ![n] = Nothing]
      BY <1>0, <2>5 DEF Transfer, Claims, ServerOf, Serves
    <3>2. /\ pc' = [pcs EXCEPT ![n][t] = v] /\ v \in {"idle", "request"}
          /\ v = "request" => job'[n][t].list # << >>
          /\ \A m \in Node, u \in Thread : ~(m = n /\ u = t) => job'[m][u] = job[m][u]
      <4> HIDE DEF s, pcs
      <4> QED BY <1>0, <1>b, <3>1, AdvancePlaces
    <3>3. ~(s = n /\ t = "handler")
      BY <3>1
    <3>4. \A u \in Thread : u # t => pc[n][u] \notin Negotiating
      BY <1>0, <1>b, <3>1 DEF LockHeld
    <3> HIDE DEF v, s
    <3>5. \A m \in Node, u \in Thread : ~(m = n /\ u = t) => PlaceOf(m, u)'
      <4> SUFFICES ASSUME NEW m \in Node, NEW u \in Thread, ~(m = n /\ u = t)
                   PROVE  PlaceOf(m, u)'
        OBVIOUS
      <4>1. CASE m = s /\ u = "handler"
        BY <1>0, <1>a, <1>b, <3>2, <3>3, <4>1 DEF PlaceOf
      <4>2. CASE ~(m = s /\ u = "handler")
        <5>1. pc'[m][u] = pc[m][u] /\ job'[m][u] = job[m][u] /\ PlaceOf(m, u)
          BY <1>0, <3>2, <4>2 DEF Places
        <5>2. m # n => incoming'[m] = incoming[m]
          BY <1>i, <3>1
        <5>3. m = n => pc'[m][u] \notin Receiving
          BY <1>b, <3>4, <5>1
        <5> QED BY <5>1, <5>2, <5>3 DEF PlaceOf
      <4> QED BY <4>1, <4>2
    <3>6. PlaceOf(n, t)'
      BY <1>0, <1>b, <3>2 DEF PlaceOf
    <3>7. \A m \in Node : pc'[m]["handler"] \in InCase5 <=> serving'[m] # Nothing
      BY <1>0, <1>k, <1>a, <1>b, <1>c, <3>1, <3>2, <3>3
    <3> QED BY <3>5, <3>6, <3>7 DEF Places
  <2>6. CASE CompareTables(n, t)
    <3>1. PICK list : /\ pc[n][t] = "compare" /\ UNCHANGED <<incoming, serving>>
                      /\ job' = [job EXCEPT ![n][t] =
                                    [job[n][t] EXCEPT !.table = Nothing, !.list = list]]
                      /\ pc' = [pc EXCEPT ![n][t] = Begun(list)]
      BY <2>6 DEF CompareTables, tcpVars
    <3>2. /\ Begun(list) \in {"idle", "request"} /\ (Begun(list) = "request" => list # << >>)
          /\ pc[n][t] \notin InCase5
      BY <1>b, <3>1 DEF Begun
    <3>3. [job[n][t] EXCEPT !.table = Nothing, !.list = list].list = list
      BY <1>j DEF Job
    <3>4. /\ job'[n][t].list = list
          /\ \A m \in Node, u \in Thread : ~(m = n /\ u = t) => job'[m][u] = job[m][u]
      <4> DEFINE now == [job[n][t] EXCEPT !.table = Nothing, !.list = list]
      <4>1. job' = [job EXCEPT ![n][t] = now] /\ now.list = list
        BY <3>1, <3>3
      <4> HIDE DEF now
      <4> QED BY <1>j, <4>1
    <3> DEFINE w == Begun(list)
    <3>5. /\ w \notin Negotiating /\ w \notin Receiving /\ w \notin InCase5
          /\ w # "announce" /\ w # "compare"
          /\ w = "request" => job'[n][t].list # << >>
          /\ pc' = [pc EXCEPT ![n][t] = w]
      <4>1. pc' = [pc EXCEPT ![n][t] = w]
        BY <3>1
      <4>2. w \in {"idle", "request"}
        BY <3>2
      <4>3. w = "request" => job'[n][t].list # << >>
        BY <3>2, <3>4
      <4> HIDE DEF w
      <4> QED BY <1>b, <4>1, <4>2, <4>3
    <3>6. /\ incoming' = incoming /\ serving' = serving /\ pc[n][t] \notin InCase5
          /\ \A m \in Node, u \in Thread : ~(m = n /\ u = t) => job'[m][u] = job[m][u]
      BY <3>1, <3>2, <3>4
    <3>7. pc \in [Node -> [Thread -> Place]] /\ Places
      BY <1>0
    <3> HIDE DEF w
    <3> QED BY <3>5, <3>6, <3>7, PlacesOutside
  <2>7. CASE LosesEnd(n, t)
    <3>1. /\ pc[n][t] = "receive" /\ UNCHANGED <<job, incoming, serving>>
          /\ pc' = [pc EXCEPT ![n][t] = "stuck"]
      BY <2>7 DEF LosesEnd, tcpVars
    <3>2. job[n][t].list # << >> /\ incoming[n] # Nothing
      BY <1>0, <1>b, <3>1 DEF Places, PlaceOf
    <3> QED BY <1>0, <1>b, <3>1, <3>2, PlacesOutside
  <2> QED BY <1>5, <2>1, <2>2, <2>3, <2>4, <2>5, <2>6, <2>7 DEF RequestStep
<1>6. ASSUME NEW n \in Node, FaultStep(n) PROVE Places'
  <2>1. CASE LoseDatagram(n) \/ LoseReply(n)
    BY <1>1, <2>1 DEF LoseDatagram, LoseReply, callVars, tcpVars
  <2>2. ASSUME NEW t \in Thread, ConnectTooEarly(n, t) PROVE Places'
    <3>1. /\ pc[n][t] = "connect" /\ UNCHANGED <<job, incoming, serving>>
          /\ pc' = [pc EXCEPT ![n][t] = "stuck"]
      BY <2>2 DEF ConnectTooEarly, tcpVars
    <3>2. job[n][t].list # << >> /\ incoming[n] # Nothing
      BY <1>0, <1>b, <3>1 DEF Places, PlaceOf
    <3> QED BY <1>0, <1>b, <3>1, <3>2, PlacesOutside
  <2> QED BY <1>6, <2>1, <2>2 DEF FaultStep
<1>7. ASSUME NEW n \in Node, StartWatching(n) \/ Scan(n) \/ PublishChanges(n) \/ UserStep(n)
      PROVE  Places'
  <2>1. UNCHANGED <<pc, job, incoming>> /\ (serving' = serving \/ SameService)
    BY <1>k, <1>7, UserTouchesFile
       DEF StartWatching, Scan, PublishChanges, callVars, tcpVars
  <2> QED BY <1>1, <2>1
<1>8. CASE UNCHANGED vars
  BY <1>1, <1>8 DEF vars, callVars, tcpVars
<1> QED BY <1>2, <1>3, <1>4, <1>5, <1>6, <1>7, <1>8 DEF Next

\* A thread that neither serves nor waits, and does not begin to.
LEMMA ClaimsKept ==
    ASSUME pc \in [Node -> [Thread -> Place]], Claims,
           UNCHANGED <<reply, incoming, serving>>,
           NEW n \in Node, NEW t \in Thread, NEW v,
           pc' = [pc EXCEPT ![n][t] = v],
           pc[n][t] # "negotiate", pc[n][t] # "open", pc[n][t] # "accept", pc[n][t] # "send",
           v # "connect", v # "receive"
    PROVE  Claims'
<1>1. \A m \in Node, u \in Thread : ~(m = n /\ u = t) => pc'[m][u] = pc[m][u]
  OBVIOUS
<1>2. \A s, m, places : places \in {{"open", "accept"}, {"send"}} /\ Serves(s, m, places)
                        => Serves(s, m, places)'
  BY DEF Serves
<1>3. ASSUME NEW m \in Node PROVE ReplyOf(m)'
  <2>1. (\E u \in Thread : pc[m][u] = "negotiate") => \E u \in Thread : pc'[m][u] = "negotiate"
    BY <1>1
  <2> QED BY <1>2, <2>1 DEF Claims, ReplyOf
<1>4. ASSUME NEW m \in Node, NEW u \in Thread PROVE ServerOf(m, u)'
  BY <1>1, <1>2 DEF Claims, ServerOf
<1> QED BY <1>3, <1>4 DEF Claims

(***************************************************************************)
(* A server is claimed from its answer to the end of the transfer.         *)
(***************************************************************************)
LEMMA ClaimsStep == LockInv /\ [Next]_vars => Claims'
<1> SUFFICES ASSUME LockInv, [Next]_vars PROVE Claims'
  OBVIOUS
<1>0. pc \in [Node -> [Thread -> Place]] /\ TypeOK /\ LockHeld /\ Places /\ Claims
  BY DEF LockInv, TypeOK
<1>i. /\ incoming \in [Node -> {Nothing} \cup Reception]
      /\ reply \in [Node -> {Nothing} \cup Reply]
  BY DEF LockInv, TypeOK
<1>k. serving \in [Node -> {Nothing} \cup Service]
  BY DEF LockInv, TypeOK
<1>a. "discoverer" \in Thread /\ "handler" \in Thread /\ "tableManager" \in Thread
  BY DEF Thread
\* negotiateTCPTransfer is run by one thread of a node at a time.
<1>b. \A m \in Node, t, u \in Thread :
         pc[m][t] \in Negotiating /\ pc[m][u] \in Negotiating => t = u
  BY <1>0 DEF LockHeld
<1>c. /\ "negotiate" \in Negotiating /\ "connect" \in Negotiating
      /\ "receive" \in Negotiating /\ "stuck" \in Negotiating
  BY DEF Negotiating
<1>d. \A m \in Node :
         /\ reply[m] # Nothing => reply[m].from \in Node
         /\ \A t \in Thread : pc[m][t] \in {"connect", "receive"} => incoming[m].from \in Node
  <2>1. \A m \in Node, t \in Thread :
           pc[m][t] \in {"connect", "receive"} => incoming[m] # Nothing
    BY <1>0 DEF Places, PlaceOf, Receiving, Negotiating
  <2> QED BY <1>i, <2>1 DEF Reply, Reception
<1>1. ASSUME UNCHANGED <<pc, reply, incoming>>, serving' = serving \/ SameService PROVE Claims'
  BY <1>0, <1>1, <1>d DEF Claims, ReplyOf, ServerOf, Serves, SameService
<1>2. ASSUME NEW n \in Node, StartUp(n) PROVE Claims'
  <2>1. n \notin running => pc[n]["discoverer"] = "idle"
    BY <1>a DEF LockInv, Unstarted
  <2>2. /\ pc[n]["discoverer"] \in {"idle", "announce"} /\ UNCHANGED <<reply, incoming, serving>>
        /\ \E v \in {"idle", "announce"} : pc' = [pc EXCEPT ![n]["discoverer"] = v]
    BY <1>2, <2>1 DEF StartUp, Start, Announce, tcpVars
  <2> QED BY <1>0, <1>a, <2>2, ClaimsKept
<1>3. ASSUME NEW n \in Node, HandlerStep(n) PROVE Claims'
  <2>1. CASE HandleResponse(n)
    BY <1>1, <2>1 DEF HandleResponse, callVars, tcpVars
  <2>2. CASE HandleFileRequest(n)
    <3> DEFINE msg == Head(todoUdp[n])
               c == msg.from
               abandon == disk[n][msg.change.path] = NoFile
               details == [from |-> n, abandon |-> abandon, path |-> msg.change.path]
               s == [client |-> c, path |-> msg.change.path, file |-> "closed"]
    <3>1. pc[n]["handler"] = "idle" /\ UNCHANGED incoming
      BY <2>2 DEF HandleFileRequest, Pops
    <3>2. \/ abandon /\ UNCHANGED <<pc, serving>>
          \/ pc' = [pc EXCEPT ![n]["handler"] = "open"] /\ serving' = [serving EXCEPT ![n] = s]
      BY <2>2 DEF HandleFileRequest, EndsHere
    <3>3. \/ UNCHANGED reply
          \/ /\ \E t \in Thread : pc[c][t] = "negotiate"
             /\ reply' = [reply EXCEPT ![c] = details]
      BY <2>2 DEF HandleFileRequest
    <3>4. s.client = c /\ details.from = n /\ details.abandon = abandon
      OBVIOUS
    <3> HIDE DEF abandon, details, s, c
    <3>5. \A m \in Node, u \in Thread : ~(m = n /\ u = "handler") => pc'[m][u] = pc[m][u]
      BY <1>0, <3>2
    <3>6. pc' = pc \/ (pc'[n]["handler"] = "open" /\ serving'[n].client = c)
      BY <1>0, <1>k, <1>a, <3>2, <3>4
    <3>7. pc' = pc => abandon
      BY <1>0, <1>a, <3>1, <3>2
    <3>8. \A m \in Node : m # n => serving'[m] = serving[m]
      BY <1>k, <3>2
    <3>9. ASSUME NEW m \in Node, NEW u \in Thread PROVE ServerOf(m, u)'
      <4>1. pc'[m][u] \in {"connect", "receive"} =>
               pc'[m][u] = pc[m][u] /\ incoming[m].from # n
        BY <1>0, <3>1, <3>5, <3>6 DEF Claims, ServerOf, Serves
      <4> QED BY <1>0, <1>a, <1>d, <3>1, <3>5, <3>8, <4>1 DEF Claims, ServerOf, Serves
    <3>10. ASSUME NEW m \in Node PROVE ReplyOf(m)'
      <4>1. (\E u \in Thread : pc[m][u] = "negotiate") => \E u \in Thread : pc'[m][u] = "negotiate"
        BY <3>1, <3>5
      <4>2. CASE reply'[m] = reply[m]
        <5>1. reply[m] # Nothing => reply[m].abandon \/ reply[m].from # n
          BY <1>0, <3>1 DEF Claims, ReplyOf, Serves
        <5> QED BY <1>0, <1>a, <1>d, <3>5, <3>8, <4>1, <4>2, <5>1 DEF Claims, ReplyOf, Serves
      <4>3. CASE reply'[m] # reply[m]
        <5>1. m = c /\ reply'[m] = details /\ \E t \in Thread : pc[m][t] = "negotiate"
          BY <1>i, <3>3, <4>3
        <5> QED BY <3>4, <3>6, <3>7, <4>1, <5>1 DEF ReplyOf, Serves
      <4> QED BY <4>2, <4>3
    <3> QED BY <3>9, <3>10 DEF Claims
  <2>3. CASE OpenAndListen(n)
    <3> DEFINE opened == IF disk[n][serving[n].path] = NoFile THEN "closed" ELSE "open"
    <3>1. /\ pc[n]["handler"] = "open" /\ UNCHANGED <<reply, incoming>>
          /\ pc' = [pc EXCEPT ![n]["handler"] = "accept"]
          /\ serving' = [serving EXCEPT ![n] = [serving[n] EXCEPT !.file = opened]]
      BY <2>3 DEF OpenAndListen
    <3>2. serving[n] \in Service
      BY <1>0, <1>a, <1>k, <3>1 DEF Places, InCase5
    <3>3. [serving[n] EXCEPT !.file = opened].client = serving[n].client
      BY <3>2 DEF Service
    <3> HIDE DEF opened
    <3>4. \A m \in Node : serving'[m].client = serving[m].client
      BY <1>k, <3>1, <3>3
    <3>5. \A m \in Node, u \in Thread : ~(m = n /\ u = "handler") => pc'[m][u] = pc[m][u]
      BY <1>0, <3>1
    <3>6. \A m \in Node, u \in Thread : \A v \in {"negotiate", "connect", "receive", "send"} :
             pc'[m][u] = v <=> pc[m][u] = v
      BY <1>0, <3>1
    <3>7. \A m \in Node : pc[m]["handler"] \in {"open", "accept"}
                          => pc'[m]["handler"] \in {"open", "accept"}
      BY <1>0, <1>a, <3>1
    <3>8. ASSUME NEW m \in Node, NEW u \in Thread PROVE ServerOf(m, u)'
      BY <1>0, <1>a, <1>d, <3>1, <3>4, <3>6, <3>7 DEF Claims, ServerOf, Serves
    <3>9. ASSUME NEW m \in Node PROVE ReplyOf(m)'
      BY <1>0, <1>a, <1>d, <3>1, <3>4, <3>6, <3>7 DEF Claims, ReplyOf, Serves
    <3> QED BY <3>8, <3>9 DEF Claims
  <2>4. CASE EndService(n)
    <3>1. /\ pc[n]["handler"] = "sent" /\ UNCHANGED <<reply, incoming>>
          /\ pc' = [pc EXCEPT ![n]["handler"] = "idle"]
          /\ serving' = [serving EXCEPT ![n] = Nothing]
      BY <2>4 DEF EndService
    <3>2. \A m \in Node, u \in Thread : ~(m = n /\ u = "handler") => pc'[m][u] = pc[m][u]
      BY <1>0, <3>1
    <3>3. pc'[n]["handler"] = "idle" /\ \A m \in Node : m # n => serving'[m] = serving[m]
      BY <1>0, <1>a, <1>k, <3>1
    <3>4. ASSUME NEW m \in Node, NEW u \in Thread PROVE ServerOf(m, u)'
      BY <1>0, <1>a, <1>d, <3>1, <3>2, <3>3, <3>4 DEF Claims, ServerOf, Serves
    <3>5. ASSUME NEW m \in Node PROVE ReplyOf(m)'
      <4>1. (\E u \in Thread : pc[m][u] = "negotiate") => \E u \in Thread : pc'[m][u] = "negotiate"
        BY <3>1, <3>2
      <4> QED BY <1>0, <1>a, <1>d, <3>1, <3>2, <3>3, <4>1 DEF Claims, ReplyOf, Serves
    <3> QED BY <3>4, <3>5 DEF Claims
  <2>5. CASE HandleDirChanges(n)
    <3>1. /\ pc[n]["handler"] = "idle" /\ UNCHANGED <<reply, incoming, serving>>
          /\ \E v \in {"idle", "request"} : pc' = [pc EXCEPT ![n]["handler"] = v]
      BY <2>5 DEF HandleDirChanges, Pops, Begun, tcpVars
    <3> QED BY <1>0, <1>a, <3>1, ClaimsKept
  <2> QED BY <1>3, <2>1, <2>2, <2>3, <2>4, <2>5 DEF HandlerStep
<1>4. ASSUME NEW n \in Node, DiscovererStep(n) \/ TakeTable(n) PROVE Claims'
  <2>1. CASE CollectForHandler(n)
    BY <1>1, <2>1 DEF CollectForHandler, callVars, tcpVars
  <2>2. CASE CollectArrival(n) \/ TakeTable(n)
    <3>1. PICK t \in {"discoverer", "tableManager"} :
             /\ pc[n][t] = "idle" /\ UNCHANGED <<reply, incoming, serving>>
             /\ pc' = [pc EXCEPT ![n][t] = "compare"]
      BY <2>2 DEF CollectArrival, TakeTable, Considers, tcpVars
    <3>2. t \in Thread
      BY <1>a
    <3> QED BY <1>0, <3>1, <3>2, ClaimsKept
  <2> QED BY <1>4, <2>1, <2>2 DEF DiscovererStep
<1>5. ASSUME NEW n \in Node, NEW t \in Thread, RequestStep(n, t) PROVE Claims'
  <2> DEFINE v == NextEntry(n, t)
  <2>0. v # "connect" /\ v # "receive"
    BY DEF NextEntry
  <2>1. CASE SkipChange(n, t) \/ ApplyDeletion(n, t)
    <3>1. /\ pc[n][t] = "request" /\ UNCHANGED <<reply, incoming, serving>>
          /\ pc' = [pc EXCEPT ![n][t] = v]
      BY <2>1 DEF SkipChange, ApplyDeletion, LocksFor, Advance, tcpVars
    <3> HIDE DEF v
    <3> QED BY <1>0, <2>0, <3>1, ClaimsKept
  <2>2. CASE RequestFile(n, t)
    <3>1. /\ pc[n][t] = "request" /\ UNCHANGED <<reply, incoming, serving>>
          /\ pc' = [pc EXCEPT ![n][t] = "negotiate"]
      BY <1>0, <2>2, RequestTakesLock DEF tcpVars
    <3> QED BY <1>0, <3>1, ClaimsKept
  <2>3. CASE Abandoned(n, t)
    <3>1. /\ pc[n][t] = "negotiate" /\ UNCHANGED <<incoming, serving>>
          /\ reply' = [reply EXCEPT ![n] = Nothing]
          /\ pc' = [pc EXCEPT ![n][t] = v] /\ v \in {"idle", "request"}
      BY <2>3 DEF Abandoned, Advance, NextEntry
    <3> HIDE DEF v
    <3>2. \A m \in Node, u \in Thread : ~(m = n /\ u = t) => pc'[m][u] = pc[m][u]
      BY <1>0, <3>1
    <3>3. pc'[n][t] = v /\ reply'[n] = Nothing /\ \A m \in Node : m # n => reply'[m] = reply[m]
      BY <1>0, <1>i, <3>1
    <3>4. \A s \in Node : pc[s]["handler"] \in {"open", "accept", "send"}
                          => pc'[s]["handler"] = pc[s]["handler"]
      BY <1>a, <3>1, <3>2
    <3>5. ASSUME NEW m \in Node, NEW u \in Thread PROVE ServerOf(m, u)'
      BY <1>0, <1>d, <3>1, <3>2, <3>3, <3>4 DEF Claims, ServerOf, Serves
    <3>6. ASSUME NEW m \in Node PROVE ReplyOf(m)'
      BY <1>0, <1>d, <3>1, <3>2, <3>3, <3>4 DEF Claims, ReplyOf, Serves
    <3> QED BY <3>5, <3>6 DEF Claims
  <2>4. CASE OpenForWriting(n, t)
    <3> DEFINE r == [path |-> reply[n].path, from |-> reply[n].from]
    <3>1. /\ pc[n][t] = "negotiate" /\ reply[n] # Nothing /\ ~reply[n].abandon
          /\ reply' = [reply EXCEPT ![n] = Nothing]
          /\ incoming' = [incoming EXCEPT ![n] = r]
          /\ pc' = [pc EXCEPT ![n][t] = "connect"]
      BY <2>4 DEF OpenForWriting
    <3>s. \A s \in Node : serving'[s].client = serving[s].client
      BY <1>k, <2>4, WrittenToService, ServiceKept DEF OpenForWriting, SameService
    <3>2. r.from = reply[n].from
      OBVIOUS
    <3> HIDE DEF r
    <3>3. \A m \in Node, u \in Thread : ~(m = n /\ u = t) => pc'[m][u] = pc[m][u]
      BY <1>0, <3>1
    <3>4. /\ pc'[n][t] = "connect" /\ reply'[n] = Nothing /\ incoming'[n] = r
          /\ \A m \in Node : m # n => reply'[m] = reply[m] /\ incoming'[m] = incoming[m]
      BY <1>0, <1>i, <3>1
    <3>5. \A s \in Node : pc[s]["handler"] \in {"open", "accept", "send"}
                          => pc'[s]["handler"] = pc[s]["handler"]
      BY <1>a, <3>1, <3>3
    <3>6. Serves(reply[n].from, n, {"open", "accept"})
      BY <1>0, <3>1 DEF Claims, ReplyOf
    <3>7. \A u \in Thread : u # t => pc[n][u] \notin {"connect", "receive"}
      BY <1>b, <1>c, <3>1
    <3>8. ASSUME NEW m \in Node, NEW u \in Thread PROVE ServerOf(m, u)'
      <4>1. CASE m = n
        <5>1. ServerOf(n, t)'
          BY <1>d, <3>1, <3>2, <3>4, <3>s, <3>5, <3>6 DEF ServerOf, Serves
        <5> QED BY <3>3, <3>7, <4>1, <5>1 DEF ServerOf
      <4>2. CASE m # n
        BY <1>0, <1>d, <3>1, <3>3, <3>s, <3>4, <3>5, <4>2 DEF Claims, ServerOf, Serves
      <4> QED BY <4>1, <4>2
    <3>9. ASSUME NEW m \in Node PROVE ReplyOf(m)'
      BY <1>0, <1>d, <3>1, <3>3, <3>s, <3>4, <3>5 DEF Claims, ReplyOf, Serves
    <3> QED BY <3>8, <3>9 DEF Claims
  <2>5. CASE Connect(n, t)
    <3> DEFINE s == incoming[n].from
    <3>1. /\ pc[n][t] = "connect" /\ pc[s]["handler"] = "accept"
          /\ UNCHANGED <<reply, incoming>>
          /\ pc' = [[pc EXCEPT ![n][t] = "receive"] EXCEPT ![s]["handler"] = "send"]
      BY <2>5 DEF Connect
    <3>2. s \in Node /\ serving[s].client = n
      BY <1>0, <1>d, <3>1 DEF Claims, ServerOf, Serves
    <3>s. \A m \in Node : serving'[m].client = serving[m].client
      <4>1. s \in Node /\ serving[s] # Nothing
        BY <1>0, <3>1, <3>2 DEF Places, InCase5
      <4> QED BY <1>k, <2>5, <4>1, MeasuredService, ServiceKept DEF Connect, SameService
    <3> HIDE DEF s
    <3>3. ~(s = n /\ t = "handler") /\ pc'[s]["handler"] = "send" /\ pc'[n][t] = "receive"
      BY <1>0, <1>a, <3>1, <3>2
    <3>4. \A m \in Node, u \in Thread :
             ~(m = n /\ u = t) /\ ~(m = s /\ u = "handler") => pc'[m][u] = pc[m][u]
      BY <1>0, <3>1
    <3>5. \A m \in Node, u \in Thread : m # n =>
             \A w \in {"negotiate", "connect", "receive"} : pc'[m][u] = w <=> pc[m][u] = w
      BY <3>1, <3>3, <3>4
    <3>6. ASSUME NEW u \in Thread
          PROVE  pc'[n][u] # "connect" /\ (pc'[n][u] = "receive" => u = t)
      <4>1. u # t => pc[n][u] # "connect" /\ pc[n][u] # "receive"
        BY <1>b, <1>c, <3>1
      <4>2. CASE n = s /\ u = "handler"
        BY <3>3, <4>2
      <4>3. CASE u # t /\ ~(n = s /\ u = "handler")
        BY <3>4, <4>1, <4>3
      <4> QED BY <3>3, <4>2, <4>3
    <3>7. reply[n] = Nothing
      BY <1>0, <1>b, <1>c, <3>1 DEF Claims, ReplyOf
    <3>8. \A m \in Node : m # s /\ pc[m]["handler"] \in {"open", "accept", "send"}
                          => pc'[m]["handler"] = pc[m]["handler"]
      BY <1>a, <3>1, <3>4
    <3>9. ASSUME NEW m \in Node, NEW u \in Thread PROVE ServerOf(m, u)'
      <4>1. CASE m = n
        BY <3>1, <3>2, <3>s, <3>3, <3>6, <4>1 DEF ServerOf, Serves, s
      <4>2. CASE m # n
        <5>1. incoming'[m] = incoming[m]
          BY <3>1
        <5>2. /\ pc'[m][u] = "connect" <=> pc[m][u] = "connect"
              /\ pc'[m][u] = "receive" <=> pc[m][u] = "receive"
          BY <3>5, <4>2
        <5>3. ServerOf(m, u)
          BY <1>0 DEF Claims
        <5>4. pc[m][u] \in {"connect", "receive"} =>
                 incoming[m].from \in Node /\ incoming[m].from # s
          BY <1>d, <3>2, <4>2, <5>3 DEF ServerOf, Serves
        <5> QED BY <3>s, <3>8, <5>1, <5>2, <5>3, <5>4 DEF ServerOf, Serves
      <4> QED BY <4>1, <4>2
    <3>10. ASSUME NEW m \in Node PROVE ReplyOf(m)'
      <4>1. CASE m = n
        <5>1. reply'[m] = Nothing
          BY <3>1, <3>7, <4>1
        <5> QED BY <5>1 DEF ReplyOf
      <4>2. CASE m # n
        <5>1. reply'[m] = reply[m]
          BY <3>1
        <5>2. (\E u \in Thread : pc[m][u] = "negotiate") => \E u \in Thread : pc'[m][u] = "negotiate"
          BY <3>5, <4>2
        <5>3. ReplyOf(m)
          BY <1>0 DEF Claims
        <5>4. reply[m] # Nothing /\ ~reply[m].abandon => reply[m].from \in Node /\ reply[m].from # s
          BY <1>d, <3>2, <4>2, <5>3 DEF ReplyOf, Serves
        <5> QED BY <3>s, <3>8, <5>1, <5>2, <5>3, <5>4 DEF ReplyOf, Serves
      <4> QED BY <4>1, <4>2
    <3> QED BY <3>9, <3>10 DEF Claims
  <2>6. CASE Transfer(n, t)
    <3> DEFINE s == incoming[n].from
    <3>1. pc[n][t] = "receive" /\ s \in Node /\ pc[s]["handler"] = "send" /\ serving[s].client = n
      BY <1>0, <1>d, <2>6 DEF Transfer, Claims, ServerOf, Serves
    <3>2. /\ UNCHANGED <<reply, serving>> /\ incoming' = [incoming EXCEPT ![n] = Nothing]
          /\ pc' = [[pc EXCEPT ![s]["handler"] = "sent"] EXCEPT ![n][t] = v]
          /\ v \in {"idle", "request"}
      BY <2>6 DEF Transfer, Advance, NextEntry
    <3> HIDE DEF s, v
    <3>3. ~(s = n /\ t = "handler") /\ pc'[s]["handler"] = "sent" /\ pc'[n][t] = v
      BY <1>0, <1>a, <3>1, <3>2
    <3>4. \A m \in Node, u \in Thread :
             ~(m = n /\ u = t) /\ ~(m = s /\ u = "handler") => pc'[m][u] = pc[m][u]
      BY <1>0, <3>2
    <3>5. \A m \in Node, u \in Thread : m # n =>
             \A w \in {"negotiate", "connect", "receive"} : pc'[m][u] = w <=> pc[m][u] = w
      BY <3>1, <3>3, <3>4
    <3>6. ASSUME NEW u \in Thread PROVE pc'[n][u] # "connect" /\ pc'[n][u] # "receive"
      <4>1. u # t => pc[n][u] # "connect" /\ pc[n][u] # "receive"
        BY <1>b, <1>c, <3>1
      <4>2. CASE n = s /\ u = "handler"
        BY <3>3, <4>2
      <4>3. CASE u # t /\ ~(n = s /\ u = "handler")
        BY <3>4, <4>1, <4>3
      <4>4. CASE u = t
        BY <3>2, <3>3, <4>4
      <4> QED BY <4>2, <4>3, <4>4
    <3>7. reply[n] = Nothing
      BY <1>0, <1>b, <1>c, <3>1 DEF Claims, ReplyOf
    <3>8. \A m \in Node : m # s /\ pc[m]["handler"] \in {"open", "accept", "send"}
                          => pc'[m]["handler"] = pc[m]["handler"]
      BY <1>a, <3>1, <3>4
    <3>9. ASSUME NEW m \in Node, NEW u \in Thread PROVE ServerOf(m, u)'
      <4>1. CASE m = n
        BY <3>6, <4>1 DEF ServerOf
      <4>2. CASE m # n
        <5>1. incoming'[m] = incoming[m]
          BY <1>i, <3>2, <4>2
        <5> QED BY <1>0, <1>d, <3>1, <3>2, <3>5, <3>8, <4>2, <5>1 DEF Claims, ServerOf, Serves
      <4> QED BY <4>1, <4>2
    <3>10. ASSUME NEW m \in Node PROVE ReplyOf(m)'
      <4>1. CASE m = n
        <5>1. reply'[m] = Nothing
          BY <3>2, <3>7, <4>1
        <5> QED BY <5>1 DEF ReplyOf
      <4>2. CASE m # n
        <5>1. reply'[m] = reply[m] /\ serving' = serving
          BY <3>2
        <5>2. (\E u \in Thread : pc[m][u] = "negotiate") => \E u \in Thread : pc'[m][u] = "negotiate"
          BY <3>5, <4>2
        <5>3. ReplyOf(m)
          BY <1>0 DEF Claims
        <5>4. reply[m] # Nothing /\ ~reply[m].abandon => reply[m].from \in Node /\ reply[m].from # s
          BY <1>d, <3>1, <4>2, <5>3 DEF ReplyOf, Serves
        <5> QED BY <3>8, <5>1, <5>2, <5>3, <5>4 DEF ReplyOf, Serves
      <4> QED BY <4>1, <4>2
    <3> QED BY <3>9, <3>10 DEF Claims
  <2>7. CASE CompareTables(n, t)
    <3>1. /\ pc[n][t] = "compare" /\ UNCHANGED <<reply, incoming, serving>>
          /\ \E w \in {"idle", "request"} : pc' = [pc EXCEPT ![n][t] = w]
      <4>1. \A list : Begun(list) \in {"idle", "request"}
        BY DEF Begun
      <4> QED BY <2>7, <4>1 DEF CompareTables, tcpVars
    <3> QED BY <1>0, <3>1, ClaimsKept
  <2>8. CASE LosesEnd(n, t)
    <3>1. /\ pc[n][t] = "receive" /\ UNCHANGED <<reply, incoming, serving>>
          /\ pc' = [pc EXCEPT ![n][t] = "stuck"]
      BY <2>8 DEF LosesEnd, tcpVars
    <3> QED BY <1>0, <3>1, ClaimsKept
  <2> QED BY <1>5, <2>1, <2>2, <2>3, <2>4, <2>5, <2>6, <2>7, <2>8 DEF RequestStep
<1>6. ASSUME NEW n \in Node, FaultStep(n) PROVE Claims'
  <2>1. CASE LoseDatagram(n)
    BY <1>1, <2>1 DEF LoseDatagram, callVars, tcpVars
  <2>2. CASE LoseReply(n)
    <3>1. \A m \in Node : reply'[m] = reply[m] \/ reply'[m] = Nothing
      BY <1>i, <2>2 DEF LoseReply
    <3> QED BY <1>0, <2>2, <3>1 DEF LoseReply, callVars, Claims, ReplyOf, ServerOf, Serves
  <2>3. ASSUME NEW t \in Thread, ConnectTooEarly(n, t) PROVE Claims'
    <3>1. /\ pc[n][t] = "connect" /\ UNCHANGED <<reply, incoming, serving>>
          /\ pc' = [pc EXCEPT ![n][t] = "stuck"]
      BY <2>3 DEF ConnectTooEarly, tcpVars
    <3> QED BY <1>0, <3>1, ClaimsKept
  <2> QED BY <1>6, <2>1, <2>2, <2>3 DEF FaultStep
<1>7. ASSUME NEW n \in Node, StartWatching(n) \/ Scan(n) \/ PublishChanges(n) \/ UserStep(n)
      PROVE  Claims'
  <2>1. UNCHANGED <<pc, reply, incoming>> /\ (serving' = serving \/ SameService)
    BY <1>k, <1>7, UserTouchesFile
       DEF StartWatching, Scan, PublishChanges, callVars, tcpVars
  <2> QED BY <1>1, <2>1
<1>8. CASE UNCHANGED vars
  BY <1>1, <1>8 DEF vars, callVars, tcpVars
<1> QED BY <1>2, <1>3, <1>4, <1>5, <1>6, <1>7, <1>8 DEF Next

-----------------------------------------------------------------------------
(***************************************************************************)
(* A file that was whole when sendFile measured it, and was not written to *)
(* since, is whole.                                                        *)
(***************************************************************************)
Sends(n)  == pc[n]["handler"] = "send" /\ serving[n].file = "open"
SourceWhole == \A n \in Node : Sends(n) => disk[n][serving[n].path] # Partial

\* So what a client has received at the end is not a file being received.
LEMMA SourceIsWhole ==
    ASSUME SourceWhole, NEW m \in Node, pc[m]["handler"] = "send"
    PROVE  Partial \notin Copies(m)
BY ContentAssumption DEF SourceWhole, Sends, Copies

LEMMA SourceWholeKept ==
    ASSUME SourceWhole,
           \A m \in Node : Sends(m)' =>
              /\ pc[m]["handler"] = "send" /\ serving'[m] = serving[m]
              /\ \/ disk'[m][serving[m].path] = disk[m][serving[m].path]
                 \/ disk'[m][serving[m].path] # Partial
    PROVE  SourceWhole'
BY DEF SourceWhole, Sends

\* A file of n becomes whole, or what n sends of it is marked as written to.
LEMMA SourceWholeAfter ==
    ASSUME SourceWhole, disk \in [Node -> Table], serving \in [Node -> {Nothing} \cup Service],
           \A m \in Node : serving[m] # Nothing <=> pc[m]["handler"] \in InCase5,
           NEW n \in Node, NEW p \in Path, NEW c,
           disk' = [disk EXCEPT ![n][p] = c],
           \/ c # Partial /\ serving' = serving
           \/ serving' = WrittenTo(n, p),
           \A m \in Node : pc'[m]["handler"] = "send" => pc[m]["handler"] = "send"
    PROVE  SourceWhole'
<1> SUFFICES ASSUME NEW m \in Node, Sends(m)'
             PROVE  /\ pc[m]["handler"] = "send" /\ serving'[m] = serving[m]
                    /\ \/ disk'[m][serving[m].path] = disk[m][serving[m].path]
                       \/ disk'[m][serving[m].path] # Partial
  BY SourceWholeKept
<1>1. pc[m]["handler"] = "send" /\ serving[m] # Nothing /\ serving[m] \in Service
  BY DEF Sends, InCase5
<1>2. serving'[m] = serving[m]
  <2>1. CASE serving' = serving
    BY <2>1
  <2>2. CASE serving' # serving
    <3>1. serving' = [serving EXCEPT ![n] = [serving[n] EXCEPT !.file = "changed"]]
      BY <2>2 DEF WrittenTo
    <3>2. m = n => serving'[m].file = "changed"
      BY <1>1, <3>1 DEF Service
    <3> QED BY <3>1, <3>2 DEF Sends
  <2> QED BY <2>1, <2>2
<1>3. CASE m # n \/ serving[m].path # p
  BY <1>1, <1>2, <1>3 DEF Table, Service
<1>4. CASE m = n /\ serving[m].path = p
  <2>1. serving'[m].file = "open" /\ serving[m].file = "open"
    BY <1>2 DEF Sends
  <2>2. c # Partial
    <3> SUFFICES ASSUME serving' = WrittenTo(n, p) PROVE FALSE
      OBVIOUS
    <3>1. OpenAt(n, p)
      BY <1>1, <1>4, <2>1 DEF OpenAt
    <3>2. serving' = [serving EXCEPT ![n] = [serving[n] EXCEPT !.file = "changed"]]
      BY <1>1, <1>4, <3>1 DEF WrittenTo
    <3>3. serving'[m].file = "changed"
      BY <1>1, <1>4, <3>2 DEF Service
    <3> QED BY <2>1, <3>3
  <2>3. disk'[m][serving[m].path] = c
    BY <1>1, <1>4 DEF Table
  <2> QED BY <1>1, <1>2, <2>2, <2>3
<1> QED BY <1>3, <1>4

LEMMA SourceWholeStep == LockInv /\ SourceWhole /\ [Next]_vars => SourceWhole'
<1> SUFFICES ASSUME LockInv, SourceWhole, [Next]_vars PROVE SourceWhole'
  OBVIOUS
<1>0. /\ pc \in [Node -> [Thread -> Place]] /\ disk \in [Node -> Table]
      /\ serving \in [Node -> {Nothing} \cup Service]
      /\ LockHeld /\ Places /\ Claims /\ TypeOK
  BY DEF LockInv, TypeOK
<1>a. "discoverer" \in Thread /\ "handler" \in Thread /\ "tableManager" \in Thread
  BY DEF Thread
<1>b. NoFile # Partial
  BY ContentAssumption, NoFileAssumption
<1>c. \A m \in Node : serving[m] # Nothing <=> pc[m]["handler"] \in InCase5
  BY <1>0 DEF Places
<1>1. ASSUME UNCHANGED <<disk, serving>>,
             \A m \in Node : pc'[m]["handler"] = "send" => pc[m]["handler"] = "send"
      PROVE  SourceWhole'
  BY <1>1, SourceWholeKept DEF Sends
<1>2. ASSUME NEW n \in Node, StartUp(n) \/ DiscovererStep(n) \/ TakeTable(n)
                              \/ StartWatching(n) \/ Scan(n) \/ PublishChanges(n)
      PROVE  SourceWhole'
  <2>1. UNCHANGED <<disk, serving>>
    BY <1>2 DEF StartUp, Start, Announce, DiscovererStep, CollectForHandler, CollectArrival,
                TakeTable, StartWatching, Scan, PublishChanges, dirVars, tcpVars
  <2>2. pc' = pc \/ \E t \in {"discoverer", "tableManager"} : \E v : pc' = [pc EXCEPT ![n][t] = v]
    BY <1>2 DEF StartUp, Start, Announce, DiscovererStep, CollectForHandler, CollectArrival,
                Considers, TakeTable, StartWatching, Scan, PublishChanges, callVars
  <2>3. \A m \in Node : pc'[m]["handler"] = pc[m]["handler"]
    <3>1. ASSUME NEW t \in {"discoverer", "tableManager"}, NEW v,
                 pc' = [pc EXCEPT ![n][t] = v]
          PROVE  \A m \in Node : pc'[m]["handler"] = pc[m]["handler"]
      BY <1>0, <1>a, <3>1
    <3>2. CASE pc' = pc
      BY <3>2
    <3> QED BY <2>2, <3>1, <3>2
  <2> QED BY <1>1, <2>1, <2>3
<1>3. ASSUME NEW n \in Node, HandlerStep(n) PROVE SourceWhole'
  <2>1. CASE HandleResponse(n) \/ HandleDirChanges(n)
    <3>1. /\ UNCHANGED <<disk, serving>>
          /\ pc' = pc \/ \E v \in {"idle", "request"} : pc' = [pc EXCEPT ![n]["handler"] = v]
      BY <2>1 DEF HandleResponse, HandleDirChanges, Begun, dirVars, callVars, tcpVars
    <3> QED BY <1>0, <1>1, <1>a, <3>1
  <2>2. CASE HandleFileRequest(n) \/ OpenAndListen(n) \/ EndService(n)
    <3>1. /\ disk' = disk /\ \A m \in Node : m # n => serving'[m] = serving[m]
          /\ pc[n]["handler"] # "send"
          /\ pc' = pc \/ \E v \in {"open", "accept", "idle"} : pc' = [pc EXCEPT ![n]["handler"] = v]
      BY <1>0, <2>2 DEF HandleFileRequest, Pops, OpenAndListen, EndService, dirVars
    <3>2. \A m \in Node : pc'[m]["handler"] = "send" => m # n /\ pc[m]["handler"] = "send"
      BY <1>0, <1>a, <3>1
    <3> QED BY <3>1, <3>2, SourceWholeKept DEF Sends
  <2> QED BY <1>3, <2>1, <2>2 DEF HandlerStep
<1>4. ASSUME NEW n \in Node, NEW t \in Thread, RequestStep(n, t) PROVE SourceWhole'
  <2> DEFINE v == NextEntry(n, t)
  <2>0. v # "send"
    BY DEF NextEntry
  <2>1. CASE SkipChange(n, t) \/ RequestFile(n, t) \/ Abandoned(n, t) \/ CompareTables(n, t)
             \/ LosesEnd(n, t)
    <3>1. /\ UNCHANGED <<disk, serving>>
          /\ \E w : w # "send" /\ pc' = [pc EXCEPT ![n][t] = w]
      BY <1>0, <2>0, <2>1, RequestTakesLock
         DEF SkipChange, Abandoned, CompareTables, Begun, LosesEnd, Advance, dirVars, tcpVars
    <3> QED BY <1>0, <1>1, <1>a, <3>1
  <2>2. CASE ApplyDeletion(n, t)
    <3>1. /\ disk' = disk \/ disk' = [disk EXCEPT ![n][Entry(n, t).path] = NoFile]
          /\ serving' = serving /\ pc' = [pc EXCEPT ![n][t] = v]
          /\ pc[n][t] = "request"
      BY <2>2 DEF ApplyDeletion, LocksFor, Advance, DiskBecomes, dirVars, tcpVars
    <3>2. Entry(n, t).path \in Path
      BY <1>0, <3>1, EntryType DEF Change
    <3> HIDE DEF v
    <3>3. \A m \in Node : pc'[m]["handler"] = "send" => pc[m]["handler"] = "send"
      BY <1>0, <1>a, <2>0, <3>1
    <3> QED BY <1>0, <1>1, <1>b, <1>c, <3>1, <3>2, <3>3, SourceWholeAfter
  <2>3. CASE OpenForWriting(n, t)
    <3>1. /\ disk' = [disk EXCEPT ![n][reply[n].path] = Partial]
          /\ serving' = WrittenTo(n, reply[n].path) /\ reply[n] # Nothing
          /\ pc' = [pc EXCEPT ![n][t] = "connect"]
      BY <2>3 DEF OpenForWriting, DiskBecomes
    <3>2. reply[n].path \in Path
      BY <1>0, <3>1 DEF TypeOK, Reply
    <3>3. \A m \in Node : pc'[m]["handler"] = "send" => pc[m]["handler"] = "send"
      BY <1>0, <1>a, <3>1
    <3> QED BY <1>0, <1>c, <3>1, <3>2, <3>3, SourceWholeAfter
  <2>4. CASE Connect(n, t)
    <3>0. pc[n][t] = "connect" /\ pc[incoming[n].from]["handler"] = "accept"
      BY <2>4 DEF Connect
    <3>2. PICK s \in Node : s = incoming[n].from
      BY <1>0, <3>0 DEF TypeOK, Places, PlaceOf, Receiving, Negotiating, Reception
    <3>1. /\ disk' = disk /\ serving' = Measured(s)
          /\ pc[n][t] = "connect" /\ pc[s]["handler"] = "accept"
          /\ pc' = [[pc EXCEPT ![n][t] = "receive"] EXCEPT ![s]["handler"] = "send"]
      BY <2>4, <3>2 DEF Connect, dirVars
    <3>s. serving[s] \in Service
      BY <1>0, <1>c, <3>1, <3>2 DEF InCase5
    <3>3. \A m \in Node : m # s /\ pc'[m]["handler"] = "send" => pc[m]["handler"] = "send"
      BY <1>0, <1>a, <3>1
    <3>4. \A m \in Node : m # s => serving'[m] = serving[m]
      BY <1>0, <3>1 DEF Measured
    <3>5. Sends(s)' => disk'[s][serving'[s].path] # Partial
      <4>1. CASE serving[s].file = "open" /\ disk[s][serving[s].path] = Partial
        <5>1. serving' = [serving EXCEPT ![s] = [serving[s] EXCEPT !.file = "growing"]]
          BY <3>1, <4>1 DEF Measured
        <5>2. serving'[s].file = "growing"
          BY <1>0, <3>2, <3>s, <5>1 DEF Service
        <5> QED BY <5>2 DEF Sends
      <4>2. CASE ~(serving[s].file = "open" /\ disk[s][serving[s].path] = Partial)
        BY <3>1, <4>2 DEF Measured, Sends
      <4> QED BY <4>1, <4>2
    <3> QED BY <3>1, <3>3, <3>4, <3>5 DEF SourceWhole, Sends
  <2>5. CASE Transfer(n, t)
    <3> DEFINE s == incoming[n].from
    <3>1. pc[n][t] = "receive" /\ pc[s]["handler"] = "send"
      BY <1>0, <2>5 DEF Transfer, Claims, ServerOf, Serves
    <3>2. incoming[n] \in Reception
      BY <1>0, <3>1 DEF TypeOK, Places, PlaceOf, Receiving, Negotiating
    <3>3. PICK c \in Copies(s) : DiskBecomes(n, incoming[n].path, c)
      BY <2>5 DEF Transfer
    <3>4. /\ serving' = serving
          /\ pc' = [[pc EXCEPT ![s]["handler"] = "sent"] EXCEPT ![n][t] = v]
      BY <2>5 DEF Transfer, Advance
    <3>5. s \in Node /\ incoming[n].path \in Path
      BY <3>2 DEF Reception
    <3> HIDE DEF s, v
    <3>6. c # Partial
      BY <3>1, <3>3, <3>5, SourceIsWhole
    <3>7. \A m \in Node : pc'[m]["handler"] = "send" => pc[m]["handler"] = "send"
      BY <1>0, <1>a, <2>0, <3>4
    <3>8. disk' = [disk EXCEPT ![n][incoming[n].path] = c]
      BY <3>3 DEF DiskBecomes
    <3> QED BY <1>0, <1>c, <3>4, <3>5, <3>6, <3>7, <3>8, SourceWholeAfter
  <2> QED BY <1>4, <2>1, <2>2, <2>3, <2>4, <2>5 DEF RequestStep
<1>5. ASSUME NEW n \in Node, UserStep(n) PROVE SourceWhole'
  <2>1. PICK p \in Path : UserDeletes(n, p) \/ \E c \in UserContent : UserWrites(n, p, c)
    BY <1>5 DEF UserStep
  <2>2. /\ \E c : /\ disk' = [disk EXCEPT ![n][p] = c]
                  /\ \/ c # Partial /\ serving' = serving
                     \/ serving' = WrittenTo(n, p)
        /\ pc' = pc
    BY <1>b, <2>1 DEF UserDeletes, UserWrites, DiskBecomes, callVars, tcpVars
  <2> QED BY <1>0, <1>c, <2>2, SourceWholeAfter
<1>6. ASSUME NEW n \in Node, FaultStep(n) PROVE SourceWhole'
  <2>1. /\ UNCHANGED <<disk, serving>>
        /\ pc' = pc \/ \E t \in Thread : pc' = [pc EXCEPT ![n][t] = "stuck"]
    BY <1>6 DEF FaultStep, LoseDatagram, LoseReply, ConnectTooEarly, dirVars, callVars, tcpVars
  <2> QED BY <1>0, <1>1, <1>a, <2>1
<1>7. CASE UNCHANGED vars
  BY <1>1, <1>7 DEF vars, dirVars, callVars, tcpVars
<1> QED BY <1>2, <1>3, <1>4, <1>5, <1>6, <1>7 DEF Next

-----------------------------------------------------------------------------
\* One thread goes to v, the others stay, and no call of receiveFile ends.
LEMMA PartialKept ==
    ASSUME pc \in [Node -> [Thread -> Place]], PartialIsIncoming,
           UNCHANGED <<disk, incoming, dirLock>>,
           NEW n \in Node, NEW t \in Thread, NEW v,
           pc' = pc \/ pc' = [pc EXCEPT ![n][t] = v],
           pc[n][t] \in Receiving => v \in Receiving
    PROVE  PartialIsIncoming'
<1>1. \A m \in Node, u \in Thread : pc[m][u] \in Receiving => pc'[m][u] \in Receiving
  OBVIOUS
<1> QED BY <1>1 DEF PartialIsIncoming

(***************************************************************************)
(* A truncated file belongs to the receiver that holds dirLock.            *)
(***************************************************************************)
LEMMA PartialStep == LockInv /\ SourceWhole /\ PartialIsIncoming /\ [Next]_vars => PartialIsIncoming'
<1> SUFFICES ASSUME LockInv, SourceWhole, PartialIsIncoming, [Next]_vars PROVE PartialIsIncoming'
  OBVIOUS
<1>0. /\ pc \in [Node -> [Thread -> Place]] /\ disk \in [Node -> Table]
      /\ LockHeld /\ Places /\ Claims /\ TypeOK
  BY DEF LockInv, TypeOK
<1>i. /\ incoming \in [Node -> {Nothing} \cup Reception]
      /\ dirLock \in [Node -> Thread \cup {Free}]
  BY DEF LockInv, TypeOK
<1>a. "discoverer" \in Thread /\ "handler" \in Thread /\ "tableManager" \in Thread /\ Free \notin Thread
  BY DEF Thread, Free
<1>b. /\ "idle" \notin Receiving /\ "announce" \notin Receiving /\ "request" \notin Receiving
      /\ "open" \notin Receiving /\ "accept" \notin Receiving /\ "send" \notin Receiving
      /\ "sent" \notin Receiving /\ "compare" \notin Receiving /\ "negotiate" \notin Receiving
      /\ "connect" \in Receiving /\ "receive" \in Receiving /\ "stuck" \in Receiving
      /\ "negotiate" \in Negotiating /\ "receive" \in Negotiating
  BY DEF Receiving, Negotiating
<1>c. NoFile # Partial /\ Torn # Partial
  BY ContentAssumption, NoFileAssumption
\* While no thread of a node receives, its files are whole.
<1>d. \A m \in Node : (\A u \in Thread : dirLock[m] = u => pc[m][u] \notin Receiving)
                      => \A p \in Path : disk[m][p] # Partial
  BY DEF PartialIsIncoming
<1>1. ASSUME UNCHANGED <<disk, incoming, dirLock, pc>> PROVE PartialIsIncoming'
  BY <1>1 DEF PartialIsIncoming
<1>2. ASSUME NEW n \in Node, StartUp(n) PROVE PartialIsIncoming'
  <2>1. n \notin running => pc[n]["discoverer"] = "idle"
    BY <1>a DEF LockInv, Unstarted
  <2>2. /\ UNCHANGED <<disk, incoming, dirLock>> /\ pc[n]["discoverer"] \notin Receiving
        /\ \E v : pc' = [pc EXCEPT ![n]["discoverer"] = v]
    BY <1>2, <1>b, <2>1 DEF StartUp, Start, Announce, dirVars, tcpVars
  <2> QED BY <1>0, <1>a, <2>2, PartialKept
<1>3. ASSUME NEW n \in Node, HandlerStep(n) PROVE PartialIsIncoming'
  <2>1. /\ UNCHANGED <<disk, incoming, dirLock>> /\ pc[n]["handler"] \notin Receiving
        /\ \E v : pc' = pc \/ pc' = [pc EXCEPT ![n]["handler"] = v]
    BY <1>3, <1>b DEF HandlerStep, HandleResponse, HandleFileRequest, OpenAndListen, EndService,
            HandleDirChanges, Pops, dirVars, callVars, tcpVars
  <2> QED BY <1>0, <1>a, <2>1, PartialKept
<1>4. ASSUME NEW n \in Node, DiscovererStep(n) PROVE PartialIsIncoming'
  <2>1. /\ UNCHANGED <<disk, incoming, dirLock>> /\ pc[n]["discoverer"] \notin Receiving
        /\ \E v : pc' = pc \/ pc' = [pc EXCEPT ![n]["discoverer"] = v]
    BY <1>4, <1>b DEF DiscovererStep, CollectForHandler, CollectArrival, Considers,
                      dirVars, callVars, tcpVars
  <2> QED BY <1>0, <1>a, <2>1, PartialKept
<1>5. ASSUME NEW n \in Node, TakeTable(n) PROVE PartialIsIncoming'
  <2>1. /\ UNCHANGED <<disk, incoming, dirLock>> /\ pc[n]["tableManager"] \notin Receiving
        /\ \E v : pc' = pc \/ pc' = [pc EXCEPT ![n]["tableManager"] = v]
    BY <1>5, <1>b DEF TakeTable, Considers, dirVars, tcpVars
  <2> QED BY <1>0, <1>a, <2>1, PartialKept
<1>6. ASSUME NEW n \in Node, NEW t \in Thread, RequestStep(n, t) PROVE PartialIsIncoming'
  <2> DEFINE v == NextEntry(n, t)
  <2>1. CASE SkipChange(n, t)
    <3>1. /\ UNCHANGED <<disk, incoming, dirLock>> /\ pc[n][t] \notin Receiving
          /\ pc' = [pc EXCEPT ![n][t] = v]
      BY <2>1, <1>b DEF SkipChange, LocksFor, Advance, dirVars, tcpVars
    <3> HIDE DEF v
    <3> QED BY <1>0, <3>1, PartialKept
  <2>2. CASE ApplyDeletion(n, t)
    <3>1. /\ dirLock[n] = Free /\ UNCHANGED <<dirLock, incoming>> /\ pc[n][t] = "request"
          /\ pc' = [pc EXCEPT ![n][t] = v]
          /\ disk' = disk \/ disk' = [disk EXCEPT ![n][Entry(n, t).path] = NoFile]
      BY <2>2 DEF ApplyDeletion, LocksFor, Advance, DiskBecomes, dirVars, tcpVars
    <3> HIDE DEF v
    <3>2. \A p \in Path : disk'[n][p] # Partial
      <4>1. \A p \in Path : disk[n][p] # Partial
        BY <1>a, <1>d, <3>1
      <4> QED BY <1>0, <1>c, <3>1, <4>1 DEF Table
    <3>3. \A m \in Node : m # n => disk'[m] = disk[m]
      BY <1>0, <3>1
    <3>4. \A m \in Node, u \in Thread : m # n => pc'[m][u] = pc[m][u]
      BY <1>0, <3>1
    <3> QED BY <3>1, <3>2, <3>3, <3>4 DEF PartialIsIncoming
  <2>3. CASE RequestFile(n, t) \/ Abandoned(n, t)
    <3>1. /\ UNCHANGED <<disk, incoming>>
          /\ \E w : pc' = [pc EXCEPT ![n][t] = w]
          /\ \E w : dirLock' = [dirLock EXCEPT ![n] = w]
          /\ dirLock[n] = Free \/ pc[n][t] = "negotiate"
      BY <1>0, <2>3, RequestTakesLock DEF Abandoned, Advance, dirVars, tcpVars
    <3>2. \A p \in Path : disk[n][p] # Partial
      <4>1. \A u \in Thread : dirLock[n] = u => pc[n][u] \notin Receiving
        BY <1>0, <1>a, <1>b, <3>1 DEF LockHeld
      <4> QED BY <1>d, <4>1
    <3>3. \A m \in Node, u \in Thread : m # n => pc'[m][u] = pc[m][u] /\ dirLock'[m] = dirLock[m]
      BY <1>0, <1>i, <3>1
    <3> QED BY <3>1, <3>2, <3>3 DEF PartialIsIncoming
  <2>4. CASE OpenForWriting(n, t)
    <3> DEFINE r == [path |-> reply[n].path, from |-> reply[n].from]
    <3>1. /\ pc[n][t] = "negotiate" /\ UNCHANGED dirLock /\ reply[n] # Nothing
          /\ pc' = [pc EXCEPT ![n][t] = "connect"]
          /\ incoming' = [incoming EXCEPT ![n] = r]
          /\ disk' = [disk EXCEPT ![n][r.path] = Partial]
      BY <2>4 DEF OpenForWriting, DiskBecomes
    <3>2. r \in Reception
      BY <1>0, <3>1 DEF TypeOK, Reply, Reception
    <3> HIDE DEF r
    <3>3. dirLock[n] = t
      BY <1>0, <1>b, <3>1 DEF LockHeld
    <3>4. \A p \in Path : disk[n][p] # Partial
      BY <1>b, <1>d, <3>1, <3>3
    <3>5. \A p \in Path : disk'[n][p] = Partial => p = r.path
      BY <1>0, <3>1, <3>4 DEF Table
    <3>6. incoming'[n] = r /\ r # Nothing /\ pc'[n][t] = "connect" /\ dirLock'[n] = t
      BY <1>0, <1>i, <3>1, <3>2, <3>3, NothingAssumption
    <3>7. \A m \in Node : m # n =>
             /\ disk'[m] = disk[m] /\ incoming'[m] = incoming[m] /\ dirLock'[m] = dirLock[m]
             /\ \A u \in Thread : pc'[m][u] = pc[m][u]
      BY <1>0, <1>i, <3>1
    <3> QED BY <1>b, <3>5, <3>6, <3>7 DEF PartialIsIncoming
  <2>5. CASE Connect(n, t)
    <3> DEFINE s == incoming[n].from
    <3>1. /\ pc[n][t] = "connect" /\ pc[s]["handler"] = "accept"
          /\ UNCHANGED <<disk, incoming, dirLock>>
          /\ pc' = [[pc EXCEPT ![n][t] = "receive"] EXCEPT ![s]["handler"] = "send"]
      BY <2>5 DEF Connect, dirVars, tcpVars
    <3> HIDE DEF s
    <3>2. \A m \in Node, u \in Thread : pc[m][u] \in Receiving => pc'[m][u] \in Receiving
      BY <1>0, <1>b, <3>1
    <3> QED BY <3>1, <3>2 DEF PartialIsIncoming
  <2>6. CASE Transfer(n, t)
    <3> DEFINE s == incoming[n].from
    <3>c. PICK c \in Copies(s) : DiskBecomes(n, incoming[n].path, c)
      BY <2>6 DEF Transfer
    <3>1. pc[n][t] = "receive" /\ pc[s]["handler"] = "send"
      BY <1>0, <2>6 DEF Transfer, Claims, ServerOf, Serves
    <3>2. /\ disk' = [disk EXCEPT ![n][incoming[n].path] = c]
          /\ incoming' = [incoming EXCEPT ![n] = Nothing]
          /\ dirLock' = [dirLock EXCEPT ![n] = Free]
          /\ pc' = [[pc EXCEPT ![s]["handler"] = "sent"] EXCEPT ![n][t] = v]
      BY <2>6, <3>c DEF Transfer, DiskBecomes, Advance
    <3>3. c # Partial
      <4>1. s \in Node
        BY <1>0, <1>i, <3>1 DEF Places, PlaceOf, Receiving, Negotiating, Reception
      <4> HIDE DEF s
      <4> QED BY <3>1, <3>c, <4>1, SourceIsWhole
    <3> HIDE DEF s, v
    <3>4. \A p \in Path : disk[n][p] = Partial => p = incoming[n].path
      BY DEF PartialIsIncoming
    <3>5. \A p \in Path : disk'[n][p] # Partial
      BY <1>0, <3>2, <3>3, <3>4 DEF Table
    <3>6. \A m \in Node : m # n =>
             disk'[m] = disk[m] /\ incoming'[m] = incoming[m] /\ dirLock'[m] = dirLock[m]
      BY <1>0, <1>i, <3>2
    <3>7. \A m \in Node, u \in Thread :
             m # n /\ pc[m][u] \in Receiving => pc'[m][u] = pc[m][u]
      BY <1>0, <1>b, <3>1, <3>2
    <3> QED BY <3>5, <3>6, <3>7 DEF PartialIsIncoming
  <2>7. CASE CompareTables(n, t) \/ LosesEnd(n, t)
    <3>1. /\ UNCHANGED <<disk, incoming, dirLock>>
          /\ \E w : /\ pc' = [pc EXCEPT ![n][t] = w]
                    /\ pc[n][t] = "compare" \/ w = "stuck"
      BY <2>7 DEF CompareTables, LosesEnd, dirVars, tcpVars
    <3>2. PICK w : pc' = [pc EXCEPT ![n][t] = w] /\ (pc[n][t] = "compare" \/ w = "stuck")
      BY <3>1
    <3>3. pc[n][t] \in Receiving => w \in Receiving
      BY <1>b, <3>2
    <3>4. pc' = pc \/ pc' = [pc EXCEPT ![n][t] = w]
      BY <3>2
    <3> QED BY <1>0, <3>1, <3>3, <3>4, PartialKept
  <2> QED BY <1>6, <2>1, <2>2, <2>3, <2>4, <2>5, <2>6, <2>7 DEF RequestStep
<1>7. ASSUME NEW n \in Node, UserStep(n) PROVE PartialIsIncoming'
  <2>1. PICK p \in Path, c \in UserContent \cup {NoFile} :
           /\ disk[n][p] # Partial /\ c # Partial
           /\ disk' = [disk EXCEPT ![n][p] = c] /\ UNCHANGED <<incoming, dirLock, pc>>
    BY <1>7, <1>c DEF UserStep, UserWrites, UserDeletes, UserContent, DiskBecomes, callVars, tcpVars
  <2>2. \A m \in Node, q \in Path : disk'[m][q] = Partial => disk[m][q] = Partial
    BY <1>0, <2>1 DEF Table
  <2> QED BY <2>1, <2>2 DEF PartialIsIncoming
<1>8. ASSUME NEW n \in Node, FaultStep(n) PROVE PartialIsIncoming'
  <2>1. CASE LoseDatagram(n) \/ LoseReply(n)
    BY <1>1, <2>1 DEF LoseDatagram, LoseReply, dirVars, callVars, tcpVars
  <2>2. ASSUME NEW t \in Thread, ConnectTooEarly(n, t) PROVE PartialIsIncoming'
    <3>1. /\ UNCHANGED <<disk, incoming, dirLock>>
          /\ pc' = [pc EXCEPT ![n][t] = "stuck"]
      BY <2>2 DEF ConnectTooEarly, dirVars, tcpVars
    <3> QED BY <1>0, <1>b, <3>1, PartialKept
  <2> QED BY <1>8, <2>1, <2>2 DEF FaultStep
<1>9. ASSUME NEW n \in Node, StartWatching(n) \/ Scan(n) \/ PublishChanges(n)
      PROVE  PartialIsIncoming'
  BY <1>1, <1>9 DEF StartWatching, Scan, PublishChanges, dirVars, callVars, tcpVars
<1>10. CASE UNCHANGED vars
  BY <1>1, <1>10 DEF vars, dirVars, callVars, tcpVars
<1> QED BY <1>2, <1>3, <1>4, <1>5, <1>6, <1>7, <1>8, <1>9, <1>10 DEF Next

-----------------------------------------------------------------------------
LEMMA LockInvariant == Spec => []LockInv
<1>1. Init => LockInv
  BY TypeInit, LockInit DEF LockInv
<1>2. LockInv /\ [Next]_vars => LockInv'
  BY TypeStep, UnstartedStep, LockHeldStep, PlacesStep, ClaimsStep DEF LockInv
<1> QED BY <1>1, <1>2, PTL DEF Spec

LEMMA SourceWholeInvariant == Spec => []SourceWhole
<1>1. Init => SourceWhole
  BY DEF Init, SourceWhole, Sends, Thread
<1>2. LockInv /\ SourceWhole /\ [Next]_vars => SourceWhole'
  BY SourceWholeStep
<1> QED BY <1>1, <1>2, LockInvariant, PTL DEF Spec

(***************************************************************************)
(* No handler of Node.cpp or DirectoryMonitor.cpp leaves a variable with a *)
(* value it cannot have: every pop finds a datagram of its kind, every     *)
(* transfer finds a server that has a file to send.                        *)
(***************************************************************************)
THEOREM TypeCorrect == Spec => []TypeOK
<1>1. LockInv => TypeOK
  BY DEF LockInv
<1> QED BY <1>1, LockInvariant, PTL

(***************************************************************************)
(* negotiateTCPTransfer is run by one thread of a node at a time, the one  *)
(* that holds dirLock, and a file that receiveFile has truncated is the    *)
(* one that this thread is receiving.                                      *)
(***************************************************************************)
THEOREM LockDisciplineHolds == Spec => []LockDiscipline
<1>1. Init => PartialIsIncoming
  <2>1. Partial \notin UserContent \cup {NoFile}
    BY ContentAssumption, NoFileAssumption DEF UserContent
  <2> QED BY <2>1 DEF Init, PartialIsIncoming
<1>2. LockInv /\ SourceWhole /\ PartialIsIncoming /\ [Next]_vars => PartialIsIncoming'
  BY PartialStep
<1>3. LockInv /\ PartialIsIncoming => LockDiscipline
  BY DEF LockInv, LockDiscipline
<1> QED BY <1>1, <1>2, <1>3, LockInvariant, SourceWholeInvariant, PTL DEF Spec

=============================================================================
