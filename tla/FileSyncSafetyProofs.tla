------------------------ MODULE FileSyncSafetyProofs ------------------------
(* Theorems about FileSync that rest on the discipline of dirLock: what    *)
(* the watcher and the handler know, and which files stay open.            *)
EXTENDS FileSyncProofs

-----------------------------------------------------------------------------
Up == Established \subseteq running /\ Established \subseteq watching

\* What ListingAccountedFor depends on, when a step leaves it alone.
LEMMA ListingKept ==
    ASSUME Up, ListingAccountedFor, UNCHANGED <<fileHashes, changeBuf, snapshot>>,
           running \subseteq running', watching \subseteq watching'
    PROVE  Up' /\ ListingAccountedFor'
BY DEF Up, ListingAccountedFor

LEMMA ListingStep ==
    LockInv /\ Up /\ ListingAccountedFor /\ [Next]_vars => Up' /\ ListingAccountedFor'
<1> SUFFICES ASSUME LockInv, Up, ListingAccountedFor, [Next]_vars
             PROVE  Up' /\ ListingAccountedFor'
  OBVIOUS
<1>0. /\ snapshot \in [Node -> Table] /\ fileHashes \in [Node -> Table]
      /\ changeBuf \in [Node -> Seq(Change)] /\ disk \in [Node -> Table]
  BY DEF LockInv, TypeOK
<1>a. \A m \in Established : m \in Node /\ m \in running /\ m \in watching
  BY NodeAssumption DEF Up
<1>1. ASSUME UNCHANGED <<nodeVars, tableVars>> PROVE Up' /\ ListingAccountedFor'
  BY <1>1, ListingKept DEF nodeVars, tableVars
<1>2. ASSUME NEW n \in Node, StartUp(n) PROVE Up' /\ ListingAccountedFor'
  <2>1. CASE Start(n)
    <3>1. n \notin Established /\ \A m \in Established : fileHashes'[m] = fileHashes[m]
      BY <1>0, <1>a, <2>1 DEF Start
    <3> QED BY <2>1, <3>1 DEF Start, Up, ListingAccountedFor
  <2>2. CASE Announce(n)
    BY <1>1, <2>2 DEF Announce
  <2> QED BY <1>2, <2>1, <2>2 DEF StartUp
<1>3. ASSUME NEW n \in Node, StartWatching(n) PROVE Up' /\ ListingAccountedFor'
  <2>1. n \notin Established /\ \A m \in Established : snapshot'[m] = snapshot[m]
    BY <1>0, <1>a, <1>3 DEF StartWatching
  <2> QED BY <1>3, <2>1 DEF StartWatching, Up, ListingAccountedFor
<1>4. ASSUME NEW n \in Node, Scan(n) PROVE Up' /\ ListingAccountedFor'
  <2>1. PICK list \in DirectoryChanges(snapshot[n], disk[n]) :
           changeBuf' = [changeBuf EXCEPT ![n] = @ \o list]
    BY <1>4 DEF Scan
  <2>2. snapshot' = [snapshot EXCEPT ![n] = disk[n]] /\ UNCHANGED <<fileHashes, running, watching>>
    BY <1>4 DEF Scan, nodeVars
  <2>3. Learn(fileHashes[n], changeBuf[n]) = snapshot[n]
        => Learn(fileHashes[n], changeBuf[n] \o list) = disk[n]
    BY <1>0, LearnScan
  <2>4. /\ changeBuf'[n] = changeBuf[n] \o list /\ snapshot'[n] = disk[n]
        /\ \A m \in Node : m # n => changeBuf'[m] = changeBuf[m] /\ snapshot'[m] = snapshot[m]
    BY <1>0, <2>1, <2>2
  <2>5. ASSUME NEW m \in Established
        PROVE  Learn(fileHashes'[m], changeBuf'[m]) = snapshot'[m]
    <3>1. m \in Node /\ Learn(fileHashes[m], changeBuf[m]) = snapshot[m]
      BY <1>a DEF ListingAccountedFor
    <3> QED BY <2>2, <2>3, <2>4, <3>1
  <2> QED BY <2>2, <2>5 DEF Up, ListingAccountedFor
<1>5. ASSUME NEW n \in Node, PublishChanges(n) PROVE Up' /\ ListingAccountedFor'
  <2> DEFINE learnt == Learn(fileHashes[n], changeBuf[n])
  <2>1. /\ fileHashes' = [fileHashes EXCEPT ![n] = learnt]
        /\ changeBuf' = [changeBuf EXCEPT ![n] = << >>]
        /\ UNCHANGED <<snapshot, running, watching>>
    BY <1>5 DEF PublishChanges, nodeVars
  <2>2. Learn(learnt, << >>) = learnt
    BY <1>0, LearnType, LearnNothing
  <2>3. /\ fileHashes'[n] = learnt /\ changeBuf'[n] = << >>
        /\ \A m \in Node : m # n => fileHashes'[m] = fileHashes[m] /\ changeBuf'[m] = changeBuf[m]
    BY <1>0, <2>1
  <2>4. ASSUME NEW m \in Established
        PROVE  Learn(fileHashes'[m], changeBuf'[m]) = snapshot'[m]
    <3>1. m \in Node /\ Learn(fileHashes[m], changeBuf[m]) = snapshot[m]
      BY <1>a DEF ListingAccountedFor
    <3>2. CASE m = n
      BY <2>1, <2>2, <2>3, <3>1, <3>2
    <3>3. CASE m # n
      BY <2>1, <2>3, <3>1, <3>3
    <3> QED BY <3>2, <3>3
  <2> QED BY <2>1, <2>4 DEF Up, ListingAccountedFor
<1>6. ASSUME NEW n \in Node, DiscovererStep(n) \/ HandlerStep(n) \/ TakeTable(n)
      PROVE  Up' /\ ListingAccountedFor'
  BY <1>1, <1>6 DEF DiscovererStep, CollectForHandler, CollectArrival, HandlerStep, HandleResponse,
                    HandleFileRequest, OpenAndListen, EndService, HandleDirChanges, TakeTable
<1>7. ASSUME NEW n \in Node, NEW t \in Thread, RequestStep(n, t)
      PROVE  Up' /\ ListingAccountedFor'
  BY <1>1, <1>7 DEF RequestStep, SkipChange, ApplyDeletion, RequestFile, Abandoned,
                    OpenForWriting, Connect, CompareTables, Transfer, LosesEnd
<1>8. ASSUME NEW n \in Node, UserStep(n) \/ FaultStep(n) PROVE Up' /\ ListingAccountedFor'
  BY <1>1, <1>8 DEF UserStep, UserWrites, UserDeletes, FaultStep, LoseDatagram, LoseReply,
                    ConnectTooEarly
<1>9. CASE UNCHANGED vars
  BY <1>1, <1>9 DEF vars
<1> QED BY <1>2, <1>3, <1>4, <1>5, <1>6, <1>7, <1>8, <1>9 DEF Next

(***************************************************************************)
(* getDirectoryChanges, run by the watcher, and the update loop at the     *)
(* head of handleUdp fit together: on a node that was up when the changes  *)
(* began, fileHashes and the buffered changes always add up to the last    *)
(* listing of the watcher, in whatever order the two threads run.          *)
(***************************************************************************)
THEOREM ListingIsAccountedFor == Spec => []ListingAccountedFor
<1>1. Init => Up /\ ListingAccountedFor
  <2> SUFFICES ASSUME Init PROVE Up /\ ListingAccountedFor
    OBVIOUS
  <2>1. Up
    BY DEF Init, Up
  <2>2. disk \in [Node -> Table]
    BY TypeInit DEF TypeOK
  <2>3. ASSUME NEW n \in Established PROVE Learn(fileHashes[n], changeBuf[n]) = snapshot[n]
    <3>1. n \in Node /\ changeBuf[n] = << >> /\ fileHashes[n] = disk[n] /\ snapshot[n] = disk[n]
      BY NodeAssumption DEF Init
    <3> QED BY <2>2, <3>1, LearnNothing
  <2> QED BY <2>1, <2>3 DEF ListingAccountedFor
<1>2. LockInv /\ Up /\ ListingAccountedFor /\ [Next]_vars => Up' /\ ListingAccountedFor'
  BY ListingStep
<1> QED BY <1>1, <1>2, LockInvariant, PTL DEF Spec

-----------------------------------------------------------------------------
(***************************************************************************)
(* The lists that come of a foreign table hold no deletions: only a list   *)
(* of changes, on the handler thread, deletes files.                       *)
(***************************************************************************)
WrittenChange == {c \in Change : c.kind # "Deletion"}

NoDeletions ==
    \A n \in Node, t \in Thread \ {"handler"} : job[n][t].list \in Seq(WrittenChange)

LEMMA RequestsDeleteNothing ==
    ASSUME NEW host \in Table, NEW foreign \in Table, NEW ignoreEdits \in BOOLEAN,
           NEW list \in RequestLists(host, foreign, ignoreEdits)
    PROVE  list \in Seq(WrittenChange)
<1>1. list \in Seq(Change) /\ \A i \in 1..Len(list) : list[i].kind # "Deletion"
  BY RequestListsList
<1>2. \A i \in 1..Len(list) : list[i] \in Change
  BY <1>1, ElementOfSeq
<1>3. \A i \in 1..Len(list) : list[i] \in WrittenChange
  BY <1>1, <1>2 DEF WrittenChange
<1>4. Len(list) \in Nat /\ list = [i \in 1..Len(list) |-> list[i]]
  BY <1>1
<1> QED BY <1>3, <1>4

LEMMA NoDeletionsStep == LockInv /\ NoDeletions /\ [Next]_vars => NoDeletions'
<1> SUFFICES ASSUME LockInv, NoDeletions, [Next]_vars PROVE NoDeletions'
  OBVIOUS
<1>0. /\ job \in [Node -> [Thread -> Job]]
      /\ fileHashes \in [Node -> Table]
      /\ TypeOK /\ Places
  BY DEF LockInv, TypeOK
<1>a. "discoverer" \in Thread /\ "handler" \in Thread /\ "tableManager" \in Thread
  BY DEF Thread
<1>1. ASSUME UNCHANGED job PROVE NoDeletions'
  BY <1>1 DEF NoDeletions
<1>2. ASSUME NEW n \in Node, NEW t \in Thread, NEW j, job' = [job EXCEPT ![n][t] = j],
             t = "handler" \/ j.list \in Seq(WrittenChange)
      PROVE  NoDeletions'
  BY <1>0, <1>2 DEF NoDeletions
<1>3. ASSUME NEW n \in Node, HandleDirChanges(n) PROVE NoDeletions'
  <2>1. PICK j : job' = [job EXCEPT ![n]["handler"] = j]
    BY <1>3 DEF HandleDirChanges
  <2> QED BY <1>2, <1>a, <2>1
<1>4. ASSUME NEW n \in Node, NEW t \in Thread, NEW msg, Considers(n, t, msg) PROVE NoDeletions'
  <2> DEFINE j == [from |-> msg.from, table |-> msg.table, list |-> << >>]
  <2>1. job' = [job EXCEPT ![n][t] = j]
    BY <1>4 DEF Considers
  <2>2. j.list \in Seq(WrittenChange)
    OBVIOUS
  <2> HIDE DEF j
  <2> QED BY <1>2, <2>1, <2>2
<1>5. ASSUME NEW n \in Node, CollectArrival(n) \/ TakeTable(n) PROVE NoDeletions'
  BY <1>4, <1>5, <1>a DEF CollectArrival, TakeTable
<1>6. ASSUME NEW n \in Node, NEW t \in Thread, RequestStep(n, t) PROVE NoDeletions'
  <2>1. CASE RequestFile(n, t) \/ OpenForWriting(n, t) \/ Connect(n, t) \/ LosesEnd(n, t)
    <3>1. UNCHANGED job
      BY <1>0, <2>1, RequestTakesLock DEF OpenForWriting, Connect, LosesEnd, LockInv
    <3> QED BY <1>1, <3>1
  <2>2. CASE SkipChange(n, t) \/ ApplyDeletion(n, t) \/ Abandoned(n, t) \/ Transfer(n, t)
    <3>1. /\ pc[n][t] = "request" \/ pc[n][t] \in Negotiating
          /\ job' = [job EXCEPT ![n][t].list = Tail(@)]
      BY <2>2 DEF SkipChange, ApplyDeletion, Abandoned, Transfer, LocksFor, Advance, Negotiating
    <3>2. job[n][t].list \in Seq(Change) /\ job[n][t].list # << >>
      BY <1>0, <3>1, EntryType
    <3>3. t # "handler" => Tail(job[n][t].list) \in Seq(WrittenChange)
      BY <3>2 DEF NoDeletions
    <3>4. job'[n][t].list = Tail(job[n][t].list)
      BY <1>0, <3>1
    <3>5. \A m \in Node, u \in Thread : ~(m = n /\ u = t) => job'[m][u] = job[m][u]
      BY <1>0, <3>1
    <3>6. ASSUME NEW m \in Node, NEW u \in Thread, u # "handler"
          PROVE  job'[m][u].list \in Seq(WrittenChange)
      <4>1. job[m][u].list \in Seq(WrittenChange)
        BY <3>6 DEF NoDeletions
      <4>2. CASE m = n /\ u = t
        BY <3>3, <3>4, <3>6, <4>2
      <4>3. CASE ~(m = n /\ u = t)
        BY <3>5, <4>1, <4>3
      <4> QED BY <4>2, <4>3
    <3> QED BY <3>6 DEF NoDeletions
  <2>3. CASE CompareTables(n, t)
    <3>1. PICK list \in RequestLists(fileHashes[n], job[n][t].table, t = "discoverer") :
             job' = [job EXCEPT ![n][t] = [job[n][t] EXCEPT !.table = Nothing, !.list = list]]
      BY <2>3 DEF CompareTables
    <3>2. job[n][t].table \in Table
      BY <1>0, <2>3 DEF Job, CompareTables, Places, PlaceOf
    <3>3. list \in Seq(WrittenChange)
      BY <1>0, <3>1, <3>2, RequestsDeleteNothing
    <3> DEFINE j == [job[n][t] EXCEPT !.table = Nothing, !.list = list]
    <3>4. j.list = list
      BY <1>0 DEF Job
    <3>5. job' = [job EXCEPT ![n][t] = j]
      BY <3>1
    <3> HIDE DEF j
    <3> QED BY <1>2, <3>3, <3>4, <3>5
  <2> QED BY <1>6, <2>1, <2>2, <2>3 DEF RequestStep
<1>7. ASSUME NEW n \in Node,
             \/ StartUp(n) \/ StartWatching(n) \/ Scan(n) \/ PublishChanges(n)
             \/ CollectForHandler(n) \/ HandleResponse(n) \/ HandleFileRequest(n)
             \/ OpenAndListen(n) \/ EndService(n) \/ UserStep(n) \/ FaultStep(n)
      PROVE  NoDeletions'
  BY <1>1, <1>7 DEF StartUp, Start, Announce, StartWatching, Scan, PublishChanges,
         CollectForHandler, HandleResponse, HandleFileRequest, OpenAndListen, EndService,
         UserStep, UserWrites, UserDeletes, FaultStep, LoseDatagram, LoseReply,
         ConnectTooEarly, callVars
<1>8. CASE UNCHANGED vars
  BY <1>1, <1>8 DEF vars, callVars
<1> QED BY <1>3, <1>4, <1>5, <1>6, <1>7, <1>8 DEF Next, DiscovererStep, HandlerStep

\* A file that is written to, or measured, stays open.
LEMMA WrittenStaysOpen ==
    ASSUME serving \in [Node -> {Nothing} \cup Service], NEW n \in Node, NEW p,
           serving' = serving \/ serving' = WrittenTo(n, p)
    PROVE  \A m \in Node, q \in Path : OpenAt(m, q)' <=> OpenAt(m, q)
<1>1. CASE serving' = serving
  BY <1>1 DEF OpenAt
<1>2. CASE serving' # serving
  <2> DEFINE now == [serving[n] EXCEPT !.file = "changed"]
  <2>1. OpenAt(n, p) /\ serving' = [serving EXCEPT ![n] = now]
    BY <1>2 DEF WrittenTo
  <2>2. serving[n] \in Service /\ serving[n] # Nothing /\ serving[n].file # "closed"
    BY <2>1 DEF OpenAt
  <2>3. /\ now \in Service /\ now.path = serving[n].path /\ now.file # "closed"
    BY <2>2 DEF Service, FileState
  <2>4. now # Nothing
    BY <2>3, NothingAssumption
  <2> HIDE DEF now
  <2> QED BY <2>1, <2>2, <2>3, <2>4 DEF OpenAt
<1> QED BY <1>1, <1>2

LEMMA MeasuredStaysOpen ==
    ASSUME serving \in [Node -> {Nothing} \cup Service], NEW s \in Node, serving[s] # Nothing,
           serving' = Measured(s)
    PROVE  \A m \in Node, q \in Path : OpenAt(m, q)' <=> OpenAt(m, q)
<1>1. CASE serving' = serving
  BY <1>1 DEF OpenAt
<1>2. CASE serving' # serving
  <2> DEFINE now == [serving[s] EXCEPT !.file = "growing"]
  <2>1. serving[s].file = "open" /\ serving' = [serving EXCEPT ![s] = now]
    BY <1>2 DEF Measured
  <2>2. /\ now \in Service /\ now.path = serving[s].path /\ now.file # "closed"
    BY DEF Service, FileState
  <2>3. now # Nothing
    BY <2>2, NothingAssumption
  <2> HIDE DEF now
  <2> QED BY <2>1, <2>2, <2>3 DEF OpenAt
<1> QED BY <1>1, <1>2

\* Neither what is open nor whether a file is there changes at other places.
LEMMA OpenKept ==
    ASSUME disk \in [Node -> Table], OpenFilesStay,
           \A m \in Node, q \in Path : OpenAt(m, q)' <=> OpenAt(m, q),
           NEW n \in Node, NEW p \in Path, NEW c,
           disk' = [disk EXCEPT ![n][p] = c], c = NoFile => ~OpenAt(n, p)
    PROVE  OpenFilesStay'
<1>2. \A m \in Node, q \in Path : ~(m = n /\ q = p) => disk'[m][q] = disk[m][q]
  BY DEF Table
<1>3. disk'[n][p] = c
  BY DEF Table
<1> QED BY <1>2, <1>3 DEF OpenFilesStay

LEMMA OpenStep == LockInv /\ NoDeletions /\ OpenFilesStay /\ [Next]_vars => OpenFilesStay'
<1> SUFFICES ASSUME LockInv, NoDeletions, OpenFilesStay, [Next]_vars PROVE OpenFilesStay'
  OBVIOUS
<1>0. disk \in [Node -> Table] /\ TypeOK /\ Places /\ Claims
  BY DEF LockInv, TypeOK
<1>k. serving \in [Node -> {Nothing} \cup Service]
  BY DEF LockInv, TypeOK
<1>a. "handler" \in Thread
  BY DEF Thread
<1>b. NoFile # Partial /\ NoFile # Torn
  BY ContentAssumption, NoFileAssumption
<1>1. ASSUME UNCHANGED <<disk, serving>> PROVE OpenFilesStay'
  BY <1>1 DEF OpenFilesStay, OpenAt
<1>2. ASSUME NEW n \in Node, HandleFileRequest(n) PROVE OpenFilesStay'
  <2>1. UNCHANGED disk
    BY <1>2 DEF HandleFileRequest, dirVars
  <2>2. \A m \in Node, q \in Path : OpenAt(m, q)' => OpenAt(m, q)
    <3>1. \/ serving' = serving
          \/ \E c, p : serving' = [serving EXCEPT ![n] = [client |-> c, path |-> p, file |-> "closed"]]
      BY <1>2 DEF HandleFileRequest
    <3> QED BY <1>k, <3>1 DEF OpenAt
  <2> QED BY <2>1, <2>2 DEF OpenFilesStay
<1>3. ASSUME NEW n \in Node, OpenAndListen(n) PROVE OpenFilesStay'
  <2> DEFINE opened == IF disk[n][serving[n].path] = NoFile THEN "closed" ELSE "open"
  <2>1. serving[n] \in Service
    BY <1>0, <1>a, <1>k, <1>3 DEF OpenAndListen, Places, InCase5
  <2>2. UNCHANGED disk /\ serving' = [serving EXCEPT ![n] = [serving[n] EXCEPT !.file = opened]]
    BY <1>3 DEF OpenAndListen, dirVars
  <2>3. /\ serving'[n].file = opened /\ serving'[n].path = serving[n].path
        /\ \A m \in Node : m # n => serving'[m] = serving[m]
    <3> HIDE DEF opened
    <3> QED BY <1>k, <2>1, <2>2 DEF Service
  <2>4. ASSUME NEW m \in Node, NEW p \in Path, OpenAt(m, p)' PROVE disk'[m][p] # NoFile
    <3>1. CASE m = n
      <4>1. serving'[n].path = p /\ serving'[n].file # "closed"
        BY <2>4, <3>1 DEF OpenAt
      <4> QED BY <2>2, <2>3, <3>1, <4>1
    <3>2. CASE m # n
      <4>1. OpenAt(m, p)
        BY <2>3, <2>4, <3>2 DEF OpenAt
      <4> QED BY <2>2, <4>1 DEF OpenFilesStay
    <3> QED BY <3>1, <3>2
  <2> QED BY <2>4 DEF OpenFilesStay
<1>4. ASSUME NEW n \in Node, EndService(n) PROVE OpenFilesStay'
  <2>1. UNCHANGED disk /\ serving' = [serving EXCEPT ![n] = Nothing]
    BY <1>4 DEF EndService, dirVars
  <2>2. serving'[n] = Nothing /\ \A m \in Node : m # n => serving'[m] = serving[m]
    BY <1>k, <2>1
  <2> QED BY <2>1, <2>2 DEF OpenFilesStay, OpenAt
<1>5. ASSUME NEW n \in Node, NEW t \in Thread, RequestStep(n, t) PROVE OpenFilesStay'
  <2>1. CASE SkipChange(n, t) \/ RequestFile(n, t) \/ Abandoned(n, t) \/ CompareTables(n, t)
             \/ LosesEnd(n, t)
    BY <1>1, <2>1 DEF SkipChange, RequestFile, Abandoned, CompareTables, LosesEnd, dirVars, tcpVars
  <2>2. CASE ApplyDeletion(n, t)
    <3>1. /\ pc[n][t] = "request" /\ Entry(n, t).kind = "Deletion" /\ UNCHANGED serving
          /\ disk' = disk \/ disk' = [disk EXCEPT ![n][Entry(n, t).path] = NoFile]
      BY <2>2 DEF ApplyDeletion, LocksFor, DiskBecomes, dirVars, tcpVars
    <3>2. Entry(n, t) \in Change /\ job[n][t].list \in Seq(Change) /\ job[n][t].list # << >>
      BY <1>0, <3>1, EntryType
    <3>3. t = "handler"
      <4>1. t # "handler" => Entry(n, t) \in WrittenChange
        BY <3>2 DEF NoDeletions, Entry
      <4> QED BY <3>1, <4>1 DEF WrittenChange
    <3>4. serving[n] = Nothing
      BY <1>0, <1>a, <3>1, <3>3 DEF Places, InCase5
    <3>5. Entry(n, t).path \in Path /\ ~OpenAt(n, Entry(n, t).path)
      BY <3>2, <3>4 DEF Change, OpenAt
    <3>6. \A m \in Node, q \in Path : OpenAt(m, q)' <=> OpenAt(m, q)
      BY <3>1 DEF OpenAt
    <3> QED BY <1>0, <1>1, <3>1, <3>5, <3>6, OpenKept
  <2>3. CASE OpenForWriting(n, t)
    <3>1. /\ reply[n].path \in Path /\ serving' = WrittenTo(n, reply[n].path)
          /\ disk' = [disk EXCEPT ![n][reply[n].path] = Partial]
      BY <1>0, <2>3 DEF OpenForWriting, DiskBecomes, TypeOK, Reply
    <3>2. \A m \in Node, q \in Path : OpenAt(m, q)' <=> OpenAt(m, q)
      BY <1>k, <3>1, WrittenStaysOpen
    <3> QED BY <1>0, <1>b, <3>1, <3>2, OpenKept
  <2>4. CASE Transfer(n, t)
    <3> DEFINE s == incoming[n].from
               source == disk[s][serving[s].path]
    <3>c. PICK c \in Copies(s) : disk' = [disk EXCEPT ![n][incoming[n].path] = c]
      BY <2>4 DEF Transfer, DiskBecomes
    <3>1. pc[n][t] = "receive" /\ serving[s].file # "closed" /\ UNCHANGED serving
      BY <2>4 DEF Transfer
    <3>2. incoming[n] \in Reception /\ s \in Node /\ incoming[n].path \in Path
      BY <1>0, <3>1 DEF TypeOK, Places, PlaceOf, Receiving, Negotiating, Reception
    <3>3. serving[s] # Nothing /\ serving[s].path \in Path
      <4>1. pc[s]["handler"] = "send"
        BY <1>0, <3>1 DEF Claims, ServerOf, Serves
      <4>2. serving[s] # Nothing
        BY <1>0, <3>2, <4>1 DEF Places, InCase5
      <4> QED BY <1>k, <3>2, <4>2 DEF Service
    <3>4. source # NoFile
      BY <3>1, <3>2, <3>3 DEF OpenFilesStay, OpenAt
    <3>5. c # NoFile
      BY <1>b, <3>4 DEF Copies
    <3>6. \A m \in Node, q \in Path : OpenAt(m, q)' <=> OpenAt(m, q)
      BY <3>1 DEF OpenAt
    <3>7. PICK p \in Path : p = incoming[n].path
      BY <3>2
    <3>8. disk' = [disk EXCEPT ![n][p] = c] /\ (c = NoFile => ~OpenAt(n, p))
      BY <3>c, <3>5, <3>7
    <3> HIDE DEF s, source
    <3> QED BY <1>0, <3>6, <3>8, OpenKept
  <2>5. CASE Connect(n, t)
    <3>1. pc[n][t] = "connect" /\ pc[incoming[n].from]["handler"] = "accept" /\ UNCHANGED disk
      BY <2>5 DEF Connect, dirVars
    <3>2. incoming[n].from \in Node /\ serving[incoming[n].from] # Nothing
      BY <1>0, <3>1 DEF TypeOK, Places, PlaceOf, InCase5, Receiving, Negotiating, Reception
    <3>3. \A m \in Node, q \in Path : OpenAt(m, q)' <=> OpenAt(m, q)
      BY <1>k, <2>5, <3>2, MeasuredStaysOpen DEF Connect
    <3> QED BY <3>1, <3>3 DEF OpenFilesStay
  <2> QED BY <1>5, <2>1, <2>2, <2>3, <2>4, <2>5 DEF RequestStep
<1>6. ASSUME NEW n \in Node, UserStep(n) PROVE OpenFilesStay'
  <2>1. PICK p \in Path, c \in UserContent \cup {NoFile} :
           /\ disk' = [disk EXCEPT ![n][p] = c]
           /\ serving' = serving \/ serving' = WrittenTo(n, p)
           /\ c = NoFile => ~OpenAt(n, p)
    <3>1. \A c \in UserContent : c # NoFile
      BY NoFileAssumption DEF UserContent
    <3> QED BY <1>6, <3>1 DEF UserStep, UserWrites, UserDeletes, DiskBecomes, tcpVars
  <2>2. \A m \in Node, q \in Path : OpenAt(m, q)' <=> OpenAt(m, q)
    BY <1>k, <2>1, WrittenStaysOpen
  <2> QED BY <1>0, <2>1, <2>2, OpenKept
<1>7. ASSUME NEW n \in Node,
             \/ StartUp(n) \/ StartWatching(n) \/ Scan(n) \/ PublishChanges(n)
             \/ DiscovererStep(n) \/ TakeTable(n) \/ HandleResponse(n)
             \/ HandleDirChanges(n) \/ FaultStep(n)
      PROVE  OpenFilesStay'
  BY <1>1, <1>7 DEF StartUp, Start, Announce, StartWatching, Scan, PublishChanges,
         DiscovererStep, CollectForHandler, CollectArrival, TakeTable, HandleResponse,
         HandleDirChanges, FaultStep, LoseDatagram, LoseReply, ConnectTooEarly, dirVars, tcpVars
<1>8. CASE UNCHANGED vars
  BY <1>1, <1>8 DEF vars, dirVars, tcpVars
<1> QED BY <1>2, <1>3, <1>4, <1>5, <1>6, <1>7, <1>8 DEF Next, HandlerStep

(***************************************************************************)
(* fs::remove in requestFiles never meets a file that sendFile of the same *)
(* node has open, and a transfer never finds the file of its server gone.  *)
(***************************************************************************)
THEOREM OpenFilesDoStay == Spec => []OpenFilesStay
<1>1. Init => NoDeletions /\ OpenFilesStay
  <2>1. << >> \in Seq(WrittenChange)
    OBVIOUS
  <2>2. Init => \A n \in Node, t \in Thread : job[n][t].list = << >>
    BY DEF Init
  <2>3. Init => \A n \in Node : serving[n] = Nothing
    BY DEF Init
  <2> QED BY <2>1, <2>2, <2>3 DEF NoDeletions, OpenFilesStay, OpenAt
<1>2. LockInv /\ NoDeletions /\ OpenFilesStay /\ [Next]_vars => NoDeletions' /\ OpenFilesStay'
  BY NoDeletionsStep, OpenStep
<1> QED BY <1>1, <1>2, LockInvariant, PTL DEF Spec

-----------------------------------------------------------------------------
(***************************************************************************)
(* OnlyWholeFilesAnnounced, said of the sets the sequences are over.       *)
(***************************************************************************)
WholeTable    == {table \in Table : \A p \in Path : table[p] # Partial}
WholeChange   == {c \in Change : c.hash # Partial}
WholeDatagram == {msg \in Datagram :
                     /\ msg.pid \in {0, 1} => msg.table \in WholeTable
                     /\ msg.pid = 5 => msg.change \in WholeChange
                     /\ msg.pid = 6 => msg.changes \in Seq(WholeChange)}

KnownWhole ==
    /\ fileHashes \in [Node -> WholeTable]
    /\ changeBuf \in [Node -> Seq(WholeChange)]

SentWhole ==
    /\ udp \in [Node -> Seq(WholeDatagram)]
    /\ todoUdp \in [Node -> Seq(WholeDatagram)]
    /\ tableMsg \in [Node -> {Nothing} \cup WholeDatagram]
    /\ \A n \in Node : tableMsg[n] # Nothing => tableMsg[n].pid \in {0, 1}

AskedWhole ==
    \A n \in Node, t \in Thread :
        job[n][t].list \in Seq(WholeChange) /\ job[n][t].table \in {Nothing} \cup WholeTable

AnnouncedInv == KnownWhole /\ SentWhole /\ AskedWhole

\* A sequence is over the part of a set where its members are.
LEMMA SequenceOver ==
    ASSUME NEW S, NEW T, NEW s \in Seq(S), \A i \in 1..Len(s) : s[i] \in T
    PROVE  s \in Seq(T)
<1>1. Len(s) \in Nat /\ s = [i \in 1..Len(s) |-> s[i]]
  OBVIOUS
<1> QED BY <1>1

LEMMA WholeSequence ==
    ASSUME NEW s \in Seq(WholeChange)
    PROVE  Whole(s)
<1>1. \A i \in 1..Len(s) : s[i] \in WholeChange
  BY ElementOfSeq
<1> QED BY <1>1 DEF Whole, WholeChange

LEMMA WholeDatagramIsWhole ==
    ASSUME NEW msg \in WholeDatagram
    PROVE  WholeMessage(msg)
<1>1. msg.pid \in {0, 1} => \A p \in Path : msg.table[p] # Partial
  BY DEF WholeDatagram, WholeTable
<1>2. msg.pid = 5 => msg.change.hash # Partial
  BY DEF WholeDatagram, WholeChange
<1>3. msg.pid = 6 => Whole(msg.changes)
  BY WholeSequence DEF WholeDatagram
<1> QED BY <1>1, <1>2, <1>3 DEF WholeMessage

LEMMA AnnouncedIsWhole == LockInv /\ AnnouncedInv => OnlyWholeFilesAnnounced
<1> SUFFICES ASSUME LockInv, AnnouncedInv, NEW n \in Node
             PROVE  /\ \A p \in Path : fileHashes[n][p] # Partial
                    /\ Whole(changeBuf[n])
                    /\ \A i \in 1..Len(udp[n]) : WholeMessage(udp[n][i])
                    /\ \A i \in 1..Len(todoUdp[n]) : WholeMessage(todoUdp[n][i])
                    /\ tableMsg[n] # Nothing => WholeMessage(tableMsg[n])
                    /\ \A t \in Thread :
                          /\ Whole(job[n][t].list)
                          /\ job[n][t].table # Nothing =>
                                \A p \in Path : job[n][t].table[p] # Partial
  BY DEF OnlyWholeFilesAnnounced
<1>1. \A p \in Path : fileHashes[n][p] # Partial
  BY DEF AnnouncedInv, KnownWhole, WholeTable
<1>2. Whole(changeBuf[n]) /\ \A t \in Thread : Whole(job[n][t].list)
  BY WholeSequence DEF AnnouncedInv, KnownWhole, AskedWhole
<1>3. ASSUME NEW s \in Seq(WholeDatagram), NEW i \in 1..Len(s) PROVE WholeMessage(s[i])
  BY ElementOfSeq, WholeDatagramIsWhole
<1>4. /\ \A i \in 1..Len(udp[n]) : WholeMessage(udp[n][i])
      /\ \A i \in 1..Len(todoUdp[n]) : WholeMessage(todoUdp[n][i])
  BY <1>3 DEF AnnouncedInv, SentWhole
<1>5. tableMsg[n] # Nothing => WholeMessage(tableMsg[n])
  BY WholeDatagramIsWhole DEF AnnouncedInv, SentWhole
<1>6. \A t \in Thread : job[n][t].table # Nothing => \A p \in Path : job[n][t].table[p] # Partial
  BY DEF AnnouncedInv, AskedWhole, WholeTable
<1> QED BY <1>1, <1>2, <1>4, <1>5, <1>6

\* The lists made from whole tables, and the tables made from whole lists.
LEMMA ScanIsWhole ==
    ASSUME NEW prev \in Table, NEW new \in WholeTable, NEW list \in DirectoryChanges(prev, new)
    PROVE  list \in Seq(WholeChange)
<1>1. new \in Table /\ \A p \in Path : new[p] # Partial
  BY DEF WholeTable
<1>2. list \in Seq(Change) /\ \A i \in 1..Len(list) : list[i].hash = new[list[i].path]
  BY <1>1, DirectoryChangesList
<1>3. ASSUME NEW i \in 1..Len(list) PROVE list[i] \in WholeChange
  <2>1. list[i] \in Change
    BY <1>2, ElementOfSeq
  <2> QED BY <1>1, <1>2, <2>1 DEF WholeChange, Change
<1> QED BY <1>2, <1>3, SequenceOver

LEMMA RequestsAreWhole ==
    ASSUME NEW host \in Table, NEW foreign \in WholeTable, NEW ignoreEdits \in BOOLEAN,
           NEW list \in RequestLists(host, foreign, ignoreEdits)
    PROVE  list \in Seq(WholeChange)
<1>1. foreign \in Table /\ \A p \in Path : foreign[p] # Partial
  BY DEF WholeTable
<1>2. list \in Seq(Change) /\ \A i \in 1..Len(list) : list[i].hash = foreign[list[i].path]
  BY <1>1, RequestListsList
<1>3. ASSUME NEW i \in 1..Len(list) PROVE list[i] \in WholeChange
  <2>1. list[i] \in Change
    BY <1>2, ElementOfSeq
  <2> QED BY <1>1, <1>2, <2>1 DEF WholeChange, Change
<1> QED BY <1>2, <1>3, SequenceOver

LEMMA LearnWhole ==
    ASSUME NEW table \in WholeTable, NEW changes \in Seq(WholeChange)
    PROVE  Learn(table, changes) \in WholeTable
<1>1. table \in Table /\ changes \in Seq(Change)
  <2>1. \A i \in 1..Len(changes) : changes[i] \in Change
    BY ElementOfSeq DEF WholeChange
  <2> QED BY <2>1, SequenceOver DEF WholeTable
<1>2. ASSUME NEW p \in Path PROVE Learn(table, changes)[p] # Partial
  <2>1. CASE About(changes, p) = {}
    BY <1>1, <2>1, LearnDecides DEF WholeTable
  <2>2. CASE About(changes, p) # {}
    <3>1. PICK i \in 1..Len(changes) : Learn(table, changes)[p] = changes[i].hash
      BY <1>1, <2>2, LearnDecides DEF About
    <3>2. changes[i] \in WholeChange
      BY ElementOfSeq
    <3> QED BY <3>1, <3>2 DEF WholeChange
  <2> QED BY <2>1, <2>2
<1> QED BY <1>1, <1>2, LearnType DEF WholeTable

\* Whoever hashes the folder while no thread receives hashes whole files.
LEMMA QuietFolder ==
    ASSUME LockInv, PartialIsIncoming, NEW n \in Node,
           dirLock[n] = Free \/ \A t \in Thread : pc[n][t] = "idle"
    PROVE  disk[n] \in WholeTable
<1>1. Free \notin Thread /\ "idle" \notin Receiving
  BY DEF Free, Thread, Receiving, Negotiating
<1>2. \A p \in Path : disk[n][p] # Partial
  BY <1>1 DEF PartialIsIncoming
<1> QED BY <1>2 DEF LockInv, TypeOK, WholeTable

LEMMA KnownStep ==
    LockInv /\ PartialIsIncoming /\ AnnouncedInv /\ [Next]_vars => KnownWhole'
<1> SUFFICES ASSUME LockInv, PartialIsIncoming, AnnouncedInv, [Next]_vars PROVE KnownWhole'
  OBVIOUS
<1>0. /\ fileHashes \in [Node -> WholeTable] /\ changeBuf \in [Node -> Seq(WholeChange)]
  BY DEF AnnouncedInv, KnownWhole
<1>1. ASSUME UNCHANGED tableVars PROVE KnownWhole'
  BY <1>0, <1>1 DEF KnownWhole, tableVars
<1>2. ASSUME NEW n \in Node, StartUp(n) PROVE KnownWhole'
  <2>1. CASE Start(n)
    <3>1. disk[n] \in WholeTable
      BY <2>1, QuietFolder DEF Start, LockInv, Unstarted
    <3> QED BY <1>0, <2>1, <3>1 DEF Start, KnownWhole
  <2>2. CASE Announce(n)
    BY <1>1, <2>2 DEF Announce
  <2> QED BY <1>2, <2>1, <2>2 DEF StartUp
<1>3. ASSUME NEW n \in Node, StartWatching(n) PROVE KnownWhole'
  BY <1>0, <1>3 DEF StartWatching, KnownWhole
<1>4. ASSUME NEW n \in Node, Scan(n) PROVE KnownWhole'
  <2>1. PICK list \in DirectoryChanges(snapshot[n], disk[n]) :
           changeBuf' = [changeBuf EXCEPT ![n] = @ \o list]
    BY <1>4 DEF Scan
  <2>2. disk[n] \in WholeTable
    BY <1>4, QuietFolder DEF Scan
  <2>3. snapshot[n] \in Table
    BY DEF LockInv, TypeOK
  <2>4. list \in Seq(WholeChange)
    BY <2>1, <2>2, <2>3, ScanIsWhole
  <2>5. changeBuf[n] \o list \in Seq(WholeChange)
    BY <1>0, <2>4
  <2> QED BY <1>0, <1>4, <2>1, <2>5 DEF Scan, KnownWhole
<1>5. ASSUME NEW n \in Node, PublishChanges(n) PROVE KnownWhole'
  <2>1. Learn(fileHashes[n], changeBuf[n]) \in WholeTable
    BY <1>0, LearnWhole
  <2>2. << >> \in Seq(WholeChange)
    OBVIOUS
  <2>3. fileHashes' \in [Node -> WholeTable]
    BY <1>0, <1>5, <2>1 DEF PublishChanges
  <2>4. changeBuf' \in [Node -> Seq(WholeChange)]
    BY <1>0, <1>5, <2>2 DEF PublishChanges
  <2> QED BY <2>3, <2>4 DEF KnownWhole
<1>6. ASSUME NEW n \in Node, DiscovererStep(n) \/ HandlerStep(n) \/ TakeTable(n)
      PROVE  KnownWhole'
  BY <1>1, <1>6 DEF DiscovererStep, CollectForHandler, CollectArrival, HandlerStep, HandleResponse,
                    HandleFileRequest, OpenAndListen, EndService, HandleDirChanges, TakeTable
<1>7. ASSUME NEW n \in Node, NEW t \in Thread, RequestStep(n, t) PROVE KnownWhole'
  BY <1>1, <1>7 DEF RequestStep, SkipChange, ApplyDeletion, RequestFile, Abandoned,
                    OpenForWriting, Connect, CompareTables, Transfer, LosesEnd
<1>8. ASSUME NEW n \in Node, UserStep(n) \/ FaultStep(n) PROVE KnownWhole'
  BY <1>1, <1>8 DEF UserStep, UserWrites, UserDeletes, FaultStep, LoseDatagram, LoseReply,
                    ConnectTooEarly
<1>9. CASE UNCHANGED vars
  BY <1>1, <1>9 DEF vars
<1> QED BY <1>2, <1>3, <1>4, <1>5, <1>6, <1>7, <1>8, <1>9 DEF Next

LEMMA WholeMessages ==
    ASSUME NEW n \in Node
    PROVE  /\ \A table \in WholeTable : Arrival(n, table) \in WholeDatagram
           /\ \A table \in WholeTable : Response(n, table) \in WholeDatagram
           /\ \A c \in WholeChange : FileRequest(n, c) \in WholeDatagram
           /\ \A list \in Seq(WholeChange) : DirChanges(n, list) \in WholeDatagram
<1>1. ASSUME NEW table \in WholeTable
      PROVE  Arrival(n, table) \in WholeDatagram /\ Response(n, table) \in WholeDatagram
  <2>1. table \in Table
    BY DEF WholeTable
  <2> QED BY <2>1, MessageTypes DEF Arrival, Response, WholeDatagram
<1>2. ASSUME NEW c \in WholeChange PROVE FileRequest(n, c) \in WholeDatagram
  <2>1. c \in Change
    BY DEF WholeChange
  <2> QED BY <2>1, MessageTypes DEF FileRequest, WholeDatagram
<1>3. ASSUME NEW list \in Seq(WholeChange) PROVE DirChanges(n, list) \in WholeDatagram
  <2>1. list \in Seq(Change)
    <3>1. \A i \in 1..Len(list) : list[i] \in Change
      BY ElementOfSeq DEF WholeChange
    <3> QED BY <3>1, SequenceOver
  <2> QED BY <2>1, MessageTypes DEF DirChanges, WholeDatagram
<1> QED BY <1>1, <1>2, <1>3

LEMMA SendWhole ==
    ASSUME udp \in [Node -> Seq(WholeDatagram)], NEW n \in Node, NEW msg \in WholeDatagram
    PROVE  /\ \A buffers \in [Node -> Seq(WholeDatagram)] :
                 SentTo(buffers, n, msg) \in [Node -> Seq(WholeDatagram)]
           /\ BroadcastBy(n, msg) \in [Node -> Seq(WholeDatagram)]
<1>1. \A s \in Seq(WholeDatagram) : Append(s, msg) \in Seq(WholeDatagram)
  OBVIOUS
<1> QED BY <1>1 DEF SentTo, BroadcastBy

LEMMA SentStep == LockInv /\ AnnouncedInv /\ [Next]_vars => SentWhole'
<1> SUFFICES ASSUME LockInv, AnnouncedInv, [Next]_vars PROVE SentWhole'
  OBVIOUS
<1>0. /\ fileHashes \in [Node -> WholeTable] /\ changeBuf \in [Node -> Seq(WholeChange)]
      /\ AskedWhole /\ SentWhole
  BY DEF AnnouncedInv, KnownWhole
<1>u. udp \in [Node -> Seq(WholeDatagram)]
  BY <1>0 DEF SentWhole
<1>v. todoUdp \in [Node -> Seq(WholeDatagram)]
  BY <1>0 DEF SentWhole
<1>w. /\ tableMsg \in [Node -> {Nothing} \cup WholeDatagram]
      /\ \A n \in Node : tableMsg[n] # Nothing => tableMsg[n].pid \in {0, 1}
  BY <1>0 DEF SentWhole
<1>1. ASSUME UNCHANGED queueVars PROVE SentWhole'
  BY <1>0, <1>1 DEF SentWhole, queueVars
<1>2. ASSUME udp' \in [Node -> Seq(WholeDatagram)], UNCHANGED <<todoUdp, tableMsg>>
      PROVE  SentWhole'
  BY <1>0, <1>2 DEF SentWhole
<1>3. ASSUME NEW n \in Node, StartUp(n) PROVE SentWhole'
  <2>1. CASE Start(n)
    BY <1>1, <2>1 DEF Start
  <2>2. CASE Announce(n)
    <3>1. Arrival(n, fileHashes[n]) \in WholeDatagram
      BY <1>0, WholeMessages
    <3> QED BY <1>2, <1>u, <2>2, <3>1, SendWhole DEF Announce
  <2> QED BY <1>3, <2>1, <2>2 DEF StartUp
<1>4. ASSUME NEW n \in Node, PublishChanges(n) PROVE SentWhole'
  <2>1. DirChanges(n, changeBuf[n]) \in WholeDatagram
    BY <1>0, WholeMessages
  <2> QED BY <1>2, <1>4, <1>u, <2>1, SendWhole DEF PublishChanges
<1>5. ASSUME NEW n \in Node, HandlerStep(n) PROVE SentWhole'
  <2>1. CASE HandleResponse(n)
    <3>1. Head(todoUdp[n]) \in WholeDatagram /\ Head(todoUdp[n]).pid = 1
      BY <1>v, <2>1 DEF HandleResponse, Pops
    <3>2. tableMsg' = [tableMsg EXCEPT ![n] = Head(todoUdp[n])]
      BY <2>1 DEF HandleResponse
    <3>3. tableMsg' \in [Node -> {Nothing} \cup WholeDatagram]
      BY <1>w, <3>1, <3>2
    <3>4. \A m \in Node : tableMsg'[m] # Nothing => tableMsg'[m].pid \in {0, 1}
      BY <1>w, <3>1, <3>2
    <3>5. todoUdp' \in [Node -> Seq(WholeDatagram)] /\ UNCHANGED udp
      BY <1>v, <2>1 DEF HandleResponse, Pops
    <3> QED BY <1>u, <3>3, <3>4, <3>5 DEF SentWhole
  <2>2. CASE HandleFileRequest(n) \/ HandleDirChanges(n)
    <3>1. todoUdp' \in [Node -> Seq(WholeDatagram)]
      <4>1. todoUdp' = [todoUdp EXCEPT ![n] = Tail(@)] /\ todoUdp[n] # << >>
        BY <2>2 DEF HandleFileRequest, HandleDirChanges, Pops
      <4> QED BY <1>v, <4>1
    <3>2. UNCHANGED <<udp, tableMsg>>
      BY <2>2 DEF HandleFileRequest, HandleDirChanges
    <3> QED BY <1>u, <1>w, <3>1, <3>2 DEF SentWhole
  <2>3. CASE OpenAndListen(n) \/ EndService(n)
    BY <1>1, <2>3 DEF OpenAndListen, EndService
  <2> QED BY <1>5, <2>1, <2>2, <2>3 DEF HandlerStep
<1>6. ASSUME NEW n \in Node, CollectForHandler(n) PROVE SentWhole'
  <2>1. Head(udp[n]) \in WholeDatagram /\ Tail(udp[n]) \in Seq(WholeDatagram)
    BY <1>u, <1>6 DEF CollectForHandler
  <2>2. udp' \in [Node -> Seq(WholeDatagram)]
    BY <1>u, <1>6, <2>1 DEF CollectForHandler
  <2>3. todoUdp' \in [Node -> Seq(WholeDatagram)]
    BY <1>v, <1>6, <2>1 DEF CollectForHandler
  <2>4. UNCHANGED tableMsg
    BY <1>6 DEF CollectForHandler
  <2> QED BY <1>w, <2>2, <2>3, <2>4 DEF SentWhole
<1>7. ASSUME NEW n \in Node, CollectArrival(n) PROVE SentWhole'
  <2>1. [udp EXCEPT ![n] = Tail(@)] \in [Node -> Seq(WholeDatagram)]
    BY <1>u, <1>7 DEF CollectArrival
  <2>2. Response(n, fileHashes[n]) \in WholeDatagram
    BY <1>0, WholeMessages
  <2>3. Head(udp[n]).from \in Node
    <3>1. Head(udp[n]) \in WholeDatagram
      BY <1>u, <1>7 DEF CollectArrival
    <3> QED BY <3>1, DatagramFields DEF WholeDatagram
  <2>4. /\ udp' = SentTo([udp EXCEPT ![n] = Tail(@)], Head(udp[n]).from,
                        Response(n, fileHashes[n]))
        /\ UNCHANGED <<todoUdp, tableMsg>>
    BY <1>7 DEF CollectArrival
  <2>5. udp' \in [Node -> Seq(WholeDatagram)]
    BY <1>u, <2>1, <2>2, <2>3, <2>4, SendWhole
  <2> QED BY <1>2, <2>4, <2>5
<1>8. ASSUME NEW n \in Node, TakeTable(n) PROVE SentWhole'
  <2>1. UNCHANGED <<udp, todoUdp>> /\ tableMsg' = [tableMsg EXCEPT ![n] = Nothing]
    BY <1>8 DEF TakeTable
  <2>2. /\ tableMsg' \in [Node -> {Nothing} \cup WholeDatagram]
        /\ \A m \in Node : tableMsg'[m] # Nothing => tableMsg'[m].pid \in {0, 1}
    BY <1>w, <2>1
  <2> QED BY <1>u, <1>v, <2>1, <2>2 DEF SentWhole
<1>9. ASSUME NEW n \in Node, NEW t \in Thread, RequestStep(n, t) PROVE SentWhole'
  <2>1. CASE RequestFile(n, t)
    <3>1. /\ pc[n][t] = "request" /\ UNCHANGED <<todoUdp, tableMsg>>
          /\ udp' = SentTo(udp, job[n][t].from, FileRequest(n, Entry(n, t)))
      BY <2>1, RequestTakesLock DEF LockInv
    <3>2. job[n][t].from \in Node /\ job[n][t].list # << >>
      BY <3>1, EntryType DEF LockInv
    <3>3. Entry(n, t) \in WholeChange
      BY <1>0, <3>2 DEF AskedWhole, Entry
    <3>4. FileRequest(n, Entry(n, t)) \in WholeDatagram
      BY <3>3, WholeMessages
    <3> QED BY <1>2, <1>u, <3>1, <3>2, <3>4, SendWhole
  <2>2. CASE ~RequestFile(n, t)
    BY <1>1, <1>9, <2>2 DEF RequestStep, SkipChange, ApplyDeletion, Abandoned,
                           OpenForWriting, Connect, CompareTables, Transfer, LosesEnd
  <2> QED BY <2>1, <2>2
<1>10. ASSUME NEW n \in Node, FaultStep(n) PROVE SentWhole'
  <2>1. CASE LoseDatagram(n)
    BY <1>2, <1>u, <2>1 DEF LoseDatagram
  <2>2. CASE ~LoseDatagram(n)
    BY <1>1, <1>10, <2>2 DEF FaultStep, LoseReply, ConnectTooEarly
  <2> QED BY <2>1, <2>2
<1>11. ASSUME NEW n \in Node, StartWatching(n) \/ Scan(n) \/ UserStep(n) PROVE SentWhole'
  BY <1>1, <1>11 DEF StartWatching, Scan, UserStep, UserWrites, UserDeletes
<1>12. CASE UNCHANGED vars
  BY <1>1, <1>12 DEF vars
<1> QED BY <1>3, <1>4, <1>5, <1>6, <1>7, <1>8, <1>9, <1>10, <1>11, <1>12 DEF Next, DiscovererStep

LEMMA AskedStep == LockInv /\ AnnouncedInv /\ [Next]_vars => AskedWhole'
<1> SUFFICES ASSUME LockInv, AnnouncedInv, [Next]_vars PROVE AskedWhole'
  OBVIOUS
<1>0. /\ job \in [Node -> [Thread -> Job]]
      /\ fileHashes \in [Node -> Table]
      /\ TypeOK /\ Places
  BY DEF LockInv, TypeOK
<1>s. AskedWhole /\ SentWhole
  BY DEF AnnouncedInv
<1>a. "discoverer" \in Thread /\ "handler" \in Thread /\ "tableManager" \in Thread
  BY DEF Thread
<1>1. ASSUME UNCHANGED job PROVE AskedWhole'
  BY <1>s, <1>1 DEF AskedWhole
<1>2. ASSUME NEW n \in Node, NEW t \in Thread, NEW j, job' = [job EXCEPT ![n][t] = j],
             j.list \in Seq(WholeChange), j.table \in {Nothing} \cup WholeTable
      PROVE  AskedWhole'
  BY <1>0, <1>s, <1>2 DEF AskedWhole
<1>3. ASSUME NEW n \in Node, HandleDirChanges(n) PROVE AskedWhole'
  <2> DEFINE msg == Head(todoUdp[n])
  <2>1. /\ todoUdp[n] # << >> /\ msg.pid = 6
        /\ job' = [job EXCEPT ![n]["handler"] =
                      [from |-> msg.from, table |-> Nothing, list |-> msg.changes]]
    BY <1>3 DEF HandleDirChanges, Pops
  <2>2. msg \in WholeDatagram
    BY <1>s, <2>1 DEF SentWhole
  <2>3. msg.changes \in Seq(WholeChange)
    BY <2>1, <2>2 DEF WholeDatagram
  <2> DEFINE j == [from |-> msg.from, table |-> Nothing, list |-> msg.changes]
  <2>4. /\ job' = [job EXCEPT ![n]["handler"] = j]
        /\ j.list \in Seq(WholeChange) /\ j.table \in {Nothing} \cup WholeTable
    BY <2>1, <2>3
  <2> HIDE DEF j
  <2> QED BY <1>2, <1>a, <2>4
<1>4. ASSUME NEW n \in Node, NEW t \in Thread, NEW msg, msg.table \in WholeTable,
             Considers(n, t, msg)
      PROVE  AskedWhole'
  <2> DEFINE j == [from |-> msg.from, table |-> msg.table, list |-> << >>]
  <2>1. job' = [job EXCEPT ![n][t] = j]
    BY <1>4 DEF Considers
  <2>2. j.list \in Seq(WholeChange) /\ j.table \in WholeTable
    BY <1>4
  <2> HIDE DEF j
  <2> QED BY <1>2, <2>1, <2>2
<1>5. ASSUME NEW n \in Node, CollectArrival(n) \/ TakeTable(n) PROVE AskedWhole'
  <2>1. CASE CollectArrival(n)
    <3>1. Head(udp[n]) \in WholeDatagram /\ Head(udp[n]).pid = 0
      BY <1>s, <2>1 DEF CollectArrival, SentWhole
    <3> QED BY <1>4, <1>a, <2>1, <3>1 DEF CollectArrival, WholeDatagram
  <2>2. CASE TakeTable(n)
    <3>1. tableMsg[n] \in WholeDatagram /\ tableMsg[n].pid \in {0, 1}
      BY <1>s, <2>2 DEF TakeTable, SentWhole
    <3> QED BY <1>4, <1>a, <2>2, <3>1 DEF TakeTable, WholeDatagram
  <2> QED BY <1>5, <2>1, <2>2
<1>6. ASSUME NEW n \in Node, NEW t \in Thread, RequestStep(n, t) PROVE AskedWhole'
  <2>1. CASE RequestFile(n, t) \/ OpenForWriting(n, t) \/ Connect(n, t) \/ LosesEnd(n, t)
    <3>1. UNCHANGED job
      BY <1>0, <2>1, RequestTakesLock DEF OpenForWriting, Connect, LosesEnd, LockInv
    <3> QED BY <1>1, <3>1
  <2>2. CASE SkipChange(n, t) \/ ApplyDeletion(n, t) \/ Abandoned(n, t) \/ Transfer(n, t)
    <3>1. /\ pc[n][t] = "request" \/ pc[n][t] \in Negotiating
          /\ job' = [job EXCEPT ![n][t].list = Tail(@)]
      BY <2>2 DEF SkipChange, ApplyDeletion, Abandoned, Transfer, LocksFor, Advance, Negotiating
    <3>t. job'[n][t].table = job[n][t].table
      BY <1>0, <3>1 DEF Job
    <3>2. job[n][t].list # << >>
      BY <1>0, <3>1, EntryType
    <3>3. Tail(job[n][t].list) \in Seq(WholeChange)
      BY <1>s, <3>2 DEF AskedWhole
    <3>4. job'[n][t].list = Tail(job[n][t].list)
      BY <1>0, <3>1
    <3>5. \A m \in Node, u \in Thread : ~(m = n /\ u = t) => job'[m][u] = job[m][u]
      BY <1>0, <3>1
    <3>6. ASSUME NEW m \in Node, NEW u \in Thread
          PROVE  /\ job'[m][u].list \in Seq(WholeChange)
                 /\ job'[m][u].table \in {Nothing} \cup WholeTable
      <4>1. CASE m = n /\ u = t
        BY <1>s, <3>t, <3>3, <3>4, <4>1 DEF AskedWhole
      <4>2. CASE ~(m = n /\ u = t)
        BY <1>s, <3>5, <4>2 DEF AskedWhole
      <4> QED BY <4>1, <4>2
    <3> QED BY <3>6 DEF AskedWhole
  <2>3. CASE CompareTables(n, t)
    <3>1. PICK list \in RequestLists(fileHashes[n], job[n][t].table, t = "discoverer") :
             job' = [job EXCEPT ![n][t] = [job[n][t] EXCEPT !.table = Nothing, !.list = list]]
      BY <2>3 DEF CompareTables
    <3>2. job[n][t].table \in WholeTable
      BY <1>0, <1>s, <2>3 DEF AskedWhole, CompareTables, Places, PlaceOf
    <3>3. list \in Seq(WholeChange)
      BY <1>0, <3>1, <3>2, RequestsAreWhole
    <3> DEFINE j == [job[n][t] EXCEPT !.table = Nothing, !.list = list]
    <3>4. j.list = list /\ j.table = Nothing
      BY <1>0 DEF Job
    <3>5. job' = [job EXCEPT ![n][t] = j]
      BY <3>1
    <3> HIDE DEF j
    <3> QED BY <1>2, <3>3, <3>4, <3>5
  <2> QED BY <1>6, <2>1, <2>2, <2>3 DEF RequestStep
<1>7. ASSUME NEW n \in Node,
             \/ StartUp(n) \/ StartWatching(n) \/ Scan(n) \/ PublishChanges(n)
             \/ CollectForHandler(n) \/ HandleResponse(n) \/ HandleFileRequest(n)
             \/ OpenAndListen(n) \/ EndService(n) \/ UserStep(n) \/ FaultStep(n)
      PROVE  AskedWhole'
  BY <1>1, <1>7 DEF StartUp, Start, Announce, StartWatching, Scan, PublishChanges,
         CollectForHandler, HandleResponse, HandleFileRequest, OpenAndListen, EndService,
         UserStep, UserWrites, UserDeletes, FaultStep, LoseDatagram, LoseReply,
         ConnectTooEarly, callVars
<1>8. CASE UNCHANGED vars
  BY <1>1, <1>8 DEF vars, callVars
<1> QED BY <1>3, <1>4, <1>5, <1>6, <1>7, <1>8 DEF Next, DiscovererStep, HandlerStep

LEMMA AnnouncedInit == Init => AnnouncedInv
<1> SUFFICES ASSUME Init PROVE AnnouncedInv
  OBVIOUS
<1>1. << >> \in Seq(WholeChange) /\ << >> \in Seq(WholeDatagram)
  OBVIOUS
<1>2. disk \in [Node -> WholeTable]
  <2>1. disk \in [Node -> [Path -> (Hash \ {Partial}) \cup {NoFile}]]
    BY DEF Init
  <2>2. \A c \in (Hash \ {Partial}) \cup {NoFile} : c \in Hash \cup {NoFile} /\ c # Partial
    BY ContentAssumption, NoFileAssumption
  <2> QED BY <2>1, <2>2 DEF WholeTable, Table
<1>3. fileHashes = disk /\ changeBuf = [n \in Node |-> << >>]
  BY DEF Init
<1>4. /\ udp = [n \in Node |-> << >>] /\ todoUdp = [n \in Node |-> << >>]
      /\ tableMsg = [n \in Node |-> Nothing]
      /\ \A n \in Node, t \in Thread : job[n][t].list = << >> /\ job[n][t].table = Nothing
  BY DEF Init
<1>5. KnownWhole
  BY <1>1, <1>2, <1>3 DEF KnownWhole
<1>6. SentWhole /\ AskedWhole
  BY <1>1, <1>4 DEF SentWhole, AskedWhole
<1> QED BY <1>5, <1>6 DEF AnnouncedInv

(***************************************************************************)
(* The hash of a file that receiveFile is still writing leaves its node in *)
(* no table, change list or request: nobody hashes a file of the folder    *)
(* while dirLock is held, and nothing but hashes of the folder is sent.    *)
(***************************************************************************)
THEOREM OnlyWholeFilesAreAnnounced == Spec => []OnlyWholeFilesAnnounced
<1>1. Init => AnnouncedInv
  BY AnnouncedInit
<1>2. LockInv /\ LockDiscipline /\ AnnouncedInv /\ [Next]_vars => AnnouncedInv'
  BY KnownStep, SentStep, AskedStep DEF AnnouncedInv, LockDiscipline
<1>3. LockInv /\ AnnouncedInv => OnlyWholeFilesAnnounced
  BY AnnouncedIsWhole
<1> QED BY <1>1, <1>2, <1>3, LockInvariant, LockDisciplineHolds, PTL DEF Spec

=============================================================================
