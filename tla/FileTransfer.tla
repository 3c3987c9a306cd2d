---------------------------- MODULE FileTransfer ----------------------------
(***************************************************************************)
(* One file sent over TCP: Node::sendFile on the handler thread of the     *)
(* server and Node::receiveFile on the thread of the client that holds     *)
(* dirLock, from the accepted connection to the return of the two.         *)
(*                                                                         *)
(* A file is a sequence of bytes.  Word is the number of values of the 32  *)
(* bit lengths and positions, so that Word - 1 is what becomes of a -1.    *)
(* The buffers of the streams are left out: what is read is what is in the *)
(* file at that moment.                                                    *)
(***************************************************************************)
EXTENDS Integers, Sequences

CONSTANTS
    Byte,
    ChunkSize,    \* 1024 in the code
    Word,         \* 2^32 in the code
    WideSize,     \* size_t has two words (the x64 build)
    NoCopy,       \* for the abstract specification
    Faults,       \* what may go wrong, of FaultKind
    MaxLength,    \* bound: length of a file
    MaxEdits,     \* bound: changes users make to the file being sent
    MaxFaults     \* bound: connections broken and writes failed

FaultKind == {"fileGone", "disconnect", "writeError"}

ASSUME ChunkAssumption == ChunkSize \in Nat \ {0}
ASSUME WordAssumption  == Word \in Nat \ {0}
ASSUME FaultAssumption == Faults \subseteq FaultKind
ASSUME LimitAssumption == {MaxLength, MaxEdits, MaxFaults} \subseteq Nat
ASSUME WideAssumption  == WideSize \in BOOLEAN
ASSUME NoCopyAssumption == NoCopy \notin Seq(Byte)

VARIABLES
    source,       \* the file in the folder of the server
    opened,       \* the ifstream could open it
    readPos,      \* its get position
    atEnd,        \* its eofbit: nothing more is read
    length,       \* length of sendFile
    serverPos,    \* pos of sendFile
    server,       \* where sendFile is
    target,       \* the file of the client, truncated when it was opened
    clientPos,    \* pos of receiveFile
    client,       \* where receiveFile is
    toClient, toServer,  \* packets under way
    connected,
    edits, faults

stream     == <<opened, readPos, atEnd>>
serverVars == <<length, serverPos, server>>
clientVars == <<target, clientPos, client>>
wire       == <<toClient, toServer, connected>>
budget     == <<edits, faults>>
vars == <<source, stream, serverVars, clientVars, wire, budget>>

Content == UNION {[1..k -> Byte] : k \in 0..MaxLength}

\* pid 100 and pid 101.
Data(pos, size, bytes) == [pid |-> 100, pos |-> pos, size |-> size, bytes |-> bytes]
End == [pid |-> 101]

Packet == [pid : {100}, pos : 0..(Word - 1), size : Nat, bytes : Content] \cup {End}

\* What the client sends: its position or, at the end, an empty packet, which
\* is written as the first number that is no position.
Bye    == Word
Answer == 0..Bye

Least(i, j) == IF i <= j THEN i ELSE j

\* A packet that is sent on a broken connection is lost.
Sent(wired, packet) == IF connected THEN Append(wired, packet) ELSE wired

-----------------------------------------------------------------------------
Init ==
    /\ source \in Content
    /\ opened \in (IF "fileGone" \in Faults THEN BOOLEAN ELSE {TRUE})
    /\ readPos = 0 /\ atEnd = FALSE
    /\ length = 0 /\ serverPos = 0 /\ server = "measure"
    /\ target = << >> /\ clientPos = 0 /\ client = "receive"
    /\ toClient = << >> /\ toServer = << >> /\ connected = TRUE
    /\ edits = 0 /\ faults = 0

-----------------------------------------------------------------------------
(* The server.                                                             *)

\* Mutant: the length is a signed number.
SignedLength == IF opened THEN Len(source) ELSE -1
\* tellg at the end of the file, as an unsigned int.
LengthFound == IF opened THEN Len(source) % Word ELSE Word - 1

Measure ==
    /\ server = "measure"
    /\ length' = LengthFound
    /\ server' = "send"
    /\ UNCHANGED <<source, stream, serverPos, clientVars, wire, budget>>

\* Mutants: the last chunk is only sent when it is full; an empty chunk is
\* sent at the end.
MoreFullChunks == serverPos + ChunkSize <= length
MoreOrEqual    == serverPos <= length
\* The condition of the loop.
MoreToSend == serverPos < length

\* What read gives at the get position: nothing when the stream has failed.
ChunkRead ==
    IF opened /\ ~atEnd
    THEN SubSeq(source, readPos + 1, Least(readPos + ChunkSize, Len(source)))
    ELSE << >>

\* Mutant: every chunk is read from the start of the file.
StaysPut(bytes) == readPos
\* The stream is only ever read on; no position is sought.
MovesOn(bytes)  == readPos + Len(bytes)

\* The size is written with the width of size_t, high word first, and read
\* back as 32 bits: on x64 the client reads the high word, which is 0.
SizeArrives(bytes) == IF WideSize THEN 0 ELSE Len(bytes)

SendChunk ==
    /\ server = "send" /\ MoreToSend
    /\ toClient' = Sent(toClient, Data(serverPos, SizeArrives(ChunkRead), ChunkRead))
    /\ readPos' = MovesOn(ChunkRead)
    /\ atEnd' = (atEnd \/ Len(ChunkRead) < ChunkSize)
    /\ server' = "await"
    /\ UNCHANGED <<source, opened, length, serverPos, clientVars, toServer,
                   connected, budget>>

\* The server goes where the client says it is.
TakePosition ==
    /\ server = "await" /\ toServer # << >>
    /\ serverPos' = Head(toServer)
    /\ toServer' = Tail(toServer)
    /\ server' = "send"
    /\ UNCHANGED <<source, stream, length, clientVars, toClient, connected, budget>>

\* receive fails: a line is printed and the loop goes on where it was.
MissPosition ==
    /\ server = "await" /\ toServer = << >> /\ ~connected
    /\ server' = "send"
    /\ UNCHANGED <<source, stream, length, serverPos, clientVars, wire, budget>>

SendEnd ==
    /\ server = "send" /\ ~MoreToSend
    /\ toClient' = Sent(toClient, End)
    /\ server' = "end"
    /\ UNCHANGED <<source, stream, length, serverPos, clientVars, toServer,
                   connected, budget>>

\* The empty packet, or a failure, ends sendFile.
ReturnFromSend ==
    /\ server = "end" /\ (toServer # << >> \/ ~connected)
    /\ toServer' = IF toServer = << >> THEN << >> ELSE Tail(toServer)
    /\ server' = "done"
    /\ UNCHANGED <<source, stream, length, serverPos, clientVars, toClient,
                   connected, budget>>

-----------------------------------------------------------------------------
(* The client.                                                             *)

ChunkArrives ==
    client = "receive" /\ toClient # << >> /\ Head(toClient).pid = 100

\* The chunk is written when both sides are at the same position; the answer
\* is the position after it.
ReceiveChunk ==
    /\ ChunkArrives
    /\ LET chunk   == Head(toClient)
           written == SubSeq(chunk.bytes, 1, chunk.size)
       IN  /\ target' = IF clientPos = chunk.pos THEN target \o written ELSE target
           /\ clientPos' = IF clientPos = chunk.pos THEN Len(target') % Word
                           ELSE clientPos
    /\ toClient' = Tail(toClient)
    /\ toServer' = Sent(toServer, clientPos')
    /\ UNCHANGED <<source, stream, serverVars, client, connected, budget>>

\* The write fails: tellp is -1 from then on.
FailToWrite ==
    /\ "writeError" \in Faults /\ faults < MaxFaults
    /\ ChunkArrives /\ clientPos = Head(toClient).pos
    /\ clientPos' = Word - 1
    /\ toClient' = Tail(toClient)
    /\ toServer' = Sent(toServer, clientPos')
    /\ faults' = faults + 1
    /\ UNCHANGED <<source, stream, serverVars, target, client, connected, edits>>

\* pid 101.  Without it the loop has no end: a receive that fails, as on a
\* closed connection, only prints a line.
ReturnFromReceive ==
    /\ client = "receive" /\ toClient # << >> /\ Head(toClient).pid = 101
    /\ client' = "done"
    /\ toClient' = Tail(toClient)
    /\ toServer' = Sent(toServer, Bye)
    /\ UNCHANGED <<source, stream, serverVars, target, clientPos, connected, budget>>

-----------------------------------------------------------------------------
(* The user of the server's folder, and the connection.                    *)

EditSource ==
    /\ edits < MaxEdits
    /\ source' \in Content \ {source}
    /\ edits' = edits + 1
    /\ UNCHANGED <<stream, serverVars, clientVars, wire, faults>>

\* What is under way may still arrive.
Disconnect ==
    /\ "disconnect" \in Faults /\ faults < MaxFaults /\ connected
    /\ connected' = FALSE
    /\ toClient' \in {toClient, << >>} /\ toServer' \in {toServer, << >>}
    /\ faults' = faults + 1
    /\ UNCHANGED <<source, stream, serverVars, clientVars, edits>>

-----------------------------------------------------------------------------
SendFile    == Measure \/ SendChunk \/ TakePosition \/ MissPosition \/ SendEnd \/ ReturnFromSend
ReceiveFile == ReceiveChunk \/ ReturnFromReceive

Next == SendFile \/ ReceiveFile \/ FailToWrite \/ EditSource \/ Disconnect

Spec == Init /\ [][Next]_vars

\* Both threads run on; nobody has to edit, and nothing has to fail.
FairSpec == Spec /\ WF_vars(SendFile) /\ WF_vars(ReceiveFile)

-----------------------------------------------------------------------------
(* Properties.                                                             *)

TypeOK ==
    /\ source \in Content /\ opened \in BOOLEAN
    /\ readPos \in Nat /\ atEnd \in BOOLEAN
    /\ length \in 0..(Word - 1) /\ serverPos \in 0..(Word - 1)
    /\ server \in {"measure", "send", "await", "end", "done"}
    /\ target \in Seq(Byte) /\ clientPos \in 0..(Word - 1)
    /\ client \in {"receive", "done"}
    /\ toClient \in Seq(Packet) /\ toServer \in Seq(Answer)
    /\ connected \in BOOLEAN
    /\ edits \in 0..MaxEdits /\ faults \in 0..MaxFaults

(***************************************************************************)
(* README.md says the server seeks to the position the client sends back.  *)
(* sendFile does not: it reads on.  It sends neither a byte twice nor      *)
(* leaves one out, because whenever it reads, the client has written all   *)
(* that was read before, even when the file changes meanwhile.             *)
(***************************************************************************)
NoSeekNeeded ==
    server = "send" /\ connected /\ clientPos = Len(target) =>
        readPos = Len(target) /\ serverPos = clientPos

(***************************************************************************)
(* receiveFile is never told how long the file is.  A copy it has finished *)
(* has at least the length that sendFile found, and less than a chunk      *)
(* more, even if the file was cut or grew in between; a failed write is    *)
(* the only exception.                                                     *)
(***************************************************************************)
MeasuredLengthArrives ==
    client = "done" /\ clientPos = Len(target) =>
        length <= Len(target) /\ Len(target) < length + ChunkSize

(***************************************************************************)
(* README.md: "it can send files of any format and size."  Of any format,  *)
(* and of any size below Word, 4 GiB in the code: there the positions, of  *)
(* 32 bits, begin again.  Seen from outside, a transfer that nothing       *)
(* disturbs delivers the file of the server: the step Transfer of          *)
(* FileSync.                                                               *)
(***************************************************************************)
Disturbed == edits + faults > 0
Delivered == IF client = "done" THEN target ELSE NoCopy

Copy == INSTANCE FileCopy WITH file <- source, copy <- Delivered,
                               disturbed <- Disturbed
Delivers == Copy!Spec

(***************************************************************************)
(* README.md: "This continues until the file position hits the end."  Both *)
(* calls return, and with them the two threads, when the file could be     *)
(* opened, never gets shorter than it was when it was measured, and no     *)
(* fault occurs.  Neither loop has an exit of its own: sendFile waits for  *)
(* a position that a file cut short never reaches.                         *)
(***************************************************************************)
BothReturned == server = "done" /\ client = "done"
CutShort == Len(source) < length
EndsUnlessCut == <>(BothReturned \/ CutShort \/ ~opened \/ faults > 0)

=============================================================================
