------------------------- MODULE FileTransferProofs -------------------------
(***************************************************************************)
(* Proofs about FileTransfer, for files of any length below the limit of   *)
(* the 32 bit positions and for the Win32 build (Narrow).                  *)
(***************************************************************************)
EXTENDS FileTransfer, SequenceTheorems, TLAPS

Narrow == MaxLength + 1 < Word /\ ~WideSize

-----------------------------------------------------------------------------
(* Contents and chunks.                                                    *)

\* Content is the set of the sequences of at most MaxLength bytes.
LEMMA ContentIsBounded ==
    \A s : s \in Content <=> s \in Seq(Byte) /\ Len(s) <= MaxLength
<1>1. MaxLength \in Nat BY LimitAssumption
<1>2. ASSUME NEW s \in Content PROVE s \in Seq(Byte) /\ Len(s) <= MaxLength
  <2>1. PICK k \in 0..MaxLength : s \in [1..k -> Byte] BY DEF Content
  <2>2. k \in Nat BY <1>1, <2>1
  <2>3. s \in Seq(Byte) BY <2>1, <2>2, SeqDef
  <2>4. Len(s) = k BY <2>1, <2>2, <2>3, LenProperties
  <2> QED BY <2>1, <2>3, <2>4
<1>3. ASSUME NEW s \in Seq(Byte), Len(s) <= MaxLength PROVE s \in Content
  <2>1. Len(s) \in 0..MaxLength /\ s \in [1..Len(s) -> Byte] BY <1>1, <1>3, LenProperties
  <2> QED BY <2>1 DEF Content
<1> QED BY <1>2, <1>3

\* What read returns at position r of the contents s, the stream being good.
LEMMA ChunkOfContent ==
    ASSUME NEW s \in Content, NEW r \in Nat
    PROVE  LET c == SubSeq(s, r + 1, Least(r + ChunkSize, Len(s)))
           IN  /\ c \in Content /\ Len(c) <= ChunkSize
               /\ r <= MaxLength => r + Len(c) <= MaxLength
               /\ r <= Len(s) => /\ r + Len(c) <= Len(s)
                                 /\ c = SubSeq(s, r + 1, r + Len(c))
<1> DEFINE last == Least(r + ChunkSize, Len(s))
           c == SubSeq(s, r + 1, last)
<1>1. s \in Seq(Byte) /\ Len(s) <= MaxLength BY ContentIsBounded
<1>2. Len(s) \in Nat /\ MaxLength \in Nat /\ ChunkSize \in Nat
  BY <1>1, LenProperties, LimitAssumption, ChunkAssumption
<1>3. /\ last \in Nat /\ last <= Len(s) /\ last <= r + ChunkSize
      /\ r <= Len(s) => r <= last
  BY <1>2 DEF Least
<1> HIDE DEF last
<1>4. \A i \in (r + 1)..last : s[i] \in Byte
  BY <1>1, <1>2, <1>3, ElementOfSeq
<1>5. c \in Seq(Byte) /\ Len(c) = IF r + 1 <= last THEN last - (r + 1) + 1 ELSE 0
  <2>1. r + 1 \in Int /\ last \in Int BY <1>3
  <2> QED BY <1>4, <2>1, SubSeqProperties
<1>6. Len(c) <= MaxLength /\ Len(c) <= ChunkSize BY <1>1, <1>2, <1>3, <1>5
<1>7. c \in Content BY <1>5, <1>6, ContentIsBounded
<1>8. r <= MaxLength => r + Len(c) <= MaxLength BY <1>1, <1>2, <1>3, <1>5
<1>9. r <= Len(s) => r + Len(c) = last BY <1>3, <1>5
<1> QED BY <1>3, <1>6, <1>7, <1>8, <1>9 DEF last

LEMMA EmptyContent == << >> \in Content
<1>1. 0 \in 0..MaxLength BY LimitAssumption
<1>2. << >> \in [1..0 -> Byte] OBVIOUS
<1> QED BY <1>1, <1>2 DEF Content

\* ... and the same of the stream of the server.
LEMMA ChunkReadFacts ==
    ASSUME source \in Content, readPos \in Nat
    PROVE  /\ ChunkRead \in Content /\ Len(ChunkRead) \in Nat
           /\ readPos <= MaxLength => readPos + Len(ChunkRead) <= MaxLength
           /\ readPos <= Len(source) =>
                /\ readPos + Len(ChunkRead) <= Len(source)
                /\ ChunkRead = SubSeq(source, readPos + 1, readPos + Len(ChunkRead))
<1>1. CASE opened /\ ~atEnd
  <2>1. ChunkRead = SubSeq(source, readPos + 1, Least(readPos + ChunkSize, Len(source)))
    BY <1>1 DEF ChunkRead
  <2>2. /\ ChunkRead \in Content
        /\ readPos <= MaxLength => readPos + Len(ChunkRead) <= MaxLength
        /\ readPos <= Len(source) =>
                /\ readPos + Len(ChunkRead) <= Len(source)
                /\ ChunkRead = SubSeq(source, readPos + 1, readPos + Len(ChunkRead))
    BY <2>1, ChunkOfContent
  <2> QED BY <2>2, ContentIsBounded, LenProperties
<1>2. CASE ~(opened /\ ~atEnd)
  <2>1. ChunkRead = << >> BY <1>2 DEF ChunkRead
  <2>2. SubSeq(source, readPos + 1, readPos + 0) = << >>
    BY SubSeqEmpty, readPos + 1 \in Int, readPos + 0 \in Int, readPos + 0 < readPos + 1
  <2>3. Len(<< >>) = 0 BY EmptySeq
  <2> QED BY <2>1, <2>2, <2>3, EmptyContent
<1> QED BY <1>1, <1>2

-----------------------------------------------------------------------------
(* Types.                                                                  *)

\* Until sendFile leaves its loop there is neither an end packet nor an
\* answer to one, so that what it takes for a position is one.
Unfinished ==
    server \in {"measure", "send", "await"} =>
        /\ \A i \in 1..Len(toClient) : toClient[i].pid = 100
        /\ \A i \in 1..Len(toServer) : toServer[i] # Bye

\* A chunk is not shorter than the size that comes with it.
Sized == \A i \in 1..Len(toClient) :
             toClient[i].pid = 100 => toClient[i].size <= Len(toClient[i].bytes)

TypeInv == TypeOK /\ Unfinished /\ Sized

LEMMA TypeInit == Init => TypeInv
<1> SUFFICES ASSUME Init PROVE TypeInv OBVIOUS
<1> USE DEF Init
<1>1. 0 \in 0..(Word - 1) BY WordAssumption
<1>2. << >> \in Seq(Byte) /\ << >> \in Seq(Packet) /\ << >> \in Seq(Answer) OBVIOUS
<1>3. opened \in BOOLEAN BY DEF FaultKind
<1>4. 0 \in 0..MaxEdits /\ 0 \in 0..MaxFaults BY LimitAssumption
<1>5. TypeOK BY <1>1, <1>2, <1>3, <1>4 DEF TypeOK
<1>6. Unfinished BY DEF Unfinished
<1>7. Sized BY DEF Sized
<1> QED BY <1>5, <1>6, <1>7 DEF TypeInv


\* What a channel holds after a send: what it held, and perhaps the packet.
Among(sent, wired, packet) ==
    \A i \in 1..Len(sent) :
        sent[i] = packet \/ (i \in 1..Len(wired) /\ sent[i] = wired[i])

LEMMA SentType ==
    ASSUME NEW S, NEW wired \in Seq(S), NEW packet \in S
    PROVE  Sent(wired, packet) \in Seq(S) /\ Among(Sent(wired, packet), wired, packet)
<1>1. /\ Append(wired, packet) \in Seq(S)
      /\ Len(Append(wired, packet)) = Len(wired) + 1
      /\ \A i \in 1..Len(wired) : Append(wired, packet)[i] = wired[i]
      /\ Append(wired, packet)[Len(wired) + 1] = packet
      /\ Len(wired) \in Nat
  BY AppendProperties, LenProperties
<1> QED BY <1>1 DEF Sent, Among

LEMMA TailType ==
    ASSUME NEW S, NEW s \in Seq(S), s # << >>
    PROVE  /\ Head(s) \in S /\ Head(s) = s[1] /\ 1 \in 1..Len(s)
           /\ Tail(s) \in Seq(S)
           /\ \A i \in 1..Len(Tail(s)) : i + 1 \in 1..Len(s) /\ Tail(s)[i] = s[i + 1]
<1>1. Len(s) \in Nat \ {0} BY EmptySeq
<1>2. Head(s) \in S /\ Head(s) = s[1] BY <1>1
<1>3. /\ Tail(s) \in Seq(S) /\ Len(Tail(s)) = Len(s) - 1
      /\ \A i \in 1..Len(Tail(s)) : Tail(s)[i] = s[i + 1]
  BY HeadTailProperties
<1> QED BY <1>1, <1>2, <1>3

LEMMA LengthFoundType == source \in Content => LengthFound \in 0..(Word - 1)
<1> SUFFICES ASSUME source \in Content PROVE LengthFound \in 0..(Word - 1) OBVIOUS
<1>1. Len(source) \in Nat BY ContentIsBounded, LenProperties
<1>2. Word \in Nat \ {0} BY WordAssumption
<1> QED BY <1>1, <1>2 DEF LengthFound

\* What arrives of a chunk is a sequence of bytes.
LEMMA WrittenType ==
    ASSUME TypeInv, ChunkArrives
    PROVE  /\ SubSeq(Head(toClient).bytes, 1, Head(toClient).size) \in Seq(Byte)
           /\ Head(toClient).bytes \in Content /\ Head(toClient).pos \in 0..(Word - 1)
           /\ toClient' = Tail(toClient) => toClient' \in Seq(Packet)
<1> DEFINE chunk == Head(toClient)
<1>1. toClient \in Seq(Packet) /\ toClient # << >> /\ chunk.pid = 100
  BY DEF TypeInv, TypeOK, ChunkArrives
<1>2. chunk \in Packet /\ chunk = toClient[1] /\ 1 \in 1..Len(toClient)
      /\ Tail(toClient) \in Seq(Packet)
  BY <1>1, TailType
<1>3. chunk.bytes \in Content /\ chunk.size \in Nat /\ chunk.pos \in 0..(Word - 1)
  BY <1>1, <1>2 DEF Packet, End
<1>4. chunk.size <= Len(chunk.bytes) BY <1>1, <1>2 DEF TypeInv, Sized
<1> HIDE DEF chunk
<1>5. chunk.bytes \in Seq(Byte) /\ Len(chunk.bytes) \in Nat
  BY <1>3, ContentIsBounded, LenProperties
<1>6. \A i \in 1..chunk.size : chunk.bytes[i] \in Byte
  BY <1>3, <1>4, <1>5, ElementOfSeq
<1>7. SubSeq(chunk.bytes, 1, chunk.size) \in Seq(Byte)
  BY <1>3, <1>6, SubSeqProperties
<1> QED BY <1>2, <1>3, <1>7 DEF chunk

LEMMA TypeStep == TypeInv /\ [Next]_vars => TypeInv'
<1> SUFFICES ASSUME TypeInv, [Next]_vars PROVE TypeInv' OBVIOUS
<1>w. Word \in Nat \ {0} BY WordAssumption
<1>t. TypeOK /\ Unfinished /\ Sized BY DEF TypeInv
<1>m. MaxEdits \in Nat /\ MaxFaults \in Nat BY LimitAssumption
<1>1. CASE Measure
  <2>1. TypeOK' BY <1>t, <1>1, LengthFoundType
        DEF TypeOK, Measure, stream, clientVars, wire, budget
  <2>2. Unfinished' BY <1>t, <1>1 DEF Unfinished, Measure, wire
  <2>3. Sized' BY <1>t, <1>1 DEF Sized, Measure, wire
  <2> QED BY <2>1, <2>2, <2>3 DEF TypeInv
<1>2. CASE SendChunk
  <2> DEFINE packet == Data(serverPos, SizeArrives(ChunkRead), ChunkRead)
  <2>1. ChunkRead \in Content /\ Len(ChunkRead) \in Nat
    BY <1>t, ChunkReadFacts DEF TypeOK
  <2>2. packet \in Packet /\ packet.pid = 100 /\ packet.size <= Len(packet.bytes)
    BY <1>t, <2>1, WideAssumption DEF TypeOK, Packet, Data, SizeArrives
  <2>3. toClient \in Seq(Packet) /\ toClient' = Sent(toClient, packet)
    BY <1>t, <1>2 DEF TypeOK, SendChunk
  <2> HIDE DEF packet
  <2>4. /\ toClient' \in Seq(Packet)
        /\ Among(toClient', toClient, packet)
    BY <2>2, <2>3, SentType
  <2>5. readPos' \in Nat BY <1>t, <1>2, <2>1 DEF SendChunk, MovesOn, TypeOK
  <2>6. TypeOK' BY <1>t, <1>2, <2>4, <2>5 DEF TypeOK, SendChunk, clientVars, budget
  <2>7. Unfinished'
    <3>1. \A i \in 1..Len(toClient) : toClient[i].pid = 100
      BY <1>t, <1>2 DEF Unfinished, SendChunk
    <3>2. \A i \in 1..Len(toClient') : toClient'[i].pid = 100
      BY <3>1, <2>2, <2>4 DEF Among
    <3> QED BY <1>t, <1>2, <3>2 DEF Unfinished, SendChunk
  <2>8. Sized' BY <1>t, <2>2, <2>4 DEF Sized, Among
  <2> QED BY <2>6, <2>7, <2>8 DEF TypeInv
<1>3. CASE TakePosition
  <2>1. /\ toServer \in Seq(Answer) /\ toServer # << >>
        /\ toServer' = Tail(toServer) /\ serverPos' = Head(toServer)
    BY <1>t, <1>3 DEF TypeOK, TakePosition
  <2>2. /\ Head(toServer) \in Answer /\ Head(toServer) # Bye
        /\ toServer' \in Seq(Answer)
        /\ \A i \in 1..Len(toServer') : toServer'[i] # Bye
    BY <1>t, <1>3, <2>1, TailType DEF Unfinished, TakePosition
  <2>3. serverPos' \in 0..(Word - 1) BY <1>w, <2>1, <2>2 DEF Answer, Bye
  <2>4. TypeOK' BY <1>t, <1>3, <2>2, <2>3
        DEF TypeOK, TakePosition, stream, clientVars, budget
  <2>5. Unfinished' BY <1>t, <1>3, <2>2 DEF Unfinished, TakePosition
  <2>6. Sized' BY <1>t, <1>3 DEF Sized, TakePosition
  <2> QED BY <2>4, <2>5, <2>6 DEF TypeInv
<1>4. CASE MissPosition
  <2>1. TypeOK' BY <1>t, <1>4 DEF TypeOK, MissPosition, stream, clientVars, wire, budget
  <2>2. Unfinished' BY <1>t, <1>4 DEF Unfinished, MissPosition, wire
  <2>3. Sized' BY <1>t, <1>4 DEF Sized, MissPosition, wire
  <2> QED BY <2>1, <2>2, <2>3 DEF TypeInv
<1>5. CASE SendEnd
  <2>1. End \in Packet /\ End.pid # 100 BY DEF Packet, End
  <2>2. toClient \in Seq(Packet) /\ toClient' = Sent(toClient, End)
    BY <1>t, <1>5 DEF TypeOK, SendEnd
  <2>3. /\ toClient' \in Seq(Packet)
        /\ Among(toClient', toClient, End)
    BY <2>1, <2>2, SentType
  <2>4. TypeOK' BY <1>t, <1>5, <2>3 DEF TypeOK, SendEnd, stream, clientVars, budget
  <2>5. Unfinished' BY <1>5 DEF Unfinished, SendEnd
  <2>6. Sized' BY <1>t, <2>1, <2>3 DEF Sized, Among
  <2> QED BY <2>4, <2>5, <2>6 DEF TypeInv
<1>6. CASE ReturnFromSend
  <2>1. toServer' \in Seq(Answer)
    BY <1>t, <1>6, TailType DEF TypeOK, ReturnFromSend
  <2>2. TypeOK' BY <1>t, <1>6, <2>1 DEF TypeOK, ReturnFromSend, stream, clientVars, budget
  <2>3. Unfinished' BY <1>6 DEF Unfinished, ReturnFromSend
  <2>4. Sized' BY <1>t, <1>6 DEF Sized, ReturnFromSend
  <2> QED BY <2>2, <2>3, <2>4 DEF TypeInv
<1>7. CASE ReceiveChunk
  <2> DEFINE written == SubSeq(Head(toClient).bytes, 1, Head(toClient).size)
  <2>1. ChunkArrives /\ toClient' = Tail(toClient) /\ toServer' = Sent(toServer, clientPos')
    BY <1>7 DEF ReceiveChunk
  <2>2. toClient # << >> /\ toClient \in Seq(Packet) /\ toServer \in Seq(Answer)
        /\ target \in Seq(Byte) /\ clientPos \in 0..(Word - 1)
    BY <1>t, <2>1 DEF TypeOK, ChunkArrives
  <2>3. written \in Seq(Byte) /\ toClient' \in Seq(Packet) BY <2>1, WrittenType
  <2>4. target' \in Seq(Byte) /\ clientPos' \in 0..(Word - 1)
    <3>1. CASE clientPos = Head(toClient).pos
      <4>1. target' = target \o written /\ clientPos' = Len(target') % Word
        BY <1>7, <3>1 DEF ReceiveChunk
      <4>2. target' \in Seq(Byte) BY <4>1, <2>2, <2>3, ConcatProperties
      <4>3. Len(target') \in Nat BY <4>2, LenProperties
      <4>4. Len(target') % Word \in 0..(Word - 1) BY <1>w, <4>3
      <4>5. clientPos' = Len(target') % Word BY <4>1
      <4> QED BY <4>2, <4>4, <4>5
    <3>2. CASE clientPos # Head(toClient).pos
      BY <1>7, <2>2, <3>2 DEF ReceiveChunk
    <3> QED BY <3>1, <3>2
  <2>5. clientPos' \in Answer /\ clientPos' # Bye BY <1>w, <2>4 DEF Answer, Bye
  <2>6. /\ toServer' \in Seq(Answer)
        /\ Among(toServer', toServer, clientPos')
    BY <2>1, <2>2, <2>5, SentType
  <2>7. TypeOK' BY <1>t, <1>7, <2>3, <2>4, <2>6
        DEF TypeOK, ReceiveChunk, stream, serverVars, budget
  <2>8. \A i \in 1..Len(toClient') : i + 1 \in 1..Len(toClient) /\ toClient'[i] = toClient[i + 1]
    BY <2>1, <2>2, TailType
  <2>9. Unfinished'
    <3> HIDE DEF written
    <3>1. server' = server BY <1>7 DEF ReceiveChunk, serverVars
    <3>2. Unfinished BY <1>t
    <3> SUFFICES ASSUME server \in {"measure", "send", "await"}
                 PROVE  /\ \A i \in 1..Len(toClient') : toClient'[i].pid = 100
                        /\ \A i \in 1..Len(toServer') : toServer'[i] # Bye
      BY <3>1 DEF Unfinished
    <3>3. /\ \A i \in 1..Len(toClient) : toClient[i].pid = 100
          /\ \A i \in 1..Len(toServer) : toServer[i] # Bye
      BY <3>2 DEF Unfinished
    <3>4. \A i \in 1..Len(toClient') : toClient'[i].pid = 100 BY <2>8, <3>3
    <3>5. \A i \in 1..Len(toServer') : toServer'[i] # Bye BY <2>5, <2>6, <3>3 DEF Among
    <3> QED BY <3>4, <3>5
  <2>10. Sized' BY <1>t, <2>8 DEF Sized
  <2> QED BY <2>7, <2>9, <2>10 DEF TypeInv
<1>8. CASE FailToWrite
  <2>1. /\ ChunkArrives /\ toClient' = Tail(toClient)
        /\ toServer' = Sent(toServer, clientPos') /\ clientPos' = Word - 1
        /\ faults < MaxFaults /\ faults' = faults + 1
    BY <1>8 DEF FailToWrite
  <2>2. toClient # << >> /\ toClient \in Seq(Packet) /\ toServer \in Seq(Answer)
    BY <1>t, <2>1 DEF TypeOK, ChunkArrives
  <2>3. toClient' \in Seq(Packet) BY <2>1, WrittenType
  <2>4. clientPos' \in 0..(Word - 1) /\ clientPos' \in Answer /\ clientPos' # Bye
    BY <1>w, <2>1 DEF Answer, Bye
  <2>5. faults' \in 0..MaxFaults BY <1>t, <1>m, <2>1 DEF TypeOK
  <2>6. /\ toServer' \in Seq(Answer)
        /\ Among(toServer', toServer, clientPos')
    BY <2>1, <2>2, <2>4, SentType
  <2>7. TypeOK' BY <1>t, <1>8, <2>3, <2>4, <2>5, <2>6 DEF TypeOK, FailToWrite, stream, serverVars
  <2>8. \A i \in 1..Len(toClient') : i + 1 \in 1..Len(toClient) /\ toClient'[i] = toClient[i + 1]
    BY <2>1, <2>2, TailType
  <2>9. Unfinished'
    <3>1. server' = server BY <1>8 DEF FailToWrite, serverVars
    <3>2. Unfinished BY <1>t
    <3> SUFFICES ASSUME server \in {"measure", "send", "await"}
                 PROVE  /\ \A i \in 1..Len(toClient') : toClient'[i].pid = 100
                        /\ \A i \in 1..Len(toServer') : toServer'[i] # Bye
      BY <3>1 DEF Unfinished
    <3>3. /\ \A i \in 1..Len(toClient) : toClient[i].pid = 100
          /\ \A i \in 1..Len(toServer) : toServer[i] # Bye
      BY <3>2 DEF Unfinished
    <3>4. \A i \in 1..Len(toClient') : toClient'[i].pid = 100 BY <2>8, <3>3
    <3>5. \A i \in 1..Len(toServer') : toServer'[i] # Bye BY <2>4, <2>6, <3>3 DEF Among
    <3> QED BY <3>4, <3>5
  <2>10. Sized' BY <1>t, <2>8 DEF Sized
  <2> QED BY <2>7, <2>9, <2>10 DEF TypeInv
<1>9. CASE ReturnFromReceive
  <2>1. /\ toClient # << >> /\ Head(toClient).pid = 101 /\ toClient' = Tail(toClient)
        /\ toServer' = Sent(toServer, Bye)
    BY <1>9 DEF ReturnFromReceive
  <2>2. toClient \in Seq(Packet) /\ toServer \in Seq(Answer) BY <1>t DEF TypeOK
  <2>3. /\ toClient' \in Seq(Packet) /\ Head(toClient) = toClient[1] /\ 1 \in 1..Len(toClient)
        /\ \A i \in 1..Len(toClient') : i + 1 \in 1..Len(toClient) /\ toClient'[i] = toClient[i + 1]
    BY <2>1, <2>2, TailType
  <2>4. Bye \in Answer BY <1>w DEF Bye, Answer
  <2>5. toServer' \in Seq(Answer) BY <2>1, <2>2, <2>4, SentType
  <2>6. TypeOK' BY <1>t, <1>9, <2>3, <2>5 DEF TypeOK, ReturnFromReceive, stream, serverVars, budget
  <2>7. Unfinished' BY <1>t, <1>9, <2>1, <2>3 DEF Unfinished, ReturnFromReceive, serverVars
  <2>8. Sized' BY <1>t, <2>3 DEF Sized
  <2> QED BY <2>6, <2>7, <2>8 DEF TypeInv
<1>10. CASE EditSource
  <2>1. edits' \in 0..MaxEdits BY <1>t, <1>m, <1>10 DEF TypeOK, EditSource
  <2>2. TypeOK' BY <1>t, <1>10, <2>1 DEF TypeOK, EditSource, stream, serverVars, clientVars, wire
  <2>3. Unfinished' BY <1>t, <1>10 DEF Unfinished, EditSource, serverVars, wire
  <2>4. Sized' BY <1>t, <1>10 DEF Sized, EditSource, wire
  <2> QED BY <2>2, <2>3, <2>4 DEF TypeInv
<1>11. CASE Disconnect
  <2>1. faults' \in 0..MaxFaults BY <1>t, <1>m, <1>11 DEF TypeOK, Disconnect
  <2>2. toClient' = toClient \/ toClient' = << >> BY <1>11 DEF Disconnect
  <2>3. toServer' = toServer \/ toServer' = << >> BY <1>11 DEF Disconnect
  <2>4. toClient' \in Seq(Packet) /\ toServer' \in Seq(Answer)
    BY <1>t, <2>2, <2>3, EmptySeq DEF TypeOK
  <2>5. TypeOK' BY <1>t, <1>11, <2>1, <2>4
        DEF TypeOK, Disconnect, stream, serverVars, clientVars
  <2>6. Unfinished' BY <1>t, <1>11, <2>2, <2>3 DEF Unfinished, Disconnect, serverVars
  <2>7. Sized' BY <1>t, <2>2 DEF Sized
  <2> QED BY <2>5, <2>6, <2>7 DEF TypeInv
<1>12. CASE UNCHANGED vars
  <2>1. TypeOK' BY <1>t, <1>12 DEF TypeOK, vars, stream, serverVars, clientVars, wire, budget
  <2>2. Unfinished' BY <1>t, <1>12 DEF Unfinished, vars, serverVars, wire
  <2>3. Sized' BY <1>t, <1>12 DEF Sized, vars, wire
  <2> QED BY <2>1, <2>2, <2>3 DEF TypeInv
<1> QED BY <1>1, <1>2, <1>3, <1>4, <1>5, <1>6, <1>7, <1>8, <1>9, <1>10, <1>11, <1>12
        DEF Next, SendFile, ReceiveFile

(***************************************************************************)
(* Every variable of sendFile and receiveFile keeps its type, also when    *)
(* users edit the file and when things fail: TypeOK.                       *)
(***************************************************************************)
THEOREM TransferTypes == Spec => []TypeOK
<1>1. Init => TypeInv BY TypeInit
<1>2. TypeInv /\ [Next]_vars => TypeInv' BY TypeStep
<1>3. TypeInv => TypeOK BY DEF TypeInv
<1> QED BY <1>1, <1>2, <1>3, PTL DEF Spec
-----------------------------------------------------------------------------
(* Lockstep: one packet is under way at a time.                            *)

\* Nothing has come between the two sides.
Steady == connected /\ clientPos = Len(target)

Quiet == toClient = << >> /\ toServer = << >>

\* The server waits for the client's position.
ChunkAway ==
    /\ toServer = << >> /\ serverPos = clientPos
    /\ \E bytes \in Content :
          /\ toClient = <<Data(serverPos, Len(bytes), bytes)>>
          /\ readPos = Len(target) + Len(bytes)
AnswerAway == toClient = << >> /\ toServer = <<clientPos>> /\ readPos = Len(target)

\* The server has sent the end packet.
EndAway == client = "receive" /\ toClient = <<End>> /\ toServer = << >>
ByeAway == client = "done" /\ toClient = << >> /\ toServer = <<Bye>>

Lockstep ==
    /\ server \in {"measure", "send"} =>
          /\ Quiet /\ client = "receive"
          /\ readPos = Len(target) /\ serverPos = clientPos
    /\ server = "await" => client = "receive" /\ (ChunkAway \/ AnswerAway)
    /\ server = "end" => (EndAway \/ ByeAway) /\ length <= clientPos
    /\ server = "done" => client = "done" /\ Quiet /\ length <= clientPos

\* A chunk is never sent from the position that stands for -1, so that a
\* client whose write has failed writes no more.
ChunksBelow ==
    \A i \in 1..Len(toClient) : toClient[i].pid = 100 => toClient[i].pos < Word - 1

LockstepInv ==
    /\ ChunksBelow
    /\ readPos <= MaxLength
    /\ connected => /\ clientPos \in {Len(target), Word - 1}
                    /\ Len(target) <= MaxLength
    /\ Steady => Lockstep

\* What a channel of one packet is.
LEMMA OnePacket ==
    ASSUME NEW e
    PROVE  /\ Head(<<e>>) = e /\ Tail(<<e>>) = << >> /\ <<e>> # << >>
           /\ Append(<< >>, e) = <<e>> /\ Len(<<e>>) = 1
  OBVIOUS

\* What is left of a channel after its head is taken.
LEMMA ChunksBelowKept ==
    ASSUME ChunksBelow, TypeInv,
           \/ toClient' = toClient
           \/ toClient' = << >>
           \/ toClient # << >> /\ toClient' = Tail(toClient)
    PROVE  ChunksBelow'
<1>1. CASE toClient' = toClient BY <1>1 DEF ChunksBelow
<1>2. CASE toClient' = << >> BY <1>2 DEF ChunksBelow
<1>3. CASE toClient # << >> /\ toClient' = Tail(toClient)
  <2>1. toClient \in Seq(Packet) BY DEF TypeInv, TypeOK
  <2>2. \A i \in 1..Len(toClient') : i + 1 \in 1..Len(toClient) /\ toClient'[i] = toClient[i + 1]
    BY <1>3, <2>1, TailType
  <2> QED BY <2>2 DEF ChunksBelow
<1> QED BY <1>1, <1>2, <1>3

LEMMA LockstepInit == Narrow /\ Init => LockstepInv
<1> SUFFICES ASSUME Narrow, Init PROVE LockstepInv OBVIOUS
<1>1. MaxLength \in Nat BY LimitAssumption
<1>2. Len(target) = 0 BY EmptySeq DEF Init
<1>3. ChunksBelow BY DEF Init, ChunksBelow
<1>4. Lockstep BY <1>2 DEF Init, Lockstep, Quiet
<1> QED BY <1>1, <1>2, <1>3, <1>4 DEF Init, LockstepInv

\* The chunk at the head of the channel in lockstep.
LEMMA ChunkFacts ==
    ASSUME Narrow, TypeInv, LockstepInv, Steady, ChunkArrives
    PROVE  /\ server = "await" /\ client = "receive" /\ Head(toClient).pos = clientPos
           /\ toServer = << >> /\ Tail(toClient) = << >> /\ serverPos = clientPos
           /\ SubSeq(Head(toClient).bytes, 1, Head(toClient).size) = Head(toClient).bytes
           /\ Head(toClient).bytes \in Content
           /\ readPos = Len(target) + Len(Head(toClient).bytes)
<1>1. Lockstep /\ toClient # << >> /\ Head(toClient).pid = 100 /\ client = "receive"
  BY DEF LockstepInv, ChunkArrives
<1>2. End.pid # 100 BY DEF End
<1>3. ~EndAway BY <1>1, <1>2, OnePacket DEF EndAway
<1>4. server \in {"measure", "send", "await", "end", "done"} BY DEF TypeInv, TypeOK
<1>5. server = "await" /\ ChunkAway
  BY <1>1, <1>3, <1>4 DEF Lockstep, Quiet, AnswerAway, ByeAway
<1>6. PICK bytes \in Content : /\ toClient = <<Data(serverPos, Len(bytes), bytes)>>
                               /\ readPos = Len(target) + Len(bytes)
  BY <1>5 DEF ChunkAway
<1>7. Head(toClient) = Data(serverPos, Len(bytes), bytes) /\ Tail(toClient) = << >>
  BY <1>6, OnePacket
<1>8. Head(toClient).bytes = bytes /\ Head(toClient).size = Len(bytes)
      /\ Head(toClient).pos = serverPos
  BY <1>7 DEF Data
<1>9. SubSeq(bytes, 1, Len(bytes)) = bytes BY ContentIsBounded, SubSeqFull
<1> QED BY <1>1, <1>5, <1>6, <1>7, <1>8, <1>9 DEF ChunkAway

LEMMA LockstepStep == Narrow /\ TypeInv /\ LockstepInv /\ [Next]_vars => LockstepInv'
<1> SUFFICES ASSUME Narrow, TypeInv, LockstepInv, [Next]_vars PROVE LockstepInv' OBVIOUS
<1>w. /\ Word \in Nat /\ MaxLength \in Nat /\ MaxLength + 1 < Word /\ ~WideSize
      /\ Len(target) \in Nat /\ clientPos \in 0..(Word - 1) /\ serverPos \in 0..(Word - 1)
      /\ target \in Seq(Byte) /\ readPos \in Nat
  BY WordAssumption, LimitAssumption, LenProperties DEF Narrow, TypeInv, TypeOK
<1>i. /\ ChunksBelow /\ readPos <= MaxLength
      /\ connected => clientPos \in {Len(target), Word - 1} /\ Len(target) <= MaxLength
      /\ Steady => Lockstep
  BY DEF LockstepInv
<1>1. CASE Measure
  <2>1. Lockstep => Lockstep'
    BY <1>1 DEF Lockstep, Quiet, Measure, clientVars, wire, stream
  <2>2. ChunksBelow' BY <1>i, <1>1, ChunksBelowKept DEF Measure, wire
  <2> QED BY <1>i, <1>1, <2>1, <2>2
          DEF LockstepInv, Steady, Measure, clientVars, wire, stream
<1>2. CASE SendChunk
  <2> DEFINE packet == Data(serverPos, SizeArrives(ChunkRead), ChunkRead)
  <2>1. /\ ChunkRead \in Content /\ Len(ChunkRead) \in Nat
        /\ readPos + Len(ChunkRead) <= MaxLength
    BY <1>i, ChunkReadFacts DEF TypeInv, TypeOK
  <2>2. readPos' <= MaxLength BY <1>2, <2>1 DEF SendChunk, MovesOn
  <2>3. packet = Data(serverPos, Len(ChunkRead), ChunkRead) /\ packet.pos = serverPos
        /\ packet \in Packet
    BY <1>w, <2>1 DEF SizeArrives, Data, Packet
  <2>4. serverPos < Word - 1
    BY <1>w, <1>2 DEF SendChunk, MoreToSend, TypeInv, TypeOK
  <2>5. toClient' = Sent(toClient, packet) /\ toClient \in Seq(Packet)
    BY <1>2 DEF SendChunk, TypeInv, TypeOK
  <2>6. ChunksBelow'
    <3>1. Among(toClient', toClient, packet)
      <4> HIDE DEF packet
      <4> QED BY <2>3, <2>5, SentType
    <3> HIDE DEF packet
    <3> QED BY <1>i, <2>3, <2>4, <3>1 DEF ChunksBelow, Among
  <2>7. ASSUME Steady PROVE Lockstep'
    <3>1. Quiet /\ client = "receive" /\ readPos = Len(target) /\ serverPos = clientPos
      BY <1>i, <1>2, <2>7 DEF Lockstep, SendChunk
    <3>2. toClient' = <<Data(serverPos, Len(ChunkRead), ChunkRead)>>
      BY <2>3, <2>5, <2>7, <3>1, OnePacket DEF Sent, Steady, Quiet
    <3>3. ChunkAway'
      BY <1>2, <2>1, <3>1, <3>2 DEF ChunkAway, SendChunk, MovesOn, Quiet, clientVars
    <3> QED BY <1>2, <3>1, <3>3 DEF Lockstep, SendChunk, clientVars
  <2> QED BY <1>i, <1>2, <2>2, <2>6, <2>7 DEF LockstepInv, Steady, SendChunk, clientVars
<1>3. CASE TakePosition
  <2>1. ChunksBelow' BY <1>i, <1>3, ChunksBelowKept DEF TakePosition
  <2>2. ASSUME Steady PROVE Lockstep'
    <3>1. AnswerAway /\ client = "receive"
      BY <1>i, <1>3, <2>2 DEF Lockstep, TakePosition, ChunkAway
    <3>2. Head(toServer) = clientPos /\ Tail(toServer) = << >>
      BY <3>1, OnePacket DEF AnswerAway
    <3> QED BY <1>3, <3>1, <3>2
            DEF Lockstep, TakePosition, Quiet, AnswerAway, clientVars, stream
  <2> QED BY <1>i, <1>3, <2>1, <2>2 DEF LockstepInv, Steady, TakePosition, clientVars, stream
<1>4. CASE MissPosition
  <2>1. ChunksBelow' BY <1>i, <1>4, ChunksBelowKept DEF MissPosition, wire
  <2> QED BY <1>i, <1>4, <2>1 DEF LockstepInv, Steady, MissPosition, clientVars, wire, stream
<1>5. CASE SendEnd
  <2>1. ChunksBelow'
    <3>1. End \in Packet /\ End.pid # 100 BY DEF End, Packet
    <3>2. toClient \in Seq(Packet) /\ toClient' = Sent(toClient, End)
      BY <1>5 DEF SendEnd, TypeInv, TypeOK
    <3>3. Among(toClient', toClient, End) BY <3>1, <3>2, SentType
    <3> QED BY <1>i, <3>1, <3>3 DEF ChunksBelow, Among
  <2>2. ASSUME Steady PROVE Lockstep'
    <3>1. Quiet /\ client = "receive" /\ serverPos = clientPos
      BY <1>i, <1>5, <2>2 DEF Lockstep, SendEnd
    <3>2. toClient' = <<End>>
      BY <1>5, <2>2, <3>1, OnePacket DEF SendEnd, Sent, Steady, Quiet
    <3>3. length <= clientPos BY <1>w, <1>5, <3>1 DEF SendEnd, MoreToSend, TypeInv, TypeOK
    <3> QED BY <1>5, <3>1, <3>2, <3>3 DEF Lockstep, SendEnd, EndAway, Quiet, clientVars
  <2> QED BY <1>i, <1>5, <2>1, <2>2 DEF LockstepInv, Steady, SendEnd, clientVars, stream
<1>6. CASE ReturnFromSend
  <2>1. ChunksBelow' BY <1>i, <1>6, ChunksBelowKept DEF ReturnFromSend
  <2>2. ASSUME Steady PROVE Lockstep'
    <3>1. ByeAway /\ length <= clientPos
      BY <1>i, <1>6, <2>2 DEF Lockstep, ReturnFromSend, EndAway, Steady
    <3>2. Tail(toServer) = << >> BY <3>1, OnePacket DEF ByeAway
    <3> QED BY <1>6, <3>1, <3>2 DEF Lockstep, ReturnFromSend, Quiet, ByeAway, clientVars
  <2> QED BY <1>i, <1>6, <2>1, <2>2 DEF LockstepInv, Steady, ReturnFromSend, clientVars, stream
<1>7. CASE ReceiveChunk
  <2> DEFINE chunk == Head(toClient)
             written == SubSeq(chunk.bytes, 1, chunk.size)
  <2>1. ChunkArrives /\ toClient # << >> /\ toClient' = Tail(toClient)
        /\ toServer' = Sent(toServer, clientPos')
        /\ UNCHANGED <<readPos, connected, server, length, client>>
    BY <1>7 DEF ReceiveChunk, ChunkArrives, stream, serverVars
  <2>2. ChunksBelow' BY <1>i, <2>1, ChunksBelowKept
  <2>3. CASE clientPos # chunk.pos
    <3>1. UNCHANGED <<target, clientPos>> BY <1>7, <2>3 DEF ReceiveChunk
    <3>2. ~Steady BY <2>1, <2>3, ChunkFacts
    <3> QED BY <1>i, <2>1, <2>2, <3>1, <3>2 DEF LockstepInv, Steady
  <2>4. CASE clientPos = chunk.pos /\ ~connected
    BY <1>i, <2>1, <2>2, <2>4 DEF LockstepInv, Steady
  <2>5. CASE clientPos = chunk.pos /\ connected
    <3>1. chunk = toClient[1] /\ 1 \in 1..Len(toClient) /\ chunk.pid = 100
      BY <2>1, TailType DEF TypeInv, TypeOK, ChunkArrives
    <3>2. chunk.pos < Word - 1 BY <1>i, <3>1 DEF ChunksBelow
    <3>3. Steady BY <1>w, <1>i, <2>5, <3>2 DEF Steady
    <3>4. /\ server = "await" /\ client = "receive" /\ toServer = << >>
          /\ Tail(toClient) = << >> /\ serverPos = clientPos /\ written = chunk.bytes
          /\ chunk.bytes \in Content /\ readPos = Len(target) + Len(chunk.bytes)
      BY <2>1, <3>3, ChunkFacts
    <3>5. target' = target \o chunk.bytes /\ clientPos' = Len(target') % Word
      BY <1>7, <2>5, <3>4 DEF ReceiveChunk
    <3>6. Len(target') = readPos
      <4>1. chunk.bytes \in Seq(Byte) BY <3>4, ContentIsBounded
      <4> QED BY <1>w, <3>4, <3>5, <4>1, ConcatProperties
    <3>7. clientPos' = readPos /\ readPos \in Nat /\ readPos <= MaxLength
      <4>1. readPos \in 0..(Word - 1) BY <1>w, <1>i
      <4>2. readPos % Word = readPos
        <5> HIDE DEF chunk, written
        <5> QED BY <1>w, <4>1
      <4> QED BY <1>i, <1>w, <3>5, <3>6, <4>2
    <3>8. toServer' = <<clientPos'>> /\ toClient' = << >>
      BY <2>1, <2>5, <3>4, OnePacket DEF Sent
    <3>9. Lockstep' BY <2>1, <3>4, <3>6, <3>7, <3>8 DEF Lockstep, AnswerAway
    <3> QED BY <2>1, <2>2, <3>6, <3>7, <3>9 DEF LockstepInv, Steady
  <2> QED BY <2>3, <2>4, <2>5
<1>8. CASE FailToWrite
  <2>1. /\ ChunkArrives /\ toClient # << >> /\ toClient' = Tail(toClient)
        /\ clientPos' = Word - 1 /\ UNCHANGED <<target, connected, readPos>>
    BY <1>8 DEF FailToWrite, ChunkArrives, stream, serverVars
  <2>2. ChunksBelow' BY <1>i, <2>1, ChunksBelowKept
  <2>3. connected => clientPos' # Len(target') BY <1>w, <1>i, <2>1
  <2> QED BY <1>i, <2>1, <2>2, <2>3 DEF LockstepInv, Steady
<1>9. CASE ReturnFromReceive
  <2>1. /\ toClient # << >> /\ Head(toClient).pid = 101 /\ toClient' = Tail(toClient)
        /\ toServer' = Sent(toServer, Bye) /\ client = "receive" /\ client' = "done"
        /\ UNCHANGED <<target, clientPos, connected, readPos, server, length>>
    BY <1>9 DEF ReturnFromReceive, stream, serverVars
  <2>2. ChunksBelow' BY <1>i, <2>1, ChunksBelowKept
  <2>3. ASSUME Steady PROVE Lockstep'
    <3>1. ~ChunkAway
      BY <2>1, OnePacket DEF ChunkAway, Data
    <3>2. server = "end" /\ EndAway /\ length <= clientPos
      BY <1>i, <2>1, <2>3, <3>1
         DEF Lockstep, Quiet, AnswerAway, ByeAway, TypeInv, TypeOK
    <3>3. toClient' = << >> /\ toServer' = <<Bye>>
      BY <2>1, <2>3, <3>2, OnePacket DEF EndAway, Sent, Steady
    <3> QED BY <2>1, <3>2, <3>3 DEF Lockstep, ByeAway
  <2> QED BY <1>i, <2>1, <2>2, <2>3 DEF LockstepInv, Steady
<1>10. CASE EditSource
  <2>1. Lockstep => Lockstep'
    BY <1>10 DEF Lockstep, Quiet, ChunkAway, AnswerAway, EndAway, ByeAway,
                 EditSource, stream, serverVars, clientVars, wire
  <2>2. ChunksBelow' BY <1>i, <1>10, ChunksBelowKept DEF EditSource, wire
  <2> QED BY <1>i, <1>10, <2>1, <2>2
          DEF LockstepInv, Steady, EditSource, stream, clientVars, wire
<1>11. CASE Disconnect
  <2>1. ChunksBelow' BY <1>i, <1>11, ChunksBelowKept DEF Disconnect
  <2> QED BY <1>i, <1>11, <2>1 DEF LockstepInv, Steady, Disconnect, stream
<1>12. CASE UNCHANGED vars
  <2>1. Lockstep => Lockstep'
    BY <1>12 DEF Lockstep, Quiet, ChunkAway, AnswerAway, EndAway, ByeAway,
                 vars, stream, serverVars, clientVars, wire
  <2>2. ChunksBelow' BY <1>i, <1>12, ChunksBelowKept DEF vars, wire
  <2> QED BY <1>i, <1>12, <2>1, <2>2 DEF LockstepInv, Steady, vars, stream, clientVars, wire
<1> QED BY <1>1, <1>2, <1>3, <1>4, <1>5, <1>6, <1>7, <1>8, <1>9, <1>10, <1>11, <1>12
        DEF Next, SendFile, ReceiveFile

-----------------------------------------------------------------------------
(* The copy.                                                               *)

Prefix(s, n) == SubSeq(s, 1, n)

\* As long as nothing is disturbed, what is written is a prefix of the file,
\* and the chunk under way is what follows it.
CopyInv ==
    ~Disturbed =>
        /\ Steady
        /\ Len(target) <= Len(source) /\ target = Prefix(source, Len(target))
        /\ server # "measure" => Len(source) <= length
        /\ readPos <= Len(source)
        /\ toClient # << >> /\ Head(toClient).pid = 100 =>
               Head(toClient).bytes = SubSeq(source, Len(target) + 1, readPos)

IInv == TypeInv /\ LockstepInv /\ CopyInv

\* A prefix and what follows it make a longer prefix.
LEMMA PrefixGrows ==
    ASSUME NEW s \in Seq(Byte), NEW i \in 0..Len(s), NEW j \in i..Len(s)
    PROVE  SubSeq(s, 1, i) \o SubSeq(s, i + 1, j) = SubSeq(s, 1, j)
<1>1. Len(s) \in Nat BY LenProperties
<1>2. 1 \in 1..(Len(s) + 1) /\ i \in (1 - 1)..Len(s) /\ j \in i..Len(s) BY <1>1
<1> QED BY <1>2, ConcatAdjacentSubSeq

LEMMA CopyInit == Init => CopyInv
<1> SUFFICES ASSUME Init PROVE CopyInv OBVIOUS
<1>1. Len(target) = 0 /\ target = << >> /\ Len(source) \in Nat
  BY ContentIsBounded, LenProperties DEF Init
<1>2. Prefix(source, 0) = << >> BY SubSeqEmpty DEF Prefix
<1> QED BY <1>1, <1>2 DEF Init, CopyInv, Steady

LEMMA CopyStep ==
    Narrow /\ TypeInv /\ LockstepInv /\ CopyInv /\ [Next]_vars => CopyInv'
<1> SUFFICES ASSUME Narrow, TypeInv, LockstepInv, CopyInv, [Next]_vars, ~Disturbed'
             PROVE  CopyInv'
  BY DEF CopyInv
<1>w. /\ Word \in Nat /\ MaxLength \in Nat /\ MaxLength + 1 < Word
      /\ edits \in Nat /\ faults \in Nat /\ readPos \in Nat /\ source \in Content
      /\ target \in Seq(Byte) /\ Len(target) \in Nat
      /\ source \in Seq(Byte) /\ Len(source) \in Nat /\ Len(source) <= MaxLength
  BY WordAssumption, LimitAssumption, LenProperties, ContentIsBounded DEF Narrow, TypeInv, TypeOK
<1>1. ~EditSource /\ ~Disconnect /\ ~FailToWrite
  BY <1>w DEF Disturbed, EditSource, Disconnect, FailToWrite
<1>2. ~Disturbed
  BY <1>1 DEF Disturbed, Next, SendFile, ReceiveFile, Measure, SendChunk, TakePosition,
              MissPosition, SendEnd, ReturnFromSend, ReceiveChunk, ReturnFromReceive, vars, budget
<1>i. /\ Steady /\ Lockstep
      /\ Len(target) <= Len(source) /\ target = Prefix(source, Len(target))
      /\ server # "measure" => Len(source) <= length
      /\ readPos <= Len(source)
      /\ toClient # << >> /\ Head(toClient).pid = 100 =>
               Head(toClient).bytes = SubSeq(source, Len(target) + 1, readPos)
  BY <1>2 DEF CopyInv, LockstepInv
<1>3. CASE Measure
  <2>1. length' = LengthFound /\ UNCHANGED <<source, target, readPos, toClient, clientPos, connected>>
    BY <1>3 DEF Measure, stream, clientVars, wire
  <2>2. Len(source) <= LengthFound
    <3>1. Len(source) \in 0..(Word - 1) BY <1>w
    <3>2. Len(source) % Word = Len(source) BY <1>w, <3>1
    <3> QED BY <1>w, <3>2 DEF LengthFound
  <2> QED BY <1>i, <2>1, <2>2 DEF CopyInv, Steady
<1>4. CASE SendChunk
  <2>1. /\ toClient = << >> /\ readPos = Len(target) /\ server = "send" /\ server' = "await"
        /\ toClient' = Append(toClient, Data(serverPos, SizeArrives(ChunkRead), ChunkRead))
        /\ readPos' = readPos + Len(ChunkRead)
        /\ UNCHANGED <<source, target, length, clientPos, connected>>
    BY <1>4, <1>i DEF SendChunk, Lockstep, Quiet, Steady, Sent, MovesOn, clientVars
  <2>2. Head(toClient').bytes = ChunkRead BY <2>1, OnePacket DEF Data
  <2>3. readPos' <= Len(source) /\ ChunkRead = SubSeq(source, readPos + 1, readPos')
    BY <1>w, <1>i, <2>1, ChunkReadFacts
  <2> QED BY <1>i, <2>1, <2>2, <2>3 DEF CopyInv, Steady
<1>5. CASE TakePosition \/ ReturnFromSend
  <2>1. UNCHANGED <<source, target, readPos, length, toClient, clientPos, connected>>
        /\ server # "measure"
    BY <1>5 DEF TakePosition, ReturnFromSend, stream, clientVars
  <2> QED BY <1>i, <2>1 DEF CopyInv, Steady
<1>6. CASE MissPosition
  BY <1>i, <1>6 DEF MissPosition, Steady
<1>7. CASE SendEnd
  <2>1. /\ toClient = << >> /\ toClient' = <<End>> /\ server # "measure"
        /\ UNCHANGED <<source, target, readPos, length, clientPos, connected>>
    BY <1>7, <1>i, OnePacket DEF SendEnd, Lockstep, Quiet, Steady, Sent, stream, clientVars
  <2>2. Head(toClient').pid # 100 BY <2>1, OnePacket DEF End
  <2> QED BY <1>i, <2>1, <2>2 DEF CopyInv, Steady
<1>8. CASE ReceiveChunk
  <2> DEFINE chunk == Head(toClient)
  <2>1. ChunkArrives /\ toClient # << >> /\ chunk.pid = 100 /\ toClient' = Tail(toClient)
        /\ UNCHANGED <<source, readPos, connected, server, length>>
    BY <1>8 DEF ReceiveChunk, ChunkArrives, stream, serverVars
  <2>2. /\ chunk.pos = clientPos /\ Tail(toClient) = << >> /\ chunk.bytes \in Content
        /\ SubSeq(chunk.bytes, 1, chunk.size) = chunk.bytes
        /\ readPos = Len(target) + Len(chunk.bytes)
    BY <1>i, <2>1, ChunkFacts
  <2>3. target' = target \o chunk.bytes BY <1>8, <2>2 DEF ReceiveChunk
  <2>4. Len(target') = readPos
    <3>1. chunk.bytes \in Seq(Byte) BY <2>2, ContentIsBounded
    <3> QED BY <1>w, <2>2, <2>3, <3>1, ConcatProperties
  <2>5. target' = Prefix(source, readPos)
    <3>1. target = SubSeq(source, 1, Len(target))
          /\ chunk.bytes = SubSeq(source, Len(target) + 1, readPos)
      BY <1>i, <2>1 DEF Prefix
    <3>2. Len(target) \in 0..Len(source) /\ readPos \in Len(target)..Len(source)
      <4>1. Len(chunk.bytes) \in Nat BY <2>2, ContentIsBounded, LenProperties
      <4> QED BY <1>w, <1>i, <2>2, <4>1
    <3>3. SubSeq(source, 1, Len(target)) \o SubSeq(source, Len(target) + 1, readPos)
             = SubSeq(source, 1, readPos)
      BY <1>w, <3>2, PrefixGrows
    <3> QED BY <2>3, <3>1, <3>3 DEF Prefix
  <2>6. Steady'
    <3>1. clientPos' = Len(target') % Word BY <1>8, <2>2 DEF ReceiveChunk
    <3>2. readPos \in 0..(Word - 1) BY <1>w, <1>i
    <3>3. readPos % Word = readPos
      <4> HIDE DEF chunk
      <4> QED BY <1>w, <3>2
    <3> QED BY <1>i, <2>1, <2>4, <3>1, <3>3 DEF Steady
  <2> QED BY <1>i, <2>1, <2>2, <2>4, <2>5, <2>6 DEF CopyInv
<1>9. CASE ReturnFromReceive
  <2>1. /\ toClient # << >> /\ Head(toClient).pid = 101 /\ toClient' = Tail(toClient)
        /\ UNCHANGED <<source, target, readPos, server, length, clientPos, connected>>
    BY <1>9 DEF ReturnFromReceive, stream, serverVars
  <2>2. toClient' = << >>
    BY <1>i, <2>1, OnePacket
       DEF Lockstep, Quiet, ChunkAway, AnswerAway, EndAway, ByeAway, TypeInv, TypeOK
  <2> QED BY <1>i, <2>1, <2>2 DEF CopyInv, Steady
<1>10. CASE UNCHANGED vars
  BY <1>i, <1>10 DEF CopyInv, Steady, vars, stream, serverVars, clientVars, wire
<1> QED BY <1>1, <1>3, <1>4, <1>5, <1>6, <1>7, <1>8, <1>9, <1>10 DEF Next, SendFile, ReceiveFile

LEMMA TransferInvariant == Narrow => (Spec => []IInv)
<1> SUFFICES ASSUME Narrow PROVE Spec => []IInv OBVIOUS
<1>1. Init => IInv BY TypeInit, LockstepInit, CopyInit DEF IInv
<1>2. IInv /\ [Next]_vars => IInv' BY TypeStep, LockstepStep, CopyStep DEF IInv
<1> QED BY <1>1, <1>2, PTL DEF Spec

(***************************************************************************)
(* sendFile never seeks, and never has to: NoSeekNeeded, for files of any  *)
(* length below the limit, whatever users do to the file meanwhile.        *)
(***************************************************************************)
THEOREM ReadingOnIsEnough == Narrow => (Spec => []NoSeekNeeded)
<1>1. IInv => NoSeekNeeded BY DEF IInv, LockstepInv, Lockstep, Steady, NoSeekNeeded
<1> QED BY <1>1, TransferInvariant, PTL

(***************************************************************************)
(* The two loops implement the delivery of a file in one step, which is    *)
(* the step Transfer of FileSync: Delivers, by step simulation.            *)
(***************************************************************************)
THEOREM TransferDelivers == Narrow => (Spec => Delivers)
<1> SUFFICES ASSUME Narrow PROVE Spec => Delivers OBVIOUS
<1>1. Init => Copy!Init
  BY ContentIsBounded DEF Init, Copy!Init, Delivered, Disturbed
<1>2. ASSUME IInv, IInv', [Next]_vars
      PROVE  [Copy!Next]_<<source, Delivered, Disturbed>>
  <2>w. /\ edits \in Nat /\ faults \in Nat /\ edits' \in Nat /\ faults' \in Nat
        /\ source' \in Seq(Byte) /\ target \in Seq(Byte)
    BY <1>2, LimitAssumption, ContentIsBounded DEF IInv, TypeInv, TypeOK
  <2>1. CASE EditSource \/ Disconnect \/ FailToWrite
    <3>1. Disturbed' /\ UNCHANGED Delivered
      <4>1. CASE EditSource
        BY <2>w, <4>1 DEF EditSource, Disturbed, Delivered, clientVars
      <4>2. CASE Disconnect
        BY <2>w, <4>2 DEF Disconnect, Disturbed, Delivered, clientVars
      <4>3. CASE FailToWrite
        BY <2>w, <4>3 DEF FailToWrite, Disturbed, Delivered
      <4> QED BY <2>1, <4>1, <4>2, <4>3
    <3> QED BY <2>w, <3>1 DEF Copy!Next, Copy!Disturb
  <2>2. CASE ReturnFromReceive
    <3>1. /\ Delivered = NoCopy /\ Delivered' = target
          /\ UNCHANGED <<source, Disturbed>> /\ toClient # << >> /\ Head(toClient).pid = 101
      BY <2>2 DEF ReturnFromReceive, Delivered, Disturbed, budget
    <3>2. ASSUME ~Disturbed PROVE target = source
      <4>1. /\ Steady /\ Lockstep
            /\ Len(target) <= Len(source) /\ target = Prefix(source, Len(target))
            /\ server # "measure" => Len(source) <= length
        BY <1>2, <3>2 DEF IInv, CopyInv, LockstepInv
      <4>2. ~ChunkAway BY <3>1, OnePacket DEF ChunkAway, Data
      <4>3. server = "end" /\ length <= clientPos
        BY <1>2, <3>1, <4>1, <4>2 DEF Lockstep, Quiet, AnswerAway, IInv, TypeInv, TypeOK
      <4>4. source \in Seq(Byte) /\ Len(source) \in Nat /\ Len(target) \in Nat
            /\ length \in Nat
        BY <1>2, ContentIsBounded, LenProperties, WordAssumption DEF IInv, TypeInv, TypeOK
      <4>5. Len(target) = Len(source) BY <4>1, <4>3, <4>4 DEF Steady
      <4> QED BY <4>1, <4>4, <4>5, SubSeqFull DEF Prefix
    <3> QED BY <2>w, <3>1, <3>2 DEF Copy!Next, Copy!Deliver
  <2>3. CASE ReceiveChunk
    BY <2>3 DEF ReceiveChunk, ChunkArrives, Delivered, Disturbed, budget
  <2>4. CASE SendFile \/ UNCHANGED vars
    BY <2>4 DEF SendFile, Measure, SendChunk, TakePosition, MissPosition, SendEnd,
                ReturnFromSend, Delivered, Disturbed, clientVars, budget, vars
  <2> QED BY <1>2, <2>1, <2>2, <2>3, <2>4 DEF Next, ReceiveFile
<1>3. Spec => []IInv BY TransferInvariant
<1> QED BY <1>1, <1>2, <1>3, PTL DEF Spec, Delivers, Copy!Spec

-----------------------------------------------------------------------------
(* How much of the file arrives.                                           *)

\* An end packet is under way, or has come.
Ended == client = "done" \/ \E i \in 1..Len(toClient) : toClient[i].pid = 101

LongEnough ==
    clientPos = Len(target) => length <= Len(target) /\ Len(target) < length + ChunkSize

\* No chunk is under way that the client would write.
NothingToWrite ==
    \A i \in 1..Len(toClient) : toClient[i].pid = 100 => toClient[i].pos # clientPos

MeasuredInv ==
    /\ server = "measure" => readPos = 0
    /\ server \in {"measure", "send", "await"} => ~Ended
    /\ Ended => LongEnough /\ NothingToWrite
    /\ Steady /\ server # "measure" => readPos < length + ChunkSize

LEMMA MeasuredInit == Init => MeasuredInv
BY EmptySeq DEF Init, MeasuredInv, Ended

\* A chunk has at most ChunkSize bytes.
LEMMA ChunkIsShort == TypeInv => Len(ChunkRead) <= ChunkSize
<1> SUFFICES ASSUME TypeInv PROVE Len(ChunkRead) <= ChunkSize OBVIOUS
<1> DEFINE last == Least(readPos + ChunkSize, Len(source))
<1>1. /\ readPos \in Nat /\ ChunkSize \in Nat /\ source \in Seq(Byte) /\ Len(source) \in Nat
  BY ChunkAssumption, ContentIsBounded DEF TypeInv, TypeOK
<1>2. last \in Nat /\ last <= readPos + ChunkSize BY <1>1 DEF Least
<1>3. CASE opened /\ ~atEnd
  <2>1. ChunkRead = SubSeq(source, readPos + 1, last) BY <1>3 DEF ChunkRead
  <2> HIDE DEF last
  <2>2. Len(SubSeq(source, readPos + 1, last))
          = IF readPos + 1 <= last THEN last - (readPos + 1) + 1 ELSE 0
    <3>1. last <= Len(source) BY <1>1 DEF last, Least
    <3>2. \A j \in (readPos + 1)..last : source[j] \in Byte
      BY <1>1, <1>2, <3>1, ElementOfSeq
    <3> QED BY <1>1, <1>2, <3>2, SubSeqProperties
  <2> QED BY <1>1, <1>2, <2>1, <2>2
<1>4. CASE ~(opened /\ ~atEnd)
  BY <1>1, <1>4, EmptySeq DEF ChunkRead
<1> QED BY <1>3, <1>4

\* What a step that sends nothing to the client leaves.
LEMMA EndedKept ==
    ASSUME TypeInv, client' = client,
           \/ toClient' = toClient
           \/ toClient' = << >>
           \/ toClient # << >> /\ toClient' = Tail(toClient)
    PROVE  /\ Ended' => Ended
           /\ NothingToWrite /\ clientPos' = clientPos => NothingToWrite'
<1>1. CASE toClient' = toClient BY <1>1 DEF Ended, NothingToWrite
<1>2. CASE toClient' = << >> BY <1>2, EmptySeq DEF Ended, NothingToWrite
<1>3. CASE toClient # << >> /\ toClient' = Tail(toClient)
  <2>1. toClient \in Seq(Packet) BY DEF TypeInv, TypeOK
  <2>2. \A i \in 1..Len(toClient') : i + 1 \in 1..Len(toClient) /\ toClient'[i] = toClient[i + 1]
    BY <1>3, <2>1, TailType
  <2>3. ASSUME Ended' PROVE Ended
    <3>1. CASE client = "done" BY <3>1 DEF Ended
    <3>2. CASE client # "done"
      <4>1. PICK i \in 1..Len(toClient') : toClient'[i].pid = 101 BY <2>3, <3>2 DEF Ended
      <4>2. i + 1 \in 1..Len(toClient) /\ toClient[i + 1].pid = 101 BY <2>2, <4>1
      <4> QED BY <4>2 DEF Ended
    <3> QED BY <3>1, <3>2
  <2>4. NothingToWrite /\ clientPos' = clientPos => NothingToWrite'
    BY <2>2 DEF NothingToWrite
  <2> QED BY <2>3, <2>4
<1> QED BY <1>1, <1>2, <1>3

LEMMA MeasuredStep ==
    Narrow /\ TypeInv /\ LockstepInv /\ MeasuredInv /\ [Next]_vars => MeasuredInv'
<1> SUFFICES ASSUME Narrow, TypeInv, LockstepInv, MeasuredInv, [Next]_vars PROVE MeasuredInv'
  OBVIOUS
<1>w. /\ Word \in Nat /\ MaxLength \in Nat /\ MaxLength + 1 < Word /\ ChunkSize \in Nat \ {0}
      /\ Len(target) \in Nat /\ clientPos \in 0..(Word - 1) /\ serverPos \in 0..(Word - 1)
      /\ length \in 0..(Word - 1) /\ readPos \in Nat /\ toClient \in Seq(Packet)
  BY WordAssumption, LimitAssumption, ChunkAssumption, LenProperties DEF Narrow, TypeInv, TypeOK
<1>i. /\ ChunksBelow
      /\ connected => clientPos \in {Len(target), Word - 1} /\ Len(target) <= MaxLength
      /\ Steady => Lockstep
  BY DEF LockstepInv
<1>m. /\ server \in {"measure", "send", "await"} => ~Ended
      /\ Ended => LongEnough /\ NothingToWrite
      /\ Steady /\ server # "measure" => readPos < length + ChunkSize
      /\ server = "measure" => readPos = 0
  BY DEF MeasuredInv
<1>1. CASE Measure
  <2>1. UNCHANGED <<toClient, client, readPos, connected, clientPos, target>>
        /\ server = "measure" /\ server' = "send" /\ length' \in Nat
    BY <1>1, LengthFoundType, WordAssumption
       DEF Measure, stream, clientVars, wire, TypeInv, TypeOK
  <2>2. ~Ended' BY <1>m, <2>1 DEF Ended
  <2>3. readPos' < length' + ChunkSize
    <3>1. readPos' = 0 BY <1>m, <2>1
    <3>2. length' \in Nat BY <2>1
    <3>3. \A x \in Nat, y \in Nat \ {0} : 0 < x + y OBVIOUS
    <3>4. 0 < length' + ChunkSize BY <3>2, <3>3, ChunkAssumption
    <3> QED BY <3>1, <3>4
  <2> QED BY <2>1, <2>2, <2>3 DEF MeasuredInv
<1>2. CASE SendChunk
  <2> DEFINE packet == Data(serverPos, SizeArrives(ChunkRead), ChunkRead)
  <2>1. /\ server = "send" /\ server' = "await" /\ serverPos < length
        /\ UNCHANGED <<length, client, connected, clientPos, target>>
        /\ readPos' = readPos + Len(ChunkRead) /\ toClient' = Sent(toClient, packet)
    BY <1>2 DEF SendChunk, MoreToSend, MovesOn, clientVars
  <2>2. packet \in Packet /\ packet.pid = 100
    <3>1. ChunkRead \in Content /\ Len(ChunkRead) \in Nat
      BY ChunkReadFacts DEF TypeInv, TypeOK
    <3> QED BY <1>w, <3>1, WideAssumption DEF Packet, Data, SizeArrives
  <2> HIDE DEF packet
  <2>3. Among(toClient', toClient, packet) BY <1>w, <2>1, <2>2, SentType
  <2>4. ~Ended' BY <1>m, <2>1, <2>2, <2>3 DEF Ended, Among
  <2>5. ASSUME Steady' PROVE readPos' < length' + ChunkSize
    <3>1. Steady BY <2>1, <2>5 DEF Steady
    <3>2. readPos = serverPos BY <1>i, <2>1, <3>1 DEF Lockstep, Steady
    <3>3. Len(ChunkRead) <= ChunkSize /\ Len(ChunkRead) \in Nat
      BY ChunkIsShort, ChunkReadFacts DEF TypeInv, TypeOK
    <3> QED BY <1>w, <2>1, <3>2, <3>3
  <2> QED BY <2>1, <2>4, <2>5 DEF MeasuredInv
<1>3. CASE TakePosition \/ MissPosition
  <2>1. /\ server = "await" /\ server' = "send"
        /\ UNCHANGED <<toClient, client, readPos, connected, clientPos, target, length>>
    BY <1>3 DEF TakePosition, MissPosition, stream, clientVars, wire
  <2> QED BY <1>m, <2>1 DEF MeasuredInv, Ended, Steady
<1>4. CASE SendEnd
  <2>1. /\ server = "send" /\ server' = "end" /\ length <= serverPos
        /\ UNCHANGED <<client, readPos, connected, clientPos, target, length>>
        /\ toClient' = Sent(toClient, End)
    BY <1>w, <1>4 DEF SendEnd, MoreToSend, stream, clientVars
  <2>2. CASE ~connected
    BY <1>m, <2>1, <2>2 DEF MeasuredInv, Ended, Steady, Sent
  <2>3. CASE connected /\ clientPos = Len(target)
    <3>1. Steady /\ Lockstep /\ toClient = << >> /\ readPos = Len(target)
          /\ serverPos = clientPos /\ readPos < length + ChunkSize
      BY <1>i, <1>m, <2>1, <2>3 DEF Steady, Lockstep, Quiet
    <3>2. toClient' = <<End>> BY <2>1, <2>3, <3>1, OnePacket DEF Sent
    <3>3. NothingToWrite'
      <4>1. Len(toClient') = 1 /\ toClient'[1] = End /\ End.pid = 101 BY <3>2 DEF End
      <4> QED BY <4>1 DEF NothingToWrite
    <3>4. LongEnough' BY <2>1, <3>1 DEF LongEnough
    <3> QED BY <2>1, <3>1, <3>3, <3>4 DEF MeasuredInv
  <2>4. CASE connected /\ clientPos # Len(target)
    <3>1. clientPos = Word - 1 BY <1>i, <2>4
    <3>2. toClient' = Append(toClient, End) /\ End.pid = 101 BY <2>1, <2>4 DEF Sent, End
    <3>3. NothingToWrite'
      BY <1>i, <1>w, <2>1, <3>1, <3>2 DEF NothingToWrite, ChunksBelow
    <3>4. LongEnough' BY <2>1, <2>4 DEF LongEnough
    <3>5. ~Steady' BY <2>1, <2>4 DEF Steady
    <3> QED BY <2>1, <3>3, <3>4, <3>5 DEF MeasuredInv
  <2> QED BY <2>2, <2>3, <2>4
<1>5. CASE ReturnFromSend
  <2>1. /\ server = "end" /\ server' = "done"
        /\ UNCHANGED <<toClient, client, readPos, connected, clientPos, target, length>>
    BY <1>5 DEF ReturnFromSend, stream, clientVars
  <2> QED BY <1>m, <2>1 DEF MeasuredInv, Ended, Steady, LongEnough, NothingToWrite
<1>6. CASE ReceiveChunk
  <2> DEFINE chunk == Head(toClient)
  <2>1. /\ toClient # << >> /\ toClient' = Tail(toClient) /\ chunk.pid = 100
        /\ UNCHANGED <<server, client, readPos, length, connected>>
        /\ clientPos # chunk.pos => UNCHANGED <<clientPos, target>>
    BY <1>6 DEF ReceiveChunk, ChunkArrives, stream, serverVars
  <2>2. chunk = toClient[1] /\ 1 \in 1..Len(toClient) BY <1>w, <2>1, TailType
  <2>3. Ended' => Ended BY <2>1, EndedKept
  <2>4. ASSUME Ended' PROVE LongEnough' /\ NothingToWrite'
    <3>1. LongEnough /\ NothingToWrite BY <1>m, <2>3, <2>4
    <3>2. UNCHANGED <<clientPos, target>> BY <2>1, <2>2, <3>1 DEF NothingToWrite
    <3> QED BY <2>1, <3>1, <3>2, EndedKept DEF LongEnough
  <2>5. ASSUME Steady' PROVE Steady
    <3>1. chunk.pos < Word - 1 BY <1>i, <2>1, <2>2 DEF ChunksBelow
    <3>2. CASE clientPos = Word - 1
      <4>1. UNCHANGED <<clientPos, target>> BY <1>w, <2>1, <2>2, <3>1, <3>2
      <4> QED BY <2>1, <2>5, <4>1 DEF Steady
    <3> QED BY <1>i, <2>1, <2>5, <3>2 DEF Steady
  <2> HIDE DEF chunk
  <2> QED BY <1>m, <2>1, <2>3, <2>4, <2>5 DEF MeasuredInv
<1>7. CASE FailToWrite
  <2>1. /\ toClient # << >> /\ toClient' = Tail(toClient) /\ Head(toClient).pid = 100
        /\ UNCHANGED <<server, client, readPos, length, connected, target>>
        /\ clientPos = Head(toClient).pos /\ clientPos' = Word - 1
    BY <1>7 DEF FailToWrite, ChunkArrives, stream, serverVars
  <2>2. Head(toClient) = toClient[1] /\ 1 \in 1..Len(toClient) BY <1>w, <2>1, TailType
  <2>3. ~Ended BY <1>m, <2>1, <2>2 DEF NothingToWrite
  <2>4. ~Ended' BY <2>1, <2>3, EndedKept
  <2>5. ~Steady' BY <1>w, <1>i, <2>1 DEF Steady
  <2> QED BY <1>m, <2>1, <2>4, <2>5 DEF MeasuredInv
<1>8. CASE ReturnFromReceive
  <2>1. /\ toClient # << >> /\ toClient' = Tail(toClient) /\ Head(toClient).pid = 101
        /\ UNCHANGED <<server, readPos, length, connected, target, clientPos>>
    BY <1>8 DEF ReturnFromReceive, stream, serverVars
  <2>2. Head(toClient) = toClient[1] /\ 1 \in 1..Len(toClient)
        /\ \A i \in 1..Len(toClient') : i + 1 \in 1..Len(toClient) /\ toClient'[i] = toClient[i + 1]
    BY <1>w, <2>1, TailType
  <2>3. Ended BY <2>1, <2>2 DEF Ended
  <2>4. LongEnough' /\ NothingToWrite'
    BY <1>m, <2>1, <2>2, <2>3 DEF LongEnough, NothingToWrite
  <2> QED BY <1>m, <2>1, <2>3, <2>4 DEF MeasuredInv, Steady
<1>9. CASE Disconnect
  <2>1. /\ ~connected'
        /\ toClient' = toClient \/ toClient' = << >>
    BY <1>9 DEF Disconnect
  <2>2. UNCHANGED <<server, readPos, length, target, clientPos, client>>
    BY <1>9 DEF Disconnect, stream, serverVars, clientVars
  <2>3. /\ Ended' => Ended
        /\ NothingToWrite => NothingToWrite'
    BY <1>9, <2>2, EndedKept DEF Disconnect
  <2>4. ~Steady' BY <1>9 DEF Disconnect, Steady
  <2> QED BY <1>m, <2>2, <2>3, <2>4 DEF MeasuredInv, LongEnough
<1>10. CASE EditSource \/ UNCHANGED vars
  <2>1. UNCHANGED <<toClient, server, client, readPos, connected, clientPos, target, length>>
    BY <1>10 DEF EditSource, vars, stream, serverVars, clientVars, wire
  <2> QED BY <1>m, <2>1 DEF MeasuredInv, Ended, Steady, LongEnough, NothingToWrite
<1> QED BY <1>1, <1>2, <1>3, <1>4, <1>5, <1>6, <1>7, <1>8, <1>9, <1>10
        DEF Next, SendFile, ReceiveFile

(***************************************************************************)
(* A copy that the client has finished has at least the length that was    *)
(* measured, and less than a chunk more, whatever users do to the file and *)
(* whether or not the connection breaks: MeasuredLengthArrives.            *)
(***************************************************************************)
THEOREM MeasuredLengthIsKept == Narrow => (Spec => []MeasuredLengthArrives)
<1> SUFFICES ASSUME Narrow PROVE Spec => []MeasuredLengthArrives OBVIOUS
<1>1. IInv => TypeInv /\ LockstepInv BY DEF IInv
<1>2. TypeInv /\ LockstepInv /\ MeasuredInv /\ [Next]_vars => MeasuredInv'
  BY MeasuredStep
<1>3. MeasuredInv => MeasuredLengthArrives
  BY DEF MeasuredInv, Ended, LongEnough, MeasuredLengthArrives
<1>4. Spec => []IInv BY TransferInvariant
<1> QED BY <1>1, <1>2, <1>3, <1>4, MeasuredInit, PTL DEF Spec

=============================================================================
