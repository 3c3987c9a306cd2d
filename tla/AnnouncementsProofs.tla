------------------------- MODULE AnnouncementsProofs -------------------------
(***************************************************************************)
(* Proofs about the way of a change from one folder into another: the x64  *)
(* build is silent; the types, for which the loops of getFileHash must be  *)
(* shown to yield hashes; what fits in a datagram arrives; why a file that *)
(* was noticed still differs; and which bytes the hash does not see.       *)
(***************************************************************************)
EXTENDS Announcements, HashTablesProofs

-----------------------------------------------------------------------------
(* The x64 build.                                                          *)

ZeroFirst(packet) == Head(packet.size) = 0

\* Of a datagram whose number of changes is read as 0, nothing is read.
LEMMA ZeroIsEmpty ==
    ASSUME NEW packet, ZeroFirst(packet)
    PROVE  ReadChanges(packet) = << >>
<1>1. 1..Head(packet.size) = {} BY DEF ZeroFirst
<1> QED BY <1>1 DEF ReadChanges

\* The x64 build writes two words for that number, the high one first.
LEMMA WideIsZero ==
    ASSUME NEW changes, wide
    PROVE  ZeroFirst(ChangesPacket(changes))
<1>1. SizeWritten(Len(changes)) = <<0, Len(changes)>> BY DEF SizeWritten
<1>2. ChangesPacket(changes).size = <<0, Len(changes)>> BY <1>1 DEF ChangesPacket
<1> QED BY <1>2 DEF ZeroFirst

(***************************************************************************)
(* In the x64 build every list under way begins with a word that is 0, and *)
(* requestFiles never has a list.                                          *)
(***************************************************************************)
WideInv ==
    wide => /\ fileChanges = << >>
            /\ \E S : net \in Seq(S) /\ \A packet \in S : ZeroFirst(packet)

\* It is so at the start, ...
LEMMA WideInit == Init => WideInv
<1> SUFFICES ASSUME Init PROVE WideInv OBVIOUS
<1>1. net \in Seq({}) /\ \A packet \in {} : ZeroFirst(packet) BY DEF Init
<1> QED BY <1>1 DEF Init, WideInv

\* ... and every step keeps it, and the copy as it is.
LEMMA WideStep == WideInv /\ [Next]_vars => WideInv' /\ (wide => copy' = copy)
<1> SUFFICES ASSUME WideInv, [Next]_vars PROVE WideInv' /\ (wide => copy' = copy)
  OBVIOUS
<1>0. wide' = wide
  BY DEF Next, UserChanges, WatchDirectory, Publish, Lose, Receive, RequestFile, vars
<1>1. CASE ~wide BY <1>0, <1>1 DEF WideInv
<1>2. CASE wide
  <2>1. PICK S : net \in Seq(S) /\ \A packet \in S : ZeroFirst(packet)
    BY <1>2 DEF WideInv
  <2>2. fileChanges = << >> BY <1>2 DEF WideInv
  <2>3. ASSUME NEW p \in Edited, NEW file \in Files \cup {NoFile}, UserChanges(p, file)
        PROVE  WideInv' /\ copy' = copy
    BY <2>1, <2>2, <2>3 DEF UserChanges, WideInv, ZeroFirst
  <2>4. CASE WatchDirectory
    BY <2>1, <2>2, <2>4 DEF WatchDirectory, WideInv, ZeroFirst
  <2>5. CASE Publish
    <3>1. ZeroFirst(ChangesPacket(fileChangeBuf)) BY <1>2, WideIsZero
    <3>2. net' \in Seq(S \cup {ChangesPacket(fileChangeBuf)})
      <4>1. net' = net \/ net' = Append(net, ChangesPacket(fileChangeBuf))
        BY <2>5 DEF Publish
      <4> QED BY <2>1, <4>1
    <3>3. fileChanges' = << >> /\ copy' = copy BY <2>2, <2>5 DEF Publish
    <3> QED BY <2>1, <3>1, <3>2, <3>3 DEF WideInv, ZeroFirst
  <2>6. CASE Lose
    <3>1. net' \in Seq(S) BY <2>1, <2>6 DEF Lose
    <3>2. fileChanges' = << >> /\ copy' = copy BY <2>2, <2>6 DEF Lose
    <3> QED BY <2>1, <3>1, <3>2 DEF WideInv, ZeroFirst
  <2>7. CASE Receive
    <3>1. net # << >> /\ net' = Tail(net) BY <2>7 DEF Receive
    <3>2. net' \in Seq(S) /\ Head(net) \in S BY <2>1, <3>1
    <3>3. ReadChanges(Head(net)) = << >> BY <2>1, <3>2, ZeroIsEmpty
    <3>4. fileChanges' = << >> /\ copy' = copy BY <2>7, <3>3 DEF Receive
    <3> QED BY <2>1, <3>2, <3>4 DEF WideInv, ZeroFirst
  <2>8. ~RequestFile BY <2>2 DEF RequestFile
  <2>9. CASE UNCHANGED vars BY <2>1, <2>2, <2>9 DEF WideInv, ZeroFirst, vars
  <2> QED BY <1>2, <2>3, <2>4, <2>5, <2>6, <2>7, <2>8, <2>9 DEF Next
<1> QED BY <1>1, <1>2

(***************************************************************************)
(* A size_t is written and a Uint32 is read back: in the x64 build no      *)
(* announced change ever reaches the folder of another node, whatever the  *)
(* files, the hash and the sizes are: NothingTravelsWide.                  *)
(***************************************************************************)
THEOREM WideBuildIsSilent == Spec => NothingTravelsWide
<1>1. Init => WideInv BY WideInit
<1>2. WideInv /\ [Next]_vars => WideInv' BY WideStep
<1>3. WideInv /\ [Next]_vars => [wide => copy' = copy]_vars BY WideStep
<1> QED BY <1>1, <1>2, <1>3, PTL DEF Spec, NothingTravelsWide

-----------------------------------------------------------------------------
(* The hash of a file is a hash: the two loops of getFileHash.             *)

\* What is so at the start and from one round to the next is always so.
LEMMA AllRounds ==
    ASSUME NEW N \in Nat, NEW T, 0 \in T, \A n \in 1..N : n - 1 \in T => n \in T
    PROVE  0..N \subseteq T
<1> DEFINE U == (0..N) \ T
<1>1. SUFFICES ASSUME U # {} PROVE FALSE  OBVIOUS
<1>2. U \subseteq Nat  OBVIOUS
<1>3. PICK n \in U : \A m \in U : ~(<<m, n>> \in OpToRel(<, Nat))
  <2> HIDE DEF U
  <2> QED BY <1>1, <1>2, WFMin, NatLessThanWellFounded
<1>4. \A m \in U : ~(m < n)
  BY <1>2, <1>3 DEF OpToRel
<1>5. n \in 1..N /\ n - 1 \in 0..N /\ n - 1 < n  OBVIOUS
<1> QED BY <1>4, <1>5

\* What is kept from one round to the next is kept in all.
LEMMA RoundsKeep ==
    ASSUME NEW N \in Nat, NEW S, NEW f, f[0] \in S,
           \A n \in 1..N : f[n - 1] \in S => f[n] \in S
    PROVE  \A n \in 0..N : f[n] \in S
<1> DEFINE T == {n \in 0..N : f[n] \in S}
<1>1. 0 \in T  OBVIOUS
<1>2. \A n \in 1..N : n - 1 \in T => n \in T  OBVIOUS
<1>3. 0..N \subseteq T
  <2> HIDE DEF T
  <2> QED BY <1>1, <1>2, AllRounds
<1> QED BY <1>3

\* f gives what a loop of N rounds has made of base after each round.
Course(f, N, base, step) ==
    f[0] = base /\ \A n \in 1..N : f[n] = step[n][f[n - 1]]

\* Such a function exists, whatever the rounds do.
LEMMA LoopRuns ==
    ASSUME NEW N \in Nat, NEW S, NEW base \in S, NEW step \in [1..N -> [S -> S]]
    PROVE  \E f \in [0..N -> S] : Course(f, N, base, step)
<1> DEFINE Courses(n) == {f \in [0..n -> S] : Course(f, n, base, step)}
           rounds     == [n \in 0..N |-> Courses(n)]
           Some       == {C \in SUBSET UNION {[0..n -> S] : n \in 0..N} : C # {}}
<1>1. rounds[0] \in Some
  <2>1. [n \in 0..0 |-> base] \in Courses(0)
    <3>1. 0..0 = {0} /\ 1..0 = {}  OBVIOUS
    <3> QED BY <3>1 DEF Course
  <2>2. Courses(0) \subseteq [0..0 -> S] /\ 0 \in 0..N  OBVIOUS
  <2>3. rounds[0] = Courses(0)  OBVIOUS
  <2> HIDE DEF Courses, rounds
  <2> QED BY <2>1, <2>2, <2>3
<1>2. ASSUME NEW n \in 1..N, rounds[n - 1] \in Some PROVE rounds[n] \in Some
  <2>1. n - 1 \in 0..N /\ n \in 0..N /\ n \in Nat  OBVIOUS
  <2>2. PICK f : f \in Courses(n - 1)
    <3> HIDE DEF Courses
    <3> QED BY <1>2, <2>1
  <2> DEFINE g == [m \in 0..n |-> IF m = n THEN step[n][f[n - 1]] ELSE f[m]]
  <2>3. f \in [0..(n - 1) -> S] /\ f[n - 1] \in S  BY <2>1, <2>2
  <2>4. step[n][f[n - 1]] \in S  BY <2>3
  <2>5. g \in [0..n -> S]  BY <2>1, <2>3, <2>4
  <2>6. Course(g, n, base, step)
    <3>1. g[0] = base  BY <2>1, <2>2 DEF Course
    <3>2. ASSUME NEW m \in 1..n PROVE g[m] = step[m][g[m - 1]]
      BY <2>1, <2>2 DEF Course
    <3> HIDE DEF g
    <3> QED BY <3>1, <3>2 DEF Course
  <2>7. g \in Courses(n)  BY <2>5, <2>6
  <2>8. Courses(n) \subseteq [0..n -> S]  OBVIOUS
  <2>9. rounds[n] = Courses(n)  BY <2>1
  <2> HIDE DEF Courses, g, rounds
  <2> QED BY <2>1, <2>7, <2>8, <2>9
<1>3. rounds[N] \in Some
  <2> HIDE DEF rounds, Some
  <2>1. \A n \in 0..N : rounds[n] \in Some  BY <1>1, <1>2, RoundsKeep
  <2> QED BY <2>1
<1>4. PICK f : f \in Courses(N)
  <2> HIDE DEF Courses
  <2> QED BY <1>3
<1> QED BY <1>4

\* text is what has been read of a file after so many characters.
TextOf(text, file) ==
    /\ text \in [0..Len(file) -> Seq(Byte)] /\ text[0] = << >>
    /\ \A n \in 1..Len(file) :
          text[n] = IF \/ \E k \in 1..n : file[k] = Eof
                       \/ file[n] = Cr /\ n < Len(file) /\ file[n + 1] = Lf
                    THEN text[n - 1] ELSE Append(text[n - 1], file[n])

\* ReadInText is the last of such a text.
LEMMA ReadInTextRounds ==
    ASSUME NEW file \in Seq(Byte)
    PROVE  \E text : TextOf(text, file) /\ ReadInText(file) = text[Len(file)]
<1> DEFINE Hidden(n) == \/ \E k \in 1..n : file[k] = Eof
                        \/ file[n] = Cr /\ n < Len(file) /\ file[n + 1] = Lf
           N == Len(file)
           Rounds(t) == [n \in 0..N |-> IF n = 0 THEN << >>
                                        ELSE IF Hidden(n) THEN t[n - 1]
                                             ELSE Append(t[n - 1], file[n])]
           text == CHOOSE t : t = Rounds(t)
           step == [n \in 1..N |-> [s \in Seq(Byte) |->
                       IF Hidden(n) THEN s ELSE Append(s, file[n])]]
<1>1. ReadInText(file) = text[N]  BY DEF ReadInText
<1>2. N \in Nat /\ \A n \in 1..N : file[n] \in Byte  BY LenProperties, ElementOfSeq
<1>3. \E t : t = Rounds(t)
  <2>1. step \in [1..N -> [Seq(Byte) -> Seq(Byte)]]
    BY <1>2, AppendProperties
  <2>2. << >> \in Seq(Byte)  BY EmptySeq
  <2>3. PICK t \in [0..N -> Seq(Byte)] : Course(t, N, << >>, step)
    <3> HIDE DEF step, N
    <3> QED BY <1>2, <2>1, <2>2, LoopRuns
  <2>4. ASSUME NEW n \in 1..N
        PROVE  t[n] = IF Hidden(n) THEN t[n - 1] ELSE Append(t[n - 1], file[n])
    <3>1. t[n] = step[n][t[n - 1]]
      <4> HIDE DEF step
      <4> QED BY <2>3 DEF Course
    <3> HIDE DEF Hidden
    <3>2. step[n] = [s \in Seq(Byte) |-> IF Hidden(n) THEN s ELSE Append(s, file[n])]
      OBVIOUS
    <3> HIDE DEF step, N
    <3>3. n - 1 \in 0..N  BY <1>2
    <3>4. t[n - 1] \in Seq(Byte)  BY <2>3, <3>3
    <3> QED BY <3>1, <3>2, <3>4
  <2>5. t[0] = << >> /\ t = [n \in 0..N |-> t[n]]
    BY <2>3 DEF Course
  <2> HIDE DEF Hidden, N
  <2>6. ASSUME NEW n \in 0..N
        PROVE  t[n] = IF n = 0 THEN << >>
                      ELSE IF Hidden(n) THEN t[n - 1] ELSE Append(t[n - 1], file[n])
    <3>1. n = 0 \/ n \in 1..N  BY <1>2
    <3> QED BY <1>2, <2>4, <2>5, <3>1
  <2> QED BY <2>5, <2>6
<1>4. text = Rounds(text)
  <2> HIDE DEF Rounds
  <2> QED BY <1>3
<1>5. ASSUME NEW n \in 1..N
      PROVE  text[n] = IF Hidden(n) THEN text[n - 1] ELSE Append(text[n - 1], file[n])
  <2>1. n \in 0..N /\ n # 0  BY <1>2
  <2> HIDE DEF text
  <2>2. text[n] = Rounds(text)[n]  BY <1>4
  <2> HIDE DEF Hidden, N
  <2> QED BY <2>1, <2>2
<1>6. text[0] = << >>
  <2> HIDE DEF text
  <2> QED BY <1>2, <1>4
<1>7. \A n \in 0..N : text[n] \in Seq(Byte)
  <2> HIDE DEF text, Hidden, N
  <2>1. text[0] \in Seq(Byte)  BY <1>6, EmptySeq
  <2>2. ASSUME NEW n \in 1..N, text[n - 1] \in Seq(Byte) PROVE text[n] \in Seq(Byte)
    <3>1. file[n] \in Byte  BY <1>2
    <3>2. Append(text[n - 1], file[n]) \in Seq(Byte)  BY <2>2, <3>1, AppendProperties
    <3>3. text[n] = text[n - 1] \/ text[n] = Append(text[n - 1], file[n])  BY <1>5
    <3> QED BY <2>2, <3>2, <3>3
  <2> QED BY <1>2, <2>1, <2>2, RoundsKeep
<1>8. text \in [0..N -> Seq(Byte)]
  <2> HIDE DEF text
  <2>1. text = [n \in 0..N |-> text[n]]  BY <1>4
  <2> QED BY <1>7, <2>1
<1> HIDE DEF text
<1> QED BY <1>1, <1>5, <1>6, <1>8 DEF TextOf

\* What is read of a file in text mode is a file.
LEMMA ReadInTextType ==
    ASSUME NEW file \in Seq(Byte)
    PROVE  ReadInText(file) \in Seq(Byte)
<1>1. PICK text : TextOf(text, file) /\ ReadInText(file) = text[Len(file)]
  BY ReadInTextRounds
<1>2. Len(file) \in 0..Len(file)  BY LenProperties
<1> QED BY <1>1, <1>2 DEF TextOf

\* modBase is what remains when a sum is taken modulo it.
LEMMA AddedType ==
    ASSUME NEW h \in Int, NEW x \in Int
    PROVE  Added(h, x) \in 0..(Modulus - Gap - 1)
<1>1. Modulus \in Nat /\ Gap \in Nat /\ Modulus - Gap >= 1  BY HashAssumption
<1>2. (h + x) % Modulus \in Int  BY <1>1
<1> QED BY <1>1, <1>2 DEF Added

\* hash is what a loop has made of start after so many numbers.
AddCourse(hash, start, xs) ==
    /\ hash \in [0..Len(xs) -> Int] /\ hash[0] = start
    /\ \A n \in 1..Len(xs) : hash[n] = Added(hash[n - 1], xs[n]) /\ hash[n] \in Hash

\* AddedUp is the last of such numbers.
LEMMA AddedUpRounds ==
    ASSUME NEW start \in Int, NEW xs \in Seq(Int)
    PROVE  \E hash : AddCourse(hash, start, xs) /\ AddedUp(start, xs) = hash[Len(xs)]
<1> DEFINE N == Len(xs)
           Rounds(h) == [n \in 0..N |-> IF n = 0 THEN start ELSE Added(h[n - 1], xs[n])]
           hash == CHOOSE h : h = Rounds(h)
           step == [n \in 1..N |-> [h \in Int |-> Added(h, xs[n])]]
<1>1. AddedUp(start, xs) = hash[N]  BY DEF AddedUp
<1>2. Hash = 0..(Modulus - Gap - 1) /\ Hash \subseteq Int
  BY FilesAssumption, HashAssumption
<1>3. N \in Nat /\ \A n \in 1..N : xs[n] \in Int
  BY LenProperties, ElementOfSeq
<1>4. \A h \in Int, n \in 1..N : Added(h, xs[n]) \in Hash
  BY <1>2, <1>3, AddedType
<1> HIDE DEF N
<1>5. \E h : h = Rounds(h)
  <2>1. step \in [1..N -> [Int -> Int]]  BY <1>2, <1>4
  <2>2. PICK h \in [0..N -> Int] : Course(h, N, start, step)
    <3> HIDE DEF step
    <3> QED BY <1>3, <2>1, LoopRuns
  <2>3. ASSUME NEW n \in 1..N PROVE h[n] = Added(h[n - 1], xs[n])
    <3>1. h[n] = step[n][h[n - 1]]
      <4> HIDE DEF step
      <4> QED BY <2>2 DEF Course
    <3>2. h[n - 1] \in Int  BY <1>3, <2>2
    <3> QED BY <3>1, <3>2
  <2>4. h[0] = start  BY <2>2 DEF Course
  <2>5. ASSUME NEW n \in 0..N PROVE h[n] = IF n = 0 THEN start ELSE Added(h[n - 1], xs[n])
    <3>1. n = 0 \/ n \in 1..N  BY <1>3
    <3>2. n \in 1..N => n # 0  BY <1>3
    <3> QED BY <2>3, <2>4, <3>1, <3>2
  <2> QED BY <2>2, <2>5
<1>6. hash = Rounds(hash)
  <2> HIDE DEF Rounds
  <2> QED BY <1>5
<1> HIDE DEF hash
<1>7. hash[0] = start /\ hash = [n \in 0..N |-> hash[n]]
  BY <1>3, <1>6
<1>8. ASSUME NEW n \in 1..N PROVE hash[n] = Added(hash[n - 1], xs[n])
  BY <1>3, <1>6
<1>9. \A n \in 0..N : hash[n] \in Int
  <2>1. hash[0] \in Int  BY <1>7
  <2>2. ASSUME NEW n \in 1..N, hash[n - 1] \in Int PROVE hash[n] \in Int
    BY <1>2, <1>4, <1>8, <2>2
  <2> HIDE DEF Rounds
  <2> QED BY <1>3, <2>1, <2>2, RoundsKeep
<1>10. ASSUME NEW n \in 1..N PROVE hash[n] = Added(hash[n - 1], xs[n]) /\ hash[n] \in Hash
  <2>1. hash[n - 1] \in Int  BY <1>3, <1>9
  <2> QED BY <1>4, <1>8, <2>1
<1>11. AddCourse(hash, start, xs)
  <2> HIDE DEF Rounds
  <2> QED BY <1>7, <1>9, <1>10 DEF AddCourse, N
<1> QED BY <1>1, <1>11 DEF N

\* It is a hash, unless nothing was added to a number that is none.
LEMMA AddedUpType ==
    ASSUME NEW start \in Int, NEW xs \in Seq(Int), start \in Hash \/ xs # << >>
    PROVE  AddedUp(start, xs) \in Hash
<1>1. PICK hash : AddCourse(hash, start, xs) /\ AddedUp(start, xs) = hash[Len(xs)]
  BY AddedUpRounds
<1>2. Len(xs) \in Nat /\ (Len(xs) = 0 => xs = << >>)  BY LenProperties, EmptySeq
<1>3. CASE Len(xs) = 0  BY <1>1, <1>2, <1>3 DEF AddCourse
<1>4. CASE Len(xs) # 0
  <2>1. Len(xs) \in 1..Len(xs)  BY <1>2, <1>4
  <2> QED BY <1>1, <2>1 DEF AddCourse
<1> QED BY <1>3, <1>4

\* Names are sequences of characters, and never empty.
LEMMA NamesType ==
    ASSUME NEW p \in Path
    PROVE  /\ ListedAs(p) \in Seq(Nat) /\ ListedAs(p) # << >>
           /\ AskedAs(p) \in Seq(Nat) /\ AskedAs(p) # << >>
<1>1. /\ Root \in Seq(Nat) /\ <<Separator>> \in Seq(Nat) /\ Len(<<Separator>>) = 1
      /\ Name[p] \in Seq(Nat) /\ Name[p] # << >>
  BY NameAssumption
<1>2. /\ Len(Root) \in Nat /\ Len(Name[p]) \in Nat /\ Len(Name[p]) # 0
      /\ Len(<< >>) = 0
  BY <1>1, LenProperties, EmptySeq
<1>3. /\ Root \o Name[p] \in Seq(Nat) /\ Len(Root \o Name[p]) = Len(Root) + Len(Name[p])
      /\ Root \o <<Separator>> \in Seq(Nat) /\ Len(Root \o <<Separator>>) = Len(Root) + 1
  BY <1>1, ConcatProperties
<1>4. /\ Root \o <<Separator>> \o Name[p] \in Seq(Nat)
      /\ Len(Root \o <<Separator>> \o Name[p]) = Len(Root) + 1 + Len(Name[p])
  BY <1>1, <1>3, ConcatProperties
<1>5. ListedAs(p) # << >> /\ AskedAs(p) # << >>
  BY <1>2, <1>3, <1>4 DEF ListedAs, AskedAs
<1> QED BY <1>3, <1>4, <1>5 DEF ListedAs, AskedAs

\* The loop over the path makes a hash of any size.
LEMMA PathHashType ==
    ASSUME NEW path \in Seq(Nat), path # << >>, NEW size \in Int
    PROVE  PathHash(path, size) \in Hash
<1> DEFINE xs == [i \in DOMAIN path |-> AsChar(path[i])]
<1>1. /\ Len(path) \in Nat /\ DOMAIN path = 1..Len(path) /\ Len(path) # 0
      /\ \A i \in 1..Len(path) : path[i] \in Nat
  BY LenProperties, ElementOfSeq, EmptySeq
<1>2. \A c \in Nat : AsChar(c) \in Int  BY DEF AsChar
<1>3. xs \in [1..Len(path) -> Int]  BY <1>1, <1>2
<1>4. xs \in Seq(Int) /\ Len(xs) = Len(path)  
  <2> HIDE DEF xs
  <2> QED BY <1>1, <1>3, SeqDef, LenProperties
<1>5. xs # << >>  
  <2> HIDE DEF xs
  <2> QED BY <1>1, <1>4
<1> HIDE DEF xs
<1>6. AddedUp(size, xs) \in Hash  BY <1>4, <1>5, AddedUpType
<1> QED BY <1>6 DEF PathHash, xs

\* What the second loop adds.
Weighted(file) == [n \in DOMAIN ReadInText(file) |-> ReadInText(file)[n] * Weight(n)]

LEMMA WeightedType ==
    ASSUME NEW file \in Seq(Byte)
    PROVE  /\ Weighted(file) \in Seq(Int)
           /\ Len(Weighted(file)) = Len(ReadInText(file))
<1> DEFINE read == ReadInText(file)
<1>1. read \in Seq(Byte)  BY ReadInTextType
<1> HIDE DEF read
<1>2. /\ Len(read) \in Nat /\ DOMAIN read = 1..Len(read)
      /\ \A n \in 1..Len(read) : read[n] \in Byte
  BY <1>1, LenProperties, ElementOfSeq
<1>3. \A n \in 1..Len(read) : Weight(n) \in Int  BY <1>2, HashAssumption DEF Weight
<1>4. Byte \subseteq Int /\ \A x, y \in Int : x * y \in Int  BY HashAssumption
<1>5. \A n \in 1..Len(read) : read[n] * Weight(n) \in Int  BY <1>2, <1>3, <1>4
<1>6. Weighted(file) \in [1..Len(read) -> Int]  BY <1>2, <1>5 DEF Weighted, read
<1>7. Weighted(file) \in Seq(Int) /\ Len(Weighted(file)) = Len(read)
  BY <1>2, <1>6, SeqDef, LenProperties
<1> QED BY <1>7 DEF read

\* getFileHash returns a hash, whatever the file and the path.
LEMMA HashOfType ==
    ASSUME NEW path \in Seq(Nat), path # << >>, NEW file \in Seq(Byte)
    PROVE  HashOf(path, file) \in Hash
<1>1. Len(file) \in Int  BY LenProperties
<1>2. PathHash(path, Len(file)) \in Hash  BY <1>1, PathHashType
<1>3. Hash \subseteq Int  BY FilesAssumption, HashAssumption
<1>4. HashOf(path, file) = AddedUp(PathHash(path, Len(file)), Weighted(file))
  BY DEF HashOf, Weighted
<1> QED BY <1>2, <1>3, <1>4, WeightedType, AddedUpType

-----------------------------------------------------------------------------
(* Types.                                                                  *)

\* The changes of the writer: exactly a Deletion carries the hash NULL.
GoodChange == {c \in Change : c.kind = "Deletion" <=> c.hash = NoFile}

\* The datagrams that lists of such changes make.
Sent == {ChangesPacket(changes) : changes \in Seq(GoodChange)}

\* What the reader makes of a change: there NULL is a hash like others.
AsRead(change) ==
    [path |-> change.path,
     hash |-> IF change.hash = NoFile THEN 0 ELSE change.hash, kind |-> change.kind]

\* CreateFileHashes makes a table, with an entry for every file that is there.
LEMMA HashTableType ==
    ASSUME NEW f \in Folder
    PROVE  /\ HashTable(f) \in Table
           /\ \A p \in Path : HashTable(f)[p] = IF f[p] = NoFile THEN NoFile
                                                ELSE HashOf(ListedAs(p), f[p])
           /\ \A p \in Path : HashTable(f)[p] = NoFile <=> f[p] = NoFile
<1>1. ASSUME NEW p \in Path, f[p] # NoFile PROVE HashOf(ListedAs(p), f[p]) \in Hash
  <2>1. f[p] \in Seq(Byte)  BY <1>1, FilesAssumption DEF Folder
  <2> QED BY <2>1, HashOfType, NamesType
<1> QED BY <1>1, NoFileAssumption DEF HashTable, Table

\* Every change that the watcher lists is one of these.
LEMMA ListsGood ==
    ASSUME NEW prev \in Table, NEW new \in Table,
           NEW list \in DirectoryChanges(prev, new)
    PROVE  list \in Seq(GoodChange)
<1>1. \A p \in Path : ChangeAt(prev, new, p) \in GoodChange
  BY DEF Table, ChangeAt, Change, KindOf, ChangeKind, GoodChange
<1>2. PICK s : list = [i \in 1..Len(s) |-> ChangeAt(prev, new, s[i])]
  <2>1. PICK w, r : list = [i \in 1..Len(w \o r) |-> ChangeAt(prev, new, (w \o r)[i])]
    BY DEF DirectoryChanges
  <2> QED BY <2>1
<1>3. list \in Seq(Change)  BY DirectoryChangesList
<1>4. Len(list) \in Nat /\ list \in [1..Len(list) -> Change]
  BY <1>3, LenProperties
<1>5. DOMAIN list = 1..Len(s) /\ DOMAIN list = 1..Len(list)  BY <1>2, <1>4
<1>6. ASSUME NEW i \in 1..Len(list) PROVE list[i] \in GoodChange
  <2>1. list[i] = ChangeAt(prev, new, s[i])  BY <1>2, <1>5
  <2>2. list[i] \in Change /\ list[i].path = s[i]
    BY <1>4, <2>1 DEF ChangeAt
  <2> QED BY <1>1, <2>1, <2>2 DEF Change
<1> QED BY <1>4, <1>6

\* A list of the x86 build arrives with all its changes; of the other one,
\* nothing does.
LEMMA ReadBack ==
    ASSUME NEW changes \in Seq(GoodChange)
    PROVE  /\ wide => ReadChanges(ChangesPacket(changes)) = << >>
           /\ ~wide => ReadChanges(ChangesPacket(changes)) =
                          [i \in 1..Len(changes) |-> AsRead(changes[i])]
           /\ wide \in BOOLEAN => Head(ChangesPacket(changes).size) \in 0..Len(changes)
           /\ Len(ChangesPacket(changes).entries) = Len(changes)
           /\ DOMAIN ChangesPacket(changes).entries = 1..Len(changes)
           /\ \A i \in 1..Len(changes) :
                 ChangesPacket(changes).entries[i].path = changes[i].path
<1>1. /\ Len(changes) \in Nat /\ DOMAIN changes = 1..Len(changes)
      /\ \A i \in 1..Len(changes) : changes[i] \in GoodChange
  BY LenProperties, ElementOfSeq
<1> DEFINE packet == ChangesPacket(changes)
           Entry(i) == [path |-> changes[i].path, code |-> CodeOf[changes[i].kind],
                        hash |-> IF changes[i].hash = NoFile THEN 0 ELSE changes[i].hash]
<1>2. /\ packet.size = SizeWritten(Len(changes))
      /\ packet.entries = [i \in 1..Len(changes) |-> Entry(i)]
  BY <1>1 DEF ChangesPacket
<1>3. Head(packet.size) = IF wide THEN 0 ELSE Len(changes)
  BY <1>2 DEF SizeWritten
<1>4. \A kind \in ChangeKind : KindRead(CodeOf[kind]) = kind
  BY DEF ChangeKind, CodeOf, KindRead
<1>5. ASSUME NEW i \in 1..Len(changes)
      PROVE  [path |-> Entry(i).path, hash |-> Entry(i).hash,
              kind |-> KindRead(Entry(i).code)] = AsRead(changes[i])
  BY <1>1, <1>4 DEF AsRead, GoodChange, Change
<1>6. ~wide => ReadChanges(packet) = [i \in 1..Len(changes) |-> AsRead(changes[i])]
  <2> HIDE DEF packet, Entry
  <2> SUFFICES ASSUME ~wide
               PROVE  ReadChanges(packet) = [i \in 1..Len(changes) |-> AsRead(changes[i])]
    OBVIOUS
  <2>1. ReadChanges(packet) =
          [i \in 1..Len(changes) |->
              [path |-> packet.entries[i].path, hash |-> packet.entries[i].hash,
               kind |-> KindRead(packet.entries[i].code)]]
    BY <1>3 DEF ReadChanges
  <2>2. \A i \in 1..Len(changes) : packet.entries[i] = Entry(i)  BY <1>2
  <2> QED BY <1>5, <2>1, <2>2
<1>7. wide => ReadChanges(packet) = << >>
  <2>1. wide => 1..Head(packet.size) = {}  BY <1>3
  <2> QED BY <2>1 DEF ReadChanges
<1>8. Len(packet.entries) = Len(changes) /\ DOMAIN packet.entries = 1..Len(changes)
  <2> HIDE DEF packet, Entry
  <2> QED BY <1>1, <1>2
<1>9. \A i \in 1..Len(changes) : packet.entries[i].path = changes[i].path
  BY <1>2
<1> QED BY <1>1, <1>3, <1>6, <1>7, <1>8, <1>9

\* What is read is a list of changes.
LEMMA ReadType ==
    ASSUME NEW changes \in Seq(GoodChange), wide \in BOOLEAN
    PROVE  ReadChanges(ChangesPacket(changes)) \in Seq(Change)
<1>1. CASE wide
  <2>1. ReadChanges(ChangesPacket(changes)) = << >>  BY <1>1, ReadBack
  <2> QED BY <2>1, EmptySeq
<1>2. CASE ~wide
  <2>1. 0 \in Hash
    <3>1. Modulus \in Nat /\ Gap \in 0..(Modulus - 1)  BY HashAssumption
    <3>2. Hash = 0..(Modulus - Gap - 1)  BY FilesAssumption
    <3> QED BY <3>1, <3>2
  <2>2. /\ Len(changes) \in Nat
        /\ \A i \in 1..Len(changes) : changes[i] \in GoodChange
    BY LenProperties, ElementOfSeq
  <2>3. \A i \in 1..Len(changes) : AsRead(changes[i]) \in Change
    BY <2>1, <2>2 DEF AsRead, GoodChange, Change
  <2>4. [i \in 1..Len(changes) |-> AsRead(changes[i])] \in Seq(Change)
    BY <2>2, <2>3
  <2> QED BY <1>2, <2>4, ReadBack
<1> QED BY <1>1, <1>2

(***************************************************************************)
(* The invariant: with the types, the kinds of changes fit their hashes,   *)
(* and what is under way was made of such changes.                         *)
(***************************************************************************)
FormatInv == TypeOK /\ fileChangeBuf \in Seq(GoodChange) /\ net \in Seq(Sent)

\* A packet says no more entries than it has.
LEMMA SentSizes ==
    ASSUME wide \in BOOLEAN, NEW s \in Seq(Sent)
    PROVE  \A i \in DOMAIN s : Head(s[i].size) \in 0..Len(s[i].entries)
<1> SUFFICES ASSUME NEW i \in DOMAIN s PROVE Head(s[i].size) \in 0..Len(s[i].entries)
  OBVIOUS
<1>1. s[i] \in Sent  BY LenProperties, ElementOfSeq
<1>2. PICK changes \in Seq(GoodChange) : s[i] = ChangesPacket(changes)
  BY <1>1 DEF Sent
<1> QED BY <1>2, ReadBack

\* It holds at the start, ...
LEMMA FormatInit == Init => FormatInv
<1> SUFFICES ASSUME Init PROVE FormatInv  OBVIOUS
<1>1. folder \in Folder /\ copy \in Folder
  BY FilesAssumption DEF Init
<1>2. listing \in Table /\ fileHashes \in Table
  BY <1>1, HashTableType DEF Init
<1>3. fileChangeBuf \in Seq(Change) /\ fileChanges \in Seq(Change)
      /\ fileChangeBuf \in Seq(GoodChange) /\ net \in Seq(Sent)
  BY EmptySeq DEF Init
<1>4. \A i \in DOMAIN net : Head(net[i].size) \in 0..Len(net[i].entries)
  BY <1>3, SentSizes DEF Init
<1>5. saves \in 0..MaxSaves /\ lost \in 0..MaxLost
  BY BoundAssumption DEF Init
<1> QED BY <1>1, <1>2, <1>3, <1>4, <1>5 DEF Init, FormatInv, TypeOK

\* ... and every step keeps it.
LEMMA FormatStep == FormatInv /\ [Next]_vars => FormatInv'
<1> SUFFICES ASSUME FormatInv, [Next]_vars PROVE FormatInv'  OBVIOUS
<1>0. wide' = wide
  BY DEF Next, UserChanges, WatchDirectory, Publish, Lose, Receive, RequestFile, vars
<1>1. Sent' = Sent
  BY <1>0 DEF Sent, ChangesPacket, SizeWritten
<1>2. /\ wide \in BOOLEAN /\ folder \in Folder /\ copy \in Folder
      /\ listing \in Table /\ fileHashes \in Table
      /\ fileChangeBuf \in Seq(GoodChange) /\ net \in Seq(Sent)
      /\ fileChanges \in Seq(Change) /\ saves \in 0..MaxSaves /\ lost \in 0..MaxLost
      /\ unsent \in SUBSET Path /\ early \in SUBSET Path
  BY DEF FormatInv, TypeOK
<1>3. GoodChange \subseteq Change  BY DEF GoodChange
<1>4. SUFFICES /\ folder' \in Folder /\ copy' \in Folder
               /\ listing' \in Table /\ fileHashes' \in Table
               /\ fileChangeBuf' \in Seq(GoodChange) /\ net' \in Seq(Sent)
               /\ fileChanges' \in Seq(Change)
               /\ saves' \in 0..MaxSaves /\ lost' \in 0..MaxLost
               /\ unsent' \in SUBSET Path /\ early' \in SUBSET Path
  <2>1. fileChangeBuf' \in Seq(Change)  BY <1>3, <1>4, SeqMonotonic
  <2>2. \A i \in DOMAIN net' : Head(net'[i].size) \in 0..Len(net'[i].entries)
    BY <1>0, <1>1, <1>2, <1>4, SentSizes
  <2> QED BY <1>0, <1>1, <1>2, <1>4, <2>1, <2>2 DEF FormatInv, TypeOK
<1>5. \A changes \in Seq(GoodChange) : PathsOf(changes) \in SUBSET Path
  <2> SUFFICES ASSUME NEW changes \in Seq(GoodChange) PROVE PathsOf(changes) \in SUBSET Path
    OBVIOUS
  <2>1. \A i \in DOMAIN changes : changes[i] \in Change
    BY <1>3, LenProperties, ElementOfSeq
  <2> QED BY <2>1 DEF PathsOf, Change
<1>6. ASSUME net # << >>
      PROVE  /\ Tail(net) \in Seq(Sent)
             /\ \E changes \in Seq(GoodChange) : Head(net) = ChangesPacket(changes)
  <2>1. Head(net) \in Sent /\ Tail(net) \in Seq(Sent)
    BY <1>2, <1>6, HeadTailProperties
  <2> QED BY <2>1 DEF Sent
<1>7. CASE \E p \in Edited, file \in Files \cup {NoFile} : UserChanges(p, file)
  <2>1. PICK p \in Edited, file \in Files \cup {NoFile} : UserChanges(p, file)  BY <1>7
  <2>2. folder' \in Folder  BY <1>2, <2>1, FilesAssumption DEF UserChanges, Folder
  <2>3. saves' \in 0..MaxSaves
    <3>1. MaxSaves \in Nat  BY BoundAssumption
    <3> QED BY <1>2, <2>1, <3>1 DEF UserChanges
  <2> QED BY <1>2, <2>1, <2>2, <2>3 DEF UserChanges
<1>8. CASE WatchDirectory
  <2>1. HashTable(folder) \in Table  BY <1>2, HashTableType
  <2>2. PICK changes \in DirectoryChanges(listing, HashTable(folder)) :
           fileChangeBuf' = fileChangeBuf \o changes
    BY <1>8 DEF WatchDirectory
  <2>3. fileChangeBuf' \in Seq(GoodChange)
    BY <1>2, <2>1, <2>2, ListsGood, ConcatProperties
  <2> QED BY <1>2, <1>8, <2>1, <2>3 DEF WatchDirectory
<1>9. CASE Publish
  <2>1. fileHashes' \in Table
    <3>1. fileChangeBuf \in Seq(Change)  BY <1>2, <1>3, SeqMonotonic
    <3> QED BY <1>2, <1>9, <3>1, LearnType DEF Publish
  <2>2. net' \in Seq(Sent)
    <3>1. ChangesPacket(fileChangeBuf) \in Sent  BY <1>2 DEF Sent
    <3>2. net' = net \/ net' = Append(net, ChangesPacket(fileChangeBuf))
      BY <1>9 DEF Publish
    <3> DEFINE packet == ChangesPacket(fileChangeBuf)
    <3>3. Append(net, packet) \in Seq(Sent)
      <4>1. packet \in Sent /\ net \in Seq(Sent)  BY <1>2, <3>1
      <4> HIDE DEF packet
      <4> QED BY <4>1, AppendProperties
    <3>4. net \in Seq(Sent)  BY <1>2
    <3> QED BY <3>2, <3>3, <3>4
  <2>3. unsent' \in SUBSET Path
    <3>1. unsent' = unsent \/ unsent' = unsent \cup PathsOf(fileChangeBuf)
      BY <1>9 DEF Publish
    <3> QED BY <1>2, <1>5, <3>1
  <2>4. fileChangeBuf' \in Seq(GoodChange)  BY <1>9, EmptySeq DEF Publish
  <2> QED BY <1>2, <1>9, <2>1, <2>2, <2>3, <2>4 DEF Publish
<1>10. CASE Lose
  <2>1. net # << >> /\ net' = Tail(net) /\ unsent' = unsent \cup PathsOf(Head(net).entries)
    BY <1>10 DEF Lose
  <2>2. PICK changes \in Seq(GoodChange) : Head(net) = ChangesPacket(changes)
    BY <1>6, <2>1
  <2>3. PathsOf(Head(net).entries) \in SUBSET Path
    <3>1. \A i \in 1..Len(changes) : changes[i].path \in Path
      BY <1>3, ElementOfSeq DEF Change
    <3> QED BY <2>2, <3>1, ReadBack DEF PathsOf
  <2>4. lost' \in 0..MaxLost
    <3>1. MaxLost \in Nat  BY BoundAssumption
    <3> QED BY <1>2, <1>10, <3>1 DEF Lose
  <2> QED BY <1>2, <1>6, <1>10, <2>1, <2>3, <2>4 DEF Lose
<1>11. CASE Receive
  <2>1. net # << >> /\ net' = Tail(net) /\ fileChanges' = ReadChanges(Head(net))
    BY <1>11 DEF Receive
  <2>2. fileChanges' \in Seq(Change)  BY <1>2, <1>6, <2>1, ReadType
  <2> QED BY <1>2, <1>6, <1>11, <2>1, <2>2 DEF Receive
<1>12. CASE RequestFile
  <2>1. fileChanges # << >> /\ fileChanges' = Tail(fileChanges)  BY <1>12 DEF RequestFile
  <2>2. Head(fileChanges) \in Change /\ fileChanges' \in Seq(Change)
    BY <1>2, <2>1, HeadTailProperties
  <2> DEFINE p == Head(fileChanges).path
  <2>3. p \in Path  BY <2>2 DEF Change
  <2> HIDE DEF p
  <2>4. \/ copy' = [copy EXCEPT ![p] = NoFile]
        \/ copy' = [copy EXCEPT ![p] = folder[p]]
        \/ copy' = copy
    BY <1>12 DEF RequestFile, p
  <2>5. copy' \in Folder  BY <1>2, <2>3, <2>4 DEF Folder
  <2>6. early' \in SUBSET Path
    <3>1. early' = early \cup {p} \/ early' = early \ {p}  BY <1>12 DEF RequestFile, p
    <3> QED BY <1>2, <2>3, <3>1
  <2> QED BY <1>2, <1>12, <2>2, <2>5, <2>6 DEF RequestFile
<1>13. CASE UNCHANGED vars  BY <1>2, <1>13 DEF vars
<1> QED BY <1>7, <1>8, <1>9, <1>10, <1>11, <1>12, <1>13 DEF Next

(***************************************************************************)
(* TypeOK: folders, tables, lists and datagrams are what their names say;  *)
(* in particular no hash is negative or reaches modBase, and no datagram   *)
(* says more entries than it has.                                          *)
(***************************************************************************)
THEOREM FormatTypes == Spec => []TypeOK
<1>1. FormatInv => TypeOK  BY DEF FormatInv
<1> QED BY <1>1, FormatInit, FormatStep, PTL DEF Spec

-----------------------------------------------------------------------------
(* What fits arrives.                                                      *)

\* One round of the sum over a set of paths, of the sizes of their entries.
EntrySizes(S, sums) ==
    [s \in SUBSET S |->
        IF s = {} THEN 0
        ELSE (PathSize(CHOOSE p \in s : TRUE) + HashSize) + sums[s \ {CHOOSE p \in s : TRUE}]]

\* Taking a path away from a set of them.
LEMMA OneLess ==
    ASSUME NEW S, IsFiniteSet(S), NEW s \in SUBSET S, s # {}
    PROVE  /\ (CHOOSE p \in s : TRUE) \in s
           /\ s \ {CHOOSE p \in s : TRUE} \in SUBSET S
           /\ Cardinality(s) \in Nat \ {0}
           /\ Cardinality(s \ {CHOOSE p \in s : TRUE}) = Cardinality(s) - 1
<1> DEFINE x == CHOOSE p \in s : TRUE
<1>1. x \in s  OBVIOUS
<1>2. IsFiniteSet(s)  BY FS_Subset
<1> HIDE DEF x
<1>3. Cardinality(s) \in Nat /\ Cardinality(s) # 0
  BY <1>2, FS_CardinalityType, FS_EmptySet
<1>4. Cardinality(s \ {x}) = Cardinality(s) - 1
  BY <1>1, <1>2, FS_RemoveElement
<1> QED BY <1>1, <1>3, <1>4 DEF x

\* An entry of a table takes sixteen bytes or more: its name is not empty.
LEMMA EntrySize ==
    ASSUME NEW p \in Path
    PROVE  PathSize(p) + HashSize \in Nat /\ PathSize(p) + HashSize >= 16
<1>1. Len(Name[p]) \in Nat /\ Len(Name[p]) # 0
  BY NameAssumption, LenProperties, EmptySeq
<1> QED BY <1>1 DEF PathSize, HashSize

\* The sums exist: after as many rounds as there are elements, nothing changes.
LEMMA SumsExist ==
    ASSUME NEW S \in SUBSET Path
    PROVE  \E sums : sums = EntrySizes(S, sums)
<1> DEFINE N      == Cardinality(S)
           Sums   == [SUBSET S -> Nat]
           base   == [s \in SUBSET S |-> 0]
           step   == [n \in 1..(N + 1) |-> [sums \in Sums |-> EntrySizes(S, sums)]]
<1>1. IsFiniteSet(S) /\ N \in Nat
  BY PathAssumption, FS_Subset, FS_CardinalityType
<1>2. \A s \in SUBSET S : Cardinality(s) \in 0..N
  BY <1>1, FS_Subset, FS_CardinalityType
<1>3. \A p \in Path : PathSize(p) + HashSize \in Nat  BY EntrySize
<1>4. ASSUME NEW sums \in Sums PROVE EntrySizes(S, sums) \in Sums
  <2>1. ASSUME NEW s \in SUBSET S, s # {}
        PROVE  (PathSize(CHOOSE p \in s : TRUE) + HashSize)
                  + sums[s \ {CHOOSE p \in s : TRUE}] \in Nat
    <3> DEFINE x == CHOOSE p \in s : TRUE
    <3>1. x \in Path /\ s \ {x} \in SUBSET S  BY <1>1, <2>1, OneLess
    <3> HIDE DEF x
    <3>2. PathSize(x) + HashSize \in Nat /\ sums[s \ {x}] \in Nat
      BY <1>3, <3>1
    <3> QED BY <3>2 DEF x
  <2> QED BY <2>1 DEF EntrySizes
<1> HIDE DEF N
<1>5. base \in Sums /\ step \in [1..(N + 1) -> [Sums -> Sums]]
  BY <1>4
<1>6. PICK f \in [0..(N + 1) -> Sums] : Course(f, N + 1, base, step)
  <2> HIDE DEF Sums, base, step
  <2>1. N + 1 \in Nat  BY <1>1
  <2> QED BY <1>5, <2>1, LoopRuns
<1>7. f[0] = base  BY <1>6 DEF Course
<1>8. ASSUME NEW n \in 1..(N + 1) PROVE f[n] = EntrySizes(S, f[n - 1])
  <2>1. f[n] = step[n][f[n - 1]]
    <3> HIDE DEF step
    <3> QED BY <1>6 DEF Course
  <2>2. f[n - 1] \in Sums
    <3> HIDE DEF Sums
    <3>1. n - 1 \in 0..(N + 1)  BY <1>1
    <3> QED BY <1>6, <3>1
  <2> HIDE DEF Sums
  <2> QED BY <2>1, <2>2
<1> HIDE DEF step, base
\* A set of at most n elements has its sum after n rounds.
<1> DEFINE Same(n) == \A s \in SUBSET S : Cardinality(s) <= n => f[n][s] = f[n + 1][s]
<1>9. ASSUME NEW n \in 0..N, n # 0 => Same(n - 1) PROVE Same(n)
  <2> SUFFICES ASSUME NEW s \in SUBSET S, Cardinality(s) <= n
               PROVE  f[n][s] = f[n + 1][s]
    OBVIOUS
  <2>1. f[n + 1] = EntrySizes(S, f[n])
    <3>1. n + 1 \in 1..(N + 1) /\ (n + 1) - 1 = n  BY <1>1
    <3> QED BY <1>8, <3>1
  <2>2. CASE s = {}
    <3>1. f[n + 1][s] = 0  BY <2>1, <2>2 DEF EntrySizes
    <3>2. CASE n = 0
      BY <1>7, <2>2, <3>1, <3>2 DEF base
    <3>3. CASE n # 0
      <4>1. n \in 1..(N + 1)  BY <1>1, <3>3
      <4>2. f[n] = EntrySizes(S, f[n - 1])  BY <1>8, <4>1
      <4> QED BY <2>2, <3>1, <4>2 DEF EntrySizes
    <3> QED BY <3>2, <3>3
  <2>3. CASE s # {}
    <3> DEFINE x == CHOOSE p \in s : TRUE
    <3>1. /\ s \ {x} \in SUBSET S
          /\ Cardinality(s) \in Nat \ {0}
          /\ Cardinality(s \ {x}) = Cardinality(s) - 1
      BY <1>1, <2>3, OneLess
    <3>2. n # 0 /\ n \in 1..(N + 1) /\ Cardinality(s \ {x}) <= n - 1 /\ (n - 1) + 1 = n
      BY <1>1, <3>1
    <3>3. f[n] = EntrySizes(S, f[n - 1])  BY <1>8, <3>2
    <3>4. f[n - 1][s \ {x}] = f[n][s \ {x}]
      <4> HIDE DEF x
      <4> QED BY <1>9, <3>1, <3>2
    <3>5. /\ f[n][s] = (PathSize(x) + HashSize) + f[n - 1][s \ {x}]
          /\ f[n + 1][s] = (PathSize(x) + HashSize) + f[n][s \ {x}]
      BY <2>1, <2>3, <3>3 DEF EntrySizes
    <3> QED BY <3>4, <3>5
  <2> QED BY <2>2, <2>3
<1>10. Same(N)
  <2> DEFINE Done == {n \in 0..N : Same(n)}
  <2> HIDE DEF Same
  <2>1. 0 \in Done  BY <1>1, <1>9
  <2>2. ASSUME NEW n \in 1..N, n - 1 \in Done PROVE n \in Done
    BY <1>1, <1>9, <2>2
  <2>3. 0..N \subseteq Done
    <3> HIDE DEF Done
    <3> QED BY <1>1, <2>1, <2>2, AllRounds
  <2> QED BY <1>1, <2>3
<1>11. f[N] = f[N + 1]
  <2>1. \A s \in SUBSET S : f[N][s] = f[N + 1][s]  BY <1>1, <1>2, <1>10
  <2>2. f[N] \in Sums /\ f[N + 1] \in Sums
    <3> HIDE DEF Sums
    <3>1. N \in 0..(N + 1) /\ N + 1 \in 0..(N + 1)  BY <1>1
    <3> QED BY <1>6, <3>1
  <2> QED BY <2>1, <2>2
<1>12. f[N + 1] = EntrySizes(S, f[N])
  <2>1. N + 1 \in 1..(N + 1) /\ (N + 1) - 1 = N  BY <1>1
  <2> QED BY <1>8, <2>1
<1> QED BY <1>11, <1>12

\* Each entry takes at least sixteen bytes.
LEMMA TableSizeBound ==
    ASSUME NEW table \in Table
    PROVE  /\ TableSize(table) \in Nat
           /\ 16 * Cardinality(Present(table)) <= TableSize(table)
<1> DEFINE S    == Present(table)
           sums == CHOOSE sums : sums = EntrySizes(S, sums)
<1>1. S \in SUBSET Path  BY DEF Present
<1>2. TableSize(table) = 3 + sums[S]
  BY DEF TableSize, MapThenSumSet, MapThenFoldSet, EntrySizes
<1>0. S = Present(table)  OBVIOUS
<1>3. sums = EntrySizes(S, sums)
  <2> HIDE DEF S
  <2> QED BY <1>1, SumsExist
<1> HIDE DEF sums, S
<1>4. IsFiniteSet(S)  BY <1>1, PathAssumption, FS_Subset
<1> DEFINE Bound(s) == sums[s] \in Nat /\ 16 * Cardinality(s) <= sums[s]
           Bad      == {s \in SUBSET S : ~Bound(s)}
<1>5. Bad = {}
  <2> SUFFICES ASSUME Bad # {} PROVE FALSE  OBVIOUS
  <2>1. Bad \subseteq FiniteSubsetsOf(S)
    BY <1>4, FS_FiniteSubsetsOfFinite
  <2>2. PICK s \in Bad : \A t \in Bad : ~(<<t, s>> \in StrictSubsetOrdering(S))
    <3> HIDE DEF Bad
    <3> QED BY <2>1, WFMin, FS_StrictSubsetOrderingWellFounded
  <2>3. s \in SUBSET S  OBVIOUS
  <2>4. CASE s = {}
    <3>1. sums[s] = 0  BY <1>3, <2>3, <2>4 DEF EntrySizes
    <3>2. Cardinality(s) = 0  BY <2>4, FS_EmptySet
    <3> QED BY <3>1, <3>2
  <2>5. CASE s # {}
    <3> DEFINE x == CHOOSE p \in s : TRUE
    <3>1. /\ x \in s /\ s \ {x} \in SUBSET S
          /\ Cardinality(s) \in Nat \ {0}
          /\ Cardinality(s \ {x}) = Cardinality(s) - 1
      BY <1>4, <2>3, <2>5, OneLess
    <3>2. sums[s] = (PathSize(x) + HashSize) + sums[s \ {x}]
      BY <1>3, <2>3, <2>5 DEF EntrySizes
    <3> HIDE DEF x
    <3>3. PathSize(x) + HashSize \in Nat /\ PathSize(x) + HashSize >= 16
      <4>1. x \in Path  BY <1>1, <2>3, <3>1
      <4> QED BY <4>1, EntrySize
    <3>4. <<s \ {x}, s>> \in StrictSubsetOrdering(S)
      BY <2>3, <3>1 DEF StrictSubsetOrdering
    <3>5. Bound(s \ {x})  BY <2>2, <3>1, <3>4
    <3>6. ~Bound(s)  OBVIOUS
    <3> QED BY <3>1, <3>2, <3>3, <3>5, <3>6
  <2> QED BY <2>4, <2>5
<1>6. Bound(S)  BY <1>5
<1>7. Cardinality(S) \in Nat  BY <1>4, FS_CardinalityType
<1>8. TableSize(table) = 3 + sums[S]  BY <1>2
<1> QED BY <1>0, <1>6, <1>7, <1>8

\* A table that can be sent is read as it was.
LEMMA TableArrives ==
    ASSUME NEW table \in Table, Fits(TableSize(table))
    PROVE  ReadTable(TablePacket(table)) = table
<1> DEFINE S == Present(table)
<1>1. S \in SUBSET Path /\ IsFiniteSet(S) /\ Cardinality(S) \in Nat
  <2>1. S \in SUBSET Path  BY DEF Present
  <2> HIDE DEF S
  <2> QED BY <2>1, PathAssumption, FS_Subset, FS_CardinalityType
<1>2. SizeCut(Cardinality(S)) = Cardinality(S)
  <2>1. TableSize(table) \in Nat /\ 16 * Cardinality(S) <= TableSize(table)
    BY TableSizeBound
  <2>2. TableSize(table) <= MaxPacket /\ MaxPacket < HalfWord * 16
    BY DatagramAssumption DEF Fits, HashSize
  <2>3. MaxPacket \in Nat /\ HalfWord \in Nat  BY BoundAssumption
  <2> HIDE DEF S
  <2>4. Cardinality(S) < HalfWord  BY <1>1, <2>1, <2>2, <2>3
  <2> QED BY <1>1, <2>3, <2>4 DEF SizeCut
<1>3. TablePacket(table).size = Cardinality(S) /\ TablePacket(table).entries = table
  BY <1>2 DEF TablePacket
<1>4. \A p \in Path : Cardinality({q \in S : q <= p}) <= Cardinality(S)
  <2> HIDE DEF S
  <2> QED BY <1>1, FS_Subset
<1>5. ReadTable(TablePacket(table)) = [p \in Path |-> table[p]]
  BY <1>3, <1>4 DEF ReadTable
<1> QED BY <1>5 DEF Table

(***************************************************************************)
(* WhatFitsArrives: a table that can be sent at all arrives as it was      *)
(* sent, although its size is cut to 16 bits, because entries take sixteen *)
(* bytes or more; and so does a list of changes in the x86 build.          *)
(***************************************************************************)
THEOREM FittingArrives == Spec => []WhatFitsArrives
<1>1. FormatInv => WhatFitsArrives
  <2> SUFFICES ASSUME FormatInv PROVE WhatFitsArrives  OBVIOUS
  <2>1. Fits(TableSize(fileHashes)) => ReadTable(TablePacket(fileHashes)) = fileHashes
    BY TableArrives DEF FormatInv, TypeOK
  <2>2. ASSUME ~wide, NEW i \in 1..Len(fileChangeBuf)
        PROVE  LET change == ReadChanges(ChangesPacket(fileChangeBuf))[i]
               IN  /\ change.path = fileChangeBuf[i].path
                   /\ change.kind = fileChangeBuf[i].kind
                   /\ change.kind # "Deletion" => change.hash = fileChangeBuf[i].hash
    <3>1. fileChangeBuf \in Seq(GoodChange)  BY DEF FormatInv
    <3>2. fileChangeBuf[i] \in GoodChange  BY <3>1, ElementOfSeq
    <3>3. ReadChanges(ChangesPacket(fileChangeBuf)) =
             [j \in 1..Len(fileChangeBuf) |-> AsRead(fileChangeBuf[j])]
      BY <2>2, <3>1, ReadBack
    <3>4. ReadChanges(ChangesPacket(fileChangeBuf))[i] = AsRead(fileChangeBuf[i])
      BY <3>3
    <3> QED BY <3>2, <3>4 DEF AsRead, GoodChange
  <2> QED BY <2>1, <2>2 DEF WhatFitsArrives
<1> QED BY <1>1, FormatInit, FormatStep, PTL DEF Spec

-----------------------------------------------------------------------------
(* Why a file still differs.                                               *)

\* A change says that the file is known by this hash, or that there is none.
Says(change, hash) ==
    /\ change.kind = "Deletion" <=> hash = NoFile
    /\ change.kind # "Deletion" => change.hash = hash

Mentions(list, p) == \E i \in DOMAIN list : list[i].path = p

\* The last change of the path, if there is one, says so.
Agrees(list, p, hash) ==
    \A i \in DOMAIN list :
        list[i].path = p /\ (\A j \in DOMAIN list : i < j => list[j].path # p)
            => Says(list[i], hash)

\* The same for a sequence of datagrams.
SomeMentions(packets, p) == \E k \in DOMAIN packets : Mentions(ReadChanges(packets[k]), p)

LastAgrees(packets, p, hash) ==
    \A k \in DOMAIN packets :
        Mentions(ReadChanges(packets[k]), p)
        /\ (\A m \in DOMAIN packets : k < m => ~Mentions(ReadChanges(packets[m]), p))
            => Agrees(ReadChanges(packets[k]), p, hash)

\* Where nothing is under way, nothing is said.
LEMMA NothingMentioned ==
    \A p, hash : /\ ~Mentions(<< >>, p) /\ Agrees(<< >>, p, hash)
                 /\ ~SomeMentions(<< >>, p) /\ LastAgrees(<< >>, p, hash)
BY DEF Mentions, Agrees, SomeMentions, LastAgrees

\* requestFiles takes the first change of its list.
LEMMA RestOfList ==
    ASSUME NEW S, NEW list \in Seq(S), list # << >>, NEW p, NEW hash
    PROVE  /\ Mentions(list, p) <=> Head(list).path = p \/ Mentions(Tail(list), p)
           /\ Agrees(list, p, hash) => Agrees(Tail(list), p, hash)
           /\ Agrees(list, p, hash) /\ Head(list).path = p /\ ~Mentions(Tail(list), p)
                 => Says(Head(list), hash)
<1> DEFINE rest == Tail(list)
<1>1. /\ Len(list) \in Nat \ {0} /\ DOMAIN list = 1..Len(list)
      /\ Head(list) = list[1]
      /\ Len(rest) = Len(list) - 1 /\ DOMAIN rest = 1..Len(rest)
      /\ \A i \in 1..Len(rest) : rest[i] = list[i + 1]
  BY EmptySeq, LenProperties, HeadTailProperties
<1> HIDE DEF rest
<1>2. \A i \in DOMAIN rest : i + 1 \in DOMAIN list /\ rest[i] = list[i + 1]
  BY <1>1
<1>3. \A i \in DOMAIN list : i # 1 => i - 1 \in DOMAIN rest /\ rest[i - 1] = list[i]
  BY <1>1
<1>4. Mentions(list, p) <=> Head(list).path = p \/ Mentions(rest, p)
  BY <1>1, <1>2, <1>3 DEF Mentions
<1>5. ASSUME Agrees(list, p, hash) PROVE Agrees(rest, p, hash)
  <2> SUFFICES ASSUME NEW i \in DOMAIN rest, rest[i].path = p,
                      \A j \in DOMAIN rest : i < j => rest[j].path # p
               PROVE  Says(rest[i], hash)
    BY DEF Agrees
  <2>1. ASSUME NEW j \in DOMAIN list, i + 1 < j PROVE list[j].path # p
    <3>1. j # 1 /\ i < j - 1  BY <1>1, <2>1
    <3> QED BY <1>3, <3>1
  <2> QED BY <1>2, <1>5, <2>1 DEF Agrees
<1>6. ASSUME Agrees(list, p, hash), Head(list).path = p, ~Mentions(rest, p)
      PROVE  Says(Head(list), hash)
  <2>1. 1 \in DOMAIN list  BY <1>1
  <2>2. ASSUME NEW j \in DOMAIN list, 1 < j PROVE list[j].path # p
    BY <1>1, <1>3, <1>6, <2>2 DEF Mentions
  <2> QED BY <1>1, <1>6, <2>1, <2>2 DEF Agrees
<1> QED BY <1>4, <1>5, <1>6 DEF rest

\* WatchDirectory adds its changes at the end of fileChangeBuf.
LEMMA TwoLists ==
    ASSUME NEW S, NEW first \in Seq(S), NEW second \in Seq(S), NEW p, NEW hash
    PROVE  /\ Mentions(first \o second, p) <=> Mentions(first, p) \/ Mentions(second, p)
           /\ Agrees(second, p, hash) /\ (~Mentions(second, p) => Agrees(first, p, hash))
                 => Agrees(first \o second, p, hash)
<1> DEFINE all == first \o second
<1>1. /\ Len(first) \in Nat /\ DOMAIN first = 1..Len(first)
      /\ Len(second) \in Nat /\ DOMAIN second = 1..Len(second)
      /\ Len(all) = Len(first) + Len(second) /\ DOMAIN all = 1..Len(all)
      /\ \A i \in 1..Len(first) + Len(second) :
            all[i] = IF i <= Len(first) THEN first[i] ELSE second[i - Len(first)]
  BY LenProperties, ConcatProperties
<1> HIDE DEF all
<1>2. \A i \in DOMAIN first : i \in DOMAIN all /\ all[i] = first[i]
  BY <1>1
<1>3. \A i \in DOMAIN second : Len(first) + i \in DOMAIN all /\ all[Len(first) + i] = second[i]
  BY <1>1
<1>4. \A i \in DOMAIN all : i \notin DOMAIN first =>
          i - Len(first) \in DOMAIN second /\ all[i] = second[i - Len(first)]
  BY <1>1
<1>5. Mentions(all, p) <=> Mentions(first, p) \/ Mentions(second, p)
  BY <1>2, <1>3, <1>4 DEF Mentions
<1>6. ASSUME Agrees(second, p, hash), ~Mentions(second, p) => Agrees(first, p, hash)
      PROVE  Agrees(all, p, hash)
  <2> SUFFICES ASSUME NEW i \in DOMAIN all, all[i].path = p,
                      \A j \in DOMAIN all : i < j => all[j].path # p
               PROVE  Says(all[i], hash)
    BY DEF Agrees
  <2>1. CASE i \in DOMAIN first
    <3>1. ~Mentions(second, p)
      <4> SUFFICES ASSUME NEW j \in DOMAIN second PROVE second[j].path # p
        BY DEF Mentions
      <4>1. i < Len(first) + j  BY <1>1, <2>1
      <4> QED BY <1>3, <4>1
    <3>2. \A j \in DOMAIN first : i < j => first[j].path # p  BY <1>2
    <3> QED BY <1>2, <1>6, <2>1, <3>1, <3>2 DEF Agrees
  <2>2. CASE i \notin DOMAIN first
    <3>1. ASSUME NEW j \in DOMAIN second, i - Len(first) < j PROVE second[j].path # p
      <4>1. i < Len(first) + j  BY <1>1, <3>1
      <4> QED BY <1>3, <4>1
    <3> QED BY <1>4, <1>6, <2>2, <3>1 DEF Agrees
  <2> QED BY <2>1, <2>2
<1> QED BY <1>5, <1>6 DEF all

\* A datagram arrives or is lost.
LEMMA RestOfPackets ==
    ASSUME NEW S, NEW packets \in Seq(S), packets # << >>, NEW p, NEW hash
    PROVE  /\ SomeMentions(packets, p) <=>
                 Mentions(ReadChanges(Head(packets)), p) \/ SomeMentions(Tail(packets), p)
           /\ LastAgrees(packets, p, hash) => LastAgrees(Tail(packets), p, hash)
           /\ /\ LastAgrees(packets, p, hash) /\ ~SomeMentions(Tail(packets), p)
              /\ Mentions(ReadChanges(Head(packets)), p)
              => Agrees(ReadChanges(Head(packets)), p, hash)
<1> DEFINE rest == Tail(packets)
<1>1. /\ Len(packets) \in Nat \ {0} /\ DOMAIN packets = 1..Len(packets)
      /\ Head(packets) = packets[1]
      /\ Len(rest) = Len(packets) - 1 /\ DOMAIN rest = 1..Len(rest)
      /\ \A i \in 1..Len(rest) : rest[i] = packets[i + 1]
  BY EmptySeq, LenProperties, HeadTailProperties
<1> HIDE DEF rest
<1>2. \A i \in DOMAIN rest : i + 1 \in DOMAIN packets /\ rest[i] = packets[i + 1]
  BY <1>1
<1>3. \A i \in DOMAIN packets : i # 1 => i - 1 \in DOMAIN rest /\ rest[i - 1] = packets[i]
  BY <1>1
<1>4. SomeMentions(packets, p) <=>
         Mentions(ReadChanges(Head(packets)), p) \/ SomeMentions(rest, p)
  <2>1. ASSUME SomeMentions(packets, p)
        PROVE  Mentions(ReadChanges(Head(packets)), p) \/ SomeMentions(rest, p)
    BY <1>1, <1>3, <2>1 DEF SomeMentions
  <2>2. 1 \in DOMAIN packets  BY <1>1
  <2>3. Mentions(ReadChanges(Head(packets)), p) => SomeMentions(packets, p)
    BY <1>1, <2>2 DEF SomeMentions
  <2>4. SomeMentions(rest, p) => SomeMentions(packets, p)
    BY <1>2 DEF SomeMentions
  <2> QED BY <2>1, <2>3, <2>4
<1>5. ASSUME LastAgrees(packets, p, hash) PROVE LastAgrees(rest, p, hash)
  <2> SUFFICES ASSUME NEW i \in DOMAIN rest, Mentions(ReadChanges(rest[i]), p),
                      \A j \in DOMAIN rest : i < j => ~Mentions(ReadChanges(rest[j]), p)
               PROVE  Agrees(ReadChanges(rest[i]), p, hash)
    BY DEF LastAgrees
  <2>1. ASSUME NEW j \in DOMAIN packets, i + 1 < j
        PROVE  ~Mentions(ReadChanges(packets[j]), p)
    <3>1. j # 1 /\ i < j - 1  BY <1>1, <2>1
    <3> QED BY <1>3, <3>1
  <2> QED BY <1>2, <1>5, <2>1 DEF LastAgrees
<1>6. ASSUME LastAgrees(packets, p, hash), ~SomeMentions(rest, p),
             Mentions(ReadChanges(Head(packets)), p)
      PROVE  Agrees(ReadChanges(Head(packets)), p, hash)
  <2>1. 1 \in DOMAIN packets  BY <1>1
  <2>2. ASSUME NEW j \in DOMAIN packets, 1 < j PROVE ~Mentions(ReadChanges(packets[j]), p)
    BY <1>1, <1>3, <1>6, <2>2 DEF SomeMentions
  <2> QED BY <1>1, <1>6, <2>1, <2>2 DEF LastAgrees
<1> QED BY <1>4, <1>5, <1>6 DEF rest

\* A datagram is sent.
LEMMA OneMorePacket ==
    ASSUME NEW S, NEW packets \in Seq(S), NEW packet \in S, NEW p, NEW hash
    PROVE  /\ SomeMentions(Append(packets, packet), p) <=>
                 SomeMentions(packets, p) \/ Mentions(ReadChanges(packet), p)
           /\ /\ Mentions(ReadChanges(packet), p) => Agrees(ReadChanges(packet), p, hash)
              /\ ~Mentions(ReadChanges(packet), p) => LastAgrees(packets, p, hash)
              => LastAgrees(Append(packets, packet), p, hash)
<1> DEFINE all == Append(packets, packet)
           n   == Len(packets)
<1>1. /\ n \in Nat /\ DOMAIN packets = 1..n
      /\ Len(all) = n + 1 /\ DOMAIN all = 1..(n + 1)
      /\ \A i \in 1..n : all[i] = packets[i]
      /\ all[n + 1] = packet
  BY LenProperties, AppendProperties
<1> HIDE DEF all, n
<1>2. \A i \in DOMAIN packets : i \in DOMAIN all /\ all[i] = packets[i] /\ i < n + 1
  BY <1>1
<1>3. \A i \in DOMAIN all : i \in DOMAIN packets \/ i = n + 1
  BY <1>1
<1>4. n + 1 \in DOMAIN all  BY <1>1
<1>5. SomeMentions(all, p) <=> SomeMentions(packets, p) \/ Mentions(ReadChanges(packet), p)
  BY <1>1, <1>2, <1>3, <1>4 DEF SomeMentions
<1>6. ASSUME Mentions(ReadChanges(packet), p) => Agrees(ReadChanges(packet), p, hash),
             ~Mentions(ReadChanges(packet), p) => LastAgrees(packets, p, hash)
      PROVE  LastAgrees(all, p, hash)
  <2> SUFFICES ASSUME NEW i \in DOMAIN all, Mentions(ReadChanges(all[i]), p),
                      \A j \in DOMAIN all : i < j => ~Mentions(ReadChanges(all[j]), p)
               PROVE  Agrees(ReadChanges(all[i]), p, hash)
    BY DEF LastAgrees
  <2>1. CASE i = n + 1  BY <1>1, <1>6, <2>1
  <2>2. CASE i \in DOMAIN packets
    <3>1. ~Mentions(ReadChanges(packet), p)  BY <1>1, <1>2, <1>4, <2>2
    <3> QED BY <1>2, <1>6, <2>2, <3>1 DEF LastAgrees
  <2> QED BY <1>3, <2>1, <2>2
<1> QED BY <1>5, <1>6 DEF all

\* What is read of a datagram says what was written into it.
LEMMA ReadSays ==
    ASSUME NEW changes \in Seq(GoodChange), NEW p, NEW hash, wide \in BOOLEAN, ~wide
    PROVE  LET read == ReadChanges(ChangesPacket(changes))
           IN  /\ Mentions(read, p) <=> Mentions(changes, p)
               /\ Agrees(changes, p, hash) => Agrees(read, p, hash)
               /\ Mentions(read, p) <=> p \in PathsOf(ChangesPacket(changes).entries)
<1> DEFINE read == ReadChanges(ChangesPacket(changes))
<1>1. /\ DOMAIN changes = 1..Len(changes)
      /\ \A i \in 1..Len(changes) : changes[i] \in GoodChange
  BY LenProperties, ElementOfSeq
<1>2. read = [i \in 1..Len(changes) |-> AsRead(changes[i])]
  BY ReadBack
<1> HIDE DEF read
<1>3. /\ DOMAIN read = DOMAIN changes
      /\ \A i \in DOMAIN read :
            /\ read[i].path = changes[i].path
            /\ Says(changes[i], hash) => Says(read[i], hash)
  <2>1. \A change \in GoodChange :
           /\ AsRead(change).path = change.path
           /\ Says(change, hash) => Says(AsRead(change), hash)
    BY DEF GoodChange, Says, AsRead
  <2> QED BY <1>1, <1>2, <2>1
<1>4. Mentions(read, p) <=> Mentions(changes, p)
  BY <1>3 DEF Mentions
<1>5. Agrees(changes, p, hash) => Agrees(read, p, hash)
  BY <1>3 DEF Agrees
<1>6. p \in PathsOf(ChangesPacket(changes).entries) <=> Mentions(changes, p)
  BY <1>1, ReadBack DEF PathsOf, Mentions
<1> QED BY <1>4, <1>5, <1>6 DEF read

\* The copy is there or not as the file was listed, and has the hash that was
\* listed, as the writer or as the reader spells its path.
Settled(p) ==
    /\ copy[p] = NoFile <=> listing[p] = NoFile
    /\ listing[p] # NoFile =>
          listing[p] \in {HashOf(ListedAs(p), copy[p]), HashOf(AskedAs(p), copy[p])}

(***************************************************************************)
(* Of every path of which no list was lost or left unsent: the last change *)
(* under way, be it in fileChangeBuf, in a datagram or in requestFiles,    *)
(* says what the watcher listed last; and if none is under way, the copy   *)
(* is as listed or was fetched too early.                                  *)
(***************************************************************************)
OnTheWay(p) ==
    /\ Agrees(fileChangeBuf, p, listing[p])
    /\ ~Mentions(fileChangeBuf, p) =>
          /\ LastAgrees(net, p, listing[p])
          /\ ~SomeMentions(net, p) =>
                /\ Agrees(fileChanges, p, listing[p])
                /\ ~Mentions(fileChanges, p) => p \in early \/ Settled(p)

TravelInv == ~wide => \A p \in Path \ unsent : OnTheWay(p)

\* It holds at the start, ...
LEMMA TravelInit == Init => TravelInv
<1> SUFFICES ASSUME Init, NEW p \in Path PROVE OnTheWay(p)
  BY DEF TravelInv
<1>1. folder \in Folder  BY FilesAssumption DEF Init
<1>2. Settled(p)  BY <1>1, HashTableType DEF Init, Settled
<1> QED BY <1>2, NothingMentioned DEF Init, OnTheWay

\* ... and every step keeps it.
LEMMA TravelStep == FormatInv /\ TravelInv /\ [Next]_vars => TravelInv'
<1> SUFFICES ASSUME FormatInv, TravelInv, [Next]_vars, ~wide',
                    NEW p \in Path, p \notin unsent'
             PROVE  OnTheWay(p)'
  BY DEF TravelInv
<1>1. ~wide
  BY DEF Next, UserChanges, WatchDirectory, Publish, Lose, Receive, RequestFile, vars
<1>2. /\ wide \in BOOLEAN /\ folder \in Folder /\ copy \in Folder
      /\ listing \in Table
      /\ fileChangeBuf \in Seq(GoodChange) /\ net \in Seq(Sent)
      /\ fileChanges \in Seq(Change)
  BY DEF FormatInv, TypeOK
<1>3. p \notin unsent => OnTheWay(p)
  BY <1>1 DEF TravelInv
<1> DEFINE hash == listing[p]
<1>4. \A changes \in Seq(GoodChange) :
         /\ Mentions(ReadChanges(ChangesPacket(changes)), p) <=> Mentions(changes, p)
         /\ Agrees(changes, p, hash) => Agrees(ReadChanges(ChangesPacket(changes)), p, hash)
         /\ Mentions(ReadChanges(ChangesPacket(changes)), p)
               <=> p \in PathsOf(ChangesPacket(changes).entries)
  BY <1>1, <1>2, ReadSays
<1>5. CASE \E q \in Edited, file \in Files \cup {NoFile} : UserChanges(q, file)
  <2>1. UNCHANGED <<fileChangeBuf, net, fileChanges, copy, listing, early, unsent>>
    BY <1>5 DEF UserChanges
  <2> QED BY <1>3, <2>1 DEF OnTheWay, Settled
<1>6. CASE WatchDirectory
  <2>0. UNCHANGED <<net, fileChanges, copy, early, unsent>> /\ listing' = HashTable(folder)
    BY <1>6 DEF WatchDirectory
  <2>1. listing' \in Table  BY <1>2, <2>0, HashTableType
  <2>2. PICK changes \in DirectoryChanges(listing, listing') :
           fileChangeBuf' = fileChangeBuf \o changes
    BY <1>6 DEF WatchDirectory
  <2>3. /\ changes \in Seq(GoodChange)
        /\ \A i \in 1..Len(changes) : changes[i].hash = listing'[changes[i].path]
        /\ \A q \in Written(listing, listing') \cup Removed(listing, listing') :
              \E i \in 1..Len(changes) : changes[i].path = q
    BY <1>2, <2>1, DirectoryChangesList, ListsGood
  <2>4. DOMAIN changes = 1..Len(changes) /\ \A i \in 1..Len(changes) : changes[i] \in GoodChange
    BY <2>3, LenProperties, ElementOfSeq
  <2>5. Agrees(changes, p, listing'[p])
    BY <2>3, <2>4 DEF Agrees, Says, GoodChange
  <2>6. ~Mentions(changes, p) => listing'[p] = listing[p]
    <3>1. ~Mentions(changes, p) =>
             p \notin Written(listing, listing') \cup Removed(listing, listing')
      BY <2>3, <2>4 DEF Mentions
    <3> QED BY <3>1 DEF Written, Removed
  <2>7. OnTheWay(p)  BY <1>3, <2>0
  <2>8. Agrees(fileChangeBuf', p, listing'[p])
    <3>1. ~Mentions(changes, p) => Agrees(fileChangeBuf, p, listing'[p])
      BY <2>6, <2>7 DEF OnTheWay
    <3> QED BY <1>2, <2>2, <2>3, <2>5, <3>1, TwoLists
  <2>9. ~Mentions(fileChangeBuf', p) => ~Mentions(fileChangeBuf, p) /\ ~Mentions(changes, p)
    BY <1>2, <2>2, <2>3, TwoLists
  <2>10. ~Mentions(fileChangeBuf', p) => listing'[p] = listing[p]
    BY <2>6, <2>9
  <2> QED BY <2>0, <2>7, <2>8, <2>9, <2>10 DEF OnTheWay, Settled
<1>7. CASE Publish
  <2>1. UNCHANGED <<fileChanges, copy, early, listing>> /\ fileChangeBuf' = << >>
    BY <1>7 DEF Publish
  <2>2. p \notin unsent /\ OnTheWay(p)
    BY <1>3, <1>7 DEF Publish
  <2>3. CASE Fits(ChangesSize(fileChangeBuf))
    <3>1. net' = Append(net, ChangesPacket(fileChangeBuf))  BY <1>7, <2>3 DEF Publish
    <3>2. ChangesPacket(fileChangeBuf) \in Sent  BY <1>2 DEF Sent
    <3>3. SomeMentions(net', p) <=> SomeMentions(net, p) \/ Mentions(fileChangeBuf, p)
      BY <1>2, <1>4, <3>1, <3>2, OneMorePacket
    <3>4. LastAgrees(net', p, hash)
      BY <1>2, <1>4, <2>2, <3>1, <3>2, OneMorePacket DEF OnTheWay
    <3> QED BY <2>1, <2>2, <3>3, <3>4, NothingMentioned DEF OnTheWay, Settled
  <2>4. CASE ~Fits(ChangesSize(fileChangeBuf))
    <3>1. net' = net /\ unsent' = unsent \cup PathsOf(fileChangeBuf)
      BY <1>7, <2>4 DEF Publish
    <3>2. ~Mentions(fileChangeBuf, p)
      BY <3>1 DEF PathsOf, Mentions
    <3> QED BY <2>1, <2>2, <3>1, <3>2, NothingMentioned DEF OnTheWay, Settled
  <2> QED BY <2>3, <2>4
<1>8. ASSUME net # << >>, net' = Tail(net)
      PROVE  /\ \E changes \in Seq(GoodChange) : Head(net) = ChangesPacket(changes)
             /\ SomeMentions(net, p) <=>
                   Mentions(ReadChanges(Head(net)), p) \/ SomeMentions(net', p)
             /\ LastAgrees(net, p, hash) => LastAgrees(net', p, hash)
             /\ /\ LastAgrees(net, p, hash) /\ ~SomeMentions(net', p)
                /\ Mentions(ReadChanges(Head(net)), p)
                => Agrees(ReadChanges(Head(net)), p, hash)
  <2>1. Head(net) \in Sent  BY <1>2, <1>8, HeadTailProperties
  <2> QED BY <1>2, <1>8, <2>1, RestOfPackets DEF Sent
<1>9. CASE Lose
  <2>1. /\ net # << >> /\ net' = Tail(net)
        /\ unsent' = unsent \cup PathsOf(Head(net).entries)
        /\ UNCHANGED <<fileChangeBuf, fileChanges, copy, early, listing>>
    BY <1>9 DEF Lose
  <2>2. ~Mentions(ReadChanges(Head(net)), p)
    BY <1>4, <1>8, <2>1
  <2>3. OnTheWay(p)  BY <1>3, <2>1
  <2> QED BY <1>8, <2>1, <2>2, <2>3 DEF OnTheWay, Settled
<1>10. CASE Receive
  <2>1. /\ net # << >> /\ net' = Tail(net)
        /\ fileChanges = << >> /\ fileChanges' = ReadChanges(Head(net))
        /\ UNCHANGED <<fileChangeBuf, copy, early, listing, unsent>>
    BY <1>10 DEF Receive
  <2>2. OnTheWay(p)  BY <1>3, <2>1
  <2>3. ~Mentions(ReadChanges(Head(net)), p) => Agrees(ReadChanges(Head(net)), p, hash)
    BY DEF Mentions, Agrees
  <2> QED BY <1>8, <2>1, <2>2, <2>3, NothingMentioned DEF OnTheWay, Settled
<1>11. CASE RequestFile
  <2> DEFINE change == Head(fileChanges)
             q      == change.path
             asked  == change.kind # "Deletion" /\ ~SameHash(change)
  <2>1. /\ fileChanges # << >> /\ fileChanges' = Tail(fileChanges)
        /\ copy' = CASE change.kind = "Deletion"     -> [copy EXCEPT ![q] = NoFile]
                     [] asked /\ folder[q] # NoFile -> [copy EXCEPT ![q] = folder[q]]
                     [] OTHER                       -> copy
        /\ early' = IF asked /\ HashTable(folder)[q] # listing[q]
                    THEN early \cup {q} ELSE early \ {q}
        /\ UNCHANGED <<fileChangeBuf, net, listing, unsent>>
    BY <1>11 DEF RequestFile
  <2>2. change \in Change /\ q \in Path
    <3>1. change \in Change  BY <1>2, <2>1, HeadTailProperties
    <3> QED BY <3>1 DEF Change
  <2>3. /\ Mentions(fileChanges, p) <=> q = p \/ Mentions(fileChanges', p)
        /\ Agrees(fileChanges, p, hash) => Agrees(fileChanges', p, hash)
        /\ Agrees(fileChanges, p, hash) /\ q = p /\ ~Mentions(fileChanges', p)
              => Says(change, hash)
    BY <1>2, <2>1, RestOfList
  <2>4. OnTheWay(p)  BY <1>3, <2>1
  <2> HIDE DEF change
  <2>5. CASE q # p
    <3>1. copy'[p] = copy[p] /\ (p \in early' <=> p \in early)
      BY <1>2, <2>1, <2>2, <2>5 DEF Folder
    <3> QED BY <2>1, <2>3, <2>4, <2>5, <3>1 DEF OnTheWay, Settled
  <2>6. CASE q = p
    <3>1. ASSUME Says(change, hash) PROVE p \in early' \/ Settled(p)'
      <4>1. CASE change.kind = "Deletion"
        <5>1. listing[p] = NoFile  BY <3>1, <4>1 DEF Says
        <5>2. copy'[p] = NoFile  BY <1>2, <2>1, <2>2, <2>6, <4>1 DEF Folder
        <5> QED BY <2>1, <5>1, <5>2 DEF Settled
      <4>2. CASE change.kind # "Deletion" /\ SameHash(change)
        <5>1. listing[p] # NoFile /\ listing[p] = change.hash  BY <3>1, <4>2 DEF Says
        <5>2. copy' = copy  BY <2>1, <4>2
        <5> QED BY <2>1, <2>6, <4>2, <5>1, <5>2 DEF Settled, SameHash
      <4>3. CASE asked
        <5>1. listing[p] # NoFile  BY <3>1, <4>3 DEF Says
        <5>2. CASE HashTable(folder)[p] # listing[p]
          BY <2>1, <2>6, <4>3, <5>2
        <5>3. CASE HashTable(folder)[p] = listing[p]
          <6>1. folder[p] # NoFile /\ listing[p] = HashOf(ListedAs(p), folder[p])
            BY <1>2, <5>1, <5>3, HashTableType
          <6>2. copy'[p] = folder[p]
            BY <1>2, <2>1, <2>2, <2>6, <4>3, <6>1 DEF Folder
          <6> QED BY <2>1, <5>1, <6>1, <6>2 DEF Settled
        <5> QED BY <5>2, <5>3
      <4> QED BY <4>1, <4>2, <4>3
    <3> QED BY <2>1, <2>3, <2>4, <2>6, <3>1 DEF OnTheWay
  <2> QED BY <2>5, <2>6
<1>12. CASE UNCHANGED vars
  BY <1>3, <1>12 DEF vars, OnTheWay, Settled
<1> QED BY <1>5, <1>6, <1>7, <1>9, <1>10, <1>11, <1>12 DEF Next

(***************************************************************************)
(* WhyDifferent: when all that was noticed has been dealt with, a file     *)
(* that still differs has a hash that meets the other's, or was in a list  *)
(* that was lost or too large, or was fetched between a change and a       *)
(* change back.  Whatever the hash is: of HashOf only the type is used.    *)
(***************************************************************************)
THEOREM DifferencesExplained == Spec => []WhyDifferent
<1>1. FormatInv /\ TravelInv => WhyDifferent
  <2> SUFFICES ASSUME FormatInv, TravelInv, AtRest, ~wide,
                      NEW p \in Path, p \notin unsent \cup early, folder[p] # copy[p]
               PROVE  HashesMeet(p)
    BY DEF WhyDifferent
  <2>1. /\ folder \in Folder /\ copy \in Folder
        /\ fileChangeBuf \in Seq(Change) /\ net \in Seq(Sent) /\ fileChanges \in Seq(Change)
    BY DEF FormatInv, TypeOK
  <2>2. fileChangeBuf = << >> /\ net = << >> /\ fileChanges = << >>
    <3>1. \A S : \A s \in Seq(S) : Len(s) \in Nat /\ (s = << >> <=> Len(s) = 0)
      BY EmptySeq, LenProperties
    <3> DEFINE Any == Change \cup Sent
    <3>2. fileChangeBuf \in Seq(Any) /\ net \in Seq(Any) /\ fileChanges \in Seq(Any)
      BY <2>1, SeqMonotonic
    <3> HIDE DEF Any
    <3>3. fileChangeBuf \o net \in Seq(Any)  BY <3>2, ConcatProperties
    <3>4. Len(fileChangeBuf \o net \o fileChanges)
             = Len(fileChangeBuf) + Len(net) + Len(fileChanges)
      BY <3>2, <3>3, ConcatProperties
    <3>5. Len(fileChangeBuf \o net \o fileChanges) = 0  BY DEF AtRest
    <3>6. Len(fileChangeBuf) = 0 /\ Len(net) = 0 /\ Len(fileChanges) = 0
      BY <3>1, <3>2, <3>4, <3>5
    <3> QED BY <3>1, <3>2, <3>6
  <2>3. Settled(p)
    BY <2>2, NothingMentioned DEF TravelInv, OnTheWay
  <2>4. listing[p] = IF folder[p] = NoFile THEN NoFile ELSE HashOf(ListedAs(p), folder[p])
    BY <2>1, HashTableType DEF AtRest
  <2>5. listing[p] = NoFile <=> folder[p] = NoFile
    BY <2>1, HashTableType DEF AtRest
  <2> QED BY <2>3, <2>4, <2>5 DEF Settled, HashesMeet
<1>2. FormatInv /\ TravelInv /\ [Next]_vars => (FormatInv /\ TravelInv)'
  BY FormatStep, TravelStep
<1> QED BY <1>1, <1>2, FormatInit, TravelInit, PTL DEF Spec

-----------------------------------------------------------------------------
(* Which single bytes getFileHash does not see.                            *)

\* A plain text is read as it is.
LEMMA PlainIsRead ==
    ASSUME NEW file \in Seq(Byte), PlainText(file)
    PROVE  ReadInText(file) = file
<1>1. PICK text : TextOf(text, file) /\ ReadInText(file) = text[Len(file)]
  BY ReadInTextRounds
<1>2. /\ Len(file) \in Nat /\ DOMAIN file = 1..Len(file)
      /\ \A n \in 1..Len(file) : file[n] \in Byte /\ file[n] \notin {Cr, Eof}
  BY LenProperties, ElementOfSeq DEF PlainText
<1>3. ASSUME NEW n \in 1..Len(file) PROVE text[n] = Append(text[n - 1], file[n])
  <2>1. ~(\E k \in 1..n : file[k] = Eof)  BY <1>2
  <2>2. file[n] # Cr  BY <1>2
  <2> QED BY <1>1, <2>1, <2>2 DEF TextOf
<1> DEFINE Start(n) == /\ Len(text[n]) = n
                       /\ \A k \in 1..n : text[n][k] = file[k]
           T        == {n \in 0..Len(file) : Start(n)}
<1>4. 0 \in T
  <2>1. text[0] = << >>  BY <1>1 DEF TextOf
  <2> QED BY <1>2, <2>1
<1>5. ASSUME NEW n \in 1..Len(file), n - 1 \in T PROVE n \in T
  <2>1. Start(n - 1)  BY <1>5
  <2>2. n - 1 \in 0..Len(file)  BY <1>2
  <2>3. text[n - 1] \in Seq(Byte)
    BY <1>1, <2>2 DEF TextOf
  <2> DEFINE before == text[n - 1]
  <2>4. text[n] = Append(before, file[n])  BY <1>3
  <2>5. Len(before) = n - 1 /\ \A k \in 1..(n - 1) : before[k] = file[k]
    BY <2>1
  <2>6. before \in Seq(Byte) /\ file[n] \in Byte  BY <1>2, <2>3
  <2> HIDE DEF before
  <2>7. /\ Len(text[n]) = n
        /\ \A k \in 1..(n - 1) : text[n][k] = before[k]
        /\ text[n][n] = file[n]
    <3>1. /\ Len(text[n]) = Len(before) + 1
          /\ \A k \in 1..Len(before) : text[n][k] = before[k]
          /\ text[n][Len(before) + 1] = file[n]
      BY <2>4, <2>6, AppendProperties
    <3>2. Len(before) = n - 1 /\ Len(before) + 1 = n  BY <1>2, <2>5
    <3> QED BY <3>1, <3>2
  <2>8. Start(n)
    <3>1. \A k \in 1..n : k \in 1..(n - 1) \/ k = n  BY <1>2
    <3> QED BY <2>5, <2>7, <3>1
  <2> QED BY <1>2, <2>8
<1>6. Len(file) \in T
  <2> HIDE DEF T
  <2>1. 0..Len(file) \subseteq T  BY <1>2, <1>4, <1>5, AllRounds
  <2> QED BY <1>2, <2>1
<1>7. text[Len(file)] \in Seq(Byte)
  BY <1>1, <1>2 DEF TextOf
<1>8. text[Len(file)] = file
  BY <1>2, <1>6, <1>7, SeqEqual
<1> QED BY <1>1, <1>8

\* The weight of a byte is nothing for the first and from there in every cycle.
LEMMA NoWeight ==
    ASSUME NEW n \in Nat \ {0}
    PROVE  /\ Weight(n) \in 0..(Cycle - 1)
           /\ Weight(n) = 0 <=> n % Cycle = 1 % Cycle
<1>1. Cycle \in Nat \ {0}  BY HashAssumption
<1> DEFINE r == (n - 1) % Cycle
           q == (n - 1) \div Cycle
           s == n % Cycle
           t == n \div Cycle
<1>2. r \in 0..(Cycle - 1) /\ q \in Int /\ n - 1 = Cycle * q + r
  BY <1>1
<1>3. s \in 0..(Cycle - 1) /\ t \in Int /\ n = Cycle * t + s
  BY <1>1
<1> HIDE DEF r, q, s, t
<1>4. CASE Cycle = 1
  <2>1. 1 % Cycle = 0  BY <1>4
  <2>2. r = 0 /\ s = 0  BY <1>2, <1>3, <1>4
  <2> QED BY <1>2, <2>1, <2>2 DEF Weight, r, s
<1>5. CASE Cycle # 1
  <2>1. 1 % Cycle = 1  BY <1>1, <1>5
  <2>2. Cycle * t + s = Cycle * q + r + 1  BY <1>1, <1>2, <1>3
  <2>3. Cycle * (t - q) = r + 1 - s  BY <1>1, <1>2, <1>3, <2>2
  <2> DEFINE d == t - q
  <2>4. d \in Int /\ Cycle * d = r + 1 - s  BY <1>2, <1>3, <2>3
  <2> HIDE DEF d
  <2>5. d <= 1
    <3>1. d >= 2 => Cycle * d >= Cycle * 2  BY <1>1, <2>4
    <3> QED BY <1>1, <1>2, <1>3, <2>4, <3>1
  <2>6. d >= 0
    <3>1. d <= -1 => Cycle * d <= Cycle * (-1)  BY <1>1, <2>4
    <3> QED BY <1>1, <1>2, <1>3, <2>4, <3>1
  <2>7. CASE d = 0
    <3>1. s = r + 1  BY <1>1, <1>2, <1>3, <2>4, <2>7
    <3> QED BY <1>2, <1>3, <2>1, <3>1 DEF Weight, r, s
  <2>8. CASE d = 1
    <3>1. Cycle = r + 1 - s  BY <1>1, <2>4, <2>8
    <3>2. s = 0 /\ r = Cycle - 1  BY <1>1, <1>2, <1>3, <3>1
    <3> QED BY <1>1, <1>2, <1>3, <1>5, <2>1, <3>2 DEF Weight, r, s
  <2> QED BY <2>4, <2>5, <2>6, <2>7, <2>8
<1> QED BY <1>4, <1>5

\* Nothing is taken off a number that is smaller than the modulus.
LEMMA SmallRemainder ==
    ASSUME NEW m \in Nat \ {0}, NEW x \in 0..(m - 1)
    PROVE  x % m = x
<1> DEFINE q == x \div m
           r == x % m
<1>1. q \in Int /\ r \in 0..(m - 1) /\ x = m * q + r  OBVIOUS
<1> HIDE DEF q, r
<1>2. q >= 1 => m * q >= m  BY <1>1
<1>3. q <= -1 => m * q <= -m  BY <1>1
<1>4. m * q \in Int  BY <1>1
<1>5. q = 0
  <2>1. ~(q >= 1)  BY <1>1, <1>2, <1>4
  <2>2. ~(q <= -1)  BY <1>1, <1>3, <1>4
  <2> QED BY <1>1, <2>1, <2>2
<1>6. m * q = 0  BY <1>5
<1>7. r = x  BY <1>1, <1>6
<1> QED BY <1>7 DEF r

\* hash is the sum without any modulus after so many bytes.
SumCourse(hash, base, file) ==
    /\ hash \in [0..Len(file) -> Int] /\ hash[0] = base
    /\ \A n \in 1..Len(file) : hash[n] = hash[n - 1] + file[n] * Weight(n)

\* If no sum wraps round, the hash of a plain text is the sum.
LEMMA PlainSums ==
    ASSUME NEW path \in Seq(Nat), path # << >>,
           NEW file \in Seq(Byte), PlainText(file), NoSumWraps(path, file)
    PROVE  \E hash : /\ SumCourse(hash, PathHash(path, Len(file)), file)
                     /\ HashOf(path, file) = hash[Len(file)]
<1> DEFINE N    == Len(file)
           base == PathHash(path, N)
           M    == Modulus - Gap
<1>1. /\ N \in Nat /\ DOMAIN file = 1..N
      /\ \A n \in 1..N : file[n] \in Byte /\ file[n] >= 0
  BY LenProperties, ElementOfSeq DEF PlainText
<1>2. /\ Byte \subseteq Int /\ Cycle \in Nat \ {0}
      /\ Modulus \in Nat /\ Gap \in Nat /\ M \in Nat /\ M <= Modulus
      /\ Hash \subseteq Nat
  BY HashAssumption, FilesAssumption
<1>3. base \in Nat
  <2>1. N \in Int  BY <1>1
  <2> HIDE DEF N
  <2>2. PathHash(path, N) \in Hash  BY <2>1, PathHashType
  <2> QED BY <1>2, <2>2
<1>4. Weighted(file) = [n \in 1..N |-> file[n] * Weight(n)]
  BY <1>1, PlainIsRead DEF Weighted
<1> HIDE DEF N, base, M
<1>5. PICK hash : AddCourse(hash, base, Weighted(file)) /\ HashOf(path, file) = hash[N]
  <2>1. HashOf(path, file) = AddedUp(base, Weighted(file))
    BY DEF HashOf, Weighted, base, N
  <2>2. Weighted(file) \in Seq(Int) /\ Len(Weighted(file)) = N
    BY WeightedType, PlainIsRead DEF N
  <2>3. base \in Int  BY <1>3
  <2> QED BY <2>1, <2>2, <2>3, AddedUpRounds
<1>6. /\ hash \in [0..N -> Int] /\ hash[0] = base
      /\ \A n \in 1..N : /\ hash[n] = Added(hash[n - 1], file[n] * Weight(n))
                         /\ hash[n] \in Nat
  <2>1. Len(Weighted(file)) = N  BY WeightedType, PlainIsRead DEF N
  <2> QED BY <1>2, <1>4, <1>5, <2>1 DEF AddCourse
<1>p. PICK most \in Byte : /\ \A n \in 1..N : file[n] <= most
                           /\ base + N * (most * (Cycle - 1)) < M
  BY <1>1 DEF NoSumWraps, base, N, M
<1>7. \A x \in 0..(M - 1) : \A h, y \in Int : x = h + y => Added(h, y) = x
  <2> SUFFICES ASSUME NEW x \in 0..(M - 1), NEW h \in Int, NEW y \in Int, x = h + y
               PROVE  Added(h, y) = x
    OBVIOUS
  <2>1. x \in Nat /\ x < M /\ x < Modulus  BY <1>2
  <2>2. M \in Nat \ {0} /\ Modulus \in Nat \ {0} /\ x \in 0..(Modulus - 1)
    BY <1>2, <2>1
  <2>3. x % Modulus = x /\ x % M = x  BY <2>2, SmallRemainder
  <2> QED BY <2>3 DEF Added, M
<1> DEFINE K == most * (Cycle - 1)
<1>8. K \in Int /\ base + N * K < M  BY <1>p, <1>2
<1>9. ASSUME NEW n \in 1..N
      PROVE  file[n] * Weight(n) \in 0..K
  <2>1. Weight(n) \in 0..(Cycle - 1)  BY <1>1, NoWeight
  <2>2. file[n] \in 0..most
    <3>1. file[n] \in Int /\ file[n] >= 0  BY <1>1, <1>2
    <3>2. file[n] <= most  BY <1>p
    <3> QED BY <1>2, <3>1, <3>2
  <2>3. \A b \in 0..most, w \in 0..(Cycle - 1) : b * w \in 0..(most * (Cycle - 1))
    <3> SUFFICES ASSUME NEW b \in 0..most, NEW w \in 0..(Cycle - 1)
                 PROVE  b * w \in 0..(most * (Cycle - 1))
      OBVIOUS
    <3> DEFINE c == Cycle - 1
    <3>1. c \in Nat /\ w \in 0..c /\ b \in Nat /\ most \in Nat /\ b <= most  BY <1>2
    <3> HIDE DEF c
    <3>2. b * w >= 0 /\ b * w <= b * c /\ b * c <= most * c
      BY <3>1
    <3>3. b * w \in Int /\ b * c \in Int /\ most * c \in Int  BY <3>1
    <3>4. b * w \in 0..(most * c)  BY <3>2, <3>3
    <3> QED BY <3>4 DEF c
  <2> QED BY <2>1, <2>2, <2>3
<1> HIDE DEF K
<1> DEFINE T == {n \in 0..N : hash[n] \in Nat /\ hash[n] <= base + n * K}
<1>10. 0 \in T
  <2>1. 0 * K = 0 /\ 0 \in 0..N  BY <1>1, <1>8
  <2> QED BY <1>3, <1>6, <2>1
<1>11. ASSUME NEW n \in 1..N, n - 1 \in T
       PROVE  hash[n] = hash[n - 1] + file[n] * Weight(n) /\ n \in T
  <2> DEFINE x == file[n] * Weight(n)
             h == hash[n - 1]
  <2>1. x \in 0..K /\ K \in Nat
    <3>1. x \in 0..K  BY <1>9
    <3> HIDE DEF x
    <3> QED BY <1>8, <3>1
  <2>2. h \in Nat /\ h <= base + (n - 1) * K  BY <1>11
  <2>3. hash[n] = Added(h, x)  BY <1>6
  <2> HIDE DEF x, h
  <2>4. h + x <= base + n * K
    <3>1. (n - 1) * K = n * K - K  BY <1>1, <2>1
    <3> QED BY <1>1, <1>3, <2>1, <2>2, <3>1
  <2>5. h + x \in 0..(M - 1)
    <3>1. n * K <= N * K  BY <1>1, <2>1
    <3> QED BY <1>1, <1>2, <1>3, <1>8, <2>1, <2>2, <2>4, <3>1
  <2>6. hash[n] = h + x  BY <1>7, <2>1, <2>2, <2>3, <2>5
  <2>7. hash[n] \in Nat  BY <2>1, <2>2, <2>6
  <2> QED BY <1>1, <2>4, <2>6, <2>7 DEF x, h
<1>12. 0..N \subseteq T
  <2> HIDE DEF T
  <2> QED BY <1>1, <1>10, <1>11, AllRounds
<1>13. \A n \in 1..N : hash[n] = hash[n - 1] + file[n] * Weight(n)
  <2> HIDE DEF T
  <2>1. \A n \in 1..N : n - 1 \in 0..N  BY <1>1
  <2> QED BY <1>11, <1>12, <2>1
<1>14. SumCourse(hash, base, file)
  BY <1>6, <1>13 DEF SumCourse, N
<1> QED BY <1>5, <1>14 DEF N, base

\* Of two plain texts that differ in one byte.
LEMMA OneByteCounts ==
    ASSUME NEW path \in Seq(Nat), path # << >>,
           NEW file \in Files \cup {NoFile}, NEW other \in Files \cup {NoFile},
           NEW n \in OneByte(file, other), NoSumWraps(path, file), NoSumWraps(path, other)
    PROVE  /\ file # NoFile /\ other # NoFile
           /\ HashOf(path, file) = HashOf(path, other)
                 <=> n % Cycle = 1 % Cycle
<1> DEFINE N   == Len(file)
           base == PathHash(path, N)
           new == {k \in DOMAIN file : file[k] # other[k]}
<1>1. /\ file # NoFile /\ other # NoFile
      /\ file \in Files /\ other \in Files /\ Len(file) = Len(other)
      /\ PlainText(file) /\ PlainText(other) /\ Cardinality(new) = 1 /\ n \in new
  BY DEF OneByte
<1>s. file \in Seq(Byte) /\ other \in Seq(Byte)  BY <1>1, FilesAssumption
<1>2. /\ N \in Nat /\ DOMAIN file = 1..N
      /\ \A k \in 1..N : file[k] \in Int /\ other[k] \in Int
  <2>1. file \in Seq(Byte) /\ other \in Seq(Byte) /\ Byte \subseteq Int
    BY <1>1, FilesAssumption, HashAssumption
  <2> QED BY <1>1, <2>1, LenProperties, ElementOfSeq
<1>3. n \in 1..N /\ file[n] # other[n]  BY <1>1, <1>2
<1>4. \A k \in 1..N : k # n => file[k] = other[k]
  <2>1. IsFiniteSet(new)
    <3>1. IsFiniteSet(1..N)  BY <1>2, FS_Interval
    <3>2. new \subseteq 1..N  BY <1>2
    <3> QED BY <3>1, <3>2, FS_Subset
  <2>2. PICK m : new = {m}
    <3> HIDE DEF new
    <3> QED BY <1>1, <2>1, FS_Singleton
  <2> QED BY <1>1, <1>2, <2>2
<1>5. PICK f : SumCourse(f, base, file) /\ HashOf(path, file) = f[Len(file)]
  BY <1>1, <1>s, PlainSums
<1>6. PICK g : SumCourse(g, base, other) /\ HashOf(path, other) = g[Len(other)]
  BY <1>1, <1>s, PlainSums
<1>7. /\ f \in [0..N -> Int] /\ f[0] = base
       /\ \A k \in 1..N : f[k] = f[k - 1] + file[k] * Weight(k)
  BY <1>5 DEF SumCourse
<1>8. /\ g \in [0..N -> Int] /\ g[0] = base
       /\ \A k \in 1..N : g[k] = g[k - 1] + other[k] * Weight(k)
  BY <1>1, <1>6 DEF SumCourse
<1>9. HashOf(path, file) = f[N] /\ HashOf(path, other) = g[N]
  BY <1>1, <1>5, <1>6
<1>10. \A k \in 1..N : Weight(k) \in Nat  BY <1>2, NoWeight
<1> DEFINE gain == file[n] * Weight(n) - other[n] * Weight(n)
           T    == {k \in 0..N : f[k] - g[k] = IF k < n THEN 0 ELSE gain}
<1>11. gain \in Int  BY <1>2, <1>3, <1>10
<1> HIDE DEF N, base, new
<1>12. 0 \in T
  <2>1. f[0] - g[0] = 0
    <3>1. 0 \in 0..N  BY <1>2
    <3>2. f[0] \in Int  BY <1>7, <3>1
    <3> QED BY <1>7, <1>8, <3>2
  <2> QED BY <1>2, <1>3, <2>1
<1>13. ASSUME NEW k \in 1..N, k - 1 \in T PROVE k \in T
  <2>1. /\ k - 1 \in 0..N /\ k \in 0..N
        /\ f[k - 1] - g[k - 1] = IF k - 1 < n THEN 0 ELSE gain
    BY <1>2, <1>13
  <2>2. f[k - 1] \in Int /\ g[k - 1] \in Int  BY <1>7, <1>8, <2>1
  <2> DEFINE x == file[k] * Weight(k)
             y == other[k] * Weight(k)
  <2>3. x \in Int /\ y \in Int  BY <1>2, <1>10
  <2>4. f[k] = f[k - 1] + x /\ g[k] = g[k - 1] + y  BY <1>7, <1>8
  <2>5. IF k = n THEN x - y = gain ELSE x = y  BY <1>4
  <2> HIDE DEF x, y, gain
  <2>6. f[k] - g[k] = (f[k - 1] - g[k - 1]) + (x - y)  BY <2>2, <2>3, <2>4
  <2>7. f[k] - g[k] = IF k < n THEN 0 ELSE gain
    <3>1. k \in Int /\ n \in Int  BY <1>2, <1>3
    <3>2. CASE k = n
      <4>1. f[k - 1] - g[k - 1] = 0  BY <2>1, <3>1, <3>2
      <4>2. x - y = gain  BY <2>5, <3>2
      <4> QED BY <1>11, <2>6, <3>1, <3>2, <4>1, <4>2
    <3>3. CASE k # n
      <4>1. x - y = 0  BY <2>3, <2>5, <3>3
      <4>2. k - 1 < n <=> k < n  BY <3>1, <3>3
      <4>3. f[k - 1] - g[k - 1] \in Int  BY <2>2
      <4> QED BY <2>1, <2>6, <4>1, <4>2, <4>3
    <3> QED BY <3>2, <3>3
  <2> QED BY <2>1, <2>7
<1>14. f[N] - g[N] = gain
  <2>1. N \in T
    <3> HIDE DEF T
    <3>1. 0..N \subseteq T  BY <1>2, <1>12, <1>13, AllRounds
    <3> QED BY <1>2, <3>1
  <2> QED BY <1>2, <1>3, <2>1
<1>15. f[N] = g[N] <=> gain = 0
  <2>1. f[N] \in Int /\ g[N] \in Int  BY <1>2, <1>7, <1>8
  <2> HIDE DEF gain
  <2> QED BY <1>11, <1>14, <2>1
<1>16. gain = 0 <=> Weight(n) = 0
  <2>1. \A a, b \in Int, w \in Nat : a # b => (a * w - b * w = 0 <=> w = 0)
    <3> SUFFICES ASSUME NEW a \in Int, NEW b \in Int, NEW w \in Nat, a # b
                 PROVE  a * w - b * w = 0 <=> w = 0
      OBVIOUS
    <3>1. a * w - b * w = (a - b) * w  OBVIOUS
    <3>2. w = 0 => (a - b) * w = 0  OBVIOUS
    <3>3. w # 0 => (a - b) * w # 0
      <4> DEFINE d == a - b
      <4>1. d \in Int /\ d # 0  OBVIOUS
      <4> HIDE DEF d
      <4>2. w # 0 => d * w # 0  BY <4>1
      <4> QED BY <4>2 DEF d
    <3> QED BY <3>1, <3>2, <3>3
  <2> DEFINE x == file[n]
             y == other[n]
             w == Weight(n)
  <2>2. x \in Int /\ y \in Int /\ w \in Nat /\ x # y  BY <1>2, <1>3, <1>10
  <2>3. x * w - y * w = 0 <=> w = 0
    <3> HIDE DEF x, y, w
    <3> QED BY <2>1, <2>2
  <2> QED BY <2>3
<1>17. Weight(n) = 0 <=> n % Cycle = 1 % Cycle
  <2>1. n \in Nat \ {0}  BY <1>2, <1>3
  <2> QED BY <2>1, NoWeight
<1> HIDE DEF gain
<1>18. f[N] = g[N] <=> n % Cycle = 1 % Cycle  BY <1>15, <1>16, <1>17
<1> QED BY <1>1, <1>18, <1>9

(***************************************************************************)
(* TenthBytesUnseen: a user changes one byte of a plain text, and the hash *)
(* in the next listing is the same exactly when the byte is the first or   *)
(* comes a multiple of ten after it.                                       *)
(***************************************************************************)
THEOREM TenthBytesGoUnseen == Spec => TenthBytesUnseen
<1>1. ASSUME FormatInv, FormatInv', NEW p \in Path, NEW n \in OneByte(folder[p], folder'[p]),
             NoSumWraps(ListedAs(p), folder[p]), NoSumWraps(ListedAs(p), folder'[p])
      PROVE  HashTable(folder)[p] = HashTable(folder')[p] <=> n % Cycle = 1 % Cycle
  <2>1. folder \in Folder /\ folder' \in Folder  BY <1>1 DEF FormatInv, TypeOK
  <2>2. folder[p] \in Files \cup {NoFile} /\ folder'[p] \in Files \cup {NoFile}
    BY <2>1 DEF Folder
  <2>3. /\ folder[p] # NoFile /\ folder'[p] # NoFile
        /\ HashOf(ListedAs(p), folder[p]) = HashOf(ListedAs(p), folder'[p])
              <=> n % Cycle = 1 % Cycle
    BY <1>1, <2>2, OneByteCounts, NamesType
  <2>4. /\ HashTable(folder)[p] = HashOf(ListedAs(p), folder[p])
        /\ HashTable(folder')[p] = HashOf(ListedAs(p), folder'[p])
    BY <2>1, <2>3, HashTableType
  <2> QED BY <2>3, <2>4
<1>2. FormatInv /\ FormatInv' =>
         [\A p \in Path : \A n \in OneByte(folder[p], folder'[p]) :
             NoSumWraps(ListedAs(p), folder[p]) /\ NoSumWraps(ListedAs(p), folder'[p]) =>
                (HashTable(folder)[p] = HashTable(folder')[p] <=> n % Cycle = 1 % Cycle)]_vars
  BY <1>1
<1> QED BY <1>2, FormatInit, FormatStep, PTL DEF Spec, TenthBytesUnseen

=============================================================================
