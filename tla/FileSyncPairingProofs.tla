------------------------- MODULE FileSyncPairingProofs -------------------------
(***************************************************************************)
(* Theorems about FileSync: a reply, a file on its way and a server that   *)
(* waits all belong to the request that their client is negotiating about. *)
(* From that: a circle of nodes that wait for each other is never opened,  *)
(* nothing else stops the network while no datagram and no connection is   *)
(* lost, and the folders only change as SharedFolders says.                *)
(***************************************************************************)
EXTENDS FileSyncSafetyProofs

Serving == {"open", "accept", "send"}

\* At most one request of n among the datagrams of a queue.
OneOf(q, n) == \A i, j \in 1..Len(q) : Asks(q[i], n) /\ Asks(q[j], n) => i = j

\* n waits for the answer of m about a file, and for the file.
Expects(n, m, path) ==
    \E t \in Thread : pc[n][t] = "negotiate" /\ job[n][t].from = m /\ Entry(n, t).path = path
Fetches(n, m, path) ==
    \E t \in Thread : pc[n][t] \in Receiving /\ job[n][t].from = m /\ Entry(n, t).path = path

(***************************************************************************)
(* What there is of a negotiation of n is in one place only: a request in  *)
(* the socket buffer of a server, the same in its queue, the server's work *)
(* on it with the answer, or the file on its way.                          *)
(***************************************************************************)
InFlight(m, n) == ~NoneOf(udp[m], n) \/ ~NoneOf(todoUdp[m], n)

Matches(q, m, n) == \A i \in 1..Len(q) : Asks(q[i], n) => Expects(n, m, q[i].change.path)

RequestsOf(m, n) ==
    /\ OneOf(udp[m], n) /\ OneOf(todoUdp[m], n)
    /\ NoneOf(udp[m], n) \/ NoneOf(todoUdp[m], n)
    /\ Matches(udp[m], m, n) /\ Matches(todoUdp[m], m, n)
    /\ InFlight(m, n) => reply[n] = Nothing /\ ~Serves(m, n, Serving)

ServiceOf(m, n) ==
    Serves(m, n, Serving) =>
        /\ \E t \in Thread : AsksFor(n, t, m, serving[m].path)
        /\ reply[n] # Nothing => ~reply[n].abandon

AnswerOf(n) ==
    /\ reply[n] # Nothing => Expects(n, reply[n].from, reply[n].path)
    /\ incoming[n] # Nothing => Fetches(n, incoming[n].from, incoming[n].path)

Paired(n) == AnswerOf(n) /\ \A m \in Node : RequestsOf(m, n) /\ ServiceOf(m, n)
PairInv   == \A n \in Node : Paired(n)

\* Nothing is left of the negotiations of n.
Silent(n) ==
    /\ reply[n] = Nothing /\ incoming[n] = Nothing
    /\ \A m \in Node : NoneOf(udp[m], n) /\ NoneOf(todoUdp[m], n) /\ ~Serves(m, n, Serving)

-----------------------------------------------------------------------------
\* A queue with no other requests of n than another.
Fewer(q, r, n) ==
    /\ OneOf(r, n) => OneOf(q, n)
    /\ \A i \in 1..Len(q) : Asks(q[i], n) => \E j \in 1..Len(r) : r[j] = q[i]

LEMMA FewerSame == \A q, n : Fewer(q, q, n)
BY DEF Fewer

LEMMA FewerTail ==
    ASSUME NEW q \in Seq(Datagram), q # << >>, NEW n
    PROVE  /\ Fewer(Tail(q), q, n)
           /\ OneOf(q, n) /\ Asks(Head(q), n) => NoneOf(Tail(q), n)
<1>1. /\ Len(q) \in Nat /\ Len(q) > 0 /\ Len(Tail(q)) = Len(q) - 1 /\ Head(q) = q[1]
      /\ \A i \in 1..Len(Tail(q)) : Tail(q)[i] = q[i + 1]
  OBVIOUS
<1>2. \A i \in 1..Len(Tail(q)) : i \in Nat /\ i + 1 \in 1..Len(q) /\ i + 1 # 1 /\ 1 \in 1..Len(q)
  BY <1>1
<1>3. OneOf(q, n) => OneOf(Tail(q), n)
  BY <1>1, <1>2 DEF OneOf
<1>4. OneOf(q, n) /\ Asks(Head(q), n) => NoneOf(Tail(q), n)
  BY <1>1, <1>2 DEF OneOf, NoneOf
<1> QED BY <1>1, <1>2, <1>3, <1>4 DEF Fewer

\* A datagram that is no request of n.
LEMMA FewerAppend ==
    ASSUME NEW q \in Seq(Datagram), NEW msg \in Datagram, NEW n, ~Asks(msg, n)
    PROVE  /\ Fewer(Append(q, msg), q, n)
           /\ NoneOf(q, n) => NoneOf(Append(q, msg), n)
<1>1. /\ Len(q) \in Nat /\ Len(Append(q, msg)) = Len(q) + 1
      /\ \A i \in 1..Len(q) : Append(q, msg)[i] = q[i]
      /\ Append(q, msg)[Len(q) + 1] = msg
  OBVIOUS
<1>2. \A i \in 1..Len(Append(q, msg)) : i \in 1..Len(q) \/ i = Len(q) + 1
  BY <1>1
<1>3. \A i \in 1..Len(Append(q, msg)) :
         Asks(Append(q, msg)[i], n) => i \in 1..Len(q) /\ Append(q, msg)[i] = q[i]
  BY <1>1, <1>2
<1> QED BY <1>3 DEF Fewer, OneOf, NoneOf

\* One that is.
LEMMA OneAppend ==
    ASSUME NEW q \in Seq(Datagram), NEW msg \in Datagram, NEW n, NoneOf(q, n)
    PROVE  /\ OneOf(Append(q, msg), n)
           /\ \A i \in 1..Len(Append(q, msg)) :
                 Asks(Append(q, msg)[i], n) => Append(q, msg)[i] = msg
<1>1. /\ Len(q) \in Nat /\ Len(Append(q, msg)) = Len(q) + 1
      /\ \A i \in 1..Len(q) : Append(q, msg)[i] = q[i]
      /\ Append(q, msg)[Len(q) + 1] = msg
  OBVIOUS
<1>2. \A i \in 1..Len(Append(q, msg)) : i \in 1..Len(q) \/ i = Len(q) + 1
  BY <1>1
<1>3. \A i \in 1..Len(Append(q, msg)) : Asks(Append(q, msg)[i], n) => i = Len(q) + 1
  BY <1>1, <1>2 DEF NoneOf
<1> QED BY <1>1, <1>3 DEF OneOf

LEMMA FewerTwice ==
    ASSUME NEW q, NEW r, NEW s, NEW n, Fewer(q, r, n), Fewer(r, s, n)
    PROVE  Fewer(q, s, n)
<1>1. ASSUME NEW i \in 1..Len(q), Asks(q[i], n) PROVE \E j \in 1..Len(s) : s[j] = q[i]
  <2>1. PICK j \in 1..Len(r) : r[j] = q[i]
    BY <1>1 DEF Fewer
  <2>2. Asks(r[j], n)
    BY <1>1, <2>1
  <2> QED BY <2>1, <2>2 DEF Fewer
<1> QED BY <1>1 DEF Fewer

LEMMA FewerNone ==
    ASSUME NEW q, NEW r, NEW n, Fewer(q, r, n), NoneOf(r, n)
    PROVE  NoneOf(q, n)
BY DEF Fewer, NoneOf

LEMMA SendFewer ==
    ASSUME NEW c \in Node, NEW msg \in Datagram, ~Asks(msg, c),
           udp \in [Node -> Seq(Datagram)], NEW n \in Node, NEW m \in Node
    PROVE  /\ Fewer(BroadcastBy(n, msg)[m], udp[m], c)
           /\ \A buffers \in [Node -> Seq(Datagram)] :
                 Fewer(SentTo(buffers, n, msg)[m], buffers[m], c)
<1>1. \A q \in Seq(Datagram) : Fewer(Append(q, msg), q, c) /\ Fewer(q, q, c)
  BY FewerAppend, FewerSame
<1> QED BY <1>1 DEF BroadcastBy, SentTo

-----------------------------------------------------------------------------
LEMMA Threads ==
    /\ "discoverer" \in Thread /\ "handler" \in Thread /\ "tableManager" \in Thread
    /\ Serving \cap Negotiating = {} /\ Receiving \subseteq Negotiating
    /\ "negotiate" \in Negotiating \ Receiving
    /\ {"connect", "receive", "stuck"} \subseteq Receiving
    /\ {"idle", "announce", "compare", "request", "sent"} \cap (Negotiating \cup Serving) = {}
    /\ {"open", "accept", "send"} \subseteq Serving
BY DEF Thread, Serving, Negotiating, Receiving

\* Opening a file for writing, measuring one and editing one leave the
\* services as they are.
LEMMA SameServing ==
    ASSUME LockInv, NEW n \in Node,
           UserStep(n) \/ \E t \in Thread : OpenForWriting(n, t) \/ Connect(n, t)
    PROVE  SameService
<1>1. serving \in [Node -> {Nothing} \cup Service]
  BY DEF LockInv, TypeOK
<1>2. CASE UserStep(n)
  BY <1>1, <1>2, UserTouchesFile
<1>3. ASSUME NEW t \in Thread, OpenForWriting(n, t) PROVE SameService
  BY <1>1, <1>3, WrittenToService, ServiceKept DEF OpenForWriting
<1>4. ASSUME NEW t \in Thread, Connect(n, t) PROVE SameService
  <2>1. incoming[n].from \in Node /\ pc[incoming[n].from]["handler"] = "accept"
    <3>1. incoming[n] \in Reception
      BY <1>4 DEF LockInv, Places, PlaceOf, TypeOK, Connect, Receiving, Negotiating
    <3> QED BY <1>4, <3>1 DEF Reception, Connect
  <2>2. serving[incoming[n].from] # Nothing
    BY <2>1 DEF LockInv, Places, InCase5
  <2> QED BY <1>1, <1>4, <2>1, <2>2, MeasuredService, ServiceKept DEF Connect
<1> QED BY <1>2, <1>3, <1>4

\* negotiateTCPTransfer is run by one thread of a node at a time.
LEMMA OneNegotiates ==
    ASSUME LockHeld, NEW n \in Node, NEW t \in Thread, NEW u \in Thread,
           pc[n][t] \in Negotiating, pc[n][u] \in Negotiating
    PROVE  t = u
BY DEF LockHeld

LEMMA SilentIsPaired == \A n \in Node : Silent(n) => Paired(n)
BY DEF Silent, Paired, AnswerOf, RequestsOf, ServiceOf, InFlight, NoneOf, OneOf, Matches

\* Nothing is under way for a node that does not negotiate.
LEMMA QuietIsSilent ==
    ASSUME NEW n \in Node, Paired(n), \A t \in Thread : pc[n][t] \notin Negotiating
    PROVE  Silent(n)
<1>1. \A m, path : ~Expects(n, m, path) /\ ~Fetches(n, m, path)
  BY Threads DEF Expects, Fetches
<1>2. \A m, path, t : t \in Thread => ~AsksFor(n, t, m, path)
  BY DEF AsksFor
<1>3. reply[n] = Nothing /\ incoming[n] = Nothing
  BY <1>1 DEF Paired, AnswerOf
<1>4. \A m \in Node : NoneOf(udp[m], n) /\ NoneOf(todoUdp[m], n)
  BY <1>1 DEF Paired, RequestsOf, Matches, NoneOf
<1>5. \A m \in Node : ~Serves(m, n, Serving)
  BY <1>2 DEF Paired, ServiceOf
<1> QED BY <1>3, <1>4, <1>5 DEF Silent

\* A step in which the negotiation of n goes on as it was, or loses something.
GoesOnAsking(n) ==
    /\ \A t \in Thread : pc[n][t] \in Negotiating =>
          /\ job'[n][t] = job[n][t]
          /\ pc'[n][t] = pc[n][t] \/ {pc[n][t], pc'[n][t]} \subseteq Receiving
    /\ reply'[n] \in {reply[n], Nothing} /\ incoming'[n] = incoming[n]
NoMoreService(n) ==
    \A m \in Node : Serves(m, n, Serving)' =>
        Serves(m, n, Serving) /\ serving'[m].path = serving[m].path
NoMoreRequests(n) ==
    \A m \in Node : Fewer(udp'[m], udp[m], n) /\ Fewer(todoUdp'[m], todoUdp[m], n)

\* What n waits for, it goes on to wait for.
LEMMA AskingKept ==
    ASSUME NEW n \in Node, GoesOnAsking(n), NEW t \in Thread, pc[n][t] \in Negotiating
    PROVE  /\ job'[n][t] = job[n][t] /\ pc'[n][t] \in Negotiating
           /\ pc[n][t] = "negotiate" => pc'[n][t] = "negotiate"
           /\ pc[n][t] \in Receiving => pc'[n][t] \in Receiving
BY Threads DEF GoesOnAsking

LEMMA AnswerKept ==
    ASSUME NEW n \in Node, AnswerOf(n), GoesOnAsking(n)
    PROVE  AnswerOf(n)'
<1>1. reply'[n] # Nothing => reply'[n] = reply[n]
  BY DEF GoesOnAsking
<1>2. incoming'[n] = incoming[n]
  BY DEF GoesOnAsking
<1>3. ASSUME reply[n] # Nothing, reply'[n] = reply[n]
      PROVE  Expects(n, reply[n].from, reply[n].path)'
  <2>1. PICK t \in Thread : /\ pc[n][t] = "negotiate" /\ job[n][t].from = reply[n].from
                            /\ Entry(n, t).path = reply[n].path
    BY <1>3 DEF AnswerOf, Expects
  <2>2. pc'[n][t] = "negotiate" /\ job'[n][t] = job[n][t]
    BY <2>1, AskingKept, Threads
  <2> QED BY <1>3, <2>1, <2>2 DEF Expects, Entry
<1>4. ASSUME incoming[n] # Nothing
      PROVE  Fetches(n, incoming[n].from, incoming[n].path)'
  <2>1. PICK t \in Thread : /\ pc[n][t] \in Receiving /\ job[n][t].from = incoming[n].from
                            /\ Entry(n, t).path = incoming[n].path
    BY <1>4 DEF AnswerOf, Fetches
  <2>2. pc'[n][t] \in Receiving /\ job'[n][t] = job[n][t]
    BY <2>1, AskingKept, Threads
  <2> QED BY <1>2, <2>1, <2>2 DEF Fetches, Entry
<1> QED BY <1>1, <1>2, <1>3, <1>4 DEF AnswerOf

LEMMA RequestsKept ==
    ASSUME NEW n \in Node, NEW m \in Node, RequestsOf(m, n),
           GoesOnAsking(n), NoMoreService(n), NoMoreRequests(n)
    PROVE  RequestsOf(m, n)'
<1>1. /\ Fewer(udp'[m], udp[m], n) /\ Fewer(todoUdp'[m], todoUdp[m], n)
  BY DEF NoMoreRequests
<1>2. /\ NoneOf(udp[m], n) => NoneOf(udp'[m], n)
      /\ NoneOf(todoUdp[m], n) => NoneOf(todoUdp'[m], n)
  BY <1>1, FewerNone
<1>3. OneOf(udp'[m], n) /\ OneOf(todoUdp'[m], n)
  BY <1>1 DEF RequestsOf, Fewer
<1>4. \A path : Expects(n, m, path) =>
         \E t \in Thread : /\ pc'[n][t] = "negotiate" /\ job'[n][t].from = m
                           /\ Head(job'[n][t].list).path = path
  <2> SUFFICES ASSUME NEW path, Expects(n, m, path)
               PROVE  \E t \in Thread : /\ pc'[n][t] = "negotiate" /\ job'[n][t].from = m
                                        /\ Head(job'[n][t].list).path = path
    OBVIOUS
  <2>1. PICK t \in Thread : /\ pc[n][t] = "negotiate" /\ job[n][t].from = m
                            /\ Head(job[n][t].list).path = path
    BY DEF Expects, Entry
  <2>2. pc'[n][t] = "negotiate" /\ job'[n][t] = job[n][t]
    BY <2>1, AskingKept, Threads
  <2> QED BY <2>1, <2>2
<1>5. Matches(udp[m], m, n)'
  <2> SUFFICES ASSUME NEW i \in 1..Len(udp'[m]), Asks(udp'[m][i], n)
               PROVE  \E t \in Thread : /\ pc'[n][t] = "negotiate" /\ job'[n][t].from = m
                                       /\ Head(job'[n][t].list).path = udp'[m][i].change.path
    BY DEF Matches, Expects, Entry
  <2>1. PICK j \in 1..Len(udp[m]) : udp[m][j] = udp'[m][i]
    BY <1>1 DEF Fewer
  <2>2. Expects(n, m, udp'[m][i].change.path)
    BY <2>1 DEF RequestsOf, Matches
  <2> QED BY <1>4, <2>2
<1>6. Matches(todoUdp[m], m, n)'
  <2> SUFFICES ASSUME NEW i \in 1..Len(todoUdp'[m]), Asks(todoUdp'[m][i], n)
               PROVE  \E t \in Thread : /\ pc'[n][t] = "negotiate" /\ job'[n][t].from = m
                                       /\ Head(job'[n][t].list).path = todoUdp'[m][i].change.path
    BY DEF Matches, Expects, Entry
  <2>1. PICK j \in 1..Len(todoUdp[m]) : todoUdp[m][j] = todoUdp'[m][i]
    BY <1>1 DEF Fewer
  <2>2. Expects(n, m, todoUdp'[m][i].change.path)
    BY <2>1 DEF RequestsOf, Matches
  <2> QED BY <1>4, <2>2
<1>7. InFlight(m, n)' => InFlight(m, n)
  BY <1>2 DEF InFlight
<1>8. InFlight(m, n)' => reply'[n] = Nothing /\ ~Serves(m, n, Serving)'
  BY <1>7 DEF RequestsOf, GoesOnAsking, NoMoreService
<1> QED BY <1>2, <1>3, <1>5, <1>6, <1>8 DEF RequestsOf

LEMMA ServingKept ==
    ASSUME NEW n \in Node, NEW m \in Node, ServiceOf(m, n),
           GoesOnAsking(n), NoMoreService(n)
    PROVE  ServiceOf(m, n)'
<1>1. CASE ~Serves(m, n, Serving)'
  BY <1>1 DEF ServiceOf
<1>2. CASE Serves(m, n, Serving)'
  <2>1. Serves(m, n, Serving) /\ serving'[m].path = serving[m].path
    BY <1>2 DEF NoMoreService
  <2>2. PICK t \in Thread : AsksFor(n, t, m, serving[m].path)
    BY <2>1 DEF ServiceOf
  <2>3. pc'[n][t] \in Negotiating /\ job'[n][t] = job[n][t]
    BY <2>2, AskingKept DEF AsksFor
  <2>4. \E u \in Thread : pc'[n][u] \in Negotiating /\ job'[n][u].from = m
                          /\ Head(job'[n][u].list).path = serving'[m].path
    BY <2>1, <2>2, <2>3 DEF AsksFor, Entry
  <2>5. reply'[n] # Nothing => ~reply'[n].abandon
    BY <2>1 DEF ServiceOf, GoesOnAsking
  <2> QED BY <2>4, <2>5 DEF ServiceOf, AsksFor, Entry
<1> QED BY <1>1, <1>2

LEMMA PairedKept ==
    ASSUME NEW n \in Node, Paired(n),
           GoesOnAsking(n), NoMoreService(n), NoMoreRequests(n)
    PROVE  Paired(n)'
BY AnswerKept, RequestsKept, ServingKept DEF Paired


-----------------------------------------------------------------------------
\* While a thread of n negotiates with one server about one path, nothing else
\* of n's negotiations is left anywhere.
LEMMA OneServer ==
    ASSUME LockHeld, NEW n \in Node, Paired(n), NEW t \in Thread, pc[n][t] \in Negotiating
    PROVE  /\ \A m, path : Expects(n, m, path) =>
                 pc[n][t] = "negotiate" /\ m = job[n][t].from /\ path = Entry(n, t).path
           /\ \A m, path : Fetches(n, m, path) =>
                 pc[n][t] \in Receiving /\ m = job[n][t].from /\ path = Entry(n, t).path
           /\ \A m \in Node : Serves(m, n, Serving) =>
                 m = job[n][t].from /\ serving[m].path = Entry(n, t).path
           /\ \A m \in Node : InFlight(m, n) => m = job[n][t].from
<1>1. \A u \in Thread : pc[n][u] \in Negotiating => u = t
  BY OneNegotiates
<1>2. \A m, path : Expects(n, m, path) =>
         pc[n][t] = "negotiate" /\ m = job[n][t].from /\ path = Entry(n, t).path
  BY <1>1, Threads DEF Expects
<1>3. \A m, path : Fetches(n, m, path) =>
         pc[n][t] \in Receiving /\ m = job[n][t].from /\ path = Entry(n, t).path
  BY <1>1, Threads DEF Fetches
<1>4. \A m \in Node : Serves(m, n, Serving) =>
         m = job[n][t].from /\ serving[m].path = Entry(n, t).path
  BY <1>1 DEF Paired, ServiceOf, AsksFor
<1>5. ASSUME NEW m \in Node, InFlight(m, n) PROVE m = job[n][t].from
  <2>1. \E path : Expects(n, m, path)
    BY <1>5 DEF InFlight, NoneOf, Paired, RequestsOf, Matches
  <2> QED BY <1>2, <2>1
<1> QED BY <1>2, <1>3, <1>4, <1>5

(***************************************************************************)
(* A request goes from the socket buffer to the queue of the handler.      *)
(***************************************************************************)
LEMMA CollectPairs ==
    ASSUME LockInv, PairInv, NEW n \in Node, CollectForHandler(n), NEW c \in Node
    PROVE  Paired(c)'
<1> DEFINE msg == Head(udp[n])
<1>1. /\ udp[n] \in Seq(Datagram) /\ todoUdp[n] \in Seq(Datagram) /\ udp[n] # << >>
      /\ msg \in Datagram
  BY DEF LockInv, TypeOK, CollectForHandler
<1>2. /\ udp' = [udp EXCEPT ![n] = Tail(udp[n])]
      /\ todoUdp' = [todoUdp EXCEPT ![n] = Append(todoUdp[n], msg)]
      /\ pc' = pc /\ job' = job /\ reply' = reply /\ incoming' = incoming /\ serving' = serving
  BY DEF CollectForHandler, callVars, tcpVars
<1>3. /\ udp'[n] = Tail(udp[n]) /\ todoUdp'[n] = Append(todoUdp[n], msg)
      /\ \A m \in Node : m # n => udp'[m] = udp[m] /\ todoUdp'[m] = todoUdp[m]
  BY <1>2 DEF LockInv, TypeOK
<1>4. Paired(c)
  BY DEF PairInv
<1>5. CASE ~Asks(msg, c)
  <2>1. GoesOnAsking(c) /\ NoMoreService(c)
    BY <1>2 DEF GoesOnAsking, NoMoreService, Serves
  <2>2. Fewer(Tail(udp[n]), udp[n], c) /\ Fewer(Append(todoUdp[n], msg), todoUdp[n], c)
    BY <1>1, <1>5, FewerTail, FewerAppend
  <2>3. NoMoreRequests(c)
    BY <1>3, <2>2, FewerSame DEF NoMoreRequests
  <2> QED BY <1>4, <2>1, <2>3, PairedKept
<1>6. CASE Asks(msg, c)
  <2>1. msg = udp[n][1] /\ 1 \in 1..Len(udp[n])
    BY <1>1
  <2>2. ~NoneOf(udp[n], c)
    BY <1>6, <2>1 DEF NoneOf
  <2>3. /\ NoneOf(todoUdp[n], c) /\ OneOf(udp[n], c)
        /\ reply[c] = Nothing /\ ~Serves(n, c, Serving)
        /\ Expects(c, n, msg.change.path)
    BY <1>4, <1>6, <2>1, <2>2 DEF Paired, RequestsOf, InFlight, Matches
  <2>4. NoneOf(udp'[n], c)
    BY <1>1, <1>3, <1>6, <2>3, FewerTail
  <2>5. /\ OneOf(todoUdp'[n], c)
        /\ \A i \in 1..Len(todoUdp'[n]) : Asks(todoUdp'[n][i], c) => todoUdp'[n][i] = msg
    BY <1>1, <1>3, <2>3, OneAppend
  <2>6. RequestsOf(n, c)'
    <3>1. Matches(udp[n], n, c)'
      BY <2>4 DEF Matches, NoneOf
    <3>2. Matches(todoUdp[n], n, c)'
      BY <1>2, <2>3, <2>5 DEF Matches, Expects, Entry
    <3>3. OneOf(udp'[n], c)
      BY <2>4 DEF OneOf, NoneOf
    <3> HIDE DEF msg
    <3>4. reply'[c] = Nothing /\ ~Serves(n, c, Serving)'
      BY <1>2, <2>3 DEF Serves
    <3> QED BY <2>4, <2>5, <3>1, <3>2, <3>3, <3>4 DEF RequestsOf
  <2>7. ASSUME NEW m \in Node, m # n PROVE RequestsOf(m, c)'
    <3>1. udp'[m] = udp[m] /\ todoUdp'[m] = todoUdp[m]
      BY <1>3, <2>7
    <3>2. RequestsOf(m, c)
      BY <1>4 DEF Paired
    <3> HIDE DEF msg
    <3>3. InFlight(m, c)' => reply'[c] = Nothing /\ ~Serves(m, c, Serving)'
      BY <1>2, <3>1, <3>2 DEF RequestsOf, InFlight, Serves
    <3>4. Matches(udp[m], m, c)' /\ Matches(todoUdp[m], m, c)'
      <4>1. \A path : Expects(c, m, path) => Expects(c, m, path)'
        BY <1>2 DEF Expects, Entry
      <4>2. Matches(udp[m], m, c) /\ Matches(todoUdp[m], m, c)
        BY <3>2 DEF RequestsOf
      <4> QED BY <3>1, <4>1, <4>2 DEF Matches
    <3> QED BY <3>1, <3>2, <3>3, <3>4 DEF RequestsOf
  <2>8. AnswerOf(c)' /\ \A m \in Node : ServiceOf(m, c)'
    <3> HIDE DEF msg
    <3> QED BY <1>2, <1>4 DEF Paired, AnswerOf, ServiceOf, Expects, Fetches, Entry, AsksFor, Serves
  <2> QED BY <2>6, <2>7, <2>8 DEF Paired
<1> QED BY <1>5, <1>6

(***************************************************************************)
(* The handler answers the request, and serves the file if it has it.      *)
(***************************************************************************)
LEMMA AnswerPairs ==
    ASSUME LockInv, PairInv, NEW n \in Node, HandleFileRequest(n), NEW c \in Node
    PROVE  Paired(c)'
<1> DEFINE msg     == Head(todoUdp[n])
           client  == msg.from
           path    == msg.change.path
           abandon == disk[n][path] = NoFile
           details == [from |-> n, abandon |-> abandon, path |-> path]
<1>1. /\ todoUdp[n] \in Seq(Datagram) /\ todoUdp[n] # << >> /\ msg \in Datagram
      /\ msg.pid = 5 /\ pc[n]["handler"] = "idle"
  BY DEF LockInv, TypeOK, HandleFileRequest, Pops
<1>2. client \in Node
  BY <1>1, DatagramFields
<1>3. /\ udp' = udp /\ todoUdp' = [todoUdp EXCEPT ![n] = Tail(todoUdp[n])]
      /\ job' = job /\ incoming' = incoming
      /\ reply' = IF (\E t \in Thread : pc[client][t] = "negotiate") /\ reply[client] = Nothing
                  THEN [reply EXCEPT ![client] = details] ELSE reply
      /\ \/ abandon /\ pc' = pc /\ serving' = serving
         \/ /\ ~abandon
            /\ pc' = [pc EXCEPT ![n]["handler"] = "open"]
            /\ serving' = [serving EXCEPT ![n] =
                  [client |-> client, path |-> path, file |-> "closed"]]
  BY DEF HandleFileRequest, Pops, EndsHere
<1>4. /\ todoUdp'[n] = Tail(todoUdp[n])
      /\ \A m \in Node : m # n => todoUdp'[m] = todoUdp[m]
  BY <1>3 DEF LockInv, TypeOK
<1>5. Paired(c) /\ LockHeld
  BY DEF PairInv, LockInv
<1>6. /\ \A m \in Node, u \in Thread : ~(m = n /\ u = "handler") => pc'[m][u] = pc[m][u]
      /\ \A m \in Node : m # n => serving'[m] = serving[m]
      /\ abandon => pc'[n]["handler"] = "idle"
      /\ ~abandon => /\ pc'[n]["handler"] = "open" /\ serving'[n].client = client
                     /\ serving'[n].path = path
  <2>1. pc \in [Node -> [Thread -> Place]] /\ serving \in [Node -> {Nothing} \cup Service]
    BY DEF LockInv, TypeOK
  <2> HIDE DEF msg, client, path, abandon, details
  <2>2. CASE abandon
    BY <1>1, <1>3, <2>1, <2>2
  <2>3. CASE ~abandon
    <3>1. /\ pc' = [pc EXCEPT ![n]["handler"] = "open"]
          /\ serving' = [serving EXCEPT ![n] = [client |-> client, path |-> path, file |-> "closed"]]
      BY <1>3, <2>3
    <3> QED BY <2>1, <2>3, <3>1, Threads
  <2> QED BY <2>2, <2>3
<1>7. Fewer(Tail(todoUdp[n]), todoUdp[n], c)
  BY <1>1, FewerTail
<1> HIDE DEF details, abandon, path
<1>8. CASE c # client
  <2>1. GoesOnAsking(c)
    <3>1. reply'[c] = reply[c]
      BY <1>2, <1>3, <1>8 DEF LockInv, TypeOK
    <3>2. \A t \in Thread : pc[c][t] \in Negotiating => pc'[c][t] = pc[c][t]
      BY <1>1, <1>6, Threads
    <3> QED BY <1>3, <3>1, <3>2 DEF GoesOnAsking
  <2>2. NoMoreService(c)
    BY <1>6, <1>8, Threads DEF NoMoreService, Serves
  <2>3. NoMoreRequests(c)
    BY <1>3, <1>4, <1>7, FewerSame DEF NoMoreRequests
  <2> QED BY <1>5, <2>1, <2>2, <2>3, PairedKept
<1>9. CASE c = client
  <2>1. Asks(msg, c) /\ msg = todoUdp[n][1] /\ 1 \in 1..Len(todoUdp[n])
    BY <1>1, <1>9 DEF Asks
  <2>2. ~NoneOf(todoUdp[n], c)
    BY <2>1 DEF NoneOf
  <2>3. /\ NoneOf(udp[n], c) /\ OneOf(todoUdp[n], c)
        /\ reply[c] = Nothing /\ ~Serves(n, c, Serving)
        /\ Expects(c, n, path)
    BY <1>5, <2>1, <2>2 DEF Paired, RequestsOf, InFlight, Matches, path
  <2>4. PICK u \in Thread : pc[c][u] = "negotiate" /\ job[c][u].from = n /\ Entry(c, u).path = path
    BY <2>3 DEF Expects
  <2>5. /\ \A m, q : ~Fetches(c, m, q)
        /\ \A m \in Node : m # n => ~Serves(m, c, Serving) /\ ~InFlight(m, c)
    BY <1>5, <2>4, OneServer, Threads
  <2>6. NoneOf(Tail(todoUdp[n]), c)
    BY <1>1, <2>1, <2>3, FewerTail
  <2>7. /\ pc'[c][u] = "negotiate" /\ job'[c][u] = job[c][u]
        /\ reply'[c] = details /\ incoming'[c] = Nothing
    <3>1. pc'[c][u] = "negotiate"
      BY <1>1, <1>6, <2>4
    <3>2. incoming[c] = Nothing
      BY <1>5, <2>5 DEF Paired, AnswerOf
    <3>3. reply'[c] = details
      BY <1>2, <1>3, <1>9, <2>3, <2>4 DEF LockInv, TypeOK
    <3> QED BY <1>3, <3>1, <3>2, <3>3
  <2>8. \A m \in Node : NoneOf(udp'[m], c) /\ NoneOf(todoUdp'[m], c)
    BY <1>3, <1>4, <2>3, <2>5, <2>6 DEF InFlight
  <2>9. \A m \in Node : RequestsOf(m, c)'
    BY <2>8 DEF RequestsOf, OneOf, NoneOf, Matches, InFlight
  <2>10. AnswerOf(c)'
    <3>1. details.from = n /\ details.path = path
      BY DEF details
    <3> QED BY <2>4, <2>7, <3>1 DEF AnswerOf, Expects, Entry
  <2>11. ASSUME NEW m \in Node, Serves(m, c, Serving)'
         PROVE  /\ \E t \in Thread : AsksFor(c, t, m, serving[m].path)'
                /\ ~reply'[c].abandon
    <3>1. m = n /\ ~abandon
      BY <1>6, <2>5, <2>11, Threads DEF Serves
    <3>2. serving'[n].path = path
      BY <1>6, <3>1
    <3>3. ~reply'[c].abandon
      BY <2>7, <3>1 DEF details
    <3> QED BY <2>4, <2>7, <3>1, <3>2, <3>3, Threads DEF AsksFor, Entry
  <2> QED BY <2>9, <2>10, <2>11 DEF Paired, ServiceOf
<1> QED BY <1>8, <1>9


(***************************************************************************)
(* A request is sent by a thread that has just taken dirLock, so that      *)
(* nothing is left of earlier negotiations of the node.                    *)
(***************************************************************************)
LEMMA RequestPairs ==
    ASSUME LockInv, PairInv, NEW n \in Node, NEW t \in Thread, RequestFile(n, t),
           NEW c \in Node
    PROVE  Paired(c)'
<1> DEFINE s   == job[n][t].from
           msg == FileRequest(n, Entry(n, t))
<1>1. /\ pc[n][t] = "request" /\ dirLock[n] = Free
      /\ udp' = SentTo(udp, s, msg) /\ todoUdp' = todoUdp
      /\ pc' = [pc EXCEPT ![n][t] = "negotiate"] /\ job' = job
      /\ reply' = reply /\ incoming' = incoming /\ serving' = serving
  BY RequestTakesLock DEF LockInv, tcpVars
<1>2. TypeOK /\ Places /\ LockHeld
  BY DEF LockInv
<1>3. s \in Node /\ Entry(n, t) \in Change /\ msg \in Datagram
  BY <1>1, <1>2, EntryType, MessageTypes
<1>4. /\ udp \in [Node -> Seq(Datagram)] /\ pc \in [Node -> [Thread -> Place]]
  BY <1>2 DEF TypeOK
<1>5. /\ pc'[n][t] = "negotiate"
      /\ \A m \in Node, u \in Thread : ~(m = n /\ u = t) => pc'[m][u] = pc[m][u]
  BY <1>1, <1>4
<1>6. Paired(c)
  BY DEF PairInv
<1>7. \A m \in Node : pc'[m]["handler"] \in Serving => pc[m]["handler"] \in Serving
  BY <1>5, Threads
<1>8. CASE c # n
  <2>1. GoesOnAsking(c) /\ NoMoreService(c)
    BY <1>1, <1>5, <1>7, <1>8 DEF GoesOnAsking, NoMoreService, Serves
  <2>2. ~Asks(msg, c)
    BY <1>8 DEF Asks, FileRequest
  <2> HIDE DEF msg, s
  <2>3. NoMoreRequests(c)
    BY <1>1, <1>3, <1>4, <2>2, SendFewer, FewerSame DEF NoMoreRequests
  <2> QED BY <1>6, <2>1, <2>3, PairedKept
<1>9. CASE c = n
  <2>1. Silent(n)
    <3>1. Free \notin Thread
      BY DEF Free, Thread
    <3>2. \A u \in Thread : pc[n][u] \notin Negotiating
      BY <1>1, <1>2, <3>1 DEF LockHeld
    <3> QED BY <1>6, <1>9, <3>2, QuietIsSilent
  <2>2. Asks(msg, n) /\ msg.change.path = Entry(n, t).path
    BY DEF Asks, FileRequest
  <2>3. \A m \in Node : ~Serves(m, n, Serving)'
    BY <1>1, <1>7, <2>1 DEF Silent, Serves
  <2>4. reply'[n] = Nothing /\ incoming'[n] = Nothing
    BY <1>1, <2>1 DEF Silent
  <2>5. \A m \in Node : /\ \/ udp'[m] = udp[m]
                           \/ m = s /\ udp'[m] = Append(udp[m], msg)
                        /\ todoUdp'[m] = todoUdp[m]
    <3> HIDE DEF msg, s
    <3>1. udp' = udp \/ udp' = [udp EXCEPT ![s] = Append(udp[s], msg)]
      BY <1>1 DEF SentTo
    <3>2. CASE udp' = udp
      BY <1>1, <3>2
    <3>3. CASE udp' = [udp EXCEPT ![s] = Append(udp[s], msg)]
      BY ONLY <1>1, <1>3, <1>4, <3>3
    <3> QED BY <3>1, <3>2, <3>3
  <2>6. ASSUME NEW m \in Node PROVE RequestsOf(m, n)'
    <3>1. NoneOf(udp[m], n) /\ NoneOf(todoUdp'[m], n)
      BY <2>1, <2>5 DEF Silent
    <3>2. /\ OneOf(udp'[m], n)
          /\ \A i \in 1..Len(udp'[m]) :
                Asks(udp'[m][i], n) => m = s /\ udp'[m][i] = msg
      <4>1. CASE udp'[m] = udp[m]
        BY <3>1, <4>1 DEF NoneOf, OneOf
      <4>2. CASE m = s /\ udp'[m] = Append(udp[m], msg)
        <5> HIDE DEF msg, s
        <5> QED BY <1>3, <1>4, <3>1, <4>2, OneAppend
      <4> QED BY <2>5, <4>1, <4>2
    <3>3. Matches(udp[m], m, n)'
      BY <1>1, <1>5, <2>2, <3>2 DEF Matches, Expects, Entry
    <3>4. Matches(todoUdp[m], m, n)' /\ OneOf(todoUdp'[m], n)
      BY <3>1 DEF Matches, OneOf, NoneOf
    <3> QED BY <2>3, <2>4, <3>1, <3>2, <3>3, <3>4 DEF RequestsOf
  <2> QED BY <1>9, <2>3, <2>4, <2>6 DEF Paired, AnswerOf, ServiceOf
<1> QED BY <1>8, <1>9

\* A thread of n that leaves negotiateTCPTransfer leaves nothing behind.
LEMMA LeavingPairs ==
    ASSUME LockInv, PairInv, NEW n \in Node, NEW t \in Thread,
           Abandoned(n, t) \/ Transfer(n, t), NEW c \in Node
    PROVE  Paired(c)'
<1> DEFINE s == incoming[n].from
<1>1. TypeOK /\ Places /\ LockHeld /\ Claims /\ Paired(c) /\ pc \in [Node -> [Thread -> Place]]
  BY DEF LockInv, PairInv, TypeOK
<1>2. pc[n][t] \in Negotiating /\ udp' = udp /\ todoUdp' = todoUdp /\ serving' = serving
  BY Threads DEF Abandoned, Transfer, queueVars
<1>3. /\ pc'[n][t] \in {"idle", "request"}
      /\ \A m \in Node, u \in Thread : ~(m = n /\ u = t) =>
            /\ job'[m][u] = job[m][u]
            /\ \/ pc'[m][u] = pc[m][u]
               \/ /\ m = s /\ u = "handler" /\ Transfer(n, t)
                  /\ pc[m][u] = "send" /\ pc'[m][u] = "sent"
      /\ Transfer(n, t) => pc'[s]["handler"] = "sent" /\ Serves(s, n, {"send"})
  <2>1. CASE Abandoned(n, t)
    <3>1. Advance(n, t, pc)
      BY <2>1 DEF Abandoned
    <3>2. ~Transfer(n, t)
      BY <2>1 DEF Abandoned, Transfer
    <3> QED BY <1>1, <1>2, <3>1, <3>2, AdvancePlaces
  <2>2. CASE Transfer(n, t)
    <3>1. pc[n][t] = "receive" /\ Advance(n, t, [pc EXCEPT ![s]["handler"] = "sent"])
      BY <2>2 DEF Transfer
    <3>2. Serves(s, n, {"send"}) /\ s \in Node
      <4>1. incoming[n] \in Reception
        BY <1>1, <3>1, Threads DEF Places, PlaceOf, TypeOK
      <4> QED BY <1>1, <3>1, <4>1 DEF Claims, ServerOf, Reception
    <3>3. pc[s]["handler"] = "send" /\ ~(s = n /\ t = "handler")
      BY <3>1, <3>2 DEF Serves
    <3>4. /\ pc' = [[pc EXCEPT ![s]["handler"] = "sent"] EXCEPT ![n][t] = NextEntry(n, t)]
          /\ NextEntry(n, t) \in {"idle", "request"}
          /\ \A m \in Node, u \in Thread : ~(m = n /\ u = t) => job'[m][u] = job[m][u]
      <4> DEFINE pcs == [pc EXCEPT ![s]["handler"] = "sent"]
      <4>1. Advance(n, t, pcs)
        BY <3>1
      <4> HIDE DEF pcs
      <4>2. /\ pc' = [pcs EXCEPT ![n][t] = NextEntry(n, t)]
            /\ NextEntry(n, t) \in {"idle", "request"}
            /\ \A m \in Node, u \in Thread : ~(m = n /\ u = t) => job'[m][u] = job[m][u]
        BY <1>1, <1>2, <4>1, AdvancePlaces
      <4> QED BY <4>2 DEF pcs
    <3> HIDE DEF s
    <3> QED BY <1>1, <2>2, <3>2, <3>3, <3>4, Threads
  <2> QED BY <2>1, <2>2
<1> HIDE DEF s
<1>4. \A m \in Node : pc'[m]["handler"] \in Serving =>
         pc[m]["handler"] \in Serving /\ ~(Transfer(n, t) /\ m = s)
  BY <1>3, Threads
<1>5. NoMoreService(c)
  BY <1>2, <1>4 DEF NoMoreService, Serves
<1>6. CASE c # n
  <2>1. /\ reply'[c] = reply[c] /\ incoming'[c] = incoming[c]
    BY <1>1, <1>6 DEF Abandoned, Transfer, TypeOK
  <2>2. GoesOnAsking(c)
    BY <1>3, <1>6, <2>1, Threads DEF GoesOnAsking
  <2>3. NoMoreRequests(c)
    BY <1>2, FewerSame DEF NoMoreRequests
  <2> QED BY <1>1, <1>5, <2>2, <2>3, PairedKept
<1>7. CASE c = n
  <2>1. reply'[n] = Nothing /\ incoming'[n] = Nothing /\ \A m \in Node : ~InFlight(m, n)
    <3>1. CASE Abandoned(n, t)
      <4>1. /\ pc[n][t] = "negotiate" /\ reply[n] # Nothing
            /\ reply'[n] = Nothing /\ incoming' = incoming
        BY <1>1, <3>1 DEF Abandoned, TypeOK
      <4>2. incoming[n] = Nothing
        BY <1>1, <1>2, <1>7, <4>1, OneServer, Threads DEF Paired, AnswerOf, Receiving
      <4> QED BY <1>1, <1>7, <4>1, <4>2 DEF Paired, RequestsOf
    <3>2. CASE Transfer(n, t)
      <4>1. pc[n][t] = "receive" /\ reply' = reply /\ incoming'[n] = Nothing
        BY <1>1, <3>2 DEF Transfer, TypeOK
      <4>2. \A m, path : ~Expects(n, m, path)
        BY <1>1, <1>2, <1>7, <4>1, OneServer
      <4>3. reply[n] = Nothing
        BY <1>1, <1>7, <4>2 DEF Paired, AnswerOf
      <4>4. \A m \in Node : ~InFlight(m, n)
        BY <1>1, <1>7, <4>2 DEF Paired, RequestsOf, Matches, InFlight, NoneOf
      <4> QED BY <4>1, <4>3, <4>4
    <3> QED BY <3>1, <3>2
  <2>2. ASSUME NEW m \in Node PROVE ~Serves(m, n, Serving)'
    <3>1. CASE Abandoned(n, t)
      <4>1. ~Serves(m, n, Serving)
        BY <1>1, <1>7, <3>1 DEF Abandoned, Paired, ServiceOf
      <4> QED BY <1>5, <1>7, <4>1 DEF NoMoreService
    <3>2. CASE Transfer(n, t)
      <4>1. pc[n][t] = "receive" /\ incoming[n] # Nothing
        BY <1>1, <3>2, Threads DEF Transfer, Places, PlaceOf
      <4>2. s = job[n][t].from
        BY <1>1, <1>2, <1>7, <4>1, OneServer DEF Paired, AnswerOf, s
      <4>3. Serves(m, n, Serving) => m = s
        BY <1>1, <1>2, <1>7, <4>2, OneServer
      <4> QED BY <1>2, <1>4, <3>2, <4>3 DEF Serves
    <3> QED BY <3>1, <3>2
  <2>3. \A m \in Node : NoneOf(udp'[m], n) /\ NoneOf(todoUdp'[m], n)
    BY <1>2, <2>1 DEF InFlight
  <2> QED BY <1>7, <2>1, <2>2, <2>3
       DEF Paired, AnswerOf, RequestsOf, ServiceOf, InFlight, NoneOf, OneOf, Matches
<1> QED BY <1>6, <1>7


\* The client opens the file that the answer names.
LEMMA OpeningPairs ==
    ASSUME LockInv, PairInv, NEW n \in Node, NEW t \in Thread, OpenForWriting(n, t),
           NEW c \in Node
    PROVE  Paired(c)'
<1>1. /\ TypeOK /\ LockHeld /\ Paired(c) /\ pc \in [Node -> [Thread -> Place]]
  BY DEF LockInv, PairInv, TypeOK
<1>2. /\ pc[n][t] = "negotiate" /\ reply[n] # Nothing
      /\ pc' = [pc EXCEPT ![n][t] = "connect"] /\ job' = job
      /\ incoming' = [incoming EXCEPT ![n] = [path |-> reply[n].path, from |-> reply[n].from]]
      /\ reply' = [reply EXCEPT ![n] = Nothing]
      /\ udp' = udp /\ todoUdp' = todoUdp
  BY DEF OpenForWriting, queueVars
<1>s. SameService
  BY SameServing
<1>3. /\ pc'[n][t] = "connect"
      /\ \A m \in Node, u \in Thread : ~(m = n /\ u = t) => pc'[m][u] = pc[m][u]
  BY <1>1, <1>2
<1>4. \A m \in Node : pc'[m]["handler"] \in Serving => pc[m]["handler"] \in Serving
  BY <1>3, Threads
<1>5. NoMoreService(c)
  BY <1>s, <1>4 DEF NoMoreService, Serves, SameService
<1>6. CASE c # n
  <2>1. GoesOnAsking(c)
    BY <1>1, <1>2, <1>3, <1>6 DEF GoesOnAsking, TypeOK
  <2>2. NoMoreRequests(c)
    BY <1>2, FewerSame DEF NoMoreRequests
  <2> QED BY <1>1, <1>5, <2>1, <2>2, PairedKept
<1>7. CASE c = n
  <2>1. /\ reply'[n] = Nothing
        /\ incoming'[n] = [path |-> reply[n].path, from |-> reply[n].from]
    BY <1>1, <1>2 DEF TypeOK
  <2>2. reply[n].from = job[n][t].from /\ reply[n].path = Entry(n, t).path
    BY <1>1, <1>2, <1>7, OneServer, Threads DEF Paired, AnswerOf
  <2>3. AnswerOf(n)'
    <3>1. pc'[n][t] \in Receiving /\ job'[n][t] = job[n][t]
      BY <1>2, <1>3, Threads
    <3>2. incoming'[n].from = job[n][t].from /\ incoming'[n].path = Entry(n, t).path
      BY <2>1, <2>2
    <3>3. Fetches(n, incoming[n].from, incoming[n].path)'
      BY <3>1, <3>2 DEF Fetches, Entry
    <3> QED BY <2>1, <3>3 DEF AnswerOf
  <2>4. \A m \in Node : NoneOf(udp'[m], n) /\ NoneOf(todoUdp'[m], n)
    BY <1>1, <1>2, <1>7 DEF Paired, RequestsOf, InFlight
  <2>5. \A m \in Node : RequestsOf(m, n)'
    BY <2>4 DEF RequestsOf, InFlight, NoneOf, OneOf, Matches
  <2>6. ASSUME NEW m \in Node, Serves(m, n, Serving)'
        PROVE  \E u \in Thread : AsksFor(n, u, m, serving[m].path)'
    <3>1. Serves(m, n, Serving) /\ serving'[m].path = serving[m].path
      BY <1>5, <1>7, <2>6 DEF NoMoreService
    <3>2. m = job[n][t].from /\ serving[m].path = Entry(n, t).path
      BY <1>1, <1>2, <1>7, <3>1, OneServer, Threads
    <3> QED BY <1>2, <1>3, <3>1, <3>2, Threads DEF AsksFor, Entry
  <2> QED BY <1>7, <2>1, <2>3, <2>5, <2>6 DEF Paired, ServiceOf
<1> QED BY <1>6, <1>7

-----------------------------------------------------------------------------
(***************************************************************************)
(* Every other action leaves the negotiations as they are, or loses        *)
(* something of them.                                                      *)
(***************************************************************************)
LEMMA PairStep == LockInv /\ PairInv /\ [Next]_vars => PairInv'
<1> SUFFICES ASSUME LockInv, PairInv, [Next]_vars, NEW c \in Node PROVE Paired(c)'
  BY DEF PairInv
<1>1. /\ TypeOK /\ Unstarted /\ LockHeld /\ Places /\ Claims /\ Paired(c)
      /\ pc \in [Node -> [Thread -> Place]] /\ serving \in [Node -> {Nothing} \cup Service]
      /\ udp \in [Node -> Seq(Datagram)] /\ todoUdp \in [Node -> Seq(Datagram)]
  BY DEF LockInv, PairInv, TypeOK
\* The negotiations stay as they are.
<1>2. ASSUME UNCHANGED <<pc, job, reply, incoming, serving>>
      PROVE  GoesOnAsking(c) /\ NoMoreService(c)
  BY <1>2 DEF GoesOnAsking, NoMoreService, Serves
<1>2s. ASSUME UNCHANGED <<pc, job, reply, incoming>>, SameService
       PROVE  GoesOnAsking(c) /\ NoMoreService(c)
  BY <1>2s DEF GoesOnAsking, NoMoreService, Serves, SameService
<1>3. ASSUME UNCHANGED <<udp, todoUdp>> PROVE NoMoreRequests(c)
  BY <1>3, FewerSame DEF NoMoreRequests
\* One thread that does not negotiate, and does not begin to serve, moves.
<1>4. ASSUME NEW n \in Node, NEW t \in Thread, pc[n][t] \notin Negotiating,
             \A m \in Node, u \in Thread : ~(m = n /\ u = t) =>
                 pc'[m][u] = pc[m][u] /\ job'[m][u] = job[m][u],
             pc'[n][t] \in Serving => pc[n][t] \in Serving,
             UNCHANGED <<reply, incoming>>,
             \A m \in Node : pc'[m]["handler"] \in Serving =>
                 serving'[m].client = serving[m].client /\ serving'[m].path = serving[m].path
      PROVE  GoesOnAsking(c) /\ NoMoreService(c)
  BY <1>4, Threads DEF GoesOnAsking, NoMoreService, Serves
\* A queue loses its first datagram, others get one that is no request.
<1>5. ASSUME NEW n \in Node, udp[n] # << >>
      PROVE  /\ [udp EXCEPT ![n] = Tail(@)] \in [Node -> Seq(Datagram)]
             /\ \A m \in Node : Fewer([udp EXCEPT ![n] = Tail(@)][m], udp[m], c)
  BY <1>1, <1>5, FewerTail, FewerSame
<1>6. ASSUME NEW n \in Node, todoUdp[n] # << >>,
             todoUdp' = [todoUdp EXCEPT ![n] = Tail(@)], udp' = udp
      PROVE  NoMoreRequests(c)
  BY <1>1, <1>6, FewerTail, FewerSame DEF NoMoreRequests
<1>7. ASSUME NEW n \in Node, NEW msg \in Datagram, msg.pid # 5,
             udp' = BroadcastBy(n, msg), todoUdp' = todoUdp
      PROVE  NoMoreRequests(c)
  BY <1>1, <1>7, SendFewer, FewerSame DEF NoMoreRequests, Asks
<1>8. \A list : Begun(list) \in {"idle", "request"}
  BY DEF Begun
\* A thread begins a list.
<1>18. ASSUME NEW n \in Node, NEW t \in Thread, NEW v, NEW w,
              pc' = [pc EXCEPT ![n][t] = v], job' = [job EXCEPT ![n][t] = w]
       PROVE  /\ pc'[n][t] = v
              /\ \A m \in Node, u \in Thread : ~(m = n /\ u = t) =>
                    pc'[m][u] = pc[m][u] /\ job'[m][u] = job[m][u]
  <2>1. job \in [Node -> [Thread -> Job]]
    BY <1>1 DEF TypeOK
  <2> QED BY <1>1, <1>18, <2>1
\* A thread receives for ever.
<1>19. ASSUME NEW n \in Node, NEW t \in Thread, pc[n][t] \in Receiving,
              pc' = [pc EXCEPT ![n][t] = "stuck"],
              UNCHANGED <<job, reply, incoming, serving>>
       PROVE  GoesOnAsking(c) /\ NoMoreService(c)
  <2>1. /\ pc'[n][t] = "stuck"
        /\ \A m \in Node, u \in Thread : ~(m = n /\ u = t) => pc'[m][u] = pc[m][u]
    BY <1>1, <1>19
  <2> QED BY <1>19, <2>1, Threads DEF GoesOnAsking, NoMoreService, Serves
<1>9. ASSUME NEW n \in Node, StartUp(n) PROVE Paired(c)'
  <2>1. CASE Start(n)
    <3>1. pc[n]["discoverer"] \notin Negotiating
      BY <1>1, <2>1, Threads DEF Start, Unstarted
    <3>2. GoesOnAsking(c) /\ NoMoreService(c)
      <4>1. /\ pc' = [pc EXCEPT ![n]["discoverer"] = "announce"]
            /\ UNCHANGED <<job, reply, incoming, serving>>
        BY <2>1 DEF Start, tcpVars
      <4>2. \A m \in Node, u \in Thread : ~(m = n /\ u = "discoverer") => pc'[m][u] = pc[m][u]
        BY <1>1, <4>1
      <4>3. pc'[n]["discoverer"] = "announce"
        BY <1>1, <4>1, Threads
      <4> QED BY <1>4, <3>1, <4>1, <4>2, <4>3, Threads
    <3> QED BY <1>1, <1>3, <2>1, <3>2, PairedKept DEF Start, queueVars
  <2>2. CASE Announce(n)
    <3>1. GoesOnAsking(c) /\ NoMoreService(c)
      <4>1. /\ pc[n]["discoverer"] = "announce" /\ pc'[n]["discoverer"] = "idle"
            /\ \A m \in Node, u \in Thread : ~(m = n /\ u = "discoverer") => pc'[m][u] = pc[m][u]
            /\ UNCHANGED <<job, reply, incoming, serving>>
        BY <1>1, <2>2, Threads DEF Announce, tcpVars
      <4> QED BY <1>4, <4>1, Threads
    <3>2. Arrival(n, fileHashes[n]) \in Datagram /\ Arrival(n, fileHashes[n]).pid = 0
      BY <1>1, MessageTypes DEF TypeOK, Arrival
    <3>3. NoMoreRequests(c)
      BY <1>7, <2>2, <3>2 DEF Announce
    <3> QED BY <1>1, <3>1, <3>3, PairedKept
  <2> QED BY <1>9, <2>1, <2>2 DEF StartUp
<1>10. ASSUME NEW n \in Node, StartWatching(n) \/ Scan(n) \/ UserStep(n) PROVE Paired(c)'
  <2>1. UNCHANGED <<pc, job, reply, incoming, udp, todoUdp>>
    BY <1>10 DEF StartWatching, Scan, UserStep, UserWrites, UserDeletes, queueVars, callVars, tcpVars
  <2>2. SameService
    <3>1. CASE UserStep(n)
      BY <3>1, SameServing
    <3>2. CASE StartWatching(n) \/ Scan(n)
      BY <3>2 DEF StartWatching, Scan, tcpVars, SameService
    <3> QED BY <1>10, <3>1, <3>2
  <2> QED BY <1>1, <1>2s, <1>3, <2>1, <2>2, PairedKept
<1>11. ASSUME NEW n \in Node, PublishChanges(n) PROVE Paired(c)'
  <2>1. UNCHANGED <<pc, job, reply, incoming, serving, todoUdp>>
    BY <1>11 DEF PublishChanges, callVars, tcpVars
  <2>2. DirChanges(n, changeBuf[n]) \in Datagram /\ DirChanges(n, changeBuf[n]).pid = 6
    BY <1>1, MessageTypes DEF TypeOK, DirChanges
  <2>3. NoMoreRequests(c)
    BY <1>7, <1>11, <2>1, <2>2 DEF PublishChanges
  <2> QED BY <1>1, <1>2, <2>1, <2>3, PairedKept
<1>12. ASSUME NEW n \in Node, DiscovererStep(n) PROVE Paired(c)'
  <2>1. CASE CollectForHandler(n)
    BY <2>1, CollectPairs
  <2>2. CASE CollectArrival(n)
    <3> DEFINE msg      == Head(udp[n])
               buffers  == [udp EXCEPT ![n] = Tail(@)]
               response == Response(n, fileHashes[n])
    <3>1. /\ udp[n] # << >> /\ pc[n]["discoverer"] = "idle"
          /\ udp' = SentTo(buffers, msg.from, response) /\ todoUdp' = todoUdp
          /\ UNCHANGED <<reply, incoming, serving>>
          /\ pc' = [pc EXCEPT ![n]["discoverer"] = "compare"]
          /\ \E w : job' = [job EXCEPT ![n]["discoverer"] = w]
      BY <2>2 DEF CollectArrival, Considers, tcpVars
    <3>2. GoesOnAsking(c) /\ NoMoreService(c)
      <4>1. /\ pc'[n]["discoverer"] \notin Serving
            /\ \A m \in Node, u \in Thread : ~(m = n /\ u = "discoverer") =>
                 pc'[m][u] = pc[m][u] /\ job'[m][u] = job[m][u]
        BY <1>8, <1>18, <3>1, Threads
      <4> QED BY <1>4, <3>1, <4>1, Threads
    <3>3. msg.from \in Node /\ response \in Datagram /\ ~Asks(response, c)
      <4>1. msg \in Datagram
        BY <1>1, <3>1
      <4>2. response \in Datagram /\ response.pid = 1
        BY <1>1, MessageTypes DEF TypeOK, Response
      <4> QED BY <4>1, <4>2, DatagramFields DEF Asks
    <3>4. /\ buffers \in [Node -> Seq(Datagram)]
          /\ \A m \in Node : Fewer(buffers[m], udp[m], c)
      BY <1>5, <3>1
    <3> HIDE DEF msg, buffers, response
    <3>5. \A m \in Node : Fewer(udp'[m], buffers[m], c)
      BY <1>1, <3>1, <3>3, <3>4, SendFewer
    <3>6. NoMoreRequests(c)
      BY <3>1, <3>4, <3>5, FewerTwice, FewerSame DEF NoMoreRequests
    <3> QED BY <1>1, <3>2, <3>6, PairedKept
  <2> QED BY <1>12, <2>1, <2>2 DEF DiscovererStep
<1>13. ASSUME NEW n \in Node, HandlerStep(n) PROVE Paired(c)'
  <2>1. CASE HandleResponse(n)
    BY <1>1, <1>2, <1>6, <2>1, PairedKept DEF HandleResponse, Pops, callVars, tcpVars
  <2>2. CASE HandleFileRequest(n)
    BY <2>2, AnswerPairs
  <2>3. CASE OpenAndListen(n) \/ EndService(n)
    <3>1. UNCHANGED <<job, reply, incoming, udp, todoUdp>>
      BY <2>3 DEF OpenAndListen, EndService, queueVars
    <3>2. GoesOnAsking(c) /\ NoMoreService(c)
      <4>1. CASE OpenAndListen(n)
        <5>1. /\ pc[n]["handler"] = "open" /\ serving[n] \in Service
              /\ pc' = [pc EXCEPT ![n]["handler"] = "accept"]
              /\ \E file : serving' = [serving EXCEPT ![n].file = file]
          BY <1>1, <4>1, Threads DEF OpenAndListen, Places, InCase5
        <5>2. \A m \in Node : serving'[m].client = serving[m].client
                              /\ serving'[m].path = serving[m].path
          BY <1>1, <5>1 DEF Service
        <5>3. \A m \in Node, u \in Thread : ~(m = n /\ u = "handler") => pc'[m][u] = pc[m][u]
          BY <1>1, <5>1
        <5> QED BY <1>4, <3>1, <5>1, <5>2, <5>3, Threads
      <4>2. CASE EndService(n)
        <5>1. /\ pc[n]["handler"] = "sent" /\ pc'[n]["handler"] = "idle"
              /\ \A m \in Node, u \in Thread : ~(m = n /\ u = "handler") => pc'[m][u] = pc[m][u]
              /\ \A m \in Node : m # n => serving'[m] = serving[m]
          BY <1>1, <4>2, Threads DEF EndService
        <5> QED BY <1>4, <3>1, <5>1, Threads
      <4> QED BY <2>3, <4>1, <4>2
    <3> QED BY <1>1, <1>3, <3>1, <3>2, PairedKept
  <2>4. CASE HandleDirChanges(n)
    <3>1. /\ pc[n]["handler"] = "idle" /\ todoUdp[n] # << >>
          /\ UNCHANGED <<udp, reply, incoming, serving>>
          /\ todoUdp' = [todoUdp EXCEPT ![n] = Tail(@)]
          /\ \E w : job' = [job EXCEPT ![n]["handler"] = w]
          /\ \E list : pc' = [pc EXCEPT ![n]["handler"] = Begun(list)]
      BY <2>4 DEF HandleDirChanges, Pops, tcpVars
    <3>2. /\ pc'[n]["handler"] \notin Serving
          /\ \A m \in Node, u \in Thread : ~(m = n /\ u = "handler") =>
               pc'[m][u] = pc[m][u] /\ job'[m][u] = job[m][u]
      BY <1>8, <1>18, <3>1, Threads
    <3>3. GoesOnAsking(c) /\ NoMoreService(c)
      BY <1>4, <3>1, <3>2, Threads
    <3> QED BY <1>1, <1>6, <3>1, <3>3, PairedKept
  <2> QED BY <1>13, <2>1, <2>2, <2>3, <2>4 DEF HandlerStep
<1>14. ASSUME NEW n \in Node, TakeTable(n) PROVE Paired(c)'
  <2>1. /\ pc[n]["tableManager"] = "idle"
        /\ UNCHANGED <<udp, todoUdp, reply, incoming, serving>>
        /\ \E w : job' = [job EXCEPT ![n]["tableManager"] = w]
        /\ pc' = [pc EXCEPT ![n]["tableManager"] = "compare"]
    BY <1>14 DEF TakeTable, Considers, tcpVars
  <2>2. /\ pc'[n]["tableManager"] \notin Serving
        /\ \A m \in Node, u \in Thread : ~(m = n /\ u = "tableManager") =>
             pc'[m][u] = pc[m][u] /\ job'[m][u] = job[m][u]
    BY <1>8, <1>18, <2>1, Threads
  <2>3. GoesOnAsking(c) /\ NoMoreService(c)
    BY <1>4, <2>1, <2>2, Threads
  <2> QED BY <1>1, <1>3, <2>1, <2>3, PairedKept
<1>15. ASSUME NEW n \in Node, NEW t \in Thread, RequestStep(n, t) PROVE Paired(c)'
  <2>1. CASE SkipChange(n, t) \/ ApplyDeletion(n, t)
    <3>1. /\ pc[n][t] = "request" /\ Advance(n, t, pc)
          /\ UNCHANGED <<udp, todoUdp, reply, incoming, serving>>
      BY <2>1 DEF SkipChange, ApplyDeletion, LocksFor, queueVars, tcpVars
    <3>2. /\ pc' = [pc EXCEPT ![n][t] = NextEntry(n, t)]
          /\ NextEntry(n, t) \in {"idle", "request"}
          /\ \A m \in Node, u \in Thread : ~(m = n /\ u = t) => job'[m][u] = job[m][u]
      BY <1>1, <3>1, AdvancePlaces
    <3>3. /\ pc'[n][t] \notin Serving
          /\ \A m \in Node, u \in Thread : ~(m = n /\ u = t) => pc'[m][u] = pc[m][u]
      BY <1>1, <3>2, Threads
    <3>4. GoesOnAsking(c) /\ NoMoreService(c)
      BY <1>4, <3>1, <3>2, <3>3, Threads
    <3> QED BY <1>1, <1>3, <3>1, <3>4, PairedKept
  <2>2. CASE RequestFile(n, t)
    BY <2>2, RequestPairs
  <2>3. CASE Abandoned(n, t) \/ Transfer(n, t)
    BY <2>3, LeavingPairs
  <2>4. CASE OpenForWriting(n, t)
    BY <2>4, OpeningPairs
  <2>5. CASE Connect(n, t)
    <3> DEFINE s == incoming[n].from
    <3>1. /\ pc[n][t] = "connect" /\ pc[s]["handler"] = "accept"
          /\ pc' = [[pc EXCEPT ![n][t] = "receive"] EXCEPT ![s]["handler"] = "send"]
          /\ UNCHANGED <<job, udp, todoUdp, reply, incoming>> /\ SameService
      BY <2>5, SameServing DEF Connect, queueVars, tcpVars
    <3> HIDE DEF s
    <3>2. \A m \in Node, u \in Thread :
             \/ pc'[m][u] = pc[m][u]
             \/ pc[m][u] = "connect" /\ pc'[m][u] = "receive"
             \/ pc[m][u] = "accept" /\ pc'[m][u] = "send"
      <4>1. ~(s = n /\ t = "handler") /\ s \in Node
        <5>1. incoming[n] \in Reception
          BY <1>1, <3>1, Threads DEF Places, PlaceOf, TypeOK
        <5> QED BY <3>1, <5>1 DEF Reception, s
      <4>2. /\ pc'[n][t] = "receive" /\ pc'[s]["handler"] = "send"
            /\ \A m \in Node, u \in Thread :
                  ~(m = n /\ u = t) /\ ~(m = s /\ u = "handler") => pc'[m][u] = pc[m][u]
        BY <1>1, <3>1, <4>1, Threads
      <4>3. /\ pc[n][t] = "connect" /\ pc'[n][t] = "receive"
            /\ pc[s]["handler"] = "accept" /\ pc'[s]["handler"] = "send"
        BY <3>1, <4>2
      <4> QED BY <4>2, <4>3
    <3>3. GoesOnAsking(c) /\ NoMoreService(c)
      <4>1. \A u \in Thread : pc[c][u] \in Negotiating =>
               pc'[c][u] = pc[c][u] \/ {pc[c][u], pc'[c][u]} \subseteq Receiving
        BY <3>2, Threads
      <4>2. \A m \in Node : pc'[m]["handler"] \in Serving => pc[m]["handler"] \in Serving
        BY <3>2, Threads
      <4>3. GoesOnAsking(c)
        BY <3>1, <4>1 DEF GoesOnAsking
      <4> QED BY <3>1, <4>2, <4>3 DEF NoMoreService, Serves, SameService
    <3> QED BY <1>1, <1>3, <3>1, <3>3, PairedKept
  <2>6. CASE CompareTables(n, t)
    <3>1. /\ pc[n][t] = "compare"
          /\ UNCHANGED <<udp, todoUdp, reply, incoming, serving>>
          /\ \E w : job' = [job EXCEPT ![n][t] = w]
          /\ \E list : pc' = [pc EXCEPT ![n][t] = Begun(list)]
      BY <2>6 DEF CompareTables, queueVars, tcpVars
    <3>2. /\ pc'[n][t] \notin Serving
          /\ \A m \in Node, u \in Thread : ~(m = n /\ u = t) =>
               pc'[m][u] = pc[m][u] /\ job'[m][u] = job[m][u]
      BY <1>8, <1>18, <3>1, Threads
    <3>3. GoesOnAsking(c) /\ NoMoreService(c)
      BY <1>4, <3>1, <3>2, Threads
    <3> QED BY <1>1, <1>3, <3>1, <3>3, PairedKept
  <2>7. CASE LosesEnd(n, t)
    <3>1. pc[n][t] \in Receiving /\ pc' = [pc EXCEPT ![n][t] = "stuck"]
      BY <2>7, Threads DEF LosesEnd
    <3>2. UNCHANGED <<job, reply, incoming, serving, udp, todoUdp>>
      BY <2>7 DEF LosesEnd, queueVars, tcpVars
    <3> QED BY <1>1, <1>3, <1>19, <3>1, <3>2, PairedKept
  <2> QED BY <1>15, <2>1, <2>2, <2>3, <2>4, <2>5, <2>6, <2>7 DEF RequestStep
<1>16. ASSUME NEW n \in Node, FaultStep(n) PROVE Paired(c)'
  <2>1. CASE LoseDatagram(n)
    <3>1. /\ udp[n] # << >> /\ udp' = [udp EXCEPT ![n] = Tail(@)]
          /\ UNCHANGED <<pc, job, reply, incoming, serving, todoUdp>>
      BY <2>1 DEF LoseDatagram, callVars, tcpVars
    <3>2. NoMoreRequests(c)
      BY <1>5, <3>1, FewerSame DEF NoMoreRequests
    <3> QED BY <1>1, <1>2, <3>1, <3>2, PairedKept
  <2>2. CASE LoseReply(n)
    <3>1. /\ reply' = [reply EXCEPT ![n] = Nothing]
          /\ UNCHANGED <<pc, job, incoming, serving, udp, todoUdp>>
      BY <2>2 DEF LoseReply, callVars, queueVars
    <3>2. GoesOnAsking(c) /\ NoMoreService(c)
      BY <1>1, <3>1 DEF GoesOnAsking, NoMoreService, Serves, TypeOK
    <3> QED BY <1>1, <1>3, <3>1, <3>2, PairedKept
  <2>3. ASSUME NEW t \in Thread, ConnectTooEarly(n, t) PROVE Paired(c)'
    <3>1. pc[n][t] \in Receiving /\ pc' = [pc EXCEPT ![n][t] = "stuck"]
      BY <2>3, Threads DEF ConnectTooEarly
    <3>2. UNCHANGED <<job, reply, incoming, serving, udp, todoUdp>>
      BY <2>3 DEF ConnectTooEarly, queueVars, tcpVars
    <3> QED BY <1>1, <1>3, <1>19, <3>1, <3>2, PairedKept
  <2> QED BY <1>16, <2>1, <2>2, <2>3 DEF FaultStep
<1>17. CASE UNCHANGED vars
  BY <1>1, <1>2, <1>3, <1>17, PairedKept DEF vars, callVars, queueVars, tcpVars
<1> QED BY <1>9, <1>10, <1>11, <1>12, <1>13, <1>14, <1>15, <1>16, <1>17 DEF Next

LEMMA PairInit == Init => PairInv
<1> SUFFICES ASSUME Init, NEW n \in Node PROVE Paired(n)
  BY DEF PairInv
<1>1. \A m \in Node : Len(udp[m]) = 0 /\ Len(todoUdp[m]) = 0
  BY DEF Init
<1>2. \A m \in Node : NoneOf(udp[m], n) /\ NoneOf(todoUdp[m], n) /\ ~Serves(m, n, Serving)
  BY <1>1, Threads DEF Init, NoneOf, Serves
<1>3. Silent(n)
  BY <1>2 DEF Init, Silent
<1> QED BY <1>3, SilentIsPaired

LEMMA PairInvariant == Spec => [](LockInv /\ PairInv)
<1>1. Init => PairInv
  BY PairInit
<1>2. LockInv /\ PairInv /\ [Next]_vars => PairInv'
  BY PairStep
<1> QED BY <1>1, <1>2, LockInvariant, PTL DEF Spec

(***************************************************************************)
(* Nothing in a reply of handleUdp says which request it answers; the      *)
(* reply that negotiateTCPTransfer reads, and the file that receiveFile    *)
(* writes, are those it asked for, for any number of nodes and threads     *)
(* and whatever is lost.                                                   *)
(***************************************************************************)
THEOREM AnswersAreMatched == Spec => []AnswersMatchRequests
<1>1. LockInv /\ PairInv => AnswersMatchRequests
  BY Threads DEF PairInv, Paired, AnswerOf, Expects, Fetches, AnswersMatchRequests, AsksFor
<1> QED BY <1>1, PairInvariant, PTL

(***************************************************************************)
(* Server::accept and Server::receive wait without a timeout, and case 5   *)
(* of handleUdp only calls them for a client that waits for this file.     *)
(***************************************************************************)
THEOREM ServersAreAwaitedFor == Spec => []ServersAreAwaited
<1>1. LockInv /\ PairInv => ServersAreAwaited
  <2> SUFFICES ASSUME LockInv, PairInv, NEW m \in Node, pc[m]["handler"] \in Serving
               PROVE  \E t \in Thread : AsksFor(serving[m].client, t, m, serving[m].path)
    BY DEF ServersAreAwaited, Serving
  <2>1. serving[m] \in Service
    <3>1. serving[m] # Nothing
      BY Threads DEF LockInv, Places, InCase5, Serving
    <3> QED BY <3>1 DEF LockInv, TypeOK
  <2>2. serving[m].client \in Node /\ Serves(m, serving[m].client, Serving)
    BY <2>1 DEF Service, Serves
  <2> QED BY <2>2 DEF PairInv, Paired, ServiceOf
<1> QED BY <1>1, PairInvariant, PTL

--------------------------------------------------------------------------------

\* A thread that waits for an answer, or for dirLock.
Held(n, t) == Waits(n, t) \/ (pc[n][t] = "request" /\ dirLock[n] # Free)

\* Only others can help it: it stays where it is, at the same change.
LEMMA HeldStep ==
    ASSUME LockInv, [Next]_vars, NEW c \in Node, NEW u \in Thread, Held(c, u)
    PROVE  pc'[c][u] = pc[c][u] /\ job'[c][u] = job[c][u]
<1> DEFINE Goal == pc'[c][u] = pc[c][u] /\ job'[c][u] = job[c][u]
<1>1. /\ TypeOK /\ Places /\ Unstarted /\ Claims /\ pc \in [Node -> [Thread -> Place]]
      /\ job \in [Node -> [Thread -> Job]]
  BY DEF LockInv, TypeOK
<1>2. /\ pc[c][u] \in {"request", "negotiate"}
      /\ pc[c][u] = "request" => dirLock[c] # Free
      /\ pc[c][u] = "negotiate" => reply[c] = Nothing
  BY DEF Held, Waits
\* Threads stay where they are, or one moves that is not held.
<1>3. ASSUME UNCHANGED <<pc, job>> PROVE Goal
  BY <1>3
<1>4. ASSUME NEW n \in Node, NEW t \in Thread, NEW v, NEW w,
             pc' = [pc EXCEPT ![n][t] = v],
             job' = job \/ job' = [job EXCEPT ![n][t] = w],
             ~(n = c /\ t = u)
      PROVE  Goal
  <2>1. pc'[c][u] = pc[c][u]
    BY <1>1, <1>4
  <2>2. job' = [job EXCEPT ![n][t] = w] => job'[c][u] = job[c][u]
    BY <1>1, <1>4
  <2>3. job'[c][u] = job[c][u]
    BY <1>4, <2>2
  <2> QED BY <2>1, <2>3
<1>5. ASSUME NEW n \in Node, StartUp(n) PROVE Goal
  <2>1. /\ pc[n]["discoverer"] \in {"idle", "announce"} /\ job' = job
        /\ \E v : pc' = [pc EXCEPT ![n]["discoverer"] = v]
    BY <1>1, <1>5, Threads DEF StartUp, Start, Announce, Unstarted
  <2> QED BY <1>2, <1>4, <2>1, Threads
<1>6. ASSUME NEW n \in Node, StartWatching(n) \/ Scan(n) \/ PublishChanges(n) \/ UserStep(n)
      PROVE  Goal
  BY <1>3, <1>6 DEF StartWatching, Scan, PublishChanges, UserStep, UserWrites, UserDeletes, callVars
<1>7. ASSUME NEW n \in Node, DiscovererStep(n) PROVE Goal
  <2>1. CASE CollectForHandler(n)
    BY <1>3, <2>1 DEF CollectForHandler, callVars
  <2>2. CASE CollectArrival(n)
    <3>1. /\ pc[n]["discoverer"] = "idle"
          /\ \E v : pc' = [pc EXCEPT ![n]["discoverer"] = v]
          /\ \E w : job' = [job EXCEPT ![n]["discoverer"] = w]
      BY <2>2 DEF CollectArrival, Considers
    <3> QED BY <1>2, <1>4, <3>1, Threads
  <2> QED BY <1>7, <2>1, <2>2 DEF DiscovererStep
<1>8. ASSUME NEW n \in Node, HandlerStep(n) PROVE Goal
  <2>1. CASE HandleResponse(n)
    BY <1>3, <2>1 DEF HandleResponse, callVars
  <2>2. CASE HandleFileRequest(n)
    <3>1. /\ pc[n]["handler"] = "idle" /\ job' = job
          /\ \E v : pc' = pc \/ pc' = [pc EXCEPT ![n]["handler"] = v]
      BY <2>2 DEF HandleFileRequest, Pops
    <3> QED BY <1>2, <1>3, <1>4, <3>1, Threads
  <2>3. CASE OpenAndListen(n) \/ EndService(n)
    <3>1. /\ pc[n]["handler"] \in {"open", "sent"} /\ job' = job
          /\ \E v : pc' = [pc EXCEPT ![n]["handler"] = v]
      BY <2>3 DEF OpenAndListen, EndService
    <3> QED BY <1>2, <1>4, <3>1, Threads
  <2>4. CASE HandleDirChanges(n)
    <3>1. /\ pc[n]["handler"] = "idle"
          /\ \E v : pc' = [pc EXCEPT ![n]["handler"] = v]
          /\ \E w : job' = [job EXCEPT ![n]["handler"] = w]
      BY <2>4 DEF HandleDirChanges, Pops
    <3> QED BY <1>2, <1>4, <3>1, Threads
  <2> QED BY <1>8, <2>1, <2>2, <2>3, <2>4 DEF HandlerStep
<1>9. ASSUME NEW n \in Node, TakeTable(n) PROVE Goal
  <2>1. /\ pc[n]["tableManager"] = "idle"
        /\ \E v : pc' = [pc EXCEPT ![n]["tableManager"] = v]
        /\ \E w : job' = [job EXCEPT ![n]["tableManager"] = w]
    BY <1>9 DEF TakeTable, Considers
  <2> QED BY <1>2, <1>4, <2>1, Threads
<1>10. ASSUME NEW n \in Node, NEW t \in Thread, RequestStep(n, t) PROVE Goal
  <2>1. CASE SkipChange(n, t) \/ ApplyDeletion(n, t) \/ Abandoned(n, t)
    <3>1. Advance(n, t, pc)
      BY <2>1 DEF SkipChange, ApplyDeletion, Abandoned
    <3>2. \/ pc[n][t] = "request" /\ dirLock[n] = Free
          \/ pc[n][t] = "negotiate" /\ reply[n] # Nothing
      BY <2>1 DEF SkipChange, ApplyDeletion, Abandoned, LocksFor
    <3>3. pc[n][t] = "request" \/ pc[n][t] \in Negotiating
      BY <3>2, Threads
    <3>4. /\ pc' = [pc EXCEPT ![n][t] = NextEntry(n, t)]
          /\ \A m \in Node, r \in Thread : ~(m = n /\ r = t) => job'[m][r] = job[m][r]
      BY <1>1, <3>1, <3>3, AdvancePlaces
    <3>5. ~(n = c /\ t = u)
      BY <1>2, <3>2
    <3> QED BY <1>1, <3>4, <3>5
  <2>2. CASE RequestFile(n, t) \/ OpenForWriting(n, t)
    <3>1. job' = job /\ \E v : pc' = [pc EXCEPT ![n][t] = v]
      BY <2>2, RequestTakesLock DEF LockInv, OpenForWriting
    <3>2. \/ pc[n][t] = "request" /\ dirLock[n] = Free
          \/ pc[n][t] = "negotiate" /\ reply[n] # Nothing
      BY <2>2 DEF RequestFile, OpenForWriting, LocksFor
    <3>3. ~(n = c /\ t = u)
      BY <1>2, <3>2
    <3> QED BY <1>4, <3>1, <3>3
  <2>3. CASE Connect(n, t)
    <3> DEFINE s == incoming[n].from
    <3>1. /\ pc[n][t] = "connect" /\ pc[s]["handler"] = "accept" /\ job' = job
          /\ pc' = [[pc EXCEPT ![n][t] = "receive"] EXCEPT ![s]["handler"] = "send"]
      BY <2>3 DEF Connect
    <3> HIDE DEF s
    <3>2. ~(c = n /\ u = t) /\ ~(c = s /\ u = "handler")
      BY <1>2, <3>1
    <3> QED BY <1>1, <3>1, <3>2
  <2>4. CASE Transfer(n, t)
    <3> DEFINE s   == incoming[n].from
               pcs == [pc EXCEPT ![s]["handler"] = "sent"]
    <3>1. pc[n][t] = "receive" /\ Advance(n, t, pcs)
      BY <2>4 DEF Transfer
    <3>2. pc[s]["handler"] = "send"
      BY <1>1, <3>1 DEF Claims, ServerOf, Serves
    <3>3. ~(c = n /\ u = t) /\ ~(c = s /\ u = "handler")
      BY <1>2, <3>1, <3>2
    <3> HIDE DEF s, pcs
    <3>n. pc[n][t] \in Negotiating /\ TypeOK /\ Places
      BY <1>1, <3>1, Threads
    <3>4. /\ pc' = [pcs EXCEPT ![n][t] = NextEntry(n, t)]
          /\ \A m \in Node, r \in Thread : ~(m = n /\ r = t) => job'[m][r] = job[m][r]
      BY <3>1, <3>n, AdvancePlaces
    <3>5. pc'[c][u] = pcs[c][u]
      BY <1>1, <3>3, <3>4 DEF pcs
    <3>6. pcs[c][u] = pc[c][u]
      BY <1>1, <3>3 DEF pcs
    <3> QED BY <3>3, <3>4, <3>5, <3>6
  <2>5. CASE CompareTables(n, t)
    <3>1. /\ pc[n][t] = "compare"
          /\ \E v : pc' = [pc EXCEPT ![n][t] = v]
          /\ \E w : job' = [job EXCEPT ![n][t] = w]
      BY <2>5 DEF CompareTables
    <3> QED BY <1>2, <1>4, <3>1
  <2>6. CASE LosesEnd(n, t)
    <3>1. pc[n][t] = "receive" /\ pc' = [pc EXCEPT ![n][t] = "stuck"] /\ job' = job
      BY <2>6 DEF LosesEnd
    <3> QED BY <1>2, <1>4, <3>1
  <2> QED BY <1>10, <2>1, <2>2, <2>3, <2>4, <2>5, <2>6 DEF RequestStep
<1>11. ASSUME NEW n \in Node, FaultStep(n) PROVE Goal
  <2>1. CASE LoseDatagram(n) \/ LoseReply(n)
    BY <1>3, <2>1 DEF LoseDatagram, LoseReply, callVars
  <2>2. ASSUME NEW t \in Thread, ConnectTooEarly(n, t) PROVE Goal
    <3>1. pc[n][t] = "connect" /\ pc' = [pc EXCEPT ![n][t] = "stuck"] /\ job' = job
      BY <2>2 DEF ConnectTooEarly
    <3> QED BY <1>2, <1>4, <3>1
  <2> QED BY <1>11, <2>1, <2>2 DEF FaultStep
<1>12. CASE UNCHANGED vars
  BY <1>3, <1>12 DEF vars, callVars
<1> QED BY <1>5, <1>6, <1>7, <1>8, <1>9, <1>10, <1>11, <1>12 DEF Next

\* An answer is one to a request that a handler takes from its queue.
LEMMA AnswerArrives ==
    ASSUME LockInv, [Next]_vars, NEW c \in Node, reply[c] = Nothing, reply'[c] # Nothing
    PROVE  \E m \in Node :
              pc[m]["handler"] = "idle" /\ todoUdp[m] # << >> /\ Asks(Head(todoUdp[m]), c)
<1>1. reply \in [Node -> {Nothing} \cup Reply]
  BY DEF LockInv, TypeOK
<1>2. ASSUME NEW n \in Node, reply' = reply \/ reply' = [reply EXCEPT ![n] = Nothing]
      PROVE  FALSE
  BY <1>1, <1>2
<1>3. ASSUME NEW n \in Node, HandleFileRequest(n)
      PROVE  pc[n]["handler"] = "idle" /\ todoUdp[n] # << >> /\ Asks(Head(todoUdp[n]), c)
  <2>1. /\ pc[n]["handler"] = "idle" /\ todoUdp[n] # << >> /\ Head(todoUdp[n]).pid = 5
        /\ \E v : reply' = reply \/ reply' = [reply EXCEPT ![Head(todoUdp[n]).from] = v]
    BY <1>3 DEF HandleFileRequest, Pops
  <2>2. Head(todoUdp[n]).from = c
    BY <1>1, <2>1
  <2> QED BY <2>1, <2>2 DEF Asks
<1>4. ASSUME NEW n \in Node,
             \/ StartUp(n) \/ StartWatching(n) \/ Scan(n) \/ PublishChanges(n)
             \/ DiscovererStep(n) \/ TakeTable(n) \/ UserStep(n)
      PROVE  FALSE
  <2>1. reply' = reply
    BY <1>4 DEF StartUp, Start, Announce, StartWatching, Scan, PublishChanges, DiscovererStep,
       CollectForHandler, CollectArrival, TakeTable, UserStep, UserWrites, UserDeletes, tcpVars
  <2> QED BY <1>2, <2>1
<1>5. ASSUME NEW n \in Node, HandlerStep(n), ~HandleFileRequest(n) PROVE FALSE
  <2>1. reply' = reply
    BY <1>5 DEF HandlerStep, HandleResponse, OpenAndListen, EndService, HandleDirChanges, tcpVars
  <2> QED BY <1>5, <1>2, <2>1
<1>6. ASSUME NEW n \in Node, NEW t \in Thread, RequestStep(n, t) PROVE FALSE
  <2>1. reply' = reply \/ reply' = [reply EXCEPT ![n] = Nothing]
    BY <1>6 DEF RequestStep, SkipChange, ApplyDeletion, RequestFile, Abandoned, OpenForWriting,
       Connect, CompareTables, Transfer, LosesEnd, tcpVars
  <2> QED BY <1>6, <1>2, <2>1
<1>7. ASSUME NEW n \in Node, FaultStep(n) PROVE FALSE
  <2>1. reply' = reply \/ reply' = [reply EXCEPT ![n] = Nothing]
    BY <1>7 DEF FaultStep, LoseDatagram, LoseReply, ConnectTooEarly, tcpVars
  <2> QED BY <1>7, <1>2, <2>1
<1>8. ~UNCHANGED vars
  BY <1>1 DEF vars, tcpVars
<1> QED BY <1>3, <1>4, <1>5, <1>6, <1>7, <1>8 DEF Next

\* A queue loses at most its first datagram, and gets none.
Shrinks(q, r) == q = r \/ (r # << >> /\ q = Tail(r))

\* Only the discoverer, back in its loop, adds to the queue of the handler.
LEMMA QueueShrinks ==
    ASSUME LockInv, [Next]_vars, NEW m \in Node, pc[m]["discoverer"] # "idle"
    PROVE  Shrinks(todoUdp'[m], todoUdp[m])
<1> DEFINE Goal == Shrinks(todoUdp'[m], todoUdp[m])
<1>1. todoUdp \in [Node -> Seq(Datagram)]
  BY DEF LockInv, TypeOK
<1>2. ASSUME todoUdp' = todoUdp PROVE Goal
  BY <1>2 DEF Shrinks
<1>3. ASSUME NEW n \in Node, todoUdp[n] # << >>, todoUdp' = [todoUdp EXCEPT ![n] = Tail(@)]
      PROVE  Goal
  <2>1. n = m => todoUdp'[m] = Tail(todoUdp[m])
    BY <1>1, <1>3
  <2>2. n # m => todoUdp'[m] = todoUdp[m]
    BY <1>1, <1>3
  <2> QED BY <1>3, <2>1, <2>2 DEF Shrinks
<1>4. ASSUME NEW n \in Node,
             \/ StartUp(n) \/ StartWatching(n) \/ Scan(n) \/ PublishChanges(n)
             \/ TakeTable(n) \/ UserStep(n)
      PROVE  Goal
  BY <1>2, <1>4 DEF StartUp, Start, Announce, StartWatching, Scan, PublishChanges, TakeTable,
     UserStep, UserWrites, UserDeletes, queueVars
<1>5. ASSUME NEW n \in Node, DiscovererStep(n) PROVE Goal
  <2>1. CASE CollectForHandler(n)
    <3>1. n # m /\ \E v : todoUdp' = [todoUdp EXCEPT ![n] = v]
      BY <2>1 DEF CollectForHandler
    <3>2. todoUdp'[m] = todoUdp[m]
      BY <1>1, <3>1
    <3> QED BY <3>2 DEF Shrinks
  <2>2. CASE CollectArrival(n)
    BY <1>2, <2>2 DEF CollectArrival
  <2> QED BY <1>5, <2>1, <2>2 DEF DiscovererStep
<1>6. ASSUME NEW n \in Node, HandlerStep(n) PROVE Goal
  <2>1. CASE OpenAndListen(n) \/ EndService(n)
    BY <1>2, <2>1 DEF OpenAndListen, EndService, queueVars
  <2>2. CASE HandleResponse(n) \/ HandleFileRequest(n) \/ HandleDirChanges(n)
    <3>1. todoUdp[n] # << >> /\ todoUdp' = [todoUdp EXCEPT ![n] = Tail(@)]
      BY <2>2 DEF HandleResponse, HandleFileRequest, HandleDirChanges, Pops
    <3> QED BY <1>3, <3>1
  <2> QED BY <1>6, <2>1, <2>2 DEF HandlerStep
<1>7. ASSUME NEW n \in Node, NEW t \in Thread, RequestStep(n, t) PROVE Goal
  BY <1>2, <1>7 DEF RequestStep, SkipChange, ApplyDeletion, RequestFile, Abandoned,
     OpenForWriting, Connect, CompareTables, Transfer, LosesEnd, queueVars
<1>8. ASSUME NEW n \in Node, FaultStep(n) PROVE Goal
  BY <1>2, <1>8 DEF FaultStep, LoseDatagram, LoseReply, ConnectTooEarly, queueVars
<1>9. CASE UNCHANGED vars
  BY <1>2, <1>9 DEF vars, queueVars
<1> QED BY <1>4, <1>5, <1>6, <1>7, <1>8, <1>9 DEF Next

\* The thread of another that keeps it from answering is held, too.
LEMMA CircleStep ==
    ASSUME LockInv, PairInv, [Next]_vars, NEW C \in SUBSET Node, Circle(C)
    PROVE  Circle(C)'
<1>1. /\ TypeOK /\ LockHeld /\ \A n \in Node : Paired(n)
  BY DEF LockInv, PairInv
\* Whoever is in the circle stays in requestFiles, wherever it is there.
<1>2. ASSUME NEW m \in C, NEW r \in Thread, Requests(m, r) PROVE Requests(m, r)'
  <2>1. PICK u \in Thread : Waits(m, u)
    BY DEF Circle, WaitsIn
  <2>2. dirLock[m] = u /\ Free \notin Thread
    BY <1>1, <2>1, Threads DEF LockHeld, Waits, Free, Thread
  <2>3. Held(m, r)
    <3>1. CASE pc[m][r] = "request"
      <4>1. dirLock[m] # Free
        BY <2>2
      <4> QED BY <3>1, <4>1 DEF Held
    <3>2. CASE pc[m][r] = "negotiate"
      <4>1. Waits(m, r)
        BY <2>1, <3>2 DEF Waits
      <4> QED BY <4>1 DEF Held
    <3> QED BY <1>2, <3>1, <3>2 DEF Requests
  <2>4. m \in Node /\ pc'[m][r] = pc[m][r]
    BY <2>3, HeldStep
  <2> QED BY <1>2, <2>4 DEF Requests
<1>3. ASSUME NEW n \in C PROVE \E t \in Thread : WaitsIn(C, n, t)'
  <2>1. PICK t \in Thread : WaitsIn(C, n, t)
    BY DEF Circle
  <2>m. PICK m \in C : m = job[n][t].from
    BY <2>1 DEF WaitsIn
  <2>2. /\ n \in Node /\ m \in Node /\ Waits(n, t)
        /\ pc[n][t] = "negotiate" /\ reply[n] = Nothing
    BY <2>1 DEF WaitsIn, Waits
  <2>3. pc'[n][t] = "negotiate" /\ job'[n][t] = job[n][t]
    <3>1. Held(n, t)
      BY <2>2 DEF Held
    <3> QED BY <2>2, <3>1, HeldStep
  <2>4. \/ Requests(m, "handler")
        \/ Requests(m, "discoverer") /\ NoneOf(todoUdp[m], n)
    BY <2>1, <2>m DEF WaitsIn
  <2>5. reply'[n] = Nothing
    <3> SUFFICES ASSUME reply'[n] # Nothing PROVE FALSE
      OBVIOUS
    <3>1. PICK k \in Node : /\ pc[k]["handler"] = "idle" /\ todoUdp[k] # << >>
                            /\ Asks(Head(todoUdp[k]), n)
      BY <2>2, AnswerArrives
    <3>2. todoUdp[k] \in Seq(Datagram)
      BY <1>1 DEF TypeOK
    <3>3. ~NoneOf(todoUdp[k], n)
      <4>1. Head(todoUdp[k]) = todoUdp[k][1] /\ 1 \in 1..Len(todoUdp[k])
        BY <3>1, <3>2
      <4> QED BY <3>1, <4>1 DEF NoneOf
    <3>4. k = m
      BY <1>1, <2>2, <3>3, <2>m, OneServer, Threads DEF InFlight
    <3> QED BY <2>4, <3>1, <3>3, <3>4 DEF Requests
  <2>6. \/ Requests(m, "handler")'
        \/ Requests(m, "discoverer")' /\ NoneOf(todoUdp'[m], n)
    <3>1. CASE Requests(m, "handler")
      BY <1>2, <2>2, <3>1, Threads DEF Requests
    <3>2. CASE Requests(m, "discoverer") /\ NoneOf(todoUdp[m], n)
      <4>1. Requests(m, "discoverer")'
        BY <1>2, <2>2, <3>2, Threads DEF Requests
      <4>2. Shrinks(todoUdp'[m], todoUdp[m])
        BY <2>2, <3>2, QueueShrinks DEF Requests
      <4>3. todoUdp[m] \in Seq(Datagram)
        BY <1>1, <2>2 DEF TypeOK
      <4>4. NoneOf(todoUdp'[m], n)
        BY <3>2, <4>2, <4>3, FewerTail, FewerNone DEF Shrinks
      <4> QED BY <4>1, <4>4
    <3> QED BY <2>4, <3>1, <3>2
  <2>7. job'[n][t].from = m
    BY <2>3, <2>m
  <2> QED BY <2>2, <2>3, <2>5, <2>6, <2>7 DEF WaitsIn, Waits, Requests
<1> QED BY <1>3 DEF Circle

(***************************************************************************)
(* The threads of nodes that wait in a circle for each other's answers, in *)
(* negotiateTCPTransfer and for dirLock, wait for ever: no step of any     *)
(* thread, user or network opens the circle.                               *)
(***************************************************************************)
THEOREM CirclesDoStay == Spec => CirclesStay
<1>1. LockInv /\ PairInv /\ [Next]_vars => [\A C \in SUBSET Node : Circle(C) => Circle(C)']_vars
  BY CircleStep
<1> QED BY <1>1, PairInvariant, PTL DEF Spec, CirclesStay

--------------------------------------------------------------------------------

(***************************************************************************)
(* Whatever a node has received, and whoever its threads ask for files, is *)
(* of another node that is up: its own broadcasts are ignored, and no port *)
(* is unbound again.                                                       *)
(***************************************************************************)
Peers(n)    == running \ {n}
FromPeer(n) == {msg \in Datagram : msg.from \in Peers(n)}
Asking      == {"compare", "request"} \cup Negotiating

PeersOf(n) ==
    /\ udp[n] \in Seq(FromPeer(n)) /\ todoUdp[n] \in Seq(FromPeer(n))
    /\ tableMsg[n] # Nothing => tableMsg[n] \in FromPeer(n)
    /\ \A t \in Thread : pc[n][t] \in Asking => job[n][t].from \in Peers(n)

PeerInv == \A n \in Node : PeersOf(n)

\* What is there stays of a peer when another node comes up.
LEMMA MorePeers ==
    ASSUME running \subseteq running', NEW c \in Node
    PROVE  /\ Peers(c) \subseteq Peers(c)'
           /\ FromPeer(c) \subseteq FromPeer(c)'
           /\ \A q : q \in Seq(FromPeer(c)) => q \in Seq(FromPeer(c)')
<1>1. Peers(c) \subseteq Peers(c)'
  BY DEF Peers
<1>2. FromPeer(c) \subseteq FromPeer(c)'
  BY <1>1 DEF FromPeer
<1>3. ASSUME NEW q \in Seq(FromPeer(c)) PROVE q \in Seq(FromPeer(c)')
  <2> DEFINE S == FromPeer(c)
             T == FromPeer(c)'
  <2>1. S \subseteq T /\ q \in Seq(S)
    BY <1>2
  <2> HIDE DEF S, T
  <2>2. q \in Seq(T)
    BY <2>1
  <2> QED BY <2>2 DEF T
<1> QED BY <1>1, <1>2, <1>3

\* The queues and the table of c stay, lose their first, or get a datagram of
\* a peer; the threads that ask go on with the same server, or were given one.
QueueOfPeers(q, r, c) ==
    \/ q = r
    \/ r # << >> /\ q = Tail(r)
    \/ \E msg \in FromPeer(c) : q = Append(r, msg)

LEMMA QueuePeers ==
    ASSUME NEW c \in Node, NEW r \in Seq(FromPeer(c)), NEW q, QueueOfPeers(q, r, c)
    PROVE  q \in Seq(FromPeer(c))
<1> DEFINE S == FromPeer(c)
<1>1. \/ q = r
      \/ r # << >> /\ q = Tail(r)
      \/ \E msg \in S : q = Append(r, msg)
  BY DEF QueueOfPeers
<1>2. r \in Seq(S)
  OBVIOUS
<1> HIDE DEF S
<1>3. q \in Seq(S)
  BY <1>1, <1>2
<1> QED BY <1>3 DEF S
\* A node that is up sends to others only.
LEMMA SendPeers ==
    ASSUME NEW n \in running, n \in Node, NEW msg \in Datagram, msg.from = n,
           NEW c \in Node, udp[c] \in Seq(FromPeer(c)), udp \in [Node -> Seq(Datagram)]
    PROVE  /\ BroadcastBy(n, msg)[c] \in Seq(FromPeer(c))
           /\ \A m \in Node \ {n}, buffers \in [Node -> Seq(Datagram)] :
                 buffers[c] \in Seq(FromPeer(c)) => SentTo(buffers, m, msg)[c] \in Seq(FromPeer(c))
<1>1. c # n => msg \in FromPeer(c)
  BY DEF FromPeer, Peers
<1>2. \A r \in Seq(FromPeer(c)) : c # n => Append(r, msg) \in Seq(FromPeer(c))
  BY <1>1, QueuePeers DEF QueueOfPeers
<1>3. BroadcastBy(n, msg)[c] = udp[c] \/ (c # n /\ BroadcastBy(n, msg)[c] = Append(udp[c], msg))
  BY DEF BroadcastBy
<1>4. ASSUME NEW m \in Node \ {n}, NEW buffers \in [Node -> Seq(Datagram)]
      PROVE  \/ SentTo(buffers, m, msg)[c] = buffers[c]
             \/ c # n /\ SentTo(buffers, m, msg)[c] = Append(buffers[c], msg)
  BY <1>4 DEF SentTo
<1> QED BY <1>2, <1>3, <1>4

\* A client and the handler of a server move at once.
LEMMA TwoMove ==
    ASSUME pc \in [Node -> [Thread -> Place]], NEW n \in Node, NEW t \in Thread,
           NEW m \in Node, NEW u \in Thread, ~(m = n /\ u = t), NEW s, NEW v, NEW w
    PROVE  /\ [[pc EXCEPT ![n][t] = v] EXCEPT ![s]["handler"] = w][m][u] \in {pc[m][u], w}
           /\ [[pc EXCEPT ![s]["handler"] = w] EXCEPT ![n][t] = v][m][u] \in {pc[m][u], w}
<1>1. ASSUME NEW f, DOMAIN f = Node, \A k \in Node : DOMAIN f[k] = Thread
      PROVE  /\ [f EXCEPT ![n][t] = v][m][u] = f[m][u]
             /\ [f EXCEPT ![s]["handler"] = w][m][u] \in {f[m][u], w}
             /\ DOMAIN [f EXCEPT ![n][t] = v] = Node
             /\ DOMAIN [f EXCEPT ![s]["handler"] = w] = Node
             /\ \A k \in Node : DOMAIN [f EXCEPT ![n][t] = v][k] = Thread
             /\ \A k \in Node : DOMAIN [f EXCEPT ![s]["handler"] = w][k] = Thread
  BY <1>1
<1> QED BY <1>1

LEMMA PeerStep == LockInv /\ PeerInv /\ [Next]_vars => PeerInv'
<1> SUFFICES ASSUME LockInv, PeerInv, [Next]_vars, NEW c \in Node PROVE PeersOf(c)'
  BY DEF PeerInv
<1>1. /\ TypeOK /\ Places /\ Unstarted /\ Claims /\ PeersOf(c)
      /\ pc \in [Node -> [Thread -> Place]] /\ running \subseteq Node
      /\ job \in [Node -> [Thread -> Job]]
      /\ udp \in [Node -> Seq(Datagram)] /\ todoUdp \in [Node -> Seq(Datagram)]
      /\ tableMsg \in [Node -> {Nothing} \cup TableDatagram]
  BY DEF LockInv, TypeOK, PeerInv
<1>a. {"idle", "announce", "open", "accept", "send", "sent"} \cap Asking = {}
  BY DEF Asking, Negotiating
<1>b. {"compare", "request", "negotiate", "connect", "receive", "stuck"} = Asking
  BY DEF Asking, Negotiating
\* What has to be kept.
<1> DEFINE Udp   == udp'[c] \in Seq(FromPeer(c))
           Todo  == todoUdp'[c] \in Seq(FromPeer(c))
           Table1 == tableMsg'[c] # Nothing => tableMsg'[c] \in FromPeer(c)
           Jobs  == \A t \in Thread : pc'[c][t] \in Asking => job'[c][t].from \in Peers(c)
<1>2. ASSUME running' = running, Udp, Todo, Table1, Jobs PROVE PeersOf(c)'
  BY <1>2 DEF PeersOf, FromPeer, Peers
<1>u. udp' = udp => Udp
  BY <1>1 DEF PeersOf
<1>t. todoUdp' = todoUdp => Todo
  BY <1>1 DEF PeersOf
<1>m. tableMsg' = tableMsg => Table1
  BY <1>1 DEF PeersOf
<1>j. (\A t \in Thread : pc'[c][t] \in Asking =>
          pc[c][t] \in Asking /\ job'[c][t].from = job[c][t].from) => Jobs
  BY <1>1 DEF PeersOf
<1>k. UNCHANGED <<pc, job>> => Jobs
  BY <1>1 DEF PeersOf
\* A thread goes to a place where it asks nobody.
<1>l. ASSUME NEW n \in Node, NEW t \in Thread, NEW v, v \notin Asking,
             pc' = [pc EXCEPT ![n][t] = v], job' = job
      PROVE  Jobs
  <2>1. pc'[n][t] = v /\ \A u \in Thread : ~(n = c /\ t = u) => pc'[c][u] = pc[c][u]
    BY <1>1, <1>l
  <2> QED BY <1>1, <1>l, <2>1 DEF PeersOf
\* A node with something in its queues is up.
<1>r. \A n \in Node : \/ udp[n] # << >> \/ todoUdp[n] # << >> \/ tableMsg[n] # Nothing
                      \/ \E t \in Thread : pc[n][t] # "idle"
                      => n \in running
  BY <1>1 DEF Unstarted
\* A thread begins with what came from a peer.
<1>f. ASSUME NEW n \in Node, NEW t \in Thread, NEW v, NEW w, w.from \in Peers(n),
             pc' = [pc EXCEPT ![n][t] = v], job' = [job EXCEPT ![n][t] = w]
      PROVE  Jobs
  <2>1. \A u \in Thread : ~(n = c /\ t = u) => pc'[c][u] = pc[c][u] /\ job'[c][u] = job[c][u]
    BY <1>1, <1>f
  <2>2. job'[n][t] = w
    BY <1>1, <1>f
  <2> QED BY <1>1, <1>f, <2>1, <2>2 DEF PeersOf
\* A datagram is taken from a queue.
<1>p. ASSUME NEW n \in Node, todoUdp[n] # << >>, todoUdp' = [todoUdp EXCEPT ![n] = Tail(@)]
      PROVE  Todo
  <2>1. todoUdp'[c] = todoUdp[c] \/ (todoUdp[c] # << >> /\ todoUdp'[c] = Tail(todoUdp[c]))
    BY <1>1, <1>p
  <2> QED BY <1>1, <2>1, QueuePeers DEF PeersOf, QueueOfPeers
<1>q. ASSUME NEW n \in Node, udp[n] # << >>
      PROVE  [udp EXCEPT ![n] = Tail(@)][c] \in Seq(FromPeer(c))
  <2> DEFINE q == [udp EXCEPT ![n] = Tail(@)][c]
  <2>1. q = udp[c] \/ (udp[c] # << >> /\ q = Tail(udp[c]))
    BY <1>1, <1>q
  <2> HIDE DEF q
  <2>2. q \in Seq(FromPeer(c))
    BY <1>1, <2>1, QueuePeers DEF PeersOf, QueueOfPeers
  <2> QED BY <2>2 DEF q
<1>h. ASSUME NEW n \in Node, NEW q \in Seq(FromPeer(n)), q # << >>
      PROVE  Head(q) \in FromPeer(n) /\ Head(q).from \in Peers(n)
  <2>1. Head(q) \in FromPeer(n)
    <3> DEFINE S == FromPeer(n)
    <3>1. q \in Seq(S)
      OBVIOUS
    <3> HIDE DEF S
    <3>2. Head(q) \in S
      BY <1>h, <3>1
    <3> QED BY <3>2 DEF S
  <2> QED BY <2>1 DEF FromPeer
<1> HIDE DEF Udp, Todo, Table1, Jobs
<1>3. ASSUME NEW n \in Node, Start(n) PROVE PeersOf(c)'
  <2>1. /\ running \subseteq running' /\ UNCHANGED <<udp, todoUdp, tableMsg, job>>
        /\ pc' = [pc EXCEPT ![n]["discoverer"] = "announce"]
    BY <1>3 DEF Start, queueVars
  <2>2. \A t \in Thread : pc'[c][t] \in Asking => pc[c][t] \in Asking
    BY <1>1, <1>a, <2>1, Threads
  <2>3. \A t \in Thread : pc'[c][t] \in Asking => job'[c][t].from \in Peers(c)'
    BY <1>1, <2>1, <2>2, MorePeers DEF PeersOf
  <2>4. /\ udp'[c] \in Seq(FromPeer(c)') /\ todoUdp'[c] \in Seq(FromPeer(c)')
        /\ tableMsg'[c] # Nothing => tableMsg'[c] \in FromPeer(c)'
    BY <1>1, <2>1, MorePeers DEF PeersOf
  <2> QED BY <2>3, <2>4 DEF PeersOf, Asking
<1>4. ASSUME NEW n \in Node, Announce(n) PROVE PeersOf(c)'
  <2>1. /\ pc[n]["discoverer"] = "announce" /\ UNCHANGED <<running, todoUdp, tableMsg, job>>
        /\ pc' = [pc EXCEPT ![n]["discoverer"] = "idle"]
        /\ udp' = BroadcastBy(n, Arrival(n, fileHashes[n]))
    BY <1>4 DEF Announce, nodeVars
  <2>3. Jobs
    BY <1>a, <1>l, <2>1, Threads
  <2>4. n \in running /\ Arrival(n, fileHashes[n]) \in Datagram /\ Arrival(n, fileHashes[n]).from = n
    BY <1>1, <1>r, <2>1, Threads, MessageTypes DEF TypeOK, Arrival
  <2>5. Udp
    BY <1>1, <2>1, <2>4, SendPeers DEF PeersOf, Udp
  <2> QED BY <1>2, <1>t, <1>m, <2>1, <2>3, <2>5
<1>5. ASSUME NEW n \in Node, StartWatching(n) \/ Scan(n) \/ UserStep(n) PROVE PeersOf(c)'
  <2>1. UNCHANGED <<running, pc, job, udp, todoUdp, tableMsg>>
    BY <1>5 DEF StartWatching, Scan, UserStep, UserWrites, UserDeletes, nodeVars, queueVars, callVars
  <2> QED BY <1>2, <1>u, <1>t, <1>m, <1>k, <2>1
<1>6. ASSUME NEW n \in Node, PublishChanges(n) PROVE PeersOf(c)'
  <2>1. /\ UNCHANGED <<running, pc, job, todoUdp, tableMsg>> /\ n \in running
        /\ udp' = BroadcastBy(n, DirChanges(n, changeBuf[n]))
    BY <1>6 DEF PublishChanges, nodeVars, callVars
  <2>2. DirChanges(n, changeBuf[n]) \in Datagram /\ DirChanges(n, changeBuf[n]).from = n
    BY <1>1, MessageTypes DEF TypeOK, DirChanges
  <2>3. Udp
    BY <1>1, <2>1, <2>2, SendPeers DEF PeersOf, Udp
  <2> QED BY <1>2, <1>t, <1>m, <1>k, <2>1, <2>3
<1>7. ASSUME NEW n \in Node, CollectForHandler(n) PROVE PeersOf(c)'
  <2>1. /\ UNCHANGED <<running, pc, job, tableMsg>> /\ udp[n] # << >>
        /\ udp' = [udp EXCEPT ![n] = Tail(@)]
        /\ todoUdp' = [todoUdp EXCEPT ![n] = Append(@, Head(udp[n]))]
    BY <1>7 DEF CollectForHandler, nodeVars, callVars
  <2>2. Udp
    BY <1>q, <2>1 DEF Udp
  <2>3. Todo
    <3>1. CASE n = c
      <4>1. Head(udp[c]) \in FromPeer(c)
        BY <1>1, <1>h, <2>1, <3>1 DEF PeersOf
      <4>2. todoUdp'[c] = Append(todoUdp[c], Head(udp[c]))
        BY <1>1, <2>1, <3>1
      <4> QED BY <1>1, <4>1, <4>2, QueuePeers DEF PeersOf, QueueOfPeers, Todo
    <3>2. CASE n # c
      <4>1. todoUdp'[c] = todoUdp[c]
        BY <1>1, <2>1, <3>2
      <4> QED BY <1>1, <4>1 DEF PeersOf, Todo
    <3> QED BY <3>1, <3>2
  <2> QED BY <1>2, <1>m, <1>k, <2>1, <2>2, <2>3
<1>8. ASSUME NEW n \in Node, CollectArrival(n) PROVE PeersOf(c)'
  <2> DEFINE msg      == Head(udp[n])
             buffers  == [udp EXCEPT ![n] = Tail(@)]
             response == Response(n, fileHashes[n])
  <2>1. /\ UNCHANGED <<running, todoUdp, tableMsg>> /\ udp[n] # << >>
        /\ udp' = SentTo(buffers, msg.from, response)
        /\ \E w : w.from = msg.from /\ job' = [job EXCEPT ![n]["discoverer"] = w]
        /\ pc' = [pc EXCEPT ![n]["discoverer"] = "compare"]
    BY <1>8 DEF CollectArrival, Considers, nodeVars
  <2>2. n \in running /\ PeersOf(n) /\ udp[n] \in Seq(Datagram)
    BY <1>1, <1>r, <2>1 DEF PeerInv
  <2>3. msg.from \in Peers(n)
    BY <1>h, <2>1, <2>2 DEF PeersOf
  <2>4. response \in Datagram /\ response.from = n
    BY <1>1, MessageTypes DEF TypeOK, Response
  <2>5. buffers[c] \in Seq(FromPeer(c))
    BY <1>q, <2>1
  <2>6. buffers \in [Node -> Seq(Datagram)]
    BY <1>1, <2>1, <2>2
  <2> HIDE DEF msg, buffers, response
  <2>7. Udp
    <3>1. msg.from \in Node \ {n}
      BY <1>1, <2>3 DEF Peers
    <3> QED BY <1>1, <2>1, <2>2, <2>4, <2>5, <2>6, <3>1, SendPeers DEF PeersOf, Udp
  <2>8. Jobs
    BY <1>f, <2>1, <2>3, Threads
  <2> QED BY <1>2, <1>t, <1>m, <2>1, <2>7, <2>8
<1>9. ASSUME NEW n \in Node, HandlerStep(n) PROVE PeersOf(c)'
  <2>1. CASE HandleResponse(n)
    <3>1. /\ UNCHANGED <<running, pc, job, udp>> /\ todoUdp[n] # << >>
          /\ todoUdp' = [todoUdp EXCEPT ![n] = Tail(@)]
          /\ tableMsg' = [tableMsg EXCEPT ![n] = Head(todoUdp[n])]
      BY <2>1 DEF HandleResponse, Pops, nodeVars, callVars
    <3>2. PeersOf(n)
      BY DEF PeerInv
    <3>3. Head(todoUdp[n]) \in FromPeer(n)
      BY <1>h, <3>1, <3>2 DEF PeersOf
    <3>4. tableMsg'[c] = tableMsg[c] \/ (n = c /\ tableMsg'[c] = Head(todoUdp[n]))
      BY <1>1, <3>1
    <3>5. Table1
      BY <1>1, <3>3, <3>4 DEF PeersOf, Table1
    <3> QED BY <1>2, <1>u, <1>p, <1>k, <3>1, <3>5
  <2>2. CASE HandleFileRequest(n)
    <3>1. /\ UNCHANGED <<running, job, udp, tableMsg>> /\ todoUdp[n] # << >>
          /\ pc[n]["handler"] = "idle"
          /\ todoUdp' = [todoUdp EXCEPT ![n] = Tail(@)]
          /\ pc' = pc \/ pc' = [pc EXCEPT ![n]["handler"] = "open"]
      BY <2>2 DEF HandleFileRequest, Pops, nodeVars
    <3>2. Jobs
      BY <1>a, <1>k, <1>l, <3>1, Threads
    <3> QED BY <1>2, <1>u, <1>m, <1>p, <3>1, <3>2
  <2>3. CASE OpenAndListen(n) \/ EndService(n)
    <3>1. /\ UNCHANGED <<running, job, udp, todoUdp, tableMsg>>
          /\ \E v \in {"accept", "idle"} : pc' = [pc EXCEPT ![n]["handler"] = v]
      BY <2>3 DEF OpenAndListen, EndService, nodeVars, queueVars
    <3>2. Jobs
      BY <1>a, <1>l, <3>1, Threads
    <3> QED BY <1>2, <1>u, <1>t, <1>m, <3>1, <3>2
  <2>4. CASE HandleDirChanges(n)
    <3> DEFINE msg == Head(todoUdp[n])
    <3>1. /\ UNCHANGED <<running, udp, tableMsg>> /\ todoUdp[n] # << >>
          /\ todoUdp' = [todoUdp EXCEPT ![n] = Tail(@)]
          /\ \E w : w.from = msg.from /\ job' = [job EXCEPT ![n]["handler"] = w]
          /\ pc' = [pc EXCEPT ![n]["handler"] = Begun(msg.changes)]
      BY <2>4 DEF HandleDirChanges, Pops, nodeVars
    <3>2. PeersOf(n)
      BY DEF PeerInv
    <3>3. msg.from \in Peers(n)
      BY <1>h, <3>1, <3>2 DEF PeersOf
    <3> HIDE DEF msg
    <3>4. Jobs
      BY <1>f, <3>1, <3>3, Threads
    <3> QED BY <1>2, <1>u, <1>m, <1>p, <3>1, <3>4
  <2> QED BY <1>9, <2>1, <2>2, <2>3, <2>4 DEF HandlerStep
<1>10. ASSUME NEW n \in Node, TakeTable(n) PROVE PeersOf(c)'
  <2>1. /\ UNCHANGED <<running, udp, todoUdp>> /\ tableMsg[n] # Nothing
        /\ tableMsg' = [tableMsg EXCEPT ![n] = Nothing]
        /\ \E w : w.from = tableMsg[n].from /\ job' = [job EXCEPT ![n]["tableManager"] = w]
        /\ pc' = [pc EXCEPT ![n]["tableManager"] = "compare"]
    BY <1>10 DEF TakeTable, Considers, nodeVars
  <2>2. PeersOf(n)
    BY DEF PeerInv
  <2>3. tableMsg[n].from \in Peers(n)
    BY <2>1, <2>2 DEF PeersOf, FromPeer
  <2>4. Jobs
    BY <1>f, <2>1, <2>3, Threads
  <2>5. tableMsg'[c] = tableMsg[c] \/ tableMsg'[c] = Nothing
    BY <1>1, <2>1
  <2>6. Table1
    BY <1>1, <2>5 DEF PeersOf, Table1
  <2> QED BY <1>2, <1>u, <1>t, <2>1, <2>4, <2>6
<1>11. ASSUME NEW n \in Node, NEW t \in Thread, RequestStep(n, t) PROVE PeersOf(c)'
  <2>1. UNCHANGED <<running, todoUdp, tableMsg>> /\ (udp' = udp \/ RequestFile(n, t))
    BY <1>11 DEF RequestStep, SkipChange, ApplyDeletion, RequestFile, Abandoned,
       OpenForWriting, Connect, CompareTables, Transfer, LosesEnd, nodeVars, queueVars
  <2>2. Udp
    <3>1. CASE RequestFile(n, t)
      <4> DEFINE s   == job[n][t].from
                 msg == FileRequest(n, Entry(n, t))
      <4>1. pc[n][t] = "request" /\ udp' = SentTo(udp, s, msg)
        BY <3>1 DEF RequestFile, LocksFor
      <4>2. s \in Peers(n)
        BY <1>b, <4>1 DEF PeerInv, PeersOf
      <4>3. msg \in Datagram /\ msg.from = n /\ n \in running
        BY <1>1, <1>r, <4>1, EntryType, MessageTypes DEF FileRequest
      <4>4. s \in Node \ {n}
        BY <1>1, <4>2 DEF Peers
      <4> HIDE DEF s, msg
      <4> QED BY <1>1, <4>1, <4>3, <4>4, SendPeers DEF PeersOf, Udp
    <3> QED BY <1>u, <2>1, <3>1
  <2>3. \A m \in Node, u \in Thread : pc'[m][u] \in Asking =>
           pc[m][u] \in Asking /\ job'[m][u].from = job[m][u].from
    <3>1. pc[n][t] \in Asking
      BY <1>11, <1>b DEF RequestStep, SkipChange, ApplyDeletion, RequestFile, Abandoned,
         OpenForWriting, Connect, CompareTables, Transfer, LosesEnd, LocksFor
    <3>2. \A m \in Node, u \in Thread : job'[m][u].from = job[m][u].from
      <4>1. \/ job' = job \/ job' = [job EXCEPT ![n][t].list = Tail(@)]
            \/ CompareTables(n, t)
        BY <1>11 DEF RequestStep, SkipChange, ApplyDeletion, RequestFile, Abandoned,
           OpenForWriting, Connect, Transfer, LosesEnd, Advance
      <4>2. ASSUME job' = [job EXCEPT ![n][t].list = Tail(@)],
                   NEW m \in Node, NEW u \in Thread
            PROVE  job'[m][u].from = job[m][u].from
        <5>1. job'[n][t] = [job[n][t] EXCEPT !.list = Tail(@)] /\ job[n][t] \in Job
          BY <1>1, <4>2
        <5>2. ~(m = n /\ u = t) => job'[m][u] = job[m][u]
          BY <1>1, <4>2
        <5>3. job'[n][t].from = job[n][t].from
          BY <5>1 DEF Job
        <5> QED BY <5>2, <5>3
      <4>3. ASSUME CompareTables(n, t), NEW m \in Node, NEW u \in Thread
            PROVE  job'[m][u].from = job[m][u].from
        <5>1. PICK list : job' = [job EXCEPT ![n][t] =
                            [job[n][t] EXCEPT !.table = Nothing, !.list = list]]
          BY <4>3 DEF CompareTables
        <5>2. /\ job'[n][t] = [job[n][t] EXCEPT !.table = Nothing, !.list = list]
              /\ job[n][t] \in Job
          BY <1>1, <5>1
        <5>3. job'[n][t].from = job[n][t].from
          BY <5>2 DEF Job
        <5>4. ~(m = n /\ u = t) => job'[m][u] = job[m][u]
          BY <1>1, <5>1
        <5> QED BY <5>3, <5>4
      <4> QED BY <4>1, <4>2, <4>3
    <3>3. \A m \in Node, u \in Thread : ~(m = n /\ u = t) =>
             pc'[m][u] = pc[m][u] \/ pc'[m][u] \in {"send", "sent"}
      <4> SUFFICES ASSUME NEW m \in Node, NEW u \in Thread, ~(m = n /\ u = t)
                   PROVE  pc'[m][u] = pc[m][u] \/ pc'[m][u] \in {"send", "sent"}
        OBVIOUS
      <4>1. CASE Connect(n, t)
        <5>1. PICK s : pc' = [[pc EXCEPT ![n][t] = "receive"] EXCEPT ![s]["handler"] = "send"]
          BY <4>1 DEF Connect
        <5>2. [[pc EXCEPT ![n][t] = "receive"] EXCEPT ![s]["handler"] = "send"][m][u] \in {pc[m][u], "send"}
          BY <1>1, TwoMove
        <5> QED BY <5>1, <5>2
      <4>2. CASE Transfer(n, t)
        <5>1. PICK s, v : pc' = [[pc EXCEPT ![s]["handler"] = "sent"] EXCEPT ![n][t] = v]
          BY <4>2 DEF Transfer, Advance
        <5>2. [[pc EXCEPT ![s]["handler"] = "sent"] EXCEPT ![n][t] = v][m][u] \in {pc[m][u], "sent"}
          BY <1>1, TwoMove
        <5> QED BY <5>1, <5>2
      <4>3. CASE ~Connect(n, t) /\ ~Transfer(n, t)
        <5>1. \E v : pc' = [pc EXCEPT ![n][t] = v]
          BY <1>11, <4>3 DEF RequestStep, SkipChange, ApplyDeletion, RequestFile, Abandoned,
             OpenForWriting, CompareTables, LosesEnd, Advance
        <5> QED BY <1>1, <5>1
      <4> QED BY <4>1, <4>2, <4>3
    <3> QED BY <1>a, <3>1, <3>2, <3>3
  <2>4. Jobs
    BY <1>j, <2>3
  <2> QED BY <1>2, <1>t, <1>m, <2>1, <2>2, <2>4
<1>12. ASSUME NEW n \in Node, FaultStep(n) PROVE PeersOf(c)'
  <2>1. CASE LoseDatagram(n)
    <3>1. /\ UNCHANGED <<running, pc, job, todoUdp, tableMsg>> /\ udp[n] # << >>
          /\ udp' = [udp EXCEPT ![n] = Tail(@)]
      BY <2>1 DEF LoseDatagram, nodeVars, callVars
    <3>2. Udp
      BY <1>q, <3>1 DEF Udp
    <3> QED BY <1>2, <1>t, <1>m, <1>k, <3>1, <3>2
  <2>2. CASE LoseReply(n)
    <3>1. UNCHANGED <<running, pc, job, udp, todoUdp, tableMsg>>
      BY <2>2 DEF LoseReply, nodeVars, callVars, queueVars
    <3> QED BY <1>2, <1>u, <1>t, <1>m, <1>k, <3>1
  <2>3. ASSUME NEW t \in Thread, ConnectTooEarly(n, t) PROVE PeersOf(c)'
    <3>1. /\ UNCHANGED <<running, job, udp, todoUdp, tableMsg>>
          /\ pc[n][t] = "connect" /\ pc' = [pc EXCEPT ![n][t] = "stuck"]
      BY <2>3 DEF ConnectTooEarly, nodeVars, queueVars
    <3>2. \A u \in Thread : pc'[c][u] \in Asking => pc[c][u] \in Asking
      BY <1>1, <1>b, <3>1
    <3>3. Jobs
      BY <1>j, <3>1, <3>2
    <3> QED BY <1>2, <1>u, <1>t, <1>m, <3>1, <3>3
  <2> QED BY <1>12, <2>1, <2>2, <2>3 DEF FaultStep
<1>13. CASE UNCHANGED vars
  <2>1. UNCHANGED <<running, pc, job, udp, todoUdp, tableMsg>>
    BY <1>13 DEF vars, nodeVars, callVars, queueVars
  <2> QED BY <1>2, <1>u, <1>t, <1>m, <1>k, <2>1
<1> QED BY <1>3, <1>4, <1>5, <1>6, <1>7, <1>8, <1>9, <1>10, <1>11, <1>12, <1>13
     DEF Next, StartUp, DiscovererStep

LEMMA PeerInit == Init => PeerInv
<1> SUFFICES ASSUME Init, NEW n \in Node PROVE PeersOf(n)
  BY DEF PeerInv
<1>1. << >> \in Seq(FromPeer(n))
  OBVIOUS
<1>2. \A t \in Thread : pc[n][t] \notin Asking
  BY DEF Init, Asking, Negotiating
<1> QED BY <1>1, <1>2 DEF Init, PeersOf

--------------------------------------------------------------------------------

LEMMA PeerInvariant == Spec => [](LockInv /\ PairInv /\ PeerInv)
<1>1. LockInv /\ PeerInv /\ [Next]_vars => PeerInv'
  BY PeerStep
<1> QED BY <1>1, PeerInit, PairInvariant, PTL DEF Spec

(***************************************************************************)
(* While nothing goes wrong, a node that waits for an answer has its       *)
(* request in one of the queues of the server, and one that receives for   *)
(* ever a server whose file changed.                                       *)
(***************************************************************************)
AwaitedBy(n, t) == Waits(n, t) => InFlight(job[n][t].from, n)
CutFor(n)       == \E m \in Node : FileCut(m) /\ serving[m].client = n

AwaitInv ==
    faults = 0 => \A n \in Node, t \in Thread :
        AwaitedBy(n, t) /\ (pc[n][t] = "stuck" => CutFor(n))

LEMMA NonePrefix ==
    ASSUME NEW q \in Seq(Datagram), NEW msg \in Datagram, NEW n
    PROVE  NoneOf(Append(q, msg), n) <=> NoneOf(q, n) /\ ~Asks(msg, n)
<1>1. /\ Len(q) \in Nat /\ Len(Append(q, msg)) = Len(q) + 1
      /\ \A i \in 1..Len(q) : Append(q, msg)[i] = q[i] /\ i \in 1..Len(Append(q, msg))
      /\ Append(q, msg)[Len(q) + 1] = msg /\ Len(q) + 1 \in 1..Len(Append(q, msg))
  OBVIOUS
<1>2. \A i \in 1..Len(Append(q, msg)) : i \in 1..Len(q) \/ i = Len(q) + 1
  BY <1>1
<1> QED BY <1>1, <1>2 DEF NoneOf

LEMMA NoneFirst ==
    ASSUME NEW q \in Seq(Datagram), q # << >>, NEW n
    PROVE  NoneOf(q, n) <=> NoneOf(Tail(q), n) /\ ~Asks(Head(q), n)
<1>1. /\ Len(q) \in Nat /\ Len(q) > 0 /\ Len(Tail(q)) = Len(q) - 1 /\ Head(q) = q[1]
      /\ \A i \in 1..Len(Tail(q)) : Tail(q)[i] = q[i + 1]
  OBVIOUS
<1>2. 1 \in 1..Len(q) /\ \A i \in 1..Len(Tail(q)) : i + 1 \in 1..Len(q)
  BY <1>1
<1>3. \A i \in 1..Len(q) : i = 1 \/ (i - 1 \in 1..Len(Tail(q)) /\ Tail(q)[i - 1] = q[i])
  BY <1>1
<1>4. NoneOf(q, n) => NoneOf(Tail(q), n) /\ ~Asks(Head(q), n)
  BY <1>1, <1>2 DEF NoneOf
<1>5. NoneOf(Tail(q), n) /\ ~Asks(Head(q), n) => NoneOf(q, n)
  BY <1>1, <1>3 DEF NoneOf
<1> QED BY <1>4, <1>5

\* Sending takes nothing away.
LEMMA SendKeeps ==
    ASSUME NEW n \in Node, NEW msg \in Datagram, NEW c \in Node, NEW m \in Node,
           udp \in [Node -> Seq(Datagram)]
    PROVE  /\ NoneOf(BroadcastBy(n, msg)[m], c) => NoneOf(udp[m], c)
           /\ \A s \in Node, buffers \in [Node -> Seq(Datagram)] :
                 NoneOf(SentTo(buffers, s, msg)[m], c) => NoneOf(buffers[m], c)
<1>1. \A q \in Seq(Datagram) : NoneOf(Append(q, msg), c) => NoneOf(q, c)
  BY NonePrefix
<1> QED BY <1>1 DEF BroadcastBy, SentTo

\* requestFiles begins to wait when it sends its request, only then.
LEMMA WaitBegins ==
    ASSUME LockInv, [Next]_vars, faults' = faults, NEW c \in Node, NEW u \in Thread, Waits(c, u)'
    PROVE  Waits(c, u) \/ RequestFile(c, u)
<1>1. /\ TypeOK /\ Places /\ LockHeld /\ pc \in [Node -> [Thread -> Place]]
      /\ reply \in [Node -> {Nothing} \cup Reply]
  BY DEF LockInv, TypeOK
<1>2. pc'[c][u] = "negotiate" /\ reply'[c] = Nothing
  BY DEF Waits
\* One thread moves, to another place, and the replies stay.
<1>3. ASSUME NEW n \in Node, NEW t \in Thread, NEW v, v # "negotiate", reply' = reply,
             pc' = pc \/ pc' = [pc EXCEPT ![n][t] = v]
      PROVE  Waits(c, u)
  <2>1. pc[c][u] = "negotiate"
    BY <1>1, <1>2, <1>3
  <2> QED BY <1>2, <1>3, <2>1 DEF Waits
<1>4. \A list : Begun(list) # "negotiate"
  BY DEF Begun
<1>5. \A n, t : NextEntry(n, t) # "negotiate"
  BY DEF NextEntry
<1>6. ASSUME NEW n \in Node, StartUp(n) PROVE Waits(c, u)
  <2>1. reply' = reply /\ \E v \in {"announce", "idle"} : pc' = [pc EXCEPT ![n]["discoverer"] = v]
    BY <1>6 DEF StartUp, Start, Announce, tcpVars
  <2> QED BY <1>3, <2>1, Threads
<1>7. ASSUME NEW n \in Node, StartWatching(n) \/ Scan(n) \/ PublishChanges(n) \/ UserStep(n)
      PROVE  Waits(c, u)
  <2>1. UNCHANGED <<pc, reply>>
    BY <1>7 DEF StartWatching, Scan, PublishChanges, UserStep, UserWrites, UserDeletes, callVars, tcpVars
  <2> QED BY <1>2, <2>1 DEF Waits
<1>8. ASSUME NEW n \in Node, DiscovererStep(n) PROVE Waits(c, u)
  <2>1. reply' = reply /\ (pc' = pc \/ pc' = [pc EXCEPT ![n]["discoverer"] = "compare"])
    BY <1>8 DEF DiscovererStep, CollectForHandler, CollectArrival, Considers, callVars, tcpVars
  <2> QED BY <1>3, <1>4, <2>1, Threads
<1>9. ASSUME NEW n \in Node, HandlerStep(n) PROVE Waits(c, u)
  <2>1. CASE HandleResponse(n) \/ OpenAndListen(n) \/ EndService(n)
    <3>1. reply' = reply /\ (pc' = pc \/ \E v \in {"accept", "idle"} : pc' = [pc EXCEPT ![n]["handler"] = v])
      BY <2>1 DEF HandleResponse, OpenAndListen, EndService, callVars, tcpVars
    <3> QED BY <1>3, <3>1, Threads
  <2>2. CASE HandleDirChanges(n)
    <3>1. reply' = reply /\ \E list : pc' = [pc EXCEPT ![n]["handler"] = Begun(list)]
      BY <2>2 DEF HandleDirChanges, tcpVars
    <3> QED BY <1>3, <1>4, <3>1, Threads
  <2>3. CASE HandleFileRequest(n)
    <3>1. /\ pc' = pc \/ pc' = [pc EXCEPT ![n]["handler"] = "open"]
          /\ \/ reply' = reply
             \/ \E k, v : reply[k] = Nothing /\ reply' = [reply EXCEPT ![k] = v]
      BY <2>3 DEF HandleFileRequest
    <3>2. pc[c][u] = "negotiate"
      BY <1>1, <1>2, <3>1
    <3>3. reply[c] = Nothing
      BY <1>1, <1>2, <3>1
    <3> QED BY <3>2, <3>3 DEF Waits
  <2> QED BY <1>9, <2>1, <2>2, <2>3 DEF HandlerStep
<1>10. ASSUME NEW n \in Node, TakeTable(n) PROVE Waits(c, u)
  <2>1. reply' = reply /\ pc' = [pc EXCEPT ![n]["tableManager"] = "compare"]
    BY <1>10 DEF TakeTable, Considers, tcpVars
  <2> QED BY <1>3, <1>4, <2>1, Threads
<1>11. ASSUME NEW n \in Node, NEW t \in Thread, RequestStep(n, t), ~RequestFile(c, u)
       PROVE  Waits(c, u)
  <2>1. CASE SkipChange(n, t) \/ ApplyDeletion(n, t)
    <3>1. reply' = reply /\ pc' = [pc EXCEPT ![n][t] = NextEntry(n, t)]
      BY <2>1 DEF SkipChange, ApplyDeletion, Advance, tcpVars
    <3> QED BY <1>3, <1>5, <3>1
  <2>2. CASE RequestFile(n, t)
    <3>1. ~(n = c /\ t = u) /\ reply' = reply /\ \E v : pc' = [pc EXCEPT ![n][t] = v]
      BY <1>1, <1>11, <2>2, RequestTakesLock DEF tcpVars
    <3>2. pc[c][u] = "negotiate"
      BY <1>1, <1>2, <3>1
    <3> QED BY <1>2, <3>1, <3>2 DEF Waits
  <2>3. CASE Abandoned(n, t) \/ OpenForWriting(n, t)
    <3>1. /\ pc[n][t] = "negotiate" /\ reply' = [reply EXCEPT ![n] = Nothing]
          /\ \E v \in {"connect", NextEntry(n, t)} : pc' = [pc EXCEPT ![n][t] = v]
      BY <2>3 DEF Abandoned, OpenForWriting, Advance
    <3>2. pc[c][u] = "negotiate" /\ ~(n = c /\ t = u)
      BY <1>1, <1>2, <1>5, <3>1
    <3>3. n # c
      BY <1>1, <3>1, <3>2, OneNegotiates, Threads
    <3>4. reply[c] = Nothing
      BY <1>1, <1>2, <3>1, <3>3
    <3> QED BY <3>2, <3>4 DEF Waits
  <2>4. CASE Connect(n, t) \/ Transfer(n, t)
    <3>1. reply' = reply
      BY <2>4 DEF Connect, Transfer, tcpVars
    <3>2. pc[c][u] = "negotiate"
      <4>1. CASE Connect(n, t)
        <5>1. PICK s : pc' = [[pc EXCEPT ![n][t] = "receive"] EXCEPT ![s]["handler"] = "send"]
          BY <4>1 DEF Connect
        <5>2. ~(n = c /\ t = u)
          <6>1. pc'[n][t] \in {"receive", "send"}
            BY <1>1, <5>1
          <6> QED BY <1>2, <6>1
        <5>3. [[pc EXCEPT ![n][t] = "receive"] EXCEPT ![s]["handler"] = "send"][c][u] \in {pc[c][u], "send"}
          BY <1>1, <5>2, TwoMove
        <5> QED BY <1>2, <5>1, <5>3
      <4>2. CASE Transfer(n, t)
        <5>1. PICK s : pc' = [[pc EXCEPT ![s]["handler"] = "sent"] EXCEPT ![n][t] = NextEntry(n, t)]
          BY <4>2 DEF Transfer, Advance
        <5>2. ~(n = c /\ t = u)
          <6>1. pc'[n][t] = NextEntry(n, t)
            BY <1>1, <5>1
          <6> QED BY <1>2, <1>5, <6>1
        <5>3. [[pc EXCEPT ![s]["handler"] = "sent"] EXCEPT ![n][t] = NextEntry(n, t)][c][u] \in {pc[c][u], "sent"}
          BY <1>1, <5>2, TwoMove
        <5> QED BY <1>2, <5>1, <5>3
      <4> QED BY <2>4, <4>1, <4>2
    <3> QED BY <1>2, <3>1, <3>2 DEF Waits
  <2>5. CASE CompareTables(n, t) \/ LosesEnd(n, t)
    <3>1. /\ reply' = reply
          /\ \E v : v # "negotiate" /\ pc' = [pc EXCEPT ![n][t] = v]
      BY <1>4, <2>5 DEF CompareTables, LosesEnd, tcpVars
    <3> QED BY <1>3, <3>1
  <2> QED BY <1>11, <2>1, <2>2, <2>3, <2>4, <2>5 DEF RequestStep
<1>12. ASSUME NEW n \in Node, FaultStep(n) PROVE FALSE
  <2>1. faults' = faults + 1 /\ faults \in Nat
    BY <1>1, <1>12 DEF FaultStep, LoseDatagram, LoseReply, ConnectTooEarly, TypeOK
  <2> QED BY <2>1
<1>13. CASE UNCHANGED vars
  BY <1>2, <1>13 DEF vars, callVars, tcpVars, Waits
<1> QED BY <1>6, <1>7, <1>8, <1>9, <1>10, <1>11, <1>12, <1>13 DEF Next

\* A request stays in a queue of the server until the answer comes.
LEMMA FlightKept ==
    ASSUME LockInv, [Next]_vars, faults' = faults, NEW c \in Node, NEW u \in Thread,
           Waits(c, u), Waits(c, u)', NEW m \in Node, InFlight(m, c)
    PROVE  ~NoneOf(udp'[m], c) \/ ~NoneOf(todoUdp'[m], c)
<1> DEFINE Goal == ~NoneOf(udp'[m], c) \/ ~NoneOf(todoUdp'[m], c)
<1>1. /\ TypeOK /\ Places /\ pc[c][u] = "negotiate" /\ reply[c] = Nothing /\ reply'[c] = Nothing
      /\ udp \in [Node -> Seq(Datagram)] /\ todoUdp \in [Node -> Seq(Datagram)]
      /\ reply \in [Node -> {Nothing} \cup Reply]
  BY DEF LockInv, TypeOK, Waits
<1>2. ASSUME NoneOf(udp'[m], c) => NoneOf(udp[m], c), todoUdp' = todoUdp PROVE Goal
  BY <1>2 DEF InFlight
<1>3. ASSUME UNCHANGED <<udp, todoUdp>> PROVE Goal
  BY <1>2, <1>3
\* The handler takes a datagram that is no request of c.
<1>4. ASSUME NEW n \in Node, todoUdp[n] # << >>, ~Asks(Head(todoUdp[n]), c),
             udp' = udp, todoUdp' = [todoUdp EXCEPT ![n] = Tail(@)]
      PROVE  Goal
  <2>1. todoUdp'[m] = todoUdp[m] \/ (m = n /\ todoUdp'[m] = Tail(todoUdp[m]))
    BY <1>1, <1>4
  <2>2. todoUdp[m] \in Seq(Datagram)
    BY <1>1
  <2>3. NoneOf(todoUdp'[m], c) => NoneOf(todoUdp[m], c)
    BY <1>4, <2>1, <2>2, NoneFirst
  <2> QED BY <1>4, <2>3 DEF InFlight
<1>5. ASSUME NEW n \in Node, StartUp(n) PROVE Goal
  <2>1. CASE Start(n)
    BY <1>3, <2>1 DEF Start, queueVars
  <2>2. CASE Announce(n)
    <3>1. Arrival(n, fileHashes[n]) \in Datagram
      BY <1>1, MessageTypes DEF TypeOK
    <3>2. udp' = BroadcastBy(n, Arrival(n, fileHashes[n])) /\ todoUdp' = todoUdp
      BY <2>2 DEF Announce
    <3>3. NoneOf(udp'[m], c) => NoneOf(udp[m], c)
      BY <1>1, <3>1, <3>2, SendKeeps
    <3> QED BY <1>2, <3>2, <3>3
  <2> QED BY <1>5, <2>1, <2>2 DEF StartUp
<1>6. ASSUME NEW n \in Node, StartWatching(n) \/ Scan(n) \/ UserStep(n) \/ TakeTable(n) PROVE Goal
  BY <1>3, <1>6 DEF StartWatching, Scan, UserStep, UserWrites, UserDeletes, TakeTable, queueVars
<1>7. ASSUME NEW n \in Node, PublishChanges(n) PROVE Goal
  <2>1. DirChanges(n, changeBuf[n]) \in Datagram
    BY <1>1, MessageTypes DEF TypeOK
  <2>2. udp' = BroadcastBy(n, DirChanges(n, changeBuf[n])) /\ todoUdp' = todoUdp
    BY <1>7 DEF PublishChanges
  <2>3. NoneOf(udp'[m], c) => NoneOf(udp[m], c)
    BY <1>1, <2>1, <2>2, SendKeeps
  <2> QED BY <1>2, <2>2, <2>3
<1>8. ASSUME NEW n \in Node, CollectForHandler(n) PROVE Goal
  <2> DEFINE msg == Head(udp[n])
  <2>1. /\ udp[n] # << >> /\ udp' = [udp EXCEPT ![n] = Tail(udp[n])]
        /\ todoUdp' = [todoUdp EXCEPT ![n] = Append(todoUdp[n], msg)]
    BY <1>8 DEF CollectForHandler
  <2>2. udp[n] \in Seq(Datagram) /\ todoUdp[n] \in Seq(Datagram) /\ msg \in Datagram
    BY <1>1, <2>1
  <2>3. CASE m # n
    <3>1. udp'[m] = udp[m] /\ todoUdp'[m] = todoUdp[m]
      BY <1>1, <2>1, <2>3
    <3> QED BY <3>1 DEF InFlight
  <2>4. CASE m = n
    <3>1. udp'[m] = Tail(udp[n]) /\ todoUdp'[m] = Append(todoUdp[n], msg)
      BY <1>1, <2>1, <2>4
    <3>2. NoneOf(udp[n], c) <=> NoneOf(Tail(udp[n]), c) /\ ~Asks(msg, c)
      BY <2>1, <2>2, NoneFirst
    <3> HIDE DEF msg
    <3>3. NoneOf(Append(todoUdp[n], msg), c) <=> NoneOf(todoUdp[n], c) /\ ~Asks(msg, c)
      BY <2>2, NonePrefix
    <3> QED BY <2>4, <3>1, <3>2, <3>3 DEF InFlight
  <2> QED BY <2>3, <2>4
<1>9. ASSUME NEW n \in Node, CollectArrival(n) PROVE Goal
  <2> DEFINE msg      == Head(udp[n])
             buffers  == [udp EXCEPT ![n] = Tail(@)]
             response == Response(n, fileHashes[n])
  <2>1. /\ todoUdp' = todoUdp /\ udp[n] # << >> /\ msg.pid = 0
        /\ udp' = SentTo(buffers, msg.from, response)
    BY <1>9 DEF CollectArrival
  <2>2. udp[n] \in Seq(Datagram) /\ msg \in Datagram /\ response \in Datagram
    BY <1>1, <2>1, MessageTypes DEF TypeOK
  <2>3. msg.from \in Node /\ ~Asks(msg, c)
    BY <2>1, <2>2, DatagramFields DEF Asks
  <2>4. buffers \in [Node -> Seq(Datagram)] /\ (buffers[m] = udp[m] \/ (m = n /\ buffers[m] = Tail(udp[n])))
    BY <1>1, <2>1, <2>2
  <2>5. NoneOf(buffers[m], c) => NoneOf(udp[m], c)
    BY <2>1, <2>2, <2>3, <2>4, NoneFirst
  <2> HIDE DEF msg, buffers, response
  <2>6. NoneOf(udp'[m], c) => NoneOf(buffers[m], c)
    BY <1>1, <2>1, <2>2, <2>3, <2>4, SendKeeps
  <2> QED BY <1>2, <2>1, <2>5, <2>6
<1>10. ASSUME NEW n \in Node, HandlerStep(n) PROVE Goal
  <2>1. CASE HandleResponse(n) \/ HandleDirChanges(n)
    <3>1. /\ todoUdp[n] # << >> /\ Head(todoUdp[n]).pid # 5 /\ udp' = udp
          /\ todoUdp' = [todoUdp EXCEPT ![n] = Tail(@)]
      BY <2>1 DEF HandleResponse, HandleDirChanges, Pops
    <3> QED BY <1>4, <3>1 DEF Asks
  <2>2. CASE OpenAndListen(n) \/ EndService(n)
    BY <1>3, <2>2 DEF OpenAndListen, EndService, queueVars
  <2>3. CASE HandleFileRequest(n)
    <3> DEFINE client  == Head(todoUdp[n]).from
               path    == Head(todoUdp[n]).change.path
               details == [from |-> n, abandon |-> disk[n][path] = NoFile, path |-> path]
    <3>1. /\ todoUdp[n] # << >> /\ udp' = udp /\ Head(todoUdp[n]).pid = 5
          /\ todoUdp' = [todoUdp EXCEPT ![n] = Tail(@)]
          /\ (\E t \in Thread : pc[client][t] = "negotiate") /\ reply[client] = Nothing
                => reply' = [reply EXCEPT ![client] = details]
      BY <2>3 DEF HandleFileRequest, Pops
    <3>2. details \in Reply
      <4>1. Head(todoUdp[n]) \in Datagram
        BY <1>1, <3>1
      <4>2. Head(todoUdp[n]).change \in Change
        BY <3>1, <4>1, DatagramFields
      <4> QED BY <4>2 DEF Reply, Change
    <3> HIDE DEF details
    <3>3. client # c
      <4> SUFFICES ASSUME client = c PROVE FALSE
        OBVIOUS
      <4>1. reply' = [reply EXCEPT ![c] = details]
        BY <1>1, <3>1
      <4> QED BY <1>1, <3>2, <4>1, NothingAssumption
    <3> QED BY <1>4, <3>1, <3>3 DEF Asks
  <2> QED BY <1>10, <2>1, <2>2, <2>3 DEF HandlerStep
<1>11. ASSUME NEW n \in Node, NEW t \in Thread, RequestStep(n, t) PROVE Goal
  <2>1. CASE RequestFile(n, t)
    <3> DEFINE s   == job[n][t].from
               msg == FileRequest(n, Entry(n, t))
    <3>1. pc[n][t] = "request" /\ udp' = SentTo(udp, s, msg) /\ todoUdp' = todoUdp
      BY <2>1 DEF RequestFile, LocksFor
    <3>2. s \in Node /\ msg \in Datagram
      BY <1>1, <3>1, EntryType, MessageTypes
    <3> HIDE DEF s, msg
    <3>3. NoneOf(udp'[m], c) => NoneOf(udp[m], c)
      BY <1>1, <3>1, <3>2, SendKeeps
    <3> QED BY <1>2, <3>1, <3>3
  <2>2. CASE ~RequestFile(n, t)
    BY <1>3, <1>11, <2>2 DEF RequestStep, SkipChange, ApplyDeletion, Abandoned, OpenForWriting,
       Connect, CompareTables, Transfer, LosesEnd, queueVars
  <2> QED BY <2>1, <2>2
<1>12. ASSUME NEW n \in Node, FaultStep(n) PROVE FALSE
  <2>1. faults' = faults + 1 /\ faults \in Nat
    BY <1>1, <1>12 DEF FaultStep, LoseDatagram, LoseReply, ConnectTooEarly, TypeOK
  <2> QED BY <2>1
<1>13. CASE UNCHANGED vars
  <2>1. UNCHANGED <<udp, todoUdp>>
    BY <1>13 DEF vars, queueVars
  <2> QED BY <1>3, <2>1
<1> QED BY <1>5, <1>6, <1>7, <1>8, <1>9, <1>10, <1>11, <1>12, <1>13 DEF Next, DiscovererStep

\* Only a connection that comes too early, or a file that is cut while it is
\* sent, leaves a thread stuck.
LEMMA StuckBegins ==
    ASSUME LockInv, [Next]_vars, faults' = faults, NEW c \in Node, NEW u \in Thread,
           pc'[c][u] = "stuck"
    PROVE  pc[c][u] = "stuck" \/ LosesEnd(c, u)
<1> DEFINE Goal == pc[c][u] = "stuck" \/ LosesEnd(c, u)
<1>1. TypeOK /\ pc \in [Node -> [Thread -> Place]]
  BY DEF LockInv, TypeOK
<1>2. ASSUME NEW n \in Node, NEW t \in Thread, NEW v, v # "stuck",
             pc' = pc \/ pc' = [pc EXCEPT ![n][t] = v]
      PROVE  Goal
  BY <1>1, <1>2
<1>3. /\ \A list : Begun(list) # "stuck"
      /\ \A n, t : NextEntry(n, t) # "stuck"
  BY DEF Begun, NextEntry
<1>4. pc' = pc => Goal
  OBVIOUS
<1>5. ASSUME NEW n \in Node, StartUp(n) PROVE Goal
  <2>1. \E v \in {"announce", "idle"} : pc' = [pc EXCEPT ![n]["discoverer"] = v]
    BY <1>5 DEF StartUp, Start, Announce
  <2> QED BY <1>2, <2>1, Threads
<1>6. ASSUME NEW n \in Node, StartWatching(n) \/ Scan(n) \/ PublishChanges(n) \/ UserStep(n)
      PROVE  Goal
  BY <1>4, <1>6 DEF StartWatching, Scan, PublishChanges, UserStep, UserWrites, UserDeletes, callVars
<1>7. ASSUME NEW n \in Node, DiscovererStep(n) PROVE Goal
  <2>1. pc' = pc \/ pc' = [pc EXCEPT ![n]["discoverer"] = "compare"]
    BY <1>7 DEF DiscovererStep, CollectForHandler, CollectArrival, Considers, callVars
  <2> QED BY <1>2, <1>3, <1>4, <2>1, Threads
<1>8. ASSUME NEW n \in Node, HandlerStep(n) PROVE Goal
  <2>1. \/ pc' = pc
        \/ \E v \in {"open", "accept", "idle"} : pc' = [pc EXCEPT ![n]["handler"] = v]
        \/ \E list : pc' = [pc EXCEPT ![n]["handler"] = Begun(list)]
    BY <1>8 DEF HandlerStep, HandleResponse, HandleFileRequest, OpenAndListen, EndService,
       HandleDirChanges, callVars
  <2> QED BY <1>2, <1>3, <1>4, <2>1, Threads
<1>9. ASSUME NEW n \in Node, TakeTable(n) PROVE Goal
  <2>1. pc' = [pc EXCEPT ![n]["tableManager"] = "compare"]
    BY <1>9 DEF TakeTable, Considers
  <2> QED BY <1>2, <1>3, <2>1, Threads
<1>10. ASSUME NEW n \in Node, NEW t \in Thread, RequestStep(n, t) PROVE Goal
  <2>1. CASE Connect(n, t)
    <3>1. PICK s : pc' = [[pc EXCEPT ![n][t] = "receive"] EXCEPT ![s]["handler"] = "send"]
      BY <2>1 DEF Connect
    <3>2. ~(c = n /\ u = t)
      <4>1. pc'[n][t] \in {"receive", "send"}
        BY <1>1, <3>1
      <4> QED BY <4>1
    <3>3. [[pc EXCEPT ![n][t] = "receive"] EXCEPT ![s]["handler"] = "send"][c][u] \in {pc[c][u], "send"}
      BY <1>1, <3>2, TwoMove
    <3> QED BY <3>1, <3>3
  <2>2. CASE Transfer(n, t)
    <3>1. PICK s : pc' = [[pc EXCEPT ![s]["handler"] = "sent"] EXCEPT ![n][t] = NextEntry(n, t)]
      BY <2>2 DEF Transfer, Advance
    <3>2. ~(c = n /\ u = t)
      <4>1. pc'[n][t] = NextEntry(n, t)
        BY <1>1, <3>1
      <4> QED BY <1>3, <4>1
    <3>3. [[pc EXCEPT ![s]["handler"] = "sent"] EXCEPT ![n][t] = NextEntry(n, t)][c][u] \in {pc[c][u], "sent"}
      BY <1>1, <3>2, TwoMove
    <3> QED BY <3>1, <3>3
  <2>3. CASE CompareTables(n, t)
    <3>1. \E list : pc' = [pc EXCEPT ![n][t] = Begun(list)]
      BY <2>3 DEF CompareTables
    <3> QED BY <1>2, <1>3, <3>1
  <2>4. CASE LosesEnd(n, t)
    <3>1. pc' = [pc EXCEPT ![n][t] = "stuck"]
      BY <2>4 DEF LosesEnd
    <3>2. CASE n = c /\ t = u
      BY <2>4, <3>2
    <3>3. CASE ~(n = c /\ t = u)
      BY <1>1, <3>1, <3>3
    <3> QED BY <3>2, <3>3
  <2>5. CASE ~Connect(n, t) /\ ~Transfer(n, t) /\ ~CompareTables(n, t) /\ ~LosesEnd(n, t)
    <3>1. \E v \in {"negotiate", "connect", NextEntry(n, t)} : pc' = [pc EXCEPT ![n][t] = v]
      BY <1>10, <2>5 DEF RequestStep, SkipChange, ApplyDeletion, RequestFile, Abandoned,
         OpenForWriting, Advance
    <3> QED BY <1>2, <1>3, <3>1
  <2> QED BY <2>1, <2>2, <2>3, <2>4, <2>5
<1>11. ASSUME NEW n \in Node, FaultStep(n) PROVE FALSE
  <2>1. faults' = faults + 1 /\ faults \in Nat
    BY <1>1, <1>11 DEF FaultStep, LoseDatagram, LoseReply, ConnectTooEarly, TypeOK
  <2> QED BY <2>1
<1>12. CASE UNCHANGED vars
  BY <1>4, <1>12 DEF vars, callVars
<1> QED BY <1>5, <1>6, <1>7, <1>8, <1>9, <1>10, <1>11, <1>12 DEF Next

\* Only the end of a transfer takes a server from sending, and what it sends
\* stays changed.
LEMMA SendGoesOn ==
    ASSUME LockInv, [Next]_vars, NEW m \in Node, pc[m]["handler"] = "send"
    PROVE  \/ /\ pc'[m]["handler"] = "send"
              /\ serving'[m].client = serving[m].client
              /\ serving[m].file = "changed" => serving'[m].file = "changed"
           \/ \E n \in Node, t \in Thread : Transfer(n, t) /\ incoming[n].from = m
<1> DEFINE Keeps == /\ serving'[m].client = serving[m].client
                    /\ serving[m].file = "changed" => serving'[m].file = "changed"
           Goal  == \/ pc'[m]["handler"] = "send" /\ Keeps
                    \/ \E n \in Node, t \in Thread : Transfer(n, t) /\ incoming[n].from = m
<1>1. /\ TypeOK /\ Places /\ Unstarted /\ pc \in [Node -> [Thread -> Place]]
      /\ serving \in [Node -> {Nothing} \cup Service] /\ serving[m] \in Service
  BY Threads DEF LockInv, TypeOK, Places, InCase5
\* Another thread moves.
<1>2. ASSUME Keeps, NEW n \in Node, NEW t \in Thread, NEW v, pc[n][t] # "send",
             pc' = pc \/ pc' = [pc EXCEPT ![n][t] = v]
      PROVE  Goal
  <2>1. pc'[m]["handler"] = "send"
    BY <1>1, <1>2, Threads
  <2> QED BY <1>2, <2>1
<1>3. serving' = serving => Keeps
  OBVIOUS
<1>4. ASSUME NEW n \in Node, n # m, NEW v, serving' = [serving EXCEPT ![n] = v] PROVE Keeps
  BY <1>1, <1>4
<1>5. ASSUME NEW n \in Node, NEW p, serving' = WrittenTo(n, p) PROVE Keeps
  <2>1. SameService
    BY <1>1, <1>5, WrittenToService, ServiceKept
  <2>2. serving' = serving \/ serving' = [serving EXCEPT ![n].file = "changed"]
    BY <1>5 DEF WrittenTo
  <2>3. serving'[m] = serving[m] \/ serving'[m] = [serving[m] EXCEPT !.file = "changed"]
    BY <1>1, <2>2
  <2> QED BY <1>1, <2>1, <2>3 DEF SameService, Service
<1>6. ASSUME NEW n \in Node, UserStep(n) PROVE Goal
  <2>1. pc' = pc /\ (serving' = serving \/ \E p : serving' = WrittenTo(n, p))
    BY <1>6 DEF UserStep, UserWrites, UserDeletes, callVars, tcpVars
  <2> QED BY <1>3, <1>5, <2>1
<1>7. ASSUME NEW n \in Node, \/ StartUp(n) \/ StartWatching(n) \/ Scan(n) \/ PublishChanges(n)
                            \/ DiscovererStep(n) \/ TakeTable(n)
      PROVE  Goal
  <2>1. /\ serving' = serving
        /\ \/ pc' = pc
           \/ \E v : /\ pc[n]["discoverer"] # "send"
                     /\ pc' = [pc EXCEPT ![n]["discoverer"] = v]
           \/ \E v : /\ pc[n]["tableManager"] # "send"
                     /\ pc' = [pc EXCEPT ![n]["tableManager"] = v]
    BY <1>1, <1>7, Threads DEF StartUp, Start, Announce, Unstarted, StartWatching, Scan,
       PublishChanges, DiscovererStep, CollectForHandler, CollectArrival, TakeTable, Considers,
       callVars, tcpVars
  <2> QED BY <1>2, <1>3, <2>1, Threads
<1>8. ASSUME NEW n \in Node, HandlerStep(n) PROVE Goal
  <2>1. pc[n]["handler"] # "send" /\ n # m
    BY <1>8 DEF HandlerStep, HandleResponse, HandleFileRequest, OpenAndListen, EndService,
       HandleDirChanges, Pops
  <2>2. serving' = serving \/ \E v : serving' = [serving EXCEPT ![n] = v]
    <3>1. CASE OpenAndListen(n)
      <4>1. PICK f : serving' = [serving EXCEPT ![n].file = f]
        BY <3>1 DEF OpenAndListen
      <4>2. serving' = [serving EXCEPT ![n] = [serving[n] EXCEPT !.file = f]]
        BY <4>1
      <4> QED BY <4>2
    <3>2. CASE ~OpenAndListen(n)
      BY <1>8, <3>2 DEF HandlerStep, HandleResponse, HandleFileRequest, EndService,
         HandleDirChanges, tcpVars
    <3> QED BY <3>1, <3>2
  <2>3. pc' = pc \/ \E v : pc' = [pc EXCEPT ![n]["handler"] = v]
    BY <1>8 DEF HandlerStep, HandleResponse, HandleFileRequest, OpenAndListen, EndService,
       HandleDirChanges, callVars
  <2>4. Keeps
    BY <1>3, <1>4, <2>1, <2>2
  <2> HIDE DEF Keeps
  <2> QED BY <1>2, <2>1, <2>3, <2>4, Threads
<1>9. ASSUME NEW n \in Node, NEW t \in Thread, RequestStep(n, t) PROVE Goal
  <2>1. CASE Connect(n, t)
    <3> DEFINE s == incoming[n].from
    <3>1. /\ pc[n][t] = "connect" /\ pc[s]["handler"] = "accept" /\ serving' = Measured(s)
          /\ pc' = [[pc EXCEPT ![n][t] = "receive"] EXCEPT ![s]["handler"] = "send"]
      BY <2>1 DEF Connect
    <3>2. s # m /\ ~(n = m /\ t = "handler")
      BY <3>1
    <3> HIDE DEF s
    <3>3. serving'[m] = serving[m]
      <4>1. serving' = serving \/ serving' = [serving EXCEPT ![s].file = "growing"]
        BY <3>1 DEF Measured
      <4> QED BY <1>1, <3>2, <4>1
    <3>4. pc'[m]["handler"] = "send"
      <4>1. [[pc EXCEPT ![n][t] = "receive"] EXCEPT ![s]["handler"] = "send"][m]["handler"]
               \in {pc[m]["handler"], "send"}
        BY <1>1, <3>2, TwoMove, Threads
      <4> QED BY <3>1, <4>1
    <3> QED BY <3>3, <3>4
  <2>2. CASE Transfer(n, t)
    <3> DEFINE s == incoming[n].from
    <3>1. /\ pc[n][t] = "receive" /\ serving' = serving
          /\ pc' = [[pc EXCEPT ![s]["handler"] = "sent"] EXCEPT ![n][t] = NextEntry(n, t)]
      BY <2>2 DEF Transfer, Advance
    <3>2. CASE s = m
      BY <2>2, <3>2
    <3>3. CASE s # m
      <4> HIDE DEF s
      <4>1. ~(n = m /\ t = "handler")
        BY <3>1
      <4>2. pc'[m]["handler"] = "send"
        BY <1>1, <3>1, <3>3, <4>1, Threads
      <4> QED BY <3>1, <4>2
    <3> QED BY <3>2, <3>3
  <2>3. CASE ~Connect(n, t) /\ ~Transfer(n, t)
    <3>1. /\ pc[n][t] # "send" /\ \E v : pc' = [pc EXCEPT ![n][t] = v]
          /\ serving' = serving \/ \E p : serving' = WrittenTo(n, p)
      <4>1. CASE RequestFile(n, t)
        BY <4>1, RequestTakesLock DEF LockInv, tcpVars
      <4>2. CASE ~RequestFile(n, t)
        BY <1>9, <2>3, <4>2 DEF RequestStep, SkipChange, ApplyDeletion, LocksFor, Abandoned,
           OpenForWriting, CompareTables, LosesEnd, Advance, tcpVars
      <4> QED BY <4>1, <4>2
    <3>2. Keeps
      BY <1>3, <1>5, <3>1
    <3> HIDE DEF Keeps
    <3> QED BY <1>2, <3>1, <3>2
  <2> QED BY <2>1, <2>2, <2>3
<1>10. ASSUME NEW n \in Node, FaultStep(n) PROVE Goal
  <2>1. CASE LoseDatagram(n) \/ LoseReply(n)
    BY <2>1 DEF LoseDatagram, LoseReply, callVars, tcpVars
  <2>2. ASSUME NEW t \in Thread, ConnectTooEarly(n, t) PROVE Goal
    BY <1>2, <1>3, <2>2 DEF ConnectTooEarly, tcpVars
  <2> QED BY <1>10, <2>1, <2>2 DEF FaultStep
<1>11. CASE UNCHANGED vars
  BY <1>11 DEF vars, callVars, tcpVars
<1> QED BY <1>6, <1>7, <1>8, <1>9, <1>10, <1>11 DEF Next

\* A client that does not end its transfer leaves its server as it is.
LEMMA CutKept ==
    ASSUME LockInv, [Next]_vars, NEW c \in Node, \A t \in Thread : pc[c][t] # "receive",
           NEW m \in Node, FileCut(m), serving[m].client = c
    PROVE  FileCut(m)' /\ serving'[m].client = c
<1>1. ASSUME NEW n \in Node, NEW t \in Thread, Transfer(n, t), incoming[n].from = m PROVE FALSE
  <2>1. pc[n][t] = "receive"
    BY <1>1 DEF Transfer
  <2>2. serving[m].client = n
    BY <1>1, <2>1 DEF LockInv, Claims, ServerOf, Serves
  <2> QED BY <2>1, <2>2
<1> QED BY <1>1, SendGoesOn DEF FileCut

LEMMA AwaitStep == LockInv /\ PeerInv /\ AwaitInv /\ [Next]_vars => AwaitInv'
<1> SUFFICES ASSUME LockInv, PeerInv, AwaitInv, [Next]_vars, faults' = 0, NEW c \in Node, NEW u \in Thread
             PROVE  AwaitedBy(c, u)' /\ (pc'[c][u] = "stuck" => CutFor(c)')
  BY DEF AwaitInv
<1>1. /\ TypeOK /\ Places /\ Unstarted /\ faults \in Nat /\ pc \in [Node -> [Thread -> Place]]
      /\ udp \in [Node -> Seq(Datagram)]
  BY DEF LockInv, TypeOK
<1>2. faults = 0 /\ \A n \in Node : ~FaultStep(n)
  <2>1. faults' = faults \/ \E n \in Node : FaultStep(n)
    <3> DEFINE Same == faults' = faults
    <3>1. ASSUME NEW n \in Node, \/ StartUp(n) \/ StartWatching(n) \/ Scan(n) \/ PublishChanges(n)
                                \/ DiscovererStep(n) \/ HandlerStep(n) \/ TakeTable(n)
          PROVE  Same
      BY <3>1 DEF StartUp, Start, Announce, StartWatching, Scan, PublishChanges, DiscovererStep,
         CollectForHandler, CollectArrival, HandlerStep, HandleResponse, HandleFileRequest,
         OpenAndListen, EndService, HandleDirChanges, TakeTable, budget
    <3>2. ASSUME NEW n \in Node, NEW t \in Thread, RequestStep(n, t) PROVE Same
      BY <3>2 DEF RequestStep, SkipChange, ApplyDeletion, RequestFile, Abandoned, OpenForWriting,
         Connect, CompareTables, Transfer, LosesEnd, budget
    <3>3. ASSUME NEW n \in Node, UserStep(n) PROVE Same
      BY <3>3 DEF UserStep, UserWrites, UserDeletes
    <3>4. UNCHANGED vars => Same
      BY DEF vars, budget
    <3> QED BY <3>1, <3>2, <3>3, <3>4 DEF Next
  <2>2. \A n \in Node : FaultStep(n) => faults' = faults + 1
    BY DEF FaultStep, LoseDatagram, LoseReply, ConnectTooEarly
  <2> QED BY <1>1, <2>1, <2>2
<1>3. AwaitedBy(c, u) /\ (pc[c][u] = "stuck" => CutFor(c))
  BY <1>2 DEF AwaitInv
<1>5. ASSUME Waits(c, u)' PROVE InFlight(job[c][u].from, c)'
  <2>1. CASE RequestFile(c, u)
    <3> DEFINE msg == FileRequest(c, Entry(c, u))
    <3>1. /\ pc[c][u] = "request" /\ job' = job
          /\ udp' = SentTo(udp, job[c][u].from, msg)
      BY <2>1, RequestTakesLock DEF LockInv
    <3>2. PICK s \in Node : s = job[c][u].from
      BY <1>1, <3>1, EntryType
    <3>3. s \in running
      BY <3>1, <3>2 DEF PeerInv, PeersOf, Peers, Asking
    <3>4. msg \in Datagram /\ Asks(msg, c)
      BY <1>1, <3>1, EntryType, MessageTypes DEF Asks, FileRequest
    <3> HIDE DEF msg
    <3>5. udp'[s] = Append(udp[s], msg)
      BY <1>1, <3>1, <3>2, <3>3 DEF SentTo
    <3>6. ~NoneOf(udp'[s], c)
      BY <1>1, <3>4, <3>5, NonePrefix
    <3>7. job'[c][u].from = s
      BY <3>1, <3>2
    <3> QED BY <3>6, <3>7 DEF InFlight
  <2>2. CASE Waits(c, u)
    <3>1. PICK s \in Node : s = job[c][u].from
      BY <1>1, <2>2, EntryType, Threads DEF Waits
    <3>2. InFlight(s, c)
      BY <1>3, <2>2, <3>1 DEF AwaitedBy
    <3>3. ~NoneOf(udp'[s], c) \/ ~NoneOf(todoUdp'[s], c)
      BY <1>2, <1>5, <2>2, <3>2, FlightKept
    <3>4. job'[c][u].from = s
      BY <2>2, <3>1, HeldStep DEF Held
    <3> QED BY <3>3, <3>4 DEF InFlight
  <2> QED BY <1>2, <1>5, <2>1, <2>2, WaitBegins
<1>6. AwaitedBy(c, u)'
  BY <1>5 DEF AwaitedBy
<1>7. ASSUME pc'[c][u] = "stuck" PROVE CutFor(c)'
  <2>1. CASE pc[c][u] = "stuck"
    <3>1. PICK m \in Node : FileCut(m) /\ serving[m].client = c
      BY <1>3, <2>1 DEF CutFor
    <3>2. FileCut(m)' /\ serving'[m].client = c
      <4>1. LockHeld
        BY DEF LockInv
      <4>2. \A t \in Thread : pc[c][t] # "receive"
        BY <2>1, <4>1, OneNegotiates, Threads
      <4> QED BY <3>1, <4>2, CutKept
    <3> QED BY <3>2 DEF CutFor
  <2>2. CASE LosesEnd(c, u)
    <3>1. /\ pc[c][u] = "receive" /\ serving[incoming[c].from].file = "changed"
          /\ pc' = [pc EXCEPT ![c][u] = "stuck"] /\ serving' = serving
      BY <2>2 DEF LosesEnd, tcpVars
    <3>2. PICK s \in Node : s = incoming[c].from
      BY <1>1, <3>1, Threads DEF Places, PlaceOf, TypeOK, Reception
    <3>3. Serves(s, c, {"send"})
      BY <3>1, <3>2 DEF LockInv, Claims, ServerOf
    <3>4. pc'[s]["handler"] = "send"
      BY <1>1, <3>1, <3>3 DEF Serves
    <3>5. FileCut(s)' /\ serving'[s].client = c
      BY <3>1, <3>2, <3>3, <3>4 DEF FileCut, Serves
    <3> QED BY <3>5 DEF CutFor
  <2> QED BY <1>2, <1>7, <2>1, <2>2, StuckBegins
<1> QED BY <1>6, <1>7

LEMMA AwaitInvariant == Spec => [](LockInv /\ PairInv /\ AwaitInv)
<1>1. Init => AwaitInv
  BY DEF Init, AwaitInv, AwaitedBy, Waits
<1>2. LockInv /\ PeerInv /\ AwaitInv /\ [Next]_vars => AwaitInv'
  BY AwaitStep
<1> QED BY <1>1, <1>2, PeerInvariant, PTL DEF Spec

--------------------------------------------------------------------------------

\* A handler that serves is awaited by a thread that negotiates with it.
LEMMA ServiceAwaited ==
    ASSUME LockInv, PairInv, NEW m \in Node, pc[m]["handler"] \in Serving
    PROVE  \E n \in Node, t \in Thread :
              /\ pc[n][t] \in Negotiating /\ job[n][t].from = m /\ Serves(m, n, Serving)
<1>1. serving[m] \in Service
  <2>1. serving[m] # Nothing
    BY Threads DEF LockInv, Places, InCase5, Serving
  <2> QED BY <2>1 DEF LockInv, TypeOK
<1>2. serving[m].client \in Node /\ Serves(m, serving[m].client, Serving)
  BY <1>1 DEF Service, Serves
<1> QED BY <1>2 DEF PairInv, Paired, ServiceOf, AsksFor

LEMMA StoppedInCircle ==
    ASSUME LockInv, PairInv, AwaitInv, faults = 0, \A n \in Node : ~FileGone(n) /\ ~FileCut(n),
           \A n \in Node, t \in Thread : ~CanGoOn(n, t),
           NEW k \in Node, NEW r \in Thread, pc[k][r] # "idle"
    PROVE  \E C \in SUBSET Node : Circle(C)
<1> DEFINE W == {n \in Node : \E t \in Thread : pc[n][t] \in Negotiating}
<1>1. /\ TypeOK /\ LockHeld /\ Places /\ Claims /\ pc \in [Node -> [Thread -> Place]]
      /\ udp \in [Node -> Seq(Datagram)] /\ todoUdp \in [Node -> Seq(Datagram)]
      /\ dirLock \in [Node -> Thread \cup {Free}]
      /\ incoming \in [Node -> {Nothing} \cup Reception]
  BY DEF LockInv, TypeOK
<1>2. /\ "negotiate" \in Negotiating /\ Negotiating = {"negotiate", "connect", "receive", "stuck"}
      /\ Place = {"idle", "announce", "compare", "request", "open", "accept", "send", "sent"} \cup Negotiating
  BY DEF Negotiating, Place
\* Whoever negotiates waits for an answer, which its server has not given.
<1>3. ASSUME NEW n \in Node, NEW t \in Thread, pc[n][t] \in Negotiating
      PROVE  Waits(n, t) /\ InFlight(job[n][t].from, n)
  <2>1. pc[n][t] # "stuck" /\ AwaitedBy(n, t)
    BY DEF AwaitInv, CutFor
  <2>2. pc[n][t] \notin {"connect", "receive"}
    <3> SUFFICES ASSUME pc[n][t] \in {"connect", "receive"} PROVE FALSE
      OBVIOUS
    <3>1. PICK s \in Node : s = incoming[n].from
      <4>1. incoming[n] \in Reception
        BY <1>1, Threads DEF Places, PlaceOf
      <4> QED BY <4>1 DEF Reception
    <3>2. CASE pc[n][t] = "connect"
      <4>1. pc[s]["handler"] \in {"open", "accept"}
        BY <1>1, <3>1, <3>2 DEF Claims, ServerOf, Serves
      <4> QED BY <3>1, <3>2, <4>1, Threads DEF CanGoOn
    <3>3. CASE pc[n][t] = "receive"
      <4>1. pc[s]["handler"] = "send"
        BY <1>1, <3>1, <3>3 DEF Claims, ServerOf, Serves
      <4>2. serving[s].file # "closed"
        BY <4>1 DEF FileGone
      <4> QED BY <3>1, <3>3, <4>2 DEF CanGoOn
    <3> QED BY <3>2, <3>3
  <2>3. pc[n][t] = "negotiate"
    BY <1>2, <1>3, <2>1, <2>2
  <2>4. reply[n] = Nothing
    BY <2>3 DEF CanGoOn
  <2> QED BY <2>1, <2>3, <2>4 DEF Waits, AwaitedBy
\* Whoever waits for dirLock waits for one that negotiates.
<1>4. ASSUME NEW n \in Node, NEW t \in Thread, pc[n][t] = "request" PROVE n \in W
  <2>1. dirLock[n] # Free
    BY <1>4 DEF CanGoOn
  <2>2. dirLock[n] \in Thread /\ pc[n][dirLock[n]] \in Negotiating
    BY <1>1, <2>1 DEF LockHeld
  <2> QED BY <2>2
\* No handler is left in the middle of a service.
<1>5. ASSUME NEW n \in Node, NEW t \in Thread PROVE pc[n][t] \notin InCase5 \cup {"announce", "compare"}
  <2>1. pc[n][t] \notin {"announce", "compare", "open", "sent"}
    BY DEF CanGoOn
  <2>2. ASSUME pc[n][t] \in {"accept", "send"} PROVE FALSE
    <3>1. pc[n]["handler"] \in Serving
      BY <1>1, <2>2, Threads DEF Places, PlaceOf, InCase5, Serving
    <3>2. PICK c \in Node, u \in Thread :
             pc[c][u] \in Negotiating /\ job[c][u].from = n /\ Serves(n, c, Serving)
      BY <3>1, ServiceAwaited
    <3>3. InFlight(n, c)
      BY <1>3, <3>2
    <3> QED BY <3>2, <3>3 DEF PairInv, Paired, RequestsOf
  <2> QED BY <2>1, <2>2 DEF InCase5
<1>6. \A n \in Node, t \in Thread :
         pc[n][t] = "idle" \/ (n \in W /\ Requests(n, t))
  <2> SUFFICES ASSUME NEW n \in Node, NEW t \in Thread, pc[n][t] # "idle"
               PROVE  n \in W /\ Requests(n, t)
    OBVIOUS
  <2>1. pc[n][t] = "request" \/ pc[n][t] \in Negotiating
    <3>1. pc[n][t] \in Place
      BY <1>1
    <3> QED BY <1>2, <1>5, <3>1 DEF InCase5
  <2>2. n \in W
    BY <1>4, <2>1
  <2>3. Requests(n, t)
    BY <1>3, <2>1 DEF Requests, Waits
  <2> QED BY <2>2, <2>3
<1>7. ASSUME NEW n \in W PROVE \E t \in Thread : WaitsIn(W, n, t)
  <2>1. PICK t \in Thread : n \in Node /\ pc[n][t] \in Negotiating
    OBVIOUS
  <2>2. PICK m \in Node : m = job[n][t].from
    BY <1>1, <2>1, EntryType
  <2> HIDE DEF W
  <2>3. Waits(n, t) /\ InFlight(m, n)
    BY <1>3, <2>1, <2>2
  <2>4. CASE ~NoneOf(todoUdp[m], n)
    <3>1. todoUdp[m] # << >>
      <4>1. Len(todoUdp[m]) # 0
        BY <1>1, <2>4 DEF NoneOf
      <4> QED BY <4>1
    <3>2. pc[m]["handler"] # "idle"
      BY <3>1, Threads DEF CanGoOn
    <3>3. m \in W /\ Requests(m, "handler")
      BY <1>6, <3>2, Threads
    <3> QED BY <2>2, <2>3, <3>3 DEF WaitsIn
  <2>5. CASE NoneOf(todoUdp[m], n)
    <3>1. ~NoneOf(udp[m], n)
      BY <2>3, <2>5 DEF InFlight
    <3>2. udp[m] # << >>
      <4>1. Len(udp[m]) # 0
        BY <1>1, <3>1 DEF NoneOf
      <4> QED BY <4>1
    <3>3. pc[m]["discoverer"] # "idle"
      BY <3>2, Threads DEF CanGoOn
    <3>4. m \in W /\ Requests(m, "discoverer")
      BY <1>6, <3>3, Threads
    <3> QED BY <2>2, <2>3, <2>5, <3>4 DEF WaitsIn
  <2> QED BY <2>4, <2>5
<1>8. k \in W
  BY <1>6
<1>9. W \in SUBSET Node
  OBVIOUS
<1> HIDE DEF W
<1> QED BY <1>7, <1>8, <1>9 DEF Circle

(***************************************************************************)
(* Threads of Node.cpp that are not back in their loops can always go on   *)
(* somewhere, unless nodes wait in a circle, or a handler sends a file     *)
(* that it could not open or that changed while it was sent: as long as no *)
(* datagram is lost and no connection comes too early, nothing else stops  *)
(* the network.                                                            *)
(***************************************************************************)
THEOREM StopsAreExplained == Spec => []StopsExplained
<1>1. LockInv /\ PairInv /\ AwaitInv => StopsExplained
  BY StoppedInCircle DEF StopsExplained
<1> QED BY <1>1, AwaitInvariant, PTL

--------------------------------------------------------------------------------

(***************************************************************************)
(* Until it is complete, the file that a thread receives is the one that   *)
(* was opened for it, and has not been touched since.                      *)
(***************************************************************************)
IncomingIsPartial ==
    \A n \in Node : incoming[n] # Nothing => disk[n][incoming[n].path] = Partial

\* Nothing is received under a free dirLock, or while an answer is awaited.
LEMMA NothingReceived ==
    ASSUME LockInv, PartialIsIncoming, NEW n \in Node,
           dirLock[n] = Free \/ \E t \in Thread : pc[n][t] = "negotiate"
    PROVE  \A p \in Path : disk[n][p] # Partial
<1>1. ASSUME NEW u \in Thread, dirLock[n] = u, pc[n][u] \in Receiving PROVE FALSE
  <2>1. dirLock[n] # Free
    BY <1>1 DEF Free, Thread
  <2>2. PICK t \in Thread : pc[n][t] = "negotiate"
    BY <2>1
  <2>3. t = u
    BY <1>1, <2>2, OneNegotiates, Threads DEF LockInv
  <2> QED BY <1>1, <2>2, <2>3, Threads
<1> QED BY <1>1 DEF PartialIsIncoming

\* Who receives stays in it, but for the end of the transfer.
Moves(n, t) ==
    \E v : /\ pc' = [pc EXCEPT ![n][t] = v] /\ v # "send"
           /\ pc[n][t] \in {"receive", "stuck"} => v = "stuck"

LEMMA ThreadMoves ==
    ASSUME LockInv, [Next]_vars
    PROVE  \/ pc' = pc
           \/ \E n \in Node, t \in Thread : Moves(n, t) \/ Connect(n, t) \/ Transfer(n, t)
<1> DEFINE Goal == \/ pc' = pc
                   \/ \E n \in Node, t \in Thread : Moves(n, t) \/ Connect(n, t) \/ Transfer(n, t)
<1>1. ASSUME NEW n \in Node, \/ StartUp(n) \/ StartWatching(n) \/ Scan(n) \/ PublishChanges(n)
                            \/ DiscovererStep(n) \/ TakeTable(n)
      PROVE  Goal
  <2>1. pc' = pc \/ Moves(n, "discoverer") \/ Moves(n, "tableManager")
    BY <1>1 DEF StartUp, Start, Announce, Unstarted, StartWatching, Scan, LockInv, Thread,
       PublishChanges, DiscovererStep, CollectForHandler, CollectArrival, TakeTable, Considers,
       callVars, Moves
  <2> QED BY <2>1, Threads
<1>2. ASSUME NEW n \in Node, HandlerStep(n) PROVE Goal
  <2>1. pc' = pc \/ Moves(n, "handler")
    <3>1. CASE HandleDirChanges(n)
      BY <3>1 DEF HandleDirChanges, Pops, Begun, Moves
    <3>2. CASE ~HandleDirChanges(n)
      BY <1>2, <3>2 DEF HandlerStep, HandleResponse, HandleFileRequest, OpenAndListen,
         EndService, Pops, callVars, Moves
    <3> QED BY <3>1, <3>2
  <2> QED BY <2>1, Threads
<1>3. ASSUME NEW n \in Node, NEW t \in Thread, RequestStep(n, t) PROVE Goal
  <2>1. CASE Connect(n, t) \/ Transfer(n, t)
    BY <2>1
  <2>2. CASE RequestFile(n, t)
    <3>1. pc[n][t] = "request" /\ pc' = [pc EXCEPT ![n][t] = "negotiate"]
      BY <2>2, RequestTakesLock DEF LockInv
    <3>2. Moves(n, t)
      BY <3>1 DEF Moves
    <3> QED BY <3>2
  <2>3. CASE SkipChange(n, t) \/ ApplyDeletion(n, t) \/ Abandoned(n, t)
    <3>1. Moves(n, t)
      BY <2>3 DEF SkipChange, ApplyDeletion, LocksFor, Abandoned, Advance, NextEntry, Moves
    <3> QED BY <3>1
  <2>4. CASE OpenForWriting(n, t) \/ CompareTables(n, t) \/ LosesEnd(n, t)
    <3>1. Moves(n, t)
      BY <2>4 DEF OpenForWriting, CompareTables, Begun, LosesEnd, Moves
    <3> QED BY <3>1
  <2> QED BY <1>3, <2>1, <2>2, <2>3, <2>4 DEF RequestStep
<1>4. ASSUME NEW n \in Node, UserStep(n) \/ FaultStep(n) PROVE Goal
  <2>1. ASSUME NEW t \in Thread, ConnectTooEarly(n, t) PROVE Moves(n, t)
    BY <2>1 DEF ConnectTooEarly, Moves
  <2>2. CASE ~\E t \in Thread : ConnectTooEarly(n, t)
    BY <1>4, <2>2 DEF UserStep, UserWrites, UserDeletes, FaultStep, LoseDatagram, LoseReply, callVars
  <2> QED BY <2>1, <2>2
<1>5. CASE UNCHANGED vars
  BY <1>5 DEF vars, callVars
<1> QED BY <1>1, <1>2, <1>3, <1>4, <1>5 DEF Next

(***************************************************************************)
(* A handler that sends a file sends it to a thread that receives it.      *)
(***************************************************************************)
ReceivedBy(n) == \E t \in Thread : pc[n][t] \in {"receive", "stuck"}
Receives      == \A m \in Node : pc[m]["handler"] = "send" => ReceivedBy(serving[m].client)

LEMMA ReceivesStep == LockInv /\ PairInv /\ Receives /\ [Next]_vars => Receives'
<1> SUFFICES ASSUME LockInv, PairInv, Receives, [Next]_vars,
                    NEW m \in Node, pc'[m]["handler"] = "send"
             PROVE  \E t \in Thread : pc'[serving'[m].client][t] \in {"receive", "stuck"}
  BY DEF Receives, ReceivedBy
<1>1. /\ TypeOK /\ LockHeld /\ Places /\ Claims /\ pc \in [Node -> [Thread -> Place]]
      /\ serving \in [Node -> {Nothing} \cup Service]
  BY DEF LockInv, TypeOK
\* The end of a transfer takes the server from it.
<1>2. ASSUME NEW n \in Node, NEW t \in Thread, Transfer(n, t) PROVE incoming[n].from # m
  <2>1. pc' = [[pc EXCEPT ![incoming[n].from]["handler"] = "sent"] EXCEPT ![n][t] = NextEntry(n, t)]
    BY <1>2 DEF Transfer, Advance
  <2>2. NextEntry(n, t) # "send"
    BY DEF NextEntry
  <2> QED BY <1>1, <2>1, <2>2, Threads
<1>3. CASE pc[m]["handler"] = "send"
  <2>1. serving'[m].client = serving[m].client
    BY <1>2, <1>3, SendGoesOn
  <2>2. PICK c \in Node : c = serving[m].client
    BY <1>1, <1>3, Threads DEF Places, InCase5, Service
  <2>3. PICK u \in Thread : pc[c][u] \in {"receive", "stuck"}
    BY <1>3, <2>2 DEF Receives, ReceivedBy
  <2>4. ASSUME NEW n \in Node, NEW t \in Thread, Moves(n, t)
        PROVE  pc'[c][u] \in {"receive", "stuck"}
    BY <1>1, <2>3, <2>4 DEF Moves
  <2>5. ASSUME NEW n \in Node, NEW t \in Thread, Connect(n, t)
        PROVE  pc'[c][u] = pc[c][u]
    <3> DEFINE s == incoming[n].from
    <3>1. /\ pc[n][t] = "connect" /\ pc[s]["handler"] = "accept"
          /\ pc' = [[pc EXCEPT ![n][t] = "receive"] EXCEPT ![s]["handler"] = "send"]
      BY <2>5 DEF Connect
    <3>2. ~(c = n /\ u = t) /\ ~(c = s /\ u = "handler")
      BY <2>3, <3>1
    <3> HIDE DEF s
    <3> QED BY <1>1, <3>1, <3>2, Threads
  <2>6. ASSUME NEW n \in Node, NEW t \in Thread, Transfer(n, t)
        PROVE  pc'[c][u] = pc[c][u]
    <3> DEFINE s == incoming[n].from
    <3>1. /\ pc[n][t] = "receive" /\ Serves(s, n, {"send"})
          /\ pc' = [[pc EXCEPT ![s]["handler"] = "sent"] EXCEPT ![n][t] = NextEntry(n, t)]
      BY <1>1, <2>6 DEF Transfer, Advance, Claims, ServerOf
    <3>2. s \in Node /\ s # m
      BY <1>1, <1>2, <2>6, <3>1, Threads, NothingAssumption DEF Places, PlaceOf, TypeOK, Reception
    <3>3. c # n
      <4>1. Serves(s, n, Serving) /\ Paired(n) /\ pc[n][t] \in Negotiating
        BY <3>1, Threads DEF Serves, PairInv
      <4>2. c = n => Serves(m, n, Serving)
        BY <1>3, <2>2, Threads DEF Serves
      <4> QED BY <1>1, <3>2, <4>1, <4>2, OneServer
    <3>4. ~(c = s /\ u = "handler")
      BY <2>3, <3>1 DEF Serves
    <3> HIDE DEF s
    <3> QED BY <1>1, <3>1, <3>3, <3>4, Threads
  <2>7. pc'[c][u] \in {"receive", "stuck"}
    BY <2>3, <2>4, <2>5, <2>6, ThreadMoves
  <2> QED BY <2>1, <2>2, <2>7
<1>4. CASE pc[m]["handler"] # "send"
  <2>1. ASSUME NEW n \in Node, NEW t \in Thread, Moves(n, t) PROVE FALSE
    BY <1>1, <1>4, <2>1, Threads DEF Moves
  <2>2. ASSUME NEW n \in Node, NEW t \in Thread, Transfer(n, t) PROVE FALSE
    <3>1. pc' = [[pc EXCEPT ![incoming[n].from]["handler"] = "sent"] EXCEPT ![n][t] = NextEntry(n, t)]
      BY <2>2 DEF Transfer, Advance
    <3>2. NextEntry(n, t) # "send"
      BY DEF NextEntry
    <3> QED BY <1>1, <1>4, <3>1, <3>2, Threads
  <2>3. PICK n \in Node, t \in Thread : Connect(n, t)
    BY <1>4, <2>1, <2>2, ThreadMoves
  <2> DEFINE s == incoming[n].from
  <2>4. /\ pc[n][t] = "connect" /\ pc[s]["handler"] = "accept" /\ serving' = Measured(s)
        /\ pc' = [[pc EXCEPT ![n][t] = "receive"] EXCEPT ![s]["handler"] = "send"]
    BY <2>3 DEF Connect
  <2>5. s = m
    <3> HIDE DEF s
    <3> QED BY <1>1, <1>4, <2>4, Threads
  <2>6. serving[m].client = n
    BY <1>1, <2>4, <2>5 DEF Claims, ServerOf, Serves
  <2>7. serving'[m].client = serving[m].client
    <3>1. serving[m] # Nothing
      BY <1>1, <2>4, <2>5, Threads DEF Places, InCase5
    <3>2. SameService
      BY <1>1, <2>4, <2>5, <3>1, MeasuredService, ServiceKept
    <3> QED BY <3>2 DEF SameService
  <2>8. pc'[n][t] = "receive"
    <3>1. ~(n = s /\ t = "handler")
      BY <2>4
    <3> HIDE DEF s
    <3> QED BY <1>1, <2>4, <3>1
  <2> QED BY <2>6, <2>7, <2>8
<1> QED BY <1>3, <1>4

LEMMA ReceivesInvariant == Spec => []Receives
<1>1. Init => Receives
  BY DEF Init, Receives, Thread
<1> QED BY <1>1, ReceivesStep, PeerInvariant, PTL DEF Spec

(***************************************************************************)
(* Who connects or receives has its server to itself: another node, that   *)
(* serves it the path it fetches.                                          *)
(***************************************************************************)
FetchesFrom(n, m) ==
    /\ m # n /\ incoming[n] \in Reception /\ incoming[n].from = m
    /\ serving[m] \in Service /\ serving[m].client = n /\ serving[m].path = incoming[n].path
    /\ \A k \in Node : Serves(k, n, Serving) => k = m

LEMMA FetchingFrom ==
    ASSUME LockInv, PairInv, PeerInv, NEW n \in Node, NEW t \in Thread,
           NEW m \in Node, Serves(m, n, Serving),
           pc[n][t] \in Receiving
    PROVE  FetchesFrom(n, m)
<1>1. /\ LockHeld /\ Places /\ TypeOK /\ Paired(n) /\ pc[n][t] \in Negotiating
  BY DEF LockInv, PairInv, Receiving
<1>2. incoming[n] \in Reception /\ incoming[n] # Nothing
  BY <1>1, Threads DEF Places, PlaceOf, TypeOK
<1>3. Fetches(n, incoming[n].from, incoming[n].path)
  BY <1>1, <1>2 DEF Paired, AnswerOf
<1>4. incoming[n].from = job[n][t].from /\ incoming[n].path = Entry(n, t).path
  BY <1>1, <1>3, OneServer
<1>5. \A k \in Node : Serves(k, n, Serving) => k = job[n][t].from /\ serving[k].path = Entry(n, t).path
  BY <1>1, OneServer
<1>6. m # n
  BY <1>1, <1>5 DEF PeerInv, PeersOf, Peers, Asking
<1>7. serving[m] \in Service
  BY <1>1, Threads DEF Places, InCase5, Serves, Serving, TypeOK
<1> QED BY <1>2, <1>4, <1>5, <1>6, <1>7 DEF FetchesFrom, Serves

\* Whoever sends a file sends it to a node that is fetching that path.
LEMMA SentWhereFetched ==
    ASSUME LockInv, PairInv, PeerInv, Receives, IncomingIsPartial,
           NEW m \in Node, pc[m]["handler"] = "send"
    PROVE  \E n \in Node : /\ n = serving[m].client /\ n # m /\ serving[m].path \in Path
                           /\ disk[n][serving[m].path] = Partial
<1>1. TypeOK /\ Places
  BY DEF LockInv
<1>2. PICK n \in Node : n = serving[m].client
  BY <1>1, Threads DEF Places, InCase5, TypeOK, Service
<1>3. PICK t \in Thread : pc[n][t] \in {"receive", "stuck"}
  BY <1>2 DEF Receives, ReceivedBy
<1>4. Serves(m, n, Serving) /\ pc[n][t] \in Receiving
  BY <1>2, <1>3 DEF Serves, Serving, Receiving, Negotiating
<1>5. FetchesFrom(n, m)
  BY <1>4, FetchingFrom
<1>6. disk[n][incoming[n].path] = Partial
  BY <1>5, NothingAssumption DEF IncomingIsPartial, FetchesFrom
<1> QED BY <1>2, <1>5, <1>6 DEF FetchesFrom, Service

-----------------------------------------------------------------------------
\* The copies that may not be whole, after a step.
SameSpoils(m) ==
    /\ Spoils(m)' <=> Spoils(m)
    /\ Spoils(m) => serving'[m].client = serving[m].client

LEMMA SpoiltSame == (\A m \in Node : SameSpoils(m)) => UNCHANGED Spoilt
BY DEF Spoilt, SameSpoils

\* A thread moves that neither accepts nor sends.
LEMMA SpoiltAside ==
    ASSUME pc \in [Node -> [Thread -> Place]], serving' = serving,
           NEW n \in Node, NEW t \in Thread, NEW v,
           pc[n][t] \notin {"accept", "send"}, v \notin {"accept", "send"},
           pc' = pc \/ pc' = [pc EXCEPT ![n][t] = v]
    PROVE  UNCHANGED Spoilt
<1>1. ASSUME NEW m \in Node
      PROVE  pc'[m]["handler"] \in {"accept", "send"} <=> pc[m]["handler"] \in {"accept", "send"}
  BY Threads
<1>2. \A m \in Node : SameSpoils(m)
  BY <1>1 DEF SameSpoils, Spoils
<1> QED BY <1>2, SpoiltSame

\* A file is written to while it may be sent.
LEMMA WritingDisturbs ==
    ASSUME LockInv, PairInv, PeerInv, Receives, IncomingIsPartial,
           NEW n \in Node, NEW p \in Path, serving' = WrittenTo(n, p),
           \A m \in Node : pc'[m]["handler"] \in {"accept", "send"} <=>
                              pc[m]["handler"] \in {"accept", "send"}
    PROVE  Folders!Disturbs(n, p)
<1>1. TypeOK /\ Places /\ serving \in [Node -> {Nothing} \cup Service]
  BY DEF LockInv, TypeOK
<1>2. \A m \in Node : m # n => serving'[m] = serving[m]
  BY <1>1 DEF WrittenTo
<1>3. \/ serving'[n] = serving[n]
      \/ /\ pc[n]["handler"] = "send" /\ serving[n] \in Service /\ serving[n].path = p
         /\ serving'[n] = [serving[n] EXCEPT !.file = "changed"]
  BY <1>1 DEF WrittenTo, OpenAt
<1>4. serving'[n] # serving[n] => serving'[n].file = "changed" /\ serving'[n].client = serving[n].client
  BY <1>3 DEF Service
<1>5. ASSUME NEW m \in Node, Spoils(m)
      PROVE  Spoils(m)' /\ serving'[m].client = serving[m].client
  BY <1>2, <1>4, <1>5 DEF Spoils
<1>6. Spoilt \subseteq Spoilt'
  BY <1>5 DEF Spoilt
<1>7. ASSUME NEW k \in Spoilt', k \notin Spoilt PROVE k # n /\ disk[k][p] = Partial
  <2>1. PICK m \in Node : Spoils(m)' /\ serving'[m].client = k
    BY <1>7 DEF Spoilt
  <2>2. serving'[m] # serving[m]
    BY <1>7, <2>1 DEF Spoilt, Spoils
  <2>3. m = n
    BY <1>2, <2>2
  <2>4. pc[n]["handler"] = "send" /\ serving[n].path = p /\ serving[n].client = k
    BY <1>3, <1>4, <2>1, <2>2, <2>3
  <2> QED BY <2>4, SentWhereFetched
<1> QED BY <1>6, <1>7 DEF Folders!Disturbs

-----------------------------------------------------------------------------
\* What the steps of all threads and users do to the folders.
Touched(n, p, c) ==
    /\ disk[n][p] # Partial /\ c \notin {Partial, Torn}
    /\ disk' = [disk EXCEPT ![n][p] = c] /\ incoming' = incoming
    /\ UNCHANGED Spoilt \/ (pc' = pc /\ serving' = WrittenTo(n, p))

LEMMA FolderActions ==
    ASSUME LockInv, PartialIsIncoming, [Next]_vars
    PROVE  \/ UNCHANGED <<disk, incoming, Spoilt>>
           \/ \E n \in Node, p \in Path, c \in Hash \cup {NoFile} : Touched(n, p, c)
           \/ \E n \in Node, t \in Thread : OpenForWriting(n, t) \/ Connect(n, t) \/ Transfer(n, t)
<1> DEFINE Goal == \/ UNCHANGED <<disk, incoming, Spoilt>>
                   \/ \E n \in Node, p \in Path, c \in Hash \cup {NoFile} : Touched(n, p, c)
                   \/ \E n \in Node, t \in Thread :
                         OpenForWriting(n, t) \/ Connect(n, t) \/ Transfer(n, t)
<1>1. /\ NoFile \notin {Partial, Torn} /\ pc \in [Node -> [Thread -> Place]] /\ Unstarted /\ LockHeld
      /\ serving \in [Node -> {Nothing} \cup Service] /\ Places
  BY ContentAssumption, NoFileAssumption DEF LockInv, TypeOK
<1>s. ASSUME NEW n \in Node, NEW t \in Thread, NEW v,
             pc[n][t] \notin {"accept", "send"}, v \notin {"accept", "send"},
             pc' = pc \/ pc' = [pc EXCEPT ![n][t] = v], serving' = serving
      PROVE  UNCHANGED Spoilt
  BY <1>1, <1>s, SpoiltAside
<1>2. ASSUME NEW n \in Node, \/ StartUp(n) \/ StartWatching(n) \/ Scan(n) \/ PublishChanges(n)
                            \/ DiscovererStep(n) \/ TakeTable(n)
      PROVE  UNCHANGED <<disk, incoming, Spoilt>>
  <2>1. UNCHANGED <<disk, incoming, serving>>
    BY <1>2 DEF StartUp, Start, Announce, StartWatching, Scan, PublishChanges, DiscovererStep,
       CollectForHandler, CollectArrival, TakeTable, dirVars, tcpVars
  <2>2. \/ pc' = pc
        \/ \E t \in Thread, v \in {"announce", "idle", "compare"} :
              pc[n][t] \in {"idle", "announce"} /\ pc' = [pc EXCEPT ![n][t] = v]
    <3>1. Thread = {"discoverer", "handler", "tableManager"}
      BY DEF Thread
    <3> QED BY <1>1, <1>2, <3>1 DEF StartUp, Start, Announce, Unstarted, StartWatching, Scan,
          PublishChanges, DiscovererStep, CollectForHandler, CollectArrival, TakeTable, Considers,
          callVars
  <2>3. CASE pc' = pc
    BY <2>1, <2>3 DEF Spoilt, Spoils
  <2>4. CASE pc' # pc
    BY <1>s, <2>1, <2>2, <2>4
  <2> QED BY <2>1, <2>3, <2>4
<1>3. ASSUME NEW n \in Node, HandlerStep(n) PROVE UNCHANGED <<disk, incoming, Spoilt>>
  <2>1. UNCHANGED <<disk, incoming>>
    BY <1>3 DEF HandlerStep, HandleResponse, HandleFileRequest, OpenAndListen, EndService,
       HandleDirChanges, dirVars, tcpVars
  <2>2. pc[n]["handler"] \in {"idle", "open", "sent"}
    BY <1>3 DEF HandlerStep, HandleResponse, HandleFileRequest, OpenAndListen, EndService,
       HandleDirChanges, Pops
  <2>3. /\ \A m \in Node : m # n => serving'[m] = serving[m]
        /\ pc' = pc \/ \E v : pc' = [pc EXCEPT ![n]["handler"] = v]
    BY <1>1, <1>3 DEF HandlerStep, HandleResponse, HandleFileRequest, OpenAndListen, EndService,
       HandleDirChanges, tcpVars, callVars
  <2>4. ~Spoils(n)'
    <3>1. CASE OpenAndListen(n)
      <4>1. pc[n]["handler"] = "open" /\ serving[n] \in Service
        BY <1>1, <3>1, Threads DEF OpenAndListen, Places, InCase5
      <4>2. PICK f \in {"open", "closed"} : serving' = [serving EXCEPT ![n].file = f]
        BY <3>1 DEF OpenAndListen
      <4>3. serving'[n] = [serving[n] EXCEPT !.file = f]
        BY <1>1, <4>2
      <4> QED BY <4>1, <4>3 DEF Spoils, Service
    <3>2. CASE ~OpenAndListen(n)
      <4>1. pc' = pc \/ \E v \in {"open", "idle", "request"} : pc' = [pc EXCEPT ![n]["handler"] = v]
        BY <1>3, <3>2 DEF HandlerStep, HandleResponse, HandleFileRequest, EndService,
           HandleDirChanges, Begun, callVars
      <4>2. pc'[n]["handler"] \notin {"accept", "send"}
        BY <1>1, <2>2, <4>1, Threads
      <4> QED BY <4>2 DEF Spoils
    <3> QED BY <3>1, <3>2
  <2>5. SameSpoils(n)
    BY <2>2, <2>4 DEF SameSpoils, Spoils
  <2>6. ASSUME NEW m \in Node, m # n PROVE SameSpoils(m)
    <3>1. pc'[m] = pc[m] /\ serving'[m] = serving[m]
      BY <1>1, <2>3, <2>6
    <3> QED BY <3>1 DEF SameSpoils, Spoils
  <2> QED BY <2>1, <2>5, <2>6, SpoiltSame
<1>4. ASSUME NEW n \in Node, FaultStep(n) PROVE UNCHANGED <<disk, incoming, Spoilt>>
  <2>1. UNCHANGED <<disk, incoming, serving>>
    BY <1>4 DEF FaultStep, LoseDatagram, LoseReply, ConnectTooEarly, dirVars, tcpVars
  <2>2. ASSUME NEW t \in Thread, ConnectTooEarly(n, t) PROVE UNCHANGED Spoilt
    <3>1. pc[n][t] = "connect" /\ pc' = [pc EXCEPT ![n][t] = "stuck"]
      BY <2>2 DEF ConnectTooEarly
    <3>2. pc[n][t] \notin {"accept", "send"} /\ "stuck" \notin {"accept", "send"}
      BY <3>1
    <3> HIDE <2>2
    <3> QED BY ONLY <1>s, <2>1, <3>1, <3>2
  <2>3. CASE LoseDatagram(n) \/ LoseReply(n)
    <3>1. pc' = pc
      BY <2>3 DEF LoseDatagram, LoseReply, callVars
    <3> QED BY <2>1, <3>1 DEF Spoilt, Spoils
  <2> QED BY <1>4, <2>1, <2>2, <2>3 DEF FaultStep
<1>5. ASSUME NEW n \in Node, UserStep(n) PROVE Goal
  <2>1. CASE \E p \in Path : UserDeletes(n, p)
    <3>1. PICK p \in Path : UserDeletes(n, p)
      BY <2>1
    <3>2. UNCHANGED Spoilt
      BY <3>1 DEF UserDeletes, callVars, tcpVars, Spoilt, Spoils
    <3>3. Touched(n, p, NoFile)
      BY <1>1, <3>1, <3>2 DEF UserDeletes, DiskBecomes, tcpVars, Touched
    <3> QED BY <3>3
  <2>2. CASE \E p \in Path, c \in UserContent : UserWrites(n, p, c)
    <3>1. PICK p \in Path, c \in UserContent : UserWrites(n, p, c)
      BY <2>2
    <3>2. Touched(n, p, c) /\ c \in Hash
      BY <3>1 DEF UserWrites, DiskBecomes, callVars, Touched, UserContent
    <3> QED BY <3>2
  <2> QED BY <1>5, <2>1, <2>2 DEF UserStep
<1>6. ASSUME NEW n \in Node, NEW t \in Thread, RequestStep(n, t) PROVE Goal
  <2>1. CASE ApplyDeletion(n, t)
    <3>1. /\ pc[n][t] = "request" /\ dirLock[n] = Free /\ incoming' = incoming
          /\ disk' = disk \/ disk' = [disk EXCEPT ![n][Entry(n, t).path] = NoFile]
          /\ serving' = serving /\ pc' = [pc EXCEPT ![n][t] = NextEntry(n, t)]
      BY <2>1 DEF ApplyDeletion, LocksFor, Advance, DiskBecomes, dirVars, tcpVars
    <3>2. PICK p \in Path : p = Entry(n, t).path
      <4>1. Entry(n, t) \in Change
        BY <3>1, EntryType DEF LockInv
      <4> QED BY <4>1 DEF Change
    <3>3. disk[n][p] # Partial
      BY <3>1, NothingReceived
    <3>4. UNCHANGED Spoilt
      <4>1. NextEntry(n, t) \notin {"accept", "send"}
        BY DEF NextEntry
      <4> QED BY <1>s, <3>1, <4>1
    <3>5. disk' = disk \/ Touched(n, p, NoFile)
      BY <1>1, <3>1, <3>2, <3>3, <3>4 DEF Touched
    <3> QED BY <3>1, <3>4, <3>5
  <2>2. CASE SkipChange(n, t) \/ RequestFile(n, t) \/ Abandoned(n, t) \/ CompareTables(n, t)
             \/ LosesEnd(n, t)
    <3>1. UNCHANGED <<disk, incoming, serving>>
      BY <2>2 DEF SkipChange, RequestFile, Abandoned, CompareTables, LosesEnd, dirVars, tcpVars
    <3>2. PICK v : /\ pc[n][t] \notin {"accept", "send"} /\ v \notin {"accept", "send"}
                   /\ pc' = pc \/ pc' = [pc EXCEPT ![n][t] = v]
      <4>1. CASE RequestFile(n, t)
        <5>1. pc[n][t] = "request" /\ pc' = [pc EXCEPT ![n][t] = "negotiate"]
          BY <1>1, <4>1, RequestTakesLock
        <5> QED BY <5>1
      <4>2. CASE ~RequestFile(n, t)
        <5>1. NextEntry(n, t) \in {"idle", "request"} /\ \A list : Begun(list) \in {"idle", "request"}
          BY DEF NextEntry, Begun
        <5> QED BY <2>2, <4>2, <5>1 DEF SkipChange, Abandoned, CompareTables, LosesEnd, LocksFor, Advance
      <4> QED BY <4>1, <4>2
    <3>3. UNCHANGED Spoilt
      BY <1>s, <3>1, <3>2
    <3> QED BY <3>1, <3>3
  <2> QED BY <1>6, <2>1, <2>2 DEF RequestStep
<1>7. CASE UNCHANGED vars
  BY <1>7 DEF vars, dirVars, callVars, tcpVars, Spoilt, Spoils
<1> QED BY <1>2, <1>3, <1>4, <1>5, <1>6, <1>7 DEF Next

-----------------------------------------------------------------------------
FolderInv == LockInv /\ PairInv /\ PeerInv /\ Receives /\ SourceWhole
             /\ PartialIsIncoming /\ IncomingIsPartial /\ OpenFilesStay

\* The two meet: either the file is whole, or it is on its way to the server.
LEMMA ConnectionMeets ==
    ASSUME FolderInv, NEW n \in Node, NEW t \in Thread, Connect(n, t)
    PROVE  [Folders!Next]_<<disk, Spoilt>>
<1>1. /\ LockInv /\ Claims /\ Places /\ pc \in [Node -> [Thread -> Place]]
      /\ serving \in [Node -> {Nothing} \cup Service]
  BY DEF FolderInv, LockInv, TypeOK
<1>s. PICK s \in Node : s = incoming[n].from
  <2>1. pc[n][t] = "connect"
    BY DEF Connect
  <2>2. incoming[n] # Nothing /\ incoming[n] \in {Nothing} \cup Reception
    BY <1>1, <2>1, Threads DEF Places, PlaceOf, LockInv, TypeOK
  <2> QED BY <2>2 DEF Reception
<1>2. /\ pc[n][t] = "connect" /\ pc[s]["handler"] = "accept" /\ serving' = Measured(s)
      /\ pc' = [[pc EXCEPT ![n][t] = "receive"] EXCEPT ![s]["handler"] = "send"]
      /\ disk' = disk
  BY <1>s DEF Connect, dirVars
<1>4. FetchesFrom(n, s)
  <2>1. Serves(s, n, Serving) /\ pc[n][t] \in Receiving
    BY <1>1, <1>s, <1>2, Threads DEF Claims, ServerOf, Serves, Serving
  <2> QED BY <1>1, <2>1, FetchingFrom DEF FolderInv
<1>5. ASSUME NEW m \in Node
      PROVE  pc'[m]["handler"] \in {"accept", "send"} <=> pc[m]["handler"] \in {"accept", "send"}
  BY <1>1, <1>2, Threads
<1>6. CASE serving' = serving
  <2>1. UNCHANGED Spoilt
    BY <1>5, <1>6 DEF Spoilt, Spoils
  <2> QED BY <1>2, <2>1
<1>7. CASE serving' # serving
  <2>1. /\ serving[s].file = "open" /\ disk[s][serving[s].path] = Partial
        /\ serving' = [serving EXCEPT ![s].file = "growing"]
    BY <1>2, <1>7 DEF Measured
  <2>2. /\ \A m \in Node : m # s => serving'[m] = serving[m]
        /\ serving'[s] = [serving[s] EXCEPT !.file = "growing"]
    BY <1>1, <2>1
  <2>3. serving'[s].file = "growing" /\ serving'[s].client = n /\ serving[s].client = n
    BY <1>4, <2>2 DEF FetchesFrom, Service
  <2>4. \A m \in Node : m # s => (Spoils(m)' <=> Spoils(m)) /\ serving'[m].client = serving[m].client
    BY <1>5, <2>2 DEF Spoils
  <2>5. Spoils(s)'
    <3>1. pc'[s]["handler"] \in {"accept", "send"}
      BY <1>2, <1>5
    <3> QED BY <2>3, <3>1 DEF Spoils
  <2>6. Spoilt' = Spoilt \cup {n}
    <3>1. ~Spoils(s)
      BY <2>1 DEF Spoils
    <3>2. ASSUME NEW k \in Node, k # n PROVE k \in Spoilt' <=> k \in Spoilt
      BY <2>3, <2>4, <3>1, <3>2 DEF Spoilt
    <3>3. n \in Spoilt'
      BY <2>3, <2>5 DEF Spoilt
    <3>4. Spoilt \subseteq Node /\ Spoilt' \subseteq Node
      BY DEF Spoilt
    <3> QED BY <3>2, <3>3, <3>4
  <2>7. PICK p \in Path : p = incoming[n].path
    BY <1>4 DEF FetchesFrom, Reception
  <2>8. disk[n][p] = Partial /\ disk[s][p] = Partial /\ s # n
    BY <1>4, <2>1, <2>7, NothingAssumption DEF FetchesFrom, FolderInv, IncomingIsPartial
  <2>9. Folders!Meet(n, p, s)
    BY <1>2, <2>6, <2>8 DEF Folders!Meet
  <2> QED BY <2>7, <2>9 DEF Folders!Next
<1> QED BY <1>6, <1>7

\* What is received at the end is what the server has, or not whole.
LEMMA TransferCompletes ==
    ASSUME FolderInv, NEW n \in Node, NEW t \in Thread, Transfer(n, t)
    PROVE  Folders!Next /\ IncomingIsPartial'
<1>1. /\ LockInv /\ Claims /\ Places /\ pc \in [Node -> [Thread -> Place]]
      /\ serving \in [Node -> {Nothing} \cup Service]
      /\ disk \in [Node -> Table] /\ incoming \in [Node -> {Nothing} \cup Reception]
  BY DEF FolderInv, LockInv, TypeOK
<1>s. PICK s \in Node : s = incoming[n].from
  <2>1. pc[n][t] = "receive"
    BY DEF Transfer
  <2>2. incoming[n] # Nothing /\ incoming[n] \in {Nothing} \cup Reception
    BY <1>1, <2>1, Threads DEF Places, PlaceOf
  <2> QED BY <2>2 DEF Reception
<1>2. /\ pc[n][t] = "receive" /\ serving' = serving /\ serving[s].file # "closed"
      /\ pc' = [[pc EXCEPT ![s]["handler"] = "sent"] EXCEPT ![n][t] = NextEntry(n, t)]
      /\ incoming' = [incoming EXCEPT ![n] = Nothing]
  BY <1>s DEF Transfer, Advance
<1>4. pc[s]["handler"] = "send" /\ FetchesFrom(n, s)
  <2>1. pc[s]["handler"] = "send" /\ Serves(s, n, Serving) /\ pc[n][t] \in Receiving
    BY <1>1, <1>s, <1>2, Threads DEF Claims, ServerOf, Serves, Serving
  <2> QED BY <1>1, <2>1, FetchingFrom DEF FolderInv
<1>5. PICK copy \in Copies(s) : disk' = [disk EXCEPT ![n][incoming[n].path] = copy]
  BY <1>s DEF Transfer, DiskBecomes
<1>6. PICK p \in Path : p = incoming[n].path
  BY <1>4 DEF FetchesFrom, Reception
<1>7. disk[n][p] = Partial /\ s # n /\ serving[s].path = p
  BY <1>4, <1>6, NothingAssumption DEF FetchesFrom, FolderInv, IncomingIsPartial
<1>8. disk[s][p] # NoFile
  <2>1. OpenAt(s, p)
    BY <1>2, <1>4, <1>7, NothingAssumption DEF OpenAt, FetchesFrom
  <2> QED BY <2>1 DEF FolderInv, OpenFilesStay
<1>9. copy # Partial
  BY <1>4, <1>5, SourceIsWhole DEF FolderInv
<1>10. copy \in {disk[s][p]} \cup (IF n \in Spoilt THEN {Torn} ELSE {})
  <2>1. CASE serving[s].file = "open"
    BY <1>5, <1>7, <2>1 DEF Copies
  <2>2. CASE serving[s].file # "open"
    <3>1. serving[s].file \in {"growing", "changed"} /\ serving[s].client = n
      BY <1>2, <1>4, <2>2 DEF FetchesFrom, Service, FileState
    <3>2. n \in Spoilt
      BY <1>4, <3>1 DEF Spoilt, Spoils
    <3> QED BY <1>5, <1>7, <3>2 DEF Copies
  <2> QED BY <2>1, <2>2
<1>11. Spoilt' = Spoilt \ {n}
  <2>1. NextEntry(n, t) \notin {"accept", "send"}
    BY DEF NextEntry
  <2>2. ASSUME NEW m \in Node
        PROVE  pc'[m]["handler"] \in {"accept", "send"} <=>
                  pc[m]["handler"] \in {"accept", "send"} /\ m # s
    BY <1>1, <1>2, <2>1, <2>2, Threads
  <2>3. \A m \in Node : Spoils(m)' <=> Spoils(m) /\ m # s
    BY <1>2, <2>2 DEF Spoils
  <2>4. \A m \in Node : Spoils(m) /\ serving[m].client = n => m = s
    BY <1>4 DEF FetchesFrom, Spoils, Serves, Serving
  <2>5. serving[s].client = n
    BY <1>4 DEF FetchesFrom
  <2> QED BY <1>2, <2>3, <2>4, <2>5 DEF Spoilt
<1>12. Folders!Complete(n, p, s)
  BY <1>5, <1>6, <1>7, <1>8, <1>9, <1>10, <1>11 DEF Folders!Complete
<1>13. IncomingIsPartial'
  <2>1. incoming'[n] = Nothing /\ \A m \in Node : m # n => disk'[m] = disk[m] /\ incoming'[m] = incoming[m]
    BY <1>1, <1>2, <1>5
  <2>2. IncomingIsPartial
    BY DEF FolderInv
  <2> QED BY <2>1, <2>2 DEF IncomingIsPartial
<1> QED BY <1>6, <1>12, <1>13 DEF Folders!Next

LEMMA FolderStep ==
    FolderInv /\ [Next]_vars => [Folders!Next]_<<disk, Spoilt>> /\ IncomingIsPartial'
<1> SUFFICES ASSUME FolderInv, [Next]_vars
             PROVE  [Folders!Next]_<<disk, Spoilt>> /\ IncomingIsPartial'
  OBVIOUS
<1>1. /\ LockInv /\ PairInv /\ PeerInv /\ Receives /\ PartialIsIncoming /\ IncomingIsPartial
      /\ disk \in [Node -> Table] /\ incoming \in [Node -> {Nothing} \cup Reception]
      /\ reply \in [Node -> {Nothing} \cup Reply] /\ pc \in [Node -> [Thread -> Place]]
  BY DEF FolderInv, LockInv, TypeOK
<1>2. CASE UNCHANGED <<disk, incoming, Spoilt>>
  BY <1>1, <1>2 DEF IncomingIsPartial
<1>3. ASSUME NEW n \in Node, NEW p \in Path, NEW c \in Hash \cup {NoFile}, Touched(n, p, c)
      PROVE  [Folders!Next]_<<disk, Spoilt>> /\ IncomingIsPartial'
  <2>1. Folders!Disturbs(n, p)
    <3>1. CASE UNCHANGED Spoilt
      BY <3>1 DEF Folders!Disturbs
    <3>2. CASE pc' = pc /\ serving' = WrittenTo(n, p)
      BY <1>1, <3>2, WritingDisturbs
    <3> QED BY <1>3, <3>1, <3>2 DEF Touched
  <2>2. Folders!Edit(n, p)
    BY <1>3, <2>1 DEF Touched, Folders!Edit, Folders!Content
  <2>3. \A m \in Node, q \in Path : disk[m][q] = Partial => disk'[m][q] = Partial
    BY <1>1, <1>3 DEF Touched, Table
  <2>4. ASSUME NEW m \in Node, incoming[m] # Nothing PROVE disk'[m][incoming[m].path] = Partial
    <3>1. incoming[m].path \in Path
      BY <1>1, <2>4 DEF Reception
    <3> QED BY <1>1, <2>3, <2>4, <3>1 DEF IncomingIsPartial
  <2> QED BY <1>3, <2>2, <2>4 DEF Folders!Next, Touched, IncomingIsPartial
<1>4. ASSUME NEW n \in Node, NEW t \in Thread, OpenForWriting(n, t)
      PROVE  [Folders!Next]_<<disk, Spoilt>> /\ IncomingIsPartial'
  <2> DEFINE p == reply[n].path
  <2>1. /\ pc[n][t] = "negotiate" /\ reply[n] # Nothing
        /\ disk' = [disk EXCEPT ![n][p] = Partial] /\ serving' = WrittenTo(n, p)
        /\ incoming' = [incoming EXCEPT ![n] = [path |-> p, from |-> reply[n].from]]
        /\ pc' = [pc EXCEPT ![n][t] = "connect"]
    BY <1>4 DEF OpenForWriting, DiskBecomes
  <2>2. p \in Path
    BY <1>1, <2>1 DEF Reply
  <2>3. \A q \in Path : disk[n][q] # Partial
    BY <1>1, <2>1, NothingReceived
  <2> HIDE DEF p
  <2>4. \A m \in Node : pc'[m]["handler"] \in {"accept", "send"} <=>
                           pc[m]["handler"] \in {"accept", "send"}
    BY <1>1, <2>1, Threads
  <2>5. Folders!Disturbs(n, p)
    BY <1>1, <2>1, <2>2, <2>4, WritingDisturbs
  <2>6. Folders!Open(n, p)
    BY <2>1, <2>3, <2>5 DEF Folders!Open
  <2>7. disk'[n][p] = Partial /\ incoming'[n].path = p
    BY <1>1, <2>1, <2>2 DEF Table
  <2>8. \A m \in Node : m # n => disk'[m] = disk[m] /\ incoming'[m] = incoming[m]
    BY <1>1, <2>1
  <2>9. IncomingIsPartial'
    BY <1>1, <2>7, <2>8 DEF IncomingIsPartial
  <2> QED BY <2>2, <2>6, <2>9 DEF Folders!Next
<1>5. ASSUME NEW n \in Node, NEW t \in Thread, Connect(n, t)
      PROVE  [Folders!Next]_<<disk, Spoilt>> /\ IncomingIsPartial'
  <2>1. UNCHANGED <<disk, incoming>>
    BY <1>5 DEF Connect, dirVars
  <2> QED BY <1>1, <1>5, <2>1, ConnectionMeets DEF IncomingIsPartial
<1>6. ASSUME NEW n \in Node, NEW t \in Thread, Transfer(n, t)
      PROVE  [Folders!Next]_<<disk, Spoilt>> /\ IncomingIsPartial'
  BY <1>6, TransferCompletes
<1> QED BY <1>1, <1>2, <1>3, <1>4, <1>5, <1>6, FolderActions

(***************************************************************************)
(* Whatever the nodes send each other, all that becomes of the folders is  *)
(* what SharedFolders allows: a file is fetched from another node that has *)
(* one of the same path, nothing else happens to the folder meanwhile, and *)
(* what comes is whole unless the source was being fetched or written to.  *)
(***************************************************************************)
THEOREM FoldersAreExchanged == Spec => FoldersExchanged
<1>1. Init => Folders!Init /\ IncomingIsPartial
  <2> SUFFICES ASSUME Init PROVE Folders!Init /\ IncomingIsPartial
    OBVIOUS
  <2>1. NoFile # Partial
    BY ContentAssumption, NoFileAssumption
  <2>2. Spoilt = {}
    BY DEF Init, Spoilt, Spoils, Thread
  <2> QED BY <2>1, <2>2 DEF Init, Folders!Init, Folders!Content, IncomingIsPartial
<1>2. LockDiscipline => PartialIsIncoming
  BY DEF LockDiscipline
<1>3. FolderInv /\ [Next]_vars => [Folders!Next]_<<disk, Spoilt>> /\ IncomingIsPartial'
  BY FolderStep
<1>4. LockInv /\ PairInv /\ PeerInv /\ Receives /\ SourceWhole /\ PartialIsIncoming
          /\ IncomingIsPartial /\ OpenFilesStay => FolderInv
  BY DEF FolderInv
<1>5. Init /\ [][Next]_vars => [](LockInv /\ PairInv /\ PeerInv /\ Receives /\ SourceWhole
                                     /\ PartialIsIncoming /\ OpenFilesStay)
  BY <1>2, PeerInvariant, ReceivesInvariant, SourceWholeInvariant, LockDisciplineHolds,
     OpenFilesDoStay, PTL DEF Spec
<1> QED BY <1>1, <1>3, <1>4, <1>5, PTL
     DEF Spec, FoldersExchanged, Folders!Spec, Folders!vars

=============================================================================
