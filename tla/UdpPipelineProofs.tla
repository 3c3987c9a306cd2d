-------------------------- MODULE UdpPipelineProofs --------------------------
(* Proofs about the UDP pipeline.                                          *)
EXTENDS UdpPipeline, SequenceTheorems, TLAPS

-----------------------------------------------------------------------------
(* Types.                                                                  *)

Somewhere == {"select", "respond", "compare", "request", "transfer", "queue", "push", "top",
              "publish", "take", "pop", "work", "deposit", "depositing", "serve", "dispose",
              "poll", "look"}

\* What the switch does with a response and with the other packets.
LEMMA SwitchLeads ==
    \A pid : /\ After(pid) \subseteq {"deposit", "serve", "request", "dispose"}
             /\ pid = 1 <=> "deposit" \in After(pid)
BY DEF After

LEMMA PlacesListed == UNION {Place[t] : t \in Thread} = Somewhere
BY DEF Place, Thread, Somewhere

(***************************************************************************)
(* The mutexes are held in the critical sections and nowhere else, and a   *)
(* local pointer is set exactly while its thread works on a message.       *)
(***************************************************************************)
LockInv ==
    /\ queueMutex = "discoverer" <=> at["discoverer"] = "push"
    /\ queueMutex = "handler" <=> at["handler"] = "pop"
    /\ tableManagerMutex = "handler" <=> at["handler"] = "depositing"
    /\ tableManagerMutex = "tableManager" <=> at["tableManager"] = "look"

PointerInv ==
    /\ \A t \in Worker : message[t] # Null <=> at[t] \in Working
    /\ receivedTable <=> tableManagerMessage # Null
    /\ at["handler"] \in {"deposit", "depositing"} => pidOf[message["handler"]] = 1
    /\ tableManagerMessage # Null => pidOf[tableManagerMessage] = 1
    /\ at["discoverer"] \in {"queue", "push"} => Len(pidOf) >= 1

\* No object is in two places or in none after it was deleted.
InQueue(k)  == \E i \in 1..Len(todoUdp) : todoUdp[i] = k
AtBirth(k)  == at["discoverer"] \in {"queue", "push"} /\ k = Len(pidOf)

ApartInv ==
    /\ \A i, j \in 1..Len(todoUdp) : i < j => todoUdp[i] < todoUdp[j]
    /\ \A k \in Object : InQueue(k) =>
          /\ ~AtBirth(k) /\ k # tableManagerMessage
          /\ k # message["handler"] /\ k # message["tableManager"] /\ k \notin disposed
    /\ \A k \in Object : AtBirth(k) =>
          /\ k # tableManagerMessage
          /\ k # message["handler"] /\ k # message["tableManager"] /\ k \notin disposed
    /\ message["handler"] # Null =>
          /\ message["handler"] # message["tableManager"]
          /\ message["handler"] # tableManagerMessage /\ message["handler"] \notin disposed
    /\ tableManagerMessage # Null =>
          tableManagerMessage # message["tableManager"] /\ tableManagerMessage \notin disposed
    /\ message["tableManager"] \notin disposed

IInv == TypeOK /\ LockInv /\ PointerInv /\ ApartInv

LEMMA PipelineInit == Init => IInv
<1> SUFFICES ASSUME Init PROVE IInv OBVIOUS
<1>1. pidOf = << >> /\ Len(pidOf) = 0 /\ Object = {} /\ todoUdp = << >> /\ Len(todoUdp) = 0
  BY DEF Init, Object
<1>2. TypeOK
  <2>1. at \in [Thread -> Somewhere] /\ \A t \in Thread : at[t] \in Place[t]
    BY DEF Init, Thread, Somewhere, Place
  <2>2. /\ received \in 0..MaxDatagrams /\ pidOf \in Seq(Pid) /\ todoUdp \in Seq(Object)
        /\ disposed \subseteq Object
    BY <1>1, MaxAssumption DEF Init
  <2>3. /\ tableManagerMessage \in Object \cup {Null} /\ receivedTable \in BOOLEAN
        /\ {queueMutex, tableManagerMutex, dirLock} \subseteq Thread \cup {Free}
        /\ message \in [Worker -> Object \cup {Null}]
    BY DEF Init
  <2> QED BY <2>1, <2>2, <2>3, PlacesListed DEF TypeOK
<1>3. LockInv BY DEF Init, LockInv, Free
<1>4. PointerInv BY DEF Init, PointerInv, Working, Worker
<1>5. ApartInv BY <1>1, NullAssumption DEF Init, ApartInv, InQueue, AtBirth, Worker
<1> QED BY <1>2, <1>3, <1>4, <1>5 DEF IInv

LEMMA GoesSomewhere ==
    ASSUME TypeOK, NEW t \in Thread, NEW from, NEW to \in Place[t], Goes(t, from, to)
    PROVE  /\ at' \in [Thread -> UNION {Place[u] : u \in Thread}]
           /\ \A u \in Thread : at'[u] \in Place[u]
           /\ at[t] = from /\ at'[t] = to
           /\ \A u \in Thread \ {t} : at'[u] = at[u]
BY DEF TypeOK, Goes

LEMMA PipelineTypes == TypeOK /\ LockInv /\ PointerInv /\ [Next]_vars => TypeOK'
<1> SUFFICES ASSUME TypeOK, LockInv, PointerInv, [Next]_vars PROVE TypeOK' OBVIOUS
<1> USE DEF Thread, Worker
<1>n. Len(pidOf) \in Nat BY DEF TypeOK
<1>a. ASSUME NEW t \in Thread, NEW from, NEW to \in Place[t], Goes(t, from, to),
             UNCHANGED <<objects, shared, message>>,
             {queueMutex', tableManagerMutex', dirLock'} \subseteq Thread \cup {Free}
      PROVE  TypeOK'
  BY <1>a, GoesSomewhere DEF TypeOK, objects, shared, Object
<1>1. ASSUME NEW t \in Thread, NEW from, NEW to \in Place[t], LockQueue(t, from, to)
      PROVE  TypeOK'
  BY <1>a, <1>1 DEF LockQueue, TypeOK
<1>2. ASSUME NEW t \in Thread, NEW from, NEW to \in Place[t], LockTable(t, from, to)
      PROVE  TypeOK'
  BY <1>a, <1>2 DEF LockTable, TypeOK
<1>3. ASSUME NEW t \in Thread, RequestOne(t) PROVE TypeOK'
  <2>1. "transfer" \in Place[t] BY DEF Place
  <2> QED BY <1>a, <1>3, <2>1 DEF RequestOne, TypeOK
<1>4. ASSUME NEW t \in Thread, NEW to \in Place[t], TransferOne(t, to) PROVE TypeOK'
  BY <1>a, <1>4 DEF TransferOne, TypeOK
<1>5. ASSUME NEW t \in Thread, NEW to \in Place[t], CompareTable(t, to) PROVE TypeOK'
  <2>1. "request" \in Place[t] BY DEF Place
  <2> QED BY <1>a, <1>5, <2>1 DEF CompareTable, TypeOK, locks
<1>6. ASSUME NEW t \in Worker, NEW to \in Place[t], Dispose(t, to) PROVE TypeOK'
  <2>1. message[t] \in Object
    BY <1>6 DEF Dispose, Goes, TypeOK, PointerInv, Working
  <2>2. /\ at' \in [Thread -> UNION {Place[u] : u \in Thread}]
        /\ \A u \in Thread : at'[u] \in Place[u]
    BY <1>6, GoesSomewhere DEF Dispose
  <2>3. /\ disposed' \subseteq Object /\ message' \in [Worker -> Object \cup {Null}]
        /\ Object' = Object
    BY <1>6, <2>1 DEF Dispose, TypeOK, Object
  <2> QED BY <1>6, <2>2, <2>3 DEF Dispose, TypeOK, shared, locks
<1>7. CASE IgnoreOwn
  BY <1>7, MaxAssumption DEF IgnoreOwn, Arrives, TypeOK, shared, locks, Object
<1>8. CASE ReceiveArrival
  <2>1. "respond" \in Place["discoverer"] BY DEF Place
  <2> QED BY <1>8, <2>1, GoesSomewhere, MaxAssumption
          DEF ReceiveArrival, Arrives, TypeOK, shared, locks, Object
<1>9. CASE RespondToArrival
  <2>1. "compare" \in Place["discoverer"] BY DEF Place
  <2> QED BY <1>a, <1>9, <2>1 DEF RespondToArrival, TypeOK, locks
<1>10. ASSUME NEW pid \in Pid, ReceiveOther(pid) PROVE TypeOK'
  <2>1. "queue" \in Place["discoverer"] BY DEF Place
  <2>2. pidOf' \in Seq(Pid) /\ Len(pidOf') = Len(pidOf) + 1
    BY <1>10 DEF ReceiveOther, TypeOK
  <2>3. Object \subseteq Object' BY <1>n, <2>2 DEF Object
  <2>4. todoUdp \in Seq(Object')
    BY <2>3 DEF TypeOK
  <2> QED BY <1>10, <2>1, <2>2, <2>3, <2>4, GoesSomewhere, MaxAssumption
          DEF ReceiveOther, Arrives, TypeOK, shared, locks
<1>11. CASE Push
  <2>1. "select" \in Place["discoverer"] BY DEF Place
  <2>2. Len(pidOf) \in Object
    BY <1>n, <1>11 DEF Push, Goes, PointerInv, Object
  <2>3. todoUdp' \in Seq(Object) BY <1>11, <2>2 DEF Push, TypeOK
  <2> QED BY <1>11, <2>1, <2>3, GoesSomewhere DEF Push, TypeOK, objects, Object
<1>12. CASE TryLock \/ Publish \/ NoPublish
  <2>1. {"publish", "take"} \subseteq Place["handler"] BY DEF Place
  <2> QED BY <1>a, <1>12, <2>1 DEF TryLock, Publish, NoPublish, TypeOK, locks
<1>13. CASE QueueEmpty
  <2>1. "top" \in Place["handler"] BY DEF Place
  <2> QED BY <1>a, <1>13, <2>1 DEF QueueEmpty, TypeOK
<1>14. CASE Pop
  <2>1. "work" \in Place["handler"] BY DEF Place
  <2>2. Head(todoUdp) \in Object /\ todoUdp' \in Seq(Object)
    BY <1>14 DEF Pop, Popped, TypeOK
  <2> QED BY <1>14, <2>1, <2>2, GoesSomewhere DEF Pop, TypeOK, objects, Object
<1>15. CASE Work
  <2>1. {"deposit", "serve", "request", "dispose"} \subseteq Place["handler"] BY DEF Place
  <2>2. PICK to \in Place["handler"] : Goes("handler", "work", to)
    BY <1>15, <2>1, SwitchLeads DEF Work
  <2> QED BY <1>a, <1>15, <2>2 DEF Work, TypeOK, locks
<1>16. CASE Deposit
  <2>1. "top" \in Place["handler"] BY DEF Place
  <2> QED BY <1>16, <2>1, GoesSomewhere DEF Deposit, TypeOK, objects, Object
<1>17. CASE NoTable
  <2>1. "poll" \in Place["tableManager"] BY DEF Place
  <2> QED BY <1>a, <1>17, <2>1 DEF NoTable, TypeOK
<1>18. CASE TakeTable
  <2>1. "compare" \in Place["tableManager"] BY DEF Place
  <2> QED BY <1>18, <2>1, GoesSomewhere DEF TakeTable, FlippedBack, TypeOK, objects, Object
<1>19. CASE UNCHANGED vars
  BY <1>19 DEF vars, objects, shared, locks, TypeOK, Object
<1>s. CASE Serve
  <2>1. "dispose" \in Place["handler"] BY DEF Place
  <2> QED BY <1>a, <1>s, <2>1 DEF Serve, TypeOK, locks
<1>20. /\ {"push", "select"} \subseteq Place["discoverer"]
       /\ {"pop", "depositing", "dispose", "top"} \subseteq Place["handler"]
       /\ {"look", "dispose", "poll"} \subseteq Place["tableManager"]
  BY DEF Place
<1>21. CASE Discoverer
  BY <1>1, <1>3, <1>4, <1>5, <1>7, <1>8, <1>9, <1>10, <1>11, <1>20, <1>21 DEF Discoverer
<1>22. CASE Handler
  BY <1>1, <1>2, <1>3, <1>4, <1>6, <1>12, <1>13, <1>14, <1>15, <1>16, <1>s, <1>20, <1>22
  DEF Handler, HandlerRuns
<1>23. CASE TableManager
  BY <1>2, <1>3, <1>4, <1>5, <1>6, <1>17, <1>18, <1>20, <1>23 DEF TableManager, TableManagerRuns
<1> QED BY <1>19, <1>21, <1>22, <1>23 DEF Next

LEMMA LockStep == TypeOK /\ LockInv /\ [Next]_vars => LockInv'
<1> SUFFICES ASSUME TypeOK, LockInv, [Next]_vars PROVE LockInv' OBVIOUS
<1> USE DEF Thread, Free, Goes
<1>t. at \in [Thread -> UNION {Place[u] : u \in Thread}] BY DEF TypeOK
<1>1. CASE Discoverer
  BY <1>t, <1>1 DEF Discoverer, LockInv, LockQueue, QueueFree, RequestOne, TransferOne,
     CompareTable, IgnoreOwn, ReceiveArrival, RespondToArrival, ReceiveOther, Push, locks
<1>2. CASE Handler
  <2>1. CASE Serve \/ Work \/ Pop \/ Dispose("handler", "top") \/ NoPublish
    BY <1>t, <2>1, SwitchLeads DEF LockInv, Serve, Work, Pop, Dispose, NoPublish, locks
  <2>2. CASE LockQueue("handler", "take", "pop") \/ QueueEmpty \/ TryLock \/ Publish
    BY <1>t, <2>2 DEF LockInv, LockQueue, QueueFree, QueueEmpty, TryLock, Publish
  <2>3. CASE \/ LockTable("handler", "deposit", "depositing") \/ Deposit
             \/ RequestOne("handler") \/ TransferOne("handler", "dispose")
    BY <1>t, <2>3 DEF LockInv, LockTable, Deposit, RequestOne, TransferOne
  <2> QED BY <1>2, <2>1, <2>2, <2>3 DEF Handler, HandlerRuns
<1>3. CASE TableManager
  BY <1>t, <1>3 DEF TableManager, TableManagerRuns, LockInv, LockTable, RequestOne, TransferOne,
     CompareTable, Dispose, NoTable, TakeTable, locks
<1>4. CASE UNCHANGED vars
  BY <1>4 DEF vars, locks, LockInv
<1> QED BY <1>1, <1>2, <1>3, <1>4 DEF Next

LEMMA PointerStep == TypeOK /\ LockInv /\ PointerInv /\ [Next]_vars => PointerInv'
<1> SUFFICES ASSUME TypeOK, LockInv, PointerInv, [Next]_vars PROVE PointerInv' OBVIOUS
<1> USE DEF Thread, Worker, Working, Goes
<1>t. /\ at \in [Thread -> UNION {Place[u] : u \in Thread}]
      /\ message \in [Worker -> Object \cup {Null}] /\ pidOf \in Seq(Pid)
      /\ tableManagerMessage \in Object \cup {Null}
      /\ Len(pidOf) \in Nat /\ \A k \in Object : k \in Nat /\ k # Null
  BY NullAssumption DEF TypeOK, Object
<1>1. CASE /\ UNCHANGED <<pidOf, tableManagerMessage, receivedTable, message>>
           /\ \/ Discoverer \/ TryLock \/ Publish \/ NoPublish \/ QueueEmpty
              \/ LockQueue("handler", "take", "pop") \/ RequestOne("handler")
              \/ TransferOne("handler", "dispose") \/ Serve
              \/ LockTable("handler", "deposit", "depositing")
              \/ LockTable("tableManager", "poll", "look") \/ NoTable
              \/ CompareTable("tableManager", "dispose") \/ RequestOne("tableManager")
              \/ TransferOne("tableManager", "dispose")
  BY <1>t, <1>1 DEF Discoverer, PointerInv, LockQueue, LockTable, RequestOne, TransferOne,
     CompareTable, IgnoreOwn, ReceiveArrival, RespondToArrival, ReceiveOther, Push, Serve,
     TryLock, Publish, NoPublish, QueueEmpty, NoTable
<1>2. ASSUME NEW pid \in Pid, ReceiveOther(pid) PROVE PointerInv'
  <2>1. /\ Len(pidOf') = Len(pidOf) + 1
        /\ \A k \in Object : pidOf'[k] = pidOf[k]
    BY <1>t, <1>2 DEF ReceiveOther, Object
  <2>2. /\ at'["handler"] = at["handler"] /\ at'["tableManager"] = at["tableManager"]
        /\ UNCHANGED <<message, tableManagerMessage, receivedTable>>
    BY <1>t, <1>2 DEF ReceiveOther, shared
  <2>3. at["handler"] \in {"deposit", "depositing"} =>
           message["handler"] \in Object /\ pidOf[message["handler"]] = 1
    BY <1>t DEF PointerInv
  <2>4. tableManagerMessage # Null =>
           tableManagerMessage \in Object /\ pidOf[tableManagerMessage] = 1
    BY <1>t DEF PointerInv
  <2>5. Len(pidOf') >= 1 BY <1>t, <2>1
  <2> QED BY <2>1, <2>2, <2>3, <2>4, <2>5 DEF PointerInv
<1>3. CASE Pop
  <2>1. Head(todoUdp) \in Object BY <1>3 DEF Pop, TypeOK
  <2> QED BY <1>t, <1>3, <2>1 DEF Pop, PointerInv, objects
<1>4. CASE Work
  BY <1>t, <1>4, SwitchLeads DEF Work, PointerInv, objects, shared
<1>5. CASE Deposit
  BY <1>t, <1>5 DEF Deposit, PointerInv, objects
<1>6. ASSUME NEW t \in Worker, NEW to \in {"top", "poll"}, Dispose(t, to) PROVE PointerInv'
  BY <1>t, <1>6 DEF Dispose, PointerInv, shared
<1>7. CASE TakeTable
  BY <1>t, <1>7 DEF TakeTable, FlippedBack, PointerInv, objects
<1>8. CASE UNCHANGED vars
  BY <1>8 DEF vars, objects, shared, PointerInv
<1>9. Discoverer /\ (\A pid \in Pid : ~ReceiveOther(pid)) =>
         UNCHANGED <<pidOf, tableManagerMessage, receivedTable, message>>
  BY DEF Discoverer, LockQueue, RequestOne, TransferOne, CompareTable, IgnoreOwn,
     ReceiveArrival, RespondToArrival, Push, objects, shared
<1>10. CASE Discoverer
  BY <1>1, <1>2, <1>9, <1>10
<1>11. CASE Handler
  BY <1>1, <1>3, <1>4, <1>5, <1>6, <1>11 DEF Handler, HandlerRuns, LockQueue, LockTable, RequestOne,
     TransferOne, Serve, TryLock, Publish, NoPublish, QueueEmpty, objects, shared
<1>12. CASE TableManager
  BY <1>1, <1>6, <1>7, <1>12 DEF TableManager, TableManagerRuns, LockTable, RequestOne, TransferOne,
     CompareTable, NoTable, objects, shared
<1> QED BY <1>8, <1>10, <1>11, <1>12 DEF Next

LEMMA ApartStep ==
    TypeOK /\ TypeOK' /\ LockInv /\ PointerInv /\ ApartInv /\ [Next]_vars => ApartInv'
<1> SUFFICES ASSUME TypeOK, TypeOK', LockInv, PointerInv, ApartInv, [Next]_vars
             PROVE  ApartInv'
  OBVIOUS
<1> USE DEF Thread, Worker, Goes
<1>t. /\ at \in [Thread -> UNION {Place[u] : u \in Thread}]
      /\ message \in [Worker -> Object \cup {Null}] /\ pidOf \in Seq(Pid)
      /\ tableManagerMessage \in Object \cup {Null} /\ disposed \subseteq Object
      /\ todoUdp \in Seq(Object) /\ Len(todoUdp) \in Nat
      /\ Len(pidOf) \in Nat /\ Null \notin Object
      /\ \A k \in Object : k \in Nat /\ k <= Len(pidOf)
  BY NullAssumption DEF TypeOK, Object
<1>1. ASSUME UNCHANGED <<pidOf, disposed, todoUdp, tableManagerMessage, message>>,
             \A k : AtBirth(k)' => AtBirth(k)
      PROVE  ApartInv'
  BY <1>1 DEF ApartInv, InQueue, Object
<1>2. ASSUME NEW pid \in Pid, ReceiveOther(pid) PROVE ApartInv'
  <2>1. Len(pidOf') = Len(pidOf) + 1 /\ Object' = Object \cup {Len(pidOf')}
    BY <1>t, <1>2 DEF ReceiveOther, Object
  <2>2. UNCHANGED <<disposed, todoUdp, tableManagerMessage, message>>
    BY <1>2 DEF ReceiveOther, shared
  <2>3. Len(pidOf') \notin Object BY <1>t, <2>1
  <2>4. /\ \A k : InQueue(k) => k \in Object
        /\ \A k \in Object' : AtBirth(k)' => k = Len(pidOf')
        /\ ~AtBirth(0) /\ \A k \in Object : k # Len(pidOf')
    BY <1>t, <1>2, <2>3 DEF InQueue, AtBirth, ReceiveOther
  <2>5. /\ message["handler"] # Len(pidOf') /\ message["tableManager"] # Len(pidOf')
        /\ tableManagerMessage # Len(pidOf') /\ Len(pidOf') \notin disposed
    BY <1>t, <2>1, <2>3, NullAssumption
  <2>6. \A k \in Object' : InQueue(k)' <=> InQueue(k)
    BY <2>2 DEF InQueue
  <2> QED BY <2>2, <2>4, <2>5, <2>6 DEF ApartInv
<1>3. CASE Push
  <2>1. AtBirth(Len(pidOf)) /\ Len(pidOf) \in Object
    BY <1>t, <1>3 DEF Push, AtBirth, PointerInv, Object
  <2>2. /\ Len(todoUdp') = Len(todoUdp) + 1 /\ todoUdp'[Len(todoUdp')] = Len(pidOf)
        /\ \A i \in 1..Len(todoUdp) : todoUdp'[i] = todoUdp[i] /\ todoUdp[i] \in Object
    BY <1>t, <1>3 DEF Push
  <2>3. \A i \in 1..Len(todoUdp) : todoUdp[i] < Len(pidOf)
    <3>1. \A i \in 1..Len(todoUdp) : todoUdp[i] # Len(pidOf)
      BY <2>1, <2>2 DEF ApartInv, InQueue
    <3> QED BY <1>t, <2>2, <3>1
  <2>4. \A i, j \in 1..Len(todoUdp') : i < j => todoUdp'[i] < todoUdp'[j]
    <3> SUFFICES ASSUME NEW i \in 1..Len(todoUdp'), NEW j \in 1..Len(todoUdp'), i < j
                 PROVE  todoUdp'[i] < todoUdp'[j]
      OBVIOUS
    <3>1. i \in 1..Len(todoUdp) /\ todoUdp'[i] = todoUdp[i]
      BY <1>t, <2>2
    <3>2. CASE j \in 1..Len(todoUdp)
      <4>1. todoUdp[i] < todoUdp[j] BY <3>1, <3>2 DEF ApartInv
      <4> QED BY <2>2, <3>1, <3>2, <4>1
    <3>3. CASE j = Len(todoUdp')
      BY <2>2, <2>3, <3>1, <3>3
    <3>4. j \in 1..(Len(todoUdp) + 1) /\ Len(todoUdp) \in Nat BY <1>t, <2>2
    <3>5. j \in 1..Len(todoUdp) \/ j = Len(todoUdp') BY <2>2, <3>4
    <3> QED BY <3>2, <3>3, <3>5
  <2>5. \A k : InQueue(k)' => InQueue(k) \/ k = Len(pidOf)
    BY <1>t, <2>2 DEF InQueue
  <2>6. \A k : ~AtBirth(k)'
    BY <1>t, <1>3 DEF Push, AtBirth
  <2>7. UNCHANGED <<pidOf, disposed, tableManagerMessage, message>>
    BY <1>3 DEF Push, objects
  <2> QED BY <2>1, <2>4, <2>5, <2>6, <2>7 DEF ApartInv, Object
<1>4. CASE Pop
  <2>1. /\ todoUdp # << >> /\ todoUdp' = Tail(todoUdp)
        /\ message' = [message EXCEPT !["handler"] = Head(todoUdp)]
        /\ UNCHANGED <<pidOf, disposed, tableManagerMessage>>
        /\ \A k : AtBirth(k)' <=> AtBirth(k)
    BY <1>t, <1>4 DEF Pop, Popped, objects, AtBirth
  <2>2. /\ Len(todoUdp) >= 1 /\ Head(todoUdp) = todoUdp[1] /\ todoUdp[1] \in Object
        /\ Len(todoUdp') = Len(todoUdp) - 1
        /\ \A i \in 1..Len(todoUdp') : todoUdp'[i] = todoUdp[i + 1] /\ i + 1 \in 1..Len(todoUdp)
    BY <1>t, <2>1
  <2>3. InQueue(Head(todoUdp)) BY <1>t, <2>2 DEF InQueue
  <2>4. \A k : InQueue(k)' => InQueue(k) /\ k # Head(todoUdp)
    <3>1. \A i \in 2..Len(todoUdp) : todoUdp[1] < todoUdp[i]
      BY <1>t, <2>2 DEF ApartInv
    <3>2. \A i \in 2..Len(todoUdp) : todoUdp[1] # todoUdp[i]
      BY <1>t, <2>2, <3>1
    <3> QED BY <1>t, <2>2, <3>2 DEF InQueue
  <2>5. \A i, j \in 1..Len(todoUdp') : i < j => todoUdp'[i] < todoUdp'[j]
    <3> SUFFICES ASSUME NEW i \in 1..Len(todoUdp'), NEW j \in 1..Len(todoUdp'), i < j
                 PROVE  todoUdp'[i] < todoUdp'[j]
      OBVIOUS
    <3>1. /\ todoUdp'[i] = todoUdp[i + 1] /\ todoUdp'[j] = todoUdp[j + 1]
          /\ i + 1 \in 1..Len(todoUdp) /\ j + 1 \in 1..Len(todoUdp) /\ i + 1 < j + 1
      BY <1>t, <2>2
    <3>2. todoUdp[i + 1] < todoUdp[j + 1] BY <3>1 DEF ApartInv
    <3> QED BY <3>1, <3>2
  <2>6. /\ message'["handler"] = Head(todoUdp)
        /\ message'["tableManager"] = message["tableManager"]
        /\ Head(todoUdp) \in Object
    BY <1>t, <2>1, <2>2
  <2>7. /\ Head(todoUdp) # message["tableManager"] /\ Head(todoUdp) # tableManagerMessage
        /\ Head(todoUdp) \notin disposed /\ ~AtBirth(Head(todoUdp))
    BY <2>3, <2>6 DEF ApartInv
  <2> QED BY <2>1, <2>4, <2>5, <2>6, <2>7 DEF ApartInv, Object
<1>5. CASE Deposit
  <2>1. /\ tableManagerMessage' = message["handler"]
        /\ message' = [message EXCEPT !["handler"] = Null]
        /\ message["handler"] # Null /\ message["handler"] \in Object
        /\ UNCHANGED <<pidOf, disposed, todoUdp>>
        /\ \A k : AtBirth(k)' <=> AtBirth(k)
    BY <1>t, <1>5 DEF Deposit, objects, AtBirth, PointerInv, Working
  <2>2. message'["handler"] = Null /\ message'["tableManager"] = message["tableManager"]
    BY <1>t, <2>1
  <2> QED BY <1>t, <2>1, <2>2 DEF ApartInv, InQueue, Object
<1>6. CASE TakeTable
  <2>1. /\ tableManagerMessage' = Null
        /\ message' = [message EXCEPT !["tableManager"] = tableManagerMessage]
        /\ tableManagerMessage # Null
        /\ UNCHANGED <<pidOf, disposed, todoUdp>>
        /\ \A k : AtBirth(k)' <=> AtBirth(k)
    BY <1>t, <1>6 DEF TakeTable, objects, AtBirth, PointerInv
  <2>2. message'["tableManager"] = tableManagerMessage /\ message'["handler"] = message["handler"]
    BY <1>t, <2>1
  <2> QED BY <1>t, <2>1, <2>2 DEF ApartInv, InQueue, Object
<1>7. ASSUME NEW t \in Worker, NEW to \in {"top", "poll"}, Dispose(t, to) PROVE ApartInv'
  <2>1. /\ disposed' = disposed \cup {message[t]} /\ message' = [message EXCEPT ![t] = Null]
        /\ message[t] # Null /\ message[t] \in Object
        /\ UNCHANGED <<pidOf, todoUdp, tableManagerMessage>>
        /\ \A k : AtBirth(k)' <=> AtBirth(k)
    BY <1>t, <1>7 DEF Dispose, shared, AtBirth, PointerInv, Working
  <2>2. /\ message'[t] = Null /\ \A u \in Worker \ {t} : message'[u] = message[u]
    BY <1>t, <2>1
  <2> QED BY <1>t, <2>1, <2>2 DEF ApartInv, InQueue, Object
<1>8. CASE Discoverer
  <2>1. CASE /\ ~Push /\ \A pid \in Pid : ~ReceiveOther(pid)
    <3>1. UNCHANGED <<pidOf, disposed, todoUdp, tableManagerMessage, message>>
      BY <1>8, <2>1 DEF Discoverer, LockQueue, RequestOne, TransferOne, CompareTable,
         IgnoreOwn, ReceiveArrival, RespondToArrival, objects, shared
    <3>2. \A k : AtBirth(k)' => AtBirth(k)
      BY <1>t, <1>8, <2>1, <3>1 DEF Discoverer, LockQueue, RequestOne, TransferOne,
         CompareTable, IgnoreOwn, ReceiveArrival, RespondToArrival, AtBirth
    <3> QED BY <1>1, <3>1, <3>2
  <2> QED BY <1>2, <1>3, <2>1
<1>9. ASSUME \/ TryLock \/ Publish \/ NoPublish \/ QueueEmpty \/ Work
             \/ LockQueue("handler", "take", "pop") \/ RequestOne("handler")
             \/ TransferOne("handler", "dispose") \/ Serve
             \/ LockTable("handler", "deposit", "depositing")
             \/ LockTable("tableManager", "poll", "look") \/ NoTable
             \/ CompareTable("tableManager", "dispose") \/ RequestOne("tableManager")
             \/ TransferOne("tableManager", "dispose")
             \/ UNCHANGED vars
      PROVE  ApartInv'
  <2>1. UNCHANGED <<pidOf, disposed, todoUdp, tableManagerMessage, message>>
    BY <1>9 DEF LockQueue, LockTable, RequestOne, TransferOne, CompareTable, Serve, TryLock,
       Publish, NoPublish, QueueEmpty, Work, NoTable, objects, shared, vars
  <2>2. at'["discoverer"] = at["discoverer"]
    BY <1>t, <1>9 DEF LockQueue, LockTable, RequestOne, TransferOne, CompareTable, Serve, TryLock,
       Publish, NoPublish, QueueEmpty, Work, NoTable, vars
  <2> QED BY <1>1, <2>1, <2>2 DEF AtBirth
<1>10. CASE Handler
  BY <1>4, <1>5, <1>7, <1>9, <1>10 DEF Handler, HandlerRuns
<1>11. CASE TableManager
  BY <1>6, <1>7, <1>9, <1>11 DEF TableManager, TableManagerRuns
<1> QED BY <1>8, <1>9, <1>10, <1>11 DEF Next

LEMMA PipelineInvariant == Spec => []IInv
<1>1. IInv /\ [Next]_vars => IInv'
  BY PipelineTypes, LockStep, PointerStep, ApartStep DEF IInv
<1> QED BY <1>1, PipelineInit, PTL DEF Spec

(***************************************************************************)
(* The variables of the pipeline keep their types, for any packet ids and  *)
(* any number of datagrams: TypeOK.                                        *)
(***************************************************************************)
THEOREM PipelineTypesHold == Spec => []TypeOK
<1>1. IInv => TypeOK BY DEF IInv
<1> QED BY <1>1, PipelineInvariant, PTL

(***************************************************************************)
(* No UdpMessage is used by two threads, used after it was deleted or      *)
(* deleted twice, and the pointer the table manager takes is never null:   *)
(* OneHolder.                                                              *)
(***************************************************************************)
THEOREM MessagesHaveOneHolder == Spec => []OneHolder
<1>1. IInv => OneHolder
  <2> SUFFICES ASSUME IInv PROVE OneHolder OBVIOUS
  <2>0. TypeOK /\ PointerInv /\ ApartInv BY DEF IInv
  <2>1. /\ todoUdp \in Seq(Object) /\ message \in [Worker -> Object \cup {Null}]
        /\ tableManagerMessage \in Object \cup {Null} /\ Len(pidOf) \in Nat
        /\ \A i \in 1..Len(todoUdp) : todoUdp[i] \in Object
    BY <2>0 DEF TypeOK
  <2>2. \A k \in Has["queue"] : k \in Object /\ InQueue(k)
    BY <2>1 DEF Has, InQueue
  <2>3. \A k \in Has["discoverer"] : k \in Object /\ AtBirth(k)
    BY <2>0, <2>1 DEF Has, AtBirth, PointerInv, Object
  <2>4. /\ \A k \in Has["handler"] : k = message["handler"] /\ k # Null
        /\ \A k \in Has["tableManager"] : k = message["tableManager"] /\ k # Null
        /\ \A k \in Has["mailbox"] : k = tableManagerMessage /\ k # Null
    BY DEF Has
  <2>5. DOMAIN Has = {"discoverer", "queue", "handler", "mailbox", "tableManager"}
    BY DEF Has
  <2>6. \A g, h \in DOMAIN Has : g # h => \A k \in Has[g] : k \notin Has[h]
    BY <2>0, <2>2, <2>3, <2>4, <2>5 DEF ApartInv
  <2>7. \A h \in DOMAIN Has : \A k \in Has[h] : k \notin disposed
    BY <2>0, <2>2, <2>3, <2>4, <2>5 DEF ApartInv
  <2>8. /\ \A t \in Worker : at[t] \in Working => message[t] # Null
        /\ receivedTable => tableManagerMessage # Null
    BY <2>0 DEF PointerInv
  <2>9. \A i, j \in 1..Len(todoUdp) : i < j => todoUdp[i] < todoUdp[j]
    BY <2>0 DEF ApartInv
  <2> QED BY <2>6, <2>7, <2>8, <2>9 DEF OneHolder
<1> QED BY <1>1, PipelineInvariant, PTL

(***************************************************************************)
(* queueMutex and tableManagerMutex keep the queue and the mailbox to one  *)
(* thread at a time: QueuesMutexed.                                        *)
(***************************************************************************)
THEOREM QueuesAreMutexed == Spec => []QueuesMutexed
<1>1. IInv => QueuesMutexed BY DEF IInv, LockInv, QueuesMutexed
<1> QED BY <1>1, PipelineInvariant, PTL

(***************************************************************************)
(* What becomes of an object.                                              *)
(***************************************************************************)
IsHeld(k) ==
    \/ AtBirth(k) \/ InQueue(k)
    \/ k # Null /\ (k = message["handler"] \/ k = message["tableManager"]
                    \/ k = tableManagerMessage)

HeldIs == \A k : k \in Held <=> IsHeld(k)

LEMMA HeldMeans == HeldIs
<1> SUFFICES ASSUME NEW k PROVE k \in Held <=> IsHeld(k) BY DEF HeldIs
<1>1. DOMAIN Has = {"discoverer", "queue", "handler", "mailbox", "tableManager"}
  BY DEF Has
<1>2. Held = Has["discoverer"] \cup Has["queue"] \cup Has["handler"] \cup Has["mailbox"]
             \cup Has["tableManager"]
  BY <1>1 DEF Held
<1>3. k \in Has["discoverer"] <=> AtBirth(k) BY DEF Has, AtBirth
<1>4. k \in Has["queue"] <=> InQueue(k) BY DEF Has, InQueue
<1>5. /\ k \in Has["handler"] <=> k # Null /\ k = message["handler"]
      /\ k \in Has["tableManager"] <=> k # Null /\ k = message["tableManager"]
      /\ k \in Has["mailbox"] <=> k # Null /\ k = tableManagerMessage
  BY DEF Has
<1> QED BY <1>2, <1>3, <1>4, <1>5 DEF IsHeld

DropsOnlyResponses ==
    \A k : IsHeld(k) /\ ~IsHeld(k)' /\ k \notin disposed' =>
          /\ pidOf[k] = 1 /\ k = tableManagerMessage
          /\ tableManagerMessage' # Null /\ pidOf[tableManagerMessage'] = 1

LEMMA DropStep == IInv /\ [Next]_vars => DropsOnlyResponses
<1> SUFFICES ASSUME IInv, [Next]_vars PROVE DropsOnlyResponses OBVIOUS
<1> USE DEF Thread, Worker, Goes
<1>0. TypeOK /\ PointerInv BY DEF IInv
<1>t. /\ at \in [Thread -> UNION {Place[u] : u \in Thread}]
      /\ message \in [Worker -> Object \cup {Null}] /\ pidOf \in Seq(Pid)
      /\ todoUdp \in Seq(Object) /\ Len(todoUdp) \in Nat /\ Len(pidOf) \in Nat
  BY <1>0 DEF TypeOK
<1>1. ASSUME UNCHANGED <<pidOf, todoUdp, tableManagerMessage, message>>,
             at'["discoverer"] = at["discoverer"] \/ ~\E k : AtBirth(k)
      PROVE  DropsOnlyResponses
  BY <1>1 DEF DropsOnlyResponses, IsHeld, AtBirth, InQueue
<1>2. ASSUME NEW pid \in Pid, ReceiveOther(pid) PROVE DropsOnlyResponses
  <2>1. UNCHANGED <<todoUdp, tableManagerMessage, message>> /\ ~\E k : AtBirth(k)
    BY <1>2 DEF ReceiveOther, shared, AtBirth
  <2> QED BY <2>1 DEF DropsOnlyResponses, IsHeld, InQueue
<1>3. CASE Push
  <2>1. UNCHANGED <<pidOf, tableManagerMessage, message>>
    BY <1>3 DEF Push, objects
  <2>2. /\ Len(todoUdp') = Len(todoUdp) + 1 /\ todoUdp'[Len(todoUdp')] = Len(pidOf)
        /\ \A i \in 1..Len(todoUdp) : todoUdp'[i] = todoUdp[i] /\ i \in 1..Len(todoUdp')
        /\ Len(todoUdp') \in 1..Len(todoUdp')
    BY <1>t, <1>3 DEF Push
  <2>3. \A k : InQueue(k) \/ AtBirth(k) => InQueue(k)'
    BY <2>2 DEF InQueue, AtBirth
  <2> QED BY <2>1, <2>3 DEF DropsOnlyResponses, IsHeld
<1>4. CASE Pop
  <2>1. /\ todoUdp # << >> /\ todoUdp' = Tail(todoUdp) /\ message["handler"] = Null
        /\ message' = [message EXCEPT !["handler"] = Head(todoUdp)]
        /\ UNCHANGED <<pidOf, tableManagerMessage>>
        /\ \A k : AtBirth(k)' <=> AtBirth(k)
    BY <1>0, <1>t, <1>4 DEF Pop, Popped, objects, AtBirth, PointerInv, Working
  <2>2. /\ Len(todoUdp) >= 1 /\ Head(todoUdp) = todoUdp[1] /\ todoUdp[1] \in Object
        /\ Len(todoUdp') = Len(todoUdp) - 1
        /\ \A i \in 1..Len(todoUdp) : i # 1 =>
              i - 1 \in 1..Len(todoUdp') /\ todoUdp'[i - 1] = todoUdp[i]
    BY <1>t, <2>1
  <2>3. \A k : InQueue(k) => InQueue(k)' \/ k = Head(todoUdp)
    BY <2>2 DEF InQueue
  <2>4. /\ message'["handler"] = Head(todoUdp) /\ Head(todoUdp) # Null
        /\ message'["tableManager"] = message["tableManager"]
    BY <1>t, <2>1, <2>2, NullAssumption DEF Object
  <2>5. \A k : IsHeld(k) => IsHeld(k)'
    <3> SUFFICES ASSUME NEW k, IsHeld(k) PROVE IsHeld(k)' OBVIOUS
    <3>1. InQueue(k) => IsHeld(k)' BY <2>3, <2>4 DEF IsHeld
    <3>2. ~InQueue(k) => IsHeld(k)' BY <2>1, <2>4 DEF IsHeld
    <3> QED BY <3>1, <3>2
  <2> QED BY <2>5 DEF DropsOnlyResponses
<1>5. CASE Deposit
  <2>1. /\ tableManagerMessage' = message["handler"] /\ message["handler"] # Null
        /\ pidOf[message["handler"]] = 1
        /\ message' = [message EXCEPT !["handler"] = Null]
        /\ UNCHANGED <<pidOf, todoUdp>> /\ \A k : AtBirth(k)' <=> AtBirth(k)
    BY <1>0, <1>t, <1>5 DEF Deposit, objects, AtBirth, PointerInv, Working
  <2>2. message'["tableManager"] = message["tableManager"] BY <1>t, <2>1
  <2>3. tableManagerMessage # Null => pidOf[tableManagerMessage] = 1
    BY <1>0 DEF PointerInv
  <2>4. \A k : InQueue(k) => InQueue(k)' BY <2>1 DEF InQueue
  <2>5. \A k : IsHeld(k) /\ ~IsHeld(k)' => k # Null /\ k = tableManagerMessage
    BY <2>1, <2>2, <2>4 DEF IsHeld
  <2> QED BY <2>1, <2>3, <2>5 DEF DropsOnlyResponses
<1>6. CASE TakeTable
  <2>1. /\ message["tableManager"] = Null
        /\ message' = [message EXCEPT !["tableManager"] = tableManagerMessage]
        /\ UNCHANGED <<pidOf, todoUdp>> /\ \A k : AtBirth(k)' <=> AtBirth(k)
    BY <1>0, <1>t, <1>6 DEF TakeTable, objects, AtBirth, PointerInv, Working
  <2>2. /\ message'["tableManager"] = tableManagerMessage
        /\ message'["handler"] = message["handler"]
    BY <1>t, <2>1
  <2>3. \A k : InQueue(k) => InQueue(k)' BY <2>1 DEF InQueue
  <2>4. \A k : IsHeld(k) => IsHeld(k)' BY <2>1, <2>2, <2>3 DEF IsHeld
  <2> QED BY <2>4 DEF DropsOnlyResponses
<1>7. ASSUME NEW t \in Worker, NEW to \in {"top", "poll"}, Dispose(t, to)
      PROVE  DropsOnlyResponses
  <2>1. /\ disposed' = disposed \cup {message[t]} /\ message' = [message EXCEPT ![t] = Null]
        /\ UNCHANGED <<pidOf, todoUdp, tableManagerMessage>>
        /\ \A k : AtBirth(k)' <=> AtBirth(k)
    BY <1>t, <1>7 DEF Dispose, shared, AtBirth
  <2>2. \A u \in Worker \ {t} : message'[u] = message[u] BY <1>t, <2>1
  <2> QED BY <2>1, <2>2 DEF DropsOnlyResponses, IsHeld, InQueue
<1>8. CASE Discoverer
  <2>1. CASE ~Push /\ \A pid \in Pid : ~ReceiveOther(pid)
    <3>1. UNCHANGED <<pidOf, todoUdp, tableManagerMessage, message>>
      BY <1>8, <2>1 DEF Discoverer, LockQueue, RequestOne, TransferOne, CompareTable,
         IgnoreOwn, ReceiveArrival, RespondToArrival, objects, shared
    <3>2. \A k : AtBirth(k) => AtBirth(k)'
      BY <1>t, <1>8, <2>1, <3>1 DEF Discoverer, LockQueue, RequestOne, TransferOne,
         CompareTable, IgnoreOwn, ReceiveArrival, RespondToArrival, AtBirth
    <3> QED BY <3>1, <3>2 DEF DropsOnlyResponses, IsHeld, InQueue
  <2> QED BY <1>2, <1>3, <1>8, <2>1
<1>9. ASSUME \/ TryLock \/ Publish \/ NoPublish \/ QueueEmpty \/ Work
             \/ LockQueue("handler", "take", "pop") \/ RequestOne("handler")
             \/ TransferOne("handler", "dispose") \/ Serve
             \/ LockTable("handler", "deposit", "depositing")
             \/ LockTable("tableManager", "poll", "look") \/ NoTable
             \/ CompareTable("tableManager", "dispose") \/ RequestOne("tableManager")
             \/ TransferOne("tableManager", "dispose")
             \/ UNCHANGED vars
      PROVE  DropsOnlyResponses
  <2>1. UNCHANGED <<pidOf, todoUdp, tableManagerMessage, message>>
    BY <1>9 DEF LockQueue, LockTable, RequestOne, TransferOne, CompareTable, Serve, TryLock,
       Publish, NoPublish, QueueEmpty, Work, NoTable, objects, shared, vars
  <2>2. at'["discoverer"] = at["discoverer"]
    BY <1>t, <1>9 DEF LockQueue, LockTable, RequestOne, TransferOne, CompareTable, Serve, TryLock,
       Publish, NoPublish, QueueEmpty, Work, NoTable, vars
  <2> QED BY <1>1, <2>1, <2>2
<1>10. CASE Handler
  BY <1>4, <1>5, <1>7, <1>9, <1>10 DEF Handler, HandlerRuns
<1>11. CASE TableManager
  BY <1>6, <1>7, <1>9, <1>11 DEF TableManager, TableManagerRuns
<1> QED BY <1>8, <1>9, <1>10, <1>11 DEF Next

(***************************************************************************)
(* The only message that is neither kept nor deleted is a response that    *)
(* another response has replaced in the table manager's one place:         *)
(* OnlyResponsesAreDropped.                                                *)
(***************************************************************************)
THEOREM ResponsesReplaceResponses == Spec => OnlyResponsesAreDropped
<1>1. IInv /\ [Next]_vars =>
        [\A k \in Held \ Held' : k \notin disposed' =>
            /\ pidOf[k] = 1 /\ k = tableManagerMessage
            /\ tableManagerMessage' # Null /\ pidOf[tableManagerMessage'] = 1]_vars
  <2>1. HeldIs /\ HeldIs' BY HeldMeans, PTL
  <2> QED BY <2>1, DropStep DEF DropsOnlyResponses, HeldIs
<1> QED BY <1>1, PipelineInvariant, PTL DEF Spec, OnlyResponsesAreDropped

-----------------------------------------------------------------------------
(* The refinement of UdpFlow.                                              *)

LEMMA DatagramsPushed ==
    ASSUME NEW s \in Seq(Object), NEW k \in Object
    PROVE  /\ DatagramsOf(Append(s, k)) = Append(DatagramsOf(s), Datagram(k))
           /\ DatagramsOf(<<k>> \o s) # << >>
           /\ Head(DatagramsOf(<<k>> \o s)) = Datagram(k)
           /\ Tail(DatagramsOf(<<k>> \o s)) = DatagramsOf(s)
<1>1. DatagramsOf(Append(s, k)) = Append(DatagramsOf(s), Datagram(k)) BY DEF DatagramsOf
<1> DEFINE t == <<k>> \o s
<1>2. /\ t \in Seq(Object) /\ Len(t) = Len(s) + 1 /\ t[1] = k
      /\ \A i \in 1..Len(s) : t[i + 1] = s[i]
  OBVIOUS
<1> HIDE DEF t
<1>3. /\ DatagramsOf(t) = [i \in 1..(Len(s) + 1) |-> Datagram(t[i])]
      /\ Len(DatagramsOf(t)) = Len(s) + 1 /\ DatagramsOf(t)[1] = Datagram(k)
      /\ DatagramsOf(t) \in Seq({Datagram(t[i]) : i \in 1..Len(t)})
  BY <1>2 DEF DatagramsOf
<1>4. Tail(DatagramsOf(t)) = [i \in 1..Len(s) |-> DatagramsOf(t)[i + 1]] BY <1>3
<1>5. \A i \in 1..Len(s) : DatagramsOf(t)[i + 1] = Datagram(s[i]) BY <1>2, <1>3
<1>6. Tail(DatagramsOf(t)) = DatagramsOf(s) BY <1>4, <1>5 DEF DatagramsOf
<1>7. DatagramsOf(t) # << >> /\ Head(DatagramsOf(t)) = Datagram(k) BY <1>3
<1> QED BY <1>1, <1>6, <1>7 DEF t

\* What the objects say stays the same when others are made.
Keeps == \A k \in Object \cup {Null} : Datagram(k)' = Datagram(k)

LEMMA DatagramsKept ==
    ASSUME NEW s \in Seq(Object), Keeps PROVE DatagramsOf(s)' = DatagramsOf(s)
BY DEF DatagramsOf, Keeps

LEMMA ObjectsKept ==
    ASSUME TypeOK, \/ UNCHANGED pidOf
                   \/ \E pid \in Pid : pidOf' = Append(pidOf, pid)
    PROVE  Keeps
<1>1. pidOf \in Seq(Pid) BY DEF TypeOK
<1>2. \A k \in Object : pidOf'[k] = pidOf[k] BY <1>1 DEF Object
<1> QED BY <1>2, NullAssumption DEF Keeps, Datagram

\* An arrival is answered at once and never becomes an object.
NoArrivals == \A k \in Object : pidOf[k] # 0

LEMMA NoArrivalsStep == TypeOK /\ NoArrivals /\ [Next]_vars => NoArrivals'
<1> SUFFICES ASSUME TypeOK, NoArrivals, [Next]_vars PROVE NoArrivals' OBVIOUS
<1>1. UNCHANGED pidOf \/ \E pid \in Pid : ReceiveOther(pid)
  BY DEF Next, Discoverer, Handler, HandlerRuns, TableManager, TableManagerRuns, LockQueue,
     LockTable, RequestOne,
     TransferOne, CompareTable, Dispose, IgnoreOwn, ReceiveArrival, RespondToArrival, Push,
     TryLock, Publish, NoPublish, QueueEmpty, Pop, Work, Serve, Deposit, NoTable, TakeTable,
     objects, vars
<1>2. ASSUME NEW pid \in Pid, ReceiveOther(pid) PROVE NoArrivals'
  <2>1. pid # 0 /\ pidOf' = Append(pidOf, pid) /\ pidOf \in Seq(Pid)
    BY <1>2 DEF ReceiveOther, TypeOK
  <2> QED BY <2>1 DEF NoArrivals, Object
<1>3. CASE UNCHANGED pidOf BY <1>3 DEF NoArrivals, Object
<1> QED BY <1>1, <1>2, <1>3

LEMMA FlowStep ==
    IInv /\ IInv' /\ NoArrivals /\ [Next]_vars => [Flow!Next]_(Flow!vars)
<1> SUFFICES ASSUME IInv, IInv', NoArrivals, [Next]_vars PROVE [Flow!Next]_(Flow!vars)
  OBVIOUS
<1> USE DEF Thread, Worker, Goes
<1>0. TypeOK /\ PointerInv /\ TypeOK' /\ PointerInv' BY DEF IInv
<1>t. /\ at \in [Thread -> UNION {Place[u] : u \in Thread}]
      /\ message \in [Worker -> Object \cup {Null}] /\ pidOf \in Seq(Pid)
      /\ tableManagerMessage \in Object \cup {Null}
      /\ todoUdp \in Seq(Object) /\ Len(pidOf) \in Nat
  BY <1>0 DEF TypeOK
<1>h. InHand = << >> \/ \E k \in Object : InHand = <<k>>
  <2>1. at["handler"] \in Working => message["handler"] \in Object
    BY <1>0, <1>t DEF PointerInv
  <2>2. \/ InHand = << >>
        \/ at["handler"] \in {"work", "deposit", "depositing"} /\ InHand = <<message["handler"]>>
    BY DEF InHand
  <2>3. CASE at["handler"] \in {"work", "deposit", "depositing"} /\ InHand = <<message["handler"]>>
    <3>1. message["handler"] \in Object BY <2>1, <2>3 DEF Working
    <3> QED BY <2>3, <3>1
  <2> QED BY <2>2, <2>3
<1>w. Waiting \in Seq(Object) /\ (InHand = << >> => Waiting = todoUdp)
  <2>1. InHand \in Seq(Object)
    <3>1. \A k \in Object : <<k>> \in Seq(Object) OBVIOUS
    <3>2. << >> \in Seq(Object) OBVIOUS
    <3>3. CASE InHand = << >> BY <3>2, <3>3
    <3>4. ASSUME NEW k \in Object, InHand = <<k>> PROVE InHand \in Seq(Object)
      BY <3>1, <3>4
    <3> QED BY <1>h, <3>3, <3>4
  <2>2. Waiting \in Seq(Object) BY <1>t, <2>1 DEF Waiting
  <2>3. InHand = << >> => Waiting = todoUdp BY <1>t DEF Waiting
  <2> QED BY <2>2, <2>3
<1>1. ASSUME UNCHANGED <<todoUdp, tableManagerMessage>>, Keeps,
             Collected' = Collected, InHand' = InHand
      PROVE  UNCHANGED Flow!vars
  <2>1. Waiting' = Waiting BY <1>1 DEF Waiting
  <2>3. DatagramsOf(Waiting)' = DatagramsOf(Waiting)
    BY <1>1, <1>w, <2>1 DEF DatagramsOf, Keeps
  <2>4. Datagram(tableManagerMessage)' = Datagram(tableManagerMessage)
    BY <1>1, <1>t DEF Keeps, Datagram
  <2> QED BY <1>1, <2>3, <2>4 DEF Flow!vars
<1>2. ASSUME NEW pid \in Pid, ReceiveOther(pid) PROVE UNCHANGED Flow!vars
  <2>1. Keeps BY <1>0, <1>2, ObjectsKept DEF ReceiveOther
  <2>2. Collected' = Collected BY <1>t, <1>2 DEF ReceiveOther, Collected
  <2>3. UNCHANGED <<todoUdp, tableManagerMessage, message>> BY <1>2 DEF ReceiveOther, shared
  <2>4. InHand' = InHand
    <3>1. at'["handler"] = at["handler"] BY <1>t, <1>2 DEF ReceiveOther
    <3>2. message["handler"] # Null => pidOf'[message["handler"]] = pidOf[message["handler"]]
      BY <1>t, <1>2 DEF ReceiveOther, Object
    <3>3. at["handler"] \in {"work", "deposit", "depositing"} => message["handler"] # Null
      BY <1>0 DEF PointerInv, Working
    <3> QED BY <2>3, <3>1, <3>2, <3>3 DEF InHand
  <2> QED BY <1>1, <2>1, <2>2, <2>3, <2>4
<1>3. CASE Push
  <2>1. /\ todoUdp' = Append(todoUdp, Len(pidOf)) /\ Len(pidOf) \in Object
        /\ UNCHANGED <<pidOf, tableManagerMessage, message>> /\ at'["handler"] = at["handler"]
    BY <1>0, <1>t, <1>3 DEF Push, objects, PointerInv, Object
  <2>2. Keeps BY <1>0, <2>1, ObjectsKept
  <2>3. InHand' = InHand BY <2>1 DEF InHand
  <2>4. Waiting' = Append(Waiting, Len(pidOf)) BY <1>h, <1>t, <2>1, <2>3 DEF Waiting
  <2>5. DatagramsOf(Waiting)' = Append(DatagramsOf(Waiting), Datagram(Len(pidOf)))
    <3>1. DatagramsOf(Append(Waiting, Len(pidOf)))
            = Append(DatagramsOf(Waiting), Datagram(Len(pidOf)))
      BY <1>w, <2>1, DatagramsPushed
    <3>2. DatagramsOf(Waiting)' = DatagramsOf(Append(Waiting, Len(pidOf)))
      BY <2>1, <2>4 DEF DatagramsOf, Datagram
    <3> QED BY <3>1, <3>2
  <2>6. Collected' = Len(pidOf) /\ Collected = Len(pidOf) - 1
    BY <1>t, <1>3, <2>1 DEF Push, Collected
  <2>7. Datagram(Len(pidOf)) = [no |-> Len(pidOf), pid |-> pidOf[Len(pidOf)]]
    BY <1>t, NullAssumption DEF Datagram
  <2>8. pidOf[Len(pidOf)] \in Pid \ {0} BY <1>t, <2>1 DEF NoArrivals, Object
  <2>9. Datagram(tableManagerMessage)' = Datagram(tableManagerMessage)
    BY <2>1 DEF Datagram
  <2>10. Collected' = Collected + 1 BY <1>t, <2>6
  <2>11. Flow!Collect(pidOf[Len(pidOf)])
    BY <2>5, <2>6, <2>7, <2>9, <2>10 DEF Flow!Collect
  <2> QED BY <2>8, <2>11 DEF Flow!Next
<1>4. CASE Pop
  <2>1. /\ todoUdp # << >> /\ todoUdp' = Tail(todoUdp)
        /\ message'["handler"] = Head(todoUdp) /\ at["handler"] = "pop" /\ at'["handler"] = "work"
        /\ UNCHANGED <<pidOf, tableManagerMessage>> /\ at'["discoverer"] = at["discoverer"]
    BY <1>t, <1>4 DEF Pop, Popped, objects
  <2>2. Head(todoUdp) \in Object /\ Tail(todoUdp) \in Seq(Object)
        /\ todoUdp = <<Head(todoUdp)>> \o Tail(todoUdp)
    BY <1>t, <2>1
  <2>3. Keeps BY <1>0, <2>1, ObjectsKept
  <2>4. InHand = << >> /\ Waiting = todoUdp BY <1>w, <2>1 DEF InHand
  <2>5. Collected' = Collected BY <2>1 DEF Collected
  <2>6. Datagram(tableManagerMessage)' = Datagram(tableManagerMessage) BY <2>1 DEF Datagram
  <2>7. CASE pidOf[Head(todoUdp)] = 1
    <3>1. InHand' = <<Head(todoUdp)>> BY <2>1, <2>7 DEF InHand
    <3>2. Waiting' = Waiting BY <2>1, <2>2, <2>4, <3>1 DEF Waiting
    <3>3. DatagramsOf(Waiting)' = DatagramsOf(Waiting)
      BY <1>w, <2>3, <3>2 DEF DatagramsOf, Keeps
    <3> QED BY <2>5, <2>6, <3>3 DEF Flow!vars
  <2>8. CASE pidOf[Head(todoUdp)] # 1
    <3>1. InHand' = << >> BY <2>1, <2>8 DEF InHand
    <3>2. Waiting' = Tail(todoUdp) BY <2>1, <2>2, <3>1 DEF Waiting
    <3>3. DatagramsOf(Waiting)' = DatagramsOf(Tail(todoUdp))
      BY <2>1, <3>2 DEF DatagramsOf, Datagram
    <3>4. /\ DatagramsOf(Waiting) # << >> /\ Tail(DatagramsOf(Waiting)) = DatagramsOf(Tail(todoUdp))
          /\ Head(DatagramsOf(Waiting)) = Datagram(Head(todoUdp))
      BY <2>2, <2>4, DatagramsPushed
    <3>5. Datagram(Head(todoUdp)).pid # 1 BY <2>2, <2>8, NullAssumption DEF Datagram, Object
    <3>6. Flow!Handle BY <2>5, <2>6, <3>3, <3>4, <3>5 DEF Flow!Handle
    <3> QED BY <3>6 DEF Flow!Next
  <2> QED BY <2>7, <2>8
<1>5. CASE Work
  <2>1. /\ UNCHANGED <<todoUdp, tableManagerMessage, message, pidOf>>
        /\ at'["discoverer"] = at["discoverer"] /\ at["handler"] = "work"
        /\ at'["handler"] \in {"deposit", "serve", "request", "dispose"}
        /\ at'["handler"] = "deposit" <=> pidOf[message["handler"]] = 1
    <3>1. PICK to \in After(pidOf[message["handler"]]) : Goes("handler", "work", to)
      BY <1>5 DEF Work
    <3>2. /\ to \in {"deposit", "serve", "request", "dispose"}
          /\ to = "deposit" <=> pidOf[message["handler"]] = 1
      BY <3>1, SwitchLeads DEF After
    <3> QED BY <1>t, <1>5, <3>1, <3>2 DEF Work, objects, shared
  <2>2. InHand' = InHand /\ Collected' = Collected
    BY <2>1 DEF InHand, Collected
  <2>3. Keeps BY <1>0, <2>1, ObjectsKept
  <2> QED BY <1>1, <2>1, <2>2, <2>3
<1>6. CASE Deposit
  <2>1. /\ tableManagerMessage' = message["handler"] /\ message["handler"] \in Object
        /\ pidOf[message["handler"]] = 1 /\ UNCHANGED <<pidOf, todoUdp>>
        /\ at["handler"] = "depositing" /\ at'["handler"] = "top"
        /\ at'["discoverer"] = at["discoverer"]
    BY <1>0, <1>t, <1>6 DEF Deposit, objects, PointerInv, Working
  <2>2. InHand = <<message["handler"]>> /\ InHand' = << >> BY <2>1 DEF InHand
  <2>3. Waiting = <<message["handler"]>> \o todoUdp /\ Waiting' = todoUdp
    BY <1>t, <2>1, <2>2 DEF Waiting
  <2>4. /\ DatagramsOf(Waiting) # << >> /\ Tail(DatagramsOf(Waiting)) = DatagramsOf(todoUdp)
        /\ Head(DatagramsOf(Waiting)) = Datagram(message["handler"])
    BY <1>t, <2>1, <2>3, DatagramsPushed
  <2>5. DatagramsOf(Waiting)' = DatagramsOf(todoUdp)
    BY <2>1, <2>3 DEF DatagramsOf, Datagram
  <2>6. Datagram(tableManagerMessage)' = Datagram(message["handler"]) BY <2>1 DEF Datagram
  <2>7. Datagram(message["handler"]).pid = 1 BY <2>1, NullAssumption DEF Datagram, Object
  <2>8. Collected' = Collected BY <2>1 DEF Collected
  <2>9. Flow!Handle BY <2>4, <2>5, <2>6, <2>7, <2>8 DEF Flow!Handle
  <2> QED BY <2>9 DEF Flow!Next
<1>7. CASE TakeTable
  <2>1. /\ tableManagerMessage \in Object /\ tableManagerMessage' = Null
        /\ message'["handler"] = message["handler"] /\ UNCHANGED <<pidOf, todoUdp>>
        /\ at'["handler"] = at["handler"] /\ at'["discoverer"] = at["discoverer"]
    BY <1>0, <1>t, <1>7 DEF TakeTable, objects, PointerInv
  <2>2. InHand' = InHand /\ Collected' = Collected BY <2>1 DEF InHand, Collected
  <2>3. Waiting' = Waiting BY <2>1, <2>2 DEF Waiting
  <2>4. Keeps BY <1>0, <2>1, ObjectsKept
  <2>5. DatagramsOf(Waiting)' = DatagramsOf(Waiting)
    BY <1>w, <2>3, <2>4 DEF DatagramsOf, Keeps
  <2>6. Datagram(tableManagerMessage)' = Null BY <2>1 DEF Datagram
  <2>7. Datagram(tableManagerMessage) # Null
    <3>1. pidOf[tableManagerMessage] \in Pid /\ tableManagerMessage \in Nat
          /\ tableManagerMessage # Null
      BY <1>t, <2>1, NullAssumption DEF Object
    <3>2. Datagram(tableManagerMessage) \in [no : Nat, pid : Pid] BY <3>1 DEF Datagram
    <3> QED BY <3>2, NullAssumption
  <2>8. Flow!Take BY <2>2, <2>5, <2>6, <2>7 DEF Flow!Take
  <2> QED BY <2>8 DEF Flow!Next
<1>8. ASSUME NEW t \in Worker, NEW to \in {"top", "poll"}, Dispose(t, to)
      PROVE  UNCHANGED Flow!vars
  <2>1. /\ UNCHANGED <<pidOf, todoUdp, tableManagerMessage>>
        /\ at["handler"] \notin {"work", "deposit", "depositing"} \/ t # "handler"
        /\ t = "handler" => at'["handler"] = "top" \/ at'["handler"] = "poll"
        /\ t # "handler" => at'["handler"] = at["handler"] /\ message'["handler"] = message["handler"]
        /\ at'["discoverer"] = at["discoverer"]
    BY <1>t, <1>8 DEF Dispose, shared
  <2>2. InHand' = InHand /\ Collected' = Collected BY <2>1 DEF InHand, Collected
  <2>3. Keeps BY <1>0, <2>1, ObjectsKept
  <2> QED BY <1>1, <2>1, <2>2, <2>3
\* All other steps: the discoverer's, and those between two locks.
<1>9. ASSUME UNCHANGED <<pidOf, todoUdp, tableManagerMessage, message>>,
             \/ at["handler"] = at'["handler"]
             \/ {at["handler"], at'["handler"]} \cap {"work", "deposit", "depositing"} = {}
             \/ at["handler"] = "deposit" /\ at'["handler"] = "depositing",
             \/ at["discoverer"] = at'["discoverer"]
             \/ {at["discoverer"], at'["discoverer"]} \cap {"queue", "push"} = {}
             \/ at["discoverer"] = "queue" /\ at'["discoverer"] = "push"
      PROVE  UNCHANGED Flow!vars
  <2>1. InHand' = InHand /\ Collected' = Collected BY <1>9 DEF InHand, Collected
  <2>2. Keeps BY <1>0, <1>9, ObjectsKept
  <2> QED BY <1>1, <1>9, <2>1, <2>2
<1>10. CASE Discoverer
  <2>1. CASE ~Push /\ \A pid \in Pid : ~ReceiveOther(pid)
    <3>1. UNCHANGED <<pidOf, todoUdp, tableManagerMessage, message>>
      BY <1>10, <2>1 DEF Discoverer, LockQueue, RequestOne, TransferOne,
         CompareTable, IgnoreOwn, ReceiveArrival, RespondToArrival, objects, shared
    <3>2. at'["handler"] = at["handler"]
      BY <1>10, <1>t, <2>1 DEF Discoverer, LockQueue, RequestOne, TransferOne,
         CompareTable, IgnoreOwn, ReceiveArrival, RespondToArrival
    <3>3. \/ at["discoverer"] = at'["discoverer"]
          \/ {at["discoverer"], at'["discoverer"]} \cap {"queue", "push"} = {}
          \/ at["discoverer"] = "queue" /\ at'["discoverer"] = "push"
      BY <1>10, <1>t, <2>1 DEF Discoverer, LockQueue, RequestOne, TransferOne,
         CompareTable, IgnoreOwn, ReceiveArrival, RespondToArrival
    <3> QED BY <1>9, <3>1, <3>2, <3>3
  <2> QED BY <1>2, <1>3, <1>10, <2>1
<1>11. ASSUME \/ TryLock \/ Publish \/ NoPublish \/ QueueEmpty
              \/ LockQueue("handler", "take", "pop") \/ RequestOne("handler")
              \/ TransferOne("handler", "dispose") \/ Serve
              \/ LockTable("handler", "deposit", "depositing")
              \/ LockTable("tableManager", "poll", "look") \/ NoTable
              \/ CompareTable("tableManager", "dispose") \/ RequestOne("tableManager")
              \/ TransferOne("tableManager", "dispose")
       PROVE  UNCHANGED Flow!vars
  <2>1. UNCHANGED <<pidOf, todoUdp, tableManagerMessage, message>>
    BY <1>11 DEF LockQueue, LockTable, RequestOne, TransferOne, CompareTable, Serve, TryLock,
       Publish, NoPublish, QueueEmpty, NoTable, objects, shared
  <2>2. at["discoverer"] = at'["discoverer"]
    BY <1>11, <1>t DEF LockQueue, LockTable, RequestOne, TransferOne, CompareTable, Serve, TryLock,
       Publish, NoPublish, QueueEmpty, NoTable
  <2>3. \/ at["handler"] = at'["handler"]
        \/ {at["handler"], at'["handler"]} \cap {"work", "deposit", "depositing"} = {}
        \/ at["handler"] = "deposit" /\ at'["handler"] = "depositing"
    BY <1>11, <1>t DEF LockQueue, LockTable, RequestOne, TransferOne, CompareTable, Serve, TryLock,
       Publish, NoPublish, QueueEmpty, NoTable
  <2> QED BY <1>9, <2>1, <2>2, <2>3
<1>12. CASE Handler
  BY <1>4, <1>5, <1>6, <1>8, <1>11, <1>12 DEF Handler, HandlerRuns
<1>13. CASE TableManager
  BY <1>7, <1>8, <1>11, <1>13 DEF TableManager, TableManagerRuns
<1>14. CASE UNCHANGED vars
  <2>1. UNCHANGED <<pidOf, todoUdp, tableManagerMessage, message>> /\ at' = at
    BY <1>14 DEF vars, objects, shared
  <2> QED BY <1>9, <2>1
<1> QED BY <1>10, <1>12, <1>13, <1>14 DEF Next

(***************************************************************************)
(* The steps between two lock operations add up to the four steps that     *)
(* FileSync has for them, in the order of arrival: Flows.                  *)
(***************************************************************************)
THEOREM PipelineFlows == Spec => Flows
<1>1. Init => Flow!Init /\ NoArrivals
  <2> SUFFICES ASSUME Init PROVE Flow!Init /\ NoArrivals OBVIOUS
  <2>1. pidOf = << >> /\ Len(pidOf) = 0 /\ todoUdp = << >> /\ tableManagerMessage = Null
        /\ InHand = << >> /\ Collected = 0
    BY DEF Init, InHand, Collected
  <2>2. Waiting = << >> /\ Len(Waiting) = 0 BY <2>1 DEF Waiting
  <2>3. DatagramsOf(Waiting) = << >> BY <2>2 DEF DatagramsOf
  <2>4. Datagram(tableManagerMessage) = Null BY <2>1 DEF Datagram
  <2> QED BY <2>1, <2>3, <2>4 DEF Flow!Init, NoArrivals, Object
<1>2. IInv => TypeOK BY DEF IInv
<1> QED BY <1>1, <1>2, NoArrivalsStep, FlowStep, PipelineInvariant, PTL
        DEF Spec, Flows, Flow!Spec

=============================================================================
