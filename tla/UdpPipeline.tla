----------------------------- MODULE UdpPipeline -----------------------------
(***************************************************************************)
(* The discoverer, handler and table manager of one node between two lock  *)
(* operations: who holds which mutex, who has which UdpMessage object, who *)
(* reads and who writes Node::fileHashes.  Any datagram may come at any    *)
(* time, so a lost, doubled or late one is among them.                     *)
(*                                                                         *)
(* An object is known by the number of its allocation; requestFiles and    *)
(* the transfers are FileSync's: here a comparison finds nothing or a list *)
(* that takes dirLock once, and a thread that asks for a file, or serves   *)
(* one, comes back from that or never does.                                *)
(***************************************************************************)
EXTENDS Naturals, Sequences, FiniteSets

CONSTANTS Pid,           \* packet ids that come in
          Null,          \* the null pointer
          MaxDatagrams   \* bound: datagrams that come in

ASSUME PidAssumption  == Pid \subseteq Nat
ASSUME NullAssumption == Null \notin Nat \cup [no : Nat, pid : Pid]
ASSUME MaxAssumption  == MaxDatagrams \in Nat

Thread == {"discoverer", "handler", "tableManager"}
Worker == {"handler", "tableManager"}    \* threads with a local UdpMessage*
Free   == "free"

VARIABLES
    received,        \* datagrams so far
    pidOf,           \* the UdpMessage objects allocated so far: their pids
    disposed,        \* objects given to disposeUdpMessage
    todoUdp, tableManagerMessage, receivedTable,
    queueMutex, tableManagerMutex, dirLock,    \* their holders
    at,              \* where each thread is
    message          \* the local pointers of handler and table manager

objects == <<received, pidOf, disposed>>
shared  == <<todoUdp, tableManagerMessage, receivedTable>>
locks   == <<queueMutex, tableManagerMutex, dirLock>>
vars    == <<objects, shared, locks, at, message>>

Object == 1..Len(pidOf)

Goes(t, from, to) == at[t] = from /\ at' = [at EXCEPT ![t] = to]

Init ==
    /\ received = 0 /\ pidOf = << >> /\ disposed = {}
    /\ todoUdp = << >> /\ tableManagerMessage = Null /\ receivedTable = FALSE
    /\ queueMutex = Free /\ tableManagerMutex = Free /\ dirLock = Free
    /\ at = [discoverer |-> "select", handler |-> "top", tableManager |-> "poll"]
    /\ message = [t \in Worker |-> Null]

-----------------------------------------------------------------------------
(* Steps of more than one thread.                                          *)

\* Mutant: queueMutex is not taken.
QueueUnlocked(t) == TRUE
QueueFree(t) == queueMutex = Free

LockQueue(t, from, to) ==
    /\ QueueFree(t) /\ Goes(t, from, to)
    /\ queueMutex' = t
    /\ UNCHANGED <<objects, shared, tableManagerMutex, dirLock, message>>

LockTable(t, from, to) ==
    /\ tableManagerMutex = Free /\ Goes(t, from, to)
    /\ tableManagerMutex' = t
    /\ UNCHANGED <<objects, shared, queueMutex, dirLock, message>>

\* requestFiles takes dirLock for a change.
RequestOne(t) ==
    /\ dirLock = Free /\ Goes(t, "request", "transfer")
    /\ dirLock' = t
    /\ UNCHANGED <<objects, shared, queueMutex, tableManagerMutex, message>>

\* negotiateTCPTransfer has returned, or was not called for the change.
TransferOne(t, to) ==
    /\ Goes(t, "transfer", to)
    /\ dirLock' = Free
    /\ UNCHANGED <<objects, shared, queueMutex, tableManagerMutex, message>>

Dispose(t, to) ==
    /\ Goes(t, "dispose", to)
    /\ disposed' = disposed \cup {message[t]}
    /\ message' = [message EXCEPT ![t] = Null]
    /\ UNCHANGED <<received, pidOf, shared, locks>>

-----------------------------------------------------------------------------
(* The discoverer: collectUdpTraffic.                                      *)

Arrives == received < MaxDatagrams /\ received' = received + 1

IgnoreOwn ==
    /\ Arrives /\ at["discoverer"] = "select"
    /\ UNCHANGED <<pidOf, disposed, shared, locks, at, message>>

\* pid 0: respondToArrival, and then dealWithHashTable, read fileHashes.
ReceiveArrival ==
    /\ Arrives /\ 0 \in Pid /\ Goes("discoverer", "select", "respond")
    /\ UNCHANGED <<pidOf, disposed, shared, locks, message>>

RespondToArrival ==
    /\ Goes("discoverer", "respond", "compare")
    /\ UNCHANGED <<objects, shared, locks, message>>

\* Another pid: new UdpMessage().
ReceiveOther(pid) ==
    /\ Arrives /\ pid # 0 /\ Goes("discoverer", "select", "queue")
    /\ pidOf' = Append(pidOf, pid)
    /\ UNCHANGED <<disposed, shared, locks, message>>

Push ==
    /\ Goes("discoverer", "push", "select")
    /\ todoUdp' = Append(todoUdp, Len(pidOf))
    /\ queueMutex' = Free
    /\ UNCHANGED <<objects, tableManagerMessage, receivedTable, tableManagerMutex,
                   dirLock, message>>

\* There is something to request, or nothing.
CompareTable(t, to) ==
    /\ Goes(t, "compare", "request") \/ Goes(t, "compare", to)
    /\ UNCHANGED <<objects, shared, locks, message>>

Discoverer ==
    \/ IgnoreOwn \/ ReceiveArrival \/ RespondToArrival
    \/ \E pid \in Pid : ReceiveOther(pid)
    \/ LockQueue("discoverer", "queue", "push") \/ Push
    \/ CompareTable("discoverer", "select") \/ RequestOne("discoverer")
    \/ TransferOne("discoverer", "select")

-----------------------------------------------------------------------------
(* The handler: handleUdp.                                                 *)

\* try_lock succeeds, and fileChangeBuf is not empty.
TryLock ==
    /\ dirLock = Free /\ Goes("handler", "top", "publish")
    /\ dirLock' = "handler"
    /\ UNCHANGED <<objects, shared, queueMutex, tableManagerMutex, message>>

\* fileHashes is brought up to date.
Publish ==
    /\ Goes("handler", "publish", "take")
    /\ dirLock' = Free
    /\ UNCHANGED <<objects, shared, queueMutex, tableManagerMutex, message>>

NoPublish ==
    /\ Goes("handler", "top", "take")
    /\ UNCHANGED <<objects, shared, locks, message>>

\* Mutant: the early return does not unlock.
QueueEmptyLocked ==
    /\ todoUdp = << >> /\ Goes("handler", "pop", "top")
    /\ UNCHANGED <<objects, shared, locks, message>>

QueueEmpty ==
    /\ todoUdp = << >> /\ Goes("handler", "pop", "top")
    /\ queueMutex' = Free
    /\ UNCHANGED <<objects, shared, tableManagerMutex, dirLock, message>>

\* Mutant: front() without pop().
FrontOnly == todoUdp
Popped    == Tail(todoUdp)

Pop ==
    /\ todoUdp # << >> /\ Goes("handler", "pop", "work")
    /\ message' = [message EXCEPT !["handler"] = Head(todoUdp)]
    /\ todoUdp' = Popped
    /\ queueMutex' = Free
    /\ UNCHANGED <<objects, tableManagerMessage, receivedTable, tableManagerMutex, dirLock>>

\* Where the cases of the switch lead.  Case 5 ends at once when the file is
\* not there, the list of case 6 is never empty, and a 2 or an unknown pid is
\* dropped.
After(pid) == CASE pid = 1 -> {"deposit"}
                [] pid = 5 -> {"serve", "dispose"}
                [] pid = 6 -> {"request"}
                [] OTHER   -> {"dispose"}

\* Mutant: a packet nobody knows is dropped by a return.
WorkReturning ==
    /\ at["handler"] = "work"
    /\ LET pid == pidOf[message["handler"]]
       IN  \E to \in IF pid \in {1, 5, 6} THEN After(pid) ELSE {"top"} :
              Goes("handler", "work", to)
    /\ UNCHANGED <<objects, shared, locks, message>>

\* The switch.
Work ==
    /\ at["handler"] = "work"
    /\ \E to \in After(pidOf[message["handler"]]) : Goes("handler", "work", to)
    /\ UNCHANGED <<objects, shared, locks, message>>

\* The client has connected (accept), and sendFile has sent it the file.
Serve ==
    /\ Goes("handler", "serve", "dispose")
    /\ UNCHANGED <<objects, shared, locks, message>>

\* Mutant: doDispose stays true.
DepositDisposing ==
    /\ Goes("handler", "depositing", "dispose")
    /\ receivedTable' = TRUE
    /\ tableManagerMessage' = message["handler"]
    /\ tableManagerMutex' = Free
    /\ UNCHANGED <<objects, todoUdp, message, queueMutex, dirLock>>

Deposit ==
    /\ Goes("handler", "depositing", "top")
    /\ receivedTable' = TRUE
    /\ tableManagerMessage' = message["handler"]
    /\ message' = [message EXCEPT !["handler"] = Null]
    /\ tableManagerMutex' = Free
    /\ UNCHANGED <<objects, todoUdp, queueMutex, dirLock>>

HandlerRuns ==
    \/ TryLock \/ Publish \/ NoPublish
    \/ LockQueue("handler", "take", "pop") \/ QueueEmpty \/ Pop \/ Work
    \/ LockTable("handler", "deposit", "depositing") \/ Deposit
    \/ RequestOne("handler") \/ Dispose("handler", "top")

Handler == HandlerRuns \/ Serve \/ TransferOne("handler", "dispose")

-----------------------------------------------------------------------------
(* The table manager: tableManagerDriver.                                  *)

NoTable ==
    /\ ~receivedTable /\ Goes("tableManager", "look", "poll")
    /\ tableManagerMutex' = Free
    /\ UNCHANGED <<objects, shared, queueMutex, dirLock, message>>

\* Mutant: the flag is not flipped back.
StaysSet == TRUE
FlippedBack == FALSE

TakeTable ==
    /\ receivedTable /\ Goes("tableManager", "look", "compare")
    /\ receivedTable' = FlippedBack
    /\ message' = [message EXCEPT !["tableManager"] = tableManagerMessage]
    /\ tableManagerMessage' = Null
    /\ tableManagerMutex' = Free
    /\ UNCHANGED <<objects, todoUdp, queueMutex, dirLock>>

TableManagerRuns ==
    \/ LockTable("tableManager", "poll", "look") \/ NoTable \/ TakeTable
    \/ CompareTable("tableManager", "dispose") \/ RequestOne("tableManager")
    \/ Dispose("tableManager", "poll")

TableManager == TableManagerRuns \/ TransferOne("tableManager", "dispose")

-----------------------------------------------------------------------------
Next == Discoverer \/ Handler \/ TableManager

Spec == Init /\ [][Next]_vars

\* Every thread runs on, and one that asks for a mutex that is free time and
\* again gets it at last.  Nothing makes Serve and TransferOne end: accept and
\* receive wait for the other node without a timeout.
FairSpec ==
    /\ Spec
    /\ WF_vars(HandlerRuns) /\ WF_vars(TableManagerRuns) /\ WF_vars(Push)
    /\ SF_vars(LockQueue("discoverer", "queue", "push"))
    /\ SF_vars(LockTable("handler", "deposit", "depositing"))
    /\ \A t \in Thread : SF_vars(RequestOne(t))

-----------------------------------------------------------------------------
(* Properties.                                                             *)

Place == [
    discoverer   |-> {"select", "respond", "compare", "request", "transfer", "queue", "push"},
    handler      |-> {"top", "publish", "take", "pop", "work", "deposit", "depositing",
                      "serve", "request", "transfer", "dispose"},
    tableManager |-> {"poll", "look", "compare", "request", "transfer", "dispose"}]

TypeOK ==
    /\ received \in 0..MaxDatagrams
    /\ pidOf \in Seq(Pid) /\ disposed \subseteq Object
    /\ todoUdp \in Seq(Object)
    /\ tableManagerMessage \in Object \cup {Null} /\ receivedTable \in BOOLEAN
    /\ {queueMutex, tableManagerMutex, dirLock} \subseteq Thread \cup {Free}
    /\ at \in [Thread -> UNION {Place[t] : t \in Thread}]
    /\ \A t \in Thread : at[t] \in Place[t]
    /\ message \in [Worker -> Object \cup {Null}]

(***************************************************************************)
(* A UdpMessage is handed on by pointer, from the discoverer through the   *)
(* queue to the handler and from there to the table manager, and deleted   *)
(* by whoever is last: no place has an object that another has or that is  *)
(* deleted, and no thread works without one.                               *)
(***************************************************************************)
Has == [discoverer   |-> IF at["discoverer"] \in {"queue", "push"} THEN {Len(pidOf)} ELSE {},
        queue        |-> {todoUdp[i] : i \in 1..Len(todoUdp)},
        handler      |-> {message["handler"]} \ {Null},
        mailbox      |-> {tableManagerMessage} \ {Null},
        tableManager |-> {message["tableManager"]} \ {Null}]

Working == {"work", "deposit", "depositing", "serve", "compare", "request", "transfer",
            "dispose"}

OneHolder ==
    /\ \A g, h \in DOMAIN Has : g # h => Has[g] \cap Has[h] = {}
    /\ \A h \in DOMAIN Has : Has[h] \cap disposed = {}
    /\ \A i, j \in 1..Len(todoUdp) : i < j => todoUdp[i] < todoUdp[j]
    /\ \A t \in Worker : at[t] \in Working => message[t] # Null
    /\ receivedTable => tableManagerMessage # Null

(***************************************************************************)
(* An object that nobody deletes is a response that lay in the one place   *)
(* of the table manager when the next came ("tableManagerMessage =         *)
(* message" does not look what was there).                                 *)
(***************************************************************************)
Held == UNION {Has[h] : h \in DOMAIN Has}

OnlyResponsesAreDropped ==
    [][\A k \in Held \ Held' : k \notin disposed' =>
          /\ pidOf[k] = 1 /\ k = tableManagerMessage
          /\ tableManagerMessage' # Null /\ pidOf[tableManagerMessage'] = 1]_vars

(***************************************************************************)
(* The steps between two lock operations add up to those of FileSync.      *)
(***************************************************************************)
Datagram(k) == IF k = Null THEN Null ELSE [no |-> k, pid |-> pidOf[k]]
DatagramsOf(s) == [i \in 1..Len(s) |-> Datagram(s[i])]

\* A response the handler has taken and not yet passed on.
InHand == IF at["handler"] \in {"work", "deposit", "depositing"}
             /\ pidOf[message["handler"]] = 1
          THEN <<message["handler"]>> ELSE << >>

Waiting == InHand \o todoUdp

Collected == IF at["discoverer"] \in {"queue", "push"} THEN Len(pidOf) - 1 ELSE Len(pidOf)

Flow == INSTANCE UdpFlow
        WITH collected <- Collected, tableMsg <- Datagram(tableManagerMessage),
             todo <- DatagramsOf(Waiting), Nothing <- Null
Flows == Flow!Spec

(***************************************************************************)
(* What the threads do among themselves keeps nobody waiting: as long as   *)
(* each comes back from the files it asks for and serves ("transfer",      *)
(* "serve": only another node can keep it there), no datagram that was     *)
(* collected stays in the queue, in the mailbox or in a thread's hands for *)
(* good, whoever holds which mutex meanwhile.                              *)
(***************************************************************************)
ComesBack(t) == []<>(at[t] \notin {"serve", "transfer"})

EveryMessageEnds ==
    (\A t \in Thread : ComesBack(t))
        => \A k \in 1..MaxDatagrams : (k \in Object) ~> (k \in Object \ Held)

(***************************************************************************)
(* Node.h has todoUdp, fileHashes and tableManagerMessage under the        *)
(* heading "mutexed stuff".  Of the queue and of the mailbox it is true    *)
(* that two threads are never at them at once.                             *)
(***************************************************************************)
QueuesMutexed ==
    /\ ~(at["discoverer"] = "push" /\ at["handler"] = "pop")
    /\ ~(at["handler"] = "depositing" /\ at["tableManager"] = "look")

(***************************************************************************)
(* Of fileHashes it should be, too: while the handler enters changes in    *)
(* it, nobody sends it or compares with it.                                *)
(***************************************************************************)
TableMutexed ==
    at["handler"] = "publish" =>
        /\ at["discoverer"] \notin {"respond", "compare"}
        /\ at["tableManager"] # "compare"

=============================================================================
