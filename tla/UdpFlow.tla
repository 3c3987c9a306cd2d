------------------------------- MODULE UdpFlow -------------------------------
(***************************************************************************)
(* The way of a datagram through a node, in the steps FileSync has for it: *)
(* the discoverer collects it (CollectForHandler), the handler takes the   *)
(* datagrams in the order they came (Pops) and leaves a response in the    *)
(* one place of the table manager (HandleResponse), who takes it           *)
(* (TakeTable).                                                            *)
(***************************************************************************)
EXTENDS Naturals, Sequences

CONSTANTS Pid, Nothing

VARIABLES collected,    \* how many datagrams have been collected
          todo,         \* those that wait for the handler
          tableMsg      \* the one that waits for the table manager

vars == <<collected, todo, tableMsg>>

Init == collected = 0 /\ todo = << >> /\ tableMsg = Nothing

Collect(pid) ==
    /\ collected' = collected + 1
    /\ todo' = Append(todo, [no |-> collected', pid |-> pid])
    /\ UNCHANGED tableMsg

Handle ==
    /\ todo # << >>
    /\ todo' = Tail(todo)
    /\ tableMsg' = IF Head(todo).pid = 1 THEN Head(todo) ELSE tableMsg
    /\ UNCHANGED collected

Take ==
    /\ tableMsg # Nothing
    /\ tableMsg' = Nothing
    /\ UNCHANGED <<collected, todo>>

Next == Handle \/ Take \/ \E pid \in Pid \ {0} : Collect(pid)

Spec == Init /\ [][Next]_vars

=============================================================================
