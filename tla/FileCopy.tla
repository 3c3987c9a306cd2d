------------------------------ MODULE FileCopy ------------------------------
(***************************************************************************)
(* What a transfer promises: it delivers the file, all at once, or it does *)
(* not deliver.  When something disturbs it - a user writes to the file, a *)
(* connection breaks, a disk is full - it may deliver anything.            *)
(***************************************************************************)
EXTENDS Sequences

CONSTANTS Byte,
          NoCopy    \* nothing is delivered yet

VARIABLES file,       \* the file of the server
          copy,       \* what the client has
          disturbed

Init ==
    /\ file \in Seq(Byte)
    /\ copy = NoCopy
    /\ disturbed = FALSE

Deliver ==
    /\ copy = NoCopy
    /\ copy' \in Seq(Byte)
    /\ ~disturbed => copy' = file
    /\ UNCHANGED <<file, disturbed>>

Disturb ==
    /\ disturbed' = TRUE
    /\ file' \in Seq(Byte)
    /\ UNCHANGED copy

Next == Deliver \/ Disturb

Spec == Init /\ [][Next]_<<file, copy, disturbed>>

=============================================================================
