--------------------------- MODULE SharedFolders ---------------------------
(***************************************************************************)
(* What may happen to the shared folders, whatever the nodes send each     *)
(* other: users change files, and a node fetches one file at a time.  What *)
(* it fetches is what another node has of the same path at the moment it   *)
(* is done.  Only a copy of a file that is itself being fetched, or that   *)
(* changes before the copy is done, may be a torn one.                     *)
(***************************************************************************)
CONSTANTS Node, Path, Hash, NoFile,
          Partial,   \* a file that is being fetched
          Torn       \* a copy that is not whole

VARIABLES folder,
          spoilt     \* nodes whose copy may not be whole

vars == <<folder, spoilt>>

Content == Hash \cup {NoFile}

Init == folder \in [Node -> [Path -> Content \ {Partial}]] /\ spoilt = {}

\* Whoever is fetching the path may be fetching it from n.
Disturbs(n, p) ==
    /\ spoilt \subseteq spoilt'
    /\ \A m \in spoilt' \ spoilt : m # n /\ folder[m][p] = Partial

\* A user writes or removes a file, or a node removes one that another lacks.
Edit(n, p) ==
    /\ folder[n][p] # Partial
    /\ \E c \in Content \ {Partial, Torn} : folder' = [folder EXCEPT ![n][p] = c]
    /\ Disturbs(n, p)

Open(n, p) ==
    /\ \A q \in Path : folder[n][q] # Partial
    /\ folder' = [folder EXCEPT ![n][p] = Partial]
    /\ Disturbs(n, p)

\* n finds that m is fetching the file, too.
Meet(n, p, m) ==
    /\ m # n /\ folder[n][p] = Partial /\ folder[m][p] = Partial
    /\ spoilt' = spoilt \cup {n}
    /\ UNCHANGED folder

Complete(n, p, m) ==
    /\ folder[n][p] = Partial
    /\ m # n /\ folder[m][p] # NoFile
    /\ \E c \in {folder[m][p]} \cup (IF n \in spoilt THEN {Torn} ELSE {}) :
          c # Partial /\ folder' = [folder EXCEPT ![n][p] = c]
    /\ spoilt' = spoilt \ {n}

Next == \E n \in Node, p \in Path :
    Edit(n, p) \/ Open(n, p) \/ \E m \in Node : Meet(n, p, m) \/ Complete(n, p, m)

Spec == Init /\ [][Next]_vars

=============================================================================
