---------------------------- MODULE DirectoryFeed ----------------------------
(***************************************************************************)
(* What the directory watcher promises about a folder that changes while   *)
(* it is read: a new listing of the folder gives every path a look the     *)
(* file had since the listing before, not all of the same moment, and once *)
(* the folder stays as it is, the listing becomes the folder.              *)
(***************************************************************************)
CONSTANTS Path, Content, NoFile,
          Empty,   \* the content of an empty file
          Mixed    \* of a file that changes or goes while it is read

VARIABLES folder,    \* the files
          known,     \* the latest listing
          since      \* the looks of every file since that listing

vars == <<folder, known, since>>

\* A file that goes when its path has been listed looks empty, or like one of
\* its size.
Looks(c) == IF c = NoFile THEN {NoFile, Empty, Mixed} ELSE {c, Mixed}

Init ==
    /\ folder \in [Path -> Content \cup {NoFile}]
    /\ known = [p \in Path |-> NoFile]
    /\ since = [p \in Path |-> {folder[p]}]

Change(p) ==
    \E c \in Content \cup {NoFile} :
        /\ folder' = [folder EXCEPT ![p] = c]
        /\ since' = [since EXCEPT ![p] = @ \cup Looks(c)]
        /\ UNCHANGED known

List ==
    /\ known' \in [Path -> Content \cup {NoFile}]
    /\ \A p \in Path : known'[p] \in since[p]
    /\ since' = [p \in Path |-> {folder[p]}]
    /\ UNCHANGED folder

Next == List \/ \E p \in Path : Change(p)

Spec == Init /\ [][Next]_vars /\ WF_vars(List)

=============================================================================
