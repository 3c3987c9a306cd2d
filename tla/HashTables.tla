----------------------------- MODULE HashTables -----------------------------
(***************************************************************************)
(* Hash tables (std::map<std::wstring, uint64_t>) and the change lists     *)
(* computed from them: getDirectoryChanges in DirectoryMonitor.cpp, the    *)
(* filter of Node::dealWithHashTable and the update loop at the head of    *)
(* Node::handleUdp.                                                        *)
(*                                                                         *)
(* A path is a number: its rank in the order std::map keeps its keys in.   *)
(* A table is a total function, NoFile standing for a key that is absent.  *)
(* The hash of a file stands for its contents (getFileHash is taken to be  *)
(* free of collisions here).                                               *)
(***************************************************************************)
EXTENDS Naturals, Sequences, FiniteSets

CONSTANTS Path,     \* relative paths, numbered in map order
          Hash,     \* what getFileHash may return
          NoFile    \* the path is not in the table, or not in the directory

ASSUME PathAssumption   == Path \subseteq Nat /\ IsFiniteSet(Path)
ASSUME NoFileAssumption == NoFile \notin Hash

Table == [Path -> Hash \cup {NoFile}]

ChangeKind == {"Addition", "Deletion", "Edit"}

\* fileChangeData.  A Deletion carries the hash NULL, written NoFile here.
Change == [path : Path, hash : Hash \cup {NoFile}, kind : ChangeKind]

KindOf(old, new) == IF new = NoFile THEN "Deletion"
                    ELSE IF old = NoFile THEN "Addition" ELSE "Edit"

ChangeAt(prev, new, p) ==
    [path |-> p, hash |-> new[p], kind |-> KindOf(prev[p], new[p])]

\* The paths of S in map order: a set that holds that one sequence.
Listings(S) == {s \in [1..Cardinality(S) -> S] :
                    \A i, j \in 1..Cardinality(S) : i < j => s[i] < s[j]}

\* Mutant: files missing from the new table count as written.
MissingWritten(prev, new) == {p \in Path : new[p] # prev[p]}
Written(prev, new) == {p \in Path : new[p] # NoFile /\ new[p] # prev[p]}
Removed(prev, new) == {p \in Path : new[p] = NoFile /\ prev[p] # NoFile}

\* Mutant: the second loop, which looks for deletions, is left out.
DeletionsUnseen(prev, new) ==
    {[i \in 1..Len(w) |-> ChangeAt(prev, new, w[i])] : w \in Listings(Written(prev, new))}

(***************************************************************************)
(* getDirectoryChanges(LPTSTR, map&): what a scan of the directory found.  *)
(* Additions and edits come first, in map order, then the deletions.  The  *)
(* result is a set that holds one list.                                    *)
(***************************************************************************)
DirectoryChanges(prev, new) ==
    {[i \in 1..Len(w \o r) |-> ChangeAt(prev, new, (w \o r)[i])] :
        w \in Listings(Written(prev, new)), r \in Listings(Removed(prev, new))}

(***************************************************************************)
(* dealWithHashTable.  getDirectoryChanges(map&, map&) lists the foreign   *)
(* entries that the host lacks or holds with another hash.  The loop then  *)
(* erases the edits, when they are to be ignored, with                     *)
(* "erase(begin() + i)" followed by "++i": the entry that moves into       *)
(* place i is never looked at.  So an entry goes exactly when it is an     *)
(* edit and the entry before it stayed.                                    *)
(***************************************************************************)
Erased(host, foreign) ==
    LET listed == Written(host, foreign)
        gone[p \in listed] ==
            /\ host[p] # NoFile
            /\ \A q \in listed :
                  (q < p /\ ~\E r \in listed : q < r /\ r < p) => ~gone[q]
    IN  {p \in listed : gone[p]}

\* Mutants: ignoreEdits is not looked at, or taken to be set.
EditsWanted(host, foreign, ignoreEdits)  == Written(host, foreign)
EditsIgnored(host, foreign, ignoreEdits) == Written(host, foreign) \ Erased(host, foreign)

RequestedPaths(host, foreign, ignoreEdits) ==
    IF ignoreEdits THEN Written(host, foreign) \ Erased(host, foreign)
    ELSE Written(host, foreign)

RequestLists(host, foreign, ignoreEdits) ==
    {[i \in 1..Len(s) |-> ChangeAt(host, foreign, s[i])] :
        s \in Listings(RequestedPaths(host, foreign, ignoreEdits))}

(***************************************************************************)
(* handleUdp: enter a list of changes in a table, in list order, so that   *)
(* the last change of a path decides.                                      *)
(***************************************************************************)
Learn(table, changes) ==
    [p \in Path |->
        LET about == {i \in 1..Len(changes) : changes[i].path = p}
        IN  IF about = {} THEN table[p]
            ELSE changes[CHOOSE i \in about : \A j \in about : j <= i].hash]

=============================================================================
