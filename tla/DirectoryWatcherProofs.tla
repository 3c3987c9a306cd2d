----------------------- MODULE DirectoryWatcherProofs -----------------------
(* Proofs about the directory watcher.                                     *)
EXTENDS DirectoryWatcher, HashTablesProofs, FiniteSetTheorems, TLAPS

-----------------------------------------------------------------------------
(* Types.                                                                  *)

Look == Hash \cup {NoFile}

(* Where the parts of a round have a value.                                *)
RoundOK ==
    /\ unlisted \cap listed = {}
    /\ reading # Nothing => at = "hash"
    /\ reading # Nothing => reading.path \notin listed
    /\ at \in {"hash", "wait", "lock"} => unlisted = {}
    /\ at \in {"start", "wait", "lock"} => dirLock # "watcher" /\ listed = {}
    /\ at = "list" => newDir = NoTable
    /\ at = "hash" => \A p \in listed : newDir[p] = NoFile
    /\ reading # Nothing => newDir[reading.path] = NoFile

TypeInv == TypeOK /\ RoundOK

LEMMA LookTypes == Looks(NoFile) \subseteq Look /\ \A c \in Hash : Looks(c) \subseteq Look
BY LookAssumption DEF Looks, Look

\* What getFileHash starts with, and what it can come to.
LEMMA Measured ==
    ASSUME TypeOK, NEW p \in Path, MeasureFile(p)
    PROVE  /\ reading' = [path |-> p, look |-> Measure(p), changed |-> FALSE, open |-> FALSE]
           /\ reading' \in Reading /\ reading' # Nothing
           /\ folder[p] # NoFile => Measure(p) = folder[p]
           /\ folder[p] = NoFile => Measure(p) = Empty
<1>1. Measure(p) \in Hash
  BY LookAssumption DEF Measure, TypeOK, Table
<1>2. reading' \in Reading
  BY <1>1 DEF MeasureFile, Reading
<1> QED BY <1>2, ReadingAssumption DEF MeasureFile, Measure

Comes(h) ==
    /\ HashIs(h)
    /\ \/ reading.open /\ h = reading.look
       \/ reading.open /\ reading.changed /\ h \in {folder[reading.path], Mixed}
       \/ ~reading.open /\ folder[reading.path] = NoFile /\ h \in {Empty, Mixed}

LEMMA HashComes ==
    ASSUME TypeOK, HashFile \/ OpenFails
    PROVE  reading # Nothing /\ reading \in Reading /\ \E h \in Look : Comes(h)
<1>1. reading # Nothing /\ reading \in Reading
  BY DEF HashFile, OpenFails, TypeOK
<1>2. reading.look \in Look /\ folder[reading.path] \in Look /\ {Empty, Mixed} \subseteq Look
  BY <1>1, LookAssumption DEF Look, Reading, TypeOK, Table
<1>3. CASE HashFile
  <2>1. PICK h \in IF reading.changed THEN {reading.look, folder[reading.path], Mixed}
                   ELSE {reading.look} : HashIs(h)
    BY <1>3 DEF HashFile
  <2>2. reading.open
    BY <1>3 DEF HashFile
  <2>3. h \in Look /\ Comes(h)
    BY <1>2, <2>1, <2>2 DEF Comes
  <2> QED BY <1>1, <2>3
<1>4. CASE OpenFails
  <2>1. SizeOnly(reading.look) \subseteq {Empty, Mixed}
    BY DEF SizeOnly
  <2>2. PICK h \in SizeOnly(reading.look) : HashIs(h)
    BY <1>4 DEF OpenFails
  <2>3. ~reading.open /\ folder[reading.path] = NoFile
    BY <1>4 DEF OpenFails
  <2>4. h \in Look /\ Comes(h)
    BY <1>2, <2>1, <2>2, <2>3 DEF Comes
  <2> QED BY <1>1, <2>4
<1> QED BY <1>1, <1>3, <1>4

LEMMA TypeInit == Init => TypeInv
<1> SUFFICES ASSUME Init PROVE TypeInv OBVIOUS
<1>1. NoTable \in Table /\ folder \in Table
  BY DEF NoTable, Table, Init, UserContent
<1>2. since \in [Path -> SUBSET Look]
  BY DEF Init, UserContent, Look
<1>3. << >> \in Seq(Change) /\ 0 \in 0..MaxChanges
  BY ChangesAssumption
<1>4. TypeOK BY <1>1, <1>2, <1>3 DEF Init, TypeOK, Look
<1>5. RoundOK BY DEF Init, RoundOK
<1> QED BY <1>4, <1>5 DEF TypeInv

\* A step of a user or of another thread.
LEMMA TypeChange ==
    ASSUME TypeInv, NEW p \in Path, NEW c \in Hash \cup {NoFile}, FileBecomes(p, c),
           changes' \in 0..MaxChanges, dirLock' \in {"free", "node", dirLock}
    PROVE  TypeInv'
<1>1. folder' \in Table
  BY DEF TypeInv, TypeOK, FileBecomes, Table
<1>2. since' \in [Path -> SUBSET Look]
  <2>1. Looks(c) \subseteq Look BY LookTypes
  <2>2. since[p] \subseteq Look BY DEF TypeInv, TypeOK, Look
  <2> QED BY <2>1, <2>2 DEF TypeInv, TypeOK, FileBecomes, Look
<1>3. reading' \in {Nothing} \cup Reading
  BY DEF TypeInv, TypeOK, FileBecomes, Reading, Reads
<1>4. signalled' \in BOOLEAN BY DEF TypeInv, TypeOK, FileBecomes
<1>5. TypeOK'
  BY <1>1, <1>2, <1>3, <1>4 DEF TypeInv, TypeOK, FileBecomes, round, Look
<1>6. /\ reading' # Nothing => reading # Nothing /\ reading'.path = reading.path
      /\ UNCHANGED <<at, unlisted, listed, newDir>>
  BY ReadingAssumption DEF TypeInv, TypeOK, FileBecomes, Reading, Reads, round
<1>7. RoundOK'
  BY <1>6 DEF TypeInv, RoundOK
<1> QED BY <1>5, <1>7 DEF TypeInv

LEMMA TypeStep == TypeInv /\ [Next]_vars => TypeInv'
<1> SUFFICES ASSUME TypeInv, [Next]_vars PROVE TypeInv' OBVIOUS
<1> USE DEF TypeInv
<1>t. TypeOK /\ RoundOK OBVIOUS
<1>n. NoTable \in Table BY DEF NoTable, Table
<1>s. ASSUME Listed
      PROVE  since' \in [Path -> SUBSET Look] /\ table' \in Table
  BY <1>s, <1>t DEF Listed, TypeOK, Table, Look
<1>1. CASE Register
  <2>1. TypeOK' BY <1>t, <1>n, <1>1 DEF Register, BeginListing, TypeOK
  <2>2. RoundOK' BY <1>t, <1>1 DEF Register, BeginListing, RoundOK
  <2> QED BY <2>1, <2>2
<1>2. ASSUME NEW p \in Path, ListPath(p) PROVE TypeInv'
  <2>1. TypeOK' BY <1>t, <1>2 DEF ListPath, TypeOK
  <2>2. RoundOK' BY <1>t, <1>2 DEF ListPath, RoundOK
  <2> QED BY <2>1, <2>2
<1>3. CASE ListingDone
  <2>1. TypeOK' BY <1>t, <1>3 DEF ListingDone, TypeOK
  <2>2. \A p \in listed : newDir[p] = NoFile
    BY <1>t, <1>3 DEF ListingDone, RoundOK, TypeOK, NoTable
  <2>3. RoundOK' BY <1>t, <1>3, <2>2 DEF ListingDone, RoundOK
  <2> QED BY <2>1, <2>3
<1>4. ASSUME NEW p \in Path, MeasureFile(p) PROVE TypeInv'
  <2>1. reading'.path = p /\ reading' \in Reading BY <1>t, <1>4, Measured
  <2>2. TypeOK' BY <1>t, <1>4, <2>1 DEF MeasureFile, TypeOK
  <2>3. RoundOK' BY <1>t, <1>4, <2>1 DEF MeasureFile, RoundOK
  <2> QED BY <2>2, <2>3
<1>5. CASE OpenFile
  <2>1. reading' = [reading EXCEPT !.open = TRUE] /\ reading \in Reading
    BY <1>t, <1>5 DEF OpenFile, TypeOK
  <2>2. reading' \in Reading /\ reading'.path = reading.path BY <2>1 DEF Reading
  <2>3. TypeOK' BY <1>t, <1>5, <2>2 DEF OpenFile, TypeOK, round
  <2>4. RoundOK' BY <1>t, <1>5, <2>2 DEF OpenFile, RoundOK, round
  <2> QED BY <2>3, <2>4
<1>6. ASSUME NEW h \in Look, reading # Nothing, HashIs(h) PROVE TypeInv'
  <2>1. reading \in Reading /\ newDir' = [newDir EXCEPT ![reading.path] = h]
    BY <1>t, <1>6 DEF HashIs, TypeOK
  <2>2. newDir' \in Table BY <1>t, <1>6, <2>1 DEF TypeOK, Table, Look
  <2>3. TypeOK' BY <1>t, <1>6, <2>2 DEF HashIs, TypeOK
  <2>4. RoundOK' BY <1>t, <1>6, <2>1 DEF HashIs, RoundOK, TypeOK, Table, Reading
  <2> QED BY <2>3, <2>4
<1>7. CASE FirstListing
  <2>1. Listed BY <1>7 DEF FirstListing
  <2>2. TypeOK' BY <1>t, <1>s, <1>7, <2>1 DEF FirstListing, Listed, TypeOK, Look
  <2>3. RoundOK' BY <1>t, <1>7 DEF FirstListing, Listed, RoundOK
  <2> QED BY <2>2, <2>3
<1>8. CASE Wake
  <2>1. TypeOK' BY <1>t, <1>8 DEF Wake, TypeOK
  <2>2. RoundOK' BY <1>t, <1>8 DEF Wake, RoundOK
  <2> QED BY <2>1, <2>2
<1>9. CASE LockFolder
  <2>1. TypeOK' BY <1>t, <1>n, <1>9 DEF LockFolder, BeginListing, TypeOK
  <2>2. RoundOK' BY <1>t, <1>9 DEF LockFolder, BeginListing, RoundOK
  <2> QED BY <2>1, <2>2
<1>10. CASE Report
  <2>1. Listed BY <1>10 DEF Report
  <2>2. changeBuf' \in Seq(Change)
    <3>1. PICK found \in DirectoryChanges(table, newDir) : changeBuf' = changeBuf \o found
      BY <1>10 DEF Report
    <3>2. found \in Seq(Change) BY <1>t, <3>1, DirectoryChangesList DEF TypeOK
    <3> QED BY <1>t, <3>1, <3>2 DEF TypeOK
  <2>3. TypeOK' BY <1>t, <1>s, <1>10, <2>1, <2>2 DEF Report, Listed, TypeOK, Look
  <2>4. RoundOK' BY <1>t, <1>10 DEF Report, Listed, RoundOK
  <2> QED BY <2>3, <2>4
<1>11. CASE Publish
  <2>1. << >> \in Seq(Change) OBVIOUS
  <2>2. TypeOK' BY <1>t, <1>11, <2>1 DEF Publish, TypeOK, round
  <2>3. RoundOK' BY <1>t, <1>11 DEF Publish, RoundOK, round
  <2> QED BY <2>2, <2>3
<1>12. ASSUME NEW p \in Path, NEW c \in Hash \cup {NoFile}, FolderBecomes(p, c),
              dirLock' \in {"free", "node", dirLock}
       PROVE  TypeInv'
  <2>1. changes' \in 0..MaxChanges
    BY <1>t, <1>12, ChangesAssumption DEF FolderBecomes, TypeOK
  <2> QED BY <1>12, <2>1, TypeChange DEF FolderBecomes
<1>13. ASSUME NEW p \in Path, NodeDeletes(p) \/ NodeOpens(p) PROVE TypeInv'
  BY <1>12, <1>13, LookAssumption DEF NodeDeletes, NodeOpens
<1>14. ASSUME NEW p \in Path, NEW c \in UserContent, NodeCloses(p, c) PROVE TypeInv'
  <2>1. c \in Hash \cup {NoFile} BY <1>14 DEF UserContent
  <2>2. changes' \in 0..MaxChanges BY <1>t, <1>14 DEF NodeCloses, TypeOK
  <2> QED BY <1>14, <2>1, <2>2, TypeChange DEF NodeCloses
<1>15. ASSUME NEW p \in Path, NEW c \in UserContent \cup {NoFile}, UserChanges(p, c)
       PROVE  TypeInv'
  <2>1. c \in Hash \cup {NoFile} BY <1>15 DEF UserContent
  <2> QED BY <1>12, <1>15, <2>1 DEF UserChanges
<1>16. CASE UNCHANGED vars
  BY <1>t, <1>16 DEF vars, round, TypeOK, RoundOK
<1>17. CASE HashFile \/ OpenFails
  BY <1>t, <1>6, <1>17, HashComes DEF Comes
<1> QED BY <1>1, <1>2, <1>3, <1>4, <1>5, <1>7, <1>8, <1>9, <1>10, <1>11, <1>13,
           <1>14, <1>15, <1>16, <1>17 DEF Next, WatcherStep, NodeStep, UserStep

LEMMA WatcherTypeInvariant == Spec => []TypeInv
BY TypeInit, TypeStep, PTL DEF Spec

(***************************************************************************)
(* Every variable of the watcher keeps its type, whatever happens to the   *)
(* folder meanwhile: TypeOK.                                               *)
(***************************************************************************)
THEOREM WatcherTypes == Spec => []TypeOK
<1>1. TypeInv => TypeOK BY DEF TypeInv
<1> QED BY <1>1, WatcherTypeInvariant, PTL

-----------------------------------------------------------------------------
(***************************************************************************)
(* As long as the handle is not signalled, what has been read is what is   *)
(* there.                                                                  *)
(***************************************************************************)
Caught(p) ==
    /\ at = "list" /\ p \notin unlisted => (p \in listed <=> folder[p] # NoFile)
    /\ at = "hash" /\ p \in listed => folder[p] # NoFile
    /\ at = "hash" /\ p \notin listed /\ ~Reads(p) => newDir[p] = folder[p]
    /\ Reads(p) => reading.look = folder[p] /\ ~reading.changed
    /\ at = "wait" => table[p] = folder[p]
CaughtInv == signalled \/ \A p \in Path : Caught(p)

LEMMA CaughtInit == Init => CaughtInv
BY DEF Init, CaughtInv, Caught, Reads

LEMMA CaughtStep == TypeInv /\ TypeInv' /\ CaughtInv /\ [Next]_vars => CaughtInv'
<1> SUFFICES ASSUME TypeInv, TypeInv', CaughtInv, [Next]_vars PROVE CaughtInv' OBVIOUS
<1>t. TypeOK /\ RoundOK /\ TypeOK' /\ RoundOK' BY DEF TypeInv
<1>r. reading # Nothing => reading \in Reading BY <1>t DEF TypeOK
<1>1. CASE Register \/ LockFolder
  <2>1. at' = "list" /\ unlisted' = Path /\ reading' = Nothing
    BY <1>t, <1>1 DEF Register, LockFolder, BeginListing, RoundOK
  <2>2. \A p \in Path : Caught(p)' BY <2>1 DEF Caught, Reads
  <2> QED BY <2>2 DEF CaughtInv
<1>2. ASSUME NEW p \in Path, ListPath(p) PROVE CaughtInv'
  BY <1>t, <1>2 DEF ListPath, CaughtInv, Caught, Reads, TypeOK, RoundOK
<1>3. CASE ListingDone
  BY <1>t, <1>3 DEF ListingDone, CaughtInv, Caught, Reads, RoundOK, NoTable
<1>4. ASSUME NEW p \in Path, MeasureFile(p) PROVE CaughtInv'
  <2>1. /\ reading' = [path |-> p, look |-> Measure(p), changed |-> FALSE, open |-> FALSE]
        /\ reading' # Nothing /\ (folder[p] # NoFile => Measure(p) = folder[p])
    BY <1>t, <1>4, Measured
  <2> QED BY <1>t, <1>4, <2>1 DEF MeasureFile, CaughtInv, Caught, Reads
<1>5. CASE OpenFile
  <2>1. reading # Nothing /\ reading' = [reading EXCEPT !.open = TRUE] /\ reading \in Reading
    BY <1>r, <1>5 DEF OpenFile
  <2>2. /\ reading'.path = reading.path /\ reading'.look = reading.look
        /\ reading'.changed = reading.changed /\ reading' \in Reading
    BY <2>1 DEF Reading
  <2>3. \A p \in Path : Reads(p)' <=> Reads(p)
    BY <2>1, <2>2, ReadingAssumption DEF Reads
  <2> QED BY <1>5, <2>2, <2>3 DEF OpenFile, CaughtInv, Caught, round
<1>6. CASE HashFile \/ OpenFails
  <2>1. reading # Nothing /\ reading \in Reading /\ \E h \in Look : Comes(h)
    BY <1>t, <1>6, HashComes
  <2>2. PICK h \in Look : Comes(h)
    BY <2>1
  <2>3. reading.path \in Path /\ newDir \in Table /\ Reads(reading.path) /\ reading.look \in Hash
    BY <1>t, <2>1 DEF Reading, TypeOK, Reads
  <2>4. ~signalled => reading.look = folder[reading.path] /\ ~reading.changed
    BY <2>3 DEF CaughtInv, Caught
  <2>5. ~signalled => h = folder[reading.path]
    BY <2>2, <2>3, <2>4, NoFileAssumption DEF Comes
  <2>6. newDir' = [newDir EXCEPT ![reading.path] = h]
    BY <2>2 DEF Comes, HashIs
  <2> QED BY <1>t, <2>1, <2>2, <2>3, <2>5, <2>6 DEF Comes, HashIs, CaughtInv, Caught, Reads, Table, RoundOK
<1>7. CASE FirstListing \/ Report
  <2>1. Listed /\ UNCHANGED signalled BY <1>7 DEF FirstListing, Report
  <2> QED BY <1>t, <2>1 DEF Listed, CaughtInv, Caught, Reads
<1>8. CASE Wake
  BY <1>t, <1>8 DEF Wake, CaughtInv, Caught, Reads, RoundOK
<1>9. ASSUME NEW p \in Path, NEW c \in Hash \cup {NoFile}, FileBecomes(p, c)
      PROVE  CaughtInv'
  BY <1>t, <1>9 DEF FileBecomes, CaughtInv, Caught, Reads, round, RoundOK
<1>10. ASSUME NEW p \in Path, NodeDeletes(p) \/ NodeOpens(p) PROVE CaughtInv'
  BY <1>9, <1>10, LookAssumption DEF NodeDeletes, NodeOpens, FolderBecomes
<1>11. ASSUME NEW p \in Path, NEW c \in UserContent \cup {NoFile},
              NodeCloses(p, c) \/ UserChanges(p, c)
       PROVE  CaughtInv'
  BY <1>9, <1>11 DEF NodeCloses, UserChanges, FolderBecomes, UserContent
<1>12. CASE Publish \/ UNCHANGED vars
  BY <1>12 DEF Publish, vars, round, CaughtInv, Caught, Reads
<1> QED BY <1>1, <1>2, <1>3, <1>4, <1>5, <1>6, <1>7, <1>8, <1>10, <1>11, <1>12
        DEF Next, WatcherStep, NodeStep, UserStep

(***************************************************************************)
(* A watcher at rest knows the folder: NothingMissed, for any folder and   *)
(* however its files change while they are listed and hashed.              *)
(***************************************************************************)
THEOREM NothingIsMissed == Spec => []NothingMissed
<1>1. TypeInv /\ CaughtInv => NothingMissed
  <2> SUFFICES ASSUME TypeInv, CaughtInv, at = "wait", ~signalled PROVE table = folder
    BY DEF NothingMissed
  <2>1. \A p \in Path : table[p] = folder[p] BY DEF CaughtInv, Caught
  <2> QED BY <2>1 DEF TypeInv, TypeOK, Table
<1> QED BY <1>1, CaughtInit, CaughtStep, WatcherTypeInvariant, PTL DEF Spec

-----------------------------------------------------------------------------
(***************************************************************************)
(* What has been read is a look the file had since the listing before.     *)
(***************************************************************************)
InRound == at \in {"list", "hash"}
Seen(p) ==
    /\ folder[p] \in since[p]
    /\ InRound /\ newDir[p] # NoFile => newDir[p] \in since[p]
    /\ InRound /\ newDir[p] = NoFile /\ p \notin unlisted \cup listed /\ ~Reads(p) =>
          NoFile \in since[p]
    /\ InRound /\ p \in listed /\ folder[p] = NoFile => {Empty, Mixed} \subseteq since[p]
    /\ Reads(p) => /\ reading.look \in since[p]
                   /\ reading.changed => Mixed \in since[p]
                   /\ folder[p] = NoFile => ~reading.open /\ {Empty, Mixed} \subseteq since[p]
SeenInv == \A p \in Path : Seen(p)

LEMMA SeenInit == Init => SeenInv
BY DEF Init, SeenInv, Seen, Reads, InRound, UserContent

LEMMA SeenChange ==
    ASSUME TypeInv, SeenInv, NEW p \in Path, NEW c \in Hash \cup {NoFile}, FileBecomes(p, c)
    PROVE  SeenInv'
<1>t. TypeOK /\ RoundOK BY DEF TypeInv
<1>r. reading # Nothing => reading \in Reading BY <1>t DEF TypeOK
<1>1. /\ folder' = [folder EXCEPT ![p] = c] /\ UNCHANGED <<at, unlisted, listed, newDir>>
      /\ \A q \in Path : since[q] \subseteq since'[q]
      /\ folder'[p] = c /\ c \in since'[p]
      /\ c = NoFile => Empty \in since'[p] /\ ~InUse(p)
      /\ Mixed \in since'[p]
      /\ \A q \in Path \ {p} : folder'[q] = folder[q] /\ since'[q] = since[q]
  BY <1>t DEF FileBecomes, TypeOK, Table, Looks, round
<1>2. /\ \A q \in Path : Reads(q)' <=> Reads(q)
      /\ reading # Nothing => reading'.look = reading.look /\ reading'.open = reading.open
      /\ reading # Nothing /\ reading'.changed => reading.changed \/ Reads(p)
  BY <1>t, <1>r, ReadingAssumption DEF FileBecomes, Reads, Reading
<1> QED BY <1>1, <1>2 DEF SeenInv, Seen, InRound, Reads, InUse

LEMMA SeenStep == TypeInv /\ TypeInv' /\ SeenInv /\ [Next]_vars => SeenInv'
<1> SUFFICES ASSUME TypeInv, TypeInv', SeenInv, [Next]_vars PROVE SeenInv' OBVIOUS
<1>t. TypeOK /\ RoundOK /\ TypeOK' /\ RoundOK' BY DEF TypeInv
<1>r. reading # Nothing => reading \in Reading BY <1>t DEF TypeOK
<1>1. CASE Register \/ LockFolder
  BY <1>t, <1>1 DEF Register, LockFolder, BeginListing, SeenInv, Seen, Reads, InRound,
                    RoundOK, NoTable
<1>2. ASSUME NEW p \in Path, ListPath(p) PROVE SeenInv'
  BY <1>t, <1>2 DEF ListPath, SeenInv, Seen, Reads, InRound, RoundOK, TypeOK
<1>3. CASE ListingDone
  BY <1>t, <1>3 DEF ListingDone, SeenInv, Seen, Reads, InRound, RoundOK
<1>4. ASSUME NEW p \in Path, MeasureFile(p) PROVE SeenInv'
  <2>1. /\ reading' = [path |-> p, look |-> Measure(p), changed |-> FALSE, open |-> FALSE]
        /\ reading' # Nothing /\ (folder[p] # NoFile => Measure(p) = folder[p])
        /\ (folder[p] = NoFile => Measure(p) = Empty)
    BY <1>t, <1>4, Measured
  <2> QED BY <1>t, <1>4, <2>1 DEF MeasureFile, SeenInv, Seen, Reads, InRound
<1>5. CASE OpenFile
  <2>1. reading # Nothing /\ reading' = [reading EXCEPT !.open = TRUE] /\ reading \in Reading
    BY <1>r, <1>5 DEF OpenFile
  <2>2. /\ reading'.path = reading.path /\ reading'.look = reading.look
        /\ reading'.changed = reading.changed /\ reading' \in Reading
    BY <2>1 DEF Reading
  <2>3. \A p \in Path : Reads(p)' <=> Reads(p)
    BY <2>1, <2>2, ReadingAssumption DEF Reads
  <2>4. \A p \in Path : Reads(p) => folder[p] # NoFile
    BY <1>5 DEF OpenFile, Reads
  <2> QED BY <1>5, <2>2, <2>3, <2>4 DEF OpenFile, SeenInv, Seen, InRound, round
<1>6. CASE HashFile \/ OpenFails
  <2>1. reading # Nothing /\ reading \in Reading /\ \E h \in Look : Comes(h)
    BY <1>t, <1>6, HashComes
  <2>2. PICK h \in Look : Comes(h)
    BY <2>1
  <2>3. reading.path \in Path /\ Reads(reading.path) /\ reading.look \in Hash
    BY <2>1 DEF Reads, Reading
  <2>4. h \in since[reading.path] /\ h # NoFile
    BY <2>2, <2>3, LookAssumption, NoFileAssumption DEF Comes, SeenInv, Seen
  <2>5. newDir' = [newDir EXCEPT ![reading.path] = h]
    BY <2>2 DEF Comes, HashIs
  <2> QED BY <1>t, <2>1, <2>2, <2>3, <2>4, <2>5
          DEF Comes, HashIs, SeenInv, Seen, Reads, InRound, TypeOK, Table
<1>7. CASE FirstListing \/ Report
  <2>1. Listed BY <1>7 DEF FirstListing, Report
  <2> QED BY <1>t, <2>1 DEF Listed, SeenInv, Seen, Reads, InRound
<1>8. CASE Wake
  BY <1>t, <1>8 DEF Wake, SeenInv, Seen, Reads, InRound, RoundOK
<1>10. ASSUME NEW p \in Path, NodeDeletes(p) \/ NodeOpens(p) PROVE SeenInv'
  BY <1>10, SeenChange, LookAssumption DEF NodeDeletes, NodeOpens, FolderBecomes
<1>11. ASSUME NEW p \in Path, NEW c \in UserContent \cup {NoFile},
              NodeCloses(p, c) \/ UserChanges(p, c)
       PROVE  SeenInv'
  BY <1>11, SeenChange DEF NodeCloses, UserChanges, FolderBecomes, UserContent
<1>12. CASE Publish \/ UNCHANGED vars
  BY <1>12 DEF Publish, vars, round, SeenInv, Seen, Reads, InRound
<1> QED BY <1>1, <1>2, <1>3, <1>4, <1>5, <1>6, <1>7, <1>8, <1>10, <1>11, <1>12
        DEF Next, WatcherStep, NodeStep, UserStep

(***************************************************************************)
(* The rounds implement the listings of DirectoryFeed: the safety part of  *)
(* Feeds, by step simulation.  Only the step that ends a round is visible, *)
(* and it takes from every path a look the file had in the meantime.       *)
(***************************************************************************)
THEOREM ListingsAreOfTheFolder == Spec => Feed!Init /\ [][Feed!Next]_(Feed!vars)
<1>1. Init => Feed!Init
  BY DEF Init, Feed!Init, NoTable, UserContent
<1>2. ASSUME TypeInv, SeenInv, TypeInv', [Next]_vars PROVE [Feed!Next]_(Feed!vars)
  <2>t. TypeOK /\ RoundOK /\ TypeOK' BY <1>2 DEF TypeInv
  <2>1. CASE FirstListing \/ Report
    <3>1. Listed BY <2>1 DEF FirstListing, Report
    <3>2. at = "hash" /\ unlisted = {} /\ listed = {} /\ reading = Nothing /\ table' = newDir
      BY <2>t, <3>1 DEF Listed, RoundOK
    <3>3. \A p \in Path : table'[p] \in since[p]
      BY <1>2, <3>2 DEF SeenInv, Seen, InRound, Reads
    <3>4. table' \in [Path -> Hash \cup {NoFile}] BY <2>t DEF TypeOK, Table
    <3> QED BY <3>1, <3>3, <3>4 DEF Listed, Feed!Next, Feed!List
  <2>2. ASSUME NEW p \in Path, NEW c \in Hash \cup {NoFile}, FileBecomes(p, c)
        PROVE  Feed!Change(p)
    BY <2>2 DEF FileBecomes, Feed!Change, Looks, Feed!Looks
  <2>3. ASSUME NEW p \in Path, NodeDeletes(p) \/ NodeOpens(p) PROVE Feed!Change(p)
    BY <2>2, <2>3, LookAssumption DEF NodeDeletes, NodeOpens, FolderBecomes
  <2>4. ASSUME NEW p \in Path, NEW c \in UserContent \cup {NoFile},
               NodeCloses(p, c) \/ UserChanges(p, c)
        PROVE  Feed!Change(p)
    BY <2>2, <2>4 DEF NodeCloses, UserChanges, FolderBecomes, UserContent
  <2>5. ASSUME \/ Register \/ ListingDone \/ Wake \/ LockFolder \/ Publish
               \/ OpenFile \/ OpenFails \/ HashFile
               \/ \E p \in Path : ListPath(p) \/ MeasureFile(p)
               \/ UNCHANGED vars
        PROVE  UNCHANGED Feed!vars
    BY <2>5 DEF Register, ListingDone, HashFile, OpenFails, HashIs, Wake, LockFolder, Publish,
                ListPath, OpenFile, MeasureFile, vars, Feed!vars
  <2> QED BY <1>2, <2>1, <2>3, <2>4, <2>5
          DEF Next, WatcherStep, NodeStep, UserStep, Feed!Next
<1> QED BY <1>1, <1>2, SeenInit, SeenStep, WatcherTypeInvariant, PTL DEF Spec

-----------------------------------------------------------------------------
(***************************************************************************)
(* Only a node that holds dirLock has a file half received.                *)
(***************************************************************************)
WholeInv ==
    /\ \A p \in Path : folder[p] = Partial => dirLock = "node"
    /\ \A p, q \in Path : folder[p] = Partial /\ folder[q] = Partial => p = q
    /\ dirLock = "watcher" => \A p \in Path : newDir[p] # Partial
    /\ dirLock = "watcher" /\ reading # Nothing => reading.look # Partial
    /\ WholeReports

LEMMA WholeInit == Init => WholeInv
BY NoFileAssumption, LookAssumption DEF Init, WholeInv, WholeReports, UserContent

\* A file becomes Partial only by NodeOpens.
LEMMA WholeStep == TypeInv /\ TypeInv' /\ WholeInv /\ [Next]_vars => WholeInv'
<1> SUFFICES ASSUME TypeInv, TypeInv', WholeInv, [Next]_vars PROVE WholeInv' OBVIOUS
<1>t. TypeOK /\ RoundOK /\ TypeOK' /\ RoundOK' BY DEF TypeInv
<1>r. reading # Nothing => reading \in Reading BY <1>t DEF TypeOK
<1>d. Mixed # Partial /\ Empty # Partial /\ NoFile # Partial
  <2>1. ASSUME Mixed = Partial PROVE FALSE
    <3>1. {Empty, Partial, Mixed} = {Empty, Partial} BY <2>1
    <3>2. Cardinality({Empty, Partial}) <= 2
      <4>1. Cardinality({}) = 0 /\ IsFiniteSet({}) BY FS_EmptySet
      <4>2. IsFiniteSet({Partial}) /\ Cardinality({Partial}) = 1 BY FS_Singleton
      <4>3. Cardinality({Partial} \cup {Empty}) \in {1, 2} BY <4>2, FS_AddElement
      <4>4. {Partial} \cup {Empty} = {Empty, Partial} OBVIOUS
      <4> QED BY <4>3, <4>4
    <3> QED BY <3>1, <3>2, LookAssumption
  <2>2. ASSUME Empty = Partial PROVE FALSE
    <3>1. {Empty, Partial, Mixed} = {Mixed} \cup {Partial} BY <2>2
    <3>2. IsFiniteSet({Mixed}) /\ Cardinality({Mixed}) = 1 BY FS_Singleton
    <3>3. Cardinality({Mixed} \cup {Partial}) \in {1, 2} BY <3>2, FS_AddElement
    <3> QED BY <3>1, <3>3, LookAssumption
  <2> QED BY <2>1, <2>2, LookAssumption, NoFileAssumption
<1>1. CASE Register \/ LockFolder
  BY <1>t, <1>d, <1>1 DEF Register, LockFolder, BeginListing, WholeInv, WholeReports,
                          RoundOK, NoTable
<1>2. ASSUME NEW p \in Path, ListPath(p) PROVE WholeInv'
  BY <1>2 DEF ListPath, WholeInv, WholeReports
<1>3. CASE ListingDone \/ Wake
  BY <1>3 DEF ListingDone, Wake, WholeInv, WholeReports
<1>4. ASSUME NEW p \in Path, MeasureFile(p) PROVE WholeInv'
  <2>1. /\ reading' = [path |-> p, look |-> Measure(p), changed |-> FALSE, open |-> FALSE]
        /\ (folder[p] # NoFile => Measure(p) = folder[p])
        /\ (folder[p] = NoFile => Measure(p) = Empty)
    BY <1>t, <1>4, Measured
  <2>2. dirLock = "watcher" => reading'.look # Partial
    BY <1>d, <2>1 DEF WholeInv
  <2> QED BY <1>4, <2>2 DEF MeasureFile, WholeInv, WholeReports
<1>5. CASE OpenFile
  <2>1. reading # Nothing /\ reading' = [reading EXCEPT !.open = TRUE] /\ reading \in Reading
    BY <1>r, <1>5 DEF OpenFile
  <2>2. reading'.look = reading.look
    BY <2>1 DEF Reading
  <2> QED BY <1>5, <2>1, <2>2 DEF OpenFile, WholeInv, WholeReports, round
<1>6. CASE HashFile \/ OpenFails
  <2>1. reading # Nothing /\ reading \in Reading /\ \E h \in Look : Comes(h)
    BY <1>t, <1>6, HashComes
  <2>2. PICK h \in Look : Comes(h)
    BY <2>1
  <2>3. reading.path \in Path BY <2>1 DEF Reading
  <2>4. dirLock = "watcher" => h # Partial
    BY <1>d, <2>1, <2>2, <2>3 DEF Comes, WholeInv
  <2>5. newDir' = [newDir EXCEPT ![reading.path] = h]
    BY <2>2 DEF Comes, HashIs
  <2> QED BY <1>t, <2>2, <2>3, <2>4, <2>5 DEF Comes, HashIs, WholeInv, WholeReports, TypeOK, Table
<1>7. CASE FirstListing
  BY <1>7 DEF FirstListing, Listed, WholeInv, WholeReports
<1>8. CASE Report
  <2>1. PICK found \in DirectoryChanges(table, newDir) : changeBuf' = changeBuf \o found
    BY <1>8 DEF Report
  <2>2. /\ found \in Seq(Change)
        /\ \A i \in 1..Len(found) :
              found[i].path \in Path /\ found[i].hash = newDir[found[i].path]
    BY <1>t, <2>1, DirectoryChangesList DEF TypeOK, Written, Removed
  <2>3. \A i \in 1..Len(found) : found[i].hash # Partial
    BY <1>8, <2>2 DEF Report, WholeInv
  <2>4. WholeReports'
    <3>1. changeBuf \in Seq(Change) BY <1>t DEF TypeOK
    <3>2. \A i \in 1..Len(changeBuf) : changeBuf[i].hash # Partial
      BY DEF WholeInv, WholeReports
    <3> QED BY <2>1, <2>2, <2>3, <3>1, <3>2 DEF WholeReports
  <2> QED BY <1>8, <2>4 DEF Report, Listed, WholeInv
<1>9. ASSUME NEW p \in Path, NEW c \in Hash \cup {NoFile}, FileBecomes(p, c)
      PROVE  /\ folder' = [folder EXCEPT ![p] = c]
             /\ UNCHANGED <<newDir, changeBuf>>
             /\ reading' # Nothing => reading # Nothing /\ reading'.look = reading.look
  BY <1>r, <1>9, ReadingAssumption DEF FileBecomes, Reading, Reads, round
<1>10. ASSUME NEW p \in Path, NodeOpens(p) PROVE WholeInv'
  BY <1>t, <1>9, <1>10, LookAssumption
     DEF NodeOpens, FolderBecomes, WholeInv, WholeReports, TypeOK, Table
<1>11. ASSUME NEW p \in Path, NEW c \in UserContent \cup {NoFile},
              \/ NodeDeletes(p) /\ c = NoFile
              \/ NodeCloses(p, c)
              \/ UserChanges(p, c)
       PROVE  WholeInv'
  <2>1. c \in Hash \cup {NoFile} /\ c # Partial BY <1>d, <1>11 DEF UserContent
  <2>2. FileBecomes(p, c)
    BY <1>11 DEF NodeDeletes, NodeCloses, UserChanges, FolderBecomes
  <2>3. \/ dirLock' = dirLock
        \/ folder[p] = Partial /\ dirLock = "node" /\ dirLock' = "free"
    BY <1>11 DEF NodeDeletes, NodeCloses, UserChanges
  <2> QED BY <1>t, <1>9, <2>1, <2>2, <2>3 DEF WholeInv, WholeReports, TypeOK, Table
<1>12. CASE Publish \/ UNCHANGED vars
  BY <1>12 DEF Publish, vars, round, WholeInv, WholeReports
<1> QED BY <1>1, <1>2, <1>3, <1>4, <1>5, <1>6, <1>7, <1>8, <1>10, <1>11, <1>12
        DEF Next, WatcherStep, NodeStep, UserStep

(***************************************************************************)
(* The hash of a file that the node has only half received is reported by  *)
(* no round: WholeReports.                                                 *)
(***************************************************************************)
THEOREM ReportsAreWhole == Spec => []WholeReports
<1>1. WholeInv => WholeReports BY DEF WholeInv
<1> QED BY <1>1, WholeInit, WholeStep, WatcherTypeInvariant, PTL DEF Spec

=============================================================================
