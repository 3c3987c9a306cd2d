-------------------------- MODULE HashTablesProofs --------------------------
(* Facts about the operators of HashTables, for the proofs about FileSync. *)
EXTENDS HashTables, TLAPS, FiniteSetTheorems, SequenceTheorems, WellFoundedInduction

\* A listing of a set of paths is a sequence that holds exactly these paths.
LEMMA ListingSequence ==
    ASSUME NEW S \in SUBSET Path, NEW s \in Listings(S)
    PROVE  /\ s \in Seq(S)
           /\ \A p \in S : \E i \in 1..Len(s) : s[i] = p
<1>1. IsFiniteSet(S) /\ Cardinality(S) \in Nat
  BY PathAssumption, FS_Subset, FS_CardinalityType
<1>2. s \in [1..Cardinality(S) -> S] /\ Len(s) = Cardinality(S) /\ s \in Seq(S)
  BY <1>1 DEF Listings
<1>3. s \in Injection(1..Cardinality(S), S)
  <2>1. \A i, j \in 1..Cardinality(S) : i < j => s[i] < s[j]
    BY DEF Listings
  <2>2. \A i \in 1..Cardinality(S) : s[i] \in Nat
    BY <1>2, PathAssumption
  <2>3. ASSUME NEW i \in 1..Cardinality(S), NEW j \in 1..Cardinality(S), s[i] = s[j]
        PROVE  i = j
    BY <1>1, <2>1, <2>2, <2>3
  <2> QED BY <1>2, <2>3 DEF Injection, IsInjective
<1>4. Cardinality(1..Cardinality(S)) = Cardinality(S)
  BY <1>1, FS_Interval
<1>5. s \in Surjection(1..Cardinality(S), S)
  BY <1>1, <1>3, <1>4, FS_Injection
<1> QED BY <1>2, <1>5 DEF Surjection

\* ChangeAt makes a change of its path that carries the new hash.
LEMMA ChangeAtType ==
    ASSUME NEW prev \in Table, NEW new \in Table, NEW p \in Path
    PROVE  /\ ChangeAt(prev, new, p) \in Change
           /\ ChangeAt(prev, new, p).path = p
           /\ ChangeAt(prev, new, p).hash = new[p]
           /\ new[p] # NoFile => ChangeAt(prev, new, p).kind # "Deletion"
BY DEF Table, ChangeAt, Change, KindOf, ChangeKind

\* A scan lists changes of paths to what the folder now holds, and misses no
\* path that differs.
LEMMA DirectoryChangesList ==
    ASSUME NEW prev \in Table, NEW new \in Table,
           NEW list \in DirectoryChanges(prev, new)
    PROVE  /\ list \in Seq(Change)
           /\ \A i \in 1..Len(list) :
                 /\ list[i].path \in Written(prev, new) \cup Removed(prev, new)
                 /\ list[i].hash = new[list[i].path]
           /\ \A p \in Written(prev, new) \cup Removed(prev, new) :
                 \E i \in 1..Len(list) : list[i].path = p
<1> DEFINE W == Written(prev, new)
           R == Removed(prev, new)
<1>1. W \in SUBSET Path /\ R \in SUBSET Path
  BY DEF Written, Removed
<1>2. PICK w \in Listings(W), r \in Listings(R) :
         list = [i \in 1..Len(w \o r) |-> ChangeAt(prev, new, (w \o r)[i])]
  BY DEF DirectoryChanges
<1>3. /\ w \in Seq(W) /\ \A p \in W : \E i \in 1..Len(w) : w[i] = p
      /\ r \in Seq(R) /\ \A p \in R : \E i \in 1..Len(r) : r[i] = p
  BY <1>1, ListingSequence
<1>4. w \in Seq(W \cup R) /\ r \in Seq(W \cup R)
  BY <1>3, SeqMonotonic
<1>5. /\ w \o r \in Seq(W \cup R)
      /\ Len(w \o r) = Len(w) + Len(r)
      /\ \A i \in 1..Len(w) + Len(r) :
            (w \o r)[i] = IF i <= Len(w) THEN w[i] ELSE r[i - Len(w)]
  BY <1>4, ConcatProperties
<1>6. Len(w) \in Nat /\ Len(r) \in Nat
  BY <1>4, LenProperties
<1>7. \A i \in 1..Len(w \o r) : (w \o r)[i] \in W \cup R /\ (w \o r)[i] \in Path
  BY <1>1, <1>5, ElementOfSeq
<1>8. Len(w \o r) \in Nat /\ \A i \in 1..Len(w \o r) : list[i] = ChangeAt(prev, new, (w \o r)[i])
  BY <1>2, <1>5, <1>6
<1>9. list \in [1..Len(w \o r) -> Change]
  BY <1>2, <1>7, ChangeAtType
<1>10. list \in Seq(Change) /\ Len(list) = Len(w \o r)
  BY <1>8, <1>9
<1>11. \A i \in 1..Len(list) : list[i].path \in W \cup R /\ list[i].hash = new[list[i].path]
  BY <1>7, <1>8, <1>10, ChangeAtType
<1>12. ASSUME NEW p \in W \cup R PROVE \E i \in 1..Len(list) : list[i].path = p
  <2>1. \E i \in 1..Len(w \o r) : (w \o r)[i] = p
    <3>1. CASE p \in W
      BY <3>1, <1>3, <1>5, <1>6
    <3>2. CASE p \in R
      <4>1. PICK i \in 1..Len(r) : r[i] = p  BY <3>2, <1>3
      <4>2. Len(w) + i \in 1..Len(w \o r) /\ (w \o r)[Len(w) + i] = r[i]
        BY <1>5, <1>6
      <4> QED BY <4>1, <4>2
    <3> QED BY <3>1, <3>2
  <2> QED BY <2>1, <1>7, <1>8, <1>10, ChangeAtType
<1> QED BY <1>10, <1>11, <1>12

\* What dealWithHashTable asks for are changes of files that the other node has.
LEMMA RequestListsList ==
    ASSUME NEW host \in Table, NEW foreign \in Table, NEW ignoreEdits \in BOOLEAN,
           NEW list \in RequestLists(host, foreign, ignoreEdits)
    PROVE  /\ list \in Seq(Change)
           /\ \A i \in 1..Len(list) :
                 /\ list[i].kind # "Deletion"
                 /\ list[i].hash = foreign[list[i].path]
                 /\ list[i].hash # NoFile
<1> DEFINE S == RequestedPaths(host, foreign, ignoreEdits)
<1>1. S \in SUBSET Written(host, foreign) /\ S \in SUBSET Path
  BY DEF RequestedPaths, Written
<1>2. PICK s \in Listings(S) :
         list = [i \in 1..Len(s) |-> ChangeAt(host, foreign, s[i])]
  BY DEF RequestLists
<1>3. s \in Seq(S)
  BY <1>1, ListingSequence
<1>4. Len(s) \in Nat /\ \A i \in 1..Len(s) : s[i] \in S
  BY <1>3, LenProperties, ElementOfSeq
<1>5. \A p \in S : p \in Path /\ foreign[p] # NoFile
  BY <1>1 DEF Written
<1>6. list \in [1..Len(s) -> Change]
  BY <1>2, <1>4, <1>5, ChangeAtType
<1>7. list \in Seq(Change) /\ Len(list) = Len(s)
  BY <1>4, <1>6
<1> QED BY <1>2, <1>4, <1>5, <1>7, ChangeAtType

\* A finite non-empty set of positions has a last one.
LEMMA LastPosition ==
    ASSUME NEW n \in Nat, NEW T \in SUBSET (1..n), T # {}
    PROVE  \E i \in T : \A j \in T : j <= i
<1> DEFINE Above(i) == {j \in T : i < j}
           Tails    == {Above(i) : i \in T}
<1>1. IsFiniteSet(T) /\ T \subseteq Nat
  <2>1. 1 \in Int /\ n \in Int /\ T \in SUBSET (1..n)  OBVIOUS
  <2>2. IsFiniteSet(1..n)  BY ONLY <2>1, FS_Interval
  <2>3. IsFiniteSet(T)  BY ONLY <2>1, <2>2, FS_Subset
  <2> QED BY <2>3
<1>2. Tails \subseteq FiniteSubsetsOf(T) /\ Tails # {}
  <2>1. FiniteSubsetsOf(T) = SUBSET T  BY <1>1, FS_FiniteSubsetsOfFinite
  <2>2. \A i \in T : Above(i) \in SUBSET T  OBVIOUS
  <2> HIDE DEF Above
  <2>3. Tails \subseteq SUBSET T  BY <2>2
  <2>4. Tails # {}  OBVIOUS
  <2> QED BY <2>1, <2>3, <2>4
<1>3. \E x \in Tails : \A y \in Tails : ~(<<y, x>> \in StrictSubsetOrdering(T))
  BY <1>2, WFMin, FS_StrictSubsetOrderingWellFounded
<1>4. PICK i \in T : \A j \in T : ~(<<Above(j), Above(i)>> \in StrictSubsetOrdering(T))
  BY <1>3
<1>5. ASSUME NEW j \in T, i < j PROVE FALSE
  <2>0. i \in Nat /\ j \in Nat  BY <1>1
  <2>1. Above(j) \subseteq Above(i) /\ j \in Above(i) /\ j \notin Above(j)
    <3>1. \A k \in T : j < k => i < k  BY <1>1, <1>5, <2>0
    <3>2. ~(j < j)  BY <2>0
    <3> QED BY <1>5, <3>1, <3>2
  <2>2. Above(j) \in SUBSET T /\ Above(i) \in SUBSET T  OBVIOUS
  <2>3. <<Above(j), Above(i)>> \in StrictSubsetOrdering(T)
    <3> HIDE DEF Above
    <3> QED BY <2>1, <2>2 DEF StrictSubsetOrdering
  <2> QED BY <2>3, <1>4
<1> QED BY <1>1, <1>5

\* The positions of the changes of a path, the last of which decides in Learn.
About(changes, p) == {i \in 1..Len(changes) : changes[i].path = p}

LEMMA LearnDecides ==
    ASSUME NEW table \in Table, NEW changes \in Seq(Change), NEW p \in Path
    PROVE  /\ About(changes, p) = {} => Learn(table, changes)[p] = table[p]
           /\ About(changes, p) # {} =>
                 \E i \in About(changes, p) :
                    /\ \A j \in About(changes, p) : j <= i
                    /\ Learn(table, changes)[p] = changes[i].hash
<1> DEFINE A == About(changes, p)
           last == CHOOSE i \in A : \A j \in A : j <= i
<1>1. Learn(table, changes)[p] = IF A = {} THEN table[p] ELSE changes[last].hash
  BY Zenon DEF Learn, About
<1>2. ASSUME A # {} PROVE last \in A /\ \A j \in A : j <= last
  <2>1. Len(changes) \in Nat /\ A \in SUBSET (1..Len(changes))
    BY LenProperties DEF About
  <2>2. \E i \in A : \A j \in A : j <= i
    BY <1>2, <2>1, LastPosition
  <2> QED BY ONLY <2>2, Zenon
<1> QED BY <1>1, <1>2

\* Learning keeps a table a table.
LEMMA LearnType ==
    ASSUME NEW table \in Table, NEW changes \in Seq(Change)
    PROVE  Learn(table, changes) \in Table
<1>1. ASSUME NEW p \in Path PROVE Learn(table, changes)[p] \in Hash \cup {NoFile}
  <2>1. CASE About(changes, p) = {}
    BY <2>1, LearnDecides DEF Table
  <2>2. CASE About(changes, p) # {}
    <3>1. PICK i \in 1..Len(changes) : Learn(table, changes)[p] = changes[i].hash
      BY <2>2, LearnDecides DEF About
    <3>2. changes[i] \in Change
      BY ElementOfSeq
    <3> QED BY <3>1, <3>2 DEF Change
  <2> QED BY <2>1, <2>2
<1>2. Learn(table, changes) = [p \in Path |-> Learn(table, changes)[p]]
  BY DEF Learn
<1> QED BY <1>1, <1>2 DEF Table

\* If a table and the changes that wait for it add up to the last listing,
\* they still do after the next scan.
LEMMA LearnScan ==
    ASSUME NEW table \in Table, NEW buffer \in Seq(Change),
           NEW prev \in Table, NEW new \in Table,
           NEW list \in DirectoryChanges(prev, new),
           Learn(table, buffer) = prev
    PROVE  Learn(table, buffer \o list) = new
<1>1. /\ list \in Seq(Change)
      /\ \A i \in 1..Len(list) :
            /\ list[i].path \in Written(prev, new) \cup Removed(prev, new)
            /\ list[i].hash = new[list[i].path]
      /\ \A p \in Written(prev, new) \cup Removed(prev, new) :
            \E i \in 1..Len(list) : list[i].path = p
  BY DirectoryChangesList
<1> DEFINE all == buffer \o list
<1>2. /\ all \in Seq(Change) /\ Len(all) = Len(buffer) + Len(list)
      /\ \A i \in 1..Len(buffer) + Len(list) :
            all[i] = IF i <= Len(buffer) THEN buffer[i] ELSE list[i - Len(buffer)]
  BY <1>1, ConcatProperties
<1>3. Len(buffer) \in Nat /\ Len(list) \in Nat
  BY <1>1, LenProperties
<1>4. ASSUME NEW p \in Path PROVE Learn(table, all)[p] = new[p]
  <2>1. CASE p \in Written(prev, new) \cup Removed(prev, new)
    <3>1. PICK k \in 1..Len(list) : list[k].path = p
      BY <1>1, <2>1
    <3>2. Len(buffer) + k \in About(all, p)
      BY <1>2, <1>3, <3>1 DEF About
    <3>3. PICK i \in About(all, p) :
             /\ \A j \in About(all, p) : j <= i
             /\ Learn(table, all)[p] = all[i].hash
      <4>1. all \in Seq(Change) /\ About(all, p) # {}
        BY <1>2, <3>2
      <4> HIDE DEF all
      <4> QED BY <4>1, LearnDecides
    <3>4. i \in 1..Len(all) /\ all[i].path = p /\ Len(buffer) + k <= i
      BY <3>2, <3>3 DEF About
    <3>5. i - Len(buffer) \in 1..Len(list) /\ all[i] = list[i - Len(buffer)]
      BY <1>2, <1>3, <3>4
    <3> QED BY <1>1, <3>3, <3>4, <3>5
  <2>2. CASE p \notin Written(prev, new) \cup Removed(prev, new)
    <3>1. new[p] = prev[p]
      BY <2>2 DEF Written, Removed
    <3>2. \A i \in 1..Len(list) : list[i].path # p
      BY <1>1, <2>2
    <3>3. About(all, p) = About(buffer, p)
      BY <1>2, <1>3, <3>2 DEF About
    <3>4. CASE About(all, p) = {}
      <4>1. all \in Seq(Change) /\ buffer \in Seq(Change)
        BY <1>2
      <4> HIDE DEF all
      <4>2. Learn(table, all)[p] = table[p]
        BY <3>4, <4>1, LearnDecides
      <4>3. prev[p] = table[p]
        BY <3>3, <3>4, <4>1, LearnDecides
      <4> QED BY <3>1, <4>2, <4>3
    <3>5. CASE About(all, p) # {}
      <4>1. PICK i \in About(all, p) :
               /\ \A j \in About(all, p) : j <= i
               /\ Learn(table, all)[p] = all[i].hash
        BY <1>2, <3>5, LearnDecides
      <4>2. PICK j \in About(buffer, p) :
               /\ \A k \in About(buffer, p) : k <= j
               /\ Learn(table, buffer)[p] = buffer[j].hash
        BY <3>3, <3>5, LearnDecides
      <4>3. i = j /\ i \in 1..Len(buffer)
        BY <1>3, <3>3, <4>1, <4>2 DEF About
      <4> QED BY <1>2, <1>3, <3>1, <4>1, <4>2, <4>3
    <3> QED BY <3>4, <3>5
  <2> QED BY <2>1, <2>2
<1>5. Learn(table, all) \in Table
  BY <1>2, LearnType
<1> QED BY <1>4, <1>5 DEF Table

\* An empty list teaches nothing.
LEMMA LearnNothing ==
    ASSUME NEW table \in Table
    PROVE  Learn(table, << >>) = table
<1>1. << >> \in Seq(Change) /\ \A p : About(<< >>, p) = {}
  BY EmptySeq DEF About
<1>2. \A p \in Path : Learn(table, << >>)[p] = table[p]
  BY <1>1, LearnDecides
<1>3. Learn(table, << >>) \in Table
  BY <1>1, LearnType
<1> QED BY <1>2, <1>3 DEF Table

=============================================================================
