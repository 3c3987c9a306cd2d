----------------------------- MODULE MCFileSync -----------------------------
(* FileSync for TLC: the instances of the .cfg files.                      *)
EXTENDS FileSync, TLC

CONSTANTS a, b, c,     \* nodes
          v1, v2, v3   \* contents

OnePath  == {1}
TwoPaths == {1, 2}

\* MayEdit.
Nobody      == {}
Anybody     == Node \X Path
OnlyA       == {a} \X Path
OnlyB       == {<<b, 1>>}

\* Respelt: no file has the other hash by chance, or one file has that of another.
NoChance == [h \in Hash |-> Nothing]
ByChance == [h \in Hash |-> IF h = v1 THEN v2 ELSE Nothing]

=============================================================================
