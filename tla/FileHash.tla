------------------------------ MODULE FileHash ------------------------------
(***************************************************************************)
(* getFileHash: the number a file is known by.  A file is a sequence of    *)
(* signed chars, its path one of wide characters.                          *)
(***************************************************************************)
EXTENDS Integers, Sequences

CONSTANTS
    Byte,
    Cycle,       \* after so many bytes the weights start again: 10 in the code
    Modulus,     \* 2^64 in the code
    Gap,         \* what modBase is less than that: 1001 in the code
    Cr, Lf, Eof  \* the bytes that a stream in text mode treats apart

ASSUME HashAssumption == /\ Byte \subseteq Int /\ Cycle \in Nat \ {0}
                         /\ Modulus \in Nat /\ Gap \in 0..(Modulus - 1)

\* What get() gives of a file that was not opened in binary mode: nothing
\* from a Ctrl-Z on, and one character for a line end.
ReadInText(file) ==
    LET Hidden(n) == \/ \E k \in 1..n : file[k] = Eof
                     \/ file[n] = Cr /\ n < Len(file) /\ file[n + 1] = Lf
        text[n \in 0..Len(file)] ==
            IF n = 0 THEN << >>
            ELSE IF Hidden(n) THEN text[n - 1] ELSE Append(text[n - 1], file[n])
    IN  text[Len(file)]

\* Mutant: the hash is a signed number.
AddedSigned(hash, x) == hash + x
\* (hash + x) % modBase, in 64 bits.
Added(hash, x) == ((hash + x) % Modulus) % (Modulus - Gap)

\* Mutant: the index is reset one byte too early.
WeightShort(n) == (n - 1) % (Cycle - 1)
\* The index i of multiplands, which is the multiplier: 0, 1, ..., 9, 0, ...
Weight(n) == (n - 1) % Cycle

\* A wide character in a char.
AsChar(c) == ((c + 128) % 256) - 128

\* A loop that adds one number after the other.
AddedUp(hash, xs) ==
    LET sum[n \in 0..Len(xs)] == IF n = 0 THEN hash ELSE Added(sum[n - 1], xs[n])
    IN  sum[Len(xs)]

\* The size of the file, and then its path.
PathHash(path, size) == AddedUp(size, [i \in DOMAIN path |-> AsChar(path[i])])

HashOf(path, file) ==
    LET read == ReadInText(file)
    IN  AddedUp(PathHash(path, Len(file)), [n \in DOMAIN read |-> read[n] * Weight(n)])

=============================================================================
