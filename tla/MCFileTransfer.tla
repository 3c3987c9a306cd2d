--------------------------- MODULE MCFileTransfer ---------------------------
(* FileTransfer for TLC: the instances of the .cfg files.                  *)
EXTENDS FileTransfer

CONSTANTS v1, v2    \* bytes

=============================================================================
