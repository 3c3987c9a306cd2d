------------------------- MODULE MCDirectoryWatcher -------------------------
(* DirectoryWatcher for TLC: two files and a content of the users' own.    *)
EXTENDS DirectoryWatcher

TwoPaths == {1, 2}

=============================================================================
