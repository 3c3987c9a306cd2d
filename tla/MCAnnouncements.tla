--------------------------- MODULE MCAnnouncements ---------------------------
(* Announcements for TLC: the instance of formats.cfg.                      *)
EXTENDS Announcements

\* -1, a line end in two characters, the end of a text, and a letter.
MCByte == {-1, 10, 13, 26, 97}
MCHash == 0..(Modulus - Gap - 1)

\* "\a", "\b", "\c", and a name beyond ASCII: the low bytes of its characters
\* take the sum below nothing.
MCRoot == <<92>>
MCName == <<<<92, 97>>, <<92, 98>>, <<92, 99>>, <<92, 384, 384>>>>

\* Users change the first and the last of them.
MCEdited == {1, 4}

\* Files that differ in what counts for the hash and in what does not, the
\* last four in one byte each.
MCFiles == {<< >>, <<97>>, <<97, 26>>, <<-1, -1>>, <<13, 10>>,
            <<97, 97, 97, 97>>, <<10, 97, 97, 97>>, <<97, 97, 10, 97>>, <<97, 97, 97, 10>>}
MCFirst == {f \in [Path -> {<<97>>, NoFile}] : f[2] = f[3]}

=============================================================================
