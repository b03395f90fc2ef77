--------------------------- MODULE MCCheckpoints ---------------------------
EXTENDS Checkpoints

\* A file that may be absent, and grows at both ends of a line at once.
MCContents == {Absent, Text(<<"m">>), Text(<<"a", "m", "b">>)}

\* Two lines: one is deleted, the other replaced.
TwoLines == {Text(<<"x", "y">>), Text(<<"x">>), Text(<<"z">>)}

=============================================================================
