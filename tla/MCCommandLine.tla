---------------------------- MODULE MCCommandLine ----------------------------
EXTENDS CommandLine

CONSTANT MaxArgs   \* words on a command line

\* Options of each kind, one that is taken for a path and one that is not, a
\* path, the terminator and a word that is nothing.
AllWords == {"-s", "-I", "-p", "--from", "mib", "T", "-"}
Paths    == {"-s", "-I", "-p", "mib", "T"}
Lines    == BoundedSeq(AllWords, MaxArgs)
=============================================================================
