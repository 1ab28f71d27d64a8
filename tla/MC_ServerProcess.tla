-------------------------- MODULE MC_ServerProcess --------------------------
(* Builds of several releases start on one database: two that agree on     *)
(* their common migrations, one whose first migration was edited, one with *)
(* a version that occurs twice and one with a name that cannot be read.    *)
(* Three requests share two connections.  The routes left out only repeat  *)
(* the query that session makes, with the same connection once more.       *)
EXTENDS ServerProcess

file(v, c) == [version |-> v, checksum |-> c]

older == {file(1, "a"), file(2, "a")}

MCDirectories == {
    older,
    older \cup {file(3, "a")},
    {file(1, "b"), file(2, "a")},
    {file(1, "a"), file(3, "a"), file(3, "b")},
    {file(0, "a"), file(1, "a")} }
=============================================================================
