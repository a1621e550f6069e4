------------------------------ MODULE MCLibrary ------------------------------
(* Small instances of Library for TLC. *)
EXTENDS Library

CONSTANT u1

R(table, n, parents, key, data) ==
  Row(table, <<Earlier, n>>,
      [p \in Parents |-> IF p \in DOMAIN parents THEN <<Earlier, parents[p]>> ELSE None], key, data)

Places == {R("room", 1, <<>>, "a", "none"), R("bookcase", 2, [room |-> 1], "a", "none"),
           R("section", 3, [bookcase |-> 2], "a", "none"), R("shelf", 4, [section |-> 3], "a", "none")}

OnShelf == [record |-> 5, room |-> 1, bookcase |-> 2, section |-> 3, shelf |-> 4]

\* A shelf with a copy that is being read and has been read, and a wish.
Shelved ==
  Places \cup
  {R("record", 5, <<>>, "t1", "i1"), R("book", 6, OnShelf, "none", u1),
   R("history", 7, [book |-> 6], Earlier, "none"),
   R("read", 8, [book |-> 6], u1, "none"), R("wish", 9, [record |-> 5], u1, "none")}

\* Two copies of a record without ISBN, which stand nowhere; one is lent.
Loose ==
  {R("record", 5, <<>>, "t1", "none"), R("book", 6, [record |-> 5], "none", "free"),
   R("book", 7, [record |-> 5], "none", "free"), R("loan", 8, [book |-> 7], u1, "out")}

\* What a wipe leaves, and what it is refused for.
Planned == Shelved \cup {R("path", 11, <<>>, "a", "none"), R("challenge", 12, <<>>, "a", "none")}

Chosen == {R("record", 5, <<>>, "t1", "i1"), R("cycle", 6, [record |-> 5], "a", "none")}

SomeLibraries == {{}, Planned, Loose, Chosen}

\* Read while a member wished for a book that was not in the library yet.
Late == Loose \cup {R("wish", 9, [record |-> 10], u1, "none")}

\* A record of which the library has no copy.
Lone == {R("record", 5, <<>>, "t1", "i1")}

\* A copy on a shelf, and one of the same record that stands nowhere.
Apart == Shelved \cup {R("book", 10, [record |-> 5], "none", "free")}

SomeBackups == {Lone, Apart, Loose, Late}

\* Rows of one request tie.
SomeRanks == [k \in Index \cup From |-> CASE k = Earlier -> 0 [] k \in {"a", "t1"} -> 1 [] OTHER -> 2]

=============================================================================
