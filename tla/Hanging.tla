------------------------------ MODULE Hanging ------------------------------
(***************************************************************************)
(* What the tables of this service promise about the rows that belong to   *)
(* another one: a row hangs from a parent that is there, it never moves,   *)
(* its identifier is never given to another row, and it goes with its      *)
(* parent. The modules of the components show that their handlers, in      *)
(* whatever order their steps come, implement this.                        *)
(***************************************************************************)
CONSTANTS
  Parent,  \* what rows may hang from
  Id       \* the identifiers of the rows

VARIABLES
  parents,  \* the parents that are there
  rows,     \* pairs: a parent and the identifier of a row that hangs from it
  spent     \* the identifiers that are not to be used again

vars == <<parents, rows, spent>>

Ids(R) == {row[2] : row \in R}

TypeOK ==
  /\ parents \subseteq Parent
  /\ rows \subseteq Parent \X Id
  /\ spent \subseteq Id

Init ==
  /\ parents \subseteq Parent
  /\ rows \subseteq parents \X Id
  /\ Ids(rows) \subseteq spent /\ spent \subseteq Id

\* Parents and rows are added, the rows under identifiers never used, and
\* other rows may be deleted.
Change ==
  /\ parents \subseteq parents' /\ parents' \subseteq Parent
  /\ rows' \ rows \subseteq parents' \X (Id \ spent)

\* ON DELETE CASCADE
DropParent ==
  \E p \in parents : /\ parents' = parents \ {p}
                     /\ rows' = {row \in rows : row[1] # p}

\* An identifier may be spent on a row that is never stored.
Next ==
  /\ Change \/ DropParent \/ UNCHANGED <<parents, rows>>
  /\ spent \subseteq spent' /\ spent' \subseteq Id
  /\ Ids(rows') \subseteq spent'

Spec == Init /\ [][Next]_vars

=============================================================================
