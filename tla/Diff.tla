-------------------------------- MODULE Diff --------------------------------
(***************************************************************************)
(* DiffSummary (ops/diff.go) on one table of two databases: which rows are *)
(* the same row, how many were added, removed and changed, and the verdict *)
(* that decides about a promote.  The two files never change; what can go  *)
(* wrong is the identity of rows and what SQL takes to be equal.           *)
(*                                                                         *)
(* A table has a key column, which may be declared its primary key, and a  *)
(* value column; a row's key may be NULL, more than once.  SQL's IS, GROUP *)
(* BY and EXCEPT compare values with the column's collation.               *)
(***************************************************************************)
EXTENDS Naturals, FiniteSets

CONSTANTS
  RowIds, Keys, Values,   \* rowids; keys other than NULL; values
  NULL, NoTable,
  Collated,               \* the value column has a collation that equates values
  WithoutRowid            \* tables WITHOUT ROWID are compared as well

\* What the constants must satisfy.
DiffAssumption ==
  /\ IsFiniteSet(RowIds) /\ NULL \notin Keys
  /\ Collated \in BOOLEAN /\ WithoutRowid \in BOOLEAN

Rows == [k: Keys \cup {NULL}, v: Values]

\* A table's rows by rowid, its declarations, and its columns' names: whether
\* they are the usual ones, and whether they shadow every alias of the rowid.
Tables ==
  {t \in [rows: UNION {[S -> Rows] : S \in SUBSET RowIds},
          pk: BOOLEAN, rowid: BOOLEAN, cols: {"usual", "shadowing"}] :
     /\ t.pk => \A i, j \in DOMAIN t.rows :
                   t.rows[i].k = t.rows[j].k => i = j \/ t.rows[i].k = NULL
     /\ ~t.rowid => WithoutRowid /\ t.pk /\ \A i \in DOMAIN t.rows : t.rows[i].k # NULL}

VARIABLES
  left, right,   \* the table on each side, or NoTable
  pc,            \* the next step
  d              \* the TableDiff

vars == <<left, right, pc, d>>

Blank == [left |-> 0, right |-> 0, comparable |-> FALSE, key |-> "",
          added |-> 0, removed |-> 0, changed |-> 0, schema |-> FALSE, status |-> ""]

Init ==
  /\ left \in Tables \cup {NoTable} /\ right \in Tables \cup {NoTable}
  /\ ~(left = NoTable /\ right = NoTable)
  /\ pc = "count" /\ d = Blank

Then(label, diff) == pc' = label /\ d' = diff /\ UNCHANGED <<left, right>>

RowCount(t) == IF t = NoTable THEN 0 ELSE Cardinality(DOMAIN t.rows)

\* The table is looked up on both sides, counted, and its columns compared.
Count ==
  LET counted == [d EXCEPT !.left = RowCount(left), !.right = RowCount(right)]
  IN  /\ pc = "count"
      /\ \/ left = NoTable /\ Then("done", [counted EXCEPT !.status = "added"])
         \/ right = NoTable /\ Then("done", [counted EXCEPT !.status = "removed"])
         \/ /\ NoTable \notin {left, right} /\ left.cols # right.cols
            /\ Then("done", [counted EXCEPT !.schema = TRUE, !.status = "changed"])
         \/ /\ NoTable \notin {left, right} /\ left.cols = right.cols
            /\ Then("identity", [counted EXCEPT !.comparable = TRUE,
                                   !.schema = left.pk # right.pk \/ left.rowid # right.rowid])

-----------------------------------------------------------------------------
(* SQL                                                                      *)

\* Values the collation does not tell apart are one.
Collation(v) == IF Collated THEN CHOOSE u \in Values : TRUE ELSE v

\* GROUP BY the key, HAVING count(*) > 1.
Unique(t) == \A i, j \in DOMAIN t.rows : t.rows[i].k = t.rows[j].k => i = j

-----------------------------------------------------------------------------
\* Mutant of PkUsable: a declared primary key is taken to be unique.
PkUsableDeclared == left.pk

\* The left table's primary key, if it tells the rows apart on both sides.
PkUsable == left.pk /\ Unique(left) /\ Unique(right)

\* What rows are compared by: the key, the rowid, or nothing, when the verdict
\* goes by the numbers of rows alone.
Identity ==
  /\ pc = "identity"
  /\ \/ PkUsable /\ Then("removed", [d EXCEPT !.key = "pk"])
     \/ ~PkUsable /\ left.cols = "usual" /\ Then("removed", [d EXCEPT !.key = "rowid"])
     \/ /\ ~PkUsable /\ left.cols = "shadowing"
        /\ Then("done", [d EXCEPT !.comparable = FALSE,
                           !.status = IF d.left # d.right THEN "changed" ELSE "same"])

\* Row i of t and row j of u are the same row.
SameRow(t, i, u, j) == IF d.key = "pk" THEN t.rows[i].k = u.rows[j].k ELSE i = j

\* Rows of t without a row of u: the anti-join.
Only(t, u) == {i \in DOMAIN t.rows : \A j \in DOMAIN u.rows : ~SameRow(t, i, u, j)}

\* A query that names the rowid of a table WITHOUT ROWID fails, and the whole
\* summary with it.
Removed ==
  /\ pc = "removed"
  /\ \/ /\ d.key = "rowid" => left.rowid /\ right.rowid
        /\ Then("added", [d EXCEPT !.removed = Cardinality(Only(left, right))])
     \/ /\ d.key = "rowid" /\ ~(left.rowid /\ right.rowid)
        /\ Then("failed", d)

Added ==
  /\ pc = "added"
  /\ Then("changed", [d EXCEPT !.added = Cardinality(Only(right, left))])

\* Mutant of Projection: the rowid is left out.
ProjectionColumns(t, i) == <<t.rows[i].k, Collation(t.rows[i].v)>>

\* A row as EXCEPT sees it.
Projection(t, i) ==
  IF d.key = "rowid" THEN <<i, t.rows[i].k, Collation(t.rows[i].v)>>
  ELSE <<t.rows[i].k, Collation(t.rows[i].v)>>

Projected(t) == {Projection(t, i) : i \in DOMAIN t.rows}

\* Mutant of Differs: equal numbers of rows are enough.
DiffersCounts(diff) == diff.added # diff.removed \/ diff.schema

\* The verdict.
Differs(diff) == diff.added + diff.removed + diff.changed > 0 \/ diff.schema

\* Rows that are not on the right as they are, less the removed ones.
Changed ==
  LET except == Cardinality(Projected(left) \ Projected(right))
      counted == [d EXCEPT !.changed = IF except > d.removed THEN except - d.removed ELSE 0]
  IN  /\ pc = "changed"
      /\ Then("done", [counted EXCEPT !.status = IF Differs(counted) THEN "changed" ELSE "same"])

Next == Count \/ Identity \/ Removed \/ Added \/ Changed

Spec == Init /\ [][Next]_vars

-----------------------------------------------------------------------------
(* Properties                                                               *)

\* A table's rows without their rowids, with how often each occurs.
Content(t) ==
  [r \in {t.rows[i] : i \in DOMAIN t.rows} |->
     Cardinality({i \in DOMAIN t.rows : t.rows[i] = r})]

Compared == pc = "done" /\ d.comparable

\* "two attempts can have equal row counts with different values, and that
\* must never report "same"": a table that was compared is the same only when
\* its rows are.
SameIsSame == Compared /\ d.status = "same" => Content(left) = Content(right)

\* The three numbers account for every row: they lead from the number of rows
\* on the left to that on the right, and each changed row is one that is on
\* both sides and not equal, whatever keys are NULL or repeated.
CountsTrue ==
  Compared /\ d.key # "" =>
    /\ d.left + d.added = d.right + d.removed
    /\ d.changed = Cardinality({ij \in (DOMAIN left.rows) \X (DOMAIN right.rows) :
                      SameRow(left, ij[1], right, ij[2]) /\ left.rows[ij[1]] # right.rows[ij[2]]})
=============================================================================
