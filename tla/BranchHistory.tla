---------------------------- MODULE BranchHistory ----------------------------
(***************************************************************************)
(* What a branch promises, whoever writes it: each lineage is a line of    *)
(* states that only grows, one txid at a time and only at the branch's     *)
(* head; the branch moves between lineages only forward, onto one it was   *)
(* never on; and no state that was ever the head changes afterwards.       *)
(***************************************************************************)
EXTENDS Naturals

CONSTANT None    \* the tip of a branch that was destroyed

VARIABLES
  log,    \* the states of all lineages: records with a lineage and a txid
  tip     \* <<lineage, head>>, or None

Append(s) ==
  /\ tip # None
  /\ s.lineage = tip[1]
  /\ s.txid = tip[2] + 1
  /\ log' = log \cup {s}
  /\ tip' = <<s.lineage, s.txid>>

Move ==
  /\ tip # None
  /\ tip' # None
  /\ tip'[1] > tip[1]
  /\ UNCHANGED log

Drop ==
  /\ tip # None
  /\ tip' = None
  /\ UNCHANGED log

Next ==
  \/ \E s \in log' : Append(s)
  \/ Move
  \/ Drop

\* A branch starts at its first state, or, forked, at one of another branch.
Init ==
  /\ tip # None
  /\ \A s \in log : log = {s} /\ tip = <<s.lineage, s.txid>>

Spec == Init /\ [][Next]_<<log, tip>>
=============================================================================
