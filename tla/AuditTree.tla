------------------------------ MODULE AuditTree ------------------------------
(***************************************************************************)
(* What the audit index promises: an append-only collection of documents,  *)
(* one for each decision at most, in which every document names the hash   *)
(* of an earlier one (or "genesis") and is never changed or removed.       *)
(***************************************************************************)
EXTENDS Naturals, Sequences

CONSTANT Decisions

VARIABLE tree

Init == tree = {}

Nodes == {<<>>} \cup {Append(d.prev, d.entry) : d \in tree}

Add(decision, prev) ==
  /\ prev \in Nodes
  /\ \A d \in tree : d.entry # decision
  /\ tree' = tree \cup {[entry |-> decision, prev |-> prev]}

Next == \E decision \in Decisions : \E prev \in Nodes : Add(decision, prev)

Spec == Init /\ [][Next]_tree
=============================================================================
