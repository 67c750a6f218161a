----------------------------- MODULE LinearLedger -----------------------------
(***************************************************************************)
(* What the audit chain promises an auditor (audit-chain/spec.md R4 to     *)
(* R6): each agent has one list of entries that only grows, and every new  *)
(* entry is linked to the last one.                                        *)
(*                                                                         *)
(* An entry is the pair <<hash it is linked to, own hash>>.  The list is   *)
(* kept as a set of such pairs; its order is in the links.                 *)
(***************************************************************************)
CONSTANT Agents

VARIABLE links    \* links[a]: the entries of agent a

Hashes(a) == {l[2] : l \in links[a]}

\* Entries that no entry is linked to.
Tips(a) == {h \in Hashes(a) : \A l \in links[a] : l[1] # h}

Init == links = [a \in Agents |-> {}]

\* A first entry is linked to a seed of its agent; a later one to the tip.
Append(a, prev, hash) ==
  /\ hash \notin Hashes(a)
  /\ IF links[a] = {}
     THEN prev.kind = "seed" /\ prev.agent = a
     ELSE prev \in Tips(a)
  /\ links' = [links EXCEPT ![a] = @ \cup {<<prev, hash>>}]

\* The entries that a step added.
Added(a) == links'[a] \ links[a]

Next == \E a \in Agents : \E l \in Added(a) : Append(a, l[1], l[2])

Spec == Init /\ [][Next]_links

\* The list has one end and does not branch.
Linear ==
  \A a \in Agents :
    /\ \A l, m \in links[a] : l[1] = m[1] => l = m
    /\ \A h, k \in Tips(a) : h = k
=============================================================================
