----------------------------- MODULE MCAuditTrail -----------------------------
(***************************************************************************)
(* Values of the constants of AuditTrail for TLC, and the pure functions   *)
(* of what the log holds: an initial state either starts the trail or has  *)
(* one input of such a function.                                           *)
(***************************************************************************)
EXTENDS AuditTrail, AuditReads

CONSTANTS a1, a2, p1, p2

-----------------------------------------------------------------------------
(* Values of up to three levels.                                           *)

Scalars ==
  {Null, Undefined, Bare("bigint"), Bare("function"), Literal("boolean", "true")}
    \cup {Literal("number", n) : n \in {"0", "-0", "1", "NaN"}}

Strings(n) == {String(s) : s \in BoundedSeq(Chars, n)}

Arrays(S) == {Array(s) : s \in BoundedSeq(S, 2)}

Objects(names, S) ==
  {Object(<<k>>, <<v>>) : k \in names, v \in S} \cup
  {Object(k, <<v, w>>) : k \in {<<l, m>> \in names \X names : l # m}, v \in S, w \in S}

MemberNames == {<< >>, <<"n">>, <<Quote>>, <<"LF">>}

MCValues ==
  LET flat == Scalars \cup Strings(1)
      few == {Null, Undefined, Literal("number", "-0"), String(<<Comma>>), String(<<Quote>>)}
      nested == Arrays(few) \cup Objects({<<"n">>, <<Quote>>}, few)
  IN  flat \cup Strings(2) \cup Arrays(flat) \cup Objects(MemberNames, flat)
        \cup {Array(<<v>>) : v \in nested} \cup {Array(<<v, Null>>) : v \in nested}
        \cup {Object(<<<<"n">>>>, <<v>>) : v \in nested}

-----------------------------------------------------------------------------

Symmetry == Permutations({a1, a2}) \cup Permutations({p1, p2})

\* Starts and ends of processes, and changes of the key file, are explored on an
\* unedited log of at most one event; the log then grows, and is edited, under every
\* outcome of them that leaves a process running and a key file in place.
Quiet ==
  /\ \A p \in Procs : pc[p] \in {"off", "up"}
  /\ \E p \in Procs : pc[p] = "up"
  /\ file.state = "whole" /\ file.private
Bound == ((nextId <= 2 /\ ~Touched) \/ Quiet)'

MCInit == Init /\ ReadsInit

MCSpec == MCInit /\ [][given.kind = "none" /\ Next /\ UNCHANGED given]_<<vars, given>>
=============================================================================
