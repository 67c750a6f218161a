----------------------------- MODULE AuditQueries -----------------------------
(***************************************************************************)
(* What AuditLog.query and the walks over parent_id (packages/core/src/    *)
(* audit.ts) return, as operators on a set `log` of rows                   *)
(*   [id, ts, parent].                                                     *)
(* The parent_id column holds what a caller passed to emit(): it need not  *)
(* name a row, may name the row itself, and may close a cycle.             *)
(*                                                                         *)
(* Ids and times start at 1.  In a filter, as in a parent_id, 0 stands for *)
(* a field that is missing or, which is the same to the code, empty.       *)
(***************************************************************************)
EXTENDS AuditStore, SequencesExt

CONSTANTS
  MaxId,      \* bound on the rows of a log
  MaxTs       \* bound on their times

ASSUME AuditQueriesAssumption == MaxId \in Nat /\ MaxTs \in Nat

-----------------------------------------------------------------------------
NoFilter == [parent |-> 0, from |-> 0, to |-> 0, limit |-> 0, offset |-> 0]

\* The conditions of the WHERE clause.  Left out: agent_id and task_id, which are like
\* parent_id, and validated, which filters also when it is false (audit.ts:213).  A
\* filter's `violations` is not looked at.
Matches(r, filter) ==
  /\ filter.parent # 0 => r.parent = filter.parent
  /\ filter.from # 0 => r.ts >= filter.from
  /\ filter.to # 0 => r.ts <= filter.to

\* ORDER BY timestamp, id.
InOrder(S) ==
  [n \in 1..Cardinality(S) |->
     CHOOSE r \in S : Cardinality({q \in S : Before(q, r)}) = n - 1]

\* A limit of 0 is none, and SQLite takes no OFFSET without a LIMIT.
Refused(filter) == filter.offset # 0 /\ filter.limit = 0

Query(log, filter) ==
  LET found == InOrder({r \in log : Matches(r, filter)})
      last == IF filter.limit = 0 THEN Len(found) ELSE filter.offset + filter.limit
  IN  IF Refused(filter) THEN << >>
      ELSE SubSeq(found, filter.offset + 1, IF last < Len(found) THEN last ELSE Len(found))

QueryChildren(log, id) == Query(log, [NoFilter EXCEPT !.parent = id])

\* Altered: no visited set.
VisitAgain(w, child) ==
  [visited |-> w.visited, out |-> Append(w.out, child.id),
   frontier |-> Append(w.frontier, child.id)]

\* The body of the inner loop of queryDescendants.
Visit(w, child) ==
  IF child.id \in w.visited THEN w
  ELSE [visited |-> w.visited \cup {child.id},
        out |-> Append(w.out, child.id),
        frontier |-> Append(w.frontier, child.id)]

\* The inner loop, over the children of one event.
VisitAll(w, children) ==
  LET after[n \in 0 .. Len(children)] ==
        IF n = 0 THEN w ELSE Visit(after[n - 1], children[n])
  IN  after[Len(children)]

\* One round of the outer loop: the children of every event of the frontier in turn.
NextLevel(log, walk) ==
  LET after[n \in 0 .. Len(walk.frontier)] ==
        IF n = 0 THEN [walk EXCEPT !.frontier = << >>]
        ELSE VisitAll(after[n - 1], QueryChildren(log, walk.frontier[n]))
  IN  after[Len(walk.frontier)]

\* The walk after some rounds; without a maxDepth it goes on until the frontier is empty.
WalkFrom(log, root, rounds) ==
  LET walk[d \in 0..rounds] ==
        IF d = 0 THEN [visited |-> {root}, out |-> << >>, frontier |-> <<root>>]
        ELSE NextLevel(log, walk[d - 1])
  IN  walk[rounds]

QueryDescendants(log, root, maxDepth) == WalkFrom(log, root, maxDepth).out

-----------------------------------------------------------------------------
(* Every log of at most MaxId rows.                                        *)

Logs ==
  UNION {{{[id |-> i, ts |-> t[i], parent |-> p[i]] : i \in S} :
            t \in [S -> 1..MaxTs], p \in [S -> 0..MaxId]} : S \in SUBSET (1..MaxId)}

\* x is n hops below root in the log: its parent, or that one's, and so on, is root.
Below(log, root) ==
  LET below[n \in 0 .. MaxId] ==
        IF n = 0 THEN {root}
        ELSE {r.id : r \in {q \in log : q.parent \in below[n - 1]}}
  IN  below

Depth(log, root, x) ==
  CHOOSE n \in 1..MaxId : /\ x \in Below(log, root)[n]
                          /\ \A m \in 1..n - 1 : x \notin Below(log, root)[m]

\* audit.ts:253-262: a walk returns every descendant within maxDepth once and never the
\* root, the nearer ones first; without a maxDepth it ends, also on cycles, whatever is in
\* parent_id.
DescendantsExact(log) ==
  \A root \in 1..MaxId :
    /\ WalkFrom(log, root, MaxId).frontier = << >>
    /\ \A maxDepth \in 0..MaxId :
         LET out == QueryDescendants(log, root, maxDepth)
             reached == (UNION {Below(log, root)[n] : n \in 1..maxDepth}) \ {root}
         IN  /\ ToSet(out) = reached /\ Len(out) = Cardinality(reached)
             /\ \A i, j \in DOMAIN out :
                  i < j => Depth(log, root, out[i]) <= Depth(log, root, out[j])

\* audit.ts:185-225: pages follow one another without a gap or a repetition, in time
\* order, with or without a range of time.
PagesTile(log) ==
  \A size \in 1..MaxId, from \in 0..MaxTs, to \in 0..MaxTs :
    LET all == Query(log, [NoFilter EXCEPT !.from = from, !.to = to])
        Page(n) == Query(log, [NoFilter EXCEPT !.from = from, !.to = to,
                                               !.limit = size, !.offset = n * size])
        pages[n \in 0 .. MaxId] == IF n = 0 THEN << >> ELSE pages[n - 1] \o Page(n - 1)
    IN  /\ pages[MaxId] = all
        /\ ToSet(all) = {r \in log : (from # 0 => r.ts >= from) /\ (to # 0 => r.ts <= to)}
        /\ \A i, j \in DOMAIN all : i < j => all[i].ts <= all[j].ts
=============================================================================
