------------------------------- MODULE AuditReads -------------------------------
(***************************************************************************)
(* What is read from the log: an initial state has one input of one of the *)
(* pure functions, a log for AuditLog.query and the walks over parent_id   *)
(* (packages/core/src/audit.ts), an event for the projection to AOP        *)
(* (packages/core/src/aop.ts), a value for canonicalize                    *)
(* (packages/core/src/hash.ts) and the clones by JSON, or none.            *)
(***************************************************************************)
EXTENDS AuditQueries, AopEvent, Canonical

VARIABLE given    \* the input of a pure function

GivenNone == given = [kind |-> "none"]
GivenLog == \E l \in Logs : given = [kind |-> "log", log |-> l]
GivenEvent == \E e \in AopInputs : given = [kind |-> "event", event |-> e]
GivenValue == \E v \in Values : given = [kind |-> "value", value |-> v]

ReadsInit == GivenNone \/ GivenLog \/ GivenEvent \/ GivenValue
ReadsSpec == ReadsInit /\ [][UNCHANGED given]_given

\* audit.ts:185-284: the walk over parent_id finds every descendant and ends, and pages
\* tile the log.
QueriesExact ==
  given.kind = "log" => DescendantsExact(given.log) /\ PagesTile(given.log)

\* aop.ts:81-166: a projected event is clean at the top level and loses nothing.
AopExact == given.kind = "event" => ProjectionExact(given.event)

\* hash.ts, redact.ts:99, audit.ts:127: no two values share a canonical text, and what
\* is stored keeps the hash of what was signed.
CanonicalExact ==
  Unambiguous /\ (given.kind = "value" => StorageKeepsHash(given.value))
=============================================================================
