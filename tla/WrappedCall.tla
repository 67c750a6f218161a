------------------------------ MODULE WrappedCall ------------------------------
(***************************************************************************)
(* withSonder (packages/sdk/src/with-sonder.ts): an agent's function, run  *)
(* between an event for the decision and one for the outcome.  Each of the *)
(* two goes through Envelope and the rest of the pipeline, and either may  *)
(* be vetoed or refused.  The caller answers a veto as gate.ts advises: it *)
(* retries the call, decision, function and all.                           *)
(***************************************************************************)
EXTENDS Envelope

CONSTANT MaxAttempts    \* bound on the caller's retries

ASSUME WrappedCallAssumption ==
  /\ MaxAttempts \in Nat \ {0}
  /\ Subjects = {"decision", "outcome"}

VARIABLES
  phase,      \* where the wrapped call is
  attempt,    \* attempts of the caller so far
  oneGate,    \* the policy's gate_id is the same for a decision and its outcome
  decision,   \* id of this attempt's decision event
  result,     \* what the function returned in this attempt
  answer,     \* what the caller got
  ran,        \* attempts in which the function was called (auxiliary)
  log         \* the audit log

callVars == <<phase, attempt, oneGate, decision, result, answer, ran, log>>
vars == <<envelopeVars, callVars>>

Phases ==
  {"idle", "deciding", "decided", "running", "reporting", "reported", "over"}

\* gate: GatePendingError; emit: any other error of an emit; host: onEvent threw.
Answers == {"none", "value", "error", "gate", "emit", "host", "lost"}

Event == [id : Nat, attempt : Nat, subject : Subjects, ok : BOOLEAN, parent : Nat]

CallTypeOK ==
  /\ EnvelopeTypeOK
  /\ phase \in Phases /\ answer \in Answers
  /\ attempt \in 0..MaxAttempts /\ ran \subseteq 1..attempt
  /\ oneGate \in BOOLEAN /\ result \in BOOLEAN
  /\ decision \in Nat
  /\ log \subseteq Event

Init ==
  /\ EnvelopeInit /\ about = "decision"
  /\ phase = "idle" /\ attempt = 0 /\ oneGate \in BOOLEAN
  /\ decision = 0 /\ result = TRUE /\ answer = "none"
  /\ ran = {} /\ log = {}

-----------------------------------------------------------------------------
(* The wrapped call.                                                       *)

\* The kind of gate that the policy applies to an event.
PolicySubject(s) == IF oneGate THEN "decision" ELSE s

\* A call of the wrapped function: at first, or again after a veto.
Call ==
  /\ phase \in {"idle", "over"} /\ answer \in {"none", "gate"}
  /\ attempt < MaxAttempts
  /\ BuildEnvelope(PolicySubject("decision"))
  /\ attempt' = attempt + 1
  /\ phase' = "deciding" /\ answer' = "none" /\ decision' = 0
  /\ UNCHANGED <<oneGate, result, ran, log>>

Emitting == phase \in {"deciding", "reporting"}

\* The emit resolves: its event is on file.  Ids grow with the log.
Stored ==
  LET id == attempt * 2 + IF phase = "deciding" THEN 0 ELSE 1 IN
  /\ Emitting /\ stage = "clear"
  /\ EmitOver
  /\ IF phase = "deciding"
     THEN /\ log' = log \cup {[id |-> id, attempt |-> attempt, subject |-> "decision",
                               ok |-> TRUE, parent |-> 0]}
          /\ decision' = id /\ phase' = "decided"
     ELSE /\ log' = log \cup {[id |-> id, attempt |-> attempt, subject |-> "outcome",
                               ok |-> result, parent |-> decision]}
          /\ phase' = "reported" /\ UNCHANGED decision
  /\ UNCHANGED <<attempt, oneGate, result, answer, ran>>

\* Altered: the error of an emit is swallowed.
EmitFailsUnnoticed(cause) ==
  /\ Emitting
  /\ \/ stage = "vetoed" /\ cause = "gate"
     \/ stage \in {"rejected", "clear"} /\ cause = "emit"
  /\ EmitOver
  /\ UNCHANGED callVars

\* The emit rejects, and the wrapped call with it, whatever the function did.
EmitFails(cause) ==
  /\ Emitting
  /\ \/ stage = "vetoed" /\ cause = "gate"
     \/ stage \in {"rejected", "clear"} /\ cause = "emit"
  /\ EmitOver
  /\ phase' = "over" /\ answer' = cause
  /\ UNCHANGED <<attempt, oneGate, decision, result, ran, log>>

\* Altered: the decision's emit is not awaited.
CallFnUnawaited ==
  /\ phase \in {"deciding", "decided"}
  /\ phase' = "running" /\ ran' = ran \cup {attempt}
  /\ UNCHANGED <<envelopeVars, attempt, oneGate, decision, result, answer, log>>

\* onEvent returns, and the function is called.
CallFn ==
  /\ phase = "decided"
  /\ phase' = "running" /\ ran' = ran \cup {attempt}
  /\ UNCHANGED <<envelopeVars, attempt, oneGate, decision, result, answer, log>>

\* The function settles: emitOutcome with or without an error.
FnSettles(ok) ==
  /\ phase = "running"
  /\ BuildEnvelope(PolicySubject("outcome"))
  /\ phase' = "reporting" /\ result' = ok
  /\ UNCHANGED <<attempt, oneGate, decision, answer, ran, log>>

\* onEvent returns, and the function's value is returned or its error thrown.
Answer ==
  /\ phase = "reported"
  /\ phase' = "over" /\ answer' = IF result THEN "value" ELSE "error"
  /\ UNCHANGED <<envelopeVars, attempt, oneGate, decision, result, ran, log>>

\* onEvent throws; so does the wrapped call.
OnEventThrows ==
  /\ phase \in {"decided", "reported"}
  /\ phase' = "over" /\ answer' = "host"
  /\ UNCHANGED <<envelopeVars, attempt, oneGate, decision, result, ran, log>>

\* The process ends; the log stays.
Crash ==
  /\ phase \notin {"idle", "over"}
  /\ phase' = "over" /\ answer' = "lost" /\ EmitOver
  /\ UNCHANGED <<attempt, oneGate, decision, result, ran, log>>

-----------------------------------------------------------------------------
CallStep ==
  \/ EmitStep /\ UNCHANGED callVars
  \/ Stored \/ CallFn \/ Answer
  \/ \E ok \in BOOLEAN : FnSettles(ok)
  \/ \E cause \in {"gate", "emit"} : EmitFails(cause)

Next ==
  \/ CallStep \/ Call \/ OnEventThrows \/ Crash
  \/ (AdapterRejects \/ Surroundings) /\ UNCHANGED callVars

Spec == Init /\ [][Next]_vars

\* Adapters and the function settle, and the event loop runs what is ready.
FairSpec == Spec /\ WF_vars(CallStep)

-----------------------------------------------------------------------------
(* What a wrapped call promises.                                           *)

Decided(n) == {e \in log : e.attempt = n /\ e.subject = "decision"}
Reported(n) == {e \in log : e.attempt = n /\ e.subject = "outcome"}

\* with-sonder.ts:26-31: what the caller is told has happened is on file, and in
\* order: whoever gets the value (or the function's error) finds exactly one
\* decision and one outcome of that kind that names it as its parent; the function
\* is never called before its decision is on file; and no outcome is on file for a
\* function that was not called.
AnswerIsRecorded ==
  /\ answer \in {"value", "error"} =>
       \E o \in Reported(attempt) : o.ok = (answer = "value")
  /\ \A n \in ran : Decided(n) # {}
  /\ \A o \in log : o.subject = "outcome" =>
       /\ o.attempt \in ran
       /\ \E d \in Decided(o.attempt) : o.parent = d.id /\ d.id < o.id
       /\ \A p \in Reported(o.attempt) : p = o

\* gate.ts:26-29 with with-sonder.ts:60-86: retrying vetoed calls never runs the
\* function twice, provided that the policy opens no other gate for an outcome than
\* it has opened for the decision, and begins to demand none in between.
FnRunsOnce ==
  (~moves /\ (oneGate \/ \A g \in demanded : g[2] = "decision"))
    => \A m, n \in ran : m = n

\* A wrapped call answers its caller, whatever is vetoed, refused or thrown.
CallSettles == (phase \notin {"idle", "over"}) ~> (phase = "over")
=============================================================================
