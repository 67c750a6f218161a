------------------------------- MODULE Redaction -------------------------------
(***************************************************************************)
(* redactSonderEvent (packages/core/src/redact.ts), the stage of an emit   *)
(* between the gates and the chain: an event is cloned, walked once for    *)
(* sensitive key names and once for every pattern of its sensitivity       *)
(* level, and refused if a field that must survive would not.              *)
(*                                                                         *)
(* An event is a function from JSON paths to values, a path the sequence   *)
(* of its keys.  A string is the set of the kinds of pattern that match in *)
(* it.  All patterns of one kind are one walk.                             *)
(***************************************************************************)
EXTENDS Integers, SequencesExt

CONSTANTS
  Paths,          \* the paths that an event may have
  SensitiveKeys,  \* SENSITIVE_KEY_PATTERN
  DefaultFields,  \* DEFAULT_MUST_NOT_REDACT
  Allowlists,     \* values of redaction.mustNotRedact
  Inputs          \* events

Kinds == {"secret", "email", "phone", "ssn", "card"}

\* The patterns in the order of their walks.
Patterns == <<"secret", "email", "phone", "ssn", "card">>

Levels == {"low", "medium", "high"}

\* The number of walks of a sensitivity level.
Depth(l) == CASE l = "low" -> 1 [] l = "medium" -> 2 [] l = "high" -> 5

\* Numbers that JSON does not have are a type of their own; so are absent fields and
\* the empty string.
Types ==
  {"absent", "null", "nan", "number", "blank", "text", "array", "object"}

Value == [is : Types, shows : SUBSET Kinds, masked : BOOLEAN]

Plain(t) == [is |-> t, shows |-> {}, masked |-> FALSE]
Missing(v) == v.is \in {"absent", "null"}

Tier == <<"governance", "tier">>
Evidence == <<"governance", "evidence">>

\* q is an ancestor of p.
Above(q, p) == IsStrictPrefix(q, p)

Event ==
  {e \in [Paths -> Value] :
    \A p \in Paths :
      /\ ~e[p].masked
      /\ e[p].is # "text" => e[p].shows = {}
      /\ e[p].is # "absent" =>
           \A q \in Paths : Above(q, p) => e[q].is \in {"array", "object"}}

ASSUME RedactionAssumption ==
  /\ Paths \subseteq Seq(STRING) \ {<<>>}
  /\ {Tier, Evidence, <<"resources">>, <<"paths">>} \cup DefaultFields \subseteq Paths
  /\ Allowlists \subseteq SUBSET Paths
  /\ Inputs \subseteq Event

VARIABLES
  event, level, given,  \* the arguments; an option that is not given counts as the default
  tree,                 \* the clone that is redacted
  listed,               \* how often each path is in `fields`
  at,                   \* number of walks that are over
  stage

args == <<event, level, given>>
vars == <<args, tree, listed, at, stage>>

Stages == {"configured", "walking", "emitted", "refused", "misconfigured"}

RedactTypeOK ==
  /\ event \in Event /\ level \in Levels /\ given \in SUBSET Paths
  /\ tree \in [Paths -> Value]
  /\ listed \in [Paths -> Nat]
  /\ at \in 0..6
  /\ stage \in Stages \cup {"new"}

Init ==
  /\ event \in Inputs /\ level \in Levels /\ given \in Allowlists
  /\ tree = event
  /\ listed = [p \in Paths |-> 0]
  /\ at = 0
  /\ stage = "new"

-----------------------------------------------------------------------------
\* Altered: resources and paths are protected in every event.
ConditionalAlways(e) ==
  {p \in {Tier, Evidence} : e[Tier].is = "text"} \cup {<<"resources">>, <<"paths">>}

\* conditionalGovernanceFields and conditionalResourceFields.
Conditional(e) ==
  {p \in {Tier, Evidence} : e[Tier].is = "text"}
    \cup {p \in {<<"resources">>, <<"paths">>} : e[p].is = "array"}

Allowlist == DefaultFields \cup Conditional(event) \cup given

\* JSON.parse(JSON.stringify(event))
Clone(e) == [p \in Paths |-> IF e[p].is = "nan" THEN Plain("null") ELSE e[p]]

Sensitive(p) == Last(p) \in SensitiveKeys
Buried(p) == \E q \in Paths : Above(q, p) /\ Sensitive(q)

\* validateMustNotRedactOverride, when the pipeline is created.
Configure ==
  /\ stage = "new"
  /\ stage' = IF DefaultFields \subseteq given THEN "configured" ELSE "misconfigured"
  /\ UNCHANGED <<args, tree, listed, at>>

Begin ==
  /\ stage = "configured"
  /\ tree' = Clone(event)
  /\ stage' = "walking"
  /\ UNCHANGED <<args, listed, at>>

Refuse ==
  /\ stage' = "refused"
  /\ UNCHANGED <<args, tree, listed, at>>

\* Altered: a field is taken off the list when it is masked again.
MaskToggles(hits, masked) ==
  IF hits \cap Allowlist # {}
    THEN Refuse
    ELSE /\ tree' = masked
         /\ listed' = [p \in Paths |-> IF p \in hits THEN 1 - listed[p] ELSE listed[p]]
         /\ at' = at + 1
         /\ UNCHANGED <<args, stage>>

\* Altered: a protected path is skipped in the list, not refused.
MaskUnguarded(hits, masked) ==
  /\ tree' = masked
  /\ listed' = [p \in Paths |-> listed[p] + IF p \in hits \ Allowlist THEN 1 ELSE 0]
  /\ at' = at + 1
  /\ UNCHANGED <<args, stage>>

\* The paths that a walk masks are listed; it stops at the first that is protected, and
\* the clone is dropped.
Mask(hits, masked) ==
  IF hits \cap Allowlist # {}
    THEN Refuse
    ELSE /\ tree' = masked
         /\ listed' = [p \in Paths |-> listed[p] + IF p \in hits THEN 1 ELSE 0]
         /\ at' = at + 1
         /\ UNCHANGED <<args, stage>>

\* Altered: the placeholder has no default.
PlaceholderUndefined == [is |-> "undefined", shows |-> {}, masked |-> TRUE]

Placeholder == [is |-> "text", shows |-> {}, masked |-> TRUE]

\* Altered: only strings are replaced by the placeholder.
ByKeyStrings ==
  [p \in Paths |->
    IF Sensitive(p) /\ tree[p].is = "text" THEN [Plain("text") EXCEPT !.masked = TRUE]
    ELSE tree[p]]

\* A value under a sensitive key is replaced whole, whatever its type is.
ByKey ==
  [p \in Paths |->
    CASE Buried(p) -> Plain("absent")
      [] ~Buried(p) /\ Sensitive(p) /\ tree[p].is # "absent" -> Placeholder
      [] OTHER -> tree[p]]

KeyHits == {p \in Paths : tree[p].is # "absent" /\ Sensitive(p) /\ ~Buried(p)}

WalkKeyName ==
  /\ stage = "walking" /\ at = 0
  /\ Mask(KeyHits, ByKey)

\* What matches is replaced in place, and with it what else matched the same characters.
ByPattern(k, also) ==
  [p \in Paths |->
    IF k \in tree[p].shows
      THEN [is |-> "text", shows |-> tree[p].shows \ ({k} \cup also[p]), masked |-> TRUE]
      ELSE tree[p]]

WalkPattern ==
  /\ stage = "walking" /\ at \in 1..Depth(level)
  /\ LET k == Patterns[at]
         hits == {p \in Paths : k \in tree[p].shows}
     IN  \E also \in [hits -> SUBSET (Kinds \ {k})] : Mask(hits, ByPattern(k, also))

\* Every path of the allowlist must resolve to a value.
Enforce ==
  /\ stage = "walking" /\ at > Depth(level)
  /\ IF \E p \in Allowlist : Missing(tree[p])
       THEN Refuse
       ELSE stage' = "emitted" /\ UNCHANGED <<args, tree, listed, at>>

Next == Configure \/ Begin \/ WalkKeyName \/ WalkPattern \/ Enforce

Spec == Init /\ [][Next]_vars

-----------------------------------------------------------------------------
\* R4: an event that goes on to be signed has every field of the allowlist, and each of
\* them is the one that came in: not masked itself, nor lost with a masked ancestor, nor
\* turned to null by the clone.
ProtectedSurvives ==
  stage = "emitted" =>
    \A p \in Allowlist : ~Missing(tree[p]) /\ tree[p] = event[p]

\* What goes on to be signed shows nothing that its level masks: no string still matches a
\* pattern, although later walks work on what earlier ones left, and nothing is left
\* under or below a sensitive key.
NothingLeaks ==
  stage = "emitted" =>
    \A p \in Paths :
      /\ \A n \in 1..Depth(level) : Patterns[n] \notin tree[p].shows
      /\ Sensitive(p) => tree[p] \in {Placeholder, Plain("absent")}
      /\ Buried(p) => tree[p].is = "absent"

\* R5: metadata.redaction lists the paths that were masked and no other, and what differs
\* from the clone of the input is at or below one of them.
EvidenceIsExact ==
  stage = "emitted" =>
    \A p \in Paths :
      /\ listed[p] > 0 <=> tree[p].masked
      /\ tree[p] # Clone(event)[p] =>
           \E q \in Paths : listed[q] > 0 /\ (q = p \/ Above(q, p))

\* R4, R13: an event is refused only for a field of the allowlist that is missing, not a
\* JSON value, or sensitive; in particular not for the absence of a field that is
\* protected when it is present.
RefusedWithCause ==
  stage = "refused" =>
    \E p \in DefaultFields \cup given
          \cup {q \in {Tier, Evidence} : event[Tier].is = "text"}
          \cup {q \in {<<"resources">>, <<"paths">>} : event[q].is # "absent"} :
      \/ Missing(Clone(event)[p])
      \/ Sensitive(p) \/ Buried(p)
      \/ \E n \in 1..Depth(level) : Patterns[n] \in event[p].shows
=============================================================================
