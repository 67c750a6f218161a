------------------------------- MODULE AopEvent -------------------------------
(***************************************************************************)
(* toAopEvent and projectGovernanceObservation (packages/core/src/aop.ts): *)
(* a stored event as an event of the Agent Observation Protocol.           *)
(*                                                                         *)
(* An event is [top, meta, sonder]: its fields but for metadata as a       *)
(* function from names to values, the members of metadata likewise (or     *)
(* NoMeta), and the member metadata.sonder by itself.  A value is told     *)
(* apart only from "undefined".                                            *)
(***************************************************************************)

\* One name stands for all that are treated alike: "id" for the four names that every
\* event has, "memory" for the rest of the envelope, "note" for what a producer added.
SpecFields == {"id", "parent_id", "governance", "memory"}
AopFields == SpecFields \cup {"aop_version", "trace_context"}

NoMeta == [none |-> "undefined"]

\* metadata.sonder, which need not be an object.
NoSonder == [kind |-> "absent", members |-> << >>]
OtherSonder == [kind |-> "other", members |-> << >>]
SonderObject(members) == [kind |-> "object", members |-> members]

Defined(f) == [k \in {n \in DOMAIN f : f[n] # "undefined"} |-> f[k]]
Part(f, names) == [k \in DOMAIN f \cap names |-> f[k]]

\* The fields of g, and those of f over them: {...g, ...f}.
Over(f, g) == [k \in DOMAIN f \cup DOMAIN g |-> IF k \in DOMAIN f THEN f[k] ELSE g[k]]

-----------------------------------------------------------------------------
\* Every field that is not of the specification, Sonder's own or a producer's.
Provenance(event) == Defined(Part(event.top, DOMAIN event.top \ SpecFields))

\* Altered: what was in metadata.sonder is clobbered.
MergedSonderClobbered(event) ==
  IF DOMAIN Provenance(event) = {} THEN event.sonder ELSE SonderObject(Provenance(event))

\* metadata.sonder: an object is added to, anything else is replaced.
MergedSonder(event) ==
  IF DOMAIN Provenance(event) = {} THEN event.sonder
  ELSE IF event.sonder.kind = "object"
       THEN SonderObject(Over(Provenance(event), event.sonder.members))
       ELSE SonderObject(Provenance(event))

MergedMeta(event) ==
  IF event.meta = NoMeta /\ DOMAIN Provenance(event) # {} THEN << >> ELSE event.meta

\* `trace` is options.trace_context, or "undefined".
ToAopEvent(event, trace) ==
  [top |-> Over([aop_version |-> "0.1"],
                Over(Defined([trace_context |-> trace]), Defined(Part(event.top, SpecFields)))),
   meta |-> MergedMeta(event),
   sonder |-> MergedSonder(event)]

ProjectGovernanceObservation(event, trace) ==
  Part(ToAopEvent(event, trace).top,
       {"aop_version", "id", "governance", "parent_id", "trace_context"})

-----------------------------------------------------------------------------
\* Events whose fields are there or not, or undefined, also under the names that the
\* projection adds; with metadata of every form.
EventTops ==
  LET Fields == {"parent_id", "governance", "note", "aop_version", "trace_context",
                 "version"}
  IN  {Over([id |-> "i", memory |-> "m"], f) :
         f \in UNION {[S -> {"v", "undefined"}] : S \in SUBSET Fields}}
EventMetas == {NoMeta, << >>, [kept |-> "k"]}
EventSonders ==
  {OtherSonder, SonderObject(<< >>), SonderObject([version |-> "old"]),
   SonderObject([kept |-> "k"])}

AopInputs ==
  {[top |-> t, meta |-> m, sonder |-> NoSonder] : t \in EventTops, m \in EventMetas} \cup
  {[top |-> t, meta |-> m, sonder |-> s] :
     t \in EventTops, m \in EventMetas \ {NoMeta}, s \in EventSonders}

\* aop.ts:84-90, 115-120: nothing but fields of the protocol is at the top level, with
\* the values that the event has; every other field can be recovered from
\* metadata.sonder under its own name; metadata keeps what it had, but for members of
\* metadata.sonder under a name that the event itself has; nothing is made up.
ProjectionExact(event) ==
  \A trace \in {"t", "undefined"} :
    LET aop == ToAopEvent(event, trace)
        own == Defined(event.top)
    IN
    /\ DOMAIN aop.top \subseteq AopFields
    /\ aop.top["aop_version"] = "0.1"
    /\ ("trace_context" \in DOMAIN aop.top) <=> (trace # "undefined")
    /\ \A k \in SpecFields :
         /\ (k \in DOMAIN aop.top) <=> (k \in DOMAIN own)
         /\ k \in DOMAIN own => aop.top[k] = own[k]
    /\ \A k \in DOMAIN own \ SpecFields :
         k \in DOMAIN aop.sonder.members /\ aop.sonder.members[k] = own[k]
    /\ \A k \in DOMAIN event.sonder.members \ DOMAIN own :
         k \in DOMAIN aop.sonder.members
           /\ aop.sonder.members[k] = event.sonder.members[k]
    /\ DOMAIN aop.sonder.members \subseteq
         (DOMAIN own \ SpecFields) \cup DOMAIN event.sonder.members
    /\ event.meta # NoMeta => aop.meta = event.meta
    /\ ProjectGovernanceObservation(event, trace)
         = [k \in DOMAIN aop.top \ {"memory"} |-> aop.top[k]]
=============================================================================
