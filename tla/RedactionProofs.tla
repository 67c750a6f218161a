---------------------------- MODULE RedactionProofs ----------------------------
(***************************************************************************)
(* Proofs about Redaction, for any event, allowlist, key names and level.  *)
(***************************************************************************)
EXTENDS Redaction, SequenceTheorems, Induction

-----------------------------------------------------------------------------
(* The topmost sensitive key above a path.                                 *)

\* A strict prefix is shorter.
LEMMA AboveIsShorter ==
  ASSUME NEW q \in Seq(STRING), NEW p \in Seq(STRING), Above(q, p)
  PROVE  Len(q) < Len(p)
<1>1. Len(q) <= Len(p) /\ SubSeq(q, 1, Len(q)) = SubSeq(p, 1, Len(q)) /\ q # p
  BY DEF Above, IsStrictPrefix, IsPrefix
<1>2. SubSeq(q, 1, Len(q)) = q /\ SubSeq(p, 1, Len(p)) = p
  BY SubSeqFull
<1>3. Len(q) # Len(p)
  BY <1>1, <1>2
<1>4. QED
  BY <1>1, <1>3

LEMMA AboveElements ==
  ASSUME NEW q \in Seq(STRING), NEW p \in Seq(STRING), Above(q, p)
  PROVE  \A i \in 1..Len(q) : q[i] = p[i]
<1>1. Len(q) < Len(p) /\ SubSeq(q, 1, Len(q)) = SubSeq(p, 1, Len(q))
  BY AboveIsShorter DEF Above, IsStrictPrefix, IsPrefix
<1>2. SubSeq(q, 1, Len(q)) = q
  BY SubSeqFull
<1>3. \A i \in 1..Len(q) : SubSeq(p, 1, Len(q))[i] = p[i]
  BY <1>1
<1>4. QED
  BY <1>1, <1>2, <1>3

LEMMA AboveTransitive ==
  ASSUME NEW r \in Seq(STRING), NEW q \in Seq(STRING), NEW p \in Seq(STRING),
         Above(r, q), Above(q, p)
  PROVE  Above(r, p)
<1>1. Len(r) < Len(q) /\ Len(q) < Len(p)
  BY AboveIsShorter
<1>2. \A i \in 1..Len(r) : r[i] = p[i]
  BY <1>1, AboveElements
<1>3. SubSeq(r, 1, Len(r)) = SubSeq(p, 1, Len(r))
  BY <1>1, <1>2
<1>4. QED
  BY <1>1, <1>3 DEF Above, IsStrictPrefix, IsPrefix

\* What is buried is buried under a sensitive key that is not buried itself.
LEMMA Topmost ==
  ASSUME NEW p \in Paths, Buried(p)
  PROVE  \E q \in Paths : Above(q, p) /\ Sensitive(q) /\ ~Buried(q)
<1>1. Paths \subseteq Seq(STRING)
  BY RedactionAssumption
<1> DEFINE A == {q \in Paths : Above(q, p) /\ Sensitive(q)}
           T == {Len(q) : q \in A}
<1>2. T \in SUBSET Nat /\ T # {}
  <2>1. \A q \in A : Len(q) \in Nat
    BY <1>1
  <2>2. PICK q \in Paths : Above(q, p) /\ Sensitive(q)
    BY DEF Buried
  <2>3. Len(q) \in T
    BY <2>2
  <2>4. QED
    BY <2>1, <2>3
<1>3. PICK n \in T : \A m \in T : n <= m
  <2> HIDE DEF T
  <2>1. QED
    BY <1>2, LeastNat
<1>4. PICK q \in A : Len(q) = n
  BY <1>3
<1>5. ASSUME NEW r \in Paths, Above(r, q), Sensitive(r)
      PROVE  FALSE
  <2>1. r \in A
    BY <1>1, <1>5, AboveTransitive
  <2>2. Len(r) < Len(q)
    BY <1>1, <1>5, AboveIsShorter
  <2>3. n <= Len(r) /\ Len(r) \in Nat /\ n \in Nat
    BY <1>1, <1>2, <1>3, <2>1
  <2>4. QED
    BY <1>4, <2>2, <2>3
<1>6. QED
  BY <1>4, <1>5 DEF Buried

-----------------------------------------------------------------------------
(* The inductive invariant.                                                *)

\* What has become of an event, and of the list, after `at` walks.
Sound ==
  /\ \A p \in Allowlist :
       \/ tree[p] = Clone(event)[p]
       \/ tree[p] = Plain("absent") /\ Buried(p)
  /\ \A p \in Paths :
       /\ tree[p].shows \subseteq event[p].shows
       /\ listed[p] > 0 <=> tree[p].masked
       /\ tree[p] # Clone(event)[p] =>
            \E q \in Paths : listed[q] > 0 /\ (q = p \/ Above(q, p))
       /\ \A n \in 1..5 : n < at => Patterns[n] \notin tree[p].shows

\* The walk of the keys is the first.
KeysFirst ==
  /\ at = 0 => tree = Clone(event) /\ listed = [p \in Paths |-> 0]
  /\ at > 0 =>
       \A p \in Paths :
         /\ Sensitive(p) => tree[p] \in {Placeholder, Plain("absent")}
         /\ Buried(p) => tree[p] = Plain("absent")

RedactInv ==
  /\ RedactTypeOK
  /\ stage \in {"new", "configured"} => at = 0 /\ listed = [p \in Paths |-> 0]
  /\ stage \in {"walking", "emitted"} => Sound /\ KeysFirst
  /\ stage = "walking" => at <= Depth(level) + 1
  /\ stage = "emitted" =>
       at > Depth(level) /\ \A p \in Allowlist : ~Missing(tree[p])
  /\ RefusedWithCause

-----------------------------------------------------------------------------
(* Lemmas about one event.                                                 *)

LEMMA Constants ==
  /\ Placeholder \in Value /\ \A t \in Types : Plain(t) \in Value
  /\ \A l \in Levels : Depth(l) \in 1..5
  /\ \A n \in 1..5 : Patterns[n] \in Kinds
<1>1. Placeholder \in Value /\ \A t \in Types : Plain(t) \in Value
  BY DEF Placeholder, Plain, Value, Types
<1>2. \A l \in Levels : Depth(l) \in 1..5
  BY DEF Depth, Levels
<1>3. \A n \in 1..5 : Patterns[n] \in Kinds
  BY DEF Patterns, Kinds
<1>4. QED
  BY <1>1, <1>2, <1>3

\* What JSON does to an event.
LEMMA CloneIsEvent ==
  ASSUME NEW e \in Event
  PROVE  /\ Clone(e) \in [Paths -> Value]
         /\ \A p \in Paths :
              /\ ~Clone(e)[p].masked
              /\ Clone(e)[p].shows \subseteq e[p].shows
              /\ Clone(e)[p].is = "absent" <=> e[p].is = "absent"
              /\ ~Missing(Clone(e)[p]) => Clone(e)[p] = e[p]
<1>1. e \in [Paths -> Value] /\ \A p \in Paths : ~e[p].masked
  BY DEF Event
<1>2. Plain("null") \in Value
  BY DEF Plain, Value, Types
<1>3. Clone(e) \in [Paths -> Value]
  BY <1>1, <1>2 DEF Clone
<1>4. ASSUME NEW p \in Paths
      PROVE  /\ ~Clone(e)[p].masked
             /\ Clone(e)[p].shows \subseteq e[p].shows
             /\ Clone(e)[p].is = "absent" <=> e[p].is = "absent"
             /\ ~Missing(Clone(e)[p]) => Clone(e)[p] = e[p]
  <2>1. CASE e[p].is = "nan"
    BY <1>1, <2>1 DEF Clone, Plain, Missing
  <2>2. CASE e[p].is # "nan"
    BY <1>1, <2>2 DEF Clone
  <2>3. QED
    BY <2>1, <2>2
<1>5. QED
  BY <1>3, <1>4

\* There is one absent value.
LEMMA AbsentValue ==
  ASSUME NEW e \in Event, NEW p \in Paths, e[p].is = "absent"
  PROVE  e[p] = Plain("absent")
<1>1. e[p] \in Value /\ ~e[p].masked /\ e[p].shows = {}
  BY DEF Event
<1>2. QED
  BY <1>1 DEF Value, Plain

\* A field that is there has its ancestors.
LEMMA AncestorsPresent ==
  ASSUME NEW e \in Event, NEW p \in Paths, NEW q \in Paths,
         e[p].is # "absent", Above(q, p)
  PROVE  e[q].is # "absent"
BY DEF Event

LEMMA AllowlistType ==
  ASSUME given \in SUBSET Paths
  PROVE  Allowlist \subseteq Paths
BY RedactionAssumption DEF Allowlist, Conditional

\* Whatever is protected is so for a reason that RefusedWithCause admits.
LEMMA AllowlistCauses ==
  Allowlist \subseteq DefaultFields \cup given
    \cup {q \in {Tier, Evidence} : event[Tier].is = "text"}
    \cup {q \in {<<"resources">>, <<"paths">>} : event[q].is # "absent"}
BY DEF Allowlist, Conditional

-----------------------------------------------------------------------------
(* The steps.                                                              *)

LEMMA InitInv == Init => RedactInv
<1> SUFFICES ASSUME Init PROVE RedactInv
  OBVIOUS
<1>1. RedactTypeOK
  BY RedactionAssumption DEF Init, RedactTypeOK, Event
<1>2. stage = "new" /\ at = 0 /\ listed = [p \in Paths |-> 0]
  BY DEF Init
<1>3. QED
  BY <1>1, <1>2 DEF RedactInv, RefusedWithCause

\* Only the stage changes.
LEMMA ConfigureStep == RedactInv /\ Configure => RedactInv'
<1> SUFFICES ASSUME RedactInv, Configure PROVE RedactInv'
  OBVIOUS
<1>1. stage' \in {"configured", "misconfigured"} /\ stage = "new"
  BY DEF Configure
<1>2. RedactTypeOK'
  BY <1>1 DEF RedactInv, RedactTypeOK, Configure, args, Stages
<1>3. QED
  BY <1>1, <1>2 DEF RedactInv, RefusedWithCause, Configure

LEMMA BeginStep == RedactInv /\ Begin => RedactInv'
<1> SUFFICES ASSUME RedactInv, Begin PROVE RedactInv'
  OBVIOUS
<1>1. /\ stage = "configured" /\ stage' = "walking" /\ tree' = Clone(event)
      /\ UNCHANGED <<event, level, given, listed, at>>
      /\ at = 0 /\ listed = [p \in Paths |-> 0]
  BY DEF RedactInv, Begin, args
<1>2. event \in Event /\ level \in Levels /\ given \in SUBSET Paths
  BY DEF RedactInv, RedactTypeOK
<1>3. RedactTypeOK'
  BY <1>1, CloneIsEvent DEF RedactInv, RedactTypeOK, Stages
<1>4. Sound'
  <2>1. \A p \in Paths : ~tree'[p].masked /\ tree'[p].shows \subseteq event'[p].shows
    BY <1>1, <1>2, CloneIsEvent
  <2>2. tree' = Clone(event)'
    BY <1>1
  <2>3. at' = 0 /\ \A p \in Paths : listed'[p] = 0
    BY <1>1
  <2>4. \A n \in 1..5 : ~(n < at')
    BY <2>3
  <2>5. \A p \in Paths : listed'[p] > 0 <=> tree'[p].masked
    BY <2>1, <2>3
  <2>6. QED
    BY <1>2, <2>1, <2>2, <2>4, <2>5, AllowlistType DEF Sound
<1>5. KeysFirst'
  BY <1>1 DEF KeysFirst
<1>6. at' <= Depth(level') + 1
  BY <1>1, <1>2, Constants
<1>7. QED
  BY <1>1, <1>3, <1>4, <1>5, <1>6 DEF RedactInv, RefusedWithCause

\* A refusal needs only its cause.
LEMMA RefuseStep ==
  ASSUME RedactInv, Refuse,
         \E p \in Allowlist :
           \/ Missing(Clone(event)[p])
           \/ Sensitive(p) \/ Buried(p)
           \/ \E n \in 1..Depth(level) : Patterns[n] \in event[p].shows
  PROVE  RedactInv'
<1>1. stage' = "refused" /\ UNCHANGED <<event, level, given, tree, listed, at>>
  BY DEF Refuse, args
<1>2. RedactTypeOK'
  BY <1>1 DEF RedactInv, RedactTypeOK, Stages
<1>3. RefusedWithCause'
  <2>1. PICK p \in Allowlist :
          \/ Missing(Clone(event)[p])
          \/ Sensitive(p) \/ Buried(p)
          \/ \E n \in 1..Depth(level) : Patterns[n] \in event[p].shows
    OBVIOUS
  <2>2. p \in DefaultFields \cup given
          \cup {q \in {Tier, Evidence} : event[Tier].is = "text"}
          \cup {q \in {<<"resources">>, <<"paths">>} : event[q].is # "absent"}
    BY <2>1, AllowlistCauses
  <2>3. QED
    BY <1>1, <2>1, <2>2 DEF RefusedWithCause
<1>4. QED
  BY <1>1, <1>2, <1>3 DEF RedactInv

LEMMA KeyStep == RedactInv /\ WalkKeyName => RedactInv'
<1> SUFFICES ASSUME RedactInv, WalkKeyName PROVE RedactInv'
  OBVIOUS
<1>1. /\ stage = "walking" /\ at = 0 /\ Mask(KeyHits, ByKey)
      /\ event \in Event /\ level \in Levels /\ given \in SUBSET Paths
      /\ Sound /\ KeysFirst
  BY DEF RedactInv, RedactTypeOK, WalkKeyName
<1>2. CASE KeyHits \cap Allowlist # {}
  <2>1. Refuse
    BY <1>1, <1>2 DEF Mask
  <2>2. \E p \in Allowlist : Sensitive(p)
    BY <1>2 DEF KeyHits
  <2>3. QED
    BY <2>1, <2>2, RefuseStep
<1>3. CASE KeyHits \cap Allowlist = {}
  <2> DEFINE c == Clone(event)
  <2>1. /\ tree' = ByKey /\ at' = 1 /\ UNCHANGED <<event, level, given, stage>>
        /\ listed' = [p \in Paths |-> listed[p] + IF p \in KeyHits THEN 1 ELSE 0]
    BY <1>1, <1>3 DEF Mask, args
  <2>2. tree = c /\ listed = [p \in Paths |-> 0]
    BY <1>1 DEF KeysFirst
  <2>3. /\ c \in [Paths -> Value]
        /\ \A p \in Paths : ~c[p].masked /\ c[p].shows \subseteq event[p].shows
        /\ \A p \in Paths : c[p].is = "absent" <=> event[p].is = "absent"
    BY <1>1, CloneIsEvent
  <2>4. \A p \in Paths : listed'[p] = IF p \in KeyHits THEN 1 ELSE 0
    BY <2>1, <2>2
  <2>5. ASSUME NEW p \in Paths
        PROVE  \/ Buried(p) /\ p \notin KeyHits /\ tree'[p] = Plain("absent")
               \/ ~Buried(p) /\ Sensitive(p) /\ p \in KeyHits /\ tree'[p] = Placeholder
               \/ /\ ~Buried(p) /\ p \notin KeyHits /\ tree'[p] = c[p]
                  /\ Sensitive(p) => c[p].is = "absent"
    BY <2>1, <2>2 DEF ByKey, KeyHits
  <2>6. RedactTypeOK'
    <3>1. tree' \in [Paths -> Value]
      <4>1. \A p \in Paths : tree'[p] \in Value
        <5>1. Placeholder \in Value /\ Plain("absent") \in Value
          BY Constants DEF Types
        <5>2. QED
          BY <2>3, <2>5, <5>1
      <4>2. QED
        BY <2>1, <4>1 DEF ByKey
    <3>2. listed' \in [Paths -> Nat]
      BY <2>1, <2>2
    <3>3. QED
      BY <2>1, <3>1, <3>2 DEF RedactInv, RedactTypeOK
  <2>7. \A p \in Allowlist : tree'[p] = c[p] \/ (tree'[p] = Plain("absent") /\ Buried(p))
    <3>1. \A p \in Allowlist : p \in Paths /\ p \notin KeyHits
      BY <1>1, <1>3, AllowlistType
    <3>2. QED
      BY <2>5, <3>1
  <2>8. ASSUME NEW p \in Paths
        PROVE  /\ tree'[p].shows \subseteq event[p].shows
               /\ listed'[p] > 0 <=> tree'[p].masked
    <3>1. tree'[p].shows \subseteq event[p].shows
      BY <2>3, <2>5 DEF Plain, Placeholder
    <3>2. p \in KeyHits <=> tree'[p].masked
      BY <2>3, <2>5 DEF Plain, Placeholder
    <3>3. QED
      BY <2>4, <3>1, <3>2
  <2>9. ASSUME NEW p \in Paths, tree'[p] # c[p]
        PROVE  \E q \in Paths : listed'[q] > 0 /\ (q = p \/ Above(q, p))
    <3>1. CASE ~Buried(p)
      BY <2>4, <2>5, <2>9, <3>1
    <3>2. CASE Buried(p)
      <4>1. PICK q \in Paths : Above(q, p) /\ Sensitive(q) /\ ~Buried(q)
        BY <3>2, Topmost
      <4>2. c[p] # Plain("absent")
        BY <2>5, <2>9, <3>2
      <4>3. event[p].is # "absent"
        <5>1. c[p] = event[p] \/ event[p].is = "nan"
          BY DEF Clone
        <5>2. QED
          BY <1>1, <4>2, <5>1, AbsentValue
      <4>4. q \in KeyHits
        BY <1>1, <2>2, <2>3, <4>1, <4>3, AncestorsPresent DEF KeyHits
      <4>5. QED
        BY <2>4, <4>1, <4>4
    <3>3. QED
      BY <3>1, <3>2
  <2>10. \A n \in 1..5 : ~(n < at')
    BY <2>1
  <2>11. Sound'
    BY <2>1, <2>7, <2>8, <2>9, <2>10 DEF Sound, Allowlist
  <2>12. KeysFirst'
    <3>1. \A p \in Paths :
            /\ Sensitive(p) => tree'[p] \in {Placeholder, Plain("absent")}
            /\ Buried(p) => tree'[p] = Plain("absent")
      <4> SUFFICES ASSUME NEW p \in Paths
                   PROVE  /\ Sensitive(p) => tree'[p] \in {Placeholder, Plain("absent")}
                          /\ Buried(p) => tree'[p] = Plain("absent")
        OBVIOUS
      <4>1. c[p].is = "absent" => c[p] = Plain("absent")
        <5>1. c[p] = IF event[p].is = "nan" THEN Plain("null") ELSE event[p]
          BY DEF Clone
        <5>2. Plain("null").is # "absent"
          BY DEF Plain
        <5>3. QED
          BY <1>1, <5>1, <5>2, AbsentValue
      <4>2. QED
        BY <2>5, <4>1
    <3>2. QED
      BY <2>1, <3>1 DEF KeysFirst
  <2>13. at' <= Depth(level') + 1
    BY <1>1, <2>1, Constants
  <2>14. QED
    BY <1>1, <2>1, <2>6, <2>11, <2>12, <2>13 DEF RedactInv, RefusedWithCause
<1>4. QED
  BY <1>2, <1>3

LEMMA PatternStep == RedactInv /\ WalkPattern => RedactInv'
<1> SUFFICES ASSUME RedactInv, WalkPattern PROVE RedactInv'
  OBVIOUS
<1> DEFINE k == Patterns[at]
           hits == {p \in Paths : k \in tree[p].shows}
<1>1. PICK also \in [hits -> SUBSET (Kinds \ {k})] : Mask(hits, ByPattern(k, also))
  BY DEF WalkPattern
<1>2. /\ stage = "walking" /\ at \in 1..Depth(level)
      /\ event \in Event /\ level \in Levels /\ given \in SUBSET Paths
      /\ tree \in [Paths -> Value] /\ listed \in [Paths -> Nat]
      /\ Sound /\ KeysFirst
  BY DEF RedactInv, RedactTypeOK, WalkPattern
<1>3. Depth(level) \in 1..5 /\ at \in 1..5
  BY <1>2, Constants
<1>4. CASE hits \cap Allowlist # {}
  <2>1. Refuse
    BY <1>1, <1>4 DEF Mask
  <2>2. PICK p \in hits \cap Allowlist : TRUE
    BY <1>4
  <2>3. Patterns[at] \in event[p].shows
    BY <1>2, <2>2 DEF Sound
  <2>4. QED
    BY <1>2, <2>1, <2>2, <2>3, RefuseStep
<1>5. CASE hits \cap Allowlist = {}
  <2> DEFINE c == Clone(event)
  <2>1. /\ tree' = ByPattern(k, also) /\ at' = at + 1
        /\ UNCHANGED <<event, level, given, stage>>
        /\ listed' = [p \in Paths |-> listed[p] + IF p \in hits THEN 1 ELSE 0]
    BY <1>1, <1>5 DEF Mask, args
  <2>2. ASSUME NEW p \in hits
        PROVE  /\ tree'[p].is = "text" /\ tree'[p].masked = TRUE
               /\ tree'[p].shows = tree[p].shows \ ({k} \cup also[p])
               /\ tree'[p] \in Value
               /\ listed'[p] > 0
    <3>1. tree'[p] =
            [is |-> "text", shows |-> tree[p].shows \ ({k} \cup also[p]), masked |-> TRUE]
      BY <2>1, <2>2 DEF ByPattern
    <3>2. tree[p].shows \subseteq Kinds
      BY <1>2, <2>2 DEF Value
    <3>3. listed'[p] > 0
      <4>1. listed'[p] = listed[p] + 1
        BY <2>1, <2>2
      <4>2. listed[p] \in Nat
        BY <1>2, <2>2
      <4>3. QED
        BY <4>1, <4>2
    <3>4. QED
      BY <3>1, <3>2, <3>3 DEF Value, Types
  <2>3. ASSUME NEW p \in Paths, p \notin hits
        PROVE  tree'[p] = tree[p] /\ listed'[p] = listed[p] /\ k \notin tree[p].shows
    BY <1>2, <2>1, <2>3 DEF ByPattern
  <2>4. RedactTypeOK'
    <3>1. tree' \in [Paths -> Value]
      <4>1. \A p \in Paths : tree'[p] \in Value
        BY <1>2, <2>2, <2>3
      <4>2. QED
        BY <2>1, <4>1 DEF ByPattern
    <3>2. listed' \in [Paths -> Nat]
      BY <1>2, <2>1
    <3>3. at' \in 0..6
      BY <1>3, <2>1
    <3>4. QED
      BY <2>1, <3>1, <3>2, <3>3 DEF RedactInv, RedactTypeOK
  <2>5. \A p \in Allowlist : tree'[p] = c[p] \/ (tree'[p] = Plain("absent") /\ Buried(p))
    <3>1. \A p \in Allowlist : p \in Paths /\ p \notin hits
      BY <1>2, <1>5, AllowlistType
    <3>2. \A p \in Allowlist : tree'[p] = tree[p]
      BY <2>3, <3>1
    <3>3. QED
      BY <1>2, <3>2 DEF Sound
  <2>6. ASSUME NEW p \in Paths
        PROVE  /\ tree'[p].shows \subseteq event[p].shows
               /\ listed'[p] > 0 <=> tree'[p].masked
               /\ \A n \in 1..5 : n < at' => Patterns[n] \notin tree'[p].shows
    <3>1. /\ tree'[p].shows \subseteq tree[p].shows /\ k \notin tree'[p].shows
          /\ listed'[p] > 0 <=> tree'[p].masked
      <4>1. CASE p \in hits
        <5>1. listed'[p] > 0 /\ tree'[p].masked = TRUE
          BY <2>2, <4>1
        <5>2. QED
          BY <2>2, <4>1, <5>1
      <4>2. CASE p \notin hits
        BY <1>2, <2>3, <4>2 DEF Sound
      <4>3. QED
        BY <4>1, <4>2
    <3>2. tree'[p].shows \subseteq event[p].shows
      BY <1>2, <3>1 DEF Sound
    <3>3. ASSUME NEW n \in 1..5, n < at' PROVE Patterns[n] \notin tree'[p].shows
      <4>1. n = at \/ n < at
        BY <1>3, <2>1, <3>3
      <4>2. CASE n = at
        BY <3>1, <4>2
      <4>3. CASE n < at
        BY <1>2, <3>1, <4>3 DEF Sound
      <4>4. QED
        BY <4>1, <4>2, <4>3
    <3>4. QED
      BY <3>1, <3>2, <3>3
  <2>7. ASSUME NEW p \in Paths, tree'[p] # c[p]
        PROVE  \E q \in Paths : listed'[q] > 0 /\ (q = p \/ Above(q, p))
    <3>1. \A q \in Paths : listed[q] > 0 => listed'[q] > 0
      BY <2>2, <2>3
    <3>2. CASE p \in hits
      BY <2>2, <3>2
    <3>3. CASE p \notin hits
      <4>1. PICK q \in Paths : listed[q] > 0 /\ (q = p \/ Above(q, p))
        BY <1>2, <2>3, <2>7, <3>3 DEF Sound
      <4>2. QED
        BY <3>1, <4>1
    <3>4. QED
      BY <3>2, <3>3
  <2>8. Sound'
    BY <2>1, <2>5, <2>6, <2>7 DEF Sound, Allowlist
  <2>9. KeysFirst'
    <3>1. \A p \in Paths :
            /\ Sensitive(p) => tree[p] \in {Placeholder, Plain("absent")}
            /\ Buried(p) => tree[p] = Plain("absent")
      BY <1>2, <1>3 DEF KeysFirst
    <3>2. \A p \in Paths : Sensitive(p) \/ Buried(p) => p \notin hits
      BY <3>1 DEF Placeholder, Plain
    <3>3. at' # 0
      BY <1>3, <2>1
    <3>4. QED
      BY <2>3, <3>1, <3>2, <3>3 DEF KeysFirst
  <2>10. at' <= Depth(level') + 1
    BY <1>2, <1>3, <2>1
  <2>11. QED
    BY <1>2, <2>1, <2>4, <2>8, <2>9, <2>10 DEF RedactInv, RefusedWithCause
<1>6. QED
  BY <1>4, <1>5

LEMMA EnforceStep == RedactInv /\ Enforce => RedactInv'
<1> SUFFICES ASSUME RedactInv, Enforce PROVE RedactInv'
  OBVIOUS
<1>1. stage = "walking" /\ at > Depth(level) /\ Sound /\ KeysFirst
  BY DEF RedactInv, Enforce
<1>2. CASE \E p \in Allowlist : Missing(tree[p])
  <2>1. Refuse
    BY <1>2 DEF Enforce
  <2>2. PICK p \in Allowlist : Missing(tree[p])
    BY <1>2
  <2>3. Missing(Clone(event)[p]) \/ Buried(p)
    BY <1>1, <2>2 DEF Sound
  <2>4. QED
    BY <2>1, <2>3, RefuseStep
<1>3. CASE ~ \E p \in Allowlist : Missing(tree[p])
  <2>1. stage' = "emitted" /\ UNCHANGED <<event, level, given, tree, listed, at>>
    BY <1>3 DEF Enforce, args
  <2>2. RedactTypeOK'
    BY <2>1 DEF RedactInv, RedactTypeOK, Stages
  <2>3. Sound' /\ KeysFirst'
    BY <1>1, <2>1 DEF Sound, KeysFirst, Allowlist
  <2>4. at' > Depth(level') /\ \A p \in Allowlist' : ~Missing(tree'[p])
    BY <1>1, <1>3, <2>1 DEF Allowlist
  <2>5. QED
    BY <2>1, <2>2, <2>3, <2>4 DEF RedactInv, RefusedWithCause
<1>4. QED
  BY <1>2, <1>3

\* The invariant holds in every reachable state.
THEOREM Redacting == Spec => []RedactInv
<1>1. RedactInv /\ UNCHANGED vars => RedactInv'
  BY DEF RedactInv, RedactTypeOK, Sound, KeysFirst, RefusedWithCause, Allowlist, vars, args
<1>2. RedactInv /\ [Next]_vars => RedactInv'
  BY <1>1, ConfigureStep, BeginStep, KeyStep, PatternStep, EnforceStep DEF Next
<1>3. QED
  BY <1>2, InitInv, PTL DEF Spec

-----------------------------------------------------------------------------
(* What it gives.                                                          *)

\* The types of the redactor's state, for any events and options.
THEOREM RedactTypeCorrect == Spec => []RedactTypeOK
<1>1. RedactInv => RedactTypeOK
  BY DEF RedactInv
<1>2. QED
  BY <1>1, Redacting, PTL

\* An event that is emitted has every protected field, as it came in.
THEOREM ProtectedFieldsSurvive == Spec => []ProtectedSurvives
<1>1. RedactInv => ProtectedSurvives
  <2> SUFFICES ASSUME RedactInv, stage = "emitted", NEW p \in Allowlist
               PROVE  ~Missing(tree[p]) /\ tree[p] = event[p]
    BY DEF ProtectedSurvives
  <2>1. ~Missing(tree[p])
    BY DEF RedactInv
  <2>2. tree[p] = Clone(event)[p]
    <3>1. tree[p] = Clone(event)[p] \/ tree[p] = Plain("absent")
      BY DEF RedactInv, Sound
    <3>2. Missing(Plain("absent"))
      BY DEF Missing, Plain
    <3>3. QED
      BY <2>1, <3>1, <3>2
  <2>3. event \in Event /\ p \in Paths
    BY AllowlistType DEF RedactInv, RedactTypeOK
  <2>4. QED
    BY <2>1, <2>2, <2>3, CloneIsEvent
<1>2. QED
  BY <1>1, Redacting, PTL

\* Nothing that the level masks is left in an event that is emitted.
THEOREM NothingIsLeft == Spec => []NothingLeaks
<1>1. RedactInv => NothingLeaks
  <2> SUFFICES ASSUME RedactInv, stage = "emitted", NEW p \in Paths
               PROVE  /\ \A n \in 1..Depth(level) : Patterns[n] \notin tree[p].shows
                      /\ Sensitive(p) => tree[p] \in {Placeholder, Plain("absent")}
                      /\ Buried(p) => tree[p].is = "absent"
    BY DEF NothingLeaks
  <2>1. Depth(level) \in 1..5 /\ at \in 0..6 /\ at > Depth(level) /\ Sound /\ KeysFirst
    BY Constants DEF RedactInv, RedactTypeOK
  <2>2. \A n \in 1..Depth(level) : n \in 1..5 /\ n < at
    BY <2>1
  <2>3. \A n \in 1..Depth(level) : Patterns[n] \notin tree[p].shows
    BY <2>1, <2>2 DEF Sound
  <2>4. at > 0
    BY <2>1
  <2>5. /\ Sensitive(p) => tree[p] \in {Placeholder, Plain("absent")}
        /\ Buried(p) => tree[p] = Plain("absent")
    BY <2>1, <2>4 DEF KeysFirst
  <2>6. QED
    BY <2>3, <2>5 DEF Plain
<1>2. QED
  BY <1>1, Redacting, PTL

\* The list names what was masked, and accounts for every difference.
THEOREM EvidenceExact == Spec => []EvidenceIsExact
<1>1. RedactInv => EvidenceIsExact
  BY DEF RedactInv, Sound, EvidenceIsExact
<1>2. QED
  BY <1>1, Redacting, PTL

\* No event is refused without a cause in a field that is protected.
THEOREM RefusalsHaveCause == Spec => []RefusedWithCause
<1>1. RedactInv => RefusedWithCause
  BY DEF RedactInv
<1>2. QED
  BY <1>1, Redacting, PTL
=============================================================================
