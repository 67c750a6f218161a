---------------------------- MODULE CanonicalProofs ----------------------------
(***************************************************************************)
(* Theorems about Canonical, for values of any depth and any size: no two  *)
(* JSON values share a canonical text, and what is stored keeps the hash   *)
(* of what was signed.                                                     *)
(*                                                                         *)
(* Texts are parsed from the left: of pieces that are told from whatever   *)
(* follows them (Separable), a sequence is told as well, with commas and   *)
(* between brackets.  So a level of values is told by its texts if the     *)
(* level below is, and the levels are counted up from 0.                   *)
(***************************************************************************)
EXTENDS AuditReads, FiniteSetTheorems, SequenceTheorems, Induction

-----------------------------------------------------------------------------
(* The recursion over the levels of a value.                               *)

LevelOf(inner) ==
  {v \in [t : {"null", "undefined", "boolean", "number", "bigint", "string",
               "function", "array", "object"},
          text : Seq(Chars \cup Numerals \cup {"true", "false"}),
          keys : Seq(Seq(Chars)),
          items : Seq(inner)] : WellFormed(v)}

\* The recursion of JsValues has a solution.
LEMMA JsValuesIs ==
  JsValues[0] = {} /\ \A d \in 1 .. MaxDepth : JsValues[d] = LevelOf(JsValues[d - 1])
<1> DEFINE Grows(f, N) == f[0] = {} /\ \A n \in 1 .. N : f[n] = LevelOf(f[n - 1])
           T == {k \in 0 .. MaxDepth : \E f : Grows(f, k)}
<1>1. MaxDepth \in Nat
  BY CanonicalAssumption
<1>2. 0 \in T
  <2>1. Grows([n \in {0} |-> {}], 0)
    OBVIOUS
  <2> HIDE DEF Grows
  <2>2. QED
    BY <1>1, <2>1
<1>3. ASSUME NEW k \in 0 .. MaxDepth - 1, k \in T
      PROVE  k + 1 \in T
  <2>1. PICK f : Grows(f, k)
    BY <1>3
  <2> DEFINE next == LevelOf(f[k])
             g == [n \in 0 .. k + 1 |-> IF n = k + 1 THEN next ELSE f[n]]
  <2>2. g[k + 1] = next /\ \A n \in 0 .. k : g[n] = f[n]
    <3> HIDE DEF next
    <3>1. QED
      BY <1>1
  <2> HIDE DEF g
  <2>3. \A n \in 1 .. k : n \in 0 .. k /\ n - 1 \in 0 .. k
    BY <1>1
  <2>4. k \in 0 .. k /\ 0 \in 0 .. k /\ (k + 1) - 1 = k /\ \A n \in 1 .. k + 1 : n = k + 1 \/ n \in 1 .. k
    BY <1>1
  <2>5. Grows(g, k + 1)
    BY <2>1, <2>2, <2>3, <2>4
  <2> HIDE DEF Grows
  <2>6. k + 1 \in 0 .. MaxDepth
    BY <1>1
  <2>7. QED
    BY <2>5, <2>6
<1>4. MaxDepth \in T
  <2> HIDE DEF T
  <2>1. QED
    BY <1>1, <1>2, <1>3, CountUp
<1>5. PICK f : Grows(f, MaxDepth)
  BY <1>4
<1> DEFINE g == [d \in 0 .. MaxDepth |-> f[d]]
<1>6. \A n \in 0 .. MaxDepth : n # 0 => n \in 1 .. MaxDepth /\ n - 1 \in 0 .. MaxDepth
  BY <1>1
<1>7. g = [d \in 0 .. MaxDepth |-> IF d = 0 THEN {} ELSE LevelOf(g[d - 1])]
  BY <1>5, <1>6
<1> HIDE DEF g
<1> DEFINE js == CHOOSE h : h = [d \in 0 .. MaxDepth |->
    IF d = 0 THEN {}
    ELSE {v \in [t : {"null", "undefined", "boolean", "number", "bigint", "string",
                      "function", "array", "object"},
                 text : Seq(Chars \cup Numerals \cup {"true", "false"}),
                 keys : Seq(Seq(Chars)),
                 items : Seq(h[d - 1])] : WellFormed(v)}]
<1>8. js = [d \in 0 .. MaxDepth |->
    IF d = 0 THEN {}
    ELSE {v \in [t : {"null", "undefined", "boolean", "number", "bigint", "string",
                      "function", "array", "object"},
                 text : Seq(Chars \cup Numerals \cup {"true", "false"}),
                 keys : Seq(Seq(Chars)),
                 items : Seq(js[d - 1])] : WellFormed(v)}]
  BY <1>7 DEF LevelOf
<1>9. JsValues = js
  BY DEF JsValues
<1> HIDE DEF js
<1>10. js = [d \in 0 .. MaxDepth |-> IF d = 0 THEN {} ELSE LevelOf(js[d - 1])]
  BY <1>8 DEF LevelOf
<1>11. 0 \in 0 .. MaxDepth /\ \A d \in 1 .. MaxDepth : d \in 0 .. MaxDepth /\ d # 0
  BY <1>1
<1>12. js[0] = {} /\ \A d \in 1 .. MaxDepth : js[d] = LevelOf(js[d - 1])
  BY <1>10, <1>11
<1>13. QED
  BY <1>9, <1>12

\* The results of an operator on a level, given those on the level below.
ThrowsOf(S, below) == [w \in S |-> ThrowsOn(w, [i \in DOMAIN w.items |-> below[w.items[i]]])]
TextsOf(S, below) == [w \in S |-> SerializeAs(w, [i \in DOMAIN w.items |-> below[w.items[i]]])]
ClonablesOf(S, below) == [w \in S |-> ClonableIf(w, [i \in DOMAIN w.items |-> below[w.items[i]]])]
ClonesOf(S, below) == [w \in S |-> CloneAs(w, [i \in DOMAIN w.items |-> below[w.items[i]]])]
JsonsOf(S, below) == [w \in S |-> JsonAs(w, [i \in DOMAIN w.items |-> below[w.items[i]]])]

\* The recursive functions of Canonical, with the results on all levels.
ThrownAt == CHOOSE f : f = [d \in 0 .. MaxDepth |->
  [w \in JsValues[d] |-> ThrowsOn(w, [i \in DOMAIN w.items |-> f[d - 1][w.items[i]]])]]
TextAt == CHOOSE f : f = [d \in 0 .. MaxDepth |->
  [w \in JsValues[d] |-> SerializeAs(w, [i \in DOMAIN w.items |-> f[d - 1][w.items[i]]])]]
ClonableAt == CHOOSE f : f = [d \in 0 .. MaxDepth |->
  [w \in JsValues[d] |-> ClonableIf(w, [i \in DOMAIN w.items |-> f[d - 1][w.items[i]]])]]
CloneAt == CHOOSE f : f = [d \in 0 .. MaxDepth |->
  [w \in JsValues[d] |-> CloneAs(w, [i \in DOMAIN w.items |-> f[d - 1][w.items[i]]])]]
JsonAt == CHOOSE f : f = [d \in 0 .. MaxDepth |->
  [w \in JsValues[d] |-> JsonAs(w, [i \in DOMAIN w.items |-> f[d - 1][w.items[i]]])]]

\* What Canonical computes of a value is what the functions have on the top level.
LEMMA OnTop ==
  ASSUME NEW v
  PROVE  /\ Throws(v) = ThrownAt[MaxDepth][v]
         /\ Serialize(v) = TextAt[MaxDepth][v]
         /\ Clonable(v) = ClonableAt[MaxDepth][v]
         /\ Clone(v) = CloneAt[MaxDepth][v]
         /\ JsonValue(v) = JsonAt[MaxDepth][v]
BY DEF Throws, Serialize, Clonable, Clone, JsonValue, ThrownAt, TextAt, ClonableAt, CloneAt, JsonAt

\* The five recursions have solutions, all at once.
LEMMA LevelsExist ==
  \E f : \A d \in 0 .. MaxDepth :
    /\ f[d].throws = ThrowsOf(JsValues[d], f[d - 1].throws)
    /\ f[d].text = TextsOf(JsValues[d], f[d - 1].text)
    /\ f[d].clonable = ClonablesOf(JsValues[d], f[d - 1].clonable)
    /\ f[d].clone = ClonesOf(JsValues[d], f[d - 1].clone)
    /\ f[d].json = JsonsOf(JsValues[d], f[d - 1].json)
<1> DEFINE Step(S, p) == [throws |-> ThrowsOf(S, p.throws), text |-> TextsOf(S, p.text),
                          clonable |-> ClonablesOf(S, p.clonable),
                          clone |-> ClonesOf(S, p.clone), json |-> JsonsOf(S, p.json)]
           Runs(f, k) == \A d \in 0 .. k : f[d] = Step(JsValues[d], f[d - 1])
           T == {k \in 0 .. MaxDepth : \E f : Runs(f, k)}
<1>1. MaxDepth \in Nat
  BY CanonicalAssumption
<1>6. \A S, p : /\ Step(S, p).throws = ThrowsOf(S, p.throws)
               /\ Step(S, p).text = TextsOf(S, p.text)
               /\ Step(S, p).clonable = ClonablesOf(S, p.clonable)
               /\ Step(S, p).clone = ClonesOf(S, p.clone)
               /\ Step(S, p).json = JsonsOf(S, p.json)
  OBVIOUS
<1> HIDE DEF Step
<1>2. 0 \in T
  <2> DEFINE f == [n \in {-1, 0} |-> IF n = 0 THEN Step(JsValues[0], 0) ELSE 0]
  <2>1. f[0] = Step(JsValues[0], 0) /\ f[0 - 1] = 0
    OBVIOUS
  <2> HIDE DEF f
  <2>2. Runs(f, 0)
    BY <2>1
  <2> HIDE DEF Runs
  <2>3. QED
    BY <1>1, <2>2
<1>3. ASSUME NEW k \in 0 .. MaxDepth - 1, k \in T
      PROVE  k + 1 \in T
  <2>1. PICK f : Runs(f, k)
    BY <1>3
  <2> DEFINE next == Step(JsValues[k + 1], f[k])
             g == [n \in -1 .. k + 1 |-> IF n = k + 1 THEN next ELSE f[n]]
  <2>2. g[k + 1] = next /\ \A n \in -1 .. k : g[n] = f[n]
    <3> HIDE DEF next
    <3>1. QED
      BY <1>1
  <2> HIDE DEF g
  <2>3. \A n \in 0 .. k : n \in -1 .. k /\ n - 1 \in -1 .. k
    BY <1>1
  <2>4. k \in -1 .. k /\ (k + 1) - 1 = k /\ \A n \in 0 .. k + 1 : n = k + 1 \/ n \in 0 .. k
    BY <1>1
  <2>5. Runs(g, k + 1)
    BY <2>1, <2>2, <2>3, <2>4
  <2> HIDE DEF Runs
  <2>6. k + 1 \in 0 .. MaxDepth
    BY <1>1
  <2>7. QED
    BY <2>5, <2>6
<1>4. MaxDepth \in T
  <2> HIDE DEF T
  <2>1. QED
    BY <1>1, <1>2, <1>3, CountUp
<1>5. PICK f : \A d \in 0 .. MaxDepth : f[d] = Step(JsValues[d], f[d - 1])
  BY <1>4
<1>7. QED
  BY <1>5, <1>6

\* Each of them computes a level from the level below.
LEMMA LevelsAre ==
  ASSUME NEW d \in 1 .. MaxDepth
  PROVE  /\ ThrownAt[d] = ThrowsOf(JsValues[d], ThrownAt[d - 1])
         /\ TextAt[d] = TextsOf(JsValues[d], TextAt[d - 1])
         /\ ClonableAt[d] = ClonablesOf(JsValues[d], ClonableAt[d - 1])
         /\ CloneAt[d] = ClonesOf(JsValues[d], CloneAt[d - 1])
         /\ JsonAt[d] = JsonsOf(JsValues[d], JsonAt[d - 1])
<1>1. /\ MaxDepth \in Nat /\ JsValues[0] = {} /\ d \in 0 .. MaxDepth
      /\ \A n \in 0 .. MaxDepth : n # 0 => n \in 1 .. MaxDepth /\ n - 1 \in 0 .. MaxDepth
  BY CanonicalAssumption, JsValuesIs
<1>2. PICK f : \A n \in 0 .. MaxDepth :
        /\ f[n].throws = ThrowsOf(JsValues[n], f[n - 1].throws)
        /\ f[n].text = TextsOf(JsValues[n], f[n - 1].text)
        /\ f[n].clonable = ClonablesOf(JsValues[n], f[n - 1].clonable)
        /\ f[n].clone = ClonesOf(JsValues[n], f[n - 1].clone)
        /\ f[n].json = JsonsOf(JsValues[n], f[n - 1].json)
  BY LevelsExist
<1>3. ThrownAt[d] = ThrowsOf(JsValues[d], ThrownAt[d - 1])
  <2> DEFINE g == [n \in 0 .. MaxDepth |-> f[n].throws]
  <2>1. \A n \in 0 .. MaxDepth : f[n].throws = ThrowsOf(JsValues[n], f[n - 1].throws)
    BY <1>2
  <2>2. \A x, y : ThrowsOf(JsValues[0], x) = ThrowsOf(JsValues[0], y)
    BY <1>1 DEF ThrowsOf
  <2>3. g = [n \in 0 .. MaxDepth |-> ThrowsOf(JsValues[n], g[n - 1])]
    BY <1>1, <2>1, <2>2
  <2> HIDE DEF g
  <2>4. ThrownAt = [n \in 0 .. MaxDepth |-> ThrowsOf(JsValues[n], ThrownAt[n - 1])]
    BY <2>3 DEF ThrownAt, ThrowsOf
  <2>5. QED
    BY <1>1, <2>4
<1>4. TextAt[d] = TextsOf(JsValues[d], TextAt[d - 1])
  <2> DEFINE g == [n \in 0 .. MaxDepth |-> f[n].text]
  <2>1. \A n \in 0 .. MaxDepth : f[n].text = TextsOf(JsValues[n], f[n - 1].text)
    BY <1>2
  <2>2. \A x, y : TextsOf(JsValues[0], x) = TextsOf(JsValues[0], y)
    BY <1>1 DEF TextsOf
  <2>3. g = [n \in 0 .. MaxDepth |-> TextsOf(JsValues[n], g[n - 1])]
    BY <1>1, <2>1, <2>2
  <2> HIDE DEF g
  <2>4. TextAt = [n \in 0 .. MaxDepth |-> TextsOf(JsValues[n], TextAt[n - 1])]
    BY <2>3 DEF TextAt, TextsOf
  <2>5. QED
    BY <1>1, <2>4
<1>5. ClonableAt[d] = ClonablesOf(JsValues[d], ClonableAt[d - 1])
  <2> DEFINE g == [n \in 0 .. MaxDepth |-> f[n].clonable]
  <2>1. \A n \in 0 .. MaxDepth : f[n].clonable = ClonablesOf(JsValues[n], f[n - 1].clonable)
    BY <1>2
  <2>2. \A x, y : ClonablesOf(JsValues[0], x) = ClonablesOf(JsValues[0], y)
    BY <1>1 DEF ClonablesOf
  <2>3. g = [n \in 0 .. MaxDepth |-> ClonablesOf(JsValues[n], g[n - 1])]
    BY <1>1, <2>1, <2>2
  <2> HIDE DEF g
  <2>4. ClonableAt = [n \in 0 .. MaxDepth |-> ClonablesOf(JsValues[n], ClonableAt[n - 1])]
    BY <2>3 DEF ClonableAt, ClonablesOf
  <2>5. QED
    BY <1>1, <2>4
<1>6. CloneAt[d] = ClonesOf(JsValues[d], CloneAt[d - 1])
  <2> DEFINE g == [n \in 0 .. MaxDepth |-> f[n].clone]
  <2>1. \A n \in 0 .. MaxDepth : f[n].clone = ClonesOf(JsValues[n], f[n - 1].clone)
    BY <1>2
  <2>2. \A x, y : ClonesOf(JsValues[0], x) = ClonesOf(JsValues[0], y)
    BY <1>1 DEF ClonesOf
  <2>3. g = [n \in 0 .. MaxDepth |-> ClonesOf(JsValues[n], g[n - 1])]
    BY <1>1, <2>1, <2>2
  <2> HIDE DEF g
  <2>4. CloneAt = [n \in 0 .. MaxDepth |-> ClonesOf(JsValues[n], CloneAt[n - 1])]
    BY <2>3 DEF CloneAt, ClonesOf
  <2>5. QED
    BY <1>1, <2>4
<1>7. JsonAt[d] = JsonsOf(JsValues[d], JsonAt[d - 1])
  <2> DEFINE g == [n \in 0 .. MaxDepth |-> f[n].json]
  <2>1. \A n \in 0 .. MaxDepth : f[n].json = JsonsOf(JsValues[n], f[n - 1].json)
    BY <1>2
  <2>2. \A x, y : JsonsOf(JsValues[0], x) = JsonsOf(JsValues[0], y)
    BY <1>1 DEF JsonsOf
  <2>3. g = [n \in 0 .. MaxDepth |-> JsonsOf(JsValues[n], g[n - 1])]
    BY <1>1, <2>1, <2>2
  <2> HIDE DEF g
  <2>4. JsonAt = [n \in 0 .. MaxDepth |-> JsonsOf(JsValues[n], JsonAt[n - 1])]
    BY <2>3 DEF JsonAt, JsonsOf
  <2>5. QED
    BY <1>1, <2>4
<1>8. QED
  BY <1>3, <1>4, <1>5, <1>6, <1>7

-----------------------------------------------------------------------------
(* Texts, as sequences of letters.                                         *)

Letters == Chars \cup Numerals
             \cup {"true", "false", "null", "[", "]", OpenBrace, CloseBrace,
                   ":", "u", "0", "1", "f"}
Text == Seq(Letters)

LEMMA Alphabet == /\ Chars \subseteq Letters /\ Numerals \subseteq Letters
                  /\ {"true", "false", "null", "[", "]", OpenBrace, CloseBrace, ":", Comma, Quote,
                      "u", "0", "1", "f"} \subseteq Letters
BY DEF Letters, Chars

\* Zenon tells the letters apart; to the SMT solver the marks are constants.
LEMMA MarksDiffer ==
  /\ Quote \notin {"\\", "LF", "US", "n", "u", Comma, OpenBrace, CloseBrace, "[", "]", ":"}
  /\ Comma \notin {"\\", "LF", "US", "n", "u", OpenBrace, CloseBrace, "[", "]", ":"}
  /\ OpenBrace \notin {CloseBrace, "[", "]", ":"} /\ CloseBrace \notin {"[", "]", ":"}
  /\ {Quote, Comma, OpenBrace, CloseBrace}
       \cap {"null", "true", "false", "0", "-0", "1", "NaN", "Infinity"} = {}
BY Zenon DEF Quote, Comma, OpenBrace, CloseBrace

\* What is needed of concatenation, for texts.
LEMMA Joining ==
  ASSUME NEW a \in Text, NEW b \in Text
  PROVE  /\ a \o b \in Text /\ a \o << >> = a /\ << >> \o a = a
<1>1. a \in Seq(Letters) /\ b \in Seq(Letters) /\ Text = Seq(Letters)
  BY DEF Text
<1> HIDE DEF Text
<1>2. a \o b \in Text /\ a \o << >> = a /\ << >> \o a = a
  BY <1>1, ConcatProperties, ConcatEmptySeq
<1>3. QED
  BY <1>2

LEMMA Associative ==
  ASSUME NEW a \in Text, NEW b \in Text, NEW x \in Text
  PROVE  (a \o b) \o x = a \o (b \o x)
BY ConcatAssociative DEF Text

LEMMA Cancel ==
  ASSUME NEW a \in Text, NEW x \in Text, NEW y \in Text, a \o x = a \o y
  PROVE  x = y
<1>1. Len(a) \in Nat /\ Len(x) \in Nat /\ Len(y) \in Nat
  BY DEF Text
<1>2. /\ Len(a \o x) = Len(a) + Len(x) /\ Len(a \o y) = Len(a) + Len(y)
      /\ \A i \in 1 .. Len(a) + Len(x) : (a \o x)[i] = IF i <= Len(a) THEN a[i] ELSE x[i - Len(a)]
      /\ \A i \in 1 .. Len(a) + Len(y) : (a \o y)[i] = IF i <= Len(a) THEN a[i] ELSE y[i - Len(a)]
  BY ConcatProperties DEF Text
<1>3. Len(x) = Len(y)
  BY <1>1, <1>2
<1>4. ASSUME NEW i \in 1 .. Len(x)
      PROVE  x[i] = y[i]
  <2>1. /\ Len(a) + i \in 1 .. Len(a) + Len(x) /\ ~(Len(a) + i <= Len(a))
        /\ (Len(a) + i) - Len(a) = i
    BY <1>1
  <2>2. QED
    BY <1>2, <1>3, <2>1
<1>5. QED
  BY <1>3, <1>4, SeqEqual DEF Text

LEMMA FirstLetters ==
  ASSUME NEW a \in Text, NEW b \in Text, a # << >>
  PROVE  /\ a[1] \in Letters /\ a \o b # << >> /\ (a \o b)[1] = a[1]
<1>1. Len(a) \in Nat /\ Len(a) > 0 /\ Len(b) \in Nat
  BY DEF Text
<1>2. a[1] \in Letters
  BY <1>1 DEF Text
<1>3. Len(a \o b) = Len(a) + Len(b) /\ (a \o b)[1] = a[1]
  BY <1>1, ConcatProperties DEF Text
<1>4. QED
  BY <1>1, <1>2, <1>3

LEMMA OneLetter ==
  ASSUME NEW c \in Letters, NEW d \in Letters, NEW x \in Text, NEW y \in Text
  PROVE  /\ <<c>> \in Text /\ <<c>> # << >> /\ <<c>>[1] = c
         /\ <<c>> \o x = <<d>> \o y => c = d /\ x = y
<1>1. <<c>> \in Text /\ <<d>> \in Text /\ <<c>> # << >> /\ <<d>> # << >> /\ <<c>>[1] = c /\ <<d>>[1] = d
  BY DEF Text
<1>2. ASSUME <<c>> \o x = <<d>> \o y
      PROVE  c = d /\ x = y
  <2>1. c = d
    BY <1>1, <1>2, FirstLetters
  <2>2. x = y
    <3> DEFINE a == <<c>>
    <3>1. a \in Text /\ a \o x = a \o y
      BY <1>1, <1>2, <2>1
    <3> HIDE DEF a
    <3>2. QED
      BY <3>1, Cancel
  <2>3. QED
    BY <2>1, <2>2
<1>3. QED
  BY <1>1, <1>2

\* The left-to-right concatenation.
LEMMA FlattenIs ==
  ASSUME NEW ts \in Seq(Text)
  PROVE  \E f \in [0 .. Len(ts) -> Text] :
           /\ f[0] = << >> /\ \A n \in 1 .. Len(ts) : f[n] = f[n - 1] \o ts[n]
           /\ Flatten(ts) = f[Len(ts)]
<1> DEFINE N == Len(ts)
           upTo == CHOOSE f : f = [n \in 0 .. Len(ts) |-> IF n = 0 THEN << >> ELSE f[n - 1] \o ts[n]]
           step == [p \in (1 .. N) \X Text |-> p[2] \o ts[p[1]]]
<1>1. N \in Nat /\ \A n \in 1 .. N : ts[n] \in Text
  OBVIOUS
<1>2. Flatten(ts) = upTo[N]
  BY DEF Flatten
<1>3. step \in [(1 .. N) \X Text -> Text]
  BY <1>1, Joining
<1>4. \A n \in 1 .. N, x \in Text : step[<<n, x>>] = x \o ts[n]
  OBVIOUS
<1>5. << >> \in Text
  BY DEF Text
<1> HIDE DEF step
<1>6. PICK f \in [0 .. N -> Text] : StepsBy(f, N, << >>, step)
  BY <1>1, <1>3, <1>5, RunExists
<1>7. \A n \in 0 .. N : n # 0 => n \in 1 .. N /\ n - 1 \in 0 .. N
  BY <1>1
<1>8. f = [n \in 0 .. N |-> IF n = 0 THEN << >> ELSE f[n - 1] \o ts[n]]
  BY <1>4, <1>6, <1>7 DEF StepsBy
<1>9. upTo = [n \in 0 .. N |-> IF n = 0 THEN << >> ELSE upTo[n - 1] \o ts[n]]
  BY <1>8
<1> HIDE DEF upTo
<1>10. 0 \in 0 .. N /\ \A n \in 1 .. N : n \in 0 .. N /\ n # 0 /\ n - 1 \in 0 .. N
  BY <1>1
<1>11. upTo[0] = << >> /\ \A n \in 1 .. N : upTo[n] = upTo[n - 1] \o ts[n]
  BY <1>9, <1>10
<1>12. StepsBy(upTo, N, << >>, step)
  <2> DEFINE T == {n \in 0 .. N : upTo[n] \in Text}
  <2>1. 0 \in T
    BY <1>5, <1>10, <1>11
  <2>2. ASSUME NEW n \in 0 .. N - 1, n \in T
        PROVE  n + 1 \in T
    <3>1. n + 1 \in 1 .. N /\ (n + 1) - 1 = n /\ n + 1 \in 0 .. N
      BY <1>1
    <3>2. upTo[n + 1] = upTo[n] \o ts[n + 1]
      BY <1>11, <3>1
    <3>3. upTo[n] \in Text /\ ts[n + 1] \in Text
      BY <1>1, <2>2, <3>1
    <3>4. upTo[n + 1] \in Text
      BY <3>2, <3>3, Joining
    <3>5. QED
      BY <3>1, <3>4
  <2>3. \A n \in 0 .. N : n \in T
    <3> HIDE DEF T, N
    <3>1. QED
      BY <1>1, <2>1, <2>2, CountUp
  <2>4. QED
    BY <1>4, <1>10, <1>11, <2>3 DEF StepsBy
<1>13. \A n \in 0 .. N : upTo[n] \in Text
  <2> HIDE DEF N
  <2>1. QED
    BY <1>1, <1>3, <1>5, <1>12, RunTyped
<1>14. upTo \in [0 .. N -> Text]
  BY <1>9, <1>13
<1>15. QED
  BY <1>2, <1>11, <1>14

\* Whatever comes after two corresponding pieces, it can be told where they end.
Delimited(ts, us) ==
  \A i \in 1 .. Len(ts) : i <= Len(us) =>
    \A x, y \in Text : ts[i] \o x = us[i] \o y => ts[i] = us[i] /\ x = y

StartsUnlike(ts, c) == \A i \in 1 .. Len(ts) : ts[i] # << >> /\ ts[i][1] # c

\* f[n] is the concatenation of the first n.
Adds(f, ts) ==
  /\ f \in [0 .. Len(ts) -> Text] /\ f[0] = << >>
  /\ \A n \in 1 .. Len(ts) : f[n] = f[n - 1] \o ts[n]

\* The first k pieces are how the whole begins, and something follows.
LEMMA Remainder ==
  ASSUME NEW ts \in Seq(Text), NEW f, Adds(f, ts), NEW k \in 0 .. Len(ts)
  PROVE  \E s \in Text : f[Len(ts)] = f[k] \o s
<1> DEFINE N == Len(ts)
           T == {j \in 0 .. N : \E s \in Text : f[N] = f[N - j] \o s}
<1>1. N \in Nat /\ (\A n \in 1 .. N : ts[n] \in Text) /\ << >> \in Text
  BY DEF Text
<1>2. \A n \in 0 .. N : f[n] \in Text
  BY DEF Adds
<1>3. 0 \in T
  <2>1. f[N] = f[N] \o << >> /\ N - 0 = N /\ 0 \in 0 .. N /\ N \in 0 .. N
    BY <1>1, <1>2, Joining
  <2> HIDE DEF N
  <2>2. QED
    BY <1>1, <2>1
<1>4. ASSUME NEW j \in 0 .. N - 1, j \in T
      PROVE  j + 1 \in T
  <2>1. PICK s \in Text : f[N] = f[N - j] \o s
    BY <1>4
  <2>2. N - j \in 1 .. N /\ (N - j) - 1 = N - (j + 1) /\ N - (j + 1) \in 0 .. N /\ j + 1 \in 0 .. N
    BY <1>1
  <2> DEFINE a == f[N - (j + 1)]
             b == ts[N - j]
  <2>3. a \in Text /\ b \in Text /\ f[N - j] = a \o b
    BY <1>1, <1>2, <2>2 DEF Adds
  <2>4. b \o s \in Text /\ (a \o b) \o s = a \o (b \o s)
    <3> HIDE DEF a, b
    <3>1. a \in Text /\ b \in Text
      BY <2>3
    <3>2. b \o s \in Text
      BY <3>1, Joining
    <3>3. (a \o b) \o s = a \o (b \o s)
      BY <3>1, Associative
    <3>4. QED
      BY <3>2, <3>3
  <2>5. f[N] = a \o (b \o s)
    BY <2>1, <2>3, <2>4
  <2> HIDE DEF N
  <2>6. QED
    BY <2>2, <2>4, <2>5
<1>5. \A j \in 0 .. N : j \in T
  <2> HIDE DEF T, N
  <2>1. QED
    BY <1>1, <1>3, <1>4, CountUp
<1>6. N - k \in 0 .. N /\ N - (N - k) = k
  BY <1>1
<1>7. QED
  BY <1>5, <1>6

\* The text with x at its end goes on with piece k + 1 after the first k.
GoesOn(f, ts, k, x) ==
  \E s \in Text : f[Len(ts)] \o x = f[k] \o (ts[k + 1] \o s)

\* After the first k pieces comes piece k + 1.
LEMMA FromPiece ==
  ASSUME NEW ts \in Seq(Text), NEW f, Adds(f, ts), NEW k \in 0 .. Len(ts) - 1, NEW x \in Text
  PROVE  GoesOn(f, ts, k, x)
<1> DEFINE a == f[k]
           b == ts[k + 1]
<1>1. k + 1 \in 1 .. Len(ts) /\ k + 1 \in 0 .. Len(ts) /\ k \in 0 .. Len(ts) /\ (k + 1) - 1 = k
  OBVIOUS
<1>2. PICK s \in Text : f[Len(ts)] = f[k + 1] \o s
  BY <1>1, Remainder
<1>3. a \in Text /\ b \in Text /\ f[k + 1] = a \o b
  BY <1>1 DEF Adds
<1>4. f[Len(ts)] \o x = ((a \o b) \o s) \o x
  BY <1>2, <1>3
<1> HIDE DEF a, b
<1>5. a \o b \in Text /\ s \o x \in Text
  BY <1>3, Joining
<1>6. ((a \o b) \o s) \o x = (a \o b) \o (s \o x)
  BY <1>5, Associative
<1>7. (a \o b) \o (s \o x) = a \o (b \o (s \o x))
  BY <1>3, <1>5, Associative
<1>8. QED
  BY <1>4, <1>5, <1>6, <1>7 DEF a, b, GoesOn

\* The texts of ts and us, with x and y at their ends, are the same.
Meet(f, ts, x, g, us, y) == f[Len(ts)] \o x = g[Len(us)] \o y

\* Where two texts meet, they have the same pieces as far as both go.
LEMMA SamePieces ==
  ASSUME NEW ts \in Seq(Text), NEW us \in Seq(Text), NEW f, NEW g, Adds(f, ts), Adds(g, us),
         Delimited(ts, us), NEW x \in Text, NEW y \in Text,
         Meet(f, ts, x, g, us, y),
         NEW M \in Nat, M <= Len(ts), M <= Len(us)
  PROVE  f[M] = g[M] /\ \A i \in 1 .. M : ts[i] = us[i]
<1> DEFINE T == {k \in 0 .. M : f[k] = g[k] /\ \A i \in 1 .. k : ts[i] = us[i]}
<1>1. Len(ts) \in Nat /\ Len(us) \in Nat
  OBVIOUS
<1>2. 0 \in T
  BY DEF Adds
<1>3. ASSUME NEW k \in 0 .. M - 1, k \in T
      PROVE  k + 1 \in T
  <2> DEFINE a == f[k]
             b == ts[k + 1]
             c == us[k + 1]
  <2>1. /\ k \in 0 .. Len(ts) - 1 /\ k \in 0 .. Len(us) - 1 /\ k + 1 \in 1 .. Len(ts)
        /\ k + 1 \in 1 .. Len(us) /\ k + 1 <= Len(us) /\ (k + 1) - 1 = k /\ k + 1 \in 0 .. M
        /\ k \in 0 .. Len(ts) /\ \A i \in 1 .. k + 1 : i = k + 1 \/ i \in 1 .. k
    BY <1>1
  <2>2. PICK s \in Text : f[Len(ts)] \o x = f[k] \o (ts[k + 1] \o s)
    <3>1. k \in 0 .. Len(ts) - 1
      BY <2>1
    <3>2. GoesOn(f, ts, k, x)
      BY <3>1, FromPiece
    <3>3. QED
      BY <3>2 DEF GoesOn
  <2>3. PICK t \in Text : g[Len(us)] \o y = g[k] \o (us[k + 1] \o t)
    <3>1. k \in 0 .. Len(us) - 1
      BY <2>1
    <3>2. GoesOn(g, us, k, y)
      BY <3>1, FromPiece
    <3>3. QED
      BY <3>2 DEF GoesOn
  <2>4. f[k] = g[k] /\ \A i \in 1 .. k : ts[i] = us[i]
    BY <1>3
  <2>5. a \o (b \o s) = a \o (c \o t) /\ a \in Text /\ b \in Text /\ c \in Text
    <3>1. a \in Text /\ b \in Text /\ c \in Text
      BY <2>1 DEF Adds
    <3>2. QED
      BY <2>2, <2>3, <2>4, <3>1 DEF Meet
  <2>6. b \o s = c \o t
    <3> HIDE DEF a, b, c
    <3>1. b \o s \in Text /\ c \o t \in Text
      BY <2>5, Joining
    <3>2. QED
      BY <2>5, <3>1, Cancel
  <2>7. b = c
    BY <2>1, <2>6 DEF Delimited
  <2>8. f[k + 1] = g[k + 1]
    BY <2>1, <2>4, <2>7 DEF Adds
  <2>9. QED
    BY <2>1, <2>4, <2>7, <2>8
<1>4. \A k \in 0 .. M : k \in T
  <2> HIDE DEF T
  <2>1. QED
    BY <1>2, <1>3, CountUp
<1>5. QED
  BY <1>4

\* There are not more pieces in us than in ts, if what comes after ts does not start
\* like one.
LEMMA NoMorePieces ==
  ASSUME NEW ts \in Seq(Text), NEW us \in Seq(Text), NEW f, NEW g, Adds(f, ts), Adds(g, us),
         Delimited(ts, us), NEW x \in Text, NEW y \in Text, StartsUnlike(us, x[1]),
         Meet(f, ts, x, g, us, y)
  PROVE  ~(Len(ts) < Len(us))
<1> SUFFICES ASSUME Len(ts) < Len(us)
             PROVE  FALSE
  OBVIOUS
<1> DEFINE m == Len(ts)
           a == f[m]
           b == us[m + 1]
<1>1. m \in Nat /\ m <= Len(us) /\ m \in 0 .. Len(us) - 1 /\ m + 1 \in 1 .. Len(us) /\ m <= m /\ m \in 0 .. m
  OBVIOUS
<1>2. f[m] = g[m]
  BY <1>1, SamePieces
<1>3. PICK s \in Text : g[Len(us)] \o y = g[m] \o (us[m + 1] \o s)
  <2> HIDE DEF m
  <2>1. GoesOn(g, us, m, y)
    BY <1>1, FromPiece
  <2>2. QED
    BY <2>1 DEF GoesOn
<1>4. a \in Text /\ b \in Text /\ b # << >> /\ b[1] # x[1]
  BY <1>1 DEF Adds, StartsUnlike
<1>5. a \o x = a \o (b \o s)
  BY <1>2, <1>3 DEF Meet
<1> HIDE DEF a, b
<1>6. b \o s \in Text /\ (b \o s)[1] = b[1]
  BY <1>4, Joining, FirstLetters
<1>7. x = b \o s
  BY <1>4, <1>5, <1>6, Cancel
<1>8. QED
  BY <1>4, <1>6, <1>7

Ended(ts, c, x) == Flatten(ts) \o (<<c>> \o x)

\* Two texts that are put together of pieces, ended by a letter that starts no piece.
LEMMA Parse ==
  ASSUME NEW ts \in Seq(Text), NEW us \in Seq(Text), Delimited(ts, us),
         NEW c \in Letters, StartsUnlike(ts, c), StartsUnlike(us, c),
         NEW x \in Text, NEW y \in Text,
         Ended(ts, c, x) = Ended(us, c, y)
  PROVE  ts = us /\ x = y
<1> DEFINE X == <<c>> \o x
           Y == <<c>> \o y
<1>1. PICK f : Adds(f, ts) /\ Flatten(ts) = f[Len(ts)]
  BY FlattenIs DEF Adds
<1>2. PICK g : Adds(g, us) /\ Flatten(us) = g[Len(us)]
  BY FlattenIs DEF Adds
<1>3. X \in Text /\ Y \in Text /\ X[1] = c /\ Y[1] = c
  <2>1. <<c>> \in Text /\ <<c>> # << >> /\ <<c>>[1] = c
    BY OneLetter
  <2>2. QED
    BY <2>1, Joining, FirstLetters
<1>4. Meet(f, ts, X, g, us, Y) /\ Meet(g, us, Y, f, ts, X)
  BY <1>1, <1>2 DEF Meet, Ended
<1>5. X = Y => x = y
  BY OneLetter
<1> HIDE DEF X, Y
<1>6. Delimited(us, ts)
  <2> SUFFICES ASSUME NEW i \in 1 .. Len(us), i <= Len(ts), NEW a \in Text, NEW b \in Text,
                      us[i] \o a = ts[i] \o b
               PROVE  us[i] = ts[i] /\ a = b
    BY DEF Delimited
  <2>1. i \in 1 .. Len(ts) /\ i <= Len(us)
    OBVIOUS
  <2>2. QED
    BY <2>1 DEF Delimited
<1>7. ~(Len(ts) < Len(us)) /\ ~(Len(us) < Len(ts))
  BY <1>1, <1>2, <1>3, <1>4, <1>6, NoMorePieces
<1>8. Len(ts) = Len(us) /\ Len(ts) \in Nat /\ Len(ts) <= Len(ts) /\ Len(ts) <= Len(us)
  BY <1>7
<1> DEFINE a == f[Len(ts)]
<1>9. f[Len(ts)] = g[Len(ts)] /\ \A i \in 1 .. Len(ts) : ts[i] = us[i]
  BY <1>1, <1>2, <1>3, <1>4, <1>8, SamePieces
<1>10. ts = us
  BY <1>8, <1>9, SeqEqual
<1>11. a \in Text /\ a \o X = a \o Y
  BY <1>1, <1>4, <1>8, <1>9 DEF Meet, Adds
<1> HIDE DEF a
<1>12. X = Y
  BY <1>3, <1>11, Cancel
<1>13. QED
  BY <1>5, <1>10, <1>12

\* Concatenation, for the provers a function symbol of which they know only what follows.
Cat(a, b) == a \o b
One(c) == <<c>>

LEMMA CatText == \A a, b \in Text : Cat(a, b) \in Text
BY Joining DEF Cat

LEMMA CatAssoc == \A a, b, x \in Text : Cat(Cat(a, b), x) = Cat(a, Cat(b, x))
<1> SUFFICES ASSUME NEW a \in Text, NEW b \in Text, NEW x \in Text
             PROVE  (a \o b) \o x = a \o (b \o x)
  BY DEF Cat
<1>1. QED
  BY Associative

LEMMA CatCancel == \A a, x, y \in Text : Cat(a, x) = Cat(a, y) => x = y
BY Cancel DEF Cat

LEMMA CatFirst == \A a, b \in Text : a # << >> => Cat(a, b) # << >> /\ Cat(a, b)[1] = a[1]
BY FirstLetters DEF Cat

LEMMA OneIs ==
  ASSUME NEW c \in Letters
  PROVE  One(c) = <<c>> /\ One(c) \in Text /\ One(c) # << >> /\ One(c)[1] = c
BY DEF One, Text

\* Parse in these terms.
Separable(ts, us) ==
  \A i \in 1 .. Len(ts) : i <= Len(us) =>
    \A x, y \in Text : Cat(ts[i], x) = Cat(us[i], y) => ts[i] = us[i] /\ x = y

CatEnded(ts, c, x) == Cat(Flatten(ts), Cat(One(c), x))

\* The same as Parse, in terms of Cat.
LEMMA Parsed ==
  ASSUME NEW ts \in Seq(Text), NEW us \in Seq(Text), Separable(ts, us),
         NEW c \in Letters, StartsUnlike(ts, c), StartsUnlike(us, c),
         NEW x \in Text, NEW y \in Text,
         CatEnded(ts, c, x) = CatEnded(us, c, y)
  PROVE  ts = us /\ x = y
<1>1. Delimited(ts, us)
  BY DEF Delimited, Separable, Cat
<1>2. Ended(ts, c, x) = Ended(us, c, y)
  BY DEF Cat, One, Ended, CatEnded
<1>3. QED
  BY <1>1, <1>2, Parse

-----------------------------------------------------------------------------
(* Strings.                                                                *)

Escaped == {Quote, "\\", "LF", "US"}

\* What follows the backslash of an escape.
Mark(c) == CASE c = "LF" -> "n" [] c = "US" -> "u" [] OTHER -> c

\* An escape is the character itself, or begins with a backslash and a mark.
LEMMA EscapeIs ==
  ASSUME NEW c \in Chars
  PROVE  /\ Escape(c) \in Text /\ Escape(c) # << >> /\ Escape(c)[1] # Quote
         /\ c \notin Escaped => Escape(c)[1] = c
         /\ c \in Escaped => Escape(c)[1] = "\\" /\ Escape(c)[2] = Mark(c) /\ Len(Escape(c)) >= 2
<1>1. CASE c \in {Quote, "\\"}
  <2>1. Escape(c) = <<"\\", c>> /\ Mark(c) = c
    BY <1>1, MarksDiffer DEF Escape, Mark
  <2>2. "\\" \in Letters /\ c \in Letters
    BY DEF Letters, Chars
  <2>3. <<"\\", c>> \in Seq(Letters) /\ <<"\\", c>> # << >>
    BY <2>2
  <2>4. <<"\\", c>>[1] = "\\" /\ <<"\\", c>>[2] = c /\ Len(<<"\\", c>>) = 2
    OBVIOUS
  <2>5. QED
    <3> DEFINE e == <<"\\", c>>
    <3>1. e \in Text /\ e # << >> /\ e[1] = "\\" /\ e[2] = Mark(c) /\ Len(e) >= 2 /\ Escape(c) = e
      BY <2>1, <2>3, <2>4 DEF Text
    <3> HIDE DEF e
    <3>2. QED
      BY <1>1, <3>1, MarksDiffer DEF Escaped
<1>2. CASE c = "LF"
  <2>1. Escape(c) = <<"\\", "n">> /\ Mark(c) = "n"
    BY <1>2 DEF Escape, Mark
  <2>2. "\\" \in Letters /\ "n" \in Letters
    BY DEF Letters, Chars
  <2>3. <<"\\", "n">> \in Seq(Letters) /\ <<"\\", "n">> # << >>
    BY <2>2
  <2>4. <<"\\", "n">>[1] = "\\" /\ <<"\\", "n">>[2] = "n" /\ Len(<<"\\", "n">>) = 2
    OBVIOUS
  <2>5. QED
    <3> DEFINE e == <<"\\", "n">>
    <3>1. e \in Text /\ e # << >> /\ e[1] = "\\" /\ e[2] = Mark(c) /\ Len(e) >= 2 /\ Escape(c) = e
      BY <2>1, <2>3, <2>4 DEF Text
    <3> HIDE DEF e
    <3>2. QED
      BY <1>2, <3>1, MarksDiffer DEF Escaped
<1>3. CASE c = "US"
  <2> DEFINE e == <<"\\", "u", "0", "0", "1", "f">>
  <2>1. Escape(c) = e /\ Mark(c) = "u"
    BY <1>3 DEF Escape, Mark
  <2>2. "\\" \in Letters /\ "u" \in Letters /\ "0" \in Letters /\ "1" \in Letters /\ "f" \in Letters
    BY DEF Letters, Chars
  <2>3. e \in Seq(Letters) /\ e # << >>
    BY <2>2
  <2>4. e[1] = "\\" /\ e[2] = "u" /\ Len(e) = 6
    OBVIOUS
  <2>5. QED
    <3>1. e \in Text /\ e # << >> /\ e[1] = "\\" /\ e[2] = Mark(c) /\ Len(e) >= 2 /\ Escape(c) = e
      BY <2>1, <2>3, <2>4 DEF Text
    <3> HIDE DEF e
    <3>2. QED
      BY <1>3, <3>1, MarksDiffer DEF Escaped
<1>4. CASE c \notin Escaped
  <2>1. Escape(c) = <<c>> /\ c # Quote
    BY <1>4 DEF Escape, Escaped
  <2>2. c \in Letters
    BY Alphabet
  <2>3. One(c) \in Text /\ One(c) # << >> /\ One(c)[1] = c /\ Escape(c) = One(c)
    BY <2>1, <2>2, OneIs
  <2>4. QED
    BY <1>4, <2>1, <2>3
<1>5. QED
  BY <1>1, <1>2, <1>3, <1>4 DEF Escaped

\* Whatever follows two escapes, they can be told.
LEMMA EscapeInjective ==
  ASSUME NEW c \in Chars, NEW d \in Chars, NEW x \in Text, NEW y \in Text,
         Cat(Escape(c), x) = Cat(Escape(d), y)
  PROVE  c = d /\ x = y
<1> DEFINE e == Escape(c)
           g == Escape(d)
<1>1. /\ e \in Text /\ e # << >> /\ g \in Text /\ g # << >>
      /\ c \notin Escaped => e[1] = c
      /\ c \in Escaped => e[1] = "\\" /\ e[2] = Mark(c) /\ Len(e) >= 2
      /\ d \notin Escaped => g[1] = d
      /\ d \in Escaped => g[1] = "\\" /\ g[2] = Mark(d) /\ Len(g) >= 2
      /\ e \o x = g \o y
      /\ c = d => e = g
  BY EscapeIs DEF Cat
<1> HIDE DEF e, g
<1>2. e[1] = g[1]
  BY <1>1, FirstLetters
<1>3. ASSUME NEW a \in Text, Len(a) >= 2, NEW b \in Text
      PROVE  (a \o b)[2] = a[2]
  <2>1. Len(a) \in Nat /\ Len(b) \in Nat
    BY DEF Text
  <2>2. 2 \in 1 .. Len(a) + Len(b) /\ 2 <= Len(a)
    BY <1>3, <2>1
  <2>3. QED
    BY <2>2, ConcatProperties DEF Text
<1>4. c \in Escaped /\ d \in Escaped => Mark(c) = Mark(d)
  <2>1. ASSUME c \in Escaped, d \in Escaped
        PROVE  e[2] = g[2]
    <3>1. (e \o x)[2] = e[2] /\ (g \o y)[2] = g[2]
      BY <1>1, <1>3, <2>1
    <3>2. QED
      BY <1>1, <3>1
  <2>2. QED
    BY <1>1, <2>1
<1>5. c = d
  <2>1. c \in Escaped <=> d \in Escaped
    BY <1>1, <1>2 DEF Escaped
  <2>2. c \in Escaped /\ d \in Escaped /\ Mark(c) = Mark(d) => c = d
    BY MarksDiffer DEF Mark, Escaped
  <2>3. QED
    BY <1>1, <1>2, <1>4, <2>1, <2>2
<1>6. e \o x = e \o y
  BY <1>1, <1>5
<1>7. x = y
  BY <1>1, <1>6, Cancel
<1>8. QED
  BY <1>5, <1>7

LEMMA FlattenTyped ==
  ASSUME NEW ts \in Seq(Text)
  PROVE  Flatten(ts) \in Text
<1>1. PICK f \in [0 .. Len(ts) -> Text] : Flatten(ts) = f[Len(ts)]
  BY FlattenIs
<1>2. Len(ts) \in 0 .. Len(ts)
  OBVIOUS
<1>3. QED
  BY <1>1, <1>2

Escapes(s) == [i \in 1 .. Len(s) |-> Escape(s[i])]

LEMMA EscapesTyped ==
  ASSUME NEW s \in Seq(Chars)
  PROVE  /\ Escapes(s) \in Seq(Text) /\ Len(Escapes(s)) = Len(s) /\ Len(s) \in Nat
         /\ \A i \in 1 .. Len(s) : s[i] \in Chars /\ Escapes(s)[i] = Escape(s[i])
         /\ StartsUnlike(Escapes(s), Quote)
<1>1. Len(s) \in Nat /\ \A i \in 1 .. Len(s) : s[i] \in Chars /\ Escapes(s)[i] = Escape(s[i])
  BY DEF Escapes
<1>2. Escapes(s) \in [1 .. Len(s) -> Text]
  BY <1>1, EscapeIs DEF Escapes
<1>3. Escapes(s) \in Seq(Text) /\ Len(Escapes(s)) = Len(s)
  BY <1>1, <1>2
<1>4. \A i \in 1 .. Len(s) : Escapes(s)[i] # << >> /\ Escapes(s)[i][1] # Quote
  BY <1>1, EscapeIs
<1>5. QED
  BY <1>1, <1>3, <1>4 DEF StartsUnlike

\* A string's text is one between quotes in which no quote stands alone.
LEMMA StringText ==
  ASSUME NEW s \in Seq(Chars)
  PROVE  /\ SerializeString(s) \in Text /\ SerializeString(s) # << >>
         /\ SerializeString(s)[1] = Quote
         /\ \A x \in Text :
              Cat(SerializeString(s), x)
                = Cat(One(Quote), Cat(Flatten(Escapes(s)), Cat(One(Quote), x)))
<1> DEFINE q == One(Quote)
           f == Flatten(Escapes(s))
<1>1. SerializeString(s) = Cat(Cat(q, f), q)
  BY DEF SerializeString, Escapes, Cat, One
<1>2. q \in Text /\ f \in Text /\ q # << >> /\ q[1] = Quote
  BY Alphabet, OneIs, EscapesTyped, FlattenTyped
<1> HIDE DEF q, f
<1>3. Cat(q, f) \in Text /\ Cat(Cat(q, f), q) \in Text
  BY <1>2, CatText
<1>4. Cat(q, f) # << >> /\ Cat(q, f)[1] = Quote
  BY <1>2, CatFirst
<1>5. Cat(Cat(q, f), q) # << >> /\ Cat(Cat(q, f), q)[1] = Quote
  BY <1>2, <1>3, <1>4, CatFirst
<1>6. ASSUME NEW x \in Text
      PROVE  Cat(Cat(Cat(q, f), q), x) = Cat(q, Cat(f, Cat(q, x)))
  <2>1. Cat(q, x) \in Text
    BY <1>2, CatText
  <2>2. Cat(Cat(Cat(q, f), q), x) = Cat(Cat(q, f), Cat(q, x))
    BY <1>2, <1>3, CatAssoc
  <2>3. Cat(Cat(q, f), Cat(q, x)) = Cat(q, Cat(f, Cat(q, x)))
    BY <1>2, <2>1, CatAssoc
  <2>4. QED
    BY <2>2, <2>3
<1>7. QED
  BY <1>1, <1>3, <1>5, <1>6 DEF q, f

\* hash.ts:129-182: the text of a string tells which string it is and where it ends.
LEMMA StringsUnambiguous ==
  ASSUME NEW s \in Seq(Chars), NEW t \in Seq(Chars), NEW x \in Text, NEW y \in Text,
         Cat(SerializeString(s), x) = Cat(SerializeString(t), y)
  PROVE  s = t /\ x = y
<1> DEFINE ts == Escapes(s)
           us == Escapes(t)
           q == One(Quote)
<1>1. /\ ts \in Seq(Text) /\ us \in Seq(Text) /\ StartsUnlike(ts, Quote) /\ StartsUnlike(us, Quote)
      /\ Len(ts) = Len(s) /\ Len(us) = Len(t) /\ Len(s) \in Nat /\ Len(t) \in Nat
      /\ \A i \in 1 .. Len(s) : s[i] \in Chars /\ ts[i] = Escape(s[i])
      /\ \A i \in 1 .. Len(t) : t[i] \in Chars /\ us[i] = Escape(t[i])
      /\ Flatten(ts) \in Text /\ Flatten(us) \in Text
  BY EscapesTyped, FlattenTyped
<1>2. Cat(q, Cat(Flatten(ts), Cat(q, x))) = Cat(q, Cat(Flatten(us), Cat(q, y)))
  BY StringText
<1>3. q \in Text /\ Quote \in Letters
  BY Alphabet, OneIs
<1> HIDE DEF ts, us
<1>4. Cat(Flatten(ts), Cat(q, x)) = Cat(Flatten(us), Cat(q, y))
  <2> HIDE DEF q
  <2>1. Cat(q, x) \in Text /\ Cat(q, y) \in Text
    BY <1>3, CatText
  <2>2. Cat(Flatten(ts), Cat(q, x)) \in Text /\ Cat(Flatten(us), Cat(q, y)) \in Text
    BY <1>1, <2>1, CatText
  <2>3. QED
    BY <1>2, <1>3, <2>2, CatCancel
<1>6. Separable(ts, us)
  <2> SUFFICES ASSUME NEW i \in 1 .. Len(ts), i <= Len(us), NEW a \in Text, NEW b \in Text,
                      Cat(ts[i], a) = Cat(us[i], b)
               PROVE  ts[i] = us[i] /\ a = b
    BY DEF Separable
  <2>1. i \in 1 .. Len(s) /\ i \in 1 .. Len(t)
    <3>1. Len(ts) = Len(s) /\ Len(us) = Len(t) /\ Len(s) \in Nat /\ Len(t) \in Nat
      BY <1>1
    <3>2. QED
      BY <3>1
  <2> DEFINE c == s[i]
             d == t[i]
  <2>2. c \in Chars /\ d \in Chars /\ ts[i] = Escape(c) /\ us[i] = Escape(d)
    BY <1>1, <2>1
  <2> HIDE DEF c, d
  <2>3. Cat(Escape(c), a) = Cat(Escape(d), b)
    BY <2>2
  <2>4. c = d /\ a = b
    BY <2>2, <2>3, EscapeInjective
  <2>5. QED
    BY <2>2, <2>4
<1>7. ts = us /\ x = y
  <2>1. CatEnded(ts, Quote, x) = CatEnded(us, Quote, y)
    BY <1>4 DEF CatEnded
  <2>2. ts \in Seq(Text) /\ us \in Seq(Text) /\ StartsUnlike(ts, Quote) /\ StartsUnlike(us, Quote)
    BY <1>1
  <2> DEFINE c == Quote
  <2>3. CatEnded(ts, c, x) = CatEnded(us, c, y)
    BY <2>1
  <2>4. c \in Letters
    BY <1>3
  <2>5. ts \in Seq(Text) /\ us \in Seq(Text) /\ StartsUnlike(ts, c) /\ StartsUnlike(us, c)
    BY <2>2
  <2>6. Separable(ts, us)
    BY <1>6
  <2>7. x \in Text /\ y \in Text
    OBVIOUS
  <2> HIDE DEF c
  <2>8. QED
    BY <2>3, <2>4, <2>5, <2>6, <2>7, Parsed
<1>8. ASSUME NEW i \in 1 .. Len(s)
      PROVE  s[i] = t[i]
  <2> DEFINE c == s[i]
             d == t[i]
  <2>1. c \in Chars /\ d \in Chars /\ Escape(c) = Escape(d)
    BY <1>1, <1>7
  <2> HIDE DEF c, d
  <2>2. Cat(Escape(c), x) = Cat(Escape(d), x)
    BY <2>1
  <2>3. c = d
    BY <2>1, <2>2, EscapeInjective
  <2>4. QED
    BY <2>3 DEF c, d
<1>9. QED
  BY <1>1, <1>7, <1>8, SeqEqual

-----------------------------------------------------------------------------
(* Sorting.                                                                *)

StrictOrder(order, S) ==
  /\ \A x \in S : <<x, x>> \notin order
  /\ \A x, y, z \in S : <<x, y>> \in order /\ <<y, z>> \in order => <<x, z>> \in order
  /\ \A x, y \in S : x # y => <<x, y>> \in order \/ <<y, x>> \in order

Earlier(S, order, x) == {y \in S : <<y, x>> \in order}

\* Of two elements of an ordered finite set, the earlier one has fewer before it.
LEMMA EarlierIs ==
  ASSUME NEW S, IsFiniteSet(S), NEW order, StrictOrder(order, S), NEW x \in S
  PROVE  /\ Cardinality(Earlier(S, order, x)) \in 0 .. Cardinality(S) - 1
         /\ \A y \in S : <<y, x>> \in order =>
              Cardinality(Earlier(S, order, y)) < Cardinality(Earlier(S, order, x))
<1>1. Earlier(S, order, x) \in SUBSET S /\ x \notin Earlier(S, order, x)
  BY DEF Earlier, StrictOrder
<1>2. /\ IsFiniteSet(Earlier(S, order, x))
      /\ Cardinality(Earlier(S, order, x)) \in Nat /\ Cardinality(S) \in Nat
      /\ Cardinality(Earlier(S, order, x)) <= Cardinality(S)
      /\ Cardinality(Earlier(S, order, x)) # Cardinality(S)
  BY <1>1, FS_Subset, FS_CardinalityType
<1>3. ASSUME NEW y \in S, <<y, x>> \in order
      PROVE  Cardinality(Earlier(S, order, y)) < Cardinality(Earlier(S, order, x))
  <2>1. Earlier(S, order, y) \in SUBSET Earlier(S, order, x)
    BY <1>3 DEF Earlier, StrictOrder
  <2>2. y \in Earlier(S, order, x) /\ y \notin Earlier(S, order, y)
    BY <1>3 DEF Earlier, StrictOrder
  <2>3. /\ IsFiniteSet(Earlier(S, order, y)) /\ Cardinality(Earlier(S, order, y)) \in Nat
        /\ Cardinality(Earlier(S, order, y)) <= Cardinality(Earlier(S, order, x))
        /\ Cardinality(Earlier(S, order, y)) # Cardinality(Earlier(S, order, x))
    BY <1>2, <2>1, <2>2, FS_Subset, FS_CardinalityType
  <2>4. QED
    BY <1>2, <2>3
<1>4. QED
  BY <1>2, <1>3

\* Sorting lists every element once, in its place.
LEMMA SortedIs ==
  ASSUME NEW S, IsFiniteSet(S), NEW order, StrictOrder(order, S)
  PROVE  /\ Sorted(S, order) \in Seq(S) /\ Len(Sorted(S, order)) = Cardinality(S)
         /\ Cardinality(S) \in Nat
         /\ \A x \in S : \E n \in 1 .. Cardinality(S) : Sorted(S, order)[n] = x
         /\ \A n \in 1 .. Cardinality(S), x \in S :
              Cardinality(Earlier(S, order, x)) = n - 1 => Sorted(S, order)[n] = x
         /\ \A n, m \in 1 .. Cardinality(S) : Sorted(S, order)[n] = Sorted(S, order)[m] => n = m
<1> DEFINE N == Cardinality(S)
           rank == [x \in S |-> Cardinality(Earlier(S, order, x))]
           s == Sorted(S, order)
<1>1. N \in Nat
  BY FS_CardinalityType
<1>2. rank \in Injection(S, 0 .. N - 1)
  <2>1. rank \in [S -> 0 .. N - 1]
    BY EarlierIs
  <2>2. \A x, y \in S : x # y => rank[x] # rank[y]
    <3>1. \A x, y \in S : <<x, y>> \in order => rank[x] < rank[y]
      BY EarlierIs
    <3>2. \A x, y \in S : x # y => rank[x] < rank[y] \/ rank[y] < rank[x]
      BY <3>1 DEF StrictOrder
    <3>3. \A x \in S : rank[x] \in Int
      BY <2>1
    <3> HIDE DEF rank
    <3>4. QED
      BY <3>2, <3>3
  <2> HIDE DEF rank
  <2>3. QED
    BY <2>1, <2>2 DEF Injection, IsInjective
<1>3. IsFiniteSet(0 .. N - 1) /\ Cardinality(0 .. N - 1) = N
  BY <1>1, FS_Interval
<1>4. rank \in Surjection(S, 0 .. N - 1)
  <2> HIDE DEF rank, N
  <2>1. Cardinality(S) = Cardinality(0 .. N - 1)
    BY <1>3 DEF N
  <2>2. QED
    BY <1>2, <1>3, <2>1, FS_Injection
<1>5. \A n \in 1 .. N : \E x \in S : rank[x] = n - 1
  <2>1. \A n \in 0 .. N - 1 : \E x \in S : rank[x] = n
    BY <1>4 DEF Surjection
  <2>2. \A n \in 1 .. N : n - 1 \in 0 .. N - 1
    BY <1>1
  <2> HIDE DEF rank, N
  <2>3. QED
    BY <2>1, <2>2
<1>6. s = [n \in 1 .. N |-> CHOOSE x \in S : Cardinality(Earlier(S, order, x)) = n - 1]
  BY DEF Sorted, Earlier
<1>7. /\ \A x \in S : rank[x] \in 0 .. N - 1
      /\ \A x, y \in S : rank[x] = rank[y] => x = y
  BY <1>2 DEF Injection, IsInjective
<1>8. \A x \in S : rank[x] = Cardinality(Earlier(S, order, x))
  OBVIOUS
<1> HIDE DEF N, s, rank
<1>9. \A n \in 1 .. N : s[n] \in S /\ rank[s[n]] = n - 1
  <2>1. \A n \in 1 .. N : \E x \in S : Cardinality(Earlier(S, order, x)) = n - 1
    BY <1>5, <1>8
  <2>2. \A n \in 1 .. N : s[n] \in S /\ Cardinality(Earlier(S, order, s[n])) = n - 1
    BY <1>6, <2>1
  <2>3. QED
    BY <1>8, <2>2
<1>10. \A n \in 1 .. N, x \in S : rank[x] = n - 1 => s[n] = x
  BY <1>7, <1>9
<1>11. \A x \in S : \E n \in 1 .. N : s[n] = x
  <2> SUFFICES ASSUME NEW x \in S
               PROVE  \E n \in 1 .. N : s[n] = x
    OBVIOUS
  <2>1. rank[x] \in 0 .. N - 1
    BY <1>7
  <2>2. rank[x] + 1 \in 1 .. N /\ (rank[x] + 1) - 1 = rank[x]
    BY <1>1, <2>1
  <2>3. QED
    BY <1>10, <2>2
<1>12. s \in Seq(S) /\ Len(s) = N
  <2>1. s \in [1 .. N -> S]
    BY <1>6, <1>9
  <2>2. QED
    BY <1>1, <2>1
<1>13. \A n, m \in 1 .. N : s[n] = s[m] => n = m
  <2> SUFFICES ASSUME NEW n \in 1 .. N, NEW m \in 1 .. N, s[n] = s[m]
               PROVE  n = m
    OBVIOUS
  <2>1. n - 1 = m - 1
    BY <1>9
  <2>2. n \in Int /\ m \in Int
    BY <1>1
  <2>3. QED
    BY <2>1, <2>2
<1>14. QED
  <2>1. \A n \in 1 .. N, x \in S : Cardinality(Earlier(S, order, x)) = n - 1 => s[n] = x
    BY <1>8, <1>10
  <2>2. QED
    BY <1>1, <1>11, <1>12, <1>13, <2>1 DEF N, s

-----------------------------------------------------------------------------
(* The order of names.                                                     *)

\* The code unit at i, and 0 after the end.
Unit(s, i) == IF i \in DOMAIN s THEN Code[s[i]] ELSE 0

\* s and t differ at i first, where s has the lower unit.
LowerAt(s, t, i) == Unit(s, i) < Unit(t, i) /\ \A j \in 1 .. i - 1 : Unit(s, j) = Unit(t, j)

LEMMA CodeIs ==
  /\ Code["LF"] = 10 /\ Code["US"] = 31 /\ Code[Quote] = 34 /\ Code[Comma] = 44
  /\ Code["\\"] = 92 /\ Code["n"] = 110
<1>1. /\ "LF" \in Chars /\ "US" \in Chars /\ Quote \in Chars /\ Comma \in Chars
      /\ "\\" \in Chars /\ "n" \in Chars
  BY DEF Chars
<1>2. QED
  BY <1>1, MarksDiffer DEF Code

LEMMA CodeOf ==
  ASSUME NEW c \in Chars
  PROVE  /\ Code[c] \in {10, 31, 34, 44, 92, 110}
         /\ \A d \in Chars : Code[c] = Code[d] => c = d
<1>1. /\ c = "LF" \/ c = "US" \/ c = Quote \/ c = Comma \/ c = "\\" \/ c = "n"
      /\ \A d \in Chars : d = "LF" \/ d = "US" \/ d = Quote \/ d = Comma \/ d = "\\" \/ d = "n"
  BY DEF Chars
<1>2. QED
  BY <1>1, CodeIs

LEMMA UnitIs ==
  ASSUME NEW s \in Seq(Chars), NEW i \in Nat \ {0}
  PROVE  /\ Unit(s, i) \in Nat /\ DOMAIN s = 1 .. Len(s) /\ Len(s) \in Nat
         /\ i <= Len(s) => i \in DOMAIN s /\ Unit(s, i) = Code[s[i]] /\ Unit(s, i) > 0
         /\ i > Len(s) => i \notin DOMAIN s /\ Unit(s, i) = 0
<1>1. DOMAIN s = 1 .. Len(s) /\ Len(s) \in Nat /\ \A j \in 1 .. Len(s) : s[j] \in Chars
  OBVIOUS
<1>2. \A c \in Chars : Code[c] \in Nat /\ Code[c] > 0
  <2>1. \A c \in Chars : Code[c] \in {10, 31, 34, 44, 92, 110}
    BY CodeOf
  <2>2. QED
    BY <2>1
<1>3. CASE i <= Len(s)
  <2>1. i \in 1 .. Len(s)
    BY <1>1, <1>3
  <2>2. s[i] \in Chars /\ i \in DOMAIN s
    BY <1>1, <2>1
  <2>3. QED
    BY <1>1, <1>2, <1>3, <2>2 DEF Unit
<1>4. CASE i > Len(s)
  <2>1. i \notin 1 .. Len(s)
    BY <1>1, <1>4
  <2>2. QED
    BY <1>1, <1>4, <2>1 DEF Unit
<1>5. QED
  BY <1>1, <1>3, <1>4

\* Names agree as far as their code units do.
LEMMA UnitsTell ==
  ASSUME NEW s \in Seq(Chars), NEW t \in Seq(Chars), NEW n \in Nat,
         n <= Len(s), n <= Len(t)
  PROVE  (\A j \in 1 .. n : s[j] = t[j]) <=> (\A j \in 1 .. n : Unit(s, j) = Unit(t, j))
<1>1. \A c, d \in Chars : Code[c] = Code[d] => c = d
  <2> SUFFICES ASSUME NEW c \in Chars, NEW d \in Chars, Code[c] = Code[d]
               PROVE  c = d
    OBVIOUS
  <2>1. QED
    BY CodeOf
<1>2. \A j \in 1 .. n : /\ j \in 1 .. Len(s) /\ j \in 1 .. Len(t) /\ j \in Nat \ {0}
                        /\ j <= Len(s) /\ j <= Len(t)
  OBVIOUS
<1>3. \A j \in 1 .. n : s[j] \in Chars /\ t[j] \in Chars
  BY <1>2
<1>4. \A j \in 1 .. n : Unit(s, j) = Code[s[j]] /\ Unit(t, j) = Code[t[j]]
  BY <1>2, UnitIs
<1>5. QED
  BY <1>1, <1>3, <1>4

\* The order of names is that at the first position where they differ.
LEMMA NameLessIs ==
  ASSUME NEW s \in Seq(Chars), NEW t \in Seq(Chars)
  PROVE  NameLess(s, t) <=> \E i \in Nat \ {0} : LowerAt(s, t, i)
<1>1. Len(s) \in Nat /\ Len(t) \in Nat /\ DOMAIN s = 1 .. Len(s) /\ DOMAIN t = 1 .. Len(t)
  OBVIOUS
<1>2. ASSUME NEW i \in DOMAIN s \cap DOMAIN t, Code[s[i]] < Code[t[i]],
             \A j \in 1 .. i - 1 : s[j] = t[j]
      PROVE  i \in Nat \ {0} /\ LowerAt(s, t, i)
  <2>1. i \in Nat \ {0} /\ i <= Len(s) /\ i <= Len(t) /\ i - 1 \in Nat /\ i - 1 <= Len(s) /\ i - 1 <= Len(t)
    BY <1>1
  <2>2. \A j \in 1 .. i - 1 : Unit(s, j) = Unit(t, j)
    BY <1>2, <2>1, UnitsTell
  <2>3. Unit(s, i) = Code[s[i]] /\ Unit(t, i) = Code[t[i]]
    BY <2>1, UnitIs
  <2>4. QED
    BY <1>2, <2>1, <2>2, <2>3 DEF LowerAt
<1>3. ASSUME Len(s) < Len(t), \A j \in DOMAIN s : s[j] = t[j]
      PROVE  Len(s) + 1 \in Nat \ {0} /\ LowerAt(s, t, Len(s) + 1)
  <2> DEFINE i == Len(s) + 1
  <2>1. i \in Nat \ {0} /\ i > Len(s) /\ i <= Len(t) /\ i - 1 = Len(s) /\ Len(s) <= Len(s) /\ Len(s) <= Len(t)
    BY <1>1, <1>3
  <2>2. \A j \in 1 .. Len(s) : Unit(s, j) = Unit(t, j)
    BY <1>1, <1>3, <2>1, UnitsTell
  <2> HIDE DEF i
  <2>3. Unit(s, i) = 0 /\ Unit(t, i) > 0
    BY <2>1, UnitIs
  <2>4. LowerAt(s, t, i)
    BY <2>1, <2>2, <2>3 DEF LowerAt
  <2>5. QED
    BY <2>1, <2>4 DEF i
<1>4. ASSUME NEW i \in Nat \ {0}, LowerAt(s, t, i)
      PROVE  NameLess(s, t)
  <2>1. /\ Unit(s, i) < Unit(t, i) /\ i - 1 \in Nat
        /\ \A j \in 1 .. i - 1 : Unit(s, j) = Unit(t, j)
    BY <1>4 DEF LowerAt
  <2>2. i <= Len(t)
    <3>1. Unit(t, i) > 0
      BY <2>1, UnitIs
    <3>2. ~(i > Len(t))
      BY <3>1, UnitIs
    <3>3. QED
      BY <1>1, <3>2
  <2>3. CASE i <= Len(s)
    <3>1. i - 1 <= Len(s) /\ i - 1 <= Len(t)
      BY <1>1, <2>2, <2>3
    <3>2. \A j \in 1 .. i - 1 : s[j] = t[j]
      BY <2>1, <3>1, UnitsTell
    <3>3. Code[s[i]] < Code[t[i]] /\ i \in DOMAIN s \cap DOMAIN t
      BY <2>1, <2>2, <2>3, UnitIs
    <3>4. QED
      BY <3>2, <3>3 DEF NameLess
  <2>4. CASE i > Len(s)
    <3>1. Len(s) < Len(t) /\ Len(s) <= Len(s) /\ Len(s) <= Len(t) /\ \A j \in 1 .. Len(s) : j \in 1 .. i - 1
      BY <1>1, <2>2, <2>4
    <3>2. \A j \in 1 .. Len(s) : Unit(s, j) = Unit(t, j)
      BY <2>1, <3>1
    <3>3. \A j \in 1 .. Len(s) : s[j] = t[j]
      BY <1>1, <3>1, <3>2, UnitsTell
    <3>4. QED
      BY <1>1, <3>1, <3>3 DEF NameLess
  <2>5. QED
    BY <1>1, <2>3, <2>4
<1>5. QED
  BY <1>2, <1>3, <1>4 DEF NameLess

\* Lower than a name that is lower than a third, lower than the third.
LEMMA LowerThanLower ==
  ASSUME NEW s \in Seq(Chars), NEW t \in Seq(Chars), NEW r \in Seq(Chars),
         NEW i \in Nat \ {0}, NEW k \in Nat \ {0}, LowerAt(s, t, i), LowerAt(t, r, k)
  PROVE  \E m \in Nat \ {0} : LowerAt(s, r, m)
<1>1. \A j \in Nat \ {0} : Unit(s, j) \in Nat /\ Unit(t, j) \in Nat /\ Unit(r, j) \in Nat
  BY UnitIs
<1>2. Unit(s, i) < Unit(t, i) /\ \A j \in 1 .. i - 1 : Unit(s, j) = Unit(t, j)
  BY DEF LowerAt
<1>3. Unit(t, k) < Unit(r, k) /\ \A j \in 1 .. k - 1 : Unit(t, j) = Unit(r, j)
  BY DEF LowerAt
<1>4. CASE i < k
  <2>1. i \in 1 .. k - 1 /\ \A j \in 1 .. i - 1 : j \in 1 .. k - 1
    BY <1>4
  <2>2. LowerAt(s, r, i)
    BY <1>2, <1>3, <2>1 DEF LowerAt
  <2>3. QED
    BY <2>2
<1>5. CASE k < i
  <2>1. k \in 1 .. i - 1 /\ \A j \in 1 .. k - 1 : j \in 1 .. i - 1
    BY <1>5
  <2>2. LowerAt(s, r, k)
    BY <1>2, <1>3, <2>1 DEF LowerAt
  <2>3. QED
    BY <2>2
<1>6. CASE i = k
  <2>1. Unit(s, i) < Unit(r, i)
    BY <1>1, <1>2, <1>3, <1>6
  <2>2. LowerAt(s, r, i)
    BY <1>2, <1>3, <1>6, <2>1 DEF LowerAt
  <2>3. QED
    BY <2>2
<1>7. QED
  BY <1>4, <1>5, <1>6

\* hash.ts:106: sorting by code unit puts member names in one order.
LEMMA NameOrder ==
  ASSUME NEW S \in SUBSET Seq(Chars)
  PROVE  StrictOrder({p \in S \X S : NameLess(p[1], p[2])}, S)
<1> DEFINE order == {p \in S \X S : NameLess(p[1], p[2])}
<1>1. \A s, t \in S : <<s, t>> \in order <=> NameLess(s, t)
  OBVIOUS
<1>2. \A s, t \in S : NameLess(s, t) <=> \E i \in Nat \ {0} : LowerAt(s, t, i)
  BY NameLessIs
<1> HIDE DEF order
<1>3. \A s \in S : <<s, s>> \notin order
  <2>1. \A s \in S, i \in Nat \ {0} : ~LowerAt(s, s, i)
    <3>1. \A s \in S, i \in Nat \ {0} : Unit(s, i) \in Nat
      BY UnitIs
    <3>2. QED
      BY <3>1 DEF LowerAt
  <2>2. QED
    BY <1>1, <1>2, <2>1
<1>4. \A s, t, r \in S : <<s, t>> \in order /\ <<t, r>> \in order => <<s, r>> \in order
  <2> SUFFICES ASSUME NEW s \in S, NEW t \in S, NEW r \in S,
                      <<s, t>> \in order, <<t, r>> \in order
               PROVE  <<s, r>> \in order
    OBVIOUS
  <2>1. PICK i \in Nat \ {0} : LowerAt(s, t, i)
    BY <1>1, <1>2
  <2>2. PICK k \in Nat \ {0} : LowerAt(t, r, k)
    BY <1>1, <1>2
  <2>3. s \in Seq(Chars) /\ t \in Seq(Chars) /\ r \in Seq(Chars)
    OBVIOUS
  <2>4. \E m \in Nat \ {0} : LowerAt(s, r, m)
    BY <2>1, <2>2, <2>3, LowerThanLower
  <2>5. QED
    BY <1>1, <1>2, <2>4
<1>5. \A s, t \in S : s # t => <<s, t>> \in order \/ <<t, s>> \in order
  <2> SUFFICES ASSUME NEW s \in S, NEW t \in S, s # t
               PROVE  \E i \in Nat \ {0} : LowerAt(s, t, i) \/ LowerAt(t, s, i)
    BY <1>1, <1>2
  <2> DEFINE Apart == {i \in Nat \ {0} : Unit(s, i) # Unit(t, i)}
  <2>1. s \in Seq(Chars) /\ t \in Seq(Chars) /\ Len(s) \in Nat /\ Len(t) \in Nat
    OBVIOUS
  <2>2. \A i \in Nat \ {0} : Unit(s, i) \in Nat /\ Unit(t, i) \in Nat
    BY <2>1, UnitIs
  <2>3. Apart # {}
    <3> SUFFICES ASSUME \A i \in Nat \ {0} : Unit(s, i) = Unit(t, i)
                 PROVE  FALSE
      OBVIOUS
    <3>1. Len(s) = Len(t)
      <4>1. ASSUME NEW a \in Seq(Chars), NEW b \in Seq(Chars), Len(a) < Len(b)
            PROVE  \E i \in Nat \ {0} : Unit(a, i) # Unit(b, i)
        <5>1. Len(b) \in Nat \ {0} /\ Len(b) <= Len(b) /\ Len(b) > Len(a)
          BY <4>1
        <5>2. Unit(b, Len(b)) > 0 /\ Unit(a, Len(b)) = 0
          BY <5>1, UnitIs
        <5>3. QED
          BY <5>1, <5>2
      <4>2. ~(Len(s) < Len(t)) /\ ~(Len(t) < Len(s))
        BY <2>1, <4>1
      <4>3. QED
        BY <2>1, <4>2
    <3>2. \A j \in 1 .. Len(s) : Unit(s, j) = Unit(t, j)
      OBVIOUS
    <3>3. Len(s) <= Len(s) /\ Len(s) <= Len(t)
      BY <2>1, <3>1
    <3>4. \A j \in 1 .. Len(s) : s[j] = t[j]
      BY <2>1, <3>2, <3>3, UnitsTell
    <3>5. QED
      BY <2>1, <3>1, <3>4, SeqEqual
  <2>4. PICK i \in Apart : \A j \in Apart : i <= j
    <3>1. Apart \in SUBSET Nat
      OBVIOUS
    <3> HIDE DEF Apart
    <3>2. QED
      BY <2>3, <3>1, LeastNat
  <2>5. \A j \in 1 .. i - 1 : Unit(s, j) = Unit(t, j)
    BY <2>4
  <2>6. Unit(s, i) < Unit(t, i) \/ Unit(t, i) < Unit(s, i)
    BY <2>2, <2>4
  <2>7. QED
    BY <2>5, <2>6 DEF LowerAt
<1>6. QED
  BY <1>3, <1>4, <1>5 DEF StrictOrder, order

\* The identity sorts an interval.
LEMMA SortedInterval ==
  ASSUME NEW n \in Nat
  PROVE  Sorted(1 .. n, {p \in (1 .. n) \X (1 .. n) : p[1] < p[2]}) = [i \in 1 .. n |-> i]
<1> DEFINE S == 1 .. n
           order == {p \in S \X S : p[1] < p[2]}
           s == Sorted(S, order)
<1>1. StrictOrder(order, S) /\ IsFiniteSet(S) /\ Cardinality(S) = n
  <2>1. IsFiniteSet(S) /\ Cardinality(S) = n
    BY FS_Interval
  <2>2. \A x, y \in S : <<x, y>> \in order <=> x < y
    OBVIOUS
  <2> HIDE DEF order
  <2>3. StrictOrder(order, S)
    BY <2>2 DEF StrictOrder
  <2>4. QED
    BY <2>1, <2>3
<1>2. \A i \in S : Cardinality(Earlier(S, order, i)) = i - 1
  <2> SUFFICES ASSUME NEW i \in S
               PROVE  Cardinality(Earlier(S, order, i)) = i - 1
    OBVIOUS
  <2>1. Earlier(S, order, i) = 1 .. i - 1
    BY DEF Earlier
  <2>2. Cardinality(1 .. i - 1) = i - 1
    BY FS_Interval
  <2>3. QED
    BY <2>1, <2>2
<1> HIDE DEF order
<1>4. \A i \in S : s[i] = i
  <2>1. \A i \in S : i \in 1 .. Cardinality(S) /\ Cardinality(Earlier(S, order, i)) = i - 1
    BY <1>1, <1>2
  <2> HIDE DEF S
  <2>2. QED
    BY <1>1, <2>1, SortedIs
<1>3. s = [i \in 1 .. n |-> s[i]]
  <2>1. s \in Seq(S) /\ Len(s) = n
    <3> HIDE DEF S
    <3>1. QED
      BY <1>1, SortedIs
  <2> HIDE DEF s, S
  <2>2. s \in Seq(S) /\ Len(s) = n
    BY <2>1
  <2>3. QED
    BY <2>2
<1> HIDE DEF s
<1>5. s = [i \in 1 .. n |-> i]
  BY <1>3, <1>4
<1>6. QED
  BY <1>5 DEF s, order

-----------------------------------------------------------------------------
(* Texts between brackets, with commas between them.                       *)

WithComma(ts) == [n \in 1 .. Len(ts) |-> IF n = 1 THEN ts[n] ELSE Cat(One(Comma), ts[n])]

\* Joined flattens texts that begin with the comma, the first one apart.
LEMMA WithCommaIs ==
  ASSUME NEW ts \in Seq(Text)
  PROVE  /\ Joined(ts) = Flatten(WithComma(ts)) /\ Len(ts) \in Nat
         /\ WithComma(ts) \in Seq(Text) /\ Len(WithComma(ts)) = Len(ts)
         /\ \A n \in 1 .. Len(ts) :
              ts[n] \in Text /\ WithComma(ts)[n] = IF n = 1 THEN ts[n] ELSE Cat(One(Comma), ts[n])
<1>1. Joined(ts) = Flatten(WithComma(ts))
  BY DEF Joined, WithComma, Cat, One
<1>2. Len(ts) \in Nat /\ \A n \in 1 .. Len(ts) : ts[n] \in Text
  OBVIOUS
<1>3. One(Comma) \in Text
  BY Alphabet, OneIs
<1>4. \A n \in 1 .. Len(ts) : Cat(One(Comma), ts[n]) \in Text
  BY <1>2, <1>3, CatText
<1>5. WithComma(ts) \in [1 .. Len(ts) -> Text]
  BY <1>2, <1>4 DEF WithComma
<1>6. WithComma(ts) \in Seq(Text) /\ Len(WithComma(ts)) = Len(ts)
  BY <1>2, <1>5
<1>7. \A n \in 1 .. Len(ts) : WithComma(ts)[n] = IF n = 1 THEN ts[n] ELSE Cat(One(Comma), ts[n])
  BY DEF WithComma
<1>8. QED
  BY <1>1, <1>2, <1>6, <1>7

LEMMA JoinedTyped ==
  ASSUME NEW ts \in Seq(Text)
  PROVE  Joined(ts) \in Text
BY WithCommaIs, FlattenTyped

Enclosed(ts, c, x) == Cat(Joined(ts), Cat(One(c), x))

\* No list of pieces can be taken for another one, when every piece can be told and the
\* bracket c cannot be taken for one.
LEMMA JoinedParsed ==
  ASSUME NEW ts \in Seq(Text), NEW us \in Seq(Text), Separable(ts, us),
         NEW c \in Letters, c # Comma, StartsUnlike(ts, c), StartsUnlike(us, c),
         NEW x \in Text, NEW y \in Text, Enclosed(ts, c, x) = Enclosed(us, c, y)
  PROVE  ts = us /\ x = y
<1> DEFINE ps == WithComma(ts)
           qs == WithComma(us)
           k == One(Comma)
<1>1. /\ Len(ts) \in Nat /\ Len(us) \in Nat /\ Len(ps) = Len(ts) /\ Len(qs) = Len(us)
      /\ ps \in Seq(Text) /\ qs \in Seq(Text)
  BY WithCommaIs
<1>2. /\ \A n \in 1 .. Len(ts) : ts[n] \in Text /\ ps[n] = IF n = 1 THEN ts[n] ELSE Cat(k, ts[n])
      /\ \A n \in 1 .. Len(us) : us[n] \in Text /\ qs[n] = IF n = 1 THEN us[n] ELSE Cat(k, us[n])
  BY WithCommaIs
<1>3. k \in Text /\ k # << >> /\ k[1] = Comma
  BY Alphabet, OneIs
<1>4. CatEnded(ps, c, x) = CatEnded(qs, c, y)
  BY WithCommaIs DEF CatEnded, Enclosed
<1> HIDE DEF ps, qs, k
<1>5. Separable(ps, qs)
  <2> SUFFICES ASSUME NEW i \in 1 .. Len(ps), i <= Len(qs), NEW a \in Text, NEW b \in Text,
                      Cat(ps[i], a) = Cat(qs[i], b)
               PROVE  ps[i] = qs[i] /\ a = b
    BY DEF Separable
  <2>1. i \in 1 .. Len(ts) /\ i \in 1 .. Len(us) /\ i <= Len(us)
    BY <1>1
  <2>2. \A e, g \in Text : Cat(ts[i], e) = Cat(us[i], g) => ts[i] = us[i] /\ e = g
    BY <2>1 DEF Separable
  <2> DEFINE t == ts[i]
             u == us[i]
  <2>3. t \in Text /\ u \in Text
    BY <1>2, <2>1
  <2>4. CASE i = 1
    BY <1>2, <2>1, <2>2, <2>4
  <2>5. CASE i # 1
    <3>1. ps[i] = Cat(k, t) /\ qs[i] = Cat(k, u)
      BY <1>2, <2>1, <2>5
    <3> HIDE DEF t, u
    <3>2. Cat(Cat(k, t), a) = Cat(k, Cat(t, a)) /\ Cat(Cat(k, u), b) = Cat(k, Cat(u, b))
      BY <1>3, <2>3, CatAssoc
    <3>3. Cat(t, a) \in Text /\ Cat(u, b) \in Text
      BY <2>3, CatText
    <3>7. Cat(k, Cat(t, a)) = Cat(k, Cat(u, b))
      BY <3>1, <3>2
    <3>4. Cat(t, a) = Cat(u, b)
      BY <1>3, <3>3, <3>7, CatCancel
    <3>5. t = u /\ a = b
      BY <2>2, <3>4 DEF t, u
    <3>6. QED
      BY <3>1, <3>5
  <2>6. QED
    BY <2>4, <2>5
<1>6. StartsUnlike(ps, c)
  <2> SUFFICES ASSUME NEW i \in 1 .. Len(ps)
               PROVE  ps[i] # << >> /\ ps[i][1] # c
    BY DEF StartsUnlike
  <2>1. i \in 1 .. Len(ts)
    BY <1>1
  <2>2. ts[i] \in Text /\ ts[i] # << >> /\ ts[i][1] # c
    BY <1>2, <2>1 DEF StartsUnlike
  <2>3. Cat(k, ts[i]) # << >> /\ Cat(k, ts[i])[1] = Comma
    BY <1>3, <2>2, CatFirst
  <2>4. ps[i] = IF i = 1 THEN ts[i] ELSE Cat(k, ts[i])
    BY <1>2, <2>1
  <2>5. QED
    BY <2>2, <2>3, <2>4
<1>7. StartsUnlike(qs, c)
  <2> SUFFICES ASSUME NEW i \in 1 .. Len(qs)
               PROVE  qs[i] # << >> /\ qs[i][1] # c
    BY DEF StartsUnlike
  <2>1. i \in 1 .. Len(us)
    BY <1>1
  <2>2. us[i] \in Text /\ us[i] # << >> /\ us[i][1] # c
    BY <1>2, <2>1 DEF StartsUnlike
  <2>3. Cat(k, us[i]) # << >> /\ Cat(k, us[i])[1] = Comma
    BY <1>3, <2>2, CatFirst
  <2>4. qs[i] = IF i = 1 THEN us[i] ELSE Cat(k, us[i])
    BY <1>2, <2>1
  <2>5. QED
    BY <2>2, <2>3, <2>4
<1>8. ps = qs /\ x = y
  BY <1>1, <1>4, <1>5, <1>6, <1>7, Parsed
<1>9. Len(ts) = Len(us)
  BY <1>1, <1>8
<1>10. ASSUME NEW i \in 1 .. Len(ts)
       PROVE  ts[i] = us[i]
  <2>1. i \in 1 .. Len(us)
    BY <1>9
  <2> DEFINE t == ts[i]
             u == us[i]
  <2>2. t \in Text /\ u \in Text /\ IF i = 1 THEN t = u ELSE Cat(k, t) = Cat(k, u)
    BY <1>2, <1>8, <2>1
  <2> HIDE DEF t, u
  <2>3. t = u
    BY <1>3, <2>2, CatCancel
  <2>4. QED
    BY <2>3 DEF t, u
<1>11. QED
  BY <1>8, <1>9, <1>10, SeqEqual

\* What stands between brackets.
LEMMA BracketsAre ==
  ASSUME NEW o \in Letters, NEW j \in Text, NEW c \in Letters
  PROVE  LET text == Cat(Cat(One(o), j), One(c))
         IN  /\ text \in Text /\ text # << >> /\ text[1] = o
             /\ \A x \in Text : Cat(text, x) = Cat(One(o), Cat(j, Cat(One(c), x)))
<1> DEFINE a == One(o)
           b == One(c)
<1>1. a \in Text /\ b \in Text /\ a # << >> /\ a[1] = o
  BY OneIs
<1> HIDE DEF a, b
<1>2. Cat(a, j) \in Text /\ Cat(Cat(a, j), b) \in Text
  BY <1>1, CatText
<1>3. Cat(a, j) # << >> /\ Cat(a, j)[1] = o
  BY <1>1, CatFirst
<1>4. Cat(Cat(a, j), b) # << >> /\ Cat(Cat(a, j), b)[1] = o
  BY <1>1, <1>2, <1>3, CatFirst
<1>5. ASSUME NEW x \in Text
      PROVE  Cat(Cat(Cat(a, j), b), x) = Cat(a, Cat(j, Cat(b, x)))
  <2>1. Cat(b, x) \in Text
    BY <1>1, CatText
  <2>2. Cat(Cat(Cat(a, j), b), x) = Cat(Cat(a, j), Cat(b, x))
    BY <1>1, <1>2, CatAssoc
  <2>3. Cat(Cat(a, j), Cat(b, x)) = Cat(a, Cat(j, Cat(b, x)))
    BY <1>1, <2>1, CatAssoc
  <2>4. QED
    BY <2>2, <2>3
<1>6. QED
  BY <1>2, <1>4, <1>5 DEF a, b

Brackets(o, ts, c) == Cat(Cat(One(o), Joined(ts)), One(c))

\* What is between brackets is told from what follows, if its pieces are.
LEMMA BracketsParsed ==
  ASSUME NEW ts \in Seq(Text), NEW us \in Seq(Text), Separable(ts, us),
         NEW o \in Letters, NEW c \in Letters, c # Comma, StartsUnlike(ts, c), StartsUnlike(us, c),
         NEW x \in Text, NEW y \in Text,
         Cat(Brackets(o, ts, c), x) = Cat(Brackets(o, us, c), y)
  PROVE  ts = us /\ x = y
<1> DEFINE a == One(o)
           b == One(c)
<1>1. Joined(ts) \in Text /\ Joined(us) \in Text /\ a \in Text /\ b \in Text
  BY JoinedTyped, OneIs
<1>2. Cat(Brackets(o, ts, c), x) = Cat(a, Enclosed(ts, c, x))
  BY <1>1, BracketsAre DEF Brackets, Enclosed
<1>3. Cat(Brackets(o, us, c), y) = Cat(a, Enclosed(us, c, y))
  BY <1>1, BracketsAre DEF Brackets, Enclosed
<1>4. Enclosed(ts, c, x) \in Text /\ Enclosed(us, c, y) \in Text
  <2> HIDE DEF a
  <2>1. Cat(b, x) \in Text /\ Cat(b, y) \in Text
    <3> HIDE DEF b
    <3>1. QED
      BY <1>1, CatText
  <2>2. QED
    BY <1>1, <2>1, CatText DEF Enclosed
<1> HIDE DEF a, b
<1>5. Enclosed(ts, c, x) = Enclosed(us, c, y)
  BY <1>1, <1>2, <1>3, <1>4, CatCancel
<1>6. QED
  BY <1>5, JoinedParsed

-----------------------------------------------------------------------------
(* Values.                                                                 *)

Kinds == {"null", "undefined", "boolean", "number", "bigint", "string", "function",
          "array", "object"}

\* The shape of a value, with its members on the level below.
LEMMA ValueIs ==
  ASSUME NEW d \in 1 .. MaxDepth, NEW v \in JsValues[d]
  PROVE  /\ d - 1 \in 0 .. MaxDepth /\ v.t \in Kinds
         /\ v = [t |-> v.t, text |-> v.text, keys |-> v.keys, items |-> v.items]
         /\ v.keys \in Seq(Seq(Chars)) /\ v.items \in Seq(JsValues[d - 1])
         /\ v.t = "boolean" => v.text \in {<<"true">>, <<"false">>}
         /\ v.t = "number" => v.text \in {<<n>> : n \in Numerals}
         /\ v.t = "string" => v.text \in Seq(Chars)
         /\ v.t \notin {"boolean", "number", "string"} => v.text = << >>
         /\ IF v.t = "object" THEN Len(v.keys) = Len(v.items) ELSE v.keys = << >>
         /\ \A i, j \in DOMAIN v.keys : v.keys[i] = v.keys[j] => i = j
         /\ v.t \notin {"array", "object"} => v.items = << >>
<1>1. d - 1 \in 0 .. MaxDepth
  BY CanonicalAssumption
<1>2. v \in LevelOf(JsValues[d - 1])
  BY JsValuesIs
<1>3. /\ v \in [t : Kinds, text : Seq(Chars \cup Numerals \cup {"true", "false"}),
                keys : Seq(Seq(Chars)), items : Seq(JsValues[d - 1])]
      /\ WellFormed(v)
  BY <1>2 DEF LevelOf, Kinds
<1>4. /\ v.t \in Kinds /\ v.keys \in Seq(Seq(Chars)) /\ v.items \in Seq(JsValues[d - 1])
      /\ v = [t |-> v.t, text |-> v.text, keys |-> v.keys, items |-> v.items]
  BY <1>3
<1>5. /\ v.t = "boolean" => v.text \in {<<"true">>, <<"false">>}
      /\ v.t = "number" => v.text \in {<<n>> : n \in Numerals}
      /\ v.t = "string" => v.text \in Seq(Chars)
      /\ v.t \notin {"boolean", "number", "string"} => v.text = << >>
  BY <1>3 DEF WellFormed
<1>6. /\ IF v.t = "object" THEN Len(v.keys) = Len(v.items) ELSE v.keys = << >>
      /\ \A i, j \in DOMAIN v.keys : v.keys[i] = v.keys[j] => i = j
      /\ v.t \notin {"array", "object"} => v.items = << >>
  BY <1>3 DEF WellFormed
<1>7. QED
  BY <1>1, <1>4, <1>5, <1>6

\* The results for the members of v.
OfMembers(f, d, v) == [i \in DOMAIN v.items |-> f[d - 1][v.items[i]]]

\* What is computed of a value, in terms of its members.
LEMMA Unfold ==
  ASSUME NEW d \in 1 .. MaxDepth, NEW v \in JsValues[d]
  PROVE  /\ ThrownAt[d][v] = ThrowsOn(v, OfMembers(ThrownAt, d, v))
         /\ TextAt[d][v] = SerializeAs(v, OfMembers(TextAt, d, v))
         /\ ClonableAt[d][v] = ClonableIf(v, OfMembers(ClonableAt, d, v))
         /\ CloneAt[d][v] = CloneAs(v, OfMembers(CloneAt, d, v))
         /\ JsonAt[d][v] = JsonAs(v, OfMembers(JsonAt, d, v))
<1>1. ThrownAt[d][v] = ThrowsOn(v, OfMembers(ThrownAt, d, v))
  <2>1. ThrowsOf(JsValues[d], ThrownAt[d - 1])[v] = ThrowsOn(v, OfMembers(ThrownAt, d, v))
    BY DEF ThrowsOf, OfMembers
  <2>2. ThrownAt[d] = ThrowsOf(JsValues[d], ThrownAt[d - 1])
    BY LevelsAre
  <2>3. QED
    BY <2>1, <2>2
<1>2. TextAt[d][v] = SerializeAs(v, OfMembers(TextAt, d, v))
  <2>1. TextsOf(JsValues[d], TextAt[d - 1])[v] = SerializeAs(v, OfMembers(TextAt, d, v))
    BY DEF TextsOf, OfMembers
  <2>2. TextAt[d] = TextsOf(JsValues[d], TextAt[d - 1])
    BY LevelsAre
  <2>3. QED
    BY <2>1, <2>2
<1>3. ClonableAt[d][v] = ClonableIf(v, OfMembers(ClonableAt, d, v))
  <2>1. ClonablesOf(JsValues[d], ClonableAt[d - 1])[v] = ClonableIf(v, OfMembers(ClonableAt, d, v))
    BY DEF ClonablesOf, OfMembers
  <2>2. ClonableAt[d] = ClonablesOf(JsValues[d], ClonableAt[d - 1])
    BY LevelsAre
  <2>3. QED
    BY <2>1, <2>2
<1>4. CloneAt[d][v] = CloneAs(v, OfMembers(CloneAt, d, v))
  <2>1. ClonesOf(JsValues[d], CloneAt[d - 1])[v] = CloneAs(v, OfMembers(CloneAt, d, v))
    BY DEF ClonesOf, OfMembers
  <2>2. CloneAt[d] = ClonesOf(JsValues[d], CloneAt[d - 1])
    BY LevelsAre
  <2>3. QED
    BY <2>1, <2>2
<1>5. JsonAt[d][v] = JsonAs(v, OfMembers(JsonAt, d, v))
  <2>1. JsonsOf(JsValues[d], JsonAt[d - 1])[v] = JsonAs(v, OfMembers(JsonAt, d, v))
    BY DEF JsonsOf, OfMembers
  <2>2. JsonAt[d] = JsonsOf(JsValues[d], JsonAt[d - 1])
    BY LevelsAre
  <2>3. QED
    BY <2>1, <2>2
<1>6. QED
  BY <1>1, <1>2, <1>3, <1>4, <1>5

LEMMA MembersAre ==
  ASSUME NEW d \in 1 .. MaxDepth, NEW v \in JsValues[d]
  PROVE  /\ Len(v.items) \in Nat /\ DOMAIN v.items = 1 .. Len(v.items)
         /\ v.t # "object" => DOMAIN v.keys = {}
         /\ v.t = "object" => DOMAIN v.keys = 1 .. Len(v.items)
         /\ \A i \in 1 .. Len(v.items) : v.items[i] \in JsValues[d - 1]
         /\ \A i \in DOMAIN v.keys : v.keys[i] \in Seq(Chars)
         /\ \A f : \A i \in 1 .. Len(v.items) : OfMembers(f, d, v)[i] = f[d - 1][v.items[i]]
         /\ \A f : DOMAIN OfMembers(f, d, v) = 1 .. Len(v.items)
         /\ v.t \notin {"array", "object"} => Len(v.items) = 0
<1>1. /\ v.items \in Seq(JsValues[d - 1]) /\ v.keys \in Seq(Seq(Chars))
      /\ IF v.t = "object" THEN Len(v.keys) = Len(v.items) ELSE v.keys = << >>
      /\ v.t \notin {"array", "object"} => v.items = << >>
  BY ValueIs
<1> DEFINE s == v.items
           k == v.keys
<1>2. Len(s) \in Nat /\ DOMAIN s = 1 .. Len(s) /\ \A i \in 1 .. Len(s) : s[i] \in JsValues[d - 1]
  <2>1. s \in Seq(JsValues[d - 1])
    BY <1>1
  <2> HIDE DEF s
  <2>2. QED
    BY <2>1
<1>3. DOMAIN k = 1 .. Len(k) /\ \A i \in DOMAIN k : k[i] \in Seq(Chars)
  <2>1. k \in Seq(Seq(Chars))
    BY <1>1
  <2> HIDE DEF k
  <2>2. QED
    BY <2>1
<1>4. v.t # "object" => DOMAIN v.keys = {}
  BY <1>1
<1>5. v.t \notin {"array", "object"} => Len(v.items) = 0
  BY <1>1
<1>6. \A f : /\ DOMAIN OfMembers(f, d, v) = DOMAIN v.items
             /\ \A i \in DOMAIN v.items : OfMembers(f, d, v)[i] = f[d - 1][v.items[i]]
  BY DEF OfMembers
<1>7. QED
  BY <1>1, <1>2, <1>3, <1>4, <1>5, <1>6

Present(v) == {i \in DOMAIN v.keys : v.items[i].t # "undefined"}

\* The members of an object that are written, by name.
LEMMA NamesAre ==
  ASSUME NEW d \in 1 .. MaxDepth, NEW v \in JsValues[d]
  PROVE  /\ Names(v) = {v.keys[i] : i \in Present(v)} /\ Names(v) \in SUBSET Seq(Chars)
         /\ \A i \in Present(v) : i \in DOMAIN v.keys /\ v.keys[i] \in Names(v)
                                  /\ Position(v, v.keys[i]) = i
         /\ \A name \in Names(v) : Position(v, name) \in Present(v) /\ v.keys[Position(v, name)] = name
         /\ IsFiniteSet(Names(v))
<1>1. Names(v) = {v.keys[i] : i \in Present(v)}
  BY DEF Names, Present
<1>2. /\ \A i \in DOMAIN v.keys : v.keys[i] \in Seq(Chars)
      /\ \A i, j \in DOMAIN v.keys : v.keys[i] = v.keys[j] => i = j
      /\ Len(v.items) \in Nat /\ (DOMAIN v.keys = {} \/ DOMAIN v.keys = 1 .. Len(v.items))
  BY ValueIs, MembersAre
<1>3. \A i \in DOMAIN v.keys : Position(v, v.keys[i]) = i
  <2> SUFFICES ASSUME NEW i \in DOMAIN v.keys
               PROVE  Position(v, v.keys[i]) = i
    OBVIOUS
  <2>1. \A j \in DOMAIN v.keys : v.keys[j] = v.keys[i] <=> j = i
    BY <1>2
  <2>2. QED
    BY <2>1 DEF Position
<1>4. \A i \in Present(v) : i \in DOMAIN v.keys
  BY DEF Present
<1>5. \A name \in Names(v) : Position(v, name) \in Present(v) /\ v.keys[Position(v, name)] = name
  BY <1>1, <1>3, <1>4
<1>6. IsFiniteSet(Names(v))
  <2>1. IsFiniteSet(1 .. Len(v.items))
    BY <1>2, FS_Interval
  <2>2. Present(v) \in SUBSET (1 .. Len(v.items))
    BY <1>2 DEF Present
  <2>3. IsFiniteSet(Present(v))
    BY <2>1, <2>2, FS_Subset
  <2> DEFINE f == [i \in Present(v) |-> v.keys[i]]
  <2>4. f \in Surjection(Present(v), Names(v))
    BY <1>1 DEF Surjection
  <2> HIDE DEF f
  <2>5. QED
    BY <2>3, <2>4, FS_Surjection
<1>7. QED
  BY <1>1, <1>2, <1>3, <1>4, <1>5, <1>6

\* SortedNames lists every name.
LEMMA SortedNamesAre ==
  ASSUME NEW d \in 1 .. MaxDepth, NEW v \in JsValues[d]
  PROVE  /\ SortedNames(v) \in Seq(Names(v)) /\ Len(SortedNames(v)) \in Nat
         /\ \A n \in 1 .. Len(SortedNames(v)) : SortedNames(v)[n] \in Names(v)
         /\ \A name \in Names(v) : \E n \in 1 .. Len(SortedNames(v)) : SortedNames(v)[n] = name
<1> DEFINE S == Names(v)
           order == {p \in S \X S : NameLess(p[1], p[2])}
           s == Sorted(S, order)
<1>1. SortedNames(v) = s
  BY DEF SortedNames
<1>2. S \in SUBSET Seq(Chars) /\ IsFiniteSet(S)
  BY NamesAre
<1>3. StrictOrder(order, S)
  <2> HIDE DEF S
  <2>1. QED
    BY <1>2, NameOrder
<1> HIDE DEF S, order
<1>4. /\ s \in Seq(S) /\ Len(s) = Cardinality(S) /\ Cardinality(S) \in Nat
      /\ \A x \in S : \E n \in 1 .. Cardinality(S) : s[n] = x
  BY <1>2, <1>3, SortedIs
<1> HIDE DEF s
<1>5. \A n \in 1 .. Len(s) : s[n] \in S
  BY <1>4
<1>6. QED
  BY <1>1, <1>4, <1>5 DEF S

-----------------------------------------------------------------------------
(* What canonicalize writes for a value of d levels, given what it writes  *)
(* for those of d - 1.                                                     *)

JsonKinds == {"null", "boolean", "number", "string", "array", "object"}

Starts(t) ==
  CASE t = "null" -> {"null"}
    [] t = "boolean" -> {"true", "false"}
    [] t = "number" -> {"0", "1"}
    [] t = "string" -> {Quote}
    [] t = "array" -> {"["}
    [] t = "object" -> {OpenBrace}

\* The first character of a text tells the type of the value.
LEMMA StartsDiffer ==
  ASSUME NEW t \in JsonKinds, NEW c \in Starts(t)
  PROVE  /\ c \in Letters /\ c \notin {"]", CloseBrace, Comma}
         /\ \A u \in JsonKinds : c \in Starts(u) => t = u
<1>1. Starts("null") = {"null"} /\ Starts("boolean") = {"true", "false"} /\ Starts("number") = {"0", "1"}
      /\ Starts("string") = {Quote} /\ Starts("array") = {"["} /\ Starts("object") = {OpenBrace}
  BY DEF Starts
<1>2. c \in Letters
  BY <1>1, Alphabet DEF JsonKinds
<1>3. c \notin {"]", CloseBrace, Comma}
  BY <1>1, MarksDiffer DEF JsonKinds
<1>4. ASSUME NEW u \in JsonKinds, c \in Starts(u)
      PROVE  t = u
  <2>1. /\ Quote # OpenBrace /\ Quote # "[" /\ OpenBrace # "["
        /\ Quote \notin {"null", "true", "false", "0", "1"}
        /\ OpenBrace \notin {"null", "true", "false", "0", "1"}
    BY MarksDiffer
  <2>2. c \in Starts(t)
    OBVIOUS
  <2>3. CASE c \in {"null", "true", "false", "0", "1", "["}
    BY <1>1, <1>4, <2>1, <2>2, <2>3 DEF JsonKinds
  <2>4. CASE c = Quote
    BY <1>1, <1>4, <2>1, <2>2, <2>4 DEF JsonKinds
  <2>5. CASE c = OpenBrace
    BY <1>1, <1>4, <2>1, <2>2, <2>5 DEF JsonKinds
  <2>6. QED
    BY <1>1, <2>2, <2>3, <2>4, <2>5 DEF JsonKinds
<1>5. QED
  BY <1>2, <1>3, <1>4

\* A text that can be written, and begins as a value of its kind does.
Begun(text, t) == text \in Text /\ text # << >> /\ text[1] \in Starts(t)

Texted(d) ==
  \A v \in JsValues[d] : ~ThrownAt[d][v] => v.t \in JsonKinds /\ Begun(TextAt[d][v], v.t)

\* However the texts go on, the values can be told and their texts end where they do.
Told(d) ==
  \A v, w \in JsValues[d], x, y \in Text :
    ~ThrownAt[d][v] /\ ~ThrownAt[d][w] /\ Cat(TextAt[d][v], x) = Cat(TextAt[d][w], y) =>
      JsonAt[d][v] = JsonAt[d][w] /\ TextAt[d][v] = TextAt[d][w] /\ x = y

\* The JSON value determines the text.
Determined(d) ==
  \A v, w \in JsValues[d] :
    ~ThrownAt[d][v] /\ ~ThrownAt[d][w] /\ JsonAt[d][v] = JsonAt[d][w] => TextAt[d][v] = TextAt[d][w]

LEMMA NotThrown ==
  ASSUME NEW d \in 1 .. MaxDepth, NEW v \in JsValues[d], ~ThrownAt[d][v]
  PROVE  /\ v.t \in JsonKinds
         /\ v.t = "number" => v.text \in {<<"0">>, <<"-0">>, <<"1">>}
         /\ v.t # "object" => \A i \in 1 .. Len(v.items) : ~ThrownAt[d - 1][v.items[i]]
         /\ \A i \in Present(v) : i \in 1 .. Len(v.items) /\ ~ThrownAt[d - 1][v.items[i]]
<1>1. ~ThrowsOn(v, OfMembers(ThrownAt, d, v))
  BY Unfold
<1>2. v.t \in JsonKinds
  BY <1>1, ValueIs DEF ThrowsOn, Kinds, JsonKinds
<1>3. v.t = "number" => v.text \in {<<"0">>, <<"-0">>, <<"1">>}
  <2>1. v.t = "number" => v.text[1] \notin NotFinite /\ v.text \in {<<n>> : n \in Numerals}
    BY <1>1, ValueIs DEF ThrowsOn
  <2>2. ASSUME v.t = "number"
        PROVE  v.text \in {<<"0">>, <<"-0">>, <<"1">>}
    <3>1. PICK n \in Numerals : v.text = <<n>>
      BY <2>1, <2>2
    <3>2. <<n>>[1] = n
      OBVIOUS
    <3>3. n \notin NotFinite
      BY <2>1, <2>2, <3>1, <3>2
    <3>4. QED
      BY <3>1, <3>3 DEF Numerals
  <2>3. QED
    BY <2>2
<1>4. \A i \in 1 .. Len(v.items) :
        (v.t = "object" => v.items[i].t # "undefined") => ~ThrownAt[d - 1][v.items[i]]
  BY <1>1, MembersAre DEF ThrowsOn
<1>5. \A i \in Present(v) : i \in 1 .. Len(v.items) /\ v.items[i].t # "undefined"
  BY MembersAre DEF Present
<1>6. QED
  BY <1>2, <1>3, <1>4, <1>5

\* Arrays.
LEMMA ArrayText ==
  ASSUME NEW d \in 1 .. MaxDepth, Texted(d - 1), NEW v \in JsValues[d], ~ThrownAt[d][v],
         v.t = "array"
  PROVE  /\ TextAt[d][v] = Brackets("[", OfMembers(TextAt, d, v), "]")
         /\ OfMembers(TextAt, d, v) \in Seq(Text)
         /\ Len(OfMembers(TextAt, d, v)) = Len(v.items)
         /\ StartsUnlike(OfMembers(TextAt, d, v), "]")
<1> DEFINE ts == OfMembers(TextAt, d, v)
           N == Len(v.items)
<1>1. SerializeAs(v, ts) = (<<"[">> \o Joined(ts)) \o <<"]">>
  BY DEF SerializeAs
<1>2. TextAt[d][v] = Brackets("[", ts, "]")
  BY <1>1, Unfold DEF Brackets, Cat, One
<1>3. N \in Nat /\ DOMAIN ts = 1 .. N
      /\ \A i \in 1 .. N : ts[i] = TextAt[d - 1][v.items[i]] /\ v.items[i] \in JsValues[d - 1]
  BY MembersAre
<1>4. ASSUME NEW i \in 1 .. N
      PROVE  ts[i] \in Text /\ ts[i] # << >> /\ ts[i][1] # "]"
  <2> DEFINE w == v.items[i]
  <2>1. w \in JsValues[d - 1] /\ ~ThrownAt[d - 1][w] /\ ts[i] = TextAt[d - 1][w]
    BY <1>3, NotThrown
  <2> HIDE DEF w, ts
  <2>2. w.t \in JsonKinds /\ Begun(ts[i], w.t)
    BY <2>1 DEF Texted
  <2>3. QED
    BY <2>2, StartsDiffer DEF Begun
<1>5. ts = [i \in 1 .. N |-> ts[i]]
  BY <1>3 DEF OfMembers
<1> HIDE DEF ts, N
<1>6. ts \in [1 .. N -> Text]
  BY <1>4, <1>5
<1>7. ts \in Seq(Text) /\ Len(ts) = N
  BY <1>3, <1>6
<1>8. StartsUnlike(ts, "]")
  BY <1>4, <1>7 DEF StartsUnlike
<1>9. QED
  BY <1>2, <1>7, <1>8 DEF ts, N

\* Objects.
NameText(name, text) == Cat(Cat(SerializeString(name), One(":")), text)

MemberOf(d, v, name) == v.items[Position(v, name)]

MemberTexts(d, v) ==
  [n \in 1 .. Len(SortedNames(v)) |->
     NameText(SortedNames(v)[n], TextAt[d - 1][MemberOf(d, v, SortedNames(v)[n])])]

LEMMA NameTextIs ==
  ASSUME NEW name \in Seq(Chars), NEW text \in Text
  PROVE  /\ NameText(name, text) \in Text /\ NameText(name, text) # << >>
         /\ NameText(name, text)[1] = Quote
         /\ \A x \in Text :
              Cat(NameText(name, text), x)
                = Cat(SerializeString(name), Cat(One(":"), Cat(text, x)))
<1> DEFINE s == SerializeString(name)
           c == One(":")
<1>1. s \in Text /\ s # << >> /\ s[1] = Quote /\ c \in Text
  BY StringText, Alphabet, OneIs
<1> HIDE DEF s, c
<1>2. Cat(s, c) \in Text /\ Cat(Cat(s, c), text) \in Text
  BY <1>1, CatText
<1>3. Cat(s, c) # << >> /\ Cat(s, c)[1] = Quote
  BY <1>1, CatFirst
<1>4. Cat(Cat(s, c), text) # << >> /\ Cat(Cat(s, c), text)[1] = Quote
  BY <1>2, <1>3, CatFirst
<1>5. ASSUME NEW x \in Text
      PROVE  Cat(Cat(Cat(s, c), text), x) = Cat(s, Cat(c, Cat(text, x)))
  <2>1. Cat(text, x) \in Text
    BY CatText
  <2>2. Cat(Cat(Cat(s, c), text), x) = Cat(Cat(s, c), Cat(text, x))
    BY <1>2, CatAssoc
  <2>3. Cat(Cat(s, c), Cat(text, x)) = Cat(s, Cat(c, Cat(text, x)))
    BY <1>1, <2>1, CatAssoc
  <2>4. QED
    BY <2>2, <2>3
<1>6. QED
  BY <1>2, <1>4, <1>5 DEF NameText, s, c

\* Two members whose texts begin alike have the same name, and their values' texts begin
\* alike.
LEMMA NameTextParsed ==
  ASSUME NEW name \in Seq(Chars), NEW text \in Text, NEW x \in Text,
         NEW other \in Seq(Chars), NEW its \in Text, NEW y \in Text,
         Cat(NameText(name, text), x) = Cat(NameText(other, its), y)
  PROVE  name = other /\ Cat(text, x) = Cat(its, y)
<1> DEFINE c == One(":")
           a == Cat(text, x)
           b == Cat(its, y)
<1>1. c \in Text /\ a \in Text /\ b \in Text
  BY Alphabet, OneIs, CatText
<1>2. Cat(SerializeString(name), Cat(c, a)) = Cat(SerializeString(other), Cat(c, b))
  BY NameTextIs
<1> HIDE DEF a, b, c
<1>3. Cat(c, a) \in Text /\ Cat(c, b) \in Text
  BY <1>1, CatText
<1>4. name = other /\ Cat(c, a) = Cat(c, b)
  BY <1>2, <1>3, StringsUnambiguous
<1>5. a = b
  BY <1>1, <1>4, CatCancel
<1>6. QED
  BY <1>4, <1>5 DEF a, b

LEMMA MemberIs ==
  ASSUME NEW d \in 1 .. MaxDepth, Texted(d - 1), NEW v \in JsValues[d], ~ThrownAt[d][v],
         NEW name \in Names(v)
  PROVE  /\ name \in Seq(Chars) /\ MemberOf(d, v, name) \in JsValues[d - 1]
         /\ ~ThrownAt[d - 1][MemberOf(d, v, name)]
         /\ TextAt[d - 1][MemberOf(d, v, name)] \in Text
         /\ Position(v, name) \in Present(v) /\ v.keys[Position(v, name)] = name
<1> DEFINE i == Position(v, name)
           w == v.items[i]
<1>1. i \in Present(v) /\ v.keys[i] = name /\ name \in Seq(Chars)
  BY NamesAre
<1>2. i \in 1 .. Len(v.items) /\ ~ThrownAt[d - 1][w]
  BY <1>1, NotThrown
<1>3. w \in JsValues[d - 1]
  BY <1>2, MembersAre
<1> HIDE DEF w
<1>4. TextAt[d - 1][w] \in Text
  BY <1>2, <1>3 DEF Texted, Begun
<1>5. QED
  BY <1>1, <1>2, <1>3, <1>4 DEF w, MemberOf

LEMMA ObjectText ==
  ASSUME NEW d \in 1 .. MaxDepth, Texted(d - 1), NEW v \in JsValues[d], ~ThrownAt[d][v],
         v.t = "object"
  PROVE  /\ TextAt[d][v] = Brackets(OpenBrace, MemberTexts(d, v), CloseBrace)
         /\ MemberTexts(d, v) \in Seq(Text)
         /\ Len(MemberTexts(d, v)) = Len(SortedNames(v))
         /\ StartsUnlike(MemberTexts(d, v), CloseBrace)
<1> DEFINE below == OfMembers(TextAt, d, v)
           names == SortedNames(v)
           N == Len(names)
           ts == MemberTexts(d, v)
<1>1. SerializeAs(v, below) =
        (<<OpenBrace>> \o Joined([n \in 1 .. N |-> Member(v, below, names[n])])) \o <<CloseBrace>>
  BY DEF SerializeAs
<1>2. N \in Nat /\ \A n \in 1 .. N : names[n] \in Names(v)
  BY SortedNamesAre
<1>3. \A n \in 1 .. N : Member(v, below, names[n]) = ts[n]
  <2> SUFFICES ASSUME NEW n \in 1 .. N
               PROVE  Member(v, below, names[n]) = ts[n]
    OBVIOUS
  <2> DEFINE i == Position(v, names[n])
  <2>1. i \in 1 .. Len(v.items)
    BY <1>2, NamesAre, NotThrown
  <2>2. below[i] = TextAt[d - 1][v.items[i]]
    BY <2>1, MembersAre
  <2>3. ts[n] = NameText(names[n], TextAt[d - 1][v.items[i]])
    BY DEF MemberTexts, MemberOf
  <2>4. Member(v, below, names[n]) = NameText(names[n], below[i])
    BY DEF Member, NameText, Cat, One
  <2>5. QED
    BY <2>2, <2>3, <2>4
<1>4. ts = [n \in 1 .. N |-> ts[n]]
  BY DEF MemberTexts
<1>5. [n \in 1 .. N |-> Member(v, below, names[n])] = ts
  <2> HIDE DEF ts
  <2>1. QED
    BY <1>3, <1>4
<1>6. TextAt[d][v] = Brackets(OpenBrace, ts, CloseBrace)
  <2> HIDE DEF ts, below, names
  <2>1. SerializeAs(v, below) = Brackets(OpenBrace, ts, CloseBrace)
    BY <1>1, <1>5 DEF Brackets, Cat, One
  <2>2. QED
    BY <2>1, Unfold DEF below
<1>7. ASSUME NEW n \in 1 .. N
      PROVE  ts[n] \in Text /\ ts[n] # << >> /\ ts[n][1] # CloseBrace
  <2> DEFINE name == names[n]
             text == TextAt[d - 1][MemberOf(d, v, name)]
  <2>1. ts[n] = NameText(name, text)
    BY DEF MemberTexts
  <2>2. name \in Seq(Chars) /\ text \in Text
    BY <1>2, MemberIs
  <2> HIDE DEF name, text, ts
  <2>3. ts[n] \in Text /\ ts[n] # << >> /\ ts[n][1] = Quote
    BY <2>1, <2>2, NameTextIs
  <2>4. QED
    BY <2>3, MarksDiffer
<1> HIDE DEF ts, names
<1>8. ts \in [1 .. N -> Text]
  BY <1>4, <1>7
<1>9. ts \in Seq(Text) /\ Len(ts) = N
  BY <1>2, <1>8
<1>10. StartsUnlike(ts, CloseBrace)
  BY <1>7, <1>9 DEF StartsUnlike
<1>11. QED
  BY <1>6, <1>9, <1>10 DEF ts, names

\* The rest.
LEMMA ScalarText ==
  ASSUME NEW d \in 1 .. MaxDepth, NEW v \in JsValues[d], ~ThrownAt[d][v]
  PROVE  /\ v.t = "null" => TextAt[d][v] = One("null") /\ v.text = << >>
         /\ v.t = "boolean" => /\ TextAt[d][v] = v.text
                               /\ \E c \in {"true", "false"} : v.text = One(c)
         /\ v.t = "number" => /\ TextAt[d][v] = SerializeNumber(v.text)
                              /\ \E c \in {"0", "1"} : SerializeNumber(v.text) = One(c)
         /\ v.t = "string" => TextAt[d][v] = SerializeString(v.text) /\ v.text \in Seq(Chars)
<1>1. TextAt[d][v] = SerializeAs(v, OfMembers(TextAt, d, v))
  BY Unfold
<1>2. v.t = "null" => TextAt[d][v] = One("null") /\ v.text = << >>
  BY <1>1, ValueIs DEF SerializeAs, One
<1>3. ASSUME v.t = "boolean"
      PROVE  TextAt[d][v] = v.text /\ \E c \in {"true", "false"} : v.text = One(c)
  <2>1. v.text \in {<<"true">>, <<"false">>}
    BY <1>3, ValueIs
  <2>2. QED
    BY <1>1, <1>3, <2>1 DEF SerializeAs, One
<1>4. ASSUME v.t = "number"
      PROVE  /\ TextAt[d][v] = SerializeNumber(v.text)
             /\ \E c \in {"0", "1"} : SerializeNumber(v.text) = One(c)
  <2>1. v.text \in {<<"0">>, <<"-0">>, <<"1">>}
    BY <1>4, NotThrown
  <2>2. <<"0">> # <<"-0">> /\ <<"1">> # <<"-0">>
    <3>1. <<"0">>[1] = "0" /\ <<"1">>[1] = "1" /\ <<"-0">>[1] = "-0"
      OBVIOUS
    <3>2. QED
      BY <3>1
  <2>3. \E c \in {"0", "1"} : SerializeNumber(v.text) = One(c)
    BY <2>1, <2>2 DEF SerializeNumber, One
  <2>4. TextAt[d][v] = SerializeNumber(v.text)
    BY <1>1, <1>4 DEF SerializeAs
  <2>5. QED
    BY <2>3, <2>4
<1>5. v.t = "string" => TextAt[d][v] = SerializeString(v.text) /\ v.text \in Seq(Chars)
  BY <1>1, ValueIs DEF SerializeAs
<1>6. QED
  BY <1>2, <1>3, <1>4, <1>5

-----------------------------------------------------------------------------
(* From d - 1 levels to d.                                                 *)

MemberJsons(d, v) == {<<name, JsonAt[d - 1][MemberOf(d, v, name)]>> : name \in Names(v)}

\* The JSON value, in terms of the members by name.
LEMMA JsonIs ==
  ASSUME NEW d \in 1 .. MaxDepth, NEW v \in JsValues[d]
  PROVE  /\ JsonAt[d][v] = [t |-> v.t,
                            text |-> IF v.t = "number" THEN SerializeNumber(v.text) ELSE v.text,
                            elements |-> IF v.t = "array" THEN OfMembers(JsonAt, d, v) ELSE << >>,
                            members |-> MemberJsons(d, v)]
         /\ v.t # "object" => MemberJsons(d, v) = {}
<1> DEFINE jsons == OfMembers(JsonAt, d, v)
<1>1. JsonAt[d][v] = JsonAs(v, jsons)
  BY Unfold
<1>2. {<<v.keys[i], jsons[i]>> : i \in Present(v)} = MemberJsons(d, v)
  <2>1. \A i \in Present(v) : jsons[i] = JsonAt[d - 1][v.items[i]]
    <3>1. \A i \in Present(v) : i \in 1 .. Len(v.items)
      BY MembersAre DEF Present
    <3>2. QED
      BY <3>1, MembersAre
  <2>2. \A i \in Present(v) : v.keys[i] \in Names(v) /\ MemberOf(d, v, v.keys[i]) = v.items[i]
    BY NamesAre DEF MemberOf
  <2>3. \A name \in Names(v) : Position(v, name) \in Present(v) /\ v.keys[Position(v, name)] = name
    BY NamesAre
  <2>4. \A name \in Names(v) : MemberOf(d, v, name) = v.items[Position(v, name)]
    BY DEF MemberOf
  <2> HIDE DEF jsons
  <2>5. ASSUME NEW i \in Present(v)
        PROVE  <<v.keys[i], jsons[i]>> \in MemberJsons(d, v)
    BY <2>1, <2>2 DEF MemberJsons
  <2>6. ASSUME NEW name \in Names(v)
        PROVE  <<name, JsonAt[d - 1][MemberOf(d, v, name)]>> \in {<<v.keys[i], jsons[i]>> : i \in Present(v)}
    BY <2>1, <2>3, <2>4
  <2>7. QED
    BY <2>5, <2>6 DEF MemberJsons
<1>3. JsonAs(v, jsons) = [t |-> v.t,
                          text |-> IF v.t = "number" THEN SerializeNumber(v.text) ELSE v.text,
                          elements |-> IF v.t = "array" THEN jsons ELSE << >>,
                          members |-> {<<v.keys[i], jsons[i]>> : i \in Present(v)}]
  BY DEF JsonAs, Present
<1>4. ASSUME v.t # "object"
      PROVE  MemberJsons(d, v) = {}
  <2>1. Present(v) = {}
    BY <1>4, MembersAre DEF Present
  <2>2. QED
    BY <1>2, <2>1
<1>5. QED
  BY <1>1, <1>2, <1>3, <1>4

\* One level up: a text is not empty and begins as its type does.
LEMMA TextedUp ==
  ASSUME NEW d \in 1 .. MaxDepth, Texted(d - 1)
  PROVE  Texted(d)
<1> SUFFICES ASSUME NEW v \in JsValues[d], ~ThrownAt[d][v]
             PROVE  v.t \in JsonKinds /\ Begun(TextAt[d][v], v.t)
  BY DEF Texted
<1>1. v.t \in JsonKinds
  BY NotThrown
<1>2. Starts("null") = {"null"} /\ Starts("boolean") = {"true", "false"} /\ Starts("number") = {"0", "1"}
      /\ Starts("string") = {Quote} /\ Starts("array") = {"["} /\ Starts("object") = {OpenBrace}
  BY DEF Starts
<1>3. CASE v.t \in {"null", "boolean", "number"}
  <2>1. \E c \in Starts(v.t) : TextAt[d][v] = One(c)
    BY <1>2, <1>3, ScalarText
  <2>2. PICK c \in Starts(v.t) : TextAt[d][v] = One(c)
    BY <2>1
  <2>3. c \in Letters
    BY <1>1, StartsDiffer
  <2>4. QED
    BY <1>1, <2>2, <2>3, OneIs DEF Begun
<1>4. CASE v.t = "string"
  BY <1>1, <1>2, <1>4, ScalarText, StringText DEF Begun
<1>5. ASSUME NEW o \in Letters, NEW c \in Letters, NEW ts \in Seq(Text), Starts(v.t) = {o},
             TextAt[d][v] = Brackets(o, ts, c)
      PROVE  Begun(TextAt[d][v], v.t)
  <2> DEFINE j == Joined(ts)
  <2>1. j \in Text
    BY JoinedTyped
  <2>2. TextAt[d][v] = Cat(Cat(One(o), j), One(c))
    BY <1>5 DEF Brackets
  <2> HIDE DEF j
  <2>3. TextAt[d][v] \in Text /\ TextAt[d][v] # << >> /\ TextAt[d][v][1] = o
    BY <2>1, <2>2, BracketsAre
  <2>4. QED
    BY <1>5, <2>3 DEF Begun
<1>6. CASE v.t = "array"
  <2>1. "[" \in Letters /\ "]" \in Letters
    BY Alphabet
  <2>2. QED
    BY <1>1, <1>2, <1>5, <1>6, <2>1, ArrayText
<1>7. CASE v.t = "object"
  <2>1. OpenBrace \in Letters /\ CloseBrace \in Letters
    BY Alphabet
  <2>2. QED
    BY <1>1, <1>2, <1>5, <1>7, <2>1, ObjectText
<1>8. QED
  BY <1>1, <1>3, <1>4, <1>6, <1>7 DEF JsonKinds

\* Two arrays whose texts begin alike.
LEMMA ArraysTold ==
  ASSUME NEW d \in 1 .. MaxDepth, Texted(d - 1), Told(d - 1),
         NEW v \in JsValues[d], ~ThrownAt[d][v], v.t = "array",
         NEW w \in JsValues[d], ~ThrownAt[d][w], w.t = "array",
         NEW x \in Text, NEW y \in Text, Cat(TextAt[d][v], x) = Cat(TextAt[d][w], y)
  PROVE  JsonAt[d][v] = JsonAt[d][w] /\ TextAt[d][v] = TextAt[d][w] /\ x = y
<1> DEFINE ts == OfMembers(TextAt, d, v)
           us == OfMembers(TextAt, d, w)
           N == Len(v.items)
           M == Len(w.items)
<1>1. /\ ts \in Seq(Text) /\ Len(ts) = N /\ StartsUnlike(ts, "]")
      /\ us \in Seq(Text) /\ Len(us) = M /\ StartsUnlike(us, "]")
      /\ TextAt[d][v] = Brackets("[", ts, "]") /\ TextAt[d][w] = Brackets("[", us, "]")
  BY ArrayText
<1>2. /\ N \in Nat /\ M \in Nat
      /\ \A i \in 1 .. N : /\ ts[i] = TextAt[d - 1][v.items[i]] /\ v.items[i] \in JsValues[d - 1]
                           /\ ~ThrownAt[d - 1][v.items[i]]
      /\ \A i \in 1 .. M : /\ us[i] = TextAt[d - 1][w.items[i]] /\ w.items[i] \in JsValues[d - 1]
                           /\ ~ThrownAt[d - 1][w.items[i]]
  BY MembersAre, NotThrown
<1> HIDE DEF ts, us, N, M
<1>3. ASSUME NEW i \in 1 .. N, i \in 1 .. M, NEW a \in Text, NEW b \in Text,
             Cat(ts[i], a) = Cat(us[i], b)
      PROVE  ts[i] = us[i] /\ a = b /\ JsonAt[d - 1][v.items[i]] = JsonAt[d - 1][w.items[i]]
  BY <1>2, <1>3 DEF Told
<1>4. Separable(ts, us)
  <2> SUFFICES ASSUME NEW i \in 1 .. Len(ts), i <= Len(us), NEW a \in Text, NEW b \in Text,
                      Cat(ts[i], a) = Cat(us[i], b)
               PROVE  ts[i] = us[i] /\ a = b
    BY DEF Separable
  <2>1. i \in 1 .. N /\ i \in 1 .. M
    BY <1>1, <1>2
  <2>2. QED
    BY <1>3, <2>1
<1>5. "[" \in Letters /\ "]" \in Letters /\ "]" # Comma
  BY Alphabet, MarksDiffer
<1>6. ts = us /\ x = y
  BY <1>1, <1>4, <1>5, BracketsParsed
<1>7. N = M
  BY <1>1, <1>6
<1>8. \A i \in 1 .. N : JsonAt[d - 1][v.items[i]] = JsonAt[d - 1][w.items[i]]
  <2> SUFFICES ASSUME NEW i \in 1 .. N
               PROVE  JsonAt[d - 1][v.items[i]] = JsonAt[d - 1][w.items[i]]
    OBVIOUS
  <2>1. i \in 1 .. M /\ Cat(ts[i], x) = Cat(us[i], x)
    BY <1>6, <1>7
  <2>2. QED
    BY <1>3, <2>1
<1>9. OfMembers(JsonAt, d, v) = OfMembers(JsonAt, d, w)
  <2>1. DOMAIN v.items = 1 .. N /\ DOMAIN w.items = 1 .. N
    BY <1>7, MembersAre DEF N, M
  <2>2. QED
    BY <1>8, <2>1 DEF OfMembers
<1>10. v.text = << >> /\ w.text = << >>
  BY ValueIs
<1>11. JsonAt[d][v] = JsonAt[d][w]
  BY <1>9, <1>10, JsonIs
<1>12. QED
  BY <1>1, <1>6, <1>11

\* Two objects whose texts begin alike.
LEMMA ObjectsTold ==
  ASSUME NEW d \in 1 .. MaxDepth, Texted(d - 1), Told(d - 1),
         NEW v \in JsValues[d], ~ThrownAt[d][v], v.t = "object",
         NEW w \in JsValues[d], ~ThrownAt[d][w], w.t = "object",
         NEW x \in Text, NEW y \in Text, Cat(TextAt[d][v], x) = Cat(TextAt[d][w], y)
  PROVE  JsonAt[d][v] = JsonAt[d][w] /\ TextAt[d][v] = TextAt[d][w] /\ x = y
<1> DEFINE ts == MemberTexts(d, v)
           us == MemberTexts(d, w)
           ns == SortedNames(v)
           ms == SortedNames(w)
           N == Len(ns)
           M == Len(ms)
<1>1. /\ ts \in Seq(Text) /\ Len(ts) = N /\ StartsUnlike(ts, CloseBrace)
      /\ us \in Seq(Text) /\ Len(us) = M /\ StartsUnlike(us, CloseBrace)
      /\ TextAt[d][v] = Brackets(OpenBrace, ts, CloseBrace)
      /\ TextAt[d][w] = Brackets(OpenBrace, us, CloseBrace)
  BY ObjectText
<1>2. /\ N \in Nat /\ M \in Nat
      /\ \A i \in 1 .. N : ns[i] \in Names(v)
      /\ \A i \in 1 .. M : ms[i] \in Names(w)
      /\ \A name \in Names(v) : \E i \in 1 .. N : ns[i] = name
      /\ \A name \in Names(w) : \E i \in 1 .. M : ms[i] = name
  BY SortedNamesAre
<1>3. /\ \A i \in 1 .. N : ts[i] = NameText(ns[i], TextAt[d - 1][MemberOf(d, v, ns[i])])
      /\ \A i \in 1 .. M : us[i] = NameText(ms[i], TextAt[d - 1][MemberOf(d, w, ms[i])])
  BY DEF MemberTexts
<1>4. /\ \A name \in Names(v) : /\ name \in Seq(Chars) /\ MemberOf(d, v, name) \in JsValues[d - 1]
                                /\ ~ThrownAt[d - 1][MemberOf(d, v, name)]
                                /\ TextAt[d - 1][MemberOf(d, v, name)] \in Text
      /\ \A name \in Names(w) : /\ name \in Seq(Chars) /\ MemberOf(d, w, name) \in JsValues[d - 1]
                                /\ ~ThrownAt[d - 1][MemberOf(d, w, name)]
                                /\ TextAt[d - 1][MemberOf(d, w, name)] \in Text
  BY MemberIs
<1> HIDE DEF ts, us, ns, ms, N, M
<1>5. ASSUME NEW i \in 1 .. N, i \in 1 .. M, NEW a \in Text, NEW b \in Text,
             Cat(ts[i], a) = Cat(us[i], b)
      PROVE  /\ ts[i] = us[i] /\ a = b /\ ns[i] = ms[i]
             /\ JsonAt[d - 1][MemberOf(d, v, ns[i])] = JsonAt[d - 1][MemberOf(d, w, ms[i])]
  <2> DEFINE n == ns[i]
             m == ms[i]
             p == MemberOf(d, v, n)
             q == MemberOf(d, w, m)
             t == TextAt[d - 1][p]
             u == TextAt[d - 1][q]
  <2>1. n \in Names(v) /\ m \in Names(w)
    BY <1>2, <1>5
  <2>2. /\ n \in Seq(Chars) /\ m \in Seq(Chars) /\ p \in JsValues[d - 1] /\ q \in JsValues[d - 1]
        /\ ~ThrownAt[d - 1][p] /\ ~ThrownAt[d - 1][q] /\ t \in Text /\ u \in Text
    BY <1>4, <2>1
  <2>3. ts[i] = NameText(n, t) /\ us[i] = NameText(m, u)
    BY <1>3, <1>5
  <2> HIDE DEF n, m
  <2>4. Cat(NameText(n, t), a) = Cat(NameText(m, u), b)
    BY <1>5, <2>3
  <2>5. n = m /\ Cat(t, a) = Cat(u, b)
    <3> HIDE DEF t, u
    <3>1. QED
      BY <2>2, <2>4, NameTextParsed
  <2> HIDE DEF p, q
  <2>6. JsonAt[d - 1][p] = JsonAt[d - 1][q] /\ t = u /\ a = b
    BY <2>2, <2>5 DEF Told
  <2>7. QED
    BY <2>3, <2>5, <2>6 DEF n, m, p, q
<1>6. Separable(ts, us)
  <2> SUFFICES ASSUME NEW i \in 1 .. Len(ts), i <= Len(us), NEW a \in Text, NEW b \in Text,
                      Cat(ts[i], a) = Cat(us[i], b)
               PROVE  ts[i] = us[i] /\ a = b
    BY DEF Separable
  <2>1. i \in 1 .. N /\ i \in 1 .. M
    BY <1>1, <1>2
  <2>2. QED
    BY <1>5, <2>1
<1>7. OpenBrace \in Letters /\ CloseBrace \in Letters /\ CloseBrace # Comma
  BY Alphabet, MarksDiffer
<1>8. ts = us /\ x = y
  BY <1>1, <1>6, <1>7, BracketsParsed
<1>9. N = M
  BY <1>1, <1>8
<1>10. ASSUME NEW i \in 1 .. N
       PROVE  ns[i] = ms[i] /\ JsonAt[d - 1][MemberOf(d, v, ns[i])] = JsonAt[d - 1][MemberOf(d, w, ms[i])]
  <2>1. i \in 1 .. M /\ Cat(ts[i], x) = Cat(us[i], x)
    BY <1>8, <1>9
  <2>2. QED
    BY <1>5, <2>1
<1>11. Names(v) = Names(w)
  <2>1. \A name \in Names(v) : name \in Names(w)
    BY <1>2, <1>9, <1>10
  <2>2. \A name \in Names(w) : name \in Names(v)
    BY <1>2, <1>9, <1>10
  <2>3. QED
    BY <2>1, <2>2
<1>12. \A name \in Names(v) : JsonAt[d - 1][MemberOf(d, v, name)] = JsonAt[d - 1][MemberOf(d, w, name)]
  BY <1>2, <1>10
<1>13. MemberJsons(d, v) = MemberJsons(d, w)
  BY <1>11, <1>12 DEF MemberJsons
<1>14. v.text = << >> /\ w.text = << >>
  BY ValueIs
<1>15. JsonAt[d][v] = JsonAt[d][w]
  BY <1>13, <1>14, JsonIs
<1>16. QED
  BY <1>1, <1>8, <1>15

JsonText(v) == IF v.t = "number" THEN SerializeNumber(v.text) ELSE v.text

\* When two values are the same JSON value.
LEMMA SameJson ==
  ASSUME NEW d \in 1 .. MaxDepth, NEW v \in JsValues[d], NEW w \in JsValues[d]
  PROVE  JsonAt[d][v] = JsonAt[d][w] <=>
           /\ v.t = w.t /\ JsonText(v) = JsonText(w) /\ MemberJsons(d, v) = MemberJsons(d, w)
           /\ v.t = "array" => OfMembers(JsonAt, d, v) = OfMembers(JsonAt, d, w)
<1> DEFINE J(u) == [t |-> u.t, text |-> JsonText(u),
                    elements |-> IF u.t = "array" THEN OfMembers(JsonAt, d, u) ELSE << >>,
                    members |-> MemberJsons(d, u)]
<1>1. JsonAt[d][v] = J(v) /\ JsonAt[d][w] = J(w)
  BY JsonIs DEF JsonText
<1>2. ASSUME NEW a, NEW b
      PROVE  J(a) = J(b) <=>
               /\ a.t = b.t /\ JsonText(a) = JsonText(b) /\ MemberJsons(d, a) = MemberJsons(d, b)
               /\ a.t = "array" => OfMembers(JsonAt, d, a) = OfMembers(JsonAt, d, b)
  <2>1. ASSUME J(a) = J(b)
        PROVE  /\ a.t = b.t /\ JsonText(a) = JsonText(b) /\ MemberJsons(d, a) = MemberJsons(d, b)
               /\ a.t = "array" => OfMembers(JsonAt, d, a) = OfMembers(JsonAt, d, b)
    <3>1. J(a).t = J(b).t /\ J(a).text = J(b).text /\ J(a).elements = J(b).elements
          /\ J(a).members = J(b).members
      BY <2>1
    <3>2. QED
      BY <3>1
  <2>2. QED
    BY <2>1
<1> HIDE DEF J
<1>3. QED
  BY <1>1, <1>2

\* Without members.
LEMMA FewJsons ==
  ASSUME NEW d \in 1 .. MaxDepth, NEW v \in JsValues[d], NEW w \in JsValues[d],
         v.t = w.t, v.t \notin {"array", "object"}, JsonText(v) = JsonText(w)
  PROVE  JsonAt[d][v] = JsonAt[d][w]
<1>1. v.t # "object" /\ w.t # "object" /\ v.t # "array"
  OBVIOUS
<1>2. MemberJsons(d, v) = {} /\ MemberJsons(d, w) = {}
  BY <1>1, JsonIs
<1>3. MemberJsons(d, v) = MemberJsons(d, w)
  BY <1>2
<1>4. QED
  BY <1>1, <1>3, SameJson

\* One level up: texts tell values.
LEMMA ToldUp ==
  ASSUME NEW d \in 1 .. MaxDepth, Texted(d - 1), Told(d - 1)
  PROVE  Told(d)
<1> SUFFICES ASSUME NEW v \in JsValues[d], ~ThrownAt[d][v], NEW w \in JsValues[d], ~ThrownAt[d][w],
                    NEW x \in Text, NEW y \in Text, Cat(TextAt[d][v], x) = Cat(TextAt[d][w], y)
             PROVE  JsonAt[d][v] = JsonAt[d][w] /\ TextAt[d][v] = TextAt[d][w] /\ x = y
  BY DEF Told
<1> DEFINE s == TextAt[d][v]
           t == TextAt[d][w]
<1>1. v.t \in JsonKinds /\ w.t \in JsonKinds /\ Begun(s, v.t) /\ Begun(t, w.t)
  BY TextedUp DEF Texted
<1>2. Cat(s, x) = Cat(t, y)
  OBVIOUS
<1>3. s[1] = t[1]
  <2> HIDE DEF s, t
  <2>1. Cat(s, x)[1] = s[1] /\ Cat(t, y)[1] = t[1]
    BY <1>1, CatFirst DEF Begun
  <2>2. QED
    BY <1>2, <2>1
<1>4. v.t = w.t
  BY <1>1, <1>3, StartsDiffer DEF Begun
<1>5. CASE v.t \in {"null", "boolean", "number"}
  <2>1. \E c \in Starts(v.t) : s = One(c)
    BY <1>5, ScalarText DEF Starts
  <2>2. \E c \in Starts(w.t) : t = One(c)
    BY <1>4, <1>5, ScalarText DEF Starts
  <2>3. PICK c \in Starts(v.t) : s = One(c)
    BY <2>1
  <2>4. PICK e \in Starts(w.t) : t = One(e)
    BY <2>2
  <2>5. c \in Letters /\ e \in Letters
    BY <1>1, StartsDiffer
  <2>6. s = t
    BY <1>3, <2>3, <2>4, <2>5, OneIs
  <2> HIDE DEF s, t
  <2>7. x = y
    BY <1>1, <1>2, <2>6, CatCancel DEF Begun
  <2>8. /\ v.t = "null" => v.text = w.text
        /\ v.t = "boolean" => v.text = w.text
        /\ v.t = "number" => SerializeNumber(v.text) = SerializeNumber(w.text)
    BY <1>4, <2>6, ScalarText DEF s, t
  <2>9. JsonAt[d][v] = JsonAt[d][w]
    <3>1. JsonText(v) = JsonText(w)
      BY <1>4, <1>5, <2>8 DEF JsonText
    <3>2. v.t = w.t /\ v.t \notin {"array", "object"}
      BY <1>4, <1>5
    <3>3. QED
      BY <3>1, <3>2, FewJsons
  <2>10. QED
    BY <2>6, <2>7, <2>9 DEF s, t
<1>6. CASE v.t = "string"
  <2>1. /\ s = SerializeString(v.text) /\ v.text \in Seq(Chars)
        /\ t = SerializeString(w.text) /\ w.text \in Seq(Chars)
    BY <1>4, <1>6, ScalarText
  <2> HIDE DEF s, t
  <2>2. v.text = w.text /\ x = y
    BY <1>2, <2>1, StringsUnambiguous
  <2>3. JsonAt[d][v] = JsonAt[d][w]
    <3>1. JsonText(v) = JsonText(w)
      BY <1>4, <1>6, <2>2 DEF JsonText
    <3>2. v.t = w.t /\ v.t \notin {"array", "object"}
      BY <1>4, <1>6
    <3>3. QED
      BY <3>1, <3>2, FewJsons
  <2>4. QED
    BY <2>1, <2>2, <2>3 DEF s, t
<1>7. CASE v.t = "array"
  <2>1. w.t = "array"
    BY <1>4, <1>7
  <2> HIDE DEF s, t
  <2>2. QED
    BY <1>7, <2>1, ArraysTold
<1>8. CASE v.t = "object"
  <2>1. w.t = "object"
    BY <1>4, <1>8
  <2> HIDE DEF s, t
  <2>2. QED
    BY <1>8, <2>1, ObjectsTold
<1>9. QED
  BY <1>1, <1>5, <1>6, <1>7, <1>8 DEF JsonKinds

\* One level up: values have one text.
LEMMA DeterminedUp ==
  ASSUME NEW d \in 1 .. MaxDepth, Texted(d - 1), Determined(d - 1)
  PROVE  Determined(d)
<1> SUFFICES ASSUME NEW v \in JsValues[d], ~ThrownAt[d][v], NEW w \in JsValues[d], ~ThrownAt[d][w],
                    JsonAt[d][v] = JsonAt[d][w]
             PROVE  TextAt[d][v] = TextAt[d][w]
  BY DEF Determined
<1>1. /\ v.t = w.t /\ v.t \in JsonKinds
      /\ v.t = "number" => SerializeNumber(v.text) = SerializeNumber(w.text)
      /\ v.t # "number" => v.text = w.text
      /\ v.t = "array" => OfMembers(JsonAt, d, v) = OfMembers(JsonAt, d, w)
      /\ MemberJsons(d, v) = MemberJsons(d, w)
  <2>1. /\ v.t = w.t /\ JsonText(v) = JsonText(w) /\ MemberJsons(d, v) = MemberJsons(d, w)
        /\ v.t = "array" => OfMembers(JsonAt, d, v) = OfMembers(JsonAt, d, w)
    BY SameJson
  <2>2. v.t \in JsonKinds
    BY NotThrown
  <2>3. QED
    BY <2>1, <2>2 DEF JsonText
<1>2. CASE v.t \in {"null", "boolean", "number", "string"}
  BY <1>1, <1>2, ScalarText
<1>3. CASE v.t = "array"
  <2> DEFINE ts == OfMembers(TextAt, d, v)
             us == OfMembers(TextAt, d, w)
             N == Len(v.items)
             M == Len(w.items)
             js == OfMembers(JsonAt, d, v)
             ks == OfMembers(JsonAt, d, w)
  <2>1. /\ TextAt[d][v] = Brackets("[", ts, "]") /\ ts \in Seq(Text) /\ Len(ts) = N
        /\ TextAt[d][w] = Brackets("[", us, "]") /\ us \in Seq(Text) /\ Len(us) = M
    BY <1>1, <1>3, ArrayText
  <2>2. /\ N \in Nat /\ M \in Nat /\ DOMAIN js = 1 .. N /\ DOMAIN ks = 1 .. M
        /\ \A i \in 1 .. N : /\ ts[i] = TextAt[d - 1][v.items[i]] /\ v.items[i] \in JsValues[d - 1]
                             /\ ~ThrownAt[d - 1][v.items[i]] /\ js[i] = JsonAt[d - 1][v.items[i]]
        /\ \A i \in 1 .. M : /\ us[i] = TextAt[d - 1][w.items[i]] /\ w.items[i] \in JsValues[d - 1]
                             /\ ~ThrownAt[d - 1][w.items[i]] /\ ks[i] = JsonAt[d - 1][w.items[i]]
    <3>1. v.t # "object" /\ w.t # "object"
      BY <1>1, <1>3
    <3>2. /\ \A i \in 1 .. N : ~ThrownAt[d - 1][v.items[i]]
          /\ \A i \in 1 .. M : ~ThrownAt[d - 1][w.items[i]]
      BY <3>1, NotThrown
    <3>3. /\ N \in Nat /\ M \in Nat /\ DOMAIN js = 1 .. N /\ DOMAIN ks = 1 .. M
          /\ \A i \in 1 .. N : /\ ts[i] = TextAt[d - 1][v.items[i]] /\ v.items[i] \in JsValues[d - 1]
                               /\ js[i] = JsonAt[d - 1][v.items[i]]
          /\ \A i \in 1 .. M : /\ us[i] = TextAt[d - 1][w.items[i]] /\ w.items[i] \in JsValues[d - 1]
                               /\ ks[i] = JsonAt[d - 1][w.items[i]]
      <4>1. /\ N \in Nat /\ DOMAIN js = 1 .. N
            /\ \A i \in 1 .. N : v.items[i] \in JsValues[d - 1] /\ js[i] = JsonAt[d - 1][v.items[i]]
        BY MembersAre
      <4>2. /\ M \in Nat /\ DOMAIN ks = 1 .. M
            /\ \A i \in 1 .. M : w.items[i] \in JsValues[d - 1] /\ ks[i] = JsonAt[d - 1][w.items[i]]
        BY MembersAre
      <4>3. \A i \in 1 .. N : ts[i] = TextAt[d - 1][v.items[i]]
        BY MembersAre
      <4>4. \A i \in 1 .. M : us[i] = TextAt[d - 1][w.items[i]]
        BY MembersAre
      <4> HIDE DEF N, M, ts, us, js, ks
      <4>5. QED
        BY <4>1, <4>2, <4>3, <4>4
    <3> HIDE DEF N, M, ts, us, js, ks
    <3>4. QED
      BY <3>2, <3>3
  <2>3. js = ks
    BY <1>1, <1>3
  <2> HIDE DEF ts, us, N, M, js, ks
  <2>4. N = M
    <3>1. 1 .. N = 1 .. M
      BY <2>2, <2>3
    <3>2. N < M => M \in 1 .. M /\ M \notin 1 .. N
      BY <2>2
    <3>3. M < N => N \in 1 .. N /\ N \notin 1 .. M
      BY <2>2
    <3>4. QED
      BY <2>2, <3>1, <3>2, <3>3
  <2>5. ASSUME NEW i \in 1 .. N
        PROVE  ts[i] = us[i]
    <3>1. i \in 1 .. M
      BY <2>4
    <3>2. QED
      BY <2>2, <2>3, <3>1 DEF Determined
  <2>6. ts = us
    BY <2>1, <2>4, <2>5, SeqEqual
  <2>7. QED
    BY <2>1, <2>6
<1>4. CASE v.t = "object"
  <2>1. Names(v) = {p[1] : p \in MemberJsons(d, v)} /\ Names(w) = {p[1] : p \in MemberJsons(d, w)}
    <3>1. \A u : Names(u) = {p[1] : p \in MemberJsons(d, u)}
      <4> SUFFICES ASSUME NEW u
                   PROVE  Names(u) = {p[1] : p \in MemberJsons(d, u)}
        OBVIOUS
      <4>1. \A name \in Names(u) : \E p \in MemberJsons(d, u) : p[1] = name
        <5> SUFFICES ASSUME NEW name \in Names(u)
                     PROVE  \E p \in MemberJsons(d, u) : p[1] = name
          OBVIOUS
        <5> DEFINE p == <<name, JsonAt[d - 1][MemberOf(d, u, name)]>>
        <5>1. p \in MemberJsons(d, u)
          BY DEF MemberJsons
        <5>2. p[1] = name
          OBVIOUS
        <5> HIDE DEF p
        <5>3. QED
          BY <5>1, <5>2
      <4>2. \A p \in MemberJsons(d, u) : p[1] \in Names(u)
        BY DEF MemberJsons
      <4>3. QED
        BY <4>1, <4>2
    <3>2. QED
      BY <3>1
  <2>2. Names(v) = Names(w)
    BY <1>1, <2>1
  <2>3. SortedNames(v) = SortedNames(w)
    BY <2>2 DEF SortedNames
  <2>4. ASSUME NEW name \in Names(v)
        PROVE  TextAt[d - 1][MemberOf(d, v, name)] = TextAt[d - 1][MemberOf(d, w, name)]
    <3> DEFINE p == MemberOf(d, v, name)
               q == MemberOf(d, w, name)
    <3>1. /\ p \in JsValues[d - 1] /\ ~ThrownAt[d - 1][p]
          /\ q \in JsValues[d - 1] /\ ~ThrownAt[d - 1][q]
      BY <2>2, MemberIs
    <3>2. <<name, JsonAt[d - 1][p]>> \in MemberJsons(d, w)
      BY <1>1 DEF MemberJsons
    <3>3. PICK other \in Names(w) :
            <<name, JsonAt[d - 1][p]>> = <<other, JsonAt[d - 1][MemberOf(d, w, other)]>>
      BY <3>2 DEF MemberJsons
    <3>4. JsonAt[d - 1][p] = JsonAt[d - 1][q]
      BY <3>3
    <3> HIDE DEF p, q
    <3>5. TextAt[d - 1][p] = TextAt[d - 1][q]
      BY <3>1, <3>4 DEF Determined
    <3>6. QED
      BY <3>5 DEF p, q
  <2>5. \A n \in 1 .. Len(SortedNames(v)) : SortedNames(v)[n] \in Names(v)
    BY SortedNamesAre
  <2>6. MemberTexts(d, v) = MemberTexts(d, w)
    BY <2>3, <2>4, <2>5 DEF MemberTexts
  <2>7. QED
    BY <1>1, <1>4, <2>6, ObjectText
<1>5. QED
  BY <1>1, <1>2, <1>3, <1>4 DEF JsonKinds

LEMMA AllLevels == \A d \in 0 .. MaxDepth : Texted(d) /\ Told(d) /\ Determined(d)
<1> DEFINE T == {d \in 0 .. MaxDepth : Texted(d) /\ Told(d) /\ Determined(d)}
<1>1. MaxDepth \in Nat
  BY CanonicalAssumption
<1>2. 0 \in T
  BY <1>1, JsValuesIs DEF Texted, Told, Determined
<1>3. ASSUME NEW d \in 0 .. MaxDepth - 1, d \in T
      PROVE  d + 1 \in T
  <2> DEFINE e == d + 1
  <2>1. e \in 1 .. MaxDepth /\ e \in 0 .. MaxDepth /\ e - 1 = d
    BY <1>1
  <2>2. Texted(e - 1) /\ Told(e - 1) /\ Determined(e - 1)
    BY <1>3, <2>1
  <2> HIDE DEF e
  <2>3. Texted(e) /\ Told(e) /\ Determined(e)
    BY <2>1, <2>2, TextedUp, ToldUp, DeterminedUp
  <2>4. QED
    BY <2>1, <2>3 DEF e
<1>4. \A d \in 0 .. MaxDepth : d \in T
  <2> HIDE DEF T
  <2>1. QED
    BY <1>1, <1>2, <1>3, CountUp
<1>5. QED
  BY <1>4

\* hash.ts:1-27: on values of any depth, two have the same canonical text exactly if they
\* are the same JSON value.
THEOREM TextsIdentify ==
  \A v, w \in JsValues[MaxDepth] :
    ~Throws(v) /\ ~Throws(w) => (JsonValue(v) = JsonValue(w) <=> Serialize(v) = Serialize(w))
<1> DEFINE d == MaxDepth
<1>1. Texted(d) /\ Told(d) /\ Determined(d)
  <2>1. MaxDepth \in 0 .. MaxDepth
    BY CanonicalAssumption
  <2>2. QED
    BY <2>1, AllLevels
<1> SUFFICES ASSUME NEW v \in JsValues[d], NEW w \in JsValues[d], ~ThrownAt[d][v], ~ThrownAt[d][w]
             PROVE  JsonAt[d][v] = JsonAt[d][w] <=> TextAt[d][v] = TextAt[d][w]
  BY OnTop
<1>2. << >> \in Text
  BY DEF Text
<1>3. TextAt[d][v] = TextAt[d][w] => Cat(TextAt[d][v], << >>) = Cat(TextAt[d][w], << >>)
  OBVIOUS
<1> HIDE DEF d
<1>4. QED
  BY <1>1, <1>2, <1>3 DEF Told, Determined

-----------------------------------------------------------------------------
(* JSON.parse(JSON.stringify(v)).                                          *)

Made(d, v) ==
  /\ v = Js(v.t, v.text, v.keys, v.items) /\ v.t \in Kinds
  /\ v.t = "boolean" => v.text \in {<<"true">>, <<"false">>}
  /\ v.t = "number" => \E n \in Numerals : v.text = <<n>>
  /\ v.t = "string" => v.text \in Seq(Chars)
  /\ v.t \notin {"boolean", "number", "string"} => v.text = << >>
  /\ v.keys \in Seq(Seq(Chars)) /\ v.items \in Seq(JsValues[d - 1])
  /\ IF v.t = "object" THEN Len(v.keys) = Len(v.items) ELSE v.keys = << >>
  /\ \A i, j \in DOMAIN v.keys : v.keys[i] = v.keys[j] => i = j
  /\ v.t \notin {"array", "object"} => v.items = << >>

LEMMA ValueMade ==
  ASSUME NEW d \in 1 .. MaxDepth, NEW v, Made(d, v)
  PROVE  v \in JsValues[d]
<1> DEFINE Tokens == Chars \cup Numerals \cup {"true", "false"}
           text == v.text
<1>2. text \in Seq(Tokens)
  <2>1. CASE v.t = "boolean"
    <3>1. "true" \in Tokens /\ "false" \in Tokens /\ text \in {<<"true">>, <<"false">>}
      BY <2>1 DEF Made
    <3> HIDE DEF Tokens, text
    <3>2. CASE text = <<"true">>
      BY <3>1, <3>2
    <3>3. CASE text = <<"false">>
      BY <3>1, <3>3
    <3>4. QED
      BY <3>1, <3>2, <3>3
  <2>2. CASE v.t = "number"
    <3>1. PICK n \in Numerals : text = <<n>>
      BY <2>2 DEF Made
    <3>2. n \in Tokens
      OBVIOUS
    <3> HIDE DEF Tokens, text
    <3>3. QED
      BY <3>1, <3>2
  <2>3. CASE v.t = "string"
    <3>1. text \in Seq(Chars) /\ \A c \in Chars : c \in Tokens
      BY <2>3 DEF Made
    <3> HIDE DEF Tokens, text
    <3>2. /\ text = [i \in 1 .. Len(text) |-> text[i]] /\ Len(text) \in Nat
          /\ \A i \in 1 .. Len(text) : text[i] \in Chars
      BY <3>1
    <3>3. text \in [1 .. Len(text) -> Tokens]
      BY <3>1, <3>2
    <3>4. QED
      BY <3>2, <3>3
  <2>4. CASE v.t \notin {"boolean", "number", "string"}
    <3>1. text = << >>
      BY <2>4 DEF Made
    <3> HIDE DEF Tokens, text
    <3>2. << >> \in Seq(Tokens)
      OBVIOUS
    <3>3. QED
      BY <3>1, <3>2
  <2>5. QED
    BY <2>1, <2>2, <2>3, <2>4
<1>3. v \in [t : Kinds, text : Seq(Tokens), keys : Seq(Seq(Chars)), items : Seq(JsValues[d - 1])]
  BY <1>2 DEF Js, Made
<1>4. WellFormed(v)
  <2>1. /\ IF v.t = "object" THEN Len(v.keys) = Len(v.items) ELSE v.keys = << >>
        /\ \A i, j \in DOMAIN v.keys : v.keys[i] = v.keys[j] => i = j
        /\ v.t \notin {"array", "object"} => v.items = << >>
    BY DEF Made
  <2>2. CASE v.t = "boolean"
    BY <2>1, <2>2 DEF WellFormed, Made
  <2>3. CASE v.t = "number"
    <3>1. v.text \in {<<n>> : n \in Numerals}
      BY <2>3 DEF Made
    <3>2. QED
      BY <2>1, <2>3, <3>1 DEF WellFormed
  <2>4. CASE v.t = "string"
    BY <2>1, <2>4 DEF WellFormed, Made
  <2>5. CASE v.t \notin {"boolean", "number", "string"}
    BY <2>1, <2>5 DEF WellFormed, Made
  <2>6. QED
    BY <2>2, <2>3, <2>4, <2>5
<1>5. v \in LevelOf(JsValues[d - 1])
  BY <1>3, <1>4 DEF LevelOf, Kinds
<1>6. QED
  BY <1>5, JsValuesIs

LEMMA NullIs ==
  ASSUME NEW d \in 1 .. MaxDepth
  PROVE  Null \in JsValues[d] /\ ~ThrownAt[d][Null] /\ ~NotWritten(Null) /\ CloneAt[d][Null] = Null
<1>1. /\ Null.t = "null" /\ Null.items = << >> /\ Null.keys = << >> /\ Null.text = << >>
      /\ Null = Js("null", << >>, << >>, << >>)
  BY DEF Null, Bare, Js
<1>2. Null \in JsValues[d]
  <2>1. "null" \in Kinds /\ << >> \in Seq(Seq(Chars)) /\ << >> \in Seq(JsValues[d - 1])
    BY DEF Kinds
  <2>2. Made(d, Null)
    <3>1. Null = Js(Null.t, Null.text, Null.keys, Null.items)
      BY <1>1
    <3>2. QED
      BY <1>1, <2>1, <3>1 DEF Made
  <2>3. QED
    BY <2>2, ValueMade
<1>3. ~ThrownAt[d][Null]
  <2>1. DOMAIN Null.items = {}
    BY <1>1
  <2>2. ~ThrowsOn(Null, OfMembers(ThrownAt, d, Null))
    BY <1>1, <2>1 DEF ThrowsOn
  <2>3. QED
    BY <1>2, <2>2, Unfold
<1>4. CloneAt[d][Null] = Null
  BY <1>1, <1>2, Unfold DEF CloneAs
<1>5. QED
  BY <1>1, <1>2, <1>3, <1>4 DEF NotWritten

\* What the clone c of v is.
Cloned(d, v, c) ==
  /\ c \in JsValues[d] /\ ~ThrownAt[d][c] /\ ~NotWritten(c)
  /\ CloneAt[d][c] = c
  /\ ~ThrownAt[d][v] => JsonAt[d][c] = JsonAt[d][v]

Clones(d) ==
  \A v \in JsValues[d] : ClonableAt[d][v] /\ ~NotWritten(v) => Cloned(d, v, CloneAt[d][v])

LEMMA ClonableMembers ==
  ASSUME NEW d \in 1 .. MaxDepth, NEW v \in JsValues[d], ClonableAt[d][v]
  PROVE  v.t # "bigint" /\ \A i \in 1 .. Len(v.items) : ClonableAt[d - 1][v.items[i]]
<1>1. ClonableIf(v, OfMembers(ClonableAt, d, v))
  BY Unfold
<1>2. QED
  BY <1>1, MembersAre DEF ClonableIf

LEMMA PlainCloned ==
  ASSUME NEW d \in 1 .. MaxDepth, NEW v \in JsValues[d], v.t \in {"null", "boolean", "string"}
  PROVE  Cloned(d, v, CloneAt[d][v])
<1>1. CloneAt[d][v] = v
  BY Unfold DEF CloneAs
<1>2. ~ThrownAt[d][v]
  <2>1. DOMAIN v.items = {}
    BY ValueIs
  <2>2. ~ThrowsOn(v, OfMembers(ThrownAt, d, v))
    BY <2>1 DEF ThrowsOn
  <2>3. QED
    BY <2>2, Unfold
<1>3. QED
  BY <1>1, <1>2 DEF Cloned, NotWritten

LEMMA NumberCloned ==
  ASSUME NEW d \in 1 .. MaxDepth, NEW v \in JsValues[d], v.t = "number"
  PROVE  Cloned(d, v, CloneAt[d][v])
<1> DEFINE text == SerializeNumber(v.text)
           c == Js("number", text, << >>, << >>)
<1>1. CloneAt[d][v] = IF v.text[1] \in NotFinite THEN Null ELSE c
  BY Unfold DEF CloneAs
<1>2. PICK n \in Numerals : v.text = <<n>>
  BY ValueIs
<1>3. v.text[1] = n
  BY <1>2
<1>4. CASE n \in NotFinite
  <2>1. ThrownAt[d][v]
    BY <1>3, <1>4, Unfold DEF ThrowsOn
  <2>2. QED
    BY <1>1, <1>3, <1>4, <2>1, NullIs DEF Cloned
<1>5. CASE n \notin NotFinite
  <2>1. n \in {"0", "-0", "1"}
    BY <1>5 DEF Numerals
  <2>2. <<"0">> # <<"-0">> /\ <<"1">> # <<"-0">>
    <3>1. <<"0">>[1] = "0" /\ <<"1">>[1] = "1" /\ <<"-0">>[1] = "-0"
      OBVIOUS
    <3>2. QED
      BY <3>1
  <2>3. text \in {<<"0">>, <<"1">>} /\ SerializeNumber(text) = text
    BY <1>2, <2>1, <2>2 DEF SerializeNumber
  <2>4. text[1] \in {"0", "1"}
    BY <2>3
  <2>5. text[1] \notin NotFinite /\ \E m \in Numerals : text = <<m>>
    BY <2>3, <2>4 DEF NotFinite, Numerals
  <2> HIDE DEF text
  <2>6. c.t = "number" /\ c.text = text /\ c.keys = << >> /\ c.items = << >>
    BY DEF Js
  <2>7. c \in JsValues[d]
    <3>1. "number" \in Kinds /\ << >> \in Seq(Seq(Chars)) /\ << >> \in Seq(JsValues[d - 1])
      BY DEF Kinds
    <3>2. c = Js(c.t, c.text, c.keys, c.items)
      BY <2>6
    <3> HIDE DEF c
    <3>3. Made(d, c)
      BY <2>5, <2>6, <3>1, <3>2 DEF Made
    <3>4. QED
      BY <3>3, ValueMade
  <2>8. CloneAt[d][v] = c
    BY <1>1, <1>3, <1>5
  <2>9. CloneAt[d][c] = c
    <3>1. CloneAs(c, OfMembers(CloneAt, d, c)) = Js("number", SerializeNumber(c.text), << >>, << >>)
      BY <2>5, <2>6 DEF CloneAs
    <3>2. Js("number", SerializeNumber(c.text), << >>, << >>) = c
      BY <2>3, <2>6
    <3> HIDE DEF c
    <3>3. QED
      BY <2>7, <3>1, <3>2, Unfold
  <2> HIDE DEF c
  <2>10. ~ThrownAt[d][c]
    <3>1. DOMAIN c.items = {}
      BY <2>6
    <3>2. ~ThrowsOn(c, OfMembers(ThrownAt, d, c))
      BY <2>5, <2>6, <3>1 DEF ThrowsOn
    <3>3. QED
      BY <2>7, <3>2, Unfold
  <2>11. JsonAt[d][c] = JsonAt[d][v]
    <3>1. JsonText(c) = JsonText(v)
      BY <2>3, <2>6 DEF JsonText, text
    <3>2. c.t = v.t /\ c.t \notin {"array", "object"}
      BY <2>6
    <3>3. QED
      BY <2>7, <3>1, <3>2, FewJsons
  <2>12. QED
    BY <2>6, <2>7, <2>8, <2>9, <2>10, <2>11 DEF Cloned, NotWritten
<1>6. QED
  BY <1>4, <1>5

\* The clone of an array has null for what is not written.
LEMMA ArrayCloned ==
  ASSUME NEW d \in 1 .. MaxDepth, Clones(d - 1), NEW v \in JsValues[d], ClonableAt[d][v],
         v.t = "array"
  PROVE  Cloned(d, v, CloneAt[d][v])
<1> DEFINE N == Len(v.items)
           its == [i \in 1 .. N |-> IF NotWritten(v.items[i]) THEN Null ELSE CloneAt[d - 1][v.items[i]]]
           c == Array(its)
<1>1. /\ N \in Nat
      /\ \A i \in 1 .. N : /\ v.items[i] \in JsValues[d - 1]
                           /\ ClonableAt[d - 1][v.items[i]]
                           /\ OfMembers(CloneAt, d, v)[i] = CloneAt[d - 1][v.items[i]]
  BY MembersAre, ClonableMembers
<1>2. CloneAt[d][v] = c
  <2>1. CloneAs(v, OfMembers(CloneAt, d, v)) =
          Array([i \in 1 .. N |-> IF NotWritten(v.items[i]) THEN Null ELSE OfMembers(CloneAt, d, v)[i]])
    BY DEF CloneAs
  <2>2. [i \in 1 .. N |-> IF NotWritten(v.items[i]) THEN Null ELSE OfMembers(CloneAt, d, v)[i]] = its
    BY <1>1
  <2> HIDE DEF its
  <2>3. QED
    BY <2>1, <2>2, Unfold
<1>3. ASSUME NEW i \in 1 .. N
      PROVE  /\ its[i] \in JsValues[d - 1] /\ ~ThrownAt[d - 1][its[i]] /\ ~NotWritten(its[i])
             /\ CloneAt[d - 1][its[i]] = its[i]
             /\ (~ThrownAt[d - 1][v.items[i]] /\ ~NotWritten(v.items[i])) =>
                  JsonAt[d - 1][its[i]] = JsonAt[d - 1][v.items[i]]
  <2> DEFINE w == v.items[i]
  <2>1. w \in JsValues[d - 1] /\ ClonableAt[d - 1][w] /\ its[i] = IF NotWritten(w) THEN Null ELSE CloneAt[d - 1][w]
    BY <1>1
  <2>2. d - 1 \in 1 .. MaxDepth
    <3>1. d - 1 \in 0 .. MaxDepth
      BY ValueIs
    <3>2. d - 1 # 0
      BY <2>1, JsValuesIs
    <3>3. QED
      BY <3>1, <3>2
  <2> HIDE DEF w, its
  <2>3. CASE NotWritten(w)
    BY <2>1, <2>2, <2>3, NullIs DEF w
  <2>4. CASE ~NotWritten(w)
    BY <2>1, <2>4 DEF Clones, Cloned, w
  <2>5. QED
    BY <2>3, <2>4
<1>4. its \in Seq(JsValues[d - 1]) /\ Len(its) = N /\ DOMAIN its = 1 .. N
  <2>1. its = [i \in 1 .. N |-> its[i]]
    OBVIOUS
  <2> HIDE DEF its
  <2>2. its \in [1 .. N -> JsValues[d - 1]]
    BY <1>3, <2>1
  <2> HIDE DEF N
  <2>3. QED
    BY <1>1, <2>2
<1> HIDE DEF its
<1>5. c.t = "array" /\ c.text = << >> /\ c.keys = << >> /\ c.items = its /\ c = Js("array", << >>, << >>, its)
  BY DEF Array, Js
<1>6. c \in JsValues[d]
  <2>1. "array" \in Kinds /\ << >> \in Seq(Seq(Chars))
    BY DEF Kinds
  <2>2. QED
    <3>1. c = Js(c.t, c.text, c.keys, c.items)
      BY <1>5
    <3> HIDE DEF c
    <3>2. Made(d, c)
      BY <1>4, <1>5, <2>1, <3>1 DEF Made
    <3>3. QED
      BY <3>2, ValueMade
<1>13. Array(c.items) = c
  BY <1>5
<1> HIDE DEF c, N
<1>7. ~ThrownAt[d][c]
  <2>1. \A i \in 1 .. N : ~OfMembers(ThrownAt, d, c)[i]
    BY <1>3, <1>4, <1>5, <1>6, MembersAre
  <2>2. ~ThrowsOn(c, OfMembers(ThrownAt, d, c))
    BY <1>4, <1>5, <2>1 DEF ThrowsOn
  <2>3. QED
    BY <1>6, <2>2, Unfold
<1>8. CloneAt[d][c] = c
  <2>1. CloneAs(c, OfMembers(CloneAt, d, c)) =
          Array([i \in 1 .. Len(c.items) |-> IF NotWritten(c.items[i]) THEN Null ELSE OfMembers(CloneAt, d, c)[i]])
    BY <1>5 DEF CloneAs
  <2>2. \A i \in 1 .. N : ~NotWritten(c.items[i]) /\ OfMembers(CloneAt, d, c)[i] = c.items[i]
    BY <1>3, <1>4, <1>5, <1>6, MembersAre
  <2>3. Len(c.items) = N /\ c.items = [i \in 1 .. N |-> c.items[i]]
    BY <1>4, <1>5
  <2>4. [i \in 1 .. Len(c.items) |-> IF NotWritten(c.items[i]) THEN Null ELSE OfMembers(CloneAt, d, c)[i]] = c.items
    BY <2>2, <2>3
  <2>5. QED
    BY <1>6, <1>13, <2>1, <2>4, Unfold
<1>9. ASSUME ~ThrownAt[d][v]
      PROVE  JsonAt[d][c] = JsonAt[d][v]
  <2>1. \A i \in 1 .. N : ~ThrownAt[d - 1][v.items[i]]
    BY <1>9, NotThrown DEF N
  <2>2. \A i \in 1 .. N : ~NotWritten(v.items[i])
    <3> SUFFICES ASSUME NEW i \in 1 .. N, NotWritten(v.items[i])
                 PROVE  FALSE
      OBVIOUS
    <3> DEFINE w == v.items[i]
    <3>1. w \in JsValues[d - 1] /\ ~ThrownAt[d - 1][w] /\ w.t \in {"undefined", "function"}
      BY <1>1, <2>1 DEF NotWritten
    <3> HIDE DEF w
    <3>2. d - 1 \in 0 .. MaxDepth
      BY ValueIs
    <3>3. w.t \in JsonKinds
      BY <3>1, <3>2, AllLevels DEF Texted
    <3>4. QED
      BY <3>1, <3>3 DEF JsonKinds
  <2>3. \A i \in 1 .. N : JsonAt[d - 1][its[i]] = JsonAt[d - 1][v.items[i]]
    BY <1>3, <2>1, <2>2
  <2>4. OfMembers(JsonAt, d, c) = OfMembers(JsonAt, d, v)
    <3>1. DOMAIN v.items = 1 .. N /\ DOMAIN c.items = 1 .. N
      BY <1>4, <1>5, MembersAre DEF N
    <3>2. QED
      BY <1>5, <2>3, <3>1 DEF OfMembers
  <2>5. MemberJsons(d, c) = {} /\ MemberJsons(d, v) = {}
    BY <1>5, <1>6, JsonIs
  <2>6. JsonText(c) = JsonText(v)
    <3>1. v.text = << >>
      BY ValueIs
    <3>2. QED
      BY <1>5, <3>1 DEF JsonText
  <2>7. MemberJsons(d, c) = MemberJsons(d, v) /\ c.t = v.t
    BY <1>5, <2>5
  <2>8. QED
    BY <1>6, <2>4, <2>6, <2>7, SameJson
<1>10. ~NotWritten(c)
  BY <1>5 DEF NotWritten
<1>11. Cloned(d, v, c)
  BY <1>6, <1>7, <1>8, <1>9, <1>10 DEF Cloned
<1>12. QED
  BY <1>2, <1>11

\* The positions of the members that are cloned.
WrittenAt(v) == {i \in DOMAIN v.keys : ~NotWritten(v.items[i])}

\* Kept lists the positions of the members that are written, each once.
LEMMA KeptAre ==
  ASSUME NEW d \in 1 .. MaxDepth, NEW v \in JsValues[d]
  PROVE  /\ Len(Kept(v)) \in Nat
         /\ \A n \in 1 .. Len(Kept(v)) : Kept(v)[n] \in WrittenAt(v)
         /\ \A i \in WrittenAt(v) : \E n \in 1 .. Len(Kept(v)) : Kept(v)[n] = i
         /\ \A n, k \in 1 .. Len(Kept(v)) : Kept(v)[n] = Kept(v)[k] => n = k
<1> DEFINE kept == WrittenAt(v)
           order == {p \in kept \X kept : p[1] < p[2]}
           s == Sorted(kept, order)
<1>1. Kept(v) = s
  BY DEF Kept, WrittenAt
<1>2. IsFiniteSet(kept) /\ kept \in SUBSET Nat
  <2>1. DOMAIN v.keys = {} \/ DOMAIN v.keys = 1 .. Len(v.items)
    BY MembersAre
  <2>2. Len(v.items) \in Nat
    BY MembersAre
  <2>3. IsFiniteSet(1 .. Len(v.items))
    BY <2>2, FS_Interval
  <2>4. kept \in SUBSET (1 .. Len(v.items))
    BY <2>1 DEF WrittenAt
  <2> HIDE DEF kept
  <2>5. IsFiniteSet(kept)
    BY <2>3, <2>4, FS_Subset
  <2>6. kept \in SUBSET Nat
    BY <2>2, <2>4
  <2>7. QED
    BY <2>5, <2>6
<1>3. StrictOrder(order, kept)
  <2> HIDE DEF kept
  <2>1. \A x, y \in kept : <<x, y>> \in order <=> x < y
    OBVIOUS
  <2> HIDE DEF order
  <2>2. QED
    BY <1>2, <2>1 DEF StrictOrder
<1> HIDE DEF kept, order
<1>4. /\ s \in Seq(kept) /\ Len(s) = Cardinality(kept) /\ Cardinality(kept) \in Nat
      /\ \A x \in kept : \E n \in 1 .. Cardinality(kept) : s[n] = x
      /\ \A n, m \in 1 .. Cardinality(kept) : s[n] = s[m] => n = m
  BY <1>2, <1>3, SortedIs
<1> HIDE DEF s
<1>5. \A n \in 1 .. Len(s) : s[n] \in kept
  BY <1>4
<1>6. QED
  BY <1>1, <1>4, <1>5 DEF kept

\* All members of a clone are cloned again, where they are.
LEMMA KeptAll ==
  ASSUME NEW N \in Nat, NEW c, DOMAIN c.keys = 1 .. N, \A i \in 1 .. N : ~NotWritten(c.items[i])
  PROVE  Kept(c) = [n \in 1 .. N |-> n]
<1>1. {i \in DOMAIN c.keys : ~NotWritten(c.items[i])} = 1 .. N
  OBVIOUS
<1>2. Kept(c) = Sorted(1 .. N, {p \in (1 .. N) \X (1 .. N) : p[1] < p[2]})
  BY <1>1 DEF Kept
<1>3. QED
  BY <1>2, SortedInterval

\* The clone of an object has the members that are written, in their order.
LEMMA ObjectCloned ==
  ASSUME NEW d \in 1 .. MaxDepth, Clones(d - 1), NEW v \in JsValues[d], ClonableAt[d][v],
         v.t = "object"
  PROVE  Cloned(d, v, CloneAt[d][v])
<1> DEFINE kept == WrittenAt(v)
           at == Kept(v)
           N == Len(at)
           ks == [n \in 1 .. N |-> v.keys[at[n]]]
           its == [n \in 1 .. N |-> CloneAt[d - 1][v.items[at[n]]]]
           c == Object(ks, its)
<1>1. /\ N \in Nat /\ \A n \in 1 .. N : at[n] \in kept
      /\ \A i \in kept : \E n \in 1 .. N : at[n] = i
      /\ \A n, k \in 1 .. N : at[n] = at[k] => n = k
  BY KeptAre
<1>2. \A i \in kept : /\ i \in DOMAIN v.keys /\ v.keys[i] \in Seq(Chars)
                      /\ i \in 1 .. Len(v.items) /\ v.items[i] \in JsValues[d - 1]
                      /\ ClonableAt[d - 1][v.items[i]] /\ ~NotWritten(v.items[i])
                      /\ OfMembers(CloneAt, d, v)[i] = CloneAt[d - 1][v.items[i]]
  BY MembersAre, ClonableMembers DEF WrittenAt
<1>3. CloneAt[d][v] = c
  <2>1. CloneAs(v, OfMembers(CloneAt, d, v)) =
          Object(ks, [n \in 1 .. N |-> OfMembers(CloneAt, d, v)[at[n]]])
    BY DEF CloneAs
  <2> HIDE DEF kept, at
  <2>2. [n \in 1 .. N |-> OfMembers(CloneAt, d, v)[at[n]]] = its
    BY <1>1, <1>2
  <2> HIDE DEF its, ks
  <2>3. QED
    BY <2>1, <2>2, Unfold
<1> HIDE DEF kept, at
<1>4. ASSUME NEW n \in 1 .. N
      PROVE  /\ ks[n] = v.keys[at[n]] /\ ks[n] \in Seq(Chars)
             /\ its[n] \in JsValues[d - 1] /\ ~ThrownAt[d - 1][its[n]] /\ ~NotWritten(its[n])
             /\ CloneAt[d - 1][its[n]] = its[n]
             /\ ~ThrownAt[d - 1][v.items[at[n]]] =>
                  JsonAt[d - 1][its[n]] = JsonAt[d - 1][v.items[at[n]]]
  <2> DEFINE w == v.items[at[n]]
  <2>1. /\ w \in JsValues[d - 1] /\ ClonableAt[d - 1][w] /\ ~NotWritten(w)
        /\ its[n] = CloneAt[d - 1][w] /\ ks[n] = v.keys[at[n]] /\ ks[n] \in Seq(Chars)
    BY <1>1, <1>2
  <2> HIDE DEF w, its, ks
  <2>2. QED
    BY <2>1 DEF Clones, Cloned, w
<1>5. ks = [n \in 1 .. N |-> ks[n]] /\ its = [n \in 1 .. N |-> its[n]]
  OBVIOUS
<1> HIDE DEF ks, its
<1>6. /\ ks \in Seq(Seq(Chars)) /\ Len(ks) = N /\ DOMAIN ks = 1 .. N
      /\ its \in Seq(JsValues[d - 1]) /\ Len(its) = N /\ DOMAIN its = 1 .. N
  <2>1. ks \in [1 .. N -> Seq(Chars)] /\ its \in [1 .. N -> JsValues[d - 1]]
    BY <1>4, <1>5
  <2> HIDE DEF N
  <2>2. QED
    BY <1>1, <2>1
<1>7. \A n, k \in 1 .. N : ks[n] = ks[k] => n = k
  <2>1. \A i, j \in DOMAIN v.keys : v.keys[i] = v.keys[j] => i = j
    BY ValueIs
  <2>2. QED
    BY <1>1, <1>2, <1>4, <2>1
<1>8. c.t = "object" /\ c.text = << >> /\ c.keys = ks /\ c.items = its /\ Object(c.keys, c.items) = c
      /\ c = Js(c.t, c.text, c.keys, c.items)
  BY DEF Object, Js
<1> HIDE DEF c, N
<1>9. c \in JsValues[d]
  <2>1. "object" \in Kinds
    BY DEF Kinds
  <2>2. Made(d, c)
    BY <1>6, <1>7, <1>8, <2>1 DEF Made
  <2>3. QED
    BY <2>2, ValueMade
<1>10. \A n \in 1 .. N : /\ OfMembers(ThrownAt, d, c)[n] = ThrownAt[d - 1][its[n]]
                         /\ OfMembers(CloneAt, d, c)[n] = CloneAt[d - 1][its[n]]
  BY <1>6, <1>8, <1>9, MembersAre
<1>11. ~ThrownAt[d][c]
  <2>1. ~ThrowsOn(c, OfMembers(ThrownAt, d, c))
    BY <1>4, <1>6, <1>8, <1>10 DEF ThrowsOn
  <2>2. QED
    BY <1>9, <2>1, Unfold
<1>12. CloneAt[d][c] = c
  <2>1. Kept(c) = [n \in 1 .. N |-> n]
    BY <1>1, <1>4, <1>6, <1>8, KeptAll
  <2>2. Len(Kept(c)) = N /\ \A n \in 1 .. N : Kept(c)[n] = n
    BY <1>1, <2>1
  <2>3. CloneAs(c, OfMembers(CloneAt, d, c)) =
          Object([n \in 1 .. Len(Kept(c)) |-> c.keys[Kept(c)[n]]],
                 [n \in 1 .. Len(Kept(c)) |-> OfMembers(CloneAt, d, c)[Kept(c)[n]]])
    BY <1>8 DEF CloneAs
  <2>4. [n \in 1 .. Len(Kept(c)) |-> c.keys[Kept(c)[n]]] = c.keys
    BY <1>5, <1>8, <2>2
  <2>5. [n \in 1 .. Len(Kept(c)) |-> OfMembers(CloneAt, d, c)[Kept(c)[n]]] = c.items
    <3>1. \A n \in 1 .. N : OfMembers(CloneAt, d, c)[Kept(c)[n]] = its[n]
      BY <1>4, <1>10, <2>2
    <3>2. QED
      BY <1>5, <1>8, <2>2, <3>1
  <2>6. QED
    BY <1>8, <1>9, <2>3, <2>4, <2>5, Unfold
<1>13. ASSUME ~ThrownAt[d][v]
       PROVE  JsonAt[d][c] = JsonAt[d][v]
  <2>1. \A i \in Present(v) : i \in 1 .. Len(v.items) /\ ~ThrownAt[d - 1][v.items[i]]
    BY <1>13, NotThrown
  <2>2. Present(v) = kept
    <3>1. \A i \in kept : i \in Present(v)
      BY DEF kept, WrittenAt, Present, NotWritten
    <3>2. ASSUME NEW i \in Present(v)
          PROVE  i \in kept
      <4> DEFINE w == v.items[i]
      <4>1. w \in JsValues[d - 1] /\ ~ThrownAt[d - 1][w]
        BY <2>1, MembersAre
      <4>2. d - 1 \in 0 .. MaxDepth
        BY ValueIs
      <4> HIDE DEF w
      <4>3. w.t \in JsonKinds
        BY <4>1, <4>2, AllLevels DEF Texted
      <4>4. ~NotWritten(w)
        BY <4>3 DEF JsonKinds, NotWritten
      <4>5. QED
        BY <4>4 DEF w, kept, WrittenAt, Present
    <3>3. QED
      BY <3>1, <3>2
  <2>3. Present(c) = 1 .. N
    BY <1>4, <1>6, <1>8 DEF Present, NotWritten
  <2>4. Names(c) = Names(v)
    <3>1. Names(c) = {ks[n] : n \in 1 .. N}
      <4>1. Names(c) = {c.keys[i] : i \in Present(c)}
        BY <1>9, NamesAre
      <4>2. QED
        BY <1>8, <2>3, <4>1
    <3>2. Names(v) = {v.keys[i] : i \in kept}
      BY <2>2, NamesAre
    <3>3. QED
      BY <1>1, <1>4, <3>1, <3>2
  <2>5. ASSUME NEW name \in Names(v)
        PROVE  JsonAt[d - 1][MemberOf(d, c, name)] = JsonAt[d - 1][MemberOf(d, v, name)]
    <3> DEFINE n == Position(c, name)
               i == Position(v, name)
    <3>1. n \in 1 .. N /\ ks[n] = name
      BY <1>8, <1>9, <2>3, <2>4, NamesAre
    <3>2. i \in kept /\ v.keys[i] = name
      BY <2>2, NamesAre
    <3> HIDE DEF n, i
    <3>3. at[n] \in kept /\ v.keys[at[n]] = name
      BY <1>1, <1>4, <3>1
    <3>4. at[n] = i
      BY <1>2, <3>2, <3>3, ValueIs
    <3>5. ~ThrownAt[d - 1][v.items[at[n]]]
      BY <2>1, <2>2, <3>3
    <3>6. JsonAt[d - 1][its[n]] = JsonAt[d - 1][v.items[at[n]]]
      BY <1>4, <3>1, <3>5
    <3>7. QED
      BY <1>8, <3>4, <3>6 DEF MemberOf, n, i
  <2>6. MemberJsons(d, c) = MemberJsons(d, v)
    BY <2>4, <2>5 DEF MemberJsons
  <2>7. JsonText(c) = JsonText(v)
    <3>1. v.text = << >>
      BY ValueIs
    <3>2. QED
      BY <1>8, <3>1 DEF JsonText
  <2>8. c.t = v.t /\ c.t # "array"
    BY <1>8
  <2>9. QED
    BY <1>9, <2>6, <2>7, <2>8, SameJson
<1>14. ~NotWritten(c)
  BY <1>8 DEF NotWritten
<1>15. Cloned(d, v, c)
  BY <1>9, <1>11, <1>12, <1>13, <1>14 DEF Cloned
<1>16. QED
  BY <1>3, <1>15

\* One level up: the clone keeps the JSON value and is its own clone.
LEMMA ClonesUp ==
  ASSUME NEW d \in 1 .. MaxDepth, Clones(d - 1)
  PROVE  Clones(d)
<1> SUFFICES ASSUME NEW v \in JsValues[d], ClonableAt[d][v], ~NotWritten(v)
             PROVE  Cloned(d, v, CloneAt[d][v])
  BY DEF Clones
<1>1. v.t \in {"null", "boolean", "string", "number", "array", "object"}
  BY ValueIs, ClonableMembers DEF Kinds, NotWritten
<1>2. QED
  BY <1>1, PlainCloned, NumberCloned, ArrayCloned, ObjectCloned

LEMMA AllClones == \A d \in 0 .. MaxDepth : Clones(d)
<1> DEFINE T == {d \in 0 .. MaxDepth : Clones(d)}
<1>1. MaxDepth \in Nat
  BY CanonicalAssumption
<1>2. 0 \in T
  BY <1>1, JsValuesIs DEF Clones
<1>3. ASSUME NEW d \in 0 .. MaxDepth - 1, d \in T
      PROVE  d + 1 \in T
  <2>1. d + 1 \in 1 .. MaxDepth /\ d + 1 \in 0 .. MaxDepth /\ (d + 1) - 1 = d
    BY <1>1
  <2>2. Clones((d + 1) - 1)
    BY <1>3, <2>1
  <2>3. Clones(d + 1)
    BY <2>1, <2>2, ClonesUp
  <2>4. QED
    BY <2>1, <2>3
<1>4. \A d \in 0 .. MaxDepth : d \in T
  <2> HIDE DEF T
  <2>1. QED
    BY <1>1, <1>2, <1>3, CountUp
<1>5. QED
  BY <1>4

\* redact.ts:99, audit.ts:127, verify-chain.ts:125: for a value of any depth, its clone is
\* hashed without an error, keeps its hash when it is cloned again, and has the hash of the
\* value where that has one.
THEOREM ClonesKeepHashes == \A v \in JsValues[MaxDepth] : StorageKeepsHash(v)
<1> DEFINE d == MaxDepth
<1> SUFFICES ASSUME NEW v \in JsValues[d], ClonableAt[d][v], ~NotWritten(v)
             PROVE  /\ ~ThrownAt[d][CloneAt[d][v]]
                    /\ TextAt[d][CloneAt[d][CloneAt[d][v]]] = TextAt[d][CloneAt[d][v]]
                    /\ ~ThrownAt[d][v] => TextAt[d][v] = TextAt[d][CloneAt[d][v]]
  BY OnTop DEF StorageKeepsHash
<1>1. Clones(d) /\ Determined(d)
  <2>1. MaxDepth \in 0 .. MaxDepth
    BY CanonicalAssumption
  <2>2. QED
    BY <2>1, AllClones, AllLevels
<1> HIDE DEF d
<1>2. Cloned(d, v, CloneAt[d][v])
  BY <1>1 DEF Clones
<1>3. ~ThrownAt[d][v] => TextAt[d][v] = TextAt[d][CloneAt[d][v]]
  BY <1>1, <1>2 DEF Cloned, Determined
<1>4. QED
  BY <1>2, <1>3 DEF Cloned

-----------------------------------------------------------------------------
(* The reads of the log.                                                   *)

\* What is given as a value is one of the constant's.
LEMMA ValueGiven ==
  ASSUME ReadsInit, given.kind = "value"
  PROVE  given.value \in Values
BY DEF ReadsInit, GivenNone, GivenLog, GivenEvent, GivenValue

\* hash.ts, redact.ts:99, audit.ts:127: no two values share a canonical text, and what is
\* stored keeps the hash of what was signed, as an invariant of the runs' reads.
THEOREM CanonicalReads == ReadsSpec => []CanonicalExact
<1>1. Values \subseteq JsValues[MaxDepth]
  BY CanonicalAssumption
<1>2. Unambiguous
  <2>1. ASSUME NEW v \in Values, NEW w \in Values, ~Throws(v), ~Throws(w)
        PROVE  JsonValue(v) = JsonValue(w) <=> Serialize(v) = Serialize(w)
    BY <1>1, <2>1, TextsIdentify
  <2>2. QED
    BY <2>1 DEF Unambiguous
<1>3. ReadsInit => CanonicalExact
  BY <1>1, <1>2, ValueGiven, ClonesKeepHashes DEF CanonicalExact
<1>4. CanonicalExact /\ [UNCHANGED given]_given => CanonicalExact'
  BY <1>2 DEF CanonicalExact, Unambiguous
<1>5. QED
  BY <1>3, <1>4, PTL DEF ReadsSpec
=============================================================================
