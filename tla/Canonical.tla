------------------------------- MODULE Canonical -------------------------------
(***************************************************************************)
(* canonicalize (packages/core/src/hash.ts), the text that is hashed and   *)
(* signed, and JSON.parse(JSON.stringify(v)), which an event goes through  *)
(* before (redact.ts) and after it is hashed (audit.ts).                   *)
(*                                                                         *)
(* A JavaScript value is [t, text, keys, items]: its type, the characters  *)
(* of a string or the literal of a number, the member names of an object   *)
(* in the order of insertion, and the members or elements.  A text is a    *)
(* sequence of characters; the property needs those that have a meaning    *)
(* in JSON, a control character of either kind and one that has none.      *)
(***************************************************************************)
EXTENDS Integers, Sequences, FiniteSets

CONSTANTS
  MaxDepth,   \* bound on the levels of a value
  Values      \* the values that are hashed or stored

Quote == "\""
Comma == ","
OpenBrace == "{"
CloseBrace == "}"

Chars == {Quote, "\\", "LF", "US", Comma, "n"}
Code == [c \in Chars |->
           CASE c = "LF" -> 10 [] c = "US" -> 31 [] c = Quote -> 34
             [] c = Comma -> 44 [] c = "\\" -> 92 [] c = "n" -> 110]

\* "1" stands for every other number.
NotFinite == {"NaN", "Infinity"}
Numerals == {"0", "-0", "1"} \cup NotFinite

Js(t, text, keys, items) == [t |-> t, text |-> text, keys |-> keys, items |-> items]

Bare(t) == Js(t, << >>, << >>, << >>)
Null == Bare("null")
Undefined == Bare("undefined")
Literal(t, text) == Js(t, <<text>>, << >>, << >>)
String(s) == Js("string", s, << >>, << >>)
Array(items) == Js("array", << >>, << >>, items)
Object(keys, items) == Js("object", << >>, keys, items)

WellFormed(v) ==
  /\ CASE v.t = "boolean" -> v.text \in {<<"true">>, <<"false">>}
       [] v.t = "number" -> v.text \in {<<n>> : n \in Numerals}
       [] v.t = "string" -> v.text \in Seq(Chars)
       [] OTHER -> v.text = << >>
  /\ IF v.t = "object" THEN Len(v.keys) = Len(v.items) ELSE v.keys = << >>
  /\ \A i, j \in DOMAIN v.keys : v.keys[i] = v.keys[j] => i = j
  /\ v.t \notin {"array", "object"} => v.items = << >>

\* The values of at most d levels.
JsValues[d \in 0 .. MaxDepth] ==
  IF d = 0 THEN {}
  ELSE {v \in [t : {"null", "undefined", "boolean", "number", "bigint", "string",
                    "function", "array", "object"},
               text : Seq(Chars \cup Numerals \cup {"true", "false"}),
               keys : Seq(Seq(Chars)),
               items : Seq(JsValues[d - 1])] : WellFormed(v)}

ASSUME CanonicalAssumption == MaxDepth \in Nat /\ Values \subseteq JsValues[MaxDepth]

-----------------------------------------------------------------------------
(* canonicalize.  An operator on a value and on what has been found of its *)
(* members is followed by the recursion over the levels of a value.        *)

\* It throws on what is not JSON, except for members of an object that are undefined.
ThrowsOn(v, thrown) ==
  \/ v.t \in {"undefined", "bigint", "function"}
  \/ v.t = "number" /\ v.text[1] \in NotFinite
  \/ \E i \in DOMAIN v.items :
       (v.t = "object" => v.items[i].t # "undefined") /\ thrown[i]

Throws(v) ==
  LET throws[d \in 0 .. MaxDepth] ==
        [w \in JsValues[d] |-> ThrowsOn(w, [i \in DOMAIN w.items |-> throws[d - 1][w.items[i]]])]
  IN  throws[MaxDepth][v]

\* Altered: a backslash is passed through.
EscapeQuoteOnly(c) ==
  CASE c = Quote -> <<"\\", c>>
    [] c = "LF" -> <<"\\", "n">>
    [] c = "US" -> <<"\\", "u", "0", "0", "1", "f">>
    [] OTHER -> <<c>>

\* serializeString: the escapes of RFC 8785.
Escape(c) ==
  CASE c \in {Quote, "\\"} -> <<"\\", c>>
    [] c = "LF" -> <<"\\", "n">>
    [] c = "US" -> <<"\\", "u", "0", "0", "1", "f">>
    [] OTHER -> <<c>>

Flatten(texts) ==
  LET upTo[n \in 0 .. Len(texts)] == IF n = 0 THEN << >> ELSE upTo[n - 1] \o texts[n]
  IN  upTo[Len(texts)]

SerializeString(s) ==
  <<Quote>> \o Flatten([i \in 1 .. Len(s) |-> Escape(s[i])]) \o <<Quote>>

SerializeNumber(text) == IF text = <<"-0">> THEN <<"0">> ELSE text

\* The elements of a finite set in an order, which is a set of pairs.
Sorted(S, order) ==
  [n \in 1 .. Cardinality(S) |->
     CHOOSE x \in S : Cardinality({y \in S : <<y, x>> \in order}) = n - 1]

\* Array.prototype.sort on member names: by code unit, a prefix first.
NameLess(s, t) ==
  \/ \E i \in DOMAIN s \cap DOMAIN t :
       /\ Code[s[i]] < Code[t[i]]
       /\ \A j \in 1 .. i - 1 : s[j] = t[j]
  \/ Len(s) < Len(t) /\ \A j \in DOMAIN s : s[j] = t[j]

Names(v) == {v.keys[i] : i \in {j \in DOMAIN v.keys : v.items[j].t # "undefined"}}

SortedNames(v) == Sorted(Names(v), {p \in Names(v) \X Names(v) : NameLess(p[1], p[2])})

Position(v, name) == CHOOSE i \in DOMAIN v.keys : v.keys[i] = name

\* parts.join(',').
Joined(texts) ==
  Flatten([n \in 1 .. Len(texts) |-> IF n = 1 THEN texts[n] ELSE <<Comma>> \o texts[n]])

Member(v, texts, name) == SerializeString(name) \o <<":">> \o texts[Position(v, name)]

SerializeAs(v, texts) ==
  CASE v.t = "null" -> <<"null">>
    [] v.t = "boolean" -> v.text
    [] v.t = "number" -> SerializeNumber(v.text)
    [] v.t = "string" -> SerializeString(v.text)
    [] v.t = "array" -> <<"[">> \o Joined(texts) \o <<"]">>
    [] v.t = "object" ->
         LET names == SortedNames(v)
         IN  <<OpenBrace>> \o Joined([n \in 1 .. Len(names) |-> Member(v, texts, names[n])]) \o <<CloseBrace>>
    [] OTHER -> << >>

Serialize(v) ==
  LET text[d \in 0 .. MaxDepth] ==
        [w \in JsValues[d] |-> SerializeAs(w, [i \in DOMAIN w.items |-> text[d - 1][w.items[i]]])]
  IN  text[MaxDepth][v]

-----------------------------------------------------------------------------
(* JSON.parse(JSON.stringify(v)).                                          *)

ClonableIf(v, clonable) == v.t # "bigint" /\ \A i \in DOMAIN v.items : clonable[i]

Clonable(v) ==
  LET clonable[d \in 0 .. MaxDepth] ==
        [w \in JsValues[d] |-> ClonableIf(w, [i \in DOMAIN w.items |-> clonable[d - 1][w.items[i]]])]
  IN  clonable[MaxDepth][v]

NotWritten(v) == v.t \in {"undefined", "function"}

\* The positions of the members that are written, in their order.
Kept(v) ==
  LET kept == {i \in DOMAIN v.keys : ~NotWritten(v.items[i])}
  IN  Sorted(kept, {p \in kept \X kept : p[1] < p[2]})

CloneAs(v, clones) ==
  CASE v.t = "number" -> IF v.text[1] \in NotFinite THEN Null
                         ELSE Js("number", SerializeNumber(v.text), << >>, << >>)
    [] v.t = "array" ->
         Array([i \in 1 .. Len(v.items) |-> IF NotWritten(v.items[i]) THEN Null ELSE clones[i]])
    [] v.t = "object" ->
         Object([n \in 1 .. Len(Kept(v)) |-> v.keys[Kept(v)[n]]],
                [n \in 1 .. Len(Kept(v)) |-> clones[Kept(v)[n]]])
    [] OTHER -> v

Clone(v) ==
  LET clone[d \in 0 .. MaxDepth] ==
        [w \in JsValues[d] |-> CloneAs(w, [i \in DOMAIN w.items |-> clone[d - 1][w.items[i]]])]
  IN  clone[MaxDepth][v]

-----------------------------------------------------------------------------
(* What is hashed is what is stored, and nothing else has its hash.        *)

\* The JSON value of v: member order, the sign of zero and undefined members do not
\* matter to it.
JsonAs(v, jsons) ==
  [t |-> v.t,
   text |-> IF v.t = "number" THEN SerializeNumber(v.text) ELSE v.text,
   elements |-> IF v.t = "array" THEN jsons ELSE << >>,
   members |-> {<<v.keys[i], jsons[i]>> :
                  i \in {j \in DOMAIN v.keys : v.items[j].t # "undefined"}}]

JsonValue(v) ==
  LET json[d \in 0 .. MaxDepth] ==
        [w \in JsValues[d] |-> JsonAs(w, [i \in DOMAIN w.items |-> json[d - 1][w.items[i]]])]
  IN  json[MaxDepth][v]

\* hash.ts:1-27: two values have the same canonical text exactly if they are the same
\* JSON value: no string, member name or nesting can be mistaken for another one.
Unambiguous ==
  LET read == {<<JsonValue(v), Serialize(v)>> : v \in {w \in Values : ~Throws(w)}}
  IN  \A a, b \in read : a[1] = b[1] <=> a[2] = b[2]

\* redact.ts:99, audit.ts:127, verify-chain.ts:125: whatever the redactor has cloned can
\* be hashed, and has the same hash when it comes back from the database.
StorageKeepsHash(v) ==
  (Clonable(v) /\ ~NotWritten(v)) =>
    /\ ~Throws(Clone(v))
    /\ Serialize(Clone(Clone(v))) = Serialize(Clone(v))
    /\ ~Throws(v) => Serialize(v) = Serialize(Clone(v))
=============================================================================
