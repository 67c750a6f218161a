------------------------------ MODULE MCRedaction ------------------------------
(***************************************************************************)
(* Values of the constants of Redaction for TLC.                           *)
(***************************************************************************)
EXTENDS Redaction

Id == <<"id">>
Score == <<"reasoning", "osi">>
Payload == <<"payload">>
Token == <<"payload", "token">>
TokenId == <<"payload", "token", "id">>
Note == <<"payload", "note">>
First == <<"paths", "[0]">>

MCPaths ==
  {Id, <<"governance">>, Tier, Evidence, <<"reasoning">>, Score, Payload, Token, TokenId,
   Note, <<"resources">>, <<"paths">>, First}

MCDefaults == {Id, Score}
MCAllowlists ==
  {MCDefaults, MCDefaults \cup {TokenId}, MCDefaults \cup {Note}, MCDefaults \ {Score}}

Text(s) == [is |-> "text", shows |-> s, masked |-> FALSE]
Object == Plain("object")
Nothing == [p \in MCPaths |-> Plain("absent")]

Governances ==
  {[p \in {<<"governance">>, Tier, Evidence} |->
      CASE p = Tier -> t [] p = Evidence -> e [] OTHER -> Object] :
    t \in {Text({}), Text({"secret"}), Plain("blank"), Plain("absent")},
    e \in {Plain("array"), Plain("null"), Plain("absent")}}

Payloads ==
  {[p \in {Payload, Token, TokenId, Note} |->
      CASE p = Payload -> Object [] p = Note -> n [] p = Token -> k
        [] p = TokenId -> IF k = Object THEN Text({"email"}) ELSE Plain("absent")] :
    k \in {Plain("absent"), Plain("null"), Text({}), Object},
    n \in {Text({}), Text({"phone", "card"}), Text({"secret", "email", "ssn"})}}

Touched ==
  {[p \in {<<"paths">>, First} |->
      IF p = First THEN f ELSE Plain("array")] : f \in {Text({}), Text({"ssn"})}}
    \cup {[p \in {<<"paths">>, First} |-> Plain("absent")]}

MCInputs ==
  {m @@ g @@ y @@ t @@ [p \in {<<"reasoning">>} |-> Object] @@ Nothing :
    m \in {[p \in {Id, Score} |-> IF p = Id THEN i ELSE s] :
             i \in {Text({}), Text({"card"})}, s \in {Plain("number"), Plain("nan")}},
    g \in Governances, y \in Payloads, t \in Touched}
=============================================================================
