----------------------------- MODULE AuditProofs -----------------------------
(***************************************************************************)
(* Theorems about the audit log.  AuditTrail: for any number of processes, *)
(* keys, events and edits.  AuditReads: the projection to AOP loses        *)
(* nothing of any event, pages tile every log, and the walk over parent_id *)
(* returns the descendants of a row, for logs of any size.                 *)
(***************************************************************************)
EXTENDS AuditTrail, AuditReads, FiniteSetTheorems, Induction

-----------------------------------------------------------------------------
(* The key file.                                                           *)

\* While no two starts have found no file, and it was not removed: whoever is about to
\* write is alone and there is no whole file, so a whole file is never replaced.
KeyInv ==
  ~raced =>
    /\ \A p \in Procs : pc[p] \in {"looked", "generated"} => file.state = "absent"
    /\ \A p \in Procs : pc[p] = "truncated" => file.state = "torn"
    /\ \A p, q \in Procs :
         (/\ pc[p] \in {"looked", "generated", "truncated"}
          /\ pc[q] \in {"looked", "generated", "truncated"}) => p = q
    /\ \A p \in Procs :
         pc[p] \in {"written", "up"} => file.state = "whole" /\ held[p] = file.key

\* A whole file stays, with its key.
FileKept ==
  (~raced' /\ file.state = "whole") => file'.state = "whole" /\ file'.key = file.key

KeyAction ==
  (\E p \in Procs : KeyStep(p) \/ Ends(p)) \/ FileRemoved \/ ModeChanged

\* Each step of a start, and what it does to the process that takes it.
LEMMA LookKeeps ==
  ASSUME KeyTypeOK, KeyInv, NEW p \in Procs, Look(p)
  PROVE  KeyTypeOK' /\ KeyInv' /\ FileKept
<1>1. /\ pc[p] = "off"
      /\ pc' = [pc EXCEPT ![p] = IF file.state = "absent" THEN "looked" ELSE "load"]
      /\ raced' = (raced \/ (file.state = "absent" /\ \E q \in Procs : FoundNone(q)))
      /\ UNCHANGED <<file, held, made>>
  BY DEF Look, Goto
<1>2. KeyTypeOK'
  BY <1>1 DEF KeyTypeOK, Stages
<1>3. KeyInv'
  BY <1>1 DEF KeyTypeOK, KeyInv, FoundNone
<1>4. QED
  BY <1>1, <1>2, <1>3 DEF FileKept

LEMMA LoadKeeps ==
  ASSUME KeyTypeOK, KeyInv, NEW p \in Procs, CheckMode(p) \/ ReadKey(p)
  PROVE  KeyTypeOK' /\ KeyInv' /\ FileKept
<1>1. CASE CheckMode(p)
  <2>1. /\ pc' = [pc EXCEPT ![p] = IF file.state # "absent" /\ file.private
                                   THEN "checked" ELSE "off"]
        /\ UNCHANGED <<file, held, made, raced>>
    BY <1>1 DEF CheckMode, Goto
  <2>2. KeyTypeOK'
    BY <2>1 DEF KeyTypeOK, Stages
  <2>3. KeyInv'
    BY <2>1 DEF KeyTypeOK, KeyInv
  <2>4. QED
    BY <2>1, <2>2, <2>3 DEF FileKept
<1>2. CASE ReadKey(p)
  <2>1. /\ pc' = [pc EXCEPT ![p] = IF file.state = "whole" THEN "up" ELSE "off"]
        /\ held' = IF file.state = "whole" THEN [held EXCEPT ![p] = file.key] ELSE held
        /\ UNCHANGED <<file, made, raced>>
    BY <1>2 DEF ReadKey, Goto
  <2>2. KeyTypeOK'
    BY <2>1 DEF KeyTypeOK, Stages
  <2>3. KeyInv'
    BY <2>1 DEF KeyTypeOK, KeyInv
  <2>4. QED
    BY <2>1, <2>2, <2>3 DEF FileKept
<1>3. QED
  BY <1>1, <1>2

LEMMA GenerateKeeps ==
  ASSUME KeyTypeOK, KeyInv, NEW p \in Procs, Generate(p)
  PROVE  KeyTypeOK' /\ KeyInv' /\ FileKept
<1>1. /\ pc[p] = "looked" /\ made' = made + 1 /\ held' = [held EXCEPT ![p] = made + 1]
      /\ pc' = [pc EXCEPT ![p] = "generated"]
      /\ UNCHANGED <<file, raced>>
  BY DEF Generate, Goto
<1>2. made + 1 \in Nat
  BY DEF KeyTypeOK
<1>3. KeyTypeOK'
  BY <1>1, <1>2 DEF KeyTypeOK, Stages
<1>4. KeyInv'
  BY <1>1 DEF KeyTypeOK, KeyInv
<1>5. QED
  BY <1>1, <1>3, <1>4 DEF FileKept

LEMMA TruncateKeeps ==
  ASSUME KeyTypeOK, KeyInv, NEW p \in Procs, Truncate(p)
  PROVE  KeyTypeOK' /\ KeyInv' /\ FileKept
<1>1. /\ pc[p] = "generated" /\ pc' = [pc EXCEPT ![p] = "truncated"]
      /\ file' = [state |-> "torn", key |-> 0,
                  private |-> file.state = "absent" \/ file.private]
      /\ UNCHANGED <<held, made, raced>>
  BY DEF Truncate, Goto
<1>2. KeyTypeOK'
  BY <1>1 DEF KeyTypeOK, Stages
<1>3. ~raced => file.state = "absent"
  BY <1>1 DEF KeyInv
<1>4. KeyInv'
  BY <1>1, <1>3 DEF KeyTypeOK, KeyInv
<1>5. QED
  BY <1>1, <1>2, <1>3, <1>4 DEF FileKept

LEMMA WriteKeeps ==
  ASSUME KeyTypeOK, KeyInv, NEW p \in Procs, Write(p)
  PROVE  KeyTypeOK' /\ KeyInv' /\ FileKept
<1>1. /\ pc[p] = "truncated" /\ pc' = [pc EXCEPT ![p] = "written"]
      /\ file' = IF file.state = "absent" THEN file
                 ELSE [file EXCEPT !.state = "whole", !.key = held[p]]
      /\ UNCHANGED <<held, made, raced>>
  BY DEF Write, Goto
<1>2. held[p] \in Nat
  BY DEF KeyTypeOK
<1>3. KeyTypeOK'
  BY <1>1, <1>2 DEF KeyTypeOK, Stages
<1>4. ~raced => file.state = "torn"
  BY <1>1 DEF KeyInv
<1>5. ~raced => file'.state = "whole" /\ file'.key = held[p]
  BY <1>1, <1>4 DEF KeyTypeOK
<1>6. KeyInv'
  BY <1>1, <1>4, <1>5 DEF KeyTypeOK, KeyInv
<1>7. QED
  BY <1>1, <1>3, <1>4, <1>6 DEF FileKept

LEMMA ChmodKeeps ==
  ASSUME KeyTypeOK, KeyInv, NEW p \in Procs, Chmod(p)
  PROVE  KeyTypeOK' /\ KeyInv' /\ FileKept
<1>1. /\ pc[p] = "written" /\ pc' = [pc EXCEPT ![p] = "up"]
      /\ file' = [file EXCEPT !.private = TRUE]
      /\ UNCHANGED <<held, made, raced>>
  BY DEF Chmod, Goto
<1>2. KeyTypeOK'
  BY <1>1 DEF KeyTypeOK, Stages
<1>3. file'.state = file.state /\ file'.key = file.key
  BY <1>1 DEF KeyTypeOK
<1>4. KeyInv'
  BY <1>1, <1>3 DEF KeyTypeOK, KeyInv
<1>5. QED
  BY <1>2, <1>3, <1>4 DEF FileKept

LEMMA EndsKeeps ==
  ASSUME KeyTypeOK, KeyInv, NEW p \in Procs, Ends(p)
  PROVE  KeyTypeOK' /\ KeyInv' /\ FileKept
<1>1. /\ pc' = [pc EXCEPT ![p] = "off"] /\ held' = [held EXCEPT ![p] = 0]
      /\ UNCHANGED <<file, made, raced>>
  BY DEF Ends, Goto
<1>2. KeyTypeOK'
  BY <1>1 DEF KeyTypeOK, Stages
<1>3. KeyInv'
  BY <1>1 DEF KeyTypeOK, KeyInv
<1>4. QED
  BY <1>1, <1>2, <1>3 DEF FileKept

LEMMA FileChangeKeeps ==
  ASSUME KeyTypeOK, KeyInv, FileRemoved \/ ModeChanged
  PROVE  KeyTypeOK' /\ KeyInv' /\ FileKept
<1>1. CASE FileRemoved
  BY <1>1 DEF FileRemoved, NoFile, KeyTypeOK, KeyInv, FileKept
<1>2. CASE ModeChanged
  <2>1. file' = [file EXCEPT !.private = ~file.private] /\ UNCHANGED <<pc, held, made, raced>>
    BY <1>2 DEF ModeChanged
  <2>2. file'.state = file.state /\ file'.key = file.key
    BY <2>1 DEF KeyTypeOK
  <2>3. KeyTypeOK'
    BY <2>1 DEF KeyTypeOK
  <2>4. KeyInv'
    BY <2>1, <2>2 DEF KeyInv
  <2>5. QED
    BY <2>2, <2>3, <2>4 DEF FileKept
<1>3. QED
  BY <1>1, <1>2

LEMMA KeyStays ==
  ASSUME KeyTypeOK, KeyInv, UNCHANGED keyVars
  PROVE  KeyTypeOK' /\ KeyInv' /\ FileKept
BY DEF keyVars, KeyTypeOK, KeyInv, FileKept

LEMMA KeyKept ==
  ASSUME KeyTypeOK, KeyInv, [Next]_vars
  PROVE  KeyTypeOK' /\ KeyInv' /\ FileKept
<1>1. CASE KeyAction
  BY <1>1, LookKeeps, LoadKeeps, GenerateKeeps, TruncateKeeps, WriteKeeps, ChmodKeeps,
     EndsKeeps, FileChangeKeeps DEF KeyAction, KeyStep
<1>2. CASE UNCHANGED keyVars
  BY <1>2, KeyStays
<1>3. KeyAction \/ UNCHANGED keyVars
  BY DEF KeyAction, Next, Emit, Delete, Alter, EditTo, keyVars, vars
<1>4. QED
  BY <1>1, <1>2, <1>3

-----------------------------------------------------------------------------
(* The rows.                                                               *)

LogTyped ==
  /\ rows \subseteq Row
  /\ genesis \subseteq [agent : Agents, id : Nat, ts : Nat]
  /\ nextId \in Nat \ {0} /\ edits \in Nat
  /\ before \in Seq(SUBSET Nat) /\ Len(before) = nextId - 1
  /\ \A i \in 1..nextId - 1 : before[i] \subseteq 1..i - 1
  /\ \A r \in rows : r.id < nextId /\ r.ts = r.id
  /\ \A r, s \in rows : r.id = s.id => r = s

\* Two forms of a row: what is stored of it may differ, its place in the chain does not.
SamePlace(x, y) ==
  x.id = y.id /\ x.ts = y.ts /\ x.agent = y.agent /\ x.version = y.version /\ x.prev = y.prev

\* How an edit changes the rows.
Edited ==
  /\ rows' \subseteq Row
  /\ \A x \in rows' : \E y \in rows : SamePlace(x, y)
  /\ \A x, y \in rows' : x.id = y.id => x = y
  /\ edits' = edits + 1
  /\ UNCHANGED <<genesis, nextId, before>>

LEMMA HashesDiffer ==
  /\ \A i : HashOf(i) # NoHash
  /\ \A i, a, t : HashOf(i) # Seed(a, t)
  /\ \A i, j : HashOf(i) = HashOf(j) => i = j
BY DEF HashOf, NoHash, Seed

LEMMA V2Rows ==
  ASSUME LogTyped, NEW a
  PROVE  \A r \in V2(rows, a) :
           /\ r \in rows /\ r \in Row /\ r.agent = a /\ r.version = 2
           /\ r.id \in 1..nextId - 1 /\ r.ts = r.id
<1>1. \A r \in V2(rows, a) : /\ r \in rows /\ r \in Row /\ r.agent = a /\ r.version = 2
                             /\ r.id < nextId /\ r.ts = r.id
  BY DEF V2, LogTyped
<1>2. nextId \in Nat /\ \A r \in Row : r.id \in Nat \ {0}
  BY DEF LogTyped, Row
<1>3. QED
  BY <1>1, <1>2

\* Ids are times here, so the order of the log is that of the ids.
LEMMA BeforeIsById ==
  ASSUME LogTyped, NEW r \in rows, NEW s \in rows
  PROVE  Before(r, s) <=> r.id < s.id
<1>1. r.ts = r.id /\ s.ts = s.id /\ r.id \in Nat /\ s.id \in Nat
  BY DEF LogTyped, Row
<1>2. QED
  BY <1>1 DEF Before

\* A chain that has rows has a last one.
LEMMA HeadExists ==
  ASSUME LogTyped, NEW a, V2(rows, a) # {}
  PROVE  \E h \in V2(rows, a) : IsHead(V2(rows, a), h)
<1> DEFINE T == {n \in Nat : \E r \in V2(rows, a) : n = nextId - r.id}
<1>1. nextId \in Nat
  BY DEF LogTyped
<1>2. \A r \in V2(rows, a) : r.id \in Nat /\ nextId - r.id \in T
  <2>1. \A k \in 1..nextId - 1 : k \in Nat /\ nextId - k \in Nat
    BY <1>1
  <2>2. QED
    BY <2>1, V2Rows
<1>3. PICK x \in T : \A y \in T : x <= y
  <2>1. T # {} /\ T \in SUBSET Nat
    BY <1>2
  <2> HIDE DEF T
  <2>2. QED
    BY <2>1, LeastNat
<1>4. PICK h \in V2(rows, a) : x = nextId - h.id
  BY <1>3
<1>5. ASSUME NEW r \in V2(rows, a) \ {h}
      PROVE  Before(r, h)
  <2>1. nextId - h.id <= nextId - r.id
    BY <1>2, <1>3, <1>4
  <2>2. r.id <= h.id
    BY <1>1, <1>2, <2>1
  <2>3. r \in rows /\ h \in rows /\ r # h
    BY V2Rows
  <2>4. r.id # h.id
    BY <2>3 DEF LogTyped
  <2>5. r.id < h.id
    BY <1>2, <2>2, <2>4
  <2>6. QED
    BY <2>3, <2>5, BeforeIsById
<1>6. QED
  BY <1>5 DEF IsHead

LEMMA LatestIsHead ==
  ASSUME LogTyped, NEW a, V2(rows, a) # {}
  PROVE  \E h \in V2(rows, a) :
           IsHead(V2(rows, a), h) /\ ReadLatestHash(rows, a) = HashOf(h.id)
BY HeadExists DEF ReadLatestHash, ReadHeadEvent

\* What readPrevHashForNextEvent finds for agent a.
LEMMA PrevCases ==
  ASSUME LogTyped, NEW a \in Agents
  PROVE  LET prev == ReadPrevHashForNextEvent(rows, genesis, a, nextId) IN
         \/ /\ V2(rows, a) = {}
            /\ \E t \in Nat : prev = Seed(a, t)
            /\ ReadGenesis(genesis, a) = {} => prev = Seed(a, nextId)
         \/ \E h \in V2(rows, a) : IsHead(V2(rows, a), h) /\ prev = HashOf(h.id)
<1>1. CASE V2(rows, a) = {}
  <2>1. ReadLatestHash(rows, a) = NoHash
    BY <1>1 DEF ReadLatestHash
  <2>2. CASE ReadGenesis(genesis, a) = {}
    BY <1>1, <2>1, <2>2 DEF ReadPrevHashForNextEvent, LogTyped
  <2>3. CASE ReadGenesis(genesis, a) # {}
    <3> DEFINE g == CHOOSE x \in genesis : x.agent = a
    <3>1. g \in genesis
      BY <2>3 DEF ReadGenesis
    <3>2. g.ts \in Nat
      BY <3>1 DEF LogTyped
    <3>3. QED
      BY <1>1, <2>1, <2>3, <3>2 DEF ReadPrevHashForNextEvent
  <2>4. QED
    BY <2>2, <2>3
<1>2. CASE V2(rows, a) # {}
  BY <1>2, LatestIsHead, HashesDiffer DEF ReadPrevHashForNextEvent
<1>3. QED
  BY <1>1, <1>2

LEMMA NewRowTyped ==
  ASSUME KeyTypeOK, LogTyped, NEW p \in Procs, NEW a \in Agents, NEW v \in {1, 2}
  PROVE  NewRow(p, a, v) \in Row
<1>1. \A t \in Nat : Seed(a, t) \in Hash
  BY DEF Seed, Hash
<1>2. \A h \in V2(rows, a) : HashOf(h.id) \in Hash
  <2>1. \A h \in V2(rows, a) : h.id \in Nat
    BY V2Rows DEF Row
  <2>2. QED
    BY <2>1 DEF HashOf, Hash
<1>3. ReadPrevHashForNextEvent(rows, genesis, a, nextId) \in Hash
  BY <1>1, <1>2, PrevCases
<1>4. NoHash \in Hash
  BY DEF Hash
<1>5. held[p] \in Nat /\ nextId \in Nat \ {0}
  BY DEF KeyTypeOK, LogTyped
<1>6. QED
  BY <1>3, <1>4, <1>5 DEF NewRow, Row

\* The steps that change the log.
LEMMA LogSteps ==
  ASSUME LogTyped, [Next]_vars
  PROVE  \/ UNCHANGED logVars
         \/ \E p \in Procs, a \in Agents, v \in {1, 2} : Emit(p, a, v)
         \/ Edited
<1>1. ASSUME NEW r \in rows, Delete(r)
      PROVE  Edited
  <2>1. /\ rows' = rows \ {r} /\ edits' = edits + 1
        /\ UNCHANGED <<genesis, nextId, before>>
    BY <1>1 DEF Delete, EditTo
  <2>2. QED
    BY <2>1 DEF Edited, SamePlace, LogTyped
<1>2. ASSUME NEW r \in rows, Alter(r)
      PROVE  Edited
  <2>1. PICK f \in {[r EXCEPT !.intact = FALSE], [r EXCEPT !.key = 0]} :
          /\ rows' = (rows \ {r}) \cup {f} /\ edits' = edits + 1
          /\ UNCHANGED <<genesis, nextId, before>>
    BY <1>2 DEF Alter, EditTo
  <2>2. r \in Row
    BY DEF LogTyped
  <2>3. f \in Row /\ SamePlace(f, r)
    <3>1. CASE f = [r EXCEPT !.intact = FALSE]
      BY <2>2, <3>1 DEF Row, SamePlace
    <3>2. CASE f = [r EXCEPT !.key = 0]
      <4>1. 0 \in Nat
        OBVIOUS
      <4>2. QED
        BY <2>2, <3>2, <4>1 DEF Row, SamePlace
    <3>3. QED
      BY <2>1, <3>1, <3>2
  <2>4. \A x \in rows' : \E y \in rows : SamePlace(x, y)
    BY <2>1, <2>3 DEF SamePlace
  <2>5. \A x \in rows \ {r} : x.id # f.id
    BY <2>3 DEF LogTyped, SamePlace
  <2>6. \A x, y \in rows' : x.id = y.id => x = y
    BY <2>1, <2>5 DEF LogTyped
  <2>7. rows' \subseteq Row
    BY <2>1, <2>3 DEF LogTyped
  <2>8. QED
    BY <2>1, <2>4, <2>6, <2>7 DEF Edited
<1>3. UNCHANGED vars => UNCHANGED logVars
  BY DEF vars, logVars
<1>4. QED
  BY <1>1, <1>2, <1>3 DEF Next

\* What an emit does to the log.
LEMMA EmitSteps ==
  ASSUME KeyTypeOK, LogTyped, NEW p \in Procs, NEW a \in Agents, NEW v \in {1, 2},
         Emit(p, a, v)
  PROVE  LET r == NewRow(p, a, v) IN
         /\ r \in Row /\ rows' = rows \cup {r}
         /\ r.id = nextId /\ r.ts = nextId /\ r.agent = a /\ r.version = v
         /\ r.key = held[p] /\ r.intact
         /\ v = 2 => r.prev = ReadPrevHashForNextEvent(rows, genesis, a, nextId)
         /\ genesis' = IF v = 2 THEN GenesisAfter(genesis, r) ELSE genesis
         /\ nextId' = nextId + 1 /\ edits' = edits
         /\ before' \in Seq(SUBSET Nat) /\ Len(before') = nextId
         /\ \A i \in 1..nextId - 1 : before'[i] = before[i]
         /\ before'[nextId] = Ids(V2(rows, a))
         /\ UNCHANGED <<file, pc, held, made, raced>>
<1> DEFINE r == NewRow(p, a, v)
<1>1. r \in Row
  BY NewRowTyped
<1>2. /\ r.id = nextId /\ r.ts = nextId /\ r.agent = a /\ r.version = v
      /\ r.key = held[p] /\ r.intact
      /\ v = 2 => r.prev = ReadPrevHashForNextEvent(rows, genesis, a, nextId)
  BY DEF NewRow
<1>3. /\ rows' = rows \cup {r} /\ nextId' = nextId + 1 /\ edits' = edits
      /\ genesis' = IF v = 2 THEN GenesisAfter(genesis, r) ELSE genesis
      /\ before' = Append(before, Ids(V2(rows, a)))
      /\ UNCHANGED <<file, pc, held, made, raced>>
  BY DEF Emit, keyVars
<1>4. Ids(V2(rows, a)) \in SUBSET Nat
  BY V2Rows DEF Ids, Row
<1>5. before \in Seq(SUBSET Nat) /\ Len(before) = nextId - 1 /\ nextId \in Nat
  BY DEF LogTyped
<1> HIDE DEF r
<1> DEFINE S == Ids(V2(rows, a))
<1>6. /\ before' \in Seq(SUBSET Nat) /\ Len(before') = nextId
      /\ \A i \in 1..nextId - 1 : before'[i] = before[i]
      /\ before'[nextId] = S
  <2>1. S \in SUBSET Nat /\ before' = Append(before, S)
    BY <1>3, <1>4
  <2> HIDE DEF S
  <2>2. QED
    BY <1>5, <2>1
<1>7. QED
  BY <1>1, <1>2, <1>3, <1>6 DEF r

LEMMA LogTypedKept ==
  ASSUME KeyTypeOK, LogTyped, [Next]_vars
  PROVE  LogTyped'
<1>1. CASE UNCHANGED logVars
  BY <1>1 DEF logVars, LogTyped, Row, Hash
<1>2. CASE Edited
  <2>1. \A r \in rows' : r.id < nextId /\ r.ts = r.id
    BY <1>2 DEF Edited, SamePlace, LogTyped
  <2>2. edits' \in Nat
    BY <1>2 DEF Edited, LogTyped
  <2>3. QED
    BY <1>2, <2>1, <2>2 DEF Edited, LogTyped, Row, Hash
<1>3. ASSUME NEW p \in Procs, NEW a \in Agents, NEW v \in {1, 2}, Emit(p, a, v)
      PROVE  LogTyped'
  <2> DEFINE r == NewRow(p, a, v)
  <2>1. /\ r \in Row /\ rows' = rows \cup {r} /\ r.id = nextId /\ r.ts = nextId
        /\ r.agent = a
        /\ genesis' = IF v = 2 THEN GenesisAfter(genesis, r) ELSE genesis
        /\ nextId' = nextId + 1 /\ edits' = edits
        /\ before' \in Seq(SUBSET Nat) /\ Len(before') = nextId
        /\ \A i \in 1..nextId - 1 : before'[i] = before[i]
        /\ before'[nextId] = Ids(V2(rows, a))
    BY <1>3, EmitSteps
  <2> HIDE DEF r
  <2>2. nextId \in Nat \ {0} /\ nextId' \in Nat \ {0} /\ nextId' - 1 = nextId
        /\ 1..nextId = (1..nextId - 1) \cup {nextId}
    BY <2>1 DEF LogTyped
  <2>3. genesis' \subseteq [agent : Agents, id : Nat, ts : Nat]
    BY <2>1, <2>2 DEF GenesisAfter, LogTyped
  <2>4. Ids(V2(rows, a)) \subseteq 1..nextId - 1
    BY V2Rows DEF Ids
  <2>5. ASSUME NEW i \in 1..nextId' - 1
        PROVE  before'[i] \subseteq 1..i - 1
    <3>1. CASE i = nextId
      BY <2>1, <2>4, <3>1
    <3>2. CASE i \in 1..nextId - 1
      <4>1. before'[i] = before[i]
        BY <2>1, <3>2
      <4>2. before[i] \subseteq 1..i - 1
        BY <3>2 DEF LogTyped
      <4>3. QED
        BY <4>1, <4>2
    <3>3. QED
      BY <2>2, <3>1, <3>2
  <2>6. \A x \in rows : x.id \in Nat /\ x.id < nextId /\ x.ts = x.id
    BY DEF LogTyped, Row
  <2>7. \A k \in Nat : k < nextId => k < nextId + 1 /\ k # nextId
    BY <2>2
  <2>8. \A x \in rows' : x.id < nextId' /\ x.ts = x.id
    BY <2>1, <2>2, <2>6, <2>7
  <2>9. \A x, y \in rows' : x.id = y.id => x = y
    <3>1. \A x, y \in rows : x.id = y.id => x = y
      BY DEF LogTyped
    <3>2. QED
      BY <2>1, <2>6, <2>7, <3>1
  <2>10. rows' \subseteq Row'
    BY <2>1 DEF LogTyped, Row, Hash
  <2>11. QED
    BY <2>1, <2>2, <2>3, <2>5, <2>8, <2>9, <2>10 DEF LogTyped
<1>4. QED
  BY <1>1, <1>2, <1>3, LogSteps

-----------------------------------------------------------------------------
(* What the chain knows of the rows that are gone.                         *)

\* A v2 row follows everything that was on file when it was emitted: directly, or by
\* way of the row whose hash it carries.  Only a row that followed none has no hash.
Follows ==
  /\ \A r \in rows : r.version = 2 =>
       \/ before[r.id] = {}
       \/ \E i \in 1..r.id - 1 : r.prev = HashOf(i) /\ before[r.id] \subseteq before[i] \cup {i}
  /\ \A q, r \in rows :
       (q.version = 2 /\ r.version = 2 /\ q.agent = r.agent /\ q.id < r.id)
         => q.id \in before[r.id]

LEMMA FollowsAfterEmit ==
  ASSUME KeyTypeOK, LogTyped, Follows, NEW p \in Procs, NEW a \in Agents, NEW v \in {1, 2},
         Emit(p, a, v)
  PROVE  Follows'
<1> DEFINE r == NewRow(p, a, v)
<1>1. /\ rows' = rows \cup {r} /\ r.id = nextId /\ r.agent = a /\ r.version = v
      /\ v = 2 => r.prev = ReadPrevHashForNextEvent(rows, genesis, a, nextId)
      /\ \A i \in 1..nextId - 1 : before'[i] = before[i]
      /\ before'[nextId] = Ids(V2(rows, a))
  BY EmitSteps
<1> HIDE DEF r
<1>2. nextId \in Nat \ {0} /\ \A x \in rows : x.id \in 1..nextId - 1
  <2>1. nextId \in Nat \ {0} /\ \A x \in rows : x.id \in Nat \ {0} /\ x.id < nextId
    BY DEF LogTyped, Row
  <2>2. QED
    BY <2>1
<1>3. \A x \in rows : before'[x.id] = before[x.id]
  BY <1>1, <1>2
<1>4. ASSUME NEW x \in rows', x.version = 2
      PROVE  \/ before'[x.id] = {}
             \/ \E i \in 1..x.id - 1 :
                  x.prev = HashOf(i) /\ before'[x.id] \subseteq before'[i] \cup {i}
  <2>1. CASE x \in rows
    <3>1. CASE before[x.id] = {}
      BY <1>3, <2>1, <3>1
    <3>2. CASE before[x.id] # {}
      <4>1. PICK i \in 1..x.id - 1 :
              x.prev = HashOf(i) /\ before[x.id] \subseteq before[i] \cup {i}
        BY <1>4, <2>1, <3>2 DEF Follows
      <4>2. i \in 1..nextId - 1
        BY <1>2, <2>1
      <4>3. QED
        BY <1>1, <1>3, <2>1, <4>1, <4>2
    <3>3. QED
      BY <3>1, <3>2
  <2>2. CASE x = r /\ V2(rows, a) = {}
    BY <1>1, <2>2 DEF Ids
  <2>3. CASE x = r /\ V2(rows, a) # {}
    <3>1. PICK h \in V2(rows, a) : IsHead(V2(rows, a), h) /\ x.prev = HashOf(h.id)
      BY <1>1, <1>4, <2>3, PrevCases
    <3>2. h \in rows /\ h.id \in 1..nextId - 1 /\ h.agent = a /\ h.version = 2
      BY V2Rows
    <3>3. ASSUME NEW q \in V2(rows, a), q # h
          PROVE  q.id \in before[h.id]
      <4>1. q \in rows /\ q.agent = a /\ q.version = 2
        BY V2Rows
      <4>2. Before(q, h)
        BY <3>1, <3>3 DEF IsHead
      <4>3. q.id < h.id
        BY <3>2, <4>1, <4>2, BeforeIsById
      <4>4. QED
        BY <3>2, <4>1, <4>3 DEF Follows
    <3>4. Ids(V2(rows, a)) \subseteq before[h.id] \cup {h.id}
      BY <3>3 DEF Ids
    <3>5. before'[h.id] = before[h.id] /\ x.id = nextId
      BY <1>1, <2>3, <3>2
    <3>6. QED
      BY <1>1, <3>1, <3>2, <3>4, <3>5
  <2>4. QED
    BY <1>1, <2>1, <2>2, <2>3
<1>5. ASSUME NEW q \in rows', NEW x \in rows', q.version = 2, x.version = 2,
             q.agent = x.agent, q.id < x.id
      PROVE  q.id \in before'[x.id]
  <2>1. CASE q \in rows /\ x \in rows
    BY <1>3, <1>5, <2>1 DEF Follows
  <2>2. CASE q \in rows /\ x = r
    BY <1>1, <1>5, <2>2 DEF Ids, V2
  <2>3. q # r
    <3>1. \A k \in 1..nextId - 1 : ~(nextId < k)
      BY <1>2
    <3>2. ~(nextId < nextId)
      BY <1>2
    <3>3. QED
      BY <1>1, <1>2, <1>5, <3>1, <3>2
  <2>4. QED
    BY <1>1, <2>1, <2>2, <2>3
<1>6. QED
  BY <1>4, <1>5 DEF Follows

LEMMA FollowsKept ==
  ASSUME KeyTypeOK, LogTyped, Follows, [Next]_vars
  PROVE  Follows'
<1>1. CASE UNCHANGED logVars
  BY <1>1 DEF logVars, Follows
<1>2. CASE Edited
  <2>1. before' = before /\ \A x \in rows' : \E y \in rows : SamePlace(x, y)
    BY <1>2 DEF Edited
  <2>2. ASSUME NEW x \in rows', x.version = 2
        PROVE  \/ before[x.id] = {}
               \/ \E i \in 1..x.id - 1 :
                    x.prev = HashOf(i) /\ before[x.id] \subseteq before[i] \cup {i}
    <3>1. PICK y \in rows : SamePlace(x, y)
      BY <2>1
    <3>2. y.version = 2 /\ y.id = x.id /\ y.prev = x.prev
      BY <2>2, <3>1 DEF SamePlace
    <3>3. \/ before[y.id] = {}
          \/ \E i \in 1..y.id - 1 : y.prev = HashOf(i) /\ before[y.id] \subseteq before[i] \cup {i}
      BY <3>2 DEF Follows
    <3>4. QED
      BY <3>2, <3>3
  <2>3. ASSUME NEW q \in rows', NEW x \in rows', q.version = 2, x.version = 2,
               q.agent = x.agent, q.id < x.id
        PROVE  q.id \in before[x.id]
    <3>1. PICK y \in rows : SamePlace(x, y)
      BY <2>1
    <3>2. PICK z \in rows : SamePlace(q, z)
      BY <2>1
    <3>3. QED
      BY <2>3, <3>1, <3>2 DEF SamePlace, Follows
  <2>4. QED
    BY <2>1, <2>2, <2>3 DEF Follows
<1>3. CASE \E p \in Procs, a \in Agents, v \in {1, 2} : Emit(p, a, v)
  BY <1>3, FollowsAfterEmit
<1>4. QED
  BY <1>1, <1>2, <1>3, LogSteps

\* A chain whose links hold misses nothing that it ever followed: a first row that
\* misses something would be linked to a row that misses it too.
LEMMA LinkedIsWhole ==
  ASSUME LogTyped, Follows, NEW a \in Agents,
         \A r \in V2(rows, a) : LinkHolds(V2(rows, a), r)
  PROVE  \A r \in V2(rows, a) : before[r.id] \subseteq Ids(V2(rows, a))
<1> DEFINE S == V2(rows, a)
           T == {n \in Nat : \E r \in S : n = r.id /\ ~(before[r.id] \subseteq Ids(S))}
<1>1. SUFFICES ASSUME NEW r0 \in S, ~(before[r0.id] \subseteq Ids(S))
               PROVE  FALSE
  OBVIOUS
<1>2. \A r \in S : r \in rows /\ r.version = 2 /\ r.id \in Nat
  BY V2Rows DEF Row
<1>3. PICK n \in T : \A m \in T : n <= m
  <2>1. T \in SUBSET Nat /\ T # {}
    BY <1>1, <1>2
  <2> HIDE DEF T
  <2>2. QED
    BY <2>1, LeastNat
<1>4. PICK r \in S : n = r.id /\ ~(before[r.id] \subseteq Ids(S))
  BY <1>3
<1>5. PICK i \in 1..r.id - 1 : r.prev = HashOf(i) /\ before[r.id] \subseteq before[i] \cup {i}
  <2>1. before[r.id] # {} /\ r \in rows /\ r.version = 2
    BY <1>2, <1>4
  <2>2. QED
    BY <2>1 DEF Follows
<1>6. PICK p \in S : r.prev = HashOf(p.id)
  <2>1. LinkHolds(S, r)
    BY <1>4
  <2>2. r.prev # Seed(r.agent, r.ts)
    BY <1>5, HashesDiffer
  <2>3. QED
    BY <2>1, <2>2 DEF LinkHolds
<1>7. p.id = i /\ i \in Ids(S)
  <2>1. p.id = i
    BY <1>5, <1>6, HashesDiffer
  <2>2. QED
    BY <2>1 DEF Ids
<1>8. before[i] \subseteq Ids(S)
  <2>1. p.id \in Nat /\ ~(n <= p.id)
    BY <1>2, <1>4, <1>5, <1>7
  <2>2. QED
    BY <1>3, <1>7, <2>1
<1>9. QED
  BY <1>4, <1>5, <1>7, <1>8

-----------------------------------------------------------------------------
(* A log that nobody has edited.                                           *)

Rooted(a) == V2(rows, a) = {} <=> ReadGenesis(genesis, a) = {}
Linked(a) == \A r \in V2(rows, a) : LinkHolds(V2(rows, a), r)

UntouchedInv ==
  ~Touched =>
    /\ \A a \in Agents : Rooted(a) /\ Linked(a)
    /\ \A r \in rows : r.intact
    /\ ~raced => \A r \in rows : file.state = "whole" /\ r.key = file.key

\* A row that is appended after all the others is linked, and they stay linked.
LEMMA LinkAppended ==
  ASSUME NEW S, NEW r, \A s \in S : Before(s, r) /\ ~Before(r, s), ~Before(r, r),
         \/ S = {} /\ r.prev = Seed(r.agent, r.ts)
         \/ \E h \in S : IsHead(S, h) /\ r.prev = HashOf(h.id),
         \A s \in S : LinkHolds(S, s)
  PROVE  \A s \in S \cup {r} : LinkHolds(S \cup {r}, s)
<1>1. ASSUME NEW s \in S
      PROVE  LinkHolds(S \cup {r}, s)
  <2>1. CASE \A q \in S : ~Before(q, s)
    BY <2>1 DEF LinkHolds
  <2>2. CASE \E q \in S : Before(q, s)
    <3>1. PICK p \in S : IsPredecessor(S, p, s) /\ s.prev = HashOf(p.id)
      BY <2>2 DEF LinkHolds
    <3>2. IsPredecessor(S \cup {r}, p, s)
      BY <3>1 DEF IsPredecessor
    <3>3. QED
      BY <2>2, <3>1, <3>2 DEF LinkHolds
  <2>3. QED
    BY <2>1, <2>2
<1>2. LinkHolds(S \cup {r}, r)
  <2>1. CASE S = {} /\ r.prev = Seed(r.agent, r.ts)
    BY <2>1 DEF LinkHolds
  <2>2. ASSUME NEW h \in S, IsHead(S, h), r.prev = HashOf(h.id)
        PROVE  LinkHolds(S \cup {r}, r)
    <3>1. IsPredecessor(S \cup {r}, h, r)
      BY <2>2 DEF IsPredecessor, IsHead
    <3>2. QED
      BY <2>2, <3>1 DEF LinkHolds
  <2>3. QED
    BY <2>1, <2>2
<1>3. QED
  BY <1>1, <1>2

LEMMA UntouchedAfterEmit ==
  ASSUME KeyTypeOK, KeyInv, LogTyped, UntouchedInv,
         NEW p \in Procs, NEW a \in Agents, NEW v \in {1, 2}, Emit(p, a, v)
  PROVE  UntouchedInv'
<1> DEFINE r == NewRow(p, a, v)
<1>1. /\ r \in Row /\ rows' = rows \cup {r} /\ r.id = nextId /\ r.ts = nextId
      /\ r.agent = a /\ r.version = v /\ r.key = held[p] /\ r.intact
      /\ v = 2 => r.prev = ReadPrevHashForNextEvent(rows, genesis, a, nextId)
      /\ genesis' = IF v = 2 THEN GenesisAfter(genesis, r) ELSE genesis
      /\ edits' = edits
      /\ UNCHANGED <<file, pc, held, made, raced>>
  BY EmitSteps
<1>2. pc[p] = "up"
  BY DEF Emit
<1> HIDE DEF r
<1>3. SUFFICES ASSUME ~Touched
               PROVE  /\ \A b \in Agents : Rooted(b)' /\ Linked(b)'
                      /\ \A x \in rows' : x.intact
                      /\ ~raced => \A x \in rows' : file.state = "whole" /\ x.key = file.key
  BY <1>1 DEF UntouchedInv, Touched
<1>4. /\ \A b \in Agents : Rooted(b) /\ Linked(b)
      /\ \A x \in rows : x.intact
      /\ ~raced => \A x \in rows : file.state = "whole" /\ x.key = file.key
  BY <1>3 DEF UntouchedInv
<1>5. ~raced => \A x \in rows' : file.state = "whole" /\ x.key = file.key
  BY <1>1, <1>2, <1>4 DEF KeyInv
<1>6. ASSUME NEW b \in Agents, ~(b = a /\ v = 2)
      PROVE  Rooted(b)' /\ Linked(b)'
  <2>1. V2(rows', b) = V2(rows, b)
    BY <1>1, <1>6 DEF V2
  <2>2. ReadGenesis(genesis', b) = ReadGenesis(genesis, b)
    BY <1>1, <1>6 DEF ReadGenesis, GenesisAfter
  <2>3. QED
    BY <1>4, <2>1, <2>2 DEF Rooted, Linked
<1>7. ASSUME v = 2
      PROVE  Rooted(a)' /\ Linked(a)'
  <2> DEFINE S == V2(rows, a)
  <2>1. V2(rows', a) = S \cup {r}
    BY <1>1, <1>7 DEF V2
  <2>2. ReadGenesis(genesis', a) # {}
    <3>1. genesis' = GenesisAfter(genesis, r)
      BY <1>1, <1>7
    <3>2. CASE ReadGenesis(genesis, a) # {}
      BY <1>1, <3>1, <3>2 DEF GenesisAfter
    <3>3. CASE ReadGenesis(genesis, a) = {}
      <4> DEFINE g == [agent |-> r.agent, id |-> r.id, ts |-> r.ts]
      <4>1. g \in genesis' /\ g.agent = a
        BY <1>1, <3>1, <3>3 DEF GenesisAfter
      <4>2. QED
        BY <4>1 DEF ReadGenesis
    <3>4. QED
      BY <3>2, <3>3
  <2>3. nextId \in Nat
    BY DEF LogTyped
  <2>4. \A s \in S : Before(s, r) /\ ~Before(r, s)
    <3>1. \A s \in S : s.ts = s.id /\ s.id \in 1..nextId - 1
      BY V2Rows
    <3>2. \A k \in 1..nextId - 1 : k < nextId /\ ~(nextId < k) /\ k # nextId
      BY <2>3
    <3>3. QED
      BY <1>1, <3>1, <3>2 DEF Before
  <2>5. ~Before(r, r)
    BY <1>1, <2>3 DEF Before
  <2>6. \/ S = {} /\ r.prev = Seed(r.agent, r.ts)
        \/ \E h \in S : IsHead(S, h) /\ r.prev = HashOf(h.id)
    <3>1. S = {} => ReadGenesis(genesis, a) = {}
      BY <1>4 DEF Rooted
    <3>2. QED
      BY <1>1, <1>7, <3>1, PrevCases
  <2>7. \A s \in S : LinkHolds(S, s)
    BY <1>4 DEF Linked
  <2>8. \A s \in S \cup {r} : LinkHolds(S \cup {r}, s)
    <3> HIDE DEF S
    <3>1. QED
      BY <2>4, <2>5, <2>6, <2>7, LinkAppended
  <2>9. QED
    BY <2>1, <2>2, <2>8 DEF Rooted, Linked
<1>8. QED
  BY <1>1, <1>4, <1>5, <1>6, <1>7

LEMMA UntouchedKept ==
  ASSUME KeyTypeOK, KeyInv, LogTyped, UntouchedInv, [Next]_vars
  PROVE  UntouchedInv'
<1>1. CASE \E p \in Procs, a \in Agents, v \in {1, 2} : Emit(p, a, v)
  BY <1>1, UntouchedAfterEmit
<1>2. CASE Edited
  <2>1. edits' = edits + 1 /\ edits \in Nat
    BY <1>2 DEF Edited, LogTyped
  <2>2. edits' > 0
    BY <2>1
  <2>3. QED
    BY <2>2 DEF UntouchedInv, Touched
<1>3. CASE UNCHANGED logVars
  <2>1. rows' = rows /\ genesis' = genesis /\ edits' = edits
    BY <1>3 DEF logVars
  <2>2. FileKept
    BY KeyKept
  <2>3. raced => raced'
    BY DEF Next, KeyStep, Look, CheckMode, ReadKey, Generate, Truncate, Write, Chmod, Ends,
           FileRemoved, ModeChanged, Emit, Delete, Alter, EditTo, keyVars, vars
  <2>4. \A a \in Agents : (Rooted(a)' <=> Rooted(a)) /\ (Linked(a)' <=> Linked(a))
    BY <2>1 DEF Rooted, Linked
  <2>5. Touched' <=> Touched
    BY <2>1 DEF Touched
  <2>6. QED
    BY <2>1, <2>2, <2>3, <2>4, <2>5 DEF UntouchedInv, FileKept
<1>4. QED
  BY <1>1, <1>2, <1>3, LogSteps

-----------------------------------------------------------------------------
(* The theorems.                                                           *)

TrailInv == KeyTypeOK /\ KeyInv /\ LogTyped /\ Follows /\ UntouchedInv

LEMMA TrailInvInit ==
  ASSUME Init
  PROVE  TrailInv
<1>1. /\ file = NoFile /\ pc = [p \in Procs |-> "off"] /\ held = [p \in Procs |-> 0]
      /\ made = 0 /\ raced = FALSE
      /\ rows = {} /\ genesis = {} /\ nextId = 1 /\ edits = 0 /\ before = << >>
  BY DEF Init, KeyInit
<1>2. KeyTypeOK
  BY <1>1 DEF KeyTypeOK, NoFile, Stages
<1>3. KeyInv
  BY <1>1 DEF KeyInv
<1>4. LogTyped
  BY <1>1 DEF LogTyped
<1>5. Follows
  BY <1>1 DEF Follows
<1>6. UntouchedInv
  <2>1. \A a : V2(rows, a) = {} /\ ReadGenesis(genesis, a) = {}
    BY <1>1 DEF V2, ReadGenesis
  <2>2. QED
    BY <1>1, <2>1 DEF UntouchedInv, Rooted, Linked
<1>7. QED
  BY <1>2, <1>3, <1>4, <1>5, <1>6 DEF TrailInv

LEMMA TrailInvKept ==
  ASSUME TrailInv, [Next]_vars
  PROVE  TrailInv'
BY KeyKept, LogTypedKept, FollowsKept, UntouchedKept DEF TrailInv

\* The log, the key file and its processes keep their types.
THEOREM TrailTypes == Spec => []TrailTypeOK
<1>1. ASSUME TrailInv
      PROVE  TrailTypeOK
  <2>1. KeyTypeOK /\ LogTyped
    BY <1>1 DEF TrailInv
  <2>2. DOMAIN before = 1..nextId - 1
    BY <2>1 DEF LogTyped
  <2>3. Ids(rows) \subseteq 1..nextId - 1
    <3>1. \A r \in rows : r.id \in Nat \ {0} /\ r.id < nextId
      BY <2>1 DEF LogTyped, Row
    <3>2. nextId \in Nat
      BY <2>1 DEF LogTyped
    <3>3. QED
      BY <3>1, <3>2 DEF Ids
  <2>4. QED
    BY <2>1, <2>2, <2>3 DEF TrailTypeOK, LogTyped
<1>2. QED
  BY <1>1, TrailInvInit, TrailInvKept, PTL DEF Spec

\* However many processes start from one key file, and wherever a start is cut short,
\* all that run hold the key that is in the file, unless two of them found no file at
\* the same time or it was removed (sign.ts:51-63).
THEOREM AllHoldOneKey == Spec => []OneKey
<1>1. TrailInv => OneKey
  BY DEF TrailInv, KeyInv, OneKey
<1>2. QED
  BY <1>1, TrailInvInit, TrailInvKept, PTL DEF Spec

\* Exit code 0 of sonder-verify-chain means that every event of the agent is as it was
\* signed and that everything that was on file when it was emitted still is, however
\* many rows were removed or altered in between (verify-chain.ts, audit.ts:160-180).
THEOREM PassIsWhole == Spec => []PassMeansWhole
<1>1. ASSUME TrailInv
      PROVE  PassMeansWhole
  <2>1. SUFFICES ASSUME NEW args \in Arguments, ExitCode(args) = 0, ~args.help,
                        NEW r \in V2(rows, args.agent)
                 PROVE  /\ r.intact /\ r.key = GivenKey(args).key
                        /\ before[r.id] \subseteq Ids(V2(rows, args.agent))
    BY DEF PassMeansWhole
  <2> DEFINE S == V2(rows, args.agent)
  <2>2. VerifyChain(rows, args.agent, GivenKey(args).key) = "pass"
    BY <2>1 DEF ExitCode, VerifyChain
  <2>3. \A x \in S : FailedCheck(S, x, GivenKey(args).key) = "none"
    BY <2>2 DEF VerifyChain
  <2>4. \A x \in S : x.intact /\ x.key = GivenKey(args).key /\ LinkHolds(S, x)
    BY <2>3 DEF FailedCheck
  <2>5. args.agent \in Agents
    BY DEF Arguments
  <2>6. \A x \in S : before[x.id] \subseteq Ids(S)
    BY <1>1, <2>4, <2>5, LinkedIsWhole DEF TrailInv
  <2>7. QED
    BY <2>4, <2>6
<1>2. QED
  BY <1>1, TrailInvInit, TrailInvKept, PTL DEF Spec

\* On a log that nobody edited, the key in the key file verifies every agent's chain,
\* whichever processes wrote it (runtime.ts:81-84, verify-chain.ts).
THEOREM UntouchedIsAccepted == Spec => []UntouchedPasses
<1>1. ASSUME TrailInv
      PROVE  UntouchedPasses
  <2>1. SUFFICES ASSUME ~Touched, ~raced, NEW args \in Arguments, NEW a \in Agents,
                        Asks(args, a)
                 PROVE  ExitCode(args) = IF V2(rows, a) = {} THEN 2 ELSE 0
    BY DEF UntouchedPasses
  <2> DEFINE S == V2(rows, a)
  <2>2. Usable(args) /\ args.agent = a /\ GivenKey(args).key = file.key
    BY <2>1 DEF Asks
  <2>3. \A r \in S : r.intact /\ r.key = file.key /\ LinkHolds(S, r)
    BY <1>1, <2>1 DEF TrailInv, UntouchedInv, Linked, V2
  <2>4. \A r \in S : FailedCheck(S, r, file.key) = "none"
    BY <2>3 DEF FailedCheck
  <2>5. VerifyChain(rows, a, file.key) = IF S = {} THEN "missing" ELSE "pass"
    BY <2>4 DEF VerifyChain
  <2>6. QED
    BY <2>2, <2>5 DEF ExitCode
<1>2. QED
  BY <1>1, TrailInvInit, TrailInvKept, PTL DEF Spec

-----------------------------------------------------------------------------
(* The projection.                                                         *)

\* An event: metadata.sonder has members only if it is an object.
IsEvent(event) == event.sonder.kind # "object" => event.sonder.members = << >>

LEMMA DefinedIs ==
  ASSUME NEW f
  PROVE  /\ \A k : k \in DOMAIN Defined(f) <=> k \in DOMAIN f /\ f[k] # "undefined"
         /\ \A k \in DOMAIN Defined(f) : Defined(f)[k] = f[k]
  BY DEF Defined

LEMMA PartIs ==
  ASSUME NEW f, NEW names
  PROVE  /\ DOMAIN Part(f, names) = DOMAIN f \cap names
         /\ \A k \in DOMAIN f \cap names : Part(f, names)[k] = f[k]
  BY DEF Part

LEMMA DefinedOfPart ==
  ASSUME NEW f, NEW names
  PROVE  /\ \A k : k \in DOMAIN Defined(Part(f, names)) <=> k \in names /\ k \in DOMAIN Defined(f)
         /\ \A k \in DOMAIN Defined(Part(f, names)) : Defined(Part(f, names))[k] = Defined(f)[k]
<1> DEFINE p == Part(f, names)
<1>1. DOMAIN p = DOMAIN f \cap names /\ \A k \in DOMAIN f \cap names : p[k] = f[k]
  BY PartIs
<1> HIDE DEF p
<1>2. /\ \A k : k \in DOMAIN Defined(p) <=> k \in DOMAIN p /\ p[k] # "undefined"
      /\ \A k \in DOMAIN Defined(p) : Defined(p)[k] = p[k]
  BY DefinedIs
<1>3. QED
  BY <1>1, <1>2, DefinedIs DEF p

LEMMA FieldNames ==
  /\ "aop_version" \notin SpecFields /\ "trace_context" \notin SpecFields
  /\ AopFields = SpecFields \cup {"aop_version", "trace_context"}
  /\ AopFields \ {"memory"} =
       {"aop_version", "id", "governance", "parent_id", "trace_context"}
BY DEF SpecFields, AopFields

\* The top level of a projected event, field by field.
LEMMA TopIs ==
  ASSUME NEW event, NEW trace
  PROVE  LET top == ToAopEvent(event, trace).top
             own == Defined(event.top) IN
         /\ \A k : k \in DOMAIN top <=>
              \/ k = "aop_version"
              \/ k = "trace_context" /\ trace # "undefined"
              \/ k \in SpecFields /\ k \in DOMAIN own
         /\ top["aop_version"] = "0.1"
         /\ \A k \in SpecFields : k \in DOMAIN own => top[k] = own[k]
<1> DEFINE top == ToAopEvent(event, trace).top
           own == Defined(event.top)
           version == [aop_version |-> "0.1"]
           context == Defined([trace_context |-> trace])
           spec == Defined(Part(event.top, SpecFields))
<1>1. top = Over(version, Over(context, spec))
  BY DEF ToAopEvent
<1>2. DOMAIN version = {"aop_version"} /\ version["aop_version"] = "0.1"
  OBVIOUS
<1>3. \A k : k \in DOMAIN context <=> k = "trace_context" /\ trace # "undefined"
  <2>1. DOMAIN [trace_context |-> trace] = {"trace_context"}
    OBVIOUS
  <2>2. \A k : k \in DOMAIN context <=>
                 k = "trace_context" /\ [trace_context |-> trace][k] # "undefined"
    BY <2>1, DefinedIs
  <2>3. [trace_context |-> trace]["trace_context"] = trace
    OBVIOUS
  <2>4. QED
    BY <2>2, <2>3
<1>4. \A k : k \in DOMAIN spec <=> k \in SpecFields /\ k \in DOMAIN own
  BY DefinedOfPart
<1>5. \A k \in DOMAIN spec : spec[k] = own[k]
  BY DefinedOfPart
<1> HIDE DEF top, own, version, context, spec
<1>6. /\ DOMAIN top = DOMAIN version \cup (DOMAIN context \cup DOMAIN spec)
      /\ \A k \in DOMAIN version : top[k] = version[k]
      /\ \A k \in (DOMAIN context \cup DOMAIN spec) \ DOMAIN version :
           top[k] = Over(context, spec)[k]
      /\ \A k \in DOMAIN spec \ DOMAIN context : Over(context, spec)[k] = spec[k]
  <2> DEFINE rest == Over(context, spec)
  <2>1. /\ DOMAIN rest = DOMAIN context \cup DOMAIN spec
        /\ \A k \in DOMAIN spec \ DOMAIN context : rest[k] = spec[k]
    BY DEF Over
  <2> HIDE DEF rest
  <2>2. /\ DOMAIN top = DOMAIN version \cup DOMAIN rest
        /\ \A k \in DOMAIN version : top[k] = version[k]
        /\ \A k \in DOMAIN rest \ DOMAIN version : top[k] = rest[k]
    BY <1>1 DEF Over, rest
  <2>3. QED
    BY <2>1, <2>2 DEF rest
<1>7. \A k : k \in DOMAIN top <=>
              \/ k = "aop_version"
              \/ k = "trace_context" /\ trace # "undefined"
              \/ k \in SpecFields /\ k \in DOMAIN own
  BY <1>2, <1>3, <1>4, <1>6
<1>8. top["aop_version"] = "0.1"
  BY <1>2, <1>6
<1>9. \A k \in SpecFields : k \in DOMAIN own => top[k] = own[k]
  BY <1>2, <1>3, <1>4, <1>5, <1>6, FieldNames
<1>10. QED
  BY <1>7, <1>8, <1>9 DEF top, own

\* The fields that are kept under metadata.sonder.
LEMMA ProvenanceIs ==
  ASSUME NEW event
  PROVE  LET own == Defined(event.top) IN
         /\ DOMAIN Provenance(event) = DOMAIN own \ SpecFields
         /\ \A k \in DOMAIN own \ SpecFields : Provenance(event)[k] = own[k]
<1> DEFINE own == Defined(event.top)
           names == DOMAIN event.top \ SpecFields
<1>1. \A k : k \in DOMAIN Provenance(event) <=> k \in names /\ k \in DOMAIN own
  BY DefinedOfPart DEF Provenance
<1>2. \A k \in DOMAIN Provenance(event) : Provenance(event)[k] = own[k]
  BY DefinedOfPart DEF Provenance
<1>3. \A k : k \in DOMAIN own => k \in DOMAIN event.top
  BY DefinedIs
<1> HIDE DEF own
<1>4. QED
  BY <1>1, <1>2, <1>3 DEF own

LEMMA MembersIs ==
  ASSUME NEW event, IsEvent(event)
  PROVE  LET own == Defined(event.top)
             members == MergedSonder(event).members IN
         /\ DOMAIN members = (DOMAIN own \ SpecFields) \cup DOMAIN event.sonder.members
         /\ \A k \in DOMAIN own \ SpecFields : members[k] = own[k]
         /\ \A k \in DOMAIN event.sonder.members \ (DOMAIN own \ SpecFields) :
              members[k] = event.sonder.members[k]
<1> DEFINE kept == Provenance(event)
           own == Defined(event.top)
           members == MergedSonder(event).members
<1>1. DOMAIN kept = DOMAIN own \ SpecFields /\ \A k \in DOMAIN own \ SpecFields : kept[k] = own[k]
  BY ProvenanceIs
<1>2. \A m : SonderObject(m).members = m
  BY DEF SonderObject
<1>3. CASE DOMAIN kept = {}
  <2>1. members = event.sonder.members
    BY <1>3 DEF MergedSonder
  <2>2. QED
    BY <1>1, <1>3, <2>1
<1>4. CASE DOMAIN kept # {} /\ event.sonder.kind = "object"
  <2>1. members = Over(kept, event.sonder.members)
    BY <1>2, <1>4 DEF MergedSonder
  <2> HIDE DEF members, kept, own
  <2>2. /\ DOMAIN members = DOMAIN kept \cup DOMAIN event.sonder.members
        /\ \A k \in DOMAIN kept : members[k] = kept[k]
        /\ \A k \in DOMAIN event.sonder.members \ DOMAIN kept :
             members[k] = event.sonder.members[k]
    BY <2>1 DEF Over
  <2>3. QED
    BY <1>1, <2>2 DEF members, own
<1>5. CASE DOMAIN kept # {} /\ event.sonder.kind # "object"
  <2>1. members = kept
    BY <1>2, <1>5 DEF MergedSonder
  <2>2. event.sonder.members = << >>
    BY <1>5 DEF IsEvent
  <2>3. DOMAIN event.sonder.members = {}
    BY <2>2
  <2> HIDE DEF members, kept, own
  <2>4. QED
    BY <1>1, <2>1, <2>3 DEF members, own
<1>6. QED
  BY <1>3, <1>4, <1>5

\* aop.ts:81-199, for any event whatever its fields, its values and its metadata: the
\* projection is clean at the top level, and what it takes from there and from the
\* metadata is kept, but for what its own keys replace in metadata.sonder.
THEOREM ProjectionLosesNothing ==
  ASSUME NEW event, IsEvent(event)
  PROVE  ProjectionExact(event)
<1> SUFFICES ASSUME NEW trace \in {"t", "undefined"}
             PROVE  LET aop == ToAopEvent(event, trace)
                        own == Defined(event.top) IN
    /\ DOMAIN aop.top \subseteq AopFields
    /\ aop.top["aop_version"] = "0.1"
    /\ ("trace_context" \in DOMAIN aop.top) <=> (trace # "undefined")
    /\ \A k \in SpecFields :
         /\ (k \in DOMAIN aop.top) <=> (k \in DOMAIN own)
         /\ k \in DOMAIN own => aop.top[k] = own[k]
    /\ \A k \in DOMAIN own \ SpecFields :
         k \in DOMAIN aop.sonder.members /\ aop.sonder.members[k] = own[k]
    /\ \A k \in DOMAIN event.sonder.members \ DOMAIN own :
         k \in DOMAIN aop.sonder.members
           /\ aop.sonder.members[k] = event.sonder.members[k]
    /\ DOMAIN aop.sonder.members \subseteq
         (DOMAIN own \ SpecFields) \cup DOMAIN event.sonder.members
    /\ event.meta # NoMeta => aop.meta = event.meta
    /\ ProjectGovernanceObservation(event, trace)
         = [k \in DOMAIN aop.top \ {"memory"} |-> aop.top[k]]
  BY DEF ProjectionExact
<1> DEFINE aop == ToAopEvent(event, trace)
           own == Defined(event.top)
<1>1. /\ \A k : k \in DOMAIN aop.top <=>
           \/ k = "aop_version"
           \/ k = "trace_context" /\ trace # "undefined"
           \/ k \in SpecFields /\ k \in DOMAIN own
      /\ aop.top["aop_version"] = "0.1"
      /\ \A k \in SpecFields : k \in DOMAIN own => aop.top[k] = own[k]
  BY TopIs
<1>2. aop.sonder = MergedSonder(event) /\ aop.meta = MergedMeta(event)
  BY DEF ToAopEvent
<1>3. /\ DOMAIN aop.sonder.members = (DOMAIN own \ SpecFields) \cup DOMAIN event.sonder.members
      /\ \A k \in DOMAIN own \ SpecFields : aop.sonder.members[k] = own[k]
      /\ \A k \in DOMAIN event.sonder.members \ (DOMAIN own \ SpecFields) :
           aop.sonder.members[k] = event.sonder.members[k]
  BY <1>2, MembersIs
<1>4. event.meta # NoMeta => aop.meta = event.meta
  BY <1>2 DEF MergedMeta
<1>5. ProjectGovernanceObservation(event, trace) = Part(aop.top, AopFields \ {"memory"})
  BY FieldNames DEF ProjectGovernanceObservation
<1> HIDE DEF aop, own
<1>6. DOMAIN aop.top \subseteq AopFields
  BY <1>1, FieldNames
<1>7. ("trace_context" \in DOMAIN aop.top) <=> (trace # "undefined")
  BY <1>1, FieldNames
<1>8. \A k \in SpecFields : (k \in DOMAIN aop.top) <=> (k \in DOMAIN own)
  BY <1>1, FieldNames
<1>9. DOMAIN aop.top \cap (AopFields \ {"memory"}) = DOMAIN aop.top \ {"memory"}
  BY <1>6
<1>10. Part(aop.top, AopFields \ {"memory"})
         = [k \in DOMAIN aop.top \ {"memory"} |-> aop.top[k]]
  BY <1>9 DEF Part
<1>11. QED
  BY <1>1, <1>3, <1>4, <1>5, <1>6, <1>7, <1>8, <1>10 DEF aop, own

LEMMA InputsAreEvents ==
  ASSUME NEW e \in AopInputs
  PROVE  IsEvent(e)
<1>1. \A s \in EventSonders : s.kind # "object" => s.members = << >>
  BY DEF EventSonders, OtherSonder, SonderObject
<1>2. NoSonder.members = << >>
  BY DEF NoSonder
<1>3. \/ \E t \in EventTops, m \in EventMetas : e = [top |-> t, meta |-> m, sonder |-> NoSonder]
      \/ \E t \in EventTops, m \in EventMetas \ {NoMeta}, s \in EventSonders :
           e = [top |-> t, meta |-> m, sonder |-> s]
  BY DEF AopInputs
<1>4. QED
  BY <1>1, <1>2, <1>3 DEF IsEvent

LEMMA NothingElseGiven ==
  ASSUME ReadsInit
  PROVE  /\ given.kind = "log" => \E l \in Logs : given = [kind |-> "log", log |-> l]
         /\ given.kind = "event" => \E e \in AopInputs : given = [kind |-> "event", event |-> e]
BY DEF ReadsInit, GivenNone, GivenLog, GivenEvent, GivenValue

\* The same as an invariant of the runs' reads.
THEOREM AopReads == ReadsSpec => []AopExact
<1>1. ReadsInit => AopExact
  BY NothingElseGiven, InputsAreEvents, ProjectionLosesNothing DEF AopExact
<1>2. AopExact /\ [UNCHANGED given]_given => AopExact'
  BY DEF AopExact
<1>3. QED
  BY <1>1, <1>2, PTL DEF ReadsSpec

-----------------------------------------------------------------------------
(* The rows of a log in order.                                             *)

LogOK(log) ==
  /\ log \subseteq [id : 1 .. MaxId, ts : 1 .. MaxTs, parent : 0 .. MaxId]
  /\ \A r, q \in log : r.id = q.id => r = q

LEMMA LogsAreOK ==
  ASSUME NEW log \in Logs
  PROVE  LogOK(log)
<1>1. PICK S \in SUBSET (1 .. MaxId) :
        log \in {{[id |-> i, ts |-> t[i], parent |-> p[i]] : i \in S} :
                   t \in [S -> 1 .. MaxTs], p \in [S -> 0 .. MaxId]}
  BY DEF Logs
<1>2. PICK t \in [S -> 1 .. MaxTs], p \in [S -> 0 .. MaxId] :
        log = {[id |-> i, ts |-> t[i], parent |-> p[i]] : i \in S}
  BY <1>1
<1>3. \A r \in log : \E i \in S : r = [id |-> i, ts |-> t[i], parent |-> p[i]] /\ r.id = i
  BY <1>2
<1>4. \A i \in S : t[i] \in 1 .. MaxTs /\ p[i] \in 0 .. MaxId /\ i \in 1 .. MaxId
  BY <1>2
<1>5. \A r \in log : r \in [id : 1 .. MaxId, ts : 1 .. MaxTs, parent : 0 .. MaxId]
  BY <1>3, <1>4
<1>6. \A r, q \in log : r.id = q.id => r = q
  BY <1>3
<1>7. QED
  BY <1>5, <1>6 DEF LogOK

LEMMA LogFinite ==
  ASSUME NEW log, LogOK(log), NEW S \in SUBSET log
  PROVE  IsFiniteSet(S) /\ Cardinality(S) \in Nat /\ Cardinality(S) <= MaxId
<1> DEFINE ids == [r \in S |-> r.id]
<1>1. ids \in Injection(S, 1 .. MaxId)
  BY DEF LogOK, Injection, IsInjective
<1>2. IsFiniteSet(1 .. MaxId) /\ Cardinality(1 .. MaxId) = MaxId
  BY AuditQueriesAssumption, FS_Interval
<1> HIDE DEF ids
<1>3. IsFiniteSet(S) /\ Cardinality(S) <= MaxId
  BY <1>1, <1>2, FS_Injection
<1>4. QED
  BY <1>3, FS_CardinalityType

LEMMA OrderOfRows ==
  ASSUME NEW log, LogOK(log), NEW r \in log, NEW q \in log, NEW x \in log
  PROVE  /\ ~Before(r, r)
         /\ Before(r, q) => ~Before(q, r)
         /\ Before(r, q) /\ Before(q, x) => Before(r, x)
         /\ r # q => Before(r, q) \/ Before(q, r)
<1>1. /\ r.id \in Int /\ r.ts \in Int /\ q.id \in Int /\ q.ts \in Int
      /\ x.id \in Int /\ x.ts \in Int /\ (r.id = q.id => r = q)
  BY DEF LogOK
<1>2. QED
  BY <1>1 DEF Before

Rank(S, r) == Cardinality({q \in S : Before(q, r)})

LEMMA RankIs ==
  ASSUME NEW log, LogOK(log), NEW S \in SUBSET log, NEW r \in S
  PROVE  /\ Rank(S, r) \in 0 .. Cardinality(S) - 1
         /\ \A q \in S : Before(r, q) => Rank(S, r) < Rank(S, q)
<1> DEFINE less(q) == {x \in S : Before(x, q)}
<1>1. \A q \in S : less(q) \in SUBSET S /\ q \notin less(q)
  BY OrderOfRows
<1>2. \A q \in S : IsFiniteSet(less(q)) /\ Cardinality(less(q)) \in Nat
  BY LogFinite
<1>3. IsFiniteSet(S) /\ Cardinality(S) \in Nat
  BY LogFinite
<1>4. Cardinality(less(r)) <= Cardinality(S) /\ (Cardinality(S) = Cardinality(less(r)) => S = less(r))
  BY <1>1, <1>3, FS_Subset
<1>5. ASSUME NEW q \in S, Before(r, q)
      PROVE  Cardinality(less(r)) < Cardinality(less(q))
  <2>1. less(r) \in SUBSET less(q) /\ r \in less(q) /\ r \notin less(r)
    BY <1>1, <1>5, OrderOfRows
  <2>2. /\ Cardinality(less(r)) <= Cardinality(less(q))
        /\ Cardinality(less(q)) = Cardinality(less(r)) => less(q) = less(r)
    BY <1>2, <2>1, FS_Subset
  <2>3. QED
    BY <1>2, <2>1, <2>2
<1>6. Cardinality(less(r)) \in 0 .. Cardinality(S) - 1
  BY <1>1, <1>2, <1>3, <1>4
<1>7. QED
  BY <1>5, <1>6 DEF Rank

\* ORDER BY lists every row once, each before those that are later.
LEMMA InOrderIs ==
  ASSUME NEW log, LogOK(log), NEW S \in SUBSET log
  PROVE  /\ InOrder(S) \in [1 .. Cardinality(S) -> S] /\ Cardinality(S) \in Nat
         /\ \A r \in S : \E n \in 1 .. Cardinality(S) : InOrder(S)[n] = r
         /\ \A i, j \in 1 .. Cardinality(S) : i < j => Before(InOrder(S)[i], InOrder(S)[j])
<1> DEFINE N == Cardinality(S)
           rank == [r \in S |-> Rank(S, r)]
           s == InOrder(S)
<1>1. N \in Nat /\ IsFiniteSet(S)
  BY LogFinite
<1>2. rank \in Injection(S, 0 .. N - 1)
  <2>1. rank \in [S -> 0 .. N - 1]
    BY RankIs
  <2>2. \A r, q \in S : r # q => rank[r] # rank[q]
    <3>1. \A r, q \in S : Before(r, q) => rank[r] < rank[q]
      BY RankIs
    <3>2. \A r, q \in S : r # q => rank[r] < rank[q] \/ rank[q] < rank[r]
      BY <3>1, OrderOfRows
    <3>3. \A r \in S : rank[r] \in Int
      BY <2>1
    <3> HIDE DEF rank
    <3>4. QED
      BY <3>2, <3>3
  <2> HIDE DEF rank
  <2>3. QED
    BY <2>1, <2>2 DEF Injection, IsInjective
<1>3. IsFiniteSet(0 .. N - 1) /\ Cardinality(0 .. N - 1) = N
  BY <1>1, FS_Interval
<1>4. rank \in Surjection(S, 0 .. N - 1)
  <2> HIDE DEF rank, N
  <2>1. Cardinality(S) = Cardinality(0 .. N - 1)
    BY <1>3 DEF N
  <2>2. QED
    BY <1>2, <1>3, <2>1, FS_Injection
<1>5. \A n \in 1 .. N : \E r \in S : Rank(S, r) = n - 1
  <2>1. \A n \in 0 .. N - 1 : \E r \in S : rank[r] = n
    BY <1>4 DEF Surjection
  <2>2. \A n \in 1 .. N : n - 1 \in 0 .. N - 1
    BY <1>1
  <2>3. QED
    BY <2>1, <2>2
<1>6. s = [n \in 1 .. N |-> CHOOSE r \in S : Rank(S, r) = n - 1]
  BY DEF InOrder, Rank
<1>7. \A n \in 1 .. N : s[n] \in S /\ Rank(S, s[n]) = n - 1
  <2> HIDE DEF N, s
  <2>1. QED
    BY <1>5, <1>6
<1>8. \A r, q \in S : Rank(S, r) = Rank(S, q) => r = q
  BY <1>2 DEF Injection, IsInjective
<1> HIDE DEF N, s, rank
<1>9. \A r \in S : \E n \in 1 .. N : s[n] = r
  <2> SUFFICES ASSUME NEW r \in S
               PROVE  \E n \in 1 .. N : s[n] = r
    OBVIOUS
  <2>1. Rank(S, r) \in 0 .. N - 1
    BY RankIs DEF N
  <2>2. Rank(S, r) + 1 \in 1 .. N /\ (Rank(S, r) + 1) - 1 = Rank(S, r)
    BY <1>1, <2>1
  <2>3. s[Rank(S, r) + 1] = r
    BY <1>7, <1>8, <2>2
  <2>4. QED
    BY <2>2, <2>3
<1>10. \A i, j \in 1 .. N : i < j => Before(s[i], s[j])
  <2> SUFFICES ASSUME NEW i \in 1 .. N, NEW j \in 1 .. N, i < j
               PROVE  Before(s[i], s[j])
    OBVIOUS
  <2>1. s[i] \in S /\ s[j] \in S /\ Rank(S, s[i]) = i - 1 /\ Rank(S, s[j]) = j - 1
    BY <1>7
  <2>2. s[i] # s[j]
    BY <1>1, <2>1
  <2>3. Before(s[j], s[i]) => Rank(S, s[j]) < Rank(S, s[i])
    BY <2>1, RankIs
  <2>4. ~Before(s[j], s[i])
    BY <1>1, <2>1, <2>3
  <2>5. QED
    BY <2>1, <2>2, <2>4, OrderOfRows
<1>11. s \in [1 .. N -> S]
  BY <1>6, <1>7
<1>12. QED
  BY <1>1, <1>9, <1>10, <1>11 DEF s, N

-----------------------------------------------------------------------------
(* Pages.                                                                  *)

Least(m, n) == IF m < n THEN m ELSE n

LEMMA OrderedSeq ==
  ASSUME NEW S, NEW N \in Nat, NEW s \in [1 .. N -> S]
  PROVE  s \in Seq(S) /\ Len(s) = N /\ DOMAIN s = 1 .. N /\ ToSet(s) = {s[n] : n \in 1 .. N}
<1>1. s \in Seq(S)
  OBVIOUS
<1>2. DOMAIN s = 1 .. N /\ DOMAIN s = 1 .. Len(s) /\ Len(s) \in Nat
  BY <1>1
<1>3. Len(s) = N
  BY <1>2
<1>4. QED
  BY <1>1, <1>2, <1>3 DEF ToSet

Selected(log, filter) == {r \in log : Matches(r, filter)}

\* What a query without a limit returns.
LEMMA WholeQuery ==
  ASSUME NEW log, LogOK(log), NEW filter, filter.limit = 0, filter.offset = 0,
         NEW S, S = Selected(log, filter)
  PROVE  /\ Query(log, filter) = InOrder(S) /\ S \in SUBSET log
         /\ InOrder(S) \in Seq(S) /\ Len(InOrder(S)) = Cardinality(S) /\ Len(InOrder(S)) \in Nat
         /\ DOMAIN InOrder(S) = 1 .. Len(InOrder(S)) /\ ToSet(InOrder(S)) = S
         /\ \A i, j \in DOMAIN InOrder(S) : i < j => Before(InOrder(S)[i], InOrder(S)[j])
<1> DEFINE s == InOrder(S)
<1>1. S \in SUBSET log
  BY DEF Selected
<1>2. ~Refused(filter)
  BY DEF Refused
<1>3. Query(log, filter) = SubSeq(s, 1, IF Len(s) < Len(s) THEN Len(s) ELSE Len(s))
  BY <1>2 DEF Query, Selected
<1> HIDE DEF s
<1>4. /\ s \in [1 .. Cardinality(S) -> S] /\ Cardinality(S) \in Nat
      /\ \A r \in S : \E n \in 1 .. Cardinality(S) : s[n] = r
      /\ \A i, j \in 1 .. Cardinality(S) : i < j => Before(s[i], s[j])
  BY <1>1, InOrderIs DEF s
<1>5. /\ s \in Seq(S) /\ Len(s) = Cardinality(S) /\ DOMAIN s = 1 .. Cardinality(S)
      /\ ToSet(s) = {s[n] : n \in 1 .. Cardinality(S)}
  <2> DEFINE N == Cardinality(S)
  <2>1. N \in Nat /\ s \in [1 .. N -> S]
    BY <1>4
  <2> HIDE DEF N
  <2>2. s \in Seq(S) /\ Len(s) = N /\ DOMAIN s = 1 .. N /\ ToSet(s) = {s[n] : n \in 1 .. N}
    BY <2>1, OrderedSeq
  <2>3. QED
    BY <2>2 DEF N
<1>6. Query(log, filter) = s
  BY <1>3, <1>5
<1>7. ToSet(s) = S
  BY <1>4, <1>5
<1>8. QED
  BY <1>1, <1>4, <1>5, <1>6, <1>7 DEF s

\* What a query for a page returns.
LEMMA PageQuery ==
  ASSUME NEW log, LogOK(log), NEW filter, NEW S, S = Selected(log, filter),
         NEW size \in Nat \ {0}, NEW skip \in Nat, filter.limit = size, filter.offset = skip
  PROVE  Query(log, filter) =
           SubSeq(InOrder(S), skip + 1, Least(skip + size, Len(InOrder(S))))
<1>1. ~Refused(filter)
  BY DEF Refused
<1>2. QED
  BY <1>1 DEF Query, Selected, Least

\* One page after what came before it.
LEMMA NextPage ==
  ASSUME NEW S, NEW s \in Seq(S), NEW skip \in Nat, NEW size \in Nat
  PROVE  SubSeq(s, 1, Least(skip, Len(s))) \o SubSeq(s, skip + 1, Least(skip + size, Len(s)))
           = SubSeq(s, 1, Least(skip + size, Len(s)))
<1> DEFINE L == Len(s)
<1>1. L \in Nat
  OBVIOUS
<1>2. CASE skip < L
  <2>1. Least(skip, L) = skip /\ Least(skip + size, L) \in skip .. L
    BY <1>1, <1>2 DEF Least
  <2>2. \A m \in skip .. L : SubSeq(s, 1, skip) \o SubSeq(s, skip + 1, m) = SubSeq(s, 1, m)
    BY <1>2
  <2>3. QED
    BY <2>1, <2>2
<1>3. CASE ~(skip < L)
  <2>1. Least(skip, L) = L /\ Least(skip + size, L) = L
    BY <1>1, <1>3 DEF Least
  <2>2. SubSeq(s, skip + 1, L) = << >>
    BY <1>1, <1>3
  <2>3. SubSeq(s, 1, L) = s /\ s \o << >> = s
    OBVIOUS
  <2>4. QED
    BY <2>1, <2>2, <2>3
<1>4. QED
  BY <1>2, <1>3

Paging(m, page) ==
  m = [n \in 0 .. MaxId |-> IF n = 0 THEN << >> ELSE m[n - 1] \o page[n - 1]]

\* Page after page is the whole answer, when there are enough of them.
LEMMA PagesAreAll ==
  ASSUME NEW S, NEW s \in Seq(S), NEW size \in Nat \ {0}, Len(s) <= MaxId,
         NEW page,
         \A n \in 0 .. MaxId - 1 :
           page[n] = SubSeq(s, n * size + 1, Least(n * size + size, Len(s)))
  PROVE  /\ \E m : Paging(m, page)
         /\ \A m : Paging(m, page) => m[MaxId] = s
<1> DEFINE first == [n \in 0 .. MaxId |-> SubSeq(s, 1, Least(n * size, Len(s)))]
<1>1. MaxId \in Nat /\ Len(s) \in Nat
  BY AuditQueriesAssumption
<1>2. \A n \in Nat : n * size \in Nat /\ (n + 1) * size = n * size + size /\ n <= n * size
  OBVIOUS
<1>3. SubSeq(s, 1, Least(0 * size, Len(s))) = << >>
  <2>1. Least(0 * size, Len(s)) = 0
    BY <1>1 DEF Least
  <2>2. QED
    BY <2>1
<1>4. ASSUME NEW n \in 0 .. MaxId, n # 0
      PROVE  SubSeq(s, 1, Least(n * size, Len(s))) = first[n - 1] \o page[n - 1]
  <2>1. n - 1 \in 0 .. MaxId /\ n - 1 \in 0 .. MaxId - 1 /\ n - 1 \in Nat /\ (n - 1) + 1 = n
    BY <1>1, <1>4
  <2>2. (n - 1) * size \in Nat /\ n * size = (n - 1) * size + size
    BY <1>2, <2>1
  <2>3. first[n - 1] = SubSeq(s, 1, Least((n - 1) * size, Len(s)))
    BY <2>1
  <2>4. page[n - 1] = SubSeq(s, (n - 1) * size + 1, Least((n - 1) * size + size, Len(s)))
    BY <2>1
  <2>5. QED
    BY <2>2, <2>3, <2>4, NextPage
<1>5. first = [n \in 0 .. MaxId |-> IF n = 0 THEN << >> ELSE first[n - 1] \o page[n - 1]]
  BY <1>3, <1>4
<1>6. first[MaxId] = s
  <2>1. Least(MaxId * size, Len(s)) = Len(s)
    BY <1>1, <1>2 DEF Least
  <2>2. MaxId \in 0 .. MaxId /\ SubSeq(s, 1, Len(s)) = s
    BY <1>1
  <2>3. QED
    BY <2>1, <2>2
<1> HIDE DEF first
<1>7. ASSUME NEW m, Paging(m, page)
      PROVE  m[MaxId] = first[MaxId]
  <2> DEFINE T == {n \in 0 .. MaxId : m[n] = first[n]}
  <2>1. 0 \in T
    <3>1. 0 \in 0 .. MaxId
      BY <1>1
    <3>2. m[0] = << >> /\ first[0] = << >>
      BY <1>5, <1>7, <3>1 DEF Paging
    <3>3. QED
      BY <3>1, <3>2
  <2>2. ASSUME NEW n \in 0 .. MaxId - 1, n \in T
        PROVE  n + 1 \in T
    <3>1. n + 1 \in 0 .. MaxId /\ n + 1 # 0 /\ (n + 1) - 1 = n
      BY <1>1
    <3>2. m[n + 1] = m[n] \o page[n]
      BY <1>7, <3>1 DEF Paging
    <3>3. first[n + 1] = first[n] \o page[n]
      BY <1>5, <3>1
    <3>4. QED
      BY <2>2, <3>1, <3>2, <3>3
  <2> HIDE DEF T
  <2>3. \A n \in 0 .. MaxId : n \in T
    BY <1>1, <2>1, <2>2, CountUp
  <2>4. QED
    BY <1>1, <2>3 DEF T
<1>8. QED
  BY <1>5, <1>6, <1>7 DEF Paging

\* audit.ts:185-225: pages of any size tile the answer to a query with any range of time,
\* which is what the filter selects, in time order, whatever the log.
THEOREM PagesTileEveryLog ==
  ASSUME NEW log, LogOK(log)
  PROVE  PagesTile(log)
<1> SUFFICES ASSUME NEW size \in 1 .. MaxId, NEW from \in 0 .. MaxTs, NEW to \in 0 .. MaxTs
             PROVE  LET all == Query(log, [NoFilter EXCEPT !.from = from, !.to = to])
                        Page(n) == Query(log, [NoFilter EXCEPT !.from = from, !.to = to,
                                                               !.limit = size, !.offset = n * size])
                        pages[n \in 0 .. MaxId] ==
                          IF n = 0 THEN << >> ELSE pages[n - 1] \o Page(n - 1)
                    IN  /\ pages[MaxId] = all
                        /\ ToSet(all) = {r \in log : (from # 0 => r.ts >= from) /\ (to # 0 => r.ts <= to)}
                        /\ \A i, j \in DOMAIN all : i < j => all[i].ts <= all[j].ts
  BY DEF PagesTile
<1> DEFINE filter == [NoFilter EXCEPT !.from = from, !.to = to]
           all == Query(log, filter)
           filterOf(n) == [NoFilter EXCEPT !.from = from, !.to = to,
                                           !.limit = size, !.offset = n * size]
           Page(n) == Query(log, filterOf(n))
           pages == CHOOSE m : m = [n \in 0 .. MaxId |->
                                      IF n = 0 THEN << >> ELSE m[n - 1] \o Page(n - 1)]
           S == {r \in log : (from # 0 => r.ts >= from) /\ (to # 0 => r.ts <= to)}
<1>1. /\ filter.limit = 0 /\ filter.offset = 0 /\ filter.parent = 0
      /\ filter.from = from /\ filter.to = to
  BY DEF NoFilter
<1>2. \A n : /\ filterOf(n).limit = size /\ filterOf(n).offset = n * size
             /\ filterOf(n).parent = 0 /\ filterOf(n).from = from /\ filterOf(n).to = to
  BY DEF NoFilter
<1>3. S = Selected(log, filter)
  BY <1>1 DEF Matches, Selected
<1>4. \A n : S = Selected(log, filterOf(n))
  BY <1>2 DEF Matches, Selected
<1> HIDE DEF filter, filterOf, S
<1>5. /\ all = InOrder(S) /\ S \in SUBSET log
      /\ all \in Seq(S) /\ Len(all) = Cardinality(S) /\ Len(all) \in Nat
      /\ DOMAIN all = 1 .. Len(all) /\ ToSet(all) = S
      /\ \A i, j \in DOMAIN all : i < j => Before(all[i], all[j])
  BY <1>1, <1>3, WholeQuery
<1>6. \A n \in 0 .. MaxId - 1 :
        Page(n) = SubSeq(all, n * size + 1, Least(n * size + size, Len(all)))
  <2> SUFFICES ASSUME NEW n \in 0 .. MaxId - 1
               PROVE  Page(n) = SubSeq(all, n * size + 1, Least(n * size + size, Len(all)))
    OBVIOUS
  <2> DEFINE skip == n * size
             f == filterOf(n)
  <2>1. skip \in Nat /\ size \in Nat \ {0}
    OBVIOUS
  <2>2. f.limit = size /\ f.offset = skip /\ S = Selected(log, f)
    BY <1>2, <1>4
  <2> HIDE DEF skip, f
  <2>3. Query(log, f) = SubSeq(InOrder(S), skip + 1, Least(skip + size, Len(InOrder(S))))
    BY <2>1, <2>2, PageQuery
  <2>4. QED
    BY <1>5, <2>3 DEF skip, f
<1>7. Len(all) <= MaxId
  BY <1>5, LogFinite
<1>8. \A i, j \in DOMAIN all : i < j => all[i].ts <= all[j].ts
  <2>1. \A i \in DOMAIN all : all[i] \in log
    BY <1>5
  <2>2. \A r, q \in log : Before(r, q) => r.ts <= q.ts
    BY DEF Before, LogOK
  <2>3. QED
    BY <1>5, <2>1, <2>2
<1> HIDE DEF all, Page
<1> DEFINE page == [n \in 0 .. MaxId - 1 |-> Page(n)]
<1>9. MaxId \in Nat /\ \A n \in 0 .. MaxId : n # 0 => n - 1 \in 0 .. MaxId - 1
  BY AuditQueriesAssumption
<1>10. ASSUME NEW m
       PROVE  Paging(m, page) <=>
                m = [n \in 0 .. MaxId |-> IF n = 0 THEN << >> ELSE m[n - 1] \o Page(n - 1)]
  <2>1. [n \in 0 .. MaxId |-> IF n = 0 THEN << >> ELSE m[n - 1] \o page[n - 1]]
          = [n \in 0 .. MaxId |-> IF n = 0 THEN << >> ELSE m[n - 1] \o Page(n - 1)]
    BY <1>9
  <2>2. QED
    BY <2>1 DEF Paging
<1>11. /\ \E m : Paging(m, page)
       /\ \A m : Paging(m, page) => m[MaxId] = all
  <2>1. size \in Nat \ {0}
    OBVIOUS
  <2>2. \A n \in 0 .. MaxId - 1 :
          page[n] = SubSeq(all, n * size + 1, Least(n * size + size, Len(all)))
    BY <1>6
  <2> HIDE DEF page
  <2>3. QED
    BY <1>5, <1>7, <2>1, <2>2, PagesAreAll
<1> HIDE DEF page
<1>12. pages = [n \in 0 .. MaxId |-> IF n = 0 THEN << >> ELSE pages[n - 1] \o Page(n - 1)]
  <2>1. \E m : m = [n \in 0 .. MaxId |-> IF n = 0 THEN << >> ELSE m[n - 1] \o Page(n - 1)]
    <3>1. PICK m : Paging(m, page)
      BY <1>11
    <3>2. QED
      BY <1>10, <3>1
  <2>2. QED
    BY <2>1
<1> HIDE DEF pages
<1>13. pages[MaxId] = all
  BY <1>10, <1>11, <1>12
<1>14. QED
  BY <1>5, <1>8, <1>13 DEF all, Page, S, filter, filterOf, pages

-----------------------------------------------------------------------------
(* The walk over parent_id: one child, the children of one event, a level. *)

Walk ==
  [visited : SUBSET (1 .. MaxId), out : Seq(1 .. MaxId), frontier : Seq(1 .. MaxId)]

\* w is what the walk W, at the start of a level, becomes when the ids in C were met.
Met(W, w, C) ==
  /\ w \in Walk
  /\ w.visited = W.visited \cup C
  /\ ToSet(w.frontier) = C \ W.visited
  /\ ToSet(w.out) = ToSet(W.out) \cup (C \ W.visited)
  /\ ToSet(w.out) \subseteq w.visited
  /\ \A i, j \in 1 .. Len(w.out) : w.out[i] = w.out[j] => i = j
  /\ Len(W.out) <= Len(w.out)
  /\ \A i \in 1 .. Len(W.out) : w.out[i] = W.out[i]
  /\ \A i \in Len(W.out) + 1 .. Len(w.out) : w.out[i] \in C \ W.visited

LEMMA AppendIs ==
  ASSUME NEW S, NEW s \in Seq(S), NEW x \in S
  PROVE  /\ Append(s, x) \in Seq(S) /\ Len(s) \in Nat /\ Len(Append(s, x)) = Len(s) + 1
         /\ \A i \in 1 .. Len(s) : Append(s, x)[i] = s[i]
         /\ Append(s, x)[Len(s) + 1] = x
         /\ ToSet(Append(s, x)) = ToSet(s) \cup {x}
         /\ \A i \in 1 .. Len(s) : s[i] \in ToSet(s)
<1>1. /\ Append(s, x) \in Seq(S) /\ Len(s) \in Nat /\ Len(Append(s, x)) = Len(s) + 1
      /\ \A i \in 1 .. Len(s) : Append(s, x)[i] = s[i]
      /\ Append(s, x)[Len(s) + 1] = x
      /\ DOMAIN Append(s, x) = 1 .. Len(s) + 1 /\ DOMAIN s = 1 .. Len(s)
  OBVIOUS
<1> DEFINE t == Append(s, x)
<1> HIDE DEF t
<1>2. t[Len(s) + 1] = x /\ DOMAIN t = 1 .. Len(s) + 1 /\ \A i \in 1 .. Len(s) : t[i] = s[i]
  BY <1>1 DEF t
<1>3. {t[i] : i \in DOMAIN t} = {s[i] : i \in DOMAIN s} \cup {x}
  BY <1>1, <1>2
<1>4. QED
  BY <1>1, <1>3 DEF t, ToSet

LEMMA WalkTyped ==
  ASSUME NEW w \in Walk
  PROVE  /\ w.visited \in SUBSET (1 .. MaxId)
         /\ w.out \in Seq(1 .. MaxId) /\ Len(w.out) \in Nat
         /\ w.frontier \in Seq(1 .. MaxId) /\ Len(w.frontier) \in Nat
  BY DEF Walk

LEMMA VisitTyped ==
  ASSUME NEW w \in Walk, NEW child, child.id \in 1 .. MaxId
  PROVE  Visit(w, child) \in Walk
<1>1. CASE child.id \in w.visited
  BY <1>1 DEF Visit
<1>2. CASE child.id \notin w.visited
  <2>1. Append(w.out, child.id) \in Seq(1 .. MaxId)
        /\ Append(w.frontier, child.id) \in Seq(1 .. MaxId)
        /\ w.visited \cup {child.id} \in SUBSET (1 .. MaxId)
    BY WalkTyped, AppendIs
  <2>2. QED
    BY <1>2, <2>1 DEF Visit, Walk
<1>3. QED
  BY <1>1, <1>2

LEMMA VisitMeets ==
  ASSUME NEW W \in Walk, NEW w, NEW C, Met(W, w, C), NEW child, child.id \in 1 .. MaxId
  PROVE  Met(W, Visit(w, child), C \cup {child.id})
<1> DEFINE x == child.id
           D == C \cup {x}
           v == Visit(w, child)
<1>1. w \in Walk /\ v \in Walk
  BY VisitTyped DEF Met
<1>2. CASE x \in w.visited
  <2>1. v = w
    BY <1>2 DEF Visit
  <2>2. W.visited \cup D = W.visited \cup C /\ D \ W.visited = C \ W.visited
    BY <1>2 DEF Met
  <2> HIDE DEF D, v
  <2>3. QED
    BY <2>1, <2>2 DEF Met, D, v
<1>3. CASE x \notin w.visited
  <2>1. v.visited = w.visited \cup {x} /\ v.out = Append(w.out, x)
        /\ v.frontier = Append(w.frontier, x)
    BY <1>3 DEF Visit
  <2>2. x \notin W.visited /\ x \notin C /\ x \notin ToSet(w.out)
    BY <1>3 DEF Met
  <2> HIDE DEF v, D
  <2>3. /\ w.out \in Seq(1 .. MaxId) /\ x \in 1 .. MaxId /\ w.frontier \in Seq(1 .. MaxId)
        /\ Len(w.out) \in Nat /\ Len(W.out) \in Nat
    BY <1>1, WalkTyped
  <2>4. /\ Len(v.out) = Len(w.out) + 1
        /\ \A i \in 1 .. Len(w.out) : v.out[i] = w.out[i]
        /\ v.out[Len(w.out) + 1] = x
        /\ ToSet(v.out) = ToSet(w.out) \cup {x}
        /\ \A i \in 1 .. Len(w.out) : w.out[i] \in ToSet(w.out)
        /\ ToSet(v.frontier) = ToSet(w.frontier) \cup {x}
    <3> DEFINE IdRange == 1 .. MaxId
               out == w.out
               frontier == w.frontier
    <3>0. out \in Seq(IdRange) /\ frontier \in Seq(IdRange) /\ x \in IdRange
      BY <2>3
    <3> HIDE DEF x, IdRange, out, frontier
    <3>1. ToSet(Append(frontier, x)) = ToSet(frontier) \cup {x}
      BY <3>0, AppendIs
    <3>2. /\ Len(Append(out, x)) = Len(out) + 1
          /\ \A i \in 1 .. Len(out) : Append(out, x)[i] = out[i]
          /\ Append(out, x)[Len(out) + 1] = x
          /\ ToSet(Append(out, x)) = ToSet(out) \cup {x}
          /\ \A i \in 1 .. Len(out) : out[i] \in ToSet(out)
      BY <3>0, AppendIs
    <3>3. QED
      BY <2>1, <3>1, <3>2 DEF out, frontier
  <2> HIDE DEF x
  <2>5. v.visited = W.visited \cup D
    BY <2>1 DEF Met, D
  <2>6. D \ W.visited = (C \ W.visited) \cup {x}
    BY <2>2 DEF D
  <2>7. /\ ToSet(v.frontier) = D \ W.visited
        /\ ToSet(v.out) = ToSet(W.out) \cup (D \ W.visited)
        /\ ToSet(v.out) \subseteq v.visited
    BY <2>1, <2>4, <2>6 DEF Met
  <2>8. ASSUME NEW i \in 1 .. Len(v.out), NEW j \in 1 .. Len(v.out), v.out[i] = v.out[j]
        PROVE  i = j
    <3>1. \A k \in 1 .. Len(v.out) : k \in 1 .. Len(w.out) \/ k = Len(w.out) + 1
      BY <2>3, <2>4
    <3>2. \A k \in 1 .. Len(w.out) : v.out[k] = w.out[k] /\ v.out[k] # x
      BY <2>2, <2>4
    <3>3. \A k, l \in 1 .. Len(w.out) : w.out[k] = w.out[l] => k = l
      BY DEF Met
    <3>4. QED
      BY <2>4, <2>8, <3>1, <3>2, <3>3
  <2>9. /\ Len(W.out) <= Len(v.out)
        /\ \A i \in 1 .. Len(W.out) : v.out[i] = W.out[i]
    BY <2>3, <2>4 DEF Met
  <2>10. ASSUME NEW i \in Len(W.out) + 1 .. Len(v.out)
         PROVE  v.out[i] \in D \ W.visited
    <3>1. CASE i = Len(w.out) + 1
      BY <2>4, <2>6, <3>1
    <3>2. CASE i # Len(w.out) + 1
      <4>1. i \in Len(W.out) + 1 .. Len(w.out) /\ i \in 1 .. Len(w.out)
        BY <2>3, <2>4, <3>2
      <4>2. QED
        BY <2>4, <2>6, <4>1 DEF Met
    <3>3. QED
      BY <3>1, <3>2
  <2>11. QED
    BY <1>1, <2>5, <2>7, <2>8, <2>9, <2>10 DEF Met, v, D, x
<1>4. QED
  BY <1>2, <1>3

\* The loop over children as a run of Visit.
LEMMA VisitAllIs ==
  ASSUME NEW w \in Walk, NEW children, Len(children) \in Nat,
         \A n \in 1 .. Len(children) : children[n].id \in 1 .. MaxId
  PROVE  \E after : /\ VisitAll(w, children) = after[Len(children)] /\ after[0] = w
                    /\ \A n \in 1 .. Len(children) : after[n] = Visit(after[n - 1], children[n])
<1> DEFINE N == Len(children)
           after == CHOOSE f : f = [n \in 0 .. N |->
                                      IF n = 0 THEN w ELSE Visit(f[n - 1], children[n])]
           step == [p \in (1 .. N) \X Walk |-> Visit(p[2], children[p[1]])]
<1>1. VisitAll(w, children) = after[N]
  BY DEF VisitAll
<1>2. step \in [(1 .. N) \X Walk -> Walk]
  <2>1. ASSUME NEW p \in (1 .. N) \X Walk
        PROVE  Visit(p[2], children[p[1]]) \in Walk
    BY VisitTyped
  <2>2. QED
    BY <2>1
<1>3. \A n \in 1 .. N, v \in Walk : step[<<n, v>>] = Visit(v, children[n])
  OBVIOUS
<1> HIDE DEF step, N
<1>4. PICK f \in [0 .. N -> Walk] : StepsBy(f, N, w, step)
  BY <1>2, RunExists DEF N
<1>5. \A n \in 0 .. N : n # 0 => n \in 1 .. N /\ n - 1 \in 0 .. N
  BY DEF N
<1>6. f = [n \in 0 .. N |-> IF n = 0 THEN w ELSE Visit(f[n - 1], children[n])]
  BY <1>3, <1>4, <1>5 DEF StepsBy
<1>7. after = [n \in 0 .. N |-> IF n = 0 THEN w ELSE Visit(after[n - 1], children[n])]
  BY <1>6
<1> HIDE DEF after
<1>8. N \in Nat
  BY DEF N
<1>9. after[0] = w /\ \A n \in 1 .. N : after[n] = Visit(after[n - 1], children[n])
  <2>1. 0 \in 0 .. N /\ \A n \in 1 .. N : n \in 0 .. N /\ n # 0
    BY <1>8
  <2>2. QED
    BY <1>7, <2>1
<1>10. QED
  BY <1>1, <1>9 DEF N

\* The children of one event are met in a walk.
LEMMA VisitAllMeets ==
  ASSUME NEW W \in Walk, NEW w, NEW C, Met(W, w, C), NEW children, Len(children) \in Nat,
         \A n \in 1 .. Len(children) : children[n].id \in 1 .. MaxId
  PROVE  Met(W, VisitAll(w, children), C \cup {children[n].id : n \in 1 .. Len(children)})
<1> DEFINE N == Len(children)
           seen(n) == C \cup {children[i].id : i \in 1 .. n}
<1>1. w \in Walk /\ N \in Nat
  BY DEF Met
<1>2. PICK after : /\ VisitAll(w, children) = after[N] /\ after[0] = w
                   /\ \A n \in 1 .. N : after[n] = Visit(after[n - 1], children[n])
  BY <1>1, VisitAllIs
<1> DEFINE T == {n \in 0 .. N : Met(W, after[n], seen(n))}
<1>3. 0 \in T
  <2>1. seen(0) = C
    OBVIOUS
  <2> HIDE DEF seen
  <2>2. Met(W, after[0], seen(0))
    BY <1>2, <2>1
  <2>3. QED
    BY <1>1, <2>2
<1>4. ASSUME NEW n \in 0 .. N - 1, n \in T
      PROVE  n + 1 \in T
  <2>1. n + 1 \in 1 .. N /\ (n + 1) - 1 = n /\ n + 1 \in 0 .. N
    BY <1>1
  <2>2. after[n + 1] = Visit(after[n], children[n + 1]) /\ children[n + 1].id \in 1 .. MaxId
    BY <1>2, <2>1
  <2>3. seen(n + 1) = seen(n) \cup {children[n + 1].id}
    <3>1. 1 .. n + 1 = (1 .. n) \cup {n + 1}
      BY <2>1
    <3>2. QED
      BY <3>1
  <2> HIDE DEF seen
  <2>4. Met(W, after[n], seen(n))
    BY <1>4
  <2>5. Met(W, after[n + 1], seen(n + 1))
    BY <2>2, <2>3, <2>4, VisitMeets
  <2>6. QED
    BY <2>1, <2>5
<1>5. N \in T
  <2> HIDE DEF T, N
  <2>1. \A n \in 0 .. N : n \in T
    BY <1>1, <1>3, <1>4, CountUp
  <2>2. QED
    BY <1>1, <2>1
<1>6. QED
  BY <1>2, <1>5

LEMMA VisitAllTyped ==
  ASSUME NEW w \in Walk, NEW children, Len(children) \in Nat,
         \A n \in 1 .. Len(children) : children[n].id \in 1 .. MaxId
  PROVE  VisitAll(w, children) \in Walk
<1> DEFINE N == Len(children)
<1>1. PICK after : /\ VisitAll(w, children) = after[N] /\ after[0] = w
                   /\ \A n \in 1 .. N : after[n] = Visit(after[n - 1], children[n])
  BY VisitAllIs
<1> DEFINE T == {n \in 0 .. N : after[n] \in Walk}
<1>2. 0 \in T
  BY <1>1
<1>3. ASSUME NEW n \in 0 .. N - 1, n \in T
      PROVE  n + 1 \in T
  <2>1. n + 1 \in 1 .. N /\ (n + 1) - 1 = n /\ n + 1 \in 0 .. N
    OBVIOUS
  <2>2. QED
    BY <1>1, <1>3, <2>1, VisitTyped
<1> HIDE DEF T, N
<1>4. N \in Nat
  BY DEF N
<1>5. \A n \in 0 .. N : n \in T
  BY <1>2, <1>3, <1>4, CountUp
<1>6. QED
  BY <1>1, <1>4, <1>5 DEF T

ChildrenOf(log, parents) == {r.id : r \in {q \in log : q.parent \in parents}}

LEMMA ChildrenAre ==
  ASSUME NEW log, LogOK(log), NEW id \in 1 .. MaxId
  PROVE  LET children == QueryChildren(log, id) IN
         /\ Len(children) \in Nat
         /\ \A n \in 1 .. Len(children) : children[n].id \in 1 .. MaxId
         /\ {children[n].id : n \in 1 .. Len(children)} = ChildrenOf(log, {id})
<1> DEFINE filter == [NoFilter EXCEPT !.parent = id]
           children == QueryChildren(log, id)
           S == Selected(log, filter)
<1>1. filter.limit = 0 /\ filter.offset = 0 /\ filter.parent = id /\ filter.from = 0 /\ filter.to = 0
  BY DEF NoFilter
<1>2. children = Query(log, filter)
  BY DEF QueryChildren
<1>3. S = {r \in log : r.parent = id}
  <2>1. id # 0
    OBVIOUS
  <2>2. QED
    BY <1>1, <2>1 DEF Selected, Matches
<1> HIDE DEF filter, children, S
<1>4. /\ children = InOrder(S) /\ Len(children) \in Nat
      /\ DOMAIN children = 1 .. Len(children) /\ ToSet(children) = S
  BY <1>1, <1>2, WholeQuery DEF S
<1>5. {children[n] : n \in 1 .. Len(children)} = S
  BY <1>4 DEF ToSet
<1>6. \A n \in 1 .. Len(children) : children[n] \in S
  BY <1>5
<1>7. \A r \in S : \E n \in 1 .. Len(children) : children[n] = r
  BY <1>5
<1>8. \A r \in S : r.id \in 1 .. MaxId
  BY <1>3 DEF LogOK
<1>9. ChildrenOf(log, {id}) = {r.id : r \in S}
  BY <1>3 DEF ChildrenOf
<1>10. {children[n].id : n \in 1 .. Len(children)} = {r.id : r \in S}
  BY <1>6, <1>7
<1>11. QED
  BY <1>4, <1>6, <1>8, <1>9, <1>10 DEF children

\* A level: the children of all events of the frontier are met.
LEMMA NextLevelMeets ==
  ASSUME NEW log, LogOK(log), NEW W \in Walk, 
         \A i, j \in 1 .. Len(W.out) : W.out[i] = W.out[j] => i = j,
         ToSet(W.out) \subseteq W.visited
  PROVE  Met(W, NextLevel(log, W), ChildrenOf(log, ToSet(W.frontier)))
<1> DEFINE N == Len(W.frontier)
           start == [W EXCEPT !.frontier = << >>]
           kids(n) == QueryChildren(log, W.frontier[n])
           after == CHOOSE f : f = [n \in 0 .. N |->
                      IF n = 0 THEN start ELSE VisitAll(f[n - 1], kids(n))]
           step == [p \in (1 .. N) \X Walk |-> VisitAll(p[2], kids(p[1]))]
<1>1. NextLevel(log, W) = after[N]
  BY DEF NextLevel
<1>2. /\ N \in Nat /\ DOMAIN W.frontier = 1 .. N
      /\ \A n \in 1 .. N : W.frontier[n] \in 1 .. MaxId
  <2> DEFINE frontier == W.frontier
             IdRange == 1 .. MaxId
  <2>1. frontier \in Seq(IdRange)
    BY WalkTyped
  <2> HIDE DEF frontier, IdRange
  <2>2. /\ Len(frontier) \in Nat /\ DOMAIN frontier = 1 .. Len(frontier)
        /\ \A n \in 1 .. Len(frontier) : frontier[n] \in IdRange
    BY <2>1
  <2>3. QED
    BY <2>2 DEF frontier, IdRange
<1>3. ASSUME NEW n \in 1 .. N
      PROVE  /\ Len(kids(n)) \in Nat
             /\ \A i \in 1 .. Len(kids(n)) : kids(n)[i].id \in 1 .. MaxId
             /\ {kids(n)[i].id : i \in 1 .. Len(kids(n))} = ChildrenOf(log, {W.frontier[n]})
  BY <1>2, ChildrenAre
<1> HIDE DEF kids
<1>4. step \in [(1 .. N) \X Walk -> Walk]
  <2>1. ASSUME NEW p \in (1 .. N) \X Walk
        PROVE  VisitAll(p[2], kids(p[1])) \in Walk
    BY <1>3, VisitAllTyped
  <2>2. QED
    BY <2>1
<1>5. \A n \in 1 .. N, v \in Walk : step[<<n, v>>] = VisitAll(v, kids(n))
  OBVIOUS
<1>6. start \in Walk /\ start.visited = W.visited /\ start.out = W.out /\ start.frontier = << >>
  <2>1. start = [visited |-> W.visited, out |-> W.out, frontier |-> << >>]
    BY DEF Walk
  <2>2. << >> \in Seq(1 .. MaxId)
    OBVIOUS
  <2> HIDE DEF start
  <2>3. QED
    BY <2>1, <2>2, WalkTyped DEF Walk
<1> HIDE DEF step, N, start
<1>7. PICK f \in [0 .. N -> Walk] : StepsBy(f, N, start, step)
  BY <1>2, <1>4, <1>6, RunExists
<1>8. \A n \in 0 .. N : n # 0 => n \in 1 .. N /\ n - 1 \in 0 .. N
  BY <1>2
<1>9. f = [n \in 0 .. N |-> IF n = 0 THEN start ELSE VisitAll(f[n - 1], kids(n))]
  BY <1>5, <1>7, <1>8 DEF StepsBy
<1>10. after = [n \in 0 .. N |-> IF n = 0 THEN start ELSE VisitAll(after[n - 1], kids(n))]
  BY <1>9
<1> HIDE DEF after
<1>11. after[0] = start /\ \A n \in 1 .. N : after[n] = VisitAll(after[n - 1], kids(n))
  <2>1. 0 \in 0 .. N /\ \A n \in 1 .. N : n \in 0 .. N /\ n # 0
    BY <1>2
  <2>2. QED
    BY <1>10, <2>1
<1> DEFINE parents(n) == {W.frontier[i] : i \in 1 .. n}
           seen(n) == ChildrenOf(log, parents(n))
           T == {n \in 0 .. N : Met(W, after[n], seen(n))}
<1>12. 0 \in T
  <2>1. seen(0) = {}
    BY DEF ChildrenOf
  <2>2. Met(W, start, {})
    <3>1. ToSet(start.frontier) = {}
      BY <1>6 DEF ToSet
    <3>2. Len(W.out) \in Nat /\ \A i \in Len(W.out) + 1 .. Len(W.out) : FALSE
      BY WalkTyped
    <3>3. QED
      BY <1>6, <3>1, <3>2 DEF Met
  <2> HIDE DEF seen
  <2>3. Met(W, after[0], seen(0))
    BY <1>11, <2>1, <2>2
  <2>4. QED
    BY <1>2, <2>3
<1>13. ASSUME NEW n \in 0 .. N - 1, n \in T
       PROVE  n + 1 \in T
  <2>1. n + 1 \in 1 .. N /\ (n + 1) - 1 = n /\ n + 1 \in 0 .. N
    BY <1>2
  <2>2. after[n + 1] = VisitAll(after[n], kids(n + 1))
    BY <1>11, <2>1
  <2>3. seen(n + 1) = seen(n) \cup ChildrenOf(log, {W.frontier[n + 1]})
    <3>1. 1 .. n + 1 = (1 .. n) \cup {n + 1}
      BY <2>1
    <3>2. parents(n + 1) = parents(n) \cup {W.frontier[n + 1]}
      BY <3>1
    <3> HIDE DEF parents
    <3>3. QED
      BY <3>2 DEF ChildrenOf
  <2> DEFINE ks == kids(n + 1)
  <2>4. /\ Len(ks) \in Nat
        /\ \A i \in 1 .. Len(ks) : ks[i].id \in 1 .. MaxId
        /\ {ks[i].id : i \in 1 .. Len(ks)} = ChildrenOf(log, {W.frontier[n + 1]})
    BY <1>3, <2>1
  <2> HIDE DEF seen, ks
  <2>5. Met(W, after[n], seen(n))
    BY <1>13
  <2>6. Met(W, VisitAll(after[n], ks), seen(n) \cup {ks[i].id : i \in 1 .. Len(ks)})
    BY <2>4, <2>5, VisitAllMeets
  <2>7. Met(W, after[n + 1], seen(n + 1))
    BY <2>2, <2>3, <2>4, <2>6 DEF ks
  <2>8. QED
    BY <2>1, <2>7
<1>14. Met(W, after[N], seen(N))
  <2> HIDE DEF T, seen
  <2>1. \A n \in 0 .. N : n \in T
    BY <1>2, <1>12, <1>13, CountUp
  <2>2. N \in T
    BY <1>2, <2>1
  <2>3. QED
    BY <2>2 DEF T
<1>15. parents(N) = ToSet(W.frontier)
  BY <1>2 DEF ToSet
<1> HIDE DEF parents
<1>16. QED
  BY <1>1, <1>14, <1>15

-----------------------------------------------------------------------------
(* How far a row is below the root.                                        *)

LEMMA BelowIs ==
  ASSUME NEW log, LogOK(log), NEW root \in 1 .. MaxId
  PROVE  /\ Below(log, root) \in [0 .. MaxId -> SUBSET (1 .. MaxId)]
         /\ Below(log, root)[0] = {root}
         /\ \A n \in 1 .. MaxId :
              Below(log, root)[n] = ChildrenOf(log, Below(log, root)[n - 1])
<1> DEFINE below == CHOOSE f : f = [n \in 0 .. MaxId |->
                      IF n = 0 THEN {root}
                      ELSE {r.id : r \in {q \in log : q.parent \in f[n - 1]}}]
           S == SUBSET (1 .. MaxId)
           step == [p \in (1 .. MaxId) \X S |-> ChildrenOf(log, p[2])]
<1>1. Below(log, root) = below
  BY DEF Below
<1>2. MaxId \in Nat
  BY AuditQueriesAssumption
<1>3. \A A : ChildrenOf(log, A) \in S
  BY DEF ChildrenOf, LogOK
<1>4. step \in [(1 .. MaxId) \X S -> S]
  BY <1>3
<1>5. \A n \in 1 .. MaxId, A \in S : step[<<n, A>>] = ChildrenOf(log, A)
  OBVIOUS
<1>6. {root} \in S
  OBVIOUS
<1> HIDE DEF step, S
<1>7. PICK f \in [0 .. MaxId -> S] : StepsBy(f, MaxId, {root}, step)
  BY <1>2, <1>4, <1>6, RunExists
<1>8. \A n \in 0 .. MaxId : n # 0 => n \in 1 .. MaxId /\ n - 1 \in 0 .. MaxId
  BY <1>2
<1>9. f = [n \in 0 .. MaxId |->
             IF n = 0 THEN {root} ELSE {r.id : r \in {q \in log : q.parent \in f[n - 1]}}]
  <2>1. f = [n \in 0 .. MaxId |-> IF n = 0 THEN {root} ELSE ChildrenOf(log, f[n - 1])]
    BY <1>5, <1>7, <1>8 DEF StepsBy
  <2>2. QED
    BY <2>1 DEF ChildrenOf
<1>10. below = [n \in 0 .. MaxId |->
                 IF n = 0 THEN {root} ELSE {r.id : r \in {q \in log : q.parent \in below[n - 1]}}]
  BY <1>9
<1> HIDE DEF below
<1>11. below[0] = {root} /\ \A n \in 1 .. MaxId : below[n] = ChildrenOf(log, below[n - 1])
  <2>1. 0 \in 0 .. MaxId /\ \A n \in 1 .. MaxId : n \in 0 .. MaxId /\ n # 0
    BY <1>2
  <2>2. QED
    BY <1>10, <2>1 DEF ChildrenOf
<1>12. \A n \in 0 .. MaxId : below[n] \in S
  BY <1>3, <1>6, <1>8, <1>11
<1>13. below \in [0 .. MaxId -> S]
  BY <1>10, <1>12
<1>14. QED
  BY <1>1, <1>11, <1>13 DEF S

\* The depth of a row is the least number of hops.
LEMMA DepthIs ==
  ASSUME NEW log, LogOK(log), NEW root \in 1 .. MaxId, NEW x, NEW n \in 1 .. MaxId,
         x \in Below(log, root)[n]
  PROVE  /\ Depth(log, root, x) \in 1 .. n
         /\ (\A m \in 1 .. n - 1 : x \notin Below(log, root)[m]) => Depth(log, root, x) = n
<1> DEFINE B == Below(log, root)
           T == {m \in 1 .. MaxId : x \in B[m]}
           Is(m) == m \in 1 .. MaxId /\ x \in B[m] /\ \A k \in 1 .. m - 1 : x \notin B[k]
<1>1. MaxId \in Nat
  BY AuditQueriesAssumption
<1>2. T \in SUBSET Nat /\ n \in T
  OBVIOUS
<1>3. PICK m \in T : \A k \in T : m <= k
  <2> HIDE DEF T
  <2>1. QED
    BY <1>2, LeastNat
<1>4. Is(m)
  BY <1>1, <1>3
<1>5. \A k, l : Is(k) /\ Is(l) => k = l
  <2> SUFFICES ASSUME NEW k, NEW l, Is(k), Is(l), k < l
               PROVE  FALSE
    BY <1>1
  <2>1. k \in 1 .. l - 1
    BY <1>1
  <2>2. QED
    BY <2>1
<1>6. Depth(log, root, x) = CHOOSE k \in 1 .. MaxId : x \in B[k] /\ \A i \in 1 .. k - 1 : x \notin B[i]
  BY DEF Depth
<1> HIDE DEF B
<1>7. Is(Depth(log, root, x))
  BY <1>4, <1>6
<1>8. Depth(log, root, x) = m /\ m <= n /\ m \in 1 .. MaxId
  <2> HIDE DEF Is
  <2>1. Depth(log, root, x) = m
    BY <1>4, <1>5, <1>7
  <2>2. QED
    BY <1>2, <1>3, <2>1
<1>9. ASSUME \A k \in 1 .. n - 1 : x \notin B[k]
      PROVE  Depth(log, root, x) = n
  <2>1. Is(n)
    BY <1>2, <1>9
  <2> HIDE DEF Is
  <2>2. QED
    BY <1>5, <1>7, <2>1
<1>10. QED
  BY <1>1, <1>8, <1>9 DEF B

\* The rows at most d hops below the root, and what a walk has after d rounds.
Near(log, root, d) == UNION {Below(log, root)[n] : n \in 0 .. d}

Level(log, root, W, d) ==
  /\ W \in Walk
  /\ W.visited = Near(log, root, d)
  /\ ToSet(W.frontier) = Below(log, root)[d] \ Near(log, root, d - 1)
  /\ ToSet(W.out) = Near(log, root, d) \ {root}
  /\ \A i, j \in 1 .. Len(W.out) : W.out[i] = W.out[j] => i = j
  /\ \A i, j \in 1 .. Len(W.out) :
       i < j => Depth(log, root, W.out[i]) <= Depth(log, root, W.out[j])

LEMMA NearIs ==
  ASSUME NEW log, LogOK(log), NEW root \in 1 .. MaxId
  PROVE  /\ Near(log, root, -1) = {} /\ Near(log, root, 0) = {root}
         /\ \A d \in 0 .. MaxId : /\ Near(log, root, d) = Near(log, root, d - 1) \cup Below(log, root)[d]
                                  /\ root \in Near(log, root, d)
                                  /\ Near(log, root, d) \subseteq 1 .. MaxId
         /\ \A d \in 1 .. MaxId : ChildrenOf(log, Near(log, root, d - 1)) \subseteq Near(log, root, d)
<1> DEFINE B == Below(log, root)
<1>1. MaxId \in Nat
  BY AuditQueriesAssumption
<1>2. /\ B[0] = {root} /\ \A n \in 0 .. MaxId : B[n] \subseteq 1 .. MaxId
      /\ \A n \in 1 .. MaxId : B[n] = ChildrenOf(log, B[n - 1])
  <2> DEFINE IdRange == 1 .. MaxId
  <2>1. /\ B \in [0 .. MaxId -> SUBSET IdRange] /\ B[0] = {root}
        /\ \A n \in 1 .. MaxId : B[n] = ChildrenOf(log, B[n - 1])
    BY BelowIs
  <2> HIDE DEF B, IdRange
  <2>2. \A n \in 0 .. MaxId : B[n] \subseteq IdRange
    BY <2>1
  <2>3. QED
    BY <2>1, <2>2 DEF IdRange
<1>3. \A d, x : x \in Near(log, root, d) <=> \E n \in 0 .. d : x \in B[n]
  BY DEF Near
<1> HIDE DEF B
<1>4. Near(log, root, -1) = {} /\ Near(log, root, 0) = {root}
  BY <1>2, <1>3
<1>5. ASSUME NEW d \in 0 .. MaxId
      PROVE  /\ Near(log, root, d) = Near(log, root, d - 1) \cup B[d]
             /\ root \in Near(log, root, d) /\ Near(log, root, d) \subseteq 1 .. MaxId
  <2>1. \A n : n \in 0 .. d <=> n \in 0 .. d - 1 \/ n = d
    BY <1>1
  <2>2. Near(log, root, d) = Near(log, root, d - 1) \cup B[d]
    BY <1>3, <2>1
  <2>3. 0 \in 0 .. d /\ \A n \in 0 .. d : n \in 0 .. MaxId
    BY <1>1
  <2>4. QED
    BY <1>2, <1>3, <2>2, <2>3
<1>6. ASSUME NEW d \in 1 .. MaxId, NEW x \in ChildrenOf(log, Near(log, root, d - 1))
      PROVE  x \in Near(log, root, d)
  <2>1. PICK r \in log : r.parent \in Near(log, root, d - 1) /\ x = r.id
    BY <1>6 DEF ChildrenOf
  <2>2. PICK n \in 0 .. d - 1 : r.parent \in B[n]
    BY <1>3, <2>1
  <2>3. n + 1 \in 1 .. MaxId /\ n + 1 \in 0 .. d /\ (n + 1) - 1 = n
    BY <1>1
  <2>4. x \in B[n + 1]
    BY <1>2, <2>1, <2>2, <2>3 DEF ChildrenOf
  <2>5. QED
    BY <1>3, <2>3, <2>4
<1>7. QED
  BY <1>4, <1>5, <1>6 DEF B

LEMMA LevelStart ==
  ASSUME NEW log, LogOK(log), NEW root \in 1 .. MaxId
  PROVE  Level(log, root, [visited |-> {root}, out |-> << >>, frontier |-> <<root>>], 0)
<1> DEFINE W == [visited |-> {root}, out |-> << >>, frontier |-> <<root>>]
<1>1. W \in Walk
  <2>1. <<root>> \in Seq(1 .. MaxId) /\ << >> \in Seq(1 .. MaxId) /\ {root} \in SUBSET (1 .. MaxId)
    OBVIOUS
  <2>2. QED
    BY <2>1 DEF Walk
<1>2. ToSet(<<root>>) = {root} /\ ToSet(<< >>) = {} /\ Len(<< >>) = 0
  BY DEF ToSet
<1>3. Near(log, root, 0) = {root} /\ Near(log, root, 0 - 1) = {} /\ Below(log, root)[0] = {root}
  BY NearIs, BelowIs
<1>4. W.visited = {root} /\ W.out = << >> /\ W.frontier = <<root>>
  OBVIOUS
<1> HIDE DEF W
<1>5. Level(log, root, W, 0)
  BY <1>1, <1>2, <1>3, <1>4 DEF Level
<1>6. QED
  BY <1>5 DEF W

LEMMA LevelNext ==
  ASSUME NEW log, LogOK(log), NEW root \in 1 .. MaxId, NEW d \in 0 .. MaxId - 1, NEW W,
         Level(log, root, W, d)
  PROVE  Level(log, root, NextLevel(log, W), d + 1)
<1> DEFINE B == Below(log, root)
           near == Near(log, root, d)
           C == ChildrenOf(log, ToSet(W.frontier))
           w == NextLevel(log, W)
<1>1. MaxId \in Nat /\ d + 1 \in 1 .. MaxId /\ d + 1 \in 0 .. MaxId /\ d \in 0 .. MaxId /\ (d + 1) - 1 = d
  BY AuditQueriesAssumption
<1>2. /\ near = Near(log, root, d - 1) \cup B[d] /\ root \in near
      /\ Near(log, root, d + 1) = near \cup B[d + 1]
      /\ d = 0 => Near(log, root, d - 1) = {}
      /\ d # 0 => ChildrenOf(log, Near(log, root, d - 1)) \subseteq near
  <2>1. d = 0 => d - 1 = -1
    OBVIOUS
  <2>2. d # 0 => d \in 1 .. MaxId
    BY <1>1
  <2>3. QED
    BY <1>1, <2>1, <2>2, NearIs
<1>3. B[d + 1] = ChildrenOf(log, B[d])
  BY <1>1, BelowIs
<1>4. /\ W \in Walk /\ W.visited = near /\ ToSet(W.frontier) = B[d] \ Near(log, root, d - 1)
      /\ ToSet(W.out) = near \ {root}
      /\ \A i, j \in 1 .. Len(W.out) : W.out[i] = W.out[j] => i = j
      /\ \A i, j \in 1 .. Len(W.out) :
           i < j => Depth(log, root, W.out[i]) <= Depth(log, root, W.out[j])
  BY DEF Level
<1>5. Met(W, w, C)
  BY <1>4, NextLevelMeets
<1> HIDE DEF B, near, C, w
<1>6. near \cup C = near \cup B[d + 1] /\ C \ near = B[d + 1] \ near
  <2>1. C \subseteq B[d + 1]
    BY <1>3, <1>4 DEF C, ChildrenOf
  <2>2. \A x \in B[d + 1] : x \in C \/ x \in near
    <3> SUFFICES ASSUME NEW x \in B[d + 1], x \notin C
                 PROVE  x \in near
      OBVIOUS
    <3>1. PICK r \in log : r.parent \in B[d] /\ x = r.id
      BY <1>3 DEF ChildrenOf
    <3>2. r.parent \in Near(log, root, d - 1)
      BY <1>4, <3>1 DEF C, ChildrenOf
    <3>3. x \in ChildrenOf(log, Near(log, root, d - 1))
      BY <3>1, <3>2 DEF ChildrenOf
    <3>4. QED
      BY <1>2, <3>2, <3>3
  <2>3. QED
    BY <2>1, <2>2
<1>7. /\ w \in Walk /\ w.visited = near \cup C
      /\ ToSet(w.frontier) = C \ near /\ ToSet(w.out) = (near \ {root}) \cup (C \ near)
      /\ \A i, j \in 1 .. Len(w.out) : w.out[i] = w.out[j] => i = j
      /\ Len(W.out) <= Len(w.out)
      /\ \A i \in 1 .. Len(W.out) : w.out[i] = W.out[i]
      /\ \A i \in Len(W.out) + 1 .. Len(w.out) : w.out[i] \in C \ near
  BY <1>4, <1>5 DEF Met
<1>8. Len(W.out) \in Nat /\ Len(w.out) \in Nat /\ \A i \in 1 .. Len(W.out) : W.out[i] \in ToSet(W.out)
  BY <1>4, <1>7, WalkTyped DEF ToSet
<1>9. \A x \in near \ {root} : Depth(log, root, x) \in 1 .. d
  <2> SUFFICES ASSUME NEW x \in near \ {root}
               PROVE  Depth(log, root, x) \in 1 .. d
    OBVIOUS
  <2>1. PICK n \in 0 .. d : x \in B[n]
    BY DEF near, Near, B
  <2>2. n # 0
    BY <2>1, BelowIs DEF B
  <2>3. n \in 1 .. MaxId
    BY <1>1, <2>2
  <2>4. Depth(log, root, x) \in 1 .. n
    BY <2>1, <2>3, DepthIs DEF B
  <2>5. QED
    BY <2>4
<1>10. \A x \in C \ near : Depth(log, root, x) = d + 1
  <2> SUFFICES ASSUME NEW x \in C \ near
               PROVE  Depth(log, root, x) = d + 1
    OBVIOUS
  <2>1. x \in B[d + 1]
    BY <1>6
  <2>2. \A n \in 1 .. (d + 1) - 1 : x \notin B[n]
    <3>1. \A n \in 1 .. (d + 1) - 1 : n \in 0 .. d
      OBVIOUS
    <3>2. QED
      BY <3>1 DEF near, Near, B
  <2>3. QED
    BY <1>1, <2>1, <2>2, DepthIs DEF B
<1>11. ASSUME NEW i \in 1 .. Len(w.out), NEW j \in 1 .. Len(w.out), i < j
       PROVE  Depth(log, root, w.out[i]) <= Depth(log, root, w.out[j])
  <2>1. \A k \in 1 .. Len(w.out) : k \in 1 .. Len(W.out) \/ k \in Len(W.out) + 1 .. Len(w.out)
    BY <1>8
  <2>2. \A k \in 1 .. Len(W.out) : w.out[k] = W.out[k] /\ Depth(log, root, w.out[k]) \in 1 .. d
    BY <1>4, <1>7, <1>8, <1>9
  <2>3. \A k \in Len(W.out) + 1 .. Len(w.out) : Depth(log, root, w.out[k]) = d + 1
    BY <1>7, <1>10
  <2>4. CASE j \in 1 .. Len(W.out)
    <3>1. i \in 1 .. Len(W.out)
      BY <1>8, <1>11, <2>4
    <3>2. QED
      BY <1>4, <1>11, <2>2, <2>4, <3>1
  <2>5. CASE j \in Len(W.out) + 1 .. Len(w.out)
    BY <2>1, <2>2, <2>3, <2>5
  <2>6. QED
    BY <2>1, <2>4, <2>5
<1>12. w.visited = Near(log, root, d + 1)
  BY <1>2, <1>6, <1>7
<1>13. ToSet(w.frontier) = B[d + 1] \ Near(log, root, (d + 1) - 1)
  BY <1>1, <1>6, <1>7 DEF near
<1>14. ToSet(w.out) = Near(log, root, d + 1) \ {root}
  BY <1>2, <1>6, <1>7
<1>15. QED
  BY <1>7, <1>11, <1>12, <1>13, <1>14 DEF Level, B, w

\* A walk that can go on: no row twice in what it returns, and all of that visited.
Sound(W) ==
  /\ W \in Walk
  /\ \A i, j \in 1 .. Len(W.out) : W.out[i] = W.out[j] => i = j
  /\ ToSet(W.out) \subseteq W.visited

LEMMA WalkIs ==
  ASSUME NEW log, LogOK(log), NEW root \in 1 .. MaxId, NEW rounds \in 0 .. MaxId
  PROVE  Level(log, root, WalkFrom(log, root, rounds), rounds)
<1> DEFINE start == [visited |-> {root}, out |-> << >>, frontier |-> <<root>>]
           walk == CHOOSE f : f = [d \in 0 .. rounds |->
                     IF d = 0 THEN start ELSE NextLevel(log, f[d - 1])]
           S == {W \in Walk : Sound(W)}
           step == [p \in (1 .. rounds) \X S |-> NextLevel(log, p[2])]
<1>1. WalkFrom(log, root, rounds) = walk[rounds]
  BY DEF WalkFrom
<1>2. rounds \in Nat /\ MaxId \in Nat
  BY AuditQueriesAssumption
<1>3. \A W \in S : NextLevel(log, W) \in S
  <2> SUFFICES ASSUME NEW W \in S
               PROVE  NextLevel(log, W) \in S
    OBVIOUS
  <2>1. Sound(W)
    OBVIOUS
  <2>2. Met(W, NextLevel(log, W), ChildrenOf(log, ToSet(W.frontier)))
    BY <2>1, NextLevelMeets DEF Sound
  <2>3. QED
    BY <2>2 DEF Met, Sound
<1>4. step \in [(1 .. rounds) \X S -> S]
  <2> HIDE DEF S
  <2>1. QED
    BY <1>3
<1>5. \A n \in 1 .. rounds, W \in S : step[<<n, W>>] = NextLevel(log, W)
  OBVIOUS
<1>6. Level(log, root, start, 0)
  BY LevelStart
<1>7. start \in S
  <2>1. root \in Near(log, root, 0) /\ start.visited = Near(log, root, 0)
    BY <1>2, <1>6, NearIs DEF Level
  <2> HIDE DEF start
  <2>2. QED
    BY <1>6, <2>1 DEF Level, Sound
<1> HIDE DEF step, S, start
<1>8. PICK f \in [0 .. rounds -> S] : StepsBy(f, rounds, start, step)
  BY <1>2, <1>4, <1>7, RunExists
<1>9. \A n \in 0 .. rounds : n # 0 => n \in 1 .. rounds /\ n - 1 \in 0 .. rounds
  BY <1>2
<1>10. f = [d \in 0 .. rounds |-> IF d = 0 THEN start ELSE NextLevel(log, f[d - 1])]
  BY <1>5, <1>8, <1>9 DEF StepsBy
<1>11. walk = [d \in 0 .. rounds |-> IF d = 0 THEN start ELSE NextLevel(log, walk[d - 1])]
  BY <1>10
<1> HIDE DEF walk
<1>12. walk[0] = start /\ \A d \in 1 .. rounds : walk[d] = NextLevel(log, walk[d - 1])
  <2>1. 0 \in 0 .. rounds /\ \A n \in 1 .. rounds : n \in 0 .. rounds /\ n # 0
    BY <1>2
  <2>2. QED
    BY <1>11, <2>1
<1> DEFINE T == {d \in 0 .. rounds : Level(log, root, walk[d], d)}
<1>13. 0 \in T
  BY <1>2, <1>6, <1>12
<1>14. ASSUME NEW d \in 0 .. rounds - 1, d \in T
       PROVE  d + 1 \in T
  <2>1. d \in 0 .. MaxId - 1 /\ d + 1 \in 1 .. rounds /\ d + 1 \in 0 .. rounds /\ (d + 1) - 1 = d
    BY <1>2
  <2>2. walk[d + 1] = NextLevel(log, walk[d])
    BY <1>12, <2>1
  <2>3. QED
    BY <1>14, <2>1, <2>2, LevelNext
<1>15. rounds \in T
  <2> HIDE DEF T
  <2>1. \A d \in 0 .. rounds : d \in T
    BY <1>2, <1>13, <1>14, CountUp
  <2>2. QED
    BY <1>2, <2>1
<1>16. QED
  BY <1>1, <1>15

\* As long as a level finds rows, each of the levels above it has found one more.
LEMMA NearGrows ==
  ASSUME NEW log, LogOK(log), NEW root \in 1 .. MaxId, NEW d \in 0 .. MaxId,
         Below(log, root)[d] \ Near(log, root, d - 1) # {}
  PROVE  /\ IsFiniteSet(Near(log, root, d)) /\ Cardinality(Near(log, root, d)) \in Nat
         /\ Cardinality(Near(log, root, d)) >= d + 1
<1> DEFINE B == Below(log, root)
           near(n) == Near(log, root, n)
<1>1. MaxId \in Nat /\ IsFiniteSet(1 .. MaxId)
  BY AuditQueriesAssumption, FS_Interval
<1>2. \A n \in 0 .. MaxId : /\ near(n) = near(n - 1) \cup B[n]
                            /\ near(n) \subseteq 1 .. MaxId
  BY NearIs
<1>3. \A n \in 0 .. MaxId : IsFiniteSet(near(n)) /\ Cardinality(near(n)) \in Nat
  BY <1>1, <1>2, FS_Subset, FS_CardinalityType
<1>4. near(0) = {root}
  BY NearIs
<1>5. \A n \in 1 .. MaxId : ChildrenOf(log, near(n - 1)) \subseteq near(n) /\ B[n] = ChildrenOf(log, B[n - 1])
  BY NearIs, BelowIs
<1> HIDE DEF near, B
<1>6. ASSUME NEW n \in 1 .. MaxId, B[n] \ near(n - 1) # {}
      PROVE  B[n - 1] \ near(n - 2) # {}
  <2> SUFFICES ASSUME B[n - 1] \subseteq near(n - 2)
               PROVE  FALSE
    OBVIOUS
  <2>1. n # 1
    <3> SUFFICES ASSUME n = 1
                 PROVE  FALSE
      OBVIOUS
    <3>1. n - 1 = 0 /\ n - 2 = -1
      OBVIOUS
    <3>2. near(-1) = {} /\ B[0] = {root}
      BY NearIs, BelowIs DEF near, B
    <3>3. QED
      BY <3>1, <3>2
  <2>2. n - 1 \in 1 .. MaxId /\ (n - 1) - 1 = n - 2
    BY <1>1, <2>1
  <2>3. ChildrenOf(log, near(n - 2)) \subseteq near(n - 1)
    BY <1>5, <2>2
  <2>4. B[n] \subseteq near(n - 1)
    BY <1>5, <2>3 DEF ChildrenOf
  <2>5. QED
    BY <1>6, <2>4
<1> DEFINE T == {n \in 0 .. d : B[n] \ near(n - 1) # {} => Cardinality(near(n)) >= n + 1}
<1>7. 0 \in T
  <2>1. Cardinality({root}) = 1
    BY FS_Singleton
  <2>2. QED
    BY <1>4, <2>1
<1>8. ASSUME NEW n \in 0 .. d - 1, n \in T
      PROVE  n + 1 \in T
  <2>1. n + 1 \in 1 .. MaxId /\ (n + 1) - 1 = n /\ (n + 1) - 2 = n - 1 /\ n + 1 \in 0 .. d
        /\ n + 1 \in 0 .. MaxId /\ n \in 0 .. MaxId
    BY <1>1
  <2>2. ASSUME B[n + 1] \ near(n) # {}
        PROVE  Cardinality(near(n + 1)) >= (n + 1) + 1
    <3>1. B[n] \ near(n - 1) # {}
      BY <1>6, <2>1, <2>2
    <3>2. Cardinality(near(n)) >= n + 1
      BY <1>8, <3>1
    <3>3. near(n) \in SUBSET near(n + 1) /\ near(n) # near(n + 1)
      BY <1>2, <2>1, <2>2
    <3>4. /\ Cardinality(near(n)) <= Cardinality(near(n + 1))
          /\ Cardinality(near(n + 1)) = Cardinality(near(n)) => near(n + 1) = near(n)
      BY <1>3, <2>1, <3>3, FS_Subset
    <3>5. QED
      BY <1>3, <2>1, <3>2, <3>3, <3>4
  <2>3. QED
    BY <2>1, <2>2
<1>9. d \in T
  <2> HIDE DEF T
  <2>1. \A n \in 0 .. d : n \in T
    BY <1>7, <1>8, CountUp
  <2>2. QED
    BY <2>1
<1>10. QED
  BY <1>3, <1>9 DEF near, B

\* audit.ts:253-284: from any row of any log, whatever is in parent_id, the walk returns
\* every descendant within maxDepth once and never the root, the nearer ones first; and
\* without a maxDepth it ends after at most as many rounds as there can be ids.
THEOREM WalkFindsDescendants ==
  ASSUME NEW log, LogOK(log)
  PROVE  DescendantsExact(log)
<1>1. ASSUME NEW root \in 1 .. MaxId
      PROVE  WalkFrom(log, root, MaxId).frontier = << >>
  <2> DEFINE W == WalkFrom(log, root, MaxId)
  <2>1. MaxId \in Nat /\ MaxId \in 0 .. MaxId
        /\ IsFiniteSet(1 .. MaxId) /\ Cardinality(1 .. MaxId) = MaxId
    BY AuditQueriesAssumption, FS_Interval
  <2>2. Level(log, root, W, MaxId)
    BY <2>1, WalkIs
  <2>3. ToSet(W.frontier) = {}
    <3> SUFFICES ASSUME ToSet(W.frontier) # {}
                 PROVE  FALSE
      OBVIOUS
    <3> DEFINE near == Near(log, root, MaxId)
    <3>1. Cardinality(near) \in Nat /\ Cardinality(near) >= MaxId + 1
      BY <2>1, <2>2, NearGrows DEF Level
    <3>2. near \in SUBSET (1 .. MaxId)
      BY <2>1, NearIs
    <3>3. Cardinality(near) <= MaxId
      BY <2>1, <3>2, FS_Subset
    <3>4. QED
      BY <2>1, <3>1, <3>3
  <2>4. W.frontier \in Seq(1 .. MaxId) /\ Len(W.frontier) \in Nat /\ DOMAIN W.frontier = 1 .. Len(W.frontier)
    BY <2>2, WalkTyped DEF Level
  <2> HIDE DEF W
  <2>5. Len(W.frontier) = 0
    <3> DEFINE f == W.frontier
    <3>1. \A i \in DOMAIN f : f[i] \in ToSet(f)
      BY DEF ToSet
    <3>2. ToSet(f) = {} /\ DOMAIN f = 1 .. Len(f) /\ Len(f) \in Nat
      BY <2>3, <2>4
    <3> HIDE DEF f
    <3>3. 1 \notin DOMAIN f
      BY <3>1, <3>2
    <3>4. Len(f) = 0
      BY <3>2, <3>3
    <3>5. QED
      BY <3>4 DEF f
  <2>6. W.frontier = << >>
    BY <2>4, <2>5
  <2>7. QED
    BY <2>6 DEF W
<1>2. ASSUME NEW root \in 1 .. MaxId, NEW maxDepth \in 0 .. MaxId
      PROVE  LET out == QueryDescendants(log, root, maxDepth)
                 reached == (UNION {Below(log, root)[n] : n \in 1 .. maxDepth}) \ {root}
             IN  /\ ToSet(out) = reached /\ Len(out) = Cardinality(reached)
                 /\ \A i, j \in DOMAIN out :
                      i < j => Depth(log, root, out[i]) <= Depth(log, root, out[j])
  <2> DEFINE W == WalkFrom(log, root, maxDepth)
             out == QueryDescendants(log, root, maxDepth)
             U == UNION {Below(log, root)[n] : n \in 1 .. maxDepth}
             reached == U \ {root}
  <2>1. Level(log, root, W, maxDepth)
    BY WalkIs
  <2>2. out = W.out
    BY DEF QueryDescendants
  <2>3. reached = Near(log, root, maxDepth) \ {root}
    <3> DEFINE B == Below(log, root)
    <3>1. B[0] = {root}
      BY BelowIs
    <3>2. Near(log, root, maxDepth) = UNION {B[n] : n \in 0 .. maxDepth}
      BY DEF Near
    <3>3. \A x : x \in U <=> \E n \in 1 .. maxDepth : x \in B[n]
      OBVIOUS
    <3> HIDE DEF B, U
    <3>4. \A n : n \in 0 .. maxDepth <=> n = 0 \/ n \in 1 .. maxDepth
      OBVIOUS
    <3>5. \A x : x \in Near(log, root, maxDepth)
                 <=> x = root \/ \E n \in 1 .. maxDepth : x \in B[n]
      BY <3>1, <3>2, <3>4
    <3>6. \A x : x \in reached <=> x # root /\ \E n \in 1 .. maxDepth : x \in B[n]
      BY <3>3
    <3> DEFINE N == Near(log, root, maxDepth)
    <3>7. \A x : x \in N <=> x = root \/ \E n \in 1 .. maxDepth : x \in B[n]
      BY <3>5
    <3> HIDE DEF N
    <3>8. reached = N \ {root}
      BY <3>6, <3>7
    <3>9. QED
      BY <3>8 DEF N
  <2>4. out \in Seq(1 .. MaxId) /\ Len(out) \in Nat /\ DOMAIN out = 1 .. Len(out)
    BY <2>1, <2>2, WalkTyped DEF Level
  <2> HIDE DEF W, U, reached, out
  <2>5. ToSet(out) = reached
    BY <2>1, <2>2, <2>3 DEF Level
  <2>6. \A i, j \in 1 .. Len(out) : out[i] = out[j] => i = j
    BY <2>1, <2>2 DEF Level
  <2>7. Len(out) = Cardinality(reached)
    <3> DEFINE b == [i \in 1 .. Len(out) |-> out[i]]
    <3>1. reached = {out[i] : i \in 1 .. Len(out)}
      BY <2>4, <2>5 DEF ToSet
    <3>2. b \in Bijection(1 .. Len(out), reached)
      BY <2>6, <3>1 DEF Bijection, Injection, IsInjective, Surjection
    <3>3. ExistsBijection(1 .. Len(out), reached)
      BY <3>2 DEF ExistsBijection
    <3>4. QED
      BY <2>4, <3>3, FS_CountingElements
  <2>8. \A i, j \in DOMAIN out :
          i < j => Depth(log, root, out[i]) <= Depth(log, root, out[j])
    BY <2>1, <2>2, <2>4 DEF Level
  <2>9. QED
    BY <2>5, <2>7, <2>8 DEF reached, U, out
<1>3. QED
  BY <1>1, <1>2 DEF DescendantsExact

\* audit.ts:185-284, as an invariant of the runs' reads: pages and walks are exact for
\* every log that a run is given, whatever the bounds on its rows.
THEOREM QueryReads == ReadsSpec => []QueriesExact
<1>1. ReadsInit => QueriesExact
  BY NothingElseGiven, LogsAreOK, PagesTileEveryLog, WalkFindsDescendants DEF QueriesExact
<1>2. QueriesExact /\ [UNCHANGED given]_given => QueriesExact'
  BY DEF QueriesExact
<1>3. QED
  BY <1>1, <1>2, PTL DEF ReadsSpec
=============================================================================
