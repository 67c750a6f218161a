------------------------------ MODULE AuditStore ------------------------------
(***************************************************************************)
(* The SQLite audit log (packages/core/src/audit.ts) as pure operators on  *)
(* its two tables, with the chain helpers (chain.ts) and the verifier      *)
(* (verify-chain.ts) that read them.                                       *)
(*                                                                         *)
(* The `events` table is a set of rows and `chain_genesis` a set of        *)
(* tuples; both have a primary key.  A row is                              *)
(*   [id, ts, agent, version, prev, key, intact]                           *)
(* where `key` is the signing key and `intact` says that the stored JSON   *)
(* is the JSON that was hashed and signed.  sha256 is taken to be          *)
(* collision free and a row's id is part of what is hashed, so the hash of *)
(* a row is represented by its id.                                         *)
(***************************************************************************)
EXTENDS Integers, FiniteSets

CONSTANT Agents        \* agent_id values

ASSUME AgentsAssumption == Agents # {}

-----------------------------------------------------------------------------
(* Values of the chain_prev_hash and chain_self_hash columns.              *)

\* The seed string `genesis:<agent_id>:<iso8601>`; never equal to a hex digest.
Seed(a, ts) == [kind |-> "seed", agent |-> a, ts |-> ts]

\* chain_self_hash of the row with this id.
HashOf(id) == [kind |-> "hash", id |-> id]

\* SQL NULL, the hash columns of a v1 row.
NoHash == [kind |-> "null"]

-----------------------------------------------------------------------------
(* Reads.                                                                  *)

\* ORDER BY timestamp, id: the order of every query of the log.
Before(r, s) == r.ts < s.ts \/ (r.ts = s.ts /\ r.id < s.id)

\* WHERE agent_id = a AND version = '2'.
V2(rows, a) == {r \in rows : r.agent = a /\ r.version = 2}

\* h comes last in the set S of rows.
IsHead(S, h) == h \in S /\ \A r \in S \ {h} : Before(r, h)

\* ORDER BY timestamp DESC, id DESC LIMIT 1.
ReadHeadEvent(rows, a) == CHOOSE h \in V2(rows, a) : IsHead(V2(rows, a), h)

\* Altered forms of ReadLatestHash: without the version filter, ordered by id
\* alone, and in ascending order.
LatestHashOfAnyVersion(rows, a) ==
  LET S == {r \in rows : r.agent = a} IN
  IF \E h \in S : IsHead(S, h) /\ h.version = 2
  THEN HashOf((CHOOSE h \in S : IsHead(S, h)).id)
  ELSE NoHash

LatestHashById(rows, a) ==
  IF V2(rows, a) = {} THEN NoHash
  ELSE HashOf((CHOOSE h \in V2(rows, a) : \A r \in V2(rows, a) : r.id <= h.id).id)

LatestHashAscending(rows, a) ==
  IF V2(rows, a) = {} THEN NoHash
  ELSE HashOf((CHOOSE h \in V2(rows, a) :
                 \A r \in V2(rows, a) \ {h} : Before(h, r)).id)

ReadLatestHash(rows, a) ==
  IF V2(rows, a) = {} THEN NoHash ELSE HashOf(ReadHeadEvent(rows, a).id)

\* The genesis tuple of an agent, as an empty or one-element set.
ReadGenesis(genesis, a) == {g \in genesis : g.agent = a}

ListV2Agents(rows) == {r.agent : r \in {s \in rows : s.version = 2}}

\* chain_prev_hash of the event that agent a is about to write at time ts.
ReadPrevHashForNextEvent(rows, genesis, a, ts) ==
  IF ReadLatestHash(rows, a) # NoHash
  THEN ReadLatestHash(rows, a)
  ELSE IF ReadGenesis(genesis, a) # {}
       THEN Seed(a, (CHOOSE g \in genesis : g.agent = a).ts)
       ELSE Seed(a, ts)

-----------------------------------------------------------------------------
(* Writes.                                                                 *)

\* The genesis table after writeChain of the row r.
GenesisAfter(genesis, r) ==
  IF ReadGenesis(genesis, r.agent) # {}
  THEN genesis
  ELSE genesis \cup {[agent |-> r.agent, id |-> r.id, ts |-> r.ts]}

-----------------------------------------------------------------------------
(* The verifier: a walk of the agent's v2 rows in `timestamp, id` order.   *)

\* p is the row the walk visits just before r.
IsPredecessor(S, p, r) ==
  /\ p \in S
  /\ Before(p, r)
  /\ \A q \in S : Before(q, r) => q = p \/ Before(q, p)

\* Altered: the first row's seed is not compared.
LinkHoldsUnrooted(S, r) ==
  \/ \A q \in S : ~Before(q, r)
  \/ \E p \in S : IsPredecessor(S, p, r) /\ r.prev = HashOf(p.id)

\* Check (3): the first row carries its own genesis seed, every other row the
\* hash of the row before it.
LinkHolds(S, r) ==
  IF \A q \in S : ~Before(q, r)
  THEN r.prev = Seed(r.agent, r.ts)
  ELSE \E p \in S : IsPredecessor(S, p, r) /\ r.prev = HashOf(p.id)

\* Checks (1) recomputed hash, (2) signature, (3) link, in the code's order.
FailedCheck(S, r, key) ==
  IF ~r.intact THEN "chain_self_hash"
  ELSE IF r.key # key THEN "signature"
  ELSE IF LinkHolds(S, r) THEN "none"
  ELSE IF \A q \in S : ~Before(q, r) THEN "genesis_seed"
  ELSE "chain_prev_hash"

\* Outcome of verifyChain for agent a with public key `key`: exit 0, 1 or 2.
VerifyChain(rows, a, key) ==
  LET S == V2(rows, a) IN
  IF S = {} THEN "missing"
  ELSE IF \A r \in S : FailedCheck(S, r, key) = "none" THEN "pass"
  ELSE "mismatch"

=============================================================================
