------------------------------ MODULE AnchorProofs ------------------------------
(***************************************************************************)
(* Proofs about AnchorPublisher for runs that do not overlap: any number   *)
(* of runs, dates, agents and push attempts, and any faults.               *)
(***************************************************************************)
EXTENDS AnchorPublisher, TLAPS

-----------------------------------------------------------------------------
(* The inductive invariant.                                                *)

Tree == [Dates -> Manifest]

\* Position by position, l is at or before m.
Le(l, m) == \A a \in Agents : l[a] <= m[a]

\* Runs follow one another.
OneActive == \A q, r \in Runs : Active(q) /\ Active(r) => q = r

Typed ==
  /\ log \in Manifest
  /\ worktree \in [Dates -> Manifest \cup {Torn}]
  /\ index \in Tree
  /\ history \in Seq(Tree) /\ HEAD \in Nat \ {0}
  /\ pc \in [Runs -> {"idle"} \cup Stages \cup Ends]
  /\ date \in [Runs -> Dates] /\ dry \in [Runs -> BOOLEAN]
  /\ todo \in [Runs -> SUBSET Agents]
  /\ got \in [Runs -> Manifest] /\ base \in [Runs -> Manifest]
  /\ tries \in [Runs -> Nat]

\* What git holds is made of heads that were in the log, and goes forward from commit to
\* commit and on to the index.
Forward ==
  \A d \in Dates :
    /\ Le(index[d], log)
    /\ \A i \in 1..HEAD : Le(history[i][d], index[d])
    /\ \A i, j \in 1..HEAD : i <= j => Le(history[i][d], history[j][d])

\* Each reference names a commit, and no copy is ahead of what it was copied from.
Refs ==
  /\ rbranch \in 1..HEAD
  /\ tag \in [Dates -> 0..HEAD]
  /\ rtag \in [Dates -> Nat]
  /\ \A d \in Dates : rtag[d] <= tag[d] /\ rtag[d] <= rbranch

\* The manifest that a run builds.
Building(r) ==
  /\ Le(base[r], log) /\ Le(got[r], log)
  /\ pc[r] = "reading" => \A a \in Agents \ todo[r] : base[r][a] <= got[r][a]
  /\ pc[r] \in Stages \ {"reading"} => Le(base[r], got[r])

\* How far that manifest has come.
Carried(r) ==
  /\ pc[r] \in {"reading", "truncating", "filling", "adding"} =>
       \A d \in Dates : Le(index[d], base[r])
  /\ pc[r] = "adding" => worktree[date[r]] = got[r]
  /\ pc[r] \in {"committing", "tagging", "pushing branch", "pushing tag"} =>
       index[date[r]] = got[r]
  /\ pc[r] \in {"tagging", "pushing branch", "pushing tag"} => history[HEAD] = index
  /\ pc[r] \in {"pushing branch", "pushing tag"} => tag[date[r]] = HEAD
  /\ pc[r] = "pushing tag" => rbranch = HEAD

\* A run that succeeded is anchored.
Secured(r) ==
  pc[r] = "success" =>
    /\ rtag[date[r]] \in 1..rbranch
    /\ Le(base[r], history[rtag[date[r]]][date[r]])

AnchorInv ==
  /\ OneActive /\ Typed /\ Forward /\ Refs
  /\ \A r \in Runs : Building(r) /\ Carried(r) /\ Secured(r)

-----------------------------------------------------------------------------
(* Lemmas.                                                                 *)

\* What appending a commit to the history does.
LEMMA AppendCommit ==
  ASSUME NEW S, NEW s \in Seq(S), NEW x \in S
  PROVE  /\ Append(s, x) \in Seq(S)
         /\ Len(Append(s, x)) = Len(s) + 1
         /\ Append(s, x)[Len(s) + 1] = x
         /\ \A i \in 1..Len(s) : Append(s, x)[i] = s[i]
OBVIOUS

\* Le is an order on manifests.
LEMMA LeOrder ==
  ASSUME NEW l \in Manifest, NEW m \in Manifest, NEW n \in Manifest
  PROVE  /\ Le(l, l)
         /\ Le(l, m) /\ Le(m, n) => Le(l, n)
BY DEF Le, Manifest

\* Commits and trees have manifests in them.
LEMMA Manifests ==
  ASSUME Typed
  PROVE  /\ \A d \in Dates : index[d] \in Manifest
         /\ \A i \in 1..HEAD : history[i] \in Tree
         /\ \A i \in 1..HEAD, d \in Dates : history[i][d] \in Manifest
         /\ \A r \in Runs : got[r] \in Manifest /\ base[r] \in Manifest
         /\ HEAD \in 1..HEAD
BY DEF Typed, Tree, HEAD

\* While one run is active, no other is at any stage.
LEMMA OthersQuiet ==
  ASSUME AnchorInv, NEW r \in Runs, Active(r), NEW q \in Runs \ {r}
  PROVE  pc[q] \notin Stages
BY DEF AnchorInv, OneActive, Active

\* A step of run r that touches nothing but its own stage and a run's private data
\* keeps what is said of log, git and remote.
LEMMA GitKept ==
  ASSUME AnchorInv, UNCHANGED <<log, index, history, tag, remote>>
  PROVE  Forward' /\ Refs'
BY DEF AnchorInv, Forward, Refs, remote, HEAD, Le

LEMMA EmitKeeps ==
  ASSUME AnchorInv, NEW a \in Agents, Emit(a)
  PROVE  AnchorInv'
<1> USE DEF Emit, clone, remote, run
<1>1. log' \in Manifest /\ Le(log, log')
  BY DEF AnchorInv, Typed, Manifest, Le
<1>2. \A m \in Manifest : Le(m, log) => Le(m, log')
  BY <1>1, LeOrder DEF AnchorInv, Typed
<1>3. OneActive' /\ Typed'
  BY <1>1 DEF AnchorInv, OneActive, Active, Typed, HEAD
<1>4. Forward'
  BY <1>2, Manifests DEF AnchorInv, Forward, HEAD, Le
<1>5. Refs'
  BY DEF AnchorInv, Refs, HEAD
<1>6. ASSUME NEW r \in Runs
      PROVE  (Building(r) /\ Carried(r) /\ Secured(r))'
  <2>1. Building(r)'
    BY <1>2, Manifests DEF AnchorInv, Building, Le
  <2>2. Carried(r)'
    BY DEF AnchorInv, Carried, HEAD, Le
  <2>3. Secured(r)'
    BY DEF AnchorInv, Secured, Le
  <2>4. QED
    BY <2>1, <2>2, <2>3
<1>7. QED
  BY <1>3, <1>4, <1>5, <1>6 DEF AnchorInv

LEMMA LaunchKeeps ==
  ASSUME AnchorInv, ~Overlap, NEW r \in Runs, Launch(r)
  PROVE  AnchorInv'
<1> USE DEF Launch, Goto, clone, remote
<1>1. \A q \in Runs : ~Active(q)
  OBVIOUS
<1>2. OneActive'
  BY <1>1 DEF AnchorInv, OneActive, Active, Typed
<1>3. Typed'
  BY DEF AnchorInv, Typed, HEAD, Stages, Ends
<1>4. Forward' /\ Refs'
  BY GitKept DEF AnchorInv
<1>5. ASSUME NEW q \in Runs
      PROVE  (Building(q) /\ Carried(q) /\ Secured(q))'
  <2>1. CASE q # r
    <3>1. /\ pc'[q] = pc[q] /\ pc[q] \notin Stages
          /\ base'[q] = base[q] /\ got'[q] = got[q]
      BY <1>1, <2>1 DEF Active, AnchorInv, Typed
    <3>2. QED
      BY <3>1 DEF AnchorInv, Building, Carried, Secured, Stages, Le
  <2>2. CASE q = r
    <3>1. pc'[r] \in {"missing", "reading"} /\ base'[r] = log /\ got'[r] = got[r]
      BY <2>2 DEF AnchorInv, Typed
    <3>2. \A a \in Agents \ todo'[r] : log[a] <= got[r][a]
      BY DEF AnchorInv, Typed, Manifest
    <3>3. Building(r)'
      <4>1. Le(log, log)
        BY LeOrder DEF AnchorInv, Typed
      <4>2. Le(got[r], log)
        BY DEF AnchorInv, Building
      <4>3. QED
        BY <3>1, <3>2, <4>1, <4>2 DEF Building, Stages, Le
    <3>4. Carried(r)' /\ Secured(r)'
      BY <3>1 DEF AnchorInv, Carried, Secured, Forward, Le
    <3>5. QED
      BY <2>2, <3>3, <3>4
  <2>3. QED
    BY <2>1, <2>2
<1>6. QED
  BY <1>2, <1>3, <1>4, <1>5 DEF AnchorInv

-----------------------------------------------------------------------------
(* The steps of a run.                                                     *)

\* The references move forward over a history that is only appended to.
AnchorsMoveOn ==
  /\ \A i \in 1..HEAD : i \in 1..HEAD' /\ history'[i] = history[i]
  /\ \A d \in Dates : rtag[d] <= rtag'[d]

\* Then a run that had succeeded stays anchored.
LEMMA SecuredKept ==
  ASSUME AnchorInv, Typed', Forward', Refs', AnchorsMoveOn,
         UNCHANGED <<base, date>>, NEW q \in Runs, pc[q] = "success"
  PROVE  Secured(q)'
<1> DEFINE d == date[q]
<1>1. d \in Dates /\ rtag[d] \in 1..HEAD /\ rtag'[d] \in 1..HEAD' /\ rtag[d] <= rtag'[d]
         /\ rtag'[d] \in 1..rbranch'
  BY DEF AnchorInv, Typed, Refs, Secured, AnchorsMoveOn
<1>2. Le(base[q], history'[rtag[d]][d])
  BY <1>1 DEF AnchorInv, Secured, AnchorsMoveOn
<1>3. Le(history'[rtag[d]][d], history'[rtag'[d]][d])
  BY <1>1 DEF Forward, AnchorsMoveOn
<1>4. /\ base[q] \in Manifest /\ history'[rtag[d]][d] \in Manifest
      /\ history'[rtag'[d]][d] \in Manifest
  BY <1>1, Manifests, rtag[d] \in 1..HEAD' DEF AnchorInv, Typed, Tree, AnchorsMoveOn, HEAD
<1>5. Le(base[q], history'[rtag'[d]][d])
  BY <1>2, <1>3, <1>4, LeOrder
<1>6. QED
  BY <1>1, <1>5 DEF Secured

\* A change of stage keeps the stages' type.
LEMMA GotoTyped ==
  ASSUME Typed, NEW r \in Runs, NEW stage \in Stages \cup Ends, Goto(r, stage)
  PROVE  /\ pc' \in [Runs -> {"idle"} \cup Stages \cup Ends]
         /\ pc'[r] = stage
         /\ \A q \in Runs \ {r} : pc'[q] = pc[q]
BY DEF Typed, Goto

\* Only run r moves.
OnlyRun(r) ==
  /\ UNCHANGED <<log, date, base>>
  /\ \A q \in Runs \ {r} : pc'[q] = pc[q] /\ got'[q] = got[q]

\* A step of run r keeps the invariant if git's part and the run's own part are kept.
LEMMA RunKeeps ==
  ASSUME AnchorInv, NEW r \in Runs, Active(r), OnlyRun(r), AnchorsMoveOn,
         Typed', Forward', Refs', (Building(r) /\ Carried(r))',
         pc'[r] = "success" => Secured(r)'
  PROVE  AnchorInv'
<1>1. OneActive'
  BY DEF AnchorInv, OneActive, Active, OnlyRun
<1>2. ASSUME NEW q \in Runs \ {r}
      PROVE  (Building(q) /\ Carried(q) /\ Secured(q))'
  <2>1. pc'[q] = pc[q] /\ pc[q] \notin Stages
    BY OthersQuiet DEF OnlyRun
  <2>2. Building(q)' /\ Carried(q)'
    BY <2>1 DEF AnchorInv, OnlyRun, Building, Carried, Stages, Le
  <2>3. Secured(q)'
    BY <2>1, SecuredKept DEF OnlyRun, Secured
  <2>4. QED
    BY <2>2, <2>3
<1>3. Secured(r)'
  BY DEF Secured
<1>4. QED
  BY <1>1, <1>2, <1>3 DEF AnchorInv

\* Steps that leave the history and the remote alone.
LEMMA LocalStep ==
  ASSUME AnchorInv, UNCHANGED <<history, rtag>>
  PROVE  AnchorsMoveOn
BY DEF AnchorInv, Refs, AnchorsMoveOn, HEAD

LEMMA ReadHeadKeeps ==
  ASSUME AnchorInv, NEW r \in Runs, NEW a \in Agents, ReadHead(r, a)
  PROVE  AnchorInv'
<1> USE DEF ReadHead, Goto, clone, remote
<1>1. Active(r) /\ OnlyRun(r) /\ AnchorsMoveOn
  BY LocalStep DEF Active, Stages, OnlyRun, AnchorInv, Typed
<1>2. Typed'
  BY DEF AnchorInv, Typed, Manifest, HEAD, Stages, Ends
<1>3. Forward' /\ Refs'
  BY GitKept
<1>4. pc'[r] = IF todo[r] = {a} THEN "truncating" ELSE "reading"
  BY DEF AnchorInv, Typed
<1>5. /\ got[r] \in Manifest /\ got'[r] = [got[r] EXCEPT ![a] = log[a]]
      /\ todo'[r] = todo[r] \ {a}
  BY DEF AnchorInv, Typed
<1>6. Building(r)'
  <2>1. Le(base[r], log) /\ Le(got[r], log) /\ log \in Manifest
    BY DEF AnchorInv, Building, Typed
  <2>2. Le(got'[r], log)
    BY <1>5, <2>1 DEF Le, Manifest
  <2>3. \A b \in Agents \ todo'[r] : base[r][b] <= got'[r][b]
    BY <1>5, <2>1 DEF AnchorInv, Building, Le, Manifest
  <2>4. todo[r] = {a} => Le(base[r], got'[r])
    BY <1>5, <2>3 DEF Le
  <2>5. QED
    BY <1>4, <2>1, <2>2, <2>3, <2>4 DEF Building, Le
<1>7. Carried(r)'
  BY <1>4 DEF AnchorInv, Carried, Le
<1>8. QED
  BY <1>1, <1>2, <1>3, <1>4, <1>6, <1>7, RunKeeps

LEMMA TruncateKeeps ==
  ASSUME AnchorInv, NEW r \in Runs, Truncate(r)
  PROVE  AnchorInv'
<1> USE DEF Truncate, Goto, remote
<1>1. Active(r) /\ OnlyRun(r) /\ AnchorsMoveOn /\ pc'[r] = "filling"
  BY LocalStep DEF Active, Stages, OnlyRun, AnchorInv, Typed
<1>2. Typed'
  BY DEF AnchorInv, Typed, HEAD, Stages, Ends
<1>3. Forward' /\ Refs'
  BY GitKept
<1>4. Building(r)' /\ Carried(r)'
  BY <1>1 DEF AnchorInv, Building, Carried, Stages, Le
<1>5. QED
  BY <1>1, <1>2, <1>3, <1>4, RunKeeps

LEMMA FillKeeps ==
  ASSUME AnchorInv, NEW r \in Runs, Fill(r)
  PROVE  AnchorInv'
<1> USE DEF Fill, Goto, remote
<1>1. Active(r) /\ OnlyRun(r) /\ AnchorsMoveOn /\ pc'[r] \in {"adding", "written"}
  BY LocalStep DEF Active, Stages, OnlyRun, AnchorInv, Typed
<1>2. Typed' /\ worktree'[date[r]] = got[r]
  BY DEF AnchorInv, Typed, HEAD, Stages, Ends
<1>3. Forward' /\ Refs'
  BY GitKept
<1>4. Building(r)' /\ Carried(r)'
  BY <1>1, <1>2 DEF AnchorInv, Building, Carried, Stages, Le
<1>5. QED
  BY <1>1, <1>2, <1>3, <1>4, RunKeeps

\* A run that stops leaves everything else as it is.
LEMMA StopKeeps ==
  ASSUME AnchorInv, NEW r \in Runs, Active(r), NEW end \in {"usage-error", "push-failed", "dead"},
         Goto(r, end), UNCHANGED <<log, clone, remote, date, dry, todo, got, tries, base>>
  PROVE  AnchorInv'
<1> USE DEF Goto, clone, remote
<1>1. OnlyRun(r) /\ AnchorsMoveOn /\ pc'[r] = end
  BY LocalStep DEF OnlyRun, AnchorInv, Typed
<1>2. Typed'
  BY DEF AnchorInv, Typed, HEAD, Ends
<1>3. Forward' /\ Refs'
  BY GitKept
<1>4. Building(r)' /\ Carried(r)'
  BY <1>1 DEF AnchorInv, Building, Carried, Stages, Le
<1>5. QED
  BY <1>1, <1>2, <1>3, <1>4, RunKeeps

\* A run whose arguments are refused never becomes active.
LEMMA BadArgumentsKeeps ==
  ASSUME AnchorInv, NEW r \in Runs, BadArguments(r)
  PROVE  AnchorInv'
<1> USE DEF BadArguments, Goto, clone, remote
<1>1. \A q \in Runs : pc'[q] = pc[q] \/ pc'[q] = "usage-error"
  BY DEF AnchorInv, Typed
<1>2. OneActive'
  BY <1>1 DEF AnchorInv, OneActive, Active, Stages
<1>3. Typed'
  BY DEF AnchorInv, Typed, HEAD, Ends
<1>4. Forward' /\ Refs'
  BY GitKept
<1>5. ASSUME NEW q \in Runs
      PROVE  (Building(q) /\ Carried(q) /\ Secured(q))'
  BY <1>1 DEF AnchorInv, Building, Carried, Secured, Stages, HEAD, Le
<1>6. QED
  BY <1>2, <1>3, <1>4, <1>5 DEF AnchorInv

LEMMA AddKeeps ==
  ASSUME AnchorInv, NEW r \in Runs, Add(r)
  PROVE  AnchorInv'
<1> USE DEF Add, Goto, remote
<1>1. Active(r) /\ OnlyRun(r) /\ AnchorsMoveOn /\ pc'[r] = "committing"
  BY LocalStep DEF Active, Stages, OnlyRun, AnchorInv, Typed
<1>2. date[r] \in Dates /\ got[r] \in Manifest /\ worktree[date[r]] = got[r]
  BY DEF AnchorInv, Typed, Carried
<1>3. index' = [index EXCEPT ![date[r]] = got[r]]
  BY <1>2
<1>4. Typed' /\ index'[date[r]] = got[r]
  BY <1>2, <1>3 DEF AnchorInv, Typed, Tree, HEAD, Stages, Ends
<1>5. \A d \in Dates : Le(index[d], index'[d]) /\ Le(index'[d], log)
  <2>1. Le(index[date[r]], base[r]) /\ Le(base[r], got[r]) /\ Le(got[r], log)
    BY <1>2 DEF AnchorInv, Carried, Building, Stages
  <2>2. Le(index[date[r]], got[r])
    BY <1>2, <2>1, Manifests, LeOrder DEF AnchorInv
  <2>3. QED
    BY <1>3, <2>1, <2>2, Manifests, LeOrder DEF AnchorInv, Typed, Tree, Forward
<1>6. Forward'
  BY <1>4, <1>5, Manifests, LeOrder DEF AnchorInv, Forward, HEAD, Typed, Tree, Le
<1>7. Refs'
  BY DEF AnchorInv, Refs, HEAD
<1>8. Building(r)' /\ Carried(r)'
  BY <1>1, <1>4 DEF AnchorInv, Building, Carried, Stages, Le
<1>9. QED
  BY <1>1, <1>4, <1>6, <1>7, <1>8, RunKeeps

LEMMA CommitKeeps ==
  ASSUME AnchorInv, NEW r \in Runs, Commit(r)
  PROVE  AnchorInv'
<1> USE DEF Commit, Goto, remote
<1>1. Active(r) /\ OnlyRun(r) /\ pc'[r] = "tagging"
  BY DEF Active, Stages, OnlyRun, AnchorInv, Typed
<1>2. CASE history' = Append(history, index)
  <2>1. /\ history' \in Seq(Tree) /\ HEAD' = HEAD + 1 /\ HEAD \in Nat \ {0}
        /\ history'[HEAD'] = index
        /\ \A i \in 1..HEAD : history'[i] = history[i]
    BY <1>2, AppendCommit DEF AnchorInv, Typed, HEAD
  <2>2. Typed'
    <3>1. HEAD' \in Nat \ {0}
      BY <2>1
    <3>2. pc' \in [Runs -> {"idle"} \cup Stages \cup Ends]
      BY GotoTyped DEF AnchorInv, Stages
    <3>3. QED
      BY <2>1, <3>1, <3>2 DEF AnchorInv, Typed
  <2>3. AnchorsMoveOn
    BY <2>1 DEF AnchorInv, Refs, AnchorsMoveOn
  <2>4. Forward'
    <3>1. \A d \in Dates : Le(index[d], index[d])
      BY Manifests, LeOrder DEF AnchorInv
    <3>2. \A d \in Dates : \A i \in 1..HEAD' : Le(history'[i][d], index[d])
      BY <2>1, <3>1 DEF AnchorInv, Forward
    <3>3. \A d \in Dates : \A i, j \in 1..HEAD' :
            i <= j => Le(history'[i][d], history'[j][d])
      <4>1. TAKE d \in Dates
      <4>2. TAKE i, j \in 1..HEAD'
      <4>3. HAVE i <= j
      <4>4. CASE j = HEAD'
        BY <2>1, <3>2, <4>4
      <4>5. CASE j # HEAD'
        <5>1. i \in 1..HEAD /\ j \in 1..HEAD
          BY <2>1, <4>3, <4>5
        <5>2. QED
          BY <2>1, <4>3, <5>1 DEF AnchorInv, Forward
      <4>6. QED
        BY <4>4, <4>5
    <3>4. QED
      BY <3>2, <3>3 DEF AnchorInv, Forward, Le
  <2>5. Refs'
    BY <2>1 DEF AnchorInv, Refs
  <2>6. Building(r)' /\ Carried(r)'
    BY <1>1, <2>1 DEF AnchorInv, Building, Carried, Stages, Le
  <2>7. QED
    BY <1>1, <2>2, <2>3, <2>4, <2>5, <2>6, RunKeeps
<1>3. CASE index = history[HEAD] /\ UNCHANGED history
  <2>1. Typed'
    BY <1>3 DEF AnchorInv, Typed, HEAD, Stages, Ends
  <2>2. Forward' /\ Refs' /\ AnchorsMoveOn
    BY <1>3, GitKept, LocalStep
  <2>3. Building(r)' /\ Carried(r)'
    BY <1>1, <1>3 DEF AnchorInv, Building, Carried, Stages, HEAD, Le
  <2>4. QED
    BY <1>1, <2>1, <2>2, <2>3, RunKeeps
<1>4. QED
  BY <1>2, <1>3

\* Setting a reference to the last commit.
LEMMA MoveReference ==
  ASSUME NEW n \in Nat, NEW f \in [Dates -> 0..n], NEW d \in Dates
  PROVE  LET g == [f EXCEPT ![d] = n] IN
         /\ g \in [Dates -> 0..n]
         /\ g[d] = n
         /\ \A e \in Dates : f[e] \in Nat /\ g[e] \in Nat /\ f[e] <= g[e]
<1>1. n \in 0..n
  OBVIOUS
<1>2. QED
  BY <1>1

LEMMA MoveTagKeeps ==
  ASSUME AnchorInv, NEW r \in Runs, MoveTag(r)
  PROVE  AnchorInv'
<1>1. Active(r) /\ OnlyRun(r) /\ AnchorsMoveOn /\ pc'[r] = "pushing branch"
  BY LocalStep DEF MoveTag, Goto, remote, Active, Stages, OnlyRun, AnchorInv, Typed
<1>2. Typed'
  BY DEF MoveTag, Goto, AnchorInv, Typed, HEAD, Stages, Ends
<1>3. Forward'
  BY DEF MoveTag, AnchorInv, Forward, HEAD, Le
<1>4. HEAD' = HEAD
  BY DEF MoveTag, HEAD
<1>5. Refs' /\ tag'[date[r]] = HEAD
  <2>1. HEAD \in Nat \ {0} /\ date[r] \in Dates /\ tag \in [Dates -> 0..HEAD]
    BY DEF AnchorInv, Typed, Refs
  <2>2. /\ tag' \in [Dates -> 0..HEAD] /\ tag'[date[r]] = HEAD
        /\ \A d \in Dates : tag[d] <= tag'[d]
    BY <2>1, MoveReference DEF MoveTag
  <2>3. \A d \in Dates : rtag[d] \in Nat /\ tag[d] \in Nat /\ tag'[d] \in Nat
    BY <2>1, MoveReference DEF MoveTag, AnchorInv, Refs
  <2>4. \A d \in Dates : rtag[d] <= tag'[d]
    <3>1. TAKE d \in Dates
    <3>2. rtag[d] <= tag[d] /\ tag[d] <= tag'[d]
      BY <2>2 DEF AnchorInv, Refs
    <3>3. rtag[d] \in Nat /\ tag[d] \in Nat /\ tag'[d] \in Nat
      BY <2>3
    <3>4. QED
      BY <3>2, <3>3
  <2>5. QED
    BY <1>4, <2>2, <2>4 DEF MoveTag, remote, AnchorInv, Refs
<1>6. Building(r)' /\ Carried(r)'
  BY <1>1, <1>4, <1>5 DEF MoveTag, AnchorInv, Building, Carried, Stages, Le
<1>7. QED
  BY <1>1, <1>2, <1>3, <1>5, <1>6, RunKeeps

LEMMA AttemptFailsTyped ==
  ASSUME Typed, NEW r \in Runs, AttemptFails(r)
  PROVE  /\ pc' \in [Runs -> {"idle"} \cup Stages \cup Ends]
         /\ pc'[r] \in {"pushing branch", "push-failed"}
         /\ \A q \in Runs \ {r} : pc'[q] = pc[q]
         /\ tries' \in [Runs -> Nat]
<1>1. tries' \in [Runs -> Nat]
  <2>1. tries' = [tries EXCEPT ![r] = tries[r] + 1]
    BY DEF AttemptFails
  <2>2. tries \in [Runs -> Nat]
    BY DEF Typed
  <2>3. tries[r] + 1 \in Nat
    BY <2>2
  <2>4. QED
    BY <2>1, <2>2, <2>3
<1>2. PICK stage \in {"pushing branch", "push-failed"} : Goto(r, stage)
  BY DEF AttemptFails
<1>3. stage \in Stages \cup Ends
  BY DEF Stages, Ends
<1>4. QED
  BY <1>1, <1>2, <1>3, GotoTyped

LEMMA PushBranchKeeps ==
  ASSUME AnchorInv, NEW r \in Runs, PushBranch(r)
  PROVE  AnchorInv'
<1>1. /\ pc[r] = "pushing branch" /\ rbranch' \in {rbranch, HEAD}
      /\ UNCHANGED <<log, worktree, index, history, tag, rtag, date, dry, todo, got, base>>
  BY DEF PushBranch, clone
<1>2. /\ pc' \in [Runs -> {"idle"} \cup Stages \cup Ends] /\ tries' \in [Runs -> Nat]
      /\ \A q \in Runs \ {r} : pc'[q] = pc[q]
      /\ \/ pc'[r] = "pushing tag" /\ rbranch' = HEAD
         \/ pc'[r] \in {"pushing branch", "push-failed"}
  <2>1. CASE rbranch' = HEAD /\ Goto(r, "pushing tag") /\ UNCHANGED tries
    <3>1. "pushing tag" \in Stages \cup Ends
      BY DEF Stages
    <3>2. QED
      BY <2>1, <3>1, GotoTyped DEF AnchorInv, Typed
  <2>2. CASE AttemptFails(r)
    BY <2>2, AttemptFailsTyped DEF AnchorInv
  <2>3. QED
    BY <2>1, <2>2 DEF PushBranch
<1>3. Active(r) /\ OnlyRun(r) /\ AnchorsMoveOn
  BY <1>1, <1>2, LocalStep DEF Active, Stages, OnlyRun
<1>4. HEAD' = HEAD
  BY <1>1 DEF HEAD
<1>5. Typed'
  BY <1>1, <1>2, <1>4 DEF AnchorInv, Typed
<1>6. Forward'
  BY <1>1, <1>4 DEF AnchorInv, Forward, Le
<1>7. Refs'
  <2>1. rbranch' \in 1..HEAD /\ rbranch <= rbranch' /\ rbranch \in Nat /\ rbranch' \in Nat
    <3>1. HEAD \in Nat \ {0} /\ rbranch \in 1..HEAD
      BY DEF AnchorInv, Typed, Refs
    <3>2. CASE rbranch' = rbranch
      BY <3>1, <3>2
    <3>3. CASE rbranch' = HEAD
      BY <3>1, <3>3
    <3>4. QED
      BY <1>1, <3>2, <3>3
  <2>2. \A d \in Dates : rtag[d] \in Nat /\ rtag[d] <= rbranch'
    <3>1. \A d \in Dates : rtag[d] \in Nat /\ rtag[d] <= rbranch
      BY DEF AnchorInv, Refs
    <3>2. QED
      BY <2>1, <3>1
  <2>3. QED
    BY <1>1, <1>4, <2>1, <2>2 DEF AnchorInv, Refs
<1>8. Building(r)' /\ Carried(r)'
  BY <1>1, <1>2, <1>4 DEF AnchorInv, Building, Carried, Stages, Le
<1>9. QED
  BY <1>2, <1>3, <1>5, <1>6, <1>7, <1>8, RunKeeps

LEMMA PushTagKeeps ==
  ASSUME AnchorInv, NEW r \in Runs, PushTag(r)
  PROVE  AnchorInv' /\ AnchorsMoveOn
<1>1. /\ pc[r] = "pushing tag"
      /\ rtag' \in {rtag, [rtag EXCEPT ![date[r]] = tag[date[r]]]}
      /\ UNCHANGED <<log, worktree, index, history, tag, rbranch, date, dry, todo, got, base>>
  BY DEF PushTag, clone
<1>2. /\ pc' \in [Runs -> {"idle"} \cup Stages \cup Ends] /\ tries' \in [Runs -> Nat]
      /\ \A q \in Runs \ {r} : pc'[q] = pc[q]
      /\ \/ /\ pc'[r] = "success"
            /\ rtag' = [rtag EXCEPT ![date[r]] = tag[date[r]]]
         \/ pc'[r] \in {"pushing branch", "push-failed"}
  <2>1. CASE /\ rtag' = [rtag EXCEPT ![date[r]] = tag[date[r]]]
             /\ Goto(r, "success") /\ UNCHANGED tries
    <3>1. "success" \in Stages \cup Ends
      BY DEF Ends
    <3>2. QED
      BY <2>1, <3>1, GotoTyped DEF AnchorInv, Typed
  <2>2. CASE AttemptFails(r)
    BY <2>2, AttemptFailsTyped DEF AnchorInv
  <2>3. QED
    BY <2>1, <2>2 DEF PushTag
<1>3. Active(r) /\ OnlyRun(r)
  BY <1>1, <1>2 DEF Active, Stages, OnlyRun
<1>4. HEAD' = HEAD /\ HEAD \in Nat \ {0} /\ HEAD \in 1..HEAD
  BY <1>1, Manifests DEF HEAD, AnchorInv, Typed
<1>5. Typed'
  BY <1>1, <1>2, <1>4 DEF AnchorInv, Typed
<1>6. Forward'
  BY <1>1, <1>4 DEF AnchorInv, Forward, Le
<1>7. tag[date[r]] = HEAD /\ rbranch = HEAD /\ date[r] \in Dates
  BY <1>1 DEF AnchorInv, Carried, Typed
<1>8. /\ rtag' \in [Dates -> Nat] /\ rtag \in [Dates -> Nat]
      /\ \A d \in Dates : rtag'[d] = rtag[d] \/ (rtag'[d] = HEAD /\ tag[d] = HEAD)
  BY <1>1, <1>4, <1>7 DEF AnchorInv, Refs
<1>9. Refs'
  <2>1. \A d \in Dates : rtag'[d] <= tag[d] /\ rtag'[d] <= rbranch
    <3>1. TAKE d \in Dates
    <3>2. CASE rtag'[d] = rtag[d]
      BY <3>2 DEF AnchorInv, Refs
    <3>3. CASE rtag'[d] = HEAD /\ tag[d] = HEAD
      <4>1. HEAD <= HEAD
        BY <1>4
      <4>2. QED
        BY <1>7, <3>3, <4>1
    <3>4. QED
      BY <1>8, <3>2, <3>3
  <2>2. QED
    BY <1>1, <1>4, <1>8, <2>1 DEF AnchorInv, Refs
<1>10. AnchorsMoveOn
  <2>1. \A d \in Dates : rtag[d] <= HEAD /\ rtag[d] \in Nat
    BY <1>7 DEF AnchorInv, Refs
  <2>2. \A d \in Dates : rtag[d] <= rtag'[d]
    <3>1. TAKE d \in Dates
    <3>2. CASE rtag'[d] = rtag[d]
      BY <2>1, <3>2
    <3>3. CASE rtag'[d] = HEAD
      BY <2>1, <3>3
    <3>4. QED
      BY <1>8, <3>2, <3>3
  <2>3. QED
    BY <1>1, <1>4, <2>2 DEF AnchorsMoveOn
<1>11. Building(r)' /\ Carried(r)'
  BY <1>1, <1>2, <1>4 DEF AnchorInv, Building, Carried, Stages, Le
<1>12. ASSUME pc'[r] = "success"
       PROVE  Secured(r)'
  <2>1. rtag'[date[r]] = HEAD
    BY <1>2, <1>7, <1>8, <1>12
  <2>2. history[HEAD][date[r]] = got[r] /\ Le(base[r], got[r])
    BY <1>1 DEF AnchorInv, Carried, Building, Stages
  <2>3. QED
    BY <1>1, <1>4, <1>7, <2>1, <2>2 DEF Secured, Le
<1>13. QED
  BY <1>2, <1>3, <1>5, <1>6, <1>9, <1>10, <1>11, <1>12, RunKeeps

-----------------------------------------------------------------------------
(* The theorems.                                                           *)

LEMMA InitAnchored == Init => AnchorInv
<1> SUFFICES ASSUME Init PROVE AnchorInv
  OBVIOUS
<1>1. Blank \in Manifest /\ Le(Blank, Blank)
  BY DEF Blank, Manifest, Le
<1>2. /\ index \in Tree /\ \A d \in Dates : index[d] = Blank
      /\ history \in Seq(Tree) /\ HEAD = 1 /\ history[1] = index
  BY <1>1 DEF Init, Tree, HEAD
<1>3. OneActive
  BY DEF Init, OneActive, Active, Stages
<1>4. Typed
  BY <1>1, <1>2 DEF Init, Typed, Tree
<1>5. Forward
  BY <1>1, <1>2 DEF Init, Forward
<1>6. Refs
  <2>1. tag \in [Dates -> 0..1] /\ rtag \in [Dates -> Nat]
    BY DEF Init
  <2>2. \A d \in Dates : rtag[d] <= tag[d] /\ rtag[d] <= 1
    BY DEF Init
  <2>3. rbranch \in 1..1
    BY DEF Init
  <2>4. QED
    BY <1>2, <2>1, <2>2, <2>3 DEF Init, Refs
<1>7. \A r \in Runs : Building(r) /\ Carried(r) /\ Secured(r)
  BY <1>1 DEF Init, Building, Carried, Secured, Stages
<1>8. QED
  BY <1>3, <1>4, <1>5, <1>6, <1>7 DEF AnchorInv

\* Every step keeps the invariant and moves the tags at the remote forward.
LEMMA NextAnchored ==
  ASSUME AnchorInv, ~Overlap, [Next]_vars
  PROVE  AnchorInv' /\ AnchorsMoveOn
<1>1. ASSUME NEW a \in Agents, Emit(a)
      PROVE  AnchorInv' /\ AnchorsMoveOn
  BY <1>1, EmitKeeps, LocalStep DEF Emit, clone, remote
<1>2. ASSUME NEW r \in Runs, Launch(r)
      PROVE  AnchorInv' /\ AnchorsMoveOn
  BY <1>2, LaunchKeeps, LocalStep DEF Launch, clone, remote
<1>3. ASSUME NEW r \in Runs, Step(r)
      PROVE  AnchorInv' /\ AnchorsMoveOn
  <2>1. ASSUME NEW a \in Agents, ReadHead(r, a)
        PROVE  AnchorInv' /\ AnchorsMoveOn
    BY <2>1, ReadHeadKeeps, LocalStep DEF ReadHead, clone, remote
  <2>2. CASE Truncate(r)
    BY <2>2, TruncateKeeps, LocalStep DEF Truncate, remote
  <2>3. CASE Fill(r)
    BY <2>3, FillKeeps, LocalStep DEF Fill, remote
  <2>4. CASE Add(r)
    BY <2>4, AddKeeps, LocalStep DEF Add, remote
  <2>5. CASE Commit(r)
    <3>1. AnchorInv'
      BY <2>5, CommitKeeps
    <3>2. AnchorsMoveOn
      <4>1. UNCHANGED rtag /\ \A d \in Dates : rtag[d] <= rtag[d]
        BY <2>5 DEF Commit, remote, AnchorInv, Refs
      <4>2. CASE history' = Append(history, index)
        <5>1. /\ HEAD \in Nat /\ HEAD' = HEAD + 1
              /\ \A i \in 1..HEAD : history'[i] = history[i]
          BY <4>2, AppendCommit DEF AnchorInv, Typed, HEAD
        <5>2. QED
          BY <4>1, <5>1 DEF AnchorsMoveOn
      <4>3. CASE UNCHANGED history
        BY <4>1, <4>3, LocalStep
      <4>4. QED
        BY <2>5, <4>2, <4>3 DEF Commit
    <3>3. QED
      BY <3>1, <3>2
  <2>6. CASE MoveTag(r)
    BY <2>6, MoveTagKeeps, LocalStep DEF MoveTag, remote
  <2>7. CASE PushBranch(r)
    BY <2>7, PushBranchKeeps, LocalStep DEF PushBranch, clone
  <2>8. CASE PushTag(r)
    BY <2>8, PushTagKeeps
  <2>9. QED
    BY <1>3, <2>1, <2>2, <2>3, <2>4, <2>5, <2>6, <2>7, <2>8 DEF Step
<1>4. ASSUME NEW r \in Runs, NotARepo(r) \/ GitFails(r) \/ Dies(r)
      PROVE  AnchorInv' /\ AnchorsMoveOn
  <2>1. Active(r) /\ UNCHANGED <<log, clone, remote, date, dry, todo, got, tries, base>>
    BY <1>4 DEF NotARepo, GitFails, Dies, Active, Stages
  <2>2. PICK end \in {"usage-error", "push-failed", "dead"} : Goto(r, end)
    BY <1>4 DEF NotARepo, GitFails, Dies
  <2>3. QED
    BY <2>1, <2>2, StopKeeps, LocalStep DEF clone, remote
<1>5. ASSUME NEW r \in Runs, BadArguments(r)
      PROVE  AnchorInv' /\ AnchorsMoveOn
  BY <1>5, BadArgumentsKeeps, LocalStep DEF BadArguments, clone, remote
<1>6. CASE UNCHANGED vars
  <2>1. HEAD' = HEAD /\ UNCHANGED <<log, clone, remote, run>>
    BY <1>6 DEF vars, clone, HEAD
  <2>2. AnchorsMoveOn
    BY <2>1, LocalStep DEF clone, remote
  <2>3. OneActive' /\ Typed' /\ Forward' /\ Refs'
    BY <2>1 DEF AnchorInv, OneActive, Active, Typed, Forward, Refs, Le, clone, remote, run
  <2>4. \A r \in Runs : (Building(r) /\ Carried(r) /\ Secured(r))'
    BY <2>1 DEF AnchorInv, Building, Carried, Secured, Le, clone, remote, run
  <2>5. QED
    BY <2>2, <2>3, <2>4 DEF AnchorInv
<1>7. QED
  BY <1>1, <1>2, <1>3, <1>4, <1>5, <1>6 DEF Next

\* The invariant holds throughout, if runs do not overlap.
THEOREM Anchoring ==
  ASSUME ~Overlap
  PROVE  Spec => []AnchorInv
<1>1. AnchorInv /\ [Next]_vars => AnchorInv'
  BY NextAnchored
<1>2. QED
  BY <1>1, InitAnchored, PTL DEF Spec

\* The types of log, clone, remote and runs.
THEOREM AnchorTypeCorrect ==
  ASSUME ~Overlap
  PROVE  Spec => []AnchorTypeOK
<1>1. ASSUME AnchorInv PROVE AnchorTypeOK
  <2>1. index \in [Dates -> Manifest \cup {Torn}]
    BY <1>1 DEF AnchorInv, Typed, Tree
  <2>2. history \in Seq([Dates -> Manifest \cup {Torn}])
    BY <1>1 DEF AnchorInv, Typed, Tree
  <2>3. rbranch \in Nat /\ rtag \in [Dates -> Nat] /\ tag \in [Dates -> Nat]
    BY <1>1 DEF AnchorInv, Typed, Refs
  <2>4. QED
    BY <1>1, <2>1, <2>2, <2>3 DEF AnchorInv, Typed, AnchorTypeOK
<1>2. QED
  BY <1>1, Anchoring, PTL

\* Exit code 0 of cli/anchor.ts means anchored for good, whatever later runs do.
THEOREM SuccessHolds ==
  ASSUME ~Overlap
  PROVE  Spec => []SuccessIsAnchored
<1>1. ASSUME AnchorInv PROVE SuccessIsAnchored
  <2> SUFFICES ASSUME NEW r \in Runs, pc[r] = "success"
               PROVE  /\ rtag[date[r]] \in 1..rbranch
                      /\ UpTo(base[r], Anchored(date[r]))
    BY DEF SuccessIsAnchored
  <2>1. /\ rtag[date[r]] \in 1..rbranch /\ date[r] \in Dates
        /\ Le(base[r], history[rtag[date[r]]][date[r]])
    BY <1>1 DEF AnchorInv, Secured, Typed
  <2>2. rtag[date[r]] \in 1..HEAD
    BY <1>1, <2>1 DEF AnchorInv, Refs, Typed
  <2>3. history[rtag[date[r]]][date[r]] # Torn
    BY <1>1, <2>1, <2>2, Manifests, AnchorAssumption DEF AnchorInv, Manifest
  <2>4. QED
    BY <2>1, <2>3 DEF UpTo, Le, Anchored
<1>2. QED
  BY <1>1, Anchoring, PTL

\* The tag of a date never goes back to a manifest with an earlier head.
THEOREM TagsAdvance ==
  ASSUME ~Overlap
  PROVE  Spec => TagAdvances
<1>1. ASSUME AnchorInv, AnchorInv', AnchorsMoveOn, NEW d \in Dates, rtag[d] # 0
      PROVE  rtag'[d] # 0 /\ UpTo(Anchored(d), Anchored(d)')
  <2>1. /\ rtag[d] \in 1..HEAD /\ rtag[d] \in 1..HEAD' /\ rtag'[d] \in 1..HEAD'
        /\ rtag[d] <= rtag'[d] /\ history'[rtag[d]] = history[rtag[d]]
    BY <1>1 DEF AnchorInv, Typed, Refs, AnchorsMoveOn
  <2>2. Le(history'[rtag[d]][d], history'[rtag'[d]][d])
    BY <1>1, <2>1 DEF AnchorInv, Forward
  <2>3. history'[rtag'[d]][d] # Torn
    BY <1>1, <2>1, AnchorAssumption DEF AnchorInv, Typed, Tree, Manifest, HEAD
  <2>4. rtag'[d] # 0
    BY <2>1
  <2>5. QED
    BY <2>1, <2>2, <2>3, <2>4 DEF UpTo, Le, Anchored
<1>2. ASSUME AnchorInv, AnchorInv', [Next]_vars
      PROVE  [\A d \in Dates : rtag[d] # 0 =>
                rtag'[d] # 0 /\ UpTo(Anchored(d), Anchored(d)')]_vars
  BY <1>1, <1>2, NextAnchored
<1>3. QED
  BY <1>2, Anchoring, PTL DEF Spec, TagAdvances

\* No truncated manifest and no head that was not in the log is ever published.
THEOREM PublishedTrue ==
  ASSUME ~Overlap
  PROVE  Spec => []PublishedIsTrue
<1>1. ASSUME AnchorInv PROVE PublishedIsTrue
  <2> SUFFICES ASSUME NEW i \in 1..rbranch, NEW d \in Dates
               PROVE  history[i][d] # Torn /\ UpTo(history[i][d], log)
    BY DEF PublishedIsTrue
  <2>1. i \in 1..HEAD
    BY <1>1 DEF AnchorInv, Refs, Typed
  <2>2. /\ history[i][d] \in Manifest /\ index[d] \in Manifest /\ log \in Manifest
        /\ Le(history[i][d], index[d]) /\ Le(index[d], log)
    BY <1>1, <2>1, Manifests DEF AnchorInv, Forward, Typed
  <2>3. Le(history[i][d], log)
    BY <2>2, LeOrder
  <2>4. QED
    BY <2>2, <2>3, AnchorAssumption DEF UpTo, Le, Manifest
<1>2. QED
  BY <1>1, Anchoring, PTL

\* A tag at the remote names a commit of the remote's branch.
THEOREM TagsOnBranch ==
  ASSUME ~Overlap
  PROVE  Spec => []TagOnBranch
<1>1. AnchorInv => TagOnBranch
  BY DEF AnchorInv, Refs, TagOnBranch
<1>2. QED
  BY <1>1, Anchoring, PTL
=============================================================================
