---------------------------- MODULE AnchorPublisher ----------------------------
(***************************************************************************)
(* sonder-anchor (packages/sdk/src/cli/anchor.ts, anchor.ts): a run reads  *)
(* the head of every chain, writes the manifest of its date into a git     *)
(* repository, commits it, moves the tag of the date and pushes branch and *)
(* tag, while the runtime goes on emitting.  Each file operation and each  *)
(* git command is one step, and a run may die between any two.             *)
(*                                                                         *)
(* A chain head is its position in the agent's chain, a line that only     *)
(* grows (LinearLedger).  A manifest is a function from agents to heads,   *)
(* 0 for an agent that has no entry; `generated_at` is left out.  All runs *)
(* share one clone, and nobody else pushes to its remote.  So the history  *)
(* is linear: a commit is its position there, and HEAD the last one.       *)
(***************************************************************************)
EXTENDS Integers, Sequences

CONSTANTS
  Agents,
  Runs,         \* executions of sonder-anchor
  Dates,        \* values of --date
  Overlap,      \* a run may start while another one is active
  MaxAttempts,  \* of a push: 3 in pushWithRetry
  MaxHead,      \* bound on the length of a chain
  Faults,       \* subset of {"crash", "git", "push"}
  Torn          \* a file that was truncated and not written yet

ASSUME AnchorAssumption ==
  /\ Overlap \in BOOLEAN
  /\ MaxAttempts \in Nat \ {0} /\ MaxHead \in Nat
  /\ Faults \subseteq {"crash", "git", "push"}
  /\ Torn \notin [Agents -> Nat]

VARIABLES
  log,        \* log[a]: the head of a's chain
  worktree,   \* worktree[d]: the file <d>.json
  index,      \* index[d]: the same file in git's index
  history,    \* the trees of the commits of the branch
  tag,        \* tag[d]: the commit that anchor-<d> names, 0 for none
  rbranch,    \* last commit of the branch at the remote
  rtag,       \* tags at the remote
  pc, date,   \* stage and date of each run
  dry,        \* it was given --dry-run
  todo,       \* agents whose head a run has still to read
  got,        \* the manifest that a run builds
  tries,      \* attempts to push that failed
  base        \* heads at the start of a run (history: no action reads it)

clone == <<worktree, index, history, tag>>
remote == <<rbranch, rtag>>
run == <<pc, date, dry, todo, got, tries, base>>
vars == <<log, clone, remote, run>>

-----------------------------------------------------------------------------
Manifest == [Agents -> Nat]
Blank == [a \in Agents |-> 0]

Stages ==
  {"reading", "truncating", "filling", "adding", "committing", "tagging",
   "pushing branch", "pushing tag"}

\* Exit codes 0 and, for a dry run, 0; 2, 64 and 65; and death by a signal.
Ends == {"success", "written", "missing", "usage-error", "push-failed", "dead"}

Active(r) == pc[r] \in Stages
HEAD == Len(history)

AnchorTypeOK ==
  /\ log \in Manifest
  /\ worktree \in [Dates -> Manifest \cup {Torn}]
  /\ index \in [Dates -> Manifest \cup {Torn}]
  /\ history \in Seq([Dates -> Manifest \cup {Torn}])
  /\ tag \in [Dates -> Nat]
  /\ rbranch \in Nat /\ rtag \in [Dates -> Nat]
  /\ pc \in [Runs -> {"idle"} \cup Stages \cup Ends]
  /\ date \in [Runs -> Dates] /\ dry \in [Runs -> BOOLEAN]
  /\ todo \in [Runs -> SUBSET Agents]
  /\ got \in [Runs -> Manifest] /\ base \in [Runs -> Manifest]
  /\ tries \in [Runs -> Nat]

\* A clone with one empty commit that the remote has.
Init ==
  /\ log = Blank
  /\ worktree = [d \in Dates |-> Blank] /\ index = worktree
  /\ history = <<index>>
  /\ tag = [d \in Dates |-> 0] /\ rtag = tag
  /\ rbranch = 1
  /\ pc = [r \in Runs |-> "idle"]
  /\ date \in [Runs -> Dates] /\ dry \in [Runs -> BOOLEAN]
  /\ todo = [r \in Runs |-> {}]
  /\ got = [r \in Runs |-> Blank] /\ base = got
  /\ tries = [r \in Runs |-> 0]

Goto(r, stage) == pc' = [pc EXCEPT ![r] = stage]

-----------------------------------------------------------------------------
(* The manifest.                                                           *)

\* The runtime appends to the chain of a.
Emit(a) ==
  /\ log[a] < MaxHead
  /\ log' = [log EXCEPT ![a] = @ + 1]
  /\ UNCHANGED <<clone, remote, run>>

\* A flag is unknown, or a required one is missing: exit 64 before the log is opened.
BadArguments(r) ==
  /\ pc[r] = "idle"
  /\ Goto(r, "usage-error")
  /\ UNCHANGED <<log, clone, remote, date, dry, todo, got, tries, base>>

\* listV2Agents: exit 2 if there are none.
Launch(r) ==
  /\ pc[r] = "idle"
  /\ ~Overlap => \A q \in Runs : ~Active(q)
  /\ base' = [base EXCEPT ![r] = log]
  /\ todo' = [todo EXCEPT ![r] = {a \in Agents : log[a] > 0}]
  /\ Goto(r, IF log = Blank THEN "missing" ELSE "reading")
  /\ UNCHANGED <<log, clone, remote, date, dry, got, tries>>

\* Altered: a read that fails is taken for an agent without events.
ReadHeadOrSkip(r, a) ==
  /\ pc[r] = "reading" /\ a \in todo[r]
  /\ got' = [got EXCEPT ![r][a] = log[a]] \/ got' = got
  /\ todo' = [todo EXCEPT ![r] = @ \ {a}]
  /\ IF todo[r] = {a} THEN Goto(r, "truncating") ELSE UNCHANGED pc
  /\ UNCHANGED <<log, clone, remote, date, dry, tries, base>>

\* Altered: the head is looked up by an index that was not found.
ReadHeadUndefined(r, a) ==
  /\ pc[r] = "reading" /\ a \in todo[r]
  /\ got' = [got EXCEPT ![r][a] = -1]
  /\ todo' = [todo EXCEPT ![r] = @ \ {a}]
  /\ IF todo[r] = {a} THEN Goto(r, "truncating") ELSE UNCHANGED pc
  /\ UNCHANGED <<log, clone, remote, date, dry, tries, base>>

\* readHeadEvent, one query per agent, outside any transaction.  (The code goes
\* through the agents by name; the model in any order.)
ReadHead(r, a) ==
  /\ pc[r] = "reading" /\ a \in todo[r]
  /\ got' = [got EXCEPT ![r][a] = log[a]]
  /\ todo' = [todo EXCEPT ![r] = @ \ {a}]
  /\ IF todo[r] = {a} THEN Goto(r, "truncating") ELSE UNCHANGED pc
  /\ UNCHANGED <<log, clone, remote, date, dry, tries, base>>

\* Altered: the file is not written before git runs.
TruncateAndGoOn(r) ==
  /\ pc[r] = "truncating"
  /\ worktree' = [worktree EXCEPT ![date[r]] = Torn]
  /\ Goto(r, "adding")
  /\ UNCHANGED <<log, index, history, tag, remote, date, dry, todo, got, tries, base>>

\* writeFileSync: the file is opened and truncated, then written.
Truncate(r) ==
  /\ pc[r] = "truncating"
  /\ worktree' = [worktree EXCEPT ![date[r]] = Torn]
  /\ Goto(r, "filling")
  /\ UNCHANGED <<log, index, history, tag, remote, date, dry, todo, got, tries, base>>

\* A dry run ends here.  It writes under its working directory: in the clone, as here,
\* if it was called there, and else to a file that no other run looks at.
Fill(r) ==
  /\ pc[r] = "filling"
  /\ worktree' = [worktree EXCEPT ![date[r]] = got[r]]
  /\ Goto(r, IF dry[r] THEN "written" ELSE "adding")
  /\ UNCHANGED <<log, index, history, tag, remote, date, dry, todo, got, tries, base>>

-----------------------------------------------------------------------------
(* Git.                                                                    *)

Add(r) ==
  /\ pc[r] = "adding"
  /\ index' = [index EXCEPT ![date[r]] = worktree[date[r]]]
  /\ Goto(r, "committing")
  /\ UNCHANGED <<log, worktree, history, tag, remote, date, dry, todo, got, tries, base>>

\* Commits all that is in the index.  There may be nothing to commit, which is no
\* error, if the index is the last tree; manifests with the same heads still differ in
\* generated_at, unless they were made in the same millisecond.  (If another file of the
\* clone has changed, git says so in other words, and that is an error: GitFails.)
Commit(r) ==
  /\ pc[r] = "committing"
  /\ \/ history' = Append(history, index)
     \/ index = history[HEAD] /\ worktree = index /\ UNCHANGED history
  /\ Goto(r, "tagging")
  /\ UNCHANGED <<log, worktree, index, tag, remote, date, dry, todo, got, tries, base>>

\* git tag --force anchor-<date>
MoveTag(r) ==
  /\ pc[r] = "tagging"
  /\ tag' = [tag EXCEPT ![date[r]] = HEAD]
  /\ Goto(r, "pushing branch")
  /\ UNCHANGED <<log, worktree, index, history, remote, date, dry, todo, got, tries, base>>

\* git add, commit or tag fails: exit 65.
GitFails(r) ==
  /\ "git" \in Faults
  /\ pc[r] \in {"adding", "committing", "tagging"}
  /\ Goto(r, "push-failed")
  /\ UNCHANGED <<log, clone, remote, date, dry, todo, got, tries, base>>

\* git rev-parse says that the repository is none: exit 64, with the file written.
NotARepo(r) ==
  /\ "git" \in Faults
  /\ pc[r] = "adding"
  /\ Goto(r, "usage-error")
  /\ UNCHANGED <<log, clone, remote, date, dry, todo, got, tries, base>>

\* Altered: the attempt is not counted.
AttemptFailsUncounted(r) ==
  /\ Goto(r, "pushing branch")
  /\ UNCHANGED tries

\* An attempt failed; the next one starts with the branch again.
AttemptFails(r) ==
  /\ Goto(r, IF tries[r] + 1 < MaxAttempts THEN "pushing branch" ELSE "push-failed")
  /\ tries' = [tries EXCEPT ![r] = @ + 1]

\* Altered: the tag is pushed whatever became of the branch.
PushBranchUnchecked(r) ==
  /\ pc[r] = "pushing branch"
  /\ \/ rbranch' = HEAD
     \/ "push" \in Faults /\ UNCHANGED rbranch
  /\ Goto(r, "pushing tag")
  /\ UNCHANGED <<log, clone, rtag, date, dry, todo, got, tries, base>>

\* git push <remote> <branch>.  A push that fails may have reached the remote.
PushBranch(r) ==
  /\ pc[r] = "pushing branch"
  /\ \/ rbranch' = HEAD /\ Goto(r, "pushing tag") /\ UNCHANGED tries
     \/ /\ "push" \in Faults /\ AttemptFails(r)
        /\ rbranch' \in {rbranch, HEAD}
  /\ UNCHANGED <<log, clone, rtag, date, dry, todo, got, base>>

\* Altered: a tag that could not be pushed is success all the same.
PushTagUnchecked(r) ==
  /\ pc[r] = "pushing tag"
  /\ \/ rtag' = [rtag EXCEPT ![date[r]] = tag[date[r]]]
     \/ "push" \in Faults /\ UNCHANGED rtag
  /\ Goto(r, "success")
  /\ UNCHANGED <<log, clone, rbranch, date, dry, todo, got, tries, base>>

\* git push <remote> <tag> --force
PushTag(r) ==
  /\ pc[r] = "pushing tag"
  /\ \/ /\ rtag' = [rtag EXCEPT ![date[r]] = tag[date[r]]]
        /\ Goto(r, "success") /\ UNCHANGED tries
     \/ /\ "push" \in Faults /\ AttemptFails(r)
        /\ rtag' \in {rtag, [rtag EXCEPT ![date[r]] = tag[date[r]]]}
  /\ UNCHANGED <<log, clone, rbranch, date, dry, todo, got, base>>

\* The process is killed, or a file operation throws.
Dies(r) ==
  /\ "crash" \in Faults /\ Active(r)
  /\ Goto(r, "dead")
  /\ UNCHANGED <<log, clone, remote, date, dry, todo, got, tries, base>>

-----------------------------------------------------------------------------
Step(r) ==
  \/ \E a \in Agents : ReadHead(r, a)
  \/ Truncate(r) \/ Fill(r)
  \/ Add(r) \/ Commit(r) \/ MoveTag(r)
  \/ PushBranch(r) \/ PushTag(r)

Next ==
  \/ \E a \in Agents : Emit(a)
  \/ \E r \in Runs : Launch(r) \/ Step(r)
  \/ \E r \in Runs : BadArguments(r) \/ NotARepo(r) \/ GitFails(r) \/ Dies(r)

Spec == Init /\ [][Next]_vars

\* A command that was started comes to an end.
FairSpec == Spec /\ \A r \in Runs : WF_vars(Step(r))

-----------------------------------------------------------------------------
\* Every head of l is at or before that of m.
UpTo(l, m) == m # Torn /\ \A a \in Agents : l[a] <= m[a]

\* The manifest that the remote's tag of date d names.
Anchored(d) == history[rtag[d]][d]

\* Exit code 0, but for --dry-run and --help, means anchored, for good: from then on the
\* remote's tag of the date names a commit of the remote's branch whose manifest has
\* every head that was in the log when the run started, or a later one, whatever runs
\* fail or die afterwards.
SuccessIsAnchored ==
  \A r \in Runs : pc[r] = "success" =>
    LET d == date[r] IN rtag[d] \in 1..rbranch /\ UpTo(base[r], Anchored(d))

\* R9 "advance the tag": once a date is anchored, no later run, complete or not, moves
\* its tag to a manifest with an earlier head.
TagAdvances ==
  [][\A d \in Dates : rtag[d] # 0 =>
       rtag'[d] # 0 /\ UpTo(Anchored(d), Anchored(d)')]_vars

\* What the remote's branch holds is whole, and made of heads that were in the log: no
\* truncated manifest is ever committed, by this run or a later one.
PublishedIsTrue ==
  \A i \in 1..rbranch : \A d \in Dates :
    history[i][d] # Torn /\ UpTo(history[i][d], log)

\* A tag at the remote names a commit of the remote's branch.
TagOnBranch == \A d \in Dates : rtag[d] <= rbranch

\* Every run comes to an end: pushes are not tried for ever.
RunEnds == \A r \in Runs : Active(r) ~> pc[r] \in Ends
=============================================================================
