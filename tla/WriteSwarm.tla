----------------------------- MODULE WriteSwarm -----------------------------
(***************************************************************************)
(* Jobs that use the data directory of DataDir: /k3:swarm --write, which   *)
(* works in a git worktree of its own below that directory and leaves a    *)
(* patch (commands/swarm.ts, git.ts), and, as far as directory and row go, *)
(* the other foreground jobs (/k3:pursue among them).  What a killed swarm *)
(* leaves behind is removed by a later one, by age.                        *)
(*                                                                         *)
(* A job whose call ends by the budget does not outlive the longest budget *)
(* and the margin for starting and for ending.  A call that a descendant   *)
(* of kimi holds open may: such a swarm is `orphaned'.  git and the disk   *)
(* may fail whenever a patch is captured.                                  *)
(***************************************************************************)
EXTENDS DataDir

CONSTANTS
    Swarms,   \* the jobs that are write swarms
    Forced,   \* the jobs started with --allow-concurrent
    Budget,   \* MAX_DURATION_MS, the longest budget
    Margin    \* the two hours on top of it

ASSUME SwarmsAreJobs == Swarms \subseteq Jobs /\ Forced \subseteq Jobs
ASSUME TimesAssumption == Budget \in Nat \ {0} /\ Margin \in Nat \ {0}

Ttl == Budget + Margin    \* WORKTREE_ORPHAN_TTL_MS

VARIABLES
    pc,         \* where a job's process is
    name,       \* the name under which it found the data directory
    out,        \* the same, when it found it again before the call
    tree,       \* the name of the directory that holds its worktree
    age,        \* the age of that worktree
    orphaned,   \* swarms whose call a descendant held open past their time
    edited,     \* swarms whose subagents have changed a file and made a new one
    patch,      \* the edits in a swarm's patch file
    fault       \* what went wrong when they were captured

fileVars == <<edited, patch, fault>>
jobVars == <<pc, name, out, tree, age, orphaned, fileVars>>
vars == <<dirVars, jobVars>>

Edits == {"changed", "new"}    \* of a file that was there, of a new one

Alive(j) == pc[j] \notin {"idle", "gone"}

Init ==
    /\ DirInit
    /\ pc = [j \in Jobs |-> "idle"]
    /\ name = [j \in Jobs |-> None] /\ out = [j \in Jobs |-> None]
    /\ tree = [j \in Swarms |-> None] /\ age = [j \in Swarms |-> 0]
    /\ orphaned = {} /\ edited = {}
    /\ patch = [j \in Swarms |-> {}] /\ fault = [j \in Swarms |-> "none"]

Step(j, from, to) == pc[j] = from /\ pc' = [pc EXCEPT ![j] = to]

-----------------------------------------------------------------------------
(* The start of a job.                                                     *)

Resolve(j) ==
    /\ Step(j, "idle", "resolved")
    /\ name' = [name EXCEPT ![j] = Resolved]
    /\ UNCHANGED <<dirVars, out, tree, age, orphaned, fileVars>>

(* ensurePluginPaths: the old directory is never created.                  *)
Ensure(j) ==
    /\ Step(j, "resolved", IF name[j] = "legacy" /\ ~Reach("legacy") THEN "gone" ELSE "ensured")
    /\ at' = IF name[j] = "legacy" THEN at ELSE MadeParents("current")
    /\ UNCHANGED <<rows, holder, spc, name, out, tree, age, orphaned, fileVars>>

\* The store is opened by its path; from here on it moves with its directory.
Open(j) ==
    /\ Step(j, "ensured", IF Reach(name[j]) THEN "open" ELSE "gone")
    /\ UNCHANGED <<dirVars, name, out, tree, age, orphaned, fileVars>>

\* The rows of dead owners are ended, then a running job refuses this one.
Admit(j) ==
    /\ Unlocked
    /\ rows' = [k \in Jobs |-> IF k \in Running /\ ~Alive(k)
                               THEN [rows[k] EXCEPT !.status = "ended"] ELSE rows[k]]
    /\ Step(j, "open", IF j \in Forced \/ \A k \in Running : ~Alive(k)
                       THEN IF j \in Swarms THEN "admitted" ELSE "tree"
                       ELSE "gone")
    /\ UNCHANGED <<at, holder, spc, name, out, tree, age, orphaned, fileVars>>

\* The alias is not followed.
TargetUnresolved(n) == n
\* The directory that a name leads to.
Target(n) == IF at[n] = "alias" THEN "current" ELSE n

\* The longest budget taken for the longest life.
ExpiredWithBudget(k) == age[k] > Budget
(* sweepStaleWorktrees: by the age of the directory alone.                 *)
Expired(k) == age[k] > Ttl
Sweep(j) ==
    /\ Step(j, "admitted", "swept")
    /\ tree' = [k \in Swarms |->
                   IF Expired(k) /\ Reach(name[j]) /\ tree[k] = Target(name[j])
                   THEN None ELSE tree[k]]
    /\ UNCHANGED <<dirVars, name, out, age, orphaned, fileVars>>

\* createEphemeralWorktree, below directories that are made as needed.
AddTree(j) ==
    /\ Step(j, "swept", "tree")
    /\ at' = MadeParents(name[j])
    /\ tree' = [tree EXCEPT ![j] = Target(name[j])]
    /\ age' = [age EXCEPT ![j] = 0]
    /\ UNCHANGED <<rows, holder, spc, name, out, orphaned, fileVars>>

\* createJob; a refusal leaves through the removal of the worktree.
Insert(j) ==
    /\ Unlocked
    /\ IF j \in Forced \/ Running = {}
       THEN /\ rows' = [rows EXCEPT ![j] = [NoRow EXCEPT !.status = "running", !.log = name[j]]]
            /\ Step(j, "tree", "row")
       ELSE Step(j, "tree", "closed") /\ UNCHANGED rows
    /\ UNCHANGED <<at, holder, spc, name, out, tree, age, orphaned, fileVars>>

\* writeInvocationLogHeader makes the directory of the log as needed.
Header(j) ==
    /\ Step(j, "row", "execute")
    /\ at' = MadeParents(name[j])
    /\ UNCHANGED <<rows, holder, spc, name, out, tree, age, orphaned, fileVars>>

-----------------------------------------------------------------------------
(* The call and the end of a job (executeSwarmJob, executePursueJob).      *)

\* The paths are resolved again; then the hook is there, or it is not.  When the
\* store does not open again, the job leaves its row as it is.
Execute(j) ==
    /\ \/ /\ Step(j, "execute", "call") \/ Step(j, "execute", "captured")
          /\ out' = [out EXCEPT ![j] = Resolved]
       \/ Step(j, "execute", "closed") /\ UNCHANGED out
    /\ UNCHANGED <<dirVars, name, tree, age, orphaned, fileVars>>

HasTree(j) == tree[j] # None /\ Reach(name[j]) /\ tree[j] = Target(name[j])

\* A subagent edits; without its directory the call does not start.
Work(j) ==
    /\ j \in Swarms \ edited /\ pc[j] = "call" /\ HasTree(j)
    /\ edited' = edited \cup {j}
    /\ UNCHANGED <<dirVars, pc, name, out, tree, age, orphaned, patch, fault>>

(* kimi has exited and a process it started holds its pipes: the call does *)
(* not end with the budget, but when that process does (teardownChildTree).*)
Orphan(j) ==
    /\ j \in Swarms \ orphaned /\ pc[j] = "call"
    /\ tree[j] # None /\ age[j] = Budget + Margin
    /\ orphaned' = orphaned \cup {j}
    /\ UNCHANGED <<dirVars, pc, name, out, tree, age, fileVars>>

\* The patch is captured after a success only.
CallEndsUncaptured(j) ==
    /\ Step(j, "call", "ended") \/ Step(j, "call", "captured")
    /\ UNCHANGED <<dirVars, name, out, tree, age, orphaned, fileVars>>
\* Success, failure, budget or cancel.
CallEnds(j) ==
    /\ Step(j, "call", IF j \in Swarms THEN "ended" ELSE "captured")
    /\ UNCHANGED <<dirVars, name, out, tree, age, orphaned, fileVars>>

\* git diff against HEAD: new files as far as git add -N has listed them.
Diff(j, f) == {e \in Edits : j \in edited /\ (f = "unlisted" => e = "changed")}

(* capturePatchArtifact: git add -N may fail unnoticed; git diff or the    *)
(* write may fail, as without the worktree or the directory for the patch, *)
(* which the job reports before it goes on.                                *)
Capture(j) ==
    /\ Step(j, "ended", "captured")
    /\ \E f \in IF HasTree(j) /\ Reach(out[j]) THEN {"none", "unlisted", "failed"} ELSE {"lost"} :
          /\ fault' = [fault EXCEPT ![j] = f]
          /\ patch' = IF f \in {"none", "unlisted"} THEN [patch EXCEPT ![j] = Diff(j, f)] ELSE patch
    /\ UNCHANGED <<dirVars, name, out, tree, age, orphaned, edited>>

\* markCompleted, markJobFailed, markJobCancelled.
End(j) ==
    /\ Unlocked
    /\ Step(j, "captured", "closed")
    /\ rows' = [rows EXCEPT ![j] = [@ EXCEPT !.status = "ended", !.out = out[j]]]
    /\ UNCHANGED <<at, holder, spc, name, out, tree, age, orphaned, fileVars>>

\* What a process that is gone knew is forgotten, and what it left is looked at
\* no more, except for its row and its worktree.
Forget(j) ==
    /\ name' = [name EXCEPT ![j] = None] /\ out' = [out EXCEPT ![j] = None]
    /\ orphaned' = orphaned \ {j} /\ edited' = edited \ {j}
    /\ patch' = [k \in Swarms |-> IF k = j THEN {} ELSE patch[k]]
    /\ fault' = [k \in Swarms |-> IF k = j THEN "none" ELSE fault[k]]

(* removeWorktree: by the path the job knows.                              *)
Remove(j) ==
    /\ Step(j, "closed", "gone")
    /\ tree' = IF j \in Swarms /\ HasTree(j) THEN [tree EXCEPT ![j] = None] ELSE tree
    /\ Forget(j)
    /\ UNCHANGED <<dirVars, age>>

\* Killed, or terminated while it does not handle the signal.
Die(j) ==
    /\ Alive(j)
    /\ pc' = [pc EXCEPT ![j] = "gone"]
    /\ Forget(j)
    /\ UNCHANGED <<dirVars, tree, age>>

-----------------------------------------------------------------------------

\* Clock and timers run alike: only an orphaned swarm outlives its time.
Tick ==
    /\ \E j \in Swarms : tree[j] # None /\ age[j] <= Ttl
    /\ \A j \in Swarms \ orphaned : Alive(j) /\ tree[j] # None => age[j] < Budget + Margin
    /\ age' = [j \in Swarms |-> IF tree[j] # None /\ age[j] <= Ttl THEN age[j] + 1 ELSE age[j]]
    /\ UNCHANGED <<dirVars, pc, name, out, tree, orphaned, fileVars>>

\* A worktree moves with the directory that holds it.
MoveTrees ==
    tree' = [j \in Swarms |-> IF tree[j] = "legacy" /\ at["legacy"] = "dir" /\ at'["legacy"] = "absent"
                              THEN "current" ELSE tree[j]]

Next ==
    \/ \E s \in Setups : Migrate(s) /\ MoveTrees
                         /\ UNCHANGED <<pc, name, out, age, orphaned, fileVars>>
    \/ \E j \in Jobs :
          \/ Resolve(j) \/ Ensure(j) \/ Open(j) \/ Admit(j) \/ Sweep(j) \/ AddTree(j)
          \/ Insert(j) \/ Header(j) \/ Execute(j) \/ Work(j) \/ Orphan(j) \/ CallEnds(j)
          \/ Capture(j) \/ End(j) \/ Remove(j) \/ Die(j)
    \/ Tick

Spec == Init /\ [][Next]_vars

-----------------------------------------------------------------------------
(* Properties.                                                             *)

\* Once a job's row says running, its directory stays under the name it uses:
\* no setup, whole or cut short, takes it away until the row has ended.
RunningKeepsDir ==
    [][\A j \in Jobs : j \in Running /\ Alive(j) /\ Reach(name[j]) => Reach(name[j])']_vars

\* Nobody but its owner removes the worktree of a live swarm, unless a descendant
\* of its kimi has held its call open: the sweep goes by age alone, and the limit
\* exceeds the life of a swarm only where the budget ends its call.
LiveWorktreeKept ==
    [][\A j \in Swarms : Alive(j) /\ tree[j] # None /\ tree'[j] = None =>
          pc[j] = "closed" \/ j \in orphaned]_vars

\* When a swarm gets to remove its worktree, an edit that is not in its patch was
\* given up with a report that the capture failed, in a worktree that was there
\* or was taken from an orphaned swarm; or it is a new file that git add -N,
\* failing unnoticed, has not listed.
WorkCaptured ==
    \A j \in edited : pc[j] = "closed" =>
        \A e \in Edits \ patch[j] :
            \/ fault[j] = "failed"
            \/ fault[j] = "lost" /\ j \in orphaned
            \/ fault[j] = "unlisted" /\ e = "new"

\* A setup that ends its transaction leaves no row of an ended job with a path
\* that leads nowhere, whatever an earlier setup did not finish.
SetupRepairsPaths ==
    [][\A s \in Setups :
          spc[s] \in {"rebase", "commit"} /\ rows' = Rewritten =>
             \A j \in Jobs \ Running' : Reach(rows[j].log)' /\ Reach(rows[j].out)']_vars

\* The data directory never becomes two.
NeverSplit == ~(at["legacy"] = "dir" /\ at["current"] = "dir")

\* When a swarm has swept, no worktree older than the limit is left, under
\* either name, if the data directory is one and the swarm still finds it.
OrphansReaped ==
    [][\A j \in Swarms : pc[j] = "admitted" /\ pc'[j] = "swept" /\ NeverSplit /\ Reach(name[j]) =>
          \A k \in Swarms : tree'[k] # None => ~Expired(k)]_vars
=============================================================================
