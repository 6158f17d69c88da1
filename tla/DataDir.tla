------------------------------ MODULE DataDir -------------------------------
(***************************************************************************)
(* The plugin's data directory and its move, once, from the name it had    *)
(* before 0.6 to the current one (paths.ts, legacy-names.ts).  A command   *)
(* finds the directory by name when it starts and keeps using that name;   *)
(* setup renames the directory under the write lock of the job store,      *)
(* which moves with it, and leaves an alias under the old name until no    *)
(* job is running.  A row of the store keeps the paths of its job.         *)
(*                                                                         *)
(* Steps of the file system and steps of the store interleave; setup dies  *)
(* anywhere, and its transaction is then rolled back.  POSIX only; the old *)
(* directory is one that has a store.                                      *)
(***************************************************************************)
EXTENDS Naturals

CONSTANTS
    Jobs,     \* commands that run a job, each once
    Setups,   \* setups, each once
    None

ASSUME SetupsAreNoJobs == Jobs \cap Setups = {} /\ None \notin Jobs \cup Setups

Names == {"legacy", "current"}

ASSUME NoneIsNoName == None \notin Names

VARIABLES
    at,       \* what is under each name: "absent", "dir" or "alias" (to current)
    rows,     \* a job's row: its status, and the names in its stored paths
    holder,   \* the setup whose transaction holds the store's write lock
    spc       \* where a setup is

dirVars == <<at, rows, holder, spc>>

NoRow == [status |-> "none", log |-> None, out |-> None]

\* A path that starts with this name leads somewhere.
Reach(n) == n = None \/ at[n] # "absent"

DirInit ==
    /\ at \in {[legacy |-> "dir", current |-> "absent"],
               [legacy |-> "absent", current |-> "dir"],
               [legacy |-> "absent", current |-> "absent"]}
    /\ rows = [j \in Jobs |-> NoRow]
    /\ holder = None
    /\ spc = [s \in Setups |-> "idle"]

(* resolvePluginPaths.                                                     *)
Resolved == IF ~Reach("current") /\ Reach("legacy") THEN "legacy" ELSE "current"

\* mkdir with its parents, under a path that starts with this name.
MadeParents(n) == [at EXCEPT ![n] = IF @ = "absent" THEN "dir" ELSE @]

Unlocked == holder = None
Running == {j \in Jobs : rows[j].status = "running"}

\* The move takes no notice of jobs.
QuietAlways == TRUE
(* countRunningJobs.                                                       *)
Quiet == Running = {}

\* legacyPathMapper over the paths of every row (rewriteStoredPaths).
Current(n) == IF n = "legacy" THEN "current" ELSE n
\* The artifact's path is forgotten.
RewrittenLogOnly ==
    [j \in Jobs |-> [rows[j] EXCEPT !.log = Current(@)]]
Rewritten ==
    [j \in Jobs |-> [rows[j] EXCEPT !.log = Current(@), !.out = Current(@)]]

-----------------------------------------------------------------------------
(* migrateLegacyDataDir.                                                   *)

Goto(s, pc) == spc' = [spc EXCEPT ![s] = pc]

\* What is there when setup looks, before it takes any lock.  Setup has made
\* sure of its own directory, as every command does.
Look(s) ==
    /\ spc[s] = "idle"
    /\ at' = IF Reach(Resolved) THEN at ELSE MadeParents("current")
    /\ Goto(s, CASE at["legacy"] = "absent" -> "rebase"
                 [] at["legacy"] = "alias" -> "alias"
                 [] at["legacy"] = "dir" /\ at["current"] = "absent" -> "move"
                 [] OTHER -> "gone")
    /\ UNCHANGED <<rows, holder>>

\* Nothing to move: the rewrite that an earlier setup may have missed.
Rebase(s) ==
    /\ spc[s] = "rebase" /\ Unlocked
    /\ rows' = Rewritten
    /\ Goto(s, "gone")
    /\ UNCHANGED <<at, holder>>

\* Count the running jobs, rename the directory.
Move(s) ==
    /\ spc[s] = "move" /\ Unlocked
    /\ IF Quiet /\ at = [legacy |-> "dir", current |-> "absent"]
       THEN /\ at' = [legacy |-> "absent", current |-> "dir"]
            /\ holder' = s
            /\ Goto(s, "renamed")
       ELSE Goto(s, "gone") /\ UNCHANGED <<at, holder>>
    /\ UNCHANGED rows

\* The alias; that it cannot be made is not fatal.
MakeAlias(s) ==
    /\ spc[s] = "renamed"
    /\ at' = [at EXCEPT !["legacy"] = IF @ = "absent" THEN "alias" ELSE @]
    /\ Goto(s, "commit")
    /\ UNCHANGED <<rows, holder>>

Commit(s) ==
    /\ spc[s] = "commit"
    /\ rows' = Rewritten
    /\ holder' = None
    /\ Goto(s, "gone")
    /\ UNCHANGED at

\* The alias of an earlier move goes once no job is running.
DropAlias(s) ==
    /\ spc[s] = "alias" /\ Unlocked
    /\ CASE ~Quiet ->
              rows' = Rewritten /\ Goto(s, "gone") /\ UNCHANGED <<at, holder>>
         [] Quiet /\ at["legacy"] = "alias" ->
              /\ at' = [at EXCEPT !["legacy"] = "absent"]
              /\ holder' = s
              /\ Goto(s, "commit")
              /\ UNCHANGED rows
         [] OTHER -> Goto(s, "gone") /\ UNCHANGED <<at, rows, holder>>

SetupDies(s) ==
    /\ spc[s] \notin {"idle", "gone"}
    /\ holder' = IF holder = s THEN None ELSE holder
    /\ Goto(s, "gone")
    /\ UNCHANGED <<at, rows>>

Migrate(s) ==
    \/ Look(s) \/ Rebase(s) \/ Move(s) \/ MakeAlias(s) \/ Commit(s) \/ DropAlias(s)
    \/ SetupDies(s)
=============================================================================
