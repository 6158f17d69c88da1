--------------------------- MODULE MCJobLifecycle ----------------------------
(* Commands for the runs of JobLifecycle. *)
EXTENDS JobLifecycle, TLC

Ask(background, forced) == [type |-> "ask", background |-> background, forced |-> forced]

Review == [type |-> "review", background |-> FALSE, forced |-> FALSE]

Rescue == [type |-> "rescue", background |-> TRUE, forced |-> FALSE]

Probe == [type |-> "probe", background |-> FALSE, forced |-> FALSE]

AllCommands == {Rescue, Ask(FALSE, FALSE), Ask(TRUE, TRUE), Review, Probe}

TwoCommands == {Rescue, Ask(FALSE, FALSE)}

ForegroundOnly == {Ask(FALSE, FALSE)}

BackgroundOnly == {Rescue}

Symmetric == Permutations(Job)
==============================================================================
