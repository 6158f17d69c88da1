------------------------------- MODULE KimiCall -------------------------------
(***************************************************************************)
(* What a call of kimi promises the command that made it: kimi runs at     *)
(* most once, and the call answers at most once and never while kimi is    *)
(* alive.  The commands rely on it: whatever they do after the answer,     *)
(* ending the row of the job above all, finds no kimi at work.             *)
(***************************************************************************)
VARIABLES
    kimi,       \* the process: not started, live, ended
    answer      \* what the caller was given: nothing yet, a result, an error

callVars == <<kimi, answer>>

Init ==
    /\ kimi = "none"
    /\ answer = "none"

Start ==
    /\ kimi = "none" /\ answer = "none"
    /\ kimi' = "live"
    /\ UNCHANGED answer

End ==
    /\ kimi = "live"
    /\ kimi' = "ended"
    /\ UNCHANGED answer

\* Only a kimi that has run yields a result; an error needs none.
Return ==
    /\ kimi = "ended" /\ answer = "none"
    /\ answer' = "result"
    /\ UNCHANGED kimi

Throw ==
    /\ kimi # "live" /\ answer = "none"
    /\ answer' = "error"
    /\ UNCHANGED kimi

Next == Start \/ End \/ Return \/ Throw

Spec == Init /\ [][Next]_callVars
==============================================================================
