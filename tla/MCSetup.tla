------------------------------ MODULE MCSetup ------------------------------
(* Setup for TLC: two hosts and the files they may find.                   *)
EXTENDS Setup

CONSTANTS claude, codex

Foreign1 == Command("shell", None, 0, "stable")
Upstream == Command("other", claude, 1, "stable")
Now(h) == Command("k3", h, 1, "stable")
Old(h) == Command("k3", h, 0, "versioned")

Rest == <<Line("blank"), Line("table"), Line("setting")>>

\* A block under the marker used before 0.6.
OldBlock(host, c) ==
    <<Marker("oldBegin", host), Line("comment"), Line("hooks"), Line("event"),
      CommandLine(c), Line("timeout"), Marker("oldEnd", host)>>

MCInitialTexts ==
    {<<>>,
     \* both hosts, installed now
     <<Line("setting"), Line("blank")>> \o ManagedBlock(claude, Now(claude))
       \o <<Line("blank")>> \o ManagedBlock(codex, Now(codex)),
     \* settings and a hook of the user's
     <<Line("setting"), Line("blank"), Line("hooks"), Line("otherEvent"),
       CommandLine(Foreign1)>> \o Rest,
     \* the same hook, inline
     <<InlineHooks(Foreign1)>> \o Rest,
     \* this plugin before 0.6, beside the upstream plugin
     <<Line("setting")>> \o OldBlock(claude, Old(claude)) \o OldBlock(None, Upstream),
     \* this plugin before hosts had blocks of their own, and other settings
     <<Marker("begin", None), Line("hooks"), Line("event"), CommandLine(Old(claude)),
       Marker("end", None)>> \o Rest}
=============================================================================
