SPECIFICATION Spec
CONSTANTS
    claude = claude
    codex = codex
    None = None
    Hosts = {claude, codex}
    InitialTexts <- MCInitialTexts
    MaxVersion = 2
    MaxEdits = 2
    MaxSetups = 2
INVARIANTS
    VerifiedIsEnforced
    HostsCoexist
    InstallEstablishes
    ForeignKept
    RetryConverges
    UninstallDisarms
CHECK_DEADLOCK FALSE
