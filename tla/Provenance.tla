----------------------------- MODULE Provenance -----------------------------
(***************************************************************************)
(* Which engine a version of kimi runs, which engine a plan asks for, what *)
(* a log of a job proves about the engine that ran, and who may continue   *)
(* whose session: the pure part of runtime/kimi-engine.ts.                 *)
(*                                                                         *)
(* Versions are grouped by what the tables of the code and kimi itself     *)
(* make of them:                                                           *)
(*   "old"  up to 0.32: in the tested minors, has the legacy engine only   *)
(*   "both" 0.33 to 0.41: in the tested minors, has both engines and runs  *)
(*          native-v2 unless KIMI_CODE_LEGACY_FLAG is set                  *)
(*   "cert" an exact version of NATIVE_V2_CERTIFIED_VERSIONS               *)
(*   "next" a release after those: native-v2 only, in no table             *)
(***************************************************************************)
EXTENDS FiniteSets

Legacy == "legacy-v1"
Native == "native-v2"
Engine == {Legacy, Native}
Unknown == "unknown"

Version == {"old", "both", "cert", "next"}

InTestedRange(v) == v \in {"old", "both"}

\* The certified list is the same for every operation that can be planned.
IsNativeV2Certified(v) == v = "cert"

SelectIntendedEngine(v) == IF IsNativeV2Certified(v) THEN Native ELSE Legacy

\* Asked when the plan is made and asked again, of the version kept in the row,
\* when the row's plan reaches a spawn.
CertifiedCapability(e, v) ==
    IF e = Native THEN IsNativeV2Certified(v) ELSE InTestedRange(v)

\* The engine a binary really runs: a legacy plan sets the flag, and releases
\* from 0.42 on ignore it.
Started(v, forced) ==
    IF v = "old" \/ (v = "both" /\ forced) THEN Legacy ELSE Native

-----------------------------------------------------------------------------
(* What a log can hold that counts: the spawn line of a plan that forced    *)
(* legacy, a line that shows the run got under way (a record, an announced  *)
(* session, a goal summary, an exit with code 0), and the marker of         *)
(* native-v2.                                                               *)

Evidence == {"forced", "run", "marker"}

\* Unfaithful: a spawn that forced legacy is taken for a legacy run.
ClassifyBySpawn(log) ==
    LET sawLegacy == "forced" \in log
        sawNative == "marker" \in log
    IN  IF sawLegacy = sawNative THEN Unknown
        ELSE IF sawNative THEN Native ELSE Legacy

\* A spawn that forced legacy proves nothing until the run shows a sign of life,
\* and evidence for both engines is evidence for none.
Classify(log) ==
    LET sawLegacy == {"forced", "run"} \subseteq log
        sawNative == "marker" \in log
    IN  IF sawLegacy = sawNative THEN Unknown
        ELSE IF sawNative THEN Native ELSE Legacy

-----------------------------------------------------------------------------
\* Unfaithful: a source nothing is known of may be continued on any engine.
ResumeUnknownAnywhere(observed, target) == observed \in {Unknown, target}

\* A source proven to be of the target engine may be continued; one of which
\* nothing is known only on legacy.
ResumeCompatible(observed, target) ==
    \/ observed = target
    \/ observed = Unknown /\ target = Legacy

=============================================================================
