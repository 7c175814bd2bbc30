--------------------------- MODULE EngineFailover ---------------------------
(***************************************************************************)
(* The two signal engines of one server and the switch between them        *)
(* (engine_failover.py, brain_cv_service.py, /engine of admin_router.py).  *)
(*                                                                         *)
(* Nothing in here awaits: an evaluation and a change of tier are steps.   *)
(* What an engine computes is left out; a part of it that is broken raises.*)
(***************************************************************************)
EXTENDS ServerRequests, Sequences

CONSTANTS FailureThreshold, \* FAILURE_THRESHOLD
          MaxFailures       \* bound: failures counted while there is no fallback

ASSUME FailoverAssumption == /\ FailureThreshold \in Nat \ {0}
                             /\ MaxFailures \in Nat
                             /\ FailureThreshold <= MaxFailures

Tiers == {"primary", "fallback"}

\* What may be broken: the model file or the constructor, the rules, the neural layer.
Parts == Tiers \X {"build", "rules", "neural"}

VARIABLES broken,   \* the parts that raise at present
          active,   \* active_tier
          failures, \* _consecutive_failures
          built,    \* the tiers whose engine exists; none before the server is up
          answer,   \* what the last evaluation returned
          record    \* whether the last evaluations of the primary got through, oldest first

engineVars == <<broken, active, failures, built, answer, record>>

EngineTypeOK ==
    /\ broken \in SUBSET Parts
    /\ active \in Tiers
    /\ failures \in 0..MaxFailures
    /\ built \in SUBSET Tiers
    /\ answer \in Tiers \cup {"none", "safe hold", "rules only", "raised"}
    /\ record \in Seq(BOOLEAN) /\ Len(record) <= FailureThreshold

EngineInit ==
    /\ broken \in IF Arrives("engines") THEN SUBSET Parts ELSE {{}}
    /\ active = "primary"
    /\ failures = 0
    /\ built = {}
    /\ answer = "none"
    /\ record = << >>

-----------------------------------------------------------------------------
Runs(tier, part) == <<tier, part>> \notin broken

\* The tier is there, or _ensure_fallback_built can build it now.
Builds(tier) == tier \in built \/ Runs(tier, "build")

Recorded(worked) ==
    LET longer == Append(record, worked)
    IN  IF Len(longer) > FailureThreshold THEN Tail(longer) ELSE longer

\* _init_primary in a new manager: a primary that cannot be built is replaced at once,
\* and the server does not start when the fallback cannot be built either.
StartEngines ==
    /\ Arrives("engines")
    /\ \E tier \in Tiers :
          /\ Runs(tier, "build")
          /\ tier = "fallback" => ~Runs("primary", "build")
          /\ built' = {tier}
          /\ active' = tier
    /\ failures' = 0
    /\ answer' = "none"
    /\ record' = << >>
    /\ UNCHANGED broken

\* _evaluate_fallback: without its neural layer it still answers by the rules.
FallbackAnswer ==
    CASE ~Runs("fallback", "rules") -> "raised"
      [] Runs("fallback", "rules") /\ ~Runs("fallback", "neural") -> "rules only"
      [] OTHER -> "fallback"

PrimaryWorks == Runs("primary", "rules") /\ Runs("primary", "neural")

\* Mutation: an evaluation that works leaves the count as it is.
FailuresNotReset(worked) == IF worked THEN failures ELSE failures + 1

\* _evaluate_primary resets the count once the neural layer has answered, too.
FailuresAfter(worked) == IF worked THEN 0 ELSE failures + 1

EvaluateByPrimary ==
    /\ active = "primary"
    /\ PrimaryWorks \/ FailuresAfter(FALSE) < FailureThreshold
    /\ answer' = IF PrimaryWorks THEN "primary" ELSE "safe hold"
    /\ UNCHANGED <<active, built>>

Trips ==
    /\ active = "primary"
    /\ ~PrimaryWorks
    /\ FailuresAfter(FALSE) >= FailureThreshold
    /\ IF Builds("fallback")
         THEN /\ built' = built \cup {"fallback"}
              /\ active' = "fallback"
              /\ answer' = FallbackAnswer
         ELSE /\ answer' = "raised"
              /\ UNCHANGED <<active, built>>

EvaluateHistory ==
    /\ Arrives("evaluate")
    /\ built # {}
    /\ \/ /\ EvaluateByPrimary \/ Trips
          /\ FailuresAfter(PrimaryWorks) <= MaxFailures
          /\ failures' = FailuresAfter(PrimaryWorks)
          /\ record' = Recorded(PrimaryWorks)
       \/ /\ active = "fallback"
          /\ answer' = FallbackAnswer
          /\ UNCHANGED <<active, failures, built, record>>
    /\ UNCHANGED broken

\* /engine/set_tier.  A primary that was built is asked for an answer to no history,
\* which its rules give without the neural layer; otherwise it is built now.
ForceTier(tier) ==
    /\ Arrives("tier")
    /\ built # {}
    /\ IF tier \in built /\ tier = "primary"
         THEN Runs("primary", "rules")
         ELSE Builds(tier)
    /\ built' = built \cup {tier}
    /\ active' = tier
    /\ failures' = 0
    /\ record' = << >>
    /\ answer' = "none"
    /\ UNCHANGED broken

PartBreaks(part) ==
    /\ part \notin broken
    /\ broken' = broken \cup {part}
    /\ UNCHANGED <<active, failures, built, answer, record>>

PartIsMended(part) ==
    /\ part \in broken
    /\ broken' = broken \ {part}
    /\ UNCHANGED <<active, failures, built, answer, record>>

EngineNext ==
    \/ StartEngines
    \/ EvaluateHistory
    \/ \E tier \in Tiers : ForceTier(tier)
    \/ \E part \in Parts : PartBreaks(part) \/ PartIsMended(part)

-----------------------------------------------------------------------------
\* The breaker trips on failures in a row only: an evaluation leaves the primary when
\* FAILURE_THRESHOLD evaluations since it was selected have failed with no success among them
\* (engine_failover.py:41-43), however outages of its two layers come and go.
TripsOnlyInARow ==
    [][active = "primary" /\ active' = "fallback" /\ answer' # "none" =>
          /\ Len(record') = FailureThreshold
          /\ \A i \in DOMAIN record' : ~record'[i]]_engineVars
=============================================================================
