-------------------------- MODULE ResilienceManager -------------------------
(***************************************************************************)
(* The failover manager of resilience/breaker.py and the remediation       *)
(* engine of resilience/remediation_engine.py, which shares its breakers   *)
(* through get_resilience_manager().                                       *)
(*                                                                         *)
(* Workers of the host program ask for a provider, make their call and     *)
(* report how it ended; other workers' calls, ticks of the clock and       *)
(* remediation passes come in between, so an answer may be recorded on a   *)
(* breaker that has tripped, or half-opened, since the call was sent.      *)
(***************************************************************************)
EXTENDS AIBreaker, Sequences, FiniteSets

CONSTANTS
  Chain,    \* the continuity chain: primary, secondary, emergency, fallback
  Workers,  \* concurrent callers
  Rules     \* RemediationEngine.rules, the enabled ones in order: [condition, action,
            \* target], where a condition is a metric and its threshold

Providers == {Chain[i] : i \in DOMAIN Chain}
Fallback  == Chain[Len(Chain)]
Primary   == Chain[1]
Idle      == "idle"
Actions   == {"routing_shift", "circuit_breaker_trip", "webhook_dispatch", "log_audit"}

ASSUME ManagerAssumption ==
  /\ Chain \in Seq(STRING) \ {<<>>}
  /\ Idle \notin Providers
  /\ Rules \in Seq([condition : STRING, action : Actions, target : STRING])
  /\ \A r \in DOMAIN Rules :
       Rules[r].action = "circuit_breaker_trip" => Rules[r].target \in Providers

VARIABLES
  breaker,   \* _breakers: provider -> breaker
  call,      \* call[w]: the provider worker w is waiting for, or Idle
  calm,      \* environment: TRUE while every call to a provider ends well
  streak,    \* ghost: successes reported in a row while half-open
  due        \* ghost: the providers that the trace evaluated in the last step
             \* should trip

vars == <<breaker, call, calm, streak, due>>

Init ==
  /\ breaker = [p \in Providers |-> NewBreaker]
  /\ call    = [w \in Workers |-> Idle]
  /\ calm    = TRUE
  /\ streak  = [p \in Providers |-> 0]
  /\ due     = {}

NoPass == due' = {}

-----------------------------------------------------------------------------
(* Failover *)

\* Faulty variant: the chain is walked from its end.
SelectedLast ==
  LET able == {i \in DOMAIN Chain : CanExecute(breaker[Chain[i]])}
  IN IF able = {} THEN Fallback
     ELSE Chain[CHOOSE i \in able : \A j \in able : j <= i]

\* The first provider of the chain that may execute, else the fallback.
Selected ==
  LET able == {i \in DOMAIN Chain : CanExecute(breaker[Chain[i]])}
  IN IF able = {} THEN Fallback
     ELSE Chain[CHOOSE i \in able : \A j \in able : i <= j]

\* select_healthy_provider(), then the call is sent.  Every breaker before the
\* selected one answered no, which changes nothing; the selected one may turn
\* half-open.
Select(w) ==
  /\ call[w] = Idle
  /\ LET p == Selected IN
       /\ breaker' = [breaker EXCEPT ![p] = Probe(@)]
       /\ call' = [call EXCEPT ![w] = p]
       /\ streak' = IF breaker'[p].state # breaker[p].state
                    THEN [streak EXCEPT ![p] = 0] ELSE streak
  /\ UNCHANGED calm /\ NoPass

\* The worker reports the outcome: record_success() or record_failure().
Complete(w) ==
  /\ call[w] # Idle
  /\ \E outcome \in IF calm THEN {"good"} ELSE Outcomes :
       LET p == call[w] IN
         /\ breaker' = [breaker EXCEPT ![p] = RecordOutcome(@, outcome)]
         /\ streak' = [streak EXCEPT ![p] =
              IF breaker[p].state = "half_open" /\ outcome \in {"good", "slow"}
              THEN @ + 1 ELSE 0]
  /\ call' = [call EXCEPT ![w] = Idle]
  /\ UNCHANGED calm /\ NoPass

\* The host drops a call without reporting it (cancelled task).
Abandon(w) ==
  /\ call[w] # Idle
  /\ call' = [call EXCEPT ![w] = Idle]
  /\ UNCHANGED <<breaker, calm, streak>> /\ NoPass

-----------------------------------------------------------------------------
(* Remediation *)

Rule(condition, action, target) ==
  [condition |-> condition, action |-> action, target |-> target]

\* Faulty variant: the alert goes out before the breaker is tripped.
DefaultRulesAlertFirst ==
  <<Rule("bleed_15", "routing_shift", "gpt-4o-mini"),
    Rule("sm_starvation", "log_audit", "dataloader_optimization"),
    Rule("bleed_50", "webhook_dispatch", "critical-bleed"),
    Rule("quality_degradation", "circuit_breaker_trip", "openai")>>

\* _default_rules(): the bleed is compared with two thresholds.
DefaultRules ==
  <<Rule("bleed_15", "routing_shift", "gpt-4o-mini"),
    Rule("sm_starvation", "log_audit", "dataloader_optimization"),
    Rule("quality_degradation", "circuit_breaker_trip", "openai"),
    Rule("bleed_50", "webhook_dispatch", "critical-bleed")>>

\* evaluate_trace(): the rules whose condition the trace meets are carried out
\* in order, up to the end or to a webhook dispatcher that raises, which aborts
\* the pass.  The rules' cooldown_seconds is never consulted, and the list of
\* results, remediation_history, never read.
EvaluateTrace ==
  /\ \E met \in SUBSET {Rules[r].condition : r \in DOMAIN Rules} :
       /\ "quality_degradation" \in met => ~calm
       /\ LET hits   == {r \in DOMAIN Rules : Rules[r].condition \in met}
              raises == {r \in hits : Rules[r].action = "webhook_dispatch"}
              Trips(rules) == {Rules[r].target : r \in
                {q \in rules : Rules[q].action = "circuit_breaker_trip"}}
          IN \E end \in raises \cup {Len(Rules) + 1} :
               LET tripped == Trips({r \in hits : r < end})
               IN /\ breaker' = [p \in Providers |->
                       IF p \in tripped THEN Trip(breaker[p]) ELSE breaker[p]]
                  /\ streak' = [p \in Providers |->
                       IF p \in tripped THEN 0 ELSE streak[p]]
                  /\ due' = Trips(hits)
  /\ UNCHANGED <<call, calm>>

-----------------------------------------------------------------------------
Tick ==
  /\ \E p \in Providers : breaker[p].cool > 0
  /\ breaker' = [p \in Providers |-> Elapse(breaker[p])]
  /\ UNCHANGED <<call, calm, streak>> /\ NoPass

\* The providers degrade or recover.
Weather ==
  /\ calm' = ~calm
  /\ UNCHANGED <<breaker, call, streak>> /\ NoPass

Next ==
  \/ \E w \in Workers : Select(w) \/ Complete(w) \/ Abandon(w)
  \/ EvaluateTrace
  \/ Tick
  \/ Weather

Spec == Init /\ [][Next]_vars

(* Workers keep asking and every call that is not abandoned is answered; time *)
(* passes.  Nothing forces traces to be evaluated or providers to change.     *)
Fairness ==
  /\ \A w \in Workers : WF_vars(Select(w)) /\ SF_vars(Complete(w))
  /\ WF_vars(Tick)

FairSpec == Spec /\ Fairness
-----------------------------------------------------------------------------
TypeOK ==
  /\ breaker \in [Providers -> Breaker]
  /\ call \in [Workers -> Providers \cup {Idle}]
  /\ calm \in BOOLEAN
  /\ streak \in [Providers -> 0..HalfOpenSuccessNeeded]
  /\ due \subseteq Providers

(* The counters mean what the state machine takes them for, whatever late     *)
(* answers were recorded: a closed breaker is below the failure threshold,    *)
(* only a half-open one counts successes and it has never counted all it      *)
(* needs, only an open one is cooling down, and the count is that of the      *)
(* successes reported in a row since it half-opened.                          *)
CountersMatchState ==
  \A p \in Providers : LET b == breaker[p] IN
    /\ b.state = "closed" => b.failures < FailureThreshold
    /\ b.successes < HalfOpenSuccessNeeded
    /\ b.successes > 0 => b.state = "half_open"
    /\ b.cool > 0 => b.state = "open"
    /\ b.state = "half_open" => b.successes = streak[p]

(* A tripped provider gets no traffic before its cooldown is over, and it     *)
(* never goes back to normal operation without a half-open phase.             *)
OpenOnlyHalfOpens ==
  [][\A p \in Providers :
       breaker[p].state = "open" /\ breaker'[p].state # "open" =>
         /\ breaker'[p].state = "half_open"
         /\ breaker[p].cool = 0]_vars

(* Normal operation resumes only after half_open_success_needed successes in  *)
(* a row were reported since the breaker half-opened.                         *)
RecoveryIsEarned ==
  [][\A p \in Providers :
       breaker[p].state = "half_open" /\ breaker'[p].state = "closed" =>
         streak'[p] >= HalfOpenSuccessNeeded]_vars

(* A call goes to a provider only when every provider before it in the chain  *)
(* is tripped; it goes to a tripped one only as a last resort, to the         *)
(* fallback, with the whole chain tripped.                                    *)
FirstHealthyProvider ==
  [][\A w \in Workers : call[w] = Idle /\ call'[w] # Idle =>
       \E i \in DOMAIN Chain :
         /\ Chain[i] = call'[w]
         /\ \A j \in 1..(i - 1) : breaker'[Chain[j]].state = "open"
         /\ breaker'[Chain[i]].state = "open" => i = Len(Chain)]_vars

(* A quality collapse always trips its provider: neither another rule that    *)
(* the same trace triggers nor an alert webhook that raises and aborts the    *)
(* pass gets in the way of the default rules.                                 *)
CollapseTrips == \A p \in due : breaker[p].state = "open"

(* If all providers stay healthy from some time on, the primary provider is   *)
(* back in normal operation again and again.                                  *)
PrimaryRecovers ==
  <>[]calm => []<>(breaker[Primary].state = "closed")
=============================================================================
