------------------------------ MODULE EvalRouter -------------------------------
(***************************************************************************)
(* The eval-driven router.  A request is routed to the cheapest model that *)
(* meets its policy, or now and then, as a shadow test, to a still cheaper *)
(* one; the answers are graded at any later time, and from the third grade *)
(* on a model's quality is the mean of its grades.  Qualities are in units *)
(* of 0.0001, the digits that record_eval_outcome() keeps.                 *)
(***************************************************************************)
EXTENDS Naturals, SequencesExt

CONSTANTS
  NumModels,    \* the catalog, numbered in its order
  Cost,         \* model -> blended cost
  Latency,      \* model -> typical latency
  CatalogQuality,
  Callers,
  Policies,     \* what callers ask for: [quality, latency, cost, shadow],
                \*   the limits None or numbers, shadow a Boolean
  Grades,       \* what the eval harness may give
  MaxGrades,    \* bound: grades of one model
  None

Models == 1..NumModels

\* A quality of 1.0.
One == 10000

ASSUME EvalRouterAssumption ==
  /\ NumModels \in Nat \ {0}
  /\ Cost \in [Models -> Nat] /\ Latency \in [Models -> Nat]
  /\ CatalogQuality \in [Models -> 0..One]
  /\ None \notin Nat
  /\ Policies \subseteq [quality : Nat, latency : Nat \cup {None},
                         cost : Nat \cup {None}, shadow : BOOLEAN]
  /\ Grades \subseteq 0..One /\ MaxGrades \in Nat

\* True of the standard catalog.
ASSUME CatalogAssumption == \A m, n \in Models : Cost[m] = Cost[n] => m = n

VARIABLES
  quality,   \* the profiles' quality_score
  scores,    \* _empirical_scores: model -> how many grades, and their sum
  decision   \* caller -> the RouteDecision it acts on, or None

vars == <<quality, scores, decision>>

-----------------------------------------------------------------------------
\* The first model of S with the least key.
Least(S, key) ==
  CHOOSE m \in S : \A n \in S \ {m} : key[m] < key[n] \/ (key[m] = key[n] /\ m < n)

Unsoundness == [m \in Models |-> One - quality[m]]

Within(limit, x) == limit = None \/ x <= limit

\* The models that meet a policy.
Viable(p) ==
  {m \in Models : /\ quality[m] >= p.quality
                  /\ Within(p.latency, Latency[m]) /\ Within(p.cost, Cost[m])}

\* Faulty variant: the first model of the catalog that meets the policy.
FindFirstModel(p) ==
  IF Viable(p) = {} THEN Least(Models, Unsoundness)
  ELSE CHOOSE m \in Viable(p) : \A n \in Viable(p) : m <= n

\* find_optimal_model(priority="cost")
FindOptimalModel(p) ==
  IF Viable(p) = {} THEN Least(Models, Unsoundness) ELSE Least(Viable(p), Cost)

\* The cheaper models that a request may test, if their quality is within
\* striking distance; latency and cost limits do not apply to them.
ShadowCandidates(p, primary) ==
  {m \in Models : /\ Cost[m] < Cost[primary]
                  /\ quality[m] * 100 >= p.quality * 92}

Fallbacks(selected) ==
  LET others == SetToSortSeq(Models \ {selected},
                  LAMBDA m, n : \/ quality[m] > quality[n]
                                \/ quality[m] = quality[n] /\ m < n)
  IN  SubSeq(others, 1, IF Len(others) < 3 THEN Len(others) ELSE 3)

Decision(p, selected, shadow) ==
  [policy |-> p, selected |-> selected, shadow |-> shadow,
   fallbacks |-> Fallbacks(selected)]

Init ==
  /\ quality = CatalogQuality
  /\ scores = [m \in Models |-> [n |-> 0, sum |-> 0]]
  /\ decision = [c \in Callers |-> None]

\* route().  If there is no candidate the shadow test is not made.
Route(c, p) ==
  LET primary == FindOptimalModel(p)
      candidates == ShadowCandidates(p, primary)
  IN  /\ decision[c] = None
      /\ \/ decision' = [decision EXCEPT ![c] = Decision(p, primary, FALSE)]
         \/ /\ p.shadow
            /\ \E m \in candidates :
                 decision' = [decision EXCEPT ![c] = Decision(p, m, TRUE)]
      /\ UNCHANGED <<quality, scores>>

\* Faulty variant: a model's first measured quality stays.
MeasuredOnce(m, s) == IF s.n = 3 THEN (2 * s.sum + 3) \div 6 ELSE quality[m]

\* The quality of model m after a grade has made its scores s: their mean from
\* the third on, rounded.
Measured(m, s) ==
  IF s.n >= 3 THEN (2 * s.sum + s.n) \div (2 * s.n) ELSE quality[m]

\* record_eval_outcome()
RecordEvalOutcome(m, grade) ==
  LET s == [n |-> scores[m].n + 1, sum |-> scores[m].sum + grade]
  IN  /\ scores' = [scores EXCEPT ![m] = s]
      /\ quality' = [quality EXCEPT ![m] = Measured(m, s)]

\* The host grades an answer.
Evaluate(c, grade) ==
  /\ decision[c] # None
  /\ scores[decision[c].selected].n < MaxGrades
  /\ RecordEvalOutcome(decision[c].selected, grade)
  /\ decision' = [decision EXCEPT ![c] = None]

\* Or it does not.
Discard(c) ==
  /\ decision[c] # None
  /\ decision' = [decision EXCEPT ![c] = None]
  /\ UNCHANGED <<quality, scores>>

Next ==
  \E c \in Callers :
    \/ \E p \in Policies : Route(c, p)
    \/ \E grade \in Grades : Evaluate(c, grade)
    \/ Discard(c)

Spec == Init /\ [][Next]_vars

-----------------------------------------------------------------------------
TypeOK ==
  /\ quality \in [Models -> 0..One]
  /\ scores \in [Models -> [n : 0..MaxGrades, sum : Nat]]
  /\ \A c \in Callers :
       \/ decision[c] = None
       \/ /\ decision[c].policy \in Policies /\ decision[c].selected \in Models
          /\ decision[c].shadow \in BOOLEAN
          /\ decision[c].fallbacks \in Seq(Models \ {decision[c].selected})

\* What the grades say of a model, and the catalog before there are three.
Truth(m) ==
  LET s == scores[m]
  IN  IF s.n >= 3 THEN (2 * s.sum + s.n) \div (2 * s.n) ELSE CatalogQuality[m]

Meets(p, m) ==
  /\ Truth(m) >= p.quality
  /\ Within(p.latency, Latency[m]) /\ Within(p.cost, Cost[m])

Decides(c) == decision[c] = None /\ decision'[c] # None

\* As long as some model meets a policy by all grades so far, the request gets
\* such a model or, as a shadow test, one within 92 % of its quality, whichever
\* callers' answers were graded in between (eval_router.py:98-131, :179-181).
MeasuredQualityDecides ==
  [][\A c \in Callers : Decides(c) =>
       LET d == decision'[c]
       IN  (\E m \in Models : Meets(d.policy, m)) =>
             IF d.shadow
             THEN Truth(d.selected) * 100 >= d.policy.quality * 92
             ELSE Meets(d.policy, d.selected)]_vars

\* Model n dominates m as compute_pareto_frontier() has it, by the grades so far.
Dominates(n, m) ==
  /\ Truth(n) >= Truth(m) /\ Cost[n] <= Cost[m] /\ Latency[n] <= Latency[m]
  /\ \/ Truth(n) > Truth(m) \/ Cost[n] < Cost[m] \/ Latency[n] < Latency[m]

\* A model that is selected because it meets a policy is Pareto-optimal by the
\* grades so far, as the decision's rationale says (eval_router.py:133-137).
SelectedIsOptimal ==
  [][\A c \in Callers : Decides(c) =>
       LET d == decision'[c]
       IN  ~d.shadow /\ Meets(d.policy, d.selected) =>
             \A n \in Models : ~Dominates(n, d.selected)]_vars
=============================================================================
