------------------------- MODULE HypothesisRegistry -------------------------
(***************************************************************************)
(* The life of a hypothesis definition in the beta database.  It is seeded *)
(* from a file (hypothesis_definition_service.py) or generated from a      *)
(* template (hypothesis_discovery_service.py), tested on the stored        *)
(* history (hypothesis_backtest_service.py), judged on its tests and on    *)
(* what was earned with it (hypothesis_belief_service.py), and may lead to *)
(* a recommendation while its belief is VALIDATED.                         *)
(*                                                                         *)
(* The supervisor runs the four jobs one after the other every hour, each  *)
(* in a transaction of its own and each free to fail alone, so that they   *)
(* succeed in any order.  A test is abstracted to the grade governance and *)
(* belief give it, what was earned to what the belief makes of it; the     *)
(* averages over all tests, the confidence among them, are left open.  The *)
(* row of the family in the older registry only sums up the definitions    *)
(* for the pages, and is left out.                                         *)
(***************************************************************************)
EXTENDS Naturals, FiniteSets

CONSTANTS
  Seeds, Generated,   \* definitions of the seed file; that discovery can find
  Outcomes,           \* the grades the tests of an instance get
  MaxPromotions,      \* hypothesis_discovery_max_promotions_per_run
  Traded              \* bound: definitions that something is earned with

Grades == {"strong", "fair", "weak", "thin", "negative", "refuted", "broken", "collapsed"}

ASSUME RegistryAssumption ==
  /\ Seeds \cap Generated = {} /\ Outcomes \subseteq Grades
  /\ MaxPromotions \in Nat /\ Traded \subseteq Seeds \cup Generated

Definitions == Seeds \cup Generated
Statuses == {"DISCOVERED", "SCREENED_IN", "CANDIDATE", "PROMISING", "VALIDATED",
             "DEGRADED", "REJECTED", "RETIRED"}

VARIABLES
  status,   \* of each definition, "none" when there is no row
  belief,   \* of each definition, "none" when there is no row
  tests,    \* its distinct evidence points, three standing for more, and the newest grade
  earned,   \* what the realized observations of each definition say
  extended  \* tables whose CHECK knows the statuses that came later

hypothesisVars == <<status, belief, tests, earned, extended>>

Untested == [points |-> 0, latest |-> "none"]
Present == {d \in Definitions : status[d] # "none"}

\* map_definition_status and map_belief_status
Stored(table, s) ==
  IF table \in extended THEN s
  ELSE CASE s \in {"DISCOVERED", "SCREENED_IN"} -> "CANDIDATE"
         [] s = "RETIRED" -> "REJECTED"
         [] OTHER -> s

-----------------------------------------------------------------------------
(* Governance: what evaluate_summary makes of a test *)

Watchable(g) == g \in {"strong", "fair", "weak", "thin"}        \* watch_eligible
Promotable(g) == g = "strong"                                   \* promotion_eligible
Critical(g) == g \in {"refuted", "collapsed"}                   \* severity REJECTED

\* Returns, walk-forward score or edge below what a third test may show.
Broken(g) == g \in {"broken", "collapsed"}

-----------------------------------------------------------------------------
(* Belief: _assess_definition, each test overriding the ones before *)

Measures ==
  [confidence : {30, 47, 48, 50}, stability : {24, 25, 40}, steady : BOOLEAN, declining : BOOLEAN]

Losing == {"soft", "bad", "terrible"}   \* three observations at least, none of them well

Promising(t, m) ==
  /\ t.points >= 2 /\ t.latest \in {"strong", "fair"} /\ Watchable(t.latest)
  /\ m.stability >= 25 /\ m.confidence >= 48

Validated(t, e, m) ==
  /\ t.points >= 3 /\ t.latest = "strong" /\ Promotable(t.latest)
  /\ m.stability >= 40 /\ m.confidence >= 50 /\ m.steady
  /\ e \notin {"bad", "terrible"}

OnLatest(t) ==
  IF ~Watchable(t.latest) THEN IF Critical(t.latest) THEN "REJECTED" ELSE "DEGRADED"
  ELSE IF t.latest = "thin" THEN "SCREENED_IN" ELSE "CANDIDATE"

OnRecord(t, e, m) ==
  IF Validated(t, e, m) THEN "VALIDATED"
  ELSE IF Promising(t, m) THEN "PROMISING"
  ELSE IF e \in Losing THEN "DEGRADED"
  ELSE OnLatest(t)

Assessed(t, e, m) ==
  LET s == OnRecord(t, e, m)
      declined == m.declining /\ t.points >= 3 /\ t.latest # "strong" /\ s # "REJECTED"
  IN IF t.points = 0 THEN "DISCOVERED"
     ELSE IF e = "terrible" /\ m.confidence <= 30 THEN "REJECTED"
     ELSE IF t.points >= 3 /\ Broken(t.latest) THEN "RETIRED"
     ELSE IF declined THEN "DEGRADED"
     ELSE s

Assessments == {<<d, Assessed(tests[d], earned[d], m)>> : d \in Present, m \in Measures}

-----------------------------------------------------------------------------
(* The jobs *)

\* ensure_default_research_objects: a seeded definition that was retired is a
\* candidate again.
Seed ==
  /\ status' = [d \in Definitions |->
       IF d \in Seeds /\ status[d] \in {"none", "RETIRED"} THEN "CANDIDATE" ELSE status[d]]
  /\ UNCHANGED <<belief, tests, earned, extended>>

\* run_discovery: what has a row, whatever its status, is pruned.
Discover ==
  \E new \in SUBSET {d \in Generated : status[d] = "none"} :
    /\ Cardinality(new) <= MaxPromotions
    /\ status' = [d \in Definitions |->
         IF d \in new THEN Stored("definitions", "SCREENED_IN") ELSE status[d]]
    /\ UNCHANGED <<belief, tests, earned, extended>>

\* Mutant: the statuses that signals are matched for are tested as well.
TestedAll == Present

\* _ACTIVE_STATUSES of refresh_backtests
Tested == {d \in Present : status[d] # "RETIRED"}

\* A test is a new evidence point unless it ends on a day tested before.
Added(t, g, newDay) ==
  [points |-> IF (newDay \/ t.points = 0) /\ t.points < 3 THEN t.points + 1 ELSE t.points,
   latest |-> g]

Backtest ==
  \E grade \in [Tested -> Outcomes], fresh \in SUBSET Tested :
    /\ tests' = [d \in Definitions |->
         IF d \in Tested THEN Added(tests[d], grade[d], d \in fresh) ELSE tests[d]]
    /\ UNCHANGED <<status, belief, earned, extended>>

\* refresh_belief_states
Believe ==
  \E possible \in {Assessments} : \E s \in [Present -> Statuses] :
    /\ \A d \in Present : <<d, s[d]>> \in possible
    /\ status' = [d \in Definitions |->
         IF d \in Present THEN Stored("definitions", s[d]) ELSE status[d]]
    /\ belief' = [d \in Definitions |->
         IF d \in Present THEN Stored("beliefs", s[d]) ELSE belief[d]]
    /\ UNCHANGED <<tests, earned, extended>>

\* _sync_realized_observations: once there are enough observations they can
\* turn, but there are never fewer.
Realize(d) ==
  /\ d \in Present \cap Traded
  /\ \E e \in {"good"} \cup Losing : earned' = [earned EXCEPT ![d] = e]
  /\ UNCHANGED <<status, belief, tests, extended>>

HypothesisInit ==
  /\ status = [d \in Definitions |-> "none"]
  /\ belief = [d \in Definitions |-> "none"]
  /\ tests = [d \in Definitions |-> Untested]
  /\ earned = [d \in Definitions |-> "none"]
  /\ extended \in SUBSET {"definitions", "beliefs"}

HypothesisNext ==
  \/ Seed \/ Discover \/ Backtest \/ Believe
  \/ \E d \in Definitions : Realize(d)

HypothesisSpec == HypothesisInit /\ [][HypothesisNext]_hypothesisVars

-----------------------------------------------------------------------------
(* What discovery found and its tests refuted stays refuted: a generated   *)
(* definition that is retired is neither found nor tested again, whatever  *)
(* is earned and however confidence moves, unless losses reject it.        *)
RetiredStays ==
  [][\A d \in Generated :
       status[d] = "RETIRED" => /\ status'[d] \in {"RETIRED", "REJECTED"}
                                /\ tests'[d] = tests[d]]_hypothesisVars
=============================================================================
