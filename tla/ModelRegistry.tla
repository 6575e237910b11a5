---------------------------- MODULE ModelRegistry ----------------------------
(***************************************************************************)
(* Which model the beta scores with: training_service.py trains a          *)
(* challenger and puts it in service when it passes the activation gate,   *)
(* strategy_service.py keeps one strategy version for each model, and      *)
(* every scoring cycle first takes a model it does not trust out of        *)
(* service again.                                                          *)
(*                                                                         *)
(* A training writes its dataset before it looks at the registry, so that  *)
(* it looks under the write lock and is one step here. A scoring cycle may *)
(* have written nothing when it looks for the model in service: what it    *)
(* judges may have been replaced when it writes. The version of a model is *)
(* its place in the sequence. Evidence is what the gate and the governance *)
(* compare; accuracies are tenths of a per cent and returns hundredths.    *)
(* Coefficients, baselines (but for whether they are beaten), events and   *)
(* decision records are left out.                                          *)
(***************************************************************************)
EXTENDS Integers, Sequences, FiniteSets

CONSTANTS
  Scorers,                                  \* who runs scoring cycles
  TrainRows, ValidationRows, Windows,       \* evidence a training may find
  SignAccuracies, WalkAccuracies, WalkReturns,
  MaxModels                                 \* bound: models ever trained

ASSUME EvidenceAssumption ==
  /\ TrainRows \subseteq Nat /\ ValidationRows \subseteq Nat /\ Windows \subseteq Nat
  /\ SignAccuracies \subseteq 0 .. 1000 /\ WalkAccuracies \subseteq 0 .. 1000
  /\ WalkReturns \subseteq Int /\ MaxModels \in Nat

VARIABLES
  models,   \* the model versions, each with its strategy version
  judging   \* judging[r]: the model the cycle of r found in service, 0 for none

modelVars == <<models, judging>>

NotScoring == -1

Evidence ==
  [trainRows : TrainRows, rows : ValidationRows, windows : Windows,
   sign : SignAccuracies, walkSign : WalkAccuracies, walkReturn : WalkReturns,
   beatsBaselines : BOOLEAN]

Abs(x) == IF x < 0 THEN -x ELSE x
AtLeast(x, y) == IF x < y THEN y ELSE x

-----------------------------------------------------------------------------
(* Governance and activation: training_service.py *)

SuspiciouslyPerfect(e) == e.sign >= 995 /\ Abs(e.walkReturn) <= 10 /\ e.windows <= 3

\* _active_model_governance_assessment
Trustworthy(e) == e.rows >= 25 /\ e.windows >= 3 /\ ~SuspiciouslyPerfect(e)

\* Models and strategies in service; the newest is looked up.
InService == {k \in DOMAIN models : models[k].active}
StrategiesInService == {k \in DOMAIN models : models[k].strategy.active}
Newest(S) == IF S = {} THEN 0 ELSE CHOOSE k \in S : \A j \in S : j <= k

\* Mutant: whatever strategy is in service is suspended with the model.
SuspendedWithAny(ms, k) ==
  [j \in DOMAIN ms |->
     LET m == IF j = k THEN [ms[j] EXCEPT !.active = FALSE, !.status = "SUSPENDED"] ELSE ms[j]
     IN IF m.strategy.active
        THEN [m EXCEPT !.strategy = [active |-> FALSE, status |-> "SUSPENDED"]] ELSE m]

\* What enforce_active_model_governance writes for model k: the columns that
\* differ from what it has loaded, and the strategy of k if that is in service.
Suspended(ms, k) ==
  [ms EXCEPT ![k].active = FALSE, ![k].status = "SUSPENDED",
             ![k].strategy = IF @.active THEN [active |-> FALSE, status |-> "SUSPENDED"] ELSE @]

\* enforce_active_model_governance with nobody in between.
Governed ==
  LET k == Newest(InService)
  IN IF k = 0 \/ Trustworthy(models[k].evidence) THEN models ELSE Suspended(models, k)

\* Mutant: the gate asks for no number of validation rows.
GateWithoutRows(ms, k, e) ==
  /\ e.trainRows >= 120 /\ e.windows >= 3
  /\ e.sign >= 530 /\ e.walkSign >= 530 /\ e.walkReturn >= 5
  /\ e.beatsBaselines /\ ~SuspiciouslyPerfect(e)
  /\ k # 0 => /\ e.sign >= ms[k].evidence.sign + 10
              /\ e.walkSign >= AtLeast(530, ms[k].evidence.sign - 10)

\* _activation_gate, against the model k now in service.
PassesGate(ms, k, e) ==
  /\ e.trainRows >= 120 /\ e.rows >= 25 /\ e.windows >= 3
  /\ e.sign >= 530 /\ e.walkSign >= 530 /\ e.walkReturn >= 5
  /\ e.beatsBaselines /\ ~SuspiciouslyPerfect(e)
  /\ k # 0 => /\ e.sign >= ms[k].evidence.sign + 10
              /\ e.walkSign >= AtLeast(530, ms[k].evidence.sign - 10)

\* What is kept: governance reads the evidence of a model in service, and nobody
\* that of a challenger.
Kept(e) == [rows |-> e.rows, windows |-> e.windows, sign |-> e.sign, walkReturn |-> e.walkReturn]
NothingKept == [rows |-> 0, windows |-> 0, sign |-> 0, walkReturn |-> 0]

\* A new version; sync_model_strategy gives its strategy the same standing.
Version(e, activated) ==
  LET status == IF activated THEN "ACTIVE" ELSE "CHALLENGER"
  IN [evidence |-> IF activated THEN Kept(e) ELSE NothingKept, gate |-> activated, active |-> activated,
      challenger |-> ~activated, status |-> status,
      strategy |-> [active |-> activated, status |-> status]]

\* Model k becomes a challenger; it keeps its status.
Replaced(ms, k) ==
  IF k = 0 THEN ms ELSE [ms EXCEPT ![k].active = FALSE, ![k].challenger = TRUE]

\* sync_model_strategy suspends the strategy that was in service.
Deactivated(ms) ==
  LET s == Newest({j \in DOMAIN ms : ms[j].strategy.active})
  IN IF s = 0 THEN ms
     ELSE [ms EXCEPT ![s].strategy = [active |-> FALSE, status |-> "SUSPENDED"]]

\* train_daily_challenger, from its first write to its commit.
Train(e) ==
  /\ Len(models) < MaxModels
  /\ LET ms == Governed
         k == Newest({j \in DOMAIN ms : ms[j].active})
         activated == PassesGate(ms, k, e)
     IN models' = Append(IF activated THEN Deactivated(Replaced(ms, k)) ELSE ms,
                         Version(e, activated))
  /\ UNCHANGED judging

-----------------------------------------------------------------------------
(* A scoring cycle: scoring_service.py *)

\* The cycle has written nothing yet and reads without a lock.
FindModel(r) ==
  /\ judging[r] = NotScoring
  /\ judging' = [judging EXCEPT ![r] = Newest(InService)]
  /\ UNCHANGED models

Judge(r) ==
  /\ judging[r] # NotScoring
  /\ models' = IF judging[r] = 0 \/ Trustworthy(models[judging[r]].evidence)
               THEN models ELSE Suspended(models, judging[r])
  /\ judging' = [judging EXCEPT ![r] = NotScoring]

\* The database stays locked too long, or the process is killed.
GiveUp(r) ==
  /\ judging[r] # NotScoring
  /\ judging' = [judging EXCEPT ![r] = NotScoring]
  /\ UNCHANGED models

\* A registry without models, or with one that was put in service by hand or
\* by an earlier release, on any evidence.
ModelInit ==
  /\ models \in {<< >>} \cup {<<[Version(e, TRUE) EXCEPT !.gate = FALSE]>> : e \in Evidence}
  /\ judging = [r \in Scorers |-> NotScoring]

ModelNext ==
  \/ \E e \in Evidence : Train(e)
  \/ \E r \in Scorers : FindModel(r) \/ Judge(r) \/ GiveUp(r)

ModelSpec == ModelInit /\ [][ModelNext]_modelVars

-----------------------------------------------------------------------------
(* At most one model is in service, and it is the one whose strategy is:   *)
(* a cycle that suspends a model which was replaced meanwhile does not     *)
(* take the strategy of its successor.                                     *)
ServiceAgrees == Cardinality(InService) <= 1 /\ StrategiesInService = InService

(* The gate asks for at least what governance does: a model it has put in  *)
(* service is never suspended, whatever replaces it and whoever judges it. *)
GatedStays == \A k \in DOMAIN models : models[k].gate => models[k].status # "SUSPENDED"
=============================================================================
