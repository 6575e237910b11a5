----------------------------- MODULE SideBySide -----------------------------
(***************************************************************************)
(* Components that share no state: sell plans, alerts, the tax of a year,  *)
(* the tax of leaving the share plan, and from the beta database the       *)
(* models in service, the hypotheses and the simulated trades of a         *)
(* session.  Each keeps a JSON file or tables of its own, or nothing, and  *)
(* no code reads one from another's transaction, so that a behaviour       *)
(* follows one of them, the others resting where they began.               *)
(***************************************************************************)
EXTENDS SellPlan, AlertLifecycle, TaxYear, PlanShares, ModelRegistry, HypothesisRegistry,
        IntradayTrades

VARIABLE subject   \* which of them the behaviour follows

sideVars == <<planVars, alertVars, taxVars, shareVars, modelVars, hypothesisVars, intradayVars, subject>>

Resting(s, init) == subject = s \/ init

SideInit ==
  /\ subject \in {"sell plan", "alert", "tax year", "plan shares", "models", "hypotheses",
                "trades of a session"}
  /\ PlanInit
  /\ AlertInit /\ Resting("alert", condition = CHOOSE c \in [Alerts -> Conditions] : TRUE)
  /\ TaxInit /\ Resting("tax year",
       taxYear = Max(Years) /\ sacrifice = Min(Sacrifices) /\ gross = sacrifice + Min(Salaries))
  /\ ShareInit /\ Resting("plan shares",
       share = [kind |-> CHOOSE k \in Kinds : TRUE, award |-> Min(Values), years |-> <<1096, 1826>>])
  /\ ModelInit /\ Resting("models", models = << >>)
  /\ HypothesisInit /\ Resting("hypotheses", extended = {})
  /\ IntradayInit /\ Resting("trades of a session", policy = [live |-> TRUE, cap |-> Min(OpenCaps)])

SideNext ==
  \/ subject = "sell plan" /\ PlanNext
     /\ UNCHANGED <<alertVars, taxVars, shareVars, modelVars, hypothesisVars, intradayVars, subject>>
  \/ subject = "alert" /\ AlertNext
     /\ UNCHANGED <<planVars, taxVars, shareVars, modelVars, hypothesisVars, intradayVars, subject>>
  \/ subject = "tax year" /\ TaxNext
     /\ UNCHANGED <<planVars, alertVars, shareVars, modelVars, hypothesisVars, intradayVars, subject>>
  \/ subject = "plan shares" /\ ShareNext
     /\ UNCHANGED <<planVars, alertVars, taxVars, modelVars, hypothesisVars, intradayVars, subject>>
  \/ subject = "models" /\ ModelNext
     /\ UNCHANGED <<planVars, alertVars, taxVars, shareVars, hypothesisVars, intradayVars, subject>>
  \/ subject = "hypotheses" /\ HypothesisNext
     /\ UNCHANGED <<planVars, alertVars, taxVars, shareVars, modelVars, intradayVars, subject>>
  \/ subject = "trades of a session" /\ IntradayNext
     /\ UNCHANGED <<planVars, alertVars, taxVars, shareVars, modelVars, hypothesisVars, subject>>

SideSpec == SideInit /\ [][SideNext]_sideVars
=============================================================================
