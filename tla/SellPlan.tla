------------------------------ MODULE SellPlan ------------------------------
(***************************************************************************)
(* The sell plans: SellPlanService keeps them in one JSON file that every  *)
(* call reads, changes and rewrites, and stages the orders of an approved  *)
(* plan as a CSV the owner hands to a broker.  What the broker holds is    *)
(* told apart by the ExternalId column.  The handlers are coroutines that  *)
(* do not await inside a call, so a call is one step; a crash while the    *)
(* file is written leaves text that loads as no plans.                     *)
(***************************************************************************)
EXTENDS Integers, Sequences, Functions

CONSTANTS
  PlanIds,     \* the uuids plans may get, each used once
  Sellables,   \* whole shares that may be sellable when a plan is made
  Totals,      \* quantities an owner may ask for
  Counts,      \* numbers of tranches
  Cadences,    \* days between tranches
  Spacings,    \* minimum spacings
  Caps         \* daily quantity caps

ASSUME PlanAssumption ==
  /\ Sellables \cup Totals \cup Counts \cup Cadences \cup Spacings \cup Caps \subseteq Nat
  /\ 0 \notin Totals \cup Counts \cup Cadences \cup Spacings \cup Caps

VARIABLES
  plans,   \* the file: plan_id -> plan
  made,    \* every plan as it was made, its terms
  staged   \* the orders the broker was given

planVars == <<plans, made, staged>>

NoPlans == [p \in {} |-> 0]
PlanInit == plans = NoPlans /\ made = NoPlans /\ staged = {}

-----------------------------------------------------------------------------
(* _split_quantity: whole shares, the first tranches one share larger      *)
Split(total, n) ==
  [i \in 1..n |-> (total \div n) + (IF i <= total % n THEN 1 ELSE 0)]

(* _validate_calendar_constraints, for tranches cadence days apart         *)
WithinConstraints(terms) ==
  /\ terms.count > 1 => terms.cadence >= terms.spacing
  /\ \A i \in 1..terms.count : Split(terms.total, terms.count)[i] <= terms.cap

Tranches(terms) ==
  [i \in 1..terms.count |->
    [day    |-> (i - 1) * terms.cadence,
     qty    |-> Split(terms.total, terms.count)[i],
     status |-> "PLANNED"]]

(* create_plan *)
CreatePlan(p, terms) ==
  /\ p \notin DOMAIN made
  /\ terms.total <= terms.sellable /\ terms.count <= terms.total
  /\ WithinConstraints(terms)
  /\ plans' = [x \in DOMAIN plans \cup {p} |->
                IF x = p THEN [status |-> "ACTIVE", approved |-> FALSE,
                               tranches |-> Tranches(terms)]
                ELSE plans[x]]
  /\ made' = [x \in DOMAIN made \cup {p} |-> IF x = p THEN terms ELSE made[x]]
  /\ UNCHANGED staged

(* set_plan_approval_status: APPROVED, or back to DRAFT                    *)
SetApproval(p, approved) ==
  /\ plans[p].status # "CANCELLED"
  /\ plans' = [plans EXCEPT ![p].approved = approved]
  /\ UNCHANGED <<made, staged>>

StatusOf(tranches) ==
  LET statuses == {tranches[i].status : i \in DOMAIN tranches}
  IN IF statuses \subseteq {"CANCELLED"} THEN "CANCELLED"
     ELSE IF statuses \subseteq {"CANCELLED", "EXECUTED"} THEN "COMPLETED" ELSE "ACTIVE"

(* update_tranche_status: any status, whatever the tranche and plan were   *)
SetTrancheStatus(p, i, status) ==
  LET tranches == [plans[p].tranches EXCEPT ![i].status = status]
  IN /\ plans' = [plans EXCEPT ![p].tranches = tranches, ![p].status = StatusOf(tranches)]
     /\ UNCHANGED <<made, staged>>

(* Faulty variant: the id is made of the row as it reads today.            *)
ExternalIdOfRow(p, i) == <<p, i, plans[p].tranches[i].status>>

(* _deterministic_external_id *)
ExternalId(p, i) == <<p, i, plans[p].tranches[i].day>>

(* export_ibkr_order_staging_csv *)
Export(p, includeClosed) ==
  /\ plans[p].approved
  /\ LET tranches == plans[p].tranches
         rows     == {i \in DOMAIN tranches :
                       includeClosed \/ tranches[i].status = "PLANNED"}
     IN staged' = staged \cup {[id  |-> ExternalId(p, i), plan |-> p,
                                day |-> tranches[i].day, qty |-> tranches[i].qty] : i \in rows}
  /\ UNCHANGED <<plans, made>>

(* delete_plan *)
DeletePlan(p) ==
  /\ plans' = Restrict(plans, DOMAIN plans \ {p})
  /\ UNCHANGED <<made, staged>>

(* A crash in _save_payload, which truncates the file and then writes it.  *)
TornSave == plans' = NoPlans /\ UNCHANGED <<made, staged>>

PlanNext ==
  \/ \E p \in PlanIds, total \in Totals, sellable \in Sellables, count \in Counts,
        cadence \in Cadences, spacing \in Spacings, cap \in Caps :
       CreatePlan(p, [total |-> total, sellable |-> sellable, count |-> count,
                      cadence |-> cadence, spacing |-> spacing, cap |-> cap])
  \/ \E p \in DOMAIN plans :
       \/ \E approved \in BOOLEAN : SetApproval(p, approved)
       \/ \E i \in DOMAIN plans[p].tranches, s \in {"PLANNED", "EXECUTED", "CANCELLED"} :
            SetTrancheStatus(p, i, s)
       \/ \E closed \in BOOLEAN : Export(p, closed)
       \/ DeletePlan(p)
  \/ TornSave

-----------------------------------------------------------------------------
(* However often a plan is exported, cancelled, put back, approved and     *)
(* exported again, the orders it has staged sell no more than the owner    *)
(* could sell when it was made, and on no day more than its daily cap: a   *)
(* second export repeats the first one's orders.                           *)
StagedWithinPlan ==
  \A p \in DOMAIN made :
    LET mine   == {o \in staged : o.plan = p}
        sum(S) == SumFunctionOnSet([o \in S |-> o.qty], S)
    IN /\ sum(mine) <= made[p].sellable
       /\ \A o \in mine : sum({x \in mine : x.day = o.day}) <= made[p].cap
=============================================================================
