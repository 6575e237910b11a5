--------------------------- MODULE AlertLifecycle ---------------------------
(***************************************************************************)
(* The alerts and guardrails: computed anew for every page from a          *)
(* condition, and hidden while the owner's last answer to that very        *)
(* condition holds.  AlertLifecycleService only appends events, and        *)
(* decides from the latest event of an alert.  A page may be old: the      *)
(* condition it answers may no longer be the one that holds.               *)
(***************************************************************************)
EXTENDS Integers, Sequences, FiniteSetsExt

CONSTANTS
  Alerts,       \* lifecycle ids
  Conditions,   \* what an alert may say; its hash stands for it
  NoHash,       \* a request that carries no condition_hash
  DismissDays, SnoozeDays,
  LastDay,      \* bound on the days that pass
  MaxEvents     \* bound on the events written

ASSUME AlertAssumption ==
  DismissDays \in Nat /\ SnoozeDays \in Nat /\ LastDay \in Nat /\ MaxEvents \in Nat

VARIABLES
  condition,  \* alert -> the condition that holds for it
  events,     \* portfolio_guardrail_state_events, in the order of changed_at
  now         \* the clock, in days

alertVars == <<condition, events, now>>

AlertInit == condition \in [Alerts -> Conditions] /\ events = <<>> /\ now = 0

(* Faulty variant: the latest event of any alert.                          *)
EventsOfAny(a) == DOMAIN events

EventsOf(a) == {i \in DOMAIN events : events[i].alert = a}

(* latest_state_by_lifecycle_id and is_suppressed                          *)
Suppressed(a) ==
  /\ EventsOf(a) # {}
  /\ LET e == events[Max(EventsOf(a))]
     IN /\ e.state \in {"DISMISSED", "SNOOZED"}
        /\ e.hash \in {NoHash, condition[a]}
        /\ e.until > now

(* record_state_transition *)
Answer(a, state, hash) ==
  /\ Len(events) < MaxEvents
  /\ events' = Append(events,
       [alert |-> a, state |-> state, hash |-> hash,
        until |-> CASE state = "DISMISSED" -> now + DismissDays
                    [] state = "SNOOZED"   -> now + SnoozeDays
                    [] OTHER               -> 0])
  /\ UNCHANGED <<condition, now>>

(* The figures an alert is computed from change.                           *)
ConditionChanges(a, c) ==
  /\ condition' = [condition EXCEPT ![a] = c]
  /\ UNCHANGED <<events, now>>

DayPasses == now < LastDay /\ now' = now + 1 /\ UNCHANGED <<condition, events>>

AlertNext ==
  \/ \E a \in Alerts :
       \/ \E s \in {"DISMISSED", "SNOOZED", "ACTIVE"}, h \in Conditions \cup {NoHash} :
            Answer(a, s, h)
       \/ \E c \in Conditions : ConditionChanges(a, c)
  \/ DayPasses

-----------------------------------------------------------------------------
(* An alert that shows is hidden only by an answer to that alert, or when  *)
(* its condition turns back into one that was answered: not by the clock,  *)
(* not by what is answered to another alert.                               *)
HiddenByAnswerOnly ==
  [][\A a \in Alerts :
       (~Suppressed(a) /\ Suppressed(a)') =>
         \/ condition'[a] # condition[a]
         \/ events' # events /\ events'[Len(events')].alert = a]_alertVars
=============================================================================
