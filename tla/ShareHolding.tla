---------------------------- MODULE ShareHolding ----------------------------
(***************************************************************************)
(* What the lot ledger promises about the holding of one security as a     *)
(* whole: shares come in by acquisitions and corrections, leave by sales   *)
(* and forfeitures, and a transfer between custodies is no event at all    *)
(* (transfer_lot_to_brokerage: "non-disposal reclassification").           *)
(***************************************************************************)
EXTENDS Integers

VARIABLES acquired,   \* shares bought, granted or corrected, net
          held,       \* shares the user has now
          disposed,   \* shares sold
          forfeited   \* matched shares lost

vars == <<acquired, held, disposed, forfeited>>

Init == acquired = 0 /\ held = 0 /\ disposed = 0 /\ forfeited = 0

(* A lot is added, or its quantity corrected.                              *)
Book ==
  /\ acquired' \in Nat /\ held' \in Nat
  /\ held' - held = acquired' - acquired
  /\ UNCHANGED <<disposed, forfeited>>

(* A sale, with the matched shares it forfeits.                            *)
Dispose ==
  /\ disposed' \in Nat /\ forfeited' \in Nat /\ held' \in Nat
  /\ disposed' > disposed
  /\ forfeited' >= forfeited
  /\ held - held' = (disposed' - disposed) + (forfeited' - forfeited)
  /\ UNCHANGED acquired

(* Moving an employee lot out of the plan forfeits matched shares.         *)
Forfeit ==
  /\ forfeited' \in Nat /\ held' \in Nat
  /\ forfeited' > forfeited
  /\ held - held' = forfeited' - forfeited
  /\ UNCHANGED <<acquired, disposed>>

Next == Book \/ Dispose \/ Forfeit

Spec == Init /\ [][Next]_vars
=============================================================================
