---------------------------- MODULE DividendFlow ----------------------------
(***************************************************************************)
(* What a dividend that is entered or confirmed (routers/dividends.py,     *)
(* dividend_service.py) leaves behind: its entry, the lot of a stock       *)
(* reinvestment, and its payout in the cash ledger.  Each is a transaction *)
(* or a file write of its own.  The handlers have no await between them,   *)
(* so that no two interleave; but any of them may end in the middle, by an *)
(* exception other than those it handles or with the process.              *)
(***************************************************************************)
EXTENDS CashLedger

CONSTANTS
  Original,        \* currencies dividends are paid in
  MaxDividends     \* bound: dividends ever entered

ASSUME DividendAssumption == Original \subseteq Currencies /\ MaxDividends \in Nat

VARIABLES
  dividends,     \* id -> mode, amount and currency of its entry
  lots,          \* ids with a lot of external_id "dividend-reinvestment:<id>"
  noted,         \* ids whose entry names its reinvestment lot
  used,          \* ids given out so far
  handler        \* the request at work: step, dividend, container, todo

vars == <<cashVars, dividends, lots, noted, used, handler>>
tables == <<dividends, lots, noted, used>>

Idle == [step |-> "idle", id |-> 0, container |-> "NONE", todo |-> {}]
At(step) == handler.step = step
Go(step) == handler' = [handler EXCEPT !.step = step]
Done == handler' = Idle

Payout(id, container) ==
  Entry(0, "DIVIDEND_PAYOUT", container, dividends[id].currency, dividends[id].amount, id)

-----------------------------------------------------------------------------
(* Entering a dividend *)

\* add_dividend_entry: validated and committed.  A confirmation of a reference
\* dividend in cash posts none.
Submit(mode, amount, currency, container) ==
  /\ At("idle") /\ used < MaxDividends
  /\ used' = used + 1
  /\ dividends' = [i \in DOMAIN dividends \cup {used + 1} |->
                     IF i = used + 1
                     THEN [mode |-> mode, amount |-> amount, currency |-> currency]
                     ELSE dividends[i]]
  /\ IF mode = "stock" \/ container # "NONE"
     THEN handler' = [Idle EXCEPT !.step = IF mode = "stock" THEN "stock" ELSE "cash",
                                  !.id = used + 1, !.container = container]
     ELSE Done
  /\ UNCHANGED <<cashVars, lots, noted>>

\* record_entry; the message of a refusal is all that is left of it.
PostCash ==
  /\ At("cash")
  /\ \/ Post(Payout(handler.id, handler.container))
     \/ ~Covered(Entries, <<Payout(handler.id, handler.container)>>) /\ UNCHANGED file
  /\ Done
  /\ UNCHANGED <<transfers, tables>>

\* create_stock_reinvestment_lot: the lot in one transaction, its note on the
\* entry in another.
AddLot ==
  /\ At("stock")
  /\ lots' = lots \cup {handler.id}
  /\ Go("note")
  /\ UNCHANGED <<cashVars, dividends, noted, used>>

NoteLot ==
  /\ At("note")
  /\ noted' = noted \cup {handler.id}
  /\ Done
  /\ UNCHANGED <<cashVars, dividends, lots, used>>

\* Mutant: the entry is taken back also when the lot has been added.
RefuseAnyLot ==
  /\ At("stock") \/ At("note")
  /\ Go("undo")
  /\ UNCHANGED <<cashVars, tables>>

\* A ValueError or KeyError before there is a lot: the entry is to go.
RefuseLot ==
  /\ At("stock")
  /\ Go("undo")
  /\ UNCHANGED <<cashVars, tables>>

\* api_dividend_entry_create answers 422 to a reinvested amount that is not
\* positive, and leaves the entry it has made.
RefuseAmount ==
  /\ At("stock")
  /\ Done
  /\ UNCHANGED <<cashVars, tables>>

\* delete_dividend_entry: the row, and after its commit the cash entries.
DeleteRow ==
  /\ At("undo")
  /\ dividends' = [i \in DOMAIN dividends \ {handler.id} |-> dividends[i]]
  /\ Go("unpost")
  /\ UNCHANGED <<cashVars, lots, noted, used>>

Of(id) == {e \in DOMAIN Entries : e.dividend = id}

\* delete_entries_by_metadata: no balance is checked.
Unpost ==
  /\ At("unpost")
  /\ IF Of(handler.id) = {} THEN UNCHANGED file
     ELSE Save([e \in DOMAIN Entries \ Of(handler.id) |-> Entries[e]])
  /\ Done
  /\ UNCHANGED <<transfers, tables>>

-----------------------------------------------------------------------------
(* Backfill: a payout for every entry without one *)

\* Mutant: what has been posted is not looked up.
ToBackfillAll == DOMAIN dividends

\* Whatever the mode of the entry.
ToBackfill == {i \in DOMAIN dividends : Of(i) = {}}

StartBackfill(container) ==
  /\ At("idle")
  /\ ToBackfill # {}
  /\ handler' = [Idle EXCEPT !.step = "backfill", !.container = container, !.todo = ToBackfill]
  /\ UNCHANGED <<cashVars, tables>>

BackfillOne(id) ==
  /\ At("backfill") /\ id \in handler.todo
  /\ \/ Post(Payout(id, handler.container))
     \/ ~Covered(Entries, <<Payout(id, handler.container)>>) /\ UNCHANGED file
  /\ handler' = IF handler.todo = {id} THEN Idle
                ELSE [handler EXCEPT !.todo = @ \ {id}]
  /\ UNCHANGED <<transfers, tables>>

-----------------------------------------------------------------------------
\* Another page of the cash ledger.
Cash == At("idle") /\ CashOperation /\ UNCHANGED <<tables, handler>>

\* The request ends here.
Abort ==
  /\ ~At("idle")
  /\ Done
  /\ UNCHANGED <<cashVars, tables>>

\* The process ends in the middle of a write of the file.
DieWriting ==
  /\ handler.step \in {"idle", "cash", "unpost", "backfill"}
  /\ TearFile
  /\ Done
  /\ UNCHANGED <<transfers, tables>>

Init ==
  /\ CashInit
  /\ dividends = << >> /\ lots = {} /\ noted = {} /\ used = 0
  /\ handler = Idle

Next ==
  \/ \E mode \in {"cash", "stock"}, a \in Amounts, k \in Original,
        c \in Containers \cup {"NONE"} : Submit(mode, a, k, c)
  \/ PostCash \/ AddLot \/ NoteLot \/ RefuseLot \/ RefuseAmount \/ DeleteRow \/ Unpost
  \/ \E c \in Containers : StartBackfill(c)
  \/ \E id \in 1 .. used : BackfillOne(id)
  \/ Cash \/ Abort \/ DieWriting

Spec == Init /\ [][Next]_vars

-----------------------------------------------------------------------------
(* No lot without the dividend it was bought from: wherever a request      *)
(* ends, a reinvestment lot's entry is there.                              *)
LotHasDividend == lots \subseteq DOMAIN dividends /\ noted \subseteq lots

(* A dividend is paid out once in the cash ledger, whatever was posted,    *)
(* lost with a torn file and filled in again.                              *)
PaidOnce ==
  \A i \in 1 .. used : SumFunction([e \in Of(i) |-> Entries[e]]) <= 1

(* tests/test_services/test_dividend_service.py:215: a stock reinvestment  *)
(* makes a lot "without_cash_double_count".  A dividend that was           *)
(* reinvested is not paid out as well.                                     *)
StockNotCash == \A i \in lots : Of(i) = {}
=============================================================================
