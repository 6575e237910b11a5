----------------------------- MODULE CashLedger -----------------------------
(***************************************************************************)
(* cash_ledger_service.py: the cash entries of every container and         *)
(* currency, a JSON file beside the database that each operation reads,    *)
(* checks and writes again as a whole.  A process that dies while it       *)
(* writes leaves a file that cannot be parsed, and such a file is read as  *)
(* an empty one.  The order of the entries is only their display.          *)
(***************************************************************************)
EXTENDS Integers, FiniteSets, Sequences, Functions, Bags

CONSTANTS
  Containers,     \* "ISA" and others
  Currencies,     \* "GBP" and others
  Amounts,        \* positive amounts that are entered or moved
  Rates, Fees,    \* of a conversion to GBP
  Torn,           \* a file that cannot be parsed
  MaxEntries,     \* bound: entries in the file
  MaxTransfers    \* bound: ISA transfers

ASSUME CashAssumption ==
  /\ "ISA" \in Containers /\ "GBP" \in Currencies
  /\ Amounts \subseteq Nat \ {0} /\ Rates \subseteq Nat /\ Fees \subseteq Nat
  /\ MaxEntries \in Nat /\ MaxTransfers \in Nat

VARIABLES
  file,           \* the bag of entries, or Torn
  transfers       \* ISA transfers made so far

cashVars == <<file, transfers>>

\* group 0: an entry of its own; dividend 0: not from a dividend.
Entry(group, kind, container, currency, amount, dividend) ==
  [group |-> group, kind |-> kind, container |-> container, currency |-> currency,
   amount |-> amount, dividend |-> dividend]

\* _load_payload
Entries == IF file = Torn THEN EmptyBag ELSE file

\* _balance_map_from_entries
Total(es, S) == SumFunctionOnSet([e \in S |-> e.amount * es[e]], S)
Balance(es, c, k) ==
  Total(es, {e \in DOMAIN es : e.container = c /\ e.currency = k})

BagOf(seq) == [e \in Range(seq) |-> Cardinality({i \in DOMAIN seq : seq[i] = e})]

\* Mutant: only what the whole group leaves is checked, and in GBP.
CoveredInTotal(es, legs) ==
  \A c \in Containers : Balance(es (+) BagOf(legs), c, "GBP") >= 0

\* _apply_with_non_negative_check of one entry after the other.
Covered(es, legs) ==
  \A n \in 1 .. Len(legs) :
    Balance(es (+) BagOf(SubSeq(legs, 1, n)), legs[n].container, legs[n].currency) >= 0

\* _save_payload of a process that survives it, or does not.
Save(es) == file' = es
TearFile == file' = Torn

\* record_entry
Post(entry) ==
  /\ Covered(Entries, <<entry>>)
  /\ BagCardinality(Entries) < MaxEntries
  /\ Save(Entries (+) SetToBag({entry}))

\* A manual entry, in or out.
RecordEntry(container, currency, amount) ==
  /\ Post(Entry(0, "MANUAL_ADJUSTMENT", container, currency, amount, 0))
  /\ UNCHANGED transfers

GbpLegs(g, c, amount) ==
  << Entry(g, "ISA_TRANSFER_OUT", c, "GBP", -amount, 0),
     Entry(g, "ISA_TRANSFER_IN", "ISA", "GBP", amount, 0) >>

FxLegs(g, c, currency, amount, rate, fee) ==
  << Entry(g, "FX_CONVERSION_OUT", c, currency, -amount, 0),
     Entry(g, "FX_CONVERSION_IN", c, "GBP", amount * rate, 0) >>
  \o (IF fee > 0 THEN << Entry(g, "FX_FEE", c, "GBP", -fee, 0) >> ELSE << >>)
  \o GbpLegs(g, c, amount * rate - fee)

\* create_isa_transfer: out of a container that is not the ISA, over GBP.
IsaTransfer(c, currency, amount, rate, fee) ==
  /\ c # "ISA"
  /\ currency # "GBP" => rate > 0 /\ amount * rate - fee > 0
  /\ transfers < MaxTransfers /\ transfers' = transfers + 1
  /\ LET g == transfers + 1
         legs == IF currency = "GBP" THEN GbpLegs(g, c, amount)
                 ELSE FxLegs(g, c, currency, amount, rate, fee)
     IN /\ Covered(Entries, legs)
        /\ BagCardinality(Entries) + Len(legs) <= MaxEntries
        /\ Save(Entries (+) BagOf(legs))

CashOperation ==
  \/ \E c \in Containers, k \in Currencies, a \in Amounts, sign \in {1, -1} :
        RecordEntry(c, k, sign * a)
  \/ \E c \in Containers, k \in Currencies, a \in Amounts, r \in Rates, f \in Fees :
        IsaTransfer(c, k, a, r, f)

CashInit == file = EmptyBag /\ transfers = 0

-----------------------------------------------------------------------------
(* No container owes money in any currency, whatever is entered, moved,    *)
(* undone or lost with a torn file.                                        *)
BalancesNonNegative ==
  \A c \in Containers, k \in Currencies : Balance(Entries, c, k) >= 0
=============================================================================
