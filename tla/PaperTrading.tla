---------------------------- MODULE PaperTrading ----------------------------
(***************************************************************************)
(* The paper-trading lane of the beta database: scoring_service.py opens   *)
(* and closes demo positions, allocation_service.py sizes them against the *)
(* paper capital, risk_control_service.py pauses and resumes new entries.  *)
(*                                                                         *)
(* run_daily_shadow_cycle is one SQLite transaction, run by the supervisor *)
(* ("auto") and by the page of the web process ("manual").  What it reads  *)
(* before its first write it reads without a lock, so db is what is        *)
(* committed, work what the holder of the write lock has made of it, and   *)
(* cycle[r] what r remembers.  An instrument stands for its symbol.        *)
(* Prices, features and beliefs are abstracted to what they decide: how a  *)
(* position stands, the direction of the score and whether the matched     *)
(* hypothesis is recommended (never for a heuristic score) with execution  *)
(* enabled.  Which instruments a cycle scores (is_active, core_only while  *)
(* the market is open, six daily bars at least) is left open.  Candidates, *)
(* score tape and events are only written here, and left out.              *)
(***************************************************************************)
EXTENDS Integers, Sequences, FiniteSets, SequencesExt

CONSTANTS
  Instruments,
  StartingCapital, MinPosition, Requests,   \* pounds
  RecentTrades, MinTrades,                  \* 6 and 4 in the code
  BarWindow, Horizons,   \* daily bars loaded; planned_horizon_days
  Gains, Losses,         \* per cent: where a position may stand
  Target, StopLoss,      \* per cent: target_return_pct and -stop_loss_pct
  AutoPause, AutoResume, \* settings
  MaxPositions           \* bound: positions ever opened

ASSUME CapitalAssumption ==
  /\ StartingCapital \in Nat /\ MinPosition \in Nat \ {0}
  /\ Requests \subseteq Nat /\ MaxPositions \in Nat
ASSUME TradeAssumption ==
  /\ RecentTrades \in Nat /\ MinTrades \in Nat
  /\ Target \in Nat /\ StopLoss \in Nat /\ Gains \subseteq Nat
  /\ Losses \subseteq 0 .. 100           \* shares are worth nothing at least
  /\ AutoPause \in BOOLEAN /\ AutoResume \in BOOLEAN
ASSUME HorizonAssumption ==
  BarWindow \in Nat /\ Horizons \subseteq 0 .. BarWindow

Runners == {"auto", "manual"}
Returns == Gains \cup {-x : x \in Losses}

VARIABLES
  db,        \* committed: positions, closings, balance, risk
  work,      \* the same inside the transaction that holds the write lock
  cycle,     \* cycle[r]: where r is in run_daily_shadow_cycle, what it has read
  mark,      \* was the market open when the latest marks were observed
  session    \* is the market open now

vars == <<db, work, cycle, mark, session>>
market == <<mark, session>>

Normal == [paused |-> FALSE, status |-> "NORMAL"]
Idle == [phase |-> "idle", todo |-> {}, saw |-> Normal, risk |-> Normal]

-----------------------------------------------------------------------------
(* Paper capital: allocation_service.py *)

IsOpen(pos) == pos.status = "OPEN"
Pnl(pos) == (pos.size * pos.return) \div 100
Total(F(_), positions) ==
  SumFunctionOnSet([p \in DOMAIN positions |-> F(positions[p])], DOMAIN positions)

Deployed(b) == Total(LAMBDA pos : IF IsOpen(pos) THEN pos.size ELSE 0, b.positions)
Realized(b) == Total(LAMBDA pos : IF IsOpen(pos) THEN 0 ELSE Pnl(pos), b.positions)
Unrealized(b) == Total(LAMBDA pos : IF IsOpen(pos) THEN Pnl(pos) ELSE 0, b.positions)

Uncapped(b) == StartingCapital + Realized(b) - Deployed(b)

\* refresh_ledger_state: never below zero.
Available(b) == IF Uncapped(b) < 0 THEN 0 ELSE Uncapped(b)
Equity(b) == Available(b) + Deployed(b) + Unrealized(b)

\* drawdown_risk_multiplier, in hundredths.
Multiplier(b) ==
  LET lost == StartingCapital - Equity(b)
  IN IF StartingCapital = 0 THEN 100
     ELSE IF 100 * lost >= 10 * StartingCapital THEN 50
     ELSE IF 100 * lost >= 5 * StartingCapital THEN 75 ELSE 100

\* Mutant: only the capital at the start is looked at.
SizedByCapital(b, requested) ==
  LET adjusted == (requested * Multiplier(b)) \div 100
  IN IF adjusted < MinPosition THEN 0 ELSE adjusted

\* size_for_new_position
Sized(b, requested) ==
  LET adjusted == (requested * Multiplier(b)) \div 100
      capped == IF adjusted > Available(b) THEN Available(b) ELSE adjusted
  IN IF capped < MinPosition THEN 0 ELSE capped

-----------------------------------------------------------------------------
(* Risk control: risk_control_service.py *)

Recent(b) ==
  LET n == Len(b.closings)
  IN [k \in 1 .. (IF n < RecentTrades THEN n ELSE RecentTrades) |->
        b.positions[b.closings[n - k + 1]]]

Wins(b) == Total(LAMBDA pos : IF Pnl(pos) > 0 THEN 1 ELSE 0, Recent(b))
SumOfReturns(b) == Total(LAMBDA pos : pos.return, Recent(b))

ShouldPause(b) ==
  LET n == Len(Recent(b))
  IN AutoPause /\ n >= MinTrades
     /\ (100 * Wins(b) < 35 * n \/ SumOfReturns(b) <= -2 * n)

ShouldResume(b) ==
  LET n == Len(Recent(b))
  IN AutoResume /\ n >= MinTrades
     /\ 100 * Wins(b) >= 50 * n /\ 4 * SumOfReturns(b) >= n

\* Mutant: a pause lasts only while the trades that caused it are recent.
EvaluatedUnsticky(risk, b) ==
  IF ShouldPause(b) THEN [paused |-> TRUE, status |-> "PAUSED"]
  ELSE [paused |-> FALSE, status |-> "NORMAL"]

\* evaluate_recent_performance: what it makes of the row it has loaded.
Evaluated(risk, b) ==
  IF ShouldPause(b) /\ ~risk.paused THEN [paused |-> TRUE, status |-> "PAUSED"]
  ELSE IF risk.paused /\ ShouldResume(b) THEN [paused |-> FALSE, status |-> "RECOVERING"]
  ELSE [paused |-> risk.paused, status |-> IF risk.paused THEN "PAUSED" ELSE "NORMAL"]

\* The UPDATE names the columns that differ from what the session holds.
Written(row, old, new) ==
  [f \in DOMAIN row |-> IF new[f] # old[f] THEN new[f] ELSE row[f]]

-----------------------------------------------------------------------------
(* One instrument: the body of the loop of run_daily_shadow_cycle *)

OpenOf(b, i) == {p \in DOMAIN b.positions : b.positions[p].inst = i /\ IsOpen(b.positions[p])}

\* closed_at is when the mark was observed, which may be before the closing of
\* another instrument's position; the marks of one instrument get no older.
ClosingOrders(b, p) ==
  {InsertAt(b.closings, k, p) : k \in
    {k \in 1 .. Len(b.closings) + 1 :
       \A j \in k .. Len(b.closings) :
         b.positions[b.closings[j]].inst # b.positions[p].inst}}

\* _close_position and record_position_close
Closed(b, p, status) ==
  {[b EXCEPT !.positions[p].status = status, !.positions[p].held = 0,
             !.closings = order,
             !.balance = @ + b.positions[p].size + Pnl(b.positions[p])] :
     order \in ClosingOrders(b, p)}

\* Mutant: the horizon has to be exceeded.
DueStrict(pos) ==
  pos.return >= Target \/ pos.return <= -StopLoss \/ pos.held > pos.horizon

\* Target, stop or planned horizon reached.
Due(pos) == pos.return >= Target \/ pos.return <= -StopLoss \/ pos.held >= pos.horizon

\* An open position is marked, and closed when it is due and its mark was
\* observed while the market was open.
AfterExits(b, i) ==
  IF OpenOf(b, i) = {} THEN {b}
  ELSE LET p == CHOOSE p \in OpenOf(b, i) : TRUE
       IN UNION {LET m == [b EXCEPT !.positions[p].return = x]
                 IN IF Due(m.positions[p]) /\ mark = "open"
                    THEN Closed(m, p, "CLOSED") ELSE {m} : x \in Returns}

\* Mutant: positions are not looked up before one is opened.
MayEnterTwice(r, b, i) == mark = "open" /\ ~cycle[r].risk.paused

\* A recommended bullish score may be traded: no position of the symbol is open,
\* the mark was observed in the session, entries are not paused.
MayEnter(r, b, i) ==
  /\ OpenOf(b, i) = {}
  /\ mark = "open"
  /\ ~cycle[r].risk.paused

\* The new position and record_position_open.
Entered(b, i) ==
  UNION {LET size == Sized(b, q)
         IN IF size = 0 THEN {b}
            ELSE {[b EXCEPT !.positions = Append(@,
                                [inst |-> i, status |-> "OPEN", size |-> size,
                                 return |-> 0, held |-> 0, horizon |-> h]),
                            !.balance = @ - size] : h \in Horizons} : q \in Requests}

AfterEntry(r, b, i) ==
  IF MayEnter(r, b, i) /\ Len(b.positions) < MaxPositions THEN Entered(b, i) ELSE {b}

\* A bearish or risk-off score closes what is open.
AfterRiskOff(b, i) ==
  IF mark = "open" /\ OpenOf(b, i) # {}
  THEN Closed(b, CHOOSE p \in OpenOf(b, i) : TRUE, "RISK_OFF_EXIT")
  ELSE {b}

Scored(r, b, i) ==
  UNION {{c} \cup AfterEntry(r, c, i) \cup AfterRiskOff(c, i) : c \in AfterExits(b, i)}

-----------------------------------------------------------------------------
(* The cycle as a transaction *)

Locked == \E r \in Runners : cycle[r].phase = "locked"

\* Everything read before the first write, risk control among it.
Begin(r) ==
  /\ cycle[r].phase = "idle"
  /\ cycle' = [cycle EXCEPT ![r] = [phase |-> "begun", todo |-> {},
                  saw |-> db.risk, risk |-> Evaluated(db.risk, db)]]
  /\ UNCHANGED <<db, work, market>>

\* The first write takes SQLite's write lock; without instruments the cycle ends.
Lock(r) ==
  /\ cycle[r].phase = "begun"
  /\ ~Locked
  /\ LET b == [db EXCEPT !.risk = Written(@, cycle[r].saw, cycle[r].risk)]
     IN \E todo \in SUBSET Instruments :
          /\ work' = b
          /\ IF todo = {}
             THEN db' = b /\ cycle' = [cycle EXCEPT ![r] = Idle]
             ELSE /\ UNCHANGED db
                  /\ cycle' = [cycle EXCEPT ![r] =
                       [@ EXCEPT !.phase = "locked", !.todo = todo, !.saw = Normal]]
  /\ UNCHANGED market

Score(r, i) ==
  /\ cycle[r].phase = "locked" /\ i \in cycle[r].todo
  /\ cycle' = [cycle EXCEPT ![r].todo = @ \ {i}]
  /\ work' \in Scored(r, work, i)
  /\ UNCHANGED <<db, market>>

Commit(r) ==
  /\ cycle[r].phase = "locked" /\ cycle[r].todo = {}
  /\ LET mine == cycle[r].risk
     IN db' = [work EXCEPT !.risk = Written(@, mine, Evaluated(mine, work))]
  /\ work' = db'
  /\ cycle' = [cycle EXCEPT ![r] = Idle]
  /\ UNCHANGED <<market>>

\* An exception, "database is locked" among them, or a killed process.
Fail(r) ==
  /\ cycle[r].phase # "idle"
  /\ work' = IF cycle[r].phase = "locked" THEN db ELSE work
  /\ cycle' = [cycle EXCEPT ![r] = Idle]
  /\ UNCHANGED <<db, market>>

-----------------------------------------------------------------------------
(* The other writers, none of which can write while the lock is taken *)

Stamp == IF session THEN "open" ELSE "closed"

\* _bars_held: the bars since the entry, among the latest ten.
Aged(b, i) ==
  [b EXCEPT !.positions = [p \in DOMAIN b.positions |->
     IF p \in OpenOf(b, i) /\ b.positions[p].held < BarWindow
     THEN [b.positions[p] EXCEPT !.held = @ + 1] ELSE b.positions[p]]]

\* sync_daily_bars: the bar of a later day, marked when it was fetched.
NewBar(i) ==
  /\ ~Locked
  /\ db' = Aged(db, i) /\ work' = db'
  /\ mark' = Stamp
  /\ UNCHANGED <<cycle, session>>

\* sync_intraday_snapshots
RefreshMark ==
  /\ ~Locked
  /\ mark' = Stamp
  /\ UNCHANGED <<db, work, cycle, session>>

Bell == session' = ~session /\ UNCHANGED <<db, work, cycle, mark>>

Init ==
  /\ db = [positions |-> << >>, closings |-> << >>, balance |-> StartingCapital,
           risk |-> [paused |-> FALSE, status |-> "NORMAL"]]
  /\ work = db
  /\ cycle = [r \in Runners |-> Idle]
  /\ mark = "closed"
  /\ session \in BOOLEAN

Work(r) == Lock(r) \/ (\E i \in Instruments : Score(r, i)) \/ Commit(r)

Next ==
  \/ \E r \in Runners : Begin(r) \/ Work(r) \/ Fail(r)
  \/ \E i \in Instruments : NewBar(i)
  \/ RefreshMark \/ Bell

\* A transaction that runs goes on; daily bars keep coming, their job waits for
\* the lock and is run again when it had to give up.
Fairness ==
  /\ \A r \in Runners : WF_vars(Work(r))
  /\ \A i \in Instruments : SF_vars(NewBar(i))

Spec == Init /\ [][Next]_vars
FairSpec == Spec /\ Fairness

-----------------------------------------------------------------------------
(* A symbol has one open position at most, however the supervisor's cycles *)
(* and the manual ones interleave.                                         *)
OneOpenPerSymbol == \A i \in Instruments : Cardinality(OpenOf(db, i)) <= 1

(* The amounts of the cash ledger entries add up to the cash that is       *)
(* recomputed from the positions, and what is deployed is covered by the   *)
(* capital and what was realized: the clamp of refresh_ledger_state hides  *)
(* no debt.                                                                *)
CashCovers == db.balance = Uncapped(db) /\ db.balance >= 0

(* Entries that are paused while nothing is open stay paused for ever: no  *)
(* trade can close any more, and only closed trades lift a pause.          *)
Stuck ==
  /\ \A b \in {db, work} : b.risk.paused /\ \A p \in DOMAIN b.positions : ~IsOpen(b.positions[p])
  /\ ~ShouldResume(db)
  /\ \A r \in Runners : cycle[r].phase # "idle" => cycle[r].risk.paused
PauseWithoutTradesIsFinal == [][Stuck => Stuck']_vars

(* As long as its instrument is scored on marks of the session again and   *)
(* again and cycles stop failing, an open position is closed, at its       *)
(* planned horizon if nothing closes it before.                            *)
Judged(i) ==
  mark = "open" /\ \E r \in Runners :
    i \in cycle[r].todo /\ cycle'[r].phase = "locked" /\ i \notin cycle'[r].todo
HorizonExits ==
  \A i \in Instruments :
    ([]<><<Judged(i)>>_vars /\ <>[][\A r \in Runners : ~Fail(r)]_vars) => ((OpenOf(db, i) # {}) ~> (OpenOf(db, i) = {}))

=============================================================================
