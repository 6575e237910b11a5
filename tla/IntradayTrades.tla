--------------------------- MODULE IntradayTrades ---------------------------
(***************************************************************************)
(* The simulated short trades of the beta within one session               *)
(* (intraday_simulated_trade_service.py), and what they are opened on: the *)
(* minute bars that are fetched (intraday_bar_fetch_service.py) and the    *)
(* observations taken of them (intraday_outlook_service.py).  The          *)
(* supervisor runs fetching, capturing and trading every minute, day and   *)
(* night, and out of hours (market_hours_live_data_priority_enabled, its   *)
(* default) fills in observations and rebuilds the history; a job that     *)
(* fails is left out.  Each is one transaction.                            *)
(*                                                                         *)
(* What the bars say is left open: from the first minute after the entry a *)
(* trade may meet its target, its stop or another exit, and at the end of  *)
(* its time it must.  Which observations qualify for an entry changes with *)
(* the patterns and pockets that are learned, and is left open too.  The   *)
(* trades a rebuild writes from the history are closed, no operation here  *)
(* reads them, and they are left out, as are prices, returns, events and   *)
(* bars without a usable price.  Instruments stay active, and the modelled *)
(* days lie within every retention period.                                 *)
(***************************************************************************)
EXTENDS Naturals, Sequences, FiniteSets, SequencesExt

CONSTANTS
  Instruments,
  SessionDays,   \* the days that have a session
  Close,         \* the last minute of regular trading, the first is 1
  MaxHold,       \* max_hold_minutes
  OpenCaps,      \* recommended_max_open_trades, as it is learned
  LastMinute, LastTradingDay, MaxTrades   \* bounds

ASSUME IntradayAssumption ==
  /\ LastTradingDay \in Nat /\ SessionDays \subseteq 1 .. LastTradingDay
  /\ Close \in 1 .. LastMinute /\ LastMinute \in Nat /\ MaxHold \in Nat \ {0}
  /\ OpenCaps \subseteq Nat \ {0} /\ MaxTrades \in Nat /\ IsFiniteSet(Instruments)

VARIABLES
  clock,    \* day and minute; minute 0 is the time before the session
  bars,     \* bars[i][s]: the newest bar stored of instrument i in session s, 0 for none
  seen,     \* seen[i][s]: the bar of the newest observation, 0 for none
  trades,   \* the live trades
  policy    \* is live forward testing on, and how many trades may it have open

intradayVars == <<clock, bars, seen, trades, policy>>

Live(t) == t.status = "OPEN"
OpenCount(ts) == Cardinality({k \in DOMAIN ts : Live(ts[k])})
NewestSession(i) == {s \in SessionDays : seen[i][s] > 0 /\ \A r \in SessionDays : r > s => seen[i][r] = 0}
Trading == clock.day \in SessionDays /\ clock.minute \in 1 .. Close

-----------------------------------------------------------------------------
(* Time, bars and observations *)

Tick ==
  /\ clock' = IF clock.day \in SessionDays /\ clock.minute < LastMinute
            THEN [clock EXCEPT !.minute = @ + 1] ELSE [day |-> clock.day + 1, minute |-> 0]
  /\ clock'.day <= LastTradingDay
  /\ UNCHANGED <<bars, seen, trades, policy>>

\* fetch_live_bars and fetch_eod_bars: what the provider has by now, or less.
Fetch(i, s, m) ==
  /\ s < clock.day \/ (s = clock.day /\ m <= clock.minute)
  /\ m > bars[i][s]
  /\ bars' = [bars EXCEPT ![i][s] = m]
  /\ UNCHANGED <<clock, seen, trades, policy>>

\* capture_current_observations: only a bar of regular trading, and only a
\* newer one; whether it is worth an observation is left open.
Capture(i) ==
  /\ \E s \in SessionDays :
       /\ bars[i][s] \in 1 .. Close /\ \A r \in SessionDays : r > s => bars[i][r] = 0
       /\ seen[i][s] < bars[i][s]
       /\ seen' = [seen EXCEPT ![i][s] = bars[i][s]]
  /\ UNCHANGED <<clock, bars, trades, policy>>

\* backfill_recent_history: sessions without observations, whatever the hour
\* of their bars.
Missing == {p \in Instruments \X SessionDays : bars[p[1]][p[2]] > 0 /\ seen[p[1]][p[2]] = 0}
Backfill ==
  /\ ~Trading /\ Missing # {}
  /\ \E at \in [Missing -> 1 .. LastMinute] :
       /\ \A p \in Missing : at[p] <= bars[p[1]][p[2]]
       /\ seen' = [i \in Instruments |-> [s \in SessionDays |->
                     IF <<i, s>> \in Missing THEN at[<<i, s>>] ELSE seen[i][s]]]
  /\ UNCHANGED <<clock, bars, trades, policy>>

-----------------------------------------------------------------------------
(* Trades *)

\* _simulate_trade_path, replayed from the entry over the bars known by now.
MayExit(i, s, entry) == bars[i][s] - entry >= 1
MustExit(i, s, entry) == bars[i][s] - entry >= MaxHold

\* Sessions that have had their trade. Mutant: only open trades count.
OpenSessions(ts, i) ==
  {ts[k].session : k \in {n \in DOMAIN ts :
     ts[n].instrument = i /\ Live(ts[n]) /\ ts[n].session + 1 >= clock.day}}
TakenSessions(ts, i) ==
  {ts[k].session : k \in {n \in DOMAIN ts :
     ts[n].instrument = i /\ ts[n].session + 1 >= clock.day}}

\* The loop over the focus items ends at the first that finds the cap reached,
\* by what was open before the replay, closed since or not, and what the loop
\* has opened.
Admitted(rows) ==
  LET open(n) == OpenCount(trades) + OpenCount(SubSeq(rows, 1, n - 1))
  IN SubSeq(rows, 1, Cardinality({n \in DOMAIN rows : ~policy.live \/ open(n) < policy.cap}))

Focus(chosen) == chosen \cup {trades[k].instrument : k \in {n \in DOMAIN trades : Live(trades[n])}}

Entry(i, status) ==
  LET s == CHOOSE r \in NewestSession(i) : TRUE
  IN [instrument |-> i, session |-> s, entry |-> seen[i][s], status |-> status, opened |-> clock.day]

\* Those whose newest observation qualifies, and whose session has no trade.
Candidates(ts, focus) == {i \in focus : NewestSession(i) # {} /\ NewestSession(i) \cap TakenSessions(ts, i) = {}}

Replayed(k, status) ==
  LET t == trades[k]
  IN /\ status[k] = "CLOSED" => ~Live(t) \/ MayExit(t.instrument, t.session, t.entry)
     /\ status[k] = "OPEN" => Live(t) /\ ~MustExit(t.instrument, t.session, t.entry)

Simulated(t) ==
  /\ t.status = "CLOSED" => MayExit(t.instrument, t.session, t.entry)
  /\ t.status = "OPEN" => ~MustExit(t.instrument, t.session, t.entry)

\* refresh_live_trades, with the focus list it builds first.
Refresh ==
  \E chosen \in SUBSET Instruments, status \in [DOMAIN trades -> {"OPEN", "CLOSED"}] :
    LET replayed == [k \in DOMAIN trades |-> [trades[k] EXCEPT !.status = status[k]]]
    IN /\ Focus(chosen) # {}
       /\ \A k \in DOMAIN trades : Replayed(k, status)
       /\ \E entered \in SUBSET Candidates(replayed, Focus(chosen)) :
          \E first \in [entered -> {"OPEN", "CLOSED"}], order \in SetToSeqs(entered) :
            LET rows == [n \in DOMAIN order |-> Entry(order[n], first[order[n]])]
            IN /\ \A n \in DOMAIN rows : Simulated(rows[n])
               /\ trades' = replayed \o Admitted(rows)
       /\ Len(trades') <= MaxTrades
       /\ UNCHANGED <<clock, bars, seen, policy>>

\* rebuild_recent_history: every trade of the focus instruments goes.
Rebuild ==
  /\ ~Trading
  /\ \E chosen \in SUBSET Instruments :
       LET kept == {k \in DOMAIN trades : trades[k].instrument \notin Focus(chosen)}
       IN /\ Focus(chosen) # {}
          /\ \E left \in SetToSeqs(kept) :
               /\ \A k, n \in DOMAIN left : k < n => left[k] < left[n]
               /\ trades' = [k \in DOMAIN left |-> trades[left[k]]]
  /\ UNCHANGED <<clock, bars, seen, policy>>

\* Settings are edited, or what the policy recommends is learned anew.
ChangePolicy ==
  /\ policy' \in [live : BOOLEAN, cap : OpenCaps]
  /\ UNCHANGED <<clock, bars, seen, trades>>

IntradayInit ==
  /\ clock = [day |-> 1, minute |-> 0]
  /\ bars = [i \in Instruments |-> [s \in SessionDays |-> 0]]
  /\ seen = bars
  /\ trades = << >>
  /\ policy \in [live : BOOLEAN, cap : OpenCaps]

IntradayNext ==
  \/ Tick \/ Backfill \/ Refresh \/ Rebuild \/ ChangePolicy
  \/ \E i \in Instruments : Capture(i)
  \/ \E i \in Instruments, s \in SessionDays, m \in 1 .. LastMinute : Fetch(i, s, m)

IntradaySpec == IntradayInit /\ [][IntradayNext]_intradayVars

-----------------------------------------------------------------------------
(* An instrument has one live trade for each session, whatever is fetched, *)
(* filled in or rebuilt at night, as long as the session is of today or    *)
(* yesterday: only from then on is its trade forgotten while its newest    *)
(* observation is still the newest there is.                               *)
OneTradePerSession ==
  \A k, n \in DOMAIN trades :
    k < n /\ trades[k].instrument = trades[n].instrument /\ trades[k].session = trades[n].session
      => trades[n].opened > trades[k].session + 1
=============================================================================
