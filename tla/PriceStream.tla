---------------------------- MODULE PriceStream ----------------------------
(***************************************************************************)
(* twelve_data_stream_service.py: one task of the web process keeps a      *)
(* WebSocket to the price provider and asks for quotes of what is held;    *)
(* price_service.py polls what is not streamed.  A request to the provider *)
(* and its answer are messages under way: the task goes on rebalancing and *)
(* the poller goes on reading while they are.                              *)
(*                                                                         *)
(* A symbol is what is asked for (ticker:exchange, or a currency pair).    *)
(* Weights are market values that change at any time, so which eligible    *)
(* symbols come first is left open.  Not modelled: a security without an   *)
(* exchange, whose rejection names another symbol than the request did.    *)
(***************************************************************************)
EXTENDS Naturals, FiniteSets, Sequences

CONSTANTS
  Securities, Pairs,    \* symbols of held securities; of currencies to GBP
  MaxStreams,           \* max_streams
  MaxMessages           \* bound: messages under way in one direction

ASSUME StreamAssumption ==
  /\ Securities \cap Pairs = {} /\ IsFiniteSet(Securities \cup Pairs)
  /\ MaxStreams \in Nat \ {0} /\ MaxMessages \in Nat

Symbols == Securities \cup Pairs

VARIABLES
  task,      \* where run_forever is: phase, current_symbols, wanted
  active,    \* _active_symbols
  meta,      \* the symbols of _symbol_meta
  ids,       \* _active_security_ids: the poller leaves these out
  cooling,   \* symbols whose eligible_after is to come
  fresh,     \* those of them rejected since the last rebalance
  unlocked,  \* AppContext.is_initialized()
  requests,  \* to the provider, in order
  answers,   \* from the provider, in order
  streamed   \* what the provider streams on this connection

vars == <<task, active, meta, ids, cooling, fresh, unlocked, requests, answers, streamed>>
wire == <<requests, answers, streamed>>
cache == <<cooling, fresh>>

At(phase) == task.phase = phase
Go(phase) == task' = [task EXCEPT !.phase = phase]
Message(type, yes, no) == [type |-> type, yes |-> yes, no |-> no]

-----------------------------------------------------------------------------
(* The task *)

\* _build_candidates: something of what is held, the heaviest that are eligible.
Candidates == {C \in SUBSET (Symbols \ cooling) : Cardinality(C) <= MaxStreams}

Disconnect ==
  /\ active' = {} /\ ids' = {}
  /\ requests' = << >> /\ answers' = << >> /\ streamed' = {}

\* Nothing to stream: everything is cleared and the task sleeps.  Without a
\* database the exception ends the task: it is outside the try.
Start ==
  /\ At("start")
  /\ UNCHANGED <<cache, unlocked, wire>>
  /\ IF ~unlocked THEN Go("ended") /\ UNCHANGED <<active, meta, ids>>
     ELSE \E C \in Candidates :
            IF C = {}
            THEN active' = {} /\ meta' = {} /\ ids' = {} /\ UNCHANGED task
            ELSE Go("connect") /\ UNCHANGED <<active, meta, ids>>

Connect ==
  /\ At("connect")
  /\ task' = [phase |-> "due", current |-> {}, wanted |-> {}]
  /\ UNCHANGED <<active, meta, ids, cache, unlocked, wire>>

\* Mutant: what is new is asked for before what is old is given up.
StepsBackwards(current, C) ==
  << Message("subscribe", C \ current, {}), Message("unsubscribe", current \ C, {}) >>

\* The two requests of a rebalance, in order.
Steps(current, C) ==
  << Message("unsubscribe", current \ C, {}), Message("subscribe", C \ current, {}) >>

\* _send_action
Send(m) ==
  /\ requests' = IF m.yes = {} THEN requests ELSE Append(requests, m)
  /\ Len(requests') <= MaxMessages

\* The candidates are built anew, and the first request is sent.
Rebalance ==
  /\ At("due") /\ unlocked
  /\ \E C \in Candidates :
       /\ task' = [task EXCEPT !.phase = "subscribe", !.wanted = C]
       /\ Send(Steps(task.current, C)[1])
  /\ fresh' = {}
  /\ UNCHANGED <<active, meta, ids, cooling, unlocked, answers, streamed>>

\* The second request; all that is wanted counts as active at once.
Subscribe ==
  /\ At("subscribe")
  /\ LET C == task.wanted
     IN /\ Send(Steps(task.current, C)[2])
        /\ task' = [phase |-> "receive", current |-> C, wanted |-> {}]
        /\ meta' = C /\ active' = C /\ ids' = C \cap Securities
  /\ UNCHANGED <<cache, unlocked, answers, streamed>>

\* The rebalance interval has passed.
Due ==
  /\ At("receive") /\ Go("due")
  /\ UNCHANGED <<active, meta, ids, cache, unlocked, wire>>

\* Mutant: a rejection starts the cooldown and leaves the symbol active.
StatusKeepsActive(m) ==
  /\ cooling' = (cooling \ m.yes) \cup m.no
  /\ fresh' = (fresh \ m.yes) \cup m.no
  /\ UNCHANGED <<active, meta, ids>>

\* _handle_status_event
Status(m) ==
  /\ active' = active \ m.no
  /\ meta' = meta \ m.no
  /\ ids' = IF m.no = {} THEN ids ELSE active' \cap meta' \cap Securities
  /\ cooling' = (cooling \ m.yes) \cup m.no
  /\ fresh' = (fresh \ m.yes) \cup m.no

\* A message; prices (_ingest_payload) are stored by another component.
Receive ==
  /\ At("receive") /\ answers # << >>
  /\ answers' = Tail(answers)
  /\ Status(Head(answers))
  /\ UNCHANGED <<task, unlocked, requests, streamed>>

\* Any exception inside the try: the connection is lost, closed or refused, a
\* quote cannot be stored, the database is locked.  Then the backoff.
Reconnect ==
  /\ task.phase \in {"connect", "due", "subscribe", "receive"}
  /\ Go("start")
  /\ Disconnect
  /\ UNCHANGED <<meta, cache, unlocked>>

-----------------------------------------------------------------------------
(* The provider, external: takes requests in order, accepts or rejects each *)
(* symbol and says so.                                                      *)
Provide ==
  /\ requests # << >>
  /\ requests' = Tail(requests)
  /\ LET m == Head(requests)
     IN IF m.type = "unsubscribe"
        THEN streamed' = streamed \ m.yes /\ UNCHANGED answers
        ELSE \E yes \in SUBSET m.yes :
               /\ streamed' = streamed \cup yes
               /\ answers' = Append(answers, Message("status", yes, m.yes \ yes))
  /\ Len(answers') <= MaxMessages
  /\ UNCHANGED <<task, active, meta, ids, cache, unlocked>>

\* A day after the rejection, many rebalances later.
CoolDown(s) ==
  /\ s \in cooling \ fresh
  /\ cooling' = cooling \ {s}
  /\ UNCHANGED <<task, active, meta, ids, fresh, unlocked, wire>>

\* AppContext.lock and initialize, by the pages of routers/admin.py.
LockOrUnlock ==
  /\ unlocked' = ~unlocked
  /\ UNCHANGED <<task, active, meta, ids, cache, wire>>

Init ==
  /\ task = [phase |-> "start", current |-> {}, wanted |-> {}]
  /\ active = {} /\ meta = {} /\ ids = {}
  /\ cooling \in SUBSET Symbols /\ fresh = {}   \* the cache file of an earlier process
  /\ unlocked \in BOOLEAN
  /\ requests = << >> /\ answers = << >> /\ streamed = {}

Next ==
  \/ Start \/ Connect \/ Rebalance \/ Subscribe \/ Due \/ Receive \/ Reconnect
  \/ Provide \/ LockOrUnlock
  \/ \E s \in Symbols : CoolDown(s)

Spec == Init /\ [][Next]_vars

-----------------------------------------------------------------------------
Asked(s) == \E n \in 1 .. Len(requests) : requests[n].type = "subscribe" /\ s \in requests[n].yes
Refused(s) == \E n \in 1 .. Len(answers) : s \in answers[n].no
Dropped(s) == At("subscribe") /\ s \notin task.wanted

(* What the poller leaves out is streamed, or the request for it or its    *)
(* rejection is under way, or the rebalance that drops it is: however      *)
(* rebalances, answers, reconnections and a locked database follow each    *)
(* other, no security goes without both for longer than a message takes.   *)
StreamedOrPolled == \A s \in ids : s \in streamed \/ Asked(s) \/ Refused(s) \/ Dropped(s)

(* The provider is never asked to stream more symbols than the plan        *)
(* allows, the moment between two requests of one rebalance included.      *)
WithinLimit == Cardinality(streamed) <= MaxStreams
=============================================================================
