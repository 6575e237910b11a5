------------------------- MODULE PaperTradingProofs -------------------------
(***************************************************************************)
(* Proofs about the paper-trading lane, for any instruments, capital,      *)
(* thresholds and horizons, and however the supervisor's cycles and the    *)
(* manual ones interleave or fail.                                         *)
(***************************************************************************)
EXTENDS PaperTrading, SumProofs, SequenceTheorems

-----------------------------------------------------------------------------
(* Books: what a transaction reads and writes *)

Risk == [paused : BOOLEAN, status : {"NORMAL", "PAUSED", "RECOVERING"}]

Position == [inst : Instruments, status : {"OPEN", "CLOSED", "RISK_OFF_EXIT"},
             size : Nat, return : {x \in Int : x >= -100}, held : Nat, horizon : Nat]

Book == [positions : Seq(Position), closings : Seq(Nat), balance : Int, risk : Risk]

\* What a position has added to the cash so far.
Flow(pos) == IF IsOpen(pos) THEN -pos.size ELSE Pnl(pos)
Flows(b) == [p \in DOMAIN b.positions |-> Flow(b.positions[p])]

OneOpen(b) ==
  \A p, q \in DOMAIN b.positions :
    /\ IsOpen(b.positions[p]) /\ IsOpen(b.positions[q])
    /\ b.positions[p].inst = b.positions[q].inst
    => p = q

Covers(b) ==
  /\ b.balance = StartingCapital + SumFunctionOnSet(Flows(b), DOMAIN b.positions)
  /\ b.balance >= 0

BookOK(b) == b \in Book /\ OneOpen(b) /\ Covers(b)

LEMMA PnlBound ==
  ASSUME NEW pos \in Position
  PROVE  Pnl(pos) \in Int /\ Pnl(pos) >= -pos.size
<1> DEFINE size == pos.size
           return == pos.return
           x == size * return
<1>1. size \in Nat /\ return \in Int /\ return + 100 \in Nat
  BY DEF Position
<1>2. \A m, n \in Nat : m * n \in Nat
  OBVIOUS
<1>3. size * (return + 100) \in Nat
  BY <1>1, <1>2
<1>4. \A m \in Nat, n \in Int : m * (n + 100) = m * n + 100 * m
  OBVIOUS
<1>5. x + 100 * size >= 0 /\ x \in Int
  BY <1>1, <1>3, <1>4
<1>6. Pnl(pos) = x \div 100
  BY DEF Pnl
<1> HIDE DEF x, size
<1> QED
  BY <1>1, <1>5, <1>6 DEF size

LEMMA FlowType ==
  ASSUME NEW pos \in Position
  PROVE  Flow(pos) \in Int
BY PnlBound DEF Flow, Position

LEMMA BookPositions ==
  ASSUME NEW b \in Book
  PROVE  /\ b.positions \in Seq(Position) /\ Len(b.positions) \in Nat
         /\ DOMAIN b.positions = 1 .. Len(b.positions)
         /\ IsFiniteSet(DOMAIN b.positions)
         /\ \A p \in DOMAIN b.positions : b.positions[p] \in Position
         /\ \A p \in DOMAIN b.positions : Flows(b)[p] \in Int
<1>1. b.positions \in Seq(Position)
  BY DEF Book
<1>2. /\ Len(b.positions) \in Nat /\ DOMAIN b.positions = 1 .. Len(b.positions)
      /\ \A p \in DOMAIN b.positions : b.positions[p] \in Position
  BY <1>1
<1>3. IsFiniteSet(1 .. Len(b.positions))
  BY <1>2, FS_Interval
<1> QED
  BY <1>1, <1>2, <1>3, FlowType DEF Flows

\* What is realized less what is deployed is what the positions have added.
LEMMA UncappedIsFlow ==
  ASSUME NEW b \in Book
  PROVE  Uncapped(b) = StartingCapital + SumFunctionOnSet(Flows(b), DOMAIN b.positions)
<1> DEFINE S == DOMAIN b.positions
           dep == [p \in S |-> IF IsOpen(b.positions[p]) THEN b.positions[p].size ELSE 0]
           rea == [p \in S |-> IF IsOpen(b.positions[p]) THEN 0 ELSE Pnl(b.positions[p])]
           flo == Flows(b)
<1>1. IsFiniteSet(S) /\ \A p \in S : b.positions[p] \in Position /\ Flows(b)[p] \in Int
  BY BookPositions
<1>2. \A p \in S : dep[p] \in Int /\ flo[p] \in Int /\ rea[p] = dep[p] + flo[p]
  <2> SUFFICES ASSUME NEW p \in S
               PROVE  dep[p] \in Int /\ flo[p] \in Int /\ rea[p] = dep[p] + flo[p]
    OBVIOUS
  <2>1. b.positions[p] \in Position /\ b.positions[p].size \in Nat
    BY <1>1 DEF Position
  <2>2. Pnl(b.positions[p]) \in Int
    BY <2>1, PnlBound
  <2>3. flo[p] = Flow(b.positions[p])
    BY DEF Flows
  <2> QED
    BY <2>1, <2>2, <2>3 DEF Flow
<1>3. Deployed(b) = SumFunctionOnSet(dep, S) /\ Realized(b) = SumFunctionOnSet(rea, S)
  BY DEF Deployed, Realized, Total
<1> HIDE DEF S, dep, rea, flo
<1>4. SumFunctionOnSet(rea, S) = SumFunctionOnSet(dep, S) + SumFunctionOnSet(flo, S)
  BY <1>1, <1>2, SumPlus
<1>5. SumFunctionOnSet(dep, S) \in Int /\ SumFunctionOnSet(flo, S) \in Int
  BY <1>1, <1>2, SumType
<1>6. StartingCapital \in Int
  BY CapitalAssumption
<1>7. \A u, v, w \in Int : u + (v + w) - v = u + w
  OBVIOUS
<1> QED
  BY <1>3, <1>4, <1>5, <1>6, <1>7 DEF Uncapped, S, flo

\* One position that is marked or closed.
LEMMA PositionChanged ==
  ASSUME NEW b, BookOK(b), NEW p \in DOMAIN b.positions, NEW pos \in Position,
         pos.inst = b.positions[p].inst, IsOpen(pos) => IsOpen(b.positions[p]),
         NEW c \in Book, c.positions = [b.positions EXCEPT ![p] = pos],
         c.balance = b.balance - Flow(b.positions[p]) + Flow(pos), c.balance >= 0
  PROVE  BookOK(c)
<1> DEFINE S == DOMAIN b.positions
           f == Flows(b)
           g == Flows(c)
<1>1. b \in Book /\ IsFiniteSet(S) /\ DOMAIN c.positions = S
      /\ \A q \in S : f[q] \in Int
  BY BookPositions DEF BookOK
<1>2. \A q \in S : g[q] \in Int
  BY <1>1, BookPositions
<1>3. /\ f[p] = Flow(b.positions[p]) /\ g[p] = Flow(pos)
      /\ \A q \in S : q # p => g[q] = f[q]
  BY <1>1 DEF Flows
<1>4. OneOpen(c)
  <2> SUFFICES ASSUME NEW q \in S, NEW r \in S,
                      IsOpen(c.positions[q]), IsOpen(c.positions[r]),
                      c.positions[q].inst = c.positions[r].inst
               PROVE  q = r
    BY <1>1 DEF OneOpen
  <2>1. \A t \in S : c.positions[t] = IF t = p THEN pos ELSE b.positions[t]
    BY <1>1
  <2>2. \A t \in {q, r} : IsOpen(b.positions[t]) /\ b.positions[t].inst = c.positions[t].inst
    BY <2>1
  <2> QED
    BY <2>2 DEF BookOK, OneOpen
<1> HIDE DEF S, f, g
<1>5. SumFunctionOnSet(g, S) = SumFunctionOnSet(f, S) - f[p] + g[p]
  <2>1. p \in S
    BY DEF S
  <2> QED
    BY <1>1, <1>2, <1>3, <2>1, SumOfChange
<1>6. SumFunctionOnSet(f, S) \in Int /\ f[p] \in Int /\ g[p] \in Int /\ StartingCapital \in Int
  BY <1>1, <1>2, SumType, CapitalAssumption DEF S
<1>7. b.balance = StartingCapital + SumFunctionOnSet(f, S)
  BY DEF BookOK, Covers, S, f
<1>8. \A k, s, x, y \in Int : (k + s) - x + y = k + (s - x + y)
  OBVIOUS
<1>9. c.balance = StartingCapital + SumFunctionOnSet(g, S)
  BY <1>3, <1>5, <1>6, <1>7, <1>8
<1> QED
  BY <1>1, <1>4, <1>9 DEF BookOK, Covers, S, g

\* A position that is opened with cash that is there, of a symbol without one.
LEMMA PositionAdded ==
  ASSUME NEW b, BookOK(b), NEW pos \in Position, OpenOf(b, pos.inst) = {},
         NEW c \in Book, c.positions = Append(b.positions, pos),
         c.balance = b.balance + Flow(pos), c.balance >= 0
  PROVE  BookOK(c)
<1> DEFINE S == DOMAIN b.positions
           n == Len(b.positions) + 1
           f == Flows(b)
           g == Flows(c)
<1>1. /\ b \in Book /\ IsFiniteSet(S) /\ S = 1 .. Len(b.positions) /\ Len(b.positions) \in Nat
      /\ b.positions \in Seq(Position) /\ \A q \in S : f[q] \in Int
  BY BookPositions DEF BookOK
<1>2. /\ DOMAIN c.positions = S \cup {n} /\ n \notin S
      /\ c.positions[n] = pos /\ \A q \in S : c.positions[q] = b.positions[q]
  BY <1>1
<1>3. /\ \A q \in S \cup {n} : g[q] \in Int
      /\ \A q \in S : g[q] = f[q]
      /\ g[n] = Flow(pos)
  <2>1. \A q \in S \cup {n} : g[q] \in Int
    BY <1>2, BookPositions
  <2> QED
    BY <1>2, <2>1 DEF Flows
<1>4. OneOpen(c)
  <2>1. \A q \in S : ~(IsOpen(b.positions[q]) /\ b.positions[q].inst = pos.inst)
    BY DEF OpenOf
  <2> QED
    BY <1>2, <2>1 DEF BookOK, OneOpen
<1> HIDE DEF S, n, f, g
<1>5. SumFunctionOnSet(g, S \cup {n}) = SumFunctionOnSet(g, S) + g[n]
  <2>1. IsFiniteSet(S) /\ n \notin S /\ \A q \in S \cup {n} : g[q] \in Int
    BY <1>1, <1>2, <1>3
  <2> QED
    BY <2>1, SumAdd
<1>6. SumFunctionOnSet(g, S) = SumFunctionOnSet(f, S)
  BY <1>1, <1>3, SumEqual
<1>7. SumFunctionOnSet(f, S) \in Int /\ g[n] \in Int /\ StartingCapital \in Int
  <2>1. IsFiniteSet(S) /\ \A q \in S : f[q] \in Int
    BY <1>1
  <2>2. SumFunctionOnSet(f, S) \in Int
    BY <2>1, SumType
  <2> QED
    BY <1>3, <2>2, CapitalAssumption
<1>8. b.balance = StartingCapital + SumFunctionOnSet(f, S)
  BY DEF BookOK, Covers, S, f
<1>9. c.balance = StartingCapital + SumFunctionOnSet(g, S \cup {n})
  BY <1>3, <1>5, <1>6, <1>7, <1>8, PlusGroups
<1> QED
  BY <1>2, <1>4, <1>9 DEF BookOK, Covers, g

-----------------------------------------------------------------------------
(* What scoring one instrument does to a book *)

\* Only positions of i move, only open ones change or are new, and no trade
\* closes where none is open.
Moved(b, c, i) ==
  /\ c.risk = b.risk
  /\ DOMAIN b.positions \subseteq DOMAIN c.positions
  /\ \A p \in DOMAIN b.positions :
       /\ c.positions[p].inst = b.positions[p].inst
       /\ ~IsOpen(b.positions[p]) \/ b.positions[p].inst # i => c.positions[p] = b.positions[p]
  /\ \A p \in DOMAIN c.positions \ DOMAIN b.positions :
       IsOpen(c.positions[p]) /\ c.positions[p].inst = i
  /\ OpenOf(b, i) = {} => c.closings = b.closings

LEMMA ClosingOrderType ==
  ASSUME NEW b \in Book, NEW p \in DOMAIN b.positions, NEW order \in ClosingOrders(b, p)
  PROVE  order \in Seq(Nat)
<1>1. b.closings \in Seq(Nat) /\ p \in Nat
  BY BookPositions DEF Book
<1>2. PICK k \in 1 .. Len(b.closings) + 1 : order = InsertAt(b.closings, k, p)
  BY DEF ClosingOrders
<1> DEFINE s == b.closings
<1>3. s \in Seq(Nat) /\ Len(s) \in Nat /\ k \in 1 .. Len(s) + 1
  BY <1>1, <1>2
<1> HIDE DEF s
<1>4. SubSeq(s, 1, k - 1) \in Seq(Nat) /\ SubSeq(s, k, Len(s)) \in Seq(Nat) /\ <<p>> \in Seq(Nat)
  BY <1>1, <1>3
<1>5. SubSeq(s, 1, k - 1) \o <<p>> \o SubSeq(s, k, Len(s)) \in Seq(Nat)
  BY <1>4, ConcatProperties
<1> QED
  BY <1>2, <1>5 DEF InsertAt, s

Marked(b, p, x) == {[b EXCEPT !.positions[p].return = x]}

LEMMA MarkedOK ==
  ASSUME NEW b, BookOK(b), NEW i \in Instruments, NEW p \in OpenOf(b, i),
         NEW x \in Int, x >= -100, NEW c \in Marked(b, p, x)
  PROVE  /\ BookOK(c) /\ Moved(b, c, i) /\ DOMAIN c.positions = DOMAIN b.positions
         /\ p \in OpenOf(c, i)
<1> DEFINE pos == [b.positions[p] EXCEPT !.return = x]
<1>1. b \in Book /\ p \in DOMAIN b.positions /\ IsOpen(b.positions[p])
      /\ b.positions[p] \in Position /\ b.positions[p].inst = i
  BY BookPositions DEF BookOK, OpenOf
<1>2. pos \in Position /\ pos.inst = i /\ IsOpen(pos) /\ pos.size = b.positions[p].size
  BY <1>1 DEF Position, IsOpen
<1> HIDE DEF pos
<1>3. c = [b EXCEPT !.positions = [b.positions EXCEPT ![p] = pos]]
  BY <1>1 DEF Book, pos, Marked
<1>4. [b.positions EXCEPT ![p] = pos] \in Seq(Position)
  BY <1>1, <1>2 DEF Book
<1>5. c \in Book /\ c.positions = [b.positions EXCEPT ![p] = pos] /\ c.balance = b.balance
      /\ c.closings = b.closings /\ c.risk = b.risk
  BY <1>1, <1>3, <1>4 DEF Book
<1>6. c.balance = b.balance - Flow(b.positions[p]) + Flow(pos) /\ c.balance >= 0
  <2>1. Flow(pos) = Flow(b.positions[p]) /\ Flow(pos) \in Int
    BY <1>1, <1>2, FlowType DEF Flow
  <2>2. b.balance \in Int /\ b.balance >= 0
    BY <1>1 DEF Book, BookOK, Covers
  <2> QED
    BY <1>5, <2>1, <2>2
<1>7. BookOK(c)
  <2>1. pos \in Position /\ pos.inst = b.positions[p].inst /\ p \in DOMAIN b.positions
        /\ (IsOpen(pos) => IsOpen(b.positions[p]))
    BY <1>1, <1>2
  <2>2. c \in Book /\ c.positions = [b.positions EXCEPT ![p] = pos]
    BY <1>5
  <2> QED
    BY <1>6, <2>1, <2>2, PositionChanged
<1>8. DOMAIN c.positions = DOMAIN b.positions
      /\ \A q \in DOMAIN b.positions : c.positions[q] = IF q = p THEN pos ELSE b.positions[q]
  BY <1>5
<1>9. Moved(b, c, i)
  BY <1>1, <1>2, <1>5, <1>8 DEF Moved
<1> QED
  BY <1>1, <1>2, <1>7, <1>8, <1>9 DEF OpenOf

LEMMA ClosedOK ==
  ASSUME NEW b, BookOK(b), NEW i \in Instruments, NEW p \in OpenOf(b, i),
         NEW status \in {"CLOSED", "RISK_OFF_EXIT"}, NEW c \in Closed(b, p, status)
  PROVE  BookOK(c) /\ Moved(b, c, i) /\ DOMAIN c.positions = DOMAIN b.positions
<1> DEFINE pos == [b.positions[p] EXCEPT !.status = status, !.held = 0]
           cash == b.balance + b.positions[p].size + Pnl(b.positions[p])
<1>1. b \in Book /\ p \in DOMAIN b.positions /\ IsOpen(b.positions[p])
      /\ b.positions[p] \in Position /\ b.positions[p].inst = i
  BY BookPositions DEF BookOK, OpenOf
<1>2. pos \in Position /\ pos.inst = i /\ ~IsOpen(pos) /\ Pnl(pos) = Pnl(b.positions[p])
  BY <1>1 DEF Position, IsOpen, Pnl
<1>3. PICK order \in ClosingOrders(b, p) :
        c = [b EXCEPT !.positions[p].status = status, !.positions[p].held = 0,
                      !.closings = order,
                      !.balance = @ + b.positions[p].size + Pnl(b.positions[p])]
  BY DEF Closed
<1>4. order \in Seq(Nat)
  BY <1>1, ClosingOrderType
<1>5. cash \in Int /\ cash >= 0 /\ cash = b.balance - Flow(b.positions[p]) + Flow(pos)
  <2>1. b.balance \in Int /\ b.balance >= 0
    BY <1>1 DEF Book, BookOK, Covers
  <2>2. b.positions[p].size \in Nat /\ Pnl(b.positions[p]) \in Int
        /\ Pnl(b.positions[p]) >= -b.positions[p].size
    BY <1>1, PnlBound DEF Position
  <2>3. Flow(b.positions[p]) = -b.positions[p].size /\ Flow(pos) = Pnl(b.positions[p])
    BY <1>1, <1>2 DEF Flow
  <2> QED
    BY <2>1, <2>2, <2>3
<1> HIDE DEF pos
<1>6. /\ c.positions = [b.positions EXCEPT ![p] = pos] /\ c.closings = order
      /\ c.balance = cash /\ c.risk = b.risk
      /\ c = [positions |-> c.positions, closings |-> c.closings, balance |-> c.balance,
              risk |-> c.risk]
  BY <1>1, <1>3 DEF Book, pos
<1> HIDE DEF cash
<1>7. [b.positions EXCEPT ![p] = pos] \in Seq(Position)
  BY <1>1, <1>2 DEF Book
<1>8. c \in Book
  BY <1>1, <1>4, <1>5, <1>6, <1>7 DEF Book
<1>9. BookOK(c)
  <2>1. c.balance = b.balance - Flow(b.positions[p]) + Flow(pos) /\ c.balance >= 0
    BY <1>5, <1>6
  <2>2. pos \in Position /\ pos.inst = b.positions[p].inst /\ p \in DOMAIN b.positions
        /\ (IsOpen(pos) => IsOpen(b.positions[p]))
    BY <1>1, <1>2
  <2>3. c.positions = [b.positions EXCEPT ![p] = pos]
    BY <1>6
  <2> QED
    BY <1>8, <2>1, <2>2, <2>3, PositionChanged
<1>10. DOMAIN c.positions = DOMAIN b.positions
       /\ \A q \in DOMAIN b.positions : c.positions[q] = IF q = p THEN pos ELSE b.positions[q]
  BY <1>6
<1>11. Moved(b, c, i)
  <2>1. OpenOf(b, i) # {}
    OBVIOUS
  <2> QED
    BY <1>1, <1>2, <1>6, <1>10, <2>1 DEF Moved
<1> QED
  BY <1>9, <1>10, <1>11

\* What size_for_new_position allows is there.
LEMMA SizedIsThere ==
  ASSUME NEW b, BookOK(b), NEW q \in Requests
  PROVE  Sized(b, q) \in Nat /\ Sized(b, q) <= b.balance
<1>1. b.balance \in Nat /\ Available(b) = b.balance
  <2>1. b \in Book /\ b.balance >= 0 /\ b.balance \in Int
    BY DEF BookOK, Book, Covers
  <2>2. Uncapped(b) = b.balance
    BY <2>1, UncappedIsFlow DEF BookOK, Covers
  <2> QED
    BY <2>1, <2>2 DEF Available
<1>2. q \in Nat /\ MinPosition \in Nat
  BY CapitalAssumption
<1>3. Multiplier(b) \in {50, 75, 100}
  BY DEF Multiplier
<1> DEFINE adjusted == (q * Multiplier(b)) \div 100
<1>4. adjusted \in Nat
  BY <1>2, <1>3
<1>5. Sized(b, q) = IF (IF adjusted > Available(b) THEN Available(b) ELSE adjusted) < MinPosition
                    THEN 0
                    ELSE IF adjusted > Available(b) THEN Available(b) ELSE adjusted
  BY DEF Sized
<1> HIDE DEF adjusted
<1> QED
  BY <1>1, <1>2, <1>4, <1>5

LEMMA EnteredOK ==
  ASSUME NEW b, BookOK(b), NEW i \in Instruments, OpenOf(b, i) = {}, NEW c \in Entered(b, i)
  PROVE  BookOK(c) /\ Moved(b, c, i)
<1>1. PICK q \in Requests :
        c \in IF Sized(b, q) = 0 THEN {b}
              ELSE {[b EXCEPT !.positions = Append(@,
                       [inst |-> i, status |-> "OPEN", size |-> Sized(b, q),
                        return |-> 0, held |-> 0, horizon |-> h]),
                     !.balance = @ - Sized(b, q)] : h \in Horizons}
  BY DEF Entered
<1>2. CASE c = b
  BY <1>2 DEF Moved
<1>3. ASSUME NEW h \in Horizons,
             c = [b EXCEPT !.positions = Append(@,
                       [inst |-> i, status |-> "OPEN", size |-> Sized(b, q),
                        return |-> 0, held |-> 0, horizon |-> h]),
                     !.balance = @ - Sized(b, q)]
      PROVE  BookOK(c) /\ Moved(b, c, i)
  <2> DEFINE size == Sized(b, q)
             pos == [inst |-> i, status |-> "OPEN", size |-> size,
                     return |-> 0, held |-> 0, horizon |-> h]
  <2>1. size \in Nat /\ size <= b.balance
    BY SizedIsThere
  <2>2. b \in Book /\ b.balance \in Int /\ b.positions \in Seq(Position) /\ h \in Nat
    BY HorizonAssumption DEF BookOK, Book
  <2>3. pos \in Position /\ pos.inst = i /\ IsOpen(pos) /\ pos.size = size
    BY <2>1, <2>2 DEF Position, IsOpen
  <2>4. c = [b EXCEPT !.positions = Append(b.positions, pos), !.balance = b.balance - size]
    BY <1>3
  <2> HIDE DEF pos, size
  <2>5. Append(b.positions, pos) \in Seq(Position) /\ b.balance - size \in Int
    BY <2>1, <2>2, <2>3
  <2>6. /\ c \in Book /\ c.positions = Append(b.positions, pos)
        /\ c.balance = b.balance - size /\ c.closings = b.closings /\ c.risk = b.risk
    BY <2>2, <2>4, <2>5 DEF Book
  <2>7. c.balance = b.balance + Flow(pos) /\ c.balance >= 0
    BY <2>1, <2>2, <2>3, <2>6 DEF Flow
  <2>8. BookOK(c)
    BY <2>3, <2>6, <2>7, PositionAdded
  <2>9. Moved(b, c, i)
    BY <2>2, <2>3, <2>6 DEF Moved
  <2> QED
    BY <2>8, <2>9
<1> QED
  BY <1>1, <1>2, <1>3

LEMMA ExitsOK ==
  ASSUME NEW b, BookOK(b), NEW i \in Instruments, NEW c \in AfterExits(b, i)
  PROVE  BookOK(c) /\ Moved(b, c, i) /\ DOMAIN c.positions = DOMAIN b.positions
<1>1. CASE OpenOf(b, i) = {}
  <2>1. c = b
    BY <1>1 DEF AfterExits
  <2> QED
    BY <2>1 DEF Moved
<1>2. CASE OpenOf(b, i) # {}
  <2> DEFINE p == CHOOSE p \in OpenOf(b, i) : TRUE
  <2>1. p \in OpenOf(b, i)
    BY <1>2
  <2>2. PICK x \in Returns :
          c \in LET m == [b EXCEPT !.positions[p].return = x]
                IN IF Due(m.positions[p]) /\ mark = "open"
                   THEN Closed(m, p, "CLOSED") ELSE {m}
    BY <1>2 DEF AfterExits
  <2>3. x \in Int /\ x >= -100
    BY TradeAssumption DEF Returns
  <2> HIDE DEF p
  <2>4. PICK m \in Marked(b, p, x) :
          c \in IF Due(m.positions[p]) /\ mark = "open" THEN Closed(m, p, "CLOSED") ELSE {m}
    BY <2>2 DEF Marked
  <2>5. BookOK(m) /\ Moved(b, m, i) /\ DOMAIN m.positions = DOMAIN b.positions
        /\ p \in OpenOf(m, i)
    BY <2>1, <2>3, MarkedOK
  <2>6. CASE c = m
    BY <2>5, <2>6
  <2>7. CASE c \in Closed(m, p, "CLOSED")
    <3>1. BookOK(c) /\ Moved(m, c, i) /\ DOMAIN c.positions = DOMAIN m.positions
      BY <2>5, <2>7, ClosedOK
    <3>2. Moved(b, c, i)
      BY <1>2, <2>5, <3>1 DEF Moved, OpenOf
    <3> QED
      BY <2>5, <3>1, <3>2
  <2> QED
    BY <2>4, <2>6, <2>7
<1> QED
  BY <1>1, <1>2

LEMMA ScoredOK ==
  ASSUME NEW r, NEW b, BookOK(b), NEW i \in Instruments, NEW c \in Scored(r, b, i)
  PROVE  BookOK(c) /\ Moved(b, c, i)
<1>1. PICK m \in AfterExits(b, i) : c \in {m} \cup AfterEntry(r, m, i) \cup AfterRiskOff(m, i)
  BY DEF Scored
<1>2. BookOK(m) /\ Moved(b, m, i) /\ DOMAIN m.positions = DOMAIN b.positions
  BY ExitsOK
<1>3. BookOK(c) /\ Moved(m, c, i)
  <2>1. CASE c = m
    BY <1>2, <2>1 DEF Moved
  <2>2. CASE c \in AfterEntry(r, m, i) /\ c # m
    <3>1. OpenOf(m, i) = {} /\ c \in Entered(m, i)
      BY <2>2 DEF AfterEntry, MayEnter
    <3> QED
      BY <1>2, <3>1, EnteredOK
  <2>3. CASE c \in AfterRiskOff(m, i) /\ c # m
    <3> DEFINE p == CHOOSE p \in OpenOf(m, i) : TRUE
    <3>1. OpenOf(m, i) # {} /\ c \in Closed(m, p, "RISK_OFF_EXIT")
      BY <2>3 DEF AfterRiskOff
    <3>2. p \in OpenOf(m, i)
      BY <3>1
    <3> HIDE DEF p
    <3> QED
      BY <1>2, <3>1, <3>2, ClosedOK
  <2> QED
    BY <1>1, <2>1, <2>2, <2>3
<1>4. OpenOf(b, i) = {} => OpenOf(m, i) = {}
  BY <1>2 DEF Moved, OpenOf
<1>5. Moved(b, c, i)
  BY <1>2, <1>3, <1>4 DEF Moved
<1> QED
  BY <1>3, <1>5

-----------------------------------------------------------------------------
(* The risk row and the bars *)

LEMMA RiskRow ==
  /\ Normal \in Risk
  /\ \A row, old, new \in Risk : Written(row, old, new) \in Risk
  /\ \A row \in Risk : \A b : Evaluated(row, b) \in Risk
<1>1. Normal \in Risk
  BY DEF Normal, Risk
<1>2. ASSUME NEW row \in Risk, NEW old \in Risk, NEW new \in Risk
      PROVE  Written(row, old, new) \in Risk
  <2>1. DOMAIN row = {"paused", "status"}
    BY DEF Risk
  <2>2. Written(row, old, new) =
          [paused |-> IF new.paused # old.paused THEN new.paused ELSE row.paused,
           status |-> IF new.status # old.status THEN new.status ELSE row.status]
    BY <2>1 DEF Written
  <2> QED
    BY <2>2 DEF Risk
<1>3. ASSUME NEW row \in Risk, NEW b PROVE Evaluated(row, b) \in Risk
  BY DEF Evaluated, Risk
<1> QED
  BY <1>1, <1>2, <1>3

LEMMA RiskWritten ==
  ASSUME NEW b, BookOK(b), NEW risk \in Risk, NEW c \in {[b EXCEPT !.risk = risk]}
  PROVE  /\ BookOK(c) /\ c.positions = b.positions /\ c.closings = b.closings
         /\ c.risk = risk
<1>1. b \in Book
  BY DEF BookOK
<1>2. /\ c \in Book /\ c.positions = b.positions /\ c.closings = b.closings
      /\ c.balance = b.balance /\ c.risk = risk
  BY <1>1 DEF Book
<1>3. Flows(c) = Flows(b)
  BY <1>2 DEF Flows
<1> QED
  BY <1>2, <1>3 DEF BookOK, OneOpen, Covers

LEMMA AgedOK ==
  ASSUME NEW b, BookOK(b), NEW i
  PROVE  /\ BookOK(Aged(b, i)) /\ Aged(b, i).risk = b.risk /\ Aged(b, i).closings = b.closings
         /\ DOMAIN Aged(b, i).positions = DOMAIN b.positions
         /\ \A p \in DOMAIN b.positions :
              ~IsOpen(b.positions[p]) => Aged(b, i).positions[p] = b.positions[p]
         /\ \A p \in DOMAIN b.positions :
              IsOpen(Aged(b, i).positions[p]) => IsOpen(b.positions[p])
<1> DEFINE S == DOMAIN b.positions
           aged == [p \in S |->
                      IF p \in OpenOf(b, i) /\ b.positions[p].held < BarWindow
                      THEN [b.positions[p] EXCEPT !.held = @ + 1] ELSE b.positions[p]]
           c == Aged(b, i)
<1>1. b \in Book /\ b.positions \in Seq(Position) /\ \A p \in S : b.positions[p] \in Position
      /\ Len(b.positions) \in Nat /\ S = 1 .. Len(b.positions)
  BY BookPositions DEF BookOK
<1>2. c = [b EXCEPT !.positions = aged]
  BY DEF Aged
<1>3. \A p \in S : /\ aged[p] \in Position /\ Flow(aged[p]) = Flow(b.positions[p])
                   /\ IsOpen(aged[p]) <=> IsOpen(b.positions[p])
                   /\ aged[p].inst = b.positions[p].inst
                   /\ ~IsOpen(b.positions[p]) => aged[p] = b.positions[p]
  <2> SUFFICES ASSUME NEW p \in S
               PROVE  /\ aged[p] \in Position /\ Flow(aged[p]) = Flow(b.positions[p])
                      /\ IsOpen(aged[p]) <=> IsOpen(b.positions[p])
                      /\ aged[p].inst = b.positions[p].inst
                      /\ ~IsOpen(b.positions[p]) => aged[p] = b.positions[p]
    OBVIOUS
  <2>1. CASE aged[p] = b.positions[p]
    BY <1>1, <2>1
  <2>2. CASE p \in OpenOf(b, i) /\ aged[p] = [b.positions[p] EXCEPT !.held = @ + 1]
    <3> DEFINE pos == b.positions[p]
               new == aged[p]
    <3>1. pos \in Position /\ IsOpen(pos) /\ new = [pos EXCEPT !.held = @ + 1]
      BY <1>1, <2>2 DEF OpenOf
    <3> HIDE DEF pos, new, aged
    <3>2. new \in Position /\ new.status = pos.status /\ new.size = pos.size /\ new.inst = pos.inst
      BY <3>1 DEF Position
    <3> QED
      BY <3>1, <3>2 DEF Flow, IsOpen, pos, new
  <2> QED
    BY <2>1, <2>2
<1>4. aged \in Seq(Position) /\ DOMAIN aged = S
  <2>1. DOMAIN aged = 1 .. Len(b.positions)
    BY <1>1
  <2>2. \A p \in 1 .. Len(b.positions) : aged[p] \in Position
    <3> HIDE DEF aged
    <3> QED
      BY <1>1, <1>3
  <2> HIDE DEF aged
  <2>3. aged \in [1 .. Len(b.positions) -> Position]
    <3>1. aged = [p \in S |-> aged[p]]
      BY DEF aged
    <3> QED
      BY <1>1, <2>1, <2>2, <3>1
  <2> QED
    BY <1>1, <2>1, <2>3, SeqDef
<1> HIDE DEF aged, c
<1>5. /\ c \in Book /\ c.positions = aged /\ c.closings = b.closings
      /\ c.balance = b.balance /\ c.risk = b.risk
  BY <1>1, <1>2, <1>4 DEF Book
<1>6. Flows(c) = Flows(b)
  BY <1>3, <1>4, <1>5 DEF Flows
<1>7. OneOpen(c)
  BY <1>3, <1>4, <1>5 DEF OneOpen, BookOK
<1>8. Covers(c)
  BY <1>4, <1>5, <1>6 DEF Covers, BookOK
<1> QED
  BY <1>3, <1>4, <1>5, <1>7, <1>8 DEF BookOK, c

-----------------------------------------------------------------------------
(* The invariant *)

Cycles == [phase : {"idle", "begun", "locked"}, todo : SUBSET Instruments,
           saw : Risk, risk : Risk]

\* How the work of a transaction that has still todo to score has left what is
\* committed behind: what was closed is as it was, what is new is open and not
\* to be scored any more, and no trade has closed unless one was open.
Ahead(todo) ==
  /\ DOMAIN db.positions \subseteq DOMAIN work.positions
  /\ \A p \in DOMAIN db.positions :
       ~IsOpen(db.positions[p]) => work.positions[p] = db.positions[p]
  /\ \A p \in DOMAIN work.positions \ DOMAIN db.positions :
       IsOpen(work.positions[p]) /\ work.positions[p].inst \notin todo
  /\ (\A p \in DOMAIN db.positions : ~IsOpen(db.positions[p])) => work.closings = db.closings

LocksOK ==
  /\ cycle \in [Runners -> Cycles]
  /\ \A r, s \in Runners : cycle[r].phase = "locked" /\ cycle[s].phase = "locked" => r = s
  /\ ~Locked => work = db
  /\ \A r \in Runners : cycle[r].phase = "locked" => Ahead(cycle[r].todo)

PaperInv == BookOK(db) /\ BookOK(work) /\ LocksOK

LEMMA PaperInitSound ==
  Init => PaperInv
<1> SUFFICES ASSUME Init PROVE PaperInv
  OBVIOUS
<1>1. db = [positions |-> << >>, closings |-> << >>, balance |-> StartingCapital,
            risk |-> [paused |-> FALSE, status |-> "NORMAL"]]
      /\ work = db /\ cycle = [r \in Runners |-> Idle]
  BY DEF Init
<1>2. BookOK(db)
  <2>1. StartingCapital \in Nat /\ << >> \in Seq(Position) /\ << >> \in Seq(Nat)
        /\ [paused |-> FALSE, status |-> "NORMAL"] \in Risk
    BY CapitalAssumption DEF Risk
  <2>2. db \in Book /\ DOMAIN db.positions = {} /\ db.balance = StartingCapital
    BY <1>1, <2>1 DEF Book
  <2>3. SumFunctionOnSet(Flows(db), {}) = 0
    BY SumOfNone
  <2> QED
    BY <2>1, <2>2, <2>3 DEF BookOK, OneOpen, Covers
<1>3. LocksOK
  <2>1. Idle \in Cycles /\ Idle.phase = "idle"
    BY RiskRow DEF Idle, Cycles
  <2> QED
    BY <1>1, <2>1 DEF LocksOK, Locked
<1> QED
  BY <1>1, <1>2, <1>3 DEF PaperInv

\* One score: only the holder of the lock works, and further ahead.
LEMMA ScoreAhead ==
  ASSUME PaperInv, NEW r \in Runners, NEW i \in Instruments, Score(r, i)
  PROVE  PaperInv'
<1> DEFINE todo == cycle[r].todo
<1>1. /\ cycle[r].phase = "locked" /\ i \in todo /\ UNCHANGED db
      /\ cycle' = [cycle EXCEPT ![r].todo = todo \ {i}] /\ work' \in Scored(r, work, i)
  BY DEF Score
<1>2. BookOK(db) /\ BookOK(work) /\ LocksOK /\ Ahead(todo)
  BY <1>1 DEF PaperInv, LocksOK
<1>3. BookOK(work') /\ Moved(work, work', i)
  BY <1>1, <1>2, ScoredOK
<1>4. BookOK(db)' /\ BookOK(work)'
  BY <1>1, <1>2, <1>3 DEF BookOK, OneOpen, Covers
<1>5. /\ cycle' \in [Runners -> Cycles]
      /\ \A s \in Runners : cycle'[s].phase = cycle[s].phase
      /\ cycle'[r].todo = todo \ {i}
  BY <1>1, <1>2 DEF LocksOK, Cycles
<1>6. (\A p \in DOMAIN db.positions : ~IsOpen(db.positions[p])) => OpenOf(work, i) = {}
  BY <1>1, <1>2 DEF Ahead, OpenOf
<1>7. /\ DOMAIN db'.positions \subseteq DOMAIN work'.positions
      /\ \A p \in DOMAIN db'.positions :
           ~IsOpen(db'.positions[p]) => work'.positions[p] = db'.positions[p]
      /\ (\A p \in DOMAIN db'.positions : ~IsOpen(db'.positions[p])) =>
           work'.closings = db'.closings
  BY <1>1, <1>2, <1>3, <1>6 DEF Ahead, Moved
<1>8. ASSUME NEW p \in DOMAIN work'.positions \ DOMAIN db'.positions
      PROVE  IsOpen(work'.positions[p]) /\ work'.positions[p].inst \notin todo \ {i}
  <2>1. CASE p \in DOMAIN work.positions
    <3>1. IsOpen(work.positions[p]) /\ work.positions[p].inst \notin todo
      BY <1>1, <1>2, <2>1 DEF Ahead
    <3>2. work'.positions[p] = work.positions[p]
      BY <1>1, <1>3, <2>1, <3>1 DEF Moved
    <3> QED
      BY <3>1, <3>2
  <2>2. CASE p \notin DOMAIN work.positions
    BY <1>3, <2>2 DEF Moved
  <2> QED
    BY <2>1, <2>2
<1>9. Ahead(cycle[r].todo)'
  BY <1>5, <1>7, <1>8 DEF Ahead
<1>10. LocksOK'
  <2>1. \A s \in Runners : cycle'[s].phase = "locked" => s = r
    BY <1>1, <1>2, <1>5 DEF LocksOK
  <2>2. Locked'
    BY <1>1, <1>5 DEF Locked
  <2>3. \A s \in Runners : cycle'[s].phase = "locked" => Ahead(cycle[s].todo)'
    BY <2>1, <1>9
  <2> QED
    BY <1>5, <2>1, <2>2, <2>3 DEF LocksOK
<1> QED
  BY <1>4, <1>10 DEF PaperInv

\* When nobody has the lock, nothing is ahead.
LEMMA UnlockedOK ==
  ASSUME BookOK(db)', work' = db', cycle' \in [Runners -> Cycles], ~Locked'
  PROVE  PaperInv'
BY DEF PaperInv, LocksOK, Locked, BookOK, OneOpen, Covers

LEMMA PaperStepSound ==
  PaperInv /\ [Next]_vars => PaperInv'
<1> SUFFICES ASSUME PaperInv, [Next]_vars PROVE PaperInv'
  OBVIOUS
<1>0. BookOK(db) /\ BookOK(work) /\ LocksOK /\ cycle \in [Runners -> Cycles]
      /\ db.risk \in Risk /\ work.risk \in Risk /\ Idle \in Cycles /\ Idle.phase = "idle"
  BY RiskRow DEF PaperInv, LocksOK, BookOK, Book, Cycles, Idle
<1>1. ASSUME UNCHANGED <<db, work, cycle>> PROVE PaperInv'
  BY <1>1 DEF PaperInv, BookOK, OneOpen, Covers, LocksOK, Locked, Ahead
<1>2. ASSUME NEW r \in Runners, Begin(r) PROVE PaperInv'
  <2> DEFINE begun == [phase |-> "begun", todo |-> {}, saw |-> db.risk,
                       risk |-> Evaluated(db.risk, db)]
  <2>1. cycle' = [cycle EXCEPT ![r] = begun] /\ UNCHANGED <<db, work>> /\ cycle[r].phase = "idle"
    BY <1>2 DEF Begin
  <2>2. begun \in Cycles /\ begun.phase = "begun"
    BY <1>0, RiskRow DEF Cycles
  <2> HIDE DEF begun
  <2>3. cycle' \in [Runners -> Cycles]
        /\ \A s \in Runners : cycle'[s] = IF s = r THEN begun ELSE cycle[s]
    BY <1>0, <2>1, <2>2
  <2>4. \A s \in Runners : /\ cycle'[s].phase = "locked" <=> cycle[s].phase = "locked"
                           /\ cycle[s].phase = "locked" => cycle'[s].todo = cycle[s].todo
    BY <2>1, <2>2, <2>3
  <2>5. LocksOK'
    BY <1>0, <2>1, <2>3, <2>4 DEF LocksOK, Locked, Ahead
  <2> QED
    BY <1>0, <2>1, <2>5 DEF PaperInv, BookOK, OneOpen, Covers
<1>3. ASSUME NEW r \in Runners, Lock(r) PROVE PaperInv'
  <2> DEFINE risk == Written(db.risk, cycle[r].saw, cycle[r].risk)
  <2>1. risk \in Risk
    BY <1>0, RiskRow DEF Cycles
  <2>2. PICK b \in {[db EXCEPT !.risk = risk]}, todo \in SUBSET Instruments :
          /\ work' = b
          /\ IF todo = {}
             THEN db' = b /\ cycle' = [cycle EXCEPT ![r] = Idle]
             ELSE /\ UNCHANGED db
                  /\ cycle' = [cycle EXCEPT ![r] =
                       [@ EXCEPT !.phase = "locked", !.todo = todo, !.saw = Normal]]
    BY <1>3 DEF Lock
  <2> HIDE DEF risk
  <2>3. BookOK(b) /\ b.positions = db.positions /\ b.closings = db.closings
    <3>1. BookOK(db) /\ risk \in Risk /\ b \in {[db EXCEPT !.risk = risk]}
      BY <1>0, <2>1
    <3> QED
      BY <3>1, RiskWritten, Zenon
  <2>4. \A s \in Runners : cycle[s].phase # "locked"
    BY <1>3 DEF Lock, Locked
  <2>5. CASE todo = {}
    <3>1. work' = db' /\ BookOK(db)' /\ cycle' = [cycle EXCEPT ![r] = Idle]
      BY <2>2, <2>3, <2>5 DEF BookOK, OneOpen, Covers
    <3>2. cycle' \in [Runners -> Cycles] /\ ~Locked'
      BY <1>0, <2>4, <3>1 DEF Locked
    <3> QED
      BY <3>1, <3>2, UnlockedOK
  <2>6. CASE todo # {}
    <3> DEFINE locked == [cycle[r] EXCEPT !.phase = "locked", !.todo = todo, !.saw = Normal]
    <3>1. work' = b /\ db' = db /\ cycle' = [cycle EXCEPT ![r] = locked]
      BY <2>2, <2>6
    <3>2. locked \in Cycles /\ locked.phase = "locked"
      BY <1>0, RiskRow DEF Cycles
    <3> HIDE DEF locked
    <3>3. cycle' \in [Runners -> Cycles]
          /\ \A s \in Runners : cycle'[s] = IF s = r THEN locked ELSE cycle[s]
      BY <1>0, <3>1, <3>2
    <3>4. \A s \in Runners : cycle'[s].phase = "locked" <=> s = r
      BY <2>4, <3>2, <3>3
    <3>5. BookOK(db)' /\ BookOK(work)'
      BY <1>0, <2>3, <3>1 DEF BookOK, OneOpen, Covers
    <3>6. \A s \in Runners : Ahead(cycle[s].todo)'
      BY <2>3, <3>1 DEF Ahead
    <3>7. LocksOK'
      BY <3>3, <3>4, <3>6 DEF LocksOK, Locked
    <3> QED
      BY <3>5, <3>7 DEF PaperInv
  <2> QED
    BY <2>5, <2>6
<1>4. ASSUME NEW r \in Runners, NEW i \in Instruments, Score(r, i) PROVE PaperInv'
  BY <1>4, ScoreAhead
<1>5. ASSUME NEW r \in Runners, Commit(r) PROVE PaperInv'
  <2> DEFINE risk == Written(work.risk, cycle[r].risk, Evaluated(cycle[r].risk, work))
  <2>1. risk \in Risk
    BY <1>0, RiskRow DEF Cycles
  <2>2. PICK b \in {[work EXCEPT !.risk = risk]} : db' = b /\ work' = b
    BY <1>5 DEF Commit
  <2>3. cycle[r].phase = "locked" /\ cycle' = [cycle EXCEPT ![r] = Idle]
    BY <1>5 DEF Commit
  <2> HIDE DEF risk
  <2>4. BookOK(b)
    <3>1. BookOK(work) /\ risk \in Risk
      BY <1>0, <2>1
    <3> QED
      BY <3>1, RiskWritten, Zenon
  <2>5. BookOK(db)' /\ work' = db'
    BY <2>2, <2>4 DEF BookOK, OneOpen, Covers
  <2>6. cycle' \in [Runners -> Cycles] /\ ~Locked'
    BY <1>0, <2>3 DEF Locked, LocksOK
  <2> QED
    BY <2>5, <2>6, UnlockedOK
<1>6. ASSUME NEW r \in Runners, Fail(r) PROVE PaperInv'
  <2>1. /\ cycle' = [cycle EXCEPT ![r] = Idle] /\ UNCHANGED db
        /\ work' = IF cycle[r].phase = "locked" THEN db ELSE work
    BY <1>6 DEF Fail
  <2>2. cycle' \in [Runners -> Cycles]
        /\ \A s \in Runners : cycle'[s] = IF s = r THEN Idle ELSE cycle[s]
    BY <1>0, <2>1
  <2>3. CASE cycle[r].phase = "locked"
    <3>1. ~Locked'
      BY <1>0, <2>2, <2>3 DEF Locked, LocksOK
    <3>2. work' = db' /\ BookOK(db)'
      BY <1>0, <2>1, <2>3 DEF BookOK, OneOpen, Covers
    <3> QED
      BY <2>2, <3>1, <3>2, UnlockedOK
  <2>4. CASE cycle[r].phase # "locked"
    <3>1. UNCHANGED <<db, work>>
      BY <2>1, <2>4
    <3>2. \A s \in Runners : /\ cycle'[s].phase = "locked" <=> cycle[s].phase = "locked"
                             /\ cycle[s].phase = "locked" => cycle'[s].todo = cycle[s].todo
      BY <1>0, <2>2, <2>4
    <3>3. LocksOK'
      BY <1>0, <2>2, <3>1, <3>2 DEF LocksOK, Locked, Ahead
    <3> QED
      BY <1>0, <3>1, <3>3 DEF PaperInv, BookOK, OneOpen, Covers
  <2> QED
    BY <2>3, <2>4
<1>7. ASSUME NEW i \in Instruments, NewBar(i) PROVE PaperInv'
  <2>1. ~Locked /\ db' = Aged(db, i) /\ work' = db' /\ cycle' = cycle
    BY <1>7 DEF NewBar
  <2>2. BookOK(Aged(db, i))
    BY <1>0, AgedOK
  <2>3. BookOK(db)' /\ ~Locked'
    BY <2>1, <2>2 DEF BookOK, OneOpen, Covers, Locked
  <2> QED
    BY <1>0, <2>1, <2>3, UnlockedOK
<1>8. CASE RefreshMark
  BY <1>1, <1>8 DEF RefreshMark
<1>9. CASE Bell
  BY <1>1, <1>9 DEF Bell
<1>10. CASE UNCHANGED vars
  BY <1>1, <1>10 DEF vars
<1> QED
  BY <1>2, <1>3, <1>4, <1>5, <1>6, <1>7, <1>8, <1>9, <1>10 DEF Next, Work

THEOREM PaperSafe == Spec => []PaperInv
BY PaperInitSound, PaperStepSound, PTL DEF Spec

\* A symbol has one open position at most, however the supervisor's cycles and
\* the manual ones interleave (run_daily_shadow_cycle looks the position up
\* under the write lock).
THEOREM OneOpenPosition == Spec => []OneOpenPerSymbol
<1>1. PaperInv => OneOpenPerSymbol
  <2> SUFFICES ASSUME PaperInv, NEW i \in Instruments PROVE Cardinality(OpenOf(db, i)) <= 1
    BY DEF OneOpenPerSymbol
  <2>1. \A p, q \in OpenOf(db, i) : p = q
    BY DEF PaperInv, BookOK, OneOpen, OpenOf
  <2>2. CASE OpenOf(db, i) = {}
    BY <2>2, FS_EmptySet
  <2>3. CASE OpenOf(db, i) # {}
    <3>1. PICK p : OpenOf(db, i) = {p}
      BY <2>1, <2>3
    <3>2. Cardinality({p}) = 1
      BY FS_Singleton
    <3> QED
      BY <3>1, <3>2
  <2> QED
    BY <2>2, <2>3
<1> QED
  BY <1>1, PaperSafe, PTL

\* The entries of the cash ledger add up to the cash that is recomputed from the
\* positions, and the clamp of refresh_ledger_state hides no debt.
THEOREM CashIsCovered == Spec => []CashCovers
<1>1. PaperInv => CashCovers
  BY UncappedIsFlow DEF PaperInv, BookOK, Covers, CashCovers
<1> QED
  BY <1>1, PaperSafe, PTL

-----------------------------------------------------------------------------
(* A pause that no trade can lift *)

LEMMA ResumeSame ==
  ASSUME NEW b, NEW c, c.positions = b.positions, c.closings = b.closings
  PROVE  ShouldResume(c) <=> ShouldResume(b)
<1>1. Recent(c) = Recent(b)
  BY DEF Recent
<1>2. Wins(c) = Wins(b) /\ SumOfReturns(c) = SumOfReturns(b)
  BY <1>1 DEF Wins, SumOfReturns
<1> QED
  BY <1>1, <1>2 DEF ShouldResume

LEMMA StaysPaused ==
  /\ \A row \in Risk : \A b : row.paused /\ ~ShouldResume(b) => Evaluated(row, b).paused
  /\ \A row, old, new \in Risk : row.paused /\ new.paused => Written(row, old, new).paused
<1>1. ASSUME NEW row \in Risk, NEW b, row.paused, ~ShouldResume(b)
      PROVE  Evaluated(row, b).paused
  <2>1. Evaluated(row, b) =
          [paused |-> row.paused, status |-> IF row.paused THEN "PAUSED" ELSE "NORMAL"]
    BY <1>1 DEF Evaluated
  <2> QED
    BY <1>1, <2>1
<1>2. ASSUME NEW row \in Risk, NEW old \in Risk, NEW new \in Risk, row.paused, new.paused
      PROVE  Written(row, old, new).paused
  <2>1. "paused" \in DOMAIN row
    BY DEF Risk
  <2>2. Written(row, old, new).paused = IF new.paused # old.paused THEN new.paused ELSE row.paused
    BY <2>1 DEF Written
  <2> QED
    BY <1>2, <2>2
<1> QED
  BY <1>1, <1>2

AllClosed(b) == \A p \in DOMAIN b.positions : ~IsOpen(b.positions[p])

\* With nothing open, a transaction has nothing that is not committed but the
\* risk row.
LEMMA NothingAhead ==
  ASSUME PaperInv, AllClosed(db), AllClosed(work)
  PROVE  work.positions = db.positions /\ work.closings = db.closings
<1>1. CASE ~Locked
  BY <1>1 DEF PaperInv, LocksOK
<1>2. CASE Locked
  <2>1. PICK r \in Runners : Ahead(cycle[r].todo)
    BY <1>2 DEF Locked, PaperInv, LocksOK
  <2>2. DOMAIN work.positions = DOMAIN db.positions /\ work.closings = db.closings
        /\ \A p \in DOMAIN db.positions : work.positions[p] = db.positions[p]
    BY <2>1 DEF Ahead, AllClosed
  <2>3. /\ work.positions = [p \in DOMAIN work.positions |-> work.positions[p]]
        /\ db.positions = [p \in DOMAIN db.positions |-> db.positions[p]]
    <3>1. work.positions \in Seq(Position) /\ db.positions \in Seq(Position)
      BY BookPositions DEF PaperInv, BookOK
    <3> QED
      BY <3>1
  <2> QED
    BY <2>2, <2>3
<1> QED
  BY <1>1, <1>2

\* Scoring an instrument without a position, in a paused cycle, does nothing.
LEMMA PausedScore ==
  ASSUME NEW r, NEW b, AllClosed(b), cycle[r].risk.paused, NEW i, NEW c \in Scored(r, b, i)
  PROVE  c = b
<1>1. OpenOf(b, i) = {}
  BY DEF OpenOf, AllClosed
<1>2. AfterExits(b, i) = {b}
  BY <1>1 DEF AfterExits
<1>3. AfterEntry(r, b, i) = {b}
  BY DEF AfterEntry, MayEnter
<1>4. AfterRiskOff(b, i) = {b}
  BY <1>1 DEF AfterRiskOff
<1> QED
  BY <1>2, <1>3, <1>4 DEF Scored

LEMMA PauseKept ==
  PaperInv /\ [Next]_vars => (Stuck => Stuck')
<1> SUFFICES ASSUME PaperInv, [Next]_vars, Stuck PROVE Stuck'
  OBVIOUS
<1>0. /\ db.risk \in Risk /\ work.risk \in Risk /\ cycle \in [Runners -> Cycles]
      /\ BookOK(db) /\ BookOK(work)
      /\ \A r \in Runners : cycle[r].saw \in Risk /\ cycle[r].risk \in Risk
  BY DEF PaperInv, LocksOK, BookOK, Book, Cycles
<1>a. /\ db.risk.paused /\ work.risk.paused /\ AllClosed(db) /\ AllClosed(work)
      /\ ~ShouldResume(db) /\ \A r \in Runners : cycle[r].phase # "idle" => cycle[r].risk.paused
  BY DEF Stuck, AllClosed
<1>b. work.positions = db.positions /\ work.closings = db.closings /\ ~ShouldResume(work)
  BY <1>a, NothingAhead, ResumeSame
<1>c. ASSUME UNCHANGED <<db, work>>, \A r \in Runners : cycle'[r].phase # "idle" => cycle'[r].risk.paused
      PROVE  Stuck'
  <2>1. ~ShouldResume(db)'
    BY <1>a, <1>c, ResumeSame
  <2> QED
    BY <1>a, <1>c, <2>1 DEF Stuck, AllClosed
<1>f. ASSUME db'.positions = db.positions, db'.closings = db.closings, db'.risk.paused,
             work'.positions = db.positions, work'.risk.paused,
             \A r \in Runners : cycle'[r].phase # "idle" => cycle'[r].risk.paused
      PROVE  Stuck'
  <2>1. ~ShouldResume(db)'
    BY <1>a, <1>f, ResumeSame
  <2> QED
    BY <1>a, <1>f, <2>1 DEF Stuck, AllClosed
<1>d. \A r \in Runners : \A x : cycle' = [cycle EXCEPT ![r] = x] =>
        \A s \in Runners : cycle'[s] = IF s = r THEN x ELSE cycle[s]
  BY <1>0
<1>e. Idle.phase = "idle"
  BY DEF Idle
<1>2. ASSUME NEW r \in Runners, Begin(r) PROVE Stuck'
  <2> DEFINE risk == Evaluated(db.risk, db)
             begun == [phase |-> "begun", todo |-> {}, saw |-> db.risk, risk |-> risk]
  <2>1. risk.paused
    BY <1>0, <1>a, StaysPaused
  <2>2. cycle' = [cycle EXCEPT ![r] = begun] /\ UNCHANGED <<db, work>>
    BY <1>2 DEF Begin
  <2> HIDE DEF risk
  <2>3. begun.risk.paused
    BY <2>1
  <2> HIDE DEF begun
  <2>4. \A s \in Runners : cycle'[s].phase # "idle" => cycle'[s].risk.paused
    BY <1>a, <1>d, <2>2, <2>3
  <2> QED
    BY <1>c, <2>2, <2>4
<1>3. ASSUME NEW r \in Runners, Lock(r) PROVE Stuck'
  <2> DEFINE risk == Written(db.risk, cycle[r].saw, cycle[r].risk)
  <2>1. cycle[r].phase = "begun"
    BY <1>3 DEF Lock
  <2>2. risk \in Risk /\ risk.paused
    BY <1>0, <1>a, <2>1, RiskRow, StaysPaused
  <2>3. PICK b \in {[db EXCEPT !.risk = risk]}, todo \in SUBSET Instruments :
          /\ work' = b
          /\ IF todo = {}
             THEN db' = b /\ cycle' = [cycle EXCEPT ![r] = Idle]
             ELSE /\ UNCHANGED db
                  /\ cycle' = [cycle EXCEPT ![r] =
                       [@ EXCEPT !.phase = "locked", !.todo = todo, !.saw = Normal]]
    BY <1>3 DEF Lock
  <2> HIDE DEF risk
  <2>4. b.positions = db.positions /\ b.closings = db.closings /\ b.risk = risk
    <3>1. BookOK(db) /\ risk \in Risk /\ b \in {[db EXCEPT !.risk = risk]}
      BY <1>0, <2>2
    <3> QED
      BY <3>1, RiskWritten, Zenon
  <2>5. db'.positions = db.positions /\ db'.closings = db.closings /\ db'.risk.paused
    BY <1>a, <2>2, <2>3, <2>4
  <2>6. \A s \in Runners : cycle'[s].phase # "idle" => cycle'[s].risk.paused
    <3> DEFINE locked == [cycle[r] EXCEPT !.phase = "locked", !.todo = todo, !.saw = Normal]
    <3>1. cycle' = [cycle EXCEPT ![r] = Idle] \/ cycle' = [cycle EXCEPT ![r] = locked]
      BY <2>3
    <3>2. locked.risk.paused
      BY <1>0, <1>a, <2>1
    <3> HIDE DEF locked
    <3> QED
      BY <1>a, <1>d, <1>e, <3>1, <3>2
  <2> QED
    BY <1>f, <2>2, <2>3, <2>4, <2>5, <2>6
<1>4. ASSUME NEW r \in Runners, NEW i \in Instruments, Score(r, i) PROVE Stuck'
  <2>1. /\ cycle[r].phase = "locked" /\ UNCHANGED db /\ work' \in Scored(r, work, i)
        /\ cycle' = [cycle EXCEPT ![r].todo = @ \ {i}]
    BY <1>4 DEF Score
  <2>2. work' = work
    <3>1. cycle[r].risk.paused
      BY <1>a, <2>1
    <3> QED
      BY <1>a, <2>1, <3>1, PausedScore
  <2>3. \A s \in Runners : cycle'[s].phase = cycle[s].phase /\ cycle'[s].risk = cycle[s].risk
    BY <1>0, <2>1 DEF Cycles
  <2> QED
    BY <1>a, <1>c, <2>1, <2>2, <2>3
<1>5. ASSUME NEW r \in Runners, Commit(r) PROVE Stuck'
  <2> DEFINE new == Evaluated(cycle[r].risk, work)
             risk == Written(work.risk, cycle[r].risk, new)
  <2>1. cycle[r].phase = "locked" /\ cycle' = [cycle EXCEPT ![r] = Idle]
    BY <1>5 DEF Commit
  <2>2. PICK b \in {[work EXCEPT !.risk = risk]} : db' = b /\ work' = b
    BY <1>5 DEF Commit
  <2>3. new \in Risk /\ new.paused
    BY <1>0, <1>a, <1>b, <2>1, RiskRow, StaysPaused
  <2> HIDE DEF new
  <2>4. risk \in Risk /\ risk.paused
    BY <1>0, <1>a, <2>3, RiskRow, StaysPaused
  <2> HIDE DEF risk
  <2>5. b.positions = work.positions /\ b.closings = work.closings /\ b.risk = risk
    <3>1. BookOK(work) /\ risk \in Risk
      BY <1>0, <2>4
    <3> QED
      BY <3>1, RiskWritten, Zenon
  <2>6. \A s \in Runners : cycle'[s].phase # "idle" => cycle'[s].risk.paused
    BY <1>a, <1>d, <1>e, <2>1
  <2> QED
    BY <1>b, <1>f, <2>2, <2>4, <2>5, <2>6
<1>6. ASSUME NEW r \in Runners, Fail(r) PROVE Stuck'
  <2>1. /\ cycle' = [cycle EXCEPT ![r] = Idle] /\ UNCHANGED db
        /\ work' = db \/ work' = work
    BY <1>6 DEF Fail
  <2>2. \A s \in Runners : cycle'[s].phase # "idle" => cycle'[s].risk.paused
    BY <1>a, <1>d, <1>e, <2>1
  <2>3. work'.positions = db.positions /\ work'.risk.paused
    BY <1>a, <1>b, <2>1
  <2> QED
    BY <1>a, <1>f, <2>1, <2>2, <2>3
<1>7. ASSUME NEW i \in Instruments, NewBar(i) PROVE Stuck'
  <2>1. db' = Aged(db, i) /\ work' = db' /\ cycle' = cycle
    BY <1>7 DEF NewBar
  <2>2. /\ Aged(db, i).risk = db.risk /\ Aged(db, i).closings = db.closings
        /\ DOMAIN Aged(db, i).positions = DOMAIN db.positions
        /\ \A p \in DOMAIN db.positions : Aged(db, i).positions[p] = db.positions[p]
        /\ Aged(db, i).positions \in Seq(Position) /\ db.positions \in Seq(Position)
    BY <1>0, <1>a, AgedOK, BookPositions DEF AllClosed, BookOK
  <2>3. Aged(db, i).positions = db.positions
    <3> DEFINE s == Aged(db, i).positions
               t == db.positions
    <3>1. s \in Seq(Position) /\ t \in Seq(Position) /\ DOMAIN s = DOMAIN t
          /\ \A p \in DOMAIN t : s[p] = t[p]
      BY <2>2
    <3> HIDE DEF s, t
    <3>2. s = [p \in DOMAIN s |-> s[p]] /\ t = [p \in DOMAIN t |-> t[p]]
      BY <3>1
    <3>3. s = t
      BY <3>1, <3>2
    <3> QED
      BY <3>3 DEF s, t
  <2> QED
    BY <1>a, <1>f, <2>1, <2>2, <2>3
<1>8. CASE RefreshMark
  BY <1>a, <1>c, <1>8 DEF RefreshMark
<1>9. CASE Bell
  BY <1>a, <1>c, <1>9 DEF Bell
<1>10. CASE UNCHANGED vars
  BY <1>a, <1>c, <1>10 DEF vars
<1> QED
  BY <1>2, <1>3, <1>4, <1>5, <1>6, <1>7, <1>8, <1>9, <1>10 DEF Next, Work

\* While nothing is open, a pause of the entries lasts for ever: only closed
\* trades lift it (evaluate_recent_performance), and none can be opened.
THEOREM PauseIsFinal == Spec => PauseWithoutTradesIsFinal
<1>1. PaperInv /\ [Next]_vars => [Stuck => Stuck']_vars
  BY PauseKept
<1> QED
  BY <1>1, PaperSafe, PTL DEF Spec, PauseWithoutTradesIsFinal
=============================================================================
