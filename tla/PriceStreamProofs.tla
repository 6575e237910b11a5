------------------------- MODULE PriceStreamProofs -------------------------
(***************************************************************************)
(* Proofs about PriceStream, for any symbols, any limit and any number of  *)
(* messages under way: what the poller leaves out is streamed or on its    *)
(* way, and the provider is never asked for more streams than the plan     *)
(* allows.                                                                 *)
(***************************************************************************)
EXTENDS PriceStream, SequenceTheorems, FiniteSetTheorems, TLAPS

-----------------------------------------------------------------------------
(* The invariant *)

Messages == [type : {"subscribe", "unsubscribe", "status"}, yes : SUBSET Symbols, no : SUBSET Symbols]
Connected == task.phase \in {"due", "subscribe", "receive"}

TypeInv ==
  /\ task \in [phase : {"start", "connect", "due", "subscribe", "receive", "ended"},
               current : SUBSET Symbols, wanted : SUBSET Symbols]
  /\ active \subseteq Symbols /\ meta \subseteq Symbols /\ streamed \subseteq Symbols
  /\ requests \in Seq(Messages) /\ answers \in Seq(Messages)

\* Without a connection nothing is streamed, asked for or answered.
DownIsSilent ==
  ~Connected => ids = {} /\ streamed = {} /\ requests = << >> /\ answers = << >>

\* What the task counts as streamed is what it asked for, but for rejections;
\* these are cooling down.
Bookkeeping ==
  /\ ids = active \cap meta \cap Securities
  /\ ids \subseteq task.current
  /\ ids \cap fresh = {}
  /\ fresh \subseteq cooling
  /\ At("subscribe") => fresh = {}

\* The last word in the answers about s is a rejection.
LastRefused(s) ==
  \E n \in 1 .. Len(answers) :
    s \in answers[n].no /\ \A m \in n + 1 .. Len(answers) : s \notin answers[m].yes

\* The rejection of s has been read, and nothing under way says otherwise.
KnownRefused(s) == s \in fresh /\ \A m \in 1 .. Len(answers) : s \notin answers[m].yes

\* What is given up again on the way has been asked for after that.
AskedAgain(s) ==
  \A n \in 1 .. Len(requests) :
    requests[n].type = "unsubscribe" /\ s \in requests[n].yes =>
      \E m \in n + 1 .. Len(requests) : requests[m].type = "subscribe" /\ s \in requests[m].yes

\* Each symbol of the task that it is not about to drop is streamed, asked for
\* or rejected.
EachOnItsWay ==
  Connected =>
    \A s \in task.current : ~Dropped(s) =>
      /\ AskedAgain(s)
      /\ s \in streamed \/ Asked(s) \/ LastRefused(s) \/ KnownRefused(s)

\* What the provider would stream if it granted every request under way.
Granted ==
  CASE At("subscribe") -> task.current \cap task.wanted
    [] task.phase \in {"due", "receive"} -> task.current
    [] OTHER -> {}

Effect(S, m) == IF m.type = "unsubscribe" THEN S \ m.yes ELSE S \cup m.yes

\* B[n] bounds what is streamed after n more requests of q: S at first, G at last.
Bounds(B, q, S, G) ==
  /\ \A n \in 0 .. Len(q) : Cardinality(B[n]) <= MaxStreams
  /\ S \subseteq B[0]
  /\ \A n \in 1 .. Len(q) : Effect(B[n - 1], q[n]) \subseteq B[n]
  /\ B[Len(q)] = G

Path(q, S, G) == \E B \in [0 .. Len(q) -> SUBSET Symbols] : Bounds(B, q, S, G)

\* Each state the provider passes through on the way to Granted is within the limit.
PathWithinLimit ==
  /\ At("subscribe") => Cardinality(task.wanted) <= MaxStreams
  /\ Path(requests, streamed, Granted)

StreamInv == TypeInv /\ DownIsSilent /\ Bookkeeping /\ EachOnItsWay /\ PathWithinLimit

-----------------------------------------------------------------------------
(* Types, and the bookkeeping of the task *)

\* A request that is sent is appended, unless it asks for nothing.
LEMMA SendAppends ==
  ASSUME NEW m \in Messages, requests \in Seq(Messages), Send(m)
  PROVE  /\ requests' \in Seq(Messages)
         /\ m.yes = {} => requests' = requests
         /\ m.yes # {} => /\ Len(requests') = Len(requests) + 1
                          /\ \A n \in 1 .. Len(requests) : requests'[n] = requests[n]
                          /\ requests'[Len(requests) + 1] = m
BY DEF Send

\* A message that is taken moves the others to the front.
LEMMA TailShifts ==
  ASSUME NEW q \in Seq(Messages), q # << >>
  PROVE  /\ Head(q) = q[1] /\ Head(q) \in Messages
         /\ Tail(q) \in Seq(Messages) /\ Len(Tail(q)) = Len(q) - 1
         /\ \A n \in 1 .. Len(q) - 1 : Tail(q)[n] = q[n + 1]
OBVIOUS

\* The provider's answer to a subscribe request.
LEMMA ProviderAnswers ==
  ASSUME TypeInv, Provide, Head(requests).type # "unsubscribe"
  PROVE  \E yes \in SUBSET Head(requests).yes :
           /\ streamed' = streamed \cup yes /\ streamed' \subseteq Symbols
           /\ Message("status", yes, Head(requests).yes \ yes) \in Messages
           /\ answers' = Append(answers, Message("status", yes, Head(requests).yes \ yes))
           /\ answers' \in Seq(Messages)
<1>1. PICK yes \in SUBSET Head(requests).yes :
        /\ streamed' = streamed \cup yes
        /\ answers' = Append(answers, Message("status", yes, Head(requests).yes \ yes))
  BY DEF Provide
<1>2. Head(requests).yes \subseteq Symbols
  BY TailShifts DEF Provide, TypeInv, Messages
<1>3. Message("status", yes, Head(requests).yes \ yes) \in Messages
  BY <1>2 DEF Message, Messages
<1>4. answers' \in Seq(Messages) /\ streamed' \subseteq Symbols
  BY <1>1, <1>2, <1>3 DEF TypeInv
<1> QED
  BY <1>1, <1>3, <1>4

LEMMA TypeStep ==
  ASSUME TypeInv, [Next]_vars
  PROVE  TypeInv'
<1> USE DEF TypeInv
<1>1. CASE UNCHANGED vars
  BY <1>1 DEF vars
<1>2. CASE Start
  BY <1>2 DEF Start, Go, cache, wire
<1>3. CASE Connect
  BY <1>3 DEF Connect, cache, wire
<1>4. CASE Rebalance
  <2>1. PICK C \in Candidates : /\ task' = [task EXCEPT !.phase = "subscribe", !.wanted = C]
                                /\ Send(Steps(task.current, C)[1])
    BY <1>4 DEF Rebalance
  <2>2. Steps(task.current, C)[1] \in Messages /\ C \in SUBSET Symbols
    BY DEF Steps, Message, Messages, Candidates
  <2>3. requests' \in Seq(Messages)
    BY <2>1, <2>2, SendAppends
  <2> QED
    BY <1>4, <2>1, <2>2, <2>3 DEF Rebalance
<1>5. CASE Subscribe
  <2>1. Steps(task.current, task.wanted)[2] \in Messages
    BY DEF Steps, Message, Messages
  <2>2. requests' \in Seq(Messages)
    BY <1>5, <2>1, SendAppends DEF Subscribe
  <2> QED
    BY <1>5, <2>2 DEF Subscribe, cache
<1>6. CASE Due
  BY <1>6 DEF Due, Go, cache, wire
<1>7. CASE Receive
  BY <1>7, TailShifts DEF Receive, Status
<1>8. CASE Reconnect
  BY <1>8 DEF Reconnect, Go, Disconnect, cache
<1>9. CASE Provide
  <2>1. Head(requests) \in Messages /\ requests' \in Seq(Messages)
    BY <1>9, TailShifts DEF Provide
  <2>2. CASE Head(requests).type = "unsubscribe"
    BY <1>9, <2>1, <2>2 DEF Provide, cache
  <2>3. CASE Head(requests).type # "unsubscribe"
    BY <1>9, <2>1, <2>3, ProviderAnswers DEF cache, Provide
  <2> QED
    BY <2>2, <2>3
<1>10. CASE LockOrUnlock
  BY <1>10 DEF LockOrUnlock, cache, wire
<1>11. ASSUME NEW s \in Symbols, CoolDown(s) PROVE TypeInv'
  BY <1>11 DEF CoolDown, wire
<1> QED
  BY <1>1, <1>2, <1>3, <1>4, <1>5, <1>6, <1>7, <1>8, <1>9, <1>10, <1>11 DEF Next

LEMMA BookStep ==
  ASSUME TypeInv, DownIsSilent, Bookkeeping, [Next]_vars
  PROVE  DownIsSilent' /\ Bookkeeping'
<1> USE DEF TypeInv, DownIsSilent, Bookkeeping, Connected, At
<1>1. CASE UNCHANGED vars
  BY <1>1 DEF vars
<1>2. CASE Start
  BY <1>2 DEF Start, Go, cache, wire
<1>3. CASE Connect
  BY <1>3 DEF Connect, cache, wire
<1>4. CASE Rebalance
  BY <1>4 DEF Rebalance
<1>5. CASE Subscribe
  BY <1>5 DEF Subscribe, cache
<1>6. CASE Due
  BY <1>6 DEF Due, Go, cache, wire
<1>7. CASE Receive
  BY <1>7 DEF Receive, Status
<1>8. CASE Reconnect
  BY <1>8 DEF Reconnect, Go, Disconnect, cache
<1>9. CASE Provide
  BY <1>9 DEF Provide, cache
<1>10. CASE LockOrUnlock
  BY <1>10 DEF LockOrUnlock, cache, wire
<1>11. ASSUME NEW s \in Symbols, CoolDown(s) PROVE DownIsSilent' /\ Bookkeeping'
  BY <1>11 DEF CoolDown, wire
<1> QED
  BY <1>1, <1>2, <1>3, <1>4, <1>5, <1>6, <1>7, <1>8, <1>9, <1>10, <1>11 DEF Next

-----------------------------------------------------------------------------
(* Everything counted as streamed is on its way *)

\* A request sent last undoes only what it names.
LEMMA SendingKeepsTheWay ==
  ASSUME TypeInv, NEW m \in Messages, Send(m), NEW s
  PROVE  /\ Asked(s) => Asked(s)'
         /\ AskedAgain(s) /\ ~(m.type = "unsubscribe" /\ s \in m.yes) => AskedAgain(s)'
         /\ m.type = "subscribe" /\ s \in m.yes => Asked(s)' /\ AskedAgain(s)'
<1>1. requests \in Seq(Messages) /\ requests' \in Seq(Messages)
  BY SendAppends DEF TypeInv
<1>2. CASE m.yes = {}
  BY <1>2, SendAppends DEF TypeInv, Asked, AskedAgain
<1>3. CASE m.yes # {}
  <2>1. /\ Len(requests) \in Nat /\ Len(requests') = Len(requests) + 1
        /\ \A n \in 1 .. Len(requests) : requests'[n] = requests[n]
        /\ requests'[Len(requests) + 1] = m
    BY <1>1, <1>3, SendAppends
  <2>2. Asked(s) => Asked(s)'
    BY <2>1 DEF Asked
  <2>3. ASSUME AskedAgain(s), ~(m.type = "unsubscribe" /\ s \in m.yes)
        PROVE  AskedAgain(s)'
    <3>1. ASSUME NEW n \in 1 .. Len(requests'),
                 requests'[n].type = "unsubscribe", s \in requests'[n].yes
          PROVE  \E k \in n + 1 .. Len(requests') :
                   requests'[k].type = "subscribe" /\ s \in requests'[k].yes
      <4>1. n \in 1 .. Len(requests) /\ requests'[n] = requests[n]
        BY <2>1, <2>3, <3>1
      <4>2. PICK k \in n + 1 .. Len(requests) : requests[k].type = "subscribe" /\ s \in requests[k].yes
        BY <2>3, <3>1, <4>1 DEF AskedAgain
      <4>3. k \in n + 1 .. Len(requests') /\ requests'[k] = requests[k]
        BY <2>1, <4>1, <4>2
      <4> QED
        BY <4>2, <4>3
    <3> QED
      BY <3>1 DEF AskedAgain
  <2>4. ASSUME m.type = "subscribe", s \in m.yes
        PROVE  Asked(s)' /\ AskedAgain(s)'
    <3>1. Len(requests') \in 1 .. Len(requests') /\ requests'[Len(requests')] = m
      BY <2>1
    <3>2. \A n \in 1 .. Len(requests') : n # Len(requests') => Len(requests') \in n + 1 .. Len(requests')
      BY <2>1
    <3> QED
      BY <2>4, <3>1, <3>2 DEF Asked, AskedAgain
  <2> QED
    BY <2>2, <2>3, <2>4
<1> QED
  BY <1>2, <1>3

\* A request that is taken is granted, refused or made up for by a later one.
LEMMA TakingKeepsTheWay ==
  ASSUME TypeInv, requests # << >>, requests' = Tail(requests), NEW s
  PROVE  /\ AskedAgain(s) => AskedAgain(s)'
         /\ AskedAgain(s) /\ Head(requests).type = "unsubscribe" /\ s \in Head(requests).yes => Asked(s)'
         /\ Asked(s) => \/ Asked(s)'
                        \/ Head(requests).type = "subscribe" /\ s \in Head(requests).yes
<1>1. /\ Len(requests) \in Nat \ {0} /\ Len(requests') = Len(requests) - 1
      /\ Head(requests) = requests[1]
      /\ \A n \in 1 .. Len(requests) - 1 : requests'[n] = requests[n + 1]
  BY TailShifts DEF TypeInv
<1>2. \A n \in 2 .. Len(requests) : n - 1 \in 1 .. Len(requests') /\ requests'[n - 1] = requests[n]
  BY <1>1
<1>3. ASSUME AskedAgain(s), NEW n \in 1 .. Len(requests'),
             requests'[n].type = "unsubscribe", s \in requests'[n].yes
      PROVE  \E k \in n + 1 .. Len(requests') :
               requests'[k].type = "subscribe" /\ s \in requests'[k].yes
  <2>1. n + 1 \in 1 .. Len(requests) /\ requests'[n] = requests[n + 1]
    BY <1>1
  <2>2. PICK k \in (n + 1) + 1 .. Len(requests) : requests[k].type = "subscribe" /\ s \in requests[k].yes
    BY <1>3, <2>1 DEF AskedAgain
  <2>3. k - 1 \in n + 1 .. Len(requests') /\ requests'[k - 1] = requests[k]
    BY <1>1, <1>2, <2>2
  <2> QED
    BY <2>2, <2>3
<1>4. ASSUME AskedAgain(s), Head(requests).type = "unsubscribe", s \in Head(requests).yes
      PROVE  Asked(s)'
  <2>1. PICK k \in 1 + 1 .. Len(requests) : requests[k].type = "subscribe" /\ s \in requests[k].yes
    BY <1>1, <1>4 DEF AskedAgain
  <2> QED
    BY <1>2, <2>1 DEF Asked
<1>5. ASSUME Asked(s), ~(Head(requests).type = "subscribe" /\ s \in Head(requests).yes)
      PROVE  Asked(s)'
  <2>1. PICK k \in 1 .. Len(requests) : requests[k].type = "subscribe" /\ s \in requests[k].yes
    BY <1>5 DEF Asked
  <2>2. k \in 2 .. Len(requests)
    BY <1>1, <1>5, <2>1
  <2> QED
    BY <1>2, <2>1, <2>2 DEF Asked
<1> QED
  BY <1>3, <1>4, <1>5 DEF AskedAgain

\* A rejection that is read is known, unless a later answer will be read.
LEMMA ReadingKeepsTheWay ==
  ASSUME TypeInv, Receive, NEW s
  PROVE  /\ LastRefused(s) => LastRefused(s)' \/ KnownRefused(s)'
         /\ KnownRefused(s) => KnownRefused(s)'
<1>1. /\ Len(answers) \in Nat \ {0} /\ Len(answers') = Len(answers) - 1
      /\ Head(answers) = answers[1]
      /\ \A n \in 1 .. Len(answers) - 1 : answers'[n] = answers[n + 1]
  BY TailShifts DEF Receive, TypeInv
<1>2. fresh' = (fresh \ answers[1].yes) \cup answers[1].no
  BY <1>1 DEF Receive, Status
<1>3. \A n \in 1 .. Len(answers') : n + 1 \in 1 .. Len(answers) /\ answers'[n] = answers[n + 1]
  BY <1>1
<1>4. ASSUME LastRefused(s)
      PROVE  LastRefused(s)' \/ KnownRefused(s)'
  <2>1. PICK n \in 1 .. Len(answers) :
          s \in answers[n].no /\ \A m \in n + 1 .. Len(answers) : s \notin answers[m].yes
    BY <1>4 DEF LastRefused
  <2>2. \A m \in 1 .. Len(answers') : m >= n => s \notin answers'[m].yes
    BY <1>1, <1>3, <2>1
  <2>3. CASE n = 1
    <3>1. s \in fresh'
      BY <1>2, <2>1, <2>3
    <3> QED
      BY <2>2, <2>3, <3>1 DEF KnownRefused
  <2>4. CASE n # 1
    <3>1. n - 1 \in 1 .. Len(answers') /\ answers'[n - 1] = answers[n]
      BY <1>1, <2>1, <2>4
    <3>2. \A m \in (n - 1) + 1 .. Len(answers') : s \notin answers'[m].yes
      BY <2>1, <2>2
    <3> QED
      BY <2>1, <3>1, <3>2 DEF LastRefused
  <2> QED
    BY <2>3, <2>4
<1>5. ASSUME KnownRefused(s)
      PROVE  KnownRefused(s)'
  <2>1. s \in fresh'
    BY <1>1, <1>2, <1>5 DEF KnownRefused
  <2> QED
    BY <1>1, <1>3, <1>5, <2>1 DEF KnownRefused
<1> QED
  BY <1>4, <1>5

\* The provider takes a request: what it asks for is streamed or refused, and
\* other symbols stay as they are.
LEMMA ProvidingKeepsTheWay ==
  ASSUME TypeInv, Provide, NEW s, AskedAgain(s),
         s \in streamed \/ Asked(s) \/ LastRefused(s) \/ KnownRefused(s)
  PROVE  (s \in streamed \/ Asked(s) \/ LastRefused(s) \/ KnownRefused(s))'
<1>1. requests # << >> /\ requests' = Tail(requests) /\ fresh' = fresh
  BY DEF Provide, cache
<1>2. CASE Head(requests).type = "unsubscribe"
  <2>1. streamed' = streamed \ Head(requests).yes /\ answers' = answers
    BY <1>2 DEF Provide
  <2>2. LastRefused(s) => LastRefused(s)'
    BY <2>1 DEF LastRefused
  <2>3. KnownRefused(s) => KnownRefused(s)'
    BY <1>1, <2>1 DEF KnownRefused
  <2> QED
    BY <1>1, <1>2, <2>1, <2>2, <2>3, TakingKeepsTheWay
<1>3. CASE Head(requests).type # "unsubscribe"
  <2>1. PICK yes \in SUBSET Head(requests).yes :
          /\ streamed' = streamed \cup yes
          /\ answers' = Append(answers, Message("status", yes, Head(requests).yes \ yes))
          /\ answers' \in Seq(Messages)
    BY <1>3, ProviderAnswers
  <2>2. /\ Len(answers) \in Nat /\ Len(answers') = Len(answers) + 1
        /\ \A n \in 1 .. Len(answers) : answers'[n] = answers[n]
        /\ answers'[Len(answers')].yes = yes
        /\ answers'[Len(answers')].no = Head(requests).yes \ yes
    BY <2>1 DEF TypeInv, Message
  <2>3. CASE s \in Head(requests).yes
    <3>1. s \in Head(requests).yes \ yes => LastRefused(s)'
      BY <2>2 DEF LastRefused
    <3> QED
      BY <2>1, <2>3, <3>1
  <2>4. CASE s \notin Head(requests).yes
    <3>1. \A n \in 1 .. Len(answers') : n \in 1 .. Len(answers) \/ s \notin answers'[n].yes
      BY <2>1, <2>2, <2>4
    <3>2. KnownRefused(s) => KnownRefused(s)'
      BY <1>1, <2>2, <3>1 DEF KnownRefused
    <3>3. LastRefused(s) => LastRefused(s)'
      <4>1. ASSUME NEW n \in 1 .. Len(answers), s \in answers[n].no,
                   \A m \in n + 1 .. Len(answers) : s \notin answers[m].yes
            PROVE  LastRefused(s)'
        <5>1. n \in 1 .. Len(answers') /\ answers'[n] = answers[n]
          BY <2>2
        <5>2. \A m \in n + 1 .. Len(answers') : s \notin answers'[m].yes
          BY <2>2, <3>1, <4>1
        <5> QED
          BY <4>1, <5>1, <5>2 DEF LastRefused
      <4> QED
        BY <4>1 DEF LastRefused
    <3> QED
      BY <1>1, <2>1, <2>4, <3>2, <3>3, TakingKeepsTheWay
  <2> QED
    BY <2>3, <2>4
<1> QED
  BY <1>2, <1>3

LEMMA WayStep ==
  ASSUME TypeInv, DownIsSilent, Bookkeeping, EachOnItsWay, [Next]_vars
  PROVE  EachOnItsWay'
<1> DEFINE OnItsWay(s) ==
      AskedAgain(s) /\ (s \in streamed \/ Asked(s) \/ LastRefused(s) \/ KnownRefused(s))
<1> SUFFICES ASSUME Connected', NEW s \in task'.current, ~Dropped(s)'
             PROVE  OnItsWay(s)'
  BY DEF EachOnItsWay
<1>a. Connected /\ s \in task.current /\ ~Dropped(s) => OnItsWay(s)
  BY DEF EachOnItsWay
<1>b. ASSUME UNCHANGED <<task, wire, fresh>>
      PROVE  OnItsWay(s)'
  <2>1. Connected /\ s \in task.current /\ ~Dropped(s)
    BY <1>b DEF Connected, Dropped, At
  <2>2. OnItsWay(s)' = OnItsWay(s)
    BY <1>b DEF wire, AskedAgain, Asked, LastRefused, KnownRefused
  <2> QED
    BY <1>a, <2>1, <2>2
<1>1. CASE UNCHANGED vars
  BY <1>1, <1>b DEF vars, wire
<1>2. CASE Start
  BY <1>2 DEF Start, Go, At, Connected, TypeInv
<1>3. CASE Connect
  BY <1>3 DEF Connect
<1>4. CASE Rebalance
  <2>1. PICK C \in Candidates : /\ task' = [task EXCEPT !.phase = "subscribe", !.wanted = C]
                                /\ Send(Steps(task.current, C)[1])
    BY <1>4 DEF Rebalance
  <2> DEFINE m == Steps(task.current, C)[1]
  <2>2. m \in Messages /\ m.type = "unsubscribe" /\ m.yes = task.current \ C
    BY DEF Steps, Message, Messages, Candidates, TypeInv
  <2>3. s \in C /\ s \in task.current /\ At("due")
    BY <1>4, <2>1 DEF Rebalance, Dropped, At, TypeInv
  <2>4. s \notin fresh
    BY <2>3 DEF Candidates, Bookkeeping
  <2>5. OnItsWay(s) /\ ~KnownRefused(s)
    BY <1>a, <2>3, <2>4 DEF Connected, Dropped, At, KnownRefused
  <2>6. (Asked(s) => Asked(s)') /\ AskedAgain(s)'
    BY <2>1, <2>2, <2>3, <2>5, SendingKeepsTheWay
  <2>7. streamed' = streamed /\ (LastRefused(s) => LastRefused(s)')
    BY <1>4 DEF Rebalance, LastRefused
  <2> QED
    BY <2>5, <2>6, <2>7
<1>5. CASE Subscribe
  <2> DEFINE m == Steps(task.current, task.wanted)[2]
  <2>1. m \in Messages /\ m.type = "subscribe" /\ m.yes = task.wanted \ task.current /\ Send(m)
    BY <1>5 DEF Steps, Message, Messages, TypeInv, Subscribe
  <2>2. s \in task.wanted /\ At("subscribe") /\ UNCHANGED <<answers, streamed, fresh>>
    BY <1>5 DEF Subscribe, cache
  <2>3. CASE s \in task.current
    <3>1. OnItsWay(s) /\ ~KnownRefused(s)
      BY <1>a, <2>2, <2>3 DEF Connected, Dropped, At, KnownRefused, Bookkeeping
    <3>2. (Asked(s) => Asked(s)') /\ AskedAgain(s)'
      BY <2>1, <3>1, SendingKeepsTheWay
    <3> QED
      BY <2>2, <3>1, <3>2 DEF LastRefused
  <2>4. CASE s \notin task.current
    BY <2>1, <2>2, <2>4, SendingKeepsTheWay
  <2> QED
    BY <2>3, <2>4
<1>6. CASE Due
  <2>1. Connected /\ s \in task.current /\ ~Dropped(s)
    BY <1>6 DEF Due, Go, At, Connected, Dropped, TypeInv
  <2>2. OnItsWay(s)' = OnItsWay(s)
    BY <1>6 DEF Due, wire, cache, AskedAgain, Asked, LastRefused, KnownRefused
  <2> QED
    BY <1>a, <2>1, <2>2
<1>7. CASE Receive
  <2>1. OnItsWay(s)
    BY <1>7, <1>a DEF Receive, At, Connected, Dropped
  <2>2. requests' = requests /\ streamed' = streamed
    BY <1>7 DEF Receive
  <2>3. AskedAgain(s)' = AskedAgain(s) /\ Asked(s)' = Asked(s)
    BY <2>2 DEF AskedAgain, Asked
  <2> QED
    BY <1>7, <2>1, <2>2, <2>3, ReadingKeepsTheWay
<1>8. CASE Reconnect
  BY <1>8 DEF Reconnect, Go, Connected, TypeInv
<1>9. CASE Provide
  <2>1. OnItsWay(s) /\ requests # << >> /\ requests' = Tail(requests)
    BY <1>9, <1>a DEF Provide, Connected, Dropped, At
  <2> QED
    BY <1>9, <2>1, TakingKeepsTheWay, ProvidingKeepsTheWay
<1>10. CASE LockOrUnlock
  BY <1>10, <1>b DEF LockOrUnlock, cache
<1>11. ASSUME NEW x \in Symbols, CoolDown(x) PROVE OnItsWay(s)'
  BY <1>11, <1>b DEF CoolDown
<1> QED
  BY <1>1, <1>2, <1>3, <1>4, <1>5, <1>6, <1>7, <1>8, <1>9, <1>10, <1>11 DEF Next

-----------------------------------------------------------------------------
(* The limit holds all along the requests under way *)

\* A request at the end leads from what is granted before it to its effect.
LEMMA PathExtends ==
  ASSUME NEW q \in Seq(Messages), NEW m \in Messages, NEW S, NEW G, NEW H \in SUBSET Symbols,
         Path(q, S, G), H = Effect(G, m), Cardinality(H) <= MaxStreams
  PROVE  Path(Append(q, m), S, H)
<1> DEFINE r == Append(q, m)
<1>1. PICK B \in [0 .. Len(q) -> SUBSET Symbols] : Bounds(B, q, S, G)
  BY DEF Path
<1>2. /\ Len(q) \in Nat /\ Len(r) = Len(q) + 1
      /\ \A n \in 1 .. Len(q) : r[n] = q[n]
      /\ r[Len(r)] = m
  OBVIOUS
<1> DEFINE D == [n \in 0 .. Len(r) |-> IF n <= Len(q) THEN B[n] ELSE H]
<1>3. D \in [0 .. Len(r) -> SUBSET Symbols]
  BY <1>1, <1>2
<1>4. /\ \A n \in 0 .. Len(q) : n \in 0 .. Len(r) /\ D[n] = B[n]
      /\ D[Len(r)] = H /\ D[Len(q)] = G
  BY <1>1, <1>2 DEF Bounds
<1> HIDE DEF D, r
<1>5. \A n \in 0 .. Len(r) : n \in 0 .. Len(q) \/ n = Len(r)
  BY <1>2
<1>6. \A n \in 0 .. Len(r) : Cardinality(D[n]) <= MaxStreams
  BY <1>1, <1>4, <1>5 DEF Bounds
<1>7. ASSUME NEW n \in 1 .. Len(r)
      PROVE  Effect(D[n - 1], r[n]) \subseteq D[n]
  <2>1. CASE n \in 1 .. Len(q)
    <3>1. D[n - 1] = B[n - 1] /\ D[n] = B[n] /\ r[n] = q[n]
      BY <1>2, <1>4, <2>1
    <3> QED
      BY <1>1, <2>1, <3>1 DEF Bounds
  <2>2. CASE n = Len(r)
    <3>1. D[n - 1] = G /\ D[n] = H /\ r[n] = m
      BY <1>2, <1>4, <2>2
    <3> QED
      BY <3>1
  <2> QED
    BY <1>2, <2>1, <2>2
<1>8. S \subseteq D[0]
  BY <1>1, <1>2, <1>4 DEF Bounds
<1> QED
  BY <1>3, <1>4, <1>6, <1>7, <1>8 DEF Path, Bounds, r

\* What is taken first leads to the next bound.
LEMMA PathContinues ==
  ASSUME NEW q \in Seq(Messages), q # << >>, NEW S, NEW T, NEW G,
         Path(q, S, G), T \subseteq Effect(S, Head(q))
  PROVE  Path(Tail(q), T, G)
<1> DEFINE r == Tail(q)
<1>1. PICK B \in [0 .. Len(q) -> SUBSET Symbols] : Bounds(B, q, S, G)
  BY DEF Path
<1>2. /\ Len(q) \in Nat \ {0} /\ Len(r) = Len(q) - 1
      /\ Head(q) = q[1]
      /\ \A n \in 1 .. Len(q) - 1 : r[n] = q[n + 1]
  BY TailShifts
<1>3. Effect(S, q[1]) \subseteq Effect(B[0], q[1])
  BY <1>1 DEF Effect, Bounds
<1>4. Effect(B[1 - 1], q[1]) \subseteq B[1]
  BY <1>1, <1>2 DEF Bounds
<1> DEFINE D == [n \in 0 .. Len(r) |-> B[n + 1]]
<1>5. \A n \in 0 .. Len(r) : n + 1 \in 0 .. Len(q) /\ D[n] = B[n + 1]
  BY <1>2
<1>6. D \in [0 .. Len(r) -> SUBSET Symbols]
  BY <1>1, <1>5
<1>7. D[0] = B[1] /\ D[Len(r)] = G
  BY <1>1, <1>2, <1>5 DEF Bounds
<1> HIDE DEF D, r
<1>8. \A n \in 0 .. Len(r) : Cardinality(D[n]) <= MaxStreams
  BY <1>1, <1>5 DEF Bounds
<1>9. ASSUME NEW n \in 1 .. Len(r)
      PROVE  Effect(D[n - 1], r[n]) \subseteq D[n]
  <2>1. D[n - 1] = B[n] /\ D[n] = B[n + 1] /\ r[n] = q[n + 1]
    BY <1>2, <1>5
  <2>2. Effect(B[(n + 1) - 1], q[n + 1]) \subseteq B[n + 1]
    BY <1>1, <1>2 DEF Bounds
  <2> QED
    BY <2>1, <2>2
<1>10. T \subseteq D[0]
  BY <1>2, <1>3, <1>4, <1>7
<1> QED
  BY <1>6, <1>7, <1>8, <1>9, <1>10 DEF Path, Bounds, r

\* With nothing under way there is only what is streamed.
LEMMA PathOfNothing ==
  Path(<< >>, {}, {})
<1> DEFINE D == [n \in {0} |-> {}]
<1>1. D \in [0 .. Len(<< >>) -> SUBSET Symbols] /\ Len(<< >>) = 0
  OBVIOUS
<1>2. D[0] = {} /\ Cardinality({}) = 0
  BY FS_EmptySet
<1> HIDE DEF D
<1> QED
  BY <1>1, <1>2, StreamAssumption DEF Path, Bounds

\* A request of the task leads to what it counts on afterwards.
LEMMA SendingKeepsThePath ==
  ASSUME TypeInv, NEW m \in Messages, Send(m), NEW G, NEW H \in SUBSET Symbols,
         Path(requests, streamed, G), H = Effect(G, m), Cardinality(H) <= MaxStreams
  PROVE  Path(requests', streamed, H)
<1>1. CASE m.yes = {}
  <2>1. requests' = requests /\ H = G
    BY <1>1 DEF Effect, Send
  <2> QED
    BY <2>1
<1>2. CASE m.yes # {}
  <2>1. requests' = Append(requests, m)
    BY <1>2 DEF Send
  <2> QED
    BY <2>1, PathExtends DEF TypeInv
<1> QED
  BY <1>1, <1>2

LEMMA PathStep ==
  ASSUME TypeInv, PathWithinLimit, [Next]_vars
  PROVE  PathWithinLimit'
<1>a. Path(requests, streamed, Granted)
  BY DEF PathWithinLimit
<1>b. \A C \in SUBSET Symbols : IsFiniteSet(C) /\ Cardinality(C) \in Nat
  BY StreamAssumption, FS_Subset, FS_CardinalityType DEF Symbols
<1>c. ASSUME Granted' = Granted, UNCHANGED <<requests, streamed>>
      PROVE  Path(requests, streamed, Granted)'
  BY <1>a, <1>c
<1>d. ASSUME UNCHANGED <<task, wire>>
      PROVE  PathWithinLimit'
  <2>1. Granted' = Granted
    BY <1>d DEF Granted, At
  <2>2. Path(requests, streamed, Granted)'
    BY <1>c, <1>d, <2>1 DEF wire
  <2> QED
    BY <1>d, <2>2 DEF PathWithinLimit, At
<1>1. CASE UNCHANGED vars
  BY <1>1, <1>d DEF vars, wire
<1>2. CASE Start
  <2>1. Granted' = Granted /\ ~At("subscribe")'
    BY <1>2 DEF Start, Go, At, Granted, TypeInv
  <2> QED
    BY <1>2, <1>c, <2>1 DEF Start, wire, PathWithinLimit
<1>3. CASE Connect
  <2>1. Granted' = Granted /\ ~At("subscribe")'
    BY <1>3 DEF Connect, At, Granted, TypeInv
  <2> QED
    BY <1>3, <1>c, <2>1 DEF Connect, wire, PathWithinLimit
<1>4. CASE Rebalance
  <2>1. PICK C \in Candidates : /\ task' = [task EXCEPT !.phase = "subscribe", !.wanted = C]
                                /\ Send(Steps(task.current, C)[1])
    BY <1>4 DEF Rebalance
  <2> DEFINE m == Steps(task.current, C)[1]
  <2>2. m \in Messages /\ m.type = "unsubscribe" /\ m.yes = task.current \ C
    BY DEF Steps, Message, Messages, Candidates, TypeInv
  <2>3. At("due") /\ streamed' = streamed
    BY <1>4 DEF Rebalance
  <2>4. Granted = task.current /\ Granted' = task.current \cap C
    BY <2>1, <2>3 DEF Granted, At, TypeInv
  <2>5. /\ C \in SUBSET Symbols /\ Cardinality(C) <= MaxStreams
        /\ Cardinality(task.current \cap C) <= Cardinality(C)
    BY <1>b, FS_Subset DEF Candidates
  <2>6. Cardinality(Granted') <= MaxStreams
    BY <1>b, <2>4, <2>5, StreamAssumption
  <2>7. Effect(Granted, m) = Granted' /\ Granted' \in SUBSET Symbols
    BY <2>2, <2>4, <2>5 DEF Effect
  <2>8. Path(requests, streamed, Granted)'
    BY <1>a, <2>1, <2>2, <2>3, <2>6, <2>7, SendingKeepsThePath
  <2> QED
    BY <2>1, <2>5, <2>8 DEF PathWithinLimit, TypeInv
<1>5. CASE Subscribe
  <2> DEFINE m == Steps(task.current, task.wanted)[2]
  <2>1. m \in Messages /\ m.type = "subscribe" /\ m.yes = task.wanted \ task.current /\ Send(m)
    BY <1>5 DEF Steps, Message, Messages, TypeInv, Subscribe
  <2>2. At("subscribe") /\ streamed' = streamed
        /\ task' = [phase |-> "receive", current |-> task.wanted, wanted |-> {}]
    BY <1>5 DEF Subscribe
  <2>3. Granted = task.current \cap task.wanted /\ Granted' = task.wanted
    BY <2>2 DEF Granted, At
  <2>4. Effect(Granted, m) = Granted' /\ Granted' \in SUBSET Symbols
    BY <2>1, <2>3 DEF Effect, TypeInv
  <2>5. Cardinality(Granted') <= MaxStreams
    BY <2>2, <2>3 DEF PathWithinLimit
  <2>6. Path(requests, streamed, Granted)'
    BY <1>a, <2>1, <2>2, <2>4, <2>5, SendingKeepsThePath
  <2> QED
    BY <2>2, <2>6 DEF PathWithinLimit, At
<1>6. CASE Due
  <2>1. Granted' = Granted /\ ~At("subscribe")'
    BY <1>6 DEF Due, Go, At, Granted, TypeInv
  <2> QED
    BY <1>6, <1>c, <2>1 DEF Due, wire, PathWithinLimit
<1>7. CASE Receive
  <2>1. Granted' = Granted /\ ~At("subscribe")'
    BY <1>7 DEF Receive, At, Granted, TypeInv
  <2> QED
    BY <1>7, <1>c, <2>1 DEF Receive, PathWithinLimit
<1>8. CASE Reconnect
  <2>1. Granted' = {} /\ requests' = << >> /\ streamed' = {} /\ ~At("subscribe")'
    BY <1>8 DEF Reconnect, Go, Disconnect, Granted, At, TypeInv
  <2> QED
    BY <2>1, PathOfNothing DEF PathWithinLimit
<1>9. CASE Provide
  <2>1. UNCHANGED task /\ Granted' = Granted /\ requests # << >> /\ requests' = Tail(requests)
    BY <1>9 DEF Provide, Granted, At
  <2>2. streamed' \subseteq Effect(streamed, Head(requests))
    BY <1>9, ProviderAnswers DEF Provide, Effect
  <2>3. Path(requests, streamed, Granted)'
    BY <1>a, <2>1, <2>2, PathContinues DEF TypeInv
  <2> QED
    BY <2>1, <2>3 DEF PathWithinLimit, At
<1>10. CASE LockOrUnlock
  BY <1>10, <1>d DEF LockOrUnlock
<1>11. ASSUME NEW x \in Symbols, CoolDown(x) PROVE PathWithinLimit'
  BY <1>11, <1>d DEF CoolDown
<1> QED
  BY <1>1, <1>2, <1>3, <1>4, <1>5, <1>6, <1>7, <1>8, <1>9, <1>10, <1>11 DEF Next

-----------------------------------------------------------------------------
(* The theorems *)

LEMMA StreamInvInit ==
  Init => StreamInv
<1> SUFFICES ASSUME Init PROVE StreamInv
  OBVIOUS
<1> USE DEF Init
<1>1. TypeInv /\ DownIsSilent /\ EachOnItsWay
  BY DEF TypeInv, DownIsSilent, Connected, EachOnItsWay
<1>2. Bookkeeping
  BY DEF Bookkeeping, At
<1>3. Granted = {} /\ ~At("subscribe")
  BY DEF Granted, At
<1>4. PathWithinLimit
  BY <1>3, PathOfNothing DEF PathWithinLimit
<1> QED
  BY <1>1, <1>2, <1>4 DEF StreamInv

\* The inductive invariant holds in every state of every behaviour.
THEOREM StreamSafe == Spec => []StreamInv
<1>1. Init => StreamInv
  BY StreamInvInit
<1>2. StreamInv /\ [Next]_vars => StreamInv'
  BY TypeStep, BookStep, WayStep, PathStep DEF StreamInv
<1> QED
  BY <1>1, <1>2, PTL DEF Spec

\* twelve_data_stream_service.py and price_service.py: what the poller leaves
\* out is streamed, asked for, about to be known as refused or about to be
\* dropped, whatever the numbers of symbols and of messages under way.
THEOREM LeftOutIsStreamed == Spec => []StreamedOrPolled
<1>1. StreamInv => StreamedOrPolled
  <2> SUFFICES ASSUME StreamInv, NEW s \in ids
               PROVE  s \in streamed \/ Asked(s) \/ Refused(s) \/ Dropped(s)
    BY DEF StreamedOrPolled
  <2>1. Connected /\ s \in task.current /\ ~KnownRefused(s)
    BY DEF StreamInv, DownIsSilent, Bookkeeping, KnownRefused
  <2>2. Dropped(s) \/ s \in streamed \/ Asked(s) \/ LastRefused(s)
    BY <2>1 DEF StreamInv, EachOnItsWay
  <2> QED
    BY <2>2 DEF LastRefused, Refused
<1> QED
  BY <1>1, StreamSafe, PTL

\* _rebalance: unsubscribing first keeps the provider within the plan's limit
\* at every moment, whatever is accepted, rejected or still under way.
THEOREM NeverOverTheLimit == Spec => []WithinLimit
<1>1. StreamInv => WithinLimit
  <2> SUFFICES ASSUME StreamInv PROVE Cardinality(streamed) <= MaxStreams
    BY DEF WithinLimit
  <2>1. PICK B \in [0 .. Len(requests) -> SUBSET Symbols] : Bounds(B, requests, streamed, Granted)
    BY DEF StreamInv, PathWithinLimit, Path
  <2>2. Len(requests) \in Nat
    BY DEF StreamInv, TypeInv
  <2>3. streamed \subseteq B[0] /\ Cardinality(B[0]) <= MaxStreams /\ B[0] \subseteq Symbols
    BY <2>1, <2>2 DEF Bounds
  <2>4. IsFiniteSet(B[0])
    BY <2>3, StreamAssumption, FS_Subset DEF Symbols
  <2>5. Cardinality(streamed) \in Nat /\ Cardinality(B[0]) \in Nat
        /\ Cardinality(streamed) <= Cardinality(B[0])
    BY <2>3, <2>4, FS_Subset, FS_CardinalityType
  <2> QED
    BY <2>3, <2>5, StreamAssumption
<1> QED
  BY <1>1, StreamSafe, PTL
=============================================================================
