----------------------------- MODULE EngineProofs -----------------------------
(***************************************************************************)
(* What is proved of MatchingEngine for any workers, clients, symbols,     *)
(* requests and bounds: its type invariant, that its steps are steps of    *)
(* the books (so that all of OrderBookProofs holds of them), that every    *)
(* order is in exactly one place, that no trade is forgotten, that what    *)
(* has ended stays so, that nothing comes before its date, and that a      *)
(* stop waits for its trigger.                                             *)
(*                                                                         *)
(* The invariant says, of each place an order can be in, what is true of   *)
(* the orders that are there; that the places exclude each other follows.  *)
(***************************************************************************)
EXTENDS EngineMoney, Solvency, OrderBookProofs

Unmatched == {"risk", "band", "hold", "enter"}
Settling == {"settle", "price", "mark"}
Working == Unmatched \cup {"match"} \cup Settling

\* A thread at work carries an order that was built, for a listed symbol.
JobInv ==
  \A t \in Threads :
    /\ pc[t] \in Working \cup {"fallback"} => job[t] \in 1 .. nextId - 1
    /\ pc[t] \in Working => order[job[t]].symbol \in Listed

\* Two threads never work on one order.
LoneInv ==
  \A t, u \in Threads :
    pc[t] \in Working /\ pc[u] \in Working /\ job[t] = job[u] => t = u

\* The order a thread carries is where the thread is in match_and_settle.
PhaseInv ==
  \A t \in Threads :
    /\ pc[t] \in Unmatched => job[t] \notin entered
    /\ pc[t] \in Unmatched \cup {"match"} => fate[job[t]] = "none"
    /\ pc[t] = "match" => taker[order[job[t]].symbol] = job[t] /\ settled[job[t]] = 0
    /\ pc[t] \in Settling => job[t] \in entered /\ taker[order[job[t]].symbol] # job[t]
    /\ pc[t] = "settle" => settled[job[t]] < Len(trades[job[t]])
    /\ pc[t] \in {"price", "mark"} => settled[job[t]] \in 1 .. Len(trades[job[t]])

\* A book's lock is held by a thread.
LockInv ==
  \A s \in Symbols : taker[s] # NoOrder =>
    \E t \in Threads : pc[t] = "match" /\ job[t] = taker[s]

\* An order in the registry or in the watcher's list is nowhere else.
HeldInv ==
  /\ waiting \cap released = {}
  /\ \A id \in waiting \cup released :
       /\ id \in 1 .. nextId - 1
       /\ order[id].symbol \in Listed
       /\ id \notin entered
       /\ fate[id] = "none"
       /\ \A t \in Threads : pc[t] \in Working => job[t] # id

\* An order that has ended other than by trading is out of the books, and was
\* not executed before.
FateInv ==
  \A id \in Ids : fate[id] # "none" =>
    /\ id < nextId
    /\ ~Resting(id)
    /\ id \in entered => /\ left[id] > 0
                         /\ order[id].kind # "MARKET"
                         /\ taker[order[id].symbol] # id

\* An order that was built and not yet handed to a book is somewhere.
KnownInv ==
  \A id \in 1 .. nextId - 1 :
    \/ id \in entered \cup waiting \cup released
    \/ fate[id] # "none"
    \/ \E t \in Threads : pc[t] \in Unmatched /\ job[t] = id

\* So is one that was handed to a book.
EnteredInv ==
  \A id \in entered :
    \/ taker[order[id].symbol] = id
    \/ Resting(id)
    \/ fate[id] # "none"
    \/ left[id] = 0
    \/ order[id].kind = "MARKET"

OwnerInv ==
  /\ JobInv /\ LoneInv /\ PhaseInv /\ LockInv /\ HeldInv
  /\ FateInv /\ KnownInv /\ EnteredInv
  /\ NoTradeForgotten

EngineInv == BookInv /\ EngineTypeOK /\ OwnerInv

-----------------------------------------------------------------------------
\* What the steps of a book do to the set of resting orders

\* A resting order is in its own book, and could still be executed.
LEMMA RestingFacts ==
  ASSUME BookInv, NEW s \in Symbols, NEW d \in Sides, NEW p \in Prices, NEW i,
         FoundAt(s, d, p, i)
  PROVE  /\ i \in Ids /\ i \in entered /\ left[i] > 0 /\ taker[s] # i
         /\ order[i].symbol = s /\ order[i].side = d /\ order[i].price = p
         /\ order[i].kind # "MARKET"
<1> DEFINE q == queue[s][d][p]
<1>1. q \in Seq(Ids)
  BY DEF BookInv, BookTypeOK
<1>2. PICK k \in 1 .. Len(q) : q[k] = i
  BY DEF FoundAt, Contains
<1>3. i \in Ids
  BY <1>1, <1>2
<1>4. BelongsAt(s, d, p, i)
  BY <1>1, <1>2 DEF BookInv, RestsWhereItBelongs
<1>5. order[i] \in OrderRecords
  BY <1>3 DEF BookInv, BookTypeOK
<1>6. order[i].kind # "MARKET"
  BY <1>4, <1>5, BookAssumption DEF BelongsAt, OrderRecords
<1> QED BY <1>3, <1>4, <1>6 DEF BelongsAt

LEMMA TailContains ==
  ASSUME NEW S, NEW q \in Seq(S), q # <<>>, NEW x
  PROVE  /\ Contains(Tail(q), x) => Contains(q, x)
         /\ Contains(q, x) /\ x # q[1] => Contains(Tail(q), x)
<1>1. /\ Len(q) \in Nat /\ Len(q) >= 1
      /\ Len(Tail(q)) = Len(q) - 1
      /\ \A i \in 1 .. Len(q) - 1 : Tail(q)[i] = q[i + 1]
  BY HeadTailProperties
<1>2. ASSUME NEW i \in 1 .. Len(q) - 1, Tail(q)[i] = x
      PROVE  \E k \in 1 .. Len(q) : q[k] = x
  <2>1. i + 1 \in 1 .. Len(q) /\ q[i + 1] = x
    BY <1>1, <1>2
  <2> QED BY <2>1
<1>3. ASSUME NEW k \in 1 .. Len(q), q[k] = x, x # q[1]
      PROVE  \E i \in 1 .. Len(q) - 1 : Tail(q)[i] = x
  <2>1. k # 1
    BY <1>3
  <2>2. k - 1 \in 1 .. Len(q) - 1 /\ (k - 1) + 1 = k
    BY <1>1, <2>1
  <2>3. Tail(q)[k - 1] = x
    BY <1>1, <1>3, <2>2
  <2> QED BY <2>2, <2>3
<1> QED BY <1>1, <1>2, <1>3 DEF Contains

LEMMA EraseContains ==
  ASSUME NEW S, NEW q \in Seq(S), NEW id, Contains(q, id),
         \A j, k \in DOMAIN q : q[j] = q[k] => j = k,
         NEW x
  PROVE  Contains(Erase(q, id), x) <=> Contains(q, x) /\ x # id
<1> DEFINE i == CHOOSE i \in DOMAIN q : q[i] = id
           e == RemoveAt(q, i)
<1>1. i \in 1 .. Len(q) /\ q[i] = id /\ Len(q) \in Nat /\ DOMAIN q = 1 .. Len(q)
  BY DEF Contains
<1>2. e = Erase(q, id)
  BY DEF Erase
<1> HIDE DEF i
<1>3. /\ e \in Seq(S)
      /\ Len(e) = Len(q) - 1
      /\ \A j \in 1 .. Len(q) - 1 : e[j] = IF j < i THEN q[j] ELSE q[j + 1]
  <2>1. i \in 1 .. Len(q)
    BY <1>1
  <2> QED BY <2>1, RemoveAtProperties
<1> HIDE DEF e
<1>4. ASSUME NEW j \in 1 .. Len(q) - 1, e[j] = x
      PROVE  (\E k \in 1 .. Len(q) : q[k] = x) /\ x # id
  <2>1. PICK k \in 1 .. Len(q) : q[k] = x /\ k # i
    <3>1. CASE j < i
      BY <1>1, <1>3, <1>4, <3>1
    <3>2. CASE ~(j < i)
      <4>1. j + 1 \in 1 .. Len(q) /\ j + 1 # i /\ q[j + 1] = x
        BY <1>1, <1>3, <1>4, <3>2
      <4> QED BY <4>1
    <3> QED BY <3>1, <3>2
  <2> QED BY <2>1, <1>1
<1>5. ASSUME NEW k \in 1 .. Len(q), q[k] = x, x # id
      PROVE  \E j \in 1 .. Len(q) - 1 : e[j] = x
  <2>1. CASE k < i
    <3>1. k \in 1 .. Len(q) - 1 /\ e[k] = x
      BY <1>1, <1>3, <1>5, <2>1
    <3> QED BY <3>1
  <2>2. CASE ~(k < i)
    <3>1. k # i
      BY <1>1, <1>5
    <3>2. k - 1 \in 1 .. Len(q) - 1 /\ ~(k - 1 < i) /\ (k - 1) + 1 = k
      BY <1>1, <2>2, <3>1
    <3>3. e[k - 1] = x
      BY <1>3, <1>5, <3>2
    <3> QED BY <3>2, <3>3
  <2> QED BY <2>1, <2>2
<1> QED BY <1>2, <1>3, <1>4, <1>5 DEF Contains

\* A turn of the loop takes at most the order it executed out of the book.
LEMMA FillResting ==
  ASSUME BookInv, NEW s \in Symbols, NEW p \in Prices, FillAt(s, p), NEW i \in Ids
  PROVE  /\ Resting(MakerAt(s, p)) /\ MakerAt(s, p) \in Ids /\ MakerAt(s, p) # taker[s]
         /\ Resting(i)' => Resting(i)
         /\ Resting(i) /\ ~Resting(i)' => i = MakerAt(s, p) /\ left[i] = TradedAt(s, p)
<1> DEFINE m == MakerAt(s, p)
           d == MakerSide(s)
           gone == left[m] = TradedAt(s, p)
<1>1. CanFillAt(s, p)
  BY DEF FillAt
<1>2. /\ d \in Sides /\ queue[s][d][p] \in Seq(Ids) /\ queue[s][d][p] # <<>>
      /\ m = queue[s][d][p][1] /\ m \in Ids /\ BelongsAt(s, d, p, m)
  BY <1>1, MakerFacts
<1>3. Resting(m) /\ m # taker[s]
  <2>1. FoundAt(s, d, p, m)
    BY <1>2 DEF FoundAt, Contains
  <2> QED BY <1>2, <2>1 DEF Resting, BelongsAt
<1>4. queue' = IF gone THEN [queue EXCEPT ![s][d][p] = Tail(@)] ELSE queue
  BY DEF FillAt
<1>5. queue \in [Symbols -> [Sides -> [Prices -> Seq(Ids)]]]
  BY DEF BookInv, BookTypeOK
<1> HIDE DEF m, d, gone
<1>6. ASSUME NEW t \in Symbols, NEW c \in Sides, NEW r \in Prices
      PROVE  /\ FoundAt(t, c, r, i)' => FoundAt(t, c, r, i)
             /\ FoundAt(t, c, r, i) => FoundAt(t, c, r, i)' \/ (gone /\ i = m)
  <2>1. CASE gone /\ t = s /\ c = d /\ r = p
    <3>1. queue'[t][c][r] = Tail(queue[s][d][p])
      BY <1>2, <1>4, <1>5, <2>1
    <3> QED BY <1>2, <2>1, <3>1, TailContains DEF FoundAt
  <2>2. CASE ~(gone /\ t = s /\ c = d /\ r = p)
    <3>1. queue'[t][c][r] = queue[t][c][r]
      BY <1>2, <1>4, <1>5, <2>2
    <3> QED BY <3>1 DEF FoundAt
  <2> QED BY <2>1, <2>2
<1>7. Resting(i)' => Resting(i)
  BY <1>6 DEF Resting
<1>8. Resting(i) /\ ~Resting(i)' => gone /\ i = m
  BY <1>6 DEF Resting
<1> QED BY <1>2, <1>3, <1>7, <1>8 DEF m, gone

\* The end of match() adds at most the order it ran for.
LEMMA FinishResting ==
  ASSUME BookInv, NEW s \in Symbols, Finish(s), NEW i \in Ids
  PROVE  Resting(i)' <=> Resting(i) \/ (i = taker[s] /\ Rests(s))
<1> DEFINE id == taker[s]
           d == order[id].side
           p == order[id].price
<1>1. id \in Ids /\ order[id] \in OrderRecords
  BY DEF Finish, BookInv, BookTypeOK
<1>2. d \in Sides /\ (Rests(s) => p \in Prices)
  BY <1>1 DEF OrderRecords, Rests
<1>3. queue' = IF Rests(s) THEN [queue EXCEPT ![s][d][p] = Append(@, id)] ELSE queue
  BY DEF Finish, Behind
<1>4. queue \in [Symbols -> [Sides -> [Prices -> Seq(Ids)]]]
  BY DEF BookInv, BookTypeOK
<1> HIDE DEF id, d, p
<1>5. ASSUME NEW t \in Symbols, NEW c \in Sides, NEW r \in Prices
      PROVE  FoundAt(t, c, r, i)' <=>
               \/ FoundAt(t, c, r, i)
               \/ Rests(s) /\ t = s /\ c = d /\ r = p /\ i = id
  <2>1. CASE Rests(s) /\ t = s /\ c = d /\ r = p
    <3> DEFINE q == queue[s][d][p]
               e == queue'[t][c][r]
    <3>1. e = Append(q, id) /\ q \in Seq(Ids)
      BY <1>2, <1>3, <1>4, <2>1
    <3>2. /\ Len(e) = Len(q) + 1 /\ Len(q) \in Nat
          /\ e[Len(q) + 1] = id
          /\ \A k \in 1 .. Len(q) : e[k] = q[k]
      <4> HIDE DEF q, e
      <4> QED BY <1>1, <3>1, AppendProperties
    <3> HIDE DEF q, e
    <3>3. Contains(e, i) <=> Contains(q, i) \/ i = id
      BY <3>2 DEF Contains
    <3> QED BY <2>1, <3>3 DEF FoundAt, q, e
  <2>2. CASE ~(Rests(s) /\ t = s /\ c = d /\ r = p)
    <3>1. queue'[t][c][r] = queue[t][c][r]
      BY <1>2, <1>3, <1>4, <2>2
    <3> QED BY <2>2, <3>1 DEF FoundAt
  <2> QED BY <2>1, <2>2
<1> QED BY <1>2, <1>5 DEF Resting, id

\* A cancel takes the cancelled order out, and no other.
LEMMA CancelResting ==
  ASSUME BookInv, NEW s \in Symbols, NEW d \in Sides, NEW p \in Prices,
         NEW id \in Ids, CancelAt(s, d, p, id), NEW i \in Ids
  PROVE  Resting(i)' <=> Resting(i) /\ i # id
<1>1. FoundAt(s, d, p, id) /\ queue' = [queue EXCEPT ![s][d][p] = Erase(@, id)]
  BY DEF CancelAt
<1>2. queue \in [Symbols -> [Sides -> [Prices -> Seq(Ids)]]]
  BY DEF BookInv, BookTypeOK
<1>3. ASSUME NEW t \in Symbols, NEW c \in Sides, NEW r \in Prices
      PROVE  FoundAt(t, c, r, i)' <=> FoundAt(t, c, r, i) /\ i # id
  <2>1. CASE t = s /\ c = d /\ r = p
    <3>1. queue'[t][c][r] = Erase(queue[s][d][p], id) /\ queue[s][d][p] \in Seq(Ids)
      BY <1>1, <1>2, <2>1
    <3>2. \A j, k \in DOMAIN queue[s][d][p] : queue[s][d][p][j] = queue[s][d][p][k] => j = k
      BY DEF BookInv, RestsWhereItBelongs
    <3> QED BY <1>1, <2>1, <3>1, <3>2, EraseContains DEF FoundAt
  <2>2. CASE ~(t = s /\ c = d /\ r = p)
    <3>1. queue'[t][c][r] = queue[t][c][r]
      BY <1>1, <1>2, <2>2
    <3>2. FoundAt(t, c, r, i) => i # id
      BY <1>1, <2>2, RestingFacts
    <3> QED BY <3>1, <3>2 DEF FoundAt
  <2> QED BY <2>1, <2>2
<1> QED BY <1>3 DEF Resting

-----------------------------------------------------------------------------
\* The steps that leave the books alone

\* Thread t goes to a state and a job, the others stay where they are.
Moves(t, state, id) ==
  /\ pc'[t] = state
  /\ job'[t] = id
  /\ \A u \in Threads : u # t => pc'[u] = pc[u] /\ job'[u] = job[u]

LEMMA GoMoves ==
  ASSUME EngineTypeOK, NEW t \in Threads, NEW state, Go(t, state), job' = job
  PROVE  Moves(t, state, job[t])
BY DEF EngineTypeOK, Go, Moves

LEMMA ReturnMoves ==
  ASSUME EngineTypeOK, NEW t \in Threads, NEW state, NEW id,
         Go(t, state), job' = [job EXCEPT ![t] = id]
  PROVE  Moves(t, state, id)
BY DEF EngineTypeOK, Go, Moves

LEMMA EndOfMatchMoves ==
  ASSUME EngineTypeOK, NEW t \in Threads, EndOfMatch(t)
  PROVE  Moves(t, Idle, NoOrder) \/ (t = Watcher /\ Moves(t, "release", NoOrder))
BY ReturnMoves DEF EndOfMatch, Return

LEMMA BooksStill ==
  ASSUME UNCHANGED bookVars
  PROVE  /\ nextId' = nextId /\ order' = order /\ left' = left /\ entered' = entered
         /\ taker' = taker /\ trades' = trades
         /\ \A i \in Ids : Resting(i)' <=> Resting(i)
BY DEF bookVars, Resting, FoundAt

\* What BookInv says of the identifiers in use.
LEMMA IdFacts ==
  ASSUME BookInv
  PROVE  /\ nextId \in Nat /\ 1 .. nextId - 1 \subseteq Ids /\ entered \subseteq 1 .. nextId - 1
         /\ NoOrder \notin Ids
         /\ \A i \in Ids : order[i].symbol \in Symbols /\ Len(trades[i]) \in Nat
         /\ \A i \in Ids : trades[i] # <<>> => i \in entered
<1>1. /\ nextId \in 1 .. MaxOrders + 1 /\ entered \subseteq 1 .. nextId - 1
      /\ MaxOrders \in Nat
  BY BookAssumption DEF BookInv, BookTypeOK
<1>2. 1 .. nextId - 1 \subseteq Ids /\ NoOrder \notin Ids /\ nextId \in Nat
  BY <1>1 DEF Ids, NoOrder
<1>3. ASSUME NEW i \in Ids
      PROVE  /\ order[i].symbol \in Symbols /\ Len(trades[i]) \in Nat
             /\ trades[i] # <<>> => i \in entered
  <2>1. order[i] \in OrderRecords /\ trades[i] \in Seq(Trades)
    BY DEF BookInv, BookTypeOK
  <2>2. trades[i] # <<>> => 1 \in DOMAIN trades[i]
    BY <2>1
  <2> QED BY <2>1, <2>2 DEF BookInv, TradersEntered, OrderRecords
<1> QED BY <1>1, <1>2, <1>3

\* A step of threads that have no order in hand.
LEMMA QuietStep ==
  ASSUME EngineInv, UNCHANGED bookVars, UNCHANGED <<waiting, released, fate, settled>>,
         \A t \in Threads :
           \/ pc'[t] = pc[t] /\ job'[t] = job[t]
           \/ /\ pc[t] \notin Working /\ pc'[t] \notin Working
              /\ pc'[t] = "fallback" => job'[t] \in 1 .. nextId - 1
  PROVE  OwnerInv'
<1> USE BooksStill DEF EngineInv, OwnerInv
<1>1. \A t \in Threads : pc'[t] \in Working <=> pc[t] \in Working
  OBVIOUS
<1>2. \A t \in Threads : pc[t] \in Working => pc'[t] = pc[t] /\ job'[t] = job[t]
  OBVIOUS
<1>3. JobInv' /\ LoneInv'
  BY <1>1, <1>2 DEF JobInv, LoneInv
<1>4. PhaseInv'
  BY <1>1, <1>2 DEF PhaseInv, Working, Unmatched, Settling
<1>5. LockInv' /\ KnownInv'
  BY <1>1, <1>2 DEF LockInv, KnownInv, Working, Unmatched
<1>6. HeldInv'
  BY <1>1, <1>2 DEF HeldInv
<1>7. FateInv' /\ EnteredInv'
  BY IdFacts DEF FateInv, EnteredInv
<1>8. NoTradeForgotten'
  BY <1>1, <1>2 DEF NoTradeForgotten, Unsettled, Working, Settling
<1> QED BY <1>3, <1>4, <1>5, <1>6, <1>7, <1>8

\* A thread goes on with its order.
LEMMA CarryStep ==
  ASSUME EngineInv, UNCHANGED bookVars, UNCHANGED <<waiting, released, fate, settled>>,
         NEW t \in Threads, NEW state, Moves(t, state, job[t]),
         \/ pc[t] \in Unmatched /\ state \in Unmatched
         \/ pc[t] = "price" /\ state = "mark"
         \/ pc[t] = "mark" /\ state = "settle" /\ settled[job[t]] < Len(trades[job[t]])
  PROVE  OwnerInv'
<1> USE BooksStill DEF EngineInv, OwnerInv
<1>1. \A u \in Threads :
        /\ job'[u] = job[u] /\ (u # t => pc'[u] = pc[u])
        /\ pc'[u] \in Working <=> pc[u] \in Working
        /\ pc'[u] \in Unmatched <=> pc[u] \in Unmatched
        /\ pc'[u] \in Settling <=> pc[u] \in Settling
        /\ pc'[u] = "match" <=> pc[u] = "match"
        /\ pc'[u] = "fallback" <=> pc[u] = "fallback"
  BY DEF Moves, Working, Unmatched, Settling
<1>2. JobInv' /\ LoneInv'
  BY <1>1 DEF JobInv, LoneInv
<1>3. PhaseInv'
  <2>1. /\ pc'[t] = "settle" => settled[job[t]] < Len(trades[job[t]])
        /\ pc'[t] \in {"price", "mark"} => settled[job[t]] \in 1 .. Len(trades[job[t]])
    BY DEF Moves, PhaseInv, Unmatched
  <2> QED BY <1>1, <2>1 DEF PhaseInv
<1>4. LockInv' /\ KnownInv'
  BY <1>1 DEF LockInv, KnownInv
<1>5. HeldInv'
  BY <1>1 DEF HeldInv
<1>6. FateInv' /\ EnteredInv'
  BY IdFacts DEF FateInv, EnteredInv
<1>7. NoTradeForgotten'
  BY <1>1 DEF NoTradeForgotten, Unsettled, Settling
<1> QED BY <1>2, <1>3, <1>4, <1>5, <1>6, <1>7

\* Orders leave the registry: those of E have ended, those of D are released.
LEMMA RegistryStep ==
  ASSUME EngineInv, UNCHANGED bookVars, UNCHANGED settled,
         \A t \in Threads :
           \/ pc'[t] = pc[t] /\ job'[t] = job[t]
           \/ pc[t] \notin Working /\ pc'[t] \notin Working \cup {"fallback"},
         NEW E, NEW D, E \subseteq waiting, D \subseteq waiting, E \cap D = {},
         waiting' = waiting \ (E \cup D),
         released' = released \cup D,
         \A i \in Ids : IF i \in E THEN fate'[i] # "none" ELSE fate'[i] = fate[i]
  PROVE  OwnerInv'
<1> USE BooksStill DEF EngineInv, OwnerInv
<1>1. \A t \in Threads :
        /\ pc'[t] \in Working <=> pc[t] \in Working
        /\ pc[t] \in Working \cup {"fallback"} /\ pc'[t] \in Working \cup {"fallback"}
             => pc'[t] = pc[t] /\ job'[t] = job[t]
        /\ pc'[t] \in Working \cup {"fallback"} => pc[t] \in Working \cup {"fallback"}
  OBVIOUS
<1>2. \A i \in E \cup D :
        /\ i \in 1 .. nextId - 1 /\ i \in Ids /\ i \notin released /\ i \notin entered
        /\ order[i].symbol \in Listed
        /\ fate[i] = "none"
        /\ ~Resting(i)
        /\ \A t \in Threads : pc[t] \in Working => job[t] # i
  BY IdFacts, RestingFacts DEF HeldInv, Resting
<1>3. JobInv' /\ LoneInv'
  BY <1>1 DEF JobInv, LoneInv
<1>4. PhaseInv'
  <2> SUFFICES ASSUME NEW t \in Threads, pc'[t] \in Working
               PROVE  /\ pc[t] = pc'[t] /\ job'[t] = job[t] /\ job[t] \in Ids
                      /\ fate'[job[t]] = fate[job[t]]
    BY DEF PhaseInv, Working, Unmatched, Settling
  <2>1. pc[t] = pc'[t] /\ job'[t] = job[t] /\ pc[t] \in Working
    BY <1>1
  <2>2. job[t] \in Ids
    BY <2>1, IdFacts DEF JobInv
  <2> QED BY <1>2, <2>1, <2>2
<1>5. LockInv'
  BY <1>1 DEF LockInv, Working
<1>6. HeldInv'
  <2>1. waiting' \cap released' = {}
    BY DEF HeldInv
  <2>2. ASSUME NEW i \in waiting' \cup released'
        PROVE  /\ i \in waiting \cup released /\ i \in Ids /\ fate'[i] = fate[i]
               /\ \A t \in Threads : pc'[t] \in Working => job'[t] # i
    <3>1. i \in waiting \cup released /\ i \notin E
      BY <1>2
    <3>2. i \in Ids
      BY <3>1, IdFacts DEF HeldInv
    <3> QED BY <1>1, <3>1, <3>2 DEF HeldInv
  <2> QED BY <2>1, <2>2 DEF HeldInv
<1>7. FateInv'
  BY <1>2, IdFacts DEF FateInv
<1>8. KnownInv'
  <2> SUFFICES ASSUME NEW i \in 1 .. nextId - 1
               PROVE  \/ i \in entered \cup waiting' \cup released'
                      \/ fate'[i] # "none"
                      \/ \E t \in Threads : pc'[t] \in Unmatched /\ job'[t] = i
    BY DEF KnownInv
  <2>1. CASE i \in waiting
    BY <2>1, IdFacts
  <2>2. CASE i \in entered \cup released
    BY <2>2
  <2>3. CASE fate[i] # "none"
    BY <2>3, <1>2, IdFacts
  <2>4. CASE \E t \in Threads : pc[t] \in Unmatched /\ job[t] = i
    BY <2>4, <1>1 DEF Working
  <2> QED BY <2>1, <2>2, <2>3, <2>4 DEF KnownInv
<1>9. EnteredInv'
  <2>1. \A i \in entered : i \in Ids /\ i \notin E
    BY <1>2, IdFacts
  <2> QED BY <2>1 DEF EnteredInv
<1>10. NoTradeForgotten'
  BY <1>1 DEF NoTradeForgotten, Unsettled, Working, Settling
<1> QED BY <1>3, <1>4, <1>5, <1>6, <1>7, <1>8, <1>9, <1>10

\* An order leaves a thread: rejected, held, or with all its trades settled.
LEMMA LetGoStep ==
  ASSUME EngineInv, UNCHANGED bookVars, UNCHANGED <<released, settled>>,
         NEW t \in Threads, NEW state, state \notin Working \cup {"fallback"},
         Moves(t, state, NoOrder),
         \/ /\ pc[t] \in Unmatched
            /\ waiting' = waiting \cup {job[t]}
            /\ UNCHANGED fate
         \/ /\ pc[t] \in Unmatched
            /\ fate'[job[t]] # "none"
            /\ \A i \in Ids \ {job[t]} : fate'[i] = fate[i]
            /\ UNCHANGED waiting
         \/ /\ pc[t] = "mark" /\ ~MoreTrades(t)
            /\ UNCHANGED <<waiting, fate>>
  PROVE  OwnerInv'
<1> USE BooksStill DEF EngineInv, OwnerInv
<1> DEFINE id == job[t]
<1>1. /\ id \in 1 .. nextId - 1 /\ id \in Ids /\ order[id].symbol \in Listed
      /\ id \notin waiting \cup released
      /\ \A u \in Threads : u # t /\ pc[u] \in Working => job[u] # id
  <2>1. pc[t] \in Working
    BY DEF Working, Settling
  <2> QED BY <2>1, IdFacts DEF JobInv, LoneInv, HeldInv
<1>2. pc[t] \in Unmatched => id \notin entered /\ fate[id] = "none" /\ ~Resting(id)
  BY <1>1, RestingFacts DEF PhaseInv, Resting
<1>3. \A u \in Threads :
        /\ u # t => pc'[u] = pc[u] /\ job'[u] = job[u]
        /\ pc'[u] \in Working \cup {"fallback"} =>
             u # t /\ pc'[u] = pc[u] /\ job'[u] = job[u]
  BY DEF Moves
<1>4. JobInv' /\ LoneInv'
  BY <1>3 DEF JobInv, LoneInv
<1>5. PhaseInv'
  <2> SUFFICES ASSUME NEW u \in Threads, pc'[u] \in Working
               PROVE  /\ pc[u] = pc'[u] /\ job'[u] = job[u]
                      /\ fate'[job[u]] = fate[job[u]]
    BY DEF PhaseInv, Working, Unmatched, Settling
  <2>1. pc[u] = pc'[u] /\ job'[u] = job[u] /\ u # t /\ pc[u] \in Working
    BY <1>3
  <2>2. job[u] \in Ids /\ job[u] # id
    BY <1>1, <2>1, IdFacts DEF JobInv
  <2> QED BY <2>1, <2>2
<1>6. LockInv'
  BY <1>3 DEF LockInv, Unmatched, Moves
<1>7. HeldInv'
  BY <1>1, <1>2, <1>3, IdFacts DEF HeldInv
<1>8. FateInv'
  BY <1>1, <1>2, IdFacts DEF FateInv
<1>9. KnownInv'
  <2> SUFFICES ASSUME NEW i \in 1 .. nextId - 1
               PROVE  \/ i \in entered \cup waiting' \cup released'
                      \/ fate'[i] # "none"
                      \/ \E u \in Threads : pc'[u] \in Unmatched /\ job'[u] = i
    BY DEF KnownInv
  <2>1. CASE i = id
    <3>1. pc[t] = "mark" => id \in entered
      BY DEF PhaseInv, Settling
    <3> QED BY <2>1, <3>1
  <2>2. CASE i # id
    <3>1. fate'[i] = fate[i] /\ waiting \subseteq waiting'
      BY <2>2, IdFacts
    <3> QED BY <2>2, <3>1, <1>3 DEF KnownInv
  <2> QED BY <2>1, <2>2
<1>10. EnteredInv'
  <2>1. \A i \in entered : i \in Ids /\ (fate[i] # "none" => fate'[i] # "none")
    BY IdFacts
  <2> QED BY <2>1 DEF EnteredInv
<1>11. NoTradeForgotten'
  <2> SUFFICES ASSUME NEW i \in Ids, settled[i] < Len(trades[i])
               PROVE  \E u \in Threads : /\ job'[u] = i
                                         /\ pc'[u] \in {"match", "settle", "price", "mark"}
    BY DEF NoTradeForgotten, Unsettled
  <2>1. PICK u \in Threads : job[u] = i /\ pc[u] \in {"match", "settle", "price", "mark"}
    BY DEF NoTradeForgotten, Unsettled
  <2>2. u # t
    BY <2>1 DEF Unmatched, MoreTrades
  <2> QED BY <1>3, <2>1, <2>2
<1> QED BY <1>4, <1>5, <1>6, <1>7, <1>8, <1>9, <1>10, <1>11

\* An order is built, and rejected at once or kept for the risk check.
LEMMA SubmitStep ==
  ASSUME EngineInv, NEW t \in Workers, NEW r \in Requests, Submit(t, r)
  PROVE  OwnerInv'
<1> USE DEF EngineInv, OwnerInv
<1>1. /\ pc[t] = Idle /\ t \in Threads
      /\ nextId \in Ids /\ nextId' = nextId + 1
      /\ order' = [order EXCEPT ![nextId] = r.order]
      /\ UNCHANGED <<entered, queue, taker, trades, waiting, released, settled>>
      /\ \/ /\ Valid(r.order) /\ fate' = fate
            /\ Moves(t, "risk", nextId)
         \/ /\ fate' = [fate EXCEPT ![nextId] = "rejected"]
            /\ pc' = pc /\ job' = job
  BY ReturnMoves DEF Submit, Build, moneyVars, watcherVars, Threads
<1>2. left' = [left EXCEPT ![nextId] = r.order.quantity]
  BY DEF Submit, Build
<1>3. /\ nextId \in Nat /\ nextId \notin 1 .. nextId - 1
      /\ nextId \in 1 .. nextId' - 1
      /\ \A i \in 1 .. nextId' - 1 : i = nextId \/ i \in 1 .. nextId - 1
      /\ 1 .. nextId - 1 \subseteq 1 .. nextId' - 1
  <2>1. nextId \in Nat /\ nextId >= 1
    BY <1>1, IdFacts DEF Ids
  <2>2. nextId' = nextId + 1
    BY <1>1
  <2> QED BY <2>1, <2>2
<1>4. /\ \A i \in 1 .. nextId - 1 : order'[i] = order[i] /\ left'[i] = left[i]
      /\ order'[nextId] = r.order
      /\ fate[nextId] = "none"
      /\ \A i \in Ids : i # nextId => fate'[i] = fate[i]
      /\ nextId \notin entered /\ nextId \notin waiting \cup released
      /\ \A u \in Threads : pc[u] \in Working => job[u] # nextId
  BY <1>1, <1>2, <1>3, IdFacts
     DEF BookInv, BookTypeOK, EngineTypeOK, FateInv, HeldInv, JobInv
<1>5. \A i \in Ids : Resting(i)' <=> Resting(i)
  BY <1>1 DEF Resting, FoundAt
<1>6. /\ \A u \in Threads : u # t => pc'[u] = pc[u] /\ job'[u] = job[u]
      /\ \/ pc'[t] = "risk" /\ job'[t] = nextId /\ r.order.symbol \in Listed /\ fate' = fate
         \/ pc'[t] = Idle /\ fate'[nextId] # "none"
      /\ pc[t] \notin Working \cup {"fallback"}
      /\ Idle \notin Working \cup {"fallback"}
      /\ "risk" \in Unmatched /\ Unmatched \subseteq Working
  BY <1>1 DEF Moves, Valid, EngineTypeOK, Idle, Working, Unmatched, Settling
<1>7. JobInv'
  BY <1>3, <1>4, <1>6 DEF JobInv
<1>8. LoneInv'
  BY <1>4, <1>6 DEF LoneInv
<1>9. PhaseInv'
  <2>1. ASSUME NEW u \in Threads, u # t, pc[u] \in Working
        PROVE  /\ pc'[u] = pc[u] /\ job'[u] = job[u] /\ order'[job[u]] = order[job[u]]
               /\ fate'[job[u]] = fate[job[u]]
    <3>1. job[u] \in 1 .. nextId - 1
      BY <2>1 DEF JobInv
    <3> QED BY <2>1, <3>1, <1>3, <1>4, <1>6, IdFacts
  <2>2. ASSUME NEW u \in Threads, u # t
        PROVE  /\ pc'[u] \in Unmatched => job'[u] \notin entered'
               /\ pc'[u] \in Unmatched \cup {"match"} => fate'[job'[u]] = "none"
               /\ pc'[u] = "match" =>
                    taker'[order'[job'[u]].symbol] = job'[u] /\ settled'[job'[u]] = 0
               /\ pc'[u] \in Settling =>
                    job'[u] \in entered' /\ taker'[order'[job'[u]].symbol] # job'[u]
               /\ pc'[u] = "settle" => settled'[job'[u]] < Len(trades'[job'[u]])
               /\ pc'[u] \in {"price", "mark"} =>
                    settled'[job'[u]] \in 1 .. Len(trades'[job'[u]])
    BY <1>1, <1>6, <2>1, <2>2 DEF PhaseInv, Working, Unmatched, Settling
  <2>3. CASE pc'[t] = "risk"
    BY <1>1, <1>4, <1>6, <2>2, <2>3 DEF PhaseInv, Settling
  <2>4. CASE pc'[t] = Idle
    BY <1>1, <1>6, <2>2, <2>4 DEF PhaseInv, Settling, Working
  <2> QED BY <1>6, <2>3, <2>4
<1>10. LockInv'
  BY <1>1, <1>6 DEF LockInv, Working
<1>11. HeldInv'
  <2>1. \A i \in waiting \cup released :
          /\ i \in 1 .. nextId - 1 /\ i # nextId /\ i \in Ids
          /\ order'[i] = order[i] /\ fate'[i] = fate[i]
    BY <1>3, <1>4, IdFacts DEF HeldInv
  <2> QED BY <1>1, <1>3, <1>6, <2>1 DEF HeldInv
<1>12. FateInv'
  <2> SUFFICES ASSUME NEW i \in Ids, fate'[i] # "none"
               PROVE  /\ i < nextId' /\ ~Resting(i)'
                      /\ i \in entered => /\ left'[i] > 0
                                           /\ order'[i].kind # "MARKET"
                                           /\ taker[order'[i].symbol] # i
    BY <1>1 DEF FateInv
  <2>1. CASE i = nextId
    BY <2>1, <1>1, <1>3, <1>4, <1>5, IdFacts, RestingFacts DEF Resting
  <2>2. CASE i # nextId
    <3>1. fate[i] # "none" /\ i < nextId /\ i \in 1 .. nextId - 1
      BY <2>2, <1>3, <1>4 DEF FateInv, Ids
    <3>2. i < nextId' /\ order'[i] = order[i] /\ left'[i] = left[i]
      BY <3>1, <1>1, <1>3, <1>4
    <3>3. ~Resting(i)'
      BY <3>1, <1>5 DEF FateInv
    <3> QED BY <3>1, <3>2, <3>3 DEF FateInv
  <2> QED BY <2>1, <2>2
<1>13. KnownInv'
  <2> SUFFICES ASSUME NEW i \in 1 .. nextId' - 1
               PROVE  \/ i \in entered \cup waiting \cup released
                      \/ fate'[i] # "none"
                      \/ \E u \in Threads : pc'[u] \in Unmatched /\ job'[u] = i
    BY <1>1 DEF KnownInv
  <2>1. CASE i = nextId
    BY <2>1, <1>1, <1>6
  <2>2. CASE i \in 1 .. nextId - 1
    <3>1. fate'[i] = fate[i]
      BY <2>2, <1>3, <1>4, IdFacts
    <3> QED BY <2>2, <3>1, <1>6 DEF KnownInv
  <2> QED BY <2>1, <2>2, <1>3
<1>14. EnteredInv'
  <2>1. \A i \in entered : /\ i \in Ids /\ order'[i] = order[i] /\ left'[i] = left[i]
                            /\ fate'[i] = fate[i]
    BY <1>3, <1>4, IdFacts
  <2> QED BY <1>1, <1>5, <2>1 DEF EnteredInv
<1>15. NoTradeForgotten'
  <2>1. \A u \in Threads : pc[u] \in {"match", "settle", "price", "mark"} => u # t
    BY <1>6 DEF Working, Settling
  <2> QED BY <1>1, <1>6, <2>1 DEF NoTradeForgotten, Unsettled
<1> QED BY <1>7, <1>8, <1>9, <1>10, <1>11, <1>12, <1>13, <1>14, <1>15

\* A trade is settled.
LEMMA SettleStep ==
  ASSUME EngineInv, NEW t \in Threads, Settle(t)
  PROVE  OwnerInv'
<1> USE BooksStill DEF EngineInv, OwnerInv
<1>1. /\ pc[t] = "settle" /\ Moves(t, "price", job[t])
      /\ UNCHANGED bookVars
      /\ UNCHANGED <<waiting, released, fate>>
      /\ settled' = [settled EXCEPT ![job[t]] = @ + 1]
  BY GoMoves DEF Settle, watcherVars
<1>2. /\ job[t] \in Ids /\ settled[job[t]] \in Nat
      /\ settled[job[t]] < Len(trades[job[t]])
      /\ settled'[job[t]] = settled[job[t]] + 1
      /\ \A i \in Ids : i # job[t] => settled'[i] = settled[i]
  BY <1>1, IdFacts DEF EngineTypeOK, JobInv, PhaseInv, Working, Settling
<1>3. \A u \in Threads :
        /\ job'[u] = job[u] /\ (u # t => pc'[u] = pc[u])
        /\ pc'[u] \in Working <=> pc[u] \in Working
        /\ pc'[u] \in Unmatched <=> pc[u] \in Unmatched
        /\ pc'[u] \in Settling <=> pc[u] \in Settling
        /\ pc'[u] = "match" <=> pc[u] = "match"
        /\ pc'[u] = "fallback" <=> pc[u] = "fallback"
        /\ pc'[u] \in {"match", "settle", "price", "mark"}
             <=> pc[u] \in {"match", "settle", "price", "mark"}
  BY <1>1 DEF Moves, Working, Unmatched, Settling
<1>4. JobInv' /\ LoneInv'
  BY <1>1, <1>3 DEF JobInv, LoneInv
<1>5. PhaseInv'
  <2>1. \A u \in Threads : u # t /\ pc[u] \in Working =>
          job[u] # job[t] /\ job[u] \in Ids /\ settled'[job[u]] = settled[job[u]]
    BY <1>1, <1>2, IdFacts DEF LoneInv, JobInv, Working, Settling
  <2>2. settled'[job[t]] \in 1 .. Len(trades[job[t]]) /\ pc'[t] = "price"
    BY <1>1, <1>2, IdFacts DEF Moves
  <2>3. ASSUME NEW u \in Threads, u # t
        PROVE  /\ pc'[u] = "match" => settled'[job[u]] = 0
               /\ pc'[u] = "settle" => settled'[job[u]] < Len(trades[job[u]])
               /\ pc'[u] \in {"price", "mark"} => settled'[job[u]] \in 1 .. Len(trades[job[u]])
    BY <1>3, <2>1, <2>3 DEF PhaseInv, Working, Settling
  <2> QED BY <1>1, <1>3, <2>2, <2>3 DEF PhaseInv
<1>6. LockInv' /\ KnownInv'
  BY <1>1, <1>3 DEF LockInv, KnownInv
<1>7. HeldInv'
  BY <1>1, <1>3 DEF HeldInv
<1>8. FateInv' /\ EnteredInv'
  BY <1>1, IdFacts DEF FateInv, EnteredInv
<1>9. NoTradeForgotten'
  BY <1>1, <1>2, <1>3, IdFacts DEF NoTradeForgotten, Unsettled
<1> QED BY <1>4, <1>5, <1>6, <1>7, <1>8, <1>9

\* The watcher takes a released order in hand.
LEMMA ReleaseStep ==
  ASSUME EngineInv, NEW id \in Ids, Release(id)
  PROVE  OwnerInv'
<1> USE BooksStill DEF EngineInv, OwnerInv
<1>1. /\ pc[Watcher] = "release" /\ Watcher \in Threads
      /\ Moves(Watcher, "enter", id)
      /\ UNCHANGED bookVars
      /\ UNCHANGED <<waiting, fate, settled>>
      /\ id \in released /\ released' = released \ {id}
  <2>1. Watcher \in Threads
    BY DEF Threads
  <2> QED BY <2>1, ReturnMoves DEF Release, moneyVars
<1>2. /\ id \in 1 .. nextId - 1 /\ order[id].symbol \in Listed /\ id \notin entered
      /\ fate[id] = "none" /\ id \notin waiting
      /\ \A u \in Threads : pc[u] \in Working => job[u] # id
  BY <1>1 DEF HeldInv
<1>3. /\ pc'[Watcher] = "enter" /\ job'[Watcher] = id
      /\ \A u \in Threads : u # Watcher => pc'[u] = pc[u] /\ job'[u] = job[u]
      /\ "enter" \in Unmatched /\ "enter" \in Working
      /\ pc[Watcher] \notin Working
  BY <1>1 DEF Moves, Unmatched, Working, Settling
<1>4. JobInv' /\ LoneInv'
  BY <1>1, <1>2, <1>3 DEF JobInv, LoneInv
<1>5. PhaseInv'
  BY <1>1, <1>2, <1>3 DEF PhaseInv, Settling
<1>6. LockInv'
  BY <1>1, <1>3 DEF LockInv, Working
<1>7. HeldInv'
  BY <1>1, <1>2, <1>3 DEF HeldInv
<1>8. FateInv' /\ EnteredInv'
  BY <1>1, IdFacts DEF FateInv, EnteredInv
<1>9. KnownInv'
  BY <1>1, <1>3 DEF KnownInv, Working
<1>10. NoTradeForgotten'
  BY <1>1, <1>3 DEF NoTradeForgotten, Unsettled, Working, Settling
<1> QED BY <1>4, <1>5, <1>6, <1>7, <1>8, <1>9, <1>10

-----------------------------------------------------------------------------
\* The steps of the books

\* A thread waits for a book's lock and takes it.
LEMMA EnterStep ==
  ASSUME EngineInv, NEW t \in Threads, EnterBook(t)
  PROVE  OwnerInv'
<1> USE DEF EngineInv, OwnerInv
<1> DEFINE id == job[t]
           s == order[id].symbol
<1>1. /\ pc[t] = "enter" /\ Moves(t, "match", id)
      /\ id \notin entered /\ taker[s] = NoOrder
      /\ entered' = entered \cup {id}
      /\ taker' = [taker EXCEPT ![s] = id]
      /\ UNCHANGED <<nextId, order, left, queue, trades>>
      /\ UNCHANGED <<waiting, released, fate, settled>>
  BY GoMoves DEF EnterBook, Enter, moneyVars, watcherVars
<1>2. /\ id \in 1 .. nextId - 1 /\ id \in Ids /\ s \in Symbols /\ s \in Listed
      /\ trades[id] = <<>> /\ id # NoOrder
      /\ settled[id] = 0
      /\ taker'[s] = id /\ (\A x \in Symbols : x # s => taker'[x] = taker[x])
      /\ fate[id] = "none" /\ ~Resting(id) /\ id \notin waiting \cup released
  <2>1. pc[t] \in Working /\ pc[t] \in Unmatched
    BY <1>1 DEF Working, Unmatched
  <2>2. id \in 1 .. nextId - 1 /\ s \in Listed /\ fate[id] = "none"
    BY <2>1 DEF JobInv, PhaseInv
  <2>3. id \in Ids /\ s \in Symbols /\ trades[id] = <<>> /\ id # NoOrder
    BY <1>1, <2>2, IdFacts
  <2>4. settled[id] = 0
    BY <2>3 DEF NoTradeForgotten, EngineTypeOK
  <2>5. taker'[s] = id /\ (\A x \in Symbols : x # s => taker'[x] = taker[x])
    BY <1>1, <2>3 DEF BookInv, BookTypeOK
  <2>6. ~Resting(id)
    BY <1>1, RestingFacts DEF Resting
  <2>7. id \notin waiting \cup released
    BY <2>1 DEF HeldInv
  <2> QED BY <2>2, <2>3, <2>4, <2>5, <2>6, <2>7
<1>3. \A i \in Ids : Resting(i)' <=> Resting(i)
  BY <1>1 DEF Resting, FoundAt
<1>4. \A u \in Threads :
        /\ job'[u] = job[u] /\ (u # t => pc'[u] = pc[u])
        /\ pc'[u] \in Working <=> pc[u] \in Working
        /\ pc'[u] \in Unmatched => pc[u] \in Unmatched
        /\ pc'[u] \in Settling <=> pc[u] \in Settling
        /\ pc'[u] = "fallback" <=> pc[u] = "fallback"
  BY <1>1 DEF Moves, Working, Unmatched, Settling
<1>5. \A u \in Threads : u # t /\ pc[u] \in Working =>
        job[u] # id /\ job[u] \in Ids /\ order[job[u]].symbol \in Symbols
  BY <1>1, IdFacts DEF LoneInv, JobInv, Working, Unmatched
<1>6. pc'[t] = "match" /\ job'[t] = id
  BY <1>1 DEF Moves
<1> HIDE DEF id, s
<1>7. JobInv' /\ LoneInv'
  BY <1>1, <1>4 DEF JobInv, LoneInv
<1>8. PhaseInv'
  <2>1. ASSUME NEW u \in Threads, u # t
        PROVE  /\ pc'[u] \in Unmatched => job'[u] \notin entered'
               /\ pc'[u] \in Unmatched \cup {"match"} => fate'[job'[u]] = "none"
               /\ pc'[u] = "match" =>
                    taker'[order'[job'[u]].symbol] = job'[u] /\ settled'[job'[u]] = 0
               /\ pc'[u] \in Settling =>
                    job'[u] \in entered' /\ taker'[order'[job'[u]].symbol] # job'[u]
               /\ pc'[u] = "settle" => settled'[job'[u]] < Len(trades'[job'[u]])
               /\ pc'[u] \in {"price", "mark"} =>
                    settled'[job'[u]] \in 1 .. Len(trades'[job'[u]])
    <3>1. pc'[u] = pc[u] /\ job'[u] = job[u]
      BY <1>4, <2>1
    <3>2. CASE pc[u] \in Working
      <4>1. job[u] # id /\ job[u] \in Ids /\ order[job[u]].symbol \in Symbols
        BY <1>5, <2>1, <3>2
      <4>2. pc[u] = "match" => order[job[u]].symbol # s
        BY <1>1, <4>1, IdFacts DEF PhaseInv, id, s
      <4>3. pc[u] \in Settling => taker'[order[job[u]].symbol] # job[u]
        BY <1>2, <4>1 DEF PhaseInv
      <4> QED BY <1>1, <1>2, <3>1, <4>1, <4>2, <4>3 DEF PhaseInv
    <3>3. CASE pc[u] \notin Working
      BY <3>1, <3>3 DEF Working, Unmatched, Settling
    <3> QED BY <3>2, <3>3
  <2>2. pc'[t] = "match" /\ job'[t] = id /\ taker'[order'[id].symbol] = id
        /\ settled'[id] = 0 /\ fate'[id] = "none"
    BY <1>1, <1>2, <1>6 DEF s
  <2> QED BY <2>1, <2>2 DEF PhaseInv, Unmatched, Settling
<1>9. LockInv'
  <2> SUFFICES ASSUME NEW x \in Symbols, taker'[x] # NoOrder
               PROVE  \E u \in Threads : pc'[u] = "match" /\ job'[u] = taker'[x]
    BY DEF LockInv
  <2>1. CASE x = s
    BY <2>1, <1>2, <1>6
  <2>2. CASE x # s
    <3>1. PICK u \in Threads : pc[u] = "match" /\ job[u] = taker[x]
      BY <2>2, <1>2 DEF LockInv
    <3>2. u # t
      BY <3>1, <1>1
    <3> QED BY <3>1, <3>2, <2>2, <1>2, <1>4
  <2> QED BY <2>1, <2>2
<1>10. HeldInv'
  BY <1>1, <1>2, <1>4 DEF HeldInv
<1>11. FateInv'
  <2>1. \A i \in Ids : fate[i] # "none" =>
           i # id /\ (i \in entered' => i \in entered) /\ order[i].symbol \in Symbols
    BY <1>1, <1>2, IdFacts DEF id
  <2> QED BY <1>1, <1>2, <1>3, <2>1 DEF FateInv
<1>12. KnownInv'
  <2> SUFFICES ASSUME NEW i \in 1 .. nextId - 1
               PROVE  \/ i \in entered' \cup waiting \cup released
                      \/ fate[i] # "none"
                      \/ \E u \in Threads : pc'[u] \in Unmatched /\ job'[u] = i
    BY <1>1 DEF KnownInv
  <2>1. CASE i = id
    BY <2>1, <1>1 DEF id
  <2>2. CASE i # id
    BY <2>2, <1>1, <1>4 DEF KnownInv, id
  <2> QED BY <2>1, <2>2
<1>13. EnteredInv'
  <2> SUFFICES ASSUME NEW i \in entered, i # id
               PROVE  \/ taker'[order[i].symbol] = i
                      \/ Resting(i)'
                      \/ fate[i] # "none" \/ left[i] = 0 \/ order[i].kind = "MARKET"
    BY <1>1, <1>2 DEF EnteredInv, id, s
  <2>1. i \in Ids /\ order[i].symbol \in Symbols /\ i # NoOrder
    BY IdFacts
  <2>2. taker[order[i].symbol] = i => order[i].symbol # s
    BY <1>1, <2>1 DEF s, id
  <2> QED BY <1>2, <1>3, <2>1, <2>2 DEF EnteredInv
<1>14. NoTradeForgotten'
  <2>1. \A u \in Threads : pc[u] \in {"match", "settle", "price", "mark"} =>
           pc'[u] \in {"match", "settle", "price", "mark"} /\ job'[u] = job[u]
    BY <1>1, <1>4
  <2> QED BY <1>1, <2>1 DEF NoTradeForgotten, Unsettled
<1> QED BY <1>7, <1>8, <1>9, <1>10, <1>11, <1>12, <1>13, <1>14

\* One turn of the loop of the thread that holds the lock.
LEMMA MatchStep ==
  ASSUME EngineInv, NEW t \in Threads, Match(t)
  PROVE  OwnerInv'
<1> USE DEF EngineInv, OwnerInv
<1> DEFINE id == job[t]
           s == order[id].symbol
<1>1. /\ pc[t] = "match" /\ UNCHANGED engineVars /\ \E p \in Prices : FillAt(s, p)
  BY DEF Match, Fill, SymbolOf
<1>2. /\ id \in Ids /\ s \in Symbols /\ taker[s] = id /\ fate[id] = "none" /\ settled[id] = 0
  BY <1>1, IdFacts DEF JobInv, PhaseInv, Working
<1>3. PICK p \in Prices : FillAt(s, p)
  BY <1>1
<1> DEFINE m == MakerAt(s, p)
           n == TradedAt(s, p)
<1>4. /\ UNCHANGED <<nextId, order, entered, taker>>
      /\ UNCHANGED <<waiting, released, fate, settled, pc, job>>
  BY <1>1, <1>3 DEF FillAt, engineVars
<1>5. /\ Resting(m) /\ m \in Ids /\ m # id
      /\ \A i \in Ids : (Resting(i)' => Resting(i))
                        /\ (Resting(i) /\ ~Resting(i)' => i = m /\ left[i] = n)
  BY <1>2, <1>3, FillResting
<1>6. /\ \A i \in Ids : i # id /\ i # m => left'[i] = left[i]
      /\ left[m] = n => left'[m] = 0
  <2>1. left' = [left EXCEPT ![taker[s]] = @ - n, ![m] = @ - n]
    BY <1>3 DEF FillAt, Reduced
  <2>2. left \in [Ids -> Nat]
    BY DEF BookInv, BookTypeOK
  <2> HIDE DEF m, n, id, s
  <2> QED BY <1>2, <1>5, <2>1, <2>2
<1>7. /\ \A i \in Ids : i # id => trades'[i] = trades[i]
      /\ Len(trades'[id]) = Len(trades[id]) + 1
  <2> DEFINE trade == [maker |-> m, quantity |-> n, price |-> p]
  <2>1. trades' = [trades EXCEPT ![taker[s]] = Append(@, trade)]
    BY <1>3 DEF FillAt
  <2>2. trades \in [Ids -> Seq(Trades)]
    BY DEF BookInv, BookTypeOK
  <2> HIDE DEF trade, m, n, id, s
  <2> QED BY <1>2, <2>1, <2>2
<1>8. fate[m] = "none"
  BY <1>5 DEF FateInv
<1> HIDE DEF m, n, id, s
<1>9. JobInv' /\ LoneInv' /\ HeldInv' /\ LockInv' /\ KnownInv'
  BY <1>4 DEF JobInv, LoneInv, HeldInv, LockInv, KnownInv
<1>10. PhaseInv'
  <2>1. \A u \in Threads : pc[u] \in Settling =>
           job[u] # id /\ job[u] \in Ids /\ trades'[job[u]] = trades[job[u]]
    BY <1>1, <1>7, IdFacts DEF LoneInv, JobInv, Working, Settling, id
  <2> QED BY <1>4, <2>1 DEF PhaseInv, Settling
<1>11. FateInv'
  <2>1. \A i \in Ids : fate[i] # "none" => i # id /\ i # m
    BY <1>2, <1>8
  <2> QED BY <1>4, <1>5, <1>6, <2>1 DEF FateInv
<1>12. EnteredInv'
  <2> SUFFICES ASSUME NEW i \in entered
               PROVE  \/ taker[order[i].symbol] = i
                      \/ Resting(i)'
                      \/ fate[i] # "none" \/ left'[i] = 0 \/ order[i].kind = "MARKET"
    BY <1>4 DEF EnteredInv
  <2>1. i \in Ids
    BY IdFacts
  <2>2. CASE i = id
    BY <2>2, <1>2 DEF s
  <2>3. CASE i # id /\ i # m
    BY <2>1, <2>3, <1>5, <1>6 DEF EnteredInv
  <2>4. CASE i = m
    BY <2>1, <2>4, <1>5, <1>6
  <2> QED BY <2>2, <2>3, <2>4
<1>13. NoTradeForgotten'
  <2> SUFFICES ASSUME NEW i \in Ids
               PROVE  /\ settled[i] <= Len(trades'[i])
                      /\ settled[i] < Len(trades'[i]) => \E u \in Threads :
                           job[u] = i /\ pc[u] \in {"match", "settle", "price", "mark"}
    BY <1>4 DEF NoTradeForgotten, Unsettled
  <2>1. CASE i = id
    <3>1. Len(trades[id]) \in Nat
      BY <1>2, IdFacts
    <3> QED BY <2>1, <3>1, <1>1, <1>2, <1>7 DEF id
  <2>2. CASE i # id
    BY <2>2, <1>7 DEF NoTradeForgotten, Unsettled
  <2> QED BY <2>1, <2>2
<1> QED BY <1>9, <1>10, <1>11, <1>12, <1>13

\* match() returns, and its trades are settled, if there are any.
LEMMA LeaveStep ==
  ASSUME EngineInv, NEW t \in Threads, LeaveBook(t)
  PROVE  OwnerInv'
<1> USE DEF EngineInv, OwnerInv
<1> DEFINE id == job[t]
           s == order[id].symbol
<1>1. /\ pc[t] = "match" /\ Finish(s)
      /\ UNCHANGED <<nextId, order, left, entered, trades>>
      /\ taker' = [taker EXCEPT ![s] = NoOrder]
      /\ UNCHANGED <<waiting, released, fate, settled>>
  <2>1. pc[t] = "match" /\ Finish(s)
    BY DEF LeaveBook, SymbolOf
  <2>2. UNCHANGED <<waiting, released, fate, settled>>
    BY DEF LeaveBook, moneyVars, watcherVars
  <2> QED BY <2>1, <2>2 DEF Finish
<1>2. \/ trades[id] # <<>> /\ Moves(t, "settle", id)
      \/ /\ trades[id] = <<>>
         /\ Moves(t, Idle, NoOrder) \/ Moves(t, "release", NoOrder)
  BY GoMoves, EndOfMatchMoves DEF LeaveBook
<1>3. /\ id \in 1 .. nextId - 1 /\ id \in Ids /\ s \in Symbols /\ s \in Listed
      /\ taker[s] = id /\ settled[id] = 0 /\ id \in entered /\ id # NoOrder
  BY <1>1, IdFacts DEF JobInv, PhaseInv, Working, BookInv, LockHolder
<1>4. taker'[s] = NoOrder /\ (\A x \in Symbols : x # s => taker'[x] = taker[x])
  BY <1>1, <1>3 DEF BookInv, BookTypeOK
<1>5. \A i \in Ids : Resting(i)' <=> Resting(i) \/ (i = id /\ Rests(s))
  BY <1>1, <1>3, FinishResting
<1>6. Rests(s) \/ left[id] = 0 \/ order[id].kind = "MARKET"
  BY <1>3 DEF Rests, BookInv, BookTypeOK
<1>7. /\ \A u \in Threads : u # t => pc'[u] = pc[u] /\ job'[u] = job[u]
      /\ \/ pc'[t] = "settle" /\ job'[t] = id /\ trades[id] # <<>>
         \/ pc'[t] \notin Working \cup {"fallback"} /\ trades[id] = <<>>
  BY <1>2 DEF Moves, Working, Unmatched, Settling, Idle
<1>8. pc[t] \in Working /\ "settle" \in Working /\ "settle" \in Settling
  BY <1>1 DEF Working, Settling
<1>9. \A u \in Threads : u # t /\ pc[u] \in Working =>
        job[u] # id /\ job[u] \in Ids /\ order[job[u]].symbol \in Symbols
  BY <1>8, IdFacts DEF LoneInv, JobInv
<1>10. settled[id] < Len(trades[id]) <=> trades[id] # <<>>
  <2>1. trades[id] \in Seq(Trades)
    BY <1>3 DEF BookInv, BookTypeOK
  <2> HIDE DEF id
  <2> QED BY <1>3, <2>1
<1> HIDE DEF id, s
<1>11. JobInv'
  BY <1>1, <1>3, <1>7 DEF JobInv, s
<1>12. LoneInv'
  BY <1>7, <1>9 DEF LoneInv
<1>13. PhaseInv'
  <2>1. ASSUME NEW u \in Threads, u # t
        PROVE  /\ pc'[u] \in Unmatched => job'[u] \notin entered'
               /\ pc'[u] \in Unmatched \cup {"match"} => fate'[job'[u]] = "none"
               /\ pc'[u] = "match" =>
                    taker'[order'[job'[u]].symbol] = job'[u] /\ settled'[job'[u]] = 0
               /\ pc'[u] \in Settling =>
                    job'[u] \in entered' /\ taker'[order'[job'[u]].symbol] # job'[u]
               /\ pc'[u] = "settle" => settled'[job'[u]] < Len(trades'[job'[u]])
               /\ pc'[u] \in {"price", "mark"} =>
                    settled'[job'[u]] \in 1 .. Len(trades'[job'[u]])
    <3>1. pc'[u] = pc[u] /\ job'[u] = job[u]
      BY <1>7, <2>1
    <3>2. CASE pc[u] \in Working
      <4>1. job[u] # id /\ job[u] \in Ids /\ order[job[u]].symbol \in Symbols /\ job[u] # NoOrder
        BY <1>9, <2>1, <3>2, IdFacts
      <4>2. pc[u] = "match" => order[job[u]].symbol # s
        BY <1>3, <4>1 DEF PhaseInv
      <4>3. pc[u] \in Settling => taker'[order[job[u]].symbol] # job[u]
        BY <1>4, <4>1 DEF PhaseInv
      <4> QED BY <1>1, <1>4, <3>1, <4>1, <4>2, <4>3 DEF PhaseInv
    <3>3. CASE pc[u] \notin Working
      BY <3>1, <3>3 DEF Working, Unmatched, Settling
    <3> QED BY <3>2, <3>3
  <2>2. CASE pc'[t] = "settle"
    <3>1. /\ job'[t] = id /\ id \in entered' /\ taker'[order'[id].symbol] # id
          /\ settled'[id] < Len(trades'[id])
      BY <2>2, <1>1, <1>3, <1>4, <1>7, <1>8, <1>10 DEF s
    <3> QED BY <2>1, <2>2, <3>1 DEF PhaseInv, Unmatched
  <2>3. CASE pc'[t] \notin Working
    BY <2>1, <2>3 DEF PhaseInv, Working, Unmatched, Settling
  <2> QED BY <1>7, <2>2, <2>3
<1>14. LockInv'
  <2> SUFFICES ASSUME NEW x \in Symbols, taker'[x] # NoOrder
               PROVE  \E u \in Threads : pc'[u] = "match" /\ job'[u] = taker'[x]
    BY DEF LockInv
  <2>1. x # s /\ taker'[x] = taker[x]
    BY <1>4
  <2>2. PICK u \in Threads : pc[u] = "match" /\ job[u] = taker[x]
    BY <2>1 DEF LockInv
  <2>3. u # t
    <3>1. order[taker[x]].symbol = x
      BY <2>1 DEF BookInv, LockHolder
    <3> QED BY <2>1, <2>2, <3>1 DEF id, s
  <2> QED BY <1>7, <2>1, <2>2, <2>3
<1>15. HeldInv'
  BY <1>1, <1>7, <1>8 DEF HeldInv, id
<1>16. FateInv'
  <2>1. \A i \in Ids : fate[i] # "none" =>
           i # id /\ i # NoOrder /\ order[i].symbol \in Symbols
    BY <1>1, IdFacts DEF PhaseInv, id
  <2> QED BY <1>1, <1>4, <1>5, <2>1 DEF FateInv
<1>17. KnownInv'
  <2>1. \A u \in Threads : pc[u] \in Unmatched => u # t
    BY <1>1 DEF Unmatched
  <2> QED BY <1>1, <1>7, <2>1 DEF KnownInv
<1>18. EnteredInv'
  <2> SUFFICES ASSUME NEW i \in entered
               PROVE  \/ taker'[order[i].symbol] = i
                      \/ Resting(i)'
                      \/ fate[i] # "none" \/ left[i] = 0 \/ order[i].kind = "MARKET"
    BY <1>1 DEF EnteredInv
  <2>1. i \in Ids /\ order[i].symbol \in Symbols /\ i # NoOrder
    BY IdFacts
  <2>2. CASE i = id
    BY <2>1, <2>2, <1>5, <1>6
  <2>3. CASE i # id
    BY <2>1, <2>3, <1>3, <1>4, <1>5 DEF EnteredInv
  <2> QED BY <2>2, <2>3
<1>19. NoTradeForgotten'
  <2> SUFFICES ASSUME NEW i \in Ids, settled[i] < Len(trades[i])
               PROVE  \E u \in Threads : /\ job'[u] = i
                                         /\ pc'[u] \in {"match", "settle", "price", "mark"}
    BY <1>1 DEF NoTradeForgotten, Unsettled
  <2>1. CASE i = id
    BY <2>1, <1>7, <1>10
  <2>2. CASE i # id
    <3>1. PICK u \in Threads : job[u] = i /\ pc[u] \in {"match", "settle", "price", "mark"}
      BY DEF NoTradeForgotten, Unsettled
    <3>2. u # t
      BY <2>2, <3>1 DEF id
    <3> QED BY <1>7, <3>1, <3>2
  <2> QED BY <2>1, <2>2
<1> QED BY <1>11, <1>12, <1>13, <1>14, <1>15, <1>16, <1>17, <1>18, <1>19

\* A resting order is cancelled.
LEMMA CancelStep ==
  ASSUME EngineInv, NEW t \in Workers, NEW id \in Ids, CancelInBook(t, id)
  PROVE  OwnerInv'
<1> USE DEF EngineInv, OwnerInv
<1>1. /\ UNCHANGED <<nextId, order, left, entered, taker, trades>>
      /\ UNCHANGED <<waiting, released, settled, pc, job>>
      /\ fate' = [fate EXCEPT ![id] = "cancelled"]
      /\ \E d \in Sides, p \in Prices : CancelAt(order[id].symbol, d, p, id)
  BY DEF CancelInBook, CancelById, CancelAt, moneyVars, watcherVars
<1>2. PICK d \in Sides, p \in Prices : CancelAt(order[id].symbol, d, p, id)
  BY <1>1
<1>3. order[id].symbol \in Symbols
  BY IdFacts
<1>4. /\ \A i \in Ids : Resting(i)' <=> Resting(i) /\ i # id
      /\ Resting(id)
      /\ id \in entered /\ left[id] > 0 /\ order[id].kind # "MARKET"
      /\ taker[order[id].symbol] # id
  <2>1. FoundAt(order[id].symbol, d, p, id)
    BY <1>2 DEF CancelAt
  <2> QED BY <1>2, <1>3, <2>1, CancelResting, RestingFacts DEF Resting
<1>5. /\ fate[id] = "none" /\ fate'[id] # "none" /\ (\A i \in Ids : i # id => fate'[i] = fate[i])
      /\ id \in 1 .. nextId - 1 /\ id \notin waiting \cup released
  BY <1>1, <1>4, IdFacts DEF FateInv, EngineTypeOK, HeldInv
<1>6. \A u \in Threads : pc[u] \in Unmatched \cup {"match"} => job[u] # id /\ job[u] \in Ids
  BY <1>4, IdFacts DEF PhaseInv, JobInv, Working
<1>7. JobInv' /\ LoneInv' /\ LockInv'
  BY <1>1 DEF JobInv, LoneInv, LockInv
<1>8. PhaseInv'
  BY <1>1, <1>5, <1>6 DEF PhaseInv
<1>9. HeldInv'
  <2>1. \A i \in waiting \cup released : fate'[i] = fate[i]
    BY <1>5, IdFacts DEF HeldInv
  <2> QED BY <1>1, <2>1 DEF HeldInv
<1>10. FateInv'
  <2>1. id < nextId
    BY <1>5, IdFacts
  <2> QED BY <1>1, <1>4, <1>5, <2>1 DEF FateInv
<1>11. KnownInv'
  <2>1. \A i \in Ids : fate[i] # "none" => fate'[i] # "none"
    BY <1>5
  <2> QED BY <1>1, <2>1, IdFacts DEF KnownInv
<1>12. EnteredInv'
  <2>1. \A i \in entered : i \in Ids
    BY IdFacts
  <2> QED BY <1>1, <1>4, <1>5, <2>1 DEF EnteredInv
<1>13. NoTradeForgotten'
  BY <1>1 DEF NoTradeForgotten, Unsettled
<1> QED BY <1>7, <1>8, <1>9, <1>10, <1>11, <1>12, <1>13

-----------------------------------------------------------------------------
\* Types

\* The types of the tables, of the clock and the watcher, and of the threads.
TablesTyped ==
  /\ request \in [Ids -> Requests]
  /\ stamp \in [Ids -> 0 .. MaxTime]
  /\ cash \in [Clients -> Int]
  /\ holding \in [Symbols -> [Clients -> Int]]
  /\ lastPrice \in [Symbols -> Prices]
  /\ dirty \subseteq Listed
  /\ waiting \subseteq Ids
  /\ fate \in [Ids -> Fates]
  /\ settled \in [Ids -> Nat]

WatcherTyped ==
  /\ clock \in 0 .. MaxTime
  /\ scanTime \in 0 .. MaxTime
  /\ toScan \subseteq Listed
  /\ released \subseteq Ids

ThreadsTyped ==
  /\ pc \in [Threads -> WorkerStates \cup WatcherStates]
  /\ \A t \in Workers : pc[t] \in WorkerStates
  /\ pc[Watcher] \in WatcherStates
  /\ job \in [Threads -> Ids \cup {NoOrder}]

LEMMA TypeParts ==
  EngineTypeOK <=> TablesTyped /\ WatcherTyped /\ ThreadsTyped
BY DEF EngineTypeOK, TablesTyped, WatcherTyped, ThreadsTyped

LEMMA TypePartsNext ==
  ASSUME TablesTyped', WatcherTyped', ThreadsTyped'
  PROVE  EngineTypeOK'
BY TypeParts, PTL

LEMMA TablesStill ==
  ASSUME TablesTyped,
         UNCHANGED <<request, stamp, cash, holding, lastPrice, dirty, waiting, fate, settled>>
  PROVE  TablesTyped'
BY DEF TablesTyped

LEMMA WatcherStill ==
  ASSUME WatcherTyped, UNCHANGED <<clock, scanTime, toScan, released>>
  PROVE  WatcherTyped'
BY DEF WatcherTyped

\* A thread goes to a state of its own kind, with a job.
LEMMA GoTyped ==
  ASSUME ThreadsTyped, NEW t \in Threads, NEW state, Go(t, state),
         t \in Workers => state \in WorkerStates,
         t = Watcher => state \in WatcherStates,
         \/ UNCHANGED job
         \/ \E id \in Ids \cup {NoOrder} : job' = [job EXCEPT ![t] = id]
  PROVE  ThreadsTyped'
<1>1. state \in WorkerStates \cup WatcherStates
  BY DEF Threads
<1>2. pc' = [pc EXCEPT ![t] = state] /\ pc \in [Threads -> WorkerStates \cup WatcherStates]
  BY DEF Go, ThreadsTyped
<1>3. Watcher \in Threads /\ Workers \subseteq Threads
  BY DEF Threads
<1>4. pc' \in [Threads -> WorkerStates \cup WatcherStates]
  BY <1>1, <1>2
<1>5. job' \in [Threads -> Ids \cup {NoOrder}]
  BY DEF ThreadsTyped
<1>6. (\A u \in Workers : pc'[u] \in WorkerStates) /\ pc'[Watcher] \in WatcherStates
  BY <1>2, <1>3 DEF ThreadsTyped
<1> QED BY <1>4, <1>5, <1>6 DEF ThreadsTyped

LEMMA EndOfMatchTyped ==
  ASSUME ThreadsTyped, NEW t \in Threads, EndOfMatch(t)
  PROVE  ThreadsTyped'
<1>1. Idle \in WorkerStates /\ Idle \in WatcherStates /\ "release" \in WatcherStates
  BY DEF WorkerStates, WatcherStates
<1>2. Watcher \notin Workers
  BY EngineAssumption
<1>3. /\ job' = [job EXCEPT ![t] = NoOrder]
      /\ Go(t, Idle) \/ (t = Watcher /\ Go(t, "release"))
  BY DEF EndOfMatch, Return
<1> QED BY <1>1, <1>2, <1>3, GoTyped

\* A step that leaves the tables and the watcher's variables alone.
LEMMA ThreadsOnly ==
  ASSUME EngineTypeOK, ThreadsTyped',
         UNCHANGED <<request, stamp, cash, holding, lastPrice, dirty, waiting, fate, settled>>,
         UNCHANGED <<clock, scanTime, toScan, released>>
  PROVE  EngineTypeOK'
BY TypeParts, TypePartsNext, TablesStill, WatcherStill

\* The steps of match_and_settle, by a worker or by the watcher.
LEMMA MatchAndSettleType ==
  ASSUME EngineInv, NEW t \in Threads, MatchAndSettle(t)
  PROVE  EngineTypeOK'
<1>1. EngineTypeOK /\ TablesTyped /\ WatcherTyped /\ ThreadsTyped
  BY TypeParts DEF EngineInv
<1>2. ASSUME NEW state \in {"enter", "match", "settle", "price", "mark"}, Go(t, state),
             UNCHANGED job
      PROVE  ThreadsTyped'
  <2>1. state \in WorkerStates /\ state \in WatcherStates
    BY DEF WorkerStates, WatcherStates
  <2> QED BY <1>1, <1>2, <2>1, GoTyped
<1>3. pc[t] \in Working => /\ job[t] \in Ids
                           /\ SymbolOf(t) \in Listed /\ SymbolOf(t) \in Symbols
                           /\ trades[job[t]] \in Seq(Trades)
                           /\ settled[job[t]] \in Nat
  BY <1>1, IdFacts
  DEF EngineInv, OwnerInv, JobInv, SymbolOf, BookInv, BookTypeOK, TablesTyped
<1>4. CASE EnterBook(t)
  <2>1. ThreadsTyped'
    BY <1>2, <1>4 DEF EnterBook
  <2> QED BY <1>1, <1>4, <2>1, ThreadsOnly DEF EnterBook, moneyVars, watcherVars
<1>5. CASE Match(t)
  <2>1. ThreadsTyped'
    BY <1>1, <1>5 DEF Match, engineVars, ThreadsTyped
  <2> QED BY <1>1, <1>5, <2>1, ThreadsOnly DEF Match, engineVars
<1>6. CASE LeaveBook(t)
  <2>1. ThreadsTyped'
    <3>1. CASE trades[job[t]] # <<>>
      BY <1>2, <1>6, <3>1 DEF LeaveBook
    <3>2. CASE trades[job[t]] = <<>>
      BY <1>1, <1>6, <3>2, EndOfMatchTyped DEF LeaveBook
    <3> QED BY <3>1, <3>2
  <2> QED BY <1>1, <1>6, <2>1, ThreadsOnly DEF LeaveBook, moneyVars, watcherVars
<1>7. CASE Settle(t)
  <2>1. pc[t] = "settle" /\ ThreadsTyped'
    BY <1>2, <1>7 DEF Settle
  <2>2. job[t] \in Ids /\ SymbolOf(t) \in Symbols /\ settled[job[t]] \in Nat
    BY <2>1, <1>3 DEF Working, Settling
  <2>3. CurrentTrade(t) \in Trades
    <3>1. settled[job[t]] < Len(trades[job[t]])
      BY <2>1 DEF EngineInv, OwnerInv, PhaseInv
    <3>2. trades[job[t]] \in Seq(Trades)
      BY <2>1, <1>3 DEF Working, Settling
    <3>3. settled[job[t]] + 1 \in 1 .. Len(trades[job[t]])
      BY <2>2, <3>1, <3>2
    <3> QED BY <3>2, <3>3 DEF CurrentTrade
  <2> DEFINE trade == CurrentTrade(t)
             buyer == Buyer(job[t], trade)
             seller == Seller(job[t], trade)
             amount == trade.quantity * trade.price
  <2>4. trade.maker \in Ids /\ trade.quantity \in Int /\ trade.price \in Int
    <3>1. \A x \in Trades : x.maker \in Ids /\ x.quantity \in Nat /\ x.price \in Prices
      BY DEF Trades
    <3>2. \A x \in Prices : x \in Int
      BY BookAssumption
    <3> QED BY <2>3, <3>1, <3>2
  <2>5. buyer \in Clients /\ seller \in Clients
    <3>1. \A i \in Ids : order[i].client \in Clients
      BY DEF EngineInv, BookInv, BookTypeOK, OrderRecords
    <3> QED BY <2>2, <2>4, <3>1 DEF Buyer, Seller
  <2>6. /\ cash' = Moved(cash, buyer, seller, amount)
        /\ holding' = [holding EXCEPT ![SymbolOf(t)] = Moved(@, seller, buyer, trade.quantity)]
        /\ settled' = [settled EXCEPT ![job[t]] = @ + 1]
    BY <1>7 DEF Settle
  <2>7. amount \in Int
    BY <2>4
  <2> HIDE DEF trade, buyer, seller, amount
  <2>8. ASSUME NEW f \in [Clients -> Int], NEW c \in Clients, NEW d \in Clients, NEW n \in Int
        PROVE  Moved(f, c, d, n) \in [Clients -> Int]
    <3>1. [f EXCEPT ![c] = @ - n] \in [Clients -> Int]
      OBVIOUS
    <3> QED BY <3>1 DEF Moved
  <2>9. cash' \in [Clients -> Int]
    BY <1>1, <2>5, <2>6, <2>7, <2>8 DEF TablesTyped
  <2>10. holding' \in [Symbols -> [Clients -> Int]]
    <3>1. holding \in [Symbols -> [Clients -> Int]]
      BY <1>1 DEF TablesTyped
    <3>2. Moved(holding[SymbolOf(t)], seller, buyer, trade.quantity) \in [Clients -> Int]
      BY <2>2, <2>4, <2>5, <2>8, <3>1
    <3>3. holding' = [holding EXCEPT ![SymbolOf(t)] =
                        Moved(holding[SymbolOf(t)], seller, buyer, trade.quantity)]
      BY <2>6
    <3> QED BY <3>1, <3>2, <3>3
  <2>11. settled' \in [Ids -> Nat]
    BY <1>1, <2>2, <2>6 DEF TablesTyped
  <2>12. UNCHANGED <<request, stamp, lastPrice, dirty, waiting, fate>>
         /\ UNCHANGED <<clock, scanTime, toScan, released>>
    BY <1>7 DEF Settle, watcherVars
  <2>13. TablesTyped'
    BY <1>1, <2>9, <2>10, <2>11, <2>12 DEF TablesTyped
  <2> QED BY <1>1, <2>1, <2>12, <2>13, WatcherStill, TypePartsNext
<1>8. CASE SetPrice(t)
  <2>1. pc[t] = "price" /\ ThreadsTyped'
    BY <1>2, <1>8 DEF SetPrice
  <2>2. trades[job[t]][settled[job[t]]] \in Trades
    <3>1. settled[job[t]] \in 1 .. Len(trades[job[t]])
      BY <2>1 DEF EngineInv, OwnerInv, PhaseInv
    <3>2. trades[job[t]] \in Seq(Trades)
      BY <2>1, <1>3 DEF Working, Settling
    <3> QED BY <3>1, <3>2
  <2>3. trades[job[t]][settled[job[t]]].price \in Prices
    BY <2>2 DEF Trades
  <2>4. /\ UNCHANGED <<request, stamp, cash, holding, settled, dirty, waiting, fate>>
        /\ UNCHANGED <<clock, scanTime, toScan, released>>
        /\ lastPrice' = [lastPrice EXCEPT ![SymbolOf(t)] = trades[job[t]][settled[job[t]]].price]
    BY <1>8 DEF SetPrice, moneyVars, watcherVars
  <2>5. TablesTyped'
    BY <1>1, <2>3, <2>4 DEF TablesTyped
  <2> QED BY <1>1, <2>1, <2>4, <2>5, WatcherStill, TypePartsNext
<1>9. CASE MarkDirty(t)
  <2>1. pc[t] = "mark" /\ dirty' = dirty \cup {SymbolOf(t)} /\ SymbolOf(t) \in Listed
    BY <1>3, <1>9 DEF MarkDirty, Working, Settling
  <2>2. ThreadsTyped'
    <3>1. CASE MoreTrades(t)
      BY <1>2, <1>9, <3>1 DEF MarkDirty
    <3>2. CASE ~MoreTrades(t)
      BY <1>1, <1>9, <3>2, EndOfMatchTyped DEF MarkDirty
    <3> QED BY <3>1, <3>2
  <2>3. /\ UNCHANGED <<request, stamp, cash, holding, settled, lastPrice, waiting, fate>>
        /\ UNCHANGED <<clock, scanTime, toScan, released>>
    BY <1>9 DEF MarkDirty, moneyVars, watcherVars
  <2>4. TablesTyped'
    BY <1>1, <2>1, <2>3 DEF TablesTyped
  <2> QED BY <1>1, <2>2, <2>3, <2>4, WatcherStill, TypePartsNext
<1> QED BY <1>4, <1>5, <1>6, <1>7, <1>8, <1>9 DEF MatchAndSettle

\* What a worker does outside match_and_settle.
LEMMA WorkerType ==
  ASSUME EngineInv, NEW t \in Workers,
         \/ \E r \in Requests : Submit(t, r)
         \/ RiskCheck(t) \/ BandCheck(t) \/ Hold(t) \/ CancelFallback(t)
         \/ \E id \in Ids : CancelInBook(t, id) \/ MissInBook(t, id) \/ CancelWaiting(t, id)
  PROVE  EngineTypeOK'
<1>1. EngineTypeOK /\ TablesTyped /\ WatcherTyped /\ ThreadsTyped
  BY TypeParts DEF EngineInv
<1>2. t \in Threads /\ t # Watcher
  BY EngineAssumption DEF Threads
<1>3. ASSUME NEW state \in WorkerStates, Go(t, state),
             \/ UNCHANGED job
             \/ \E id \in Ids \cup {NoOrder} : job' = [job EXCEPT ![t] = id]
      PROVE  ThreadsTyped'
  BY <1>1, <1>2, <1>3, GoTyped
<1>4. ASSUME Return(t)
      PROVE  ThreadsTyped'
  BY <1>3, <1>4 DEF Return, WorkerStates
<1>5. ASSUME UNCHANGED <<pc, job>>
      PROVE  ThreadsTyped'
  BY <1>1, <1>5 DEF ThreadsTyped
<1>6. ASSUME NEW id \in Ids, NEW f \in Fates
      PROVE  [fate EXCEPT ![id] = f] \in [Ids -> Fates]
  BY <1>1 DEF TablesTyped
<1>7. "rejected" \in Fates /\ "cancelled" \in Fates
  BY DEF Fates
<1>8. pc[t] \in Working \cup {"fallback"} => job[t] \in Ids
  BY <1>2, IdFacts DEF EngineInv, OwnerInv, JobInv
<1>9. CASE \E r \in Requests : Submit(t, r)
  <2>1. PICK r \in Requests : Submit(t, r)
    BY <1>9
  <2>2. nextId \in Ids
    BY <2>1 DEF Submit, Build
  <2>3. ThreadsTyped'
    <3>1. CASE Valid(r.order)
      BY <1>3, <2>1, <2>2, <3>1 DEF Submit, WorkerStates
    <3>2. CASE ~Valid(r.order)
      BY <1>5, <2>1, <3>2 DEF Submit
    <3> QED BY <3>1, <3>2
  <2>4. request' \in [Ids -> Requests]
    BY <1>1, <2>1 DEF Submit, TablesTyped
  <2>5. fate' \in [Ids -> Fates]
    <3>1. CASE Valid(r.order)
      BY <1>1, <2>1, <3>1 DEF Submit, TablesTyped
    <3>2. CASE ~Valid(r.order)
      BY <1>6, <1>7, <2>1, <2>2, <3>2 DEF Submit
    <3> QED BY <3>1, <3>2
  <2>6. /\ UNCHANGED <<stamp, cash, holding, settled, lastPrice, dirty, waiting>>
        /\ UNCHANGED <<clock, scanTime, toScan, released>>
    BY <2>1 DEF Submit, moneyVars, watcherVars
  <2>7. TablesTyped'
    BY <1>1, <2>4, <2>5, <2>6 DEF TablesTyped
  <2> QED BY <1>1, <2>3, <2>6, <2>7, WatcherStill, TypePartsNext
<1>10. CASE RiskCheck(t)
  <2>1. job[t] \in Ids
    BY <1>8, <1>10 DEF RiskCheck, Working, Unmatched
  <2>2. ThreadsTyped'
    <3>1. CASE PassesRiskCheck(order[job[t]])
      BY <1>3, <1>10, <3>1 DEF RiskCheck, WorkerStates
    <3>2. CASE ~PassesRiskCheck(order[job[t]])
      BY <1>4, <1>10, <3>2 DEF RiskCheck
    <3> QED BY <3>1, <3>2
  <2>3. stamp' \in [Ids -> 0 .. MaxTime] /\ fate' \in [Ids -> Fates]
    <3>1. CASE PassesRiskCheck(order[job[t]])
      <4>1. stamp' = [stamp EXCEPT ![job[t]] = clock] /\ fate' = fate
        BY <1>10, <3>1 DEF RiskCheck
      <4> QED BY <1>1, <4>1 DEF TablesTyped, WatcherTyped
    <3>2. CASE ~PassesRiskCheck(order[job[t]])
      <4>1. stamp' = stamp /\ fate' = [fate EXCEPT ![job[t]] = "rejected"]
        BY <1>10, <3>2 DEF RiskCheck
      <4> QED BY <1>1, <1>6, <1>7, <2>1, <4>1 DEF TablesTyped
    <3> QED BY <3>1, <3>2
  <2>4. /\ UNCHANGED <<request, cash, holding, settled, lastPrice, dirty, waiting>>
        /\ UNCHANGED <<clock, scanTime, toScan, released>>
    BY <1>10 DEF RiskCheck, moneyVars, watcherVars
  <2>5. TablesTyped'
    BY <1>1, <2>3, <2>4 DEF TablesTyped
  <2> QED BY <1>1, <2>2, <2>4, <2>5, WatcherStill, TypePartsNext
<1>11. CASE BandCheck(t)
  <2>1. ThreadsTyped'
    BY <1>3, <1>11 DEF BandCheck, WorkerStates
  <2> QED BY <1>1, <1>11, <2>1, ThreadsOnly DEF BandCheck, moneyVars, watcherVars
<1>12. CASE Hold(t)
  <2>1. job[t] \in Ids /\ ThreadsTyped'
    BY <1>4, <1>8, <1>12 DEF Hold, Working, Unmatched
  <2>2. /\ UNCHANGED <<request, stamp, cash, holding, settled, lastPrice, dirty, fate>>
        /\ UNCHANGED <<clock, scanTime, toScan, released>>
        /\ waiting' = waiting \cup {job[t]}
    BY <1>12 DEF Hold, moneyVars, watcherVars
  <2>3. TablesTyped'
    BY <1>1, <2>1, <2>2 DEF TablesTyped
  <2> QED BY <1>1, <2>1, <2>2, <2>3, WatcherStill, TypePartsNext
<1>13. CASE CancelFallback(t)
  <2>1. job[t] \in Ids /\ ThreadsTyped'
    BY <1>4, <1>8, <1>13 DEF CancelFallback
  <2>2. /\ UNCHANGED <<request, stamp, cash, holding, settled, lastPrice, dirty>>
        /\ UNCHANGED <<clock, scanTime, toScan, released>>
        /\ waiting' = waiting \ {job[t]}
        /\ fate' = IF IsWaiting(t) THEN [fate EXCEPT ![job[t]] = "cancelled"] ELSE fate
    BY <1>13 DEF CancelFallback, moneyVars, watcherVars
  <2>3. fate' \in [Ids -> Fates]
    BY <1>1, <1>6, <1>7, <2>1, <2>2 DEF TablesTyped
  <2>4. TablesTyped'
    BY <1>1, <2>2, <2>3 DEF TablesTyped
  <2> QED BY <1>1, <2>1, <2>2, <2>4, WatcherStill, TypePartsNext
<1>14. CASE \E id \in Ids : CancelInBook(t, id) \/ MissInBook(t, id) \/ CancelWaiting(t, id)
  <2>1. PICK id \in Ids : CancelInBook(t, id) \/ MissInBook(t, id) \/ CancelWaiting(t, id)
    BY <1>14
  <2>2. CASE MissInBook(t, id)
    <3>1. ThreadsTyped'
      BY <1>3, <2>2 DEF MissInBook, WorkerStates
    <3> QED BY <1>1, <2>2, <3>1, ThreadsOnly DEF MissInBook, moneyVars, watcherVars
  <2>3. CASE CancelInBook(t, id) \/ CancelWaiting(t, id)
    <3>1. /\ UNCHANGED <<request, stamp, cash, holding, settled, lastPrice, dirty>>
          /\ UNCHANGED <<clock, scanTime, toScan, released>>
          /\ UNCHANGED <<pc, job>>
          /\ waiting' \subseteq waiting
          /\ fate' = [fate EXCEPT ![id] = "cancelled"]
      BY <2>3 DEF CancelInBook, CancelWaiting, moneyVars, watcherVars
    <3>2. fate' \in [Ids -> Fates] /\ ThreadsTyped'
      BY <1>5, <1>6, <1>7, <3>1
    <3>3. TablesTyped'
      BY <1>1, <3>1, <3>2 DEF TablesTyped
    <3> QED BY <1>1, <3>1, <3>2, <3>3, WatcherStill, TypePartsNext
  <2> QED BY <2>1, <2>2, <2>3
<1> QED BY <1>9, <1>10, <1>11, <1>12, <1>13, <1>14

\* What the watcher does outside match_and_settle, and the clock.
LEMMA WatcherType ==
  ASSUME EngineInv,
         \/ DirtyScan \/ FullScan \/ EndOfScan \/ Tick
         \/ \E s \in Symbols : ScanBucket(s)
         \/ \E id \in Ids : Release(id)
  PROVE  EngineTypeOK'
<1>1. EngineTypeOK /\ TablesTyped /\ WatcherTyped /\ ThreadsTyped
  BY TypeParts DEF EngineInv
<1>2. Watcher \in Threads /\ Watcher \notin Workers
  BY EngineAssumption DEF Threads
<1>3. ASSUME NEW state \in WatcherStates, Go(Watcher, state),
             \/ UNCHANGED job
             \/ \E id \in Ids \cup {NoOrder} : job' = [job EXCEPT ![Watcher] = id]
      PROVE  ThreadsTyped'
  BY <1>1, <1>2, <1>3, GoTyped
<1>4. ASSUME UNCHANGED <<pc, job>>
      PROVE  ThreadsTyped'
  BY <1>1, <1>4 DEF ThreadsTyped
<1>5. CASE DirtyScan
  <2>1. ThreadsTyped'
    BY <1>3, <1>5 DEF DirtyScan, WatcherStates
  <2>2. /\ UNCHANGED <<request, stamp, cash, holding, settled, lastPrice, waiting, fate>>
        /\ dirty' = {} /\ toScan' = dirty /\ scanTime' = clock
        /\ UNCHANGED <<clock, released>>
    BY <1>5 DEF DirtyScan, moneyVars
  <2>3. TablesTyped' /\ WatcherTyped'
    BY <1>1, <2>2 DEF TablesTyped, WatcherTyped
  <2> QED BY <2>1, <2>3, TypePartsNext
<1>6. CASE FullScan
  <2>1. ThreadsTyped'
    BY <1>3, <1>6 DEF FullScan, WatcherStates
  <2>2. /\ UNCHANGED <<request, stamp, cash, holding, lastPrice, dirty, waiting, fate, settled>>
        /\ toScan' = Listed /\ scanTime' = clock
        /\ UNCHANGED <<clock, released>>
    BY <1>6 DEF FullScan, AllBuckets, moneyVars
  <2>3. WatcherTyped'
    BY <1>1, <2>2 DEF WatcherTyped
  <2> QED BY <1>1, <2>1, <2>2, <2>3, TablesStill, TypePartsNext
<1>7. CASE EndOfScan
  <2>1. ThreadsTyped'
    BY <1>3, <1>7 DEF EndOfScan, WatcherStates
  <2>2. /\ UNCHANGED <<request, stamp, cash, holding, lastPrice, dirty, waiting, fate, settled>>
        /\ UNCHANGED <<clock, toScan, released>> /\ scanTime' = 0
    BY <1>7 DEF EndOfScan, moneyVars
  <2>3. WatcherTyped'
    BY <1>1, <2>2, EngineAssumption DEF WatcherTyped
  <2> QED BY <1>1, <2>1, <2>2, <2>3, TablesStill, TypePartsNext
<1>8. CASE Tick
  <2>1. /\ UNCHANGED <<request, stamp, cash, holding, lastPrice, dirty, waiting, fate, settled>>
        /\ UNCHANGED <<scanTime, toScan, released>> /\ UNCHANGED <<pc, job>>
        /\ clock < MaxTime /\ clock' = clock + 1
    BY <1>8 DEF Tick, moneyVars, watcherVars
  <2>2. WatcherTyped'
    BY <1>1, <2>1, EngineAssumption DEF WatcherTyped
  <2> QED BY <1>1, <1>4, <2>1, <2>2, TablesStill, TypePartsNext
<1>9. CASE \E s \in Symbols : ScanBucket(s)
  <2>1. PICK s \in Symbols : ScanBucket(s)
    BY <1>9
  <2> DEFINE bucket == {id \in waiting : order[id].symbol = s}
             expired == {id \in bucket : Overdue(id)}
             due == {id \in bucket \ expired : Due(id, lastPrice[s])}
  <2>2. /\ UNCHANGED <<request, stamp, cash, holding, settled, lastPrice, dirty>>
        /\ UNCHANGED <<clock, scanTime>> /\ UNCHANGED <<pc, job>>
        /\ toScan' \subseteq toScan
        /\ waiting' \subseteq waiting
        /\ released' = released \cup due
        /\ fate' = [id \in Ids |-> IF id \in expired THEN "expired" ELSE fate[id]]
    BY <2>1 DEF ScanBucket, moneyVars
  <2>3. due \subseteq waiting
    OBVIOUS
  <2> HIDE DEF bucket, expired, due
  <2>4. fate' \in [Ids -> Fates]
    <3>1. "expired" \in Fates /\ \A i \in Ids : fate[i] \in Fates
      BY <1>1 DEF Fates, TablesTyped
    <3> QED BY <2>2, <3>1
  <2>5. TablesTyped'
    BY <1>1, <2>2, <2>4 DEF TablesTyped
  <2>6. WatcherTyped'
    BY <1>1, <2>2, <2>3 DEF TablesTyped, WatcherTyped
  <2> QED BY <1>4, <2>2, <2>5, <2>6, TypePartsNext
<1>10. CASE \E id \in Ids : Release(id)
  <2>1. PICK id \in Ids : Release(id)
    BY <1>10
  <2>2. ThreadsTyped'
    BY <1>3, <2>1 DEF Release, WatcherStates
  <2>3. /\ UNCHANGED <<request, stamp, cash, holding, lastPrice, dirty, waiting, fate, settled>>
        /\ UNCHANGED <<clock, scanTime, toScan>> /\ released' \subseteq released
    BY <2>1 DEF Release, moneyVars
  <2>4. WatcherTyped'
    BY <1>1, <2>3 DEF WatcherTyped
  <2> QED BY <1>1, <2>2, <2>3, <2>4, TablesStill, TypePartsNext
<1> QED BY <1>5, <1>6, <1>7, <1>8, <1>9, <1>10

-----------------------------------------------------------------------------
\* Every step

\* A step of match_and_settle keeps every order in its place.
LEMMA MatchAndSettleOwner ==
  ASSUME EngineInv, NEW t \in Threads, MatchAndSettle(t)
  PROVE  OwnerInv'
<1> USE DEF EngineInv
<1>1. CASE EnterBook(t)
  BY <1>1, EnterStep
<1>2. CASE Match(t)
  BY <1>2, MatchStep
<1>3. CASE LeaveBook(t)
  BY <1>3, LeaveStep
<1>4. CASE Settle(t)
  BY <1>4, SettleStep
<1>5. CASE SetPrice(t)
  <2>1. pc[t] = "price" /\ Moves(t, "mark", job[t])
    BY <1>5, GoMoves DEF SetPrice
  <2>2. UNCHANGED bookVars /\ UNCHANGED <<waiting, released, fate, settled>>
    BY <1>5 DEF SetPrice, moneyVars, watcherVars
  <2> QED BY <2>1, <2>2, CarryStep
<1>6. CASE MarkDirty(t)
  <2>1. UNCHANGED bookVars /\ UNCHANGED <<waiting, released, fate, settled>>
    BY <1>6 DEF MarkDirty, moneyVars, watcherVars
  <2>2. CASE MoreTrades(t)
    <3>1. pc[t] = "mark" /\ Moves(t, "settle", job[t])
      BY <1>6, <2>2, GoMoves DEF MarkDirty
    <3>2. settled[job[t]] < Len(trades[job[t]])
      BY <2>2 DEF MoreTrades
    <3> QED BY <2>1, <3>1, <3>2, CarryStep
  <2>3. CASE ~MoreTrades(t)
    <3>1. pc[t] = "mark" /\ EndOfMatch(t)
      BY <1>6, <2>3 DEF MarkDirty
    <3>2. Moves(t, Idle, NoOrder) \/ Moves(t, "release", NoOrder)
      BY <3>1, EndOfMatchMoves
    <3>3. Idle \notin Working \cup {"fallback"} /\ "release" \notin Working \cup {"fallback"}
      BY DEF Idle, Working, Unmatched, Settling
    <3> QED BY <2>1, <2>3, <3>1, <3>2, <3>3, LetGoStep
  <2> QED BY <2>2, <2>3
<1> QED BY <1>1, <1>2, <1>3, <1>4, <1>5, <1>6 DEF MatchAndSettle

\* So does what a worker does outside it.
LEMMA WorkerOwner ==
  ASSUME EngineInv, NEW t \in Workers,
         \/ \E r \in Requests : Submit(t, r)
         \/ RiskCheck(t) \/ BandCheck(t) \/ Hold(t) \/ CancelFallback(t)
         \/ \E id \in Ids : CancelInBook(t, id) \/ MissInBook(t, id) \/ CancelWaiting(t, id)
  PROVE  OwnerInv'
<1> USE DEF EngineInv
<1>1. t \in Threads
  BY DEF Threads
<1>2. Idle \notin Working \cup {"fallback"}
  BY DEF Idle, Working, Unmatched, Settling
<1>3. \A i \in Ids : fate' = [fate EXCEPT ![i] = "cancelled"] =>
        fate'[i] # "none" /\ \A j \in Ids \ {i} : fate'[j] = fate[j]
  BY DEF EngineTypeOK
<1>4. CASE \E r \in Requests : Submit(t, r)
  BY <1>4, SubmitStep
<1>5. CASE RiskCheck(t)
  <2>1. pc[t] \in Unmatched /\ job[t] \in Ids
    BY <1>1, <1>5, IdFacts DEF RiskCheck, Unmatched, Working, OwnerInv, JobInv
  <2>2. UNCHANGED bookVars /\ UNCHANGED <<waiting, released, settled>>
    BY <1>5 DEF RiskCheck, moneyVars, watcherVars
  <2>3. CASE PassesRiskCheck(order[job[t]])
    <3>1. UNCHANGED fate /\ Moves(t, "band", job[t])
      BY <1>1, <1>5, <2>3, GoMoves DEF RiskCheck
    <3>2. "band" \in Unmatched
      BY DEF Unmatched
    <3> QED BY <1>1, <2>1, <2>2, <3>1, <3>2, CarryStep
  <2>4. CASE ~PassesRiskCheck(order[job[t]])
    <3>1. Moves(t, Idle, NoOrder)
      BY <1>1, <1>5, <2>4, ReturnMoves DEF RiskCheck, Return
    <3>2. fate' = [fate EXCEPT ![job[t]] = "rejected"]
      BY <1>5, <2>4 DEF RiskCheck
    <3>3. fate'[job[t]] # "none" /\ \A i \in Ids \ {job[t]} : fate'[i] = fate[i]
      BY <2>1, <3>2 DEF EngineTypeOK
    <3> QED BY <1>1, <1>2, <2>1, <2>2, <3>1, <3>3, LetGoStep
  <2> QED BY <2>3, <2>4
<1>6. CASE BandCheck(t)
  <2>1. PICK state \in {"enter", "hold"} : Go(t, state)
    BY <1>6 DEF BandCheck
  <2>2. /\ pc[t] \in Unmatched /\ state \in Unmatched /\ UNCHANGED job
        /\ UNCHANGED bookVars /\ UNCHANGED <<waiting, released, fate, settled>>
    BY <1>6 DEF BandCheck, Unmatched, moneyVars, watcherVars
  <2> QED BY <1>1, <2>1, <2>2, GoMoves, CarryStep
<1>7. CASE Hold(t)
  <2>1. /\ pc[t] \in Unmatched /\ waiting' = waiting \cup {job[t]}
        /\ UNCHANGED bookVars /\ UNCHANGED <<released, fate, settled>>
    BY <1>7 DEF Hold, Unmatched, moneyVars, watcherVars
  <2>2. Moves(t, Idle, NoOrder)
    BY <1>1, <1>7, ReturnMoves DEF Hold, Return
  <2> QED BY <1>1, <1>2, <2>1, <2>2, LetGoStep
<1>8. CASE CancelFallback(t)
  <2>1. /\ UNCHANGED bookVars /\ UNCHANGED <<released, settled>>
        /\ pc[t] = "fallback" /\ waiting' = waiting \ {job[t]}
        /\ fate' = IF IsWaiting(t) THEN [fate EXCEPT ![job[t]] = "cancelled"] ELSE fate
    BY <1>8 DEF CancelFallback, moneyVars, watcherVars
  <2>2. Moves(t, Idle, NoOrder)
    BY <1>1, <1>8, ReturnMoves DEF CancelFallback, Return
  <2>3. job[t] \in Ids
    BY <1>1, <2>1, IdFacts DEF OwnerInv, JobInv
  <2> DEFINE E == waiting \cap {job[t]}
  <2>4. E \subseteq waiting /\ waiting' = waiting \ (E \cup {}) /\ released' = released \cup {}
    BY <2>1
  <2>5. \A i \in Ids : IF i \in E THEN fate'[i] # "none" ELSE fate'[i] = fate[i]
    BY <1>3, <2>1, <2>3 DEF IsWaiting
  <2>6. \A u \in Threads :
          \/ pc'[u] = pc[u] /\ job'[u] = job[u]
          \/ pc[u] \notin Working /\ pc'[u] \notin Working \cup {"fallback"}
    <3>1. "fallback" \notin Working
      BY DEF Working, Unmatched, Settling
    <3> QED BY <1>2, <2>1, <2>2, <3>1 DEF Moves
  <2> HIDE DEF E
  <2> DEFINE D == {}
  <2>7. D \subseteq waiting /\ E \cap D = {} /\ UNCHANGED settled
    BY <2>1
  <2>8. waiting' = waiting \ (E \cup D) /\ released' = released \cup D
    BY <2>4
  <2> HIDE DEF D
  <2> QED BY <2>1, <2>4, <2>5, <2>6, <2>7, <2>8, RegistryStep
<1>9. CASE \E id \in Ids : CancelInBook(t, id)
  BY <1>9, CancelStep
<1>10. CASE \E id \in Ids : MissInBook(t, id)
  <2>1. PICK id \in Ids : MissInBook(t, id)
    BY <1>10
  <2>2. /\ UNCHANGED bookVars /\ UNCHANGED <<waiting, released, fate, settled>>
        /\ pc[t] = Idle /\ id < nextId
    BY <2>1 DEF MissInBook, moneyVars, watcherVars
  <2>3. Moves(t, "fallback", id)
    BY <1>1, <2>1, ReturnMoves DEF MissInBook
  <2>4. id \in 1 .. nextId - 1
    BY <2>2, IdFacts, BookAssumption DEF Ids
  <2>5. "fallback" \notin Working
    BY DEF Working, Unmatched, Settling
  <2>6. \A u \in Threads :
          \/ pc'[u] = pc[u] /\ job'[u] = job[u]
          \/ /\ pc[u] \notin Working /\ pc'[u] \notin Working
             /\ pc'[u] = "fallback" => job'[u] \in 1 .. nextId - 1
    BY <1>2, <2>2, <2>3, <2>4, <2>5 DEF Moves
  <2> QED BY <2>2, <2>6, QuietStep
<1>11. CASE \E id \in Ids : CancelWaiting(t, id)
  <2>1. PICK id \in Ids : CancelWaiting(t, id)
    BY <1>11
  <2>2. /\ UNCHANGED bookVars /\ UNCHANGED <<released, settled>> /\ UNCHANGED <<pc, job>>
        /\ id \in waiting /\ waiting' = waiting \ {id}
        /\ fate' = [fate EXCEPT ![id] = "cancelled"]
    BY <2>1 DEF CancelWaiting, moneyVars, watcherVars
  <2> DEFINE E == {id}
             D == {}
  <2>3. /\ E \subseteq waiting /\ D \subseteq waiting /\ E \cap D = {}
        /\ waiting' = waiting \ (E \cup D) /\ released' = released \cup D
        /\ UNCHANGED settled
    BY <2>2
  <2>4. \A i \in Ids : IF i \in E THEN fate'[i] # "none" ELSE fate'[i] = fate[i]
    BY <1>3, <2>2
  <2>5. \A u \in Threads : pc'[u] = pc[u] /\ job'[u] = job[u]
    BY <2>2
  <2> HIDE DEF E, D
  <2> QED BY <2>2, <2>3, <2>4, <2>5, RegistryStep
<1> QED BY <1>4, <1>5, <1>6, <1>7, <1>8, <1>9, <1>10, <1>11

\* So does what the watcher does outside it.
LEMMA WatcherOwner ==
  ASSUME EngineInv,
         \/ DirtyScan \/ FullScan \/ EndOfScan \/ Tick
         \/ \E s \in Symbols : ScanBucket(s)
         \/ \E id \in Ids : Release(id)
  PROVE  OwnerInv'
<1> USE DEF EngineInv
<1>1. Watcher \in Threads
  BY DEF Threads
<1>2. ASSUME NEW state \in {Idle, "dirty scan", "full scan", "release"}, Go(Watcher, state),
             UNCHANGED job, UNCHANGED bookVars,
             UNCHANGED <<waiting, released, fate, settled>>,
             pc[Watcher] \in {Idle, "dirty scan", "full scan"}
      PROVE  OwnerInv'
  <2>1. /\ state \notin Working \cup {"fallback"} /\ pc[Watcher] \notin Working
        /\ Moves(Watcher, state, job[Watcher])
    BY <1>1, <1>2, GoMoves DEF Idle, Working, Unmatched, Settling
  <2>2. \A u \in Threads :
          \/ pc'[u] = pc[u] /\ job'[u] = job[u]
          \/ /\ pc[u] \notin Working /\ pc'[u] \notin Working
             /\ pc'[u] = "fallback" => job'[u] \in 1 .. nextId - 1
    BY <2>1 DEF Moves
  <2> QED BY <1>2, <2>2, QuietStep
<1>3. CASE DirtyScan
  <2>1. UNCHANGED bookVars /\ UNCHANGED <<waiting, released, fate, settled>>
    BY <1>3 DEF DirtyScan, moneyVars
  <2> QED BY <1>2, <1>3, <2>1 DEF DirtyScan
<1>4. CASE FullScan
  <2>1. UNCHANGED bookVars /\ UNCHANGED <<waiting, released, fate, settled>>
    BY <1>4 DEF FullScan, moneyVars
  <2> QED BY <1>2, <1>4, <2>1 DEF FullScan
<1>5. CASE EndOfScan
  <2>1. /\ UNCHANGED bookVars /\ UNCHANGED <<waiting, released, fate, settled>>
        /\ UNCHANGED job /\ Go(Watcher, IF released = {} THEN Idle ELSE "release")
        /\ pc[Watcher] \in {"dirty scan", "full scan"}
    BY <1>5 DEF EndOfScan, Scanning, moneyVars
  <2> QED BY <1>2, <2>1
<1>6. CASE Tick
  <2>1. /\ UNCHANGED bookVars /\ UNCHANGED <<waiting, released, fate, settled>>
        /\ UNCHANGED <<pc, job>>
    BY <1>6 DEF Tick, moneyVars, watcherVars
  <2> QED BY <2>1, QuietStep
<1>7. CASE \E s \in Symbols : ScanBucket(s)
  <2>1. PICK s \in Symbols : ScanBucket(s)
    BY <1>7
  <2> DEFINE bucket == {id \in waiting : order[id].symbol = s}
             E == {id \in bucket : Overdue(id)}
             D == {id \in bucket \ E : Due(id, lastPrice[s])}
  <2>2. /\ UNCHANGED bookVars /\ UNCHANGED settled /\ UNCHANGED <<pc, job>>
        /\ waiting' = waiting \ (E \cup D)
        /\ released' = released \cup D
        /\ fate' = [id \in Ids |-> IF id \in E THEN "expired" ELSE fate[id]]
    BY <2>1 DEF ScanBucket, Erased, moneyVars
  <2>3. E \subseteq waiting /\ D \subseteq waiting /\ E \cap D = {}
    OBVIOUS
  <2>4. \A u \in Threads : pc'[u] = pc[u] /\ job'[u] = job[u]
    BY <2>2
  <2> HIDE DEF bucket, E, D
  <2>5. \A i \in Ids : IF i \in E THEN fate'[i] # "none" ELSE fate'[i] = fate[i]
    BY <2>2
  <2> QED BY <2>2, <2>3, <2>4, <2>5, RegistryStep
<1>8. CASE \E id \in Ids : Release(id)
  BY <1>8, ReleaseStep
<1> QED BY <1>3, <1>4, <1>5, <1>6, <1>7, <1>8

\* The steps of the engine, by who makes them.
WorkerActs(t) ==
  \/ \E r \in Requests : Submit(t, r)
  \/ RiskCheck(t) \/ BandCheck(t) \/ Hold(t) \/ CancelFallback(t)
  \/ \E id \in Ids : CancelInBook(t, id) \/ MissInBook(t, id) \/ CancelWaiting(t, id)

WatcherActs ==
  \/ DirtyScan \/ FullScan \/ EndOfScan \/ Tick
  \/ \E s \in Symbols : ScanBucket(s)
  \/ \E id \in Ids : Release(id)

LEMMA NextCases ==
  ASSUME Next
  PROVE  \/ \E t \in Workers : WorkerActs(t)
         \/ \E t \in Threads : MatchAndSettle(t)
         \/ WatcherActs
<1>1. Watcher \in Threads /\ Workers \subseteq Threads
  BY DEF Threads
<1> QED BY <1>1 DEF Next, ThreadStep, WorkerStep, WatcherStep, WorkerActs, WatcherActs

\* Every step of a thread is a step of the books, or leaves them alone.
LEMMA BooksDriven ==
  ASSUME EngineInv, [Next]_vars
  PROVE  [BookNext]_bookVars
<1>1. CASE \E t \in Workers : WorkerActs(t)
  <2>1. PICK t \in Workers : WorkerActs(t)
    BY <1>1
  <2>2. ASSUME NEW r \in Requests, Submit(t, r)
        PROVE  BookNext
    <3>1. Build(r.order) /\ r.order \in OrderRecords
      BY <2>2, EngineAssumption DEF Submit, RequestRecords
    <3> QED BY <3>1 DEF BookNext
  <2>3. ASSUME NEW id \in Ids, CancelInBook(t, id)
        PROVE  BookNext
    <3>1. CancelById(order[id].symbol, id) /\ order[id].symbol \in Symbols
      BY <2>3, IdFacts DEF CancelInBook, EngineInv
    <3> QED BY <3>1 DEF BookNext
  <2>4. ASSUME \/ RiskCheck(t) \/ BandCheck(t) \/ Hold(t) \/ CancelFallback(t)
               \/ \E id \in Ids : MissInBook(t, id) \/ CancelWaiting(t, id)
        PROVE  UNCHANGED bookVars
    BY <2>4 DEF RiskCheck, BandCheck, Hold, CancelFallback, MissInBook, CancelWaiting
  <2> QED BY <2>1, <2>2, <2>3, <2>4 DEF WorkerActs
<1>2. CASE \E t \in Threads : MatchAndSettle(t)
  <2>1. PICK t \in Threads : MatchAndSettle(t)
    BY <1>2
  <2>2. pc[t] \in Working => job[t] \in Ids /\ SymbolOf(t) \in Symbols
    BY IdFacts DEF EngineInv, OwnerInv, JobInv, SymbolOf
  <2>3. CASE EnterBook(t)
    <3>1. Enter(job[t]) /\ job[t] \in Ids
      BY <2>2, <2>3 DEF EnterBook, Working, Unmatched
    <3> QED BY <3>1 DEF BookNext
  <2>4. CASE Match(t)
    <3>1. Fill(SymbolOf(t)) /\ SymbolOf(t) \in Symbols
      BY <2>2, <2>4 DEF Match, Working
    <3> QED BY <3>1 DEF BookNext
  <2>5. CASE LeaveBook(t)
    <3>1. Finish(SymbolOf(t)) /\ SymbolOf(t) \in Symbols
      BY <2>2, <2>5 DEF LeaveBook, Working
    <3> QED BY <3>1 DEF BookNext
  <2>6. CASE Settle(t) \/ SetPrice(t) \/ MarkDirty(t)
    BY <2>6 DEF Settle, SetPrice, MarkDirty
  <2> QED BY <2>1, <2>3, <2>4, <2>5, <2>6 DEF MatchAndSettle
<1>3. CASE WatcherActs
  BY <1>3 DEF WatcherActs, DirtyScan, FullScan, EndOfScan, Tick, ScanBucket, Release
<1>4. CASE UNCHANGED vars
  BY <1>4 DEF vars
<1> QED BY <1>1, <1>2, <1>3, <1>4, NextCases

LEMMA InitEngine == Init => EngineInv
<1> SUFFICES ASSUME Init PROVE EngineInv
  OBVIOUS
<1>1. BookInv
  BY BookInitInv DEF Init
<1>2. TablesTyped
  <2>1. (CHOOSE r \in Requests : TRUE) \in Requests
    BY EngineAssumption
  <2> QED BY <2>1, EngineAssumption DEF Init, TablesTyped, Fates
<1>3. WatcherTyped
  BY EngineAssumption DEF Init, WatcherTyped
<1>4. ThreadsTyped
  <2>1. Idle \in WorkerStates /\ Idle \in WatcherStates /\ Watcher \in Threads
        /\ Workers \subseteq Threads
    BY DEF WorkerStates, WatcherStates, Threads
  <2> QED BY <2>1 DEF Init, ThreadsTyped
<1>5. OwnerInv
  <2>1. /\ \A t \in Threads : pc[t] \notin Working \cup {"fallback"}
        /\ \A i \in Ids : fate[i] = "none" /\ settled[i] = 0 /\ trades[i] = <<>>
        /\ waiting = {} /\ released = {} /\ entered = {} /\ nextId = 1
        /\ \A s \in Symbols : taker[s] = NoOrder
    BY DEF Init, BookInit, Idle, Working, Unmatched, Settling
  <2>2. JobInv /\ LoneInv /\ HeldInv /\ FateInv /\ EnteredInv /\ LockInv
    BY <2>1 DEF JobInv, LoneInv, HeldInv, FateInv, EnteredInv, LockInv
  <2>3. PhaseInv
    BY <2>1 DEF PhaseInv, Working, Settling
  <2>4. KnownInv
    BY <2>1 DEF KnownInv
  <2>5. NoTradeForgotten
    BY <2>1 DEF NoTradeForgotten, Unsettled
  <2> QED BY <2>2, <2>3, <2>4, <2>5 DEF OwnerInv
<1> QED BY <1>1, <1>2, <1>3, <1>4, <1>5, TypeParts DEF EngineInv

LEMMA EngineStep == EngineInv /\ [Next]_vars => EngineInv'
<1> SUFFICES ASSUME EngineInv, [Next]_vars
             PROVE  EngineInv'
  OBVIOUS
<1>1. BookInv'
  BY BooksDriven, BookStep DEF EngineInv
<1>2. CASE \E t \in Workers : WorkerActs(t)
  BY <1>1, <1>2, WorkerType, WorkerOwner DEF WorkerActs, EngineInv
<1>3. CASE \E t \in Threads : MatchAndSettle(t)
  BY <1>1, <1>3, MatchAndSettleType, MatchAndSettleOwner DEF EngineInv
<1>4. CASE WatcherActs
  BY <1>1, <1>4, WatcherType, WatcherOwner DEF WatcherActs, EngineInv
<1>5. CASE UNCHANGED vars
  <2>1. /\ UNCHANGED bookVars /\ UNCHANGED <<waiting, released, fate, settled>>
        /\ UNCHANGED <<pc, job>>
        /\ UNCHANGED <<request, stamp, cash, holding, lastPrice, dirty, waiting, fate, settled>>
        /\ UNCHANGED <<clock, scanTime, toScan, released>>
    BY <1>5 DEF vars, engineVars
  <2>2. ThreadsTyped'
    BY <2>1, TypeParts DEF EngineInv, ThreadsTyped
  <2>3. EngineTypeOK'
    BY <2>1, <2>2, ThreadsOnly DEF EngineInv
  <2>4. OwnerInv'
    BY <2>1, QuietStep
  <2> QED BY <1>1, <2>3, <2>4 DEF EngineInv
<1> QED BY <1>2, <1>3, <1>4, <1>5, NextCases

-----------------------------------------------------------------------------
\* Every order is in one place

\* InHand, in the terms of the invariant.
LEMMA InHandFacts ==
  ASSUME EngineInv, NEW t \in Threads, NEW id \in 1 .. nextId - 1, InHand(t, id)
  PROVE  /\ pc[t] \in Working /\ id \notin waiting \cup released
         /\ fate[id] = "none" /\ ~Resting(id) /\ ~Done(id)
         /\ \A u \in Threads : InHand(u, id) => u = t
<1> USE DEF EngineInv, OwnerInv
<1>1. job[t] = id /\ pc[t] \in Unmatched \cup {"match"} /\ pc[t] \in Working
  BY DEF InHand, Unmatched, Working
<1>2. id \in Ids /\ order[id].symbol \in Symbols
  BY IdFacts
<1>3. id \notin waiting \cup released /\ fate[id] = "none"
  BY <1>1 DEF HeldInv, PhaseInv
<1>4. \A u \in Threads : InHand(u, id) => u = t
  <2>1. \A u \in Threads : InHand(u, id) => pc[u] \in Working /\ job[u] = id
    BY DEF InHand, Unmatched, Working
  <2> QED BY <1>1, <2>1 DEF LoneInv
<1>5. ~Resting(id) /\ ~Done(id)
  <2>1. CASE pc[t] \in Unmatched
    <3>1. id \notin entered
      BY <1>1, <2>1 DEF PhaseInv
    <3> QED BY <3>1, RestingFacts DEF Resting, Done
  <2>2. CASE pc[t] = "match"
    <3>1. taker[order[id].symbol] = id
      BY <1>1, <2>2 DEF PhaseInv
    <3> QED BY <3>1, RestingFacts DEF Resting, Done
  <2> QED BY <1>1, <2>1, <2>2
<1> QED BY <1>1, <1>3, <1>4, <1>5

\* The places other than a thread's hands exclude each other.
LEMMA PlacesExclude ==
  ASSUME EngineInv, NEW id \in 1 .. nextId - 1
  PROVE  /\ ~(id \in waiting /\ id \in released)
         /\ id \in waiting \cup released => fate[id] = "none" /\ ~Resting(id) /\ ~Done(id)
         /\ ~(Resting(id) /\ fate[id] # "none")
         /\ ~(Resting(id) /\ Done(id))
         /\ ~(fate[id] # "none" /\ Done(id))
<1> USE DEF EngineInv, OwnerInv
<1>1. id \in Ids
  BY IdFacts
<1>2. Resting(id) => id \in entered /\ left[id] > 0 /\ order[id].kind # "MARKET"
  BY RestingFacts DEF Resting
<1>3. left[id] \in Nat
  BY <1>1 DEF BookInv, BookTypeOK
<1>4. id \in waiting \cup released => fate[id] = "none" /\ id \notin entered
  BY DEF HeldInv
<1>5. ~(id \in waiting /\ id \in released)
  BY DEF HeldInv
<1>6. fate[id] # "none" => ~Resting(id) /\ ~Done(id)
  BY <1>1, <1>3 DEF FateInv, Done
<1> QED BY <1>2, <1>3, <1>4, <1>5, <1>6 DEF Done

\* An order that was built is somewhere.
LEMMA PlacesCover ==
  ASSUME EngineInv, NEW id \in 1 .. nextId - 1
  PROVE  \/ \E t \in Threads : InHand(t, id)
         \/ id \in waiting
         \/ id \in released
         \/ Resting(id)
         \/ fate[id] # "none"
         \/ Done(id)
<1> USE DEF EngineInv, OwnerInv
<1>1. id \in Ids /\ order[id].symbol \in Symbols /\ id # NoOrder
  BY IdFacts
<1>2. CASE id \in entered
  <2>1. CASE taker[order[id].symbol] = id
    <3>1. PICK t \in Threads : pc[t] = "match" /\ job[t] = id
      BY <1>1, <2>1 DEF LockInv
    <3> QED BY <3>1 DEF InHand
  <2>2. CASE taker[order[id].symbol] # id
    BY <1>2, <2>2 DEF EnteredInv, Done
  <2> QED BY <2>1, <2>2
<1>3. CASE id \notin entered
  <2>1. CASE \E t \in Threads : pc[t] \in Unmatched /\ job[t] = id
    BY <2>1 DEF InHand, Unmatched
  <2>2. CASE id \in waiting \cup released \/ fate[id] # "none"
    BY <2>2
  <2> QED BY <1>3, <2>1, <2>2 DEF KnownInv
<1> QED BY <1>2, <1>3

LEMMA OnePlace == EngineInv => OneOwner
<1> SUFFICES ASSUME EngineInv, NEW id \in 1 .. nextId - 1
             PROVE  \E p \in Places(id) : Places(id) = {p}
  BY DEF OneOwner
<1> DEFINE hands == {<<"hand", t>> : t \in {u \in Threads : InHand(u, id)}}
<1>1. CASE \E t \in Threads : InHand(t, id)
  <2>1. PICK t \in Threads : InHand(t, id)
    BY <1>1
  <2>2. /\ id \notin waiting /\ id \notin released /\ ~Resting(id) /\ ~(fate[id] # "none")
        /\ ~Done(id) /\ \A u \in Threads : InHand(u, id) => u = t
    BY <2>1, InHandFacts
  <2>3. hands = {<<"hand", t>>}
    BY <2>1, <2>2
  <2>4. Places(id) = {<<"hand", t>>}
    BY <2>2, <2>3 DEF Places
  <2> QED BY <2>4
<1>2. CASE ~\E t \in Threads : InHand(t, id)
  <2>1. hands = {}
    BY <1>2
  <2>2. Places(id) = (IF id \in waiting THEN {<<"registry">>} ELSE {})
                       \cup (IF id \in released THEN {<<"released">>} ELSE {})
                       \cup (IF Resting(id) THEN {<<"book">>} ELSE {})
                       \cup (IF fate[id] # "none" THEN {<<"told">>} ELSE {})
                       \cup (IF Done(id) THEN {<<"done">>} ELSE {})
    BY <2>1 DEF Places
  <2> HIDE DEF hands
  <2>3. \/ Places(id) = {<<"registry">>} \/ Places(id) = {<<"released">>}
        \/ Places(id) = {<<"book">>} \/ Places(id) = {<<"told">>} \/ Places(id) = {<<"done">>}
    BY <1>2, <2>2, PlacesCover, PlacesExclude
  <2> QED BY <2>3
<1> QED BY <1>1, <1>2

-----------------------------------------------------------------------------
\* What has ended stays ended

LEMMA DeadAreStill ==
  ASSUME EngineInv, [Next]_vars, NEW id \in Ids, fate[id] # "none"
  PROVE  /\ fate'[id] = fate[id]
         /\ left'[id] = left[id]
         /\ id \in entered' => id \in entered
<1> USE DEF EngineInv, OwnerInv
<1>1. /\ id < nextId /\ ~Resting(id)
      /\ id \notin waiting \cup released
      /\ \A t \in Threads : pc[t] \in Unmatched \cup {"match"} => job[t] # id
      /\ fate \in [Ids -> Fates] /\ left \in [Ids -> Nat]
  BY DEF FateInv, HeldInv, PhaseInv, EngineTypeOK, BookInv, BookTypeOK
<1>2. CASE \E t \in Workers : WorkerActs(t)
  <2>1. PICK t \in Workers : WorkerActs(t)
    BY <1>2
  <2>2. t \in Threads
    BY DEF Threads
  <2>3. CASE \E r \in Requests : Submit(t, r)
    <3>1. PICK r \in Requests : Submit(t, r)
      BY <2>3
    <3>2. /\ nextId \in Nat /\ id \in Nat /\ id # nextId
          /\ left' = [left EXCEPT ![nextId] = r.order.quantity] /\ UNCHANGED entered
          /\ UNCHANGED fate \/ fate' = [fate EXCEPT ![nextId] = "rejected"]
      BY <1>1, <3>1, IdFacts DEF Submit, Build, Ids
    <3> QED BY <1>1, <3>2
  <2>4. CASE RiskCheck(t)
    <3>1. /\ pc[t] \in Unmatched /\ UNCHANGED <<left, entered>>
          /\ UNCHANGED fate \/ fate' = [fate EXCEPT ![job[t]] = "rejected"]
      BY <2>4 DEF RiskCheck, Unmatched, bookVars
    <3> QED BY <1>1, <2>2, <3>1
  <2>5. CASE BandCheck(t) \/ Hold(t)
    BY <2>5 DEF BandCheck, Hold, bookVars
  <2>6. CASE CancelFallback(t)
    <3>1. /\ UNCHANGED <<left, entered>>
          /\ fate' = IF IsWaiting(t) THEN [fate EXCEPT ![job[t]] = "cancelled"] ELSE fate
      BY <2>6 DEF CancelFallback, bookVars
    <3> QED BY <1>1, <3>1 DEF IsWaiting
  <2>7. CASE \E i \in Ids : CancelInBook(t, i) \/ MissInBook(t, i) \/ CancelWaiting(t, i)
    <3>1. PICK i \in Ids : CancelInBook(t, i) \/ MissInBook(t, i) \/ CancelWaiting(t, i)
      BY <2>7
    <3>2. CASE CancelInBook(t, i)
      <4>1. Resting(i)
        BY <3>2, IdFacts DEF CancelInBook, CancelById, CancelAt, Resting
      <4>2. UNCHANGED <<left, entered>> /\ fate' = [fate EXCEPT ![i] = "cancelled"]
        BY <3>2 DEF CancelInBook, CancelById, CancelAt
      <4> QED BY <1>1, <4>1, <4>2
    <3>3. CASE MissInBook(t, i)
      BY <3>3 DEF MissInBook, bookVars
    <3>4. CASE CancelWaiting(t, i)
      BY <1>1, <3>4 DEF CancelWaiting, bookVars
    <3> QED BY <3>1, <3>2, <3>3, <3>4
  <2> QED BY <2>1, <2>3, <2>4, <2>5, <2>6, <2>7 DEF WorkerActs
<1>3. CASE \E t \in Threads : MatchAndSettle(t)
  <2>1. PICK t \in Threads : MatchAndSettle(t)
    BY <1>3
  <2>2. CASE EnterBook(t)
    <3>1. pc[t] \in Unmatched /\ UNCHANGED <<left, fate>> /\ entered' = entered \cup {job[t]}
      BY <2>2 DEF EnterBook, Enter, Unmatched
    <3> QED BY <1>1, <3>1
  <2>3. CASE Match(t)
    <3> DEFINE s == SymbolOf(t)
    <3>1. /\ pc[t] = "match" /\ UNCHANGED fate /\ s \in Symbols /\ taker[s] = job[t]
          /\ \E p \in Prices : FillAt(s, p)
      BY <2>3, IdFacts DEF Match, Fill, engineVars, PhaseInv, JobInv, Working, SymbolOf
    <3>2. PICK p \in Prices : FillAt(s, p)
      BY <3>1
    <3> HIDE DEF s
    <3>3. Resting(MakerAt(s, p))
      BY <1>1, <3>1, <3>2, FillResting
    <3>4. UNCHANGED entered /\ left' = Reduced(left, taker[s], MakerAt(s, p), TradedAt(s, p))
      BY <3>2 DEF FillAt
    <3> QED BY <1>1, <3>1, <3>3, <3>4 DEF Reduced
  <2>4. CASE LeaveBook(t)
    BY <2>4 DEF LeaveBook, Finish
  <2>5. CASE Settle(t) \/ SetPrice(t) \/ MarkDirty(t)
    BY <2>5 DEF Settle, SetPrice, MarkDirty, bookVars
  <2> QED BY <2>1, <2>2, <2>3, <2>4, <2>5 DEF MatchAndSettle
<1>4. CASE WatcherActs
  <2>1. CASE \E s \in Symbols : ScanBucket(s)
    <3>1. PICK s \in Symbols : ScanBucket(s)
      BY <2>1
    <3>2. UNCHANGED <<left, entered>> /\ (id \notin waiting => fate'[id] = fate[id])
      BY <3>1 DEF ScanBucket, bookVars
    <3> QED BY <1>1, <3>2
  <2>2. CASE DirtyScan \/ FullScan \/ EndOfScan \/ Tick \/ \E i \in Ids : Release(i)
    BY <2>2 DEF DirtyScan, FullScan, EndOfScan, Tick, Release, bookVars
  <2> QED BY <1>4, <2>1, <2>2 DEF WatcherActs
<1>5. CASE UNCHANGED vars
  BY <1>5 DEF vars, bookVars, engineVars
<1> QED BY <1>2, <1>3, <1>4, <1>5, NextCases

-----------------------------------------------------------------------------
\* Never early

TimeInv ==
  /\ scanTime <= clock
  /\ \A id \in Ids : stamp[id] <= clock
  /\ \A id \in entered \cup released : clock >= NotBefore(id)
  /\ \A t \in Threads : pc[t] = "enter" => clock >= NotBefore(job[t])
  /\ \A id \in Ids : fate[id] = "expired" => clock >= Expires(id)

\* The times of a request, and what follows when it keeps its stamp.
LEMMA TimeTypes ==
  ASSUME EngineInv, NEW id \in Ids
  PROVE  /\ stamp[id] \in Int /\ request[id].delay \in Int /\ request[id].life \in Int
         /\ NotBefore(id) \in Int /\ Expires(id) \in Int
         /\ clock \in Int /\ scanTime \in Int
<1>1. EngineTypeOK /\ MaxTime \in Nat
  BY EngineAssumption DEF EngineInv
<1>2. request[id] \in RequestRecords /\ stamp[id] \in 0 .. MaxTime
  BY <1>1, EngineAssumption DEF EngineTypeOK
<1>3. request[id].delay \in Nat /\ request[id].life \in Nat
  BY <1>2 DEF RequestRecords
<1>4. clock \in 0 .. MaxTime /\ scanTime \in 0 .. MaxTime
  BY <1>1 DEF EngineTypeOK
<1> QED BY <1>1, <1>2, <1>3, <1>4 DEF NotBefore, Expires

\* A step that stamps nothing, expires nothing and enters or releases only what
\* is due.
LEMMA TimeStill ==
  ASSUME EngineInv, TimeInv, UNCHANGED <<clock, request, stamp>>,
         scanTime' <= clock,
         \A i \in Ids : fate'[i] = "expired" => fate[i] = "expired" \/ clock >= Expires(i),
         \A i \in entered' \cup released' :
           i \in entered \cup released \/ clock >= NotBefore(i),
         \A t \in Threads : pc'[t] = "enter" =>
           \/ pc[t] = "enter" /\ job'[t] = job[t]
           \/ clock >= NotBefore(job'[t])
  PROVE  TimeInv'
BY DEF TimeInv, NotBefore, Expires

LEMMA TimeStep == EngineInv /\ TimeInv /\ [Next]_vars => TimeInv'
<1> SUFFICES ASSUME EngineInv, TimeInv, [Next]_vars
             PROVE  TimeInv'
  OBVIOUS
<1>1. EngineTypeOK /\ OwnerInv /\ BookInv
  BY DEF EngineInv
<1>2. scanTime <= clock
  BY DEF TimeInv
<1>3. fate \in [Ids -> Fates] /\ clock \in Int
  BY <1>1 DEF EngineTypeOK
<1>4. CASE \E t \in Workers : WorkerActs(t)
  <2>1. PICK t \in Workers : WorkerActs(t)
    BY <1>4
  <2>2. t \in Threads
    BY DEF Threads
  <2>3. ASSUME NEW state, state # "enter", NEW id, Moves(t, state, id)
        PROVE  \A u \in Threads : pc'[u] = "enter" => pc[u] = "enter" /\ job'[u] = job[u]
    BY <2>3 DEF Moves
  <2>4. ASSUME Return(t)
        PROVE  \A u \in Threads : pc'[u] = "enter" => pc[u] = "enter" /\ job'[u] = job[u]
    <3>1. Moves(t, Idle, NoOrder)
      BY <1>1, <2>2, <2>4, ReturnMoves DEF Return
    <3> QED BY <2>3, <3>1 DEF Idle
  <2>5. CASE \E r \in Requests : Submit(t, r)
    <3>1. PICK r \in Requests : Submit(t, r)
      BY <2>5
    <3>2. /\ nextId \in Ids /\ request' = [request EXCEPT ![nextId] = r]
          /\ UNCHANGED <<stamp, clock, scanTime, entered, released>>
          /\ UNCHANGED fate \/ fate' = [fate EXCEPT ![nextId] = "rejected"]
      BY <3>1 DEF Submit, Build, watcherVars
    <3>3. \A u \in Threads : pc'[u] = "enter" => pc[u] = "enter" /\ job'[u] = job[u]
      <4>1. CASE Valid(r.order)
        <5>1. Moves(t, "risk", nextId)
          BY <1>1, <2>2, <3>1, <4>1, ReturnMoves DEF Submit
        <5> QED BY <2>3, <5>1
      <4>2. CASE ~Valid(r.order)
        BY <3>1, <4>2 DEF Submit
      <4> QED BY <4>1, <4>2
    <3>4. \A i \in Ids : i # nextId => request'[i] = request[i]
      BY <1>1, <3>2 DEF EngineTypeOK
    <3>5. \A i \in entered \cup released : i \in Ids /\ i # nextId
      <4>1. \A i \in entered \cup released : i \in 1 .. nextId - 1
        BY <1>1, IdFacts DEF OwnerInv, HeldInv
      <4> QED BY <1>1, <4>1, IdFacts
    <3>6. \A u \in Threads : pc[u] = "enter" => job[u] \in Ids /\ job[u] # nextId
      <4>1. \A u \in Threads : pc[u] = "enter" => job[u] \in 1 .. nextId - 1
        BY <1>1 DEF OwnerInv, JobInv, Working, Unmatched
      <4> QED BY <1>1, <4>1, IdFacts
    <3>7. \A i \in Ids : fate'[i] = "expired" => fate[i] = "expired" /\ i # nextId
      <4>1. \A i \in Ids : fate[i] # "none" => i # nextId
        BY <1>1, IdFacts DEF OwnerInv, FateInv, Ids
      <4> QED BY <1>3, <3>2, <4>1
    <3> QED BY <3>2, <3>3, <3>4, <3>5, <3>6, <3>7 DEF TimeInv, NotBefore, Expires
  <2>6. CASE RiskCheck(t)
    <3>1. pc[t] \in Unmatched /\ pc[t] # "enter" /\ pc[t] \in Working
      BY <2>6 DEF RiskCheck, Unmatched, Working
    <3>2. /\ job[t] \in Ids /\ job[t] \notin entered \cup released /\ fate[job[t]] = "none"
          /\ \A u \in Threads : u # t /\ pc[u] = "enter" => job[u] # job[t]
      <4>1. \A u \in Threads : pc[u] = "enter" => pc[u] \in Working
        BY DEF Working, Unmatched
      <4> QED BY <1>1, <2>2, <3>1, <4>1, IdFacts
              DEF OwnerInv, JobInv, PhaseInv, HeldInv, LoneInv
    <3>3. \A u \in Threads : pc'[u] = "enter" =>
            u # t /\ pc[u] = "enter" /\ job'[u] = job[u]
      <4>1. CASE PassesRiskCheck(order[job[t]])
        <5>1. Moves(t, "band", job[t])
          BY <1>1, <2>2, <2>6, <4>1, GoMoves DEF RiskCheck
        <5> QED BY <2>3, <3>1, <5>1
      <4>2. CASE ~PassesRiskCheck(order[job[t]])
        BY <2>4, <2>6, <3>1, <4>2 DEF RiskCheck
      <4> QED BY <4>1, <4>2
    <3>4. /\ UNCHANGED <<request, clock, scanTime, entered, released>>
          /\ UNCHANGED stamp \/ stamp' = [stamp EXCEPT ![job[t]] = clock]
          /\ UNCHANGED fate \/ fate' = [fate EXCEPT ![job[t]] = "rejected"]
      BY <2>6 DEF RiskCheck, bookVars, watcherVars
    <3>5. /\ \A i \in Ids : i # job[t] => stamp'[i] = stamp[i]
          /\ \A i \in Ids : stamp'[i] <= clock
      BY <1>1, <1>3, <3>4 DEF EngineTypeOK, TimeInv
    <3>6. \A i \in Ids : fate'[i] = "expired" => fate[i] = "expired" /\ i # job[t]
      BY <1>3, <3>2, <3>4
    <3>7. \A i \in entered \cup released : i \in Ids
      BY <1>1, IdFacts DEF OwnerInv, HeldInv
    <3>8. \A u \in Threads : pc[u] = "enter" => job[u] \in Ids
      BY <1>1, IdFacts DEF OwnerInv, JobInv, Working, Unmatched
    <3> QED BY <3>2, <3>3, <3>4, <3>5, <3>6, <3>7, <3>8 DEF TimeInv, NotBefore, Expires
  <2>7. CASE BandCheck(t)
    <3>1. PICK state \in {"enter", "hold"} :
            Go(t, state) /\ (state = "enter" => request[job[t]].delay = 0)
      BY <2>7 DEF BandCheck
    <3>2. Moves(t, state, job[t])
      BY <1>1, <2>2, <2>7, <3>1, GoMoves DEF BandCheck
    <3>3. job[t] \in Ids
      BY <1>1, <2>2, <2>7, IdFacts DEF BandCheck, OwnerInv, JobInv, Working, Unmatched
    <3>4. state = "enter" => clock >= NotBefore(job[t])
      <4>1. stamp[job[t]] \in Int /\ clock \in Int /\ stamp[job[t]] <= clock
        BY <3>3, TimeTypes DEF TimeInv
      <4> QED BY <3>1, <4>1 DEF NotBefore
    <3>5. UNCHANGED <<clock, request, stamp, fate, entered, released, scanTime>>
      BY <2>7 DEF BandCheck, bookVars, watcherVars
    <3> QED BY <1>2, <3>2, <3>4, <3>5, TimeStill DEF Moves
  <2>8. CASE Hold(t)
    <3>1. UNCHANGED <<clock, request, stamp, fate, entered, released, scanTime>> /\ Return(t)
      BY <2>8 DEF Hold, bookVars, watcherVars
    <3> QED BY <1>2, <2>4, <3>1, TimeStill
  <2>9. CASE CancelFallback(t)
    <3>1. /\ UNCHANGED <<clock, request, stamp, entered, released, scanTime>> /\ Return(t)
          /\ fate' = fate \/ fate' = [fate EXCEPT ![job[t]] = "cancelled"]
      BY <2>9 DEF CancelFallback, bookVars, watcherVars
    <3>2. \A i \in Ids : fate'[i] = "expired" => fate[i] = "expired"
      BY <1>3, <3>1
    <3> QED BY <1>2, <2>4, <3>1, <3>2, TimeStill
  <2>10. CASE \E id \in Ids : MissInBook(t, id)
    <3>1. PICK id \in Ids : MissInBook(t, id)
      BY <2>10
    <3>2. Moves(t, "fallback", id)
      BY <1>1, <2>2, <3>1, ReturnMoves DEF MissInBook
    <3>3. UNCHANGED <<clock, request, stamp, fate, entered, released, scanTime>>
      BY <3>1 DEF MissInBook, bookVars, watcherVars
    <3> QED BY <1>2, <2>3, <3>2, <3>3, TimeStill
  <2>11. CASE \E id \in Ids : CancelInBook(t, id) \/ CancelWaiting(t, id)
    <3>1. PICK id \in Ids : CancelInBook(t, id) \/ CancelWaiting(t, id)
      BY <2>11
    <3>2. /\ UNCHANGED <<clock, request, stamp, entered, released, scanTime, pc, job>>
          /\ fate' = [fate EXCEPT ![id] = "cancelled"]
      BY <3>1 DEF CancelInBook, CancelById, CancelAt, CancelWaiting, bookVars, watcherVars
    <3>3. \A i \in Ids : fate'[i] = "expired" => fate[i] = "expired"
      BY <1>3, <3>2
    <3> QED BY <1>2, <3>2, <3>3, TimeStill
  <2> QED BY <2>1, <2>5, <2>6, <2>7, <2>8, <2>9, <2>10, <2>11 DEF WorkerActs
<1>5. CASE \E t \in Threads : MatchAndSettle(t)
  <2>1. PICK t \in Threads : MatchAndSettle(t)
    BY <1>5
  <2>2. UNCHANGED <<clock, request, stamp, fate, scanTime, released>>
    BY <2>1 DEF MatchAndSettle, EnterBook, Match, LeaveBook, Settle, SetPrice, MarkDirty,
                engineVars, watcherVars
  <2>3. \A i \in entered' : i \in entered \/ clock >= NotBefore(i)
    <3>1. CASE EnterBook(t)
      <4>1. pc[t] = "enter" /\ entered' = entered \cup {job[t]}
        BY <3>1 DEF EnterBook, Enter
      <4> QED BY <4>1 DEF TimeInv
    <3>2. CASE ~EnterBook(t)
      BY <2>1, <3>2 DEF MatchAndSettle, Match, Fill, FillAt, LeaveBook, Finish, Settle,
                        SetPrice, MarkDirty, bookVars
    <3> QED BY <3>1, <3>2
  <2>4. \A u \in Threads : pc'[u] = "enter" => pc[u] = "enter" /\ job'[u] = job[u]
    <3>1. ASSUME NEW state \in {"match", "settle", "price", "mark"}, Go(t, state),
                 UNCHANGED job
          PROVE  \A u \in Threads : pc'[u] = "enter" => pc[u] = "enter" /\ job'[u] = job[u]
      BY <1>1, <3>1, GoMoves DEF Moves
    <3>2. ASSUME EndOfMatch(t)
          PROVE  \A u \in Threads : pc'[u] = "enter" => pc[u] = "enter" /\ job'[u] = job[u]
      BY <1>1, <3>2, EndOfMatchMoves DEF Moves, Idle
    <3>3. CASE EnterBook(t)
      BY <3>1, <3>3 DEF EnterBook
    <3>4. CASE Match(t)
      BY <3>4 DEF Match, engineVars
    <3>5. CASE LeaveBook(t)
      BY <3>1, <3>2, <3>5 DEF LeaveBook
    <3>6. CASE Settle(t)
      BY <3>1, <3>6 DEF Settle
    <3>7. CASE SetPrice(t)
      BY <3>1, <3>7 DEF SetPrice
    <3>8. CASE MarkDirty(t)
      BY <3>1, <3>2, <3>8 DEF MarkDirty
    <3> QED BY <2>1, <3>3, <3>4, <3>5, <3>6, <3>7, <3>8 DEF MatchAndSettle
  <2> QED BY <1>2, <2>2, <2>3, <2>4, TimeStill
<1>6. CASE WatcherActs
  <2>1. Watcher \in Threads
    BY DEF Threads
  <2>2. CASE DirtyScan \/ FullScan \/ EndOfScan
    <3>1. PICK state \in WatcherStates \ {"enter"} : Go(Watcher, state)
      BY <2>2 DEF DirtyScan, FullScan, EndOfScan, WatcherStates, Idle
    <3>2. /\ UNCHANGED <<clock, request, stamp, fate, entered, released, job>>
          /\ scanTime' = clock \/ scanTime' = 0
      BY <2>2 DEF DirtyScan, FullScan, EndOfScan, bookVars
    <3>3. scanTime' <= clock
      <4>1. clock \in 0 .. MaxTime /\ MaxTime \in Nat
        BY <1>1, EngineAssumption DEF EngineTypeOK
      <4> QED BY <3>2, <4>1
    <3>4. Moves(Watcher, state, job[Watcher])
      BY <1>1, <2>1, <3>1, <3>2, GoMoves
    <3> QED BY <3>2, <3>3, <3>4, TimeStill DEF Moves
  <2>3. CASE Tick
    <3>1. /\ UNCHANGED <<request, stamp, fate, entered, released, scanTime, pc, job>>
          /\ clock' = clock + 1
      BY <2>3 DEF Tick, bookVars, watcherVars
    <3>2. \A i \in entered \cup released : i \in Ids
      BY <1>1, IdFacts DEF OwnerInv, HeldInv
    <3>3. \A u \in Threads : pc[u] = "enter" => job[u] \in Ids
      BY <1>1, IdFacts DEF OwnerInv, JobInv, Working, Unmatched
    <3>4. \A i \in Ids : /\ stamp[i] \in Int /\ NotBefore(i) \in Int /\ Expires(i) \in Int
                         /\ NotBefore(i)' = NotBefore(i) /\ Expires(i)' = Expires(i)
      BY <3>1, TimeTypes DEF NotBefore, Expires
    <3>5. scanTime \in Int
      BY <1>1 DEF EngineTypeOK
    <3>6. \A n \in Int : n <= clock => n <= clock'
      BY <1>3, <3>1
    <3>7. /\ scanTime' <= clock'
          /\ \A i \in Ids : stamp'[i] <= clock'
          /\ \A i \in entered' \cup released' : clock' >= NotBefore(i)'
      BY <3>1, <3>2, <3>4, <3>5, <3>6 DEF TimeInv
    <3>8. /\ \A t \in Threads : pc'[t] = "enter" => clock' >= stamp'[job'[t]] + request'[job'[t]].delay
          /\ \A i \in Ids : fate'[i] = "expired" => clock' >= Expires(i)'
      BY <3>1, <3>3, <3>4, <3>6 DEF TimeInv, NotBefore
    <3> QED BY <3>7, <3>8 DEF TimeInv, NotBefore
  <2>4. CASE \E s \in Symbols : ScanBucket(s)
    <3>1. PICK s \in Symbols : ScanBucket(s)
      BY <2>4
    <3> DEFINE bucket == {id \in waiting : order[id].symbol = s}
               expired == {id \in bucket : Overdue(id)}
               due == {id \in bucket \ expired : Due(id, lastPrice[s])}
    <3>2. /\ UNCHANGED <<clock, request, stamp, entered, scanTime, pc, job>>
          /\ released' = released \cup due
          /\ fate' = [id \in Ids |-> IF id \in expired THEN "expired" ELSE fate[id]]
      BY <3>1 DEF ScanBucket, bookVars
    <3>3. /\ \A i \in due : i \in Ids /\ scanTime >= NotBefore(i)
          /\ \A i \in expired : i \in Ids /\ scanTime >= Expires(i)
      BY <1>1 DEF EngineTypeOK, Due, Overdue
    <3> HIDE DEF bucket, expired, due
    <3>4. /\ \A i \in due : clock >= NotBefore(i)
          /\ \A i \in expired : clock >= Expires(i)
      BY <1>2, <3>3, TimeTypes
    <3> QED BY <1>2, <3>2, <3>4, TimeStill
  <2>5. CASE \E id \in Ids : Release(id)
    <3>1. PICK id \in Ids : Release(id)
      BY <2>5
    <3>2. /\ UNCHANGED <<clock, request, stamp, entered, scanTime, fate>>
          /\ id \in released /\ released' \subseteq released
      BY <3>1 DEF Release, bookVars
    <3>3. Moves(Watcher, "enter", id)
      BY <1>1, <2>1, <3>1, ReturnMoves DEF Release
    <3>4. clock >= NotBefore(id)
      BY <3>2 DEF TimeInv
    <3> QED BY <1>2, <3>2, <3>3, <3>4, TimeStill DEF Moves
  <2> QED BY <1>6, <2>2, <2>3, <2>4, <2>5 DEF WatcherActs
<1>7. CASE UNCHANGED vars
  BY <1>2, <1>7, TimeStill DEF vars, bookVars, engineVars
<1> QED BY <1>4, <1>5, <1>6, <1>7, NextCases

-----------------------------------------------------------------------------
\* The theorems

\* The invariant holds in every state the engine reaches.
THEOREM EngineInvariance == Spec => []EngineInv
<1> QED BY InitEngine, EngineStep, PTL DEF Spec

\* Every table of the engine, every thread and the clock keep their types.
THEOREM EngineTypeCorrect == Spec => []EngineTypeOK
<1>1. EngineInv => EngineTypeOK
  BY DEF EngineInv
<1> QED BY EngineInvariance, <1>1, PTL

\* The steps of the threads that touch a book are steps of OrderBook, so that what is
\* proved of the books alone holds of the books of the engine.
LEMMA StepsOfTheBooks == Spec => BookInit /\ [][BookNext]_bookVars
<1>1. Init => BookInit
  BY DEF Init
<1>2. EngineInv /\ [Next]_vars => [BookNext]_bookVars
  BY BooksDriven
<1> QED BY EngineInvariance, <1>1, <1>2, PTL DEF Spec

\* So the books of the engine never cross, and every trade of the engine is at
\* the resting order's limit and within the incoming one's.
THEOREM BooksSoundInEngine == Spec => [](NeverCrossed /\ TradesHonourLimits)
<1>1. EngineInv => NeverCrossed /\ TradesHonourLimits
  BY DEF EngineInv, BookInv
<1> QED BY EngineInvariance, <1>1, PTL

\* And price-time priority holds over the whole life of the engine, although the
\* calls that make it up come from threads that interleave: no order trades before
\* one that rests in front of it, and none changes places with another.
THEOREM PriorityInEngine == Spec => PriceTimePriority
<1>1. EngineInv => BookInv
  BY DEF EngineInv
<1>2. BookInv /\ [BookNext]_bookVars => [PriorityStep]_bookVars
  BY PriorityKept
<1> QED BY EngineInvariance, StepsOfTheBooks, <1>1, <1>2, PTL DEF PriceTimePriority

\* To the engine's threads match() is one step: whatever they do between two turns
\* of a loop, in other books and elsewhere, the books change as if every call of it
\* (matching_engine.cpp:184) allocated the whole order at once, by price and time.
THEOREM MatchingIsAtomicInEngine == Spec => MatchIsAtomic
<1>1. EngineInv => BookInv
  BY DEF EngineInv
<1>2. BookInit => Atomic!Init
  BY BookInitMaps
<1>3. BookInv /\ BookInv' /\ [BookNext]_bookVars => [Atomic!Next]_(Atomic!vars)
  BY BookStepMaps
<1> QED
  BY EngineInvariance, StepsOfTheBooks, <1>1, <1>2, <1>3, PTL
  DEF MatchIsAtomic, Atomic!Spec

\* Every order is in exactly one place: one thread's hands, the registry, the
\* watcher's list, a book, or it has ended, in one way.
THEOREM EveryOrderHasOneOwner == Spec => []OneOwner
<1> QED BY EngineInvariance, OnePlace, PTL

\* The thread that made a trade settles it before it returns or goes on.
THEOREM EveryTradeIsSettled == Spec => []NoTradeForgotten
<1>1. EngineInv => NoTradeForgotten
  BY DEF EngineInv, OwnerInv
<1> QED BY EngineInvariance, <1>1, PTL

\* What was rejected, cancelled or expired stays so, and is never traded again.
THEOREM TheDeadStayDead == Spec => DeadStaysDead
<1>1. EngineInv /\ [Next]_vars =>
        [\A id \in Ids : fate[id] # "none" =>
           /\ fate'[id] = fate[id]
           /\ left'[id] = left[id]
           /\ id \in entered' => id \in entered]_vars
  BY DeadAreStill
<1> QED BY EngineInvariance, <1>1, PTL DEF Spec, DeadStaysDead

\* No order reaches a book before its start date, nor expires before its deadline.
THEOREM NeverEarly == Spec => []OnTime
<1>1. Init => TimeInv
  <2> SUFFICES ASSUME Init PROVE TimeInv
    OBVIOUS
  <2>1. /\ \A i \in Ids : stamp[i] = 0 /\ fate[i] = "none"
        /\ entered \cup released = {} /\ clock = 0 /\ scanTime = 0
        /\ \A t \in Threads : pc[t] # "enter"
    BY DEF Init, BookInit, Idle
  <2> QED BY <2>1 DEF TimeInv
<1>2. EngineInv /\ TimeInv => OnTime
  BY DEF TimeInv, OnTime
<1> QED BY EngineInvariance, TimeStep, <1>1, <1>2, PTL DEF Spec

-----------------------------------------------------------------------------
(***************************************************************************)
(* Triggers: a STOP order reaches a book only if a reference price of its  *)
(* symbol had reached its trigger.  The reference price is read without    *)
(* the book's lock, and a scan's read is used when the price may be        *)
(* another already; so the invariant speaks of the prices a symbol ever    *)
(* had, which are those its settled trades were made at, and these no      *)
(* step takes back.                                                        *)
(***************************************************************************)

\* The prices that symbol s was ever quoted at, or will be once the thread that
\* settled the trade goes on.
Quoted(s, p) ==
  \/ p = InitialPrice
  \/ \E i \in Ids : \E k \in 1 .. settled[i] :
       order[i].symbol = s /\ trades[i][k].price = p

\* One of them was in the band of the order.
Triggered(id) ==
  \E p \in Prices : Quoted(order[id].symbol, p) /\ p \in Band(request[id])

TriggerInv ==
  /\ \A id \in 1 .. nextId - 1 : request[id].order = order[id]
  /\ \A s \in Symbols : Quoted(s, lastPrice[s])
  /\ \A id \in entered \cup released : Triggered(id)
  /\ \A t \in Threads : pc[t] = "enter" => Triggered(job[t])

-----------------------------------------------------------------------------

\* Orders are built once, trades are only added and settlements only counted up.
Grows ==
  /\ nextId' >= nextId
  /\ \A i \in Ids : i < nextId => order'[i] = order[i] /\ request'[i] = request[i]
  /\ \A i \in Ids : settled'[i] \in Nat /\ settled'[i] >= settled[i]
  /\ \A i \in Ids : \A k \in 1 .. Len(trades[i]) : trades'[i][k] = trades[i][k]

LEMMA Numbers ==
  ASSUME EngineInv
  PROVE  /\ nextId \in Nat /\ 1 .. nextId - 1 \subseteq Ids
         /\ \A i \in Ids : i \in Nat \ {0} /\ settled[i] \in Nat /\ Len(trades[i]) \in Nat
                           /\ settled[i] <= Len(trades[i])
         /\ \A i \in Ids : settled[i] # 0 => i \in 1 .. nextId - 1
<1>1. /\ nextId \in Nat /\ 1 .. nextId - 1 \subseteq Ids /\ entered \subseteq 1 .. nextId - 1
      /\ \A i \in Ids : Len(trades[i]) \in Nat /\ (trades[i] # <<>> => i \in entered)
  BY IdFacts DEF EngineInv
<1>2. \A i \in Ids : settled[i] \in Nat /\ settled[i] <= Len(trades[i])
  BY DEF EngineInv, EngineTypeOK, OwnerInv, NoTradeForgotten
<1>3. \A i \in Ids : i \in Nat \ {0}
  BY BookAssumption DEF Ids
<1>4. ASSUME NEW i \in Ids, settled[i] # 0
      PROVE  i \in 1 .. nextId - 1
  <2>1. Len(trades[i]) # 0
    BY <1>1, <1>2, <1>4
  <2>2. trades[i] # <<>>
    BY <2>1
  <2> QED BY <1>1, <2>2
<1> QED BY <1>1, <1>2, <1>3, <1>4

\* A step that changes neither orders, nor trades, nor settlements.
LEMMA Same ==
  ASSUME EngineInv, UNCHANGED bookVars, UNCHANGED <<request, settled>>
  PROVE  Grows
<1>1. /\ nextId' = nextId /\ order' = order /\ trades' = trades
      /\ request' = request /\ settled' = settled
  BY DEF bookVars
<1>2. nextId' >= nextId
  BY <1>1, Numbers
<1>3. \A i \in Ids : settled'[i] \in Nat /\ settled'[i] >= settled[i]
  BY <1>1, Numbers
<1> QED BY <1>1, <1>2, <1>3 DEF Grows

\* A symbol was quoted at a price for ever.
LEMMA QuotedStays ==
  ASSUME EngineInv, Grows, NEW s, NEW p, Quoted(s, p)
  PROVE  Quoted(s, p)'
<1>1. CASE p = InitialPrice
  BY <1>1 DEF Quoted
<1>2. CASE p # InitialPrice
  <2>1. PICK i \in Ids :
          \E k \in 1 .. settled[i] : order[i].symbol = s /\ trades[i][k].price = p
    BY <1>2 DEF Quoted
  <2>2. PICK k \in 1 .. settled[i] : order[i].symbol = s /\ trades[i][k].price = p
    BY <2>1
  <2>3. i < nextId /\ k \in 1 .. Len(trades[i])
    BY Numbers, <2>2
  <2>4. k \in 1 .. settled'[i]
    BY Numbers, <2>2 DEF Grows
  <2>5. order'[i] = order[i] /\ trades'[i][k] = trades[i][k]
    BY <2>2, <2>3 DEF Grows
  <2> QED BY <2>2, <2>4, <2>5 DEF Quoted
<1> QED BY <1>1, <1>2

\* So an order that was triggered stays so.
LEMMA TriggeredStays ==
  ASSUME EngineInv, Grows, NEW id \in 1 .. nextId - 1, Triggered(id)
  PROVE  Triggered(id)'
<1>1. id \in Ids /\ id < nextId
  BY Numbers
<1>2. order'[id] = order[id] /\ request'[id] = request[id]
  BY <1>1 DEF Grows
<1>3. Band(request[id])' = Band(request[id])
  BY <1>2 DEF Band
<1> QED BY <1>2, <1>3, QuotedStays DEF Triggered

\* A step keeps the invariant if the orders it builds are as requested, if the
\* reference prices it sets are those of settled trades, and if what it releases or
\* hands to a book was triggered.
LEMMA TriggerStill ==
  ASSUME EngineInv, TriggerInv, Grows,
         nextId' = nextId,
         \A s \in Symbols : lastPrice'[s] = lastPrice[s] \/ Quoted(s, lastPrice'[s]),
         \A i \in entered' \cup released' :
           i \in entered \cup released \/ (i \in 1 .. nextId - 1 /\ Triggered(i)),
         \A t \in Threads : pc'[t] = "enter" =>
           \/ pc[t] = "enter" /\ job'[t] = job[t]
           \/ job'[t] \in 1 .. nextId - 1 /\ Triggered(job'[t])
  PROVE  TriggerInv'
<1>1. /\ entered \cup released \subseteq 1 .. nextId - 1
      /\ \A t \in Threads : pc[t] = "enter" => job[t] \in 1 .. nextId - 1
  BY IdFacts DEF EngineInv, OwnerInv, HeldInv, JobInv, Working, Unmatched
<1>2. \A i \in 1 .. nextId - 1 : request'[i].order = order'[i]
  BY Numbers DEF Grows, TriggerInv
<1>3. \A s \in Symbols : Quoted(s, lastPrice[s])
  BY DEF TriggerInv
<1>4. ASSUME NEW s \in Symbols
      PROVE  Quoted(s, lastPrice[s])'
  <2>1. Quoted(s, lastPrice'[s])
    BY <1>3
  <2> DEFINE p == lastPrice'[s]
  <2>2. PICK q : q = p
    OBVIOUS
  <2>3. Quoted(s, q)
    BY <2>1, <2>2
  <2>4. Quoted(s, q)'
    BY <2>3, QuotedStays
  <2> QED BY <2>2, <2>4 DEF Quoted
<1>5. ASSUME NEW i \in entered' \cup released'
      PROVE  Triggered(i)'
  BY <1>1, TriggeredStays DEF TriggerInv
<1>6. ASSUME NEW t \in Threads, pc'[t] = "enter"
      PROVE  Triggered(job[t])'
  <2>1. PICK i : i = job'[t]
    OBVIOUS
  <2>2. i \in 1 .. nextId - 1 /\ Triggered(i)
    BY <1>1, <1>6, <2>1 DEF TriggerInv
  <2>3. Triggered(i)'
    BY <2>2, TriggeredStays
  <2> QED BY <2>1, <2>3 DEF Triggered, Quoted, Band
<1> QED BY <1>2, <1>4, <1>5, <1>6 DEF TriggerInv

-----------------------------------------------------------------------------
\* The steps

\* Who reaches a book.
LEMMA NoneEnters ==
  ASSUME NEW t \in Threads, NEW state, state # "enter", NEW id, Moves(t, state, id)
  PROVE  \A u \in Threads : pc'[u] = "enter" => pc[u] = "enter" /\ job'[u] = job[u]
BY DEF Moves

LEMMA WorkerTriggers ==
  ASSUME EngineInv, TriggerInv, NEW t \in Workers, WorkerActs(t)
  PROVE  TriggerInv'
<1>1. EngineTypeOK /\ OwnerInv /\ BookInv
  BY DEF EngineInv
<1>2. t \in Threads
  BY DEF Threads
<1>3. ASSUME Return(t)
      PROVE  \A u \in Threads : pc'[u] = "enter" => pc[u] = "enter" /\ job'[u] = job[u]
  <2>1. Moves(t, Idle, NoOrder)
    BY <1>1, <1>2, <1>3, ReturnMoves DEF Return
  <2> QED BY <1>2, <2>1, NoneEnters DEF Idle
<1>4. CASE \E r \in Requests : Submit(t, r)
  <2>1. PICK r \in Requests : Submit(t, r)
    BY <1>4
  <2>2. /\ nextId \in Ids /\ nextId' = nextId + 1
        /\ request' = [request EXCEPT ![nextId] = r]
        /\ order' = [order EXCEPT ![nextId] = r.order]
        /\ UNCHANGED <<trades, settled, lastPrice, entered, released>>
    BY <2>1 DEF Submit, Build, moneyVars, watcherVars
  <2>3. /\ request'[nextId] = r /\ order'[nextId] = r.order
        /\ \A i \in Ids : i # nextId => order'[i] = order[i] /\ request'[i] = request[i]
    BY <1>1, <2>2 DEF EngineTypeOK, BookInv, BookTypeOK
  <2>4. Grows
    BY <2>2, <2>3, Numbers DEF Grows
  <2>5. \A u \in Threads : pc'[u] = "enter" => pc[u] = "enter" /\ job'[u] = job[u]
    <3>1. CASE Valid(r.order)
      <4>1. Moves(t, "risk", nextId)
        BY <1>1, <1>2, <2>1, <3>1, ReturnMoves DEF Submit
      <4> QED BY <1>2, <4>1, NoneEnters
    <3>2. CASE ~Valid(r.order)
      BY <2>1, <3>2 DEF Submit
    <3> QED BY <3>1, <3>2
  <2>6. \A i \in 1 .. nextId' - 1 : request'[i].order = order'[i]
    <3>1. \A i \in 1 .. nextId' - 1 : i = nextId \/ i \in 1 .. nextId - 1
      BY <2>2, Numbers
    <3> QED BY <2>3, <3>1, Numbers DEF TriggerInv
  <2>7. \A i \in entered \cup released : i \in 1 .. nextId - 1
    BY <1>1, IdFacts DEF OwnerInv, HeldInv
  <2>8. \A u \in Threads : pc[u] = "enter" => job[u] \in 1 .. nextId - 1
    BY <1>1 DEF OwnerInv, JobInv, Working, Unmatched
  <2>9. \A s \in Symbols : Quoted(s, lastPrice[s])'
    <3> SUFFICES ASSUME NEW s \in Symbols PROVE Quoted(s, lastPrice[s])'
      OBVIOUS
    <3>1. PICK p : p = lastPrice[s]
      OBVIOUS
    <3>2. Quoted(s, p)'
      BY <2>4, <3>1, QuotedStays DEF TriggerInv
    <3> QED BY <2>2, <3>1, <3>2 DEF Quoted
  <2>10. \A i \in entered' \cup released' : Triggered(i)'
    BY <2>2, <2>4, <2>7, TriggeredStays DEF TriggerInv
  <2>11. ASSUME NEW u \in Threads, pc'[u] = "enter"
         PROVE  Triggered(job[u])'
    <3>1. PICK i : i = job[u]
      OBVIOUS
    <3>2. Triggered(i)'
      BY <2>4, <2>5, <2>8, <2>11, <3>1, TriggeredStays DEF TriggerInv
    <3>3. job'[u] = i
      BY <2>5, <2>11, <3>1
    <3> QED BY <3>2, <3>3 DEF Triggered, Quoted, Band
  <2> QED BY <2>6, <2>9, <2>10, <2>11 DEF TriggerInv
<1>5. CASE BandCheck(t)
  <2>1. /\ UNCHANGED bookVars /\ UNCHANGED <<request, settled, lastPrice, released>>
        /\ pc[t] = "band" /\ job' = job
    BY <1>5 DEF BandCheck, moneyVars, watcherVars
  <2>2. PICK state \in {"enter", "hold"} :
          Go(t, state)
          /\ (state = "enter" => lastPrice[SymbolOf(t)] \in Band(request[job[t]]))
    BY <1>5 DEF BandCheck
  <2>3. Moves(t, state, job[t])
    BY <1>1, <1>2, <2>1, <2>2, GoMoves
  <2>4. job[t] \in 1 .. nextId - 1
    BY <1>1, <1>2, <2>1 DEF OwnerInv, JobInv, Working, Unmatched
  <2>5. state = "enter" => Triggered(job[t])
    <3>1. SymbolOf(t) \in Symbols
      BY <1>1, <2>4, IdFacts DEF SymbolOf
    <3>2. lastPrice[SymbolOf(t)] \in Prices /\ Quoted(SymbolOf(t), lastPrice[SymbolOf(t)])
      BY <1>1, <3>1 DEF EngineTypeOK, TriggerInv
    <3> QED BY <2>2, <3>2 DEF Triggered, SymbolOf
  <2> QED BY <2>1, <2>3, <2>4, <2>5, Same, TriggerStill, BooksStill DEF Moves
<1>6. CASE RiskCheck(t)
  <2>1. UNCHANGED bookVars /\ UNCHANGED <<request, settled, lastPrice, released>>
    BY <1>6 DEF RiskCheck, moneyVars, watcherVars
  <2>2. \A u \in Threads : pc'[u] = "enter" => pc[u] = "enter" /\ job'[u] = job[u]
    <3>1. CASE PassesRiskCheck(order[job[t]])
      <4>1. Moves(t, "band", job[t])
        BY <1>1, <1>2, <1>6, <3>1, GoMoves DEF RiskCheck
      <4> QED BY <1>2, <4>1, NoneEnters
    <3>2. CASE ~PassesRiskCheck(order[job[t]])
      BY <1>3, <1>6, <3>2 DEF RiskCheck
    <3> QED BY <3>1, <3>2
  <2> QED BY <2>1, <2>2, Same, TriggerStill, BooksStill
<1>7. CASE Hold(t) \/ CancelFallback(t)
  <2>1. /\ UNCHANGED bookVars /\ UNCHANGED <<request, settled, lastPrice, released>>
        /\ Return(t)
    BY <1>7 DEF Hold, CancelFallback, moneyVars, watcherVars
  <2> QED BY <1>3, <2>1, Same, TriggerStill, BooksStill
<1>8. CASE \E id \in Ids : MissInBook(t, id)
  <2>1. PICK id \in Ids : MissInBook(t, id)
    BY <1>8
  <2>2. UNCHANGED bookVars /\ UNCHANGED <<request, settled, lastPrice, released>>
    BY <2>1 DEF MissInBook, moneyVars, watcherVars
  <2>3. Moves(t, "fallback", id)
    BY <1>1, <1>2, <2>1, ReturnMoves DEF MissInBook
  <2>4. \A u \in Threads : pc'[u] = "enter" => pc[u] = "enter" /\ job'[u] = job[u]
    BY <1>2, <2>3, NoneEnters
  <2> QED BY <2>2, <2>4, Same, TriggerStill, BooksStill
<1>9. CASE \E id \in Ids : CancelInBook(t, id) \/ CancelWaiting(t, id)
  <2>1. PICK id \in Ids : CancelInBook(t, id) \/ CancelWaiting(t, id)
    BY <1>9
  <2>2. /\ UNCHANGED <<nextId, order, trades, entered>>
        /\ UNCHANGED <<request, settled, lastPrice, released, pc, job>>
    BY <2>1 DEF CancelInBook, CancelById, CancelAt, CancelWaiting, bookVars, moneyVars,
                watcherVars
  <2>3. Grows
    BY <2>2, Numbers DEF Grows
  <2> QED BY <2>2, <2>3, TriggerStill
<1> QED BY <1>4, <1>5, <1>6, <1>7, <1>8, <1>9 DEF WorkerActs

LEMMA MatchTriggers ==
  ASSUME EngineInv, TriggerInv, NEW t \in Threads, MatchAndSettle(t)
  PROVE  TriggerInv'
<1>1. EngineTypeOK /\ OwnerInv /\ BookInv
  BY DEF EngineInv
<1>2. ASSUME NEW state, state # "enter", Go(t, state), UNCHANGED job
      PROVE  \A u \in Threads : pc'[u] = "enter" => pc[u] = "enter" /\ job'[u] = job[u]
  BY <1>1, <1>2, GoMoves DEF Moves
<1>3. ASSUME EndOfMatch(t)
      PROVE  \A u \in Threads : pc'[u] = "enter" => pc[u] = "enter" /\ job'[u] = job[u]
  BY <1>1, <1>3, EndOfMatchMoves DEF Moves, Idle
<1>4. pc[t] \in Working => job[t] \in 1 .. nextId - 1 /\ job[t] \in Ids
  BY <1>1, IdFacts DEF OwnerInv, JobInv
<1>5. CASE EnterBook(t)
  <2>1. /\ UNCHANGED <<nextId, order, trades, request, settled, lastPrice, released>>
        /\ pc[t] = "enter" /\ entered' = entered \cup {job[t]}
    BY <1>5 DEF EnterBook, Enter, moneyVars, watcherVars
  <2>2. Grows
    BY <2>1, Numbers DEF Grows
  <2>3. job[t] \in 1 .. nextId - 1 /\ Triggered(job[t])
    BY <1>4, <2>1 DEF TriggerInv, Working, Unmatched
  <2>4. \A u \in Threads : pc'[u] = "enter" => pc[u] = "enter" /\ job'[u] = job[u]
    BY <1>2, <1>5 DEF EnterBook
  <2> QED BY <2>1, <2>2, <2>3, <2>4, TriggerStill
<1>6. CASE Match(t)
  <2>1. PICK p \in Prices : FillAt(SymbolOf(t), p)
    BY <1>6 DEF Match, Fill
  <2>2. UNCHANGED engineVars /\ UNCHANGED <<nextId, order, entered>>
    BY <1>6, <2>1 DEF Match, FillAt
  <2>3. \E i \in Ids : \E trade : trades' = [trades EXCEPT ![i] = Append(@, trade)]
    <3>1. taker[SymbolOf(t)] = job[t] /\ job[t] \in Ids
      BY <1>1, <1>4, <1>6 DEF Match, OwnerInv, PhaseInv, Working, SymbolOf
    <3> QED BY <2>1, <3>1 DEF FillAt
  <2>4. PICK i \in Ids : \E trade : trades' = [trades EXCEPT ![i] = Append(@, trade)]
    BY <2>3
  <2>5. PICK trade : trades' = [trades EXCEPT ![i] = Append(@, trade)]
    BY <2>4
  <2>6. ASSUME NEW j \in Ids, NEW k \in 1 .. Len(trades[j])
        PROVE  trades'[j][k] = trades[j][k]
    <3>1. trades \in [Ids -> Seq(Trades)]
      BY <1>1 DEF BookInv, BookTypeOK
    <3>2. CASE j # i
      BY <2>5, <3>1, <3>2
    <3>3. CASE j = i
      <4>1. trades'[j] = Append(trades[j], trade) /\ trades[j] \in Seq(Trades)
        BY <2>5, <3>1, <3>3
      <4> QED BY <4>1
    <3> QED BY <3>2, <3>3
  <2>7. Grows
    BY <2>2, <2>6, Numbers DEF Grows, engineVars
  <2> QED BY <2>2, <2>7, TriggerStill DEF engineVars
<1>7. CASE LeaveBook(t)
  <2>1. /\ UNCHANGED <<nextId, order, trades, entered>>
        /\ UNCHANGED <<request, settled, lastPrice, released>>
    BY <1>7 DEF LeaveBook, Finish, moneyVars, watcherVars
  <2>2. Grows
    BY <2>1, Numbers DEF Grows
  <2>3. \A u \in Threads : pc'[u] = "enter" => pc[u] = "enter" /\ job'[u] = job[u]
    BY <1>2, <1>3, <1>7 DEF LeaveBook
  <2> QED BY <2>1, <2>2, <2>3, TriggerStill
<1>8. CASE Settle(t)
  <2>1. /\ UNCHANGED bookVars /\ UNCHANGED <<request, lastPrice, released>>
        /\ settled' = [settled EXCEPT ![job[t]] = @ + 1]
        /\ pc[t] = "settle"
    BY <1>8 DEF Settle, watcherVars
  <2>2. \A i \in Ids : settled'[i] = settled[i] \/ settled'[i] = settled[i] + 1
    BY <1>1, <2>1 DEF EngineTypeOK
  <2>3. Grows
    <3>1. /\ nextId' = nextId /\ order' = order /\ trades' = trades /\ request' = request
      BY <2>1 DEF bookVars
    <3>2. \A i \in Ids : settled'[i] \in Nat /\ settled'[i] >= settled[i]
      BY <2>2, Numbers
    <3>3. nextId' >= nextId
      BY <3>1, Numbers
    <3> QED BY <3>1, <3>2, <3>3 DEF Grows
  <2>4. \A u \in Threads : pc'[u] = "enter" => pc[u] = "enter" /\ job'[u] = job[u]
    BY <1>2, <1>8 DEF Settle
  <2> QED BY <2>1, <2>3, <2>4, TriggerStill, BooksStill
<1>9. CASE SetPrice(t)
  <2> DEFINE s == SymbolOf(t)
             p == trades[job[t]][settled[job[t]]].price
  <2>1. /\ UNCHANGED bookVars /\ UNCHANGED <<request, settled, released>>
        /\ lastPrice' = [lastPrice EXCEPT ![s] = p]
        /\ pc[t] = "price"
    BY <1>9 DEF SetPrice, moneyVars, watcherVars
  <2>2. job[t] \in Ids /\ settled[job[t]] \in 1 .. settled[job[t]]
    <3>1. job[t] \in Ids /\ settled[job[t]] \in 1 .. Len(trades[job[t]])
      BY <1>1, <1>4, <2>1 DEF OwnerInv, PhaseInv, Working, Settling
    <3> QED BY <3>1
  <2>3. Quoted(s, p)
    BY <2>2 DEF Quoted, SymbolOf
  <2> HIDE DEF s, p
  <2>4. \A u \in Symbols : lastPrice'[u] = lastPrice[u] \/ Quoted(u, lastPrice'[u])
    BY <1>1, <2>1, <2>3 DEF EngineTypeOK
  <2>5. \A u \in Threads : pc'[u] = "enter" => pc[u] = "enter" /\ job'[u] = job[u]
    BY <1>2, <1>9 DEF SetPrice
  <2> QED BY <2>1, <2>4, <2>5, Same, TriggerStill, BooksStill
<1>10. CASE MarkDirty(t)
  <2>1. UNCHANGED bookVars /\ UNCHANGED <<request, settled, lastPrice, released>>
    BY <1>10 DEF MarkDirty, moneyVars, watcherVars
  <2>2. \A u \in Threads : pc'[u] = "enter" => pc[u] = "enter" /\ job'[u] = job[u]
    BY <1>2, <1>3, <1>10 DEF MarkDirty
  <2> QED BY <2>1, <2>2, Same, TriggerStill, BooksStill
<1> QED BY <1>5, <1>6, <1>7, <1>8, <1>9, <1>10 DEF MatchAndSettle

LEMMA WatcherTriggers ==
  ASSUME EngineInv, TriggerInv, WatcherActs
  PROVE  TriggerInv'
<1>1. EngineTypeOK /\ OwnerInv /\ BookInv
  BY DEF EngineInv
<1>2. Watcher \in Threads
  BY DEF Threads
<1>3. CASE DirtyScan \/ FullScan \/ EndOfScan
  <2>1. PICK state \in WatcherStates \ {"enter"} : Go(Watcher, state)
    BY <1>3 DEF DirtyScan, FullScan, EndOfScan, WatcherStates, Idle
  <2>2. UNCHANGED bookVars /\ UNCHANGED <<request, settled, lastPrice, released, job>>
    BY <1>3 DEF DirtyScan, FullScan, EndOfScan, moneyVars
  <2>3. Moves(Watcher, state, job[Watcher])
    BY <1>1, <1>2, <2>1, <2>2, GoMoves
  <2>4. \A u \in Threads : pc'[u] = "enter" => pc[u] = "enter" /\ job'[u] = job[u]
    BY <1>2, <2>1, <2>3, NoneEnters
  <2> QED BY <2>2, <2>4, Same, TriggerStill, BooksStill
<1>4. CASE Tick
  <2>1. UNCHANGED bookVars /\ UNCHANGED <<request, settled, lastPrice, released, pc, job>>
    BY <1>4 DEF Tick, moneyVars, watcherVars
  <2> QED BY <2>1, Same, TriggerStill, BooksStill
<1>5. CASE \E s \in Symbols : ScanBucket(s)
  <2>1. PICK s \in Symbols : ScanBucket(s)
    BY <1>5
  <2> DEFINE due == {id \in waiting : order[id].symbol = s /\ Due(id, lastPrice[s])}
  <2>2. /\ UNCHANGED bookVars /\ UNCHANGED <<request, settled, lastPrice, pc, job>>
        /\ released' \subseteq released \cup due
    BY <2>1 DEF ScanBucket, moneyVars
  <2>3. lastPrice[s] \in Prices /\ Quoted(s, lastPrice[s])
    BY <1>1 DEF EngineTypeOK, TriggerInv
  <2>4. \A i \in due : i \in 1 .. nextId - 1 /\ Triggered(i)
    BY <1>1, <2>3 DEF OwnerInv, HeldInv, Due, Triggered
  <2> HIDE DEF due
  <2> QED BY <2>2, <2>4, Same, TriggerStill, BooksStill
<1>6. CASE \E id \in Ids : Release(id)
  <2>1. PICK id \in Ids : Release(id)
    BY <1>6
  <2>2. /\ UNCHANGED bookVars /\ UNCHANGED <<request, settled, lastPrice>>
        /\ id \in released /\ released' \subseteq released
    BY <2>1 DEF Release, moneyVars
  <2>3. Moves(Watcher, "enter", id)
    BY <1>1, <1>2, <2>1, ReturnMoves DEF Release
  <2>4. id \in 1 .. nextId - 1 /\ Triggered(id)
    BY <1>1, <2>2 DEF OwnerInv, HeldInv, TriggerInv
  <2> QED BY <2>2, <2>3, <2>4, Same, TriggerStill, BooksStill DEF Moves
<1> QED BY <1>3, <1>4, <1>5, <1>6 DEF WatcherActs

LEMMA TriggerStep == EngineInv /\ TriggerInv /\ [Next]_vars => TriggerInv'
<1> SUFFICES ASSUME EngineInv, TriggerInv, [Next]_vars
             PROVE  TriggerInv'
  OBVIOUS
<1>1. CASE Next
  BY <1>1, NextCases, WorkerTriggers, MatchTriggers, WatcherTriggers
<1>2. CASE UNCHANGED vars
  <2>1. UNCHANGED bookVars /\ UNCHANGED <<request, settled, lastPrice, released, pc, job>>
    BY <1>2 DEF vars, engineVars
  <2> QED BY <2>1, Same, TriggerStill, BooksStill
<1> QED BY <1>1, <1>2

-----------------------------------------------------------------------------
\* The theorems

\* The invariant holds in every state the engine reaches.
THEOREM TriggerInvariance == Spec => [](EngineInv /\ TriggerInv)
<1>1. Init => TriggerInv
  <2> SUFFICES ASSUME Init PROVE TriggerInv
    OBVIOUS
  <2>1. /\ 1 .. nextId - 1 = {} /\ entered \cup released = {}
        /\ \A s \in Symbols : lastPrice[s] = InitialPrice
        /\ \A t \in Threads : pc[t] # "enter"
    BY DEF Init, BookInit, Idle
  <2> QED BY <2>1 DEF TriggerInv, Quoted
<1> QED BY EngineInvariance, TriggerStep, <1>1, PTL DEF Spec

\* No STOP order reaches a book unless a reference price of its symbol had reached
\* its trigger from the right side, whichever of submit_order and the watcher let it
\* through, and whatever traded in between.
THEOREM StopsWaitForTheirTrigger == Spec => []StopsAreTriggered
<1>1. EngineInv /\ TriggerInv => StopsAreTriggered
  <2> SUFFICES ASSUME EngineInv, TriggerInv, NEW id \in entered, order[id].kind = "STOP"
               PROVE  LET r == request[id]
                          trigger == IF r.upper # 0 THEN r.upper ELSE r.order.price
                          reached(p) == IF r.order.side = "BUY" THEN p >= trigger
                                                                ELSE p <= trigger
                      IN  \/ reached(InitialPrice)
                          \/ \E i \in Ids : \E k \in 1 .. settled[i] :
                               order[i].symbol = order[id].symbol
                               /\ reached(trades[i][k].price)
    BY DEF StopsAreTriggered
  <2>1. id \in 1 .. nextId - 1
    BY IdFacts DEF EngineInv
  <2>2. request[id].order.kind = "STOP"
    BY <2>1 DEF TriggerInv
  <2>3. PICK p \in Prices : Quoted(order[id].symbol, p) /\ p \in Band(request[id])
    BY DEF TriggerInv, Triggered
  <2> QED BY <2>2, <2>3 DEF Band, Quoted
<1> QED BY TriggerInvariance, <1>1, PTL

-----------------------------------------------------------------------------
\* The engine implements Settlement: a trade that a book makes becomes due, a thread
\* settles it once, by one transfer between its two parties, and no other step of
\* anyone touches a portfolio.

\* What a step must not do to orders that exist, for trades to stay what they are.
OrdersStay == \A i \in 1 .. nextId - 1 : order'[i] = order[i]

\* The trades and the counts of settled ones.
LEMMA TradeTypes ==
  ASSUME EngineInv, NEW i \in Ids
  PROVE  /\ i \in Nat \ {0}
         /\ trades[i] \in Seq(Trades) /\ Len(trades[i]) \in Nat
         /\ settled[i] \in Nat /\ settled[i] <= Len(trades[i])
<1>1. trades[i] \in Seq(Trades)
  BY DEF EngineInv, BookInv, BookTypeOK
<1>2. settled[i] \in Nat /\ settled[i] <= Len(trades[i])
  BY DEF EngineInv, EngineTypeOK, OwnerInv, NoTradeForgotten
<1>3. i \in Nat \ {0}
  BY BookAssumption DEF Ids
<1> QED BY <1>1, <1>2, <1>3

\* A trade is between two orders that were built.
LEMMA TradeParties ==
  ASSUME EngineInv, NEW i \in Ids, NEW k \in 1 .. Len(trades[i])
  PROVE  /\ trades[i][k] \in Trades
         /\ i \in 1 .. nextId - 1 /\ trades[i][k].maker \in 1 .. nextId - 1
         /\ order[trades[i][k].maker].side = Opposite(order[i].side)
<1>1. trades[i] \in Seq(Trades) /\ k \in DOMAIN trades[i]
  BY TradeTypes
<1>2. trades[i][k] \in Trades
  BY <1>1
<1>3. i \in entered /\ trades[i][k].maker \in entered
  BY <1>1 DEF EngineInv, BookInv, TradersEntered
<1>4. entered \subseteq 1 .. nextId - 1
  BY IdFacts DEF EngineInv
<1>5. order[trades[i][k].maker].side = Opposite(order[i].side)
  BY <1>1 DEF EngineInv, BookInv, TradesHonourLimits, HonoursLimits
<1> QED BY <1>2, <1>3, <1>4, <1>5

\* The due trade has the parties that settle() finds.
LEMMA DueTradeParties ==
  ASSUME EngineInv, NEW i \in Ids, NEW k \in 1 .. Len(trades[i])
  PROVE  DueTrade(i, k) =
           [key |-> <<i, k>>, symbol |-> order[i].symbol,
            buyer |-> Buyer(i, trades[i][k]), seller |-> Seller(i, trades[i][k]),
            quantity |-> trades[i][k].quantity, price |-> trades[i][k].price]
<1> DEFINE m == trades[i][k].maker
           b == CHOOSE j \in {i, m} : order[j].side = "BUY"
           s == CHOOSE j \in {i, m} : order[j].side = "SELL"
<1>1. order[i].side \in {"BUY", "SELL"} /\ order[m].side = Opposite(order[i].side)
  <2>1. order[i] \in OrderRecords
    BY DEF EngineInv, BookInv, BookTypeOK
  <2> QED BY <2>1, TradeParties DEF OrderRecords, Sides
<1>2. /\ \E j \in {i, m} : order[j].side = "BUY"
      /\ \E j \in {i, m} : order[j].side = "SELL"
  BY <1>1 DEF Opposite
<1>3. b \in {i, m} /\ order[b].side = "BUY"
  BY <1>2
<1>4. s \in {i, m} /\ order[s].side = "SELL"
  BY <1>2
<1> HIDE DEF b, s
<1>5. order[b].client = Buyer(i, trades[i][k])
  BY <1>1, <1>3 DEF Buyer, Opposite
<1>6. order[s].client = Seller(i, trades[i][k])
  BY <1>1, <1>4 DEF Seller, Opposite
<1> QED BY <1>5, <1>6 DEF DueTrade, b, s

\* A trade made stays what it is.
LEMMA DueTradeStays ==
  ASSUME EngineInv, OrdersStay, NEW i \in Ids, NEW k \in 1 .. Len(trades[i]),
         trades'[i][k] = trades[i][k]
  PROVE  DueTrade(i, k)' = DueTrade(i, k)
<1>1. i \in 1 .. nextId - 1 /\ trades[i][k].maker \in 1 .. nextId - 1
  BY TradeParties
<1>2. order'[i] = order[i] /\ order'[trades[i][k].maker] = order[trades[i][k].maker]
  BY <1>1 DEF OrdersStay
<1> DEFINE both == {i, trades[i][k].maker}
           party(side) == CHOOSE j \in both : order[j].side = side
<1>3. trades'[i][k].maker = trades[i][k].maker /\ \A j \in both : order'[j] = order[j]
  BY <1>2
<1>4. ASSUME NEW side \in {"BUY", "SELL"}
      PROVE  party(side) \in both
  <2>1. order[i].side \in {"BUY", "SELL"}
    BY <1>1, IdFacts DEF EngineInv, BookInv, BookTypeOK, OrderRecords, Sides
  <2>2. \E j \in both : order[j].side = side
    BY <2>1, TradeParties DEF Opposite
  <2> QED BY <2>2
<1>5. ASSUME NEW side \in {"BUY", "SELL"}
      PROVE  (CHOOSE j \in both : order'[j].side = side) = party(side)
  BY <1>3
<1>6. ASSUME NEW side \in {"BUY", "SELL"}
      PROVE  order'[CHOOSE j \in both : order'[j].side = side].client
               = order[party(side)].client
  BY <1>3, <1>4, <1>5
<1> QED BY <1>2, <1>3, <1>6 DEF DueTrade

\* A step that neither trades nor settles.
LEMMA NoMoney ==
  ASSUME EngineInv, OrdersStay, UNCHANGED <<trades, settled, cash, holding>>
  PROVE  UNCHANGED Money!money
<1>1. Paid' = Paid
  BY DEF Paid
<1>2. Unpaid' = Unpaid
  <2>1. ASSUME NEW i \in Ids, NEW k \in settled[i] + 1 .. Len(trades[i])
        PROVE  DueTrade(i, k)' = DueTrade(i, k)
    <3>1. k \in 1 .. Len(trades[i])
      BY TradeTypes
    <3> QED BY <3>1, DueTradeStays
  <2> QED BY <2>1 DEF Unpaid
<1> QED BY <1>1, <1>2 DEF Money!money

\* What is due and what is paid, trade by trade.
LEMMA UnpaidTrades ==
  \A d : d \in Unpaid <=>
    \E i \in Ids : \E k \in settled[i] + 1 .. Len(trades[i]) : d = DueTrade(i, k)
BY DEF Unpaid

LEMMA PaidTrades ==
  \A e : e \in Paid <=> \E i \in Ids : \E k \in 1 .. settled[i] : e = <<i, k>>
BY DEF Paid

LEMMA KeyOf == \A i, k : DueTrade(i, k).key = <<i, k>>
BY DEF DueTrade

\* One turn of the matching loop makes one trade due, which never was.
LEMMA MatchExecutes ==
  ASSUME EngineInv, NEW t \in Threads, Match(t)
  PROVE  Money!Execute
<1>1. PICK p \in Prices : FillAt(SymbolOf(t), p)
  BY DEF Match, Fill
<1>2. UNCHANGED engineVars /\ order' = order
  BY <1>1 DEF Match, FillAt
<1>3. job[t] \in Ids /\ taker[SymbolOf(t)] = job[t]
  BY IdFacts DEF Match, EngineInv, OwnerInv, JobInv, PhaseInv, Working, SymbolOf
<1>4. PICK id \in Ids : id = job[t]
  BY <1>3
<1>5. PICK n : n = Len(trades[id]) + 1
  OBVIOUS
<1>6. PICK trade : trades' = [trades EXCEPT ![id] = Append(@, trade)]
  BY <1>1, <1>3, <1>4 DEF FillAt
<1>7. trades \in [Ids -> Seq(Trades)] /\ trades[id] \in Seq(Trades)
  BY <1>4 DEF EngineInv, BookInv, BookTypeOK
<1>8. /\ trades'[id] = Append(trades[id], trade)
      /\ \A i \in Ids : i # id => trades'[i] = trades[i]
  BY <1>6, <1>4, <1>7
<1>9. /\ Len(trades'[id]) = n /\ n \in Nat /\ settled[id] < n
      /\ \A k \in 1 .. Len(trades[id]) : trades'[id][k] = trades[id][k]
  BY <1>5, <1>4, <1>7, <1>8, TradeTypes
<1>10. ASSUME NEW i \in Ids, NEW k \in 1 .. Len(trades[i])
      PROVE  DueTrade(i, k)' = DueTrade(i, k)
  <2>1. trades'[i][k] = trades[i][k]
    BY <1>8, <1>9
  <2>2. OrdersStay
    BY <1>2 DEF OrdersStay
  <2> QED BY <2>1, <2>2, DueTradeStays
<1>11. settled' = settled /\ UNCHANGED <<cash, holding>>
  BY <1>2 DEF engineVars
<1>12. \A i \in Ids : \A k \in settled[i] + 1 .. Len(trades[i]) : k \in 1 .. Len(trades[i])
  BY TradeTypes
<1>13. \A i \in Ids : \A k \in settled[i] + 1 .. Len(trades'[i]) :
         k \in settled[i] + 1 .. Len(trades[i]) \/ (i = id /\ k = n)
  BY <1>4, <1>8, <1>9, TradeTypes
<1>14. \A i \in Ids : \A k \in settled[i] + 1 .. Len(trades[i]) :
         k \in settled[i] + 1 .. Len(trades'[i])
  <2> SUFFICES ASSUME NEW i \in Ids, NEW k \in settled[i] + 1 .. Len(trades[i])
               PROVE  k \in settled[i] + 1 .. Len(trades'[i])
    OBVIOUS
  <2>1. settled[i] \in Nat /\ Len(trades[i]) \in Nat
    BY TradeTypes
  <2>2. CASE i = id
    <3>1. Len(trades'[i]) = Len(trades[i]) + 1
      BY <1>5, <1>9, <2>2
    <3> QED BY <2>1, <3>1
  <2>3. CASE i # id
    BY <1>8, <2>1, <2>3
  <2> QED BY <2>2, <2>3
<1>15. n \in settled[id] + 1 .. Len(trades'[id])
  BY <1>4, <1>9, TradeTypes
<1> DEFINE new == DueTrade(id, n)'
<1>16. \A d : d \in Unpaid' <=>
         \E i \in Ids : \E k \in settled[i] + 1 .. Len(trades'[i]) : d = DueTrade(i, k)'
  BY <1>11 DEF Unpaid
<1>17. Unpaid' = Unpaid \cup {new}
  <2>1. ASSUME NEW d \in Unpaid' PROVE d \in Unpaid \cup {new}
    <3>1. PICK i \in Ids : \E k \in settled[i] + 1 .. Len(trades'[i]) : d = DueTrade(i, k)'
      BY <1>16
    <3>2. PICK k \in settled[i] + 1 .. Len(trades'[i]) : d = DueTrade(i, k)'
      BY <3>1
    <3>3. CASE k \in settled[i] + 1 .. Len(trades[i])
      <4>1. d = DueTrade(i, k)
        BY <1>10, <1>12, <3>2, <3>3
      <4> QED BY <3>3, <4>1, UnpaidTrades
    <3>4. CASE i = id /\ k = n
      BY <3>2, <3>4
    <3> QED BY <1>13, <3>3, <3>4
  <2>2. ASSUME NEW d \in Unpaid PROVE d \in Unpaid'
    <3>1. PICK i \in Ids : \E k \in settled[i] + 1 .. Len(trades[i]) : d = DueTrade(i, k)
      BY UnpaidTrades
    <3>2. PICK k \in settled[i] + 1 .. Len(trades[i]) : d = DueTrade(i, k)
      BY <3>1
    <3>3. d = DueTrade(i, k)' /\ k \in settled[i] + 1 .. Len(trades'[i])
      BY <1>10, <1>12, <1>14, <3>2
    <3> QED BY <1>16, <3>3
  <2>3. new \in Unpaid'
    BY <1>4, <1>15, <1>16
  <2> QED BY <2>1, <2>2, <2>3
<1>18. new.key = <<id, n>>
  BY DEF DueTrade
<1>19. \A d \in Unpaid : d.key # <<id, n>>
  <2> SUFFICES ASSUME NEW d \in Unpaid, d.key = <<id, n>> PROVE FALSE
    OBVIOUS
  <2>1. PICK i \in Ids : \E k \in settled[i] + 1 .. Len(trades[i]) : d = DueTrade(i, k)
    BY UnpaidTrades
  <2>2. PICK k \in settled[i] + 1 .. Len(trades[i]) : d = DueTrade(i, k)
    BY <2>1
  <2>3. i = id /\ k = n
    BY <2>2, KeyOf
  <2> QED BY <1>4, <1>5, <2>2, <2>3, TradeTypes
<1>20. <<id, n>> \notin Paid
  <2> SUFFICES ASSUME <<id, n>> \in Paid PROVE FALSE
    OBVIOUS
  <2>1. n \in 1 .. settled[id]
    BY PaidTrades
  <2> QED BY <1>4, <1>9, <2>1, TradeTypes
<1>21. Paid' = Paid
  BY <1>11 DEF Paid
<1> HIDE DEF new
<1> QED BY <1>11, <1>17, <1>18, <1>19, <1>20, <1>21 DEF Money!Execute

\* A transfer in two steps, from one client to another or to itself, is one change.
AllAtOnce(f, from, to, m) ==
  [c \in Clients |-> f[c] + ((IF c = to THEN m ELSE 0) - (IF c = from THEN m ELSE 0))]

LEMMA MovedIs ==
  ASSUME NEW f \in [Clients -> Int], NEW from \in Clients, NEW to \in Clients, NEW m \in Int
  PROVE  Moved(f, from, to, m) = AllAtOnce(f, from, to, m)
<1> DEFINE g == [f EXCEPT ![from] = @ - m]
           h == [g EXCEPT ![to] = @ + m]
<1>1. /\ g \in [Clients -> Int]
      /\ \A c \in Clients : g[c] = IF c = from THEN f[c] - m ELSE f[c]
  OBVIOUS
<1> HIDE DEF g
<1>2. /\ h \in [Clients -> Int]
      /\ \A c \in Clients : h[c] = IF c = to THEN g[c] + m ELSE g[c]
  BY <1>1
<1>3. Moved(f, from, to, m) = h
  BY DEF Moved, g
<1> HIDE DEF h
<1>4. \A c \in Clients : f[c] \in Int
  OBVIOUS
<1>5. \A c \in Clients :
        h[c] = f[c] + ((IF c = to THEN m ELSE 0) - (IF c = from THEN m ELSE 0))
  BY <1>1, <1>2, <1>4
<1>6. h = [c \in Clients |-> h[c]]
  BY <1>2
<1> QED BY <1>3, <1>5, <1>6 DEF AllAtOnce

\* settle() pays what is due, once.
LEMMA SettleSettles ==
  ASSUME EngineInv, NEW t \in Threads, Settle(t)
  PROVE  Money!SettleOne
<1> DEFINE id == job[t]
           k == settled[id] + 1
           trade == trades[id][k]
           buyer == Buyer(id, trade)
           seller == Seller(id, trade)
           q == trade.quantity
           n == trade.quantity * trade.price
           d == DueTrade(id, k)
<1>1. /\ cash' = Moved(cash, buyer, seller, n)
      /\ holding' = [holding EXCEPT ![order[id].symbol] = Moved(@, seller, buyer, q)]
      /\ settled' = [settled EXCEPT ![id] = @ + 1]
      /\ UNCHANGED bookVars
  BY DEF Settle, CurrentTrade, SymbolOf
<1>2. /\ id \in Ids /\ k \in 1 .. Len(trades[id])
      /\ k \in settled[id] + 1 .. Len(trades[id])
  <2>1. /\ id \in Ids
        /\ settled[id] < Len(trades[id])
    BY IdFacts DEF Settle, EngineInv, OwnerInv, JobInv, PhaseInv, Working, Settling
  <2> QED BY <2>1, TradeTypes
<1>3. trade \in Trades /\ trade.maker \in Ids
  BY <1>2, TradeParties DEF Trades
<1>4. /\ order[id] \in OrderRecords /\ order[trade.maker] \in OrderRecords
  BY <1>2, <1>3 DEF EngineInv, BookInv, BookTypeOK
<1>5. buyer \in Clients /\ seller \in Clients /\ order[id].symbol \in Symbols
  BY <1>4 DEF Buyer, Seller, OrderRecords
<1>6. q \in Int /\ n \in Int
  <2>1. trade.quantity \in Nat /\ trade.price \in Nat
    BY <1>3, BookAssumption DEF Trades
  <2> QED BY <2>1
<1>7. /\ d.key = <<id, k>> /\ d.symbol = order[id].symbol /\ d.buyer = buyer
      /\ d.seller = seller /\ d.quantity = q /\ d.quantity * d.price = n
  BY <1>2, DueTradeParties
<1>8. d \in Unpaid
  BY <1>2, UnpaidTrades
<1>9. cash \in [Clients -> Int] /\ holding \in [Symbols -> [Clients -> Int]]
  BY DEF EngineInv, EngineTypeOK
<1>10. settled \in [Ids -> Nat]
  BY DEF EngineInv, EngineTypeOK
<1> HIDE DEF d, buyer, seller, q, n, trade, id
<1>11. /\ settled'[id] = k
       /\ \A i \in Ids : i # id => settled'[i] = settled[i]
  BY <1>1, <1>2, <1>10
<1>12. cash' = [c \in Clients |->
                   cash[c] + ((IF c = seller THEN n ELSE 0) - (IF c = buyer THEN n ELSE 0))]
  <2>1. cash' = AllAtOnce(cash, buyer, seller, n)
    BY <1>1, <1>5, <1>6, <1>9, MovedIs
  <2> QED BY <2>1 DEF AllAtOnce
<1>13. cash' = [c \in Clients |-> cash[c] + Money!CashGain(c, d)]
  BY <1>7, <1>12 DEF Money!CashGain
<1>14. holding' = [s \in Symbols |->
                     [c \in Clients |-> holding[s][c] + Money!SharesGain(c, s, d)]]
  <2> DEFINE y == order[id].symbol
  <2>1. ASSUME NEW s \in Symbols
        PROVE  holding'[s] = [c \in Clients |-> holding[s][c] + Money!SharesGain(c, s, d)]
    <3>1. CASE s = y
      <4>1. holding'[s] = Moved(holding[s], seller, buyer, q)
        BY <1>1, <1>9, <3>1
      <4>2. holding'[s] = [c \in Clients |-> holding[s][c]
                 + ((IF c = buyer THEN q ELSE 0) - (IF c = seller THEN q ELSE 0))]
        <5>1. holding'[s] = AllAtOnce(holding[s], seller, buyer, q)
          BY <1>5, <1>6, <1>9, <4>1, MovedIs
        <5> QED BY <5>1 DEF AllAtOnce
      <4> QED BY <1>7, <3>1, <4>2 DEF Money!SharesGain
    <3>2. CASE s # y
      <4>1. holding'[s] = holding[s] /\ holding[s] \in [Clients -> Int]
        BY <1>1, <1>9, <3>2
      <4>2. \A c \in Clients : Money!SharesGain(c, s, d) = 0
        BY <1>7, <3>2 DEF Money!SharesGain
      <4>3. \A c \in Clients : holding[s][c] + 0 = holding[s][c]
        BY <4>1
      <4> QED BY <4>1, <4>2, <4>3
    <3> QED BY <3>1, <3>2
  <2>2. holding' = [s \in Symbols |-> holding'[s]]
    BY <1>1, <1>9
  <2> QED BY <2>1, <2>2
<1>15. \A i \in Ids : \A j \in 1 .. Len(trades[i]) : DueTrade(i, j)' = DueTrade(i, j)
  BY <1>1, BooksStill, DueTradeStays DEF OrdersStay
<1>16. trades' = trades
  BY <1>1, BooksStill
<1>17. \A e : e \in Unpaid' <=>
         \E i \in Ids : \E j \in settled'[i] + 1 .. Len(trades[i]) : e = DueTrade(i, j)'
  BY <1>16 DEF Unpaid
<1>18. \A i \in Ids : \A j : j \in settled'[i] + 1 .. Len(trades[i]) <=>
         j \in settled[i] + 1 .. Len(trades[i]) /\ ~(i = id /\ j = k)
  BY <1>2, <1>11, TradeTypes
<1>19. \A i \in Ids : \A j \in settled[i] + 1 .. Len(trades[i]) : j \in 1 .. Len(trades[i])
  BY TradeTypes
<1>20. Unpaid' = Unpaid \ {d}
  <2>1. ASSUME NEW e \in Unpaid' PROVE e \in Unpaid /\ e # d
    <3>1. PICK i \in Ids : \E j \in settled'[i] + 1 .. Len(trades[i]) : e = DueTrade(i, j)'
      BY <1>17
    <3>2. PICK j \in settled'[i] + 1 .. Len(trades[i]) : e = DueTrade(i, j)'
      BY <3>1
    <3>3. j \in settled[i] + 1 .. Len(trades[i]) /\ ~(i = id /\ j = k)
      BY <1>18, <3>2
    <3>4. e = DueTrade(i, j)
      BY <1>15, <1>19, <3>2, <3>3
    <3>5. e.key = <<i, j>>
      BY <3>4, KeyOf
    <3> QED BY <1>7, <3>3, <3>4, <3>5, UnpaidTrades
  <2>2. ASSUME NEW e \in Unpaid, e # d PROVE e \in Unpaid'
    <3>1. PICK i \in Ids : \E j \in settled[i] + 1 .. Len(trades[i]) : e = DueTrade(i, j)
      BY UnpaidTrades
    <3>2. PICK j \in settled[i] + 1 .. Len(trades[i]) : e = DueTrade(i, j)
      BY <3>1
    <3>3. ~(i = id /\ j = k)
      BY <2>2, <3>2 DEF d
    <3>4. j \in settled'[i] + 1 .. Len(trades[i]) /\ e = DueTrade(i, j)'
      BY <1>15, <1>18, <1>19, <3>2, <3>3
    <3> QED BY <1>17, <3>4
  <2> QED BY <2>1, <2>2
<1>21. Paid' = Paid \cup {d.key}
  <2>1. \A e : e \in Paid' <=> \E i \in Ids : \E j \in 1 .. settled'[i] : e = <<i, j>>
    BY DEF Paid
  <2>2. \A i \in Ids : \A j : j \in 1 .. settled'[i] <=>
          j \in 1 .. settled[i] \/ (i = id /\ j = k)
    BY <1>2, <1>11, TradeTypes
  <2>3. ASSUME NEW e \in Paid' PROVE e \in Paid \cup {d.key}
    BY <1>7, <2>1, <2>2, PaidTrades
  <2>4. ASSUME NEW e \in Paid \cup {d.key} PROVE e \in Paid'
    BY <1>2, <1>7, <2>1, <2>2, PaidTrades
  <2> QED BY <2>3, <2>4
<1> QED BY <1>8, <1>13, <1>14, <1>20, <1>21 DEF Money!SettleOne, Money!Settle

-----------------------------------------------------------------------------

\* Every step of a thread is a step of Settlement, or leaves the money alone.
LEMMA MoneyStep == EngineInv /\ [Next]_vars => [Money!Next]_(Money!money)
<1> SUFFICES ASSUME EngineInv, [Next]_vars
             PROVE  Money!Next \/ UNCHANGED Money!money
  OBVIOUS
<1>1. ASSUME UNCHANGED <<order, trades, settled, cash, holding>>
      PROVE  UNCHANGED Money!money
  BY <1>1, NoMoney DEF OrdersStay
<1>2. CASE \E t \in Workers : WorkerActs(t)
  <2>1. PICK t \in Workers : WorkerActs(t)
    BY <1>2
  <2>2. CASE \E r \in Requests : Submit(t, r)
    <3>1. /\ \E o : order' = [order EXCEPT ![nextId] = o]
          /\ UNCHANGED <<trades, settled, cash, holding>>
      BY <2>2 DEF Submit, Build, moneyVars
    <3>2. OrdersStay
      <4>1. /\ nextId \in Nat /\ 1 .. nextId - 1 \subseteq Ids
        BY IdFacts DEF EngineInv
      <4>2. \A i \in 1 .. nextId - 1 : i \in Ids /\ i # nextId
        BY <4>1
      <4>3. order \in [Ids -> OrderRecords]
        BY DEF EngineInv, BookInv, BookTypeOK
      <4> QED BY <3>1, <4>2, <4>3 DEF OrdersStay
    <3> QED BY <3>1, <3>2, NoMoney
  <2>3. CASE RiskCheck(t) \/ BandCheck(t) \/ Hold(t) \/ CancelFallback(t)
    BY <1>1, <2>3 DEF RiskCheck, BandCheck, Hold, CancelFallback, bookVars, moneyVars
  <2>4. CASE \E id \in Ids : CancelInBook(t, id) \/ MissInBook(t, id) \/ CancelWaiting(t, id)
    BY <1>1, <2>4 DEF CancelInBook, CancelById, CancelAt, MissInBook, CancelWaiting,
                      bookVars, moneyVars
  <2> QED BY <2>1, <2>2, <2>3, <2>4 DEF WorkerActs
<1>3. CASE \E t \in Threads : MatchAndSettle(t)
  <2>1. PICK t \in Threads : MatchAndSettle(t)
    BY <1>3
  <2>2. CASE Match(t)
    BY <2>2, MatchExecutes DEF Money!Next
  <2>3. CASE Settle(t)
    BY <2>3, SettleSettles DEF Money!Next
  <2>4. CASE EnterBook(t) \/ LeaveBook(t) \/ SetPrice(t) \/ MarkDirty(t)
    BY <1>1, <2>4 DEF EnterBook, Enter, LeaveBook, Finish, SetPrice, MarkDirty,
                      bookVars, moneyVars
  <2> QED BY <2>1, <2>2, <2>3, <2>4 DEF MatchAndSettle
<1>4. CASE WatcherActs
  BY <1>1, <1>4 DEF WatcherActs, DirtyScan, FullScan, EndOfScan, Tick, ScanBucket, Release,
                    bookVars, moneyVars
<1>5. CASE UNCHANGED vars
  BY <1>1, <1>5 DEF vars, bookVars, engineVars, moneyVars
<1> QED BY <1>2, <1>3, <1>4, <1>5, NextCases

\* The initial state of the engine is one of Settlement.
LEMMA MoneyInit == Init => Money!Init
<1> SUFFICES ASSUME Init PROVE Money!Init
  OBVIOUS
<1>1. \A i \in Ids : settled[i] = 0 /\ trades[i] = <<>> /\ Len(trades[i]) = 0
  BY DEF Init, BookInit
<1>2. Unpaid = {} /\ Paid = {}
  BY <1>1 DEF Unpaid, Paid
<1> QED BY <1>2 DEF Init, Money!Init

\* The engine implements Settlement: money and shares are moved by trades only, each
\* trade once, the buyer's cash for the seller's shares, whoever else is trading,
\* cancelling or scanning.
THEOREM EveryTradeIsPaidOnce == Spec => MoneyMovesByTrades
<1> QED BY EngineInvariance, MoneyInit, MoneyStep, PTL DEF Spec, MoneyMovesByTrades

-----------------------------------------------------------------------------
(***************************************************************************)
(* Solvency.  What an approved order may still cost is its limit times the *)
(* quantity that no settled trade has taken from it yet, whether that      *)
(* quantity is waiting, rests in a book or is in a trade that is not       *)
(* settled.  A client that is not careless can always bear that much, and  *)
(* has only one such order to bear at a time.                              *)
(***************************************************************************)

\* What the settled trades took of order id.
SettledPart(i, k, id) == Part(trades[i][k], i, id)

SettledBy(i, id) ==
  SumFunctionOnSet([k \in 1 .. settled[i] |-> SettledPart(i, k, id)], 1 .. settled[i])

SettledOf(id) == SumFunctionOnSet([i \in Ids |-> SettledBy(i, id)], Ids)

Open(id) == order[id].quantity - SettledOf(id)

LEMMA SettledIsSum ==
  ASSUME EngineInv, NEW id
  PROVE  /\ \A i \in Ids :
              /\ settled[i] \in Nat /\ IsFiniteSet(1 .. settled[i])
              /\ \A k \in 1 .. settled[i] : SettledPart(i, k, id) \in Nat
              /\ SettledBy(i, id) \in Nat
              /\ SettledBy(i, id) <= ExecutedBy(i, id)
         /\ IsFiniteSet(Ids)
         /\ SettledOf(id) \in Nat
         /\ SettledOf(id) <= Executed(id)
<1>1. /\ \A i \in Ids :
           /\ IsFiniteSet(DOMAIN trades[i])
           /\ \A k \in DOMAIN trades[i] : Part(trades[i][k], i, id) \in Nat
           /\ ExecutedBy(i, id) =
                SumFunctionOnSet([k \in DOMAIN trades[i] |-> Part(trades[i][k], i, id)],
                                 DOMAIN trades[i])
           /\ ExecutedBy(i, id) \in Nat
      /\ IsFiniteSet(Ids)
      /\ Executed(id) = SumFunctionOnSet([i \in Ids |-> ExecutedBy(i, id)], Ids)
  BY ExecutedIsSum DEF EngineInv
<1>2. ASSUME NEW i \in Ids
      PROVE  /\ settled[i] \in Nat /\ IsFiniteSet(1 .. settled[i])
             /\ \A k \in 1 .. settled[i] : SettledPart(i, k, id) \in Nat
             /\ SettledBy(i, id) \in Nat
             /\ SettledBy(i, id) <= ExecutedBy(i, id)
  <2> DEFINE S == 1 .. settled[i]
             T == DOMAIN trades[i]
             f == [k \in S |-> SettledPart(i, k, id)]
             g == [k \in T |-> Part(trades[i][k], i, id)]
  <2>1. settled[i] \in Nat /\ S \subseteq T /\ T = 1 .. Len(trades[i])
    BY TradeTypes
  <2>2. IsFiniteSet(S) /\ IsFiniteSet(T)
    BY <1>1, <2>1, FS_Subset
  <2>3. /\ \A k \in S : f[k] \in Nat /\ g[k] = f[k]
        /\ \A k \in T : g[k] \in Nat
    BY <1>1, <2>1 DEF SettledPart
  <2>4. SettledBy(i, id) = SumFunctionOnSet(f, S) /\ ExecutedBy(i, id) = SumFunctionOnSet(g, T)
    BY <1>1 DEF SettledBy
  <2>5. \A k \in S : SettledPart(i, k, id) \in Nat
    BY <2>3
  <2> HIDE DEF S, T, f, g
  <2>6. SumFunctionOnSet(f, S) \in Nat
    BY <2>2, <2>3, SumNatural
  <2>7. SumFunctionOnSet(f, S) = SumFunctionOnSet(g, S)
    BY <2>2, <2>3, SumSame
  <2>8. SumFunctionOnSet(g, S) <= SumFunctionOnSet(g, T)
    BY <2>1, <2>2, <2>3, SumOfPart
  <2> QED BY <2>1, <2>2, <2>4, <2>5, <2>6, <2>7, <2>8 DEF S
<1> DEFINE f == [i \in Ids |-> SettledBy(i, id)]
           g == [i \in Ids |-> ExecutedBy(i, id)]
<1>3. \A i \in Ids : f[i] \in Nat /\ g[i] \in Nat /\ f[i] <= g[i]
  BY <1>1, <1>2
<1>4. SettledOf(id) = SumFunctionOnSet(f, Ids) /\ Executed(id) = SumFunctionOnSet(g, Ids)
  BY <1>1 DEF SettledOf
<1> HIDE DEF f, g
<1>5. SumFunctionOnSet(f, Ids) \in Nat
  BY <1>1, <1>3, SumNatural
<1>6. SumFunctionOnSet(f, Ids) <= SumFunctionOnSet(g, Ids)
  BY <1>1, <1>3, SumMonotone
<1> QED BY <1>1, <1>2, <1>4, <1>5, <1>6

\* No more is settled of an order than it was built with.
LEMMA OpenIsNatural ==
  ASSUME EngineInv, QuantityConserved, NEW id \in 1 .. nextId - 1
  PROVE  Open(id) \in Nat /\ order[id].quantity \in Nat /\ Open(id) <= order[id].quantity
<1>1. id \in Ids
  BY IdFacts DEF EngineInv
<1>2. order[id] \in OrderRecords /\ left[id] \in Nat
  BY <1>1 DEF EngineInv, BookInv, BookTypeOK
<1>3. order[id].quantity \in Nat
  BY <1>2, BookAssumption DEF OrderRecords
<1>4. order[id].quantity = left[id] + Executed(id)
  BY DEF QuantityConserved
<1>5. SettledOf(id) \in Nat /\ SettledOf(id) <= Executed(id) /\ Executed(id) \in Nat
  BY SettledIsSum, ExecutedIsSum DEF EngineInv
<1> QED BY <1>2, <1>3, <1>4, <1>5 DEF Open

\* Trades that are made settle nothing.
LEMMA NothingSettled ==
  ASSUME EngineInv, settled' = settled,
         \A i \in Ids : \A k \in 1 .. Len(trades[i]) : trades'[i][k] = trades[i][k],
         NEW id
  PROVE  SettledOf(id)' = SettledOf(id)
<1>1. ASSUME NEW i \in Ids
      PROVE  SettledBy(i, id)' = SettledBy(i, id)
  <2>1. \A k \in 1 .. settled[i] : SettledPart(i, k, id)' = SettledPart(i, k, id)
    <3>1. \A k \in 1 .. settled[i] : k \in 1 .. Len(trades[i])
      BY TradeTypes
    <3> QED BY <3>1 DEF SettledPart, Part
  <2>2. [k \in 1 .. settled[i] |-> SettledPart(i, k, id)'] =
        [k \in 1 .. settled[i] |-> SettledPart(i, k, id)]
    BY <2>1
  <2> QED BY <2>2 DEF SettledBy
<1>2. [i \in Ids |-> SettledBy(i, id)'] = [i \in Ids |-> SettledBy(i, id)]
  BY <1>1
<1> QED BY <1>2 DEF SettledOf

\* settle() takes the quantity of the trade from both its orders.
LEMMA SettlingTakes ==
  ASSUME EngineInv, NEW x \in Ids, UNCHANGED trades, settled' = [settled EXCEPT ![x] = @ + 1],
         settled[x] + 1 \in 1 .. Len(trades[x]), NEW id
  PROVE  SettledOf(id)' = SettledOf(id) + Part(trades[x][settled[x] + 1], x, id)
<1> DEFINE len == settled[x]
           more == Part(trades[x][len + 1], x, id)
<1>1. /\ len \in Nat /\ settled'[x] = len + 1
      /\ \A i \in Ids : i # x => settled'[i] = settled[i]
  BY DEF EngineInv, EngineTypeOK
<1>2. more \in Nat
  <2>1. \A k \in DOMAIN trades[x] : Part(trades[x][k], x, id) \in Nat
    BY ExecutedIsSum DEF EngineInv
  <2>2. trades[x] \in Seq(Trades)
    BY TradeTypes
  <2>3. DOMAIN trades[x] = 1 .. Len(trades[x])
    BY <2>2
  <2> QED BY <2>1, <2>3
<1>3. \A i \in Ids : i # x => SettledBy(i, id)' = SettledBy(i, id)
  BY <1>1 DEF SettledBy, SettledPart
<1>4. SettledBy(x, id)' = SettledBy(x, id) + more
  <2> DEFINE f == [k \in 1 .. len |-> SettledPart(x, k, id)]
             g == [k \in 1 .. len + 1 |-> SettledPart(x, k, id)]
  <2>1. /\ SettledBy(x, id) = SumFunctionOnSet(f, 1 .. len)
        /\ SettledBy(x, id) \in Nat
        /\ IsFiniteSet(1 .. len)
        /\ \A k \in 1 .. len : SettledPart(x, k, id) \in Nat
    BY SettledIsSum DEF SettledBy
  <2>2. SettledBy(x, id)' = SumFunctionOnSet(g, 1 .. len + 1)
    BY <1>1 DEF SettledBy, SettledPart
  <2>3. 1 .. len + 1 = (1 .. len) \cup {len + 1} /\ len + 1 \notin 1 .. len
    BY <1>1
  <2>4. SettledPart(x, len + 1, id) = more
    BY DEF SettledPart
  <2>5. /\ \A k \in 1 .. len : g[k] = f[k] /\ g[k] \in Int
        /\ g[len + 1] = more
    BY <1>1, <2>1, <2>3, <2>4
  <2> HIDE DEF f, g, more, len
  <2>6. \A k \in (1 .. len) \cup {len + 1} : g[k] \in Int
    BY <1>2, <2>5
  <2>7. SumFunctionOnSet(g, (1 .. len) \cup {len + 1}) = more + SumFunctionOnSet(g, 1 .. len)
    BY <2>1, <2>3, <2>5, <2>6, SumInsert
  <2>8. SumFunctionOnSet(g, 1 .. len) = SumFunctionOnSet(f, 1 .. len)
    <3> DEFINE S == 1 .. len
    <3>1. IsFiniteSet(S) /\ \A k \in S : g[k] = f[k]
      BY <2>1, <2>5
    <3> HIDE DEF S
    <3>2. SumFunctionOnSet(g, S) = SumFunctionOnSet(f, S)
      BY <3>1, SumSame
    <3> QED BY <3>2 DEF S
  <2>9. SettledBy(x, id)' = SumFunctionOnSet(g, (1 .. len) \cup {len + 1})
    BY <2>2, <2>3
  <2>10. SettledBy(x, id)' = more + SettledBy(x, id)
    BY <2>1, <2>7, <2>8, <2>9
  <2> QED BY <1>2, <2>1, <2>10
<1> DEFINE f == [i \in Ids |-> SettledBy(i, id)]
           g == [i \in Ids |-> SettledBy(i, id)']
<1>5. \A i \in Ids : SettledBy(i, id) \in Nat
  BY SettledIsSum
<1>6. \A i \in Ids : f[i] \in Int /\ g[i] \in Int /\ (i # x => f[i] = g[i])
  BY <1>2, <1>3, <1>4, <1>5
<1>7. f[x] \in Nat /\ g[x] = f[x] + more
  BY <1>4, <1>5
<1>8. /\ SettledOf(id) = SumFunctionOnSet(f, Ids) /\ SettledOf(id) \in Nat /\ IsFiniteSet(Ids)
      /\ SettledOf(id)' = SumFunctionOnSet(g, Ids)
  BY SettledIsSum DEF SettledOf
<1> HIDE DEF f, g, more
<1>9. SumFunctionOnSet(g, Ids) = SumFunctionOnSet(f, Ids) - f[x] + g[x]
  BY <1>6, <1>8, SumUpdate
<1>10. SettledOf(id)' = SettledOf(id) + more
  BY <1>2, <1>7, <1>8, <1>9
<1> QED BY <1>10 DEF more

-----------------------------------------------------------------------------
\* Only an approval makes an order one that may still cost something.

Approved == {"band", "hold", "enter", "match"}

Carried(id) == \E t \in Threads : job[t] = id /\ pc[t] \in Approved

Owed(id) ==
  \E i \in Ids : \E k \in settled[i] + 1 .. Len(trades[i]) : i = id \/ trades[i][k].maker = id

LEMMA PendingIs ==
  \A id : Pending(id) <=> Carried(id) \/ id \in waiting \cup released \/ Resting(id) \/ Owed(id)
BY DEF Pending, Carried, Owed, Approved

\* A step that makes no trade: nothing is pending after it that was not before, if
\* that is so of what threads carry, of what waits and of what rests.
LEMMA PendingKept ==
  ASSUME EngineInv, EngineInv', trades' = trades,
         \A i \in Ids : settled'[i] >= settled[i],
         \A i \in waiting' \cup released' : Pending(i),
         \A t \in Threads : pc'[t] \in Approved => Pending(job'[t]),
         NEW id, Resting(id)' => Pending(id), Pending(id)'
  PROVE  Pending(id)
<1>1. Carried(id)' \/ id \in waiting' \cup released' \/ Resting(id)' \/ Owed(id)'
  BY DEF Pending, Carried, Owed, Approved
<1>2. CASE Carried(id)'
  BY <1>2 DEF Carried
<1>3. CASE Owed(id)'
  <2>1. PICK i \in Ids : \E k \in settled'[i] + 1 .. Len(trades[i]) :
               i = id \/ trades[i][k].maker = id
    BY <1>3 DEF Owed
  <2>2. PICK k \in settled'[i] + 1 .. Len(trades[i]) : i = id \/ trades[i][k].maker = id
    BY <2>1
  <2>3. settled[i] \in Nat /\ settled'[i] \in Nat /\ Len(trades[i]) \in Nat
    BY TradeTypes DEF EngineInv, EngineTypeOK
  <2>4. k \in settled[i] + 1 .. Len(trades[i])
    BY <2>3
  <2>5. Owed(id)
    BY <2>2, <2>4 DEF Owed
  <2> QED BY <2>5, PendingIs
<1> QED BY <1>1, <1>2, <1>3

\* Threads that stay where they are, but for one.
LEMMA OthersCarry ==
  ASSUME NEW t \in Threads, NEW state, NEW id, Moves(t, state, id),
         state \in Approved => Pending(id)
  PROVE  \A u \in Threads : pc'[u] \in Approved => Pending(job'[u])
<1>1. \A u \in Threads : pc[u] \in Approved => Pending(job[u])
  BY PendingIs DEF Carried
<1> QED BY <1>1 DEF Moves

LEMMA SettledCounts ==
  ASSUME EngineInv
  PROVE  \A i \in Ids : settled[i] \in Nat /\ settled[i] >= settled[i]
<1>1. \A i \in Ids : settled[i] \in Nat
  BY TradeTypes
<1> QED BY <1>1

\* A worker's step makes nothing pending, unless it approves.
LEMMA WorkerPending ==
  ASSUME EngineInv, EngineInv', NEW t \in Workers, WorkerActs(t), ~RiskCheck(t),
         NEW id \in Ids, Pending(id)'
  PROVE  Pending(id)
<1> USE DEF moneyVars, watcherVars
<1>1. t \in Threads /\ EngineTypeOK /\ BookInv
  BY DEF Threads, EngineInv
<1>2. \A i \in waiting \cup released : Pending(i)
  BY PendingIs
<1>3. Resting(id) => Pending(id)
  BY PendingIs
<1>4. \A u \in Threads : pc[u] \in Approved => Pending(job[u])
  BY PendingIs DEF Carried
<1>5. ASSUME NEW r \in Requests, Submit(t, r)
      PROVE  Pending(id)
  <2>1. /\ trades' = trades /\ settled' = settled /\ waiting' = waiting /\ released' = released
        /\ queue' = queue
    BY <1>5 DEF Submit, Build
  <2>2. Resting(id)' => Resting(id)
    BY <2>1 DEF Resting, FoundAt
  <2>3. \/ Moves(t, "risk", nextId)
        \/ pc' = pc /\ job' = job
    BY <1>1, <1>5, ReturnMoves DEF Submit
  <2>4. \A u \in Threads : pc'[u] \in Approved => Pending(job'[u])
    <3>1. "risk" \notin Approved
      BY DEF Approved
    <3> QED BY <1>1, <1>4, <2>3, <3>1, OthersCarry
  <2> QED BY <1>2, <1>3, <2>1, <2>2, <2>4, SettledCounts, PendingKept
<1>6. CASE BandCheck(t)
  <2>1. /\ UNCHANGED bookVars /\ settled' = settled /\ waiting' = waiting /\ released' = released
        /\ pc[t] = "band"
    BY <1>6 DEF BandCheck
  <2>2. Moves(t, "enter", job[t]) \/ Moves(t, "hold", job[t])
    BY <1>1, <1>6, GoMoves DEF BandCheck
  <2>3. Pending(job[t])
    BY <1>1, <2>1, <1>4 DEF Approved
  <2>4. \A u \in Threads : pc'[u] \in Approved => Pending(job'[u])
    BY <1>1, <2>2, <2>3, OthersCarry
  <2>5. trades' = trades /\ (Resting(id)' => Resting(id))
    BY <2>1, BooksStill
  <2> QED BY <1>2, <1>3, <2>1, <2>4, <2>5, SettledCounts, PendingKept
<1>7. CASE Hold(t)
  <2>1. /\ UNCHANGED bookVars /\ settled' = settled /\ waiting' = waiting \cup {job[t]}
        /\ released' = released /\ pc[t] = "hold"
    BY <1>7 DEF Hold
  <2>2. Moves(t, Idle, NoOrder)
    BY <1>1, <1>7, ReturnMoves DEF Hold, Return
  <2>3. Pending(job[t])
    BY <1>1, <2>1, <1>4 DEF Approved
  <2>4. \A i \in waiting' \cup released' : Pending(i)
    BY <1>2, <2>1, <2>3
  <2>5. \A u \in Threads : pc'[u] \in Approved => Pending(job'[u])
    BY <1>1, <2>2, OthersCarry DEF Idle, Approved
  <2>6. trades' = trades /\ (Resting(id)' => Resting(id))
    BY <2>1, BooksStill
  <2> QED BY <1>3, <2>1, <2>4, <2>5, <2>6, SettledCounts, PendingKept
<1>8. CASE CancelFallback(t)
  <2>1. /\ UNCHANGED bookVars /\ settled' = settled /\ waiting' = waiting \ {job[t]}
        /\ released' = released
    BY <1>8 DEF CancelFallback
  <2>2. Moves(t, Idle, NoOrder)
    BY <1>1, <1>8, ReturnMoves DEF CancelFallback, Return
  <2>3. \A u \in Threads : pc'[u] \in Approved => Pending(job'[u])
    BY <1>1, <2>2, OthersCarry DEF Idle, Approved
  <2>4. trades' = trades /\ (Resting(id)' => Resting(id))
    BY <2>1, BooksStill
  <2>5. \A i \in waiting' \cup released' : Pending(i)
    BY <1>2, <2>1
  <2> QED BY <1>3, <2>1, <2>3, <2>4, <2>5, SettledCounts, PendingKept
<1>9. ASSUME NEW i \in Ids, CancelInBook(t, i)
      PROVE  Pending(id)
  <2>1. /\ settled' = settled /\ waiting' = waiting /\ released' = released
        /\ pc' = pc /\ job' = job
    BY <1>9 DEF CancelInBook
  <2>2. PICK d \in Sides, p \in Prices : CancelAt(order[i].symbol, d, p, i)
    BY <1>9 DEF CancelInBook, CancelById
  <2>3. trades' = trades /\ order[i].symbol \in Symbols
    BY <1>1, <2>2, IdFacts DEF CancelAt
  <2>4. Resting(id)' => Resting(id)
    BY <1>1, <2>2, <2>3, CancelResting
  <2>5. \A u \in Threads : pc'[u] \in Approved => Pending(job'[u])
    BY <1>4, <2>1
  <2> QED BY <1>2, <1>3, <2>1, <2>3, <2>4, <2>5, SettledCounts, PendingKept
<1>10. ASSUME NEW i \in Ids, MissInBook(t, i)
      PROVE  Pending(id)
  <2>1. /\ UNCHANGED bookVars /\ settled' = settled /\ waiting' = waiting /\ released' = released
    BY <1>10 DEF MissInBook
  <2>2. Moves(t, "fallback", i)
    BY <1>1, <1>10, ReturnMoves DEF MissInBook
  <2>3. \A u \in Threads : pc'[u] \in Approved => Pending(job'[u])
    BY <1>1, <2>2, OthersCarry DEF Approved
  <2>4. trades' = trades /\ (Resting(id)' => Resting(id))
    BY <2>1, BooksStill
  <2> QED BY <1>2, <1>3, <2>1, <2>3, <2>4, SettledCounts, PendingKept
<1>11. ASSUME NEW i \in Ids, CancelWaiting(t, i)
      PROVE  Pending(id)
  <2>1. /\ UNCHANGED bookVars /\ settled' = settled /\ waiting' = waiting \ {i}
        /\ released' = released /\ pc' = pc /\ job' = job
    BY <1>11 DEF CancelWaiting
  <2>2. \A u \in Threads : pc'[u] \in Approved => Pending(job'[u])
    BY <1>4, <2>1
  <2>3. trades' = trades /\ (Resting(id)' => Resting(id))
    BY <2>1, BooksStill
  <2>4. \A j \in waiting' \cup released' : Pending(j)
    BY <1>2, <2>1
  <2> QED BY <1>3, <2>1, <2>2, <2>3, <2>4, SettledCounts, PendingKept
<1> QED BY <1>5, <1>6, <1>7, <1>8, <1>9, <1>10, <1>11 DEF WorkerActs

\* Neither does a step of match_and_settle: a trade is made of an order in hand and
\* one that rests, and what is left of the order in hand rests.
LEMMA MatchPending ==
  ASSUME EngineInv, EngineInv', NEW t \in Threads, MatchAndSettle(t),
         NEW id \in Ids, Pending(id)'
  PROVE  Pending(id)
<1> USE DEF moneyVars, watcherVars
<1>1. EngineTypeOK /\ BookInv
  BY DEF EngineInv
<1>2. \A i \in waiting \cup released : Pending(i)
  BY PendingIs
<1>3. Resting(id) => Pending(id)
  BY PendingIs
<1>4. \A u \in Threads : pc[u] \in Approved => Pending(job[u])
  BY PendingIs DEF Carried
<1>5. CASE EnterBook(t)
  <2>1. /\ trades' = trades /\ queue' = queue
        /\ settled' = settled /\ waiting' = waiting /\ released' = released
        /\ pc[t] = "enter"
    BY <1>5 DEF EnterBook, Enter
  <2>2. Moves(t, "match", job[t])
    BY <1>1, <1>5, GoMoves DEF EnterBook
  <2>3. Pending(job[t])
    BY <1>4, <2>1 DEF Approved
  <2>4. \A u \in Threads : pc'[u] \in Approved => Pending(job'[u])
    BY <2>2, <2>3, OthersCarry
  <2>5. Resting(id)' => Resting(id)
    BY <2>1 DEF Resting, FoundAt
  <2> QED BY <1>2, <1>3, <2>1, <2>4, <2>5, SettledCounts, PendingKept
<1>6. CASE Match(t)
  <2>1. /\ pc[t] = "match" /\ UNCHANGED <<waiting, released, settled, pc, job>>
        /\ \E p \in Prices : FillAt(SymbolOf(t), p)
    BY <1>6 DEF Match, Fill, engineVars
  <2>2. PICK p \in Prices : FillAt(SymbolOf(t), p)
    BY <2>1
  <2>3. /\ job[t] \in Ids /\ SymbolOf(t) \in Symbols /\ taker[SymbolOf(t)] = job[t]
    BY <2>1, IdFacts DEF EngineInv, OwnerInv, JobInv, PhaseInv, Working, SymbolOf
  <2> DEFINE x == job[t]
             m == MakerAt(SymbolOf(t), p)
             trade == [maker |-> m, quantity |-> TradedAt(SymbolOf(t), p), price |-> p]
  <2>4. /\ Resting(m) /\ Pending(m)
        /\ Resting(id)' => Resting(id)
    BY <1>1, <2>2, <2>3, FillResting, PendingIs
  <2>5. Pending(x)
    BY <1>4, <2>1 DEF Approved
  <2>6. trades' = [trades EXCEPT ![x] = Append(@, trade)]
    BY <2>2, <2>3 DEF FillAt
  <2>7. trade.maker = m
    OBVIOUS
  <2>8. trades \in [Ids -> Seq(Trades)]
    BY <1>1 DEF BookInv, BookTypeOK
  <2> HIDE DEF x, m, trade
  <2>9. /\ \A i \in Ids : i # x => trades'[i] = trades[i]
        /\ trades'[x] = Append(trades[x], trade)
    BY <2>3, <2>6, <2>8 DEF x
  <2>10. x \in Ids /\ trades[x] \in Seq(Trades)
    BY <2>3, <2>8 DEF x
  <2>11. /\ Len(trades'[x]) = Len(trades[x]) + 1 /\ Len(trades[x]) \in Nat
         /\ \A k \in 1 .. Len(trades[x]) : trades'[x][k] = trades[x][k]
         /\ trades'[x][Len(trades[x]) + 1] = trade
    BY <2>9, <2>10
  <2>12. CASE Owed(id)'
    <3>1. PICK i \in Ids : \E k \in settled[i] + 1 .. Len(trades'[i]) :
                 i = id \/ trades'[i][k].maker = id
      BY <2>1, <2>12 DEF Owed
    <3>2. PICK k \in settled[i] + 1 .. Len(trades'[i]) : i = id \/ trades'[i][k].maker = id
      BY <3>1
    <3>3. settled[i] \in Nat /\ Len(trades[i]) \in Nat
      BY TradeTypes
    <3>4. CASE i = x /\ k = Len(trades[x]) + 1
      BY <2>4, <2>5, <2>7, <2>11, <3>2, <3>4
    <3>5. CASE ~(i = x /\ k = Len(trades[x]) + 1)
      <4>1. k \in settled[i] + 1 .. Len(trades[i]) /\ trades'[i][k] = trades[i][k]
        <5>1. CASE i = x
          BY <2>11, <3>2, <3>3, <3>5, <5>1
        <5>2. CASE i # x
          BY <2>9, <3>2, <5>2
        <5> QED BY <5>1, <5>2
      <4>2. Owed(id)
        BY <3>2, <4>1 DEF Owed
      <4> QED BY <4>2, PendingIs
    <3> QED BY <3>4, <3>5
  <2>13. CASE Carried(id)'
    <3>1. Carried(id)
      BY <2>1, <2>13 DEF Carried
    <3> QED BY <3>1, PendingIs
  <2>14. Carried(id)' \/ id \in waiting' \cup released' \/ Resting(id)' \/ Owed(id)'
    BY DEF Pending, Carried, Owed, Approved
  <2> QED BY <1>2, <1>3, <2>1, <2>4, <2>12, <2>13, <2>14
<1>7. CASE LeaveBook(t)
  <2>1. /\ trades' = trades /\ settled' = settled /\ waiting' = waiting /\ released' = released
        /\ pc[t] = "match" /\ Finish(SymbolOf(t))
    BY <1>7 DEF LeaveBook, Finish
  <2>2. /\ job[t] \in Ids /\ SymbolOf(t) \in Symbols /\ taker[SymbolOf(t)] = job[t]
    BY <2>1, IdFacts DEF EngineInv, OwnerInv, JobInv, PhaseInv, Working, SymbolOf
  <2>3. Pending(job[t])
    BY <1>4, <2>1 DEF Approved
  <2>4. Resting(id)' => Pending(id)
    BY <1>1, <1>3, <2>1, <2>2, <2>3, FinishResting
  <2>5. Moves(t, "settle", job[t]) \/ Moves(t, Idle, NoOrder) \/ Moves(t, "release", NoOrder)
    BY <1>1, <1>7, GoMoves, EndOfMatchMoves DEF LeaveBook
  <2>6. \A u \in Threads : pc'[u] \in Approved => Pending(job'[u])
    <3>1. "settle" \notin Approved /\ Idle \notin Approved /\ "release" \notin Approved
      BY DEF Approved, Idle
    <3> QED BY <2>5, <3>1, OthersCarry
  <2> QED BY <1>2, <2>1, <2>4, <2>6, SettledCounts, PendingKept
<1>8. CASE Settle(t) \/ SetPrice(t) \/ MarkDirty(t)
  <2>1. /\ UNCHANGED bookVars /\ waiting' = waiting /\ released' = released
        /\ settled' = settled \/ settled' = [settled EXCEPT ![job[t]] = @ + 1]
    BY <1>8 DEF Settle, SetPrice, MarkDirty
  <2>2. \A i \in Ids : settled'[i] >= settled[i]
    <3>1. settled \in [Ids -> Nat]
      BY <1>1 DEF EngineTypeOK
    <3> QED BY <2>1, <3>1
  <2>3. \/ Moves(t, "price", job[t]) \/ Moves(t, "mark", job[t]) \/ Moves(t, "settle", job[t])
        \/ Moves(t, Idle, NoOrder) \/ Moves(t, "release", NoOrder)
    BY <1>1, <1>8, GoMoves, EndOfMatchMoves DEF Settle, SetPrice, MarkDirty
  <2>4. \A u \in Threads : pc'[u] \in Approved => Pending(job'[u])
    <3>1. /\ "settle" \notin Approved /\ Idle \notin Approved /\ "release" \notin Approved
          /\ "price" \notin Approved /\ "mark" \notin Approved
      BY DEF Approved, Idle
    <3> QED BY <2>3, <3>1, OthersCarry
  <2>5. trades' = trades /\ (Resting(id)' => Resting(id))
    BY <2>1, BooksStill
  <2> QED BY <1>2, <1>3, <2>1, <2>2, <2>4, <2>5, PendingKept
<1> QED BY <1>5, <1>6, <1>7, <1>8 DEF MatchAndSettle

\* Neither does the watcher: what it releases was waiting, what it hands to a book
\* was released.
LEMMA WatcherPending ==
  ASSUME EngineInv, EngineInv', WatcherActs, NEW id \in Ids, Pending(id)'
  PROVE  Pending(id)
<1> USE DEF moneyVars, watcherVars
<1>1. EngineTypeOK /\ Watcher \in Threads
  BY DEF EngineInv, Threads
<1>2. \A i \in waiting \cup released : Pending(i)
  BY PendingIs
<1>3. Resting(id) => Pending(id)
  BY PendingIs
<1>4. \A u \in Threads : pc[u] \in Approved => Pending(job[u])
  BY PendingIs DEF Carried
<1>5. UNCHANGED bookVars /\ settled' = settled
  BY DEF WatcherActs, DirtyScan, FullScan, EndOfScan, Tick, ScanBucket, Release
<1>6. trades' = trades /\ (Resting(id)' => Pending(id))
  BY <1>3, <1>5, BooksStill
<1>7. CASE DirtyScan \/ FullScan \/ EndOfScan \/ Tick
  <2>1. waiting' = waiting /\ released' = released
    BY <1>7 DEF DirtyScan, FullScan, EndOfScan, Tick
  <2>2. \/ Moves(Watcher, "dirty scan", job[Watcher]) \/ Moves(Watcher, "full scan", job[Watcher])
        \/ Moves(Watcher, "release", job[Watcher]) \/ Moves(Watcher, Idle, job[Watcher])
        \/ pc' = pc /\ job' = job
    BY <1>1, <1>7, GoMoves DEF DirtyScan, FullScan, EndOfScan, Tick
  <2>3. \A u \in Threads : pc'[u] \in Approved => Pending(job'[u])
    <3>1. /\ "dirty scan" \notin Approved /\ "full scan" \notin Approved
          /\ Idle \notin Approved /\ "release" \notin Approved
      BY DEF Approved, Idle
    <3> QED BY <1>1, <1>4, <2>2, <3>1, OthersCarry
  <2> QED BY <1>2, <1>5, <1>6, <2>1, <2>3, SettledCounts, PendingKept
<1>8. ASSUME NEW s \in Symbols, ScanBucket(s)
      PROVE  Pending(id)
  <2>1. /\ waiting' \subseteq waiting /\ released' \subseteq released \cup waiting
        /\ pc' = pc /\ job' = job
    BY <1>8 DEF ScanBucket
  <2>2. \A i \in waiting' \cup released' : Pending(i)
    BY <1>2, <2>1
  <2>3. \A u \in Threads : pc'[u] \in Approved => Pending(job'[u])
    BY <1>4, <2>1
  <2> QED BY <1>5, <1>6, <2>2, <2>3, SettledCounts, PendingKept
<1>9. ASSUME NEW i \in Ids, Release(i)
      PROVE  Pending(id)
  <2>1. waiting' = waiting /\ released' = released \ {i} /\ i \in released
    BY <1>9 DEF Release
  <2>2. Moves(Watcher, "enter", i)
    BY <1>1, <1>9, ReturnMoves DEF Release
  <2>3. \A u \in Threads : pc'[u] \in Approved => Pending(job'[u])
    BY <1>1, <1>2, <2>1, <2>2, OthersCarry
  <2>4. \A j \in waiting' \cup released' : Pending(j)
    BY <1>2, <2>1
  <2> QED BY <1>5, <1>6, <2>3, <2>4, SettledCounts, PendingKept
<1> QED BY <1>7, <1>8, <1>9 DEF WatcherActs

\* What an approval makes pending is the order that was checked.
LEMMA ApprovalPending ==
  ASSUME EngineInv, EngineInv', NEW t \in Workers, RiskCheck(t),
         NEW id \in Ids, Pending(id)'
  PROVE  \/ Pending(id)
         \/ /\ id = job[t] /\ pc[t] = "risk" /\ pc'[t] = "band"
            /\ PassesRiskCheck(order[id])
<1> USE DEF moneyVars, watcherVars
<1>1. EngineTypeOK /\ t \in Threads
  BY DEF EngineInv, Threads
<1>2. /\ UNCHANGED bookVars /\ settled' = settled /\ waiting' = waiting /\ released' = released
      /\ pc[t] = "risk"
  BY DEF RiskCheck
<1>3. \A i \in waiting \cup released : Pending(i)
  BY PendingIs
<1>4. trades' = trades /\ (Resting(id)' => Pending(id))
  BY <1>2, BooksStill, PendingIs
<1>5. CASE PassesRiskCheck(order[job[t]])
  <2>1. Moves(t, "band", job[t])
    BY <1>1, <1>5, GoMoves DEF RiskCheck
  <2>2. pc'[t] = "band"
    BY <2>1 DEF Moves
  <2>3. CASE id = job[t]
    BY <1>2, <1>5, <2>2, <2>3
  <2>4. CASE id # job[t] /\ ~Pending(id)
    <3>1. Carried(id)' => Pending(id)
      <4>1. \A u \in Threads : u # t => pc'[u] = pc[u] /\ job'[u] = job[u]
        BY <2>1 DEF Moves
      <4>2. job'[t] # id
        BY <2>1, <2>4 DEF Moves
      <4> QED BY <4>1, <4>2, PendingIs DEF Carried
    <3>2. Owed(id)' => Pending(id)
      <4>1. Owed(id)' => Owed(id)
        BY <1>2, <1>4 DEF Owed
      <4> QED BY <4>1, PendingIs
    <3>3. Carried(id)' \/ id \in waiting' \cup released' \/ Resting(id)' \/ Owed(id)'
      BY DEF Pending, Carried, Owed, Approved
    <3> QED BY <1>2, <1>3, <1>4, <3>1, <3>2, <3>3
  <2> QED BY <2>3, <2>4
<1>6. CASE ~PassesRiskCheck(order[job[t]])
  <2>1. Moves(t, Idle, NoOrder)
    BY <1>1, <1>6, ReturnMoves DEF RiskCheck, Return
  <2>2. \A u \in Threads : pc'[u] \in Approved => Pending(job'[u])
    BY <1>1, <2>1, OthersCarry DEF Idle, Approved
  <2> QED BY <1>2, <1>3, <1>4, <2>2, SettledCounts, PendingKept
<1> QED BY <1>5, <1>6

-----------------------------------------------------------------------------
\* What settle() costs whom.

LEMMA PendingIds ==
  ASSUME EngineInv, NEW id \in Ids, Pending(id)
  PROVE  id \in 1 .. nextId - 1
<1>1. entered \subseteq 1 .. nextId - 1
  BY IdFacts DEF EngineInv
<1>2. CASE Carried(id)
  BY <1>2 DEF Carried, Approved, EngineInv, OwnerInv, JobInv, Working, Unmatched
<1>3. CASE id \in waiting \cup released
  BY <1>3 DEF EngineInv, OwnerInv, HeldInv
<1>4. CASE Resting(id)
  BY <1>1, <1>4, RestingFacts DEF Resting, EngineInv
<1>5. CASE Owed(id)
  <2>1. PICK i \in Ids : \E k \in settled[i] + 1 .. Len(trades[i]) :
               i = id \/ trades[i][k].maker = id
    BY <1>5 DEF Owed
  <2>2. PICK k \in settled[i] + 1 .. Len(trades[i]) : i = id \/ trades[i][k].maker = id
    BY <2>1
  <2>3. k \in 1 .. Len(trades[i])
    BY TradeTypes
  <2> QED BY <2>2, <2>3, TradeParties
<1> QED BY <1>2, <1>3, <1>4, <1>5, PendingIs

\* b bought and s sold in trade, which order i made.
BoughtAndSold(i, trade, b, s) ==
  /\ {b, s} = {i, trade.maker}
  /\ b \in 1 .. nextId - 1 /\ s \in 1 .. nextId - 1
  /\ order[b].side = "BUY" /\ order[s].side = "SELL"
  /\ order[b].symbol = order[i].symbol /\ order[s].symbol = order[i].symbol
  /\ order[b].client = Buyer(i, trade) /\ order[s].client = Seller(i, trade)
  /\ order[b].kind # "MARKET" => trade.price <= order[b].price

\* The trade settled has a buying and a selling order, which are both pending.
LEMMA TradeOrders ==
  ASSUME EngineInv, NEW i \in Ids, NEW k \in settled[i] + 1 .. Len(trades[i]),
         NEW trade, trade = trades[i][k]
  PROVE  \E b \in Nat : \E s \in Nat :
           BoughtAndSold(i, trade, b, s) /\ Pending(b) /\ Pending(s)
<1> DEFINE m == trade.maker
<1>1. k \in 1 .. Len(trades[i]) /\ i \in Nat
  BY TradeTypes
<1>2. /\ i \in 1 .. nextId - 1 /\ m \in 1 .. nextId - 1
      /\ order[m].side = Opposite(order[i].side)
  BY <1>1, TradeParties
<1>3. order[i].side \in {"BUY", "SELL"}
  <2>1. order[i] \in OrderRecords
    BY DEF EngineInv, BookInv, BookTypeOK
  <2> QED BY <2>1 DEF OrderRecords, Sides
<1>4. HonoursLimits(i, trade)
  <2>1. trades[i] \in Seq(Trades)
    BY TradeTypes
  <2>2. k \in DOMAIN trades[i]
    BY <1>1, <2>1
  <2> QED BY <2>2 DEF EngineInv, BookInv, TradesHonourLimits
<1>5. order[m].symbol = order[i].symbol /\ order[m].price = trade.price
  BY <1>4 DEF HonoursLimits
<1>6. trade.price \in Nat
  <2>1. trade \in Trades
    BY <1>1, TradeParties
  <2> QED BY <2>1, BookAssumption DEF Trades
<1>7. Owed(i) /\ Owed(m)
  BY DEF Owed
<1>8. Pending(i) /\ Pending(m)
  BY <1>7, PendingIs
<1> HIDE DEF m
<1>9. CASE order[i].side = "BUY"
  <2>1. /\ order[m].side = "SELL"
        /\ order[i].kind # "MARKET" => trade.price <= order[i].price
    BY <1>2, <1>4, <1>9 DEF Opposite, HonoursLimits, Crosses
  <2>2. m = trade.maker
    BY DEF m
  <2>3. order[i].client = Buyer(i, trade) /\ order[m].client = Seller(i, trade)
    BY <1>9, <2>2 DEF Buyer, Seller
  <2>4. BoughtAndSold(i, trade, i, m)
    BY <1>2, <1>5, <1>9, <2>1, <2>2, <2>3 DEF BoughtAndSold
  <2> QED BY <1>1, <1>8, <1>2, <2>4
<1>10. CASE order[i].side = "SELL"
  <2>1. order[m].side = "BUY" /\ trade.price <= order[m].price
    BY <1>2, <1>5, <1>6, <1>10 DEF Opposite
  <2>2. m = trade.maker
    BY DEF m
  <2>3. order[m].client = Buyer(i, trade) /\ order[i].client = Seller(i, trade)
    BY <1>10, <2>2 DEF Buyer, Seller
  <2>4. BoughtAndSold(i, trade, m, i)
    BY <1>2, <1>5, <1>10, <2>1, <2>2, <2>3 DEF BoughtAndSold
  <2> QED BY <1>1, <1>8, <1>2, <2>4
<1> QED BY <1>3, <1>9, <1>10

\* A settled trade costs its buyer no more than the limit times the quantity, and its
\* seller the quantity; nobody else pays anything, and both orders are closed by it.
LEMMA SettleCosts ==
  ASSUME EngineInv, NEW t \in Threads, Settle(t)
  PROVE  \E b \in 1 .. nextId - 1, s \in 1 .. nextId - 1, q \in Nat, n \in Nat :
           /\ order[b].side = "BUY" /\ order[s].side = "SELL"
           /\ Pending(b) /\ Pending(s)
           /\ order[b].kind # "MARKET" => n <= order[b].price * q
           /\ \A id : SettledOf(id)' >= SettledOf(id)
           /\ SettledOf(b)' = SettledOf(b) + q /\ SettledOf(s)' = SettledOf(s) + q
           /\ \A c \in Clients :
                cash'[c] >= cash[c] - (IF c = order[b].client THEN n ELSE 0)
           /\ \A y \in Symbols, c \in Clients :
                holding'[y][c] >= holding[y][c] -
                  (IF c = order[s].client /\ y = order[s].symbol THEN q ELSE 0)
<1> PICK x \in Ids : x = job[t] /\ settled[x] < Len(trades[x])
  BY IdFacts DEF Settle, EngineInv, OwnerInv, JobInv, PhaseInv, Working, Settling
<1>1. PICK k : k = settled[x] + 1
  OBVIOUS
<1>2. PICK trade : trade = trades[x][k]
  OBVIOUS
<1>3. PICK y : y = order[x].symbol
  OBVIOUS
<1> DEFINE q == trade.quantity
           n == trade.quantity * trade.price
<1>4. k \in settled[x] + 1 .. Len(trades[x]) /\ k \in 1 .. Len(trades[x])
  BY <1>1, TradeTypes
<1>5. /\ cash' = Moved(cash, Buyer(x, trade), Seller(x, trade), n)
      /\ holding' = [holding EXCEPT ![y] = Moved(@, Seller(x, trade), Buyer(x, trade), q)]
      /\ settled' = [settled EXCEPT ![x] = @ + 1]
      /\ UNCHANGED bookVars
  BY <1>1, <1>2, <1>3 DEF Settle, CurrentTrade, SymbolOf
<1>6. /\ q \in Nat /\ trade.price \in Nat /\ n \in Nat /\ n = trade.price * q
  <2>1. trade \in Trades
    BY <1>2, <1>4, TradeParties
  <2>2. trade.quantity \in Nat /\ trade.price \in Nat
    BY <2>1, BookAssumption DEF Trades
  <2>3. \A p, r \in Nat : r * p \in Nat /\ r * p = p * r
    OBVIOUS
  <2> QED BY <2>2, <2>3
<1> HIDE DEF q, n
<1>7. PICK b \in Nat : \E s \in Nat : BoughtAndSold(x, trade, b, s) /\ Pending(b) /\ Pending(s)
  BY <1>2, <1>4, TradeOrders
<1>8. PICK s \in Nat : BoughtAndSold(x, trade, b, s) /\ Pending(b) /\ Pending(s)
  BY <1>7
<1>9. /\ {b, s} = {x, trade.maker}
      /\ b \in 1 .. nextId - 1 /\ s \in 1 .. nextId - 1
      /\ order[b].side = "BUY" /\ order[s].side = "SELL"
      /\ order[b].symbol = y /\ order[s].symbol = y
      /\ order[b].client = Buyer(x, trade) /\ order[s].client = Seller(x, trade)
      /\ Pending(b) /\ Pending(s)
      /\ order[b].kind # "MARKET" => trade.price <= order[b].price
  BY <1>3, <1>8 DEF BoughtAndSold
<1>10. ASSUME NEW id
       PROVE  /\ SettledOf(id)' >= SettledOf(id)
              /\ id \in {b, s} => SettledOf(id)' = SettledOf(id) + q
  <2>1. trades' = trades
    BY <1>5, BooksStill
  <2>2. settled[x] + 1 \in 1 .. Len(trades[x])
    BY <1>1, <1>4
  <2>3. SettledOf(id)' = SettledOf(id) + Part(trades[x][settled[x] + 1], x, id)
    BY <1>5, <2>1, <2>2, SettlingTakes
  <2>4. Part(trades[x][settled[x] + 1], x, id) = IF id \in {b, s} THEN q ELSE 0
    BY <1>1, <1>2, <1>9 DEF Part, q
  <2>5. SettledOf(id) \in Nat
    BY SettledIsSum
  <2> QED BY <1>6, <2>3, <2>4, <2>5
<1>11. /\ b \in Ids /\ s \in Ids /\ order[b] \in OrderRecords /\ order[s] \in OrderRecords
  <2>1. b \in Ids /\ s \in Ids
    BY <1>9, IdFacts DEF EngineInv
  <2> QED BY <2>1 DEF EngineInv, BookInv, BookTypeOK
<1>12. order[b].kind # "MARKET" => n <= order[b].price * q
  <2>1. CASE order[b].kind # "MARKET"
    <3>1. order[b].price \in Nat /\ trade.price <= order[b].price
      BY <1>9, <1>11, <2>1, BookAssumption DEF OrderRecords
    <3>2. \A p, r, m \in Nat : p <= r => p * m <= r * m
      OBVIOUS
    <3> QED BY <1>6, <3>1, <3>2
  <2> QED BY <2>1
<1>13. PICK buyer \in Clients : buyer = order[b].client
  BY <1>11 DEF OrderRecords
<1>14. PICK seller \in Clients : seller = order[s].client
  BY <1>11 DEF OrderRecords
<1>15. y \in Symbols
  BY <1>9, <1>11 DEF OrderRecords
<1>16. cash \in [Clients -> Int] /\ holding \in [Symbols -> [Clients -> Int]]
  BY DEF EngineInv, EngineTypeOK
<1>17. Buyer(x, trade) = buyer /\ Seller(x, trade) = seller
  BY <1>9, <1>13, <1>14
<1>18. cash' = Moved(cash, buyer, seller, n)
  BY <1>5, <1>17
<1>19. holding' = [holding EXCEPT ![y] = Moved(@, seller, buyer, q)]
  BY <1>5, <1>17
<1>20. cash' = AllAtOnce(cash, buyer, seller, n)
  <2>1. cash \in [Clients -> Int] /\ n \in Int
    BY <1>6, <1>16
  <2> QED BY ONLY <1>18, <2>1, buyer \in Clients, seller \in Clients, MovedIs
<1>21. /\ holding'[y] = Moved(holding[y], seller, buyer, q)
       /\ \A z \in Symbols : z # y => holding'[z] = holding[z]
  BY <1>15, <1>16, <1>19
<1>22. holding'[y] = AllAtOnce(holding[y], seller, buyer, q)
  <2>1. holding[y] \in [Clients -> Int] /\ q \in Int
    BY <1>6, <1>15, <1>16
  <2> QED BY ONLY <1>21, <2>1, buyer \in Clients, seller \in Clients, MovedIs
<1>23. ASSUME NEW c \in Clients
       PROVE  cash'[c] >= cash[c] - (IF c = order[b].client THEN n ELSE 0)
  <2>1. cash[c] \in Int
    BY <1>16
  <2>2. cash'[c] = cash[c] + ((IF c = seller THEN n ELSE 0) - (IF c = buyer THEN n ELSE 0))
    BY <1>20 DEF AllAtOnce
  <2> QED BY <1>6, <1>13, <2>1, <2>2
<1>24. ASSUME NEW z \in Symbols, NEW c \in Clients
       PROVE  holding'[z][c] >= holding[z][c] -
                (IF c = order[s].client /\ z = order[s].symbol THEN q ELSE 0)
  <2>1. holding[z][c] \in Int
    BY <1>16
  <2>2. CASE z = y
    <3>1. holding'[z][c] = holding[z][c]
            + ((IF c = buyer THEN q ELSE 0) - (IF c = seller THEN q ELSE 0))
      BY <1>22, <2>2 DEF AllAtOnce
    <3> QED BY <1>6, <1>9, <1>14, <2>1, <2>2, <3>1
  <2>3. CASE z # y
    BY <1>9, <1>21, <2>1, <2>3
  <2> QED BY <2>2, <2>3
<1>25. /\ q \in Nat /\ n \in Nat
       /\ SettledOf(b)' = SettledOf(b) + q /\ SettledOf(s)' = SettledOf(s) + q
  BY <1>6, <1>10
<1> QED BY <1>9, <1>10, <1>12, <1>23, <1>24, <1>25

-----------------------------------------------------------------------------
\* The inductive invariant.

\* The client can pay, or deliver, all that is open of the order.
Bears(id) ==
  /\ order[id].side = "BUY" =>
       /\ order[id].kind # "MARKET"
       /\ cash[order[id].client] >= order[id].price * Open(id)
  /\ order[id].side = "SELL" =>
       holding[order[id].symbol][order[id].client] >= Open(id)

Alone(id) ==
  \A other \in 1 .. nextId - 1 :
    Pending(other) /\ Compete(order[id], order[other]) => other = id

CarefulInv ==
  \A id \in 1 .. nextId - 1 :
    Pending(id) /\ order[id].client \notin careless => Bears(id) /\ Alone(id)

SolvencyInv == Solvent /\ CarefulInv

SettledTyped == \A id \in Ids : SettledOf(id) \in Nat

LEMMA SettledCount == EngineInv => SettledTyped
BY SettledIsSum DEF SettledTyped

OpenTyped == \A id \in 1 .. nextId - 1 : Open(id) \in Nat

LEMMA OpenNatural ==
  EngineInv /\ QuantityConserved => OpenTyped
BY OpenIsNatural DEF OpenTyped

\* What a pending order is made of.
LEMMA OrderFacts ==
  ASSUME EngineInv, NEW id \in 1 .. nextId - 1
  PROVE  /\ id \in Ids /\ order[id].client \in Clients /\ order[id].symbol \in Symbols
         /\ order[id].side \in {"BUY", "SELL"} /\ order[id].quantity \in Nat
         /\ order[id].kind # "MARKET" => order[id].price \in Nat
         /\ cash[order[id].client] \in Int
         /\ holding[order[id].symbol][order[id].client] \in Int
<1>1. id \in Ids
  BY IdFacts DEF EngineInv
<1>2. order[id] \in OrderRecords
  BY <1>1 DEF EngineInv, BookInv, BookTypeOK
<1>3. /\ order[id].client \in Clients /\ order[id].symbol \in Symbols
      /\ order[id].side \in {"BUY", "SELL"} /\ order[id].quantity \in Nat
      /\ order[id].kind # "MARKET" => order[id].price \in Nat
  BY <1>2, BookAssumption DEF OrderRecords, Sides
<1>4. cash \in [Clients -> Int] /\ holding \in [Symbols -> [Clients -> Int]]
  BY DEF EngineInv, EngineTypeOK
<1> QED BY <1>1, <1>3, <1>4

\* Orders are built once, and trades only added.
LEMMA OrdersAndTradesStay ==
  ASSUME EngineInv, [Next]_vars
  PROVE  /\ nextId' >= nextId /\ OrdersStay
         /\ \A i \in Ids : \A k \in 1 .. Len(trades[i]) : trades'[i][k] = trades[i][k]
<1>1. nextId \in Nat /\ 1 .. nextId - 1 \subseteq Ids
  BY IdFacts DEF EngineInv
<1>2. [BookNext]_bookVars
  BY BooksDriven
<1>3. /\ order \in [Ids -> OrderRecords] /\ trades \in [Ids -> Seq(Trades)]
      /\ taker \in [Symbols -> Ids \cup {NoOrder}]
  BY DEF EngineInv, BookInv, BookTypeOK
<1>4. ASSUME NEW o \in OrderRecords, Build(o)
      PROVE  nextId' >= nextId /\ OrdersStay /\ trades' = trades
  <2>1. \A i \in 1 .. nextId - 1 : i \in Ids /\ i # nextId
    BY <1>1
  <2>2. nextId' = nextId + 1 /\ order' = [order EXCEPT ![nextId] = o] /\ trades' = trades
    BY <1>4 DEF Build
  <2>3. OrdersStay
    BY <1>3, <2>1, <2>2 DEF OrdersStay
  <2> QED BY <1>1, <2>2, <2>3
<1>5. ASSUME NEW s \in Symbols, NEW p \in Prices, FillAt(s, p)
      PROVE  /\ nextId' = nextId /\ order' = order
             /\ \A i \in Ids : \A k \in 1 .. Len(trades[i]) : trades'[i][k] = trades[i][k]
  <2>1. PICK trade : trades' = [trades EXCEPT ![taker[s]] = Append(@, trade)]
    BY <1>5 DEF FillAt
  <2>2. PICK x \in Ids : x = taker[s]
    BY <1>3, <1>5 DEF FillAt, CanFillAt
  <2>3. /\ \A i \in Ids : i # x => trades'[i] = trades[i]
        /\ trades'[x] = Append(trades[x], trade)
    BY <1>3, <2>1, <2>2
  <2>4. trades[x] \in Seq(Trades)
    BY <1>3
  <2>5. \A k \in 1 .. Len(trades[x]) : trades'[x][k] = trades[x][k]
    BY <2>3, <2>4
  <2> QED BY <1>5, <2>3, <2>5 DEF FillAt
<1>6. ASSUME \/ UNCHANGED bookVars
             \/ \E id \in Ids : Enter(id)
             \/ \E s \in Symbols : Finish(s)
             \/ \E s \in Symbols, id \in Ids : CancelById(s, id)
      PROVE  nextId' = nextId /\ order' = order /\ trades' = trades
  BY <1>6 DEF bookVars, Enter, Finish, CancelById, CancelAt
<1>7. CASE nextId' = nextId /\ order' = order /\ trades' = trades
  BY <1>1, <1>7 DEF OrdersStay
<1>8. CASE \E o \in OrderRecords : Build(o)
  BY <1>4, <1>8
<1>9. CASE \E s \in Symbols : Fill(s)
  BY <1>1, <1>5, <1>9 DEF Fill, OrdersStay
<1> QED BY <1>2, <1>6, <1>7, <1>8, <1>9 DEF BookNext

\* A step that moves no money and makes nothing pending.
LEMMA SolvencyUndisturbed ==
  ASSUME EngineInv, EngineInv', SolvencyInv, [Next]_vars, settled' = settled,
         UNCHANGED <<cash, holding>>, careless \subseteq careless',
         \A id \in Ids : Pending(id)' => Pending(id)
  PROVE  SolvencyInv'
<1>1. Solvent'
  BY DEF SolvencyInv, Solvent
<1>2. /\ OrdersStay
      /\ \A i \in Ids : \A k \in 1 .. Len(trades[i]) : trades'[i][k] = trades[i][k]
  BY OrdersAndTradesStay
<1>3. \A id : SettledOf(id)' = SettledOf(id)
  BY <1>2, NothingSettled
<1>4. \A id \in 1 .. nextId' - 1 : id \in Ids
  <2>1. nextId' \in 1 .. MaxOrders + 1 /\ MaxOrders \in Nat
    BY BookAssumption DEF EngineInv, BookInv, BookTypeOK
  <2>2. ASSUME NEW n \in 1 .. MaxOrders + 1, NEW id \in 1 .. n - 1
        PROVE  id \in Ids
    BY ONLY <2>1, n \in 1 .. MaxOrders + 1, id \in 1 .. n - 1 DEF Ids
  <2> QED BY <2>1, <2>2
<1>5. \A id \in 1 .. nextId' - 1 : Pending(id)' =>
        Pending(id) /\ id \in 1 .. nextId - 1 /\ order'[id] = order[id]
  BY <1>2, <1>4, PendingIds DEF OrdersStay
<1>6. ASSUME NEW id \in 1 .. nextId' - 1, Pending(id)', order'[id].client \notin careless'
      PROVE  Bears(id)' /\ Alone(id)'
  <2>1. /\ Pending(id) /\ id \in 1 .. nextId - 1 /\ order'[id] = order[id]
        /\ order[id].client \notin careless
    BY <1>5, <1>6
  <2>2. Bears(id) /\ Alone(id)
    BY <2>1 DEF SolvencyInv, CarefulInv
  <2>3. Open(id)' = Open(id)
    BY <1>3, <2>1 DEF Open
  <2>4. Bears(id)'
    BY <2>1, <2>2, <2>3 DEF Bears
  <2>5. Alone(id)'
    BY <1>5, <2>1, <2>2 DEF Alone, Compete
  <2> QED BY <2>4, <2>5
<1>7. CarefulInv'
  BY <1>6 DEF CarefulInv
<1> QED BY <1>1, <1>7 DEF SolvencyInv

\* What is open of b, q of it having been settled for n.
LEMMA Affords ==
  ASSUME NEW open \in Nat, NEW price \in Nat, NEW q \in Nat, NEW n \in Nat, NEW c \in Int,
         NEW d \in Int, q <= open, n <= price * q, c >= price * open, d >= c - n
  PROVE  d >= price * (open - q) /\ d >= 0
<1>1. price * open = price * (open - q) + price * q
  OBVIOUS
<1>2. price * (open - q) \in Nat /\ price * q \in Nat /\ price * open \in Nat
  <2>1. open - q \in Nat
    OBVIOUS
  <2>2. \A r, m \in Nat : r * m \in Nat
    OBVIOUS
  <2> QED BY <2>1, <2>2
<1> QED BY <1>1, <1>2

\* A buyer or seller without other orders can bear the trade that is settled.
LEMMA SettleSolvency ==
  ASSUME EngineInv, EngineInv', QuantityConserved', SolvencyInv, [Next]_vars,
         NEW t \in Threads, Settle(t), careless \subseteq careless'
  PROVE  SolvencyInv'
<1>1. PICK b \in 1 .. nextId - 1, s \in 1 .. nextId - 1, q \in Nat, n \in Nat :
        /\ order[b].side = "BUY" /\ order[s].side = "SELL"
        /\ Pending(b) /\ Pending(s)
        /\ order[b].kind # "MARKET" => n <= order[b].price * q
        /\ \A id : SettledOf(id)' >= SettledOf(id)
        /\ SettledOf(b)' = SettledOf(b) + q /\ SettledOf(s)' = SettledOf(s) + q
        /\ \A c \in Clients :
             cash'[c] >= cash[c] - (IF c = order[b].client THEN n ELSE 0)
        /\ \A y \in Symbols, c \in Clients :
             holding'[y][c] >= holding[y][c] -
               (IF c = order[s].client /\ y = order[s].symbol THEN q ELSE 0)
  BY SettleCosts
<1>2. nextId' = nextId /\ order' = order
  <2>1. UNCHANGED bookVars
    BY DEF Settle
  <2> QED BY <2>1, BooksStill
<1>3. /\ cash \in [Clients -> Int] /\ holding \in [Symbols -> [Clients -> Int]]
      /\ cash' \in [Clients -> Int] /\ holding' \in [Symbols -> [Clients -> Int]]
  BY DEF EngineInv, EngineTypeOK
<1>4. ASSUME NEW id \in 1 .. nextId - 1
      PROVE  /\ SettledOf(id) \in Nat /\ SettledOf(id)' >= SettledOf(id)
             /\ SettledOf(id)' \in Nat
             /\ Open(id) = order[id].quantity - SettledOf(id)
             /\ Open(id)' = order[id].quantity - SettledOf(id)'
             /\ order[id].quantity \in Nat
             /\ Open(id)' \in Nat
  <2>1. SettledOf(id) \in Nat /\ SettledOf(id)' >= SettledOf(id)
    BY <1>1, SettledIsSum
  <2>2. order[id].quantity \in Nat
    BY OrderFacts
  <2>3. OpenTyped'
    BY OpenNatural, PTL
  <2>4. Open(id)' \in Nat
    BY <1>2, <2>3 DEF OpenTyped
  <2>5. Open(id)' = order[id].quantity - SettledOf(id)'
    BY <1>2 DEF Open
  <2>6. SettledTyped'
    BY SettledCount, PTL
  <2>7. SettledOf(id)' \in Nat
    BY <2>6, OrderFacts DEF SettledTyped
  <2> QED BY <2>1, <2>2, <2>4, <2>5, <2>7 DEF Open
<1>5. ASSUME NEW id \in 1 .. nextId' - 1, Pending(id)', order'[id].client \notin careless'
      PROVE  /\ id \in 1 .. nextId - 1 /\ Pending(id) /\ order[id].client \notin careless
             /\ Bears(id) /\ Alone(id)
  <2>1. id \in 1 .. nextId - 1 /\ order'[id] = order[id]
    BY <1>2, <1>5
  <2>2. Pending(id)
    <3>1. id \in Ids
      BY <2>1, OrderFacts
    <3> QED BY <1>5, <3>1, MatchPending DEF MatchAndSettle
  <2> QED BY <1>5, <2>1, <2>2 DEF SolvencyInv, CarefulInv
<1>6. ASSUME order[b].client \notin careless
      PROVE  LET c == order[b].client
             IN  cash'[c] >= order[b].price * Open(b)' /\ cash'[c] >= 0
  <2> DEFINE c == order[b].client
             open == Open(b)
             price == order[b].price
  <2>1. Bears(b)
    BY <1>1, <1>6 DEF SolvencyInv, CarefulInv
  <2>2. order[b].kind # "MARKET" /\ cash[c] >= price * open
    BY <1>1, <2>1 DEF Bears
  <2>3. c \in Clients /\ price \in Nat /\ cash[c] \in Int /\ cash'[c] \in Int
    BY <1>3, <2>2, OrderFacts
  <2>4. Open(b)' = open - q /\ open \in Nat /\ q <= open
    <3> DEFINE size == order[b].quantity
               before == SettledOf(b)
               after == SettledOf(b)'
               then == Open(b)'
    <3>1. /\ before \in Nat /\ size \in Nat /\ then \in Nat
          /\ open = size - before /\ then = size - after
      BY <1>4
    <3>2. after = before + q
      BY <1>1
    <3> HIDE DEF size, before, after, then
    <3>3. then = open - q /\ open \in Nat /\ q <= open
      BY <3>1, <3>2
    <3> QED BY <3>3 DEF then
  <2>5. n <= price * q /\ cash'[c] >= cash[c] - n
    BY <1>1, <2>2, <2>3
  <2> HIDE DEF c, open, price
  <2>6. cash'[c] >= price * (open - q) /\ cash'[c] >= 0
    BY <2>2, <2>3, <2>4, <2>5, Affords
  <2> QED BY <2>4, <2>6 DEF c, price
<1>7. ASSUME order[s].client \notin careless
      PROVE  LET c == order[s].client
                 y == order[s].symbol
             IN  holding'[y][c] >= Open(s)' /\ holding'[y][c] >= 0
  <2> DEFINE c == order[s].client
             y == order[s].symbol
  <2>1. Bears(s)
    BY <1>1, <1>7 DEF SolvencyInv, CarefulInv
  <2>2. holding[y][c] >= Open(s)
    BY <1>1, <2>1 DEF Bears
  <2>3. c \in Clients /\ y \in Symbols /\ holding[y][c] \in Int
    BY OrderFacts
  <2>4. holding'[y] \in [Clients -> Int]
    BY <1>3, <2>3
  <2>5. holding'[y][c] \in Int /\ holding'[y][c] >= holding[y][c] - q
    BY <1>1, <2>3, <2>4
  <2>6. Open(s)' = Open(s) - q /\ Open(s) \in Nat /\ Open(s)' \in Nat
    BY <1>1, <1>4
  <2> QED BY <2>2, <2>3, <2>5, <2>6
<1>8. Solvent'
  <2>1. ASSUME NEW c \in Clients \ careless'
        PROVE  cash'[c] >= 0
    <3>1. c \in Clients \ careless /\ cash[c] >= 0 /\ cash[c] \in Int
      BY <1>3 DEF SolvencyInv, Solvent
    <3>2. CASE c = order[b].client
      BY <1>6, <3>1, <3>2
    <3>3. CASE c # order[b].client
      BY <1>1, <1>3, <3>1, <3>3
    <3> QED BY <3>2, <3>3
  <2>2. ASSUME NEW c \in Clients \ careless', NEW y \in Symbols
        PROVE  holding'[y][c] >= 0
    <3>1. c \in Clients \ careless /\ holding[y][c] >= 0
      BY DEF SolvencyInv, Solvent
    <3>2. CASE c = order[s].client /\ y = order[s].symbol
      BY <1>7, <3>1, <3>2
    <3>3. CASE ~(c = order[s].client /\ y = order[s].symbol)
      <4>1. holding[y] \in [Clients -> Int] /\ holding'[y] \in [Clients -> Int]
        BY <1>3
      <4>2. holding[y][c] \in Int /\ holding'[y][c] \in Int
        BY <3>1, <4>1
      <4>3. holding'[y][c] >= holding[y][c] - 0
        BY <1>1, <3>1, <3>3
      <4> QED BY <3>1, <4>2, <4>3
    <3> QED BY <3>2, <3>3
  <2> QED BY <2>1, <2>2 DEF Solvent
<1>9. ASSUME NEW id \in 1 .. nextId' - 1, Pending(id)', order'[id].client \notin careless'
      PROVE  Alone(id)'
  <2>1. id \in 1 .. nextId - 1 /\ Alone(id)
    BY <1>5, <1>9
  <2>2. \A other \in 1 .. nextId - 1 : Pending(other)' => Pending(other)
    BY OrderFacts, MatchPending DEF MatchAndSettle
  <2> QED BY <1>2, <2>1, <2>2 DEF Alone, Compete
<1>10. ASSUME NEW id \in 1 .. nextId' - 1, Pending(id)', order'[id].client \notin careless'
      PROVE  Bears(id)'
  <2>1. /\ id \in 1 .. nextId - 1 /\ Pending(id) /\ order[id].client \notin careless
        /\ Bears(id) /\ Alone(id)
    BY <1>5, <1>10
  <2>2. Open(id)' <= Open(id) /\ Open(id)' \in Nat /\ Open(id) \in Nat
    BY <1>4, <2>1
  <2> DEFINE c == order[id].client
             y == order[id].symbol
  <2>3. c \in Clients /\ y \in Symbols
    BY <2>1, OrderFacts
  <2>4. ASSUME order[id].side = "BUY"
        PROVE  order[id].kind # "MARKET" /\ cash'[c] >= order[id].price * Open(id)'
    <3>1. order[id].kind # "MARKET" /\ cash[c] >= order[id].price * Open(id)
      BY <2>1, <2>4 DEF Bears
    <3>2. order[id].price \in Nat /\ cash[c] \in Int
      BY <2>1, <3>1, OrderFacts
    <3>3. CASE c = order[b].client
      <4>1. b = id
        BY <1>1, <2>1, <2>4, <3>3 DEF Alone, Compete
      <4> QED BY <1>6, <2>1, <3>1, <4>1
    <3>4. CASE c # order[b].client
      <4>1. cash'[c] >= cash[c] /\ cash'[c] \in Int
        BY <1>1, <1>3, <2>3, <3>2, <3>4
      <4>2. \A p, r, m \in Nat : r <= m => p * r <= p * m /\ p * r \in Nat /\ p * m \in Nat
        OBVIOUS
      <4>3. /\ order[id].price * Open(id)' <= order[id].price * Open(id)
            /\ order[id].price * Open(id)' \in Nat /\ order[id].price * Open(id) \in Nat
        BY <2>2, <3>2, <4>2
      <4> QED BY <3>1, <3>2, <4>1, <4>3
    <3> QED BY <3>3, <3>4
  <2>5. ASSUME order[id].side = "SELL"
        PROVE  holding'[y][c] >= Open(id)'
    <3>1. holding[y][c] >= Open(id) /\ holding[y][c] \in Int
      BY <2>1, <2>5, OrderFacts DEF Bears
    <3>2. CASE c = order[s].client /\ y = order[s].symbol
      <4>1. s = id
        BY <1>1, <2>1, <2>5, <3>2 DEF Alone, Compete
      <4> QED BY <1>7, <2>1, <4>1
    <3>3. CASE ~(c = order[s].client /\ y = order[s].symbol)
      <4>1. holding'[y] \in [Clients -> Int]
        BY <1>3, <2>3
      <4>2. holding'[y][c] \in Int
        BY <2>3, <4>1
      <4>3. holding'[y][c] >= holding[y][c] - 0
        BY <1>1, <2>3, <3>3
      <4> QED BY <2>2, <3>1, <4>2, <4>3
    <3> QED BY <3>2, <3>3
  <2> QED BY <1>2, <2>4, <2>5 DEF Bears
<1>11. CarefulInv'
  BY <1>9, <1>10 DEF CarefulInv
<1> QED BY <1>8, <1>11 DEF SolvencyInv

\* Who goes further than one order can bear in a step.
Overreachers ==
  {order[job[t]].client : t \in {u \in Workers :
     pc[u] = "risk" /\ pc'[u] = "band" /\ Overreaches(u)}}

\* An approval that does not overreach is of an order that the client can bear alone.
LEMMA RiskSolvency ==
  ASSUME EngineInv, EngineInv', SolvencyInv, [Next]_vars,
         NEW t \in Workers, RiskCheck(t), careless' = careless \cup Overreachers
  PROVE  SolvencyInv'
<1>1. /\ UNCHANGED bookVars /\ UNCHANGED <<cash, holding, settled>> /\ pc[t] = "risk"
  BY DEF RiskCheck, moneyVars
<1>2. nextId' = nextId /\ order' = order
  BY <1>1, BooksStill
<1>3. \A id : SettledOf(id)' = SettledOf(id)
  BY <1>1, OrdersAndTradesStay, NothingSettled
<1>4. ASSUME pc'[t] = "band", order[job[t]].client \notin careless'
      PROVE  ~Overreaches(t)
  BY <1>1, <1>4 DEF Overreachers
<1>5. \A id \in 1 .. nextId - 1 : Pending(id)' =>
        \/ Pending(id)
        \/ id = job[t] /\ pc'[t] = "band" /\ PassesRiskCheck(order[id])
  BY OrderFacts, ApprovalPending
<1>6. Solvent'
  BY <1>1 DEF SolvencyInv, Solvent
<1>7. ASSUME NEW id \in 1 .. nextId - 1, NEW other \in 1 .. nextId - 1,
             Pending(id)', Pending(other)', Compete(order[id], order[other]),
             order[id].client \notin careless'
      PROVE  other = id
  <2>1. order[other].client \notin careless' /\ Compete(order[other], order[id])
    BY <1>7 DEF Compete
  <2>2. CASE Pending(id) /\ Pending(other)
    <3>1. Alone(id)
      BY <1>7, <2>2 DEF SolvencyInv, CarefulInv
    <3> QED BY <1>7, <2>2, <3>1 DEF Alone
  <2>3. CASE id = job[t] /\ pc'[t] = "band" /\ Pending(other)
    <3>1. ~Overreaches(t)
      BY <1>4, <1>7, <2>3
    <3> QED BY <1>7, <2>3, <3>1 DEF Overreaches
  <2>4. CASE other = job[t] /\ pc'[t] = "band" /\ Pending(id)
    <3>1. ~Overreaches(t)
      BY <1>4, <2>1, <2>4
    <3> QED BY <2>1, <2>4, <3>1 DEF Overreaches
  <2> QED BY <1>5, <1>7, <2>2, <2>3, <2>4
<1>8. ASSUME NEW id \in 1 .. nextId - 1, Pending(id)', order[id].client \notin careless'
      PROVE  Bears(id)
  <2>1. CASE Pending(id)
    BY <1>8, <2>1 DEF SolvencyInv, CarefulInv
  <2>2. CASE id = job[t] /\ pc'[t] = "band" /\ PassesRiskCheck(order[id])
    <3>1. ~(order[id].side = "BUY" /\ order[id].kind = "MARKET")
      BY <1>4, <1>8, <2>2 DEF Overreaches
    <3>2. Open(id) \in Int /\ Open(id) <= order[id].quantity /\ order[id].quantity \in Nat
      BY SettledIsSum, OrderFacts DEF Open
    <3>3. CASE order[id].side = "SELL"
      <4>1. holding[order[id].symbol][order[id].client] >= order[id].quantity
        BY <2>2, <3>3 DEF PassesRiskCheck
      <4> QED BY <3>2, <3>3, <4>1, OrderFacts DEF Bears
    <3>4. CASE order[id].side = "BUY"
      <4>1. order[id].kind # "MARKET"
        BY <3>1, <3>4
      <4>2. cash[order[id].client] >= order[id].quantity * order[id].price
        BY <2>2, <3>4, <4>1 DEF PassesRiskCheck
      <4>3. order[id].price \in Nat /\ cash[order[id].client] \in Int
        BY <4>1, OrderFacts
      <4>4. \A p, r \in Nat, m \in Int : m <= r => p * m <= r * p /\ p * m \in Int /\ r * p \in Int
        OBVIOUS
      <4>5. /\ order[id].price * Open(id) <= order[id].quantity * order[id].price
            /\ order[id].price * Open(id) \in Int /\ order[id].quantity * order[id].price \in Int
        BY <3>2, <4>3, <4>4
      <4>6. cash[order[id].client] >= order[id].price * Open(id)
        BY <4>2, <4>3, <4>5
      <4> QED BY <3>4, <4>1, <4>6 DEF Bears
    <3> QED BY <3>3, <3>4, OrderFacts
  <2> QED BY <1>5, <1>8, <2>1, <2>2
<1>9. \A id \in 1 .. nextId - 1 : Bears(id) => Bears(id)'
  BY <1>1, <1>2, <1>3 DEF Bears, Open
<1>10. CarefulInv'
  <2>1. ASSUME NEW id \in 1 .. nextId' - 1, Pending(id)', order'[id].client \notin careless'
        PROVE  Bears(id)' /\ Alone(id)'
    <3>1. id \in 1 .. nextId - 1 /\ order[id].client \notin careless'
      BY <1>2, <2>1
    <3>2. Bears(id)'
      BY <1>8, <1>9, <2>1, <3>1
    <3>3. Alone(id)'
      BY <1>2, <1>7, <2>1, <3>1 DEF Alone, Compete
    <3> QED BY <3>2, <3>3
  <2> QED BY <2>1 DEF CarefulInv
<1> QED BY <1>6, <1>10 DEF SolvencyInv

\* A step of MatchingEngine that is watched.
LEMMA SolvencyStep ==
  EngineInv /\ QuantityConserved /\ SolvencyInv /\ [WatchedNext]_<<vars, careless>> =>
    EngineInv' /\ QuantityConserved' /\ SolvencyInv'
<1> SUFFICES ASSUME EngineInv, QuantityConserved, SolvencyInv,
                    [WatchedNext]_<<vars, careless>>
             PROVE  EngineInv' /\ QuantityConserved' /\ SolvencyInv'
  OBVIOUS
<1>1. [Next]_vars /\ careless \subseteq careless'
  BY DEF WatchedNext
<1>2. EngineInv'
  BY <1>1, EngineStep
<1>3. QuantityConserved'
  BY <1>1, BooksDriven, QuantityKept DEF EngineInv
<1>4. ASSUME settled' = settled, UNCHANGED <<cash, holding>>,
             \A id \in Ids : Pending(id)' => Pending(id)
      PROVE  SolvencyInv'
  BY <1>1, <1>2, <1>4, SolvencyUndisturbed
<1>5. CASE UNCHANGED vars
  <2>1. UNCHANGED <<bookVars, pc, job, waiting, released, settled, cash, holding>>
    BY <1>5 DEF vars, engineVars
  <2>2. \A id \in Ids : Pending(id)' => Pending(id)
    BY <2>1, BooksStill DEF Pending
  <2> QED BY <1>2, <1>3, <1>4, <2>1, <2>2
<1>6. CASE WatcherActs
  <2>1. UNCHANGED moneyVars
    BY <1>6 DEF WatcherActs, DirtyScan, FullScan, EndOfScan, Tick, ScanBucket, Release
  <2> QED BY <1>2, <1>3, <1>4, <1>6, <2>1, WatcherPending DEF moneyVars
<1>7. ASSUME NEW t \in Threads, MatchAndSettle(t)
      PROVE  SolvencyInv'
  <2>1. CASE Settle(t)
    BY <1>1, <1>2, <1>3, <2>1, SettleSolvency
  <2>2. CASE EnterBook(t) \/ Match(t) \/ LeaveBook(t) \/ SetPrice(t) \/ MarkDirty(t)
    <3>1. UNCHANGED <<cash, holding, settled>>
      BY <2>2 DEF EnterBook, Match, LeaveBook, SetPrice, MarkDirty, engineVars, moneyVars
    <3> QED BY <1>2, <1>4, <1>7, <3>1, MatchPending
  <2> QED BY <1>7, <2>1, <2>2 DEF MatchAndSettle
<1>8. ASSUME NEW t \in Workers, WorkerActs(t), Next, careless' = careless \cup Overreachers
      PROVE  SolvencyInv'
  <2>1. CASE RiskCheck(t)
    BY <1>1, <1>2, <1>8, <2>1, RiskSolvency
  <2>2. CASE ~RiskCheck(t)
    <3>1. UNCHANGED <<cash, holding, settled>>
      BY <1>8, <2>2 DEF WorkerActs, Submit, BandCheck, Hold, CancelFallback, CancelInBook,
                        MissInBook, CancelWaiting, moneyVars
    <3> QED BY <1>2, <1>4, <1>8, <2>2, <3>1, WorkerPending
  <2> QED BY <2>1, <2>2
<1>9. UNCHANGED vars \/ (Next /\ careless' = careless \cup Overreachers)
  BY DEF WatchedNext, Overreachers
<1> QED BY <1>2, <1>3, <1>5, <1>6, <1>7, <1>8, <1>9, NextCases

\* A client who never buys at MARKET and never has two orders approved that compete
\* for its cash or for the same shares never owes anything, although the risk check
\* reserves nothing, prices move and what is released is not checked again.
THEOREM TheCarefulStaySolvent == WatchedSpec => []Solvent
<1>1. Init /\ careless = {} => EngineInv /\ QuantityConserved /\ SolvencyInv
  <2> SUFFICES ASSUME Init, careless = {}
               PROVE  EngineInv /\ QuantityConserved /\ SolvencyInv
    OBVIOUS
  <2>1. 1 .. nextId - 1 = {}
    BY DEF Init, BookInit
  <2>2. Solvent
    BY EngineAssumption DEF Init, Solvent
  <2> QED BY <2>1, <2>2, InitEngine DEF QuantityConserved, SolvencyInv, CarefulInv
<1>2. EngineInv /\ QuantityConserved /\ SolvencyInv => Solvent
  BY DEF SolvencyInv
<1> QED BY <1>1, <1>2, SolvencyStep, PTL DEF WatchedSpec
=============================================================================
