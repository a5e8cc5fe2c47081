--------------------------- MODULE SimulationRun ---------------------------
(***************************************************************************)
(* A run of simulation.x (simulation.cpp): the main thread starts the      *)
(* watcher, the recorder and the bots, lets them trade, stops them one     *)
(* after the other and has the recorder write its report; the bus's worker *)
(* serves MarketData (market_data.cpp) and the recorder                    *)
(* (market_recorder.cpp), whose sampler is a thread of its own.  A sample  *)
(* is modelled by the cash in it; the metrics series is left out.          *)
(***************************************************************************)
EXTENDS BotTrading

VARIABLES
  main,         \* where Simulation::run is
  stopWatcher,  \* stop_flag
  data,         \* MarketData: symbol -> last price, volume, notional
  recording,    \* MarketRecorder::running_
  sampler,      \* where sampler_loop is
  subscribed,
  first,        \* first_seen_: bot -> its cash when first sampled (a set)
  sampledCash,  \* the totals of cash in the samples
  rec,          \* what on_event collected
  final,        \* the final portfolios and waiting orders write_report has read
  report        \* what it wrote (a set)

recorder == <<recording, sampler, subscribed, first, sampledCash, rec, final, report>>
vars == <<floor, main, stopWatcher, data, recorder>>

TotalOf(f) == SumFunctionOnSet(f, Bots)

-----------------------------------------------------------------------------
\* The worker of the bus: MarketData, then the recorder.

OnTrade(trade) ==
  data' = [data EXCEPT ![trade.symbol] =
             [last |-> trade.price, volume |-> @.volume + trade.quantity,
              notional |-> @.notional + trade.quantity * trade.price]]

OnEvent(event) ==
  rec' = CASE ~subscribed -> rec
           [] event.kind = "trade" -> [rec EXCEPT !.trades = Append(@, event)]
           [] event.kind = "rejected" -> [rec EXCEPT !.rejected = @ + 1]
           [] event.kind = "queued" -> [rec EXCEPT !.queued = @ + 1]
           [] event.kind = "expired" -> [rec EXCEPT !.expired = @ + 1]

Deliver ==
  /\ bus # <<>>
  /\ bus' = Tail(bus)
  /\ IF Head(bus).kind = "trade" THEN OnTrade(Head(bus)) ELSE UNCHANGED data
  /\ OnEvent(Head(bus))
  /\ UNCHANGED <<book, cash, holding, lastPrice, waiting, metrics, running, steps, act,
                 quote, window, main, stopWatcher, recording, sampler, subscribed, first,
                 sampledCash, final, report>>

-----------------------------------------------------------------------------
\* The sampler

\* take_sample: a bot seen for the first time is remembered with its cash.
TakeSample ==
  /\ sampledCash' = sampledCash \cup {TotalOf(cash)}
  /\ first' = [b \in Bots |-> IF first[b] = {} THEN {cash[b]} ELSE first[b]]

SamplerGo(from, to) ==
  /\ sampler = from
  /\ sampler' = to
  /\ UNCHANGED <<floor, main, stopWatcher, data, recording, subscribed, rec, final, report>>

\* Slip: wait() in the place of wait_for(): no interval ends it.
WaitsForEver ==
  /\ SamplerGo("waiting", "ended")
  /\ ~recording /\ main = "notify"
  /\ UNCHANGED <<first, sampledCash>>

\* wait_for: the interval is over.
TimesOut ==
  /\ SamplerGo("waiting", IF recording THEN "waiting" ELSE "ended")
  /\ IF recording THEN TakeSample ELSE UNCHANGED <<first, sampledCash>>

-----------------------------------------------------------------------------
\* The main thread

Main(from, to) ==
  /\ main = from
  /\ main' = to
  /\ UNCHANGED <<book, cash, holding, lastPrice, waiting, metrics, bus, steps, quote,
                 window, data>>

StartWatcher ==
  /\ Main("start", "record")
  /\ Become(Watcher, [Asleep EXCEPT !.at = "loop"])
  /\ UNCHANGED <<running, stopWatcher, recorder>>

\* MarketRecorder::start, before there is anything to record.
StartRecorder ==
  /\ Main("record", "launch")
  /\ subscribed' = TRUE
  /\ TakeSample
  /\ recording' = TRUE
  /\ sampler' = "waiting"
  /\ UNCHANGED <<running, stopWatcher, act, rec, final, report>>

\* A bot started and not yet scheduled is like one that is not started.  The sleep
\* that follows is the time that passes before the first stop().
StartBots ==
  /\ Main("launch", "stop")
  /\ running' = Bots
  /\ UNCHANGED <<stopWatcher, act, recorder>>

\* The bots stop in the order they were made in.
StopBot(b) ==
  /\ b \in running
  /\ b \in MomentumBots => NoiseTraders \cap running = {}
  /\ b \in MarketMakers => running \subseteq MarketMakers
  /\ Main("stop", "join")
  /\ running' = running \ {b}
  /\ UNCHANGED <<stopWatcher, act, recorder>>

\* The thread of the bot ends when its step is over.
JoinBot ==
  /\ Main("join", "stop")
  /\ \A b \in Bots \ running : act[b].at = "asleep"
  /\ UNCHANGED <<running, stopWatcher, act, recorder>>

StopWatcher ==
  /\ Main("stop", "join watcher")
  /\ running = {}
  /\ stopWatcher' = TRUE
  /\ UNCHANGED <<running, act, recorder>>

JoinWatcher ==
  /\ Main("join watcher", "stop recorder")
  /\ act[Watcher].at = "ended"
  /\ UNCHANGED <<running, stopWatcher, act, recorder>>

\* MarketRecorder::stop
StopRecorder ==
  /\ Main("stop recorder", "notify")
  /\ recording' = FALSE
  /\ UNCHANGED <<running, stopWatcher, act, sampler, subscribed, first, sampledCash, rec,
                 final, report>>

\* stop() does not take the sampler's mutex: a thread that has tested the flag and
\* does not wait yet misses the notification.
NotifySampler ==
  /\ Main("notify", "join sampler")
  /\ sampler' \in {"ended", sampler}
  /\ UNCHANGED <<running, stopWatcher, act, recording, subscribed, first, sampledCash, rec,
                 final, report>>

JoinSampler ==
  /\ Main("join sampler", "flush")
  /\ sampler = "ended"
  /\ UNCHANGED <<running, stopWatcher, act, recorder>>

\* Slip: the report does not wait for the bus.
NoFlush ==
  /\ Main("flush", "sample")
  /\ UNCHANGED <<running, stopWatcher, act, recorder>>

\* write_report: "every trade already executed must be in trades_".
Flush ==
  /\ Main("flush", "sample")
  /\ bus = <<>>
  /\ UNCHANGED <<running, stopWatcher, act, recorder>>

LastSample ==
  /\ Main("sample", "read")
  /\ TakeSample
  /\ UNCHANGED <<running, stopWatcher, act, recording, sampler, subscribed, rec, final, report>>

\* "engine-side final state, read before taking our own lock"
ReadEngine ==
  /\ Main("read", "write")
  /\ final' = [cash |-> cash, waiting |-> Cardinality(waiting)]
  /\ UNCHANGED <<running, stopWatcher, act, recording, sampler, subscribed, first, sampledCash,
                 rec, report>>

\* portfolios_final.csv, rejections.csv and summary.csv: the rows that are added up.
Summary ==
  [cash |-> final.cash, waiting |-> final.waiting, rejected |-> rec.rejected,
   expired |-> rec.expired, submitted |-> metrics.submitted, accepted |-> metrics.accepted]

\* "-- Symbols --" in the text that run() returns.
SymbolLines == [s \in Symbols |-> data[s].volume]

WriteReport ==
  /\ Main("write", "ended")
  /\ report' = {[trades |-> rec.trades, summary |-> Summary, volume |-> SymbolLines]}
  /\ UNCHANGED <<running, stopWatcher, act, recording, sampler, subscribed, first, sampledCash,
                 rec, final>>

MainStep ==
  \/ StartWatcher \/ StartRecorder \/ StartBots \/ JoinBot \/ StopWatcher \/ JoinWatcher
  \/ StopRecorder \/ NotifySampler \/ JoinSampler \/ Flush \/ LastSample \/ ReadEngine
  \/ WriteReport
  \/ \E b \in Bots : StopBot(b)

-----------------------------------------------------------------------------

Init ==
  /\ FloorInit
  /\ main = "start"
  /\ stopWatcher = FALSE
  /\ data = [s \in Symbols |-> [last |-> 0, volume |-> 0, notional |-> 0]]
  /\ recording = FALSE
  /\ sampler = "off"
  /\ subscribed = FALSE
  /\ first = [b \in Bots |-> {}]
  /\ sampledCash = {}
  /\ rec = [trades |-> <<>>, rejected |-> 0, queued |-> 0, expired |-> 0]
  /\ final = [cash |-> [b \in Bots |-> 0], waiting |-> 0]
  /\ report = {}

ThreadStep(t) ==
  /\ IF t = Watcher THEN WatcherStep(stopWatcher) ELSE BotStep(t)
  /\ UNCHANGED <<main, stopWatcher, data, recorder>>

Next == Deliver \/ MainStep \/ TimesOut \/ \E t \in Threads : ThreadStep(t)

\* While some thread can go on, one does; an interval that is waited for ends, and
\* so does the duration of the run.  Nothing more is needed: no step that changes
\* something can be repeated for ever, so none can keep another from its turn.
Fairness == WF_vars(Next)

Spec == Init /\ [][Next]_vars /\ Fairness

-----------------------------------------------------------------------------

\* What the recorded trades brought bot b.
Gain(b, recorded) ==
  LET earned(trade) == (IF trade.seller = b THEN trade.quantity * trade.price ELSE 0)
                       - (IF trade.buyer = b THEN trade.quantity * trade.price ELSE 0)
  IN  SumFunction([i \in DOMAIN recorded |-> earned(recorded[i])])

Volume(s, recorded) ==
  SumFunction([i \in DOMAIN recorded |->
                 IF recorded[i].symbol = s THEN recorded[i].quantity ELSE 0])

\* trades.csv takes every client from its "before" to its "after" in
\* portfolios_final.csv, and the volumes of the text report are those of trades.csv.
TradesExplainTheMoney(r) ==
  /\ \A b \in Bots : first[b] = {r.summary.cash[b] - Gain(b, r.trades)}
  /\ \A s \in Symbols : r.volume[s] = Volume(s, r.trades)

\* Every order submitted was accepted (at once, or when it was released), rejected,
\* dropped when it expired, or is in waiting_orders.csv: summary.csv takes the first
\* two numbers from the metrics, the next two from events, the last from the engine.
OrdersAddUp(r) ==
  LET s == r.summary IN s.submitted = s.accepted + s.rejected + s.expired + s.waiting

\* "every trade already executed must be in trades_ before we write anything", "so
\* the final report is accurate" (market_recorder.cpp:166, simulation.cpp:195).
ReportAddsUp == \A r \in report : TradesExplainTheMoney(r) /\ OrdersAddUp(r)

\* A sample taken while bots trade never catches a trade half settled: all of them
\* find the same cash in the market (market_recorder.cpp:130-134).
SamplesHoldAllTheCash ==
  sampledCash \subseteq {TotalOf([b \in Bots |-> InitialCash])}

\* Every run ends and its report is written, although the sampler can miss the
\* notification of stop() (market_recorder.cpp:79-87, 118-128).
RunEnds == <>(main = "ended")
=============================================================================
