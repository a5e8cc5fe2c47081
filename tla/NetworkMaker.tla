---------------------------- MODULE NetworkMaker ----------------------------
(***************************************************************************)
(* A market-maker bot that trades over the wire (sim_client_main.cpp with  *)
(* --bot marketmaker), its connection (client_connection.cpp, protocol.cpp)*)
(* and the server's thread for it (handle_connection, dispatch_command).   *)
(* A command is sent and its answer waited for at most 30 seconds; answers *)
(* carry nothing that tells which command they answer.  A frame arrives    *)
(* whole.  What the server answers is abstracted to the fields that the    *)
(* bot looks for in it, "last" and "order_id".                             *)
(***************************************************************************)
EXTENDS Naturals, Sequences

CONSTANTS
  BotSymbols,    \* --symbols
  NoSymbol,      \* the empty string
  MaxTicks       \* --duration-sec, in ticks: the bound of every counter below

ASSUME MakerAssumption == NoSymbol \notin BotSymbols /\ MaxTicks \in Nat

VARIABLES
  stage, leg,    \* the command the bot is at, and the side of it
  awaiting,      \* it is in recv_framed
  quotes,        \* side -> last_buy_order_id, last_sell_order_id; 0 is none
  quoteSymbol,   \* last_quote_symbol
  tickSymbol, priced,   \* of this tick: the symbol, and whether last_price > 0
  ticks,
  linked,        \* the server's end of the connection is open
  toServer, toClient,   \* frames sent and not yet received
  resting,       \* the bot's orders that rest in the books
  nextOrder,     \* next_order_id_
  sent, timeouts \* ghosts: commands sent, and receives that timed out

botVars == <<stage, leg, quotes, quoteSymbol, tickSymbol, priced, ticks>>
wireVars == <<awaiting, toServer, toClient, sent, timeouts>>
bookVars == <<resting, nextOrder>>
makerVars == <<botVars, linked, wireVars, bookVars>>

Legs == {"BUY", "SELL"}

\* std::nullopt.
NoReply == [to |-> 0, ok |-> FALSE, last |-> 0, id |-> 0]

MakerInit ==
  /\ stage = "auth" /\ leg = "BUY" /\ awaiting = FALSE
  /\ quotes = [side \in Legs |-> 0]
  /\ quoteSymbol = NoSymbol /\ tickSymbol = NoSymbol /\ priced = FALSE
  /\ ticks = 0
  /\ linked = TRUE /\ toServer = <<>> /\ toClient = <<>>
  /\ resting = {} /\ nextOrder = 1
  /\ sent = 0 /\ timeouts = 0

-----------------------------------------------------------------------------
\* send_command: a frame goes out, and then one is waited for.

SendFramed(kind, symbol, id) ==
  /\ ~awaiting /\ awaiting' = TRUE
  /\ sent' = sent + 1
  /\ toServer' = IF linked
       THEN Append(toServer, [number |-> sent + 1, kind |-> kind, symbol |-> symbol, id |-> id])
       ELSE toServer
  /\ UNCHANGED <<linked, toClient, timeouts, bookVars>>

\* Slip: connect() does not set the receive timeout.
RecvForEver(reply) ==
  /\ awaiting /\ awaiting' = FALSE
  /\ \/ toClient # <<>> /\ reply = Head(toClient) /\ toClient' = Tail(toClient)
     \/ ~linked /\ reply = NoReply /\ toClient' = <<>>
  /\ UNCHANGED <<linked, toServer, sent, timeouts, bookVars>>

\* The next frame, or none: in time, or because the peer is gone and with it
\* what it had sent.
RecvFramed(reply) ==
  /\ awaiting /\ awaiting' = FALSE
  /\ \/ toClient # <<>> /\ reply = Head(toClient) /\ toClient' = Tail(toClient)
        /\ UNCHANGED timeouts
     \/ linked /\ toClient = <<>> /\ reply = NoReply /\ timeouts' = timeouts + 1
        /\ UNCHANGED toClient
     \/ ~linked /\ reply = NoReply /\ toClient' = <<>> /\ UNCHANGED timeouts
  /\ UNCHANGED <<linked, toServer, sent, bookVars>>

-----------------------------------------------------------------------------
\* authenticate and run_bot

Authenticate ==
  /\ stage = "auth"
  /\ SendFramed("AUTH", NoSymbol, 0)
  /\ UNCHANGED botVars

Authenticated(reply) ==
  /\ stage = "auth"
  /\ RecvFramed(reply)
  /\ stage' = IF reply.ok THEN "market" ELSE "gone"
  /\ UNCHANGED <<leg, quotes, quoteSymbol, tickSymbol, priced, ticks>>

\* The loop runs for a time; each turn picks a symbol.
AskMarket(s) ==
  /\ stage = "market"
  /\ ticks < MaxTicks
  /\ SendFramed("MARKET", s, 0)
  /\ ticks' = ticks + 1
  /\ tickSymbol' = s
  /\ UNCHANGED <<stage, leg, quotes, quoteSymbol, priced>>

Quit ==
  /\ stage = "market"
  /\ SendFramed("QUIT", NoSymbol, 0)
  /\ stage' = "quit"
  /\ UNCHANGED <<leg, quotes, quoteSymbol, tickSymbol, priced, ticks>>

\* main returns, and the connection is closed with it.
Leave(reply) ==
  /\ stage = "quit"
  /\ RecvFramed(reply)
  /\ stage' = "gone"
  /\ UNCHANGED <<leg, quotes, quoteSymbol, tickSymbol, priced, ticks>>

-----------------------------------------------------------------------------
\* market_maker_bot_tick

\* What comes next when q are the ids remembered: they are cancelled, the buy
\* first, and then, if the market has a price, there are new quotes.
Proceed(q, hasPrice) ==
  \/ \E side \in Legs :
       /\ q[side] # 0 /\ (side = "SELL" => q["BUY"] = 0)
       /\ stage' = "cancel" /\ leg' = side
       /\ UNCHANGED quoteSymbol
  \/ /\ \A side \in Legs : q[side] = 0
     /\ stage' = (IF hasPrice THEN "order" ELSE "market") /\ leg' = "BUY"
     /\ quoteSymbol' = tickSymbol

\* No answer ends the bot.  An answer with no "last" in it counts as no price.
HearMarket(reply) ==
  /\ stage = "market"
  /\ RecvFramed(reply)
  /\ IF reply = NoReply THEN stage' = "gone" /\ UNCHANGED <<leg, quoteSymbol, priced>>
     ELSE priced' = (reply.last > 0) /\ Proceed(quotes, reply.last > 0)
  /\ UNCHANGED <<quotes, tickSymbol, ticks>>

\* Slip: the quote is looked for in the book of this tick's symbol.
CancelOnThisSymbol ==
  /\ stage = "cancel"
  /\ SendFramed("CANCEL", tickSymbol, quotes[leg])
  /\ UNCHANGED botVars

CancelQuote ==
  /\ stage = "cancel"
  /\ SendFramed("CANCEL", quoteSymbol, quotes[leg])
  /\ UNCHANGED botVars

\* The id is forgotten whatever the answer was, or if there was none.
HearCancel(reply) ==
  /\ stage = "cancel"
  /\ RecvFramed(reply)
  /\ quotes' = [quotes EXCEPT ![leg] = 0]
  /\ Proceed(quotes', priced)
  /\ UNCHANGED <<tickSymbol, priced, ticks>>

PlaceQuote ==
  /\ stage = "order"
  /\ SendFramed("ORDER", tickSymbol, 0)
  /\ UNCHANGED botVars

\* Any answer with an "order_id" in it gives the id to remember.
HearOrder(reply) ==
  /\ stage = "order"
  /\ RecvFramed(reply)
  /\ quotes' = [quotes EXCEPT ![leg] = IF reply.id # 0 THEN reply.id ELSE @]
  /\ IF leg = "BUY" THEN leg' = "SELL" /\ UNCHANGED stage
                    ELSE leg' = "BUY" /\ stage' = "market"
  /\ UNCHANGED <<quoteSymbol, tickSymbol, priced, ticks>>

-----------------------------------------------------------------------------
\* handle_connection: one command at a time, each answered before the next is
\* read.

\* An answer with these fields to the command at the head.
Answer(kind, ok, last, id) ==
  /\ linked /\ toServer # <<>> /\ Head(toServer).kind = kind
  /\ toServer' = Tail(toServer)
  /\ toClient' = Append(toClient,
       [to |-> Head(toServer).number, ok |-> ok, last |-> last, id |-> id])
  /\ UNCHANGED <<botVars, awaiting, sent, timeouts>>

ServeAuth == \E ok \in BOOLEAN : Answer("AUTH", ok, 0, 0) /\ UNCHANGED <<linked, bookVars>>

\* A symbol nobody registered has no price.
ServeMarket ==
  \E last \in {0, 1} : Answer("MARKET", TRUE, last, 0) /\ UNCHANGED <<linked, bookVars>>

Named == {o \in resting : o.id = Head(toServer).id /\ o.symbol = Head(toServer).symbol}

\* Slip: an order that is not found is not worth an answer.
CancelInSilence ==
  /\ IF toServer # <<>> /\ Head(toServer).kind = "CANCEL" /\ Named = {}
       THEN /\ linked /\ toServer' = Tail(toServer)
            /\ UNCHANGED <<botVars, awaiting, sent, timeouts, toClient>>
       ELSE Answer("CANCEL", TRUE, 0, 0)
  /\ resting' = resting \ Named
  /\ UNCHANGED <<linked, nextOrder>>

ServeCancel ==
  /\ Answer("CANCEL", Named # {}, 0, 0)
  /\ resting' = resting \ Named
  /\ UNCHANGED <<linked, nextOrder>>

\* An order is given an id, whether it is then refused, filled at once, or rests.
ServeOrder ==
  /\ \E ok \in BOOLEAN :
       /\ Answer("ORDER", ok, 0, nextOrder)
       /\ \/ UNCHANGED resting
          \/ ok /\ resting' = resting \cup {[id |-> nextOrder, symbol |-> Head(toServer).symbol]}
  /\ nextOrder' = nextOrder + 1
  /\ UNCHANGED linked

ServeQuit == Answer("QUIT", TRUE, 0, 0) /\ linked' = FALSE /\ UNCHANGED bookVars

\* The thread ends after an error, 30 seconds of silence or the end of the
\* server, and closes the connection on what it has not read.
Hangup ==
  /\ linked /\ linked' = FALSE
  /\ toServer' = <<>>
  /\ UNCHANGED <<botVars, awaiting, toClient, sent, timeouts, bookVars>>

\* Other clients fill an order, or the server and its books are gone.
Fill ==
  /\ \E o \in resting : resting' = resting \ {o}
  /\ UNCHANGED <<botVars, linked, wireVars, nextOrder>>

-----------------------------------------------------------------------------
\* What recv_framed may give.
Readable == {NoReply} \cup {toClient[k] : k \in DOMAIN toClient \cap {1}}

Sends ==
  \/ Authenticate \/ Quit \/ CancelQuote \/ PlaceQuote
  \/ \E s \in BotSymbols : AskMarket(s)

Hears ==
  \E reply \in Readable :
    \/ Authenticated(reply) \/ HearMarket(reply) \/ HearCancel(reply)
    \/ HearOrder(reply) \/ Leave(reply)

Bot == Sends \/ Hears

ServerThread == ServeAuth \/ ServeMarket \/ ServeCancel \/ ServeOrder \/ ServeQuit \/ Hangup

MakerNext == Bot \/ ServerThread \/ Fill

\* The bot runs, and a receive ends, by the timeout if by nothing else.  The
\* server may never answer.
MakerSpec == MakerInit /\ [][MakerNext]_makerVars /\ WF_makerVars(Bot)

-----------------------------------------------------------------------------
\* Properties

Commands == [number : Nat, kind : {"AUTH", "MARKET", "CANCEL", "ORDER", "QUIT"},
             symbol : BotSymbols \cup {NoSymbol}, id : Nat]
Replies == [to : Nat, ok : BOOLEAN, last : {0, 1}, id : Nat]

\* Types of the variables.
MakerTypeOK ==
  /\ stage \in {"auth", "market", "cancel", "order", "quit", "gone"} /\ leg \in Legs
  /\ awaiting \in BOOLEAN /\ priced \in BOOLEAN /\ linked \in BOOLEAN
  /\ quotes \in [Legs -> Nat]
  /\ quoteSymbol \in BotSymbols \cup {NoSymbol} /\ tickSymbol \in BotSymbols \cup {NoSymbol}
  /\ ticks \in 0 .. MaxTicks
  /\ toServer \in Seq(Commands) /\ toClient \in Seq(Replies)
  /\ resting \subseteq [id : Nat \ {0}, symbol : BotSymbols \cup {NoSymbol}]
  /\ nextOrder \in Nat \ {0} /\ sent \in Nat /\ timeouts \in Nat

\* Nothing matches an answer to its command.  What keeps the two in step is
\* that each command is answered once, in order: the answer the bot reads is to
\* the command it sent `timeouts` commands ago, never to another one, and with
\* no timeout to the command it has just sent.
AnswersLagByTimeouts ==
  awaiting /\ toClient # <<>> => Head(toClient).to + timeouts = sent

\* "cancelling its own previous quotes first" (sim_client_main.cpp:218) can only
\* be as good as what the bot remembers.  As long as no receive has timed out
\* and the connection is up, every order of its own that rests is one whose id
\* and symbol it remembers, or whose id is in the answer under way, through
\* fills by others, refusals, ticks without a price and changes of symbol.
RememberedUnlessLate ==
  timeouts = 0 /\ linked => \A o \in resting :
    \/ \E side \in Legs : quotes[side] = o.id /\ quoteSymbol = o.symbol
    \/ \E k \in DOMAIN toClient : toClient[k].id = o.id /\ tickSymbol = o.symbol

\* The bot ends, though the server may stop answering at any point and keep the
\* connection open.
BotEnds == <>(stage = "gone")
=============================================================================
