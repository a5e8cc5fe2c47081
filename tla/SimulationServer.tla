-------------------------- MODULE SimulationServer --------------------------
(***************************************************************************)
(* The life of the exchange server of Src_Simulation: starting from a      *)
(* snapshot file, accounts and sessions (src/net/auth.cpp), detached       *)
(* connection threads (handle_connection), periodic and final saves        *)
(* (src/net/persistence.cpp), stop() and crashes                           *)
(* (src/net/simulation_server.cpp, src/net/sim_server_main.cpp).           *)
(*                                                                         *)
(* Of the engine only what the snapshot holds is kept: the portfolios and  *)
(* the last prices.  A trade of one share stands for what a command, or    *)
(* the watcher, does to them: one settlement, then the price.  Passwords,  *)
(* salts and the text of the file are left out; a connection logs in with  *)
(* the right password or not at all.  A holding of zero is the absence of  *)
(* one.                                                                    *)
(***************************************************************************)
EXTENDS Integers, FiniteSetsExt, TLC

CONSTANTS
  Names,           \* usernames
  Connections,     \* detached connection threads
  Symbols,
  Prices,
  InitialCash,     \* 100000.0
  InitialHolding,  \* 50
  InitialPrice,    \* given to register_symbol before the snapshot is loaded
  MaxClients,      \* bound: client ids
  MaxTrades,       \* bound: trades over the history
  MaxStarts,       \* bound: times the program is started
  DiskFails        \* whether writing the file may fail

ASSUME ServerAssumption ==
  /\ Prices \subseteq Nat \ {0}
  /\ InitialCash \in Nat
  /\ InitialHolding \in Nat
  /\ InitialPrice \in Prices
  /\ {MaxClients, MaxTrades, MaxStarts} \subseteq Nat
  /\ DiskFails \in BOOLEAN

Ids == 1 .. MaxClients
NoClient == 0

Portfolio == [cash : Int, holdings : [Symbols -> Int]]
Empty == [cash |-> 0, holdings |-> [s \in Symbols |-> 0]]

Parts == {"accounts", "portfolios", "prices"}
Savers == {"main", "saver"}

VARIABLES
  main,        \* where the main thread is, "down" when there is no process
  running,     \* running_
  at,          \* where save() is in each thread that saves
  accounts,    \* accounts_: name -> client id, or NoClient
  nextClient,  \* next_client_id_
  tokens,      \* tokens_, as the clients who have one
  portfolios,  \* portfolios_: a function on the clients known to the engine
  lastPrice,   \* last_prices_
  conn,        \* where each connection thread is
  session,     \* its client_id, NoClient until it is authenticated
  job,         \* the client its REGISTER creates
  traded,      \* the symbol and price of its trade, until last_prices_ has it
  toGrant,     \* the symbols a REGISTER has still to grant
  tmp,         \* the temporary file
  file,        \* the snapshot file
  starts,      \* times the program was started
  trades,      \* trades made over the history
  answered,    \* history: registrations that were answered OK
  noted,       \* history: those answered before the running save began
  durable      \* history: those answered before the last complete save began

tableVars == <<accounts, nextClient, tokens, portfolios, lastPrice>>
connVars == <<conn, session, job, traded, toGrant>>
fileVars == <<tmp, file, noted, durable>>
processVars == <<main, running, at>>
countVars == <<starts, trades, answered>>
vars == <<processVars, tableVars, connVars, fileVars, countVars>>

Snapshot ==
  [accounts : [Names -> Ids \cup {NoClient}],
   portfolios : UNION {[C -> Portfolio] : C \in SUBSET Ids},
   prices : [Symbols -> Prices],
   parts : SUBSET (Parts \X Savers)]   \* which thread wrote which part

NoAccounts == [n \in Names |-> NoClient]
NoPrices == [s \in Symbols |-> InitialPrice]
Nothing ==
  [accounts |-> NoAccounts, portfolios |-> <<>>, prices |-> NoPrices, parts |-> {}]

Blank == [c \in Connections |-> NoClient]
NoSaver == [t \in Savers |-> "none"]
NoConn == [c \in Connections |-> "none"]
NoTrades == [c \in Connections |-> <<>>]
NoGrants == [c \in Connections |-> {}]

Init ==
  /\ main = "down"
  /\ running = FALSE
  /\ at = NoSaver
  /\ accounts = NoAccounts
  /\ nextClient = 1
  /\ tokens = {}
  /\ portfolios = <<>>
  /\ lastPrice = NoPrices
  /\ conn = NoConn
  /\ session = Blank
  /\ job = Blank
  /\ traded = NoTrades
  /\ toGrant = NoGrants
  /\ tmp = Nothing
  /\ file = Nothing
  /\ noted = NoAccounts
  /\ durable = NoAccounts
  /\ starts = 0
  /\ trades = 0
  /\ answered = NoAccounts

-----------------------------------------------------------------------------
\* Starting: the snapshot is loaded before anything else runs.

\* Slip: the counter of client ids starts again from one.
FirstId(table) == 1

\* import_account, for every account: past the highest id.
NextAfter(table) == 1 + Max({table[n] : n \in Names} \cup {NoClient})

Start ==
  /\ main = "down"
  /\ starts < MaxStarts
  /\ starts' = starts + 1
  /\ main' = "running"
  /\ running' = TRUE
  /\ at' = [at EXCEPT !["saver"] = "sleep"]
  /\ accounts' = file.accounts
  /\ nextClient' = NextAfter(file.accounts)
  /\ portfolios' = file.portfolios
  /\ lastPrice' = file.prices
  /\ UNCHANGED <<tokens, connVars, fileVars, trades, answered>>

\* The process ends, its detached threads with it; the snapshot stays.  So may a
\* temporary file, which nobody reads and the next save truncates.
Die ==
  /\ main' = "down"
  /\ running' = FALSE
  /\ at' = NoSaver
  /\ accounts' = NoAccounts
  /\ nextClient' = 1
  /\ tokens' = {}
  /\ portfolios' = <<>>
  /\ lastPrice' = NoPrices
  /\ conn' = NoConn
  /\ session' = Blank
  /\ job' = Blank
  /\ traded' = NoTrades
  /\ toGrant' = NoGrants
  /\ tmp' = Nothing
  /\ noted' = NoAccounts
  /\ answered' = durable
  /\ UNCHANGED <<file, durable, starts, trades>>

Crash == main # "down" /\ Die

-----------------------------------------------------------------------------
\* Connections

Is(c, state) == conn[c] = state

\* What a thread does after a command: it tests running_ and waits for the next
\* message, or ends.
AfterCommand(c, client) ==
  /\ conn' = [conn EXCEPT ![c] = IF running THEN "recv" ELSE "none"]
  /\ session' = [session EXCEPT ![c] = IF running THEN client ELSE NoClient]

Connect(c) ==
  /\ Is(c, "none")
  /\ running
  /\ conn' = [conn EXCEPT ![c] = "recv"]
  /\ UNCHANGED <<processVars, tableVars, session, job, traded, toGrant, fileVars, countVars>>

\* QUIT, a disconnection, or nothing received for kRecvTimeoutSeconds.
HangUp(c) ==
  /\ Is(c, "recv")
  /\ conn' = [conn EXCEPT ![c] = "none"]
  /\ session' = [session EXCEPT ![c] = NoClient]
  /\ UNCHANGED <<processVars, tableVars, job, traded, toGrant, fileVars, countVars>>

Anonymous(c) == Is(c, "recv") /\ session[c] = NoClient

\* REGISTER: the account is created first,
Register(c, n) ==
  /\ Anonymous(c)
  /\ accounts[n] = NoClient
  /\ nextClient \in Ids
  /\ accounts' = [accounts EXCEPT ![n] = nextClient]
  /\ nextClient' = nextClient + 1
  /\ tokens' = tokens \cup {nextClient}
  /\ job' = [job EXCEPT ![c] = nextClient]
  /\ conn' = [conn EXCEPT ![c] = "ensure"]
  /\ UNCHANGED <<processVars, portfolios, lastPrice, session, traded, toGrant, fileVars,
                 countVars>>

\* Slip: a portfolio that is there already is replaced.
Replaced(table, id, fresh) ==
  [k \in DOMAIN table \cup {id} |-> IF k = id THEN fresh ELSE table[k]]

\* try_emplace
Emplaced(table, id, fresh) ==
  [k \in DOMAIN table \cup {id} |-> IF k \in DOMAIN table THEN table[k] ELSE fresh]

\* then its cash (ensure_client),
Ensure(c) ==
  /\ Is(c, "ensure")
  /\ portfolios' = Emplaced(portfolios, job[c], [Empty EXCEPT !.cash = InitialCash])
  /\ toGrant' = [toGrant EXCEPT ![c] = Symbols]
  /\ conn' = [conn EXCEPT ![c] = "grant"]
  /\ UNCHANGED <<processVars, accounts, nextClient, tokens, lastPrice, session, job,
                 traded, fileVars, countVars>>

\* then a position in each symbol (grant_initial_holdings),
Grant(c, s) ==
  /\ Is(c, "grant")
  /\ s \in toGrant[c]
  /\ portfolios' = [portfolios EXCEPT ![job[c]].holdings[s] = @ + InitialHolding]
  /\ toGrant' = [toGrant EXCEPT ![c] = @ \ {s}]
  /\ UNCHANGED <<processVars, accounts, nextClient, tokens, lastPrice, conn, session,
                 job, traded, fileVars, countVars>>

\* and the client is told.
Registered(c) ==
  /\ Is(c, "grant")
  /\ toGrant[c] = {}
  /\ answered' = [n \in Names |-> IF accounts[n] = job[c] THEN job[c] ELSE answered[n]]
  /\ job' = [job EXCEPT ![c] = NoClient]
  /\ AfterCommand(c, job[c])
  /\ UNCHANGED <<processVars, tableVars, traded, toGrant, fileVars, starts, trades>>

Login(c, n) ==
  /\ Anonymous(c)
  /\ accounts[n] # NoClient
  /\ tokens' = tokens \cup {accounts[n]}
  /\ AfterCommand(c, accounts[n])
  /\ UNCHANGED <<processVars, accounts, nextClient, portfolios, lastPrice, job, traded,
                 toGrant, fileVars, countVars>>

Resume(c, id) ==
  /\ Anonymous(c)
  /\ id \in tokens
  /\ AfterCommand(c, id)
  /\ UNCHANGED <<processVars, tableVars, job, traded, toGrant, fileVars, countVars>>

\* A command of the client trades one share with somebody else's resting order.
Trade(c, buyer, seller, s, p) ==
  /\ Is(c, "recv")
  /\ session[c] \in {buyer, seller}
  /\ {buyer, seller} \subseteq DOMAIN portfolios
  /\ buyer # seller
  /\ portfolios[buyer].cash >= p
  /\ portfolios[seller].holdings[s] >= 1
  /\ trades < MaxTrades
  /\ trades' = trades + 1
  /\ portfolios' =
       [portfolios EXCEPT ![buyer].cash = @ - p, ![buyer].holdings[s] = @ + 1,
                          ![seller].cash = @ + p, ![seller].holdings[s] = @ - 1]
  /\ traded' = [traded EXCEPT ![c] = <<s, p>>]
  /\ conn' = [conn EXCEPT ![c] = "price"]
  /\ UNCHANGED <<processVars, accounts, nextClient, tokens, lastPrice, session, job,
                 toGrant, fileVars, starts, answered>>

SetPrice(c) ==
  /\ Is(c, "price")
  /\ lastPrice' = [lastPrice EXCEPT ![traded[c][1]] = traded[c][2]]
  /\ traded' = [traded EXCEPT ![c] = <<>>]
  /\ AfterCommand(c, session[c])
  /\ UNCHANGED <<processVars, accounts, nextClient, tokens, portfolios, job, toGrant,
                 fileVars, countVars>>

-----------------------------------------------------------------------------
\* save(), by the persistence thread or by the main thread

Saves(t) == at[t] \in Parts \cup {"rename"}

SaveStep(t, from, to) ==
  /\ at[t] = from
  /\ at' = [at EXCEPT ![t] = to]
  /\ UNCHANGED <<main, running, tableVars, connVars, countVars>>

SaveAccounts(t) ==
  /\ SaveStep(t, "accounts", "portfolios")
  /\ tmp' = [Nothing EXCEPT !.accounts = accounts, !.parts = {<<"accounts", t>>}]
  /\ noted' = answered
  /\ UNCHANGED <<file, durable>>

\* all_portfolios copies the whole table under its lock.
SavePortfolios(t) ==
  /\ SaveStep(t, "portfolios", "prices")
  /\ tmp' = [tmp EXCEPT !.portfolios = portfolios, !.parts = @ \cup {<<"portfolios", t>>}]
  /\ UNCHANGED <<file, noted, durable>>

SavePrices(t) ==
  /\ SaveStep(t, "prices", "rename")
  /\ tmp' = [tmp EXCEPT !.prices = lastPrice, !.parts = @ \cup {<<"prices", t>>}]
  /\ UNCHANGED <<file, noted, durable>>

Afterwards(t) ==
  /\ at' = [at EXCEPT ![t] = IF t = "saver" THEN "sleep" ELSE "none"]
  /\ main' = IF t = "main" THEN "stopped" ELSE main
  /\ UNCHANGED <<running, tableVars, connVars, countVars>>

Rename(t) ==
  /\ at[t] = "rename"
  /\ Afterwards(t)
  /\ file' = tmp
  /\ tmp' = Nothing
  /\ durable' = noted
  /\ noted' = NoAccounts

\* Slip: what was written is renamed into place even so.
WhateverWasWritten == tmp

TheOldOne == file

\* The file cannot be opened, written or renamed: the old one stays.
SaveFails(t) ==
  /\ DiskFails
  /\ Saves(t)
  /\ Afterwards(t)
  /\ tmp' = Nothing
  /\ noted' = NoAccounts
  /\ file' = TheOldOne
  /\ UNCHANGED durable

SavesAgain == running

\* persistence_loop, after its sleep.
SaverWakes ==
  /\ at["saver"] = "sleep"
  /\ at' = [at EXCEPT !["saver"] = IF SavesAgain THEN "accounts" ELSE "ended"]
  /\ UNCHANGED <<main, running, tableVars, connVars, fileVars, countVars>>

-----------------------------------------------------------------------------
\* stop() and the end of main

Stop ==
  /\ main = "running"
  /\ main' = "joining"
  /\ running' = FALSE
  /\ UNCHANGED <<at, tableVars, connVars, fileVars, countVars>>

\* Slip: the persistence thread is not joined.
NotJoined == TRUE

SaverJoined == at["saver"] = "ended"

FinalSave ==
  /\ main = "joining"
  /\ SaverJoined
  /\ main' = "saving"
  /\ at' = [at EXCEPT !["main"] = "accounts"]
  /\ UNCHANGED <<running, tableVars, connVars, fileVars, countVars>>

\* stop() has returned, the market report is written, main returns.
Exit == main = "stopped" /\ Die

-----------------------------------------------------------------------------

Serve(c) ==
  \/ Connect(c) \/ HangUp(c)
  \/ \E n \in Names : Register(c, n) \/ Login(c, n)
  \/ Ensure(c) \/ Registered(c) \/ SetPrice(c)
  \/ \E s \in Symbols : Grant(c, s)
  \/ \E id \in Ids : Resume(c, id)
  \/ \E buyer, seller \in Ids, s \in Symbols, p \in Prices : Trade(c, buyer, seller, s, p)

Save(t) ==
  SaveAccounts(t) \/ SavePortfolios(t) \/ SavePrices(t) \/ Rename(t) \/ SaveFails(t)

Next ==
  \/ Start \/ Crash \/ Stop \/ FinalSave \/ Exit
  \/ \E c \in Connections : Serve(c)
  \/ \E t \in Savers : Save(t)
  \/ SaverWakes

\* The threads that stop() waits for are scheduled, and so is the main thread.
Fairness ==
  /\ \A t \in Savers : WF_vars(Save(t))
  /\ WF_vars(SaverWakes)
  /\ WF_vars(FinalSave)

Spec == Init /\ [][Next]_vars /\ Fairness

-----------------------------------------------------------------------------
\* Properties

\* No two accounts have one client id, in memory or in the file, and the next one
\* is new to both, whatever was restored (auth.hpp:49).
IdsAreUnique ==
  \A table \in {accounts, file.accounts} : \A n \in Names :
    table[n] # NoClient =>
      /\ \A m \in Names \ {n} : table[m] # table[n]
      /\ main # "down" => table[n] < nextClient

Backed(table) ==
  SumFunction([id \in DOMAIN table |-> table[id].cash])
    = InitialCash * Cardinality(DOMAIN table)

\* However saves, trades, registrations, crashes and restarts interleave, the
\* cash in memory and the cash in the file are what the clients they know were
\* given: a save never sees half a settlement, a restart neither makes nor
\* destroys money, and a client id met again is not given its cash again.
CashIsBacked == Backed(portfolios) /\ Backed(file.portfolios)

\* The snapshot is complete and comes from one save, never from two that met in
\* the temporary file, nor from one that failed (persistence.hpp:24).
FileIsWhole ==
  file.parts = {} \/ \E t \in Savers : file.parts = Parts \X {t}

\* A client whose registration was answered before a save that completed has its
\* account, under the same id, and a portfolio in every later snapshot and in
\* every later process, whatever crashes.
AnsweredIsDurable ==
  \A n \in Names : durable[n] # NoClient =>
    /\ file.accounts[n] = durable[n]
    /\ durable[n] \in DOMAIN file.portfolios
    /\ main # "down" => accounts[n] = durable[n] /\ durable[n] \in DOMAIN portfolios

\* "A restart ... keeps every account's money and positions" (persistence.hpp:9):
\* whoever is told that it is logged in has a portfolio, unless the thread that
\* registers it has not come to that.
RestartKeepsMoney ==
  \A c \in Connections : session[c] # NoClient =>
    \/ session[c] \in DOMAIN portfolios
    \/ \E d \in Connections : Is(d, "ensure") /\ job[d] = session[c]
=============================================================================
