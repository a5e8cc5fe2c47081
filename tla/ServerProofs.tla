---------------------------- MODULE ServerProofs ----------------------------
(***************************************************************************)
(* What is proved of the simulation server and of the bus its engine       *)
(* publishes on.                                                           *)
(*                                                                         *)
(* SimulationServer, for any users, connections, symbols and any number of *)
(* starts: that the snapshot file is whole, that client ids are unique     *)
(* across restarts, that what a complete save has kept is never lost, and  *)
(* that cash is neither made nor destroyed.  The invariant follows the     *)
(* temporary file from one part of a save to the next: only one thread     *)
(* saves at a time, and what it has written so far is its own and what it  *)
(* has read from the tables.                                               *)
(*                                                                         *)
(* NotificationBus, for any threads, any subscribers and any number of     *)
(* events: its type invariant, order and completeness of what each         *)
(* subscriber receives, that no removed subscriber is called, and what     *)
(* flush() and the destructor promise.  The invariant follows the last     *)
(* event each subscriber was due (Reached): what it has received are       *)
(* consecutive events that end there and begin no later than the first one *)
(* published after it subscribed.                                          *)
(*                                                                         *)
(* NetworkMaker, for any symbols and any number of ticks: its type         *)
(* invariant, that an answer lags behind its command by the receives that  *)
(* timed out, and that a bot none of whose receives has timed out remembers*)
(* every order of its own that rests.  The invariant numbers the frames    *)
(* under way (WireInv) and follows what the two ids stand for from one     *)
(* command of a tick to the next (StageInv, MemoryInv).                    *)
(***************************************************************************)
EXTENDS SimulationServer, NotificationBus, NetworkMaker, SumProofs

Accounts == [Names -> Ids \cup {NoClient}]

\* Who may be running.  Nothing is when there is no process, and the final save
\* does not begin before the persistence thread has ended.
ThreadInv ==
  /\ at \in [Savers -> {"none", "sleep", "ended"} \cup Parts \cup {"rename"}]
  /\ conn \in [Connections -> {"none", "recv", "ensure", "grant", "price"}]
  /\ main = "down" => at = NoSaver /\ conn = NoConn /\ ~running
  /\ Saves("main") => at["saver"] = "ended"

\* What a save has written so far is its own.
WholeInv ==
  /\ tmp = [accounts |-> tmp.accounts, portfolios |-> tmp.portfolios,
            prices |-> tmp.prices, parts |-> tmp.parts]
  /\ \A t \in Savers :
       /\ at[t] = "portfolios" => tmp.parts = {<<"accounts", t>>}
       /\ at[t] = "prices" => tmp.parts = {<<"accounts", t>>, <<"portfolios", t>>}
       /\ at[t] = "rename" => tmp.parts = Parts \X {t}
  /\ main = "down" => tmp = Nothing
  /\ FileIsWhole

\* No two accounts of the table have one client id.
Distinct(table) ==
  \A n, m \in Names : n # m /\ table[n] # NoClient => table[n] # table[m]

Below(table, id) == \A n \in Names : table[n] < id

\* The ids in memory, in the file and in the one being written.
IdInv ==
  /\ nextClient \in 1 .. MaxClients + 1
  /\ \A table \in {accounts, file.accounts, tmp.accounts} :
       /\ table \in Accounts
       /\ Distinct(table)
       /\ main # "down" => Below(table, nextClient)

\* The accounts of the table that are noted are in it, under the noted id.
Holds(table, note) == \A n \in Names : note[n] # NoClient => table[n] = note[n]

HasPortfolios(table, note) == \A n \in Names : note[n] # NoClient => note[n] \in DOMAIN table

\* What was answered is in memory, what was noted when a save began is in what it
\* has written, and what a complete save has kept is in the file.
KeptInv ==
  /\ job \in [Connections -> Ids \cup {NoClient}]
  /\ \A c \in Connections : conn[c] = "grant" => job[c] \in DOMAIN portfolios
  /\ main = "down" => answered = durable
  /\ main # "down" => Holds(accounts, answered) /\ HasPortfolios(portfolios, answered)
  /\ Holds(answered, durable) /\ Holds(file.accounts, durable)
  /\ HasPortfolios(file.portfolios, durable)
  /\ \A t \in Savers : at[t] \in {"portfolios", "prices", "rename"} =>
       /\ Holds(answered, noted) /\ Holds(tmp.accounts, noted)
       /\ at[t] # "portfolios" => HasPortfolios(tmp.portfolios, noted)

ServerInv == ThreadInv /\ WholeInv /\ IdInv /\ KeptInv

-----------------------------------------------------------------------------

LEMMA Constants ==
  /\ MaxClients \in Nat /\ NoClient = 0 /\ Ids = 1 .. MaxClients
  /\ Savers = {"main", "saver"} /\ Parts = {"accounts", "portfolios", "prices"}
BY ServerAssumption DEF NoClient, Ids, Savers, Parts

\* A bounded set of numbers has a greatest one: the set of distances to the bound
\* has a least.
LEMMA MaxBounds ==
  ASSUME NEW N \in Nat, NEW S \in SUBSET (0 .. N), S # {}
  PROVE  Max(S) \in S /\ \A x \in S : x <= Max(S)
<1> DEFINE T == {N - x : x \in S}
           R == OpToRel(<, Nat)
<1>1. T \subseteq Nat /\ T # {}
  <2>1. \A x \in S : N - x \in Nat
    OBVIOUS
  <2>2. PICK x \in S : TRUE
    OBVIOUS
  <2> QED BY <2>1, <2>2
<1>2. \E m \in T : \A y \in T : ~ (<<y, m>> \in R)
  <2> HIDE DEF T
  <2> QED BY <1>1, NatLessThanWellFounded, WFMin
<1>3. PICK m \in T : \A y \in T : ~ (<<y, m>> \in R)
  BY <1>2
<1>4. \A y \in T : ~ (y < m)
  <2> HIDE DEF T
  <2> QED BY <1>1, <1>3 DEF OpToRel
<1>5. PICK x \in S : m = N - x
  OBVIOUS
<1>6. \A y \in S : x >= y
  BY <1>4, <1>5
<1> QED BY <1>5, <1>6 DEF Max

\* The id given after a start is past every restored one.
LEMMA NextIsFree ==
  ASSUME NEW table \in Accounts
  PROVE  NextAfter(table) \in 1 .. MaxClients + 1 /\ Below(table, NextAfter(table))
<1> DEFINE S == {table[n] : n \in Names} \cup {NoClient}
<1>1. S \in SUBSET (0 .. MaxClients) /\ S # {}
  BY Constants DEF Accounts
<1>2. Max(S) \in S /\ \A x \in S : x <= Max(S)
  <2> HIDE DEF S
  <2> QED BY <1>1, MaxBounds, Constants
<1>3. \A n \in Names : table[n] \in S
  OBVIOUS
<1>4. NextAfter(table) = 1 + Max(S)
  BY DEF NextAfter
<1>5. Max(S) \in 0 .. MaxClients
  <2> HIDE DEF S
  <2> QED BY <1>1, <1>2
<1>6. \A n \in Names : table[n] \in Nat /\ table[n] <= Max(S)
  <2>1. \A x \in S : x \in Nat
    <3> HIDE DEF S
    <3> QED BY <1>1, Constants
  <2> HIDE DEF S
  <2> QED BY <1>2, <1>3, <2>1
<1> HIDE DEF S
<1> QED BY <1>4, <1>5, <1>6, Constants DEF Below

\* Only one thread is in the middle of a save.
LEMMA OneSaves ==
  ASSUME ThreadInv, NEW t \in Savers, NEW u \in Savers, t # u, Saves(t)
  PROVE  ~Saves(u)
BY Constants DEF ThreadInv, Saves

LEMMA InitInv == Init => ServerInv
<1> SUFFICES ASSUME Init PROVE ServerInv
  OBVIOUS
<1>1. ThreadInv
  BY DEF Init, ThreadInv, NoSaver, NoConn, Saves, Savers, Parts
<1>2. WholeInv
  BY DEF Init, WholeInv, FileIsWhole, Nothing, NoSaver
<1>3. IdInv
  BY Constants DEF Init, IdInv, Nothing, NoAccounts, Accounts, Distinct
<1>4. KeptInv
  BY Constants DEF Init, KeptInv, Blank, NoConn, NoAccounts, NoSaver, Nothing, Holds, HasPortfolios
<1> QED BY <1>1, <1>2, <1>3, <1>4 DEF ServerInv

-----------------------------------------------------------------------------
\* The process

LEMMA StartInv == ServerInv /\ Start => ServerInv'
<1> SUFFICES ASSUME ServerInv, Start PROVE ServerInv'
  OBVIOUS
<1>1. ThreadInv'
  BY Constants DEF ServerInv, ThreadInv, Start, NoSaver, NoConn, connVars, Saves
<1>2. WholeInv'
  BY Constants DEF ServerInv, ThreadInv, WholeInv, FileIsWhole, Start, NoSaver, fileVars
<1>3. IdInv'
  <2>1. file.accounts \in Accounts /\ tmp.accounts \in Accounts
    BY DEF ServerInv, IdInv
  <2>2. nextClient' \in 1 .. MaxClients + 1 /\ Below(file.accounts, nextClient')
    BY <2>1, NextIsFree DEF Start
  <2>3. Below(tmp.accounts, nextClient')
    BY <2>2, Constants DEF ServerInv, WholeInv, Start, Nothing, NoAccounts, Below
  <2> QED BY <2>1, <2>2, <2>3 DEF ServerInv, IdInv, Start, fileVars, Distinct, Below
<1>4. KeptInv'
  BY Constants DEF ServerInv, ThreadInv, KeptInv, Start, NoConn, NoSaver, connVars, fileVars,
                   Holds, HasPortfolios
<1> QED BY <1>1, <1>2, <1>3, <1>4 DEF ServerInv

LEMMA DieInv == ServerInv /\ Die => ServerInv'
<1> SUFFICES ASSUME ServerInv, Die PROVE ServerInv'
  OBVIOUS
<1>1. ThreadInv'
  BY Constants DEF ThreadInv, Die, NoSaver, NoConn, Saves
<1>2. WholeInv'
  BY Constants DEF ServerInv, WholeInv, FileIsWhole, Die, NoSaver, Nothing
<1>3. IdInv'
  BY Constants DEF ServerInv, IdInv, Die, Nothing, NoAccounts, Accounts, Distinct
<1>4. KeptInv'
  BY Constants DEF ServerInv, KeptInv, Die, Blank, NoConn, NoSaver, Holds, HasPortfolios
<1> QED BY <1>1, <1>2, <1>3, <1>4 DEF ServerInv

\* The main thread and the persistence thread between two saves.
LEMMA StopInv ==
  ServerInv /\ (Stop \/ FinalSave \/ SaverWakes) => ServerInv'
<1> SUFFICES ASSUME ServerInv, Stop \/ FinalSave \/ SaverWakes PROVE ServerInv'
  OBVIOUS
<1>1. /\ UNCHANGED <<tableVars, connVars, fileVars, countVars>>
      /\ main # "down" /\ main' # "down"
  BY Constants DEF Stop, FinalSave, SaverWakes, ServerInv, ThreadInv, NoSaver
<1>2. ThreadInv'
  <2>1. CASE Stop
    BY <2>1, Constants DEF Stop, ServerInv, ThreadInv, connVars, Saves
  <2>2. CASE FinalSave
    <3>1. at["saver"] = "ended" /\ at' = [at EXCEPT !["main"] = "accounts"]
      BY <2>2 DEF FinalSave, SaverJoined
    <3>2. at'["saver"] = "ended"
      BY <3>1, Constants DEF ServerInv, ThreadInv
    <3>3. at' \in [Savers -> {"none", "sleep", "ended"} \cup Parts \cup {"rename"}]
      BY <3>1, Constants DEF ServerInv, ThreadInv
    <3> QED BY <1>1, <3>2, <3>3 DEF ServerInv, ThreadInv, connVars
  <2>3. CASE SaverWakes
    <3>1. /\ at["saver"] = "sleep"
          /\ at' = [at EXCEPT !["saver"] = IF SavesAgain THEN "accounts" ELSE "ended"]
      BY <2>3 DEF SaverWakes
    <3>2. at' \in [Savers -> {"none", "sleep", "ended"} \cup Parts \cup {"rename"}]
      BY <3>1, Constants DEF ServerInv, ThreadInv
    <3>3. ~Saves("main")'
      BY <3>1, Constants DEF ServerInv, ThreadInv, Saves
    <3> QED BY <1>1, <3>2, <3>3 DEF ServerInv, ThreadInv, connVars
  <2> QED BY <2>1, <2>2, <2>3
<1>3. \A t \in Savers : at'[t] \in {"portfolios", "prices", "rename"} => at'[t] = at[t]
  BY Constants DEF Stop, FinalSave, SaverWakes, ServerInv, ThreadInv
<1>4. WholeInv'
  BY <1>1, <1>3 DEF ServerInv, WholeInv, FileIsWhole, fileVars
<1>5. IdInv'
  BY <1>1 DEF ServerInv, IdInv, Below, Distinct, tableVars, fileVars
<1>6. KeptInv'
  BY <1>1, <1>3 DEF ServerInv, KeptInv, Holds, HasPortfolios, tableVars, connVars, fileVars,
                    countVars
<1> QED BY <1>2, <1>4, <1>5, <1>6 DEF ServerInv

-----------------------------------------------------------------------------
\* The saves

\* The other thread is not in the middle of a save.
LEMMA OtherSaver ==
  ASSUME ServerInv, NEW t \in Savers, Saves(t), Save(t), NEW u \in Savers, u # t
  PROVE  at'[u] = at[u] /\ at[u] \notin Parts \cup {"rename"}
<1>1. at[u] \notin Parts \cup {"rename"}
  BY OneSaves DEF ServerInv, Saves
<1>2. at'[u] = at[u]
  BY DEF ServerInv, ThreadInv, Save, SaveStep, SaveAccounts, SavePortfolios, SavePrices,
         Rename, SaveFails, Afterwards
<1> QED BY <1>1, <1>2

LEMMA SaveInv ==
  ASSUME ServerInv, NEW t \in Savers, Save(t)
  PROVE  ServerInv'
<1>1. Saves(t) /\ main # "down" /\ main' # "down"
  BY Constants DEF ServerInv, ThreadInv, NoSaver, Saves, Save, SaveStep, SaveAccounts,
                   SavePortfolios, SavePrices, Rename, SaveFails, Afterwards
<1>2. UNCHANGED <<running, tableVars, connVars, countVars>>
  BY DEF Save, SaveStep, SaveAccounts, SavePortfolios, SavePrices, Rename, SaveFails, Afterwards
<1>3. \A u \in Savers : u # t => at'[u] = at[u] /\ at[u] \notin Parts \cup {"rename"}
  BY <1>1, OtherSaver
<1>4. ThreadInv'
  <2>1. at' \in [Savers -> {"none", "sleep", "ended"} \cup Parts \cup {"rename"}]
    BY Constants DEF ServerInv, ThreadInv, Save, SaveStep, SaveAccounts, SavePortfolios,
                     SavePrices, Rename, SaveFails, Afterwards
  <2>2. Saves("main")' => at'["saver"] = "ended"
    <3>1. CASE t = "main"
      BY <3>1, <1>1, <1>3, Constants DEF ServerInv, ThreadInv
    <3>2. CASE t = "saver"
      <4>1. at'["main"] = at["main"] /\ at["main"] \notin Parts \cup {"rename"}
        BY <3>2, <1>3, Constants
      <4> QED BY <4>1, Constants DEF Saves
    <3> QED BY <3>1, <3>2, Constants
  <2> QED BY <2>1, <2>2, <1>1, <1>2 DEF ServerInv, ThreadInv, connVars
<1>5. CASE SaveAccounts(t)
  <2>1. at'[t] = "portfolios"
    BY <1>5 DEF SaveAccounts, SaveStep, ServerInv, ThreadInv
  <2>2. /\ tmp' = [accounts |-> accounts, portfolios |-> Nothing.portfolios,
                   prices |-> Nothing.prices, parts |-> {<<"accounts", t>>}]
        /\ UNCHANGED <<file, durable>>
        /\ noted' = answered
    BY <1>5 DEF SaveAccounts, Nothing
  <2>3. WholeInv'
    BY <1>1, <1>3, <2>1, <2>2, Constants DEF ServerInv, WholeInv, FileIsWhole
  <2>4. IdInv'
    BY <1>1, <1>2, <2>2 DEF ServerInv, IdInv, Below, Distinct, tableVars
  <2>5. KeptInv'
    BY <1>1, <1>2, <1>3, <2>1, <2>2, Constants
       DEF ServerInv, KeptInv, Holds, HasPortfolios, tableVars, connVars, countVars
  <2> QED BY <1>4, <2>3, <2>4, <2>5 DEF ServerInv
<1>6. CASE SavePortfolios(t)
  <2>1. at[t] = "portfolios" /\ at'[t] = "prices"
    BY <1>6 DEF SavePortfolios, SaveStep, ServerInv, ThreadInv
  <2>2. /\ tmp' = [accounts |-> tmp.accounts, portfolios |-> portfolios,
                   prices |-> tmp.prices, parts |-> tmp.parts \cup {<<"portfolios", t>>}]
        /\ UNCHANGED <<file, durable, noted>>
    BY <1>6 DEF SavePortfolios, ServerInv, WholeInv
  <2>3. WholeInv'
    BY <1>1, <1>3, <2>1, <2>2, Constants DEF ServerInv, WholeInv, FileIsWhole
  <2>4. IdInv'
    BY <1>1, <1>2, <2>2 DEF ServerInv, IdInv, Below, Distinct, tableVars
  <2>5. KeptInv'
    BY <1>1, <1>2, <1>3, <2>1, <2>2, Constants
       DEF ServerInv, KeptInv, Holds, HasPortfolios, tableVars, connVars, countVars
  <2> QED BY <1>4, <2>3, <2>4, <2>5 DEF ServerInv
<1>7. CASE SavePrices(t)
  <2>1. at[t] = "prices" /\ at'[t] = "rename"
    BY <1>7 DEF SavePrices, SaveStep, ServerInv, ThreadInv
  <2>2. /\ tmp' = [accounts |-> tmp.accounts, portfolios |-> tmp.portfolios,
                   prices |-> lastPrice, parts |-> tmp.parts \cup {<<"prices", t>>}]
        /\ UNCHANGED <<file, durable, noted>>
    BY <1>7 DEF SavePrices, ServerInv, WholeInv
  <2>3. tmp'.parts = Parts \X {t}
    BY <2>1, <2>2, Constants DEF ServerInv, WholeInv
  <2>4. WholeInv'
    BY <1>1, <1>3, <2>1, <2>2, <2>3, Constants DEF ServerInv, WholeInv, FileIsWhole
  <2>5. IdInv'
    BY <1>1, <1>2, <2>2 DEF ServerInv, IdInv, Below, Distinct, tableVars
  <2>6. KeptInv'
    BY <1>1, <1>2, <1>3, <2>1, <2>2, Constants
       DEF ServerInv, KeptInv, Holds, HasPortfolios, tableVars, connVars, countVars
  <2> QED BY <1>4, <2>4, <2>5, <2>6 DEF ServerInv
<1>8. CASE Rename(t) \/ SaveFails(t)
  <2>1. /\ at'[t] \notin Parts \cup {"rename"}
        /\ tmp' = Nothing
    BY <1>8, Constants DEF Rename, SaveFails, Afterwards, ServerInv, ThreadInv
  <2>2. \/ at[t] = "rename" /\ file' = tmp /\ durable' = noted
        \/ UNCHANGED <<file, durable>>
    BY <1>8 DEF Rename, SaveFails, TheOldOne
  <2>3. WholeInv'
    BY <1>3, <2>1, <2>2, Constants DEF ServerInv, WholeInv, FileIsWhole, Nothing
  <2>4. IdInv'
    <3>1. /\ tmp'.accounts \in Accounts /\ Distinct(tmp'.accounts)
          /\ Below(tmp'.accounts, nextClient)
      BY <2>1, Constants DEF Nothing, NoAccounts, Accounts, Distinct, Below, ServerInv, IdInv
    <3> QED BY <1>1, <1>2, <2>2, <3>1 DEF ServerInv, IdInv, Below, Distinct, tableVars
  <2>5. KeptInv'
    BY <1>1, <1>2, <1>3, <2>1, <2>2, Constants
       DEF ServerInv, KeptInv, Holds, HasPortfolios, tableVars, connVars, countVars
  <2> QED BY <1>4, <2>3, <2>4, <2>5 DEF ServerInv
<1> QED BY <1>5, <1>6, <1>7, <1>8 DEF Save
-----------------------------------------------------------------------------
\* The connections

\* A connection thread runs only in a process, and touches neither the saves nor
\* the main thread.
LEMMA ServeFrame ==
  ASSUME ServerInv, NEW c \in Connections, Serve(c)
  PROVE  /\ UNCHANGED <<main, running, at, fileVars>>
         /\ main # "down"
         /\ ThreadInv' /\ WholeInv'
<1> DEFINE
  Labels == {"none", "recv", "ensure", "grant", "price"}
  Frame == /\ UNCHANGED <<main, running, at, tmp, file, noted, durable>>
           /\ conn[c] # "none" \/ running
           /\ conn' \in [Connections -> Labels]
<1>1. Frame
  <2>1. CASE Connect(c) \/ HangUp(c)
    BY <2>1 DEF Connect, HangUp, Is, processVars, fileVars, ServerInv, ThreadInv
  <2>2. CASE \E n \in Names : Register(c, n) \/ Login(c, n)
    BY <2>2 DEF Register, Login, Anonymous, AfterCommand, Is, processVars, fileVars, ServerInv,
                ThreadInv
  <2>3. CASE Ensure(c) \/ Registered(c) \/ SetPrice(c)
    BY <2>3 DEF Ensure, Registered, SetPrice, AfterCommand, Is, processVars, fileVars,
                ServerInv, ThreadInv
  <2>4. CASE (\E s \in Symbols : Grant(c, s)) \/ (\E id \in Ids : Resume(c, id))
    BY <2>4 DEF Grant, Resume, Anonymous, AfterCommand, Is, processVars, fileVars, ServerInv,
                ThreadInv
  <2>5. CASE \E buyer, seller \in Ids, s \in Symbols, p \in Prices :
               Trade(c, buyer, seller, s, p)
    BY <2>5 DEF Trade, Is, processVars, fileVars, ServerInv, ThreadInv
  <2> HIDE DEF Frame
  <2> QED BY <2>1, <2>2, <2>3, <2>4, <2>5 DEF Serve
<1>2. main # "down"
  BY <1>1 DEF ServerInv, ThreadInv, NoConn
<1>3. conn' \in [Connections -> Labels]
  BY <1>1
<1>4. ThreadInv'
  BY <1>1, <1>2, <1>3 DEF ServerInv, ThreadInv, Saves
<1>5. WholeInv'
  BY <1>1, <1>2 DEF ServerInv, WholeInv, FileIsWhole
<1> QED BY <1>1, <1>2, <1>4, <1>5 DEF fileVars

\* A step that makes no account, no portfolio and no answer.
LEMMA QuietServe ==
  ASSUME ServerInv, NEW c \in Connections, Serve(c),
         UNCHANGED <<accounts, nextClient, answered, job>>,
         DOMAIN portfolios' = DOMAIN portfolios,
         \A d \in Connections : conn'[d] = "grant" => conn[d] = "grant"
  PROVE  ServerInv'
<1>1. IdInv'
  BY ServeFrame DEF ServerInv, IdInv, Below, Distinct, fileVars
<1>2. KeptInv'
  BY ServeFrame DEF ServerInv, KeptInv, Holds, HasPortfolios, fileVars
<1> QED BY <1>1, <1>2, ServeFrame DEF ServerInv

LEMMA RegisterInv ==
  ASSUME ServerInv, NEW c \in Connections, NEW n \in Names, Register(c, n)
  PROVE  ServerInv'
<1>1. Serve(c)
  BY DEF Serve
<1>2. /\ nextClient \in Ids /\ nextClient' = nextClient + 1
      /\ accounts[n] = NoClient
      /\ accounts' = [accounts EXCEPT ![n] = nextClient]
      /\ UNCHANGED <<portfolios, answered>>
  BY DEF Register, countVars
<1>3. IdInv'
  <2>1. nextClient' \in 1 .. MaxClients + 1
    BY <1>2, Constants
  <2>2. ASSUME NEW table \in {accounts, file.accounts, tmp.accounts}
        PROVE  Below(table, nextClient')
    <3>1. table \in Accounts /\ Below(table, nextClient)
      BY <1>1, ServeFrame DEF ServerInv, IdInv
    <3> QED BY <1>2, <3>1, Constants DEF Below, Accounts
  <2>3. accounts' \in Accounts /\ Distinct(accounts')
    BY <1>1, <1>2, ServeFrame, Constants DEF ServerInv, IdInv, Accounts, Distinct, Below
  <2>4. Below(accounts', nextClient')
    <3>1. \A m \in Names : accounts'[m] \in {accounts[m], nextClient}
      BY <1>2 DEF ServerInv, IdInv, Accounts
    <3> QED BY <1>2, <2>2, <3>1, Constants DEF Below
  <2> QED BY <1>1, <2>1, <2>2, <2>3, <2>4, ServeFrame DEF ServerInv, IdInv, fileVars, Distinct, Below
<1>4. KeptInv'
  <2>1. job' \in [Connections -> Ids \cup {NoClient}]
    BY <1>2 DEF Register, ServerInv, KeptInv
  <2>2. \A d \in Connections : conn'[d] = "grant" => job'[d] \in DOMAIN portfolios'
    BY <1>2 DEF Register, ServerInv, ThreadInv, KeptInv
  <2>3. Holds(accounts', answered)
    BY <1>1, <1>2, ServeFrame DEF ServerInv, IdInv, KeptInv, Accounts, Holds
  <2> QED BY <1>1, <1>2, <2>1, <2>2, <2>3, ServeFrame
          DEF ServerInv, KeptInv, Holds, HasPortfolios, fileVars
<1> QED BY <1>1, <1>3, <1>4, ServeFrame DEF ServerInv

LEMMA EnsureInv ==
  ASSUME ServerInv, NEW c \in Connections, Ensure(c)
  PROVE  ServerInv'
<1>1. Serve(c)
  BY DEF Serve
<1>2. DOMAIN portfolios' = DOMAIN portfolios \cup {job[c]}
  BY DEF Ensure, Emplaced
<1>3. UNCHANGED <<accounts, nextClient, job, answered>>
  BY DEF Ensure, countVars
<1>4. IdInv'
  BY <1>1, <1>3, ServeFrame DEF ServerInv, IdInv, Below, Distinct, fileVars
<1>5. \A d \in Connections : conn'[d] = "grant" => d = c \/ conn[d] = "grant"
  BY DEF Ensure, ServerInv, ThreadInv
<1>6. KeptInv'
  BY <1>1, <1>2, <1>3, <1>5, ServeFrame
     DEF ServerInv, KeptInv, Holds, HasPortfolios, fileVars
<1> QED BY <1>1, <1>4, <1>6, ServeFrame DEF ServerInv

\* An answer is about an account that is there, with its portfolio, and takes back
\* none that was given before.
LEMMA RegisteredInv ==
  ASSUME ServerInv, NEW c \in Connections, Registered(c)
  PROVE  ServerInv'
<1>1. Serve(c)
  BY DEF Serve
<1>2. /\ conn[c] = "grant"
      /\ answered' = [n \in Names |-> IF accounts[n] = job[c] THEN job[c] ELSE answered[n]]
      /\ UNCHANGED <<accounts, nextClient, portfolios>>
  BY DEF Registered, Is, tableVars
<1>3. IdInv'
  BY <1>1, <1>2, ServeFrame DEF ServerInv, IdInv, Below, Distinct, fileVars
<1>4. Holds(accounts, answered') /\ HasPortfolios(portfolios, answered')
  BY <1>1, <1>2, ServeFrame DEF ServerInv, KeptInv, Holds, HasPortfolios
<1>5. \A n \in Names : answered[n] # NoClient => answered'[n] = answered[n]
  BY <1>1, <1>2, ServeFrame DEF ServerInv, KeptInv, Holds
<1>6. job' \in [Connections -> Ids \cup {NoClient}]
  BY DEF Registered, ServerInv, KeptInv
<1>7. \A d \in Connections : conn'[d] = "grant" => conn[d] = "grant" /\ job'[d] = job[d]
  BY DEF Registered, AfterCommand, ServerInv, ThreadInv, KeptInv
<1>8. KeptInv'
  BY <1>1, <1>2, <1>4, <1>5, <1>6, <1>7, ServeFrame
     DEF ServerInv, KeptInv, Holds, HasPortfolios, fileVars
<1> QED BY <1>1, <1>3, <1>8, ServeFrame DEF ServerInv

LEMMA ServeInv ==
  ASSUME ServerInv, NEW c \in Connections, Serve(c)
  PROVE  ServerInv'
<1> DEFINE Unanswered == UNCHANGED <<accounts, nextClient, answered, job>>
           NoGrant == \A d \in Connections : conn'[d] = "grant" => conn[d] = "grant"
<1>1. CASE Connect(c) \/ HangUp(c)
  <2>1. Unanswered /\ NoGrant /\ UNCHANGED portfolios
    BY <1>1 DEF Connect, HangUp, ServerInv, ThreadInv, tableVars, countVars
  <2> QED BY <2>1, QuietServe
<1>2. CASE \/ SetPrice(c)
           \/ \E n \in Names : Login(c, n)
           \/ \E id \in Ids : Resume(c, id)
  <2>1. Unanswered /\ NoGrant /\ UNCHANGED portfolios
    BY <1>2 DEF SetPrice, Login, Resume, AfterCommand, ServerInv, ThreadInv, tableVars, countVars
  <2> QED BY <2>1, QuietServe
<1>3. CASE \E s \in Symbols : Grant(c, s)
  <2>1. Unanswered /\ NoGrant /\ DOMAIN portfolios' = DOMAIN portfolios
    BY <1>3 DEF Grant, countVars
  <2> QED BY <2>1, QuietServe
<1>4. CASE \E buyer, seller \in Ids, s \in Symbols, p \in Prices : Trade(c, buyer, seller, s, p)
  <2>1. Unanswered /\ NoGrant /\ DOMAIN portfolios' = DOMAIN portfolios
    BY <1>4 DEF Trade, ServerInv, ThreadInv
  <2> QED BY <2>1, QuietServe
<1>5. CASE \E n \in Names : Register(c, n)
  BY <1>5, RegisterInv
<1>6. CASE Ensure(c)
  BY <1>6, EnsureInv
<1>7. CASE Registered(c)
  BY <1>7, RegisteredInv
<1> HIDE DEF Unanswered, NoGrant
<1> QED BY <1>1, <1>2, <1>3, <1>4, <1>5, <1>6, <1>7 DEF Serve

-----------------------------------------------------------------------------
\* Every step

LEMMA StepInv == ServerInv /\ [Next]_vars => ServerInv'
<1> SUFFICES ASSUME ServerInv, [Next]_vars PROVE ServerInv'
  OBVIOUS
<1>1. CASE Start
  BY <1>1, StartInv
<1>2. CASE Crash \/ Exit
  BY <1>2, DieInv DEF Crash, Exit
<1>3. CASE Stop \/ FinalSave \/ SaverWakes
  BY <1>3, StopInv
<1>4. CASE \E c \in Connections : Serve(c)
  BY <1>4, ServeInv
<1>5. CASE \E t \in Savers : Save(t)
  BY <1>5, SaveInv
<1>6. CASE UNCHANGED vars
  <2>1. ThreadInv' /\ WholeInv'
    BY <1>6 DEF ServerInv, ThreadInv, WholeInv, Saves, FileIsWhole, vars, processVars, connVars,
                fileVars
  <2>2. IdInv'
    BY <1>6 DEF ServerInv, IdInv, Below, Distinct, vars, processVars, tableVars, fileVars
  <2>3. KeptInv'
    BY <1>6 DEF ServerInv, KeptInv, Holds, HasPortfolios, vars, processVars, tableVars, connVars,
                fileVars, countVars
  <2> QED BY <2>1, <2>2, <2>3 DEF ServerInv
<1> QED BY <1>1, <1>2, <1>3, <1>4, <1>5, <1>6 DEF Next

\* ServerInv holds in every state of every behaviour.
THEOREM ServerInvariance == Spec => []ServerInv
BY InitInv, StepInv, PTL DEF Spec

\* The snapshot file is always empty or whole, and written by one thread, however
\* saves, disk failures and crashes fall (persistence.hpp:24).
THEOREM SnapshotIsWhole == Spec => []FileIsWhole
<1>1. ServerInv => FileIsWhole
  BY DEF ServerInv, WholeInv
<1> QED BY <1>1, ServerInvariance, PTL

\* No two accounts share a client id, in memory or in the snapshot, and the next
\* one is new to both, through any number of restarts (auth.hpp:49).
THEOREM UniqueIds == Spec => []IdsAreUnique
<1>1. ServerInv => IdsAreUnique
  BY DEF ServerInv, IdInv, Distinct, Below, IdsAreUnique
<1> QED BY <1>1, ServerInvariance, PTL

\* A registration answered before a save that completed is in every later snapshot
\* and process, with its id and its portfolio, whatever crashes
\* (persistence.hpp:9).
THEOREM NothingKeptIsLost == Spec => []AnsweredIsDurable
<1>1. ServerInv => AnsweredIsDurable
  <2> SUFFICES ASSUME ServerInv, NEW n \in Names, durable[n] # NoClient
               PROVE  /\ file.accounts[n] = durable[n]
                      /\ durable[n] \in DOMAIN file.portfolios
                      /\ main # "down" =>
                           accounts[n] = durable[n] /\ durable[n] \in DOMAIN portfolios
    BY DEF AnsweredIsDurable
  <2> QED BY DEF ServerInv, KeptInv, Holds, HasPortfolios
<1> QED BY <1>1, ServerInvariance, PTL

-----------------------------------------------------------------------------
\* The cash

\* What the snapshot and the tables hold of the portfolios.
Funded(table) ==
  /\ IsFiniteSet(DOMAIN table)
  /\ \A id \in DOMAIN table : table[id] \in Portfolio
  /\ Backed(table)

CashInv == Funded(portfolios) /\ Funded(file.portfolios) /\ Funded(tmp.portfolios)

CashOf(table) == [id \in DOMAIN table |-> table[id].cash]

LEMMA FundedIs ==
  ASSUME NEW table, Funded(table)
  PROVE  /\ IsFiniteSet(DOMAIN table) /\ DOMAIN CashOf(table) = DOMAIN table
         /\ \A id \in DOMAIN table :
              table[id] \in Portfolio /\ CashOf(table)[id] = table[id].cash
              /\ CashOf(table)[id] \in Int
         /\ SumFunctionOnSet(CashOf(table), DOMAIN table)
              = InitialCash * Cardinality(DOMAIN table)
<1>1. \A id \in DOMAIN table : table[id].cash \in Int
  BY DEF Funded, Portfolio
<1>2. SumFunctionOnSet(CashOf(table), DOMAIN CashOf(table))
        = InitialCash * Cardinality(DOMAIN table)
  BY DEF Funded, Backed, CashOf, SumFunction
<1> QED BY <1>1, <1>2 DEF Funded, CashOf

LEMMA FundedIf ==
  ASSUME NEW table, IsFiniteSet(DOMAIN table),
         \A id \in DOMAIN table : table[id] \in Portfolio,
         SumFunctionOnSet(CashOf(table), DOMAIN table)
           = InitialCash * Cardinality(DOMAIN table)
  PROVE  Funded(table)
<1>1. DOMAIN CashOf(table) = DOMAIN table
  BY DEF CashOf
<1>2. SumFunction(CashOf(table)) = InitialCash * Cardinality(DOMAIN table)
  BY <1>1 DEF SumFunction
<1> QED BY <1>2 DEF Funded, Backed, CashOf

LEMMA NothingFunded == Funded(<<>>)
<1>1. DOMAIN <<>> = {}
  OBVIOUS
<1>2. IsFiniteSet({}) /\ Cardinality({}) = 0
  BY FS_EmptySet
<1>3. SumFunctionOnSet(CashOf(<<>>), {}) = 0
  BY SumOfNothing
<1>4. InitialCash * 0 = 0
  BY ServerAssumption
<1> QED BY <1>1, <1>2, <1>3, <1>4, FundedIf

\* The same clients with the same cash.
LEMMA SameCash ==
  ASSUME NEW f, NEW g, Funded(f), DOMAIN g = DOMAIN f,
         \A id \in DOMAIN f : g[id] \in Portfolio /\ g[id].cash = f[id].cash
  PROVE  Funded(g)
<1>1. /\ IsFiniteSet(DOMAIN f)
      /\ \A id \in DOMAIN f : CashOf(g)[id] = CashOf(f)[id]
      /\ SumFunctionOnSet(CashOf(f), DOMAIN f) = InitialCash * Cardinality(DOMAIN f)
  BY FundedIs DEF CashOf
<1>2. SumFunctionOnSet(CashOf(g), DOMAIN f) = SumFunctionOnSet(CashOf(f), DOMAIN f)
  BY <1>1, SumSame
<1> QED BY <1>1, <1>2, FundedIf

\* A client more, with the cash that every client is given.
LEMMA NewCash ==
  ASSUME NEW f, NEW g, Funded(f), NEW id, id \notin DOMAIN f, DOMAIN g = DOMAIN f \cup {id},
         \A k \in DOMAIN f : g[k] = f[k],
         g[id] \in Portfolio, g[id].cash = InitialCash
  PROVE  Funded(g)
<1> DEFINE D == DOMAIN f
           E == D \cup {id}
<1>1. /\ IsFiniteSet(D)
      /\ \A k \in D : CashOf(f)[k] \in Int /\ f[k] \in Portfolio /\ CashOf(f)[k] = f[k].cash
      /\ SumFunctionOnSet(CashOf(f), D) = InitialCash * Cardinality(D)
  BY FundedIs
<1>2. /\ \A k \in D : CashOf(g)[k] = CashOf(f)[k]
      /\ CashOf(g)[id] = InitialCash /\ InitialCash \in Nat
  BY <1>1, ServerAssumption DEF CashOf
<1>3. IsFiniteSet(E) /\ Cardinality(E) = Cardinality(D) + 1 /\ Cardinality(D) \in Nat
  BY <1>1, FS_AddElement, FS_CardinalityType
<1>4. \A k \in D \cup {id} : CashOf(g)[k] \in Int
  BY <1>1, <1>2
<1>5. SumFunctionOnSet(CashOf(g), D \cup {id}) = CashOf(g)[id] + SumFunctionOnSet(CashOf(g), D)
  <2> HIDE DEF D, E
  <2>1. id \notin D
    BY DEF D
  <2> QED BY <1>1, <1>4, <2>1, SumInsert
<1>6. SumFunctionOnSet(CashOf(g), D) = SumFunctionOnSet(CashOf(f), D)
  <2> HIDE DEF D, E
  <2> QED BY <1>1, <1>2, SumSame
<1>7. \A m, n \in Nat : m + m * n = m * (n + 1)
  OBVIOUS
<1>8. SumFunctionOnSet(CashOf(g), E) = InitialCash * Cardinality(E)
  <2>1. SumFunctionOnSet(CashOf(g), E) = InitialCash + InitialCash * Cardinality(D)
    BY <1>1, <1>2, <1>5, <1>6
  <2>2. InitialCash + InitialCash * Cardinality(D) = InitialCash * (Cardinality(D) + 1)
    BY <1>2, <1>3, <1>7
  <2> QED BY <1>3, <2>1, <2>2
<1>9. \A k \in E : g[k] \in Portfolio
  BY <1>1
<1> QED BY <1>3, <1>8, <1>9, FundedIf

\* One client pays another.
LEMMA MovedCash ==
  ASSUME NEW f, NEW g, Funded(f), DOMAIN g = DOMAIN f,
         NEW buyer \in DOMAIN f, NEW seller \in DOMAIN f, buyer # seller, NEW p \in Int,
         \A id \in DOMAIN f : g[id] \in Portfolio,
         \A id \in DOMAIN f \ {buyer, seller} : g[id].cash = f[id].cash,
         g[buyer].cash = f[buyer].cash - p, g[seller].cash = f[seller].cash + p
  PROVE  Funded(g)
<1> DEFINE D == DOMAIN f
           h == [CashOf(f) EXCEPT ![buyer] = @ - p]
<1>1. /\ IsFiniteSet(D) /\ DOMAIN CashOf(f) = D
      /\ \A k \in D : CashOf(f)[k] \in Int /\ CashOf(f)[k] = f[k].cash
      /\ SumFunctionOnSet(CashOf(f), D) = InitialCash * Cardinality(D)
  BY FundedIs
<1>2. \A k \in D : CashOf(g)[k] = g[k].cash
  BY DEF CashOf
<1>3. /\ h[buyer] = CashOf(f)[buyer] - p
      /\ \A k \in D : k # buyer => h[k] = CashOf(f)[k]
  BY <1>1
<1>4. \A k \in D : h[k] \in Int
  BY <1>1, <1>3
<1>5. /\ CashOf(g)[seller] = h[seller] + p
      /\ \A k \in D : k # seller => CashOf(g)[k] = h[k]
  BY <1>1, <1>2, <1>3
<1>6. \A k \in D : CashOf(g)[k] \in Int
  BY <1>4, <1>5
<1>7. buyer \in D /\ seller \in D
  OBVIOUS
<1> HIDE DEF D, h
<1>8. SumFunctionOnSet(h, D) = SumFunctionOnSet(CashOf(f), D) - CashOf(f)[buyer] + h[buyer]
  BY <1>1, <1>3, <1>4, <1>7, SumUpdate
<1>9. SumFunctionOnSet(CashOf(g), D) = SumFunctionOnSet(h, D) - h[seller] + CashOf(g)[seller]
  BY <1>1, <1>4, <1>5, <1>6, <1>7, SumUpdate
<1>10. SumFunctionOnSet(CashOf(f), D) \in Int /\ SumFunctionOnSet(h, D) \in Int
  BY <1>1, <1>4, SumType
<1>11. SumFunctionOnSet(CashOf(g), D) = SumFunctionOnSet(CashOf(f), D)
  <2>1. CashOf(f)[buyer] \in Int /\ h[seller] \in Int
    BY <1>1, <1>4, <1>7
  <2> QED BY <1>3, <1>5, <1>8, <1>9, <1>10, <2>1
<1> QED BY <1>1, <1>11, FundedIf DEF D

LEMMA CashInit == Init => CashInv
BY NothingFunded DEF Init, CashInv, Nothing

\* Trades move cash, registrations bring it, saves and restarts copy it.
LEMMA CashStep == ServerInv /\ CashInv /\ [Next]_vars => CashInv'
<1> SUFFICES ASSUME ServerInv, CashInv, [Next]_vars PROVE CashInv'
  OBVIOUS
<1>1. CASE UNCHANGED <<portfolios, fileVars>>
  BY <1>1 DEF CashInv, fileVars
<1>2. CASE Start
  BY <1>2 DEF Start, CashInv, fileVars
<1>3. CASE Die
  BY <1>3, NothingFunded DEF Die, CashInv, Nothing
<1>4. CASE Stop \/ FinalSave \/ SaverWakes \/ UNCHANGED vars
  BY <1>1, <1>4 DEF Stop, FinalSave, SaverWakes, vars, tableVars
<1>5. ASSUME NEW t \in Savers, Save(t)
      PROVE  CashInv'
  <2>1. portfolios' = portfolios
    BY <1>5 DEF Save, SaveAccounts, SavePortfolios, SavePrices, Rename, SaveFails, SaveStep,
                Afterwards, tableVars
  <2>2. /\ tmp'.portfolios \in {<<>>, portfolios, tmp.portfolios}
        /\ file'.portfolios \in {tmp.portfolios, file.portfolios}
    <3>1. CASE SaveAccounts(t)
      BY <3>1 DEF SaveAccounts, Nothing
    <3>2. CASE SavePortfolios(t) \/ SavePrices(t)
      BY <3>2 DEF SavePortfolios, SavePrices, ServerInv, WholeInv
    <3>3. CASE Rename(t) \/ SaveFails(t)
      BY <3>3 DEF Rename, SaveFails, Nothing, TheOldOne
    <3> QED BY <1>5, <3>1, <3>2, <3>3 DEF Save
  <2> QED BY <2>1, <2>2, NothingFunded DEF CashInv
<1>6. ASSUME NEW c \in Connections, Serve(c)
      PROVE  CashInv'
  <2>1. UNCHANGED fileVars
    BY <1>6, ServeFrame
  <2>2. ASSUME Funded(portfolios')
        PROVE  CashInv'
    BY <2>1, <2>2 DEF CashInv, fileVars
  <2>3. Funded(portfolios) /\ \A id \in DOMAIN portfolios : portfolios[id] \in Portfolio
    BY DEF CashInv, Funded
  <2>4. CASE Ensure(c)
    <3> DEFINE fresh == [Empty EXCEPT !.cash = InitialCash]
               id == job[c]
    <3>1. portfolios' = Emplaced(portfolios, id, fresh)
      BY <2>4 DEF Ensure
    <3>2. fresh \in Portfolio /\ fresh.cash = InitialCash
      BY ServerAssumption DEF Empty, Portfolio
    <3> HIDE DEF fresh
    <3>3. /\ DOMAIN portfolios' = DOMAIN portfolios \cup {id}
          /\ \A k \in DOMAIN portfolios : portfolios'[k] = portfolios[k]
          /\ id \notin DOMAIN portfolios => portfolios'[id] = fresh
      BY <3>1 DEF Emplaced
    <3> HIDE DEF id
    <3>4. CASE id \in DOMAIN portfolios
      <4>1. DOMAIN portfolios' = DOMAIN portfolios
        BY <3>3, <3>4
      <4> QED BY <2>2, <2>3, <3>3, <4>1, SameCash
    <3>5. CASE id \notin DOMAIN portfolios
      BY <2>2, <2>3, <3>2, <3>3, <3>5, NewCash
    <3> QED BY <3>4, <3>5
  <2>5. ASSUME NEW s \in Symbols, Grant(c, s)
        PROVE  CashInv'
    <3> DEFINE id == job[c]
    <3>1. portfolios' = [portfolios EXCEPT ![id].holdings[s] = @ + InitialHolding]
      BY <2>5 DEF Grant
    <3> HIDE DEF id
    <3>2. DOMAIN portfolios' = DOMAIN portfolios
      BY <3>1
    <3>3. ASSUME NEW k \in DOMAIN portfolios
          PROVE  portfolios'[k] \in Portfolio /\ portfolios'[k].cash = portfolios[k].cash
      <4>1. CASE k # id
        BY <2>3, <3>1, <4>1
      <4>2. CASE k = id
        <5>1. portfolios'[k] = [portfolios[k] EXCEPT !.holdings[s] = @ + InitialHolding]
          BY <3>1, <4>2
        <5>2. portfolios[k] \in Portfolio
          BY <2>3
        <5> QED BY <5>1, <5>2, ServerAssumption DEF Portfolio
      <4> QED BY <4>1, <4>2
    <3> QED BY <2>2, <2>3, <3>2, <3>3, SameCash
  <2>6. ASSUME NEW buyer \in Ids, NEW seller \in Ids, NEW s \in Symbols, NEW p \in Prices,
               Trade(c, buyer, seller, s, p)
        PROVE  CashInv'
    <3>1. /\ portfolios' =
               [portfolios EXCEPT ![buyer].cash = @ - p, ![buyer].holdings[s] = @ + 1,
                                  ![seller].cash = @ + p, ![seller].holdings[s] = @ - 1]
          /\ buyer \in DOMAIN portfolios /\ seller \in DOMAIN portfolios /\ buyer # seller
      BY <2>6 DEF Trade
    <3> DEFINE paid == [portfolios EXCEPT ![buyer].cash = @ - p]
               got == [paid EXCEPT ![buyer].holdings[s] = @ + 1]
               earned == [got EXCEPT ![seller].cash = @ + p]
               given == [earned EXCEPT ![seller].holdings[s] = @ - 1]
               Like(f, g, k) == /\ DOMAIN f = DOMAIN portfolios
                                /\ \A j \in DOMAIN portfolios : f[j] \in Portfolio
                                /\ \A j \in DOMAIN portfolios : j # k => f[j] = g[j]
    <3>2. portfolios' = given
      BY <3>1
    <3>3. p \in Int /\ \A r \in Portfolio : r.cash \in Int /\ r.holdings[s] \in Int
      BY ServerAssumption DEF Portfolio
    <3>4. Like(paid, portfolios, buyer) /\ paid[buyer].cash = portfolios[buyer].cash - p
      BY <2>3, <3>1, <3>3 DEF Portfolio
    <3> HIDE DEF paid
    <3>5. Like(got, paid, buyer) /\ got[buyer].cash = paid[buyer].cash
      BY <3>1, <3>3, <3>4 DEF Portfolio
    <3> HIDE DEF got
    <3>6. Like(earned, got, seller) /\ earned[seller].cash = got[seller].cash + p
      BY <3>1, <3>3, <3>5 DEF Portfolio
    <3> HIDE DEF earned
    <3>7. Like(given, earned, seller) /\ given[seller].cash = earned[seller].cash
      BY <3>1, <3>3, <3>6 DEF Portfolio
    <3> HIDE DEF given
    <3>8. /\ \A k \in DOMAIN portfolios \ {buyer, seller} : given[k].cash = portfolios[k].cash
          /\ given[buyer].cash = portfolios[buyer].cash - p
          /\ given[seller].cash = portfolios[seller].cash + p
          /\ DOMAIN given = DOMAIN portfolios
          /\ \A k \in DOMAIN portfolios : given[k] \in Portfolio
      BY <3>1, <3>4, <3>5, <3>6, <3>7
    <3> HIDE DEF Like
    <3>9. Funded(given)
      BY ONLY <2>3, <3>1, <3>3, <3>8, MovedCash
    <3> QED BY <2>2, <3>2, <3>9
  <2>7. CASE \/ Connect(c) \/ HangUp(c) \/ Registered(c) \/ SetPrice(c)
             \/ \E n \in Names : Register(c, n) \/ Login(c, n)
             \/ \E id \in Ids : Resume(c, id)
    <3>1. portfolios' = portfolios
      BY <2>7 DEF Connect, HangUp, Registered, SetPrice, Register, Login, Resume, tableVars
    <3> QED BY <2>2, <2>3, <3>1
  <2> QED BY <1>6, <2>4, <2>5, <2>6, <2>7 DEF Serve
<1> QED BY <1>2, <1>3, <1>4, <1>5, <1>6 DEF Next, Crash, Exit

\* Saves, trades, registrations, crashes and restarts, in any order, neither make cash
\* nor destroy it: in memory and in the file there is what the clients were given.
THEOREM NoMoneyFromNowhere == Spec => []CashIsBacked
<1>1. CashInv => CashIsBacked
  BY DEF CashInv, Funded, CashIsBacked
<1> QED BY ServerInvariance, CashInit, CashStep, <1>1, PTL DEF Spec

-----------------------------------------------------------------------------
\* The bus.

\* The number of events taken out of the queue.
Taken == published - Len(queue)

\* Those in the queue are the ones published last, in order.
QueueInv ==
  /\ Taken \in Nat
  /\ \A i \in DOMAIN queue : queue[i] = Taken + i

Dispatching == worker \in {"popped", "round", "counting"}

\* What the worker holds in each phase of its loop.
WorkerInv ==
  /\ Dispatching => event = Taken /\ event \in Events /\ inFlight = 1
  /\ ~Dispatching => inFlight = 0
  /\ worker # "round" => calling = NoOne /\ toCall = {}
  /\ toCall \subseteq subscribers
  /\ calling # NoOne => calling \in subscribers /\ calling \notin toCall
  /\ worker = "ended" => stopping /\ queue = <<>>
  /\ stopping => destroyer # "none"

\* The subscriber has still to be called with the event being dispatched.
Owed(s) == worker = "popped" \/ s \in toCall \/ s = calling

Reached(s) == IF Owed(s) THEN Taken - 1 ELSE Taken

ReceivedInv ==
  \A s \in subscribers :
    /\ since[s] <= published
    /\ Reached(s) - Len(received[s]) <= since[s]
    /\ \A i \in DOMAIN received[s] :
         received[s][i] = Reached(s) - Len(received[s]) + i

\* An id that was not given out has no past.
FreshInv == \A s \in Subscribers : since[s] = Never => received[s] = <<>>

MarkInv == \A t \in Threads : mark[t] <= published

BusInv ==
  /\ TypeOK
  /\ QueueInv
  /\ WorkerInv
  /\ ReceivedInv
  /\ FreshInv
  /\ MarkInv
  /\ InOrder

-----------------------------------------------------------------------------

LEMMA BusInitInv == BusInit => BusInv
<1> SUFFICES ASSUME BusInit PROVE BusInv
  OBVIOUS
<1> USE BusAssumption DEF BusInit
<1>1. Len(queue) = 0 /\ DOMAIN queue = {}
  OBVIOUS
<1>2. TypeOK
  <2>1. MaxEvents \in Nat /\ Never \in 0 .. Never /\ <<>> \in Seq(Events)
    BY DEF Never, Events
  <2>2. /\ since \in [Subscribers -> 0 .. Never]
        /\ received \in [Subscribers -> Seq(Events)]
        /\ mark \in [Threads -> 0 .. MaxEvents]
        /\ published \in 0 .. MaxEvents
    BY <2>1
  <2> QED
    BY <2>1, <2>2 DEF TypeOK, WorkerStates, ThreadStates, DestroyerStates, NoEvent, NoOne
<1>3. QueueInv /\ MarkInv
  BY <1>1 DEF QueueInv, Taken, MarkInv
<1>4. WorkerInv
  BY DEF WorkerInv, Dispatching
<1>5. ReceivedInv /\ FreshInv /\ InOrder
  BY DEF ReceivedInv, FreshInv, InOrder
<1> QED BY <1>2, <1>3, <1>4, <1>5 DEF BusInv

\* What the actions have in common: the facts of BusInv in the form the steps use.
LEMMA BusFacts ==
  ASSUME BusInv
  PROVE  /\ Len(queue) \in Nat /\ DOMAIN queue = 1 .. Len(queue)
         /\ published \in Nat /\ MaxEvents \in Nat /\ Taken \in Nat
         /\ (queue = <<>> <=> Len(queue) = 0)
         /\ \A s \in Subscribers :
              /\ Len(received[s]) \in Nat
              /\ DOMAIN received[s] = 1 .. Len(received[s])
              /\ received[s] \in Seq(Events)
         /\ \A s \in Subscribers : since[s] \in Nat
         /\ NoOne \notin Subscribers
<1> USE BusAssumption DEF BusInv
<1>1. queue \in Seq(Events) /\ published \in 0 .. MaxEvents /\ Taken \in Nat
  BY DEF TypeOK, QueueInv
<1>2. ASSUME NEW s \in Subscribers
      PROVE  received[s] \in Seq(Events) /\ since[s] \in Nat
  BY DEF TypeOK, Never
<1>3. Len(queue) \in Nat /\ DOMAIN queue = 1 .. Len(queue) /\ (queue = <<>> <=> Len(queue) = 0)
  BY <1>1, EmptySeq
<1>4. ASSUME NEW s \in Subscribers
      PROVE  Len(received[s]) \in Nat /\ DOMAIN received[s] = 1 .. Len(received[s])
  BY <1>2
<1>5. NoOne \notin Subscribers
  BY DEF NoOne
<1> QED BY <1>1, <1>2, <1>3, <1>4, <1>5

LEMMA PublishInv ==
  ASSUME BusInv, NEW t \in Threads, Publish(t)
  PROVE  BusInv'
<1> USE BusAssumption DEF BusInv
<1>1. /\ published < MaxEvents /\ published' = published + 1
      /\ queue' = Append(queue, published + 1)
      /\ pc' = [pc EXCEPT ![t] = "notify"]
      /\ destroyer = "none"
      /\ UNCHANGED <<stopping, inFlight, worker, event, toCall, calling, received,
                     subscribers, since, destroyer, mark>>
  BY DEF Publish, Usable, Go, Queued, roundVars, subscriptionVars
<1>2. published + 1 \in Events /\ published' \in 0 .. MaxEvents /\ queue \in Seq(Events)
  BY <1>1, BusFacts DEF Events, TypeOK
<1>3. /\ queue' \in Seq(Events)
      /\ Len(queue') = Len(queue) + 1
      /\ queue'[Len(queue) + 1] = published + 1
      /\ \A i \in 1 .. Len(queue) : queue'[i] = queue[i]
  BY <1>1, <1>2, AppendProperties
<1>4. Taken' = Taken
  BY <1>1, <1>3, BusFacts DEF Taken
<1>5. TypeOK'
  BY <1>1, <1>2, <1>3 DEF TypeOK, ThreadStates
<1>6. QueueInv'
  <2>1. DOMAIN queue' = 1 .. Len(queue) + 1
    BY <1>3
  <2>2. \A i \in 1 .. Len(queue) : queue'[i] = Taken + i
    BY <1>3, BusFacts DEF QueueInv
  <2>3. queue'[Len(queue) + 1] = Taken + (Len(queue) + 1)
    BY <1>3, BusFacts DEF Taken
  <2>4. \A i \in 1 .. Len(queue) + 1 : queue'[i] = Taken + i
    BY <2>2, <2>3, BusFacts
  <2> QED BY <2>1, <2>4, <1>4, BusFacts DEF QueueInv
<1>7. WorkerInv'
  BY <1>1, <1>4 DEF WorkerInv, Dispatching
<1>8. ReceivedInv'
  BY <1>1, <1>4, BusFacts, SMTT(30) DEF ReceivedInv, Reached, Owed, TypeOK
<1>9. FreshInv' /\ InOrder'
  BY <1>1 DEF FreshInv, InOrder
<1>10. MarkInv'
  BY <1>1, BusFacts DEF MarkInv, TypeOK
<1> QED BY <1>5, <1>6, <1>7, <1>8, <1>9, <1>10

\* Most steps publish, take out, deliver and subscribe nothing.
LEMMA FrameInv ==
  ASSUME BusInv,
         UNCHANGED <<queue, published, received, since, subscribers>>,
         \A s \in subscribers : Owed(s)' <=> Owed(s)
  PROVE  QueueInv' /\ ReceivedInv' /\ FreshInv' /\ InOrder'
<1>1. Taken' = Taken
  BY DEF Taken
<1>2. QueueInv'
  BY <1>1 DEF BusInv, QueueInv
<1>3. \A s \in subscribers : Reached(s)' = Reached(s)
  BY <1>1 DEF Reached
<1>4. ReceivedInv'
  BY <1>3 DEF BusInv, ReceivedInv
<1>5. FreshInv' /\ InOrder'
  BY DEF BusInv, FreshInv, InOrder
<1> QED BY <1>2, <1>4, <1>5

\* The steps of threads in a call, and of the destructor.
LEMMA CallInv ==
  ASSUME BusInv,
         \/ \E t \in Threads : NotifyWorker(t) \/ Flush(t) \/ FlushTest(t)
         \/ SpuriousWake \/ Destroy \/ DestroyNotify \/ Join
  PROVE  BusInv'
<1>1. /\ UNCHANGED <<queue, inFlight, published, event, toCall, calling, received,
                     subscribers, since>>
      /\ worker' = worker \/ worker' = Woken(worker)
      /\ stopping' = stopping \/ Destroy
  BY DEF NotifyWorker, Flush, FlushTest, SpuriousWake, Destroy, DestroyNotify, Join,
         queueVars, roundVars, subscriptionVars, Woken, Roused
<1>2. /\ worker \in WorkerStates /\ worker' \in WorkerStates
      /\ Dispatching' <=> Dispatching
      /\ worker' = "round" <=> worker = "round"
      /\ worker' = "popped" <=> worker = "popped"
      /\ worker' = "ended" <=> worker = "ended"
  BY <1>1 DEF BusInv, TypeOK, WorkerStates, Woken, Dispatching
<1>3. QueueInv' /\ ReceivedInv' /\ FreshInv' /\ InOrder'
  BY <1>1, <1>2, FrameInv DEF Owed
<1>4. /\ mark' \in [Threads -> 0 .. MaxEvents]
      /\ MarkInv'
  <2>1. \/ mark' = mark
        \/ \E t \in Threads : mark' = [mark EXCEPT ![t] = published]
        \/ \E t \in Threads : mark' = [mark EXCEPT ![t] = 0]
    BY DEF NotifyWorker, Flush, FlushTest, SpuriousWake, Destroy, DestroyNotify, Join
  <2>2. /\ mark \in [Threads -> 0 .. MaxEvents]
        /\ \A t \in Threads : mark[t] <= published
        /\ published \in 0 .. MaxEvents /\ 0 \in 0 .. MaxEvents
        /\ published' = published
    BY <1>1, BusFacts DEF BusInv, TypeOK, MarkInv
  <2>3. CASE mark' = mark
    BY <2>2, <2>3 DEF MarkInv
  <2>4. ASSUME NEW t \in Threads, NEW n \in 0 .. published, mark' = [mark EXCEPT ![t] = n]
        PROVE  mark' \in [Threads -> 0 .. MaxEvents] /\ MarkInv'
    <3>1. published \in Nat /\ MaxEvents \in Nat /\ published <= MaxEvents
      BY <2>2, BusFacts
    <3>2. n \in 0 .. MaxEvents /\ n <= published
      BY <3>1
    <3>3. mark' \in [Threads -> 0 .. MaxEvents]
      BY <2>2, <2>4, <3>2
    <3>4. \A u \in Threads : mark'[u] <= published
      BY <2>2, <2>4, <3>2
    <3> QED BY <2>2, <3>3, <3>4 DEF MarkInv
  <2>5. 0 \in 0 .. published /\ published \in 0 .. published
    BY <2>2
  <2> QED BY <2>1, <2>3, <2>4, <2>5
<1>5. /\ pc' \in [Threads -> ThreadStates]
      /\ destroyer' \in DestroyerStates
      /\ stopping' \in BOOLEAN
      /\ stopping' => destroyer' # "none"
      /\ stopping => stopping'
  <2> USE DEF Go, queueVars, BusInv, TypeOK, WorkerInv, ThreadStates, DestroyerStates
  <2>1. CASE \E t \in Threads : NotifyWorker(t) \/ Flush(t) \/ FlushTest(t)
    BY <2>1 DEF NotifyWorker, Flush, FlushTest
  <2>2. CASE SpuriousWake
    BY <2>2 DEF SpuriousWake
  <2>3. CASE Destroy \/ DestroyNotify \/ Join
    BY <2>3 DEF Destroy, DestroyNotify, Join
  <2> QED BY <2>1, <2>2, <2>3
<1>6. TypeOK'
  BY <1>1, <1>2, <1>4, <1>5 DEF BusInv, TypeOK
<1>7. Taken' = Taken
  BY <1>1 DEF Taken
<1>8. WorkerInv'
  BY <1>1, <1>2, <1>5, <1>7 DEF BusInv, WorkerInv
<1> QED BY <1>3, <1>4, <1>6, <1>8 DEF BusInv

\* The steps of the worker other than taking an event out and delivering it.
LEMMA WorkerInvStep ==
  ASSUME BusInv,
         \/ Sleep \/ End \/ BeginRound \/ EndRound \/ CountDown \/ NotifyFlushers
         \/ \E s \in Subscribers : BeginCallback(s)
  PROVE  BusInv'
<1>1. UNCHANGED <<queue, stopping, published, received, subscribers, since, destroyer,
                  mark>>
  BY DEF Sleep, End, BeginRound, EndRound, CountDown, NotifyFlushers, BeginCallback,
         queueVars, roundVars, subscriptionVars
<1>2. Taken' = Taken
  BY <1>1 DEF Taken
<1>3. \A s \in subscribers : Owed(s)' <=> Owed(s)
  <2> USE BusFacts DEF BusInv, WorkerInv, Owed, TypeOK, queueVars, roundVars
  <2>1. CASE Sleep \/ End \/ NotifyFlushers
    BY <2>1 DEF Sleep, End, NotifyFlushers
  <2>2. CASE BeginRound
    BY <2>2 DEF BeginRound, subscriptionVars
  <2>3. CASE EndRound \/ CountDown
    BY <2>3 DEF EndRound, CountDown
  <2>4. CASE \E s \in Subscribers : BeginCallback(s)
    BY <2>4 DEF BeginCallback
  <2> QED BY <2>1, <2>2, <2>3, <2>4
<1>4. QueueInv' /\ ReceivedInv' /\ FreshInv' /\ InOrder'
  BY <1>1, <1>3, FrameInv
<1>5. MarkInv'
  BY <1>1 DEF BusInv, MarkInv
<1>6. /\ worker' \in WorkerStates
      /\ inFlight' \in Nat
      /\ event' \in Events \cup {NoEvent}
      /\ toCall' \subseteq subscribers
      /\ calling' \in Subscribers \cup {NoOne}
      /\ pc' \in [Threads -> ThreadStates]
  <2> USE DEF BusInv, WorkerInv, TypeOK, WorkerStates, queueVars, roundVars
  <2>1. CASE Sleep \/ End
    BY <2>1 DEF Sleep, End
  <2>2. CASE NotifyFlushers
    BY <2>2 DEF NotifyFlushers, WokenAll, ThreadStates
  <2>3. CASE BeginRound \/ EndRound
    BY <2>3 DEF BeginRound, EndRound
  <2>4. CASE CountDown
    BY <2>4 DEF CountDown, Dispatching, NoEvent
  <2>5. CASE \E s \in Subscribers : BeginCallback(s)
    BY <2>5 DEF BeginCallback
  <2> QED BY <2>1, <2>2, <2>3, <2>4, <2>5
<1>7. TypeOK'
  BY <1>1, <1>6 DEF BusInv, TypeOK
<1>8. WorkerInv'
  BY <1>1, <1>2, BusFacts
     DEF Sleep, End, BeginRound, EndRound, CountDown, NotifyFlushers, BeginCallback,
         queueVars, roundVars, BusInv, TypeOK, WorkerInv, Dispatching, MayEnd
<1> QED BY <1>4, <1>5, <1>7, <1>8 DEF BusInv

LEMMA PopInv ==
  ASSUME BusInv, Pop
  PROVE  BusInv'
<1>1. /\ worker = "awake" /\ worker' = "popped"
      /\ queue # <<>> /\ event' = Head(queue) /\ queue' = Tail(queue)
      /\ inFlight' = inFlight + 1
      /\ UNCHANGED <<stopping, published, toCall, calling, received, subscribers, since,
                     pc, destroyer, mark>>
  BY DEF Pop, Counted, subscriptionVars
<1>2. /\ queue \in Seq(Events) /\ Len(queue) >= 1
      /\ Head(queue) = queue[1] /\ queue[1] \in Events
      /\ queue' \in Seq(Events)
      /\ Len(queue') = Len(queue) - 1
      /\ \A i \in 1 .. Len(queue) - 1 : queue'[i] = queue[i + 1]
  BY <1>1, BusFacts, HeadTailProperties DEF BusInv, TypeOK
<1>3. Taken' = Taken + 1 /\ Taken' \in Nat
  BY <1>1, <1>2, BusFacts DEF Taken
<1>4. queue[1] = Taken + 1
  BY <1>2, BusFacts DEF BusInv, QueueInv
<1>5. inFlight = 0 /\ calling = NoOne /\ toCall = {}
  BY <1>1 DEF BusInv, WorkerInv, Dispatching
<1>6. TypeOK'
  BY <1>1, <1>2, <1>5 DEF BusInv, TypeOK, WorkerStates
<1>7. QueueInv'
  <2>1. DOMAIN queue' = 1 .. Len(queue) - 1
    BY <1>2
  <2>2. \A i \in 1 .. Len(queue) - 1 : queue'[i] = Taken + (i + 1)
    <3> SUFFICES ASSUME NEW i \in 1 .. Len(queue) - 1 PROVE queue'[i] = Taken + (i + 1)
      OBVIOUS
    <3>1. i + 1 \in DOMAIN queue
      BY <1>2, BusFacts
    <3>2. queue[i + 1] = Taken + (i + 1)
      BY <3>1 DEF BusInv, QueueInv
    <3> QED BY <1>2, <3>2
  <2> DEFINE n == Len(queue) - 1
             before == Taken
             now == Taken'
  <2>3. now = before + 1 /\ before \in Nat /\ now \in Nat /\ n \in Int
    BY <1>3, BusFacts
  <2> HIDE DEF n, before, now
  <2>4. ASSUME NEW i \in DOMAIN queue' PROVE queue'[i] = now + i
    <3>1. i \in 1 .. n
      BY <2>1 DEF n
    <3>2. queue'[i] = before + (i + 1)
      BY <2>2, <3>1 DEF n, before
    <3> QED BY <2>3, <3>1, <3>2
  <2> QED BY <2>3, <2>4 DEF QueueInv, now
<1>8. WorkerInv'
  BY <1>1, <1>2, <1>3, <1>4, <1>5 DEF BusInv, WorkerInv, Dispatching
<1>9. \A s \in subscribers : Reached(s)' = Reached(s)
  <2>1. ASSUME NEW s \in subscribers PROVE ~Owed(s) /\ Owed(s)'
    BY <1>1, <1>5, BusFacts DEF Owed, BusInv, TypeOK
  <2> QED BY <2>1, <1>3, BusFacts DEF Reached
<1>10. ReceivedInv'
  BY <1>1, <1>9 DEF BusInv, ReceivedInv
<1>11. FreshInv' /\ InOrder' /\ MarkInv'
  BY <1>1 DEF BusInv, FreshInv, InOrder, MarkInv
<1> QED BY <1>6, <1>7, <1>8, <1>10, <1>11 DEF BusInv

\* One more event, the one after the last: what was received stays consecutive.
LEMMA EndCallbackInv ==
  ASSUME BusInv, EndCallback
  PROVE  BusInv'
<1> DEFINE c == calling
           r == received[c]
<1>1. /\ c # NoOne /\ calling' = NoOne
      /\ received' = [received EXCEPT ![c] = Append(r, event)]
      /\ UNCHANGED <<queue, stopping, inFlight, published, worker, event, toCall,
                     subscribers, since, pc, destroyer, mark>>
  BY DEF EndCallback, queueVars, subscriptionVars
<1>2. /\ c \in subscribers /\ c \in Subscribers /\ c \notin toCall
      /\ worker = "round" /\ event = Taken /\ event \in Events
  <2>1. c \in subscribers /\ c \notin toCall /\ worker = "round" /\ Dispatching
    BY <1>1 DEF BusInv, WorkerInv, Dispatching
  <2>2. event = Taken /\ event \in Events
    BY <2>1 DEF BusInv, WorkerInv
  <2>3. subscribers \subseteq Subscribers
    BY DEF BusInv, TypeOK
  <2> QED BY <2>1, <2>2, <2>3
<1> HIDE DEF c
<1>3. /\ Taken' = Taken
      /\ Reached(c) = Taken - 1
      /\ \A s \in subscribers : s = c => Reached(s)' = Taken
      /\ \A s \in subscribers \ {c} : Reached(s)' = Reached(s)
  <2>1. Taken' = Taken
    BY <1>1 DEF Taken
  <2>2. Owed(c)
    BY DEF Owed, c
  <2>3. \A s \in subscribers : Owed(s)' <=> (Owed(s) /\ s # c)
    <3>1. subscribers \subseteq Subscribers /\ NoOne \notin Subscribers
      BY BusFacts DEF BusInv, TypeOK
    <3> QED BY <1>1, <1>2, <3>1 DEF Owed, c
  <2> QED BY <1>2, <2>1, <2>2, <2>3 DEF Reached
<1>4. /\ received'[c] \in Seq(Events)
      /\ Len(received'[c]) = Len(r) + 1
      /\ received'[c][Len(r) + 1] = Taken
      /\ \A i \in 1 .. Len(r) : received'[c][i] = r[i]
      /\ \A s \in Subscribers \ {c} : received'[s] = received[s]
  <2>1. received'[c] = Append(r, event)
    BY <1>1, <1>2 DEF BusInv, TypeOK
  <2> QED BY <2>1, <1>1, <1>2, BusFacts, AppendProperties
<1>5. TypeOK'
  BY <1>1, <1>2, <1>4 DEF BusInv, TypeOK
<1>6. WorkerInv'
  BY <1>1, <1>2, <1>3 DEF BusInv, WorkerInv, Dispatching
<1>7. \A i \in 1 .. Len(r) + 1 : received'[c][i] = Taken - (Len(r) + 1) + i
  <2>1. Len(r) \in Nat /\ DOMAIN r = 1 .. Len(r) /\ Taken \in Nat
    BY <1>2, BusFacts
  <2>2. \A i \in 1 .. Len(r) : r[i] = (Taken - 1) - Len(r) + i
    BY <1>2, <1>3, <2>1 DEF BusInv, ReceivedInv
  <2>3. ASSUME NEW i \in 1 .. Len(r)
        PROVE  received'[c][i] = Taken - (Len(r) + 1) + i
    <3>1. received'[c][i] = r[i]
      BY <1>4
    <3>2. r[i] = (Taken - 1) - Len(r) + i
      BY <2>2
    <3> HIDE DEF r
    <3> QED BY <3>1, <3>2, <2>1
  <2>4. received'[c][Len(r) + 1] = Taken - (Len(r) + 1) + (Len(r) + 1)
    <3>1. received'[c][Len(r) + 1] = Taken
      BY <1>4
    <3> HIDE DEF r
    <3> QED BY <3>1, <2>1
  <2>5. \A i \in 1 .. Len(r) + 1 : i \in 1 .. Len(r) \/ i = Len(r) + 1
    <3> HIDE DEF r
    <3> QED BY <2>1
  <2> HIDE DEF r
  <2> QED BY <2>3, <2>4, <2>5
<1>8. ReceivedInv'
  <2>1. /\ since[c] <= published
        /\ Taken - (Len(r) + 1) <= since[c]
    <3>1. since[c] <= published /\ (Taken - 1) - Len(r) <= since[c]
      BY <1>2, <1>3 DEF BusInv, ReceivedInv
    <3> QED BY <3>1, <1>2, BusFacts
  <2>2. DOMAIN received'[c] = 1 .. Len(r) + 1
    BY <1>4
  <2>3. ASSUME NEW s \in subscribers, s = c
        PROVE  /\ since'[s] <= published'
               /\ Reached(s)' - Len(received'[s]) <= since'[s]
               /\ \A i \in DOMAIN received'[s] :
                    received'[s][i] = Reached(s)' - Len(received'[s]) + i
    <3>1. Reached(s)' = Taken
      BY <1>3, <2>3
    <3> QED BY <1>1, <1>4, <1>7, <2>1, <2>2, <2>3, <3>1
  <2>4. ASSUME NEW s \in subscribers, s # c
        PROVE  /\ since'[s] <= published'
               /\ Reached(s)' - Len(received'[s]) <= since'[s]
               /\ \A i \in DOMAIN received'[s] :
                    received'[s][i] = Reached(s)' - Len(received'[s]) + i
    <3>1. s \in Subscribers
      BY DEF BusInv, TypeOK
    <3>2. Reached(s)' = Reached(s) /\ received'[s] = received[s]
      BY <1>3, <1>4, <2>4, <3>1
    <3> QED BY <1>1, <3>2 DEF BusInv, ReceivedInv
  <2> QED BY <2>3, <2>4, <1>1 DEF ReceivedInv
<1>9. InOrder'
  <2>1. Len(r) \in Nat /\ Taken \in Nat
    BY <1>2, BusFacts
  <2>2. received'[c][1] = Taken - Len(r)
    <3> HIDE DEF r
    <3> QED BY <1>7, <2>1
  <2>3. \A i \in DOMAIN received'[c] : received'[c][i] = received'[c][1] + i - 1
    <3>1. DOMAIN received'[c] = 1 .. Len(r) + 1
      BY <1>4
    <3> HIDE DEF r
    <3> QED BY <3>1, <1>7, <2>1, <2>2
  <2> QED BY <2>3, <1>4 DEF BusInv, InOrder
<1>10. FreshInv'
  <2>1. since[c] # Never
    <3>1. since[c] <= published /\ published \in 0 .. MaxEvents
      BY <1>2 DEF BusInv, ReceivedInv, TypeOK
    <3> QED BY <3>1, <1>2, BusFacts DEF Never
  <2> QED BY <1>1, <1>2, <1>4, <2>1 DEF BusInv, FreshInv
<1>11. QueueInv' /\ MarkInv'
  BY <1>1, <1>3 DEF BusInv, QueueInv, MarkInv
<1> QED BY <1>5, <1>6, <1>8, <1>9, <1>10, <1>11 DEF BusInv

\* Subscriptions come and go between rounds only.
LEMMA SubscriptionInv ==
  ASSUME BusInv, NEW t \in Threads, NEW s \in Subscribers,
         Subscribe(t, s) \/ Unsubscribe(t, s)
  PROVE  BusInv'
<1>1. /\ worker # "round" /\ destroyer = "none"
      /\ UNCHANGED <<queue, stopping, inFlight, published, worker, event, toCall, calling,
                     received, pc, destroyer, mark>>
  BY DEF Subscribe, Unsubscribe, Usable, SubscribersFree, queueVars, roundVars
<1>2. Taken' = Taken /\ (\A u \in Subscribers : Reached(u)' = Reached(u))
  BY <1>1 DEF Taken, Reached, Owed
<1>3. QueueInv' /\ InOrder' /\ MarkInv'
  BY <1>1, <1>2 DEF BusInv, QueueInv, InOrder, MarkInv
<1>4. WorkerInv'
  BY <1>1, <1>2 DEF BusInv, WorkerInv, Dispatching
<1>5. CASE Unsubscribe(t, s)
  <2>1. subscribers' = subscribers \ {s} /\ since' = since
    BY <1>5 DEF Unsubscribe
  <2>2. TypeOK' /\ FreshInv'
    BY <1>1, <2>1 DEF BusInv, TypeOK, FreshInv
  <2>3. ReceivedInv'
    BY <1>1, <1>2, <2>1 DEF BusInv, ReceivedInv, TypeOK
  <2> QED BY <1>3, <1>4, <2>2, <2>3 DEF BusInv
<1>6. CASE Subscribe(t, s)
  <2>1. /\ since[s] = Never /\ subscribers' = subscribers \cup {s}
        /\ since' = [since EXCEPT ![s] = published]
    BY <1>6 DEF Subscribe
  <2>2. received[s] = <<>> /\ Len(received[s]) = 0
    BY <2>1 DEF BusInv, FreshInv
  <2>3. since'[s] = published /\ (\A u \in Subscribers \ {s} : since'[u] = since[u])
    BY <2>1 DEF BusInv, TypeOK
  <2>4. TypeOK' /\ FreshInv'
    BY <1>1, <2>1, <2>2, <2>3, BusFacts DEF BusInv, TypeOK, FreshInv, Never
  <2>5. Reached(s) <= published
    BY BusFacts DEF Reached, Taken
  <2>6. /\ since'[s] <= published'
        /\ Reached(s)' - Len(received'[s]) <= since'[s]
        /\ \A i \in DOMAIN received'[s] :
             received'[s][i] = Reached(s)' - Len(received'[s]) + i
    BY <1>1, <1>2, <2>2, <2>3, <2>5, BusFacts DEF Reached
  <2>7. ASSUME NEW u \in subscribers \ {s}
        PROVE  /\ since'[u] <= published'
               /\ Reached(u)' - Len(received'[u]) <= since'[u]
               /\ \A i \in DOMAIN received'[u] :
                    received'[u][i] = Reached(u)' - Len(received'[u]) + i
    BY <1>1, <1>2, <2>3 DEF BusInv, ReceivedInv, TypeOK
  <2>8. ReceivedInv'
    BY <2>1, <2>6, <2>7 DEF ReceivedInv
  <2> QED BY <1>3, <1>4, <2>4, <2>8 DEF BusInv
<1> QED BY <1>5, <1>6

-----------------------------------------------------------------------------

LEMMA BusStepInv == BusInv /\ [BusNext]_busVars => BusInv'
<1> SUFFICES ASSUME BusInv, [BusNext]_busVars PROVE BusInv'
  OBVIOUS
<1>1. CASE \E t \in Threads : Publish(t)
  BY <1>1, PublishInv
<1>2. CASE \/ \E t \in Threads : NotifyWorker(t) \/ Flush(t) \/ FlushTest(t)
           \/ SpuriousWake \/ Destroy \/ DestroyNotify \/ Join
  BY <1>2, CallInv
<1>3. CASE \E t \in Threads, s \in Subscribers : Subscribe(t, s) \/ Unsubscribe(t, s)
  BY <1>3, SubscriptionInv
<1>4. CASE \/ Sleep \/ End \/ BeginRound \/ EndRound \/ CountDown \/ NotifyFlushers
           \/ \E s \in Subscribers : BeginCallback(s)
  BY <1>4, WorkerInvStep
<1>5. CASE Pop
  BY <1>5, PopInv
<1>6. CASE EndCallback
  BY <1>6, EndCallbackInv
<1>7. CASE UNCHANGED busVars
  <2>1. QueueInv' /\ WorkerInv' /\ MarkInv' /\ FreshInv' /\ InOrder'
    BY <1>7 DEF busVars, BusInv, QueueInv, Taken, WorkerInv, Dispatching, MarkInv, FreshInv,
                InOrder
  <2>2. ReceivedInv'
    BY <1>7 DEF busVars, BusInv, ReceivedInv, Reached, Owed, Taken
  <2>3. TypeOK'
    BY <1>7 DEF busVars, BusInv, TypeOK
  <2> QED BY <2>1, <2>2, <2>3 DEF BusInv
<1> QED BY <1>1, <1>2, <1>3, <1>4, <1>5, <1>6, <1>7 DEF BusNext, WorkerStep

\* The strengthening holds in every reachable state.
THEOREM BusInvariance == BusSpec => []BusInv
<1>1. BusInit => BusInv
  BY BusInitInv
<1>2. BusInv /\ [BusNext]_busVars => BusInv'
  BY BusStepInv
<1> QED BY <1>1, <1>2, PTL DEF BusSpec

\* The bus keeps its types: in particular in_flight_, an unsigned counter, is
\* never decremented below zero.
THEOREM BusTypeCorrect == BusSpec => []TypeOK
<1>1. BusInv => TypeOK
  BY DEF BusInv
<1> QED BY <1>1, BusInvariance, PTL

\* Each subscriber is called with consecutive events in the order of publication.
THEOREM DeliveredInOrder == BusSpec => []InOrder
<1>1. BusInv => InOrder
  BY DEF BusInv
<1> QED BY <1>1, BusInvariance, PTL

\* No callback runs for a subscriber that unsubscribe() has removed.
THEOREM NoCallAfterUnsubscribe == BusSpec => []NeverCalledWhenGone
<1>1. BusInv => NeverCalledWhenGone
  BY DEF BusInv, WorkerInv, NeverCalledWhenGone
<1> QED BY <1>1, BusInvariance, PTL

\* A subscriber to whom nothing is owed has had every event taken out of the
\* queue since it subscribed.
LEMMA GotAll ==
  ASSUME BusInv, NEW s \in subscribers, ~Owed(s),
         NEW e \in since[s] + 1 .. Taken
  PROVE  Got(s, e)
<1> DEFINE n == Len(received[s])
           i == e - (Taken - n)
<1>1. s \in Subscribers
  BY DEF BusInv, TypeOK
<1>2. n \in Nat /\ DOMAIN received[s] = 1 .. n /\ Taken \in Nat /\ since[s] \in Nat
  BY <1>1, BusFacts
<1>3. Reached(s) = Taken
  BY DEF Reached
<1>4. Taken - n <= since[s]
  BY <1>3 DEF BusInv, ReceivedInv
<1>5. \A k \in 1 .. n : received[s][k] = Taken - n + k
  BY <1>2, <1>3 DEF BusInv, ReceivedInv
<1>6. i \in 1 .. n /\ Taken - n + i = e
  <2> HIDE DEF n
  <2> QED BY <1>2, <1>4 DEF i
<1>7. received[s][i] = e
  <2> HIDE DEF n, i
  <2> QED BY <1>5, <1>6
<1> QED BY <1>6, <1>7 DEF Got, Contains

\* When the worker has ended nothing is left to deliver.
THEOREM DestroyedDrained == BusSpec => []DestroyedEmpty
<1>1. BusInv => DestroyedEmpty
  <2> SUFFICES ASSUME BusInv, worker = "ended", NEW s \in subscribers,
                      NEW e \in since[s] + 1 .. published
               PROVE  Got(s, e)
    BY DEF DestroyedEmpty
  <2>1. Taken = published
    BY BusFacts DEF BusInv, WorkerInv, Taken
  <2>2. s \in Subscribers /\ NoOne \notin Subscribers
    BY BusFacts DEF BusInv, TypeOK
  <2>3. ~Owed(s)
    BY <2>2 DEF BusInv, WorkerInv, Owed
  <2> QED BY <2>1, <2>3, GotAll
<1> QED BY <1>1, BusInvariance, PTL

\* flush() returns only when what was published before it has been delivered.
THEOREM FlushKeepsPromise == BusSpec => FlushDelivers
<1>1. BusInv /\ [BusNext]_busVars =>
        [\A t \in Threads : pc[t] = "flush" /\ pc'[t] = "idle" =>
           \A s \in subscribers : \A e \in since[s] + 1 .. mark[t] : Got(s, e)]_busVars
  <2> SUFFICES ASSUME BusInv, BusNext, NEW t \in Threads, pc[t] = "flush", pc'[t] = "idle",
                      NEW s \in subscribers, NEW e \in since[s] + 1 .. mark[t]
               PROVE  Got(s, e)
    OBVIOUS
  <2>1. FlushTest(t)
    BY DEF BusNext, WorkerStep, Publish, NotifyWorker, Flush, FlushTest, Go, Usable, Subscribe,
           Unsubscribe, Sleep, End, Pop, BeginRound, BeginCallback, EndCallback, EndRound,
           CountDown, NotifyFlushers, WokenAll, SpuriousWake, Destroy, DestroyNotify, Join,
           BusInv, TypeOK
  <2>2. queue = <<>> /\ inFlight = 0
    BY <2>1 DEF FlushTest, Delivered, Go, BusInv, TypeOK
  <2>3. Taken = published
    BY <2>2, BusFacts DEF Taken
  <2>4. s \in Subscribers /\ NoOne \notin Subscribers
    BY BusFacts DEF BusInv, TypeOK
  <2>5. ~Owed(s)
    BY <2>2, <2>4 DEF BusInv, WorkerInv, Dispatching, Owed
  <2>6. e \in since[s] + 1 .. Taken
    <3>1. mark[t] <= published /\ mark[t] \in 0 .. MaxEvents /\ since[s] \in Nat
      BY <2>4, BusFacts DEF BusInv, MarkInv, TypeOK
    <3> QED BY <3>1, <2>3, BusFacts
  <2> QED BY <2>5, <2>6, GotAll
<1> QED BY <1>1, BusInvariance, PTL DEF BusSpec, FlushDelivers

-----------------------------------------------------------------------------
\* NetworkMaker

\* The command that is out, if the bot waits for its answer.
Waited == IF awaiting THEN 1 ELSE 0

\* What is under way, in the order it was sent: as many frames as receives have
\* timed out, and the one waited for.
WireInv ==
  /\ linked => Len(toClient) + Len(toServer) = timeouts + Waited
  /\ \A k \in DOMAIN toClient : toClient[k].to + timeouts + Waited = sent + k
  /\ linked => \A k \in DOMAIN toServer :
                 toServer[k].number + timeouts + Waited = sent + Len(toClient) + k

\* A quote is cancelled only if there is one, the buy first, and replaced only when
\* both are forgotten.
StageInv ==
  /\ stage = "cancel" => quotes[leg] # 0 /\ (leg = "SELL" => quotes["BUY"] = 0)
  /\ stage = "order" => /\ quoteSymbol = tickSymbol
                        /\ quotes[leg] = 0 /\ (leg = "BUY" => quotes["SELL"] = 0)

Punctual == timeouts = 0 /\ linked

\* The command is of the bot's stage, and names what the bot remembers.
AsksFor(c) ==
  /\ c.kind = "CANCEL" => stage = "cancel" /\ c.id = quotes[leg] /\ c.symbol = quoteSymbol
  /\ c.kind = "ORDER" => stage = "order" /\ c.symbol = tickSymbol
  /\ stage = "cancel" => c.kind = "CANCEL"

\* So is its answer.
Tells(reply) ==
  /\ stage # "order" => reply.id = 0
  /\ stage = "cancel" => \A o \in resting : o.id # quotes[leg]

Remembered(o) ==
  \/ \E side \in Legs : quotes[side] = o.id /\ quoteSymbol = o.symbol
  \/ toClient # <<>> /\ toClient[1].id = o.id /\ tickSymbol = o.symbol

MemoryInv ==
  Punctual => /\ toServer # <<>> => AsksFor(toServer[1])
              /\ toClient # <<>> => Tells(toClient[1])
              /\ \A o \in resting : Remembered(o)

MakerInv == MakerTypeOK /\ WireInv /\ StageInv /\ MemoryInv

-----------------------------------------------------------------------------

LEMMA InitMaker == MakerInit => MakerInv
<1> SUFFICES ASSUME MakerInit PROVE MakerInv
  OBVIOUS
<1>1. MakerTypeOK
  <2>1. 0 \in 0 .. MaxTicks /\ 0 \in Nat /\ 1 \in Nat \ {0}
    BY MakerAssumption
  <2>2. <<>> \in Seq(Commands) /\ <<>> \in Seq(Replies)
    OBVIOUS
  <2>3. quotes \in [Legs -> Nat]
    BY DEF MakerInit
  <2> QED BY <2>1, <2>2, <2>3 DEF MakerInit, MakerTypeOK, Legs
<1>2. WireInv
  BY DEF MakerInit, WireInv, Waited
<1>3. StageInv /\ MemoryInv
  BY DEF MakerInit, StageInv, MemoryInv
<1> QED BY <1>1, <1>2, <1>3 DEF MakerInv

\* The head and the tail of a sequence, element by element.
LEMMA TailIs ==
  ASSUME NEW S, NEW s \in Seq(S), s # <<>>
  PROVE  /\ Len(s) \in Nat \ {0} /\ Head(s) = s[1] /\ s[1] \in S
         /\ Tail(s) \in Seq(S) /\ Len(Tail(s)) = Len(s) - 1
         /\ DOMAIN Tail(s) = 1 .. Len(s) - 1
         /\ \A k \in 1 .. Len(s) - 1 : Tail(s)[k] = s[k + 1]
  OBVIOUS

LEMMA ElementIs ==
  ASSUME NEW S, NEW s \in Seq(S), NEW k \in 1 .. Len(s)
  PROVE  s[k] \in S
  OBVIOUS

LEMMA FramesAre ==
  ASSUME MakerTypeOK
  PROVE  /\ Len(toServer) \in Nat /\ Len(toClient) \in Nat
         /\ DOMAIN toServer = 1 .. Len(toServer) /\ DOMAIN toClient = 1 .. Len(toClient)
         /\ (Len(toClient) = 0 => toClient = <<>>) /\ (Len(toServer) = 0 => toServer = <<>>)
         /\ \A k \in 1 .. Len(toClient) : toClient[k] \in Replies /\ toClient[k].to \in Nat
         /\ \A k \in 1 .. Len(toServer) : toServer[k] \in Commands /\ toServer[k].number \in Nat
<1>1. toServer \in Seq(Commands) /\ toClient \in Seq(Replies)
  BY DEF MakerTypeOK
<1>2. /\ \A k \in 1 .. Len(toClient) : toClient[k] \in Replies
      /\ \A k \in 1 .. Len(toServer) : toServer[k] \in Commands
  BY <1>1, ElementIs
<1>3. (\A e \in Replies : e.to \in Nat) /\ (\A e \in Commands : e.number \in Nat)
  BY DEF Replies, Commands
<1> QED BY <1>1, <1>2, <1>3

LEMMA AppendIs ==
  ASSUME NEW S, NEW s \in Seq(S), NEW e \in S
  PROVE  /\ Append(s, e) \in Seq(S) /\ Len(Append(s, e)) = Len(s) + 1 /\ Len(s) \in Nat
         /\ DOMAIN Append(s, e) = 1 .. Len(s) + 1
         /\ \A k \in 1 .. Len(s) : Append(s, e)[k] = s[k]
         /\ Append(s, e)[Len(s) + 1] = e
  OBVIOUS

\* A command that goes out is the last of those under way.
LEMMA SendKeepsWire ==
  ASSUME MakerTypeOK, WireInv, NEW kind \in {"AUTH", "MARKET", "CANCEL", "ORDER", "QUIT"},
         NEW symbol \in BotSymbols \cup {NoSymbol}, NEW id \in Nat,
         SendFramed(kind, symbol, id)
  PROVE  /\ WireInv'
         /\ awaiting' \in BOOLEAN /\ linked' = linked /\ timeouts' = timeouts
         /\ toServer' \in Seq(Commands) /\ toClient' = toClient
         /\ sent' \in Nat /\ resting' = resting /\ nextOrder' = nextOrder
         /\ Punctual => toServer = <<>> /\ toClient = <<>>
         /\ Punctual => toServer'[1].kind = kind /\ toServer'[1].symbol = symbol
                          /\ toServer'[1].id = id
<1> DEFINE c == [number |-> sent + 1, kind |-> kind, symbol |-> symbol, id |-> id]
<1>1. /\ ~awaiting /\ awaiting' /\ sent' = sent + 1 /\ linked' = linked
      /\ toClient' = toClient /\ timeouts' = timeouts
      /\ toServer' = IF linked THEN Append(toServer, c) ELSE toServer
      /\ resting' = resting /\ nextOrder' = nextOrder
  BY DEF SendFramed, bookVars, MakerTypeOK
<1>2. /\ toServer \in Seq(Commands) /\ toClient \in Seq(Replies) /\ c \in Commands
      /\ sent \in Nat /\ timeouts \in Nat /\ awaiting \in BOOLEAN /\ linked \in BOOLEAN
  BY DEF MakerTypeOK, Commands
<1>3. /\ Append(toServer, c) \in Seq(Commands) /\ Len(Append(toServer, c)) = Len(toServer) + 1
      /\ Len(toServer) \in Nat
      /\ DOMAIN Append(toServer, c) = 1 .. Len(toServer) + 1
      /\ \A k \in 1 .. Len(toServer) : Append(toServer, c)[k] = toServer[k]
      /\ Append(toServer, c)[Len(toServer) + 1] = c
  BY <1>2, AppendIs
<1>4. Len(toClient) \in Nat /\ DOMAIN toClient = 1 .. Len(toClient)
      /\ DOMAIN toServer = 1 .. Len(toServer)
      /\ (Len(toClient) = 0 => toClient = <<>>) /\ (Len(toServer) = 0 => toServer = <<>>)
  BY FramesAre
<1>5. \A k \in DOMAIN toClient : toClient[k].to \in Nat
  BY FramesAre
<1>6. \A k \in DOMAIN toServer : toServer[k].number \in Nat
  BY FramesAre
<1>7. Waited = 0 /\ Waited' = 1
  BY <1>1 DEF Waited
<1>8. c.number = sent + 1
  OBVIOUS
<1> HIDE DEF c
<1>9. linked => Len(toClient) + Len(toServer) = timeouts
  BY <1>2, <1>4, <1>7, <1>3 DEF WireInv
<1>10. linked' => Len(toClient') + Len(toServer') = timeouts' + Waited'
  BY <1>1, <1>2, <1>3, <1>4, <1>7, <1>9
<1>11. \A k \in DOMAIN toClient' : toClient'[k].to + timeouts' + Waited' = sent' + k
  <2>1. \A k \in DOMAIN toClient : toClient[k].to + timeouts + 0 = sent + k
    BY <1>7 DEF WireInv
  <2> QED BY <2>1, <1>1, <1>2, <1>4, <1>5, <1>7
<1>12. linked' => \A k \in DOMAIN toServer' :
         toServer'[k].number + timeouts' + Waited' = sent' + Len(toClient') + k
  <2> SUFFICES ASSUME linked, NEW k \in 1 .. Len(toServer) + 1
               PROVE  toServer'[k].number + timeouts + 1 = sent + 1 + Len(toClient) + k
    BY <1>1, <1>3, <1>7
  <2>1. toServer' = Append(toServer, c)
    BY <1>1
  <2>2. CASE k = Len(toServer) + 1
    <3>1. toServer'[k].number = sent + 1
      BY <2>1, <2>2, <1>3, <1>8
    <3> QED BY <3>1, <2>2, <1>2, <1>3, <1>4, <1>9
  <2>3. CASE k \in 1 .. Len(toServer)
    <3>1. toServer'[k].number = toServer[k].number /\ toServer[k].number \in Nat
      BY <2>1, <2>3, <1>3, <1>4, <1>6
    <3>2. toServer[k].number + timeouts + 0 = sent + Len(toClient) + k
      BY <2>3, <1>4, <1>7 DEF WireInv
    <3> QED BY <3>1, <3>2, <1>2, <1>4
  <2> QED BY <2>2, <2>3, <1>3
<1>13. Punctual => toServer = <<>> /\ toClient = <<>>
  BY <1>9, <1>3, <1>4 DEF Punctual
<1>14. Punctual => toServer'[1] = c
  BY <1>13, <1>1, <1>3 DEF Punctual
<1> QED BY <1>1, <1>2, <1>3, <1>10, <1>11, <1>12, <1>13, <1>14 DEF WireInv, c

\* A receive takes the first answer, or lets one more go unread.
LEMMA RecvKeepsWire ==
  ASSUME MakerTypeOK, WireInv, NEW reply \in Readable, RecvFramed(reply)
  PROVE  /\ WireInv'
         /\ awaiting' \in BOOLEAN /\ linked' = linked /\ timeouts' \in Nat
         /\ toServer' = toServer /\ toClient' \in Seq(Replies)
         /\ sent' = sent /\ resting' = resting /\ nextOrder' = nextOrder
         /\ reply \in Replies
         /\ Punctual' => /\ Punctual /\ toClient # <<>> /\ reply = toClient[1]
                         /\ toClient' = <<>> /\ toServer = <<>>
<1>1. /\ awaiting /\ awaiting' = FALSE /\ linked' = linked /\ toServer' = toServer
      /\ sent' = sent /\ resting' = resting /\ nextOrder' = nextOrder
  BY DEF RecvFramed, bookVars
<1>2. /\ toServer \in Seq(Commands) /\ toClient \in Seq(Replies)
      /\ sent \in Nat /\ timeouts \in Nat /\ linked \in BOOLEAN
      /\ Len(toServer) \in Nat /\ Len(toClient) \in Nat
      /\ DOMAIN toServer = 1 .. Len(toServer) /\ DOMAIN toClient = 1 .. Len(toClient)
      /\ (Len(toClient) = 0 => toClient = <<>>) /\ (Len(toServer) = 0 => toServer = <<>>)
  BY FramesAre DEF MakerTypeOK
<1>3. Waited = 1 /\ Waited' = 0
  BY <1>1 DEF Waited
<1>4. /\ \A k \in 1 .. Len(toClient) : toClient[k].to \in Nat
      /\ \A k \in 1 .. Len(toServer) : toServer[k].number \in Nat
  BY FramesAre
<1>5. /\ linked => Len(toClient) + Len(toServer) = timeouts + 1
      /\ \A k \in 1 .. Len(toClient) : toClient[k].to + timeouts + 1 = sent + k
      /\ linked => \A k \in 1 .. Len(toServer) :
                     toServer[k].number + timeouts + 1 = sent + Len(toClient) + k
  BY <1>2, <1>3 DEF WireInv
<1>6. NoReply \in Replies
  BY DEF NoReply, Replies
<1>7. CASE toClient # <<>> /\ reply = Head(toClient) /\ toClient' = Tail(toClient)
           /\ timeouts' = timeouts
  <2>1. /\ Head(toClient) = toClient[1] /\ toClient[1] \in Replies
        /\ Tail(toClient) \in Seq(Replies) /\ Len(Tail(toClient)) = Len(toClient) - 1
        /\ DOMAIN Tail(toClient) = 1 .. Len(toClient) - 1
        /\ \A k \in 1 .. Len(toClient) - 1 : Tail(toClient)[k] = toClient[k + 1]
        /\ Len(toClient) # 0
    BY <1>2, <1>7, TailIs
  <2>2. linked' => Len(toClient') + Len(toServer') = timeouts' + Waited'
    <3>1. linked => (Len(toClient) - 1) + Len(toServer) = timeouts + 0
      BY <1>2, <1>5
    <3>2. Len(toClient') = Len(toClient) - 1
      BY <2>1, <1>7
    <3> QED BY <3>1, <3>2, <1>1, <1>3, <1>7
  <2>3. \A k \in DOMAIN toClient' : toClient'[k].to + timeouts' + Waited' = sent' + k
    <3> SUFFICES ASSUME NEW k \in 1 .. Len(toClient) - 1
                 PROVE  toClient[k + 1].to + timeouts + 0 = sent + k
      BY <2>1, <1>1, <1>3, <1>7
    <3>1. k + 1 \in 1 .. Len(toClient) /\ k \in Nat
      BY <1>2
    <3>2. toClient[k + 1].to + timeouts + 1 = sent + (k + 1) /\ toClient[k + 1].to \in Nat
      BY <3>1, <1>4, <1>5
    <3>3. \A n, t, s, j \in Nat : n + t + 1 = s + (j + 1) => n + t + 0 = s + j
      OBVIOUS
    <3> QED BY <3>1, <3>2, <3>3, <1>2
  <2>4. linked' => \A k \in DOMAIN toServer' :
          toServer'[k].number + timeouts' + Waited' = sent' + Len(toClient') + k
    <3> SUFFICES ASSUME linked, NEW k \in 1 .. Len(toServer)
                 PROVE  toServer[k].number + timeouts + 0 = sent + (Len(toClient) - 1) + k
      BY <2>1, <1>1, <1>2, <1>3, <1>7
    <3>1. /\ toServer[k].number + timeouts + 1 = sent + Len(toClient) + k
          /\ toServer[k].number \in Nat
      BY <1>4, <1>5
    <3> QED BY <3>1, <1>2
  <2>5. Punctual' => Punctual /\ toClient' = <<>> /\ toServer = <<>>
    <3> SUFFICES ASSUME Punctual' PROVE Punctual /\ toClient' = <<>> /\ toServer = <<>>
      OBVIOUS
    <3>1. Punctual
      BY <1>1, <1>7 DEF Punctual
    <3>2. Len(toClient) + Len(toServer) = 1
      BY <3>1, <1>5 DEF Punctual
    <3>3. Len(toServer) = 0 /\ Len(Tail(toClient)) = 0
      BY <3>2, <2>1, <1>2
    <3> QED BY <3>1, <3>3, <2>1, <1>2, <1>7
  <2> QED BY <2>1, <2>2, <2>3, <2>4, <2>5, <1>1, <1>2, <1>7 DEF WireInv
<1>8. CASE linked /\ toClient = <<>> /\ reply = NoReply /\ timeouts' = timeouts + 1
           /\ toClient' = toClient
  <2>1. Len(toClient) = 0 /\ DOMAIN toClient = {}
    BY <1>2, <1>8
  <2>2. linked' => Len(toClient') + Len(toServer') = timeouts' + Waited'
    <3>1. linked
      BY <1>8
    <3>2. Len(toClient) + Len(toServer) = timeouts + 1
      BY <3>1, <1>5
    <3>3. timeouts + 1 \in Nat
      BY <1>2
    <3>4. Len(toClient) + Len(toServer) = (timeouts + 1) + 0
      BY <3>2, <3>3
    <3>5. toClient' = toClient /\ timeouts' = timeouts + 1
      BY <1>8
    <3> QED BY <3>4, <3>5, <1>1, <1>3
  <2>3. \A k \in DOMAIN toClient' : toClient'[k].to + timeouts' + Waited' = sent' + k
    BY <2>1, <1>8
  <2>4. linked' => \A k \in DOMAIN toServer' :
          toServer'[k].number + timeouts' + Waited' = sent' + Len(toClient') + k
    <3> SUFFICES ASSUME linked, NEW k \in 1 .. Len(toServer)
                 PROVE  toServer[k].number + (timeouts + 1) + 0 = sent + Len(toClient) + k
      BY <1>1, <1>2, <1>3, <1>8
    <3>1. /\ toServer[k].number + timeouts + 1 = sent + Len(toClient) + k
          /\ toServer[k].number \in Nat
      BY <1>4, <1>5, <1>8
    <3>2. /\ sent \in Int /\ Len(toClient) \in Int /\ k \in Int /\ timeouts \in Int
          /\ toServer[k].number \in Int
      BY <3>1, <1>2
    <3> QED BY <3>1, <3>2
  <2>5. ~Punctual'
    <3>1. timeouts' # 0
      BY <1>2, <1>8
    <3> QED BY <3>1 DEF Punctual
  <2>6. WireInv'
    BY <2>2, <2>3, <2>4 DEF WireInv
  <2>7. timeouts' \in Nat /\ toClient' \in Seq(Replies) /\ reply \in Replies
    BY <1>2, <1>6, <1>8
  <2>8. awaiting' \in BOOLEAN
    BY <1>1
  <2>9. /\ linked' = linked /\ toServer' = toServer /\ sent' = sent
        /\ resting' = resting /\ nextOrder' = nextOrder
    BY <1>1
  <2> QED BY <2>5, <2>6, <2>7, <2>8, <2>9
<1>9. CASE ~linked /\ reply = NoReply /\ toClient' = <<>> /\ timeouts' = timeouts
  <2>1. toClient' \in Seq(Replies) /\ DOMAIN toClient' = {} /\ ~Punctual' /\ ~linked'
    BY <1>1, <1>9 DEF Punctual
  <2> QED BY <2>1, <1>1, <1>2, <1>6, <1>9 DEF WireInv
<1> QED BY <1>7, <1>8, <1>9 DEF RecvFramed

\* The answer to the first command under way takes its place.
LEMMA AnswerKeepsWire ==
  ASSUME MakerTypeOK, WireInv, NEW kind, NEW ok \in BOOLEAN, NEW last \in {0, 1},
         NEW id \in Nat, Answer(kind, ok, last, id)
  PROVE  /\ WireInv'
         /\ toServer' \in Seq(Commands) /\ toClient' \in Seq(Replies)
         /\ Head(toServer) \in Commands /\ Head(toServer).kind = kind
         /\ UNCHANGED <<botVars, awaiting, sent, timeouts>>
         /\ Punctual => /\ Head(toServer) = toServer[1] /\ toServer # <<>>
                        /\ toClient = <<>> /\ toServer' = <<>>
                        /\ toClient' # <<>> /\ toClient'[1].id = id
<1> DEFINE e == [to |-> Head(toServer).number, ok |-> ok, last |-> last, id |-> id]
<1>1. /\ linked /\ toServer # <<>> /\ Head(toServer).kind = kind
      /\ toServer' = Tail(toServer) /\ toClient' = Append(toClient, e)
      /\ awaiting' = awaiting /\ sent' = sent /\ timeouts' = timeouts
  BY DEF Answer
<1>2. UNCHANGED <<botVars, awaiting, sent, timeouts>>
  BY DEF Answer
<1>3. /\ toServer \in Seq(Commands) /\ toClient \in Seq(Replies)
      /\ sent \in Int /\ timeouts \in Int /\ Waited \in {0, 1}
  BY DEF MakerTypeOK, Waited
<1>4. /\ Len(toServer) \in Nat \ {0} /\ Head(toServer) = toServer[1]
      /\ Tail(toServer) \in Seq(Commands) /\ Len(Tail(toServer)) = Len(toServer) - 1
      /\ DOMAIN Tail(toServer) = 1 .. Len(toServer) - 1
      /\ \A k \in 1 .. Len(toServer) - 1 : Tail(toServer)[k] = toServer[k + 1]
      /\ toServer[1] \in Commands
  BY <1>1, <1>3, TailIs
<1>5. e \in Replies
  <2>1. Head(toServer).number \in Nat
    BY <1>4 DEF Commands
  <2> QED BY <2>1 DEF Replies
<1>6. e.to = toServer[1].number /\ e.id = id
  BY <1>4
<1> HIDE DEF e
<1>7. /\ Append(toClient, e) \in Seq(Replies) /\ Len(Append(toClient, e)) = Len(toClient) + 1
      /\ Len(toClient) \in Nat
      /\ DOMAIN Append(toClient, e) = 1 .. Len(toClient) + 1
      /\ \A k \in 1 .. Len(toClient) : Append(toClient, e)[k] = toClient[k]
      /\ Append(toClient, e)[Len(toClient) + 1] = e
  BY <1>3, <1>5, AppendIs
<1>8. /\ \A k \in 1 .. Len(toClient) : toClient[k].to \in Nat
      /\ \A k \in 1 .. Len(toServer) : toServer[k].number \in Nat
      /\ DOMAIN toServer = 1 .. Len(toServer) /\ DOMAIN toClient = 1 .. Len(toClient)
      /\ (Len(toClient) = 0 => toClient = <<>>)
  BY FramesAre
<1>9. /\ Len(toClient) + Len(toServer) = timeouts + Waited
      /\ \A k \in 1 .. Len(toClient) : toClient[k].to + timeouts + Waited = sent + k
      /\ \A k \in 1 .. Len(toServer) :
           toServer[k].number + timeouts + Waited = sent + Len(toClient) + k
  BY <1>1, <1>8 DEF WireInv
<1>10. Waited' = Waited
  BY <1>1 DEF Waited
<1>11. Len(toClient') + Len(toServer') = timeouts' + Waited'
  BY <1>1, <1>3, <1>4, <1>7, <1>9, <1>10
<1>12. \A k \in DOMAIN toClient' : toClient'[k].to + timeouts' + Waited' = sent' + k
  <2> SUFFICES ASSUME NEW k \in 1 .. Len(toClient) + 1
               PROVE  Append(toClient, e)[k].to + timeouts + Waited = sent + k
    BY <1>1, <1>7, <1>10
  <2>1. CASE k = Len(toClient) + 1
    <3>1. toServer[1].number + timeouts + Waited = sent + Len(toClient) + 1
      BY <1>4, <1>9
    <3>2. Append(toClient, e)[k].to = toServer[1].number
      BY <2>1, <1>6, <1>7
    <3>3. toServer[1].number \in Int
      BY <1>4, <1>8
    <3> QED BY <2>1, <3>1, <3>2, <3>3, <1>3, <1>7
  <2>2. CASE k \in 1 .. Len(toClient)
    BY <2>2, <1>7, <1>9
  <2> QED BY <2>1, <2>2, <1>7
<1>13. \A k \in DOMAIN toServer' :
         toServer'[k].number + timeouts' + Waited' = sent' + Len(toClient') + k
  <2> SUFFICES ASSUME NEW k \in 1 .. Len(toServer) - 1
               PROVE  toServer[k + 1].number + timeouts + Waited
                        = sent + (Len(toClient) + 1) + k
    BY <1>1, <1>4, <1>7, <1>10
  <2>1. k + 1 \in 1 .. Len(toServer) /\ k \in Int
    BY <1>4
  <2>2. /\ toServer[k + 1].number + timeouts + Waited = sent + Len(toClient) + (k + 1)
        /\ toServer[k + 1].number \in Int
    BY <2>1, <1>8, <1>9
  <2> QED BY <2>1, <2>2, <1>3, <1>7
<1>14. WireInv'
  BY <1>11, <1>12, <1>13 DEF WireInv
<1>15. Punctual => /\ toClient = <<>> /\ toServer' = <<>>
                   /\ toClient' # <<>> /\ toClient'[1].id = id
  <2> SUFFICES ASSUME Punctual
               PROVE  /\ toClient = <<>> /\ toServer' = <<>>
                      /\ toClient' # <<>> /\ toClient'[1].id = id
    OBVIOUS
  <2>1. Len(toClient) + Len(toServer) = Waited
    BY <1>3, <1>9 DEF Punctual
  <2>2. Len(toClient) = 0 /\ Len(Tail(toServer)) = 0
    BY <2>1, <1>3, <1>4, <1>7
  <2>3. toClient = <<>> /\ Tail(toServer) = <<>>
    BY <2>2, <1>4, <1>8
  <2>4. Append(toClient, e)[1] = e /\ Append(toClient, e) # <<>>
    BY <2>2, <1>7
  <2> QED BY <2>3, <2>4, <1>1, <1>6
<1> QED BY <1>1, <1>2, <1>4, <1>7, <1>14, <1>15

-----------------------------------------------------------------------------
\* Each step of the bot preserves the invariant.

LEMMA SendStep == MakerInv /\ Sends => MakerInv'
<1> SUFFICES ASSUME MakerInv, Sends PROVE MakerInv'
  OBVIOUS
<1> USE DEF MakerInv
<1>1. /\ quotes[leg] \in Nat /\ 0 \in Nat
      /\ quoteSymbol \in BotSymbols \cup {NoSymbol} /\ tickSymbol \in BotSymbols \cup {NoSymbol}
      /\ NoSymbol \in BotSymbols \cup {NoSymbol}
  BY DEF MakerTypeOK
\* What was remembered still is: nothing was under way.
<1>2. ASSUME toClient' = toClient, resting' = resting, quotes' = quotes,
             quoteSymbol' = quoteSymbol, timeouts' = timeouts, linked' = linked,
             Punctual => toServer = <<>> /\ toClient = <<>>,
             Punctual => AsksFor(toServer[1])'
      PROVE  MemoryInv'
  BY <1>2 DEF MemoryInv, Punctual, Remembered
<1>3. CASE Authenticate
  <2>1. /\ SendFramed("AUTH", NoSymbol, 0) /\ stage = "auth"
        /\ UNCHANGED <<stage, leg, quotes, quoteSymbol, tickSymbol, priced, ticks>>
    BY <1>3 DEF Authenticate, botVars
  <2>2. MakerTypeOK' /\ WireInv'
    BY <1>1, <2>1, SendKeepsWire DEF MakerTypeOK
  <2>3. StageInv'
    BY <2>1 DEF StageInv
  <2>4. MemoryInv'
    BY <1>1, <1>2, <2>1, SendKeepsWire DEF AsksFor
  <2> QED BY <2>2, <2>3, <2>4
<1>4. CASE Quit
  <2>1. /\ SendFramed("QUIT", NoSymbol, 0) /\ stage' = "quit"
        /\ UNCHANGED <<leg, quotes, quoteSymbol, tickSymbol, priced, ticks>>
    BY <1>4 DEF Quit
  <2>2. MakerTypeOK' /\ WireInv'
    BY <1>1, <2>1, SendKeepsWire DEF MakerTypeOK
  <2>3. StageInv'
    BY <2>1 DEF StageInv
  <2>4. MemoryInv'
    BY <1>1, <1>2, <2>1, SendKeepsWire DEF AsksFor
  <2> QED BY <2>2, <2>3, <2>4
<1>5. CASE CancelQuote
  <2>1. /\ SendFramed("CANCEL", quoteSymbol, quotes[leg]) /\ stage = "cancel"
        /\ UNCHANGED <<stage, leg, quotes, quoteSymbol, tickSymbol, priced, ticks>>
    BY <1>5 DEF CancelQuote, botVars
  <2>2. MakerTypeOK' /\ WireInv'
    BY <1>1, <2>1, SendKeepsWire DEF MakerTypeOK
  <2>3. StageInv'
    BY <2>1 DEF StageInv
  <2>4. MemoryInv'
    BY <1>1, <1>2, <2>1, SendKeepsWire DEF AsksFor
  <2> QED BY <2>2, <2>3, <2>4
<1>6. CASE PlaceQuote
  <2>1. /\ SendFramed("ORDER", tickSymbol, 0) /\ stage = "order"
        /\ UNCHANGED <<stage, leg, quotes, quoteSymbol, tickSymbol, priced, ticks>>
    BY <1>6 DEF PlaceQuote, botVars
  <2>2. MakerTypeOK' /\ WireInv'
    BY <1>1, <2>1, SendKeepsWire DEF MakerTypeOK
  <2>3. StageInv'
    BY <2>1 DEF StageInv
  <2>4. MemoryInv'
    BY <1>1, <1>2, <2>1, SendKeepsWire DEF AsksFor
  <2> QED BY <2>2, <2>3, <2>4
<1>7. ASSUME NEW s \in BotSymbols, AskMarket(s) PROVE MakerInv'
  <2>1. /\ SendFramed("MARKET", s, 0) /\ stage = "market"
        /\ ticks < MaxTicks /\ ticks' = ticks + 1 /\ tickSymbol' = s
        /\ UNCHANGED <<stage, leg, quotes, quoteSymbol, priced>>
    BY <1>7 DEF AskMarket
  <2>2. s \in BotSymbols \cup {NoSymbol}
    OBVIOUS
  <2>3. ticks' \in 0 .. MaxTicks
    BY <2>1, MakerAssumption DEF MakerTypeOK
  <2>4. MakerTypeOK' /\ WireInv'
    BY <1>1, <2>1, <2>2, <2>3, SendKeepsWire DEF MakerTypeOK
  <2>5. StageInv'
    BY <2>1 DEF StageInv
  <2>6. MemoryInv'
    BY <1>1, <1>2, <2>1, <2>2, SendKeepsWire DEF AsksFor
  <2> QED BY <2>4, <2>5, <2>6
<1> QED BY <1>3, <1>4, <1>5, <1>6, <1>7 DEF Sends

LEMMA HearStep == MakerInv /\ Hears => MakerInv'
<1> SUFFICES ASSUME MakerInv, NEW reply \in Readable,
                    \/ Authenticated(reply) \/ HearMarket(reply) \/ HearCancel(reply)
                    \/ HearOrder(reply) \/ Leave(reply)
             PROVE  MakerInv'
  BY DEF Hears
<1> USE DEF MakerInv
<1>1. RecvFramed(reply)
  BY DEF Authenticated, HearMarket, HearCancel, HearOrder, Leave
<1>2. /\ WireInv'
      /\ awaiting' \in BOOLEAN /\ linked' = linked /\ timeouts' \in Nat
      /\ toServer' = toServer /\ toClient' \in Seq(Replies)
      /\ sent' = sent /\ resting' = resting /\ nextOrder' = nextOrder
      /\ reply.id \in Nat
  BY <1>1, RecvKeepsWire DEF Replies
<1>3. ASSUME Punctual'
      PROVE  /\ toClient' = <<>> /\ toServer' = <<>> /\ Tells(reply)
             /\ \A o \in resting :
                  \/ \E side \in Legs : quotes[side] = o.id /\ quoteSymbol = o.symbol
                  \/ reply.id = o.id /\ tickSymbol = o.symbol
  BY <1>1, <1>3, RecvKeepsWire DEF MemoryInv, Remembered
<1>4. ASSUME ASSUME Punctual' PROVE \A o \in resting :
               \E side \in Legs : quotes'[side] = o.id /\ quoteSymbol' = o.symbol
      PROVE  MemoryInv'
  BY <1>2, <1>3, <1>4 DEF MemoryInv, Remembered
<1>5. \A o \in resting : o.id # 0
  BY DEF MakerTypeOK
<1>6. /\ quotes \in [Legs -> Nat] /\ leg \in Legs /\ "BUY" \in Legs /\ "SELL" \in Legs
      /\ \A side \in Legs : side \in {"BUY", "SELL"}
      /\ tickSymbol \in BotSymbols \cup {NoSymbol}
  BY DEF MakerTypeOK, Legs
\* Between two orders: with no answer to remember, only what is remembered rests.
<1>7. ASSUME stage # "order", Punctual'
      PROVE  \A o \in resting : \E side \in Legs : quotes[side] = o.id /\ quoteSymbol = o.symbol
  BY <1>3, <1>5, <1>7 DEF Tells
\* Going on with the tick.
<1>8. ASSUME NEW q \in [Legs -> Nat], NEW p \in BOOLEAN, quotes' = q, Proceed(q, p),
             tickSymbol' = tickSymbol,
             Punctual' => \A o \in resting :
               \E side \in Legs : q[side] = o.id /\ quoteSymbol = o.symbol
      PROVE  /\ StageInv' /\ MemoryInv'
             /\ stage' \in {"cancel", "order", "market"} /\ leg' \in Legs
             /\ quoteSymbol' \in BotSymbols \cup {NoSymbol}
  <2>1. CASE \E side \in Legs :
               /\ q[side] # 0 /\ (side = "SELL" => q["BUY"] = 0)
               /\ stage' = "cancel" /\ leg' = side
               /\ UNCHANGED quoteSymbol
    <3>1. StageInv'
      BY <1>8, <2>1 DEF StageInv
    <3>2. MemoryInv'
      BY <1>4, <1>8, <2>1
    <3> QED BY <3>1, <3>2, <2>1 DEF MakerTypeOK
  <2>2. CASE /\ \A side \in Legs : q[side] = 0
             /\ stage' = (IF p THEN "order" ELSE "market") /\ leg' = "BUY"
             /\ quoteSymbol' = tickSymbol
    <3>1. StageInv'
      BY <1>6, <1>8, <2>2 DEF StageInv
    <3>2. Punctual' => resting = {}
      BY <1>5, <1>8, <2>2
    <3>3. MemoryInv'
      BY <3>2, <1>4
    <3> QED BY <3>1, <3>3, <2>2, <1>6
  <2> QED BY <1>8, <2>1, <2>2 DEF Proceed
<1>9. CASE Authenticated(reply)
  <2>1. /\ stage = "auth" /\ stage' \in {"market", "gone"}
        /\ UNCHANGED <<leg, quotes, quoteSymbol, tickSymbol, priced, ticks>>
    BY <1>9 DEF Authenticated
  <2>2. MakerTypeOK'
    BY <1>2, <2>1 DEF MakerTypeOK
  <2>3. StageInv' /\ MemoryInv'
    BY <1>4, <1>7, <2>1 DEF StageInv
  <2> QED BY <1>2, <2>2, <2>3
<1>10. CASE Leave(reply)
  <2>1. /\ stage = "quit" /\ stage' = "gone"
        /\ UNCHANGED <<leg, quotes, quoteSymbol, tickSymbol, priced, ticks>>
    BY <1>10 DEF Leave
  <2>2. MakerTypeOK'
    BY <1>2, <2>1 DEF MakerTypeOK
  <2>3. StageInv' /\ MemoryInv'
    BY <1>4, <1>7, <2>1 DEF StageInv
  <2> QED BY <1>2, <2>2, <2>3
<1>11. CASE HearMarket(reply)
  <2>1. /\ stage = "market"
        /\ UNCHANGED <<quotes, tickSymbol, ticks>>
        /\ \/ stage' = "gone" /\ UNCHANGED <<leg, quoteSymbol, priced>>
           \/ priced' = (reply.last > 0) /\ Proceed(quotes, reply.last > 0)
    BY <1>11 DEF HearMarket
  <2>2. CASE stage' = "gone" /\ UNCHANGED <<leg, quoteSymbol, priced>>
    <3>1. MakerTypeOK'
      BY <1>2, <2>1, <2>2 DEF MakerTypeOK
    <3>2. StageInv' /\ MemoryInv'
      BY <1>4, <1>7, <2>1, <2>2 DEF StageInv
    <3> QED BY <1>2, <3>1, <3>2
  <2>3. CASE priced' = (reply.last > 0) /\ Proceed(quotes, reply.last > 0)
    <3>1. (reply.last > 0) \in BOOLEAN /\ priced' \in BOOLEAN
      BY <2>3
    <3>2. /\ StageInv' /\ MemoryInv'
          /\ stage' \in {"cancel", "order", "market"} /\ leg' \in Legs
          /\ quoteSymbol' \in BotSymbols \cup {NoSymbol}
      BY <3>1, <1>6, <1>7, <1>8, <2>1, <2>3
    <3>3. MakerTypeOK'
      BY <1>2, <2>1, <3>1, <3>2 DEF MakerTypeOK
    <3> QED BY <1>2, <3>2, <3>3
  <2> QED BY <2>1, <2>2, <2>3
<1>12. CASE HearCancel(reply)
  <2>1. /\ stage = "cancel" /\ quotes' = [quotes EXCEPT ![leg] = 0]
        /\ UNCHANGED <<tickSymbol, priced, ticks>>
        /\ Proceed(quotes', priced)
    BY <1>12 DEF HearCancel
  <2>2. quotes' \in [Legs -> Nat] /\ priced \in BOOLEAN
    BY <2>1, <1>6 DEF MakerTypeOK
  <2>3. Punctual' => \A o \in resting :
          \E side \in Legs : quotes'[side] = o.id /\ quoteSymbol = o.symbol
    <3> SUFFICES ASSUME Punctual', NEW o \in resting
                 PROVE  \E side \in Legs : quotes'[side] = o.id /\ quoteSymbol = o.symbol
      OBVIOUS
    <3>1. PICK side \in Legs : quotes[side] = o.id /\ quoteSymbol = o.symbol
      BY <1>7, <2>1
    <3>2. o.id # quotes[leg]
      BY <1>3, <2>1 DEF Tells
    <3>3. side # leg
      BY <3>1, <3>2
    <3> QED BY <3>1, <3>3, <2>1, <1>6
  <2>4. /\ StageInv' /\ MemoryInv'
        /\ stage' \in {"cancel", "order", "market"} /\ leg' \in Legs
        /\ quoteSymbol' \in BotSymbols \cup {NoSymbol}
    BY <2>1, <2>2, <2>3, <1>8
  <2>5. MakerTypeOK'
    BY <1>2, <2>1, <2>2, <2>4 DEF MakerTypeOK
  <2> QED BY <1>2, <2>4, <2>5
<1>13. CASE HearOrder(reply)
  <2>1. /\ stage = "order"
        /\ quotes' = [quotes EXCEPT ![leg] = IF reply.id # 0 THEN reply.id ELSE quotes[leg]]
        /\ UNCHANGED <<quoteSymbol, tickSymbol, priced, ticks>>
        /\ \/ leg = "BUY" /\ leg' = "SELL" /\ stage' = stage
           \/ leg # "BUY" /\ leg' = "BUY" /\ stage' = "market"
    BY <1>13 DEF HearOrder
  <2>2. quotes' \in [Legs -> Nat]
    BY <2>1, <1>2, <1>6
  <2>3. MakerTypeOK'
    <3>1. stage' \in {"order", "market"} /\ leg' \in Legs
      BY <2>1, <1>6
    <3> QED BY <1>2, <2>1, <2>2, <3>1 DEF MakerTypeOK
  <2>4. /\ quoteSymbol = tickSymbol
        /\ quotes[leg] = 0 /\ (leg = "BUY" => quotes["SELL"] = 0)
    BY <2>1 DEF StageInv
  <2>5. StageInv'
    <3>1. leg = "BUY" => quotes'["SELL"] = 0
      BY <2>1, <2>4, <1>6
    <3> QED BY <3>1, <2>1, <2>4 DEF StageInv
  <2>6. MemoryInv'
    <3> SUFFICES ASSUME Punctual', NEW o \in resting
                 PROVE  \E side \in Legs : quotes'[side] = o.id /\ quoteSymbol' = o.symbol
      BY <1>4
    <3>1. CASE \E side \in Legs : quotes[side] = o.id /\ quoteSymbol = o.symbol
      <4>1. PICK side \in Legs : quotes[side] = o.id /\ quoteSymbol = o.symbol
        BY <3>1
      <4>2. side # leg
        BY <4>1, <1>5, <2>4
      <4> QED BY <4>1, <4>2, <2>1, <1>6
    <3>2. CASE reply.id = o.id /\ tickSymbol = o.symbol
      <4>1. quotes'[leg] = o.id
        BY <3>2, <1>5, <1>6, <2>1
      <4> QED BY <4>1, <3>2, <1>6, <2>1, <2>4
    <3> QED BY <3>1, <3>2, <1>3
  <2> QED BY <1>2, <2>3, <2>5, <2>6
<1> QED BY <1>9, <1>10, <1>11, <1>12, <1>13

-----------------------------------------------------------------------------
\* Each step of the server does, and the books.

LEMMA ServeStep == MakerInv /\ (ServerThread \/ Fill) => MakerInv'
<1> SUFFICES ASSUME MakerInv, ServerThread \/ Fill PROVE MakerInv'
  OBVIOUS
<1> USE DEF MakerInv
<1>1. /\ nextOrder \in Nat \ {0} /\ 0 \in Nat /\ 0 \in {0, 1} /\ TRUE \in BOOLEAN
      /\ nextOrder + 1 \in Nat \ {0} /\ linked \in BOOLEAN /\ nextOrder \in Nat
  BY DEF MakerTypeOK
\* What an answer leaves, when the bot is kept and the books are given.
<1>2. ASSUME NEW kind, NEW ok \in BOOLEAN, NEW last \in {0, 1}, NEW id \in Nat,
             Answer(kind, ok, last, id), linked' \in BOOLEAN,
             resting' \subseteq [id : Nat \ {0}, symbol : BotSymbols \cup {NoSymbol}],
             nextOrder' \in Nat \ {0}
      PROVE  MakerTypeOK' /\ WireInv' /\ StageInv'
  <2>1. /\ WireInv'
        /\ toServer' \in Seq(Commands) /\ toClient' \in Seq(Replies)
        /\ UNCHANGED <<botVars, awaiting, sent, timeouts>>
    BY <1>2, AnswerKeepsWire
  <2>2. MakerTypeOK'
    BY <2>1, <1>2 DEF MakerTypeOK, botVars
  <2>3. StageInv'
    BY <2>1 DEF StageInv, botVars
  <2> QED BY <2>1, <2>2, <2>3
<1>3. resting \subseteq [id : Nat \ {0}, symbol : BotSymbols \cup {NoSymbol}]
  BY DEF MakerTypeOK
\* What it tells the bot, when no order is placed.
<1>4. ASSUME NEW kind, NEW ok \in BOOLEAN, NEW last \in {0, 1}, Answer(kind, ok, last, 0),
             resting' \subseteq resting,
             Punctual' => Punctual,
             Punctual' /\ stage = "cancel" => \A o \in resting' : o.id # quotes[leg]
      PROVE  MemoryInv'
  <2> SUFFICES ASSUME Punctual'
               PROVE  /\ toServer' = <<>>
                      /\ Tells(toClient[1])'
                      /\ \A o \in resting' : Remembered(o)'
    BY DEF MemoryInv
  <2>1. /\ UNCHANGED <<stage, leg, quotes, quoteSymbol, tickSymbol>>
        /\ toClient = <<>> /\ toServer' = <<>> /\ toClient' # <<>> /\ toClient'[1].id = 0
    BY <1>1, <1>4, AnswerKeepsWire DEF botVars
  <2>2. Tells(toClient[1])'
    BY <2>1, <1>4 DEF Tells
  <2>3. \A o \in resting' : Remembered(o)'
    BY <2>1, <1>4 DEF MemoryInv, Remembered
  <2> QED BY <2>1, <2>2, <2>3
\* A command that is not a CANCEL does not come while one is awaited.
<1>5. ASSUME Punctual, toServer # <<>>
      PROVE  /\ stage = "cancel" => Head(toServer).kind = "CANCEL"
             /\ AsksFor(Head(toServer))
  <2>1. Head(toServer) = toServer[1]
    BY <1>5, TailIs DEF MakerTypeOK
  <2> QED BY <2>1, <1>5 DEF MemoryInv, AsksFor
<1>6. CASE ServeAuth
  <2>1. PICK ok \in BOOLEAN : Answer("AUTH", ok, 0, 0) /\ UNCHANGED <<linked, bookVars>>
    BY <1>6 DEF ServeAuth
  <2>2. MakerTypeOK' /\ WireInv' /\ StageInv'
    BY <2>1, <1>1, <1>2, <1>3 DEF bookVars
  <2>3. Punctual' => Punctual /\ toServer # <<>> /\ Head(toServer).kind = "AUTH"
    BY <2>1 DEF Punctual, Answer
  <2>4. MemoryInv'
    BY <2>1, <2>3, <1>1, <1>4, <1>5 DEF bookVars
  <2> QED BY <2>2, <2>4
<1>7. CASE ServeMarket
  <2>1. PICK last \in {0, 1} : Answer("MARKET", TRUE, last, 0) /\ UNCHANGED <<linked, bookVars>>
    BY <1>7 DEF ServeMarket
  <2>2. MakerTypeOK' /\ WireInv' /\ StageInv'
    BY <2>1, <1>1, <1>2, <1>3 DEF bookVars
  <2>3. Punctual' => Punctual /\ toServer # <<>> /\ Head(toServer).kind = "MARKET"
    BY <2>1 DEF Punctual, Answer
  <2>4. MemoryInv'
    BY <2>1, <2>3, <1>1, <1>4, <1>5 DEF bookVars
  <2> QED BY <2>2, <2>4
<1>8. CASE ServeCancel
  <2>1. /\ Answer("CANCEL", Named # {}, 0, 0) /\ (Named # {}) \in BOOLEAN
        /\ resting' = resting \ Named /\ UNCHANGED <<linked, nextOrder>>
    BY <1>8 DEF ServeCancel
  <2>2. MakerTypeOK' /\ WireInv' /\ StageInv'
    BY <2>1, <1>1, <1>2, <1>3
  <2>3. Punctual' => Punctual /\ toServer # <<>> /\ Head(toServer).kind = "CANCEL"
    BY <2>1 DEF Punctual, Answer
  <2>4. Punctual' => \A o \in resting' : o.id # quotes[leg]
    <3> SUFFICES ASSUME Punctual', NEW o \in resting, o.id = quotes[leg] PROVE o \in Named
      BY <2>1
    <3>1. Head(toServer).id = quotes[leg] /\ Head(toServer).symbol = quoteSymbol
      BY <2>3, <1>5 DEF AsksFor
    <3>2. toClient = <<>>
      BY <2>1, <2>3, <1>1, AnswerKeepsWire
    <3>3. o.symbol = quoteSymbol
      BY <2>3, <3>2 DEF MemoryInv, Remembered
    <3> QED BY <3>1, <3>3 DEF Named
  <2>5. MemoryInv'
    BY <2>1, <2>3, <2>4, <1>1, <1>4
  <2> QED BY <2>2, <2>5
<1>9. CASE ServeOrder
  <2> DEFINE o == [id |-> nextOrder, symbol |-> Head(toServer).symbol]
  <2>1. PICK ok \in BOOLEAN :
          /\ Answer("ORDER", ok, 0, nextOrder)
          /\ resting' = resting \/ resting' = resting \cup {o}
          /\ nextOrder' = nextOrder + 1 /\ linked' = linked
    BY <1>9 DEF ServeOrder
  <2>2. Head(toServer) \in Commands /\ Head(toServer).kind = "ORDER"
    BY <2>1, <1>1, AnswerKeepsWire
  <2>3. o \in [id : Nat \ {0}, symbol : BotSymbols \cup {NoSymbol}]
    BY <2>2, <1>1 DEF Commands
  <2>4. resting' \subseteq [id : Nat \ {0}, symbol : BotSymbols \cup {NoSymbol}]
    BY <2>1, <2>3, <1>3
  <2>5. MakerTypeOK' /\ WireInv' /\ StageInv'
    BY <2>1, <2>4, <1>1, <1>2
  <2>6. MemoryInv'
    <3> SUFFICES ASSUME Punctual'
                 PROVE  /\ toServer' = <<>>
                        /\ Tells(toClient[1])'
                        /\ \A r \in resting' : Remembered(r)'
      BY DEF MemoryInv
    <3>1. Punctual /\ toServer # <<>>
      BY <2>1 DEF Punctual, Answer
    <3>2. /\ UNCHANGED <<stage, leg, quotes, quoteSymbol, tickSymbol>>
          /\ toClient = <<>> /\ toServer' = <<>> /\ toClient' # <<>>
          /\ toClient'[1].id = nextOrder
      BY <3>1, <2>1, <1>1, AnswerKeepsWire DEF botVars
    <3>3. stage = "order" /\ Head(toServer).symbol = tickSymbol
      BY <3>1, <2>2, <1>5 DEF AsksFor
    <3>4. Tells(toClient[1])'
      BY <3>2, <3>3 DEF Tells
    <3>5. ASSUME NEW r, r = o PROVE Remembered(r)'
      BY <3>2, <3>3, <3>5 DEF Remembered
    <3>6. \A r \in resting : Remembered(r)'
      BY <3>1, <3>2 DEF MemoryInv, Remembered
    <3> QED BY <3>2, <3>4, <3>5, <3>6, <2>1
  <2> QED BY <2>5, <2>6
<1>10. CASE ServeQuit
  <2>1. Answer("QUIT", TRUE, 0, 0) /\ linked' = FALSE /\ UNCHANGED bookVars
    BY <1>10 DEF ServeQuit
  <2>2. MakerTypeOK' /\ WireInv' /\ StageInv'
    BY <2>1, <1>1, <1>2, <1>3 DEF bookVars
  <2>3. ~Punctual'
    BY <2>1 DEF Punctual
  <2> QED BY <2>2, <2>3 DEF MemoryInv
<1>11. CASE Hangup
  <2>1. /\ linked' = FALSE /\ toServer' = <<>>
        /\ UNCHANGED <<stage, leg, quotes, quoteSymbol, tickSymbol, priced, ticks, awaiting,
                       toClient, sent, timeouts, resting, nextOrder>>
    BY <1>11 DEF Hangup, botVars, bookVars
  <2>2. MakerTypeOK'
    <3>1. <<>> \in Seq(Commands)
      OBVIOUS
    <3> QED BY <2>1, <3>1 DEF MakerTypeOK
  <2>3. WireInv' /\ StageInv'
    BY <2>1 DEF WireInv, StageInv, Waited
  <2>4. MemoryInv'
    BY <2>1 DEF MemoryInv, Punctual
  <2> QED BY <2>2, <2>3, <2>4
<1>12. CASE Fill
  <2>1. /\ resting' \subseteq resting
        /\ UNCHANGED <<stage, leg, quotes, quoteSymbol, tickSymbol, priced, ticks, awaiting,
                       toServer, toClient, linked, sent, timeouts, nextOrder>>
    BY <1>12 DEF Fill, botVars, wireVars
  <2>2. MakerTypeOK'
    BY <2>1 DEF MakerTypeOK
  <2>3. WireInv' /\ StageInv'
    BY <2>1 DEF WireInv, StageInv, Waited
  <2>4. MemoryInv'
    BY <2>1 DEF MemoryInv, Punctual, AsksFor, Tells, Remembered
  <2> QED BY <2>2, <2>3, <2>4
<1> QED BY <1>6, <1>7, <1>8, <1>9, <1>10, <1>11, <1>12 DEF ServerThread

LEMMA MakerStep == MakerInv /\ [MakerNext]_makerVars => MakerInv'
<1>1. MakerInv /\ UNCHANGED makerVars => MakerInv'
  <2> SUFFICES ASSUME MakerInv, UNCHANGED makerVars PROVE MakerInv'
    OBVIOUS
  <2>1. UNCHANGED <<stage, leg, quotes, quoteSymbol, tickSymbol, priced, ticks, awaiting,
                    toServer, toClient, linked, sent, timeouts, resting, nextOrder>>
    BY DEF makerVars, botVars, wireVars, bookVars
  <2>2. MakerTypeOK' /\ StageInv'
    BY <2>1 DEF MakerInv, MakerTypeOK, StageInv
  <2>3. WireInv'
    BY <2>1 DEF MakerInv, WireInv, Waited
  <2>4. MemoryInv'
    BY <2>1 DEF MakerInv, MemoryInv, Punctual, AsksFor, Tells, Remembered
  <2> QED BY <2>2, <2>3, <2>4 DEF MakerInv
<1> QED BY <1>1, SendStep, HearStep, ServeStep DEF MakerNext, Bot

-----------------------------------------------------------------------------
\* The theorems

LEMMA MakerInvariance == MakerSpec => []MakerInv
<1> QED BY InitMaker, MakerStep, PTL DEF MakerSpec

\* Every variable of the bot, its connection and its server keeps its type.
THEOREM MakerTypeCorrect == MakerSpec => []MakerTypeOK
<1>1. MakerInv => MakerTypeOK
  BY DEF MakerInv
<1> QED BY MakerInvariance, <1>1, PTL

\* The answer that send_command returns is to the command it sent as many commands
\* ago as receives have timed out, whatever the bot sends and however long the server
\* takes (client_connection.cpp:48-57, protocol.cpp:88-106).
THEOREM AnswersLag == MakerSpec => []AnswersLagByTimeouts
<1>1. MakerInv => AnswersLagByTimeouts
  <2> SUFFICES ASSUME MakerInv, awaiting, toClient # <<>>
               PROVE  Head(toClient).to + timeouts = sent
    BY DEF AnswersLagByTimeouts
  <2>1. /\ toClient \in Seq(Replies) /\ sent \in Nat /\ timeouts \in Nat
    BY DEF MakerInv, MakerTypeOK
  <2>2. /\ Head(toClient) = toClient[1] /\ 1 \in DOMAIN toClient /\ toClient[1].to \in Nat
    <3>1. Len(toClient) \in Nat \ {0} /\ Head(toClient) = toClient[1]
      BY <2>1, TailIs
    <3> QED BY <3>1, FramesAre DEF MakerInv
  <2>3. toClient[1].to + timeouts + 1 = sent + 1
    BY <2>2 DEF MakerInv, WireInv, Waited
  <2> QED BY <2>1, <2>2, <2>3
<1> QED BY MakerInvariance, <1>1, PTL

\* As long as no receive has timed out and the connection is up, no order of the bot
\* rests that it does not remember or is about to be told of: market_maker_bot_tick
\* cancels all its quotes before it places new ones, for any symbols and any number of
\* ticks.
THEOREM NetworkQuotesRemembered == MakerSpec => []RememberedUnlessLate
<1>1. MakerInv => RememberedUnlessLate
  <2> SUFFICES ASSUME MakerInv, Punctual, NEW o \in resting
               PROVE  \/ \E side \in Legs : quotes[side] = o.id /\ quoteSymbol = o.symbol
                      \/ \E k \in DOMAIN toClient : toClient[k].id = o.id /\ tickSymbol = o.symbol
    BY DEF RememberedUnlessLate, Punctual
  <2>1. Remembered(o)
    BY DEF MakerInv, MemoryInv
  <2>2. toClient # <<>> => 1 \in DOMAIN toClient
    BY DEF MakerInv, MakerTypeOK
  <2> QED BY <2>1, <2>2 DEF Remembered
<1> QED BY MakerInvariance, <1>1, PTL
=============================================================================
