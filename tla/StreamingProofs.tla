--------------------------- MODULE StreamingProofs ---------------------------
(***************************************************************************)
(* The supervisor of the broker streams, for any number of accounts,       *)
(* brokers and symbols: no broker has two unfinished tasks and none runs   *)
(* unknown to the table; a stream starts with everything asked for since   *)
(* its reconciliation began; and none starts after the shutdown.  What has *)
(* been read of a wish that nobody has taken back is in the list a stream  *)
(* would be started from, and the supervisor ends with the application.    *)
(***************************************************************************)
EXTENDS StreamingManager, TLAPS

\* The source of a wish has been read: its account has, or is half read and the
\* wish is a position.
ReadOf(t) == t[1] \notin loop.unread \/ (t[1] = loop.half /\ t[3] = "positions")

\* What a user goes on asking for is asked for now, and what has been read of it
\* is in the list the streams will be started from.
ReadInv ==
    /\ steady \subseteq Asked
    /\ loop.at = "read" =>
         /\ loop.unread \subseteq loop.accounts
         /\ loop.half \in loop.unread \union {None}
         /\ \A t \in steady :
              /\ t[1] \in loop.accounts
              /\ ReadOf(t) => t[2] \in loop.symbols[BrokerOf[t[1]]]

\* Once the application is down the supervisor has ended, and a stream that has
\* published since then is finished.
EndInv ==
    /\ app = "down" => loop.at = "ended"
    /\ \A b \in Brokers : late[b] = 0 \/ (late[b] = 1 /\ app = "down" /\ ~Unfinished(b))

SInv == TypeOK /\ ReadInv /\ EndInv

\* The task of a broker.
TaskRow == [done : BOOLEAN, symbols : SUBSET Symbols]

\* A task of the table is not the missing task, and finishing one gives one.
LEMMA TaskRows ==
    /\ None \notin TaskRow
    /\ \A r \in TaskRow : /\ r.done \in BOOLEAN /\ r.symbols \in SUBSET Symbols
                          /\ [r EXCEPT !.done = TRUE] \in TaskRow
                          /\ [r EXCEPT !.done = TRUE].done
<1>1. None \notin TaskRow
  BY StreamingAssumption DEF TaskRow
<1> QED BY <1>1 DEF TaskRow

-----------------------------------------------------------------------------
\* The invariant holds when the application starts.
LEMMA StreamsInit == Init => SInv
BY StreamingAssumption
   DEF Init, SInv, TypeOK, ReadInv, EndInv, At, NoSymbols, Unfinished, Asked

\* The supervisor's reads, and the turns of its loop, start and end no stream.
LEMMA LoopStep ==
    ASSUME SInv,
           \/ Begin \/ ReconcileFails \/ Wake
           \/ \E a \in Accounts : ReadPositions(a) \/ ReadStrategies(a)
    PROVE  SInv'
<1> USE DEF SInv, TypeOK
<1>1. CASE Begin
  <2>1. /\ UNCHANGED <<active, wanted, task, live, app, late, faults>>
        /\ IF app # "up" THEN loop' = At("ended") /\ steady' = steady
           ELSE /\ loop' = [at |-> "read", accounts |-> {a \in Accounts : active[a]},
                            unread |-> {a \in Accounts : active[a]}, half |-> None,
                            symbols |-> NoSymbols]
                /\ steady' = Asked
    BY <1>1 DEF Begin, stopped
  <2>2. TypeOK'
    BY <2>1 DEF At, NoSymbols, Unfinished, Asked, AskedFor
  <2>3. ReadInv'
    <3>1. Asked' = Asked
      BY <2>1 DEF Asked, AskedFor
    <3>2. CASE app # "up"
      BY <2>1, <3>1, <3>2 DEF ReadInv, At
    <3>3. CASE app = "up"
      <4>1. \A t \in steady' : t[1] \in loop'.accounts /\ t[1] \in loop'.unread
        BY <2>1, <3>3, StreamingAssumption DEF Asked, AskedFor
      <4>2. loop'.half = None /\ None \notin Accounts
        BY <2>1, <3>3, StreamingAssumption
      <4> QED BY <2>1, <3>1, <3>3, <4>1, <4>2, StreamingAssumption DEF ReadInv, ReadOf, Asked
    <3> QED BY <3>2, <3>3
  <2>4. EndInv'
    BY <2>1 DEF EndInv, Unfinished, At
  <2> QED BY <2>2, <2>3, <2>4
<1>2. ASSUME NEW a \in Accounts, NEW source \in Sources,
             loop.at = "read", a \in loop.unread,
             loop'.at = "read", loop'.accounts = loop.accounts,
             loop'.symbols = [loop.symbols EXCEPT ![BrokerOf[a]] = @ \union SymbolsOf(a, source)],
             loop' \in [at : {"top", "read", "wait", "ended"}, accounts : SUBSET Accounts,
                        unread : SUBSET Accounts, half : Accounts \union {None},
                        symbols : [Brokers -> SUBSET Symbols]],
             loop'.unread \subseteq loop.unread, loop'.half \in loop'.unread \union {None},
             \A t \in Wishes : ReadOf(t)' => ReadOf(t) \/ (t[1] = a /\ t[3] = source),
             UNCHANGED <<active, wanted, task, live, app, steady, late, faults>>
      PROVE  SInv'
  <2>1. TypeOK'
    BY <1>2 DEF Unfinished
  <2>2. ReadInv'
    <3>1. Asked' = Asked
      BY <1>2 DEF Asked, AskedFor
    <3>2. ASSUME NEW t \in steady, ReadOf(t)'
          PROVE  t[2] \in loop'.symbols[BrokerOf[t[1]]]
      <4>1. t \in Wishes /\ t \in wanted /\ t[1] \in Accounts /\ BrokerOf[t[1]] \in Brokers
        BY StreamingAssumption DEF ReadInv, Asked, AskedFor
      <4>2. CASE ReadOf(t)
        BY <1>2, <4>1, <4>2 DEF ReadInv
      <4>3. CASE t[1] = a /\ t[3] = source
        <5>1. t[2] \in SymbolsOf(a, source)
          BY <4>1, <4>3 DEF SymbolsOf
        <5> QED BY <1>2, <4>1, <4>3, <5>1
      <4> QED BY <1>2, <3>2, <4>1, <4>2, <4>3
    <3> QED BY <1>2, <3>1, <3>2 DEF ReadInv
  <2>3. EndInv'
    BY <1>2 DEF EndInv, Unfinished
  <2> QED BY <2>1, <2>2, <2>3
<1>4. ASSUME NEW a \in Accounts, NEW source \in Sources
      PROVE  SymbolsOf(a, source) \subseteq Symbols /\ BrokerOf[a] \in Brokers
  BY StreamingAssumption DEF SymbolsOf
<1>5. ASSUME NEW a \in Accounts, ReadPositions(a) PROVE SInv'
  <2> DEFINE list == [loop.symbols EXCEPT ![BrokerOf[a]] = @ \union SymbolsOf(a, "positions")]
  <2>1. /\ loop.at = "read" /\ a \in loop.unread /\ loop.half = None
        /\ loop' = [loop EXCEPT !.half = a, !.symbols = list]
        /\ UNCHANGED <<active, wanted, task, live, app, steady, late, faults>>
    BY <1>5 DEF ReadPositions
  <2>2. list \in [Brokers -> SUBSET Symbols]
    BY <1>4 DEF Sources
  <2>3. \A t \in Wishes : ReadOf(t)' => ReadOf(t) \/ (t[1] = a /\ t[3] = "positions")
    BY <2>1 DEF ReadOf
  <2> QED BY <1>2, <2>1, <2>2, <2>3 DEF Sources
<1>6. ASSUME NEW a \in Accounts, ReadStrategies(a) PROVE SInv'
  <2> DEFINE list == [loop.symbols EXCEPT ![BrokerOf[a]] = @ \union SymbolsOf(a, "strategies")]
  <2>1. /\ loop.at = "read" /\ loop.half = a
        /\ loop' = [loop EXCEPT !.half = None, !.unread = @ \ {a}, !.symbols = list]
        /\ UNCHANGED <<active, wanted, task, live, app, steady, late, faults>>
    BY <1>6 DEF ReadStrategies
  <2>2. list \in [Brokers -> SUBSET Symbols]
    BY <1>4 DEF Sources
  <2>3. a \in loop.unread /\ None \notin Accounts
    BY <2>1, StreamingAssumption DEF ReadInv
  <2>4. \A t \in Wishes : ReadOf(t)' => ReadOf(t) \/ (t[1] = a /\ t[3] = "strategies")
    BY <2>1, <2>3, StreamingAssumption DEF ReadOf, Sources
  <2> QED BY <1>2, <2>1, <2>2, <2>3, <2>4 DEF Sources
<1>3. CASE ReconcileFails \/ Wake
  <2>1. /\ UNCHANGED <<active, wanted, task, live, app, steady, late>>
        /\ faults' \in 0 .. MaxFaults
        /\ loop' \in {At("wait"), At("top")} /\ loop.at \in {"read", "wait"}
    BY <1>3, StreamingAssumption DEF ReconcileFails, Wake
  <2>2. loop'.at # "read" /\ Asked' = Asked
    BY <2>1 DEF At, Asked, AskedFor
  <2> QED
    BY <2>1, <2>2 DEF ReadInv, EndInv, At, NoSymbols, Unfinished
<1> QED BY <1>1, <1>3, <1>5, <1>6

\* A stream is started where none was unfinished.
LEMMA StartStep == ASSUME SInv, Start PROVE SInv'
<1> USE DEF SInv, TypeOK
<1>1. /\ loop.at = "read" /\ loop' = At("wait")
      /\ UNCHANGED <<active, wanted, app, steady, late, faults>>
  BY DEF Start
<1>2. ASSUME NEW b \in Brokers
      PROVE  /\ task'[b] \in TaskRow \union {None}
             /\ live'[b] = IF Unfinished(b)' THEN 1 ELSE 0
             /\ Unfinished(b)' <=> Unfinished(b) \/ Starts(b)
  <2>1. CASE Starts(b)
    <3>1. /\ task'[b] = [done |-> FALSE, symbols |-> loop.symbols[b]]
          /\ live'[b] = live[b] + 1 /\ live[b] = 0
      BY <2>1 DEF Start, Starts
    <3>2. task'[b] \in TaskRow
      BY <3>1 DEF TaskRow
    <3>3. Unfinished(b)'
      <4>1. task'[b] # None
        BY <3>2, TaskRows
      <4>2. task'[b].done = FALSE
        BY <3>1
      <4> QED BY <4>1, <4>2 DEF Unfinished
    <3> QED BY <2>1, <3>1, <3>2, <3>3
  <2>2. CASE ~Starts(b)
    <3>1. live'[b] = live[b]
      BY <2>2 DEF Start
    <3>2. task'[b] = task[b] \/ (task'[b] = None /\ task[b].done)
      BY <2>2 DEF Start
    <3> QED BY <2>2, <3>1, <3>2 DEF Unfinished, TaskRow
  <2> QED BY <2>1, <2>2
<1>3. task' \in [Brokers -> TaskRow \union {None}]
  <2>1. DOMAIN task' = Brokers /\ task' = [b \in Brokers |-> task'[b]]
    BY DEF Start
  <2> QED BY <1>2, <2>1
<1>4. TypeOK'
  <2>1. live' = [b \in Brokers |-> IF Unfinished(b)' THEN 1 ELSE 0]
    BY <1>2 DEF Start
  <2> QED BY <1>1, <1>3, <2>1 DEF At, NoSymbols, TaskRow
<1>5. ReadInv'
  BY <1>1 DEF ReadInv, At, Asked, AskedFor
<1>6. EndInv'
  BY <1>1 DEF EndInv
<1> QED BY <1>4, <1>5, <1>6

\* A stream that ends, a tick and the shutdown finish tasks and start none.
LEMMA FinishStep ==
    ASSUME SInv,
           \/ \E b \in Brokers : StreamEnds(b) \/ Publish(b)
           \/ Stop \/ CancelRun
    PROVE  SInv' /\ \A b \in Brokers : live'[b] <= live[b]
<1> USE DEF SInv, TypeOK
<1>1. ASSUME NEW b \in Brokers, StreamEnds(b) \/ Publish(b)
      PROVE  SInv' /\ \A c \in Brokers : live'[c] <= live[c]
  <2>1. /\ UNCHANGED <<active, wanted, loop, app, steady, faults>>
        /\ Unfinished(b)
        /\ late' = late \/ (app = "down" /\ late' = [late EXCEPT ![b] = @ + 1])
        /\ \/ Finish(b)
           \/ UNCHANGED <<task, live>> /\ app = "up"
    BY <1>1 DEF StreamEnds, Publish, stopped
  <2>2. late[b] = 0 /\ live[b] = 1 /\ task[b] \in TaskRow
    BY <2>1 DEF EndInv, Unfinished, TaskRow
  <2>3. \A c \in Brokers :
          /\ task'[c] \in TaskRow \union {None}
          /\ live'[c] = IF Unfinished(c)' THEN 1 ELSE 0
          /\ Unfinished(c)' => Unfinished(c)
          /\ late'[c] = late[c] \/ (c = b /\ late'[c] = 1 /\ app = "down")
    <3>2. CASE Finish(b)
      <4>1. /\ task' = [task EXCEPT ![b].done = TRUE]
            /\ live' = [live EXCEPT ![b] = @ - 1]
        BY <3>2 DEF Finish
      <4>2. task'[b] = [task[b] EXCEPT !.done = TRUE] /\ live'[b] = 0
        <5>1. /\ DOMAIN task = Brokers /\ live \in [Brokers -> {0, 1}]
              /\ task = [c \in Brokers |-> task[c]]
          OBVIOUS
        <5> HIDE DEF SInv, TypeOK
        <5>2. task'[b] = [task[b] EXCEPT !.done = TRUE]
          BY <4>1, <5>1, Zenon
        <5> QED BY <2>2, <4>1, <5>1, <5>2
      <4>3. task'[b] \in TaskRow /\ ~Unfinished(b)'
        BY <2>2, <4>2, TaskRows DEF Unfinished
      <4>4. \A c \in Brokers \ {b} : task'[c] = task[c] /\ live'[c] = live[c]
        BY <4>1
      <4> QED BY <2>1, <2>2, <4>2, <4>3, <4>4 DEF EndInv, Unfinished, TaskRow
    <3>3. CASE UNCHANGED <<task, live>>
      BY <2>1, <2>2, <3>3 DEF EndInv, Unfinished, TaskRow
    <3> QED BY <2>1, <3>2, <3>3
  <2>4. task' \in [Brokers -> TaskRow \union {None}] /\ late' \in [Brokers -> 0 .. 2]
    BY <2>1, <2>2, <2>3 DEF Finish, TaskRow
  <2>5. TypeOK'
    <3>1. live' = [c \in Brokers |-> live'[c]]
      BY <2>1 DEF Finish
    <3>2. live' = [c \in Brokers |-> IF Unfinished(c)' THEN 1 ELSE 0]
      BY <2>3, <3>1
    <3> QED BY <2>1, <2>4, <3>2 DEF TaskRow
  <2>6. ReadInv'
    BY <2>1 DEF ReadInv, ReadOf, Asked, AskedFor
  <2>7. late' # late => ~Unfinished(b)'
    BY <2>1, <2>2 DEF Finish, Unfinished, TaskRow
  <2>8. EndInv'
    BY <2>1, <2>2, <2>3, <2>7 DEF EndInv
  <2> QED BY <2>3, <2>5, <2>6, <2>8
<1>2. CASE Stop
  <2>1. /\ UNCHANGED <<active, wanted, loop, steady, late, faults>>
        /\ app = "up" /\ app' = "stopping"
    BY <1>2 DEF Stop
  <2>2. ASSUME NEW c \in Brokers
        PROVE  /\ task'[c] \in TaskRow \union {None}
               /\ ~Unfinished(c)' /\ live'[c] = 0 /\ live[c] \in {0, 1}
    <3>1. CASE Unfinished(c)
      <4>1. /\ task'[c] = [task[c] EXCEPT !.done = TRUE] /\ live'[c] = live[c] - 1
            /\ live[c] = 1 /\ task[c] \in TaskRow
        BY <1>2, <3>1 DEF Stop, Unfinished, TaskRow
      <4> QED BY <4>1, TaskRows DEF Unfinished
    <3>2. CASE ~Unfinished(c)
      BY <1>2, <3>2 DEF Stop, Unfinished, TaskRow
    <3> QED BY <3>1, <3>2
  <2>3. task' \in [Brokers -> TaskRow \union {None}]
    <3>1. task' = [b \in Brokers |-> task'[b]]
      BY <1>2 DEF Stop
    <3> QED BY <2>2, <3>1
  <2>4. TypeOK'
    <3>1. live' = [c \in Brokers |-> live'[c]]
      BY <1>2 DEF Stop
    <3>2. live' = [c \in Brokers |-> IF Unfinished(c)' THEN 1 ELSE 0]
      BY <2>2, <3>1
    <3> QED BY <2>1, <2>3, <3>2 DEF TaskRow
  <2>5. ReadInv' /\ EndInv'
    BY <2>1 DEF ReadInv, ReadOf, EndInv, Asked, AskedFor
  <2> QED BY <2>2, <2>4, <2>5
<1>3. CASE CancelRun
  <2>1. /\ UNCHANGED <<active, wanted, task, live, steady, late, faults>>
        /\ app = "stopping" /\ app' = "down" /\ loop' = At("ended")
    BY <1>3 DEF CancelRun
  <2> QED
    BY <2>1 DEF ReadInv, EndInv, At, NoSymbols, Unfinished, Asked, AskedFor
<1> QED BY <1>1, <1>2, <1>3

\* What a user changes is not steady.
LEMMA UserStep ==
    ASSUME SInv,
           \/ \E a \in Accounts : ChangeAccount(a)
           \/ \E t \in Wishes : ChangePosition(t) \/ ChangeStrategy(t)
    PROVE  SInv'
<1> USE DEF SInv, TypeOK
<1>1. /\ UNCHANGED <<loop, task, live, app, late, faults>>
      /\ active' \in [Accounts -> BOOLEAN] /\ wanted' \in SUBSET Wishes
      /\ steady' = steady \intersect AskedFor(active', wanted')
  BY DEF ChangeAccount, ChangePosition, ChangeStrategy, ChangeSymbol
<1>2. ReadInv'
  BY <1>1 DEF ReadInv, ReadOf, Asked
<1> QED BY <1>1, <1>2 DEF EndInv, Unfinished

-----------------------------------------------------------------------------
\* Every step of the supervisor, the streams, the shutdown and the users keeps it.
LEMMA StreamsNext == ASSUME SInv, [Next]_vars PROVE SInv'
<1>1. CASE UNCHANGED vars
  BY <1>1 DEF vars, SInv, TypeOK, ReadInv, ReadOf, EndInv, Unfinished, Asked, AskedFor
<1>2. CASE Next
  BY <1>2, LoopStep, StartStep, FinishStep, UserStep DEF Next, Supervise
<1> QED BY <1>1, <1>2

\* It holds in every reachable state.
LEMMA StreamsInvariant == Spec => []SInv
BY StreamsInit, StreamsNext, PTL DEF Spec

\* The types, and that _broker_tasks knows every unfinished stream of a broker, of
\* which there is at most one: _reconcile starts one only where it finds none, and
\* no await separates the two.
THEOREM StreamsTypeCorrect == Spec => []TypeOK
<1>1. SInv => TypeOK
  BY DEF SInv
<1> QED BY <1>1, StreamsInvariant, PTL

\* Only Start makes the number of streams of a broker grow.
LEMMA GrowsAtStart ==
    ASSUME SInv, [Next]_vars, NEW b \in Brokers, live'[b] > live[b]
    PROVE  Start /\ Starts(b)
<1>1. live[b] \in Int
  BY DEF SInv, TypeOK
<1>2. CASE UNCHANGED live
  BY <1>1, <1>2
<1>3. CASE Start
  BY <1>1, <1>3 DEF Start
<1>4. CASE (\E c \in Brokers : StreamEnds(c) \/ Publish(c)) \/ Stop \/ CancelRun
  <2>1. SInv' /\ live'[b] <= live[b]
    BY <1>4, FinishStep
  <2>2. live'[b] \in Int
    BY <2>1 DEF SInv, TypeOK
  <2> QED BY <1>1, <2>1, <2>2
<1> QED
  BY <1>2, <1>3, <1>4
  DEF Next, Supervise, Begin, ReadPositions, ReadStrategies, ReconcileFails, Wake,
      ChangeAccount, ChangePosition, ChangeStrategy, ChangeSymbol, vars

\* A stream that _reconcile starts has every symbol that a position or the strategies
\* of an active account of its broker have gone on asking for, although accounts,
\* positions and strategies are read by statements of their own.
THEOREM StreamsStartComplete == Spec => StartsComplete
<1>1. ASSUME SInv, [Next]_vars
      PROVE  [\A b \in Brokers : live'[b] > live[b] =>
                \A t \in steady : BrokerOf[t[1]] = b => t[2] \in task'[b].symbols]_vars
  <2> SUFFICES ASSUME NEW b \in Brokers, live'[b] > live[b],
                      NEW t \in steady, BrokerOf[t[1]] = b
               PROVE  t[2] \in task'[b].symbols
    OBVIOUS
  <2>1. Start /\ Starts(b)
    BY <1>1, GrowsAtStart
  <2>2. task'[b].symbols = loop.symbols[b] /\ loop.at = "read" /\ loop.unread = {}
    BY <2>1 DEF Start
  <2> QED BY <1>1, <2>2 DEF SInv, ReadInv, ReadOf
<1> QED BY <1>1, StreamsInvariant, PTL DEF Spec, StartsComplete

\* After stop() and the cancellation of run() no stream starts, and one that is left
\* publishes at most once.
THEOREM StreamsStopForGood == Spec => StopsForGood
<1>1. ASSUME SInv, SInv', [Next]_vars
      PROVE  [\A b \in Brokers : late'[b] <= 1 /\ (app = "down" => live'[b] <= live[b])]_vars
  <2> SUFFICES ASSUME NEW b \in Brokers
               PROVE  late'[b] <= 1 /\ (app = "down" => live'[b] <= live[b])
    OBVIOUS
  <2>1. late'[b] <= 1
    BY <1>1 DEF SInv, EndInv
  <2>2. ASSUME app = "down" PROVE live'[b] <= live[b]
    <3>1. loop.at = "ended"
      BY <1>1, <2>2 DEF SInv, EndInv
    <3>2. ~Start
      BY <3>1 DEF Start
    <3>3. ~(live'[b] > live[b])
      BY <1>1, <3>2, GrowsAtStart
    <3>4. live[b] \in Int /\ live'[b] \in Int
      BY <1>1 DEF SInv, TypeOK
    <3> QED BY <3>3, <3>4
  <2> QED BY <2>1, <2>2
<1> QED BY <1>1, StreamsInvariant, PTL DEF Spec, StopsForGood
=============================================================================
