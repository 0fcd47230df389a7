--------------------------- MODULE StreamingManager ---------------------------
(***************************************************************************)
(* The supervisor of the broker streams.  Every thirty seconds it reads    *)
(* the active accounts, then of one account after the other the positions  *)
(* and, by a second statement, the enabled strategies; then it starts, in  *)
(* one go, a task for each broker that has symbols and no task running.    *)
(* Streams fail at any time, accounts, positions and strategies change at  *)
(* any time, and the shutdown of the application cancels streams and       *)
(* supervisor wherever they are.                                           *)
(***************************************************************************)
EXTENDS Integers, FiniteSets

CONSTANTS
    Accounts, Brokers, Symbols,
    BrokerOf,       \* the broker of each account
    Streamable,     \* brokers whose adapter has stream_ticks
    Wishes,         \* bound: who may ask for what, as triples of an account, a
                    \* symbol and its source
    MaxFaults,      \* bound: reconciliations that fail
    None            \* no task, no account

VARIABLES
    active,      \* is_active of each account
    wanted,      \* the symbols of the positions and enabled strategies there are
    loop,        \* where run() is, and what _reconcile has read
    task,        \* _broker_tasks: the task of each broker, finished or not
    live,        \* number of unfinished stream tasks of each broker
    app,         \* the lifespan of the application
    steady,      \* history: the wishes held since the reconciliation began
    late,        \* ticks published after the shutdown
    faults

vars == <<active, wanted, loop, task, live, app, steady, late, faults>>

Sources == {"positions", "strategies"}
ASSUME StreamingAssumption ==
    /\ BrokerOf \in [Accounts -> Brokers] /\ Streamable \subseteq Brokers
    /\ Wishes \subseteq Accounts \X Symbols \X Sources
    /\ MaxFaults \in Nat
    /\ None \notin Accounts \union [done : BOOLEAN, symbols : SUBSET Symbols]

NoSymbols == [b \in Brokers |-> {}]
At(place) == [at |-> place, accounts |-> {}, unread |-> {}, half |-> None,
              symbols |-> NoSymbols]

(* What the accounts of on ask for, and one source of one account. *)
AskedFor(on, wishes) == {t \in wishes : on[t[1]]}
Asked == AskedFor(active, wanted)
SymbolsOf(a, source) == {t[2] : t \in {u \in wanted : u[1] = a /\ u[3] = source}}
Unfinished(b) == task[b] # None /\ ~task[b].done

Init ==
    /\ active \in [Accounts -> BOOLEAN]
    /\ wanted \in SUBSET Wishes
    /\ loop = At("top")
    /\ task = [b \in Brokers |-> None]
    /\ live = [b \in Brokers |-> 0]
    /\ app = "up"
    /\ steady = {}
    /\ late = [b \in Brokers |-> 0]
    /\ faults = 0

-----------------------------------------------------------------------------
(* The supervisor.  stopped: the stop event is set. *)
stopped == app # "up"

(* The loop ends at the stop event, else _reconcile selects the accounts. *)
Begin ==
    LET accounts == {a \in Accounts : active[a]} IN
    /\ loop.at = "top"
    /\ loop' = IF stopped THEN At("ended")
               ELSE [at |-> "read", accounts |-> accounts, unread |-> accounts,
                     half |-> None, symbols |-> NoSymbols]
    /\ steady' = IF stopped THEN steady ELSE Asked
    /\ UNCHANGED <<active, wanted, task, live, app, late, faults>>

\* Mutant: the symbols of an account replace those of the broker's other accounts.
ReadReplaces(a) ==
    /\ loop.at = "read" /\ a \in loop.unread /\ loop.half = None
    /\ loop' = [loop EXCEPT !.half = a, !.symbols[BrokerOf[a]] = SymbolsOf(a, "positions")]
    /\ UNCHANGED <<active, wanted, task, live, app, steady, late, faults>>

(* The positions of the next account ... *)
ReadPositions(a) ==
    /\ loop.at = "read" /\ a \in loop.unread /\ loop.half = None
    /\ loop' = [loop EXCEPT !.half = a,
                            !.symbols[BrokerOf[a]] = @ \union SymbolsOf(a, "positions")]
    /\ UNCHANGED <<active, wanted, task, live, app, steady, late, faults>>

(* ... and its enabled strategies, as they are by then. *)
ReadStrategies(a) ==
    /\ loop.at = "read" /\ loop.half = a
    /\ loop' = [loop EXCEPT !.half = None, !.unread = @ \ {a},
                            !.symbols[BrokerOf[a]] = @ \union SymbolsOf(a, "strategies")]
    /\ UNCHANGED <<active, wanted, task, live, app, steady, late, faults>>

\* Mutant: a task is replaced whether it has finished or not.
Replaced(b) == b \in {BrokerOf[a] : a \in loop.accounts} /\ loop.symbols[b] # {}

(* Which brokers get a task: those of an account that was active, without  *)
(* an unfinished one and with symbols.                                     *)
Starts(b) ==
    /\ b \in {BrokerOf[a] : a \in loop.accounts} /\ loop.symbols[b] # {}
    /\ ~Unfinished(b)

(* The tasks of finished streams are forgotten, new ones are created; there *)
(* is no await in this loop.                                               *)
Start ==
    /\ loop.at = "read" /\ loop.unread = {}
    /\ task' = [b \in Brokers |->
                  IF Starts(b) THEN [done |-> FALSE, symbols |-> loop.symbols[b]]
                  ELSE IF task[b] # None /\ task[b].done
                            /\ b \in {BrokerOf[a] : a \in loop.accounts}
                       THEN None ELSE task[b]]
    /\ live' = [b \in Brokers |-> IF Starts(b) THEN live[b] + 1 ELSE live[b]]
    /\ loop' = At("wait")
    /\ UNCHANGED <<active, wanted, app, steady, late, faults>>

\* Mutant: the failure ends run().
ReconcileKills ==
    /\ loop.at = "read" /\ faults < MaxFaults
    /\ faults' = faults + 1
    /\ loop' = At("ended")
    /\ UNCHANGED <<active, wanted, task, live, app, steady, late>>

(* A statement fails; run() logs it and waits for the next turn. *)
ReconcileFails ==
    /\ loop.at = "read" /\ faults < MaxFaults
    /\ faults' = faults + 1
    /\ loop' = At("wait")
    /\ UNCHANGED <<active, wanted, task, live, app, steady, late>>

(* Thirty seconds pass, or the stop event is set. *)
Wake ==
    /\ loop.at = "wait"
    /\ loop' = At("top")
    /\ UNCHANGED <<active, wanted, task, live, app, steady, late, faults>>

-----------------------------------------------------------------------------
(* The streams. *)

Finish(b) ==
    /\ task' = [task EXCEPT ![b].done = TRUE]
    /\ live' = [live EXCEPT ![b] = @ - 1]

(* The broker has no stream, cannot be built, fails or closes the stream. *)
StreamEnds(b) ==
    /\ Unfinished(b)
    /\ Finish(b)
    /\ UNCHANGED <<active, wanted, loop, app, steady, late, faults>>

\* Mutant: the stop event is not looked at.
PublishOn(b) ==
    /\ Unfinished(b) /\ b \in Streamable
    /\ late' = IF app = "down" /\ late[b] < 2 THEN [late EXCEPT ![b] = @ + 1] ELSE late
    /\ UNCHANGED <<active, wanted, loop, task, live, app, steady, faults>>

(* A tick is published, then the stop event is looked at. *)
Publish(b) ==
    /\ Unfinished(b) /\ b \in Streamable
    /\ late' = IF app = "down" /\ late[b] < 2 THEN [late EXCEPT ![b] = @ + 1] ELSE late
    /\ IF stopped THEN Finish(b) ELSE UNCHANGED <<task, live>>
    /\ UNCHANGED <<active, wanted, loop, app, steady, faults>>

-----------------------------------------------------------------------------
(* The shutdown: stop() sets the event, cancels the tasks there are and     *)
(* waits for them, while a reconciliation under way may go on; the          *)
(* supervisor is cancelled after that.                                     *)
Stop ==
    /\ app = "up"
    /\ app' = "stopping"
    /\ task' = [b \in Brokers |-> IF Unfinished(b) THEN [task[b] EXCEPT !.done = TRUE]
                                                   ELSE task[b]]
    /\ live' = [b \in Brokers |-> IF Unfinished(b) THEN live[b] - 1 ELSE live[b]]
    /\ UNCHANGED <<active, wanted, loop, steady, late, faults>>

CancelRun ==
    /\ app = "stopping"
    /\ app' = "down"
    /\ loop' = At("ended")
    /\ UNCHANGED <<active, wanted, task, live, steady, late, faults>>

-----------------------------------------------------------------------------
(* The users. *)
ChangeAccount(a) ==
    /\ active' = [active EXCEPT ![a] = ~@]
    /\ steady' = steady \intersect AskedFor(active', wanted)
    /\ UNCHANGED <<wanted, loop, task, live, app, late, faults>>

ChangeSymbol(t) ==
    /\ wanted' = IF t \in wanted THEN wanted \ {t} ELSE wanted \union {t}
    /\ steady' = steady \intersect AskedFor(active, wanted')
    /\ UNCHANGED <<active, loop, task, live, app, late, faults>>

(* A position is opened by a fill, synchronised or deleted ... *)
ChangePosition(t) == t[3] = "positions" /\ ChangeSymbol(t)

(* ... and a strategy is enabled, disabled, edited or deleted. *)
ChangeStrategy(t) == t[3] = "strategies" /\ ChangeSymbol(t)

-----------------------------------------------------------------------------
Supervise ==
    \/ Begin \/ Start \/ Wake
    \/ \E a \in Accounts : ReadPositions(a) \/ ReadStrategies(a)

Next ==
    \/ Supervise \/ ReconcileFails
    \/ \E b \in Brokers : StreamEnds(b) \/ Publish(b)
    \/ Stop \/ CancelRun
    \/ \E a \in Accounts : ChangeAccount(a)
    \/ \E t \in Wishes : ChangePosition(t) \/ ChangeStrategy(t)

Spec == Init /\ [][Next]_vars

(* Every await of the supervisor ends: with its result, an error or the    *)
(* timeout of the wait.                                                    *)
FairSpec == Spec /\ WF_vars(Supervise)

-----------------------------------------------------------------------------
\* Every variable keeps its type, and live is the number of unfinished tasks the
\* table knows: none is forgotten while it runs, and no broker has two.
TypeOK ==
    /\ active \in [Accounts -> BOOLEAN] /\ wanted \subseteq Wishes
    /\ loop \in [at : {"top", "read", "wait", "ended"}, accounts : SUBSET Accounts,
                 unread : SUBSET Accounts, half : Accounts \union {None},
                 symbols : [Brokers -> SUBSET Symbols]]
    /\ task \in [Brokers -> [done : BOOLEAN, symbols : SUBSET Symbols] \union {None}]
    /\ live = [b \in Brokers |-> IF Unfinished(b) THEN 1 ELSE 0]
    /\ app \in {"up", "stopping", "down"}
    /\ steady \subseteq Wishes
    /\ late \in [Brokers -> 0 .. 2] /\ faults \in 0 .. MaxFaults

\* A stream starts with every symbol that a position, or the strategies, of an
\* active account of its broker have asked for since the reconciliation began,
\* although accounts, positions and strategies are read one after the other and
\* change between the reads.  A symbol that goes over from a strategy to a position
\* meanwhile is asked for by neither throughout: it may be missed.
StartsComplete ==
    [][\A b \in Brokers : live'[b] > live[b] =>
         \A t \in steady : BrokerOf[t[1]] = b => t[2] \in task'[b].symbols]_vars

\* After the shutdown no stream starts; one that a reconciliation started while
\* its siblings were being cancelled publishes at most one tick more.
StopsForGood ==
    [][\A b \in Brokers : late'[b] <= 1 /\ (app = "down" => live'[b] <= live[b])]_vars

\* While the application is up and a position, or the strategies, of an active
\* account go on asking for a symbol, its broker has a stream again and again, however
\* often the stream ends, whatever the other accounts do and although some
\* reconciliations fail.
StreamsRecover ==
    \A t \in Wishes :
        <>[](app = "up" /\ t \in Asked) => []<>Unfinished(BrokerOf[t[1]])
=============================================================================
