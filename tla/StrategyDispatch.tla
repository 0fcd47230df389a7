--------------------------- MODULE StrategyDispatch ---------------------------
(***************************************************************************)
(* The minute job that runs the strategies, and the endpoints that create, *)
(* enable, disable, edit and delete them meanwhile.  A sweep reads the     *)
(* rows of the strategies once, in one session whose identity map keeps    *)
(* them, then asks for the latest candle of each watched symbol and hands  *)
(* it to the strategy; an error of the database outside the one guarded    *)
(* call ends the sweep.  Whether a candle is found is a choice.  What a    *)
(* signal becomes, an order or a request, is the business of               *)
(* OrderExecution and ApprovalWorkflow.                                    *)
(***************************************************************************)
EXTENDS Integers, Sequences, FiniteSets

CONSTANTS
    Strategies,    \* ids of strategies, each used once
    Symbols,       \* instruments
    SymbolLists,   \* what the parameters of a strategy may list
    Clients,       \* requests to the endpoints in flight
    None,          \* no row yet, no request
    Gone           \* the row was deleted with its account

VARIABLES
    strategy,   \* the table: the row of each strategy
    sweep,      \* the job: is it running or did it fail, the lists it read, its
                \* place in each
    request,    \* what each request will write, computed from the row it loaded
    allowed     \* history: signals a pair may still give although the table no
                \* longer asks for it

vars == <<strategy, sweep, request, allowed>>

Row == [is_enabled : BOOLEAN, is_deleted : BOOLEAN, symbols : SymbolLists]
Pairs == Strategies \X Symbols
ASSUME DispatchAssumption ==
    /\ SymbolLists \subseteq Seq(Symbols)   \* a list may repeat a symbol
    /\ None \notin Row
    /\ Gone \notin Row

\* Mutant: a strategy that was deleted while it was being enabled is selected.
SelectedEnabled(table) ==
    {s \in Strategies : table[s] \in Row /\ table[s].is_enabled}

(* What a sweep selects, and execute_one checks again. *)
Selected(table) ==
    {s \in Strategies : table[s] \in Row /\ table[s].is_enabled /\ ~table[s].is_deleted}

(* What the user has asked for. *)
Listed(list, x) == \E j \in DOMAIN list : list[j] = x
Asked(table) ==
    {p \in Pairs : /\ table[p[1]] \in Row
                   /\ table[p[1]].is_enabled /\ ~table[p[1]].is_deleted
                   /\ Listed(table[p[1]].symbols, p[2])}

(* No sweep runs; the last one may have failed. *)
Idle(failed) == [running |-> FALSE, failed |-> failed,
                 read |-> [s \in Strategies |-> <<>>], next |-> [s \in Strategies |-> 1]]

(* The places of a list the sweep has not visited, those of one symbol.    *)
Left(s) == sweep.next[s] .. Len(sweep.read[s])
Due(p)  == {j \in Left(p[1]) : sweep.read[p[1]][j] = p[2]}

(* A new strategy is not enabled. *)
Created == {r \in Row : ~r.is_enabled /\ ~r.is_deleted}

Init ==
    /\ strategy \in [Strategies -> {None} \union Created]
    /\ sweep = Idle(FALSE)
    /\ request = [c \in Clients |-> None]
    /\ allowed = [p \in Pairs |-> 0]

-----------------------------------------------------------------------------
(* The job.  max_instances is one: the next run waits for this one. *)

EndSweep(failed) ==
    /\ sweep' = Idle(failed)
    /\ allowed' = [p \in Pairs |-> 0]

StartSweep ==
    /\ ~sweep.running /\ Selected(strategy) # {}
    /\ sweep' = [Idle(FALSE) EXCEPT
         !.running = TRUE,
         !.read = [s \in Strategies |->
                     IF s \in Selected(strategy) THEN strategy[s].symbols ELSE <<>>]]
    /\ UNCHANGED <<strategy, request, allowed>>

(* No strategy is enabled: run_once returns at once. *)
NothingToDo ==
    /\ ~sweep.running /\ Selected(strategy) = {}
    /\ UNCHANGED vars

(* The list of one strategy is gone through to its end, then another's, in *)
(* no order the code fixes.  The symbol of this visit is At(s).            *)
At(s) == sweep.read[s][sweep.next[s]]
Reach(s) ==
    /\ sweep.running /\ Left(s) # {}
    /\ \A t \in Strategies \ {s} : sweep.next[t] = 1 \/ Left(t) = {}
    /\ sweep' = [sweep EXCEPT !.next[s] = @ + 1]

\* Mutant: the strategies that come after one without a candle are left out.
SkipSymbolReturns(s) ==
    /\ sweep.running /\ Left(s) # {}
    /\ EndSweep(FALSE)
    /\ UNCHANGED <<strategy, request>>

(* No candle of it has been stored: the symbol is passed over. *)
SkipSymbol(s) ==
    /\ Reach(s)
    /\ UNCHANGED <<strategy, request, allowed>>

(* execute_one: session.get returns the row the sweep has loaded, so its   *)
(* check of the flags does not see what was committed since.  A fresh      *)
(* instance is built for the call; it may return a signal, which may be    *)
(* refused or fail without consequence for the sweep.  Without its account *)
(* a strategy gives no signal, unless that is still loaded too.            *)
ExecuteOne(s) ==
    LET p == <<s, At(s)>>
    IN  /\ Reach(s)
        /\ \/ allowed' = allowed
           \/ allowed' = IF p \in Asked(strategy) THEN allowed
                                                  ELSE [allowed EXCEPT ![p] = @ - 1]
        /\ UNCHANGED <<strategy, request>>

FinishSweep ==
    /\ sweep.running /\ \A s \in Strategies : Left(s) = {}
    /\ EndSweep(FALSE)
    /\ UNCHANGED <<strategy, request>>

(* ohlcv.latest raises, itself or because execute_one has left the session *)
(* in a failed transaction: strategy_job logs it, and what was left of the *)
(* sweep is not done.                                                      *)
AbortSweep ==
    /\ sweep.running
    /\ EndSweep(TRUE)
    /\ UNCHANGED <<strategy, request>>

-----------------------------------------------------------------------------
(* The endpoints: each loads the row, then commits the columns whose value *)
(* differs from what it loaded.                                            *)

Commit(table) ==
    /\ strategy' = table
    /\ allowed' = [p \in Pairs |->
                     IF p \in Asked(table) THEN 0
                     ELSE IF p \in Asked(strategy) THEN Cardinality(Due(p))
                     ELSE allowed[p]]
    /\ UNCHANGED sweep

Create(s) ==
    /\ strategy[s] = None
    /\ \E row \in Created : Commit([strategy EXCEPT ![s] = row])
    /\ UNCHANGED request

\* Mutant: the request writes every column back.
ChangedAll(old, new) == new

Changed(old, new) ==
    [col \in {c \in DOMAIN old : old[c] # new[c]} |-> new[col]]

Written(row, write) ==
    [col \in DOMAIN row |-> IF col \in DOMAIN write THEN write[col] ELSE row[col]]

(* The row as enable, disable, update and delete leave it. *)
Edits(r) ==
    {[r EXCEPT !.is_enabled = b] : b \in BOOLEAN}
    \union {[r EXCEPT !.symbols = xs] : xs \in SymbolLists}
    \union {[r EXCEPT !.is_deleted = TRUE, !.is_enabled = FALSE]}

(* get answers 404 for a deleted strategy.  A request that finds the row as *)
(* it wants it writes nothing, and is left out.                            *)
LoadForEdit(c, s) ==
    /\ request[c] = None /\ strategy[s] \in Row /\ ~strategy[s].is_deleted
    /\ \E new \in Edits(strategy[s]) \ {strategy[s]} :
         request' = [request EXCEPT ![c] = [strategy |-> s, write |-> Changed(strategy[s], new)]]
    /\ UNCHANGED <<strategy, sweep, allowed>>

CommitEdit(c) ==
    /\ request[c] # None /\ strategy[request[c].strategy] \in Row
    /\ Commit([strategy EXCEPT ![request[c].strategy] = Written(@, request[c].write)])
    /\ request' = [request EXCEPT ![c] = None]

(* The UPDATE matches no row: the request is answered with an error. *)
EditFindsNoRow(c) ==
    /\ request[c] # None /\ strategy[request[c].strategy] = Gone
    /\ request' = [request EXCEPT ![c] = None]
    /\ UNCHANGED <<strategy, sweep, allowed>>

(* Deleting an account deletes the rows of its strategies, whatever is in  *)
(* flight for them.                                                        *)
DeleteAccount(S) ==
    /\ \A s \in S : strategy[s] \in Row
    /\ Commit([s \in Strategies |-> IF s \in S THEN Gone ELSE strategy[s]])
    /\ UNCHANGED request

-----------------------------------------------------------------------------
Sweep ==
    \/ StartSweep \/ NothingToDo \/ FinishSweep
    \/ \E s \in Strategies : SkipSymbol(s) \/ ExecuteOne(s)

Next ==
    \/ Sweep \/ AbortSweep
    \/ \E s \in Strategies : Create(s) \/ (\E c \in Clients : LoadForEdit(c, s))
    \/ \E c \in Clients : CommitEdit(c) \/ EditFindsNoRow(c)
    \/ \E S \in SUBSET Strategies \ {{}} : DeleteAccount(S)

Spec == Init /\ [][Next]_vars

(* The scheduler fires the job every minute and the calls of a sweep       *)
(* return or raise.                                                        *)
FairSpec == Spec /\ WF_vars(Sweep)

-----------------------------------------------------------------------------
(* The columns an endpoint writes. *)
Writes == [is_enabled : BOOLEAN] \union [symbols : SymbolLists] \union [is_deleted : {TRUE}]
          \union [is_deleted : {TRUE}, is_enabled : {FALSE}]

\* Type invariant: the sweep stays within the lists it has read, and what a
\* request will write are columns an endpoint writes.
TypeOK ==
    /\ strategy \in [Strategies -> Row \union {None, Gone}]
    /\ sweep \in [running : BOOLEAN, failed : BOOLEAN, read : [Strategies -> SymbolLists \union {<<>>}],
                  next : [Strategies -> Nat \ {0}]]
    /\ \A s \in Strategies : sweep.next[s] <= Len(sweep.read[s]) + 1
    /\ \A c \in Clients : request[c] # None =>
         request[c].strategy \in Strategies /\ request[c].write \in Writes
    /\ allowed \in [Pairs -> Int]

\* Disabling, deleting or editing a strategy stops it within the sweep that is
\* running: for a symbol no longer asked for at most as many signals follow as
\* that sweep had visits of it ahead (as often as the list it read repeats it),
\* and none once it has ended, however the requests, which may overlap, the
\* deletion of the account and sweeps that fail are interleaved.
StopsWithinASweep == \A p \in Pairs : allowed[p] >= 0

\* The sweep goes past a place of the pair's symbol.
Visit(p) ==
    LET s == p[1]
    IN  Left(s) # {} /\ At(s) = p[2] /\ sweep'.next[s] = sweep.next[s] + 1

\* A symbol that an enabled strategy goes on watching is visited again and
\* again, unless sweeps fail again and again: neither symbols without a candle,
\* nor other strategies, nor what is edited meanwhile can starve it.
Dispatched ==
    \A p \in Pairs :
        <>[](p \in Asked(strategy)) =>
            []<><<Visit(p)>>_vars \/ []<>sweep.failed
=============================================================================
