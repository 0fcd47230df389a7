---------------------------- MODULE InstrumentSync ----------------------------
(***************************************************************************)
(* The copy of the brokers' master contracts in the table instruments.     *)
(* The daily job and an administrator's request synchronise a broker       *)
(* through the same service, each in its own session: the files of the     *)
(* contract are fetched one after the other, their records are upserted    *)
(* one by one, holding their rows until the commit, and the status row of  *)
(* the broker is written in the same commit.  A download that breaks       *)
(* commits what came before it, and no row is ever deleted.                *)
(***************************************************************************)
EXTENDS Integers, Sequences

CONSTANTS
    Brokers, Instruments,
    MaxVersion,     \* bound: master contracts that a broker publishes
    Contract,       \* each version of a broker's contract: files of instruments
    None            \* no status row; no broker

VARIABLES
    newest,         \* the version that a download of a file gets now
    active,         \* the brokers with an active account
    row,            \* the version each instrument was upserted from, 0: no row
    status,         \* of each broker, master_contract_status.status
    got,            \* history: the last complete download committed
    task,           \* the job and the request, see Fresh
    todo,           \* the brokers the job still has to do
    fault           \* history: the last step was a failure

world == <<newest, active>>
table == <<row, status, got>>
state == <<world, table, task, todo>>
syncVars == <<state, fault>>

Tasks == {"job", "admin"}
Versions == 1 .. MaxVersion

ASSUME SyncAssumption ==
    /\ None \notin Brokers \union {"ok", "failed"}
    /\ MaxVersion \in Nat \ {0}
    /\ Contract \in [Brokers -> [Versions -> Seq(Seq(Instruments))]]
    \* The addresses of the files are fixed, what is in them is not.
    /\ \A b \in Brokers : \A v, w \in Versions : Len(Contract[b][v]) = Len(Contract[b][w])

(* Of each task: where it is, its broker, the number and version of the    *)
(* file at hand and the place in it, the version of each record upserted   *)
(* and not yet committed, and the status its session loaded.               *)
Nothing == [i \in Instruments |-> 0]
Fresh(place) == [pc |-> place, broker |-> None, file |-> 0, ver |-> 1, next |-> 1,
                held |-> Nothing, seen |-> None]

SyncInit ==
    /\ newest = 1 /\ active \in SUBSET Brokers
    /\ row = [b \in Brokers |-> Nothing]
    /\ status = [b \in Brokers |-> None]
    /\ got = [b \in Brokers |-> Nothing]
    /\ task = [t \in Tasks |-> Fresh("idle")]
    /\ todo = {}
    /\ fault = FALSE

-----------------------------------------------------------------------------
(* The job and the request. *)

\* Mutant: a broker that failed is left out until someone looks at it.
StartJobHealthy ==
    /\ task["job"].pc = "idle"
    /\ todo' = {b \in active : status[b] # "failed"}
    /\ task' = [task EXCEPT !["job"].pc = "choose"]
    /\ UNCHANGED <<world, table>>

(* The brokers are read once. *)
StartJob ==
    /\ task["job"].pc = "idle"
    /\ todo' = active
    /\ task' = [task EXCEPT !["job"].pc = "choose"]
    /\ UNCHANGED <<world, table>>

EndJob ==
    /\ task["job"].pc = "choose" /\ todo = {}
    /\ task' = [task EXCEPT !["job"].pc = "idle"]
    /\ UNCHANGED <<world, table, todo>>

Called(t, b) ==
    IF t = "job" THEN task[t].pc = "choose" /\ b \in todo ELSE task[t].pc = "idle"

(* sync_broker finds an account and starts the download. *)
Begin(t, b) ==
    /\ Called(t, b) /\ b \in active
    /\ task' = [task EXCEPT ![t] = [Fresh("download") EXCEPT !.broker = b]]
    /\ todo' = IF t = "job" THEN todo \ {b} ELSE todo
    /\ UNCHANGED <<world, table>>

(* The account's adapter cannot be made: the job goes on ... *)
AdapterFails(b) ==
    /\ Called("job", b) /\ b \in active
    /\ todo' = todo \ {b}
    /\ UNCHANGED <<world, table, task>>

(* ... as it does without an active account. *)
SkipBroker(b) ==
    /\ Called("job", b) /\ b \notin active
    /\ todo' = todo \ {b}
    /\ UNCHANGED <<world, table, task>>

-----------------------------------------------------------------------------
(* The download. *)

(* The task leaves sync_broker and holds nothing; an error of the database *)
(* leaves the job with a session in which every other broker fails too.    *)
Leave(t, rest) ==
    /\ task' = [task EXCEPT ![t] =
                  Fresh(IF t = "job" /\ rest # {} THEN "choose" ELSE "idle")]
    /\ todo' = IF t = "job" THEN rest ELSE todo

(* What is left of the file at hand; none is at hand before the first. *)
File(t) == IF task[t].file = 0 THEN <<>> ELSE Contract[task[t].broker][task[t].ver][task[t].file]
AtRecord(t) == task[t].pc = "download" /\ task[t].next <= Len(File(t))
AtFileEnd(t) == task[t].pc = "download" /\ task[t].next > Len(File(t))
Files(t) == Len(Contract[task[t].broker][newest])

(* The next file is fetched, as it is by then. *)
FetchFile(t) ==
    /\ AtFileEnd(t) /\ task[t].file < Files(t)
    /\ task' = [task EXCEPT ![t].file = @ + 1, ![t].ver = newest, ![t].next = 1]
    /\ UNCHANGED <<world, table, todo>>

Holds(u, b, i) == task[u].broker = b /\ task[u].held[i] # 0
Waits(t, u) == t # u /\ AtRecord(t) /\ Holds(u, task[t].broker, File(t)[task[t].next])

\* Mutant: every record is committed on its own.
UpsertCommits(t) ==
    LET i == File(t)[task[t].next] IN
    /\ AtRecord(t)
    /\ row' = [row EXCEPT ![task[t].broker][i] = task[t].ver]
    /\ task' = [task EXCEPT ![t].held[i] = task[t].ver, ![t].next = @ + 1]
    /\ UNCHANGED <<world, status, got, todo>>

(* The next record, in the order of the file; its row waits for the task   *)
(* that has upserted it.                                                   *)
Upsert(t) ==
    LET i == File(t)[task[t].next] IN
    /\ AtRecord(t) /\ \A u \in Tasks : ~Waits(t, u)
    /\ task' = [task EXCEPT ![t].held[i] = task[t].ver, ![t].next = @ + 1]
    /\ UNCHANGED <<world, table, todo>>

(* Two contracts list two instruments in different orders: the database    *)
(* fails one of the two statements.                                        *)
DeadlockVictim(t) ==
    /\ \E u \in Tasks : Waits(t, u) /\ Waits(u, t)
    /\ Leave(t, {})
    /\ UNCHANGED <<world, table>>

(* The download is over; _update_status loads the row of the broker. *)
LoadStatus(t, outcome) ==
    /\ task' = [task EXCEPT ![t] = [Fresh(outcome) EXCEPT
                   !.broker = task[t].broker, !.held = task[t].held,
                   !.seen = status[task[t].broker]]]
    /\ UNCHANGED <<world, table, todo>>

DownloadEnds(t) == AtFileEnd(t) /\ task[t].file = Files(t) /\ LoadStatus(t, "ok")
DownloadBreaks(t) == task[t].pc = "download" /\ LoadStatus(t, "failed")

-----------------------------------------------------------------------------
(* The commit. *)

Finished(t) == task[t].pc \in {"ok", "failed"}

(* Both sessions found no status row and both insert one. *)
Collides(t) == task[t].seen = None /\ status[task[t].broker] # None

(* The records, and the status if it differs from the one loaded. *)
Commit(t) ==
    LET b == task[t].broker IN
    /\ Finished(t) /\ ~Collides(t)
    /\ row' = [row EXCEPT ![b] =
                 [i \in Instruments |-> IF task[t].held[i] # 0 THEN task[t].held[i] ELSE @[i]]]
    /\ status' = IF task[t].seen = task[t].pc THEN status
                 ELSE [status EXCEPT ![b] = task[t].pc]
    /\ got' = IF task[t].pc = "ok" THEN [got EXCEPT ![b] = task[t].held] ELSE got
    /\ Leave(t, todo)
    /\ UNCHANGED world

CommitCollides(t) ==
    /\ Finished(t) /\ Collides(t)
    /\ Leave(t, {})
    /\ UNCHANGED <<world, table>>

DatabaseFails(t) ==
    /\ task[t].pc \notin {"idle", "choose"}
    /\ Leave(t, {})
    /\ UNCHANGED <<world, table>>

Restart ==
    /\ task' = [t \in Tasks |-> Fresh("idle")] /\ todo' = {}
    /\ UNCHANGED <<world, table>>

-----------------------------------------------------------------------------
(* The brokers, and the accounts. *)

Publish ==
    /\ newest < MaxVersion /\ newest' = newest + 1
    /\ UNCHANGED <<active, table, task, todo>>

ChangeAccount(b) ==
    /\ active' = IF b \in active THEN active \ {b} ELSE active \union {b}
    /\ UNCHANGED <<newest, table, task, todo>>

Sync(t) ==
    \/ FetchFile(t) \/ Upsert(t) \/ DeadlockVictim(t)
    \/ DownloadEnds(t) \/ Commit(t) \/ CommitCollides(t)
Job == StartJob \/ EndJob \/ \E b \in Brokers : Begin("job", b) \/ SkipBroker(b)

Step ==
    \/ Job \/ Publish
    \/ \E b \in Brokers : Begin("admin", b) \/ ChangeAccount(b)
    \/ \E t \in Tasks : Sync(t)

(* A download, the database, an adapter or the process fails. *)
Failure ==
    \/ Restart
    \/ \E t \in Tasks : DownloadBreaks(t) \/ DatabaseFails(t)
    \/ \E b \in Brokers : AdapterFails(b)

SyncNext == (Step /\ fault' = FALSE) \/ (Failure /\ fault' = TRUE)

SyncSpec == SyncInit /\ [][SyncNext]_syncVars

(* The schedule comes round again and every started call goes on; a row    *)
(* that is waited for is granted in turn.  Nobody has to ask for a sync.   *)
FairSync == SyncSpec /\ WF_state(Job) /\ \A t \in Tasks : SF_state(Sync(t))

-----------------------------------------------------------------------------
\* A broker shown as synchronised has every record of the last complete download of
\* its contract exactly as that download had it: no other download, that overlapped,
\* broke, was cut short or read an older file, has touched one of them since.  Rows
\* of instruments that the download did not have stay, and the property allows them.
OkMeansComplete ==
    \A b \in Brokers : status[b] = "ok" =>
        \A i \in Instruments : got[b][i] # 0 => row[b][i] = got[b][i]

(* Every record of the newest contract is in the table, as it is there. *)
Current(b) ==
    \A k \in DOMAIN Contract[b][newest] : \A j \in DOMAIN Contract[b][newest][k] :
        row[b][Contract[b][newest][k][j]] = newest

\* While a broker keeps an active account, the records of its newest contract come
\* and stay in the table, and it is shown as synchronised, whatever downloads,
\* commits and restarts failed before and unless they fail again and again.
CatchesUp ==
    \A b \in Brokers :
        <>[](b \in active) =>
            []<>fault \/ <>[](status[b] = "ok" /\ Current(b))
=============================================================================
