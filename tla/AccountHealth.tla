---------------------------- MODULE AccountHealth ----------------------------
(***************************************************************************)
(* The rows of broker accounts and who writes them: the health monitor's   *)
(* scheduled run, which loads the rows, probes the brokers for seconds and *)
(* commits everything at once; and the account endpoints, which create,    *)
(* edit and delete rows meanwhile.  The ORM writes only the columns that   *)
(* differ from what was loaded, with the values computed from it, and a    *)
(* commit that has to write a row that is gone fails as a whole.           *)
(***************************************************************************)
EXTENDS Integers, FiniteSets

CONSTANTS
    Accounts,                 \* ids of accounts, each used once
    Clients,                  \* PATCH requests in flight
    FAILURES_BEFORE_DISABLE,  \* health_monitor.py: 3
    MaxLost,                  \* bound: runs lost to a crash or a database error
    NotYet, Deleted           \* the account has no row

VARIABLES
    accounts,   \* the table: the row of each account, committed
    up,         \* does the broker answer a probe of this account?
    monitor,    \* the scheduled run: stage, accounts to probe, results, rows loaded
    update,     \* what each PATCH request has loaded
    failed,     \* probes that failed since the last success that was committed
    lost        \* runs lost so far

vars == <<accounts, up, monitor, update, failed, lost>>

(* consecutive_health_failures is compared with the threshold only, so it  *)
(* is counted up to it.                                                    *)
Counts == 0 .. FAILURES_BEFORE_DISABLE
CountUp(n) == IF n < FAILURES_BEFORE_DISABLE THEN n + 1 ELSE n

(* stamped: health_disabled_at is not NULL. *)
Row == [is_active : BOOLEAN, stamped : BOOLEAN, failures : Counts]
ASSUME HealthAssumption ==
    /\ FAILURES_BEFORE_DISABLE \in Nat \ {0}
    /\ MaxLost \in Nat
    /\ NotYet # Deleted /\ Row \intersect {NotYet, Deleted} = {}
    /\ Accounts \intersect {NotYet, Deleted} = {}

NewRow == [is_active |-> TRUE, stamped |-> FALSE, failures |-> 0]
Exists(a) == accounts[a] \notin {NotYet, Deleted}
Loaded(a) == monitor.rows[a] # NotYet

Idle == [stage |-> "idle", todo |-> {}, result |-> [a \in Accounts |-> "none"],
         rows |-> [a \in Accounts |-> NotYet]]
NoUpdate == [account |-> NotYet, row |-> NotYet]

Init ==
    /\ accounts \in [Accounts -> {NotYet, NewRow}]
    /\ up \in [Accounts -> BOOLEAN]
    /\ monitor = Idle
    /\ update = [c \in Clients |-> NoUpdate]
    /\ failed = [a \in Accounts |-> 0]
    /\ lost = 0

-----------------------------------------------------------------------------
(* The monitor. *)

(* run_once selects the active accounts ... *)
SelectActive ==
    LET active == {a \in Accounts : Exists(a) /\ accounts[a].is_active} IN
    /\ monitor.stage = "idle"
    /\ monitor' = [Idle EXCEPT !.stage = "active", !.todo = active,
                     !.rows = [a \in Accounts |-> IF a \in active THEN accounts[a] ELSE NotYet]]
    /\ UNCHANGED <<accounts, up, update, failed, lost>>

(* ... and, in a second statement, those it has disabled itself.  A row    *)
(* already loaded keeps the values of the first statement.                 *)
SelectDisabled ==
    LET disabled == {a \in Accounts : Exists(a) /\ ~accounts[a].is_active
                                      /\ accounts[a].stamped} IN
    /\ monitor.stage = "active"
    /\ monitor' = [monitor EXCEPT !.stage = "probe", !.todo = @ \union disabled,
                     !.rows = [a \in Accounts |->
                                 IF a \in disabled /\ ~Loaded(a) THEN accounts[a] ELSE @[a]]]
    /\ UNCHANGED <<accounts, up, update, failed, lost>>

(* One account: the adapter is built, authenticated and asked; whatever    *)
(* goes wrong counts as unhealthy.                                         *)
Probe(a) ==
    /\ monitor.stage = "probe" /\ a \in monitor.todo
    /\ monitor' = [monitor EXCEPT !.todo = @ \ {a},
                     !.result[a] = IF up[a] THEN "healthy" ELSE "unhealthy"]
    /\ failed' = IF up[a] THEN failed ELSE [failed EXCEPT ![a] = CountUp(@)]
    /\ UNCHANGED <<accounts, up, update, lost>>

\* Mutants: the counter is compared too early; a recovery is counted and not
\* acted on.
RecordFailureEarly(r) ==
    LET n == CountUp(r.failures)
        disable == n >= FAILURES_BEFORE_DISABLE - 1 /\ r.is_active IN
    [is_active |-> r.is_active /\ ~disable, stamped |-> r.stamped \/ disable, failures |-> n]
RecordSuccessOnlyCounts(r) == [r EXCEPT !.failures = 0]

(* _record_failure, applied to the row as loaded. *)
RecordFailure(r) ==
    LET n == CountUp(r.failures)
        disable == n >= FAILURES_BEFORE_DISABLE /\ r.is_active IN
    [is_active |-> r.is_active /\ ~disable, stamped |-> r.stamped \/ disable, failures |-> n]

(* _record_success: only what the monitor disabled is enabled again. *)
RecordSuccess(r) ==
    LET enable == ~r.is_active /\ r.stamped IN
    [is_active |-> r.is_active \/ enable, stamped |-> r.stamped /\ ~enable, failures |-> 0]

Outcome(a) == IF monitor.result[a] = "healthy" THEN RecordSuccess(monitor.rows[a])
                                               ELSE RecordFailure(monitor.rows[a])
Dirty(a) == Loaded(a) /\ (monitor.result[a] = "unhealthy" \/ Outcome(a) # monitor.rows[a])

(* The columns of new that differ from old are written over those of row. *)
Write(row, old, new) ==
    [col \in DOMAIN row |-> IF old[col] = new[col] THEN row[col] ELSE new[col]]

(* The one commit of the run. *)
CommitRun ==
    /\ monitor.stage = "probe" /\ monitor.todo = {}
    /\ \A a \in Accounts : Dirty(a) => Exists(a)
    /\ accounts' = [a \in Accounts |->
                      IF Dirty(a) THEN Write(accounts[a], monitor.rows[a], Outcome(a))
                                  ELSE accounts[a]]
    /\ failed' = [a \in Accounts |-> IF monitor.result[a] = "healthy" THEN 0 ELSE failed[a]]
    /\ monitor' = Idle
    /\ UNCHANGED <<up, update, lost>>

(* A row to be written is gone: the commit fails, health_job logs it and   *)
(* what the run found is forgotten.                                        *)
CommitFails ==
    /\ monitor.stage = "probe" /\ monitor.todo = {}
    /\ \E a \in Accounts : Dirty(a) /\ ~Exists(a)
    /\ monitor' = Idle
    /\ UNCHANGED <<accounts, up, update, failed, lost>>

(* A crash or a database error in the middle of a run. *)
LoseRun ==
    /\ monitor.stage # "idle" /\ lost < MaxLost
    /\ lost' = lost + 1
    /\ monitor' = Idle
    /\ UNCHANGED <<accounts, up, update, failed>>

-----------------------------------------------------------------------------
(* The endpoints. *)

CreateAccount(a) ==
    /\ accounts[a] = NotYet
    /\ accounts' = [accounts EXCEPT ![a] = NewRow]
    /\ UNCHANGED <<up, monitor, update, failed, lost>>

DeleteAccount(a) ==
    /\ Exists(a)
    /\ accounts' = [accounts EXCEPT ![a] = Deleted]
    /\ UNCHANGED <<up, monitor, update, failed, lost>>

\* Mutant: the 404 of an account without a row is forgotten.
BeginUpdateUnchecked(c, a) ==
    /\ update[c] = NoUpdate
    /\ update' = [update EXCEPT ![c] = [account |-> a, row |-> accounts[a]]]
    /\ UNCHANGED <<accounts, up, monitor, failed, lost>>

(* update_account loads the row ... *)
BeginUpdate(c, a) ==
    /\ update[c] = NoUpdate /\ Exists(a)
    /\ update' = [update EXCEPT ![c] = [account |-> a, row |-> accounts[a]]]
    /\ UNCHANGED <<accounts, up, monitor, failed, lost>>

\* Mutant: the stamp is cleared on an account that stays off.
EnabledHalf(r) == [r EXCEPT !.stamped = FALSE]

(* ... and enables it: it does not touch the failure counter. *)
Enabled(r) == [r EXCEPT !.is_active = TRUE, !.stamped = FALSE]

CommitUpdate(c) ==
    LET a == update[c].account IN
    /\ update[c] # NoUpdate
    /\ accounts' = IF Exists(a)
                   THEN [accounts EXCEPT ![a] = Write(@, update[c].row, Enabled(update[c].row))]
                   ELSE accounts
    /\ update' = [update EXCEPT ![c] = NoUpdate]
    /\ UNCHANGED <<up, monitor, failed, lost>>

(* The broker, or the account's credentials with it, fails or recovers. *)
BrokerFlips(a) ==
    /\ up' = [up EXCEPT ![a] = ~@]
    /\ UNCHANGED <<accounts, monitor, update, failed, lost>>

-----------------------------------------------------------------------------
Monitor == SelectActive \/ SelectDisabled \/ (\E a \in Accounts : Probe(a))
           \/ CommitRun \/ CommitFails

Next ==
    \/ Monitor \/ LoseRun
    \/ \E a \in Accounts : CreateAccount(a) \/ DeleteAccount(a) \/ BrokerFlips(a)
    \/ \E c \in Clients : CommitUpdate(c) \/ (\E a \in Accounts : BeginUpdate(c, a))

Spec == Init /\ [][Next]_vars

(* The scheduler starts the next run however the last one ended, and one   *)
(* at a time; every statement and every probe of a run returns or raises.  *)
FairSpec == Spec /\ WF_vars(Monitor)

-----------------------------------------------------------------------------
\* Every variable keeps its type; a request and a run hold whole rows.
TypeOK ==
    /\ accounts \in [Accounts -> Row \union {NotYet, Deleted}]
    /\ up \in [Accounts -> BOOLEAN]
    /\ monitor \in [stage : {"idle", "active", "probe"}, todo : SUBSET Accounts,
                    result : [Accounts -> {"none", "healthy", "unhealthy"}],
                    rows : [Accounts -> Row \union {NotYet}]]
    /\ \A c \in Clients :
         update[c] = NoUpdate \/ update[c] \in [account : Accounts, row : Row]
    /\ failed \in [Accounts -> Counts]
    /\ lost \in 0 .. MaxLost

\* An account is off exactly when the monitor's second select finds it, however
\* the columns a run and the requests write are interleaved: none is left off
\* where no later run would probe it, and none that is on shows as disconnected.
NoAccountStranded ==
    \A a \in Accounts : Exists(a) => (accounts[a].is_active <=> ~accounts[a].stamped)

\* An account is only turned off when as many probes as the threshold asks for
\* have failed since the last success a run committed: runs that are lost,
\* edits and a broker that comes and goes make the count too low, never too high.
DisabledAfterFailures ==
    [][\A a \in Accounts :
         (/\ Exists(a) /\ accounts[a].is_active
          /\ accounts'[a] \in Row /\ ~accounts'[a].is_active)
           => failed[a] >= FAILURES_BEFORE_DISABLE]_vars

\* Once the broker of an account answers for good, the account is turned on
\* again without anybody's help and stays on, or is deleted.
Recovers ==
    \A a \in Accounts : <>[](up[a]) => <>[](Exists(a) => accounts[a].is_active)
=============================================================================
