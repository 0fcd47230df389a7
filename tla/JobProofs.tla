------------------------------- MODULE JobProofs -------------------------------
(***************************************************************************)
(* The two scheduled jobs of the application, which share no state: the    *)
(* broker health monitor and the instrument sync.                          *)
(*                                                                         *)
(* Health, for any number of accounts and requests: the types, that no     *)
(* account is stranded, and that none is disabled too early.  The columns  *)
(* is_active and health_disabled_at are only ever written together, from   *)
(* rows in which they agreed; and what a run holds of the counter never    *)
(* exceeds the failures that really happened.                              *)
(*                                                                         *)
(* Sync, for any number of brokers, instruments and contracts: a broker    *)
(* shown as synchronised has every record of the last complete download.   *)
(* A task keeps the rows it has upserted until its commit, so that two     *)
(* tasks of a broker never hold the same row; and a broken download that   *)
(* would commit beneath the status ok, which somebody has set since it     *)
(* looked, holds no row of the download that set it.                       *)
(***************************************************************************)
EXTENDS AccountHealth, InstrumentSync, TLAPS

-----------------------------------------------------------------------------
(* The broker health monitor. *)

Paired(r) == r.is_active <=> ~r.stamped

\* The rows a run has loaded, with what it has found out so far.  Nobody else
\* writes the counter.
RunInv ==
    \A a \in Accounts : Loaded(a) =>
        /\ accounts[a] # NotYet
        /\ Exists(a) => accounts[a].failures = monitor.rows[a].failures
        /\ Paired(monitor.rows[a])
        /\ monitor.rows[a].failures <= failed[a]
        /\ monitor.result[a] = "unhealthy"
             => RecordFailure(monitor.rows[a]).failures <= failed[a]

\* The rows of the table and of the requests in flight.
TableInv ==
    /\ \A a \in Accounts : Exists(a) => accounts[a].failures <= failed[a]
    /\ \A c \in Clients : update[c] # NoUpdate => Paired(update[c].row)

\* A run probes what it has loaded, and nothing is probed before the selects.
StageInv ==
    /\ \A a \in monitor.todo : Loaded(a) /\ monitor.result[a] = "none"
    /\ monitor.stage # "probe" => \A a \in Accounts : monitor.result[a] = "none"
    /\ \A a \in Accounts : Loaded(a) => a \in monitor.todo \/ monitor.result[a] # "none"
    /\ \A a \in Accounts : monitor.result[a] # "none" => Loaded(a)

HealthInv == TypeOK /\ NoAccountStranded /\ RunInv /\ TableInv /\ StageInv

-----------------------------------------------------------------------------
\* The counter stays within its bound and counting never lowers it.
LEMMA CountUpBounds ==
    \A n \in Counts : CountUp(n) \in Counts /\ n <= CountUp(n)
                      /\ \A k \in Counts : n <= k => CountUp(n) <= CountUp(k)
BY HealthAssumption DEF Counts, CountUp

\* _record_failure keeps the two columns of a row in agreement.
LEMMA RecordFailureRow ==
    ASSUME NEW r \in Row
    PROVE  /\ RecordFailure(r) \in Row
           /\ RecordFailure(r).failures = CountUp(r.failures)
           /\ Paired(r) => Paired(RecordFailure(r))
           /\ (r.is_active /\ ~RecordFailure(r).is_active)
                => CountUp(r.failures) >= FAILURES_BEFORE_DISABLE
<1>1. r.failures \in Counts /\ r.is_active \in BOOLEAN /\ r.stamped \in BOOLEAN
  BY DEF Row
<1> QED BY <1>1, CountUpBounds DEF Row, RecordFailure, Paired

\* _record_success does too.
LEMMA RecordSuccessRow ==
    ASSUME NEW r \in Row
    PROVE  /\ RecordSuccess(r) \in Row
           /\ RecordSuccess(r).failures = 0
           /\ Paired(r) => Paired(RecordSuccess(r))
           /\ r.is_active => RecordSuccess(r).is_active
BY HealthAssumption DEF Row, RecordSuccess, Paired, Counts

\* update_account does too, and leaves the counter alone.
LEMMA EnabledRow ==
    ASSUME NEW r \in Row
    PROVE  /\ Enabled(r) \in Row /\ Paired(Enabled(r)) /\ Enabled(r).is_active
           /\ Enabled(r).failures = r.failures
BY DEF Row, Enabled, Paired

\* Writing the changed columns of a paired row over a paired row gives a paired
\* row: either both columns changed or neither did.
LEMMA WriteRow ==
    ASSUME NEW now \in Row, NEW old \in Row, NEW new \in Row
    PROVE  /\ Write(now, old, new) \in Row
           /\ (Paired(now) /\ Paired(old) /\ Paired(new)) => Paired(Write(now, old, new))
           /\ Write(now, old, new).failures =
                IF old.failures = new.failures THEN now.failures ELSE new.failures
           /\ Write(now, old, new).is_active =
                IF old.is_active = new.is_active THEN now.is_active ELSE new.is_active
<1> DEFINE W == Write(now, old, new)
<1>1. W = [is_active |-> IF old.is_active = new.is_active THEN now.is_active ELSE new.is_active,
           stamped |-> IF old.stamped = new.stamped THEN now.stamped ELSE new.stamped,
           failures |-> IF old.failures = new.failures THEN now.failures ELSE new.failures]
  BY DEF Write, Row
<1> QED BY <1>1 DEF Row, Paired

-----------------------------------------------------------------------------
\* The invariant holds initially.
LEMMA HealthInit == Init => HealthInv
<1> SUFFICES ASSUME Init PROVE HealthInv
  OBVIOUS
<1>1. NewRow \in Row /\ NewRow.failures = 0 /\ Paired(NewRow)
  BY HealthAssumption DEF NewRow, Row, Counts, Paired
<1>2. TypeOK
  BY <1>1, HealthAssumption DEF Init, TypeOK, Idle, Counts
<1>3. NoAccountStranded
  BY <1>1 DEF Init, NoAccountStranded, Exists, Paired
<1>4. RunInv /\ StageInv
  BY DEF Init, RunInv, StageInv, Idle, Loaded
<1>5. TableInv
  BY <1>1, HealthAssumption DEF Init, TableInv, Exists, Counts
<1> QED BY <1>2, <1>3, <1>4, <1>5 DEF HealthInv

\* A step that forgets the run needs nothing of the invariants about it.
LEMMA IdleInv ==
    ASSUME monitor' = Idle
    PROVE  /\ RunInv' /\ StageInv'
           /\ monitor' \in [stage : {"idle", "active", "probe"}, todo : SUBSET Accounts,
                    result : [Accounts -> {"none", "healthy", "unhealthy"}],
                    rows : [Accounts -> Row \union {NotYet}]]
BY DEF Idle, RunInv, StageInv, Loaded

\* The two selects: what a run loads is what the table holds.
LEMMA SelectActiveInv == HealthInv /\ SelectActive => HealthInv'
<1> SUFFICES ASSUME HealthInv, SelectActive PROVE HealthInv'
  OBVIOUS
<1> USE DEF HealthInv
<1>1. UNCHANGED <<accounts, up, update, failed, lost>>
  BY DEF SelectActive
<1> DEFINE enabled == {a \in Accounts : Exists(a) /\ accounts[a].is_active}
<1>2. /\ monitor'.stage = "active" /\ monitor'.todo = enabled
      /\ monitor'.result = [a \in Accounts |-> "none"]
      /\ monitor'.rows = [a \in Accounts |-> IF a \in enabled THEN accounts[a] ELSE NotYet]
      /\ DOMAIN monitor' = {"stage", "todo", "result", "rows"}
      /\ monitor' = [stage |-> "active", todo |-> enabled,
                     result |-> [a \in Accounts |-> "none"],
                     rows |-> [a \in Accounts |-> IF a \in enabled THEN accounts[a] ELSE NotYet]]
  BY DEF SelectActive, Idle
<1>3. \A a \in enabled : accounts[a] \in Row
  BY DEF TypeOK, Exists
<1>4. TypeOK'
  BY <1>1, <1>2, <1>3 DEF TypeOK
<1>5. NoAccountStranded' /\ TableInv'
  BY <1>1 DEF NoAccountStranded, TableInv, Exists
<1>6. \A a \in Accounts : Loaded(a)' => a \in enabled /\ monitor'.rows[a] = accounts[a]
  BY <1>2 DEF Loaded
<1>7. RunInv'
  BY <1>1, <1>2, <1>6 DEF RunInv, NoAccountStranded, TableInv, Paired, Exists
<1>8. StageInv'
  BY <1>2, <1>3, HealthAssumption DEF StageInv, Loaded
<1> QED BY <1>4, <1>5, <1>7, <1>8

\* Every step of a run and every request keeps the invariant; here, the second
\* select, which loads the rows that are off.
LEMMA SelectDisabledInv == HealthInv /\ SelectDisabled => HealthInv'
<1> SUFFICES ASSUME HealthInv, SelectDisabled PROVE HealthInv'
  OBVIOUS
<1> USE DEF HealthInv
<1>1. UNCHANGED <<accounts, up, update, failed, lost>> /\ monitor.stage = "active"
  BY DEF SelectDisabled
<1> DEFINE disabled == {a \in Accounts : Exists(a) /\ ~accounts[a].is_active
                                         /\ accounts[a].stamped}
           rows == [a \in Accounts |-> IF a \in disabled /\ ~Loaded(a) THEN accounts[a]
                                                                    ELSE monitor.rows[a]]
<1>2. monitor' = [stage |-> "probe", todo |-> monitor.todo \union disabled,
                  result |-> monitor.result, rows |-> rows]
  BY DEF SelectDisabled, TypeOK
<1>3. \A a \in disabled : accounts[a] \in Row
  BY DEF TypeOK, Exists
<1>4. rows \in [Accounts -> Row \union {NotYet}]
  BY <1>3 DEF TypeOK
<1>5. TypeOK'
  BY <1>1, <1>2, <1>4 DEF TypeOK
<1>6. NoAccountStranded' /\ TableInv'
  BY <1>1 DEF NoAccountStranded, TableInv, Exists
<1>7. \A a \in Accounts : monitor'.result[a] = "none"
  BY <1>1, <1>2 DEF StageInv
<1>8. \A a \in Accounts : Loaded(a)' =>
         \/ a \in disabled /\ monitor'.rows[a] = accounts[a]
         \/ Loaded(a) /\ monitor'.rows[a] = monitor.rows[a]
  BY <1>2 DEF Loaded
<1>9. RunInv'
  BY <1>1, <1>7, <1>8 DEF RunInv, NoAccountStranded, TableInv, Paired, Exists
<1>10. StageInv'
  <2>1. \A a \in monitor'.todo : Loaded(a)'
    BY <1>2, <1>3, HealthAssumption DEF StageInv, Loaded, TypeOK
  <2>2. \A a \in Accounts : Loaded(a)' => a \in monitor'.todo
    BY <1>1, <1>2, <1>8 DEF StageInv
  <2> QED BY <1>2, <1>7, <2>1, <2>2 DEF StageInv
<1> QED BY <1>5, <1>6, <1>9, <1>10

\* A probe records its result, and a failure beside it.
LEMMA ProbeInv == ASSUME HealthInv, NEW a \in Accounts, Probe(a) PROVE HealthInv'
<1> USE DEF HealthInv
<1>1. UNCHANGED <<accounts, up, update, lost>> /\ monitor.stage = "probe" /\ a \in monitor.todo
  BY DEF Probe
<1> DEFINE res == IF up[a] THEN "healthy" ELSE "unhealthy"
<1>2. monitor' = [stage |-> "probe", todo |-> monitor.todo \ {a},
                  result |-> [monitor.result EXCEPT ![a] = res], rows |-> monitor.rows]
  BY <1>1 DEF Probe, TypeOK
<1>3. failed' = IF up[a] THEN failed ELSE [failed EXCEPT ![a] = CountUp(failed[a])]
  BY DEF Probe
<1>4. failed' \in [Accounts -> Counts] /\ \A b \in Accounts : failed[b] <= failed'[b]
  BY <1>3, CountUpBounds, HealthAssumption DEF TypeOK, Counts
<1>5. TypeOK'
  BY <1>1, <1>2, <1>4 DEF TypeOK
<1>6. NoAccountStranded'
  BY <1>1 DEF NoAccountStranded, Exists
<1>7. TableInv'
  <2>1. ASSUME NEW b \in Accounts, Exists(b) PROVE accounts[b].failures <= failed'[b]
    <3>1. accounts[b].failures \in Counts /\ accounts[b].failures <= failed[b]
      BY <2>1 DEF TypeOK, TableInv, Exists, Row
    <3> QED BY <3>1, <1>4, HealthAssumption DEF TypeOK, Counts
  <2> QED BY <1>1, <2>1 DEF TableInv, Exists
<1>8. RunInv'
  <2> SUFFICES ASSUME NEW b \in Accounts, Loaded(b)
               PROVE  /\ accounts[b] # NotYet
                      /\ Exists(b) => accounts[b].failures = monitor.rows[b].failures
                      /\ Paired(monitor.rows[b])
                      /\ monitor.rows[b].failures <= failed'[b]
                      /\ monitor'.result[b] = "unhealthy"
                           => RecordFailure(monitor.rows[b]).failures <= failed'[b]
    BY <1>1, <1>2 DEF RunInv, Loaded, Exists
  <2>1. monitor.rows[b] \in Row
    BY DEF Loaded, TypeOK
  <2>2. /\ monitor.rows[b].failures \in Counts
        /\ RecordFailure(monitor.rows[b]).failures = CountUp(monitor.rows[b].failures)
        /\ RecordFailure(monitor.rows[b]).failures \in Counts
    BY <2>1, RecordFailureRow, CountUpBounds DEF Row
  <2>3. /\ Paired(monitor.rows[b]) /\ monitor.rows[b].failures <= failed[b]
        /\ accounts[b] # NotYet
        /\ Exists(b) => accounts[b].failures = monitor.rows[b].failures
    BY DEF RunInv
  <2>4. failed[b] \in Counts /\ failed'[b] \in Counts /\ failed[b] <= failed'[b]
    BY <1>4 DEF TypeOK
  <2>5. monitor.rows[b].failures <= failed'[b]
    BY <2>2, <2>3, <2>4, HealthAssumption DEF Counts
  <2>6. CASE b = a
    <3>1. CASE up[a]
      BY <1>2, <2>3, <2>5, <2>6, <3>1 DEF TypeOK
    <3>2. CASE ~up[a]
      BY <1>3, <2>2, <2>3, <2>4, <2>5, <2>6, <3>2, CountUpBounds DEF TypeOK
    <3> QED BY <3>1, <3>2
  <2>7. CASE b # a
    <3>1. monitor'.result[b] = monitor.result[b]
      BY <1>2, <2>7 DEF TypeOK
    <3>2. monitor.result[b] = "unhealthy"
            => RecordFailure(monitor.rows[b]).failures <= failed[b]
      BY DEF RunInv
    <3> QED BY <2>2, <2>3, <2>4, <2>5, <3>1, <3>2, HealthAssumption DEF Counts
  <2> QED BY <2>6, <2>7
<1>9. StageInv'
  BY <1>1, <1>2 DEF StageInv, Loaded, TypeOK
<1> QED BY <1>5, <1>6, <1>7, <1>8, <1>9

\* What the outcome of a probe does to a loaded row.
LEMMA OutcomeRow ==
    ASSUME TypeOK, RunInv, NEW a \in Accounts, Loaded(a), monitor.result[a] # "none"
    PROVE  /\ Outcome(a) \in Row /\ Paired(Outcome(a))
           /\ monitor.result[a] = "healthy" => Outcome(a).failures = 0
           /\ monitor.result[a] = "unhealthy" => Outcome(a).failures <= failed[a]
<1>1. monitor.rows[a] \in Row /\ Paired(monitor.rows[a])
  BY DEF TypeOK, Loaded, RunInv
<1>2. monitor.result[a] \in {"healthy", "unhealthy"}
  BY DEF TypeOK
<1>3. CASE monitor.result[a] = "healthy"
  BY <1>1, <1>3, RecordSuccessRow DEF Outcome
<1>4. CASE monitor.result[a] = "unhealthy"
  BY <1>1, <1>4, RecordFailureRow DEF Outcome, RunInv
<1> QED BY <1>2, <1>3, <1>4

\* The row a commit leaves of an account it writes.
LEMMA CommittedRow ==
    ASSUME HealthInv, CommitRun, NEW a \in Accounts, Dirty(a)
    PROVE  /\ accounts'[a] \in Row /\ Paired(accounts'[a])
           /\ accounts'[a].failures <= failed'[a]
<1>1. Exists(a) /\ Loaded(a) /\ monitor.result[a] # "none"
  BY DEF CommitRun, Dirty, HealthInv, StageInv
<1>2. /\ accounts[a] \in Row /\ Paired(accounts[a]) /\ accounts[a].failures <= failed[a]
      /\ monitor.rows[a] \in Row /\ Paired(monitor.rows[a])
  BY <1>1 DEF HealthInv, TypeOK, NoAccountStranded, TableInv, RunInv, Exists, Loaded, Paired
<1>3. /\ Outcome(a) \in Row /\ Paired(Outcome(a))
      /\ monitor.result[a] = "healthy" => Outcome(a).failures = 0
      /\ monitor.result[a] = "unhealthy" => Outcome(a).failures <= failed[a]
  BY <1>1, OutcomeRow DEF HealthInv
<1>4. accounts'[a] = Write(accounts[a], monitor.rows[a], Outcome(a))
  BY DEF CommitRun
<1>5. failed'[a] = IF monitor.result[a] = "healthy" THEN 0 ELSE failed[a]
  BY DEF CommitRun
<1>6. monitor.result[a] \in {"healthy", "unhealthy"}
  BY <1>1 DEF HealthInv, TypeOK
<1>7. accounts'[a] \in Row /\ Paired(accounts'[a])
      /\ accounts'[a].failures = IF monitor.rows[a].failures = Outcome(a).failures
                                 THEN accounts[a].failures ELSE Outcome(a).failures
  BY <1>2, <1>3, <1>4, WriteRow
<1>8. accounts[a].failures = monitor.rows[a].failures
  BY <1>1 DEF HealthInv, RunInv
<1> QED BY <1>2, <1>3, <1>5, <1>6, <1>7, <1>8

\* The one commit of the run.
LEMMA CommitRunInv == HealthInv /\ CommitRun => HealthInv'
<1> SUFFICES ASSUME HealthInv, CommitRun PROVE HealthInv'
  OBVIOUS
<1>1. monitor' = Idle /\ UNCHANGED <<up, update, lost>>
  BY DEF CommitRun
<1>2. \A a \in Accounts : Dirty(a) =>
         /\ accounts'[a] \in Row /\ Paired(accounts'[a])
         /\ accounts'[a].failures <= failed'[a]
  BY CommittedRow
<1>3. \A a \in Accounts : ~Dirty(a) => accounts'[a] = accounts[a]
  BY DEF CommitRun
<1>4. accounts' \in [Accounts -> Row \union {NotYet, Deleted}]
  BY <1>2, <1>3 DEF CommitRun, HealthInv, TypeOK
<1>5. failed' \in [Accounts -> Counts]
  BY HealthAssumption DEF CommitRun, HealthInv, TypeOK, Counts
<1>6. TypeOK'
  BY <1>1, <1>4, <1>5, IdleInv DEF HealthInv, TypeOK
<1>7. NoAccountStranded'
  BY <1>2, <1>3 DEF HealthInv, NoAccountStranded, Exists, Paired
<1>8. ASSUME NEW a \in Accounts, accounts'[a] \notin {NotYet, Deleted}
      PROVE  accounts'[a].failures <= failed'[a]
  <2>1. CASE Dirty(a)
    BY <2>1, <1>2
  <2>2. CASE ~Dirty(a) /\ monitor.result[a] = "healthy"
    <3>1. Exists(a) /\ Loaded(a)
      BY <1>3, <1>8, <2>2 DEF HealthInv, Exists, StageInv
    <3>2. Outcome(a) = monitor.rows[a] /\ Outcome(a).failures = 0
      BY <2>2, <3>1, OutcomeRow DEF Dirty, HealthInv
    <3>3. accounts[a].failures = 0 /\ failed'[a] = 0
      BY <2>2, <3>1, <3>2 DEF HealthInv, RunInv, CommitRun
    <3> QED BY <1>3, <2>2, <3>3
  <2>3. CASE ~Dirty(a) /\ monitor.result[a] # "healthy"
    BY <1>3, <1>8, <2>3 DEF HealthInv, TableInv, Exists, CommitRun
  <2> QED BY <2>1, <2>2, <2>3
<1>9. TableInv'
  BY <1>1, <1>8 DEF HealthInv, TableInv, Exists
<1> QED BY <1>1, <1>6, <1>7, <1>9, IdleInv DEF HealthInv

\* A run that is lost leaves everything as it was.
LEMMA LostRunInv == HealthInv /\ (CommitFails \/ LoseRun) => HealthInv'
<1> SUFFICES ASSUME HealthInv, CommitFails \/ LoseRun PROVE HealthInv'
  OBVIOUS
<1>1. monitor' = Idle /\ UNCHANGED <<accounts, up, update, failed>> /\ lost' \in 0 .. MaxLost
  BY HealthAssumption DEF CommitFails, LoseRun, HealthInv, TypeOK
<1> QED BY <1>1, IdleInv DEF HealthInv, TypeOK, NoAccountStranded, TableInv, Exists

\* The endpoints.
LEMMA CreateInv == ASSUME HealthInv, NEW a \in Accounts, CreateAccount(a) PROVE HealthInv'
<1>1. /\ accounts[a] = NotYet /\ accounts' = [accounts EXCEPT ![a] = NewRow]
      /\ UNCHANGED <<up, monitor, update, failed, lost>>
  BY DEF CreateAccount
<1>2. NewRow \in Row /\ NewRow.failures = 0 /\ Paired(NewRow)
  BY HealthAssumption DEF NewRow, Row, Counts, Paired
<1>3. \A b \in Accounts : accounts'[b] = IF b = a THEN NewRow ELSE accounts[b]
  BY <1>1 DEF HealthInv, TypeOK
<1>4. TypeOK'
  BY <1>1, <1>2 DEF HealthInv, TypeOK
<1>5. NoAccountStranded'
  BY <1>2, <1>3 DEF HealthInv, NoAccountStranded, Exists, Paired
<1>6. TableInv'
  BY <1>1, <1>2, <1>3, HealthAssumption DEF HealthInv, TypeOK, TableInv, Exists, Counts
<1>7. RunInv' /\ StageInv'
  BY <1>1, <1>2, <1>3, HealthAssumption DEF HealthInv, RunInv, StageInv, Loaded, Exists
<1> QED BY <1>4, <1>5, <1>6, <1>7 DEF HealthInv

\* A deleted account leaves the run its row as loaded, and nothing to compare it with.
LEMMA DeleteInv == ASSUME HealthInv, NEW a \in Accounts, DeleteAccount(a) PROVE HealthInv'
<1>1. /\ accounts' = [accounts EXCEPT ![a] = Deleted]
      /\ UNCHANGED <<up, monitor, update, failed, lost>>
  BY DEF DeleteAccount
<1>2. \A b \in Accounts : accounts'[b] = IF b = a THEN Deleted ELSE accounts[b]
  BY <1>1 DEF HealthInv, TypeOK
<1>3. TypeOK'
  BY <1>1 DEF HealthInv, TypeOK
<1>4. NoAccountStranded' /\ TableInv'
  BY <1>1, <1>2 DEF HealthInv, NoAccountStranded, TableInv, Exists
<1>5. RunInv' /\ StageInv'
  BY <1>1, <1>2, HealthAssumption DEF HealthInv, RunInv, StageInv, Loaded, Exists
<1> QED BY <1>3, <1>4, <1>5 DEF HealthInv

\* A request loads a row in which the two columns agree.
LEMMA BeginUpdateInv ==
    ASSUME HealthInv, NEW c \in Clients, NEW a \in Accounts, BeginUpdate(c, a) PROVE HealthInv'
<1>1. /\ Exists(a) /\ UNCHANGED <<accounts, up, monitor, failed, lost>>
      /\ update' = [update EXCEPT ![c] = [account |-> a, row |-> accounts[a]]]
  BY DEF BeginUpdate
<1>2. accounts[a] \in Row /\ Paired(accounts[a])
  BY <1>1 DEF HealthInv, TypeOK, NoAccountStranded, Exists, Paired
<1>3. \A d \in Clients : \/ update'[d] = update[d]
                         \/ update'[d] = [account |-> a, row |-> accounts[a]]
  BY <1>1 DEF HealthInv, TypeOK
<1>4. TypeOK'
  BY <1>1, <1>2, <1>3 DEF HealthInv, TypeOK
<1>5. TableInv'
  BY <1>1, <1>2, <1>3 DEF HealthInv, TableInv, Exists
<1>6. NoAccountStranded' /\ RunInv' /\ StageInv'
  BY <1>1 DEF HealthInv, NoAccountStranded, RunInv, StageInv, Loaded, Exists
<1> QED BY <1>4, <1>5, <1>6 DEF HealthInv

\* A request that commits writes one of the two columns only together with the other.
LEMMA CommitUpdateInv == ASSUME HealthInv, NEW c \in Clients, CommitUpdate(c) PROVE HealthInv'
<1> DEFINE a == update[c].account
           r == update[c].row
           w == Write(accounts[a], r, Enabled(r))
<1>1. /\ update[c] # NoUpdate /\ UNCHANGED <<up, monitor, failed, lost>>
      /\ accounts' = IF Exists(a) THEN [accounts EXCEPT ![a] = w] ELSE accounts
      /\ update' = [update EXCEPT ![c] = NoUpdate]
  BY DEF CommitUpdate
<1>2. a \in Accounts /\ r \in Row /\ Paired(r)
  BY <1>1 DEF HealthInv, TypeOK, TableInv
<1>3. Exists(a) => accounts[a] \in Row /\ Paired(accounts[a])
  BY <1>2 DEF HealthInv, TypeOK, NoAccountStranded, Exists, Paired
<1>4. Exists(a) => w \in Row /\ Paired(w) /\ w.failures = accounts[a].failures
  BY <1>2, <1>3, EnabledRow, WriteRow
<1>5. \A b \in Accounts : \/ accounts'[b] = accounts[b]
                          \/ b = a /\ Exists(a) /\ accounts'[b] = w
  BY <1>1 DEF HealthInv, TypeOK
<1>6. \A d \in Clients : update'[d] = update[d] \/ update'[d] = NoUpdate
  BY <1>1
<1>7. TypeOK'
  <2>1. accounts' \in [Accounts -> Row \union {NotYet, Deleted}]
    BY <1>1, <1>2, <1>4 DEF HealthInv, TypeOK
  <2> QED BY <1>1, <1>6, <2>1 DEF HealthInv, TypeOK
<1>8. NoAccountStranded'
  BY <1>4, <1>5 DEF HealthInv, NoAccountStranded, Exists, Paired
<1>9. TableInv'
  BY <1>1, <1>4, <1>5, <1>6 DEF HealthInv, TableInv, Exists
<1>10. RunInv' /\ StageInv'
  <2>1. \A b \in Accounts : accounts'[b] # NotYet <=> accounts[b] # NotYet
    BY <1>4, <1>5, HealthAssumption DEF Exists
  <2> QED BY <1>1, <1>4, <1>5, <2>1 DEF HealthInv, RunInv, StageInv, Loaded, Exists
<1> QED BY <1>7, <1>8, <1>9, <1>10 DEF HealthInv

-----------------------------------------------------------------------------
\* Every step keeps the invariant.
LEMMA HealthNext == HealthInv /\ [Next]_vars => HealthInv'
<1> SUFFICES ASSUME HealthInv, [Next]_vars PROVE HealthInv'
  OBVIOUS
<1>1. ASSUME NEW a \in Accounts, BrokerFlips(a) PROVE HealthInv'
  BY <1>1 DEF BrokerFlips, HealthInv, TypeOK, NoAccountStranded, RunInv, TableInv, StageInv,
              Exists, Loaded
<1>2. CASE UNCHANGED vars
  BY <1>2 DEF vars, HealthInv, TypeOK, NoAccountStranded, RunInv, TableInv, StageInv,
              Exists, Loaded
<1> QED BY <1>1, <1>2, SelectActiveInv, SelectDisabledInv, ProbeInv, CommitRunInv,
           LostRunInv, CreateInv, DeleteInv, BeginUpdateInv, CommitUpdateInv
        DEF Next, Monitor

\* The types, for any number of accounts and requests.
THEOREM HealthTypeCorrect == Spec => []TypeOK
<1>1. HealthInv => TypeOK
  BY DEF HealthInv
<1> QED BY HealthInit, HealthNext, <1>1, PTL DEF Spec

\* No account is left off where the monitor would not find it.
THEOREM AccountsAreNotStranded == Spec => []NoAccountStranded
<1>1. HealthInv => NoAccountStranded
  BY DEF HealthInv
<1> QED BY HealthInit, HealthNext, <1>1, PTL DEF Spec

\* One step turns an account off only after enough failures.
LEMMA StepDisables ==
    ASSUME HealthInv, Next, NEW a \in Accounts, Exists(a), accounts[a].is_active,
           accounts'[a] \in Row, ~accounts'[a].is_active
    PROVE  failed[a] >= FAILURES_BEFORE_DISABLE
<1>1. accounts'[a] # accounts[a] /\ accounts[a] \in Row
  BY DEF HealthInv, TypeOK, Exists
<1>2. CASE CommitRun
  <2>1. Dirty(a)
    BY <1>1, <1>2 DEF CommitRun
  <2>2. Loaded(a) /\ monitor.result[a] \in {"healthy", "unhealthy"}
        /\ monitor.rows[a] \in Row
    BY <2>1, <1>2 DEF Dirty, CommitRun, HealthInv, TypeOK, StageInv, Loaded
  <2>3. accounts'[a] = Write(accounts[a], monitor.rows[a], Outcome(a)) /\ Outcome(a) \in Row
    BY <1>2, <2>1, <2>2, OutcomeRow DEF CommitRun, HealthInv
  <2>4. monitor.rows[a].is_active /\ ~Outcome(a).is_active
    BY <1>1, <2>2, <2>3, WriteRow DEF Row
  <2>5. monitor.result[a] = "unhealthy" /\ Outcome(a) = RecordFailure(monitor.rows[a])
    BY <2>2, <2>4, RecordSuccessRow DEF Outcome
  <2>6. RecordFailure(monitor.rows[a]).failures = CountUp(monitor.rows[a].failures)
        /\ CountUp(monitor.rows[a].failures) >= FAILURES_BEFORE_DISABLE
        /\ CountUp(monitor.rows[a].failures) \in Counts
    BY <2>2, <2>4, <2>5, RecordFailureRow, CountUpBounds DEF Row
  <2>7. RecordFailure(monitor.rows[a]).failures <= failed[a] /\ failed[a] \in Counts
    BY <2>2, <2>5 DEF HealthInv, RunInv, TypeOK
  <2> QED BY <2>6, <2>7, HealthAssumption DEF Counts
<1>3. ASSUME NEW c \in Clients, CommitUpdate(c) PROVE FALSE
  <2> DEFINE r == update[c].row
             b == update[c].account
  <2>1. r \in Row /\ b = a /\ accounts'[a] = Write(accounts[a], r, Enabled(r))
    BY <1>1, <1>3 DEF CommitUpdate, HealthInv, TypeOK
  <2>2. accounts'[a].is_active = IF r.is_active = Enabled(r).is_active
                                 THEN accounts[a].is_active ELSE Enabled(r).is_active
    BY <1>1, <2>1, EnabledRow, WriteRow
  <2> QED BY <2>1, <2>2, EnabledRow
<1>4. ASSUME NEW b \in Accounts, CreateAccount(b) \/ DeleteAccount(b) PROVE FALSE
  BY <1>1, <1>4, HealthAssumption DEF CreateAccount, DeleteAccount, HealthInv, TypeOK, Exists
<1> QED BY <1>1, <1>2, <1>3, <1>4
        DEF Next, Monitor, SelectActive, SelectDisabled, Probe, CommitFails, LoseRun,
            BrokerFlips, BeginUpdate

\* No account is turned off before the threshold of failures is really reached.
THEOREM DisabledOnlyAfterFailures == Spec => DisabledAfterFailures
<1>1. HealthInv /\ [Next]_vars =>
        [\A a \in Accounts :
          (/\ Exists(a) /\ accounts[a].is_active
           /\ accounts'[a] \in Row /\ ~accounts'[a].is_active)
            => failed[a] >= FAILURES_BEFORE_DISABLE]_vars
  BY StepDisables
<1> QED BY HealthInit, HealthNext, <1>1, PTL DEF Spec, DisabledAfterFailures

-----------------------------------------------------------------------------
(* The instrument sync. *)

Syncing == {"download", "ok", "failed"}
Held == [Instruments -> 0 .. MaxVersion]
Task == [pc : {"idle", "choose"} \union Syncing, broker : Brokers \union {None},
         file : Nat, ver : Versions, next : Nat, held : Held, seen : {None, "ok", "failed"}]

\* The state of one task.
GoodTask(r) ==
    /\ r \in Task
    /\ r.pc \in Syncing => r.broker \in Brokers

\* Two tasks never hold the same row of one broker.
Apart(r, s) ==
    r.broker = s.broker => \A i \in Instruments : r.held[i] = 0 \/ s.held[i] = 0

\* A broken download that found the status failed and would leave it at ok holds no
\* row of the last complete download.
Harmless(r) ==
    r.pc = "failed" /\ r.seen = "failed" /\ status[r.broker] = "ok" =>
        \A i \in Instruments : r.held[i] = 0 \/ got[r.broker][i] = 0

TableTypes ==
    /\ newest \in Versions /\ active \subseteq Brokers /\ todo \subseteq Brokers
    /\ row \in [Brokers -> Held] /\ got \in [Brokers -> Held]
    /\ status \in [Brokers -> {None, "ok", "failed"}]

TaskInv ==
    /\ task = [t \in Tasks |-> task[t]]
    /\ \A t \in Tasks : GoodTask(task[t]) /\ Harmless(task[t])
LockInv == \A t, u \in Tasks : t # u => Apart(task[t], task[u])

SyncInv == TableTypes /\ TaskInv /\ LockInv /\ OkMeansComplete

-----------------------------------------------------------------------------
\* A task that does nothing, or has just begun, holds nothing.
LEMMA FreshTask ==
    /\ \A p \in {"idle", "choose"} : Fresh(p) \in Task /\ GoodTask(Fresh(p)) /\ Harmless(Fresh(p))
    /\ \A p \in {"idle", "choose"} : \A s : Apart(Fresh(p), s) /\ Apart(s, Fresh(p))
<1>1. Nothing \in Held /\ 1 \in Versions
  BY SyncAssumption DEF Nothing, Held, Versions
<1>2. \A p \in {"idle", "choose"} : Fresh(p) \in Task
  BY <1>1 DEF Fresh, Task
<1>3. \A p \in {"idle", "choose"} :
        Fresh(p).pc = p /\ \A i \in Instruments : Fresh(p).held[i] = 0
  BY DEF Fresh, Nothing
<1> QED BY <1>2, <1>3 DEF GoodTask, Harmless, Apart, Syncing

\* The initial states satisfy the invariant.
LEMMA SyncInvInit == SyncInit => SyncInv
<1> SUFFICES ASSUME SyncInit PROVE SyncInv
  OBVIOUS
<1>1. Nothing \in Held /\ 1 \in Versions /\ \A i \in Instruments : Nothing[i] = 0
  BY SyncAssumption DEF Nothing, Held, Versions
<1>2. TableTypes /\ OkMeansComplete
  BY <1>1 DEF SyncInit, TableTypes, OkMeansComplete
<1>3. TaskInv /\ LockInv
  BY FreshTask DEF SyncInit, TaskInv, LockInv
<1> QED BY <1>2, <1>3 DEF SyncInv

\* One task goes on, and no committed row or status changes.
LEMMA TaskStep ==
    ASSUME SyncInv, NEW t \in Tasks, NEW r, task' = [task EXCEPT ![t] = r],
           GoodTask(r), Harmless(r),
           \A u \in Tasks \ {t} : Apart(r, task[u]) /\ Apart(task[u], r),
           UNCHANGED <<world, table>>, todo' \subseteq Brokers
    PROVE  SyncInv'
<1>1. /\ task' = [u \in Tasks |-> task'[u]] /\ task'[t] = r
      /\ \A u \in Tasks \ {t} : task'[u] = task[u]
  BY DEF SyncInv, TaskInv
<1>2. TableTypes' /\ OkMeansComplete'
  BY DEF SyncInv, TableTypes, OkMeansComplete, world, table
<1>3. TaskInv'
  BY <1>1 DEF SyncInv, TaskInv, GoodTask, Harmless, world, table
<1>4. LockInv'
  BY <1>1 DEF SyncInv, LockInv, Apart
<1> QED BY <1>2, <1>3, <1>4 DEF SyncInv

\* The brokers and the accounts.
LEMMA WorldStep ==
    ASSUME SyncInv, Publish \/ \E b \in Brokers : ChangeAccount(b)
    PROVE  SyncInv'
<1>1. /\ UNCHANGED <<table, task, todo>> /\ newest' \in Versions /\ active' \subseteq Brokers
  BY SyncAssumption DEF Publish, ChangeAccount, SyncInv, TableTypes, Versions
<1> QED BY <1>1 DEF SyncInv, TableTypes, TaskInv, GoodTask, Harmless, LockInv, Apart,
                    OkMeansComplete, table

\* The choices of the job.
LEMMA ChoiceStep ==
    ASSUME SyncInv,
           StartJob \/ EndJob \/ \E b \in Brokers : SkipBroker(b) \/ AdapterFails(b)
    PROVE  SyncInv'
<1>1. /\ UNCHANGED <<world, table>> /\ todo' \subseteq Brokers
  BY DEF StartJob, EndJob, SkipBroker, AdapterFails, SyncInv, TableTypes
<1>2. CASE UNCHANGED task
  BY <1>1, <1>2 DEF SyncInv, TableTypes, TaskInv, GoodTask, Harmless, LockInv, Apart,
                    OkMeansComplete, world, table
<1>3. CASE \E p \in {"idle", "choose"} : /\ task["job"].pc \in {"idle", "choose"}
                                         /\ task' = [task EXCEPT !["job"].pc = p]
  <2>1. PICK p \in {"idle", "choose"} : task' = [task EXCEPT !["job"].pc = p]
    BY <1>3
  <2> DEFINE r == [task["job"] EXCEPT !.pc = p]
  <2>2. "job" \in Tasks /\ task' = [task EXCEPT !["job"] = r]
    BY <2>1 DEF Tasks
  <2>3. task["job"] \in Task
    BY <2>2 DEF SyncInv, TaskInv, GoodTask
  <2>4. /\ r \in Task /\ r.pc = p /\ r.broker = task["job"].broker
        /\ r.held = task["job"].held
    BY <2>3 DEF Task
  <2>5. GoodTask(r) /\ Harmless(r)
    BY <2>4 DEF GoodTask, Harmless, Syncing
  <2>6. \A u \in Tasks \ {"job"} : Apart(r, task[u]) /\ Apart(task[u], r)
    BY <2>2, <2>4 DEF SyncInv, LockInv, Apart
  <2> QED BY <1>1, <2>2, <2>5, <2>6, TaskStep
<1> QED BY <1>2, <1>3 DEF StartJob, EndJob, SkipBroker, AdapterFails

\* A task begins with nothing.
LEMMA BeginStep == ASSUME SyncInv, NEW t \in Tasks, NEW b \in Brokers, Begin(t, b) PROVE SyncInv'
<1> DEFINE r == [Fresh("download") EXCEPT !.broker = b]
<1>1. Nothing \in Held /\ 1 \in Versions /\ \A i \in Instruments : Nothing[i] = 0
  BY SyncAssumption DEF Nothing, Held, Versions
<1>2. /\ r \in Task /\ r.pc = "download" /\ r.broker = b /\ r.held = Nothing
  BY <1>1 DEF Fresh, Task, Syncing
<1>3. GoodTask(r) /\ Harmless(r) /\ \A s : Apart(r, s) /\ Apart(s, r)
  BY <1>1, <1>2 DEF GoodTask, Harmless, Apart
<1>4. /\ task' = [task EXCEPT ![t] = r] /\ UNCHANGED <<world, table>>
      /\ todo' \subseteq Brokers
  BY DEF Begin, SyncInv, TableTypes
<1> QED BY <1>3, <1>4, TaskStep

\* The next file changes nothing that is held.
LEMMA FetchStep == ASSUME SyncInv, NEW t \in Tasks, FetchFile(t) PROVE SyncInv'
<1> DEFINE r == [task[t] EXCEPT !.file = @ + 1, !.ver = newest, !.next = 1]
<1>1. task[t] \in Task /\ newest \in Versions /\ todo \subseteq Brokers
      /\ task[t].file + 1 \in Nat
  BY DEF SyncInv, TableTypes, TaskInv, GoodTask, Task
<1>2. /\ task' = [task EXCEPT ![t] = r] /\ UNCHANGED <<world, table, todo>>
  BY DEF FetchFile, SyncInv, TaskInv
<1>3. /\ r \in Task /\ r.pc = task[t].pc /\ r.broker = task[t].broker
      /\ r.held = task[t].held /\ r.seen = task[t].seen
  BY <1>1 DEF Task
<1>4. GoodTask(r) /\ Harmless(r) /\ \A u \in Tasks \ {t} : Apart(r, task[u]) /\ Apart(task[u], r)
  BY <1>3 DEF SyncInv, TaskInv, LockInv, GoodTask, Harmless, Apart
<1> QED BY <1>1, <1>2, <1>4, TaskStep

\* A task upserts a record whose row nobody holds.
LEMMA UpsertStep == ASSUME SyncInv, NEW t \in Tasks, Upsert(t) PROVE SyncInv'
<1> DEFINE i == File(t)[task[t].next]
           h == [task[t].held EXCEPT ![i] = task[t].ver]
           r == [task[t] EXCEPT !.held = h, !.next = @ + 1]
<1>1. task[t] \in Task /\ todo \subseteq Brokers
  BY DEF SyncInv, TableTypes, TaskInv, GoodTask
<1>2. /\ task' = [task EXCEPT ![t] = r] /\ UNCHANGED <<world, table, todo>>
      /\ task[t].pc = "download"
  BY DEF Upsert, AtRecord, SyncInv, TaskInv
<1>3. h \in Held /\ \A j \in Instruments \ {i} : h[j] = task[t].held[j]
  <2>1. task[t].ver \in 0 .. MaxVersion /\ task[t].held \in Held
    BY <1>1, SyncAssumption DEF Task, Versions
  <2> QED BY <2>1 DEF Held
<1>4. /\ r \in Task /\ r.pc = "download" /\ r.broker = task[t].broker /\ r.held = h
  <2>1. task[t].next + 1 \in Nat
    BY <1>1 DEF Task
  <2> QED BY <1>1, <1>2, <1>3, <2>1 DEF Task
<1>5. GoodTask(r) /\ Harmless(r)
  BY <1>2, <1>4 DEF SyncInv, TaskInv, GoodTask, Harmless
<1>6. ASSUME NEW u \in Tasks \ {t} PROVE Apart(r, task[u]) /\ Apart(task[u], r)
  <2>1. task[u].broker = task[t].broker => task[u].held[i] = 0
    BY DEF Upsert, Waits, Holds
  <2>2. Apart(task[t], task[u])
    BY DEF SyncInv, LockInv
  <2> QED BY <1>3, <1>4, <2>1, <2>2 DEF Apart
<1> QED BY <1>1, <1>2, <1>5, <1>6, TaskStep

\* The end of a download, whole or broken, loads the status.
LEMMA LoadStep ==
    ASSUME SyncInv, NEW t \in Tasks, DownloadEnds(t) \/ DownloadBreaks(t)
    PROVE  SyncInv'
<1>1. PICK outcome \in {"ok", "failed"} : LoadStatus(t, outcome)
  BY DEF DownloadEnds, DownloadBreaks
<1>2. task[t] \in Task /\ task[t].broker \in Brokers /\ todo \subseteq Brokers
  BY DEF SyncInv, TableTypes, TaskInv, GoodTask, DownloadEnds, DownloadBreaks, AtFileEnd, Syncing
<1> DEFINE r == [Fresh(outcome) EXCEPT !.broker = task[t].broker, !.held = task[t].held,
                                     !.seen = status[task[t].broker]]
<1>3. /\ task' = [task EXCEPT ![t] = r] /\ UNCHANGED <<world, table, todo>>
  BY <1>1 DEF LoadStatus
<1>4. status[task[t].broker] \in {None, "ok", "failed"} /\ 1 \in Versions
  BY <1>2, SyncAssumption DEF SyncInv, TableTypes, Versions
<1>5. /\ r \in Task /\ r.broker = task[t].broker /\ r.held = task[t].held
      /\ r.seen = status[r.broker]
  BY <1>2, <1>4 DEF Fresh, Task, Syncing
<1>6. GoodTask(r) /\ Harmless(r)
  BY <1>2, <1>5 DEF GoodTask, Harmless
<1>7. \A u \in Tasks \ {t} : Apart(r, task[u]) /\ Apart(task[u], r)
  BY <1>5 DEF SyncInv, LockInv, Apart
<1> QED BY <1>2, <1>3, <1>6, <1>7, TaskStep

-----------------------------------------------------------------------------
\* A task that leaves without a commit leaves everything as it was.
LEMMA LeaveStep ==
    ASSUME SyncInv, NEW t \in Tasks, CommitCollides(t) \/ DatabaseFails(t) \/ DeadlockVictim(t)
    PROVE  SyncInv'
<1>1. Leave(t, {}) /\ UNCHANGED <<world, table>>
  BY DEF CommitCollides, DatabaseFails, DeadlockVictim
<1>2. task' = [task EXCEPT ![t] = Fresh("idle")] /\ todo' \subseteq Brokers
  BY <1>1 DEF Leave, SyncInv, TableTypes
<1> QED BY <1>1, <1>2, FreshTask, TaskStep

\* A commit writes a complete download, or a part of one: under the status failed,
\* or without touching the complete one.
LEMMA CommitStep == ASSUME SyncInv, NEW t \in Tasks, Commit(t) PROVE SyncInv'
<1> DEFINE r == task[t]
           b == r.broker
<1>1. /\ r \in Task /\ b \in Brokers /\ r.pc \in {"ok", "failed"} /\ UNCHANGED world
      /\ r.held \in Held /\ Harmless(r)
  BY DEF Commit, Finished, SyncInv, TaskInv, GoodTask, Syncing, Task
<1>2. PICK p \in {"idle", "choose"} : task' = [task EXCEPT ![t] = Fresh(p)]
  BY DEF Commit, Leave
<1>3. /\ task' = [u \in Tasks |-> task'[u]] /\ task'[t] = Fresh(p)
      /\ \A u \in Tasks \ {t} : task'[u] = task[u]
  BY <1>2 DEF SyncInv, TaskInv
<1>4. /\ status' \in [Brokers -> {None, "ok", "failed"}]
      /\ status'[b] = IF r.seen = r.pc THEN status[b] ELSE r.pc
      /\ \A c \in Brokers \ {b} : status'[c] = status[c]
  BY <1>1 DEF Commit, SyncInv, TableTypes
<1>5. /\ got' \in [Brokers -> Held]
      /\ got'[b] = IF r.pc = "ok" THEN r.held ELSE got[b]
      /\ \A c \in Brokers \ {b} : got'[c] = got[c]
  BY <1>1 DEF Commit, SyncInv, TableTypes
<1>6. /\ row' \in [Brokers -> Held]
      /\ \A i \in Instruments : row'[b][i] = IF r.held[i] # 0 THEN r.held[i] ELSE row[b][i]
      /\ \A c \in Brokers \ {b} : row'[c] = row[c]
  <2> DEFINE new == [i \in Instruments |-> IF r.held[i] # 0 THEN r.held[i] ELSE row[b][i]]
  <2>1. row' = [row EXCEPT ![b] = new]
    BY <1>1 DEF Commit, SyncInv, TableTypes
  <2>2. new \in Held
    BY <1>1 DEF SyncInv, TableTypes, Held
  <2> QED BY <1>1, <2>1, <2>2 DEF SyncInv, TableTypes
<1>7. TableTypes'
  <2>1. todo' \subseteq Brokers
    BY DEF Commit, Leave, SyncInv, TableTypes
  <2> QED BY <1>1, <1>4, <1>5, <1>6, <2>1 DEF SyncInv, TableTypes, world
<1>8. ASSUME NEW u \in Tasks, NEW s, s = task'[u] PROVE GoodTask(s) /\ Harmless(s)'
  <2>1. CASE u = t
    <3>1. s = Fresh(p) /\ s.pc = p
      BY <1>3, <1>8, <2>1 DEF Fresh
    <3> QED BY <3>1, FreshTask DEF Harmless
  <2>2. CASE u # t
    <3>1. s = task[u] /\ GoodTask(s) /\ Harmless(s)
      BY <1>3, <1>8, <2>2 DEF SyncInv, TaskInv
    <3>2. ASSUME s.pc = "failed", s.seen = "failed", status'[s.broker] = "ok"
          PROVE  \A i \in Instruments : s.held[i] = 0 \/ got'[s.broker][i] = 0
      <4>1. s.broker \in Brokers
        BY <3>1, <3>2 DEF GoodTask, Syncing
      <4>2. CASE s.broker # b
        BY <3>1, <3>2, <4>1, <4>2, <1>4, <1>5 DEF Harmless
      <4>3. CASE s.broker = b /\ r.pc = "ok"
        <5>1. Apart(r, s)
          BY <2>2, <3>1 DEF SyncInv, LockInv
        <5> QED BY <4>3, <5>1, <1>5 DEF Apart
      <4>4. CASE s.broker = b /\ r.pc = "failed"
        BY <3>1, <3>2, <4>4, <1>4, <1>5 DEF Harmless
      <4> QED BY <4>2, <4>3, <4>4, <1>1
    <3> QED BY <3>1, <3>2 DEF Harmless
  <2> QED BY <2>1, <2>2
<1>9. TaskInv' /\ LockInv'
  <2>1. TaskInv'
    BY <1>3, <1>8 DEF TaskInv, GoodTask, Harmless
  <2>2. LockInv'
    BY <1>3, FreshTask DEF SyncInv, LockInv, Apart
  <2> QED BY <2>1, <2>2
<1>10. OkMeansComplete'
  <2> SUFFICES ASSUME NEW c \in Brokers, status'[c] = "ok", NEW i \in Instruments,
                      got'[c][i] # 0
               PROVE  row'[c][i] = got'[c][i]
    BY DEF OkMeansComplete
  <2>1. CASE c # b
    BY <2>1, <1>4, <1>5, <1>6 DEF SyncInv, OkMeansComplete
  <2>2. CASE c = b /\ r.pc = "ok"
    BY <2>2, <1>5, <1>6
  <2>3. CASE c = b /\ r.pc = "failed"
    <3>1. r.seen = "failed" /\ status[b] = "ok" /\ got'[b] = got[b]
      BY <2>3, <1>4, <1>5
    <3>2. r.held[i] = 0
      BY <2>3, <3>1, <1>1 DEF Harmless
    <3> QED BY <2>3, <3>1, <3>2, <1>6 DEF SyncInv, OkMeansComplete
  <2> QED BY <2>1, <2>2, <2>3, <1>1
<1> QED BY <1>7, <1>9, <1>10 DEF SyncInv

\* A restart leaves the committed rows alone.
LEMMA RestartStep == ASSUME SyncInv, Restart PROVE SyncInv'
<1>1. /\ task' = [t \in Tasks |-> Fresh("idle")] /\ todo' = {} /\ UNCHANGED <<world, table>>
  BY DEF Restart
<1>2. TableTypes' /\ OkMeansComplete'
  BY <1>1 DEF SyncInv, TableTypes, OkMeansComplete, world, table
<1>3. TaskInv' /\ LockInv'
  <2>1. Fresh("idle").pc = "idle"
    BY DEF Fresh
  <2> QED BY <1>1, <2>1, FreshTask DEF TaskInv, LockInv, GoodTask, Harmless, Apart
<1> QED BY <1>2, <1>3 DEF SyncInv

\* Every step keeps the invariant.
LEMMA SyncInvStep == SyncInv /\ [SyncNext]_syncVars => SyncInv'
<1> SUFFICES ASSUME SyncInv, [SyncNext]_syncVars PROVE SyncInv'
  OBVIOUS
<1>1. CASE Step
  BY <1>1, WorldStep, ChoiceStep, BeginStep, FetchStep, UpsertStep, LoadStep, CommitStep, LeaveStep
     DEF Step, Job, Sync, Tasks
<1>2. CASE Failure
  BY <1>2, ChoiceStep, LoadStep, LeaveStep, RestartStep DEF Failure
<1>3. CASE UNCHANGED syncVars
  <2>1. UNCHANGED <<newest, active, row, status, got, task, todo>>
    BY <1>3 DEF syncVars, state, world, table
  <2> QED BY <2>1 DEF SyncInv, TableTypes, TaskInv, GoodTask, Harmless, LockInv, Apart,
                      OkMeansComplete
<1> QED BY <1>1, <1>2, <1>3 DEF SyncNext

-----------------------------------------------------------------------------
\* A broker shown as synchronised has the records of its last complete download, for
\* any contracts, whatever instruments they gain and lose, and whatever overlaps,
\* breaks or restarts.
THEOREM CompleteDownloadsAreKept == SyncSpec => []OkMeansComplete
<1>1. SyncInv => OkMeansComplete
  BY DEF SyncInv
<1>2. SyncSpec => []SyncInv
  BY SyncInvInit, SyncInvStep, PTL DEF SyncSpec
<1> QED BY <1>1, <1>2, PTL
=============================================================================
