--------------------------- MODULE OrderExecution ---------------------------
(***************************************************************************)
(* Order placement as ExecutionService performs it: every request is a     *)
(* coroutine with a database session of its own, interleaved with the      *)
(* others at each await.  A session checks risk, sends each leg to the     *)
(* broker (an external party that never rolls back), stages the order row, *)
(* moves the position through PositionTracker.apply_fill and commits.      *)
(*                                                                         *)
(* The database is PostgreSQL at READ COMMITTED: a read sees the last      *)
(* commit (or the session's own writes), an UPDATE takes the row's lock    *)
(* until the transaction ends, and nothing compares a row with the version *)
(* that was read.  The session has expire_on_commit and autoflush off and  *)
(* keeps ONE Position instance per row while anything refers to it: "mem"  *)
(* is that instance's quantity.                                            *)
(***************************************************************************)
EXTENDS Integers, Sequences, FiniteSets, FiniteSetsExt

CONSTANTS
  Sessions,      \* requests in flight, each with its own database session
  Symbols,       \* the instruments of the one account modelled
  None,          \* no instance, no lock holder
  MaxLegs,       \* bound on the legs of a request
  Requests,      \* the requests a client may make
  Seed,          \* committed quantities before the first request
  SeedRows,      \* the symbols that have a positions row then
  MaxPositions   \* settings.max_positions

Kinds    == {"place", "smart", "close", "atomic", "basket"}
Legs     == [sym : Symbols, qty : Int]
OrderIds == Sessions \X (1 .. MaxLegs)
Statuses == {"none", "pending", "filled"}
Stages   == {"idle", "target", "check", "limits", "send", "record", "apply",
             "insert", "cache", "audit", "commit", "refresh"}
Finals   == {"done", "failed", "crashed"}
Reasons  == {"none", "no_open_position", "external", "concentration_limit",
             "max_positions_reached", "broker_error", "redis_error",
             "unique_violation", "deadlock_detected", "db_error",
             "refresh_failed", "crash"}

ASSUME NoneAssumption == None \notin Sessions /\ None \notin Int
ASSUME BoundsAssumption == MaxLegs \in Nat \ {0} /\ MaxPositions \in Nat
ASSUME SeedAssumption ==
  /\ Seed \in [Symbols -> Int]
  /\ SeedRows \subseteq Symbols
  /\ \A y \in Symbols \ SeedRows : Seed[y] = 0
ASSUME RequestsAssumption ==
  \A r \in Requests :
    /\ r.kind \in Kinds
    /\ r.legs \in Seq(Legs)
    /\ Len(r.legs) \in 1 .. MaxLegs
    /\ r.kind \in {"place", "smart", "close"} => Len(r.legs) = 1

VARIABLES
  \* the database, as committed
  position, rows, booked, lock,
  \* the broker: the orders it has taken
  placed,
  \* the sessions
  pc, kind, todo, leg, mem, dirty, staged, out, reason,
  \* history, for the properties only
  ledger, applied, ver, seen, lost

dbVars   == <<position, rows, booked, lock>>
histVars == <<ledger, applied, ver, seen, lost>>
vars     == <<dbVars, placed, pc, kind, todo, leg, mem, dirty, staged, out,
              reason, histVars>>

Init ==
  /\ position = Seed
  /\ rows = SeedRows
  /\ booked = [id \in OrderIds |-> "none"]
  /\ lock = [y \in Symbols |-> None]
  /\ placed = {}
  /\ pc = [s \in Sessions |-> "idle"]
  /\ kind = [s \in Sessions |-> "place"]
  /\ todo = [s \in Sessions |-> <<>>]
  /\ leg = [s \in Sessions |-> 1]
  /\ mem = [s \in Sessions |-> [y \in Symbols |-> None]]
  /\ dirty = [s \in Sessions |-> {}]
  /\ staged = [id \in OrderIds |-> "none"]
  /\ out = [s \in Sessions |-> {}]
  /\ reason = [s \in Sessions |-> "none"]
  /\ ledger = [y \in Symbols |-> 0]
  /\ applied = [s \in Sessions |-> [y \in Symbols |-> 0]]
  /\ ver = [y \in Symbols |-> 0]
  /\ seen = [s \in Sessions |-> [y \in Symbols |-> 0]]
  /\ lost = {}

-----------------------------------------------------------------------------
(* What a session is working on, and what its reads return.                *)

Cur(s)   == todo[s][leg[s]]
CurId(s) == <<s, leg[s]>>
IsLast(s) == leg[s] = Len(todo[s])
Abs(n)   == IF n < 0 THEN -n ELSE n

\* An ORM read: an instance that is already loaded keeps its quantity.
OrmRead(s, y) == IF mem[s][y] # None THEN mem[s][y] ELSE position[y]

\* A filter evaluated by the database: it does not see unflushed changes
\* (exact for requests of up to two legs).
SqlRead(s, y) ==
  IF lock[y] = s /\ y \notin dirty[s] THEN mem[s][y] ELSE position[y]

SumAbs(s, S) == MapThenSumSet(LAMBDA y : Abs(OrmRead(s, y)), S)

\* RiskEngine.check_concentration: (symbol + new) / (account + new) > 0.30.
OverCap(s) ==
  LET q == Abs(Cur(s).qty)
  IN  10 * (SumAbs(s, {Cur(s).sym}) + q) > 3 * (SumAbs(s, Symbols) + q)

\* RiskEngine.check_max_positions, asked for a BUY only.
TooManyPositions(s) ==
  /\ Cur(s).qty > 0
  /\ Cardinality({y \in Symbols : SqlRead(s, y) # 0}) >= MaxPositions

-----------------------------------------------------------------------------
(* How a transaction, and a leg, can end.                                  *)

\* The database forgets what the session wrote and the instances are dropped.
Release(s) ==
  /\ lock' = [y \in Symbols |-> IF lock[y] = s THEN None ELSE lock[y]]
  /\ mem' = [mem EXCEPT ![s] = [y \in Symbols |-> None]]
  /\ dirty' = [dirty EXCEPT ![s] = {}]
  /\ staged' = [id \in OrderIds |-> IF id[1] = s THEN "none" ELSE staged[id]]
  /\ applied' = [applied EXCEPT ![s] = [y \in Symbols |-> 0]]

\* Mutant: the session of a request that failed is not closed.
RollbackKeepingLocks(s, end, why) ==
  /\ lock' = lock
  /\ mem' = [mem EXCEPT ![s] = [y \in Symbols |-> None]]
  /\ dirty' = [dirty EXCEPT ![s] = {}]
  /\ staged' = [id \in OrderIds |-> IF id[1] = s THEN "none" ELSE staged[id]]
  /\ applied' = [applied EXCEPT ![s] = [y \in Symbols |-> 0]]
  /\ pc' = [pc EXCEPT ![s] = end]
  /\ reason' = [reason EXCEPT ![s] = why]
  /\ UNCHANGED <<position, rows, booked, kind, todo, leg, out,
                 ledger, ver, seen, lost>>

Rollback(s, end, why) ==
  /\ Release(s)
  /\ pc' = [pc EXCEPT ![s] = end]
  /\ reason' = [reason EXCEPT ![s] = why]
  /\ UNCHANGED <<position, rows, booked, kind, todo, leg, out,
                 ledger, ver, seen, lost>>

\* A non-atomic basket logs the exception and tries its next leg with the
\* same session, whatever the failed leg left in it.
SkipLeg(s) ==
  /\ pc' = [pc EXCEPT ![s] = "check"]
  /\ leg' = [leg EXCEPT ![s] = @ + 1]
  /\ UNCHANGED <<dbVars, kind, todo, mem, dirty, staged, out, reason, histVars>>

\* Mutant: the loop over the legs does not notice its end.
LegFailsPastTheEnd(s, why) ==
  IF kind[s] = "basket" THEN SkipLeg(s) ELSE Rollback(s, "failed", why)

\* Mutant: every request swallows the exception of its last leg.
LegFailsSilently(s, why) ==
  IF kind[s] = "basket" /\ ~IsLast(s) THEN SkipLeg(s) ELSE Rollback(s, "done", why)

\* An exception that is not the database's.
LegFails(s, why) ==
  IF kind[s] = "basket"
  THEN IF IsLast(s) THEN Rollback(s, "done", why) ELSE SkipLeg(s)
  ELSE Rollback(s, "failed", why)

\* A database error invalidates the session: the remaining legs of a basket
\* fail too, before they reach the broker.
DbFails(s, why) ==
  Rollback(s, IF kind[s] = "basket" THEN "done" ELSE "failed", why)

Goto(s, stage) == pc' = [pc EXCEPT ![s] = stage]

\* The step changes nothing of the session but its place in the code.
Advance(s, stage) ==
  /\ Goto(s, stage)
  /\ UNCHANGED <<dbVars, kind, todo, leg, mem, dirty, staged, out, reason, histVars>>

-----------------------------------------------------------------------------
(* smart_order and close_position: the order is the distance to a target.  *)

Submit(s) ==
  /\ pc[s] = "idle"
  /\ \E r \in Requests :
       /\ kind' = [kind EXCEPT ![s] = r.kind]
       /\ todo' = [todo EXCEPT ![s] = r.legs]
       /\ Goto(s, IF r.kind \in {"smart", "close"} THEN "target" ELSE "check")
  /\ UNCHANGED <<dbVars, placed, leg, mem, dirty, staged, out, reason, histVars>>

Target(s) == IF kind[s] = "close" THEN 0 ELSE Cur(s).qty
Delta(s)  == Target(s) - position[Cur(s).sym]

NothingToClose(s) ==
  /\ pc[s] = "target"
  /\ kind[s] = "close"
  /\ Delta(s) = 0
  /\ Rollback(s, "failed", "no_open_position")
  /\ UNCHANGED placed

AlreadyOnTarget(s) ==
  /\ pc[s] = "target"
  /\ kind[s] = "smart"
  /\ Delta(s) = 0
  /\ Rollback(s, "done", "none")
  /\ UNCHANGED placed

\* The Position that was read stays loaded for the rest of the request.
ComputeDelta(s) ==
  LET y == Cur(s).sym
  IN  /\ pc[s] = "target"
      /\ Delta(s) # 0
      /\ todo' = [todo EXCEPT ![s] = <<[sym |-> y, qty |-> Delta(s)]>>]
      /\ mem' = [mem EXCEPT ![s][y] = IF y \in rows THEN position[y] ELSE None]
      /\ seen' = [seen EXCEPT ![s][y] = ver[y]]
      /\ Goto(s, "check")
      /\ UNCHANGED <<dbVars, placed, kind, leg, dirty, staged, out, reason,
                     ledger, applied, ver, lost>>

-----------------------------------------------------------------------------
(* RiskEngine.validate                                                      *)

\* Market hours, symbol, freeze, lot, margin, sector or rate: decided by data
\* outside the model.
RefuseExternally(s) ==
  /\ pc[s] \in {"check", "limits"}
  /\ LegFails(s, "external")
  /\ UNCHANGED placed

CheckConcentration(s) ==
  /\ pc[s] = "check"
  /\ IF OverCap(s)
     THEN LegFails(s, "concentration_limit")
     ELSE Advance(s, "limits")
  /\ UNCHANGED placed

CheckMaxPositions(s) ==
  /\ pc[s] = "limits"
  /\ IF TooManyPositions(s)
     THEN LegFails(s, "max_positions_reached")
     ELSE Advance(s, "send")
  /\ UNCHANGED placed

-----------------------------------------------------------------------------
(* broker.place_order                                                       *)

\* The acknowledgement's status is filled or accepted, booked as filled, or
\* anything else, booked as pending.
BrokerAcks(s) ==
  /\ pc[s] = "send"
  /\ placed' = placed \union {CurId(s)}
  /\ \E ack \in {"filled", "pending"} :
       staged' = [staged EXCEPT ![CurId(s)] = ack]
  /\ Goto(s, "record")
  /\ UNCHANGED <<dbVars, kind, todo, leg, mem, dirty, out, reason, histVars>>

BrokerRefuses(s) ==
  /\ pc[s] = "send"
  /\ LegFails(s, "broker_error")
  /\ UNCHANGED placed

\* The broker took the order; the answer never arrived.
BrokerTimesOut(s) ==
  /\ pc[s] = "send"
  /\ placed' = placed \union {CurId(s)}
  /\ LegFails(s, "broker_error")

-----------------------------------------------------------------------------
(* The order row, apply_fill and the audit row                              *)

\* UPDATE positions SET quantity = <the instance's value>: absolute, behind
\* the row's lock.
FlushRow(s, y) ==
  /\ pc[s] \in {"record", "audit"}
  /\ y \in dirty[s]
  /\ lock[y] \in {None, s}
  /\ lock' = [lock EXCEPT ![y] = s]
  /\ dirty' = [dirty EXCEPT ![s] = @ \ {y}]
  /\ UNCHANGED <<position, rows, booked, placed, pc, kind, todo, leg, mem,
                 staged, out, reason, histVars>>

\* Mutant: a pending acknowledgement is applied to the position as well.
RecordOrderAsFilled(s) ==
  /\ pc[s] = "record"
  /\ dirty[s] = {}
  /\ Advance(s, "apply")
  /\ UNCHANGED placed

RecordOrder(s) ==
  /\ pc[s] = "record"
  /\ dirty[s] = {}
  /\ Advance(s, IF staged[CurId(s)] = "filled" THEN "apply" ELSE "audit")
  /\ UNCHANGED placed

\* Mutant: the side of the fill is ignored.
MoveInstanceUnsigned(s, y, from) ==
  /\ mem' = [mem EXCEPT ![s][y] = from + Abs(Cur(s).qty)]
  /\ dirty' = [dirty EXCEPT ![s] = @ \union {y}]
  /\ applied' = [applied EXCEPT ![s][y] = @ + Cur(s).qty]
  /\ seen' = [seen EXCEPT ![s][y] = IF mem[s][y] = None THEN ver[y] ELSE @]
  /\ Goto(s, "cache")
  /\ UNCHANGED <<position, rows, booked, placed, kind, todo, leg, staged, out,
                 reason, ledger, ver, lost>>

\* The instance moves by the signed quantity.
MoveInstance(s, y, from) ==
  /\ mem' = [mem EXCEPT ![s][y] = from + Cur(s).qty]
  /\ dirty' = [dirty EXCEPT ![s] = @ \union {y}]
  /\ applied' = [applied EXCEPT ![s][y] = @ + Cur(s).qty]
  /\ seen' = [seen EXCEPT ![s][y] = IF mem[s][y] = None THEN ver[y] ELSE @]
  /\ Goto(s, "cache")
  /\ UNCHANGED <<position, rows, booked, placed, kind, todo, leg, staged, out,
                 reason, ledger, ver, lost>>

ApplyFill(s) ==
  LET y == Cur(s).sym
  IN  /\ pc[s] = "apply"
      /\ mem[s][y] # None \/ y \in rows
      /\ MoveInstance(s, y, OrmRead(s, y))
      /\ UNCHANGED lock

PositionMissing(s) ==
  /\ pc[s] = "apply"
  /\ mem[s][Cur(s).sym] = None
  /\ Cur(s).sym \notin rows
  /\ Advance(s, "insert")
  /\ UNCHANGED placed

\* The new row holds its unique key against other inserts until the commit.
InsertPosition(s) ==
  LET y == Cur(s).sym
  IN  /\ pc[s] = "insert"
      /\ lock[y] = None
      /\ y \notin rows
      /\ lock' = [lock EXCEPT ![y] = s]
      /\ MoveInstance(s, y, 0)

InsertConflict(s) ==
  /\ pc[s] = "insert"
  /\ Cur(s).sym \in rows
  /\ DbFails(s, "unique_violation")
  /\ UNCHANGED placed

CacheWritten(s) ==
  /\ pc[s] = "cache"
  /\ Advance(s, "audit")
  /\ UNCHANGED placed

CacheFails(s) ==
  /\ pc[s] = "cache"
  /\ LegFails(s, "redis_error")
  /\ UNCHANGED placed

\* Mutant: _place_one commits, so that each leg of an atomic basket does.
AuditFlushedPerLeg(s) ==
  /\ pc[s] = "audit"
  /\ dirty[s] = {}
  /\ Advance(s, "commit")
  /\ UNCHANGED placed

\* Mutant: place_order returns without its commit.
AuditFlushedUncommitted(s) ==
  /\ pc[s] = "audit"
  /\ dirty[s] = {}
  /\ Advance(s, "refresh")
  /\ UNCHANGED placed

AuditFlushed(s) ==
  /\ pc[s] = "audit"
  /\ dirty[s] = {}
  /\ IF kind[s] = "atomic" /\ ~IsLast(s)
     THEN /\ Goto(s, "check")
          /\ leg' = [leg EXCEPT ![s] = @ + 1]
     ELSE Goto(s, "commit") /\ UNCHANGED leg
  /\ UNCHANGED <<dbVars, placed, kind, todo, mem, dirty, staged, out, reason,
                 histVars>>

-----------------------------------------------------------------------------
(* commit, refresh, and what interrupts a request                           *)

Written(s) == {y \in Symbols : lock[y] = s}

Commit(s) ==
  /\ pc[s] = "commit"
  /\ position' = [y \in Symbols |-> IF lock[y] = s THEN mem[s][y] ELSE position[y]]
  /\ rows' = rows \union Written(s)
  /\ booked' = [id \in OrderIds |->
                  IF id[1] = s /\ staged[id] # "none" THEN staged[id] ELSE booked[id]]
  /\ Release(s)
  /\ Goto(s, "refresh")
  /\ ledger' = [y \in Symbols |-> ledger[y] + applied[s][y]]
  /\ ver' = [y \in Symbols |-> IF lock[y] = s THEN ver[y] + 1 ELSE ver[y]]
  /\ lost' = lost \union {y \in Written(s) : seen[s][y] # ver[y]}
  /\ UNCHANGED <<placed, kind, todo, leg, out, reason, seen>>

\* The caller is handed the order(s) of the transaction.
Refresh(s) ==
  /\ pc[s] = "refresh"
  /\ out' = [out EXCEPT ![s] =
               IF kind[s] = "basket" THEN @ \union {leg[s]} ELSE 1 .. Len(todo[s])]
  /\ IF IsLast(s)
     THEN Goto(s, "done") /\ UNCHANGED leg
     ELSE /\ Goto(s, "check")
          /\ leg' = [leg EXCEPT ![s] = @ + 1]
  /\ UNCHANGED <<dbVars, placed, kind, todo, mem, dirty, staged, reason, histVars>>

RefreshFails(s) ==
  /\ pc[s] = "refresh"
  /\ DbFails(s, "refresh_failed")
  /\ UNCHANGED placed

\* s waits for a row, or for a unique key, that t holds.
WaitsFor(s, t) ==
  /\ s # t
  /\ \/ /\ pc[s] \in {"record", "audit"}
        /\ dirty[s] # {}
        /\ \A y \in dirty[s] : lock[y] \notin {None, s}
        /\ \E y \in dirty[s] : lock[y] = t
     \/ /\ pc[s] = "insert"
        /\ Cur(s).sym \notin rows
        /\ lock[Cur(s).sym] = t

\* PostgreSQL breaks a cycle of waiting transactions by failing one of them.
DeadlockVictim(s) ==
  /\ \E D \in SUBSET Sessions :
       /\ s \in D
       /\ \A a \in D : \E b \in D : WaitsFor(a, b)
       /\ \A b \in D : \E a \in D : WaitsFor(a, b)
  /\ DbFails(s, "deadlock_detected")
  /\ UNCHANGED placed

DbError(s) ==
  /\ pc[s] \in {"target", "check", "limits", "record", "apply", "insert",
                "audit", "commit"}
  /\ DbFails(s, "db_error")
  /\ UNCHANGED placed

Crash(s) ==
  /\ pc[s] \in Stages \ {"idle"}
  /\ Rollback(s, "crashed", "crash")
  /\ UNCHANGED placed

-----------------------------------------------------------------------------
\* What the program does next when nothing goes wrong around it.
Progress(s) ==
  \/ NothingToClose(s) \/ AlreadyOnTarget(s) \/ ComputeDelta(s)
  \/ CheckConcentration(s) \/ CheckMaxPositions(s)
  \/ BrokerAcks(s)
  \/ RecordOrder(s) \/ \E y \in Symbols : FlushRow(s, y)
  \/ ApplyFill(s) \/ PositionMissing(s)
  \/ InsertPosition(s) \/ InsertConflict(s)
  \/ CacheWritten(s) \/ AuditFlushed(s)
  \/ Commit(s) \/ Refresh(s)

Disturbance(s) ==
  \/ RefuseExternally(s) \/ BrokerRefuses(s) \/ BrokerTimesOut(s)
  \/ CacheFails(s) \/ RefreshFails(s) \/ DbError(s) \/ Crash(s)

Next == \E s \in Sessions :
          Submit(s) \/ Progress(s) \/ DeadlockVictim(s) \/ Disturbance(s)

Fairness == \A s \in Sessions : WF_vars(Progress(s)) /\ WF_vars(DeadlockVictim(s))

Spec     == Init /\ [][Next]_vars
FairSpec == Spec /\ Fairness
-----------------------------------------------------------------------------
(* Properties                                                               *)

\* The types of all variables.
TypeOK ==
  /\ position \in [Symbols -> Int]
  /\ rows \subseteq Symbols
  /\ booked \in [OrderIds -> Statuses]
  /\ lock \in [Symbols -> Sessions \union {None}]
  /\ placed \subseteq OrderIds
  /\ pc \in [Sessions -> Stages \union Finals]
  /\ kind \in [Sessions -> Kinds]
  /\ todo \in [Sessions -> Seq(Legs)]
  /\ \A s \in Sessions : Len(todo[s]) \in 0 .. MaxLegs
  /\ leg \in [Sessions -> 1 .. MaxLegs]
  /\ mem \in [Sessions -> [Symbols -> Int \union {None}]]
  /\ dirty \in [Sessions -> SUBSET Symbols]
  /\ staged \in [OrderIds -> Statuses]
  /\ out \in [Sessions -> SUBSET (1 .. MaxLegs)]
  /\ reason \in [Sessions -> Reasons]
  /\ ledger \in [Symbols -> Int]
  /\ applied \in [Sessions -> [Symbols -> Int]]
  /\ ver \in [Symbols -> Nat]
  /\ seen \in [Sessions -> [Symbols -> Nat]]
  /\ lost \subseteq Symbols

IsBooked(id) == booked[id] # "none"

\* An atomic basket is committed whole or not at all, whatever fails or
\* crashes between its legs (basket_order with atomic=True).
AtomicAllOrNone ==
  \A s \in Sessions : kind[s] = "atomic" =>
    \A k, l \in 1 .. Len(todo[s]) : IsBooked(<<s, k>>) <=> IsBooked(<<s, l>>)

\* Every order handed back to a caller is committed and is held by the broker
\* (place_order commits before it returns, after the acknowledgement).
ReportedIsReal ==
  \A s \in Sessions : \A k \in out[s] : IsBooked(<<s, k>>) /\ <<s, k>> \in placed

\* A request other than a non-atomic basket that ends without an error left
\* no order at the broker that the orders table does not have.
NoSilentOrphan ==
  \A s \in Sessions : pc[s] = "done" /\ kind[s] # "basket" =>
    \A k \in 1 .. MaxLegs : <<s, k>> \in placed => IsBooked(<<s, k>>)

\* The positions table is the seed plus the committed fills, for every symbol
\* no commit has overwritten with a value computed from an older version of
\* the row (PositionTracker.apply_fill keeps no version).
LedgerUnlessOverwritten ==
  \A y \in Symbols \ lost : position[y] = Seed[y] + ledger[y]

QtyOf(id) == todo[id[1]][id[2]].qty
FilledOf(y) ==
  {id \in OrderIds : booked[id] = "filled" /\ todo[id[1]][id[2]].sym = y}

\* Even when updates are lost, a position is explained by a subset of the
\* committed fills: nothing rolled back, refused or pending is counted.
PositionExplained ==
  \A y \in Symbols : \E F \in SUBSET FilledOf(y) :
    position[y] = Seed[y] + MapThenSumSet(QtyOf, F)

\* Every request ends, although requests wait for each other's rows.
EveryRequestEnds ==
  \A s \in Sessions : pc[s] \in Stages \ {"idle"} ~> pc[s] \in Finals
=============================================================================
