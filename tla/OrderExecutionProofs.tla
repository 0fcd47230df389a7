------------------------ MODULE OrderExecutionProofs ------------------------
(***************************************************************************)
(* What holds of OrderExecution for any number of sessions, symbols and    *)
(* legs.  Every step is first reduced to one of a few shapes: an exception *)
(* ends the request (FailStep) or the leg (SkipStep), a check lets the leg *)
(* pass (PassStep), or one of the actions that move data is taken.         *)
(*                                                                         *)
(* The parts: types and what a request carries; what it promises its       *)
(* caller; the sums of the fills and the orders they come from; rows under *)
(* one request at a time; and why a request ends.                          *)
(***************************************************************************)
EXTENDS OrderExecution, FiniteSetTheorems, WellFoundedInduction, TLAPS

-----------------------------------------------------------------------------
(* The shapes of steps                                                      *)

PlacedGrows(s) ==
  \/ UNCHANGED placed
  \/ pc[s] = "send" /\ placed' = placed \union {CurId(s)}

FailStep(s) ==
  /\ pc[s] \in Stages \ {"idle"}
  /\ PlacedGrows(s)
  /\ \E end \in Finals, why \in Reasons :
       /\ Rollback(s, end, why)
       /\ end = "done" =>
            kind[s] = "basket" \/ (pc[s] = "target" /\ UNCHANGED placed)

SkipStep(s) ==
  /\ pc[s] \in {"check", "limits", "send", "cache"}
  /\ kind[s] = "basket"
  /\ ~IsLast(s)
  /\ SkipLeg(s)
  /\ PlacedGrows(s)

PassStep(s) ==
  /\ UNCHANGED placed
  /\ \/ pc[s] = "check" /\ Advance(s, "limits")
     \/ pc[s] = "limits" /\ Advance(s, "send")
     \/ pc[s] = "cache" /\ Advance(s, "audit")

\* A leg that fails ends the request or is skipped.
LEMMA LegFailsStep ==
  ASSUME NEW s \in Sessions, NEW why \in Reasons,
         pc[s] \in {"check", "limits", "send", "cache"},
         LegFails(s, why), PlacedGrows(s)
  PROVE  FailStep(s) \/ SkipStep(s)
<1>1. CASE kind[s] = "basket" /\ IsLast(s)
  BY <1>1 DEF LegFails, FailStep, Stages, Finals
<1>2. CASE kind[s] = "basket" /\ ~IsLast(s)
  BY <1>2 DEF LegFails, SkipStep
<1>3. CASE kind[s] # "basket"
  BY <1>3 DEF LegFails, FailStep, Stages, Finals
<1> QED BY <1>1, <1>2, <1>3

\* A rollback ends a request.
LEMMA RollbackStep ==
  ASSUME NEW s \in Sessions, NEW end \in Finals, NEW why \in Reasons,
         pc[s] \in Stages \ {"idle"}, UNCHANGED placed, Rollback(s, end, why),
         end = "done" => kind[s] = "basket" \/ pc[s] = "target"
  PROVE  FailStep(s)
BY DEF FailStep, PlacedGrows

\* So does an error of the database, which a basket cannot swallow either.
LEMMA DbFailsStep ==
  ASSUME NEW s \in Sessions, NEW why \in Reasons,
         pc[s] \in Stages \ {"idle"}, DbFails(s, why), UNCHANGED placed
  PROVE  FailStep(s)
BY DEF DbFails, FailStep, PlacedGrows, Finals

Shape(s) ==
  \/ Submit(s) \/ ComputeDelta(s) \/ PassStep(s) \/ BrokerAcks(s)
  \/ RecordOrder(s) \/ (\E y \in Symbols : FlushRow(s, y))
  \/ ApplyFill(s) \/ PositionMissing(s) \/ InsertPosition(s)
  \/ AuditFlushed(s) \/ Commit(s) \/ Refresh(s)
  \/ FailStep(s) \/ SkipStep(s)

\* Every step of the specification has one of the shapes.
LEMMA NextShape ==
  ASSUME Next
  PROVE  \E s \in Sessions : Shape(s)
<1> PICK s \in Sessions : Submit(s) \/ Progress(s) \/ DeadlockVictim(s) \/ Disturbance(s)
  BY DEF Next
<1> SUFFICES Shape(s)
  OBVIOUS
<1>1. CASE NothingToClose(s) \/ AlreadyOnTarget(s) \/ Crash(s)
  <2>1. /\ pc[s] \in Stages \ {"idle"}
        /\ UNCHANGED placed
        /\ \/ Rollback(s, "failed", "no_open_position")
           \/ Rollback(s, "done", "none") /\ pc[s] = "target"
           \/ Rollback(s, "crashed", "crash")
    BY <1>1 DEF NothingToClose, AlreadyOnTarget, Crash, Stages
  <2>2. /\ {"failed", "done", "crashed"} \subseteq Finals
        /\ {"no_open_position", "none", "crash"} \subseteq Reasons
    BY DEF Finals, Reasons
  <2>3. FailStep(s)
    BY <2>1, <2>2, RollbackStep
  <2> QED BY <2>3 DEF Shape
<1>2. CASE CheckConcentration(s) \/ CheckMaxPositions(s)
  <2>1. CASE CheckConcentration(s) /\ ~OverCap(s)
    BY <2>1 DEF CheckConcentration, Shape, PassStep
  <2>2. CASE CheckMaxPositions(s) /\ ~TooManyPositions(s)
    BY <2>2 DEF CheckMaxPositions, Shape, PassStep
  <2>3. CASE CheckConcentration(s) /\ OverCap(s)
    <3>1. /\ pc[s] = "check" /\ PlacedGrows(s)
          /\ LegFails(s, "concentration_limit") /\ "concentration_limit" \in Reasons
      BY <2>3 DEF CheckConcentration, PlacedGrows, Reasons
    <3> QED BY <3>1, LegFailsStep DEF Shape
  <2>4. CASE CheckMaxPositions(s) /\ TooManyPositions(s)
    <3>1. /\ pc[s] = "limits" /\ PlacedGrows(s)
          /\ LegFails(s, "max_positions_reached") /\ "max_positions_reached" \in Reasons
      BY <2>4 DEF CheckMaxPositions, PlacedGrows, Reasons
    <3> QED BY <3>1, LegFailsStep DEF Shape
  <2> QED BY <1>2, <2>1, <2>2, <2>3, <2>4
<1>3. CASE RefuseExternally(s)
  <2>1. /\ pc[s] \in {"check", "limits", "send", "cache"}
        /\ LegFails(s, "external") /\ PlacedGrows(s) /\ "external" \in Reasons
    BY <1>3 DEF RefuseExternally, PlacedGrows, Reasons
  <2> QED BY <2>1, LegFailsStep DEF Shape
<1>4. CASE BrokerRefuses(s)
  <2>1. /\ pc[s] \in {"check", "limits", "send", "cache"}
        /\ LegFails(s, "broker_error") /\ PlacedGrows(s) /\ "broker_error" \in Reasons
    BY <1>4 DEF BrokerRefuses, PlacedGrows, Reasons
  <2> QED BY <2>1, LegFailsStep DEF Shape
<1>5. CASE BrokerTimesOut(s)
  <2>1. /\ pc[s] \in {"check", "limits", "send", "cache"}
        /\ LegFails(s, "broker_error") /\ PlacedGrows(s) /\ "broker_error" \in Reasons
    BY <1>5 DEF BrokerTimesOut, PlacedGrows, Reasons
  <2> QED BY <2>1, LegFailsStep DEF Shape
<1>6. CASE CacheFails(s)
  <2>1. /\ pc[s] \in {"check", "limits", "send", "cache"}
        /\ LegFails(s, "redis_error") /\ PlacedGrows(s) /\ "redis_error" \in Reasons
    BY <1>6 DEF CacheFails, PlacedGrows, Reasons
  <2> QED BY <2>1, LegFailsStep DEF Shape
<1>7. CASE CacheWritten(s)
  BY <1>7 DEF CacheWritten, Shape, PassStep
<1>8. CASE InsertConflict(s)
  <2>1. /\ pc[s] \in Stages \ {"idle"} /\ UNCHANGED placed
        /\ DbFails(s, "unique_violation") /\ "unique_violation" \in Reasons
    BY <1>8 DEF InsertConflict, Stages, Reasons
  <2> QED BY <2>1, DbFailsStep DEF Shape
<1>9. CASE RefreshFails(s)
  <2>1. /\ pc[s] \in Stages \ {"idle"} /\ UNCHANGED placed
        /\ DbFails(s, "refresh_failed") /\ "refresh_failed" \in Reasons
    BY <1>9 DEF RefreshFails, Stages, Reasons
  <2> QED BY <2>1, DbFailsStep DEF Shape
<1>10. CASE DbError(s)
  <2>1. /\ pc[s] \in Stages \ {"idle"} /\ UNCHANGED placed
        /\ DbFails(s, "db_error") /\ "db_error" \in Reasons
    BY <1>10 DEF DbError, Stages, Reasons
  <2> QED BY <2>1, DbFailsStep DEF Shape
<1>11. CASE DeadlockVictim(s)
  <2>1. \E b \in Sessions : WaitsFor(s, b)
    BY <1>11 DEF DeadlockVictim
  <2>2. pc[s] \in Stages \ {"idle"}
    BY <2>1 DEF WaitsFor, Stages
  <2>3. /\ DbFails(s, "deadlock_detected") /\ "deadlock_detected" \in Reasons
        /\ UNCHANGED placed
    BY <1>11 DEF DeadlockVictim, Reasons
  <2> QED BY <2>2, <2>3, DbFailsStep DEF Shape
<1>12. CASE \/ Submit(s) \/ ComputeDelta(s) \/ BrokerAcks(s) \/ RecordOrder(s)
            \/ (\E y \in Symbols : FlushRow(s, y)) \/ ApplyFill(s)
            \/ PositionMissing(s) \/ InsertPosition(s) \/ AuditFlushed(s)
            \/ Commit(s) \/ Refresh(s)
  BY <1>12 DEF Shape
<1> QED
  BY <1>1, <1>2, <1>3, <1>4, <1>5, <1>6, <1>7, <1>8, <1>9, <1>10, <1>11, <1>12
  DEF Progress, Disturbance
-----------------------------------------------------------------------------
(* Types                                                                    *)

\* The leg a request is at is one of its legs.
LegInv ==
  \A s \in Sessions :
    /\ pc[s] = "idle" => leg[s] = 1
    /\ pc[s] # "idle" => leg[s] <= Len(todo[s])
    /\ pc[s] # "idle" /\ kind[s] \in {"place", "smart", "close"} => Len(todo[s]) = 1
    /\ pc[s] = "target" => kind[s] \in {"smart", "close"}

\* A row that is locked or to be written is loaded, and a request that has
\* not computed its order yet has loaded nothing.
LoadedInv ==
  \A s \in Sessions, y \in Symbols :
    /\ lock[y] = s \/ y \in dirty[s] => mem[s][y] \in Int
    /\ pc[s] \in {"idle", "target"} => mem[s][y] = None

TypeInv == TypeOK /\ LegInv /\ LoadedInv

\* The leg at hand exists.
LEMMA CurType ==
  ASSUME TypeInv, NEW s \in Sessions, pc[s] # "idle"
  PROVE  /\ Cur(s) \in Legs
         /\ Cur(s).sym \in Symbols
         /\ Cur(s).qty \in Int
         /\ CurId(s) \in OrderIds
<1>1. leg[s] \in 1 .. Len(todo[s]) /\ leg[s] \in 1 .. MaxLegs
  BY BoundsAssumption DEF TypeInv, TypeOK, LegInv
<1>2. todo[s] \in Seq(Legs)
  BY DEF TypeInv, TypeOK
<1>3. Cur(s) \in Legs
  BY <1>1, <1>2 DEF Cur
<1>4. CurId(s) \in OrderIds
  BY <1>1 DEF CurId, OrderIds
<1> QED BY <1>3, <1>4 DEF Legs

\* A leg that is not the last has a next one.
LEMMA NextLeg ==
  ASSUME TypeInv, NEW s \in Sessions, pc[s] # "idle", ~IsLast(s)
  PROVE  leg[s] + 1 <= Len(todo[s]) /\ leg[s] + 1 \in 1 .. MaxLegs
<1>1. leg[s] \in 1 .. MaxLegs /\ Len(todo[s]) \in 0 .. MaxLegs /\ leg[s] <= Len(todo[s])
  BY DEF TypeInv, TypeOK, LegInv
<1>2. leg[s] # Len(todo[s])
  BY DEF IsLast
<1> QED BY <1>1, <1>2, BoundsAssumption

\* Types hold before the first request.
LEMMA TypeInit == ASSUME Init PROVE TypeInv
BY SeedAssumption, BoundsAssumption, NoneAssumption
DEF Init, TypeInv, TypeOK, LegInv, LoadedInv, Stages, Finals, Kinds, Statuses, Reasons

\* A session that writes a position has loaded it, after every step.
LEMMA LoadedNext ==
  ASSUME TypeInv, NEW s \in Sessions, Shape(s)
  PROVE  LoadedInv'
<1> SUFFICES ASSUME NEW t \in Sessions, NEW y \in Symbols
             PROVE  /\ lock'[y] = t \/ y \in dirty'[t] => mem'[t][y] \in Int
                    /\ pc'[t] \in {"idle", "target"} => mem'[t][y] = None
  BY DEF LoadedInv
<1>1. /\ lock[y] = t \/ y \in dirty[t] => mem[t][y] \in Int
      /\ pc[t] \in {"idle", "target"} => mem[t][y] = None
      /\ pc \in [Sessions -> Stages \union Finals]
      /\ mem \in [Sessions -> [Symbols -> Int \union {None}]]
      /\ dirty \in [Sessions -> SUBSET Symbols]
      /\ lock \in [Symbols -> Sessions \union {None}]
  BY DEF TypeInv, LoadedInv, TypeOK
<1>2. None \notin Sessions /\ None \notin Int
  BY NoneAssumption
<1>3. CASE Submit(s)
  BY <1>1, <1>3 DEF Submit, Goto, dbVars
<1>4. CASE ComputeDelta(s)
  <2>1. Cur(s).sym \in Symbols
    BY <1>4, CurType DEF ComputeDelta
  <2> QED BY <1>1, <1>2, <1>4, <2>1 DEF ComputeDelta, Goto, dbVars
<1>5. CASE PassStep(s)
  BY <1>1, <1>5 DEF PassStep, Advance, Goto, dbVars
<1>6. CASE BrokerAcks(s)
  BY <1>1, <1>6 DEF BrokerAcks, Goto, dbVars
<1>7. CASE RecordOrder(s) \/ PositionMissing(s)
  BY <1>1, <1>7 DEF RecordOrder, PositionMissing, Advance, Goto, dbVars
<1>8. ASSUME NEW z \in Symbols, FlushRow(s, z)
      PROVE  /\ lock'[y] = t \/ y \in dirty'[t] => mem'[t][y] \in Int
             /\ pc'[t] \in {"idle", "target"} => mem'[t][y] = None
  <2>1. mem[s][z] \in Int
    BY <1>8 DEF FlushRow, TypeInv, LoadedInv
  <2> QED BY <1>1, <1>2, <1>8, <2>1 DEF FlushRow
<1>9. CASE ApplyFill(s) \/ InsertPosition(s)
  <2>0. pc[s] # "idle"
    BY <1>9 DEF ApplyFill, InsertPosition
  <2>1. /\ Cur(s).sym \in Symbols /\ Cur(s).qty \in Int
        /\ OrmRead(s, Cur(s).sym) \in Int
    <3>1. Cur(s).sym \in Symbols /\ Cur(s).qty \in Int
      BY <2>0, CurType
    <3>2. /\ position[Cur(s).sym] \in Int
          /\ mem[s][Cur(s).sym] \in Int \union {None}
      BY <1>1, <3>1 DEF TypeInv, TypeOK
    <3> QED BY <3>1, <3>2 DEF OrmRead
  <2>2. PICK from \in Int : MoveInstance(s, Cur(s).sym, from)
    BY <1>9, <2>1 DEF ApplyFill, InsertPosition
  <2>3. /\ mem' = [mem EXCEPT ![s][Cur(s).sym] = from + Cur(s).qty]
        /\ from + Cur(s).qty \in Int
        /\ dirty' = [dirty EXCEPT ![s] = @ \union {Cur(s).sym}]
        /\ pc' = [pc EXCEPT ![s] = "cache"]
        /\ lock' = lock \/ lock' = [lock EXCEPT ![Cur(s).sym] = s]
    BY <1>9, <2>1, <2>2 DEF ApplyFill, InsertPosition, MoveInstance, Goto
  <2> QED BY <1>1, <1>2, <2>1, <2>3
<1>10. CASE AuditFlushed(s)
  BY <1>1, <1>10 DEF AuditFlushed, Goto, dbVars
<1>11. CASE Commit(s)
  BY <1>1, <1>2, <1>11 DEF Commit, Release, Goto
<1>12. CASE Refresh(s)
  BY <1>1, <1>12 DEF Refresh, Goto, dbVars
<1>13. CASE FailStep(s)
  <2>1. PICK end \in Finals, why \in Reasons : Rollback(s, end, why)
    BY <1>13 DEF FailStep
  <2> QED BY <1>1, <1>2, <2>1 DEF Rollback, Release, Finals
<1>14. CASE SkipStep(s)
  BY <1>1, <1>14 DEF SkipStep, SkipLeg, dbVars
<1> QED
  BY <1>3, <1>4, <1>5, <1>6, <1>7, <1>8, <1>9, <1>10, <1>11, <1>12, <1>13, <1>14
  DEF Shape

\* apply_fill keeps the types.
LEMMA MoveType ==
  ASSUME TypeInv, NEW s \in Sessions, NEW y \in Symbols, NEW from \in Int,
         pc[s] \in {"apply", "insert"}, Cur(s).qty \in Int,
         MoveInstance(s, y, from), lock' = lock \/ lock' = [lock EXCEPT ![y] = s]
  PROVE  TypeOK' /\ LegInv'
<1> USE DEF TypeInv, TypeOK
<1>1. mem' \in [Sessions -> [Symbols -> Int \union {None}]]
  BY DEF MoveInstance
<1>2. dirty' \in [Sessions -> SUBSET Symbols]
  BY DEF MoveInstance
<1>3. applied' \in [Sessions -> [Symbols -> Int]]
  BY DEF MoveInstance
<1>4. seen' \in [Sessions -> [Symbols -> Nat]]
  BY DEF MoveInstance
<1>5. lock' \in [Symbols -> Sessions \union {None}]
  OBVIOUS
<1>6. pc' \in [Sessions -> Stages \union Finals] /\ pc'[s] = "cache"
  BY DEF MoveInstance, Goto, Stages
<1>7. LegInv'
  BY <1>6 DEF MoveInstance, Goto, LegInv
<1> QED BY <1>1, <1>2, <1>3, <1>4, <1>5, <1>6, <1>7 DEF MoveInstance

\* Going on to the next leg keeps the types.
LEMMA NextLegType ==
  ASSUME TypeInv, NEW s \in Sessions, pc[s] # "idle", ~IsLast(s),
         leg' = [leg EXCEPT ![s] = @ + 1], pc' = [pc EXCEPT ![s] = "check"],
         UNCHANGED <<kind, todo>>
  PROVE  /\ leg' \in [Sessions -> 1 .. MaxLegs]
         /\ pc' \in [Sessions -> Stages \union Finals]
         /\ LegInv'
<1>1. leg[s] + 1 <= Len(todo[s]) /\ leg[s] + 1 \in 1 .. MaxLegs
  BY NextLeg
<1>2. leg' \in [Sessions -> 1 .. MaxLegs]
  BY <1>1 DEF TypeInv, TypeOK
<1>3. pc' \in [Sessions -> Stages \union Finals]
  BY DEF TypeInv, TypeOK, Stages
<1>4. ASSUME NEW t \in Sessions
      PROVE  /\ pc'[t] = "idle" => leg'[t] = 1
             /\ pc'[t] # "idle" => leg'[t] <= Len(todo'[t])
             /\ pc'[t] # "idle" /\ kind'[t] \in {"place", "smart", "close"} => Len(todo'[t]) = 1
             /\ pc'[t] = "target" => kind'[t] \in {"smart", "close"}
  BY <1>1 DEF TypeInv, TypeOK, LegInv
<1> QED BY <1>2, <1>3, <1>4 DEF LegInv

\* Every step keeps the types.
LEMMA TypeNext ==
  ASSUME TypeInv, [Next]_vars
  PROVE  TypeInv'
<1>1. CASE UNCHANGED vars
  BY <1>1 DEF vars, dbVars, histVars, TypeInv, TypeOK, LegInv, LoadedInv
<1>2. ASSUME NEW s \in Sessions, Shape(s)
      PROVE  TypeInv'
  <2> SUFFICES TypeOK' /\ LegInv'
    BY <1>2, LoadedNext DEF TypeInv
  <2> USE DEF TypeInv, TypeOK, LegInv
  <2>1. CASE Submit(s)
    BY <2>1, RequestsAssumption, BoundsAssumption
    DEF Submit, Goto, dbVars, histVars, Stages, Finals
  <2>2. CASE ComputeDelta(s)
    <3>1. Cur(s).sym \in Symbols /\ Cur(s).qty \in Int
      BY <2>2, CurType DEF ComputeDelta
    <3>2. Delta(s) \in Int
      <4>1. position[Cur(s).sym] \in Int /\ Target(s) \in Int
        BY <3>1 DEF Target
      <4> QED BY <4>1 DEF Delta
    <3>3. <<[sym |-> Cur(s).sym, qty |-> Delta(s)]>> \in Seq(Legs)
      BY <3>1, <3>2 DEF Legs
    <3>4. Len(<<[sym |-> Cur(s).sym, qty |-> Delta(s)]>>) = 1
      OBVIOUS
    <3>5. TypeOK'
      BY <2>2, <3>1, <3>3, <3>4, BoundsAssumption
      DEF ComputeDelta, Goto, dbVars, histVars, Stages, Finals
    <3>6. LegInv'
      BY <2>2, <3>4 DEF ComputeDelta, Goto
    <3> QED BY <3>5, <3>6
  <2>3. CASE PassStep(s)
    BY <2>3 DEF PassStep, Advance, Goto, dbVars, histVars, Stages, Finals
  <2>4. CASE BrokerAcks(s)
    <3>1. CurId(s) \in OrderIds
      BY <2>4, CurType DEF BrokerAcks
    <3> QED
      BY <2>4, <3>1 DEF BrokerAcks, Goto, dbVars, histVars, Stages, Finals, Statuses
  <2>5. CASE RecordOrder(s)
    BY <2>5 DEF RecordOrder, Advance, Goto, dbVars, histVars, Stages, Finals
  <2>6. ASSUME NEW y \in Symbols, FlushRow(s, y) PROVE TypeOK' /\ LegInv'
    BY <2>6 DEF FlushRow, histVars
  <2>7. CASE ApplyFill(s)
    <3>1. Cur(s).sym \in Symbols /\ Cur(s).qty \in Int
      BY <2>7, CurType DEF ApplyFill
    <3>2. OrmRead(s, Cur(s).sym) \in Int
      BY <3>1 DEF OrmRead
    <3>3. /\ MoveInstance(s, Cur(s).sym, OrmRead(s, Cur(s).sym))
          /\ lock' = lock /\ pc[s] = "apply"
      BY <2>7 DEF ApplyFill
    <3> QED BY <3>1, <3>2, <3>3, MoveType
  <2>8. CASE PositionMissing(s)
    BY <2>8 DEF PositionMissing, Advance, Goto, dbVars, histVars, Stages, Finals
  <2>9. CASE InsertPosition(s)
    <3>1. Cur(s).sym \in Symbols /\ Cur(s).qty \in Int
      BY <2>9, CurType DEF InsertPosition
    <3>2. /\ MoveInstance(s, Cur(s).sym, 0) /\ 0 \in Int
          /\ lock' = [lock EXCEPT ![Cur(s).sym] = s] /\ pc[s] = "insert"
      BY <2>9 DEF InsertPosition
    <3> QED BY <3>1, <3>2, MoveType
  <2>10. CASE AuditFlushed(s)
    <3>1. CASE kind[s] = "atomic" /\ ~IsLast(s)
      <4>1. /\ leg' \in [Sessions -> 1 .. MaxLegs]
            /\ pc' \in [Sessions -> Stages \union Finals]
            /\ LegInv'
        BY <2>10, <3>1, NextLegType DEF AuditFlushed, Goto
      <4> QED
        BY <2>10, <3>1, <4>1 DEF AuditFlushed, dbVars, histVars
    <3>2. CASE ~(kind[s] = "atomic" /\ ~IsLast(s))
      BY <2>10, <3>2 DEF AuditFlushed, Goto, dbVars, histVars, Stages, Finals
    <3> QED BY <3>1, <3>2
  <2>11. CASE Commit(s)
    <3>1. /\ position' \in [Symbols -> Int] /\ rows' \subseteq Symbols
          /\ booked' \in [OrderIds -> Statuses]
          /\ ledger' \in [Symbols -> Int] /\ ver' \in [Symbols -> Nat]
          /\ lost' \subseteq Symbols
      BY <2>11 DEF Commit, Written, LoadedInv
    <3>2. lock' \in [Symbols -> Sessions \union {None}]
          /\ mem' \in [Sessions -> [Symbols -> Int \union {None}]]
          /\ dirty' \in [Sessions -> SUBSET Symbols]
          /\ staged' \in [OrderIds -> Statuses]
          /\ applied' \in [Sessions -> [Symbols -> Int]]
      BY <2>11 DEF Commit, Release, Statuses
    <3> QED
      BY <2>11, <3>1, <3>2 DEF Commit, Goto, Stages, Finals
  <2>12. CASE Refresh(s)
    <3>0. out' \in [Sessions -> SUBSET (1 .. MaxLegs)]
      <4>1. 1 .. Len(todo[s]) \subseteq 1 .. MaxLegs
        BY BoundsAssumption
      <4>2. leg[s] \in 1 .. MaxLegs
        OBVIOUS
      <4> QED BY <2>12, <4>1, <4>2 DEF Refresh
    <3>1. CASE IsLast(s)
      <4>1. pc' = [pc EXCEPT ![s] = "done"] /\ pc[s] = "refresh"
            /\ UNCHANGED <<dbVars, placed, kind, todo, leg, mem, dirty, staged, reason, histVars>>
        BY <2>12, <3>1 DEF Refresh, Goto
      <4>2. LegInv'
        BY <4>1
      <4>3. pc' \in [Sessions -> Stages \union Finals]
        BY <4>1 DEF Finals
      <4> QED BY <3>0, <4>1, <4>2, <4>3 DEF dbVars, histVars
    <3>2. CASE ~IsLast(s)
      <4>1. /\ leg' \in [Sessions -> 1 .. MaxLegs]
            /\ pc' \in [Sessions -> Stages \union Finals]
            /\ LegInv'
        BY <2>12, <3>2, NextLegType DEF Refresh, Goto
      <4> QED
        BY <2>12, <3>0, <3>2, <4>1 DEF Refresh, dbVars, histVars
    <3> QED BY <3>1, <3>2
  <2>13. CASE FailStep(s)
    <3>1. PICK end \in Finals, why \in Reasons : Rollback(s, end, why)
      BY <2>13 DEF FailStep
    <3>2. lock' \in [Symbols -> Sessions \union {None}]
          /\ mem' \in [Sessions -> [Symbols -> Int \union {None}]]
          /\ dirty' \in [Sessions -> SUBSET Symbols]
          /\ staged' \in [OrderIds -> Statuses]
          /\ applied' \in [Sessions -> [Symbols -> Int]]
      BY <3>1 DEF Rollback, Release, Statuses
    <3>4. placed' \subseteq OrderIds
      BY <2>13, CurType DEF FailStep, PlacedGrows
    <3>5. /\ pc' = [pc EXCEPT ![s] = end] /\ reason' = [reason EXCEPT ![s] = why]
          /\ end \notin {"idle", "target"} /\ pc[s] # "idle"
          /\ UNCHANGED <<position, rows, booked, kind, todo, leg, out,
                         ledger, ver, seen, lost>>
      BY <2>13, <3>1 DEF FailStep, Rollback, Finals
    <3>6. LegInv'
      BY <3>5
    <3>7. /\ pc' \in [Sessions -> Stages \union Finals]
          /\ reason' \in [Sessions -> Reasons]
      BY <3>5
    <3> QED BY <3>2, <3>4, <3>5, <3>6, <3>7
  <2>14. CASE SkipStep(s)
    <3>1. /\ leg' \in [Sessions -> 1 .. MaxLegs]
          /\ pc' \in [Sessions -> Stages \union Finals]
          /\ LegInv'
      BY <2>14, NextLegType DEF SkipStep, SkipLeg
    <3>2. placed' \subseteq OrderIds
      BY <2>14, CurType DEF SkipStep, PlacedGrows
    <3> QED
      BY <2>14, <3>1, <3>2 DEF SkipStep, SkipLeg, dbVars, histVars
  <2> QED
    BY <1>2, <2>1, <2>2, <2>3, <2>4, <2>5, <2>6, <2>7, <2>8, <2>9, <2>10,
       <2>11, <2>12, <2>13, <2>14 DEF Shape
<1> QED BY <1>1, <1>2, NextShape

\* Every variable keeps its type, for any number of sessions, symbols and
\* legs and whatever fails or crashes (ExecutionService, PositionTracker).
THEOREM TypeCorrect == Spec => []TypeOK
<1>1. Init => TypeInv
  BY TypeInit
<1>2. TypeInv /\ [Next]_vars => TypeInv'
  BY TypeNext
<1>3. TypeInv => TypeOK
  BY DEF TypeInv
<1> QED BY <1>1, <1>2, <1>3, PTL DEF Spec

-----------------------------------------------------------------------------
(* The positions table and the ledger of committed fills                    *)

\* A session that has not been overtaken holds the committed quantity and its
\* own fills; what it applied is locked or still to be written.
Drift(s, y) ==
  /\ seen[s][y] <= ver[y]
  /\ mem[s][y] # None /\ seen[s][y] = ver[y] => mem[s][y] = position[y] + applied[s][y]
  /\ mem[s][y] = None => applied[s][y] = 0
  /\ applied[s][y] # 0 => lock[y] = s \/ y \in dirty[s]
  /\ pc[s] = "commit" => y \notin dirty[s]

DriftInv ==
  /\ LedgerUnlessOverwritten
  /\ \A y \in Symbols \ rows : position[y] = 0
  /\ \A s \in Sessions : pc[s] = "insert" => mem[s][Cur(s).sym] = None
  /\ \A s \in Sessions, y \in Symbols : Drift(s, y)

\* apply_fill moves the instance and the history together.
LEMMA MoveDrift ==
  ASSUME TypeInv, TypeInv', DriftInv, NEW s \in Sessions, NEW y \in Symbols,
         NEW from \in Int, Cur(s).qty \in Int, MoveInstance(s, y, from),
         lock' = lock \/ (lock[y] = None /\ lock' = [lock EXCEPT ![y] = s]),
         IF mem[s][y] = None THEN from = position[y] ELSE from = mem[s][y]
  PROVE  DriftInv'
<1>1. /\ position' = position /\ rows' = rows /\ ledger' = ledger
      /\ ver' = ver /\ lost' = lost
      /\ pc' = [pc EXCEPT ![s] = "cache"] /\ UNCHANGED <<todo, leg>>
      /\ mem' = [mem EXCEPT ![s][y] = from + Cur(s).qty]
      /\ dirty' = [dirty EXCEPT ![s] = @ \union {y}]
      /\ applied' = [applied EXCEPT ![s][y] = @ + Cur(s).qty]
      /\ seen' = [seen EXCEPT ![s][y] = IF mem[s][y] = None THEN ver[y] ELSE @]
  BY DEF MoveInstance, Goto
<1>2. LedgerUnlessOverwritten' /\ \A z \in Symbols \ rows' : position'[z] = 0
  BY <1>1 DEF DriftInv, LedgerUnlessOverwritten
<1>3. \A r \in Sessions : pc'[r] = "insert" => mem'[r][Cur(r)'.sym] = None
  BY <1>1 DEF DriftInv, Cur, TypeInv, TypeOK
<1>4. ASSUME NEW r \in Sessions, NEW z \in Symbols
      PROVE  Drift(r, z)'
  <2>1. Drift(r, z)
    BY DEF DriftInv
  <2>2. CASE r = s /\ z = y
    <3>1. /\ mem'[r][z] = from + Cur(s).qty
          /\ z \in dirty'[r] /\ pc'[r] = "cache"
          /\ applied'[r][z] = applied[r][z] + Cur(s).qty
          /\ seen'[r][z] = IF mem[r][z] = None THEN ver[z] ELSE seen[r][z]
      BY <1>1, <2>2 DEF TypeInv, TypeOK
    <3>2. /\ applied[r][z] \in Int /\ position[z] \in Int /\ ver[z] \in Nat
          /\ seen[r][z] \in Nat /\ None \notin Int
      BY NoneAssumption DEF TypeInv, TypeOK
    <3> QED BY <1>1, <2>1, <2>2, <3>1, <3>2 DEF Drift
  <2>3. CASE ~(r = s /\ z = y)
    <3>1. mem'[r][z] = mem[r][z]
      <4>1. CASE r # s
        BY <1>1, <4>1 DEF TypeInv, TypeOK
      <4>2. CASE r = s /\ z # y
        BY <1>1, <4>2 DEF TypeInv, TypeOK
      <4> QED BY <2>3, <4>1, <4>2
    <3>2. applied'[r][z] = applied[r][z] /\ seen'[r][z] = seen[r][z]
      <4>1. CASE r # s
        BY <1>1, <4>1 DEF TypeInv, TypeOK
      <4>2. CASE r = s /\ z # y
        BY <1>1, <4>2 DEF TypeInv, TypeOK
      <4> QED BY <2>3, <4>1, <4>2
    <3>3. z \in dirty'[r] <=> z \in dirty[r]
      <4>1. CASE r # s
        BY <1>1, <4>1 DEF TypeInv, TypeOK
      <4>2. CASE r = s /\ z # y
        BY <1>1, <4>2 DEF TypeInv, TypeOK
      <4> QED BY <2>3, <4>1, <4>2
    <3>4. pc'[r] = "commit" => pc[r] = "commit"
      BY <1>1 DEF TypeInv, TypeOK
    <3>5. lock[z] = r => lock'[z] = r
      BY NoneAssumption DEF TypeInv, TypeOK
    <3> QED BY <1>1, <2>1, <3>1, <3>2, <3>3, <3>4, <3>5 DEF Drift
  <2> QED BY <2>2, <2>3
<1> QED BY <1>2, <1>3, <1>4 DEF DriftInv

\* A step that moves no data, and starts neither a commit nor an insert.
LEMMA QuietDrift ==
  ASSUME TypeInv, DriftInv, NEW s \in Sessions,
         UNCHANGED <<position, rows, lock, mem, dirty, histVars>>,
         \A r \in Sessions \ {s} :
           pc'[r] = pc[r] /\ todo'[r] = todo[r] /\ leg'[r] = leg[r],
         pc'[s] \notin {"commit", "insert"}
  PROVE  DriftInv'
<1>1. LedgerUnlessOverwritten' /\ \A z \in Symbols \ rows' : position'[z] = 0
  BY DEF DriftInv, LedgerUnlessOverwritten, histVars
<1>2. \A r \in Sessions : pc'[r] = "insert" => mem'[r][Cur(r)'.sym] = None
  BY DEF DriftInv, Cur
<1>3. \A r \in Sessions, z \in Symbols : Drift(r, z)'
  BY DEF DriftInv, Drift, histVars
<1> QED BY <1>1, <1>2, <1>3 DEF DriftInv

\* Nobody has loaded a position at first.
LEMMA DriftInit == ASSUME Init PROVE DriftInv
BY SeedAssumption, NoneAssumption
DEF Init, DriftInv, LedgerUnlessOverwritten, Drift

\* Every step keeps it: a commit moves the position and the ledger by the same amount,
\* or puts the symbol among the lost ones.
LEMMA DriftNext ==
  ASSUME TypeInv, TypeInv', DriftInv, [Next]_vars
  PROVE  DriftInv'
<1> USE DEF TypeInv, TypeOK
<1>1. CASE UNCHANGED vars
  BY <1>1 DEF vars, dbVars, histVars, DriftInv, LedgerUnlessOverwritten, Drift, Cur
<1>2. ASSUME NEW s \in Sessions, Shape(s)
      PROVE  DriftInv'
  <2>1. CASE Submit(s)
    <3>1. /\ UNCHANGED <<position, rows, lock, mem, dirty, histVars>>
          /\ \A r \in Sessions \ {s} :
               pc'[r] = pc[r] /\ todo'[r] = todo[r] /\ leg'[r] = leg[r]
          /\ pc'[s] \notin {"commit", "insert"}
      BY <2>1 DEF Submit, Goto, dbVars
    <3> QED BY <3>1, QuietDrift
  <2>2. CASE PassStep(s) \/ BrokerAcks(s) \/ RecordOrder(s)
    <3>1. /\ UNCHANGED <<position, rows, lock, mem, dirty, histVars>>
          /\ \A r \in Sessions \ {s} :
               pc'[r] = pc[r] /\ todo'[r] = todo[r] /\ leg'[r] = leg[r]
          /\ pc'[s] \notin {"commit", "insert"}
      BY <2>2 DEF PassStep, BrokerAcks, RecordOrder, Advance, Goto, dbVars
    <3> QED BY <3>1, QuietDrift
  <2>3. CASE Refresh(s) \/ SkipStep(s)
    <3>1. /\ UNCHANGED <<position, rows, lock, mem, dirty, histVars>>
          /\ \A r \in Sessions \ {s} :
               pc'[r] = pc[r] /\ todo'[r] = todo[r] /\ leg'[r] = leg[r]
          /\ pc'[s] \notin {"commit", "insert"}
      BY <2>3 DEF Refresh, SkipStep, SkipLeg, Goto, dbVars
    <3> QED BY <3>1, QuietDrift
  <2>4. CASE ComputeDelta(s)
    <3>1. /\ Cur(s).sym \in Symbols /\ pc[s] = "target"
          /\ mem[s][Cur(s).sym] = None /\ applied[s][Cur(s).sym] = 0
          /\ position[Cur(s).sym] \in Int /\ ver[Cur(s).sym] \in Nat
      BY <2>4, CurType DEF ComputeDelta, LoadedInv, DriftInv, Drift
    <3>2. /\ UNCHANGED <<position, rows, lock, dirty, ledger, applied, ver, lost, leg>>
          /\ pc' = [pc EXCEPT ![s] = "check"]
          /\ mem' = [mem EXCEPT ![s][Cur(s).sym] =
                       IF Cur(s).sym \in rows THEN position[Cur(s).sym] ELSE None]
          /\ seen' = [seen EXCEPT ![s][Cur(s).sym] = ver[Cur(s).sym]]
          /\ \A r \in Sessions \ {s} : todo'[r] = todo[r]
      BY <2>4 DEF ComputeDelta, Goto, dbVars
    <3>3. LedgerUnlessOverwritten' /\ \A z \in Symbols \ rows' : position'[z] = 0
      BY <3>2 DEF DriftInv, LedgerUnlessOverwritten
    <3>4. \A r \in Sessions : pc'[r] = "insert" => mem'[r][Cur(r)'.sym] = None
      BY <3>2 DEF DriftInv, Cur
    <3>5. ASSUME NEW r \in Sessions, NEW z \in Symbols PROVE Drift(r, z)'
      <4>1. Drift(r, z)
        BY DEF DriftInv
      <4>2. CASE r = s /\ z = Cur(s).sym
        <5>1. /\ seen'[r][z] = ver[z]
              /\ mem'[r][z] = IF z \in rows THEN position[z] ELSE None
          BY <3>1, <3>2, <4>2
        <5> QED BY <3>1, <3>2, <4>1, <4>2, <5>1 DEF Drift
      <4>3. CASE ~(r = s /\ z = Cur(s).sym)
        <5>1. seen'[r][z] = seen[r][z] /\ mem'[r][z] = mem[r][z]
          <6>1. CASE r # s
            BY <3>2, <6>1
          <6>2. CASE r = s /\ z # Cur(s).sym
            BY <3>1, <3>2, <6>2
          <6> QED BY <4>3, <6>1, <6>2
        <5> QED BY <3>2, <4>1, <5>1 DEF Drift
      <4> QED BY <4>2, <4>3
    <3> QED BY <3>3, <3>4, <3>5 DEF DriftInv
  <2>5. ASSUME NEW y \in Symbols, FlushRow(s, y) PROVE DriftInv'
    <3>1. LedgerUnlessOverwritten' /\ \A z \in Symbols \ rows' : position'[z] = 0
      BY <2>5 DEF DriftInv, LedgerUnlessOverwritten, FlushRow, histVars
    <3>2. \A r \in Sessions : pc'[r] = "insert" => mem'[r][Cur(r)'.sym] = None
      BY <2>5 DEF DriftInv, Cur, FlushRow
    <3>3. ASSUME NEW r \in Sessions, NEW z \in Symbols PROVE Drift(r, z)'
      <4>1. Drift(r, z)
        BY DEF DriftInv
      <4>2. UNCHANGED <<position, pc, mem, applied, ver, seen>>
        BY <2>5 DEF FlushRow, histVars
      <4>3. lock[z] = r => lock'[z] = r
        BY <2>5, NoneAssumption DEF FlushRow
      <4>4. z \in dirty'[r] => z \in dirty[r]
        BY <2>5 DEF FlushRow
      <4>5. z \in dirty[r] => z \in dirty'[r] \/ lock'[z] = r
        <5>1. CASE r # s \/ z # y
          BY <2>5, <5>1 DEF FlushRow
        <5>2. CASE r = s /\ z = y
          BY <2>5, <5>2 DEF FlushRow
        <5> QED BY <5>1, <5>2
      <4> QED BY <4>1, <4>2, <4>3, <4>4, <4>5 DEF Drift
    <3> QED BY <3>1, <3>2, <3>3 DEF DriftInv
  <2>6. CASE ApplyFill(s)
    <3>1. /\ Cur(s).sym \in Symbols /\ Cur(s).qty \in Int
          /\ OrmRead(s, Cur(s).sym) \in Int
      BY <2>6, CurType DEF ApplyFill, OrmRead
    <3>2. /\ MoveInstance(s, Cur(s).sym, OrmRead(s, Cur(s).sym)) /\ lock' = lock
          /\ IF mem[s][Cur(s).sym] = None
             THEN OrmRead(s, Cur(s).sym) = position[Cur(s).sym]
             ELSE OrmRead(s, Cur(s).sym) = mem[s][Cur(s).sym]
      BY <2>6 DEF ApplyFill, OrmRead
    <3> QED BY <3>1, <3>2, MoveDrift
  <2>7. CASE InsertPosition(s)
    <3>1. pc[s] = "insert"
      BY <2>7 DEF InsertPosition
    <3>2. Cur(s).sym \in Symbols /\ Cur(s).qty \in Int /\ 0 \in Int
      BY <3>1, CurType
    <3>3. /\ MoveInstance(s, Cur(s).sym, 0) /\ lock[Cur(s).sym] = None
          /\ lock' = [lock EXCEPT ![Cur(s).sym] = s]
          /\ mem[s][Cur(s).sym] = None /\ position[Cur(s).sym] = 0
      BY <2>7, <3>1, <3>2 DEF InsertPosition, DriftInv
    <3> QED BY <3>2, <3>3, MoveDrift
  <2>8. CASE PositionMissing(s)
    <3>1. /\ UNCHANGED <<position, rows, lock, mem, dirty, histVars, todo, leg>>
          /\ pc' = [pc EXCEPT ![s] = "insert"] /\ mem[s][Cur(s).sym] = None
      BY <2>8 DEF PositionMissing, Advance, Goto, dbVars
    <3>2. LedgerUnlessOverwritten' /\ \A z \in Symbols \ rows' : position'[z] = 0
      BY <3>1 DEF DriftInv, LedgerUnlessOverwritten, histVars
    <3>3. \A r \in Sessions : pc'[r] = "insert" => mem'[r][Cur(r)'.sym] = None
      BY <3>1 DEF DriftInv, Cur
    <3>4. \A r \in Sessions, z \in Symbols : Drift(r, z)'
      BY <3>1 DEF DriftInv, Drift, histVars
    <3> QED BY <3>2, <3>3, <3>4 DEF DriftInv
  <2>9. CASE AuditFlushed(s)
    <3>1. /\ UNCHANGED <<position, rows, lock, mem, dirty, histVars, todo>>
          /\ pc'[s] \in {"check", "commit"} /\ dirty[s] = {}
          /\ \A r \in Sessions \ {s} : pc'[r] = pc[r] /\ leg'[r] = leg[r]
      BY <2>9 DEF AuditFlushed, Goto, dbVars
    <3>2. LedgerUnlessOverwritten' /\ \A z \in Symbols \ rows' : position'[z] = 0
      BY <3>1 DEF DriftInv, LedgerUnlessOverwritten, histVars
    <3>3. \A r \in Sessions : pc'[r] = "insert" => mem'[r][Cur(r)'.sym] = None
      BY <3>1 DEF DriftInv, Cur
    <3>4. \A r \in Sessions, z \in Symbols : Drift(r, z)'
      BY <3>1 DEF DriftInv, Drift, histVars
    <3> QED BY <3>2, <3>3, <3>4 DEF DriftInv
  <2>10. CASE Commit(s)
    <3>1. /\ position' = [y \in Symbols |->
                            IF lock[y] = s THEN mem[s][y] ELSE position[y]]
          /\ rows' = rows \union Written(s)
          /\ ledger' = [y \in Symbols |-> ledger[y] + applied[s][y]]
          /\ ver' = [y \in Symbols |-> IF lock[y] = s THEN ver[y] + 1 ELSE ver[y]]
          /\ lost' = lost \union {y \in Written(s) : seen[s][y] # ver[y]}
          /\ pc[s] = "commit" /\ pc' = [pc EXCEPT ![s] = "refresh"]
          /\ UNCHANGED <<todo, leg, seen>>
      BY <2>10 DEF Commit, Goto
    <3>2. /\ lock' = [y \in Symbols |-> IF lock[y] = s THEN None ELSE lock[y]]
          /\ mem' = [mem EXCEPT ![s] = [y \in Symbols |-> None]]
          /\ dirty' = [dirty EXCEPT ![s] = {}]
          /\ applied' = [applied EXCEPT ![s] = [y \in Symbols |-> 0]]
      BY <2>10 DEF Commit, Release
    <3>3. ASSUME NEW y \in Symbols
          PROVE  /\ y \notin lost' => position'[y] = Seed[y] + ledger'[y]
                 /\ y \notin rows' => position'[y] = 0
      <4>1. Drift(s, y) /\ (y \notin lost => position[y] = Seed[y] + ledger[y])
            /\ (y \notin rows => position[y] = 0)
        BY DEF DriftInv, LedgerUnlessOverwritten
      <4>2. CASE lock[y] = s
        <5>1. mem[s][y] \in Int
          BY <4>2 DEF LoadedInv
        <5>2. y \in rows' /\ (y \notin lost' => y \notin lost /\ seen[s][y] = ver[y])
          BY <3>1, <4>2 DEF Written
        <5>3. position'[y] = mem[s][y] /\ ledger'[y] = ledger[y] + applied[s][y]
          BY <3>1, <4>2
        <5>4. seen[s][y] = ver[y] => mem[s][y] = position[y] + applied[s][y]
          BY <4>1, <5>1, NoneAssumption DEF Drift
        <5>5. /\ position[y] \in Int /\ ledger[y] \in Int /\ Seed[y] \in Int
              /\ applied[s][y] \in Int
          BY SeedAssumption
        <5> HIDE DEF TypeInv, TypeOK
        <5> QED BY <4>1, <5>2, <5>3, <5>4, <5>5
      <4>3. CASE lock[y] # s
        <5>1. applied[s][y] = 0
          BY <3>1, <4>1, <4>3 DEF Drift
        <5>2. position'[y] = position[y] /\ ledger'[y] = ledger[y]
          BY <3>1, <4>3, <5>1
        <5>3. (y \in rows => y \in rows') /\ (y \in lost => y \in lost')
          BY <3>1
        <5> QED BY <4>1, <5>2, <5>3
      <4> QED BY <4>2, <4>3
    <3>4. \A r \in Sessions : pc'[r] = "insert" => mem'[r][Cur(r)'.sym] = None
      BY <3>1, <3>2 DEF DriftInv, Cur
    <3>5. ASSUME NEW r \in Sessions, NEW z \in Symbols PROVE Drift(r, z)'
      <4>1. Drift(r, z) /\ seen[r][z] \in Nat /\ ver[z] \in Nat
        BY DEF DriftInv
      <4>2. CASE r = s
        BY <3>1, <3>2, <4>1, <4>2 DEF Drift
      <4>3. CASE r # s
        <5>1. /\ mem'[r][z] = mem[r][z] /\ dirty'[r] = dirty[r]
              /\ applied'[r][z] = applied[r][z] /\ seen'[r][z] = seen[r][z]
              /\ pc'[r] = pc[r]
          BY <3>1, <3>2, <4>3
        <5>2. lock[z] = r => lock'[z] = r
          BY <3>2, <4>3
        <5>3. CASE lock[z] = s
          <6>1. ver'[z] = ver[z] + 1
            BY <3>1, <5>3
          <6> HIDE DEF TypeInv, TypeOK
          <6> QED BY <4>1, <5>1, <5>2, <6>1 DEF Drift
        <5>4. CASE lock[z] # s
          <6>1. ver'[z] = ver[z] /\ position'[z] = position[z]
            BY <3>1, <5>4
          <6> HIDE DEF TypeInv, TypeOK
          <6> QED BY <4>1, <5>1, <5>2, <6>1 DEF Drift
        <5> QED BY <5>3, <5>4
      <4> QED BY <4>2, <4>3
    <3> QED BY <3>3, <3>4, <3>5 DEF DriftInv, LedgerUnlessOverwritten
  <2>11. CASE FailStep(s)
    <3>1. PICK end \in Finals, why \in Reasons : Rollback(s, end, why)
      BY <2>11 DEF FailStep
    <3>2. /\ lock' = [y \in Symbols |-> IF lock[y] = s THEN None ELSE lock[y]]
          /\ mem' = [mem EXCEPT ![s] = [y \in Symbols |-> None]]
          /\ dirty' = [dirty EXCEPT ![s] = {}]
          /\ applied' = [applied EXCEPT ![s] = [y \in Symbols |-> 0]]
          /\ UNCHANGED <<position, rows, todo, leg, ledger, ver, seen, lost>>
          /\ pc' = [pc EXCEPT ![s] = end] /\ end \notin {"commit", "insert"}
      BY <3>1 DEF Rollback, Release, Finals
    <3>3. LedgerUnlessOverwritten' /\ \A z \in Symbols \ rows' : position'[z] = 0
      BY <3>2 DEF DriftInv, LedgerUnlessOverwritten
    <3>4. \A r \in Sessions : pc'[r] = "insert" => mem'[r][Cur(r)'.sym] = None
      BY <3>2 DEF DriftInv, Cur
    <3>5. ASSUME NEW r \in Sessions, NEW z \in Symbols PROVE Drift(r, z)'
      <4>1. Drift(r, z)
        BY DEF DriftInv
      <4> QED BY <3>2, <4>1 DEF Drift
    <3> QED BY <3>3, <3>4, <3>5 DEF DriftInv
  <2> QED
    BY <1>2, <2>1, <2>2, <2>3, <2>4, <2>5, <2>6, <2>7, <2>8, <2>9, <2>10, <2>11
    DEF Shape
<1> QED BY <1>1, <1>2, NextShape

\* For every symbol no commit has overwritten with a value computed from an
\* older version of its row, the positions table is the seed plus the
\* committed fills (place_order, basket_order, PositionTracker.apply_fill).
THEOREM PositionsAreTheLedger == Spec => []LedgerUnlessOverwritten
<1>1. Init => TypeInv /\ DriftInv
  BY TypeInit, DriftInit
<1>2. (TypeInv /\ DriftInv) /\ [Next]_vars => (TypeInv /\ DriftInv)'
  <2> SUFFICES ASSUME TypeInv, DriftInv, [Next]_vars PROVE TypeInv' /\ DriftInv'
    OBVIOUS
  <2>1. TypeInv'
    BY TypeNext
  <2> QED BY <2>1, DriftNext
<1>3. TypeInv /\ DriftInv => LedgerUnlessOverwritten
  BY DEF DriftInv
<1> QED BY <1>1, <1>2, <1>3, PTL DEF Spec

-----------------------------------------------------------------------------
(* The orders table and the broker's book: an atomic basket is committed     *)
(* whole or not at all, an order handed back to a caller is committed and is *)
(* at the broker, and a request that ends well leaves no unrecorded order.   *)

IsStaged(id) == staged[id] # "none"

\* After the broker has answered and until the transaction ends.
Sent == {"record", "apply", "insert", "cache", "audit", "commit"}

\* A request that is one transaction: its orders are staged one after the
\* other, and booked together.
OneTransaction(s, k) ==
  /\ pc[s] \in Stages \ {"refresh"} => ~IsBooked(<<s, k>>)
  /\ pc[s] \in Stages \ {"refresh"} /\ <<s, k>> \in placed => IsStaged(<<s, k>>)
  /\ pc[s] \in Stages \ {"refresh"} /\ k < leg[s] => IsStaged(<<s, k>>)
  /\ pc[s] \in {"refresh", "done"} /\ <<s, k>> \in placed => IsBooked(<<s, k>>)
  /\ pc[s] = "refresh" /\ k <= Len(todo[s]) => IsBooked(<<s, k>>)

BookOf(s) ==
  /\ \A k \in 1 .. MaxLegs :
       /\ IsStaged(<<s, k>>) \/ IsBooked(<<s, k>>) => <<s, k>> \in placed
       /\ pc[s] \in {"idle", "target"} => <<s, k>> \notin placed
       /\ kind[s] # "basket" => OneTransaction(s, k)
       /\ k \in out[s] => IsBooked(<<s, k>>)
  /\ pc[s] \in Sent => IsStaged(CurId(s))
  /\ kind[s] # "basket" /\ pc[s] \in {"commit", "refresh"} => leg[s] = Len(todo[s])
  /\ pc[s] = "refresh" => IsBooked(CurId(s))
  /\ kind[s] = "atomic" =>
       \A k, l \in 1 .. Len(todo[s]) : IsBooked(<<s, k>>) <=> IsBooked(<<s, l>>)

BookInv == \A s \in Sessions : BookOf(s)

-----------------------------------------------------------------------------
\* A step of s leaves alone what belongs to t.
SameFor(t) ==
  /\ pc'[t] = pc[t] /\ kind'[t] = kind[t] /\ todo'[t] = todo[t]
  /\ leg'[t] = leg[t] /\ out'[t] = out[t]
  /\ \A k \in 1 .. MaxLegs :
       /\ booked'[<<t, k>>] = booked[<<t, k>>]
       /\ staged'[<<t, k>>] = staged[<<t, k>>]
       /\ <<t, k>> \in placed' <=> <<t, k>> \in placed

\* A step of one session leaves the others' orders alone.
LEMMA OthersUntouched ==
  ASSUME TypeInv, NEW s \in Sessions, Shape(s), NEW t \in Sessions, t # s
  PROVE  SameFor(t)
<1> USE DEF TypeInv, TypeOK, OrderIds
<1>0. \A k \in 1 .. MaxLegs : <<t, k>> \in OrderIds /\ <<t, k>> # CurId(s)
  BY DEF CurId
<1>1. CASE Submit(s)
  BY <1>1 DEF Submit, Goto, dbVars, SameFor
<1>2. CASE ComputeDelta(s)
  BY <1>2 DEF ComputeDelta, Goto, dbVars, SameFor
<1>3. CASE PassStep(s) \/ RecordOrder(s) \/ PositionMissing(s)
  BY <1>3 DEF PassStep, RecordOrder, PositionMissing, Advance, Goto, dbVars, SameFor
<1>4. CASE BrokerAcks(s)
  BY <1>0, <1>4 DEF BrokerAcks, Goto, dbVars, SameFor
<1>5. ASSUME NEW y \in Symbols, FlushRow(s, y) PROVE SameFor(t)
  BY <1>5 DEF FlushRow, SameFor
<1>6. CASE ApplyFill(s) \/ InsertPosition(s)
  BY <1>6 DEF ApplyFill, InsertPosition, MoveInstance, Goto, SameFor
<1>7. CASE AuditFlushed(s)
  BY <1>7 DEF AuditFlushed, Goto, dbVars, SameFor
<1>8. CASE Commit(s)
  BY <1>0, <1>8 DEF Commit, Release, Goto, SameFor
<1>9. CASE Refresh(s)
  BY <1>9 DEF Refresh, Goto, dbVars, SameFor
<1>10. CASE FailStep(s)
  <2>1. PICK end \in Finals, why \in Reasons : Rollback(s, end, why)
    BY <1>10 DEF FailStep
  <2>2. \A k \in 1 .. MaxLegs : <<t, k>> \in placed' <=> <<t, k>> \in placed
    BY <1>0, <1>10 DEF FailStep, PlacedGrows
  <2>3. \A k \in 1 .. MaxLegs : staged'[<<t, k>>] = staged[<<t, k>>]
    BY <1>0, <2>1 DEF Rollback, Release
  <2> QED BY <2>1, <2>2, <2>3 DEF Rollback, SameFor
<1>11. CASE SkipStep(s)
  BY <1>0, <1>11 DEF SkipStep, SkipLeg, PlacedGrows, dbVars, SameFor
<1> QED
  BY <1>1, <1>2, <1>3, <1>4, <1>5, <1>6, <1>7, <1>8, <1>9, <1>10, <1>11 DEF Shape

\* What does not change for t keeps its part of the invariant.
LEMMA OthersBook ==
  ASSUME NEW t \in Sessions, BookOf(t), SameFor(t), TypeInv, TypeInv'
  PROVE  BookOf(t)'
<1>1. \A k \in 1 .. MaxLegs :
        /\ IsBooked(<<t, k>>)' <=> IsBooked(<<t, k>>)
        /\ IsStaged(<<t, k>>)' <=> IsStaged(<<t, k>>)
        /\ OneTransaction(t, k)' <=> OneTransaction(t, k)
  BY DEF SameFor, IsBooked, IsStaged, OneTransaction
<1>2. CurId(t)' = CurId(t) /\ CurId(t) = <<t, leg[t]>> /\ leg[t] \in 1 .. MaxLegs
  BY DEF SameFor, CurId, TypeInv, TypeOK
<1>3. 1 .. Len(todo[t]) \subseteq 1 .. MaxLegs
  BY BoundsAssumption DEF TypeInv, TypeOK
<1>4. /\ IsBooked(CurId(t))' <=> IsBooked(CurId(t))
      /\ IsStaged(CurId(t))' <=> IsStaged(CurId(t))
  BY <1>1, <1>2
<1> QED BY <1>1, <1>2, <1>3, <1>4 DEF BookOf, SameFor

-----------------------------------------------------------------------------
\* The step of s itself.
LEMMA OwnBook ==
  ASSUME TypeInv, TypeInv', NEW s \in Sessions, BookOf(s), Shape(s)
  PROVE  BookOf(s)'
<1> USE DEF TypeInv, TypeOK
<1>0. /\ \A k \in 1 .. MaxLegs : <<s, k>> \in OrderIds
      /\ CurId(s) = <<s, leg[s]>> /\ CurId(s)' = <<s, leg'[s]>>
      /\ leg[s] \in 1 .. MaxLegs /\ leg'[s] \in 1 .. MaxLegs
      /\ Len(todo[s]) \in 0 .. MaxLegs /\ Len(todo'[s]) \in 0 .. MaxLegs
  BY DEF OrderIds, CurId
<1>1. CASE Submit(s)
  <2>1. /\ pc[s] = "idle" /\ pc'[s] \in {"target", "check"} /\ leg'[s] = 1
        /\ UNCHANGED <<booked, staged, placed, out>>
    BY <1>1 DEF Submit, Goto, dbVars, LegInv
  <2>2. \A k \in 1 .. MaxLegs : <<s, k>> \notin placed /\ ~IsBooked(<<s, k>>)
    BY <2>1 DEF BookOf
  <2>3. \A k \in 1 .. MaxLegs : OneTransaction(s, k)'
    BY <1>0, <2>1, <2>2 DEF OneTransaction, IsBooked, IsStaged, Stages
  <2> QED
    BY <1>0, <2>1, <2>2, <2>3, BoundsAssumption
    DEF BookOf, IsBooked, IsStaged, Sent
<1>2. CASE ComputeDelta(s)
  <2>1. /\ pc[s] = "target" /\ pc'[s] = "check" /\ leg'[s] = leg[s]
        /\ kind'[s] = kind[s] /\ kind[s] # "atomic"
        /\ UNCHANGED <<booked, staged, placed, out>>
    BY <1>2 DEF ComputeDelta, Goto, dbVars, LegInv
  <2>2. \A k \in 1 .. MaxLegs : kind[s] # "basket" => OneTransaction(s, k)'
    BY <1>0, <2>1 DEF BookOf, OneTransaction, IsBooked, IsStaged, Stages
  <2> QED
    BY <1>0, <2>1, <2>2 DEF BookOf, IsBooked, IsStaged, Sent
<1>3. CASE PassStep(s) \/ RecordOrder(s) \/ PositionMissing(s)
  <2>1. /\ pc[s] \in Stages \ {"idle", "target", "refresh"}
        /\ pc'[s] \in Stages \ {"idle", "target", "commit", "refresh"}
        /\ pc'[s] \in Sent => pc[s] \in Sent
        /\ UNCHANGED <<booked, staged, placed, out, kind, todo, leg>>
    BY <1>3
    DEF PassStep, RecordOrder, PositionMissing, Advance, Goto, dbVars, Stages, Sent
  <2>2. \A k \in 1 .. MaxLegs : kind[s] # "basket" => OneTransaction(s, k)'
    BY <2>1 DEF BookOf, OneTransaction, IsBooked, IsStaged, Stages
  <2> QED
    BY <1>0, <2>1, <2>2 DEF BookOf, IsBooked, IsStaged
<1>4. CASE BrokerAcks(s)
  <2>1. /\ pc[s] = "send" /\ pc'[s] = "record"
        /\ placed' = placed \union {CurId(s)}
        /\ \E ack \in {"filled", "pending"} : staged' = [staged EXCEPT ![CurId(s)] = ack]
        /\ UNCHANGED <<booked, out, kind, todo, leg>>
    BY <1>4 DEF BrokerAcks, Goto, dbVars
  <2>2. \A k \in 1 .. MaxLegs :
          /\ IsStaged(<<s, k>>)' <=> IsStaged(<<s, k>>) \/ k = leg[s]
          /\ <<s, k>> \in placed' <=> <<s, k>> \in placed \/ k = leg[s]
          /\ IsBooked(<<s, k>>)' <=> IsBooked(<<s, k>>)
    BY <1>0, <2>1 DEF IsStaged, IsBooked
  <2>3. \A k \in 1 .. MaxLegs : kind[s] # "basket" => OneTransaction(s, k)'
    BY <2>1, <2>2 DEF BookOf, OneTransaction, Stages
  <2>4. \A k \in 1 .. Len(todo[s]) : IsBooked(<<s, k>>)' <=> IsBooked(<<s, k>>)
    BY <2>1 DEF IsBooked
  <2>5. IsStaged(CurId(s))'
    BY <1>0, <2>1, <2>2
  <2> QED
    BY <1>0, <2>1, <2>2, <2>3, <2>4, <2>5 DEF BookOf
<1>5. ASSUME NEW y \in Symbols, FlushRow(s, y) PROVE BookOf(s)'
  <2>1. UNCHANGED <<booked, staged, placed, out, kind, todo, leg, pc>>
    BY <1>5 DEF FlushRow
  <2> QED BY <1>0, <2>1 DEF BookOf, OneTransaction, IsBooked, IsStaged
<1>6. CASE ApplyFill(s) \/ InsertPosition(s)
  <2>1. /\ pc[s] \in {"apply", "insert"} /\ pc'[s] = "cache"
        /\ UNCHANGED <<booked, staged, placed, out, kind, todo, leg>>
    BY <1>6 DEF ApplyFill, InsertPosition, MoveInstance, Goto
  <2>2. \A k \in 1 .. MaxLegs : kind[s] # "basket" => OneTransaction(s, k)'
    BY <2>1 DEF BookOf, OneTransaction, IsBooked, IsStaged, Stages
  <2> QED
    BY <1>0, <2>1, <2>2 DEF BookOf, IsBooked, IsStaged, Sent
<1>7. CASE AuditFlushed(s)
  <2>1. /\ pc[s] = "audit"
        /\ \/ kind[s] = "atomic" /\ pc'[s] = "check" /\ leg'[s] = leg[s] + 1
           \/ /\ pc'[s] = "commit" /\ leg'[s] = leg[s]
              /\ kind[s] = "atomic" => leg[s] = Len(todo[s])
        /\ UNCHANGED <<booked, staged, placed, out, kind, todo>>
    BY <1>7 DEF AuditFlushed, Goto, dbVars, IsLast
  <2>2. IsStaged(<<s, leg[s]>>)
    BY <1>0, <2>1 DEF BookOf, Sent
  <2>3. \A k \in 1 .. MaxLegs : k < leg'[s] => k < leg[s] \/ k = leg[s]
    BY <1>0, <2>1
  <2>4. \A k \in 1 .. MaxLegs : kind[s] # "basket" => OneTransaction(s, k)'
    BY <2>1, <2>2, <2>3 DEF BookOf, OneTransaction, IsBooked, IsStaged, Stages
  <2>5. kind[s] # "basket" /\ pc'[s] = "commit" => leg[s] = Len(todo[s])
    <3>1. kind[s] \in {"place", "smart", "close"} => Len(todo[s]) = 1 /\ leg[s] <= 1
      BY <2>1 DEF LegInv
    <3>2. leg[s] <= 1 => leg[s] = 1
      BY <1>0
    <3> QED BY <2>1, <3>1, <3>2 DEF Kinds
  <2>6. pc'[s] \in Sent => IsStaged(CurId(s))'
    BY <1>0, <2>1, <2>2 DEF Sent, IsStaged
  <2> QED
    BY <1>0, <2>1, <2>4, <2>5, <2>6 DEF BookOf, IsBooked, IsStaged
<1>8. CASE Commit(s)
  <2>1. /\ pc[s] = "commit" /\ pc'[s] = "refresh"
        /\ UNCHANGED <<placed, out, kind, todo, leg>>
    BY <1>8 DEF Commit, Goto
  <2>2. \A k \in 1 .. MaxLegs :
          /\ IsBooked(<<s, k>>)' <=> IsBooked(<<s, k>>) \/ IsStaged(<<s, k>>)
          /\ ~IsStaged(<<s, k>>)'
    BY <1>0, <1>8 DEF Commit, Release, IsBooked, IsStaged
  <2>3. IsStaged(<<s, leg[s]>>)
    BY <1>0, <2>1 DEF BookOf, Sent
  <2>4. kind[s] # "basket" =>
          \A k \in 1 .. MaxLegs : k <= Len(todo[s]) => IsStaged(<<s, k>>)
    <3>1. kind[s] # "basket" => leg[s] = Len(todo[s])
      BY <2>1 DEF BookOf
    <3>2. kind[s] # "basket" => \A k \in 1 .. MaxLegs : k < leg[s] => IsStaged(<<s, k>>)
      BY <2>1 DEF BookOf, OneTransaction, Stages
    <3>3. \A k \in 1 .. MaxLegs : k <= leg[s] => k < leg[s] \/ k = leg[s]
      BY <1>0
    <3> QED BY <2>3, <3>1, <3>2, <3>3
  <2>5. \A k \in 1 .. MaxLegs : kind[s] # "basket" => OneTransaction(s, k)'
    BY <2>1, <2>2, <2>4 DEF BookOf, OneTransaction, Stages
  <2>6. \A k \in 1 .. Len(todo[s]) : k \in 1 .. MaxLegs /\ k <= Len(todo[s])
    BY <1>0, BoundsAssumption
  <2>7. kind[s] = "atomic" => \A k \in 1 .. Len(todo[s]) : IsBooked(<<s, k>>)'
    BY <2>2, <2>4, <2>6
  <2>8. IsBooked(CurId(s))'
    BY <1>0, <2>1, <2>2, <2>3
  <2> QED
    BY <1>0, <2>1, <2>2, <2>5, <2>7, <2>8 DEF BookOf, Sent
<1>9. CASE Refresh(s)
  <2>1. /\ pc[s] = "refresh" /\ UNCHANGED <<booked, staged, placed, kind, todo>>
        /\ out'[s] = IF kind[s] = "basket" THEN out[s] \union {leg[s]}
                                           ELSE 1 .. Len(todo[s])
        /\ \/ pc'[s] = "done" /\ leg'[s] = leg[s]
           \/ pc'[s] = "check" /\ leg[s] # Len(todo[s])
    BY <1>9 DEF Refresh, Goto, dbVars, IsLast
  <2>2. \A k \in 1 .. MaxLegs : IsBooked(<<s, k>>)' <=> IsBooked(<<s, k>>)
    BY <2>1 DEF IsBooked
  <2>3. pc'[s] = "check" => kind[s] = "basket"
    BY <2>1 DEF BookOf
  <2>4. \A k \in 1 .. MaxLegs : kind[s] # "basket" => OneTransaction(s, k)'
    BY <2>1, <2>2, <2>3 DEF BookOf, OneTransaction, Stages
  <2>5. \A k \in 1 .. MaxLegs : k \in out'[s] => IsBooked(<<s, k>>)
    <3>1. CASE kind[s] = "basket"
      BY <1>0, <2>1, <3>1 DEF BookOf
    <3>2. CASE kind[s] # "basket"
      BY <1>0, <2>1, <3>2 DEF BookOf, OneTransaction
    <3> QED BY <3>1, <3>2
  <2>6. \A k \in 1 .. Len(todo[s]) : k \in 1 .. MaxLegs
    BY <1>0, BoundsAssumption
  <2> QED
    BY <1>0, <2>1, <2>2, <2>4, <2>5, <2>6 DEF BookOf, Sent, IsStaged
<1>10. CASE FailStep(s)
  <2>1. PICK end \in Finals, why \in Reasons :
          /\ Rollback(s, end, why)
          /\ end = "done" => kind[s] = "basket" \/ (pc[s] = "target" /\ UNCHANGED placed)
    BY <1>10 DEF FailStep
  <2>2. /\ pc'[s] = end /\ UNCHANGED <<booked, out, kind, todo, leg>>
        /\ \A k \in 1 .. MaxLegs : ~IsStaged(<<s, k>>)'
    BY <1>0, <2>1 DEF Rollback, Release, IsStaged
  <2>3. \A k \in 1 .. MaxLegs : <<s, k>> \in placed => <<s, k>> \in placed'
    BY <1>10 DEF FailStep, PlacedGrows
  <2>4. \A k \in 1 .. MaxLegs : kind[s] # "basket" => OneTransaction(s, k)'
    BY <2>1, <2>2 DEF BookOf, OneTransaction, Stages, Finals
  <2> QED
    BY <1>0, <2>2, <2>3, <2>4 DEF BookOf, IsBooked, Sent, Finals
<1>11. CASE SkipStep(s)
  <2>1. /\ pc'[s] = "check" /\ kind[s] = "basket"
        /\ UNCHANGED <<booked, staged, out, kind, todo>>
        /\ \A k \in 1 .. MaxLegs : <<s, k>> \in placed => <<s, k>> \in placed'
    BY <1>11 DEF SkipStep, SkipLeg, PlacedGrows, dbVars
  <2> QED
    BY <1>0, <2>1 DEF BookOf, IsBooked, IsStaged, Sent
<1> QED
  BY <1>1, <1>2, <1>3, <1>4, <1>5, <1>6, <1>7, <1>8, <1>9, <1>10, <1>11 DEF Shape

\* There are no orders at first.
LEMMA BookInit == ASSUME Init PROVE BookInv
BY DEF Init, BookInv, BookOf, OneTransaction, IsBooked, IsStaged, CurId, OrderIds, Sent

\* Every step keeps it.
LEMMA BookNext ==
  ASSUME TypeInv, TypeInv', BookInv, [Next]_vars
  PROVE  BookInv'
<1>1. CASE UNCHANGED vars
  <2>1. \A t \in Sessions : SameFor(t)
    BY <1>1 DEF vars, dbVars, SameFor
  <2> QED BY <2>1, OthersBook DEF BookInv
<1>2. ASSUME NEW s \in Sessions, Shape(s), NEW t \in Sessions PROVE BookOf(t)'
  <2>1. BookOf(s) /\ BookOf(t)
    BY DEF BookInv
  <2>2. CASE t = s
    BY <1>2, <2>1, <2>2, OwnBook
  <2>3. CASE t # s
    <3>1. SameFor(t)
      BY <1>2, <2>3, OthersUntouched
    <3> QED BY <2>1, <3>1, OthersBook
  <2> QED BY <2>2, <2>3
<1> QED BY <1>1, <1>2, NextShape DEF BookInv

\* It holds in every reachable state.
LEMMA BookInvariant == Spec => [](TypeInv /\ BookInv)
<1>1. Init => TypeInv /\ BookInv
  BY TypeInit, BookInit
<1>2. (TypeInv /\ BookInv) /\ [Next]_vars => (TypeInv /\ BookInv)'
  <2> SUFFICES ASSUME TypeInv, BookInv, [Next]_vars PROVE TypeInv' /\ BookInv'
    OBVIOUS
  <2>1. TypeInv'
    BY TypeNext
  <2> QED BY <2>1, BookNext
<1> QED BY <1>1, <1>2, PTL DEF Spec

\* An atomic basket is committed whole or not at all, whatever fails, crashes
\* or is interleaved between its legs (basket_order with atomic=True).
THEOREM AtomicBasketsAreWhole == Spec => []AtomicAllOrNone
<1>1. TypeInv /\ BookInv => AtomicAllOrNone
  BY DEF BookInv, BookOf, AtomicAllOrNone
<1> QED BY <1>1, BookInvariant, PTL

\* Every order handed back to a caller is committed and is at the broker
\* (place_order and basket_order return after their commit).
THEOREM ReportedOrdersAreReal == Spec => []ReportedIsReal
<1>1. TypeInv /\ BookInv => ReportedIsReal
  <2> SUFFICES ASSUME TypeInv, BookInv, NEW s \in Sessions, NEW k \in out[s]
               PROVE  IsBooked(<<s, k>>) /\ <<s, k>> \in placed
    BY DEF ReportedIsReal
  <2>1. k \in 1 .. MaxLegs
    BY DEF TypeInv, TypeOK
  <2> QED BY <2>1 DEF BookInv, BookOf
<1> QED BY <1>1, BookInvariant, PTL

\* A request, not a non-atomic basket, that ends without an error has every
\* order it placed at the broker in the orders table.
THEOREM SuccessLeavesNoOrphan == Spec => []NoSilentOrphan
<1>1. TypeInv /\ BookInv => NoSilentOrphan
  BY DEF BookInv, BookOf, OneTransaction, NoSilentOrphan
<1> QED BY <1>1, BookInvariant, PTL

-----------------------------------------------------------------------------
(* Sums over finite sets of orders.  What MapThenSumSet returns is shown    *)
(* from a function on the subsets that grows by one order's quantity at a   *)
(* time; a least counterexample takes the place of an induction.            *)

\* g gives every subset of F the sum of the quantities q of its orders.
SumsOver(q, F, g) ==
  /\ g \in [SUBSET F -> Int]
  /\ g[{}] = 0
  /\ \A T \in SUBSET F : \A x \in F \ T : g[T \union {x}] = g[T] + q[x]

IsTotal(q, F, n) == \E g : SumsOver(q, F, g) /\ g[F] = n

\* n is the sum of some of the orders of C.
Explained(q, n, C) == \E F \in SUBSET C : IsFiniteSet(F) /\ IsTotal(q, F, n)

\* A non-empty set of natural numbers has a least element.
LEMMA LeastOf ==
  ASSUME NEW N \in SUBSET Nat, N # {}
  PROVE  \E n \in N : \A m \in N : n <= m
<1>1. PICK n \in N : \A m \in N : ~(<<m, n>> \in OpToRel(<, Nat))
  BY WFMin, NatLessThanWellFounded
<1>2. \A m \in N : ~(m < n)
  BY <1>1 DEF OpToRel
<1> QED BY <1>2

\* No order, no quantity.
LEMMA TotalEmpty ==
  ASSUME NEW q
  PROVE  IsTotal(q, {}, 0)
<1> DEFINE g == [T \in SUBSET {} |-> 0]
<1>1. SumsOver(q, {}, g) /\ g[{}] = 0
  BY DEF SumsOver
<1> QED BY <1>1 DEF IsTotal

\* One more order adds its quantity.
LEMMA TotalAdd ==
  ASSUME NEW q, NEW F, NEW n \in Int, IsTotal(q, F, n),
         NEW x, x \notin F, \A z \in F \union {x} : q[z] \in Int
  PROVE  IsTotal(q, F \union {x}, n + q[x])
<1>1. PICK g : SumsOver(q, F, g) /\ g[F] = n
  BY DEF IsTotal
<1> DEFINE G == F \union {x}
           h == [T \in SUBSET G |-> IF x \in T THEN g[T \ {x}] + q[x] ELSE g[T]]
<1>2. \A T \in SUBSET G : T \ {x} \in SUBSET F /\ (x \notin T => T \in SUBSET F)
  OBVIOUS
<1>3. h \in [SUBSET G -> Int] /\ h[{}] = 0
  BY <1>1, <1>2 DEF SumsOver
<1>4. ASSUME NEW T \in SUBSET G, NEW z \in G \ T
      PROVE  h[T \union {z}] = h[T] + q[z]
  <2>0. T \union {z} \in SUBSET G
    OBVIOUS
  <2>1. CASE z = x
    <3>1. (T \union {z}) \ {x} = T /\ x \in T \union {z}
      BY <2>1
    <3> QED BY <2>0, <2>1, <3>1
  <2>2. CASE z # x /\ x \notin T
    <3>1. T \in SUBSET F /\ z \in F \ T /\ x \notin T \union {z}
      BY <2>2
    <3> QED BY <1>1, <2>0, <2>2, <3>1 DEF SumsOver
  <2>3. CASE z # x /\ x \in T
    <3>1. /\ T \ {x} \in SUBSET F /\ z \in F \ (T \ {x})
          /\ (T \union {z}) \ {x} = (T \ {x}) \union {z} /\ x \in T \union {z}
      BY <2>3
    <3>2. g[(T \ {x}) \union {z}] = g[T \ {x}] + q[z] /\ g[T \ {x}] \in Int
      BY <1>1, <3>1 DEF SumsOver
    <3>3. q[z] \in Int /\ q[x] \in Int
      OBVIOUS
    <3>4. h[T \union {z}] = g[(T \ {x}) \union {z}] + q[x] /\ h[T] = g[T \ {x}] + q[x]
      BY <2>0, <2>3, <3>1
    <3> QED BY <3>2, <3>3, <3>4
  <2> QED BY <2>1, <2>2, <2>3
<1>5. h[G] = n + q[x]
  <2>1. G \ {x} = F /\ x \in G /\ G \in SUBSET G
    OBVIOUS
  <2> QED BY <1>1, <2>1
<1> HIDE DEF h
<1>6. SumsOver(q, G, h)
  BY <1>3, <1>4 DEF SumsOver
<1> QED BY <1>5, <1>6 DEF IsTotal

\* A sum depends on the quantities of its own orders only.
LEMMA ExplainedKept ==
  ASSUME NEW q, NEW r, NEW n, NEW C, NEW D, C \subseteq D,
         \A x \in C : r[x] = q[x], Explained(q, n, C)
  PROVE  Explained(r, n, D)
<1>1. PICK F \in SUBSET C : IsFiniteSet(F) /\ IsTotal(q, F, n)
  BY DEF Explained
<1>2. PICK g : SumsOver(q, F, g) /\ g[F] = n
  BY <1>1 DEF IsTotal
<1>3. SumsOver(r, F, g)
  BY <1>2 DEF SumsOver
<1> QED BY <1>1, <1>2, <1>3 DEF Explained, IsTotal

\* An order that was not counted yet may be counted.
LEMMA ExplainedMore ==
  ASSUME NEW q, NEW n \in Int, NEW C, NEW x, x \notin C,
         \A z \in C \union {x} : q[z] \in Int, Explained(q, n, C)
  PROVE  Explained(q, n + q[x], C \union {x})
<1>1. PICK F \in SUBSET C : IsFiniteSet(F) /\ IsTotal(q, F, n)
  BY DEF Explained
<1>2. IsTotal(q, F \union {x}, n + q[x])
  BY <1>1, TotalAdd
<1>3. IsFiniteSet(F \union {x})
  BY <1>1, FS_AddElement
<1> QED BY <1>1, <1>2, <1>3 DEF Explained

\* The sums of two disjoint sets add up.
LEMMA TotalUnion ==
  ASSUME NEW q, NEW A, NEW B, NEW m \in Int, NEW n \in Int,
         IsTotal(q, A, m), IsTotal(q, B, n), A \cap B = {},
         \A z \in A \union B : q[z] \in Int
  PROVE  IsTotal(q, A \union B, m + n)
<1>1. PICK f : SumsOver(q, A, f) /\ f[A] = m
  BY DEF IsTotal
<1>2. PICK g : SumsOver(q, B, g) /\ g[B] = n
  BY DEF IsTotal
<1> DEFINE U == A \union B
           h == [T \in SUBSET U |-> f[T \cap A] + g[T \cap B]]
<1>3. \A T \in SUBSET U : f[T \cap A] \in Int /\ g[T \cap B] \in Int
  BY <1>1, <1>2 DEF SumsOver
<1>4. h \in [SUBSET U -> Int] /\ h[{}] = 0
  <2>1. {} \cap A = {} /\ {} \cap B = {} /\ {} \in SUBSET U
    OBVIOUS
  <2> QED BY <1>1, <1>2, <1>3, <2>1 DEF SumsOver
<1>5. ASSUME NEW T \in SUBSET U, NEW z \in U \ T
      PROVE  h[T \union {z}] = h[T] + q[z]
  <2>0. T \union {z} \in SUBSET U /\ q[z] \in Int
    OBVIOUS
  <2>1. CASE z \in A
    <3>1. /\ (T \union {z}) \cap A = (T \cap A) \union {z}
          /\ (T \union {z}) \cap B = T \cap B
          /\ T \cap A \in SUBSET A /\ z \in A \ (T \cap A)
      BY <2>1
    <3>2. f[(T \cap A) \union {z}] = f[T \cap A] + q[z]
      BY <1>1, <3>1 DEF SumsOver
    <3>3. h[T \union {z}] = f[T \cap A] + q[z] + g[T \cap B]
      BY <2>0, <3>1, <3>2
    <3>4. h[T] = f[T \cap A] + g[T \cap B]
      OBVIOUS
    <3>5. f[T \cap A] \in Int /\ g[T \cap B] \in Int /\ q[z] \in Int
      BY <1>3, <2>0
    <3> HIDE DEF h
    <3> QED BY <3>3, <3>4, <3>5
  <2>2. CASE z \notin A
    <3>1. /\ (T \union {z}) \cap A = T \cap A
          /\ (T \union {z}) \cap B = (T \cap B) \union {z}
          /\ T \cap B \in SUBSET B /\ z \in B \ (T \cap B)
      BY <2>2
    <3>2. g[(T \cap B) \union {z}] = g[T \cap B] + q[z]
      BY <1>2, <3>1 DEF SumsOver
    <3>3. h[T \union {z}] = f[T \cap A] + (g[T \cap B] + q[z])
      BY <2>0, <3>1, <3>2
    <3>4. h[T] = f[T \cap A] + g[T \cap B]
      OBVIOUS
    <3>5. f[T \cap A] \in Int /\ g[T \cap B] \in Int /\ q[z] \in Int
      BY <1>3, <2>0
    <3> HIDE DEF h
    <3> QED BY <3>3, <3>4, <3>5
  <2> QED BY <2>1, <2>2
<1>6. h[U] = m + n
  <2>1. U \cap A = A /\ U \cap B = B /\ U \in SUBSET U
    OBVIOUS
  <2> QED BY <1>1, <1>2, <2>1
<1> HIDE DEF h
<1>7. SumsOver(q, U, h)
  BY <1>4, <1>5 DEF SumsOver
<1> QED BY <1>6, <1>7 DEF IsTotal

\* The quantity of each order.
Qty == [id \in OrderIds |-> QtyOf(id)]

\* MapThenSumSet computes the sum.
LEMMA SumIsTotal ==
  ASSUME NEW F \in SUBSET OrderIds, IsFiniteSet(F), \A id \in F : Qty[id] \in Int,
         NEW n, IsTotal(Qty, F, n)
  PROVE  MapThenSumSet(QtyOf, F) = n
<1> DEFINE Step(h, s) == IF s = {} THEN 0
                         ELSE LET x == CHOOSE x \in s : TRUE
                              IN  QtyOf(x) + h[s \ {x}]
           Computes(h) == h = [s \in SUBSET F |-> Step(h, s)]
           it == CHOOSE h : Computes(h)
<1>1. MapThenSumSet(QtyOf, F) = it[F]
  BY Zenon DEF MapThenSumSet, MapThenFoldSet
<1>2. PICK g : SumsOver(Qty, F, g) /\ g[F] = n
  BY DEF IsTotal
<1>3. \A id \in F : Qty[id] = QtyOf(id)
  BY DEF Qty
<1> HIDE DEF Step
<1>4. ASSUME NEW s \in SUBSET F PROVE g[s] = Step(g, s)
  <2>1. CASE s = {}
    BY <1>2, <2>1 DEF SumsOver, Step
  <2>2. CASE s # {}
    <3> DEFINE x == CHOOSE x \in s : TRUE
    <3>1. x \in s
      BY <2>2
    <3>2. Step(g, s) = QtyOf(x) + g[s \ {x}]
      BY <2>2 DEF Step
    <3> HIDE DEF x
    <3>3. (s \ {x}) \union {x} = s /\ s \ {x} \in SUBSET F /\ x \in F \ (s \ {x})
      BY <3>1
    <3>4. Qty[x] = QtyOf(x) /\ Qty[x] \in Int
      BY <1>3, <3>3
    <3>5. g[s] = g[s \ {x}] + Qty[x] /\ g[s \ {x}] \in Int
      BY <1>2, <3>3 DEF SumsOver
    <3> QED BY <3>2, <3>4, <3>5
  <2> QED BY <2>1, <2>2
<1>5. Computes(g)
  BY <1>2, <1>4 DEF SumsOver
<1>6. Computes(it)
  <2> HIDE DEF Computes
  <2> QED BY <1>5, Zenon
<1>7. \A s \in SUBSET F : it[s] = Step(it, s)
  <2> HIDE DEF it
  <2> QED BY <1>6
<1> HIDE DEF it, Computes
<1> DEFINE Bad == {m \in Nat : \E s \in SUBSET F : Cardinality(s) = m /\ it[s] # g[s]}
<1>8. Bad = {}
  <2> SUFFICES ASSUME Bad # {} PROVE FALSE
    OBVIOUS
  <2>1. PICK m \in Bad : \A l \in Bad : m <= l
    BY LeastOf
  <2>2. PICK s \in SUBSET F : Cardinality(s) = m /\ it[s] # g[s]
    BY <2>1
  <2>3. s # {}
    BY <1>4, <1>7, <2>2 DEF Step
  <2> DEFINE x == CHOOSE x \in s : TRUE
  <2>4. x \in s
    BY <2>3
  <2>5. it[s] = QtyOf(x) + it[s \ {x}] /\ g[s] = QtyOf(x) + g[s \ {x}]
    BY <1>4, <1>7, <2>3 DEF Step
  <2> HIDE DEF x
  <2>6. it[s \ {x}] # g[s \ {x}]
    BY <2>2, <2>5
  <2>7. IsFiniteSet(s)
    BY FS_Subset
  <2>8. Cardinality(s \ {x}) = m - 1 /\ Cardinality(s \ {x}) \in Nat
    BY <2>2, <2>4, <2>7, FS_RemoveElement, FS_CardinalityType
  <2>9. m - 1 \in Bad
    BY <2>6, <2>8
  <2> QED BY <2>1, <2>9
<1>9. Cardinality(F) \in Nat
  BY FS_CardinalityType
<1> QED BY <1>1, <1>2, <1>8, <1>9
-----------------------------------------------------------------------------
(* A position, and what a session holds of it, is the seed and some of the  *)
(* orders that count: the committed fills and the session's own fills.      *)

\* The fills a session has applied and not committed.
Moved(s, y) ==
  {id \in OrderIds : /\ id[1] = s /\ staged[id] = "filled"
                     /\ todo[s][id[2]].sym = y
                     /\ id[2] < leg[s] \/ pc[s] \in {"cache", "audit", "commit"}}

\* A leg is sent once, in its turn, and is booked or staged but not both.
SentOf(s) ==
  /\ \A k \in 1 .. MaxLegs :
       /\ <<s, k>> \in placed => k <= leg[s]
       /\ <<s, k>> \in placed /\ pc[s] \in {"check", "limits", "send"} => k < leg[s]
       /\ ~(IsStaged(<<s, k>>) /\ IsBooked(<<s, k>>))
  /\ pc[s] \in {"apply", "insert"} => staged[CurId(s)] = "filled"
  /\ pc[s] = "refresh" => \A k \in 1 .. MaxLegs : ~IsStaged(<<s, k>>)

CountInv ==
  /\ \A s \in Sessions : SentOf(s)
  /\ \A y \in Symbols : Explained(Qty, position[y] - Seed[y], FilledOf(y))
  /\ \A s \in Sessions, y \in Symbols : mem[s][y] # None =>
       Explained(Qty, mem[s][y] - Seed[y], FilledOf(y) \union Moved(s, y))

\* A session's own steps send each leg once.
LEMMA OwnSent ==
  ASSUME TypeInv, TypeInv', BookInv, NEW s \in Sessions, SentOf(s), Shape(s)
  PROVE  SentOf(s)'
<1> USE DEF TypeInv, TypeOK
<1>0. /\ \A k \in 1 .. MaxLegs : <<s, k>> \in OrderIds
      /\ CurId(s) = <<s, leg[s]>> /\ CurId(s)' = <<s, leg'[s]>>
      /\ leg[s] \in 1 .. MaxLegs /\ leg'[s] \in 1 .. MaxLegs
      /\ BookOf(s)
  BY DEF OrderIds, CurId, BookInv
<1>1. CASE Submit(s) \/ ComputeDelta(s)
  <2>1. /\ pc[s] \in {"idle", "target"} /\ pc'[s] \in {"target", "check"}
        /\ UNCHANGED <<booked, staged, placed>>
    BY <1>1 DEF Submit, ComputeDelta, Goto, dbVars
  <2>2. \A k \in 1 .. MaxLegs : <<s, k>> \notin placed
    BY <1>0, <2>1 DEF BookOf
  <2> QED BY <1>0, <2>1, <2>2 DEF SentOf, IsStaged, IsBooked
<1>2. CASE PassStep(s) \/ RecordOrder(s) \/ PositionMissing(s)
  <2>1. /\ UNCHANGED <<booked, staged, placed, leg>>
        /\ pc'[s] \in {"check", "limits", "send"} => pc[s] \in {"check", "limits", "send"}
        /\ pc'[s] \in {"apply", "insert"} => pc[s] = "apply" \/ staged[CurId(s)] = "filled"
        /\ pc'[s] # "refresh"
    BY <1>2 DEF PassStep, RecordOrder, PositionMissing, Advance, Goto, dbVars
  <2> QED BY <1>0, <2>1 DEF SentOf, IsStaged, IsBooked
<1>3. CASE BrokerAcks(s)
  <2>1. /\ pc[s] = "send" /\ pc'[s] = "record"
        /\ placed' = placed \union {CurId(s)}
        /\ \E ack \in {"filled", "pending"} : staged' = [staged EXCEPT ![CurId(s)] = ack]
        /\ UNCHANGED <<booked, leg>>
    BY <1>3 DEF BrokerAcks, Goto, dbVars
  <2>2. <<s, leg[s]>> \notin placed
    BY <1>0, <2>1 DEF SentOf
  <2>3. ~IsBooked(<<s, leg[s]>>)
    BY <1>0, <2>2 DEF BookOf
  <2>4. \A k \in 1 .. MaxLegs :
          /\ IsStaged(<<s, k>>)' <=> IsStaged(<<s, k>>) \/ k = leg[s]
          /\ <<s, k>> \in placed' <=> <<s, k>> \in placed \/ k = leg[s]
          /\ IsBooked(<<s, k>>)' <=> IsBooked(<<s, k>>)
    BY <1>0, <2>1 DEF IsStaged, IsBooked
  <2>5. \A k \in 1 .. MaxLegs : <<s, k>> \in placed' => k <= leg'[s]
    <3>1. \A k \in 1 .. MaxLegs : <<s, k>> \in placed => k <= leg[s]
      BY DEF SentOf
    <3> QED BY <1>0, <2>1, <2>4, <3>1
  <2>6. \A k \in 1 .. MaxLegs : ~(IsStaged(<<s, k>>)' /\ IsBooked(<<s, k>>)')
    <3>1. \A k \in 1 .. MaxLegs : ~(IsStaged(<<s, k>>) /\ IsBooked(<<s, k>>))
      BY DEF SentOf
    <3> QED BY <2>3, <2>4, <3>1
  <2> QED BY <2>1, <2>5, <2>6 DEF SentOf
<1>4. CASE (\E y \in Symbols : FlushRow(s, y)) \/ ApplyFill(s) \/ InsertPosition(s)
  <2>1. /\ UNCHANGED <<booked, staged, placed, leg>>
        /\ pc[s] \in {"record", "audit", "apply", "insert"}
        /\ pc'[s] \in {"record", "audit", "cache"}
    BY <1>4 DEF FlushRow, ApplyFill, InsertPosition, MoveInstance, Goto
  <2> QED BY <1>0, <2>1 DEF SentOf, IsStaged, IsBooked
<1>5. CASE AuditFlushed(s) \/ Refresh(s) \/ SkipStep(s)
  <2>1. /\ UNCHANGED <<booked, staged>>
        /\ \/ pc'[s] = "check" /\ leg'[s] = leg[s] + 1
           \/ pc'[s] \in {"commit", "done"} /\ leg'[s] = leg[s]
        /\ \A k \in 1 .. MaxLegs :
             <<s, k>> \in placed' => <<s, k>> \in placed \/ k = leg[s]
    BY <1>0, <1>5
    DEF AuditFlushed, Refresh, SkipStep, SkipLeg, PlacedGrows, Goto, dbVars
  <2>2. \A k \in 1 .. MaxLegs : ~(IsStaged(<<s, k>>)' /\ IsBooked(<<s, k>>)')
    BY <2>1 DEF SentOf, IsStaged, IsBooked
  <2>3. \A k \in 1 .. MaxLegs :
          /\ <<s, k>> \in placed' => k <= leg'[s]
          /\ <<s, k>> \in placed' /\ pc'[s] = "check" => k < leg'[s]
    <3>1. \A k \in 1 .. MaxLegs : <<s, k>> \in placed' => k <= leg[s]
      BY <1>0, <2>1 DEF SentOf
    <3>2. pc'[s] = "check" => leg'[s] = leg[s] + 1
      BY <2>1
    <3>3. leg'[s] = leg[s] \/ leg'[s] = leg[s] + 1
      BY <2>1
    <3> QED BY <1>0, <3>1, <3>2, <3>3
  <2> QED BY <2>1, <2>2, <2>3 DEF SentOf
<1>6. CASE Commit(s)
  <2>1. /\ UNCHANGED <<placed, leg>> /\ pc'[s] = "refresh"
        /\ \A k \in 1 .. MaxLegs : ~IsStaged(<<s, k>>)'
    BY <1>0, <1>6 DEF Commit, Release, Goto, IsStaged
  <2> QED BY <1>0, <2>1 DEF SentOf
<1>7. CASE FailStep(s)
  <2>1. PICK end \in Finals, why \in Reasons : Rollback(s, end, why)
    BY <1>7 DEF FailStep
  <2>2. /\ pc'[s] = end /\ UNCHANGED leg
        /\ \A k \in 1 .. MaxLegs : ~IsStaged(<<s, k>>)'
    BY <1>0, <2>1 DEF Rollback, Release, IsStaged
  <2>3. \A k \in 1 .. MaxLegs : <<s, k>> \in placed' => <<s, k>> \in placed \/ k = leg[s]
    BY <1>0, <1>7 DEF FailStep, PlacedGrows
  <2> QED BY <1>0, <2>2, <2>3 DEF SentOf, Finals
<1> QED BY <1>1, <1>2, <1>3, <1>4, <1>5, <1>6, <1>7 DEF Shape

\* So does every step, since it leaves the others' orders alone.
LEMMA SentNext ==
  ASSUME TypeInv, TypeInv', BookInv, \A t \in Sessions : SentOf(t),
         NEW s \in Sessions, Shape(s), NEW t \in Sessions
  PROVE  SentOf(t)'
<1>1. CASE t = s
  BY <1>1, OwnSent
<1>2. CASE t # s
  <2>1. SameFor(t) /\ SentOf(t)
    BY <1>2, OthersUntouched
  <2>2. /\ CurId(t) = <<t, leg[t]>> /\ leg[t] \in 1 .. MaxLegs
        /\ CurId(t)' = <<t, leg[t]>>
    BY <2>1 DEF TypeInv, TypeOK, CurId, SameFor
  <2> QED BY <2>1, <2>2 DEF SameFor, SentOf, IsStaged, IsBooked
<1> QED BY <1>1, <1>2

-----------------------------------------------------------------------------
\* What a placed order asks for is known, and never changes again.
LEMMA PlacedQty ==
  ASSUME TypeInv, BookInv, \A t \in Sessions : SentOf(t), NEW id \in placed
  PROVE  /\ id \in OrderIds /\ Qty[id] \in Int
         /\ id[1] \in Sessions /\ id[2] \in 1 .. MaxLegs /\ id = <<id[1], id[2]>>
<1>1. PICK s \in Sessions, k \in 1 .. MaxLegs : id = <<s, k>>
  BY DEF TypeInv, TypeOK, OrderIds
<1>2. pc[s] # "idle" /\ k <= leg[s] /\ leg[s] <= Len(todo[s])
  BY <1>1 DEF BookInv, BookOf, SentOf, TypeInv, LegInv
<1>3. leg[s] \in 1 .. MaxLegs /\ Len(todo[s]) \in 0 .. MaxLegs /\ todo[s] \in Seq(Legs)
  BY DEF TypeInv, TypeOK
<1>4. k \in 1 .. Len(todo[s])
  BY <1>2, <1>3, BoundsAssumption
<1>5. todo[s][k] \in Legs
  BY <1>3, <1>4
<1>6. id \in OrderIds /\ id[1] = s /\ id[2] = k
  BY <1>1 DEF OrderIds
<1>7. Qty[id] = todo[s][k].qty
  BY <1>6 DEF Qty, QtyOf
<1> QED BY <1>1, <1>5, <1>6, <1>7 DEF Legs

\* An order at the broker keeps its leg, and so its quantity.
LEMMA PlacedKept ==
  ASSUME TypeInv, TypeInv', BookInv, \A t \in Sessions : SentOf(t),
         NEW s \in Sessions, Shape(s), NEW id \in placed
  PROVE  /\ todo'[id[1]] = todo[id[1]]
         /\ Qty'[id] = Qty[id]
<1>1. /\ id \in OrderIds
      /\ id[1] \in Sessions /\ id[2] \in 1 .. MaxLegs /\ id = <<id[1], id[2]>>
  BY PlacedQty
<1>2. todo'[id[1]] = todo[id[1]]
  <2>1. CASE id[1] # s
    BY <1>1, <2>1, OthersUntouched DEF SameFor
  <2>2. CASE id[1] = s
    <3>1. pc[s] \notin {"idle", "target"}
      BY <1>1, <2>2 DEF BookInv, BookOf
    <3>2. ~Submit(s) /\ ~ComputeDelta(s)
      BY <3>1 DEF Submit, ComputeDelta
    <3> QED
      BY <2>2, <3>2
      DEF Shape, PassStep, BrokerAcks, RecordOrder, FlushRow, ApplyFill,
          PositionMissing, InsertPosition, MoveInstance, AuditFlushed, Commit,
          Refresh, FailStep, Rollback, SkipStep, SkipLeg, Advance
  <2> QED BY <2>1, <2>2
<1> QED BY <1>1, <1>2 DEF Qty, QtyOf

\* What counts has been placed.
LEMMA CountsArePlaced ==
  ASSUME TypeInv, BookInv, NEW s \in Sessions, NEW y \in Symbols
  PROVE  FilledOf(y) \subseteq placed /\ Moved(s, y) \subseteq placed
<1> SUFFICES ASSUME NEW id \in OrderIds, IsBooked(id) \/ IsStaged(id) PROVE id \in placed
  BY DEF FilledOf, Moved, IsBooked, IsStaged
<1>1. PICK t \in Sessions, k \in 1 .. MaxLegs : id = <<t, k>>
  BY DEF OrderIds
<1> QED BY <1>1 DEF BookInv, BookOf

\* A committed fill stays committed.
LEMMA FilledGrows ==
  ASSUME TypeInv, TypeInv', BookInv, \A t \in Sessions : SentOf(t),
         NEW s \in Sessions, Shape(s), NEW y \in Symbols
  PROVE  FilledOf(y) \subseteq FilledOf(y)'
<1> SUFFICES ASSUME NEW id \in FilledOf(y) PROVE id \in FilledOf(y)'
  OBVIOUS
<1>1. id \in placed /\ id \in OrderIds /\ booked[id] = "filled" /\ todo[id[1]][id[2]].sym = y
  BY CountsArePlaced DEF FilledOf
<1>2. /\ todo'[id[1]] = todo[id[1]] /\ id[1] \in Sessions
      /\ id[2] \in 1 .. MaxLegs /\ id = <<id[1], id[2]>>
  BY <1>1, PlacedKept, PlacedQty
<1>3. booked'[id] = booked[id]
  <2>1. CASE Commit(s)
    <3>1. staged[id] = "none"
      BY <1>1, <1>2 DEF SentOf, IsStaged, IsBooked
    <3> QED BY <1>1, <2>1, <3>1 DEF Commit
  <2>2. CASE ~Commit(s)
    BY <2>2
    DEF Shape, Submit, ComputeDelta, PassStep, BrokerAcks, RecordOrder, FlushRow,
        ApplyFill, PositionMissing, InsertPosition, MoveInstance, AuditFlushed,
        Refresh, FailStep, Rollback, SkipStep, SkipLeg, Advance, dbVars
  <2> QED BY <2>1, <2>2
<1> QED BY <1>1, <1>2, <1>3 DEF FilledOf

\* A session keeps what it has applied until its transaction ends.
LEMMA MovedKept ==
  ASSUME TypeInv, TypeInv', BookInv, \A t \in Sessions : SentOf(t),
         NEW s \in Sessions, Shape(s), NEW r \in Sessions, NEW y \in Symbols,
         r = s => ~Commit(s) /\ ~FailStep(s)
  PROVE  Moved(r, y) \subseteq Moved(r, y)'
<1> SUFFICES ASSUME NEW id \in Moved(r, y) PROVE id \in Moved(r, y)'
  OBVIOUS
<1>1. /\ id \in placed /\ id \in OrderIds /\ id[1] = r /\ staged[id] = "filled"
      /\ todo[r][id[2]].sym = y
      /\ id[2] < leg[r] \/ pc[r] \in {"cache", "audit", "commit"}
  BY CountsArePlaced DEF Moved
<1>2. todo'[r] = todo[r] /\ id[2] \in 1 .. MaxLegs /\ id = <<r, id[2]>>
  BY <1>1, PlacedKept, PlacedQty
<1>3. CASE r # s
  <2>1. SameFor(r)
    BY <1>3, OthersUntouched
  <2> QED BY <1>1, <1>2, <2>1 DEF SameFor, Moved
<1>4. CASE r = s
  <2>0. /\ leg[s] \in 1 .. MaxLegs /\ id[2] <= leg[s]
        /\ pc[s] \in {"check", "limits", "send"} => id[2] < leg[s]
        /\ pc[s] \notin {"idle", "target"}
    BY <1>1, <1>2, <1>4 DEF TypeInv, TypeOK, SentOf, BookInv, BookOf
  <2>1. staged'[id] = "filled"
    <3>1. CASE BrokerAcks(s)
      <4>1. PICK ack \in {"filled", "pending"} : staged' = [staged EXCEPT ![CurId(s)] = ack]
        BY <3>1 DEF BrokerAcks
      <4>2. id[2] # leg[s] /\ CurId(s)[2] = leg[s]
        BY <1>2, <2>0, <3>1 DEF BrokerAcks, CurId
      <4>3. id # CurId(s)
        BY <4>2
      <4> QED BY <1>1, <4>1, <4>3 DEF TypeInv, TypeOK
    <3>2. CASE ~BrokerAcks(s)
      BY <1>1, <1>4, <3>2
      DEF Shape, Submit, ComputeDelta, PassStep, RecordOrder, FlushRow, ApplyFill,
          PositionMissing, InsertPosition, MoveInstance, AuditFlushed, Refresh,
          SkipStep, SkipLeg, Advance
    <3> QED BY <3>1, <3>2
  <2>2. id[2] < leg'[s] \/ pc'[s] \in {"cache", "audit", "commit"}
    <3>1. CASE AuditFlushed(s) \/ Refresh(s) \/ SkipStep(s)
      <4>1. \/ leg'[s] = leg[s] + 1
            \/ leg'[s] = leg[s] /\ pc'[s] = "commit"
            \/ leg'[s] = leg[s] /\ pc[s] = "refresh"
        <5>1. CASE AuditFlushed(s)
          BY <5>1 DEF TypeInv, TypeOK, AuditFlushed, Goto
        <5>2. CASE Refresh(s)
          BY <5>2 DEF TypeInv, TypeOK, Refresh, Goto
        <5>3. CASE SkipStep(s)
          BY <5>3 DEF TypeInv, TypeOK, SkipStep, SkipLeg
        <5> QED BY <3>1, <5>1, <5>2, <5>3
      <4> QED BY <1>1, <1>2, <1>4, <2>0, <4>1
    <3>2. CASE ~(AuditFlushed(s) \/ Refresh(s) \/ SkipStep(s))
      <4>1. leg'[s] = leg[s]
        BY <1>4, <3>2
        DEF Shape, Submit, ComputeDelta, PassStep, BrokerAcks, RecordOrder, FlushRow,
            ApplyFill, PositionMissing, InsertPosition, MoveInstance, Advance
      <4>2. pc[s] \in {"cache", "audit", "commit"} =>
              pc'[s] \in {"cache", "audit", "commit"}
        BY <1>4, <3>2
        DEF Shape, Submit, ComputeDelta, PassStep, BrokerAcks, RecordOrder, FlushRow,
            ApplyFill, PositionMissing, InsertPosition, MoveInstance, Advance, Goto,
            TypeInv, TypeOK
      <4> QED BY <1>1, <1>4, <4>1, <4>2
    <3> QED BY <3>1, <3>2
  <2> QED BY <1>1, <1>2, <1>4, <2>1, <2>2 DEF Moved
<1> QED BY <1>3, <1>4

\* What is explained stays explained while nothing it counts goes away.
LEMMA ExplainedNext ==
  ASSUME TypeInv, TypeInv', BookInv, \A t \in Sessions : SentOf(t),
         NEW s \in Sessions, Shape(s),
         NEW n, NEW C, NEW D, C \subseteq placed, C \subseteq D, Explained(Qty, n, C)
  PROVE  Explained(Qty', n, D)
<1>1. \A id \in C : Qty'[id] = Qty[id]
  BY PlacedKept
<1> HIDE DEF Qty
<1> QED BY <1>1, ExplainedKept

\* The position is explained after any step but a commit.
LEMMA PositionNext ==
  ASSUME TypeInv, TypeInv', BookInv, CountInv, NEW s \in Sessions, Shape(s),
         NEW y \in Symbols, position'[y] = position[y]
  PROVE  Explained(Qty', position'[y] - Seed[y], FilledOf(y)')
<1>1. /\ FilledOf(y) \subseteq placed /\ FilledOf(y) \subseteq FilledOf(y)'
      /\ Explained(Qty, position[y] - Seed[y], FilledOf(y))
  BY CountsArePlaced, FilledGrows DEF CountInv
<1> QED BY <1>1, ExplainedNext DEF CountInv

\* So is an instance the step leaves alone.
LEMMA InstanceNext ==
  ASSUME TypeInv, TypeInv', BookInv, CountInv, NEW s \in Sessions, Shape(s),
         NEW r \in Sessions, NEW y \in Symbols, mem[r][y] # None,
         mem'[r][y] = mem[r][y], r = s => ~Commit(s) /\ ~FailStep(s)
  PROVE  Explained(Qty', mem'[r][y] - Seed[y], FilledOf(y)' \union Moved(r, y)')
<1>1. /\ FilledOf(y) \union Moved(r, y) \subseteq placed
      /\ FilledOf(y) \union Moved(r, y) \subseteq FilledOf(y)' \union Moved(r, y)'
      /\ Explained(Qty, mem[r][y] - Seed[y], FilledOf(y) \union Moved(r, y))
  BY CountsArePlaced, FilledGrows, MovedKept DEF CountInv
<1> QED BY <1>1, ExplainedNext DEF CountInv

\* apply_fill counts the leg the session is at.
LEMMA MoveCount ==
  ASSUME TypeInv, TypeInv', BookInv, CountInv, NEW s \in Sessions, Shape(s),
         pc[s] \in {"apply", "insert"}, NEW y \in Symbols, y = Cur(s).sym,
         NEW from \in Int, MoveInstance(s, y, from),
         IF mem[s][y] = None THEN from = position[y] ELSE from = mem[s][y]
  PROVE  CountInv'
<1> DEFINE C == FilledOf(y) \union Moved(s, y)
<1>1. /\ UNCHANGED <<position, placed, booked, staged, todo, leg>>
      /\ mem' = [mem EXCEPT ![s][y] = from + Cur(s).qty] /\ pc' = [pc EXCEPT ![s] = "cache"]
  BY DEF MoveInstance, Goto
<1>2. /\ Cur(s).qty \in Int /\ CurId(s) \in OrderIds /\ CurId(s) = <<s, leg[s]>>
      /\ leg[s] \in 1 .. MaxLegs /\ position[y] \in Int /\ Seed[y] \in Int
  BY CurType, SeedAssumption DEF CurId, TypeInv, TypeOK
<1>3. /\ staged[CurId(s)] = "filled" /\ CurId(s) \in placed /\ ~IsBooked(CurId(s))
      /\ Qty[CurId(s)] = Cur(s).qty /\ Cur(s).sym = todo[s][leg[s]].sym
  <2>1. staged[CurId(s)] = "filled"
    BY DEF CountInv, SentOf
  <2>2. IsStaged(CurId(s))
    BY <2>1 DEF IsStaged
  <2>3. CurId(s) \in placed /\ ~IsBooked(CurId(s))
    BY <1>2, <2>2 DEF BookInv, BookOf, CountInv, SentOf
  <2>4. Qty[CurId(s)] = Cur(s).qty /\ Cur(s).sym = todo[s][leg[s]].sym
    BY <1>2 DEF Qty, QtyOf, Cur
  <2> QED BY <2>1, <2>3, <2>4
<1>4. Explained(Qty, from - Seed[y], C)
  <2>1. CASE mem[s][y] = None
    <3>1. Explained(Qty, position[y] - Seed[y], FilledOf(y))
      BY DEF CountInv
    <3> HIDE DEF Qty
    <3> QED BY <2>1, <3>1, ExplainedKept
  <2>2. CASE mem[s][y] # None
    BY <2>2 DEF CountInv
  <2> QED BY <2>1, <2>2
<1>5. CurId(s) \notin C
  <2>1. CurId(s) \notin FilledOf(y)
    BY <1>3 DEF FilledOf, IsBooked
  <2>2. CurId(s)[2] = leg[s]
    BY <1>2
  <2>3. CurId(s) \notin Moved(s, y)
    BY <1>2, <2>2 DEF Moved
  <2> QED BY <2>1, <2>3
<1>6. C \union {CurId(s)} \subseteq placed
  BY <1>3, CountsArePlaced
<1>7. \A id \in C \union {CurId(s)} : Qty[id] \in Int
  BY <1>6, PlacedQty DEF CountInv
<1>8. Explained(Qty, from - Seed[y] + Cur(s).qty, C \union {CurId(s)})
  <2> HIDE DEF Qty, C
  <2>1. from - Seed[y] \in Int
    BY <1>2
  <2>2. Explained(Qty, (from - Seed[y]) + Qty[CurId(s)], C \union {CurId(s)})
    BY <1>4, <1>5, <1>7, <2>1, ExplainedMore
  <2> QED BY <1>3, <2>2
<1>9. C \union {CurId(s)} \subseteq FilledOf(y)' \union Moved(s, y)'
  <2>1. FilledOf(y) \subseteq FilledOf(y)'
    BY FilledGrows DEF CountInv
  <2>2. Moved(s, y) \subseteq Moved(s, y)'
    BY <1>1 DEF Moved, TypeInv, TypeOK
  <2>3. CurId(s)[1] = s /\ CurId(s)[2] = leg[s] /\ pc'[s] = "cache"
    BY <1>1, <1>2 DEF TypeInv, TypeOK
  <2>4. CurId(s) \in Moved(s, y)'
    BY <1>1, <1>2, <1>3, <2>3 DEF Moved
  <2> QED BY <2>1, <2>2, <2>4
<1>10. Explained(Qty', from - Seed[y] + Cur(s).qty, FilledOf(y)' \union Moved(s, y)')
  <2> HIDE DEF Qty, C
  <2> QED BY <1>6, <1>8, <1>9, ExplainedNext DEF CountInv
<1>11. mem'[s][y] = from + Cur(s).qty
  BY <1>1 DEF TypeInv, TypeOK
<1>12. mem'[s][y] - Seed[y] = from - Seed[y] + Cur(s).qty
  BY <1>2, <1>11
<1>13. \A t \in Sessions : SentOf(t)'
  BY SentNext DEF CountInv
<1>14. ASSUME NEW z \in Symbols PROVE Explained(Qty', position'[z] - Seed[z], FilledOf(z)')
  BY <1>1, PositionNext
<1>15. ASSUME NEW r \in Sessions, NEW z \in Symbols, mem'[r][z] # None
       PROVE  Explained(Qty', mem'[r][z] - Seed[z], FilledOf(z)' \union Moved(r, z)')
  <2>1. CASE r = s /\ z = y
    BY <1>10, <1>12, <2>1
  <2>2. CASE ~(r = s /\ z = y)
    <3>1. mem'[r][z] = mem[r][z]
      <4>1. CASE r # s
        BY <1>1, <4>1 DEF TypeInv, TypeOK
      <4>2. CASE r = s /\ z # y
        BY <1>1, <4>2 DEF TypeInv, TypeOK
      <4> QED BY <2>2, <4>1, <4>2
    <3>2. ~Commit(s) /\ ~FailStep(s)
      <4>1. ~Commit(s)
        BY DEF Commit
      <4>2. pc'[s] = "cache"
        BY <1>1 DEF TypeInv, TypeOK
      <4>3. ~FailStep(s)
        BY <4>2 DEF FailStep, Rollback, Finals, TypeInv, TypeOK
      <4> QED BY <4>1, <4>3
    <3> QED BY <1>15, <3>1, <3>2, InstanceNext
  <2> QED BY <2>1, <2>2
<1> QED BY <1>13, <1>14, <1>15 DEF CountInv

\* The empty set of orders explains the seed.
LEMMA CountInit == ASSUME Init PROVE CountInv
<1>1. \A s \in Sessions : SentOf(s)
  BY DEF Init, SentOf, IsStaged, IsBooked, OrderIds
<1>2. ASSUME NEW y \in Symbols PROVE Explained(Qty, position[y] - Seed[y], FilledOf(y))
  <2>1. position[y] - Seed[y] = 0
    BY SeedAssumption DEF Init
  <2>2. IsFiniteSet({}) /\ IsTotal(Qty, {}, 0)
    BY FS_EmptySet, TotalEmpty
  <2> QED BY <2>1, <2>2 DEF Explained
<1>3. \A s \in Sessions, y \in Symbols : mem[s][y] = None
  BY DEF Init
<1> QED BY <1>1, <1>2, <1>3 DEF CountInv

\* Every step keeps the explanations: a fill that is applied joins the orders that
\* count for its session, and a commit makes those of the table.
LEMMA CountNext ==
  ASSUME TypeInv, TypeInv', BookInv, DriftInv, CountInv, [Next]_vars
  PROVE  CountInv'
<1>1. CASE UNCHANGED vars
  <2>1. UNCHANGED <<position, booked, placed, pc, todo, leg, mem, staged>>
    BY <1>1 DEF vars, dbVars
  <2>2. Qty' = Qty
    BY <2>1 DEF Qty, QtyOf
  <2>3. \A y \in Symbols : FilledOf(y)' = FilledOf(y)
    BY <2>1 DEF FilledOf
  <2>4. \A s \in Sessions, y \in Symbols : Moved(s, y)' = Moved(s, y)
    BY <2>1 DEF Moved
  <2>5. \A s \in Sessions : SentOf(s)' <=> SentOf(s)
    BY <2>1 DEF SentOf, IsStaged, IsBooked, CurId
  <2> HIDE DEF Qty
  <2> QED BY <2>1, <2>2, <2>3, <2>4, <2>5 DEF CountInv
<1>2. ASSUME NEW s \in Sessions, Shape(s) PROVE CountInv'
  <2>0. \A t \in Sessions : SentOf(t)'
    BY <1>2, SentNext DEF CountInv
  <2>1. CASE ApplyFill(s)
    <3>1. Cur(s).sym \in Symbols /\ pc[s] = "apply"
      BY <2>1, CurType DEF ApplyFill
    <3>2. OrmRead(s, Cur(s).sym) \in Int
      BY <3>1 DEF OrmRead, TypeInv, TypeOK
    <3>3. /\ MoveInstance(s, Cur(s).sym, OrmRead(s, Cur(s).sym))
          /\ IF mem[s][Cur(s).sym] = None
             THEN OrmRead(s, Cur(s).sym) = position[Cur(s).sym]
             ELSE OrmRead(s, Cur(s).sym) = mem[s][Cur(s).sym]
      BY <2>1 DEF ApplyFill, OrmRead
    <3> QED BY <1>2, <3>1, <3>2, <3>3, MoveCount
  <2>2. CASE InsertPosition(s)
    <3>1. Cur(s).sym \in Symbols /\ pc[s] = "insert" /\ 0 \in Int
      BY <2>2, CurType DEF InsertPosition
    <3>2. /\ MoveInstance(s, Cur(s).sym, 0)
          /\ mem[s][Cur(s).sym] = None /\ position[Cur(s).sym] = 0
      BY <2>2, <3>1 DEF InsertPosition, DriftInv
    <3> QED BY <1>2, <3>1, <3>2, MoveCount
  <2>3. CASE ComputeDelta(s)
    <3>1. /\ Cur(s).sym \in Symbols /\ position' = position /\ pc[s] = "target"
          /\ mem' = [mem EXCEPT ![s][Cur(s).sym] =
                       IF Cur(s).sym \in rows THEN position[Cur(s).sym] ELSE None]
      BY <2>3, CurType DEF ComputeDelta, dbVars
    <3>2. \A z \in Symbols : Explained(Qty', position'[z] - Seed[z], FilledOf(z)')
      BY <1>2, <3>1, PositionNext
    <3>3. ASSUME NEW r \in Sessions, NEW z \in Symbols, mem'[r][z] # None
          PROVE  Explained(Qty', mem'[r][z] - Seed[z], FilledOf(z)' \union Moved(r, z)')
      <4>1. CASE r = s /\ z = Cur(s).sym
        <5>1. mem'[r][z] = position'[z]
          BY <3>1, <3>3, <4>1 DEF TypeInv, TypeOK
        <5>2. Explained(Qty', mem'[r][z] - Seed[z], FilledOf(z)')
          BY <3>2, <5>1
        <5> HIDE DEF Qty
        <5> QED BY <5>2, ExplainedKept
      <4>2. CASE ~(r = s /\ z = Cur(s).sym)
        <5>1. mem'[r][z] = mem[r][z]
          <6>1. CASE r # s
            BY <3>1, <6>1 DEF TypeInv, TypeOK
          <6>2. CASE r = s /\ z # Cur(s).sym
            BY <3>1, <6>2 DEF TypeInv, TypeOK
          <6> QED BY <4>2, <6>1, <6>2
        <5>2. ~Commit(s) /\ ~FailStep(s)
          <6>1. pc'[s] = "check"
            BY <2>3 DEF ComputeDelta, Goto, TypeInv, TypeOK
          <6> QED
            BY <3>1, <6>1 DEF Commit, FailStep, Rollback, Finals, TypeInv, TypeOK
        <5> QED BY <1>2, <3>3, <5>1, <5>2, InstanceNext
      <4> QED BY <4>1, <4>2
    <3> QED BY <2>0, <3>2, <3>3 DEF CountInv
  <2>4. CASE FailStep(s)
    <3>1. PICK end \in Finals, why \in Reasons : Rollback(s, end, why)
      BY <2>4 DEF FailStep
    <3>2. position' = position /\ mem' = [mem EXCEPT ![s] = [y \in Symbols |-> None]]
      BY <3>1 DEF Rollback, Release
    <3>3. \A z \in Symbols : Explained(Qty', position'[z] - Seed[z], FilledOf(z)')
      BY <1>2, <3>2, PositionNext
    <3>4. ASSUME NEW r \in Sessions, NEW z \in Symbols, mem'[r][z] # None
          PROVE  Explained(Qty', mem'[r][z] - Seed[z], FilledOf(z)' \union Moved(r, z)')
      <4>1. r # s /\ mem'[r][z] = mem[r][z]
        BY <3>2, <3>4 DEF TypeInv, TypeOK
      <4> QED BY <1>2, <3>4, <4>1, InstanceNext
    <3> QED BY <2>0, <3>3, <3>4 DEF CountInv
  <2>5. CASE Commit(s)
    <3>1. /\ position' = [y \in Symbols |-> IF lock[y] = s THEN mem[s][y] ELSE position[y]]
          /\ mem' = [mem EXCEPT ![s] = [y \in Symbols |-> None]]
          /\ booked' = [id \in OrderIds |->
                          IF id[1] = s /\ staged[id] # "none" THEN staged[id] ELSE booked[id]]
          /\ todo' = todo
      BY <2>5 DEF Commit, Release
    <3>2. ASSUME NEW z \in Symbols
          PROVE  Explained(Qty', position'[z] - Seed[z], FilledOf(z)')
      <4>1. CASE lock[z] = s
        <5>1. position'[z] = mem[s][z] /\ mem[s][z] # None
          BY <3>1, <4>1, NoneAssumption DEF TypeInv, LoadedInv
        <5>2. Moved(s, z) \subseteq FilledOf(z)'
          BY <3>1 DEF Moved, FilledOf
        <5>3. FilledOf(z) \subseteq FilledOf(z)'
          BY <1>2, FilledGrows DEF CountInv
        <5>4. /\ FilledOf(z) \union Moved(s, z) \subseteq placed
              /\ FilledOf(z) \union Moved(s, z) \subseteq FilledOf(z)'
          BY <5>2, <5>3, CountsArePlaced
        <5>5. Explained(Qty, position'[z] - Seed[z], FilledOf(z) \union Moved(s, z))
          BY <5>1 DEF CountInv
        <5> HIDE DEF Qty
        <5> QED BY <1>2, <5>4, <5>5, ExplainedNext DEF CountInv
      <4>2. CASE lock[z] # s
        <5>1. position'[z] = position[z]
          BY <3>1, <4>2
        <5> QED BY <1>2, <5>1, PositionNext
      <4> QED BY <4>1, <4>2
    <3>3. ASSUME NEW r \in Sessions, NEW z \in Symbols, mem'[r][z] # None
          PROVE  Explained(Qty', mem'[r][z] - Seed[z], FilledOf(z)' \union Moved(r, z)')
      <4>1. r # s /\ mem'[r][z] = mem[r][z]
        BY <3>1, <3>3 DEF TypeInv, TypeOK
      <4> QED BY <1>2, <3>3, <4>1, InstanceNext
    <3> QED BY <2>0, <3>2, <3>3 DEF CountInv
  <2>6. CASE ~(\/ ApplyFill(s) \/ InsertPosition(s) \/ ComputeDelta(s)
               \/ FailStep(s) \/ Commit(s))
    <3>1. position' = position /\ mem' = mem
      BY <1>2, <2>6
      DEF Shape, Submit, PassStep, BrokerAcks, RecordOrder, FlushRow,
          PositionMissing, AuditFlushed, Refresh, SkipStep, SkipLeg, Advance, dbVars
    <3>2. \A z \in Symbols : Explained(Qty', position'[z] - Seed[z], FilledOf(z)')
      BY <1>2, <3>1, PositionNext
    <3>3. \A r \in Sessions, z \in Symbols : mem'[r][z] # None =>
            Explained(Qty', mem'[r][z] - Seed[z], FilledOf(z)' \union Moved(r, z)')
      BY <1>2, <2>6, <3>1, InstanceNext
    <3> QED BY <2>0, <3>2, <3>3 DEF CountInv
  <2> QED BY <2>1, <2>2, <2>3, <2>4, <2>5, <2>6
<1> QED BY <1>1, <1>2, NextShape

\* Even when updates are lost, every position is explained by a subset of the
\* committed fills: nothing rolled back, refused or pending is ever counted,
\* and no fill twice (PositionTracker.apply_fill, place_order).
THEOREM PositionsAreExplained == Spec => []PositionExplained
<1> DEFINE Inv == TypeInv /\ DriftInv /\ BookInv /\ CountInv
<1>1. Init => Inv
  BY TypeInit, DriftInit, BookInit, CountInit
<1>2. Inv /\ [Next]_vars => Inv'
  <2> SUFFICES ASSUME Inv, [Next]_vars PROVE Inv'
    OBVIOUS
  <2>1. TypeInv'
    BY TypeNext
  <2>2. DriftInv' /\ BookInv'
    BY <2>1, DriftNext, BookNext
  <2> QED BY <2>1, <2>2, CountNext
<1>3. Inv => PositionExplained
  <2> SUFFICES ASSUME Inv, NEW y \in Symbols
               PROVE  \E F \in SUBSET FilledOf(y) :
                        position[y] = Seed[y] + MapThenSumSet(QtyOf, F)
    BY DEF PositionExplained
  <2>1. PICK F \in SUBSET FilledOf(y) :
          IsFiniteSet(F) /\ IsTotal(Qty, F, position[y] - Seed[y])
    BY DEF CountInv, Explained
  <2>2. F \subseteq OrderIds /\ \A id \in F : Qty[id] \in Int
    <3> SUFFICES ASSUME NEW id \in F PROVE id \in OrderIds /\ Qty[id] \in Int
      OBVIOUS
    <3>1. id \in OrderIds /\ \E s \in Sessions : TRUE
      BY DEF FilledOf, OrderIds
    <3>2. id \in placed
      BY <3>1, CountsArePlaced
    <3> QED BY <3>1, <3>2, PlacedQty DEF CountInv
  <2>3. MapThenSumSet(QtyOf, F) = position[y] - Seed[y]
    BY <2>1, <2>2, SumIsTotal
  <2>4. position[y] \in Int /\ Seed[y] \in Int
    BY SeedAssumption DEF TypeInv, TypeOK
  <2> QED BY <2>3, <2>4
<1> QED BY <1>1, <1>2, <1>3, PTL DEF Spec

-----------------------------------------------------------------------------
(* The history variables are what they are called: "ledger" sums the orders *)
(* booked as filled, "applied" the fills of an open transaction.            *)

Counts(F, n) == IsFiniteSet(F) /\ IsTotal(Qty, F, n)

LedgerInv ==
  /\ \A y \in Symbols : Counts(FilledOf(y), ledger[y])
  /\ \A s \in Sessions, y \in Symbols : Counts(Moved(s, y), applied[s][y])

\* What counts is counted the same after a step.
LEMMA CountsKept ==
  ASSUME TypeInv, TypeInv', BookInv, \A t \in Sessions : SentOf(t),
         NEW s \in Sessions, Shape(s), NEW n, NEW C, C \subseteq placed, Counts(C, n)
  PROVE  IsFiniteSet(C) /\ IsTotal(Qty', C, n)
<1>1. \A id \in C : Qty'[id] = Qty[id]
  BY PlacedKept
<1>2. PICK g : SumsOver(Qty, C, g) /\ g[C] = n
  BY DEF Counts, IsTotal
<1> HIDE DEF Qty
<1>3. SumsOver(Qty', C, g)
  BY <1>1, <1>2 DEF SumsOver
<1> QED BY <1>2, <1>3 DEF IsTotal, Counts

\* Only a commit books a fill.
LEMMA FilledSame ==
  ASSUME TypeInv, TypeInv', BookInv, \A t \in Sessions : SentOf(t),
         NEW s \in Sessions, Shape(s), ~Commit(s), NEW y \in Symbols
  PROVE  FilledOf(y)' = FilledOf(y)
<1>1. booked' = booked
  BY DEF Shape, Submit, ComputeDelta, PassStep, BrokerAcks, RecordOrder, FlushRow,
         ApplyFill, PositionMissing, InsertPosition, MoveInstance, AuditFlushed,
         Refresh, FailStep, Rollback, SkipStep, SkipLeg, Advance, dbVars
<1>2. ASSUME NEW id \in FilledOf(y)' PROVE id \in FilledOf(y)
  <2>1. id \in OrderIds /\ booked[id] = "filled" /\ todo'[id[1]][id[2]].sym = y
    BY <1>1, <1>2 DEF FilledOf
  <2>2. id \in placed
    <3>1. PICK t \in Sessions, k \in 1 .. MaxLegs : id = <<t, k>>
      BY <2>1 DEF OrderIds
    <3> QED BY <2>1, <3>1 DEF BookInv, BookOf, IsBooked
  <2>3. todo'[id[1]] = todo[id[1]]
    BY <2>2, PlacedKept
  <2> QED BY <2>1, <2>3 DEF FilledOf
<1> QED BY <1>2, FilledGrows

\* Only apply_fill adds to what a session has applied.
LEMMA MovedOnlyByApply ==
  ASSUME TypeInv, TypeInv', BookInv, \A t \in Sessions : SentOf(t),
         NEW s \in Sessions, Shape(s), NEW r \in Sessions, NEW y \in Symbols,
         NEW id \in Moved(r, y)', id \notin Moved(r, y)
  PROVE  /\ r = s /\ (ApplyFill(s) \/ InsertPosition(s))
         /\ y = Cur(s).sym /\ id = CurId(s)
<1>1. /\ id \in OrderIds /\ id[1] = r /\ staged'[id] = "filled"
      /\ todo'[r][id[2]].sym = y
      /\ id[2] < leg'[r] \/ pc'[r] \in {"cache", "audit", "commit"}
  BY DEF Moved
<1>2. id = <<r, id[2]>> /\ id[2] \in 1 .. MaxLegs
  BY <1>1 DEF OrderIds
<1>3. r = s
  <2> SUFFICES ASSUME r # s PROVE FALSE
    OBVIOUS
  <2>1. SameFor(r)
    BY OthersUntouched
  <2> QED BY <1>1, <1>2, <2>1 DEF SameFor, Moved
<1>4. ~Commit(s) /\ ~FailStep(s)
  <2>1. staged'[id] # "none"
    BY <1>1
  <2>2. CASE Commit(s)
    BY <1>1, <1>3, <2>1, <2>2 DEF Commit, Release
  <2>3. CASE FailStep(s)
    <3>1. PICK end \in Finals, why \in Reasons : Rollback(s, end, why)
      BY <2>3 DEF FailStep
    <3> QED BY <1>1, <1>3, <2>1, <3>1 DEF Rollback, Release
  <2> QED BY <2>2, <2>3
<1>5. /\ leg[s] \in 1 .. MaxLegs /\ leg'[s] \in 1 .. MaxLegs
      /\ id[2] \in Nat /\ CurId(s) = <<s, leg[s]>>
  BY <1>2 DEF TypeInv, TypeOK, CurId
<1>6. id # CurId(s) => id[2] # leg[s]
  BY <1>2, <1>3, <1>5
<1>7. CASE BrokerAcks(s)
  <2>1. /\ pc'[s] = "record" /\ leg'[s] = leg[s] /\ todo' = todo
        /\ \E ack \in {"filled", "pending"} : staged' = [staged EXCEPT ![CurId(s)] = ack]
    BY <1>7 DEF BrokerAcks, Goto, TypeInv, TypeOK
  <2>2. id[2] < leg[s]
    BY <1>1, <1>3, <2>1
  <2>3. id # CurId(s)
    <3>1. CurId(s)[2] = leg[s]
      BY <1>5
    <3> QED BY <1>5, <2>2, <3>1
  <2>4. staged[id] = "filled"
    BY <1>1, <2>1, <2>3 DEF TypeInv, TypeOK
  <2> QED BY <1>1, <1>3, <2>1, <2>2, <2>4 DEF Moved
<1>8. CASE ~BrokerAcks(s)
  <2>1. staged' = staged
    BY <1>4, <1>8
    DEF Shape, Submit, ComputeDelta, PassStep, RecordOrder, FlushRow, ApplyFill,
        PositionMissing, InsertPosition, MoveInstance, AuditFlushed, Refresh,
        SkipStep, SkipLeg, Advance
  <2>2. id \in placed
    BY <1>1, <1>2, <2>1 DEF BookInv, BookOf, IsStaged
  <2>3. todo'[r] = todo[r]
    BY <1>1, <2>2, PlacedKept
  <2>4. /\ id[2] <= leg[s]
        /\ pc[s] \in {"check", "limits", "send"} => id[2] < leg[s]
        /\ pc[s] # "refresh" /\ pc[s] \notin {"idle", "target"}
    BY <1>1, <1>2, <1>3, <2>1, <2>2 DEF SentOf, IsStaged, BookInv, BookOf
  <2>5. ~(id[2] < leg[s] \/ pc[s] \in {"cache", "audit", "commit"})
    BY <1>1, <1>3, <2>1, <2>3 DEF Moved
  <2>6. id[2] = leg[s] /\ pc[s] \notin {"check", "limits", "send", "cache", "audit", "commit"}
    <3>1. ~(id[2] < leg[s]) /\ pc[s] \notin {"cache", "audit", "commit"}
      BY <2>5
    <3>2. pc[s] \notin {"check", "limits", "send"}
      BY <2>4, <3>1
    <3>3. id[2] = leg[s]
      BY <1>5, <2>4, <3>1
    <3> QED BY <3>1, <3>2, <3>3
  <2>7. id = CurId(s) /\ pc[s] \in {"record", "apply", "insert"}
    <3>1. pc[s] \in Stages
      BY <1>4, <1>8
      DEF Shape, Submit, ComputeDelta, PassStep, RecordOrder, FlushRow, ApplyFill,
          PositionMissing, InsertPosition, AuditFlushed, Refresh, SkipStep, Stages
    <3> QED BY <1>6, <2>4, <2>6, <3>1 DEF Stages
  <2>8. ApplyFill(s) \/ InsertPosition(s)
    <3> SUFFICES ASSUME ~ApplyFill(s), ~InsertPosition(s) PROVE FALSE
      OBVIOUS
    <3>1. RecordOrder(s) \/ PositionMissing(s) \/ \E z \in Symbols : FlushRow(s, z)
      BY <1>4, <1>8, <2>7
      DEF Shape, Submit, ComputeDelta, PassStep, AuditFlushed, Refresh, SkipStep
    <3>2. /\ leg'[s] = leg[s]
          /\ pc'[s] \in {"cache", "audit", "commit"} => staged[CurId(s)] # "filled"
      BY <2>7, <3>1
      DEF RecordOrder, PositionMissing, FlushRow, Advance, Goto, TypeInv, TypeOK
    <3> QED BY <1>1, <1>3, <1>5, <2>1, <2>6, <2>7, <3>2
  <2>9. Cur(s).sym = y
    BY <1>1, <1>3, <2>3, <2>6 DEF Cur
  <2> QED BY <1>3, <2>7, <2>8, <2>9
<1> QED BY <1>7, <1>8

\* There are neither fills nor orders at first.
LEMMA LedgerInit == ASSUME Init PROVE LedgerInv
<1>1. Counts({}, 0)
  BY FS_EmptySet, TotalEmpty DEF Counts
<1>2. /\ \A y \in Symbols : FilledOf(y) = {} /\ ledger[y] = 0
      /\ \A s \in Sessions, y \in Symbols : Moved(s, y) = {} /\ applied[s][y] = 0
  BY DEF Init, FilledOf, Moved
<1> HIDE DEF Counts
<1> QED BY <1>1, <1>2 DEF LedgerInv

\* The fills an open transaction has applied, after a step.
LEMMA AppliedNext ==
  ASSUME TypeInv, TypeInv', BookInv, \A t \in Sessions : SentOf(t), LedgerInv,
         NEW s \in Sessions, Shape(s), NEW r \in Sessions, NEW y \in Symbols
  PROVE  Counts(Moved(r, y), applied[r][y])'
<1>1. Counts(Moved(r, y), applied[r][y]) /\ Moved(r, y) \subseteq placed
  BY CountsArePlaced DEF LedgerInv
<1>2. CASE r = s /\ (Commit(s) \/ FailStep(s))
  <2>1. /\ staged' = [id \in OrderIds |-> IF id[1] = s THEN "none" ELSE staged[id]]
        /\ applied' = [applied EXCEPT ![s] = [z \in Symbols |-> 0]]
    <3>1. CASE Commit(s)
      BY <3>1 DEF Commit, Release
    <3>2. CASE FailStep(s)
      <4>1. PICK end \in Finals, why \in Reasons : Rollback(s, end, why)
        BY <3>2 DEF FailStep
      <4> QED BY <4>1 DEF Rollback, Release
    <3> QED BY <1>2, <3>1, <3>2
  <2>2. Moved(r, y)' = {} /\ applied'[r][y] = 0
    BY <1>2, <2>1 DEF Moved, TypeInv, TypeOK
  <2>3. IsFiniteSet({}) /\ IsTotal(Qty', {}, 0)
    BY FS_EmptySet, TotalEmpty
  <2> QED BY <2>2, <2>3 DEF Counts
<1>3. CASE r = s /\ (ApplyFill(s) \/ InsertPosition(s)) /\ y = Cur(s).sym
  <2> DEFINE x == CurId(s)
  <2>1. /\ pc[s] \in {"apply", "insert"} /\ pc'[s] = "cache"
        /\ UNCHANGED <<staged, todo, leg>>
        /\ applied' = [applied EXCEPT ![s][y] = @ + Cur(s).qty]
    BY <1>3 DEF ApplyFill, InsertPosition, MoveInstance, Goto, TypeInv, TypeOK
  <2>2. /\ x \in OrderIds /\ x = <<s, leg[s]>> /\ x[1] = s /\ x[2] = leg[s]
        /\ leg[s] \in 1 .. MaxLegs /\ staged[x] = "filled"
    BY <2>1, CurType DEF CurId, TypeInv, TypeOK, SentOf
  <2>3. x \in placed
    BY <2>2 DEF BookInv, BookOf, IsStaged
  <2>4. x \notin Moved(r, y)
    BY <1>3, <2>1, <2>2 DEF Moved
  <2>5. x \in Moved(r, y)'
    BY <1>3, <2>1, <2>2 DEF Moved, Cur
  <2>6. Moved(r, y)' = Moved(r, y) \union {x}
    <3>1. Moved(r, y) \subseteq Moved(r, y)'
      <4>1. ~Commit(s)
        BY <2>1 DEF Commit
      <4>2. ~FailStep(s)
        BY <2>1 DEF FailStep, Rollback, Finals, TypeInv, TypeOK
      <4> QED BY <4>1, <4>2, MovedKept
    <3>2. Moved(r, y)' \subseteq Moved(r, y) \union {x}
      BY MovedOnlyByApply
    <3> QED BY <2>5, <3>1, <3>2
  <2>7. Qty[x] = Cur(s).qty /\ Qty'[x] = Qty[x]
    <3>1. Qty[x] = Cur(s).qty
      BY <2>2 DEF Qty, QtyOf, Cur
    <3> QED BY <2>3, <3>1, PlacedKept
  <2>8. /\ applied[r][y] \in Int /\ applied'[r][y] = applied[r][y] + Cur(s).qty
    BY <1>3, <2>1 DEF TypeInv, TypeOK
  <2>9. IsFiniteSet(Moved(r, y)) /\ IsTotal(Qty', Moved(r, y), applied[r][y])
    BY <1>1, CountsKept
  <2>10. \A z \in Moved(r, y) \union {x} : Qty'[z] \in Int
    <3>1. Moved(r, y) \union {x} \subseteq placed
      BY <1>1, <2>3
    <3>2. \A z \in placed : Qty'[z] = Qty[z] /\ Qty[z] \in Int
      BY PlacedKept, PlacedQty
    <3> QED BY <3>1, <3>2
  <2> HIDE DEF Qty, x
  <2>11. IsTotal(Qty', Moved(r, y) \union {x}, applied[r][y] + Qty'[x])
    BY <2>4, <2>8, <2>9, <2>10, TotalAdd
  <2>12. IsFiniteSet(Moved(r, y) \union {x})
    BY <2>9, FS_AddElement
  <2> QED BY <2>6, <2>7, <2>8, <2>11, <2>12 DEF Counts
<1>4. CASE ~(r = s /\ (Commit(s) \/ FailStep(s)))
           /\ ~(r = s /\ (ApplyFill(s) \/ InsertPosition(s)) /\ y = Cur(s).sym)
  <2>1. Moved(r, y)' = Moved(r, y)
    <3>1. Moved(r, y) \subseteq Moved(r, y)'
      BY <1>4, MovedKept
    <3>2. Moved(r, y)' \subseteq Moved(r, y)
      BY <1>4, MovedOnlyByApply
    <3> QED BY <3>1, <3>2
  <2>2. applied'[r][y] = applied[r][y]
    <3>1. CASE ApplyFill(s) \/ InsertPosition(s)
      <4>1. /\ applied' = [applied EXCEPT ![s][Cur(s).sym] = @ + Cur(s).qty]
            /\ Cur(s).sym \in Symbols
        BY <3>1, CurType DEF ApplyFill, InsertPosition, MoveInstance
      <4>2. CASE r # s
        BY <4>1, <4>2 DEF TypeInv, TypeOK
      <4>3. CASE r = s /\ y # Cur(s).sym
        BY <4>1, <4>3 DEF TypeInv, TypeOK
      <4> QED BY <1>4, <3>1, <4>2, <4>3
    <3>2. CASE Commit(s)
      BY <1>4, <3>2 DEF Commit, Release, TypeInv, TypeOK
    <3>3. CASE FailStep(s)
      <4>1. PICK end \in Finals, why \in Reasons : Rollback(s, end, why)
        BY <3>3 DEF FailStep
      <4> QED BY <1>4, <3>3, <4>1 DEF Rollback, Release, TypeInv, TypeOK
    <3>4. CASE ~(ApplyFill(s) \/ InsertPosition(s) \/ Commit(s) \/ FailStep(s))
      BY <3>4
      DEF Shape, Submit, ComputeDelta, PassStep, BrokerAcks, RecordOrder, FlushRow,
          PositionMissing, AuditFlushed, Refresh, SkipStep, SkipLeg, Advance, histVars
    <3> QED BY <3>1, <3>2, <3>3, <3>4
  <2>3. IsFiniteSet(Moved(r, y)) /\ IsTotal(Qty', Moved(r, y), applied[r][y])
    BY <1>1, CountsKept
  <2> QED BY <2>1, <2>2, <2>3 DEF Counts
<1> QED BY <1>2, <1>3, <1>4

\* Every step keeps the sums.
LEMMA LedgerNext ==
  ASSUME TypeInv, TypeInv', BookInv, \A t \in Sessions : SentOf(t), LedgerInv,
         [Next]_vars
  PROVE  LedgerInv'
<1>1. CASE UNCHANGED vars
  <2>1. UNCHANGED <<booked, pc, todo, leg, staged, ledger, applied>>
    BY <1>1 DEF vars, dbVars, histVars
  <2>2. Qty' = Qty
    BY <2>1 DEF Qty, QtyOf
  <2>3. \A y \in Symbols : FilledOf(y)' = FilledOf(y)
    BY <2>1 DEF FilledOf
  <2>4. \A s \in Sessions, y \in Symbols : Moved(s, y)' = Moved(s, y)
    BY <2>1 DEF Moved
  <2> HIDE DEF Qty
  <2> QED BY <2>1, <2>2, <2>3, <2>4 DEF LedgerInv, Counts
<1>2. ASSUME NEW s \in Sessions, Shape(s) PROVE LedgerInv'
  <2>1. ASSUME NEW r \in Sessions, NEW y \in Symbols PROVE Counts(Moved(r, y), applied[r][y])'
    BY <1>2, AppliedNext
  <2>2. ASSUME NEW y \in Symbols PROVE Counts(FilledOf(y), ledger[y])'
    <3>1. /\ FilledOf(y) \subseteq placed /\ Moved(s, y) \subseteq placed
          /\ Counts(FilledOf(y), ledger[y]) /\ Counts(Moved(s, y), applied[s][y])
      BY <1>2, CountsArePlaced DEF LedgerInv
    <3>2. /\ IsFiniteSet(FilledOf(y)) /\ IsTotal(Qty', FilledOf(y), ledger[y])
          /\ IsFiniteSet(Moved(s, y)) /\ IsTotal(Qty', Moved(s, y), applied[s][y])
      BY <1>2, <3>1, CountsKept
    <3>3. CASE ~Commit(s)
      <4>1. FilledOf(y)' = FilledOf(y)
        BY <1>2, <3>3, FilledSame
      <4>2. ledger' = ledger
        BY <1>2, <3>3
        DEF Shape, Submit, ComputeDelta, PassStep, BrokerAcks, RecordOrder, FlushRow,
            ApplyFill, PositionMissing, InsertPosition, MoveInstance, AuditFlushed,
            Refresh, FailStep, Rollback, SkipStep, SkipLeg, Advance, histVars
      <4> QED BY <3>2, <4>1, <4>2 DEF Counts
    <3>4. CASE Commit(s)
      <4>1. /\ pc[s] = "commit" /\ todo' = todo
            /\ booked' = [id \in OrderIds |->
                            IF id[1] = s /\ staged[id] # "none" THEN staged[id] ELSE booked[id]]
            /\ ledger' = [z \in Symbols |-> ledger[z] + applied[s][z]]
        BY <3>4 DEF Commit
      <4>2. FilledOf(y)' = FilledOf(y) \union Moved(s, y)
        <5>1. FilledOf(y) \subseteq FilledOf(y)'
          BY <1>2, FilledGrows
        <5>2. Moved(s, y) \subseteq FilledOf(y)'
          BY <4>1 DEF Moved, FilledOf
        <5>3. FilledOf(y)' \subseteq FilledOf(y) \union Moved(s, y)
          BY <4>1 DEF Moved, FilledOf
        <5> QED BY <5>1, <5>2, <5>3
      <4>3. FilledOf(y) \cap Moved(s, y) = {}
        <5> SUFFICES ASSUME NEW id \in OrderIds, booked[id] = "filled", staged[id] = "filled"
                     PROVE  FALSE
          BY DEF FilledOf, Moved
        <5>1. PICK t \in Sessions, k \in 1 .. MaxLegs : id = <<t, k>>
          BY DEF OrderIds
        <5> QED BY <5>1 DEF SentOf, IsStaged, IsBooked
      <4>4. \A z \in FilledOf(y) \union Moved(s, y) : Qty'[z] \in Int
        <5>1. \A z \in placed : Qty'[z] = Qty[z] /\ Qty[z] \in Int
          BY <1>2, PlacedKept, PlacedQty
        <5> QED BY <3>1, <5>1
      <4>5. ledger[y] \in Int /\ applied[s][y] \in Int
            /\ ledger'[y] = ledger[y] + applied[s][y]
        BY <4>1 DEF TypeInv, TypeOK
      <4> HIDE DEF Qty
      <4>6. IsTotal(Qty', FilledOf(y) \union Moved(s, y), ledger[y] + applied[s][y])
        BY <3>2, <4>3, <4>4, <4>5, TotalUnion
      <4>7. IsFiniteSet(FilledOf(y) \union Moved(s, y))
        BY <3>2, FS_Union
      <4> QED BY <4>2, <4>5, <4>6, <4>7 DEF Counts
    <3> QED BY <3>3, <3>4
  <2> QED BY <2>1, <2>2 DEF LedgerInv
<1> QED BY <1>1, <1>2, NextShape

LedgerSumsFills == \A y \in Symbols : ledger[y] = MapThenSumSet(QtyOf, FilledOf(y))

\* The ledger is the sum of the quantities of the orders booked as filled:
\* every fill that moved a position is in the orders table, and every order
\* booked as filled has moved it (_place_one stages the row and applies the
\* fill, place_order and basket_order commit both together).
THEOREM LedgerIsTheOrdersTable == Spec => []LedgerSumsFills
<1> DEFINE Inv == TypeInv /\ BookInv /\ (\A t \in Sessions : SentOf(t)) /\ LedgerInv
<1>1. Init => Inv
  BY TypeInit, BookInit, CountInit, LedgerInit DEF CountInv
<1>2. Inv /\ [Next]_vars => Inv'
  <2> SUFFICES ASSUME Inv, [Next]_vars PROVE Inv'
    OBVIOUS
  <2>1. TypeInv'
    BY TypeNext
  <2>2. BookInv' /\ LedgerInv'
    BY <2>1, BookNext, LedgerNext
  <2>3. ASSUME NEW t \in Sessions PROVE SentOf(t)'
    <3>1. CASE UNCHANGED vars
      <4>1. UNCHANGED <<booked, placed, pc, leg, staged>>
        BY <3>1 DEF vars, dbVars
      <4> QED BY <4>1 DEF SentOf, IsStaged, IsBooked, CurId
    <3>2. CASE Next
      BY <2>1, <3>2, NextShape, SentNext
    <3> QED BY <3>1, <3>2
  <2> QED BY <2>1, <2>2, <2>3
<1>3. Inv => LedgerSumsFills
  <2> SUFFICES ASSUME Inv, NEW y \in Symbols
               PROVE  ledger[y] = MapThenSumSet(QtyOf, FilledOf(y))
    BY DEF LedgerSumsFills
  <2>1. IsFiniteSet(FilledOf(y)) /\ IsTotal(Qty, FilledOf(y), ledger[y])
    BY DEF LedgerInv, Counts
  <2>2. FilledOf(y) \subseteq OrderIds /\ \A id \in FilledOf(y) : Qty[id] \in Int
    <3> SUFFICES ASSUME NEW id \in FilledOf(y) PROVE id \in OrderIds /\ Qty[id] \in Int
      OBVIOUS
    <3>1. id \in OrderIds /\ \E s \in Sessions : TRUE
      BY DEF FilledOf, OrderIds
    <3>2. id \in placed
      BY <3>1, CountsArePlaced
    <3> QED BY <3>1, <3>2, PlacedQty
  <2> QED BY <2>1, <2>2, SumIsTotal
<1> QED BY <1>1, <1>2, <1>3, PTL DEF Spec

-----------------------------------------------------------------------------
(* What would make every position exact: no two sessions that hold an       *)
(* instance of one row at the same time.                                    *)

Alone(y) == \A s, t \in Sessions : mem[s][y] # None /\ mem[t][y] # None => s = t

\* Nothing was overwritten, and what is loaded is the last version.
Fresh(y) ==
  /\ y \notin lost
  /\ \A s \in Sessions : mem[s][y] # None => seen[s][y] = ver[y]

\* While one session at a time holds a row, it holds its last version.
LEMMA FreshNext ==
  ASSUME TypeInv, NEW y \in Symbols, Fresh(y), Alone(y), [Next]_vars
  PROVE  Fresh(y)'
<1>1. CASE UNCHANGED vars
  BY <1>1 DEF vars, histVars, Fresh
<1>2. ASSUME NEW s \in Sessions, Shape(s) PROVE Fresh(y)'
  <2> USE DEF TypeInv, TypeOK
  <2>1. CASE ApplyFill(s) \/ InsertPosition(s)
    <3>1. Cur(s).sym \in Symbols
      BY <2>1, CurType DEF ApplyFill, InsertPosition
    <3>2. PICK from : MoveInstance(s, Cur(s).sym, from)
      BY <2>1 DEF ApplyFill, InsertPosition
    <3>3. ASSUME NEW t \in Sessions, mem'[t][y] # None PROVE seen'[t][y] = ver'[y]
      <4>1. CASE t = s /\ y = Cur(s).sym
        BY <3>1, <3>2, <4>1 DEF MoveInstance, Fresh
      <4>2. CASE t # s
        BY <3>1, <3>2, <3>3, <4>2 DEF MoveInstance, Fresh
      <4>3. CASE t = s /\ y # Cur(s).sym
        BY <3>1, <3>2, <3>3, <4>3 DEF MoveInstance, Fresh
      <4> QED BY <4>1, <4>2, <4>3
    <3> QED BY <3>2, <3>3 DEF MoveInstance, Fresh
  <2>2. CASE ComputeDelta(s)
    <3>1. Cur(s).sym \in Symbols
      BY <2>2, CurType DEF ComputeDelta
    <3>2. ASSUME NEW t \in Sessions, mem'[t][y] # None PROVE seen'[t][y] = ver'[y]
      <4>1. CASE t = s /\ y = Cur(s).sym
        BY <2>2, <3>1, <4>1 DEF ComputeDelta
      <4>2. CASE t # s
        BY <2>2, <3>1, <3>2, <4>2 DEF ComputeDelta, Fresh
      <4>3. CASE t = s /\ y # Cur(s).sym
        BY <2>2, <3>1, <3>2, <4>3 DEF ComputeDelta, Fresh
      <4> QED BY <4>1, <4>2, <4>3
    <3> QED BY <2>2, <3>2 DEF ComputeDelta, Fresh
  <2>3. CASE Commit(s)
    <3>1. /\ mem' = [mem EXCEPT ![s] = [z \in Symbols |-> None]]
          /\ ver' = [z \in Symbols |-> IF lock[z] = s THEN ver[z] + 1 ELSE ver[z]]
          /\ lost' = lost \union {z \in Written(s) : seen[s][z] # ver[z]}
          /\ seen' = seen
      BY <2>3 DEF Commit, Release
    <3>2. lock[y] = s => mem[s][y] # None
      BY NoneAssumption DEF LoadedInv
    <3>3. y \notin lost'
      BY <3>1, <3>2 DEF Fresh, Written
    <3>4. ASSUME NEW t \in Sessions, mem'[t][y] # None PROVE seen'[t][y] = ver'[y]
      <4>1. t # s /\ mem[t][y] # None
        BY <3>1, <3>4
      <4>2. lock[y] # s
        BY <3>2, <4>1 DEF Alone
      <4> QED BY <3>1, <4>1, <4>2 DEF Fresh
    <3> QED BY <3>3, <3>4 DEF Fresh
  <2>4. CASE FailStep(s)
    <3>1. PICK end \in Finals, why \in Reasons : Rollback(s, end, why)
      BY <2>4 DEF FailStep
    <3>2. /\ mem' = [mem EXCEPT ![s] = [z \in Symbols |-> None]]
          /\ UNCHANGED <<ver, seen, lost>>
      BY <3>1 DEF Rollback, Release
    <3> QED BY <3>2 DEF Fresh
  <2>5. CASE ~(\/ ApplyFill(s) \/ InsertPosition(s) \/ ComputeDelta(s)
               \/ Commit(s) \/ FailStep(s))
    <3>1. UNCHANGED <<mem, ver, seen, lost>>
      BY <1>2, <2>5
      DEF Shape, Submit, PassStep, BrokerAcks, RecordOrder, FlushRow,
          PositionMissing, AuditFlushed, Refresh, SkipStep, SkipLeg, Advance,
          histVars
    <3> QED BY <3>1 DEF Fresh
  <2> QED BY <2>1, <2>2, <2>3, <2>4, <2>5
<1> QED BY <1>1, <1>2, NextShape

\* If no two sessions ever hold an instance of a symbol's row at once, no
\* commit on it overwrites another: its position is the seed and ALL the
\* committed fills, not some of them (PositionTracker.apply_fill has no lock
\* and no version check that would make this so).
THEOREM SerializedRowsAreExact ==
  ASSUME NEW y \in Symbols
  PROVE  Spec /\ []Alone(y) =>
           [](position[y] = Seed[y] + MapThenSumSet(QtyOf, FilledOf(y)))
<1> DEFINE Inv == TypeInv /\ DriftInv /\ Fresh(y)
<1>1. Init => Inv
  <2>1. Init => Fresh(y)
    BY DEF Init, Fresh
  <2> QED BY <2>1, TypeInit, DriftInit
<1>2. Inv /\ Alone(y) /\ [Next]_vars => Inv'
  <2> SUFFICES ASSUME Inv, Alone(y), [Next]_vars PROVE Inv'
    OBVIOUS
  <2>1. TypeInv'
    BY TypeNext
  <2>2. DriftInv'
    BY <2>1, DriftNext
  <2> QED BY <2>1, <2>2, FreshNext
<1>3. Inv => position[y] = Seed[y] + ledger[y]
  BY DEF DriftInv, LedgerUnlessOverwritten, Fresh
<1> HIDE DEF Inv
<1>4. position[y] = Seed[y] + ledger[y] /\ LedgerSumsFills
        => position[y] = Seed[y] + MapThenSumSet(QtyOf, FilledOf(y))
  BY DEF LedgerSumsFills
<1> QED BY <1>1, <1>2, <1>3, <1>4, LedgerIsTheOrdersTable, PTL DEF Spec

-----------------------------------------------------------------------------
(* Requests end.  That they do is a matter of fairness and is left to TLC,  *)
(* but its two reasons are facts about states and steps: nobody is stuck    *)
(* unseen, and no request goes round for ever.                              *)

\* A request that has been sent and has not ended.
InProgress(s) == pc[s] \in Stages \ {"idle"}

\* What a request has to have for its next statement: a row to flush that nobody
\* else has locked, when it has rows to flush, and a free key to insert.
CanProceed(s) ==
  /\ InProgress(s)
  /\ pc[s] \in {"record", "audit"} =>
       dirty[s] = {} \/ \E y \in dirty[s] : lock[y] \in {None, s}
  /\ pc[s] = "insert" => Cur(s).sym \in rows \/ lock[Cur(s).sym] = None

\* Nothing is locked or waits to be written when a transaction has ended, and an
\* insertion found no instance.
Held(s) ==
  /\ IsFiniteSet(dirty[s])
  /\ pc[s] \in Finals \union {"refresh"} =>
       dirty[s] = {} /\ \A y \in Symbols : lock[y] # s
  /\ pc[s] = "insert" => mem[s][Cur(s).sym] = None

HeldInv == \A s \in Sessions : Held(s)

\* It holds before the first request.
LEMMA HeldInit == Init => HeldInv
BY FS_EmptySet DEF Init, HeldInv, Held, Finals

\* A step that leaves a session's place, leg and instances alone, and takes no lock
\* for it, keeps its part.
LEMMA HeldKept ==
  ASSUME NEW t \in Sessions, Held(t),
         pc'[t] = pc[t], todo'[t] = todo[t], leg'[t] = leg[t], mem'[t] = mem[t],
         dirty'[t] = dirty[t], \A y \in Symbols : lock'[y] = t => lock[y] = t
  PROVE  Held(t)'
BY DEF Held, Cur

\* Every step keeps it: a transaction that ends releases what it has locked.
LEMMA HeldNext ==
  ASSUME TypeInv, HeldInv, [Next]_vars
  PROVE  HeldInv'
<1>1. CASE UNCHANGED vars
  BY <1>1, HeldKept DEF vars, dbVars, HeldInv
<1>2. ASSUME NEW s \in Sessions, Shape(s) PROVE HeldInv'
  <2> USE DEF TypeInv, TypeOK
  <2>0. None \notin Sessions
    BY NoneAssumption
  <2>1. CASE ApplyFill(s) \/ InsertPosition(s)
    <3>1. Cur(s).sym \in Symbols
      BY <2>1, CurType DEF ApplyFill, InsertPosition
    <3>2. PICK from : MoveInstance(s, Cur(s).sym, from)
      BY <2>1 DEF ApplyFill, InsertPosition
    <3>3. /\ dirty' = [dirty EXCEPT ![s] = @ \union {Cur(s).sym}]
          /\ pc' = [pc EXCEPT ![s] = "cache"] /\ UNCHANGED <<todo, leg>>
          /\ mem' = [mem EXCEPT ![s][Cur(s).sym] = from + Cur(s).qty]
          /\ lock' = lock \/ lock' = [lock EXCEPT ![Cur(s).sym] = s]
      BY <2>1, <3>2 DEF ApplyFill, InsertPosition, MoveInstance, Goto
    <3>4. Held(s)'
      <4>1. IsFiniteSet(dirty[s]) /\ dirty'[s] = dirty[s] \union {Cur(s).sym}
        BY <3>3 DEF HeldInv, Held
      <4>2. IsFiniteSet(dirty'[s])
        BY <3>3, <4>1, FS_AddElement DEF HeldInv
      <4>3. pc'[s] = "cache"
        BY <3>3
      <4> QED BY <4>2, <4>3 DEF Held, Finals
    <3>5. \A t \in Sessions \ {s} : Held(t)'
      BY <3>3, HeldKept DEF HeldInv
    <3> QED BY <3>4, <3>5 DEF HeldInv
  <2>2. ASSUME NEW z \in Symbols, FlushRow(s, z) PROVE HeldInv'
    <3>1. /\ dirty' = [dirty EXCEPT ![s] = @ \ {z}] /\ lock' = [lock EXCEPT ![z] = s]
          /\ UNCHANGED <<pc, todo, leg, mem>> /\ pc[s] \in {"record", "audit"}
      BY <2>2 DEF FlushRow
    <3>2. Held(s)'
      BY <3>1, FS_RemoveElement DEF HeldInv, Held, Finals
    <3>3. \A t \in Sessions \ {s} : Held(t)'
      BY <3>1, HeldKept DEF HeldInv
    <3> QED BY <3>2, <3>3 DEF HeldInv
  <2>3. CASE Commit(s) \/ FailStep(s)
    <3>1. /\ Release(s) /\ UNCHANGED <<todo, leg>>
          /\ \E place \in Finals \union {"refresh"} : pc' = [pc EXCEPT ![s] = place]
      BY <2>3 DEF Commit, FailStep, Rollback, Goto
    <3>2. Held(s)'
      BY <2>0, <3>1, FS_EmptySet DEF Release, Held, Finals
    <3>3. \A t \in Sessions \ {s} : Held(t)'
      BY <2>0, <3>1, HeldKept DEF HeldInv, Release
    <3> QED BY <3>2, <3>3 DEF HeldInv
  <2>4. CASE ComputeDelta(s) \/ Submit(s)
    <3>1. /\ UNCHANGED <<dirty, lock, leg>> /\ pc'[s] \in {"target", "check"}
          /\ \A t \in Sessions \ {s} :
               pc'[t] = pc[t] /\ todo'[t] = todo[t] /\ mem'[t] = mem[t]
      BY <2>4 DEF ComputeDelta, Submit, Goto, dbVars
    <3>2. Held(s)'
      BY <3>1 DEF HeldInv, Held, Finals
    <3>3. \A t \in Sessions \ {s} : Held(t)'
      BY <3>1, HeldKept DEF HeldInv
    <3> QED BY <3>2, <3>3 DEF HeldInv
  <2>5. CASE PositionMissing(s)
    <3>1. /\ UNCHANGED <<dirty, lock, leg, todo, mem>> /\ pc' = [pc EXCEPT ![s] = "insert"]
          /\ mem[s][Cur(s).sym] = None
      BY <2>5 DEF PositionMissing, Advance, Goto, dbVars
    <3>2. Held(s)'
      BY <3>1 DEF HeldInv, Held, Cur, Finals
    <3>3. \A t \in Sessions \ {s} : Held(t)'
      BY <3>1, HeldKept DEF HeldInv
    <3> QED BY <3>2, <3>3 DEF HeldInv
  <2>6. CASE Refresh(s)
    <3>1. /\ UNCHANGED <<dirty, lock, todo, mem>> /\ pc[s] = "refresh"
          /\ pc'[s] \in {"done", "check"}
          /\ \A t \in Sessions \ {s} : pc'[t] = pc[t] /\ leg'[t] = leg[t]
      BY <2>6 DEF Refresh, Goto, dbVars
    <3>2. Held(s)'
      BY <3>1 DEF HeldInv, Held
    <3>3. \A t \in Sessions \ {s} : Held(t)'
      BY <3>1, HeldKept DEF HeldInv
    <3> QED BY <3>2, <3>3 DEF HeldInv
  <2>7. CASE PassStep(s) \/ BrokerAcks(s) \/ RecordOrder(s) \/ AuditFlushed(s) \/ SkipStep(s)
    <3>1. /\ UNCHANGED <<dirty, lock, todo, mem>>
          /\ pc'[s] \in {"check", "limits", "send", "record", "apply", "audit", "commit"}
          /\ \A t \in Sessions \ {s} : pc'[t] = pc[t] /\ leg'[t] = leg[t]
      BY <2>7 DEF PassStep, BrokerAcks, RecordOrder, AuditFlushed, SkipStep, SkipLeg,
                  Advance, Goto, dbVars
    <3>2. Held(s)'
      BY <3>1 DEF HeldInv, Held, Finals
    <3>3. \A t \in Sessions \ {s} : Held(t)'
      BY <3>1, HeldKept DEF HeldInv
    <3> QED BY <3>2, <3>3 DEF HeldInv
  <2> QED BY <1>2, <2>1, <2>2, <2>3, <2>4, <2>5, <2>6, <2>7 DEF Shape
<1> QED BY <1>1, <1>2, NextShape

\* It holds in every reachable state.
LEMMA HeldInvariant == Spec => [](TypeInv /\ HeldInv)
<1>1. Init => TypeInv /\ HeldInv
  BY TypeInit, HeldInit
<1>2. (TypeInv /\ HeldInv) /\ [Next]_vars => (TypeInv /\ HeldInv)'
  BY TypeNext, HeldNext
<1> QED BY <1>1, <1>2, PTL DEF Spec

-----------------------------------------------------------------------------
\* Who cannot go on waits for a request in progress.
LEMMA BlockedWaits ==
  ASSUME TypeInv, HeldInv, NEW s \in Sessions, InProgress(s), ~CanProceed(s)
  PROVE  \E t \in Sessions : WaitsFor(s, t) /\ InProgress(t)
<1>1. ASSUME NEW y \in Symbols, lock[y] # None
      PROVE  lock[y] \in Sessions /\ InProgress(lock[y])
  <2>1. lock[y] \in Sessions
    BY <1>1 DEF TypeInv, TypeOK
  <2>2. pc[lock[y]] \notin Finals
    BY <2>1 DEF HeldInv, Held
  <2>3. mem[lock[y]][y] # None
    BY <2>1, NoneAssumption DEF TypeInv, LoadedInv
  <2>4. pc[lock[y]] # "idle"
    BY <2>1, <2>3 DEF TypeInv, LoadedInv
  <2> QED BY <2>1, <2>2, <2>4 DEF InProgress, TypeInv, TypeOK
<1>2. CASE pc[s] \in {"record", "audit"}
  <2>1. dirty[s] # {} /\ \A y \in dirty[s] : lock[y] \notin {None, s}
    BY <1>2 DEF CanProceed
  <2>2. PICK y \in dirty[s] : TRUE
    BY <2>1
  <2>3. y \in Symbols
    BY DEF TypeInv, TypeOK
  <2>4. WaitsFor(s, lock[y])
    BY <1>2, <2>1 DEF WaitsFor
  <2> QED BY <1>1, <2>1, <2>3, <2>4
<1>3. CASE pc[s] = "insert"
  <2> DEFINE y == Cur(s).sym
  <2>1. y \in Symbols
    BY <1>3, CurType
  <2>2. y \notin rows /\ lock[y] # None
    BY <1>3 DEF CanProceed
  <2>3. lock[y] # s
    BY <1>3, <2>1, NoneAssumption DEF HeldInv, Held, TypeInv, LoadedInv
  <2>4. WaitsFor(s, lock[y])
    BY <1>3, <2>2, <2>3 DEF WaitsFor
  <2> QED BY <1>1, <2>1, <2>2, <2>4
<1> QED BY <1>2, <1>3 DEF CanProceed

\* Each waits for another of them.
Waiting(D) == \A a \in D : \E b \in D : WaitsFor(a, b)

\* A set that the detector finds: a cycle, or several.
Deadlocked(D) == D # {} /\ Waiting(D) /\ \A b \in D : \E a \in D : WaitsFor(a, b)

\* A smallest set whose members all wait within it is a deadlock.
LEMMA WaitingIsDeadlock ==
  ASSUME NEW S \in SUBSET Sessions, IsFiniteSet(S), S # {}, Waiting(S)
  PROVE  \E D \in SUBSET Sessions : Deadlocked(D)
<1> DEFINE Closed == {T \in SUBSET S : T # {} /\ Waiting(T)}
           Sizes == {Cardinality(T) : T \in Closed}
<1>1. \A T \in Closed : IsFiniteSet(T) /\ Cardinality(T) \in Nat
  BY FS_Subset, FS_CardinalityType
<1>2. Sizes \in SUBSET Nat /\ Sizes # {}
  BY <1>1
<1>3. PICK n \in Sizes : \A m \in Sizes : n <= m
  BY <1>2, LeastOf
<1>4. PICK D \in Closed : Cardinality(D) = n
  OBVIOUS
<1>5. ASSUME NEW b \in D, \A a \in D : ~WaitsFor(a, b)
      PROVE  FALSE
  <2>1. PICK c \in D : WaitsFor(b, c)
    BY <1>4 DEF Waiting
  <2>2. c # b
    BY <2>1 DEF WaitsFor
  <2>3. Waiting(D \ {b})
    BY <1>4, <1>5 DEF Waiting
  <2>4. D \ {b} \in Closed
    BY <1>4, <2>1, <2>2, <2>3
  <2>5. Cardinality(D \ {b}) = n - 1
    BY <1>1, <1>4, FS_RemoveElement
  <2>6. n - 1 \in Sizes
    BY <2>4, <2>5
  <2>7. n <= n - 1 /\ n \in Nat
    BY <1>2, <1>3, <2>6
  <2> QED BY <2>7
<1>6. D \in SUBSET Sessions /\ Deadlocked(D)
  BY <1>4, <1>5 DEF Deadlocked
<1> QED BY <1>6

\* Whenever a request is in progress, one of them can execute its next statement, or
\* PostgreSQL finds a cycle among those that wait: nobody is stuck behind a lock that
\* a finished request has left, or behind its own.
THEOREM NobodyIsStuckUnseen ==
  ASSUME IsFiniteSet(Sessions)
  PROVE  Spec => []((\E s \in Sessions : InProgress(s)) =>
                      \/ \E s \in Sessions : CanProceed(s)
                      \/ \E D \in SUBSET Sessions : Deadlocked(D))
<1>1. TypeInv /\ HeldInv =>
        ((\E s \in Sessions : InProgress(s)) =>
           \/ \E s \in Sessions : CanProceed(s)
           \/ \E D \in SUBSET Sessions : Deadlocked(D))
  <2> SUFFICES ASSUME TypeInv, HeldInv, \E s \in Sessions : InProgress(s),
                      ~\E s \in Sessions : CanProceed(s)
               PROVE  \E D \in SUBSET Sessions : Deadlocked(D)
    OBVIOUS
  <2> DEFINE B == {s \in Sessions : InProgress(s)}
  <2>1. Waiting(B)
    BY BlockedWaits DEF Waiting
  <2>2. IsFiniteSet(B)
    BY FS_Subset
  <2> HIDE DEF B
  <2>3. B \in SUBSET Sessions /\ B # {}
    BY DEF B
  <2> QED BY <2>1, <2>2, <2>3, WaitingIsDeadlock
<1> QED BY <1>1, HeldInvariant, PTL

-----------------------------------------------------------------------------
\* How many steps a request has left at most: the places of its leg, the rows it has
\* to flush, and eleven places for each further leg.  An instance that moves costs
\* one more step, its flush.
Place ==
  [idle |-> 13, target |-> 12, check |-> 11, limits |-> 10, send |-> 9, record |-> 8,
   apply |-> 7, insert |-> 6, cache |-> 4, audit |-> 3, commit |-> 2, refresh |-> 1,
   done |-> 0, failed |-> 0, crashed |-> 0]

StepsLeft(s) == 11 * (MaxLegs - leg[s]) + Place[pc[s]] + Cardinality(dirty[s])

\* The values of Place.
LEMMA Places ==
  /\ Place["idle"] = 13 /\ Place["target"] = 12 /\ Place["check"] = 11
  /\ Place["limits"] = 10 /\ Place["send"] = 9 /\ Place["record"] = 8
  /\ Place["apply"] = 7 /\ Place["insert"] = 6 /\ Place["cache"] = 4
  /\ Place["audit"] = 3 /\ Place["commit"] = 2 /\ Place["refresh"] = 1
  /\ \A stage \in Stages : Place[stage] \in 1 .. 13
  /\ \A end \in Finals : Place[end] = 0
BY DEF Place, Stages, Finals

\* Places are natural numbers, and the rows to flush are finitely many.
LEMMA StepsLeftType ==
  ASSUME TypeInv, HeldInv, NEW s \in Sessions
  PROVE  /\ Place[pc[s]] \in 0 .. 13 /\ Cardinality(dirty[s]) \in Nat
         /\ leg[s] \in 1 .. MaxLegs /\ MaxLegs - leg[s] \in Nat
         /\ StepsLeft(s) \in Nat
<1>1. pc[s] \in Stages \union Finals /\ leg[s] \in 1 .. MaxLegs
  BY DEF TypeInv, TypeOK
<1>2. Place[pc[s]] \in 0 .. 13
  BY <1>1, Places
<1>3. Cardinality(dirty[s]) \in Nat
  BY FS_CardinalityType DEF HeldInv, Held
<1>4. MaxLegs - leg[s] \in Nat
  BY <1>1, BoundsAssumption
<1> QED BY <1>1, <1>2, <1>3, <1>4 DEF StepsLeft

\* And so they are after the step.
LEMMA StepsLeftAfter ==
  ASSUME TypeInv', HeldInv', NEW s \in Sessions
  PROVE  /\ Place[pc'[s]] \in 0 .. 13 /\ Cardinality(dirty'[s]) \in Nat
         /\ leg'[s] \in 1 .. MaxLegs
         /\ StepsLeft(s)' = 11 * (MaxLegs - leg'[s]) + Place[pc'[s]] + Cardinality(dirty'[s])
         /\ StepsLeft(s)' \in Nat
<1>1. pc'[s] \in Stages \union Finals /\ leg'[s] \in 1 .. MaxLegs
  BY DEF TypeInv, TypeOK
<1>2. Place[pc'[s]] \in 0 .. 13
  BY <1>1, Places
<1>3. IsFiniteSet(dirty'[s])
  BY DEF HeldInv, Held
<1>4. Cardinality(dirty'[s]) \in Nat
  BY <1>3, FS_CardinalityType
<1>5. StepsLeft(s)' = 11 * (MaxLegs - leg'[s]) + Place[pc'[s]] + Cardinality(dirty'[s])
  BY DEF StepsLeft
<1> QED BY <1>1, <1>2, <1>4, <1>5, BoundsAssumption

\* What the steps of a request do to its place, its leg and the rows it has to flush.
Steps(s) ==
  \/ pc'[s] = pc[s] /\ leg'[s] = leg[s] /\ \E y \in dirty[s] : dirty'[s] = dirty[s] \ {y}
  \/ /\ leg'[s] = leg[s] /\ dirty'[s] \in {dirty[s], {}}
     /\ Place[pc'[s]] < Place[pc[s]]
  \/ /\ leg'[s] = leg[s] /\ pc[s] \in {"apply", "insert"} /\ pc'[s] = "cache"
     /\ \E y : dirty'[s] = dirty[s] \union {y}
  \/ /\ leg'[s] = leg[s] + 1 /\ dirty'[s] = dirty[s] /\ pc[s] \in Stages \ {"idle"}
     /\ pc'[s] = "check"

\* Each of them leaves fewer.
LEMMA StepsCount ==
  ASSUME TypeInv, HeldInv, TypeInv', HeldInv', NEW s \in Sessions, Steps(s)
  PROVE  StepsLeft(s)' < StepsLeft(s)
<1>1. /\ Place[pc[s]] \in 0 .. 13 /\ Cardinality(dirty[s]) \in Nat
      /\ leg[s] \in Int /\ MaxLegs \in Int
  BY StepsLeftType, BoundsAssumption
<1>2. /\ Place[pc'[s]] \in 0 .. 13 /\ Cardinality(dirty'[s]) \in Nat
      /\ leg'[s] \in Int
      /\ StepsLeft(s)' = 11 * (MaxLegs - leg'[s]) + Place[pc'[s]] + Cardinality(dirty'[s])
  BY StepsLeftAfter
<1>3. CASE pc'[s] = pc[s] /\ leg'[s] = leg[s] /\ \E y \in dirty[s] : dirty'[s] = dirty[s] \ {y}
  <2>1. PICK y \in dirty[s] : dirty'[s] = dirty[s] \ {y}
    BY <1>3
  <2>2. IsFiniteSet(dirty[s])
    BY DEF HeldInv, Held
  <2>3. Cardinality(dirty'[s]) = Cardinality(dirty[s]) - 1
    BY <2>1, <2>2, FS_RemoveElement
  <2>4. Place[pc'[s]] = Place[pc[s]]
    BY <1>3
  <2> QED BY <1>1, <1>2, <1>3, <2>3, <2>4 DEF StepsLeft
<1>4. CASE /\ leg'[s] = leg[s] /\ dirty'[s] \in {dirty[s], {}}
           /\ Place[pc'[s]] < Place[pc[s]]
  <2>1. Cardinality(dirty'[s]) <= Cardinality(dirty[s])
    BY <1>1, <1>4, FS_EmptySet
  <2> QED BY <1>1, <1>2, <1>4, <2>1 DEF StepsLeft
<1>5. CASE /\ leg'[s] = leg[s] /\ pc[s] \in {"apply", "insert"} /\ pc'[s] = "cache"
           /\ \E y : dirty'[s] = dirty[s] \union {y}
  <2>1. PICK y : dirty'[s] = dirty[s] \union {y}
    BY <1>5
  <2>2. IsFiniteSet(dirty[s])
    BY DEF HeldInv, Held
  <2>3. Cardinality(dirty'[s]) <= Cardinality(dirty[s]) + 1
    BY <1>1, <2>1, <2>2, FS_AddElement
  <2>4. Place[pc'[s]] = 4 /\ Place[pc[s]] \in {6, 7}
    BY <1>5, Places
  <2> QED BY <1>1, <1>2, <1>5, <2>3, <2>4 DEF StepsLeft
<1>6. CASE /\ leg'[s] = leg[s] + 1 /\ dirty'[s] = dirty[s] /\ pc[s] \in Stages \ {"idle"}
           /\ pc'[s] = "check"
  <2>1. Place[pc'[s]] = 11 /\ Place[pc[s]] >= 1
    BY <1>6, Places
  <2>2. Cardinality(dirty'[s]) = Cardinality(dirty[s])
    BY <1>6
  <2> QED BY <1>1, <1>2, <1>6, <2>1, <2>2 DEF StepsLeft
<1> QED BY <1>3, <1>4, <1>5, <1>6 DEF Steps

\* Every step of a request is one of these.
LEMMA ShapeSteps ==
  ASSUME TypeInv, NEW s \in Sessions, Shape(s)
  PROVE  /\ Steps(s)
         /\ \A t \in Sessions \ {s} :
              pc'[t] = pc[t] /\ leg'[t] = leg[t] /\ dirty'[t] = dirty[t]
<1> USE DEF TypeInv, TypeOK
<1>1. CASE Submit(s)
  BY <1>1, Places DEF Submit, Goto, Steps
<1>2. CASE ComputeDelta(s)
  BY <1>2, Places DEF ComputeDelta, Goto, Steps
<1>3. CASE PassStep(s) \/ RecordOrder(s) \/ PositionMissing(s)
  BY <1>3, Places DEF PassStep, RecordOrder, PositionMissing, Advance, Goto, Steps
<1>4. CASE BrokerAcks(s)
  BY <1>4, Places DEF BrokerAcks, Goto, Steps
<1>5. ASSUME NEW y \in Symbols, FlushRow(s, y)
      PROVE  /\ Steps(s)
             /\ \A t \in Sessions \ {s} :
                  pc'[t] = pc[t] /\ leg'[t] = leg[t] /\ dirty'[t] = dirty[t]
  BY <1>5 DEF FlushRow, Steps
<1>6. CASE ApplyFill(s) \/ InsertPosition(s)
  <2>1. PICK y, from : MoveInstance(s, y, from)
    BY <1>6 DEF ApplyFill, InsertPosition
  <2>2. /\ dirty' = [dirty EXCEPT ![s] = @ \union {y}] /\ leg' = leg
        /\ pc' = [pc EXCEPT ![s] = "cache"] /\ pc[s] \in {"apply", "insert"}
    BY <1>6, <2>1 DEF ApplyFill, InsertPosition, MoveInstance, Goto
  <2> QED BY <2>2 DEF Steps
<1>7. CASE AuditFlushed(s)
  BY <1>7, Places DEF AuditFlushed, Goto, Steps, Stages
<1>8. CASE Commit(s)
  BY <1>8, Places DEF Commit, Release, Goto, Steps
<1>9. CASE Refresh(s)
  BY <1>9, Places DEF Refresh, Goto, Steps, Stages, Finals
<1>10. CASE FailStep(s)
  <2>1. PICK end \in Finals, why \in Reasons : Rollback(s, end, why)
    BY <1>10 DEF FailStep
  <2>2. Place[pc[s]] \in 1 .. 13
    BY <1>10, Places DEF FailStep
  <2>3. Place[end] < Place[pc[s]]
    BY <2>2, Places
  <2>4. /\ dirty' = [dirty EXCEPT ![s] = {}] /\ pc' = [pc EXCEPT ![s] = end] /\ leg' = leg
    BY <2>1 DEF Rollback, Release
  <2> QED BY <2>3, <2>4 DEF Steps
<1>11. CASE SkipStep(s)
  BY <1>11 DEF SkipStep, SkipLeg, Steps, Stages
<1> QED
  BY <1>1, <1>2, <1>3, <1>4, <1>5, <1>6, <1>7, <1>8, <1>9, <1>10, <1>11 DEF Shape

\* No request goes round for ever: it has a number of steps left that every step of its
\* own lowers, whether it goes on, is rolled back, is the victim of a deadlock or tries
\* the next leg of its basket, and that nobody else changes.
THEOREM EveryStepCountsDown ==
  Spec => /\ [](\A s \in Sessions : StepsLeft(s) \in 0 .. 11 * MaxLegs + 2)
          /\ [][\E s \in Sessions :
                  /\ StepsLeft(s)' < StepsLeft(s)
                  /\ \A t \in Sessions \ {s} : StepsLeft(t)' = StepsLeft(t)]_vars
<1> DEFINE Bounded == \A s \in Sessions : StepsLeft(s) \in 0 .. 11 * MaxLegs + 2
           CountsDown == \E s \in Sessions :
                       /\ StepsLeft(s)' < StepsLeft(s)
                       /\ \A t \in Sessions \ {s} : StepsLeft(t)' = StepsLeft(t)
<1>1. Init => Bounded
  <2> SUFFICES ASSUME Init, NEW s \in Sessions PROVE StepsLeft(s) \in 0 .. 11 * MaxLegs + 2
    OBVIOUS
  <2>1. leg[s] = 1 /\ pc[s] = "idle" /\ Cardinality(dirty[s]) = 0 /\ Place[pc[s]] = 13
    BY FS_EmptySet, Places DEF Init
  <2>2. StepsLeft(s) = 11 * (MaxLegs - 1) + 13 + 0
    BY <2>1 DEF StepsLeft
  <2> QED BY <2>2, BoundsAssumption
<1>2. TypeInv /\ HeldInv /\ TypeInv' /\ HeldInv' /\ [Next]_vars => [CountsDown]_vars
  <2> SUFFICES ASSUME TypeInv, HeldInv, TypeInv', HeldInv', Next PROVE CountsDown
    OBVIOUS
  <2>1. PICK s \in Sessions : Shape(s)
    BY NextShape
  <2>2. /\ Steps(s)
        /\ \A t \in Sessions \ {s} :
             pc'[t] = pc[t] /\ leg'[t] = leg[t] /\ dirty'[t] = dirty[t]
    BY <2>1, ShapeSteps
  <2>3. \A t \in Sessions \ {s} : StepsLeft(t)' = StepsLeft(t)
    BY <2>2 DEF StepsLeft
  <2> QED BY <2>2, <2>3, StepsCount
<1>3. TypeInv /\ HeldInv /\ TypeInv' /\ HeldInv' /\ Bounded /\ [CountsDown]_vars => Bounded'
  <2> SUFFICES ASSUME TypeInv, HeldInv, TypeInv', HeldInv', Bounded, [CountsDown]_vars,
                      NEW t \in Sessions
               PROVE  StepsLeft(t)' \in 0 .. 11 * MaxLegs + 2
    OBVIOUS
  <2>1. StepsLeft(t)' \in Nat
    BY StepsLeftAfter
  <2>2. CASE UNCHANGED vars
    BY <2>2 DEF vars, StepsLeft
  <2>3. CASE CountsDown
    BY <2>1, <2>3, BoundsAssumption
  <2> QED BY <2>2, <2>3
<1> HIDE DEF Bounded, CountsDown
<1> QED BY <1>1, <1>2, <1>3, HeldInvariant, PTL DEF Spec, Bounded, CountsDown

=============================================================================
