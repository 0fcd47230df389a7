---------------------------- MODULE StrategyProofs ----------------------------
(***************************************************************************)
(* For any number of strategies, symbols and overlapping requests: the     *)
(* types, and that a strategy that is stopped stops within the sweep that  *)
(* is running.  What a pair that nothing asks for may still signal covers  *)
(* the visits of it that the sweep has ahead: a visit takes one off both.  *)
(***************************************************************************)
EXTENDS StrategyDispatch, FiniteSetTheorems, TLAPS

Covered ==
    \A p \in Pairs : IF p \in Asked(strategy) THEN allowed[p] = 0
                     ELSE Cardinality(Due(p)) <= allowed[p]

IInv == TypeOK /\ Covered

-----------------------------------------------------------------------------
\* The lists a sweep has read are lists of symbols.
LEMMA ReadTypes ==
    ASSUME TypeOK, NEW s \in Strategies
    PROVE  sweep.read[s] \in Seq(Symbols) /\ Len(sweep.read[s]) \in Nat
<1>1. sweep.read[s] \in SymbolLists \union {<<>>}
  BY DEF TypeOK
<1>2. sweep.read[s] \in Seq(Symbols)
  <2>1. CASE sweep.read[s] = <<>>
    BY <2>1
  <2>2. CASE sweep.read[s] \in SymbolLists
    BY <2>2, DispatchAssumption
  <2> QED BY <1>1, <2>1, <2>2
<1> QED BY <1>2

\* The visits ahead can be counted.
LEMMA DueFinite ==
    ASSUME TypeOK, NEW p \in Pairs
    PROVE  IsFiniteSet(Due(p)) /\ Cardinality(Due(p)) \in Nat
<1>1. p[1] \in Strategies
  BY DEF Pairs
<1>2. sweep.next[p[1]] \in Int /\ Len(sweep.read[p[1]]) \in Int
  BY <1>1, ReadTypes DEF TypeOK
<1>3. IsFiniteSet(Left(p[1]))
  BY <1>2, FS_Interval DEF Left
<1>4. IsFiniteSet(Due(p))
  BY <1>3, FS_Subset DEF Due
<1> QED BY <1>4, FS_CardinalityType

\* What may still be signalled is never less than nothing.
LEMMA AllowedNat == IInv => \A p \in Pairs : allowed[p] \in Nat
<1> SUFFICES ASSUME IInv, NEW p \in Pairs PROVE allowed[p] \in Nat
  OBVIOUS
<1>1. Cardinality(Due(p)) \in Nat /\ allowed[p] \in Int
  BY DueFinite DEF IInv, TypeOK
<1> QED BY <1>1 DEF IInv, Covered

\* The columns a request has changed are columns an endpoint writes.
LEMMA ChangedWrites ==
    ASSUME NEW old \in Row, NEW new \in Edits(old), new # old, ~old.is_deleted
    PROVE  Changed(old, new) \in Writes
<1>1. CASE \E b \in BOOLEAN : new = [old EXCEPT !.is_enabled = b]
  <2>1. /\ {c \in DOMAIN old : old[c] # new[c]} = {"is_enabled"}
        /\ new["is_enabled"] \in BOOLEAN
    BY <1>1 DEF Row
  <2>2. Changed(old, new) = [is_enabled |-> new["is_enabled"]]
    BY <2>1 DEF Changed
  <2>3. Changed(old, new) \in [is_enabled : BOOLEAN]
    BY <2>1, <2>2
  <2> QED BY <2>3 DEF Writes
<1>2. CASE \E xs \in SymbolLists : new = [old EXCEPT !.symbols = xs]
  <2>1. /\ {c \in DOMAIN old : old[c] # new[c]} = {"symbols"}
        /\ new["symbols"] \in SymbolLists
    BY <1>2 DEF Row
  <2>2. Changed(old, new) = [symbols |-> new["symbols"]]
    BY <2>1 DEF Changed
  <2>3. Changed(old, new) \in [symbols : SymbolLists]
    BY <2>1, <2>2
  <2> QED BY <2>3 DEF Writes
<1>3. CASE new = [old EXCEPT !.is_deleted = TRUE, !.is_enabled = FALSE]
  <2>1. /\ new["is_deleted"] = TRUE /\ new["is_enabled"] = FALSE
        /\ new["symbols"] = old["symbols"]
        /\ DOMAIN old = {"is_enabled", "is_deleted", "symbols"}
        /\ old["is_deleted"] = FALSE /\ old["is_enabled"] \in BOOLEAN
    BY <1>3 DEF Row
  <2>2. CASE old["is_enabled"] = FALSE
    <3>1. {c \in DOMAIN old : old[c] # new[c]} = {"is_deleted"}
      BY <2>1, <2>2
    <3>2. Changed(old, new) = [col \in {"is_deleted"} |-> new[col]]
      BY <3>1 DEF Changed
    <3>3. [col \in {"is_deleted"} |-> new[col]] = [is_deleted |-> new["is_deleted"]]
      OBVIOUS
    <3>4. Changed(old, new) \in [is_deleted : {TRUE}]
      BY <2>1, <3>2, <3>3
    <3> QED BY <3>4 DEF Writes
  <2>3. CASE old["is_enabled"] = TRUE
    <3>1. {c \in DOMAIN old : old[c] # new[c]} = {"is_deleted", "is_enabled"}
      BY <2>1, <2>3
    <3>2. Changed(old, new) = [col \in {"is_deleted", "is_enabled"} |-> new[col]]
      BY <3>1 DEF Changed
    <3>3. [col \in {"is_deleted", "is_enabled"} |-> new[col]]
            = [is_deleted |-> new["is_deleted"], is_enabled |-> new["is_enabled"]]
      OBVIOUS
    <3>4. Changed(old, new) \in [is_deleted : {TRUE}, is_enabled : {FALSE}]
      BY <2>1, <3>2, <3>3
    <3> QED BY <3>4 DEF Writes
  <2> QED BY <2>1, <2>2, <2>3
<1> QED BY <1>1, <1>2, <1>3 DEF Edits

\* Writing them leaves a row.
LEMMA WrittenRow ==
    ASSUME NEW row \in Row, NEW write \in Writes
    PROVE  Written(row, write) \in Row
<1>1. DOMAIN row = {"is_enabled", "is_deleted", "symbols"}
  BY DEF Row
<1>2. \A col \in DOMAIN write : col \in DOMAIN row /\ write[col] \in
        (IF col = "symbols" THEN SymbolLists ELSE BOOLEAN)
  BY <1>1 DEF Writes
<1> DEFINE W == Written(row, write)
<1>3. W = [is_enabled |-> W["is_enabled"], is_deleted |-> W["is_deleted"],
           symbols |-> W["symbols"]]
  BY <1>1 DEF Written
<1>4. W["is_enabled"] \in BOOLEAN /\ W["is_deleted"] \in BOOLEAN /\ W["symbols"] \in SymbolLists
  BY <1>1, <1>2 DEF Written, Row
<1> QED BY <1>3, <1>4 DEF Row

-----------------------------------------------------------------------------
\* A sweep that is over has read nothing and visits nothing.
LEMMA IdleType ==
    ASSUME NEW b \in BOOLEAN
    PROVE  /\ Idle(b) \in [running : BOOLEAN, failed : BOOLEAN,
                           read : [Strategies -> SymbolLists \union {<<>>}],
                           next : [Strategies -> Nat \ {0}]]
           /\ \A s \in Strategies : Idle(b).next[s] = 1 /\ Idle(b).read[s] = <<>>
BY DEF Idle

\* Initially no sweep runs and nothing may be signalled.
LEMMA InitInv == Init => IInv
<1> SUFFICES ASSUME Init PROVE IInv
  OBVIOUS
<1>1. /\ sweep \in [running : BOOLEAN, failed : BOOLEAN,
                    read : [Strategies -> SymbolLists \union {<<>>}],
                    next : [Strategies -> Nat \ {0}]]
      /\ \A s \in Strategies : sweep.next[s] = 1 /\ sweep.read[s] = <<>>
  BY DEF Init, Idle
<1>2. \A s \in Strategies : Len(sweep.read[s]) = 0
  BY <1>1
<1>3. TypeOK
  <2>1. \A s \in Strategies : sweep.next[s] <= Len(sweep.read[s]) + 1
    BY <1>1, <1>2
  <2>2. strategy \in [Strategies -> Row \union {None, Gone}]
    BY DEF Init, Created
  <2>3. \A c \in Clients : request[c] = None
    BY DEF Init
  <2>4. allowed \in [Pairs -> Int]
    BY DEF Init
  <2> QED BY <1>1, <2>1, <2>2, <2>3, <2>4 DEF TypeOK
<1>4. \A p \in Pairs : Due(p) = {}
  <2> SUFFICES ASSUME NEW p \in Pairs PROVE Due(p) = {}
    OBVIOUS
  <2>1. p[1] \in Strategies
    BY DEF Pairs
  <2>2. sweep.next[p[1]] = 1 /\ Len(sweep.read[p[1]]) = 0
    BY <1>1, <1>2, <2>1
  <2>3. Left(p[1]) = {}
    BY <2>2 DEF Left
  <2> QED BY <2>3 DEF Due
<1>5. Asked(strategy) = {}
  BY DispatchAssumption DEF Init, Asked, Created, Pairs
<1>6. Covered
  BY <1>4, <1>5, FS_EmptySet DEF Covered, Init
<1> QED BY <1>3, <1>6 DEF IInv

\* A commit to the table keeps the invariant: a pair it stops is allowed the
\* visits ahead, and it does not touch the sweep.
LEMMA CommitInv ==
    ASSUME IInv, NEW table \in [Strategies -> Row \union {None, Gone}], Commit(table),
           \A c \in Clients : request'[c] # None => request'[c] = request[c]
    PROVE  IInv'
<1>1. /\ strategy' = table /\ UNCHANGED sweep
      /\ allowed' = [p \in Pairs |->
                      IF p \in Asked(table) THEN 0
                      ELSE IF p \in Asked(strategy) THEN Cardinality(Due(p))
                      ELSE allowed[p]]
  BY DEF Commit
<1>2. \A p \in Pairs : Cardinality(Due(p)) \in Nat /\ Due(p)' = Due(p)
  BY <1>1, DueFinite DEF IInv, Due, Left
<1>3. TypeOK'
  <2>1. allowed' \in [Pairs -> Int]
    BY <1>1, <1>2 DEF IInv, TypeOK
  <2>2. \A c \in Clients : request'[c] # None =>
          request'[c].strategy \in Strategies /\ request'[c].write \in Writes
    BY DEF IInv, TypeOK
  <2> QED BY <1>1, <2>1, <2>2 DEF IInv, TypeOK
<1>4. Covered'
  <2> SUFFICES ASSUME NEW p \in Pairs
               PROVE  IF p \in Asked(table) THEN allowed'[p] = 0
                      ELSE Cardinality(Due(p)) <= allowed'[p]
    BY <1>1, <1>2 DEF Covered
  <2> QED BY <1>1, <1>2 DEF IInv, Covered
<1> QED BY <1>3, <1>4 DEF IInv

\* A visit takes its own place off what is due, for its pair and no other.
LEMMA ReachDue ==
    ASSUME TypeOK, NEW s \in Strategies, Reach(s), NEW x, x = At(s)
    PROVE  /\ <<s, x>> \in Pairs
           /\ Cardinality(Due(<<s, x>>)') = Cardinality(Due(<<s, x>>)) - 1
           /\ \A p \in Pairs \ {<<s, x>>} : Due(p)' = Due(p)
           /\ sweep' \in [running : BOOLEAN, failed : BOOLEAN,
                          read : [Strategies -> SymbolLists \union {<<>>}],
                          next : [Strategies -> Nat \ {0}]]
           /\ \A t \in Strategies : sweep'.next[t] <= Len(sweep'.read[t]) + 1
<1>1. /\ sweep.next[s] \in Nat \ {0} /\ sweep.next[s] <= Len(sweep.read[s])
      /\ sweep' = [sweep EXCEPT !.next[s] = @ + 1]
      /\ sweep.read[s] \in Seq(Symbols) /\ Len(sweep.read[s]) \in Nat
  BY ReadTypes DEF Reach, Left, TypeOK
<1>2. /\ sweep'.read = sweep.read /\ sweep'.next = [sweep.next EXCEPT ![s] = @ + 1]
      /\ sweep'.running = sweep.running /\ sweep'.failed = sweep.failed
      /\ sweep' = [running |-> sweep'.running, failed |-> sweep'.failed,
                   read |-> sweep'.read, next |-> sweep'.next]
  BY <1>1 DEF TypeOK
<1>3. PICK n, l : n = sweep.next[s] /\ l = sweep.read[s]
  OBVIOUS
<1>4. /\ n \in Nat \ {0} /\ l \in Seq(Symbols) /\ Len(l) \in Nat /\ n <= Len(l) /\ x = l[n]
      /\ sweep'.next[s] = n + 1 /\ sweep'.read[s] = l
  BY <1>1, <1>2, <1>3 DEF At, TypeOK
<1>5. <<s, x>> \in Pairs
  BY <1>4 DEF Pairs
<1>6. \A y : /\ Due(<<s, y>>) = {j \in n .. Len(l) : l[j] = y}
             /\ Due(<<s, y>>)' = {j \in n + 1 .. Len(l) : l[j] = y}
  BY <1>3, <1>4 DEF Due, Left
<1>7. n \in Due(<<s, x>>) /\ Due(<<s, x>>)' = Due(<<s, x>>) \ {n}
  BY <1>4, <1>6
<1>8. \A q \in Pairs \ {<<s, x>>} : Due(q)' = Due(q)
  <2> SUFFICES ASSUME NEW q \in Pairs, q # <<s, x>> PROVE Due(q)' = Due(q)
    OBVIOUS
  <2>1. q[1] \in Strategies /\ q = <<q[1], q[2]>>
    BY DEF Pairs
  <2>2. CASE q[1] # s
    BY <1>2, <2>1, <2>2 DEF Due, Left, TypeOK
  <2>3. CASE q[1] = s
    <3>1. q[2] # x
      BY <2>1, <2>3
    <3>2. {j \in n .. Len(l) : l[j] = q[2]} = {j \in n + 1 .. Len(l) : l[j] = q[2]}
      BY <1>4, <3>1
    <3>3. q = <<s, q[2]>>
      BY <2>1, <2>3
    <3>4. /\ Due(<<s, q[2]>>) = {j \in n .. Len(l) : l[j] = q[2]}
          /\ Due(<<s, q[2]>>)' = {j \in n + 1 .. Len(l) : l[j] = q[2]}
      BY <1>6
    <3> QED BY <3>2, <3>3, <3>4
  <2> QED BY <2>2, <2>3
<1>9. Cardinality(Due(<<s, x>>)') = Cardinality(Due(<<s, x>>)) - 1
  <2>1. IsFiniteSet(Due(<<s, x>>))
    BY <1>5, DueFinite
  <2> QED BY <1>7, <2>1, FS_RemoveElement
<1>10. sweep' \in [running : BOOLEAN, failed : BOOLEAN,
                  read : [Strategies -> SymbolLists \union {<<>>}],
                  next : [Strategies -> Nat \ {0}]]
  <2>1. sweep'.next \in [Strategies -> Nat \ {0}]
    BY <1>2 DEF TypeOK
  <2>2. /\ sweep'.read \in [Strategies -> SymbolLists \union {<<>>}]
        /\ sweep'.running \in BOOLEAN /\ sweep'.failed \in BOOLEAN
    BY <1>2 DEF TypeOK
  <2> QED BY <1>2, <2>1, <2>2
<1>11. \A t \in Strategies : sweep'.next[t] <= Len(sweep'.read[t]) + 1
  BY <1>1, <1>2, ReadTypes DEF TypeOK
<1> QED BY <1>5, <1>8, <1>9, <1>10, <1>11

\* A sweep that ends has nothing ahead, and nothing is allowed any more.
LEMMA EndInv ==
    ASSUME IInv, NEW b \in BOOLEAN, EndSweep(b), UNCHANGED <<strategy, request>>
    PROVE  IInv'
<1>1. /\ sweep' \in [running : BOOLEAN, failed : BOOLEAN,
                     read : [Strategies -> SymbolLists \union {<<>>}],
                     next : [Strategies -> Nat \ {0}]]
      /\ \A s \in Strategies : sweep'.next[s] = 1 /\ sweep'.read[s] = <<>>
      /\ allowed' = [p \in Pairs |-> 0]
  BY IdleType DEF EndSweep
<1>2. \A s \in Strategies : Len(sweep'.read[s]) = 0
  BY <1>1
<1>3. TypeOK'
  <2>1. \A s \in Strategies : sweep'.next[s] <= Len(sweep'.read[s]) + 1
    BY <1>1, <1>2
  <2>2. allowed' \in [Pairs -> Int]
    BY <1>1
  <2> QED BY <1>1, <2>1, <2>2 DEF IInv, TypeOK
<1>4. \A p \in Pairs : Due(p)' = {}
  <2> SUFFICES ASSUME NEW p \in Pairs PROVE Due(p)' = {}
    OBVIOUS
  <2>1. p[1] \in Strategies
    BY DEF Pairs
  <2>2. sweep'.next[p[1]] = 1 /\ Len(sweep'.read[p[1]]) = 0
    BY <1>1, <1>2, <2>1
  <2>3. Left(p[1])' = {}
    BY <2>2 DEF Left
  <2> QED BY <2>3 DEF Due
<1>5. \A p \in Pairs : Cardinality(Due(p)') = 0 /\ allowed'[p] = 0
  BY <1>1, <1>4, FS_EmptySet
<1>6. Covered'
  BY <1>5 DEF Covered
<1> QED BY <1>3, <1>6 DEF IInv

\* A sweep that starts has ahead what is asked for, and nothing else.
LEMMA StartInv ==
    ASSUME IInv, StartSweep
    PROVE  IInv'
<1> DEFINE R == [s \in Strategies |-> IF s \in Selected(strategy) THEN strategy[s].symbols ELSE <<>>]
<1>1. /\ sweep' = [Idle(FALSE) EXCEPT !.running = TRUE, !.read = R]
      /\ UNCHANGED <<strategy, request, allowed>>
  BY DEF StartSweep
<1>2. R \in [Strategies -> SymbolLists \union {<<>>}]
  BY DEF Selected, Row
<1>3. /\ sweep'.running = TRUE /\ sweep'.failed = FALSE /\ sweep'.read = R
      /\ sweep'.next = [s \in Strategies |-> 1]
      /\ sweep' \in [running : BOOLEAN, failed : BOOLEAN,
                     read : [Strategies -> SymbolLists \union {<<>>}],
                     next : [Strategies -> Nat \ {0}]]
  <2> HIDE DEF R
  <2> DEFINE N == [s \in Strategies |-> 1]
  <2>1. N \in [Strategies -> Nat \ {0}]
    OBVIOUS
  <2>2. sweep' = [running |-> TRUE, failed |-> FALSE, read |-> R, next |-> N]
    BY <1>1 DEF Idle
  <2> HIDE DEF N
  <2>3. /\ sweep'.running = TRUE /\ sweep'.failed = FALSE
        /\ sweep'.read = R /\ sweep'.next = N
    BY <2>2
  <2>4. sweep' \in [running : BOOLEAN, failed : BOOLEAN,
                   read : [Strategies -> SymbolLists \union {<<>>}],
                   next : [Strategies -> Nat \ {0}]]
    BY <1>2, <2>1, <2>2
  <2> QED BY <2>3, <2>4 DEF N
<1>4. TypeOK'
  <2>1. ASSUME NEW s \in Strategies PROVE sweep'.next[s] <= Len(sweep'.read[s]) + 1
    <3>1. sweep'.read[s] \in SymbolLists \union {<<>>}
      BY <1>3
    <3>2. Len(sweep'.read[s]) \in Nat
      BY <3>1, DispatchAssumption
    <3> QED BY <1>3, <3>2
  <2> QED BY <1>1, <1>3, <2>1 DEF IInv, TypeOK
<1>5. \A p \in Pairs : p \notin Asked(strategy) => Due(p)' = {}
  <2> SUFFICES ASSUME NEW p \in Pairs, NEW j \in Due(p)' PROVE p \in Asked(strategy)
    OBVIOUS
  <2>1. p[1] \in Strategies
    BY DEF Pairs
  <2>2. j \in 1 .. Len(R[p[1]]) /\ R[p[1]][j] = p[2]
    BY <1>3, <2>1 DEF Due, Left
  <2>3. CASE p[1] \notin Selected(strategy)
    BY <2>1, <2>2, <2>3
  <2>4. CASE p[1] \in Selected(strategy)
    <3>1. R[p[1]] = strategy[p[1]].symbols /\ strategy[p[1]].symbols \in Seq(Symbols)
      BY <2>1, <2>4, DispatchAssumption DEF Selected, Row
    <3>2. j \in DOMAIN strategy[p[1]].symbols
      BY <2>2, <3>1
    <3>3. Listed(strategy[p[1]].symbols, p[2])
      BY <2>2, <3>1, <3>2 DEF Listed
    <3> QED BY <2>4, <3>3 DEF Selected, Asked
  <2> QED BY <2>3, <2>4
<1>6. Covered'
  <2> SUFFICES ASSUME NEW p \in Pairs
               PROVE  IF p \in Asked(strategy) THEN allowed[p] = 0
                      ELSE Cardinality(Due(p)') <= allowed[p]
    BY <1>1 DEF Covered, Asked
  <2>1. CASE p \in Asked(strategy)
    BY <2>1 DEF IInv, Covered
  <2>2. CASE p \notin Asked(strategy)
    <3>1. Cardinality(Due(p)') = 0
      BY <1>5, <2>2, FS_EmptySet
    <3> QED BY <2>2, <3>1, AllowedNat
  <2> QED BY <2>1, <2>2
<1> QED BY <1>4, <1>6 DEF IInv

\* A visit keeps the invariant: the signal it may give is one of those allowed.
LEMMA VisitInv ==
    ASSUME IInv, NEW s \in Strategies, SkipSymbol(s) \/ ExecuteOne(s)
    PROVE  IInv'
<1>1. PICK x : x = At(s)
  OBVIOUS
<1> DEFINE p == <<s, x>>
<1>2. /\ Reach(s) /\ UNCHANGED <<strategy, request>>
      /\ \/ allowed' = allowed
         \/ p \notin Asked(strategy) /\ allowed' = [allowed EXCEPT ![p] = @ - 1]
  BY <1>1 DEF SkipSymbol, ExecuteOne
<1>3. /\ p \in Pairs
      /\ Cardinality(Due(p)') = Cardinality(Due(p)) - 1
      /\ \A q \in Pairs \ {p} : Due(q)' = Due(q)
      /\ sweep' \in [running : BOOLEAN, failed : BOOLEAN,
                     read : [Strategies -> SymbolLists \union {<<>>}],
                     next : [Strategies -> Nat \ {0}]]
      /\ \A t \in Strategies : sweep'.next[t] <= Len(sweep'.read[t]) + 1
  BY <1>1, <1>2, ReachDue DEF IInv
<1>4. TypeOK'
  <2>1. allowed' \in [Pairs -> Int]
    <3>1. allowed \in [Pairs -> Int]
      BY DEF IInv, TypeOK
    <3> HIDE DEF p
    <3> QED BY <1>2, <3>1
  <2>2. /\ strategy' \in [Strategies -> Row \union {None, Gone}]
        /\ \A c \in Clients : request'[c] # None =>
             request'[c].strategy \in Strategies /\ request'[c].write \in Writes
    BY <1>2 DEF IInv, TypeOK
  <2> QED BY <1>3, <2>1, <2>2 DEF TypeOK
<1>5. Covered'
  <2> SUFFICES ASSUME NEW q \in Pairs
               PROVE  IF q \in Asked(strategy) THEN allowed'[q] = 0
                      ELSE Cardinality(Due(q)') <= allowed'[q]
    BY <1>2 DEF Covered, Asked
  <2>1. /\ allowed \in [Pairs -> Int] /\ Cardinality(Due(q)) \in Nat
        /\ IF q \in Asked(strategy) THEN allowed[q] = 0
           ELSE Cardinality(Due(q)) <= allowed[q]
    BY DueFinite DEF IInv, TypeOK, Covered
  <2>2. CASE q = p
    BY <1>2, <1>3, <2>1, <2>2
  <2>3. CASE q # p
    <3>1. Due(q)' = Due(q) /\ allowed'[q] = allowed[q]
      BY <1>2, <1>3, <2>1, <2>3
    <3> QED BY <2>1, <3>1
  <2> QED BY <2>2, <2>3
<1> QED BY <1>4, <1>5 DEF IInv

\* Every step keeps the invariant.
LEMMA StepInv == IInv /\ [Next]_vars => IInv'
<1> SUFFICES ASSUME IInv, [Next]_vars PROVE IInv'
  OBVIOUS
<1>1. CASE StartSweep
  BY <1>1, StartInv
<1>2. CASE FinishSweep
  BY <1>2, EndInv DEF FinishSweep
<1>3. CASE AbortSweep
  BY <1>3, EndInv DEF AbortSweep
<1>4. ASSUME NEW s \in Strategies, SkipSymbol(s) \/ ExecuteOne(s) PROVE IInv'
  BY <1>4, VisitInv
<1>5. ASSUME NEW s \in Strategies, Create(s) PROVE IInv'
  <2> PICK row \in Created : Commit([strategy EXCEPT ![s] = row])
    BY <1>5 DEF Create
  <2>1. row \in Row
    BY DEF Created
  <2>2. [strategy EXCEPT ![s] = row] \in [Strategies -> Row \union {None, Gone}]
    BY <2>1 DEF IInv, TypeOK
  <2>3. request' = request
    BY <1>5 DEF Create
  <2> QED BY <2>2, <2>3, CommitInv
<1>6. ASSUME NEW c \in Clients, NEW s \in Strategies, LoadForEdit(c, s) PROVE IInv'
  <2> PICK new \in Edits(strategy[s]) \ {strategy[s]} :
        request' = [request EXCEPT ![c] = [strategy |-> s, write |-> Changed(strategy[s], new)]]
    BY <1>6 DEF LoadForEdit
  <2>1. strategy[s] \in Row /\ ~strategy[s].is_deleted
        /\ UNCHANGED <<strategy, sweep, allowed>>
    BY <1>6 DEF LoadForEdit
  <2>2. Changed(strategy[s], new) \in Writes
    BY <2>1, ChangedWrites
  <2>3. TypeOK'
    BY <2>1, <2>2 DEF IInv, TypeOK
  <2>4. Covered'
    BY <2>1 DEF IInv, Covered, Asked, Due, Left
  <2> QED BY <2>3, <2>4 DEF IInv
<1>7. ASSUME NEW c \in Clients, CommitEdit(c) PROVE IInv'
  <2> DEFINE s == request[c].strategy
             row == Written(strategy[s], request[c].write)
  <2>1. /\ request[c] # None /\ request' = [request EXCEPT ![c] = None]
        /\ strategy[s] \in Row
        /\ Commit([strategy EXCEPT ![s] = row])
    BY <1>7 DEF CommitEdit
  <2>2. s \in Strategies /\ request[c].write \in Writes
    BY <2>1 DEF IInv, TypeOK
  <2>3. row \in Row
    BY <2>1, <2>2, WrittenRow
  <2> HIDE DEF s, row
  <2>4. [strategy EXCEPT ![s] = row] \in [Strategies -> Row \union {None, Gone}]
    BY <2>2, <2>3 DEF IInv, TypeOK
  <2>5. \A d \in Clients : request'[d] # None => request'[d] = request[d]
    BY <2>1
  <2> QED BY <2>1, <2>4, <2>5, CommitInv
<1>8. ASSUME NEW c \in Clients, EditFindsNoRow(c) PROVE IInv'
  <2>1. request' = [request EXCEPT ![c] = None] /\ UNCHANGED <<strategy, sweep, allowed>>
    BY <1>8 DEF EditFindsNoRow
  <2>2. TypeOK'
    BY <2>1 DEF IInv, TypeOK
  <2>3. Covered'
    BY <2>1 DEF IInv, Covered, Asked, Due, Left
  <2> QED BY <2>2, <2>3 DEF IInv
<1>9. ASSUME NEW S \in SUBSET Strategies, DeleteAccount(S) PROVE IInv'
  <2>1. /\ Commit([s \in Strategies |-> IF s \in S THEN Gone ELSE strategy[s]])
        /\ request' = request
    BY <1>9 DEF DeleteAccount
  <2>2. [s \in Strategies |-> IF s \in S THEN Gone ELSE strategy[s]]
          \in [Strategies -> Row \union {None, Gone}]
    BY DEF IInv, TypeOK
  <2> QED BY <2>1, <2>2, CommitInv
<1>10. CASE UNCHANGED vars
  <2>1. TypeOK'
    BY <1>10 DEF vars, IInv, TypeOK
  <2>2. Covered'
    BY <1>10 DEF vars, IInv, Covered, Asked, Due, Left
  <2> QED BY <2>1, <2>2 DEF IInv
<1>11. CASE NothingToDo
  BY <1>10, <1>11 DEF NothingToDo
<1> QED BY <1>1, <1>2, <1>3, <1>4, <1>5, <1>6, <1>7, <1>8, <1>9, <1>10, <1>11 DEF Next, Sweep

-----------------------------------------------------------------------------
\* The types of the variables: a sweep stays within the lists it has read, and
\* an overlapping edit writes nothing but columns of its own.
THEOREM DispatchTypeCorrect == Spec => []TypeOK
<1>1. IInv => TypeOK
  BY DEF IInv
<1> QED BY <1>1, InitInv, StepInv, PTL DEF Spec

\* A strategy that is disabled, deleted (with its account or alone) or edited
\* gives, for a symbol it no longer watches, at most as many signals as the
\* sweep that is running had visits of that symbol ahead, and none after it.
THEOREM StoppedStrategyStops == Spec => []StopsWithinASweep
<1>1. IInv => StopsWithinASweep
  BY AllowedNat DEF StopsWithinASweep
<1> QED BY <1>1, InitInv, StepInv, PTL DEF Spec
=============================================================================
