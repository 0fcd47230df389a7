-------------------------- MODULE MarketDataProofs --------------------------
(***************************************************************************)
(* What StreamHub delivers and OhlcvWriter stores, for any number of       *)
(* subscribers, symbols, ticks and restarts and any size of the queues.    *)
(***************************************************************************)
EXTENDS MarketData, TLAPS

HubTypes ==
  /\ feed \in Seq(Ticks)
  /\ chan \in [Subscribers -> Channels \cup {None}]
  /\ queue \in [Subscribers -> Seq(Nat)]
  /\ since \in [Subscribers -> Nat]
  /\ last \in [Subscribers -> Nat]
  /\ \A s \in Subscribers : since[s] <= Len(feed) /\ last[s] <= Len(feed)

\* Tick n is of the subscriber's channel.
Wants(s, n) == Matches(s, feed[n].sym)

\* Place i of a subscriber's queue holds a tick that is due and not yet taken.
HoldsDue(s, i) ==
  /\ queue[s][i] \in Numbers
  /\ queue[s][i] > since[s] /\ queue[s][i] > last[s]
  /\ Wants(s, queue[s][i])

InOrder(q) == \A i, j \in 1 .. Len(q) : i < j => q[i] < q[j]

\* What is due and neither queued nor taken was dropped from a full queue,
\* and is older than all that is in it.
OldestDropped(s) ==
  \A n \in Numbers :
    n > since[s] /\ n > last[s] /\ Wants(s, n) =>
      \/ \E i \in 1 .. Len(queue[s]) : queue[s][i] = n
      \/ /\ Len(queue[s]) = MaxQueue
         /\ \A i \in 1 .. Len(queue[s]) : n < queue[s][i]

Served(s) ==
  /\ Len(queue[s]) <= MaxQueue
  /\ \A i \in 1 .. Len(queue[s]) : HoldsDue(s, i)
  /\ InOrder(queue[s])
  /\ OldestDropped(s)

HubInv == HubTypes /\ \A s \in Subscribers : Served(s)

-----------------------------------------------------------------------------
\* Tail of a queue of numbers.
LEMMA TailFacts ==
  ASSUME NEW q \in Seq(Nat), q # <<>>
  PROVE  /\ Tail(q) \in Seq(Nat) /\ Len(Tail(q)) = Len(q) - 1
         /\ Len(q) \in Nat \ {0} /\ Head(q) = q[1] /\ q[1] \in Nat
         /\ \A i \in 1 .. Len(Tail(q)) : Tail(q)[i] = q[i + 1]
OBVIOUS

\* A queue that a number is offered to: the number is last, and what comes
\* before it is the queue, without its first number if it was full.
LEMMA OfferFacts ==
  ASSUME NEW q \in Seq(Nat), Len(q) <= MaxQueue, NEW n \in Nat
  PROVE  LET d == IF Len(q) < MaxQueue THEN 0 ELSE 1
         IN  /\ Offer(q, n) \in Seq(Nat)
             /\ Len(Offer(q, n)) = Len(q) + 1 - d
             /\ Len(q) \in Nat /\ d <= Len(q)
             /\ Offer(q, n)[Len(q) + 1 - d] = n
             /\ \A i \in 1 .. Len(q) - d : Offer(q, n)[i] = q[i + d]
<1>1. CASE Len(q) < MaxQueue
  BY <1>1 DEF Offer
<1>2. CASE Len(q) = MaxQueue
  <2>1. q # <<>> BY <1>2, BoundsAssumption
  <2>2. ~(Len(q) < MaxQueue) BY <1>2, BoundsAssumption
  <2>3. Offer(q, n) = Append(Tail(q), n) BY <2>2 DEF Offer
  <2> QED BY <2>1, <2>2, <2>3, TailFacts
<1> QED BY <1>1, <1>2, BoundsAssumption

\* What a subscriber has to itself, and how many ticks there are.
SameFor(s) ==
  /\ feed' = feed /\ chan'[s] = chan[s] /\ queue'[s] = queue[s]
  /\ since'[s] = since[s] /\ last'[s] = last[s]

\* What is said of a subscriber depends on its own channel and queue only.
LEMMA ServedStays ==
  ASSUME NEW s \in Subscribers, Served(s), SameFor(s)
  PROVE  Served(s)'
BY DEF Served, SameFor, HoldsDue, OldestDropped, InOrder, Wants, Matches, Numbers

\* A subscriber without a queue that has nothing due.
LEMMA ServedEmpty ==
  ASSUME NEW s \in Subscribers, HubTypes', queue'[s] = <<>>,
         chan'[s] = None \/ since'[s] = Len(feed')
  PROVE  Served(s)'
<1>1. OldestDropped(s)'
  <2> SUFFICES ASSUME NEW n \in Numbers', n > since'[s], Wants(s, n)'
               PROVE  FALSE
    BY DEF OldestDropped
  <2>1. feed'[n] \in Ticks
    BY DEF Numbers, HubTypes
  <2>2. feed'[n].sym \in Symbols
    BY <2>1 DEF Ticks
  <2>3. chan'[s] # None
    BY <2>2, NamesAssumption DEF Wants, Matches, Channels
  <2> QED BY <2>3 DEF Numbers, HubTypes
<1> QED BY <1>1, BoundsAssumption DEF Served, InOrder

-----------------------------------------------------------------------------
(* The steps that touch the hub                                             *)

\* A tick is published: what it changes for one subscriber.
LEMMA PublishStep ==
  ASSUME HubTypes, NEW y \in Symbols, NEW m \in Minutes, Publish(y, m),
         NEW s \in Subscribers, NEW N \in Nat, N = Len(feed) + 1
  PROVE  /\ feed' \in Seq(Ticks) /\ Len(feed') = N /\ Len(feed) \in Nat
         /\ \A n \in 1 .. Len(feed) : Wants(s, n)' <=> Wants(s, n)
         /\ Wants(s, N)' <=> Matches(s, y)
         /\ queue'[s] = IF Matches(s, y) THEN Offer(queue[s], N) ELSE queue[s]
         /\ since'[s] = since[s] /\ last'[s] = last[s]
<1> DEFINE t == [sym |-> y, minute |-> m]
<1>1. feed' = Append(feed, t) /\ t \in Ticks /\ t.sym = y
  BY DEF Publish, Ticks
<1> HIDE DEF t
<1>2. /\ feed' \in Seq(Ticks) /\ Len(feed) \in Nat /\ Len(feed') = N
      /\ feed'[N] = t /\ \A n \in 1 .. Len(feed) : feed'[n] = feed[n]
  BY <1>1 DEF HubTypes
<1>3. chan' = chan /\ since' = since /\ last' = last
  BY DEF Publish
<1>4. queue'[s] = IF Matches(s, y) THEN Offer(queue[s], N) ELSE queue[s]
  BY DEF Publish
<1>5. Wants(s, N)' <=> Matches(s, y)
  BY <1>1, <1>2, <1>3 DEF Wants, Matches
<1>6. \A n \in 1 .. Len(feed) : Wants(s, n)' <=> Wants(s, n)
  BY <1>2, <1>3 DEF Wants, Matches
<1> QED BY <1>2, <1>3, <1>4, <1>5, <1>6

\* A subscriber of another channel does not notice.
LEMMA PublishOther ==
  ASSUME HubInv, NEW y \in Symbols, NEW m \in Minutes, Publish(y, m),
         NEW s \in Subscribers, ~Matches(s, y)
  PROVE  Served(s)'
<1>1. HubTypes /\ Served(s) /\ queue[s] \in Seq(Nat)
  BY DEF HubInv, HubTypes
<1>2. Len(feed) + 1 \in Nat BY <1>1 DEF HubTypes
<1>3. PICK N \in Nat : N = Len(feed) + 1 BY <1>2
<1>4. /\ Len(feed') = N /\ Len(feed) \in Nat
      /\ \A n \in 1 .. Len(feed) : Wants(s, n)' <=> Wants(s, n)
      /\ ~Wants(s, N)'
      /\ queue'[s] = queue[s] /\ since'[s] = since[s] /\ last'[s] = last[s]
  BY <1>1, <1>3, PublishStep
<1>5. \A i \in 1 .. Len(queue[s]) : HoldsDue(s, i)'
  BY <1>1, <1>3, <1>4 DEF Served, HoldsDue, Numbers
<1>6. OldestDropped(s)'
  BY <1>1, <1>3, <1>4 DEF Served, OldestDropped, Numbers
<1> QED BY <1>1, <1>4, <1>5, <1>6 DEF Served, InOrder

\* The queue of a subscriber of the tick's channel.
LEMMA PublishTo ==
  ASSUME HubInv, NEW y \in Symbols, NEW m \in Minutes, Publish(y, m),
         NEW s \in Subscribers, Matches(s, y)
  PROVE  Served(s)'
<1>n. PICK N \in Nat : N = Len(feed) + 1
  BY DEF HubInv, HubTypes
<1> DEFINE q == queue[s]
           d == IF Len(q) < MaxQueue THEN 0 ELSE 1
           r == Offer(q, N)
<1>1. /\ HubTypes /\ Served(s) /\ q \in Seq(Nat) /\ Len(q) \in Nat /\ Len(q) <= MaxQueue
      /\ since[s] \in Nat /\ last[s] \in Nat
      /\ since[s] <= Len(feed) /\ last[s] <= Len(feed) 
  BY DEF HubInv, HubTypes, Served
<1>2. /\ r \in Seq(Nat) /\ Len(r) = Len(q) + 1 - d /\ d <= Len(q)
      /\ r[Len(q) + 1 - d] = N
      /\ \A i \in 1 .. Len(q) - d : r[i] = q[i + d]
  BY <1>1, OfferFacts
<1>3. d \in {0, 1} /\ (d = 1 <=> Len(q) = MaxQueue)
  BY <1>1, BoundsAssumption
<1>a. Len(q) \in Nat /\ d \in {0, 1} /\ d <= Len(q) /\ Len(r) = Len(q) + 1 - d
  BY <1>1, <1>2, <1>3
<1>b. \A i \in 1 .. Len(q) - d : r[i] = q[i + d]
  BY <1>2
<1> HIDE DEF r, d
<1>5. /\ Len(feed') = N /\ Len(feed) \in Nat
      /\ \A n \in 1 .. Len(feed) : Wants(s, n)' <=> Wants(s, n)
      /\ Wants(s, N)'
      /\ queue'[s] = r /\ since'[s] = since[s] /\ last'[s] = last[s]
  BY <1>1, <1>n, PublishStep DEF r
<1>6. /\ \A i \in 1 .. Len(q) : /\ q[i] \in 1 .. Len(feed) /\ q[i] > since[s]
                                /\ q[i] > last[s] /\ Wants(s, q[i])
      /\ InOrder(q) /\ OldestDropped(s)
  BY <1>1 DEF Served, HoldsDue, Numbers
<1>7. Len(r) <= MaxQueue BY <1>1, <1>a, <1>3, BoundsAssumption
<1>8. ASSUME NEW i \in 1 .. Len(r) PROVE HoldsDue(s, i)'
  <2>1. CASE i = Len(q) + 1 - d
    <3>1. r[i] = N BY <1>2, <2>1
    <3> QED BY <1>1, <1>n, <1>5, <3>1 DEF HoldsDue, Numbers
  <2>2. CASE i \in 1 .. Len(q) - d
    <3>1. r[i] = q[i + d] BY <1>b, <2>2
    <3>2. i + d \in 1 .. Len(q) BY <1>a, <2>2
    <3>3. PICK v \in 1 .. Len(feed) : v = r[i] /\ v > since[s] /\ v > last[s] /\ Wants(s, v)
      BY <1>6, <3>1, <3>2
    <3>4. Wants(s, v)' /\ v \in 1 .. Len(feed') /\ queue'[s][i] = v
      BY <1>n, <1>5, <3>3
    <3> QED BY <1>5, <3>3, <3>4 DEF HoldsDue, Numbers
  <2> QED BY <1>a, <1>2, <2>1, <2>2
<1>9. InOrder(r)
  <2> SUFFICES ASSUME NEW i \in 1 .. Len(r), NEW j \in 1 .. Len(r), i < j PROVE r[i] < r[j]
    BY DEF InOrder
  <2>1. r[i] = q[i + d] /\ i + d \in 1 .. Len(q) BY <1>a, <1>b
  <2>2. CASE j = Len(q) + 1 - d
    BY <1>2, <1>n, <1>5, <1>6, <2>1, <2>2
  <2>3. CASE j \in 1 .. Len(q) - d
    <3>1. r[j] = q[j + d] /\ j + d \in 1 .. Len(q) BY <1>a, <1>b, <2>3
    <3> QED BY <1>3, <1>6, <2>1, <3>1 DEF InOrder
  <2> QED BY <1>a, <2>2, <2>3
<1>10. OldestDropped(s)'
  <2> SUFFICES ASSUME NEW n \in 1 .. N, n > since[s], n > last[s], Wants(s, n)',
                      \A i \in 1 .. Len(r) : r[i] # n
               PROVE  /\ Len(r) = MaxQueue
                      /\ \A i \in 1 .. Len(r) : n < r[i]
    BY <1>5 DEF OldestDropped, Numbers
  <2>1. n \in 1 .. Len(feed) /\ Wants(s, n)
    <3>1. n # N BY <1>a, <1>2
    <3> QED BY <1>n, <1>5, <3>1
  <2>2. d = 1 /\ \A i \in 2 .. Len(q) : n < q[i]
    <3>1. CASE \E i \in 1 .. Len(q) : q[i] = n
      <4>1. PICK k \in 1 .. Len(q) : q[k] = n BY <3>1
      <4>2. ~(k - d \in 1 .. Len(q) - d)
        <5>1. SUFFICES ASSUME k - d \in 1 .. Len(q) - d PROVE FALSE OBVIOUS
        <5>2. r[k - d] = q[k] /\ k - d \in 1 .. Len(r) BY <1>a, <1>2, <5>1
        <5> QED BY <4>1, <5>2
      <4>3. d = 1 /\ k = 1 BY <1>1, <1>3, <4>2
      <4> QED BY <1>1, <1>6, <4>1, <4>3 DEF InOrder
    <3>2. CASE \A i \in 1 .. Len(q) : q[i] # n
      <4>1. Len(q) = MaxQueue /\ \A i \in 1 .. Len(q) : n < q[i]
        BY <1>6, <2>1, <3>2 DEF OldestDropped, Numbers
      <4> QED BY <1>1, <1>3, <4>1
    <3> QED BY <3>1, <3>2
  <2>3. ASSUME NEW i \in 1 .. Len(r) PROVE n < r[i]
    <3>1. CASE i = Len(q) + 1 - d BY <1>2, <1>n, <1>5, <2>1, <3>1
    <3>2. CASE i \in 1 .. Len(q) - d
      <4>1. r[i] = q[i + 1] /\ i + 1 \in 2 .. Len(q) BY <1>1, <1>2, <2>2, <3>2
      <4> QED BY <2>2, <4>1
    <3> QED BY <1>a, <1>2, <3>1, <3>2
  <2> QED BY <1>a, <1>3, <2>2, <2>3
<1> QED BY <1>5, <1>7, <1>8, <1>9, <1>10 DEF Served

\* A tick is published.
LEMMA PublishServes ==
  ASSUME HubInv, NEW y \in Symbols, NEW m \in Minutes, Publish(y, m)
  PROVE  HubInv'
<1>1. HubTypes /\ Len(feed) \in Nat BY DEF HubInv, HubTypes
<1>2. PICK N \in Nat : N = Len(feed) + 1 BY <1>1
<1>3. ASSUME NEW s \in Subscribers
      PROVE  /\ queue'[s] \in Seq(Nat) /\ since'[s] = since[s] /\ last'[s] = last[s]
             /\ feed' \in Seq(Ticks) /\ Len(feed') = N
  <2>1. queue[s] \in Seq(Nat) /\ Len(queue[s]) <= MaxQueue
    BY DEF HubInv, HubTypes, Served
  <2>2. Offer(queue[s], N) \in Seq(Nat) BY <1>1, <2>1, OfferFacts
  <2> QED BY <1>1, <1>2, <2>1, <2>2, PublishStep
<1>4. Writer \in Subscribers BY DEF Subscribers
<1>5. /\ chan' = chan /\ since' = since /\ last' = last
      /\ queue' = [s \in Subscribers |-> queue'[s]]
  BY DEF Publish
<1>6. HubTypes'
  BY <1>1, <1>2, <1>3, <1>4, <1>5 DEF HubTypes
<1>7. ASSUME NEW s \in Subscribers PROVE Served(s)'
  BY PublishOther, PublishTo
<1> QED BY <1>6, <1>7 DEF HubInv

\* A subscriber takes the first tick of its queue.
LEMMA GetServes ==
  ASSUME HubInv, NEW t \in Subscribers, Get(t), feed' = feed
  PROVE  HubInv'
<1> DEFINE q == queue[t]
<1>1. /\ q # <<>> /\ chan' = chan /\ since' = since
      /\ queue' = [queue EXCEPT ![t] = Tail(q)]
      /\ last' = [last EXCEPT ![t] = Head(q)]
  BY DEF Get
<1>2. HubTypes /\ q \in Seq(Nat) /\ Served(t) /\ last[t] \in Nat /\ since[t] \in Nat
  BY DEF HubInv, HubTypes
<1>3. /\ Tail(q) \in Seq(Nat) /\ Len(Tail(q)) = Len(q) - 1
      /\ Len(q) \in Nat \ {0} /\ Head(q) = q[1] /\ q[1] \in Nat
      /\ \A i \in 1 .. Len(Tail(q)) : Tail(q)[i] = q[i + 1]
  BY <1>1, <1>2, TailFacts
<1>4. /\ queue'[t] = Tail(q) /\ last'[t] = q[1] /\ since'[t] = since[t]
      /\ \A n : Wants(t, n)' <=> Wants(t, n)
  BY <1>1, <1>2, <1>3 DEF HubTypes, Wants, Matches
<1>5. \A i \in 1 .. Len(q) : /\ q[i] \in Nat /\ q[i] <= Len(feed)
                             /\ q[i] \in Numbers /\ q[i] > since[t] /\ q[i] > last[t]
                             /\ Wants(t, q[i])
  BY <1>2 DEF Served, HoldsDue, Numbers, HubTypes
<1>6. HubTypes'
  <2>1. q[1] <= Len(feed) BY <1>3, <1>5
  <2> QED BY <1>1, <1>2, <1>3, <2>1 DEF HubTypes
<1>7. Served(t)'
  <2>1. Len(Tail(q)) <= MaxQueue BY <1>2, <1>3, BoundsAssumption DEF Served
  <2>2. InOrder(q) BY <1>2 DEF Served
  <2>3. ASSUME NEW i \in 1 .. Len(Tail(q)) PROVE HoldsDue(t, i)'
    <3>1. Tail(q)[i] = q[i + 1] /\ i + 1 \in 1 .. Len(q) /\ 1 \in 1 .. Len(q) /\ 1 < i + 1
      BY <1>3
    <3>2. q[i + 1] > q[1] BY <1>5, <2>2, <3>1 DEF InOrder
    <3> QED BY <1>4, <1>5, <3>1, <3>2 DEF HoldsDue, Numbers
  <2>4. InOrder(Tail(q))
    <3> SUFFICES ASSUME NEW i \in 1 .. Len(Tail(q)), NEW j \in 1 .. Len(Tail(q)), i < j
                 PROVE  Tail(q)[i] < Tail(q)[j]
      BY DEF InOrder
    <3>1. /\ Tail(q)[i] = q[i + 1] /\ i + 1 \in 1 .. Len(q)
          /\ Tail(q)[j] = q[j + 1] /\ j + 1 \in 1 .. Len(q) /\ i + 1 < j + 1
      BY <1>3
    <3> QED BY <2>2, <3>1 DEF InOrder
  <2>5. OldestDropped(t)'
    <3> SUFFICES ASSUME NEW n \in Numbers, n > since[t], n > q[1], Wants(t, n)
                 PROVE  \E i \in 1 .. Len(Tail(q)) : Tail(q)[i] = n
      BY <1>4 DEF OldestDropped, Numbers
    <3>1. n > last[t] BY <1>2, <1>3, <1>5 DEF Numbers
    <3>2. PICK k \in 1 .. Len(q) : q[k] = n
      <4>1. ~ \A i \in 1 .. Len(q) : n < q[i] BY <1>3 DEF Numbers
      <4> QED BY <1>2, <3>1, <4>1 DEF Served, OldestDropped
    <3>3. k # 1 /\ k - 1 \in 1 .. Len(Tail(q)) /\ (k - 1) + 1 = k BY <1>3, <3>2
    <3> QED BY <1>3, <3>2, <3>3
  <2> QED BY <1>4, <2>1, <2>3, <2>4, <2>5 DEF Served
<1>8. ASSUME NEW s \in Subscribers \ {t} PROVE Served(s)'
  BY <1>1, <1>2, ServedStays DEF HubInv, HubTypes, SameFor
<1> QED BY <1>6, <1>7, <1>8 DEF HubInv

\* A subscription begins, or ends.
LEMMA RegisterServes ==
  ASSUME HubInv, feed' = feed, NEW t \in Subscribers,
         Unregister(t) \/ \E ch \in Channels : Register(t, ch)
  PROVE  HubInv'
<1>1. PICK ch \in Channels \cup {None}, n \in {0, Len(feed)} :
        /\ chan' = [chan EXCEPT ![t] = ch] /\ queue' = [queue EXCEPT ![t] = <<>>]
        /\ since' = [since EXCEPT ![t] = n] /\ last' = [last EXCEPT ![t] = n]
        /\ ch = None \/ n = Len(feed)
  BY DEF Register, Unregister
<1>2. Len(feed) \in Nat /\ n \in Nat /\ n <= Len(feed)
  BY <1>1 DEF HubInv, HubTypes
<1>3. HubTypes' BY <1>1, <1>2 DEF HubInv, HubTypes
<1>4. Served(t)'
  BY <1>1, <1>3, ServedEmpty DEF HubInv, HubTypes
<1>5. ASSUME NEW s \in Subscribers \ {t} PROVE Served(s)'
  BY <1>1, ServedStays DEF HubInv, HubTypes, SameFor
<1> QED BY <1>3, <1>4, <1>5 DEF HubInv

\* The process is started again.
LEMMA RestartServes ==
  ASSUME HubInv, Restart
  PROVE  HubInv'
<1>1. /\ feed' = feed /\ Len(feed) \in Nat
      /\ chan' = [s \in Subscribers |-> IF s = Writer THEN All ELSE None]
      /\ queue' = [s \in Subscribers |-> <<>>]
      /\ since' = [s \in Subscribers |-> Len(feed)]
      /\ last' = [s \in Subscribers |-> Len(feed)]
  BY DEF Restart, HubInv, HubTypes
<1>2. HubTypes' BY <1>1 DEF HubInv, HubTypes, Channels
<1> QED BY <1>1, <1>2, ServedEmpty DEF HubInv

\* Nobody subscribes at first.
LEMMA HubInit ==
  ASSUME Init
  PROVE  HubInv
<1>1. /\ feed = <<>> /\ Len(feed) = 0 /\ Numbers = {}
      /\ queue = [s \in Subscribers |-> <<>>]
  BY DEF Init, Numbers
<1>2. HubTypes BY <1>1 DEF Init, HubTypes, Channels
<1> QED BY <1>1, <1>2, BoundsAssumption DEF HubInv, Served, InOrder, OldestDropped

\* Every other step leaves the hub alone.
LEMMA HubQuiet ==
  ASSUME HubInv, feed' = feed, UNCHANGED hubVars
  PROVE  HubInv'
BY ServedStays DEF HubInv, HubTypes, SameFor, hubVars

\* Every step keeps it.
LEMMA HubNext ==
  ASSUME HubInv, [Next]_vars
  PROVE  HubInv'
<1>1. ASSUME NEW y \in Symbols, NEW m \in Minutes, Publish(y, m) PROVE HubInv'
  BY <1>1, PublishServes
<1>2. ASSUME NEW c \in Clients, ClientStep(c) PROVE HubInv'
  <2>1. c \in Subscribers BY DEF Subscribers
  <2>2. ASSUME NEW ch \in Channels, Subscribe(c, ch) PROVE HubInv'
    BY <2>1, <2>2, RegisterServes DEF Subscribe, SetPump
  <2>3. CASE PumpTakes(c) BY <2>1, <2>3, GetServes DEF PumpTakes, SetPump
  <2>4. CASE Sent(c) BY <2>4, HubQuiet DEF Sent, SetPump
  <2>5. CASE SendFails(c) BY <2>1, <2>5, RegisterServes DEF SendFails, SetPump
  <2>6. CASE Unsubscribe(c) BY <2>1, <2>6, RegisterServes DEF Unsubscribe, SetPump
  <2> QED BY <1>2, <2>2, <2>3, <2>4, <2>5, <2>6 DEF ClientStep
<1>w. Writer \in Subscribers BY DEF Subscribers
<1>3. CASE AddToBar BY <1>w, <1>3, GetServes DEF AddToBar
<1>4. CASE RollOver BY <1>w, <1>4, GetServes DEF RollOver
<1>5. CASE Flush BY <1>5, HubQuiet DEF Flush
<1>6. CASE FlushFails BY <1>w, <1>6, RegisterServes DEF FlushFails, Dies
<1>7. CASE LeaveLoop BY <1>w, <1>7, RegisterServes DEF LeaveLoop
<1>8. ASSUME NEW y \in Symbols, FlushOneOfAll(y) PROVE HubInv'
  BY <1>8, HubQuiet DEF FlushOneOfAll
<1>9. CASE Stopped BY <1>9, HubQuiet DEF Stopped
<1>10. CASE Stop BY <1>10, HubQuiet DEF Stop
<1>11. CASE Cancel BY <1>w, <1>11, RegisterServes DEF Cancel, Dies
<1>12. CASE Restart BY <1>12, RestartServes
<1>13. CASE UNCHANGED vars BY <1>13, HubQuiet DEF vars
<1> QED
  BY <1>1, <1>2, <1>3, <1>4, <1>5, <1>6, <1>7, <1>8, <1>9, <1>10, <1>11, <1>12, <1>13
  DEF Next, WriterStep

\* It holds in every reachable state.
LEMMA HubAlways == Spec => []HubInv
<1>1. Init => HubInv BY HubInit
<1>2. HubInv /\ [Next]_vars => HubInv' BY HubNext
<1> QED BY <1>1, <1>2, PTL DEF Spec

-----------------------------------------------------------------------------
(* Types                                                                    *)

WriterTypes ==
  /\ pump \in [Clients -> {"off", "wait", "send", "failed"}]
  /\ writer \in {"wait", "flush", "closing", "stopped", "dead"}
  /\ minute \in [Symbols -> Minutes \cup {None}]
  /\ bar \in [Symbols -> SUBSET Numbers]
  /\ first \in [Symbols -> Nat]
  /\ rolled \in Nat
  /\ writer = "flush" => rolled \in Numbers
  /\ closing \subseteq Symbols
  /\ stopping \in BOOLEAN
  /\ used \subseteq Numbers
  /\ cuts \subseteq Nat

RowTypes ==
  /\ stored \in [Candles -> SUBSET Numbers]
  /\ opened \in [Candles -> Nat]

Types == WriterTypes /\ RowTypes

\* The tick at the head of a queue is a tick of the feed.
LEMMA HeadOfQueue ==
  ASSUME HubInv, NEW t \in Subscribers, queue[t] # <<>>
  PROVE  /\ Head(queue[t]) \in Numbers /\ Head(queue[t]) \in Nat
         /\ feed[Head(queue[t])] \in Ticks
         /\ feed[Head(queue[t])].sym \in Symbols /\ feed[Head(queue[t])].minute \in Minutes
         /\ Head(queue[t]) > last[t] /\ Head(queue[t]) > since[t]
<1>1. queue[t] \in Seq(Nat) /\ Served(t) /\ feed \in Seq(Ticks)
  BY DEF HubInv, HubTypes
<1>2. Head(queue[t]) = queue[t][1] /\ 1 \in 1 .. Len(queue[t])
  BY <1>1, TailFacts
<1>3. HoldsDue(t, 1) BY <1>1, <1>2 DEF Served
<1>4. Head(queue[t]) \in Numbers BY <1>2, <1>3 DEF HoldsDue
<1>5. feed[Head(queue[t])] \in Ticks BY <1>1, <1>4 DEF Numbers
<1> QED BY <1>2, <1>3, <1>4, <1>5 DEF HoldsDue, Numbers, Ticks

\* The upsert writes ticks of the feed.
LEMMA UpsertTypes ==
  ASSUME Types, NEW y \in Symbols, Upsert(y), feed' = feed
  PROVE  RowTypes'
BY DEF Types, WriterTypes, RowTypes, Upsert, Numbers

\* Every step keeps the types of the writer and of the rows.
LEMMA TypesNext ==
  ASSUME HubInv, Types, [Next]_vars
  PROVE  Types'
<1> USE DEF Types
<1>1. ASSUME NEW y \in Symbols, NEW m \in Minutes, Publish(y, m) PROVE Types'
  <2>1. Numbers \subseteq Numbers'
    <3>1. feed \in Seq(Ticks) /\ [sym |-> y, minute |-> m] \in Ticks
      BY DEF HubInv, HubTypes, Ticks
    <3>2. Len(feed') = Len(feed) + 1 /\ Len(feed) \in Nat BY <1>1, <3>1 DEF Publish
    <3> QED BY <3>2 DEF Numbers
  <2> QED BY <1>1, <2>1 DEF WriterTypes, RowTypes, Publish, writerVars, dbVars
<1>2. ASSUME NEW c \in Clients, ClientStep(c) PROVE Types'
  BY <1>2 DEF WriterTypes, RowTypes, ClientStep, Subscribe, PumpTakes, Sent, SendFails,
              Unsubscribe, SetPump, writerVars, dbVars, Numbers
<1>w. Writer \in Subscribers BY DEF Subscribers
<1>3. CASE AddToBar
  <2> DEFINE n == Head(queue[Writer])
             y == feed[n].sym
  <2>1. /\ n \in Numbers /\ n \in Nat /\ y \in Symbols /\ feed[n].minute \in Minutes
        /\ feed' = feed /\ Numbers' = Numbers
    BY <1>w, <1>3, HeadOfQueue DEF AddToBar, Get, Numbers
  <2>2. /\ pump' = pump /\ writer' = writer /\ rolled' = rolled /\ closing' = closing
        /\ stopping' = stopping /\ cuts' = cuts /\ UNCHANGED dbVars
    BY <1>3 DEF AddToBar
  <2>3. /\ minute' \in [Symbols -> Minutes \cup {None}]
        /\ bar' \in [Symbols -> SUBSET Numbers]
        /\ first' \in [Symbols -> Nat]
        /\ used' \subseteq Numbers
    <3>1. CASE StartBar(n) BY <2>1, <3>1 DEF StartBar, WriterTypes
    <3>2. CASE /\ bar' = [bar EXCEPT ![y] = @ \cup {n}]
               /\ used' = used \cup {n}
               /\ UNCHANGED <<minute, first>>
      BY <2>1, <3>2 DEF WriterTypes
    <3> HIDE DEF n, y
    <3> QED BY <1>3, <3>1, <3>2 DEF AddToBar, n, y
  <2> HIDE DEF n, y
  <2> QED BY <2>1, <2>2, <2>3 DEF WriterTypes, RowTypes, dbVars
<1>4. CASE RollOver
  BY <1>w, <1>4, HeadOfQueue DEF WriterTypes, RowTypes, RollOver, Get, dbVars, Numbers
<1>5. CASE Flush
  <2>1. rolled \in Numbers /\ feed' = feed BY <1>5 DEF Flush, WriterTypes
  <2>2. feed[rolled] \in Ticks BY <2>1 DEF Numbers, HubInv, HubTypes
  <2>3. feed[rolled].sym \in Symbols /\ feed[rolled].minute \in Minutes BY <2>2 DEF Ticks
  <2>4. RowTypes' BY <1>5, <2>1, <2>3, UpsertTypes DEF Flush
  <2> QED BY <1>5, <2>1, <2>3, <2>4 DEF WriterTypes, Flush, StartBar, Numbers
<1>6. ASSUME Dies, UNCHANGED dbVars \/ \E y \in Symbols : Upsert(y) PROVE Types'
  <2>1. RowTypes'
    BY <1>6, UpsertTypes DEF Dies, dbVars, RowTypes, Numbers
  <2> QED BY <1>6, <2>1 DEF WriterTypes, Dies, NoBars, Numbers
<1>7. CASE FlushFails
  <2>1. rolled \in Numbers BY <1>7 DEF FlushFails, WriterTypes
  <2>2. feed[rolled] \in Ticks BY <2>1 DEF Numbers, HubInv, HubTypes
  <2>3. feed[rolled].sym \in Symbols BY <2>2 DEF Ticks
  <2> QED BY <1>6, <1>7, <2>3 DEF FlushFails
<1>8. CASE Cancel
  <2>1. ASSUME writer = "flush" PROVE feed[rolled].sym \in Symbols
    <3>1. feed[rolled] \in Ticks BY <2>1 DEF WriterTypes, Numbers, HubInv, HubTypes
    <3> QED BY <3>1 DEF Ticks
  <2>2. closing \subseteq Symbols BY DEF WriterTypes
  <2> QED BY <1>6, <1>8, <2>1, <2>2 DEF Cancel
<1>9. CASE LeaveLoop
  BY <1>9 DEF WriterTypes, RowTypes, LeaveLoop, dbVars, Numbers
<1>10. ASSUME NEW y \in Symbols, FlushOneOfAll(y) PROVE Types'
  <2>1. RowTypes' BY <1>10, UpsertTypes DEF FlushOneOfAll, dbVars, RowTypes, Numbers
  <2> QED BY <1>10, <2>1 DEF WriterTypes, FlushOneOfAll, Numbers
<1>11. CASE Stopped
  BY <1>11 DEF WriterTypes, RowTypes, Stopped, NoBars, dbVars, Numbers
<1>12. CASE Stop
  BY <1>12 DEF WriterTypes, RowTypes, Stop, writerVars, dbVars, Numbers
<1>13. CASE Restart
  <2>1. Len(feed) \in Nat BY DEF HubInv, HubTypes
  <2>2. feed' = feed /\ Numbers' = Numbers /\ UNCHANGED dbVars BY <1>13 DEF Restart, Numbers
  <2>3. cuts' \subseteq Nat BY <1>13, <2>1 DEF Restart, WriterTypes
  <2>4. /\ pump' = [c \in Clients |-> "off"] /\ writer' = "wait" /\ rolled' = 0
        /\ minute' = [y \in Symbols |-> None] /\ bar' = [y \in Symbols |-> {}]
        /\ first' = [y \in Symbols |-> 0] /\ closing' = {} /\ used' = used
    BY <1>13 DEF Restart, NoBars
  <2>s. stopping' = FALSE BY <1>13 DEF Restart
  <2>5. WriterTypes' BY <2>2, <2>3, <2>4, <2>s DEF WriterTypes
  <2> QED BY <2>2, <2>5 DEF RowTypes, dbVars
<1>14. CASE UNCHANGED vars
  BY <1>14 DEF WriterTypes, RowTypes, vars, writerVars, dbVars, Numbers
<1> QED
  BY <1>1, <1>2, <1>3, <1>4, <1>5, <1>7, <1>8, <1>9, <1>10, <1>11, <1>12, <1>13, <1>14
  DEF Next, WriterStep

\* They hold before the first tick.
LEMMA TypesInit ==
  ASSUME Init
  PROVE  Types
BY DEF Init, Types, WriterTypes, RowTypes

\* They hold in every reachable state.
LEMMA TypesAlways == Spec => [](HubInv /\ Types)
<1>1. Init => HubInv /\ Types BY HubInit, TypesInit
<1>2. HubInv /\ Types /\ [Next]_vars => (HubInv /\ Types)' BY HubNext, TypesNext
<1> QED BY <1>1, <1>2, PTL DEF Spec

-----------------------------------------------------------------------------
(* What the hub delivers                                                    *)

\* Every variable has its type, and no queue ever holds more than MaxQueue.
THEOREM MarketTypeCorrect == Spec => []TypeOK
<1>1. HubInv /\ Types => TypeOK
  BY DEF HubInv, HubTypes, Served, Types, WriterTypes, RowTypes, TypeOK
<1> QED BY <1>1, TypesAlways, PTL

\* Every subscriber is sent the ticks of its channel only, in the order they
\* were published, none twice and none from before it subscribed, however
\* queues overflow and subscriptions come and go (StreamHub).
THEOREM HubDeliversInOrder == Spec => []DeliveredInOrder
<1>1. HubInv => DeliveredInOrder
  BY DEF HubInv, HubTypes, Served, HoldsDue, Wants, InOrder, DeliveredInOrder, Queued, Due
<1> QED BY <1>1, HubAlways, PTL

\* A subscriber that is too slow loses the oldest of what it has still to be
\* sent, and nothing while its queue has room (StreamHub.publish).
THEOREM HubKeepsTheNewest == Spec => []NewestKept
<1>1. HubInv => NewestKept
  <2> SUFFICES ASSUME HubInv, NEW s \in Subscribers, NEW n \in Due(s) \ Queued(s), n > last[s]
               PROVE  Len(queue[s]) = MaxQueue /\ \A k \in Queued(s) : n < k
    BY DEF NewestKept
  <2>1. n \in Numbers /\ n > since[s] /\ Wants(s, n) BY DEF Due, Wants
  <2>2. \A i \in 1 .. Len(queue[s]) : queue[s][i] # n BY DEF Queued
  <2>3. OldestDropped(s) BY DEF HubInv, Served
  <2> QED BY <2>1, <2>2, <2>3 DEF OldestDropped, Queued
<1> QED BY <1>1, HubAlways, PTL

-----------------------------------------------------------------------------
(* What OhlcvWriter stores, for any number of symbols, minutes, ticks and    *)
(* restarts.                                                                 *)

Running == writer \in {"wait", "flush"}

\* The bar of a symbol is made of ticks of its minute, and of all of them
\* unless they came in two runs; its first tick is one of them.
BarOf(y, m) ==
  /\ first[y] \in bar[y]
  /\ bar[y] \subseteq UsedFor(<<y, m>>)
  /\ \A n \in bar[y] : first[y] <= n
  /\ bar[y] = UsedFor(<<y, m>>) \/ Split(<<y, m>>)

Bars == \A y \in Symbols, m \in Minutes : minute[y] = m => BarOf(y, m)

\* What a bar is made of was taken before what is taken now.
InTurn ==
  /\ Running => \A n \in used : n <= last[Writer]
  /\ writer = "flush" =>
       /\ rolled = last[Writer] /\ rolled > since[Writer] /\ rolled \notin used
       /\ minute[feed[rolled].sym] \notin {None, feed[rolled].minute}
  /\ writer = "closing" => \A y \in closing : minute[y] # None

\* Any further tick of the minute would be one of a second run.
Passed(k) ==
  \E i \in UsedFor(k) :
    \/ \E c \in cuts : i <= c /\ c <= since[Writer]
    \/ \E n \in used : i < n /\ feed[n].sym = k[1] /\ feed[n].minute # k[2]

\* A minute that has ticks is that of the bar, or has passed; when it is that
\* of the bar and has a row, the bar is of a second run.
Left(k) ==
  /\ UsedFor(k) # {} => minute[k[1]] = k[2] \/ Passed(k)
  /\ stored[k] # {} /\ minute[k[1]] = k[2] => Split(k)

\* A row of ticks st that opens with tick op is as it should be.
RowFine(k, st, op) ==
  st # {} =>
    /\ st \subseteq UsedFor(k)
    /\ st = UsedFor(k) \/ Split(k)
    /\ op \in UsedFor(k)
    /\ \A n \in st : op <= n
    /\ minute[k[1]] = k[2] => \A n \in bar[k[1]] : op <= n

Rows == \A k \in Candles : RowFine(k, stored[k], opened[k])

CandleInv == Bars /\ InTurn /\ (Running => \A k \in Candles : Left(k)) /\ Rows

-----------------------------------------------------------------------------
(* Ticks that are used stay so                                              *)

\* No tick is used that was not, and none changes.
SameUsed ==
  /\ used' = used /\ cuts \subseteq cuts'
  /\ \A n \in used : feed'[n] = feed[n]

\* Such a step leaves the ticks used for a minute alone, and a minute whose ticks
\* came in two runs stays one.
LEMMA SameTicks ==
  ASSUME SameUsed, NEW k
  PROVE  UsedFor(k)' = UsedFor(k) /\ (Split(k) => Split(k)')
<1>1. UsedFor(k)' = UsedFor(k) BY DEF SameUsed, UsedFor
<1> QED BY <1>1 DEF SameUsed, Split, UsedFor

\* A step that uses no tick and leaves the bars alone.
LEMMA BarsAndRowsStay ==
  ASSUME Bars, SameUsed, UNCHANGED <<minute, bar, first>>,
         \A k \in Candles : RowFine(k, stored'[k], opened'[k])
  PROVE  Bars' /\ Rows'
<1>1. Bars' BY SameTicks DEF Bars, BarOf
<1>2. Rows' BY SameTicks DEF Rows, RowFine
<1> QED BY <1>1, <1>2

\* A minute that was left stays left.
LEMMA LeftStays ==
  ASSUME SameUsed, UNCHANGED <<minute, stored>>, since'[Writer] = since[Writer],
         NEW k, Left(k)
  PROVE  Left(k)'
<1>1. Passed(k) => Passed(k)' BY SameTicks DEF Passed, SameUsed, UsedFor
<1> QED BY <1>1, SameTicks DEF Left

\* The same, with no bars left.
LEMMA RowsAlone ==
  ASSUME NamesAssumption, SameUsed, NoBars,
         \A k \in Candles : RowFine(k, stored'[k], opened'[k])
  PROVE  Bars' /\ Rows'
<1>1. \A y \in Symbols : minute'[y] = None BY DEF NoBars
<1>2. Bars' BY <1>1, NamesAssumption DEF Bars
<1>3. ASSUME NEW k \in Candles PROVE RowFine(k, stored[k], opened[k])'
  <2>1. k[1] \in Symbols /\ k[2] \in Minutes BY DEF Candles
  <2>2. minute'[k[1]] # k[2] BY <1>1, <2>1, NamesAssumption
  <2> QED BY <2>2, SameTicks DEF RowFine
<1> QED BY <1>2, <1>3 DEF Rows

\* The upsert of a bar leaves every row as it should be.
LEMMA UpsertFine ==
  ASSUME Types, Bars, Rows, NEW y \in Symbols, minute[y] # None, Upsert(y)
  PROVE  \A k \in Candles : RowFine(k, stored'[k], opened'[k])
<1> DEFINE b == <<y, minute[y]>>
<1>1. minute[y] \in Minutes /\ b \in Candles
  BY DEF Types, WriterTypes, Candles
<1>2. /\ stored'[b] = bar[y] /\ opened'[b] = IF stored[b] = {} THEN first[y] ELSE opened[b]
      /\ \A k \in Candles \ {b} : stored'[k] = stored[k] /\ opened'[k] = opened[k]
  BY <1>1 DEF Upsert, Types, RowTypes
<1>3. BarOf(y, minute[y]) /\ b[1] = y /\ b[2] = minute[y] BY <1>1 DEF Bars
<1>4. RowFine(b, stored[b], opened[b]) BY <1>1 DEF Rows
<1>5. RowFine(b, stored'[b], opened'[b])
  <2>1. CASE stored[b] = {}
    BY <1>2, <1>3, <2>1 DEF RowFine, BarOf
  <2>2. CASE stored[b] # {}
    BY <1>2, <1>3, <1>4, <2>2 DEF RowFine, BarOf
  <2> QED BY <2>1, <2>2
<1>6. ASSUME NEW k \in Candles \ {b} PROVE RowFine(k, stored'[k], opened'[k])
  BY <1>2 DEF Rows
<1> QED BY <1>5, <1>6

-----------------------------------------------------------------------------
(* A tick is added to a bar, or opens one                                   *)

Uses(n, y, m) ==
  /\ feed' = feed /\ cuts' = cuts /\ since'[Writer] = since[Writer]
  /\ used' = used \cup {n}
  /\ minute'[y] = m
  /\ \A z \in Symbols \ {y} :
       minute'[z] = minute[z] /\ bar'[z] = bar[z] /\ first'[z] = first[z]
  /\ \/ minute[y] # m /\ bar'[y] = {n} /\ first'[y] = n
     \/ minute[y] = m /\ bar'[y] = bar[y] \cup {n} /\ first'[y] = first[y]

\* n is a tick of the feed, newer than all that were used.
IsNext(n, y, m) ==
  /\ n \in Numbers /\ y = feed[n].sym /\ m = feed[n].minute
  /\ n > since[Writer]
  /\ \A i \in used : i < n

\* A new tick is added to those of its own minute and of no other; a minute that had
\* passed becomes one of two runs.
LEMMA UsedGrows ==
  ASSUME HubInv, Types, NEW n, NEW y \in Symbols, NEW m \in Minutes,
         IsNext(n, y, m), Uses(n, y, m), NEW k \in Candles
  PROVE  /\ k = <<y, m>> => UsedFor(k)' = UsedFor(k) \cup {n}
         /\ k # <<y, m>> => UsedFor(k)' = UsedFor(k)
         /\ Split(k) => Split(k)'
         /\ Passed(k) => Passed(k)'
         /\ k = <<y, m>> /\ Passed(k) => Split(k)'
<1>1. k = <<k[1], k[2]>> BY DEF Candles
<1>2. /\ k = <<y, m>> => UsedFor(k)' = UsedFor(k) \cup {n}
      /\ k # <<y, m>> => UsedFor(k)' = UsedFor(k)
  BY <1>1 DEF Uses, IsNext, UsedFor
<1>3. UsedFor(k) \subseteq UsedFor(k)' BY <1>2
<1>4. Split(k) => Split(k)' BY <1>3 DEF Split, Uses
<1>5. Passed(k) => Passed(k)' BY <1>3 DEF Passed, Uses
<1>6. ASSUME k = <<y, m>>, Passed(k) PROVE Split(k)'
  <2>1. PICK i \in UsedFor(k) :
          \/ \E c \in cuts : i <= c /\ c <= since[Writer]
          \/ \E j \in used : i < j /\ feed[j].sym = k[1] /\ feed[j].minute # k[2]
    BY <1>6 DEF Passed
  <2>2. i \in UsedFor(k)' /\ n \in UsedFor(k)' BY <1>2, <1>3, <1>6, <2>1
  <2>3. i < n BY <2>1 DEF UsedFor, IsNext
  <2>4. ASSUME NEW c \in cuts, i <= c, c <= since[Writer] PROVE Split(k)'
    <3>1. c < n
      <4>1. c \in Nat /\ n \in Nat BY DEF IsNext, Types, WriterTypes, Numbers
      <4>2. since[Writer] \in Nat BY DEF HubInv, HubTypes, Subscribers
      <4> QED BY <2>4, <4>1, <4>2 DEF IsNext
    <3> QED BY <2>2, <2>3, <2>4, <3>1 DEF Split, Uses
  <2>5. ASSUME NEW j \in used, i < j, feed[j].sym = k[1], feed[j].minute # k[2] PROVE Split(k)'
    <3>1. j < n /\ j \in used' BY DEF IsNext, Uses
    <3> QED BY <2>2, <2>3, <2>5, <3>1 DEF Split, Uses
  <2> QED BY <2>1, <2>4, <2>5
<1> QED BY <1>2, <1>4, <1>5, <1>6

\* A step that puts the next tick into its bar keeps what is said of bars, rows and
\* minutes.
LEMMA UseTick ==
  ASSUME HubInv, Types, Bars, NEW n, NEW y \in Symbols, NEW m \in Minutes,
         IsNext(n, y, m), Uses(n, y, m),
         \A k \in Candles : Left(k),
         \A k \in Candles : RowFine(k, stored'[k], opened'[k]),
         \A k \in Candles : k[1] # y \/ k = <<y, m>> => stored'[k] = stored[k]
  PROVE  Bars' /\ Rows' /\ \A k \in Candles : Left(k)'
<1> DEFINE b == <<y, m>>
<1>0. ASSUME NEW k \in Candles
      PROVE  /\ k = b => UsedFor(k)' = UsedFor(k) \cup {n}
             /\ k # b => UsedFor(k)' = UsedFor(k)
             /\ Split(k) => Split(k)'
             /\ Passed(k) => Passed(k)'
             /\ k = b /\ Passed(k) => Split(k)'
  BY UsedGrows
<1>1. b \in Candles /\ b[1] = y /\ b[2] = m BY DEF Candles
<1>2. \A k \in Candles : k[1] = y /\ k[2] = m <=> k = b BY DEF Candles
<1>3. n \in Nat /\ used \subseteq Nat
  BY DEF IsNext, Types, WriterTypes, Numbers
<1>4. \A i \in UsedFor(b) : i \in Nat /\ i < n BY <1>3 DEF UsedFor, IsNext
<1>5. minute[y] # m /\ UsedFor(b) # {} => Split(b)'
  BY <1>1, <1>0 DEF Left
<1>6. minute[y] = m => BarOf(y, m) BY DEF Bars
<1>7. BarOf(y, m)'
  <2>1. UsedFor(b)' = UsedFor(b) \cup {n} /\ (Split(b) => Split(b)') BY <1>1, <1>0
  <2>2. CASE minute[y] # m
    <3>1. bar'[y] = {n} /\ first'[y] = n BY <2>2 DEF Uses
    <3> QED BY <1>3, <1>5, <2>1, <2>2, <3>1 DEF BarOf
  <2>3. CASE minute[y] = m
    <3>1. bar'[y] = bar[y] \cup {n} /\ first'[y] = first[y] BY <2>3 DEF Uses
    <3>2. first[y] < n /\ n <= n BY <1>3, <1>4, <1>6, <2>3 DEF BarOf
    <3>3. first'[y] \in bar'[y] /\ bar'[y] \subseteq UsedFor(b)'
      BY <1>6, <2>1, <2>3, <3>1 DEF BarOf
    <3>4. \A i \in bar'[y] : first'[y] <= i
      <4>1. \A i \in bar[y] : first[y] <= i BY <1>6, <2>3 DEF BarOf
      <4>2. first[y] <= n BY <1>3, <1>4, <1>6, <2>3, <3>2 DEF BarOf
      <4> QED BY <3>1, <4>1, <4>2
    <3>5. bar'[y] = UsedFor(b)' \/ Split(b)' BY <1>6, <2>1, <2>3, <3>1 DEF BarOf
    <3> QED BY <3>3, <3>4, <3>5 DEF BarOf
  <2> QED BY <2>2, <2>3
<1>8. Bars'
  <2> SUFFICES ASSUME NEW z \in Symbols, NEW p \in Minutes, minute'[z] = p
               PROVE  BarOf(z, p)'
    BY DEF Bars
  <2>1. CASE z = y BY <1>7, <2>1 DEF Uses
  <2>2. CASE z # y
    <3>1. /\ minute[z] = p /\ bar'[z] = bar[z] /\ first'[z] = first[z] BY <2>2 DEF Uses
    <3>2. BarOf(z, p) /\ <<z, p>> \in Candles /\ <<z, p>> # b BY <2>2, <3>1 DEF Bars, Candles
    <3>3. UsedFor(<<z, p>>)' = UsedFor(<<z, p>>) /\ (Split(<<z, p>>) => Split(<<z, p>>)')
      BY <3>2, <1>0
    <3> QED BY <3>1, <3>2, <3>3 DEF BarOf
  <2> QED BY <2>1, <2>2
<1>9. ASSUME NEW k \in Candles PROVE RowFine(k, stored[k], opened[k])'
  <2>1. RowFine(k, stored'[k], opened'[k]) OBVIOUS
  <2> SUFFICES ASSUME stored'[k] # {}
      PROVE  /\ stored'[k] \subseteq UsedFor(k)'
             /\ stored'[k] = UsedFor(k)' \/ Split(k)'
             /\ opened'[k] \in UsedFor(k)'
             /\ \A i \in stored'[k] : opened'[k] <= i
             /\ minute'[k[1]] = k[2] => \A i \in bar'[k[1]] : opened'[k] <= i
    BY DEF RowFine
  <2>2. CASE k = b
    <3>1. stored'[b] = stored[b] /\ UsedFor(b) # {} /\ Left(b) BY <1>1, <2>1, <2>2 DEF RowFine
    <3>2. Split(b)'
      <4>1. CASE minute[y] = m BY <1>1, <2>2, <3>1, <4>1, <1>0 DEF Left
      <4>2. CASE minute[y] # m BY <1>5, <3>1, <4>2
      <4> QED BY <4>1, <4>2
    <3>3. UsedFor(b)' = UsedFor(b) \cup {n} BY <1>1, <1>0
    <3>4. opened'[k] \in UsedFor(b) /\ opened'[k] < n /\ opened'[k] \in Nat
      BY <1>4, <2>1, <2>2 DEF RowFine
    <3>5. \A i \in bar'[y] : opened'[k] <= i
      <4>1. CASE minute[y] = m BY <1>1, <1>3, <2>1, <2>2, <3>4, <4>1 DEF RowFine, Uses
      <4>2. CASE minute[y] # m BY <1>3, <3>4, <4>2 DEF Uses
      <4> QED BY <4>1, <4>2
    <3> QED BY <1>1, <2>1, <2>2, <3>2, <3>3, <3>4, <3>5 DEF RowFine
  <2>3. CASE k # b
    <3>1. UsedFor(k)' = UsedFor(k) /\ (Split(k) => Split(k)') BY <2>3, <1>0
    <3>2. minute'[k[1]] = k[2] => minute[k[1]] = k[2] /\ bar'[k[1]] = bar[k[1]]
      BY <1>2, <2>3 DEF Uses, Candles
    <3> QED BY <2>1, <3>1, <3>2 DEF RowFine
  <2> QED BY <2>2, <2>3
<1>10. ASSUME NEW k \in Candles PROVE Left(k)'
  <2>1. Left(k) OBVIOUS
  <2>2. CASE k = b
    <3>1. minute'[b[1]] = b[2] /\ stored'[b] = stored[b] BY <1>1 DEF Uses
    <3>2. stored[b] # {} => Split(b)'
      BY <1>1, <1>9, <2>2, <3>1, <1>5, <1>0 DEF RowFine, Left
    <3> QED BY <2>2, <3>1, <3>2 DEF Left
  <2>3. CASE k # b /\ k[1] # y
    <3>1. minute'[k[1]] = minute[k[1]] /\ stored'[k] = stored[k]
      BY <2>3 DEF Uses, Candles
    <3> QED BY <2>1, <2>3, <3>1, <1>0 DEF Left
  <2>4. CASE k # b /\ k[1] = y
    <3>1. k[2] # m /\ minute'[y] = m /\ k[2] \in Minutes BY <1>2, <2>4 DEF Uses, Candles
    <3>2. UsedFor(k)' = UsedFor(k) /\ (Passed(k) => Passed(k)')
      BY <1>0, <2>4
    <3>3. ASSUME minute[y] = k[2] PROVE Passed(k)'
      <4>1. BarOf(y, k[2]) /\ k = <<y, k[2]>> BY <2>4, <3>1, <3>3 DEF Bars, Candles
      <4>2. first[y] \in UsedFor(k) /\ first[y] < n
        BY <4>1 DEF BarOf, UsedFor, IsNext
      <4>3. first[y] \in UsedFor(k)' /\ n \in used' /\ feed'[n].sym = y /\ feed'[n].minute = m
        BY <3>2, <4>2 DEF Uses, IsNext
      <4> QED BY <2>4, <3>1, <4>2, <4>3 DEF Passed
    <3> QED BY <2>1, <2>4, <3>1, <3>2, <3>3 DEF Left
  <2> QED BY <2>2, <2>3, <2>4
<1> QED BY <1>8, <1>9, <1>10 DEF Rows

-----------------------------------------------------------------------------
(* Every step                                                               *)

\* There is neither bar nor row at first.
LEMMA CandleInit ==
  ASSUME Init
  PROVE  CandleInv
<1>1. /\ used = {} /\ stored = [k \in Candles |-> {}]
      /\ \A y \in Symbols : minute[y] = None
  BY DEF Init
<1>2. \A k : UsedFor(k) = {} BY <1>1 DEF UsedFor
<1>3. Bars BY <1>1, NamesAssumption DEF Bars
<1>4. \A k \in Candles : Left(k) BY <1>1, <1>2 DEF Left
<1>5. Rows BY <1>1 DEF Rows, RowFine
<1>6. InTurn BY <1>1 DEF InTurn, Init
<1> QED BY <1>3, <1>4, <1>5, <1>6 DEF CandleInv

\* A step of a broker, a client or the shutdown: the writer stays as it is.
LEMMA OthersStep ==
  ASSUME CandleInv, SameUsed, UNCHANGED <<writer, minute, bar, first, rolled, closing, dbVars>>,
         since'[Writer] = since[Writer], last'[Writer] = last[Writer],
         writer = "flush" => feed'[rolled] = feed[rolled]
  PROVE  CandleInv'
<1>1. \A k \in Candles : RowFine(k, stored'[k], opened'[k])
  BY DEF CandleInv, Rows, dbVars
<1>2. Bars' /\ Rows' BY <1>1, BarsAndRowsStay DEF CandleInv
<1>3. ASSUME Running' PROVE \A k \in Candles : Left(k)'
  BY <1>3, LeftStays DEF Running, CandleInv, dbVars
<1>4. InTurn' BY DEF CandleInv, InTurn, Running, SameUsed
<1> QED BY <1>2, <1>3, <1>4 DEF CandleInv

\* The writer's bars are lost, at its end or the process's.
LEMMA Lost ==
  ASSUME CandleInv, SameUsed, NoBars, writer' \in {"dead", "stopped"},
         \A k \in Candles : RowFine(k, stored'[k], opened'[k])
  PROVE  CandleInv'
<1>1. Bars' /\ Rows' BY NamesAssumption, RowsAlone
<1>2. ~Running' /\ InTurn' BY DEF Running, InTurn
<1> QED BY <1>1, <1>2 DEF CandleInv

\* A tick of the same minute joins its bar.
LEMMA AddToBarKeeps ==
  ASSUME HubInv, Types, CandleInv, AddToBar
  PROVE  CandleInv'
<1> DEFINE n == Head(queue[Writer])
           y == feed[n].sym
           m == feed[n].minute
<1>w. Writer \in Subscribers BY DEF Subscribers
<1>1. /\ n \in Numbers /\ n \in Nat /\ y \in Symbols /\ m \in Minutes
      /\ n > last[Writer] /\ n > since[Writer] /\ last[Writer] \in Nat
  BY <1>w, HeadOfQueue DEF AddToBar, Get, HubInv, HubTypes
<1>2. /\ Running /\ writer' = "wait" /\ rolled' = rolled /\ cuts' = cuts /\ feed' = feed
      /\ since' = since /\ last'[Writer] = n /\ UNCHANGED dbVars
  BY <1>w DEF AddToBar, Get, Running, HubInv, HubTypes
<1>3. \A i \in used : i < n /\ i \in Nat
  BY <1>1, <1>2 DEF CandleInv, InTurn, Types, WriterTypes, Numbers
<1>4. IsNext(n, y, m) BY <1>1, <1>3 DEF IsNext
<1>5. Uses(n, y, m)
  <2>1. CASE minute[y] = None /\ StartBar(n)
    <3>1. minute[y] # m BY <1>1, <2>1, NamesAssumption
    <3> QED BY <1>1, <1>2, <2>1, <3>1 DEF StartBar, Uses, Types, WriterTypes
  <2>2. CASE /\ minute[y] = m
             /\ bar' = [bar EXCEPT ![y] = @ \cup {n}]
             /\ used' = used \cup {n}
             /\ UNCHANGED <<minute, first>>
    BY <1>1, <1>2, <2>2 DEF Uses, Types, WriterTypes
  <2> QED BY <2>1, <2>2 DEF AddToBar
<1> HIDE DEF n, y, m
<1>6. Bars' /\ Rows' /\ \A k \in Candles : Left(k)'
  BY <1>1, <1>2, <1>4, <1>5, UseTick DEF CandleInv, Rows, dbVars
<1>7. InTurn'
  BY <1>1, <1>2, <1>3, <1>5 DEF InTurn, Running, Uses
<1> QED BY <1>6, <1>7 DEF CandleInv

\* A tick of another minute is taken and waits until the bar is written.
LEMMA RollOverKeeps ==
  ASSUME HubInv, Types, CandleInv, RollOver
  PROVE  CandleInv'
<1> DEFINE n == Head(queue[Writer])
<1>w. Writer \in Subscribers BY DEF Subscribers
<1>1. /\ n \in Numbers /\ n \in Nat /\ n > last[Writer] /\ n > since[Writer]
      /\ last[Writer] \in Nat
  BY <1>w, HeadOfQueue DEF RollOver, Get, HubInv, HubTypes
<1>2. /\ writer = "wait" /\ writer' = "flush" /\ rolled' = n
      /\ since' = since /\ last'[Writer] = n
      /\ UNCHANGED <<feed, minute, bar, first, used, cuts, dbVars>>
      /\ minute[feed[n].sym] \notin {None, feed[n].minute}
  BY <1>w DEF RollOver, Get, HubInv, HubTypes
<1> HIDE DEF n
<1>3. \A i \in used : i < n /\ i <= n
  BY <1>1, <1>2 DEF CandleInv, InTurn, Running, Types, WriterTypes, Numbers
<1>4. SameUsed BY <1>2 DEF SameUsed
<1>5. Bars' /\ Rows' BY <1>2, <1>4, BarsAndRowsStay DEF CandleInv, Rows, dbVars
<1>6. \A k \in Candles : Left(k)'
  BY <1>2, <1>4, LeftStays DEF CandleInv, Running, dbVars
<1>7. InTurn' BY <1>1, <1>2, <1>3 DEF InTurn, Running
<1> QED BY <1>5, <1>6, <1>7 DEF CandleInv

\* The bar is written, and the tick that closed it opens the next.
LEMMA FlushKeeps ==
  ASSUME HubInv, Types, CandleInv, Flush
  PROVE  CandleInv'
<1> DEFINE y == feed[rolled].sym
           m == feed[rolled].minute
<1>1. /\ writer = "flush" /\ writer' = "wait" /\ feed' = feed /\ cuts' = cuts
      /\ since' = since /\ last' = last /\ Upsert(y) /\ StartBar(rolled)
  BY DEF Flush, hubVars
<1>2. rolled \in Numbers /\ rolled \in Nat BY <1>1 DEF Types, WriterTypes
<1>3. feed[rolled] \in Ticks BY <1>2 DEF Numbers, HubInv, HubTypes
<1>4. y \in Symbols /\ m \in Minutes BY <1>3 DEF Ticks
<1>5. /\ rolled = last[Writer] /\ rolled > since[Writer] /\ rolled \notin used
      /\ minute[y] \notin {None, m} /\ \A i \in used : i <= rolled
  BY <1>1 DEF CandleInv, InTurn, Running
<1>6. \A i \in used : i \in Nat /\ i < rolled
  BY <1>2, <1>5 DEF Types, WriterTypes, Numbers
<1>7. IsNext(rolled, y, m) BY <1>2, <1>5, <1>6 DEF IsNext
<1>8. Uses(rolled, y, m)
  BY <1>1, <1>4, <1>5 DEF StartBar, Uses, Types, WriterTypes
<1>9. \A k \in Candles : k[1] # y \/ k = <<y, m>> => stored'[k] = stored[k]
  BY <1>1, <1>5 DEF Upsert, Types, RowTypes
<1>10. \A k \in Candles : RowFine(k, stored'[k], opened'[k])
  BY <1>1, <1>4, <1>5, UpsertFine DEF CandleInv
<1>11. \A k \in Candles : Left(k) BY <1>1 DEF CandleInv, Running
<1> HIDE DEF y, m
<1>12. Bars' /\ Rows' /\ \A k \in Candles : Left(k)'
  BY <1>4, <1>7, <1>8, <1>9, <1>10, <1>11, UseTick DEF CandleInv
<1>13. InTurn' BY <1>1, <1>2, <1>5, <1>8 DEF InTurn, Running, Uses
<1> QED BY <1>12, <1>13 DEF CandleInv

\* The writer ends, whatever it may have written before.
LEMMA DiesKeeps ==
  ASSUME Types, CandleInv, Dies,
         UNCHANGED dbVars \/ \E y \in Symbols : minute[y] # None /\ Upsert(y)
  PROVE  CandleInv'
<1>1. \A k \in Candles : RowFine(k, stored'[k], opened'[k])
  BY UpsertFine DEF CandleInv, Rows, dbVars
<1>2. SameUsed BY DEF Dies, SameUsed
<1> QED BY <1>1, <1>2, Lost DEF Dies

\* A restart loses the bars: what was used before it belongs to an earlier run.
LEMMA RestartKeeps ==
  ASSUME HubInv, Types, CandleInv, Restart
  PROVE  CandleInv'
<1>1. /\ UNCHANGED <<feed, used, dbVars>> /\ cuts' = cuts \cup {Len(feed)} /\ writer' = "wait"
      /\ NoBars /\ since'[Writer] = Len(feed) /\ last'[Writer] = Len(feed)
      /\ Len(feed) \in Nat
  BY DEF Restart, Subscribers, HubInv, HubTypes
<1>2. SameUsed BY <1>1 DEF SameUsed
<1>3. Bars' /\ Rows' BY <1>1, <1>2, NamesAssumption, RowsAlone DEF CandleInv, Rows, dbVars
<1>4. \A i \in used : i \in Nat /\ i <= Len(feed) BY <1>1 DEF Types, WriterTypes, Numbers
<1>5. InTurn' BY <1>1, <1>4 DEF InTurn
<1>6. ASSUME NEW k \in Candles PROVE Left(k)'
  <2>1. minute'[k[1]] # k[2] BY <1>1, NamesAssumption DEF NoBars, Candles
  <2>2. UsedFor(k)' = UsedFor(k) BY <1>2, SameTicks
  <2>3. ASSUME NEW i \in UsedFor(k) PROVE Passed(k)'
    <3>1. i \in used BY DEF UsedFor
    <3>2. i <= Len(feed) /\ Len(feed) <= since'[Writer] /\ Len(feed) \in cuts'
      BY <1>1, <1>4, <3>1
    <3> QED BY <2>2, <3>2 DEF Passed
  <2> QED BY <2>1, <2>2, <2>3 DEF Left
<1> QED BY <1>3, <1>5, <1>6 DEF CandleInv

\* Every step keeps the invariant of the candles.
LEMMA CandleNext ==
  ASSUME HubInv, Types, CandleInv, [Next]_vars
  PROVE  CandleInv'
<1>u. used \subseteq Numbers /\ Len(feed) \in Nat /\ (writer = "flush" => rolled \in Numbers)
  BY DEF Types, WriterTypes, HubInv, HubTypes
<1>w. Writer \in Subscribers /\ Writer \notin Clients BY NamesAssumption DEF Subscribers
<1>1. ASSUME NEW y \in Symbols, NEW m \in Minutes, Publish(y, m) PROVE CandleInv'
  <2>1. \A n \in Numbers : feed'[n] = feed[n]
    BY <1>1 DEF Publish, Numbers, HubInv, HubTypes, Ticks
  <2>2. /\ SameUsed /\ since' = since /\ last' = last
        /\ UNCHANGED <<writer, minute, bar, first, rolled, closing, dbVars>>
    BY <1>1, <1>u, <2>1 DEF Publish, SameUsed, writerVars, dbVars
  <2> QED BY <1>u, <2>1, <2>2, OthersStep
<1>2. ASSUME NEW c \in Clients, ClientStep(c) PROVE CandleInv'
  <2>1. PICK st : SetPump(c, st)
    BY <1>2 DEF ClientStep, Subscribe, PumpTakes, Sent, SendFails, Unsubscribe
  <2>2. since'[Writer] = since[Writer] /\ last'[Writer] = last[Writer]
    BY <1>2, <1>w DEF ClientStep, Subscribe, PumpTakes, Sent, SendFails, Unsubscribe,
                      Register, Unregister, Get, hubVars, HubInv, HubTypes
  <2> QED BY <2>1, <2>2, OthersStep DEF SetPump, SameUsed, writerVars
<1>3. CASE AddToBar BY <1>3, AddToBarKeeps
<1>4. CASE RollOver BY <1>4, RollOverKeeps
<1>5. CASE Flush BY <1>5, FlushKeeps
<1>f. ASSUME writer = "flush"
      PROVE  feed[rolled].sym \in Symbols /\ minute[feed[rolled].sym] # None
  <2>1. feed[rolled] \in Ticks BY <1>f, <1>u DEF Numbers, HubInv, HubTypes
  <2> QED BY <1>f, <2>1 DEF Ticks, CandleInv, InTurn
<1>c. ASSUME writer = "closing", NEW y \in closing
      PROVE  y \in Symbols /\ minute[y] # None
  BY <1>c DEF CandleInv, InTurn, Types, WriterTypes
<1>6. CASE FlushFails BY <1>6, <1>f, DiesKeeps DEF FlushFails
<1>7. CASE Cancel BY <1>7, <1>f, <1>c, DiesKeeps DEF Cancel
<1>8. CASE LeaveLoop
  <2>1. /\ SameUsed /\ UNCHANGED <<minute, bar, first, dbVars>> /\ writer' = "closing"
        /\ closing' = {y \in Symbols : minute[y] # None}
    BY <1>8 DEF LeaveLoop, SameUsed
  <2>2. Bars' /\ Rows' BY <2>1, BarsAndRowsStay DEF CandleInv, Rows, dbVars
  <2> QED BY <2>1, <2>2 DEF CandleInv, InTurn, Running
<1>9. ASSUME NEW y \in Symbols, FlushOneOfAll(y) PROVE CandleInv'
  <2>1. /\ SameUsed /\ UNCHANGED <<minute, bar, first>> /\ writer' = writer
        /\ writer = "closing" /\ y \in closing /\ closing' \subseteq closing
        /\ Upsert(y) \/ UNCHANGED dbVars
    BY <1>9 DEF FlushOneOfAll, SameUsed
  <2>2. \A k \in Candles : RowFine(k, stored'[k], opened'[k])
    BY <1>c, <2>1, UpsertFine DEF CandleInv, Rows, dbVars
  <2>3. Bars' /\ Rows' BY <2>1, <2>2, BarsAndRowsStay DEF CandleInv
  <2> QED BY <2>1, <2>3 DEF CandleInv, InTurn, Running
<1>10. CASE Stopped
  <2>1. SameUsed /\ NoBars /\ writer' = "stopped" /\ UNCHANGED dbVars
    BY <1>10 DEF Stopped, SameUsed
  <2> QED BY <2>1, Lost DEF CandleInv, Rows, dbVars
<1>11. CASE Stop BY <1>11, OthersStep DEF Stop, SameUsed, hubVars, writerVars
<1>12. CASE Restart BY <1>12, RestartKeeps
<1>13. CASE UNCHANGED vars
  BY <1>13, OthersStep DEF vars, SameUsed, hubVars, writerVars
<1> QED
  BY <1>1, <1>2, <1>3, <1>4, <1>5, <1>6, <1>7, <1>8, <1>9, <1>10, <1>11, <1>12, <1>13
  DEF Next, WriterStep

\* It holds in every reachable state.
LEMMA CandleAlways == Spec => []CandleInv
<1>1. Init => CandleInv BY CandleInit
<1>2. HubInv /\ Types /\ CandleInv /\ [Next]_vars => CandleInv' BY CandleNext
<1> QED BY <1>1, <1>2, TypesAlways, PTL DEF Spec

-----------------------------------------------------------------------------
(* What is stored                                                           *)

\* A stored candle is made of every tick of its minute that the writer took
\* and opens with the first of them, unless the ticks of the minute came in
\* two runs; whatever ticks are lost before the writer, and wherever it fails
\* or is cancelled (OhlcvWriter._on_tick, _flush_bar, _flush_all).
THEOREM CandlesAreWhole == Spec => []CandleIsWhole
<1>1. CandleInv => CandleIsWhole BY DEF CandleInv, Rows, RowFine, CandleIsWhole
<1> QED BY <1>1, CandleAlways, PTL

\* A stored candle never holds a tick of another symbol or minute, and opens
\* with a tick no newer than any it holds, in two runs or one.
THEOREM CandlesOfTheirMinute == Spec => []CandleOfItsMinute
<1>1. CandleInv => CandleOfItsMinute
  BY DEF CandleInv, Rows, RowFine, CandleOfItsMinute
<1> QED BY <1>1, CandleAlways, PTL
=============================================================================
