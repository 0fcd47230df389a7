------------------------------ MODULE MarketData ------------------------------
(***************************************************************************)
(* The market-data bus: broker streams publish ticks to the StreamHub, the *)
(* hub appends each to the bounded queue of every matching subscriber, the *)
(* OhlcvWriter rolls its queue into one-minute bars and upserts them, and  *)
(* WebSocket pumps send theirs to clients.                                 *)
(*                                                                         *)
(* All of it runs on one event loop: publish, and taking a tick and adding *)
(* it to a bar, have no await inside and are one step; writing a bar to    *)
(* the database and sending to a client are awaits at which others run.    *)
(*                                                                         *)
(* A tick is its number in the feed.  Prices are left out: of a bar only   *)
(* the ticks it was made of are kept, from which high, low, close and      *)
(* volume follow, and its first tick, because the upsert never replaces    *)
(* the open of a stored candle.                                            *)
(***************************************************************************)
EXTENDS Integers, Sequences, FiniteSets

CONSTANTS
  Symbols,     \* the instruments, exchange included
  Minutes,     \* the minutes ticks are stamped with
  Clients,     \* the subscriptions of WebSocket connections
  Writer,      \* the OhlcvWriter, as a subscriber
  All,         \* the wildcard channel
  None,        \* no channel, no bar
  MaxQueue,    \* StreamHub's max_queue
  MaxTicks,    \* bound on the ticks published
  MaxRestarts  \* bound on the restarts of the process

Subscribers == Clients \cup {Writer}
Channels    == Symbols \cup {All}
Ticks       == [sym : Symbols, minute : Minutes]
Candles     == Symbols \X Minutes

ASSUME NamesAssumption ==
  Writer \notin Clients /\ All \notin Symbols /\ None \notin Channels \cup Minutes
ASSUME BoundsAssumption ==
  MaxQueue \in Nat \ {0} /\ MaxTicks \in Nat /\ MaxRestarts \in Nat

VARIABLES
  feed,      \* the ticks published, in order
  chan,      \* the channel each subscriber is registered for
  queue,     \* its queue: numbers of ticks
  pump,      \* what each client's pump is doing
  writer,    \* what the OhlcvWriter is doing
  minute,    \* the minute of the bar it keeps of each symbol
  bar, first,    \* the ticks of that bar, and the first of them
  rolled,    \* the tick whose minute made it write a bar
  closing,   \* the symbols whose bar it has still to write at shutdown
  stored, opened,   \* ohlcv_candles: the ticks of each row, and its open
  stopping,  \* the shutdown has begun
  \* history, for the properties only: the number of the newest tick when a
  \* subscriber registered, and of the last tick it has taken; the ticks the
  \* writer has made bars of; the numbers at which the process was restarted
  since, last, used, cuts

hubVars    == <<chan, queue, since, last>>
writerVars == <<minute, bar, first, rolled, closing, used>>
dbVars     == <<stored, opened>>
vars       == <<feed, hubVars, pump, writer, writerVars, dbVars, stopping, cuts>>

Init ==
  /\ feed = <<>>
  /\ chan = [s \in Subscribers |-> IF s = Writer THEN All ELSE None]
  /\ queue = [s \in Subscribers |-> <<>>]
  /\ pump = [c \in Clients |-> "off"]
  /\ writer = "wait"
  /\ minute = [y \in Symbols |-> None]
  /\ bar = [y \in Symbols |-> {}]
  /\ first = [y \in Symbols |-> 0]
  /\ rolled = 0
  /\ closing = {}
  /\ stored = [k \in Candles |-> {}]
  /\ opened = [k \in Candles |-> 0]
  /\ stopping = FALSE
  /\ since = [s \in Subscribers |-> 0]
  /\ last = [s \in Subscribers |-> 0]
  /\ used = {}
  /\ cuts = {}

-----------------------------------------------------------------------------
(* StreamHub                                                                *)

Matches(s, y) == chan[s] \in {y, All}

\* Mutant: nothing is dropped.
OfferUnbounded(q, n) == Append(q, n)

\* Mutant: the new tick is dropped, not the oldest.
OfferOrDrop(q, n) == IF Len(q) < MaxQueue THEN Append(q, n) ELSE q

\* Mutant: a full queue loses the tick before the new one.
OfferSwapped(q, n) ==
  IF Len(q) < MaxQueue THEN Append(q, n) ELSE <<n>> \o Tail(q)

\* put_nowait; a full queue loses its oldest tick first.
Offer(q, n) == Append(IF Len(q) < MaxQueue THEN q ELSE Tail(q), n)

\* A broker's stream yields a tick, until the shutdown cancels the streams.
\* Feeds of one symbol need not agree on the minute.
Publish(y, m) ==
  /\ Len(feed) < MaxTicks
  /\ ~stopping
  /\ feed' = Append(feed, [sym |-> y, minute |-> m])
  /\ queue' = [s \in Subscribers |->
                 IF Matches(s, y) THEN Offer(queue[s], Len(feed) + 1) ELSE queue[s]]
  /\ UNCHANGED <<chan, since, last, pump, writer, writerVars, dbVars, stopping, cuts>>

Register(s, ch) ==
  /\ chan' = [chan EXCEPT ![s] = ch]
  /\ queue' = [queue EXCEPT ![s] = <<>>]
  /\ since' = [since EXCEPT ![s] = Len(feed)]
  /\ last' = [last EXCEPT ![s] = Len(feed)]

\* The subscription's generator is closed and its queue discarded.
Unregister(s) ==
  /\ chan' = [chan EXCEPT ![s] = None]
  /\ queue' = [queue EXCEPT ![s] = <<>>]
  /\ since' = [since EXCEPT ![s] = 0]
  /\ last' = [last EXCEPT ![s] = 0]

\* queue.get() of a subscriber that waits.
Get(s) ==
  /\ queue[s] # <<>>
  /\ queue' = [queue EXCEPT ![s] = Tail(@)]
  /\ last' = [last EXCEPT ![s] = Head(queue[s])]
  /\ UNCHANGED <<chan, since>>

-----------------------------------------------------------------------------
(* The pumps of /ws/market                                                  *)

SetPump(c, st) ==
  /\ pump' = [pump EXCEPT ![c] = st]
  /\ UNCHANGED <<feed, writer, writerVars, dbVars, stopping, cuts>>

Subscribe(c, ch) ==
  /\ pump[c] = "off"
  /\ Register(c, ch)
  /\ SetPump(c, "wait")

PumpTakes(c) ==
  /\ pump[c] = "wait"
  /\ Get(c)
  /\ SetPump(c, "send")

Sent(c) ==
  /\ pump[c] = "send"
  /\ SetPump(c, "wait")
  /\ UNCHANGED hubVars

\* The pump ends; its entry in the connection's tasks remains and a further
\* subscribe to the channel is ignored.
SendFails(c) ==
  /\ pump[c] = "send"
  /\ Unregister(c)
  /\ SetPump(c, "failed")

\* unsubscribe, or the connection is closed.
Unsubscribe(c) ==
  /\ pump[c] # "off"
  /\ Unregister(c)
  /\ SetPump(c, "off")

-----------------------------------------------------------------------------
(* OhlcvWriter                                                              *)

StartBar(n) ==
  LET y == feed[n].sym
  IN  /\ minute' = [minute EXCEPT ![y] = feed[n].minute]
      /\ bar' = [bar EXCEPT ![y] = {n}]
      /\ first' = [first EXCEPT ![y] = n]
      /\ used' = used \cup {n}

NoBars ==
  /\ minute' = [y \in Symbols |-> None]
  /\ bar' = [y \in Symbols |-> {}]
  /\ first' = [y \in Symbols |-> 0]

\* Mutant: the row is stored under the minute of the tick that rolled it over.
UpsertLate(y) ==
  LET k == <<y, IF rolled = 0 THEN minute[y] ELSE feed[rolled].minute>>
  IN  /\ stored' = [stored EXCEPT ![k] = bar[y]]
      /\ opened' = [opened EXCEPT ![k] = IF stored[k] = {} THEN first[y] ELSE @]

\* INSERT ... ON CONFLICT DO UPDATE of high, low, close and volume.
Upsert(y) ==
  LET k == <<y, minute[y]>>
  IN  /\ stored' = [stored EXCEPT ![k] = bar[y]]
      /\ opened' = [opened EXCEPT ![k] = IF stored[k] = {} THEN first[y] ELSE @]

\* _on_tick of a tick that opens a bar or belongs to the one there is.
AddToBar ==
  LET n == Head(queue[Writer])
      y == feed[n].sym
  IN  /\ writer = "wait" /\ ~stopping
      /\ Get(Writer)
      /\ \/ minute[y] = None /\ StartBar(n)
         \/ /\ minute[y] = feed[n].minute
            /\ bar' = [bar EXCEPT ![y] = @ \cup {n}]
            /\ used' = used \cup {n}
            /\ UNCHANGED <<minute, first>>
      /\ UNCHANGED <<feed, pump, writer, rolled, closing, dbVars, stopping, cuts>>

\* _on_tick of a tick of another minute: the bar is to be written first.
RollOver ==
  LET n == Head(queue[Writer])
      y == feed[n].sym
  IN  /\ writer = "wait" /\ ~stopping
      /\ Get(Writer)
      /\ minute[y] \notin {None, feed[n].minute}
      /\ rolled' = n
      /\ writer' = "flush"
      /\ UNCHANGED <<feed, pump, minute, bar, first, closing, used, dbVars, stopping, cuts>>

\* Mutant: the tick that rolled the bar over is not part of the next one.
FlushForgetting ==
  /\ writer = "flush"
  /\ Upsert(feed[rolled].sym)
  /\ used' = used \cup {rolled}
  /\ minute' = [minute EXCEPT ![feed[rolled].sym] = None]
  /\ bar' = [bar EXCEPT ![feed[rolled].sym] = {}]
  /\ first' = [first EXCEPT ![feed[rolled].sym] = 0]
  /\ rolled' = 0
  /\ writer' = "wait"
  /\ UNCHANGED <<feed, hubVars, pump, closing, stopping, cuts>>

Flush ==
  /\ writer = "flush"
  /\ Upsert(feed[rolled].sym)
  /\ StartBar(rolled)
  /\ rolled' = 0
  /\ writer' = "wait"
  /\ UNCHANGED <<feed, hubVars, pump, closing, stopping, cuts>>

\* The writer's task ends with an error and nobody starts another: the bars
\* it kept are lost.
Dies ==
  /\ writer' = "dead"
  /\ Unregister(Writer)
  /\ NoBars
  /\ rolled' = 0
  /\ closing' = {}
  /\ UNCHANGED <<feed, pump, used, stopping, cuts>>

\* run() does not catch the database's error; the row may be committed.
FlushFails ==
  /\ writer = "flush"
  /\ Upsert(feed[rolled].sym) \/ UNCHANGED dbVars
  /\ Dies

\* Shutdown: stop() of the writer, and of the manager of the streams, which
\* waits for these to end before the writer's task is cancelled.
Stop ==
  /\ ~stopping
  /\ stopping' = TRUE
  /\ UNCHANGED <<feed, hubVars, pump, writer, writerVars, dbVars, cuts>>

\* After stop() the next tick, which is discarded, ends the loop.
LeaveLoop ==
  /\ writer = "wait" /\ stopping
  /\ queue[Writer] # <<>>
  /\ Unregister(Writer)
  /\ writer' = "closing"
  /\ closing' = {y \in Symbols : minute[y] # None}
  /\ UNCHANGED <<feed, pump, minute, bar, first, rolled, used, dbVars, stopping, cuts>>

\* _flush_all: an error is logged and the other bars are written.
FlushOneOfAll(y) ==
  /\ writer = "closing" /\ y \in closing
  /\ Upsert(y) \/ UNCHANGED dbVars
  /\ closing' = closing \ {y}
  /\ UNCHANGED <<feed, hubVars, pump, writer, minute, bar, first, rolled, used,
                 stopping, cuts>>

Stopped ==
  /\ writer = "closing" /\ closing = {}
  /\ writer' = "stopped"
  /\ NoBars
  /\ UNCHANGED <<feed, hubVars, pump, rolled, closing, used, dbVars, stopping, cuts>>

\* The lifespan cancels the task at the await it has reached; what it was
\* writing may be committed.
Cancel ==
  /\ stopping /\ writer \in {"wait", "flush", "closing"}
  /\ \/ UNCHANGED dbVars
     \/ writer = "flush" /\ Upsert(feed[rolled].sym)
     \/ writer = "closing" /\ \E y \in closing : Upsert(y)
  /\ Dies

\* The process ends in whatever state it is and a new one starts: only the
\* database is kept.
Restart ==
  /\ Cardinality(cuts) < MaxRestarts
  /\ chan' = [s \in Subscribers |-> IF s = Writer THEN All ELSE None]
  /\ queue' = [s \in Subscribers |-> <<>>]
  /\ since' = [s \in Subscribers |-> Len(feed)]
  /\ last' = [s \in Subscribers |-> Len(feed)]
  /\ pump' = [c \in Clients |-> "off"]
  /\ writer' = "wait"
  /\ NoBars
  /\ rolled' = 0
  /\ closing' = {}
  /\ stopping' = FALSE
  /\ cuts' = cuts \cup {Len(feed)}
  /\ UNCHANGED <<feed, used, dbVars>>

-----------------------------------------------------------------------------
ClientStep(c) ==
  \/ \E ch \in Channels : Subscribe(c, ch)
  \/ PumpTakes(c) \/ Sent(c) \/ SendFails(c) \/ Unsubscribe(c)

WriterStep ==
  \/ AddToBar \/ RollOver \/ Flush \/ FlushFails
  \/ LeaveLoop \/ (\E y \in Symbols : FlushOneOfAll(y)) \/ Stopped

Next ==
  \/ \E y \in Symbols, m \in Minutes : Publish(y, m)
  \/ \E c \in Clients : ClientStep(c)
  \/ WriterStep
  \/ Stop \/ Cancel \/ Restart

Spec == Init /\ [][Next]_vars
-----------------------------------------------------------------------------
(* Properties                                                               *)

Numbers == 1 .. Len(feed)

\* Type invariant.
TypeOK ==
  /\ feed \in Seq(Ticks)
  /\ chan \in [Subscribers -> Channels \cup {None}]
  /\ queue \in [Subscribers -> Seq(Nat)]
  /\ \A s \in Subscribers : Len(queue[s]) <= MaxQueue
  /\ pump \in [Clients -> {"off", "wait", "send", "failed"}]
  /\ writer \in {"wait", "flush", "closing", "stopped", "dead"}
  /\ minute \in [Symbols -> Minutes \cup {None}]
  /\ bar \in [Symbols -> SUBSET Numbers]
  /\ first \in [Symbols -> Nat]
  /\ rolled \in Nat
  /\ writer = "flush" => rolled \in Numbers
  /\ closing \subseteq Symbols
  /\ stored \in [Candles -> SUBSET Numbers]
  /\ opened \in [Candles -> Nat]
  /\ stopping \in BOOLEAN
  /\ since \in [Subscribers -> Nat]
  /\ last \in [Subscribers -> Nat]
  /\ used \subseteq Numbers
  /\ cuts \subseteq Nat

\* The ticks a subscriber is to be sent.
Due(s) == {n \in Numbers : n > since[s] /\ Matches(s, feed[n].sym)}
Queued(s) == {queue[s][i] : i \in 1 .. Len(queue[s])}

\* A subscriber is sent ticks of its channel only, in the order in which they
\* were published, none twice and none from before it subscribed.
DeliveredInOrder ==
  \A s \in Subscribers :
    /\ Queued(s) \subseteq {n \in Due(s) : n > last[s]}
    /\ \A i, j \in 1 .. Len(queue[s]) : i < j => queue[s][i] < queue[s][j]

\* What a slow subscriber loses is older than all it has still to be sent,
\* and only a full queue loses anything.
NewestKept ==
  \A s \in Subscribers : \A n \in Due(s) \ Queued(s) : n > last[s] =>
    /\ Len(queue[s]) = MaxQueue
    /\ \A k \in Queued(s) : n < k

\* The ticks of a symbol's minute that the writer made bars of.
UsedFor(k) == {n \in used : feed[n].sym = k[1] /\ feed[n].minute = k[2]}

\* Between two ticks of the minute came one of another minute, or a restart.
Split(k) ==
  \E i, j \in UsedFor(k) : i < j /\
    \/ \E c \in cuts : i <= c /\ c < j
    \/ \E n \in used : i < n /\ n < j /\ feed[n].sym = k[1] /\ feed[n].minute # k[2]

\* A stored candle was made of all the ticks of its minute that the writer
\* took, and its open is the first of them, unless ticks of the minute came
\* in two runs: then the second run has replaced what the first had stored.
CandleIsWhole ==
  \A k \in Candles : stored[k] # {} /\ ~Split(k) =>
    /\ stored[k] = UsedFor(k)
    /\ opened[k] \in stored[k]
    /\ \A n \in stored[k] : opened[k] <= n

\* Even then a candle is made of ticks of its own symbol and minute, and none
\* of them is older than the tick it opens with.
CandleOfItsMinute ==
  \A k \in Candles : stored[k] # {} =>
    /\ stored[k] \cup {opened[k]} \subseteq UsedFor(k)
    /\ \A n \in stored[k] : opened[k] <= n
=============================================================================
