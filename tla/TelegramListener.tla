--------------------------- MODULE TelegramListener ---------------------------
(***************************************************************************)
(* The bot's long poll.  Telegram keeps every update until a getUpdates    *)
(* carries an offset above its number, and sends it again until then.  The *)
(* listener advances its offset, which lives in memory, before it handles  *)
(* an update; a tap on a button decides an approval in one commit and      *)
(* places its order after that.  Other channels decide the same approvals  *)
(* meanwhile, and the process may stop and restart at any point.           *)
(***************************************************************************)
EXTENDS Integers, Sequences

CONSTANTS
    Approvals,
    MaxUpdates,     \* bound: updates sent to the bot
    MaxFaults,      \* bound: failed polls and commits, restarts
    None            \* an update that decides nothing

VARIABLES
    sent,           \* the updates, in the order of their numbers
    confirmed,      \* Telegram has forgotten the updates 1 .. confirmed
    offset,         \* _offset
    next, last,     \* the numbers of the batch still to be handled
    at,             \* where the listener is
    seen,           \* what approve or reject found
    status,         \* of each approval
    late,           \* approvals whose expires_at has passed
    web,            \* a decision of another channel, loaded and not yet committed
    ended,          \* updates whose handler came to an end
    tapped,         \* approvals the listener has approved
    calls,          \* place_order calls of the listener
    cut,            \* approvals whose handler a failure cut after the commit
    faults

bot == <<sent, confirmed>>
db == <<status, late, web>>
seenBy == <<tapped, calls, cut>>
vars == <<sent, confirmed, offset, next, last, at, seen, status, late, web, ended,
          tapped, calls, cut, faults>>

ASSUME ListenerAssumption == MaxUpdates \in Nat /\ MaxFaults \in Nat /\ None \notin Approvals

Update == [approval : Approvals \union {None}, action : {"approve", "reject"}]
Larger(m, n) == IF m > n THEN m ELSE n
Tapped == sent[next].approval

Init ==
    /\ sent = <<>> /\ confirmed = 0
    /\ offset = 0 /\ next = 1 /\ last = 0 /\ at = "poll" /\ seen = "pending"
    /\ status = [a \in Approvals |-> "pending"] /\ late = {}
    /\ web = [a \in Approvals |-> "idle"]
    /\ ended = {} /\ tapped = {} /\ calls = [a \in Approvals |-> 0] /\ cut = {}
    /\ faults = 0

-----------------------------------------------------------------------------
(* The poll. *)

(* The offset confirms everything below it; the rest is delivered. *)
Poll ==
    /\ at = "poll"
    /\ confirmed' = Larger(confirmed, offset - 1)
    /\ next' = confirmed' + 1 /\ last' = Len(sent)
    /\ at' = "batch"
    /\ UNCHANGED <<sent, offset, seen, ended, faults, db, seenBy>>

(* The request or its answer is lost. *)
PollFails ==
    /\ at = "poll" /\ faults < MaxFaults
    /\ faults' = faults + 1
    /\ confirmed' \in {confirmed, Larger(confirmed, offset - 1)}
    /\ UNCHANGED <<sent, offset, next, last, at, seen, ended, db, seenBy>>

BatchDone ==
    /\ at = "batch" /\ next > last
    /\ at' = "poll"
    /\ UNCHANGED <<bot, offset, next, last, seen, ended, faults, db, seenBy>>

-----------------------------------------------------------------------------
(* An update. *)

(* The handler returned or raised: the loop goes on either way. *)
End == ended' = ended \union {next} /\ next' = next + 1 /\ at' = "batch"

\* Mutant: the number itself, so that the update comes again.
TakenOwn == next

(* max(self._offset, update_id + 1) *)
Taken == Larger(offset, next + 1)

(* A command, another text, an unlinked chat: nothing is decided. *)
TakeOther ==
    /\ at = "batch" /\ next <= last /\ Tapped = None
    /\ offset' = Taken
    /\ End
    /\ UNCHANGED <<bot, last, seen, faults, db, seenBy>>

\* Mutant: an approval is decided whatever its status.
FoundAny(a, action) == IF a \in late /\ action = "approve" THEN "late" ELSE "pending"

(* The status of an approval as the tap finds it; only approve looks at the *)
(* expiry.                                                                  *)
Found(a, action) ==
    IF status[a] # "pending" THEN "decided"
    ELSE IF a \in late /\ action = "approve" THEN "late" ELSE "pending"

(* The tap's session loads the approval. *)
TakeTap ==
    /\ at = "batch" /\ next <= last /\ Tapped # None
    /\ offset' = Taken
    /\ at' = "decide"
    /\ seen' = Found(Tapped, sent[next].action)
    /\ UNCHANGED <<bot, next, last, ended, faults, db, seenBy>>

Refuse ==
    /\ at = "decide" /\ seen = "decided"
    /\ End
    /\ UNCHANGED <<bot, offset, last, seen, faults, db, seenBy>>

MarkExpired ==
    /\ at = "decide" /\ seen = "late"
    /\ status' = [status EXCEPT ![Tapped] = "expired"]
    /\ End
    /\ UNCHANGED <<bot, offset, last, seen, late, web, faults, seenBy>>

Reject ==
    /\ at = "decide" /\ seen = "pending" /\ sent[next].action = "reject"
    /\ status' = [status EXCEPT ![Tapped] = "rejected"]
    /\ End
    /\ UNCHANGED <<bot, offset, last, seen, late, web, faults, seenBy>>

(* The decision is committed before the order is placed. *)
Approve ==
    /\ at = "decide" /\ seen = "pending" /\ sent[next].action = "approve"
    /\ status' = [status EXCEPT ![Tapped] = "approved"]
    /\ tapped' = tapped \union {Tapped}
    /\ at' = "place"
    /\ UNCHANGED <<bot, offset, next, last, seen, late, web, ended, calls, cut, faults>>

\* Mutant: the failure ends the listener.
CommitKills ==
    /\ at = "decide" /\ seen # "decided" /\ faults < MaxFaults
    /\ faults' = faults + 1
    /\ at' = "dead"
    /\ UNCHANGED <<bot, offset, next, last, seen, ended, db, seenBy>>

(* The commit fails; the user is told. *)
CommitFails ==
    /\ at = "decide" /\ seen # "decided" /\ faults < MaxFaults
    /\ faults' = faults + 1
    /\ End
    /\ UNCHANGED <<bot, offset, last, seen, db, seenBy>>

(* The decision is committed, but the answer of the database is lost: the  *)
(* handler ends as if the commit had failed.                               *)
Decision ==
    IF seen = "late" THEN "expired"
    ELSE IF sent[next].action = "reject" THEN "rejected" ELSE "approved"
Approved == IF Decision = "approved" THEN {Tapped} ELSE {}

AnswerLost ==
    /\ at = "decide" /\ seen # "decided" /\ faults < MaxFaults
    /\ faults' = faults + 1
    /\ status' = [status EXCEPT ![Tapped] = Decision]
    /\ tapped' = tapped \union Approved /\ cut' = cut \union Approved
    /\ End
    /\ UNCHANGED <<bot, offset, last, seen, late, web, calls>>

(* place_order, whatever comes of it; the user is told. *)
Place ==
    /\ at = "place"
    /\ calls' = [calls EXCEPT ![Tapped] = @ + 1]
    /\ End
    /\ UNCHANGED <<bot, offset, last, seen, tapped, cut, faults, db>>

-----------------------------------------------------------------------------
(* The process stops, by a crash or by cancelling the task, and comes back  *)
(* with a new listener.                                                     *)
Cut == cut' = IF at = "place" THEN cut \union {Tapped} ELSE cut
Fresh == next' = 1 /\ last' = 0 /\ at' = "poll"

\* Mutant: the offset survives the restart.
RestartKeepsOffset ==
    /\ faults < MaxFaults /\ faults' = faults + 1
    /\ Cut /\ Fresh
    /\ UNCHANGED <<bot, offset, seen, ended, tapped, calls, db>>

Restart ==
    /\ faults < MaxFaults /\ faults' = faults + 1
    /\ Cut /\ Fresh
    /\ offset' = 0
    /\ UNCHANGED <<bot, seen, ended, tapped, calls, db>>

-----------------------------------------------------------------------------
(* The users and the clock. *)

Send(u) ==
    /\ Len(sent) < MaxUpdates
    /\ sent' = Append(sent, u)
    /\ UNCHANGED <<confirmed, offset, next, last, at, seen, ended, faults, db, seenBy>>

Expire(a) ==
    /\ status[a] = "pending" /\ late' = late \union {a}
    /\ UNCHANGED <<bot, offset, next, last, at, seen, status, web, ended, faults, seenBy>>

(* The web application, WhatsApp, another decision by REST: loaded, then    *)
(* committed over whatever is there.                                        *)
WebLoad(a) ==
    /\ web[a] = "idle" /\ status[a] = "pending"
    /\ \E d \in {"rejected", IF a \in late THEN "expired" ELSE "approved"} :
         web' = [web EXCEPT ![a] = d]
    /\ UNCHANGED <<bot, offset, next, last, at, seen, status, late, ended, faults, seenBy>>

WebCommit(a) ==
    /\ web[a] # "idle"
    /\ status' = [status EXCEPT ![a] = web[a]]
    /\ web' = [web EXCEPT ![a] = "idle"]
    /\ UNCHANGED <<bot, offset, next, last, at, seen, late, ended, faults, seenBy>>

-----------------------------------------------------------------------------
Handle == TakeOther \/ TakeTap \/ Refuse \/ MarkExpired \/ Reject \/ Approve \/ Place
Listen == Poll \/ BatchDone \/ Handle

Next ==
    \/ Listen \/ PollFails \/ CommitFails \/ AnswerLost \/ Restart
    \/ \E u \in Update : Send(u)
    \/ \E a \in Approvals : Expire(a) \/ WebLoad(a) \/ WebCommit(a)

Spec == Init /\ [][Next]_vars

(* Every await of the listener comes to an end. *)
FairSpec == Spec /\ WF_vars(Listen)

-----------------------------------------------------------------------------
\* Every variable keeps its type; the offset is unset or one past the last update
\* taken, and never past what was sent.
TypeOK ==
    /\ sent \in Seq(Update) /\ confirmed \in 0 .. Len(sent)
    /\ next \in 1 .. Len(sent) + 1 /\ last \in 0 .. Len(sent)
    /\ at \in {"poll", "batch", "decide", "place"}
    /\ at \in {"decide", "place"} => next <= last /\ Tapped # None
    /\ offset \in IF at \in {"decide", "place"} THEN {next + 1} ELSE {0, next}
    /\ seen \in {"pending", "late", "decided"}
    /\ status \in [Approvals -> {"pending", "approved", "rejected", "expired"}]
    /\ late \subseteq Approvals
    /\ web \in [Approvals -> {"idle", "approved", "rejected", "expired"}]
    /\ ended \subseteq 1 .. Len(sent) /\ tapped \subseteq Approvals /\ cut \subseteq Approvals
    /\ calls \in [Approvals -> Nat] /\ faults \in 0 .. MaxFaults

\* Telegram never forgets an update whose handler did not come to an end, although
\* the offset moves before the handler starts and the process stops anywhere.
ForgottenIsHandled == 1 .. confirmed \subseteq ended

\* However often a button is tapped and an update delivered, the listener calls
\* place_order once for an approval that it approved, and for no other; only a
\* restart between the commit and the call, or a commit whose answer is lost, leaves
\* one without.
CalledOnce ==
    \A a \in Approvals :
        /\ calls[a] <= 1 /\ (calls[a] = 1 => a \in tapped)
        /\ a \in tapped /\ calls[a] = 0 => a \in cut \/ (at = "place" /\ Tapped = a)

\* Every update is handled in the end, across restarts, lost polls and handlers
\* that fail.
Handled == \A u \in 1 .. MaxUpdates : (u <= Len(sent)) ~> (u \in ended)
=============================================================================
