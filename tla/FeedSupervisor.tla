---------------------------- MODULE FeedSupervisor ----------------------------
(***************************************************************************)
(* The supervisor of the continuous paper service (continuous_paper.py     *)
(* run) and the feeds it opens one after another (feed.py DatabentoFeed).  *)
(* A feed has a connecting thread, which an SDK call may block for ever;   *)
(* the SDK's callback thread, which fills a bounded queue; and a thread    *)
(* that terminates its client.  The supervisor polls the connection, takes *)
(* events from the queue, checks the feed's health and reports.            *)
(*                                                                         *)
(* What an event does to the ledgers is ContinuousPaper's; here an event   *)
(* is processed, refused for good, or reports a provider error.            *)
(***************************************************************************)
EXTENDS Naturals, Sequences

CONSTANTS Feeds,               \* slots for DatabentoFeed objects
          Cap,                 \* capacity of the event queue (4096)
          BaseDelay, MaxDelay, \* seconds before a reconnection (5, 900)
          Kinds                \* subset of {"bar", "heartbeat", "error", "invalid"}

ASSUME SupervisorAssumption ==
    /\ Cap \in Nat \ {0} /\ BaseDelay \in Nat \ {0}
    /\ MaxDelay \in Nat /\ BaseDelay <= MaxDelay
    /\ Kinds \subseteq {"bar", "heartbeat", "error", "invalid"}

None == "none"
ASSUME NoneAssumption == None \notin Feeds

VARIABLES
    feed,        \* the feeds: thread, closed, error, client, queue, lost, doomed
    cur,         \* the supervisor's feed, or None
    up,          \* connected_at # 0
    at,          \* where the supervisor's loop is
    deadline,    \* 0: connecting; 1: 45 s are over; 2: 15 s more are over
    wait, delay, \* until retry_at; retry_delay
    connection,  \* service.connection
    silent,      \* the last message is older than heartbeat_timeout_seconds
    hard,        \* meta hard_halt, durable
    stop,        \* STOP exists, SIGTERM came or max_seconds are over
    tainted      \* history: an event received after a dropped one was taken

supervisor == <<cur, up, at, deadline, wait, delay, connection, hard, tainted>>
vars == <<feed, supervisor, silent, stop>>

New(thread) == [thread |-> thread, closed |-> FALSE, error |-> FALSE,
                client |-> "none", queue |-> <<>>, lost |-> FALSE, doomed |-> FALSE]

Event == [kind : Kinds, old : BOOLEAN, late : BOOLEAN]
Connections == {"starting", "connecting", "connected_waiting_for_bar", "streaming",
                "data_review", "disconnected", "stopped"}

TypeOK ==
    /\ feed \in [Feeds -> [thread : {"idle", "begun", "subscribing", "starting",
                                     "finally", "settled", "done"},
                           closed : BOOLEAN, error : BOOLEAN,
                           client : {"none", "open", "live", "dead"},
                           queue : Seq(Event), lost : BOOLEAN, doomed : BOOLEAN]]
    /\ \A f \in Feeds : Len(feed[f].queue) <= Cap
    /\ cur \in Feeds \cup {None} /\ (up => cur # None)
    /\ at \in {"top", "poll", "check", "get", "health", "report", "exited", "failed"}
    /\ deadline \in 0..2 /\ wait \in 0..MaxDelay /\ delay \in BaseDelay..MaxDelay
    /\ connection \in Connections
    /\ {up, silent, hard, stop, tainted} \subseteq BOOLEAN

Init ==
    /\ feed = [f \in Feeds |-> New("idle")]
    /\ cur = None /\ up = FALSE /\ at = "top" /\ deadline = 0
    /\ wait = 0 /\ delay = BaseDelay /\ connection = "starting"
    /\ silent = FALSE /\ hard = FALSE /\ stop = FALSE /\ tainted = FALSE

-----------------------------------------------------------------------------
(* The feed's own threads. *)

\* start(): the client is created, then closed is tested, then subscribe
\* blocks in DNS and authentication for as long as it likes.
Create(f) ==
    /\ feed[f].thread = "begun"
    /\ feed' = [feed EXCEPT ![f].client = "open",
                   ![f].thread = IF feed[f].closed THEN "finally" ELSE "subscribing"]
    /\ UNCHANGED <<supervisor, silent, stop>>

Subscribe(f) ==
    /\ feed[f].thread = "subscribing"
    /\ feed' = [feed EXCEPT ![f].thread = IF feed[f].closed THEN "finally" ELSE "starting"]
    /\ UNCHANGED <<supervisor, silent, stop>>

StartClient(f) ==
    /\ feed[f].thread = "starting"
    /\ feed' = [feed EXCEPT ![f].thread = "finally", ![f].client = "live"]
    /\ UNCHANGED <<supervisor, silent, stop>>

ConnectFails(f) ==
    /\ feed[f].thread \in {"begun", "subscribing", "starting"}
    /\ feed' = [feed EXCEPT ![f].thread = "finally", ![f].error = TRUE]
    /\ UNCHANGED <<supervisor, silent, stop>>

\* connect()'s finally: closed is tested once, then connection_done is set.
Finally(f) ==
    /\ feed[f].thread = "finally"
    /\ feed' = [feed EXCEPT ![f].thread = "settled",
                   ![f].client = IF feed[f].closed THEN "none" ELSE @]
    /\ UNCHANGED <<supervisor, silent, stop>>

ConnectionDone(f) ==
    /\ feed[f].thread = "settled"
    /\ feed' = [feed EXCEPT ![f].thread = "done"]
    /\ UNCHANGED <<supervisor, silent, stop>>

\* The thread that close() starts.
Terminate(f) ==
    /\ feed[f].doomed
    /\ feed' = [feed EXCEPT ![f].doomed = FALSE, ![f].client = "none"]
    /\ UNCHANGED <<supervisor, silent, stop>>

\* _put
Put(q, e) ==
    IF q.closed THEN q
    ELSE IF Len(q.queue) < Cap THEN [q EXCEPT !.queue = Append(@, e)]
    ELSE [q EXCEPT !.lost = TRUE]

\* The SDK delivers a message.  `late` marks those behind a lost one.
Callback(f, kind) ==
    /\ feed[f].client = "live"
    /\ feed' = [feed EXCEPT ![f] = Put(@, [kind |-> kind, old |-> FALSE,
                                           late |-> feed[f].lost])]
    /\ UNCHANGED <<supervisor, silent, stop>>

\* The provider closes the connection; is_connected() is false from now on.
LinkLost(f) ==
    /\ feed[f].client = "live"
    /\ feed' = [feed EXCEPT ![f].client = "dead"]
    /\ UNCHANGED <<supervisor, silent, stop>>

-----------------------------------------------------------------------------
(* Time and the operator. *)

\* heartbeat_timeout_seconds pass: the last message and those queued are old.
GrowSilent ==
    /\ cur # None /\ up
    /\ ~silent \/ \E i \in DOMAIN feed[cur].queue : ~feed[cur].queue[i].old
    /\ silent' = TRUE
    /\ feed' = [feed EXCEPT ![cur].queue = [i \in DOMAIN @ |-> [@[i] EXCEPT !.old = TRUE]]]
    /\ UNCHANGED <<supervisor, stop>>

DeadlinePasses ==
    /\ cur # None /\ ~up /\ deadline < 2
    /\ deadline' = deadline + 1
    /\ UNCHANGED <<feed, cur, up, at, wait, delay, connection, hard, tainted, silent, stop>>

RetryComes ==
    /\ wait > 0
    /\ wait' = wait - 1
    /\ UNCHANGED <<feed, cur, up, at, deadline, delay, connection, hard, tainted, silent, stop>>

RequestStop ==
    /\ ~stop /\ stop' = TRUE
    /\ UNCHANGED <<feed, supervisor, silent>>

-----------------------------------------------------------------------------
(* The supervisor. *)

\* Mutant: the client of an attempt that has ended is left alone.
CloseOnly(q) == [q EXCEPT !.closed = TRUE, !.queue = <<>>]

\* close().  What a closed feed still holds is not read any more.
Closed(q) ==
    [q EXCEPT !.closed = TRUE, !.queue = <<>>, !.lost = FALSE, !.error = FALSE,
              !.doomed = @ \/ q.thread = "done"]

\* feed.close(); feed = None; retry_at and retry_delay
Drop ==
    /\ feed' = [feed EXCEPT ![cur] = Closed(@)]
    /\ cur' = None /\ up' = FALSE
    /\ wait' = delay
    /\ delay' = IF 2 * delay <= MaxDelay THEN 2 * delay ELSE MaxDelay

Unused(f) == f # cur /\ feed[f].client = "none" /\ feed[f].thread \in {"idle", "done"}

\* Line 104
BeginDue == ~hard /\ cur = None /\ wait = 0

\* Lines 99-110: the loop's condition and a new attempt.
Top ==
    /\ at = "top" /\ ~stop
    /\ \/ /\ BeginDue
          /\ \E f \in Feeds :
               /\ Unused(f)
               /\ feed' = [feed EXCEPT ![f] = New("begun")]
               /\ cur' = f
          /\ up' = FALSE /\ deadline' = 0 /\ connection' = "connecting"
       \/ /\ ~BeginDue
          /\ UNCHANGED <<feed, cur, up, deadline, connection>>
    /\ at' = "poll"
    /\ UNCHANGED <<wait, delay, hard, tainted, silent, stop>>

\* Line 113
Unusable(q) == q.error \/ q.closed

\* Lines 112-120: connection_done is set.
PollDone ==
    /\ at = "poll" /\ cur # None /\ ~up /\ feed[cur].thread = "done"
    /\ IF Unusable(feed[cur])
       THEN /\ Drop
            /\ connection' = IF feed[cur].closed THEN connection ELSE "disconnected"
            /\ at' = "report"
            /\ UNCHANGED silent
       ELSE /\ up' = TRUE /\ connection' = "connected_waiting_for_bar"
            /\ silent' = FALSE /\ at' = "check"
            /\ UNCHANGED <<feed, cur, wait, delay>>
    /\ deadline' = 0                      \* only read while connecting
    /\ UNCHANGED <<hard, tainted, stop>>

\* Mutant: an attempt past its deadline is let go and another one may begin.
PollPendingLetsGo ==
    /\ at = "poll" /\ cur # None /\ ~up /\ feed[cur].thread # "done"
    /\ IF deadline >= 1 THEN Drop /\ connection' = "disconnected"
       ELSE UNCHANGED <<feed, cur, up, wait, delay, connection>>
    /\ at' = "report"
    /\ UNCHANGED <<deadline, hard, tainted, silent, stop>>

\* Lines 121-131: still connecting.  The cancelled attempt is kept until its
\* thread ends; when that takes too long the process gives itself up.
PollPending ==
    /\ at = "poll" /\ cur # None /\ ~up /\ feed[cur].thread # "done"
    /\ \/ /\ deadline >= 1 /\ ~feed[cur].closed
          /\ feed' = [feed EXCEPT ![cur] = Closed(@)]
          /\ connection' = "disconnected" /\ at' = "report"
       \/ /\ deadline = 2 /\ feed[cur].closed
          /\ connection' = "stopped" /\ at' = "failed"
          /\ UNCHANGED feed
       \/ /\ deadline = 0 \/ (deadline = 1 /\ feed[cur].closed)
          /\ at' = "report"
          /\ UNCHANGED <<feed, connection>>
    /\ UNCHANGED <<cur, up, deadline, wait, delay, hard, tainted, silent, stop>>

\* Lines 133 and 161: a connected feed is read; without one the loop waits.
PollOther ==
    /\ at = "poll" /\ (cur = None \/ up)
    /\ at' = IF up THEN "check" ELSE "report"
    /\ UNCHANGED <<feed, cur, up, deadline, wait, delay, connection, hard, tainted,
                   silent, stop>>

\* Lines 144-154: an exception; only a provider error is retriable.
Fails(isHard) ==
    /\ Drop
    /\ hard' = (hard \/ isHard)
    /\ connection' = "disconnected" /\ at' = "report"

\* Mutant: the overflow is looked at when there is nothing else to do.
CheckWhenIdle ==
    /\ at = "check"
    /\ IF feed[cur].lost /\ feed[cur].queue = <<>>
       THEN Fails(TRUE)
       ELSE at' = "get" /\ UNCHANGED <<feed, cur, up, wait, delay, hard, connection>>
    /\ UNCHANGED <<deadline, tainted, silent, stop>>

\* Lines 136-137
CheckOverflow ==
    /\ at = "check"
    /\ IF feed[cur].lost
       THEN Fails(TRUE)
       ELSE at' = "get" /\ UNCHANGED <<feed, cur, up, wait, delay, hard, connection>>
    /\ UNCHANGED <<deadline, tainted, silent, stop>>

\* Lines 138-143: one event, or none within half a second.
Get ==
    /\ at = "get"
    /\ \/ /\ feed[cur].queue = <<>>
          /\ at' = "health"
          /\ UNCHANGED <<feed, cur, up, wait, delay, hard, connection, tainted, silent>>
       \/ /\ feed[cur].queue # <<>>
          /\ LET e == Head(feed[cur].queue)
             IN  /\ silent' = e.old
                 /\ tainted' = (tainted \/ e.late)
                 /\ IF e.kind \in {"error", "invalid"}
                    THEN Fails(e.kind = "invalid")
                    ELSE /\ feed' = [feed EXCEPT ![cur].queue = Tail(@)]
                         /\ connection' \in IF e.kind = "bar"
                                            THEN {"streaming", "data_review"}
                                            ELSE {connection}
                         /\ at' = "health"
                         /\ UNCHANGED <<cur, up, wait, delay, hard>>
    /\ UNCHANGED <<deadline, stop>>

\* check_health: what becomes of service.connection, and the verdict.  The
\* price timeout is left to chance.
Checked == connection \in {"streaming", "data_review", "connected_waiting_for_bar"}
Healthy == ~(Checked /\ silent)

\* Lines 155-160
Health ==
    /\ at = "health"
    /\ \/ /\ feed[cur].client # "live" \/ ~Healthy
          /\ Drop /\ connection' = "disconnected"
       \/ /\ feed[cur].client = "live" /\ Healthy
          /\ connection' \in IF Checked THEN {connection, "data_review"} ELSE {connection}
          /\ delay' \in {delay, BaseDelay}      \* connected for 300 s or not
          /\ UNCHANGED <<feed, cur, up, wait>>
    /\ at' = "report"
    /\ UNCHANGED <<deadline, hard, tainted, silent, stop>>

\* Lines 163-177: when a report is due, the audit may fail, and snapshot()
\* calls check_health itself.
Report ==
    /\ at = "report"
    /\ at' = "top"
    /\ \/ UNCHANGED <<hard, connection>>
       \/ /\ hard' \in {hard, TRUE}
          /\ connection' \in IF ~Healthy THEN {"disconnected"}
                             ELSE IF Checked THEN {connection, "data_review"}
                             ELSE {connection}
    /\ UNCHANGED <<feed, cur, up, deadline, wait, delay, tainted, silent, stop>>

\* Mutant: STOP is only honoured between two attempts.
LeaveWhenIdle ==
    /\ at = "top" /\ stop /\ cur = None
    /\ at' = "exited" /\ connection' = "stopped"
    /\ UNCHANGED <<feed, cur, up, deadline, wait, delay, hard, tainted, silent, stop>>

\* Lines 99 and 178-188
Leave ==
    /\ at = "top" /\ stop
    /\ at' = "exited" /\ connection' = "stopped"
    /\ feed' = IF cur = None THEN feed ELSE [feed EXCEPT ![cur] = Closed(@)]
    /\ UNCHANGED <<cur, up, deadline, wait, delay, hard, tainted, silent, stop>>

\* The unit's Restart=on-failure: every thread of the old process is gone.
Restart ==
    /\ at = "failed"
    /\ feed' = [f \in Feeds |-> New("idle")]
    /\ cur' = None /\ up' = FALSE /\ at' = "top" /\ deadline' = 0
    /\ wait' = 0 /\ delay' = BaseDelay /\ connection' = "starting" /\ silent' = FALSE
    /\ UNCHANGED <<hard, stop, tainted>>

Supervise == Top \/ PollDone \/ PollPending \/ PollOther \/ CheckOverflow
             \/ Get \/ Health \/ Report \/ Leave \/ Restart
Threads == \E f \in Feeds : Create(f) \/ Subscribe(f) \/ StartClient(f)
             \/ ConnectFails(f) \/ Finally(f) \/ ConnectionDone(f) \/ Terminate(f)
Provider == \E f \in Feeds : LinkLost(f) \/ \E k \in Kinds : Callback(f, k)

Next == Supervise \/ Threads \/ Provider
        \/ GrowSilent \/ DeadlinePasses \/ RetryComes \/ RequestStop

Spec == Init /\ [][Next]_vars

\* The supervisor's loop and the clock go on, and a terminate call returns.
\* Nothing is assumed of the SDK's connecting calls, of the provider or of the
\* operator.
FairSpec == Spec /\ WF_vars(Supervise) /\ \A f \in Feeds : WF_vars(Terminate(f))
                 /\ WF_vars(DeadlinePasses) /\ WF_vars(RetryComes)

-----------------------------------------------------------------------------

\* "A stuck SDK must not spawn an unbounded number of connectors"
\* (continuous_paper.py:124): whatever the SDK does, one thread connects.
Connecting(f) == feed[f].thread \notin {"idle", "done"}
OneConnector == \A f, g \in Feeds : Connecting(f) /\ Connecting(g) => f = g

\* An attempt that was cancelled is never used as a connection, even when its
\* thread succeeds at the moment the deadline passes.
CancelledNotUsed == up /\ at \notin {"exited", "failed"} => ~feed[cur].closed

\* The gap of a queue overflow is never bridged: no event received after a lost
\* one is processed, although the queue empties while the supervisor works.
NothingAfterLoss == ~tainted

\* An overflow is noticed however busy the provider keeps the queue: the service
\* halts for good or the feed is let go, it never streams on with a hole.
LossNoticed ==
    \A f \in Feeds : (f = cur /\ up /\ feed[f].lost) ~> (hard \/ f # cur \/ stop)

\* "leaves STOP responsive": STOP ends the process, a hung SDK call or not.
StopEnds == stop ~> at = "exited"

\* No attempt is waited for for ever: it connects, is given up, or takes the
\* process with it.
AttemptEnds == (cur # None /\ ~up) ~> (cur = None \/ up \/ at = "exited")

\* The client of a feed that was let go is terminated, whichever side noticed
\* the other first (feed.py:41 and 86).
DroppedEnds ==
    \A f \in Feeds :
        (f # cur /\ feed[f].client # "none") ~> (feed[f].client = "none" \/ f = cur)

\* Unless it is halted or stopped, the service always has a feed again.
TriesAgain == (cur = None) ~> (cur # None \/ hard \/ stop)

\* The supervisor never waits for ever, for an SDK call, for a feed or for STOP,
\* and never streams on past a lost event.
NeverStuck == AttemptEnds /\ TriesAgain /\ StopEnds /\ LossNoticed

\* A feed that is silent for longer than heartbeat_timeout_seconds is replaced
\* or heard again.
SilenceEnds == (up /\ silent) ~> (~silent \/ ~up \/ hard \/ stop)
===============================================================================
