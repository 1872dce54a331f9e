------------------------ MODULE FeedSupervisorProofs ------------------------
(***************************************************************************)
(* The safety of the feed supervisor, for any number of feeds, any queue   *)
(* capacity and any delays.                                                *)
(***************************************************************************)
EXTENDS FeedSupervisor, TLAPS

Thread == {"idle", "begun", "subscribing", "starting", "finally", "settled", "done"}
FeedType == [thread : Thread, closed : BOOLEAN, error : BOOLEAN,
             client : {"none", "open", "live", "dead"},
             queue : Seq(Event), lost : BOOLEAN, doomed : BOOLEAN]

\* The part of TypeOK the argument needs.
Types ==
    /\ feed \in [Feeds -> FeedType]
    /\ cur \in Feeds \cup {None}
    /\ up \in BOOLEAN /\ tainted \in BOOLEAN

Reading == at \in {"check", "get", "health"} => up /\ cur \in Feeds

\* Every attempt but the current one has ended; a connected one has ended too.
OthersEnded ==
    /\ \A f \in Feeds : Connecting(f) => f = cur /\ ~up
    /\ up => cur \in Feeds /\ feed[cur].thread = "done"

\* A late event stands in the queue of a feed that knows of its loss only.
LateIsLost ==
    \A f \in Feeds : ~feed[f].lost =>
        \A i \in DOMAIN feed[f].queue : ~feed[f].queue[i].late

\* Between the test of the overflow and the take the head is not a late one:
\* a loss in between finds the queue full.
HeadIsSafe ==
    at = "get" =>
        /\ feed[cur].lost => feed[cur].queue # <<>>
        /\ feed[cur].queue # <<>> => ~Head(feed[cur].queue).late

\* The inductive invariant.
FInv ==
    /\ Types
    /\ Reading
    /\ OthersEnded
    /\ CancelledNotUsed
    /\ LateIsLost
    /\ HeadIsSafe
    /\ NothingAfterLoss

USE SupervisorAssumption, NoneAssumption

LEMMA NewType ==
  ASSUME NEW t \in Thread
  PROVE  New(t) \in FeedType /\ New(t).queue = <<>> /\ New(t).thread = t
  BY DEF New, FeedType

LEMMA ClosedType ==
  ASSUME NEW q \in FeedType
  PROVE  /\ Closed(q) \in FeedType
         /\ Closed(q).thread = q.thread /\ Closed(q).closed
         /\ Closed(q).queue = <<>> /\ ~Closed(q).lost
<1> DEFINE d == q.doomed \/ q.thread = "done"
           e == [q EXCEPT !.closed = TRUE, !.queue = <<>>, !.lost = FALSE, !.error = FALSE]
<1>1. d \in BOOLEAN
  BY DEF FeedType
<1>2. Closed(q) = [e EXCEPT !.doomed = d]
  BY DEF Closed, FeedType
<1>3. /\ e \in FeedType /\ e.thread = q.thread /\ e.closed /\ e.queue = <<>>
      /\ ~e.lost
  <2> DEFINE a == [q EXCEPT !.closed = TRUE, !.lost = FALSE, !.error = FALSE]
  <2>1. a \in FeedType /\ a.thread = q.thread /\ a.closed /\ ~a.lost
    BY DEF FeedType
  <2>2. <<>> \in Seq(Event)
    OBVIOUS
  <2>3. e = [a EXCEPT !.queue = <<>>]
    BY DEF FeedType
  <2> HIDE DEF a, e
  <2> QED
    BY <2>1, <2>2, <2>3 DEF FeedType
<1> HIDE DEF d, e
<1>4. [e EXCEPT !.doomed = d] \in FeedType
  BY <1>1, <1>3 DEF FeedType
<1>5. /\ [e EXCEPT !.doomed = d].thread = e.thread
      /\ [e EXCEPT !.doomed = d].closed = e.closed
      /\ [e EXCEPT !.doomed = d].queue = e.queue
      /\ [e EXCEPT !.doomed = d].lost = e.lost
  BY <1>3 DEF FeedType
<1> QED
  BY <1>2, <1>3, <1>4, <1>5

\* The bounded queue: nothing is put into a closed feed's, a full one only
\* notes the loss, and no other field changes.
LEMMA PutType ==
  ASSUME NEW q \in FeedType, NEW e \in Event
  PROVE  /\ Put(q, e) \in FeedType
         /\ Put(q, e).thread = q.thread /\ Put(q, e).closed = q.closed
         /\ \/ Put(q, e) = q
            \/ Put(q, e).queue = Append(q.queue, e) /\ Put(q, e).lost = q.lost
            \/ /\ Put(q, e).queue = q.queue /\ Put(q, e).lost
               /\ Len(q.queue) >= Cap
<1>1. q.queue \in Seq(Event) /\ Append(q.queue, e) \in Seq(Event) /\ Len(q.queue) \in Nat
  BY DEF FeedType
<1>2. CASE q.closed
  BY <1>2 DEF Put
<1>3. CASE ~q.closed /\ Len(q.queue) < Cap
  <2>1. Put(q, e) = [q EXCEPT !.queue = Append(q.queue, e)]
    BY <1>3 DEF Put
  <2> QED
    BY <1>1, <2>1 DEF FeedType
<1>4. CASE ~q.closed /\ ~(Len(q.queue) < Cap)
  <2>1. Put(q, e) = [q EXCEPT !.lost = TRUE]
    BY <1>4 DEF Put
  <2>2. Len(q.queue) >= Cap
    BY <1>1, <1>4
  <2> QED
    BY <1>1, <2>1, <2>2 DEF FeedType
<1> QED
  BY <1>2, <1>3, <1>4

\* A step of a feed's own thread: it ends attempts and begins none, and leaves
\* the queue, the loss, the closing and the supervisor alone.
LEMMA ThreadStep ==
  ASSUME FInv, NEW f \in Feeds,
         Create(f) \/ Subscribe(f) \/ StartClient(f) \/ ConnectFails(f)
           \/ Finally(f) \/ ConnectionDone(f) \/ Terminate(f) \/ LinkLost(f)
  PROVE  FInv'
<1> DEFINE g == feed'[f]
<1>1. feed \in [Feeds -> FeedType] /\ feed[f] \in FeedType
  BY DEF FInv, Types
<1>2. /\ feed' \in [Feeds -> FeedType]
      /\ \A h \in Feeds : h # f => feed'[h] = feed[h]
      /\ g.queue = feed[f].queue /\ g.lost = feed[f].lost /\ g.closed = feed[f].closed
      /\ g.thread \notin {"idle", "done"} => feed[f].thread \notin {"idle", "done"}
      /\ feed[f].thread = "done" => g.thread = "done"
  <2>1. CASE Create(f)
    BY <1>1, <2>1 DEF FeedType, Thread, Create
  <2>2. CASE Subscribe(f)
    BY <1>1, <2>2 DEF FeedType, Thread, Subscribe
  <2>3. CASE StartClient(f)
    BY <1>1, <2>3 DEF FeedType, Thread, StartClient
  <2>4. CASE ConnectFails(f)
    BY <1>1, <2>4 DEF FeedType, Thread, ConnectFails
  <2>5. CASE Finally(f)
    BY <1>1, <2>5 DEF FeedType, Thread, Finally
  <2>6. CASE ConnectionDone(f)
    BY <1>1, <2>6 DEF FeedType, Thread, ConnectionDone
  <2>7. CASE Terminate(f)
    BY <1>1, <2>7 DEF FeedType, Thread, Terminate
  <2>8. CASE LinkLost(f)
    BY <1>1, <2>8 DEF FeedType, Thread, LinkLost
  <2> QED
    BY <2>1, <2>2, <2>3, <2>4, <2>5, <2>6, <2>7, <2>8
<1>3. UNCHANGED supervisor
  BY DEF Create, Subscribe, StartClient, ConnectFails, Finally, ConnectionDone,
     Terminate, LinkLost
<1>4. UNCHANGED <<cur, up, at, tainted>>
  BY <1>3 DEF supervisor
<1> HIDE DEF g
<1>5. \A h \in Feeds : /\ feed'[h].queue = feed[h].queue /\ feed'[h].lost = feed[h].lost
                       /\ feed'[h].closed = feed[h].closed
  BY <1>2 DEF g
<1>6. Types' /\ Reading'
  BY <1>2, <1>4 DEF FInv, Types, Reading
<1>7. OthersEnded'
  BY <1>2, <1>4 DEF FInv, OthersEnded, Connecting, g
<1>8. CancelledNotUsed' /\ LateIsLost' /\ NothingAfterLoss'
  BY <1>4, <1>5 DEF FInv, OthersEnded, CancelledNotUsed, LateIsLost, NothingAfterLoss
<1>9. HeadIsSafe'
  BY <1>4, <1>5 DEF FInv, Reading, HeadIsSafe
<1> QED
  BY <1>6, <1>7, <1>8, <1>9 DEF FInv

LEMMA CallbackStep ==
  ASSUME FInv, NEW f \in Feeds, NEW k \in Kinds, Callback(f, k)
  PROVE  FInv'
<1> DEFINE e == [kind |-> k, old |-> FALSE, late |-> feed[f].lost]
<1>1. feed \in [Feeds -> FeedType] /\ feed[f] \in FeedType
  BY DEF FInv, Types
<1>2. e \in Event
  BY <1>1 DEF Event, FeedType
<1>3. feed' = [feed EXCEPT ![f] = Put(feed[f], e)]
  BY DEF Callback
<1>4. UNCHANGED <<cur, up, at, tainted>>
  BY DEF Callback, supervisor
<1>0. e.late = feed[f].lost
  OBVIOUS
<1> HIDE DEF e
<1>5. /\ Put(feed[f], e) \in FeedType
      /\ Put(feed[f], e).thread = feed[f].thread
      /\ Put(feed[f], e).closed = feed[f].closed
      /\ \/ Put(feed[f], e) = feed[f]
         \/ /\ Put(feed[f], e).queue = Append(feed[f].queue, e)
            /\ Put(feed[f], e).lost = feed[f].lost
         \/ /\ Put(feed[f], e).queue = feed[f].queue /\ Put(feed[f], e).lost
            /\ Len(feed[f].queue) >= Cap
  BY <1>1, <1>2, PutType
<1>6. /\ feed' \in [Feeds -> FeedType] /\ feed'[f] = Put(feed[f], e)
      /\ \A h \in Feeds : h # f => feed'[h] = feed[h]
  BY <1>1, <1>3, <1>5
<1>7. \A h \in Feeds : feed'[h].thread = feed[h].thread /\ feed'[h].closed = feed[h].closed
  BY <1>5, <1>6
<1>8. Types' /\ Reading' /\ OthersEnded' /\ CancelledNotUsed' /\ NothingAfterLoss'
  BY <1>4, <1>6, <1>7 DEF FInv, Types, Reading, OthersEnded, Connecting,
     CancelledNotUsed, NothingAfterLoss
<1>9. LateIsLost'
  <2> SUFFICES ASSUME NEW h \in Feeds, ~feed'[h].lost, NEW i \in DOMAIN feed'[h].queue
               PROVE  ~feed'[h].queue[i].late
    BY DEF LateIsLost
  <2>1. CASE h # f
    BY <2>1, <1>6 DEF FInv, LateIsLost
  <2>2. CASE h = f /\ feed'[f].queue = Append(feed[f].queue, e) /\ feed'[f].lost = feed[f].lost
    <3>1. feed[f].queue \in Seq(Event) /\ Len(feed[f].queue) \in Nat
      BY <1>1 DEF FeedType
    <3>2. ~feed[f].lost /\ ~e.late
      BY <2>2, <1>0
    <3>3. i \in 1..(Len(feed[f].queue) + 1)
      BY <2>2, <3>1, <1>2
    <3>4. CASE i = Len(feed[f].queue) + 1
      BY <2>2, <3>1, <3>2, <3>4, <1>2
    <3>5. CASE i \in 1..Len(feed[f].queue)
      <4>1. feed'[h].queue[i] = feed[f].queue[i]
        BY <2>2, <3>1, <3>5, <1>2
      <4>2. i \in DOMAIN feed[f].queue
        BY <3>1, <3>5
      <4> QED
        BY <4>1, <4>2, <3>2 DEF FInv, LateIsLost
    <3> QED
      BY <3>1, <3>3, <3>4, <3>5
  <2>3. CASE h = f /\ feed'[f] = feed[f]
    BY <2>3 DEF FInv, LateIsLost
  <2>4. ~(h = f /\ feed'[f].queue = feed[f].queue /\ feed'[f].lost)
    OBVIOUS
  <2> QED
    BY <2>1, <2>2, <2>3, <2>4, <1>5, <1>6
<1>10. HeadIsSafe'
  <2> SUFFICES ASSUME at = "get" PROVE HeadIsSafe'
    BY <1>4 DEF HeadIsSafe
  <2>1. cur \in Feeds /\ cur' = cur
    BY <1>4 DEF FInv, Reading
  <2>2. CASE cur # f
    BY <2>1, <2>2, <1>4, <1>6 DEF FInv, HeadIsSafe
  <2>3. CASE cur = f
    <3>1. feed[f].queue \in Seq(Event)
      BY <1>1 DEF FeedType
    <3>2. /\ feed[f].lost => feed[f].queue # <<>>
          /\ feed[f].queue # <<>> => ~Head(feed[f].queue).late
      BY <2>3 DEF FInv, HeadIsSafe
    <3>3. CASE feed'[f].queue = Append(feed[f].queue, e) /\ feed'[f].lost = feed[f].lost
      <4>1. CASE feed[f].queue = <<>>
        <5>1. ~feed[f].lost /\ ~e.late
          BY <4>1, <3>2, <1>0
        <5>2. Head(feed'[f].queue) = e
          BY <3>3, <4>1, <1>2
        <5> QED
          BY <5>1, <5>2, <3>3, <2>1, <2>3 DEF HeadIsSafe
      <4>2. CASE feed[f].queue # <<>>
        <5>1. Head(Append(feed[f].queue, e)) = Head(feed[f].queue)
          BY <3>1, <4>2, <1>2
        <5>2. Append(feed[f].queue, e) # <<>>
          BY <3>1, <1>2
        <5> QED
          BY <5>1, <5>2, <3>2, <3>3, <4>2, <2>1, <2>3 DEF HeadIsSafe
      <4> QED
        BY <4>1, <4>2
    <3>4. CASE feed'[f].queue = feed[f].queue /\ feed'[f].lost /\ Len(feed[f].queue) >= Cap
      <4>1. feed[f].queue # <<>>
        BY <3>1, <3>4
      <4> QED
        BY <4>1, <3>2, <3>4, <2>1, <2>3 DEF HeadIsSafe
    <3>5. CASE feed'[f] = feed[f]
      BY <3>5, <3>2, <2>1, <2>3 DEF HeadIsSafe
    <3> QED
      BY <3>3, <3>4, <3>5, <1>5, <1>6
  <2> QED
    BY <2>2, <2>3
<1> QED
  BY <1>8, <1>9, <1>10 DEF FInv

LEMMA SilentStep ==
  ASSUME FInv, GrowSilent
  PROVE  FInv'
<1> DEFINE q == feed[cur].queue
           aged == [i \in DOMAIN q |-> [q[i] EXCEPT !.old = TRUE]]
<1>1. /\ feed \in [Feeds -> FeedType] /\ cur \in Feeds /\ feed[cur] \in FeedType
      /\ q \in Seq(Event)
  BY DEF FInv, Types, GrowSilent, FeedType
<1>2. /\ feed' = [feed EXCEPT ![cur].queue = aged]
      /\ UNCHANGED <<cur, up, at, tainted>>
  BY DEF GrowSilent, supervisor
<1>3. ASSUME NEW i \in DOMAIN q
      PROVE  aged[i] \in Event /\ aged[i].late = q[i].late
  <2>1. q[i] \in Event
    BY <1>1
  <2>2. aged[i] = [q[i] EXCEPT !.old = TRUE]
    OBVIOUS
  <2> QED
    BY <2>1, <2>2 DEF Event
<1>4. aged \in Seq(Event) /\ DOMAIN aged = DOMAIN q /\ Len(aged) = Len(q)
  <2>1. DOMAIN q = 1..Len(q) /\ Len(q) \in Nat
    BY <1>1
  <2>2. aged \in [1..Len(q) -> Event]
    BY <2>1, <1>3
  <2> HIDE DEF aged
  <2> QED
    BY <2>1, <2>2
<1> HIDE DEF aged
<1>5. /\ feed' \in [Feeds -> FeedType]
      /\ feed'[cur].queue = aged /\ feed'[cur].lost = feed[cur].lost
      /\ feed'[cur].thread = feed[cur].thread /\ feed'[cur].closed = feed[cur].closed
      /\ \A h \in Feeds : h # cur => feed'[h] = feed[h]
  BY <1>1, <1>2, <1>4 DEF FeedType
<1>6. Types' /\ Reading' /\ OthersEnded' /\ CancelledNotUsed' /\ NothingAfterLoss'
  BY <1>2, <1>5 DEF FInv, Types, Reading, OthersEnded, Connecting,
     CancelledNotUsed, NothingAfterLoss
<1>7. LateIsLost'
  BY <1>2, <1>3, <1>4, <1>5 DEF FInv, LateIsLost, q
<1>8. HeadIsSafe'
  <2>1. q # <<>> => Head(q) = q[1] /\ 1 \in DOMAIN q
    BY <1>1
  <2>2. aged # <<>> => Head(aged) = aged[1] /\ q # <<>>
    BY <1>1, <1>4
  <2>3. q # <<>> => aged # <<>>
    BY <1>1, <1>4
  <2> QED
    BY <2>1, <2>2, <2>3, <1>1, <1>2, <1>3, <1>5 DEF FInv, HeadIsSafe
<1> QED
  BY <1>6, <1>7, <1>8 DEF FInv

\* Dropping the feed: it has ended, and its queue is not read again.
LEMMA DropStep ==
  ASSUME FInv, cur \in Feeds, Drop, feed[cur].thread \in {"idle", "done"},
         at' \notin {"check", "get", "health"}, tainted' = FALSE
  PROVE  FInv'
<1>1. feed \in [Feeds -> FeedType] /\ feed[cur] \in FeedType
  BY DEF FInv, Types
<1>2. /\ feed' = [feed EXCEPT ![cur] = Closed(feed[cur])]
      /\ cur' = None /\ up' = FALSE
  BY DEF Drop
<1>3. /\ Closed(feed[cur]) \in FeedType
      /\ Closed(feed[cur]).thread = feed[cur].thread
      /\ Closed(feed[cur]).queue = <<>> /\ ~Closed(feed[cur]).lost
  BY <1>1, ClosedType
<1>4. /\ feed' \in [Feeds -> FeedType] /\ feed'[cur] = Closed(feed[cur])
      /\ \A h \in Feeds : h # cur => feed'[h] = feed[h]
  BY <1>1, <1>2, <1>3
<1>5. Types' /\ Reading' /\ CancelledNotUsed' /\ HeadIsSafe' /\ NothingAfterLoss'
  BY <1>2, <1>4 DEF Types, Reading, CancelledNotUsed, HeadIsSafe, NothingAfterLoss
<1>6. OthersEnded'
  BY <1>2, <1>3, <1>4 DEF FInv, OthersEnded, Connecting
<1>7. LateIsLost'
  BY <1>3, <1>4 DEF FInv, LateIsLost
<1> QED
  BY <1>5, <1>6, <1>7 DEF FInv

\* A step of the loop that leaves the feeds alone and does not go to "get".
LEMMA LoopStep ==
  ASSUME FInv, UNCHANGED <<feed, cur, up, tainted>>,
         at' \in {"check", "health"} => up /\ cur \in Feeds, at' # "get",
         at \notin {"exited", "failed"}
  PROVE  FInv'
  BY DEF FInv, Types, Reading, OthersEnded, Connecting, CancelledNotUsed,
     LateIsLost, HeadIsSafe, NothingAfterLoss

LEMMA SuperviseStep ==
  ASSUME FInv, Supervise
  PROVE  FInv'
<1>0. feed \in [Feeds -> FeedType] /\ tainted = FALSE
  BY DEF FInv, Types, NothingAfterLoss
<1>1. CASE Top
  <2>1. CASE BeginDue
    <3>1. PICK f \in Feeds : /\ Unused(f) /\ cur' = f
                             /\ feed' = [feed EXCEPT ![f] = New("begun")]
      BY <1>1, <2>1 DEF Top
    <3>2. /\ cur = None /\ up' = FALSE /\ at' = "poll" /\ tainted' = tainted
          /\ at = "top"
      BY <1>1, <2>1 DEF Top, BeginDue
    <3>3. New("begun") \in FeedType /\ New("begun").queue = <<>>
      BY NewType DEF Thread
    <3>4. /\ feed' \in [Feeds -> FeedType] /\ feed'[f].queue = <<>>
          /\ \A h \in Feeds : h # f => feed'[h] = feed[h]
      BY <1>0, <3>1, <3>3
    <3>5. Types' /\ Reading' /\ CancelledNotUsed' /\ HeadIsSafe' /\ NothingAfterLoss'
      BY <1>0, <3>1, <3>2, <3>4 DEF Types, Reading, CancelledNotUsed, HeadIsSafe,
         NothingAfterLoss
    <3>6. OthersEnded'
      BY <3>1, <3>2, <3>4 DEF FInv, OthersEnded, Connecting
    <3>7. LateIsLost'
      BY <3>4 DEF FInv, LateIsLost
    <3> QED
      BY <3>5, <3>6, <3>7 DEF FInv
  <2>2. CASE ~BeginDue
    BY <1>1, <2>2, LoopStep DEF Top
  <2> QED
    BY <2>1, <2>2
<1>2. CASE PollDone
  <2>1. cur \in Feeds /\ feed[cur].thread = "done" /\ at = "poll" /\ tainted' = tainted
    BY <1>2 DEF PollDone, FInv, Types
  <2>2. CASE Unusable(feed[cur])
    BY <1>0, <1>2, <2>1, <2>2, DropStep DEF PollDone
  <2>3. CASE ~Unusable(feed[cur])
    <3>1. /\ UNCHANGED <<feed, cur>> /\ up' = TRUE /\ at' = "check"
          /\ ~feed[cur].closed
      BY <1>2, <2>3 DEF PollDone, Unusable
    <3>2. Types' /\ Reading' /\ CancelledNotUsed' /\ HeadIsSafe' /\ NothingAfterLoss'
      BY <1>0, <2>1, <3>1 DEF FInv, Types, Reading, CancelledNotUsed, HeadIsSafe,
         NothingAfterLoss
    <3>3. OthersEnded' /\ LateIsLost'
      BY <2>1, <3>1 DEF FInv, OthersEnded, Connecting, LateIsLost
    <3> QED
      BY <3>2, <3>3 DEF FInv
  <2> QED
    BY <2>2, <2>3
<1>3. CASE PollPending
  <2>1. /\ cur \in Feeds /\ ~up /\ at = "poll"
        /\ UNCHANGED <<cur, up, tainted>> /\ at' \in {"report", "failed"}
    BY <1>3 DEF PollPending, FInv, Types
  <2>2. CASE feed' = [feed EXCEPT ![cur] = Closed(@)]
    <3>1. feed[cur] \in FeedType
      BY <1>0, <2>1
    <3>2. /\ Closed(feed[cur]) \in FeedType
          /\ Closed(feed[cur]).thread = feed[cur].thread
          /\ Closed(feed[cur]).queue = <<>>
      BY <3>1, ClosedType
    <3>3. /\ feed' \in [Feeds -> FeedType] /\ feed'[cur] = Closed(feed[cur])
          /\ \A h \in Feeds : h # cur => feed'[h] = feed[h]
      BY <1>0, <2>1, <2>2, <3>2
    <3>4. Types' /\ Reading' /\ CancelledNotUsed' /\ HeadIsSafe' /\ NothingAfterLoss'
      BY <1>0, <2>1, <3>3 DEF FInv, Types, Reading, CancelledNotUsed, HeadIsSafe,
         NothingAfterLoss
    <3>5. OthersEnded' /\ LateIsLost'
      BY <2>1, <3>2, <3>3 DEF FInv, OthersEnded, Connecting, LateIsLost
    <3> QED
      BY <3>4, <3>5 DEF FInv
  <2>3. CASE UNCHANGED feed
    BY <2>1, <2>3, LoopStep
  <2> QED
    BY <1>3, <2>2, <2>3 DEF PollPending
<1>4. CASE PollOther
  <2>1. up => cur \in Feeds
    BY DEF FInv, OthersEnded
  <2> QED
    BY <1>4, <2>1, LoopStep DEF PollOther
<1>5. CASE CheckOverflow
  <2>1. cur \in Feeds /\ up /\ feed[cur].thread = "done" /\ tainted' = tainted
        /\ at = "check"
    BY <1>5 DEF CheckOverflow, FInv, Reading, OthersEnded
  <2>2. CASE feed[cur].lost
    BY <1>0, <1>5, <2>1, <2>2, DropStep DEF CheckOverflow, Fails
  <2>3. CASE ~feed[cur].lost
    <3>1. UNCHANGED <<feed, cur, up>> /\ at' = "get"
      BY <1>5, <2>3 DEF CheckOverflow
    <3>2. \A i \in DOMAIN feed[cur].queue : ~feed[cur].queue[i].late
      BY <2>1, <2>3 DEF FInv, LateIsLost
    <3>3. feed[cur].queue \in Seq(Event)
      BY <1>0, <2>1 DEF FeedType
    <3>4. feed[cur].queue # <<>> => ~Head(feed[cur].queue).late
      BY <3>2, <3>3
    <3>5. HeadIsSafe'
      BY <3>1, <3>4, <2>3 DEF HeadIsSafe
    <3>6. Types' /\ Reading' /\ CancelledNotUsed' /\ NothingAfterLoss' /\ OthersEnded'
          /\ LateIsLost'
      BY <2>1, <3>1 DEF FInv, Types, Reading, CancelledNotUsed, NothingAfterLoss,
         OthersEnded, Connecting, LateIsLost
    <3> QED
      BY <3>5, <3>6 DEF FInv
  <2> QED
    BY <2>2, <2>3
<1>6. CASE Get
  <2>1. cur \in Feeds /\ up /\ feed[cur].thread = "done" /\ at = "get"
    BY <1>6 DEF Get, FInv, Reading, OthersEnded
  <2>2. CASE feed[cur].queue = <<>>
    BY <1>6, <2>1, <2>2, LoopStep DEF Get
  <2>3. CASE feed[cur].queue # <<>>
    <3> DEFINE e == Head(feed[cur].queue)
    <3>1. ~e.late /\ tainted' = FALSE
      BY <1>0, <1>6, <2>1, <2>3 DEF Get, FInv, HeadIsSafe
    <3>2. CASE e.kind \in {"error", "invalid"}
      BY <1>6, <2>1, <2>3, <3>1, <3>2, DropStep DEF Get, Fails
    <3>3. CASE e.kind \notin {"error", "invalid"}
      <4>1. /\ feed' = [feed EXCEPT ![cur].queue = Tail(feed[cur].queue)]
            /\ at' = "health" /\ UNCHANGED <<cur, up>>
        BY <1>6, <2>3, <3>3 DEF Get
      <4>2. /\ feed[cur] \in FeedType /\ feed[cur].queue \in Seq(Event)
            /\ Tail(feed[cur].queue) \in Seq(Event)
        BY <1>0, <2>1, <2>3 DEF FeedType
      <4>3. /\ feed' \in [Feeds -> FeedType]
            /\ feed'[cur].queue = Tail(feed[cur].queue)
            /\ feed'[cur].lost = feed[cur].lost /\ feed'[cur].thread = feed[cur].thread
            /\ feed'[cur].closed = feed[cur].closed
            /\ \A h \in Feeds : h # cur => feed'[h] = feed[h]
        BY <1>0, <2>1, <4>1, <4>2 DEF FeedType
      <4>4. Types' /\ Reading' /\ HeadIsSafe' /\ NothingAfterLoss'
        BY <2>1, <3>1, <4>1, <4>3 DEF FInv, Types, Reading, HeadIsSafe, NothingAfterLoss
      <4>5. OthersEnded' /\ CancelledNotUsed'
        BY <2>1, <4>1, <4>3 DEF FInv, OthersEnded, Connecting, CancelledNotUsed
      <4>6. LateIsLost'
        <5> SUFFICES ASSUME NEW h \in Feeds, ~feed'[h].lost,
                            NEW i \in DOMAIN feed'[h].queue
                     PROVE  ~feed'[h].queue[i].late
          BY DEF LateIsLost
        <5>1. CASE h # cur
          BY <5>1, <4>3 DEF FInv, LateIsLost
        <5>2. CASE h = cur
          <6>1. i + 1 \in DOMAIN feed[cur].queue
                  /\ feed'[h].queue[i] = feed[cur].queue[i + 1]
            BY <5>2, <4>2, <4>3, <2>3
          <6> QED
            BY <6>1, <5>2, <4>3, <2>1 DEF FInv, LateIsLost
        <5> QED
          BY <5>1, <5>2
      <4> QED
        BY <4>4, <4>5, <4>6 DEF FInv
    <3> QED
      BY <3>2, <3>3
  <2> QED
    BY <2>2, <2>3
<1>7. CASE Health
  <2>1. cur \in Feeds /\ up /\ feed[cur].thread = "done" /\ tainted' = tainted
        /\ at = "health" /\ at' = "report"
    BY <1>7 DEF Health, FInv, Reading, OthersEnded
  <2>2. CASE Drop
    BY <1>0, <2>1, <2>2, DropStep
  <2>3. CASE UNCHANGED <<feed, cur, up>>
    BY <2>1, <2>3, LoopStep
  <2> QED
    BY <1>7, <2>2, <2>3 DEF Health
<1>8. CASE Report
  BY <1>8, LoopStep DEF Report
<1>9. CASE Leave
  <2>1. UNCHANGED <<cur, up, tainted>> /\ at' = "exited"
    BY <1>9 DEF Leave
  <2>2. CASE cur = None
    BY <1>9, <2>1, <2>2, LoopStep DEF Leave
  <2>3. CASE cur # None
    <3>1. cur \in Feeds /\ feed[cur] \in FeedType
      BY <1>0, <2>3 DEF FInv, Types
    <3>2. /\ Closed(feed[cur]) \in FeedType
          /\ Closed(feed[cur]).thread = feed[cur].thread
          /\ Closed(feed[cur]).queue = <<>>
      BY <3>1, ClosedType
    <3>3. /\ feed' \in [Feeds -> FeedType] /\ feed'[cur] = Closed(feed[cur])
          /\ \A h \in Feeds : h # cur => feed'[h] = feed[h]
      BY <1>0, <1>9, <2>3, <3>1, <3>2 DEF Leave
    <3>4. Types' /\ Reading' /\ CancelledNotUsed' /\ HeadIsSafe' /\ NothingAfterLoss'
      BY <2>1, <3>3 DEF FInv, Types, Reading, CancelledNotUsed, HeadIsSafe,
         NothingAfterLoss
    <3>5. OthersEnded' /\ LateIsLost'
      BY <2>1, <3>2, <3>3 DEF FInv, OthersEnded, Connecting, LateIsLost
    <3> QED
      BY <3>4, <3>5 DEF FInv
  <2> QED
    BY <2>2, <2>3
<1>10. CASE Restart
  <2>1. /\ cur' = None /\ up' = FALSE /\ at' = "top" /\ tainted' = tainted
        /\ feed' = [f \in Feeds |-> New("idle")]
    BY <1>10 DEF Restart
  <2>2. /\ feed' \in [Feeds -> FeedType]
        /\ \A f \in Feeds : feed'[f].queue = <<>> /\ feed'[f].thread = "idle"
    BY <2>1, NewType DEF Thread
  <2>3. Types' /\ Reading' /\ OthersEnded' /\ CancelledNotUsed' /\ HeadIsSafe'
        /\ NothingAfterLoss'
    BY <1>0, <2>1, <2>2 DEF Types, Reading, OthersEnded, Connecting,
       CancelledNotUsed, HeadIsSafe, NothingAfterLoss
  <2>4. LateIsLost'
    BY <2>2 DEF LateIsLost
  <2> QED
    BY <2>3, <2>4 DEF FInv
<1> QED
  BY <1>1, <1>2, <1>3, <1>4, <1>5, <1>6, <1>7, <1>8, <1>9, <1>10 DEF Supervise

LEMMA FInductive == FInv /\ [Next]_vars => FInv'
<1> SUFFICES ASSUME FInv, [Next]_vars PROVE FInv'
  OBVIOUS
<1>1. CASE Supervise
  BY <1>1, SuperviseStep
<1>2. CASE Threads
  BY <1>2, ThreadStep DEF Threads
<1>3. CASE Provider
  BY <1>3, ThreadStep, CallbackStep DEF Provider
<1>4. CASE GrowSilent
  BY <1>4, SilentStep
<1>5. CASE DeadlinePasses \/ RetryComes \/ RequestStop \/ UNCHANGED vars
  <2>1. UNCHANGED <<feed, cur, up, at, tainted>>
    BY <1>5 DEF DeadlinePasses, RetryComes, RequestStop, supervisor, vars
  <2> QED
    BY <2>1 DEF FInv, Types, Reading, OthersEnded, Connecting, CancelledNotUsed,
       LateIsLost, HeadIsSafe, NothingAfterLoss
<1> QED
  BY <1>1, <1>2, <1>3, <1>4, <1>5 DEF Next

LEMMA FInitially == Init => FInv
<1> SUFFICES ASSUME Init PROVE FInv
  OBVIOUS
<1>1. /\ feed \in [Feeds -> FeedType]
      /\ \A f \in Feeds : feed[f].queue = <<>> /\ feed[f].thread = "idle"
  BY NewType DEF Init, Thread
<1>2. cur = None /\ up = FALSE /\ at = "top" /\ tainted = FALSE
  BY DEF Init
<1>3. Types /\ Reading /\ OthersEnded /\ CancelledNotUsed /\ HeadIsSafe /\ NothingAfterLoss
  BY <1>1, <1>2 DEF Types, Reading, OthersEnded, Connecting,
     CancelledNotUsed, HeadIsSafe, NothingAfterLoss
<1>4. LateIsLost
  BY <1>1 DEF LateIsLost
<1> QED
  BY <1>3, <1>4 DEF FInv

\* One connecting thread at a time, for any number of feeds and any SDK.
THEOREM OneConnectorAlways == Spec => []OneConnector
<1>1. FInv => OneConnector
  BY DEF FInv, OthersEnded, OneConnector
<1> QED
  BY <1>1, FInitially, FInductive, PTL DEF Spec

\* A cancelled attempt is never taken for a connection.
THEOREM CancelledNever == Spec => []CancelledNotUsed
<1>1. FInv => CancelledNotUsed
  BY DEF FInv
<1> QED
  BY <1>1, FInitially, FInductive, PTL DEF Spec

\* No event behind a lost one is processed, for any capacity of the queue.
THEOREM NothingAfterLossEver == Spec => []NothingAfterLoss
<1>1. FInv => NothingAfterLoss
  BY DEF FInv
<1> QED
  BY <1>1, FInitially, FInductive, PTL DEF Spec
=============================================================================
