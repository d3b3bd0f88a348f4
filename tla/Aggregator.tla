----------------------------- MODULE Aggregator -----------------------------
(***************************************************************************)
(* aggregation/aggregator.py: messages of a client are collected in an     *)
(* open bucket, which is closed by a late message or by the passage of     *)
(* time. Operations are atomic here.                                       *)
(*                                                                         *)
(* Every operation takes the time `at` its caller read. The webhook reads  *)
(* it once for all messages of a body and may be slow to use it, so `at`   *)
(* lags behind the clock; the webhook's readings never go back.            *)
(***************************************************************************)
EXTENDS Integers, Sequences

CONSTANTS
    Clients,      \* client ids
    Inactivity,   \* inactivity_seconds
    MaxDuration,  \* max_duration_seconds
    MaxLag,       \* bound: how stale the time of an operation may be
    MaxMessages,  \* bound: messages that arrive
    LastArrival,  \* bound: no message is added with a later time
    MaxTime       \* bound: the clock stops

\* Settings: both windows are positive, and max_duration is the longer one.
ASSUME AggregatorAssumption ==
    /\ {Inactivity, MaxDuration} \subseteq Nat \ {0}
    /\ Inactivity <= MaxDuration
    /\ {MaxLag, MaxMessages, LastArrival, MaxTime} \subseteq Nat

VARIABLES
    open,      \* _open: the bucket of every client, NoBucket if it has none
    closed,    \* the AggregatedRequests handed out so far
    now,       \* the clock
    lastAdd,   \* the latest time a message was added with
    arrived,   \* number of messages added
    running    \* no graceful shutdown yet

vars == <<open, closed, now, lastAdd, arrived, running>>

Message == [id : Nat, order : Nat, at : Nat]

\* OpenBucket and AggregatedRequest have the same fields.
Bucket == [request_id : Nat, client_id : Clients, started_at : Nat,
           last_at : Nat, messages : Seq(Message)]

NewBucket(c, id, at) ==
    [request_id |-> id, client_id |-> c, started_at |-> at, last_at |-> at,
     messages |-> << >>]

NoBucket(c) == NewBucket(c, 0, 0)

Present(b) == b.messages # << >>

\* Mutant: the windows include their end.
ActiveAtTheEnd(b, at) ==
    /\ at - b.last_at <= Inactivity
    /\ at - b.started_at <= MaxDuration

\* _active: inside both windows.
Active(b, at) ==
    /\ at - b.last_at < Inactivity
    /\ at - b.started_at < MaxDuration

\* Mutant: order is off by one.
OrderOffByOne(b, id, at) ==
    [b EXCEPT !.messages = Append(@, [id |-> id, order |-> Len(b.messages) - 1,
                                      at |-> at]),
              !.last_at = at]

\* The tail of add: the message gets its position as order.
WithMessage(b, id, at) ==
    [b EXCEPT !.messages = Append(@, [id |-> id, order |-> Len(b.messages),
                                      at |-> at]),
              !.last_at = at]

\* add(client_id, message, now). A new bucket's id is fresh; the number of its
\* first message serves.
Add(c, at) ==
    /\ running
    /\ arrived < MaxMessages
    /\ arrived' = arrived + 1
    /\ lastAdd' = at
    /\ LET joins == Present(open[c]) /\ Active(open[c], at)
           bucket == IF joins THEN open[c] ELSE NewBucket(c, arrived + 1, at)
       IN  /\ open' = [open EXCEPT ![c] = WithMessage(bucket, arrived + 1, at)]
           /\ closed' = IF Present(open[c]) /\ ~joins
                        THEN closed \cup {open[c]} ELSE closed
    /\ UNCHANGED <<now, running>>

\* Mutant: a bucket taken from _open is not handed out.
EmitLoses(cs) ==
    /\ closed' = closed
    /\ open' = [c \in Clients |-> IF c \in cs THEN NoBucket(c) ELSE open[c]]

\* _emit for every client of cs.
Emit(cs) ==
    /\ closed' = closed \cup {open[c] : c \in cs}
    /\ open' = [c \in Clients |-> IF c \in cs THEN NoBucket(c) ELSE open[c]]

\* Mutant: every bucket is due.
FlushActiveToo(at) ==
    LET due == {c \in Clients : Present(open[c])}
    IN  /\ running
        /\ due # {}
        /\ Emit(due)
        /\ UNCHANGED <<now, lastAdd, arrived, running>>

\* flush_due(now).
FlushDue(at) ==
    LET due == {c \in Clients : Present(open[c]) /\ ~Active(open[c], at)}
    IN  /\ running
        /\ due # {}
        /\ Emit(due)
        /\ UNCHANGED <<now, lastAdd, arrived, running>>

\* flush_all(). Nothing in src/ calls it; its comment has it called "on graceful
\* shutdown", and running' = FALSE is the end of that caller.
FlushAll ==
    /\ running
    /\ running' = FALSE
    /\ Emit({c \in Clients : Present(open[c])})
    /\ UNCHANGED <<now, lastAdd, arrived>>

Tick ==
    /\ now < MaxTime
    /\ now' = now + 1
    /\ UNCHANGED <<open, closed, lastAdd, arrived, running>>

Init ==
    /\ open = [c \in Clients |-> NoBucket(c)]
    /\ closed = {}
    /\ now = 0
    /\ lastAdd = 0
    /\ arrived = 0
    /\ running = TRUE

Next ==
    \/ \E c \in Clients, at \in lastAdd .. now :
          now - at <= MaxLag /\ at <= LastArrival /\ Add(c, at)
    \/ \E at \in 0 .. now : now - at <= MaxLag /\ FlushDue(at)
    \/ FlushAll
    \/ Tick

Spec == Init /\ [][Next]_vars

\* Time passes, and the flush worker keeps calling flush_due.
Fairness ==
    /\ WF_vars(Tick)
    /\ WF_vars(\E at \in 0 .. now : now - at <= MaxLag /\ FlushDue(at))

LiveSpec == Spec /\ Fairness

-----------------------------------------------------------------------------
(* Properties. *)

OpenBuckets == {b \in {open[c] : c \in Clients} : Present(b)}

Buckets == closed \cup OpenBuckets

\* Type invariant of the aggregator.
TypeOK ==
    /\ open \in [Clients -> Bucket]
    /\ closed \subseteq Bucket
    /\ now \in Nat /\ lastAdd \in Nat /\ arrived \in Nat
    /\ running \in BOOLEAN

\* FR-AGG-01 and FR-AGG-03 for one bucket: successive messages are less than
\* the inactivity window apart, and all are less than the maximum duration
\* after the first.
InWindows(b) ==
    /\ b.messages[1].at = b.started_at
    /\ \A i \in 1 .. Len(b.messages) :
          b.messages[i].at - b.started_at < MaxDuration
    /\ \A i \in 1 .. Len(b.messages) - 1 :
          b.messages[i + 1].at - b.messages[i].at \in 0 .. Inactivity - 1

\* No bucket, open or closed, ever spans more than its windows, although flush
\* and add may use times that are out of order.
WindowsRespected == \A b \in Buckets : InWindows(b)

\* No message is lost, delivered twice or put in another client's bucket on
\* the way from add to a closed bucket, and `order` is its position.
EveryMessageOnce ==
    \A n \in 1 .. arrived :
        \E b \in Buckets : \E i \in DOMAIN b.messages :
            /\ b.messages[i].id = n
            /\ b.messages[i].order = i - 1
            /\ \A d \in Buckets : \A j \in DOMAIN d.messages :
                  d.messages[j].id = n => d = b /\ j = i

\* FR-AGG-01: a request is not split early. When a client's next bucket starts,
\* none of the earlier ones could still have taken the message, but for the lag
\* of the times that flush_due and add work with.
NotSplitEarly ==
    \A b, d \in Buckets :
        b.client_id = d.client_id /\ b.request_id < d.request_id =>
            ~Active(b, d.started_at + MaxLag)

\* FR-AGG-03, "to prevent a never-closing Request": every open bucket is closed.
EveryBucketCloses ==
    \A n \in 1 .. MaxMessages :
        (\E b \in OpenBuckets : b.request_id = n) ~>
            (\E b \in closed : b.request_id = n)

=============================================================================
