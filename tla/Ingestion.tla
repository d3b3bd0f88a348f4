------------------------------ MODULE Ingestion ------------------------------
(***************************************************************************)
(* ingestion/service.py over aggregation/aggregator.py, with the two       *)
(* threads of __main__.py that share the aggregator without a lock:        *)
(*  - the event loop, whose webhook handler calls receive (no await in it, *)
(*    so one webhook at a time);                                           *)
(*  - the daemon thread of FlushWorker.run, which nothing restarts.        *)
(* A step is one access to the shared dict _open or to a bucket in it.     *)
(*                                                                         *)
(* Orchestrator.ingest is a call that takes a batch and may raise. A body  *)
(* that is not signed or not JSON is refused without effect (403, 400) and *)
(* is not an action. A failed download only leaves a message without its   *)
(* media, so claiming a message, resolving its client and the download are *)
(* one step; the clock may run on behind it.                               *)
(***************************************************************************)
EXTENDS Integers, Sequences, FiniteSets, SequencesExt

CONSTANTS
    Clients,       \* client ids
    Messages,      \* WhatsApp message ids
    sender,        \* registry.resolve: the client that sent a message
    Bodies,        \* webhook bodies, each a sequence of messages
    Inactivity,    \* inactivity_seconds
    MaxDuration,   \* max_duration_seconds
    MayRaise,      \* _build_message and _process may raise
    MaxDeliveries, \* bound: webhook deliveries, repeated ones included
    LastDelivery,  \* bound: no delivery later than this
    MaxTime        \* bound: the clock stops

ASSUME IngestionAssumption ==
    /\ IsFiniteSet(Clients)
    /\ sender \in [Messages -> Clients]
    /\ Bodies \subseteq Seq(Messages)
    /\ {Inactivity, MaxDuration} \subseteq Nat \ {0}
    /\ Inactivity <= MaxDuration
    /\ MayRaise \in BOOLEAN
    /\ {MaxDeliveries, LastDelivery, MaxTime} \subseteq Nat

VARIABLES
    buckets,     \* the OpenBucket objects in the order they were made
    open,        \* _open: the bucket of a client, 0 for no entry
    claimed,     \* _seen of the idempotency store
    ingested,    \* the batches handed to Orchestrator.ingest
    hook,        \* the progress of the webhook handler
    worker,      \* the progress of the flush worker
    deliveries,  \* number of webhook deliveries
    now,         \* the clock
    added,       \* history: the messages that add has put into a bucket
    astray       \* history: the messages that were lost, see LossIsConfined

vars == <<buckets, open, claimed, ingested, hook, worker, deliveries, now,
          added, astray>>

-----------------------------------------------------------------------------
(* Data. *)

Entry == [id : Messages, order : Nat, at : Nat]

OpenBucket == [client_id : Clients, started_at : Nat, last_at : Nat,
               messages : Seq(Entry)]

\* An AggregatedRequest; its request_id is the number of its bucket.
Batch == [request_id : Nat \ {0}, messages : Seq(Entry)]

\* Mutant: batches are numbered from 0.
DumpOffByOne(b) == [request_id |-> b - 1, messages |-> buckets[b].messages]

\* bucket.model_dump() of bucket b.
Dump(b) == [request_id |-> b, messages |-> buckets[b].messages]

\* Mutant: a bucket never grows too old.
ActiveSinceLast(b, at) == at - buckets[b].last_at < Inactivity

\* _active: inside both windows.
Active(b, at) ==
    /\ at - buckets[b].last_at < Inactivity
    /\ at - buckets[b].started_at < MaxDuration

\* The webhook handler: the messages of the body that are left, the time it
\* read, the bucket it holds and the batch it displaced.
HookPC == {"claim", "get", "displace", "insert", "append", "touch", "process"}

Hook == [pc : HookPC, left : Seq(Messages), at : Nat, bucket : Nat,
         displaced : Seq(Batch)]

\* The flush worker: the time it read, len(_open) when it began to iterate and
\* how many entries the iterator still expects, the buckets it has passed, the
\* clients found due, the batches emitted.
WorkerPC == {"scan", "emit", "dump", "process"}

Worker == [pc : WorkerPC, at : Nat, size : Nat, left : Nat, passed : Nat,
           due : Seq(Clients), bucket : Nat, out : Seq(Batch)]

Idle == [pc |-> "idle"]

Dead == [pc |-> "dead"]

OpenClients == {c \in Clients : open[c] # 0}

Holds(batch, m) ==
    \E i \in DOMAIN batch.messages : batch.messages[i].id = m

Members(batches) ==
    {m \in Messages : \E i \in DOMAIN batches : Holds(batches[i], m)}

\* The worker will copy what is appended to bucket b.
Reachable(b) ==
    \/ \E c \in OpenClients : open[c] = b
    \/ worker.pc = "dump" /\ worker.bucket = b

Stray(ms) == astray' = astray \cup ms

-----------------------------------------------------------------------------
(* POST /webhook: receive *)

Client == sender[Head(hook.left)]

Deliver(body) ==
    /\ hook.pc = "idle"
    /\ deliveries < MaxDeliveries /\ now <= LastDelivery
    /\ deliveries' = deliveries + 1
    /\ hook' = [pc |-> "claim", left |-> body, at |-> now, bucket |-> 0,
                displaced |-> << >>]
    /\ UNCHANGED <<buckets, open, claimed, ingested, worker, now, added, astray>>

\* The handler has answered 200, or an exception has become a 500.
Answer == hook' = Idle

\* The loop goes on with the next message.
NextMessage ==
    hook' = [hook EXCEPT !.pc = "claim", !.left = Tail(@),
                         !.displaced = << >>]

\* claim, resolve and _build_message, which raises on a field of a wrong type;
\* the loop ends after the last message.
Claim ==
    /\ hook.pc = "claim"
    /\ \/ /\ hook.left = << >>
          /\ Answer
          /\ UNCHANGED <<claimed, astray>>
       \/ /\ hook.left # << >>
          /\ Head(hook.left) \in claimed
          /\ NextMessage
          /\ UNCHANGED <<claimed, astray>>
       \/ /\ hook.left # << >>
          /\ Head(hook.left) \notin claimed
          /\ claimed' = claimed \cup {Head(hook.left)}
          /\ \/ hook' = [hook EXCEPT !.pc = "get"] /\ UNCHANGED astray
             \/ MayRaise /\ Answer /\ Stray({Head(hook.left)})
    /\ UNCHANGED <<buckets, open, ingested, worker, deliveries, now, added>>

\* add: the client's bucket, and whether it is active.
Get ==
    /\ hook.pc = "get"
    /\ LET b == open[Client] IN
       hook' = [hook EXCEPT !.bucket = b,
                            !.pc = IF b = 0 THEN "insert"
                                   ELSE IF Active(b, hook.at) THEN "append"
                                   ELSE "displace"]
    /\ UNCHANGED <<buckets, open, claimed, ingested, worker, deliveries, now,
                   added, astray>>

\* _emit of an inactive bucket; KeyError when the worker has taken it.
Displace ==
    /\ hook.pc = "displace"
    /\ IF open[Client] = 0
       THEN Answer /\ UNCHANGED open /\ Stray({Head(hook.left)})
       ELSE /\ open' = [open EXCEPT ![Client] = 0]
            /\ hook' = [hook EXCEPT !.pc = "insert",
                                    !.displaced = <<Dump(open[Client])>>]
            /\ UNCHANGED astray
    /\ UNCHANGED <<buckets, claimed, ingested, worker, deliveries, now, added>>

\* A new bucket enters _open.
Insert ==
    /\ hook.pc = "insert"
    /\ buckets' = Append(buckets, [client_id |-> Client,
                                   started_at |-> hook.at, last_at |-> hook.at,
                                   messages |-> << >>])
    /\ open' = [open EXCEPT ![Client] = Len(buckets) + 1]
    /\ hook' = [hook EXCEPT !.pc = "append", !.bucket = Len(buckets) + 1]
    /\ UNCHANGED <<claimed, ingested, worker, deliveries, now, added, astray>>

\* bucket.messages.append, whoever holds the bucket by now.
AppendMessage ==
    /\ hook.pc = "append"
    /\ buckets' = [buckets EXCEPT ![hook.bucket].messages =
                      Append(@, [id |-> Head(hook.left), order |-> Len(@),
                                 at |-> hook.at])]
    /\ hook' = [hook EXCEPT !.pc = "touch"]
    /\ Stray(IF Reachable(hook.bucket) THEN {} ELSE {Head(hook.left)})
    /\ UNCHANGED <<open, claimed, ingested, worker, deliveries, now, added>>

\* Mutant: the displaced batch is not processed.
TouchForgets ==
    /\ hook.pc = "touch"
    /\ buckets' = [buckets EXCEPT ![hook.bucket].last_at = hook.at]
    /\ added' = Append(added, Head(hook.left))
    /\ NextMessage
    /\ UNCHANGED <<open, claimed, ingested, worker, deliveries, now, astray>>

\* Mutant: last_at stays what it was when the bucket was opened.
TouchNot ==
    /\ hook.pc = "touch"
    /\ added' = Append(added, Head(hook.left))
    /\ IF hook.displaced = << >>
       THEN NextMessage
       ELSE hook' = [hook EXCEPT !.pc = "process"]
    /\ UNCHANGED <<buckets, open, claimed, ingested, worker, deliveries, now,
                   astray>>

\* bucket.last_at = now.
Touch ==
    /\ hook.pc = "touch"
    /\ buckets' = [buckets EXCEPT ![hook.bucket].last_at = hook.at]
    /\ added' = Append(added, Head(hook.left))
    /\ IF hook.displaced = << >>
       THEN NextMessage
       ELSE hook' = [hook EXCEPT !.pc = "process"]
    /\ UNCHANGED <<open, claimed, ingested, worker, deliveries, now, astray>>

\* _process of the displaced batch. When it raises, before or after the batch
\* has reached ingest, the rest of the body is left to the next delivery.
ProcessDisplaced ==
    /\ hook.pc = "process"
    /\ \/ /\ ingested' = Append(ingested, Head(hook.displaced))
          /\ NextMessage \/ (MayRaise /\ Answer)
          /\ UNCHANGED astray
       \/ /\ MayRaise
          /\ Answer
          /\ Stray(Members(hook.displaced))
          /\ UNCHANGED ingested
    /\ UNCHANGED <<buckets, open, claimed, worker, deliveries, now, added>>

-----------------------------------------------------------------------------
(* FlushWorker.run: tick *)

\* flush_due begins to iterate over _open.
StartFlush ==
    /\ worker.pc = "idle"
    /\ worker' = [pc |-> "scan", at |-> now, size |-> Cardinality(OpenClients),
                  left |-> Cardinality(OpenClients), passed |-> 0,
                  due |-> << >>, bucket |-> 0, out |-> << >>]
    /\ UNCHANGED <<buckets, open, claimed, ingested, hook, deliveries, now,
                   added, astray>>

\* An exception ends the thread: the batches it has not handed over are gone.
Die(batches) == worker' = Dead /\ Stray(Members(batches))

\* The next bucket in the order of insertion. The iteration raises when the
\* dict has changed its size, or has one entry more than it began with.
Scan ==
    /\ worker.pc = "scan"
    /\ LET ahead == {c \in OpenClients : open[c] > worker.passed}
           changed == Cardinality(OpenClients) # worker.size
       IN
       \/ /\ changed \/ (ahead # {} /\ worker.left = 0)
          /\ Die(worker.out)
       \/ /\ ~changed
          /\ ahead = {}
          /\ worker' = [worker EXCEPT !.pc = "emit"]
          /\ UNCHANGED astray
       \/ /\ ~changed
          /\ worker.left > 0
          /\ \E c \in ahead :
                /\ \A d \in ahead : open[c] <= open[d]
                /\ worker' = [worker EXCEPT !.passed = open[c],
                      !.left = @ - 1,
                      !.due = IF Active(open[c], worker.at) THEN @
                                                            ELSE Append(@, c)]
          /\ UNCHANGED astray
    /\ UNCHANGED <<buckets, open, claimed, ingested, hook, deliveries, now, added>>

\* Mutant: an emitted bucket stays in _open.
EmitStays ==
    /\ worker.pc = "emit"
    /\ \/ /\ worker.due = << >>
          /\ worker' = [worker EXCEPT !.pc = "process"]
       \/ /\ worker.due # << >>
          /\ worker' = [worker EXCEPT !.pc = "dump", !.due = Tail(@),
                                      !.bucket = open[Head(worker.due)]]
    /\ UNCHANGED <<open, buckets, claimed, ingested, hook, deliveries, now,
                   added, astray>>

\* _emit takes a due client's bucket from _open; KeyError when the webhook has
\* displaced it and inserted none yet.
Emit ==
    /\ worker.pc = "emit"
    /\ \/ /\ worker.due = << >>
          /\ worker' = [worker EXCEPT !.pc = "process"]
          /\ UNCHANGED <<open, astray>>
       \/ /\ worker.due # << >>
          /\ open[Head(worker.due)] = 0
          /\ Die(worker.out)
          /\ UNCHANGED open
       \/ /\ worker.due # << >>
          /\ open[Head(worker.due)] # 0
          /\ open' = [open EXCEPT ![Head(worker.due)] = 0]
          /\ worker' = [worker EXCEPT !.pc = "dump", !.due = Tail(@),
                                      !.bucket = open[Head(worker.due)]]
          /\ UNCHANGED astray
    /\ UNCHANGED <<buckets, claimed, ingested, hook, deliveries, now, added>>

\* ... and copies it into an AggregatedRequest.
CopyBucket ==
    /\ worker.pc = "dump"
    /\ worker' = [worker EXCEPT !.pc = "emit",
                                !.out = Append(@, Dump(worker.bucket))]
    /\ UNCHANGED <<buckets, open, claimed, ingested, hook, deliveries, now,
                   added, astray>>

\* _process of the batches in turn. An exception ends the thread.
ProcessDue ==
    /\ worker.pc = "process"
    /\ \/ /\ worker.out = << >>
          /\ worker' = Idle
          /\ UNCHANGED <<ingested, astray>>
       \/ /\ worker.out # << >>
          /\ ingested' = Append(ingested, Head(worker.out))
          /\ \/ worker' = [worker EXCEPT !.out = Tail(@)] /\ UNCHANGED astray
             \/ MayRaise /\ Die(Tail(worker.out))
       \/ /\ worker.out # << >>
          /\ MayRaise
          /\ Die(worker.out)
          /\ UNCHANGED ingested
    /\ UNCHANGED <<buckets, open, claimed, hook, deliveries, now, added>>

-----------------------------------------------------------------------------
Tick ==
    /\ now < MaxTime
    /\ now' = now + 1
    /\ UNCHANGED <<buckets, open, claimed, ingested, hook, worker, deliveries,
                   added, astray>>

Init ==
    /\ buckets = << >>
    /\ open = [c \in Clients |-> 0]
    /\ claimed = {}
    /\ ingested = << >>
    /\ hook = Idle
    /\ worker = Idle
    /\ deliveries = 0
    /\ now = 0
    /\ added = << >>
    /\ astray = {}

HookStep ==
    \/ Claim \/ Get \/ Displace \/ Insert \/ AppendMessage \/ Touch
    \/ ProcessDisplaced

WorkerStep == StartFlush \/ Scan \/ Emit \/ CopyBucket \/ ProcessDue

Next ==
    \/ \E body \in Bodies : Deliver(body)
    \/ HookStep
    \/ WorkerStep
    \/ Tick

Spec == Init /\ [][Next]_vars

\* Both threads run and time passes; no message need ever come.
Fairness == WF_vars(HookStep) /\ WF_vars(WorkerStep) /\ WF_vars(Tick)

LiveSpec == Spec /\ Fairness

\* The two threads never overlap, as under a lock around receive and
\* flush_due. The code has no such lock.
NoOverlap == hook.pc = "idle" \/ worker.pc \in {"idle", "dead"}

LockedSpec ==
    /\ Init /\ [][Next /\ NoOverlap']_vars
    /\ WF_vars(Tick)
    /\ WF_vars(HookStep /\ NoOverlap')
    /\ SF_vars(StartFlush /\ NoOverlap')
    /\ WF_vars((Scan \/ Emit \/ CopyBucket \/ ProcessDue) /\ NoOverlap')

-----------------------------------------------------------------------------
(* Properties. *)

\* Type invariant of the service, its two threads and the aggregator.
TypeOK ==
    /\ buckets \in Seq(OpenBucket)
    /\ open \in [Clients -> 0 .. Len(buckets)]
    /\ claimed \subseteq Messages
    /\ ingested \in Seq(Batch)
    /\ hook \in Hook \cup {Idle}
    /\ worker \in Worker \cup {Idle, Dead}
    /\ deliveries \in Nat
    /\ now \in Nat
    /\ added \in Seq(Messages)
    /\ astray \subseteq Messages

\* Where batches of messages are: handed to the orchestrator, in _open, or in
\* the hands of a thread.
Placed(kind, seq) ==
    {[place |-> <<kind, i>>, batch |-> seq[i]] : i \in DOMAIN seq}

Places ==
    Placed("ingested", ingested)
    \cup {[place |-> <<"open", open[c]>>, batch |-> Dump(open[c])] :
             c \in OpenClients}
    \cup (IF hook = Idle THEN {} ELSE Placed("displaced", hook.displaced))
    \cup (IF worker \in {Idle, Dead} THEN {} ELSE Placed("out", worker.out))
    \cup (IF worker.pc = "dump"
          THEN Placed("emitted", <<Dump(worker.bucket)>>) ELSE {})

\* NFR-IDEMP-01, "retries never double-process": a message is in one request
\* at most and there once, however often it is delivered, however the two
\* threads interleave and whatever raises.
ProcessedAtMostOnce ==
    \A p, q \in Places :
        \A i \in DOMAIN p.batch.messages, j \in DOMAIN q.batch.messages :
            p.batch.messages[i].id = q.batch.messages[j].id =>
                p.place = q.place /\ i = j

\* FR-AGG-01 and FR-AGG-03 survive the races of add and flush_due: a request's
\* messages are of one client and within the windows.
RequestsRespectWindows ==
    \A p \in Places : LET ms == p.batch.messages IN
        \A i, j \in DOMAIN ms : i < j =>
            /\ sender[ms[i].id] = sender[ms[j].id]
            /\ ms[j].at - ms[i].at \in 0 .. MaxDuration - 1
            /\ j = i + 1 => ms[j].at - ms[i].at < Inactivity

\* The message that add is about to append.
AtHand(m) ==
    /\ hook.pc \in {"get", "displace", "insert", "append"}
    /\ m = Head(hook.left)

\* Without a lock and with exceptions, a message that was claimed is lost in two
\* ways only, and then for good: an exception ends the call that has it or its
\* batch in hand, or add appends it to a bucket that has been copied already. No
\* other interleaving of add and flush_due loses one: "feeds each message into
\* the aggregator. Closed buckets [...] are handed to the orchestrator"
\* (service.py).
LossIsConfined ==
    \A m \in claimed :
        m \in astray <=> ~AtHand(m) /\ \A p \in Places : ~Holds(p.batch, m)

\* Between two calls of the threads, no message that was claimed has gone
\* astray: "feeds each message into the aggregator. Closed buckets [...] are
\* handed to the orchestrator" (service.py).
NothingLost ==
    hook.pc = "idle" /\ worker.pc \in {"idle", "dead"} =>
        \A m \in claimed : \E p \in Places : Holds(p.batch, m)

\* What the aggregator looks like between two calls of it. A message has been
\* added when add has returned; its number is its place among those.
Number(m) == CHOOSE n \in DOMAIN added : added[n] = m

Complete(b) == SelectSeq(buckets[b].messages, LAMBDA e : Contains(added, e.id))

\* The bucket of a client before the call of the webhook, which is undone, or
\* after the call of the worker, which has taken all due buckets at once.
Standing(c) ==
    CASE hook.pc \in {"insert", "append", "touch"} /\ c = Client ->
            IF hook.displaced = << >> THEN hook.bucket
                                      ELSE hook.displaced[1].request_id
      [] worker.pc \in {"emit", "dump"} /\ c \in ToSet(worker.due) -> 0
      [] OTHER -> open[c]

AsBucket(b) ==
    LET ms == Complete(b) IN
    [request_id |-> Number(ms[1].id), client_id |-> buckets[b].client_id,
     started_at |-> buckets[b].started_at, last_at |-> buckets[b].last_at,
     messages |-> [n \in DOMAIN ms |-> [ms[n] EXCEPT !.id = Number(@)]]]

Used == {b \in DOMAIN buckets : Complete(b) # << >>}

AtomicAggregator == INSTANCE Aggregator WITH
    MaxLag <- MaxTime,
    MaxMessages <- Cardinality(Messages),
    LastArrival <- LastDelivery,
    open <- [c \in Clients |->
                IF Standing(c) \in Used THEN AsBucket(Standing(c))
                ELSE [request_id |-> 0, client_id |-> c, started_at |-> 0,
                      last_at |-> 0, messages |-> << >>]],
    closed <- {AsBucket(b) : b \in Used \ {Standing(c) : c \in Clients}},
    lastAdd <- IF added = << >> THEN 0
               ELSE CHOOSE at \in 0 .. now :
                       \E b \in Used : \E e \in ToSet(buckets[b].messages) :
                           e.id = Last(added) /\ e.at = at,
    arrived <- Len(added),
    running <- TRUE

\* Under a lock, add and flush_due are the atomic operations of Aggregator,
\* access by access, and its flush worker is fair: what holds of Aggregator
\* holds of the service.
AggregatesAtomically == AtomicAggregator!LiveSpec

\* FR-AGG-03, "to prevent a never-closing Request": no bucket stays open for
\* good.
EveryBucketIsFlushed ==
    \A b \in 1 .. Cardinality(Messages) :
        (\E c \in Clients : open[c] = b) ~> (\A c \in Clients : open[c] # b)

\* A message that was claimed reaches the orchestrator.
EveryMessageIsIngested ==
    \A m \in Messages :
        m \in claimed ~>
            (\E i \in DOMAIN ingested : Holds(ingested[i], m))

=============================================================================
