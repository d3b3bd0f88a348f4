-------------------------- MODULE IngestionProofs --------------------------
(***************************************************************************)
(* However the webhook and the flush worker interleave, without a lock and *)
(* with exceptions, no message is in two requests, every request is within *)
(* the windows, and a message is lost in two ways only, for any clients,   *)
(* bodies and windows.                                                     *)
(***************************************************************************)
EXTENDS Ingestion, TLAPS, SequenceTheorems, FiniteSetTheorems

\* What the two threads hold at each point.
HookSound ==
    hook.pc # "idle" =>
        /\ hook.pc # "claim" => hook.left # << >>
        /\ hook.pc \in {"append", "touch"} => hook.bucket \in DOMAIN buckets
        /\ hook.pc \in {"claim", "get", "displace"} => hook.displaced = << >>
        /\ hook.pc = "process" => hook.displaced # << >>
        /\ Len(hook.displaced) <= 1

WorkerSound == worker.pc = "dump" => worker.bucket \in DOMAIN buckets

TInv == TypeOK /\ HookSound /\ WorkerSound

LEMMA Busy ==
    ASSUME TypeOK
    PROVE  /\ hook.pc # "idle" => hook \in Hook
           /\ worker.pc \notin {"idle", "dead"} => worker \in Worker
           /\ hook \in Hook => hook.pc # "idle" /\ hook # Idle
           /\ worker \in Worker => /\ worker.pc \notin {"idle", "dead"}
                                   /\ worker \notin {Idle, Dead}
<1>1. /\ hook \in Hook => hook.pc \in HookPC
      /\ worker \in Worker => worker.pc \in WorkerPC
  BY DEF Hook, Worker
<1>2. Idle.pc = "idle" /\ Dead.pc = "dead"
  BY DEF Idle, Dead
<1> QED
  BY <1>1, <1>2 DEF TypeOK, HookPC, WorkerPC

LEMMA DumpTyped ==
    ASSUME TypeOK, NEW b \in DOMAIN buckets
    PROVE  Dump(b) \in Batch /\ b \in Nat \ {0}
<1>1. buckets \in Seq(OpenBucket) /\ b \in 1 .. Len(buckets)
  BY DEF TypeOK
<1>2. buckets[b] \in OpenBucket /\ b \in Nat \ {0}
  BY <1>1
<1> QED
  BY <1>2 DEF Dump, Batch, OpenBucket

LEMMA OneDisplaced ==
    ASSUME NEW x \in Batch
    PROVE  <<x>> \in Seq(Batch) /\ Len(<<x>>) = 1 /\ <<x>> # << >>
OBVIOUS

\* Steps that leave the buckets, _open and the worker alone.
LEMMA HookTyped ==
    ASSUME TInv, UNCHANGED <<buckets, open, worker, deliveries, now>>,
           claimed' \subseteq Messages, ingested' \in Seq(Batch),
           added' \in Seq(Messages), astray' \subseteq Messages,
           hook' \in Hook \cup {Idle}, HookSound'
    PROVE  TInv'
BY DEF TInv, TypeOK, WorkerSound

LEMMA NextMessageTyped ==
    ASSUME TInv, hook \in Hook, hook.left # << >>, NextMessage
    PROVE  hook' \in Hook /\ HookSound'
<1>1. hook.left \in Seq(Messages) /\ Tail(hook.left) \in Seq(Messages)
  BY DEF Hook
<1>2. PICK left \in Seq(Messages), none \in Seq(Batch) :
         /\ none = << >>
         /\ hook' = [hook EXCEPT !.pc = "claim", !.left = left, !.displaced = none]
  <2>1. << >> \in Seq(Batch)
    OBVIOUS
  <2> QED
    BY <1>1, <2>1 DEF NextMessage
<1>3. /\ hook' \in Hook /\ hook'.pc = "claim" /\ hook'.displaced = none
  BY <1>2 DEF Hook, HookPC
<1>4. hook'.displaced = << >> /\ Len(hook'.displaced) = 0
  BY <1>2, <1>3
<1> QED
  BY <1>3, <1>4 DEF HookSound

LEMMA AnswerTyped ==
    ASSUME Answer
    PROVE  hook' \in Hook \cup {Idle} /\ HookSound'
BY DEF Answer, HookSound, Idle

LEMMA TypeDeliver ==
    ASSUME TInv, NEW body \in Bodies, Deliver(body)
    PROVE  TInv'
<1>1. body \in Seq(Messages) /\ now \in Nat /\ deliveries + 1 \in Nat
  BY IngestionAssumption DEF TInv, TypeOK
<1>2. hook' \in Hook /\ hook'.pc = "claim" /\ hook'.displaced = << >>
  BY <1>1 DEF Deliver, Hook, HookPC
<1>3. HookSound'
  BY <1>2 DEF HookSound
<1> QED
  BY <1>1, <1>2, <1>3 DEF Deliver, TInv, TypeOK, WorkerSound

LEMMA TypeClaim == ASSUME TInv, Claim PROVE TInv'
<1>1. TypeOK /\ hook \in Hook /\ hook.left \in Seq(Messages)
  BY Busy DEF TInv, Claim, Hook
<1>2. CASE hook.left = << >>
  BY <1>1, <1>2, AnswerTyped, HookTyped DEF Claim, TypeOK
<1>3. CASE hook.left # << >> /\ Head(hook.left) \in claimed
  BY <1>1, <1>3, NextMessageTyped, HookTyped DEF Claim, TypeOK
<1>4. CASE hook.left # << >> /\ Head(hook.left) \notin claimed
  <2>1. /\ claimed' = claimed \cup {Head(hook.left)} /\ hook.pc = "claim"
        /\ Head(hook.left) \in Messages
        /\ astray' \in {astray, astray \cup {Head(hook.left)}}
        /\ hook' = [hook EXCEPT !.pc = "get"] \/ Answer
    BY <1>1, <1>4 DEF Claim, Stray
  <2>2. CASE Answer
    BY <1>1, <1>4, <2>1, <2>2, AnswerTyped, HookTyped DEF Claim, TypeOK
  <2>3. CASE hook' = [hook EXCEPT !.pc = "get"]
    <3>1. /\ hook' \in Hook /\ hook'.pc = "get" /\ hook'.left = hook.left
          /\ hook'.displaced = hook.displaced
      BY <1>1, <2>3 DEF Hook, HookPC
    <3>2. HookSound'
      BY <1>4, <2>1, <3>1 DEF TInv, HookSound
    <3> QED
      BY <1>1, <1>4, <2>1, <3>1, <3>2, HookTyped DEF Claim, TypeOK
  <2> QED
    BY <2>1, <2>2, <2>3
<1> QED
  BY <1>2, <1>3, <1>4

\* The client whose message is at hand.
LEMMA ClientTyped ==
    ASSUME TInv, hook.pc \notin {"idle", "claim"}
    PROVE  /\ hook \in Hook /\ Head(hook.left) \in Messages /\ Client \in Clients
           /\ hook.left \in Seq(Messages) /\ hook.left # << >>
<1>1. hook \in Hook /\ hook.left # << >>
  BY Busy DEF TInv, HookSound
<1>2. hook.left \in Seq(Messages)
  BY <1>1 DEF Hook
<1> QED
  BY <1>1, <1>2, IngestionAssumption DEF Client

LEMMA TypeGet == ASSUME TInv, Get PROVE TInv'
<1>1. /\ TypeOK /\ hook \in Hook /\ Client \in Clients /\ hook.left # << >>
      /\ hook.pc = "get" /\ hook.displaced = << >>
  BY ClientTyped DEF TInv, Get, HookSound
<1>2. open[Client] \in Nat /\ open[Client] \in 0 .. Len(buckets)
  BY <1>1 DEF TypeOK
<1>3. PICK pc \in {"insert", "append", "displace"} :
         /\ hook' = [hook EXCEPT !.bucket = open[Client], !.pc = pc]
         /\ pc = "append" => open[Client] # 0
  BY DEF Get
<1> DEFINE b == open[Client]
<1> HIDE DEF b
<1>a. b \in Nat /\ hook' = [hook EXCEPT !.bucket = b, !.pc = pc]
  BY <1>2, <1>3 DEF b
<1>b. /\ hook' \in Hook /\ hook'.pc = pc /\ hook'.left = hook.left
      /\ hook'.bucket = b /\ hook'.displaced = hook.displaced
  BY <1>1, <1>3, <1>a DEF Hook, HookPC
<1>4. /\ hook' \in Hook /\ hook'.pc = pc /\ hook'.left = hook.left
      /\ hook'.bucket = open[Client] /\ hook'.displaced = << >>
  BY <1>1, <1>b DEF b
<1>5. pc = "append" => open[Client] \in DOMAIN buckets
  BY <1>1, <1>2, <1>3 DEF TypeOK
<1>6. HookSound'
  BY <1>1, <1>4, <1>5 DEF HookSound, Get
<1> QED
  BY <1>1, <1>4, <1>6, HookTyped DEF Get, TypeOK

LEMMA TypeDisplace == ASSUME TInv, Displace PROVE TInv'
<1>1. /\ TypeOK /\ hook \in Hook /\ Client \in Clients /\ hook.left # << >>
      /\ hook.pc = "displace" /\ Head(hook.left) \in Messages
  BY ClientTyped DEF TInv, Displace
<1>2. CASE open[Client] = 0
  BY <1>1, <1>2, AnswerTyped, HookTyped DEF Displace, TypeOK, Stray
<1>3. CASE open[Client] # 0
  <2>1. open[Client] \in DOMAIN buckets
    BY <1>1, <1>3 DEF TypeOK
  <2> DEFINE x == Dump(open[Client])
  <2>2. x \in Batch
    BY <1>1, <2>1, DumpTyped
  <2>3. /\ open' = [open EXCEPT ![Client] = 0]
        /\ hook' = [hook EXCEPT !.pc = "insert", !.displaced = <<x>>]
        /\ UNCHANGED <<buckets, claimed, ingested, worker, deliveries, now,
                       added, astray>>
    BY <1>3 DEF Displace
  <2> HIDE DEF x
  <2>4. <<x>> \in Seq(Batch) /\ Len(<<x>>) = 1
    BY <2>2, OneDisplaced
  <2>5. /\ hook' \in Hook /\ hook'.pc = "insert" /\ hook'.left = hook.left
        /\ hook'.displaced = <<x>>
    BY <1>1, <2>3, <2>4 DEF Hook, HookPC
  <2>6. HookSound'
    BY <1>1, <2>4, <2>5 DEF HookSound
  <2>7. open' \in [Clients -> 0 .. Len(buckets)]
    BY <1>1, <2>3 DEF TypeOK
  <2> QED
    BY <1>1, <2>3, <2>5, <2>6, <2>7 DEF TInv, TypeOK, WorkerSound
<1> QED
  BY <1>2, <1>3

LEMMA TypeInsert == ASSUME TInv, Insert PROVE TInv'
<1> DEFINE new == [client_id |-> Client, started_at |-> hook.at,
                   last_at |-> hook.at, messages |-> << >>]
<1>1. /\ TypeOK /\ hook \in Hook /\ Client \in Clients /\ hook.left # << >>
      /\ hook.pc = "insert" /\ Len(hook.displaced) <= 1
  BY ClientTyped DEF TInv, Insert, HookSound
<1>2. new \in OpenBucket
  BY <1>1 DEF OpenBucket, Hook
<1>3. /\ buckets' = Append(buckets, new)
      /\ open' = [open EXCEPT ![Client] = Len(buckets) + 1]
      /\ hook' = [hook EXCEPT !.pc = "append", !.bucket = Len(buckets) + 1]
      /\ UNCHANGED <<claimed, ingested, worker, deliveries, now, added, astray>>
  BY DEF Insert
<1> HIDE DEF new
<1>4. /\ buckets' \in Seq(OpenBucket) /\ Len(buckets') = Len(buckets) + 1
      /\ Len(buckets) \in Nat /\ DOMAIN buckets' = 1 .. Len(buckets) + 1
      /\ DOMAIN buckets = 1 .. Len(buckets)
  BY <1>1, <1>2, <1>3 DEF TypeOK
<1>5. open' \in [Clients -> 0 .. Len(buckets')]
  BY <1>1, <1>3, <1>4 DEF TypeOK
<1> DEFINE n == Len(buckets) + 1
<1>a. n \in Nat /\ hook' = [hook EXCEPT !.pc = "append", !.bucket = n]
  BY <1>3, <1>4
<1> HIDE DEF n
<1>b. /\ hook' \in Hook /\ hook'.pc = "append" /\ hook'.left = hook.left
      /\ hook'.bucket = n /\ hook'.displaced = hook.displaced
  BY <1>1, <1>a DEF Hook, HookPC
<1>6. /\ hook' \in Hook /\ hook'.pc = "append" /\ hook'.left = hook.left
      /\ hook'.bucket = Len(buckets) + 1 /\ hook'.displaced = hook.displaced
  BY <1>b DEF n
<1>7. HookSound' /\ WorkerSound'
  BY <1>1, <1>3, <1>4, <1>6 DEF TInv, HookSound, WorkerSound
<1> QED
  BY <1>1, <1>3, <1>4, <1>5, <1>6, <1>7 DEF TInv, TypeOK

\* A bucket is replaced.
LEMMA BucketReplaced ==
    ASSUME TypeOK, NEW b \in DOMAIN buckets, NEW x \in OpenBucket,
           buckets' = [buckets EXCEPT ![b] = x]
    PROVE  /\ buckets' \in Seq(OpenBucket) /\ Len(buckets') = Len(buckets)
           /\ DOMAIN buckets' = DOMAIN buckets /\ buckets'[b] = x
           /\ \A d \in DOMAIN buckets : d # b => buckets'[d] = buckets[d]
BY DEF TypeOK

LEMMA AppendEffect ==
    ASSUME TInv, AppendMessage
    PROVE  LET b == hook.bucket
               e == [id |-> Head(hook.left), order |-> Len(buckets[b].messages),
                     at |-> hook.at]
               x == [buckets[b] EXCEPT !.messages = Append(buckets[b].messages, e)]
           IN  /\ hook \in Hook /\ hook.left # << >> /\ b \in DOMAIN buckets
               /\ buckets[b] \in OpenBucket /\ e \in Entry /\ x \in OpenBucket
               /\ buckets' = [buckets EXCEPT ![b] = x]
               /\ x.client_id = buckets[b].client_id
               /\ x.started_at = buckets[b].started_at
               /\ x.last_at = buckets[b].last_at
               /\ x.messages = Append(buckets[b].messages, e)
<1> DEFINE b == hook.bucket
           e == [id |-> Head(hook.left), order |-> Len(buckets[b].messages),
                 at |-> hook.at]
           x == [buckets[b] EXCEPT !.messages = Append(buckets[b].messages, e)]
<1>1. /\ TypeOK /\ hook \in Hook /\ hook.left # << >> /\ b \in DOMAIN buckets
      /\ Head(hook.left) \in Messages
  BY ClientTyped DEF TInv, AppendMessage, HookSound
<1>2. buckets[b] \in OpenBucket
  BY <1>1 DEF TypeOK
<1>3. buckets[b].messages \in Seq(Entry)
  BY <1>2 DEF OpenBucket
<1>4. e \in Entry
  BY <1>1, <1>3 DEF Entry, Hook
<1>5. buckets' = [buckets EXCEPT ![b] = x]
  BY <1>1 DEF AppendMessage, TypeOK
<1> HIDE DEF e
<1>6. Append(buckets[b].messages, e) \in Seq(Entry)
  BY <1>3, <1>4
<1>7. /\ x \in OpenBucket /\ x.client_id = buckets[b].client_id
      /\ x.started_at = buckets[b].started_at /\ x.last_at = buckets[b].last_at
      /\ x.messages = Append(buckets[b].messages, e)
  BY <1>2, <1>6 DEF OpenBucket
<1> QED
  BY <1>1, <1>2, <1>4, <1>5, <1>7 DEF e

LEMMA TypeAppend == ASSUME TInv, AppendMessage PROVE TInv'
<1>1. PICK x \in OpenBucket : buckets' = [buckets EXCEPT ![hook.bucket] = x]
  BY AppendEffect
<1>2. /\ TypeOK /\ hook \in Hook /\ hook.left # << >>
      /\ hook.bucket \in DOMAIN buckets /\ hook.pc = "append"
      /\ Len(hook.displaced) <= 1
  BY AppendEffect DEF TInv, AppendMessage, HookSound
<1>3. /\ buckets' \in Seq(OpenBucket) /\ Len(buckets') = Len(buckets)
      /\ DOMAIN buckets' = DOMAIN buckets
  BY <1>1, <1>2, BucketReplaced
<1>4. /\ hook' \in Hook /\ hook'.pc = "touch" /\ hook'.left = hook.left
      /\ hook'.bucket = hook.bucket /\ hook'.displaced = hook.displaced
  BY <1>2 DEF AppendMessage, Hook, HookPC
<1>5. HookSound' /\ WorkerSound'
  BY <1>2, <1>3, <1>4 DEF TInv, HookSound, WorkerSound, AppendMessage
<1>6. astray' \subseteq Messages
  BY <1>2, ClientTyped DEF AppendMessage, Stray, TypeOK
<1> QED
  BY <1>2, <1>3, <1>4, <1>5, <1>6 DEF TInv, TypeOK, AppendMessage

LEMMA TouchEffect ==
    ASSUME TInv, Touch
    PROVE  LET b == hook.bucket
               x == [buckets[b] EXCEPT !.last_at = hook.at]
           IN  /\ hook \in Hook /\ hook.left # << >> /\ b \in DOMAIN buckets
               /\ buckets[b] \in OpenBucket /\ x \in OpenBucket
               /\ buckets' = [buckets EXCEPT ![b] = x]
               /\ x.client_id = buckets[b].client_id
               /\ x.started_at = buckets[b].started_at
               /\ x.last_at = hook.at /\ x.messages = buckets[b].messages
<1> DEFINE b == hook.bucket
           x == [buckets[b] EXCEPT !.last_at = hook.at]
<1>1. /\ TypeOK /\ hook \in Hook /\ hook.left # << >> /\ b \in DOMAIN buckets
  BY ClientTyped DEF TInv, Touch, HookSound
<1>2. buckets[b] \in OpenBucket /\ hook.at \in Nat
  BY <1>1 DEF TypeOK, Hook
<1>3. buckets' = [buckets EXCEPT ![b] = x]
  BY <1>1 DEF Touch, TypeOK
<1>4. /\ x \in OpenBucket /\ x.client_id = buckets[b].client_id
      /\ x.started_at = buckets[b].started_at /\ x.last_at = hook.at
      /\ x.messages = buckets[b].messages
  BY <1>2 DEF OpenBucket
<1> QED
  BY <1>1, <1>2, <1>3, <1>4

LEMMA TypeTouch == ASSUME TInv, Touch PROVE TInv'
<1>1. PICK x \in OpenBucket : buckets' = [buckets EXCEPT ![hook.bucket] = x]
  BY TouchEffect
<1>2. /\ TypeOK /\ hook \in Hook /\ hook.left # << >>
      /\ hook.bucket \in DOMAIN buckets /\ hook.pc = "touch"
      /\ Len(hook.displaced) <= 1 /\ Head(hook.left) \in Messages
  BY TouchEffect, ClientTyped DEF TInv, Touch, HookSound
<1>3. /\ buckets' \in Seq(OpenBucket) /\ Len(buckets') = Len(buckets)
      /\ DOMAIN buckets' = DOMAIN buckets
  BY <1>1, <1>2, BucketReplaced
<1>4. hook' \in Hook /\ HookSound'
  <2>1. CASE hook.displaced = << >>
    BY <1>2, <2>1, NextMessageTyped DEF Touch
  <2>2. CASE hook.displaced # << >>
    <3>1. /\ hook' \in Hook /\ hook'.pc = "process" /\ hook'.left = hook.left
          /\ hook'.displaced = hook.displaced
      BY <1>2, <2>2 DEF Touch, Hook, HookPC
    <3> QED
      BY <1>2, <2>2, <3>1 DEF HookSound
  <2> QED
    BY <2>1, <2>2
<1>5. added' \in Seq(Messages)
  BY <1>2 DEF Touch, TypeOK
<1> QED
  BY <1>2, <1>3, <1>4, <1>5 DEF TInv, TypeOK, Touch, WorkerSound

LEMMA TypeProcessDisplaced == ASSUME TInv, ProcessDisplaced PROVE TInv'
<1>1. /\ TypeOK /\ hook \in Hook /\ hook.left # << >>
      /\ hook.displaced \in Seq(Batch) /\ hook.displaced # << >>
  BY ClientTyped DEF TInv, ProcessDisplaced, HookSound, Hook
<1>2. Append(ingested, Head(hook.displaced)) \in Seq(Batch)
  BY <1>1 DEF TypeOK
<1>3. ingested' \in Seq(Batch)
  BY <1>1, <1>2 DEF ProcessDisplaced, TypeOK
<1>4. hook' \in Hook \cup {Idle} /\ HookSound'
  BY <1>1, NextMessageTyped, AnswerTyped DEF ProcessDisplaced
<1>5. astray' \subseteq Messages
  BY <1>1 DEF ProcessDisplaced, Stray, Members, TypeOK
<1> QED
  BY <1>1, <1>3, <1>4, <1>5, HookTyped DEF ProcessDisplaced, TypeOK

\* Steps that change only the worker, and _open or the batches with it.
LEMMA WorkerTyped ==
    ASSUME TInv, UNCHANGED <<buckets, claimed, hook, deliveries, now, added>>,
           open' \in [Clients -> 0 .. Len(buckets)], ingested' \in Seq(Batch),
           astray' \subseteq Messages,
           worker' \in Worker \cup {Idle, Dead}, WorkerSound'
    PROVE  TInv'
BY DEF TInv, TypeOK, HookSound

LEMMA StoppedTyped ==
    ASSUME worker' \in {Idle, Dead}
    PROVE  worker' \in Worker \cup {Idle, Dead} /\ WorkerSound'
BY DEF WorkerSound, Idle, Dead

LEMMA DieTyped ==
    ASSUME TypeOK, NEW batches, Die(batches)
    PROVE  worker' = Dead /\ astray' \subseteq Messages
BY DEF TypeOK, Die, Stray, Members

LEMMA TypeStartFlush ==
    ASSUME TInv, IsFiniteSet(OpenClients), StartFlush PROVE TInv'
<1>1. Cardinality(OpenClients) \in Nat /\ now \in Nat
  BY FS_CardinalityType DEF TInv, TypeOK
<1>2. << >> \in Seq(Clients) /\ << >> \in Seq(Batch)
  OBVIOUS
<1>3. worker' \in Worker /\ worker'.pc = "scan"
  BY <1>1, <1>2 DEF StartFlush, Worker, WorkerPC
<1> QED
  BY <1>3, WorkerTyped DEF StartFlush, TInv, TypeOK, WorkerSound

LEMMA TypeScan == ASSUME TInv, Scan PROVE TInv'
<1>1. TypeOK /\ worker \in Worker /\ worker.pc = "scan"
  BY Busy DEF TInv, Scan
<1>2. CASE Die(worker.out)
  BY <1>1, <1>2, DieTyped, StoppedTyped, WorkerTyped DEF Scan, TypeOK
<1>3. CASE worker' = [worker EXCEPT !.pc = "emit"] /\ astray' = astray
  <2>1. worker' \in Worker /\ worker'.pc = "emit"
    BY <1>1, <1>3 DEF Worker, WorkerPC
  <2> QED
    BY <1>1, <1>3, <2>1, WorkerTyped DEF Scan, TypeOK, WorkerSound
<1>4. CASE /\ astray' = astray /\ worker.left > 0
           /\ \E c \in Clients :
                 worker' = [worker EXCEPT !.passed = open[c], !.left = @ - 1,
                    !.due = IF Active(open[c], worker.at) THEN @
                                                          ELSE Append(@, c)]
  <2>1. PICK n \in Nat, left \in Nat, due \in Seq(Clients) :
           worker' = [worker EXCEPT !.passed = n, !.left = left, !.due = due]
    <3>1. PICK c \in Clients :
             worker' = [worker EXCEPT !.passed = open[c], !.left = @ - 1,
                 !.due = IF Active(open[c], worker.at) THEN @ ELSE Append(@, c)]
      BY <1>4
    <3>2. open[c] \in Nat /\ worker.left - 1 \in Nat
      BY <1>1, <1>4 DEF TypeOK, Worker
    <3>3. worker.due \in Seq(Clients) /\ Append(worker.due, c) \in Seq(Clients)
      BY <1>1 DEF Worker
    <3> QED
      BY <3>1, <3>2, <3>3
  <2>2. worker' \in Worker /\ worker'.pc = "scan"
    BY <1>1, <2>1 DEF Worker, WorkerPC
  <2> QED
    BY <1>1, <1>4, <2>2, WorkerTyped DEF Scan, TypeOK, WorkerSound
<1> QED
  BY <1>2, <1>3, <1>4 DEF Scan, OpenClients

\* What a due client's bucket becomes.
LEMMA EmitEffect ==
    ASSUME TInv, Emit, worker.due # << >>, open[Head(worker.due)] # 0
    PROVE  LET c == Head(worker.due)
               b == open[c]
           IN  /\ c \in Clients /\ b \in DOMAIN buckets
               /\ open' = [open EXCEPT ![c] = 0]
               /\ worker' \in Worker /\ worker'.pc = "dump"
               /\ worker'.bucket = b /\ worker'.out = worker.out
<1>1. TypeOK /\ worker \in Worker /\ worker.due \in Seq(Clients)
  BY Busy DEF TInv, Emit, Worker
<1> DEFINE c == Head(worker.due)
           b == open[c]
<1>2. c \in Clients /\ Tail(worker.due) \in Seq(Clients)
  BY <1>1
<1>3. b \in DOMAIN buckets /\ b \in Nat
  BY <1>1, <1>2 DEF TypeOK
<1>4. open' = [open EXCEPT ![c] = 0]
  BY DEF Emit
<1>5. PICK due \in Seq(Clients), d \in Nat :
         /\ d = b /\ worker' = [worker EXCEPT !.pc = "dump", !.due = due, !.bucket = d]
  BY <1>2, <1>3 DEF Emit
<1>6. /\ worker' \in Worker /\ worker'.pc = "dump" /\ worker'.bucket = d
      /\ worker'.out = worker.out
  BY <1>1, <1>5 DEF Worker, WorkerPC
<1> QED
  BY <1>2, <1>3, <1>4, <1>5, <1>6

LEMMA TypeEmit == ASSUME TInv, Emit PROVE TInv'
<1>1. TypeOK /\ worker \in Worker
  BY Busy DEF TInv, Emit
<1>2. CASE worker.due = << >>
  <2>1. worker' \in Worker /\ worker'.pc = "process"
    BY <1>1, <1>2 DEF Emit, Worker, WorkerPC
  <2> QED
    BY <1>1, <1>2, <2>1, WorkerTyped DEF Emit, TypeOK, WorkerSound
<1>3. CASE worker.due # << >> /\ open[Head(worker.due)] = 0
  BY <1>1, <1>3, DieTyped, StoppedTyped, WorkerTyped DEF Emit, TypeOK
<1>4. CASE worker.due # << >> /\ open[Head(worker.due)] # 0
  <2>1. open' \in [Clients -> 0 .. Len(buckets)]
    <3>1. PICK c \in Clients : open' = [open EXCEPT ![c] = 0]
      BY <1>4, EmitEffect
    <3>2. 0 \in 0 .. Len(buckets)
      BY <1>1 DEF TypeOK
    <3> QED
      BY <1>1, <3>1, <3>2 DEF TypeOK
  <2>2. worker' \in Worker /\ WorkerSound'
    BY <1>4, EmitEffect DEF WorkerSound, Emit
  <2> QED
    BY <1>1, <1>4, <2>1, <2>2, WorkerTyped DEF Emit, TypeOK
<1> QED
  BY <1>2, <1>3, <1>4

LEMMA CopyEffect ==
    ASSUME TInv, CopyBucket
    PROVE  LET x == Dump(worker.bucket)
           IN  /\ worker \in Worker /\ worker.bucket \in DOMAIN buckets
               /\ x \in Batch /\ worker.out \in Seq(Batch)
               /\ worker' \in Worker /\ worker'.pc = "emit"
               /\ worker'.out = Append(worker.out, x)
<1>1. /\ TypeOK /\ worker \in Worker /\ worker.bucket \in DOMAIN buckets
      /\ worker.out \in Seq(Batch)
  BY Busy DEF TInv, CopyBucket, WorkerSound, Worker
<1> DEFINE x == Dump(worker.bucket)
<1>2. x \in Batch
  BY <1>1, DumpTyped
<1>3. PICK out \in Seq(Batch) :
         /\ out = Append(worker.out, x)
         /\ worker' = [worker EXCEPT !.pc = "emit", !.out = out]
  <2>1. Append(worker.out, x) \in Seq(Batch)
    <3> HIDE DEF x
    <3> QED
      BY <1>1, <1>2
  <2>2. worker' = [worker EXCEPT !.pc = "emit", !.out = Append(worker.out, x)]
    BY DEF CopyBucket
  <2> QED
    BY <2>1, <2>2
<1>4. worker' \in Worker /\ worker'.pc = "emit" /\ worker'.out = out
  BY <1>1, <1>3 DEF Worker, WorkerPC
<1> QED
  BY <1>1, <1>2, <1>3, <1>4

LEMMA TypeCopyBucket == ASSUME TInv, CopyBucket PROVE TInv'
<1>1. worker' \in Worker /\ worker'.pc = "emit"
  BY CopyEffect
<1> QED
  BY <1>1, WorkerTyped DEF CopyBucket, TInv, TypeOK, WorkerSound

LEMMA TypeProcessDue == ASSUME TInv, ProcessDue PROVE TInv'
<1>1. TypeOK /\ worker \in Worker /\ worker.out \in Seq(Batch)
  BY Busy DEF TInv, ProcessDue, Worker
<1>2. worker.out # << >> =>
         /\ Append(ingested, Head(worker.out)) \in Seq(Batch)
         /\ Tail(worker.out) \in Seq(Batch)
  BY <1>1 DEF TypeOK
<1>3. ingested' \in Seq(Batch)
  BY <1>1, <1>2 DEF ProcessDue, TypeOK
<1>4. CASE \/ worker' = Idle /\ astray' = astray
           \/ \E batches : Die(batches)
  <2>1. worker' \in {Idle, Dead} /\ astray' \subseteq Messages
    BY <1>1, <1>4, DieTyped DEF TypeOK
  <2> QED
    BY <1>1, <1>3, <2>1, StoppedTyped, WorkerTyped DEF ProcessDue, TypeOK
<1>5. CASE /\ worker.out # << >> /\ astray' = astray
           /\ worker' = [worker EXCEPT !.out = Tail(@)]
  <2>1. PICK out \in Seq(Batch) : worker' = [worker EXCEPT !.out = out]
    BY <1>2, <1>5
  <2>2. worker' \in Worker /\ worker'.pc = worker.pc
    BY <1>1, <2>1 DEF Worker
  <2> QED
    BY <1>1, <1>3, <1>5, <2>2, WorkerTyped DEF ProcessDue, TypeOK, WorkerSound
<1> QED
  BY <1>4, <1>5 DEF ProcessDue

LEMMA TypeInit == Init => TInv
<1> SUFFICES ASSUME Init PROVE TInv
  OBVIOUS
<1>1. /\ buckets = << >> /\ buckets \in Seq(OpenBucket) /\ Len(buckets) = 0
      /\ ingested \in Seq(Batch) /\ added \in Seq(Messages)
  BY DEF Init
<1>2. open \in [Clients -> 0 .. Len(buckets)]
  BY <1>1 DEF Init
<1> QED
  BY <1>1, <1>2 DEF Init, TInv, TypeOK, HookSound, WorkerSound, Idle

LEMMA TypeStep == TInv /\ [Next]_vars => TInv'
<1> SUFFICES ASSUME TInv, [Next]_vars PROVE TInv'
  OBVIOUS
<1>1. CASE \E body \in Bodies : Deliver(body)
  BY <1>1, TypeDeliver
<1>2. CASE HookStep
  BY <1>2, TypeClaim, TypeGet, TypeDisplace, TypeInsert, TypeAppend, TypeTouch,
     TypeProcessDisplaced DEF HookStep
<1>3. CASE WorkerStep
  <2>1. IsFiniteSet(OpenClients)
    BY FS_Subset, IngestionAssumption DEF OpenClients
  <2> QED
    BY <1>3, <2>1, TypeStartFlush, TypeScan, TypeEmit, TypeCopyBucket,
       TypeProcessDue DEF WorkerStep
<1>4. CASE Tick
  BY <1>4 DEF Tick, TInv, TypeOK, HookSound, WorkerSound
<1>5. CASE UNCHANGED vars
  BY <1>5 DEF vars, TInv, TypeOK, HookSound, WorkerSound
<1> QED
  BY <1>1, <1>2, <1>3, <1>4, <1>5 DEF Next

\* Types of the aggregator and of what its two threads hold, access by access.
THEOREM TypeCorrect == Spec => []TypeOK
<1>1. Spec => []TInv
  BY TypeInit, TypeStep, PTL DEF Spec
<1>2. TInv => TypeOK
  BY DEF TInv
<1> QED
  BY <1>1, <1>2, PTL

-----------------------------------------------------------------------------
(* Each message is in one bucket, where it stays. *)

InBucket(b, i) == b \in DOMAIN buckets /\ i \in DOMAIN buckets[b].messages

IdAt(b, i) == buckets[b].messages[i].id

Unique ==
    \A b, d, i, j : InBucket(b, i) /\ InBucket(d, j) /\ IdAt(b, i) = IdAt(d, j)
                        => b = d /\ i = j

Known == \A b, i : InBucket(b, i) => IdAt(b, i) \in claimed

\* The message at hand is in no bucket before it is appended to one.
Fresh ==
    hook.pc \in {"get", "displace", "insert", "append"} =>
        /\ Head(hook.left) \in claimed
        /\ \A b, i : InBucket(b, i) => IdAt(b, i) # Head(hook.left)

MInv == Unique /\ Known /\ Fresh

\* No message enters a bucket.
LEMMA NothingEnters ==
    ASSUME MInv, claimed \subseteq claimed',
           \A b, i : InBucket(b, i)' => InBucket(b, i) /\ IdAt(b, i)' = IdAt(b, i),
           \/ hook'.pc \notin {"get", "displace", "insert", "append"}
           \/ /\ hook.pc \in {"get", "displace", "insert", "append"}
              /\ hook'.left = hook.left
    PROVE  MInv'
<1>1. Unique'
  BY DEF MInv, Unique
<1>2. Known'
  BY DEF MInv, Known
<1>3. Fresh'
  <2>1. CASE hook'.pc \notin {"get", "displace", "insert", "append"}
    BY <2>1 DEF Fresh
  <2>2. CASE /\ hook.pc \in {"get", "displace", "insert", "append"}
             /\ hook'.left = hook.left
    BY <2>2 DEF MInv, Fresh
  <2> QED
    BY <2>1, <2>2
<1> QED
  BY <1>1, <1>2, <1>3 DEF MInv

LEMMA SameBuckets ==
    ASSUME buckets' = buckets
    PROVE  \A b, i : /\ InBucket(b, i)' <=> InBucket(b, i)
                     /\ IdAt(b, i)' = IdAt(b, i)
BY DEF InBucket, IdAt

LEMMA Appended ==
    ASSUME NEW S, NEW s \in Seq(S), NEW e \in S
    PROVE  LET n == Len(s) + 1
               t == Append(s, e)
           IN  /\ t \in Seq(S) /\ DOMAIN t = DOMAIN s \cup {n}
               /\ n \notin DOMAIN s /\ t[n] = e
               /\ \A i \in DOMAIN s : t[i] = s[i]
OBVIOUS

LEMMA NextPC ==
    ASSUME hook \in Hook, NextMessage
    PROVE  hook'.pc = "claim"
BY DEF NextMessage, Hook

LEMMA MessagesClaim == ASSUME TInv, MInv, Claim PROVE MInv'
<1>1. /\ hook \in Hook /\ hook.left \in Seq(Messages) /\ hook.pc = "claim"
  BY Busy DEF TInv, Claim, Hook
<1>2. CASE hook' = Idle \/ NextMessage
  <2>1. hook'.pc \in {"idle", "claim"}
    BY <1>1, <1>2, NextPC DEF Idle
  <2>2. claimed \subseteq claimed'
    BY DEF Claim
  <2> QED
    BY <2>1, <2>2, NothingEnters, SameBuckets DEF Claim
<1>3. CASE /\ Head(hook.left) \notin claimed
           /\ claimed' = claimed \cup {Head(hook.left)}
           /\ hook' = [hook EXCEPT !.pc = "get"]
  <2>1. hook'.left = hook.left
    BY <1>1, <1>3 DEF Hook
  <2>2. \A b, i : InBucket(b, i) => IdAt(b, i) # Head(hook.left)
    BY <1>3 DEF MInv, Known
  <2>3. Unique' /\ Known'
    BY <1>3, SameBuckets DEF MInv, Unique, Known, Claim
  <2>4. Fresh'
    BY <1>3, <2>1, <2>2, SameBuckets DEF Fresh, Claim
  <2> QED
    BY <2>3, <2>4 DEF MInv
<1> QED
  BY <1>2, <1>3 DEF Claim, Answer

LEMMA MessagesInsert == ASSUME TInv, MInv, Insert PROVE MInv'
<1> DEFINE new == [client_id |-> Client, started_at |-> hook.at,
                   last_at |-> hook.at, messages |-> << >>]
<1>1. TypeOK /\ hook \in Hook /\ hook.pc = "insert"
  BY Busy DEF TInv, Insert
<1>2. new.messages = << >> /\ DOMAIN new.messages = {}
  OBVIOUS
<1>3. buckets' = Append(buckets, new)
  BY DEF Insert
<1> HIDE DEF new
<1>4. \A b, i : InBucket(b, i)' => InBucket(b, i) /\ IdAt(b, i)' = IdAt(b, i)
  <2> SUFFICES ASSUME NEW b, NEW i, InBucket(b, i)'
               PROVE  InBucket(b, i) /\ IdAt(b, i)' = IdAt(b, i)
    OBVIOUS
  <2>1. /\ DOMAIN buckets' = 1 .. Len(buckets) + 1 /\ Len(buckets) \in Nat
        /\ buckets'[Len(buckets) + 1] = new /\ DOMAIN buckets = 1 .. Len(buckets)
        /\ \A d \in DOMAIN buckets : buckets'[d] = buckets[d]
    BY <1>1, <1>3 DEF TypeOK
  <2>2. b # Len(buckets) + 1
    BY <1>2, <2>1 DEF InBucket
  <2>3. b \in DOMAIN buckets /\ buckets'[b] = buckets[b]
    BY <2>1, <2>2 DEF InBucket
  <2> QED
    BY <2>3 DEF InBucket, IdAt
<1>5. hook'.left = hook.left
  BY <1>1 DEF Insert, Hook
<1> QED
  BY <1>1, <1>4, <1>5, NothingEnters DEF Insert

LEMMA MessagesAppend == ASSUME TInv, MInv, AppendMessage PROVE MInv'
<1>1. PICK b0 \in DOMAIN buckets, m \in Messages, e \in Entry, x \in OpenBucket :
         /\ b0 = hook.bucket /\ m = Head(hook.left) /\ e.id = m
         /\ x.messages = Append(buckets[b0].messages, e)
         /\ buckets' = [buckets EXCEPT ![b0] = x] /\ buckets[b0] \in OpenBucket
  <2>1. Head(hook.left) \in Messages
    BY ClientTyped DEF AppendMessage
  <2> DEFINE b == hook.bucket
             e == [id |-> Head(hook.left), order |-> Len(buckets[b].messages),
                   at |-> hook.at]
             x == [buckets[b] EXCEPT !.messages = Append(buckets[b].messages, e)]
  <2>2. /\ b \in DOMAIN buckets /\ buckets[b] \in OpenBucket
        /\ e \in Entry /\ x \in OpenBucket
        /\ buckets' = [buckets EXCEPT ![b] = x]
        /\ x.messages = Append(buckets[b].messages, e)
    BY AppendEffect
  <2>3. e.id = Head(hook.left)
    OBVIOUS
  <2> HIDE DEF e, x
  <2> QED
    BY <2>1, <2>2, <2>3
<1>2. /\ DOMAIN buckets' = DOMAIN buckets /\ buckets'[b0] = x
      /\ \A d \in DOMAIN buckets : d # b0 => buckets'[d] = buckets[d]
  BY <1>1, BucketReplaced DEF TInv
<1>3. buckets[b0].messages \in Seq(Entry)
  BY <1>1 DEF OpenBucket
<1>4. PICK n \in Nat :
         /\ DOMAIN x.messages = DOMAIN buckets[b0].messages \cup {n}
         /\ n \notin DOMAIN buckets[b0].messages /\ x.messages[n].id = m
         /\ \A i \in DOMAIN buckets[b0].messages :
               x.messages[i] = buckets[b0].messages[i]
  <2>1. PICK n \in Nat : n = Len(buckets[b0].messages) + 1
    BY <1>3
  <2> QED
    BY <1>1, <1>3, <2>1, Appended
<1>5. \A b, i : InBucket(b, i)' <=> InBucket(b, i) \/ (b = b0 /\ i = n)
  BY <1>1, <1>2, <1>4 DEF InBucket
<1>6. \A b, i : InBucket(b, i) => IdAt(b, i)' = IdAt(b, i)
  BY <1>1, <1>2, <1>4 DEF InBucket, IdAt
<1>7. IdAt(b0, n)' = m /\ ~InBucket(b0, n)
  BY <1>1, <1>2, <1>4 DEF InBucket, IdAt
<1>8. m \in claimed /\ \A b, i : InBucket(b, i) => IdAt(b, i) # m
  BY <1>1 DEF MInv, Fresh, AppendMessage
<1>9. Unique'
  <2> SUFFICES ASSUME NEW b, NEW d, NEW i, NEW j, InBucket(b, i)', InBucket(d, j)',
                      IdAt(b, i)' = IdAt(d, j)'
               PROVE  b = d /\ i = j
    BY DEF Unique
  <2>1. CASE InBucket(b, i) /\ InBucket(d, j)
    BY <2>1, <1>6 DEF MInv, Unique
  <2>2. CASE InBucket(b, i) /\ d = b0 /\ j = n
    BY <2>2, <1>6, <1>7, <1>8
  <2>3. CASE b = b0 /\ i = n /\ InBucket(d, j)
    BY <2>3, <1>6, <1>7, <1>8
  <2>4. CASE b = b0 /\ i = n /\ d = b0 /\ j = n
    BY <2>4
  <2> QED
    BY <1>5, <2>1, <2>2, <2>3, <2>4
<1>10. Known'
  BY <1>5, <1>6, <1>7, <1>8 DEF MInv, Known, AppendMessage
<1>11. hook'.pc = "touch"
  BY AppendEffect DEF AppendMessage, Hook
<1> QED
  BY <1>9, <1>10, <1>11 DEF MInv, Fresh

LEMMA MessagesTouch == ASSUME TInv, MInv, Touch PROVE MInv'
<1>1. PICK x \in OpenBucket :
         /\ buckets' = [buckets EXCEPT ![hook.bucket] = x]
         /\ x.messages = buckets[hook.bucket].messages
         /\ hook.bucket \in DOMAIN buckets /\ hook \in Hook
  BY TouchEffect
<1>2. /\ DOMAIN buckets' = DOMAIN buckets /\ buckets'[hook.bucket] = x
      /\ \A d \in DOMAIN buckets : d # hook.bucket => buckets'[d] = buckets[d]
  BY <1>1, BucketReplaced DEF TInv
<1>3. \A b, i : InBucket(b, i)' => InBucket(b, i) /\ IdAt(b, i)' = IdAt(b, i)
  BY <1>1, <1>2 DEF InBucket, IdAt
<1>4. hook'.pc \in {"claim", "process"}
  BY <1>1 DEF Touch, NextMessage, Hook
<1> QED
  BY <1>3, <1>4, NothingEnters DEF Touch

LEMMA MessagesStep == ASSUME TInv, MInv, [Next]_vars PROVE MInv'
<1>1. ASSUME UNCHANGED <<buckets, claimed>>, hook' = hook PROVE MInv'
  BY <1>1, SameBuckets DEF MInv, Unique, Known, Fresh
<1>2. ASSUME NEW body \in Bodies, Deliver(body) PROVE MInv'
  <2>1. hook'.pc = "claim"
    BY <1>2 DEF Deliver
  <2> QED
    BY <1>2, <2>1, NothingEnters, SameBuckets DEF Deliver
<1>3. CASE Get
  <2>1. hook \in Hook /\ hook.pc = "get"
    BY <1>3, Busy DEF TInv, Get
  <2>2. hook'.left = hook.left
    BY <1>3, <2>1 DEF Get, Hook
  <2> QED
    BY <1>3, <2>1, <2>2, NothingEnters, SameBuckets DEF Get
<1>4. CASE Displace
  <2>1. hook \in Hook /\ hook.pc = "displace"
    BY <1>4, Busy DEF TInv, Displace
  <2>2. hook' = Idle \/ hook'.left = hook.left
    BY <1>4, <2>1 DEF Displace, Answer, Hook
  <2>3. Idle.pc = "idle"
    BY DEF Idle
  <2> QED
    BY <1>4, <2>1, <2>2, <2>3, NothingEnters, SameBuckets DEF Displace
<1>5. CASE ProcessDisplaced
  <2>1. hook \in Hook
    BY <1>5, Busy DEF TInv, ProcessDisplaced
  <2>2. hook'.pc \in {"idle", "claim"}
    BY <1>5, <2>1, NextPC DEF ProcessDisplaced, Answer, Idle
  <2> QED
    BY <1>5, <2>2, NothingEnters, SameBuckets DEF ProcessDisplaced
<1>6. CASE WorkerStep
  BY <1>1, <1>6 DEF WorkerStep, StartFlush, Scan, Emit, CopyBucket, ProcessDue
<1>7. CASE Tick
  BY <1>1, <1>7 DEF Tick
<1>8. CASE UNCHANGED vars
  BY <1>1, <1>8 DEF vars
<1> QED
  BY <1>2, <1>3, <1>4, <1>5, <1>6, <1>7, <1>8, MessagesClaim, MessagesInsert,
     MessagesAppend, MessagesTouch DEF Next, HookStep

-----------------------------------------------------------------------------
(* Each bucket is in one place, and a batch is a prefix of its bucket. *)

Displaced == IF hook.pc = "idle" THEN << >> ELSE hook.displaced

Out == IF worker.pc \in {"idle", "dead"} THEN << >> ELSE worker.out

Ids(seq) == {seq[i].request_id : i \in DOMAIN seq}

NoRepeat(seq) ==
    \A i, j \in DOMAIN seq : seq[i].request_id = seq[j].request_id => i = j

InOpen == {open[c] : c \in OpenClients}

Emitted == IF worker.pc = "dump" THEN {worker.bucket} ELSE {}

Apart(I, X, O, P, E) ==
    /\ I \cap X = {} /\ I \cap O = {} /\ I \cap P = {} /\ I \cap E = {}
    /\ X \cap O = {} /\ X \cap P = {} /\ X \cap E = {}
    /\ O \cap P = {} /\ O \cap E = {} /\ P \cap E = {}

Owned == \A c \in OpenClients : buckets[open[c]].client_id = c

Prefix(x, bs) ==
    /\ x.request_id \in DOMAIN bs
    /\ \A i \in DOMAIN x.messages :
          /\ i \in DOMAIN bs[x.request_id].messages
          /\ x.messages[i] = bs[x.request_id].messages[i]

Faithful(seq, bs) == \A i \in DOMAIN seq : Prefix(seq[i], bs)

Settled(ing, dis, out, P, E, bs) ==
    /\ NoRepeat(ing) /\ NoRepeat(out)
    /\ Apart(Ids(ing), Ids(dis), Ids(out), P, E)
    /\ Faithful(ing, bs) /\ Faithful(dis, bs) /\ Faithful(out, bs)

PInv == Owned /\ Settled(ingested, Displaced, Out, InOpen, Emitted, buckets)

\* Buckets only grow, and no bucket changes hands.
Grows(bs, cs) ==
    /\ DOMAIN bs \subseteq DOMAIN cs
    /\ \A b \in DOMAIN bs :
          /\ cs[b].client_id = bs[b].client_id
          /\ DOMAIN bs[b].messages \subseteq DOMAIN cs[b].messages
          /\ \A i \in DOMAIN bs[b].messages :
                cs[b].messages[i] = bs[b].messages[i]

LEMMA FaithfulGrow ==
    ASSUME NEW seq, NEW bs, NEW cs, Faithful(seq, bs), Grows(bs, cs)
    PROVE  Faithful(seq, cs)
BY DEF Faithful, Prefix, Grows

LEMMA OwnedGrow ==
    ASSUME TypeOK, Owned, Grows(buckets, buckets'), open' = open
    PROVE  Owned'
<1> SUFFICES ASSUME NEW c \in OpenClients' PROVE buckets'[open'[c]].client_id = c
  BY DEF Owned
<1>1. c \in OpenClients /\ open[c] \in DOMAIN buckets
  BY DEF OpenClients, TypeOK
<1> QED
  BY <1>1 DEF Owned, Grows

LEMMA GrowsSame == \A bs : Grows(bs, bs)
BY DEF Grows

LEMMA NothingIn ==
    ASSUME NEW seq, seq = << >>, NEW bs
    PROVE  Ids(seq) = {} /\ NoRepeat(seq) /\ Faithful(seq, bs)
<1>1. DOMAIN seq = {}
  OBVIOUS
<1>2. Ids(seq) = {}
  BY <1>1 DEF Ids
<1>3. NoRepeat(seq)
  BY <1>1 DEF NoRepeat
<1>4. Faithful(seq, bs)
  BY <1>1 DEF Faithful
<1> QED
  BY <1>2, <1>3, <1>4

LEMMA AppendIds ==
    ASSUME NEW seq \in Seq(Batch), NEW x \in Batch, NEW bs,
           NoRepeat(seq), x.request_id \notin Ids(seq),
           Faithful(seq, bs), Prefix(x, bs)
    PROVE  LET t == Append(seq, x)
           IN  /\ Ids(t) = Ids(seq) \cup {x.request_id}
               /\ NoRepeat(t) /\ Faithful(t, bs)
<1> DEFINE t == Append(seq, x)
<1>1. PICK n : /\ DOMAIN t = DOMAIN seq \cup {n} /\ n \notin DOMAIN seq
               /\ t[n] = x /\ \A i \in DOMAIN seq : t[i] = seq[i]
  BY Appended
<1> HIDE DEF t
<1>2. Ids(t) = Ids(seq) \cup {x.request_id}
  BY <1>1 DEF Ids
<1>3. NoRepeat(t)
  BY <1>1 DEF NoRepeat, Ids
<1>4. Faithful(t, bs)
  BY <1>1 DEF Faithful
<1> QED
  BY <1>2, <1>3, <1>4 DEF t

LEMMA TailIds ==
    ASSUME NEW seq \in Seq(Batch), seq # << >>, NEW bs,
           NoRepeat(seq), Faithful(seq, bs)
    PROVE  LET x == Head(seq)
               t == Tail(seq)
           IN  /\ x \in Batch /\ t \in Seq(Batch) /\ Prefix(x, bs)
               /\ Ids(seq) = Ids(t) \cup {x.request_id}
               /\ x.request_id \notin Ids(t)
               /\ NoRepeat(t) /\ Faithful(t, bs)
<1> DEFINE x == Head(seq)
           t == Tail(seq)
<1>1. /\ x \in Batch /\ t \in Seq(Batch) /\ x = seq[1] /\ 1 \in DOMAIN seq
      /\ \A i \in DOMAIN t : i + 1 \in DOMAIN seq /\ t[i] = seq[i + 1]
      /\ \A i \in DOMAIN seq : i # 1 => i - 1 \in DOMAIN t /\ t[i - 1] = seq[i]
      /\ DOMAIN t \subseteq Nat \ {0}
  OBVIOUS
<1> HIDE DEF x, t
<1>2. Ids(seq) = Ids(t) \cup {x.request_id}
  <2>1. ASSUME NEW i \in DOMAIN seq
        PROVE  seq[i].request_id \in Ids(t) \cup {x.request_id}
    BY <1>1 DEF Ids
  <2>2. ASSUME NEW i \in DOMAIN t PROVE t[i].request_id \in Ids(seq)
    BY <1>1 DEF Ids
  <2>3. x.request_id \in Ids(seq)
    BY <1>1 DEF Ids
  <2> QED
    BY <2>1, <2>2, <2>3 DEF Ids
<1>3. x.request_id \notin Ids(t)
  <2> SUFFICES ASSUME NEW i \in DOMAIN t, t[i].request_id = x.request_id PROVE FALSE
    BY DEF Ids
  <2> QED
    BY <1>1 DEF NoRepeat
<1>4. NoRepeat(t)
  <2> SUFFICES ASSUME NEW i \in DOMAIN t, NEW j \in DOMAIN t,
                      t[i].request_id = t[j].request_id
               PROVE  i = j
    BY DEF NoRepeat
  <2>1. i + 1 = j + 1
    BY <1>1 DEF NoRepeat
  <2> QED
    BY <1>1, <2>1
<1>5. Faithful(t, bs) /\ Prefix(x, bs)
  BY <1>1 DEF Faithful
<1> QED
  BY <1>1, <1>2, <1>3, <1>4, <1>5 DEF x, t

LEMMA DumpPrefix ==
    ASSUME NEW b \in DOMAIN buckets
    PROVE  Prefix(Dump(b), buckets) /\ Dump(b).request_id = b
BY DEF Prefix, Dump

\* Removing a client from _open takes its bucket out, and no other.
LEMMA TakenOut ==
    ASSUME TypeOK, Owned, NEW c \in Clients, open[c] # 0,
           open' = [open EXCEPT ![c] = 0], buckets' = buckets
    PROVE  InOpen' = InOpen \ {open[c]} /\ open[c] \in InOpen /\ Owned'
<1>1. \A d \in Clients : open'[d] = IF d = c THEN 0 ELSE open[d]
  BY DEF TypeOK
<1>2. OpenClients' = OpenClients \ {c} /\ c \in OpenClients
  BY <1>1 DEF OpenClients
<1>3. \A d \in OpenClients : d # c => open[d] # open[c]
  BY <1>2 DEF Owned
<1>4. Owned'
  BY <1>1, <1>2 DEF Owned, OpenClients
<1> QED
  BY <1>1, <1>2, <1>3, <1>4 DEF InOpen, OpenClients

\* Batches are dropped or stay, and buckets leave their place.
LEMMA Shrinks ==
    ASSUME NEW ing, NEW dis, NEW out, NEW P, NEW E, NEW bs,
           NEW dis2, dis2 = dis \/ dis2 = << >>,
           NEW out2, out2 = out \/ out2 = << >>,
           NEW P2 \in SUBSET P, NEW E2 \in SUBSET E, NEW cs,
           Settled(ing, dis, out, P, E, bs), Grows(bs, cs)
    PROVE  Settled(ing, dis2, out2, P2, E2, cs)
<1>1. Ids(dis2) \subseteq Ids(dis) /\ Faithful(dis2, cs)
  <2>1. CASE dis2 = << >>
    BY <2>1, NothingIn
  <2>2. CASE dis2 = dis
    BY <2>2, FaithfulGrow DEF Settled
  <2> QED
    BY <2>1, <2>2
<1>2. Ids(out2) \subseteq Ids(out) /\ Faithful(out2, cs) /\ NoRepeat(out2)
  <2>1. CASE out2 = << >>
    BY <2>1, NothingIn
  <2>2. CASE out2 = out
    BY <2>2, FaithfulGrow DEF Settled
  <2> QED
    BY <2>1, <2>2
<1>3. Apart(Ids(ing), Ids(dis2), Ids(out2), P2, E2)
  BY <1>1, <1>2 DEF Settled, Apart
<1>4. Faithful(ing, cs)
  BY FaithfulGrow DEF Settled
<1> QED
  BY <1>1, <1>2, <1>3, <1>4 DEF Settled

\* A batch that was displaced, or is the first of those the worker holds, is
\* handed over.
LEMMA DisplacedHanded ==
    ASSUME NEW ing \in Seq(Batch), NEW dis \in Seq(Batch), dis # << >>,
           NEW out, NEW P, NEW E, NEW bs,
           Settled(ing, dis, out, P, E, bs), NEW none, none = << >>
    PROVE  Settled(Append(ing, Head(dis)), none, out, P, E, bs)
<1> DEFINE x == Head(dis)
<1>1. x \in Batch /\ x = dis[1] /\ 1 \in DOMAIN dis
  OBVIOUS
<1>2. x.request_id \in Ids(dis) /\ Prefix(x, bs)
  BY <1>1 DEF Settled, Ids, Faithful
<1>3. x.request_id \notin Ids(ing)
  BY <1>2 DEF Settled, Apart
<1> HIDE DEF x
<1>4. /\ Ids(Append(ing, x)) = Ids(ing) \cup {x.request_id}
      /\ NoRepeat(Append(ing, x)) /\ Faithful(Append(ing, x), bs)
  BY <1>1, <1>2, <1>3, AppendIds DEF Settled
<1>5. Ids(none) = {} /\ Faithful(none, bs)
  BY NothingIn
<1>6. Apart(Ids(Append(ing, x)), Ids(none), Ids(out), P, E)
  BY <1>2, <1>4, <1>5 DEF Settled, Apart
<1> QED
  BY <1>4, <1>5, <1>6 DEF Settled, x

LEMMA OutHanded ==
    ASSUME NEW ing \in Seq(Batch), NEW out \in Seq(Batch), out # << >>,
           NEW dis, NEW P, NEW E, NEW bs, NEW out2, out2 = Tail(out) \/ out2 = << >>,
           Settled(ing, dis, out, P, E, bs)
    PROVE  Settled(Append(ing, Head(out)), dis, out2, P, E, bs)
<1> DEFINE x == Head(out)
           t == Tail(out)
<1>1. /\ x \in Batch /\ t \in Seq(Batch) /\ Prefix(x, bs)
      /\ Ids(out) = Ids(t) \cup {x.request_id} /\ x.request_id \notin Ids(t)
      /\ NoRepeat(t) /\ Faithful(t, bs)
  BY TailIds DEF Settled
<1> HIDE DEF x, t
<1>2. x.request_id \notin Ids(ing)
  BY <1>1 DEF Settled, Apart
<1>3. /\ Ids(Append(ing, x)) = Ids(ing) \cup {x.request_id}
      /\ NoRepeat(Append(ing, x)) /\ Faithful(Append(ing, x), bs)
  BY <1>1, <1>2, AppendIds DEF Settled
<1>4. Ids(out2) \subseteq Ids(t) /\ NoRepeat(out2) /\ Faithful(out2, bs)
  <2>1. CASE out2 = << >>
    BY <2>1, NothingIn
  <2>2. CASE out2 = t
    BY <1>1, <2>2
  <2> QED
    BY <2>1, <2>2 DEF t
<1>5. Apart(Ids(Append(ing, x)), Ids(dis), Ids(out2), P, E)
  BY <1>1, <1>3, <1>4 DEF Settled, Apart
<1> QED
  BY <1>3, <1>4, <1>5 DEF Settled, x

\* A bucket is copied into a batch.
LEMMA OutCopied ==
    ASSUME NEW out \in Seq(Batch), NEW x \in Batch, NEW ing, NEW dis, NEW P,
           NEW bs, Prefix(x, bs),
           Settled(ing, dis, out, P, {x.request_id}, bs)
    PROVE  Settled(ing, dis, Append(out, x), P, {}, bs)
<1>1. /\ Ids(Append(out, x)) = Ids(out) \cup {x.request_id}
      /\ NoRepeat(Append(out, x)) /\ Faithful(Append(out, x), bs)
  BY AppendIds DEF Settled, Apart
<1>2. Apart(Ids(ing), Ids(dis), Ids(Append(out, x)), P, {})
  BY <1>1 DEF Settled, Apart
<1> QED
  BY <1>1, <1>2 DEF Settled

LEMMA Single ==
    ASSUME NEW x
    PROVE  DOMAIN <<x>> = {1} /\ <<x>>[1] = x
OBVIOUS

LEMMA DisplacedCopied ==
    ASSUME NEW x \in Batch, NEW ing, NEW dis, NEW out, NEW P, NEW E, NEW bs,
           NEW P2 \in SUBSET P, x.request_id \in P \ P2, Prefix(x, bs),
           Settled(ing, dis, out, P, E, bs)
    PROVE  Settled(ing, <<x>>, out, P2, E, bs)
<1>1. Ids(<<x>>) = {x.request_id} /\ Faithful(<<x>>, bs)
  BY Single DEF Ids, Faithful
<1>2. Apart(Ids(ing), Ids(<<x>>), Ids(out), P2, E)
  BY <1>1 DEF Settled, Apart
<1> QED
  BY <1>1, <1>2 DEF Settled

\* The worker takes a bucket.
LEMMA TakenByWorker ==
    ASSUME NEW ing, NEW dis, NEW out, NEW P, NEW bs, NEW b \in P,
           Settled(ing, dis, out, P, {}, bs)
    PROVE  Settled(ing, dis, out, P \ {b}, {b}, bs)
BY DEF Settled, Apart

\* A bucket that is in no place yet enters _open.
LEMMA Entered ==
    ASSUME NEW ing, NEW dis, NEW out, NEW P, NEW E, NEW bs, NEW cs, NEW b,
           NEW P2 \in SUBSET (P \cup {b}),
           b \notin Ids(ing) \cup Ids(dis) \cup Ids(out) \cup E,
           Settled(ing, dis, out, P, E, bs), Grows(bs, cs)
    PROVE  Settled(ing, dis, out, P2, E, cs)
<1>1. Faithful(ing, cs) /\ Faithful(dis, cs) /\ Faithful(out, cs)
  BY FaithfulGrow DEF Settled
<1>2. Apart(Ids(ing), Ids(dis), Ids(out), P2, E)
  BY DEF Settled, Apart
<1> QED
  BY <1>1, <1>2 DEF Settled

LEMMA BucketGrows ==
    ASSUME TypeOK, NEW b \in DOMAIN buckets, NEW x \in OpenBucket,
           buckets' = [buckets EXCEPT ![b] = x],
           x.client_id = buckets[b].client_id,
           \A i \in DOMAIN buckets[b].messages :
              i \in DOMAIN x.messages /\ x.messages[i] = buckets[b].messages[i]
    PROVE  Grows(buckets, buckets')
<1>1. /\ DOMAIN buckets' = DOMAIN buckets /\ buckets'[b] = x
      /\ \A d \in DOMAIN buckets : d # b => buckets'[d] = buckets[d]
  BY BucketReplaced
<1> SUFFICES ASSUME NEW d \in DOMAIN buckets
             PROVE  /\ buckets'[d].client_id = buckets[d].client_id
                    /\ DOMAIN buckets[d].messages \subseteq DOMAIN buckets'[d].messages
                    /\ \A i \in DOMAIN buckets[d].messages :
                          buckets'[d].messages[i] = buckets[d].messages[i]
  BY <1>1 DEF Grows
<1>2. CASE d = b
  BY <1>1, <1>2
<1>3. CASE d # b
  BY <1>1, <1>3
<1> QED
  BY <1>2, <1>3

\* Steps of the webhook outside _open.
LEMMA HookPlaces ==
    ASSUME TypeOK, PInv, UNCHANGED <<open, ingested, worker>>,
           Grows(buckets, buckets'),
           Displaced' = Displaced \/ Displaced' = << >>
    PROVE  PInv'
<1>1. Out' = Out /\ InOpen' = InOpen /\ Emitted' = Emitted
  BY DEF Out, InOpen, OpenClients, Emitted
<1>2. Owned'
  BY OwnedGrow DEF PInv
<1>3. Settled(ingested, Displaced', Out', InOpen', Emitted', buckets')
  BY <1>1, Shrinks DEF PInv
<1> QED
  BY <1>2, <1>3 DEF PInv

\* Steps of the worker that move no bucket.
LEMMA WorkerPlaces ==
    ASSUME PInv, UNCHANGED <<buckets, open, ingested, hook>>,
           Out' = Out \/ Out' = << >>, Emitted' \subseteq Emitted
    PROVE  PInv'
<1>1. Displaced' = Displaced /\ InOpen' = InOpen
  BY DEF Displaced, InOpen, OpenClients
<1>2. Owned'
  BY DEF PInv, Owned, OpenClients
<1>3. Settled(ingested, Displaced', Out', InOpen', Emitted', buckets')
  BY <1>1, Shrinks, GrowsSame DEF PInv
<1> QED
  BY <1>2, <1>3 DEF PInv

LEMMA AnswerPlaces ==
    ASSUME Answer
    PROVE  Displaced' = << >>
BY DEF Answer, Displaced, Idle

LEMMA NextPlaces ==
    ASSUME hook \in Hook, NextMessage
    PROVE  Displaced' = << >>
<1>1. hook'.displaced = << >>
  BY DEF NextMessage, Hook
<1> QED
  BY <1>1, NextPC DEF Displaced

LEMMA PlacesQuiet ==
    ASSUME TInv, PInv,
           \/ \E body \in Bodies : Deliver(body)
           \/ Claim
           \/ Get
    PROVE  PInv'
<1>1. Grows(buckets, buckets') /\ UNCHANGED <<open, ingested, worker>>
  BY GrowsSame DEF Deliver, Claim, Get
<1>2. ASSUME NEW body \in Bodies, Deliver(body) PROVE Displaced' = << >>
  BY <1>2 DEF Deliver, Displaced
<1>3. ASSUME Claim PROVE Displaced' = Displaced \/ Displaced' = << >>
  <2>1. hook \in Hook
    BY <1>3, Busy DEF TInv, Claim
  <2>2. CASE Answer \/ NextMessage
    BY <2>1, <2>2, AnswerPlaces, NextPlaces
  <2>3. CASE hook' = [hook EXCEPT !.pc = "get"]
    <3>1. /\ hook'.pc = "get" /\ hook'.displaced = hook.displaced
          /\ hook.pc = "claim"
      BY <1>3, <2>1, <2>3 DEF Hook, Claim
    <3> QED
      BY <3>1 DEF Displaced
  <2> QED
    BY <1>3, <2>2, <2>3 DEF Claim
<1>4. ASSUME Get PROVE Displaced' = Displaced
  <2>1. hook \in Hook /\ hook.pc = "get"
    BY <1>4, Busy DEF TInv, Get
  <2>2. hook'.displaced = hook.displaced /\ hook'.pc # "idle"
    BY <1>4, <2>1 DEF Get, Hook
  <2> QED
    BY <2>1, <2>2 DEF Displaced
<1> QED
  BY <1>1, <1>2, <1>3, <1>4, HookPlaces DEF TInv

LEMMA PlacesDisplace == ASSUME TInv, PInv, Displace PROVE PInv'
<1>1. /\ TypeOK /\ hook \in Hook /\ Client \in Clients /\ hook.pc = "displace"
      /\ Owned /\ Displaced = << >>
  BY ClientTyped DEF TInv, Displace, PInv, HookSound, Displaced
<1>2. CASE open[Client] = 0
  BY <1>1, <1>2, AnswerPlaces, HookPlaces, GrowsSame DEF Displace
<1>3. CASE open[Client] # 0
  <2>1. PICK b \in DOMAIN buckets, x \in Batch :
           b = open[Client] /\ x = Dump(b)
    BY <1>1, <1>3, DumpTyped DEF TypeOK
  <2>2. /\ open' = [open EXCEPT ![Client] = 0]
        /\ hook' = [hook EXCEPT !.pc = "insert", !.displaced = <<x>>]
        /\ UNCHANGED <<buckets, ingested, worker>>
    BY <1>3, <2>1 DEF Displace
  <2>3. Prefix(x, buckets) /\ x.request_id = b
    BY <2>1, DumpPrefix
  <2>4. InOpen' = InOpen \ {b} /\ b \in InOpen /\ Owned'
    BY <1>1, <1>3, <2>1, <2>2, TakenOut
  <2>5. Displaced' = <<x>>
    BY <1>1, <2>2 DEF Displaced, Hook
  <2>6. Out' = Out /\ Emitted' = Emitted
    BY <2>2 DEF Out, Emitted
  <2>7. Settled(ingested, <<x>>, Out, InOpen', Emitted, buckets)
    BY <2>3, <2>4, DisplacedCopied DEF PInv
  <2> QED
    BY <2>2, <2>4, <2>5, <2>6, <2>7 DEF PInv
<1> QED
  BY <1>2, <1>3

LEMMA PlacesInsert == ASSUME TInv, PInv, Insert PROVE PInv'
<1>1. /\ TypeOK /\ hook \in Hook /\ Client \in Clients /\ hook.pc = "insert"
  BY ClientTyped DEF TInv, Insert
<1>2. PICK new \in OpenBucket :
         new.client_id = Client /\ buckets' = Append(buckets, new)
  <2> DEFINE new == [client_id |-> Client, started_at |-> hook.at,
                     last_at |-> hook.at, messages |-> << >>]
  <2>1. new \in OpenBucket
    BY <1>1 DEF OpenBucket, Hook
  <2>2. new.client_id = Client /\ buckets' = Append(buckets, new)
    BY DEF Insert
  <2> HIDE DEF new
  <2> QED
    BY <2>1, <2>2
<1>3. PICK b \in Nat :
         /\ b = Len(buckets) + 1 /\ b \notin DOMAIN buckets /\ b # 0
         /\ DOMAIN buckets \subseteq DOMAIN buckets' /\ buckets'[b] = new
         /\ \A d \in DOMAIN buckets : buckets'[d] = buckets[d]
  <2>1. PICK b \in Nat : b = Len(buckets) + 1 /\ b # 0
    BY <1>1 DEF TypeOK
  <2> QED
    BY <1>2, <1>1, <2>1, Appended DEF TypeOK
<1>4. Grows(buckets, buckets')
  BY <1>3 DEF Grows
<1>5. \A c \in Clients : open'[c] = IF c = Client THEN b ELSE open[c]
  BY <1>1, <1>3 DEF Insert, TypeOK
<1>6. InOpen' \subseteq InOpen \cup {b}
  BY <1>5 DEF InOpen, OpenClients
<1>7. Owned'
  <2> SUFFICES ASSUME NEW c \in Clients, open'[c] # 0
               PROVE  buckets'[open'[c]].client_id = c
    BY DEF Owned, OpenClients
  <2>1. CASE c = Client
    BY <1>2, <1>3, <1>5, <2>1
  <2>2. CASE c # Client
    <3>1. c \in OpenClients /\ open[c] \in DOMAIN buckets /\ open'[c] = open[c]
      BY <1>1, <1>5, <2>2 DEF OpenClients, TypeOK
    <3> QED
      BY <1>3, <3>1 DEF PInv, Owned
  <2> QED
    BY <2>1, <2>2
<1>8. Displaced' = Displaced
  <2>1. hook'.displaced = hook.displaced /\ hook'.pc = "append"
    BY <1>1 DEF Insert, Hook
  <2> QED
    BY <1>1, <2>1 DEF Displaced
<1>9. Out' = Out /\ Emitted' = Emitted /\ ingested' = ingested
  BY DEF Out, Emitted, Insert
<1>10. b \notin Ids(ingested) \cup Ids(Displaced) \cup Ids(Out) \cup Emitted
  <2>1. /\ \A i \in DOMAIN ingested : ingested[i].request_id # b
        /\ \A i \in DOMAIN Displaced : Displaced[i].request_id # b
        /\ \A i \in DOMAIN Out : Out[i].request_id # b
    BY <1>3 DEF PInv, Settled, Faithful, Prefix
  <2>2. b \notin Emitted
    BY <1>3 DEF Emitted, TInv, WorkerSound
  <2> QED
    BY <2>1, <2>2 DEF Ids
<1>11. Settled(ingested, Displaced, Out, InOpen', Emitted, buckets')
  BY <1>4, <1>6, <1>10, Entered DEF PInv
<1> QED
  BY <1>7, <1>8, <1>9, <1>11 DEF PInv

LEMMA PlacesAppend == ASSUME TInv, PInv, AppendMessage PROVE PInv'
<1> DEFINE b == hook.bucket
           e == [id |-> Head(hook.left), order |-> Len(buckets[b].messages),
                 at |-> hook.at]
           x == [buckets[b] EXCEPT !.messages = Append(buckets[b].messages, e)]
<1>1. /\ hook \in Hook /\ b \in DOMAIN buckets /\ buckets[b] \in OpenBucket
      /\ e \in Entry /\ x \in OpenBucket
      /\ buckets' = [buckets EXCEPT ![b] = x]
      /\ x.client_id = buckets[b].client_id
      /\ x.messages = Append(buckets[b].messages, e)
  BY AppendEffect
<1> HIDE DEF x, e
<1>2. \A i \in DOMAIN buckets[b].messages :
         i \in DOMAIN x.messages /\ x.messages[i] = buckets[b].messages[i]
  BY <1>1, Appended DEF OpenBucket
<1>3. Grows(buckets, buckets')
  BY <1>1, <1>2, BucketGrows DEF TInv
<1>4. Displaced' = Displaced
  BY <1>1 DEF AppendMessage, Hook, Displaced
<1> QED
  BY <1>3, <1>4, HookPlaces DEF AppendMessage, TInv

LEMMA PlacesTouch == ASSUME TInv, PInv, Touch PROVE PInv'
<1>1. PICK b \in DOMAIN buckets, x \in OpenBucket :
         /\ b = hook.bucket /\ buckets' = [buckets EXCEPT ![b] = x]
         /\ x.client_id = buckets[b].client_id
         /\ x.messages = buckets[b].messages /\ hook \in Hook
  BY TouchEffect
<1>2. Grows(buckets, buckets')
  BY <1>1, BucketGrows DEF TInv
<1>3. Displaced' = Displaced \/ Displaced' = << >>
  <2>1. CASE NextMessage
    BY <1>1, <2>1, NextPlaces
  <2>2. CASE hook' = [hook EXCEPT !.pc = "process"]
    <3>1. /\ hook'.displaced = hook.displaced /\ hook'.pc = "process"
          /\ hook.pc = "touch"
      BY <1>1, <2>2 DEF Hook, Touch
    <3> QED
      BY <3>1 DEF Displaced
  <2> QED
    BY <2>1, <2>2 DEF Touch
<1> QED
  BY <1>2, <1>3, HookPlaces DEF Touch, TInv

LEMMA PlacesProcessDisplaced == ASSUME TInv, PInv, ProcessDisplaced PROVE PInv'
<1>1. /\ hook \in Hook /\ hook.displaced \in Seq(Batch) /\ hook.pc = "process"
      /\ hook.displaced # << >> /\ Displaced = hook.displaced
      /\ ingested \in Seq(Batch)
  BY ClientTyped DEF TInv, TypeOK, ProcessDisplaced, HookSound, Hook, Displaced
<1>2. Displaced' = << >>
  BY <1>1, AnswerPlaces, NextPlaces DEF ProcessDisplaced
<1>3. CASE ingested' = ingested
  BY <1>2, <1>3, HookPlaces, GrowsSame DEF ProcessDisplaced, TInv
<1>4. CASE ingested' = Append(ingested, Head(hook.displaced))
  <2>1. /\ Out' = Out /\ Emitted' = Emitted /\ InOpen' = InOpen
        /\ buckets' = buckets /\ Owned'
    BY DEF Out, Emitted, InOpen, OpenClients, ProcessDisplaced, PInv, Owned
  <2>2. Settled(ingested', Displaced', Out, InOpen, Emitted, buckets)
    BY <1>1, <1>2, <1>4, DisplacedHanded DEF PInv
  <2> QED
    BY <2>1, <2>2 DEF PInv
<1> QED
  BY <1>3, <1>4 DEF ProcessDisplaced

LEMMA StopPlaces ==
    ASSUME worker' \in {Idle, Dead}
    PROVE  Out' = << >> /\ Emitted' = {}
BY DEF Out, Emitted, Idle, Dead

\* The worker goes on with the batches it has.
LEMMA SameOut ==
    ASSUME worker' \in Worker, worker \in Worker, worker'.out = worker.out,
           worker'.pc # "dump"
    PROVE  Out' = Out /\ Emitted' = {}
BY DEF Out, Emitted, Worker, WorkerPC

LEMMA PlacesStartFlush == ASSUME TInv, PInv, StartFlush PROVE PInv'
<1>1. Out' = << >> /\ Emitted' = {}
  BY DEF StartFlush, Out, Emitted
<1> QED
  BY <1>1, WorkerPlaces DEF StartFlush

LEMMA PlacesScan == ASSUME TInv, PInv, Scan PROVE PInv'
<1>1. worker \in Worker /\ worker.pc = "scan"
  BY Busy DEF TInv, Scan
<1>2. CASE worker' = Dead
  BY <1>2, StopPlaces, WorkerPlaces DEF Scan
<1>3. CASE worker' # Dead
  <2>1. worker'.pc \in {"scan", "emit"} /\ worker'.out = worker.out
    BY <1>1, <1>3 DEF Scan, Worker, Die
  <2>2. Out' = Out /\ Emitted' = {}
    BY <1>1, <2>1 DEF Out, Emitted
  <2> QED
    BY <2>2, WorkerPlaces DEF Scan
<1> QED
  BY <1>2, <1>3

LEMMA PlacesEmit == ASSUME TInv, PInv, Emit PROVE PInv'
<1>1. TypeOK /\ worker \in Worker /\ worker.pc = "emit" /\ Owned
  BY Busy DEF TInv, Emit, PInv
<1>2. CASE worker.due = << >>
  <2>1. worker'.pc = "process" /\ worker'.out = worker.out
    BY <1>1, <1>2 DEF Emit, Worker
  <2>2. Out' = Out /\ Emitted' = {}
    BY <1>1, <2>1 DEF Out, Emitted
  <2> QED
    BY <1>2, <2>2, WorkerPlaces DEF Emit
<1>3. CASE worker.due # << >> /\ open[Head(worker.due)] = 0
  BY <1>3, StopPlaces, WorkerPlaces DEF Emit, Die
<1>4. CASE worker.due # << >> /\ open[Head(worker.due)] # 0
  <2>1. PICK c \in Clients, b \in DOMAIN buckets :
           /\ b = open[c] /\ open' = [open EXCEPT ![c] = 0]
           /\ worker'.pc = "dump" /\ worker'.bucket = b
           /\ worker'.out = worker.out /\ open[c] # 0
    BY <1>4, EmitEffect
  <2>2. Out' = Out /\ Emitted' = {b} /\ Emitted = {}
    BY <1>1, <2>1 DEF Out, Emitted
  <2>3. InOpen' = InOpen \ {b} /\ b \in InOpen /\ Owned'
    BY <1>1, <2>1, TakenOut DEF Emit
  <2>4. Settled(ingested, Displaced, Out, InOpen \ {b}, {b}, buckets)
    BY <2>2, <2>3, TakenByWorker DEF PInv
  <2>5. Displaced' = Displaced /\ ingested' = ingested /\ buckets' = buckets
    BY DEF Displaced, Emit
  <2> QED
    BY <2>2, <2>3, <2>4, <2>5 DEF PInv
<1> QED
  BY <1>2, <1>3, <1>4

\* Steps that leave _open and the webhook alone.
LEMMA OthersKeepPlaces ==
    ASSUME PInv, UNCHANGED <<buckets, open, hook>>
    PROVE  /\ Displaced' = Displaced /\ InOpen' = InOpen /\ buckets' = buckets
           /\ Owned'
BY DEF Displaced, InOpen, OpenClients, Owned, PInv

LEMMA PlacesCopyBucket == ASSUME TInv, PInv, CopyBucket PROVE PInv'
<1>1. /\ worker \in Worker /\ worker.pc = "dump"
      /\ worker.bucket \in DOMAIN buckets /\ Dump(worker.bucket) \in Batch
      /\ worker'.pc = "emit" /\ worker'.out = Append(worker.out, Dump(worker.bucket))
      /\ worker.out \in Seq(Batch)
  BY CopyEffect DEF CopyBucket
<1>2. PICK x \in Batch :
         /\ x = Dump(worker.bucket) /\ x.request_id = worker.bucket
         /\ Prefix(x, buckets)
  BY <1>1, DumpPrefix
<1>3. /\ Out = worker.out /\ Out' = Append(worker.out, x)
      /\ Emitted = {x.request_id} /\ Emitted' = {}
  BY <1>1, <1>2 DEF Out, Emitted
<1>4. Settled(ingested, Displaced, Append(worker.out, x), InOpen, {}, buckets)
  BY <1>1, <1>2, <1>3, OutCopied DEF PInv
<1> QED
  BY <1>3, <1>4, OthersKeepPlaces DEF PInv, CopyBucket

LEMMA PlacesProcessDue == ASSUME TInv, PInv, ProcessDue PROVE PInv'
<1>1. /\ worker \in Worker /\ worker.pc = "process" /\ worker.out \in Seq(Batch)
      /\ Out = worker.out /\ Emitted = {} /\ ingested \in Seq(Batch)
  BY Busy DEF TInv, TypeOK, ProcessDue, Worker, Out, Emitted
<1>2. CASE worker' \in {Idle, Dead} /\ ingested' = ingested
  BY <1>2, StopPlaces, WorkerPlaces DEF ProcessDue
<1>3. CASE /\ worker.out # << >>
           /\ ingested' = Append(ingested, Head(worker.out))
           /\ worker' = Dead \/ worker' = [worker EXCEPT !.out = Tail(@)]
  <2>1. Emitted' = {} /\ (Out' = << >> \/ Out' = Tail(worker.out))
    <3>1. CASE worker' = Dead
      BY <3>1, StopPlaces
    <3>2. CASE worker' = [worker EXCEPT !.out = Tail(@)]
      <4>1. worker'.pc = "process" /\ worker'.out = Tail(worker.out)
        BY <1>1, <3>2 DEF Worker
      <4> QED
        BY <4>1 DEF Out, Emitted
    <3> QED
      BY <1>3, <3>1, <3>2
  <2>2. Settled(ingested', Displaced, Out', InOpen, {}, buckets)
    BY <1>1, <1>3, <2>1, OutHanded DEF PInv
  <2> QED
    BY <2>1, <2>2, OthersKeepPlaces DEF PInv, ProcessDue
<1> QED
  BY <1>2, <1>3 DEF ProcessDue, Die

LEMMA PlacesStep == ASSUME TInv, PInv, [Next]_vars PROVE PInv'
<1>1. ASSUME UNCHANGED <<buckets, open, ingested, hook, worker>> PROVE PInv'
  <2>1. Out' = Out /\ Emitted' = Emitted
    BY <1>1 DEF Out, Emitted
  <2> QED
    BY <1>1, <2>1, WorkerPlaces
<1>2. CASE WorkerStep
  BY <1>2, PlacesStartFlush, PlacesScan, PlacesEmit, PlacesCopyBucket,
     PlacesProcessDue DEF WorkerStep
<1>3. CASE HookStep
  BY <1>3, PlacesQuiet, PlacesDisplace, PlacesInsert, PlacesAppend, PlacesTouch,
     PlacesProcessDisplaced DEF HookStep
<1> QED
  BY <1>1, <1>2, <1>3, PlacesQuiet DEF Next, Tick, vars

-----------------------------------------------------------------------------
(* No message is in two requests. *)

IInv == TInv /\ MInv /\ PInv

LEMMA PlacesInit == Init => MInv /\ PInv
<1> SUFFICES ASSUME Init PROVE MInv /\ PInv
  OBVIOUS
<1>1. \A b, i : ~InBucket(b, i)
  BY DEF Init, InBucket
<1>2. MInv
  BY <1>1 DEF MInv, Unique, Known, Fresh, Init, Idle
<1>3. /\ ingested = << >> /\ Displaced = << >> /\ Out = << >>
      /\ InOpen = {} /\ Emitted = {} /\ OpenClients = {}
  BY DEF Init, Idle, Displaced, Out, InOpen, Emitted, OpenClients
<1>4. PICK none : none = << >>
  OBVIOUS
<1>5. Ids(none) = {} /\ NoRepeat(none) /\ Faithful(none, buckets)
  BY <1>4, NothingIn
<1>6. Settled(none, none, none, {}, {}, buckets)
  BY <1>5 DEF Settled, Apart
<1>7. PInv
  BY <1>3, <1>4, <1>6 DEF PInv, Owned
<1> QED
  BY <1>2, <1>7

\* Where the bucket of a place is.
LEMMA PlaceOf ==
    ASSUME IInv, NEW p \in Places
    PROVE  /\ Prefix(p.batch, buckets)
           /\ \/ \E i \in DOMAIN ingested :
                    /\ p.place = <<"ingested", i>>
                    /\ p.batch.request_id = ingested[i].request_id
              \/ \E i \in DOMAIN Displaced :
                    /\ p.place = <<"displaced", i>>
                    /\ p.batch.request_id = Displaced[i].request_id
              \/ \E i \in DOMAIN Out :
                    /\ p.place = <<"out", i>>
                    /\ p.batch.request_id = Out[i].request_id
              \/ /\ p.batch.request_id \in InOpen
                 /\ p.place = <<"open", p.batch.request_id>>
              \/ /\ p.batch.request_id \in Emitted
                 /\ p.place = <<"emitted", 1>>
<1>1. /\ Faithful(ingested, buckets) /\ Faithful(Displaced, buckets)
      /\ Faithful(Out, buckets) /\ TypeOK
  BY DEF IInv, PInv, Settled, TInv
<1>2. ASSUME NEW i \in DOMAIN ingested,
             p = [place |-> <<"ingested", i>>, batch |-> ingested[i]]
      PROVE  Prefix(p.batch, buckets) /\ p.place = <<"ingested", i>>
             /\ p.batch.request_id = ingested[i].request_id
  BY <1>1, <1>2 DEF Faithful
<1>3. ASSUME NEW i \in DOMAIN hook.displaced, hook # Idle,
             p = [place |-> <<"displaced", i>>, batch |-> hook.displaced[i]]
      PROVE  Prefix(p.batch, buckets) /\ p.place = <<"displaced", i>>
             /\ i \in DOMAIN Displaced
             /\ p.batch.request_id = Displaced[i].request_id
  <2>1. Displaced = hook.displaced
    BY <1>1, <1>3, Busy DEF TypeOK, Displaced
  <2> QED
    BY <1>1, <1>3, <2>1 DEF Faithful
<1>4. ASSUME NEW i \in DOMAIN worker.out, worker \notin {Idle, Dead},
             p = [place |-> <<"out", i>>, batch |-> worker.out[i]]
      PROVE  Prefix(p.batch, buckets) /\ p.place = <<"out", i>>
             /\ i \in DOMAIN Out
             /\ p.batch.request_id = Out[i].request_id
  <2>1. Out = worker.out
    BY <1>1, <1>4, Busy DEF TypeOK, Out
  <2> QED
    BY <1>1, <1>4, <2>1 DEF Faithful
<1>5. ASSUME NEW c \in OpenClients,
             p = [place |-> <<"open", open[c]>>, batch |-> Dump(open[c])]
      PROVE  Prefix(p.batch, buckets) /\ p.batch.request_id \in InOpen
             /\ p.place = <<"open", p.batch.request_id>>
  <2>1. open[c] \in DOMAIN buckets
    BY <1>1 DEF TypeOK, OpenClients
  <2>2. p.batch = Dump(open[c]) /\ p.batch.request_id = open[c]
    BY <1>5, <2>1, DumpPrefix
  <2> QED
    BY <1>5, <2>1, <2>2, DumpPrefix DEF InOpen
<1>6. ASSUME worker.pc = "dump", NEW i \in DOMAIN <<Dump(worker.bucket)>>,
             p = [place |-> <<"emitted", i>>,
                  batch |-> <<Dump(worker.bucket)>>[i]]
      PROVE  Prefix(p.batch, buckets) /\ p.batch.request_id \in Emitted
             /\ p.place = <<"emitted", 1>>
  <2>1. worker.bucket \in DOMAIN buckets
    BY <1>6 DEF IInv, TInv, WorkerSound
  <2>2. i = 1 /\ p.batch = Dump(worker.bucket)
    BY <1>6, Single
  <2> QED
    BY <1>6, <2>1, <2>2, DumpPrefix DEF Emitted
<1>7. \/ \E i \in DOMAIN ingested :
            p = [place |-> <<"ingested", i>>, batch |-> ingested[i]]
      \/ \E c \in OpenClients :
            p = [place |-> <<"open", open[c]>>, batch |-> Dump(open[c])]
      \/ hook # Idle /\ \E i \in DOMAIN hook.displaced :
            p = [place |-> <<"displaced", i>>, batch |-> hook.displaced[i]]
      \/ worker \notin {Idle, Dead} /\ \E i \in DOMAIN worker.out :
            p = [place |-> <<"out", i>>, batch |-> worker.out[i]]
      \/ worker.pc = "dump" /\ \E i \in DOMAIN <<Dump(worker.bucket)>> :
            p = [place |-> <<"emitted", i>>,
                 batch |-> <<Dump(worker.bucket)>>[i]]
  BY DEF Places, Placed
<1> QED
  BY <1>2, <1>3, <1>4, <1>5, <1>6, <1>7

LEMMA OnePlace ==
    ASSUME IInv, NEW p \in Places, NEW q \in Places,
           p.batch.request_id = q.batch.request_id
    PROVE  p.place = q.place
<1>1. /\ NoRepeat(ingested) /\ NoRepeat(Out)
      /\ Apart(Ids(ingested), Ids(Displaced), Ids(Out), InOpen, Emitted)
  BY DEF IInv, PInv, Settled
<1>2. \A i, j \in DOMAIN Displaced : i = j
  BY DEF IInv, TInv, TypeOK, HookSound, Hook, Displaced
<1> DEFINE r == p.batch.request_id
<1> DEFINE InI(x) == \E i \in DOMAIN ingested :
              x.place = <<"ingested", i>> /\ r = ingested[i].request_id
           InX(x) == \E i \in DOMAIN Displaced :
              x.place = <<"displaced", i>> /\ r = Displaced[i].request_id
           InO(x) == \E i \in DOMAIN Out :
              x.place = <<"out", i>> /\ r = Out[i].request_id
           InP(x) == r \in InOpen /\ x.place = <<"open", r>>
           InE(x) == r \in Emitted /\ x.place = <<"emitted", 1>>
<1>3. /\ InI(p) \/ InX(p) \/ InO(p) \/ InP(p) \/ InE(p)
      /\ InI(q) \/ InX(q) \/ InO(q) \/ InP(q) \/ InE(q)
  BY PlaceOf
<1> HIDE DEF r
<1>4. CASE r \in Ids(ingested)
  BY <1>1, <1>3, <1>4 DEF Apart, Ids, NoRepeat
<1>5. CASE r \in Ids(Displaced)
  BY <1>1, <1>2, <1>3, <1>5 DEF Apart, Ids
<1>6. CASE r \in Ids(Out)
  BY <1>1, <1>3, <1>6 DEF Apart, Ids, NoRepeat
<1>7. CASE r \notin Ids(ingested) \cup Ids(Displaced) \cup Ids(Out)
  BY <1>1, <1>3, <1>7 DEF Apart, Ids
<1> QED
  BY <1>4, <1>5, <1>6, <1>7

LEMMA OnceEach == IInv => ProcessedAtMostOnce
<1> SUFFICES ASSUME IInv, NEW p \in Places, NEW q \in Places,
                    NEW i \in DOMAIN p.batch.messages,
                    NEW j \in DOMAIN q.batch.messages,
                    p.batch.messages[i].id = q.batch.messages[j].id
             PROVE  p.place = q.place /\ i = j
  BY DEF ProcessedAtMostOnce
<1>1. Prefix(p.batch, buckets) /\ Prefix(q.batch, buckets)
  BY PlaceOf
<1>2. /\ InBucket(p.batch.request_id, i) /\ InBucket(q.batch.request_id, j)
      /\ IdAt(p.batch.request_id, i) = IdAt(q.batch.request_id, j)
  BY <1>1 DEF Prefix, InBucket, IdAt
<1>3. p.batch.request_id = q.batch.request_id /\ i = j
  BY <1>2 DEF IInv, MInv, Unique
<1> QED
  BY <1>3, OnePlace

\* However the webhook and the flush worker interleave and whatever raises, a
\* message that is delivered again and again is in one request at most.
THEOREM ProcessedAtMostOnceAlways == Spec => []ProcessedAtMostOnce
<1>1. Init => IInv
  BY TypeInit, PlacesInit DEF IInv
<1>2. IInv /\ [Next]_vars => IInv'
  BY TypeStep, MessagesStep, PlacesStep DEF IInv
<1>3. Spec => []IInv
  BY <1>1, <1>2, PTL DEF Spec
<1> QED
  BY <1>3, OnceEach, PTL

-----------------------------------------------------------------------------
(* Buckets, and so requests, respect the windows. *)

Sound(k) ==
    LET ms == k.messages IN
    /\ \A i \in DOMAIN ms :
          /\ sender[ms[i].id] = k.client_id
          /\ k.started_at <= ms[i].at /\ ms[i].at - k.started_at < MaxDuration
    /\ \A i, j \in DOMAIN ms : i < j =>
          /\ ms[i].at <= ms[j].at
          /\ j = i + 1 => ms[j].at - ms[i].at < Inactivity

Past(k, t) ==
    k.started_at <= t /\ \A i \in DOMAIN k.messages : k.messages[i].at <= t

LastOf(k, t) == k.messages # << >> => k.messages[Len(k.messages)].at = t

WInv ==
    /\ \A b \in DOMAIN buckets :
          /\ Sound(buckets[b]) /\ Past(buckets[b], now)
          /\ hook.pc # "idle" => Past(buckets[b], hook.at)
          /\ ~(hook.pc = "touch" /\ hook.bucket = b) =>
                LastOf(buckets[b], buckets[b].last_at)
    /\ hook.pc # "idle" => hook.at <= now
    /\ hook.pc = "append" => /\ buckets[hook.bucket].client_id = Client
                             /\ Active(hook.bucket, hook.at)
    /\ hook.pc = "touch" => LastOf(buckets[hook.bucket], hook.at)

LEMMA Stamped ==
    ASSUME NEW k \in OpenBucket
    PROVE  /\ k.started_at \in Nat
           /\ \A i \in DOMAIN k.messages : k.messages[i].at \in Nat
<1>1. k.messages \in Seq(Entry) /\ k.started_at \in Nat
  BY DEF OpenBucket
<1>2. \A i \in DOMAIN k.messages : k.messages[i] \in Entry
  BY <1>1
<1> QED
  BY <1>1, <1>2 DEF Entry

LEMMA AppendSound ==
    ASSUME NEW k \in OpenBucket, NEW e \in Entry, NEW x \in OpenBucket,
           Sound(k), Past(k, e.at), LastOf(k, k.last_at),
           sender[e.id] = k.client_id,
           e.at - k.last_at < Inactivity, e.at - k.started_at < MaxDuration,
           x.messages = Append(k.messages, e), x.client_id = k.client_id,
           x.started_at = k.started_at
    PROVE  Sound(x) /\ Past(x, e.at) /\ LastOf(x, e.at)
<1>1. /\ k.messages \in Seq(Entry) /\ e.at \in Nat
      /\ k.started_at \in Nat /\ k.last_at \in Nat
  BY DEF OpenBucket, Entry
<1>2. PICK n \in Nat :
         /\ n = Len(k.messages) /\ DOMAIN k.messages = 1 .. n
         /\ DOMAIN x.messages = 1 .. n + 1 /\ x.messages[n + 1] = e
         /\ \A i \in 1 .. n : x.messages[i] = k.messages[i]
         /\ Len(x.messages) = n + 1
  BY <1>1
<1>3. /\ \A i \in 1 .. n : k.messages[i].at \in Nat
      /\ n # 0 => k.messages[n].at = k.last_at
  <2>1. n # 0 => k.messages # << >>
    BY <1>1, <1>2
  <2> QED
    BY <1>2, <2>1, Stamped DEF LastOf
<1>4. Past(x, e.at)
  BY <1>2 DEF Past, Entry
<1>5. LastOf(x, e.at)
  <2>1. x.messages[Len(x.messages)] = e
    BY <1>2
  <2> QED
    BY <2>1 DEF LastOf
<1>6. ASSUME NEW i \in DOMAIN x.messages
      PROVE  /\ sender[x.messages[i].id] = x.client_id
             /\ x.started_at <= x.messages[i].at
             /\ x.messages[i].at - x.started_at < MaxDuration
  BY <1>1, <1>2 DEF Sound, Past
<1>7. ASSUME NEW i \in DOMAIN x.messages, NEW j \in DOMAIN x.messages, i < j
      PROVE  /\ x.messages[i].at <= x.messages[j].at
             /\ j = i + 1 => x.messages[j].at - x.messages[i].at < Inactivity
  <2>1. CASE j = n + 1
    BY <1>1, <1>2, <1>3, <1>7, <2>1 DEF Past
  <2>2. CASE j # n + 1
    <3>1. i \in 1 .. n /\ j \in 1 .. n
      BY <1>2, <1>7, <2>2
    <3> QED
      BY <1>2, <1>7, <3>1 DEF Sound
  <2> QED
    BY <2>1, <2>2
<1> QED
  BY <1>4, <1>5, <1>6, <1>7 DEF Sound

\* The buckets stay, and the webhook is at neither end of an append.
LEMMA WindowsStay ==
    ASSUME WInv, UNCHANGED <<buckets, now>>, hook.pc # "touch",
           hook'.pc \notin {"append", "touch"},
           hook'.pc = "idle" \/ (hook.pc # "idle" /\ hook'.at = hook.at)
    PROVE  WInv'
BY DEF WInv, Active

LEMMA WindowsDeliver ==
    ASSUME TInv, WInv, NEW body \in Bodies, Deliver(body) PROVE WInv'
<1>1. /\ hook'.pc = "claim" /\ hook'.at = now /\ hook.pc = "idle"
      /\ buckets' = buckets /\ now' = now /\ now \in Nat
  BY DEF Deliver, TInv, TypeOK
<1> QED
  BY <1>1 DEF WInv

LEMMA NextAt ==
    ASSUME hook \in Hook, NextMessage
    PROVE  hook'.pc = "claim" /\ hook'.at = hook.at
BY DEF NextMessage, Hook

LEMMA WindowsQuiet ==
    ASSUME TInv, WInv, Claim \/ Displace \/ ProcessDisplaced PROVE WInv'
<1>1. /\ hook \in Hook /\ hook.pc \in {"claim", "displace", "process"}
      /\ buckets' = buckets /\ now' = now
  BY Busy DEF TInv, Claim, Displace, ProcessDisplaced
<1>2. CASE Answer
  <2>1. hook'.pc = "idle"
    BY <1>2 DEF Answer, Idle
  <2> QED
    BY <1>1, <2>1, WindowsStay
<1>3. CASE NextMessage
  BY <1>1, <1>3, NextAt, WindowsStay
<1>4. CASE hook' = [hook EXCEPT !.pc = "get"]
  <2>1. hook'.pc = "get" /\ hook'.at = hook.at
    BY <1>1, <1>4 DEF Hook
  <2> QED
    BY <1>1, <2>1, WindowsStay
<1>5. CASE Displace /\ hook'.pc = "insert" /\ hook'.at = hook.at
  BY <1>1, <1>5, WindowsStay
<1>6. ASSUME Displace
      PROVE  Answer \/ (hook'.pc = "insert" /\ hook'.at = hook.at)
  BY <1>1, <1>6 DEF Displace, Hook
<1> QED
  BY <1>2, <1>3, <1>4, <1>5, <1>6 DEF Claim, ProcessDisplaced

LEMMA WindowsGet == ASSUME TInv, PInv, WInv, Get PROVE WInv'
<1>1. /\ TypeOK /\ hook \in Hook /\ hook.pc = "get" /\ Client \in Clients
      /\ buckets' = buckets /\ now' = now
  BY ClientTyped DEF TInv, Get
<1>2. /\ hook'.at = hook.at /\ hook'.left = hook.left
      /\ hook'.bucket = open[Client]
      /\ hook'.pc \in {"insert", "append", "displace"}
      /\ hook'.pc = "append" => open[Client] # 0 /\ Active(open[Client], hook.at)
  BY <1>1 DEF Get, Hook
<1>3. hook'.pc = "append" => buckets[open[Client]].client_id = Client
  BY <1>1, <1>2 DEF PInv, Owned, OpenClients
<1>4. Client' = Client
  BY <1>2 DEF Client
<1>5. hook'.pc = "append" => Active(hook.bucket, hook.at)'
  BY <1>1, <1>2 DEF Active
<1> QED
  BY <1>1, <1>2, <1>3, <1>4, <1>5 DEF WInv

LEMMA WindowsInsert == ASSUME TInv, WInv, Insert PROVE WInv'
<1>1. /\ TypeOK /\ hook \in Hook /\ Client \in Clients /\ hook.pc = "insert"
      /\ hook.at \in Nat /\ now \in Nat /\ now' = now
  BY ClientTyped DEF TInv, TypeOK, Insert, Hook
<1>2. PICK new \in OpenBucket :
         /\ new.client_id = Client /\ buckets' = Append(buckets, new)
         /\ new.started_at = hook.at /\ new.last_at = hook.at
         /\ new.messages = << >>
  <2> DEFINE new == [client_id |-> Client, started_at |-> hook.at,
                     last_at |-> hook.at, messages |-> << >>]
  <2>1. new \in OpenBucket
    BY <1>1 DEF OpenBucket, Hook
  <2>2. /\ new.client_id = Client /\ buckets' = Append(buckets, new)
        /\ new.started_at = hook.at /\ new.last_at = hook.at
        /\ new.messages = << >>
    BY DEF Insert
  <2> HIDE DEF new
  <2> QED
    BY <2>1, <2>2
<1>3. PICK b \in Nat :
         /\ b = Len(buckets) + 1 /\ DOMAIN buckets' = DOMAIN buckets \cup {b}
         /\ buckets'[b] = new
         /\ \A d \in DOMAIN buckets : buckets'[d] = buckets[d]
  <2>1. PICK b \in Nat : b = Len(buckets) + 1
    BY <1>1 DEF TypeOK
  <2> QED
    BY <1>1, <1>2, <2>1, Appended DEF TypeOK
<1>4. DOMAIN new.messages = {}
  BY <1>2
<1>5. /\ hook'.pc = "append" /\ hook'.at = hook.at /\ hook'.bucket = b
      /\ hook'.left = hook.left
  BY <1>1, <1>3 DEF Insert, Hook
<1>6. /\ Sound(new) /\ Past(new, hook.at) /\ Past(new, now)
      /\ LastOf(new, hook.at)
  BY <1>1, <1>2, <1>4 DEF Sound, Past, LastOf, WInv
<1>7. Active(hook.bucket, hook.at)'
  BY <1>1, <1>2, <1>3, <1>5, IngestionAssumption DEF Active
<1>8. Client' = Client
  BY <1>5 DEF Client
<1> QED
  BY <1>1, <1>2, <1>3, <1>5, <1>6, <1>7, <1>8 DEF WInv

LEMMA PastLater ==
    ASSUME NEW k \in OpenBucket, NEW s \in Nat, NEW t \in Nat, s <= t, Past(k, s)
    PROVE  Past(k, t)
BY Stamped DEF Past

LEMMA WindowsAppend == ASSUME TInv, WInv, AppendMessage PROVE WInv'
<1>1. /\ TypeOK /\ hook \in Hook /\ hook.pc = "append"
      /\ hook.at \in Nat /\ now \in Nat /\ now' = now /\ hook.at <= now
  BY AppendEffect DEF TInv, TypeOK, AppendMessage, Hook, WInv
<1>2. PICK b \in DOMAIN buckets, e \in Entry, x \in OpenBucket :
         /\ b = hook.bucket /\ e.id = Head(hook.left) /\ e.at = hook.at
         /\ x.messages = Append(buckets[b].messages, e)
         /\ x.client_id = buckets[b].client_id
         /\ x.started_at = buckets[b].started_at
         /\ buckets' = [buckets EXCEPT ![b] = x] /\ buckets[b] \in OpenBucket
  <2> DEFINE b == hook.bucket
             e == [id |-> Head(hook.left), order |-> Len(buckets[b].messages),
                   at |-> hook.at]
             x == [buckets[b] EXCEPT !.messages = Append(buckets[b].messages, e)]
  <2>1. /\ b \in DOMAIN buckets /\ buckets[b] \in OpenBucket
        /\ e \in Entry /\ x \in OpenBucket
        /\ buckets' = [buckets EXCEPT ![b] = x]
        /\ x.client_id = buckets[b].client_id
        /\ x.started_at = buckets[b].started_at
        /\ x.messages = Append(buckets[b].messages, e)
    BY AppendEffect
  <2>2. e.id = Head(hook.left) /\ e.at = hook.at
    OBVIOUS
  <2> HIDE DEF e, x
  <2> QED
    BY <2>1, <2>2
<1>3. /\ DOMAIN buckets' = DOMAIN buckets /\ buckets'[b] = x
      /\ \A d \in DOMAIN buckets : d # b => buckets'[d] = buckets[d]
  BY <1>1, <1>2, BucketReplaced
<1>4. /\ Sound(buckets[b]) /\ Past(buckets[b], e.at)
      /\ LastOf(buckets[b], buckets[b].last_at)
      /\ sender[e.id] = buckets[b].client_id
      /\ e.at - buckets[b].last_at < Inactivity
      /\ e.at - buckets[b].started_at < MaxDuration
  BY <1>1, <1>2 DEF WInv, Active, Client
<1>5. Sound(x) /\ Past(x, hook.at) /\ LastOf(x, hook.at)
  BY <1>2, <1>4, AppendSound
<1>6. Past(x, now)
  BY <1>1, <1>2, <1>5, PastLater
<1>7. hook'.pc = "touch" /\ hook'.at = hook.at /\ hook'.bucket = b
  BY <1>1, <1>2 DEF AppendMessage, Hook
<1> QED
  BY <1>1, <1>3, <1>5, <1>6, <1>7 DEF WInv

LEMMA WindowsTouch == ASSUME TInv, WInv, Touch PROVE WInv'
<1>1. PICK b \in DOMAIN buckets, x \in OpenBucket :
         /\ b = hook.bucket /\ buckets' = [buckets EXCEPT ![b] = x]
         /\ x.client_id = buckets[b].client_id
         /\ x.started_at = buckets[b].started_at /\ x.last_at = hook.at
         /\ x.messages = buckets[b].messages /\ hook \in Hook
  BY TouchEffect
<1>2. /\ DOMAIN buckets' = DOMAIN buckets /\ buckets'[b] = x
      /\ \A d \in DOMAIN buckets : d # b => buckets'[d] = buckets[d]
  BY <1>1, BucketReplaced DEF TInv
<1>3. hook'.pc \in {"claim", "process"} /\ hook'.at = hook.at
  BY <1>1, NextAt DEF Touch, Hook
<1>4. /\ Sound(buckets[b]) /\ Past(buckets[b], now) /\ Past(buckets[b], hook.at)
      /\ LastOf(buckets[b], hook.at) /\ now' = now /\ hook.at <= now
      /\ hook.pc = "touch"
  BY <1>1 DEF WInv, Touch
<1>5. Sound(x) /\ Past(x, now) /\ Past(x, hook.at) /\ LastOf(x, x.last_at)
  BY <1>1, <1>4 DEF Sound, Past, LastOf
<1> QED
  BY <1>1, <1>2, <1>3, <1>4, <1>5 DEF WInv

LEMMA WindowsTick == ASSUME TInv, WInv, Tick PROVE WInv'
<1>1. /\ TypeOK /\ now \in Nat /\ now' \in Nat /\ now <= now'
      /\ UNCHANGED <<buckets, hook>>
      /\ hook.pc # "idle" => hook.at \in Nat
  BY Busy DEF TInv, TypeOK, Tick, Hook
<1>2. \A b \in DOMAIN buckets : buckets[b] \in OpenBucket
  BY <1>1 DEF TypeOK
<1>3. \A b \in DOMAIN buckets : Past(buckets[b], now')
  BY <1>1, <1>2, PastLater DEF WInv
<1>4. hook.pc = "append" => Active(hook.bucket, hook.at)'
  BY <1>1 DEF WInv, Active
<1> QED
  BY <1>1, <1>3, <1>4 DEF WInv, Client

LEMMA WindowsStep == ASSUME TInv, PInv, WInv, [Next]_vars PROVE WInv'
<1>1. ASSUME UNCHANGED <<buckets, hook, now>> PROVE WInv'
  BY <1>1 DEF WInv, Active, Client
<1>2. CASE HookStep
  BY <1>2, WindowsQuiet, WindowsGet, WindowsInsert, WindowsAppend, WindowsTouch
     DEF HookStep
<1>3. CASE WorkerStep
  BY <1>1, <1>3 DEF WorkerStep, StartFlush, Scan, Emit, CopyBucket, ProcessDue
<1> QED
  BY <1>1, <1>2, <1>3, WindowsDeliver, WindowsTick DEF Next, vars

\* A batch is a prefix of a bucket that is sound.
LEMMA WindowsOfBatches == IInv /\ WInv => RequestsRespectWindows
<1> SUFFICES ASSUME IInv, WInv, NEW p \in Places,
                    NEW i \in DOMAIN p.batch.messages,
                    NEW j \in DOMAIN p.batch.messages, i < j
             PROVE  LET ms == p.batch.messages IN
                    /\ sender[ms[i].id] = sender[ms[j].id]
                    /\ ms[j].at - ms[i].at \in 0 .. MaxDuration - 1
                    /\ j = i + 1 => ms[j].at - ms[i].at < Inactivity
  BY DEF RequestsRespectWindows
<1>1. PICK b \in DOMAIN buckets :
         /\ i \in DOMAIN buckets[b].messages /\ j \in DOMAIN buckets[b].messages
         /\ p.batch.messages[i] = buckets[b].messages[i]
         /\ p.batch.messages[j] = buckets[b].messages[j]
  BY PlaceOf DEF Prefix
<1>2. Sound(buckets[b]) /\ buckets[b] \in OpenBucket
  BY DEF WInv, IInv, TInv, TypeOK
<1>3. /\ buckets[b].messages[i].at \in Nat /\ buckets[b].messages[j].at \in Nat
      /\ buckets[b].started_at \in Nat /\ MaxDuration \in Nat
  BY <1>1, <1>2, Stamped, IngestionAssumption
<1> DEFINE s == buckets[b].messages[i]
           t == buckets[b].messages[j]
<1>4. /\ sender[s.id] = sender[t.id] /\ s.at <= t.at
      /\ buckets[b].started_at <= s.at
      /\ t.at - buckets[b].started_at < MaxDuration
      /\ j = i + 1 => t.at - s.at < Inactivity
  BY <1>1, <1>2 DEF Sound
<1>5. t.at - s.at \in 0 .. MaxDuration - 1
  BY <1>3, <1>4
<1> QED
  BY <1>1, <1>4, <1>5

\* Neither the races of add and flush_due nor an exception makes a request that
\* mixes clients or exceeds a window, for any clients, bodies and windows.
THEOREM RequestsRespectWindowsAlways == Spec => []RequestsRespectWindows
<1>1. Init => IInv /\ WInv
  <2>1. Init => WInv
    BY DEF Init, Idle, WInv
  <2> QED
    BY <2>1, TypeInit, PlacesInit DEF IInv
<1>2. IInv /\ WInv /\ [Next]_vars => (IInv /\ WInv)'
  BY TypeStep, MessagesStep, PlacesStep, WindowsStep DEF IInv
<1>3. Spec => [](IInv /\ WInv)
  BY <1>1, <1>2, PTL DEF Spec
<1> QED
  BY <1>3, WindowsOfBatches, PTL

-----------------------------------------------------------------------------
(* What is lost, and when. *)

Among(seq, m) == \E i \in DOMAIN seq : Holds(seq[i], m)

\* The buckets the worker has still to copy.
Within == InOpen \cup Emitted

InWithin(m) == \E b \in Within : Holds(buckets[b], m)

Kept(m) ==
    Among(ingested, m) \/ Among(Displaced, m) \/ Among(Out, m) \/ InWithin(m)

Found(m) == AtHand(m) \/ Kept(m)

Account == \A m \in claimed : m \in astray <=> ~Found(m)

\* The strengthening of LossIsConfined.
SInv ==
    /\ Account
    /\ astray \subseteq claimed
    /\ hook.pc = "insert" => open[Client] = 0

\* Exactly the messages that go are lost.
LEMMA AccountStep ==
    ASSUME Account, claimed' = claimed, NEW gone, astray' = astray \cup gone,
           \A m \in claimed : Found(m)' <=> Found(m) /\ m \notin gone
    PROVE  Account'
BY DEF Account

LEMMA AmongNone ==
    ASSUME NEW seq, seq = << >>, NEW m
    PROVE  ~Among(seq, m)
<1>1. DOMAIN seq = {}
  OBVIOUS
<1> QED
  BY <1>1 DEF Among

LEMMA AmongAppend ==
    ASSUME NEW seq \in Seq(Batch), NEW x \in Batch, NEW m
    PROVE  Among(Append(seq, x), m) <=> Among(seq, m) \/ Holds(x, m)
<1> DEFINE t == Append(seq, x)
<1>1. PICK n : /\ DOMAIN t = DOMAIN seq \cup {n} /\ n \notin DOMAIN seq
               /\ t[n] = x /\ \A i \in DOMAIN seq : t[i] = seq[i]
  BY Appended
<1> HIDE DEF t
<1> QED
  BY <1>1 DEF Among, t

LEMMA AmongSingle ==
    ASSUME NEW x, NEW m
    PROVE  Among(<<x>>, m) <=> Holds(x, m)
BY Single DEF Among

LEMMA AmongTail ==
    ASSUME NEW seq \in Seq(Batch), seq # << >>, NEW m
    PROVE  /\ Head(seq) \in Batch /\ Tail(seq) \in Seq(Batch)
           /\ Among(seq, m) <=> Holds(Head(seq), m) \/ Among(Tail(seq), m)
<1> DEFINE x == Head(seq)
           t == Tail(seq)
<1>1. /\ x \in Batch /\ t \in Seq(Batch) /\ x = seq[1] /\ 1 \in DOMAIN seq
      /\ \A i \in DOMAIN t : i + 1 \in DOMAIN seq /\ t[i] = seq[i + 1]
      /\ \A i \in DOMAIN seq : i # 1 => i - 1 \in DOMAIN t /\ t[i - 1] = seq[i]
  OBVIOUS
<1> HIDE DEF x, t
<1>2. ASSUME Among(seq, m) PROVE Holds(x, m) \/ Among(t, m)
  BY <1>1, <1>2 DEF Among
<1>3. ASSUME Holds(x, m) \/ Among(t, m) PROVE Among(seq, m)
  BY <1>1, <1>3 DEF Among
<1> QED
  BY <1>1, <1>2, <1>3 DEF x, t

\* The batches hold messages of their buckets.
LEMMA HeldInBucket ==
    ASSUME NEW x, Prefix(x, buckets), NEW m, Holds(x, m)
    PROVE  \E i : InBucket(x.request_id, i) /\ IdAt(x.request_id, i) = m
BY DEF Prefix, Holds, InBucket, IdAt

LEMMA AmongInBucket ==
    ASSUME NEW seq, Faithful(seq, buckets), NEW m, Among(seq, m)
    PROVE  \E b \in Ids(seq) : \E i : InBucket(b, i) /\ IdAt(b, i) = m
<1>1. PICK k \in DOMAIN seq : Holds(seq[k], m)
  BY DEF Among
<1>2. Prefix(seq[k], buckets) /\ seq[k].request_id \in Ids(seq)
  BY DEF Faithful, Ids
<1> QED
  BY <1>1, <1>2, HeldInBucket

LEMMA WithinBuckets ==
    ASSUME TInv
    PROVE  Within \subseteq DOMAIN buckets
<1>1. InOpen \subseteq DOMAIN buckets
  BY DEF TInv, TypeOK, InOpen, OpenClients
<1>2. Emitted \subseteq DOMAIN buckets
  BY DEF TInv, WorkerSound, Emitted
<1> QED
  BY <1>1, <1>2 DEF Within

LEMMA WithinInBucket ==
    ASSUME TInv, NEW m, InWithin(m)
    PROVE  \E b \in Within : \E i : InBucket(b, i) /\ IdAt(b, i) = m
BY WithinBuckets DEF InWithin, Holds, InBucket, IdAt

\* What a message that is in a bucket cannot be.
LEMMA KeptInBucket ==
    ASSUME IInv, NEW m, Kept(m)
    PROVE  \E b, i : InBucket(b, i) /\ IdAt(b, i) = m
<1>1. /\ Faithful(ingested, buckets) /\ Faithful(Displaced, buckets)
      /\ Faithful(Out, buckets)
  BY DEF IInv, PInv, Settled
<1> QED
  BY <1>1, AmongInBucket, WithinInBucket DEF Kept, IInv

LEMMA KeptIsClaimed ==
    ASSUME IInv, NEW m, Kept(m)
    PROVE  m \in claimed /\ ~AtHand(m)
<1>1. PICK b, i : InBucket(b, i) /\ IdAt(b, i) = m
  BY KeptInBucket
<1> QED
  BY <1>1 DEF IInv, MInv, Known, Fresh, AtHand

\* No message is both with a thread and elsewhere.
LEMMA Exclusive ==
    ASSUME IInv, NEW m
    PROVE  /\ Among(Displaced, m) =>
                 ~Among(ingested, m) /\ ~Among(Out, m) /\ ~InWithin(m)
           /\ Among(Out, m) => ~Among(ingested, m) /\ ~InWithin(m)
<1>1. /\ Faithful(ingested, buckets) /\ Faithful(Displaced, buckets)
      /\ Faithful(Out, buckets)
      /\ Apart(Ids(ingested), Ids(Displaced), Ids(Out), InOpen, Emitted)
  BY DEF IInv, PInv, Settled
<1> DEFINE Within2(S) == \E b \in S : \E i : InBucket(b, i) /\ IdAt(b, i) = m
<1>2. \A S, T : Within2(S) /\ Within2(T) => S \cap T # {}
  BY DEF IInv, MInv, Unique
<1>3. /\ Among(ingested, m) => Within2(Ids(ingested))
      /\ Among(Displaced, m) => Within2(Ids(Displaced))
      /\ Among(Out, m) => Within2(Ids(Out))
      /\ InWithin(m) => Within2(Within)
  BY <1>1, AmongInBucket, WithinInBucket DEF IInv
<1> HIDE DEF Within2
<1>4. /\ Ids(Displaced) \cap Ids(ingested) = {} /\ Ids(Displaced) \cap Ids(Out) = {}
      /\ Ids(Displaced) \cap Within = {} /\ Ids(Out) \cap Ids(ingested) = {}
      /\ Ids(Out) \cap Within = {}
  BY <1>1 DEF Apart, Within
<1> QED
  BY <1>2, <1>3, <1>4

LEMMA HeadOnly ==
    ASSUME IInv, Out \in Seq(Batch), Out # << >>, NEW m, Holds(Head(Out), m)
    PROVE  ~Among(Tail(Out), m)
<1>1. NoRepeat(Out) /\ Faithful(Out, buckets)
  BY DEF IInv, PInv, Settled
<1>2. PICK x, t : x = Head(Out) /\ t = Tail(Out)
  OBVIOUS
<1>3. /\ Prefix(x, buckets) /\ Faithful(t, buckets)
      /\ x.request_id \notin Ids(t)
  BY <1>1, <1>2, TailIds
<1>4. SUFFICES ASSUME Among(t, m) PROVE FALSE
  BY <1>2
<1>5. PICK i : InBucket(x.request_id, i) /\ IdAt(x.request_id, i) = m
  BY <1>2, <1>3, HeldInBucket
<1>6. PICK b, j : b \in Ids(t) /\ InBucket(b, j) /\ IdAt(b, j) = m
  BY <1>3, <1>4, AmongInBucket
<1> QED
  BY <1>3, <1>5, <1>6 DEF IInv, MInv, Unique

\* The places of ProcessedAtMostOnce are these.
LEMMA PlacesKept ==
    ASSUME TInv, NEW m
    PROVE  (\E p \in Places : Holds(p.batch, m)) <=> Kept(m)
<1>1. /\ hook # Idle => Displaced = hook.displaced
      /\ hook = Idle => Displaced = << >>
      /\ worker \notin {Idle, Dead} => Out = worker.out
      /\ worker \in {Idle, Dead} => Out = << >>
  BY Busy DEF TInv, TypeOK, Displaced, Out, Idle, Dead
<1>2. \A b : Holds(Dump(b), m) <=> Holds(buckets[b], m)
  BY DEF Holds, Dump
<1>3. ASSUME NEW kind, NEW seq
      PROVE  (\E p \in Placed(kind, seq) : Holds(p.batch, m)) <=> Among(seq, m)
  <2>1. ASSUME NEW p \in Placed(kind, seq), Holds(p.batch, m)
        PROVE  Among(seq, m)
    <3>1. PICK i \in DOMAIN seq : p = [place |-> <<kind, i>>, batch |-> seq[i]]
      BY DEF Placed
    <3>2. p.batch = seq[i]
      BY <3>1
    <3> QED
      BY <2>1, <3>2 DEF Among
  <2>2. ASSUME NEW i \in DOMAIN seq, Holds(seq[i], m)
        PROVE  \E p \in Placed(kind, seq) : Holds(p.batch, m)
    <3>1. PICK p : p = [place |-> <<kind, i>>, batch |-> seq[i]]
      OBVIOUS
    <3>2. p \in Placed(kind, seq) /\ p.batch = seq[i]
      BY <3>1 DEF Placed
    <3> QED
      BY <2>2, <3>2
  <2> QED
    BY <2>1, <2>2 DEF Among
<1>4. (\E p \in Placed("ingested", ingested) : Holds(p.batch, m))
         <=> Among(ingested, m)
  BY <1>3
<1>5. (\E p \in {[place |-> <<"open", open[c]>>, batch |-> Dump(open[c])] :
                    c \in OpenClients} : Holds(p.batch, m))
         <=> \E b \in InOpen : Holds(buckets[b], m)
  <2> DEFINE In(c) == [place |-> <<"open", open[c]>>, batch |-> Dump(open[c])]
  <2>1. \A c : In(c).batch = Dump(open[c])
    OBVIOUS
  <2>2. \A c : Holds(In(c).batch, m) <=> Holds(buckets[open[c]], m)
    BY <1>2, <2>1
  <2> HIDE DEF In
  <2>3. (\E p \in {In(c) : c \in OpenClients} : Holds(p.batch, m))
           <=> \E b \in InOpen : Holds(buckets[b], m)
    BY <2>2 DEF InOpen
  <2> QED
    BY <2>3 DEF In
<1>6. (\E p \in (IF hook = Idle THEN {} ELSE Placed("displaced", hook.displaced)) :
          Holds(p.batch, m))
         <=> Among(Displaced, m)
  <2>1. CASE hook = Idle
    BY <1>1, <2>1, AmongNone
  <2>2. CASE hook # Idle
    BY <1>1, <1>3, <2>2
  <2> QED
    BY <2>1, <2>2
<1>7. (\E p \in (IF worker \in {Idle, Dead} THEN {}
                 ELSE Placed("out", worker.out)) : Holds(p.batch, m))
         <=> Among(Out, m)
  <2>1. CASE worker \in {Idle, Dead}
    BY <1>1, <2>1, AmongNone
  <2>2. CASE worker \notin {Idle, Dead}
    BY <1>1, <1>3, <2>2
  <2> QED
    BY <2>1, <2>2
<1>8. (\E p \in (IF worker.pc = "dump"
                 THEN Placed("emitted", <<Dump(worker.bucket)>>) ELSE {}) :
          Holds(p.batch, m))
         <=> \E b \in Emitted : Holds(buckets[b], m)
  <2>1. CASE worker.pc = "dump"
    <3>1. Among(<<Dump(worker.bucket)>>, m) <=> Holds(buckets[worker.bucket], m)
      BY <1>2, AmongSingle
    <3> QED
      BY <1>3, <2>1, <3>1 DEF Emitted
  <2>2. CASE worker.pc # "dump"
    BY <2>2 DEF Emitted
  <2> QED
    BY <2>1, <2>2
<1> QED
  BY <1>4, <1>5, <1>6, <1>7, <1>8 DEF Places, Kept, InWithin, Within

\* The buckets keep what they hold.
LEMMA SameWithin ==
    ASSUME Within' = Within, UNCHANGED buckets, NEW m
    PROVE  InWithin(m)' <=> InWithin(m)
BY DEF InWithin

\* A step of the webhook that leaves _open and the contents of buckets alone.
LEMMA HookWithin ==
    ASSUME UNCHANGED <<open, worker>>
    PROVE  Within' = Within /\ Out' = Out
BY DEF Within, InOpen, OpenClients, Emitted, Out

\* Nothing is lost and nothing moves.
LEMMA AccountStays ==
    ASSUME Account, UNCHANGED <<claimed, astray, ingested>>,
           \A m : InWithin(m)' <=> InWithin(m),
           Displaced' = Displaced, Out' = Out,
           \A m : AtHand(m)' <=> AtHand(m)
    PROVE  Account'
<1>1. \A m : Found(m)' <=> Found(m)
  BY DEF Found, Kept
<1> QED
  BY <1>1 DEF Account

LEMMA NotAtHand ==
    ASSUME hook.pc \notin {"get", "displace", "insert", "append"}, NEW m
    PROVE  ~AtHand(m)
BY DEF AtHand

LEMMA NotAtHandNext ==
    ASSUME hook'.pc \notin {"get", "displace", "insert", "append"}, NEW m
    PROVE  ~AtHand(m)'
BY DEF AtHand

LEMMA LossDeliver ==
    ASSUME TInv, SInv, NEW body \in Bodies, Deliver(body)
    PROVE  SInv'
<1>1. /\ hook.pc = "idle" /\ hook'.pc = "claim"
      /\ Displaced' = Displaced /\ UNCHANGED <<buckets, open, worker>>
      /\ UNCHANGED <<claimed, astray, ingested>>
  BY DEF Deliver, Displaced
<1>2. \A m : InWithin(m)' <=> InWithin(m)
  BY <1>1, HookWithin, SameWithin
<1>3. \A m : AtHand(m)' <=> AtHand(m)
  BY <1>1, NotAtHand, NotAtHandNext
<1>4. Account'
  BY <1>1, <1>2, <1>3, HookWithin, AccountStays DEF SInv
<1> QED
  BY <1>1, <1>4 DEF SInv

LEMMA LossClaim == ASSUME IInv, SInv, Claim PROVE SInv'
<1>1. /\ hook \in Hook /\ hook.pc = "claim" /\ Displaced = << >>
      /\ UNCHANGED <<buckets, open, ingested, worker>>
  BY Busy DEF IInv, TInv, HookSound, Claim, Displaced
<1>2. Out' = Out /\ \A m : InWithin(m)' <=> InWithin(m)
  BY <1>1, HookWithin, SameWithin
<1>3. CASE (Answer \/ NextMessage) /\ UNCHANGED <<claimed, astray>>
  <2>1. hook'.pc \in {"idle", "claim"} /\ Displaced' = << >>
    BY <1>1, <1>3, NextPC, AnswerPlaces, NextPlaces DEF Answer, Idle
  <2>2. \A m : AtHand(m)' <=> AtHand(m)
    BY <1>1, <2>1, NotAtHand, NotAtHandNext
  <2>3. Account'
    BY <1>1, <1>2, <1>3, <2>1, <2>2, AccountStays DEF SInv
  <2> QED
    BY <1>1, <1>3, <2>1, <2>3 DEF SInv
<1>4. CASE hook.left # << >> /\ Head(hook.left) \notin claimed
  <2>1. PICK h : h = Head(hook.left)
    OBVIOUS
  <2>2. h \notin claimed /\ claimed' = claimed \cup {h} /\ h \notin astray
    BY <1>4, <2>1 DEF Claim, SInv
  <2>3. ~Kept(h)
    BY <2>2, KeptIsClaimed
  <2>4. CASE hook' = [hook EXCEPT !.pc = "get"] /\ astray' = astray
    <3>1. hook'.pc = "get" /\ hook'.left = hook.left /\ Displaced' = << >>
      BY <1>1, <2>4 DEF Hook, Displaced
    <3>2. \A m : Kept(m)' <=> Kept(m)
      BY <1>1, <1>2, <3>1 DEF Kept
    <3>3. \A m : AtHand(m)' <=> m = h
      BY <2>1, <3>1 DEF AtHand
    <3>4. \A m : ~AtHand(m)
      BY <1>1, NotAtHand
    <3>5. Account'
      BY <2>2, <2>4, <3>2, <3>3, <3>4 DEF SInv, Account, Found
    <3> QED
      BY <2>2, <2>4, <3>1, <3>5 DEF SInv
  <2>5. CASE Answer /\ astray' = astray \cup {h}
    <3>1. hook'.pc = "idle" /\ Displaced' = << >>
      BY <2>5, AnswerPlaces DEF Answer, Idle
    <3>2. \A m : Kept(m)' <=> Kept(m)
      BY <1>1, <1>2, <3>1 DEF Kept
    <3>3. \A m : ~AtHand(m)' /\ ~AtHand(m)
      BY <1>1, <3>1, NotAtHand, NotAtHandNext
    <3>4. Account'
      BY <2>2, <2>3, <2>5, <3>2, <3>3 DEF SInv, Account, Found
    <3> QED
      BY <2>2, <2>5, <3>1, <3>4 DEF SInv
  <2> QED
    BY <1>4, <2>1, <2>4, <2>5 DEF Claim, Stray
<1> QED
  BY <1>3, <1>4 DEF Claim

LEMMA LossGet == ASSUME TInv, SInv, Get PROVE SInv'
<1>1. /\ hook \in Hook /\ hook.pc = "get"
      /\ UNCHANGED <<buckets, open, ingested, worker, claimed, astray>>
  BY Busy DEF TInv, Get
<1>2. /\ hook'.pc \in {"insert", "append", "displace"}
      /\ hook'.left = hook.left /\ hook'.displaced = hook.displaced
      /\ hook'.pc = "insert" => open[Client] = 0
  BY <1>1 DEF Get, Hook, Active
<1>3. Displaced' = Displaced /\ Client' = Client
  BY <1>1, <1>2 DEF Displaced, Client
<1>4. Out' = Out /\ \A m : InWithin(m)' <=> InWithin(m)
  BY <1>1, HookWithin, SameWithin
<1>5. \A m : AtHand(m)' <=> AtHand(m)
  BY <1>1, <1>2 DEF AtHand
<1>6. Account'
  BY <1>1, <1>3, <1>4, <1>5, AccountStays DEF SInv
<1> QED
  BY <1>1, <1>2, <1>3, <1>6 DEF SInv

LEMMA LossDisplace == ASSUME IInv, SInv, Displace PROVE SInv'
<1>1. /\ TypeOK /\ hook \in Hook /\ Client \in Clients /\ hook.pc = "displace"
      /\ Owned /\ Displaced = << >>
      /\ UNCHANGED <<buckets, claimed, ingested, worker>>
  BY ClientTyped DEF IInv, TInv, Displace, PInv, HookSound, Displaced
<1>2. PICK h : h = Head(hook.left)
  OBVIOUS
<1>3. \A m : AtHand(m) <=> m = h
  BY <1>1, <1>2 DEF AtHand
<1>4. h \in claimed /\ ~Kept(h)
  BY <1>1, <1>2, <1>3, KeptIsClaimed DEF IInv, MInv, Fresh
<1>5. CASE open[Client] = 0
  <2>1. Answer /\ open' = open /\ astray' = astray \cup {h}
    BY <1>2, <1>5 DEF Displace, Stray
  <2>2. hook'.pc = "idle" /\ Displaced' = << >>
    BY <2>1, AnswerPlaces DEF Answer, Idle
  <2>3. \A m : Kept(m)' <=> Kept(m)
    BY <1>1, <2>1, <2>2, HookWithin, SameWithin DEF Kept
  <2>4. \A m : ~AtHand(m)'
    BY <2>2, NotAtHandNext
  <2>5. \A m \in claimed : Found(m)' <=> Found(m) /\ m \notin {h}
    BY <1>3, <1>4, <2>3, <2>4 DEF Found
  <2>6. Account'
    BY <1>1, <2>1, <2>5, AccountStep DEF SInv
  <2> QED
    BY <1>1, <1>4, <2>1, <2>2, <2>6 DEF SInv
<1>6. CASE open[Client] # 0
  <2>1. PICK b \in DOMAIN buckets, x \in Batch :
           b = open[Client] /\ x = Dump(b)
    BY <1>1, <1>6, DumpTyped DEF TypeOK
  <2>2. /\ open' = [open EXCEPT ![Client] = 0] /\ astray' = astray
        /\ hook' = [hook EXCEPT !.pc = "insert", !.displaced = <<x>>]
    BY <1>6, <2>1 DEF Displace
  <2>3. InOpen' = InOpen \ {b} /\ b \in InOpen
    BY <1>1, <1>6, <2>1, <2>2, TakenOut
  <2>4. /\ hook'.pc = "insert" /\ hook'.left = hook.left
        /\ Displaced' = <<x>> /\ Client' = Client
    BY <1>1, <2>2 DEF Displaced, Hook, Client
  <2>5. Out' = Out /\ Emitted' = Emitted
    BY <1>1 DEF Out, Emitted
  <2>6. ASSUME NEW m PROVE Kept(m)' <=> Kept(m)
    <3>1. Among(Displaced', m) <=> Holds(buckets[b], m)
      BY <2>1, <2>4, AmongSingle DEF Dump, Holds
    <3>2. InWithin(m) <=> InWithin(m)' \/ Holds(buckets[b], m)
      BY <1>1, <2>3, <2>5 DEF InWithin, Within
    <3>3. ~Among(Displaced, m)
      BY <1>1, AmongNone
    <3> QED
      BY <1>1, <2>5, <3>1, <3>2, <3>3 DEF Kept
  <2>7. \A m : AtHand(m)' <=> AtHand(m)
    BY <1>1, <2>4 DEF AtHand
  <2>8. \A m : Found(m)' <=> Found(m)
    BY <2>6, <2>7 DEF Found
  <2>9. Account'
    BY <1>1, <2>2, <2>8 DEF SInv, Account
  <2>10. open'[Client] = 0
    BY <1>1, <2>2 DEF TypeOK
  <2> QED
    BY <1>1, <2>2, <2>4, <2>9, <2>10 DEF SInv
<1> QED
  BY <1>5, <1>6

LEMMA LossInsert == ASSUME IInv, SInv, Insert PROVE SInv'
<1>1. /\ TypeOK /\ hook \in Hook /\ Client \in Clients /\ hook.pc = "insert"
      /\ open[Client] = 0 /\ UNCHANGED <<claimed, ingested, worker, astray>>
  BY ClientTyped DEF IInv, TInv, Insert, SInv
<1>2. PICK b \in Nat, new \in OpenBucket :
         /\ b = Len(buckets) + 1 /\ b # 0 /\ buckets' = Append(buckets, new)
         /\ new.messages = << >>
  <2> DEFINE new == [client_id |-> Client, started_at |-> hook.at,
                     last_at |-> hook.at, messages |-> << >>]
  <2>1. new \in OpenBucket
    BY <1>1 DEF OpenBucket, Hook
  <2>2. new.messages = << >> /\ buckets' = Append(buckets, new)
    BY DEF Insert
  <2>3. Len(buckets) + 1 \in Nat /\ Len(buckets) + 1 # 0
    BY <1>1 DEF TypeOK
  <2> HIDE DEF new
  <2> QED
    BY <2>1, <2>2, <2>3
<1>3. /\ buckets'[b].messages = << >>
      /\ \A d \in DOMAIN buckets : buckets'[d] = buckets[d]
  BY <1>1, <1>2, Appended DEF TypeOK
<1>4. \A c \in Clients : open'[c] = IF c = Client THEN b ELSE open[c]
  BY <1>1, <1>2 DEF Insert, TypeOK
<1>5. InOpen' = InOpen \cup {b}
  BY <1>1, <1>2, <1>4 DEF InOpen, OpenClients
<1>6. /\ hook'.pc = "append" /\ hook'.left = hook.left
      /\ hook'.displaced = hook.displaced
  BY <1>1 DEF Insert, Hook
<1>7. Displaced' = Displaced /\ Out' = Out /\ Emitted' = Emitted
  BY <1>1, <1>6 DEF Displaced, Out, Emitted
<1>8. \A m : ~Holds(buckets'[b], m)
  BY <1>3 DEF Holds
<1>9. Within' = Within \cup {b} /\ Within \subseteq DOMAIN buckets
  BY <1>5, <1>7, WithinBuckets DEF Within, IInv
<1>10. \A m : InWithin(m)' <=> InWithin(m)
  BY <1>3, <1>8, <1>9 DEF InWithin
<1>11. \A m : AtHand(m)' <=> AtHand(m)
  BY <1>1, <1>6 DEF AtHand
<1>12. Account'
  BY <1>1, <1>7, <1>10, <1>11, AccountStays DEF SInv
<1> QED
  BY <1>1, <1>6, <1>12 DEF SInv

\* What append does to the buckets.
LEMMA AppendHolds ==
    ASSUME TInv, AppendMessage
    PROVE  /\ hook.bucket \in DOMAIN buckets /\ DOMAIN buckets' = DOMAIN buckets
           /\ \A m : \A d \in DOMAIN buckets :
                 Holds(buckets'[d], m) <=>
                    \/ Holds(buckets[d], m)
                    \/ d = hook.bucket /\ m = Head(hook.left)
<1> DEFINE b == hook.bucket
           e == [id |-> Head(hook.left), order |-> Len(buckets[b].messages),
                 at |-> hook.at]
           x == [buckets[b] EXCEPT !.messages = Append(buckets[b].messages, e)]
<1>1. /\ b \in DOMAIN buckets /\ buckets[b] \in OpenBucket /\ e \in Entry
      /\ x \in OpenBucket /\ buckets' = [buckets EXCEPT ![b] = x]
      /\ x.messages = Append(buckets[b].messages, e) /\ e.id = Head(hook.left)
  BY AppendEffect
<1> HIDE DEF b, e, x
<1>2. /\ DOMAIN buckets' = DOMAIN buckets /\ buckets'[b] = x
      /\ \A d \in DOMAIN buckets : d # b => buckets'[d] = buckets[d]
  BY <1>1, BucketReplaced DEF TInv
<1>3. buckets[b].messages \in Seq(Entry)
  BY <1>1 DEF OpenBucket
<1>4. PICK n : /\ DOMAIN x.messages = DOMAIN buckets[b].messages \cup {n}
               /\ n \notin DOMAIN buckets[b].messages /\ x.messages[n] = e
               /\ \A i \in DOMAIN buckets[b].messages :
                     x.messages[i] = buckets[b].messages[i]
  BY <1>1, <1>3, Appended
<1>5. \A m : Holds(x, m) <=> Holds(buckets[b], m) \/ m = Head(hook.left)
  BY <1>1, <1>4 DEF Holds
<1> QED
  BY <1>1, <1>2, <1>5 DEF b

LEMMA ReachableIsWithin ==
    ASSUME NEW b
    PROVE  Reachable(b) <=> b \in Within
BY DEF Reachable, Within, InOpen, Emitted

LEMMA LossAppend == ASSUME IInv, SInv, AppendMessage PROVE SInv'
<1>1. /\ hook \in Hook /\ hook.pc = "append"
      /\ UNCHANGED <<open, claimed, ingested, worker>>
  BY Busy DEF IInv, TInv, AppendMessage
<1>2. PICK h, b : h = Head(hook.left) /\ b = hook.bucket
  OBVIOUS
<1>3. \A m : AtHand(m) <=> m = h
  BY <1>1, <1>2 DEF AtHand
<1>4. h \in claimed /\ ~Kept(h) /\ h \notin astray
  BY <1>1, <1>2, <1>3, KeptIsClaimed DEF IInv, MInv, Fresh, SInv, Account, Found
<1>5. hook'.pc = "touch" /\ hook'.displaced = hook.displaced
  BY <1>1 DEF AppendMessage, Hook
<1>6. Displaced' = Displaced /\ Out' = Out /\ Within' = Within
  BY <1>1, <1>5, HookWithin DEF Displaced
<1>7. \A m : ~AtHand(m)'
  BY <1>5, NotAtHandNext
<1>8. Within \subseteq DOMAIN buckets
  BY WithinBuckets DEF IInv
<1>9. \A m : \A d \in Within :
         Holds(buckets'[d], m) <=> Holds(buckets[d], m) \/ (d = b /\ m = h)
  BY <1>2, <1>8, AppendHolds DEF IInv
<1>10. \A m : InWithin(m)' <=> InWithin(m) \/ (b \in Within /\ m = h)
  BY <1>6, <1>9 DEF InWithin
<1>11. \A m : Kept(m)' <=> Kept(m) \/ (b \in Within /\ m = h)
  BY <1>1, <1>6, <1>10 DEF Kept
<1>12. CASE b \in Within
  <2>1. astray' = astray
    BY <1>2, <1>12, ReachableIsWithin DEF AppendMessage, Stray
  <2>2. \A m : Found(m)' <=> Found(m)
    BY <1>3, <1>7, <1>11, <1>12 DEF Found
  <2>3. Account'
    BY <1>1, <2>1, <2>2 DEF SInv, Account
  <2> QED
    BY <1>1, <1>5, <2>1, <2>3 DEF SInv
<1>13. CASE b \notin Within
  <2>1. astray' = astray \cup {h}
    BY <1>2, <1>13, ReachableIsWithin DEF AppendMessage, Stray
  <2>2. \A m : Found(m)' <=> Found(m) /\ m \notin {h}
    BY <1>3, <1>4, <1>7, <1>11, <1>13 DEF Found
  <2>3. Account'
    BY <1>1, <2>1, <2>2, AccountStep DEF SInv
  <2> QED
    BY <1>1, <1>4, <1>5, <2>1, <2>3 DEF SInv
<1> QED
  BY <1>12, <1>13

LEMMA LossTouch == ASSUME IInv, SInv, Touch PROVE SInv'
<1>1. /\ hook \in Hook /\ hook.pc = "touch" /\ TypeOK
      /\ UNCHANGED <<open, claimed, ingested, worker, astray>>
  BY Busy DEF IInv, TInv, Touch
<1>2. /\ hook'.pc \in {"claim", "process"} /\ Displaced' = Displaced
  <2>1. CASE hook.displaced = << >>
    BY <1>1, <2>1, NextPC, NextPlaces DEF Touch, Displaced
  <2>2. CASE hook.displaced # << >>
    <3>1. hook'.pc = "process" /\ hook'.displaced = hook.displaced
      BY <1>1, <2>2 DEF Touch, Hook
    <3> QED
      BY <1>1, <3>1 DEF Displaced
  <2> QED
    BY <2>1, <2>2
<1>3. \A d \in DOMAIN buckets : buckets'[d].messages = buckets[d].messages
  <2>1. PICK b \in DOMAIN buckets, x \in OpenBucket :
           /\ buckets' = [buckets EXCEPT ![b] = x]
           /\ x.messages = buckets[b].messages
    BY TouchEffect DEF IInv
  <2> QED
    BY <1>1, <2>1, BucketReplaced
<1>4. Within' = Within /\ Out' = Out /\ Within \subseteq DOMAIN buckets
  BY <1>1, HookWithin, WithinBuckets DEF IInv
<1>5. \A m : InWithin(m)' <=> InWithin(m)
  BY <1>3, <1>4 DEF InWithin, Holds
<1>6. \A m : AtHand(m)' <=> AtHand(m)
  BY <1>1, <1>2, NotAtHand, NotAtHandNext
<1>7. Account'
  BY <1>1, <1>2, <1>4, <1>5, <1>6, AccountStays DEF SInv
<1> QED
  BY <1>1, <1>2, <1>7 DEF SInv

LEMMA LossProcessDisplaced ==
    ASSUME IInv, SInv, ProcessDisplaced PROVE SInv'
<1>1. /\ hook \in Hook /\ hook.displaced \in Seq(Batch) /\ hook.pc = "process"
      /\ hook.displaced # << >> /\ Displaced = hook.displaced
      /\ Len(hook.displaced) <= 1 /\ ingested \in Seq(Batch)
      /\ UNCHANGED <<buckets, open, claimed, worker>>
  BY ClientTyped DEF IInv, TInv, TypeOK, ProcessDisplaced, HookSound, Hook,
                     Displaced
<1>2. PICK x \in Batch : x = Head(hook.displaced) /\ Displaced = <<x>>
  BY <1>1
<1>3. hook'.pc \in {"idle", "claim"} /\ Displaced' = << >>
  BY <1>1, NextPC, AnswerPlaces, NextPlaces DEF ProcessDisplaced, Answer, Idle
<1>4. Out' = Out /\ \A m : InWithin(m)' <=> InWithin(m)
  BY <1>1, HookWithin, SameWithin
<1>5. \A m : ~AtHand(m)' /\ ~AtHand(m)
  BY <1>1, <1>3, NotAtHand, NotAtHandNext
<1>6. \A m : Among(Displaced, m) <=> Holds(x, m)
  BY <1>2, AmongSingle
<1>7. \A m : ~Among(Displaced', m)
  BY <1>3, AmongNone
<1>8. CASE ingested' = Append(ingested, x) /\ astray' = astray
  <2>1. \A m : Among(ingested', m) <=> Among(ingested, m) \/ Holds(x, m)
    BY <1>1, <1>8, AmongAppend
  <2>2. \A m : Found(m)' <=> Found(m)
    BY <1>4, <1>5, <1>6, <1>7, <2>1 DEF Found, Kept
  <2>3. Account'
    BY <1>1, <1>8, <2>2 DEF SInv, Account
  <2> QED
    BY <1>1, <1>3, <1>8, <2>3 DEF SInv
<1>9. CASE ingested' = ingested /\ astray' = astray \cup Members(Displaced)
  <2>1. PICK gone : gone = Members(Displaced)
    OBVIOUS
  <2>2. \A m \in Messages : m \in gone <=> Among(Displaced, m)
    BY <2>1 DEF Members, Among
  <2>3. gone \subseteq claimed /\ claimed \subseteq Messages
    <3>1. gone \subseteq Messages
      BY <2>1 DEF Members
    <3> QED
      BY <2>2, <3>1, KeptIsClaimed DEF Kept, IInv, TInv, TypeOK
  <2>4. \A m : Among(Displaced, m) =>
           ~Among(ingested, m) /\ ~Among(Out, m) /\ ~InWithin(m)
    BY Exclusive
  <2>5. \A m \in claimed : Found(m)' <=> Found(m) /\ m \notin gone
    BY <1>4, <1>5, <1>7, <1>9, <2>2, <2>3, <2>4 DEF Found, Kept
  <2>6. Account'
    BY <1>1, <1>9, <2>1, <2>5, AccountStep DEF SInv
  <2> QED
    BY <1>1, <1>3, <1>9, <2>1, <2>3, <2>6 DEF SInv
<1> QED
  BY <1>1, <1>2, <1>8, <1>9 DEF ProcessDisplaced, Stray

\* The webhook is left alone.
LEMMA HookRests ==
    ASSUME UNCHANGED hook
    PROVE  Displaced' = Displaced /\ \A m : AtHand(m)' <=> AtHand(m)
BY DEF Displaced, AtHand

\* The thread ends and drops the batches it holds.
LEMMA LossDie ==
    ASSUME IInv, SInv, Die(Out), worker.pc # "dump",
           UNCHANGED <<buckets, open, claimed, ingested, hook>>
    PROVE  SInv'
<1>1. PICK gone : gone = Members(Out) /\ astray' = astray \cup gone
  BY DEF Die, Stray
<1>2. Out' = << >> /\ Emitted' = Emitted
  BY DEF Die, Dead, Out, Emitted
<1>3. Within' = Within
  BY <1>2 DEF Within, InOpen, OpenClients
<1>4. \A m : InWithin(m)' <=> InWithin(m)
  BY <1>3, SameWithin
<1>5. \A m \in Messages : m \in gone <=> Among(Out, m)
  BY <1>1 DEF Members, Among
<1>6. gone \subseteq claimed /\ claimed \subseteq Messages
  <2>1. gone \subseteq Messages
    BY <1>1 DEF Members
  <2> QED
    BY <1>5, <2>1, KeptIsClaimed DEF Kept, IInv, TInv, TypeOK
<1>7. \A m : /\ Among(Displaced, m) => ~Among(Out, m)
             /\ Among(Out, m) => ~Among(ingested, m) /\ ~InWithin(m)
             /\ Kept(m) => ~AtHand(m)
             /\ ~Among(Out', m)
  BY <1>2, Exclusive, KeptIsClaimed, AmongNone
<1>8. \A m \in claimed : Found(m)' <=> Found(m) /\ m \notin gone
  BY <1>4, <1>5, <1>6, <1>7, HookRests DEF Found, Kept
<1>9. Account'
  BY <1>1, <1>8, AccountStep DEF SInv
<1>10. Client' = Client
  BY DEF Client
<1> QED
  BY <1>1, <1>6, <1>9, <1>10 DEF SInv

LEMMA LossWorker == ASSUME IInv, SInv, WorkerStep PROVE SInv'
<1>1. /\ TypeOK /\ UNCHANGED <<buckets, claimed, hook>> /\ Displaced' = Displaced
      /\ \A m : AtHand(m)' <=> AtHand(m)
  BY HookRests DEF IInv, TInv, WorkerStep, StartFlush, Scan, Emit, CopyBucket,
                   ProcessDue
<1>2. Client' = Client
  BY <1>1 DEF Client
\* A step that hands nothing over and keeps the batches.
<1>3. ASSUME UNCHANGED <<ingested, astray>>, Out' = Out, Within' = Within,
             \A c \in Clients : open[c] = 0 => open'[c] = 0
      PROVE  SInv'
  <2>1. \A m : InWithin(m)' <=> InWithin(m)
    BY <1>1, <1>3, SameWithin
  <2>2. Account'
    BY <1>1, <1>3, <2>1, AccountStays DEF SInv
  <2>3. hook.pc = "insert" => Client \in Clients
    BY ClientTyped DEF IInv
  <2> QED
    BY <1>1, <1>2, <1>3, <2>2, <2>3 DEF SInv
<1>4. CASE StartFlush
  <2>1. /\ Out = << >> /\ Emitted = {} /\ Out' = << >> /\ Emitted' = {}
        /\ InOpen' = InOpen /\ UNCHANGED <<open, ingested, astray>>
    BY <1>4 DEF StartFlush, Out, Emitted, InOpen, OpenClients
  <2> QED
    BY <1>3, <2>1 DEF Within
<1>5. CASE Scan
  <2>1. /\ worker \in Worker /\ worker.pc = "scan" /\ Out = worker.out
        /\ UNCHANGED <<open, ingested>>
    BY <1>5, Busy DEF IInv, TInv, Scan, Out
  <2>2. CASE Die(worker.out)
    BY <1>1, <2>1, <2>2, LossDie
  <2>3. CASE ~Die(worker.out)
    <3>1. /\ worker'.pc \in {"scan", "emit"} /\ worker'.out = worker.out
          /\ astray' = astray
      BY <1>5, <2>1, <2>3 DEF Scan, Worker
    <3>2. Out' = Out /\ Within' = Within
      BY <2>1, <3>1 DEF Out, Within, Emitted, InOpen, OpenClients
    <3> QED
      BY <1>3, <2>1, <3>1, <3>2
  <2> QED
    BY <2>2, <2>3
<1>6. CASE Emit
  <2>1. /\ worker \in Worker /\ worker.pc = "emit" /\ Out = worker.out
        /\ ingested' = ingested /\ Emitted = {}
    BY <1>6, Busy DEF IInv, TInv, Emit, Out, Emitted
  <2>2. CASE worker.due = << >>
    <3>1. /\ worker'.pc = "process" /\ worker'.out = worker.out
          /\ UNCHANGED <<open, astray>>
      BY <1>6, <2>1, <2>2 DEF Emit, Worker
    <3>2. Out' = Out /\ Within' = Within
      BY <2>1, <3>1 DEF Out, Within, Emitted, InOpen, OpenClients
    <3> QED
      BY <1>3, <2>1, <3>1, <3>2
  <2>3. CASE worker.due # << >> /\ open[Head(worker.due)] = 0
    <3>1. Die(worker.out) /\ open' = open
      BY <1>6, <2>3 DEF Emit
    <3> QED
      BY <1>1, <2>1, <3>1, LossDie
  <2>4. CASE worker.due # << >> /\ open[Head(worker.due)] # 0
    <3>1. PICK c \in Clients, b \in DOMAIN buckets :
             /\ b = open[c] /\ open' = [open EXCEPT ![c] = 0]
             /\ worker'.pc = "dump" /\ worker'.bucket = b
             /\ worker'.out = worker.out /\ open[c] # 0
      BY <1>6, <2>4, EmitEffect DEF IInv
    <3>2. InOpen' = InOpen \ {b} /\ b \in InOpen
      BY <1>1, <3>1, TakenOut DEF IInv, PInv
    <3>3. Out' = Out /\ Emitted' = {b} /\ astray' = astray
      BY <1>6, <2>1, <2>4, <3>1 DEF Emit, Out, Emitted
    <3>4. Within' = Within
      BY <2>1, <3>2, <3>3 DEF Within
    <3>5. \A d \in Clients : open[d] = 0 => open'[d] = 0
      BY <1>1, <3>1 DEF TypeOK
    <3> QED
      BY <1>3, <2>1, <3>3, <3>4, <3>5
  <2> QED
    BY <2>2, <2>3, <2>4
<1>7. CASE CopyBucket
  <2>1. /\ worker \in Worker /\ worker.pc = "dump" /\ worker'.pc = "emit"
        /\ worker'.out = Append(worker.out, Dump(worker.bucket))
        /\ worker.out \in Seq(Batch) /\ Dump(worker.bucket) \in Batch
        /\ UNCHANGED <<open, ingested, astray>>
    BY <1>7, CopyEffect DEF CopyBucket, IInv
  <2>2. PICK b, x : b = worker.bucket /\ x = Dump(b) /\ x \in Batch
    BY <2>1
  <2>3. /\ Out = worker.out /\ Out' = Append(Out, x)
        /\ Emitted = {b} /\ Emitted' = {} /\ InOpen' = InOpen
    BY <2>1, <2>2 DEF Out, Emitted, InOpen, OpenClients
  <2>4. ASSUME NEW m PROVE Kept(m)' <=> Kept(m)
    <3>1. Among(Out', m) <=> Among(Out, m) \/ Holds(buckets[b], m)
      BY <2>1, <2>2, <2>3, AmongAppend DEF Dump, Holds
    <3>2. InWithin(m) <=> InWithin(m)' \/ Holds(buckets[b], m)
      BY <1>1, <2>3 DEF InWithin, Within
    <3> QED
      BY <1>1, <2>1, <3>1, <3>2 DEF Kept
  <2>5. \A m : Found(m)' <=> Found(m)
    BY <1>1, <2>4 DEF Found
  <2>6. Account'
    BY <1>1, <2>1, <2>5 DEF SInv, Account
  <2> QED
    BY <1>1, <1>2, <2>1, <2>6 DEF SInv
<1>8. CASE ProcessDue
  <2>1. /\ worker \in Worker /\ worker.pc = "process" /\ Out = worker.out
        /\ Out \in Seq(Batch) /\ ingested \in Seq(Batch)
        /\ Emitted = {} /\ open' = open
    BY <1>1, <1>8, Busy DEF TypeOK, ProcessDue, Worker, Out, Emitted
  <2>2. CASE worker.out = << >>
    <3>1. worker' = Idle /\ UNCHANGED <<ingested, astray>>
      BY <1>8, <2>2 DEF ProcessDue
    <3>2. Out' = Out /\ Within' = Within
      BY <2>1, <2>2, <3>1 DEF Idle, Out, Within, Emitted, InOpen, OpenClients
    <3> QED
      BY <1>3, <2>1, <3>1, <3>2
  <2>3. CASE Die(worker.out) /\ ingested' = ingested
    BY <1>1, <2>1, <2>3, LossDie
  <2>4. CASE Out # << >> /\ ingested' = Append(ingested, Head(Out))
    <3>1. PICK x \in Batch, t \in Seq(Batch) :
             /\ x = Head(Out) /\ t = Tail(Out)
             /\ \A m : Among(Out, m) <=> Holds(x, m) \/ Among(t, m)
      BY <2>1, <2>4, AmongTail
    <3>2. \A m : Among(ingested', m) <=> Among(ingested, m) \/ Holds(x, m)
      BY <2>1, <2>4, <3>1, AmongAppend
    <3>3. CASE worker' = [worker EXCEPT !.out = Tail(@)] /\ astray' = astray
      <4>1. worker'.pc = "process" /\ worker'.out = t
        BY <2>1, <3>1, <3>3 DEF Worker
      <4>2. Out' = t /\ Within' = Within
        BY <2>1, <4>1 DEF Out, Within, Emitted, InOpen, OpenClients
      <4>3. \A m : InWithin(m)' <=> InWithin(m)
        BY <1>1, <4>2, SameWithin
      <4>4. \A m : Found(m)' <=> Found(m)
        BY <1>1, <3>1, <3>2, <4>2, <4>3 DEF Found, Kept
      <4>5. Account'
        BY <1>1, <3>3, <4>4 DEF SInv, Account
      <4> QED
        BY <1>1, <1>2, <2>1, <3>3, <4>5 DEF SInv
    <3>4. CASE Die(Tail(worker.out))
      <4>1. PICK gone : gone = Members(t) /\ astray' = astray \cup gone
        BY <2>1, <3>1, <3>4 DEF Die, Stray
      <4>2. Out' = << >> /\ Within' = Within
        BY <2>1, <3>4 DEF Die, Dead, Out, Within, Emitted, InOpen, OpenClients
      <4>3. \A m : InWithin(m)' <=> InWithin(m)
        BY <1>1, <4>2, SameWithin
      <4>4. \A m \in Messages : m \in gone <=> Among(t, m)
        BY <4>1 DEF Members, Among
      <4>5. gone \subseteq claimed /\ claimed \subseteq Messages
        <5>1. gone \subseteq Messages
          BY <4>1 DEF Members
        <5> QED
          BY <1>1, <3>1, <4>4, <5>1, KeptIsClaimed DEF Kept, TypeOK
      <4>6. \A m : /\ Among(Displaced, m) => ~Among(Out, m)
                   /\ Among(Out, m) => ~Among(ingested, m) /\ ~InWithin(m)
                   /\ Kept(m) => ~AtHand(m)
                   /\ Holds(x, m) => ~Among(t, m)
                   /\ ~Among(Out', m)
        BY <2>1, <2>4, <3>1, <4>2, Exclusive, KeptIsClaimed, HeadOnly, AmongNone
      <4>7. \A m \in claimed : Found(m)' <=> Found(m) /\ m \notin gone
        BY <1>1, <3>1, <3>2, <4>3, <4>4, <4>5, <4>6 DEF Found, Kept
      <4>8. Account'
        BY <1>1, <4>1, <4>7, AccountStep DEF SInv
      <4> QED
        BY <1>1, <1>2, <2>1, <4>1, <4>5, <4>8 DEF SInv
    <3> QED
      BY <1>8, <2>1, <2>3, <2>4, <3>3, <3>4 DEF ProcessDue
  <2> QED
    BY <1>8, <2>1, <2>2, <2>3, <2>4 DEF ProcessDue
<1> QED
  BY <1>4, <1>5, <1>6, <1>7, <1>8 DEF WorkerStep

LEMMA LossStep == ASSUME IInv, SInv, [Next]_vars PROVE SInv'
<1>1. ASSUME UNCHANGED <<buckets, open, claimed, ingested, hook, worker, astray>>
      PROVE  SInv'
  <2>1. Out' = Out /\ Within' = Within /\ Client' = Client
    BY <1>1, HookWithin DEF Client
  <2>2. \A m : InWithin(m)' <=> InWithin(m)
    BY <1>1, <2>1, SameWithin
  <2>3. Account'
    BY <1>1, <2>1, <2>2, HookRests, AccountStays DEF SInv
  <2> QED
    BY <1>1, <2>1, <2>3 DEF SInv
<1>2. CASE HookStep
  BY <1>2, LossClaim, LossGet, LossDisplace, LossInsert, LossAppend, LossTouch,
     LossProcessDisplaced DEF HookStep, IInv
<1> QED
  BY <1>1, <1>2, LossDeliver, LossWorker DEF Next, Tick, vars, IInv

LEMMA LossInit == Init => SInv
BY DEF Init, SInv, Account, Idle

\* Without a lock and whatever raises, the messages that an exception took with
\* it, or that came to a bucket already copied, are those that are lost, and no
\* others, for any clients, bodies and windows.
THEOREM LossIsConfinedAlways == Spec => []LossIsConfined
<1> DEFINE Inv == IInv /\ SInv
<1>1. Init => Inv
  BY TypeInit, PlacesInit, LossInit DEF IInv
<1>2. Inv /\ [Next]_vars => Inv'
  BY TypeStep, MessagesStep, PlacesStep, LossStep DEF IInv
<1>3. Inv => LossIsConfined
  BY PlacesKept DEF IInv, SInv, Account, Found, LossIsConfined
<1> HIDE DEF Inv
<1> QED
  BY <1>1, <1>2, <1>3, PTL DEF Spec

=============================================================================
