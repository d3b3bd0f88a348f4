-------------------------- MODULE AggregatorProofs --------------------------
(***************************************************************************)
(* Proofs about Aggregator for any clients, windows and bounds.            *)
(***************************************************************************)
EXTENDS Aggregator, TLAPS

LEMMA NewBucketTyped ==
    ASSUME NEW c \in Clients, NEW id \in Nat, NEW at \in Nat
    PROVE  NewBucket(c, id, at) \in Bucket
BY DEF NewBucket, Bucket

LEMMA WithMessageTyped ==
    ASSUME NEW b \in Bucket, NEW id \in Nat, NEW at \in Nat
    PROVE  WithMessage(b, id, at) \in Bucket
<1> DEFINE m == [id |-> id, order |-> Len(b.messages), at |-> at]
<1>1. b.messages \in Seq(Message) /\ m \in Message
  BY DEF Bucket, Message
<1> HIDE DEF m
<1>2. Append(b.messages, m) \in Seq(Message)
  BY <1>1
<1>3. WithMessage(b, id, at) =
         [b EXCEPT !.messages = Append(b.messages, m), !.last_at = at]
  BY DEF WithMessage, m
<1> QED
  BY <1>2, <1>3 DEF Bucket

\* What add does to the bucket of client c, in terms of the bucket it uses.
LEMMA AddEffect ==
    ASSUME TypeOK, NEW c \in Clients, NEW at \in Nat, Add(c, at)
    PROVE  \E b \in Bucket :
             /\ open' = [open EXCEPT ![c] = WithMessage(b, arrived + 1, at)]
             /\ \/ /\ Present(open[c]) /\ Active(open[c], at)
                   /\ b = open[c] /\ closed' = closed
                \/ /\ b = NewBucket(c, arrived + 1, at)
                   /\ \/ /\ Present(open[c]) /\ ~Active(open[c], at)
                         /\ closed' = closed \cup {open[c]}
                      \/ ~Present(open[c]) /\ closed' = closed
<1>1. NewBucket(c, arrived + 1, at) \in Bucket /\ open[c] \in Bucket
  BY NewBucketTyped DEF TypeOK
<1>2. CASE Present(open[c]) /\ Active(open[c], at)
  BY <1>1, <1>2 DEF Add
<1>3. CASE Present(open[c]) /\ ~Active(open[c], at)
  BY <1>1, <1>3 DEF Add
<1>4. CASE ~Present(open[c])
  BY <1>1, <1>4 DEF Add
<1> QED
  BY <1>2, <1>3, <1>4

LEMMA TypeNext == TypeOK /\ [Next]_vars => TypeOK'
<1> SUFFICES ASSUME TypeOK, [Next]_vars PROVE TypeOK'
  OBVIOUS
<1>1. ASSUME NEW c \in Clients, NEW at \in lastAdd .. now, Add(c, at)
      PROVE  TypeOK'
  <2>1. at \in Nat
    BY DEF TypeOK
  <2>2. PICK b \in Bucket :
           /\ open' = [open EXCEPT ![c] = WithMessage(b, arrived + 1, at)]
           /\ closed' = closed \/ closed' = closed \cup {open[c]}
    BY <1>1, <2>1, AddEffect
  <2>3. WithMessage(b, arrived + 1, at) \in Bucket
    BY <2>1, WithMessageTyped DEF TypeOK
  <2>4. open' \in [Clients -> Bucket] /\ closed' \subseteq Bucket
    BY <2>2, <2>3 DEF TypeOK
  <2> QED
    BY <1>1, <2>1, <2>4 DEF TypeOK, Add
<1>2. ASSUME NEW cs \in SUBSET Clients, Emit(cs)
      PROVE  open' \in [Clients -> Bucket] /\ closed' \subseteq Bucket
  <2>1. \A c \in Clients : NoBucket(c) \in Bucket
    BY NewBucketTyped DEF NoBucket
  <2> QED
    BY <1>2, <2>1 DEF TypeOK, Emit
<1>3. ASSUME NEW at \in 0 .. now, FlushDue(at) PROVE TypeOK'
  BY <1>2, <1>3 DEF TypeOK, FlushDue
<1>4. CASE FlushAll
  BY <1>2, <1>4 DEF TypeOK, FlushAll
<1>5. CASE Tick
  BY <1>5 DEF TypeOK, Tick
<1>6. CASE UNCHANGED vars
  BY <1>6 DEF TypeOK, vars
<1> QED
  BY <1>1, <1>3, <1>4, <1>5, <1>6 DEF Next

LEMMA TypeInit == Init => TypeOK
<1>1. \A c \in Clients : NoBucket(c) \in Bucket
  BY NewBucketTyped DEF NoBucket
<1> QED
  BY <1>1 DEF Init, TypeOK

\* The aggregator keeps its types for any clients and any windows.
THEOREM TypeCorrect == Spec => []TypeOK
BY TypeInit, TypeNext, PTL DEF Spec

-----------------------------------------------------------------------------
(* Windows. The inductive invariant ties last_at to the last message and   *)
(* bounds it by the latest time of an add.                                 *)

Good(b, latest) ==
    /\ Present(b)
    /\ InWindows(b)
    /\ b.messages[Len(b.messages)].at = b.last_at
    /\ b.last_at <= latest

WInv ==
    /\ TypeOK
    /\ \A b \in closed : Good(b, lastAdd)
    /\ \A c \in Clients : Present(open[c]) => Good(open[c], lastAdd)

\* The fields of the bucket that add stores.
LEMMA WithMessageFields ==
    ASSUME NEW b \in Bucket, NEW id \in Nat, NEW at \in Nat
    PROVE  LET z == WithMessage(b, id, at)
               m == [id |-> id, order |-> Len(b.messages), at |-> at]
           IN  /\ z.messages = Append(b.messages, m) /\ z.last_at = at
               /\ z.started_at = b.started_at /\ z.client_id = b.client_id
               /\ z.request_id = b.request_id
<1> DEFINE z == WithMessage(b, id, at)
           m == [id |-> id, order |-> Len(b.messages), at |-> at]
<1>1. z = [b EXCEPT !.messages = Append(b.messages, m), !.last_at = at]
  BY DEF WithMessage
<1> HIDE DEF m, z
<1>2. /\ z.messages = Append(b.messages, m) /\ z.last_at = at
      /\ z.started_at = b.started_at /\ z.client_id = b.client_id
      /\ z.request_id = b.request_id
  BY <1>1 DEF Bucket
<1> QED
  BY <1>2 DEF m, z

\* A first message makes a good bucket.
LEMMA GoodNew ==
    ASSUME NEW c \in Clients, NEW id \in Nat, NEW at \in Nat
    PROVE  Good(WithMessage(NewBucket(c, id, at), id, at), at)
<1> DEFINE m == [id |-> id, order |-> 0, at |-> at]
           b == WithMessage(NewBucket(c, id, at), id, at)
<1>1. m.at = at
  OBVIOUS
<1>2. /\ b.started_at = at /\ b.last_at = at
      /\ b.messages = Append(<< >>, m)
  <2> DEFINE e == NewBucket(c, id, at)
  <2>1. e \in Bucket
    BY NewBucketTyped
  <2>2. e.messages = << >> /\ e.started_at = at
    BY DEF NewBucket
  <2> HIDE DEF e
  <2>3. Len(e.messages) = 0
    BY <2>2
  <2>4. /\ WithMessage(e, id, at).started_at = at
        /\ WithMessage(e, id, at).last_at = at
        /\ WithMessage(e, id, at).messages = Append(<< >>, m)
    BY <2>1, <2>2, <2>3, WithMessageFields
  <2> QED
    BY <2>4 DEF e
<1> HIDE DEF b, m
<1>3. b.started_at = at /\ b.last_at = at /\ b.messages = <<m>>
  BY <1>2
<1>4. at - at < MaxDuration
  BY AggregatorAssumption
<1>5. /\ Len(b.messages) = 1 /\ b.messages[1] = m /\ b.messages # << >>
  BY <1>3
<1>6. InWindows(b)
  BY <1>1, <1>3, <1>4, <1>5 DEF InWindows
<1> QED
  BY <1>1, <1>3, <1>5, <1>6 DEF Good, Present, b

\* A message that finds the bucket active keeps it good.
LEMMA GoodJoin ==
    ASSUME NEW b \in Bucket, NEW latest \in Nat, NEW at \in Nat, NEW id \in Nat,
           Good(b, latest), Active(b, at), latest <= at
    PROVE  Good(WithMessage(b, id, at), at)
<1> DEFINE m == [id |-> id, order |-> Len(b.messages), at |-> at]
           z == WithMessage(b, id, at)
           n == Len(b.messages)
<1>1. /\ z.messages = Append(b.messages, m) /\ z.started_at = b.started_at
      /\ z.last_at = at
  BY WithMessageFields
<1>2. m.at = at /\ m \in Message
  BY DEF Message, Bucket
<1>3. b.messages \in Seq(Message) /\ b.started_at \in Nat /\ b.last_at \in Nat
  BY DEF Bucket
<1> HIDE DEF m, z
<1>4. /\ n \in Nat \ {0} /\ Len(z.messages) = n + 1
      /\ z.messages[n + 1] = m
      /\ \A i \in 1 .. n : z.messages[i] = b.messages[i]
  BY <1>1, <1>2, <1>3 DEF Good, Present
<1>5. \A i \in 1 .. n : b.messages[i].at \in Nat
  <2>1. \A i \in 1 .. n : b.messages[i] \in Message
    BY <1>3
  <2> QED
    BY <2>1 DEF Message
<1>6. /\ at - b.last_at < Inactivity /\ at - b.started_at < MaxDuration
      /\ b.messages[n].at = b.last_at /\ b.last_at <= at
      /\ b.messages[1].at = b.started_at
      /\ \A i \in 1 .. n : b.messages[i].at - b.started_at < MaxDuration
      /\ \A i \in 1 .. n - 1 :
            b.messages[i + 1].at - b.messages[i].at \in 0 .. Inactivity - 1
  BY <1>3 DEF Active, Good, InWindows
<1> HIDE DEF n
<1>7. z.messages[1].at = z.started_at
  BY <1>1, <1>4, <1>6
<1>8. \A i \in 1 .. n + 1 : z.messages[i].at - z.started_at < MaxDuration
  <2> TAKE i \in 1 .. n + 1
  <2>1. CASE i \in 1 .. n
    BY <1>1, <1>4, <1>6, <2>1
  <2>2. CASE i = n + 1
    BY <1>1, <1>2, <1>4, <1>6, <2>2
  <2> QED
    BY <1>4, <2>1, <2>2
<1>9. \A i \in 1 .. n :
         z.messages[i + 1].at - z.messages[i].at \in 0 .. Inactivity - 1
  <2> TAKE i \in 1 .. n
  <2>1. CASE i \in 1 .. n - 1
    <3>1. i + 1 \in 1 .. n
      BY <1>4, <2>1
    <3> QED
      BY <1>4, <1>6, <2>1, <3>1
  <2>2. CASE i = n
    <3>1. at - b.last_at \in 0 .. Inactivity - 1
      BY <1>3, <1>6, AggregatorAssumption
    <3> QED
      BY <1>2, <1>4, <1>6, <2>2, <3>1
  <2> QED
    BY <1>4, <2>1, <2>2
<1>10. z.messages # << >>
  BY <1>4
<1>11. (n + 1) - 1 = n
  BY <1>4
<1>12. InWindows(z)
  BY <1>4, <1>7, <1>8, <1>9, <1>11 DEF InWindows
<1>13. Good(z, at)
  BY <1>1, <1>2, <1>4, <1>10, <1>12 DEF Good, Present
<1> QED
  BY <1>13 DEF z

LEMMA GoodLater ==
    ASSUME NEW b \in Bucket, NEW l1 \in Nat, NEW l2 \in Nat, l1 <= l2, Good(b, l1)
    PROVE  Good(b, l2)
BY DEF Good, Bucket

\* What emitting some clients' buckets does, for flush_due and flush_all.
LEMMA EmitEffect ==
    ASSUME TypeOK, NEW cs \in SUBSET Clients, \A c \in cs : Present(open[c]),
           Emit(cs)
    PROVE  /\ closed' = closed \cup {open[c] : c \in cs}
           /\ \A c \in cs : ~Present(open'[c]) /\ open'[c].client_id = c
           /\ \A c \in Clients \ cs : open'[c] = open[c]
           /\ Buckets' = Buckets
<1>1. /\ closed' = closed \cup {open[c] : c \in cs}
      /\ \A c \in cs : open'[c] = NoBucket(c)
      /\ \A c \in Clients \ cs : open'[c] = open[c]
  BY DEF Emit
<1>2. \A c \in cs : NoBucket(c).messages = << >> /\ NoBucket(c).client_id = c
  BY DEF NoBucket, NewBucket
<1>3. \A c \in cs : ~Present(open'[c]) /\ open'[c].client_id = c
  BY <1>1, <1>2 DEF Present
<1>4. Buckets' = Buckets
  <2>1. \A b : b \in Buckets <=>
                 b \in closed \/ (\E c \in Clients : b = open[c] /\ Present(b))
    BY DEF Buckets, OpenBuckets
  <2>2. \A b : b \in Buckets' <=>
                 b \in closed' \/ (\E c \in Clients : b = open'[c] /\ Present(b))
    BY DEF Buckets, OpenBuckets, Present
  <2>3. \A b : b \in Buckets' => b \in Buckets
    BY <1>1, <1>3, <2>1, <2>2
  <2>4. \A b : b \in Buckets => b \in Buckets'
    BY <1>1, <1>3, <2>1, <2>2
  <2> QED
    BY <2>3, <2>4
<1> QED
  BY <1>1, <1>3, <1>4

LEMMA WindowsInit == Init => WInv
<1>1. \A c \in Clients : NoBucket(c).messages = << >>
  BY DEF NoBucket, NewBucket
<1> QED
  BY <1>1, TypeInit DEF Init, WInv, Present

LEMMA WindowsNext == WInv /\ [Next]_vars => WInv'
<1> SUFFICES ASSUME WInv, [Next]_vars PROVE WInv'
  OBVIOUS
<1>0. TypeOK /\ TypeOK'
  BY TypeNext DEF WInv
<1>1. ASSUME NEW c \in Clients, NEW at \in lastAdd .. now, Add(c, at)
      PROVE  WInv'
  <2>1. at \in Nat /\ lastAdd \in Nat /\ lastAdd <= at /\ arrived + 1 \in Nat
    BY <1>0 DEF TypeOK
  <2>2. lastAdd' = at
    BY <1>1 DEF Add
  <2>3. PICK b \in Bucket :
           /\ open' = [open EXCEPT ![c] = WithMessage(b, arrived + 1, at)]
           /\ \/ /\ Present(open[c]) /\ Active(open[c], at)
                 /\ b = open[c] /\ closed' = closed
              \/ /\ b = NewBucket(c, arrived + 1, at)
                 /\ \/ /\ Present(open[c]) /\ ~Active(open[c], at)
                       /\ closed' = closed \cup {open[c]}
                    \/ ~Present(open[c]) /\ closed' = closed
    BY <1>0, <1>1, <2>1, AddEffect
  <2>4. \A d \in closed : Good(d, at)
    BY <1>0, <2>1, GoodLater DEF WInv, TypeOK
  <2>5. \A e \in Clients : Present(open[e]) => Good(open[e], at)
    BY <1>0, <2>1, GoodLater DEF WInv, TypeOK
  <2>6. Good(WithMessage(b, arrived + 1, at), at)
    <3>1. CASE b = NewBucket(c, arrived + 1, at)
      BY <2>1, <3>1, GoodNew
    <3>2. CASE b = open[c] /\ Present(open[c]) /\ Active(open[c], at)
      BY <2>1, <3>2, GoodJoin DEF WInv
    <3> QED
      BY <2>3, <3>1, <3>2
  <2>7. \A e \in Clients : Present(open'[e]) => Good(open'[e], at)
    BY <1>0, <2>3, <2>5, <2>6 DEF TypeOK
  <2>8. \A d \in closed' : Good(d, at)
    BY <2>3, <2>4, <2>5
  <2> QED
    BY <1>0, <2>2, <2>7, <2>8 DEF WInv, Present, Good, InWindows
<1>2. ASSUME NEW cs \in SUBSET Clients, \A c \in cs : Present(open[c]),
             Emit(cs), lastAdd' = lastAdd
      PROVE  WInv'
  <2>1. /\ closed' = closed \cup {open[c] : c \in cs}
        /\ \A c \in cs : ~Present(open'[c])
        /\ \A c \in Clients \ cs : open'[c] = open[c]
    BY <1>0, <1>2, EmitEffect
  <2>2. \A d \in closed' : Good(d, lastAdd)
    BY <1>2, <2>1 DEF WInv
  <2>3. \A c \in Clients : Present(open'[c]) => Good(open'[c], lastAdd)
    BY <2>1 DEF WInv
  <2> QED
    BY <1>0, <1>2, <2>2, <2>3 DEF WInv, Present, Good, InWindows
<1>3. ASSUME NEW at \in 0 .. now, FlushDue(at) PROVE WInv'
  BY <1>2, <1>3 DEF FlushDue
<1>4. CASE FlushAll
  BY <1>2, <1>4 DEF FlushAll
<1>5. CASE UNCHANGED <<open, closed, lastAdd>>
  BY <1>0, <1>5 DEF WInv, Present, Good, InWindows
<1>6. Tick \/ UNCHANGED vars => UNCHANGED <<open, closed, lastAdd>>
  BY DEF Tick, vars
<1> QED
  BY <1>1, <1>3, <1>4, <1>5, <1>6 DEF Next

\* FR-AGG-01 and FR-AGG-03: no bucket, open or closed, spans more than its
\* windows, for any clients, windows, lag and number of messages.
THEOREM WindowsRespectedAlways == Spec => []WindowsRespected
<1>1. WInv => WindowsRespected
  BY DEF WInv, WindowsRespected, Buckets, OpenBuckets, Good
<1> QED
  BY <1>1, WindowsInit, WindowsNext, PTL DEF Spec

-----------------------------------------------------------------------------
(* Splits. What was closed was inactive when it was closed, at no later    *)
(* time than now, and stays so; a client's buckets are numbered in the     *)
(* order they were opened.                                                 *)

SplitInv ==
    /\ TypeOK
    /\ \A c \in Clients : open[c].client_id = c
    /\ \A b \in Buckets : b.request_id <= arrived
    /\ \A b \in closed : Present(open[b.client_id]) =>
          b.request_id < open[b.client_id].request_id
    /\ running => \A b \in closed : ~Active(b, now)
    /\ NotSplitEarly

LEMMA InactiveStays ==
    ASSUME NEW b \in Bucket, NEW t1 \in Nat, NEW t2 \in Nat, t1 <= t2,
           ~Active(b, t1)
    PROVE  ~Active(b, t2)
BY AggregatorAssumption DEF Active, Bucket

LEMMA BucketsAre ==
    \A b : b \in Buckets <=>
        b \in closed \/ (\E c \in Clients : b = open[c] /\ Present(b))
BY DEF Buckets, OpenBuckets

LEMMA SplitInit == Init => SplitInv
<1>1. \A c \in Clients : NoBucket(c).messages = << >> /\ NoBucket(c).client_id = c
  BY DEF NoBucket, NewBucket
<1>2. Init => Buckets = {}
  BY <1>1 DEF Init, Buckets, OpenBuckets, Present
<1> QED
  BY <1>1, <1>2, TypeInit DEF Init, SplitInv, NotSplitEarly

\* add keeps the invariant: the bucket it leaves open is either new, and later
\* than everything inactive, or the youngest of its client.
LEMMA SplitAdd ==
    ASSUME SplitInv, TypeOK', NEW c \in Clients, NEW at \in 0 .. now,
           now - at <= MaxLag, Add(c, at)
    PROVE  SplitInv'
<1> DEFINE n == arrived + 1
<1>1. /\ TypeOK /\ now \in Nat /\ arrived \in Nat /\ n \in Nat /\ at \in Nat
      /\ running /\ running' /\ arrived' = n /\ now' = now
  BY DEF SplitInv, TypeOK, Add
<1>2. PICK b \in Bucket :
         /\ open' = [open EXCEPT ![c] = WithMessage(b, n, at)]
         /\ \/ /\ Present(open[c]) /\ Active(open[c], at)
               /\ b = open[c] /\ closed' = closed
            \/ /\ b = NewBucket(c, n, at)
               /\ \/ /\ Present(open[c]) /\ ~Active(open[c], at)
                     /\ closed' = closed \cup {open[c]}
                  \/ ~Present(open[c]) /\ closed' = closed
  BY <1>1, AddEffect
<1> DEFINE z == WithMessage(b, n, at)
<1>3. /\ z \in Bucket /\ z.started_at = b.started_at
      /\ z.request_id = b.request_id /\ z.client_id = b.client_id
  <2>1. n \in Nat /\ at \in Nat
    BY <1>1
  <2> HIDE DEF n
  <2>2. z \in Bucket
    BY <2>1, WithMessageTyped
  <2>3. z.started_at = b.started_at /\ z.request_id = b.request_id
        /\ z.client_id = b.client_id
    BY <2>1, WithMessageFields
  <2> QED
    BY <2>2, <2>3
<1>4. b = NewBucket(c, n, at) =>
         b.request_id = n /\ b.client_id = c /\ b.started_at = at
  BY DEF NewBucket
<1> HIDE DEF z
<1>5. open'[c] = z /\ \A e \in Clients \ {c} : open'[e] = open[e]
  BY <1>1, <1>2 DEF TypeOK, z
<1>6. z.client_id = c
  BY <1>2, <1>3, <1>4 DEF SplitInv
<1>7. \A e \in Clients : open'[e].client_id = e
  BY <1>5, <1>6 DEF SplitInv
<1>8. closed' \subseteq closed \cup {open[c]} /\ closed' \subseteq Bucket
      /\ (open[c] \in closed' => open[c] \in Buckets)
  BY <1>2, BucketsAre DEF TypeOK, Buckets
<1>9. \A d \in closed' : ~Active(d, now) /\ d.request_id <= arrived
                          /\ d \in Buckets
  <2>1. ~Active(open[c], at) => ~Active(open[c], now)
    BY <1>1, InactiveStays DEF TypeOK
  <2> QED
    BY <1>1, <1>2, <2>1, BucketsAre DEF SplitInv
<1>10. \A d \in Buckets' :
          d = z \/ (d \in Buckets /\ (d \in closed' \/ d.client_id # c))
  <2>1. \A d : d \in Buckets' <=>
           d \in closed' \/ (\E e \in Clients : d = open'[e] /\ Present(d))
    BY DEF Buckets, OpenBuckets, Present
  <2> QED
    BY <1>5, <1>7, <1>9, <2>1, BucketsAre
<1>11. \A d \in closed' : d.client_id = c => d.request_id < z.request_id
  <2>1. CASE b = open[c] /\ Present(open[c]) /\ closed' = closed
    BY <1>3, <2>1 DEF SplitInv
  <2>2. CASE b = NewBucket(c, n, at)
    <3>1. \A d \in closed' : d.request_id \in Nat
      BY <1>8 DEF Bucket
    <3> QED
      BY <1>1, <1>3, <1>4, <1>9, <2>2, <3>1
  <2> QED
    BY <1>2, <2>1, <2>2
<1>12. z.request_id <= n
  <2>1. CASE b = open[c] /\ Present(open[c])
    <3>1. open[c] \in Buckets /\ open[c].request_id \in Nat
      BY <1>1, <2>1, BucketsAre DEF TypeOK, Bucket
    <3> QED
      BY <1>1, <1>3, <2>1, <3>1 DEF SplitInv
  <2>2. CASE b = NewBucket(c, n, at)
    BY <1>1, <1>3, <1>4, <2>2
  <2> QED
    BY <1>2, <2>1, <2>2
<1>13. \A d \in Buckets : d.request_id \in Nat /\ d \in Bucket
  BY <1>1, BucketsAre DEF TypeOK, Bucket
<1>14. \A d \in Buckets' : d.request_id <= n
  BY <1>1, <1>10, <1>12, <1>13 DEF SplitInv
<1>15. \A d \in closed' : Present(open'[d.client_id]) =>
          d.request_id < open'[d.client_id].request_id
  <2> SUFFICES ASSUME NEW d \in closed', Present(open'[d.client_id])
               PROVE  d.request_id < open'[d.client_id].request_id
    OBVIOUS
  <2>1. CASE d.client_id = c
    BY <1>5, <1>11, <2>1
  <2>2. CASE d.client_id # c
    <3>1. d.client_id \in Clients /\ d \in closed
      BY <1>8, <2>2 DEF Bucket, SplitInv
    <3> QED
      BY <1>5, <2>2, <3>1 DEF SplitInv
  <2> QED
    BY <2>1, <2>2
<1>16. NotSplitEarly'
  <2> SUFFICES ASSUME NEW x \in Buckets', NEW y \in Buckets',
                      x.client_id = y.client_id, x.request_id < y.request_id
               PROVE  ~Active(x, y.started_at + MaxLag)
    BY DEF NotSplitEarly, Active
  <2>1. CASE x # z /\ y # z
    BY <1>10, <2>1 DEF SplitInv, NotSplitEarly
  <2>2. CASE x = z /\ y = z
    <3>1. z.request_id \in Nat
      BY <1>3 DEF Bucket
    <3> QED
      BY <2>2, <3>1
  <2>3. CASE x = z /\ y # z
    <3>1. y \in closed' /\ y.client_id = c
      BY <1>6, <1>10, <2>3
    <3>2. y.request_id < z.request_id
      BY <1>11, <3>1
    <3>3. y.request_id \in Nat /\ z.request_id \in Nat
      BY <1>3, <1>8, <3>1 DEF Bucket
    <3> QED
      BY <2>3, <3>2, <3>3
  <2>4. CASE x # z /\ y = z
    <3>1. x \in closed' /\ x.client_id = c
      BY <1>6, <1>10, <2>4
    <3>2. CASE b = NewBucket(c, n, at)
      <4>1. /\ y.started_at + MaxLag \in Nat /\ now <= y.started_at + MaxLag
            /\ x \in Bucket /\ ~Active(x, now)
        BY <1>1, <1>3, <1>4, <1>8, <1>9, <2>4, <3>1, <3>2, AggregatorAssumption
      <4> QED
        BY <1>1, <4>1, InactiveStays
    <3>3. CASE b = open[c] /\ Present(open[c]) /\ closed' = closed
      <4>1. open[c] \in Buckets /\ x \in Buckets
        BY <1>9, <3>1, <3>3, BucketsAre
      <4>2. open[c].client_id = c /\ x.request_id < open[c].request_id
        BY <3>1, <3>3 DEF SplitInv
      <4> QED
        BY <1>3, <2>4, <3>1, <3>3, <4>1, <4>2 DEF SplitInv, NotSplitEarly
    <3> QED
      BY <1>2, <3>2, <3>3
  <2> QED
    BY <2>1, <2>2, <2>3, <2>4
<1> QED
  BY <1>1, <1>7, <1>9, <1>14, <1>15, <1>16 DEF SplitInv, Active, Present

LEMMA SplitNext == SplitInv /\ [Next]_vars => SplitInv'
<1> SUFFICES ASSUME SplitInv, [Next]_vars PROVE SplitInv'
  OBVIOUS
<1>0. TypeOK /\ TypeOK' /\ now \in Nat
  BY TypeNext DEF SplitInv, TypeOK
<1>1. ASSUME NEW c \in Clients, NEW at \in lastAdd .. now, now - at <= MaxLag,
             Add(c, at)
      PROVE  SplitInv'
  <2>1. at \in 0 .. now
    BY <1>0, <1>1 DEF TypeOK
  <2> QED
    BY <1>0, <1>1, <2>1, SplitAdd
<1>2. ASSUME NEW cs \in SUBSET Clients, \A c \in cs : Present(open[c]),
             Emit(cs), UNCHANGED <<now, arrived>>,
             running' => running /\ \A c \in cs : ~Active(open[c], now)
      PROVE  SplitInv'
  <2>1. /\ closed' = closed \cup {open[c] : c \in cs}
        /\ \A c \in cs : ~Present(open'[c]) /\ open'[c].client_id = c
        /\ \A c \in Clients \ cs : open'[c] = open[c]
        /\ Buckets' = Buckets
    BY <1>0, <1>2, EmitEffect
  <2>2. \A c \in Clients : open'[c].client_id = c
    BY <2>1 DEF SplitInv
  <2>3. \A b \in closed' : Present(open'[b.client_id]) =>
           b.request_id < open'[b.client_id].request_id
    <3> SUFFICES ASSUME NEW b \in closed', Present(open'[b.client_id])
                 PROVE  b.request_id < open'[b.client_id].request_id
      OBVIOUS
    <3>1. b \in Bucket /\ b.client_id \in Clients
      BY <1>0 DEF TypeOK, Bucket
    <3>2. b.client_id \in Clients \ cs
      BY <2>1, <3>1
    <3>3. b \in closed
      BY <2>1, <3>2 DEF SplitInv
    <3> QED
      BY <2>1, <3>2, <3>3 DEF SplitInv
  <2>4. running' => \A b \in closed' : ~Active(b, now)
    BY <1>2, <2>1 DEF SplitInv
  <2>5. NotSplitEarly'
    BY <2>1 DEF SplitInv, NotSplitEarly, Active
  <2> QED
    BY <1>0, <1>2, <2>1, <2>2, <2>3, <2>4, <2>5 DEF SplitInv, Active, Present
<1>3. ASSUME NEW at \in 0 .. now, now - at <= MaxLag, FlushDue(at)
      PROVE  SplitInv'
  <2>1. \A c \in Clients : ~Active(open[c], at) => ~Active(open[c], now)
    BY <1>0, <1>3, InactiveStays DEF TypeOK
  <2> QED
    BY <1>2, <1>3, <2>1 DEF FlushDue
<1>4. CASE FlushAll
  BY <1>2, <1>4 DEF FlushAll
<1>5. CASE Tick
  <2>1. /\ now' = now + 1 /\ now' \in Nat
        /\ UNCHANGED <<open, closed, arrived, running>>
    BY <1>0, <1>5 DEF Tick
  <2>2. \A b \in closed : ~Active(b, now) => ~Active(b, now + 1)
    BY <1>0, <2>1, InactiveStays DEF TypeOK
  <2>3. running' => \A b \in closed' : ~Active(b, now')
    BY <2>1, <2>2 DEF SplitInv
  <2>4. Buckets' = Buckets
    BY <2>1 DEF Buckets, OpenBuckets, Present
  <2>5. NotSplitEarly'
    BY <2>4 DEF SplitInv, NotSplitEarly, Active
  <2> QED
    BY <1>0, <2>1, <2>3, <2>4, <2>5 DEF SplitInv, Active, Present
<1>6. CASE UNCHANGED vars
  BY <1>0, <1>6 DEF vars, SplitInv, NotSplitEarly, Active, Present, Buckets,
                    OpenBuckets
<1> QED
  BY <1>1, <1>3, <1>4, <1>5, <1>6 DEF Next

\* FR-AGG-01: a client's request is never split earlier than the lag of the
\* times in use explains, for any clients and windows and any such lag; with
\* current times (MaxLag = 0) it is never split early at all.
THEOREM NotSplitEarlyAlways == Spec => []NotSplitEarly
<1>1. SplitInv => NotSplitEarly
  BY DEF SplitInv
<1> QED
  BY <1>1, SplitInit, SplitNext, PTL DEF Spec

-----------------------------------------------------------------------------
(* Every message is in one bucket. It goes by the set of all buckets, which *)
(* only add changes: a step that closes buckets leaves it as it is.         *)

\* The buckets of S hold the messages 1 .. n, each once and in its place.
HeldOnce(S, n) ==
    /\ \A b, d \in S : \A i \in DOMAIN b.messages : \A j \in DOMAIN d.messages :
          b.messages[i].id = d.messages[j].id => b = d /\ i = j
    /\ \A b \in S : \A i \in DOMAIN b.messages :
          b.messages[i].id \in 1 .. n /\ b.messages[i].order = i - 1
    /\ \A k \in 1 .. n : \E b \in S : \E i \in DOMAIN b.messages :
          b.messages[i].id = k

\* A bucket b of S, or a new one, gets the next message.
LEMMA HeldAdd ==
    ASSUME NEW S \in SUBSET Bucket, NEW n \in Nat, NEW at \in Nat,
           NEW b \in Bucket, HeldOnce(S, n), NEW T,
           \/ b \in S /\ T = S \ {b}
           \/ b.messages = << >> /\ T = S
    PROVE  HeldOnce(T \cup {WithMessage(b, n + 1, at)}, n + 1)
<1> DEFINE z == WithMessage(b, n + 1, at)
           m == [id |-> n + 1, order |-> Len(b.messages), at |-> at]
<1>1. z.messages = Append(b.messages, m)
  BY WithMessageFields
<1>2. /\ b.messages \in Seq(Message) /\ m \in Message
      /\ m.id = n + 1 /\ m.order = Len(b.messages)
  BY DEF Bucket, Message
<1> HIDE DEF m
<1>3. /\ DOMAIN b.messages = 1 .. Len(b.messages) /\ Len(b.messages) \in Nat
      /\ DOMAIN z.messages = 1 .. Len(b.messages) + 1
      /\ z.messages[Len(b.messages) + 1] = m
      /\ \A i \in 1 .. Len(b.messages) : z.messages[i] = b.messages[i]
  <2> HIDE DEF z
  <2> QED
    BY <1>1, <1>2
<1> HIDE DEF z
<1>4. \A i \in DOMAIN z.messages :
         \/ i = Len(b.messages) + 1 /\ z.messages[i] = m
         \/ /\ i \in DOMAIN b.messages /\ z.messages[i] = b.messages[i]
            /\ b \in S /\ T = S \ {b}
  BY <1>2, <1>3
<1>5. \A d \in T : d \in S /\ \A i \in DOMAIN d.messages :
         d.messages[i].id \in 1 .. n /\ d.messages[i].order = i - 1
  BY DEF HeldOnce
<1>6. \A i \in DOMAIN z.messages :
         z.messages[i].id \in 1 .. n + 1 /\ z.messages[i].order = i - 1
  <2> SUFFICES ASSUME NEW i \in DOMAIN z.messages
               PROVE  /\ z.messages[i].id \in 1 .. n + 1
                      /\ z.messages[i].order = i - 1
    OBVIOUS
  <2>1. CASE i = Len(b.messages) + 1 /\ z.messages[i] = m
    BY <1>2, <1>3, <2>1
  <2>2. CASE /\ i \in DOMAIN b.messages /\ z.messages[i] = b.messages[i]
             /\ b \in S
    <3>1. b.messages[i].id \in 1 .. n /\ b.messages[i].order = i - 1
      BY <2>2 DEF HeldOnce
    <3> QED
      BY <2>2, <3>1
  <2> QED
    BY <1>4, <2>1, <2>2
<1>7. \A i, j \in DOMAIN z.messages :
         z.messages[i].id = z.messages[j].id => i = j
  <2> SUFFICES ASSUME NEW i \in DOMAIN z.messages, NEW j \in DOMAIN z.messages,
                      z.messages[i].id = z.messages[j].id
               PROVE  i = j
    OBVIOUS
  <2> DEFINE Old(k) == /\ k \in DOMAIN b.messages
                       /\ z.messages[k] = b.messages[k] /\ b \in S
             New(k) == k = Len(b.messages) + 1 /\ z.messages[k].id = n + 1
  <2>1. /\ Old(i) \/ New(i)
        /\ Old(j) \/ New(j)
    BY <1>2, <1>4
  <2>2. ASSUME NEW k, Old(k) PROVE z.messages[k].id \in 1 .. n
    BY <2>2 DEF HeldOnce
  <2>3. CASE Old(i) /\ Old(j)
    BY <2>3 DEF HeldOnce
  <2>4. CASE New(i) /\ New(j)
    BY <2>4
  <2>5. CASE \/ Old(i) /\ New(j)
             \/ New(i) /\ Old(j)
    <3>1. z.messages[i].id = n + 1 /\ z.messages[i].id \in 1 .. n
      BY <2>2, <2>5
    <3> QED
      BY <3>1
  <2> QED
    BY <2>1, <2>3, <2>4, <2>5
<1>8. \A d \in T : \A j \in DOMAIN d.messages : \A i \in DOMAIN z.messages :
         d.messages[j].id # z.messages[i].id
  <2> SUFFICES ASSUME NEW d \in T, NEW j \in DOMAIN d.messages,
                      NEW i \in DOMAIN z.messages
               PROVE  d.messages[j].id # z.messages[i].id
    OBVIOUS
  <2>1. CASE i = Len(b.messages) + 1 /\ z.messages[i] = m
    BY <1>2, <1>5, <2>1
  <2>2. CASE /\ i \in DOMAIN b.messages /\ z.messages[i] = b.messages[i]
             /\ b \in S /\ T = S \ {b}
    BY <2>2 DEF HeldOnce
  <2> QED
    BY <1>4, <2>1, <2>2
<1>9. ASSUME NEW k \in 1 .. n + 1
      PROVE  \E d \in T \cup {z} : \E i \in DOMAIN d.messages :
                d.messages[i].id = k
  <2>1. CASE k = n + 1
    BY <1>2, <1>3, <2>1
  <2>2. CASE k \in 1 .. n
    <3>1. PICK d \in S : \E i \in DOMAIN d.messages : d.messages[i].id = k
      BY <2>2 DEF HeldOnce
    <3>2. CASE d \in T
      BY <3>1, <3>2
    <3>3. CASE d \notin T
      <4>1. d = b
        BY <3>3
      <4>2. PICK i \in DOMAIN b.messages : b.messages[i].id = k
        BY <3>1, <4>1
      <4>3. i \in DOMAIN z.messages /\ z.messages[i].id = k
        BY <1>3, <4>2
      <4> QED
        BY <4>3
    <3> QED
      BY <3>2, <3>3
  <2> QED
    BY <2>1, <2>2
<1>10. \A d, e \in T \cup {z} :
          \A i \in DOMAIN d.messages : \A j \in DOMAIN e.messages :
             d.messages[i].id = e.messages[j].id => d = e /\ i = j
  <2>1. \A d, e \in T :
           \A i \in DOMAIN d.messages : \A j \in DOMAIN e.messages :
              d.messages[i].id = e.messages[j].id => d = e /\ i = j
    BY <1>5 DEF HeldOnce
  <2> QED
    BY <1>7, <1>8, <2>1
<1>11. HeldOnce(T \cup {z}, n + 1)
  BY <1>5, <1>6, <1>9, <1>10 DEF HeldOnce
<1> QED
  BY <1>11 DEF z

OnceInv == SplitInv /\ HeldOnce(Buckets, arrived)

\* add replaces the bucket it joins, or adds one.
LEMMA AddBuckets ==
    ASSUME SplitInv, NEW c \in Clients, NEW at \in Nat, Add(c, at)
    PROVE  \E b \in Bucket, T \in SUBSET Buckets :
              /\ Buckets' = T \cup {WithMessage(b, arrived + 1, at)}
              /\ \/ b \in Buckets /\ T = Buckets \ {b}
                 \/ b.messages = << >> /\ T = Buckets
<1>0. TypeOK /\ arrived + 1 \in Nat
  BY DEF SplitInv, TypeOK
<1>1. PICK b \in Bucket :
         /\ open' = [open EXCEPT ![c] = WithMessage(b, arrived + 1, at)]
         /\ \/ /\ Present(open[c]) /\ Active(open[c], at)
               /\ b = open[c] /\ closed' = closed
            \/ /\ b = NewBucket(c, arrived + 1, at)
               /\ \/ /\ Present(open[c]) /\ ~Active(open[c], at)
                     /\ closed' = closed \cup {open[c]}
                  \/ ~Present(open[c]) /\ closed' = closed
  BY <1>0, AddEffect
<1> DEFINE z == WithMessage(b, arrived + 1, at)
<1>2. z.messages # << >>
  <2> DEFINE m == [id |-> arrived + 1, order |-> Len(b.messages), at |-> at]
  <2>1. z.messages = Append(b.messages, m)
    BY <1>0, WithMessageFields
  <2>2. b.messages \in Seq(Message) /\ m \in Message
    BY <1>0 DEF Bucket, Message
  <2> HIDE DEF m, z
  <2> QED
    BY <2>1, <2>2
<1> HIDE DEF z
<1>3. open'[c] = z /\ \A e \in Clients \ {c} : open'[e] = open[e]
  BY <1>0, <1>1 DEF TypeOK, z
<1>4. \A x : x \in Buckets' <=>
         \/ x \in closed' \/ x = z
         \/ \E e \in Clients \ {c} : x = open[e] /\ Present(x)
  <2>1. \A x : x \in Buckets' <=>
           x \in closed' \/ (\E e \in Clients : x = open'[e] /\ Present(x))
    BY DEF Buckets, OpenBuckets, Present
  <2> QED
    BY <1>2, <1>3, <2>1 DEF Present
<1>5. CASE Present(open[c]) /\ b = open[c] /\ closed' = closed
  <2>1. open[c] \notin closed
    <3>1. open[c].request_id \in Nat /\ open[c].client_id = c
      BY <1>0 DEF TypeOK, Bucket, SplitInv
    <3> QED
      BY <1>5, <3>1 DEF SplitInv
  <2>2. \A e \in Clients \ {c} : open[e] # open[c]
    BY DEF SplitInv
  <2>3. b \in Buckets /\ Buckets' = (Buckets \ {b}) \cup {z}
    BY <1>4, <1>5, <2>1, <2>2, BucketsAre
  <2> QED
    BY <2>3 DEF z
<1>6. CASE /\ b = NewBucket(c, arrived + 1, at)
           /\ \/ Present(open[c]) /\ closed' = closed \cup {open[c]}
              \/ ~Present(open[c]) /\ closed' = closed
  <2>1. b.messages = << >>
    BY <1>6 DEF NewBucket
  <2>2. Buckets' = Buckets \cup {z}
    BY <1>4, <1>6, BucketsAre
  <2> QED
    BY <2>1, <2>2 DEF z
<1> QED
  BY <1>1, <1>5, <1>6

LEMMA OnceNext == OnceInv /\ [Next]_vars => OnceInv'
<1> SUFFICES ASSUME OnceInv, [Next]_vars PROVE OnceInv'
  OBVIOUS
<1>0. TypeOK /\ SplitInv' /\ arrived \in Nat /\ Buckets \subseteq Bucket
  BY SplitNext, BucketsAre DEF OnceInv, SplitInv, TypeOK
<1>1. ASSUME NEW c \in Clients, NEW at \in lastAdd .. now, Add(c, at)
      PROVE  OnceInv'
  <2>0. at \in Nat /\ arrived' = arrived + 1
    BY <1>0, <1>1 DEF TypeOK, Add
  <2>1. PICK b \in Bucket, T \in SUBSET Buckets :
           /\ Buckets' = T \cup {WithMessage(b, arrived + 1, at)}
           /\ \/ b \in Buckets /\ T = Buckets \ {b}
              \/ b.messages = << >> /\ T = Buckets
    BY <1>1, <2>0, AddBuckets DEF OnceInv
  <2>2. HeldOnce(T \cup {WithMessage(b, arrived + 1, at)}, arrived + 1)
    BY <1>0, <2>0, <2>1, HeldAdd DEF OnceInv
  <2>3. HeldOnce(Buckets', arrived')
    BY <2>0, <2>1, <2>2
  <2> QED
    BY <1>0, <2>3 DEF OnceInv, HeldOnce
<1>2. ASSUME NEW cs \in SUBSET Clients, \A c \in cs : Present(open[c]),
             Emit(cs), UNCHANGED arrived
      PROVE  OnceInv'
  <2>1. Buckets' = Buckets
    BY <1>0, <1>2, EmitEffect
  <2> QED
    BY <1>0, <1>2, <2>1 DEF OnceInv, HeldOnce
<1>3. ASSUME NEW at \in 0 .. now, FlushDue(at) PROVE OnceInv'
  BY <1>2, <1>3 DEF FlushDue
<1>4. CASE FlushAll
  BY <1>2, <1>4 DEF FlushAll
<1>5. CASE Tick \/ UNCHANGED vars
  <2>1. UNCHANGED <<open, closed, arrived>>
    BY <1>5 DEF Tick, vars
  <2>2. Buckets' = Buckets
    BY <2>1 DEF Buckets, OpenBuckets, Present
  <2> QED
    BY <1>0, <2>1, <2>2 DEF OnceInv, HeldOnce
<1> QED
  BY <1>1, <1>3, <1>4, <1>5 DEF Next

\* FR-AGG-01 and FR-AGG-02: no message is lost between add and a closed bucket,
\* none is there twice, and its order is its place, for any clients, windows
\* and lag.
THEOREM EveryMessageOnceAlways == Spec => []EveryMessageOnce
<1>1. Init => OnceInv
  <2> SUFFICES ASSUME Init PROVE OnceInv
    OBVIOUS
  <2>1. SplitInv /\ arrived = 0
    BY SplitInit DEF Init
  <2>2. Buckets = {}
    <3>1. \A c \in Clients : NoBucket(c).messages = << >>
      BY DEF NoBucket, NewBucket
    <3> QED
      BY <3>1 DEF Init, Buckets, OpenBuckets, Present
  <2> QED
    BY <2>1, <2>2 DEF OnceInv, HeldOnce
<1>2. OnceInv => EveryMessageOnce
  <2> SUFFICES ASSUME OnceInv, NEW n \in 1 .. arrived
               PROVE  \E b \in Buckets : \E i \in DOMAIN b.messages :
                        /\ b.messages[i].id = n
                        /\ b.messages[i].order = i - 1
                        /\ \A d \in Buckets : \A j \in DOMAIN d.messages :
                              d.messages[j].id = n => d = b /\ j = i
    BY DEF EveryMessageOnce
  <2>1. \E b \in Buckets : \E i \in DOMAIN b.messages : b.messages[i].id = n
    BY DEF OnceInv, HeldOnce
  <2> QED
    BY <2>1 DEF OnceInv, HeldOnce
<1> QED
  BY <1>1, <1>2, OnceNext, PTL DEF Spec

=============================================================================
