-------------------------- MODULE ConnectionsProofs --------------------------
(***************************************************************************)
(* Proofs about event loops, connections and workers, for every number of  *)
(* loops, connections, workers and requests and every set of instances.    *)
(***************************************************************************)
EXTENDS Connections, FiniteSetTheorems, SequenceTheorems, TLAPS

-----------------------------------------------------------------------------
(* Functors and the queues of a loop.                                      *)

Plain == {"established", "forceClose", "remove", "release", "destroyed"}
Functors == (Plain \X Conns) \cup ({"send"} \X Conns \X Nat)

LEMMA FunctorFields ==
    \A f \in Functors : f[1] \in Plain \cup {"send"} /\ f[2] \in Conns /\ (f[1] = "send" => f[3] \in Nat)
BY DEF Functors, Plain

LEMMA PlainFunctor ==
    ASSUME NEW k \in Plain, NEW c \in Conns
    PROVE  <<k, c>> \in Functors /\ <<k, c>>[1] = k /\ <<k, c>>[2] = c
BY DEF Functors

LEMMA SendFunctor ==
    ASSUME NEW c \in Conns, NEW m \in Nat
    PROVE  <<"send", c, m>> \in Functors /\ <<"send", c, m>>[1] = "send" /\ <<"send", c, m>>[2] = c
BY DEF Functors

In(f, q) == \E i \in 1 .. Len(q) : q[i] = f

(* A connection is established once and taken from the map once.           *)
Once == {"established", "remove"}
Distinct(q) == \A i, j \in 1 .. Len(q) : i # j /\ q[i][1] \in Once => q[i] # q[j]

LEMMA AppendIn ==
    ASSUME NEW q \in Seq(Functors), NEW f \in Functors, NEW g
    PROVE  In(g, Append(q, f)) <=> In(g, q) \/ g = f
<1>1. /\ Len(Append(q, f)) = Len(q) + 1 /\ Append(q, f)[Len(q) + 1] = f /\ Len(q) \in Nat
      /\ \A i \in 1 .. Len(q) : Append(q, f)[i] = q[i]
  OBVIOUS
<1>2. QED
  BY <1>1 DEF In

LEMMA AppendDistinct ==
    ASSUME NEW q \in Seq(Functors), NEW f \in Functors, Distinct(q), f[1] \in Once => ~In(f, q)
    PROVE  Distinct(Append(q, f))
<1> DEFINE p == Append(q, f)
<1>1. /\ Len(p) = Len(q) + 1 /\ p[Len(q) + 1] = f /\ Len(q) \in Nat
      /\ \A i \in 1 .. Len(q) : p[i] = q[i]
  OBVIOUS
<1> HIDE DEF p
<1>2. SUFFICES ASSUME NEW i \in 1 .. Len(p), NEW j \in 1 .. Len(p), i # j, p[i][1] \in Once, p[i] = p[j]
               PROVE  FALSE
  BY DEF Distinct, p
<1>3. CASE i \in 1 .. Len(q) /\ j \in 1 .. Len(q)
  BY <1>1, <1>2, <1>3 DEF Distinct
<1>4. CASE i \in 1 .. Len(q) /\ j = Len(q) + 1
  BY <1>1, <1>2, <1>4 DEF In
<1>5. CASE i = Len(q) + 1 /\ j \in 1 .. Len(q)
  BY <1>1, <1>2, <1>5 DEF In
<1>6. QED
  BY <1>1, <1>2, <1>3, <1>4, <1>5

LEMMA TailIn ==
    ASSUME NEW q \in Seq(Functors), q # <<>>
    PROVE  /\ Tail(q) \in Seq(Functors) /\ Head(q) \in Functors /\ In(Head(q), q)
           /\ \A g : In(g, Tail(q)) => In(g, q)
           /\ Distinct(q) => Distinct(Tail(q))
           /\ Distinct(q) /\ Head(q)[1] \in Once => ~In(Head(q), Tail(q))
<1> DEFINE p == Tail(q)
<1>1. /\ p \in Seq(Functors) /\ Len(q) \in Nat /\ Len(q) >= 1 /\ Len(p) = Len(q) - 1
      /\ \A i \in 1 .. Len(p) : p[i] = q[i + 1]
      /\ Head(q) = q[1] /\ Head(q) \in Functors
  OBVIOUS
<1> HIDE DEF p
<1>2. /\ 1 \in 1 .. Len(q)
      /\ \A i \in 1 .. Len(p) : i + 1 \in 1 .. Len(q) /\ i + 1 # 1
      /\ \A i, j \in 1 .. Len(p) : i # j => i + 1 # j + 1
  BY <1>1
<1>3. In(Head(q), q)
  BY <1>1, <1>2 DEF In
<1>4. \A g : In(g, p) => In(g, q)
  BY <1>1, <1>2 DEF In
<1>5. Distinct(q) => Distinct(p)
  BY <1>1, <1>2 DEF Distinct
<1>6. Distinct(q) /\ Head(q)[1] \in Once => ~In(Head(q), p)
  BY <1>1, <1>2 DEF In, Distinct
<1>7. QED
  BY <1>1, <1>3, <1>4, <1>5, <1>6 DEF p

(* What a loop has still to run, in order.                                 *)
Queue(l) == batch[l] \o pending[l]

LEMMA ConcatAppend ==
    ASSUME NEW a \in Seq(Functors), NEW b \in Seq(Functors), NEW f \in Functors
    PROVE  a \o Append(b, f) = Append(a \o b, f)
OBVIOUS

LEMMA ConcatTail ==
    ASSUME NEW a \in Seq(Functors), NEW b \in Seq(Functors), a # <<>>
    PROVE  Tail(a) \o b = Tail(a \o b) /\ Head(a \o b) = Head(a) /\ a \o b # <<>>
OBVIOUS

LEMMA ConcatEmpty ==
    ASSUME NEW b \in Seq(Functors)
    PROVE  <<>> \o b = b /\ b \o <<>> = b
OBVIOUS

-----------------------------------------------------------------------------
(* Type correctness.                                                       *)

Channels == (Conns \X {"in", "out"}) \cup {Wakeup, Accept}
Tasks == Conns \X Nat
Chunks == Seq(Nat \X Nat)

ConnType ==
    [state : States, home : Loops \cup {NoLoop}, peer : {"away", "open", "closed", "reset", "gone"},
     events : SUBSET {"in", "out"}, registered : BOOLEAN, listed : BOOLEAN, counted : BOOLEAN,
     inbox : Nat, lines : Nat, sent : Nat, asked : Nat, took : Seq(Nat), out : Chunks, got : Chunks]

LoopTypes ==
    /\ at \in [Loops -> {"start", "poll", "events", "functors", "out"}]
    /\ active \in [Loops -> SUBSET Channels]
    /\ pending \in [Loops -> Seq(Functors)] /\ batch \in [Loops -> Seq(Functors)]
    /\ eventfd \in [Loops -> BOOLEAN] /\ quit \in [Loops -> BOOLEAN]
    /\ waking \in [Workers -> Loops \cup {NoLoop}]
    /\ \A l \in Loops :
          /\ at[l] # "events" => active[l] = {}
          /\ at[l] # "functors" => batch[l] = <<>>

PoolTypes ==
    /\ tasks \in Seq(Tasks) /\ Len(tasks) <= Capacity
    /\ hand \in [Workers -> Tasks \cup {NoTask}] /\ poolStop \in BOOLEAN

ServerTypes ==
    /\ conn \in [Conns -> ConnType] /\ plan \in NetSeeds
    /\ nextIo \in Nat \ {0} /\ (io # <<>> => nextIo <= Len(io))
    /\ reading \in [Loops -> Conns \cup {NoConn}]
    /\ connCount \in Nat

Housed == \A c \in Conns : conn[c].state # "none" => conn[c].home \in Loops

LEMMA PlanTypes ==
    ASSUME plan \in NetSeeds
    PROVE  /\ io \in Seq(Loops) /\ plan.workers \subseteq Workers /\ plan.clients \subseteq Conns
           /\ plan.requests \in Nat /\ RunningLoops \subseteq Loops /\ Base \in Loops
<1>1. io \in Seq(Loops) /\ Base \in Loops
  BY NetSeedsAssumption, ConnectionsAssumption DEF io
<1>2. \A i \in 1 .. Len(io) : io[i] \in Loops
  BY <1>1
<1>3. RunningLoops \subseteq Loops
  BY <1>1, <1>2 DEF RunningLoops, IoLoops
<1>4. QED
  BY <1>1, <1>3, NetSeedsAssumption

LEMMA QueueInLoopTypes ==
    ASSUME LoopTypes, NEW l \in Loops, NEW f \in Functors, NEW own, QueueInLoop(l, f, own)
    PROVE  pending' \in [Loops -> Seq(Functors)] /\ eventfd' \in [Loops -> BOOLEAN]
<1>1. Append(pending[l], f) \in Seq(Functors)
  BY DEF LoopTypes
<1>2. QED
  BY <1>1 DEF QueueInLoop, LoopTypes

\* The loops' own moves.
LEMMA LoopMoveTypes ==
    ASSUME LoopTypes, NEW l \in Loops,
           \/ StartLooping(l) \/ PollTimeout(l) \/ HandleWakeup(l) \/ TakeFunctors(l)
           \/ FinishIteration(l) \/ Quit(l)
    PROVE  LoopTypes'
<1>1. CASE StartLooping(l)
  BY <1>1 DEF StartLooping, LoopTypes
<1>2. CASE PollTimeout(l)
  BY <1>2 DEF PollTimeout, LoopTypes
<1>3. CASE HandleWakeup(l)
  BY <1>3 DEF HandleWakeup, LoopTypes
<1>4. CASE TakeFunctors(l)
  BY <1>4 DEF TakeFunctors, LoopTypes
<1>5. CASE FinishIteration(l)
  BY <1>5 DEF FinishIteration, LoopTypes
<1>6. CASE Quit(l)
  BY <1>6 DEF Quit, LoopTypes
<1>7. QED
  BY <1>1, <1>2, <1>3, <1>4, <1>5, <1>6

LEMMA HandlingTypes ==
    ASSUME LoopTypes, NEW l \in Loops, NEW channel, Handling(l, channel) \/ Running(l),
           pending' \in [Loops -> Seq(Functors)], eventfd' \in [Loops -> BOOLEAN]
    PROVE  LoopTypes'
<1>1. CASE Handling(l, channel)
  BY <1>1 DEF Handling, LoopTypes
<1>2. CASE Running(l)
  <2>1. Tail(batch[l]) \in Seq(Functors)
    BY <1>2, TailIn DEF Running, LoopTypes
  <2>2. QED
    BY <1>2, <2>1 DEF Running, LoopTypes
<1>3. QED
  BY <1>1, <1>2

LEMMA PollTypes ==
    ASSUME LoopTypes, NEW l \in Loops, PollChannels(l)
    PROVE  LoopTypes'
<1>1. PICK w \in SUBSET Writable(l) : Poll(l, Readable(l) \cup w \cup Acceptable(l))
  BY DEF PollChannels
<1>2. Readable(l) \cup w \cup Acceptable(l) \cup (IF eventfd[l] THEN {Wakeup} ELSE {}) \subseteq Channels
  BY DEF Readable, Writable, Acceptable, Channels
<1>3. QED
  BY <1>1, <1>2 DEF Poll, LoopTypes

-----------------------------------------------------------------------------
(* What the parts of a step do to a connection.                            *)

(* Nothing that concerns its life changes.                                 *)
SameLife(k, j) ==
    /\ j.state = k.state /\ j.home = k.home /\ j.registered = k.registered
    /\ j.listed = k.listed /\ j.counted = k.counted

LEMMA PiecesTypes ==
    ASSUME NEW m \in Nat, NEW n \in 0 .. 2
    PROVE  SubSeq(Pieces(m), 1, n) \in Chunks /\ SubSeq(Pieces(m), n + 1, 2) \in Chunks
<1>1. /\ \A i \in 1 .. n : Pieces(m)[i] \in Nat \X Nat
      /\ \A i \in n + 1 .. 2 : Pieces(m)[i] \in Nat \X Nat
  BY DEF Pieces
<1>2. n \in Int /\ n + 1 \in Int
  OBVIOUS
<1>3. SubSeq(Pieces(m), 1, n) \in Seq(Nat \X Nat) /\ SubSeq(Pieces(m), n + 1, 2) \in Seq(Nat \X Nat)
  BY <1>1, <1>2, SubSeqProperties
<1>4. QED
  BY <1>3 DEF Chunks

LEMMA WroteTypes ==
    ASSUME NEW k \in ConnType, NEW m \in Nat, NEW n \in 0 .. 2
    PROVE  Wrote(k, m, n) \in ConnType /\ SameLife(k, Wrote(k, m, n))
           /\ Wrote(k, m, n).inbox = k.inbox /\ Wrote(k, m, n).lines = k.lines
           /\ Wrote(k, m, n).sent = k.sent /\ Wrote(k, m, n).asked = k.asked
<1> DEFINE first == SubSeq(Pieces(m), 1, n)
           rest == SubSeq(Pieces(m), n + 1, 2)
<1>1. first \in Chunks /\ rest \in Chunks
  BY PiecesTypes
<1> HIDE DEF first, rest
<1>2. /\ k.got \o first \in Chunks /\ k.out \o rest \in Chunks /\ Append(k.took, m) \in Seq(Nat)
      /\ (IF rest = <<>> THEN k.events ELSE k.events \cup {"out"}) \in SUBSET {"in", "out"}
  BY <1>1 DEF Chunks, ConnType
<1>3. Wrote(k, m, n) = [k EXCEPT !.got = @ \o first, !.out = @ \o rest, !.took = Append(@, m),
                                 !.events = IF rest = <<>> THEN @ ELSE @ \cup {"out"}]
  BY DEF Wrote, first, rest
<1>4. QED
  BY <1>2, <1>3 DEF ConnType, SameLife

(* And none of its requests is parsed or sent.                             *)
SameRequests(k, j) == j.inbox = k.inbox /\ j.lines = k.lines /\ j.sent = k.sent /\ j.asked = k.asked

LEMMA SendTypes ==
    ASSUME NEW k \in ConnType, NEW m \in Nat, NEW j \in SendInLoop(k, m) \cup Send(k, m)
    PROVE  j \in ConnType /\ SameLife(k, j) /\ SameRequests(k, j)
<1>1. j = k \/ \E n \in 0 .. 2 : j = Wrote(k, m, n)
  <2>1. j = k \/ j \in SendInLoop(k, m)
    BY DEF Send
  <2> DEFINE direct == "out" \notin k.events /\ k.out = <<>>
             ns == IF direct THEN 0 .. 2 ELSE {0}
  <2>2. j \in SendInLoop(k, m) => j = k \/ j \in {Wrote(k, m, n) : n \in ns}
    BY DEF SendInLoop
  <2>3. ns \subseteq 0 .. 2
    OBVIOUS
  <2> HIDE DEF ns
  <2>4. QED
    BY <2>1, <2>2, <2>3
<1>2. CASE j = k
  BY <1>2 DEF SameLife, SameRequests
<1>3. CASE \E n \in 0 .. 2 : j = Wrote(k, m, n)
  <2>1. PICK n \in 0 .. 2 : j = Wrote(k, m, n)
    BY <1>3
  <2>2. QED
    BY <2>1, WroteTypes DEF SameRequests
<1>4. QED
  BY <1>1, <1>2, <1>3

LEMMA HandleWriteTypes ==
    ASSUME conn \in [Conns -> ConnType], NEW l, NEW c \in Conns, HandleWrite(l, c)
    PROVE  /\ conn' \in [Conns -> ConnType]
           /\ \A d \in Conns : SameLife(conn[d], conn'[d]) /\ SameRequests(conn[d], conn'[d])
<1> DEFINE k == conn[c]
<1>1. k \in ConnType
  OBVIOUS
<1>2. CASE UNCHANGED conn
  BY <1>2 DEF SameLife, SameRequests
<1>3. CASE ~UNCHANGED conn
  <2>1. PICK n \in 1 .. Len(k.out) :
            conn' = [conn EXCEPT ![c].got = @ \o SubSeq(k.out, 1, n),
                                 ![c].out = SubSeq(k.out, n + 1, Len(k.out)),
                                 ![c].events = IF n = Len(k.out) THEN @ \ {"out"} ELSE @]
    BY <1>3 DEF HandleWrite
  <2>2. k.out \in Seq(Nat \X Nat) /\ Len(k.out) \in Nat
    BY <1>1 DEF ConnType, Chunks
  <2>3. /\ \A i \in 1 .. n : k.out[i] \in Nat \X Nat
        /\ \A i \in n + 1 .. Len(k.out) : k.out[i] \in Nat \X Nat
        /\ n \in Int /\ n + 1 \in Int /\ Len(k.out) \in Int
    <3> HIDE DEF k
    <3>1. /\ n \in Nat /\ n >= 1 /\ n <= Len(k.out)
      BY <2>2
    <3>2. \A i \in 1 .. Len(k.out) : k.out[i] \in Nat \X Nat
      BY ONLY <2>2
    <3>3. QED
      BY ONLY <2>2, <3>1, <3>2
  <2>4. SubSeq(k.out, 1, n) \in Chunks /\ SubSeq(k.out, n + 1, Len(k.out)) \in Chunks
    BY <2>3, SubSeqProperties DEF Chunks
  <2> DEFINE first == SubSeq(k.out, 1, n)
             rest == SubSeq(k.out, n + 1, Len(k.out))
             left == IF n = Len(k.out) THEN k.events \ {"out"} ELSE k.events
             j == [k EXCEPT !.got = k.got \o first, !.out = rest, !.events = left]
  <2>5. conn' = [conn EXCEPT ![c] = j]
    BY <1>1, <2>1 DEF ConnType
  <2>6. k.got \o first \in Chunks /\ left \in SUBSET {"in", "out"}
    BY <1>1, <2>4 DEF Chunks, ConnType
  <2> HIDE DEF first, rest, left
  <2>7. j \in ConnType /\ SameLife(k, j) /\ SameRequests(k, j)
    BY <1>1, <2>4, <2>6 DEF ConnType, SameLife, SameRequests, first, rest
  <2> HIDE DEF j
  <2>8. QED
    BY <2>5, <2>7 DEF SameLife, SameRequests
<1>4. QED
  BY <1>2, <1>3

-----------------------------------------------------------------------------
(* What the parts of a step do to the queues.                              *)

AllDistinct == \A l \in Loops : Distinct(Queue(l))
Fewer == \A l \in Loops : \A g : In(g, Queue(l)') => In(g, Queue(l))
OneMore(t, f) == \A l \in Loops : \A g : In(g, Queue(l)') => In(g, Queue(l)) \/ (l = t /\ g = f)

LEMMA QueueTypes == LoopTypes => \A l \in Loops : Queue(l) \in Seq(Functors)
BY DEF LoopTypes, Queue

LEMMA QueueSame ==
    ASSUME LoopTypes, AllDistinct,
           UNCHANGED <<batch, pending>> \/ \E l \in Loops : TakeFunctors(l)
    PROVE  AllDistinct' /\ Fewer
<1>1. ASSUME UNCHANGED <<batch, pending>> PROVE \A k \in Loops : Queue(k)' = Queue(k)
  BY <1>1 DEF Queue
<1>2. ASSUME NEW l \in Loops, TakeFunctors(l) PROVE \A k \in Loops : Queue(k)' = Queue(k)
  <2>1. SUFFICES ASSUME NEW k \in Loops PROVE Queue(k)' = Queue(k)
    OBVIOUS
  <2>2. CASE k = l
    <3>1. /\ batch[k] = <<>> /\ batch'[k] = pending[k] /\ pending'[k] = <<>>
          /\ pending[k] \in Seq(Functors)
      BY <1>2, <2>2 DEF TakeFunctors, LoopTypes
    <3>2. QED
      BY <3>1, ConcatEmpty DEF Queue
  <2>3. CASE k # l
    BY <1>2, <2>3 DEF TakeFunctors, LoopTypes, Queue
  <2>4. QED
    BY <2>2, <2>3
<1>3. \A k \in Loops : Queue(k)' = Queue(k)
  BY <1>1, <1>2
<1>4. QED
  BY <1>3 DEF AllDistinct, Fewer

LEMMA QueuePut ==
    ASSUME LoopTypes, AllDistinct, NEW t \in Loops, NEW f \in Functors,
           pending' = [pending EXCEPT ![t] = Append(@, f)], batch' = batch,
           f[1] \in Once => ~In(f, Queue(t))
    PROVE  AllDistinct' /\ OneMore(t, f)
<1>1. \A k \in Loops : Queue(k) \in Seq(Functors)
  BY QueueTypes
<1>2. Queue(t)' = Append(Queue(t), f)
  BY ConcatAppend DEF Queue, LoopTypes
<1>3. \A k \in Loops : k # t => Queue(k)' = Queue(k)
  BY DEF Queue, LoopTypes
<1>4. AllDistinct'
  <2>1. Distinct(Append(Queue(t), f))
    BY <1>1, AppendDistinct DEF AllDistinct
  <2>2. QED
    BY <1>2, <1>3, <2>1 DEF AllDistinct
<1>5. OneMore(t, f)
  <2>1. \A g : In(g, Append(Queue(t), f)) => In(g, Queue(t)) \/ g = f
    BY <1>1, AppendIn
  <2>2. QED
    BY <1>2, <1>3, <2>1 DEF OneMore
<1>6. QED
  BY <1>4, <1>5

\* A functor is taken from the head of the batch and run.
LEMMA QueueRun ==
    ASSUME LoopTypes, AllDistinct, NEW l \in Loops, Running(l)
    PROVE  LET h == Head(batch[l])
           IN /\ h \in Functors /\ In(h, Queue(l))
              /\ pending' = pending =>
                    AllDistinct' /\ Fewer /\ (h[1] \in Once => ~In(h, Queue(l)'))
              /\ \A t \in Loops, f \in Functors :
                    /\ pending' = [pending EXCEPT ![t] = Append(@, f)]
                    /\ f[1] \in Once => ~In(f, Queue(t))
                    => /\ AllDistinct' /\ OneMore(t, f)
                       /\ h[1] \in Once /\ h # f => ~In(h, Queue(l)')
<1> DEFINE h == Head(batch[l])
           left(k) == batch'[k] \o pending[k]
<1>1. /\ \A k \in Loops : batch[k] \in Seq(Functors) /\ pending[k] \in Seq(Functors) /\ Queue(k) \in Seq(Functors)
      /\ batch[l] # <<>> /\ batch' = [batch EXCEPT ![l] = Tail(@)]
  BY QueueTypes DEF Running, LoopTypes
<1>2. left(l) = Tail(Queue(l)) /\ Head(Queue(l)) = h /\ Queue(l) # <<>>
  <2>1. batch'[l] = Tail(batch[l])
    BY <1>1 DEF LoopTypes
  <2>2. QED
    BY <1>1, <2>1, ConcatTail DEF Queue
<1>3. \A k \in Loops : k # l => left(k) = Queue(k)
  BY <1>1 DEF Queue, LoopTypes
<1>4. h \in Functors /\ In(h, Queue(l))
  BY <1>1, <1>2, TailIn
<1>5. \A k \in Loops : left(k) \in Seq(Functors) /\ batch'[k] \in Seq(Functors)
  <2>1. Tail(batch[l]) \in Seq(Functors)
    BY <1>1
  <2>2. \A k \in Loops : batch'[k] \in Seq(Functors)
    BY <1>1, <2>1 DEF LoopTypes
  <2>3. QED
    BY <1>1, <2>2
<1> HIDE DEF h, left
<1>6. \A k \in Loops : Distinct(left(k)) /\ \A g : In(g, left(k)) => In(g, Queue(k))
  <2>1. Distinct(left(l)) /\ \A g : In(g, left(l)) => In(g, Queue(l))
    BY <1>1, <1>2, TailIn DEF AllDistinct
  <2>2. QED
    BY <1>3, <2>1 DEF AllDistinct
<1>7. h[1] \in Once => ~In(h, left(l))
  BY <1>1, <1>2, TailIn DEF AllDistinct
<1>8. ASSUME pending' = pending
      PROVE  AllDistinct' /\ Fewer /\ (h[1] \in Once => ~In(h, Queue(l)'))
  <2>1. \A k \in Loops : Queue(k)' = left(k)
    BY <1>8 DEF Queue, left
  <2>2. QED
    BY <1>6, <1>7, <2>1 DEF AllDistinct, Fewer
<1>9. ASSUME NEW t \in Loops, NEW f \in Functors, pending' = [pending EXCEPT ![t] = Append(@, f)],
             f[1] \in Once => ~In(f, Queue(t))
      PROVE  /\ AllDistinct' /\ OneMore(t, f)
             /\ h[1] \in Once /\ h # f => ~In(h, Queue(l)')
  <2>1. Queue(t)' = Append(left(t), f)
    <3>1. pending'[t] = Append(pending[t], f)
      BY <1>9 DEF LoopTypes
    <3>2. QED
      <4>1. batch'[t] \o Append(pending[t], f) = Append(batch'[t] \o pending[t], f)
        BY <1>1, <1>5, ConcatAppend
      <4>2. QED
        BY <3>1, <4>1 DEF Queue, left
  <2>2. \A k \in Loops : k # t => Queue(k)' = left(k)
    BY <1>9 DEF Queue, left, LoopTypes
  <2>3. Distinct(Append(left(t), f))
    BY <1>5, <1>6, <1>9, AppendDistinct
  <2>4. AllDistinct'
    BY <1>6, <2>1, <2>2, <2>3 DEF AllDistinct
  <2>5. OneMore(t, f)
    <3>1. \A g : In(g, Append(left(t), f)) => In(g, left(t)) \/ g = f
      BY <1>5, AppendIn
    <3>2. QED
      <4>1. \A g : In(g, Queue(t)') => In(g, Queue(t)) \/ g = f
        BY <1>6, <2>1, <3>1
      <4>2. \A k \in Loops : \A g : k # t /\ In(g, Queue(k)') => In(g, Queue(k))
        BY <1>6, <2>2
      <4>3. QED
        BY <4>1, <4>2 DEF OneMore
  <2>6. h[1] \in Once /\ h # f => ~In(h, Queue(l)')
    <3>1. \A g : In(g, Append(left(t), f)) => In(g, left(t)) \/ g = f
      BY <1>5, AppendIn
    <3>2. QED
      BY <1>7, <2>1, <2>2, <3>1
  <2>7. QED
    BY <2>4, <2>5, <2>6
<1>10. QED
  BY <1>4, <1>8, <1>9 DEF h

-----------------------------------------------------------------------------
(* The invariant.                                                          *)

Open == {"Connected", "Disconnecting"}
Past == {"Connected", "Disconnecting", "Disconnected"}

(* A connection is in a poller or counted only while it is open, and in the *)
(* map from the moment it is accepted until it is down.                    *)
LifeOK(c) ==
    /\ conn[c].registered \/ conn[c].counted => conn[c].state \in Open
    /\ conn[c].state \in Open \cup {"Connecting"} /\ at[Base] # "out" => conn[c].listed
    /\ conn[c].listed => conn[c].state # "none"
    /\ conn[c].state # "none" => conn[c].home \in Loops

(* What a loop is about to handle belongs to it and is open.               *)
ActiveOK(l, c) == conn[c].home = l /\ conn[c].state \in Open
ReadingOK(l, c) == conn[c].home = l /\ conn[c].state \in Past

(* A queued functor finds its connection in the state it was queued for.   *)
FunctorOK(l, f) ==
    /\ f[1] = "established" => conn[f[2]].home = l /\ conn[f[2]].state = "Connecting"
    /\ f[1] = "forceClose" => conn[f[2]].home = l /\ conn[f[2]].state \in Past
    /\ f[1] = "destroyed" => conn[f[2]].home = l /\ conn[f[2]].state # "none"
    /\ f[1] = "remove" => /\ l = Base /\ conn[f[2]].state = "Disconnected"
                          /\ conn[f[2]].listed \/ at[Base] = "out"

AllLife == \A c \in Conns : LifeOK(c)
AllActive == \A l \in Loops, c \in Conns : <<c, "in">> \in active[l] => ActiveOK(l, c)
AllReading == \A l \in Loops, c \in Conns : reading[l] = c => at[l] = "events" /\ ReadingOK(l, c)
AllFunctors == \A l \in Loops, f \in Functors : In(f, Queue(l)) => FunctorOK(l, f)

CountedConns == {c \in Conns : conn[c].counted}
CountOK == connCount = Cardinality(CountedConns) /\ connCount <= MaxConn

Core ==
    /\ AllLife /\ AllActive /\ AllReading /\ AllFunctors /\ AllDistinct
    /\ CountOK /\ ~aborted

OutStays == at[Base] = "out" => at'[Base] = "out"

\* A step that concerns the life of the connections in X only.
LEMMA CoreFrame ==
    ASSUME Core, AllDistinct', CountOK', ~aborted', OutStays,
           NEW X \in SUBSET Conns,
           \A d \in Conns \ X : SameLife(conn[d], conn'[d]),
           \A c \in X : LifeOK(c)',
           \A l \in Loops, f \in Functors :
               In(f, Queue(l)') => (In(f, Queue(l)) /\ f[2] \notin X) \/ FunctorOK(l, f)',
           \A l \in Loops, c \in Conns :
               <<c, "in">> \in active'[l] => (<<c, "in">> \in active[l] /\ c \notin X) \/ ActiveOK(l, c)',
           \A l \in Loops, c \in Conns :
               reading'[l] = c => at'[l] = "events" /\ ((reading[l] = c /\ c \notin X) \/ ReadingOK(l, c)')
    PROVE  Core'
<1>1. AllLife'
  <2>1. SUFFICES ASSUME NEW c \in Conns PROVE LifeOK(c)'
    BY DEF AllLife
  <2>2. CASE c \in X
    BY <2>2
  <2>3. CASE c \notin X
    BY <2>3 DEF Core, AllLife, LifeOK, SameLife, OutStays
  <2>4. QED
    BY <2>2, <2>3
<1>2. AllActive'
  BY DEF Core, AllActive, ActiveOK, SameLife
<1>3. AllReading'
  BY DEF Core, AllReading, ReadingOK, SameLife
<1>4. AllFunctors'
  <2>1. SUFFICES ASSUME NEW l \in Loops, NEW f \in Functors, In(f, Queue(l)')
                 PROVE  FunctorOK(l, f)'
    BY DEF AllFunctors
  <2>2. CASE In(f, Queue(l)) /\ f[2] \notin X
    <3>1. FunctorOK(l, f) /\ f[2] \in Conns
      BY <2>2, FunctorFields DEF Core, AllFunctors
    <3>2. SameLife(conn[f[2]], conn'[f[2]])
      BY <2>2, <3>1
    <3>3. QED
      BY <3>1, <3>2 DEF FunctorOK, SameLife, OutStays
  <2>3. QED
    BY <2>1, <2>2
<1>5. QED
  BY <1>1, <1>2, <1>3, <1>4 DEF Core

LEMMA CountSame ==
    ASSUME CountOK, connCount' = connCount, \A c \in Conns : conn'[c].counted = conn[c].counted
    PROVE  CountOK'
<1>1. CountedConns' = CountedConns
  BY DEF CountedConns
<1>2. QED
  BY <1>1 DEF CountOK

LEMMA CountUp ==
    ASSUME CountOK, NEW c \in Conns, ~conn[c].counted, conn'[c].counted, connCount < MaxConn,
           connCount' = connCount + 1, \A d \in Conns \ {c} : conn'[d].counted = conn[d].counted
    PROVE  CountOK'
<1>1. CountedConns' = CountedConns \cup {c} /\ c \notin CountedConns
  BY DEF CountedConns
<1>2. IsFiniteSet(CountedConns)
  BY FS_Subset, ConnectionsAssumption DEF CountedConns
<1>3. Cardinality(CountedConns \cup {c}) = Cardinality(CountedConns) + 1 /\ Cardinality(CountedConns) \in Nat
  BY <1>1, <1>2, FS_AddElement, FS_CardinalityType
<1>4. MaxConn \in Nat
  BY ConnectionsAssumption
<1>5. QED
  BY <1>1, <1>3, <1>4 DEF CountOK

LEMMA CountDown ==
    ASSUME CountOK, NEW c \in Conns, Down(conn[c]), ~conn'[c].counted,
           \A d \in Conns \ {c} : conn'[d].counted = conn[d].counted
    PROVE  CountOK'
<1>1. CASE conn[c].counted
  <2>1. CountedConns' = CountedConns \ {c} /\ c \in CountedConns
    BY <1>1 DEF CountedConns
  <2>2. IsFiniteSet(CountedConns)
    BY FS_Subset, ConnectionsAssumption DEF CountedConns
  <2>3. Cardinality(CountedConns \ {c}) = Cardinality(CountedConns) - 1 /\ Cardinality(CountedConns) \in Nat
    BY <2>1, <2>2, FS_RemoveElement, FS_CardinalityType
  <2>4. MaxConn \in Nat /\ connCount' = connCount - 1
    BY <1>1, ConnectionsAssumption DEF Down
  <2>5. QED
    BY <2>1, <2>3, <2>4 DEF CountOK
<1>2. CASE ~conn[c].counted
  <2>1. connCount' = connCount
    BY <1>2 DEF Down
  <2>2. CountedConns' = CountedConns
    BY <1>2 DEF CountedConns
  <2>3. QED
    BY <2>1, <2>2 DEF CountOK
<1>3. QED
  BY <1>1, <1>2

-----------------------------------------------------------------------------
(* Steps that leave the life of every connection alone.                    *)

(* conn' is typed, and the bounds on requests still hold.                  *)
RequestsOK(k) == k.asked + k.lines + k.inbox <= k.sent /\ k.sent <= plan.requests
AllRequests == \A c \in Conns : RequestsOK(conn[c])
Unharmed == \A d \in Conns : SameLife(conn[d], conn'[d])

keptVars == <<conn, plan, nextIo, reading, connCount, aborted>>

NetTypes == LoopTypes /\ PoolTypes /\ ServerTypes /\ AllRequests

LEMMA CoreTraffic ==
    ASSUME Core, LoopTypes, AllDistinct', OutStays, Unharmed, UNCHANGED <<connCount, aborted>>,
           Fewer \/ \E t \in Loops, f \in Functors : f[1] \in {"send", "release"} /\ OneMore(t, f),
           \A l \in Loops, c \in Conns :
               <<c, "in">> \in active'[l] => <<c, "in">> \in active[l] \/ ActiveOK(l, c)',
           \A l \in Loops, c \in Conns :
               reading'[l] = c => at'[l] = "events" /\ (reading[l] = c \/ ReadingOK(l, c)')
    PROVE  Core'
<1> DEFINE X == {}
<1>1. CountOK'
  BY CountSame DEF Unharmed, SameLife, Core
<1>2. \A l \in Loops, f \in Functors :
          In(f, Queue(l)') => (In(f, Queue(l)) /\ f[2] \notin X) \/ FunctorOK(l, f)'
  <2>1. ASSUME NEW t \in Loops, NEW g \in Functors, g[1] \in {"send", "release"}
        PROVE  FunctorOK(t, g)'
    BY <2>1 DEF FunctorOK
  <2>2. QED
    BY <2>1 DEF Fewer, OneMore
<1>3. X \in SUBSET Conns /\ ~aborted'
  BY DEF Core
<1>4. QED
  BY <1>1, <1>2, <1>3, CoreFrame DEF Unharmed

\* The loops' own moves.
LEMMA LoopMoveCore ==
    ASSUME Core, LoopTypes, ServerTypes, NEW l \in Loops, UNCHANGED keptVars,
           \/ StartLooping(l) \/ PollTimeout(l) \/ (HandleWakeup(l) /\ reading[l] = NoConn)
           \/ (TakeFunctors(l) /\ reading[l] = NoConn) \/ FinishIteration(l) \/ Quit(l)
    PROVE  Core'
<1>1. Unharmed /\ UNCHANGED <<conn, connCount, aborted, reading>>
  BY DEF Unharmed, SameLife, keptVars
<1>2. AllDistinct' /\ Fewer
  <2>1. UNCHANGED <<batch, pending>> \/ TakeFunctors(l)
    BY DEF StartLooping, PollTimeout, HandleWakeup, FinishIteration, Quit
  <2>2. QED
    BY <2>1, QueueSame DEF Core
<1>3. /\ \A k \in Loops : at'[k] = at[k] \/ (k = l /\ at[l] # "out" /\ (at[l] = "events" => reading[l] = NoConn \/ at'[l] = "events"))
      /\ \A k \in Loops : active'[k] \subseteq active[k]
  BY DEF LoopTypes, StartLooping, PollTimeout, HandleWakeup, TakeFunctors, FinishIteration, Quit
<1>4. OutStays
  BY <1>3, ConnectionsAssumption DEF OutStays
<1>5. \A k \in Loops, c \in Conns : reading'[k] = c => at'[k] = "events" /\ reading[k] = c
  <2>1. SUFFICES ASSUME NEW k \in Loops, NEW c \in Conns, reading[k] = c PROVE at'[k] = "events"
    BY <1>1
  <2>2. at[k] = "events" /\ reading[k] # NoConn
    BY <2>1, ConnectionsAssumption DEF Core, AllReading
  <2>3. QED
    BY <1>3, <2>2
<1>6. QED
  BY <1>1, <1>2, <1>3, <1>4, <1>5, CoreTraffic

NetCore == NetTypes /\ Core

LEMMA TypesOfConns ==
    ASSUME NetTypes, conn' \in [Conns -> ConnType], UNCHANGED plan,
           \A d \in Conns : SameRequests(conn[d], conn'[d]),
           LoopTypes', PoolTypes', connCount' \in Nat,
           nextIo' \in Nat \ {0}, io # <<>> => nextIo' <= Len(io),
           reading' \in [Loops -> Conns \cup {NoConn}]
    PROVE  NetTypes'
BY DEF NetTypes, ServerTypes, AllRequests, RequestsOK, SameRequests, io

LEMMA LoopMoveKeeps ==
    ASSUME NetCore, NEW l \in Loops, UNCHANGED <<poolVars, keptVars>>,
           \/ StartLooping(l) \/ PollTimeout(l) \/ (HandleWakeup(l) /\ reading[l] = NoConn)
           \/ (TakeFunctors(l) /\ reading[l] = NoConn) \/ FinishIteration(l) \/ Quit(l)
    PROVE  NetCore'
<1>1. LoopTypes'
  BY LoopMoveTypes DEF NetCore, NetTypes
<1>2. Core'
  BY LoopMoveCore DEF NetCore, NetTypes
<1>3. NetTypes'
  BY <1>1 DEF NetCore, NetTypes, PoolTypes, ServerTypes, AllRequests, RequestsOK, poolVars, keptVars, io
<1>4. QED
  BY <1>2, <1>3 DEF NetCore

LEMMA PollKeeps ==
    ASSUME NetCore, NEW l \in Loops, PollChannels(l)
    PROVE  NetCore'
<1>1. /\ UNCHANGED <<poolVars, serverVars>> /\ UNCHANGED <<pending, batch>>
      /\ at[l] = "poll" /\ at' = [at EXCEPT ![l] = "events"]
  BY DEF PollChannels, Poll
<1>2. LoopTypes'
  BY PollTypes DEF NetCore, NetTypes
<1>3. NetTypes'
  BY <1>1, <1>2 DEF NetCore, NetTypes, PoolTypes, ServerTypes, AllRequests, RequestsOK, poolVars, serverVars, io
<1>4. AllDistinct' /\ Fewer
  BY <1>1, QueueSame DEF NetCore, NetTypes, Core
<1>5. OutStays
  BY <1>1, ConnectionsAssumption DEF OutStays, NetCore, NetTypes, LoopTypes
<1>6. ASSUME NEW k \in Loops, NEW c \in Conns, <<c, "in">> \in active'[k]
      PROVE  <<c, "in">> \in active[k] \/ ActiveOK(k, c)'
  <2>1. PICK w \in SUBSET Writable(l) : Poll(l, Readable(l) \cup w \cup Acceptable(l))
    BY DEF PollChannels
  <2>2. CASE k = l
    <3>1. <<c, "in">> \in Readable(l) \cup w \cup Acceptable(l) \cup {Wakeup}
      BY <1>6, <2>1, <2>2 DEF Poll, NetCore, NetTypes, LoopTypes
    <3>2. <<c, "in">> \in Readable(l)
      BY <3>1 DEF Writable, Acceptable, Accept, Wakeup
    <3>3. conn[c].home = l /\ conn[c].registered
      BY <3>2 DEF Readable
    <3>4. conn[c].state \in Open
      BY <3>3 DEF NetCore, Core, AllLife, LifeOK
    <3>5. QED
      BY <1>1, <2>2, <3>3, <3>4 DEF ActiveOK, serverVars
  <2>3. CASE k # l
    BY <1>6, <2>1, <2>3 DEF Poll, NetCore, NetTypes, LoopTypes
  <2>4. QED
    BY <2>2, <2>3
<1>7. ASSUME NEW k \in Loops, NEW c \in Conns, reading'[k] = c
      PROVE  at'[k] = "events" /\ (reading[k] = c \/ ReadingOK(k, c)')
  BY <1>1, <1>7 DEF serverVars, NetCore, NetTypes, LoopTypes, Core, AllReading
<1>8. Unharmed /\ UNCHANGED <<connCount, aborted>>
  BY <1>1 DEF Unharmed, SameLife, serverVars
<1>9. Core'
  BY <1>4, <1>5, <1>6, <1>7, <1>8, CoreTraffic DEF NetCore, NetTypes
<1>10. QED
  BY <1>3, <1>9 DEF NetCore

\* What a handler that leaves the queues alone does to the loops.
LEMMA HandlingCore ==
    ASSUME NetCore, NEW l \in Loops, NEW channel, Handling(l, channel), QueueNothing,
           Unharmed, UNCHANGED <<connCount, aborted>>,
           \A k \in Loops, c \in Conns :
               reading'[k] = c => at'[k] = "events" /\ (reading[k] = c \/ ReadingOK(k, c)')
    PROVE  LoopTypes' /\ Core'
<1>1. LoopTypes'
  BY HandlingTypes DEF NetCore, NetTypes, LoopTypes, QueueNothing
<1>2. AllDistinct' /\ Fewer
  BY QueueSame DEF NetCore, NetTypes, Core, Handling, QueueNothing
<1>3. OutStays
  BY DEF OutStays, Handling
<1>4. \A k \in Loops : active'[k] \subseteq active[k]
  BY DEF NetCore, NetTypes, LoopTypes, Handling
<1>5. Core'
  BY <1>2, <1>3, <1>4, CoreTraffic DEF NetCore, NetTypes
<1>6. QED
  BY <1>1, <1>5

LEMMA HandleWriteKeeps ==
    ASSUME NetCore, NEW l \in Loops, NEW c \in Conns, HandleWrite(l, c)
    PROVE  NetCore'
<1>1. /\ conn' \in [Conns -> ConnType]
      /\ \A d \in Conns : SameLife(conn[d], conn'[d]) /\ SameRequests(conn[d], conn'[d])
  BY HandleWriteTypes DEF NetCore, NetTypes, ServerTypes
<1>2. /\ Handling(l, <<c, "out">>) /\ QueueNothing
      /\ UNCHANGED <<poolVars, reading, connCount, aborted, plan, nextIo>>
  BY DEF HandleWrite, SameServer
<1>3. \A k \in Loops, d \in Conns :
          reading'[k] = d => at'[k] = "events" /\ (reading[k] = d \/ ReadingOK(k, d)')
  BY <1>2 DEF Handling, NetCore, Core, AllReading
<1>4. LoopTypes' /\ Core'
  BY <1>1, <1>2, <1>3, HandlingCore DEF Unharmed
<1>5. PoolTypes' /\ connCount' \in Nat
  BY <1>2 DEF NetCore, NetTypes, PoolTypes, ServerTypes, poolVars
<1>6. NetTypes'
  BY <1>1, <1>2, <1>4, <1>5, TypesOfConns DEF NetCore, NetTypes, ServerTypes
<1>7. QED
  BY <1>4, <1>6 DEF NetCore

\* What a functor that leaves the queues alone does to the loops.
LEMMA RunningCore ==
    ASSUME NetCore, NEW l \in Loops, Running(l), QueueNothing,
           Unharmed, UNCHANGED <<reading, connCount, aborted>>
    PROVE  LoopTypes' /\ Core'
<1>1. LoopTypes'
  BY HandlingTypes DEF NetCore, NetTypes, LoopTypes, QueueNothing
<1>2. AllDistinct' /\ Fewer
  BY QueueRun DEF NetCore, NetTypes, Core, QueueNothing
<1>3. OutStays
  BY DEF OutStays, Running
<1>4. \A k \in Loops, c \in Conns :
          reading'[k] = c => at'[k] = "events" /\ (reading[k] = c \/ ReadingOK(k, c)')
  BY DEF Running, NetCore, Core, AllReading
<1>5. active' = active
  BY DEF Running
<1>6. Core'
  BY <1>2, <1>3, <1>4, <1>5, CoreTraffic DEF NetCore, NetTypes
<1>7. QED
  BY <1>1, <1>6

\* Steps in which no loop moves.
LEMMA QuietCore ==
    ASSUME NetCore, UNCHANGED <<at, active, batch, pending, reading, connCount, aborted>>, Unharmed
    PROVE  Core'
<1>1. AllDistinct' /\ Fewer
  BY QueueSame DEF NetCore, NetTypes, Core
<1>2. OutStays
  BY DEF OutStays
<1>3. \A k \in Loops, c \in Conns :
          reading'[k] = c => at'[k] = "events" /\ (reading[k] = c \/ ReadingOK(k, c)')
  BY DEF NetCore, Core, AllReading
<1>4. QED
  BY <1>1, <1>2, <1>3, CoreTraffic DEF NetCore, NetTypes

LEMMA ReadingConn ==
    ASSUME NetCore, NEW l \in Loops, reading[l] # NoConn
    PROVE  /\ reading[l] \in Conns /\ at[l] = "events" /\ ReadingOK(l, reading[l])
           /\ conn \in [Conns -> ConnType] /\ conn[reading[l]] \in ConnType
BY DEF NetCore, NetTypes, ServerTypes, Core, AllReading

LEMMA LineParsed ==
    ASSUME NEW b \in ConnType, b.lines > 0
    PROVE  LET k == [b EXCEPT !.lines = @ - 1, !.asked = @ + 1]
           IN /\ k \in ConnType /\ SameLife(b, k) /\ k.asked \in Nat
              /\ k.asked = b.asked + 1 /\ k.lines = b.lines - 1 /\ k.inbox = b.inbox /\ k.sent = b.sent
<1>1. b.lines - 1 \in Nat /\ b.asked + 1 \in Nat
  BY DEF ConnType
<1>2. QED
  BY <1>1 DEF ConnType, SameLife

LEMMA HandleLineKeeps ==
    ASSUME NetCore, NEW l \in Loops, HandleLine(l)
    PROVE  NetCore'
<1> DEFINE c == reading[l]
           k == [conn[c] EXCEPT !.lines = @ - 1, !.asked = @ + 1]
<1>1. /\ c \in Conns /\ conn[c] \in ConnType /\ conn[c].lines > 0 /\ conn[c].lines \in Nat /\ conn[c].asked \in Nat
      /\ conn \in [Conns -> ConnType]
  <2>1. c \in Conns /\ conn[c] \in ConnType /\ conn \in [Conns -> ConnType]
    BY ReadingConn DEF HandleLine
  <2>2. conn[c].lines > 0
    BY DEF HandleLine
  <2>3. QED
    BY <2>1, <2>2 DEF ConnType
<1>2. /\ k \in ConnType /\ SameLife(conn[c], k) /\ k.asked \in Nat
      /\ k.asked = conn[c].asked + 1 /\ k.lines = conn[c].lines - 1 /\ k.inbox = conn[c].inbox /\ k.sent = conn[c].sent
  BY <1>1, LineParsed
<1>3. /\ \/ TryPut(<<c, k.asked>>) /\ conn' = [conn EXCEPT ![c] = k]
         \/ Answer(c, k, k.asked) /\ UNCHANGED poolVars
      /\ UNCHANGED <<loopVars, reading, connCount, aborted, plan, nextIo>>
  BY DEF HandleLine, SameServer
<1> HIDE DEF c, k
<1>4. PICK j : j \in ConnType /\ SameLife(k, j) /\ SameRequests(k, j) /\ conn' = [conn EXCEPT ![c] = j]
  <2>1. CASE conn' = [conn EXCEPT ![c] = k]
    BY <1>2, <2>1 DEF SameLife, SameRequests
  <2>2. CASE Answer(c, k, k.asked)
    BY <1>2, <2>2, SendTypes DEF Answer
  <2>3. QED
    BY <1>3, <2>1, <2>2
<1>5. conn' \in [Conns -> ConnType] /\ Unharmed
  BY <1>1, <1>2, <1>4 DEF Unharmed, SameLife
<1>6. Core'
  BY <1>3, <1>5, QuietCore DEF loopVars
<1>7. RequestsOK(conn'[c])
  <2>1. conn'[c] = j /\ RequestsOK(conn[c]) /\ conn[c] \in ConnType
    BY <1>1, <1>4 DEF NetCore, NetTypes, AllRequests
  <2>2. QED
    BY <1>1, <1>2, <1>4, <2>1 DEF RequestsOK, SameRequests, ConnType
<1>8. AllRequests'
  BY <1>1, <1>3, <1>4, <1>7 DEF AllRequests, RequestsOK, NetCore, NetTypes
<1>9. PoolTypes'
  <2>1. CASE UNCHANGED poolVars
    BY <2>1 DEF poolVars, PoolTypes, NetCore, NetTypes
  <2>2. CASE TryPut(<<c, k.asked>>)
    <3>1. <<c, k.asked>> \in Tasks /\ tasks \in Seq(Tasks) /\ Len(tasks) < Capacity /\ Capacity \in Nat
      BY <1>1, <1>2, <2>2, CapacityAssumption DEF TryPut, Full, Tasks, PoolTypes, NetCore, NetTypes
    <3>2. QED
      BY <2>2, <3>1 DEF TryPut, PoolTypes, NetCore, NetTypes
  <2>3. QED
    BY <1>3, <2>1, <2>2
<1>10. NetTypes'
  BY <1>3, <1>5, <1>8, <1>9 DEF NetCore, NetTypes, LoopTypes, ServerTypes, loopVars, io
<1>11. QED
  BY <1>6, <1>10 DEF NetCore

\* An empty line is dropped, and an exception ends the process.
LEMMA EmptyLineKeeps ==
    ASSUME NetCore, NEW l \in Loops, EmptyLine(l)
    PROVE  NetCore'
<1>1. PICK c : c = reading[l]
  OBVIOUS
<1>2. /\ c \in Conns /\ conn[c] \in ConnType /\ conn \in [Conns -> ConnType]
      /\ conn[c].lines > 0 /\ conn[c].lines \in Nat
  BY <1>1, ReadingConn DEF EmptyLine, ConnType
<1>3. /\ conn' = [conn EXCEPT ![c].lines = @ - 1]
      /\ UNCHANGED <<loopVars, poolVars, reading, connCount, aborted, plan, nextIo>>
  BY <1>1 DEF EmptyLine, SameServer
<1>4. /\ conn' \in [Conns -> ConnType] /\ Unharmed
      /\ \A d \in Conns : RequestsOK(conn[d]) => RequestsOK(conn'[d])
  <2>1. PICK j : /\ j = [conn[c] EXCEPT !.lines = @ - 1] /\ j \in ConnType /\ SameLife(conn[c], j)
                 /\ j.asked = conn[c].asked /\ j.inbox = conn[c].inbox /\ j.sent = conn[c].sent
                 /\ j.lines = conn[c].lines - 1
    <3> DEFINE b == [conn[c] EXCEPT !.lines = @ - 1]
    <3>1. conn[c].lines - 1 \in Nat
      BY <1>2
    <3>2. /\ b \in ConnType /\ SameLife(conn[c], b) /\ b.asked = conn[c].asked
          /\ b.inbox = conn[c].inbox /\ b.sent = conn[c].sent /\ b.lines = conn[c].lines - 1
      BY <1>2, <3>1 DEF ConnType, SameLife
    <3> HIDE DEF b
    <3>3. QED
      BY <3>2 DEF b
  <2>2. \A d \in Conns : conn'[d] = IF d = c THEN j ELSE conn[d]
    BY <1>2, <1>3, <2>1
  <2>3. conn' \in [Conns -> ConnType]
    BY <1>2, <1>3, <2>1
  <2>4. Unharmed
    BY <2>1, <2>2 DEF Unharmed, SameLife
  <2>5. plan.requests \in Nat
    BY PlanTypes DEF NetCore, NetTypes, ServerTypes
  <2>6. RequestsOK(conn[c]) => RequestsOK(j)
    BY <1>2, <1>3, <2>1, <2>5 DEF RequestsOK, ConnType
  <2>7. QED
    BY <1>3, <2>2, <2>3, <2>4, <2>6 DEF RequestsOK
<1>5. Core'
  BY <1>3, <1>4, QuietCore DEF loopVars
<1>6. NetTypes'
  BY <1>3, <1>4 DEF NetCore, NetTypes, LoopTypes, PoolTypes, ServerTypes, AllRequests, RequestsOK,
                    loopVars, poolVars, io
<1>7. QED
  BY <1>5, <1>6 DEF NetCore

LEMMA SameCore == NetCore /\ UNCHANGED <<loopVars, poolVars, keptVars>> => NetCore'
<1> SUFFICES ASSUME NetCore, UNCHANGED <<loopVars, poolVars, keptVars>> PROVE NetCore'
  OBVIOUS
<1>1. Core'
  BY QuietCore DEF loopVars, keptVars, Unharmed, SameLife
<1>2. NetTypes'
  BY DEF NetCore, NetTypes, LoopTypes, PoolTypes, ServerTypes, AllRequests, RequestsOK,
         loopVars, poolVars, keptVars, io
<1>3. QED
  BY <1>1, <1>2 DEF NetCore

LEMMA ClientKeeps ==
    ASSUME NetCore, NEW c \in plan.clients, ClientStep(c)
    PROVE  NetCore'
<1>1. c \in Conns /\ conn[c] \in ConnType /\ conn \in [Conns -> ConnType] /\ plan \in NetSeeds
  BY PlanTypes DEF NetCore, NetTypes, ServerTypes
<1>2. UNCHANGED <<loopVars, poolVars, reading, connCount, aborted, plan, nextIo>>
  BY DEF ClientStep, SameServer
<1>3. PICK j : /\ conn' = [conn EXCEPT ![c] = j] /\ j \in ConnType /\ SameLife(conn[c], j)
               /\ RequestsOK(j)
  <2>1. RequestsOK(conn[c]) /\ plan.requests \in Nat
    BY <1>1, PlanTypes DEF NetCore, NetTypes, AllRequests
  <2>2. ASSUME NEW p \in {"open", "closed", "reset"}, conn' = [conn EXCEPT ![c].peer = p]
        PROVE  \E j : /\ conn' = [conn EXCEPT ![c] = j] /\ j \in ConnType /\ SameLife(conn[c], j)
                      /\ RequestsOK(j)
    <3> DEFINE j == [conn[c] EXCEPT !.peer = p]
    <3>1. conn' = [conn EXCEPT ![c] = j] /\ j \in ConnType /\ SameLife(conn[c], j)
      BY <1>1, <2>2 DEF ConnType, SameLife
    <3>2. RequestsOK(j)
      BY <1>1, <2>1 DEF ConnType, RequestsOK
    <3>3. QED
      BY <3>1, <3>2
  <2>3. ASSUME conn[c].sent < plan.requests, conn' = [conn EXCEPT ![c].inbox = @ + 1, ![c].sent = @ + 1]
        PROVE  \E j : /\ conn' = [conn EXCEPT ![c] = j] /\ j \in ConnType /\ SameLife(conn[c], j)
                      /\ RequestsOK(j)
    <3> DEFINE j == [conn[c] EXCEPT !.inbox = @ + 1, !.sent = @ + 1]
    <3>1. conn' = [conn EXCEPT ![c] = j] /\ j \in ConnType /\ SameLife(conn[c], j)
      BY <1>1, <2>3 DEF ConnType, SameLife
    <3>2. RequestsOK(j)
      BY <1>1, <2>1, <2>3 DEF ConnType, RequestsOK
    <3>3. QED
      BY <3>1, <3>2
  <2>4. QED
    BY <2>2, <2>3 DEF ClientStep
<1>4. conn' \in [Conns -> ConnType] /\ Unharmed
  BY <1>1, <1>3 DEF Unharmed, SameLife
<1>5. Core'
  BY <1>2, <1>4, QuietCore DEF loopVars
<1>6. AllRequests'
  BY <1>1, <1>2, <1>3 DEF AllRequests, RequestsOK, NetCore, NetTypes
<1>7. NetTypes'
  BY <1>2, <1>4, <1>6 DEF NetCore, NetTypes, LoopTypes, PoolTypes, ServerTypes, loopVars, poolVars, io
<1>8. QED
  BY <1>5, <1>7 DEF NetCore

LEMMA TakeTaskKeeps ==
    ASSUME NetCore, NEW w \in Workers, TakeTask(w)
    PROVE  NetCore'
<1>1. UNCHANGED <<loopVars, serverVars>> /\ tasks # <<>> /\ tasks \in Seq(Tasks) /\ Capacity \in Nat
  BY CapacityAssumption DEF TakeTask, Take, NetCore, NetTypes, PoolTypes
<1>2. Head(tasks) \in Tasks /\ Tail(tasks) \in Seq(Tasks) /\ Len(Tail(tasks)) = Len(tasks) - 1
  BY <1>1, HeadTailProperties
<1>3. PoolTypes'
  BY <1>1, <1>2 DEF TakeTask, Take, NetCore, NetTypes, PoolTypes
<1>4. Core'
  BY <1>1, QuietCore DEF loopVars, serverVars, Unharmed, SameLife
<1>5. NetTypes'
  BY <1>1, <1>3 DEF NetCore, NetTypes, LoopTypes, ServerTypes, AllRequests, RequestsOK, loopVars, serverVars, io
<1>6. QED
  BY <1>4, <1>5 DEF NetCore

LEMMA FinishTaskKeeps ==
    ASSUME NetCore, NEW w \in Workers, FinishTask(w)
    PROVE  NetCore'
<1> DEFINE c == hand[w][1]
           m == hand[w][2]
           t == conn[c].home
<1>1. UNCHANGED serverVars /\ hand[w] \in Tasks /\ c \in Conns /\ m \in Nat
  BY DEF FinishTask, NetCore, NetTypes, PoolTypes, Tasks
<1>2. CASE conn[c].state = "Connected"
  <2>1. t \in Loops
    BY <1>1, <1>2 DEF NetCore, Core, AllLife, LifeOK
  <2>2. Push(w, t, <<"send", c, m>>) /\ UNCHANGED poolVars
    BY <1>2 DEF FinishTask
  <2> DEFINE f == <<"send", c, m>>
  <2>3. f \in Functors /\ f[1] = "send"
    BY <1>1, SendFunctor
  <2> HIDE DEF c, m, t, f
  <2>4. /\ pending' = [pending EXCEPT ![t] = Append(@, f)] /\ waking' = [waking EXCEPT ![w] = t]
        /\ UNCHANGED <<at, active, batch, eventfd, quit>>
    BY <2>2 DEF Push, f
  <2>5. AllDistinct' /\ OneMore(t, f)
    BY <2>1, <2>3, <2>4, QueuePut DEF NetCore, NetTypes, Core, Once
  <2>6. LoopTypes'
    <3>1. Append(pending[t], f) \in Seq(Functors)
      BY <2>1, <2>3 DEF NetCore, NetTypes, LoopTypes
    <3>2. QED
      BY <2>1, <2>4, <3>1 DEF NetCore, NetTypes, LoopTypes
  <2>7. /\ \A l \in Loops, d \in Conns : reading'[l] = d => at'[l] = "events" /\ reading[l] = d
        /\ OutStays /\ Unharmed
    BY <1>1, <2>4 DEF serverVars, NetCore, Core, AllReading, OutStays, Unharmed, SameLife
  <2>8. Core'
    BY <1>1, <2>1, <2>3, <2>4, <2>5, <2>7, CoreTraffic DEF NetCore, NetTypes, serverVars
  <2>9. NetTypes'
    BY <1>1, <2>2, <2>6
       DEF NetCore, NetTypes, PoolTypes, ServerTypes, AllRequests, RequestsOK, poolVars, serverVars, io
  <2>10. QED
    BY <2>8, <2>9 DEF NetCore
<1>3. CASE conn[c].state # "Connected"
  <2>1. Finish(w) /\ UNCHANGED <<loopVars, serverVars>>
    BY <1>1, <1>3 DEF FinishTask
  <2>2. Core'
    BY <2>1, QuietCore DEF loopVars, serverVars, Unharmed, SameLife
  <2>3. NetTypes'
    BY <2>1 DEF NetCore, NetTypes, LoopTypes, PoolTypes, ServerTypes, AllRequests, RequestsOK, Finish,
                loopVars, serverVars, io
  <2>4. QED
    BY <2>2, <2>3 DEF NetCore
<1>4. QED
  BY <1>2, <1>3

LEMMA WriteEventfdKeeps ==
    ASSUME NetCore, NEW w \in Workers, WriteEventfd(w)
    PROVE  NetCore'
<1>1. /\ UNCHANGED serverVars /\ UNCHANGED <<at, active, batch, pending, quit>>
      /\ eventfd' = [eventfd EXCEPT ![waking[w]] = TRUE] /\ waking' = [waking EXCEPT ![w] = NoLoop]
      /\ Finish(w)
  BY DEF WriteEventfd, WakeUp
<1>2. Core'
  BY <1>1, QuietCore DEF serverVars, Unharmed, SameLife
<1>3. LoopTypes'
  BY <1>1 DEF NetCore, NetTypes, LoopTypes
<1>4. NetTypes'
  BY <1>1, <1>3 DEF NetCore, NetTypes, PoolTypes, ServerTypes, AllRequests, RequestsOK, Finish, serverVars, io
<1>5. QED
  BY <1>2, <1>4 DEF NetCore

LEMMA StopWorkersKeeps == NetCore /\ StopWorkers => NetCore'
<1> SUFFICES ASSUME NetCore, StopWorkers PROVE NetCore'
  OBVIOUS
<1>1. UNCHANGED <<loopVars, serverVars, tasks, hand>> /\ poolStop' = TRUE
  BY DEF StopWorkers, StopPool
<1>2. Core'
  BY <1>1, QuietCore DEF loopVars, serverVars, Unharmed, SameLife
<1>3. NetTypes'
  BY <1>1 DEF NetCore, NetTypes, LoopTypes, PoolTypes, ServerTypes, AllRequests, RequestsOK,
              loopVars, serverVars, io
<1>4. QED
  BY <1>2, <1>3 DEF NetCore

-----------------------------------------------------------------------------
(* Steps that change the life of one connection.                           *)

LEMMA PlainEqual ==
    ASSUME NEW f \in Functors, NEW g \in Functors, f[1] = g[1], f[2] = g[2], f[1] # "send"
    PROVE  f = g
BY DEF Functors

LEMMA LifeStep ==
    ASSUME NetCore, NEW c \in Conns, NEW j, conn' = [conn EXCEPT ![c] = j],
           UNCHANGED at, ~aborted', CountOK', AllDistinct', LifeOK(c)',
           \A l \in Loops : active'[l] \subseteq active[l],
           \A l \in Loops : reading'[l] = reading[l] \/ reading'[l] = NoConn,
           Fewer \/ \E t \in Loops, f \in Functors : OneMore(t, f) /\ FunctorOK(t, f)',
           \A l \in Loops, f \in Functors :
               f[2] = c /\ FunctorOK(l, f) /\ In(f, Queue(l)) /\ In(f, Queue(l)') => FunctorOK(l, f)',
           \A l \in Loops : <<c, "in">> \in active[l] /\ ActiveOK(l, c) =>
               <<c, "in">> \notin active'[l] \/ ActiveOK(l, c)',
           \A l \in Loops : reading[l] = c /\ ReadingOK(l, c) => reading'[l] = NoConn \/ ReadingOK(l, c)'
    PROVE  Core'
<1> DEFINE X == {c}
<1>1. \A d \in Conns \ X : SameLife(conn[d], conn'[d])
  BY DEF SameLife, NetCore, NetTypes, ServerTypes
<1>2. \A l \in Loops, f \in Functors :
          In(f, Queue(l)') => (In(f, Queue(l)) /\ f[2] \notin X) \/ FunctorOK(l, f)'
  <2>1. SUFFICES ASSUME NEW l \in Loops, NEW f \in Functors, In(f, Queue(l)'), ~FunctorOK(l, f)'
                 PROVE  In(f, Queue(l)) /\ f[2] \notin X
    OBVIOUS
  <2>2. In(f, Queue(l))
    BY <2>1 DEF Fewer, OneMore
  <2>3. FunctorOK(l, f)
    BY <2>2 DEF NetCore, Core, AllFunctors
  <2>4. QED
    BY <2>1, <2>2, <2>3
<1>3. \A l \in Loops, d \in Conns :
          <<d, "in">> \in active'[l] => (<<d, "in">> \in active[l] /\ d \notin X) \/ ActiveOK(l, d)'
  <2>1. SUFFICES ASSUME NEW l \in Loops, NEW d \in Conns, <<d, "in">> \in active'[l], d = c
                 PROVE  ActiveOK(l, d)'
    OBVIOUS
  <2>2. <<d, "in">> \in active[l] /\ ActiveOK(l, d)
    BY <2>1 DEF NetCore, Core, AllActive
  <2>3. QED
    BY <2>1, <2>2
<1>4. \A l \in Loops, d \in Conns :
          reading'[l] = d => at'[l] = "events" /\ ((reading[l] = d /\ d \notin X) \/ ReadingOK(l, d)')
  <2>1. SUFFICES ASSUME NEW l \in Loops, NEW d \in Conns, reading'[l] = d
                 PROVE  at'[l] = "events" /\ ((reading[l] = d /\ d \notin X) \/ ReadingOK(l, d)')
    OBVIOUS
  <2>2. reading[l] = d /\ d # NoConn
    BY <2>1, ConnectionsAssumption
  <2>3. at[l] = "events" /\ ReadingOK(l, d)
    BY <2>2 DEF NetCore, Core, AllReading
  <2>4. QED
    BY <2>1, <2>2, <2>3
<1>5. X \in SUBSET Conns /\ \A d \in X : LifeOK(d)'
  OBVIOUS
<1>6. OutStays
  BY DEF OutStays
<1> HIDE DEF X
<1>7. QED
  BY <1>1, <1>2, <1>3, <1>4, <1>5, <1>6, CoreFrame DEF NetCore

\* handleClose of an open connection by its own loop l, which is handling or
\* running, with nothing of c left to handle.
LEMMA HandleCloseKeeps ==
    ASSUME NetCore, NEW l \in Loops, NEW c \in Conns, NEW channel, HandleClose(l, c),
           ActiveOK(l, c), Handling(l, channel) \/ Running(l),
           UNCHANGED <<poolVars, reading, plan, nextIo>>, <<c, "in">> \notin active'[l]
    PROVE  NetCore'
<1> DEFINE f == <<"remove", c>>
           j == Closed(conn[c])
<1>1. /\ conn' = [conn EXCEPT ![c] = j] /\ Down(conn[c])
      /\ aborted' = (aborted \/ ~(conn[c].state \in {"Connected", "Disconnecting"}))
      /\ QueueInLoop(Base, f, l) /\ conn \in [Conns -> ConnType] /\ conn[c] \in ConnType
  BY DEF HandleClose, Asserts, NetCore, NetTypes, ServerTypes
<1>2. /\ j \in ConnType /\ j.state = "Disconnected" /\ ~j.registered /\ ~j.counted
      /\ j.home = conn[c].home /\ j.listed = conn[c].listed /\ SameRequests(conn[c], j)
  BY <1>1 DEF Closed, ConnType, States, SameRequests
<1> HIDE DEF j
<1>3. /\ f \in Functors /\ f[1] = "remove" /\ f[2] = c /\ Base \in Loops
  BY PlainFunctor, ConnectionsAssumption DEF Plain
<1> HIDE DEF f
<1>4. ~aborted' /\ conn[c].state \in Open /\ conn[c].home = l
  BY <1>1 DEF NetCore, Core, ActiveOK, Open
<1>5. at' = at /\ \A k \in Loops : active'[k] \subseteq active[k]
  BY DEF Handling, Running, NetCore, NetTypes, LoopTypes
<1>6. ~In(f, Queue(Base))
  BY <1>3, <1>4 DEF NetCore, Core, AllFunctors, FunctorOK, Open
<1>7. AllDistinct' /\ OneMore(Base, f)
  <2>1. pending' = [pending EXCEPT ![Base] = Append(@, f)]
    BY <1>1 DEF QueueInLoop
  <2>2. CASE Handling(l, channel)
    BY <1>3, <1>6, <2>1, <2>2, QueuePut DEF Handling, NetCore, NetTypes, Core
  <2>3. CASE Running(l)
    BY <1>3, <1>6, <2>1, <2>3, QueueRun DEF NetCore, NetTypes, Core
  <2>4. QED
    BY <2>2, <2>3
<1>8. CountOK'
  <2>1. ~conn'[c].counted /\ \A d \in Conns \ {c} : conn'[d].counted = conn[d].counted
    BY <1>1, <1>2
  <2>2. QED
    BY <1>1, <2>1, CountDown DEF NetCore, Core
<1>9. conn'[c] = j
  BY <1>1
<1>10. LifeOK(c) /\ LifeOK(c)'
  <2>1. LifeOK(c)
    BY DEF NetCore, Core, AllLife
  <2>2. QED
    BY <1>2, <1>4, <1>9, <2>1 DEF LifeOK, Open
<1>11. FunctorOK(Base, f)'
  BY <1>2, <1>3, <1>4, <1>5, <1>9, <1>10 DEF FunctorOK, LifeOK
<1>12. \A k \in Loops, g \in Functors : g[2] = c /\ FunctorOK(k, g) => FunctorOK(k, g)'
  BY <1>2, <1>4, <1>5, <1>9 DEF FunctorOK, Open, Past
<1>13. \A k \in Loops : <<c, "in">> \in active[k] /\ ActiveOK(k, c) => <<c, "in">> \notin active'[k]
  BY <1>4 DEF ActiveOK
<1>14. \A k \in Loops : reading[k] = c /\ ReadingOK(k, c) => ReadingOK(k, c)'
  BY <1>2, <1>9 DEF ReadingOK, Past
<1>15. Core'
  <2>1. \E t \in Loops, g \in Functors : OneMore(t, g) /\ FunctorOK(t, g)'
    BY <1>3, <1>7, <1>11
  <2>2. \A k \in Loops : reading'[k] = reading[k]
    OBVIOUS
  <2>3. QED
    BY <1>1, <1>4, <1>5, <1>7, <1>8, <1>10, <1>12, <1>13, <1>14, <2>1, <2>2, LifeStep
<1>16. LoopTypes'
  <2>1. pending' \in [Loops -> Seq(Functors)] /\ eventfd' \in [Loops -> BOOLEAN]
    BY <1>1, <1>3, QueueInLoopTypes DEF NetCore, NetTypes
  <2>2. QED
    BY <2>1, HandlingTypes DEF NetCore, NetTypes
<1>17. connCount' \in Nat
  <2>1. IsFiniteSet(CountedConns')
    BY FS_Subset, ConnectionsAssumption DEF CountedConns
  <2>2. QED
    BY <1>8, <2>1, FS_CardinalityType DEF CountOK
<1>18. NetTypes'
  <2>1. /\ conn' \in [Conns -> ConnType]
        /\ \A d \in Conns : SameRequests(conn[d], conn'[d])
    BY <1>1, <1>2 DEF SameRequests
  <2>2. PoolTypes'
    BY DEF NetCore, NetTypes, PoolTypes, poolVars
  <2>3. QED
    BY <1>16, <1>17, <2>1, <2>2, TypesOfConns DEF NetCore, NetTypes, ServerTypes
<1>19. QED
  BY <1>15, <1>18 DEF NetCore

\* What the handlers and functors that queue at most one functor do to the
\* queues, and what is left of the functor that ran.
LEMMA HandledQueues ==
    ASSUME NetCore, NEW l \in Loops, NEW channel, Handling(l, channel) \/ Running(l)
    PROVE  /\ at' = at /\ \A k \in Loops : active'[k] \subseteq active[k]
           /\ QueueNothing => AllDistinct' /\ Fewer /\ LoopTypes'
           /\ \A t \in Loops, f \in Functors :
                 QueueInLoop(t, f, l) /\ (f[1] \in Once => ~In(f, Queue(t)))
                    => AllDistinct' /\ OneMore(t, f) /\ LoopTypes'
<1>1. at' = at /\ \A k \in Loops : active'[k] \subseteq active[k]
  BY DEF Handling, Running, NetCore, NetTypes, LoopTypes
<1>2. QueueNothing => AllDistinct' /\ Fewer /\ LoopTypes'
  <2>1. SUFFICES ASSUME QueueNothing PROVE AllDistinct' /\ Fewer /\ LoopTypes'
    OBVIOUS
  <2>2. LoopTypes'
    BY <2>1, HandlingTypes DEF NetCore, NetTypes, LoopTypes, QueueNothing
  <2>3. CASE Handling(l, channel)
    BY <2>1, <2>2, <2>3, QueueSame DEF NetCore, NetTypes, Core, Handling, QueueNothing
  <2>4. CASE Running(l)
    BY <2>1, <2>2, <2>4, QueueRun DEF NetCore, NetTypes, Core, QueueNothing
  <2>5. QED
    BY <2>3, <2>4
<1>3. ASSUME NEW t \in Loops, NEW f \in Functors, QueueInLoop(t, f, l), f[1] \in Once => ~In(f, Queue(t))
      PROVE  AllDistinct' /\ OneMore(t, f) /\ LoopTypes'
  <2>1. pending' = [pending EXCEPT ![t] = Append(@, f)]
    BY <1>3 DEF QueueInLoop
  <2>2. LoopTypes'
    BY <1>3, QueueInLoopTypes, HandlingTypes DEF NetCore, NetTypes
  <2>3. CASE Handling(l, channel)
    BY <1>3, <2>1, <2>2, <2>3, QueuePut DEF Handling, NetCore, NetTypes, Core
  <2>4. CASE Running(l)
    BY <1>3, <2>1, <2>2, <2>4, QueueRun DEF NetCore, NetTypes, Core
  <2>5. QED
    BY <2>3, <2>4
<1>4. QED
  BY <1>1, <1>2, <1>3

\* connectEstablished: by the handler that accepted the connection, or by the
\* functor that was queued for it.
LEMMA EstablishKeeps ==
    ASSUME NetCore, NEW l \in Loops, NEW c \in Conns, NEW k \in ConnType, NEW channel,
           Establish(l, c, k), k.state = "Connecting", k.home = l, k.counted = conn[c].counted,
           k.listed \/ at[Base] = "out", SameRequests(conn[c], k),
           \/ Handling(l, channel) /\ conn[c].state = "none"
           \/ Running(l) /\ Head(batch[l]) = <<"established", c>>,
           UNCHANGED <<poolVars, reading, plan>>,
           nextIo' \in Nat \ {0}, io # <<>> => nextIo' <= Len(io)
    PROVE  NetCore'
<1> DEFINE f == <<"forceClose", c>>
           h == <<"established", c>>
           up == [k EXCEPT !.state = "Connected", !.events = {"in"}, !.registered = TRUE]
<1>1. /\ conn \in [Conns -> ConnType] /\ conn[c] \in ConnType
      /\ f \in Functors /\ f[1] = "forceClose" /\ f[2] = c
      /\ h \in Functors /\ h[1] = "established" /\ h[2] = c
  BY PlainFunctor DEF Plain, NetCore, NetTypes, ServerTypes
<1>3. conn[c].state = "none" \/ (conn[c].state = "Connecting" /\ conn[c].home = l /\ Head(batch[l]) = h /\ Running(l))
  <2>1. CASE Running(l) /\ Head(batch[l]) = <<"established", c>>
    <3>1. In(h, Queue(l))
      BY <2>1, QueueRun DEF NetCore, NetTypes, Core
    <3>2. FunctorOK(l, h)
      BY <1>1, <3>1 DEF NetCore, Core, AllFunctors
    <3>3. QED
      BY <1>1, <2>1, <3>2 DEF FunctorOK
  <2>2. QED
    BY <2>1
<1>4. ~conn[c].counted
  BY <1>3 DEF NetCore, Core, AllLife, LifeOK, Open
<1>5. PICK j \in ConnType :
         /\ conn' = [conn EXCEPT ![c] = j]
         /\ j.state \in Open /\ j.home = l /\ j.listed = k.listed /\ SameRequests(conn[c], j)
         /\ \/ connCount < MaxConn /\ j.counted /\ connCount' = connCount + 1 /\ QueueNothing
            \/ ~j.counted /\ connCount' = connCount /\ QueueInLoop(l, f, l)
  <2>1. up \in ConnType /\ up.home = l /\ up.listed = k.listed /\ SameRequests(k, up) /\ ~up.counted
    BY <1>4 DEF ConnType, States, SameRequests
  <2> HIDE DEF up
  <2>2. \A b \in ConnType : /\ [b EXCEPT !.counted = TRUE] \in ConnType
                            /\ SameRequests(b, [b EXCEPT !.counted = TRUE])
                            /\ [b EXCEPT !.counted = TRUE].counted
                            /\ [b EXCEPT !.counted = TRUE].state = b.state
                            /\ [b EXCEPT !.counted = TRUE].home = b.home
                            /\ [b EXCEPT !.counted = TRUE].listed = b.listed
    BY DEF ConnType, SameRequests
  <2>3. \A b \in ConnType : /\ [b EXCEPT !.state = "Disconnecting"] \in ConnType
                            /\ SameRequests(b, [b EXCEPT !.state = "Disconnecting"])
                            /\ [b EXCEPT !.state = "Disconnecting"].state = "Disconnecting"
                            /\ [b EXCEPT !.state = "Disconnecting"].counted = b.counted
                            /\ [b EXCEPT !.state = "Disconnecting"].home = b.home
                            /\ [b EXCEPT !.state = "Disconnecting"].listed = b.listed
    BY DEF ConnType, States, SameRequests
  <2>4. up.state = "Connected"
    BY DEF up, ConnType
  <2>5. CASE connCount < MaxConn
    <3>1. conn' = [conn EXCEPT ![c] = [up EXCEPT !.counted = TRUE]] /\ connCount' = connCount + 1 /\ QueueNothing
      BY <2>5 DEF Establish, up
    <3> DEFINE j == [up EXCEPT !.counted = TRUE]
    <3>2. /\ j \in ConnType /\ SameRequests(conn[c], j) /\ j.counted
          /\ j.state \in Open /\ j.home = l /\ j.listed = k.listed
      BY <2>1, <2>2, <2>4 DEF Open, SameRequests
    <3> HIDE DEF j
    <3>3. QED
      BY <2>5, <3>1, <3>2 DEF j
  <2>6. CASE ~(connCount < MaxConn)
    <3>1. conn' = [conn EXCEPT ![c] = [up EXCEPT !.state = "Disconnecting"]] /\ connCount' = connCount /\ QueueInLoop(l, f, l)
      BY <2>6 DEF Establish, up
    <3> DEFINE j == [up EXCEPT !.state = "Disconnecting"]
    <3>2. /\ j \in ConnType /\ SameRequests(conn[c], j) /\ ~j.counted
          /\ j.state \in Open /\ j.home = l /\ j.listed = k.listed
      BY <2>1, <2>3 DEF Open, SameRequests
    <3> HIDE DEF j
    <3>3. QED
      BY <3>1, <3>2 DEF j
  <2>7. QED
    BY <2>5, <2>6
<1> HIDE DEF f, h, up
<1>6. conn'[c] = j /\ \A d \in Conns \ {c} : conn'[d] = conn[d]
  BY <1>1, <1>5
<1>7. ~aborted'
  BY DEF Establish, Asserts, NetCore, Core
<1>8. CountOK'
  <2>1. CountOK /\ \A d \in Conns \ {c} : conn'[d].counted = conn[d].counted
    BY <1>6 DEF NetCore, Core
  <2>2. CASE connCount < MaxConn /\ j.counted /\ connCount' = connCount + 1
    BY <1>4, <1>6, <2>1, <2>2, CountUp
  <2>3. CASE ~j.counted /\ connCount' = connCount
    <3>1. \A d \in Conns : conn'[d].counted = conn[d].counted
      <4>1. conn'[c].counted = conn[c].counted
        BY <1>1, <1>4, <1>6, <2>3 DEF ConnType
      <4>2. QED
        BY <2>1, <4>1
    <3>2. QED
      BY <2>1, <2>3, <3>1, CountSame
  <2>4. QED
    BY <1>5, <2>2, <2>3
<1>9. /\ at' = at /\ \A m \in Loops : active'[m] \subseteq active[m]
      /\ AllDistinct' /\ LoopTypes'
      /\ Fewer \/ (OneMore(l, f) /\ QueueInLoop(l, f, l))
  BY <1>1, <1>5, HandledQueues DEF Once
<1>10. conn[c].state = "Connecting" => ~In(h, Queue(l)')
  <2>1. SUFFICES ASSUME Running(l), Head(batch[l]) = h PROVE ~In(h, Queue(l)')
    BY <1>3
  <2>2. CASE QueueNothing
    BY <1>1, <2>1, <2>2, QueueRun DEF NetCore, NetTypes, Core, QueueNothing, Once
  <2>3. CASE QueueInLoop(l, f, l)
    <3>1. pending' = [pending EXCEPT ![l] = Append(@, f)] /\ h # f
      BY <1>1, <2>3 DEF QueueInLoop
    <3>2. QED
      BY <1>1, <2>1, <3>1, QueueRun DEF NetCore, NetTypes, Core, Once
  <2>4. QED
    BY <1>5, <2>2, <2>3
<1>11. FunctorOK(l, f)'
  BY <1>1, <1>5, <1>6 DEF FunctorOK, Open, Past
<1>12. LifeOK(c)'
  BY <1>5, <1>6, <1>9 DEF LifeOK, Open
<1>13. \A m \in Loops, g \in Functors :
          g[2] = c /\ FunctorOK(m, g) /\ In(g, Queue(m)) /\ In(g, Queue(m)') => FunctorOK(m, g)'
  <2>1. SUFFICES ASSUME NEW m \in Loops, NEW g \in Functors, g[2] = c, FunctorOK(m, g), In(g, Queue(m)')
                 PROVE  FunctorOK(m, g)'
    OBVIOUS
  <2>2. g[1] # "established"
    <3>1. SUFFICES ASSUME g[1] = "established" PROVE FALSE
      OBVIOUS
    <3>2. g = h
      BY <1>1, <2>1, <3>1, PlainEqual
    <3>3. conn[c].state = "Connecting" /\ m = l
      BY <1>1, <1>3, <2>1, <3>1 DEF FunctorOK
    <3>4. QED
      BY <1>10, <2>1, <3>2, <3>3
  <2>3. g[1] # "forceClose" /\ g[1] # "remove"
    BY <1>3, <2>1 DEF FunctorOK, Past
  <2>4. g[1] = "destroyed" => conn[c].home = m /\ conn[c].state = "Connecting"
    BY <1>3, <2>1 DEF FunctorOK
  <2>5. QED
    BY <1>3, <1>5, <1>6, <2>1, <2>2, <2>3, <2>4 DEF FunctorOK, Open
<1>14. \A m \in Loops : ~ActiveOK(m, c) /\ ~ReadingOK(m, c)
  BY <1>3 DEF ActiveOK, ReadingOK, Open, Past
<1>15. Core'
  <2>1. Fewer \/ \E t \in Loops, g \in Functors : OneMore(t, g) /\ FunctorOK(t, g)'
    BY <1>1, <1>9, <1>11
  <2>2. \A m \in Loops : reading'[m] = reading[m]
    OBVIOUS
  <2>3. QED
    BY <1>5, <1>7, <1>8, <1>9, <1>12, <1>13, <1>14, <2>1, <2>2, LifeStep
<1>16. NetTypes'
  <2>1. conn' \in [Conns -> ConnType] /\ \A d \in Conns : SameRequests(conn[d], conn'[d])
    BY <1>1, <1>5, <1>6 DEF SameRequests
  <2>2. PoolTypes' /\ reading' \in [Loops -> Conns \cup {NoConn}] /\ plan' = plan
    BY DEF NetCore, NetTypes, PoolTypes, ServerTypes, poolVars
  <2>3. connCount' \in Nat
    BY <1>5 DEF NetCore, NetTypes, ServerTypes
  <2>4. QED
    BY <1>9, <2>1, <2>2, <2>3, TypesOfConns DEF NetCore
<1>17. QED
  BY <1>15, <1>16 DEF NetCore

LEMMA HandleAcceptKeeps ==
    ASSUME NetCore, HandleAccept
    PROVE  NetCore'
<1> DEFINE next == IF io = <<>> THEN Base ELSE io[nextIo]
           K(c) == [conn[c] EXCEPT !.state = "Connecting", !.home = next, !.listed = TRUE]
<1>1. /\ Handling(Base, Accept) /\ Base \in Loops /\ UNCHANGED <<poolVars, plan, reading>>
      /\ nextIo' = IF nextIo >= Len(io) THEN 1 ELSE nextIo + 1
      /\ io \in Seq(Loops)
  BY PlanTypes, ConnectionsAssumption DEF HandleAccept, NetCore, NetTypes, ServerTypes
<1>2. nextIo' \in Nat \ {0} /\ (io # <<>> => nextIo' <= Len(io))
  <2>1. Len(io) \in Nat /\ nextIo \in Nat \ {0} /\ (io # <<>> => Len(io) > 0)
    BY <1>1 DEF NetCore, NetTypes, ServerTypes
  <2>2. QED
    BY <1>1, <2>1
<1>3. PICK home \in Loops : home = next
  BY <1>1 DEF NetCore, NetTypes, ServerTypes
<1>4. PICK c \in Backlog :
         IF next = Base THEN Establish(Base, c, K(c))
         ELSE /\ conn' = [conn EXCEPT ![c] = K(c)] /\ QueueInLoop(next, <<"established", c>>, Base)
              /\ UNCHANGED <<connCount, aborted>>
  BY DEF HandleAccept
<1>5. /\ c \in Conns /\ conn[c].state = "none" /\ conn[c] \in ConnType /\ conn \in [Conns -> ConnType]
  BY <1>4 DEF Backlog, NetCore, NetTypes, ServerTypes
<1>6. PICK k :
         /\ k = K(c)
         /\ k \in ConnType /\ k.state = "Connecting" /\ k.home = home /\ k.listed
         /\ k.counted = conn[c].counted /\ k.registered = conn[c].registered /\ SameRequests(conn[c], k)
  <2> DEFINE j == [conn[c] EXCEPT !.state = "Connecting", !.home = home, !.listed = TRUE]
  <2> HIDE DEF next
  <2>1. /\ j \in ConnType /\ j.state = "Connecting" /\ j.home = home /\ j.listed
        /\ j.counted = conn[c].counted /\ j.registered = conn[c].registered /\ SameRequests(conn[c], j)
    BY <1>5 DEF ConnType, States, SameRequests
  <2>2. j = K(c)
    BY <1>3
  <2> HIDE DEF j, K
  <2>3. QED
    BY <2>1, <2>2
<1> HIDE DEF K, next
<1>7. CASE home = Base
  <2>1. Establish(Base, c, k)
    BY <1>3, <1>4, <1>6, <1>7
  <2>2. QED
    BY <1>1, <1>2, <1>5, <1>6, <1>7, <2>1, EstablishKeeps
<1>8. CASE home # Base
  <2> DEFINE f == <<"established", c>>
  <2>1. conn' = [conn EXCEPT ![c] = k] /\ QueueInLoop(home, f, Base) /\ UNCHANGED <<connCount, aborted>>
    BY <1>3, <1>4, <1>6, <1>8
  <2>2. f \in Functors /\ f[1] = "established" /\ f[2] = c
    BY <1>5, PlainFunctor DEF Plain
  <2> HIDE DEF f
  <2>3. conn'[c] = k /\ \A d \in Conns \ {c} : conn'[d] = conn[d]
    BY <1>5, <2>1
  <2>4. ~In(f, Queue(home))
    BY <1>3, <1>5, <2>2 DEF NetCore, Core, AllFunctors, FunctorOK
  <2>5. /\ at' = at /\ \A m \in Loops : active'[m] \subseteq active[m]
        /\ AllDistinct' /\ OneMore(home, f) /\ LoopTypes'
    BY <1>1, <1>3, <2>1, <2>2, <2>4, HandledQueues
  <2>6. FunctorOK(home, f)'
    BY <1>6, <2>2, <2>3 DEF FunctorOK
  <2>7. LifeOK(c)'
    <3>1. ~conn[c].registered /\ ~conn[c].counted
      BY <1>5 DEF NetCore, Core, AllLife, LifeOK, Open
    <3>2. QED
      BY <1>3, <1>6, <2>3, <3>1 DEF LifeOK, Open
  <2>8. \A m \in Loops : ~ActiveOK(m, c) /\ ~ReadingOK(m, c)
    BY <1>5 DEF ActiveOK, ReadingOK, Open, Past
  <2>9. \A m \in Loops, g \in Functors : g[2] = c /\ FunctorOK(m, g) => FunctorOK(m, g)'
    <3>1. SUFFICES ASSUME NEW m \in Loops, NEW g \in Functors, g[2] = c, FunctorOK(m, g)
                   PROVE  FunctorOK(m, g)'
      OBVIOUS
    <3>2. g[1] \notin {"established", "forceClose", "destroyed", "remove"}
      BY <1>5, <3>1 DEF FunctorOK, Past
    <3>3. QED
      BY <3>2 DEF FunctorOK
  <2>10. CountOK' /\ ~aborted'
    <3>1. \A d \in Conns : conn'[d].counted = conn[d].counted
      BY <1>6, <2>3
    <3>2. QED
      BY <2>1, <3>1, CountSame DEF NetCore, Core
  <2>11. Core'
    <3>1. \E t \in Loops, g \in Functors : OneMore(t, g) /\ FunctorOK(t, g)'
      BY <1>3, <2>2, <2>5, <2>6
    <3>2. \A m \in Loops : reading'[m] = reading[m]
      BY <1>1
    <3>3. QED
      BY <1>5, <2>1, <2>5, <2>7, <2>8, <2>9, <2>10, <3>1, <3>2, LifeStep
  <2>12. NetTypes'
    <3>1. conn' \in [Conns -> ConnType] /\ \A d \in Conns : SameRequests(conn[d], conn'[d])
      BY <1>5, <1>6, <2>1, <2>3 DEF SameRequests
    <3>2. PoolTypes' /\ reading' \in [Loops -> Conns \cup {NoConn}] /\ connCount' \in Nat /\ plan' = plan
      BY <1>1, <2>1 DEF NetCore, NetTypes, PoolTypes, ServerTypes, poolVars
    <3>3. QED
      BY <1>2, <2>5, <3>1, <3>2, TypesOfConns DEF NetCore
  <2>13. QED
    BY <2>11, <2>12 DEF NetCore
<1>9. QED
  BY <1>7, <1>8

LEMMA AcceptFailsKeeps ==
    ASSUME NetCore, AcceptFails
    PROVE  NetCore'
<1>1. PICK c \in Backlog : conn' = [conn EXCEPT ![c] = NewConn]
  BY DEF AcceptFails
<1>2. /\ Handling(Base, Accept) /\ QueueNothing /\ Base \in Loops
      /\ UNCHANGED <<poolVars, reading, connCount, aborted, plan, nextIo>>
  BY ConnectionsAssumption DEF AcceptFails, SameServer
<1>3. /\ c \in Conns /\ conn[c].state = "none" /\ conn[c] \in ConnType /\ conn \in [Conns -> ConnType]
  BY <1>1 DEF Backlog, NetCore, NetTypes, ServerTypes
<1>4. /\ NewConn \in ConnType /\ NewConn.state = "none" /\ ~NewConn.registered /\ ~NewConn.counted
      /\ ~NewConn.listed /\ NewConn.asked = 0 /\ NewConn.lines = 0 /\ NewConn.inbox = 0 /\ NewConn.sent = 0
  <2>1. <<>> \in Chunks /\ <<>> \in Seq(Nat)
    BY DEF Chunks
  <2>2. QED
    BY <2>1 DEF NewConn, ConnType, States
<1>5. conn'[c] = NewConn /\ \A d \in Conns \ {c} : conn'[d] = conn[d]
  BY <1>1, <1>3
<1>6. /\ at' = at /\ \A m \in Loops : active'[m] \subseteq active[m]
      /\ AllDistinct' /\ Fewer /\ LoopTypes'
  BY <1>2, HandledQueues
<1>7. LifeOK(c)' /\ ~conn[c].counted
  <2>1. ~conn[c].counted
    BY <1>3 DEF NetCore, Core, AllLife, LifeOK, Open
  <2>2. QED
    BY <1>4, <1>5, <2>1 DEF LifeOK, Open
<1>8. \A m \in Loops : ~ActiveOK(m, c) /\ ~ReadingOK(m, c)
  BY <1>3 DEF ActiveOK, ReadingOK, Open, Past
<1>9. \A m \in Loops, g \in Functors : g[2] = c /\ FunctorOK(m, g) => FunctorOK(m, g)'
  <2>1. SUFFICES ASSUME NEW m \in Loops, NEW g \in Functors, g[2] = c, FunctorOK(m, g)
                 PROVE  FunctorOK(m, g)'
    OBVIOUS
  <2>2. g[1] \notin {"established", "forceClose", "destroyed", "remove"}
    BY <1>3, <2>1 DEF FunctorOK, Past
  <2>3. QED
    BY <2>2 DEF FunctorOK
<1>10. CountOK' /\ ~aborted'
  <2>1. conn'[c].counted = conn[c].counted
    BY <1>3, <1>4, <1>5, <1>7 DEF ConnType
  <2>2. \A d \in Conns : conn'[d].counted = conn[d].counted
    BY <1>5, <2>1
  <2>3. QED
    BY <1>2, <2>2, CountSame DEF NetCore, Core
<1>11. Core'
  <2>1. \A m \in Loops : reading'[m] = reading[m]
    BY <1>2
  <2>2. QED
    BY <1>1, <1>3, <1>6, <1>7, <1>8, <1>9, <1>10, <2>1, LifeStep
<1>12. AllRequests'
  <2>1. plan.requests \in Nat /\ plan' = plan
    BY <1>2, PlanTypes DEF NetCore, NetTypes, ServerTypes
  <2>2. QED
    BY <1>4, <1>5, <2>1 DEF NetCore, NetTypes, AllRequests, RequestsOK
<1>13. NetTypes'
  <2>1. conn' \in [Conns -> ConnType]
    BY <1>1, <1>3, <1>4
  <2>2. PoolTypes' /\ ServerTypes'
    BY <1>2, <2>1 DEF NetCore, NetTypes, PoolTypes, ServerTypes, poolVars, io
  <2>3. QED
    BY <1>6, <1>12, <2>2 DEF NetTypes
<1>14. QED
  BY <1>11, <1>13 DEF NetCore

LEMMA HandleReadKeeps ==
    ASSUME NetCore, NEW l \in Loops, NEW c \in Conns, HandleRead(l, c)
    PROVE  NetCore'
<1>1. /\ Handling(l, <<c, "in">>) /\ reading[l] = NoConn /\ UNCHANGED <<poolVars, plan, nextIo>>
      /\ conn[c] \in ConnType /\ conn \in [Conns -> ConnType] /\ RequestsOK(conn[c])
      /\ plan.requests \in Nat
  BY PlanTypes DEF HandleRead, SameServer, NetCore, NetTypes, ServerTypes, AllRequests
<1>2. ActiveOK(l, c) /\ at[l] = "events" /\ at' = at /\ <<c, "in">> \notin active'[l]
  BY <1>1 DEF Handling, NetCore, NetTypes, LoopTypes, Core, AllActive
<1>3. CASE HandleClose(l, c) /\ UNCHANGED reading
  BY <1>1, <1>2, <1>3, HandleCloseKeeps
<1>4. ASSUME NEW j \in ConnType, conn' = [conn EXCEPT ![c] = j], SameLife(conn[c], j), RequestsOK(j),
             QueueNothing, UNCHANGED <<connCount, aborted>>,
             \A k \in Loops : reading'[k] = reading[k] \/ (k = l /\ reading'[k] = c),
             reading' \in [Loops -> Conns \cup {NoConn}]
      PROVE  NetCore'
  <2>1. Unharmed /\ conn' \in [Conns -> ConnType]
    BY <1>1, <1>4 DEF Unharmed, SameLife
  <2>2. \A k \in Loops, d \in Conns :
            reading'[k] = d => at'[k] = "events" /\ (reading[k] = d \/ ReadingOK(k, d)')
    <3>1. ReadingOK(l, c)'
      BY <1>1, <1>2, <1>4 DEF ReadingOK, ActiveOK, SameLife, Open, Past
    <3>2. QED
      BY <1>2, <1>4, <3>1 DEF NetCore, Core, AllReading
  <2>3. LoopTypes' /\ Core'
    BY <1>1, <1>4, <2>1, <2>2, HandlingCore
  <2>4. AllRequests'
    BY <1>1, <1>4 DEF NetCore, NetTypes, AllRequests, RequestsOK
  <2>5. NetTypes'
    BY <1>1, <1>4, <2>1, <2>3, <2>4 DEF NetCore, NetTypes, PoolTypes, ServerTypes, poolVars, io
  <2>6. QED
    BY <2>3, <2>5 DEF NetCore
<1>5. CASE /\ conn' = [conn EXCEPT ![c].lines = @ + conn[c].inbox, ![c].inbox = 0]
           /\ reading' = [reading EXCEPT ![l] = c]
           /\ QueueNothing /\ UNCHANGED <<connCount, aborted>>
  <2> DEFINE j == [conn[c] EXCEPT !.lines = @ + conn[c].inbox, !.inbox = 0]
  <2>1. conn' = [conn EXCEPT ![c] = j]
    BY <1>1, <1>5
  <2>2. j \in ConnType /\ SameLife(conn[c], j)
    <3>1. PICK n \in Nat : n = conn[c].lines + conn[c].inbox
      BY <1>1 DEF ConnType
    <3>2. j = [conn[c] EXCEPT !.lines = n, !.inbox = 0]
      BY <1>1, <3>1 DEF ConnType
    <3> HIDE DEF j
    <3>3. QED
      BY <1>1, <3>2 DEF ConnType, SameLife
  <2>3. RequestsOK(j)
    <3>1. /\ j.lines = conn[c].lines + conn[c].inbox /\ j.inbox = 0 /\ j.sent = conn[c].sent
          /\ j.asked = conn[c].asked /\ conn[c].lines \in Nat /\ conn[c].inbox \in Nat /\ conn[c].sent \in Nat
          /\ conn[c].asked \in Nat
      BY <1>1 DEF ConnType
    <3>2. QED
      BY <1>1, <3>1 DEF RequestsOK
  <2>4. /\ reading' \in [Loops -> Conns \cup {NoConn}]
        /\ \A k \in Loops : reading'[k] = reading[k] \/ (k = l /\ reading'[k] = c)
    BY <1>5 DEF NetCore, NetTypes, ServerTypes
  <2> HIDE DEF j
  <2>5. QED
    BY <1>4, <1>5, <2>1, <2>2, <2>3, <2>4
<1>6. CASE /\ conn' = [conn EXCEPT ![c].peer = "gone", ![c].inbox = 0]
           /\ QueueNothing /\ UNCHANGED <<reading, connCount, aborted>>
  <2> DEFINE j == [conn[c] EXCEPT !.peer = "gone", !.inbox = 0]
  <2>1. conn' = [conn EXCEPT ![c] = j]
    BY <1>1, <1>6
  <2>2. j \in ConnType /\ SameLife(conn[c], j)
    BY <1>1 DEF ConnType, SameLife
  <2>3. RequestsOK(j)
    BY <1>1 DEF RequestsOK, ConnType
  <2>4. /\ reading' \in [Loops -> Conns \cup {NoConn}]
        /\ \A k \in Loops : reading'[k] = reading[k]
    BY <1>6 DEF NetCore, NetTypes, ServerTypes
  <2> HIDE DEF j
  <2>5. QED
    BY <1>4, <1>6, <2>1, <2>2, <2>3, <2>4
<1>7. QED
  BY <1>3, <1>5, <1>6 DEF HandleRead

LEMMA EndOfLinesKeeps ==
    ASSUME NetCore, NEW l \in Loops, EndOfLines(l)
    PROVE  NetCore'
<1>1. PICK c \in Conns : c = reading[l]
  BY ReadingConn DEF EndOfLines
<1>2. /\ at[l] = "events" /\ ReadingOK(l, c) /\ conn \in [Conns -> ConnType] /\ conn[c] \in ConnType
      /\ reading' = [reading EXCEPT ![l] = NoConn]
      /\ UNCHANGED <<at, active, batch, quit, waking, poolVars, connCount, aborted, plan, nextIo>>
      /\ reading' \in [Loops -> Conns \cup {NoConn}]
      /\ \A m \in Loops : reading'[m] = reading[m] \/ reading'[m] = NoConn
  BY <1>1, ReadingConn DEF EndOfLines, SameServer, NetCore, NetTypes, ServerTypes
<1>3. CASE UNCHANGED conn /\ QueueNothing
  <2>1. AllDistinct' /\ Fewer
    BY <1>2, <1>3, QueueSame DEF QueueNothing, NetCore, NetTypes, Core
  <2>2. /\ OutStays /\ Unharmed
        /\ \A k \in Loops, d \in Conns :
              reading'[k] = d => at'[k] = "events" /\ (reading[k] = d \/ ReadingOK(k, d)')
    BY <1>2, <1>3, ConnectionsAssumption DEF OutStays, Unharmed, SameLife, NetCore, Core, AllReading
  <2>3. Core'
    BY <1>2, <1>3, <2>1, <2>2, CoreTraffic DEF NetCore, NetTypes
  <2>4. NetTypes'
    BY <1>2, <1>3 DEF NetCore, NetTypes, LoopTypes, PoolTypes, ServerTypes, AllRequests, RequestsOK,
                      poolVars, io, QueueNothing
  <2>5. QED
    BY <2>3, <2>4 DEF NetCore
<1>4. CASE /\ conn[c].state \in Open /\ QueueInLoop(l, <<"forceClose", c>>, l)
           /\ \E j \in Send(conn[c], 0) : conn' = [conn EXCEPT ![c] = [j EXCEPT !.state = "Disconnecting"]]
  <2> DEFINE f == <<"forceClose", c>>
  <2>1. f \in Functors /\ f[1] = "forceClose" /\ f[2] = c /\ QueueInLoop(l, f, l)
    BY <1>4, PlainFunctor DEF Plain
  <2> HIDE DEF f
  <2>2. PICK j \in ConnType :
           /\ conn' = [conn EXCEPT ![c] = j] /\ j.state = "Disconnecting" /\ SameRequests(conn[c], j)
           /\ j.home = l /\ j.listed = conn[c].listed /\ j.counted = conn[c].counted
    <3>1. PICK b \in Send(conn[c], 0) : conn' = [conn EXCEPT ![c] = [b EXCEPT !.state = "Disconnecting"]]
      BY <1>4
    <3>2. b \in ConnType /\ SameLife(conn[c], b) /\ SameRequests(conn[c], b)
      BY <1>2, <3>1, SendTypes
    <3> DEFINE j == [b EXCEPT !.state = "Disconnecting"]
    <3>3. /\ j \in ConnType /\ j.state = "Disconnecting" /\ j.home = b.home /\ j.listed = b.listed
          /\ j.counted = b.counted /\ SameRequests(b, j)
      BY <3>2 DEF ConnType, States, SameRequests
    <3>4. conn' = [conn EXCEPT ![c] = j]
      BY <3>1
    <3> HIDE DEF j
    <3>5. QED
      BY <1>2, <3>2, <3>3, <3>4 DEF SameLife, SameRequests, ReadingOK
  <2>3. conn'[c] = j /\ \A d \in Conns \ {c} : conn'[d] = conn[d]
    BY <1>2, <2>2
  <2>4. AllDistinct' /\ OneMore(l, f)
    <3>1. pending' = [pending EXCEPT ![l] = Append(@, f)]
      BY <2>1 DEF QueueInLoop
    <3>2. QED
      BY <1>2, <2>1, <3>1, QueuePut DEF Once, NetCore, NetTypes, Core
  <2>5. FunctorOK(l, f)'
    BY <2>1, <2>2, <2>3 DEF FunctorOK, Past
  <2>6. LifeOK(c)'
    <3>1. LifeOK(c)
      BY DEF NetCore, Core, AllLife
    <3>2. QED
      BY <1>2, <1>4, <2>2, <2>3, <3>1 DEF LifeOK, Open
  <2>7. \A m \in Loops : (ActiveOK(m, c) => ActiveOK(m, c)') /\ (ReadingOK(m, c) => ReadingOK(m, c)')
    BY <1>2, <2>2, <2>3 DEF ActiveOK, ReadingOK, Open, Past
  <2>8. \A m \in Loops, g \in Functors : g[2] = c /\ FunctorOK(m, g) => FunctorOK(m, g)'
    <3>1. SUFFICES ASSUME NEW m \in Loops, NEW g \in Functors, g[2] = c, FunctorOK(m, g)
                   PROVE  FunctorOK(m, g)'
      OBVIOUS
    <3>2. g[1] # "established" /\ g[1] # "remove" /\ conn[c].home = l
      BY <1>2, <1>4, <3>1 DEF FunctorOK, ReadingOK, Open
    <3>3. QED
      BY <2>2, <2>3, <3>1, <3>2 DEF FunctorOK, Past
  <2>9. CountOK' /\ ~aborted'
    <3>1. \A d \in Conns : conn'[d].counted = conn[d].counted
      BY <2>2, <2>3
    <3>2. QED
      BY <1>2, <3>1, CountSame DEF NetCore, Core
  <2>10. Core'
    <3>1. \E t \in Loops, g \in Functors : OneMore(t, g) /\ FunctorOK(t, g)'
      BY <2>1, <2>4, <2>5
    <3>2. \A m \in Loops : active'[m] \subseteq active[m]
      BY <1>2
    <3>3. QED
      BY <1>2, <2>2, <2>4, <2>6, <2>7, <2>8, <2>9, <3>1, <3>2, LifeStep
  <2>11. LoopTypes'
    <3>1. pending' \in [Loops -> Seq(Functors)] /\ eventfd' \in [Loops -> BOOLEAN]
      BY <2>1, QueueInLoopTypes DEF NetCore, NetTypes
    <3>2. QED
      BY <1>2, <3>1 DEF NetCore, NetTypes, LoopTypes
  <2>12. NetTypes'
    <3>1. conn' \in [Conns -> ConnType] /\ \A d \in Conns : SameRequests(conn[d], conn'[d])
      BY <1>2, <2>2, <2>3 DEF SameRequests
    <3>2. PoolTypes' /\ connCount' \in Nat
      BY <1>2 DEF NetCore, NetTypes, PoolTypes, ServerTypes, poolVars
    <3>3. QED
      BY <1>2, <2>11, <3>1, <3>2, TypesOfConns DEF NetCore, NetTypes, ServerTypes
  <2>13. QED
    BY <2>10, <2>12 DEF NetCore
<1>5. QED
  BY <1>1, <1>3, <1>4 DEF EndOfLines, Open

-----------------------------------------------------------------------------
(* The functors, and the destructor of the server.                         *)

\* What a functor that runs knows of its connection.
LEMMA FunctorRuns ==
    ASSUME NetCore, NEW l \in Loops, Running(l)
    PROVE  LET h == Head(batch[l])
           IN /\ h \in Functors /\ h[2] \in Conns /\ In(h, Queue(l)) /\ FunctorOK(l, h)
              /\ conn[h[2]] \in ConnType /\ conn \in [Conns -> ConnType]
              /\ at[l] = "functors" /\ \A c \in Conns : <<c, "in">> \notin active'[l]
<1>1. Head(batch[l]) \in Functors /\ In(Head(batch[l]), Queue(l))
  BY QueueRun DEF NetCore, NetTypes, Core
<1>2. FunctorOK(l, Head(batch[l])) /\ Head(batch[l])[2] \in Conns
  BY <1>1, FunctorFields DEF NetCore, Core, AllFunctors
<1>3. /\ conn[Head(batch[l])[2]] \in ConnType /\ conn \in [Conns -> ConnType]
      /\ at[l] = "functors" /\ \A c \in Conns : <<c, "in">> \notin active'[l]
  BY <1>2 DEF Running, NetCore, NetTypes, ServerTypes, LoopTypes
<1>4. QED
  BY <1>1, <1>2, <1>3

\* A functor that changes nothing of the life of a connection, or nothing.
LEMMA RunTraffic ==
    ASSUME NetCore, NEW l \in Loops, Running(l), QueueNothing,
           conn' \in [Conns -> ConnType],
           \A d \in Conns : SameLife(conn[d], conn'[d]) /\ SameRequests(conn[d], conn'[d]),
           UNCHANGED <<poolVars, reading, connCount, aborted, plan, nextIo>>
    PROVE  NetCore'
<1>1. LoopTypes' /\ Core'
  BY RunningCore DEF Unharmed
<1>2. /\ PoolTypes' /\ connCount' \in Nat /\ nextIo' \in Nat \ {0} /\ (io # <<>> => nextIo' <= Len(io))
      /\ reading' \in [Loops -> Conns \cup {NoConn}]
  BY DEF NetCore, NetTypes, PoolTypes, ServerTypes, poolVars
<1>3. NetTypes'
  BY <1>1, <1>2, TypesOfConns DEF NetCore
<1>4. QED
  BY <1>1, <1>3 DEF NetCore

LEMMA RunEstablishedKeeps ==
    ASSUME NetCore, NEW l \in Loops, RunEstablished(l)
    PROVE  NetCore'
<1>1. PICK c : c = Head(batch[l])[2]
  OBVIOUS
<1>2. /\ Running(l) /\ Establish(l, c, conn[c]) /\ Head(batch[l])[1] = "established"
      /\ UNCHANGED <<poolVars, reading, plan, nextIo>>
  BY <1>1 DEF RunEstablished, Functor, SameServer
<1>3. /\ c \in Conns /\ conn[c] \in ConnType /\ FunctorOK(l, Head(batch[l])) /\ Head(batch[l]) \in Functors
  BY <1>1, <1>2, FunctorRuns
<1>4. Head(batch[l]) = <<"established", c>>
  BY <1>1, <1>2, <1>3 DEF Functors
<1>5. conn[c].state = "Connecting" /\ conn[c].home = l
  BY <1>1, <1>2, <1>3 DEF FunctorOK
<1>6. conn[c].listed \/ at[Base] = "out"
  BY <1>3, <1>5 DEF NetCore, Core, AllLife, LifeOK
<1>7. nextIo' \in Nat \ {0} /\ (io # <<>> => nextIo' <= Len(io))
  BY <1>2 DEF NetCore, NetTypes, ServerTypes
<1>8. PICK k \in ConnType : k = conn[c]
  BY <1>3
<1>9. SameRequests(conn[c], k)
  BY <1>8 DEF SameRequests
<1>10. QED
  BY <1>2, <1>3, <1>4, <1>5, <1>6, <1>7, <1>8, <1>9, EstablishKeeps

LEMMA RunForceCloseKeeps ==
    ASSUME NetCore, NEW l \in Loops, RunForceClose(l)
    PROVE  NetCore'
<1>1. PICK c : c = Head(batch[l])[2]
  OBVIOUS
<1>2. /\ Running(l) /\ ForceCloseInLoop(l, c) /\ Head(batch[l])[1] = "forceClose"
      /\ UNCHANGED <<poolVars, reading, plan, nextIo>>
  BY <1>1 DEF RunForceClose, Functor, SameServer
<1>3. /\ c \in Conns /\ FunctorOK(l, Head(batch[l])) /\ conn \in [Conns -> ConnType]
      /\ <<c, "in">> \notin active'[l]
  BY <1>1, <1>2, FunctorRuns
<1>4. CASE conn[c].state \in Open
  <2>1. HandleClose(l, c)
    BY <1>2, <1>4 DEF ForceCloseInLoop, Open
  <2>2. ActiveOK(l, c)
    BY <1>1, <1>2, <1>3, <1>4 DEF FunctorOK, ActiveOK
  <2>3. QED
    BY <1>2, <1>3, <2>1, <2>2, HandleCloseKeeps
<1>5. CASE conn[c].state \notin Open
  <2>1. UNCHANGED <<conn, connCount, aborted>> /\ QueueNothing
    BY <1>2, <1>5 DEF ForceCloseInLoop, Open, QueueNothing
  <2>2. /\ conn' \in [Conns -> ConnType]
        /\ \A d \in Conns : SameLife(conn[d], conn'[d]) /\ SameRequests(conn[d], conn'[d])
    BY <1>3, <2>1 DEF SameLife, SameRequests
  <2>3. QED
    BY <1>2, <2>1, <2>2, RunTraffic
<1>6. QED
  BY <1>4, <1>5

LEMMA RunSendKeeps ==
    ASSUME NetCore, NEW l \in Loops, RunSend(l)
    PROVE  NetCore'
<1>1. PICK c, m : c = Head(batch[l])[2] /\ m = Head(batch[l])[3]
  OBVIOUS
<1>2. /\ Running(l) /\ QueueNothing /\ Head(batch[l])[1] = "send"
      /\ UNCHANGED <<poolVars, reading, connCount, aborted, plan, nextIo>>
      /\ \E j \in SendInLoop(conn[c], m) : conn' = [conn EXCEPT ![c] = j]
  BY <1>1 DEF RunSend, Functor, SameServer
<1>3. /\ c \in Conns /\ conn[c] \in ConnType /\ conn \in [Conns -> ConnType] /\ m \in Nat
  <2>1. c \in Conns /\ conn[c] \in ConnType /\ conn \in [Conns -> ConnType] /\ Head(batch[l]) \in Functors
    BY <1>1, <1>2, FunctorRuns
  <2>2. QED
    BY <1>1, <1>2, <2>1, FunctorFields DEF Functors, Plain
<1>4. PICK j \in ConnType : /\ conn' = [conn EXCEPT ![c] = j]
                            /\ SameLife(conn[c], j) /\ SameRequests(conn[c], j)
  BY <1>2, <1>3, SendTypes
<1>5. /\ conn' \in [Conns -> ConnType]
      /\ \A d \in Conns : SameLife(conn[d], conn'[d]) /\ SameRequests(conn[d], conn'[d])
  BY <1>3, <1>4 DEF SameLife, SameRequests
<1>6. QED
  BY <1>2, <1>5, RunTraffic

LEMMA RunReleaseKeeps ==
    ASSUME NetCore, NEW l \in Loops, RunRelease(l)
    PROVE  NetCore'
<1>1. Running(l) /\ QueueNothing /\ UNCHANGED <<poolVars, conn, reading, connCount, aborted, plan, nextIo>>
  BY DEF RunRelease, SameServer
<1>2. /\ conn' \in [Conns -> ConnType]
      /\ \A d \in Conns : SameLife(conn[d], conn'[d]) /\ SameRequests(conn[d], conn'[d])
  BY <1>1 DEF SameLife, SameRequests, NetCore, NetTypes, ServerTypes
<1>3. QED
  BY <1>1, <1>2, RunTraffic

\* The connection c is taken from the map, and a functor f about it is queued.
LEMMA UnlistKeeps ==
    ASSUME NetCore, NEW l \in Loops, NEW c \in Conns, NEW t \in Loops, NEW f \in Functors,
           conn' = [conn EXCEPT ![c].listed = FALSE], f[2] = c,
           conn[c].state \in Open \cup {"Connecting"} => at[Base] = "out",
           conn[c].state # "none", conn[c].home = t,
           f[1] \in {"destroyed", "release"},
           AllDistinct', OneMore(t, f), LoopTypes', at' = at,
           \A m \in Loops : active'[m] \subseteq active[m],
           \A m \in Loops : In(<<"remove", c>>, Queue(m)') => at[Base] = "out",
           UNCHANGED <<poolVars, reading, connCount, plan, nextIo>>, ~aborted'
    PROVE  NetCore'
<1>1. PICK j \in ConnType :
         /\ conn' = [conn EXCEPT ![c] = j] /\ j.state = conn[c].state /\ j.home = t /\ ~j.listed
         /\ j.counted = conn[c].counted /\ j.registered = conn[c].registered /\ SameRequests(conn[c], j)
  <2> DEFINE j == [conn[c] EXCEPT !.listed = FALSE]
  <2>1. conn[c] \in ConnType /\ conn' = [conn EXCEPT ![c] = j]
    BY DEF NetCore, NetTypes, ServerTypes
  <2>2. /\ j \in ConnType /\ j.state = conn[c].state /\ j.home = t /\ ~j.listed
        /\ j.counted = conn[c].counted /\ j.registered = conn[c].registered /\ SameRequests(conn[c], j)
    BY <2>1 DEF ConnType, SameRequests
  <2> HIDE DEF j
  <2>3. QED
    BY <2>1, <2>2
<1>2. conn'[c] = j /\ \A d \in Conns \ {c} : conn'[d] = conn[d]
  BY <1>1 DEF NetCore, NetTypes, ServerTypes
<1>3. FunctorOK(t, f)'
  BY <1>1, <1>2 DEF FunctorOK
<1>4. LifeOK(c)'
  <2>1. LifeOK(c)
    BY DEF NetCore, Core, AllLife
  <2>2. QED
    BY <1>1, <1>2, <2>1 DEF LifeOK
<1>5. \A m \in Loops : (ActiveOK(m, c) => ActiveOK(m, c)') /\ (ReadingOK(m, c) => ReadingOK(m, c)')
  BY <1>1, <1>2 DEF ActiveOK, ReadingOK
<1>6. \A m \in Loops, g \in Functors :
          g[2] = c /\ FunctorOK(m, g) /\ In(g, Queue(m)) /\ In(g, Queue(m)') => FunctorOK(m, g)'
  <2>1. SUFFICES ASSUME NEW m \in Loops, NEW g \in Functors, g[2] = c, FunctorOK(m, g), In(g, Queue(m)')
                 PROVE  FunctorOK(m, g)'
    OBVIOUS
  <2>2. g[1] = "remove" => at'[Base] = "out"
    <3>1. SUFFICES ASSUME g[1] = "remove" PROVE at[Base] = "out"
      OBVIOUS
    <3>2. g = <<"remove", c>>
      BY <2>1, <3>1 DEF Functors
    <3>3. QED
      BY <2>1, <3>2
  <2>3. QED
    BY <1>1, <1>2, <2>1, <2>2 DEF FunctorOK
<1>7. CountOK'
  <2>1. \A d \in Conns : conn'[d].counted = conn[d].counted
    BY <1>1, <1>2
  <2>2. QED
    BY <2>1, CountSame DEF NetCore, Core
<1>8. Core'
  <2>1. \E s \in Loops, g \in Functors : OneMore(s, g) /\ FunctorOK(s, g)'
    BY <1>3
  <2>2. \A m \in Loops : reading'[m] = reading[m]
    OBVIOUS
  <2>3. QED
    BY <1>1, <1>4, <1>5, <1>6, <1>7, <2>1, <2>2, LifeStep
<1>9. NetTypes'
  <2>1. conn' \in [Conns -> ConnType] /\ \A d \in Conns : SameRequests(conn[d], conn'[d])
    BY <1>1, <1>2 DEF SameRequests, NetCore, NetTypes, ServerTypes
  <2>2. /\ PoolTypes' /\ connCount' \in Nat /\ nextIo' \in Nat \ {0} /\ (io # <<>> => nextIo' <= Len(io))
        /\ reading' \in [Loops -> Conns \cup {NoConn}]
    BY DEF NetCore, NetTypes, PoolTypes, ServerTypes, poolVars
  <2>3. QED
    BY <2>1, <2>2, TypesOfConns DEF NetCore
<1>10. QED
  BY <1>8, <1>9 DEF NetCore

LEMMA RunRemoveKeeps ==
    ASSUME NetCore, NEW l \in Loops, RunRemove(l)
    PROVE  NetCore'
<1>1. PICK c, t : c = Head(batch[l])[2] /\ t = conn[c].home
  OBVIOUS
<1> DEFINE f == <<"release", c>>
           h == <<"remove", c>>
<1>2. /\ Running(l) /\ Head(batch[l])[1] = "remove" /\ conn' = [conn EXCEPT ![c].listed = FALSE]
      /\ QueueInLoop(t, f, l) /\ Asserts(conn[c].listed)
      /\ UNCHANGED <<poolVars, reading, connCount, plan, nextIo>>
  BY <1>1 DEF RunRemove, Functor, SameServer
<1>3. /\ c \in Conns /\ conn[c] \in ConnType /\ FunctorOK(l, Head(batch[l])) /\ Head(batch[l]) \in Functors
      /\ at[l] = "functors" /\ In(Head(batch[l]), Queue(l))
  BY <1>1, <1>2, FunctorRuns
<1>4. /\ l = Base /\ conn[c].state = "Disconnected" /\ conn[c].listed
  BY <1>1, <1>2, <1>3 DEF FunctorOK
<1>5. ~aborted' /\ t \in Loops
  BY <1>1, <1>2, <1>3, <1>4 DEF Asserts, NetCore, Core, AllLife, LifeOK
<1>6. Head(batch[l]) = h /\ h \in Functors
  BY <1>1, <1>2, <1>3 DEF Functors
<1>7. f \in Functors /\ f[1] = "release" /\ f[2] = c /\ h[1] = "remove" /\ h[2] = c
  BY <1>3, PlainFunctor DEF Plain
<1> HIDE DEF f, h
<1>8. /\ at' = at /\ \A m \in Loops : active'[m] \subseteq active[m]
      /\ AllDistinct' /\ OneMore(t, f) /\ LoopTypes'
  BY <1>2, <1>5, <1>7, HandledQueues DEF Once
<1>9. \A m \in Loops : In(h, Queue(m)') => at[Base] = "out"
  <2>1. ~In(h, Queue(l)')
    <3>1. pending' = [pending EXCEPT ![t] = Append(@, f)] /\ h # f
      BY <1>2, <1>7 DEF QueueInLoop
    <3>2. QED
      BY <1>2, <1>5, <1>6, <1>7, <3>1, QueueRun DEF NetCore, NetTypes, Core, Once
  <2>2. SUFFICES ASSUME NEW m \in Loops, In(h, Queue(m)') PROVE FALSE
    OBVIOUS
  <2>3. In(h, Queue(m))
    BY <1>7, <1>8, <2>2 DEF OneMore
  <2>4. m = Base
    BY <1>6, <1>7, <2>3 DEF NetCore, Core, AllFunctors, FunctorOK
  <2>5. QED
    BY <1>4, <2>1, <2>2, <2>4
<1>10. QED
  BY <1>1, <1>2, <1>3, <1>4, <1>5, <1>7, <1>8, <1>9, UnlistKeeps DEF h, Open

LEMMA DestroyConnectionKeeps ==
    ASSUME NetCore, NEW c \in Conns, DestroyConnection(c)
    PROVE  NetCore'
<1>1. PICK t : t = conn[c].home
  OBVIOUS
<1> DEFINE f == <<"destroyed", c>>
<1>2. /\ at[Base] = "out" /\ conn[c].listed /\ conn' = [conn EXCEPT ![c].listed = FALSE]
      /\ QueueInLoop(t, f, Base)
      /\ UNCHANGED <<at, active, batch, quit, waking, poolVars, reading, connCount, aborted, plan, nextIo>>
  BY <1>1 DEF DestroyConnection, SameServer
<1>3. f \in Functors /\ f[1] = "destroyed" /\ f[2] = c
  BY PlainFunctor DEF Plain
<1> HIDE DEF f
<1>4. conn[c].state # "none" /\ t \in Loops /\ ~aborted'
  BY <1>1, <1>2 DEF NetCore, Core, AllLife, LifeOK
<1>5. pending' = [pending EXCEPT ![t] = Append(@, f)]
  BY <1>2 DEF QueueInLoop
<1>6. AllDistinct' /\ OneMore(t, f)
  BY <1>2, <1>3, <1>4, <1>5, QueuePut DEF Once, NetCore, NetTypes, Core
<1>7. LoopTypes'
  <2>1. pending' \in [Loops -> Seq(Functors)] /\ eventfd' \in [Loops -> BOOLEAN]
    BY <1>2, <1>3, <1>4, QueueInLoopTypes DEF NetCore, NetTypes
  <2>2. QED
    BY <1>2, <2>1 DEF NetCore, NetTypes, LoopTypes
<1>8. \A m \in Loops : active'[m] \subseteq active[m]
  BY <1>2
<1>9. QED
  BY <1>1, <1>2, <1>3, <1>4, <1>6, <1>7, <1>8, ConnectionsAssumption, UnlistKeeps

LEMMA RunDestroyedKeeps ==
    ASSUME NetCore, NEW l \in Loops, RunDestroyed(l)
    PROVE  NetCore'
<1>1. PICK c : c = Head(batch[l])[2]
  OBVIOUS
<1>2. /\ Running(l) /\ Head(batch[l])[1] = "destroyed" /\ QueueNothing
      /\ IF conn[c].state = "Connected" THEN Down(conn[c]) /\ conn' = [conn EXCEPT ![c] = Closed(@)]
         ELSE UNCHANGED <<conn, connCount>>
      /\ UNCHANGED <<poolVars, reading, aborted, plan, nextIo>>
  BY <1>1 DEF RunDestroyed, Functor, SameServer
<1>3. /\ c \in Conns /\ FunctorOK(l, Head(batch[l])) /\ conn[c] \in ConnType /\ conn \in [Conns -> ConnType]
      /\ <<c, "in">> \notin active'[l]
  BY <1>1, <1>2, FunctorRuns
<1>4. CASE conn[c].state # "Connected"
  <2>1. /\ conn' \in [Conns -> ConnType] /\ UNCHANGED <<connCount, aborted>>
        /\ \A d \in Conns : SameLife(conn[d], conn'[d]) /\ SameRequests(conn[d], conn'[d])
    BY <1>2, <1>3, <1>4 DEF SameLife, SameRequests
  <2>2. QED
    BY <1>2, <2>1, RunTraffic
<1>5. CASE conn[c].state = "Connected"
  <2>1. PICK j \in ConnType :
           /\ conn' = [conn EXCEPT ![c] = j] /\ j.state = "Disconnected" /\ ~j.registered /\ ~j.counted
           /\ j.home = conn[c].home /\ j.listed = conn[c].listed /\ SameRequests(conn[c], j)
    <3> DEFINE j == Closed(conn[c])
    <3>1. /\ j \in ConnType /\ j.state = "Disconnected" /\ ~j.registered /\ ~j.counted
          /\ j.home = conn[c].home /\ j.listed = conn[c].listed /\ SameRequests(conn[c], j)
      BY <1>3 DEF Closed, ConnType, States, SameRequests
    <3>2. conn' = [conn EXCEPT ![c] = j]
      BY <1>2, <1>3, <1>5
    <3> HIDE DEF j
    <3>3. QED
      BY <3>1, <3>2
  <2>2. conn'[c] = j /\ \A d \in Conns \ {c} : conn'[d] = conn[d]
    BY <1>3, <2>1
  <2>3. /\ at' = at /\ \A m \in Loops : active'[m] \subseteq active[m]
        /\ AllDistinct' /\ Fewer /\ LoopTypes'
    BY <1>2, HandledQueues
  <2>4. CountOK' /\ ~aborted'
    <3>1. CountOK /\ Down(conn[c]) /\ ~conn'[c].counted /\ \A d \in Conns \ {c} : conn'[d].counted = conn[d].counted
      BY <1>2, <1>5, <2>1, <2>2 DEF NetCore, Core
    <3>2. CountOK'
      BY <1>3, <3>1, CountDown
    <3>3. QED
      BY <1>2, <3>2 DEF NetCore, Core
  <2>5. LifeOK(c)'
    <3>1. LifeOK(c)
      BY <1>3 DEF NetCore, Core, AllLife
    <3>2. QED
      BY <1>5, <2>1, <2>2, <3>1 DEF LifeOK, Open
  <2>6. conn[c].home = l
    BY <1>1, <1>2, <1>3 DEF FunctorOK
  <2>7. \A m \in Loops : /\ ActiveOK(m, c) => <<c, "in">> \notin active'[m]
                         /\ ReadingOK(m, c) => ReadingOK(m, c)'
    BY <1>3, <2>1, <2>2, <2>6 DEF ActiveOK, ReadingOK, Past
  <2>8. \A m \in Loops, g \in Functors : g[2] = c /\ FunctorOK(m, g) => FunctorOK(m, g)'
    <3>1. SUFFICES ASSUME NEW m \in Loops, NEW g \in Functors, g[2] = c, FunctorOK(m, g)
                   PROVE  FunctorOK(m, g)'
      OBVIOUS
    <3>2. g[1] # "established" /\ g[1] # "remove"
      BY <1>5, <3>1 DEF FunctorOK
    <3>3. QED
      BY <2>1, <2>2, <3>1, <3>2 DEF FunctorOK, Past
  <2>9. Core'
    <3>1. \A m \in Loops : reading'[m] = reading[m]
      BY <1>2
    <3>2. QED
      BY <1>3, <2>1, <2>3, <2>4, <2>5, <2>7, <2>8, <3>1, LifeStep
  <2>10. NetTypes'
    <3>1. conn' \in [Conns -> ConnType] /\ \A d \in Conns : SameRequests(conn[d], conn'[d])
      BY <1>3, <2>1, <2>2 DEF SameRequests
    <3>2. /\ PoolTypes' /\ nextIo' \in Nat \ {0} /\ (io # <<>> => nextIo' <= Len(io))
          /\ reading' \in [Loops -> Conns \cup {NoConn}] /\ plan' = plan
      BY <1>2 DEF NetCore, NetTypes, PoolTypes, ServerTypes, poolVars
    <3>3. connCount' \in Nat
      <4>1. IsFiniteSet(CountedConns')
        BY FS_Subset, ConnectionsAssumption DEF CountedConns
      <4>2. QED
        BY <2>4, <4>1, FS_CardinalityType DEF CountOK
    <3>4. QED
      BY <2>3, <3>1, <3>2, <3>3, TypesOfConns DEF NetCore
  <2>11. QED
    BY <2>9, <2>10 DEF NetCore
<1>6. QED
  BY <1>4, <1>5

-----------------------------------------------------------------------------
(* The invariant holds, and what follows from it.                          *)

LEMMA NetInitCore == NetInit(NetSeeds) => NetCore
<1> SUFFICES ASSUME NetInit(NetSeeds) PROVE NetCore
  OBVIOUS
<1>1. /\ NewConn \in ConnType /\ NewConn.state = "none" /\ ~NewConn.registered /\ ~NewConn.counted
      /\ ~NewConn.listed /\ NewConn.asked = 0 /\ NewConn.lines = 0 /\ NewConn.inbox = 0 /\ NewConn.sent = 0
  <2>1. <<>> \in Chunks /\ <<>> \in Seq(Nat)
    BY DEF Chunks
  <2>2. QED
    BY <2>1 DEF NewConn, ConnType, States
<1>2. /\ \A c \in Conns : conn[c] = NewConn
      /\ plan \in NetSeeds /\ nextIo = 1 /\ connCount = 0 /\ ~aborted
      /\ conn \in [Conns -> ConnType] /\ reading = [l \in Loops |-> NoConn]
  BY <1>1 DEF NetInit
<1>3. LoopTypes
  BY ConnectionsAssumption DEF NetInit, LoopsInit, LoopTypes
<1>4. PoolTypes
  <2>1. Capacity \in Nat /\ <<>> \in Seq(Tasks)
    BY CapacityAssumption
  <2>2. tasks = <<>> /\ Len(tasks) = 0 /\ poolStop \in BOOLEAN
    BY DEF NetInit, PoolInit
  <2>3. hand \in [Workers -> Tasks \cup {NoTask}]
    BY DEF NetInit, PoolInit
  <2>4. QED
    BY <2>1, <2>2, <2>3 DEF PoolTypes
<1>5. ServerTypes /\ AllRequests
  <2>1. io \in Seq(Loops) /\ plan.requests \in Nat
    BY <1>2, PlanTypes
  <2>2. io # <<>> => 1 <= Len(io)
    BY <2>1
  <2>3. QED
    BY <1>1, <1>2, <2>1, <2>2 DEF ServerTypes, AllRequests, RequestsOK
<1>6. \A l \in Loops : Queue(l) = <<>> /\ active[l] = {} /\ reading[l] = NoConn
  <2>1. \A l \in Loops : batch[l] = <<>> /\ pending[l] = <<>> /\ active[l] = {} /\ reading[l] = NoConn
    BY <1>2 DEF NetInit, LoopsInit
  <2>2. QED
    BY <2>1 DEF Queue
<1>7. CountOK
  <2>1. CountedConns = {}
    BY <1>1, <1>2 DEF CountedConns
  <2>2. QED
    BY <1>2, <2>1, FS_EmptySet, ConnectionsAssumption DEF CountOK
<1>8. AllLife /\ AllActive /\ AllReading
  BY <1>1, <1>2, <1>6, ConnectionsAssumption DEF AllLife, LifeOK, Open, AllActive, AllReading
<1>9. AllFunctors /\ AllDistinct
  BY <1>6 DEF AllFunctors, AllDistinct, Distinct, In
<1>10. QED
  BY <1>2, <1>3, <1>4, <1>5, <1>7, <1>8, <1>9 DEF NetCore, NetTypes, Core

LEMMA LoopStepKeeps ==
    ASSUME NetCore, NEW l \in Loops, LoopStep(l)
    PROVE  NetCore'
<1>1. CASE LoopItself(l)
  <2>1. UNCHANGED <<poolVars, keptVars>>
    BY <1>1 DEF LoopItself, serverVars, keptVars
  <2>2. QED
    BY <1>1, <2>1, LoopMoveKeeps DEF LoopItself
<1>2. CASE PollChannels(l)
  BY <1>2, PollKeeps
<1>3. CASE HandleAccept \/ AcceptFails
  BY <1>3, HandleAcceptKeeps, AcceptFailsKeeps
<1>4. CASE \E c \in Conns : HandleRead(l, c) \/ HandleWrite(l, c)
  BY <1>4, HandleReadKeeps, HandleWriteKeeps
<1>5. CASE HandleLine(l) \/ EndOfLines(l)
  BY <1>5, HandleLineKeeps, EndOfLinesKeeps
<1>9. CASE EmptyLine(l) \/ LineThrows(l)
  <2>1. LineThrows(l) => UNCHANGED <<loopVars, poolVars, keptVars>>
    BY DEF LineThrows, Terminate, keptVars
  <2>2. QED
    BY <1>9, <2>1, EmptyLineKeeps, SameCore
<1>6. CASE RunEstablished(l) \/ RunForceClose(l) \/ RunSend(l)
  BY <1>6, RunEstablishedKeeps, RunForceCloseKeeps, RunSendKeeps
<1>7. CASE RunRemove(l) \/ RunRelease(l) \/ RunDestroyed(l)
  BY <1>7, RunRemoveKeeps, RunReleaseKeeps, RunDestroyedKeeps
<1>8. QED
  BY <1>1, <1>2, <1>3, <1>4, <1>5, <1>6, <1>7, <1>9 DEF LoopStep

LEMMA NetStepCore == NetCore /\ [NetNext]_netVars => NetCore'
<1> SUFFICES ASSUME NetCore, [NetNext]_netVars PROVE NetCore'
  OBVIOUS
<1>1. /\ RunningLoops \subseteq Loops /\ Base \in Loops
      /\ plan.workers \subseteq Workers /\ plan.clients \subseteq Conns
  BY PlanTypes DEF NetCore, NetTypes, ServerTypes
<1>2. CASE \E l \in RunningLoops : LoopStep(l)
  BY <1>1, <1>2, LoopStepKeeps
<1>3. ASSUME NEW w \in plan.workers, WorkerStep(w) PROVE NetCore'
  <2>1. TaskThrows(w) => UNCHANGED <<loopVars, poolVars, keptVars>>
    BY DEF TaskThrows, Terminate, keptVars
  <2>2. QED
    BY <1>1, <1>3, <2>1, TakeTaskKeeps, FinishTaskKeeps, WriteEventfdKeeps, SameCore DEF WorkerStep
<1>4. CASE \E c \in plan.clients : ClientStep(c) \/ DestroyConnection(c)
  BY <1>1, <1>4, ClientKeeps, DestroyConnectionKeeps
<1>5. CASE Signal
  <2>1. Quit(Base) /\ UNCHANGED <<poolVars, keptVars>>
    BY <1>5 DEF Signal, serverVars, keptVars
  <2>2. QED
    BY <1>1, <2>1, LoopMoveKeeps
<1>6. ASSUME NEW l \in Loops, QuitIo(l) PROVE NetCore'
  <2>1. Quit(l) /\ UNCHANGED <<poolVars, keptVars>>
    BY <1>6 DEF QuitIo, keptVars
  <2>2. QED
    BY <2>1, LoopMoveKeeps
<1>7. CASE StopWorkers
  BY <1>7, StopWorkersKeeps
<1>8. CASE UNCHANGED netVars
  BY <1>8, SameCore DEF netVars, serverVars, keptVars
<1>9. QED
  BY <1>2, <1>3, <1>4, <1>5, <1>6, <1>7, <1>8 DEF NetNext

LEMMA NetCoreAlways == NetSpec => []NetCore
BY NetInitCore, NetStepCore, PTL DEF NetSpec

\* Every variable of the loops, the worker pool and the connections keeps its
\* type, and no connection is asked more than its client sent.
THEOREM ConnectionsTypeCorrect == NetSpec => []NetTypeOK
<1>1. NetCore => NetTypeOK
  <2> SUFFICES ASSUME NetCore PROVE NetTypeOK
    OBVIOUS
  <2>1. LoopsTypeOK /\ PoolTypeOK
    BY ConnectionsAssumption DEF NetCore, NetTypes, LoopTypes, PoolTypes, LoopsTypeOK, PoolTypeOK
  <2>2. ASSUME NEW c \in Conns
        PROVE  /\ conn[c].state \in States /\ conn[c].events \subseteq {"in", "out"}
               /\ conn[c].asked <= plan.requests
               /\ conn[c].state # "none" => conn[c].home \in Loops
    <3>1. conn[c] \in ConnType /\ RequestsOK(conn[c]) /\ plan.requests \in Nat
      BY PlanTypes DEF NetCore, NetTypes, ServerTypes, AllRequests
    <3>2. conn[c].state \in States /\ conn[c].events \subseteq {"in", "out"}
      BY <3>1 DEF ConnType
    <3>3. conn[c].asked <= plan.requests
      BY <3>1 DEF ConnType, RequestsOK
    <3>4. conn[c].state # "none" => conn[c].home \in Loops
      BY DEF NetCore, Core, AllLife, LifeOK
    <3>5. QED
      BY <3>2, <3>3, <3>4
  <2>3. QED
    BY <2>1, <2>2 DEF NetTypeOK, NetCore, NetTypes, ServerTypes
<1>2. QED
  BY <1>1, NetCoreAlways, PTL

\* connCount counts the connections that are up, whatever the number of loops
\* on which they are established and closed, and never passes the limit.
THEOREM ConnectionsAreCounted == NetSpec => []ConnectionsCounted
<1>1. NetCore => ConnectionsCounted
  BY DEF NetCore, Core, CountOK, CountedConns, AllLife, LifeOK, Open, ConnectionsCounted
<1>2. QED
  BY <1>1, NetCoreAlways, PTL

\* While the server runs no assertion of the library fails, and a connection
\* object that nothing refers to any more is disconnected and in no poller.
THEOREM NetAssertionsHold == NetSpec => []NetAssertions
<1>1. NetCore => NetAssertions
  <2> SUFFICES ASSUME NetCore, at[Base] # "out",
                      NEW c \in Conns, conn[c].state # "none", ~Alive(c)
               PROVE  conn[c].state = "Disconnected" /\ ~conn[c].registered
    BY DEF NetCore, Core, NetAssertions
  <2>1. LifeOK(c) /\ conn[c] \in ConnType
    BY DEF NetCore, NetTypes, ServerTypes, Core, AllLife
  <2>2. ~conn[c].listed
    BY DEF Alive
  <2>3. conn[c].state \in States
    BY <2>1 DEF ConnType
  <2>4. QED
    BY <2>1, <2>2, <2>3 DEF LifeOK, Open, States
<1>2. QED
  BY <1>1, NetCoreAlways, PTL

-----------------------------------------------------------------------------
(* Wake-ups.  A loop needs one whenever a functor waits for it while it may *)
(* poll before it takes its functors; during the events it needs none.     *)

MayPollFirst == {"start", "poll", "functors"}
WillWake(l) == eventfd[l] \/ \E w \in Others : waking[w] = l
AllWoken == \A l \in Loops : at[l] \in MayPollFirst /\ pending[l] # <<>> => WillWake(l)

LEMMA WokenFrame ==
    ASSUME AllWoken, UNCHANGED waking,
           \A k \in Loops :
               \/ at'[k] \notin MayPollFirst \/ pending'[k] = <<>> \/ eventfd'[k]
               \/ at[k] \in MayPollFirst /\ pending'[k] = pending[k] /\ eventfd'[k] = eventfd[k]
    PROVE  AllWoken'
BY DEF AllWoken, WillWake

\* The loop's own moves.
LEMMA LoopMoveWakes ==
    ASSUME LoopTypes, AllWoken, NEW l \in Loops,
           \/ StartLooping(l) \/ PollTimeout(l) \/ HandleWakeup(l) \/ TakeFunctors(l)
           \/ FinishIteration(l) \/ Quit(l) \/ \E ready : Poll(l, ready)
    PROVE  AllWoken'
<1>1. UNCHANGED waking
  BY DEF StartLooping, PollTimeout, HandleWakeup, TakeFunctors, FinishIteration, Quit, Poll
<1>2. CASE StartLooping(l) \/ PollTimeout(l) \/ \E ready : Poll(l, ready)
  BY <1>1, <1>2, WokenFrame DEF StartLooping, PollTimeout, Poll, LoopTypes, MayPollFirst
<1>3. CASE HandleWakeup(l)
  BY <1>1, <1>3, WokenFrame DEF HandleWakeup, LoopTypes, MayPollFirst
<1>4. CASE TakeFunctors(l)
  BY <1>1, <1>4, WokenFrame DEF TakeFunctors, LoopTypes, MayPollFirst
<1>5. CASE FinishIteration(l)
  BY <1>1, <1>5, WokenFrame DEF FinishIteration, LoopTypes, MayPollFirst
<1>6. CASE Quit(l)
  BY <1>1, <1>6, WokenFrame DEF Quit, LoopTypes, MayPollFirst
<1>7. QED
  BY <1>2, <1>3, <1>4, <1>5, <1>6

\* A step of loop l that queues at most one functor, for any loop.
LEMMA QueueingWakes ==
    ASSUME LoopTypes, AllWoken, NEW l \in Loops, UNCHANGED <<at, waking>>,
           QueueNothing \/ \E t, f : QueueInLoop(t, f, l), at[l] \in {"events", "functors", "out"}
    PROVE  AllWoken'
<1>1. CASE QueueNothing
  BY <1>1, WokenFrame DEF QueueNothing
<1>2. ASSUME NEW t, NEW f, QueueInLoop(t, f, l) PROVE AllWoken'
  <2>1. \A k \in Loops : k # t => pending'[k] = pending[k] /\ eventfd'[k] = eventfd[k]
    BY <1>2 DEF QueueInLoop, LoopTypes
  <2>2. t \in Loops => eventfd'[t] \/ (t = l /\ at[l] # "functors")
    BY <1>2 DEF QueueInLoop, LoopTypes
  <2>3. QED
    BY <2>1, <2>2, WokenFrame DEF MayPollFirst
<1>3. QED
  BY <1>1, <1>2

LEMMA LoopStepWakes ==
    ASSUME NetCore, AllWoken, NEW l \in Loops, LoopStep(l)
    PROVE  AllWoken'
<1>1. LoopTypes
  BY DEF NetCore, NetTypes
<1>2. CASE LoopItself(l) \/ PollChannels(l)
  BY <1>1, <1>2, LoopMoveWakes DEF LoopItself, PollChannels
<1>3. CASE l = Base /\ (HandleAccept \/ AcceptFails)
  <2>1. UNCHANGED <<at, waking>> /\ at[l] = "events"
    BY <1>3 DEF HandleAccept, AcceptFails, Handling
  <2>2. QueueNothing \/ \E t, f : QueueInLoop(t, f, l)
    BY <1>3 DEF HandleAccept, AcceptFails, Establish
  <2>3. QED
    BY <1>1, <2>1, <2>2, QueueingWakes
<1>4. ASSUME NEW c \in Conns, HandleRead(l, c) \/ HandleWrite(l, c) PROVE AllWoken'
  <2>1. UNCHANGED <<at, waking>> /\ at[l] = "events"
    BY <1>4 DEF HandleRead, HandleWrite, Handling
  <2>2. QueueNothing \/ \E t, f : QueueInLoop(t, f, l)
    BY <1>4 DEF HandleRead, HandleWrite, HandleClose
  <2>3. QED
    BY <1>1, <2>1, <2>2, QueueingWakes
<1>5. CASE HandleLine(l) \/ EndOfLines(l)
  <2>1. UNCHANGED <<at, waking>> /\ at[l] = "events"
    BY <1>5, ReadingConn DEF HandleLine, EndOfLines, loopVars
  <2>2. QueueNothing \/ \E t, f : QueueInLoop(t, f, l)
    BY <1>5 DEF HandleLine, EndOfLines, loopVars, QueueNothing
  <2>3. QED
    BY <1>1, <2>1, <2>2, QueueingWakes
<1>8. CASE EmptyLine(l) \/ LineThrows(l)
  BY <1>8, WokenFrame DEF EmptyLine, LineThrows, Terminate, loopVars, AllWoken, WillWake
<1>6. CASE \/ RunEstablished(l) \/ RunForceClose(l) \/ RunSend(l)
           \/ RunRemove(l) \/ RunRelease(l) \/ RunDestroyed(l)
  <2>1. Running(l)
    BY <1>6 DEF RunEstablished, RunForceClose, RunSend, RunRemove, RunRelease, RunDestroyed
  <2>2. QueueNothing \/ \E t, f : QueueInLoop(t, f, l)
    <3>1. CASE RunEstablished(l)
      BY <3>1 DEF RunEstablished, Establish
    <3>2. CASE RunForceClose(l)
      BY <3>2 DEF RunForceClose, ForceCloseInLoop, HandleClose, QueueNothing
    <3>3. CASE RunSend(l) \/ RunRemove(l) \/ RunRelease(l) \/ RunDestroyed(l)
      BY <3>3 DEF RunSend, RunRemove, RunRelease, RunDestroyed
    <3>4. QED
      BY <1>6, <3>1, <3>2, <3>3
  <2>3. QED
    BY <1>1, <2>1, <2>2, QueueingWakes DEF Running
<1>7. QED
  BY <1>2, <1>3, <1>4, <1>5, <1>6, <1>8 DEF LoopStep

LEMMA WorkerStepWakes ==
    ASSUME NetCore, AllWoken, NEW w \in Workers, WorkerStep(w)
    PROVE  AllWoken'
<1>1. LoopTypes /\ w \in Others
  BY ConnectionsAssumption DEF NetCore, NetTypes
<1>2. CASE UNCHANGED loopVars
  BY <1>2, WokenFrame DEF loopVars, AllWoken, WillWake
<1>3. ASSUME NEW t, NEW f, Push(w, t, f) PROVE AllWoken'
  <2>1. /\ at' = at /\ eventfd' = eventfd /\ waking[w] = NoLoop
        /\ \A v \in Others : waking'[v] = IF v = w THEN t ELSE waking[v]
        /\ \A k \in Loops : k # t => pending'[k] = pending[k]
    BY <1>1, <1>3, ConnectionsAssumption DEF Push, LoopTypes
  <2>2. SUFFICES ASSUME NEW k \in Loops, at[k] \in MayPollFirst, pending'[k] # <<>>
                 PROVE  WillWake(k)'
    BY <2>1 DEF AllWoken
  <2>3. k # NoLoop
    BY LoopsAssumption
  <2>4. CASE k = t
    BY <1>1, <2>1, <2>4 DEF WillWake
  <2>5. CASE k # t
    BY <1>1, <2>1, <2>2, <2>3, <2>5 DEF AllWoken, WillWake
  <2>6. QED
    BY <2>4, <2>5
<1>4. CASE WakeUp(w)
  <2>1. /\ at' = at /\ pending' = pending
        /\ \A v \in Others : v # w => waking'[v] = waking[v]
        /\ \A k \in Loops : eventfd'[k] = (eventfd[k] \/ k = waking[w])
    BY <1>1, <1>4, ConnectionsAssumption DEF WakeUp, LoopTypes
  <2>2. QED
    BY <1>1, <2>1 DEF AllWoken, WillWake
<1>5. QED
  BY <1>2, <1>3, <1>4 DEF WorkerStep, TakeTask, FinishTask, TaskThrows, Terminate, WriteEventfd

LEMMA NetStepWakes == NetCore /\ AllWoken /\ [NetNext]_netVars => AllWoken'
<1> SUFFICES ASSUME NetCore, AllWoken, [NetNext]_netVars PROVE AllWoken'
  OBVIOUS
<1>1. /\ RunningLoops \subseteq Loops /\ Base \in Loops /\ plan.workers \subseteq Workers /\ LoopTypes
  BY PlanTypes DEF NetCore, NetTypes, ServerTypes
<1>2. CASE \E l \in RunningLoops : LoopStep(l)
  BY <1>1, <1>2, LoopStepWakes
<1>3. CASE \E w \in plan.workers : WorkerStep(w)
  BY <1>1, <1>3, WorkerStepWakes
<1>4. ASSUME NEW c \in plan.clients, DestroyConnection(c) PROVE AllWoken'
  <2>1. UNCHANGED <<at, waking>> /\ at[Base] = "out" /\ \E t, f : QueueInLoop(t, f, Base)
    BY <1>4 DEF DestroyConnection
  <2>2. QED
    BY <1>1, <2>1, QueueingWakes
<1>5. CASE Signal \/ \E l \in Loops : QuitIo(l)
  BY <1>1, <1>5, LoopMoveWakes DEF Signal, QuitIo
<1>6. CASE StopWorkers \/ (\E c \in plan.clients : ClientStep(c)) \/ UNCHANGED netVars
  <2>1. UNCHANGED loopVars
    BY <1>6 DEF StopWorkers, ClientStep, netVars
  <2>2. QED
    BY <2>1, WokenFrame DEF loopVars, AllWoken, WillWake
<1>7. QED
  BY <1>2, <1>3, <1>4, <1>5, <1>6 DEF NetNext

\* No wake-up of a loop is lost, whichever of the loops and workers queue its
\* functors, and wherever each of them is between the push and the write.
THEOREM NoWakeupIsLost == NetSpec => []NoLostWakeup
<1>1. NetInit(NetSeeds) => AllWoken
  BY DEF NetInit, LoopsInit, AllWoken
<1>2. AllWoken => NoLostWakeup
  BY DEF AllWoken, WillWake, MayPollFirst, NoLostWakeup
<1>3. QED
  BY <1>1, <1>2, NetCoreAlways, NetStepWakes, PTL DEF NetSpec

-----------------------------------------------------------------------------
(* What the server writes to a socket, over every message and thread: the    *)
(* pieces of the messages stay whole and in their order.                     *)

\* The pieces of the messages of took, in order.
Whole(took) == [i \in 1 .. 2 * Len(took) |-> <<took[(i + 1) \div 2], 2 - (i % 2)>>]
Ordered(k) == k.got \o k.out = Whole(k.took)
AllOrdered == \A c \in Conns : Ordered(conn[c])

-----------------------------------------------------------------------------
(* One message more.                                                        *)

LEMMA Halves ==
    ASSUME NEW n \in Nat
    PROVE  /\ \A i \in 1 .. 2 * n : (i + 1) \div 2 \in 1 .. n
           /\ (2 * n + 2) \div 2 = n + 1 /\ (2 * n + 3) \div 2 = n + 1
           /\ (2 * n + 1) % 2 = 1 /\ (2 * n + 2) % 2 = 0
OBVIOUS

\* A sequence of pairs that is two pairs longer than another, agrees with it
\* and ends with two given pairs.
LEMMA LastTwo ==
    ASSUME NEW z \in Nat, NEW i \in 1 .. z + 2
    PROVE  i \in 1 .. z \/ i = z + 1 \/ i = z + 2
OBVIOUS

LEMMA WholeType ==
    ASSUME NEW took \in Seq(Nat), NEW z \in Nat, z = 2 * Len(took)
    PROVE  /\ Whole(took) \in Seq(Nat \X Nat) /\ Len(Whole(took)) = z
           /\ \A i \in 1 .. z : Whole(took)[i] = <<took[(i + 1) \div 2], 2 - (i % 2)>>
<1> DEFINE e(i) == <<took[(i + 1) \div 2], 2 - (i % 2)>>
<1>1. Whole(took) = [i \in 1 .. z |-> e(i)]
  BY DEF Whole
<1>2. \A i \in 1 .. z : (i + 1) \div 2 \in 1 .. Len(took)
  BY Halves
<1>3. \A j \in 1 .. Len(took) : took[j] \in Nat
  OBVIOUS
<1>4. \A i \in 1 .. z : 2 - (i % 2) \in Nat
  OBVIOUS
<1>5. \A i \in 1 .. z : e(i) \in Nat \X Nat
  BY <1>2, <1>3, <1>4
<1> HIDE DEF e
<1>6. Whole(took) \in [1 .. z -> Nat \X Nat]
  BY <1>1, <1>5
<1>7. Whole(took) \in Seq(Nat \X Nat) /\ Len(Whole(took)) = z
  BY <1>6
<1>8. \A i \in 1 .. z : Whole(took)[i] = e(i)
  BY <1>1
<1> QED
  BY <1>7, <1>8 DEF e

LEMMA WholeAppend ==
    ASSUME NEW took \in Seq(Nat), NEW m \in Nat
    PROVE  Whole(Append(took, m)) = Whole(took) \o Pieces(m)
<1> DEFINE n == Len(took)
           more == Append(took, m)
<1>1. n \in Nat /\ more \in Seq(Nat) /\ Len(more) = n + 1 /\ more[n + 1] = m
  OBVIOUS
<1>2. \A j \in 1 .. n : more[j] = took[j]
  OBVIOUS
<1> HIDE DEF n, more
<1>3. PICK z \in Nat : z = 2 * n /\ z + 2 = 2 * (n + 1)
  BY <1>1
<1>4. /\ Whole(took) \in Seq(Nat \X Nat) /\ Len(Whole(took)) = z
      /\ \A i \in 1 .. z : Whole(took)[i] = <<took[(i + 1) \div 2], 2 - (i % 2)>>
  BY <1>1, <1>3, WholeType DEF n
<1>5. /\ Whole(more) \in Seq(Nat \X Nat) /\ Len(Whole(more)) = z + 2
      /\ \A i \in 1 .. z + 2 : Whole(more)[i] = <<more[(i + 1) \div 2], 2 - (i % 2)>>
  <2>1. z + 2 \in Nat /\ z + 2 = 2 * Len(more)
    BY <1>1, <1>3
  <2>2. QED
    BY <1>1, <2>1, WholeType
<1>6. Pieces(m) \in Seq(Nat \X Nat) /\ Len(Pieces(m)) = 2 /\ Pieces(m)[1] = <<m, 1>> /\ Pieces(m)[2] = <<m, 2>>
  BY DEF Pieces
<1>7. \A i \in 1 .. z : (i + 1) \div 2 \in 1 .. n
  BY <1>1, <1>3, Halves
<1>8. \A i \in 1 .. z : Whole(more)[i] = Whole(took)[i]
  <2>1. SUFFICES ASSUME NEW i \in 1 .. z PROVE Whole(more)[i] = Whole(took)[i]
    OBVIOUS
  <2>2. i \in 1 .. z + 2
    OBVIOUS
  <2>3. more[(i + 1) \div 2] = took[(i + 1) \div 2]
    BY <1>2, <1>7
  <2>4. QED
    BY <1>4, <1>5, <2>2, <2>3
<1>9. Whole(more)[z + 1] = <<m, 1>>
  <2>1. z + 1 \in 1 .. z + 2
    OBVIOUS
  <2>2. (z + 1 + 1) \div 2 = n + 1 /\ 2 - ((z + 1) % 2) = 1
    BY <1>1, <1>3, Halves
  <2>3. QED
    BY <1>1, <1>5, <2>1, <2>2
<1>10. Whole(more)[z + 2] = <<m, 2>>
  <2>1. z + 2 \in 1 .. z + 2
    OBVIOUS
  <2>2. (z + 2 + 1) \div 2 = n + 1 /\ 2 - ((z + 2) % 2) = 2
    BY <1>1, <1>3, Halves
  <2>3. QED
    BY <1>1, <1>5, <2>1, <2>2
<1> DEFINE w == Whole(took)
           v == Whole(more)
           p == Pieces(m)
<1>11. PICK S :
       /\ w \in Seq(S) /\ v \in Seq(S) /\ p \in Seq(S)
       /\ Len(w) = z /\ Len(v) = z + 2 /\ Len(p) = 2 /\ v[z + 1] = p[1] /\ v[z + 2] = p[2]
       /\ \A i \in 1 .. z : v[i] = w[i]
  BY <1>4, <1>5, <1>6, <1>8, <1>9, <1>10
<1> HIDE DEF w, v, p
<1>12. v = w \o p
  <2> DEFINE u == w \o p
  <2>1. u \in Seq(S) /\ Len(u) = z + 2
    <3>1. u \in Seq(S) /\ Len(u) = Len(w) + Len(p)
      BY <1>11, ConcatProperties, Zenon
    <3>2. QED
      BY <1>11, <3>1
  <2>2. ASSUME NEW i \in 1 .. z + 2 PROVE v[i] = u[i]
    <3>1. u[i] = IF i <= z THEN w[i] ELSE p[i - z]
      <4>1. i \in 1 .. Len(w) + Len(p)
        BY <1>11
      <4>2. QED
        BY <1>11, <4>1, ConcatProperties
    <3> HIDE DEF u
    <3>2. CASE i \in 1 .. z
      BY <1>11, <3>1, <3>2
    <3>3. CASE i = z + 1
      BY <1>11, <3>1, <3>3
    <3>4. CASE i = z + 2
      BY <1>11, <3>1, <3>4
    <3>5. QED
      BY <3>2, <3>3, <3>4, LastTwo
  <2> HIDE DEF u
  <2>3. v = u
    <3>1. Len(v) = Len(u) /\ \A i \in 1 .. Len(v) : v[i] = u[i]
      BY <1>11, <2>1, <2>2
    <3>2. QED
      BY <1>11, <2>1, <3>1, SeqEqual
  <2>4. QED
    BY <2>3 DEF u
<1>13. QED
  BY <1>12 DEF more, w, v, p

LEMMA Regroup ==
    ASSUME NEW s \in Chunks, NEW t \in Chunks, NEW u \in Chunks
    PROVE  (s \o t) \o u = s \o (t \o u)
<1> DEFINE S == Nat \X Nat
<1>1. s \in Seq(S) /\ t \in Seq(S) /\ u \in Seq(S)
  BY DEF Chunks
<1> HIDE DEF S
<1>2. QED
  BY <1>1, ConcatAssociative

LEMMA WroteOrdered ==
    ASSUME NEW k \in ConnType, Ordered(k), NEW m \in Nat, NEW n \in 0 .. 2, n = 0 \/ k.out = <<>>
    PROVE  Ordered(Wrote(k, m, n))
<1> DEFINE a == SubSeq(Pieces(m), 1, n)
           b == SubSeq(Pieces(m), n + 1, 2)
           p == Pieces(m)
           S == Nat \X Nat
<1>1. /\ p \in Seq(S) /\ Len(p) = 2
  BY DEF Pieces
<1>2. a \in Seq(S) /\ b \in Seq(S)
  BY PiecesTypes DEF Chunks
<1>3. a \o b = p
  <2>1. 1 \in 1 .. Len(p) + 1 /\ n \in 1 - 1 .. Len(p) /\ 2 \in n .. Len(p)
    BY <1>1
  <2>2. SubSeq(p, 1, n) \o SubSeq(p, n + 1, 2) = SubSeq(p, 1, 2)
    BY <1>1, <2>1, ConcatAdjacentSubSeq
  <2>3. SubSeq(p, 1, 2) = p
    BY <1>1, SubSeqFull
  <2>4. QED
    BY <2>2, <2>3
<1>4. n = 0 => a = <<>>
  BY SubSeqEmpty
<1>5. k.got \in Seq(S) /\ k.out \in Seq(S) /\ k.took \in Seq(Nat)
  BY DEF ConnType, Chunks
<1>10. a \in Chunks /\ b \in Chunks /\ k.got \in Chunks /\ k.out \in Chunks
  BY <1>2, <1>5 DEF Chunks
<1> DEFINE j == Wrote(k, m, n)
<1>6. j.got = k.got \o a /\ j.out = k.out \o b /\ j.took = Append(k.took, m)
  BY DEF Wrote, ConnType
<1> HIDE DEF a, b, p, S, j
<1>7. (k.got \o a) \o (k.out \o b) = (k.got \o k.out) \o p
  <2>1. CASE n = 0
    <3>1. k.got \o a = k.got
      BY <1>4, <1>5, <2>1, ConcatEmptySeq
    <3>2. (k.got \o a) \o (k.out \o b) = (k.got \o k.out) \o b
      <4>1. (k.got \o k.out) \o b = k.got \o (k.out \o b)
        BY <1>10, Regroup
      <4>2. QED
        BY <3>1, <4>1
    <3>3. a \o b = b
      BY <1>2, <1>4, <2>1, ConcatEmptySeq
    <3>4. QED
      BY <1>3, <3>2, <3>3
  <2>2. CASE k.out = <<>>
    <3>1. k.got \o k.out = k.got /\ k.out \o b = b
      BY <1>2, <1>5, <2>2, ConcatEmptySeq
    <3>2. (k.got \o a) \o b = k.got \o (a \o b)
      BY <1>10, Regroup
    <3>3. QED
      BY <1>3, <3>1, <3>2
  <2>3. QED
    BY <2>1, <2>2
<1>8. Whole(Append(k.took, m)) = Whole(k.took) \o p
  BY <1>5, WholeAppend DEF p
<1>9. QED
  BY <1>6, <1>7, <1>8 DEF Ordered, j

LEMMA SendOrdered ==
    ASSUME NEW k \in ConnType, Ordered(k), NEW m \in Nat, NEW j \in SendInLoop(k, m) \cup Send(k, m)
    PROVE  Ordered(j)
<1> DEFINE direct == "out" \notin k.events /\ k.out = <<>>
           ns == IF direct THEN 0 .. 2 ELSE {0}
<1>1. j = k \/ j \in {Wrote(k, m, n) : n \in ns}
  BY DEF Send, SendInLoop
<1>2. \A n \in ns : n \in 0 .. 2 /\ (n = 0 \/ k.out = <<>>)
  OBVIOUS
<1> HIDE DEF ns
<1>3. QED
  BY <1>1, <1>2, WroteOrdered

-----------------------------------------------------------------------------
(* The steps.                                                               *)

SameOutput(k, j) == j.got = k.got /\ j.out = k.out /\ j.took = k.took

LEMMA SameOutputOrdered == ASSUME NEW k, NEW j, SameOutput(k, j), Ordered(k) PROVE Ordered(j)
BY DEF SameOutput, Ordered

\* A step that leaves the output of every connection but that of c alone.
LEMMA OneConnection ==
    ASSUME AllOrdered, conn \in [Conns -> ConnType], NEW c \in Conns,
           NEW j, conn' = [conn EXCEPT ![c] = j], Ordered(j)
    PROVE  AllOrdered'
<1>1. SUFFICES ASSUME NEW d \in Conns PROVE Ordered(conn'[d])
  BY DEF AllOrdered
<1>2. conn'[d] = j \/ conn'[d] = conn[d]
  OBVIOUS
<1>3. QED
  BY <1>2 DEF AllOrdered

LEMMA EstablishOrdered ==
    ASSUME AllOrdered, conn \in [Conns -> ConnType], NEW l, NEW c \in Conns,
           NEW k \in ConnType, Ordered(k), Establish(l, c, k)
    PROVE  AllOrdered'
<1> DEFINE up == [k EXCEPT !.state = "Connected", !.events = {"in"}, !.registered = TRUE]
           yes == [up EXCEPT !.counted = TRUE]
           no == [up EXCEPT !.state = "Disconnecting"]
<1>1. conn' = [conn EXCEPT ![c] = yes] \/ conn' = [conn EXCEPT ![c] = no]
  BY DEF Establish
<1>2. SameOutput(k, yes) /\ SameOutput(k, no)
  BY DEF SameOutput, ConnType
<1> HIDE DEF yes, no
<1>3. Ordered(yes) /\ Ordered(no)
  BY <1>2, SameOutputOrdered
<1>4. QED
  BY <1>1, <1>3, OneConnection

LEMMA ClosedOrdered ==
    ASSUME AllOrdered, conn \in [Conns -> ConnType], NEW c \in Conns,
           conn' = [conn EXCEPT ![c] = Closed(@)]
    PROVE  AllOrdered'
<1> DEFINE j == Closed(conn[c])
<1>1. SameOutput(conn[c], j) /\ conn' = [conn EXCEPT ![c] = j]
  BY DEF Closed, SameOutput, ConnType
<1> HIDE DEF j
<1>2. Ordered(j)
  BY <1>1, SameOutputOrdered DEF AllOrdered
<1>3. QED
  BY <1>1, <1>2, OneConnection

LEMMA HandleWriteOrdered ==
    ASSUME AllOrdered, conn \in [Conns -> ConnType], NEW l, NEW c \in Conns, HandleWrite(l, c)
    PROVE  AllOrdered'
<1>1. CASE UNCHANGED conn
  BY <1>1 DEF AllOrdered
<1>2. CASE ~UNCHANGED conn
  <2> DEFINE k == conn[c]
  <2>1. PICK n \in 1 .. Len(k.out) :
            conn' = [conn EXCEPT ![c].got = @ \o SubSeq(k.out, 1, n),
                                 ![c].out = SubSeq(k.out, n + 1, Len(k.out)),
                                 ![c].events = IF n = Len(k.out) THEN @ \ {"out"} ELSE @]
    BY <1>2 DEF HandleWrite
  <2> DEFINE first == SubSeq(k.out, 1, n)
             rest == SubSeq(k.out, n + 1, Len(k.out))
             left == IF n = Len(k.out) THEN k.events \ {"out"} ELSE k.events
             j == [k EXCEPT !.got = k.got \o first, !.out = rest, !.events = left]
             S == Nat \X Nat
  <2>2. k \in ConnType /\ k.got \in Seq(S) /\ k.out \in Seq(S)
    BY DEF ConnType, Chunks
  <2>3. conn' = [conn EXCEPT ![c] = j]
    BY <2>1, <2>2 DEF ConnType
  <2>4. first \o rest = k.out /\ first \in Seq(S) /\ rest \in Seq(S)
    <3>1. 1 \in 1 .. Len(k.out) + 1 /\ n \in 1 - 1 .. Len(k.out) /\ Len(k.out) \in n .. Len(k.out)
      BY <2>2
    <3>2. SubSeq(k.out, 1, n) \o SubSeq(k.out, n + 1, Len(k.out)) = SubSeq(k.out, 1, Len(k.out))
      BY <2>2, <3>1, ConcatAdjacentSubSeq
    <3>3. SubSeq(k.out, 1, Len(k.out)) = k.out
      BY <2>2, SubSeqFull
    <3>4. /\ \A i \in 1 .. n : k.out[i] \in S
          /\ \A i \in n + 1 .. Len(k.out) : k.out[i] \in S
          /\ n \in Int /\ n + 1 \in Int /\ Len(k.out) \in Int
      BY <2>2
    <3>5. first \in Seq(S) /\ rest \in Seq(S)
      BY <3>4, SubSeqProperties
    <3>6. QED
      BY <3>2, <3>3, <3>5
  <2>5. j.got = k.got \o first /\ j.out = rest /\ j.took = k.took
    BY <2>2 DEF ConnType
  <2> HIDE DEF first, rest, left, S
  <2>6. (k.got \o first) \o rest = k.got \o k.out
    <3>1. k.got \in Chunks /\ first \in Chunks /\ rest \in Chunks
      BY <2>2, <2>4 DEF Chunks, S
    <3>2. (k.got \o first) \o rest = k.got \o (first \o rest)
      BY <3>1, Regroup
    <3>3. QED
      BY <2>4, <3>2
  <2> HIDE DEF j
  <2>7. Ordered(j)
    BY <2>5, <2>6 DEF Ordered, AllOrdered
  <2>8. QED
    BY <2>3, <2>7, OneConnection
<1>3. QED
  BY <1>1, <1>2

LEMMA SentOrdered ==
    ASSUME AllOrdered, conn \in [Conns -> ConnType], NEW c \in Conns, NEW k \in ConnType, SameOutput(conn[c], k),
           NEW m \in Nat, NEW j \in SendInLoop(k, m) \cup Send(k, m), NEW i, SameOutput(j, i),
           conn' = [conn EXCEPT ![c] = i]
    PROVE  AllOrdered'
<1>1. Ordered(k)
  BY SameOutputOrdered DEF AllOrdered
<1>2. Ordered(i)
  BY <1>1, SendOrdered, SameOutputOrdered
<1>3. QED
  BY <1>2, OneConnection

LEMMA AcceptOrdered ==
    ASSUME NetCore, AllOrdered, HandleAccept \/ AcceptFails
    PROVE  AllOrdered'
<1>1. conn \in [Conns -> ConnType]
  BY DEF NetCore, NetTypes, ServerTypes
<1>2. CASE HandleAccept
  <2> DEFINE next == IF io = <<>> THEN Base ELSE io[nextIo]
             K(c) == [conn[c] EXCEPT !.state = "Connecting", !.home = next, !.listed = TRUE]
  <2>1. PICK c \in Backlog : Establish(Base, c, K(c)) \/ conn' = [conn EXCEPT ![c] = K(c)]
    BY <1>2 DEF HandleAccept
  <2>2. c \in Conns /\ conn[c] \in ConnType
    BY <1>1, <2>1 DEF Backlog
  <2>3. next \in Loops
    BY ConnectionsAssumption, PlanTypes DEF NetCore, NetTypes, ServerTypes
  <2> HIDE DEF next
  <2>4. PICK k \in ConnType : k = K(c) /\ SameOutput(conn[c], k)
    <3> DEFINE j == K(c)
    <3>1. j \in ConnType /\ SameOutput(conn[c], j)
      BY <2>2, <2>3 DEF ConnType, States, SameOutput
    <3> HIDE DEF K
    <3>2. QED
      BY <3>1
  <2>5. Ordered(k)
    BY <2>2, <2>4, SameOutputOrdered DEF AllOrdered
  <2> HIDE DEF K
  <2>6. Establish(Base, c, k) \/ conn' = [conn EXCEPT ![c] = k]
    BY <2>1, <2>4
  <2>7. QED
    BY <1>1, <2>2, <2>5, <2>6, EstablishOrdered, OneConnection
<1>3. CASE AcceptFails
  <2>1. PICK c \in Conns : conn' = [conn EXCEPT ![c] = NewConn]
    BY <1>3 DEF AcceptFails, Backlog
  <2>2. Ordered(NewConn)
    BY DEF NewConn, Ordered, Whole
  <2>3. QED
    BY <1>1, <2>1, <2>2, OneConnection
<1>4. QED
  BY <1>2, <1>3

LEMMA ReadOrdered ==
    ASSUME NetCore, AllOrdered, NEW l, NEW c \in Conns, HandleRead(l, c)
    PROVE  AllOrdered'
<1>1. conn \in [Conns -> ConnType] /\ conn[c] \in ConnType
  BY DEF NetCore, NetTypes, ServerTypes
<1>2. CASE HandleClose(l, c)
  BY <1>1, <1>2, ClosedOrdered DEF HandleClose
<1>3. CASE conn' = [conn EXCEPT ![c].lines = @ + conn[c].inbox, ![c].inbox = 0]
  <2>1. SameOutput(conn[c], conn'[c]) /\ \A d \in Conns \ {c} : conn'[d] = conn[d]
    BY <1>1, <1>3 DEF SameOutput, ConnType
  <2>2. QED
    BY <2>1 DEF AllOrdered, Ordered, SameOutput
<1>4. CASE conn' = [conn EXCEPT ![c].peer = "gone", ![c].inbox = 0]
  <2>1. SameOutput(conn[c], conn'[c]) /\ \A d \in Conns \ {c} : conn'[d] = conn[d]
    BY <1>1, <1>4 DEF SameOutput, ConnType
  <2>2. QED
    BY <2>1 DEF AllOrdered, Ordered, SameOutput
<1>5. QED
  BY <1>2, <1>3, <1>4 DEF HandleRead

LEMMA LinesOrdered ==
    ASSUME NetCore, AllOrdered, NEW l \in Loops, HandleLine(l) \/ EndOfLines(l)
    PROVE  AllOrdered'
<1>1. PICK c : c = reading[l]
  OBVIOUS
<1>2. c \in Conns /\ conn \in [Conns -> ConnType] /\ conn[c] \in ConnType
  BY <1>1, ReadingConn DEF HandleLine, EndOfLines
<1>3. CASE HandleLine(l)
  <2> DEFINE K == [conn[c] EXCEPT !.lines = @ - 1, !.asked = @ + 1]
  <2>1. PICK k \in ConnType : k = K /\ k.asked \in Nat
    BY <1>1, <1>2, <1>3, LineParsed DEF HandleLine
  <2>2. SameOutput(conn[c], k)
    BY <1>2, <2>1 DEF SameOutput, ConnType
  <2>3. conn' = [conn EXCEPT ![c] = k] \/ Answer(c, k, k.asked)
    BY <1>1, <1>3, <2>1 DEF HandleLine
  <2> HIDE DEF K
  <2>4. CASE conn' = [conn EXCEPT ![c] = k]
    <3>1. Ordered(k)
      BY <1>2, <2>2, SameOutputOrdered DEF AllOrdered
    <3>2. QED
      BY <1>2, <2>4, <3>1, OneConnection
  <2>5. CASE Answer(c, k, k.asked)
    <3>1. PICK j \in Send(k, k.asked) : conn' = [conn EXCEPT ![c] = j]
      BY <2>5 DEF Answer
    <3>2. SameOutput(j, j)
      BY DEF SameOutput
    <3>3. QED
      BY <1>2, <2>1, <2>2, <3>1, <3>2, SentOrdered
  <2>6. QED
    BY <2>3, <2>4, <2>5
<1>4. CASE EndOfLines(l)
  <2>1. CASE UNCHANGED conn
    BY <2>1 DEF AllOrdered
  <2>2. CASE ~UNCHANGED conn
    <3>1. PICK j \in Send(conn[c], 0) : conn' = [conn EXCEPT ![c] = [j EXCEPT !.state = "Disconnecting"]]
      BY <1>1, <1>4, <2>2 DEF EndOfLines
    <3>2. j \in ConnType
      BY <1>2, <3>1, SendTypes
    <3>3. PICK i : i = [j EXCEPT !.state = "Disconnecting"] /\ SameOutput(j, i)
      <4> DEFINE b == [j EXCEPT !.state = "Disconnecting"]
      <4>1. SameOutput(j, b)
        BY <3>2 DEF ConnType, SameOutput
      <4> HIDE DEF b
      <4>2. QED
        BY <4>1 DEF b
    <3>4. PICK k \in ConnType : k = conn[c] /\ SameOutput(conn[c], k)
      BY <1>2 DEF SameOutput
    <3>5. j \in Send(k, 0) /\ conn' = [conn EXCEPT ![c] = i]
      BY <3>1, <3>3, <3>4
    <3>6. QED
      BY <1>2, <3>3, <3>4, <3>5, SentOrdered
  <2>3. QED
    BY <2>1, <2>2
<1>5. QED
  BY <1>3, <1>4

LEMMA EmptyLineOrdered ==
    ASSUME NetCore, AllOrdered, NEW l \in Loops, EmptyLine(l)
    PROVE  AllOrdered'
<1>1. PICK c : c = reading[l]
  OBVIOUS
<1>2. c \in Conns /\ conn \in [Conns -> ConnType] /\ conn[c] \in ConnType
  BY <1>1, ReadingConn DEF EmptyLine
<1>3. SameOutput(conn[c], conn'[c]) /\ \A d \in Conns \ {c} : conn'[d] = conn[d]
  BY <1>1, <1>2 DEF EmptyLine, SameOutput, ConnType
<1>4. QED
  BY <1>3 DEF AllOrdered, Ordered, SameOutput

LEMMA FunctorsOrdered ==
    ASSUME NetCore, AllOrdered, NEW l \in Loops,
           \/ RunEstablished(l) \/ RunForceClose(l) \/ RunSend(l)
           \/ RunRemove(l) \/ RunRelease(l) \/ RunDestroyed(l)
    PROVE  AllOrdered'
<1>1. PICK c, m : c = Head(batch[l])[2] /\ m = Head(batch[l])[3]
  OBVIOUS
<1>2. Running(l)
  BY DEF RunEstablished, RunForceClose, RunSend, RunRemove, RunRelease, RunDestroyed
<1>3. /\ c \in Conns /\ conn \in [Conns -> ConnType] /\ conn[c] \in ConnType /\ Ordered(conn[c])
      /\ Head(batch[l]) \in Functors
  BY <1>1, <1>2, FunctorRuns DEF AllOrdered
<1>4. CASE RunEstablished(l)
  BY <1>1, <1>3, <1>4, EstablishOrdered DEF RunEstablished
<1>5. CASE UNCHANGED conn
  BY <1>5 DEF AllOrdered
<1>6. CASE conn' = [conn EXCEPT ![c] = Closed(@)]
  BY <1>3, <1>6, ClosedOrdered
<1>7. CASE RunSend(l)
  <2>1. m \in Nat
    BY <1>1, <1>3, <1>7, FunctorFields DEF RunSend, Functor, Functors, Plain
  <2>2. PICK k \in ConnType : k = conn[c] /\ SameOutput(conn[c], k)
    BY <1>3 DEF SameOutput
  <2>3. PICK j \in SendInLoop(k, m) : conn' = [conn EXCEPT ![c] = j]
    BY <1>1, <1>7, <2>2 DEF RunSend
  <2>4. SameOutput(j, j)
    BY DEF SameOutput
  <2>5. QED
    BY <1>3, <2>1, <2>2, <2>3, <2>4, SentOrdered
<1>8. CASE conn' = [conn EXCEPT ![c].listed = FALSE]
  <2>1. SameOutput(conn[c], conn'[c]) /\ \A d \in Conns \ {c} : conn'[d] = conn[d]
    BY <1>3, <1>8 DEF SameOutput, ConnType
  <2>2. QED
    BY <2>1 DEF AllOrdered, Ordered, SameOutput
<1>9. RunForceClose(l) => conn' = [conn EXCEPT ![c] = Closed(@)] \/ UNCHANGED conn
  BY <1>1 DEF RunForceClose, ForceCloseInLoop, HandleClose
<1>10. RunRemove(l) => conn' = [conn EXCEPT ![c].listed = FALSE]
  BY <1>1 DEF RunRemove
<1>11. RunRelease(l) \/ RunDestroyed(l) => conn' = [conn EXCEPT ![c] = Closed(@)] \/ UNCHANGED conn
  BY <1>1 DEF RunRelease, RunDestroyed
<1>12. QED
  BY <1>4, <1>5, <1>6, <1>7, <1>8, <1>9, <1>10, <1>11

LEMMA ClientOrdered ==
    ASSUME NetCore, AllOrdered, NEW c \in plan.clients, ClientStep(c) \/ DestroyConnection(c)
    PROVE  AllOrdered'
<1>1. c \in Conns /\ conn \in [Conns -> ConnType] /\ conn[c] \in ConnType
  BY PlanTypes DEF NetCore, NetTypes, ServerTypes
<1>2. SameOutput(conn[c], conn'[c])
  BY <1>1 DEF ClientStep, DestroyConnection, SameOutput, ConnType
<1>3. \A d \in Conns \ {c} : conn'[d] = conn[d]
  BY <1>1 DEF ClientStep, DestroyConnection
<1>4. QED
  BY <1>2, <1>3 DEF AllOrdered, Ordered, SameOutput

LEMMA NetStepOrdered == NetCore /\ AllOrdered /\ [NetNext]_netVars => AllOrdered'
<1> SUFFICES ASSUME NetCore, AllOrdered, [NetNext]_netVars PROVE AllOrdered'
  OBVIOUS
<1>1. RunningLoops \subseteq Loops /\ conn \in [Conns -> ConnType]
  BY PlanTypes DEF NetCore, NetTypes, ServerTypes
<1>2. CASE UNCHANGED conn
  BY <1>2 DEF AllOrdered
<1>3. ASSUME NEW l \in RunningLoops, LoopStep(l) PROVE AllOrdered'
  <2>1. CASE LoopItself(l) \/ PollChannels(l)
    BY <1>2, <2>1 DEF LoopItself, PollChannels, serverVars
  <2>2. CASE HandleAccept \/ AcceptFails
    BY <2>2, AcceptOrdered
  <2>3. CASE \E c \in Conns : HandleRead(l, c) \/ HandleWrite(l, c)
    BY <1>1, <2>3, ReadOrdered, HandleWriteOrdered
  <2>4. CASE HandleLine(l) \/ EndOfLines(l)
    BY <1>1, <1>3, <2>4, LinesOrdered
  <2>7. CASE EmptyLine(l) \/ LineThrows(l)
    <3>1. LineThrows(l) => UNCHANGED conn
      BY DEF LineThrows, Terminate
    <3>2. QED
      BY <1>1, <1>2, <2>7, <3>1, EmptyLineOrdered
  <2>5. CASE \/ RunEstablished(l) \/ RunForceClose(l) \/ RunSend(l)
             \/ RunRemove(l) \/ RunRelease(l) \/ RunDestroyed(l)
    BY <1>1, <1>3, <2>5, FunctorsOrdered
  <2>6. QED
    BY <1>3, <2>1, <2>2, <2>3, <2>4, <2>5, <2>7 DEF LoopStep
<1>4. CASE \E c \in plan.clients : ClientStep(c) \/ DestroyConnection(c)
  BY <1>4, ClientOrdered
<1>5. ASSUME NEW w, WorkerStep(w) PROVE UNCHANGED conn
  BY <1>5 DEF WorkerStep, TakeTask, FinishTask, TaskThrows, Terminate, WriteEventfd, serverVars
<1>6. Signal \/ StopWorkers \/ (\E l \in Loops : QuitIo(l)) \/ UNCHANGED netVars => UNCHANGED conn
  BY DEF Signal, StopWorkers, QuitIo, netVars, serverVars
<1>7. QED
  BY <1>2, <1>3, <1>4, <1>5, <1>6 DEF NetNext

-----------------------------------------------------------------------------
(* Where a request is between the parser and the client: in the queue of the *)
(* pool, in the hand of a worker, among the functors of a loop, or answered. *)

Uniq(x, q) == \A i, j \in 1 .. Len(q) : q[i] = x /\ q[j] = x => i = j

Holds(w, c, m) == hand[w] = <<c, m>> /\ waking[w] = NoLoop
SendAt(l, c, m) == In(<<"send", c, m>>, Queue(l))

TaskOf(c, m) == In(<<c, m>>, tasks)
HandOf(c, m) == \E w \in Workers : Holds(w, c, m)
SendOf(c, m) == \E l \in Loops : SendAt(l, c, m)
TookOf(c, m) == In(m, conn[c].took)
Somewhere(c, m) == TaskOf(c, m) \/ HandOf(c, m) \/ SendOf(c, m) \/ TookOf(c, m)

\* A request is at one place only, there once, and it was asked.
Apart(c, m) ==
    /\ Uniq(<<c, m>>, tasks) /\ Uniq(m, conn[c].took)
    /\ \A w, v \in Workers : Holds(w, c, m) /\ Holds(v, c, m) => w = v
    /\ \A l \in Loops : Uniq(<<"send", c, m>>, Queue(l))
    /\ \A l, k \in Loops : SendAt(l, c, m) /\ SendAt(k, c, m) => l = k
    /\ TaskOf(c, m) => ~HandOf(c, m) /\ ~SendOf(c, m) /\ ~TookOf(c, m)
    /\ HandOf(c, m) => ~SendOf(c, m) /\ ~TookOf(c, m)
    /\ SendOf(c, m) => ~TookOf(c, m)
    /\ Somewhere(c, m) => m <= conn[c].asked

\* The connection is up at both ends.
Live(k) == k.state = "Connected" /\ k.peer = "open"
Kept(c, m) == Live(conn[c]) /\ m <= conn[c].asked => Somewhere(c, m)

\* Nothing was asked yet, and nobody is accepted before it comes.
Newborn(k) ==
    /\ k.state \in {"none", "Connecting"} => k.asked = 0
    /\ k.peer = "away" => k.state = "none"

Numbers == Nat \ {0}
Accounted(c, m) == Apart(c, m) /\ Kept(c, m)
AllAccounted == \A c \in Conns, m \in Numbers : Accounted(c, m)
AllNewborn == \A c \in Conns : Newborn(conn[c])

-----------------------------------------------------------------------------
(* Sequences that get and lose members at their ends.                        *)

LEMMA NotInUniq == ASSUME NEW x, NEW q, ~In(x, q) PROVE Uniq(x, q)
BY DEF In, Uniq

LEMMA AddedTo ==
    ASSUME NEW S, NEW q \in Seq(S), NEW y \in S, NEW x
    PROVE  /\ In(x, Append(q, y)) <=> In(x, q) \/ x = y
           /\ Uniq(x, q) /\ (x # y \/ ~In(x, q)) => Uniq(x, Append(q, y))
<1> DEFINE p == Append(q, y)
<1>1. /\ Len(p) = Len(q) + 1 /\ p[Len(q) + 1] = y /\ Len(q) \in Nat
      /\ \A i \in 1 .. Len(q) : p[i] = q[i]
  OBVIOUS
<1> HIDE DEF p
<1>2. \A i \in 1 .. Len(p) : i \in 1 .. Len(q) \/ i = Len(q) + 1
  BY <1>1
<1>3. \A i \in 1 .. Len(q) : i \in 1 .. Len(p)
  BY <1>1
<1>4. Len(q) + 1 \in 1 .. Len(p)
  BY <1>1
<1>5. In(x, p) <=> In(x, q) \/ x = y
  BY <1>1, <1>2, <1>3, <1>4 DEF In
<1>6. ASSUME Uniq(x, q), x # y \/ ~In(x, q) PROVE Uniq(x, p)
  BY <1>1, <1>2, <1>6 DEF In, Uniq
<1>7. QED
  BY <1>5, <1>6 DEF p

LEMMA TakenFrom ==
    ASSUME NEW S, NEW q \in Seq(S), q # <<>>, NEW x
    PROVE  /\ Head(q) \in S /\ Tail(q) \in Seq(S) /\ In(Head(q), q)
           /\ x # Head(q) => (In(x, Tail(q)) <=> In(x, q))
           /\ Uniq(x, q) => Uniq(x, Tail(q))
           /\ Uniq(x, q) /\ x = Head(q) => ~In(x, Tail(q))
<1> DEFINE p == Tail(q)
<1>1. /\ p \in Seq(S) /\ Len(q) \in Nat /\ Len(q) >= 1 /\ Len(p) = Len(q) - 1
      /\ \A i \in 1 .. Len(p) : p[i] = q[i + 1]
      /\ Head(q) = q[1] /\ Head(q) \in S
  OBVIOUS
<1> HIDE DEF p
<1>2. /\ 1 \in 1 .. Len(q)
      /\ \A i \in 1 .. Len(p) : i + 1 \in 1 .. Len(q) /\ i + 1 # 1
      /\ \A i, j \in 1 .. Len(p) : i + 1 = j + 1 => i = j
  BY <1>1
<1>3. \A i \in 1 .. Len(q) : i # 1 => i - 1 \in 1 .. Len(p) /\ (i - 1) + 1 = i
  BY <1>1
<1>4. In(Head(q), q)
  BY <1>1, <1>2 DEF In
<1>5. In(x, p) => In(x, q)
  BY <1>1, <1>2 DEF In
<1>6. ASSUME x # Head(q), In(x, q) PROVE In(x, p)
  <2>1. PICK i \in 1 .. Len(q) : q[i] = x
    BY <1>6 DEF In
  <2>2. i - 1 \in 1 .. Len(p) /\ p[i - 1] = x
    BY <1>1, <1>3, <1>6, <2>1
  <2>3. QED
    BY <2>2 DEF In
<1>7. Uniq(x, q) => Uniq(x, p)
  BY <1>1, <1>2 DEF Uniq
<1>8. Uniq(x, q) /\ x = Head(q) => ~In(x, p)
  BY <1>1, <1>2 DEF In, Uniq
<1>9. QED
  BY <1>1, <1>4, <1>5, <1>6, <1>7, <1>8 DEF p

-----------------------------------------------------------------------------
(* The sends in the queues of the loops.                                     *)

\* The sends of p are those of q.
Spared(q, p) ==
    \A c \in Conns, m \in Numbers :
        /\ In(<<"send", c, m>>, p) <=> In(<<"send", c, m>>, q)
        /\ Uniq(<<"send", c, m>>, q) => Uniq(<<"send", c, m>>, p)

AllSpared == \A l \in Loops : Spared(Queue(l), Queue(l)')

LEMMA SparedAppend ==
    ASSUME NEW q \in Seq(Functors), NEW g \in Functors, g[1] # "send"
    PROVE  Spared(q, Append(q, g))
<1>1. \A c \in Conns, m \in Numbers : <<"send", c, m>> # g
  OBVIOUS
<1>2. QED
  BY <1>1, AddedTo DEF Spared

LEMMA SparedTail ==
    ASSUME NEW q \in Seq(Functors), q # <<>>, Head(q)[1] # "send"
    PROVE  Spared(q, Tail(q))
<1>1. \A c \in Conns, m \in Numbers : <<"send", c, m>> # Head(q)
  OBVIOUS
<1>2. QED
  BY <1>1, TakenFrom DEF Spared

\* What is left of the queue of a loop that runs a functor.
LEMMA RunningQueue ==
    ASSUME LoopTypes, NEW l \in Loops, Running(l)
    PROVE  /\ Queue(l) \in Seq(Functors) /\ Queue(l) # <<>> /\ Head(Queue(l)) = Head(batch[l])
           /\ batch'[l] \o pending[l] = Tail(Queue(l))
           /\ \A k \in Loops \ {l} : batch'[k] = batch[k]
           /\ \A k \in Loops : batch'[k] \in Seq(Functors)
<1>1. /\ batch[l] # <<>> /\ batch' = [batch EXCEPT ![l] = Tail(@)]
      /\ batch \in [Loops -> Seq(Functors)] /\ pending \in [Loops -> Seq(Functors)]
  BY DEF Running, LoopTypes
<1>2. Tail(batch[l]) \in Seq(Functors) /\ batch'[l] = Tail(batch[l])
  BY <1>1
<1>3. \A k \in Loops : batch'[k] \in Seq(Functors)
  BY <1>1, <1>2
<1>4. QED
  BY <1>1, <1>2, <1>3, QueueTypes, ConcatTail DEF Queue

LEMMA PlainQueues ==
    ASSUME LoopTypes,
           batch' = batch \/ \E l \in Loops : Running(l) /\ Head(batch[l])[1] # "send",
           \/ pending' = pending
           \/ \E t \in Loops, g \in Functors :
                 g[1] # "send" /\ pending' = [pending EXCEPT ![t] = Append(@, g)]
    PROVE  AllSpared
<1> DEFINE left(k) == batch'[k] \o pending[k]
<1>1. \A k \in Loops : /\ batch[k] \in Seq(Functors) /\ pending[k] \in Seq(Functors)
                       /\ Queue(k) \in Seq(Functors)
  BY QueueTypes DEF LoopTypes
<1>2. \A k \in Loops : batch'[k] \in Seq(Functors) /\ Spared(Queue(k), left(k))
  <2>1. \A k \in Loops : left(k) = Queue(k) => Spared(Queue(k), left(k))
    BY DEF Spared
  <2>2. CASE batch' = batch
    BY <1>1, <2>1, <2>2 DEF Queue
  <2>3. ASSUME NEW l \in Loops, Running(l), Head(batch[l])[1] # "send"
        PROVE  \A k \in Loops : batch'[k] \in Seq(Functors) /\ Spared(Queue(k), left(k))
    <3>1. left(l) = Tail(Queue(l)) /\ Queue(l) # <<>> /\ Head(Queue(l))[1] # "send"
      BY <2>3, RunningQueue
    <3>2. Spared(Queue(l), left(l))
      BY <1>1, <3>1, SparedTail
    <3>3. \A k \in Loops \ {l} : left(k) = Queue(k)
      BY <2>3, RunningQueue DEF Queue
    <3>4. \A k \in Loops : batch'[k] \in Seq(Functors)
      BY <2>3, RunningQueue
    <3> HIDE DEF left
    <3>5. QED
      BY <2>1, <3>2, <3>3, <3>4
  <2>4. QED
    BY <2>2, <2>3
<1>3. \A k \in Loops : left(k) \in Seq(Functors)
  BY <1>1, <1>2
<1>4. CASE pending' = pending
  <2>1. \A k \in Loops : Queue(k)' = left(k)
    BY <1>4 DEF Queue
  <2>2. QED
    BY <1>2, <2>1 DEF AllSpared
<1>5. ASSUME NEW t \in Loops, NEW g \in Functors, g[1] # "send",
             pending' = [pending EXCEPT ![t] = Append(@, g)]
      PROVE  AllSpared
  <2>1. Queue(t)' = Append(left(t), g)
    <3>1. pending'[t] = Append(pending[t], g)
      BY <1>5 DEF LoopTypes
    <3>2. batch'[t] \o Append(pending[t], g) = Append(batch'[t] \o pending[t], g)
      BY <1>1, <1>2, ConcatAppend
    <3>3. QED
      BY <3>1, <3>2 DEF Queue
  <2>2. \A k \in Loops \ {t} : Queue(k)' = left(k)
    BY <1>5 DEF Queue, LoopTypes
  <2> HIDE DEF left
  <2>3. Spared(left(t), Append(left(t), g))
    BY <1>3, <1>5, SparedAppend
  <2>4. Spared(Queue(t), Queue(t)')
    BY <1>2, <2>1, <2>3 DEF Spared
  <2>5. QED
    BY <1>2, <2>2, <2>4 DEF AllSpared
<1>6. QED
  BY <1>4, <1>5

LEMMA SwappedQueues ==
    ASSUME LoopTypes, NEW l \in Loops, TakeFunctors(l) PROVE AllSpared
<1>1. SUFFICES ASSUME NEW k \in Loops PROVE Queue(k)' = Queue(k)
  BY DEF AllSpared, Spared
<1>2. CASE k = l
  <2>1. /\ batch[k] = <<>> /\ batch'[k] = pending[k] /\ pending'[k] = <<>>
        /\ pending[k] \in Seq(Functors)
    BY <1>2 DEF TakeFunctors, LoopTypes
  <2>2. QED
    BY <2>1, ConcatEmpty DEF Queue
<1>3. CASE k # l
  BY <1>3 DEF TakeFunctors, LoopTypes, Queue
<1>4. QED
  BY <1>2, <1>3


-----------------------------------------------------------------------------
(* What a step that does not touch a request leaves alone.                   *)

TaskSame(c, m) ==
    /\ TaskOf(c, m)' <=> TaskOf(c, m)
    /\ Uniq(<<c, m>>, tasks) => Uniq(<<c, m>>, tasks')
HandSame(c, m) == \A w \in Workers : Holds(w, c, m)' <=> Holds(w, c, m)
SendSame(c, m) ==
    \A l \in Loops :
        /\ SendAt(l, c, m)' <=> SendAt(l, c, m)
        /\ Uniq(<<"send", c, m>>, Queue(l)) => Uniq(<<"send", c, m>>, Queue(l)')
TookSame(c, m) ==
    /\ TookOf(c, m)' <=> TookOf(c, m)
    /\ Uniq(m, conn[c].took) => Uniq(m, conn'[c].took)
LiveSame(c, m) ==
    /\ m <= conn[c].asked => m <= conn'[c].asked
    /\ Live(conn'[c]) /\ m <= conn'[c].asked => Live(conn[c]) /\ m <= conn[c].asked

LEMMA Frame ==
    ASSUME NEW c \in Conns, NEW m \in Numbers, Accounted(c, m), TaskSame(c, m), HandSame(c, m),
           SendSame(c, m), TookSame(c, m), LiveSame(c, m)
    PROVE  Accounted(c, m)'
<1>1. HandOf(c, m)' <=> HandOf(c, m)
  BY DEF HandSame, HandOf
<1>2. SendOf(c, m)' <=> SendOf(c, m)
  BY DEF SendSame, SendOf
<1>3. Somewhere(c, m)' <=> Somewhere(c, m)
  BY <1>1, <1>2 DEF Somewhere, TaskSame, TookSame
<1>4. Kept(c, m)'
  BY <1>3 DEF Kept, LiveSame, Accounted
<1>5. Apart(c, m)'
  <2>1. Uniq(<<c, m>>, tasks') /\ Uniq(m, conn'[c].took) /\ \A l \in Loops : Uniq(<<"send", c, m>>, Queue(l)')
    BY DEF Accounted, Apart, TaskSame, TookSame, SendSame
  <2>2. /\ \A w, v \in Workers : Holds(w, c, m)' /\ Holds(v, c, m)' => w = v
        /\ \A l, k \in Loops : SendAt(l, c, m)' /\ SendAt(k, c, m)' => l = k
    BY DEF Accounted, Apart, HandSame, SendSame
  <2>3. /\ TaskOf(c, m)' => ~HandOf(c, m)' /\ ~SendOf(c, m)' /\ ~TookOf(c, m)'
        /\ HandOf(c, m)' => ~SendOf(c, m)' /\ ~TookOf(c, m)'
        /\ SendOf(c, m)' => ~TookOf(c, m)'
    BY <1>1, <1>2 DEF Accounted, Apart, TaskSame, TookSame
  <2>4. Somewhere(c, m)' => m <= conn'[c].asked
    BY <1>3 DEF Accounted, Apart, LiveSame
  <2>5. QED
    BY <2>1, <2>2, <2>3, <2>4 DEF Apart
<1>6. QED
  BY <1>4, <1>5 DEF Accounted

\* Nothing of what k counts changes.
SameTook(k, j) ==
    \A m \in Numbers : /\ In(m, j.took) <=> In(m, k.took)
                       /\ Uniq(m, k.took) => Uniq(m, j.took)
Keeps(k, j) ==
    /\ j.asked = k.asked
    /\ SameTook(k, j) \/ (k.asked = 0 /\ j.took = <<>>)
    /\ Live(j) => Live(k) \/ k.asked = 0
    /\ Newborn(k) => Newborn(j)

LEMMA KeptConn ==
    ASSUME NEW c \in Conns, NEW m \in Numbers, Accounted(c, m), conn[c].asked \in Nat, Keeps(conn[c], conn'[c])
    PROVE  TookSame(c, m) /\ LiveSame(c, m)
<1>1. CASE conn[c].asked # 0
  BY <1>1 DEF TookSame, LiveSame, TookOf, Keeps, SameTook
<1>2. CASE conn[c].asked = 0
  <2>1. ~(m <= conn[c].asked)
    BY <1>2 DEF Numbers
  <2>2. ~TookOf(c, m)
    BY <2>1 DEF Accounted, Apart, Somewhere
  <2>3. CASE SameTook(conn[c], conn'[c])
    BY <2>1, <2>3 DEF TookSame, LiveSame, TookOf, Keeps, SameTook
  <2>4. CASE conn'[c].took = <<>>
    <3>1. ~In(m, conn'[c].took) /\ Uniq(m, conn'[c].took)
      BY <2>4 DEF In, Uniq
    <3>2. QED
      BY <2>1, <2>2, <3>1 DEF TookSame, LiveSame, TookOf, Keeps
  <2>5. QED
    BY <2>3, <2>4 DEF Keeps
<1>3. QED
  BY <1>1, <1>2

LEMMA SparedSends ==
    ASSUME AllSpared, NEW c \in Conns, NEW m \in Numbers PROVE SendSame(c, m)
BY DEF AllSpared, Spared, SendSame, SendAt

\* A step that moves no request.
LEMMA ItemsFrame ==
    ASSUME NetCore, AllAccounted, AllNewborn, AllSpared, UNCHANGED tasks,
           \A w \in Workers, c \in Conns, m \in Numbers : Holds(w, c, m)' <=> Holds(w, c, m),
           \A c \in Conns : Keeps(conn[c], conn'[c])
    PROVE  AllAccounted' /\ AllNewborn'
<1>1. \A c \in Conns, m \in Numbers : Accounted(c, m)'
  <2> SUFFICES ASSUME NEW c \in Conns, NEW m \in Numbers PROVE Accounted(c, m)'
    OBVIOUS
  <2>1. Accounted(c, m) /\ Keeps(conn[c], conn'[c]) /\ conn[c].asked \in Nat
    BY DEF AllAccounted, NetCore, NetTypes, ServerTypes, ConnType
  <2>2. TookSame(c, m) /\ LiveSame(c, m)
    BY <2>1, KeptConn
  <2>3. TaskSame(c, m)
    BY DEF TaskSame, TaskOf
  <2>4. HandSame(c, m) /\ SendSame(c, m)
    BY SparedSends DEF HandSame
  <2>5. QED
    BY <2>1, <2>2, <2>3, <2>4, Frame
<1>2. AllNewborn'
  BY DEF AllNewborn, Keeps
<1>3. QED
  BY <1>1, <1>2 DEF AllAccounted

LEMMA KeepsOne ==
    ASSUME conn \in [Conns -> ConnType], NEW c \in Conns, NEW j, conn' = [conn EXCEPT ![c] = j], Keeps(conn[c], j)
    PROVE  \A d \in Conns : Keeps(conn[d], conn'[d])
<1>1. \A d \in Conns : conn'[d] = IF d = c THEN j ELSE conn[d]
  OBVIOUS
<1>2. \A d \in Conns : Keeps(conn[d], conn[d])
  BY DEF Keeps, SameTook
<1>3. QED
  BY <1>1, <1>2

LEMMA KeepsAll ==
    ASSUME UNCHANGED conn PROVE \A d \in Conns : Keeps(conn[d], conn'[d])
BY DEF Keeps, SameTook

\* Fields that do not matter here.
LEMMA KeepsFields ==
    ASSUME NEW k, NEW j, j.asked = k.asked, j.took = k.took, j.state = k.state, j.peer = k.peer
    PROVE  Keeps(k, j)
BY DEF Keeps, SameTook, Live, Newborn

LEMMA KeepsEstablish ==
    ASSUME conn \in [Conns -> ConnType], NEW l, NEW c \in Conns, NEW k \in ConnType, Establish(l, c, k),
           k.asked = 0, conn[c].asked = 0, k.took = conn[c].took, k.peer # "away"
    PROVE  \A d \in Conns : Keeps(conn[d], conn'[d])
<1> DEFINE up == [k EXCEPT !.state = "Connected", !.events = {"in"}, !.registered = TRUE]
           yes == [up EXCEPT !.counted = TRUE]
           no == [up EXCEPT !.state = "Disconnecting"]
<1>1. conn' = [conn EXCEPT ![c] = yes] \/ conn' = [conn EXCEPT ![c] = no]
  BY DEF Establish
<1>2. Keeps(conn[c], yes) /\ Keeps(conn[c], no)
  BY DEF Keeps, SameTook, Live, Newborn, ConnType
<1> HIDE DEF yes, no
<1>3. QED
  BY <1>1, <1>2, KeepsOne

LEMMA KeepsClosed ==
    ASSUME conn \in [Conns -> ConnType], NEW c \in Conns, conn' = [conn EXCEPT ![c] = Closed(@)],
           conn[c].state # "none"
    PROVE  \A d \in Conns : Keeps(conn[d], conn'[d])
<1> DEFINE j == Closed(conn[c])
<1>1. Keeps(conn[c], j) /\ conn' = [conn EXCEPT ![c] = j]
  BY DEF Closed, Keeps, SameTook, Live, Newborn, ConnType
<1> HIDE DEF j
<1>2. QED
  BY <1>1, KeepsOne

\* Only the functors that send concern the requests.
Posts == QueueNothing \/ \E t \in Loops, kind \in Plain, c \in Conns, own \in Loops : QueueInLoop(t, <<kind, c>>, own)

LEMMA PlainStep ==
    ASSUME LoopTypes, Posts, batch' = batch \/ \E l \in Loops : Running(l) /\ Head(batch[l])[1] # "send"
    PROVE  AllSpared
<1>1. CASE QueueNothing
  BY <1>1, PlainQueues DEF QueueNothing
<1>2. ASSUME NEW t \in Loops, NEW kind \in Plain, NEW c \in Conns, NEW own, QueueInLoop(t, <<kind, c>>, own)
      PROVE  AllSpared
  <2> DEFINE g == <<kind, c>>
  <2>1. g \in Functors /\ g[1] # "send" /\ pending' = [pending EXCEPT ![t] = Append(@, g)]
    BY <1>2, PlainFunctor DEF Plain, QueueInLoop
  <2> HIDE DEF g
  <2>2. QED
    BY <2>1, PlainQueues
<1>3. QED
  BY <1>1, <1>2 DEF Posts

\* A handler, a functor or another step that moves no request.
LEMMA PlainItems ==
    ASSUME NetCore, AllAccounted, AllNewborn, AllSpared, UNCHANGED <<tasks, hand, waking>>,
           \A d \in Conns : Keeps(conn[d], conn'[d])
    PROVE  AllAccounted' /\ AllNewborn'
<1>1. \A w \in Workers, c \in Conns, m \in Numbers : Holds(w, c, m)' <=> Holds(w, c, m)
  BY DEF Holds
<1>2. QED
  BY <1>1, ItemsFrame

LEMMA AcceptItems ==
    ASSUME NetCore, AllAccounted, AllNewborn, HandleAccept \/ AcceptFails
    PROVE  AllAccounted' /\ AllNewborn'
<1>1. conn \in [Conns -> ConnType] /\ LoopTypes /\ Base \in Loops
  BY ConnectionsAssumption DEF NetCore, NetTypes, ServerTypes
<1>2. UNCHANGED <<tasks, hand, waking, batch>>
  BY DEF HandleAccept, AcceptFails, Handling, poolVars
<1>3. CASE HandleAccept
  <2> DEFINE next == IF io = <<>> THEN Base ELSE io[nextIo]
             K(c) == [conn[c] EXCEPT !.state = "Connecting", !.home = next, !.listed = TRUE]
  <2>1. PICK c \in Backlog : IF next = Base THEN Establish(Base, c, K(c))
                             ELSE conn' = [conn EXCEPT ![c] = K(c)] /\ QueueInLoop(next, <<"established", c>>, Base)
    BY <1>3 DEF HandleAccept
  <2>2. c \in Conns /\ conn[c] \in ConnType /\ conn[c].state = "none" /\ conn[c].peer # "away"
    BY <1>1, <2>1 DEF Backlog
  <2>3. next \in Loops
    BY ConnectionsAssumption, PlanTypes DEF NetCore, NetTypes, ServerTypes
  <2>4. conn[c].asked = 0
    BY <2>2 DEF AllNewborn, Newborn
  <2> HIDE DEF next
  <2>5. PICK k \in ConnType : k = K(c) /\ k.asked = 0 /\ k.took = conn[c].took /\ k.peer = conn[c].peer
                              /\ k.state = "Connecting"
    <3> DEFINE j == K(c)
    <3>1. j \in ConnType /\ j.asked = 0 /\ j.took = conn[c].took /\ j.peer = conn[c].peer /\ j.state = "Connecting"
      BY <2>2, <2>3, <2>4 DEF ConnType, States
    <3> HIDE DEF K
    <3>2. QED
      BY <3>1
  <2> HIDE DEF K
  <2>6. CASE next = Base
    <3>1. Establish(Base, c, k)
      BY <2>1, <2>5, <2>6
    <3>2. \A d \in Conns : Keeps(conn[d], conn'[d])
      BY <1>1, <2>2, <2>4, <2>5, <3>1, KeepsEstablish
    <3>3. Posts
      BY <1>1, <2>2, <3>1 DEF Establish, Posts, Plain
    <3>4. QED
      BY <1>1, <1>2, <3>2, <3>3, PlainStep, PlainItems
  <2>7. CASE next # Base
    <3>1. conn' = [conn EXCEPT ![c] = k] /\ QueueInLoop(next, <<"established", c>>, Base)
      BY <2>1, <2>5, <2>7
    <3>2. Keeps(conn[c], k)
      BY <2>2, <2>4, <2>5 DEF Keeps, SameTook, Live, Newborn
    <3>3. \A d \in Conns : Keeps(conn[d], conn'[d])
      BY <1>1, <2>2, <3>1, <3>2, KeepsOne
    <3>4. Posts
      BY <1>1, <2>2, <2>3, <3>1 DEF Posts, Plain
    <3>5. QED
      BY <1>1, <1>2, <3>3, <3>4, PlainStep, PlainItems
  <2>8. QED
    BY <2>6, <2>7
<1>4. CASE AcceptFails
  <2>1. PICK c \in Backlog : conn' = [conn EXCEPT ![c] = NewConn]
    BY <1>4 DEF AcceptFails
  <2>2. c \in Conns /\ conn[c].state = "none" /\ conn[c].asked = 0
    BY <2>1 DEF AllNewborn, Newborn, Backlog
  <2>3. Keeps(conn[c], NewConn)
    BY <2>2 DEF Keeps, Live, Newborn, NewConn
  <2>4. \A d \in Conns : Keeps(conn[d], conn'[d])
    BY <1>1, <2>1, <2>2, <2>3, KeepsOne
  <2>5. Posts
    BY <1>4 DEF AcceptFails, Posts
  <2>6. QED
    BY <1>1, <1>2, <2>4, <2>5, PlainStep, PlainItems
<1>5. QED
  BY <1>3, <1>4

LEMMA ReadWriteItems ==
    ASSUME NetCore, AllAccounted, AllNewborn, NEW l \in Loops, NEW c \in Conns, HandleRead(l, c) \/ HandleWrite(l, c)
    PROVE  AllAccounted' /\ AllNewborn'
<1>1. conn \in [Conns -> ConnType] /\ conn[c] \in ConnType /\ LoopTypes /\ Base \in Loops
  BY ConnectionsAssumption DEF NetCore, NetTypes, ServerTypes
<1>2. UNCHANGED <<tasks, hand, waking, batch>>
  BY DEF HandleRead, HandleWrite, Handling, poolVars
<1>3. Posts
  BY <1>1 DEF HandleRead, HandleWrite, HandleClose, Posts, Plain
<1>4. SUFFICES \A d \in Conns : Keeps(conn[d], conn'[d])
  BY <1>1, <1>2, <1>3, PlainStep, PlainItems
<1>5. CASE HandleRead(l, c)
  <2>1. CASE HandleClose(l, c)
    <3>1. conn[c].state # "none"
      BY <1>5 DEF HandleRead, Handling, NetCore, Core, AllActive, ActiveOK, Open
    <3>2. QED
      BY <1>1, <2>1, <3>1, KeepsClosed DEF HandleClose
  <2>2. CASE conn' = [conn EXCEPT ![c].lines = @ + conn[c].inbox, ![c].inbox = 0]
    <3>1. /\ \A d \in Conns \ {c} : conn'[d] = conn[d]
          /\ conn'[c].asked = conn[c].asked /\ conn'[c].took = conn[c].took
          /\ conn'[c].state = conn[c].state /\ conn'[c].peer = conn[c].peer
      BY <1>1, <2>2 DEF ConnType
    <3>2. QED
      BY <3>1, KeepsFields
  <2>3. CASE conn' = [conn EXCEPT ![c].peer = "gone", ![c].inbox = 0]
    <3> DEFINE j == [conn[c] EXCEPT !.peer = "gone", !.inbox = 0]
    <3>1. conn' = [conn EXCEPT ![c] = j] /\ Keeps(conn[c], j)
      BY <1>1, <2>3 DEF ConnType, Keeps, SameTook, Live, Newborn
    <3> HIDE DEF j
    <3>2. QED
      BY <1>1, <3>1, KeepsOne
  <2>4. QED
    BY <1>5, <2>1, <2>2, <2>3 DEF HandleRead
<1>6. CASE HandleWrite(l, c)
  <2>1. CASE UNCHANGED conn
    BY <2>1, KeepsAll
  <2>2. CASE ~UNCHANGED conn
    <3>1. PICK n \in 1 .. Len(conn[c].out) :
              conn' = [conn EXCEPT ![c].got = @ \o SubSeq(conn[c].out, 1, n),
                                   ![c].out = SubSeq(conn[c].out, n + 1, Len(conn[c].out)),
                                   ![c].events = IF n = Len(conn[c].out) THEN @ \ {"out"} ELSE @]
      BY <1>6, <2>2 DEF HandleWrite
    <3>2. /\ \A d \in Conns \ {c} : conn'[d] = conn[d]
          /\ conn'[c].asked = conn[c].asked /\ conn'[c].took = conn[c].took
          /\ conn'[c].state = conn[c].state /\ conn'[c].peer = conn[c].peer
      BY <1>1, <3>1 DEF ConnType
    <3>3. QED
      BY <3>2, KeepsFields
  <2>3. QED
    BY <2>1, <2>2
<1>7. QED
  BY <1>5, <1>6

LEMMA PlainFunctorItems ==
    ASSUME NetCore, AllAccounted, AllNewborn, NEW l \in Loops,
           RunEstablished(l) \/ RunForceClose(l) \/ RunRemove(l) \/ RunRelease(l) \/ RunDestroyed(l)
    PROVE  AllAccounted' /\ AllNewborn'
<1>1. PICK c : c = Head(batch[l])[2]
  OBVIOUS
<1>2. Running(l) /\ Head(batch[l])[1] # "send"
  BY DEF RunEstablished, RunForceClose, RunRemove, RunRelease, RunDestroyed, Functor
<1>3. /\ c \in Conns /\ conn \in [Conns -> ConnType] /\ conn[c] \in ConnType
      /\ Head(batch[l]) \in Functors /\ FunctorOK(l, Head(batch[l]))
  BY <1>1, <1>2, FunctorRuns
<1>4. UNCHANGED <<tasks, hand, waking>> /\ LoopTypes /\ Base \in Loops
  BY <1>2, ConnectionsAssumption
     DEF RunEstablished, RunForceClose, RunRemove, RunRelease, RunDestroyed, Running, poolVars, NetCore, NetTypes
<1>5. Posts
  <2>1. CASE RunEstablished(l)
    BY <1>1, <1>3, <2>1 DEF RunEstablished, Establish, Posts, Plain
  <2>2. CASE RunForceClose(l)
    BY <1>1, <1>3, <1>4, <2>2 DEF RunForceClose, ForceCloseInLoop, HandleClose, Posts, Plain, QueueNothing
  <2>3. CASE RunRemove(l)
    <3>1. conn[c].home \in Loops
      <4>1. conn[c].state = "Disconnected"
        BY <1>1, <1>3, <2>3 DEF RunRemove, Functor, FunctorOK
      <4>2. QED
        BY <1>3, <4>1 DEF NetCore, Core, AllLife, LifeOK
    <3>2. QED
      BY <1>1, <1>3, <2>3, <3>1 DEF RunRemove, Posts, Plain
  <2>4. CASE RunRelease(l) \/ RunDestroyed(l)
    BY <2>4 DEF RunRelease, RunDestroyed, Posts
  <2>5. QED
    BY <2>1, <2>2, <2>3, <2>4
<1>6. \A d \in Conns : Keeps(conn[d], conn'[d])
  <2>1. CASE UNCHANGED conn
    BY <2>1, KeepsAll
  <2>2. CASE RunEstablished(l)
    <3>1. conn[c].state = "Connecting" /\ Establish(l, c, conn[c])
      BY <1>1, <1>3, <2>2 DEF RunEstablished, Functor, FunctorOK
    <3>2. conn[c].asked = 0 /\ conn[c].peer # "away"
      BY <1>3, <3>1 DEF AllNewborn, Newborn
    <3>3. QED
      BY <1>3, <3>1, <3>2, KeepsEstablish
  <2>3. CASE conn' = [conn EXCEPT ![c] = Closed(@)] /\ conn[c].state # "none"
    BY <1>3, <2>3, KeepsClosed
  <2>4. CASE conn' = [conn EXCEPT ![c].listed = FALSE]
    <3>1. /\ \A d \in Conns \ {c} : conn'[d] = conn[d]
          /\ conn'[c].asked = conn[c].asked /\ conn'[c].took = conn[c].took
          /\ conn'[c].state = conn[c].state /\ conn'[c].peer = conn[c].peer
      BY <1>3, <2>4 DEF ConnType
    <3>2. QED
      BY <3>1, KeepsFields
  <2>5. RunForceClose(l) \/ RunDestroyed(l) \/ RunRelease(l)
           => UNCHANGED conn \/ (conn' = [conn EXCEPT ![c] = Closed(@)] /\ conn[c].state # "none")
    BY <1>1 DEF RunForceClose, RunDestroyed, RunRelease, ForceCloseInLoop, HandleClose
  <2>6. RunRemove(l) => conn' = [conn EXCEPT ![c].listed = FALSE]
    BY <1>1 DEF RunRemove
  <2>7. QED
    BY <2>1, <2>2, <2>3, <2>4, <2>5, <2>6
<1>7. QED
  BY <1>2, <1>4, <1>5, <1>6, PlainStep, PlainItems

LEMMA ClientItems ==
    ASSUME NetCore, AllAccounted, AllNewborn, NEW c \in plan.clients, ClientStep(c) \/ DestroyConnection(c)
    PROVE  AllAccounted' /\ AllNewborn'
<1>1. /\ c \in Conns /\ conn \in [Conns -> ConnType] /\ conn[c] \in ConnType /\ LoopTypes
      /\ Newborn(conn[c]) /\ LifeOK(c) /\ Base \in Loops
  BY PlanTypes, ConnectionsAssumption DEF NetCore, NetTypes, ServerTypes, AllNewborn, Core, AllLife
<1>2. UNCHANGED <<tasks, hand, waking, batch>>
  BY DEF ClientStep, DestroyConnection, loopVars, poolVars
<1>3. Posts
  <2>1. CASE ClientStep(c)
    BY <2>1 DEF ClientStep, Posts, QueueNothing, loopVars
  <2>2. CASE DestroyConnection(c)
    <3>1. conn[c].home \in Loops
      BY <1>1, <2>2 DEF DestroyConnection, LifeOK
    <3>2. QED
      BY <1>1, <2>2, <3>1 DEF DestroyConnection, Posts, Plain
  <2>3. QED
    BY <2>1, <2>2
<1>4. Keeps(conn[c], conn'[c])
  <2>1. CASE DestroyConnection(c)
    <3>1. /\ conn'[c].asked = conn[c].asked /\ conn'[c].took = conn[c].took
          /\ conn'[c].state = conn[c].state /\ conn'[c].peer = conn[c].peer
      BY <1>1, <2>1 DEF DestroyConnection, ConnType
    <3>2. QED
      BY <3>1, KeepsFields
  <2>2. CASE ClientStep(c)
    <3>1. /\ conn'[c].asked = conn[c].asked /\ conn'[c].took = conn[c].took /\ conn'[c].state = conn[c].state
          /\ \/ conn'[c].peer = conn[c].peer
             \/ conn[c].peer = "away" /\ conn'[c].peer = "open"
             \/ conn'[c].peer \in {"closed", "reset"}
      BY <1>1, <2>2 DEF ClientStep, ConnType
    <3>2. QED
      BY <1>1, <3>1 DEF Keeps, SameTook, Live, Newborn
  <2>3. QED
    BY <2>1, <2>2
<1>5. \A d \in Conns \ {c} : conn'[d] = conn[d]
  BY <1>1 DEF ClientStep, DestroyConnection
<1>6. \A d \in Conns : Keeps(conn[d], conn'[d])
  <2>1. \A d \in Conns : Keeps(conn[d], conn[d])
    BY DEF Keeps, SameTook
  <2>2. QED
    BY <1>4, <1>5, <2>1
<1>7. QED
  BY <1>1, <1>2, <1>3, <1>6, PlainStep, PlainItems

\* What the library does with a message.
LEMMA SendTook ==
    ASSUME NEW k \in ConnType, NEW m \in Nat, NEW j \in SendInLoop(k, m) \cup Send(k, m)
    PROVE  /\ j \in ConnType /\ j.state = k.state /\ j.peer = k.peer /\ j.asked = k.asked
           /\ (j.took = k.took /\ ~Live(k)) \/ j.took = Append(k.took, m)
<1>1. (j = k /\ ~Live(k)) \/ \E n \in 0 .. 2 : j = Wrote(k, m, n)
  <2>1. (j = k /\ ~Live(k)) \/ j \in SendInLoop(k, m)
    BY DEF Send, Live
  <2> DEFINE direct == "out" \notin k.events /\ k.out = <<>>
             ns == IF direct THEN 0 .. 2 ELSE {0}
  <2>2. j \in SendInLoop(k, m) => (j = k /\ ~Live(k)) \/ j \in {Wrote(k, m, n) : n \in ns}
    BY DEF SendInLoop, Live
  <2>3. ns \subseteq 0 .. 2
    OBVIOUS
  <2> HIDE DEF ns
  <2>4. QED
    BY <2>1, <2>2, <2>3
<1>2. j \in ConnType /\ SameLife(k, j) /\ SameRequests(k, j)
  BY SendTypes
<1>3. \A n : Wrote(k, m, n).took = Append(k.took, m) /\ Wrote(k, m, n).peer = k.peer
  BY DEF Wrote, ConnType
<1>4. QED
  BY <1>1, <1>2, <1>3 DEF SameLife, SameRequests

LEMMA EndOfLinesItems ==
    ASSUME NetCore, AllAccounted, AllNewborn, NEW l \in Loops, EndOfLines(l)
    PROVE  AllAccounted' /\ AllNewborn'
<1>1. PICK c : c = reading[l]
  OBVIOUS
<1>2. /\ c \in Conns /\ conn \in [Conns -> ConnType] /\ conn[c] \in ConnType /\ LoopTypes
      /\ Newborn(conn[c])
  BY <1>1, ReadingConn DEF EndOfLines, NetCore, NetTypes, AllNewborn
<1>3. UNCHANGED <<tasks, hand, waking, batch>> /\ Posts
  BY <1>1, <1>2 DEF EndOfLines, poolVars, Posts, Plain
<1>4. \A d \in Conns : Keeps(conn[d], conn'[d])
  <2>1. CASE UNCHANGED conn
    BY <2>1, KeepsAll
  <2>2. CASE ~UNCHANGED conn
    <3>1. PICK j \in Send(conn[c], 0) : conn' = [conn EXCEPT ![c] = [j EXCEPT !.state = "Disconnecting"]]
      BY <1>1, <2>2 DEF EndOfLines
    <3>2. conn[c].state \in {"Connected", "Disconnecting"}
      BY <1>1, <2>2 DEF EndOfLines
    <3>3. j \in ConnType /\ j.peer = conn[c].peer /\ j.asked = conn[c].asked
          /\ (j.took = conn[c].took \/ j.took = Append(conn[c].took, 0))
      BY <1>2, <3>1, SendTook
    <3>4. SameTook(conn[c], j)
      <4>1. CASE j.took = conn[c].took
        BY <4>1 DEF SameTook
      <4>2. CASE j.took = Append(conn[c].took, 0)
        <5>1. conn[c].took \in Seq(Nat) /\ 0 \in Nat /\ \A m \in Numbers : m # 0
          BY <1>2 DEF ConnType, Numbers
        <5>2. QED
          BY <4>2, <5>1, AddedTo DEF SameTook
      <4>3. QED
        BY <3>3, <4>1, <4>2
    <3>5. PICK i : i = [j EXCEPT !.state = "Disconnecting"]
      OBVIOUS
    <3>6. i.asked = j.asked /\ i.took = j.took /\ i.state = "Disconnecting" /\ i.peer = j.peer
      BY <3>3, <3>5 DEF ConnType
    <3>7. Keeps(conn[c], i)
      BY <1>2, <3>2, <3>3, <3>4, <3>6 DEF Keeps, SameTook, Live, Newborn
    <3>8. QED
      BY <1>2, <3>1, <3>5, <3>7, KeepsOne
  <2>3. QED
    BY <2>1, <2>2
<1>5. QED
  BY <1>2, <1>3, <1>4, PlainStep, PlainItems

-----------------------------------------------------------------------------
(* The steps that move a request.                                            *)

\* A request that was not asked is nowhere.
LEMMA Unasked ==
    ASSUME NEW c \in Conns, NEW m \in Numbers, Accounted(c, m), ~(m <= conn[c].asked)
    PROVE  ~TaskOf(c, m) /\ ~HandOf(c, m) /\ ~SendOf(c, m) /\ ~TookOf(c, m)
BY DEF Accounted, Apart, Somewhere

LEMMA NowAtTask ==
    ASSUME NEW c, NEW m, TaskOf(c, m)', Uniq(<<c, m>>, tasks'),
           ~HandOf(c, m)', ~SendOf(c, m)', ~TookOf(c, m)', m <= conn'[c].asked
    PROVE  Accounted(c, m)'
<1>1. \A l \in Loops : ~SendAt(l, c, m)' /\ Uniq(<<"send", c, m>>, Queue(l)')
  BY NotInUniq DEF SendOf, SendAt
<1>2. Uniq(m, conn'[c].took)
  BY NotInUniq DEF TookOf
<1>3. \A w \in Workers : ~Holds(w, c, m)'
  BY DEF HandOf
<1>4. QED
  BY <1>1, <1>2, <1>3 DEF Accounted, Apart, Kept, Somewhere

LEMMA NowInHand ==
    ASSUME NEW c, NEW m, NEW w \in Workers, \A v \in Workers : Holds(v, c, m)' <=> v = w,
           ~TaskOf(c, m)', ~SendOf(c, m)', ~TookOf(c, m)', m <= conn'[c].asked
    PROVE  Accounted(c, m)'
<1>1. \A l \in Loops : ~SendAt(l, c, m)' /\ Uniq(<<"send", c, m>>, Queue(l)')
  BY NotInUniq DEF SendOf, SendAt
<1>2. Uniq(m, conn'[c].took) /\ Uniq(<<c, m>>, tasks')
  BY NotInUniq DEF TookOf, TaskOf
<1>3. HandOf(c, m)'
  BY DEF HandOf
<1>4. QED
  BY <1>1, <1>2, <1>3 DEF Accounted, Apart, Kept, Somewhere

LEMMA NowSent ==
    ASSUME NEW c, NEW m, NEW t \in Loops, \A l \in Loops : SendAt(l, c, m)' <=> l = t,
           \A l \in Loops : Uniq(<<"send", c, m>>, Queue(l)'),
           ~TaskOf(c, m)', ~HandOf(c, m)', ~TookOf(c, m)', m <= conn'[c].asked
    PROVE  Accounted(c, m)'
<1>1. Uniq(m, conn'[c].took) /\ Uniq(<<c, m>>, tasks')
  BY NotInUniq DEF TookOf, TaskOf
<1>2. \A w \in Workers : ~Holds(w, c, m)'
  BY DEF HandOf
<1>3. SendOf(c, m)'
  BY DEF SendOf
<1>4. QED
  BY <1>1, <1>2, <1>3 DEF Accounted, Apart, Kept, Somewhere

\* Answered, or lost with its connection.
LEMMA NowAnswered ==
    ASSUME NEW c, NEW m, TookOf(c, m)' \/ ~Live(conn'[c]), Uniq(m, conn'[c].took),
           ~TaskOf(c, m)', ~HandOf(c, m)', ~SendOf(c, m)', m <= conn'[c].asked
    PROVE  Accounted(c, m)'
<1>1. \A l \in Loops : ~SendAt(l, c, m)' /\ Uniq(<<"send", c, m>>, Queue(l)')
  BY NotInUniq DEF SendOf, SendAt
<1>2. Uniq(<<c, m>>, tasks')
  BY NotInUniq DEF TaskOf
<1>3. \A w \in Workers : ~Holds(w, c, m)'
  BY DEF HandOf
<1>4. QED
  BY <1>1, <1>2, <1>3 DEF Accounted, Apart, Kept, Somewhere

LEMMA HandleLineItems ==
    ASSUME NetCore, AllAccounted, AllNewborn, NEW l \in Loops, HandleLine(l)
    PROVE  AllAccounted' /\ AllNewborn'
<1> DEFINE K(c) == [conn[c] EXCEPT !.lines = @ - 1, !.asked = @ + 1]
<1>1. PICK c : c = reading[l]
  OBVIOUS
<1>2. /\ c \in Conns /\ conn \in [Conns -> ConnType] /\ conn[c] \in ConnType /\ LoopTypes
      /\ conn[c].state \in Past /\ conn[c].lines > 0 /\ tasks \in Seq(Tasks)
  BY <1>1, ReadingConn DEF HandleLine, ReadingOK, NetCore, NetTypes, PoolTypes
<1>3. PICK k \in ConnType : /\ k = K(c) /\ k.asked = conn[c].asked + 1 /\ k.took = conn[c].took
                            /\ k.state = conn[c].state /\ k.peer = conn[c].peer
  <2> DEFINE j == K(c)
  <2>1. j \in ConnType /\ j.asked = conn[c].asked + 1
    BY <1>2, LineParsed
  <2>2. j.took = conn[c].took /\ j.state = conn[c].state /\ j.peer = conn[c].peer
    BY <1>2 DEF ConnType
  <2> HIDE DEF K
  <2>3. QED
    BY <2>1, <2>2
<1>4. PICK n : n = k.asked
  OBVIOUS
<1>5. /\ \/ TryPut(<<c, n>>) /\ conn' = [conn EXCEPT ![c] = k]
         \/ Answer(c, k, n) /\ UNCHANGED poolVars
      /\ UNCHANGED loopVars
  BY <1>1, <1>3, <1>4 DEF HandleLine
<1> HIDE DEF K
<1>6. conn[c].asked \in Nat /\ n \in Numbers /\ n \in Nat /\ n = conn[c].asked + 1 /\ conn[c].took \in Seq(Nat)
  <2>1. conn[c].asked \in Nat /\ conn[c].took \in Seq(Nat)
    BY <1>2 DEF ConnType
  <2>2. QED
    BY <1>3, <1>4, <2>1 DEF Numbers
<1>7. PICK j : /\ conn' = [conn EXCEPT ![c] = j] /\ j.asked = n /\ j.state = conn[c].state /\ j.peer = conn[c].peer
               /\ \/ TryPut(<<c, n>>) /\ j.took = conn[c].took
                  \/ /\ UNCHANGED poolVars
                     /\ j.took = Append(conn[c].took, n) \/ (j.took = conn[c].took /\ ~Live(j))
  <2>1. CASE TryPut(<<c, n>>) /\ conn' = [conn EXCEPT ![c] = k]
    BY <1>3, <1>4, <2>1
  <2>2. CASE Answer(c, k, n) /\ UNCHANGED poolVars
    <3>1. PICK i \in Send(k, n) : conn' = [conn EXCEPT ![c] = i]
      BY <2>2 DEF Answer
    <3>2. /\ i.state = k.state /\ i.peer = k.peer /\ i.asked = k.asked
          /\ (i.took = k.took /\ ~Live(k)) \/ i.took = Append(k.took, n)
      BY <1>6, <3>1, SendTook
    <3>3. QED
      BY <1>3, <1>4, <2>2, <3>1, <3>2 DEF Live
  <2>3. QED
    BY <1>5, <2>1, <2>2
<1>8. conn'[c] = j /\ \A d \in Conns \ {c} : conn'[d] = conn[d]
  BY <1>2, <1>7
<1>9. UNCHANGED <<hand, waking>> /\ \A q \in Loops : Queue(q)' = Queue(q)
  BY <1>5, <1>7 DEF loopVars, poolVars, TryPut, Queue
<1>10. \A d \in Conns, m \in Numbers : HandSame(d, m) /\ SendSame(d, m)
  BY <1>9 DEF HandSame, SendSame, Holds, SendAt
<1>11. \A d \in Conns, m \in Numbers : d # c \/ m # n => Accounted(d, m)'
  <2> SUFFICES ASSUME NEW d \in Conns, NEW m \in Numbers, d # c \/ m # n PROVE Accounted(d, m)'
    OBVIOUS
  <2>1. TaskSame(d, m)
    <3>1. CASE UNCHANGED tasks
      BY <3>1 DEF TaskSame, TaskOf
    <3>2. CASE tasks' = Append(tasks, <<c, n>>)
      <4>1. <<d, m>> # <<c, n>> /\ <<c, n>> \in Tasks
        BY <1>2, <1>6 DEF Tasks
      <4>2. QED
        BY <1>2, <3>2, <4>1, AddedTo DEF TaskSame, TaskOf
    <3>3. QED
      BY <1>7, <3>1, <3>2 DEF TryPut, poolVars
  <2>2. TookSame(d, m)
    <3>1. CASE conn'[d].took = conn[d].took
      BY <3>1 DEF TookSame, TookOf
    <3>2. CASE d = c /\ conn'[d].took = Append(conn[c].took, n)
      BY <1>6, <3>2, AddedTo DEF TookSame, TookOf
    <3>3. QED
      BY <1>7, <1>8, <3>1, <3>2
  <2>3. LiveSame(d, m)
    <3>1. CASE d # c
      BY <1>8, <3>1 DEF LiveSame
    <3>2. CASE d = c
      BY <1>6, <1>7, <1>8, <3>2 DEF LiveSame, Live, Numbers
    <3>3. QED
      BY <3>1, <3>2
  <2>4. Accounted(d, m)
    BY DEF AllAccounted
  <2>5. QED
    BY <1>10, <2>1, <2>2, <2>3, <2>4, Frame
<1>12. Accounted(c, n)'
  <2>1. ~TaskOf(c, n) /\ ~HandOf(c, n) /\ ~SendOf(c, n) /\ ~TookOf(c, n)
    <3>1. ~(n <= conn[c].asked) /\ Accounted(c, n)
      BY <1>2, <1>6 DEF AllAccounted
    <3>2. QED
      BY <1>2, <1>6, <3>1, Unasked
  <2>2. ~HandOf(c, n)' /\ ~SendOf(c, n)' /\ n <= conn'[c].asked
    <3>1. HandSame(c, n) /\ SendSame(c, n)
      BY <1>2, <1>6, <1>10
    <3>2. ~HandOf(c, n)' /\ ~SendOf(c, n)'
      BY <2>1, <3>1 DEF HandOf, SendOf, HandSame, SendSame
    <3>3. n <= conn'[c].asked
      BY <1>6, <1>7, <1>8
    <3>4. QED
      BY <3>2, <3>3
  <2>3. CASE TryPut(<<c, n>>) /\ j.took = conn[c].took
    <3>1. tasks' = Append(tasks, <<c, n>>) /\ <<c, n>> \in Tasks /\ ~In(<<c, n>>, tasks)
      BY <1>2, <1>6, <2>1, <2>3 DEF TryPut, Tasks, TaskOf
    <3>2. TaskOf(c, n)' /\ Uniq(<<c, n>>, tasks')
      BY <1>2, <3>1, AddedTo, NotInUniq DEF TaskOf
    <3>3. ~TookOf(c, n)'
      BY <1>8, <2>1, <2>3 DEF TookOf
    <3>4. QED
      BY <2>2, <3>2, <3>3, NowAtTask
  <2>4. CASE UNCHANGED poolVars /\ (j.took = Append(conn[c].took, n) \/ (j.took = conn[c].took /\ ~Live(j)))
    <3>1. ~TaskOf(c, n)' /\ ~In(n, conn[c].took)
      BY <2>1, <2>4 DEF TaskOf, TookOf, poolVars
    <3>2. CASE j.took = Append(conn[c].took, n)
      <4>1. TookOf(c, n)' /\ Uniq(n, conn'[c].took)
        BY <1>6, <1>8, <3>1, <3>2, AddedTo, NotInUniq DEF TookOf
      <4>2. QED
        BY <2>2, <3>1, <4>1, NowAnswered
    <3>3. CASE j.took = conn[c].took /\ ~Live(j)
      <4>1. Uniq(n, conn'[c].took) /\ ~Live(conn'[c])
        BY <1>8, <3>1, <3>3, NotInUniq
      <4>2. QED
        BY <2>2, <3>1, <4>1, NowAnswered
    <3>4. QED
      BY <2>4, <3>2, <3>3
  <2>5. QED
    BY <1>7, <2>3, <2>4
<1>13. AllAccounted'
  BY <1>11, <1>12 DEF AllAccounted
<1>14. AllNewborn'
  <2>1. Newborn(j)
    BY <1>2, <1>7 DEF AllNewborn, Newborn, Past
  <2>2. QED
    BY <1>8, <2>1 DEF AllNewborn
<1>15. QED
  BY <1>13, <1>14

LEMMA TakeTaskItems ==
    ASSUME NetCore, AllAccounted, AllNewborn, NEW w \in Workers, TakeTask(w)
    PROVE  AllAccounted' /\ AllNewborn'
<1>1. /\ waking[w] = NoLoop /\ hand[w] = NoTask /\ tasks # <<>> /\ tasks' = Tail(tasks)
      /\ hand' = [hand EXCEPT ![w] = Head(tasks)]
      /\ tasks \in Seq(Tasks) /\ DOMAIN hand = Workers
      /\ UNCHANGED <<waking, conn>> /\ \A l \in Loops : Queue(l)' = Queue(l)
  BY DEF TakeTask, Take, loopVars, serverVars, Queue, NetCore, NetTypes, PoolTypes
<1>2. hand'[w] = Head(tasks) /\ \A v \in Workers \ {w} : hand'[v] = hand[v]
  BY <1>1
<1>3. ASSUME NEW c \in Conns, NEW m \in Numbers PROVE Accounted(c, m)'
  <2>1. Accounted(c, m)
    BY <1>3 DEF AllAccounted
  <2>2. /\ <<c, m>> # Head(tasks) => (In(<<c, m>>, tasks') <=> In(<<c, m>>, tasks))
        /\ Uniq(<<c, m>>, tasks) => Uniq(<<c, m>>, tasks')
        /\ Uniq(<<c, m>>, tasks) /\ <<c, m>> = Head(tasks) => ~In(<<c, m>>, tasks')
        /\ <<c, m>> = Head(tasks) => In(<<c, m>>, tasks)
    BY <1>1, TakenFrom
  <2>3. SendSame(c, m) /\ TookSame(c, m) /\ LiveSame(c, m)
    BY <1>1 DEF SendSame, TookSame, LiveSame, SendAt, TookOf
  <2>4. /\ ~Holds(w, c, m) /\ (Holds(w, c, m)' <=> <<c, m>> = Head(tasks))
        /\ \A v \in Workers \ {w} : Holds(v, c, m)' <=> Holds(v, c, m)
    BY <1>1, <1>2 DEF Holds, NoTask
  <2>5. CASE <<c, m>> # Head(tasks)
    <3>1. TaskSame(c, m) /\ HandSame(c, m)
      BY <2>2, <2>4, <2>5 DEF TaskSame, HandSame, TaskOf
    <3>2. QED
      BY <1>3, <2>1, <2>3, <3>1, Frame
  <2>6. CASE <<c, m>> = Head(tasks)
    <3>1. TaskOf(c, m) /\ ~TaskOf(c, m)'
      BY <2>1, <2>2, <2>6 DEF TaskOf, Accounted, Apart
    <3>2. ~HandOf(c, m) /\ ~SendOf(c, m) /\ ~TookOf(c, m) /\ m <= conn[c].asked
      BY <2>1, <3>1 DEF Accounted, Apart, Somewhere
    <3>3. ~SendOf(c, m)' /\ ~TookOf(c, m)' /\ m <= conn'[c].asked
      BY <1>1, <2>3, <3>2 DEF SendOf, SendSame, TookSame
    <3>4. \A v \in Workers : Holds(v, c, m)' <=> v = w
      BY <2>4, <2>6, <3>2 DEF HandOf
    <3>5. QED
      BY <3>1, <3>3, <3>4, NowInHand
  <2>7. QED
    BY <2>5, <2>6
<1>4. QED
  BY <1>1, <1>3 DEF AllAccounted, AllNewborn

\* A functor queued for a loop by another thread.
LEMMA QueuePosted ==
    ASSUME LoopTypes, NEW t \in Loops, NEW g \in Functors, batch' = batch,
           pending' = [pending EXCEPT ![t] = Append(@, g)]
    PROVE  /\ Queue(t)' = Append(Queue(t), g) /\ Queue(t) \in Seq(Functors)
           /\ \A l \in Loops \ {t} : Queue(l)' = Queue(l)
<1>1. batch[t] \in Seq(Functors) /\ pending[t] \in Seq(Functors) /\ Queue(t) \in Seq(Functors)
  BY QueueTypes DEF LoopTypes
<1>2. pending'[t] = Append(pending[t], g) /\ \A l \in Loops \ {t} : pending'[l] = pending[l]
  BY DEF LoopTypes
<1>3. batch[t] \o Append(pending[t], g) = Append(batch[t] \o pending[t], g)
  BY <1>1, ConcatAppend
<1>4. QED
  BY <1>1, <1>2, <1>3 DEF Queue

LEMMA FinishTaskItems ==
    ASSUME NetCore, AllAccounted, AllNewborn, NEW w \in Workers, FinishTask(w)
    PROVE  AllAccounted' /\ AllNewborn'
<1>1. /\ waking[w] = NoLoop /\ hand[w] # NoTask /\ UNCHANGED <<tasks, conn, batch>>
      /\ hand \in [Workers -> Tasks \cup {NoTask}] /\ LoopTypes /\ NoLoop \notin Loops
  BY LoopsAssumption DEF FinishTask, Push, Finish, loopVars, poolVars, serverVars, NetCore, NetTypes, PoolTypes
<1>2. PICK b \in Conns, n \in Nat : hand[w] = <<b, n>> /\ hand[w][1] = b /\ hand[w][2] = n
  BY <1>1 DEF Tasks
<1>3. \A c \in Conns, m \in Numbers : Holds(w, c, m) <=> c = b /\ m = n
  BY <1>1, <1>2 DEF Holds
<1>4. \A c \in Conns, m \in Numbers : TaskSame(c, m) /\ TookSame(c, m) /\ LiveSame(c, m)
  BY <1>1 DEF TaskSame, TookSame, LiveSame, TaskOf, TookOf
<1>5. \A c \in Conns, m \in Numbers : ~Holds(w, c, m)'
      /\ \A v \in Workers \ {w} : Holds(v, c, m)' <=> Holds(v, c, m)
  <2>1. CASE conn[b].state = "Connected"
    <3>1. conn[b].home \in Loops
      BY <1>2, <2>1 DEF NetCore, Core, AllLife, LifeOK
    <3>2. waking' = [waking EXCEPT ![w] = conn[b].home] /\ UNCHANGED hand /\ DOMAIN waking = Workers
      BY <1>1, <1>2, <2>1 DEF FinishTask, Push, poolVars, LoopTypes
    <3>3. waking'[w] # NoLoop /\ \A v \in Workers \ {w} : waking'[v] = waking[v]
      BY <1>1, <3>1, <3>2
    <3>4. QED
      BY <3>2, <3>3 DEF Holds
  <2>2. CASE conn[b].state # "Connected"
    <3>1. hand' = [hand EXCEPT ![w] = NoTask] /\ UNCHANGED waking
      BY <1>2, <2>2 DEF FinishTask, Finish, loopVars
    <3>2. hand'[w] = NoTask /\ \A v \in Workers \ {w} : hand'[v] = hand[v]
      BY <1>1, <3>1
    <3>3. QED
      BY <3>1, <3>2 DEF Holds, NoTask
  <2>3. QED
    BY <2>1, <2>2
<1>6. \A c \in Conns, m \in Numbers : c # b \/ m # n => HandSame(c, m)
  BY <1>3, <1>5 DEF HandSame
<1>7. \A c \in Conns, m \in Numbers : c # b \/ m # n => Accounted(c, m)'
  <2>1. CASE conn[b].state = "Connected"
    <3> DEFINE g == <<"send", b, n>>
    <3>1. PICK t \in Loops : t = conn[b].home
      BY <1>2, <2>1 DEF NetCore, Core, AllLife, LifeOK
    <3>2. pending' = [pending EXCEPT ![t] = Append(@, g)]
      BY <1>2, <2>1, <3>1 DEF FinishTask, Push
    <3>3. g \in Functors /\ \A c \in Conns, m \in Numbers : c # b \/ m # n => <<"send", c, m>> # g
      <4>1. g \in Functors
        BY SendFunctor
      <4>2. QED
        BY <4>1
    <3> HIDE DEF g
    <3>4. Queue(t)' = Append(Queue(t), g) /\ \A l \in Loops \ {t} : Queue(l)' = Queue(l)
      BY <1>1, <3>2, <3>3, QueuePosted
    <3>5. Queue(t) \in Seq(Functors)
      BY <1>1, <3>2, <3>3, QueuePosted
    <3>6. ASSUME NEW c \in Conns, NEW m \in Numbers, c # b \/ m # n PROVE SendSame(c, m)
      <4>1. <<"send", c, m>> # g
        BY <3>3, <3>6
      <4>2. /\ In(<<"send", c, m>>, Queue(t)') <=> In(<<"send", c, m>>, Queue(t))
            /\ Uniq(<<"send", c, m>>, Queue(t)) => Uniq(<<"send", c, m>>, Queue(t)')
        BY <3>3, <3>4, <3>5, <4>1, AddedTo
      <4>3. QED
        BY <3>4, <4>2 DEF SendSame, SendAt
    <3>7. QED
      BY <1>4, <1>6, <3>6, Frame DEF AllAccounted
  <2>2. CASE conn[b].state # "Connected"
    <3>1. \A l \in Loops : Queue(l)' = Queue(l)
      BY <1>2, <2>2 DEF FinishTask, loopVars, Queue
    <3>2. \A c \in Conns, m \in Numbers : SendSame(c, m)
      BY <3>1 DEF SendSame, SendAt
    <3>3. QED
      BY <1>4, <1>6, <3>2, Frame DEF AllAccounted
  <2>3. QED
    BY <2>1, <2>2
<1>8. ASSUME n \in Numbers PROVE Accounted(b, n)'
  <2>1. Accounted(b, n) /\ Holds(w, b, n)
    BY <1>2, <1>3, <1>8 DEF AllAccounted
  <2>2. HandOf(b, n) /\ \A v \in Workers \ {w} : ~Holds(v, b, n)
    BY <2>1 DEF HandOf, Accounted, Apart
  <2>3. ~TaskOf(b, n) /\ ~SendOf(b, n) /\ ~TookOf(b, n) /\ n <= conn[b].asked
    BY <2>1, <2>2 DEF Accounted, Apart, Somewhere
  <2>4. ~HandOf(b, n)' /\ ~TaskOf(b, n)' /\ ~TookOf(b, n)' /\ n <= conn'[b].asked
    BY <1>1, <1>2, <1>4, <1>5, <1>8, <2>2, <2>3 DEF HandOf, TaskSame, TookSame
  <2>5. CASE conn[b].state = "Connected"
    <3> DEFINE g == <<"send", b, n>>
    <3>1. PICK t \in Loops : t = conn[b].home
      BY <1>2, <2>5 DEF NetCore, Core, AllLife, LifeOK
    <3>2. pending' = [pending EXCEPT ![t] = Append(@, g)]
      BY <1>2, <2>5, <3>1 DEF FinishTask, Push
    <3>3. g \in Functors
      BY <1>2, SendFunctor
    <3>4. \A l \in Loops : ~In(g, Queue(l))
      BY <2>3 DEF SendOf, SendAt
    <3>5. \A l \in Loops : SendAt(l, b, n)' <=> In(g, Queue(l)')
      BY DEF SendAt
    <3> HIDE DEF g
    <3>6. Queue(t)' = Append(Queue(t), g) /\ \A l \in Loops \ {t} : Queue(l)' = Queue(l)
      BY <1>1, <3>2, <3>3, QueuePosted
    <3>7. Queue(t) \in Seq(Functors)
      BY <1>1, <3>2, <3>3, QueuePosted
    <3>8. In(g, Queue(t)') /\ Uniq(g, Queue(t)')
      BY <3>3, <3>4, <3>6, <3>7, AddedTo, NotInUniq
    <3>9. \A l \in Loops \ {t} : ~In(g, Queue(l)') /\ Uniq(g, Queue(l)')
      BY <3>4, <3>6, NotInUniq
    <3>10. /\ \A l \in Loops : SendAt(l, b, n)' <=> l = t
           /\ \A l \in Loops : Uniq(<<"send", b, n>>, Queue(l)')
      BY <3>5, <3>8, <3>9 DEF g
    <3>11. QED
      BY <2>4, <3>10, NowSent
  <2>6. CASE conn[b].state # "Connected"
    <3>1. \A l \in Loops : Queue(l)' = Queue(l)
      BY <1>2, <2>6 DEF FinishTask, loopVars, Queue
    <3>2. ~SendOf(b, n)'
      BY <2>3, <3>1 DEF SendOf, SendAt
    <3>3. ~Live(conn'[b]) /\ Uniq(n, conn'[b].took)
      BY <1>1, <2>3, <2>6, NotInUniq DEF Live, TookOf
    <3>4. QED
      BY <2>4, <3>2, <3>3, NowAnswered
  <2>7. QED
    BY <2>5, <2>6
<1>9. QED
  BY <1>1, <1>7, <1>8 DEF AllAccounted, AllNewborn

LEMMA WriteEventfdItems ==
    ASSUME NetCore, AllAccounted, AllNewborn, NEW w \in Workers, WriteEventfd(w)
    PROVE  AllAccounted' /\ AllNewborn'
<1>1. /\ waking[w] # NoLoop /\ waking' = [waking EXCEPT ![w] = NoLoop] /\ hand' = [hand EXCEPT ![w] = NoTask]
      /\ UNCHANGED <<tasks, conn, pending, batch>> /\ DOMAIN waking = Workers /\ DOMAIN hand = Workers /\ LoopTypes
  BY DEF WriteEventfd, WakeUp, Finish, serverVars, NetCore, NetTypes, LoopTypes, PoolTypes
<1>2. /\ hand'[w] = NoTask
      /\ \A v \in Workers \ {w} : hand'[v] = hand[v] /\ waking'[v] = waking[v]
  BY <1>1
<1>3. \A v \in Workers, c \in Conns, m \in Numbers : Holds(v, c, m)' <=> Holds(v, c, m)
  BY <1>1, <1>2 DEF Holds, NoTask
<1>4. AllSpared
  BY <1>1, PlainQueues
<1>5. QED
  BY <1>1, <1>3, <1>4, KeepsAll, ItemsFrame

LEMMA RunSendItems ==
    ASSUME NetCore, AllAccounted, AllNewborn, NEW l \in Loops, RunSend(l)
    PROVE  AllAccounted' /\ AllNewborn'
<1> DEFINE f == Head(batch[l])
<1>1. Running(l) /\ f[1] = "send" /\ QueueNothing /\ UNCHANGED <<tasks, hand, waking>>
  BY DEF RunSend, Functor, Running, poolVars
<1>2. f \in Functors /\ conn \in [Conns -> ConnType] /\ LoopTypes
  BY <1>1, FunctorRuns DEF NetCore, NetTypes
<1>3. PICK b \in Conns, n \in Nat : f = <<"send", b, n>> /\ f[2] = b /\ f[3] = n
  BY <1>1, <1>2 DEF Functors, Plain
<1>4. PICK j : /\ conn' = [conn EXCEPT ![b] = j]
               /\ j.state = conn[b].state /\ j.peer = conn[b].peer /\ j.asked = conn[b].asked
               /\ (j.took = conn[b].took /\ ~Live(j)) \/ j.took = Append(conn[b].took, n)
  <2>1. PICK i \in SendInLoop(conn[b], n) : conn' = [conn EXCEPT ![b] = i]
    BY <1>3 DEF RunSend
  <2>2. /\ i.state = conn[b].state /\ i.peer = conn[b].peer /\ i.asked = conn[b].asked
        /\ (i.took = conn[b].took /\ ~Live(conn[b])) \/ i.took = Append(conn[b].took, n)
    BY <1>2, <1>3, <2>1, SendTook
  <2>3. QED
    BY <2>1, <2>2 DEF Live
<1>5. conn'[b] = j /\ (\A d \in Conns \ {b} : conn'[d] = conn[d]) /\ conn[b].took \in Seq(Nat)
  BY <1>2, <1>3, <1>4 DEF ConnType
<1>6. /\ Queue(l) \in Seq(Functors) /\ Queue(l) # <<>> /\ Head(Queue(l)) = f
      /\ Queue(l)' = Tail(Queue(l)) /\ \A k \in Loops \ {l} : Queue(k)' = Queue(k)
  <2>1. /\ Queue(l) \in Seq(Functors) /\ Queue(l) # <<>> /\ Head(Queue(l)) = f
        /\ batch'[l] \o pending[l] = Tail(Queue(l)) /\ \A k \in Loops \ {l} : batch'[k] = batch[k]
    BY <1>1, <1>2, RunningQueue
  <2>2. pending' = pending
    BY <1>1 DEF QueueNothing
  <2>3. QED
    BY <2>1, <2>2 DEF Queue
<1> HIDE DEF f
<1>7. \A c \in Conns, m \in Numbers : TaskSame(c, m) /\ HandSame(c, m) /\ LiveSame(c, m)
  <2> SUFFICES ASSUME NEW c \in Conns, NEW m \in Numbers PROVE TaskSame(c, m) /\ HandSame(c, m) /\ LiveSame(c, m)
    OBVIOUS
  <2>1. TaskSame(c, m) /\ HandSame(c, m)
    BY <1>1 DEF TaskSame, HandSame, TaskOf, Holds
  <2>2. conn'[c].asked = conn[c].asked /\ (Live(conn'[c]) <=> Live(conn[c]))
    BY <1>4, <1>5 DEF Live
  <2>3. QED
    BY <2>1, <2>2 DEF LiveSame
<1>8. ASSUME NEW c \in Conns, NEW m \in Numbers, c # b \/ m # n PROVE Accounted(c, m)'
  <2>1. <<"send", c, m>> # f
    BY <1>3, <1>8
  <2>2. /\ In(<<"send", c, m>>, Queue(l)') <=> In(<<"send", c, m>>, Queue(l))
        /\ Uniq(<<"send", c, m>>, Queue(l)) => Uniq(<<"send", c, m>>, Queue(l)')
    BY <1>6, <2>1, TakenFrom
  <2>3. SendSame(c, m)
    BY <1>6, <2>2 DEF SendSame, SendAt
  <2>4. TookSame(c, m)
    <3>1. CASE conn'[c].took = conn[c].took
      BY <3>1 DEF TookSame, TookOf
    <3>2. CASE c = b /\ conn'[c].took = Append(conn[b].took, n)
      <4>1. /\ In(m, Append(conn[b].took, n)) <=> In(m, conn[b].took)
            /\ Uniq(m, conn[b].took) => Uniq(m, Append(conn[b].took, n))
        BY <1>5, <1>8, <3>2, AddedTo
      <4>2. QED
        BY <3>2, <4>1 DEF TookSame, TookOf
    <3>3. QED
      BY <1>4, <1>5, <3>1, <3>2
  <2>5. QED
    BY <1>7, <2>3, <2>4, Frame DEF AllAccounted
<1>9. ASSUME n \in Numbers PROVE Accounted(b, n)'
  <2>1. Accounted(b, n) /\ In(f, Queue(l)) /\ SendAt(l, b, n)
    BY <1>3, <1>6, <1>9, TakenFrom DEF AllAccounted, SendAt
  <2>2. SendOf(b, n)
    BY <2>1 DEF SendOf
  <2>3. ~TaskOf(b, n) /\ ~HandOf(b, n) /\ ~TookOf(b, n) /\ n <= conn[b].asked
    BY <2>1, <2>2 DEF Accounted, Apart, Somewhere
  <2>4. \A k \in Loops : ~SendAt(k, b, n)'
    <3>1. Uniq(f, Queue(l)) /\ \A k \in Loops \ {l} : ~In(f, Queue(k))
      BY <1>3, <2>1 DEF Accounted, Apart, SendAt
    <3>2. ~In(f, Queue(l)')
      BY <1>6, <3>1, TakenFrom
    <3>3. \A k \in Loops : ~In(f, Queue(k)')
      BY <1>6, <3>1, <3>2
    <3>4. QED
      BY <1>3, <3>3 DEF SendAt
  <2>5. ~TaskOf(b, n)' /\ ~HandOf(b, n)' /\ ~SendOf(b, n)'
    <3>1. TaskSame(b, n) /\ HandSame(b, n)
      BY <1>7, <1>9
    <3>2. QED
      BY <2>3, <2>4, <3>1 DEF TaskSame, HandSame, HandOf, SendOf
  <2>6. (TookOf(b, n)' \/ ~Live(conn'[b])) /\ Uniq(n, conn'[b].took)
    <3>1. ~In(n, conn[b].took) /\ Uniq(n, conn[b].took)
      BY <2>3, NotInUniq DEF TookOf
    <3>2. CASE j.took = Append(conn[b].took, n)
      <4>1. In(n, conn'[b].took) /\ Uniq(n, conn'[b].took)
        BY <1>5, <3>1, <3>2, AddedTo
      <4>2. QED
        BY <4>1 DEF TookOf
    <3>3. CASE j.took = conn[b].took /\ ~Live(j)
      BY <1>5, <3>1, <3>3
    <3>4. QED
      BY <1>4, <3>2, <3>3
  <2>7. n <= conn'[b].asked
    BY <1>4, <1>5, <2>3
  <2>8. QED
    BY <2>5, <2>6, <2>7, NowAnswered
<1>10. AllAccounted'
  BY <1>8, <1>9 DEF AllAccounted
<1>11. AllNewborn'
  BY <1>4, <1>5 DEF AllNewborn, Newborn
<1>12. QED
  BY <1>10, <1>11

LEMMA EmptyLineItems ==
    ASSUME NetCore, AllAccounted, AllNewborn, NEW l \in Loops, EmptyLine(l)
    PROVE  AllAccounted' /\ AllNewborn'
<1>1. PICK c : c = reading[l]
  OBVIOUS
<1>2. c \in Conns /\ conn \in [Conns -> ConnType] /\ conn[c] \in ConnType /\ LoopTypes
  BY <1>1, ReadingConn DEF EmptyLine, NetCore, NetTypes
<1>3. /\ conn'[c].asked = conn[c].asked /\ conn'[c].took = conn[c].took
      /\ conn'[c].state = conn[c].state /\ conn'[c].peer = conn[c].peer
      /\ \A d \in Conns \ {c} : conn'[d] = conn[d]
  BY <1>1, <1>2 DEF EmptyLine, ConnType
<1>4. \A d \in Conns : Keeps(conn[d], conn'[d])
  BY <1>3, KeepsFields
<1>5. UNCHANGED <<tasks, hand, pending, batch, waking>>
  BY DEF EmptyLine, poolVars, loopVars
<1>6. AllSpared
  BY <1>2, <1>5, PlainQueues
<1>7. QED
  BY <1>4, <1>5, <1>6, PlainItems

LEMMA LoopStepItems ==
    ASSUME NetCore, AllAccounted, AllNewborn, NEW l \in Loops, LoopStep(l)
    PROVE  AllAccounted' /\ AllNewborn'
<1>1. LoopTypes
  BY DEF NetCore, NetTypes
<1>2. CASE LoopItself(l) \/ PollChannels(l)
  <2>1. UNCHANGED <<tasks, hand, waking, conn>>
    BY <1>2 DEF LoopItself, PollChannels, StartLooping, PollTimeout, HandleWakeup, TakeFunctors, FinishIteration,
                Poll, poolVars, serverVars
  <2>2. AllSpared
    <3>1. CASE TakeFunctors(l)
      BY <1>1, <3>1, SwappedQueues
    <3>2. CASE ~TakeFunctors(l)
      <4>1. UNCHANGED <<pending, batch>>
        BY <1>2, <3>2 DEF LoopItself, PollChannels, StartLooping, PollTimeout, HandleWakeup, FinishIteration, Poll
      <4>2. QED
        BY <1>1, <4>1, PlainQueues
    <3>3. QED
      BY <3>1, <3>2
  <2>3. QED
    BY <2>1, <2>2, KeepsAll, PlainItems
<1>3. CASE HandleAccept \/ AcceptFails
  BY <1>3, AcceptItems
<1>4. CASE \E c \in Conns : HandleRead(l, c) \/ HandleWrite(l, c)
  BY <1>4, ReadWriteItems
<1>5. CASE HandleLine(l) \/ EndOfLines(l)
  BY <1>5, HandleLineItems, EndOfLinesItems
<1>9. CASE EmptyLine(l)
  BY <1>9, EmptyLineItems
<1>10. CASE LineThrows(l)
  <2>1. UNCHANGED <<tasks, hand, waking, conn, pending, batch>>
    BY <1>10 DEF LineThrows, Terminate, loopVars, poolVars
  <2>2. AllSpared
    BY <1>1, <2>1, PlainQueues
  <2>3. QED
    BY <2>1, <2>2, KeepsAll, PlainItems
<1>6. CASE RunSend(l)
  BY <1>6, RunSendItems
<1>7. CASE RunEstablished(l) \/ RunForceClose(l) \/ RunRemove(l) \/ RunRelease(l) \/ RunDestroyed(l)
  BY <1>7, PlainFunctorItems
<1>8. QED
  BY <1>2, <1>3, <1>4, <1>5, <1>6, <1>7, <1>9, <1>10 DEF LoopStep

LEMMA NetStepItems == NetCore /\ AllAccounted /\ AllNewborn /\ [NetNext]_netVars => AllAccounted' /\ AllNewborn'
<1> SUFFICES ASSUME NetCore, AllAccounted, AllNewborn, [NetNext]_netVars PROVE AllAccounted' /\ AllNewborn'
  OBVIOUS
<1>1. RunningLoops \subseteq Loops /\ plan.workers \subseteq Workers /\ LoopTypes
  BY PlanTypes DEF NetCore, NetTypes, ServerTypes
<1>2. CASE UNCHANGED <<conn, tasks, hand, pending, batch, waking>>
  <2>1. AllSpared
    BY <1>1, <1>2, PlainQueues
  <2>2. QED
    BY <1>2, <2>1, KeepsAll, PlainItems
<1>3. CASE \E l \in RunningLoops : LoopStep(l)
  BY <1>1, <1>3, LoopStepItems
<1>4. ASSUME NEW w \in plan.workers, WorkerStep(w) PROVE AllAccounted' /\ AllNewborn'
  <2>1. TaskThrows(w) => UNCHANGED <<conn, tasks, hand, pending, batch, waking>>
    BY DEF TaskThrows, Terminate, loopVars, poolVars
  <2>2. QED
    BY <1>1, <1>2, <1>4, <2>1, TakeTaskItems, FinishTaskItems, WriteEventfdItems DEF WorkerStep
<1>5. CASE \E c \in plan.clients : ClientStep(c) \/ DestroyConnection(c)
  BY <1>5, ClientItems
<1>6. Signal \/ StopWorkers \/ (\E l \in Loops : QuitIo(l)) \/ UNCHANGED netVars
         => UNCHANGED <<conn, tasks, hand, pending, batch, waking>>
  BY DEF Signal, StopWorkers, QuitIo, Quit, StopPool, netVars, loopVars, poolVars, serverVars
<1>7. QED
  BY <1>2, <1>3, <1>4, <1>5, <1>6 DEF NetNext

LEMMA NetInitItems == NetInit(NetSeeds) => AllAccounted /\ AllNewborn
<1> SUFFICES ASSUME NetInit(NetSeeds) PROVE AllAccounted /\ AllNewborn
  OBVIOUS
<1>1. /\ tasks = <<>> /\ \A c \in Conns : conn[c] = NewConn
      /\ \A w \in Workers : hand[w] = NoTask
  BY DEF NetInit, PoolInit
<1>2. \A l \in Loops : Queue(l) = <<>>
  <2>1. <<>> \in Seq(Functors)
    OBVIOUS
  <2>2. QED
    BY <2>1, ConcatEmpty DEF NetInit, LoopsInit, Queue
<1>3. NewConn.took = <<>> /\ NewConn.asked = 0 /\ NewConn.state = "none"
  BY DEF NewConn
<1>4. ASSUME NEW c \in Conns, NEW m \in Numbers PROVE Accounted(c, m)
  <2>1. ~TaskOf(c, m) /\ ~TookOf(c, m) /\ Uniq(<<c, m>>, tasks) /\ Uniq(m, conn[c].took)
    BY <1>1, <1>3 DEF TaskOf, TookOf, In, Uniq
  <2>2. \A l \in Loops : ~SendAt(l, c, m) /\ Uniq(<<"send", c, m>>, Queue(l))
    BY <1>2 DEF SendAt, In, Uniq
  <2>3. \A w \in Workers : ~Holds(w, c, m)
    <3>1. Len(NoTask) = 0 /\ Len(<<c, m>>) = 2
      BY DEF NoTask
    <3>2. QED
      BY <1>1, <3>1 DEF Holds
  <2>4. ~Live(conn[c])
    BY <1>1, <1>3 DEF Live
  <2>5. QED
    BY <2>1, <2>2, <2>3, <2>4 DEF Accounted, Apart, Kept, Somewhere, HandOf, SendOf
<1>5. QED
  BY <1>1, <1>3, <1>4 DEF AllAccounted, AllNewborn, Newborn

LEMMA AccountedAlways == NetSpec => [](NetCore /\ AllAccounted)
<1>1. NetInit(NetSeeds) => AllAccounted /\ AllNewborn
  BY NetInitItems
<1>2. QED
  BY <1>1, NetCoreAlways, NetStepItems, PTL DEF NetSpec

\* While a connection is up at both ends, every request that was parsed on it
\* is at one place, once: in the queue of the pool, with a worker, among the
\* functors of a loop, or answered.  None is dropped on the way, and none is
\* answered twice or before it was asked.
THEOREM RequestsAreAccounted == NetSpec => []AllAccounted
BY AccountedAlways, PTL

LEMMA AccountedAnswers ==
    ASSUME NetCore, AllAccounted, NEW c \in Conns
    PROVE  LET k == conn[c]
           IN /\ \A i, j \in 1 .. Len(k.took) : k.took[i] = k.took[j] /\ k.took[i] # 0 => i = j
              /\ \A i \in 1 .. Len(k.took) : k.took[i] <= k.asked
<1>1. conn[c].took \in Seq(Nat) /\ conn[c].asked \in Nat
  BY DEF NetCore, NetTypes, ServerTypes, ConnType
<1>2. ASSUME NEW i \in 1 .. Len(conn[c].took), conn[c].took[i] # 0
      PROVE  /\ \A j \in 1 .. Len(conn[c].took) : conn[c].took[i] = conn[c].took[j] => i = j
             /\ conn[c].took[i] <= conn[c].asked
  <2>1. PICK m \in Numbers : m = conn[c].took[i]
    BY <1>1, <1>2 DEF Numbers
  <2>2. TookOf(c, m) /\ Accounted(c, m)
    BY <1>2, <2>1 DEF AllAccounted, TookOf, In
  <2>3. Uniq(m, conn[c].took) /\ m <= conn[c].asked
    BY <2>2 DEF Accounted, Apart, Somewhere
  <2>4. QED
    BY <2>1, <2>3 DEF Uniq
<1>3. \A i \in 1 .. Len(conn[c].took) : conn[c].took[i] = 0 => conn[c].took[i] <= conn[c].asked
  BY <1>1
<1>4. QED
  BY <1>2, <1>3

\* On every connection the bytes written and the bytes that wait are the
\* messages sendInLoop took, whole and in order, for any number of threads;
\* and these answer each request at most once and never one not yet asked.
THEOREM OutputKeepsOrder == NetSpec => []OutputInOrder
<1>1. NetInit(NetSeeds) => AllOrdered
  <2>1. Ordered(NewConn)
    BY DEF NewConn, Ordered, Whole
  <2>2. QED
    BY <2>1 DEF NetInit, AllOrdered
<1>2. NetCore /\ AllAccounted /\ AllOrdered => OutputInOrder
  BY AccountedAnswers DEF AllOrdered, Ordered, Whole, OutputInOrder
<1>3. QED
  BY <1>1, <1>2, NetCoreAlways, AccountedAlways, NetStepOrdered, PTL DEF NetSpec
=============================================================================
