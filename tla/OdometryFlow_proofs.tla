------------------------ MODULE OdometryFlow_proofs ------------------------
(***************************************************************************)
(* What holds of the flow graph for any number of calls, frames and        *)
(* threads, whatever the order in which tasks start and finish.            *)
(*                                                                         *)
(* The argument: a sequencer passes frames on in the order of their ids,   *)
(* so the queue behind it holds consecutive ids, and the node of           *)
(* concurrency 1 serves them in that order.  The pairing node has then     *)
(* served exactly the frames below some id, and last_frame is the frame    *)
(* before that id.                                                         *)
(***************************************************************************)
EXTENDS OdometryFlow, FiniteSetTheorems, SequenceTheorems, TLAPS

Pred(i) == Promise!Predecessor(call, i)

\* The nodes behind each step of a frame's way.
PastPreprocess == {"postpre", "pairing", "registration", "postreg", "output", "traj"}
PastPostpre == PastPreprocess \ {"postpre"}
PastPairing == PastPostpre \ {"pairing"}
PastRegistration == PastPairing \ {"registration"}
PastPostreg == PastRegistration \ {"postreg"}

\* Sequencers have passed on the frames below next.
Sequenced ==
    \A i \in Ids :
        /\ i < next["postpre"] <=> node[i] \in PastPostpre
        /\ i < next["postreg"] <=> node[i] \in PastPostreg

\* The sequencer in front of a node of concurrency 1, the id at the front of
\* its queue, and the number of frames it has served.
Before(s) == IF s = "pairing" THEN "postpre" ELSE "postreg"
FrontId(s) == next[Before(s)] - Len(queue[s])
Busy(s) == \E i \in running : node[i] = s
Served(s) == IF Busy(s) THEN FrontId(s) - 1 ELSE FrontId(s)

\* The queue holds consecutive ids up to the last one passed on; the frame
\* before them is the one whose task may be running.
Fifo(s) ==
    /\ FrontId(s) \in Nat
    /\ \A m \in DOMAIN queue[s] : queue[s][m] = FrontId(s) + m - 1
    /\ \A i \in Ids : node[i] = s => i >= FrontId(s) \/ (i = FrontId(s) - 1 /\ i \in running)
    /\ \A i \in Ids : FrontId(s) <= i /\ i < next[Before(s)] => node[i] = s /\ i \notin running

\* Pairs are made of consecutive frames.
Paired ==
    /\ last_frame = Pred(Served("pairing"))
    /\ \A i \in Ids :
          node[i] \in PastPairing \/ (node[i] = "pairing" /\ i \in running) => target[i] = Pred(i)

Registered ==
    \A i \in Ids : node[i] \in PastRegistration => T[i] = Promise!Relative(Pred(i), Frame(i))

Prepared ==
    /\ \A i \in Ids : Frame(i) \in ready <=> node[i] \in PastPreprocess
    /\ \A f \in ready : f[1] <= call

CallerInv ==
    /\ caller # "feeding" => \A i \in Ids : node[i] # "input"
    /\ caller = "returned" => running = {} /\ \A i \in Ids : node[i] = "traj"
    /\ call = 0 => caller = "returned"

IInv ==
    /\ TypeOK
    /\ Sequenced
    /\ Fifo("pairing")
    /\ Fifo("output")
    /\ Paired
    /\ Registered
    /\ Len(traj) = Served("output")
    /\ Prepared
    /\ CallerInv
-----------------------------------------------------------------------------
\* The edges of the graph (make_edge).
LEMMA Edges ==
    /\ Edge["input"] = "preprocess"
    /\ Edge["preprocess"] = "postpre"
    /\ Edge["postpre"] = "pairing"
    /\ Edge["pairing"] = "registration"
    /\ Edge["registration"] = "postreg"
    /\ Edge["postreg"] = "output"
    /\ Edge["output"] = "traj"
BY DEF Edge

LEMMA IdsInt ==
    ASSUME TypeOK
    PROVE  /\ NumFrames \in Nat
           /\ Ids \subseteq Nat
           /\ \A i : i \in Ids <=> i \in Nat /\ i < NumFrames
<1>1. NumFrames \in Nat
  BY LengthsAssumption DEF TypeOK, NumFrames
<1>2. QED
  BY <1>1 DEF Ids

\* try_put of a frame moves it along one edge, into a queue if one is there.
LEMMA Passing ==
    ASSUME TypeOK, NEW i \in Ids, node[i] # "traj", Pass(i)
    PROVE  /\ node' \in [Ids -> Nodes]
           /\ node'[i] = Edge[node[i]]
           /\ \A j \in Ids \ {i} : node'[j] = node[j]
           /\ queue' = IF Edge[node[i]] \in SerialNodes
                       THEN [queue EXCEPT ![Edge[node[i]]] = Append(@, i)] ELSE queue
<1>1. Edge[node[i]] \in Nodes
  BY Edges DEF TypeOK, Nodes, BodyNodes, SerialNodes, Sequencers
<1>2. QED
  BY <1>1 DEF Pass, TypeOK

\* The running task at a node of concurrency 1 is that of the frame in front of
\* the queue, and there is one only.
LEMMA RunningInFront ==
    ASSUME IInv, NEW s \in SerialNodes, NEW i \in running, node[i] = s
    PROVE  i \in Ids /\ i = FrontId(s) - 1 /\ i = Served(s)
<1>1. i \in Ids /\ Ids \subseteq Nat
  BY IdsInt DEF IInv, TypeOK
<1>2. i < next[Before(s)]
  BY <1>1 DEF IInv, Sequenced, Before, SerialNodes, PastPostreg, PastRegistration,
              PastPairing, PastPostpre, PastPreprocess
<1>3. Fifo(s)
  BY DEF IInv, SerialNodes
<1>4. i = FrontId(s) - 1
  BY <1>1, <1>2, <1>3 DEF Fifo
<1>5. QED
  BY <1>1, <1>4 DEF Served, Busy

\* A queue nothing happens to.
LEMMA FifoKept ==
    ASSUME NEW s \in SerialNodes, Fifo(s), Ids' = Ids,
           queue'[s] = queue[s], next'[Before(s)] = next[Before(s)],
           running \subseteq Ids, running' \subseteq Ids,
           \A j \in Ids : /\ node'[j] = s <=> node[j] = s
                          /\ node[j] = s => (j \in running' <=> j \in running)
    PROVE  Fifo(s)' /\ Served(s)' = Served(s)
<1>1. FrontId(s)' = FrontId(s) /\ Before(s)' = Before(s)
  BY DEF FrontId, Before
<1>2. Busy(s)' <=> Busy(s)
  BY DEF Busy
<1>3. Fifo(s)'
  BY <1>1 DEF Fifo
<1>4. QED
  BY <1>1, <1>2, <1>3 DEF Served

\* A sequencer passes the next frame on to the queue behind it.
LEMMA FifoForward ==
    ASSUME IInv, NEW s \in SerialNodes, Ids' = Ids,
           NEW i \in Ids, i = next[Before(s)], node[i] = Before(s),
           queue'[s] = Append(queue[s], i), next'[Before(s)] = next[Before(s)] + 1,
           running' = running, node'[i] = s,
           \A j \in Ids \ {i} : node'[j] = node[j]
    PROVE  Fifo(s)' /\ Served(s)' = Served(s)
<1>1. Fifo(s) /\ queue[s] \in Seq(Ids) /\ running \subseteq Ids /\ i \notin running /\ Ids \subseteq Nat
  BY IdsInt DEF IInv, TypeOK, SerialNodes, BodyNodes, Before
<1>2. /\ next[Before(s)] \in Nat /\ Len(queue[s]) \in Nat
      /\ DOMAIN queue[s] = 1 .. Len(queue[s])
  BY <1>1, LenProperties
<1>3. /\ Len(queue'[s]) = Len(queue[s]) + 1
      /\ DOMAIN queue'[s] = 1 .. Len(queue[s]) + 1
      /\ queue'[s][Len(queue[s]) + 1] = i
      /\ \A m \in 1 .. Len(queue[s]) : queue'[s][m] = queue[s][m]
  BY <1>1, <1>2
<1>4. FrontId(s)' = FrontId(s) /\ Before(s)' = Before(s)
  BY <1>2, <1>3 DEF FrontId, Before
<1>5. Busy(s)' <=> Busy(s)
  BY <1>1 DEF Busy
<1>6. i = FrontId(s) + Len(queue[s])
  BY <1>2 DEF FrontId
<1>7. \A m \in DOMAIN queue'[s] : queue'[s][m] = FrontId(s) + m - 1
  BY <1>1, <1>2, <1>3, <1>6 DEF Fifo
<1>8. \A j \in Ids : node'[j] = s => j >= FrontId(s) \/ (j = FrontId(s) - 1 /\ j \in running)
  BY <1>1, <1>2, <1>6 DEF Fifo
<1>9. \A j \in Ids : FrontId(s) <= j /\ j < next[Before(s)] + 1 => node'[j] = s /\ j \notin running
  <2> TAKE j \in Ids
  <2> HAVE FrontId(s) <= j /\ j < next[Before(s)] + 1
  <2>1. j \in Nat /\ (j = i \/ j < next[Before(s)])
    BY <1>1, <1>2
  <2>2. CASE j = i
    BY <1>1, <2>2
  <2>3. CASE j # i /\ j < next[Before(s)]
    BY <1>1, <2>3 DEF Fifo
  <2>4. QED
    BY <2>1, <2>2, <2>3
<1>10. Fifo(s)'
  BY <1>1, <1>4, <1>7, <1>8, <1>9 DEF Fifo
<1>11. QED
  BY <1>4, <1>5, <1>10 DEF Served

\* A node of concurrency 1 that is idle takes the frame in front of its queue.
LEMMA FifoStart ==
    ASSUME IInv, NEW s \in SerialNodes, Ids' = Ids,
           NEW i \in Ids, node[i] = s, queue[s] # <<>>, i = Head(queue[s]), ~Busy(s),
           queue'[s] = Tail(queue[s]), next' = next,
           running' = running \cup {i}, node' = node
    PROVE  Fifo(s)' /\ Served(s)' = Served(s) /\ i = Served(s)
<1>1. Fifo(s) /\ queue[s] \in Seq(Ids) /\ running \subseteq Ids /\ Ids \subseteq Nat
  BY IdsInt DEF IInv, TypeOK, SerialNodes
<1>2. /\ next[Before(s)] \in Nat /\ Len(queue[s]) \in Nat /\ Len(queue[s]) # 0
      /\ DOMAIN queue[s] = 1 .. Len(queue[s])
      /\ i = queue[s][1]
  BY <1>1, EmptySeq, LenProperties DEF IInv, TypeOK, Before, Sequencers
<1>3. /\ Len(queue'[s]) = Len(queue[s]) - 1
      /\ DOMAIN queue'[s] = 1 .. Len(queue[s]) - 1
      /\ \A m \in 1 .. Len(queue[s]) - 1 : queue'[s][m] = queue[s][m + 1]
  BY <1>1, <1>2, HeadTailProperties, LenProperties
<1>4. FrontId(s)' = FrontId(s) + 1 /\ Before(s)' = Before(s)
  BY <1>2, <1>3 DEF FrontId, Before
<1>5. i = FrontId(s) /\ FrontId(s) \in Nat
  BY <1>1, <1>2 DEF Fifo
<1>6. Busy(s)' /\ i \in running'
  BY DEF Busy
<1>7. \A m \in DOMAIN queue'[s] : queue'[s][m] = FrontId(s) + 1 + m - 1
  <2> TAKE m \in DOMAIN queue'[s]
  <2>1. m \in 1 .. Len(queue[s]) - 1 /\ m + 1 \in DOMAIN queue[s]
    BY <1>2, <1>3
  <2>2. queue[s][m + 1] = FrontId(s) + (m + 1) - 1
    BY <1>1, <2>1 DEF Fifo
  <2>3. QED
    BY <1>2, <1>3, <1>5, <2>1, <2>2
<1>8. \A j \in Ids : node[j] = s => j >= FrontId(s) + 1 \/ (j = FrontId(s) /\ j \in running')
  <2> TAKE j \in Ids
  <2> HAVE node[j] = s
  <2>1. j \in Nat
    BY <1>1
  <2>2. j >= FrontId(s) \/ j \in running
    BY <1>1 DEF Fifo
  <2>3. j \notin running
    BY DEF Busy
  <2>4. QED
    BY <1>5, <2>1, <2>2, <2>3
<1>9. \A j \in Ids : FrontId(s) + 1 <= j /\ j < next[Before(s)] => node[j] = s /\ j \notin running'
  BY <1>1, <1>5 DEF Fifo
<1>10. Fifo(s)'
  BY <1>4, <1>5, <1>6, <1>7, <1>8, <1>9 DEF Fifo
<1>11. QED
  BY <1>4, <1>5, <1>6, <1>10 DEF Served

\* Its task finishes, and the frame leaves the node.
LEMMA FifoFinish ==
    ASSUME IInv, NEW s \in SerialNodes, Ids' = Ids,
           NEW i \in running, node[i] = s, queue'[s] = queue[s], next' = next,
           running' = running \ {i}, node'[i] # s,
           \A j \in Ids \ {i} : node'[j] = node[j]
    PROVE  Fifo(s)' /\ Served(s)' = Served(s) + 1 /\ i = Served(s)
<1>1. /\ i \in Ids /\ i = FrontId(s) - 1 /\ i = Served(s)
      /\ \A j \in running : node[j] = s => j = i
  BY RunningInFront
<1>2. Fifo(s) /\ running \subseteq Ids /\ Ids \subseteq Nat /\ FrontId(s) \in Nat
  BY IdsInt DEF IInv, TypeOK, SerialNodes, Fifo
<1>3. FrontId(s)' = FrontId(s) /\ Before(s)' = Before(s)
  BY DEF FrontId, Before
<1>4. ~Busy(s)'
  BY <1>1, <1>2 DEF Busy
<1>5. \A j \in Ids : node'[j] = s => j >= FrontId(s)
  BY <1>1, <1>2 DEF Fifo
<1>6. \A j \in Ids : FrontId(s) <= j /\ j < next[Before(s)] => node'[j] = s /\ j \notin running'
  BY <1>1, <1>2 DEF Fifo
<1>7. Fifo(s)'
  BY <1>2, <1>3, <1>5, <1>6 DEF Fifo
<1>8. Served(s)' = Served(s) + 1
  BY <1>1, <1>2, <1>3, <1>4 DEF Served
<1>9. QED
  BY <1>1, <1>7, <1>8

-----------------------------------------------------------------------------
\* Consecutive ids in a queue are distinct frames at its node.
LEMMA FifoQueued ==
    ASSUME Fifo("pairing")', Fifo("output")', queue' \in [SerialNodes -> Seq(Ids')],
           next' \in [Sequencers -> 0 .. NumFrames'], Ids' \subseteq Nat
    PROVE  Queued'
<1> SUFFICES ASSUME NEW s \in SerialNodes, NEW m \in DOMAIN queue'[s], NEW n \in DOMAIN queue'[s]
             PROVE  /\ node'[queue'[s][m]] = s /\ queue'[s][m] \notin running'
                    /\ queue'[s][m] = queue'[s][n] => m = n
  BY DEF Queued
<1>1. Fifo(s)' /\ queue'[s] \in Seq(Ids') /\ next'[Before(s)'] \in Nat
  BY DEF SerialNodes, Before, Sequencers
<1>2. /\ Len(queue'[s]) \in Nat /\ DOMAIN queue'[s] = 1 .. Len(queue'[s])
      /\ queue'[s][m] \in Ids' /\ queue'[s][n] \in Ids'
  BY <1>1, LenProperties, ElementOfSeq
<1>3. queue'[s][m] = FrontId(s)' + m - 1 /\ queue'[s][n] = FrontId(s)' + n - 1 /\ FrontId(s)' \in Nat
  BY <1>1 DEF Fifo
<1>4. next'[Before(s)'] = FrontId(s)' + Len(queue'[s])
  BY <1>1, <1>2 DEF FrontId
<1>5. FrontId(s)' <= queue'[s][m] /\ queue'[s][m] < next'[Before(s)']
  BY <1>2, <1>3, <1>4
<1>6. node'[queue'[s][m]] = s /\ queue'[s][m] \notin running'
  BY <1>1, <1>2, <1>5 DEF Fifo
<1>7. QED
  BY <1>2, <1>3, <1>6

\* The frame after frame i has frame i as its predecessor.
LEMMA PredNext ==
    ASSUME NEW i \in Nat
    PROVE  Pred(i + 1) = Frame(i)
<1>1. i + 1 > 0 /\ i + 1 - 1 = i
  OBVIOUS
<1>2. QED
  BY <1>1 DEF Pred, Promise!Predecessor, Frame

\* What would precede a frame past the last of a call precedes the first frame of
\* the next call.
LEMMA PredCall ==
    ASSUME TypeOK, call < Len(Lengths)
    PROVE  Promise!Predecessor(call + 1, 0) = Pred(NumFrames)
<1> DEFINE S(c) == {d \in 1 .. c - 1 : Lengths[d] > 0}
<1>1. call \in Nat /\ call + 1 - 1 = call /\ Lengths \in Seq(Nat)
  BY LengthsAssumption DEF TypeOK
<1>2. Promise!Predecessor(call + 1, 0) =
        IF S(call + 1) = {} THEN NoFrame
        ELSE <<Promise!Max(S(call + 1)), Lengths[Promise!Max(S(call + 1))] - 1>>
  BY DEF Promise!Predecessor
<1>3. Pred(NumFrames) =
        IF NumFrames > 0 THEN <<call, NumFrames - 1>>
        ELSE IF S(call) = {} THEN NoFrame
        ELSE <<Promise!Max(S(call)), Lengths[Promise!Max(S(call))] - 1>>
  BY DEF Promise!Predecessor, Pred
<1>4. CASE NumFrames > 0
  <2>1. call > 0 /\ NumFrames = Lengths[call]
    BY <1>1, <1>4 DEF NumFrames
  <2>2. call \in S(call + 1) /\ \A d \in S(call + 1) : d \in Int /\ call >= d
    BY <1>1, <1>4, <2>1
  <2>3. \E x \in S(call + 1) : \A y \in S(call + 1) : x >= y
    BY <2>2
  <2> HIDE DEF S
  <2>4. /\ Promise!Max(S(call + 1)) \in S(call + 1)
        /\ \A y \in S(call + 1) : Promise!Max(S(call + 1)) >= y
    BY <2>3 DEF Promise!Max
  <2>5. Promise!Max(S(call + 1)) = call
    BY <1>1, <2>2, <2>4
  <2>6. QED
    BY <1>2, <1>3, <1>4, <2>1, <2>2, <2>5
<1>5. CASE NumFrames = 0
  <2>1. S(call + 1) = S(call)
    BY <1>1, <1>5 DEF NumFrames
  <2>2. ~(NumFrames > 0)
    BY <1>5
  <2> HIDE DEF S
  <2>3. QED
    BY <1>2, <1>3, <2>1, <2>2
<1>6. QED
  BY <1>4, <1>5, IdsInt

-----------------------------------------------------------------------------
LEMMA InitInv == ASSUME Init PROVE IInv
<1>1. call = 0 /\ NumFrames = 0 /\ Ids = {} /\ caller = "returned" /\ running = {}
  BY DEF Init, NumFrames, Ids
<1>2. next = [s \in Sequencers |-> 0] /\ queue = [s \in SerialNodes |-> <<>>]
  BY DEF Init
<1>3. \A s \in SerialNodes : FrontId(s) = 0 /\ ~Busy(s) /\ Served(s) = 0 /\ Fifo(s)
  BY <1>1, <1>2, EmptySeq DEF FrontId, Busy, Served, Fifo, Before, Sequencers, SerialNodes
<1>4. TypeOK
  <2>1. Cardinality(running) = 0 /\ num_threads \in Nat
    BY <1>1, ThreadsAssumption, FS_EmptySet DEF Init
  <2>2. Queued
    BY <1>2, EmptySeq DEF Queued, SerialNodes
  <2>3. Len(Lengths) \in Nat
    BY LengthsAssumption
  <2>4. queue \in [SerialNodes -> Seq(Ids)] /\ next \in [Sequencers -> 0 .. NumFrames]
    BY <1>1, <1>2, EmptySeq
  <2>5. traj \in Seq(Seq(AllFrames \X AllFrames))
    BY EmptySeq DEF Init
  <2>6. node \in [Ids -> Nodes] /\ target \in [Ids -> ready \cup {NoFrame}]
        /\ T \in [Ids -> Seq(AllFrames \X AllFrames)]
    BY <1>1 DEF Init
  <2>7. QED
    BY <1>1, <2>1, <2>2, <2>3, <2>4, <2>5, <2>6 DEF Init, TypeOK
<1>5. Pred(0) = NoFrame
  BY <1>1 DEF Pred, Promise!Predecessor
<1>6. Paired
  BY <1>1, <1>3, <1>5 DEF Paired, Init, SerialNodes
<1>7. Len(traj) = 0
  BY EmptySeq DEF Init
<1>8. QED
  BY <1>1, <1>3, <1>4, <1>6, <1>7 DEF IInv, Init, Sequenced, Registered, Prepared, CallerInv, SerialNodes

LEMMA CallEstimateInv == ASSUME IInv, CallEstimate PROVE IInv'
<1>1. /\ TypeOK /\ call \in Nat /\ call < Len(Lengths) /\ call' = call + 1 /\ call' # 0
      /\ Len(Lengths) \in Nat /\ caller = "returned"
  BY LengthsAssumption DEF IInv, TypeOK, CallEstimate
<1>2. NumFrames' = Lengths[call'] /\ NumFrames' \in Nat /\ Ids' = 0 .. NumFrames' - 1 /\ Ids' \subseteq Nat
  BY <1>1, LengthsAssumption DEF NumFrames, Ids
<1>3. running' = {} /\ running = {} /\ \A i \in Ids : node[i] = "traj"
  BY <1>1 DEF IInv, CallerInv, CallEstimate
<1>4. /\ node' = [i \in Ids' |-> "input"] /\ target' = [i \in Ids' |-> NoFrame]
      /\ T' = [i \in Ids' |-> <<>>] /\ traj' = <<>> /\ caller' = "feeding"
      /\ queue' = [s \in SerialNodes |-> <<>>] /\ next' = [s \in Sequencers |-> 0]
      /\ last_frame' = last_frame /\ ready' = ready /\ num_threads' = num_threads
  BY <1>2 DEF CallEstimate
<1>5. \A s \in SerialNodes : FrontId(s)' = 0 /\ ~Busy(s)' /\ Served(s)' = 0 /\ Fifo(s)'
  BY <1>2, <1>3, <1>4, EmptySeq DEF FrontId, Busy, Served, Fifo, Before, Sequencers, SerialNodes
<1>6. Queued'
  BY <1>4, EmptySeq DEF Queued, SerialNodes
<1>7. TypeOK'
  <2>1. Cardinality(running') = 0 /\ num_threads \in Nat
    BY <1>1, <1>3, ThreadsAssumption, FS_EmptySet DEF TypeOK
  <2>2. queue' \in [SerialNodes -> Seq(Ids')] /\ next' \in [Sequencers -> 0 .. NumFrames']
    BY <1>2, <1>4, EmptySeq
  <2>3. traj' \in Seq(Seq(AllFrames \X AllFrames)) /\ T' \in [Ids' -> Seq(AllFrames \X AllFrames)]
    BY <1>4, EmptySeq
  <2>4. node' \in [Ids' -> Nodes] /\ target' \in [Ids' -> ready' \cup {NoFrame}]
    BY <1>4 DEF Nodes
  <2>5. call' \in 0 .. Len(Lengths)
    BY <1>1
  <2>6. AllFrames' = AllFrames
    BY DEF AllFrames
  <2>7. QED
    BY <1>1, <1>3, <1>4, <1>6, <2>1, <2>2, <2>3, <2>4, <2>5, <2>6 DEF TypeOK
<1>8. last_frame' = Pred(0)'
  <2>1. next["postpre"] = NumFrames
    <3>1. next["postpre"] \in 0 .. NumFrames /\ NumFrames \in Nat
      BY <1>1, IdsInt DEF TypeOK, Sequencers
    <3>2. CASE next["postpre"] < NumFrames
      <4>1. next["postpre"] \in Ids /\ ~(next["postpre"] < next["postpre"])
        BY <3>1, <3>2, <1>1, IdsInt
      <4>2. node[next["postpre"]] \notin PastPostpre
        BY <4>1 DEF IInv, Sequenced
      <4>3. QED
        BY <1>3, <4>1, <4>2 DEF PastPostpre, PastPreprocess
    <3>3. QED
      BY <3>1, <3>2
  <2>2. Served("pairing") = NumFrames
    <3>1. ~Busy("pairing")
      BY <1>3 DEF Busy
    <3>2. queue["pairing"] \in Seq(Ids) /\ Fifo("pairing") /\ NumFrames \in Nat
      BY <1>1, IdsInt DEF IInv, TypeOK, SerialNodes
    <3>3. CASE Len(queue["pairing"]) # 0
      <4>1. /\ 1 \in DOMAIN queue["pairing"] /\ queue["pairing"][1] \in Ids
            /\ Len(queue["pairing"]) \in Nat
        BY <3>2, <3>3, LenProperties, ElementOfSeq
      <4>2. node[queue["pairing"][1]] = "pairing"
        BY <1>1, <4>1 DEF TypeOK, Queued, SerialNodes
      <4>3. QED
        BY <1>3, <4>1, <4>2
    <3>4. QED
      BY <2>1, <3>1, <3>2, <3>3 DEF Served, FrontId, Before
  <2>3. last_frame = Pred(NumFrames)
    BY <2>2 DEF IInv, Paired
  <2>4. Pred(0)' = Promise!Predecessor(call + 1, 0)
    BY <1>1 DEF Pred, Promise!Predecessor
  <2>5. QED
    BY <1>1, <1>4, <2>3, <2>4, PredCall
<1>9. Paired'
  BY <1>3, <1>4, <1>5, <1>8 DEF Paired, SerialNodes, PastPairing, PastPostpre, PastPreprocess
<1>10. Sequenced' /\ Registered'
  BY <1>2, <1>4 DEF Sequenced, Registered, Sequencers, PastPostreg, PastRegistration, PastPairing,
                    PastPostpre, PastPreprocess
<1>11. Prepared'
  <2>1. \A f \in ready : f[1] <= call /\ f[1] \in Nat
    BY <1>1 DEF IInv, Prepared, TypeOK, AllFrames
  <2>2. \A i \in Ids' : <<call', i>> \notin ready
    <3> SUFFICES ASSUME NEW i \in Ids', <<call', i>> \in ready PROVE FALSE
      OBVIOUS
    <3>1. <<call', i>>[1] = call'
      OBVIOUS
    <3>2. QED
      BY <1>1, <2>1, <3>1
  <2>3. \A i \in Ids' : node'[i] = "input"
    BY <1>4
  <2>4. \A f \in ready' : f[1] <= call'
    BY <1>1, <1>4, <2>1
  <2>5. QED
    BY <1>4, <2>2, <2>3, <2>4 DEF Prepared, Frame, PastPreprocess
<1>12. Len(traj') = 0
  BY <1>4, EmptySeq
<1>13. CallerInv'
  BY <1>1, <1>4 DEF CallerInv
<1>14. QED
  BY <1>5, <1>7, <1>9, <1>10, <1>11, <1>12, <1>13 DEF IInv, SerialNodes

\* Steps other than CallEstimate keep the frames and their order.
LEMMA SameCall ==
    ASSUME call' = call
    PROVE  /\ NumFrames' = NumFrames /\ Ids' = Ids
           /\ \A i : Pred(i)' = Pred(i) /\ Frame(i)' = Frame(i)
BY DEF NumFrames, Ids, Pred, Promise!Predecessor, Frame

LEMMA FeedInv == ASSUME IInv, NEW i \in Ids, Feed(i) PROVE IInv'
<1>1. /\ TypeOK /\ call' = call /\ caller' = caller /\ caller = "feeding" /\ node[i] = "input"
      /\ num_threads' = num_threads /\ running' = running /\ next' = next
      /\ last_frame' = last_frame /\ target' = target /\ ready' = ready /\ T' = T /\ traj' = traj
  BY DEF IInv, Feed, frameVars
<1>2. /\ node' \in [Ids -> Nodes] /\ node'[i] = "preprocess" /\ queue' = queue
      /\ \A j \in Ids \ {i} : node'[j] = node[j]
  BY <1>1, Passing, Edges DEF Feed, SerialNodes
<1>3. Ids' = Ids /\ NumFrames' = NumFrames /\ Ids \subseteq Nat
      /\ \A j : Pred(j)' = Pred(j) /\ Frame(j)' = Frame(j)
  BY <1>1, SameCall, IdsInt
<1>4. i \notin running /\ running \subseteq Ids
  BY <1>1 DEF TypeOK, BodyNodes, SerialNodes
<1>5. \A s \in SerialNodes : Fifo(s)' /\ Served(s)' = Served(s)
  <2> TAKE s \in SerialNodes
  <2>1. Fifo(s) /\ s # "input" /\ s # "preprocess"
    BY DEF IInv, SerialNodes
  <2>2. \A j \in Ids : node'[j] = s <=> node[j] = s
    BY <1>1, <1>2, <2>1
  <2>3. queue'[s] = queue[s] /\ next'[Before(s)] = next[Before(s)]
    BY <1>1, <1>2
  <2>4. QED
    BY <1>1, <1>3, <1>4, <2>1, <2>2, <2>3, FifoKept
<1>6. TypeOK'
  <2>1. Queued'
    BY <1>1, <1>2, <1>3, <1>5, FifoQueued DEF TypeOK, SerialNodes
  <2>2. running' \subseteq {j \in Ids' : node'[j] \in BodyNodes}
    BY <1>1, <1>2, <1>3, <1>4 DEF TypeOK
  <2>3. AllFrames' = AllFrames
    BY DEF AllFrames
  <2>4. QED
    BY <1>1, <1>2, <1>3, <2>1, <2>2, <2>3 DEF TypeOK
<1>7. Sequenced'
  BY <1>1, <1>2, <1>3 DEF IInv, Sequenced, PastPostreg, PastRegistration, PastPairing, PastPostpre,
                          PastPreprocess
<1>8. Paired'
  BY <1>1, <1>2, <1>3, <1>5 DEF IInv, Paired, SerialNodes, PastPairing, PastPostpre, PastPreprocess
<1>9. Registered'
  BY <1>1, <1>2, <1>3 DEF IInv, Registered, PastRegistration, PastPairing, PastPostpre, PastPreprocess
<1>10. Prepared'
  BY <1>1, <1>2, <1>3 DEF IInv, Prepared, PastPreprocess
<1>11. CallerInv'
  BY <1>1, <1>2, <1>3 DEF IInv, CallerInv
<1>12. QED
  BY <1>1, <1>5, <1>6, <1>7, <1>8, <1>9, <1>10, <1>11 DEF IInv, SerialNodes

\* Steps that change nothing but what the caller does.
LEMMA CallerStays ==
    ASSUME IInv, CallerInv',
           UNCHANGED <<num_threads, call, node, running, queue, next, last_frame, frameVars, traj>>,
           caller' \in {"feeding", "waiting", "returned"}
    PROVE  IInv'
<1>1. Ids' = Ids /\ NumFrames' = NumFrames /\ AllFrames' = AllFrames
      /\ \A j : Pred(j)' = Pred(j) /\ Frame(j)' = Frame(j)
  BY SameCall DEF AllFrames
<1>2. TypeOK'
  <2>1. Queued'
    BY DEF IInv, TypeOK, Queued
  <2>2. QED
    BY <1>1, <2>1 DEF IInv, TypeOK, frameVars
<1>3. \A s \in SerialNodes : Fifo(s)' /\ Served(s)' = Served(s)
  BY <1>1 DEF IInv, Fifo, Served, Busy, FrontId, Before, SerialNodes
<1>4. Sequenced' /\ Paired' /\ Registered' /\ Prepared'
  BY <1>1, <1>3 DEF IInv, Sequenced, Paired, Registered, Prepared, SerialNodes, frameVars
<1>5. QED
  BY <1>2, <1>3, <1>4 DEF IInv, SerialNodes

LEMMA AllFedInv == ASSUME IInv, AllFed PROVE IInv'
<1>1. CallerInv'
  BY SameCall DEF AllFed, IInv, CallerInv
<1>2. QED
  BY <1>1, CallerStays DEF AllFed

\* When the graph is idle, no frame is held back by a sequencer either.
LEMMA IdleIsDone ==
    ASSUME IInv, caller = "waiting", GraphIdle
    PROVE  \A i \in Ids : node[i] = "traj"
<1>1. /\ TypeOK /\ Ids \subseteq Nat /\ \A i \in Ids : node[i] \in {"postpre", "postreg", "traj"}
  BY IdsInt DEF IInv, CallerInv, GraphIdle, TypeOK, Nodes, BodyNodes, SerialNodes, Sequencers
<1>2. \A s \in Sequencers : next[s] \in Nat /\ next[s] <= NumFrames /\ NumFrames \in Nat
  BY <1>1, IdsInt DEF TypeOK
<1>3. next["postpre"] = NumFrames
  <2> SUFFICES ASSUME next["postpre"] < NumFrames PROVE FALSE
    BY <1>2 DEF Sequencers
  <2>1. next["postpre"] \in Ids /\ ~(next["postpre"] < next["postpre"])
    BY <1>1, <1>2, IdsInt DEF Sequencers
  <2>2. node[next["postpre"]] = "postpre"
    BY <1>1, <2>1 DEF IInv, Sequenced, PastPostpre, PastPreprocess
  <2>3. QED
    BY <2>1, <2>2 DEF GraphIdle, Releasable, Sequencers
<1>4. next["postreg"] = NumFrames
  <2> SUFFICES ASSUME next["postreg"] < NumFrames PROVE FALSE
    BY <1>2 DEF Sequencers
  <2>1. next["postreg"] \in Ids /\ ~(next["postreg"] < next["postreg"])
    BY <1>1, <1>2, IdsInt DEF Sequencers
  <2>2. next["postreg"] < next["postpre"]
    BY <1>3
  <2>3. node[next["postreg"]] = "postreg"
    BY <1>1, <2>1, <2>2 DEF IInv, Sequenced, PastPostreg, PastRegistration, PastPairing, PastPostpre,
                            PastPreprocess
  <2>4. QED
    BY <2>1, <2>3 DEF GraphIdle, Releasable, Sequencers
<1>5. \A i \in Ids : i < next["postreg"]
  BY <1>1, <1>4, IdsInt
<1>6. QED
  BY <1>1, <1>5 DEF IInv, Sequenced, PastPostreg, PastRegistration, PastPairing, PastPostpre,
                    PastPreprocess

LEMMA ReturnInv == ASSUME IInv, Return PROVE IInv'
<1>1. \A i \in Ids : node[i] = "traj"
  BY IdleIsDone DEF Return
<1>2. CallerInv'
  BY <1>1, SameCall DEF Return, CallerInv, GraphIdle
<1>3. QED
  BY <1>2, CallerStays DEF Return

\* The tasks running are finitely many, and another one is one more.
LEMMA OneMoreTask ==
    ASSUME TypeOK, NEW i \in Ids \ running, Cardinality(running) < Parallelism
    PROVE  Cardinality(running \cup {i}) <= num_threads
<1>1. IsFiniteSet(Ids) /\ running \subseteq Ids
  <2>1. NumFrames - 1 \in Int /\ 0 \in Int
    BY IdsInt
  <2>2. IsFiniteSet(0 .. NumFrames - 1)
    BY <2>1, FS_Interval
  <2>3. QED
    BY <2>2 DEF Ids, TypeOK
<1>2. IsFiniteSet(running)
  BY <1>1, FS_Subset
<1>3. Cardinality(running \cup {i}) = Cardinality(running) + 1 /\ Cardinality(running) \in Nat
  BY <1>2, FS_AddElement, FS_CardinalityType
<1>4. num_threads \in Nat /\ Parallelism <= num_threads /\ Parallelism \in Int
  BY ThreadsAssumption DEF TypeOK, Parallelism
<1>5. QED
  BY <1>3, <1>4

LEMMA StartInv == ASSUME IInv, NEW i \in Ids, Start(i) PROVE IInv'
<1>1. /\ TypeOK /\ call' = call /\ caller' = caller /\ node' = node /\ next' = next
      /\ num_threads' = num_threads /\ last_frame' = last_frame /\ ready' = ready
      /\ T' = T /\ traj' = traj /\ running' = running \cup {i} /\ i \notin running
      /\ node[i] \in BodyNodes /\ running \subseteq Ids
  BY DEF IInv, TypeOK, Start
<1>2. Ids' = Ids /\ NumFrames' = NumFrames /\ Ids \subseteq Nat /\ AllFrames' = AllFrames
      /\ \A j : Pred(j)' = Pred(j) /\ Frame(j)' = Frame(j)
  BY <1>1, SameCall, IdsInt DEF AllFrames
<1>3. /\ queue' \in [SerialNodes -> Seq(Ids)]
      /\ \A s \in SerialNodes : s # node[i] => queue'[s] = queue[s]
      /\ node[i] \in SerialNodes => /\ queue[node[i]] # <<>> /\ i = Head(queue[node[i]])
                                    /\ queue'[node[i]] = Tail(queue[node[i]])
                                    /\ ~Busy(node[i])
  <2>1. queue \in [SerialNodes -> Seq(Ids)]
    BY <1>1 DEF TypeOK
  <2>2. CASE node[i] \in SerialNodes
    <3>1. /\ queue[node[i]] # <<>> /\ i = Head(queue[node[i]]) /\ ~Busy(node[i])
          /\ queue' = [queue EXCEPT ![node[i]] = Tail(queue[node[i]])]
      BY <2>2 DEF Start, Popped, Turn, Busy
    <3>2. Tail(queue[node[i]]) \in Seq(Ids)
      BY <2>1, <2>2, <3>1, HeadTailProperties
    <3>3. QED
      BY <2>1, <2>2, <3>1, <3>2
  <2>3. CASE node[i] \notin SerialNodes
    BY <2>1, <2>3 DEF Start, Popped
  <2>4. QED
    BY <2>2, <2>3
<1>4. \A s \in SerialNodes : Fifo(s)' /\ Served(s)' = Served(s)
  <2> TAKE s \in SerialNodes
  <2>1. CASE s = node[i]
    BY <1>1, <1>2, <1>3, <2>1, FifoStart
  <2>2. CASE s # node[i]
    <3>1. /\ Fifo(s) /\ queue'[s] = queue[s] /\ next'[Before(s)] = next[Before(s)]
          /\ running' \subseteq Ids
          /\ \A j \in Ids : /\ node'[j] = s <=> node[j] = s
                            /\ node[j] = s => (j \in running' <=> j \in running)
      BY <1>1, <1>3, <2>2 DEF IInv, SerialNodes
    <3>2. QED
      BY <1>1, <1>2, <3>1, FifoKept
  <2>3. QED
    BY <2>1, <2>2
<1>5. node[i] = "pairing" => i = Served("pairing") /\ target'[i] = last_frame /\ last_frame = Pred(i)
  <2> HAVE node[i] = "pairing"
  <2>1. "pairing" \in SerialNodes
    BY DEF SerialNodes
  <2>2. i = Served("pairing")
    BY <1>1, <1>2, <1>3, <2>1, FifoStart
  <2>3. target'[i] = last_frame
    BY <1>1 DEF Start, TypeOK
  <2>4. last_frame = Pred(Served("pairing"))
    BY DEF IInv, Paired
  <2>5. QED
    BY <2>2, <2>3, <2>4
<1>6. /\ target' \in [Ids -> ready \cup {NoFrame}]
      /\ \A j \in Ids : j # i \/ node[i] # "pairing" => target'[j] = target[j]
  BY <1>1 DEF Start, TypeOK
<1>7. TypeOK'
  <2>1. Queued'
    BY <1>1, <1>2, <1>3, <1>4, FifoQueued DEF TypeOK, SerialNodes
  <2>2. Cardinality(running') <= num_threads
    BY <1>1, OneMoreTask DEF Start
  <2>3. running' \subseteq {j \in Ids' : node'[j] \in BodyNodes}
    BY <1>1, <1>2 DEF TypeOK
  <2>4. QED
    BY <1>1, <1>2, <1>3, <1>6, <2>1, <2>2, <2>3 DEF TypeOK
<1>8. Paired'
  <2>1. last_frame' = Pred(Served("pairing"))'
    <3>1. Served("pairing")' = Served("pairing")
      BY <1>4 DEF SerialNodes
    <3>2. Pred(Served("pairing"))' = Pred(Served("pairing"))
      BY <1>1, <3>1 DEF Pred, Promise!Predecessor
    <3>3. QED
      BY <1>1, <3>2 DEF IInv, Paired
  <2>2. \A j \in Ids : node[j] \in PastPairing \/ (node[j] = "pairing" /\ j \in running')
                          => target'[j] = Pred(j)
    BY <1>1, <1>5, <1>6 DEF IInv, Paired, PastPairing, PastPostpre, PastPreprocess
  <2>3. QED
    BY <1>1, <1>2, <2>1, <2>2 DEF Paired
<1>9. Sequenced' /\ Registered' /\ Prepared'
  BY <1>1, <1>2 DEF IInv, Sequenced, Registered, Prepared
<1>10. CallerInv'
  BY <1>1, <1>2 DEF IInv, CallerInv, BodyNodes, SerialNodes
<1>11. QED
  BY <1>1, <1>4, <1>7, <1>8, <1>9, <1>10 DEF IInv, SerialNodes

-----------------------------------------------------------------------------
\* A frame of a call that is running.
LEMMA FrameOfCall ==
    ASSUME TypeOK, NEW i \in Ids
    PROVE  call \in 1 .. Len(Lengths) /\ i \in Nat /\ Frame(i) \in AllFrames
<1>1. call # 0
  BY IdsInt DEF NumFrames
<1>2. call \in 1 .. Len(Lengths) /\ i \in Nat
  BY <1>1, IdsInt, LengthsAssumption DEF TypeOK
<1>3. QED
  BY <1>2 DEF Frame, AllFrames

\* What every task that finishes does, besides its body.
LEMMA Finishing ==
    ASSUME IInv, NEW i \in Ids, Finish(i)
    PROVE  /\ call' = call /\ caller' = caller /\ next' = next /\ num_threads' = num_threads
           /\ target' = target /\ queue' = queue /\ running' = running \ {i} /\ i \in running
           /\ node[i] \in BodyNodes /\ node' \in [Ids -> Nodes] /\ node'[i] = Edge[node[i]]
           /\ \A j \in Ids \ {i} : node'[j] = node[j]
           /\ Edge[node[i]] \in {"postpre", "registration", "postreg", "traj"}
<1>1. i \in running /\ node[i] \in BodyNodes /\ TypeOK
  BY DEF Finish, IInv, TypeOK
<1>2. Edge[node[i]] \in {"postpre", "registration", "postreg", "traj"}
  BY <1>1, Edges DEF BodyNodes, SerialNodes
<1>3. QED
  BY <1>1, <1>2, Edges, Passing DEF Finish, BodyNodes, SerialNodes
\* The queues when a task finishes: only that of its own node is one further.
LEMMA FinishQueues ==
    ASSUME IInv, NEW i \in Ids, Finish(i)
    PROVE  \A s \in SerialNodes :
              /\ Fifo(s)'
              /\ s = node[i] => i = Served(s) /\ Served(s)' = Served(s) + 1
              /\ s # node[i] => Served(s)' = Served(s)
<1>1. /\ TypeOK /\ call' = call /\ next' = next /\ queue' = queue /\ running' = running \ {i}
      /\ i \in running /\ node'[i] \notin SerialNodes /\ \A j \in Ids \ {i} : node'[j] = node[j]
  BY Finishing DEF SerialNodes, IInv
<1>2. Ids' = Ids /\ running \subseteq Ids /\ running' \subseteq Ids
  BY <1>1, SameCall DEF TypeOK
<1> TAKE s \in SerialNodes
<1>3. CASE s = node[i]
  BY <1>1, <1>2, <1>3, FifoFinish
<1>4. CASE s # node[i]
  <2>1. /\ Fifo(s) /\ queue'[s] = queue[s] /\ next'[Before(s)] = next[Before(s)]
        /\ \A j \in Ids : /\ node'[j] = s <=> node[j] = s
                          /\ node[j] = s => (j \in running' <=> j \in running)
    BY <1>1, <1>4 DEF IInv, SerialNodes
  <2>2. QED
    BY <1>2, <1>4, <2>1, FifoKept
<1>5. QED
  BY <1>3, <1>4

\* A registration aligns its frame to the frame before it.
LEMMA Aligned ==
    ASSUME IInv, NEW i \in Ids, Register(i)
    PROVE  /\ T' \in [Ids -> Seq(AllFrames \X AllFrames)]
           /\ T'[i] = Promise!Relative(Pred(i), Frame(i))
           /\ \A j \in Ids \ {i} : T'[j] = T[j]
<1>1. TypeOK /\ target[i] = Pred(i)
  BY DEF IInv, Paired, Register, PastPairing, PastPostpre, PastPreprocess
<1>2. Promise!Relative(Pred(i), Frame(i)) =
        IF target[i] = NoFrame THEN <<>> ELSE << <<target[i], Frame(i)>> >>
  BY <1>1 DEF Promise!Relative, Promise!Identity
<1>3. Promise!Relative(Pred(i), Frame(i)) \in Seq(AllFrames \X AllFrames)
  <2>1. CASE target[i] = NoFrame
    BY <1>2, <2>1, EmptySeq
  <2>2. CASE target[i] # NoFrame
    <3>1. <<target[i], Frame(i)>> \in AllFrames \X AllFrames
      BY <1>1, <2>2, FrameOfCall DEF TypeOK
    <3>2. QED
      BY <1>2, <2>2, <3>1
  <2>3. QED
    BY <2>1, <2>2
<1>4. T' = [T EXCEPT ![i] = Promise!Relative(Pred(i), Frame(i))]
  BY <1>2 DEF Register
<1>5. QED
  BY <1>1, <1>3, <1>4 DEF TypeOK

\* The output node appends the pose of the frame whose turn it is.
LEMMA Appended ==
    ASSUME IInv, NEW i \in running, Output(i)
    PROVE  /\ i \in Ids /\ i = Len(traj) /\ Len(traj') = Len(traj) + 1
           /\ traj' \in Seq(Seq(AllFrames \X AllFrames))
           /\ traj' = Append(traj, Promise!LastPose(traj) \o Promise!Relative(Pred(i), Frame(i)))
<1> DEFINE Poses == Seq(AllFrames \X AllFrames)
<1>1. TypeOK /\ i \in Ids /\ node[i] = "output" /\ i = Len(traj)
  BY RunningInFront DEF IInv, TypeOK, Output, SerialNodes
<1>2. T[i] = Promise!Relative(Pred(i), Frame(i))
  BY <1>1 DEF IInv, Registered, PastRegistration, PastPairing, PastPostpre, PastPreprocess
<1>3. T[i] \in Poses /\ traj \in Seq(Poses)
  BY <1>1 DEF TypeOK
<1>4. (IF traj = <<>> THEN T[i] ELSE traj[Len(traj)] \o T[i]) = Promise!LastPose(traj) \o T[i]
  <2>1. <<>> \o T[i] = T[i]
    BY <1>3, ConcatEmptySeq
  <2>2. QED
    BY <2>1 DEF Promise!LastPose, Promise!Identity
<1>5. Promise!LastPose(traj) \o T[i] \in Poses
  <2>1. Promise!LastPose(traj) \in Poses
    <3>1. CASE traj = <<>>
      BY <3>1, EmptySeq DEF Promise!LastPose, Promise!Identity
    <3>2. CASE traj # <<>>
      <4>1. Len(traj) \in 1 .. Len(traj)
        BY <1>3, <3>2, EmptySeq
      <4>2. traj[Len(traj)] \in Poses
        BY <1>3, <4>1, ElementOfSeq
      <4>3. QED
        BY <3>2, <4>2 DEF Promise!LastPose
    <3>3. QED
      BY <3>1, <3>2
  <2>2. QED
    BY <1>3, <2>1, ConcatProperties
<1> HIDE DEF Poses
<1>6. traj' = Append(traj, Promise!LastPose(traj) \o T[i])
  BY <1>4 DEF Output
<1>7. traj' \in Seq(Poses) /\ Len(traj') = Len(traj) + 1
  BY <1>3, <1>5, <1>6
<1>8. QED
  BY <1>1, <1>2, <1>6, <1>7 DEF Poses
LEMMA FinishInv == ASSUME IInv, NEW i \in Ids, Finish(i) PROVE IInv'
<1>1. /\ TypeOK /\ call' = call /\ caller' = caller /\ next' = next /\ num_threads' = num_threads
      /\ target' = target /\ queue' = queue /\ running' = running \ {i} /\ i \in running
      /\ node[i] \in BodyNodes /\ node' \in [Ids -> Nodes] /\ node'[i] = Edge[node[i]]
      /\ \A j \in Ids \ {i} : node'[j] = node[j]
      /\ Edge[node[i]] \in {"postpre", "registration", "postreg", "traj"}
  BY Finishing DEF IInv
<1>2. Ids' = Ids /\ NumFrames' = NumFrames /\ Ids \subseteq Nat /\ AllFrames' = AllFrames
      /\ \A j : Pred(j)' = Pred(j) /\ Frame(j)' = Frame(j)
  BY <1>1, SameCall, IdsInt DEF AllFrames
<1>3. \A s \in SerialNodes :
              /\ Fifo(s)'
              /\ s = node[i] => i = Served(s) /\ Served(s)' = Served(s) + 1
              /\ s # node[i] => Served(s)' = Served(s)
  BY FinishQueues
<1>4. \/ node[i] = "preprocess" /\ node'[i] = "postpre" /\ Preprocess(i)
      \/ node[i] = "pairing" /\ node'[i] = "registration" /\ Pair(i)
      \/ node[i] = "registration" /\ node'[i] = "postreg" /\ Register(i)
      \/ node[i] = "output" /\ node'[i] = "traj" /\ Output(i)
  BY <1>1, Edges DEF Finish, Preprocess, Pair, Register, Output
<1>5. Frame(i) \in AllFrames /\ i \in Nat /\ call \in 1 .. Len(Lengths)
  BY <1>1, FrameOfCall
<1>6. /\ T' \in [Ids -> Seq(AllFrames \X AllFrames)]
      /\ \A j \in Ids : j # i \/ node[i] # "registration" => T'[j] = T[j]
      /\ node[i] = "registration" => T'[i] = Promise!Relative(Pred(i), Frame(i))
  BY <1>1, <1>4, Aligned DEF Preprocess, Pair, Output, TypeOK
<1>7. /\ traj' \in Seq(Seq(AllFrames \X AllFrames))
      /\ Len(traj') = IF node[i] = "output" THEN Len(traj) + 1 ELSE Len(traj)
  BY <1>1, <1>4, Appended DEF Preprocess, Pair, Register, TypeOK
<1>8. /\ ready' = IF node[i] = "preprocess" THEN ready \cup {Frame(i)} ELSE ready
      /\ last_frame' = IF node[i] = "pairing" THEN Frame(i) ELSE last_frame
  BY <1>4 DEF Preprocess, Pair, Register, Output
<1>9. node[i] = "pairing" => Frame(i) \in ready
  BY DEF IInv, Prepared, PastPreprocess
<1>10. TypeOK'
  <2>1. Queued'
    BY <1>1, <1>2, <1>3, FifoQueued DEF TypeOK, SerialNodes
  <2>2. running' \subseteq {j \in Ids' : node'[j] \in BodyNodes}
    BY <1>1, <1>2 DEF TypeOK
  <2>3. Cardinality(running') <= num_threads
    <3>1. IsFiniteSet(running)
      <4>1. NumFrames - 1 \in Int /\ 0 \in Int
        BY <1>1, IdsInt
      <4>2. IsFiniteSet(Ids)
        BY <4>1, FS_Interval DEF Ids
      <4>3. QED
        BY <1>1, <4>2, FS_Subset DEF TypeOK
    <3>2. Cardinality(running) \in Nat /\ Cardinality(running') = Cardinality(running) - 1
      BY <1>1, <3>1, FS_RemoveElement, FS_CardinalityType
    <3>3. QED
      BY <1>1, <3>2, ThreadsAssumption DEF TypeOK
  <2>4. ready' \subseteq AllFrames /\ ready \subseteq ready'
    BY <1>1, <1>5, <1>8 DEF TypeOK
  <2>5. last_frame' \in ready' \cup {NoFrame} /\ target' \in [Ids -> ready' \cup {NoFrame}]
    BY <1>1, <1>8, <1>9, <2>4 DEF TypeOK
  <2>6. QED
    BY <1>1, <1>2, <1>6, <1>7, <2>1, <2>2, <2>3, <2>4, <2>5 DEF TypeOK
<1>11. Sequenced'
  BY <1>1, <1>2, <1>4 DEF IInv, Sequenced, PastPostreg, PastRegistration, PastPairing, PastPostpre,
                          PastPreprocess
<1>12. Paired'
  <2>1. last_frame' = Pred(Served("pairing"))'
    <3>1. CASE node[i] = "pairing"
      <4>1. Served("pairing")' = i + 1
        BY <1>3, <3>1 DEF SerialNodes
      <4>2. Pred(Served("pairing"))' = Pred(i + 1)
        BY <1>1, <4>1 DEF Pred, Promise!Predecessor
      <4>3. QED
        BY <1>5, <1>8, <3>1, <4>2, PredNext
    <3>2. CASE node[i] # "pairing"
      <4>1. Served("pairing")' = Served("pairing")
        BY <1>3, <3>2 DEF SerialNodes
      <4>2. Pred(Served("pairing"))' = Pred(Served("pairing"))
        BY <1>1, <4>1 DEF Pred, Promise!Predecessor
      <4>3. QED
        BY <1>8, <3>2, <4>2 DEF IInv, Paired
    <3>3. QED
      BY <3>1, <3>2
  <2>2. \A j \in Ids : node'[j] \in PastPairing \/ (node'[j] = "pairing" /\ j \in running')
                          => target[j] = Pred(j)
    BY <1>1, <1>4 DEF IInv, Paired, PastPairing, PastPostpre, PastPreprocess
  <2>3. QED
    BY <1>1, <1>2, <2>1, <2>2 DEF Paired
<1>13. Registered'
  <2>1. \A j \in Ids : node'[j] \in PastRegistration => T'[j] = Promise!Relative(Pred(j), Frame(j))
    BY <1>1, <1>4, <1>6 DEF IInv, Registered, PastRegistration, PastPairing, PastPostpre,
                            PastPreprocess
  <2>2. QED
    BY <1>2, <2>1 DEF Registered, Promise!Relative, Promise!Identity
<1>14. Prepared'
  <2>1. \A j \in Ids : Frame(j) = Frame(i) <=> j = i
    BY DEF Frame
  <2>2. \A j \in Ids : Frame(j) \in ready' <=> node'[j] \in PastPreprocess
    BY <1>1, <1>4, <1>8, <2>1 DEF IInv, Prepared, PastPreprocess
  <2>3. \A f \in ready' : f[1] <= call
    BY <1>5, <1>8 DEF IInv, Prepared, Frame
  <2>4. QED
    BY <1>1, <1>2, <2>2, <2>3 DEF Prepared
<1>15. Len(traj') = Served("output")'
  BY <1>3, <1>7 DEF IInv, SerialNodes
<1>16. CallerInv'
  BY <1>1, <1>2, <1>4 DEF IInv, CallerInv
<1>17. QED
  BY <1>3, <1>10, <1>11, <1>12, <1>13, <1>14, <1>15, <1>16 DEF IInv, SerialNodes
-----------------------------------------------------------------------------
LEMMA ForwardInv == ASSUME IInv, NEW i \in Ids, NEW q \in Sequencers, Forward(q, i) PROVE IInv'
<1> DEFINE to == Edge[q]
<1>1. /\ TypeOK /\ call' = call /\ caller' = caller /\ running' = running /\ num_threads' = num_threads
      /\ target' = target /\ last_frame' = last_frame /\ ready' = ready /\ T' = T /\ traj' = traj
      /\ node[i] = q /\ i = next[q] /\ next' = [next EXCEPT ![q] = next[q] + 1]
  BY DEF Forward, Releasable, frameVars, IInv
<1>2. /\ (q = "postpre" /\ to = "pairing") \/ (q = "postreg" /\ to = "output")
      /\ to \in SerialNodes /\ Before(to) = q
      /\ \A s \in SerialNodes \ {to} : Before(s) # q
  BY Edges DEF Sequencers, SerialNodes, Before
<1>3. /\ node' \in [Ids -> Nodes] /\ node'[i] = to /\ \A j \in Ids \ {i} : node'[j] = node[j]
      /\ queue' = [queue EXCEPT ![to] = Append(queue[to], i)]
  BY <1>1, <1>2, Passing DEF Forward
<1> HIDE DEF to
<1>4. Ids' = Ids /\ NumFrames' = NumFrames /\ Ids \subseteq Nat /\ AllFrames' = AllFrames
      /\ \A j : Pred(j)' = Pred(j) /\ Frame(j)' = Frame(j)
  BY <1>1, SameCall, IdsInt DEF AllFrames
<1>5. /\ queue \in [SerialNodes -> Seq(Ids)] /\ next \in [Sequencers -> 0 .. NumFrames]
      /\ running \subseteq Ids /\ i \notin running
  BY <1>1, <1>2 DEF TypeOK, BodyNodes, SerialNodes
<1>6. /\ queue'[to] = Append(queue[to], i) /\ queue' \in [SerialNodes -> Seq(Ids)]
      /\ \A s \in SerialNodes \ {to} : queue'[s] = queue[s]
  <2>1. Append(queue[to], i) \in Seq(Ids)
    BY <1>2, <1>5
  <2>2. QED
    BY <1>2, <1>3, <1>5, <2>1
<1>7. /\ next'[q] = next[q] + 1 /\ next' \in [Sequencers -> 0 .. NumFrames]
      /\ \A s \in Sequencers \ {q} : next'[s] = next[s]
  <2>1. next[q] + 1 \in 0 .. NumFrames
    BY <1>1, <1>5, IdsInt
  <2>2. QED
    BY <1>1, <1>5, <2>1
<1>8. \A s \in SerialNodes : Fifo(s)' /\ Served(s)' = Served(s)
  <2> TAKE s \in SerialNodes
  <2>1. CASE s = to
    <3>1. /\ i = next[Before(s)] /\ node[i] = Before(s) /\ queue'[s] = Append(queue[s], i)
          /\ next'[Before(s)] = next[Before(s)] + 1 /\ node'[i] = s
      BY <1>1, <1>2, <1>3, <1>6, <1>7, <2>1
    <3>2. QED
      BY <1>1, <1>3, <1>4, <3>1, FifoForward
  <2>2. CASE s # to
    <3>1. /\ Fifo(s) /\ queue'[s] = queue[s] /\ next'[Before(s)] = next[Before(s)]
          /\ \A j \in Ids : node'[j] = s <=> node[j] = s
      BY <1>1, <1>2, <1>3, <1>6, <1>7, <2>2 DEF IInv, SerialNodes, Sequencers, Before
    <3>2. QED
      BY <1>1, <1>4, <1>5, <3>1, FifoKept
  <2>3. QED
    BY <2>1, <2>2
<1>9. TypeOK'
  <2>1. Queued'
    BY <1>4, <1>6, <1>7, <1>8, FifoQueued DEF SerialNodes
  <2>2. running' \subseteq {j \in Ids' : node'[j] \in BodyNodes}
    BY <1>1, <1>3, <1>4, <1>5 DEF TypeOK
  <2>3. QED
    BY <1>1, <1>3, <1>4, <1>6, <1>7, <2>1, <2>2 DEF TypeOK
<1>10. Sequenced'
  <2> SUFFICES ASSUME NEW j \in Ids
               PROVE  /\ j < next'["postpre"] <=> node'[j] \in PastPostpre
                      /\ j < next'["postreg"] <=> node'[j] \in PastPostreg
    BY <1>4 DEF Sequenced
  <2>1. /\ j < next["postpre"] <=> node[j] \in PastPostpre
        /\ j < next["postreg"] <=> node[j] \in PastPostreg
        /\ j \in Nat
    BY <1>4 DEF IInv, Sequenced
  <2>2. next["postpre"] \in Nat /\ next["postreg"] \in Nat
    BY <1>5, <1>4, IdsInt DEF Sequencers
  <2>3. CASE q = "postpre"
    <3>1. next'["postpre"] = i + 1 /\ next["postpre"] = i /\ next'["postreg"] = next["postreg"]
      BY <1>1, <1>7, <2>3 DEF Sequencers
    <3>2. to = "pairing"
      BY <1>2, <2>3
    <3>3. QED
      BY <1>1, <1>3, <2>1, <2>2, <2>3, <3>1, <3>2 DEF PastPostreg, PastRegistration, PastPairing,
                                                      PastPostpre, PastPreprocess
  <2>4. CASE q = "postreg"
    <3>1. next'["postreg"] = i + 1 /\ next["postreg"] = i /\ next'["postpre"] = next["postpre"]
      BY <1>1, <1>7, <2>4 DEF Sequencers
    <3>2. to = "output"
      BY <1>2, <2>4
    <3>3. QED
      BY <1>1, <1>3, <2>1, <2>2, <2>4, <3>1, <3>2 DEF PastPostreg, PastRegistration, PastPairing,
                                                      PastPostpre, PastPreprocess
  <2>5. QED
    BY <2>3, <2>4 DEF Sequencers
<1>11. Paired'
  <2>1. Served("pairing")' = Served("pairing")
    BY <1>8 DEF SerialNodes
  <2>2. Pred(Served("pairing"))' = Pred(Served("pairing"))
    BY <1>1, <2>1 DEF Pred, Promise!Predecessor
  <2>3. \A j \in Ids : node'[j] \in PastPairing \/ (node'[j] = "pairing" /\ j \in running)
                          => target[j] = Pred(j)
    BY <1>1, <1>2, <1>3, <1>5 DEF IInv, Paired, PastPairing, PastPostpre, PastPreprocess
  <2>4. QED
    BY <1>1, <1>4, <2>2, <2>3 DEF IInv, Paired
<1>12. Registered'
  <2>1. \A j \in Ids : node'[j] \in PastRegistration => T[j] = Promise!Relative(Pred(j), Frame(j))
    BY <1>1, <1>2, <1>3 DEF IInv, Registered, PastRegistration, PastPairing, PastPostpre, PastPreprocess
  <2>2. QED
    BY <1>1, <1>4, <2>1 DEF Registered, Promise!Relative, Promise!Identity
<1>13. Prepared'
  BY <1>1, <1>2, <1>3, <1>4 DEF IInv, Prepared, PastPreprocess
<1>14. CallerInv'
  BY <1>1, <1>2, <1>3, <1>4 DEF IInv, CallerInv
<1>15. QED
  BY <1>1, <1>8, <1>9, <1>10, <1>11, <1>12, <1>13, <1>14 DEF IInv, SerialNodes

\* When every frame has left the graph, the trajectory is complete.
LEMMA AllOut ==
    ASSUME IInv, running = {}, \A i \in Ids : node[i] = "traj"
    PROVE  Len(traj) = NumFrames
<1>1. TypeOK /\ queue["output"] \in Seq(Ids) /\ next["postreg"] \in 0 .. NumFrames /\ NumFrames \in Nat
  BY IdsInt DEF IInv, TypeOK, SerialNodes, Sequencers
<1>2. next["postreg"] = NumFrames
  <2> SUFFICES ASSUME next["postreg"] < NumFrames PROVE FALSE
    BY <1>1
  <2>1. next["postreg"] \in Ids /\ ~(next["postreg"] < next["postreg"])
    BY <1>1, IdsInt
  <2>2. QED
    BY <2>1 DEF IInv, Sequenced, PastPostreg, PastRegistration, PastPairing, PastPostpre, PastPreprocess
<1>3. Len(queue["output"]) = 0
  <2> SUFFICES ASSUME Len(queue["output"]) # 0 PROVE FALSE
    OBVIOUS
  <2>1. 1 \in DOMAIN queue["output"] /\ queue["output"][1] \in Ids
    BY <1>1, LenProperties, ElementOfSeq
  <2>2. node[queue["output"][1]] = "output"
    BY <1>1, <2>1 DEF TypeOK, Queued, SerialNodes
  <2>3. QED
    BY <2>1, <2>2
<1>4. ~Busy("output")
  BY DEF Busy
<1>5. QED
  BY <1>1, <1>2, <1>3, <1>4 DEF IInv, Served, FrontId, Before

-----------------------------------------------------------------------------
\* Along every behaviour of the flow: sequencers have passed on what is below
\* their counters, queues hold consecutive frames, pairs are of neighbours.
THEOREM Invariance == Spec => []IInv
<1>1. Init => IInv
  BY InitInv
<1>2. IInv /\ [Next]_vars => IInv'
  <2> SUFFICES ASSUME IInv, [Next]_vars PROVE IInv'
    OBVIOUS
  <2>1. CASE CallEstimate
    BY <2>1, CallEstimateInv
  <2>2. ASSUME NEW i \in Ids, Feed(i) PROVE IInv'
    BY <2>2, FeedInv
  <2>3. CASE AllFed
    BY <2>3, AllFedInv
  <2>4. CASE Return
    BY <2>4, ReturnInv
  <2>5. ASSUME NEW i \in Ids, Start(i) PROVE IInv'
    BY <2>5, StartInv
  <2>6. ASSUME NEW i \in Ids, Finish(i) PROVE IInv'
    BY <2>6, FinishInv
  <2>7. ASSUME NEW i \in Ids, NEW s \in Sequencers, Forward(s, i) PROVE IInv'
    BY <2>7, ForwardInv
  <2>8. CASE UNCHANGED vars
    <3>1. caller' = caller /\ UNCHANGED <<num_threads, call, node, running, queue, next,
                                          last_frame, frameVars, traj>>
      BY <2>8 DEF vars, frameVars
    <3>2. CallerInv' /\ caller \in {"feeding", "waiting", "returned"}
      BY <3>1, SameCall DEF IInv, CallerInv, TypeOK
    <3>3. QED
      BY <3>1, <3>2, CallerStays
  <2>9. QED
    BY <2>1, <2>2, <2>3, <2>4, <2>5, <2>6, <2>7, <2>8 DEF Next, CallerStep, GraphStep
<1>3. QED
  BY <1>1, <1>2, PTL DEF Spec

\* The flow's variables have their types, for any number of frames and threads; no
\* more tasks run than params.num_threads allows.
THEOREM TypeCorrectness == Spec => []TypeOK
<1>1. IInv => TypeOK
  BY DEF IInv
<1>2. QED
  BY <1>1, Invariance, PTL

\* No task writes a field of a frame, or a variable of a node, that another
\* running task reads or writes.
THEOREM RaceFreedom == Spec => []NoDataRace
<1>1. IInv => NoDataRace
  <2> SUFFICES ASSUME IInv, NEW i \in running, NEW j \in running, i # j
               PROVE  Writes(i) \cap (Reads(j) \cup Writes(j)) = {}
    BY DEF NoDataRace
  <2>1. TypeOK /\ i \in Ids /\ j \in Ids /\ node[i] \in BodyNodes /\ node[j] \in BodyNodes
    BY DEF IInv, TypeOK
  <2>2. Frame(i) # Frame(j)
    BY DEF Frame
  <2>3. node[i] = node[j] => node[i] \notin SerialNodes
    BY RunningInFront
  <2>4. node[i] = "preprocess" => Frame(i) \notin ready
    BY <2>1 DEF IInv, Prepared, PastPreprocess
  <2>5. target[j] \in ready \cup {NoFrame} /\ (node[j] = "registration" => Frame(j) \in ready)
    BY <2>1 DEF IInv, TypeOK, Prepared, PastPreprocess
  <2>6. CASE node[i] = "preprocess"
    <3>1. Writes(i) = {<<"points", Frame(i)>>}
      BY <2>6 DEF Writes, SerialNodes
    <3>2. <<"points", Frame(i)>> \notin Reads(j)
      BY <2>2, <2>4, <2>5, <2>6 DEF Reads
    <3>3. <<"points", Frame(i)>> \notin Writes(j)
      BY <2>2 DEF Writes, SerialNodes
    <3>4. QED
      BY <3>1, <3>2, <3>3
  <2>7. CASE node[i] = "registration"
    <3>1. Writes(i) = {<<"T_last_current", Frame(i)>>}
      BY <2>7 DEF Writes, SerialNodes
    <3>2. <<"T_last_current", Frame(i)>> \notin Reads(j)
      BY <2>2 DEF Reads
    <3>3. <<"T_last_current", Frame(i)>> \notin Writes(j)
      BY <2>2 DEF Writes, SerialNodes
    <3>4. QED
      BY <3>1, <3>2, <3>3
  <2>8. CASE node[i] \in SerialNodes
    <3>1. \A x \in Writes(i) : x[1] \in {"last_frame", "traj"}
      BY <2>8 DEF Writes, SerialNodes
    <3>2. \A x \in Reads(j) : x[1] \in {"points", "T_last_current"}
      BY DEF Reads
    <3>3. \A x \in Writes(i) : x = <<IF node[i] = "pairing" THEN "last_frame" ELSE "traj", "shared">>
      BY <2>8 DEF Writes, SerialNodes
    <3>4. \A x \in Writes(j) : x[1] # IF node[i] = "pairing" THEN "last_frame" ELSE "traj"
      BY <2>1, <2>3, <2>8 DEF Writes, BodyNodes, SerialNodes
    <3>5. QED
      BY <3>1, <3>2, <3>3, <3>4
  <2>9. QED
    BY <2>1, <2>6, <2>7, <2>8 DEF BodyNodes
<1>2. QED
  BY <1>1, Invariance, PTL

\* A registration reads two clouds that have been preprocessed, however frames
\* overtake one another before the sequencer.
THEOREM PreparedClouds == Spec => []AlignsPrepared
<1>1. IInv => AlignsPrepared
  <2> SUFFICES ASSUME IInv, NEW i \in running, node[i] = "registration"
               PROVE  Frame(i) \in ready /\ target[i] \in ready \cup {NoFrame}
    BY DEF AlignsPrepared
  <2>1. i \in Ids
    BY DEF IInv, TypeOK
  <2>2. QED
    BY <2>1 DEF IInv, TypeOK, Prepared, PastPreprocess
<1>2. QED
  BY <1>1, Invariance, PTL

\* Every step of the flow is a step of sequential odometry, or one of its frames
\* on the way.
THEOREM Refinement == Spec => InOrder
<1>1. Init => Promise!InitSpec
  BY DEF Init, Promise!InitSpec
<1>2. IInv /\ [Next]_vars => [Promise!NextSpec]_<<call, traj, caller = "returned">>
  <2> SUFFICES ASSUME IInv, [Next]_vars
               PROVE  \/ Promise!NextSpec
                      \/ UNCHANGED <<call, traj, caller = "returned">>
    OBVIOUS
  <2>1. CASE CallEstimate
    BY <2>1 DEF CallEstimate, Promise!NextSpec, Promise!CallEstimate
  <2>2. ASSUME NEW i \in Ids, Feed(i) PROVE UNCHANGED <<call, traj, caller = "returned">>
    BY <2>2 DEF Feed
  <2>3. CASE AllFed
    BY <2>3 DEF AllFed
  <2>4. CASE Return
    <3>1. \A i \in Ids : node[i] = "traj"
      BY <2>4, IdleIsDone DEF Return
    <3>2. Len(traj) = NumFrames
      BY <2>4, <3>1, AllOut DEF Return, GraphIdle
    <3>3. call # 0 /\ NumFrames = Lengths[call]
      BY <2>4 DEF IInv, CallerInv, Return, NumFrames
    <3>4. QED
      BY <2>4, <3>2, <3>3 DEF Return, Promise!NextSpec, Promise!ReturnTrajectory
  <2>5. ASSUME NEW i \in Ids, Start(i) PROVE UNCHANGED <<call, traj, caller = "returned">>
    BY <2>5 DEF Start
  <2>6. ASSUME NEW i \in Ids, Finish(i)
        PROVE  Promise!NextSpec \/ UNCHANGED <<call, traj, caller = "returned">>
    <3>1. i \in running /\ call' = call /\ caller' = caller
      BY <2>6, Finishing
    <3>2. CASE Output(i)
      <4>1. /\ i = Len(traj)
            /\ traj' = Append(traj, Promise!LastPose(traj) \o Promise!Relative(Pred(i), Frame(i)))
        BY <3>1, <3>2, Appended
      <4>2. caller # "returned" /\ i < NumFrames /\ call # 0
        BY <3>1, IdsInt DEF IInv, CallerInv
      <4>3. NumFrames = Lengths[call]
        BY <4>2 DEF NumFrames
      <4>4. QED
        BY <3>1, <4>1, <4>2, <4>3 DEF Promise!NextSpec, Promise!NextFrame, Pred, Frame
    <3>3. CASE ~Output(i)
      <4>1. traj' = traj
        BY <2>6, <3>3 DEF Finish, Preprocess, Pair, Register
      <4>2. QED
        BY <3>1, <4>1
    <3>4. QED
      BY <3>2, <3>3
  <2>7. ASSUME NEW i \in Ids, NEW s \in Sequencers, Forward(s, i)
        PROVE  UNCHANGED <<call, traj, caller = "returned">>
    BY <2>7 DEF Forward
  <2>8. CASE UNCHANGED vars
    BY <2>8 DEF vars
  <2>9. QED
    BY <2>1, <2>2, <2>3, <2>4, <2>5, <2>6, <2>7, <2>8 DEF Next, CallerStep, GraphStep
<1>3. QED
  BY <1>1, <1>2, Invariance, PTL DEF Spec, InOrder, Promise!Sequential, Promise!specVars
=============================================================================
