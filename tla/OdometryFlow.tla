----------------------------- MODULE OdometryFlow ----------------------------
(***************************************************************************)
(* Streaming odometry as a TBB flow graph: frames are preprocessed by any  *)
(* number of tasks, put in order by a sequencer, paired with their         *)
(* predecessor one by one, registered by any number of tasks, put in order *)
(* again, and appended to the trajectory one by one.                       *)
(*                                                                         *)
(* The graph's nodes are TBB's.  A function_node of unlimited concurrency  *)
(* may run a task for every message, one of concurrency 1 queues them; a   *)
(* sequencer_node passes on message number n after number n - 1.  A task   *)
(* starts, reading what its body reads, and finishes in two steps.         *)
(***************************************************************************)
EXTENDS Integers, Sequences, FiniteSets

CONSTANTS
    Lengths,        \* the number of clouds of every call of estimate()
    NoFrame,        \* the null pointer
    ThreadCounts    \* possible values of params.num_threads

VARIABLES
    num_threads,  \* params.num_threads: max_allowed_parallelism
    call,         \* the current or last call of estimate(), 0 before the first
    caller,       \* its thread: "feeding", "waiting" for the graph, or "returned"
    node,         \* frame id -> the node the frame is at
    running,      \* frames whose task at their node is running
    queue,        \* inputs of the nodes of concurrency 1, in order of arrival
    next,         \* the id every sequencer passes on next
    last_frame,   \* the static variable of pairing_node
    target,       \* frame id -> the pair's other frame
    ready,        \* frames with downsampled points, a k-d tree and covariances
    T,            \* frame id -> T_last_current
    traj

frameVars == <<target, ready, T>>
vars == <<num_threads, call, caller, node, running, queue, next, last_frame,
          target, ready, T, traj>>

ASSUME LengthsAssumption == Lengths \in Seq(Nat)
ASSUME ThreadsAssumption == ThreadCounts \subseteq Nat \ {0}
ASSUME NoFrameAssumption == NoFrame \notin Nat \X Nat

-----------------------------------------------------------------------------
\* The graph.
SerialNodes == {"pairing", "output"}
Sequencers == {"postpre", "postreg"}
BodyNodes == {"preprocess", "registration"} \cup SerialNodes
Nodes == {"input", "traj"} \cup BodyNodes \cup Sequencers

\* Faulty: frames are sequenced and paired as they come in.
SkipsPreprocessing ==
    [input |-> "postpre", preprocess |-> "postpre", postpre |-> "pairing",
     pairing |-> "registration", registration |-> "postreg", postreg |-> "output",
     output |-> "traj"]
Edge ==
    [input |-> "preprocess", preprocess |-> "postpre", postpre |-> "pairing",
     pairing |-> "registration", registration |-> "postreg", postreg |-> "output",
     output |-> "traj"]

NumFrames == IF call = 0 THEN 0 ELSE Lengths[call]
Ids == 0 .. NumFrames - 1

\* try_put of frame i to the successor of its node.
Pass(i) ==
    LET to == Edge[node[i]] IN
    /\ node' = [node EXCEPT ![i] = to]
    /\ queue' = IF to \in SerialNodes THEN [queue EXCEPT ![to] = Append(@, i)] ELSE queue

\* Faulty: a sequencer passes on whichever frame is there.
Unsequenced(s) == {i \in Ids : node[i] = s}
\* The frame a sequencer may pass on.
Releasable(s) == {i \in Ids : node[i] = s /\ i = next[s]}

-----------------------------------------------------------------------------
\* The caller's thread.
CallEstimate ==
    /\ caller = "returned"
    /\ call < Len(Lengths)
    /\ call' = call + 1
    /\ caller' = "feeding"
    /\ node' = [i \in 0 .. Lengths[call'] - 1 |-> "input"]
    /\ queue' = [s \in SerialNodes |-> <<>>]
    /\ next' = [s \in Sequencers |-> 0]
    /\ target' = [i \in 0 .. Lengths[call'] - 1 |-> NoFrame]
    /\ T' = [i \in 0 .. Lengths[call'] - 1 |-> <<>>]
    /\ traj' = <<>>
    /\ UNCHANGED <<num_threads, running, last_frame, ready>>

Feed(i) ==
    /\ caller = "feeding"
    /\ node[i] = "input"
    /\ \A j \in 0 .. i - 1 : node[j] # "input"
    /\ Pass(i)
    /\ UNCHANGED <<num_threads, call, caller, running, next, last_frame, frameVars, traj>>

AllFed ==
    /\ caller = "feeding"
    /\ \A i \in Ids : node[i] # "input"
    /\ caller' = "waiting"
    /\ UNCHANGED <<num_threads, call, node, running, queue, next, last_frame, frameVars, traj>>

\* wait_for_all() waits for tasks, those still to be started too; it does not
\* know of frames a sequencer holds back.
GraphIdle ==
    /\ running = {}
    /\ \A i \in Ids : node[i] \notin BodyNodes
    /\ \A s \in Sequencers : Releasable(s) = {}

Return ==
    /\ caller = "waiting"
    /\ GraphIdle
    /\ caller' = "returned"
    /\ UNCHANGED <<num_threads, call, node, running, queue, next, last_frame, frameVars, traj>>

-----------------------------------------------------------------------------
\* The graph's tasks.

\* Faulty: the caller's thread never helps.
OnlyWorkers == num_threads - 1
\* The caller executes tasks itself while it waits, and is one of num_threads.
Parallelism == IF caller = "waiting" THEN num_threads ELSE num_threads - 1

\* Faulty: a node of concurrency 1 starts a second task.
QueueOnly(i) == node[i] \in SerialNodes => /\ queue[node[i]] # <<>> /\ i = Head(queue[node[i]])
\* The first frame in the queue of a node of concurrency 1 that has no task running.
Turn(i) ==
    node[i] \in SerialNodes =>
        /\ queue[node[i]] # <<>> /\ i = Head(queue[node[i]])
        /\ \A j \in running : node[j] # node[i]

\* Faulty: the frame stays in the queue.
Peeked(i) == queue
Popped(i) == IF node[i] \in SerialNodes THEN [queue EXCEPT ![node[i]] = Tail(@)] ELSE queue

Start(i) ==
    /\ node[i] \in BodyNodes
    /\ i \notin running
    /\ Cardinality(running) < Parallelism
    /\ Turn(i)
    /\ running' = running \cup {i}
    /\ queue' = Popped(i)
    /\ target' = IF node[i] = "pairing" THEN [target EXCEPT ![i] = last_frame] ELSE target
    /\ UNCHANGED <<num_threads, call, caller, node, next, last_frame, ready, T, traj>>

Frame(i) == <<call, i>>

Preprocess(i) ==
    /\ node[i] = "preprocess"
    /\ ready' = ready \cup {Frame(i)}
    /\ UNCHANGED <<last_frame, T, traj>>

Pair(i) ==
    /\ node[i] = "pairing"
    /\ last_frame' = Frame(i)
    /\ UNCHANGED <<ready, T, traj>>

Register(i) ==
    /\ node[i] = "registration"
    /\ T' = [T EXCEPT ![i] = IF target[i] = NoFrame THEN <<>> ELSE << <<target[i], Frame(i)>> >>]
    /\ UNCHANGED <<last_frame, ready, traj>>

Output(i) ==
    /\ node[i] = "output"
    /\ traj' = Append(traj, IF traj = <<>> THEN T[i] ELSE traj[Len(traj)] \o T[i])
    /\ UNCHANGED <<last_frame, ready, T>>

Finish(i) ==
    /\ i \in running
    /\ Preprocess(i) \/ Pair(i) \/ Register(i) \/ Output(i)
    /\ running' = running \ {i}
    /\ Pass(i)
    /\ UNCHANGED <<num_threads, call, caller, next, target>>

Forward(s, i) ==
    /\ i \in Releasable(s)
    /\ next' = [next EXCEPT ![s] = @ + 1]
    /\ Pass(i)
    /\ UNCHANGED <<num_threads, call, caller, running, last_frame, frameVars, traj>>

-----------------------------------------------------------------------------
Init ==
    /\ num_threads \in ThreadCounts
    /\ call = 0
    /\ caller = "returned"
    /\ node = <<>>
    /\ running = {}
    /\ queue = [s \in SerialNodes |-> <<>>]
    /\ next = [s \in Sequencers |-> 0]
    /\ last_frame = NoFrame
    /\ target = <<>>
    /\ ready = {}
    /\ T = <<>>
    /\ traj = <<>>

GraphStep == \E i \in Ids : Start(i) \/ Finish(i) \/ \E s \in Sequencers : Forward(s, i)
CallerStep == (\E i \in Ids : Feed(i)) \/ AllFed \/ Return

Next == CallEstimate \/ CallerStep \/ GraphStep

Spec == Init /\ [][Next]_vars

\* A call of estimate() runs until it returns; the caller may never call again.
FairSpec == Spec /\ WF_vars(CallerStep) /\ WF_vars(GraphStep)

-----------------------------------------------------------------------------
AllFrames == (1 .. Len(Lengths)) \X Nat

\* What waits at a node of concurrency 1 are distinct frames that are there.
Queued ==
    \A s \in SerialNodes : \A m, n \in DOMAIN queue[s] :
        /\ node[queue[s][m]] = s /\ queue[s][m] \notin running
        /\ queue[s][m] = queue[s][n] => m = n

\* Types of the flow's state; no more tasks run than there are threads, and only
\* at nodes that have a body.
TypeOK ==
    /\ num_threads \in ThreadCounts
    /\ call \in 0 .. Len(Lengths)
    /\ caller \in {"feeding", "waiting", "returned"}
    /\ node \in [Ids -> Nodes]
    /\ running \subseteq {i \in Ids : node[i] \in BodyNodes}
    /\ Cardinality(running) <= num_threads
    /\ queue \in [SerialNodes -> Seq(Ids)] /\ Queued
    /\ next \in [Sequencers -> 0 .. NumFrames]
    /\ ready \subseteq AllFrames
    /\ last_frame \in ready \cup {NoFrame}
    /\ target \in [Ids -> ready \cup {NoFrame}]
    /\ T \in [Ids -> Seq(AllFrames \X AllFrames)]
    /\ traj \in Seq(Seq(AllFrames \X AllFrames))

\* What the running task of frame i reads and writes.
Reads(i) ==
    LET of(what, frames) == {<<what, f>> : f \in frames \ {NoFrame}} IN
    of("points", IF node[i] \in {"preprocess", "output"} THEN {Frame(i)}
                 ELSE IF node[i] = "registration" THEN {Frame(i), target[i]} ELSE {})
    \cup of("T_last_current", IF node[i] = "output" THEN {Frame(i)} ELSE {})
Writes(i) ==
    {<<IF node[i] = "preprocess" THEN "points"
       ELSE IF node[i] = "registration" THEN "T_last_current"
       ELSE IF node[i] = "pairing" THEN "last_frame" ELSE "traj",
       IF node[i] \in SerialNodes THEN "shared" ELSE Frame(i)>>}

\* A frame is handed from task to task without a lock, is the source of one
\* registration while it is the target of another, and the nodes of concurrency 1
\* share variables with all their tasks: still no task writes what another reads
\* or writes.
NoDataRace ==
    \A i, j \in running : i # j => Writes(i) \cap (Reads(j) \cup Writes(j)) = {}

\* Frames overtake one another, but a registration finds both clouds of its pair
\* downsampled, with tree and covariances.
AlignsPrepared ==
    \A i \in running :
        node[i] = "registration" => {Frame(i), target[i]} \subseteq ready \cup {NoFrame}

\* The pipeline computes what a sequential program would: poses appear in the
\* order of the frames, each the product of the transformations between all
\* consecutive frames, and estimate() returns them all.
Promise == INSTANCE OdometrySpec WITH returned <- caller = "returned"
InOrder == Promise!Sequential

\* estimate() returns, also if its caller's thread is the only one: no frame is
\* left waiting in a queue or for a gap in a sequence.
EstimateReturns == caller = "feeding" ~> caller = "returned"
=============================================================================
