------------------------------ MODULE WorkerPool ------------------------------
(***************************************************************************)
(* The chart's pool of Web Workers (src/layer5/frontend/src/workers):      *)
(* WorkerPool on the main thread, indicatorWorker in each worker thread.   *)
(*                                                                         *)
(* The main thread runs one handler at a time, so that an action is a      *)
(* whole handler.  Between handlers stand the messages under way in both   *)
(* directions, the timers that are armed and the loading of the script.    *)
(* A task is its number (taskCounter), a worker the number of its Worker   *)
(* object; the pool's strategies for choosing an idle worker differ in     *)
(* fairness only, and either may choose any.  Statistics are left out, and *)
(* so is postMessage failing, as everything it is given can be cloned.     *)
(***************************************************************************)
EXTENDS Integers, Sequences, FiniteSets, SequencesExt

CONSTANTS InitialSize,   \* poolSize when the pool is created
          MaxQueueSize,
          MaxSize,       \* bound: what resize() is called with
          Priorities,
          MaxTasks,      \* bound: calls of calculate() that are accepted
          MaxWorkers,    \* bound: Worker objects there are in all
          MaxEvents      \* bound: cancels, resizes, script errors and terminates

ASSUME PoolAssumption ==
  /\ InitialSize \in 1..MaxWorkers /\ MaxQueueSize \in Nat \ {0}
  /\ Priorities \subseteq Nat
  /\ {MaxSize, MaxTasks, MaxWorkers, MaxEvents} \subseteq Nat

VARIABLES
  taskCounter,
  priority,    \* priority[t] of a submitted task
  promise,     \* promise[t]: what the caller of calculate() holds
  announced,   \* announced[t]: the worker's answer the pool took for t's
  taskQueue,
  workers,     \* the pool's list, which is in the order of creation
  created,     \* how many Worker objects there have been
  thread,      \* thread[w]: what has become of the Worker object w
  current,     \* current[w]: currentTaskId, 0 when w is not busy
  timeoutId,   \* timeoutId[w]: the task whose timer w remembers, or 0
  armed,       \* the tasks whose timers are armed
  runner,      \* runner[t]: the worker t was given to, or 0
  startOrder,  \* the tasks given to workers, in that order
  inbox,       \* inbox[w]: messages on their way to w
  outbox,      \* outbox[w]: responses on their way from w
  poolSize,
  stopped,     \* whether terminate() has been called
  events       \* how many of the bounded events have happened

mainVars    == <<taskCounter, priority, promise, taskQueue, workers, created,
                 poolSize, stopped>>
taskVars    == <<current, timeoutId, armed, runner, startOrder>>
threadVars  == <<thread, inbox, outbox>>
vars == <<mainVars, taskVars, threadVars, announced, events>>

Tasks   == 1..MaxTasks
Workers == 1..MaxWorkers

Cancel   == 0                       \* a cancel message; others are tasks
Pong     == [type |-> "pong", task |-> 0]
Answer(kind, t) == [type |-> kind, task |-> t]
Answers  == [type : {"result", "error"}, task : Tasks]
NoAnswer == [type |-> "none", task |-> 0]

Promises == {"none", "pending", "cancelled", "timedOut"}

TypeOK ==
  /\ taskCounter \in 0..MaxTasks
  /\ priority \in [Tasks -> Priorities \cup {0}]
  /\ promise \in [Tasks -> Promises]
  /\ announced \in [Tasks -> Answers \cup {NoAnswer}]
  /\ taskQueue \in Seq(Tasks)
  /\ workers \subseteq Workers
  /\ created \in 0..MaxWorkers
  /\ thread \in [Workers -> {"none", "loading", "up", "failed", "terminated"}]
  /\ current \in [Workers -> Tasks \cup {0}]
  /\ timeoutId \in [Workers -> Tasks \cup {0}]
  /\ armed \subseteq Tasks
  /\ runner \in [Tasks -> Workers \cup {0}]
  /\ startOrder \in Seq(Tasks)
  /\ inbox \in [Workers -> Seq(Tasks \cup {Cancel})]
  /\ outbox \in [Workers -> Seq(Answers \cup {Pong})]
  /\ poolSize \in Nat
  /\ stopped \in BOOLEAN
  /\ events \in 0..MaxEvents

-----------------------------------------------------------------------------
(* Making and ending workers                                                *)

(* createWorker, n times, beside the workers left of the list.             *)
CreateWorkers(left, th, n) ==
  LET new == (created + 1)..(created + n)
  IN /\ created + n <= MaxWorkers
     /\ workers' = left \cup new
     /\ created' = created + n
     /\ thread' = [w \in Workers |-> IF w \in new THEN "loading" ELSE th[w]]

(* The place of w in the list ws.                                           *)
Index(ws, w) == Cardinality({v \in ws : v < w})

(* Terminating a worker drops what is under way to it and from it.         *)
Terminated(th, gone) == [w \in Workers |-> IF w \in gone THEN "terminated" ELSE th[w]]
Emptied(boxes, gone) == [w \in Workers |-> IF w \in gone THEN <<>> ELSE boxes[w]]

Init ==
  /\ taskCounter = 0
  /\ priority = [t \in Tasks |-> 0]
  /\ promise = [t \in Tasks |-> "none"]
  /\ announced = [t \in Tasks |-> NoAnswer]
  /\ taskQueue = <<>>
  /\ workers = 1..InitialSize
  /\ created = InitialSize
  /\ thread = [w \in Workers |-> IF w <= InitialSize THEN "loading" ELSE "none"]
  /\ current = [w \in Workers |-> 0]
  /\ timeoutId = [w \in Workers |-> 0]
  /\ armed = {}
  /\ runner = [t \in Tasks |-> 0]
  /\ startOrder = <<>>
  /\ inbox = [w \in Workers |-> <<>>]
  /\ outbox = [w \in Workers |-> <<>>]
  /\ poolSize = InitialSize
  /\ stopped = FALSE
  /\ events = 0

-----------------------------------------------------------------------------
(* The queue                                                                *)

(* enqueueTask: before the first task of lower priority, else at the end.  *)
InsertIndex(q, p, prio) == SelectInSeq(q, LAMBDA u : prio[u] < p)
Enqueued(q, t, prio) ==
  LET i == InsertIndex(q, prio[t], prio)
  IN IF i = 0 THEN Append(q, t) ELSE InsertAt(q, i, t)

(* executeTask: the worker is busy, its timer armed and remembered.        *)
ExecuteTask(w, t, cur, arm, boxes) ==
  /\ current' = [cur EXCEPT ![w] = t]
  /\ armed' = arm \cup {t}
  /\ timeoutId' = [timeoutId EXCEPT ![w] = t]
  /\ runner' = [runner EXCEPT ![t] = w]
  /\ startOrder' = Append(startOrder, t)
  /\ inbox' = [boxes EXCEPT ![w] = Append(@, t)]

(* processQueue, which ends most handlers: at most one task is started.    *)
(* The arguments are what the handler has made of the variables so far.    *)
ProcessQueue(q, ws, cur, arm, boxes) ==
  LET available == {w \in ws : cur[w] = 0}
  IN \/ /\ q # <<>>
        /\ \E w \in available : ExecuteTask(w, Head(q), cur, arm, boxes)
        /\ taskQueue' = Tail(q)
     \/ /\ q = <<>> \/ available = {}
        /\ taskQueue' = q /\ current' = cur /\ armed' = arm /\ inbox' = boxes
        /\ UNCHANGED <<timeoutId, runner, startOrder>>

(* calculate and calculateBatch; with a full queue they only reject.       *)
Calculate(p) ==
  LET t == taskCounter + 1
  IN /\ taskCounter < MaxTasks
     /\ Len(taskQueue) < MaxQueueSize
     /\ taskCounter' = t
     /\ priority' = [priority EXCEPT ![t] = p]
     /\ promise' = [promise EXCEPT ![t] = "pending"]
     /\ ProcessQueue(Enqueued(taskQueue, t, priority'), workers, current, armed, inbox)
     /\ UNCHANGED <<workers, created, poolSize, stopped, thread, outbox, announced, events>>

-----------------------------------------------------------------------------
(* Cancelling                                                               *)

Counted == events < MaxEvents /\ events' = events + 1
Rejected(ts, why) ==
  [t \in Tasks |-> IF t \in ts /\ promise[t] = "pending" THEN why ELSE promise[t]]

(* A cancel message to each of the workers.                                *)
SendCancel(ws) == [w \in Workers |-> IF w \in ws THEN Append(inbox[w], Cancel) ELSE inbox[w]]

CancelQueued(t) ==
  /\ Counted
  /\ t \in Range(taskQueue)
  /\ taskQueue' = RemoveFirst(taskQueue, t)
  /\ promise' = Rejected({t}, "cancelled")
  /\ UNCHANGED <<taskCounter, priority, workers, created, poolSize, stopped, taskVars,
                 threadVars, announced>>

CancelRunning(t) ==
  /\ Counted
  /\ t \notin Range(taskQueue)
  /\ \E w \in workers : current[w] = t /\ inbox' = SendCancel({w})
  /\ UNCHANGED <<mainVars, taskVars, thread, outbox, announced>>

CancelAll ==
  /\ Counted
  /\ promise' = Rejected(Range(taskQueue), "cancelled")
  /\ taskQueue' = <<>>
  /\ inbox' = SendCancel({w \in workers : current[w] # 0})
  /\ UNCHANGED <<taskCounter, priority, workers, created, poolSize, stopped, taskVars,
                 thread, outbox, announced>>

-----------------------------------------------------------------------------
(* What comes back to the main thread                                       *)

(* handleTaskTimeout.  Timers of one delay fire in the order of their       *)
(* arming.                                                                  *)
FirstArmed(t) ==
  \E i \in DOMAIN startOrder :
    startOrder[i] = t /\ \A j \in 1..(i - 1) : startOrder[j] \notin armed

(* Mutant: the worker that timed out is not replaced.                       *)
HandleTaskTimeoutOnly(t) ==
  LET w == runner[t]
  IN /\ t \in armed /\ FirstArmed(t)
     /\ CreateWorkers(workers \ {w}, Terminated(thread, {w}), 0)
     /\ promise' = Rejected({t}, "timedOut")
     /\ outbox' = Emptied(outbox, {w})
     /\ ProcessQueue(taskQueue, workers', current, armed \ {t}, Emptied(inbox, {w}))
     /\ UNCHANGED <<taskCounter, priority, poolSize, stopped, announced, events>>

HandleTaskTimeout(t) ==
  LET w == runner[t]
  IN /\ t \in armed /\ FirstArmed(t)
     /\ CreateWorkers(workers \ {w}, Terminated(thread, {w}), 1)
     /\ promise' = Rejected({t}, "timedOut")
     /\ outbox' = Emptied(outbox, {w})
     /\ ProcessQueue(taskQueue, workers', current, armed \ {t}, Emptied(inbox, {w}))
     /\ UNCHANGED <<taskCounter, priority, poolSize, stopped, announced, events>>

(* Mutant: a pong is taken for an answer like any other message.            *)
HandleAnyMessage(w) ==
  LET response == Head(outbox[w])
      t == current[w]
      disarmed == armed \ {timeoutId[w]}
  IN /\ outbox[w] # <<>>
     /\ outbox' = [outbox EXCEPT ![w] = Tail(@)]
     /\ \/ /\ t = 0
           /\ armed' = disarmed
           /\ UNCHANGED <<taskQueue, current, timeoutId, runner, startOrder, inbox, announced>>
        \/ /\ t # 0
           /\ announced' = [announced EXCEPT ![t] = response]
           /\ ProcessQueue(taskQueue, workers, [current EXCEPT ![w] = 0], disarmed, inbox)
     /\ UNCHANGED <<taskCounter, priority, promise, workers, created, poolSize, stopped,
                    thread, events>>

(* handleWorkerMessage.  Any message disarms the timer w remembers; then    *)
(* what is not a pong is the answer for the current task, whichever task it *)
(* is of.  resolveTask and rejectTask only dispatch an event of the window. *)
HandleWorkerMessage(w) ==
  LET response == Head(outbox[w])
      t == current[w]
      disarmed == armed \ {timeoutId[w]}
  IN /\ outbox[w] # <<>>
     /\ outbox' = [outbox EXCEPT ![w] = Tail(@)]
     /\ \/ /\ response.type = "pong" \/ t = 0
           /\ armed' = disarmed
           /\ UNCHANGED <<taskQueue, current, timeoutId, runner, startOrder, inbox, announced>>
        \/ /\ response.type # "pong" /\ t # 0
           /\ announced' = [announced EXCEPT ![t] = response]
           /\ ProcessQueue(taskQueue, workers, [current EXCEPT ![w] = 0], disarmed, inbox)
     /\ UNCHANGED <<taskCounter, priority, promise, workers, created, poolSize, stopped,
                    thread, events>>

(* handleWorkerError, which leaves the timer armed: the script of a worker  *)
(* did not load.  The worker stays in the list and is idle.                 *)
HandleWorkerError(w) ==
  LET t == current[w]
  IN /\ thread[w] = "loading"
     /\ Counted
     /\ thread' = [thread EXCEPT ![w] = "failed"]
     /\ announced' = IF t = 0 THEN announced
                     ELSE [announced EXCEPT ![t] = Answer("error", t)]
     /\ ProcessQueue(taskQueue, workers, [current EXCEPT ![w] = 0], armed, inbox)
     /\ UNCHANGED <<taskCounter, priority, promise, workers, created, poolSize, stopped, outbox>>

-----------------------------------------------------------------------------
(* The size of the pool                                                     *)

(* terminate.  terminateWorker takes a worker out of the list forEach is    *)
(* walking, so that every other worker is passed over; then the list is     *)
(* dropped.  No timer is disarmed.                                          *)
Visited == {w \in workers : Index(workers, w) % 2 = 0}

Terminate ==
  LET cancelled == SendCancel({w \in workers : current[w] # 0})
  IN /\ Counted
     /\ ~stopped
     /\ promise' = Rejected(Range(taskQueue), "cancelled")
     /\ taskQueue' = <<>>
     /\ thread' = Terminated(thread, Visited)
     /\ inbox' = Emptied(cancelled, Visited)
     /\ outbox' = Emptied(outbox, Visited)
     /\ workers' = {}
     /\ stopped' = TRUE
     /\ UNCHANGED <<taskCounter, priority, created, poolSize, taskVars, announced>>

(* resize: new workers are added without a look at the queue; of the        *)
(* surplus only idle workers go.                                            *)
Resize(size) ==
  LET idle == {w \in workers : current[w] = 0}
      surplus == Cardinality(workers) - size
      gone == {w \in idle : Index(idle, w) < surplus}
  IN /\ Counted
     /\ poolSize' = size
     /\ \/ /\ surplus <= 0
           /\ CreateWorkers(workers, thread, -surplus)
           /\ UNCHANGED <<inbox, outbox>>
        \/ /\ surplus > 0
           /\ workers' = workers \ gone
           /\ thread' = Terminated(thread, gone)
           /\ inbox' = Emptied(inbox, gone)
           /\ outbox' = Emptied(outbox, gone)
           /\ UNCHANGED created
     /\ UNCHANGED <<taskCounter, priority, promise, taskQueue, stopped, taskVars, announced>>

-----------------------------------------------------------------------------
(* The worker thread                                                        *)

Load(w) ==
  /\ thread[w] = "loading"
  /\ thread' = [thread EXCEPT ![w] = "up"]
  /\ UNCHANGED <<mainVars, taskVars, inbox, outbox, announced, events>>

(* onmessage: a calculation is answered before the next message is looked   *)
(* at.  pendingTasks is empty by then, so that a cancel finds nothing to    *)
(* abort and is only acknowledged.                                          *)
Respond(w) ==
  LET message == Head(inbox[w])
      response == IF message = Cancel THEN {Pong}
                  ELSE {Answer("result", message), Answer("error", message)}
  IN /\ thread[w] = "up"
     /\ inbox[w] # <<>>
     /\ inbox' = [inbox EXCEPT ![w] = Tail(@)]
     /\ \E r \in response : outbox' = [outbox EXCEPT ![w] = Append(@, r)]
     /\ UNCHANGED <<mainVars, taskVars, thread, announced, events>>

-----------------------------------------------------------------------------
Next ==
  \/ \E p \in Priorities : Calculate(p)
  \/ \E t \in Tasks : CancelQueued(t) \/ CancelRunning(t) \/ HandleTaskTimeout(t)
  \/ CancelAll
  \/ \E w \in Workers : HandleWorkerMessage(w) \/ HandleWorkerError(w)
  \/ Terminate
  \/ \E size \in 1..MaxSize : Resize(size)
  \/ \E w \in Workers : Load(w) \/ Respond(w)

Spec == Init /\ [][Next]_vars

(* The browser fires due timers, hands over messages and errors, and runs   *)
(* the worker threads: a script loads or fails, a calculation ends.         *)
FairSpec ==
  /\ Spec
  /\ \A t \in Tasks : WF_vars(HandleTaskTimeout(t))
  /\ \A w \in Workers : /\ WF_vars(HandleWorkerMessage(w))
                        /\ WF_vars(Load(w) \/ HandleWorkerError(w))
                        /\ WF_vars(Respond(w))

-----------------------------------------------------------------------------
(* Properties                                                               *)

(* A waiting task is behind every task of higher priority and behind those  *)
(* of its own priority that were submitted before it, whatever is cancelled *)
(* (enqueueTask).                                                           *)
QueueInOrder ==
  \A i, j \in DOMAIN taskQueue : i < j =>
    LET t == taskQueue[i]  u == taskQueue[j]
    IN priority[t] > priority[u] \/ (priority[t] = priority[u] /\ t < u)

(* The pool does not look at the id of a response, and yet the answer it    *)
(* announces for a task is of that task: what an earlier task, a cancel or  *)
(* a replaced worker still had under way is not taken for it.               *)
AnswersAreOwn == \A t \in Tasks : announced[t] # NoAnswer => announced[t].task = t

(* A task whose result was announced has no timer left that would reject it *)
(* and replace the worker under another task.                               *)
DoneIsDisarmed ==
  \A t \in Tasks : announced[t].type = "result" => t \notin armed /\ promise[t] # "timedOut"

(* A busy worker of the list becomes idle again: the timer of its task is   *)
(* armed, or the worker is up and has the task or the answer before it.     *)
BusyWillEnd ==
  \A w \in workers : current[w] # 0 =>
    \/ current[w] \in armed
    \/ /\ thread[w] = "up"
       /\ \/ current[w] \in Range(inbox[w])
          \/ \E r \in Range(outbox[w]) : r.task = current[w]

(* While tasks wait some worker is busy, the end of whose task will look at *)
(* the queue again: no order of calls, timeouts, errors and resizes leaves  *)
(* a queue that nothing will ever process (until terminate()).              *)
QueueIsAttended ==
  taskQueue # <<>> /\ ~stopped => \E w \in workers : current[w] # 0

(* Every accepted task comes to an end: an answer is announced or the       *)
(* caller's promise is rejected, unless the pool is terminated.             *)
EveryTaskEnds ==
  \A t \in Tasks : promise[t] = "pending" ~>
    announced[t] # NoAnswer \/ promise[t] # "pending" \/ stopped

-----------------------------------------------------------------------------
(* Said of the code, and not so: TLC refutes each of these (README.md).     *)

(* WorkerPool.ts:132-140, index.ts:15-17: calculate() returns a promise of  *)
(* the result.  Nothing resolves it (417-422).                              *)
PromiseIsKept == \A t \in Tasks : announced[t].type = "result" => promise[t] # "pending"

(* WorkerPool.ts:27-30, 36: the pool has poolSize workers.  A timer that     *)
(* fires for a worker already replaced creates one more.                    *)
NeverOversized == ~stopped /\ poolSize = InitialSize => Cardinality(workers) <= poolSize

(* WorkerPool.ts:448: "Terminate all workers and clean up".                 *)
StoppedMeansGone ==
  stopped => \A w \in Workers : thread[w] \in {"none", "terminated", "failed"}

(* WorkerPool.ts:283: every running task is timed.  The pong of a cancel    *)
(* disarms the timer of the next one.                                       *)
RunningIsTimed == \A w \in workers : current[w] # 0 => current[w] \in armed

(* WorkerPool.ts:251: the queue is processed as long as a worker is idle.   *)
(* resize() adds workers and leaves the queue alone.                        *)
NoneIdles == taskQueue # <<>> /\ ~stopped => \A w \in workers : current[w] # 0
==============================================================================
