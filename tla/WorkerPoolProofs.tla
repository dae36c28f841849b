--------------------------- MODULE WorkerPoolProofs ----------------------------
(***************************************************************************)
(* Proofs about WorkerPool, for any number of tasks, workers and events.   *)
(*                                                                         *)
(* Most handlers end in processQueue, which starts from what the handler   *)
(* has made of the variables.  The parts of the invariant therefore take   *)
(* these values as parameters: each handler establishes them for the       *)
(* values it hands to ProcessQueue, and one lemma does the rest.           *)
(***************************************************************************)
EXTENDS WorkerPool, ChartStream, FiniteSetTheorems, WellFoundedInduction, SequenceTheorems, TLAPS

-----------------------------------------------------------------------------
(* Lemmas about finite sets and sequences                                   *)

(* A set of numbers up to n that has an element has a least one.           *)
LEMMA LeastExists ==
  ASSUME NEW n \in Nat, NEW I \in SUBSET (1..n), I # {}
  PROVE  Min(I) \in I /\ \A j \in I : Min(I) <= j
<1> DEFINE T == {1..i : i \in I}
<1>1. IsFiniteSet(1..n)  BY FS_Interval
<1>2. IsWellFoundedOn(StrictSubsetOrdering(1..n), SUBSET (1..n))
  BY <1>1, FS_StrictSubsetOrderingWellFounded, FS_FiniteSubsetsOfFinite
<1>3. T \subseteq SUBSET (1..n) /\ T # {}
  <2>1. \A i \in I : 1..i \subseteq 1..n  OBVIOUS
  <2> QED  BY <2>1
<1>4. PICK x \in T : \A y \in T : ~(<<y, x>> \in StrictSubsetOrdering(1..n))
  BY <1>2, <1>3, WFMin
<1>5. PICK m \in I : x = 1..m
  OBVIOUS
<1>6. \A j \in I : m <= j
  <2> SUFFICES ASSUME NEW j \in I, j < m PROVE FALSE
    OBVIOUS
  <2>1. 1..j \in T /\ 1..j \subseteq 1..m /\ 1..j # 1..m
    <3>1. m \in 1..m /\ m \notin 1..j  OBVIOUS
    <3> QED  BY <3>1
  <2> QED  BY <1>3, <1>4, <1>5, <2>1 DEF StrictSubsetOrdering
<1> QED  BY <1>6 DEF Min

(* The first place of q with a task of lower priority than p, if any.      *)
LEMMA InsertIndexFact ==
  ASSUME NEW q \in Seq(Tasks), NEW p, NEW prio
  PROVE  LET i == InsertIndex(q, p, prio)
             I == {k \in 1..Len(q) : prio[q[k]] < p}
         IN \/ i = 0 /\ I = {}
            \/ i \in I /\ \A j \in I : i <= j
<1> DEFINE I == {k \in 1..Len(q) : prio[q[k]] < p}
<1>1. CASE I = {}
  BY <1>1 DEF InsertIndex, SelectInSeq
<1>2. CASE I # {}
  <2>1. Len(q) \in Nat /\ I \in SUBSET (1..Len(q))
    OBVIOUS
  <2>2. InsertIndex(q, p, prio) = Min(I)
    BY <1>2 DEF InsertIndex, SelectInSeq
  <2>3. Min(I) \in I /\ \A j \in I : Min(I) <= j
    BY <1>2, <2>1, LeastExists
  <2> HIDE DEF I
  <2> QED  BY <2>2, <2>3 DEF I
<1> QED  BY <1>1, <1>2

(* One queue after another.                                                 *)
LEMMA Concatenated ==
  ASSUME NEW S, NEW c \in Seq(S), NEW d \in Seq(S)
  PROVE  /\ c \o d \in Seq(S)
         /\ Len(c \o d) = Len(c) + Len(d)
         /\ \A k \in 1..Len(c \o d) :
              (c \o d)[k] = IF k <= Len(c) THEN c[k] ELSE d[k - Len(c)]
  OBVIOUS

(* r is q with t before its place i, which is the first of lower priority. *)
InsertedAt(r, q, t, prio, i) ==
  /\ r \in Seq(Tasks)
  /\ Len(r) = Len(q) + 1
  /\ \A k \in 1..Len(r) : r[k] = IF k < i THEN q[k] ELSE IF k = i THEN t ELSE q[k - 1]
  /\ \A k \in 1..(i - 1) : ~(prio[q[k]] < prio[t])
  /\ i <= Len(q) => prio[q[i]] < prio[t]

(* What enqueueTask makes of the queue.                                     *)
LEMMA EnqueuedFact ==
  ASSUME NEW q \in Seq(Tasks), NEW t \in Tasks, NEW prio
  PROVE  \E i \in 1..Len(q) + 1 : InsertedAt(Enqueued(q, t, prio), q, t, prio, i)
<1> DEFINE i == InsertIndex(q, prio[t], prio)
           r == Enqueued(q, t, prio)
           I == {k \in 1..Len(q) : prio[q[k]] < prio[t]}
<1>0. Len(q) \in Nat  OBVIOUS
<1>1. \/ i = 0 /\ I = {}
      \/ i \in I /\ \A j \in I : i <= j
  BY InsertIndexFact
<1>2. CASE i = 0
  <2>1. I = {}  BY <1>1, <1>2
  <2>2. r = Append(q, t)  BY <1>2 DEF Enqueued
  <2>3. /\ r \in Seq(Tasks) /\ Len(r) = Len(q) + 1
        /\ \A k \in 1..Len(r) : r[k] = IF k = Len(q) + 1 THEN t ELSE q[k]
    BY <2>2
  <2>4. \A k \in 1..Len(q) : ~(prio[q[k]] < prio[t])
    BY <2>1
  <2> HIDE DEF i, r, I
  <2>5. InsertedAt(r, q, t, prio, Len(q) + 1)
    BY <1>0, <2>3, <2>4 DEF InsertedAt
  <2>6. Len(q) + 1 \in 1..Len(q) + 1  BY <1>0
  <2> QED  BY <2>5, <2>6 DEF r
<1>3. CASE i # 0
  <2>1. i \in 1..Len(q) /\ prio[q[i]] < prio[t]
    BY <1>1, <1>3
  <2>2. \A k \in 1..(i - 1) : ~(prio[q[k]] < prio[t])
    <3> SUFFICES ASSUME NEW k \in 1..(i - 1), prio[q[k]] < prio[t] PROVE FALSE
      OBVIOUS
    <3>1. k \in I /\ k < i  BY <2>1
    <3> QED  BY <3>1, <1>1, <1>3, <2>1
  <2>3. r = SubSeq(q, 1, i - 1) \o <<t>> \o SubSeq(q, i, Len(q))
    BY <1>3 DEF Enqueued, InsertAt
  <2> HIDE DEF i, r, I
  <2> DEFINE a == SubSeq(q, 1, i - 1)
             b == SubSeq(q, i, Len(q))
             at == a \o <<t>>
  <2>4. a \in Seq(Tasks) /\ Len(a) = i - 1 /\ \A k \in 1..(i - 1) : a[k] = q[k]
    BY <1>0, <2>1
  <2>5. b \in Seq(Tasks) /\ Len(b) = Len(q) - i + 1
        /\ \A k \in 1..Len(b) : b[k] = q[i + k - 1]
    BY <1>0, <2>1
  <2> HIDE DEF a, b
  <2>6. at \in Seq(Tasks) /\ Len(at) = i /\ \A k \in 1..i : at[k] = IF k < i THEN q[k] ELSE t
    BY <2>1, <2>4
  <2>7. r = at \o b  BY <2>3 DEF a, b
  <2> HIDE DEF at
  <2>8. /\ r \in Seq(Tasks) /\ Len(r) = Len(q) + 1
        /\ \A k \in 1..Len(r) : r[k] = IF k <= i THEN at[k] ELSE b[k - i]
    <3>1. r \in Seq(Tasks) /\ Len(r) = i + (Len(q) - i + 1)
          /\ \A k \in 1..Len(r) : r[k] = IF k <= i THEN at[k] ELSE b[k - i]
      BY <2>5, <2>6, <2>7, Concatenated, SMTT(30)
    <3>2. i \in Nat /\ i + (Len(q) - i + 1) = Len(q) + 1  BY <1>0, <2>1
    <3> QED  BY <3>1, <3>2
  <2>9. \A k \in 1..Len(r) : r[k] = IF k < i THEN q[k] ELSE IF k = i THEN t ELSE q[k - 1]
    <3> TAKE k \in 1..Len(r)
    <3>1. CASE k <= i
      BY <1>0, <2>1, <2>6, <2>8, <3>1
    <3>2. CASE k > i
      <4>1. k - i \in 1..Len(b) /\ b[k - i] = q[i + (k - i) - 1]
        BY <1>0, <2>1, <2>5, <2>8, <3>2
      <4> QED  BY <1>0, <2>1, <2>8, <3>2, <4>1, SMTT(30)
    <3> QED  BY <1>0, <2>1, <2>8, <3>1, <3>2
  <2>10. InsertedAt(r, q, t, prio, i)
    BY <2>1, <2>2, <2>8, <2>9 DEF InsertedAt
  <2>11. i \in 1..Len(q) + 1  BY <1>0, <2>1
  <2> QED  BY <2>10, <2>11 DEF r
<1> QED  BY <1>2, <1>3

(* What cancel() makes of the queue.                                        *)
LEMMA RemovedFact ==
  ASSUME NEW q \in Seq(Tasks), NEW t \in Range(q)
  PROVE  /\ RemoveFirst(q, t) \in Seq(Tasks)
         /\ \E i \in 1..Len(q) :
              /\ Len(RemoveFirst(q, t)) = Len(q) - 1
              /\ \A k \in 1..Len(q) - 1 :
                   RemoveFirst(q, t)[k] = IF k < i THEN q[k] ELSE q[k + 1]
<1> DEFINE I == {k \in 1..Len(q) : q[k] = t}
           i == Min(I)
           r == RemoveFirst(q, t)
<1>0. Len(q) \in Nat  OBVIOUS
<1>1. I # {} /\ I \in SUBSET (1..Len(q))
  BY DEF Range
<1>2. i \in I
  <2> HIDE DEF I
  <2> QED  BY <1>0, <1>1, LeastExists
<1>3. r = SubSeq(q, 1, i - 1) \o SubSeq(q, i + 1, Len(q))
  BY <1>1 DEF RemoveFirst, RemoveAt, SelectInSeq
<1> DEFINE a == SubSeq(q, 1, i - 1)
           b == SubSeq(q, i + 1, Len(q))
<1>4. i \in 1..Len(q)  BY <1>2
<1> HIDE DEF i, r, I
<1>5. a \in Seq(Tasks) /\ Len(a) = i - 1 /\ \A k \in 1..(i - 1) : a[k] = q[k]
  BY <1>0, <1>4
<1>6. b \in Seq(Tasks) /\ Len(b) = Len(q) - i /\ \A k \in 1..Len(b) : b[k] = q[i + k]
  BY <1>0, <1>4
<1>7. r = a \o b  BY <1>3
<1> HIDE DEF a, b
<1>8. /\ r \in Seq(Tasks) /\ Len(r) = Len(q) - 1
      /\ \A k \in 1..Len(r) : r[k] = IF k <= i - 1 THEN a[k] ELSE b[k - (i - 1)]
  <2>1. a \in Seq(Tasks) /\ b \in Seq(Tasks) /\ Len(a) = i - 1 /\ Len(b) = Len(q) - i
    BY <1>5, <1>6
  <2>2. /\ r \in Seq(Tasks) /\ Len(r) = Len(a) + Len(b)
        /\ \A k \in 1..Len(r) : r[k] = IF k <= Len(a) THEN a[k] ELSE b[k - Len(a)]
    <3>1. /\ a \o b \in Seq(Tasks) /\ Len(a \o b) = Len(a) + Len(b)
          /\ \A k \in 1..Len(a) + Len(b) :
               (a \o b)[k] = IF k <= Len(a) THEN a[k] ELSE b[k - Len(a)]
      BY <2>1, ConcatProperties
    <3> QED  BY <1>7, <3>1
  <2> QED  BY <1>0, <1>4, <2>1, <2>2
<1>9. \A k \in 1..Len(q) - 1 : r[k] = IF k < i THEN q[k] ELSE q[k + 1]
  <2> TAKE k \in 1..Len(q) - 1
  <2>1. CASE k < i
    BY <1>0, <1>4, <1>5, <1>8, <2>1
  <2>2. CASE k >= i
    <3>1. k - (i - 1) \in 1..Len(b) /\ b[k - (i - 1)] = q[i + (k - (i - 1))]
      BY <1>0, <1>4, <1>6, <2>2
    <3> QED  BY <1>0, <1>4, <1>8, <2>2, <3>1
  <2> QED  BY <1>0, <1>4, <2>1, <2>2
<1> QED  BY <1>4, <1>8, <1>9 DEF r

-----------------------------------------------------------------------------
(* The invariant, of the values a handler hands to ProcessQueue             *)

Ordered(q, prio) ==
  \A i, j \in DOMAIN q : i < j =>
    prio[q[i]] > prio[q[j]] \/ (prio[q[i]] = prio[q[j]] /\ q[i] < q[j])

(* What waits was submitted and not yet started.                            *)
Queued(q, tc, prio, run) ==
  /\ \A i \in DOMAIN q : q[i] <= tc /\ run[q[i]] = 0
  /\ Ordered(q, prio)

(* A task that was not started has neither an answer nor a timer.           *)
NotYet(tc, run, ann, arm, prom) ==
  /\ \A t \in Tasks : t > tc => run[t] = 0
  /\ \A t \in Tasks : run[t] = 0 =>
       ann[t] = NoAnswer /\ t \notin arm /\ prom[t] # "timedOut"

(* A worker holds the task and the timer it was given last, and no other    *)
(* worker does.                                                             *)
Held(th, cur, tid, run, ann) ==
  /\ \A t \in Tasks : run[t] # 0 => th[run[t]] # "none"
  /\ \A w \in Workers : cur[w] # 0 /\ th[w] # "terminated" =>
       run[cur[w]] = w /\ tid[w] = cur[w] /\ ann[cur[w]] = NoAnswer
  /\ \A w \in Workers : tid[w] # 0 => run[tid[w]] = w

(* A task that timed out takes its worker with it.                          *)
Late(th, run, prom) ==
  \A t \in Tasks : prom[t] = "timedOut" => run[t] # 0 /\ th[run[t]] = "terminated"

Done(ann, arm, prom) ==
  \A t \in Tasks : ann[t].type = "result" => t \notin arm /\ prom[t] # "timedOut"

Own(ann) == \A t \in Tasks : ann[t] # NoAnswer => ann[t].task = t

(* Of the task a worker holds, and of no other, there is one message under  *)
(* way: the task itself or its answer.                                      *)
OneMessage(w, cur, in, out) ==
  /\ \A i \in DOMAIN in[w] : in[w][i] # Cancel =>
       /\ in[w][i] = cur[w]
       /\ \A j \in DOMAIN in[w] : in[w][j] # Cancel => j = i
       /\ \A j \in DOMAIN out[w] : out[w][j] = Pong
  /\ \A i \in DOMAIN out[w] : out[w][i] # Pong =>
       /\ out[w][i].task = cur[w]
       /\ \A j \in DOMAIN out[w] : out[w][j] # Pong => j = i
  /\ cur[w] # 0 => \/ \E i \in DOMAIN in[w] : in[w][i] = cur[w]
                   \/ \E i \in DOMAIN out[w] : out[w][i] # Pong

Messages(th, cur, in, out) ==
  \A w \in Workers :
    /\ th[w] \in {"loading", "up"} => OneMessage(w, cur, in, out)
    /\ th[w] # "up" => out[w] = <<>>

(* Before its script is there a worker gives no answer, but its task's      *)
(* timer is armed.                                                          *)
Timed(th, cur, arm) ==
  \A w \in Workers : cur[w] # 0 /\ th[w] \in {"loading", "failed"} => cur[w] \in arm

Threads(ws, th, cur, in, cr) ==
  /\ \A w \in ws : th[w] \in {"loading", "up", "failed"}
  /\ \A w \in Workers : w > cr => th[w] = "none" /\ cur[w] = 0 /\ in[w] = <<>>
  /\ \A w \in Workers : th[w] = "none" => w > cr

Parts(q, ws, cur, tid, arm, run, in, out, th, tc, prio, prom, ann, cr) ==
  /\ Queued(q, tc, prio, run)
  /\ NotYet(tc, run, ann, arm, prom)
  /\ Held(th, cur, tid, run, ann)
  /\ Late(th, run, prom)
  /\ Done(ann, arm, prom)
  /\ Own(ann)
  /\ Messages(th, cur, in, out)
  /\ Timed(th, cur, arm)
  /\ Threads(ws, th, cur, in, cr)

Attended == /\ ~stopped => workers # {}
            /\ QueueIsAttended

Inv == /\ Parts(taskQueue, workers, current, timeoutId, armed, runner, inbox, outbox,
                thread, taskCounter, priority, promise, announced, created)
       /\ Attended

-----------------------------------------------------------------------------
(* processQueue                                                             *)

(* The types of what a handler hands on.                                    *)
Typed(q, ws, cur, tid, arm, run, in, out, th, prio, prom, ann) ==
  /\ q \in Seq(Tasks)
  /\ ws \in SUBSET Workers
  /\ cur \in [Workers -> Tasks \cup {0}]
  /\ tid \in [Workers -> Tasks \cup {0}]
  /\ arm \in SUBSET Tasks
  /\ run \in [Tasks -> Workers \cup {0}]
  /\ in \in [Workers -> Seq(Tasks \cup {Cancel})]
  /\ out \in [Workers -> Seq(Answers \cup {Pong})]
  /\ th \in [Workers -> {"none", "loading", "up", "failed", "terminated"}]
  /\ prio \in [Tasks -> Priorities \cup {0}]
  /\ prom \in [Tasks -> Promises]
  /\ ann \in [Tasks -> Answers \cup {NoAnswer}]

LEMMA Numbers ==
  /\ MaxTasks \in Nat /\ MaxWorkers \in Nat /\ MaxSize \in Nat /\ MaxEvents \in Nat
  /\ InitialSize \in 1..MaxWorkers
  /\ Tasks \subseteq Nat \ {0} /\ Workers \subseteq Nat \ {0}
  /\ Priorities \subseteq Nat
BY PoolAssumption DEF Tasks, Workers

(* The head of the queue is given to an idle worker (executeTask).          *)
LEMMA StartKeeps ==
  ASSUME NEW q, NEW ws, NEW cur, NEW tid, NEW arm, NEW run, NEW in, NEW out, NEW th,
         NEW tc \in Nat, NEW prio, NEW prom, NEW ann, NEW cr \in Nat,
         Typed(q, ws, cur, tid, arm, run, in, out, th, prio, prom, ann),
         Parts(q, ws, cur, tid, arm, run, in, out, th, tc, prio, prom, ann, cr),
         q # <<>>, NEW w \in ws, cur[w] = 0
  PROVE  LET t == Head(q)
             cur1 == [cur EXCEPT ![w] = t]
             tid1 == [tid EXCEPT ![w] = t]
             run1 == [run EXCEPT ![t] = w]
             in1 == [in EXCEPT ![w] = Append(@, t)]
         IN /\ Typed(Tail(q), ws, cur1, tid1, arm \cup {t}, run1, in1, out, th, prio, prom, ann)
            /\ Parts(Tail(q), ws, cur1, tid1, arm \cup {t}, run1, in1, out, th, tc, prio,
                     prom, ann, cr)
<1> DEFINE t == Head(q)
           cur1 == [cur EXCEPT ![w] = t]
           tid1 == [tid EXCEPT ![w] = t]
           run1 == [run EXCEPT ![t] = w]
           in1 == [in EXCEPT ![w] = Append(@, t)]
           arm1 == arm \cup {t}
           r == Tail(q)
<1> USE Numbers DEF Typed
<1>1. /\ t \in Tasks /\ t = q[1] /\ r \in Seq(Tasks) /\ Len(r) = Len(q) - 1
      /\ Len(q) \in Nat \ {0}
      /\ \A i \in 1..Len(r) : r[i] = q[i + 1]
      /\ DOMAIN q = 1..Len(q) /\ DOMAIN r = 1..Len(r) /\ 1 \in DOMAIN q
  OBVIOUS
<1>2. w \in Workers /\ in[w] \in Seq(Tasks \cup {Cancel})
  OBVIOUS
<1>3. run[t] = 0 /\ t <= tc /\ ann[t] = NoAnswer /\ prom[t] # "timedOut"
  <2>1. run[t] = 0 /\ t <= tc
    BY <1>1 DEF Parts, Queued
  <2>2. ann[t] = NoAnswer /\ prom[t] # "timedOut"
    BY <1>1, <2>1 DEF Parts, NotYet
  <2> QED  BY <2>1, <2>2
<1>4. /\ Append(in[w], t) \in Seq(Tasks \cup {Cancel})
      /\ Len(Append(in[w], t)) = Len(in[w]) + 1
      /\ \A i \in 1..Len(in[w]) + 1 :
           Append(in[w], t)[i] = IF i <= Len(in[w]) THEN in[w][i] ELSE t
  <2>1. t \in Tasks \cup {Cancel}
    BY <1>1
  <2> HIDE DEF t
  <2> QED  BY <1>2, <2>1
<1>5. Typed(r, ws, cur1, tid1, arm1, run1, in1, out, th, prio, prom, ann)
  BY <1>1, <1>2, <1>4
<1>6. \A i \in 1..Len(r) : r[i] # t
  <2> SUFFICES ASSUME NEW i \in 1..Len(r), r[i] = t PROVE FALSE
    OBVIOUS
  <2>1. i + 1 \in DOMAIN q /\ 1 \in DOMAIN q /\ 1 < i + 1
    BY <1>1
  <2>2. q[i + 1] = q[1]
    BY <1>1
  <2>3. q[1] \in Tasks
    BY <1>1
  <2>4. q[1] \in Nat /\ prio[q[1]] \in Nat
    <3>1. prio \in [Tasks -> Priorities \cup {0}]
      OBVIOUS
    <3>2. prio[q[1]] \in Priorities \cup {0}
      BY <2>3, <3>1
    <3>3. \A x \in Priorities \cup {0} : x \in Nat
      BY Numbers
    <3>4. \A x \in Tasks : x \in Nat
      BY Numbers
    <3>5. prio[q[1]] \in Nat
      BY <3>2, <3>3
    <3>6. q[1] \in Nat
      BY <2>3, <3>4
    <3> QED  BY <3>5, <3>6
  <2> QED  BY <2>1, <2>2, <2>4 DEF Parts, Queued, Ordered
<1> HIDE DEF t, r
<1>7. Queued(r, tc, prio, run1)
  <2>1. ASSUME NEW i \in DOMAIN r PROVE r[i] <= tc /\ run1[r[i]] = 0
    <3>1. i + 1 \in DOMAIN q /\ r[i] = q[i + 1] /\ r[i] \in Tasks /\ r[i] # t
      BY <1>1, <1>6
    <3>2. q[i + 1] <= tc /\ run[q[i + 1]] = 0
      BY <3>1 DEF Parts, Queued
    <3> QED  BY <3>1, <3>2
  <2>2. Ordered(r, prio)
    <3> SUFFICES ASSUME NEW i \in DOMAIN r, NEW j \in DOMAIN r, i < j
                 PROVE  prio[r[i]] > prio[r[j]] \/ (prio[r[i]] = prio[r[j]] /\ r[i] < r[j])
      BY DEF Ordered
    <3>1. i + 1 \in DOMAIN q /\ j + 1 \in DOMAIN q /\ i + 1 < j + 1
      BY <1>1
    <3>2. r[i] = q[i + 1] /\ r[j] = q[j + 1]
      BY <1>1
    <3> QED  BY <3>1, <3>2 DEF Parts, Queued, Ordered
  <2> QED  BY <2>1, <2>2 DEF Queued
<1>8. NotYet(tc, run1, ann, arm1, prom)
  BY <1>1, <1>2, <1>3 DEF Parts, NotYet
<1>9. Held(th, cur1, tid1, run1, ann)
  <2>1. \A v \in Workers : cur[v] # 0 /\ th[v] # "terminated" => cur[v] # t
    BY <1>2, <1>3 DEF Parts, Held
  <2>2. \A v \in Workers : tid[v] # 0 => tid[v] # t
    BY <1>2, <1>3 DEF Parts, Held
  <2>3. ASSUME NEW u \in Tasks, run1[u] # 0 PROVE th[run1[u]] # "none"
    <3>1. th[w] # "none"
      BY DEF Parts, Threads
    <3>2. run1[u] = w \/ run1[u] = run[u]
      BY <1>1
    <3> QED  BY <2>3, <3>1, <3>2 DEF Parts, Held
  <2>4. \A v \in Workers : cur1[v] # 0 /\ th[v] # "terminated" =>
          run1[cur1[v]] = v /\ tid1[v] = cur1[v] /\ ann[cur1[v]] = NoAnswer
    BY <1>1, <1>2, <1>3, <2>1 DEF Parts, Held
  <2>5. \A v \in Workers : tid1[v] # 0 => run1[tid1[v]] = v
    BY <1>1, <1>2, <2>2 DEF Parts, Held
  <2> HIDE DEF cur1, tid1, run1
  <2> QED  BY <2>3, <2>4, <2>5 DEF Held
<1>10. Late(th, run1, prom)
  BY <1>1, <1>3 DEF Parts, Late
<1>11. Done(ann, arm1, prom)
  BY <1>3 DEF Parts, Done, NoAnswer
<1>12. Messages(th, cur1, in1, out)
  <2> SUFFICES ASSUME NEW v \in Workers
               PROVE  /\ th[v] \in {"loading", "up"} => OneMessage(v, cur1, in1, out)
                      /\ th[v] # "up" => out[v] = <<>>
    BY DEF Messages
  <2>1. CASE v # w
    <3>1. cur1[v] = cur[v] /\ in1[v] = in[v]
      BY <1>2, <2>1
    <3> HIDE DEF cur1, in1
    <3> QED  BY <3>1 DEF Parts, Messages, OneMessage
  <2>2. CASE v = w
    <3>1. th[w] # "up" => out[w] = <<>>
      BY <1>2 DEF Parts, Messages
    <3>2. ASSUME th[w] \in {"loading", "up"} PROVE OneMessage(w, cur1, in1, out)
      <4>1. OneMessage(w, cur, in, out)
        BY <1>2, <3>2 DEF Parts, Messages
      <4>2. \A i \in 1..Len(in[w]) : in[w][i] = Cancel
        BY <1>2, <4>1 DEF OneMessage, Cancel
      <4>3. out[w] \in Seq(Answers \cup {Pong})
        BY <1>2
      <4>4. \A i \in DOMAIN out[w] : out[w][i] = Pong
        BY <1>2, <4>1, <4>3 DEF OneMessage, Answers
      <4>5. in1[w] = Append(in[w], t) /\ cur1[w] = t /\ DOMAIN in1[w] = 1..Len(in[w]) + 1
        BY <1>1, <1>2, <1>4
      <4>6. t # Cancel  BY <1>1 DEF Cancel
      <4>7. Len(in[w]) \in Nat  BY <1>2
      <4>8. \A i \in DOMAIN in1[w] : in1[w][i] # Cancel => i = Len(in[w]) + 1 /\ in1[w][i] = t
        BY <1>4, <4>2, <4>5, <4>7
      <4>9. Len(in[w]) + 1 \in DOMAIN in1[w] /\ in1[w][Len(in[w]) + 1] = t
        BY <1>4, <4>5, <4>7
      <4> HIDE DEF cur1, in1
      <4> QED  BY <4>4, <4>5, <4>8, <4>9 DEF OneMessage
    <3> QED  BY <2>2, <3>1, <3>2
  <2> QED  BY <2>1, <2>2
<1>13. Timed(th, cur1, arm1)
  BY <1>1, <1>2 DEF Parts, Timed
<1>14. Threads(ws, th, cur1, in1, cr)
  <2>1. ~(w > cr)
    BY <1>2 DEF Parts, Threads
  <2> QED  BY <1>2, <2>1 DEF Parts, Threads
<1>15. Own(ann)
  BY DEF Parts
<1> QED
  BY <1>5, <1>7, <1>8, <1>9, <1>10, <1>11, <1>12, <1>13, <1>14, <1>15 DEF Parts, t, r

(* What processQueue hands on, and that it leaves no queue unattended.      *)
LEMMA ProcessKeeps ==
  ASSUME NEW q, NEW ws, NEW cur, NEW arm, NEW boxes, NEW out, NEW th,
         NEW tc \in Nat, NEW prio, NEW prom, NEW ann, NEW cr \in Nat,
         startOrder \in Seq(Tasks),
         Typed(q, ws, cur, timeoutId, arm, runner, boxes, out, th, prio, prom, ann),
         Parts(q, ws, cur, timeoutId, arm, runner, boxes, out, th, tc, prio, prom, ann, cr),
         ProcessQueue(q, ws, cur, arm, boxes)
  PROVE  /\ Typed(taskQueue', ws, current', timeoutId', armed', runner', inbox', out, th,
                  prio, prom, ann)
         /\ Parts(taskQueue', ws, current', timeoutId', armed', runner', inbox', out, th,
                  tc, prio, prom, ann, cr)
         /\ startOrder' \in Seq(Tasks)
         /\ ws # {} /\ taskQueue' # <<>> => \E w \in ws : current'[w] # 0
<1>1. CASE /\ q = <<>> \/ {w \in ws : cur[w] = 0} = {}
           /\ taskQueue' = q /\ current' = cur /\ armed' = arm /\ inbox' = boxes
           /\ UNCHANGED <<timeoutId, runner, startOrder>>
  BY <1>1
<1>2. ASSUME q # <<>>, NEW w \in ws, cur[w] = 0,
             ExecuteTask(w, Head(q), cur, arm, boxes), taskQueue' = Tail(q)
      PROVE  /\ Typed(taskQueue', ws, current', timeoutId', armed', runner', inbox', out, th,
                      prio, prom, ann)
             /\ Parts(taskQueue', ws, current', timeoutId', armed', runner', inbox', out, th,
                      tc, prio, prom, ann, cr)
             /\ startOrder' \in Seq(Tasks)
             /\ \E v \in ws : current'[v] # 0
  <2>1. /\ Typed(taskQueue', ws, current', timeoutId', armed', runner', inbox', out, th,
                 prio, prom, ann)
        /\ Parts(taskQueue', ws, current', timeoutId', armed', runner', inbox', out, th,
                 tc, prio, prom, ann, cr)
    BY <1>2, StartKeeps DEF ExecuteTask
  <2>2. Head(q) \in Tasks /\ Head(q) # 0 /\ w \in Workers /\ cur \in [Workers -> Tasks \cup {0}]
    BY <1>2, Numbers DEF Typed
  <2>3. startOrder' \in Seq(Tasks) /\ current'[w] # 0
    BY <1>2, <2>2 DEF ExecuteTask
  <2> QED  BY <2>1, <2>3
<1> QED  BY <1>1, <1>2 DEF ProcessQueue

-----------------------------------------------------------------------------
(* The initial state                                                        *)

IInv == TypeOK /\ Inv

(* TypeOK and the types of ProcessQueue's arguments.                        *)
LEMMA TypesAgree ==
  TypeOK <=> /\ Typed(taskQueue, workers, current, timeoutId, armed, runner, inbox, outbox,
                      thread, priority, promise, announced)
             /\ taskCounter \in 0..MaxTasks /\ created \in 0..MaxWorkers
             /\ startOrder \in Seq(Tasks) /\ poolSize \in Nat /\ stopped \in BOOLEAN
             /\ events \in 0..MaxEvents
BY DEF TypeOK, Typed

LEMMA Initial == Init => IInv
<1> SUFFICES ASSUME Init PROVE IInv
  OBVIOUS
<1> USE Numbers
<1>1. TypeOK
  <2>1. /\ taskQueue = <<>> /\ startOrder = <<>> /\ <<>> \in Seq(Tasks)
        /\ <<>> \in Seq(Tasks \cup {Cancel}) /\ <<>> \in Seq(Answers \cup {Pong})
    BY DEF Init
  <2>2. /\ taskCounter \in 0..MaxTasks /\ created \in 0..MaxWorkers /\ workers \subseteq Workers
        /\ events \in 0..MaxEvents /\ poolSize \in Nat /\ stopped \in BOOLEAN
    <3>1. 1..InitialSize \subseteq 1..MaxWorkers
      OBVIOUS
    <3>2. workers \subseteq Workers
      BY <3>1 DEF Init, Workers
    <3>3. InitialSize \in Nat /\ InitialSize <= MaxWorkers
      OBVIOUS
    <3>4. stopped \in BOOLEAN /\ taskCounter = 0 /\ events = 0
      BY DEF Init
    <3>5. created \in 0..MaxWorkers /\ poolSize \in Nat
      BY <3>3 DEF Init
    <3>6. 0 \in 0..MaxTasks /\ 0 \in 0..MaxEvents
      OBVIOUS
    <3> QED  BY <3>2, <3>4, <3>5, <3>6
  <2>3. /\ priority \in [Tasks -> Priorities \cup {0}] /\ promise \in [Tasks -> Promises]
        /\ announced \in [Tasks -> Answers \cup {NoAnswer}] /\ armed \subseteq Tasks
        /\ runner \in [Tasks -> Workers \cup {0}]
    BY DEF Init, Promises
  <2>4. /\ thread \in [Workers -> {"none", "loading", "up", "failed", "terminated"}]
        /\ current \in [Workers -> Tasks \cup {0}] /\ timeoutId \in [Workers -> Tasks \cup {0}]
    BY DEF Init
  <2>5. inbox \in [Workers -> Seq(Tasks \cup {Cancel})] /\ outbox \in [Workers -> Seq(Answers \cup {Pong})]
    BY <2>1 DEF Init
  <2> QED  BY <2>1, <2>2, <2>3, <2>4, <2>5 DEF TypeOK
<1>2. Queued(taskQueue, taskCounter, priority, runner)
  BY DEF Init, Queued, Ordered
<1>3. NotYet(taskCounter, runner, announced, armed, promise)
  BY DEF Init, NotYet
<1>4. Held(thread, current, timeoutId, runner, announced)
  BY DEF Init, Held
<1>5. Late(thread, runner, promise) /\ Done(announced, armed, promise) /\ Own(announced)
  BY DEF Init, Late, Done, Own, NoAnswer
<1>6. Messages(thread, current, inbox, outbox)
  BY DEF Init, Messages, OneMessage
<1>7. Timed(thread, current, armed)
  BY DEF Init, Timed
<1>8. Threads(workers, thread, current, inbox, created)
  BY DEF Init, Threads, Workers
<1>9. Attended
  <2>1. 1 \in workers
    BY DEF Init
  <2> QED  BY <2>1 DEF Init, Attended, QueueIsAttended
<1> QED  BY <1>1, <1>2, <1>3, <1>4, <1>5, <1>6, <1>7, <1>8, <1>9 DEF IInv, Inv, Parts

-----------------------------------------------------------------------------
(* One lemma per handler                                                    *)

(* A queue in order stays so when a later task comes in.                    *)
LEMMA EnqueuedOrdered ==
  ASSUME NEW q \in Seq(Tasks), NEW t \in Tasks, NEW prio \in [Tasks -> Priorities \cup {0}],
         Ordered(q, prio), \A i \in DOMAIN q : q[i] < t
  PROVE  Ordered(Enqueued(q, t, prio), prio)
<1> USE Numbers
<1> DEFINE r == Enqueued(q, t, prio)
<1>1. PICK at \in 1..Len(q) + 1 : InsertedAt(r, q, t, prio, at)
  BY EnqueuedFact
<1>2. \A u \in Tasks : u \in Nat /\ prio[u] \in Nat
  <2>1. \A x \in Priorities \cup {0} : x \in Nat
    OBVIOUS
  <2> QED  BY <2>1
<1>3. Len(q) \in Nat /\ DOMAIN q = 1..Len(q) /\ \A k \in 1..Len(q) : q[k] \in Tasks
  OBVIOUS
<1> HIDE DEF r
<1>4. /\ DOMAIN r = 1..Len(q) + 1
      /\ \A k \in 1..Len(q) + 1 : r[k] = IF k < at THEN q[k] ELSE IF k = at THEN t ELSE q[k - 1]
  BY <1>1, <1>3 DEF InsertedAt
<1>5. \A k \in 1..(at - 1) : prio[q[k]] >= prio[t] /\ q[k] < t
  <2> TAKE k \in 1..(at - 1)
  <2>1. k \in 1..Len(q) /\ ~(prio[q[k]] < prio[t])
    BY <1>1, <1>3 DEF InsertedAt
  <2> QED  BY <1>2, <1>3, <2>1, SMTT(30)
<1>6. \A k \in at..Len(q) : prio[t] > prio[q[k]]
  <2> TAKE k \in at..Len(q)
  <2>1. at \in 1..Len(q) /\ k \in 1..Len(q) /\ prio[q[at]] < prio[t]
    BY <1>1, <1>3 DEF InsertedAt
  <2>2. prio[q[k]] <= prio[q[at]]
    <3>0. prio[q[k]] \in Nat /\ prio[q[at]] \in Nat
      BY <1>2, <1>3, <2>1
    <3>1. CASE k = at
      BY <3>0, <3>1
    <3>2. CASE k > at
      <4>1. at \in DOMAIN q /\ k \in DOMAIN q /\ at < k
        BY <1>3, <2>1, <3>2
      <4>2. prio[q[at]] > prio[q[k]] \/ prio[q[at]] = prio[q[k]]
        BY <4>1 DEF Ordered
      <4> QED  BY <3>0, <4>2
    <3>3. k = at \/ k > at
      BY <2>1
    <3> QED  BY <3>1, <3>2, <3>3
  <2>3. prio[q[k]] \in Nat /\ prio[q[at]] \in Nat /\ prio[t] \in Nat
    BY <1>2, <1>3, <2>1
  <2> QED  BY <2>1, <2>2, <2>3
<1> SUFFICES ASSUME NEW i \in DOMAIN r, NEW j \in DOMAIN r, i < j
             PROVE  prio[r[i]] > prio[r[j]] \/ (prio[r[i]] = prio[r[j]] /\ r[i] < r[j])
  BY DEF Ordered, r
<1>7. i \in 1..Len(q) + 1 /\ j \in 1..Len(q) + 1
  BY <1>4
<1>8. CASE i < at /\ j < at
  <2>1. i \in DOMAIN q /\ j \in DOMAIN q /\ r[i] = q[i] /\ r[j] = q[j]
    BY <1>3, <1>4, <1>7, <1>8
  <2> QED  BY <2>1 DEF Ordered
<1>9. CASE i < at /\ j = at
  <2>1. i \in 1..(at - 1) /\ r[i] = q[i] /\ r[j] = t /\ q[i] \in Tasks
    BY <1>3, <1>4, <1>7, <1>9
  <2>2. prio[q[i]] \in Nat /\ prio[t] \in Nat
    BY <1>2, <2>1
  <2> QED  BY <1>5, <2>1, <2>2
<1>10. CASE i < at /\ j > at
  <2>1. i \in DOMAIN q /\ j - 1 \in DOMAIN q /\ i < j - 1 /\ r[i] = q[i] /\ r[j] = q[j - 1]
    BY <1>3, <1>4, <1>7, <1>10
  <2> QED  BY <2>1 DEF Ordered
<1>11. CASE i = at
  <2>1. j - 1 \in at..Len(q) /\ r[i] = t /\ r[j] = q[j - 1]
    BY <1>3, <1>4, <1>7, <1>11
  <2> QED  BY <1>6, <2>1
<1>12. CASE i > at
  <2>1. i - 1 \in DOMAIN q /\ j - 1 \in DOMAIN q /\ i - 1 < j - 1
    BY <1>3, <1>7, <1>12
  <2>2. r[i] = q[i - 1] /\ r[j] = q[j - 1]
    BY <1>4, <1>7, <1>12
  <2> QED  BY <2>1, <2>2 DEF Ordered
<1> QED  BY <1>7, <1>8, <1>9, <1>10, <1>11, <1>12

(* A handler that ends in processQueue has kept the invariant if it hands   *)
(* on values that satisfy its parts.                                        *)
LEMMA Conclude ==
  ASSUME IInv, NEW q, NEW cur, NEW arm, NEW boxes,
         ProcessQueue(q, workers', cur, arm, boxes),
         Typed(q, workers', cur, timeoutId, arm, runner, boxes, outbox', thread', priority',
               promise', announced'),
         Parts(q, workers', cur, timeoutId, arm, runner, boxes, outbox', thread', taskCounter',
               priority', promise', announced', created'),
         taskCounter' \in 0..MaxTasks, created' \in 0..MaxWorkers, poolSize' \in Nat,
         stopped' \in BOOLEAN, events' \in 0..MaxEvents,
         ~stopped' => workers' # {}
  PROVE  IInv'
<1> USE Numbers
<1>1. startOrder \in Seq(Tasks) /\ taskCounter' \in Nat /\ created' \in Nat
  BY DEF IInv, TypeOK
<1>2. /\ Typed(taskQueue', workers', current', timeoutId', armed', runner', inbox', outbox',
               thread', priority', promise', announced')
      /\ Parts(taskQueue', workers', current', timeoutId', armed', runner', inbox', outbox',
               thread', taskCounter', priority', promise', announced', created')
      /\ startOrder' \in Seq(Tasks)
      /\ workers' # {} /\ taskQueue' # <<>> => \E w \in workers' : current'[w] # 0
  BY <1>1, ProcessKeeps
<1>3. TypeOK'
  BY <1>2 DEF TypeOK, Typed
<1>4. Attended'
  BY <1>2 DEF Attended, QueueIsAttended
<1> QED  BY <1>2, <1>3, <1>4 DEF IInv, Inv

LEMMA CalculateKeeps ==
  ASSUME IInv, NEW p \in Priorities, Calculate(p)
  PROVE  IInv'
<1> DEFINE t == taskCounter + 1
           q == Enqueued(taskQueue, t, priority')
<1> USE Numbers
<1>1. t \in Tasks /\ t \in Nat /\ taskCounter \in Nat
  BY DEF IInv, TypeOK, Calculate, Tasks
<1>2. Typed(taskQueue, workers, current, timeoutId, armed, runner, inbox, outbox, thread,
            priority, promise, announced)
  BY TypesAgree DEF IInv
<1>3. /\ taskCounter' = t
      /\ priority' = [priority EXCEPT ![t] = p] /\ promise' = [promise EXCEPT ![t] = "pending"]
      /\ ProcessQueue(q, workers, current, armed, inbox)
      /\ UNCHANGED <<workers, created, poolSize, stopped, thread, outbox, announced, events>>
  BY DEF Calculate
<1> HIDE DEF t
<1>4. /\ priority' \in [Tasks -> Priorities \cup {0}] /\ promise' \in [Tasks -> Promises]
      /\ taskQueue \in Seq(Tasks)
  BY <1>1, <1>2, <1>3 DEF Typed, Promises
<1>5. PICK at \in 1..Len(taskQueue) + 1 : InsertedAt(q, taskQueue, t, priority', at)
  BY <1>1, <1>4, EnqueuedFact
<1>6. /\ \A i \in DOMAIN taskQueue : taskQueue[i] <= taskCounter /\ runner[taskQueue[i]] = 0
      /\ Ordered(taskQueue, priority)
      /\ NotYet(taskCounter, runner, announced, armed, promise)
  BY DEF IInv, Inv, Parts, Queued
<1>7. \A i \in DOMAIN taskQueue : taskQueue[i] \in Tasks /\ taskQueue[i] < t
  BY <1>1, <1>4, <1>6 DEF t
<1>8. Ordered(taskQueue, priority')
  BY <1>1, <1>3, <1>6, <1>7, <1>2 DEF Ordered, Typed
<1>9. Ordered(q, priority')
  BY <1>1, <1>4, <1>7, <1>8, EnqueuedOrdered
<1> HIDE DEF q
<1>10. Typed(q, workers, current, timeoutId, armed, runner, inbox, outbox', thread', priority',
             promise', announced')
  BY <1>2, <1>3, <1>4, <1>5 DEF Typed, InsertedAt
<1>11. runner[t] = 0
  BY <1>1, <1>6 DEF NotYet, t
<1>12. Queued(q, t, priority', runner)
  <2>1. ASSUME NEW k \in DOMAIN q PROVE q[k] <= t /\ runner[q[k]] = 0
    <3>0. Len(taskQueue) \in Nat /\ DOMAIN taskQueue = 1..Len(taskQueue)
      BY <1>4
    <3>1. k \in 1..Len(taskQueue) + 1 /\ k \in 1..Len(q)
      BY <1>5, <3>0 DEF InsertedAt
    <3>2. q[k] = t \/ \E i \in DOMAIN taskQueue : q[k] = taskQueue[i]
      <4>1. q[k] = IF k < at THEN taskQueue[k] ELSE IF k = at THEN t ELSE taskQueue[k - 1]
        BY <1>5, <3>1 DEF InsertedAt
      <4>2. k < at => k \in DOMAIN taskQueue
        BY <3>0, <3>1
      <4>3. k > at => k - 1 \in DOMAIN taskQueue
        BY <3>0, <3>1
      <4> QED  BY <3>0, <3>1, <4>1, <4>2, <4>3
    <3>3. CASE q[k] = t
      BY <1>1, <1>11, <3>3
    <3>4. ASSUME NEW i \in DOMAIN taskQueue, q[k] = taskQueue[i] PROVE q[k] <= t /\ runner[q[k]] = 0
      <4>1. q[k] \in Tasks /\ q[k] < t /\ runner[q[k]] = 0
        BY <1>6, <1>7, <3>4
      <4>2. \A x \in Tasks : x \in Nat
        OBVIOUS
      <4>3. q[k] \in Nat
        BY <4>1, <4>2
      <4> QED  BY <1>1, <4>1, <4>3
    <3> QED  BY <3>2, <3>3, <3>4
  <2> QED  BY <1>9, <2>1 DEF Queued
<1>13. NotYet(t, runner, announced', armed, promise')
  BY <1>1, <1>2, <1>3, <1>6 DEF NotYet, Typed, t
<1>14. /\ Held(thread', current, timeoutId, runner, announced') /\ Own(announced')
       /\ Messages(thread', current, inbox, outbox') /\ Timed(thread', current, armed)
       /\ Threads(workers', thread', current, inbox, created')
  BY <1>3 DEF IInv, Inv, Parts
<1>15. Late(thread', runner, promise') /\ Done(announced', armed, promise')
  BY <1>1, <1>2, <1>3 DEF IInv, Inv, Parts, Late, Done, Typed
<1>16. Parts(q, workers', current, timeoutId, armed, runner, inbox, outbox', thread',
             taskCounter', priority', promise', announced', created')
  BY <1>3, <1>12, <1>13, <1>14, <1>15 DEF Parts
<1>17. /\ taskCounter' \in 0..MaxTasks /\ created' \in 0..MaxWorkers /\ poolSize' \in Nat
       /\ stopped' \in BOOLEAN /\ events' \in 0..MaxEvents
  BY <1>1, <1>3 DEF IInv, TypeOK, Tasks
<1>18. ~stopped' => workers' # {}
  BY <1>3 DEF IInv, Inv, Attended
<1>19. workers' = workers
  BY <1>3
<1> QED  BY <1>3, <1>10, <1>16, <1>17, <1>18, <1>19, Conclude

(* What waits may be taken away, and promises be rejected.                  *)
LEMMA CancelQueuedKeeps ==
  ASSUME IInv, NEW t \in Tasks, CancelQueued(t)
  PROVE  IInv'
<1> USE Numbers
<1>1. /\ t \in Range(taskQueue) /\ taskQueue' = RemoveFirst(taskQueue, t)
      /\ promise' = Rejected({t}, "cancelled") /\ events' \in 0..MaxEvents
      /\ UNCHANGED <<taskCounter, priority, workers, created, poolSize, stopped, taskVars,
                     threadVars, announced>>
  BY DEF CancelQueued, Counted, IInv, TypeOK
<1>2. taskQueue \in Seq(Tasks) /\ promise \in [Tasks -> Promises]
  BY DEF IInv, TypeOK
<1>3. /\ taskQueue' \in Seq(Tasks)
      /\ \E i \in 1..Len(taskQueue) :
           /\ Len(taskQueue') = Len(taskQueue) - 1
           /\ \A k \in 1..Len(taskQueue) - 1 :
                taskQueue'[k] = IF k < i THEN taskQueue[k] ELSE taskQueue[k + 1]
  BY <1>1, <1>2, RemovedFact
<1>4. promise' \in [Tasks -> Promises] /\ \A u \in Tasks : promise'[u] = "timedOut" => promise[u] = "timedOut"
  BY <1>1, <1>2 DEF Rejected, Promises
<1>5. TypeOK'
  BY <1>1, <1>3, <1>4 DEF IInv, TypeOK, taskVars, threadVars
<1>6. Queued(taskQueue', taskCounter, priority, runner)
  <2>1. Len(taskQueue) \in Nat /\ DOMAIN taskQueue = 1..Len(taskQueue)
    BY <1>2
  <2>2. PICK at \in 1..Len(taskQueue) :
          /\ Len(taskQueue') = Len(taskQueue) - 1
          /\ \A k \in 1..Len(taskQueue) - 1 :
               taskQueue'[k] = IF k < at THEN taskQueue[k] ELSE taskQueue[k + 1]
    BY <1>3
  <2>3. DOMAIN taskQueue' = 1..Len(taskQueue) - 1
    BY <1>3, <2>1, <2>2
  <2> DEFINE from(k) == IF k < at THEN k ELSE k + 1
  <2>4. \A k \in DOMAIN taskQueue' : from(k) \in DOMAIN taskQueue /\ taskQueue'[k] = taskQueue[from(k)]
    BY <2>1, <2>2, <2>3
  <2>5. \A i, j \in DOMAIN taskQueue' : i < j => from(i) < from(j)
    BY <2>1, <2>2, <2>3
  <2> HIDE DEF from
  <2> QED  BY <2>4, <2>5 DEF IInv, Inv, Parts, Queued, Ordered
<1>7. /\ NotYet(taskCounter, runner, announced, armed, promise')
      /\ Late(thread, runner, promise') /\ Done(announced, armed, promise')
  BY <1>4 DEF IInv, Inv, Parts, NotYet, Late, Done
<1>8. Parts(taskQueue', workers', current', timeoutId', armed', runner', inbox', outbox',
            thread', taskCounter', priority', promise', announced', created')
  BY <1>1, <1>6, <1>7 DEF IInv, Inv, Parts, taskVars, threadVars
<1>9. Attended'
  <2>1. taskQueue # <<>>
    BY <1>2, <1>3
  <2> QED  BY <1>1, <2>1 DEF IInv, Inv, Attended, QueueIsAttended, taskVars
<1> QED  BY <1>5, <1>8, <1>9 DEF IInv, Inv

(* A cancel message is no task.                                             *)
LEMMA SendCancelFact ==
  ASSUME IInv, NEW S \in SUBSET workers
  PROVE  /\ SendCancel(S) \in [Workers -> Seq(Tasks \cup {Cancel})]
         /\ Messages(thread, current, SendCancel(S), outbox)
         /\ Threads(workers, thread, current, SendCancel(S), created)
<1> DEFINE in == SendCancel(S)
<1> USE Numbers
<1>1. /\ inbox \in [Workers -> Seq(Tasks \cup {Cancel})]
      /\ workers \subseteq Workers
      /\ thread \in [Workers -> {"none", "loading", "up", "failed", "terminated"}]
      /\ Messages(thread, current, inbox, outbox) /\ created \in Nat
      /\ Threads(workers, thread, current, inbox, created)
  BY DEF IInv, TypeOK, Inv, Parts
<1>2. ASSUME NEW w \in Workers
      PROVE  /\ in[w] \in Seq(Tasks \cup {Cancel})
             /\ \A i \in DOMAIN inbox[w] : i \in DOMAIN in[w] /\ in[w][i] = inbox[w][i]
             /\ \A i \in DOMAIN in[w] : in[w][i] # Cancel =>
                  i \in DOMAIN inbox[w] /\ in[w][i] = inbox[w][i]
  <2>1. inbox[w] \in Seq(Tasks \cup {Cancel}) /\ Cancel \in Tasks \cup {Cancel}
    BY <1>1
  <2>2. CASE w \in S
    <3>1. in[w] = Append(inbox[w], Cancel)
      BY <2>2 DEF SendCancel
    <3> HIDE DEF in
    <3>2. /\ in[w] \in Seq(Tasks \cup {Cancel}) /\ Len(in[w]) = Len(inbox[w]) + 1
          /\ Len(inbox[w]) \in Nat
          /\ DOMAIN in[w] = 1..Len(inbox[w]) + 1 /\ DOMAIN inbox[w] = 1..Len(inbox[w])
          /\ \A i \in 1..Len(inbox[w]) + 1 :
               in[w][i] = IF i <= Len(inbox[w]) THEN inbox[w][i] ELSE Cancel
      BY <2>1, <3>1
    <3> QED  BY <3>2
  <2>3. CASE w \notin S
    BY <2>1, <2>3 DEF SendCancel
  <2> QED  BY <2>2, <2>3
<1>3. in \in [Workers -> Seq(Tasks \cup {Cancel})]
  BY <1>2 DEF SendCancel
<1> HIDE DEF in
<1>4. Messages(thread, current, in, outbox)
  <2> SUFFICES ASSUME NEW w \in Workers, thread[w] \in {"loading", "up"}
               PROVE  OneMessage(w, current, in, outbox)
    BY <1>1 DEF Messages
  <2>1. OneMessage(w, current, inbox, outbox)
    BY <1>1 DEF Messages
  <2> QED  BY <1>2, <2>1 DEF OneMessage
<1>5. Threads(workers, thread, current, in, created)
  <2>1. \A w \in Workers : w > created => w \notin S
    BY <1>1 DEF Threads
  <2> QED  BY <1>1, <2>1 DEF Threads, in, SendCancel
<1> QED  BY <1>3, <1>4, <1>5 DEF in

LEMMA CancelRunningKeeps ==
  ASSUME IInv, NEW t \in Tasks, CancelRunning(t)
  PROVE  IInv'
<1>1. PICK w \in workers : inbox' = SendCancel({w})
  BY DEF CancelRunning
<1>2. /\ UNCHANGED <<mainVars, taskVars, thread, outbox, announced>>
      /\ events' \in 0..MaxEvents
  BY Numbers DEF CancelRunning, Counted, IInv, TypeOK
<1>3. /\ inbox' \in [Workers -> Seq(Tasks \cup {Cancel})]
      /\ Messages(thread, current, inbox', outbox)
      /\ Threads(workers, thread, current, inbox', created)
  BY <1>1, SendCancelFact
<1>4. TypeOK'
  BY <1>2, <1>3 DEF IInv, TypeOK, mainVars, taskVars
<1>5. Inv'
  BY <1>2, <1>3 DEF IInv, Inv, Parts, Attended, QueueIsAttended, mainVars, taskVars
<1> QED  BY <1>4, <1>5 DEF IInv

LEMMA CancelAllKeeps ==
  ASSUME IInv, CancelAll
  PROVE  IInv'
<1>1. inbox' = SendCancel({w \in workers : current[w] # 0})
  BY DEF CancelAll
<1>2. /\ UNCHANGED <<taskCounter, priority, workers, created, poolSize, stopped, taskVars,
                     thread, outbox, announced>>
      /\ promise' = Rejected(Range(taskQueue), "cancelled") /\ taskQueue' = <<>>
      /\ events' \in 0..MaxEvents
  BY Numbers DEF CancelAll, Counted, IInv, TypeOK
<1>3. /\ inbox' \in [Workers -> Seq(Tasks \cup {Cancel})]
      /\ Messages(thread, current, inbox', outbox)
      /\ Threads(workers, thread, current, inbox', created)
  BY <1>1, SendCancelFact
<1>4. promise' \in [Tasks -> Promises] /\ \A u \in Tasks : promise'[u] = "timedOut" => promise[u] = "timedOut"
  BY <1>2 DEF IInv, TypeOK, Rejected, Promises
<1>5. TypeOK'
  BY <1>2, <1>3, <1>4 DEF IInv, TypeOK, taskVars
<1>6. Queued(taskQueue', taskCounter, priority, runner)
  BY <1>2 DEF Queued, Ordered
<1>7. /\ NotYet(taskCounter, runner, announced, armed, promise')
      /\ Late(thread, runner, promise') /\ Done(announced, armed, promise')
  BY <1>4 DEF IInv, Inv, Parts, NotYet, Late, Done
<1>8. Parts(taskQueue', workers', current', timeoutId', armed', runner', inbox', outbox',
            thread', taskCounter', priority', promise', announced', created')
  BY <1>2, <1>3, <1>6, <1>7 DEF IInv, Inv, Parts, taskVars
<1>9. Attended'
  BY <1>2 DEF IInv, Inv, Attended, QueueIsAttended
<1> QED  BY <1>5, <1>8, <1>9 DEF IInv, Inv

(* A timer fires: the worker that was given the task goes, if it has not    *)
(* gone yet, and another is made.                                           *)
LEMMA HandleTaskTimeoutKeeps ==
  ASSUME IInv, NEW t \in Tasks, HandleTaskTimeout(t)
  PROVE  IInv'
<1> DEFINE w == runner[t]
           n == created + 1
           in == Emptied(inbox, {w})
           arm == armed \ {t}
<1> USE Numbers
<1>1. /\ t \in armed
      /\ CreateWorkers(workers \ {w}, Terminated(thread, {w}), 1)
      /\ promise' = Rejected({t}, "timedOut") /\ outbox' = Emptied(outbox, {w})
      /\ ProcessQueue(taskQueue, workers', current, arm, in)
      /\ UNCHANGED <<taskCounter, priority, poolSize, stopped, announced, events>>
  BY DEF HandleTaskTimeout
<1>2. /\ Typed(taskQueue, workers, current, timeoutId, armed, runner, inbox, outbox, thread,
               priority, promise, announced)
      /\ created \in Nat
  BY TypesAgree DEF IInv
<1>3. Parts(taskQueue, workers, current, timeoutId, armed, runner, inbox, outbox, thread,
            taskCounter, priority, promise, announced, created)
  BY DEF IInv, Inv
<1>4. w \in Workers /\ runner[t] # 0 /\ thread[w] # "none"
  <2>1. runner[t] # 0
    BY <1>1, <1>3 DEF Parts, NotYet
  <2> QED  BY <1>2, <1>3, <2>1 DEF Typed, Parts, Held
<1>5. w <= created /\ n \in Workers /\ w # n
  <2>1. ~(w > created)
    BY <1>3, <1>4 DEF Parts, Threads
  <2>2. n \in Workers
    BY <1>1, <1>2 DEF CreateWorkers, Workers
  <2>3. w \in Nat
    BY <1>4
  <2>4. w <= created /\ w # n
    BY <1>2, <2>1, <2>3
  <2> QED  BY <2>2, <2>4
<1>6. /\ workers' = (workers \ {w}) \cup {n} /\ created' = n
      /\ thread' = [v \in Workers |-> IF v = n THEN "loading"
                                      ELSE IF v = w THEN "terminated" ELSE thread[v]]
  <2>1. n..(created + 1) = {n}
    BY <1>2
  <2> QED  BY <1>1, <1>5, <2>1 DEF CreateWorkers, Terminated
<1>7. thread[n] = "none" /\ current[n] = 0 /\ inbox[n] = <<>> /\ outbox[n] = <<>>
  <2>1. n > created
    BY <1>2
  <2> QED  BY <1>3, <1>5, <2>1 DEF Parts, Threads, Messages
<1>8. promise' = [promise EXCEPT ![t] = IF promise[t] = "pending" THEN "timedOut" ELSE @]
  BY <1>1, <1>2 DEF Rejected, Typed
<1> HIDE DEF w, n
<1>9. /\ in = [v \in Workers |-> IF v = w THEN <<>> ELSE inbox[v]]
      /\ outbox' = [v \in Workers |-> IF v = w THEN <<>> ELSE outbox[v]]
  BY <1>1 DEF Emptied
<1>10. Typed(taskQueue, workers', current, timeoutId, arm, runner, in, outbox', thread',
             priority', promise', announced')
  <2>1. promise' \in [Tasks -> Promises]
    BY <1>2, <1>8 DEF Typed, Promises
  <2>2. in \in [Workers -> Seq(Tasks \cup {Cancel})] /\ outbox' \in [Workers -> Seq(Answers \cup {Pong})]
    <3>1. <<>> \in Seq(Tasks \cup {Cancel}) /\ <<>> \in Seq(Answers \cup {Pong})
      OBVIOUS
    <3> QED  BY <1>2, <1>9, <3>1, ZenonT(40) DEF Typed
  <2>3. /\ thread' \in [Workers -> {"none", "loading", "up", "failed", "terminated"}]
        /\ workers' \in SUBSET Workers
    BY <1>2, <1>5, <1>6 DEF Typed
  <2>4. priority' = priority /\ announced' = announced
    BY <1>1
  <2> HIDE DEF in
  <2> QED  BY <1>2, <2>1, <2>2, <2>3, <2>4 DEF Typed
<1> HIDE DEF in
<1>11. Queued(taskQueue, taskCounter, priority, runner)
  BY <1>3 DEF Parts
<1>12. NotYet(taskCounter, runner, announced, arm, promise')
  BY <1>2, <1>3, <1>4, <1>8 DEF Parts, NotYet, Typed
<1>13. Held(thread', current, timeoutId, runner, announced)
  <2>1. \A u \in Tasks : runner[u] # 0 => runner[u] \in Workers
    BY <1>2 DEF Typed
  <2>2. \A u \in Tasks : runner[u] # 0 => thread'[runner[u]] # "none"
    BY <1>3, <1>6, <2>1 DEF Parts, Held
  <2>3. \A v \in Workers : current[v] # 0 /\ thread'[v] # "terminated" => thread[v] # "terminated"
    BY <1>6, <1>7
  <2> QED  BY <1>3, <2>2, <2>3 DEF Parts, Held
<1>14. Late(thread', runner, promise')
  <2> SUFFICES ASSUME NEW u \in Tasks, promise'[u] = "timedOut"
               PROVE  runner[u] # 0 /\ thread'[runner[u]] = "terminated"
    BY DEF Late
  <2>1. CASE u = t
    BY <1>4, <1>5, <1>6, <2>1 DEF w
  <2>2. CASE u # t
    <3>1. promise[u] = "timedOut"
      BY <1>2, <1>8, <2>2 DEF Typed
    <3>2. runner[u] # 0 /\ thread[runner[u]] = "terminated" /\ runner[u] \in Workers
      BY <1>2, <1>3, <3>1 DEF Parts, Late, Typed
    <3> QED  BY <1>6, <1>7, <3>2
  <2> QED  BY <2>1, <2>2
<1>15. Done(announced, arm, promise')
  BY <1>1, <1>2, <1>3, <1>8 DEF Parts, Done, Typed
<1>16. Own(announced)
  BY <1>3 DEF Parts
<1>17. Messages(thread', current, in, outbox')
  <2> SUFFICES ASSUME NEW v \in Workers
               PROVE  /\ thread'[v] \in {"loading", "up"} => OneMessage(v, current, in, outbox')
                      /\ thread'[v] # "up" => outbox'[v] = <<>>
    BY DEF Messages
  <2>1. CASE v = n
    BY <1>5, <1>6, <1>7, <1>9, <2>1 DEF OneMessage
  <2>2. CASE v = w
    BY <1>5, <1>6, <1>9, <2>2
  <2>3. CASE v # n /\ v # w
    BY <1>3, <1>6, <1>9, <2>3 DEF Parts, Messages, OneMessage
  <2> QED  BY <2>1, <2>2, <2>3
<1>18. Timed(thread', current, arm)
  <2> SUFFICES ASSUME NEW v \in Workers, current[v] # 0, thread'[v] \in {"loading", "failed"}
               PROVE  current[v] \in arm
    BY DEF Timed
  <2>1. v # n /\ v # w /\ thread'[v] = thread[v]
    BY <1>5, <1>6, <1>7
  <2>2. current[v] \in armed /\ runner[current[v]] = v
    BY <1>3, <2>1 DEF Parts, Timed, Held
  <2> QED  BY <2>1, <2>2 DEF w
<1>19. Threads(workers', thread', current, in, created')
  <2>1. \A v \in Workers : v \in Nat
    OBVIOUS
  <2>2. n = created + 1 /\ n \in Nat
    BY <1>2 DEF n
  <2>3. \A v \in workers' : thread'[v] \in {"loading", "up", "failed"}
    BY <1>2, <1>3, <1>5, <1>6 DEF Parts, Threads, Typed
  <2>4. \A v \in Workers : v > n => thread'[v] = "none" /\ current[v] = 0 /\ in[v] = <<>>
    <3> SUFFICES ASSUME NEW v \in Workers, v > n
                 PROVE  thread'[v] = "none" /\ current[v] = 0 /\ in[v] = <<>>
      OBVIOUS
    <3>1. v > created /\ v # n /\ v # w
      BY <1>2, <1>4, <1>5, <2>1, <2>2
    <3> QED  BY <1>3, <1>6, <1>9, <3>1 DEF Parts, Threads
  <2>5. \A v \in Workers : thread'[v] = "none" => v > n
    BY <1>2, <1>3, <1>6, <2>1, <2>2 DEF Parts, Threads
  <2> QED  BY <1>6, <2>3, <2>4, <2>5 DEF Threads
<1>20. Parts(taskQueue, workers', current, timeoutId, arm, runner, in, outbox', thread',
             taskCounter', priority', promise', announced', created')
  BY <1>1, <1>11, <1>12, <1>13, <1>14, <1>15, <1>16, <1>17, <1>18, <1>19 DEF Parts
<1>21. /\ taskCounter' \in 0..MaxTasks /\ created' \in 0..MaxWorkers /\ poolSize' \in Nat
       /\ events' \in 0..MaxEvents
  BY <1>1, <1>2, <1>5, <1>6 DEF IInv, TypeOK, Workers
<1>22. stopped' \in BOOLEAN
  BY <1>1 DEF IInv, TypeOK
<1>23. workers' # {}
  BY <1>6
<1>24. ProcessQueue(taskQueue, workers', current, arm, in)
  BY <1>1 DEF in, w
<1> QED  BY <1>10, <1>20, <1>21, <1>22, <1>23, <1>24, Conclude

LEMMA TailFact ==
  ASSUME NEW S, NEW s \in Seq(S), s # <<>>
  PROVE  /\ Head(s) \in S /\ Head(s) = s[1] /\ Tail(s) \in Seq(S) /\ Len(s) \in Nat \ {0}
         /\ Len(Tail(s)) = Len(s) - 1
         /\ DOMAIN s = 1..Len(s) /\ DOMAIN Tail(s) = 1..Len(s) - 1
         /\ \A i \in 1..Len(s) - 1 : Tail(s)[i] = s[i + 1]
OBVIOUS

(* OneMessage is about w's values alone.                                    *)
LEMMA OneMessageOf ==
  ASSUME NEW w, NEW cur, NEW in, NEW out, NEW cur1, NEW in1, NEW out1,
         cur1[w] = cur[w], in1[w] = in[w], out1[w] = out[w], OneMessage(w, cur, in, out)
  PROVE  OneMessage(w, cur1, in1, out1)
<1>1. /\ \A i \in DOMAIN in1[w] : in1[w][i] # Cancel =>
           /\ in1[w][i] = cur1[w]
           /\ \A j \in DOMAIN in1[w] : in1[w][j] # Cancel => j = i
           /\ \A j \in DOMAIN out1[w] : out1[w][j] = Pong
  BY DEF OneMessage
<1>2. /\ \A i \in DOMAIN out1[w] : out1[w][i] # Pong =>
           /\ out1[w][i].task = cur1[w]
           /\ \A j \in DOMAIN out1[w] : out1[w][j] # Pong => j = i
  BY DEF OneMessage
<1>3. cur1[w] # 0 => \/ \E i \in DOMAIN in1[w] : in1[w][i] = cur1[w]
                     \/ \E i \in DOMAIN out1[w] : out1[w][i] # Pong
  BY DEF OneMessage
<1> QED  BY <1>1, <1>2, <1>3 DEF OneMessage

(* The first message a worker has sent is taken off.                        *)
LEMMA HandleWorkerMessageKeeps ==
  ASSUME IInv, NEW w \in Workers, HandleWorkerMessage(w)
  PROVE  IInv'
<1> DEFINE response == Head(outbox[w])
           t == current[w]
           arm == armed \ {timeoutId[w]}
<1> USE Numbers
<1>1. /\ outbox[w] # <<>> /\ outbox' = [outbox EXCEPT ![w] = Tail(@)]
      /\ UNCHANGED <<taskCounter, priority, promise, workers, created, poolSize, stopped,
                     thread, events>>
  BY DEF HandleWorkerMessage
<1>2. Typed(taskQueue, workers, current, timeoutId, armed, runner, inbox, outbox, thread,
            priority, promise, announced)
  BY TypesAgree DEF IInv
<1>3. Parts(taskQueue, workers, current, timeoutId, armed, runner, inbox, outbox, thread,
            taskCounter, priority, promise, announced, created)
  BY DEF IInv, Inv
<1>4. thread[w] = "up" /\ OneMessage(w, current, inbox, outbox)
  BY <1>1, <1>3 DEF Parts, Messages
<1>5. /\ outbox[w] \in Seq(Answers \cup {Pong}) /\ outbox'[w] = Tail(outbox[w])
      /\ \A v \in Workers : v # w => outbox'[v] = outbox[v]
  BY <1>1, <1>2 DEF Typed
<1>6. /\ response \in Answers \cup {Pong} /\ response = outbox[w][1] /\ 1 \in DOMAIN outbox[w]
      /\ outbox'[w] \in Seq(Answers \cup {Pong})
      /\ Len(outbox'[w]) = Len(outbox[w]) - 1 /\ Len(outbox[w]) \in Nat
      /\ \A i \in 1..Len(outbox[w]) - 1 : outbox'[w][i] = outbox[w][i + 1]
      /\ DOMAIN outbox[w] = 1..Len(outbox[w]) /\ DOMAIN outbox'[w] = 1..Len(outbox[w]) - 1
  <2>1. outbox[w] # <<>> /\ outbox[w] \in Seq(Answers \cup {Pong})
    BY <1>1, <1>5
  <2> DEFINE o == outbox[w]
  <2>2. /\ Head(o) \in Answers \cup {Pong} /\ Head(o) = o[1] /\ Tail(o) \in Seq(Answers \cup {Pong})
        /\ Len(o) \in Nat \ {0} /\ Len(Tail(o)) = Len(o) - 1
        /\ DOMAIN o = 1..Len(o) /\ DOMAIN Tail(o) = 1..Len(o) - 1
        /\ \A i \in 1..Len(o) - 1 : Tail(o)[i] = o[i + 1]
    BY <2>1, TailFact
  <2> HIDE DEF o
  <2>3. outbox'[w] = Tail(o) /\ response = Head(o)
    BY <1>5 DEF o
  <2>4. 1 \in DOMAIN o
    BY <2>2
  <2> QED  BY <2>2, <2>3, <2>4 DEF o
<1> HIDE DEF response
<1>7. /\ DOMAIN outbox[w] = 1..Len(outbox[w]) /\ DOMAIN outbox'[w] = 1..Len(outbox[w]) - 1
      /\ \A i \in DOMAIN outbox'[w] :
           i \in Nat /\ i + 1 # 1 /\ i + 1 \in DOMAIN outbox[w] /\ outbox'[w][i] = outbox[w][i + 1]
  BY <1>5, <1>6
<1>8. /\ outbox' \in [Workers -> Seq(Answers \cup {Pong})] /\ arm \in SUBSET Tasks
  BY <1>1, <1>2, <1>6 DEF Typed
<1>9. Done(announced, arm, promise) /\ NotYet(taskCounter, runner, announced, arm, promise)
  BY <1>3 DEF Parts, Done, NotYet
<1>10. ASSUME NEW v \in Workers, current[v] # 0, thread[v] \in {"loading", "failed"}
       PROVE  current[v] \in arm
  <2>1. v # w /\ current[v] \in armed /\ runner[current[v]] = v
    BY <1>3, <1>4, <1>10 DEF Parts, Timed, Held
  <2>2. timeoutId[w] # 0 => runner[timeoutId[w]] = w
    BY <1>3 DEF Parts, Held
  <2> QED  BY <1>10, <2>1, <2>2
<1>11. CASE response.type = "pong" \/ t = 0
  <2>1. /\ armed' = arm /\ UNCHANGED <<taskQueue, current, timeoutId, runner, startOrder, inbox,
                                       announced>>
    <3>1. ~(response.type # "pong" /\ t # 0)
      BY <1>11
    <3> QED  BY <3>1 DEF HandleWorkerMessage, response
  <2>2. response = Pong
    <3>1. CASE t = 0
      <4>1. response # Pong => response \in Answers /\ response.task = 0
        BY <1>4, <1>6, <3>1 DEF OneMessage
      <4> QED  BY <4>1 DEF Answers
    <3>2. CASE response.type = "pong"
      BY <1>6, <3>2 DEF Answers
    <3> QED  BY <1>11, <3>1, <3>2
  <2>3. OneMessage(w, current, inbox, outbox')
    <3>1. \A i \in DOMAIN outbox[w] : outbox[w][i] # Pong =>
            i - 1 \in DOMAIN outbox'[w] /\ outbox'[w][i - 1] = outbox[w][i]
      <4> TAKE i \in DOMAIN outbox[w]
      <4>1. outbox[w][i] # Pong => i # 1
        BY <1>6, <2>2
      <4>2. i # 1 => i - 1 \in DOMAIN outbox'[w] /\ (i - 1) + 1 = i
        BY <1>6, <1>7
      <4> QED  BY <1>7, <4>1, <4>2
    <3>2. \A i, j \in DOMAIN outbox'[w] : i + 1 = j + 1 => i = j
      BY <1>6, <1>7
    <3> DEFINE o == outbox[w]
               r == outbox'[w]
    <3>3. /\ \A i \in DOMAIN r : i + 1 \in DOMAIN o /\ r[i] = o[i + 1]
          /\ \A i \in DOMAIN o : o[i] # Pong => i - 1 \in DOMAIN r /\ r[i - 1] = o[i]
      BY <1>7, <3>1
    <3>4. /\ \A i \in DOMAIN inbox[w] : inbox[w][i] # Cancel =>
               /\ inbox[w][i] = current[w]
               /\ \A j \in DOMAIN inbox[w] : inbox[w][j] # Cancel => j = i
               /\ \A j \in DOMAIN o : o[j] = Pong
          /\ \A i \in DOMAIN o : o[i] # Pong =>
               o[i].task = current[w] /\ \A j \in DOMAIN o : o[j] # Pong => j = i
          /\ current[w] # 0 => \/ \E i \in DOMAIN inbox[w] : inbox[w][i] = current[w]
                               \/ \E i \in DOMAIN o : o[i] # Pong
      BY <1>4 DEF OneMessage
    <3> HIDE DEF o, r
    <3>5. \A i \in DOMAIN r : r[i] # Pong =>
            r[i].task = current[w] /\ \A j \in DOMAIN r : r[j] # Pong => j = i
      <4> SUFFICES ASSUME NEW i \in DOMAIN r, r[i] # Pong
                   PROVE  r[i].task = current[w] /\ \A j \in DOMAIN r : r[j] # Pong => j = i
        OBVIOUS
      <4>1. r[i].task = current[w]
        BY <3>3, <3>4
      <4>2. \A j \in DOMAIN r : r[j] # Pong => j + 1 = i + 1
        BY <3>3, <3>4
      <4> QED  BY <3>2, <4>1, <4>2 DEF r
    <3>6. current[w] # 0 => \/ \E i \in DOMAIN inbox[w] : inbox[w][i] = current[w]
                            \/ \E i \in DOMAIN r : r[i] # Pong
      BY <3>3, <3>4
    <3>7. \A i \in DOMAIN inbox[w] : inbox[w][i] # Cancel =>
               /\ inbox[w][i] = current[w]
               /\ \A j \in DOMAIN inbox[w] : inbox[w][j] # Cancel => j = i
               /\ \A j \in DOMAIN r : r[j] = Pong
      BY <3>3, <3>4
    <3> QED  BY <3>5, <3>6, <3>7 DEF OneMessage, r
  <2>4. Messages(thread, current, inbox, outbox')
    <3> SUFFICES ASSUME NEW v \in Workers
                 PROVE  /\ thread[v] \in {"loading", "up"} => OneMessage(v, current, inbox, outbox')
                        /\ thread[v] # "up" => outbox'[v] = <<>>
      BY DEF Messages
    <3>1. CASE v = w
      BY <1>4, <2>3, <3>1
    <3>2. CASE v # w
      <4>1. outbox'[v] = outbox[v] /\ (thread[v] # "up" => outbox[v] = <<>>)
        BY <1>3, <1>5, <3>2 DEF Parts, Messages
      <4>2. thread[v] \in {"loading", "up"} => OneMessage(v, current, inbox, outbox)
        BY <1>3 DEF Parts, Messages
      <4> QED  BY <4>1, <4>2, OneMessageOf
    <3> QED  BY <3>1, <3>2
  <2>5. Timed(thread, current, arm)
    BY <1>10 DEF Timed
  <2>6. TypeOK'
    BY <1>1, <1>8, <2>1 DEF IInv, TypeOK
  <2>7. Parts(taskQueue', workers', current', timeoutId', armed', runner', inbox', outbox',
              thread', taskCounter', priority', promise', announced', created')
    BY <1>1, <1>3, <1>9, <2>1, <2>4, <2>5 DEF Parts
  <2>8. Attended'
    BY <1>1, <2>1 DEF IInv, Inv, Attended, QueueIsAttended
  <2> QED  BY <2>6, <2>7, <2>8 DEF IInv, Inv
<1>12. CASE response.type # "pong" /\ t # 0
  <2> DEFINE cur == [current EXCEPT ![w] = 0]
  <2>1. /\ announced' = [announced EXCEPT ![t] = response]
        /\ ProcessQueue(taskQueue, workers, cur, arm, inbox)
    BY <1>12 DEF HandleWorkerMessage, response
  <2>2. response \in Answers /\ response.task = t /\ response # Pong /\ response # NoAnswer
    <3>1. response \in Answers /\ response # Pong
      BY <1>6, <1>12 DEF Pong
    <3>2. response.task = t
      BY <1>4, <1>6, <3>1 DEF OneMessage
    <3> QED  BY <1>12, <3>1, <3>2 DEF NoAnswer
  <2>3. t \in Tasks /\ runner[t] = w /\ timeoutId[w] = t
    BY <1>2, <1>3, <1>4, <1>12 DEF Typed, Parts, Held
  <2>4. \A v \in Workers : v # w /\ current[v] # 0 /\ thread[v] # "terminated" => current[v] # t
    BY <1>3, <2>3 DEF Parts, Held
  <2>5. promise[t] # "timedOut"
    BY <1>3, <1>4, <2>3 DEF Parts, Late
  <2>6. /\ announced' \in [Tasks -> Answers \cup {NoAnswer}]
        /\ announced'[t] = response /\ \A u \in Tasks : u # t => announced'[u] = announced[u]
    BY <1>2, <2>1, <2>2, <2>3 DEF Typed
  <2>7. /\ cur \in [Workers -> Tasks \cup {0}] /\ cur[w] = 0
        /\ \A v \in Workers : v # w => cur[v] = current[v]
    BY <1>2 DEF Typed
  <2> HIDE DEF cur
  <2>8. Typed(taskQueue, workers', cur, timeoutId, arm, runner, inbox, outbox', thread',
              priority', promise', announced')
    BY <1>1, <1>2, <1>8, <2>6, <2>7 DEF Typed
  <2>9. NotYet(taskCounter, runner, announced', arm, promise)
    BY <1>4, <1>9, <2>3, <2>6 DEF NotYet
  <2>10. Held(thread, cur, timeoutId, runner, announced')
    <3>1. \A v \in Workers : cur[v] # 0 => v # w /\ cur[v] = current[v]
      BY <2>7
    <3>2. \A v \in Workers : current[v] # 0 => current[v] \in Tasks
      BY <1>2 DEF Typed
    <3> QED  BY <1>3, <2>4, <2>6, <3>1, <3>2, ZenonT(40) DEF Parts, Held
  <2>11. Done(announced', arm, promise)
    BY <1>9, <2>3, <2>5, <2>6 DEF Done
  <2>12. Own(announced')
    BY <1>3, <2>2, <2>6 DEF Parts, Own
  <2>13. OneMessage(w, cur, inbox, outbox')
    <3>1. \A i \in DOMAIN inbox[w] : inbox[w][i] = Cancel
      <4>1. outbox[w][1] # Pong
        BY <1>6, <2>2
      <4> QED  BY <1>4, <1>6, <4>1 DEF OneMessage
    <3>2. \A i \in DOMAIN outbox'[w] : outbox'[w][i] = Pong
      BY <1>4, <1>6, <1>7, <2>2 DEF OneMessage
    <3> QED  BY <2>7, <3>1, <3>2 DEF OneMessage
  <2>14. Messages(thread, cur, inbox, outbox')
    <3> SUFFICES ASSUME NEW v \in Workers
                 PROVE  /\ thread[v] \in {"loading", "up"} => OneMessage(v, cur, inbox, outbox')
                        /\ thread[v] # "up" => outbox'[v] = <<>>
      BY DEF Messages
    <3>1. CASE v = w
      BY <1>4, <2>13, <3>1
    <3>2. CASE v # w
      <4>1. /\ outbox'[v] = outbox[v] /\ (thread[v] # "up" => outbox[v] = <<>>)
            /\ cur[v] = current[v]
        BY <1>3, <1>5, <2>7, <3>2 DEF Parts, Messages
      <4>2. thread[v] \in {"loading", "up"} => OneMessage(v, current, inbox, outbox)
        BY <1>3 DEF Parts, Messages
      <4> QED  BY <4>1, <4>2, OneMessageOf
    <3> QED  BY <3>1, <3>2
  <2>15. Timed(thread, cur, arm)
    BY <1>10, <2>7 DEF Timed
  <2>16. Threads(workers, thread, cur, inbox, created)
    BY <1>3, <2>7 DEF Parts, Threads
  <2>17. Parts(taskQueue, workers', cur, timeoutId, arm, runner, inbox, outbox', thread',
               taskCounter', priority', promise', announced', created')
    BY <1>1, <1>3, <2>9, <2>10, <2>11, <2>12, <2>14, <2>15, <2>16 DEF Parts
  <2>18. /\ taskCounter' \in 0..MaxTasks /\ created' \in 0..MaxWorkers /\ poolSize' \in Nat
         /\ events' \in 0..MaxEvents
    BY <1>1 DEF IInv, TypeOK
  <2>19. stopped' \in BOOLEAN /\ workers' = workers /\ (~stopped' => workers' # {})
    BY <1>1 DEF IInv, TypeOK, Inv, Attended
  <2> QED  BY <2>1, <2>8, <2>17, <2>18, <2>19, Conclude
<1> QED  BY <1>11, <1>12

(* A script does not load: its worker is idle, with the timer still armed.  *)
LEMMA HandleWorkerErrorKeeps ==
  ASSUME IInv, NEW w \in Workers, HandleWorkerError(w)
  PROVE  IInv'
<1> DEFINE t == current[w]
           cur == [current EXCEPT ![w] = 0]
<1> USE Numbers
<1>1. /\ thread[w] = "loading" /\ thread' = [thread EXCEPT ![w] = "failed"]
      /\ announced' = IF t = 0 THEN announced
                      ELSE [announced EXCEPT ![t] = Answer("error", t)]
      /\ ProcessQueue(taskQueue, workers, cur, armed, inbox)
      /\ UNCHANGED <<taskCounter, priority, promise, workers, created, poolSize, stopped, outbox>>
  BY DEF HandleWorkerError
<1>2. Typed(taskQueue, workers, current, timeoutId, armed, runner, inbox, outbox, thread,
            priority, promise, announced)
  BY TypesAgree DEF IInv
<1>3. Parts(taskQueue, workers, current, timeoutId, armed, runner, inbox, outbox, thread,
            taskCounter, priority, promise, announced, created)
  BY DEF IInv, Inv
<1>4. /\ cur \in [Workers -> Tasks \cup {0}] /\ cur[w] = 0
      /\ \A v \in Workers : v # w => cur[v] = current[v]
      /\ thread' \in [Workers -> {"none", "loading", "up", "failed", "terminated"}]
      /\ thread'[w] = "failed" /\ \A v \in Workers : v # w => thread'[v] = thread[v]
  BY <1>1, <1>2 DEF Typed
<1>5. t # 0 => t \in Tasks /\ runner[t] = w
  BY <1>1, <1>2, <1>3 DEF Typed, Parts, Held
<1>6. /\ announced' \in [Tasks -> Answers \cup {NoAnswer}]
      /\ \A u \in Tasks : \/ announced'[u] = announced[u]
                          \/ u = t /\ announced'[u] = Answer("error", u)
  <2>1. t # 0 => Answer("error", t) \in Answers
    BY <1>5 DEF Answer, Answers
  <2> QED  BY <1>1, <1>2, <1>5, <2>1 DEF Typed
<1> HIDE DEF cur
<1>7. Typed(taskQueue, workers', cur, timeoutId, armed, runner, inbox, outbox', thread',
            priority', promise', announced')
  BY <1>1, <1>2, <1>4, <1>6 DEF Typed
<1>8. NotYet(taskCounter, runner, announced', armed, promise)
  <2>1. \A u \in Tasks : runner[u] = 0 => announced'[u] = announced[u]
    BY <1>5, <1>6
  <2> QED  BY <1>3, <2>1 DEF Parts, NotYet
<1>9. Held(thread', cur, timeoutId, runner, announced')
  <2>1. ASSUME NEW v \in Workers, cur[v] # 0, thread'[v] # "terminated"
        PROVE  runner[cur[v]] = v /\ timeoutId[v] = cur[v] /\ announced'[cur[v]] = NoAnswer
    <3>1. v # w /\ cur[v] = current[v] /\ thread[v] # "terminated" /\ current[v] \in Tasks
      BY <1>2, <1>4, <2>1 DEF Typed
    <3>2. runner[cur[v]] = v /\ timeoutId[v] = cur[v] /\ announced[cur[v]] = NoAnswer
      BY <1>3, <2>1, <3>1 DEF Parts, Held
    <3> QED  BY <1>5, <1>6, <2>1, <3>1, <3>2
  <2>2. \A u \in Tasks : runner[u] # 0 => thread'[runner[u]] # "none"
    <3>1. \A u \in Tasks : runner[u] # 0 => runner[u] \in Workers /\ thread[runner[u]] # "none"
      BY <1>2, <1>3 DEF Typed, Parts, Held
    <3> QED  BY <1>4, <3>1
  <2> QED  BY <1>3, <2>1, <2>2 DEF Parts, Held
<1>10. Late(thread', runner, promise)
  <2>1. \A u \in Tasks : promise[u] = "timedOut" =>
          /\ runner[u] # 0 /\ runner[u] \in Workers /\ thread[runner[u]] = "terminated"
          /\ runner[u] # w
    BY <1>1, <1>2, <1>3 DEF Typed, Parts, Late
  <2> QED  BY <1>4, <2>1 DEF Late
<1>11. Done(announced', armed, promise)
  BY <1>3, <1>6 DEF Parts, Done, Answer
<1>12. Own(announced')
  <2>1. \A u \in Tasks : Answer("error", u).task = u
    BY DEF Answer
  <2>2. Own(announced)
    BY <1>3 DEF Parts
  <2> QED  BY <1>6, <2>1, <2>2 DEF Own
<1>13. Messages(thread', cur, inbox, outbox)
  <2>1. \A v \in Workers : thread'[v] \in {"loading", "up"} => v # w
    BY <1>4
  <2>2. outbox[w] = <<>>
    BY <1>1, <1>3 DEF Parts, Messages
  <2>3. ASSUME NEW v \in Workers, v # w
        PROVE  /\ thread'[v] \in {"loading", "up"} => OneMessage(v, cur, inbox, outbox)
               /\ thread'[v] # "up" => outbox[v] = <<>>
    <3>1. cur[v] = current[v] /\ thread'[v] = thread[v]
      BY <1>4, <2>3
    <3>2. /\ thread[v] \in {"loading", "up"} => OneMessage(v, current, inbox, outbox)
          /\ thread[v] # "up" => outbox[v] = <<>>
      BY <1>3 DEF Parts, Messages
    <3> QED  BY <3>1, <3>2, OneMessageOf
  <2> QED  BY <2>1, <2>2, <2>3 DEF Messages
<1>14. Timed(thread', cur, armed)
  BY <1>3, <1>4 DEF Parts, Timed
<1>15. Threads(workers, thread', cur, inbox, created)
  BY <1>1, <1>2, <1>3, <1>4 DEF Parts, Threads, Typed
<1>16. Parts(taskQueue, workers', cur, timeoutId, armed, runner, inbox, outbox', thread',
             taskCounter', priority', promise', announced', created')
  BY <1>1, <1>3, <1>8, <1>9, <1>10, <1>11, <1>12, <1>13, <1>14, <1>15 DEF Parts
<1>17. /\ taskCounter' \in 0..MaxTasks /\ created' \in 0..MaxWorkers /\ poolSize' \in Nat
       /\ events' \in 0..MaxEvents
  BY <1>1 DEF IInv, TypeOK, HandleWorkerError, Counted
<1>18. stopped' \in BOOLEAN /\ workers' = workers /\ (~stopped' => workers' # {})
  BY <1>1 DEF IInv, TypeOK, Inv, Attended
<1> QED  BY <1>1, <1>7, <1>16, <1>17, <1>18, Conclude DEF cur

(* Terminating some workers of the list; in is what was under way to all.   *)
LEMMA GoneKeeps ==
  ASSUME IInv, NEW G \in SUBSET workers,
         NEW in \in [Workers -> Seq(Tasks \cup {Cancel})],
         Messages(thread, current, in, outbox),
         Threads(workers, thread, current, in, created)
  PROVE  LET th1 == Terminated(thread, G)
             in1 == Emptied(in, G)
             out1 == Emptied(outbox, G)
         IN /\ th1 \in [Workers -> {"none", "loading", "up", "failed", "terminated"}]
            /\ in1 \in [Workers -> Seq(Tasks \cup {Cancel})]
            /\ out1 \in [Workers -> Seq(Answers \cup {Pong})]
            /\ Held(th1, current, timeoutId, runner, announced)
            /\ Late(th1, runner, promise)
            /\ Messages(th1, current, in1, out1)
            /\ Timed(th1, current, armed)
            /\ \A ws \in SUBSET (workers \ G) : Threads(ws, th1, current, in1, created)
<1> DEFINE th1 == Terminated(thread, G)
           in1 == Emptied(in, G)
           out1 == Emptied(outbox, G)
<1> USE Numbers
<1>1. /\ Typed(taskQueue, workers, current, timeoutId, armed, runner, inbox, outbox, thread,
               priority, promise, announced)
      /\ Parts(taskQueue, workers, current, timeoutId, armed, runner, inbox, outbox, thread,
               taskCounter, priority, promise, announced, created)
      /\ created \in Nat
  BY TypesAgree DEF IInv, Inv
<1>2. /\ th1 \in [Workers -> {"none", "loading", "up", "failed", "terminated"}]
      /\ \A w \in Workers : th1[w] = IF w \in G THEN "terminated" ELSE thread[w]
  BY <1>1 DEF Typed, Terminated
<1>3. <<>> \in Seq(Tasks \cup {Cancel}) /\ <<>> \in Seq(Answers \cup {Pong})
  OBVIOUS
<1>4. /\ in1 \in [Workers -> Seq(Tasks \cup {Cancel})]
      /\ out1 \in [Workers -> Seq(Answers \cup {Pong})]
      /\ \A w \in Workers : /\ in1[w] = IF w \in G THEN <<>> ELSE in[w]
                            /\ out1[w] = IF w \in G THEN <<>> ELSE outbox[w]
  BY <1>1, <1>3 DEF Typed, Emptied
<1> HIDE DEF th1, in1, out1
<1>5. Held(th1, current, timeoutId, runner, announced)
  <2>1. \A u \in Tasks : runner[u] # 0 => runner[u] \in Workers /\ thread[runner[u]] # "none"
    BY <1>1 DEF Typed, Parts, Held
  <2>2. \A u \in Tasks : runner[u] # 0 => th1[runner[u]] # "none"
    BY <1>2, <2>1
  <2> QED  BY <1>1, <1>2, <2>2 DEF Parts, Held
<1>6. Late(th1, runner, promise)
  <2>1. \A u \in Tasks : promise[u] = "timedOut" =>
          runner[u] # 0 /\ runner[u] \in Workers /\ thread[runner[u]] = "terminated"
    BY <1>1 DEF Typed, Parts, Late
  <2> QED  BY <1>2, <2>1 DEF Late
<1>7. Messages(th1, current, in1, out1)
  <2>1. ASSUME NEW w \in Workers
        PROVE  /\ th1[w] \in {"loading", "up"} => OneMessage(w, current, in1, out1)
               /\ th1[w] # "up" => out1[w] = <<>>
    <3>1. CASE w \in G
      BY <1>2, <1>4, <3>1
    <3>2. CASE w \notin G
      <4>1. th1[w] = thread[w] /\ in1[w] = in[w] /\ out1[w] = outbox[w]
        BY <1>2, <1>4, <3>2
      <4>2. /\ thread[w] \in {"loading", "up"} => OneMessage(w, current, in, outbox)
            /\ thread[w] # "up" => outbox[w] = <<>>
        BY DEF Messages
      <4> QED  BY <4>1, <4>2, OneMessageOf
    <3> QED  BY <3>1, <3>2
  <2> QED  BY <2>1 DEF Messages
<1>8. Timed(th1, current, armed)
  BY <1>1, <1>2 DEF Parts, Timed
<1>9. ASSUME NEW ws \in SUBSET (workers \ G)
      PROVE  Threads(ws, th1, current, in1, created)
  <2>1. \A w \in workers : w \in Workers /\ ~(w > created)
    BY <1>1 DEF Typed, Threads
  <2>2. \A w \in ws : th1[w] \in {"loading", "up", "failed"}
    BY <1>2, <2>1 DEF Threads
  <2>3. \A w \in Workers : w > created => th1[w] = "none" /\ current[w] = 0 /\ in1[w] = <<>>
    BY <1>2, <1>4, <2>1 DEF Threads
  <2>4. \A w \in Workers : th1[w] = "none" => w > created
    BY <1>2 DEF Threads
  <2> QED  BY <2>2, <2>3, <2>4 DEF Threads
<1> QED  BY <1>2, <1>4, <1>5, <1>6, <1>7, <1>8, <1>9 DEF th1, in1, out1

LEMMA TerminateKeeps ==
  ASSUME IInv, Terminate
  PROVE  IInv'
<1> DEFINE in == SendCancel({w \in workers : current[w] # 0})
<1>1. /\ promise' = Rejected(Range(taskQueue), "cancelled") /\ taskQueue' = <<>>
      /\ thread' = Terminated(thread, Visited) /\ inbox' = Emptied(in, Visited)
      /\ outbox' = Emptied(outbox, Visited) /\ workers' = {} /\ stopped' = TRUE
      /\ UNCHANGED <<taskCounter, priority, created, poolSize, taskVars, announced>>
      /\ events' \in 0..MaxEvents
  BY Numbers DEF Terminate, Counted, IInv, TypeOK
<1>2. /\ in \in [Workers -> Seq(Tasks \cup {Cancel})]
      /\ Messages(thread, current, in, outbox)
      /\ Threads(workers, thread, current, in, created)
  BY SendCancelFact
<1>3. Visited \in SUBSET workers /\ {} \in SUBSET (workers \ Visited)
  BY DEF Visited
<1> HIDE DEF in
<1>4. /\ thread' \in [Workers -> {"none", "loading", "up", "failed", "terminated"}]
      /\ inbox' \in [Workers -> Seq(Tasks \cup {Cancel})]
      /\ outbox' \in [Workers -> Seq(Answers \cup {Pong})]
      /\ Held(thread', current, timeoutId, runner, announced)
      /\ Late(thread', runner, promise) /\ Messages(thread', current, inbox', outbox')
      /\ Timed(thread', current, armed) /\ Threads({}, thread', current, inbox', created)
  BY <1>1, <1>2, <1>3, GoneKeeps
<1>5. promise' \in [Tasks -> Promises] /\ \A u \in Tasks : promise'[u] = "timedOut" => promise[u] = "timedOut"
  BY <1>1 DEF IInv, TypeOK, Rejected, Promises
<1>6. TypeOK'
  <2>1. stopped' \in BOOLEAN /\ workers' \subseteq Workers /\ taskQueue' \in Seq(Tasks)
    BY <1>1
  <2> QED  BY <1>1, <1>4, <1>5, <2>1 DEF IInv, TypeOK, taskVars
<1>7. Queued(taskQueue', taskCounter, priority, runner)
  BY <1>1 DEF Queued, Ordered
<1>8. /\ NotYet(taskCounter, runner, announced, armed, promise')
      /\ Late(thread', runner, promise') /\ Done(announced, armed, promise') /\ Own(announced)
  BY <1>4, <1>5 DEF IInv, Inv, Parts, NotYet, Late, Done
<1>9. Parts(taskQueue', workers', current', timeoutId', armed', runner', inbox', outbox',
            thread', taskCounter', priority', promise', announced', created')
  BY <1>1, <1>4, <1>7, <1>8 DEF Parts, taskVars
<1>10. Attended'
  BY <1>1 DEF Attended, QueueIsAttended
<1> QED  BY <1>6, <1>9, <1>10 DEF IInv, Inv

LEMMA CountOf ==
  ASSUME NEW S \in SUBSET Workers
  PROVE  IsFiniteSet(S) /\ Cardinality(S) \in Nat
<1>1. IsFiniteSet(1..MaxWorkers)
  BY Numbers, FS_Interval
<1>2. IsFiniteSet(S)
  BY <1>1, FS_Subset DEF Workers
<1> QED  BY <1>2, FS_CardinalityType

(* Of a surplus, whose size is less than the list's, the last worker stays. *)
LEMMA SomeStay ==
  ASSUME NEW S \in SUBSET Workers, S # {}, NEW idle \in SUBSET S, NEW size \in Nat, size >= 1
  PROVE  {w \in idle : Index(idle, w) < Cardinality(S) - size} # S
<1> USE Numbers
<1>1. IsFiniteSet(S) /\ Cardinality(S) \in Nat
  BY CountOf
<1> SUFFICES ASSUME {w \in idle : Index(idle, w) < Cardinality(S) - size} = S PROVE FALSE
  OBVIOUS
<1>2. idle = S /\ \A w \in S : Index(S, w) < Cardinality(S) - size
  OBVIOUS
<1> DEFINE I == {k \in 1..MaxWorkers : \E w \in S : k = MaxWorkers + 1 - w}
<1>3. I \in SUBSET (1..MaxWorkers) /\ I # {}
  <2>1. PICK w \in S : TRUE
    OBVIOUS
  <2>2. w \in 1..MaxWorkers
    BY DEF Workers
  <2>3. MaxWorkers + 1 - w \in I
    BY <2>2
  <2> QED  BY <2>3
<1>4. Min(I) \in I /\ \A k \in I : Min(I) <= k
  <2> HIDE DEF I
  <2> QED  BY <1>3, LeastExists
<1>5. PICK m \in S : Min(I) = MaxWorkers + 1 - m
  BY <1>4
<1>6. \A w \in S : w <= m
  <2> TAKE w \in S
  <2>1. w \in 1..MaxWorkers /\ m \in 1..MaxWorkers
    BY DEF Workers
  <2>2. MaxWorkers + 1 - w \in I
    BY <2>1
  <2>3. Min(I) <= MaxWorkers + 1 - w
    BY <1>4, <2>2
  <2> QED  BY <1>5, <2>1, <2>3
<1>7. {v \in S : v < m} = S \ {m}
  <2>1. \A v \in S : v \in Nat
    OBVIOUS
  <2>2. \A v \in S : v < m <=> v # m
    BY <1>6, <2>1
  <2> QED  BY <2>2
<1>8. Cardinality(S \ {m}) = Cardinality(S) - 1
  BY <1>1, FS_RemoveElement
<1>9. Cardinality(S) - 1 < Cardinality(S) - size
  BY <1>2, <1>7, <1>8 DEF Index
<1> QED  BY <1>1, <1>9

LEMMA ResizeKeeps ==
  ASSUME IInv, NEW size \in 1..MaxSize, Resize(size)
  PROVE  IInv'
<1> DEFINE idle == {w \in workers : current[w] = 0}
           surplus == Cardinality(workers) - size
           gone == {w \in idle : Index(idle, w) < surplus}
<1> USE Numbers
<1>1. /\ events' \in 0..MaxEvents /\ poolSize' = size
      /\ UNCHANGED <<taskCounter, priority, promise, taskQueue, stopped, taskVars, announced>>
  BY DEF Resize, Counted, IInv, TypeOK
<1>2. /\ Typed(taskQueue, workers, current, timeoutId, armed, runner, inbox, outbox, thread,
               priority, promise, announced)
      /\ Parts(taskQueue, workers, current, timeoutId, armed, runner, inbox, outbox, thread,
               taskCounter, priority, promise, announced, created)
      /\ created \in Nat /\ created <= MaxWorkers
  BY TypesAgree DEF IInv, Inv
<1>3. workers \subseteq Workers /\ Cardinality(workers) \in Nat
  <2>1. workers \subseteq Workers
    BY <1>2 DEF Typed
  <2> QED  BY <2>1, CountOf
<1>4. (~stopped => workers # {}) /\ QueueIsAttended
  BY DEF IInv, Inv, Attended
<1>5. CASE surplus <= 0
  <2> DEFINE n == -surplus
             new == (created + 1)..(created + n)
  <2>1. /\ created + n <= MaxWorkers /\ workers' = workers \cup new
        /\ created' = created + n
        /\ thread' = [w \in Workers |-> IF w \in new THEN "loading" ELSE thread[w]]
        /\ inbox' = inbox /\ outbox' = outbox
    <3>1. ~(surplus > 0)
      BY <1>3, <1>5
    <3>2. CreateWorkers(workers, thread, n) /\ UNCHANGED <<inbox, outbox>>
      BY <3>1 DEF Resize
    <3> HIDE DEF n
    <3> QED  BY <3>2 DEF CreateWorkers
  <2>2. n \in Nat
    BY <1>3, <1>5
  <2> HIDE DEF n
  <2>3. new \subseteq Workers /\ \A w \in new : w > created
    BY <1>2, <2>1, <2>2 DEF Workers
  <2>4. \A w \in new : thread[w] = "none" /\ current[w] = 0 /\ inbox[w] = <<>> /\ outbox[w] = <<>>
    BY <1>2, <2>3 DEF Parts, Threads, Messages
  <2>5. \A w \in Workers : w > created + n => w \notin new /\ w > created
    BY <1>2, <2>2
  <2>6. \A w \in Workers : w > created /\ w \notin new => w > created + n
    BY <1>2, <2>2
  <2> HIDE DEF new
  <2>7. /\ thread' \in [Workers -> {"none", "loading", "up", "failed", "terminated"}]
        /\ \A w \in Workers : thread'[w] = IF w \in new THEN "loading" ELSE thread[w]
    BY <1>2, <2>1 DEF Typed
  <2>8. TypeOK'
    <3>1. workers' \subseteq Workers /\ created' \in 0..MaxWorkers /\ poolSize' \in Nat
      BY <1>1, <1>2, <1>3, <2>1, <2>2, <2>3
    <3> QED  BY <1>1, <2>1, <2>7, <3>1 DEF IInv, TypeOK, taskVars
  <2>9. Held(thread', current, timeoutId, runner, announced)
    <3>1. \A u \in Tasks : runner[u] # 0 => runner[u] \in Workers /\ thread[runner[u]] # "none"
      BY <1>2 DEF Typed, Parts, Held
    <3>2. \A u \in Tasks : runner[u] # 0 => thread'[runner[u]] # "none"
      BY <2>7, <3>1
    <3>3. \A w \in Workers : current[w] # 0 => thread'[w] = thread[w]
      BY <2>4, <2>7
    <3> QED  BY <1>2, <3>2, <3>3 DEF Parts, Held
  <2>10. Late(thread', runner, promise)
    <3>1. \A u \in Tasks : promise[u] = "timedOut" =>
            runner[u] # 0 /\ runner[u] \in Workers /\ thread[runner[u]] = "terminated"
      BY <1>2 DEF Typed, Parts, Late
    <3> QED  BY <2>4, <2>7, <3>1 DEF Late
  <2>11. Messages(thread', current, inbox, outbox)
    <3>1. \A w \in new : OneMessage(w, current, inbox, outbox)
      BY <2>4 DEF OneMessage
    <3> QED  BY <1>2, <2>4, <2>7, <3>1 DEF Parts, Messages
  <2>12. Timed(thread', current, armed)
    BY <1>2, <2>4, <2>7 DEF Parts, Timed
  <2>13. Threads(workers', thread', current, inbox, created')
    <3>1. \A w \in workers' : thread'[w] \in {"loading", "up", "failed"}
      BY <1>2, <1>3, <2>1, <2>3, <2>7 DEF Parts, Threads
    <3>2. \A w \in Workers : w > created' => thread'[w] = "none" /\ current[w] = 0 /\ inbox[w] = <<>>
      BY <1>2, <2>1, <2>5, <2>7 DEF Parts, Threads
    <3>3. \A w \in Workers : thread'[w] = "none" => w > created'
      BY <1>2, <2>1, <2>6, <2>7 DEF Parts, Threads
    <3> QED  BY <3>1, <3>2, <3>3 DEF Threads
  <2>14. Parts(taskQueue', workers', current', timeoutId', armed', runner', inbox', outbox',
               thread', taskCounter', priority', promise', announced', created')
    BY <1>1, <1>2, <2>1, <2>9, <2>10, <2>11, <2>12, <2>13 DEF Parts, taskVars
  <2>15. Attended'
    BY <1>1, <1>4, <2>1 DEF Attended, QueueIsAttended, taskVars
  <2> QED  BY <2>8, <2>14, <2>15 DEF IInv, Inv
<1>6. CASE surplus > 0
  <2>1. /\ workers' = workers \ gone /\ thread' = Terminated(thread, gone)
        /\ inbox' = Emptied(inbox, gone) /\ outbox' = Emptied(outbox, gone) /\ created' = created
    BY <1>3, <1>6 DEF Resize
  <2>2. workers # {} => gone # workers
    <3>1. size \in Nat /\ size >= 1 /\ idle \in SUBSET workers /\ workers \in SUBSET Workers
      BY <1>3
    <3> HIDE DEF idle
    <3> QED  BY <3>1, SomeStay
  <2>3. gone \in SUBSET workers /\ \A w \in gone : current[w] = 0
    OBVIOUS
  <2> HIDE DEF gone
  <2>4. /\ thread' \in [Workers -> {"none", "loading", "up", "failed", "terminated"}]
        /\ inbox' \in [Workers -> Seq(Tasks \cup {Cancel})]
        /\ outbox' \in [Workers -> Seq(Answers \cup {Pong})]
        /\ Held(thread', current, timeoutId, runner, announced)
        /\ Late(thread', runner, promise) /\ Messages(thread', current, inbox', outbox')
        /\ Timed(thread', current, armed) /\ Threads(workers', thread', current, inbox', created)
    <3>1. /\ inbox \in [Workers -> Seq(Tasks \cup {Cancel})]
          /\ Messages(thread, current, inbox, outbox)
          /\ Threads(workers, thread, current, inbox, created)
      BY <1>2 DEF Typed, Parts
    <3>2. workers' \in SUBSET (workers \ gone)
      BY <2>1
    <3> QED  BY <2>1, <2>3, <3>1, <3>2, GoneKeeps
  <2>5. TypeOK'
    <3>1. workers' \subseteq Workers
      BY <1>3, <2>1
    <3>2. size \in Nat
      OBVIOUS
    <3>3. poolSize' \in Nat
      BY <1>1, <3>2
    <3> QED  BY <1>1, <2>1, <2>4, <3>1, <3>3 DEF IInv, TypeOK, taskVars
  <2>6. Parts(taskQueue', workers', current', timeoutId', armed', runner', inbox', outbox',
              thread', taskCounter', priority', promise', announced', created')
    BY <1>1, <1>2, <2>1, <2>4 DEF Parts, taskVars
  <2>7. Attended'
    <3>1. ~stopped' => workers' # {}
      BY <1>1, <1>4, <2>1, <2>2, <2>3
    <3>2. QueueIsAttended'
      BY <1>1, <1>4, <2>1, <2>3 DEF QueueIsAttended, taskVars
    <3> QED  BY <3>1, <3>2 DEF Attended
  <2> QED  BY <2>5, <2>6, <2>7 DEF IInv, Inv
<1> QED  BY <1>3, <1>5, <1>6

LEMMA LoadKeeps ==
  ASSUME IInv, NEW w \in Workers, Load(w)
  PROVE  IInv'
<1>1. /\ thread[w] = "loading" /\ thread' = [thread EXCEPT ![w] = "up"]
      /\ UNCHANGED <<mainVars, taskVars, inbox, outbox, announced, events>>
  BY DEF Load
<1>2. /\ Typed(taskQueue, workers, current, timeoutId, armed, runner, inbox, outbox, thread,
               priority, promise, announced)
      /\ Parts(taskQueue, workers, current, timeoutId, armed, runner, inbox, outbox, thread,
               taskCounter, priority, promise, announced, created)
  BY TypesAgree DEF IInv, Inv
<1>3. /\ thread' \in [Workers -> {"none", "loading", "up", "failed", "terminated"}]
      /\ thread'[w] = "up" /\ \A v \in Workers : v # w => thread'[v] = thread[v]
  BY <1>1, <1>2 DEF Typed
<1>4. TypeOK'
  BY <1>1, <1>3 DEF IInv, TypeOK, mainVars, taskVars
<1>5. Held(thread', current, timeoutId, runner, announced)
  <2>1. \A u \in Tasks : runner[u] # 0 => runner[u] \in Workers /\ thread[runner[u]] # "none"
    BY <1>2 DEF Typed, Parts, Held
  <2>2. \A u \in Tasks : runner[u] # 0 => thread'[runner[u]] # "none"
    BY <1>3, <2>1
  <2>3. \A v \in Workers : thread'[v] # "terminated" => thread[v] # "terminated"
    BY <1>1, <1>3
  <2> QED  BY <1>2, <2>2, <2>3 DEF Parts, Held
<1>6. Late(thread', runner, promise)
  <2>1. \A u \in Tasks : promise[u] = "timedOut" =>
          /\ runner[u] # 0 /\ runner[u] \in Workers /\ thread[runner[u]] = "terminated"
          /\ runner[u] # w
    BY <1>1, <1>2 DEF Typed, Parts, Late
  <2> QED  BY <1>3, <2>1 DEF Late
<1>7. Messages(thread', current, inbox, outbox)
  <2>1. \A v \in Workers : /\ thread'[v] \in {"loading", "up"} => thread[v] \in {"loading", "up"}
                           /\ thread'[v] # "up" => thread[v] # "up"
    BY <1>1, <1>3
  <2> QED  BY <1>2, <2>1 DEF Parts, Messages
<1>8. Timed(thread', current, armed)
  BY <1>2, <1>3 DEF Parts, Timed
<1>9. Threads(workers, thread', current, inbox, created)
  BY <1>1, <1>2, <1>3 DEF Parts, Threads, Typed
<1>10. Inv'
  <2>1. Parts(taskQueue', workers', current', timeoutId', armed', runner', inbox', outbox',
              thread', taskCounter', priority', promise', announced', created')
    BY <1>1, <1>2, <1>5, <1>6, <1>7, <1>8, <1>9 DEF Parts, mainVars, taskVars
  <2>2. Attended'
    BY <1>1 DEF IInv, Inv, Attended, QueueIsAttended, mainVars, taskVars
  <2> QED  BY <2>1, <2>2 DEF Inv
<1> QED  BY <1>4, <1>10 DEF IInv

(* The worker answers the task it was sent, or acknowledges a cancel.       *)
LEMMA RespondKeeps ==
  ASSUME IInv, NEW w \in Workers, Respond(w)
  PROVE  IInv'
<1> DEFINE message == Head(inbox[w])
           a == inbox[w]
           b == Tail(inbox[w])
           c == outbox[w]
<1> USE Numbers
<1>1. /\ thread[w] = "up" /\ inbox[w] # <<>> /\ inbox' = [inbox EXCEPT ![w] = Tail(@)]
      /\ UNCHANGED <<mainVars, taskVars, thread, announced, events>>
  BY DEF Respond
<1>2. PICK r \in IF message = Cancel THEN {Pong}
                 ELSE {Answer("result", message), Answer("error", message)} :
        outbox' = [outbox EXCEPT ![w] = Append(@, r)]
  BY DEF Respond
<1>3. /\ Typed(taskQueue, workers, current, timeoutId, armed, runner, inbox, outbox, thread,
               priority, promise, announced)
      /\ Parts(taskQueue, workers, current, timeoutId, armed, runner, inbox, outbox, thread,
               taskCounter, priority, promise, announced, created)
  BY TypesAgree DEF IInv, Inv
<1>4. /\ a \in Seq(Tasks \cup {Cancel}) /\ a # <<>> /\ c \in Seq(Answers \cup {Pong})
      /\ OneMessage(w, current, inbox, outbox)
  BY <1>1, <1>3 DEF Typed, Parts, Messages
<1>5. /\ message \in Tasks \cup {Cancel} /\ message = a[1] /\ b \in Seq(Tasks \cup {Cancel})
      /\ Len(a) \in Nat \ {0} /\ DOMAIN a = 1..Len(a) /\ DOMAIN b = 1..Len(a) - 1
      /\ \A i \in 1..Len(a) - 1 : b[i] = a[i + 1]
  BY <1>4, TailFact
<1>6. \/ message = Cancel /\ r = Pong
      \/ message \in Tasks /\ r \in Answers /\ r.task = message
  <2>1. CASE message = Cancel
    BY <1>2, <2>1
  <2>2. CASE message # Cancel
    <3>1. message \in Tasks /\ r \in {Answer("result", message), Answer("error", message)}
      BY <1>2, <1>5, <2>2
    <3> HIDE DEF message
    <3> QED  BY <3>1 DEF Answer, Answers
  <2> QED  BY <2>1, <2>2
<1>7. inbox'[w] = b /\ outbox'[w] = Append(c, r)
  BY <1>1, <1>2, <1>3 DEF Typed
<1>8. \A v \in Workers : v # w => inbox'[v] = inbox[v] /\ outbox'[v] = outbox[v]
  BY <1>1, <1>2, <1>3 DEF Typed
<1> HIDE DEF message, b
<1>9. r \in Answers \cup {Pong} /\ (r = Pong <=> message = Cancel)
  BY <1>6 DEF Answers, Pong, Cancel
<1>10. /\ Append(c, r) \in Seq(Answers \cup {Pong}) /\ Len(c) \in Nat
       /\ DOMAIN c = 1..Len(c) /\ DOMAIN Append(c, r) = 1..Len(c) + 1
       /\ \A i \in 1..Len(c) + 1 : Append(c, r)[i] = IF i <= Len(c) THEN c[i] ELSE r
  <2> HIDE DEF c
  <2> QED  BY <1>4, <1>9
<1>11. /\ inbox' \in [Workers -> Seq(Tasks \cup {Cancel})]
       /\ outbox' \in [Workers -> Seq(Answers \cup {Pong})]
  BY <1>1, <1>2, <1>3, <1>5, <1>7, <1>10 DEF Typed
<1> DEFINE d == Append(c, r)
<1>12. /\ \A i \in DOMAIN a : a[i] # Cancel =>
            /\ a[i] = current[w]
            /\ \A j \in DOMAIN a : a[j] # Cancel => j = i
            /\ \A j \in DOMAIN c : c[j] = Pong
       /\ \A i \in DOMAIN c : c[i] # Pong =>
            c[i].task = current[w] /\ \A j \in DOMAIN c : c[j] # Pong => j = i
       /\ current[w] # 0 => \/ \E i \in DOMAIN a : a[i] = current[w]
                            \/ \E i \in DOMAIN c : c[i] # Pong
  BY <1>4 DEF OneMessage
<1>13. current[w] \in Tasks \cup {0}
  BY <1>3 DEF Typed
<1>14. /\ \A i \in DOMAIN b : i \in Nat /\ i + 1 # 1 /\ i + 1 \in DOMAIN a /\ b[i] = a[i + 1]
       /\ \A i \in DOMAIN a : i # 1 => i - 1 \in DOMAIN b /\ b[i - 1] = a[i]
       /\ 1 \in DOMAIN a
  <2>1. \A i \in DOMAIN a : i # 1 => i - 1 \in 1..Len(a) - 1 /\ (i - 1) + 1 = i
    BY <1>5
  <2>2. \A i \in DOMAIN a : i # 1 => b[i - 1] = a[i]
    BY <1>5, <2>1
  <2> HIDE DEF a
  <2> QED  BY <1>5, <2>1, <2>2
<1>15. /\ \A i \in DOMAIN c : i \in DOMAIN d /\ d[i] = c[i]
       /\ \A i \in DOMAIN d : \/ i \in DOMAIN c /\ d[i] = c[i]
                              \/ i = Len(c) + 1 /\ d[i] = r
       /\ Len(c) + 1 \in DOMAIN d /\ d[Len(c) + 1] = r
  <2>1. Len(c) + 1 \in 1..Len(c) + 1 /\ \A i \in 1..Len(c) : i \in 1..Len(c) + 1 /\ i <= Len(c)
    BY <1>10
  <2>2. \A i \in 1..Len(c) + 1 : i \in 1..Len(c) \/ (i = Len(c) + 1 /\ ~(i <= Len(c)))
    BY <1>10
  <2>3. ~(Len(c) + 1 <= Len(c))
    BY <1>10
  <2> HIDE DEF c
  <2> QED  BY <1>10, <2>1, <2>2, <2>3
<1>16. OneMessage(w, current, inbox', outbox')
  <2>1. inbox'[w] = b /\ outbox'[w] = d
    BY <1>7
  <2> HIDE DEF a, c, d
  <2>2. CASE message = Cancel
    <3>1. r = Pong /\ a[1] = Cancel
      BY <1>5, <1>9, <2>2
    <3>2. \A i \in DOMAIN b : b[i] # Cancel =>
            /\ b[i] = current[w]
            /\ \A j \in DOMAIN b : b[j] # Cancel => j = i
            /\ \A j \in DOMAIN d : d[j] = Pong
      <4> SUFFICES ASSUME NEW i \in DOMAIN b, b[i] # Cancel
                   PROVE  /\ b[i] = current[w]
                          /\ \A j \in DOMAIN b : b[j] # Cancel => j = i
                          /\ \A j \in DOMAIN d : d[j] = Pong
        OBVIOUS
      <4>1. b[i] = current[w] /\ \A j \in DOMAIN c : c[j] = Pong
        BY <1>12, <1>14
      <4>2. \A j \in DOMAIN b : b[j] # Cancel => j + 1 = i + 1
        BY <1>12, <1>14
      <4>3. \A j \in DOMAIN b : b[j] # Cancel => j = i
        BY <1>14, <4>2
      <4> QED  BY <1>15, <3>1, <4>1, <4>3
    <3>3. \A i \in DOMAIN d : d[i] # Pong =>
            d[i].task = current[w] /\ \A j \in DOMAIN d : d[j] # Pong => j = i
      <4>1. \A i \in DOMAIN d : d[i] # Pong => i \in DOMAIN c /\ c[i] = d[i]
        BY <1>15, <3>1
      <4> QED  BY <1>12, <4>1
    <3>4. current[w] # 0 => \/ \E i \in DOMAIN b : b[i] = current[w]
                            \/ \E i \in DOMAIN d : d[i] # Pong
      <4> SUFFICES ASSUME current[w] # 0
                   PROVE  \/ \E i \in DOMAIN b : b[i] = current[w]
                          \/ \E i \in DOMAIN d : d[i] # Pong
        OBVIOUS
      <4>1. ASSUME NEW i \in DOMAIN a, a[i] = current[w] PROVE \E k \in DOMAIN b : b[k] = current[w]
        <5>1. i # 1
          BY <3>1, <4>1 DEF Cancel
        <5> QED  BY <1>14, <4>1, <5>1
      <4>2. ASSUME NEW i \in DOMAIN c, c[i] # Pong PROVE \E k \in DOMAIN d : d[k] # Pong
        BY <1>15, <4>2
      <4> QED  BY <1>12, <4>1, <4>2
    <3> QED  BY <2>1, <3>2, <3>3, <3>4 DEF OneMessage
  <2>3. CASE message # Cancel
    <3>1. r # Pong /\ r.task = message /\ a[1] # Cancel /\ a[1] = message
      BY <1>5, <1>6, <1>9, <2>3
    <3>2. a[1] = current[w] /\ \A j \in DOMAIN c : c[j] = Pong
      BY <1>12, <1>14, <3>1
    <3>3. \A i \in DOMAIN b : b[i] = Cancel
      BY <1>12, <1>14, <3>1
    <3>4. \A i \in DOMAIN d : d[i] # Pong => i = Len(c) + 1 /\ d[i] = r
      BY <1>15, <3>2
    <3>5. \A i \in DOMAIN d : d[i] # Pong =>
            d[i].task = current[w] /\ \A j \in DOMAIN d : d[j] # Pong => j = i
      BY <3>1, <3>2, <3>4
    <3>6. \E i \in DOMAIN d : d[i] # Pong
      BY <1>15, <3>1
    <3> QED  BY <2>1, <3>3, <3>5, <3>6 DEF OneMessage
  <2> QED  BY <2>2, <2>3
<1>17. Messages(thread, current, inbox', outbox')
  <2>1. ASSUME NEW v \in Workers, v # w
        PROVE  /\ thread[v] \in {"loading", "up"} => OneMessage(v, current, inbox', outbox')
               /\ thread[v] # "up" => outbox'[v] = <<>>
    <3>1. /\ thread[v] \in {"loading", "up"} => OneMessage(v, current, inbox, outbox)
          /\ thread[v] # "up" => outbox[v] = <<>>
      BY <1>3 DEF Parts, Messages
    <3>2. inbox'[v] = inbox[v] /\ outbox'[v] = outbox[v]
      BY <1>8, <2>1
    <3> QED  BY <3>1, <3>2, OneMessageOf
  <2> QED  BY <1>1, <1>16, <2>1 DEF Messages
<1>18. Threads(workers, thread, current, inbox', created)
  <2>1. ~(w > created)
    BY <1>1, <1>3 DEF Parts, Threads
  <2> QED  BY <1>3, <1>8, <2>1 DEF Parts, Threads
<1>19. TypeOK'
  BY <1>1, <1>11 DEF IInv, TypeOK, mainVars, taskVars
<1>20. Parts(taskQueue', workers', current', timeoutId', armed', runner', inbox', outbox',
             thread', taskCounter', priority', promise', announced', created')
  BY <1>1, <1>3, <1>17, <1>18 DEF Parts, mainVars, taskVars
<1>21. Attended'
  BY <1>1 DEF IInv, Inv, Attended, QueueIsAttended, mainVars, taskVars
<1> QED  BY <1>19, <1>20, <1>21 DEF IInv, Inv

LEMMA Inductive == IInv /\ [Next]_vars => IInv'
<1> SUFFICES ASSUME IInv, [Next]_vars PROVE IInv'
  OBVIOUS
<1>1. ASSUME NEW p \in Priorities, Calculate(p) PROVE IInv'
  BY <1>1, CalculateKeeps
<1>2. ASSUME NEW t \in Tasks, CancelQueued(t) PROVE IInv'
  BY <1>2, CancelQueuedKeeps
<1>3. ASSUME NEW t \in Tasks, CancelRunning(t) PROVE IInv'
  BY <1>3, CancelRunningKeeps
<1>4. ASSUME NEW t \in Tasks, HandleTaskTimeout(t) PROVE IInv'
  BY <1>4, HandleTaskTimeoutKeeps
<1>5. CASE CancelAll
  BY <1>5, CancelAllKeeps
<1>6. ASSUME NEW w \in Workers, HandleWorkerMessage(w) PROVE IInv'
  BY <1>6, HandleWorkerMessageKeeps
<1>7. ASSUME NEW w \in Workers, HandleWorkerError(w) PROVE IInv'
  BY <1>7, HandleWorkerErrorKeeps
<1>8. CASE Terminate
  BY <1>8, TerminateKeeps
<1>9. ASSUME NEW size \in 1..MaxSize, Resize(size) PROVE IInv'
  BY <1>9, ResizeKeeps
<1>10. ASSUME NEW w \in Workers, Load(w) PROVE IInv'
  BY <1>10, LoadKeeps
<1>11. ASSUME NEW w \in Workers, Respond(w) PROVE IInv'
  BY <1>11, RespondKeeps
<1>12. CASE UNCHANGED vars
  <2>1. UNCHANGED <<mainVars, taskVars, threadVars, announced, events>>
    BY <1>12 DEF vars
  <2>2. TypeOK'
    BY <2>1 DEF IInv, TypeOK, mainVars, taskVars, threadVars
  <2>3. Inv'
    BY <2>1 DEF IInv, Inv, Attended, QueueIsAttended, mainVars, taskVars, threadVars
  <2> QED  BY <2>2, <2>3 DEF IInv
<1> QED
  BY <1>1, <1>2, <1>3, <1>4, <1>5, <1>6, <1>7, <1>8, <1>9, <1>10, <1>11, <1>12 DEF Next

LEMMA Invariant == Spec => []IInv
BY Initial, Inductive, PTL DEF Spec

-----------------------------------------------------------------------------
(* Theorems                                                                 *)

(* Every variable keeps its type: in particular the queue holds tasks only, *)
(* and a worker's messages are tasks, cancels and their answers.            *)
THEOREM TypeCorrect == Spec => []TypeOK
<1>1. IInv => TypeOK
  BY DEF IInv
<1> QED  BY <1>1, Invariant, PTL

(* The queue stays in the order of priority and then of submission, at any  *)
(* length and through every cancel and start (enqueueTask).                 *)
THEOREM QueueOrdered == Spec => []QueueInOrder
<1>1. IInv => QueueInOrder
  BY DEF IInv, Inv, Parts, Queued, Ordered, QueueInOrder
<1> QED  BY <1>1, Invariant, PTL

(* What the pool announces for a task is the answer to that task, although  *)
(* handleWorkerMessage never compares the ids: whatever a worker has under  *)
(* way besides pongs belongs to the task it was given last.                 *)
THEOREM OwnAnswers == Spec => []AnswersAreOwn
<1>1. IInv => AnswersAreOwn
  BY DEF IInv, Inv, Parts, Own, AnswersAreOwn
<1> QED  BY <1>1, Invariant, PTL

(* A result announced is final: no timer is left that would reject the task *)
(* and replace the worker, and none has.                                    *)
THEOREM DoneDisarmed == Spec => []DoneIsDisarmed
<1>1. IInv => DoneIsDisarmed
  BY DEF IInv, Inv, Parts, Done, DoneIsDisarmed
<1> QED  BY <1>1, Invariant, PTL

(* A busy worker of the list has a timer armed, or it is up with its task   *)
(* or the answer under way: it never stays busy with nothing to end it.     *)
THEOREM BusyEnds == Spec => []BusyWillEnd
<1>1. IInv => BusyWillEnd
  <2> SUFFICES ASSUME IInv, NEW w \in workers, current[w] # 0, current[w] \notin armed
               PROVE  /\ thread[w] = "up"
                      /\ \/ current[w] \in Range(inbox[w])
                         \/ \E r \in Range(outbox[w]) : r.task = current[w]
    BY DEF BusyWillEnd
  <2>1. /\ w \in Workers /\ inbox[w] \in Seq(Tasks \cup {Cancel})
        /\ outbox[w] \in Seq(Answers \cup {Pong})
        /\ Messages(thread, current, inbox, outbox)
        /\ Timed(thread, current, armed) /\ Threads(workers, thread, current, inbox, created)
    BY DEF IInv, TypeOK, Inv, Parts
  <2>2. thread[w] = "up"
    BY <2>1 DEF Timed, Threads
  <2>3. OneMessage(w, current, inbox, outbox)
    BY <2>1, <2>2 DEF Messages
  <2>4. CASE \E i \in DOMAIN inbox[w] : inbox[w][i] = current[w]
    BY <2>2, <2>4 DEF Range
  <2>5. CASE \E i \in DOMAIN outbox[w] : outbox[w][i] # Pong
    BY <2>2, <2>3, <2>5 DEF Range, OneMessage
  <2> QED  BY <2>3, <2>4, <2>5 DEF OneMessage
<1> QED  BY <1>1, Invariant, PTL

(* While tasks wait some worker is busy, so that with BusyEnds the queue is *)
(* looked at again, after any number of timeouts, errors and resizes.       *)
THEOREM QueueAttended == Spec => []QueueIsAttended
<1>1. IInv => QueueIsAttended
  BY DEF IInv, Inv, Attended
<1> QED  BY <1>1, Invariant, PTL

-----------------------------------------------------------------------------
(***************************************************************************)
(* ChartStream, for any views, attempts and sockets.                       *)
(*                                                                         *)
(* The invariant beside the types: only the socket of wsRef may be live;   *)
(* the flag of a wanted disconnect means none is; the timers belong to     *)
(* sockets that may be tried again, and so does the live socket unless the *)
(* last render made it.                                                    *)
(***************************************************************************)
ManualIsDown == manual => Live = {}
TimersMayTry == \A s \in armedTimers : closure[s].attempts < MaxAttempts
SocketMayTry ==
  mounted /\ ~effectDue =>
    \A s \in Live : closure[s].attempts < MaxAttempts \/ closure[s] = shown
WillTry ==
  mounted /\ ~effectDue /\ shown.view # Off /\ shown.attempts = attempts /\ Live = {}
    => armedTimers # {} \/ GivenUp

HookIInv == /\ HookTypeOK /\ OneLiveSocket /\ ManualIsDown /\ DisconnectedIsTrue
        /\ TimersMayTry /\ SocketMayTry /\ WillTry

\* close() of wsRef leaves nothing live.
LEMMA CloseEnds ==
  ASSUME HookTypeOK, OneLiveSocket
  PROVE  /\ CloseCurrent \in [Ids -> {"none", "connecting", "open", "aborting", "closing"}]
         /\ \A s \in Ids : CloseCurrent[s] \notin Alive
BY SMT DEF HookTypeOK, OneLiveSocket, Live, Alive, CloseCurrent

\* Keep forgets the closures of gone sockets and leaves the others.
LEMMA KeepKeeps ==
  ASSUME NEW cl \in [Ids -> Contexts], Keep(cl)
  PROVE  /\ closure' \in [Ids -> Contexts]
         /\ \A s \in Ids : sock'[s] # "none" \/ s \in armedTimers' => closure'[s] = cl[s]
BY DEF Keep, Unused, Contexts

\* What connect() establishes.
LEMMA ConnectConnects ==
  ASSUME HookTypeOK, OneLiveSocket, NEW c \in Contexts, NEW timers, NEW held,
         armedTimers' = timers, timers \subseteq armedTimers, Connect(c, timers, held)
  PROVE  /\ wsRef' \in Ids /\ Live' = {wsRef'} /\ manual' = FALSE
         /\ sock' \in [Ids -> {"none", "connecting", "open", "aborting", "closing"}]
         /\ closure' \in [Ids -> Contexts] /\ closure'[wsRef'] = c
         /\ \A s \in timers : closure'[s] = closure[s]
         /\ status' = IF mounted THEN "connecting" ELSE status
<1>1. PICK s \in Ids :
        /\ sock[s] = "none" /\ s \notin timers
        /\ sock' = [CloseCurrent EXCEPT ![s] = "connecting"]
        /\ Keep([closure EXCEPT ![s] = c])
        /\ wsRef' = s /\ manual' = FALSE
        /\ Shows("connecting")
  BY DEF Connect
<1>2. CloseCurrent \in [Ids -> {"none", "connecting", "open", "aborting", "closing"}]
      /\ \A r \in Ids : CloseCurrent[r] \notin Alive
  BY CloseEnds
<1>3. Live' = {s}
  BY <1>1, <1>2 DEF Live, Alive
<1>4. [closure EXCEPT ![s] = c] \in [Ids -> Contexts]
  BY DEF HookTypeOK
<1>5. sock'[s] = "connecting"
  BY <1>1, <1>2
<1>6. /\ closure' \in [Ids -> Contexts]
      /\ \A r \in Ids : sock'[r] # "none" \/ r \in armedTimers' =>
           closure'[r] = [closure EXCEPT ![s] = c][r]
  BY <1>1, <1>4, KeepKeeps
<1>7. closure'[s] = c
  BY <1>5, <1>6 DEF HookTypeOK
<1>8. \A r \in timers : closure'[r] = closure[r]
  BY <1>1, <1>6 DEF HookTypeOK
<1> QED
  BY <1>1, <1>2, <1>3, <1>6, <1>7, <1>8 DEF Shows

\* What disconnect() establishes.
LEMMA DisconnectDisconnects ==
  ASSUME HookTypeOK, OneLiveSocket, armedTimers' \subseteq armedTimers, Disconnect
  PROVE  /\ wsRef' = 0 /\ Live' = {}
         /\ sock' \in [Ids -> {"none", "connecting", "open", "aborting", "closing"}]
         /\ closure' \in [Ids -> Contexts]
         /\ \A s \in armedTimers' : closure'[s] = closure[s]
         /\ status' = IF mounted' /\ mounted THEN "disconnected" ELSE status'
         /\ status' \in {"disconnected", "connecting", "connected", "error"}
<1>1. CloseCurrent \in [Ids -> {"none", "connecting", "open", "aborting", "closing"}]
      /\ \A s \in Ids : CloseCurrent[s] \notin Alive
  BY CloseEnds
<1>2. closure' \in [Ids -> Contexts]
      /\ \A s \in Ids : sock'[s] # "none" \/ s \in armedTimers' => closure'[s] = closure[s]
  BY KeepKeeps DEF Disconnect, HookTypeOK
<1> QED
  BY <1>1, <1>2 DEF Disconnect, Shows, Live, HookTypeOK

LEMMA InitInv == HookInit => HookIInv
<1> SUFFICES ASSUME HookInit PROVE HookIInv
  OBVIOUS
<1>1. Live = {}
  BY DEF HookInit, Live, Alive
<1>2. Unused \in Contexts /\ Now \in Contexts
  BY DEF HookInit, Unused, Now, Contexts
<1>3. HookTypeOK
  BY <1>2 DEF HookInit, HookTypeOK
<1> QED
  BY <1>1, <1>3 DEF HookInit, HookIInv, OneLiveSocket, ManualIsDown, DisconnectedIsTrue,
       TimersMayTry, SocketMayTry, WillTry

\* Ripen keeps its type.
LEMMA RipeArmed == ASSUME Ripen PROVE ripe' \subseteq armedTimers'
BY DEF Ripen

-----------------------------------------------------------------------------
USE DEF HookIInv

LEMMA ChangeViewInv ==
  ASSUME HookIInv, NEW v \in Views \cup {Off}, ChangeView(v)
  PROVE  HookIInv'
BY RipeArmed DEF ChangeView, HookTypeOK, OneLiveSocket, ManualIsDown, DisconnectedIsTrue,
       TimersMayTry, SocketMayTry, WillTry, Live, GivenUp

LEMMA RendersInv ==
  ASSUME HookIInv, Renders
  PROVE  HookIInv'
BY RipeArmed DEF Renders, HookTypeOK, OneLiveSocket, ManualIsDown, DisconnectedIsTrue,
       TimersMayTry, SocketMayTry, WillTry, Live, GivenUp, Now, Contexts

LEMMA RunEffectsInv ==
  ASSUME HookIInv, RunEffects
  PROVE  HookIInv'
<1>1. /\ mounted /\ mounted' = mounted /\ effectDue' = FALSE
      /\ view' = view /\ attempts' = attempts /\ shown' = shown
      /\ armedTimers' = armedTimers \ {timerRef} /\ timerRef' = 0 /\ ripe' \subseteq armedTimers'
  BY RipeArmed DEF RunEffects
<1>2. CASE shown.view = Off
  <2>1. Disconnect
    BY <1>2 DEF RunEffects
  <2>2. /\ wsRef' = 0 /\ Live' = {} /\ manual' = TRUE
        /\ sock' \in [Ids -> {"none", "connecting", "open", "aborting", "closing"}]
        /\ closure' \in [Ids -> Contexts]
        /\ \A s \in armedTimers' : closure'[s] = closure[s]
        /\ status' \in {"disconnected", "connecting", "connected", "error"}
    BY <1>1, <2>1, DisconnectDisconnects DEF Disconnect
  <2> QED
    BY <1>1, <1>2, <2>2 DEF HookTypeOK, OneLiveSocket, ManualIsDown, DisconnectedIsTrue,
       TimersMayTry, SocketMayTry, WillTry
<1>3. CASE shown.view # Off
  <2>1. Connect(shown, armedTimers \ {timerRef}, 0)
    BY <1>3 DEF RunEffects
  <2>2. /\ wsRef' \in Ids /\ Live' = {wsRef'} /\ manual' = FALSE
        /\ sock' \in [Ids -> {"none", "connecting", "open", "aborting", "closing"}]
        /\ closure' \in [Ids -> Contexts] /\ closure'[wsRef'] = shown
        /\ \A s \in armedTimers' : closure'[s] = closure[s]
        /\ status' = "connecting"
    <3>1. shown \in Contexts /\ armedTimers \ {timerRef} \subseteq armedTimers
      BY DEF HookTypeOK
    <3> HIDE DEF HookIInv
    <3>2. HookTypeOK /\ OneLiveSocket
      BY DEF HookIInv
    <3> QED
      BY ONLY <1>1, <2>1, <3>1, <3>2, ConnectConnects
  <2> QED
    BY <1>1, <1>3, <2>2 DEF HookTypeOK, OneLiveSocket, ManualIsDown, DisconnectedIsTrue,
       TimersMayTry, SocketMayTry, WillTry
<1> QED
  BY <1>2, <1>3

LEMMA UnmountInv ==
  ASSUME HookIInv, Unmount
  PROVE  HookIInv'
<1>1. /\ mounted' = FALSE /\ effectDue' = effectDue /\ Disconnect /\ manual' = TRUE
      /\ view' = view /\ attempts' = attempts /\ shown' = shown
      /\ armedTimers' = armedTimers \ {timerRef} /\ timerRef' = 0 /\ ripe' \subseteq armedTimers'
  BY RipeArmed DEF Unmount, Disconnect
<1>2. /\ wsRef' = 0 /\ Live' = {}
      /\ sock' \in [Ids -> {"none", "connecting", "open", "aborting", "closing"}]
      /\ closure' \in [Ids -> Contexts]
      /\ \A s \in armedTimers' : closure'[s] = closure[s]
      /\ status' \in {"disconnected", "connecting", "connected", "error"}
  BY <1>1, DisconnectDisconnects
<1> QED
  BY <1>1, <1>2 DEF HookTypeOK, OneLiveSocket, ManualIsDown, DisconnectedIsTrue,
       TimersMayTry, SocketMayTry, WillTry

LEMMA OpenedInv ==
  ASSUME HookIInv, NEW s \in Ids, Opened(s)
  PROVE  HookIInv'
<1>1. /\ sock[s] = "connecting" /\ sock' = [sock EXCEPT ![s] = "open"]
      /\ status' = IF mounted THEN "connected" ELSE status
      /\ attempts' = IF mounted THEN 0 ELSE attempts
      /\ ripe' \subseteq armedTimers'
      /\ UNCHANGED <<mounted, view, shown, effectDue, wsRef, manual, timerRef, armedTimers, closure>>
  BY RipeArmed DEF Opened, Shows
<1>2. Live' = Live /\ s \in Live
  BY <1>1 DEF Live, Alive, HookTypeOK
<1> QED
  BY <1>1, <1>2 DEF HookTypeOK, OneLiveSocket, ManualIsDown, DisconnectedIsTrue,
       TimersMayTry, SocketMayTry, WillTry

LEMMA ClosedInv ==
  ASSUME HookIInv, NEW s \in Ids, Closed(s)
  PROVE  HookIInv'
<1>1. /\ sock[s] # "none" /\ sock' = [sock EXCEPT ![s] = "none"]
      /\ Keep(closure) /\ ripe' \subseteq armedTimers'
      /\ UNCHANGED <<mounted, view, shown, effectDue, wsRef, manual>>
  BY RipeArmed DEF Closed
<1>2. /\ closure' \in [Ids -> Contexts]
      /\ \A r \in Ids : sock'[r] # "none" \/ r \in armedTimers' => closure'[r] = closure[r]
  BY <1>1, KeepKeeps DEF HookTypeOK
<1>3. Live' = Live \ {s}
  BY <1>1 DEF Live, Alive, HookTypeOK
<1>4. \A r \in Live' : closure'[r] = closure[r]
  BY <1>2 DEF Live, Alive
<1>5. CASE \E failed \in ErrorBefore(s) : ClosedRetry(s, failed)
  <2>1. PICK failed \in ErrorBefore(s) : ClosedRetry(s, failed)
    BY <1>5
  <2>2. /\ ~manual /\ closure[s].attempts < MaxAttempts
        /\ attempts' = IF mounted THEN attempts + 1 ELSE attempts
        /\ armedTimers' = armedTimers \cup {s} /\ timerRef' = s
        /\ status' = IF mounted THEN (IF failed THEN "error" ELSE status) ELSE status
    BY <2>1 DEF ClosedRetry, Shows
  <2>3. HookTypeOK'
    <3>1. status' \in {"disconnected", "connecting", "connected", "error"}
      BY <2>2, Zenon DEF HookTypeOK
    <3>2. attempts' \in Nat
      BY <2>2 DEF HookTypeOK
    <3>3. sock' \in [Ids -> {"none", "connecting", "open", "aborting", "closing"}]
      BY <1>1 DEF HookTypeOK
    <3> QED
      BY <1>1, <1>2, <2>2, <3>1, <3>2, <3>3 DEF HookTypeOK
  <2>4. OneLiveSocket' /\ ManualIsDown' /\ DisconnectedIsTrue'
    BY <1>1, <1>3, <2>2 DEF OneLiveSocket, ManualIsDown, DisconnectedIsTrue
  <2>5. \A r \in armedTimers' : closure'[r] = closure[r]
    BY <1>2, <2>3 DEF HookTypeOK
  <2>6. TimersMayTry' /\ SocketMayTry' /\ WillTry'
    BY <1>1, <1>3, <1>4, <2>2, <2>5 DEF TimersMayTry, SocketMayTry, WillTry
  <2> QED
    BY <2>3, <2>4, <2>6
<1>6. CASE ClosedLast(s)
  <2>1. /\ manual \/ closure[s].attempts >= MaxAttempts
        /\ status' = IF mounted
                     THEN (IF closure[s].attempts >= MaxAttempts THEN "error"
                                                                 ELSE "disconnected")
                     ELSE status
        /\ UNCHANGED <<attempts, armedTimers, timerRef>>
    BY <1>6 DEF ClosedLast, Shows
  <2>2. HookTypeOK' /\ OneLiveSocket' /\ ManualIsDown' /\ TimersMayTry' /\ SocketMayTry'
    BY <1>1, <1>2, <1>3, <1>4, <2>1 DEF HookTypeOK, OneLiveSocket, ManualIsDown,
       TimersMayTry, SocketMayTry
  <2>3. DisconnectedIsTrue'
    BY <1>1, <1>3, <2>1 DEF ManualIsDown, DisconnectedIsTrue
  <2>4. WillTry'
    <3>1. CASE s \notin Live
      BY <1>1, <1>3, <2>1, <3>1 DEF WillTry, GivenUp
    <3>2. CASE s \in Live /\ mounted /\ ~effectDue
      <4>1. closure[s].attempts >= MaxAttempts
        BY <2>1, <3>2 DEF ManualIsDown
      <4>2. closure[s] = shown
        BY <4>1, <3>2, HookAssumption DEF SocketMayTry, HookTypeOK, Contexts
      <4> QED
        BY <1>1, <4>1, <4>2 DEF WillTry, GivenUp
    <3>3. CASE ~(mounted /\ ~effectDue)
      BY <1>1, <3>3 DEF WillTry
    <3> QED
      BY <3>1, <3>2, <3>3
  <2> QED
    BY <2>2, <2>3, <2>4
<1> QED
  BY <1>5, <1>6 DEF Closed

LEMMA TimerFiresInv ==
  ASSUME HookIInv, NEW s \in Ids, TimerFires(s)
  PROVE  HookIInv'
<1>1. /\ s \in armedTimers /\ armedTimers' = armedTimers \ {s} /\ ripe' \subseteq armedTimers'
      /\ Connect(closure[s], armedTimers \ {s}, timerRef)
      /\ UNCHANGED <<mounted, view, attempts, shown, effectDue, timerRef>>
  BY RipeArmed DEF TimerFires, HookTypeOK
<1>2. /\ wsRef' \in Ids /\ Live' = {wsRef'} /\ manual' = FALSE
      /\ sock' \in [Ids -> {"none", "connecting", "open", "aborting", "closing"}]
      /\ closure' \in [Ids -> Contexts] /\ closure'[wsRef'] = closure[s]
      /\ \A r \in armedTimers' : closure'[r] = closure[r]
      /\ status' = IF mounted THEN "connecting" ELSE status
  <2>1. closure[s] \in Contexts /\ armedTimers \ {s} \subseteq armedTimers
    BY DEF HookTypeOK
  <2> HIDE DEF HookIInv
  <2>2. HookTypeOK /\ OneLiveSocket
    BY DEF HookIInv
  <2> QED
    BY ONLY <1>1, <2>1, <2>2, ConnectConnects
<1>3. closure[s].attempts < MaxAttempts
  BY <1>1 DEF TimersMayTry
<1> QED
  BY <1>1, <1>2, <1>3 DEF HookTypeOK, OneLiveSocket, ManualIsDown, DisconnectedIsTrue,
       TimersMayTry, SocketMayTry, WillTry

LEMMA NextInv == HookIInv /\ [HookNext]_hookVars => HookIInv'
<1> SUFFICES ASSUME HookIInv, [HookNext]_hookVars PROVE HookIInv'
  OBVIOUS
<1>1. CASE UNCHANGED hookVars
  BY <1>1 DEF hookVars, HookTypeOK, OneLiveSocket, ManualIsDown, DisconnectedIsTrue,
       TimersMayTry, SocketMayTry, WillTry, Live, GivenUp
<1>2. CASE HookNext
  BY <1>2, ChangeViewInv, RendersInv, RunEffectsInv, UnmountInv, OpenedInv, ClosedInv,
     TimerFiresInv DEF HookNext
<1> QED
  BY <1>1, <1>2

LEMMA HookInvariant == HookSpec => []HookIInv
BY InitInv, NextInv, PTL DEF HookSpec

-----------------------------------------------------------------------------
\* The hook's refs, states and sockets are what HookTypeOK says.
THEOREM HookTypeCorrect == HookSpec => []HookTypeOK
BY HookInvariant, PTL

\* However late closes, renders and timers interleave, the socket of wsRef is
\* the only one that stands or is being made.
THEOREM OneSocket == HookSpec => []OneLiveSocket
BY HookInvariant, PTL

\* A chart that is to stream and has no connection will connect again, or has
\* no tries left.
THEOREM AlwaysPending == HookSpec => []ReconnectPending
<1>1. HookIInv => ReconnectPending
  BY DEF WillTry, ReconnectPending, Settled, Now
<1> QED
  BY <1>1, HookInvariant, PTL

\* A chart that says it is disconnected has no connection.
THEOREM DownIsDown == HookSpec => []DisconnectedIsTrue
BY HookInvariant, PTL
==============================================================================
