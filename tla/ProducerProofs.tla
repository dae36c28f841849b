---------------------------- MODULE ProducerProofs ----------------------------
(***************************************************************************)
(* Theorems about SignalProducer, for any number of producers, processes,  *)
(* signals, calls, faults and any size of the queue.                       *)
(***************************************************************************)
EXTENDS SignalProducer, FiniteSetTheorems, TLAPS

(***************************************************************************)
(* Types                                                                   *)
(***************************************************************************)

(* A producer past "next" has a signal in hand, and a reason when it is    *)
(* about to dead-letter it.                                                *)
Busy ==
  \A p \in Producers :
    /\ pc[p] \notin {"idle", "next"} => call[p].done < Len(Batch[p])
    /\ pc[p] = "dead" => call[p].reason \in Reasons

(* Inside the mutex the cache has been loaded.                             *)
Loaded ==
  \A p \in Producers : pc[p] \in {"append", "mark"} => cache[Backend[p]] # None

Typed == TypeOK /\ Busy /\ Loaded

LEMMA CurrentIsKey ==
  ASSUME Typed, NEW p \in Producers, pc[p] \notin {"idle", "next"}
  PROVE  Current(p) \in Keys
<1>1. Batch[p] \in Seq(Keys)
  BY BatchAssumption
<1>2. call[p].done \in Nat /\ call[p].done < Len(Batch[p])
  BY DEF Typed, Busy, TypeOK, CallLocals
<1> QED BY <1>1, <1>2 DEF Current

LEMMA TypedInit == Init => Typed
<1> SUFFICES ASSUME Init PROVE Typed
  OBVIOUS
<1>1. NewCall \in CallLocals /\ NewCall.done = 0
  BY DEF NewCall, CallLocals
<1>2. QueueTypeOK(Steps)
  <2>1. log \in Seq(Keys) /\ drained \in 0..Len(log) /\ dlq \in Seq([key : Keys, reason : Reasons])
    BY DEF Init, QueueInit
  <2>2. pc \in [Producers -> Steps] /\ \A p \in Producers : pc[p] = "idle"
    BY DEF Init, QueueInit, Steps
  <2>3. \A p \in Producers : mutex[Backend[p]] # p
    BY NoneAssumption, BackendAssumption DEF Init, QueueInit
  <2> QED BY <2>1, <2>2, <2>3 DEF Init, QueueInit, QueueTypeOK
<1>3. \A p \in Producers : Len(Batch[p]) \in Nat
  BY BatchAssumption
<1> QED BY <1>1, <1>2, <1>3, SizeAssumption DEF Init, QueueInit, Typed, TypeOK, Busy, Loaded

(* A step of p that leaves the queue alone: it moves p and its locals only. *)
LEMMA LocalStep ==
  ASSUME Typed, NEW p \in Producers, NEW step \in Steps \ {"append", "mark"},
         pc[p] \notin {"append", "mark"},
         UNCHANGED <<log, drained, seen, dlq, cache, mutex>>,
         Goto(p, step),
         call' \in [Producers -> CallLocals],
         \A q \in Producers \ {p} : call'[q] = call[q],
         call'[p].done <= Len(Batch[p]),
         step \notin {"idle", "next"} => call'[p].done < Len(Batch[p]),
         step = "dead" => call'[p].reason \in Reasons,
         calls' \in [Producers -> Nat],
         faults' \in 0..MaxFaults
  PROVE  Typed'
<1>1. pc' = [pc EXCEPT ![p] = step] /\ pc \in [Producers -> Steps]
  BY DEF Goto, Typed, TypeOK, QueueTypeOK
<1>2. QueueTypeOK(Steps)'
  BY <1>1, BackendAssumption DEF Typed, TypeOK, QueueTypeOK
<1>3. Busy'
  BY <1>1 DEF Typed, Busy
<1>4. Loaded'
  BY <1>1 DEF Typed, Loaded
<1> QED BY <1>2, <1>3, <1>4 DEF Typed, TypeOK

(* The actions of a producer, one by one.                                  *)
LEMMA TypedStart == ASSUME Typed, NEW p \in Producers, StartCall(p) PROVE Typed'
<1>1. calls' \in [Producers -> Nat]
  BY DEF StartCall, Typed, TypeOK
<1> QED BY <1>1, LocalStep DEF StartCall, Typed, TypeOK, Steps

LEMMA TypedDeadLetterNext ==
  ASSUME Typed, NEW p \in Producers, NEW reason \in Reasons, DeadLetterNext(p, reason)
  PROVE  /\ call' \in [Producers -> CallLocals]
         /\ call'[p].reason = reason /\ call'[p].done = call[p].done
         /\ \A q \in Producers \ {p} : call'[q] = call[q]
         /\ Goto(p, "dead")
<1>1. call \in [Producers -> CallLocals] /\ call[p] \in CallLocals
  BY DEF Typed, TypeOK
<1>2. [call[p] EXCEPT !.reason = reason] \in CallLocals
      /\ [call[p] EXCEPT !.reason = reason].reason = reason
      /\ [call[p] EXCEPT !.reason = reason].done = call[p].done
  BY <1>1 DEF CallLocals
<1>3. call' = [call EXCEPT ![p] = [call[p] EXCEPT !.reason = reason]] /\ Goto(p, "dead")
  BY DEF DeadLetterNext
<1> QED BY <1>1, <1>2, <1>3

LEMMA TypedTake == ASSUME Typed, NEW p \in Producers, TakeSignal(p) PROVE Typed'
<1>1. /\ call \in [Producers -> CallLocals]
      /\ pc[p] = "next" /\ call[p].done < Len(Batch[p])
      /\ UNCHANGED <<log, drained, seen, dlq, cache, mutex, calls, faults>>
  BY DEF TakeSignal, Typed, TypeOK
<1>2. ASSUME NEW reason \in Reasons, DeadLetterNext(p, reason) PROVE Typed'
  BY <1>1, <1>2, TypedDeadLetterNext, LocalStep DEF Typed, TypeOK, Steps
<1>3. CASE Goto(p, "capacity") /\ call' = call
  BY <1>1, <1>3, LocalStep DEF Typed, TypeOK, Steps
<1> QED BY <1>2, <1>3 DEF TakeSignal, Reasons

LEMMA TypedCheck == ASSUME Typed, NEW p \in Producers, CheckCapacity(p) PROVE Typed'
<1>1. /\ call \in [Producers -> CallLocals]
      /\ pc[p] = "capacity" /\ call[p].done < Len(Batch[p])
      /\ UNCHANGED <<log, drained, seen, dlq, cache, mutex, calls, faults>>
  BY DEF CheckCapacity, Typed, TypeOK, Busy
<1>2. /\ call' \in [Producers -> CallLocals] /\ call'[p].done = call[p].done
      /\ \A q \in Producers \ {p} : call'[q] = call[q]
  <2>1. CASE call' = [call EXCEPT ![p].retry = 0]
    <3>1. [call[p] EXCEPT !.retry = 0] \in CallLocals
          /\ [call[p] EXCEPT !.retry = 0].done = call[p].done
      BY <1>1 DEF CallLocals
    <3> QED BY <1>1, <2>1, <3>1
  <2>2. CASE call' = call
    BY <1>1, <2>2
  <2> QED BY <2>1, <2>2 DEF CheckCapacity
<1>3. \E step \in {"wait", "before"} : Goto(p, step)
  BY DEF CheckCapacity
<1> QED BY <1>1, <1>2, <1>3, LocalStep DEF Typed, TypeOK, Steps, PublishSteps

LEMMA TypedAwait == ASSUME Typed, NEW p \in Producers, AwaitCapacity(p) PROVE Typed'
<1>1. /\ call \in [Producers -> CallLocals]
      /\ pc[p] = "wait" /\ call[p].done < Len(Batch[p]) /\ pc \in [Producers -> Steps]
      /\ UNCHANGED <<log, drained, seen, dlq, cache, mutex, calls, faults>>
      /\ call[p] \in CallLocals
  BY DEF AwaitCapacity, Typed, TypeOK, Busy, QueueTypeOK
<1>2. CASE Goto(p, "before") /\ call' = call
  BY <1>1, <1>2, LocalStep DEF Typed, TypeOK, Steps, PublishSteps
<1>3. CASE call' = [call EXCEPT ![p].retry = @ + 1] /\ UNCHANGED pc
  <2>1. /\ call' \in [Producers -> CallLocals] /\ call'[p].done = call[p].done
        /\ \A q \in Producers \ {p} : call'[q] = call[q]
    <3> DEFINE again == call[p].retry + 1
               c == [call[p] EXCEPT !.retry = again]
    <3>1. call' = [call EXCEPT ![p] = c]
      BY <1>3
    <3>2. again \in Nat
      BY <1>1 DEF CallLocals
    <3> HIDE DEF again
    <3>3. c \in CallLocals /\ c.done = call[p].done
      BY <1>1, <3>2 DEF CallLocals
    <3> HIDE DEF c
    <3> QED BY <1>1, <3>1, <3>3
  <2>2. Goto(p, "wait")
    BY <1>1, <1>3 DEF Goto
  <2> QED BY <1>1, <2>1, <2>2, LocalStep DEF Typed, TypeOK, Steps
<1>4. CASE DeadLetterNext(p, "QUEUE_FULL")
  <2>1. "QUEUE_FULL" \in Reasons
    BY DEF Reasons
  <2> QED BY <1>1, <1>4, <2>1, TypedDeadLetterNext, LocalStep DEF Typed, TypeOK, Steps
<1> QED BY <1>2, <1>3, <1>4 DEF AwaitCapacity

LEMMA TypedReadBefore == ASSUME Typed, NEW p \in Producers, ReadBefore(p) PROVE Typed'
<1>1. /\ call \in [Producers -> CallLocals] /\ Depth \in Nat
      /\ pc[p] = "before" /\ call[p].done < Len(Batch[p])
      /\ UNCHANGED <<log, drained, seen, dlq, cache, mutex, calls, faults>>
  BY SMTT(30) DEF ReadBefore, Typed, TypeOK, Busy, QueueTypeOK, Depth
<1>2. /\ call' \in [Producers -> CallLocals] /\ call'[p].done = call[p].done
      /\ \A q \in Producers \ {p} : call'[q] = call[q]
  BY <1>1 DEF ReadBefore, CallLocals
<1>3. Goto(p, "publish")
  BY DEF ReadBefore
<1> QED BY <1>1, <1>2, <1>3, LocalStep DEF Typed, TypeOK, Steps, PublishSteps

LEMMA TypedCount == ASSUME Typed, NEW p \in Producers, CountPublished(p) PROVE Typed'
<1>1. /\ call \in [Producers -> CallLocals] /\ Len(Batch[p]) \in Nat
      /\ pc[p] = "after" /\ call[p].done < Len(Batch[p])
      /\ UNCHANGED <<log, drained, seen, dlq, cache, mutex, calls, faults>>
  BY BatchAssumption DEF CountPublished, Typed, TypeOK, Busy
<1>2. /\ call' \in [Producers -> CallLocals] /\ call'[p].done = call[p].done + 1
      /\ \A q \in Producers \ {p} : call'[q] = call[q]
  BY <1>1, SMTT(30) DEF CountPublished, CallLocals
<1>3. Goto(p, "next") /\ call'[p].done <= Len(Batch[p])
  BY <1>1, <1>2 DEF CountPublished, CallLocals
<1> QED BY <1>1, <1>2, <1>3, LocalStep DEF Typed, TypeOK, Steps

LEMMA TypedReturn == ASSUME Typed, NEW p \in Producers, ReturnMetrics(p) PROVE Typed'
<1>1. /\ call \in [Producers -> CallLocals] /\ Len(Batch[p]) \in Nat
      /\ pc[p] = "next"
      /\ UNCHANGED <<log, drained, seen, dlq, cache, mutex, calls, faults>>
  BY BatchAssumption DEF ReturnMetrics, Typed, TypeOK
<1>2. /\ call' \in [Producers -> CallLocals] /\ call'[p].done = 0
      /\ \A q \in Producers \ {p} : call'[q] = call[q]
  BY <1>1 DEF ReturnMetrics, CallLocals, NewCall
<1>3. Goto(p, "idle") /\ call'[p].done <= Len(Batch[p])
  BY <1>1, <1>2 DEF ReturnMetrics
<1> QED BY <1>1, <1>2, <1>3, LocalStep DEF Typed, TypeOK, Steps

LEMMA TypedEnter ==
  ASSUME Typed, NEW p \in Producers, EnterPublish(p, Current(p)),
         UNCHANGED <<call, calls, faults>>
  PROVE  Typed'
<1> DEFINE i == Backend[p]
<1>1. /\ pc \in [Producers -> Steps] /\ pc[p] = "publish" /\ mutex[i] = None
      /\ mutex \in [Instances -> Producers \cup {None}] /\ i \in Instances
      /\ \A q \in Producers : pc[q] \in {"append", "mark"} <=> mutex[Backend[q]] = q
  BY BackendAssumption DEF EnterPublish, Typed, TypeOK, QueueTypeOK
<1>2. /\ cache' \in [Instances -> (SUBSET Keys) \cup {None}]
      /\ cache'[i] # None
      /\ \A j \in Instances \ {i} : cache'[j] = cache[j]
  BY <1>1, NoneAssumption DEF EnterPublish, Known, Typed, TypeOK, QueueTypeOK
<1>3. CASE Goto(p, "after") /\ UNCHANGED mutex
  <2>1. pc' = [pc EXCEPT ![p] = "after"] /\ mutex' = mutex
    BY <1>3 DEF Goto
  <2>2. pc' \in [Producers -> Steps] /\ \A q \in Producers : pc'[q] \in {"append", "mark"} <=> mutex'[Backend[q]] = q
    BY <1>1, <2>1 DEF Steps, PublishSteps
  <2>3. QueueTypeOK(Steps)'
    BY <1>2, <2>1, <2>2 DEF EnterPublish, Typed, TypeOK, QueueTypeOK
  <2>4. Busy' /\ Loaded'
    BY <1>1, <1>2, <2>1, BackendAssumption DEF Typed, Busy, Loaded
  <2> QED BY <2>3, <2>4 DEF Typed, TypeOK
<1>4. CASE Goto(p, "append") /\ mutex' = [mutex EXCEPT ![i] = p]
  <2>1. pc' = [pc EXCEPT ![p] = "append"] /\ mutex' \in [Instances -> Producers \cup {None}]
    BY <1>1, <1>4 DEF Goto
  <2>2. pc' \in [Producers -> Steps] /\ \A q \in Producers : pc'[q] \in {"append", "mark"} <=> mutex'[Backend[q]] = q
    <3>1. pc' \in [Producers -> Steps] /\ \A q \in Producers : pc'[q] = IF q = p THEN "append" ELSE pc[q]
      BY <1>1, <2>1 DEF Steps, PublishSteps
    <3>2. \A q \in Producers : Backend[q] \in Instances
      BY BackendAssumption
    <3>3. ASSUME NEW q \in Producers PROVE pc'[q] \in {"append", "mark"} <=> mutex'[Backend[q]] = q
      BY <1>1, <1>4, <3>1, <3>2, NoneAssumption
    <3> QED BY <3>1, <3>3
  <2>3. QueueTypeOK(Steps)'
    BY <1>2, <2>1, <2>2 DEF EnterPublish, Typed, TypeOK, QueueTypeOK
  <2>4. Busy' /\ Loaded'
    BY <1>1, <1>2, <2>1, BackendAssumption DEF Typed, Busy, Loaded
  <2> QED BY <2>3, <2>4 DEF Typed, TypeOK
<1> QED BY <1>3, <1>4 DEF EnterPublish

LEMMA TypedAppend ==
  ASSUME Typed, NEW p \in Producers, AppendLog(p, Current(p)), UNCHANGED <<call, calls, faults>>
  PROVE  Typed'
<1>1. /\ pc \in [Producers -> Steps] /\ pc[p] = "append" /\ pc' = [pc EXCEPT ![p] = "mark"]
      /\ mutex' = mutex
      /\ \A q \in Producers : pc[q] \in {"append", "mark"} <=> mutex[Backend[q]] = q
  BY DEF AppendLog, Goto, Typed, TypeOK, QueueTypeOK
<1>2. log' \in Seq(Keys) /\ drained' \in 0..Len(log')
  <2>1. Current(p) \in Keys
    BY <1>1, CurrentIsKey
  <2>2. log \in Seq(Keys) /\ drained \in 0..Len(log) /\ drained' = drained
        /\ log' = Append(log, Current(p))
    BY DEF AppendLog, Typed, TypeOK, QueueTypeOK
  <2> QED BY <2>1, <2>2
<1>3. pc' \in [Producers -> Steps] /\ \A q \in Producers : pc'[q] \in {"append", "mark"} <=> mutex'[Backend[q]] = q
  BY <1>1 DEF Steps, PublishSteps
<1>4. QueueTypeOK(Steps)'
  BY <1>2, <1>3 DEF AppendLog, Typed, TypeOK, QueueTypeOK
<1>5. Busy' /\ Loaded'
  BY <1>1 DEF Typed, Busy, Loaded, AppendLog
<1> QED BY <1>4, <1>5 DEF Typed, TypeOK

(* Leaving the mutex of the process.                                       *)
LEMMA Unlocked ==
  ASSUME Typed, NEW p \in Producers, pc[p] \in {"append", "mark"},
         NEW step \in Steps \ {"append", "mark"}, Goto(p, step),
         mutex' = [mutex EXCEPT ![Backend[p]] = None]
  PROVE  /\ pc' \in [Producers -> Steps]
         /\ mutex' \in [Instances -> Producers \cup {None}]
         /\ \A q \in Producers : pc'[q] \in {"append", "mark"} <=> mutex'[Backend[q]] = q
<1>1. /\ pc \in [Producers -> Steps] /\ mutex \in [Instances -> Producers \cup {None}]
      /\ \A q \in Producers : pc[q] \in {"append", "mark"} <=> mutex[Backend[q]] = q
      /\ pc' = [pc EXCEPT ![p] = step]
      /\ \A q \in Producers : Backend[q] \in Instances
  BY BackendAssumption DEF Goto, Typed, TypeOK, QueueTypeOK
<1>2. ASSUME NEW q \in Producers PROVE pc'[q] \in {"append", "mark"} <=> mutex'[Backend[q]] = q
  BY <1>1, NoneAssumption
<1> QED BY <1>1, <1>2

LEMMA TypedMark ==
  ASSUME Typed, NEW p \in Producers, MarkSeen(p, Current(p)), UNCHANGED <<call, calls, faults>>
  PROVE  Typed'
<1> DEFINE i == Backend[p]
<1>1. /\ pc[p] = "mark" /\ pc' = [pc EXCEPT ![p] = "after"] /\ pc \in [Producers -> Steps]
      /\ Goto(p, "after") /\ mutex' = [mutex EXCEPT ![i] = None]
  BY DEF MarkSeen, Goto, Typed, TypeOK, QueueTypeOK
<1>2. /\ pc' \in [Producers -> Steps]
      /\ mutex' \in [Instances -> Producers \cup {None}]
      /\ \A q \in Producers : pc'[q] \in {"append", "mark"} <=> mutex'[Backend[q]] = q
  BY <1>1, Unlocked DEF Steps, PublishSteps
<1>3. seen' \subseteq Keys
  BY <1>1, CurrentIsKey DEF MarkSeen, Typed, TypeOK, QueueTypeOK
<1>4. /\ cache' \in [Instances -> (SUBSET Keys) \cup {None}]
      /\ \A j \in Instances : cache[j] # None => cache'[j] # None
  <2>1. Current(p) \in Keys
    BY <1>1, CurrentIsKey
  <2>2. /\ cache \in [Instances -> (SUBSET Keys) \cup {None}]
        /\ i \in Instances /\ cache[i] # None
        /\ cache' = [cache EXCEPT ![i] = @ \cup {Current(p)}]
    BY <1>1, BackendAssumption DEF MarkSeen, Typed, TypeOK, QueueTypeOK, Loaded
  <2>3. cache[i] \cup {Current(p)} \in SUBSET Keys
    BY <2>1, <2>2
  <2> QED BY <2>2, <2>3, NoneAssumption
<1>5. QueueTypeOK(Steps)'
  BY <1>2, <1>3, <1>4 DEF MarkSeen, Typed, TypeOK, QueueTypeOK
<1>6. Busy' /\ Loaded'
  BY <1>1, <1>4, BackendAssumption DEF Typed, Busy, Loaded
<1> QED BY <1>5, <1>6 DEF Typed, TypeOK

LEMMA TypedDead == ASSUME Typed, NEW p \in Producers, DeadLetter(p) PROVE Typed'
<1>1. /\ call[p] \in CallLocals /\ call \in [Producers -> CallLocals]
      /\ pc[p] = "dead" /\ call[p].done < Len(Batch[p]) /\ Len(Batch[p]) \in Nat
      /\ pc' = [pc EXCEPT ![p] = "next"] /\ pc \in [Producers -> Steps]
  BY BatchAssumption, SMTT(30) DEF DeadLetter, Goto, Typed, TypeOK, QueueTypeOK, Busy
<1>2. /\ call' \in [Producers -> CallLocals] /\ call'[p].done = call[p].done + 1
      /\ \A q \in Producers \ {p} : call'[q] = call[q]
  BY <1>1 DEF DeadLetter, CallLocals
<1>3. dlq' \in Seq([key : Keys, reason : Reasons])
  <2>1. Current(p) \in Keys /\ call[p].reason \in Reasons
    BY <1>1, CurrentIsKey DEF Typed, Busy
  <2>2. dlq' = Append(dlq, [key |-> Current(p), reason |-> call[p].reason])
    BY DEF DeadLetter, AppendDead
  <2> QED BY <2>1, <2>2 DEF Typed, TypeOK, QueueTypeOK
<1>4. QueueTypeOK(Steps)'
  BY <1>1, <1>3 DEF DeadLetter, AppendDead, Typed, TypeOK, QueueTypeOK, Steps
<1>5. Busy' /\ Loaded'
  BY <1>1, <1>2 DEF DeadLetter, AppendDead, Typed, Busy, Loaded
<1>6. \A q \in Producers : call'[q].done <= Len(Batch[q])
  <2>1. call'[p].done <= Len(Batch[p])
    BY <1>1, <1>2 DEF CallLocals
  <2> QED BY <1>2, <2>1 DEF Typed, TypeOK
<1> QED BY <1>2, <1>4, <1>5, <1>6 DEF DeadLetter, Typed, TypeOK

LEMMA TypedRaises == ASSUME Typed, NEW p \in Producers, PublishRaises(p) PROVE Typed'
<1>1. /\ call' \in [Producers -> CallLocals] /\ call'[p].done = 0
      /\ \A q \in Producers \ {p} : call'[q] = call[q]
      /\ calls' = calls /\ faults' \in 0..MaxFaults
      /\ \A q \in Producers : Len(Batch[q]) \in Nat
  <2>1. NewCall \in CallLocals /\ NewCall.done = 0
    BY DEF NewCall, CallLocals
  <2>2. /\ call \in [Producers -> CallLocals] /\ call' = [call EXCEPT ![p] = NewCall]
        /\ calls' = calls
    BY DEF PublishRaises, Typed, TypeOK
  <2>3. faults' \in 0..MaxFaults
    BY SizeAssumption DEF PublishRaises, Typed, TypeOK
  <2> QED BY <2>1, <2>2, <2>3, BatchAssumption
<1>2. CASE WriteError(p)
  <2>1. /\ pc[p] \in {"append", "mark"} /\ Goto(p, "idle") /\ pc' = [pc EXCEPT ![p] = "idle"]
        /\ mutex' = [mutex EXCEPT ![Backend[p]] = None]
        /\ UNCHANGED <<log, drained, seen, dlq, cache>> /\ pc \in [Producers -> Steps]
    BY <1>2 DEF WriteError, Goto, Typed, TypeOK, QueueTypeOK
  <2>2. /\ pc' \in [Producers -> Steps]
        /\ mutex' \in [Instances -> Producers \cup {None}]
        /\ \A q \in Producers : pc'[q] \in {"append", "mark"} <=> mutex'[Backend[q]] = q
    BY <2>1, Unlocked DEF Steps
  <2>3. QueueTypeOK(Steps)'
    BY <2>1, <2>2 DEF Typed, TypeOK, QueueTypeOK
  <2>4. Busy' /\ Loaded'
    BY <2>1, <1>1 DEF Typed, Busy, Loaded
  <2>5. \A q \in Producers : call'[q].done <= Len(Batch[q])
    BY <1>1 DEF Typed, TypeOK
  <2> QED BY <1>1, <2>3, <2>4, <2>5 DEF Typed, TypeOK
<1>3. CASE /\ pc[p] = "dead" /\ Goto(p, "idle")
           /\ UNCHANGED <<log, drained, seen, dlq, cache, mutex>>
  <2>1. call'[p].done <= Len(Batch[p]) /\ calls' \in [Producers -> Nat]
    BY <1>1 DEF Typed, TypeOK
  <2> QED BY <1>1, <1>3, <2>1, LocalStep DEF Steps
<1>4. CASE /\ pc[p] = "dead" /\ Goto(p, "idle")
           /\ AppendDead(p, Current(p), call[p].reason)
  <2>1. dlq' \in Seq([key : Keys, reason : Reasons])
    <3>1. Current(p) \in Keys /\ call[p].reason \in Reasons
      BY <1>4, CurrentIsKey DEF Typed, Busy
    <3>2. dlq' = Append(dlq, [key |-> Current(p), reason |-> call[p].reason])
      BY <1>4 DEF AppendDead
    <3> QED BY <3>1, <3>2 DEF Typed, TypeOK, QueueTypeOK
  <2>2. pc' = [pc EXCEPT ![p] = "idle"] /\ pc \in [Producers -> Steps]
    BY <1>4 DEF Goto, Typed, TypeOK, QueueTypeOK
  <2>3. QueueTypeOK(Steps)'
    BY <1>4, <2>1, <2>2 DEF AppendDead, Typed, TypeOK, QueueTypeOK, Steps
  <2>4. Busy' /\ Loaded'
    BY <1>1, <1>4, <2>2 DEF AppendDead, Typed, Busy, Loaded
  <2>5. \A q \in Producers : call'[q].done <= Len(Batch[q])
    BY <1>1 DEF Typed, TypeOK
  <2> QED BY <1>1, <2>3, <2>4, <2>5 DEF Typed, TypeOK
<1> QED BY <1>2, <1>3, <1>4 DEF PublishRaises

LEMMA TypedKill == ASSUME Typed, NEW i \in Instances, Kill(i) PROVE Typed'
<1>1. /\ pc' = [p \in Producers |-> IF Backend[p] = i THEN "idle" ELSE pc[p]]
      /\ cache' = [cache EXCEPT ![i] = None] /\ mutex' = [mutex EXCEPT ![i] = None]
      /\ call' = [p \in Producers |-> IF Backend[p] = i THEN NewCall ELSE call[p]]
      /\ UNCHANGED <<log, drained, seen, dlq, calls>> /\ faults' \in 0..MaxFaults
  BY SizeAssumption DEF Kill, KillInstance, Typed, TypeOK
<1>2. NewCall \in CallLocals /\ NewCall.done = 0
      /\ \A p \in Producers : Backend[p] \in Instances /\ Len(Batch[p]) \in Nat
  BY BackendAssumption, BatchAssumption DEF NewCall, CallLocals
<1>3. /\ pc' \in [Producers -> Steps] /\ cache' \in [Instances -> (SUBSET Keys) \cup {None}]
      /\ mutex' \in [Instances -> Producers \cup {None}]
  BY <1>1 DEF Typed, TypeOK, QueueTypeOK, Steps
<1>4. ASSUME NEW p \in Producers PROVE pc'[p] \in {"append", "mark"} <=> mutex'[Backend[p]] = p
  BY <1>1, <1>2, NoneAssumption DEF Typed, TypeOK, QueueTypeOK
<1>5. QueueTypeOK(Steps)'
  BY <1>1, <1>3, <1>4 DEF Typed, TypeOK, QueueTypeOK
<1>6. Busy'
  BY <1>1 DEF Typed, Busy
<1>7. Loaded'
  BY <1>1, <1>2 DEF Typed, TypeOK, QueueTypeOK, Loaded
<1>8. call' \in [Producers -> CallLocals] /\ \A q \in Producers : call'[q].done <= Len(Batch[q])
  BY <1>1, <1>2 DEF Typed, TypeOK
<1> QED BY <1>1, <1>5, <1>6, <1>7, <1>8 DEF Typed, TypeOK

LEMMA TypedConsume == ASSUME Typed, Consume PROVE Typed'
BY DEF Consume, Drain, Typed, TypeOK, QueueTypeOK, Busy, Loaded

LEMMA TypedNext == Typed /\ [Next]_vars => Typed'
<1> SUFFICES ASSUME Typed, [Next]_vars PROVE Typed'
  OBVIOUS
<1>1. ASSUME NEW p \in Producers, ProducerStep(p) PROVE Typed'
  <2>1. CASE PublishMessage(p)
    BY <2>1, TypedEnter, TypedAppend, TypedMark DEF PublishMessage
  <2> QED BY <1>1, <2>1, TypedTake, TypedCheck, TypedAwait, TypedReadBefore, TypedCount,
             TypedDead, TypedReturn DEF ProducerStep
<1>2. CASE UNCHANGED vars
  BY <1>2 DEF vars, Typed, TypeOK, QueueTypeOK, Busy, Loaded
<1> QED BY <1>1, <1>2, TypedStart, TypedRaises, TypedKill, TypedConsume DEF Next

LEMMA AlwaysTyped == Spec => []Typed
BY TypedInit, TypedNext, PTL DEF Spec

(***************************************************************************)
(* Nothing is dropped                                                      *)
(***************************************************************************)

(* What is known as published is in the log, and so is the message of a    *)
(* producer that has appended it or found it known.                        *)
SeenIsLogged ==
  /\ seen \subseteq Logged
  /\ \A i \in Instances : cache[i] # None => cache[i] \subseteq Logged
  /\ \A p \in Producers : pc[p] \in {"mark", "after"} => Current(p) \in Logged

(* A sound message about to be dead-lettered has waited in vain.           *)
WaitedInVain ==
  \A p \in Producers :
    pc[p] = "dead" /\ Current(p) \notin Malformed \cup Invalid =>
      call[p].reason = "QUEUE_FULL" /\ Len(log) >= MaxQueue

Kept == SeenIsLogged /\ NothingDropped /\ WaitedInVain /\ DeadOnlyWhenFull

LEMMA KeptInit == Init => Kept
<1> SUFFICES ASSUME Init PROVE Kept
  OBVIOUS
<1>1. \A p \in Producers : call[p].done = 0
  BY DEF Init, NewCall
<1> QED BY <1>1 DEF Init, QueueInit, Kept, SeenIsLogged, NothingDropped, WaitedInVain, DeadOnlyWhenFull

(* A step of one producer that writes neither log.                         *)
LEMMA KeptMove ==
  ASSUME Typed, Kept, NEW p \in Producers, NEW step, Goto(p, step),
         log' = log, dlq' = dlq,
         seen' \subseteq Logged,
         \A i \in Instances : cache'[i] # None => cache'[i] \subseteq Logged,
         \A q \in Producers \ {p} : call'[q] = call[q],
         step \in {"mark", "after"} => Current(p)' \in Logged,
         \A n \in 1..call'[p].done : Batch[p][n] \in Logged \cup Dead,
         step = "dead" /\ Current(p)' \notin Malformed \cup Invalid =>
           call'[p].reason = "QUEUE_FULL" /\ Len(log) >= MaxQueue
  PROVE  Kept'
<1>1. pc' = [pc EXCEPT ![p] = step] /\ pc \in [Producers -> Steps]
  BY DEF Goto, Typed, TypeOK, QueueTypeOK
<1>2. Logged' = Logged /\ Dead' = Dead
  BY DEF Logged, Dead
<1>3. \A q \in Producers \ {p} : pc'[q] = pc[q] /\ Current(q)' = Current(q)
  BY <1>1 DEF Current
<1>4. SeenIsLogged'
  BY <1>1, <1>2, <1>3 DEF Kept, SeenIsLogged
<1>5. NothingDropped'
  BY <1>2 DEF Kept, NothingDropped
<1>6. WaitedInVain'
  BY <1>1, <1>3 DEF Kept, WaitedInVain
<1>7. DeadOnlyWhenFull'
  BY DEF Kept, DeadOnlyWhenFull
<1> QED BY <1>4, <1>5, <1>6, <1>7 DEF Kept

LEMMA KeptStart == ASSUME Typed, Kept, NEW p \in Producers, StartCall(p) PROVE Kept'
BY KeptMove DEF StartCall, Kept, SeenIsLogged, NothingDropped

(* The reason of a dead letter: the message itself or a full queue.        *)
LEMMA KeptDeadLetterNext ==
  ASSUME Typed, Kept, NEW p \in Producers, NEW reason \in Reasons, DeadLetterNext(p, reason),
         UNCHANGED <<log, seen, dlq, cache>>,
         Current(p) \notin Malformed \cup Invalid => reason = "QUEUE_FULL" /\ Len(log) >= MaxQueue
  PROVE  Kept'
<1>1. /\ call'[p].reason = reason /\ call'[p].done = call[p].done
      /\ \A q \in Producers \ {p} : call'[q] = call[q]
      /\ Goto(p, "dead")
  BY TypedDeadLetterNext
<1>2. Current(p)' = Current(p)
  BY <1>1 DEF Current
<1> QED BY <1>1, <1>2, KeptMove DEF Kept, SeenIsLogged, NothingDropped

LEMMA KeptTake == ASSUME Typed, Kept, NEW p \in Producers, TakeSignal(p) PROVE Kept'
<1>1. UNCHANGED <<log, seen, dlq, cache>>
  BY DEF TakeSignal
<1>2. CASE Current(p) \in Malformed /\ DeadLetterNext(p, "BUILD_ERROR")
  BY <1>1, <1>2, KeptDeadLetterNext DEF Reasons
<1>3. CASE Current(p) \in Invalid \ Malformed /\ DeadLetterNext(p, "SCHEMA_INVALID")
  BY <1>1, <1>3, KeptDeadLetterNext DEF Reasons
<1>4. CASE Goto(p, "capacity") /\ UNCHANGED call
  BY <1>1, <1>4, KeptMove DEF Kept, SeenIsLogged, NothingDropped
<1> QED BY <1>2, <1>3, <1>4 DEF TakeSignal

LEMMA KeptAwait == ASSUME Typed, Kept, NEW p \in Producers, AwaitCapacity(p) PROVE Kept'
<1>1. UNCHANGED <<log, seen, dlq, cache>> /\ pc[p] = "wait"
  BY DEF AwaitCapacity
<1>2. CASE Goto(p, "before") /\ UNCHANGED call
  BY <1>1, <1>2, KeptMove DEF Kept, SeenIsLogged, NothingDropped
<1>3. CASE call' = [call EXCEPT ![p].retry = @ + 1] /\ UNCHANGED pc
  <2>1. \A q \in Producers : call'[q].done = call[q].done
        /\ (q # p => call'[q] = call[q])
    BY <1>3 DEF Typed, TypeOK, CallLocals
  <2>2. Goto(p, "wait")
    BY <1>1, <1>3 DEF Goto, Typed, TypeOK, QueueTypeOK
  <2> QED BY <1>1, <2>1, <2>2, KeptMove DEF Kept, SeenIsLogged, NothingDropped
<1>4. CASE AtCapacity /\ DeadLetterNext(p, "QUEUE_FULL")
  <2>1. Len(log) >= MaxQueue
    BY <1>4, SizeAssumption DEF AtCapacity, Depth, Typed, TypeOK, QueueTypeOK
  <2> QED BY <1>1, <1>4, <2>1, KeptDeadLetterNext DEF Reasons
<1> QED BY <1>2, <1>3, <1>4 DEF AwaitCapacity

LEMMA KeptCheck == ASSUME Typed, Kept, NEW p \in Producers, CheckCapacity(p) PROVE Kept'
<1>1. UNCHANGED <<log, seen, dlq, cache>> /\ pc[p] = "capacity"
  BY DEF CheckCapacity
<1>2. \A q \in Producers : call'[q].done = call[q].done /\ (q # p => call'[q] = call[q])
  <2>1. CASE call' = [call EXCEPT ![p].retry = 0]
    BY <2>1 DEF Typed, TypeOK, CallLocals
  <2>2. CASE call' = call
    BY <2>2
  <2> QED BY <2>1, <2>2 DEF CheckCapacity
<1>3. \E step \in {"wait", "before"} : Goto(p, step)
  BY DEF CheckCapacity
<1> QED BY <1>1, <1>2, <1>3, KeptMove DEF Kept, SeenIsLogged, NothingDropped

LEMMA KeptReadBefore == ASSUME Typed, Kept, NEW p \in Producers, ReadBefore(p) PROVE Kept'
<1>1. \A q \in Producers : call'[q].done = call[q].done /\ (q # p => call'[q] = call[q])
  BY DEF ReadBefore, Typed, TypeOK, CallLocals
<1> QED BY <1>1, KeptMove DEF ReadBefore, Kept, SeenIsLogged, NothingDropped

LEMMA KeptEnter ==
  ASSUME Typed, Kept, NEW p \in Producers, EnterPublish(p, Current(p)), call' = call
  PROVE  Kept'
<1> DEFINE i == Backend[p]
<1>1. Known(i) \subseteq Logged /\ i \in Instances
  BY BackendAssumption DEF Known, Kept, SeenIsLogged
<1>2. UNCHANGED <<log, seen, dlq>> /\ cache' = [cache EXCEPT ![i] = Known(i)]
  BY DEF EnterPublish
<1>3. \A j \in Instances : cache'[j] # None => cache'[j] \subseteq Logged
  BY <1>1, <1>2 DEF Kept, SeenIsLogged, Typed, TypeOK, QueueTypeOK
<1>4. Current(p)' = Current(p)
  BY DEF Current
<1>5. CASE Current(p) \in Known(i) /\ Goto(p, "after")
  BY <1>1, <1>2, <1>3, <1>4, <1>5, KeptMove DEF Kept, SeenIsLogged, NothingDropped
<1>6. CASE Goto(p, "append")
  BY <1>1, <1>2, <1>3, <1>4, <1>6, KeptMove DEF Kept, SeenIsLogged, NothingDropped
<1> QED BY <1>5, <1>6 DEF EnterPublish

LEMMA KeptMark ==
  ASSUME Typed, Kept, NEW p \in Producers, MarkSeen(p, Current(p)), call' = call
  PROVE  Kept'
<1> DEFINE i == Backend[p]
<1>1. pc[p] = "mark" /\ Current(p) \in Logged /\ i \in Instances /\ cache[i] # None
  BY BackendAssumption DEF MarkSeen, Kept, SeenIsLogged, Typed, Loaded
<1>2. /\ log' = log /\ dlq' = dlq /\ seen' = seen \cup {Current(p)} /\ Goto(p, "after")
      /\ cache' = [cache EXCEPT ![i] = @ \cup {Current(p)}]
  BY DEF MarkSeen
<1>3. \A j \in Instances : cache'[j] # None => cache'[j] \subseteq Logged
  BY <1>1, <1>2 DEF Kept, SeenIsLogged, Typed, TypeOK, QueueTypeOK
<1>4. Current(p)' = Current(p)
  BY DEF Current
<1> QED BY <1>1, <1>2, <1>3, <1>4, KeptMove DEF Kept, SeenIsLogged, NothingDropped

(* The log only grows.                                                     *)
LEMMA KeptAppend ==
  ASSUME Typed, Kept, NEW p \in Producers, AppendLog(p, Current(p)), call' = call
  PROVE  Kept'
<1>1. /\ pc[p] = "append" /\ pc' = [pc EXCEPT ![p] = "mark"] /\ pc \in [Producers -> Steps]
      /\ log' = Append(log, Current(p)) /\ UNCHANGED <<seen, dlq, cache>>
  BY DEF AppendLog, Goto, Typed, TypeOK, QueueTypeOK
<1>2. log \in Seq(Keys) /\ Current(p) \in Keys
  BY <1>1, CurrentIsKey DEF Typed, TypeOK, QueueTypeOK
<1>3. Len(log') = Len(log) + 1 /\ DOMAIN log' = 1..Len(log) + 1 /\ log'[Len(log) + 1] = Current(p)
      /\ \A n \in DOMAIN log : n \in DOMAIN log' /\ log'[n] = log[n]
  BY <1>1, <1>2
<1>4. Logged \subseteq Logged' /\ Current(p) \in Logged' /\ Dead' = Dead
  <2>1. Len(log) + 1 \in DOMAIN log'
    BY <1>2, <1>3
  <2> QED BY <1>1, <1>3, <2>1 DEF Logged, Dead
<1>5. \A q \in Producers : Current(q)' = Current(q)
  BY DEF Current
<1>6. SeenIsLogged'
  BY <1>1, <1>4, <1>5 DEF Kept, SeenIsLogged
<1>7. NothingDropped'
  BY <1>4 DEF Kept, NothingDropped
<1>8. WaitedInVain' /\ DeadOnlyWhenFull'
  BY <1>1, <1>2, <1>3, <1>5, SizeAssumption DEF Kept, WaitedInVain, DeadOnlyWhenFull
<1> QED BY <1>6, <1>7, <1>8 DEF Kept

(* A dead letter is written, whatever becomes of the call.                 *)
LEMMA KeptDead ==
  ASSUME Typed, Kept, NEW p \in Producers, pc[p] = "dead",
         NEW step \in {"next", "idle"}, Goto(p, step),
         AppendDead(p, Current(p), call[p].reason),
         \A q \in Producers \ {p} : call'[q] = call[q],
         call'[p].done \in {0, call[p].done + 1}
  PROVE  Kept'
<1>1. /\ pc' = [pc EXCEPT ![p] = step] /\ pc \in [Producers -> Steps]
      /\ dlq' = Append(dlq, [key |-> Current(p), reason |-> call[p].reason])
      /\ UNCHANGED <<log, seen, cache>>
  BY DEF AppendDead, Goto, Typed, TypeOK, QueueTypeOK
<1>2. dlq \in Seq([key : Keys, reason : Reasons]) /\ Current(p) \in Keys
      /\ call[p].reason \in Reasons
  BY CurrentIsKey DEF Typed, TypeOK, QueueTypeOK, Busy
<1> DEFINE entry == [key |-> Current(p), reason |-> call[p].reason]
<1>3. entry \in [key : Keys, reason : Reasons] /\ entry.key = Current(p) /\ entry.reason = call[p].reason
  BY <1>2
<1> HIDE DEF entry
<1>4. /\ DOMAIN dlq = 1..Len(dlq) /\ Len(dlq) \in Nat
      /\ DOMAIN dlq' = 1..Len(dlq) + 1 /\ dlq'[Len(dlq) + 1] = entry
      /\ \A n \in DOMAIN dlq : n \in DOMAIN dlq' /\ dlq'[n] = dlq[n]
  <2>1. dlq' = Append(dlq, entry)
    BY <1>1 DEF entry
  <2> QED BY <1>2, <1>3, <2>1
<1>5. Logged' = Logged /\ Dead \subseteq Dead' /\ Current(p) \in Dead'
  <2>1. Len(dlq) + 1 \in DOMAIN dlq'
    BY <1>4
  <2> QED BY <1>1, <1>3, <1>4, <2>1 DEF Logged, Dead
<1>6. \A q \in Producers \ {p} : pc'[q] = pc[q] /\ Current(q)' = Current(q)
  BY <1>1 DEF Current
<1>7. SeenIsLogged'
  BY <1>1, <1>5, <1>6 DEF Kept, SeenIsLogged
<1>8. NothingDropped'
  <2>1. ASSUME NEW n \in 1..call'[p].done PROVE Batch[p][n] \in Logged' \cup Dead'
    <3>1. call[p].done \in Nat
      BY DEF Typed, TypeOK, CallLocals
    <3>2. n \in 1..call[p].done \/ n = call[p].done + 1
      BY <2>1, <3>1
    <3> QED BY <1>5, <3>2 DEF Kept, NothingDropped, Current
  <2> QED BY <1>5, <2>1 DEF Kept, NothingDropped
<1>9. WaitedInVain'
  BY <1>1, <1>6 DEF Kept, WaitedInVain
<1>10. DeadOnlyWhenFull'
  <2>1. ASSUME NEW n \in DOMAIN dlq', dlq'[n].key \notin Malformed \cup Invalid
        PROVE  dlq'[n].reason = "QUEUE_FULL" /\ Len(log) >= MaxQueue
    <3>1. CASE n \in DOMAIN dlq
      BY <1>4, <2>1, <3>1 DEF Kept, DeadOnlyWhenFull
    <3>2. CASE n = Len(dlq) + 1
      BY <1>3, <1>4, <2>1, <3>2 DEF Kept, WaitedInVain
    <3> QED BY <1>4, <3>1, <3>2
  <2> QED BY <1>1, <2>1 DEF DeadOnlyWhenFull
<1> QED BY <1>7, <1>8, <1>9, <1>10 DEF Kept

LEMMA KeptDeadLetter == ASSUME Typed, Kept, NEW p \in Producers, DeadLetter(p) PROVE Kept'
<1>1. call'[p].done = call[p].done + 1 /\ \A q \in Producers \ {p} : call'[q] = call[q]
  BY DEF DeadLetter, Typed, TypeOK, CallLocals
<1> QED BY <1>1, KeptDead DEF DeadLetter

LEMMA KeptRaises == ASSUME Typed, Kept, NEW p \in Producers, PublishRaises(p) PROVE Kept'
<1>1. call'[p].done = 0 /\ \A q \in Producers \ {p} : call'[q] = call[q]
  BY DEF PublishRaises, NewCall, Typed, TypeOK
<1>2. CASE Goto(p, "idle") /\ UNCHANGED <<log, seen, dlq, cache>>
  BY <1>1, <1>2, KeptMove DEF Kept, SeenIsLogged
<1>3. CASE /\ pc[p] = "dead" /\ Goto(p, "idle")
           /\ AppendDead(p, Current(p), call[p].reason)
  BY <1>1, <1>3, KeptDead
<1> QED BY <1>2, <1>3 DEF PublishRaises, WriteError

(* What was published or found published is in the log when it is counted. *)
LEMMA KeptCount == ASSUME Typed, Kept, NEW p \in Producers, CountPublished(p) PROVE Kept'
<1>1. call'[p].done = call[p].done + 1 /\ \A q \in Producers \ {p} : call'[q] = call[q]
  BY DEF CountPublished, Typed, TypeOK, CallLocals
<1>2. /\ pc[p] = "after" /\ Goto(p, "next") /\ UNCHANGED <<log, seen, dlq, cache>>
      /\ call[p].done \in Nat
  BY DEF CountPublished, Typed, TypeOK, CallLocals
<1>3. ASSUME NEW n \in 1..call'[p].done PROVE Batch[p][n] \in Logged \cup Dead
  <2>1. n \in 1..call[p].done \/ n = call[p].done + 1
    BY <1>1, <1>2, <1>3
  <2> QED BY <1>2, <2>1 DEF Kept, NothingDropped, SeenIsLogged, Current
<1> QED BY <1>1, <1>2, <1>3, KeptMove DEF Kept, SeenIsLogged

LEMMA KeptReturn == ASSUME Typed, Kept, NEW p \in Producers, ReturnMetrics(p) PROVE Kept'
<1>1. call'[p].done = 0 /\ \A q \in Producers \ {p} : call'[q] = call[q]
  BY DEF ReturnMetrics, NewCall, Typed, TypeOK
<1> QED BY <1>1, KeptMove DEF ReturnMetrics, Kept, SeenIsLogged

LEMMA KeptKill == ASSUME Typed, Kept, NEW i \in Instances, Kill(i) PROVE Kept'
<1>1. /\ pc' = [p \in Producers |-> IF Backend[p] = i THEN "idle" ELSE pc[p]]
      /\ cache' = [cache EXCEPT ![i] = None]
      /\ call' = [p \in Producers |-> IF Backend[p] = i THEN NewCall ELSE call[p]]
      /\ UNCHANGED <<log, seen, dlq>>
  BY DEF Kill, KillInstance
<1>2. NewCall.done = 0
  BY DEF NewCall
<1>3. Logged' = Logged /\ Dead' = Dead
  BY <1>1 DEF Logged, Dead
<1>4. \A p \in Producers : pc'[p] # "idle" => Current(p)' = Current(p) /\ call'[p] = call[p] /\ pc'[p] = pc[p]
  BY <1>1 DEF Current
<1>5. SeenIsLogged'
  BY <1>1, <1>3, <1>4, ZenonT(40) DEF Kept, SeenIsLogged, Typed, TypeOK, QueueTypeOK
<1>6. NothingDropped'
  BY <1>1, <1>2, <1>3 DEF Kept, NothingDropped
<1>7. WaitedInVain' /\ DeadOnlyWhenFull'
  BY <1>1, <1>4 DEF Kept, WaitedInVain, DeadOnlyWhenFull
<1> QED BY <1>5, <1>6, <1>7 DEF Kept

LEMMA KeptNext == Typed /\ Kept /\ [Next]_vars => Kept'
<1> SUFFICES ASSUME Typed, Kept, [Next]_vars PROVE Kept'
  OBVIOUS
<1>1. ASSUME NEW p \in Producers, ProducerStep(p) PROVE Kept'
  <2>1. CASE PublishMessage(p)
    BY <2>1, KeptEnter, KeptAppend, KeptMark DEF PublishMessage
  <2> QED BY <1>1, <2>1, KeptTake, KeptCheck, KeptAwait, KeptReadBefore, KeptCount,
             KeptDeadLetter, KeptReturn DEF ProducerStep
<1>2. CASE UNCHANGED <<log, seen, dlq, cache, pc, call>>
  BY <1>2 DEF Kept, SeenIsLogged, NothingDropped, WaitedInVain, DeadOnlyWhenFull, Logged, Dead, Current
<1>3. CASE Consume
  BY <1>2, <1>3 DEF Consume, Drain
<1>4. CASE UNCHANGED vars
  BY <1>2, <1>4 DEF vars
<1> QED BY <1>1, <1>3, <1>4, KeptStart, KeptRaises, KeptKill DEF Next

LEMMA AlwaysKept == Spec => []Kept
BY AlwaysTyped, KeptInit, KeptNext, PTL DEF Spec

(***************************************************************************)
(* The depth of the queue                                                  *)
(***************************************************************************)

(* Those who have found room and not yet appended.                         *)
Passers == {p \in Producers : pc[p] \in {"before", "publish", "append"}}

(* Every producer that has passed the check still counts.                  *)
Room ==
  /\ Depth + Cardinality(Passers) <= MaxQueue + Cardinality(Producers) - 1
  /\ MaxQueue = 0 => Passers = {}

LEMMA PassersFinite ==
  /\ IsFiniteSet(Passers) /\ Cardinality(Passers) \in Nat
  /\ Cardinality(Passers) <= Cardinality(Producers)
  /\ Cardinality(Producers) \in Nat \ {0}
<1>1. Passers \subseteq Producers /\ IsFiniteSet(Producers)
  BY ActorsAssumption DEF Passers
<1>2. Cardinality(Producers) # 0
  BY ActorsAssumption, FS_EmptySet
<1> QED BY <1>1, <1>2, FS_Subset, FS_CardinalityType

LEMMA RoomInit == Init => Room
<1> SUFFICES ASSUME Init PROVE Room
  OBVIOUS
<1>1. Passers = {} /\ Depth = 0
  BY DEF Init, QueueInit, Passers, Depth
<1> QED BY <1>1, PassersFinite, FS_EmptySet, SizeAssumption DEF Room

(* Whoever joins them has seen the queue below its limit.                  *)
LEMMA RoomPass ==
  ASSUME Typed, Room, ~AtCapacity, UNCHANGED <<log, drained>>,
         Passers' \subseteq Producers
  PROVE  Room'
<1>1. Depth' = Depth /\ Depth \in Nat /\ Depth < MaxQueue /\ MaxQueue \in Nat
  BY SizeAssumption DEF AtCapacity, Depth, Typed, TypeOK, QueueTypeOK
<1>2. Cardinality(Passers') \in Nat /\ Cardinality(Passers') <= Cardinality(Producers)
  BY ActorsAssumption, FS_Subset, FS_CardinalityType
<1>3. Cardinality(Producers) \in Nat
  BY PassersFinite
<1> QED BY <1>1, <1>2, <1>3 DEF Room

(* Nobody joins and the depth stays.                                       *)
LEMMA RoomLeave ==
  ASSUME Typed, Room, UNCHANGED <<log, drained>>, Passers' \subseteq Passers
  PROVE  Room'
<1>1. Cardinality(Passers') \in Nat /\ Cardinality(Passers') <= Cardinality(Passers)
  BY PassersFinite, FS_Subset, FS_CardinalityType
<1>2. Depth' = Depth /\ Depth \in Nat
  BY DEF Depth, Typed, TypeOK, QueueTypeOK
<1> QED BY <1>1, <1>2, PassersFinite, SizeAssumption DEF Room

LEMMA RoomAppend ==
  ASSUME Typed, Room, NEW p \in Producers, AppendLog(p, Current(p))
  PROVE  Room'
<1>1. /\ pc[p] = "append" /\ pc' = [pc EXCEPT ![p] = "mark"] /\ pc \in [Producers -> Steps]
      /\ log' = Append(log, Current(p)) /\ drained' = drained
      /\ log \in Seq(Keys) /\ drained \in 0..Len(log)
  BY DEF AppendLog, Goto, Typed, TypeOK, QueueTypeOK
<1>2. Passers' = Passers \ {p} /\ p \in Passers
  BY <1>1 DEF Passers
<1>3. Cardinality(Passers') = Cardinality(Passers) - 1
  BY <1>2, PassersFinite, FS_RemoveElement
<1>4. Depth' = Depth + 1 /\ Depth \in Nat
  BY <1>1 DEF Depth
<1> QED BY <1>2, <1>3, <1>4, PassersFinite, SizeAssumption DEF Room

LEMMA RoomConsume == ASSUME Typed, Room, Consume PROVE Room'
<1>1. Passers' = Passers /\ Depth' = 0
  BY DEF Consume, Drain, Passers, Depth, Typed, TypeOK, QueueTypeOK
<1>2. MaxQueue = 0 => Cardinality(Passers) = 0
  BY FS_EmptySet DEF Room
<1> QED BY <1>1, <1>2, PassersFinite, SizeAssumption DEF Room

LEMMA RoomNext == Typed /\ Room /\ [Next]_vars => Room'
<1> SUFFICES ASSUME Typed, Room, [Next]_vars PROVE Room'
  OBVIOUS
<1>1. ASSUME NEW p \in Producers, NEW step \in {"idle", "next", "capacity", "wait", "mark", "after", "dead"},
             Goto(p, step), UNCHANGED <<log, drained>>
      PROVE  Room'
  BY <1>1, RoomLeave DEF Goto, Passers, Typed, TypeOK, QueueTypeOK
<1>2. ASSUME NEW p \in Producers, Goto(p, "before"), ~AtCapacity, UNCHANGED <<log, drained>>
      PROVE  Room'
  <2>1. Passers' \subseteq Producers
    BY DEF Passers
  <2> QED BY <1>2, <2>1, RoomPass
<1>3. ASSUME NEW p \in Producers, NEW step, Goto(p, step), UNCHANGED <<log, drained>>,
             pc[p] \in {"before", "publish"}
      PROVE  Room'
  BY <1>3, RoomLeave DEF Goto, Passers, Typed, TypeOK, QueueTypeOK
<1>4. CASE UNCHANGED <<log, drained, pc>>
  BY <1>4, RoomLeave DEF Passers
<1>5. ASSUME NEW p \in Producers, TakeSignal(p) \/ CountPublished(p) \/ DeadLetter(p)
             \/ ReturnMetrics(p) \/ StartCall(p) \/ PublishRaises(p)
      PROVE  Room'
  BY <1>1, <1>5 DEF TakeSignal, DeadLetterNext, CountPublished, DeadLetter, AppendDead,
                    ReturnMetrics, StartCall, PublishRaises, WriteError
<1>6. ASSUME NEW p \in Producers, CheckCapacity(p) \/ AwaitCapacity(p) PROVE Room'
  BY <1>1, <1>2, <1>4, <1>6 DEF CheckCapacity, AwaitCapacity, DeadLetterNext
<1>7. ASSUME NEW p \in Producers, ReadBefore(p) \/ EnterPublish(p, Current(p)) PROVE Room'
  BY <1>3, <1>7 DEF ReadBefore, EnterPublish
<1>8. ASSUME NEW p \in Producers, MarkSeen(p, Current(p)) PROVE Room'
  BY <1>1, <1>8 DEF MarkSeen
<1>9. ASSUME NEW i \in Instances, Kill(i) PROVE Room'
  BY <1>9, RoomLeave DEF Kill, KillInstance, Passers
<1>10. CASE UNCHANGED vars
  BY <1>4, <1>10 DEF vars
<1> QED BY <1>5, <1>6, <1>7, <1>8, <1>9, <1>10, RoomAppend, RoomConsume
        DEF Next, ProducerStep, PublishMessage

(***************************************************************************)
(* The copies of a message                                                 *)
(***************************************************************************)

(* The instances that may still append the key: it is news to them, and    *)
(* none of their threads has just appended it.                             *)
Fresh(key) ==
  {i \in Instances :
     /\ key \notin Known(i)
     /\ \A p \in Producers : Backend[p] = i /\ pc[p] = "mark" => Current(p) # key}

News == \A p \in Producers : pc[p] = "append" => Current(p) \notin cache[Backend[p]]

Spent ==
  /\ News
  /\ \A key \in Keys : Copies(key) + Cardinality(Fresh(key)) <= Cardinality(Instances) + faults

LEMMA FreshFinite ==
  ASSUME NEW key
  PROVE  /\ IsFiniteSet(Fresh(key)) /\ Cardinality(Fresh(key)) \in Nat
         /\ Cardinality(Fresh(key)) <= Cardinality(Instances)
         /\ Cardinality(Instances) \in Nat
<1>1. Fresh(key) \subseteq Instances /\ IsFiniteSet(Instances)
  BY ActorsAssumption DEF Fresh
<1> QED BY <1>1, FS_Subset, FS_CardinalityType

LEMMA CopiesFinite ==
  ASSUME Typed, NEW key
  PROVE  IsFiniteSet({n \in DOMAIN log : log[n] = key}) /\ Copies(key) \in Nat
<1>1. {n \in DOMAIN log : log[n] = key} \subseteq 1..Len(log) /\ Len(log) \in Int /\ 1 \in Int
  BY DEF Typed, TypeOK, QueueTypeOK
<1>2. IsFiniteSet(1..Len(log))
  BY <1>1, FS_Interval
<1> QED BY <1>1, <1>2, FS_Subset, FS_CardinalityType DEF Copies

LEMMA SpentInit == Init => Spent
<1> SUFFICES ASSUME Init PROVE Spent
  OBVIOUS
<1>1. ASSUME NEW key PROVE Copies(key) = 0
  <2>1. {n \in DOMAIN log : log[n] = key} = {}
    BY DEF Init, QueueInit
  <2> QED BY <2>1, FS_EmptySet DEF Copies
<1>2. News /\ faults = 0
  BY DEF Init, QueueInit, News
<1> QED BY <1>1, <1>2, FreshFinite DEF Spent

(* A step after which nobody is fresh who was not before.                  *)
LEMMA SpentStay ==
  ASSUME Typed, Spent, log' = log, News', faults' \in Nat, faults' >= faults,
         \A key \in Keys : Fresh(key)' \subseteq Fresh(key)
  PROVE  Spent'
<1>1. ASSUME NEW key \in Keys
      PROVE  Copies(key)' + Cardinality(Fresh(key)') <= Cardinality(Instances) + faults'
  <2>1. Copies(key)' = Copies(key) /\ Copies(key) \in Nat
    BY CopiesFinite DEF Copies
  <2>2. /\ Cardinality(Fresh(key)') \in Nat
        /\ Cardinality(Fresh(key)') <= Cardinality(Fresh(key))
    BY FreshFinite, FS_Subset, FS_CardinalityType
  <2>3. faults \in Nat
    BY DEF Typed, TypeOK
  <2> QED BY <2>1, <2>2, <2>3, FreshFinite DEF Spent
<1> QED BY <1>1 DEF Spent

(* A fault may make one instance fresh again.                              *)
LEMMA SpentFault ==
  ASSUME Typed, Spent, log' = log, News', faults' = faults + 1,
         NEW i \in Instances, \A key \in Keys : Fresh(key)' \subseteq Fresh(key) \cup {i}
  PROVE  Spent'
<1>1. ASSUME NEW key \in Keys
      PROVE  Copies(key)' + Cardinality(Fresh(key)') <= Cardinality(Instances) + faults'
  <2>1. Copies(key)' = Copies(key) /\ Copies(key) \in Nat
    BY CopiesFinite DEF Copies
  <2>2. /\ IsFiniteSet(Fresh(key) \cup {i})
        /\ Cardinality(Fresh(key) \cup {i}) <= Cardinality(Fresh(key)) + 1
        /\ Cardinality(Fresh(key) \cup {i}) \in Nat
    <3>1. Cardinality(Fresh(key)) \in Nat /\ IsFiniteSet(Fresh(key))
      BY FreshFinite
    <3>2. /\ IsFiniteSet(Fresh(key) \cup {i})
          /\ \/ Cardinality(Fresh(key) \cup {i}) = Cardinality(Fresh(key))
             \/ Cardinality(Fresh(key) \cup {i}) = Cardinality(Fresh(key)) + 1
      BY <3>1, FS_AddElement
    <3> QED BY <3>1, <3>2
  <2>3. /\ Cardinality(Fresh(key)') \in Nat
        /\ Cardinality(Fresh(key)') <= Cardinality(Fresh(key) \cup {i})
    BY <2>2, FS_Subset, FS_CardinalityType
  <2>4. faults \in Nat
    BY DEF Typed, TypeOK
  <2> QED BY <2>1, <2>2, <2>3, <2>4, FreshFinite DEF Spent
<1> QED BY <1>1 DEF Spent

(* A step that takes one producer neither into the mutex nor out of it.    *)
LEMMA SpentLocal ==
  ASSUME Typed, Spent, NEW p \in Producers, NEW step, Goto(p, step),
         pc[p] \notin {"append", "mark"}, step \notin {"append", "mark"},
         UNCHANGED <<log, seen, cache>>,
         \A q \in Producers \ {p} : call'[q] = call[q],
         faults' \in {faults, faults + 1}
  PROVE  Spent'
<1>1. pc' = [pc EXCEPT ![p] = step] /\ pc \in [Producers -> Steps] /\ faults \in Nat
  BY DEF Goto, Typed, TypeOK, QueueTypeOK
<1>2. \A q \in Producers \ {p} : pc'[q] = pc[q] /\ Current(q)' = Current(q)
  BY <1>1 DEF Current
<1>3. News'
  BY <1>1, <1>2 DEF Spent, News
<1>4. \A key \in Keys : Fresh(key)' \subseteq Fresh(key)
  BY <1>1, <1>2 DEF Fresh, Known
<1> QED BY <1>1, <1>3, <1>4, SpentStay

LEMMA SpentEnter ==
  ASSUME Typed, Spent, NEW p \in Producers, EnterPublish(p, Current(p)),
         UNCHANGED <<call, faults>>
  PROVE  Spent'
<1> DEFINE i == Backend[p]
<1>1. /\ pc \in [Producers -> Steps] /\ pc[p] = "publish" /\ mutex[i] = None
      /\ i \in Instances /\ cache \in [Instances -> (SUBSET Keys) \cup {None}]
      /\ \A q \in Producers : pc[q] \in {"append", "mark"} => mutex[Backend[q]] = q
      /\ faults \in Nat /\ seen \in SUBSET Keys
      /\ cache' = [cache EXCEPT ![i] = Known(i)] /\ UNCHANGED <<log, seen>>
  BY BackendAssumption DEF EnterPublish, Typed, TypeOK, QueueTypeOK
<1>2. \/ Current(p) \in Known(i) /\ pc' = [pc EXCEPT ![p] = "after"]
      \/ Current(p) \notin Known(i) /\ pc' = [pc EXCEPT ![p] = "append"]
  BY DEF EnterPublish, Goto
<1>3. \A q \in Producers : Current(q)' = Current(q) /\ (q # p => pc'[q] = pc[q])
  BY <1>1, <1>2 DEF Current
<1>4. \A j \in Instances : Known(j)' = Known(j)
  BY <1>1, NoneAssumption DEF Known
<1>5. \A q \in Producers : Backend[q] = i => pc[q] \notin {"append", "mark"}
  BY <1>1, NoneAssumption
<1>6. News'
  <2>1. ASSUME NEW q \in Producers, pc'[q] = "append"
        PROVE  Current(q) \notin cache'[Backend[q]]
    <3>1. CASE q = p
      BY <1>1, <1>2, <2>1, <3>1
    <3>2. CASE q # p
      <4>1. pc[q] = "append" /\ Backend[q] # i /\ Backend[q] \in Instances
        BY <1>3, <1>5, <2>1, <3>2, BackendAssumption
      <4> QED BY <1>1, <4>1 DEF Spent, News
    <3> QED BY <3>1, <3>2
  <2> QED BY <1>3, <2>1 DEF News
<1>7. \A key \in Keys : Fresh(key)' \subseteq Fresh(key)
  BY <1>1, <1>3, <1>4 DEF Fresh
<1> QED BY <1>1, <1>6, <1>7, SpentStay

LEMMA SpentMark ==
  ASSUME Typed, Spent, NEW p \in Producers, MarkSeen(p, Current(p)), UNCHANGED <<call, faults>>
  PROVE  Spent'
<1> DEFINE i == Backend[p]
           k == Current(p)
<1>1. /\ pc[p] = "mark" /\ pc' = [pc EXCEPT ![p] = "after"] /\ pc \in [Producers -> Steps]
      /\ i \in Instances /\ cache \in [Instances -> (SUBSET Keys) \cup {None}]
      /\ cache[i] # None /\ k \in Keys
      /\ \A q \in Producers : pc[q] \in {"append", "mark"} => mutex[Backend[q]] = q
      /\ faults \in Nat /\ seen \in SUBSET Keys
      /\ cache' = [cache EXCEPT ![i] = @ \cup {k}] /\ log' = log /\ seen' = seen \cup {k}
  <2>1. pc[p] = "mark" /\ k \in Keys
    BY CurrentIsKey DEF MarkSeen
  <2> HIDE DEF k
  <2>2. /\ i \in Instances /\ cache[i] # None
    BY <2>1, BackendAssumption DEF Typed, Loaded
  <2>3. /\ pc' = [pc EXCEPT ![p] = "after"] /\ log' = log /\ seen' = seen \cup {k}
        /\ cache' = [cache EXCEPT ![i] = @ \cup {k}]
    BY DEF MarkSeen, Goto, k
  <2> QED BY <2>1, <2>2, <2>3 DEF Typed, TypeOK, QueueTypeOK
<1>2. \A q \in Producers : Current(q)' = Current(q) /\ (q # p => pc'[q] = pc[q])
  BY <1>1 DEF Current
<1> HIDE DEF k
<1>3. \A j \in Instances : Known(j) \subseteq Known(j)' /\ k \in Known(i)'
  <2>1. cache[i] \cup {k} \in SUBSET Keys
    BY <1>1
  <2> QED BY <1>1, <2>1, NoneAssumption DEF Known
<1>4. \A q \in Producers : pc[q] = "append" => Backend[q] # i /\ Backend[q] \in Instances
  BY <1>1, BackendAssumption
<1>5. News'
  BY <1>1, <1>2, <1>4 DEF Spent, News
<1>6. ASSUME NEW key \in Keys, NEW j \in Fresh(key)' PROVE j \in Fresh(key)
  <2>1. j \in Instances /\ key \notin Known(j)'
    BY <1>6 DEF Fresh
  <2>2. ASSUME NEW q \in Producers, Backend[q] = j, pc[q] = "mark" PROVE Current(q) # key
    <3>1. CASE q = p
      BY <1>3, <2>1, <2>2, <3>1 DEF k
    <3>2. CASE q # p
      BY <1>2, <1>6, <2>2, <3>2 DEF Fresh
    <3> QED BY <3>1, <3>2
  <2> QED BY <1>3, <2>1, <2>2 DEF Fresh
<1> QED BY <1>1, <1>5, <1>6, SpentStay

(* The append spends the instance.                                         *)
LEMMA SpentAppend ==
  ASSUME Typed, Spent, NEW p \in Producers, AppendLog(p, Current(p)), UNCHANGED <<call, faults>>
  PROVE  Spent'
<1> DEFINE i == Backend[p]
           At(key) == {n \in DOMAIN log : log[n] = key}
<1>0. PICK k : k = Current(p)
  OBVIOUS
<1>1. /\ pc[p] = "append" /\ pc' = [pc EXCEPT ![p] = "mark"] /\ pc \in [Producers -> Steps]
      /\ i \in Instances /\ cache[i] # None /\ k \in Keys /\ k \notin cache[i]
      /\ \A q \in Producers : pc[q] \in {"append", "mark"} => mutex[Backend[q]] = q
      /\ faults \in Nat
      /\ log' = Append(log, k) /\ log \in Seq(Keys) /\ UNCHANGED <<seen, cache>>
  <2>1. pc[p] = "append" /\ k \in Keys
    BY <1>0, CurrentIsKey DEF AppendLog
  <2>2. i \in Instances /\ cache[i] # None /\ k \notin cache[i]
    BY <1>0, <2>1, BackendAssumption DEF Typed, Loaded, Spent, News
  <2>3. pc' = [pc EXCEPT ![p] = "mark"] /\ log' = Append(log, k) /\ UNCHANGED <<seen, cache>>
    BY <1>0 DEF AppendLog, Goto
  <2> QED BY <2>1, <2>2, <2>3 DEF Typed, TypeOK, QueueTypeOK
<1>2. \A q \in Producers : Current(q)' = Current(q) /\ (q # p => pc'[q] = pc[q])
  BY <1>1 DEF Current
<1>3. News'
  BY <1>1, <1>2 DEF Spent, News
<1>4. \A j \in Instances : Known(j)' = Known(j)
  BY <1>1 DEF Known
<1>5. i \in Fresh(k)
  <2>1. k \notin Known(i)
    BY <1>1 DEF Known
  <2>2. \A q \in Producers : Backend[q] = i /\ pc[q] = "mark" => q = p
    BY <1>1
  <2> QED BY <1>1, <2>1, <2>2 DEF Fresh
<1>6. Fresh(k)' \subseteq Fresh(k) \ {i}
  <2>1. pc'[p] = "mark"
    BY <1>1
  <2>2. i \notin Fresh(k)'
    BY <1>0, <1>2, <2>1 DEF Fresh
  <2>3. Fresh(k)' \subseteq Fresh(k)
    BY <1>1, <1>2, <1>4 DEF Fresh
  <2> QED BY <2>2, <2>3
<1>7. \A key \in Keys \ {k} : Fresh(key)' \subseteq Fresh(key)
  BY <1>0, <1>1, <1>2, <1>4 DEF Fresh
<1>8. /\ DOMAIN log' = 1..Len(log) + 1 /\ log'[Len(log) + 1] = k
       /\ DOMAIN log = 1..Len(log) /\ Len(log) \in Nat
       /\ \A n \in DOMAIN log : log'[n] = log[n]
  BY <1>1
<1>9. At(k)' = At(k) \cup {Len(log) + 1} /\ Len(log) + 1 \notin At(k)
  BY <1>8
<1>10. \A key \in Keys \ {k} : At(key)' = At(key)
  BY <1>8
<1>11. ASSUME NEW key \in Keys PROVE IsFiniteSet(At(key)) /\ Cardinality(At(key)) \in Nat /\ Copies(key) = Cardinality(At(key))
  BY CopiesFinite DEF Copies
<1>12. \A key \in Keys : Copies(key)' = Cardinality(At(key)')
  BY DEF Copies
<1> HIDE DEF At
<1>13. Copies(k)' + Cardinality(Fresh(k)') <= Cardinality(Instances) + faults'
  <2>1. Cardinality(At(k)') = Cardinality(At(k)) + 1
    BY <1>1, <1>9, <1>11, FS_AddElement
  <2>2. Cardinality(Fresh(k) \ {i}) = Cardinality(Fresh(k)) - 1 /\ IsFiniteSet(Fresh(k) \ {i})
    BY <1>5, FreshFinite, FS_RemoveElement
  <2>3. Cardinality(Fresh(k)') <= Cardinality(Fresh(k)) - 1 /\ Cardinality(Fresh(k)') \in Nat
    BY <1>6, <2>2, FS_Subset, FS_CardinalityType
  <2>4. Copies(k) + Cardinality(Fresh(k)) <= Cardinality(Instances) + faults
    BY <1>1 DEF Spent
  <2>5. Copies(k)' = Copies(k) + 1 /\ Copies(k) \in Nat
    BY <1>1, <1>11, <1>12, <2>1
  <2>6. Cardinality(Fresh(k)) \in Nat /\ Cardinality(Instances) \in Nat
    BY FreshFinite
  <2> QED BY <1>1, <2>3, <2>4, <2>5, <2>6
<1>14. ASSUME NEW key \in Keys \ {k}
       PROVE  Copies(key)' + Cardinality(Fresh(key)') <= Cardinality(Instances) + faults'
  <2>1. Copies(key)' = Copies(key) /\ Copies(key) \in Nat
    BY <1>10, <1>11, <1>12
  <2>2. Cardinality(Fresh(key)') <= Cardinality(Fresh(key)) /\ Cardinality(Fresh(key)') \in Nat
    BY <1>7, FreshFinite, FS_Subset, FS_CardinalityType
  <2>3. Copies(key) + Cardinality(Fresh(key)) <= Cardinality(Instances) + faults
    BY DEF Spent
  <2> QED BY <1>1, <2>1, <2>2, <2>3, FreshFinite
<1>15. ASSUME NEW key \in Keys
       PROVE  Copies(key)' + Cardinality(Fresh(key)') <= Cardinality(Instances) + faults'
  <2>1. CASE key = k
    BY <1>13, <2>1
  <2>2. CASE key # k
    BY <1>14, <2>2
  <2> QED BY <2>1, <2>2
<1> QED BY <1>3, <1>15 DEF Spent

LEMMA SpentKill == ASSUME Typed, Spent, NEW i \in Instances, Kill(i) PROVE Spent'
<1>1. /\ pc' = [p \in Producers |-> IF Backend[p] = i THEN "idle" ELSE pc[p]]
      /\ cache' = [cache EXCEPT ![i] = None]
      /\ call' = [p \in Producers |-> IF Backend[p] = i THEN NewCall ELSE call[p]]
      /\ UNCHANGED <<log, seen>> /\ faults' = faults + 1
      /\ cache \in [Instances -> (SUBSET Keys) \cup {None}]
      /\ \A p \in Producers : Backend[p] \in Instances
  BY BackendAssumption DEF Kill, KillInstance, Typed, TypeOK, QueueTypeOK
<1>2. \A p \in Producers : Backend[p] # i => Current(p)' = Current(p) /\ pc'[p] = pc[p]
  BY <1>1 DEF Current
<1>3. News'
  BY <1>1, <1>2 DEF Spent, News
<1>4. \A j \in Instances \ {i} : Known(j)' = Known(j)
  BY <1>1 DEF Known
<1>5. \A key \in Keys : Fresh(key)' \subseteq Fresh(key) \cup {i}
  BY <1>2, <1>4 DEF Fresh
<1> QED BY <1>1, <1>3, <1>5, SpentFault

LEMMA SpentRaises == ASSUME Typed, Spent, NEW p \in Producers, PublishRaises(p) PROVE Spent'
<1>1. faults' = faults + 1 /\ \A q \in Producers \ {p} : call'[q] = call[q]
  BY DEF PublishRaises, Typed, TypeOK
<1>2. CASE WriteError(p)
  <2>1. /\ pc' = [pc EXCEPT ![p] = "idle"] /\ pc \in [Producers -> Steps]
        /\ UNCHANGED <<log, seen, cache>> /\ Backend[p] \in Instances
    BY <1>2, BackendAssumption DEF WriteError, Goto, Typed, TypeOK, QueueTypeOK
  <2>2. \A q \in Producers \ {p} : pc'[q] = pc[q] /\ Current(q)' = Current(q)
    BY <1>1, <2>1 DEF Current
  <2>3. News'
    BY <2>1, <2>2 DEF Spent, News
  <2>4. \A key \in Keys : Fresh(key)' \subseteq Fresh(key) \cup {Backend[p]}
    BY <2>1, <2>2 DEF Fresh, Known
  <2> QED BY <1>1, <2>1, <2>3, <2>4, SpentFault
<1>3. CASE pc[p] = "dead" /\ Goto(p, "idle") /\ UNCHANGED <<log, seen, cache>>
  BY <1>1, <1>3, SpentLocal
<1> QED BY <1>2, <1>3 DEF PublishRaises, AppendDead

LEMMA SpentNext == Typed /\ Spent /\ [Next]_vars => Spent'
<1> SUFFICES ASSUME Typed, Spent, [Next]_vars PROVE Spent'
  OBVIOUS
<1>1. CASE UNCHANGED <<log, seen, cache, pc, call, faults>>
  <2>1. News' /\ \A key \in Keys : Fresh(key)' \subseteq Fresh(key)
    BY <1>1 DEF Spent, News, Fresh, Known, Current
  <2> QED BY <1>1, <2>1, SpentStay DEF Typed, TypeOK
<1>2. ASSUME NEW p \in Producers, TakeSignal(p) \/ CheckCapacity(p) \/ AwaitCapacity(p)
      PROVE  Spent'
  <2>1. \A q \in Producers \ {p} : call'[q] = call[q]
    BY <1>2 DEF TakeSignal, CheckCapacity, AwaitCapacity, DeadLetterNext, Typed, TypeOK
  <2>2. /\ UNCHANGED <<log, seen, cache, faults>>
        /\ pc[p] \in {"next", "capacity", "wait"}
    BY <1>2 DEF TakeSignal, CheckCapacity, AwaitCapacity
  <2>3. \E step \in {"dead", "capacity", "wait", "before"} : Goto(p, step)
    <3>1. CASE UNCHANGED pc /\ pc[p] = "wait"
      BY <3>1 DEF Goto, Typed, TypeOK, QueueTypeOK
    <3> QED BY <1>2, <3>1 DEF TakeSignal, CheckCapacity, AwaitCapacity, DeadLetterNext
  <2> QED BY <2>1, <2>2, <2>3, SpentLocal
<1>3. ASSUME NEW p \in Producers, StartCall(p) \/ ReadBefore(p) \/ CountPublished(p)
             \/ DeadLetter(p) \/ ReturnMetrics(p)
      PROVE  Spent'
  <2>1. \A q \in Producers \ {p} : call'[q] = call[q]
    BY <1>3 DEF StartCall, ReadBefore, CountPublished, DeadLetter, ReturnMetrics, Typed, TypeOK
  <2> QED BY <1>3, <2>1, SpentLocal
          DEF StartCall, ReadBefore, CountPublished, DeadLetter, AppendDead, ReturnMetrics
<1>4. CASE Consume
  BY <1>1, <1>4 DEF Consume, Drain
<1>5. CASE UNCHANGED vars
  BY <1>1, <1>5 DEF vars
<1> QED BY <1>2, <1>3, <1>4, <1>5, SpentEnter, SpentAppend, SpentMark, SpentRaises, SpentKill
        DEF Next, ProducerStep, PublishMessage

LEMMA AlwaysRoomAndSpent == Spec => [](Room /\ Spent)
BY AlwaysTyped, RoomInit, RoomNext, SpentInit, SpentNext, PTL DEF Spec

(***************************************************************************)
(* The theorems                                                            *)
(***************************************************************************)

(* Every reachable state is well typed (SignalProducer.TypeOK).            *)
THEOREM TypeCorrect == Spec => []TypeOK
<1>1. Typed => TypeOK
  BY DEF Typed
<1> QED BY <1>1, AlwaysTyped, PTL

(* Nothing is silently dropped: whatever a call has dealt with is in one   *)
(* of the two logs (publish_signals).                                      *)
THEOREM Durable == Spec => []NothingDropped
<1>1. Kept => NothingDropped
  BY DEF Kept
<1> QED BY <1>1, AlwaysKept, PTL

(* A message the contract admits is dead-lettered only when the queue has  *)
(* been full (_await_capacity).                                            *)
THEOREM DeadLettersDeserved == Spec => []DeadOnlyWhenFull
<1>1. Kept => DeadOnlyWhenFull
  BY DEF Kept
<1> QED BY <1>1, AlwaysKept, PTL

(* The limit is exceeded by less than there are producers: the check and   *)
(* the append are two steps (at_capacity, publish).                        *)
THEOREM DepthBounded == Spec => []OverflowBounded
<1>1. Typed /\ Room => OverflowBounded
  <2> SUFFICES ASSUME Typed, Room PROVE OverflowBounded
    OBVIOUS
  <2>1. Depth \in Int
    BY DEF Depth, Typed, TypeOK, QueueTypeOK
  <2> QED BY <2>1, PassersFinite, SizeAssumption DEF Room, OverflowBounded
<1> QED BY <1>1, AlwaysTyped, AlwaysRoomAndSpent, PTL

(* The log holds a message at most once per process and once more per      *)
(* fault (the seen file and its cache).                                    *)
THEOREM CopiesBoundedByFaults == Spec => []DuplicatesBounded
<1>1. Typed /\ Spent => DuplicatesBounded
  <2> SUFFICES ASSUME Typed, Spent, NEW key \in Keys
               PROVE  Copies(key) <= Cardinality(Instances) + faults
    BY DEF DuplicatesBounded
  <2>1. Copies(key) \in Nat
    BY CopiesFinite
  <2>2. faults \in Nat
    BY DEF Typed, TypeOK
  <2> QED BY <2>1, <2>2, FreshFinite DEF Spent
<1> QED BY <1>1, AlwaysTyped, AlwaysRoomAndSpent, PTL
===============================================================================
