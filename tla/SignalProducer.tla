---------------------------- MODULE SignalProducer ----------------------------
(***************************************************************************)
(* ScoredSignalProducer.publish_signals (src/system1/queue_producer) over  *)
(* LocalDurableBackend.                                                    *)
(*                                                                         *)
(* Every producer publishes its batch under one score_run_id, so that      *)
(* calling publish_signals again (after a kill, an exception or success)   *)
(* is a retry with the same idempotency keys.                              *)
(***************************************************************************)
EXTENDS LocalQueue

CONSTANTS Batch,        \* Batch[p]: the signals of p's calls, as keys
          Malformed,    \* signals from which no message can be built
          Invalid,      \* messages that violate the contract
          MaxQueue,     \* MAX_QUEUE_SIZE
          MaxRetries,   \* BACKPRESSURE_MAX_RETRIES
          MaxCalls,     \* bound: calls of publish_signals, of each producer
          MaxFaults     \* bound: kills and write errors

ASSUME BatchAssumption == Batch \in [Producers -> Seq(Keys)]
ASSUME KindAssumption  == Malformed \subseteq Keys /\ Invalid \subseteq Keys
ASSUME SizeAssumption  == /\ {MaxQueue, MaxRetries, MaxFaults} \subseteq Nat
                         /\ MaxCalls \in [Producers -> Nat]

VARIABLES
  call,      \* call[p]: the local variables of p's running call
  calls,     \* calls[p]: calls p has made
  faults     \* kills and write errors so far

vars == <<log, drained, seen, dlq, cache, mutex, pc, call, calls, faults>>

CallLocals ==
  [done      : Nat,                   \* signals of the batch dealt with
   retry     : Nat,                   \* rounds of _await_capacity
   reason    : Reasons \cup {None},   \* why the message is dead-lettered
   before    : Nat,                   \* depth before publish()
   published : Nat,
   deduped   : Nat,
   dead      : Nat]

NewCall ==
  [done |-> 0, retry |-> 0, reason |-> None, before |-> 0,
   published |-> 0, deduped |-> 0, dead |-> 0]

Steps == {"idle", "next", "capacity", "wait", "before", "after", "dead"} \cup PublishSteps

TypeOK ==
  /\ QueueTypeOK(Steps)
  /\ call \in [Producers -> CallLocals]
  /\ \A p \in Producers : call[p].done <= Len(Batch[p])
  /\ calls \in [Producers -> Nat]
  /\ faults \in 0..MaxFaults

Init ==
  /\ QueueInit
  /\ call = [p \in Producers |-> NewCall]
  /\ calls = [p \in Producers |-> 0]
  /\ faults = 0

(* The signal p is working on.                                             *)
Current(p) == Batch[p][call[p].done + 1]

(***************************************************************************)
(* publish_signals                                                         *)
(***************************************************************************)
StartCall(p) ==
  /\ pc[p] = "idle"
  /\ calls[p] < MaxCalls[p]
  /\ calls' = [calls EXCEPT ![p] = @ + 1]
  /\ Goto(p, "next")
  /\ UNCHANGED <<log, drained, seen, dlq, cache, mutex, call, faults>>

DeadLetterNext(p, reason) ==
  /\ call' = [call EXCEPT ![p].reason = reason]
  /\ Goto(p, "dead")

(* build_message, then _validate.                                          *)
TakeSignal(p) ==
  /\ pc[p] = "next"
  /\ call[p].done < Len(Batch[p])
  /\ \/ Current(p) \in Malformed /\ DeadLetterNext(p, "BUILD_ERROR")
     \/ Current(p) \in Invalid \ Malformed /\ DeadLetterNext(p, "SCHEMA_INVALID")
     \/ /\ Current(p) \notin Malformed \cup Invalid
        /\ Goto(p, "capacity")
        /\ UNCHANGED call
  /\ UNCHANGED <<log, drained, seen, dlq, cache, mutex, calls, faults>>

AtCapacity == Depth >= MaxQueue

CheckCapacity(p) ==
  /\ pc[p] = "capacity"
  /\ IF AtCapacity
       THEN /\ call' = [call EXCEPT ![p].retry = 0]
            /\ Goto(p, "wait")
       ELSE Goto(p, "before") /\ UNCHANGED call
  /\ UNCHANGED <<log, drained, seen, dlq, cache, mutex, calls, faults>>

(* Mutant: the loop forgets to count its rounds.                           *)
AwaitCapacityForever(p) ==
  /\ pc[p] = "wait"
  /\ IF ~AtCapacity THEN Goto(p, "before") ELSE UNCHANGED pc
  /\ UNCHANGED <<log, drained, seen, dlq, cache, mutex, call, calls, faults>>

(* Mutant: the answer of _await_capacity is inverted.                       *)
AwaitCapacityInverted(p) ==
  /\ pc[p] = "wait"
  /\ Goto(p, "before")
  /\ UNCHANGED <<log, drained, seen, dlq, cache, mutex, call, calls, faults>>

(* _await_capacity: a check after each of the MaxRetries sleeps, one more  *)
(* at the end.                                                             *)
AwaitCapacity(p) ==
  /\ pc[p] = "wait"
  /\ \/ /\ ~AtCapacity
        /\ Goto(p, "before")
        /\ UNCHANGED call
     \/ /\ AtCapacity
        /\ call[p].retry < MaxRetries
        /\ call' = [call EXCEPT ![p].retry = @ + 1]
        /\ UNCHANGED pc
     \/ /\ AtCapacity
        /\ call[p].retry = MaxRetries
        /\ DeadLetterNext(p, "QUEUE_FULL")
  /\ UNCHANGED <<log, drained, seen, dlq, cache, mutex, calls, faults>>

ReadBefore(p) ==
  /\ pc[p] = "before"
  /\ call' = [call EXCEPT ![p].before = Depth]
  /\ Goto(p, "publish")
  /\ UNCHANGED <<log, drained, seen, dlq, cache, mutex, calls, faults>>

PublishMessage(p) ==
  /\ EnterPublish(p, Current(p)) \/ AppendLog(p, Current(p)) \/ MarkSeen(p, Current(p))
  /\ UNCHANGED <<call, calls, faults>>

(* The depth read again tells a publish from an idempotent no-op.          *)
CountPublished(p) ==
  /\ pc[p] = "after"
  /\ call' = [call EXCEPT ![p].done = @ + 1,
                          ![p].published = @ + (IF Depth > call[p].before THEN 1 ELSE 0),
                          ![p].deduped = @ + (IF Depth > call[p].before THEN 0 ELSE 1)]
  /\ Goto(p, "next")
  /\ UNCHANGED <<log, drained, seen, dlq, cache, mutex, calls, faults>>

(* Mutant: a message that cannot be published is only counted.             *)
DeadLetterDropped(p) ==
  /\ pc[p] = "dead"
  /\ call' = [call EXCEPT ![p].done = @ + 1, ![p].dead = @ + 1]
  /\ Goto(p, "next")
  /\ UNCHANGED <<log, drained, seen, dlq, cache, mutex, calls, faults>>

DeadLetter(p) ==
  /\ pc[p] = "dead"
  /\ AppendDead(p, Current(p), call[p].reason)
  /\ call' = [call EXCEPT ![p].done = @ + 1, ![p].dead = @ + 1]
  /\ Goto(p, "next")
  /\ UNCHANGED <<calls, faults>>

ReturnMetrics(p) ==
  /\ pc[p] = "next"
  /\ call[p].done = Len(Batch[p])
  /\ Goto(p, "idle")
  /\ call' = [call EXCEPT ![p] = NewCall]
  /\ UNCHANGED <<log, drained, seen, dlq, cache, mutex, calls, faults>>

(***************************************************************************)
(* Faults and the consumer                                                 *)
(***************************************************************************)
(* publish() or dead_letter() raises; the entry of the dead-letter log may *)
(* have been written already.                                              *)
PublishRaises(p) ==
  /\ faults < MaxFaults
  /\ faults' = faults + 1
  /\ \/ WriteError(p)
     \/ /\ pc[p] = "dead"
        /\ Goto(p, "idle")
        /\ UNCHANGED <<log, drained, seen, dlq, cache, mutex>>
     \/ /\ pc[p] = "dead"
        /\ Goto(p, "idle")
        /\ AppendDead(p, Current(p), call[p].reason)
  /\ call' = [call EXCEPT ![p] = NewCall]
  /\ UNCHANGED calls

Kill(i) ==
  /\ faults < MaxFaults
  /\ faults' = faults + 1
  /\ KillInstance(i)
  /\ call' = [p \in Producers |-> IF Backend[p] = i THEN NewCall ELSE call[p]]
  /\ UNCHANGED calls

Consume ==
  /\ Drain
  /\ UNCHANGED <<call, calls, faults>>

(***************************************************************************)
(* Specification                                                           *)
(***************************************************************************)
ProducerStep(p) ==
  \/ TakeSignal(p)
  \/ CheckCapacity(p)
  \/ AwaitCapacity(p)
  \/ ReadBefore(p)
  \/ PublishMessage(p)
  \/ CountPublished(p)
  \/ DeadLetter(p)
  \/ ReturnMetrics(p)

Next ==
  \/ \E p \in Producers : StartCall(p) \/ ProducerStep(p) \/ PublishRaises(p)
  \/ \E i \in Instances : Kill(i)
  \/ Consume

Spec == Init /\ [][Next]_vars

(* A call once started keeps running: a thread that can go on is scheduled *)
(* and the sleeps of _await_capacity end.                                  *)
FairSpec == Spec /\ \A p \in Producers : WF_vars(ProducerStep(p))

(***************************************************************************)
(* Safety                                                                  *)
(***************************************************************************)
Copies(key) == Cardinality({n \in DOMAIN log : log[n] = key})

(* Nothing is silently dropped: whatever signal a call has dealt with is   *)
(* in the log or in the dead-letter log, whatever other instances, kills   *)
(* and retries did, also if this call took it for already published.       *)
NothingDropped ==
  \A p \in Producers : \A n \in 1..call[p].done : Batch[p][n] \in Logged \cup Dead

(* An instance appends a key once; only a second instance and a kill or a  *)
(* write error between log and seen file add a copy.                       *)
DuplicatesBounded ==
  \A key \in Keys : Copies(key) <= Cardinality(Instances) + faults

(* Checking the capacity and publishing are two steps: every producer but  *)
(* one may be between them, and no more than that gets past the limit.     *)
OverflowBounded == Depth <= MaxQueue + Cardinality(Producers) - 1

(* A message the contract admits is dead-lettered only after as many       *)
(* messages were published as the queue has room for.                      *)
DeadOnlyWhenFull ==
  \A n \in DOMAIN dlq :
    dlq[n].key \notin Malformed \cup Invalid =>
      dlq[n].reason = "QUEUE_FULL" /\ Len(log) >= MaxQueue

(***************************************************************************)
(* Liveness                                                                *)
(***************************************************************************)

(* Backpressure gives up in the end: every call returns, raises or is      *)
(* killed, also when the queue is full and a mutex holder is killed.       *)
CallsReturn == \A p \in Producers : pc[p] # "idle" ~> pc[p] = "idle"

(***************************************************************************)
(* Said of the code, and not so: TLC refutes each of these (README.md).     *)
(***************************************************************************)

(* publish() of a key that was published before is a no-op.                *)
RepublishIsNoOp == \A key \in Keys : Copies(key) <= 1

(* Backpressure keeps the depth within the bound.                          *)
NeverOverflows == Depth <= MaxQueue
==============================================================================
