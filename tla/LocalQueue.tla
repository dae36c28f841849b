------------------------------ MODULE LocalQueue ------------------------------
(***************************************************************************)
(* LocalDurableBackend (src/common/queue): a queue in the file system.     *)
(*                                                                         *)
(* An instance of the class belongs to one operating-system process; it    *)
(* has a mutex for its threads and a cache of the keys it has seen.  The   *)
(* log, the seen file and the dead-letter log are shared by all instances. *)
(* publish() is three steps, because a kill or another instance may come   *)
(* between reading the seen keys, appending to the log and recording the   *)
(* key.  A message is named by its idempotency key.                        *)
(***************************************************************************)
EXTENDS Naturals, Sequences, FiniteSets

CONSTANTS Producers,   \* threads that publish
          Instances,   \* backend objects, one per process
          Backend,     \* Backend[p]: the instance thread p uses
          Keys,        \* idempotency keys
          None         \* Python's None: no value

ASSUME BackendAssumption == Backend \in [Producers -> Instances]
ASSUME ActorsAssumption  ==
  IsFiniteSet(Producers) /\ Producers # {} /\ IsFiniteSet(Instances)
ASSUME NoneAssumption    == None \notin Producers /\ \A S \in SUBSET Keys : S # None

VARIABLES
  log,      \* log.jsonl: the keys of the published messages, in order, and
            \* of those a consumer has taken away
  drained,  \* how many of them a consumer has taken away
  seen,     \* seen.txt
  dlq,      \* the dead-letter log: records [key, reason]
  cache,    \* cache[i]: _seen_cache of instance i, None until it is loaded
  mutex,    \* mutex[i]: the thread inside instance i's lock, or None
  pc        \* pc[p]: what thread p does next

queueVars == <<log, drained, seen, dlq, cache, mutex, pc>>

Reasons == {"BUILD_ERROR", "SCHEMA_INVALID", "QUEUE_FULL"}
PublishSteps == {"publish", "append", "mark"}

QueueTypeOK(Steps) ==
  /\ log \in Seq(Keys)
  /\ drained \in 0..Len(log)
  /\ seen \subseteq Keys
  /\ dlq \in Seq([key : Keys, reason : Reasons])
  /\ cache \in [Instances -> (SUBSET Keys) \cup {None}]
  /\ mutex \in [Instances -> Producers \cup {None}]
  /\ pc \in [Producers -> Steps]
  /\ \A p \in Producers : pc[p] \in {"append", "mark"} <=> mutex[Backend[p]] = p

QueueInit ==
  /\ log = <<>>
  /\ drained = 0
  /\ seen = {}
  /\ dlq = <<>>
  /\ cache = [i \in Instances |-> None]
  /\ mutex = [i \in Instances |-> None]
  /\ pc = [p \in Producers |-> "idle"]

Goto(p, step) == pc' = [pc EXCEPT ![p] = step]

Logged == {log[n] : n \in DOMAIN log}
Dead   == {dlq[n].key : n \in DOMAIN dlq}

(* depth() counts the lines that are in the file.                          *)
Depth == Len(log) - drained

(* _load_seen: the file is read once per instance.                         *)
Known(i) == IF cache[i] = None THEN seen ELSE cache[i]

(* publish() enters the mutex; a key already seen is confirmed at once.    *)
EnterPublish(p, key) ==
  LET i == Backend[p] IN
  /\ pc[p] = "publish"
  /\ mutex[i] = None
  /\ cache' = [cache EXCEPT ![i] = Known(i)]
  /\ IF key \in Known(i)
       THEN Goto(p, "after") /\ UNCHANGED mutex
       ELSE Goto(p, "append") /\ mutex' = [mutex EXCEPT ![i] = p]
  /\ UNCHANGED <<log, drained, seen, dlq>>

(* The line is written and synced: from here on the message is durable.    *)
AppendLog(p, key) ==
  /\ pc[p] = "append"
  /\ log' = Append(log, key)
  /\ Goto(p, "mark")
  /\ UNCHANGED <<drained, seen, dlq, cache, mutex>>

(* Mutant: the key is not added to the cache.                              *)
MarkSeenFileOnly(p, key) ==
  LET i == Backend[p] IN
  /\ pc[p] = "mark"
  /\ seen' = seen \cup {key}
  /\ mutex' = [mutex EXCEPT ![i] = None]
  /\ Goto(p, "after")
  /\ UNCHANGED <<log, drained, dlq, cache>>

(* Only then the key goes to the seen file and to the cache.               *)
MarkSeen(p, key) ==
  LET i == Backend[p] IN
  /\ pc[p] = "mark"
  /\ seen' = seen \cup {key}
  /\ cache' = [cache EXCEPT ![i] = @ \cup {key}]
  /\ mutex' = [mutex EXCEPT ![i] = None]
  /\ Goto(p, "after")
  /\ UNCHANGED <<log, drained, dlq>>

(* Writing the log or the seen file raises: the mutex is left, the caller  *)
(* gets the exception and the instance lives on with its cache.            *)
WriteError(p) ==
  /\ pc[p] \in {"append", "mark"}
  /\ mutex' = [mutex EXCEPT ![Backend[p]] = None]
  /\ Goto(p, "idle")
  /\ UNCHANGED <<log, drained, seen, dlq, cache>>

(* dead_letter() publishes under a key of its own (it holds a timestamp),  *)
(* so the entry is always new.                                             *)
AppendDead(p, key, reason) ==
  /\ mutex[Backend[p]] = None
  /\ dlq' = Append(dlq, [key |-> key, reason |-> reason])
  /\ UNCHANGED <<log, drained, seen, cache, mutex>>

(* Only a consumer outside the repository empties the log; the keys it has *)
(* taken stay in the seen file.                                            *)
Drain ==
  /\ Depth > 0
  /\ drained' = Len(log)
  /\ UNCHANGED <<log, seen, dlq, cache, mutex, pc>>

(* The process of instance i is killed with all its threads.               *)
KillInstance(i) ==
  /\ \E p \in Producers : Backend[p] = i /\ pc[p] # "idle"
  /\ pc' = [p \in Producers |-> IF Backend[p] = i THEN "idle" ELSE pc[p]]
  /\ cache' = [cache EXCEPT ![i] = None]
  /\ mutex' = [mutex EXCEPT ![i] = None]
  /\ UNCHANGED <<log, drained, seen, dlq>>
==============================================================================
