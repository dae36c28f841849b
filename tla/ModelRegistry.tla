---------------------------- MODULE ModelRegistry ----------------------------
(***************************************************************************)
(* The model registry of System 1: the storage backend                     *)
(* (src/common/storage) and `serialize.publish`, which uploads a bundle    *)
(* under a timestamped prefix, verifies it, flips latest.json and trims    *)
(* old versions.                                                           *)
(*                                                                         *)
(* Any process in Procs may be inside publish(); one action is one step of *)
(* that function between two effects on shared state.  The module has no   *)
(* Next of its own: Retrain composes these actions with the processes that *)
(* call publish().                                                         *)
(***************************************************************************)
EXTENDS DeploymentGates, FiniteSets

CONSTANTS Procs,      \* processes that may call publish()
          Torn,       \* content of a file a killed writer left half written
          Retain      \* publish(retain): versions kept by the trim

ASSUME RetainAssumption == Retain \in Nat \ {0}
ASSUME TornAssumption   == Torn \notin Candidates \cup {None}

(* The objects of a bundle, in upload order.  Metadata stands for          *)
(* model_metadata.json together with checksums.sha256, which repeats the   *)
(* hashes the metadata records.                                            *)
Hmm      == 1
Weights  == 2
Map      == 3
Metadata == 4
Sources  == {Hmm, Weights, Map}
Files    == Sources \cup {Metadata}

VARIABLES
  clock,     \* UTC time in seconds, the resolution of a bundle version
  work,      \* work[f]: the local source artifact f that training writes
  objects,   \* the backend's objects: a set of records [version, file, blob]
  latest,    \* latest.json: None, or the record written by the last flip
  pc,        \* pc[p]: what process p does next
  pub        \* pub[p]: the local variables of publish() in process p

registryVars == <<clock, work, objects, latest, pc, pub>>

(***************************************************************************)
(* Types                                                                   *)
(***************************************************************************)
Content  == Candidates \cup {Torn}
Checksum == [Sources -> Content \cup {None}]
MetadataBlob == [sums : Checksum, accuracy : Nat \cup {None}]
Object   == [version : Nat, file : Sources, blob : Content \cup {None}]
              \cup [version : Nat, file : {Metadata}, blob : MetadataBlob]
Pointer  == [version : Nat, metadata : MetadataBlob]

ASSUME PointerAssumption == None \notin Pointer

PublishLocals ==
  [version  : Nat,                     \* bundle_version
   file     : 1..5,                    \* next file of the current loop
   sums     : Checksum,                \* artifacts[..]["sha256"], step 1
   sha      : Checksum,                \* local_sha of the sources, step 3
   accuracy : Nat \cup {None},         \* metrics["regime_accuracy"]
   stale    : SUBSET Nat]              \* to_delete still to be deleted

PublishSteps ==
  {"guard", "hash", "rehash", "put", "verify", "cleanup", "flip", "list", "trim"}
PublishEnds == {"published", "failed"}

NoSums == [f \in Sources |-> None]
NoPublish ==
  [version |-> 0, file |-> 1, sums |-> NoSums, sha |-> NoSums,
   accuracy |-> None, stale |-> {}]

RegistryTypeOK(Steps) ==
  /\ clock \in Nat
  /\ work \in [Sources -> Content \cup {None}]
  /\ objects \subseteq Object
  /\ latest \in Pointer \cup {None}
  /\ pc \in [Procs -> Steps]
  /\ pub \in [Procs -> PublishLocals]

RegistryInit ==
  /\ clock = 1
  /\ work = NoSums
  /\ objects = {}
  /\ latest = None
  /\ pc = [p \in Procs |-> "idle"]
  /\ pub = [p \in Procs |-> NoPublish]

(***************************************************************************)
(* The storage backend                                                     *)
(***************************************************************************)
Exists(v, f)    == \E o \in objects : o.version = v /\ o.file = f
Holds(v, f, b)  == [version |-> v, file |-> f, blob |-> b] \in objects
Bundle(v)       == {o \in objects : o.version = v}
Versions        == {o.version : o \in objects}

(* put_object of the GCS backend: if_generation_match=0 makes the check    *)
(* and the creation one step.                                              *)
PutObject(v, f, b) ==
  objects' = objects \cup {[version |-> v, file |-> f, blob |-> b]}

DeletePrefix(v) == objects' = objects \ Bundle(v)

(* regime_accuracy in the live bundle's metadata: None when nothing is     *)
(* live, or the metadata object or the metric is missing.                  *)
LiveAccuracy ==
  LET metas == {o \in objects : o.version = latest.version /\ o.file = Metadata}
  IN  IF latest = None \/ metas = {} THEN None
      ELSE (CHOOSE o \in metas : TRUE).blob.accuracy

(***************************************************************************)
(* publish()                                                               *)
(***************************************************************************)
Goto(p, step) == pc' = [pc EXCEPT ![p] = step]

StagedMetadata(p) == [sums |-> pub[p].sums, accuracy |-> pub[p].accuracy]

(* The bytes process p uploads for file f: a source is read when it is put. *)
LocalBlob(p, f)    == IF f = Metadata THEN StagedMetadata(p) ELSE work[f]
ExpectedBlob(p, f) == IF f = Metadata THEN StagedMetadata(p) ELSE pub[p].sha[f]

(* _guard_inputs: every artifact exists and the map qualifies a strategy.  *)
InputsOK ==
  /\ \A f \in Sources : work[f] # None
  /\ work[Map].qualified > 0

Guard(p) ==
  /\ pc[p] = "guard"
  /\ IF InputsOK
       THEN /\ pub' = [pub EXCEPT ![p].version = clock, ![p].file = Hmm]
            /\ Goto(p, "hash")
       ELSE /\ Goto(p, "failed")
            /\ UNCHANGED pub
  /\ UNCHANGED <<clock, work, objects, latest>>

(* Step 1 hashes the sources one by one.                                   *)
Hash(p) ==
  /\ pc[p] = "hash"
  /\ LET f == pub[p].file IN
       IF f \in Sources
         THEN /\ pub' = [pub EXCEPT ![p].sums[f] = work[f], ![p].file = f + 1]
              /\ UNCHANGED pc
         ELSE /\ pub' = [pub EXCEPT ![p].file = Hmm]
              /\ Goto(p, "rehash")
  /\ UNCHANGED <<clock, work, objects, latest>>

(* The secret scan refuses the bundle; nothing was stored yet.             *)
RefuseSecret(p) ==
  /\ pc[p] = "hash"
  /\ Goto(p, "failed")
  /\ UNCHANGED <<clock, work, objects, latest, pub>>

(* Step 3 hashes every local file again, before the upload.                *)
Rehash(p) ==
  /\ pc[p] = "rehash"
  /\ LET f == pub[p].file IN
       IF f \in Sources
         THEN /\ pub' = [pub EXCEPT ![p].sha[f] = work[f], ![p].file = f + 1]
              /\ UNCHANGED pc
         ELSE /\ pub' = [pub EXCEPT ![p].file = Hmm]
              /\ Goto(p, "put")
  /\ UNCHANGED <<clock, work, objects, latest>>

(* Objects are immutable: an existing key raises FileExistsError.          *)
Put(p) ==
  /\ pc[p] = "put"
  /\ LET f == pub[p].file
         v == pub[p].version
     IN
       IF f \notin Files
         THEN /\ pub' = [pub EXCEPT ![p].file = Hmm]
              /\ Goto(p, "verify")
              /\ UNCHANGED objects
         ELSE IF Exists(v, f)
           THEN /\ Goto(p, "cleanup")
                /\ UNCHANGED <<objects, pub>>
           ELSE /\ PutObject(v, f, LocalBlob(p, f))
                /\ pub' = [pub EXCEPT ![p].file = f + 1]
                /\ UNCHANGED pc
  /\ UNCHANGED <<clock, work, latest>>

(* Step 4: every stored object must hash to what was hashed locally.       *)
Verify(p) ==
  /\ pc[p] = "verify"
  /\ LET f == pub[p].file IN
       IF f \notin Files
         THEN /\ Goto(p, "flip")
              /\ UNCHANGED pub
         ELSE IF Holds(pub[p].version, f, ExpectedBlob(p, f))
           THEN /\ pub' = [pub EXCEPT ![p].file = f + 1]
                /\ UNCHANGED pc
           ELSE /\ Goto(p, "cleanup")
                /\ UNCHANGED pub
  /\ UNCHANGED <<clock, work, objects, latest>>

(* Mutant: the exception is swallowed and the pointer flipped all the same. *)
UploadErrorSwallowed(p) ==
  /\ pc[p] \in {"put", "verify"}
  /\ Goto(p, "flip")
  /\ UNCHANGED <<clock, work, objects, latest, pub>>

(* Any exception of the backend inside the try block.                      *)
UploadError(p) ==
  /\ pc[p] \in {"put", "verify"}
  /\ Goto(p, "cleanup")
  /\ UNCHANGED <<clock, work, objects, latest, pub>>

(* Mutant: a failed publish withdraws the pointer, whatever it names.       *)
CleanupWithdraws(p) ==
  /\ pc[p] = "cleanup"
  /\ DeletePrefix(pub[p].version)
  /\ latest' = None
  /\ Goto(p, "failed")
  /\ UNCHANGED <<clock, work, pub>>

(* The except block: delete the whole prefix, then raise.                  *)
Cleanup(p) ==
  /\ pc[p] = "cleanup"
  /\ DeletePrefix(pub[p].version)
  /\ Goto(p, "failed")
  /\ UNCHANGED <<clock, work, latest, pub>>

(* Step 5: the atomic pointer flip.                                        *)
Flip(p) ==
  /\ pc[p] = "flip"
  /\ latest' = [version |-> pub[p].version, metadata |-> StagedMetadata(p)]
  /\ Goto(p, "list")
  /\ UNCHANGED <<clock, work, objects, pub>>

(* Mutant: the list is sorted newest first.                                 *)
StaleVersionsNewest ==
  {v \in Versions : Cardinality({w \in Versions : w < v}) >= Retain}

(* Step 6: all but the newest Retain of the listed versions.               *)
StaleVersions ==
  {v \in Versions : Cardinality({w \in Versions : w > v}) >= Retain}

ListVersions(p) ==
  /\ pc[p] = "list"
  /\ pub' = [pub EXCEPT ![p].stale = StaleVersions]
  /\ Goto(p, "trim")
  /\ UNCHANGED <<clock, work, objects, latest>>

(* Oldest first; the version just published is never deleted.              *)
TrimVersion(p) ==
  /\ pc[p] = "trim"
  /\ IF pub[p].stale = {}
       THEN /\ Goto(p, "published")
            /\ UNCHANGED <<objects, pub>>
       ELSE \E v \in pub[p].stale :
              /\ \A w \in pub[p].stale : v <= w
              /\ IF v = pub[p].version THEN UNCHANGED objects ELSE DeletePrefix(v)
              /\ pub' = [pub EXCEPT ![p].stale = @ \ {v}]
              /\ UNCHANGED pc
  /\ UNCHANGED <<clock, work, latest>>

(* The flip and the trim are outside the try block: an exception of the    *)
(* backend leaves everything as it is.                                     *)
LateError(p) ==
  /\ pc[p] \in {"flip", "list", "trim"}
  /\ Goto(p, "failed")
  /\ UNCHANGED <<clock, work, objects, latest, pub>>

PublishStep(p) ==
  \/ Guard(p)
  \/ Hash(p)
  \/ Rehash(p)
  \/ Put(p)
  \/ Verify(p)
  \/ Cleanup(p)
  \/ Flip(p)
  \/ ListVersions(p)
  \/ TrimVersion(p)

PublishFault(p) ==
  \/ RefuseSecret(p)
  \/ UploadError(p)
  \/ LateError(p)

(***************************************************************************)
(* The bundle consumers resolve through latest.json                        *)
(***************************************************************************)

(* Every object of the bundle is stored and the sources are the files      *)
(* whose hashes the metadata records.                                      *)
BundleComplete(v, m) ==
  /\ Holds(v, Metadata, m)
  /\ \A f \in Sources : Holds(v, f, m.sums[f])
==============================================================================
