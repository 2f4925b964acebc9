--------------------------- MODULE RegistryProofs ---------------------------
(***************************************************************************)
(* Theorems about module Registry, for every choice of its constants: the  *)
(* types, and the integrity of what pushes leave in the storage.           *)
(***************************************************************************)
EXTENDS Registry, TLAPS

-----------------------------------------------------------------------------
(***************************************************************************)
(* Types.                                                                  *)
(***************************************************************************)

\* A job that is loaded for an item has the type of a job.
LEMMA LoadType ==
    ASSUME NEW kind \in Kinds, NEW items \in Seq(Item) \ {<<>>},
           NEW given \in SUBSET CommitIDs
    PROVE  /\ Load(kind, items, given) \in Job
           /\ Load(kind, items, given).items = items
           /\ Load(kind, items, given).todo = Head(items).files
           /\ Load(kind, items, given).deps = {}
           /\ Load(kind, items, given).blob = {}
           /\ Head(items) \in Item
<1>1. Head(items) \in Item
  OBVIOUS
<1>2. Main \in LabelNames
  BY RegistryAssumption DEF RegistryAssumption
<1> QED
  BY <1>1, <1>2 DEF Load, NoJob, Job, Item, CommitIDs, Manifests

\* The stage at which an item starts is never "idle".
LEMMA StartStageType ==
    ASSUME NEW kind \in Kinds, NEW item \in Item
    PROVE  StartStage(kind, item) \in {"resolve", "getModule", "getOwner", "delGet"}
BY DEF StartStage, FirstStage, Kinds

\* Moving on with a job of the right type keeps the types.
LEMMA BecomeType ==
    ASSUME LocalTypeOK, NEW r \in Requests, NEW stage \in Stages,
           NEW j \in Job, j.items # <<>>, Become(r, stage, j)
    PROVE  LocalTypeOK'
BY DEF LocalTypeOK, Become

\* So does ending a request.
LEMMA FinishType ==
    ASSUME LocalTypeOK, NEW r \in Requests, NEW result \in {"ok", "error"},
           Finish(r, result)
    PROVE  LocalTypeOK'
<1>1. NoJob \in Job
  BY DEF NoJob, Job, Kinds, CommitIDs, Manifests
<1> QED
  BY <1>1 DEF LocalTypeOK, Finish, Stages

\* And going on to the next item, or answering after the last.
LEMMA EndItemType ==
    ASSUME LocalTypeOK, NEW r \in Requests, pc[r] # "idle", NEW result,
           EndItem(r, result)
    PROVE  LocalTypeOK'
<1> DEFINE rest == Tail(job[r].items)
<1>1. job[r] \in Job /\ job[r].items \in Seq(Item) /\ job[r].items # <<>>
  BY DEF LocalTypeOK, Job
<1>2. rest \in Seq(Item)
  BY <1>1
<1>3. CASE rest = <<>>
  BY <1>3, FinishType DEF EndItem
<1>4. CASE rest # <<>>
  <2>1. Load(job[r].kind, rest, job[r].given) \in Job
    BY <1>1, <1>2, <1>4, LoadType DEF Job
  <2>2. Load(job[r].kind, rest, job[r].given).items = rest
    BY <1>1, <1>2, <1>4, LoadType DEF Job
  <2>3. StartStage(job[r].kind, Head(rest)) \in Stages
    BY <1>1, <1>2, <1>4, StartStageType DEF Job, Stages
  <2> QED
    BY <1>4, <2>1, <2>2, <2>3 DEF EndItem, LocalTypeOK
<1> QED
  BY <1>3, <1>4

\* The item of a request that is under way.
LEMMA ItemType ==
    ASSUME LocalTypeOK, NEW r \in Requests, pc[r] # "idle"
    PROVE  /\ job[r] \in Job
           /\ job[r].items \in Seq(Item) /\ job[r].items # <<>>
           /\ Item1(r) \in Item
           /\ Mod(r) \in Modules
           /\ Files(r) \in Manifests
<1>1. job[r] \in Job /\ job[r].items # <<>>
  BY DEF LocalTypeOK
<1>2. job[r].items \in Seq(Item)
  BY <1>1 DEF Job
<1>3. Head(job[r].items) \in Item
  BY <1>1, <1>2
<1> QED
  BY <1>1, <1>2, <1>3 DEF Item1, Mod, Files, Item

\* Knowing the module, a request goes on with the right types.
LEMMA HaveModuleType ==
    ASSUME LocalTypeOK, NEW r \in Requests, pc[r] # "idle", HaveModule(r)
    PROVE  LocalTypeOK'
<1> DEFINE imports == IF job[r].given = {} THEN ImportsIn(Files(r)) ELSE {}
           j == [job[r] EXCEPT !.imports = imports, !.deps = @ \cup job[r].given]
<1>1. /\ job[r] \in Job /\ job[r].items # <<>>
      /\ Files(r) \in Manifests
  BY ItemType
<1>2. imports \in SUBSET Paths
  BY <1>1, RegistryAssumption
     DEF RegistryAssumption, ImportsIn, ContentsOf, Manifests, Entries
<1>3. j \in Job /\ j.items # <<>>
  BY <1>1, <1>2 DEF Job, CommitIDs
<1>4. CASE job[r].kind = "create"
  BY <1>4, EndItemType DEF HaveModule
<1>5. CASE job[r].kind # "create"
  <2>1. Become(r, IF imports = {} THEN "digests" ELSE "owners", j)
    BY <1>5 DEF HaveModule
  <2>2. (IF imports = {} THEN "digests" ELSE "owners") \in Stages
    BY DEF Stages
  <2> HIDE DEF j, imports
  <2> QED
    BY <1>3, <2>1, <2>2, BecomeType
<1> QED
  BY <1>4, <1>5

\* So does a request that looks for dependencies.
LEMMA ScanType ==
    ASSUME LocalTypeOK, NEW r \in Requests, NEW j \in Job, j.items # <<>>,
           Scan(r, j)
    PROVE  LocalTypeOK'
<1>1. ScanStage(j) \in Stages
  BY DEF ScanStage, Stages
<1> QED
  BY <1>1, BecomeType DEF Scan

\* Staying with the same job.
LEMMA GotoType ==
    ASSUME LocalTypeOK, NEW r \in Requests, pc[r] # "idle",
           NEW stage \in Stages, Goto(r, stage)
    PROVE  LocalTypeOK'
BY ItemType, BecomeType DEF Goto

\* Giving up.
LEMMA AbortType ==
    ASSUME LocalTypeOK, NEW r \in Requests, Abort(r)
    PROVE  LocalTypeOK'
BY FinishType DEF Abort

\* Nothing in the document store or the bucket changes.
LEMMA StorageSame ==
    ASSUME StorageTypeOK, UNCHANGED storageVars
    PROVE  StorageTypeOK'
BY DEF StorageTypeOK, storageVars, bucketVars, metaVars, CommitLike

\* Every step of a request keeps the types.
LEMMA StepType ==
    ASSUME TypeOK, NEW r \in Requests, Step(r)
    PROVE  TypeOK'
<1> USE DEF TypeOK
<1>0. pc[r] # "idle"
  BY DEF Step, Resolve, GetModule, GetOwner, PutOwner, PutModule, Reload,
         DeleteLookup, RemoveModule, ListOwners, ListModules, Probe,
         ReadDigests, BlobExists, BlobWrite, ManifestExists, ManifestWrite,
         Dedup, NewID, PutCommit, UpdateLabel
<1>00. /\ job[r] \in Job /\ job[r].items # <<>>
       /\ Mod(r) \in Modules /\ Files(r) \in Manifests
  BY <1>0, ItemType
<1>000. OwnerOf[Mod(r)] \in Owners
  BY <1>00, StorageAssumption DEF StorageAssumption
<1>1. CASE Resolve(r)
  <2>1. FirstStage(job[r].kind) \in Stages
    BY DEF FirstStage, Stages
  <2>2. LocalTypeOK'
    BY <1>0, <1>1, <2>1, GotoType, AbortType DEF Resolve
  <2> QED
    BY <1>1, <2>2, StorageSame DEF Resolve, CounterTypeOK, budget
<1>2. CASE GetModule(r)
  <2>1. LocalTypeOK'
    BY <1>0, <1>2, GotoType, HaveModuleType DEF GetModule, Stages
  <2> QED
    BY <1>2, <2>1, StorageSame DEF GetModule, CounterTypeOK, budget
<1>3. CASE GetOwner(r)
  <2>1. LocalTypeOK'
    BY <1>0, <1>3, GotoType DEF GetOwner, Stages
  <2> QED
    BY <1>3, <2>1, StorageSame DEF GetOwner, CounterTypeOK, budget
<1>4. CASE PutOwner(r)
  <2>1. LocalTypeOK'
    BY <1>0, <1>4, GotoType DEF PutOwner, Stages
  <2>2. StorageTypeOK'
    BY <1>000, <1>4 DEF PutOwner, CreateOwner, StorageTypeOK, CommitLike, bucketVars
  <2> QED
    BY <1>4, <2>1, <2>2 DEF PutOwner, CounterTypeOK, budget
<1>5. CASE PutModule(r)
  <2>1. LocalTypeOK'
    BY <1>0, <1>5, GotoType, HaveModuleType DEF PutModule, Stages
  <2>2. StorageTypeOK'
    BY <1>00, <1>5 DEF PutModule, CreateModule, StorageTypeOK, CommitLike, bucketVars
  <2> QED
    BY <1>5, <2>1, <2>2 DEF PutModule, CounterTypeOK, budget
<1>6. CASE Reload(r)
  <2>1. LocalTypeOK'
    BY <1>0, <1>6, AbortType, HaveModuleType DEF Reload
  <2> QED
    BY <1>6, <2>1, StorageSame DEF Reload, CounterTypeOK, budget
<1>7. CASE DeleteLookup(r)
  <2>1. LocalTypeOK'
    BY <1>0, <1>7, GotoType, AbortType DEF DeleteLookup, Stages
  <2> QED
    BY <1>7, <2>1, StorageSame DEF DeleteLookup, CounterTypeOK, budget
<1>8. CASE RemoveModule(r)
  <2>1. LocalTypeOK'
    BY <1>0, <1>8, EndItemType DEF RemoveModule
  <2>2. StorageTypeOK'
    BY <1>8 DEF RemoveModule, DeleteModule, StorageTypeOK, CommitLike, bucketVars
  <2> QED
    BY <1>00, <1>8, <2>1, <2>2 DEF RemoveModule, CounterTypeOK, budget
<1>9. CASE ListOwners(r)
  <2>1. PICK i \in job[r].imports :
            Scan(r, [job[r] EXCEPT !.imports = @ \ {i}, !.imp = {i}, !.owners = owners])
    BY <1>9 DEF ListOwners
  <2> DEFINE j == [job[r] EXCEPT !.imports = @ \ {i}, !.imp = {i}, !.owners = owners]
  <2>2. j \in Job /\ j.items # <<>>
    BY <1>00 DEF Job, StorageTypeOK
  <2> HIDE DEF j
  <2>3. LocalTypeOK'
    BY <2>1, <2>2, ScanType DEF j
  <2> QED
    BY <1>9, <2>3, StorageSame DEF ListOwners, CounterTypeOK, budget
<1>10. CASE ListModules(r)
  <2>1. PICK o \in job[r].owners :
            Scan(r, [job[r] EXCEPT !.owners = @ \ {o}, !.mods = ModulesOf(o)])
    BY <1>10 DEF ListModules
  <2> DEFINE j == [job[r] EXCEPT !.owners = @ \ {o}, !.mods = ModulesOf(o)]
  <2>2. j \in Job /\ j.items # <<>>
    BY <1>00 DEF Job, StorageTypeOK, ModulesOf
  <2> HIDE DEF j
  <2>3. LocalTypeOK'
    BY <2>1, <2>2, ScanType DEF j
  <2> QED
    BY <1>10, <2>3, StorageSame DEF ListModules, CounterTypeOK, budget
<1>11. CASE Probe(r)
  <2>1. PICK m \in job[r].mods : \E found \in HasFile(m, job[r].imp) :
            IF found
            THEN Scan(r, [job[r] EXCEPT !.owners = {}, !.mods = {},
                                        !.deps = @ \cup {labels[<<m, Main>>]}])
            ELSE Scan(r, [job[r] EXCEPT !.mods = @ \ {m}])
    BY <1>11 DEF Probe
  <2>2. PICK found \in HasFile(m, job[r].imp) :
            IF found
            THEN Scan(r, [job[r] EXCEPT !.owners = {}, !.mods = {},
                                        !.deps = @ \cup {labels[<<m, Main>>]}])
            ELSE Scan(r, [job[r] EXCEPT !.mods = @ \ {m}])
    BY <2>1
  <2>3. ASSUME found PROVE LocalTypeOK'
    <3>1. labels[<<m, Main>>] \in CommitIDs
      BY <2>2, <2>3 DEF HasFile, StorageTypeOK
    <3> DEFINE j == [job[r] EXCEPT !.owners = {}, !.mods = {},
                                   !.deps = @ \cup {labels[<<m, Main>>]}]
    <3>2. j \in Job /\ j.items # <<>>
      BY <1>00, <3>1 DEF Job
    <3>3. Scan(r, j)
      BY <2>2, <2>3
    <3> HIDE DEF j
    <3> QED
      BY <3>2, <3>3, ScanType
  <2>4. ASSUME ~found PROVE LocalTypeOK'
    <3> DEFINE j == [job[r] EXCEPT !.mods = @ \ {m}]
    <3>1. j \in Job /\ j.items # <<>>
      BY <1>00 DEF Job
    <3>2. Scan(r, j)
      BY <2>2, <2>4
    <3> HIDE DEF j
    <3> QED
      BY <3>1, <3>2, ScanType
  <2>5. LocalTypeOK'
    BY <2>3, <2>4
  <2> QED
    BY <1>11, <2>5, StorageSame DEF Probe, CounterTypeOK, budget
<1>12. CASE ReadDigests(r)
  <2>1. BlobStage(job[r]) \in Stages /\ BlobStage(job[r]) # "idle"
    BY DEF BlobStage, Stages
  <2>2. ASSUME job[r].deps \subseteq DOMAIN commits
        PROVE  LocalTypeOK'
    BY <1>00, <1>12, <2>1, <2>2 DEF ReadDigests, LocalTypeOK
  <2>3. ASSUME ~(job[r].deps \subseteq DOMAIN commits)
        PROVE  LocalTypeOK'
    BY <1>12, <2>3, AbortType DEF ReadDigests
  <2> QED
    BY <1>12, <2>2, <2>3, StorageSame DEF ReadDigests, CounterTypeOK, budget
<1>13. CASE BlobExists(r)
  <2>1. PICK e \in job[r].todo :
            LET j == [job[r] EXCEPT !.todo = @ \ {e}] IN
            IF e[2] \in blobs THEN Become(r, BlobStage(j), j)
            ELSE Become(r, "blobWrite", [j EXCEPT !.blob = {e[2]}])
    BY <1>13 DEF BlobExists
  <2> DEFINE j == [job[r] EXCEPT !.todo = @ \ {e}]
             k == [j EXCEPT !.blob = {e[2]}]
  <2>2. e[2] \in Contents
    BY <1>00 DEF Job, Manifests, Entries
  <2>3. j \in Job /\ j.items # <<>> /\ k \in Job /\ k.items # <<>>
    BY <1>00, <2>2 DEF Job, Manifests
  <2>4. BlobStage(j) \in Stages /\ "blobWrite" \in Stages
    BY DEF BlobStage, Stages
  <2>5. IF e[2] \in blobs THEN Become(r, BlobStage(j), j) ELSE Become(r, "blobWrite", k)
    BY <2>1
  <2> HIDE DEF j, k
  <2>6. LocalTypeOK'
    BY <2>3, <2>4, <2>5, BecomeType
  <2> QED
    BY <1>13, <2>6, StorageSame DEF BlobExists, CounterTypeOK, budget
<1>14. CASE BlobWrite(r)
  <2> DEFINE j == [job[r] EXCEPT !.blob = {}]
  <2>1. j \in Job /\ j.items # <<>>
    BY <1>00 DEF Job
  <2>2. BlobStage(job[r]) \in Stages
    BY DEF BlobStage, Stages
  <2>3. Become(r, BlobStage(job[r]), j)
    BY <1>14 DEF BlobWrite
  <2> HIDE DEF j
  <2>4. LocalTypeOK'
    BY <2>1, <2>2, <2>3, BecomeType
  <2>5. job[r].blob \subseteq Contents
    BY <1>00 DEF Job
  <2>6. StorageTypeOK'
    BY <1>14, <2>5 DEF BlobWrite, WriteBlob, StorageTypeOK, CommitLike, metaVars
  <2> QED
    BY <1>14, <2>4, <2>6 DEF BlobWrite, CounterTypeOK, budget
<1>15. CASE ManifestExists(r)
  <2>1. LocalTypeOK'
    BY <1>0, <1>15, GotoType DEF ManifestExists, Stages
  <2> QED
    BY <1>15, <2>1, StorageSame DEF ManifestExists, CounterTypeOK, budget
<1>16. CASE ManifestWrite(r)
  <2>1. LocalTypeOK'
    BY <1>0, <1>16, GotoType DEF ManifestWrite, Stages
  <2>2. StorageTypeOK'
    BY <1>00, <1>16 DEF ManifestWrite, WriteManifest, StorageTypeOK, CommitLike, metaVars
  <2> QED
    BY <1>16, <2>1, <2>2 DEF ManifestWrite, CounterTypeOK, budget
<1>17. CASE Dedup(r)
  <2>1. ASSUME Goto(r, "newID") PROVE LocalTypeOK'
    BY <1>0, <2>1, GotoType DEF Stages
  <2>2. ASSUME \E c \in MatchingCommits(Files(r)) :
                   Become(r, "label", [job[r] EXCEPT !.cid = c])
        PROVE  LocalTypeOK'
    <3>1. PICK c \in MatchingCommits(Files(r)) :
              Become(r, "label", [job[r] EXCEPT !.cid = c])
      BY <2>2
    <3>2. c \in CommitIDs
      BY DEF MatchingCommits, StorageTypeOK
    <3>3. [job[r] EXCEPT !.cid = c] \in Job /\ [job[r] EXCEPT !.cid = c].items # <<>>
      BY <1>00, <3>2 DEF Job
    <3> QED
      BY <3>1, <3>3, BecomeType DEF Stages
  <2>3. LocalTypeOK'
    BY <1>17, <2>1, <2>2 DEF Dedup
  <2> QED
    BY <1>17, <2>3, StorageSame DEF Dedup, CounterTypeOK, budget
<1>18. CASE NewID(r)
  <2>1. clock \in Nat
    BY DEF CounterTypeOK, CommitIDs
  <2>2. [job[r] EXCEPT !.cid = clock] \in Job /\ [job[r] EXCEPT !.cid = clock].items # <<>>
    BY <1>00, <2>1 DEF Job, CommitIDs
  <2>3. LocalTypeOK'
    BY <1>18, <2>2, BecomeType DEF NewID, Stages
  <2> QED
    BY <1>18, <2>1, <2>3, StorageSame DEF NewID, CounterTypeOK, budget, CommitIDs
<1>19. CASE PutCommit(r)
  <2>1. LocalTypeOK'
    BY <1>0, <1>19, GotoType DEF PutCommit, Stages
  <2>2. job[r].cid \in CommitIDs /\ job[r].deps \in SUBSET CommitIDs
    BY <1>00 DEF Job
  <2>3. StorageTypeOK'
    BY <1>00, <1>19, <2>2
       DEF PutCommit, CreateCommit, Bind, StorageTypeOK, CommitLike, bucketVars
  <2> QED
    BY <1>19, <2>1, <2>3 DEF PutCommit, CounterTypeOK, budget
<1>20. CASE UpdateLabel(r)
  <2>1. PICK n \in job[r].labels :
            /\ CreateOrUpdateLabel(<<Mod(r), n>>, job[r].cid)
            /\ IF job[r].labels = {n} THEN EndItem(r, {Result(r)})
               ELSE Become(r, "label", [job[r] EXCEPT !.labels = @ \ {n}])
    BY <1>20 DEF UpdateLabel
  <2>2. /\ [job[r] EXCEPT !.labels = @ \ {n}] \in Job
        /\ [job[r] EXCEPT !.labels = @ \ {n}].items # <<>>
    BY <1>00 DEF Job
  <2>3. LocalTypeOK'
    BY <1>0, <2>1, <2>2, EndItemType, BecomeType DEF Stages
  <2>4. <<Mod(r), n>> \in LabelIDs /\ job[r].cid \in CommitIDs
    BY <1>00 DEF Job, LabelIDs
  <2>5. StorageTypeOK'
    BY <1>20, <2>1, <2>4
       DEF UpdateLabel, CreateOrUpdateLabel, Bind, StorageTypeOK, CommitLike, bucketVars
  <2> QED
    BY <1>20, <2>3, <2>5 DEF UpdateLabel, CounterTypeOK, budget
<1> QED
  BY <1>1, <1>2, <1>3, <1>4, <1>5, <1>6, <1>7, <1>8, <1>9, <1>10, <1>11, <1>12,
     <1>13, <1>14, <1>15, <1>16, <1>17, <1>18, <1>19, <1>20 DEF Step

\* So does a failure of a storage call.
LEMMA FailType ==
    ASSUME TypeOK, NEW r \in Requests,
           FailSwallowed(r) \/ FailWrite(r) \/ FailCall(r)
    PROVE  TypeOK'
<1> USE DEF TypeOK
<1>1. CounterTypeOK'
  BY RegistryAssumption
     DEF RegistryAssumption, FailSwallowed, FailWrite, FailCall, Fault, CounterTypeOK
<1>2. CASE FailSwallowed(r)
  <2>0. pc[r] # "idle"
    BY <1>2 DEF FailSwallowed
  <2>00. job[r] \in Job /\ job[r].items # <<>>
    BY <2>0, ItemType
  <2>1. ASSUME NEW i \in job[r].imports,
               Scan(r, [job[r] EXCEPT !.imports = @ \ {i}])
        PROVE  LocalTypeOK'
    <3> DEFINE j == [job[r] EXCEPT !.imports = @ \ {i}]
    <3>1. j \in Job /\ j.items # <<>> /\ Scan(r, j)
      BY <2>00, <2>1 DEF Job
    <3> HIDE DEF j
    <3> QED
      BY <3>1, ScanType
  <2>2. ASSUME NEW o \in job[r].owners,
               Scan(r, [job[r] EXCEPT !.owners = @ \ {o}])
        PROVE  LocalTypeOK'
    <3> DEFINE j == [job[r] EXCEPT !.owners = @ \ {o}]
    <3>1. j \in Job /\ j.items # <<>> /\ Scan(r, j)
      BY <2>00, <2>2 DEF Job
    <3> HIDE DEF j
    <3> QED
      BY <3>1, ScanType
  <2>3. ASSUME NEW m \in job[r].mods,
               Scan(r, [job[r] EXCEPT !.mods = @ \ {m}])
        PROVE  LocalTypeOK'
    <3> DEFINE j == [job[r] EXCEPT !.mods = @ \ {m}]
    <3>1. j \in Job /\ j.items # <<>> /\ Scan(r, j)
      BY <2>00, <2>3 DEF Job
    <3> HIDE DEF j
    <3> QED
      BY <3>1, ScanType
  <2>4. ASSUME Goto(r, "newID") PROVE LocalTypeOK'
    BY <2>0, <2>4, GotoType DEF Stages
  <2>5. LocalTypeOK'
    BY <1>2, <2>1, <2>2, <2>3, <2>4 DEF FailSwallowed
  <2> QED
    BY <1>1, <1>2, <2>5, StorageSame DEF FailSwallowed
<1>3. CASE FailWrite(r)
  <2>1. pc[r] # "idle" /\ LocalTypeOK'
    BY <1>3, AbortType DEF FailWrite, Writing
  <2>2. job[r].blob \subseteq Contents /\ Files(r) \in Manifests
    BY <2>1, ItemType DEF Job
  <2>3. StorageTypeOK'
    BY <1>3, <2>2 DEF FailWrite, TearBlob, TearManifest, StorageTypeOK,
                      CommitLike, bucketVars, metaVars
  <2> QED
    BY <1>1, <2>1, <2>3
<1>4. CASE FailCall(r)
  BY <1>1, <1>4, AbortType, StorageSame DEF FailCall
<1> QED
  BY <1>2, <1>3, <1>4

\* So does a new request.
LEMMA StartType ==
    ASSUME TypeOK, NEW r \in Requests, Start(r)
    PROVE  TypeOK'
<1> USE DEF TypeOK
<1>1. PICK call \in Calls, given \in SUBSET (DOMAIN commits \cup ForeignIDs) :
          /\ pc' = [pc EXCEPT ![r] = StartStage(call.kind, Head(call.items))]
          /\ job' = [job EXCEPT ![r] = Load(call.kind, call.items, given)]
  BY DEF Start
<1>2. call.kind \in Kinds /\ call.items \in Seq(Item) \ {<<>>}
  BY RegistryAssumption DEF RegistryAssumption, Call
<1>3. given \in SUBSET CommitIDs
  <2>1. DOMAIN commits \subseteq CommitIDs
    BY DEF StorageTypeOK
  <2>2. ForeignIDs \subseteq {0} /\ 0 \in CommitIDs
    BY RegistryAssumption DEF RegistryAssumption, CommitIDs
  <2> HIDE DEF TypeOK
  <2> QED
    BY <2>1, <2>2, Zenon
<1>4. /\ Load(call.kind, call.items, given) \in Job
      /\ Load(call.kind, call.items, given).items # <<>>
      /\ Head(call.items) \in Item
  BY <1>2, <1>3, LoadType
<1>5. StartStage(call.kind, Head(call.items)) \in Stages
  BY <1>2, <1>4, StartStageType DEF Stages
<1>6. LocalTypeOK'
  BY <1>1, <1>4, <1>5 DEF Start, LocalTypeOK
<1>7. CounterTypeOK'
  BY RegistryAssumption DEF RegistryAssumption, Start, CounterTypeOK
<1> QED
  BY <1>6, <1>7, StorageSame DEF Start

\* And a crash, with or without a durable document store.
LEMMA CrashType ==
    ASSUME TypeOK, Crash
    PROVE  TypeOK'
<1> USE DEF TypeOK
<1>1. NoJob \in Job
  BY DEF NoJob, Job, Kinds, CommitIDs, Manifests
<1>2. LocalTypeOK'
  BY <1>1 DEF Crash, LocalTypeOK, Stages
<1>3. CounterTypeOK'
  BY RegistryAssumption DEF RegistryAssumption, Crash, CounterTypeOK
<1>4. StorageTypeOK'
  <2>1. CASE Durable
    BY <2>1, StorageSame DEF Crash, LoseMemory, storageVars
  <2>2. CASE ~Durable
    <3>1. /\ owners' = {} /\ modules' = {}
          /\ DOMAIN commits' = {} /\ DOMAIN labels' = {}
      BY <2>2 DEF Crash, LoseMemory
    <3> QED
      BY <3>1 DEF Crash, StorageTypeOK, CommitLike, bucketVars
  <2> QED
    BY <2>1, <2>2
<1> QED
  BY <1>2, <1>3, <1>4

\* The initial state is well-typed.
LEMMA InitType == Init => TypeOK
<1> SUFFICES ASSUME Init PROVE TypeOK
  OBVIOUS
<1>1. NoJob \in Job
  BY DEF NoJob, Job, Kinds, CommitIDs, Manifests
<1>2. StorageTypeOK
  BY DEF Init, StorageInit, StorageTypeOK
<1>3. LocalTypeOK
  BY <1>1 DEF Init, LocalTypeOK, Stages
<1>4. CounterTypeOK
  BY RegistryAssumption DEF RegistryAssumption, Init, CounterTypeOK, CommitIDs
<1> QED
  BY <1>2, <1>3, <1>4 DEF TypeOK

\* Every step keeps the types.
LEMMA NextType == TypeOK /\ [Next]_vars => TypeOK'
<1> SUFFICES ASSUME TypeOK, [Next]_vars PROVE TypeOK'
  OBVIOUS
<1>1. ASSUME UNCHANGED vars PROVE TypeOK'
  <2>1. UNCHANGED storageVars
    BY <1>1 DEF vars
  <2>2. StorageTypeOK'
    BY <2>1, StorageSame DEF TypeOK
  <2>3. LocalTypeOK' /\ CounterTypeOK'
    BY <1>1 DEF vars, localVars, budget, TypeOK, LocalTypeOK, CounterTypeOK
  <2> QED
    BY <2>2, <2>3 DEF TypeOK
<1> QED
  BY <1>1, StepType, FailType, StartType, CrashType DEF Next, Quiet

\* Every state of every run is well-typed: what module Registry keeps in the
\* bucket, the document store and the goroutines has the shape that the code
\* of the storage and of the handlers gives it.
THEOREM TypeCorrect == Spec => []TypeOK
BY InitType, NextType, PTL DEF Spec
=============================================================================
