--------------------------- MODULE IntegrityProofs ---------------------------
(***************************************************************************)
(* The integrity of what requests leave behind, for every choice of the    *)
(* constants: whatever the interleaving, the failures and the crashes, a   *)
(* commit that can be found has everything it needs.                       *)
(*                                                                         *)
(* The invariant is carried by what a request has already done when it     *)
(* reaches each stage: its files are stored before its manifest, that      *)
(* before the commit document, that before the labels; and the ID it has   *)
(* drawn is nobody else's.                                                 *)
(*                                                                         *)
(* Three more invariants follow: the module of a push and of a commit is   *)
(* there unless somebody deleted it; requests that find what they need     *)
(* find it to the end, whatever others do; and pushes that come one after  *)
(* the other make one commit of the same files.  And where nobody deletes, *)
(* nothing is lost that a reader may look for.                             *)
(***************************************************************************)
EXTENDS RegistryProofs

AfterManifest == {"dedup", "newID", "createCommit", "label"}
AfterBlobs == AfterManifest \cup {"manifestExists", "manifestWrite"}
AfterDigests == AfterBlobs \cup {"blobExists", "blobWrite"}

\* What holds of a request at stage s with job j and digests dg, given the
\* blobs bl, the manifests ma, the owners ow and the commits co.
JobOK(s, j, dg, bl, ma, ow, co) ==
    s # "idle" =>
        /\ \A e \in Head(j.items).files :
               e \in j.todo \/ e[2] \in bl \/ e[2] \in j.blob
        /\ s # "blobWrite" => j.blob = {}
        /\ \A b, c \in j.blob : b = c
        /\ s \in AfterBlobs => j.todo = {}
        /\ s \in AfterManifest => Head(j.items).files \in ma
        /\ s \in AfterDigests =>
               /\ j.deps \subseteq DOMAIN co
               /\ dg = [d \in j.deps |-> co[d].b5]
        /\ s = "createCommit" => \A d \in j.deps : d < j.cid
        /\ s = "createModule" => OwnerOf[Head(j.items).mod] \in ow
        /\ s = "label" =>
               /\ j.cid \in DOMAIN co
               /\ co[j.cid].mod = Head(j.items).mod
               /\ co[j.cid].files = Head(j.items).files

JobsOK ==
    \A r \in Requests :
        JobOK(pc[r], job[r], digs[r], blobs, manifests, owners, commits)

\* No commit has the ID that a request is about to use.
FreshIDs ==
    /\ \A c \in DOMAIN commits : c < clock
    /\ \A r \in Requests : pc[r] = "createCommit" =>
           job[r].cid < clock /\ job[r].cid \notin DOMAIN commits
    /\ \A r, q \in Requests :
           r # q /\ pc[r] = "createCommit" /\ pc[q] = "createCommit"
               => job[r].cid # job[q].cid

\* A result is a commit of the module and with the files it was given for.
ResultOK(a, co) ==
    /\ a.cid \in DOMAIN co
    /\ co[a.cid].mod = a.mod
    /\ co[a.cid].files = a.files

ResultsOK ==
    /\ \A r \in Requests : \A a \in resp[r] : ResultOK(a, commits)
    /\ Durable => \A a \in acks : ResultOK(a, commits)

Untorn == ~PartialPublish => ObjectsWhole

Documents == CommitsStored /\ LabelsResolve /\ DepsOlder /\ DigestsMatch /\ ModulesOwned

Integrity ==
    TypeOK /\ JobsOK /\ FreshIDs /\ ResultsOK /\ Untorn /\ Documents

-----------------------------------------------------------------------------
(***************************************************************************)
(* What a step leaves alone.                                               *)
(***************************************************************************)

\* Only the locals of r change.
Only(r) ==
    \A q \in Requests : q # r =>
        /\ pc'[q] = pc[q] /\ job'[q] = job[q]
        /\ digs'[q] = digs[q] /\ resp'[q] = resp[q]

\* Nothing that was stored goes away, modules and labels excepted.
Grows ==
    /\ blobs \subseteq blobs'
    /\ manifests \subseteq manifests'
    /\ owners \subseteq owners'
    /\ \A c \in DOMAIN commits : c \in DOMAIN commits' /\ commits'[c] = commits[c]

\* What a request relies on stays true when the storage grows.
LEMMA JobGrows ==
    ASSUME NEW s, NEW j, NEW dg, NEW bl, NEW ma, NEW ow, NEW co,
           NEW bl2, NEW ma2, NEW ow2, NEW co2,
           JobOK(s, j, dg, bl, ma, ow, co),
           bl \subseteq bl2, ma \subseteq ma2, ow \subseteq ow2,
           \A c \in DOMAIN co : c \in DOMAIN co2 /\ co2[c] = co[c]
    PROVE  JobOK(s, j, dg, bl2, ma2, ow2, co2)
<1>1. ASSUME j.deps \subseteq DOMAIN co
      PROVE  [d \in j.deps |-> co[d].b5] = [d \in j.deps |-> co2[d].b5]
  BY <1>1
<1> QED
  BY <1>1 DEF JobOK

\* So the other requests are in order after a step of r.
LEMMA OthersGrow ==
    ASSUME JobsOK, NEW r \in Requests, Only(r), Grows,
           JobOK(pc'[r], job'[r], digs'[r], blobs', manifests', owners', commits')
    PROVE  JobsOK'
<1>1. ASSUME NEW q \in Requests, q # r
      PROVE  JobOK(pc'[q], job'[q], digs'[q], blobs', manifests', owners', commits')
  <2>1. JobOK(pc[q], job[q], digs[q], blobs, manifests, owners, commits)
    BY DEF JobsOK
  <2>2. JobOK(pc[q], job[q], digs[q], blobs', manifests', owners', commits')
    BY <2>1, JobGrows DEF Grows
  <2> QED
    BY <1>1, <2>2 DEF Only
<1> QED
  BY <1>1 DEF JobsOK

\* The ways a request moves on leave the others alone.
LEMMA BecomeOnly ==
    ASSUME LocalTypeOK, NEW r \in Requests, NEW stage, NEW j, Become(r, stage, j)
    PROVE  /\ Only(r) /\ pc'[r] = stage /\ job'[r] = j /\ digs' = digs
           /\ resp' = resp /\ acks' = acks
BY DEF LocalTypeOK, Become, Only

LEMMA FinishOnly ==
    ASSUME LocalTypeOK, NEW r \in Requests, NEW result, Finish(r, result)
    PROVE  Only(r) /\ pc'[r] = "idle" /\ resp'[r] = {}
BY DEF LocalTypeOK, Finish, Only

\* A new item starts in order.
LEMMA LoadOK ==
    ASSUME NEW kind \in Kinds, NEW items \in Seq(Item) \ {<<>>},
           NEW given \in SUBSET CommitIDs,
           NEW dg, NEW bl, NEW ma, NEW ow, NEW co
    PROVE  /\ JobOK(StartStage(kind, Head(items)), Load(kind, items, given),
                    dg, bl, ma, ow, co)
           /\ StartStage(kind, Head(items)) # "createCommit"
<1>1. Head(items) \in Item
  OBVIOUS
<1>2. StartStage(kind, Head(items)) \in {"resolve", "getModule", "getOwner", "delGet"}
  BY <1>1, StartStageType
<1>3. /\ Load(kind, items, given).items = items
      /\ Load(kind, items, given).todo = Head(items).files
      /\ Load(kind, items, given).blob = {}
  BY LoadType
<1> QED
  BY <1>2, <1>3 DEF JobOK, AfterDigests, AfterBlobs, AfterManifest

\* After an item: the next one, or the answer.
LEMMA EndItemOnly ==
    ASSUME LocalTypeOK, NEW r \in Requests, pc[r] # "idle", NEW result,
           EndItem(r, result)
    PROVE  /\ Only(r) /\ pc'[r] # "createCommit"
           /\ JobOK(pc'[r], job'[r], digs'[r], blobs', manifests', owners', commits')
           /\ resp'[r] \subseteq resp[r] \cup result
           /\ acks' \subseteq acks \cup resp[r] \cup result
<1> DEFINE rest == Tail(job[r].items)
<1>1. /\ job[r].kind \in Kinds /\ job[r].given \in SUBSET CommitIDs
      /\ rest \in Seq(Item)
  BY ItemType DEF Job
<1>2. CASE rest = <<>>
  <2>1. Finish(r, "ok") /\ acks' = acks \cup resp[r] \cup result
    BY <1>2 DEF EndItem
  <2> QED
    BY <2>1, FinishOnly DEF JobOK
<1>3. CASE rest # <<>>
  <2>1. /\ pc' = [pc EXCEPT ![r] = StartStage(job[r].kind, Head(rest))]
        /\ job' = [job EXCEPT ![r] = Load(job[r].kind, rest, job[r].given)]
        /\ resp' = [resp EXCEPT ![r] = @ \cup result]
        /\ UNCHANGED <<digs, acks>>
    BY <1>3 DEF EndItem
  <2> HIDE DEF rest
  <2>2. /\ pc'[r] = StartStage(job[r].kind, Head(rest))
        /\ job'[r] = Load(job[r].kind, rest, job[r].given)
        /\ resp'[r] = resp[r] \cup result
        /\ Only(r)
    BY <2>1 DEF LocalTypeOK, Only
  <2>3. /\ JobOK(pc'[r], job'[r], digs'[r], blobs', manifests', owners', commits')
        /\ pc'[r] # "createCommit"
    <3> DEFINE k == job[r].kind
               g == job[r].given
    <3>1. k \in Kinds /\ g \in SUBSET CommitIDs /\ rest \in Seq(Item) \ {<<>>}
      BY <1>1, <1>3
    <3>2. pc'[r] = StartStage(k, Head(rest)) /\ job'[r] = Load(k, rest, g)
      BY <2>2
    <3> HIDE DEF k, g
    <3>3. /\ JobOK(StartStage(k, Head(rest)), Load(k, rest, g),
                   digs'[r], blobs', manifests', owners', commits')
          /\ StartStage(k, Head(rest)) # "createCommit"
      BY <3>1, LoadOK
    <3> QED
      BY <3>2, <3>3
  <2> QED
    BY <2>1, <2>2, <2>3
<1> QED
  BY <1>2, <1>3

-----------------------------------------------------------------------------
(***************************************************************************)
(* Steps that neither draw an ID, nor create a commit, nor move a label.   *)
(***************************************************************************)

LEMMA LocalStep ==
    ASSUME Integrity, NEW r \in Requests, Only(r), Grows,
           UNCHANGED <<commits, labels, clock>>,
           \A m \in modules' : OwnerOf[m] \in owners',
           Untorn', pc'[r] # "createCommit",
           JobOK(pc'[r], job'[r], digs'[r], blobs', manifests', owners', commits'),
           resp'[r] \subseteq resp[r], acks' \subseteq acks \cup resp[r]
    PROVE  JobsOK' /\ FreshIDs' /\ ResultsOK' /\ Untorn' /\ Documents'
<1> USE DEF Integrity
<1>1. JobsOK'
  BY OthersGrow
<1>2. FreshIDs'
  <2>1. \A q \in Requests : pc'[q] = "createCommit" =>
            q # r /\ pc[q] = "createCommit" /\ job'[q] = job[q]
    BY DEF Only
  <2> QED
    BY <2>1 DEF FreshIDs
<1>3. ResultsOK'
  <2>1. \A q \in Requests : resp'[q] \subseteq resp[q]
    BY DEF Only
  <2> QED
    BY <2>1 DEF ResultsOK
<1>4. Documents'
  BY DEF Documents, CommitsStored, LabelsResolve, DepsOlder, DigestsMatch,
         ModulesOwned, Grows
<1> QED
  BY <1>1, <1>2, <1>3, <1>4

\* In particular those that write nothing at all.
LEMMA ReadStep ==
    ASSUME Integrity, NEW r \in Requests, Only(r),
           UNCHANGED <<storageVars, clock>>, pc'[r] # "createCommit",
           JobOK(pc'[r], job'[r], digs'[r], blobs, manifests, owners, commits),
           resp'[r] \subseteq resp[r], acks' \subseteq acks \cup resp[r]
    PROVE  JobsOK' /\ FreshIDs' /\ ResultsOK' /\ Untorn' /\ Documents'
<1>1. Grows
  BY DEF Grows, storageVars, bucketVars, metaVars
<1>2. \A m \in modules' : OwnerOf[m] \in owners'
  BY DEF Integrity, Documents, ModulesOwned, storageVars, metaVars
<1>3. Untorn'
  BY DEF Integrity, Untorn, ObjectsWhole, storageVars, bucketVars
<1>4. JobOK(pc'[r], job'[r], digs'[r], blobs', manifests', owners', commits')
  BY DEF storageVars, bucketVars, metaVars
<1>5. UNCHANGED <<commits, labels, clock>>
  BY DEF storageVars, metaVars
<1> QED
  BY <1>1, <1>2, <1>3, <1>4, <1>5, LocalStep

\* A request that gives up.
LEMMA AbortStep ==
    ASSUME Integrity, NEW r \in Requests, Abort(r), UNCHANGED <<storageVars, clock>>
    PROVE  JobsOK' /\ FreshIDs' /\ ResultsOK' /\ Untorn' /\ Documents'
<1>1. /\ Only(r) /\ pc'[r] = "idle" /\ resp'[r] = {} /\ acks' = acks
  BY FinishOnly DEF Abort, Integrity, TypeOK
<1>2. JobOK(pc'[r], job'[r], digs'[r], blobs, manifests, owners, commits)
  BY <1>1 DEF JobOK
<1> QED
  BY <1>1, <1>2, ReadStep

\* A request that reads something and goes on with another job.
LEMMA BecomeStep ==
    ASSUME Integrity, NEW r \in Requests, NEW stage, NEW j,
           Become(r, stage, j), UNCHANGED <<storageVars, clock>>,
           stage # "createCommit",
           JobOK(stage, j, digs[r], blobs, manifests, owners, commits)
    PROVE  JobsOK' /\ FreshIDs' /\ ResultsOK' /\ Untorn' /\ Documents'
<1>1. /\ Only(r) /\ pc'[r] = stage /\ job'[r] = j /\ digs' = digs
      /\ resp' = resp /\ acks' = acks
  BY BecomeOnly DEF Integrity, TypeOK
<1> QED
  BY <1>1, ReadStep

\* A job whose files, blob and items are as they were stays in order at a
\* stage before the digests are read.
LEMMA EarlyJob ==
    ASSUME NEW s, NEW t, NEW j, NEW k, NEW dg, NEW bl, NEW ma, NEW ow, NEW co,
           JobOK(s, j, dg, bl, ma, ow, co), s # "idle", s # "blobWrite",
           k.items = j.items, k.todo = j.todo, k.blob = j.blob,
           t \in {"getModule", "getOwner", "delGet", "delete", "createOwner",
                  "reload", "owners", "modules", "probe", "digests"}
    PROVE  JobOK(t, k, dg, bl, ma, ow, co)
BY DEF JobOK, AfterDigests, AfterBlobs, AfterManifest

\* Knowing its module, a request is in order and leaves the others alone.
LEMMA HaveModuleOK ==
    ASSUME Integrity, NEW r \in Requests, pc[r] # "idle", pc[r] # "blobWrite",
           HaveModule(r), Grows
    PROVE  /\ Only(r) /\ pc'[r] # "createCommit"
           /\ JobOK(pc'[r], job'[r], digs'[r], blobs', manifests', owners', commits')
           /\ resp'[r] \subseteq resp[r] /\ acks' \subseteq acks \cup resp[r]
<1>1. CASE job[r].kind = "create"
  <2>1. EndItem(r, {})
    BY <1>1 DEF HaveModule
  <2> QED
    BY <2>1, EndItemOnly DEF Integrity, TypeOK
<1>2. CASE job[r].kind # "create"
  <2> DEFINE imports == IF job[r].given = {} THEN ImportsIn(Files(r)) ELSE {}
             j == [job[r] EXCEPT !.imports = imports, !.deps = @ \cup job[r].given]
             t == IF imports = {} THEN "digests" ELSE "owners"
  <2>1. Become(r, t, j)
    BY <1>2 DEF HaveModule
  <2>2. job[r] \in Job
    BY ItemType DEF Integrity, TypeOK
  <2>3. /\ j.items = job[r].items /\ j.todo = job[r].todo /\ j.blob = job[r].blob
        /\ t \in {"digests", "owners"}
    BY <2>2 DEF Job
  <2> HIDE DEF j, t
  <2>4. JobOK(pc[r], job[r], digs[r], blobs, manifests, owners, commits)
    BY DEF Integrity, JobsOK
  <2>5. JobOK(pc[r], job[r], digs[r], blobs', manifests', owners', commits')
    BY <2>4, JobGrows DEF Grows
  <2>6. JobOK(t, j, digs[r], blobs', manifests', owners', commits')
    BY <2>3, <2>5, EarlyJob
  <2>7. /\ Only(r) /\ pc'[r] = t /\ job'[r] = j /\ digs' = digs
        /\ resp' = resp /\ acks' = acks
    BY <2>1, BecomeOnly DEF Integrity, TypeOK
  <2> QED
    BY <2>3, <2>6, <2>7
<1> QED
  BY <1>1, <1>2

-----------------------------------------------------------------------------
(***************************************************************************)
(* The steps of a request, one by one.                                     *)
(***************************************************************************)

Kept == JobsOK' /\ FreshIDs' /\ ResultsOK' /\ Untorn' /\ Documents'

\* Finding or creating the module, and deleting one.
LEMMA ModuleSteps ==
    ASSUME Integrity, NEW r \in Requests,
           \/ Resolve(r) \/ GetModule(r) \/ GetOwner(r) \/ PutOwner(r)
           \/ PutModule(r) \/ Reload(r) \/ DeleteLookup(r) \/ RemoveModule(r)
    PROVE  Kept
<1> USE DEF Kept
<1>0. JobOK(pc[r], job[r], digs[r], blobs, manifests, owners, commits)
  BY DEF Integrity, JobsOK
<1>1. ASSUME UNCHANGED storageVars PROVE Grows
  BY <1>1 DEF Grows, storageVars, bucketVars, metaVars
<1>2. ASSUME UNCHANGED <<storageVars, clock>>, HaveModule(r),
             pc[r] # "idle", pc[r] # "blobWrite"
      PROVE  Kept
  <2>1. /\ Only(r) /\ pc'[r] # "createCommit"
        /\ JobOK(pc'[r], job'[r], digs'[r], blobs', manifests', owners', commits')
        /\ resp'[r] \subseteq resp[r] /\ acks' \subseteq acks \cup resp[r]
    BY <1>1, <1>2, HaveModuleOK
  <2>2. JobOK(pc'[r], job'[r], digs'[r], blobs, manifests, owners, commits)
    BY <1>2, <2>1 DEF storageVars, bucketVars, metaVars
  <2> QED
    BY <1>2, <2>1, <2>2, ReadStep
<1>3. ASSUME UNCHANGED <<storageVars, clock>>, pc[r] # "idle", pc[r] # "blobWrite",
             NEW t \in {"getModule", "getOwner", "delGet", "delete", "createOwner"},
             Goto(r, t)
      PROVE  Kept
  <2>1. JobOK(t, job[r], digs[r], blobs, manifests, owners, commits)
    BY <1>0, <1>3, EarlyJob
  <2> QED
    BY <1>3, <2>1, BecomeStep DEF Goto
<1>4. CASE Resolve(r)
  <2>1. FirstStage(job[r].kind) \in {"getModule", "getOwner", "delGet"}
    BY DEF FirstStage
  <2> QED
    BY <1>3, <1>4, <2>1, AbortStep DEF Resolve
<1>5. CASE GetModule(r)
  BY <1>2, <1>3, <1>5 DEF GetModule
<1>6. CASE GetOwner(r)
  <2>1. CASE OwnerOf[Mod(r)] \in owners
    <3>1. JobOK("createModule", job[r], digs[r], blobs, manifests, owners, commits)
      BY <1>0, <1>6, <2>1 DEF GetOwner, JobOK, Mod, Item1,
                              AfterDigests, AfterBlobs, AfterManifest
    <3> QED
      BY <1>6, <2>1, <3>1, BecomeStep DEF GetOwner, Goto
  <2>2. CASE OwnerOf[Mod(r)] \notin owners
    BY <1>3, <1>6, <2>2 DEF GetOwner
  <2> QED
    BY <2>1, <2>2
<1>7. CASE PutOwner(r)
  <2>1. /\ Only(r) /\ pc'[r] = "createModule" /\ job'[r] = job[r] /\ digs' = digs
        /\ resp' = resp /\ acks' = acks
    BY <1>7, BecomeOnly DEF PutOwner, Goto, Integrity, TypeOK
  <2>2. Grows /\ UNCHANGED <<commits, labels, clock, modules>> /\ UNCHANGED bucketVars
    BY <1>7 DEF PutOwner, CreateOwner, Grows, bucketVars
  <2>3. OwnerOf[Mod(r)] \in owners'
    BY <1>7 DEF PutOwner, CreateOwner
  <2>4. JobOK(pc'[r], job'[r], digs'[r], blobs', manifests', owners', commits')
    <3>1. pc[r] = "createOwner"
      BY <1>7 DEF PutOwner
    <3>2. JobOK("createModule", job[r], digs[r], blobs, manifests, owners', commits)
      BY <1>0, <2>3, <3>1 DEF JobOK, Mod, Item1, AfterDigests, AfterBlobs, AfterManifest
    <3> QED
      BY <2>1, <2>2, <3>2 DEF bucketVars
  <2>5. \A m \in modules' : OwnerOf[m] \in owners'
    BY <2>2 DEF Grows, Integrity, Documents, ModulesOwned
  <2>6. Untorn'
    BY <2>2 DEF Integrity, Untorn, ObjectsWhole, bucketVars
  <2> QED
    BY <2>1, <2>2, <2>4, <2>5, <2>6, LocalStep
<1>8. CASE PutModule(r)
  <2>0. pc[r] = "createModule"
    BY <1>8 DEF PutModule
  <2>1. /\ Grows /\ UNCHANGED <<commits, labels, clock, owners>>
        /\ UNCHANGED bucketVars
    BY <1>8 DEF PutModule, CreateModule, Grows, bucketVars
  <2>2. OwnerOf[Mod(r)] \in owners
    BY <1>0, <2>0 DEF JobOK, Mod, Item1
  <2>3. \A m \in modules' : OwnerOf[m] \in owners'
    BY <1>8, <2>1, <2>2
       DEF PutModule, CreateModule, Integrity, Documents, ModulesOwned
  <2>4. /\ Only(r) /\ pc'[r] # "createCommit"
        /\ JobOK(pc'[r], job'[r], digs'[r], blobs', manifests', owners', commits')
        /\ resp'[r] \subseteq resp[r] /\ acks' \subseteq acks \cup resp[r]
    <3>1. CASE Mod(r) \in modules
      <4>1. Goto(r, "reload")
        BY <1>8, <3>1 DEF PutModule
      <4>2. /\ Only(r) /\ pc'[r] = "reload" /\ job'[r] = job[r] /\ digs' = digs
            /\ resp' = resp /\ acks' = acks
        BY <4>1, BecomeOnly DEF Goto, Integrity, TypeOK
      <4>3. JobOK("reload", job[r], digs[r], blobs, manifests, owners, commits)
        BY <1>0, <2>0, EarlyJob
      <4> QED
        BY <2>1, <4>2, <4>3 DEF bucketVars
    <3>2. CASE Mod(r) \notin modules
      BY <1>8, <2>0, <2>1, <3>2, HaveModuleOK DEF PutModule
    <3> QED
      BY <3>1, <3>2
  <2>5. Untorn'
    BY <2>1 DEF Integrity, Untorn, ObjectsWhole, bucketVars
  <2> QED
    BY <2>1, <2>3, <2>4, <2>5, LocalStep
<1>9. CASE Reload(r)
  BY <1>2, <1>9, AbortStep DEF Reload
<1>10. CASE DeleteLookup(r)
  BY <1>3, <1>10, AbortStep DEF DeleteLookup
<1>11. CASE RemoveModule(r)
  <2>1. /\ Grows /\ UNCHANGED <<commits, labels, clock, owners>>
        /\ UNCHANGED bucketVars /\ modules' \subseteq modules
    BY <1>11 DEF RemoveModule, DeleteModule, Grows, bucketVars
  <2>2. /\ Only(r) /\ pc'[r] # "createCommit"
        /\ JobOK(pc'[r], job'[r], digs'[r], blobs', manifests', owners', commits')
        /\ resp'[r] \subseteq resp[r] /\ acks' \subseteq acks \cup resp[r]
    BY <1>11, EndItemOnly DEF RemoveModule, Integrity, TypeOK
  <2>3. \A m \in modules' : OwnerOf[m] \in owners'
    BY <2>1 DEF Integrity, Documents, ModulesOwned
  <2>4. Untorn'
    BY <2>1 DEF Integrity, Untorn, ObjectsWhole, bucketVars
  <2> QED
    BY <2>1, <2>2, <2>3, <2>4, LocalStep
<1> QED
  BY <1>4, <1>5, <1>6, <1>7, <1>8, <1>9, <1>10, <1>11

\* Looking for dependencies.
LEMMA ScanSteps ==
    ASSUME Integrity, NEW r \in Requests,
           ListOwners(r) \/ ListModules(r) \/ Probe(r)
    PROVE  Kept
<1> USE DEF Kept
<1>0. /\ JobOK(pc[r], job[r], digs[r], blobs, manifests, owners, commits)
      /\ pc[r] \in {"owners", "modules", "probe"}
      /\ UNCHANGED <<storageVars, clock>>
  BY DEF Integrity, JobsOK, ListOwners, ListModules, Probe
<1>1. job[r] \in Job
  BY <1>0, ItemType DEF Integrity, TypeOK
<1>2. ASSUME NEW j, Scan(r, j), j.items = job[r].items,
             j.todo = job[r].todo, j.blob = job[r].blob
      PROVE  Kept
  <2>1. ScanStage(j) \in {"probe", "modules", "owners", "digests"}
    BY DEF ScanStage
  <2>2. JobOK(ScanStage(j), j, digs[r], blobs, manifests, owners, commits)
    BY <1>0, <1>2, <2>1, EarlyJob
  <2> QED
    BY <1>0, <1>2, <2>1, <2>2, BecomeStep DEF Scan
<1>3. CASE ListOwners(r)
  <2>1. PICK i \in job[r].imports :
            Scan(r, [job[r] EXCEPT !.imports = @ \ {i}, !.imp = {i}, !.owners = owners])
    BY <1>3 DEF ListOwners
  <2> DEFINE j == [job[r] EXCEPT !.imports = @ \ {i}, !.imp = {i}, !.owners = owners]
  <2>2. j.items = job[r].items /\ j.todo = job[r].todo /\ j.blob = job[r].blob
    BY <1>1 DEF Job
  <2>3. Scan(r, j)
    BY <2>1
  <2> HIDE DEF j
  <2> QED
    BY <1>2, <2>2, <2>3
<1>4. CASE ListModules(r)
  <2>1. PICK o \in job[r].owners :
            Scan(r, [job[r] EXCEPT !.owners = @ \ {o}, !.mods = ModulesOf(o)])
    BY <1>4 DEF ListModules
  <2> DEFINE j == [job[r] EXCEPT !.owners = @ \ {o}, !.mods = ModulesOf(o)]
  <2>2. j.items = job[r].items /\ j.todo = job[r].todo /\ j.blob = job[r].blob
    BY <1>1 DEF Job
  <2>3. Scan(r, j)
    BY <2>1
  <2> HIDE DEF j
  <2> QED
    BY <1>2, <2>2, <2>3
<1>5. CASE Probe(r)
  <2>1. PICK m \in job[r].mods :
            \/ Scan(r, [job[r] EXCEPT !.owners = {}, !.mods = {},
                                      !.deps = @ \cup {labels[<<m, Main>>]}])
            \/ Scan(r, [job[r] EXCEPT !.mods = @ \ {m}])
    BY <1>5 DEF Probe
  <2> DEFINE j == [job[r] EXCEPT !.owners = {}, !.mods = {},
                                 !.deps = @ \cup {labels[<<m, Main>>]}]
             k == [job[r] EXCEPT !.mods = @ \ {m}]
  <2>2. /\ j.items = job[r].items /\ j.todo = job[r].todo /\ j.blob = job[r].blob
        /\ k.items = job[r].items /\ k.todo = job[r].todo /\ k.blob = job[r].blob
    BY <1>1 DEF Job
  <2>3. Scan(r, j) \/ Scan(r, k)
    BY <2>1
  <2> HIDE DEF j, k
  <2> QED
    BY <1>2, <2>2, <2>3
<1> QED
  BY <1>3, <1>4, <1>5

\* Reading the digests of the dependencies.
LEMMA DigestStep ==
    ASSUME Integrity, NEW r \in Requests, ReadDigests(r)
    PROVE  Kept
<1> USE DEF Kept
<1>0. /\ JobOK(pc[r], job[r], digs[r], blobs, manifests, owners, commits)
      /\ pc[r] = "digests"
      /\ UNCHANGED <<storageVars, clock>>
  BY DEF Integrity, JobsOK, ReadDigests
<1>1. CASE job[r].deps \subseteq DOMAIN commits
  <2>1. /\ Only(r) /\ pc'[r] = BlobStage(job[r]) /\ job' = job /\ resp' = resp
        /\ acks' = acks /\ digs'[r] = [d \in job[r].deps |-> commits[d].b5]
    BY <1>1 DEF ReadDigests, Only, Integrity, TypeOK, LocalTypeOK
  <2>2. JobOK(BlobStage(job[r]), job[r], digs'[r], blobs, manifests, owners, commits)
    BY <1>0, <1>1, <2>1
       DEF JobOK, BlobStage, AfterDigests, AfterBlobs, AfterManifest
  <2>3. BlobStage(job[r]) # "createCommit"
    BY DEF BlobStage
  <2> QED
    BY <1>0, <2>1, <2>2, <2>3, ReadStep
<1>2. CASE ~(job[r].deps \subseteq DOMAIN commits)
  BY <1>0, <1>2, AbortStep DEF ReadDigests
<1> QED
  BY <1>1, <1>2

\* Storing the blobs and the manifest.
LEMMA BucketSteps ==
    ASSUME Integrity, NEW r \in Requests,
           BlobExists(r) \/ BlobWrite(r) \/ ManifestExists(r) \/ ManifestWrite(r)
    PROVE  Kept
<1> USE DEF Kept
<1>0. JobOK(pc[r], job[r], digs[r], blobs, manifests, owners, commits)
  BY DEF Integrity, JobsOK
<1>1. pc[r] # "idle" /\ job[r] \in Job
  BY ItemType DEF BlobExists, BlobWrite, ManifestExists, ManifestWrite,
                  Integrity, TypeOK
<1>2. ASSUME NEW j PROVE BlobStage(j) # "createCommit"
  BY DEF BlobStage
<1>3. CASE BlobExists(r)
  <2>1. PICK e \in job[r].todo :
            LET j == [job[r] EXCEPT !.todo = @ \ {e}] IN
            IF e[2] \in blobs THEN Become(r, BlobStage(j), j)
            ELSE Become(r, "blobWrite", [j EXCEPT !.blob = {e[2]}])
    BY <1>3 DEF BlobExists
  <2> DEFINE j == [job[r] EXCEPT !.todo = @ \ {e}]
             k == [j EXCEPT !.blob = {e[2]}]
  <2>2. pc[r] = "blobExists" /\ UNCHANGED <<storageVars, clock>>
    BY <1>3 DEF BlobExists
  <2>3. /\ j.items = job[r].items /\ j.todo = job[r].todo \ {e}
        /\ j.blob = job[r].blob /\ j.deps = job[r].deps
        /\ k.items = job[r].items /\ k.todo = job[r].todo \ {e}
        /\ k.blob = {e[2]} /\ k.deps = job[r].deps
    BY <1>1 DEF Job
  <2>4. IF e[2] \in blobs THEN Become(r, BlobStage(j), j) ELSE Become(r, "blobWrite", k)
    BY <2>1
  <2> HIDE DEF j, k
  <2>5. CASE e[2] \in blobs
    <3>1. JobOK(BlobStage(j), j, digs[r], blobs, manifests, owners, commits)
      BY <1>0, <2>2, <2>3, <2>5
         DEF JobOK, BlobStage, AfterDigests, AfterBlobs, AfterManifest
    <3> QED
      BY <1>2, <2>2, <2>4, <2>5, <3>1, BecomeStep
  <2>6. CASE e[2] \notin blobs
    <3>1. JobOK("blobWrite", k, digs[r], blobs, manifests, owners, commits)
      BY <1>0, <2>2, <2>3 DEF JobOK, AfterDigests, AfterBlobs, AfterManifest
    <3> QED
      BY <2>2, <2>4, <2>6, <3>1, BecomeStep
  <2> QED
    BY <2>5, <2>6
<1>4. CASE BlobWrite(r)
  <2> DEFINE j == [job[r] EXCEPT !.blob = {}]
  <2>1. /\ j.items = job[r].items /\ j.todo = job[r].todo
        /\ j.blob = {} /\ j.deps = job[r].deps
    BY <1>1 DEF Job
  <2>2. PICK b \in job[r].blob : WriteBlob(b)
    BY <1>4 DEF BlobWrite
  <2>3. /\ pc[r] = "blobWrite" /\ Become(r, BlobStage(job[r]), j)
        /\ UNCHANGED metaVars /\ UNCHANGED clock
    BY <1>4 DEF BlobWrite
  <2> HIDE DEF j
  <2>4. /\ Only(r) /\ pc'[r] = BlobStage(job[r]) /\ job'[r] = j /\ digs' = digs
        /\ resp' = resp /\ acks' = acks
    BY <2>3, BecomeOnly DEF Integrity, TypeOK
  <2>5. Grows
    BY <2>2, <2>3 DEF Grows, WriteBlob, metaVars
  <2>6. \A c \in job[r].blob : c \in blobs'
    BY <1>0, <2>2, <2>3 DEF JobOK, WriteBlob
  <2>7. JobOK(BlobStage(job[r]), j, digs[r], blobs', manifests', owners', commits')
    <3>1. JobOK(pc[r], job[r], digs[r], blobs', manifests', owners', commits')
      BY <1>0, <2>5, JobGrows DEF Grows
    <3> QED
      BY <2>1, <2>3, <2>6, <3>1
         DEF JobOK, BlobStage, AfterDigests, AfterBlobs, AfterManifest
  <2>8. Untorn'
    BY <2>2 DEF Integrity, Untorn, ObjectsWhole, WriteBlob
  <2>9. \A m \in modules' : OwnerOf[m] \in owners'
    BY <2>3 DEF Integrity, Documents, ModulesOwned, metaVars
  <2>10. UNCHANGED <<commits, labels, clock>>
    BY <2>3 DEF metaVars
  <2> QED
    BY <1>2, <2>4, <2>5, <2>7, <2>8, <2>9, <2>10, LocalStep
<1>5. CASE ManifestExists(r)
  <2>1. CASE Files(r) \in manifests
    <3>1. JobOK("dedup", job[r], digs[r], blobs, manifests, owners, commits)
      BY <1>0, <1>5, <2>1
         DEF ManifestExists, JobOK, Files, Item1, AfterDigests, AfterBlobs, AfterManifest
    <3> QED
      BY <1>5, <2>1, <3>1, BecomeStep DEF ManifestExists, Goto
  <2>2. CASE Files(r) \notin manifests
    <3>1. JobOK("manifestWrite", job[r], digs[r], blobs, manifests, owners, commits)
      BY <1>0, <1>5 DEF ManifestExists, JobOK, AfterDigests, AfterBlobs, AfterManifest
    <3> QED
      BY <1>5, <2>2, <3>1, BecomeStep DEF ManifestExists, Goto
  <2> QED
    BY <2>1, <2>2
<1>6. CASE ManifestWrite(r)
  <2>1. /\ pc[r] = "manifestWrite" /\ WriteManifest(Files(r)) /\ Goto(r, "dedup")
        /\ UNCHANGED metaVars /\ UNCHANGED clock
    BY <1>6 DEF ManifestWrite
  <2>2. /\ Only(r) /\ pc'[r] = "dedup" /\ job'[r] = job[r] /\ digs' = digs
        /\ resp' = resp /\ acks' = acks
    BY <2>1, BecomeOnly DEF Goto, Integrity, TypeOK
  <2>3. Grows
    BY <2>1 DEF Grows, WriteManifest, metaVars
  <2>4. JobOK("dedup", job[r], digs[r], blobs', manifests', owners', commits')
    <3>1. JobOK(pc[r], job[r], digs[r], blobs', manifests', owners', commits')
      BY <1>0, <2>3, JobGrows DEF Grows
    <3>2. Files(r) \in manifests'
      BY <2>1 DEF WriteManifest
    <3> QED
      BY <2>1, <3>1, <3>2
         DEF JobOK, Files, Item1, AfterDigests, AfterBlobs, AfterManifest
  <2>5. Untorn'
    BY <2>1 DEF Integrity, Untorn, ObjectsWhole, WriteManifest
  <2>6. /\ UNCHANGED <<commits, labels, clock>>
        /\ \A m \in modules' : OwnerOf[m] \in owners'
    BY <2>1 DEF Integrity, Documents, ModulesOwned, metaVars
  <2> QED
    BY <2>2, <2>3, <2>4, <2>5, <2>6, LocalStep
<1> QED
  BY <1>3, <1>4, <1>5, <1>6

\* Searching for an equal commit.
LEMMA DedupStep ==
    ASSUME Integrity, NEW r \in Requests, Dedup(r)
    PROVE  Kept
<1> USE DEF Kept
<1>0. /\ JobOK(pc[r], job[r], digs[r], blobs, manifests, owners, commits)
      /\ pc[r] = "dedup" /\ UNCHANGED <<storageVars, clock>>
  BY DEF Integrity, JobsOK, Dedup
<1>1. job[r] \in Job
  BY <1>0, ItemType DEF Integrity, TypeOK
<1>2. ASSUME Goto(r, "newID") PROVE Kept
  <2>1. JobOK("newID", job[r], digs[r], blobs, manifests, owners, commits)
    BY <1>0 DEF JobOK, AfterDigests, AfterBlobs, AfterManifest
  <2> QED
    BY <1>0, <1>2, <2>1, BecomeStep DEF Goto
<1>3. ASSUME NEW c \in MatchingCommits(Files(r)), commits[c].mod = Mod(r),
             Become(r, "label", [job[r] EXCEPT !.cid = c])
      PROVE  Kept
  <2> DEFINE j == [job[r] EXCEPT !.cid = c]
  <2>1. /\ j.items = job[r].items /\ j.todo = job[r].todo /\ j.blob = job[r].blob
        /\ j.deps = job[r].deps /\ j.cid = c
    BY <1>1 DEF Job
  <2>2. c \in DOMAIN commits /\ commits[c].files = Files(r)
    BY DEF MatchingCommits
  <2>3. Become(r, "label", j)
    BY <1>3
  <2> HIDE DEF j
  <2>4. JobOK("label", j, digs[r], blobs, manifests, owners, commits)
    BY <1>0, <1>3, <2>1, <2>2
       DEF JobOK, Mod, Files, Item1, AfterDigests, AfterBlobs, AfterManifest
  <2> QED
    BY <1>0, <2>3, <2>4, BecomeStep
<1> QED
  BY <1>2, <1>3 DEF Dedup

\* Drawing an ID: it is larger than those of all commits, the dependencies
\* among them, and no other request has it.
LEMMA IDStep ==
    ASSUME Integrity, NEW r \in Requests, NewID(r)
    PROVE  Kept
<1> USE DEF Kept
<1> DEFINE j == [job[r] EXCEPT !.cid = clock]
<1>0. /\ JobOK(pc[r], job[r], digs[r], blobs, manifests, owners, commits)
      /\ pc[r] = "newID" /\ clock' = clock + 1 /\ UNCHANGED storageVars
      /\ Become(r, "createCommit", j)
  BY DEF Integrity, JobsOK, NewID
<1>1. job[r] \in Job /\ clock \in Nat
  BY <1>0, ItemType DEF Integrity, TypeOK, CounterTypeOK, CommitIDs
<1>2. /\ j.items = job[r].items /\ j.todo = job[r].todo /\ j.blob = job[r].blob
      /\ j.deps = job[r].deps /\ j.cid = clock
  BY <1>1 DEF Job
<1> HIDE DEF j
<1>3. /\ Only(r) /\ pc'[r] = "createCommit" /\ job'[r] = j /\ digs' = digs
      /\ resp' = resp /\ acks' = acks
  BY <1>0, BecomeOnly DEF Integrity, TypeOK
<1>4. JobOK("createCommit", j, digs[r], blobs, manifests, owners, commits)
  <2>1. \A d \in j.deps : d < j.cid
    BY <1>0, <1>2 DEF Integrity, FreshIDs, JobOK, AfterDigests, AfterBlobs, AfterManifest
  <2> QED
    BY <1>0, <1>2, <2>1 DEF JobOK, AfterDigests, AfterBlobs, AfterManifest
<1>5. JobsOK'
  <2>1. Grows
    BY <1>0 DEF Grows, storageVars, bucketVars, metaVars
  <2>2. JobOK(pc'[r], job'[r], digs'[r], blobs', manifests', owners', commits')
    BY <1>0, <1>3, <1>4 DEF storageVars, bucketVars, metaVars
  <2> QED
    BY <1>3, <2>1, <2>2, OthersGrow DEF Integrity
<1>6. FreshIDs'
  <2>0. commits' = commits
    BY <1>0 DEF storageVars, metaVars
  <2>1. \A c \in DOMAIN commits : c \in Nat /\ c < clock
    BY DEF Integrity, FreshIDs, TypeOK, StorageTypeOK, CommitIDs
  <2>2. \A q \in Requests : q # r /\ pc'[q] = "createCommit" =>
            /\ pc[q] = "createCommit" /\ job'[q] = job[q]
            /\ job[q].cid \in Nat /\ job[q].cid < clock
            /\ job[q].cid \notin DOMAIN commits
    BY <1>3 DEF Only, Integrity, FreshIDs, TypeOK, LocalTypeOK, Job, CommitIDs
  <2>3. job'[r].cid = clock
    BY <1>2, <1>3
  <2>4. \A c \in DOMAIN commits' : c < clock'
    BY <1>0, <1>1, <2>0, <2>1
  <2>5. \A q \in Requests : pc'[q] = "createCommit" =>
            job'[q].cid < clock' /\ job'[q].cid \notin DOMAIN commits'
    BY <1>0, <1>1, <2>0, <2>1, <2>2, <2>3
  <2>6. \A p, q \in Requests :
            p # q /\ pc'[p] = "createCommit" /\ pc'[q] = "createCommit"
                => job'[p].cid # job'[q].cid
    BY <1>1, <2>2, <2>3 DEF Integrity, FreshIDs
  <2> QED
    BY <2>4, <2>5, <2>6 DEF FreshIDs
<1>7. ResultsOK' /\ Untorn' /\ Documents'
  BY <1>0, <1>3 DEF Integrity, ResultsOK, ResultOK, Untorn, ObjectsWhole, Documents,
       CommitsStored, LabelsResolve, DepsOlder, DigestsMatch, ModulesOwned,
       storageVars, bucketVars, metaVars
<1> QED
  BY <1>5, <1>6, <1>7

\* Creating the commit: all that it needs is there.
LEMMA CommitStep ==
    ASSUME Integrity, NEW r \in Requests, PutCommit(r)
    PROVE  Kept
<1> USE DEF Kept
<1> DEFINE id == job[r].cid
           new == [ mod |-> Mod(r), files |-> Files(r), deps |-> job[r].deps,
                    b5 |-> B5(Files(r), digs[r]) ]
<1>0. /\ JobOK(pc[r], job[r], digs[r], blobs, manifests, owners, commits)
      /\ pc[r] = "createCommit" /\ UNCHANGED bucketVars /\ clock' = clock
      /\ CreateCommit(id, new) /\ Goto(r, "label")
  BY DEF Integrity, JobsOK, PutCommit
<1>1. id \notin DOMAIN commits /\ id < clock
  BY <1>0 DEF Integrity, FreshIDs
<1>2. /\ commits' = Bind(commits, id, new)
      /\ UNCHANGED <<owners, modules, labels>>
  BY <1>0, <1>1 DEF CreateCommit
<1>3. /\ DOMAIN commits' = DOMAIN commits \cup {id}
      /\ commits'[id] = new
      /\ \A c \in DOMAIN commits : commits'[c] = commits[c]
  BY <1>1, <1>2 DEF Bind
<1>4. /\ new.mod = Mod(r) /\ new.files = Files(r) /\ new.deps = job[r].deps
      /\ new.b5 = B5(Files(r), digs[r])
  OBVIOUS
<1> HIDE DEF new, id
<1>5. /\ Only(r) /\ pc'[r] = "label" /\ job' = job /\ digs' = digs
      /\ resp' = resp /\ acks' = acks
  BY <1>0, BecomeOnly DEF Goto, Become, Integrity, TypeOK, LocalTypeOK
<1>6. Grows
  BY <1>0, <1>2, <1>3 DEF Grows, bucketVars
<1>7. JobsOK'
  <2>1. JobOK(pc[r], job[r], digs[r], blobs', manifests', owners', commits')
    BY <1>0, <1>6, JobGrows DEF Grows
  <2>2. JobOK("label", job[r], digs[r], blobs', manifests', owners', commits')
    BY <1>0, <1>3, <1>4, <2>1
       DEF id, JobOK, Mod, Files, Item1, AfterDigests, AfterBlobs, AfterManifest
  <2> QED
    BY <1>5, <1>6, <2>2, OthersGrow DEF Integrity
<1>8. FreshIDs'
  <2>1. \A q \in Requests : pc'[q] = "createCommit" =>
            q # r /\ pc[q] = "createCommit" /\ job'[q] = job[q]
    BY <1>5 DEF Only
  <2> QED
    BY <1>0, <1>1, <1>3, <2>1 DEF Integrity, FreshIDs, id
<1>9. ResultsOK' /\ Untorn'
  BY <1>0, <1>3, <1>5 DEF Integrity, ResultsOK, ResultOK, Untorn, ObjectsWhole, bucketVars
<1>10. Documents'
  <2>1. /\ Files(r) \in manifests
        /\ \A e \in Files(r) : e[2] \in blobs
        /\ job[r].deps \subseteq DOMAIN commits
        /\ digs[r] = [d \in job[r].deps |-> commits[d].b5]
        /\ \A d \in job[r].deps : d < id
    BY <1>0 DEF JobOK, Files, Item1, id, AfterDigests, AfterBlobs, AfterManifest
  <2>2. CommitsStored'
    BY <1>0, <1>3, <1>4, <2>1
       DEF Integrity, Documents, CommitsStored, ContentsOf, bucketVars
  <2>3. LabelsResolve'
    BY <1>2, <1>3 DEF Integrity, Documents, LabelsResolve
  <2>4. DepsOlder'
    BY <1>3, <1>4, <2>1 DEF Integrity, Documents, DepsOlder
  <2>5. DigestsMatch'
    <3>1. ASSUME NEW c \in DOMAIN commits
          PROVE  commits'[c].b5 =
                   B5(commits'[c].files, [d \in commits'[c].deps |-> commits'[d].b5])
      <4>1. commits[c].deps \subseteq DOMAIN commits
        BY DEF Integrity, Documents, DepsOlder
      <4>2. [d \in commits[c].deps |-> commits'[d].b5] =
            [d \in commits[c].deps |-> commits[d].b5]
        BY <1>3, <4>1
      <4>3. commits[c].b5 =
              B5(commits[c].files, [d \in commits[c].deps |-> commits[d].b5])
        BY DEF Integrity, Documents, DigestsMatch
      <4> QED
        BY <1>3, <4>2, <4>3
    <3>2. [d \in job[r].deps |-> commits'[d].b5] = digs[r]
      BY <1>3, <2>1
    <3>3. commits'[id].b5 =
            B5(commits'[id].files, [d \in commits'[id].deps |-> commits'[d].b5])
      BY <1>3, <1>4, <3>2
    <3> QED
      BY <1>3, <3>1, <3>3 DEF DigestsMatch
  <2>6. ModulesOwned'
    BY <1>2 DEF Integrity, Documents, ModulesOwned
  <2> QED
    BY <2>2, <2>3, <2>4, <2>5, <2>6 DEF Documents
<1> QED
  BY <1>7, <1>8, <1>9, <1>10

\* Moving a label: the commit it moves to is there, and of the module.
LEMMA LabelStep ==
    ASSUME Integrity, NEW r \in Requests, UpdateLabel(r)
    PROVE  Kept
<1> USE DEF Kept
<1>0. /\ JobOK(pc[r], job[r], digs[r], blobs, manifests, owners, commits)
      /\ pc[r] = "label" /\ UNCHANGED bucketVars /\ clock' = clock
  BY DEF Integrity, JobsOK, UpdateLabel
<1>1. job[r] \in Job /\ Mod(r) \in Modules
  BY <1>0, ItemType DEF Integrity, TypeOK
<1>2. PICK n \in job[r].labels :
          /\ CreateOrUpdateLabel(<<Mod(r), n>>, job[r].cid)
          /\ IF job[r].labels = {n} THEN EndItem(r, {Result(r)})
             ELSE Become(r, "label", [job[r] EXCEPT !.labels = @ \ {n}])
  BY DEF UpdateLabel
<1>3. /\ labels' = Bind(labels, <<Mod(r), n>>, job[r].cid)
      /\ UNCHANGED <<owners, modules, commits>>
  BY <1>2 DEF CreateOrUpdateLabel
<1>4. /\ job[r].cid \in DOMAIN commits
      /\ commits[job[r].cid].mod = Mod(r)
      /\ commits[job[r].cid].files = Files(r)
  BY <1>0 DEF JobOK, Mod, Files, Item1
<1>5. Grows
  BY <1>0, <1>3 DEF Grows, bucketVars
<1>6. /\ Only(r) /\ pc'[r] # "createCommit"
      /\ JobOK(pc'[r], job'[r], digs'[r], blobs', manifests', owners', commits')
      /\ resp'[r] \subseteq resp[r] \cup {Result(r)}
      /\ acks' \subseteq acks \cup resp[r] \cup {Result(r)}
  <2>1. CASE job[r].labels = {n}
    BY <1>0, <1>2, <2>1, EndItemOnly DEF Integrity, TypeOK
  <2>2. CASE job[r].labels # {n}
    <3> DEFINE j == [job[r] EXCEPT !.labels = @ \ {n}]
    <3>1. /\ j.items = job[r].items /\ j.todo = job[r].todo /\ j.blob = job[r].blob
          /\ j.deps = job[r].deps /\ j.cid = job[r].cid
      BY <1>1 DEF Job
    <3>2. Become(r, "label", j)
      BY <1>2, <2>2
    <3> HIDE DEF j
    <3>3. JobOK("label", j, digs[r], blobs, manifests, owners, commits)
      BY <1>0, <3>1 DEF JobOK, AfterDigests, AfterBlobs, AfterManifest
    <3>4. /\ Only(r) /\ pc'[r] = "label" /\ job'[r] = j /\ digs' = digs
          /\ resp' = resp /\ acks' = acks
      BY <3>2, BecomeOnly DEF Integrity, TypeOK
    <3> QED
      BY <1>0, <1>3, <3>3, <3>4 DEF bucketVars
  <2> QED
    BY <2>1, <2>2
<1>7. JobsOK'
  BY <1>5, <1>6, OthersGrow DEF Integrity
<1>8. FreshIDs'
  <2>1. \A q \in Requests : pc'[q] = "createCommit" =>
            q # r /\ pc[q] = "createCommit" /\ job'[q] = job[q]
    BY <1>6 DEF Only
  <2> QED
    BY <1>0, <1>3, <2>1 DEF Integrity, FreshIDs
<1>9. ResultsOK'
  <2>1. ResultOK(Result(r), commits)
    BY <1>4 DEF ResultOK, Result
  <2>2. \A q \in Requests : q # r => resp'[q] = resp[q]
    BY <1>6 DEF Only
  <2>3. \A q \in Requests : \A a \in resp'[q] : ResultOK(a, commits)
    BY <1>6, <2>1, <2>2 DEF Integrity, ResultsOK
  <2>4. Durable => \A a \in acks' : ResultOK(a, commits)
    BY <1>6, <2>1 DEF Integrity, ResultsOK
  <2> QED
    BY <1>3, <2>3, <2>4 DEF ResultsOK
<1>10. Untorn'
  BY <1>0 DEF Integrity, Untorn, ObjectsWhole, bucketVars
<1>11. Documents'
  <2>1. LabelsResolve'
    BY <1>3, <1>4 DEF Integrity, Documents, LabelsResolve, Bind
  <2>2. CommitsStored' /\ DepsOlder' /\ DigestsMatch' /\ ModulesOwned'
    BY <1>0, <1>3 DEF Integrity, Documents, CommitsStored, DepsOlder,
                      DigestsMatch, ModulesOwned, bucketVars
  <2> QED
    BY <2>1, <2>2 DEF Documents
<1> QED
  BY <1>7, <1>8, <1>9, <1>10, <1>11

-----------------------------------------------------------------------------
(***************************************************************************)
(* Failures, crashes and new requests.                                     *)
(***************************************************************************)

LEMMA FailSteps ==
    ASSUME Integrity, NEW r \in Requests,
           FailSwallowed(r) \/ FailWrite(r) \/ FailCall(r)
    PROVE  Kept
<1> USE DEF Kept
<1>0. /\ JobOK(pc[r], job[r], digs[r], blobs, manifests, owners, commits)
      /\ clock' = clock
  BY DEF Integrity, JobsOK, FailSwallowed, FailWrite, FailCall, Fault
<1>1. CASE FailSwallowed(r)
  <2>0. /\ pc[r] \in {"owners", "modules", "probe", "dedup"}
        /\ UNCHANGED <<storageVars, clock>>
    BY <1>0, <1>1 DEF FailSwallowed
  <2>1. job[r] \in Job
    BY <2>0, ItemType DEF Integrity, TypeOK
  <2>2. ASSUME NEW j, Scan(r, j), pc[r] # "dedup", j.items = job[r].items,
               j.todo = job[r].todo, j.blob = job[r].blob
        PROVE  Kept
    <3>1. ScanStage(j) \in {"probe", "modules", "owners", "digests"}
      BY DEF ScanStage
    <3>2. JobOK(ScanStage(j), j, digs[r], blobs, manifests, owners, commits)
      BY <1>0, <2>0, <2>2, <3>1, EarlyJob
    <3> QED
      BY <2>0, <2>2, <3>1, <3>2, BecomeStep DEF Scan
  <2>3. ASSUME NEW i \in job[r].imports, pc[r] = "owners",
               Scan(r, [job[r] EXCEPT !.imports = @ \ {i}])
        PROVE  Kept
    <3> DEFINE j == [job[r] EXCEPT !.imports = @ \ {i}]
    <3>1. j.items = job[r].items /\ j.todo = job[r].todo /\ j.blob = job[r].blob
      BY <2>1 DEF Job
    <3>2. Scan(r, j)
      BY <2>3
    <3> HIDE DEF j
    <3> QED
      BY <2>2, <2>3, <3>1, <3>2
  <2>4. ASSUME NEW o \in job[r].owners, pc[r] = "modules",
               Scan(r, [job[r] EXCEPT !.owners = @ \ {o}])
        PROVE  Kept
    <3> DEFINE j == [job[r] EXCEPT !.owners = @ \ {o}]
    <3>1. j.items = job[r].items /\ j.todo = job[r].todo /\ j.blob = job[r].blob
      BY <2>1 DEF Job
    <3>2. Scan(r, j)
      BY <2>4
    <3> HIDE DEF j
    <3> QED
      BY <2>2, <2>4, <3>1, <3>2
  <2>5. ASSUME NEW m \in job[r].mods, pc[r] = "probe",
               Scan(r, [job[r] EXCEPT !.mods = @ \ {m}])
        PROVE  Kept
    <3> DEFINE j == [job[r] EXCEPT !.mods = @ \ {m}]
    <3>1. j.items = job[r].items /\ j.todo = job[r].todo /\ j.blob = job[r].blob
      BY <2>1 DEF Job
    <3>2. Scan(r, j)
      BY <2>5
    <3> HIDE DEF j
    <3> QED
      BY <2>2, <2>5, <3>1, <3>2
  <2>6. ASSUME pc[r] = "dedup", Goto(r, "newID") PROVE Kept
    <3>1. JobOK("newID", job[r], digs[r], blobs, manifests, owners, commits)
      BY <1>0, <2>6 DEF JobOK, AfterDigests, AfterBlobs, AfterManifest
    <3> QED
      BY <2>0, <2>6, <3>1, BecomeStep DEF Goto
  <2> QED
    BY <1>1, <2>3, <2>4, <2>5, <2>6 DEF FailSwallowed
<1>2. CASE FailWrite(r)
  <2>1. /\ Abort(r) /\ UNCHANGED metaVars
        /\ blobs \subseteq blobs' /\ manifests \subseteq manifests'
        /\ ~PartialPublish => UNCHANGED bucketVars
    BY <1>2 DEF FailWrite, TearBlob, TearManifest, bucketVars
  <2>2. Only(r) /\ pc'[r] = "idle" /\ resp'[r] = {} /\ acks' = acks
    BY <2>1, FinishOnly DEF Abort, Integrity, TypeOK
  <2>3. /\ Grows /\ UNCHANGED <<commits, labels, clock>>
        /\ \A m \in modules' : OwnerOf[m] \in owners'
    BY <1>0, <2>1 DEF Grows, metaVars, Integrity, Documents, ModulesOwned
  <2>4. Untorn'
    BY <2>1 DEF Integrity, Untorn, ObjectsWhole, bucketVars
  <2>5. JobOK(pc'[r], job'[r], digs'[r], blobs', manifests', owners', commits')
    BY <2>2 DEF JobOK
  <2> QED
    BY <2>2, <2>3, <2>4, <2>5, LocalStep
<1>3. CASE FailCall(r)
  BY <1>0, <1>3, AbortStep DEF FailCall
<1> QED
  BY <1>1, <1>2, <1>3

\* A new request starts in order.
LEMMA StartStep ==
    ASSUME Integrity, NEW r \in Requests, Start(r)
    PROVE  Kept
<1> USE DEF Kept
<1>1. PICK call \in Calls, given \in SUBSET (DOMAIN commits \cup ForeignIDs) :
          /\ pc' = [pc EXCEPT ![r] = StartStage(call.kind, Head(call.items))]
          /\ job' = [job EXCEPT ![r] = Load(call.kind, call.items, given)]
  BY DEF Start
<1>2. call.kind \in Kinds /\ call.items \in Seq(Item) \ {<<>>}
  BY RegistryAssumption DEF RegistryAssumption, Call
<1>3. given \in SUBSET CommitIDs
  <2>1. DOMAIN commits \subseteq CommitIDs
    BY DEF Integrity, TypeOK, StorageTypeOK
  <2>2. ForeignIDs \subseteq {0} /\ 0 \in CommitIDs
    BY RegistryAssumption DEF RegistryAssumption, CommitIDs
  <2> QED
    BY <2>1, <2>2, Zenon
<1>4. /\ Only(r) /\ UNCHANGED <<storageVars, clock, acks, resp>>
      /\ pc'[r] = StartStage(call.kind, Head(call.items))
      /\ job'[r] = Load(call.kind, call.items, given)
  BY <1>1 DEF Start, Only, Integrity, TypeOK, LocalTypeOK
<1> DEFINE kind == call.kind
           items == call.items
<1> HIDE DEF kind, items
<1>5. /\ JobOK(StartStage(kind, Head(items)), Load(kind, items, given),
               digs'[r], blobs, manifests, owners, commits)
      /\ StartStage(kind, Head(items)) # "createCommit"
  BY <1>2, <1>3, LoadOK DEF kind, items
<1> QED
  BY <1>4, <1>5, ReadStep DEF kind, items

\* A crash leaves no request under way, and all of the documents or none.
LEMMA CrashStep ==
    ASSUME Integrity, Crash
    PROVE  Kept
<1> USE DEF Kept
<1>1. /\ \A r \in Requests : pc'[r] = "idle" /\ resp'[r] = {}
      /\ UNCHANGED <<bucketVars, clock, acks>>
  BY DEF Crash
<1>2. CASE Durable
  <2>1. UNCHANGED metaVars
    BY <1>2 DEF Crash, LoseMemory
  <2> QED
    BY <1>1, <2>1
       DEF Integrity, JobsOK, JobOK, FreshIDs, ResultsOK, Untorn, ObjectsWhole,
           Documents, CommitsStored, LabelsResolve, DepsOlder, DigestsMatch,
           ModulesOwned, metaVars, bucketVars
<1>3. CASE ~Durable
  <2>1. modules' = {} /\ DOMAIN commits' = {} /\ DOMAIN labels' = {}
    BY <1>3 DEF Crash, LoseMemory
  <2> QED
    BY <1>1, <1>3, <2>1
       DEF Integrity, JobsOK, JobOK, FreshIDs, ResultsOK, Untorn, ObjectsWhole,
           Documents, CommitsStored, LabelsResolve, DepsOlder, DigestsMatch,
           ModulesOwned, bucketVars
<1> QED
  BY <1>2, <1>3

-----------------------------------------------------------------------------
(***************************************************************************)
(* The theorems.                                                           *)
(***************************************************************************)

LEMMA InitIntegrity == Init => Integrity
<1> SUFFICES ASSUME Init PROVE Integrity
  OBVIOUS
<1>1. TypeOK
  BY InitType
<1>2. /\ DOMAIN commits = {} /\ DOMAIN labels = {} /\ modules = {}
      /\ acks = {} /\ tornBlobs = {} /\ tornManifests = {}
      /\ \A r \in Requests : pc[r] = "idle" /\ resp[r] = {}
  BY DEF Init, StorageInit
<1> QED
  BY <1>1, <1>2 DEF Integrity, JobsOK, JobOK, FreshIDs, ResultsOK, Untorn,
       ObjectsWhole, Documents, CommitsStored, LabelsResolve, DepsOlder,
       DigestsMatch, ModulesOwned

LEMMA NextIntegrity == Integrity /\ [Next]_vars => Integrity'
<1> SUFFICES ASSUME Integrity, [Next]_vars PROVE Integrity'
  OBVIOUS
<1>1. TypeOK'
  BY NextType DEF Integrity
<1>2. ASSUME UNCHANGED vars PROVE Kept
  BY <1>2 DEF Kept, Integrity, JobsOK, FreshIDs, ResultsOK, ResultOK, Untorn,
       ObjectsWhole, Documents, CommitsStored, LabelsResolve, DepsOlder,
       DigestsMatch, ModulesOwned, vars, localVars, storageVars, bucketVars, metaVars
<1>3. ASSUME NEW r \in Requests, Step(r) PROVE Kept
  BY <1>3, ModuleSteps, ScanSteps, DigestStep, BucketSteps, DedupStep, IDStep,
     CommitStep, LabelStep DEF Step
<1>4. Kept
  BY <1>2, <1>3, StartStep, FailSteps, CrashStep DEF Next, Quiet
<1> QED
  BY <1>1, <1>4 DEF Integrity, Kept

\* The inductive invariant holds in every state.
THEOREM IntegrityHolds == Spec => []Integrity
BY InitIntegrity, NextIntegrity, PTL DEF Spec

\* Whatever requests interleave, fail or die: nothing a commit lists is
\* missing from the bucket.  CreateCommit stores blobs, manifest and document
\* in this order.
THEOREM CommitsAlwaysStored == Spec => []CommitsStored
<1>1. Integrity => CommitsStored
  BY DEF Integrity, Documents
<1> QED
  BY <1>1, IntegrityHolds, PTL

\* If the bucket publishes no partial objects, every commit can be downloaded
\* in full at every moment.
THEOREM CommitsAlwaysReadable ==
    ASSUME ~PartialPublish
    PROVE  Spec => []CommitsReadable
<1>1. Integrity => CommitsReadable
  BY DEF Integrity, Documents, CommitsStored, CommitsReadable, Readable, Untorn, ObjectsWhole
<1> QED
  BY <1>1, IntegrityHolds, PTL

\* A label never names a commit that is missing or of another module.
THEOREM LabelsAlwaysResolve == Spec => []LabelsResolve
<1>1. Integrity => LabelsResolve
  BY DEF Integrity, Documents
<1> QED
  BY <1>1, IntegrityHolds, PTL

\* Dependencies exist and are older than what depends on them: the graphs that
\* the graph service walks are acyclic.
THEOREM DepsAlwaysOlder == Spec => []DepsOlder
<1>1. Integrity => DepsOlder
  BY DEF Integrity, Documents
<1> QED
  BY <1>1, IntegrityHolds, PTL

\* The stored B5 digest of a commit is that of its files and dependencies.
THEOREM DigestsAlwaysMatch == Spec => []DigestsMatch
<1>1. Integrity => DigestsMatch
  BY DEF Integrity, Documents
<1> QED
  BY <1>1, IntegrityHolds, PTL

\* Every module has its owner's document, although they are created by two
\* calls that other requests can come between.
THEOREM ModulesAlwaysOwned == Spec => []ModulesOwned
<1>1. Integrity => ModulesOwned
  BY DEF Integrity, Documents
<1> QED
  BY <1>1, IntegrityHolds, PTL

-----------------------------------------------------------------------------
(***************************************************************************)
(* The module of a commit: Download looks it up first.  It exists or some  *)
(* request has deleted it, since a push goes on to its commit only once    *)
(* the module is there.                                                    *)
(***************************************************************************)

Created == modules \cup deleted

\* The stages of a push whose module has been found or created.
Housed == {"owners", "modules", "probe", "digests"} \cup AfterDigests

PushesHoused == \A r \in Requests : pc[r] \in Housed => Mod(r) \in Created
CommitsHoused == \A c \in DOMAIN commits : commits[c].mod \in Created
Homes == PushesHoused /\ CommitsHoused

\* How a step of r keeps its push housed: it stays with the item, and has
\* found the module before or finds it now.
Stays(r) ==
    /\ \A q \in Requests : q # r => pc'[q] = pc[q] /\ job'[q] = job[q]
    /\ pc'[r] \in Housed =>
           /\ job'[r].items = job[r].items
           /\ pc[r] \in Housed \/ Mod(r) \in modules'

\* Moving on with the same items,
LEMMA BecomeStays ==
    ASSUME TypeOK, NEW r \in Requests, NEW s, NEW j, Become(r, s, j),
           j.items = job[r].items,
           s \in Housed => pc[r] \in Housed \/ Mod(r) \in modules'
    PROVE  Stays(r)
<1>1. Only(r) /\ pc'[r] = s /\ job'[r] = j
  BY BecomeOnly DEF TypeOK
<1> QED
  BY <1>1 DEF Only, Stays

\* with an unchanged job,
LEMMA GotoStays ==
    ASSUME TypeOK, NEW r \in Requests, NEW s, Goto(r, s),
           s \in Housed => pc[r] \in Housed \/ Mod(r) \in modules'
    PROVE  Stays(r)
BY BecomeStays DEF Goto

\* to the end of the request,
LEMMA FinishStays ==
    ASSUME TypeOK, NEW r \in Requests, NEW result, Finish(r, result)
    PROVE  Stays(r)
<1>1. Only(r) /\ pc'[r] = "idle" /\ "idle" \notin Housed
  BY FinishOnly DEF TypeOK, Housed, AfterDigests, AfterBlobs, AfterManifest
<1> QED
  BY <1>1 DEF Only, Stays

\* to the next item,
LEMMA EndItemStays ==
    ASSUME TypeOK, NEW r \in Requests, pc[r] # "idle", NEW result, EndItem(r, result)
    PROVE  Stays(r)
<1> DEFINE rest == Tail(job[r].items)
<1>1. CASE rest = <<>>
  BY <1>1, FinishStays DEF EndItem
<1>2. CASE rest # <<>>
  <2>1. PICK k, t : k = job[r].kind /\ t = rest
    OBVIOUS
  <2>2. pc'[r] = StartStage(k, Head(t)) /\ Only(r)
    BY <1>2, <2>1 DEF EndItem, TypeOK, LocalTypeOK, Only
  <2>3. t \in Seq(Item) \ {<<>>} /\ k \in Kinds
    BY <1>2, <2>1, ItemType DEF TypeOK, Job
  <2>4. StartStage(k, Head(t)) \notin Housed
    BY <2>3 DEF StartStage, FirstStage, Kinds, Housed, AfterDigests, AfterBlobs, AfterManifest
  <2> QED
    BY <2>2, <2>4 DEF Only, Stays
<1> QED
  BY <1>1, <1>2

\* on from the module,
LEMMA HaveModuleStays ==
    ASSUME TypeOK, NEW r \in Requests, pc[r] # "idle", HaveModule(r), Mod(r) \in modules'
    PROVE  Stays(r)
<1>1. CASE job[r].kind = "create"
  BY <1>1, EndItemStays DEF HaveModule
<1>2. CASE job[r].kind # "create"
  <2> DEFINE imports == IF job[r].given = {} THEN ImportsIn(Files(r)) ELSE {}
             j == [job[r] EXCEPT !.imports = imports, !.deps = @ \cup job[r].given]
             t == IF imports = {} THEN "digests" ELSE "owners"
  <2>1. Become(r, t, j)
    BY <1>2 DEF HaveModule
  <2>2. j.items = job[r].items
    BY ItemType DEF TypeOK, Job
  <2> HIDE DEF j, t
  <2> QED
    BY <2>1, <2>2, BecomeStays
<1> QED
  BY <1>1, <1>2

\* or while dependencies are looked for.
LEMMA ScanStays ==
    ASSUME TypeOK, NEW r \in Requests, pc[r] \in Housed, NEW j, Scan(r, j),
           j.items = job[r].items
    PROVE  Stays(r)
BY BecomeStays DEF Scan

\* So every step of a request keeps its push housed,
LEMMA StepStays ==
    ASSUME TypeOK, NEW r \in Requests, Step(r)
    PROVE  Stays(r)
<1>0. pc[r] # "idle" /\ job[r] \in Job
  BY DEF Step, Resolve, GetModule, GetOwner, PutOwner, PutModule, Reload,
         DeleteLookup, RemoveModule, ListOwners, ListModules, Probe,
         ReadDigests, BlobExists, BlobWrite, ManifestExists, ManifestWrite,
         Dedup, NewID, PutCommit, UpdateLabel, TypeOK, LocalTypeOK
<1>1. /\ {"owners", "modules", "probe", "digests", "blobExists", "blobWrite",
          "manifestExists", "manifestWrite", "dedup", "newID", "createCommit",
          "label"} \subseteq Housed
      /\ Housed \cap {"getModule", "getOwner", "delGet", "createOwner",
                      "createModule", "reload", "delete"} = {}
  BY DEF Housed, AfterDigests, AfterBlobs, AfterManifest
<1>2. ASSUME NEW s, Goto(r, s), s \in Housed => pc[r] \in Housed PROVE Stays(r)
  BY <1>2, GotoStays
<1>3. CASE Abort(r)
  BY <1>3, FinishStays DEF Abort
<1>4. CASE Resolve(r)
  <2>1. FirstStage(job[r].kind) \notin Housed
    BY <1>1 DEF FirstStage
  <2> QED
    BY <1>2, <1>3, <1>4, <2>1 DEF Resolve
<1>5. CASE HaveModule(r) /\ Mod(r) \in modules'
  BY <1>0, <1>5, HaveModuleStays
<1>6. CASE GetModule(r) \/ GetOwner(r) \/ PutOwner(r) \/ PutModule(r) \/ Reload(r)
  BY <1>1, <1>2, <1>3, <1>5, <1>6 DEF GetModule, GetOwner, PutOwner, PutModule,
     CreateModule, Reload, storageVars, metaVars
<1>7. CASE DeleteLookup(r) \/ RemoveModule(r)
  BY <1>0, <1>1, <1>2, <1>3, <1>7, EndItemStays DEF DeleteLookup, RemoveModule
<1>8. CASE ListOwners(r)
  <2>1. PICK i \in job[r].imports :
            Scan(r, [job[r] EXCEPT !.imports = @ \ {i}, !.imp = {i}, !.owners = owners])
    BY <1>8 DEF ListOwners
  <2> DEFINE j == [job[r] EXCEPT !.imports = @ \ {i}, !.imp = {i}, !.owners = owners]
  <2>2. j.items = job[r].items /\ Scan(r, j) /\ pc[r] \in Housed
    BY <1>0, <1>1, <1>8, <2>1 DEF Job, ListOwners
  <2> HIDE DEF j
  <2> QED
    BY <2>2, ScanStays
<1>9. CASE ListModules(r)
  <2>1. PICK o \in job[r].owners :
            Scan(r, [job[r] EXCEPT !.owners = @ \ {o}, !.mods = ModulesOf(o)])
    BY <1>9 DEF ListModules
  <2> DEFINE j == [job[r] EXCEPT !.owners = @ \ {o}, !.mods = ModulesOf(o)]
  <2>2. j.items = job[r].items /\ Scan(r, j) /\ pc[r] \in Housed
    BY <1>0, <1>1, <1>9, <2>1 DEF Job, ListModules
  <2> HIDE DEF j
  <2> QED
    BY <2>2, ScanStays
<1>10. CASE Probe(r)
  <2>1. PICK m \in job[r].mods :
            \/ Scan(r, [job[r] EXCEPT !.owners = {}, !.mods = {},
                                      !.deps = @ \cup {labels[<<m, Main>>]}])
            \/ Scan(r, [job[r] EXCEPT !.mods = @ \ {m}])
    BY <1>10 DEF Probe
  <2> DEFINE j == [job[r] EXCEPT !.owners = {}, !.mods = {},
                                 !.deps = @ \cup {labels[<<m, Main>>]}]
             k == [job[r] EXCEPT !.mods = @ \ {m}]
  <2>2. /\ j.items = job[r].items /\ k.items = job[r].items
        /\ Scan(r, j) \/ Scan(r, k)
        /\ pc[r] \in Housed
    BY <1>0, <1>1, <1>10, <2>1 DEF Job, Probe
  <2> HIDE DEF j, k
  <2> QED
    BY <2>2, ScanStays
<1>11. CASE ReadDigests(r)
  <2>1. CASE ~Abort(r)
    <3>1. /\ pc' = [pc EXCEPT ![r] = BlobStage(job[r])] /\ job' = job
          /\ pc[r] \in Housed
      BY <1>1, <1>11, <2>1 DEF ReadDigests
    <3> QED
      BY <3>1 DEF Stays, TypeOK, LocalTypeOK
  <2> QED
    BY <1>3, <2>1
<1>12. CASE BlobExists(r)
  <2>1. PICK e \in job[r].todo :
            LET j == [job[r] EXCEPT !.todo = @ \ {e}] IN
            IF e[2] \in blobs THEN Become(r, BlobStage(j), j)
            ELSE Become(r, "blobWrite", [j EXCEPT !.blob = {e[2]}])
    BY <1>12 DEF BlobExists
  <2> DEFINE j == [job[r] EXCEPT !.todo = @ \ {e}]
             k == [j EXCEPT !.blob = {e[2]}]
  <2>2. j.items = job[r].items /\ k.items = job[r].items /\ pc[r] \in Housed
    BY <1>0, <1>1, <1>12 DEF Job, BlobExists
  <2>3. Become(r, BlobStage(j), j) \/ Become(r, "blobWrite", k)
    BY <2>1
  <2> HIDE DEF j, k
  <2> QED
    BY <2>2, <2>3, BecomeStays
<1>13. CASE BlobWrite(r)
  <2> DEFINE j == [job[r] EXCEPT !.blob = {}]
  <2>1. j.items = job[r].items /\ Become(r, BlobStage(job[r]), j) /\ pc[r] \in Housed
    BY <1>0, <1>1, <1>13 DEF Job, BlobWrite
  <2> HIDE DEF j
  <2> QED
    BY <2>1, BecomeStays
<1>14. CASE ManifestExists(r) \/ ManifestWrite(r) \/ PutCommit(r)
  BY <1>1, <1>2, <1>14 DEF ManifestExists, ManifestWrite, PutCommit
<1>15. ASSUME NEW c, NEW s, pc[r] \in Housed, Become(r, s, [job[r] EXCEPT !.cid = c])
       PROVE  Stays(r)
  <2> DEFINE j == [job[r] EXCEPT !.cid = c]
  <2>1. j.items = job[r].items /\ Become(r, s, j)
    BY <1>0, <1>15 DEF Job
  <2> HIDE DEF j
  <2> QED
    BY <1>15, <2>1, BecomeStays
<1>16. CASE Dedup(r) \/ NewID(r)
  <2>1. pc[r] \in Housed
    BY <1>1, <1>16 DEF Dedup, NewID
  <2>2. CASE Goto(r, "newID")
    BY <1>2, <2>1, <2>2
  <2>3. CASE \E c : Become(r, "label", [job[r] EXCEPT !.cid = c])
    BY <1>15, <2>1, <2>3
  <2>4. CASE \E c : Become(r, "createCommit", [job[r] EXCEPT !.cid = c])
    BY <1>15, <2>1, <2>4
  <2> QED
    BY <1>16, <2>2, <2>3, <2>4 DEF Dedup, NewID
<1>17. CASE UpdateLabel(r)
  <2>1. PICK n \in job[r].labels :
            IF job[r].labels = {n} THEN EndItem(r, {Result(r)})
            ELSE Become(r, "label", [job[r] EXCEPT !.labels = @ \ {n}])
    BY <1>17 DEF UpdateLabel
  <2> DEFINE j == [job[r] EXCEPT !.labels = @ \ {n}]
  <2>2. j.items = job[r].items /\ pc[r] \in Housed
    BY <1>0, <1>1, <1>17 DEF Job, UpdateLabel
  <2>3. EndItem(r, {Result(r)}) \/ Become(r, "label", j)
    BY <2>1
  <2> HIDE DEF j
  <2> QED
    BY <1>0, <2>2, <2>3, EndItemStays, BecomeStays
<1> QED
  BY <1>4, <1>6, <1>7, <1>8, <1>9, <1>10, <1>11, <1>12, <1>13, <1>14, <1>16, <1>17 DEF Step

\* a failing call,
LEMMA FailStays ==
    ASSUME TypeOK, NEW r \in Requests, FailSwallowed(r) \/ FailWrite(r) \/ FailCall(r)
    PROVE  Stays(r)
<1>0. job[r] \in Job
  BY DEF TypeOK, LocalTypeOK
<1>1. CASE Abort(r)
  BY <1>1, FinishStays DEF Abort
<1>2. {"owners", "modules", "probe", "dedup"} \subseteq Housed
  BY DEF Housed, AfterDigests, AfterBlobs, AfterManifest
<1>3. ASSUME pc[r] \in Housed, NEW i, Scan(r, [job[r] EXCEPT !.imports = @ \ {i}])
      PROVE  Stays(r)
  <2> DEFINE j == [job[r] EXCEPT !.imports = @ \ {i}]
  <2>1. j.items = job[r].items /\ Scan(r, j)
    BY <1>0, <1>3 DEF Job
  <2> HIDE DEF j
  <2> QED
    BY <1>3, <2>1, ScanStays
<1>4. ASSUME pc[r] \in Housed, NEW o, Scan(r, [job[r] EXCEPT !.owners = @ \ {o}])
      PROVE  Stays(r)
  <2> DEFINE j == [job[r] EXCEPT !.owners = @ \ {o}]
  <2>1. j.items = job[r].items /\ Scan(r, j)
    BY <1>0, <1>4 DEF Job
  <2> HIDE DEF j
  <2> QED
    BY <1>4, <2>1, ScanStays
<1>5. ASSUME pc[r] \in Housed, NEW m, Scan(r, [job[r] EXCEPT !.mods = @ \ {m}])
      PROVE  Stays(r)
  <2> DEFINE j == [job[r] EXCEPT !.mods = @ \ {m}]
  <2>1. j.items = job[r].items /\ Scan(r, j)
    BY <1>0, <1>5 DEF Job
  <2> HIDE DEF j
  <2> QED
    BY <1>5, <2>1, ScanStays
<1>6. ASSUME pc[r] \in Housed, Goto(r, "newID") PROVE Stays(r)
  BY <1>6, GotoStays
<1> QED
  BY <1>1, <1>2, <1>3, <1>4, <1>5, <1>6 DEF FailSwallowed, FailWrite, FailCall

\* and a new request.
LEMMA StartStays ==
    ASSUME TypeOK, NEW r \in Requests, Start(r)
    PROVE  Stays(r)
<1>1. PICK call \in Calls, given \in SUBSET (DOMAIN commits \cup ForeignIDs) :
          /\ pc' = [pc EXCEPT ![r] = StartStage(call.kind, Head(call.items))]
          /\ job' = [job EXCEPT ![r] = Load(call.kind, call.items, given)]
  BY DEF Start
<1>2. PICK k, i : k = call.kind /\ i = Head(call.items)
  OBVIOUS
<1>3. StartStage(k, i) \notin Housed
  BY DEF StartStage, FirstStage, Housed, AfterDigests, AfterBlobs, AfterManifest
<1>4. /\ pc'[r] = StartStage(k, i)
      /\ \A q \in Requests : q # r => pc'[q] = pc[q] /\ job'[q] = job[q]
  BY <1>1, <1>2 DEF TypeOK, LocalTypeOK
<1> QED
  BY <1>3, <1>4 DEF Stays

\* What the steps of requests do to modules and commits: a module goes only by
\* a deletion, and a commit comes only from a push.
LEMMA StepHouses ==
    ASSUME NEW r \in Requests,
           Step(r) \/ Start(r) \/ FailSwallowed(r) \/ FailWrite(r) \/ FailCall(r)
    PROVE  /\ Created \subseteq Created' /\ deleted \subseteq deleted'
           /\ \/ commits' = commits
              \/ PutCommit(r)
<1>1. CASE Step(r)
  BY <1>1 DEF Created, Step, Resolve, GetModule, GetOwner, PutOwner, CreateOwner,
     PutModule, CreateModule, Reload, DeleteLookup, RemoveModule,
     DeleteModule, ListOwners, ListModules, Probe, ReadDigests, BlobExists,
     BlobWrite, ManifestExists, ManifestWrite, Dedup, NewID, PutCommit, CreateCommit,
     UpdateLabel, CreateOrUpdateLabel, storageVars, metaVars, budget
<1>2. CASE Start(r) \/ FailSwallowed(r) \/ FailWrite(r) \/ FailCall(r)
  BY <1>2 DEF Created, Start, FailSwallowed, FailWrite, FailCall, Fault, storageVars, metaVars
<1> QED
  BY <1>1, <1>2

LEMMA StepHomes ==
    ASSUME TypeOK, Homes, NEW r \in Requests,
           Step(r) \/ Start(r) \/ FailSwallowed(r) \/ FailWrite(r) \/ FailCall(r)
    PROVE  Homes'
<1>1. Stays(r) /\ Created \subseteq Created' /\ (commits' = commits \/ PutCommit(r))
  BY StepStays, FailStays, StartStays, StepHouses
<1>2. ASSUME NEW q \in Requests, pc'[q] \in Housed
      PROVE  Mod(q)' \in Created'
  <2>1. CASE q # r
    BY <1>1, <1>2, <2>1 DEF Stays, Homes, PushesHoused, Mod, Item1
  <2>2. CASE q = r
    <3>1. job'[r].items = job[r].items /\ Mod(r) \in Created'
      BY <1>1, <1>2, <2>2 DEF Stays, Homes, PushesHoused, Created
    <3> QED
      BY <2>2, <3>1 DEF Mod, Item1
  <2> QED
    BY <2>1, <2>2
<1>3. CommitsHoused'
  <2>1. CASE commits' = commits
    BY <1>1, <2>1 DEF Homes, CommitsHoused
  <2>2. CASE PutCommit(r)
    <3>1. "createCommit" \in Housed
      BY DEF Housed, AfterDigests, AfterBlobs, AfterManifest
    <3>2. Mod(r) \in Created'
      BY <1>1, <2>2, <3>1 DEF Homes, PushesHoused, PutCommit
    <3>3. \A c \in DOMAIN commits' :
              \/ c \in DOMAIN commits /\ commits'[c] = commits[c]
              \/ commits'[c].mod = Mod(r)
      BY <2>2 DEF PutCommit, CreateCommit, Bind
    <3> QED
      BY <1>1, <3>2, <3>3 DEF Homes, CommitsHoused
  <2> QED
    BY <1>1, <2>1, <2>2
<1> QED
  BY <1>2, <1>3 DEF Homes, PushesHoused

\* All steps together: a restart that loses the modules loses the commits.
LEMMA NextHomes == TypeOK /\ Homes /\ [Next]_vars => Homes'
<1> SUFFICES ASSUME TypeOK, Homes, [Next]_vars PROVE Homes'
  OBVIOUS
<1>1. CASE Crash
  <2>1. PushesHoused'
    BY <1>1 DEF Crash, PushesHoused, Housed, AfterDigests, AfterBlobs, AfterManifest
  <2>2. CommitsHoused'
    BY <1>1 DEF Crash, LoseMemory, metaVars, Homes, CommitsHoused, Created
  <2> QED
    BY <2>1, <2>2 DEF Homes
<1>2. CASE UNCHANGED vars
  BY <1>2 DEF vars, storageVars, metaVars, localVars, budget, Homes, PushesHoused,
     CommitsHoused, Created, Mod, Item1
<1> QED
  BY <1>1, <1>2, StepHomes DEF Next, Quiet

\* The module of every commit exists, unless it was deleted.
LEMMA HomesHold == Spec => []Homes
<1>1. Init => Homes
  BY DEF Init, StorageInit, Homes, PushesHoused, CommitsHoused, Housed, AfterDigests,
     AfterBlobs, AfterManifest
<1> QED
  BY <1>1, NextHomes, TypeCorrect, PTL DEF Spec

\* With a durable document store and whole objects, what a client was told
\* about its push stays true for ever: the commit is there, with its files, and
\* so is its module, unless it was deleted.
THEOREM AcksAlwaysKept ==
    ASSUME Durable, ~PartialPublish
    PROVE  Spec => []AcksKept
<1>1. Integrity /\ Homes => AcksKept
  BY DEF Integrity, ResultsOK, ResultOK, Documents, CommitsStored, AcksKept,
         Readable, Untorn, ObjectsWhole, Homes, CommitsHoused, Created
<1> QED
  BY <1>1, IntegrityHolds, HomesHold, PTL

\* With a durable document store no step changes or removes a commit: neither
\* a second Create with its ID, nor the deletion of its module.
THEOREM CommitsNeverChange ==
    ASSUME Durable
    PROVE  Spec => CommitsImmutable
<1> DEFINE Same == \A c \in DOMAIN commits :
                       c \in DOMAIN commits' /\ commits'[c] = commits[c]
<1>1. [Next]_vars => [Same]_vars
  <2> SUFFICES ASSUME Next PROVE Same
    OBVIOUS
  <2>1. CASE UNCHANGED metaVars
    BY <2>1 DEF metaVars
  <2>2. ASSUME NEW r \in Requests, Step(r) PROVE Same
    BY <2>2 DEF Step, Resolve, GetModule, GetOwner, PutOwner, CreateOwner,
         PutModule, CreateModule, Reload, DeleteLookup, RemoveModule,
         DeleteModule, ListOwners, ListModules, Probe, ReadDigests, BlobExists,
         BlobWrite, ManifestExists, ManifestWrite, Dedup, NewID, PutCommit,
         CreateCommit, Bind, UpdateLabel, CreateOrUpdateLabel, storageVars, metaVars
  <2>3. ASSUME NEW r \in Requests, Start(r) \/ FailSwallowed(r) \/ FailWrite(r) \/ FailCall(r)
        PROVE  UNCHANGED metaVars
    BY <2>3 DEF Start, FailSwallowed, FailWrite, FailCall, storageVars
  <2>4. ASSUME Crash PROVE UNCHANGED metaVars
    BY <2>4 DEF Crash, LoseMemory
  <2>5. ASSUME Quiet PROVE UNCHANGED metaVars
    BY <2>5 DEF Quiet, vars, storageVars
  <2> QED
    BY <2>1, <2>2, <2>3, <2>4, <2>5 DEF Next
<1> QED
  BY <1>1, PTL DEF Spec, CommitsImmutable

-----------------------------------------------------------------------------
(***************************************************************************)
(* Registry implements Catalog.                                            *)
(***************************************************************************)

\* With whole objects, the commits that are stored whole are all the commits.
LEMMA AllStored ==
    ASSUME ~PartialPublish, Integrity
    PROVE  /\ DOMAIN StoredCommits = DOMAIN commits
           /\ \A c \in DOMAIN commits :
                  StoredCommits[c] = [mod |-> commits[c].mod, files |-> commits[c].files]
BY DEF StoredCommits, Integrity, Documents, CommitsStored, Readable, Untorn, ObjectsWhole

\* A step that leaves the commits alone leaves the stored ones alone.
LEMMA Invisible ==
    ASSUME ~PartialPublish, Integrity, Integrity', commits' = commits
    PROVE  StoredCommits' = StoredCommits
<1>1. \A c \in DOMAIN commits : Readable(commits[c].files)
  BY DEF Integrity, Documents, CommitsStored, Readable, Untorn, ObjectsWhole
<1>2. (\A c \in DOMAIN commits : Readable(commits[c].files))'
  BY DEF Integrity, Documents, CommitsStored, Readable, Untorn, ObjectsWhole
<1> DEFINE Seen == {i \in DOMAIN commits : Readable(commits[i].files)}
<1>3. Seen = DOMAIN commits
  BY <1>1
<1>4. Seen' = DOMAIN commits'
  BY <1>2
<1>5. StoredCommits = [c \in Seen |->
                     [mod |-> commits[c].mod, files |-> commits[c].files]]
  BY DEF StoredCommits
<1>6. StoredCommits' = [c \in Seen' |->
                      [mod |-> commits'[c].mod, files |-> commits'[c].files]]
  BY DEF StoredCommits
<1> HIDE DEF Seen
<1> QED
  BY <1>3, <1>4, <1>5, <1>6

\* Creating a commit document publishes the commit, in one step.
LEMMA Publishes ==
    ASSUME ~PartialPublish, Integrity, Integrity', Homes, NEW r \in Requests, PutCommit(r)
    PROVE  Readers!Publish
<1> DEFINE id == job[r].cid
<1>1. id \notin DOMAIN commits
  BY DEF PutCommit, Integrity, FreshIDs
<1>2. /\ DOMAIN commits' = DOMAIN commits \cup {id}
      /\ \A c \in DOMAIN commits : commits'[c] = commits[c]
      /\ labels' = labels
  BY <1>1 DEF PutCommit, CreateCommit, Bind
<1>2a. /\ commits'[id].mod \in modules \cup deleted
       /\ modules' = modules /\ deleted' = deleted
  BY <1>1 DEF PutCommit, CreateCommit, Bind, Homes, PushesHoused, Created, Housed,
     AfterDigests, AfterBlobs, AfterManifest, budget
<1> HIDE DEF id
<1>3. /\ DOMAIN StoredCommits = DOMAIN commits
      /\ \A c \in DOMAIN commits :
             StoredCommits[c] = [mod |-> commits[c].mod, files |-> commits[c].files]
  BY AllStored
<1>4. /\ DOMAIN StoredCommits' = DOMAIN commits'
      /\ \A c \in DOMAIN commits' :
             StoredCommits'[c] = [mod |-> commits'[c].mod, files |-> commits'[c].files]
  BY DEF StoredCommits, Integrity, Documents, CommitsStored, Readable, Untorn, ObjectsWhole
<1> QED
  <2>1. /\ id \notin DOMAIN StoredCommits
        /\ DOMAIN StoredCommits' = DOMAIN StoredCommits \cup {id}
        /\ \A c \in DOMAIN StoredCommits : StoredCommits'[c] = StoredCommits[c]
    BY <1>1, <1>2, <1>3, <1>4
  <2>2. StoredCommits'[id].mod \in modules \cup deleted
    <3>1. id \in DOMAIN commits'
      BY <1>2
    <3>2. StoredCommits'[id].mod = commits'[id].mod
      BY <1>4, <3>1
    <3> QED
      BY <1>2a, <3>2
  <2>3. \E c \in DOMAIN StoredCommits' :
            /\ c \notin DOMAIN StoredCommits
            /\ DOMAIN StoredCommits' = DOMAIN StoredCommits \cup {c}
            /\ StoredCommits'[c].mod \in modules \cup deleted
    BY <2>1, <2>2
  <2>4. UNCHANGED <<labels, modules, deleted>>
    BY <1>2, <1>2a
  <2> QED
    BY <2>1, <2>3, <2>4 DEF Readers!Publish

\* Moving a label is a move to a stored commit of its module.
LEMMA Moves ==
    ASSUME ~PartialPublish, Integrity, Integrity', NEW r \in Requests, UpdateLabel(r)
    PROVE  Readers!Move
<1>1. PICK n \in job[r].labels :
          CreateOrUpdateLabel(<<Mod(r), n>>, job[r].cid)
  BY DEF UpdateLabel
<1> DEFINE l == <<Mod(r), n>>
<1>2. /\ labels' = Bind(labels, l, job[r].cid) /\ commits' = commits
      /\ l[1] = Mod(r) /\ modules' = modules /\ deleted' = deleted
  BY <1>1 DEF CreateOrUpdateLabel, UpdateLabel, budget
<1> HIDE DEF l
<1>3. /\ job[r].cid \in DOMAIN commits
      /\ commits[job[r].cid].mod = Mod(r)
  BY DEF UpdateLabel, Integrity, JobsOK, JobOK, Mod, Item1
<1>4. /\ DOMAIN StoredCommits = DOMAIN commits
      /\ \A c \in DOMAIN commits :
             StoredCommits[c] = [mod |-> commits[c].mod, files |-> commits[c].files]
  BY AllStored
<1>5. StoredCommits' = StoredCommits
  BY <1>2, Invisible
<1>6. /\ DOMAIN labels' = DOMAIN labels \cup {l}
      /\ labels'[l] = job[r].cid
      /\ \A k \in DOMAIN labels : k # l => labels'[k] = labels[k]
  BY <1>2 DEF Bind
<1> QED
  BY <1>2, <1>3, <1>4, <1>5, <1>6 DEF Readers!Move

\* If the bucket publishes no partial objects, the requests, interleaved,
\* failing and dying as they may, implement the catalogue: commits appear in
\* one step and never change, labels only ever name stored commits, and what
\* is there can be downloaded until somebody deletes its module.
THEOREM RegistryImplementsCatalog ==
    ASSUME ~PartialPublish
    PROVE  Spec => ImplementsCatalog
<1> DEFINE seen == <<commits, labels, modules, deleted>>
<1>1. Init => Readers!CatalogInit
  <2>1. ASSUME Init
        PROVE  DOMAIN commits = {} /\ DOMAIN labels = {} /\ modules = {} /\ deleted = {}
    BY <2>1 DEF Init, StorageInit
  <2> QED
    BY <2>1 DEF Readers!CatalogInit, StoredCommits
<1>2. Integrity /\ Integrity' /\ Homes /\ [Next]_vars
          => [Readers!CatalogNext]_(Readers!catalogVars)
  <2> SUFFICES ASSUME Integrity, Integrity', Homes, [Next]_vars
               PROVE  \/ Readers!CatalogNext
                      \/ UNCHANGED <<StoredCommits, labels, modules, deleted>>
    BY DEF Readers!catalogVars
  <2>1. CASE UNCHANGED seen
    BY <2>1, Invisible
  <2>2. ASSUME NEW r \in Requests, Step(r), ~PutCommit(r), ~UpdateLabel(r),
               ~PutModule(r), ~RemoveModule(r)
        PROVE  UNCHANGED seen
    BY <2>2 DEF Step, Resolve, GetModule, GetOwner, PutOwner, CreateOwner,
         Reload, DeleteLookup, ListOwners, ListModules, Probe, ReadDigests, BlobExists,
         BlobWrite, ManifestExists, ManifestWrite, Dedup, NewID, storageVars, metaVars,
         budget
  <2>3. ASSUME NEW r \in Requests, PutCommit(r) \/ UpdateLabel(r)
        PROVE  Readers!CatalogNext
    BY <2>3, Publishes, Moves DEF Readers!CatalogNext
  <2>4. ASSUME NEW r \in Requests, PutModule(r)
        PROVE  Readers!CatalogNext
    <3>1. /\ modules' = modules \cup {Mod(r)}
          /\ commits' = commits /\ labels' = labels /\ deleted' = deleted
      BY <2>4 DEF PutModule, CreateModule, budget
    <3> QED
      BY <3>1, Invisible DEF Readers!CatalogNext, Readers!Offer
  <2>5. ASSUME NEW r \in Requests, RemoveModule(r)
        PROVE  Readers!CatalogNext
    <3>1. /\ modules' = modules \ {Mod(r)} /\ deleted' = deleted \cup {Mod(r)}
          /\ commits' = commits /\ labels' = labels
      BY <2>5 DEF RemoveModule, DeleteModule
    <3> QED
      BY <3>1, Invisible DEF Readers!CatalogNext, Readers!Withdraw
  <2>6. ASSUME NEW r \in Requests, Start(r) \/ FailSwallowed(r) \/ FailWrite(r) \/ FailCall(r)
        PROVE  UNCHANGED seen
    BY <2>6 DEF Start, FailSwallowed, FailWrite, FailCall, Fault, storageVars, metaVars
  <2>7. ASSUME Crash
        PROVE  Readers!CatalogNext \/ UNCHANGED seen
    <3>1. CASE Durable
      BY <2>7, <3>1 DEF Crash, LoseMemory, metaVars
    <3>2. CASE ~Durable
      <4>1. /\ DOMAIN commits' = {} /\ DOMAIN labels' = {}
            /\ modules' = {} /\ deleted' = deleted
        BY <2>7, <3>2 DEF Crash, LoseMemory
      <4>2. DOMAIN StoredCommits' = {}
        BY <4>1 DEF StoredCommits
      <4> QED
        BY <3>2, <4>1, <4>2 DEF Readers!CatalogNext, Readers!Forget
    <3> QED
      BY <3>1, <3>2
  <2>8. ASSUME Quiet \/ UNCHANGED vars PROVE UNCHANGED seen
    BY <2>8 DEF Quiet, vars, storageVars, metaVars, budget
  <2> QED
    BY <2>1, <2>2, <2>3, <2>4, <2>5, <2>6, <2>7, <2>8 DEF Next
<1> QED
  BY <1>1, <1>2, IntegrityHolds, HomesHold, PTL
     DEF Spec, ImplementsCatalog, Readers!CatalogSpec

-----------------------------------------------------------------------------
(***************************************************************************)
(* Requests do not fail because of each other.                             *)
(***************************************************************************)

\* Requests that delete nothing and name modules by name.
Plain(kind, items) ==
    /\ kind # "delete"
    /\ kind = "create" \/ \A i \in DOMAIN items : ~items[i].byId

\* A request that only needs what is there, given the modules ms and commits co.
Supplied(s, j, ms, co) ==
    s # "idle" =>
        /\ Plain(j.kind, j.items)
        /\ s \notin {"resolve", "delGet", "delete"}
        /\ s = "reload" => Head(j.items).mod \in ms
        /\ j.given \subseteq DOMAIN co /\ j.deps \subseteq DOMAIN co

AllSupplied == \A r \in Requests : Supplied(pc[r], job[r], modules, commits)

\* Such a request starts with the module, not with the lookup of an ID.
LEMMA PlainStart ==
    ASSUME NEW kind \in Kinds, NEW items \in Seq(Item), items # <<>>, Plain(kind, items)
    PROVE  StartStage(kind, Head(items)) \in {"getModule", "getOwner"}
<1>1. Head(items) = items[1] /\ 1 \in DOMAIN items
  OBVIOUS
<1> QED
  BY <1>1 DEF StartStage, FirstStage, Kinds, Plain

\* The items that are left are as plain.
LEMMA PlainTail ==
    ASSUME NEW kind, NEW items \in Seq(Item), items # <<>>, Plain(kind, items)
    PROVE  Plain(kind, Tail(items))
<1>1. \A i \in DOMAIN Tail(items) : i + 1 \in DOMAIN items /\ Tail(items)[i] = items[i + 1]
  OBVIOUS
<1> QED
  BY <1>1 DEF Plain

\* What the others need stays when modules and commits only grow.
LEMMA OthersSupplied ==
    ASSUME AllSupplied, NEW r \in Requests, Only(r),
           modules \subseteq modules', DOMAIN commits \subseteq DOMAIN commits',
           Supplied(pc'[r], job'[r], modules', commits')
    PROVE  AllSupplied'
<1>1. \A q \in Requests : q # r => Supplied(pc'[q], job'[q], modules', commits')
  BY DEF AllSupplied, Supplied, Only
<1> QED
  BY <1>1 DEF AllSupplied

\* A request that moves on to such a stage is in order and has not failed.
LEMMA BecomeSupplied ==
    ASSUME TypeOK, AllSupplied, NEW r \in Requests, pc[r] # "idle",
           modules \subseteq modules', DOMAIN commits \subseteq DOMAIN commits',
           NEW s, NEW j, Become(r, s, j),
           s \notin {"resolve", "delGet", "delete"}, s = "reload" => Mod(r) \in modules',
           j.kind = job[r].kind, j.items = job[r].items, j.given = job[r].given,
           j.deps \subseteq DOMAIN commits'
    PROVE  AllSupplied' /\ outcome' = outcome
<1>1. Only(r) /\ pc'[r] = s /\ job'[r] = j
  BY BecomeOnly DEF TypeOK
<1>2. Supplied(pc[r], job[r], modules, commits)
  BY DEF AllSupplied
<1>3. Supplied(s, j, modules', commits')
  BY <1>2 DEF Supplied, Mod, Item1
<1> QED
  BY <1>1, <1>3, OthersSupplied DEF Become

\* The same with an unchanged job,
LEMMA GotoSupplied ==
    ASSUME TypeOK, AllSupplied, NEW r \in Requests, pc[r] # "idle",
           modules \subseteq modules', DOMAIN commits \subseteq DOMAIN commits',
           NEW s, Goto(r, s), s \notin {"resolve", "delGet", "delete"},
           s = "reload" => Mod(r) \in modules'
    PROVE  AllSupplied' /\ outcome' = outcome
<1>1. job[r].deps \subseteq DOMAIN commits'
  BY DEF AllSupplied, Supplied
<1> QED
  BY <1>1, BecomeSupplied DEF Goto

\* at the end of an item,
LEMMA EndItemSupplied ==
    ASSUME TypeOK, AllSupplied, NEW r \in Requests, pc[r] # "idle",
           modules \subseteq modules', DOMAIN commits \subseteq DOMAIN commits',
           NEW result, EndItem(r, result)
    PROVE  AllSupplied' /\ \A q \in Requests : outcome'[q] \in {outcome[q], "ok"}
<1> DEFINE items == job[r].items
           rest == Tail(job[r].items)
<1>1. /\ job[r].kind \in Kinds /\ job[r].given \in SUBSET CommitIDs
      /\ items \in Seq(Item) /\ items # <<>> /\ rest \in Seq(Item)
  BY ItemType DEF TypeOK, Job
<1>2. Plain(job[r].kind, items) /\ job[r].given \subseteq DOMAIN commits
  BY DEF AllSupplied, Supplied
<1>3. CASE rest = <<>>
  <2>1. Finish(r, "ok")
    BY <1>3 DEF EndItem
  <2>2. Only(r) /\ pc'[r] = "idle"
    BY <2>1, FinishOnly DEF TypeOK
  <2>3. \A q \in Requests : outcome'[q] \in {outcome[q], "ok"}
    BY <2>1 DEF Finish, TypeOK, LocalTypeOK
  <2>4. Supplied(pc'[r], job'[r], modules', commits')
    BY <2>2 DEF Supplied
  <2> QED
    BY <2>2, <2>3, <2>4, OthersSupplied
<1>4. CASE rest # <<>>
  <2>1. PICK k, g : k = job[r].kind /\ g = job[r].given
    OBVIOUS
  <2>2. PICK t : t = rest
    OBVIOUS
  <2>3. /\ pc'[r] = StartStage(k, Head(t)) /\ job'[r] = Load(k, t, g)
        /\ Only(r) /\ outcome' = outcome
    BY <1>4, <2>1, <2>2 DEF EndItem, TypeOK, LocalTypeOK, Only
  <2>4. Plain(k, t) /\ t \in Seq(Item) \ {<<>>} /\ k \in Kinds /\ g \in SUBSET CommitIDs
    BY <1>1, <1>2, <1>4, <2>1, <2>2, PlainTail
  <2>5. StartStage(k, Head(t)) \in {"getModule", "getOwner"}
    BY <2>4, PlainStart
  <2>6. /\ Load(k, t, g).items = t /\ Load(k, t, g).deps = {}
        /\ Load(k, t, g).kind = k /\ Load(k, t, g).given = g
    BY <2>4, LoadType DEF Load, NoJob
  <2>7. Supplied(pc'[r], job'[r], modules', commits')
    BY <1>2, <2>1, <2>3, <2>4, <2>5, <2>6 DEF Supplied
  <2> QED
    BY <2>3, <2>7, OthersSupplied
<1> QED
  BY <1>3, <1>4

\* when the module is known,
LEMMA HaveModuleSupplied ==
    ASSUME TypeOK, AllSupplied, NEW r \in Requests, pc[r] # "idle",
           modules \subseteq modules', DOMAIN commits \subseteq DOMAIN commits',
           HaveModule(r)
    PROVE  AllSupplied' /\ \A q \in Requests : outcome'[q] \in {outcome[q], "ok"}
<1>1. CASE job[r].kind = "create"
  BY <1>1, EndItemSupplied DEF HaveModule
<1>2. CASE job[r].kind # "create"
  <2> DEFINE imports == IF job[r].given = {} THEN ImportsIn(Files(r)) ELSE {}
             j == [job[r] EXCEPT !.imports = imports, !.deps = @ \cup job[r].given]
             t == IF imports = {} THEN "digests" ELSE "owners"
  <2>1. Become(r, t, j) /\ t \in {"digests", "owners"}
    BY <1>2 DEF HaveModule
  <2>2. job[r] \in Job /\ job[r].deps \cup job[r].given \subseteq DOMAIN commits
    BY ItemType DEF TypeOK, AllSupplied, Supplied
  <2>3. /\ j.kind = job[r].kind /\ j.items = job[r].items /\ j.given = job[r].given
        /\ j.deps = job[r].deps \cup job[r].given
    BY <2>2 DEF Job
  <2> HIDE DEF j, t
  <2> QED
    BY <2>1, <2>2, <2>3, BecomeSupplied
<1> QED
  BY <1>1, <1>2

\* and while dependencies are looked for.
LEMMA ScanSupplied ==
    ASSUME TypeOK, AllSupplied, NEW r \in Requests, pc[r] # "idle",
           UNCHANGED storageVars, NEW j, Scan(r, j),
           j.kind = job[r].kind, j.items = job[r].items, j.given = job[r].given,
           j.deps \subseteq DOMAIN commits
    PROVE  AllSupplied' /\ outcome' = outcome
<1>1. Become(r, ScanStage(j), j) /\ ScanStage(j) \in {"probe", "modules", "owners", "digests"}
  BY DEF Scan, ScanStage
<1>2. modules' = modules /\ commits' = commits
  BY DEF storageVars, metaVars
<1> QED
  BY <1>1, <1>2, BecomeSupplied

\* No step of a request that is supplied ends it with an error.
LEMMA StepSupplied ==
    ASSUME TypeOK, AllSupplied, NEW r \in Requests, Step(r)
    PROVE  AllSupplied' /\ \A q \in Requests : outcome'[q] \in {outcome[q], "ok"}
<1>0. pc[r] # "idle"
  BY DEF Step, Resolve, GetModule, GetOwner, PutOwner, PutModule, Reload,
         DeleteLookup, RemoveModule, ListOwners, ListModules, Probe,
         ReadDigests, BlobExists, BlobWrite, ManifestExists, ManifestWrite,
         Dedup, NewID, PutCommit, UpdateLabel
<1>00. /\ job[r] \in Job /\ job[r].deps \subseteq DOMAIN commits
       /\ pc[r] \notin {"resolve", "delGet", "delete"} /\ (pc[r] = "reload" => Mod(r) \in modules)
  BY <1>0, ItemType DEF TypeOK, AllSupplied, Supplied, Mod, Item1
<1>1. CASE /\ UNCHANGED storageVars
           /\ \E s : Goto(r, s) /\ s \notin {"resolve", "delGet", "delete", "reload"}
  BY <1>0, <1>1, GotoSupplied DEF storageVars, metaVars
<1>2. CASE GetModule(r)
  <2>1. modules' = modules /\ commits' = commits
    BY <1>2 DEF GetModule, storageVars, metaVars
  <2>2. HaveModule(r) \/ Goto(r, "getOwner")
    BY <1>2 DEF GetModule
  <2> QED
    BY <1>0, <2>1, <2>2, HaveModuleSupplied, GotoSupplied
<1>3. CASE GetOwner(r)
  BY <1>1, <1>3 DEF GetOwner
<1>4. CASE PutOwner(r)
  BY <1>0, <1>4, GotoSupplied DEF PutOwner, CreateOwner
<1>5. CASE PutModule(r)
  <2>1. modules \subseteq modules' /\ Mod(r) \in modules' /\ commits' = commits
    BY <1>5 DEF PutModule, CreateModule
  <2>2. HaveModule(r) \/ Goto(r, "reload")
    BY <1>5 DEF PutModule
  <2> QED
    BY <1>0, <2>1, <2>2, HaveModuleSupplied, GotoSupplied
<1>6. CASE Reload(r)
  <2>1. HaveModule(r) /\ modules' = modules /\ commits' = commits
    BY <1>00, <1>6 DEF Reload, storageVars, metaVars
  <2> QED
    BY <1>0, <2>1, HaveModuleSupplied
<1>7. CASE ListOwners(r)
  <2>1. PICK i \in job[r].imports :
            Scan(r, [job[r] EXCEPT !.imports = @ \ {i}, !.imp = {i}, !.owners = owners])
    BY <1>7 DEF ListOwners
  <2> DEFINE j == [job[r] EXCEPT !.imports = @ \ {i}, !.imp = {i}, !.owners = owners]
  <2>2. /\ j.kind = job[r].kind /\ j.items = job[r].items /\ j.given = job[r].given
        /\ j.deps = job[r].deps
    BY <1>00 DEF Job
  <2> HIDE DEF j
  <2> QED
    BY <1>0, <1>00, <1>7, <2>1, <2>2, ScanSupplied DEF ListOwners, j
<1>8. CASE ListModules(r)
  <2>1. PICK o \in job[r].owners :
            Scan(r, [job[r] EXCEPT !.owners = @ \ {o}, !.mods = ModulesOf(o)])
    BY <1>8 DEF ListModules
  <2> DEFINE j == [job[r] EXCEPT !.owners = @ \ {o}, !.mods = ModulesOf(o)]
  <2>2. /\ j.kind = job[r].kind /\ j.items = job[r].items /\ j.given = job[r].given
        /\ j.deps = job[r].deps
    BY <1>00 DEF Job
  <2> HIDE DEF j
  <2> QED
    BY <1>0, <1>00, <1>8, <2>1, <2>2, ScanSupplied DEF ListModules, j
<1>9. CASE Probe(r)
  <2>0. PICK m \in job[r].mods : \E found \in HasFile(m, job[r].imp) :
            IF found
            THEN Scan(r, [job[r] EXCEPT !.owners = {}, !.mods = {},
                                        !.deps = @ \cup {labels[<<m, Main>>]}])
            ELSE Scan(r, [job[r] EXCEPT !.mods = @ \ {m}])
    BY <1>9 DEF Probe
  <2>1. PICK found \in HasFile(m, job[r].imp) :
            IF found
            THEN Scan(r, [job[r] EXCEPT !.owners = {}, !.mods = {},
                                        !.deps = @ \cup {labels[<<m, Main>>]}])
            ELSE Scan(r, [job[r] EXCEPT !.mods = @ \ {m}])
    BY <2>0
  <2>2. UNCHANGED storageVars
    BY <1>9 DEF Probe
  <2>3. CASE found
    <3> DEFINE j == [job[r] EXCEPT !.owners = {}, !.mods = {},
                                   !.deps = @ \cup {labels[<<m, Main>>]}]
    <3>1. labels[<<m, Main>>] \in DOMAIN commits
      BY <2>1, <2>3 DEF HasFile
    <3>2. /\ j.kind = job[r].kind /\ j.items = job[r].items /\ j.given = job[r].given
          /\ j.deps \subseteq DOMAIN commits /\ Scan(r, j)
      BY <1>00, <2>1, <2>3, <3>1 DEF Job
    <3> HIDE DEF j
    <3> QED
      BY <1>0, <2>2, <3>2, ScanSupplied
  <2>4. CASE ~found
    <3> DEFINE j == [job[r] EXCEPT !.mods = @ \ {m}]
    <3>1. /\ j.kind = job[r].kind /\ j.items = job[r].items /\ j.given = job[r].given
          /\ j.deps = job[r].deps /\ Scan(r, j)
      BY <1>00, <2>1, <2>4 DEF Job
    <3> HIDE DEF j
    <3> QED
      BY <1>0, <1>00, <2>2, <3>1, ScanSupplied
  <2> QED
    BY <2>3, <2>4
<1>10. CASE ReadDigests(r)
  <2>1. /\ pc' = [pc EXCEPT ![r] = BlobStage(job[r])]
        /\ UNCHANGED <<job, outcome, commits, modules>>
        /\ BlobStage(job[r]) \in {"manifestExists", "blobExists"}
    BY <1>00, <1>10 DEF ReadDigests, storageVars, metaVars, BlobStage
  <2> QED
    BY <1>0, <2>1 DEF AllSupplied, Supplied, TypeOK, LocalTypeOK
<1>11. CASE BlobExists(r)
  <2>1. PICK e \in job[r].todo :
            LET j == [job[r] EXCEPT !.todo = @ \ {e}] IN
            IF e[2] \in blobs THEN Become(r, BlobStage(j), j)
            ELSE Become(r, "blobWrite", [j EXCEPT !.blob = {e[2]}])
    BY <1>11 DEF BlobExists
  <2> DEFINE j == [job[r] EXCEPT !.todo = @ \ {e}]
             k == [j EXCEPT !.blob = {e[2]}]
  <2>2. /\ j.kind = job[r].kind /\ j.items = job[r].items /\ j.given = job[r].given
        /\ j.deps = job[r].deps
        /\ k.kind = job[r].kind /\ k.items = job[r].items /\ k.given = job[r].given
        /\ k.deps = job[r].deps
    BY <1>00 DEF Job
  <2>3. BlobStage(j) \in {"manifestExists", "blobExists"}
    BY DEF BlobStage
  <2>4. Become(r, BlobStage(j), j) \/ Become(r, "blobWrite", k)
    BY <2>1
  <2>5. modules' = modules /\ commits' = commits
    BY <1>11 DEF BlobExists, storageVars, metaVars
  <2> HIDE DEF j, k
  <2> QED
    BY <1>0, <1>00, <2>2, <2>3, <2>4, <2>5, BecomeSupplied
<1>12. CASE BlobWrite(r)
  <2> DEFINE j == [job[r] EXCEPT !.blob = {}]
  <2>1. /\ j.kind = job[r].kind /\ j.items = job[r].items /\ j.given = job[r].given
        /\ j.deps = job[r].deps
    BY <1>00 DEF Job
  <2>2. BlobStage(job[r]) \in {"manifestExists", "blobExists"}
    BY DEF BlobStage
  <2>3. Become(r, BlobStage(job[r]), j) /\ modules' = modules /\ commits' = commits
    BY <1>12 DEF BlobWrite, metaVars
  <2> HIDE DEF j
  <2> QED
    BY <1>0, <1>00, <2>1, <2>2, <2>3, BecomeSupplied
<1>13. CASE ManifestExists(r)
  BY <1>1, <1>13 DEF ManifestExists
<1>14. CASE ManifestWrite(r)
  BY <1>0, <1>14, GotoSupplied DEF ManifestWrite, metaVars
<1>15. CASE Dedup(r)
  <2>1. modules' = modules /\ commits' = commits
    BY <1>15 DEF Dedup, storageVars, metaVars
  <2>2. CASE Goto(r, "newID")
    BY <1>0, <2>1, <2>2, GotoSupplied
  <2>3. ASSUME NEW c, Become(r, "label", [job[r] EXCEPT !.cid = c])
        PROVE  AllSupplied' /\ outcome' = outcome
    <3> DEFINE j == [job[r] EXCEPT !.cid = c]
    <3>1. /\ j.kind = job[r].kind /\ j.items = job[r].items /\ j.given = job[r].given
          /\ j.deps = job[r].deps /\ Become(r, "label", j)
      BY <1>00, <2>3 DEF Job
    <3> HIDE DEF j
    <3> QED
      BY <1>0, <1>00, <2>1, <3>1, BecomeSupplied
  <2> QED
    BY <1>15, <2>2, <2>3 DEF Dedup
<1>16. CASE NewID(r)
  <2> DEFINE j == [job[r] EXCEPT !.cid = clock]
  <2>1. /\ j.kind = job[r].kind /\ j.items = job[r].items /\ j.given = job[r].given
        /\ j.deps = job[r].deps
    BY <1>00 DEF Job
  <2>2. Become(r, "createCommit", j) /\ modules' = modules /\ commits' = commits
    BY <1>16 DEF NewID, storageVars, metaVars
  <2> HIDE DEF j
  <2> QED
    BY <1>0, <1>00, <2>1, <2>2, BecomeSupplied
<1>17. CASE PutCommit(r)
  <2>1. modules' = modules /\ DOMAIN commits \subseteq DOMAIN commits' /\ Goto(r, "label")
    BY <1>17 DEF PutCommit, CreateCommit, Bind
  <2> QED
    BY <1>0, <2>1, GotoSupplied
<1>18. CASE UpdateLabel(r)
  <2>1. PICK n \in job[r].labels :
            /\ CreateOrUpdateLabel(<<Mod(r), n>>, job[r].cid)
            /\ IF job[r].labels = {n} THEN EndItem(r, {Result(r)})
               ELSE Become(r, "label", [job[r] EXCEPT !.labels = @ \ {n}])
    BY <1>18 DEF UpdateLabel
  <2>2. modules' = modules /\ commits' = commits
    BY <2>1 DEF CreateOrUpdateLabel
  <2> DEFINE j == [job[r] EXCEPT !.labels = @ \ {n}]
  <2>3. /\ j.kind = job[r].kind /\ j.items = job[r].items /\ j.given = job[r].given
        /\ j.deps = job[r].deps
    BY <1>00 DEF Job
  <2>4. EndItem(r, {Result(r)}) \/ Become(r, "label", j)
    BY <2>1
  <2> HIDE DEF j
  <2> QED
    BY <1>0, <1>00, <2>2, <2>3, <2>4, EndItemSupplied, BecomeSupplied
<1>19. ~Resolve(r) /\ ~DeleteLookup(r) /\ ~RemoveModule(r)
  BY <1>00 DEF Resolve, DeleteLookup, RemoveModule
<1> QED
  BY <1>2, <1>3, <1>4, <1>5, <1>6, <1>7, <1>8, <1>9, <1>10, <1>11, <1>12, <1>13, <1>14,
     <1>15, <1>16, <1>17, <1>18, <1>19 DEF Step

\* Clients that delete nothing, name modules by name and know no commits of
\* other registries.
PlainCalls ==
    /\ \A call \in Calls : Plain(call.kind, call.items)
    /\ ForeignIDs = {}

\* A request that is started is supplied.
LEMMA StartSupplied ==
    ASSUME PlainCalls, TypeOK, AllSupplied, NEW r \in Requests, Start(r)
    PROVE  AllSupplied' /\ \A q \in Requests : outcome'[q] \in {outcome[q], "none"}
<1>1. PICK call \in Calls, given \in SUBSET (DOMAIN commits \cup ForeignIDs) :
          /\ pc' = [pc EXCEPT ![r] = StartStage(call.kind, Head(call.items))]
          /\ job' = [job EXCEPT ![r] = Load(call.kind, call.items, given)]
  BY DEF Start
<1>2. call.kind \in Kinds /\ call.items \in Seq(Item) \ {<<>>} /\ Plain(call.kind, call.items)
  BY RegistryAssumption DEF Call, PlainCalls
<1>3. given \subseteq DOMAIN commits /\ DOMAIN commits \subseteq CommitIDs
  BY DEF PlainCalls, TypeOK, StorageTypeOK
<1>4. PICK k, t : k = call.kind /\ t = call.items
  OBVIOUS
<1>5. StartStage(k, Head(t)) \in {"getModule", "getOwner"}
  BY <1>2, <1>4, PlainStart
<1>6. /\ Load(k, t, given).items = t /\ Load(k, t, given).deps = {}
      /\ Load(k, t, given).kind = k /\ Load(k, t, given).given = given
  BY <1>2, <1>3, <1>4, LoadType DEF Load, NoJob
<1>7. pc'[r] = StartStage(k, Head(t)) /\ job'[r] = Load(k, t, given)
      /\ \A q \in Requests : q # r => pc'[q] = pc[q] /\ job'[q] = job[q]
  BY <1>1, <1>4 DEF TypeOK, LocalTypeOK
<1>8. modules' = modules /\ commits' = commits
  BY DEF Start, storageVars, metaVars
<1>9. Supplied(pc'[r], job'[r], modules', commits')
  BY <1>2, <1>3, <1>4, <1>5, <1>6, <1>7, <1>8 DEF Supplied
<1>10. AllSupplied'
  BY <1>7, <1>8, <1>9 DEF AllSupplied
<1>11. \A q \in Requests : outcome'[q] \in {outcome[q], "none"}
  BY DEF Start, TypeOK, LocalTypeOK
<1> QED
  BY <1>10, <1>11

\* A failing call is counted; what it leaves is in order.
LEMMA FailSupplied ==
    ASSUME TypeOK, AllSupplied, NEW r \in Requests, FailSwallowed(r) \/ FailWrite(r) \/ FailCall(r)
    PROVE  AllSupplied' /\ faults' # 0
<1>1. faults' # 0
  BY DEF FailSwallowed, FailWrite, FailCall, Fault, TypeOK, CounterTypeOK
<1>2. modules' = modules /\ commits' = commits
  BY DEF FailSwallowed, FailWrite, FailCall, storageVars, metaVars
<1>3. CASE Abort(r)
  <2>1. Only(r) /\ pc'[r] = "idle"
    BY <1>3, FinishOnly DEF Abort, TypeOK
  <2>2. Supplied(pc'[r], job'[r], modules', commits')
    BY <2>1 DEF Supplied
  <2> QED
    BY <1>1, <1>2, <2>1, <2>2, OthersSupplied
<1>4. CASE FailSwallowed(r)
  <2>0. pc[r] # "idle" /\ UNCHANGED storageVars
    BY <1>4 DEF FailSwallowed
  <2>1. job[r] \in Job /\ job[r].deps \subseteq DOMAIN commits
    BY <2>0, ItemType DEF TypeOK, AllSupplied, Supplied
  <2>2. ASSUME NEW i, Scan(r, [job[r] EXCEPT !.imports = @ \ {i}]) PROVE AllSupplied'
    <3> DEFINE j == [job[r] EXCEPT !.imports = @ \ {i}]
    <3>1. /\ j.kind = job[r].kind /\ j.items = job[r].items /\ j.given = job[r].given
          /\ j.deps = job[r].deps /\ Scan(r, j)
      BY <2>1, <2>2 DEF Job
    <3> HIDE DEF j
    <3> QED
      BY <2>0, <2>1, <3>1, ScanSupplied
  <2>3. ASSUME NEW o, Scan(r, [job[r] EXCEPT !.owners = @ \ {o}]) PROVE AllSupplied'
    <3> DEFINE j == [job[r] EXCEPT !.owners = @ \ {o}]
    <3>1. /\ j.kind = job[r].kind /\ j.items = job[r].items /\ j.given = job[r].given
          /\ j.deps = job[r].deps /\ Scan(r, j)
      BY <2>1, <2>3 DEF Job
    <3> HIDE DEF j
    <3> QED
      BY <2>0, <2>1, <3>1, ScanSupplied
  <2>4. ASSUME NEW m, Scan(r, [job[r] EXCEPT !.mods = @ \ {m}]) PROVE AllSupplied'
    <3> DEFINE j == [job[r] EXCEPT !.mods = @ \ {m}]
    <3>1. /\ j.kind = job[r].kind /\ j.items = job[r].items /\ j.given = job[r].given
          /\ j.deps = job[r].deps /\ Scan(r, j)
      BY <2>1, <2>4 DEF Job
    <3> HIDE DEF j
    <3> QED
      BY <2>0, <2>1, <3>1, ScanSupplied
  <2>5. ASSUME Goto(r, "newID") PROVE AllSupplied'
    BY <1>2, <2>0, <2>5, GotoSupplied
  <2> QED
    BY <1>1, <1>4, <2>2, <2>3, <2>4, <2>5 DEF FailSwallowed
<1> QED
  BY <1>3, <1>4 DEF FailWrite, FailCall

\* A crash is counted; nothing is under way after it.
LEMMA CrashSupplied ==
    ASSUME TypeOK, Crash
    PROVE  AllSupplied' /\ crashes' # 0
BY DEF Crash, AllSupplied, Supplied, TypeOK, CounterTypeOK

\* As long as the storage has worked and the process has not died.
Unspoilt == faults = 0 /\ crashes = 0 => NoSpuriousErrors

\* All steps together.
LEMMA NextUnspoilt ==
    ASSUME PlainCalls, TypeOK, AllSupplied, Unspoilt, [Next]_vars
    PROVE  AllSupplied' /\ Unspoilt'
<1>1. ASSUME NEW r \in Requests, Step(r) PROVE UNCHANGED <<faults, crashes>>
  BY <1>1 DEF Step, Resolve, GetModule, GetOwner, PutOwner, PutModule, Reload,
         DeleteLookup, RemoveModule, ListOwners, ListModules, Probe,
         ReadDigests, BlobExists, BlobWrite, ManifestExists, ManifestWrite,
         Dedup, NewID, PutCommit, UpdateLabel, budget
<1>2. ASSUME NEW r \in Requests, Step(r) PROVE AllSupplied' /\ Unspoilt'
  BY <1>1, <1>2, StepSupplied DEF Unspoilt, NoSpuriousErrors
<1>3. ASSUME NEW r \in Requests, Start(r) PROVE AllSupplied' /\ Unspoilt'
  <2>1. UNCHANGED <<faults, crashes>>
    BY <1>3 DEF Start
  <2> QED
    BY <1>3, <2>1, StartSupplied DEF Unspoilt, NoSpuriousErrors
<1>4. ASSUME NEW r \in Requests, FailSwallowed(r) \/ FailWrite(r) \/ FailCall(r)
      PROVE  AllSupplied' /\ Unspoilt'
  BY <1>4, FailSupplied DEF Unspoilt
<1>5. CASE Crash
  BY <1>5, CrashSupplied DEF Unspoilt
<1>6. CASE UNCHANGED vars
  BY <1>6 DEF vars, storageVars, metaVars, localVars, budget, AllSupplied, Unspoilt,
              NoSpuriousErrors
<1> QED
  BY <1>2, <1>3, <1>4, <1>5, <1>6 DEF Next, Quiet

\* Requests that delete nothing and name only what exists do not fail as long
\* as the storage works: no order of their calls makes one fail because of
\* another, neither the race to create an owner or a module nor labels that
\* move while dependencies are looked for.
THEOREM NoRequestSpoilsAnother ==
    ASSUME PlainCalls
    PROVE  Spec => [](faults = 0 /\ crashes = 0 => NoSpuriousErrors)
<1>1. Init => AllSupplied /\ Unspoilt
  BY DEF Init, AllSupplied, Supplied, Unspoilt, NoSpuriousErrors
<1>2. TypeOK /\ AllSupplied /\ Unspoilt /\ [Next]_vars => (AllSupplied /\ Unspoilt)'
  BY NextUnspoilt
<1>3. Spec => []Unspoilt
  BY <1>1, <1>2, TypeCorrect, PTL DEF Spec
<1> QED
  BY <1>3, PTL DEF Unspoilt

-----------------------------------------------------------------------------
(***************************************************************************)
(* One commit for given files.                                             *)
(***************************************************************************)

\* The modules that clients push, with their files.
Pushed == {it \in Item : \E call \in Calls :
               call.kind = "upload" /\ \E i \in DOMAIN call.items : it = call.items[i]}

\* Pushes come one after the other, no two modules are pushed with the same
\* files, and the search for an equal commit does not fail.
OneAtATime ==
    /\ \A r, q \in Requests : r = q
    /\ \A it, other \in Pushed : it.files = other.files => it.mod = other.mod
    /\ "dedup" \notin Fallible

NamingStages == {"getOwner", "createOwner", "createModule", "reload"}
UploadStages == { "getModule", "owners", "modules", "probe", "digests", "blobExists",
                  "blobWrite", "manifestExists", "manifestWrite", "dedup", "newID",
                  "createCommit", "label" }

\* Which kind of request gets to which stages.
KindOK(s, kind) ==
    /\ s \in NamingStages => kind # "delete"
    /\ s \in UploadStages => kind = "upload"

\* The commits co have none like the item it.
NoneLike(it, co) == \A c \in DOMAIN co : ~(co[c].mod = it.mod /\ co[c].files = it.files)

\* A request pushes what its client asked for, and has found no equal commit
\* when it makes one.
PushOK(s, j, co) ==
    s # "idle" =>
        /\ KindOK(s, j.kind)
        /\ j.kind = "upload" => \A i \in DOMAIN j.items : j.items[i] \in Pushed
        /\ s \in {"newID", "createCommit"} => NoneLike(Head(j.items), co)

AllPushOK == \A r \in Requests : PushOK(pc[r], job[r], commits)

\* A commit is what a client pushed.
CommitsPushed ==
    \A c \in DOMAIN commits : \E it \in Pushed :
        commits[c].mod = it.mod /\ commits[c].files = it.files

Singles == NoDuplicates /\ CommitsPushed /\ AllPushOK

\* Moving on to a stage that fits the request, without a step of the
\* storage that makes a commit,
LEMMA BecomeSingle ==
    ASSUME OneAtATime, TypeOK, Singles, NEW r \in Requests, pc[r] # "idle",
           commits' = commits, NEW s, NEW j, Become(r, s, j),
           j.kind = job[r].kind, j.items = job[r].items, KindOK(s, j.kind),
           s = "newID" => NoneLike(Item1(r), commits),
           s = "createCommit" => pc[r] = "newID"
    PROVE  Singles'
<1>1. pc'[r] = s /\ job'[r] = j
  BY BecomeOnly DEF TypeOK
<1>2. PushOK(pc[r], job[r], commits)
  BY DEF Singles, AllPushOK
<1>3. PushOK(s, j, commits)
  BY <1>2 DEF PushOK, Item1
<1>4. AllPushOK'
  BY <1>1, <1>3 DEF AllPushOK, OneAtATime
<1> QED
  BY <1>4 DEF Singles, NoDuplicates, CommitsPushed

\* with an unchanged job,
LEMMA GotoSingle ==
    ASSUME OneAtATime, TypeOK, Singles, NEW r \in Requests, pc[r] # "idle",
           commits' = commits, NEW s, Goto(r, s), KindOK(s, job[r].kind),
           s = "newID" => NoneLike(Item1(r), commits), s # "createCommit"
    PROVE  Singles'
BY BecomeSingle DEF Goto

\* to the end of the request,
LEMMA IdleSingle ==
    ASSUME OneAtATime, Singles, NEW r \in Requests, commits' = commits, pc'[r] = "idle"
    PROVE  Singles'
BY DEF OneAtATime, Singles, NoDuplicates, CommitsPushed, AllPushOK, PushOK

\* with an error or without,
LEMMA AbortSingle ==
    ASSUME OneAtATime, TypeOK, Singles, NEW r \in Requests, commits' = commits, Abort(r)
    PROVE  Singles'
BY IdleSingle, FinishOnly DEF Abort, TypeOK

\* An item starts at a stage of its kind.
LEMMA StartKind ==
    ASSUME NEW kind \in Kinds, NEW item \in Item
    PROVE  /\ KindOK(StartStage(kind, item), kind)
           /\ StartStage(kind, item) \notin {"newID", "createCommit"}
BY DEF StartStage, FirstStage, Kinds, KindOK, NamingStages, UploadStages

\* to the next item,
LEMMA EndItemSingle ==
    ASSUME OneAtATime, TypeOK, Singles, NEW r \in Requests, pc[r] # "idle",
           commits' = commits, NEW result, EndItem(r, result)
    PROVE  Singles'
<1> DEFINE items == job[r].items
           rest == Tail(job[r].items)
<1>1. /\ job[r].kind \in Kinds /\ job[r].given \in SUBSET CommitIDs
      /\ items \in Seq(Item) /\ items # <<>> /\ rest \in Seq(Item)
  BY ItemType DEF TypeOK, Job
<1>2. job[r].kind = "upload" => \A i \in DOMAIN items : items[i] \in Pushed
  BY DEF Singles, AllPushOK, PushOK
<1>3. CASE rest = <<>>
  BY <1>3, IdleSingle, FinishOnly DEF EndItem, TypeOK
<1>4. CASE rest # <<>>
  <2>1. PICK k, g : k = job[r].kind /\ g = job[r].given
    OBVIOUS
  <2>2. PICK t : t = rest
    OBVIOUS
  <2>3. pc'[r] = StartStage(k, Head(t)) /\ job'[r] = Load(k, t, g)
    BY <1>4, <2>1, <2>2 DEF EndItem, TypeOK, LocalTypeOK
  <2>4. t \in Seq(Item) \ {<<>>} /\ k \in Kinds /\ g \in SUBSET CommitIDs
    BY <1>1, <1>4, <2>1, <2>2
  <2>5. \A i \in DOMAIN t : i + 1 \in DOMAIN items /\ t[i] = items[i + 1]
    BY <1>1, <2>2
  <2>6. k = "upload" => \A i \in DOMAIN t : t[i] \in Pushed
    BY <1>2, <2>1, <2>5
  <2>7. Load(k, t, g).items = t /\ Load(k, t, g).kind = k
    BY <2>4, LoadType DEF Load, NoJob
  <2>8. KindOK(StartStage(k, Head(t)), k) /\ StartStage(k, Head(t)) \notin {"newID", "createCommit"}
    BY <2>4, LoadType, StartKind
  <2>9. PushOK(pc'[r], job'[r], commits')
    BY <2>3, <2>6, <2>7, <2>8 DEF PushOK
  <2> QED
    BY <2>9 DEF OneAtATime, Singles, NoDuplicates, CommitsPushed, AllPushOK
<1> QED
  BY <1>3, <1>4

\* on from the module,
LEMMA HaveModuleSingle ==
    ASSUME OneAtATime, TypeOK, Singles, NEW r \in Requests, pc[r] # "idle",
           commits' = commits, job[r].kind # "delete", HaveModule(r)
    PROVE  Singles'
<1>1. CASE job[r].kind = "create"
  BY <1>1, EndItemSingle DEF HaveModule
<1>2. CASE job[r].kind # "create"
  <2> DEFINE imports == IF job[r].given = {} THEN ImportsIn(Files(r)) ELSE {}
             j == [job[r] EXCEPT !.imports = imports, !.deps = @ \cup job[r].given]
             t == IF imports = {} THEN "digests" ELSE "owners"
  <2>1. Become(r, t, j) /\ t \in {"digests", "owners"}
    BY <1>2 DEF HaveModule
  <2>2. j.kind = job[r].kind /\ j.items = job[r].items /\ job[r].kind = "upload"
    BY <1>2, ItemType DEF TypeOK, Job, Kinds
  <2>3. KindOK(t, "upload")
    BY <2>1 DEF KindOK
  <2> HIDE DEF j, t
  <2> QED
    BY <2>1, <2>2, <2>3, BecomeSingle
<1> QED
  BY <1>1, <1>2

\* or from one place to look for a dependency to the next keeps commits single.
LEMMA ScanSingle ==
    ASSUME OneAtATime, TypeOK, Singles, NEW r \in Requests, pc[r] # "idle",
           commits' = commits, job[r].kind = "upload", NEW j, Scan(r, j),
           j.kind = job[r].kind, j.items = job[r].items
    PROVE  Singles'
<1>1. Become(r, ScanStage(j), j) /\ ScanStage(j) \in {"probe", "modules", "owners", "digests"}
  BY DEF Scan, ScanStage
<1>2. KindOK(ScanStage(j), j.kind)
  BY DEF KindOK
<1> QED
  BY <1>1, <1>2, BecomeSingle

\* Every step of a request keeps what makes its commit the only one.
LEMMA StepSingle ==
    ASSUME OneAtATime, TypeOK, Singles, NEW r \in Requests, Step(r)
    PROVE  Singles'
<1>0. pc[r] # "idle"
  BY DEF Step, Resolve, GetModule, GetOwner, PutOwner, PutModule, Reload,
         DeleteLookup, RemoveModule, ListOwners, ListModules, Probe,
         ReadDigests, BlobExists, BlobWrite, ManifestExists, ManifestWrite,
         Dedup, NewID, PutCommit, UpdateLabel
<1>00. job[r] \in Job /\ Item1(r) \in Item /\ Item1(r) = Head(job[r].items)
       /\ job[r].items \in Seq(Item) /\ job[r].items # <<>>
  BY <1>0, ItemType DEF TypeOK, Item1
<1>000. /\ KindOK(pc[r], job[r].kind) /\ job[r].kind \in Kinds
        /\ pc[r] \in {"newID", "createCommit"} => NoneLike(Item1(r), commits)
        /\ job[r].kind = "upload" => Item1(r) \in Pushed
  <2>1. Item1(r) = job[r].items[1] /\ 1 \in DOMAIN job[r].items
    BY <1>00
  <2> QED
    BY <1>0, <1>00, <2>1 DEF Singles, AllPushOK, PushOK, Job, Item1
<1> USE DEF KindOK, NamingStages, UploadStages
<1>1. CASE Resolve(r)
  <2>1. commits' = commits
    BY <1>1 DEF Resolve, storageVars, metaVars
  <2>2. /\ KindOK(FirstStage(job[r].kind), job[r].kind)
        /\ FirstStage(job[r].kind) \notin {"newID", "createCommit"}
    BY <1>000 DEF FirstStage, Kinds
  <2> QED
    BY <1>0, <1>1, <2>1, <2>2, GotoSingle, AbortSingle DEF Resolve
<1>2. CASE GetModule(r)
  <2>1. commits' = commits /\ job[r].kind = "upload"
    BY <1>000, <1>2 DEF GetModule, storageVars, metaVars
  <2> QED
    BY <1>0, <1>2, <2>1, GotoSingle, HaveModuleSingle DEF GetModule
<1>3. CASE GetOwner(r)
  <2>1. commits' = commits /\ job[r].kind # "delete"
    BY <1>000, <1>3 DEF GetOwner, storageVars, metaVars
  <2> QED
    BY <1>0, <1>3, <2>1, GotoSingle DEF GetOwner
<1>4. CASE PutOwner(r)
  <2>1. commits' = commits /\ job[r].kind # "delete"
    BY <1>000, <1>4 DEF PutOwner, CreateOwner
  <2> QED
    BY <1>0, <1>4, <2>1, GotoSingle DEF PutOwner
<1>5. CASE PutModule(r)
  <2>1. commits' = commits /\ job[r].kind # "delete"
    BY <1>000, <1>5 DEF PutModule, CreateModule
  <2> QED
    BY <1>0, <1>5, <2>1, GotoSingle, HaveModuleSingle DEF PutModule
<1>6. CASE Reload(r)
  <2>1. commits' = commits /\ job[r].kind # "delete"
    BY <1>000, <1>6 DEF Reload, storageVars, metaVars
  <2> QED
    BY <1>0, <1>6, <2>1, AbortSingle, HaveModuleSingle DEF Reload
<1>7. CASE DeleteLookup(r)
  <2>1. commits' = commits
    BY <1>7 DEF DeleteLookup, storageVars, metaVars
  <2> QED
    BY <1>0, <1>7, <2>1, AbortSingle, GotoSingle DEF DeleteLookup
<1>8. CASE RemoveModule(r)
  BY <1>0, <1>8, EndItemSingle DEF RemoveModule, DeleteModule
<1>9. CASE ListOwners(r)
  <2>1. PICK i \in job[r].imports :
            Scan(r, [job[r] EXCEPT !.imports = @ \ {i}, !.imp = {i}, !.owners = owners])
    BY <1>9 DEF ListOwners
  <2> DEFINE j == [job[r] EXCEPT !.imports = @ \ {i}, !.imp = {i}, !.owners = owners]
  <2>2. j.kind = job[r].kind /\ j.items = job[r].items /\ Scan(r, j)
    BY <1>00, <2>1 DEF Job
  <2>3. commits' = commits /\ job[r].kind = "upload"
    BY <1>000, <1>9 DEF ListOwners, storageVars, metaVars
  <2> HIDE DEF j
  <2> QED
    BY <1>0, <2>2, <2>3, ScanSingle
<1>10. CASE ListModules(r)
  <2>1. PICK o \in job[r].owners :
            Scan(r, [job[r] EXCEPT !.owners = @ \ {o}, !.mods = ModulesOf(o)])
    BY <1>10 DEF ListModules
  <2> DEFINE j == [job[r] EXCEPT !.owners = @ \ {o}, !.mods = ModulesOf(o)]
  <2>2. j.kind = job[r].kind /\ j.items = job[r].items /\ Scan(r, j)
    BY <1>00, <2>1 DEF Job
  <2>3. commits' = commits /\ job[r].kind = "upload"
    BY <1>000, <1>10 DEF ListModules, storageVars, metaVars
  <2> HIDE DEF j
  <2> QED
    BY <1>0, <2>2, <2>3, ScanSingle
<1>11. CASE Probe(r)
  <2>1. commits' = commits /\ job[r].kind = "upload"
    BY <1>000, <1>11 DEF Probe, storageVars, metaVars
  <2>2. PICK m \in job[r].mods :
            \/ Scan(r, [job[r] EXCEPT !.owners = {}, !.mods = {},
                                      !.deps = @ \cup {labels[<<m, Main>>]}])
            \/ Scan(r, [job[r] EXCEPT !.mods = @ \ {m}])
    BY <1>11 DEF Probe
  <2> DEFINE j == [job[r] EXCEPT !.owners = {}, !.mods = {},
                                 !.deps = @ \cup {labels[<<m, Main>>]}]
             k == [job[r] EXCEPT !.mods = @ \ {m}]
  <2>3. /\ j.kind = job[r].kind /\ j.items = job[r].items
        /\ k.kind = job[r].kind /\ k.items = job[r].items
        /\ Scan(r, j) \/ Scan(r, k)
    BY <1>00, <2>2 DEF Job
  <2> HIDE DEF j, k
  <2> QED
    BY <1>0, <2>1, <2>3, ScanSingle
<1>12. CASE ReadDigests(r)
  <2>1. commits' = commits /\ job[r].kind = "upload"
    BY <1>000, <1>12 DEF ReadDigests, storageVars, metaVars
  <2>2. CASE Abort(r)
    BY <2>1, <2>2, AbortSingle
  <2>3. CASE ~Abort(r)
    <3>1. /\ pc' = [pc EXCEPT ![r] = BlobStage(job[r])] /\ job' = job
          /\ BlobStage(job[r]) \in {"manifestExists", "blobExists"}
      BY <1>12, <2>3 DEF ReadDigests, BlobStage
    <3>2. PushOK(pc'[r], job'[r], commits')
      BY <1>0, <2>1, <3>1 DEF Singles, AllPushOK, PushOK, TypeOK, LocalTypeOK
    <3> QED
      BY <2>1, <3>2 DEF OneAtATime, Singles, NoDuplicates, CommitsPushed, AllPushOK
  <2> QED
    BY <2>2, <2>3
<1>13. CASE BlobExists(r)
  <2>1. PICK e \in job[r].todo :
            LET j == [job[r] EXCEPT !.todo = @ \ {e}] IN
            IF e[2] \in blobs THEN Become(r, BlobStage(j), j)
            ELSE Become(r, "blobWrite", [j EXCEPT !.blob = {e[2]}])
    BY <1>13 DEF BlobExists
  <2> DEFINE j == [job[r] EXCEPT !.todo = @ \ {e}]
             k == [j EXCEPT !.blob = {e[2]}]
  <2>2. /\ j.kind = job[r].kind /\ j.items = job[r].items
        /\ k.kind = job[r].kind /\ k.items = job[r].items
    BY <1>00 DEF Job
  <2>3. BlobStage(j) \in {"manifestExists", "blobExists"}
    BY DEF BlobStage
  <2>4. Become(r, BlobStage(j), j) \/ Become(r, "blobWrite", k)
    BY <2>1
  <2>5. commits' = commits /\ job[r].kind = "upload"
    BY <1>000, <1>13 DEF BlobExists, storageVars, metaVars
  <2> HIDE DEF j, k
  <2> QED
    BY <1>0, <2>2, <2>3, <2>4, <2>5, BecomeSingle
<1>14. CASE BlobWrite(r)
  <2> DEFINE j == [job[r] EXCEPT !.blob = {}]
  <2>1. j.kind = job[r].kind /\ j.items = job[r].items
    BY <1>00 DEF Job
  <2>2. BlobStage(job[r]) \in {"manifestExists", "blobExists"}
    BY DEF BlobStage
  <2>3. Become(r, BlobStage(job[r]), j) /\ commits' = commits /\ job[r].kind = "upload"
    BY <1>000, <1>14 DEF BlobWrite, metaVars
  <2> HIDE DEF j
  <2> QED
    BY <1>0, <2>1, <2>2, <2>3, BecomeSingle
<1>15. CASE ManifestExists(r)
  <2>1. commits' = commits /\ job[r].kind = "upload"
    BY <1>000, <1>15 DEF ManifestExists, storageVars, metaVars
  <2> QED
    BY <1>0, <1>15, <2>1, GotoSingle DEF ManifestExists
<1>16. CASE ManifestWrite(r)
  <2>1. commits' = commits /\ job[r].kind = "upload"
    BY <1>000, <1>16 DEF ManifestWrite, metaVars
  <2> QED
    BY <1>0, <1>16, <2>1, GotoSingle DEF ManifestWrite
<1>17. CASE Dedup(r)
  <2>1. commits' = commits /\ job[r].kind = "upload" /\ Item1(r) \in Pushed
    BY <1>000, <1>17 DEF Dedup, storageVars, metaVars
  <2>2. ASSUME MatchingCommits(Files(r)) = {}
        PROVE  NoneLike(Item1(r), commits)
    BY <2>2 DEF MatchingCommits, NoneLike, Files
  <2>3. ASSUME NEW c \in MatchingCommits(Files(r)), commits[c].mod # Mod(r)
        PROVE  FALSE
    <3>1. PICK it \in Pushed : commits[c].mod = it.mod /\ commits[c].files = it.files
      BY DEF MatchingCommits, Singles, CommitsPushed
    <3> QED
      BY <2>1, <2>3, <3>1 DEF MatchingCommits, OneAtATime, Mod, Files
  <2>4. ASSUME NEW c, Become(r, "label", [job[r] EXCEPT !.cid = c])
        PROVE  Singles'
    <3> DEFINE j == [job[r] EXCEPT !.cid = c]
    <3>1. j.kind = job[r].kind /\ j.items = job[r].items /\ Become(r, "label", j)
      BY <1>00, <2>4 DEF Job
    <3> HIDE DEF j
    <3> QED
      BY <1>0, <2>1, <3>1, BecomeSingle
  <2>5. CASE MatchingCommits(Files(r)) = {} /\ Goto(r, "newID")
    BY <1>0, <2>1, <2>2, <2>5, GotoSingle
  <2> QED
    BY <1>17, <2>3, <2>4, <2>5 DEF Dedup
<1>18. CASE NewID(r)
  <2> DEFINE j == [job[r] EXCEPT !.cid = clock]
  <2>1. j.kind = job[r].kind /\ j.items = job[r].items
    BY <1>00 DEF Job
  <2>2. /\ Become(r, "createCommit", j) /\ commits' = commits
        /\ pc[r] = "newID" /\ job[r].kind = "upload"
    BY <1>000, <1>18 DEF NewID, storageVars, metaVars
  <2> HIDE DEF j
  <2> QED
    BY <1>0, <2>1, <2>2, BecomeSingle
<1>19. CASE PutCommit(r)
  <2>1. pc[r] = "createCommit" /\ job[r].kind = "upload" /\ Goto(r, "label")
        /\ NoneLike(Item1(r), commits) /\ Item1(r) \in Pushed
    BY <1>000, <1>19 DEF PutCommit
  <2> DEFINE new == [ mod |-> Mod(r), files |-> Files(r), deps |-> job[r].deps,
                      b5 |-> B5(Files(r), digs[r]) ]
  <2>2. commits' = IF job[r].cid \in DOMAIN commits THEN commits
                   ELSE Bind(commits, job[r].cid, new)
    BY <1>19 DEF PutCommit, CreateCommit
  <2>3. \A c \in DOMAIN commits' :
            \/ c \in DOMAIN commits /\ commits'[c] = commits[c]
            \/ c = job[r].cid /\ c \notin DOMAIN commits
                   /\ commits'[c].mod = Item1(r).mod /\ commits'[c].files = Item1(r).files
    BY <2>2 DEF Bind, Mod, Files
  <2>4. CommitsPushed'
    BY <2>1, <2>3 DEF Singles, CommitsPushed
  <2>5. NoDuplicates'
    BY <2>1, <2>3 DEF Singles, NoDuplicates, NoneLike
  <2>6. pc'[r] = "label" /\ job'[r] = job[r]
    BY <2>1, BecomeOnly DEF Goto, TypeOK
  <2>7. PushOK(pc'[r], job'[r], commits')
    BY <1>0, <2>1, <2>6 DEF Singles, AllPushOK, PushOK
  <2>8. AllPushOK'
    BY <2>7 DEF AllPushOK, OneAtATime
  <2> QED
    BY <2>4, <2>5, <2>8 DEF Singles
<1>20. CASE UpdateLabel(r)
  <2>1. PICK n \in job[r].labels :
            /\ CreateOrUpdateLabel(<<Mod(r), n>>, job[r].cid)
            /\ IF job[r].labels = {n} THEN EndItem(r, {Result(r)})
               ELSE Become(r, "label", [job[r] EXCEPT !.labels = @ \ {n}])
    BY <1>20 DEF UpdateLabel
  <2>2. commits' = commits /\ job[r].kind = "upload"
    BY <1>000, <1>20, <2>1 DEF CreateOrUpdateLabel, UpdateLabel
  <2> DEFINE j == [job[r] EXCEPT !.labels = @ \ {n}]
  <2>3. j.kind = job[r].kind /\ j.items = job[r].items
    BY <1>00 DEF Job
  <2>4. EndItem(r, {Result(r)}) \/ Become(r, "label", j)
    BY <2>1
  <2> HIDE DEF j
  <2> QED
    BY <1>0, <2>2, <2>3, <2>4, EndItemSingle, BecomeSingle
<1> QED
  BY <1>1, <1>2, <1>3, <1>4, <1>5, <1>6, <1>7, <1>8, <1>9, <1>10, <1>11, <1>12, <1>13,
     <1>14, <1>15, <1>16, <1>17, <1>18, <1>19, <1>20 DEF Step

\* A failing call ends the request, or skips something that is looked for.
LEMMA FailSingle ==
    ASSUME OneAtATime, TypeOK, Singles, NEW r \in Requests,
           FailSwallowed(r) \/ FailWrite(r) \/ FailCall(r)
    PROVE  Singles'
<1>1. commits' = commits
  BY DEF FailSwallowed, FailWrite, FailCall, storageVars, metaVars
<1>2. CASE Abort(r)
  BY <1>1, <1>2, AbortSingle
<1>3. CASE FailSwallowed(r)
  <2>1. pc[r] \in {"owners", "modules", "probe"}
    BY <1>3 DEF FailSwallowed, Fault, OneAtATime
  <2>2. job[r] \in Job /\ job[r].kind = "upload"
    BY <2>1, ItemType DEF TypeOK, Singles, AllPushOK, PushOK, KindOK, UploadStages
  <2>3. ASSUME NEW i, Scan(r, [job[r] EXCEPT !.imports = @ \ {i}]) PROVE Singles'
    <3> DEFINE j == [job[r] EXCEPT !.imports = @ \ {i}]
    <3>1. j.kind = job[r].kind /\ j.items = job[r].items /\ Scan(r, j)
      BY <2>2, <2>3 DEF Job
    <3> HIDE DEF j
    <3> QED
      BY <1>1, <2>1, <2>2, <3>1, ScanSingle
  <2>4. ASSUME NEW o, Scan(r, [job[r] EXCEPT !.owners = @ \ {o}]) PROVE Singles'
    <3> DEFINE j == [job[r] EXCEPT !.owners = @ \ {o}]
    <3>1. j.kind = job[r].kind /\ j.items = job[r].items /\ Scan(r, j)
      BY <2>2, <2>4 DEF Job
    <3> HIDE DEF j
    <3> QED
      BY <1>1, <2>1, <2>2, <3>1, ScanSingle
  <2>5. ASSUME NEW m, Scan(r, [job[r] EXCEPT !.mods = @ \ {m}]) PROVE Singles'
    <3> DEFINE j == [job[r] EXCEPT !.mods = @ \ {m}]
    <3>1. j.kind = job[r].kind /\ j.items = job[r].items /\ Scan(r, j)
      BY <2>2, <2>5 DEF Job
    <3> HIDE DEF j
    <3> QED
      BY <1>1, <2>1, <2>2, <3>1, ScanSingle
  <2> QED
    BY <1>3, <2>1, <2>3, <2>4, <2>5 DEF FailSwallowed
<1> QED
  BY <1>2, <1>3 DEF FailWrite, FailCall

\* What a client asks for is what it pushes.
LEMMA StartSingle ==
    ASSUME OneAtATime, TypeOK, Singles, NEW r \in Requests, Start(r)
    PROVE  Singles'
<1>1. PICK call \in Calls, given \in SUBSET (DOMAIN commits \cup ForeignIDs) :
          /\ pc' = [pc EXCEPT ![r] = StartStage(call.kind, Head(call.items))]
          /\ job' = [job EXCEPT ![r] = Load(call.kind, call.items, given)]
  BY DEF Start
<1>2. call.kind \in Kinds /\ call.items \in Seq(Item) \ {<<>>}
  BY RegistryAssumption DEF Call
<1>3. given \subseteq CommitIDs
  <2>1. DOMAIN commits \subseteq CommitIDs
    BY DEF TypeOK, StorageTypeOK
  <2>2. ForeignIDs \subseteq CommitIDs
    BY RegistryAssumption DEF CommitIDs
  <2> QED
    BY <2>1, <2>2
<1>4. PICK k, t : k = call.kind /\ t = call.items
  OBVIOUS
<1>5. KindOK(StartStage(k, Head(t)), k) /\ StartStage(k, Head(t)) \notin {"newID", "createCommit"}
  BY <1>2, <1>3, <1>4, LoadType, StartKind
<1>6. Load(k, t, given).items = t /\ Load(k, t, given).kind = k
  BY <1>2, <1>3, <1>4, LoadType DEF Load, NoJob
<1>7. pc'[r] = StartStage(k, Head(t)) /\ job'[r] = Load(k, t, given)
  BY <1>1, <1>4 DEF TypeOK, LocalTypeOK
<1>8. \A i \in DOMAIN t : t[i] \in Item
  BY <1>2, <1>4
<1>9. k = "upload" => \A i \in DOMAIN t : t[i] \in Pushed
  BY <1>4, <1>8 DEF Pushed
<1>10. commits' = commits
  BY DEF Start, storageVars, metaVars
<1>11. PushOK(pc'[r], job'[r], commits')
  BY <1>5, <1>6, <1>7, <1>9 DEF PushOK
<1> QED
  BY <1>10, <1>11 DEF OneAtATime, Singles, NoDuplicates, CommitsPushed, AllPushOK

\* A crash takes back the requests, and the commits all or none.
LEMMA CrashSingle ==
    ASSUME Singles, Crash
    PROVE  Singles'
<1>1. AllPushOK'
  BY DEF Crash, AllPushOK, PushOK
<1>2. CASE Durable
  BY <1>1, <1>2 DEF Crash, LoseMemory, metaVars, Singles, NoDuplicates, CommitsPushed
<1>3. CASE ~Durable
  BY <1>1, <1>3 DEF Crash, LoseMemory, Singles, NoDuplicates, CommitsPushed
<1> QED
  BY <1>2, <1>3

\* All steps together.
LEMMA NextSingle ==
    ASSUME OneAtATime, TypeOK, Singles, [Next]_vars
    PROVE  Singles'
<1>1. CASE UNCHANGED vars
  BY <1>1 DEF vars, storageVars, metaVars, localVars, Singles, NoDuplicates,
              CommitsPushed, AllPushOK
<1> QED
  BY <1>1, StepSingle, FailSingle, StartSingle, CrashSingle DEF Next, Quiet

\* Pushed one after the other, the same files of a module are one commit,
\* whatever else fails, crashes or is lost on the way: CreateCommit returns
\* "an existing commit if content is identical".
THEOREM OneCommitForSameFiles ==
    ASSUME OneAtATime
    PROVE  Spec => []NoDuplicates
<1>1. Init => Singles
  BY DEF Init, StorageInit, Singles, NoDuplicates, CommitsPushed, AllPushOK, PushOK
<1>2. TypeOK /\ Singles /\ [Next]_vars => Singles'
  BY NextSingle
<1>3. Singles => NoDuplicates
  BY DEF Singles
<1> QED
  BY <1>1, <1>2, <1>3, TypeCorrect, PTL DEF Spec

-----------------------------------------------------------------------------
(***************************************************************************)
(* If nobody deletes, nothing goes away.                                   *)
(***************************************************************************)

\* No client deletes modules.
NoDeletions == \A call \in Calls : call.kind # "delete"

Deleting == {"delGet", "delete"}

\* No request is a deletion, nor on its way to one.
AllKeep == \A r \in Requests : job[r].kind # "delete" /\ pc[r] \notin Deleting

\* Moving on to a stage that deletes nothing,
LEMMA BecomeKeeps ==
    ASSUME TypeOK, AllKeep, NEW r \in Requests, NEW s, NEW j, Become(r, s, j),
           j.kind = job[r].kind, s \notin Deleting
    PROVE  AllKeep'
<1>1. Only(r) /\ pc'[r] = s /\ job'[r] = j
  BY BecomeOnly DEF TypeOK
<1> QED
  BY <1>1 DEF AllKeep, Only

\* with an unchanged job,
LEMMA GotoKeeps ==
    ASSUME TypeOK, AllKeep, NEW r \in Requests, NEW s, Goto(r, s), s \notin Deleting
    PROVE  AllKeep'
BY BecomeKeeps DEF Goto

\* to the end of the request,
LEMMA FinishKeeps ==
    ASSUME TypeOK, AllKeep, NEW r \in Requests, NEW result, Finish(r, result)
    PROVE  AllKeep'
<1>1. Only(r) /\ pc'[r] = "idle" /\ job'[r] = NoJob
  BY FinishOnly DEF TypeOK, LocalTypeOK, Finish
<1> QED
  BY <1>1 DEF AllKeep, Only, NoJob, Deleting

\* to the next item,
LEMMA EndItemKeeps ==
    ASSUME TypeOK, AllKeep, NEW r \in Requests, pc[r] # "idle", NEW result, EndItem(r, result)
    PROVE  AllKeep'
<1> DEFINE rest == Tail(job[r].items)
<1>1. CASE rest = <<>>
  BY <1>1, FinishKeeps DEF EndItem
<1>2. CASE rest # <<>>
  <2>1. PICK k, t, g : k = job[r].kind /\ t = rest /\ g = job[r].given
    OBVIOUS
  <2>2. /\ pc'[r] = StartStage(k, Head(t)) /\ job'[r] = Load(k, t, g)
        /\ Only(r)
    BY <1>2, <2>1 DEF EndItem, TypeOK, LocalTypeOK, Only
  <2>3. t \in Seq(Item) \ {<<>>} /\ k \in Kinds /\ g \in SUBSET CommitIDs
    BY <1>2, <2>1, ItemType DEF TypeOK, Job
  <2>4. k # "delete"
    BY <2>1 DEF AllKeep
  <2>5. StartStage(k, Head(t)) \notin Deleting
    BY <2>3, <2>4 DEF StartStage, FirstStage, Kinds, Deleting
  <2>6. Load(k, t, g).kind = k
    BY DEF Load, NoJob
  <2> QED
    BY <2>2, <2>4, <2>5, <2>6 DEF AllKeep, Only
<1> QED
  BY <1>1, <1>2

\* on from the module,
LEMMA HaveModuleKeeps ==
    ASSUME TypeOK, AllKeep, NEW r \in Requests, pc[r] # "idle", HaveModule(r)
    PROVE  AllKeep'
<1>1. CASE job[r].kind = "create"
  BY <1>1, EndItemKeeps DEF HaveModule
<1>2. CASE job[r].kind # "create"
  <2> DEFINE imports == IF job[r].given = {} THEN ImportsIn(Files(r)) ELSE {}
             j == [job[r] EXCEPT !.imports = imports, !.deps = @ \cup job[r].given]
             t == IF imports = {} THEN "digests" ELSE "owners"
  <2>1. Become(r, t, j) /\ t \notin Deleting
    BY <1>2 DEF HaveModule, Deleting
  <2>2. j.kind = job[r].kind
    BY ItemType DEF TypeOK, Job
  <2> HIDE DEF j, t
  <2> QED
    BY <2>1, <2>2, BecomeKeeps
<1> QED
  BY <1>1, <1>2

\* or while dependencies are looked for leads to no deletion.
LEMMA ScanKeeps ==
    ASSUME TypeOK, AllKeep, NEW r \in Requests, NEW j, Scan(r, j), j.kind = job[r].kind
    PROVE  AllKeep'
<1>1. Become(r, ScanStage(j), j) /\ ScanStage(j) \notin Deleting
  BY DEF Scan, ScanStage, Deleting
<1> QED
  BY <1>1, BecomeKeeps

\* Nor does any other step of a request,
LEMMA StepKeeps ==
    ASSUME TypeOK, AllKeep, NEW r \in Requests, Step(r)
    PROVE  AllKeep'
<1>0. pc[r] # "idle" /\ job[r] \in Job
  BY DEF Step, Resolve, GetModule, GetOwner, PutOwner, PutModule, Reload,
         DeleteLookup, RemoveModule, ListOwners, ListModules, Probe,
         ReadDigests, BlobExists, BlobWrite, ManifestExists, ManifestWrite,
         Dedup, NewID, PutCommit, UpdateLabel, TypeOK, LocalTypeOK
<1>00. job[r].kind # "delete" /\ pc[r] \notin Deleting
  BY DEF AllKeep
<1>1. ASSUME NEW s, Goto(r, s), s \notin Deleting PROVE AllKeep'
  BY <1>1, GotoKeeps
<1>2. CASE Abort(r)
  BY <1>2, FinishKeeps DEF Abort
<1>3. CASE Resolve(r)
  <2>1. FirstStage(job[r].kind) \notin Deleting
    BY <1>00, <1>0 DEF FirstStage, Deleting, Job, Kinds
  <2> QED
    BY <1>1, <1>2, <1>3, <2>1 DEF Resolve
<1>4. CASE HaveModule(r)
  BY <1>0, <1>4, HaveModuleKeeps
<1>5. CASE GetModule(r) \/ GetOwner(r) \/ PutOwner(r) \/ PutModule(r) \/ Reload(r)
  BY <1>1, <1>2, <1>4, <1>5
     DEF GetModule, GetOwner, PutOwner, PutModule, Reload, Deleting
<1>6. ~DeleteLookup(r) /\ ~RemoveModule(r)
  BY <1>00 DEF DeleteLookup, RemoveModule, Deleting
<1>7. CASE ListOwners(r)
  <2>1. PICK i \in job[r].imports :
            Scan(r, [job[r] EXCEPT !.imports = @ \ {i}, !.imp = {i}, !.owners = owners])
    BY <1>7 DEF ListOwners
  <2> DEFINE j == [job[r] EXCEPT !.imports = @ \ {i}, !.imp = {i}, !.owners = owners]
  <2>2. j.kind = job[r].kind /\ Scan(r, j)
    BY <1>0, <2>1 DEF Job
  <2> HIDE DEF j
  <2> QED
    BY <2>2, ScanKeeps
<1>8. CASE ListModules(r)
  <2>1. PICK o \in job[r].owners :
            Scan(r, [job[r] EXCEPT !.owners = @ \ {o}, !.mods = ModulesOf(o)])
    BY <1>8 DEF ListModules
  <2> DEFINE j == [job[r] EXCEPT !.owners = @ \ {o}, !.mods = ModulesOf(o)]
  <2>2. j.kind = job[r].kind /\ Scan(r, j)
    BY <1>0, <2>1 DEF Job
  <2> HIDE DEF j
  <2> QED
    BY <2>2, ScanKeeps
<1>9. CASE Probe(r)
  <2>1. PICK m \in job[r].mods :
            \/ Scan(r, [job[r] EXCEPT !.owners = {}, !.mods = {},
                                      !.deps = @ \cup {labels[<<m, Main>>]}])
            \/ Scan(r, [job[r] EXCEPT !.mods = @ \ {m}])
    BY <1>9 DEF Probe
  <2> DEFINE j == [job[r] EXCEPT !.owners = {}, !.mods = {},
                                 !.deps = @ \cup {labels[<<m, Main>>]}]
             k == [job[r] EXCEPT !.mods = @ \ {m}]
  <2>2. j.kind = job[r].kind /\ k.kind = job[r].kind /\ (Scan(r, j) \/ Scan(r, k))
    BY <1>0, <2>1 DEF Job
  <2> HIDE DEF j, k
  <2> QED
    BY <2>2, ScanKeeps
<1>10. CASE ReadDigests(r)
  <2>1. CASE ~Abort(r)
    <3>1. /\ pc' = [pc EXCEPT ![r] = BlobStage(job[r])] /\ job' = job
          /\ BlobStage(job[r]) \notin Deleting
      BY <1>10, <2>1 DEF ReadDigests, BlobStage, Deleting
    <3> QED
      BY <3>1 DEF AllKeep, TypeOK, LocalTypeOK
  <2> QED
    BY <1>2, <2>1
<1>11. CASE BlobExists(r)
  <2>1. PICK e \in job[r].todo :
            LET j == [job[r] EXCEPT !.todo = @ \ {e}] IN
            IF e[2] \in blobs THEN Become(r, BlobStage(j), j)
            ELSE Become(r, "blobWrite", [j EXCEPT !.blob = {e[2]}])
    BY <1>11 DEF BlobExists
  <2> DEFINE j == [job[r] EXCEPT !.todo = @ \ {e}]
             k == [j EXCEPT !.blob = {e[2]}]
  <2>2. j.kind = job[r].kind /\ k.kind = job[r].kind
    BY <1>0 DEF Job
  <2>3. BlobStage(j) \notin Deleting /\ "blobWrite" \notin Deleting
    BY DEF BlobStage, Deleting
  <2>4. Become(r, BlobStage(j), j) \/ Become(r, "blobWrite", k)
    BY <2>1
  <2> HIDE DEF j, k
  <2> QED
    BY <2>2, <2>3, <2>4, BecomeKeeps
<1>12. CASE BlobWrite(r)
  <2> DEFINE j == [job[r] EXCEPT !.blob = {}]
  <2>1. /\ j.kind = job[r].kind /\ Become(r, BlobStage(job[r]), j)
        /\ BlobStage(job[r]) \notin Deleting
    BY <1>0, <1>12 DEF Job, BlobWrite, BlobStage, Deleting
  <2> HIDE DEF j
  <2> QED
    BY <2>1, BecomeKeeps
<1>13. CASE ManifestExists(r) \/ ManifestWrite(r) \/ PutCommit(r)
  BY <1>1, <1>13 DEF ManifestExists, ManifestWrite, PutCommit, Deleting
<1>14. ASSUME NEW c, NEW s, s \notin Deleting, Become(r, s, [job[r] EXCEPT !.cid = c])
       PROVE  AllKeep'
  <2> DEFINE j == [job[r] EXCEPT !.cid = c]
  <2>1. j.kind = job[r].kind /\ Become(r, s, j)
    BY <1>0, <1>14 DEF Job
  <2> HIDE DEF j
  <2> QED
    BY <1>14, <2>1, BecomeKeeps
<1>15. CASE Dedup(r) \/ NewID(r)
  <2>1. {"label", "newID", "createCommit"} \cap Deleting = {}
    BY DEF Deleting
  <2>2. CASE Goto(r, "newID")
    BY <1>1, <2>1, <2>2
  <2>3. CASE \E c : Become(r, "label", [job[r] EXCEPT !.cid = c])
    BY <1>14, <2>1, <2>3
  <2>4. CASE \E c : Become(r, "createCommit", [job[r] EXCEPT !.cid = c])
    BY <1>14, <2>1, <2>4
  <2> QED
    BY <1>15, <2>2, <2>3, <2>4 DEF Dedup, NewID
<1>16. CASE UpdateLabel(r)
  <2>1. PICK n \in job[r].labels :
            IF job[r].labels = {n} THEN EndItem(r, {Result(r)})
            ELSE Become(r, "label", [job[r] EXCEPT !.labels = @ \ {n}])
    BY <1>16 DEF UpdateLabel
  <2> DEFINE j == [job[r] EXCEPT !.labels = @ \ {n}]
  <2>2. j.kind = job[r].kind /\ "label" \notin Deleting
    BY <1>0 DEF Job, Deleting
  <2>3. EndItem(r, {Result(r)}) \/ Become(r, "label", j)
    BY <2>1
  <2> HIDE DEF j
  <2> QED
    BY <1>0, <2>2, <2>3, EndItemKeeps, BecomeKeeps
<1> QED
  BY <1>3, <1>5, <1>6, <1>7, <1>8, <1>9, <1>10, <1>11, <1>12, <1>13, <1>15, <1>16 DEF Step

\* a failing call,
LEMMA FailKeeps ==
    ASSUME TypeOK, AllKeep, NEW r \in Requests, FailSwallowed(r) \/ FailWrite(r) \/ FailCall(r)
    PROVE  AllKeep'
<1>0. job[r] \in Job
  BY DEF TypeOK, LocalTypeOK
<1>1. CASE Abort(r)
  BY <1>1, FinishKeeps DEF Abort
<1>2. ASSUME NEW i, Scan(r, [job[r] EXCEPT !.imports = @ \ {i}]) PROVE AllKeep'
  <2> DEFINE j == [job[r] EXCEPT !.imports = @ \ {i}]
  <2>1. j.kind = job[r].kind /\ Scan(r, j)
    BY <1>0, <1>2 DEF Job
  <2> HIDE DEF j
  <2> QED
    BY <2>1, ScanKeeps
<1>3. ASSUME NEW o, Scan(r, [job[r] EXCEPT !.owners = @ \ {o}]) PROVE AllKeep'
  <2> DEFINE j == [job[r] EXCEPT !.owners = @ \ {o}]
  <2>1. j.kind = job[r].kind /\ Scan(r, j)
    BY <1>0, <1>3 DEF Job
  <2> HIDE DEF j
  <2> QED
    BY <2>1, ScanKeeps
<1>4. ASSUME NEW m, Scan(r, [job[r] EXCEPT !.mods = @ \ {m}]) PROVE AllKeep'
  <2> DEFINE j == [job[r] EXCEPT !.mods = @ \ {m}]
  <2>1. j.kind = job[r].kind /\ Scan(r, j)
    BY <1>0, <1>4 DEF Job
  <2> HIDE DEF j
  <2> QED
    BY <2>1, ScanKeeps
<1>5. ASSUME Goto(r, "newID") PROVE AllKeep'
  BY <1>5, GotoKeeps DEF Deleting
<1> QED
  BY <1>1, <1>2, <1>3, <1>4, <1>5 DEF FailSwallowed, FailWrite, FailCall

\* or a client.
LEMMA StartKeeps ==
    ASSUME NoDeletions, TypeOK, AllKeep, NEW r \in Requests, Start(r)
    PROVE  AllKeep'
<1>1. PICK call \in Calls, given \in SUBSET (DOMAIN commits \cup ForeignIDs) :
          /\ pc' = [pc EXCEPT ![r] = StartStage(call.kind, Head(call.items))]
          /\ job' = [job EXCEPT ![r] = Load(call.kind, call.items, given)]
  BY DEF Start
<1>2. PICK k, t : k = call.kind /\ t = call.items
  OBVIOUS
<1>3. k \in Kinds /\ k # "delete"
  BY <1>2, RegistryAssumption DEF Call, NoDeletions
<1>4. StartStage(k, Head(t)) \notin Deleting
  BY <1>3 DEF StartStage, FirstStage, Kinds, Deleting
<1>5. Load(k, t, given).kind = k
  BY DEF Load, NoJob
<1>6. /\ pc'[r] = StartStage(k, Head(t)) /\ job'[r] = Load(k, t, given)
      /\ \A q \in Requests : q # r => pc'[q] = pc[q] /\ job'[q] = job[q]
  BY <1>1, <1>2 DEF TypeOK, LocalTypeOK
<1> QED
  BY <1>3, <1>4, <1>5, <1>6 DEF AllKeep

\* All steps together.
LEMMA NextKeeps ==
    ASSUME NoDeletions, TypeOK, AllKeep, [Next]_vars
    PROVE  AllKeep'
<1>1. CASE Crash
  BY <1>1 DEF Crash, AllKeep, NoJob, Deleting
<1>2. CASE UNCHANGED vars
  BY <1>2 DEF vars, localVars, AllKeep
<1> QED
  BY <1>1, <1>2, StepKeeps, FailKeeps, StartKeeps DEF Next, Quiet

\* What readers find is there after a step, too.
NothingLost ==
    /\ blobs \subseteq blobs' /\ manifests \subseteq manifests'
    /\ owners \subseteq owners' /\ modules \subseteq modules'
    /\ DOMAIN labels \subseteq DOMAIN labels'

\* Only deletions and forgetful restarts take anything away.
LEMMA NextLosesNothing ==
    ASSUME Durable, AllKeep, [Next]_vars
    PROVE  NothingLost
<1>1. ASSUME NEW r \in Requests, Step(r)
      PROVE  NothingLost
  <2>1. ~RemoveModule(r)
    BY DEF AllKeep, RemoveModule, Deleting
  <2>2. CASE UNCHANGED storageVars
    BY <2>2 DEF storageVars, bucketVars, metaVars, NothingLost
  <2>3. CASE PutOwner(r) \/ PutModule(r) \/ PutCommit(r)
    BY <2>3 DEF PutOwner, CreateOwner, PutModule, CreateModule, PutCommit, CreateCommit,
         bucketVars, NothingLost
  <2>4. CASE UpdateLabel(r)
    BY <2>4 DEF UpdateLabel, CreateOrUpdateLabel, Bind, bucketVars, NothingLost
  <2>5. CASE BlobWrite(r) \/ ManifestWrite(r)
    BY <2>5 DEF BlobWrite, WriteBlob, ManifestWrite, WriteManifest, metaVars, NothingLost
  <2> QED
    BY <1>1, <2>1, <2>2, <2>3, <2>4, <2>5 DEF Step, Resolve, GetModule, GetOwner, Reload,
         DeleteLookup, ListOwners, ListModules, Probe, ReadDigests, BlobExists,
         ManifestExists, Dedup, NewID
<1>2. ASSUME NEW r \in Requests, Start(r) \/ FailSwallowed(r) \/ FailWrite(r) \/ FailCall(r)
      PROVE  NothingLost
  BY <1>2 DEF Start, FailSwallowed, FailWrite, FailCall, TearBlob, TearManifest,
       storageVars, bucketVars, metaVars, NothingLost
<1>3. ASSUME Crash \/ UNCHANGED vars
      PROVE  NothingLost
  BY <1>3 DEF Crash, LoseMemory, vars, storageVars, bucketVars, metaVars, NothingLost
<1> QED
  BY <1>1, <1>2, <1>3 DEF Next, Quiet

\* In a durable registry that nobody deletes from, nothing that a reader has
\* found ever goes away: no object, owner, module or label.
THEOREM NothingIsEverLost ==
    ASSUME Durable, NoDeletions
    PROVE  Spec => [][NothingLost]_vars
<1>1. Init => AllKeep
  BY DEF Init, AllKeep, NoJob, Deleting
<1>2. TypeOK /\ AllKeep /\ [Next]_vars => AllKeep'
  BY NextKeeps
<1>3. AllKeep /\ [Next]_vars => NothingLost
  BY NextLosesNothing
<1> QED
  BY <1>1, <1>2, <1>3, TypeCorrect, PTL DEF Spec
=============================================================================
