------------------------------ MODULE Registry ------------------------------
(***************************************************************************)
(* The requests that change the registry: Upload (service/upload.go),      *)
(* CreateModules and DeleteModules (service/module.go), with the registry  *)
(* operations they call (internal/registry).  Each request runs in its own *)
(* goroutine and holds no lock: an action is one call to the storage, and  *)
(* the requests interleave between calls.  A storage call may fail, a      *)
(* write may stop half way, and the process may die between two calls.     *)
(*                                                                         *)
(* Commits never change and only disappear with the whole collection, so   *)
(* the reads of several commits in a row are taken as one step.            *)
(***************************************************************************)
EXTENDS Storage, Sequences

CONSTANTS
    Requests,       \* goroutines that serve requests
    Calls,          \* what clients may ask: [kind |-> ..., items |-> ...]
    ForeignIDs,     \* commit IDs of other registries that clients may name
    MaxGiven,       \* how many dependencies a client names
    ImportsOf,      \* the paths a content imports, google/ left out
    Main,           \* the label "main"
    Fallible,       \* the stages whose storage call may fail
    MaxCalls, MaxFaults, MaxCrashes

Kinds == {"upload", "create", "delete"}

\* One element of a request: a module and, for Upload, its files and labels.
Item == [ mod: Modules, files: Manifests, labels: SUBSET LabelNames,
          byId: BOOLEAN ]

Call == [kind: Kinds, items: Seq(Item) \ {<<>>}]

ASSUME RegistryAssumption ==
    /\ Calls \subseteq Call
    /\ ForeignIDs \subseteq {0}
    /\ ImportsOf \in [Contents -> SUBSET Paths]
    /\ Main \in LabelNames
    /\ {MaxGiven, MaxCalls, MaxFaults, MaxCrashes} \subseteq Nat

VARIABLES
    pc,         \* the storage call each request makes next
    job,        \* the local state of each request
    digs,       \* the dependencies' digests it has read, by commit ID
    resp,       \* the commits of its response so far
    clock,      \* the next commit ID (UUID v7)
    acks,       \* the commits that clients were told about
    outcome,    \* how the last request of each goroutine ended
    deleted,    \* the modules that requests deleted, for the properties
    calls, faults, crashes  \* how many there were, for the bounds

localVars == <<pc, job, digs, resp, outcome>>
budget == <<deleted, calls, faults, crashes>>
vars == <<storageVars, localVars, clock, acks, budget>>

Stages == { "idle", "resolve", "getModule", "getOwner", "createOwner",
            "createModule", "reload", "owners", "modules", "probe",
            "digests", "blobExists", "blobWrite", "manifestExists",
            "manifestWrite", "dedup", "newID", "createCommit", "label",
            "delGet", "delete" }

Job == [ kind: Kinds, items: Seq(Item),
         given: SUBSET CommitIDs,   \* dependencies named by the client
         imports: SUBSET Paths,     \* imports still to be resolved
         imp: SUBSET Paths,         \* the one being resolved
         owners: SUBSET Owners,     \* owners still to be listed for it
         mods: SUBSET Modules,      \* modules still to be looked into
         deps: SUBSET CommitIDs,    \* the dependencies of the commit
         todo: Manifests,           \* files still to be stored
         blob: SUBSET Contents,     \* the blob being written
         cid: CommitIDs,            \* the commit, once known
         labels: SUBSET LabelNames  \* labels still to be moved
       ]

NoJob == [ kind |-> "upload", items |-> <<>>, given |-> {}, imports |-> {},
           imp |-> {}, owners |-> {}, mods |-> {}, deps |-> {}, todo |-> {},
           blob |-> {}, cid |-> 0, labels |-> {} ]

LocalTypeOK ==
    /\ pc \in [Requests -> Stages]
    /\ job \in [Requests -> Job]
    /\ \A r \in Requests : pc[r] # "idle" => job[r].items # <<>>
    /\ DOMAIN digs = Requests
    /\ DOMAIN resp = Requests
    /\ outcome \in [Requests -> {"none", "ok", "error"}]

CounterTypeOK ==
    /\ clock \in CommitIDs \ {0}
    /\ deleted \subseteq Modules
    /\ calls \in 0 .. MaxCalls
    /\ faults \in 0 .. MaxFaults
    /\ crashes \in 0 .. MaxCrashes

TypeOK == StorageTypeOK /\ LocalTypeOK /\ CounterTypeOK

Init ==
    /\ StorageInit
    /\ pc = [r \in Requests |-> "idle"]
    /\ job = [r \in Requests |-> NoJob]
    /\ digs = [r \in Requests |-> [d \in {} |-> {}]]
    /\ resp = [r \in Requests |-> {}]
    /\ outcome = [r \in Requests |-> "none"]
    /\ clock = 1
    /\ acks = {}
    /\ deleted = {}
    /\ calls = 0 /\ faults = 0 /\ crashes = 0

-----------------------------------------------------------------------------
(***************************************************************************)
(* How a request moves on.                                                 *)
(***************************************************************************)

Item1(r) == Head(job[r].items)
Mod(r) == Item1(r).mod
Files(r) == Item1(r).files

Become(r, stage, j) ==
    /\ pc' = [pc EXCEPT ![r] = stage]
    /\ job' = [job EXCEPT ![r] = j]
    /\ UNCHANGED <<digs, resp, acks, outcome>>

Goto(r, stage) == Become(r, stage, job[r])

FirstStage(kind) ==
    IF kind = "upload" THEN "getModule"
    ELSE IF kind = "create" THEN "getOwner" ELSE "delGet"

StartStage(kind, item) ==
    IF item.byId /\ kind # "create" THEN "resolve" ELSE FirstStage(kind)

\* The locals at the start of an item; no label given means "main".
Load(kind, items, given) ==
    [NoJob EXCEPT !.kind = kind, !.items = items, !.given = given,
                  !.todo = Head(items).files,
                  !.labels = IF Head(items).labels = {} THEN {Main}
                             ELSE Head(items).labels]

Finish(r, result) ==
    /\ pc' = [pc EXCEPT ![r] = "idle"]
    /\ job' = [job EXCEPT ![r] = NoJob]
    /\ digs' = [digs EXCEPT ![r] = [d \in {} |-> {}]]
    /\ resp' = [resp EXCEPT ![r] = {}]
    /\ outcome' = [outcome EXCEPT ![r] = result]

\* The items of a request are handled one after the other; the response
\* goes out after the last, and the first error ends the request.
EndItem(r, result) ==
    LET rest == Tail(job[r].items) IN
    IF rest = <<>>
    THEN Finish(r, "ok") /\ acks' = acks \cup resp[r] \cup result
    ELSE /\ pc' = [pc EXCEPT ![r] = StartStage(job[r].kind, Head(rest))]
         /\ job' = [job EXCEPT ![r] =
                        Load(job[r].kind, rest, job[r].given)]
         /\ resp' = [resp EXCEPT ![r] = @ \cup result]
         /\ UNCHANGED <<digs, acks, outcome>>

Abort(r) == Finish(r, "error") /\ UNCHANGED acks

-----------------------------------------------------------------------------
(***************************************************************************)
(* The module of an item: GetOrCreateModule, CreateModule, DeleteModule.   *)
(***************************************************************************)

ImportsIn(files) == UNION {ImportsOf[c] : c \in ContentsOf(files)}

\* The module is known: CreateModules is done with the item, Upload looks
\* for dependencies if the client named none.
HaveModule(r) ==
    IF job[r].kind = "create" THEN EndItem(r, {})
    ELSE LET imports == IF job[r].given = {} THEN ImportsIn(Files(r)) ELSE {}
         IN Become(r, IF imports = {} THEN "digests" ELSE "owners",
                   [job[r] EXCEPT !.imports = imports, !.deps = @ \cup job[r].given])

\* A reference by ID is resolved to the name first.
Resolve(r) ==
    /\ pc[r] = "resolve"
    /\ IF Mod(r) \in modules THEN Goto(r, FirstStage(job[r].kind)) ELSE Abort(r)
    /\ UNCHANGED <<storageVars, clock, budget>>

GetModule(r) ==
    /\ pc[r] = "getModule"
    /\ IF Mod(r) \in modules THEN HaveModule(r) ELSE Goto(r, "getOwner")
    /\ UNCHANGED <<storageVars, clock, budget>>

\* Slip: the owner is taken to exist.
GetOwnerAssumed(r) ==
    /\ pc[r] = "getOwner"
    /\ Goto(r, "createModule")
    /\ UNCHANGED <<storageVars, clock, budget>>

GetOwner(r) ==
    /\ pc[r] = "getOwner"
    /\ Goto(r, IF OwnerOf[Mod(r)] \in owners THEN "createModule" ELSE "createOwner")
    /\ UNCHANGED <<storageVars, clock, budget>>

\* Another request may have created the owner in between: that is no error.
PutOwner(r) ==
    /\ pc[r] = "createOwner"
    /\ CreateOwner(OwnerOf[Mod(r)])
    /\ Goto(r, "createModule")
    /\ UNCHANGED <<bucketVars, clock, budget>>

\* Slip: ErrAlreadyExists is an error like any other.
PutModuleStrict(r) ==
    /\ pc[r] = "createModule"
    /\ IF Mod(r) \in modules THEN Abort(r) ELSE HaveModule(r)
    /\ CreateModule(Mod(r))
    /\ UNCHANGED <<bucketVars, clock, budget>>

PutModule(r) ==
    /\ pc[r] = "createModule"
    /\ IF Mod(r) \in modules THEN Goto(r, "reload") ELSE HaveModule(r)
    /\ CreateModule(Mod(r))
    /\ UNCHANGED <<bucketVars, clock, budget>>

\* CreateModule met ErrAlreadyExists and looks the module up by name.
Reload(r) ==
    /\ pc[r] = "reload"
    /\ IF Mod(r) \in modules THEN HaveModule(r) ELSE Abort(r)
    /\ UNCHANGED <<storageVars, clock, budget>>

DeleteLookup(r) ==
    /\ pc[r] = "delGet"
    /\ IF Mod(r) \in modules THEN Goto(r, "delete") ELSE Abort(r)
    /\ UNCHANGED <<storageVars, clock, budget>>

RemoveModule(r) ==
    /\ pc[r] = "delete"
    /\ DeleteModule(Mod(r))
    /\ deleted' = deleted \cup {Mod(r)}
    /\ EndItem(r, {})
    /\ UNCHANGED <<bucketVars, clock, calls, faults, crashes>>

-----------------------------------------------------------------------------
(***************************************************************************)
(* Dependencies.  For each import, findModuleWithFile visits the owners,   *)
(* their modules, and the files of each module's "main" commit; the first  *)
(* module that has the path gives the dependency.  Queries return          *)
(* documents in any order.                                                 *)
(***************************************************************************)

ScanStage(j) ==
    IF j.mods # {} THEN "probe"
    ELSE IF j.owners # {} THEN "modules"
    ELSE IF j.imports # {} THEN "owners"
    ELSE "digests"

Scan(r, j) == Become(r, ScanStage(j), j)

ListOwners(r) ==
    /\ pc[r] = "owners"
    /\ \E i \in job[r].imports :
           Scan(r, [job[r] EXCEPT !.imports = @ \ {i}, !.imp = {i}, !.owners = owners])
    /\ UNCHANGED <<storageVars, clock, budget>>

\* Slip: an owner whose modules were listed is listed again.
ListModulesAgain(r) ==
    /\ pc[r] = "modules"
    /\ \E o \in job[r].owners : Scan(r, [job[r] EXCEPT !.mods = ModulesOf(o)])
    /\ UNCHANGED <<storageVars, clock, budget>>

ListModules(r) ==
    /\ pc[r] = "modules"
    /\ \E o \in job[r].owners :
           Scan(r, [job[r] EXCEPT !.owners = @ \ {o}, !.mods = ModulesOf(o)])
    /\ UNCHANGED <<storageVars, clock, budget>>

\* Does the "main" commit of m have one of the paths?  The answers possible.
HasFile(m, paths) ==
    LET l == <<m, Main>> IN
    IF /\ l \in DOMAIN labels
       /\ labels[l] \in DOMAIN commits
       /\ commits[labels[l]].mod = m
       /\ commits[labels[l]].files \in manifests
       /\ ContentsOf(commits[labels[l]].files) \subseteq blobs
    THEN { \E e \in listing : e[1] \in paths :
               listing \in Listings(commits[labels[l]].files) }
    ELSE {FALSE}

Probe(r) ==
    /\ pc[r] = "probe"
    /\ \E m \in job[r].mods : \E found \in HasFile(m, job[r].imp) :
           IF found
           THEN Scan(r, [job[r] EXCEPT !.owners = {}, !.mods = {},
                                       !.deps = @ \cup {labels[<<m, Main>>]}])
           ELSE Scan(r, [job[r] EXCEPT !.mods = @ \ {m}])
    /\ UNCHANGED <<storageVars, clock, budget>>

BlobStage(j) == IF j.todo = {} THEN "manifestExists" ELSE "blobExists"

\* Slip: only the dependencies that the client named enter the digest.
ReadDigestsGiven(r) ==
    /\ pc[r] = "digests"
    /\ IF job[r].deps \subseteq DOMAIN commits
       THEN /\ pc' = [pc EXCEPT ![r] = BlobStage(job[r])]
            /\ digs' = [digs EXCEPT ![r] = [d \in job[r].given |-> commits[d].b5]]
            /\ UNCHANGED <<job, resp, acks, outcome>>
       ELSE Abort(r)
    /\ UNCHANGED <<storageVars, clock, budget>>

\* Slip: an unknown dependency is passed over, and kept in the commit.
ReadDigestsLenient(r) ==
    /\ pc[r] = "digests"
    /\ pc' = [pc EXCEPT ![r] = BlobStage(job[r])]
    /\ digs' = [digs EXCEPT ![r] =
                   [d \in job[r].deps \cap DOMAIN commits |-> commits[d].b5]]
    /\ UNCHANGED <<job, resp, acks, outcome>>
    /\ UNCHANGED <<storageVars, clock, budget>>

\* GetDepModuleDigests: an unknown dependency fails the request.
ReadDigests(r) ==
    /\ pc[r] = "digests"
    /\ IF job[r].deps \subseteq DOMAIN commits
       THEN /\ pc' = [pc EXCEPT ![r] = BlobStage(job[r])]
            /\ digs' = [digs EXCEPT ![r] = [d \in job[r].deps |-> commits[d].b5]]
            /\ UNCHANGED <<job, resp, acks, outcome>>
       ELSE Abort(r)
    /\ UNCHANGED <<storageVars, clock, budget>>

-----------------------------------------------------------------------------
(***************************************************************************)
(* Module.CreateCommit: blobs, manifest, search for an equal commit,       *)
(* commit document, labels.                                                *)
(***************************************************************************)

BlobExists(r) ==
    /\ pc[r] = "blobExists"
    /\ \E e \in job[r].todo :
           LET j == [job[r] EXCEPT !.todo = @ \ {e}] IN
           IF e[2] \in blobs THEN Become(r, BlobStage(j), j)
           ELSE Become(r, "blobWrite", [j EXCEPT !.blob = {e[2]}])
    /\ UNCHANGED <<storageVars, clock, budget>>

BlobWrite(r) ==
    /\ pc[r] = "blobWrite"
    /\ \E b \in job[r].blob : WriteBlob(b)
    /\ Become(r, BlobStage(job[r]), [job[r] EXCEPT !.blob = {}])
    /\ UNCHANGED <<metaVars, clock, budget>>

\* Slip: the manifest is hashed and not stored.
ManifestHashed(r) ==
    /\ pc[r] = "manifestExists"
    /\ Goto(r, "dedup")
    /\ UNCHANGED <<storageVars, clock, budget>>

ManifestExists(r) ==
    /\ pc[r] = "manifestExists"
    /\ Goto(r, IF Files(r) \in manifests THEN "dedup" ELSE "manifestWrite")
    /\ UNCHANGED <<storageVars, clock, budget>>

ManifestWrite(r) ==
    /\ pc[r] = "manifestWrite"
    /\ WriteManifest(Files(r))
    /\ Goto(r, "dedup")
    /\ UNCHANGED <<metaVars, clock, budget>>

\* Slip: no search for an equal commit.
DedupSkipped(r) ==
    /\ pc[r] = "dedup"
    /\ Goto(r, "newID")
    /\ UNCHANGED <<storageVars, clock, budget>>

\* The query returns one commit with these files, of whichever module; it
\* counts only if it is of this module.
Dedup(r) ==
    /\ pc[r] = "dedup"
    /\ \/ /\ MatchingCommits(Files(r)) = {}
          /\ Goto(r, "newID")
       \/ \E c \in MatchingCommits(Files(r)) :
              IF commits[c].mod = Mod(r)
              THEN Become(r, "label", [job[r] EXCEPT !.cid = c])
              ELSE Goto(r, "newID")
    /\ UNCHANGED <<storageVars, clock, budget>>

\* Slip: the ID is not fresh.
NewIDReused(r) ==
    /\ pc[r] = "newID"
    /\ Become(r, "createCommit", [job[r] EXCEPT !.cid = clock])
    /\ UNCHANGED <<storageVars, clock, budget>>

\* Slip: the labels move before the commit is there.
NewIDLabelFirst(r) ==
    /\ pc[r] = "newID"
    /\ clock' = clock + 1
    /\ Become(r, "label", [job[r] EXCEPT !.cid = clock])
    /\ UNCHANGED <<storageVars, budget>>

NewID(r) ==
    /\ pc[r] = "newID"
    /\ clock' = clock + 1
    /\ Become(r, "createCommit", [job[r] EXCEPT !.cid = clock])
    /\ UNCHANGED <<storageVars, budget>>

PutCommit(r) ==
    /\ pc[r] = "createCommit"
    /\ CreateCommit(job[r].cid,
           [ mod |-> Mod(r), files |-> Files(r), deps |-> job[r].deps,
             b5 |-> B5(Files(r), digs[r]) ])
    /\ Goto(r, "label")
    /\ UNCHANGED <<bucketVars, clock, budget>>

\* What the client learns of an item, and the digest it was computed for.
Result(r) == [ mod |-> Mod(r), files |-> Files(r), cid |-> job[r].cid,
               b5 |-> B5(Files(r), digs[r]) ]

\* Slip: the two parts of the label's ID are swapped.
UpdateLabelSwapped(r) ==
    /\ pc[r] = "label"
    /\ \E n \in job[r].labels :
           /\ CreateOrUpdateLabel(<<n, Mod(r)>>, job[r].cid)
           /\ IF job[r].labels = {n} THEN EndItem(r, {Result(r)})
              ELSE Become(r, "label", [job[r] EXCEPT !.labels = @ \ {n}])
    /\ UNCHANGED <<bucketVars, clock, budget>>

UpdateLabel(r) ==
    /\ pc[r] = "label"
    /\ \E n \in job[r].labels :
           /\ CreateOrUpdateLabel(<<Mod(r), n>>, job[r].cid)
           /\ IF job[r].labels = {n} THEN EndItem(r, {Result(r)})
              ELSE Become(r, "label", [job[r] EXCEPT !.labels = @ \ {n}])
    /\ UNCHANGED <<bucketVars, clock, budget>>

-----------------------------------------------------------------------------
(***************************************************************************)
(* Failures.                                                               *)
(***************************************************************************)

Fault(r) ==
    /\ pc[r] \in Fallible
    /\ faults < MaxFaults
    /\ faults' = faults + 1
    /\ UNCHANGED <<clock, deleted, calls, crashes>>

\* The stages whose errors the code swallows, and the writes.
Swallowing == {"owners", "modules", "probe", "dedup"}
Writing == {"blobWrite", "manifestWrite"}

\* An error while looking for a dependency skips the import, the owner or
\* the module; an error of the search for an equal commit counts as none.
FailSwallowed(r) ==
    /\ Fault(r)
    /\ \/ /\ pc[r] = "owners"
          /\ \E i \in job[r].imports : Scan(r, [job[r] EXCEPT !.imports = @ \ {i}])
       \/ /\ pc[r] = "modules"
          /\ \E o \in job[r].owners : Scan(r, [job[r] EXCEPT !.owners = @ \ {o}])
       \/ /\ pc[r] = "probe"
          /\ \E m \in job[r].mods : Scan(r, [job[r] EXCEPT !.mods = @ \ {m}])
       \/ /\ pc[r] = "dedup"
          /\ Goto(r, "newID")
    /\ UNCHANGED storageVars

\* Slip: the error of a failed write is ignored.
FailWriteIgnored(r) ==
    /\ Fault(r)
    /\ pc[r] \in Writing
    /\ Goto(r, IF pc[r] = "blobWrite" THEN BlobStage(job[r]) ELSE "dedup")
    /\ UNCHANGED storageVars

\* A write fails before anything is stored, or after a part of it is.
FailWrite(r) ==
    /\ Fault(r)
    /\ pc[r] \in Writing
    /\ \/ UNCHANGED bucketVars
       \/ pc[r] = "blobWrite" /\ \E b \in job[r].blob : TearBlob(b)
       \/ pc[r] = "manifestWrite" /\ TearManifest(Files(r))
    /\ Abort(r)
    /\ UNCHANGED metaVars

\* Any other failing call ends the request; newID calls no storage.
FailCall(r) ==
    /\ Fault(r)
    /\ pc[r] \notin Swallowing \cup Writing \cup {"idle", "newID"}
    /\ Abort(r)
    /\ UNCHANGED storageVars

\* The process dies with its requests and starts again.
Crash ==
    /\ crashes < MaxCrashes
    /\ crashes' = crashes + 1
    /\ pc' = [r \in Requests |-> "idle"]
    /\ job' = [r \in Requests |-> NoJob]
    /\ digs' = [r \in Requests |-> [d \in {} |-> {}]]
    /\ resp' = [r \in Requests |-> {}]
    /\ outcome' = [r \in Requests |->
                     IF pc[r] = "idle" THEN outcome[r] ELSE "error"]
    /\ LoseMemory
    /\ UNCHANGED <<bucketVars, clock, acks, deleted, calls, faults>>

-----------------------------------------------------------------------------

\* A client sends a request; an upload may name commits it knows as
\* dependencies.
Start(r) ==
    /\ pc[r] = "idle"
    /\ calls < MaxCalls
    /\ calls' = calls + 1
    /\ \E call \in Calls, given \in SUBSET (DOMAIN commits \cup ForeignIDs) :
           /\ Cardinality(given) <= IF call.kind = "upload" THEN MaxGiven ELSE 0
           /\ pc' = [pc EXCEPT ![r] = StartStage(call.kind, Head(call.items))]
           /\ job' = [job EXCEPT ![r] = Load(call.kind, call.items, given)]
    /\ outcome' = [outcome EXCEPT ![r] = "none"]
    /\ UNCHANGED <<storageVars, digs, resp, clock, acks, deleted, faults, crashes>>

\* The next storage call of a request, carried out.
Step(r) ==
    \/ Resolve(r) \/ GetModule(r) \/ GetOwner(r) \/ PutOwner(r)
    \/ PutModule(r) \/ Reload(r) \/ DeleteLookup(r) \/ RemoveModule(r)
    \/ ListOwners(r) \/ ListModules(r) \/ Probe(r) \/ ReadDigests(r)
    \/ BlobExists(r) \/ BlobWrite(r) \/ ManifestExists(r) \/ ManifestWrite(r)
    \/ Dedup(r) \/ NewID(r) \/ PutCommit(r) \/ UpdateLabel(r)

\* All requests are answered and no client asks for more.
Quiet ==
    /\ calls = MaxCalls
    /\ \A r \in Requests : pc[r] = "idle"
    /\ UNCHANGED vars

Next ==
    \/ \E r \in Requests : \/ Start(r) \/ Step(r)
                           \/ FailSwallowed(r) \/ FailWrite(r) \/ FailCall(r)
    \/ Crash
    \/ Quiet

Spec == Init /\ [][Next]_vars

\* A goroutine that waits for nothing but the storage goes on.
Fairness == \A r \in Requests : WF_vars(Step(r))
FairSpec == Spec /\ Fairness

-----------------------------------------------------------------------------
(***************************************************************************)
(* Properties.                                                             *)
(***************************************************************************)

\* What a client was told stays true after crashes, failed requests and pushes
\* by others: the commit of every response exists, is of the module the client
\* named, has the files it sent, and they are stored whole.  Download looks up
\* the module of the commit before it reads them (ModuleByCommitID); that
\* module is there as well, unless some request deleted it.
AcksKept ==
    \A a \in acks :
        /\ a.cid \in DOMAIN commits
        /\ commits[a.cid].mod = a.mod
        /\ commits[a.cid].files = a.files
        /\ Readable(a.files)
        /\ a.mod \in modules \cup deleted

\* Requests that find the storage working and name only what exists do not
\* fail because of each other: losing the race to create an owner or a module
\* is no error.
NoSpuriousErrors == \A r \in Requests : outcome[r] # "error"

\* A module has one commit for given files: CreateCommit returns "an existing
\* commit if content is identical".
NoDuplicates ==
    \A c, d \in DOMAIN commits :
        commits[c].mod = commits[d].mod /\ commits[c].files = commits[d].files
            => c = d

\* The commit a push is answered with carries the digest of the files and of
\* the dependencies of that push.
AckedDigest == \A a \in acks : commits[a.cid].b5 = a.b5

\* A commit document, once written, is never changed or removed.
CommitsImmutable ==
    [][ \A c \in DOMAIN commits :
            c \in DOMAIN commits' /\ commits'[c] = commits[c] ]_vars

\* The commits whose files are stored whole.
StoredCommits ==
    [ c \in {i \in DOMAIN commits : Readable(commits[i].files)} |->
          [mod |-> commits[c].mod, files |-> commits[c].files] ]

\* To those who download, all this is the abstract Catalog.
Readers == INSTANCE Catalog WITH
    Forgetful <- ~Durable, stored <- StoredCommits, heads <- labels,
    offered <- modules, withdrawn <- deleted

\* The storage calls of all requests, in whatever order and cut short wherever,
\* implement the catalogue: no reader can tell a push from one atomic step, and
\* only a deletion keeps a commit from being downloaded.
ImplementsCatalog == Readers!CatalogSpec

\* Every request ends, whatever other requests do.
RequestsEnd == \A r \in Requests : pc[r] # "idle" ~> pc[r] = "idle"
=============================================================================
