------------------------------ MODULE Storage ------------------------------
(***************************************************************************)
(* The storage layer of the registry (internal/storage): a bucket that     *)
(* holds file blobs and manifests under their SHAKE256 digest, and a       *)
(* document store with the collections owners, modules, commits, labels.   *)
(*                                                                         *)
(* A content stands for its own digest (the hash is taken as injective),   *)
(* and a manifest for the digest of its serialisation, which sorts the     *)
(* entries by path: the set of entries.  The IDs of owners and modules are *)
(* hashes of their names (internal/util/id.go), so a name stands for its   *)
(* ID.  Each operation below is one call to the bucket or the document     *)
(* store; what lies between two calls is the business of module Registry.  *)
(***************************************************************************)
EXTENDS Integers, FiniteSets

CONSTANTS
    Owners,         \* owner names
    Modules,        \* full module names, owner/module
    OwnerOf,        \* the owner part of a module name
    LabelNames,
    Paths,          \* file paths inside a module
    Contents,       \* file contents
    Durable,        \* does the document store survive the process?
    PartialPublish  \* does closing a bucket writer after a failed write
                    \* publish the part that was written?

ASSUME StorageAssumption ==
    /\ OwnerOf \in [Modules -> Owners]
    /\ Durable \in BOOLEAN
    /\ PartialPublish \in BOOLEAN

VARIABLES
    blobs,          \* contents that have an object in the bucket
    tornBlobs,      \* those whose object holds only a part of the content
    manifests,      \* manifests that have an object in the bucket
    tornManifests,  \* those whose object holds only a part of the manifest
    owners,         \* owner documents
    modules,        \* module documents
    commits,        \* commit documents, by commit ID
    labels          \* label documents: the commit ID, by <<module, name>>

bucketVars == <<blobs, tornBlobs, manifests, tornManifests>>
metaVars == <<owners, modules, commits, labels>>
storageVars == <<bucketVars, metaVars>>

\* Commit IDs are UUIDs of version 7: later ones are larger.
CommitIDs == Nat
LabelIDs == Modules \X LabelNames
Entries == Paths \X Contents
Manifests == SUBSET Entries

\* A commit document; its module digest b5 is described by DigestsMatch.
CommitLike(c) ==
    /\ c.mod \in Modules
    /\ c.files \in Manifests
    /\ c.deps \in SUBSET CommitIDs

StorageTypeOK ==
    /\ blobs \subseteq Contents /\ tornBlobs \subseteq blobs
    /\ manifests \subseteq Manifests /\ tornManifests \subseteq manifests
    /\ owners \subseteq Owners
    /\ modules \subseteq Modules
    /\ DOMAIN commits \subseteq CommitIDs
    /\ \A c \in DOMAIN commits : CommitLike(commits[c])
    /\ DOMAIN labels \subseteq LabelIDs
    /\ \A l \in DOMAIN labels : labels[l] \in CommitIDs

StorageInit ==
    /\ blobs = {} /\ tornBlobs = {}
    /\ manifests = {} /\ tornManifests = {}
    /\ owners = {} /\ modules = {}
    /\ commits = [c \in {} |-> {}]
    /\ labels = [l \in {} |-> 0]

\* f with k mapped to v, whether or not k was there.
Bind(f, k, v) == [x \in DOMAIN f \cup {k} |-> IF x = k THEN v ELSE f[x]]

-----------------------------------------------------------------------------
(***************************************************************************)
(* Digests.  ComputeB5Digest hashes the files digest and the sorted list   *)
(* of the dependencies' digests: the files and the bag of those digests.   *)
(***************************************************************************)

B5(files, digs) ==
    [ files |-> files,
      deps  |-> [ x \in {digs[d] : d \in DOMAIN digs} |->
                    Cardinality({d \in DOMAIN digs : digs[d] = x}) ] ]

ContentsOf(files) == {e[2] : e \in files}

\* What reading a manifest may return: ParseManifest of a torn one sees a
\* part of its lines.
Listings(files) == IF files \in tornManifests THEN SUBSET files ELSE {files}

\* All that a download of the files needs is there, in full.
Readable(files) ==
    /\ files \in manifests \ tornManifests
    /\ ContentsOf(files) \subseteq blobs \ tornBlobs

-----------------------------------------------------------------------------
(***************************************************************************)
(* The bucket: Put of a blob and PutManifest write an object in two calls, *)
(* Exists and the writer; these are the outcomes of the writer.            *)
(***************************************************************************)

WriteBlob(b) ==
    /\ blobs' = blobs \cup {b}
    /\ tornBlobs' = tornBlobs \ {b}
    /\ UNCHANGED <<manifests, tornManifests>>

\* io.Copy fails, and the Close that follows publishes what was copied.
TearBlob(b) ==
    /\ PartialPublish
    /\ blobs' = blobs \cup {b}
    /\ tornBlobs' = tornBlobs \cup {b}
    /\ UNCHANGED <<manifests, tornManifests>>

WriteManifest(files) ==
    /\ manifests' = manifests \cup {files}
    /\ tornManifests' = tornManifests \ {files}
    /\ UNCHANGED <<blobs, tornBlobs>>

TearManifest(files) ==
    /\ PartialPublish
    /\ manifests' = manifests \cup {files}
    /\ tornManifests' = tornManifests \cup {files}
    /\ UNCHANGED <<blobs, tornBlobs>>

-----------------------------------------------------------------------------
(***************************************************************************)
(* The document store.                                                     *)
(***************************************************************************)

\* Create of an owner or a module that exists returns ErrAlreadyExists and
\* leaves the document alone.
CreateOwner(o) ==
    /\ owners' = owners \cup {o}
    /\ UNCHANGED <<modules, commits, labels>>

CreateModule(m) ==
    /\ modules' = modules \cup {m}
    /\ UNCHANGED <<owners, commits, labels>>

\* Slip: the commits of the module go with it.
DeleteModuleCascade(m) ==
    /\ modules' = modules \ {m}
    /\ commits' = [c \in {d \in DOMAIN commits : commits[d].mod # m} |-> commits[c]]
    /\ UNCHANGED <<owners, labels>>

\* Only the module document goes: its commits and labels stay.
DeleteModule(m) ==
    /\ modules' = modules \ {m}
    /\ UNCHANGED <<owners, commits, labels>>

\* A commit ID that is taken is kept as it is.
CreateCommit(id, commit) ==
    /\ commits' = IF id \in DOMAIN commits THEN commits
                  ELSE Bind(commits, id, commit)
    /\ UNCHANGED <<owners, modules, labels>>

\* The document is replaced whatever it was: the last writer wins.
CreateOrUpdateLabel(l, id) ==
    /\ labels' = Bind(labels, l, id)
    /\ UNCHANGED <<owners, modules, commits>>

\* The commits GetCommitByFilesDigest may return: it takes the first match
\* of a query over the commits of every module.
MatchingCommits(files) == {c \in DOMAIN commits : commits[c].files = files}

\* ListModules of an owner.
ModulesOf(o) == {m \in modules : OwnerOf[m] = o}

\* The process ends.  Collections opened with mem:// are saved by Close only,
\* and nothing calls Close.
LoseMemory ==
    IF Durable THEN UNCHANGED metaVars
    ELSE /\ owners' = {} /\ modules' = {}
         /\ commits' = [c \in {} |-> {}]
         /\ labels' = [l \in {} |-> 0]

-----------------------------------------------------------------------------
(***************************************************************************)
(* What must hold of the documents and objects at every moment.            *)
(***************************************************************************)

\* Every commit that can be looked up can be downloaded: its manifest and all
\* the blobs it lists are stored in full.  Module.CreateCommit writes blobs,
\* manifest and document in three stages that can be cut anywhere.
CommitsReadable == \A c \in DOMAIN commits : Readable(commits[c].files)

\* Even when writes are torn, nothing a commit needs is missing altogether.
CommitsStored ==
    \A c \in DOMAIN commits :
        /\ commits[c].files \in manifests
        /\ ContentsOf(commits[c].files) \subseteq blobs

\* An object holds the content it is named after: "All module content is
\* stored by digest" (docs/architecture.md).
ObjectsWhole == tornBlobs = {} /\ tornManifests = {}

\* Every label names a commit that exists and belongs to the label's module
\* (Module.Commit looks the label up and then checks the module ID).
LabelsResolve ==
    \A l \in DOMAIN labels :
        /\ labels[l] \in DOMAIN commits
        /\ commits[labels[l]].mod = l[1]

\* The dependencies of a commit exist and are older than it, so dependency
\* graphs are finite and acyclic, which getGraphForModule relies on.
DepsOlder ==
    \A c \in DOMAIN commits : \A d \in commits[c].deps :
        d \in DOMAIN commits /\ d < c

\* The digest stored with a commit is the one a client computes from its
\* files and the digests its dependencies have now.
DigestsMatch ==
    \A c \in DOMAIN commits :
        commits[c].b5 =
            B5(commits[c].files, [d \in commits[c].deps |-> commits[d].b5])

\* The owner of a module is listed: findModuleWithFile only visits modules
\* through ListOwners.
ModulesOwned == \A m \in modules : OwnerOf[m] \in owners
=============================================================================
