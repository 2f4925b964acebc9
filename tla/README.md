# A formal model of pbr

pbr is a registry for Protocol Buffer modules that speaks the protocol of the
`buf` command line tool. This directory holds TLA+ modules that model its core,
TLC configurations that check them on small instances, and proofs of their main
properties that TLAPS checks for every value of the constants. `PROJECT.json`
maps each definition to the lines of code it stands for.

## The system

Requests come in over HTTP, each in a goroutine of its own, pass an interceptor
that checks their token, and reach a handler of the service layer. The handlers
call the registry layer (`Registry`, `Module`), and that calls the stores: a
bucket (gocloud `blob`) for blobs and manifests, and four collections (gocloud
`docstore`) for owners, modules, commits and labels. **No lock spans two storage
calls**, there are no transactions, and no error is undone: what a push
guarantees comes from the order of its calls and from content addressing alone.

| Component | State | Operations that change it | What is hard | What makes it correct |
|---|---|---|---|---|
| Blob and manifest store (`internal/storage/blob.go`, `manifest.go`) | objects by digest | `Put`, `PutManifest`: an existence check, then a write that can fail half way | partial writes, two writers of one object, an existence check that hides a torn object | an object holds the content it is named after |
| Metadata store (`docstore.go`) | owner, module, commit and label documents | create, replace, delete, one document a call | create of what exists, last writer wins, loss at restart | commits never change; labels name commits |
| Registry (`internal/registry`) | none of its own | `CreateModule`, `GetOrCreateModule`, `DeleteModule`, `CreateCommit` | interleaved requests, crashes between calls, check-then-act | a commit that can be looked up is stored whole, and can be downloaded as long as its module is there; one commit for equal content (of pushes one after the other); digests that match |
| Upload (`service/upload.go`) | the locals of the request | several items, dependency detection through imports, labels | a search through documents that change meanwhile, swallowed errors, half-done requests | dependencies exist and are older; every request ends |
| Module service (`service/module.go`) | - | `CreateModules`, `DeleteModules` | deletion under a running push | nobody's commits disappear |
| API tokens (`service.go` interceptor, `oauth2.go`) | maps `tokens`, `users` under a mutex; infos read without it | slide, removal, login | decisions made on what was read before an unlock; maps kept in step by hand | one token per user, configured tokens live on, used tokens live on |
| Dependency graph (`graph.go`, `graph_v1.go`) | the graph of one request | resolution with "newer wins" | conflicts met late in a depth-first walk | edges lead to nodes, one version of a module, the newest met wins; without a conflict, all that the commits named depend on |
| Readers (`download*.go`, `commit*.go`, `module.go`, `owners.go`) | - | none | reading what a push is writing; pages of a list that changes | a download is one commit, exactly; what is there is found; pages miss nothing |
| Life cycle (`cmd/pbr/main.go`, `service.go`) | the server, the collections | start, signal, drain, exit | saving in-memory collections; two exits that race; requests that run | an orderly exit has drained; the process ends after a signal and when it cannot serve |
| Code generation (`internal/codegen/plugin.go`) | a process and three pipes | one exchange with a plugin | bounded pipes: both sides waiting; deferred clean-up that can fail, at seventeen returns | success means all output of a clean exit; nothing is left that no call tried to remove; the call ends |
| Container runner (`ocifsrunner.go`) | a container, a mount | start, wait, cancel, close | several callers of Wait and Close; a start that fails half way; a stop that is best effort | callers of Wait learn the same; when any Close returns the cleaning up is over; Close always returns |
| Configuration, OIDC client, telemetry, TLS, debug middleware, helpers | - | none | arithmetic of durations | - |

Interactions: services call the registry and the registry the stores, all
synchronously; the requests share the stores and nothing else; the interceptor
and the logins share the two token maps; the code that reads (downloads, graphs)
relies on what the pushes leave in the stores at every moment.

## Modules

| Module | Models | Role |
|---|---|---|
| `Storage` | `internal/storage` | the documents and objects, one operation per storage call, the digest, and the invariants of the data |
| `Registry` | `service/upload.go`, `service/module.go`, `internal/registry` | the requests, one action per storage call; failures and crashes |
| `Catalog` | what the readers rely on | the abstract specification: commits appear whole, never change; labels name stored commits; only a deletion keeps a commit from being downloaded |
| `MCRegistry` | - | instances of `Registry` |
| `RegistryProofs` | - | type correctness of `Registry` |
| `IntegrityProofs` | - | the inductive invariant of `Registry`, its safety properties, that it implements `Catalog`, and what holds of requests without deletions or one at a time |
| `Readers` | `download*.go`, `commit*.go`, `module.go` (reads), `owners.go` | one reader beside the pushes of `Registry`, which it extends |
| `MCReaders`, `ReadersProofs` | - | an instance; that a reader changes nothing, that downloads are exact, what is there is found and pages miss nothing |
| `Graph` | `graph.go`, `graph_v1.go` | one `GetGraph` over any history of commits, on top of `Storage` |
| `MCGraph`, `GraphProofs` | - | every history of four commits; the inductive invariant of the tables of the walk |
| `GraphAnswerProofs` | - | the invariants with the stack of active calls: what the answer is |
| `Tokens` | the interceptor in `service.go`, the end of `handleDeviceToken` | sections under the lock as actions |
| `MCTokens`, `TokensProofs` | - | an instance, and the proofs |
| `Container` | ocifs and the container runtime, as `internal/codegen` uses them | mount, temporary root, process and bounded pipes (external) |
| `Plugin` | `codegen/plugin.go`, `code-generation.go` | one call of `CodeGen` |
| `Runner` | `codegen/ocifsrunner.go` | `Start`, and the handle it returns |
| `Codegen` | - | composes `Container` with `Plugin` or `Runner` |
| `MCCodegen`, `CodegenProofs` | - | an instance, and the proofs |
| `Lifecycle` | `cmd/pbr/main.go`, `New`, `Serve`, `Shutdown` | main, the serving goroutine and the requests of a process |
| `MCLifecycle`, `LifecycleProofs` | - | an instance, and the proofs |

Definitions under a comment `Slip:` are what a plausible bug would turn the
definition after them into. No specification uses them; each is there to
show that some property notices it.

### Storage and Registry

A *content* stands for its own SHAKE256 digest and a *manifest*, the set of its
`<<path, content>>` entries, for the digest of its serialisation: `SerializeManifest`
sorts by path, so the set determines the text. The hash is taken to be injective.
IDs of owners and modules are hashes of their names, so names stand for them.
Commit IDs are UUIDs of version 7, whose order is that of creation: `clock` hands
out 1, 2, 3, ...; 0 stands for an ID of another registry that a client may name
as a dependency. `B5` is the pair that `ComputeB5Digest` hashes: the files, and the bag
of the dependencies' digests (sorting them makes a bag of the list). Clients name
each dependency once, and each path once.

A request is a goroutine: `pc` is the storage call it makes next and `job` its
locals. `Upload` walks through its items: resolve a reference by ID, get or
create the module (`getModule`, `getOwner`, `createOwner`, `createModule`,
`reload`), detect dependencies (`owners`, `modules`, `probe`), read their digests
(`digests`), store each file (`blobExists`, `blobWrite`) and the manifest, search
for an equal commit (`dedup`), take an ID (`newID`), create the commit document
and move the labels one by one. `CreateModules` and `DeleteModules` use their part
of the same stages. Only two groups of reads are one step although the code makes
several calls: the digests of the dependencies and the look into a module's
"main" commit. Commits, manifests and blobs do not change, so after the first
read (the label, or the first commit) the others return the same whenever they happen.
The files of a push, the owners and modules of a search and the labels are taken
in any order, where the code's order is that of the request or of the query.

Failures: `Fault` is a storage call that returns an error; `FailSwallowed` are the
stages whose errors the code passes over, `FailWrite` a write that stores nothing or
(with `PartialPublish`) a part, `FailCall` all others, which end the request. A call
that takes effect and then reports an error leaves the same state as a crash just
after it. `Crash` ends all requests between any two calls; the documents survive
if `Durable`. `PartialPublish` is what the bucket does when a writer is closed
after a failed copy: gocloud publishes the part that was written, unless its
context was cancelled, so both values occur.

`deleted`, the modules that requests deleted, is a history variable: no action
reads it. It is there because a download is a look-up of the commit's module
(`registry.go:81`) followed by the reading of its files, and a deletion takes the first
away and leaves the second. `AcksKept` and `Catalog` speak of both.

`Catalog` is what those who download can rely on, in four variables: the commits
that are `stored` whole, the `heads`, the modules `offered`, and those `withdrawn` by
somebody. Its five steps are one commit that appears complete (`Publish`), in a module that
is offered or was withdrawn; a label that moves to a stored commit of its module (`Move`); a
module that comes (`Offer`) or goes (`Withdraw`); and the restart without durable documents
(`Forget`). No step makes a module vanish without somebody's deletion, changes a commit,
or lets a part of one be seen.

### Tokens

`tokens` and `users` are the two maps of `Service`. The interceptor looks a token
up under a read lock and keeps a *pointer* to its info; the checks that follow
see that info even when the entry is gone, so `infos` is a separate variable. The
four steps of a request are `Lookup` (read lock), `Check` (no lock), and `Remove`
or `Slide` (write lock). A login computes token and expiry (`Grant`) and then takes
the lock (`Swap`). The unlocked read of `ExpiresAt` races with the write of `Slide`;
the comparison uses only the 64-bit monotonic reading, which is read as a
whole on the platforms Go supports with 64 bits, so the outcomes are the old and the new
value, and `Check` before or after `Slide` covers them. Two configured users do not
share a token, and the TTL is not negative.

### Readers

A reader asks for one thing (`query`) and makes one storage call after another (`rpc`).
`Download`, `GetCommits` and `GetGraph` share their look-ups: a commit by ID goes through
`commit` and `moduleOf`; a name goes through `moduleNamed`, then `label` and `commitOf`. A
download by name starts again from the commit's ID, as `download_v1.go` does. `ReadBlob`
reads every file of the commit and keeps those the paths ask for (`matchPath`; directories and
file types are left out, and so is the pair of fields that `download.go` fills twice with
`buf.yaml` and `buf.lock`). `ListCommits` is followed from page to page until there is no token; a
page is sorted and cut by `Page`, whose token is the last commit of the page. Between two
pages the process may die; within one the reader gets an error. `ReadFails` is a storage
call that fails: the request ends with an error, but `GetOwners` makes up an owner
without an ID and `ListModules` passes over the owner.

### Graph

A request starts from any history of commits in which dependencies are older, which is what
`DepsAlwaysOlder` proves of the registry, so `Histories` is no assumption about clients. A history is a
sequence of commits; a commit's ID is its place in it, and its only file has a content of its own. The
references are resolved first (`ResolveID`, `ResolveName`, `ResolveChild`), then the
walk starts from each. `stack` is the Go call stack of `getGraphForModule`: a
frame knows which dependencies are still to be looked up (`getStoredDeps`) and which
were found and still have to be linked. `nodes`, `edges` and `seen` are `graph.Commits`,
`graph.Edges` and `commitMap`. A dependency is new (`LinkNew`: a node and a call), a newer version
(`LinkNewer`: the node is replaced, edges turn, no call) or known (`LinkKnown`). The v1 API looks each
dependency up once more for its digest (`DepNode`). `Interfere` is what
others can change: modules come and go and "main" moves; commits do not change. `gone` are the
modules deleted during the request, a history variable: what an answer may lack, or
may say wrongly of a digest, is tied to them and not to interference of any kind.
Edges are a set, so an edge that the code lists twice counts once. A `ref` that is no
commit ID is tried as a label by the code, which is the label reference of the model.

### Container, Plugin, Runner

Data is counted in units and a pipe holds `PipeCap` of them. An *orderly* plugin reads its input to
the end before it writes, and writes no more errors than a pipe holds; *any* other may write and
exit when it likes, or close an end of its pipes and run on (`shut`). Every call that cleans up
(`Unmount`, `RemovePoint`, `RemoveRoot`) either works or fails and changes nothing; `snagged` remembers which
failed. `told` is what has reached the process: nothing, a request to end that it may ignore, or
SIGKILL. It is one thing to tell a process to end and another that it ends: the latter is `Exit`, a step of the
process.

`Plugin` follows `CodeGen` call by call: mount, entrypoint, temporary root, container, run, pipes, encode,
write, read output, read errors, wait, decode. `defers` is the list of deferred calls as the code
registers them. A return goes to the stage `"return"`, where `Unwind` makes one deferred call a step, the last
registered first: the mount point is removed before it is unmounted, which fails, so it stays as a directory
(`"left"`) unless ocifs removes it. Errors of deferred calls are dropped.

`Runner` has the eight calls of `Start` (`start`), and for each caller of the handle the
progress of `Wait` and `Close`; a `sync.Once` is free, busy or done, and callers that find it
busy wait. `todo` is what a failed `Start` (`Undoing`, different for each stage) or the one working caller of
`Close` still has to call, one call a step. `Stop` is `bestEffortStop`: `Kill` if the `runtime` has it; or SIGTERM,
and SIGKILL only if SIGTERM could not be sent; or `Stop`; or nothing. It does not wait, and its error is dropped. `cancelOnce`
is used up by `Start` itself (`ocifsrunner.go:165`), so the end of the context does nothing (`WatchCancel`).

### Lifecycle

`proc` is where `main` is, `serve` the goroutine with `svc.Serve`, `req` the stage of each
request. What the module takes from `net/http`: `Shutdown` makes `ListenAndServe` return
`ErrServerClosed` at once and waits for tracked connections; h2c takes its connections over, so
requests on them (`held`) are not tracked. `main.go:72` treats every return of `Serve` as an error, so from
the moment `Shutdown` begins an exit with code 1 races with the orderly one. `BaseContext`
(`service.go:261`) is `main`'s context, which the signal ends; it is set without TLS only.

## Runs

| Run | Bounds | Shows |
|---|---|---|
| `registry_push` | 2 goroutines, 2 modules of 1 owner ("b" imports a file of "a"), 3 requests out of 4 kinds, 1 given dependency, no failure | types, digests that match, owners there, no request fails because of the other, every request ends |
| `registry_faults` | 2 goroutines, 1 module, 3 requests (push by name, by ID, delete), 2 failing calls at any stage, 1 crash, foreign dependency IDs | readable commits, labels, dependencies, what was answered stays true and can be downloaded unless its module is deleted, commits immutable, `Catalog` implemented |
| `registry_readers` | 1 pushing goroutine, 2 modules, 3 pushes, torn writes, 1 failing call (not in the search for an equal commit), 1 crash; 1 reader with any of 11 queries, 1 failing read, pages of 1 | types; no commit names a missing object; one commit per content when one client tries again; downloads exact; what is there is found; pages complete; reading ends |
| `graph` | every history of 4 commits in 3 modules (896 up to names), 3 requests, both APIs, 2 changes by others | edges lead to the version taken, one version per module, newer wins, complete without conflicts and interference (all that the commits named depend on), honest digests except for modules deleted meanwhile, no spurious errors without deletions, the walk ends |
| `tokens` | 2 users, 2 API requests, 2 logins, 3 tokens, TTL 2, 5 ticks, 1 restart, one request per token at a time | one token per user, configured tokens live, used tokens live |
| `codegen` | pipes of 2, input of 4, output and errors of up to 3 each; 2 callers of the handle, all 4 kinds of runtime; any call may fail | success is whole; what is left at any return, after a failed start and after `Close` is what a call failed to remove; `Wait` and `Close` of several callers; which calls end |
| `lifecycle` | 3 requests, 2 starts, with and without TLS, both kinds of metadata store | code 0 means drained; a signal ends the process; a server that does not serve ends it too |
| `twin_push` | 2 goroutines push the same files | **violated**: two commits with the same files |
| `dedup_deps` | one client, a dependency that moves on | **violated**: the answer carries the old digest |
| `slid_token` | as `tokens`, tokens used by several requests at once | **violated**: a token accepted a moment ago is gone |
| `graph_conflict` | as `graph`, nobody interferes | **violated**: a newer version in the graph without its dependencies |
| `shutdown_loss` | 1 request, `mem://` | **violated**: an orderly exit loses the documents |

Two goroutines give every interleaving that a property can tell apart, since each
property speaks of two commits, two documents or one answer, and a second
goroutine can run any number of requests while the first waits between two calls.
Two files (one shared, one not) give equal, overlapping and different contents;
two labels a half-moved set; a module that imports a path of another, a
dependency that is found, missing or moving. Three requests are the least that let
a push find a commit, an older label and a dependency, and let a retry follow a
crash. `MaxCalls`, `MaxFaults`, `MaxCrashes`, `MaxReads`, `MaxReadFaults`, `MaxChanges`, `MaxStarts`,
`MaxTime` and `MaxRestarts` only make the instances finite; the proofs hold for any value. Two logins and three tokens let
a token be replaced twice while a request still holds the pointer to the first; TTL 2 of
5 ticks lets it be used, slid, expire and be refused. Four commits are the least for the conflicts
of the graph: two versions of one module, one of them with a dependency of its own, and
a commit that meets both. Pages of one commit make every commit the edge of a page. Input and
outputs longer than a pipe make each side of an exchange wait for the other. The runner itself moves no
data: what its process writes goes to the callers and is not counted (`InContainer`). Three requests
are one that is tracked, one on an h2c connection and one that comes late.

When all requests are answered and `MaxCalls` are used up, `Quiet` steps, so a
deadlock that TLC reports is a real one. `codegen`, `lifecycle` and
`shutdown_loss` do not look for deadlocks: a plugin that is not orderly may block `CodeGen` for ever (both pipes full), a
handle that is closed has no more to do, and a process may stay ended.

Fairness: `FairSpec` assumes weak fairness of `Step(r)` for each goroutine: a
goroutine waits for nothing but its own storage call, and the Go scheduler runs every
runnable goroutine. Nothing is assumed of clients, failures or crashes. With it `RequestsEnd`
holds: the search for dependencies works on a copy of the owners and of each
owner's modules, which shrinks with each step whatever others create.

`Readers` assumes it of the reader's calls and of a client that asks for the next page, `Graph` of the walk,
`Codegen` of `CodeGen`, of the runner's own work and of a plugin. No call has to fail, and none has to succeed. What the runner
started may run for ever and ignore a request to end; only a process that was sent SIGKILL is ended, by the
kernel (`Killed`). So `CloseEnds` promises that `Close` returns in every case, but that it unblocks those who `Wait` only if SIGKILL was sent or
a runtime with `Kill` did not fail; with SIGTERM, `Stop` or nothing `Wait` may block for ever after `Close`, as in the code. Nobody has to
call `Wait` or `Close` and no context has to end.
In `Lifecycle` main, the serving goroutine and the timer of the grace period go on; requests may run for ever and no signal has to come.

### Where the code and its documents differ

* `twin_push`: "Returns the created commit or an existing commit if content is
  identical" (`module.go:182`) does not hold of two pushes at once: search and creation
  are two calls. The search is also defeated when it fails (its error counts as "none") and
  when the first match belongs to another module, which is why the instances that check `NoDuplicates` give each module files of its own.
* `dedup_deps`: the search compares files only, so a push with newer dependencies gets
  the old commit with the old B5 digest, although different dependencies give
  "different b5 digests" (`docs/hashing.md:140`).
* `slid_token`: the interceptor removes a token that it found expired, although another
  request has slid its expiry in between.
* `graph_conflict`: "we always recurse even if we've seen this module before with a different
  version" (`graph.go:249`), but only modules met for the first time are walked into (`graph.go:251`).
* `shutdown_loss`: `mem://` is "persisted to cachedir on shutdown" (`README.md:205`,
  `config.go:53`), but nothing calls `MetadataStoreImpl.Close`, which would do it.
* Without a run of its own, since nothing in the program calls the runner and one line settles it: "Context
  cancellation: best-effort stop + close stdin to unblock" (`ocifsrunner.go:164`), but the line after
  it uses `cancelOnce` up, and `watchCancel` (`ocifsrunner.go:231`) then finds it used (`WatchCancel`).

Without a document that says otherwise, and so no run of their own: a copy that fails half way is published
under the digest of the whole (`blob.go:84`) and read without an error; the exit with code 1 may cut a
shutdown short (`main.go:72`); a push to a module that is deleted meanwhile is answered with success and cannot be
downloaded (`registry.go:187`); an edge may start at a commit that was replaced (`graph.go:216`); the digest of a node whose
module was deleted meanwhile is that of its files (`graph_v1.go:245`); a caller of `Close` that did not do the work gets nil although
something is left (`ocifsrunner.go:215`).

## Proofs

`RegistryProofs` proves `TypeCorrect`: `Spec => []TypeOK`, one lemma per group of actions.

`IntegrityProofs` is built on the invariant

    Integrity == TypeOK /\ JobsOK /\ FreshIDs /\ ResultsOK /\ Untorn /\ Documents

The properties alone are not inductive: that a new commit is readable depends
on what its request did many steps earlier. `JobsOK` says for each stage what the
request can rely on: the files it no longer has to store have objects, once past
`manifestExists` or `manifestWrite` its manifest has one, its dependencies exist and `digs` holds
their digests, and before a label moves the commit is there and of its module.
`FreshIDs` says that an ID taken and not yet used is nobody else's, and that no commit
has an ID that is still to come. These facts survive the steps of all others because objects are never removed
and commits never change: the argument why no lock is needed. `ResultsOK` carries the same for
responses that wait for the last item. From it follow

* for any bucket and any document store: `CommitsAlwaysStored`, `LabelsAlwaysResolve`,
  `DepsAlwaysOlder` (so graphs are finite and acyclic), `DigestsAlwaysMatch`, `ModulesAlwaysOwned`;
* if failed writes publish nothing (`~PartialPublish`): `CommitsAlwaysReadable` and
  `RegistryImplementsCatalog`;
* if the documents survive (`Durable`): `CommitsNeverChange`, and with `~PartialPublish`
  `AcksAlwaysKept`.

A second invariant, `Homes`, is about modules: a module that a request has found or created, from then on until
the request ends, and the module of every commit, is there or was deleted by a request. `AcksAlwaysKept` and
`RegistryImplementsCatalog` need it beside `Integrity`, since a download begins with the look-up of the module.

The refinement maps `stored` to the commits that can be read (`StoredCommits`), `heads` to the
labels, `offered` to the modules and `withdrawn` to `deleted`. Creating the commit document is the step that publishes; a label move
is a move, creating and deleting a module document an offer and a withdrawal; every other storage call, failing
call and crash of durable documents is a stutter.

Three more theorems of `IntegrityProofs` need hypotheses about the requests, each for a reason
that is in the code:

* `NoRequestSpoilsAnother` (`PlainCalls`: no request deletes, uploads name modules by name and only
  dependencies that exist): until a storage call fails or the process dies, no request fails. The
  invariant `AllSupplied` says that a request that lost the race to create a module finds it when it
  looks again, and that the dependencies it named or detected exist at every later call. With deletions the
  property is false: the module can go between the lost race and the second look-up.
* `OneCommitForSameFiles` (`OneAtATime`: one goroutine, no two modules pushed with the same
  files, a search for an equal commit that does not fail): there are no duplicates, whatever other
  calls fail, at whatever point the process dies, and however often clients try again. The invariant
  `Singles` carries the outcome of the search (`NoneLike`) to the call that makes the commit. Each hypothesis is needed:
  `twin_push` shows what two goroutines do, and "Where the code and its documents differ" names the other two.
* `NothingIsEverLost` (`Durable`, `NoDeletions`): no step removes an object, an owner, a module or a
  label. Readers rest on it.

`TokensProofs` proves `TokensTyped`, `OneTokenForEachUser`, `StaticTokensLive` and, if
clients use a token in one request at a time, `UsedTokensLive`, from the invariant `Held`: the two
maps agree with the infos, a login holds a token nobody has, a request about to remove or
slide never holds a configured token, and (for the last) what a request saw in its check is
still so when it acts.

`ReadersProofs` proves `ReadersObserve`, that each behaviour of `Readers` is one of `Registry` (so
all of the above holds beside readers), `ReadersFindObjects`, and, for durable documents,
`DownloadsAlwaysExact`. Its invariant `Exact` says for each stage of a download which commit it is at, of
which module, and that what was read and what is still to be read make up the files of the
commit; it is kept because commits never change (`CommitsNeverChange`). On top of it are

* `ReadsAlwaysSucceed` (`Durable`, `NoDeletions`). The invariant `Found` says, for a reader that asked for
  what was there and met no failing call, that what its next call looks for is still there: the commit,
  the module or label by name, the manifest and blobs, the owner. It follows from `NothingIsEverLost`,
  `LabelsResolve`, `ModulesOwned` and `CommitsStored`.
* `PagesAlwaysComplete` (`Durable`). The invariant `Turning` says that the list so far falls strictly, ends with the
  commit of the token, and that a commit that was there at the start is in it or older than the
  token. Pushes add newer IDs only, so they disturb none of this. The lemmas show that
  `Descending` does list a finite set, and what a prefix of it leaves out.
* `ReaderTypeCorrect`, for which a module has to exist (a query names one).

`GraphProofs` proves `EdgesAlwaysResolve`, `OneVersionAlways` and `DigestsAlwaysHonest` from the
invariant `Sound`: every frame of the stack is a commit whose dependencies are commits, every root
that is resolved is a node of its module, and `seen` names a node of each module that was met. Whatever
`Interfere` does leaves the commits alone, so it disturbs none of this. For the digests the invariant says that the module of
every commit is there or in `gone`: `DepNode` falls back on the files digest only if the second look-up of a dependency's module
fails, and then the module is in `gone`, where it stays. So the theorem holds with any number of deletions, creations
and label moves during the walk.

`GraphAnswerProofs` proves what the answer is, for every history, every request and any number of changes by
others. Its invariants bring in the stack, as a set of calls: what a node or an edge lacks now is
*pending* in an active call.

* `GraphTypeOK`, from `Rest`, the types and `LabelsResolve` of the storage that others change.
* `NewerAlwaysWins`, from `Winning`: every dependency of a commit that an edge starts from is settled
  (a version as new was taken) or pending in a call of this commit; when the stack is empty none is pending.
  What was taken only gets newer. This half is claimed while `gone` is empty: the look-up of a deleted module
  takes its dependency out.
* `AlwaysComplete`, from `Growing`: as long as nobody interferes and no two versions of a module can be
  reached, nodes and edges stay inside of what can be reached from the commits named, every node is
  a root or a call still to begin, or has all its edges made or pending. So at the end the nodes are closed
  under dependencies, and `Reach` is the least such set.
* `NeverSpuriousErrors`, from `InTurn`: the references are resolved in the order of the request, and
  what exists at the start exists when its turn comes, since labels move but do not go. Nothing is claimed once
  a module was deleted.

`Complete` says nothing of answers with a conflict, and must not: `graph_conflict` shows that such an
answer may lack what the newer version depends on.

`CodegenProofs` proves the types and all safety properties of `Plugin` and `Runner` for any size of pipe, input
and output and any set of callers. For the plugin the invariant ties the stage of `CodeGen` to what it holds and to the deferred
calls that are registered: whoever holds a mount or a root has its release in `defers`, or the release has been
tried and failed. It also counts the units: what was written is what was read and what is still in the pipe. For the runner,
`Tidying` says of each thing a failed `Start` or a working `Close` has to clean up that the call for it is still in `todo`, or what is left is in `snagged`;
with it a list that is empty means that all was tried. For the handle the invariant says that a `Once` is
busy exactly while one caller works, and done only when the work is.

`LifecycleProofs` proves the types and `DrainsAlwaysComplete`: once `Shutdown` has begun nothing new
is tracked, so what it has waited for stays finished until `main` returns.

The proofs assume only the named assumptions on the constants
(`StorageAssumption`, `RegistryAssumption`, `ReadersAssumption`, `GraphAssumption`, `TokensAssumption`,
`ContainerAssumption`, `DocstoresAssumption`, `MaxStartsAssumption`) and what each theorem states. The
instances that check a property satisfy the hypotheses of its theorem: `registry_push` has no
deletions and no failures, `registry_readers` one goroutine, a search that does not fail, and durable documents.

A few facts about data (the newest commit of a module, the commits of a finite set in falling order) need
induction. The library's induction theorems take a predicate as a parameter, which
the provers cannot instantiate, so these lemmas use least elements of sets of naturals (`WFMin`, lemma
`Least`) instead.

Only model-checked: everything about liveness (`RequestsEnd`, `ReadingEnds`, `GraphEnds`, `PluginCallEnds`,
`CloseEnds`, `SignalEnds`, `UnservedEnds`), which needs fairness and `ENABLED` and is out of this
prover's reach. Every invariant and action property that a passing run checks is also a theorem. The violations
are TLC's.

## Not modelled, and what could follow

The steps of the plan that this project began with are done: core, readers, graph, life
cycle, code generation. What could follow, in this order: a bound for what a graph lacks after deletions; the
duration arithmetic of `ParseDuration` with its overflow above 106751 days, and manifests written and parsed
again, both as pure operators; `NoRequestSpoilsAnother` for uploads that name modules by ID.

Left out: `UpdateModules` (returns the module unchanged), `GetCurrentUser` (returns the name that the interceptor
put into the context), the parsing of configuration, certificates and `buf.lock` files (nothing calls `BufLock`),
telemetry, logging, the debug middleware, `/readyz` and `/livez`, the resolution of a runner's command line,
HTTP forwarding to the OIDC provider (its outcome, a user name or a failure, is an input of `Tokens`), the texts
of responses.
