------------------------------- MODULE Graph -------------------------------
(***************************************************************************)
(* GetGraph (service/graph.go, and graph_v1.go for the v1 API): a client   *)
(* names some commits and gets the graph of all they depend on.  The code  *)
(* walks depth first over stored commits, one storage call after another,  *)
(* while other requests delete and create modules and move labels.         *)
(*                                                                         *)
(* A run starts from any history of commits (Histories) the registry could *)
(* have made, and serves one request.  Commits do not change, so their     *)
(* reads are part of the step of the module look-up before or after them.  *)
(* Dependencies are kept as a set: each visit takes them in any order.     *)
(***************************************************************************)
EXTENDS Storage, Sequences

CONSTANTS
    Histories,      \* commit histories: sequences of [mod, deps]
    Asks,           \* lists of references a client may send
    Main,           \* the label "main"
    MaxChanges      \* how often other requests interfere

APIs == {"v1beta1", "v1"}

\* A reference by commit ID, or by module name with a label or a commit ID
\* (which counts as a name with a "ref" that is tried as an ID first).
Ref == [kind: {"id"}, id: CommitIDs]
       \cup [kind: {"label"}, mod: Modules, label: LabelNames]
       \cup [kind: {"ref"}, mod: Modules, id: CommitIDs]

\* A commit's ID is its place in the history, and so is the content of its only
\* file.  Dependencies exist and are older, as for every commit of the registry.
History(h) ==
    /\ h \in Seq([mod: Modules, deps: SUBSET CommitIDs])
    /\ DOMAIN h \subseteq Contents
    /\ \A c \in DOMAIN h : \A d \in h[c].deps : d \in DOMAIN h /\ d < c

ASSUME GraphAssumption ==
    /\ \A h \in Histories : History(h)
    /\ Asks \subseteq Seq(Ref) \ {<<>>}
    /\ Main \in LabelNames
    /\ MaxChanges \in Nat

VARIABLES
    api,        \* the version of the API that is asked
    asked,      \* the references of the request
    stage,      \* what the request does
    refs,       \* the references still to be resolved
    nodes,      \* graph.Commits: the commits of the answer, in order
    edges,      \* graph.Edges: pairs of commit IDs
    seen,       \* commitMap: the commit taken for each module
    stack,      \* the active calls of getGraphForModule, the last one first
    next,       \* the next root to be walked from
    gone,       \* the modules that other requests deleted meanwhile
    changes     \* how often other requests interfered

walkVars == <<nodes, edges, seen, stack, next>>
graphVars == <<api, asked, stage, refs, walkVars, gone, changes>>
vars == <<storageVars, graphVars>>

GraphStages == {"resolve", "named", "walk", "done", "error"}

\* The digest of a node: of the module (B5) or of its files only.
Node == [id: CommitIDs, digest: {"module", "files"}]

\* An active call: is its module still to be looked up, which dependencies
\* are, and those that were found and are still to be linked.
Frame == [ id: CommitIDs, fresh: BOOLEAN, look: SUBSET CommitIDs,
           found: Seq(CommitIDs) ]

TypeOK ==
    /\ StorageTypeOK
    /\ api \in APIs /\ stage \in GraphStages
    /\ asked \in Seq(Ref) /\ refs \in Seq(Ref)
    /\ nodes \in Seq(Node)
    /\ edges \subseteq CommitIDs \X CommitIDs
    /\ DOMAIN seen \subseteq Modules
    /\ \A m \in DOMAIN seen : seen[m] \in CommitIDs
    /\ stack \in Seq(Frame)
    /\ next \in Nat \ {0}
    /\ gone \subseteq Modules
    /\ changes \in 0 .. MaxChanges

\* The documents of a history: each commit has a file of its own, and every
\* module the label "main" on its last commit.
Documents(h) ==
    LET files(c) == Paths \X {c}
        b5[c \in DOMAIN h] == B5(files(c), [d \in h[c].deps |-> b5[d]])
    IN  [c \in DOMAIN h |-> [ mod |-> h[c].mod, deps |-> h[c].deps,
                              files |-> files(c), b5 |-> b5[c] ]]

Newest(h, m) == CHOOSE c \in DOMAIN h :
    h[c].mod = m /\ \A d \in DOMAIN h : h[d].mod = m => d <= c

Init ==
    /\ \E h \in Histories :
           /\ commits = Documents(h)
           /\ modules = {h[c].mod : c \in DOMAIN h}
           /\ labels = [l \in modules \X {Main} |-> Newest(h, l[1])]
           /\ blobs = DOMAIN h
           /\ manifests = {Paths \X {c} : c \in DOMAIN h}
    /\ owners = {OwnerOf[m] : m \in modules}
    /\ tornBlobs = {} /\ tornManifests = {}
    /\ api \in APIs
    /\ asked \in Asks
    /\ refs = asked
    /\ stage = "resolve"
    /\ nodes = <<>> /\ edges = {} /\ stack = <<>>
    /\ seen = [m \in {} |-> 0]
    /\ next = 1
    /\ gone = {} /\ changes = 0

-----------------------------------------------------------------------------

NodeIds == {nodes[i].id : i \in DOMAIN nodes}
ModOf(c) == commits[c].mod
Deps(c) == commits[c].deps

\* getCommitObject gives the files digest, getCommitObjectV1 the module's.
NodeOf(c) ==
    [id |-> c, digest |-> IF api = "v1" THEN "module" ELSE "files"]

Fail ==
    /\ stage' = "error"
    /\ UNCHANGED <<storageVars, api, asked, refs, walkVars, gone, changes>>

\* A reference is resolved: its commit becomes a node, and the commit of its
\* module whichever other the list named before.
AddRoot(c) ==
    /\ nodes' = Append(nodes, NodeOf(c))
    /\ seen' = Bind(seen, ModOf(c), c)
    /\ refs' = Tail(refs)
    /\ stage' = IF Tail(refs) = <<>> THEN "walk" ELSE "resolve"
    /\ UNCHANGED <<storageVars, api, asked, edges, stack, next, gone, changes>>

ResolveID ==
    /\ stage = "resolve" /\ Head(refs).kind = "id"
    /\ LET c == Head(refs).id IN
       IF c \in DOMAIN commits /\ ModOf(c) \in modules THEN AddRoot(c) ELSE Fail

ResolveName ==
    /\ stage = "resolve" /\ Head(refs).kind # "id"
    /\ IF Head(refs).mod \in modules
       THEN /\ stage' = "named"
            /\ UNCHANGED <<storageVars, api, asked, refs, walkVars, gone, changes>>
       ELSE Fail

\* The module is there: now its label, or the commit if it is the module's.
ResolveChild ==
    /\ stage = "named"
    /\ LET ref == Head(refs)
           l == <<ref.mod, ref.label>>
           found == IF ref.kind = "ref" THEN {ref.id}
                    ELSE IF l \in DOMAIN labels THEN {labels[l]} ELSE {}
           good == {c \in found \cap DOMAIN commits : ModOf(c) = ref.mod}
       IN  IF good = {} THEN Fail ELSE \E c \in good : AddRoot(c)

-----------------------------------------------------------------------------
(***************************************************************************)
(* getGraphForModule and getStoredDeps, with the active call on top of the *)
(* stack.                                                                  *)
(***************************************************************************)

Top == Head(stack)
NewFrame(c) == [id |-> c, fresh |-> TRUE, look |-> {}, found |-> <<>>]
Returning(f) == ~f.fresh /\ f.look = {} /\ f.found = <<>>

\* The top call goes on as f; a call with nothing left to do returns.
Continue(f) ==
    stack' = IF Returning(f) THEN Tail(stack) ELSE <<f>> \o Tail(stack)

\* The next root: the node in its place now, which may be a newer version
\* than the one that was asked for.
WalkRoot ==
    /\ stage = "walk" /\ stack = <<>> /\ next <= Len(asked)
    /\ stack' = <<NewFrame(nodes[next].id)>>
    /\ next' = next + 1
    /\ UNCHANGED <<storageVars, api, asked, stage, refs, nodes, edges, seen, gone, changes>>

\* Slip: a commit without dependencies is taken for a missing one.
EnterNonEmpty ==
    /\ stage = "walk" /\ stack # <<>> /\ Top.fresh
    /\ IF ModOf(Top.id) \in modules /\ Deps(Top.id) # {}
       THEN /\ Continue([Top EXCEPT !.fresh = FALSE, !.look = Deps(Top.id)])
            /\ UNCHANGED <<storageVars, api, asked, stage, refs, nodes, edges,
                           seen, next, gone, changes>>
       ELSE Fail

\* The commit that is expanded is looked up through its module, which
\* somebody may have deleted: the whole request fails.
Enter ==
    /\ stage = "walk" /\ stack # <<>> /\ Top.fresh
    /\ IF ModOf(Top.id) \in modules
       THEN /\ Continue([Top EXCEPT !.fresh = FALSE, !.look = Deps(Top.id)])
            /\ UNCHANGED <<storageVars, api, asked, stage, refs, nodes, edges,
                           seen, next, gone, changes>>
       ELSE Fail

\* A dependency whose module is not there is left out without an error.
LookUp ==
    /\ stage = "walk" /\ stack # <<>> /\ ~Top.fresh
    /\ \E d \in Top.look :
           LET f == [Top EXCEPT !.look = @ \ {d}] IN
           Continue(IF ModOf(d) \in modules
                    THEN [f EXCEPT !.found = Append(@, d)] ELSE f)
    /\ UNCHANGED <<storageVars, api, asked, stage, refs, nodes, edges, seen,
                   next, gone, changes>>

\* Slip: the look-up is left out and the files digest taken.
DepNodeQuick(d) == [id |-> d, digest |-> "files"]

\* Slip: a dependency whose look-up fails has no digest.
DepNodeBare(d) ==
    [ id |-> d, digest |-> IF api # "v1" THEN "files"
                           ELSE IF ModOf(d) \in modules THEN "module" ELSE "none" ]

\* createV1CommitFromDep looks the dependency up once more and falls back to
\* the files digest, labelled as a module digest, if that fails.
DepNode(d) ==
    [ id |-> d, digest |-> IF api = "v1" /\ ModOf(d) \in modules
                           THEN "module" ELSE "files" ]

\* Slip: the new version becomes a node beside the old one.
ReplaceBeside(old, d) ==
    /\ nodes' = Append(nodes, DepNode(d))
    /\ edges' = {<<e[1], IF e[2] = old THEN d ELSE e[2]>> : e \in edges}
                \cup {<<Top.id, d>>}

\* Slip: edges that were made before go on leading to the old version.
ReplaceNodeOnly(old, d) ==
    /\ \E i \in DOMAIN nodes :
           /\ nodes[i].id = old /\ \A j \in 1 .. i - 1 : nodes[j].id # old
           /\ nodes' = [nodes EXCEPT ![i] = DepNode(d)]
    /\ edges' = edges \cup {<<Top.id, d>>}

\* A newer version takes the place of the old one: in the first node that has
\* it, and at the ends of the edges that lead to it.
Replace(old, d) ==
    /\ \E i \in DOMAIN nodes :
           /\ nodes[i].id = old /\ \A j \in 1 .. i - 1 : nodes[j].id # old
           /\ nodes' = [nodes EXCEPT ![i] = DepNode(d)]
    /\ edges' = {<<e[1], IF e[2] = old THEN d ELSE e[2]>> : e \in edges}
                \cup {<<Top.id, d>>}

\* Slip: only the commits that were asked for are expanded.
LinkNewFlat(d, f) ==
    /\ ModOf(d) \notin DOMAIN seen
    /\ seen' = Bind(seen, ModOf(d), d)
    /\ nodes' = Append(nodes, DepNode(d))
    /\ edges' = edges \cup {<<Top.id, d>>}
    /\ Continue(f)

\* A module met for the first time: a node, an edge, and a call for it.
LinkNew(d, f) ==
    /\ ModOf(d) \notin DOMAIN seen
    /\ seen' = Bind(seen, ModOf(d), d)
    /\ nodes' = Append(nodes, DepNode(d))
    /\ edges' = edges \cup {<<Top.id, d>>}
    /\ stack' = <<NewFrame(d)>> \o (IF Returning(f) THEN Tail(stack)
                                    ELSE <<f>> \o Tail(stack))

\* Slip: the comparison is turned round, the older version wins.
LinkNewerTurned(d, f) ==
    /\ ModOf(d) \in DOMAIN seen /\ d < seen[ModOf(d)]
    /\ Replace(seen[ModOf(d)], d)
    /\ seen' = [seen EXCEPT ![ModOf(d)] = d]
    /\ Continue(f)

\* A newer version of a module met before.  It is not walked into.
LinkNewer(d, f) ==
    /\ ModOf(d) \in DOMAIN seen /\ d > seen[ModOf(d)]
    /\ Replace(seen[ModOf(d)], d)
    /\ seen' = [seen EXCEPT ![ModOf(d)] = d]
    /\ Continue(f)

\* The same version, or an older one: the edge leads to the one taken.
LinkKnown(d, f) ==
    /\ ModOf(d) \in DOMAIN seen /\ d <= seen[ModOf(d)]
    /\ edges' = edges \cup {<<Top.id, seen[ModOf(d)]>>}
    /\ Continue(f)
    /\ UNCHANGED <<nodes, seen>>

\* Slip: the dependency stays in the list.
LinkForever ==
    /\ stage = "walk" /\ stack # <<>> /\ ~Top.fresh /\ Top.look = {}
    /\ LET d == Head(Top.found) IN
       LinkNew(d, Top) \/ LinkNewer(d, Top) \/ LinkKnown(d, Top)
    /\ UNCHANGED <<storageVars, api, asked, stage, refs, next, gone, changes>>

\* All are looked up: the next one found is linked.
Link ==
    /\ stage = "walk" /\ stack # <<>> /\ ~Top.fresh /\ Top.look = {}
    /\ LET d == Head(Top.found)
           f == [Top EXCEPT !.found = Tail(@)]
       IN  LinkNew(d, f) \/ LinkNewer(d, f) \/ LinkKnown(d, f)
    /\ UNCHANGED <<storageVars, api, asked, stage, refs, next, gone, changes>>

Answer ==
    /\ stage = "walk" /\ stack = <<>> /\ next > Len(asked)
    /\ stage' = "done"
    /\ UNCHANGED <<storageVars, api, asked, refs, walkVars, gone, changes>>

\* Other requests, in a storage call each.
Interfere ==
    /\ stage \notin {"done", "error"} /\ changes < MaxChanges
    /\ changes' = changes + 1
    /\ \/ \E m \in modules : DeleteModule(m) /\ gone' = gone \cup {m}
       \/ /\ \E m \in {ModOf(c) : c \in DOMAIN commits} \ modules : CreateModule(m)
          /\ UNCHANGED gone
       \/ /\ \E c \in DOMAIN commits :
                 /\ labels[<<ModOf(c), Main>>] # c
                 /\ CreateOrUpdateLabel(<<ModOf(c), Main>>, c)
          /\ UNCHANGED gone
    /\ UNCHANGED <<bucketVars, api, asked, stage, refs, walkVars>>

Serve ==
    \/ ResolveID \/ ResolveName \/ ResolveChild
    \/ WalkRoot \/ Enter \/ LookUp \/ Link \/ Answer

\* The answer is out.
Answered == stage \in {"done", "error"} /\ UNCHANGED vars

Next == Serve \/ Interfere \/ Answered

Spec == Init /\ [][Next]_vars

\* The goroutine waits for nothing but the storage.
FairSpec == Spec /\ WF_vars(Serve)

-----------------------------------------------------------------------------
(***************************************************************************)
(* Properties.                                                             *)
(***************************************************************************)

\* Every edge leads to a node of the graph, and to the version that was taken
\* for its module: replacing a version turns all the edges made before it.
EdgesResolve ==
    \A e \in edges : /\ e[2] \in NodeIds
                     /\ ModOf(e[2]) \in DOMAIN seen
                     /\ seen[ModOf(e[2])] = e[2]

DistinctRoots ==
    \A i, j \in 1 .. Len(nodes) :
        i <= Len(asked) /\ j <= Len(asked) /\ ModOf(nodes[i].id) = ModOf(nodes[j].id)
            => i = j

\* "buf CLI expects one version per module" (graph.go:183): a module has one
\* node, unless the client itself named two commits of a module.
OneVersion ==
    DistinctRoots =>
        \A i, j \in DOMAIN nodes :
            ModOf(nodes[i].id) = ModOf(nodes[j].id) => i = j

\* Conflicts are decided for the newer commit: an edge is there for a
\* dependency that is no newer than its end, and once the answer is out the
\* end is as new as each dependency its start has on that module.  (The newest
\* may have been left out if its module was deleted meanwhile.)
NewerWins ==
    /\ \A e \in edges : \E d \in Deps(e[1]) : ModOf(d) = ModOf(e[2]) /\ d <= e[2]
    /\ stage = "done" /\ gone = {} =>
           \A e \in edges : \A d \in Deps(e[1]) : ModOf(d) = ModOf(e[2]) => d <= e[2]

\* The commits that can be reached from a set of commits.
Closed(S) == \A c \in S : Deps(c) \subseteq S
Reach(S) ==
    {c \in DOMAIN commits : \A T \in SUBSET DOMAIN commits :
                                S \subseteq T /\ Closed(T) => c \in T}

OneVersionEach(S) == \A c, d \in S : ModOf(c) = ModOf(d) => c = d

\* The commits that a client names, as long as nobody moves labels.
CommitNamed(ref) == IF ref.kind = "label" THEN labels[<<ref.mod, ref.label>>] ELSE ref.id
AskedIds == {CommitNamed(asked[i]) : i \in DOMAIN asked}

\* If nothing interferes and no two versions of a module meet, the answer is
\* what it should be: all the commits that can be reached from those that were
\* named, with all the dependencies between them.
Complete ==
    stage = "done" /\ changes = 0 /\ OneVersionEach(Reach(AskedIds)) =>
        /\ NodeIds = Reach(AskedIds)
        /\ edges = {e \in NodeIds \X NodeIds : e[2] \in Deps(e[1])}

\* Clients check downloads against the digests of a v1 graph.  Each is that of
\* the module, however late its commit came in or took another's place, unless
\* the very module was deleted during the request: only then may the fallback
\* of createV1CommitFromDep pass the files digest off as the module's.
HonestDigests ==
    api = "v1" =>
        \A i \in DOMAIN nodes :
            nodes[i].digest = "module" \/ ModOf(nodes[i].id) \in gone

Exists(ref) ==
    \/ ref.kind = "id" /\ ref.id \in DOMAIN commits
    \/ ref.kind = "label" /\ <<ref.mod, ref.label>> \in DOMAIN labels
    \/ ref.kind = "ref" /\ ref.id \in DOMAIN commits /\ ModOf(ref.id) = ref.mod

\* As long as nobody deletes a module a request for what is there does not
\* fail, while labels move between its look-ups.
NoSpuriousErrors ==
    gone = {} /\ (\A i \in DOMAIN asked : Exists(asked[i])) => stage # "error"

\* The walk ends, whatever happens to the modules meanwhile.
GraphEnds == <>(stage \in {"done", "error"})

\* "we always recurse even if we've seen this module before with a different
\* version, because the new version may have different dependencies"
\* (graph.go:249): each node of the answer has its dependencies with it.
NewVersionsExpanded ==
    stage = "done" /\ changes = 0 =>
        \A c \in NodeIds : \A d \in Deps(c) :
            \E e \in edges : e[1] = c /\ ModOf(e[2]) = ModOf(d)
=============================================================================
