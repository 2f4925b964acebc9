---------------------------- MODULE GraphProofs ----------------------------
(***************************************************************************)
(* What module Graph guarantees for every history of commits, every        *)
(* request and any interference: the graph that is built never has an edge *)
(* to a version that was replaced, nor two versions of a module.           *)
(*                                                                         *)
(* The invariant ties the three tables that getGraphForModule keeps by     *)
(* hand, nodes, edges and commitMap (seen).                                *)
(***************************************************************************)
EXTENDS Graph, SequenceTheorems, TLAPS

\* Nodes and calls are about commits that are there.
NodeLike == [id: DOMAIN commits, digest: {"module", "files"}]
FrameLike == [ id: DOMAIN commits, fresh: BOOLEAN, look: SUBSET DOMAIN commits,
               found: Seq(DOMAIN commits) ]
StackOK(s) == s \in Seq(FrameLike) /\ \A i \in DOMAIN s : ~Returning(s[i])

Shape ==
    /\ \A c \in DOMAIN commits : Deps(c) \subseteq DOMAIN commits
    /\ asked \in Seq(Ref) /\ asked # <<>> /\ refs \in Seq(Ref)
    /\ nodes \in Seq(NodeLike)
    /\ StackOK(stack)
    /\ next \in Nat \ {0} /\ changes \in Nat

\* While references are resolved there is a node for each that is resolved,
\* and nothing was walked into.
Resolving ==
    IF stage \in {"resolve", "named"}
    THEN edges = {} /\ stack = <<>> /\ refs # <<>> /\ Len(nodes) + Len(refs) = Len(asked)
    ELSE stage # "error" => Len(nodes) >= Len(asked)

\* The commit taken for a module is of it and has a node; each node's module
\* has one that was taken.
SeenOK ==
    /\ \A m \in DOMAIN seen :
           seen[m] \in DOMAIN commits /\ ModOf(seen[m]) = m /\ seen[m] \in NodeIds
    /\ \A i \in DOMAIN nodes : ModOf(nodes[i].id) \in DOMAIN seen

\* Every module is there that was not deleted, and others only delete by
\* interfering.
AllThere ==
    /\ \A c \in DOMAIN commits : ModOf(c) \in modules \cup gone
    /\ changes = 0 => gone = {}

Sound == Shape /\ Resolving /\ SeenOK /\ AllThere /\ EdgesResolve /\ OneVersion /\ HonestDigests

-----------------------------------------------------------------------------
(***************************************************************************)
(* The beginning, and what never changes.                                  *)
(***************************************************************************)

LEMMA DocumentsOf ==
    ASSUME NEW h \in Histories, commits = Documents(h)
    PROVE  /\ DOMAIN commits = DOMAIN h
           /\ \A c \in DOMAIN h : ModOf(c) = h[c].mod /\ Deps(c) = h[c].deps
BY DEF Documents, ModOf, Deps

LEMMA InitSound == Init => Sound
<1> SUFFICES ASSUME Init PROVE Sound
  OBVIOUS
<1>1. PICK h \in Histories : commits = Documents(h) /\ modules = {h[c].mod : c \in DOMAIN h}
  BY DEF Init
<1>2. /\ DOMAIN commits = DOMAIN h
      /\ \A c \in DOMAIN h : ModOf(c) = h[c].mod /\ Deps(c) = h[c].deps
  BY <1>1, DocumentsOf
<1>3. asked \in Seq(Ref) /\ asked # <<>> /\ Len(asked) \in Nat
  BY GraphAssumption DEF Init
<1>4. \A c \in DOMAIN commits : Deps(c) \subseteq DOMAIN commits
  BY <1>2, GraphAssumption DEF History
<1>5. Shape
  BY <1>3, <1>4 DEF Init, Shape, StackOK
<1>6. Resolving
  BY <1>3 DEF Init, Resolving
<1>7. SeenOK /\ EdgesResolve /\ OneVersion /\ HonestDigests
  BY DEF Init, SeenOK, EdgesResolve, OneVersion, HonestDigests
<1>8. AllThere
  BY <1>1, <1>2 DEF Init, AllThere
<1> QED
  BY <1>5, <1>6, <1>7, <1>8 DEF Sound

-----------------------------------------------------------------------------
(***************************************************************************)
(* The stack of active calls.                                              *)
(***************************************************************************)

LEMMA PopOK ==
    ASSUME NEW s, StackOK(s), s # <<>>
    PROVE  /\ Head(s) \in FrameLike /\ ~Returning(Head(s))
           /\ StackOK(Tail(s))
BY DEF StackOK

LEMMA PushOK ==
    ASSUME NEW s, StackOK(s), NEW f \in FrameLike, ~Returning(f)
    PROVE  StackOK(<<f>> \o s)
<1>1. <<f>> \in Seq(FrameLike) /\ s \in Seq(FrameLike)
  BY DEF StackOK
<1>2. \A i \in DOMAIN (<<f>> \o s) :
          (<<f>> \o s)[i] = f \/ \E j \in DOMAIN s : (<<f>> \o s)[i] = s[j]
  BY <1>1
<1> QED
  BY <1>1, <1>2 DEF StackOK

LEMMA ContinueOK ==
    ASSUME StackOK(stack), stack # <<>>, NEW f \in FrameLike
    PROVE  StackOK(IF Returning(f) THEN Tail(stack) ELSE <<f>> \o Tail(stack))
BY PopOK, PushOK

-----------------------------------------------------------------------------
(***************************************************************************)
(* Steps that leave the three tables alone.                                *)
(***************************************************************************)

\* The tables are as they were, and so is all that is said about them.
LEMMA TablesSame ==
    ASSUME Sound, UNCHANGED <<commits, asked, api, nodes, edges, seen>>
    PROVE  /\ SeenOK' /\ EdgesResolve' /\ OneVersion'
           /\ gone \subseteq gone' => HonestDigests'
<1>1. SeenOK'
  BY DEF Sound, SeenOK, NodeIds, ModOf
<1>2. EdgesResolve'
  BY DEF Sound, EdgesResolve, NodeIds, ModOf
<1>3. OneVersion'
  BY DEF Sound, OneVersion, DistinctRoots, ModOf
<1>4. gone \subseteq gone' => HonestDigests'
  BY DEF Sound, HonestDigests, ModOf
<1> QED
  BY <1>1, <1>2, <1>3, <1>4

LEMMA FailSound ==
    ASSUME Sound, Fail
    PROVE  Sound'
<1>1. UNCHANGED <<commits, modules, asked, api, refs, nodes, edges, seen, stack, next, gone, changes>>
      /\ stage' = "error"
  BY DEF Fail, storageVars, metaVars, walkVars
<1>2. Shape' /\ Resolving' /\ AllThere'
  BY <1>1 DEF Sound, Shape, NodeLike, StackOK, FrameLike, Returning, Deps,
       Resolving, AllThere, ModOf
<1> QED
  BY <1>1, <1>2, TablesSame DEF Sound

\* The first call for a reference by name.
LEMMA NamedSound ==
    ASSUME Sound, ResolveName
    PROVE  Sound'
<1>1. CASE Fail
  BY <1>1, FailSound
<1>2. CASE ~Fail
  <2>1. UNCHANGED <<commits, modules, asked, api, refs, nodes, edges, seen, stack, next, gone, changes>>
        /\ stage = "resolve" /\ stage' = "named"
    BY <1>2 DEF ResolveName, storageVars, metaVars, walkVars
  <2>2. Shape' /\ Resolving' /\ AllThere'
    BY <2>1 DEF Sound, Shape, NodeLike, StackOK, FrameLike, Returning, Deps,
         Resolving, AllThere, ModOf
  <2> QED
    BY <2>1, <2>2, TablesSame DEF Sound
<1> QED
  BY <1>1, <1>2

\* What a step of the walk that only moves the stack has to show.
LEMMA MoveSound ==
    ASSUME Sound, stage = "walk", stage' = "walk", StackOK(stack'), next' \in Nat \ {0},
           UNCHANGED <<commits, modules, asked, api, refs, nodes, edges, seen, gone, changes>>
    PROVE  Sound'
<1>1. StackOK(stack)'
  BY DEF StackOK, FrameLike, Returning
<1>2. Shape' /\ Resolving' /\ AllThere'
  BY <1>1 DEF Sound, Shape, NodeLike, Deps, Resolving, AllThere, ModOf
<1> QED
  BY <1>2, TablesSame DEF Sound

LEMMA WalkSound ==
    ASSUME Sound, WalkRoot
    PROVE  Sound'
<1>1. stage = "walk" /\ next <= Len(asked) /\ Len(nodes) >= Len(asked) /\ next \in Nat \ {0}
      /\ nodes \in Seq(NodeLike) /\ asked \in Seq(Ref)
  BY DEF WalkRoot, Sound, Resolving, Shape
<1>2. next \in DOMAIN nodes /\ nodes[next].id \in DOMAIN commits
  <2>1. Len(nodes) \in Nat /\ Len(asked) \in Nat /\ DOMAIN nodes = 1 .. Len(nodes)
    BY <1>1
  <2>2. next \in 1 .. Len(nodes)
    BY <1>1, <2>1
  <2>3. nodes[next] \in NodeLike
    BY <1>1, <2>1, <2>2
  <2> QED
    BY <2>1, <2>2, <2>3 DEF NodeLike
<1> DEFINE f == NewFrame(nodes[next].id)
<1>3. f \in FrameLike /\ ~Returning(f)
  BY <1>2 DEF NewFrame, FrameLike, Returning
<1>4. stack' = <<f>>
  BY DEF WalkRoot
<1> HIDE DEF f
<1>5. StackOK(stack')
  BY <1>3, <1>4 DEF StackOK
<1> QED
  BY <1>1, <1>5, MoveSound DEF WalkRoot, storageVars, metaVars

LEMMA EnterSound ==
    ASSUME Sound, Enter
    PROVE  Sound'
<1>1. CASE Fail
  BY <1>1, FailSound
<1>2. CASE ~Fail
  <2> DEFINE f == [Top EXCEPT !.fresh = FALSE, !.look = Deps(Top.id)]
  <2>1. stage = "walk" /\ stack # <<>> /\ Continue(f)
        /\ UNCHANGED <<storageVars, api, asked, stage, refs, nodes, edges, seen, next, gone, changes>>
    BY <1>2 DEF Enter
  <2>2. Top \in FrameLike
    BY <2>1, PopOK DEF Sound, Shape, Top
  <2>3. f \in FrameLike
    BY <2>2 DEF FrameLike, Sound, Shape
  <2> HIDE DEF f
  <2>4. StackOK(stack')
    BY <2>1, <2>3, ContinueOK DEF Continue, Sound, Shape
  <2> QED
    BY <2>1, <2>4, MoveSound DEF storageVars, metaVars, Sound, Shape
<1> QED
  BY <1>1, <1>2

LEMMA LookUpSound ==
    ASSUME Sound, LookUp
    PROVE  Sound'
<1>1. stage = "walk" /\ stack # <<>>
      /\ UNCHANGED <<storageVars, api, asked, stage, refs, nodes, edges, seen, next, gone, changes>>
  BY DEF LookUp
<1>2. Top \in FrameLike
  BY <1>1, PopOK DEF Sound, Shape, Top
<1>3. PICK d \in Top.look :
          Continue(IF ModOf(d) \in modules
                   THEN [[Top EXCEPT !.look = @ \ {d}] EXCEPT !.found = Append(@, d)]
                   ELSE [Top EXCEPT !.look = @ \ {d}])
  BY DEF LookUp
<1>4. d \in DOMAIN commits
  BY <1>2 DEF FrameLike
<1> DEFINE g == [Top EXCEPT !.look = @ \ {d}]
           f == IF ModOf(d) \in modules THEN [g EXCEPT !.found = Append(@, d)] ELSE g
<1>5. g \in FrameLike
  BY <1>2 DEF FrameLike
<1>6. [g EXCEPT !.found = Append(@, d)] \in FrameLike
  <2>1. Append(g.found, d) \in Seq(DOMAIN commits)
    BY <1>4, <1>5 DEF FrameLike
  <2> HIDE DEF g
  <2> QED
    BY <1>5, <2>1 DEF FrameLike
<1>7. f \in FrameLike /\ Continue(f)
  BY <1>3, <1>5, <1>6
<1> HIDE DEF f
<1>8. StackOK(stack')
  BY <1>1, <1>7, ContinueOK DEF Continue, Sound, Shape
<1> QED
  BY <1>1, <1>8, MoveSound DEF storageVars, metaVars, Sound, Shape

\* Other requests: commits, nodes and edges are none of their business.
LEMMA InterfereSound ==
    ASSUME Sound, Interfere
    PROVE  Sound'
<1>1. /\ UNCHANGED <<commits, asked, api, stage, refs, nodes, edges, seen, stack, next>>
      /\ changes' = changes + 1
      /\ gone \subseteq gone' /\ modules \subseteq modules' \cup gone'
  BY DEF Interfere, walkVars, DeleteModule, CreateModule, CreateOrUpdateLabel
<1>2. changes' \in Nat /\ changes' # 0
  BY <1>1 DEF Sound, Shape
<1>3. Shape' /\ Resolving' /\ AllThere'
  BY <1>1, <1>2 DEF Sound, Shape, NodeLike, StackOK, FrameLike, Returning, Deps,
       Resolving, AllThere, ModOf
<1> QED
  BY <1>1, <1>2, <1>3, TablesSame DEF Sound

-----------------------------------------------------------------------------
(***************************************************************************)
(* Steps that change the tables.                                           *)
(***************************************************************************)

LEMMA NodeOfIs ==
    ASSUME NEW c \in DOMAIN commits
    PROVE  NodeOf(c) \in NodeLike /\ NodeOf(c).id = c /\ (api = "v1" => NodeOf(c).digest = "module")
BY DEF NodeOf, NodeLike

LEMMA DepNodeIs ==
    ASSUME NEW c \in DOMAIN commits, AllThere
    PROVE  /\ DepNode(c) \in NodeLike /\ DepNode(c).id = c
           /\ api = "v1" => DepNode(c).digest = "module" \/ ModOf(c) \in gone
BY DEF DepNode, NodeLike, AllThere

\* A node is added for commit c, which is now the one of its module.  Edges
\* lead to nodes that are still those of their modules: there are none, or c's
\* module is new.
LEMMA NodeAdded ==
    ASSUME Sound, NEW c \in DOMAIN commits, NEW n \in NodeLike, n.id = c,
           api = "v1" => n.digest = "module" \/ ModOf(c) \in gone,
           nodes' = Append(nodes, n), seen' = Bind(seen, ModOf(c), c),
           UNCHANGED <<commits, asked, api, gone, changes>>
    PROVE  /\ SeenOK' /\ HonestDigests'
           /\ nodes' \in Seq(NodeLike) /\ Len(nodes') = Len(nodes) + 1
           /\ NodeIds' = NodeIds \cup {c}
<1>1. nodes \in Seq(NodeLike) /\ Len(nodes) \in Nat
  BY DEF Sound, Shape
<1>2. /\ nodes' \in Seq(NodeLike) /\ Len(nodes') = Len(nodes) + 1
      /\ DOMAIN nodes' = DOMAIN nodes \cup {Len(nodes) + 1}
      /\ \A i \in DOMAIN nodes : nodes'[i] = nodes[i]
      /\ nodes'[Len(nodes) + 1] = n
  BY <1>1
<1>3. NodeIds' = NodeIds \cup {c}
  BY <1>2 DEF NodeIds
<1>4. HonestDigests'
  BY <1>2 DEF Sound, HonestDigests, ModOf
<1>5. /\ DOMAIN seen' = DOMAIN seen \cup {ModOf(c)} /\ seen'[ModOf(c)] = c
      /\ \A m \in DOMAIN seen : m # ModOf(c) => seen'[m] = seen[m]
  BY DEF Bind
<1>6. SeenOK'
  <2>1. \A m \in DOMAIN seen' :
            seen'[m] \in DOMAIN commits /\ ModOf(seen'[m]) = m /\ seen'[m] \in NodeIds'
    BY <1>3, <1>5 DEF Sound, SeenOK
  <2>2. \A i \in DOMAIN nodes' : ModOf(nodes'[i].id) \in DOMAIN seen'
    BY <1>2, <1>5 DEF Sound, SeenOK
  <2> QED
    BY <2>1, <2>2 DEF SeenOK, ModOf
<1> QED
  BY <1>2, <1>3, <1>4, <1>6

LEMMA RootSound ==
    ASSUME Sound, stage \in {"resolve", "named"}, NEW c \in DOMAIN commits, AddRoot(c)
    PROVE  Sound'
<1>1. /\ nodes' = Append(nodes, NodeOf(c)) /\ seen' = Bind(seen, ModOf(c), c)
      /\ refs' = Tail(refs)
      /\ stage' = IF Tail(refs) = <<>> THEN "walk" ELSE "resolve"
      /\ UNCHANGED <<commits, modules, api, asked, edges, stack, next, gone, changes>>
  BY DEF AddRoot, storageVars, metaVars
<1>2. /\ SeenOK' /\ HonestDigests'
      /\ nodes' \in Seq(NodeLike) /\ Len(nodes') = Len(nodes) + 1
  BY <1>1, NodeAdded, NodeOfIs
<1>3. /\ edges = {} /\ stack = <<>> /\ refs # <<>> /\ Len(nodes) + Len(refs) = Len(asked)
      /\ refs \in Seq(Ref) /\ asked \in Seq(Ref) /\ nodes \in Seq(NodeLike)
  BY DEF Sound, Resolving, Shape
<1>4. /\ Len(refs) \in Nat /\ Len(nodes) \in Nat /\ Len(asked) \in Nat
      /\ Tail(refs) \in Seq(Ref) /\ Len(Tail(refs)) = Len(refs) - 1
      /\ Tail(refs) = <<>> <=> Len(refs) = 1
  <2>1. Len(refs) \in Nat /\ Len(nodes) \in Nat /\ Len(asked) \in Nat
    BY <1>3
  <2>2. Tail(refs) \in Seq(Ref) /\ Len(Tail(refs)) = Len(refs) - 1
    BY <1>3
  <2>3. Tail(refs) = <<>> <=> Len(Tail(refs)) = 0
    BY <2>2, EmptySeq
  <2> QED
    BY <2>1, <2>2, <2>3
<1>5. Len(nodes') + Len(refs') = Len(asked) /\ Len(nodes') <= Len(asked)
  BY <1>1, <1>2, <1>3, <1>4
<1>6. Resolving'
  BY <1>1, <1>2, <1>3, <1>4, <1>5 DEF Resolving
<1>7. Shape'
  BY <1>1, <1>2, <1>4 DEF Sound, Shape, NodeLike, StackOK, FrameLike, Returning, Deps
<1>8. EdgesResolve' /\ AllThere'
  BY <1>1, <1>3 DEF Sound, EdgesResolve, AllThere, ModOf
<1>9. OneVersion'
  <2>1. \A i \in DOMAIN nodes' : i \in 1 .. Len(nodes') /\ i <= Len(asked')
    BY <1>1, <1>2, <1>4, <1>5
  <2> QED
    BY <2>1 DEF OneVersion, DistinctRoots
<1> QED
  BY <1>2, <1>6, <1>7, <1>8, <1>9 DEF Sound

LEMMA ResolveSound ==
    ASSUME Sound, ResolveID \/ ResolveChild
    PROVE  Sound'
<1>1. CASE Fail
  BY <1>1, FailSound
<1>2. CASE ~Fail
  <2>1. PICK c \in DOMAIN commits : AddRoot(c)
    BY <1>2 DEF ResolveID, ResolveChild
  <2>2. stage \in {"resolve", "named"}
    BY DEF ResolveID, ResolveChild
  <2> QED
    BY <2>1, <2>2, RootSound
<1> QED
  BY <1>1, <1>2

-----------------------------------------------------------------------------
(***************************************************************************)
(* Linking a dependency.                                                   *)
(***************************************************************************)

\* What linking has to show of the rest, once the tables are right.
LEMMA LinkRest ==
    ASSUME Sound, stage = "walk", stage' = "walk",
           UNCHANGED <<commits, modules, asked, api, refs, next, gone, changes>>,
           nodes' \in Seq(NodeLike), Len(nodes') >= Len(nodes), StackOK(stack')
    PROVE  Shape' /\ Resolving' /\ AllThere'
<1>1. StackOK(stack)'
  BY DEF StackOK, FrameLike, Returning
<1>2. Shape'
  BY <1>1 DEF Sound, Shape, NodeLike, Deps
<1>3. Len(nodes) \in Nat /\ Len(nodes') \in Nat /\ Len(asked) \in Nat
  BY DEF Sound, Shape
<1>4. Resolving'
  BY <1>3 DEF Sound, Resolving
<1>5. AllThere'
  BY DEF Sound, AllThere, ModOf
<1> QED
  BY <1>2, <1>4, <1>5

\* A module that is met for the first time has no node yet, so its node is the
\* only one; and only the roots decide whether the roots are distinct.
LEMMA NewSound ==
    ASSUME Sound, stage = "walk", stage' = "walk",
           UNCHANGED <<commits, modules, asked, api, refs, next, gone, changes>>,
           NEW d \in DOMAIN commits, NEW p, ModOf(d) \notin DOMAIN seen,
           nodes' = Append(nodes, DepNode(d)), seen' = Bind(seen, ModOf(d), d),
           edges' = edges \cup {<<p, d>>}, StackOK(stack')
    PROVE  Sound'
<1>1. /\ DepNode(d) \in NodeLike /\ DepNode(d).id = d
      /\ api = "v1" => DepNode(d).digest = "module" \/ ModOf(d) \in gone
  BY DepNodeIs DEF Sound
<1>2. /\ SeenOK' /\ HonestDigests'
      /\ nodes' \in Seq(NodeLike) /\ Len(nodes') = Len(nodes) + 1
      /\ NodeIds' = NodeIds \cup {d}
  BY <1>1, NodeAdded
<1>3. nodes \in Seq(NodeLike) /\ Len(nodes) \in Nat /\ Len(asked) \in Nat
      /\ Len(nodes) >= Len(asked)
  BY DEF Sound, Shape, Resolving
<1>4. Shape' /\ Resolving' /\ AllThere'
  BY <1>2, <1>3, LinkRest
<1>5. /\ DOMAIN seen' = DOMAIN seen \cup {ModOf(d)} /\ seen'[ModOf(d)] = d
      /\ \A m \in DOMAIN seen : seen'[m] = seen[m]
  BY DEF Bind
<1>6. EdgesResolve'
  <2> SUFFICES ASSUME NEW e \in edges'
               PROVE  e[2] \in NodeIds' /\ ModOf(e[2]) \in DOMAIN seen' /\ seen'[ModOf(e[2])] = e[2]
    BY DEF EdgesResolve, ModOf
  <2>1. CASE e \in edges
    BY <1>2, <1>5, <2>1 DEF Sound, EdgesResolve
  <2>2. CASE e = <<p, d>>
    BY <1>2, <1>5, <2>2
  <2> QED
    BY <2>1, <2>2
<1>7. OneVersion'
  <2>1. /\ \A i \in DOMAIN nodes : nodes'[i] = nodes[i] /\ i \in DOMAIN nodes'
        /\ nodes'[Len(nodes) + 1] = DepNode(d)
        /\ DOMAIN nodes' = DOMAIN nodes \cup {Len(nodes) + 1}
        /\ DOMAIN nodes = 1 .. Len(nodes) /\ DOMAIN nodes' = 1 .. Len(nodes')
    BY <1>2, <1>3
  <2>2. DistinctRoots' => DistinctRoots
    BY <1>2, <1>3, <2>1 DEF DistinctRoots, ModOf
  <2>3. \A i \in DOMAIN nodes : ModOf(nodes[i].id) # ModOf(d)
    BY DEF Sound, SeenOK
  <2> SUFFICES ASSUME DistinctRoots', NEW i \in DOMAIN nodes', NEW j \in DOMAIN nodes',
                      ModOf(nodes'[i].id) = ModOf(nodes'[j].id)
               PROVE  i = j
    BY DEF OneVersion, ModOf
  <2>4. CASE i \in DOMAIN nodes /\ j \in DOMAIN nodes
    BY <2>1, <2>2, <2>4 DEF Sound, OneVersion
  <2>5. CASE i = Len(nodes) + 1 \/ j = Len(nodes) + 1
    BY <1>1, <2>1, <2>3, <2>5
  <2> QED
    BY <2>1, <2>4, <2>5
<1> QED
  BY <1>2, <1>4, <1>6, <1>7 DEF Sound

\* A newer version takes the place of the old one everywhere: the node keeps
\* its module, and so each table goes on agreeing with the others.
LEMMA NewerSound ==
    ASSUME Sound, stage = "walk", stage' = "walk",
           UNCHANGED <<commits, modules, asked, api, refs, next, gone, changes>>,
           NEW d \in DOMAIN commits, NEW p, NEW k \in DOMAIN nodes,
           ModOf(d) \in DOMAIN seen, nodes[k].id = seen[ModOf(d)],
           nodes' = [nodes EXCEPT ![k] = DepNode(d)],
           seen' = [seen EXCEPT ![ModOf(d)] = d],
           edges' = {<<e[1], IF e[2] = seen[ModOf(d)] THEN d ELSE e[2]>> : e \in edges}
                    \cup {<<p, d>>},
           StackOK(stack')
    PROVE  Sound'
<1> DEFINE old == seen[ModOf(d)]
<1>1. /\ DepNode(d) \in NodeLike /\ DepNode(d).id = d
      /\ api = "v1" => DepNode(d).digest = "module" \/ ModOf(d) \in gone
  BY DepNodeIs DEF Sound
<1>2. old \in DOMAIN commits /\ ModOf(old) = ModOf(d)
  BY DEF Sound, SeenOK
<1>3. nodes \in Seq(NodeLike) /\ Len(nodes) \in Nat
  BY DEF Sound, Shape
<1>4. /\ nodes' \in Seq(NodeLike) /\ Len(nodes') = Len(nodes)
      /\ DOMAIN nodes' = DOMAIN nodes
      /\ nodes'[k] = DepNode(d) /\ \A i \in DOMAIN nodes : i # k => nodes'[i] = nodes[i]
  BY <1>1, <1>3
<1>5. Shape' /\ Resolving' /\ AllThere'
  BY <1>3, <1>4, LinkRest
<1>6. \A i \in DOMAIN nodes : ModOf(nodes'[i].id) = ModOf(nodes[i].id)
  BY <1>1, <1>2, <1>4
<1>7. d \in NodeIds' /\ \A c \in NodeIds : c # old => c \in NodeIds'
  BY <1>1, <1>4 DEF NodeIds
<1>8. /\ DOMAIN seen' = DOMAIN seen /\ seen'[ModOf(d)] = d
      /\ \A m \in DOMAIN seen : m # ModOf(d) => seen'[m] = seen[m]
  OBVIOUS
<1>9. SeenOK'
  <2>1. \A m \in DOMAIN seen' :
            seen'[m] \in DOMAIN commits /\ ModOf(seen'[m]) = m /\ seen'[m] \in NodeIds'
    BY <1>2, <1>7, <1>8 DEF Sound, SeenOK
  <2>2. \A i \in DOMAIN nodes' : ModOf(nodes'[i].id) \in DOMAIN seen'
    BY <1>4, <1>6, <1>8 DEF Sound, SeenOK
  <2> QED
    BY <2>1, <2>2 DEF SeenOK, ModOf
<1>10. EdgesResolve'
  <2> SUFFICES ASSUME NEW f \in edges'
               PROVE  f[2] \in NodeIds' /\ ModOf(f[2]) \in DOMAIN seen' /\ seen'[ModOf(f[2])] = f[2]
    BY DEF EdgesResolve, ModOf
  <2>1. CASE f[2] = d
    BY <1>7, <1>8, <2>1
  <2>2. CASE f[2] # d
    <3>1. PICK e \in edges : f[2] = e[2] /\ e[2] # old
      BY <2>2
    <3>2. e[2] \in NodeIds /\ ModOf(e[2]) \in DOMAIN seen /\ seen[ModOf(e[2])] = e[2]
      BY DEF Sound, EdgesResolve
    <3>3. ModOf(e[2]) # ModOf(d)
      BY <3>1, <3>2
    <3> QED
      BY <1>7, <1>8, <3>1, <3>2, <3>3
  <2> QED
    BY <2>1, <2>2
<1>11. OneVersion'
  <2>1. DistinctRoots' => DistinctRoots
    BY <1>4, <1>6 DEF DistinctRoots, ModOf
  <2> QED
    BY <1>4, <1>6, <2>1 DEF Sound, OneVersion, ModOf
<1>12. HonestDigests'
  BY <1>1, <1>4 DEF Sound, HonestDigests, ModOf
<1> QED
  BY <1>5, <1>9, <1>10, <1>11, <1>12 DEF Sound

\* An edge to the version that was taken.
LEMMA KnownSound ==
    ASSUME Sound, stage = "walk", stage' = "walk",
           UNCHANGED <<commits, modules, asked, api, refs, next, gone, changes, nodes, seen>>,
           NEW d \in DOMAIN commits, NEW p, ModOf(d) \in DOMAIN seen,
           edges' = edges \cup {<<p, seen[ModOf(d)]>>}, StackOK(stack')
    PROVE  Sound'
<1>1. nodes \in Seq(NodeLike) /\ Len(nodes) \in Nat
  BY DEF Sound, Shape
<1>2. Shape' /\ Resolving' /\ AllThere'
  BY <1>1, LinkRest
<1>3. SeenOK' /\ OneVersion' /\ HonestDigests'
  BY DEF Sound, SeenOK, OneVersion, DistinctRoots, HonestDigests, NodeIds, ModOf
<1>4. EdgesResolve'
  <2> SUFFICES ASSUME NEW e \in edges'
               PROVE  e[2] \in NodeIds /\ ModOf(e[2]) \in DOMAIN seen /\ seen[ModOf(e[2])] = e[2]
    BY DEF EdgesResolve, ModOf, NodeIds
  <2>1. CASE e \in edges
    BY <2>1 DEF Sound, EdgesResolve
  <2>2. CASE e = <<p, seen[ModOf(d)]>>
    BY <2>2 DEF Sound, SeenOK
  <2> QED
    BY <2>1, <2>2
<1> QED
  BY <1>2, <1>3, <1>4 DEF Sound

LEMMA LinkSound ==
    ASSUME Sound, Link
    PROVE  Sound'
<1> DEFINE d == Head(Top.found)
           f == [Top EXCEPT !.found = Tail(@)]
<1>1. /\ stage = "walk" /\ stage' = "walk" /\ stack # <<>>
      /\ ~Top.fresh /\ Top.look = {}
      /\ LinkNew(d, f) \/ LinkNewer(d, f) \/ LinkKnown(d, f)
      /\ UNCHANGED <<commits, modules, asked, api, refs, next, gone, changes>>
  BY DEF Link, storageVars, metaVars
<1>2. Top \in FrameLike /\ ~Returning(Top)
  BY <1>1, PopOK DEF Sound, Shape, Top
<1>3. Top.found \in Seq(DOMAIN commits) /\ Top.found # <<>>
  BY <1>1, <1>2 DEF FrameLike, Returning
<1>4. d \in DOMAIN commits /\ Tail(Top.found) \in Seq(DOMAIN commits)
  BY <1>3, HeadTailProperties
<1>5. f \in FrameLike
  BY <1>2, <1>4 DEF FrameLike
<1> HIDE DEF d, f
<1>6. StackOK(IF Returning(f) THEN Tail(stack) ELSE <<f>> \o Tail(stack))
  BY <1>1, <1>5, ContinueOK DEF Sound, Shape
<1>7. CASE LinkNew(d, f)
  <2>1. NewFrame(d) \in FrameLike /\ ~Returning(NewFrame(d))
    BY <1>4 DEF NewFrame, FrameLike, Returning
  <2>2. StackOK(stack')
    BY <1>6, <1>7, <2>1, PushOK DEF LinkNew
  <2> QED
    BY <1>1, <1>4, <1>7, <2>2, NewSound DEF LinkNew
<1>8. CASE LinkNewer(d, f)
  <2>1. StackOK(stack')
    BY <1>6, <1>8 DEF LinkNewer, Continue
  <2>2. PICK k \in DOMAIN nodes :
            nodes[k].id = seen[ModOf(d)] /\ nodes' = [nodes EXCEPT ![k] = DepNode(d)]
    BY <1>8 DEF LinkNewer, Replace
  <2> QED
    BY <1>1, <1>4, <1>8, <2>1, <2>2, NewerSound DEF LinkNewer, Replace
<1>9. CASE LinkKnown(d, f)
  <2>1. StackOK(stack')
    BY <1>6, <1>9 DEF LinkKnown, Continue
  <2> QED
    BY <1>1, <1>4, <1>9, <2>1, KnownSound DEF LinkKnown
<1> QED
  BY <1>1, <1>7, <1>8, <1>9

-----------------------------------------------------------------------------
(***************************************************************************)
(* The theorems.                                                           *)
(***************************************************************************)

LEMMA StaySound ==
    ASSUME Sound, Answer \/ Answered \/ UNCHANGED vars
    PROVE  Sound'
<1>1. /\ UNCHANGED <<commits, modules, asked, api, refs, nodes, edges, seen, stack, next, gone, changes>>
      /\ stage' = stage \/ (stage = "walk" /\ stage' = "done")
  BY DEF Answer, Answered, vars, storageVars, metaVars, graphVars, walkVars
<1>2. Shape' /\ Resolving' /\ AllThere'
  BY <1>1 DEF Sound, Shape, NodeLike, StackOK, FrameLike, Returning, Deps,
       Resolving, AllThere, ModOf
<1> QED
  BY <1>1, <1>2, TablesSame DEF Sound

LEMMA NextSound == Sound /\ [Next]_vars => Sound'
BY ResolveSound, NamedSound, WalkSound, EnterSound, LookUpSound, LinkSound,
   InterfereSound, StaySound DEF Next, Serve

LEMMA SoundHolds == Spec => []Sound
BY InitSound, NextSound, PTL DEF Spec

\* At every moment of every walk each edge leads to a node, and to the version
\* that was taken for its module: no replacement leaves one behind.
THEOREM EdgesAlwaysResolve == Spec => []EdgesResolve
<1>1. Sound => EdgesResolve
  BY DEF Sound
<1> QED
  BY <1>1, SoundHolds, PTL

\* A graph has one version of every module, unless the client named two.
THEOREM OneVersionAlways == Spec => []OneVersion
<1>1. Sound => OneVersion
  BY DEF Sound
<1> QED
  BY <1>1, SoundHolds, PTL

\* A v1 graph has module digests only, but for modules that were deleted while
\* it was made.
THEOREM DigestsAlwaysHonest == Spec => []HonestDigests
<1>1. Sound => HonestDigests
  BY DEF Sound
<1> QED
  BY <1>1, SoundHolds, PTL
=============================================================================
