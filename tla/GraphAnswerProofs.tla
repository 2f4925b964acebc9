-------------------------- MODULE GraphAnswerProofs --------------------------
(***************************************************************************)
(* What the answer of GetGraph is, for every history of commits and every  *)
(* request: the walk of getGraphForModule finds all that can be reached,   *)
(* decides conflicts for the newer version and fails for no reason of its  *)
(* own.  Module GraphProofs proves that the tables agree at every moment;  *)
(* here the stack of active calls comes in: what a node or an edge lacks   *)
(* now, some active call is still going to add.                            *)
(***************************************************************************)
EXTENDS GraphProofs, FiniteSetTheorems

-----------------------------------------------------------------------------
(***************************************************************************)
(* Types.                                                                  *)
(***************************************************************************)

\* A set of naturals has a least element.  (The library's theorem WFMin is
\* about sets; its induction theorems are about predicates.)
LEMMA Least ==
    ASSUME NEW T \in SUBSET Nat, T # {}
    PROVE  \E n \in T : \A k \in T : n <= k
<1>1. PICK n \in T : \A k \in T : ~ (<<k, n>> \in OpToRel(<, Nat))
  BY NatLessThanWellFounded, WFMin, Zenon
<1>2. \A k \in T : ~ (k < n)
  BY <1>1 DEF OpToRel
<1> QED
  BY <1>2

\* Each module of a history has a newest commit.
LEMMA NewestIs ==
    ASSUME NEW h \in Histories, NEW c \in DOMAIN h
    PROVE  /\ Newest(h, h[c].mod) \in DOMAIN h
           /\ h[Newest(h, h[c].mod)].mod = h[c].mod
<1> DEFINE m == h[c].mod
           S == {d \in DOMAIN h : h[d].mod = m}
           T == {Len(h) - d : d \in S}
<1>1. Len(h) \in Nat /\ DOMAIN h = 1 .. Len(h)
  BY GraphAssumption DEF History
<1>2. T \in SUBSET Nat /\ T # {}
  BY <1>1
<1>3. PICK n \in T : \A k \in T : n <= k
  BY <1>2, Least
<1>4. PICK d \in S : n = Len(h) - d
  BY <1>3
<1>5. \A e \in S : e <= d
  <2> TAKE e \in S
  <2>1. n <= Len(h) - e
    BY <1>3
  <2> QED
    BY <1>1, <1>4, <2>1
<1>6. d \in DOMAIN h /\ h[d].mod = m /\ \A e \in DOMAIN h : h[e].mod = m => e <= d
  BY <1>5
<1> HIDE DEF S, T, m
<1>7. Newest(h, m) \in DOMAIN h /\ h[Newest(h, m)].mod = m
  BY <1>6 DEF Newest
<1> QED
  BY <1>7 DEF m

\* What a history leaves in the storage.
LEMMA InitStorage ==
    ASSUME Init
    PROVE  StorageTypeOK /\ LabelsResolve
<1>1. PICK h \in Histories :
          /\ commits = Documents(h)
          /\ modules = {h[c].mod : c \in DOMAIN h}
          /\ labels = [l \in modules \X {Main} |-> Newest(h, l[1])]
          /\ blobs = DOMAIN h
          /\ manifests = {Paths \X {c} : c \in DOMAIN h}
  BY DEF Init
<1>2. /\ DOMAIN h \subseteq Contents /\ DOMAIN h \subseteq CommitIDs
      /\ \A c \in DOMAIN h : h[c].mod \in Modules /\ h[c].deps \in SUBSET CommitIDs
  <2>1. h \in Seq([mod: Modules, deps: SUBSET CommitIDs]) /\ DOMAIN h \subseteq Contents
    BY GraphAssumption DEF History
  <2>2. DOMAIN h = 1 .. Len(h) /\ Len(h) \in Nat
    BY <2>1
  <2>3. \A c \in DOMAIN h : h[c] \in [mod: Modules, deps: SUBSET CommitIDs]
    BY <2>1, <2>2, ElementOfSeq
  <2> QED
    BY <2>1, <2>2, <2>3 DEF CommitIDs
<1>3. /\ DOMAIN commits = DOMAIN h
      /\ \A c \in DOMAIN h : /\ commits[c].mod = h[c].mod /\ commits[c].deps = h[c].deps
                             /\ commits[c].files = Paths \X {c}
  BY <1>1 DEF Documents
<1>4. \A c \in DOMAIN h : Paths \X {c} \in Manifests
  BY <1>2 DEF Manifests, Entries
<1>5. \A c \in DOMAIN commits : CommitLike(commits[c])
  BY <1>2, <1>3, <1>4 DEF CommitLike
<1>6. modules \subseteq Modules /\ Main \in LabelNames
  BY <1>1, <1>2, GraphAssumption
<1>7. owners \subseteq Owners
  BY <1>6, StorageAssumption DEF Init
<1>8. \A l \in DOMAIN labels : /\ l \in LabelIDs /\ labels[l] \in DOMAIN h
                               /\ h[labels[l]].mod = l[1]
  <2> TAKE l \in DOMAIN labels
  <2>1. l \in modules \X {Main} /\ labels[l] = Newest(h, l[1])
    BY <1>1
  <2>2. PICK c \in DOMAIN h : l[1] = h[c].mod
    BY <1>1, <2>1
  <2>3. l \in LabelIDs
    BY <1>6, <2>1 DEF LabelIDs
  <2> QED
    BY <2>1, <2>2, <2>3, NewestIs
<1>9. LabelsResolve
  BY <1>3, <1>8 DEF LabelsResolve
<1>10. blobs \subseteq Contents /\ manifests \subseteq Manifests
  BY <1>1, <1>2, <1>4
<1>11. StorageTypeOK
  BY <1>2, <1>3, <1>5, <1>6, <1>7, <1>8, <1>10 DEF StorageTypeOK, Init
<1> QED
  BY <1>9, <1>11

\* A sequence over a set is one over a larger set.
LEMMA SeqWider ==
    ASSUME NEW A, NEW B, A \subseteq B, NEW s \in Seq(A)
    PROVE  s \in Seq(B)
OBVIOUS

\* The request's side of the types follows from what was proved, but for the
\* edges and the constants.
Rest == /\ StorageTypeOK /\ LabelsResolve
        /\ edges \subseteq (DOMAIN commits) \X (DOMAIN commits)
        /\ api \in APIs /\ stage \in GraphStages /\ changes <= MaxChanges
        /\ gone \subseteq Modules

\* Both together are the type invariant.
LEMMA RequestTyped == Sound /\ Rest => TypeOK
<1> SUFFICES ASSUME Sound, Rest PROVE TypeOK
  OBVIOUS
<1> USE DEF Rest
<1>1. DOMAIN commits \subseteq CommitIDs /\ \A c \in DOMAIN commits : ModOf(c) \in Modules
  BY DEF StorageTypeOK, CommitLike, ModOf
<1>2. NodeLike \subseteq Node /\ nodes \in Seq(NodeLike)
  BY <1>1 DEF NodeLike, Node, Sound, Shape
<1>3. nodes \in Seq(Node)
  BY <1>2, SeqWider
<1>4. FrameLike \subseteq Frame /\ stack \in Seq(FrameLike)
  <2>1. Seq(DOMAIN commits) \subseteq Seq(CommitIDs)
    BY <1>1, SeqWider
  <2> QED
    BY <1>1, <2>1 DEF FrameLike, Frame, Sound, Shape, StackOK
<1>5. stack \in Seq(Frame)
  BY <1>4, SeqWider
<1>6. /\ DOMAIN seen \subseteq Modules
      /\ \A m \in DOMAIN seen : seen[m] \in CommitIDs
  <2> SUFFICES ASSUME NEW m \in DOMAIN seen PROVE m \in Modules /\ seen[m] \in CommitIDs
    OBVIOUS
  <2>1. seen[m] \in DOMAIN commits /\ ModOf(seen[m]) = m
    BY DEF Sound, SeenOK
  <2> QED
    BY <1>1, <2>1
<1>7. edges \subseteq CommitIDs \X CommitIDs
  BY <1>1
<1>8. changes \in 0 .. MaxChanges
  BY GraphAssumption DEF Sound, Shape
<1> QED
  BY <1>3, <1>5, <1>6, <1>7, <1>8 DEF TypeOK, Sound, Shape

\* It holds at the start,
LEMMA InitRest == Init => Rest
BY InitStorage, GraphAssumption DEF Init, GraphStages, Rest

\* Modules and labels that other requests write are of commits that exist.
LEMMA InterfereStorage ==
    ASSUME Rest, Interfere
    PROVE  StorageTypeOK' /\ LabelsResolve' /\ gone' \subseteq Modules
<1>0. gone' \subseteq Modules
  <2>1. gone' = gone \/ \E m \in modules : gone' = gone \cup {m}
    BY DEF Interfere
  <2> QED
    BY <2>1 DEF Rest, StorageTypeOK
<1>1. UNCHANGED <<bucketVars, owners, commits>>
  BY DEF Interfere, DeleteModule, CreateModule, CreateOrUpdateLabel
<1>2. StorageTypeOK /\ LabelsResolve
  BY DEF Rest
<1>3. \A c \in DOMAIN commits : ModOf(c) \in Modules /\ c \in CommitIDs
  BY <1>2 DEF StorageTypeOK, CommitLike, ModOf
<1>4. CASE UNCHANGED labels /\ modules' \subseteq Modules
  BY <1>0, <1>1, <1>2, <1>4 DEF StorageTypeOK, LabelsResolve, bucketVars, CommitLike
<1>5. ASSUME NEW c \in DOMAIN commits, CreateOrUpdateLabel(<<ModOf(c), Main>>, c)
      PROVE  StorageTypeOK' /\ LabelsResolve'
  <2> DEFINE l == <<ModOf(c), Main>>
  <2>1. /\ DOMAIN labels' = DOMAIN labels \cup {l} /\ labels'[l] = c
        /\ \A k \in DOMAIN labels : k # l => labels'[k] = labels[k]
        /\ modules' = modules
    BY <1>5 DEF CreateOrUpdateLabel, Bind
  <2>2. l \in LabelIDs /\ l[1] = ModOf(c)
    BY <1>3, GraphAssumption DEF LabelIDs
  <2> HIDE DEF l
  <2>3. DOMAIN labels' \subseteq LabelIDs /\ \A k \in DOMAIN labels' : labels'[k] \in CommitIDs
    BY <1>2, <1>3, <2>1, <2>2 DEF StorageTypeOK
  <2>4. LabelsResolve'
    BY <1>1, <1>2, <2>1, <2>2 DEF LabelsResolve, ModOf
  <2> QED
    BY <1>1, <1>2, <2>1, <2>3, <2>4 DEF StorageTypeOK, bucketVars, CommitLike
<1>6. ASSUME NEW m, DeleteModule(m) PROVE UNCHANGED labels /\ modules' \subseteq Modules
  BY <1>2, <1>6 DEF DeleteModule, StorageTypeOK
<1>7. ASSUME NEW m \in {ModOf(c) : c \in DOMAIN commits}, CreateModule(m)
      PROVE  UNCHANGED labels /\ modules' \subseteq Modules
  BY <1>2, <1>3, <1>7 DEF CreateModule, StorageTypeOK
<1> QED
  BY <1>0, <1>4, <1>5, <1>6, <1>7 DEF Interfere

\* What a link starts from: a call that has found dependency d and has looked
\* all of them up.
LEMMA LinkIs ==
    ASSUME Sound, Link
    PROVE  /\ stage = "walk" /\ stack # <<>> /\ Top \in FrameLike
           /\ ~Top.fresh /\ Top.look = {} /\ Top.found # <<>>
           /\ Top.id \in DOMAIN commits /\ Head(Top.found) \in DOMAIN commits
           /\ UNCHANGED <<storageVars, api, asked, stage, refs, next, gone, changes>>
<1>1. /\ stage = "walk" /\ stack # <<>> /\ ~Top.fresh /\ Top.look = {}
      /\ UNCHANGED <<storageVars, api, asked, stage, refs, next, gone, changes>>
  BY DEF Link
<1>2. Top \in FrameLike /\ ~Returning(Top)
  BY <1>1, PopOK DEF Sound, Shape, Top
<1>3. Top.found \in Seq(DOMAIN commits) /\ Top.found # <<>> /\ Top.id \in DOMAIN commits
  BY <1>1, <1>2 DEF FrameLike, Returning
<1> QED
  BY <1>1, <1>2, <1>3, HeadTailProperties

\* An edge that is made or moved is between two commits.
LEMMA LinkEdges ==
    ASSUME Sound, Link, edges \subseteq (DOMAIN commits) \X (DOMAIN commits)
    PROVE  edges' \subseteq (DOMAIN commits) \X (DOMAIN commits)
<1> DEFINE d == Head(Top.found)
           f == [Top EXCEPT !.found = Tail(@)]
<1>1. Top.id \in DOMAIN commits /\ d \in DOMAIN commits
  BY LinkIs
<1>2. LinkNew(d, f) \/ LinkNewer(d, f) \/ LinkKnown(d, f)
  BY DEF Link
<1> HIDE DEF d, f
<1>3. CASE LinkNew(d, f)
  BY <1>1, <1>3 DEF LinkNew
<1>4. CASE LinkNewer(d, f)
  BY <1>1, <1>4 DEF LinkNewer, Replace
<1>5. CASE LinkKnown(d, f)
  BY <1>1, <1>5 DEF LinkKnown, Sound, SeenOK
<1> QED
  BY <1>2, <1>3, <1>4, <1>5

\* Only others change the storage; only Link makes edges.
LEMMA Stays ==
    ASSUME [Next]_vars
    PROVE  /\ Interfere \/ UNCHANGED <<storageVars, gone, changes>>
           /\ Link \/ UNCHANGED edges
           /\ UNCHANGED <<commits, api, asked>>
<1>1. ASSUME Serve PROVE UNCHANGED <<storageVars, gone, changes, api, asked>>
  BY <1>1 DEF Serve, ResolveID, ResolveName, ResolveChild, WalkRoot, Enter, LookUp, Link, Answer,
       Fail, AddRoot
<1>2. ASSUME Serve, ~Link PROVE UNCHANGED edges
  BY <1>2 DEF Serve, ResolveID, ResolveName, ResolveChild, WalkRoot, Enter, LookUp, Answer,
       Fail, AddRoot, walkVars
<1>3. ASSUME Interfere PROVE UNCHANGED <<edges, commits, api, asked>>
  BY <1>3 DEF Interfere, walkVars, DeleteModule, CreateModule, CreateOrUpdateLabel
<1>4. ASSUME Answered \/ UNCHANGED vars PROVE UNCHANGED <<storageVars, gone, changes, edges, api, asked>>
  BY <1>4 DEF Answered, vars, graphVars, walkVars
<1> QED
  BY <1>1, <1>2, <1>3, <1>4 DEF Next, storageVars, metaVars

\* What holds of the storage alone holds until it changes.
LEMMA StorageSame ==
    ASSUME UNCHANGED storageVars
    PROVE  (StorageTypeOK => StorageTypeOK') /\ (LabelsResolve => LabelsResolve')
BY DEF storageVars, bucketVars, metaVars, StorageTypeOK, CommitLike, LabelsResolve

\* and every step keeps it,
LEMMA NextRest ==
    ASSUME Sound, Rest, [Next]_vars
    PROVE  Rest'
<1>1. UNCHANGED <<commits, api>>
  BY Stays
<1>2. StorageTypeOK' /\ LabelsResolve' /\ gone' \subseteq Modules
  BY Stays, InterfereStorage, StorageSame DEF Rest
<1>3. edges' \subseteq (DOMAIN commits') \X (DOMAIN commits')
  BY <1>1, Stays, LinkEdges DEF Rest
<1>4. stage' \in GraphStages
  BY DEF Next, Serve, ResolveID, ResolveName, ResolveChild, WalkRoot, Enter, LookUp, Link, Answer,
       Interfere, Answered, vars, graphVars, Fail, AddRoot, GraphStages, Rest
<1>5. changes' <= MaxChanges
  <2>1. changes \in Nat /\ changes <= MaxChanges /\ MaxChanges \in Nat
    BY GraphAssumption DEF Rest, Sound, Shape
  <2>2. Interfere => changes < MaxChanges /\ changes' = changes + 1
    BY DEF Interfere
  <2> QED
    BY <2>1, <2>2, Stays
<1> QED
  BY <1>1, <1>2, <1>3, <1>4, <1>5 DEF Rest

\* so it always holds.
LEMMA RestHolds == Spec => []Rest
BY InitRest, NextRest, SoundHolds, PTL DEF Spec

\* Everything is of its type in every state, with every history of commits.
THEOREM GraphTypeOK == Spec => []TypeOK
BY SoundHolds, RestHolds, RequestTyped, PTL

-----------------------------------------------------------------------------
(***************************************************************************)
(* The active calls as a set.                                              *)
(***************************************************************************)

\* The dependencies a call has not linked yet.
Pending(f) == f.look \cup Range(f.found)

\* Some call that is past its look-up is going to link commit c to d.
Handled(c, d) == \E f \in Range(stack) : ~f.fresh /\ f.id = c /\ d \in Pending(f)

\* What is on a stack after a push,
LEMMA RangePush ==
    ASSUME NEW S, NEW s \in Seq(S), NEW x
    PROVE  Range(<<x>> \o s) = {x} \cup Range(s)
<1> DEFINE u == <<x>>
           T == S \cup {x}
<1>1. u \in Seq(T) /\ s \in Seq(T)
  BY SeqWider
<1>2. Range(u) = {x}
  BY DEF Range
<1> HIDE DEF u, T
<1>3. Range(u \o s) = Range(u) \cup Range(s)
  BY <1>1, RangeConcatenation
<1> QED
  BY <1>2, <1>3 DEF u

\* and what comes off it with its top.
LEMMA RangeHeadTail ==
    ASSUME NEW S, NEW s \in Seq(S), s # <<>>
    PROVE  Range(s) = {Head(s)} \cup Range(Tail(s))
<1>1. Tail(s) \in Seq(S) /\ s = <<Head(s)>> \o Tail(s)
  BY HeadTailProperties, ConcatProperties
<1> QED
  BY <1>1, RangePush

\* The call on top goes on as f, or returns: the other calls are as they were.
LEMMA CallsMove ==
    ASSUME Sound, stack # <<>>, NEW f, NEW t,
           t = IF Returning(f) THEN Tail(stack) ELSE <<f>> \o Tail(stack)
    PROVE  /\ Range(stack) = {Top} \cup Range(Tail(stack))
           /\ Range(t) = (IF Returning(f) THEN {} ELSE {f}) \cup Range(Tail(stack))
           /\ \E S : t \in Seq(S)
<1>1. stack \in Seq(FrameLike) /\ Tail(stack) \in Seq(FrameLike)
  BY HeadTailProperties DEF Sound, Shape, StackOK
<1>2. Range(stack) = {Top} \cup Range(Tail(stack))
  BY <1>1, RangeHeadTail DEF Top
<1>3. Range(<<f>> \o Tail(stack)) = {f} \cup Range(Tail(stack))
  BY <1>1, RangePush
<1>4. Tail(stack) \in Seq(FrameLike \cup {f}) /\ <<f>> \in Seq(FrameLike \cup {f})
  BY <1>1, SeqWider
<1>5. <<f>> \o Tail(stack) \in Seq(FrameLike \cup {f})
  BY <1>4, ConcatProperties
<1> QED
  BY <1>2, <1>3, <1>4, <1>5

\* The active calls have the form of calls, and something left to do.
LEMMA CallsLike ==
    ASSUME Sound, NEW g \in Range(stack)
    PROVE  g \in FrameLike /\ ~Returning(g)
<1>1. PICK i \in DOMAIN stack : g = stack[i]
  BY DEF Range
<1>2. stack \in Seq(FrameLike) /\ ~Returning(stack[i])
  BY DEF Sound, Shape, StackOK
<1>3. i \in 1 .. Len(stack)
  BY <1>2
<1> QED
  BY <1>1, <1>2, <1>3, ElementOfSeq

\* A call that returns has nothing left to do.
LEMMA ReturningHasNothing ==
    ASSUME NEW f, Returning(f)
    PROVE  Pending(f) = {}
BY DEF Returning, Pending, Range

\* What the steps of the walk do to the calls.
LEMMA EnterCalls ==
    ASSUME Sound, Enter, ~Fail
    PROVE  \E f : /\ f.id = Top.id /\ ~f.fresh
                  /\ Pending(f) = Deps(Top.id) \cup Range(Top.found)
                  /\ Range(stack) = {Top} \cup Range(Tail(stack))
                  /\ Range(stack') = (IF Returning(f) THEN {} ELSE {f}) \cup Range(Tail(stack))
                  /\ Top.fresh /\ Top \in FrameLike
<1> DEFINE f == [Top EXCEPT !.fresh = FALSE, !.look = Deps(Top.id)]
<1>1. stack # <<>> /\ Continue(f) /\ Top.fresh
  BY DEF Enter
<1>2. Top \in FrameLike
  BY <1>1, PopOK DEF Sound, Shape, Top
<1>3. f.id = Top.id /\ ~f.fresh /\ f.look = Deps(Top.id) /\ f.found = Top.found
  BY <1>2 DEF FrameLike
<1> HIDE DEF f
<1>4. /\ Range(stack) = {Top} \cup Range(Tail(stack))
      /\ Range(stack') = (IF Returning(f) THEN {} ELSE {f}) \cup Range(Tail(stack))
  BY <1>1, CallsMove DEF Continue
<1> QED
  BY <1>1, <1>2, <1>3, <1>4 DEF Pending

\* A lookup changes the call on top, which may return then: what it still
\* has to handle stays, if nothing was deleted.
LEMMA LookUpCalls ==
    ASSUME Sound, LookUp
    PROVE  \E f : /\ f.id = Top.id /\ ~f.fresh
                  /\ Pending(f) \subseteq Pending(Top) /\ (gone = {} => Pending(f) = Pending(Top))
                  /\ Range(stack) = {Top} \cup Range(Tail(stack))
                  /\ Range(stack') = (IF Returning(f) THEN {} ELSE {f}) \cup Range(Tail(stack))
                  /\ ~Top.fresh /\ Top \in FrameLike
<1>1. stack # <<>> /\ ~Top.fresh
  BY DEF LookUp
<1>2. Top \in FrameLike
  BY <1>1, PopOK DEF Sound, Shape, Top
<1>3. PICK d \in Top.look :
          Continue(IF ModOf(d) \in modules
                   THEN [[Top EXCEPT !.look = @ \ {d}] EXCEPT !.found = Append(@, d)]
                   ELSE [Top EXCEPT !.look = @ \ {d}])
  BY DEF LookUp
<1>4. d \in DOMAIN commits
  BY <1>2 DEF FrameLike
<1> DEFINE f == IF ModOf(d) \in modules
                THEN [[Top EXCEPT !.look = @ \ {d}] EXCEPT !.found = Append(@, d)]
                ELSE [Top EXCEPT !.look = @ \ {d}]
<1>5. /\ f.id = Top.id /\ ~f.fresh /\ f.look = Top.look \ {d}
      /\ f.found = IF ModOf(d) \in modules THEN Append(Top.found, d) ELSE Top.found
  BY <1>1, <1>2 DEF FrameLike
<1>6. Continue(f)
  BY <1>3
<1> HIDE DEF f
<1>7. Range(Append(Top.found, d)) = Range(Top.found) \cup {d}
  <2>1. Top.found \in Seq(DOMAIN commits)
    BY <1>2 DEF FrameLike
  <2>2. /\ DOMAIN Append(Top.found, d) = DOMAIN Top.found \cup {Len(Top.found) + 1}
        /\ \A i \in DOMAIN Top.found : Append(Top.found, d)[i] = Top.found[i]
        /\ Append(Top.found, d)[Len(Top.found) + 1] = d
    BY <1>4, <2>1
  <2> QED
    BY <2>2 DEF Range
<1>8. Pending(f) \subseteq Pending(Top)
  BY <1>5, <1>7 DEF Pending
<1>9. ASSUME gone = {} PROVE Pending(f) = Pending(Top)
  <2>1. ModOf(d) \in modules
    BY <1>4, <1>9 DEF Sound, AllThere
  <2> QED
    BY <1>5, <1>7, <2>1 DEF Pending
<1>10. /\ Range(stack) = {Top} \cup Range(Tail(stack))
       /\ Range(stack') = (IF Returning(f) THEN {} ELSE {f}) \cup Range(Tail(stack))
  BY <1>1, <1>6, CallsMove DEF Continue
<1> QED
  BY <1>1, <1>2, <1>5, <1>8, <1>9, <1>10

\* Linking a dependency takes it off what the call on top has to handle,
\* and may start a call for it.
LEMMA LinkCalls ==
    ASSUME Sound, Link, NEW d, d = Head(Top.found)
    PROVE  \E f :
               /\ f.id = Top.id /\ ~f.fresh /\ Pending(Top) = Pending(f) \cup {d}
               /\ Range(stack) = {Top} \cup Range(Tail(stack))
               /\ Range(stack') = (IF ModOf(d) \in DOMAIN seen THEN {} ELSE {NewFrame(d)})
                                  \cup (IF Returning(f) THEN {} ELSE {f}) \cup Range(Tail(stack))
<1> DEFINE f == [Top EXCEPT !.found = Tail(@)]
           t == IF Returning(f) THEN Tail(stack) ELSE <<f>> \o Tail(stack)
<1>1. LinkNew(d, f) \/ LinkNewer(d, f) \/ LinkKnown(d, f)
  BY DEF Link
<1>2. /\ stack # <<>> /\ Top \in FrameLike /\ ~Top.fresh /\ Top.look = {}
      /\ Top.found # <<>> /\ Top.found \in Seq(DOMAIN commits)
  BY LinkIs DEF FrameLike
<1>3. f.id = Top.id /\ ~f.fresh /\ f.look = {} /\ f.found = Tail(Top.found)
  BY <1>2 DEF FrameLike
<1>4. Range(Top.found) = {d} \cup Range(Tail(Top.found))
  BY <1>2, RangeHeadTail
<1>5. Pending(Top) = Pending(f) \cup {d}
  BY <1>2, <1>3, <1>4 DEF Pending
<1> HIDE DEF f
<1>6. PICK S : t \in Seq(S)
  BY <1>2, CallsMove
<1>7. /\ Range(stack) = {Top} \cup Range(Tail(stack))
      /\ Range(t) = (IF Returning(f) THEN {} ELSE {f}) \cup Range(Tail(stack))
  BY <1>2, CallsMove
<1>8. CASE ModOf(d) \in DOMAIN seen
  <2>1. stack' = t
    BY <1>1, <1>8 DEF LinkNew, LinkNewer, LinkKnown, Continue
  <2> QED
    BY <1>3, <1>5, <1>7, <1>8, <2>1
<1>9. CASE ModOf(d) \notin DOMAIN seen
  <2>1. stack' = <<NewFrame(d)>> \o t
    BY <1>1, <1>9 DEF LinkNew, LinkNewer, LinkKnown
  <2> HIDE DEF t
  <2>2. Range(stack') = {NewFrame(d)} \cup Range(t)
    BY <1>6, <2>1, RangePush
  <2> QED
    BY <1>3, <1>5, <1>7, <1>9, <2>2
<1> QED
  BY <1>8, <1>9

-----------------------------------------------------------------------------
(***************************************************************************)
(* Newer versions win.                                                     *)
(***************************************************************************)

\* Roots are walked once all of them are known, and the answer is given when
\* all were walked from.
Phases ==
    /\ stage \in {"resolve", "named"} => next = 1
    /\ stage = "done" => stack = <<>> /\ next > Len(asked)

\* A version of d's module was taken that is as new as d.
Settled(d) == ModOf(d) \in DOMAIN seen /\ d <= seen[ModOf(d)]

\* A call links dependencies of its own commit.
CallsMeant == \A f \in Range(stack) : Pending(f) \subseteq Deps(f.id)

\* An edge stands for a dependency that is no newer than its end.
EdgesMeant == \A e \in edges : \E d \in Deps(e[1]) : ModOf(d) = ModOf(e[2]) /\ d <= e[2]

\* As long as nothing was left out, each dependency of a call is settled or
\* will be, and so is each one of a commit that an edge starts from.
CallsSettle ==
    \A f \in Range(stack) : ~f.fresh => \A d \in Deps(f.id) : d \in Pending(f) \/ Settled(d)
EdgesSettle ==
    \A e \in edges : \A d \in Deps(e[1]) : Settled(d) \/ Handled(e[1], d)

\* What is linked now, and what the active calls are still going to link.
Winning ==
    /\ Phases /\ CallsMeant /\ EdgesMeant
    /\ gone = {} => CallsSettle /\ EdgesSettle

\* Nothing is called or linked at the start.
LEMMA InitWinning == Init => Winning
<1> SUFFICES ASSUME Init PROVE Winning
  OBVIOUS
<1>1. Range(stack) = {} /\ edges = {} /\ next = 1 /\ stage = "resolve"
  BY DEF Init, Range
<1> QED
  BY <1>1 DEF Winning, Phases, CallsMeant, EdgesMeant, CallsSettle, EdgesSettle

\* Steps keep to the order of the phases.
LEMMA PhasesKept ==
    ASSUME Sound, Phases, [Next]_vars
    PROVE  Phases'
<1>1. CASE Answer
  BY <1>1 DEF Answer, Phases, walkVars
<1>2. CASE Interfere \/ Answered \/ UNCHANGED vars
  BY <1>2 DEF Interfere, Answered, vars, graphVars, walkVars, Phases
<1>3. CASE Serve /\ ~Answer
  <2>1. stage' # "done"
    BY <1>3 DEF Serve, ResolveID, ResolveName, ResolveChild, WalkRoot, Enter, LookUp, Link,
         Fail, AddRoot
  <2>2. stage' \in {"resolve", "named"} => stage \in {"resolve", "named"} /\ next' = next
    BY <1>3 DEF Serve, ResolveID, ResolveName, ResolveChild, WalkRoot, Enter, LookUp, Link, Fail,
         AddRoot, walkVars
  <2> QED
    BY <2>1, <2>2 DEF Phases
<1> QED
  BY <1>1, <1>2, <1>3 DEF Next

\* Steps that touch neither calls nor tables.
LEMMA SameWinning ==
    ASSUME Winning, Phases', gone' = {} => gone = {},
           UNCHANGED <<commits, edges, seen, stack>>
    PROVE  Winning'
BY DEF Winning, CallsMeant, EdgesMeant, CallsSettle, EdgesSettle, Settled, Handled, Pending,
   ModOf, Deps

\* The end of such a step and those that follow: a call goes on as f, which has
\* the same or all dependencies to do.
LEMMA CallWinning ==
    ASSUME Winning, Phases', UNCHANGED <<commits, edges, seen, gone>>,
           NEW t, NEW f, NEW others,
           Range(stack) = {t} \cup others,
           Range(stack') = (IF Returning(f) THEN {} ELSE {f}) \cup others,
           f.id = t.id, ~f.fresh, Pending(f) \subseteq Deps(f.id),
           gone = {} => Pending(f) = Deps(f.id) \/ (~t.fresh /\ Pending(f) = Pending(t))
    PROVE  Winning'
<1>1. /\ \A c : ModOf(c)' = ModOf(c) /\ Deps(c)' = Deps(c) /\ (Settled(c)' <=> Settled(c))
  BY DEF ModOf, Deps, Settled
<1>2. CallsMeant'
  BY <1>1 DEF Winning, CallsMeant
<1>3. EdgesMeant'
  BY <1>1 DEF Winning, EdgesMeant
<1>4. ASSUME gone = {} PROVE CallsSettle'
  <2> SUFFICES ASSUME NEW g \in Range(stack'), ~g.fresh, NEW d \in Deps(g.id)
               PROVE  d \in Pending(g) \/ Settled(d)
    BY <1>1 DEF CallsSettle
  <2>1. CASE g \in others
    BY <1>4, <2>1 DEF Winning, CallsSettle
  <2>2. CASE g = f
    <3>1. CASE ~t.fresh /\ Pending(f) = Pending(t)
      BY <1>4, <2>2, <3>1 DEF Winning, CallsSettle
    <3> QED
      BY <1>4, <2>2, <3>1
  <2> QED
    BY <2>1, <2>2
<1>5. ASSUME gone = {} PROVE EdgesSettle'
  <2> SUFFICES ASSUME NEW e \in edges, NEW d \in Deps(e[1])
               PROVE  Settled(d) \/ Handled(e[1], d)'
    BY <1>1 DEF EdgesSettle
  <2>1. Settled(d) \/ Handled(e[1], d)
    BY <1>5 DEF Winning, EdgesSettle
  <2>2. CASE Handled(e[1], d)
    <3>1. PICK g \in Range(stack) : ~g.fresh /\ g.id = e[1] /\ d \in Pending(g)
      BY <2>2 DEF Handled
    <3>2. CASE g \in others
      BY <3>1, <3>2 DEF Handled
    <3>3. CASE g = t
      <4>1. d \in Pending(f) /\ f.id = e[1]
        BY <1>5, <3>1, <3>3
      <4>2. ~Returning(f)
        BY <4>1, ReturningHasNothing
      <4> QED
        BY <4>1, <4>2 DEF Handled
    <3> QED
      BY <3>1, <3>2, <3>3
  <2> QED
    BY <2>1, <2>2
<1> QED
  BY <1>2, <1>3, <1>4, <1>5 DEF Winning

\* A call that begins has all its dependencies before it,
LEMMA EnterWinning ==
    ASSUME Sound, Winning, Phases', Enter, ~Fail
    PROVE  Winning'
<1>1. UNCHANGED <<commits, edges, seen, gone>>
  BY DEF Enter, storageVars, metaVars
<1>2. PICK f : /\ f.id = Top.id /\ ~f.fresh
               /\ Pending(f) = Deps(Top.id) \cup Range(Top.found)
               /\ Range(stack) = {Top} \cup Range(Tail(stack))
               /\ Range(stack') = (IF Returning(f) THEN {} ELSE {f}) \cup Range(Tail(stack))
  BY EnterCalls
<1>3. Range(Top.found) \subseteq Deps(Top.id)
  BY <1>2 DEF Winning, CallsMeant, Pending
<1> QED
  BY <1>1, <1>2, <1>3, CallWinning

\* a lookup lays none of them aside,
LEMMA LookUpWinning ==
    ASSUME Sound, Winning, Phases', LookUp
    PROVE  Winning'
<1>1. UNCHANGED <<commits, edges, seen, gone>>
  BY DEF LookUp, storageVars, metaVars
<1>2. PICK f : /\ f.id = Top.id /\ ~f.fresh
               /\ Pending(f) \subseteq Pending(Top) /\ (gone = {} => Pending(f) = Pending(Top))
               /\ Range(stack) = {Top} \cup Range(Tail(stack))
               /\ Range(stack') = (IF Returning(f) THEN {} ELSE {f}) \cup Range(Tail(stack))
               /\ ~Top.fresh
  BY LookUpCalls
<1>3. Pending(Top) \subseteq Deps(Top.id)
  BY <1>2 DEF Winning, CallsMeant
<1> QED
  BY <1>1, <1>2, <1>3, CallWinning

\* the root of a walk is settled by itself,
LEMMA RootWinning ==
    ASSUME Sound, Winning, Phases', WalkRoot
    PROVE  Winning'
<1>1. UNCHANGED <<commits, edges, seen, gone>> /\ stack = <<>>
      /\ stack' = <<NewFrame(nodes[next].id)>>
  BY DEF WalkRoot, storageVars, metaVars
<1>2. Range(stack) = {} /\ Range(stack') = {NewFrame(nodes[next].id)}
  BY <1>1 DEF Range
<1>3. \A c : Pending(NewFrame(c)) = {} /\ NewFrame(c).fresh
  BY DEF Pending, NewFrame, Range
<1>4. /\ \A c : ModOf(c)' = ModOf(c) /\ Deps(c)' = Deps(c) /\ (Settled(c)' <=> Settled(c))
  BY <1>1 DEF ModOf, Deps, Settled
<1>5. CallsMeant' /\ CallsSettle'
  BY <1>2, <1>3 DEF CallsMeant, CallsSettle
<1>6. EdgesMeant'
  BY <1>1, <1>4 DEF Winning, EdgesMeant
<1>7. ASSUME gone = {} PROVE EdgesSettle'
  BY <1>1, <1>2, <1>4, <1>7 DEF Winning, EdgesSettle, Handled
<1> QED
  BY <1>1, <1>5, <1>6, <1>7 DEF Winning

\* and a root that is only added leads to no call.
LEMMA AddRootWinning ==
    ASSUME Sound, Winning, Phases', stage \in {"resolve", "named"}, NEW c, AddRoot(c)
    PROVE  Winning'
<1>1. edges' = {} /\ Range(stack') = {}
  BY DEF AddRoot, Sound, Resolving, Range
<1> QED
  BY <1>1 DEF Winning, CallsMeant, EdgesMeant, CallsSettle, EdgesSettle

\* After a link the dependency is settled, what was settled still is, and
\* every edge that is not new leads where it led, or to a newer version.
LEMMA LinkTables ==
    ASSUME Sound, Rest, Link, NEW d, d = Head(Top.found)
    PROVE  /\ d \in DOMAIN commits /\ UNCHANGED <<commits, gone>>
           /\ Settled(d)'
           /\ \A c \in DOMAIN commits : Settled(c) => Settled(c)'
           /\ \A x \in edges' :
                  \/ x[1] = Top.id /\ ModOf(x[2]) = ModOf(d) /\ d <= x[2]
                  \/ \E e \in edges : x[1] = e[1] /\ ModOf(x[2]) = ModOf(e[2]) /\ e[2] <= x[2]
<1> DEFINE f == [Top EXCEPT !.found = Tail(@)]
<1>1. LinkNew(d, f) \/ LinkNewer(d, f) \/ LinkKnown(d, f)
  BY DEF Link
<1>2. d \in DOMAIN commits /\ Top.id \in DOMAIN commits /\ UNCHANGED <<commits, gone>>
  BY LinkIs DEF storageVars, metaVars
<1>3. DOMAIN commits \subseteq Nat /\ edges \subseteq (DOMAIN commits) \X (DOMAIN commits)
  BY DEF Rest, StorageTypeOK, CommitIDs
<1>4. \A m \in DOMAIN seen : seen[m] \in DOMAIN commits /\ ModOf(seen[m]) = m
  BY DEF Sound, SeenOK
<1>5. \A c : ModOf(c)' = ModOf(c)
  BY <1>2 DEF ModOf
<1> HIDE DEF f
<1>6. CASE LinkNew(d, f)
  <2>1. /\ ModOf(d) \in DOMAIN seen' /\ seen'[ModOf(d)] = d
        /\ \A m \in DOMAIN seen : m \in DOMAIN seen' /\ seen'[m] = seen[m]
        /\ edges' = edges \cup {<<Top.id, d>>}
    BY <1>6 DEF LinkNew, Bind
  <2>2. Settled(d)' /\ \A c \in DOMAIN commits : Settled(c) => Settled(c)'
    BY <1>2, <1>3, <1>5, <2>1 DEF Settled
  <2> QED
    BY <1>2, <1>3, <2>1, <2>2
<1>7. CASE LinkNewer(d, f)
  <2> DEFINE old == seen[ModOf(d)]
  <2>1. /\ ModOf(d) \in DOMAIN seen /\ d > old
        /\ DOMAIN seen' = DOMAIN seen /\ seen'[ModOf(d)] = d
        /\ \A m \in DOMAIN seen : m # ModOf(d) => seen'[m] = seen[m]
        /\ edges' = {<<e[1], IF e[2] = old THEN d ELSE e[2]>> : e \in edges} \cup {<<Top.id, d>>}
    BY <1>7 DEF LinkNewer, Replace
  <2>2. old \in Nat /\ d \in Nat /\ ModOf(old) = ModOf(d)
    BY <1>2, <1>3, <1>4, <2>1
  <2> HIDE DEF old
  <2>3. Settled(d)'
    BY <1>5, <2>1, <2>2 DEF Settled
  <2>4. ASSUME NEW c \in DOMAIN commits, Settled(c) PROVE Settled(c)'
    <3>1. CASE ModOf(c) = ModOf(d)
      BY <1>3, <1>5, <2>1, <2>2, <2>4, <3>1 DEF Settled, old
    <3>2. CASE ModOf(c) # ModOf(d)
      BY <1>5, <2>1, <2>4, <3>2 DEF Settled
    <3> QED
      BY <3>1, <3>2
  <2>5. ASSUME NEW e \in edges, NEW x, x = <<e[1], IF e[2] = old THEN d ELSE e[2]>>
        PROVE  x[1] = e[1] /\ ModOf(x[2]) = ModOf(e[2]) /\ e[2] <= x[2]
    BY <1>3, <2>1, <2>2, <2>5
  <2>6. ASSUME NEW x \in edges'
        PROVE  \/ x[1] = Top.id /\ ModOf(x[2]) = ModOf(d) /\ d <= x[2]
               \/ \E e \in edges : x[1] = e[1] /\ ModOf(x[2]) = ModOf(e[2]) /\ e[2] <= x[2]
    BY <2>1, <2>2, <2>5
  <2> QED
    BY <1>2, <2>3, <2>4, <2>6
<1>8. CASE LinkKnown(d, f)
  <2>1. /\ ModOf(d) \in DOMAIN seen /\ d <= seen[ModOf(d)] /\ seen' = seen
        /\ edges' = edges \cup {<<Top.id, seen[ModOf(d)]>>}
    BY <1>8 DEF LinkKnown
  <2>2. Settled(d)' /\ \A c \in DOMAIN commits : Settled(c) => Settled(c)'
    BY <1>5, <2>1 DEF Settled
  <2> QED
    BY <1>2, <1>3, <1>4, <2>1, <2>2
<1> QED
  BY <1>1, <1>6, <1>7, <1>8

\* So a link keeps the invariant, whatever it replaces.
LEMMA LinkWinning ==
    ASSUME Sound, Rest, Winning, Phases', Link
    PROVE  Winning'
<1> PICK d : d = Head(Top.found)
  OBVIOUS
<1>1. /\ d \in DOMAIN commits /\ UNCHANGED <<commits, gone>>
      /\ Settled(d)'
      /\ \A c \in DOMAIN commits : Settled(c) => Settled(c)'
      /\ \A x \in edges' :
             \/ x[1] = Top.id /\ ModOf(x[2]) = ModOf(d) /\ d <= x[2]
             \/ \E e \in edges : x[1] = e[1] /\ ModOf(x[2]) = ModOf(e[2]) /\ e[2] <= x[2]
  BY LinkTables
<1>2. PICK f :
          /\ f.id = Top.id /\ ~f.fresh /\ Pending(Top) = Pending(f) \cup {d}
          /\ Range(stack) = {Top} \cup Range(Tail(stack))
          /\ Range(stack') = (IF ModOf(d) \in DOMAIN seen THEN {} ELSE {NewFrame(d)})
                             \cup (IF Returning(f) THEN {} ELSE {f}) \cup Range(Tail(stack))
  BY LinkCalls
<1>3. ~Top.fresh /\ Top.id \in DOMAIN commits
  BY LinkIs
<1>4. \A c : ModOf(c)' = ModOf(c) /\ Deps(c)' = Deps(c)
  BY <1>1 DEF ModOf, Deps
<1>5. \A c \in DOMAIN commits : Deps(c) \subseteq DOMAIN commits
  BY DEF Sound, Shape
<1>6. DOMAIN commits \subseteq Nat /\ edges \subseteq (DOMAIN commits) \X (DOMAIN commits)
      /\ edges' \subseteq (DOMAIN commits) \X (DOMAIN commits)
  BY <1>1, LinkEdges DEF Rest, StorageTypeOK, CommitIDs
<1>7. \A g \in Range(stack) : g.id \in DOMAIN commits
  BY CallsLike DEF FrameLike
<1>8. Pending(NewFrame(d)) = {} /\ NewFrame(d).fresh
  BY DEF Pending, NewFrame, Range
<1>9. Pending(f) \subseteq Deps(f.id) /\ d \in Deps(f.id)
  BY <1>2 DEF Winning, CallsMeant
<1>10. CallsMeant'
  BY <1>2, <1>4, <1>8, <1>9 DEF Winning, CallsMeant
<1>11. EdgesMeant'
  <2> SUFFICES ASSUME NEW x \in edges'
               PROVE  \E c \in Deps(x[1]) : ModOf(c) = ModOf(x[2]) /\ c <= x[2]
    BY <1>4 DEF EdgesMeant
  <2>1. CASE x[1] = Top.id /\ ModOf(x[2]) = ModOf(d) /\ d <= x[2]
    BY <1>2, <1>9, <2>1
  <2>2. ASSUME NEW e \in edges, x[1] = e[1], ModOf(x[2]) = ModOf(e[2]), e[2] <= x[2]
        PROVE  \E c \in Deps(x[1]) : ModOf(c) = ModOf(x[2]) /\ c <= x[2]
    <3>1. PICK c \in Deps(e[1]) : ModOf(c) = ModOf(e[2]) /\ c <= e[2]
      BY DEF Winning, EdgesMeant
    <3>2. c \in Nat /\ e[2] \in Nat /\ x[2] \in Nat
      BY <1>5, <1>6
    <3> QED
      BY <2>2, <3>1, <3>2
  <2> QED
    BY <1>1, <2>1, <2>2
<1>12. ASSUME gone = {} PROVE CallsSettle'
  <2> SUFFICES ASSUME NEW g \in Range(stack'), ~g.fresh, NEW c \in Deps(g.id)
               PROVE  c \in Pending(g) \/ Settled(c)'
    BY <1>4 DEF CallsSettle
  <2>1. CASE g = f
    <3>1. c \in Pending(Top) \/ Settled(c)
      BY <1>2, <1>3, <1>12, <2>1 DEF Winning, CallsSettle
    <3>2. c \in DOMAIN commits
      BY <1>2, <1>3, <1>5, <2>1
    <3> QED
      BY <1>1, <1>2, <2>1, <3>1, <3>2
  <2>2. CASE g \in Range(Tail(stack))
    <3>1. c \in Pending(g) \/ Settled(c)
      BY <1>2, <1>12, <2>2 DEF Winning, CallsSettle
    <3>2. c \in DOMAIN commits
      BY <1>2, <1>5, <1>7, <2>2
    <3> QED
      BY <1>1, <3>1, <3>2
  <2> QED
    BY <1>2, <1>8, <2>1, <2>2
<1>13. ASSUME gone = {}, NEW c, NEW p, Handled(p, c), c \in DOMAIN commits
       PROVE  Settled(c)' \/ Handled(p, c)'
  <2>1. PICK g \in Range(stack) : ~g.fresh /\ g.id = p /\ c \in Pending(g)
    BY <1>13 DEF Handled
  <2>2. CASE g \in Range(Tail(stack))
    BY <1>2, <2>1, <2>2 DEF Handled
  <2>3. CASE g = Top /\ c # d
    <3>1. c \in Pending(f) /\ f.id = p
      BY <1>2, <2>1, <2>3
    <3>2. f \in Range(stack')
      BY <1>2, <3>1, ReturningHasNothing
    <3> QED
      BY <1>2, <3>1, <3>2 DEF Handled
  <2> QED
    BY <1>1, <1>2, <2>1, <2>2, <2>3
<1>14. ASSUME gone = {} PROVE EdgesSettle'
  <2> SUFFICES ASSUME NEW x \in edges', NEW c \in Deps(x[1])
               PROVE  Settled(c)' \/ Handled(x[1], c)'
    BY <1>4 DEF EdgesSettle
  <2>1. c \in DOMAIN commits
    BY <1>5, <1>6
  <2>2. CASE x[1] = Top.id
    <3>1. c \in Pending(Top) \/ Settled(c)
      BY <1>2, <1>3, <1>14, <2>2 DEF Winning, CallsSettle
    <3>2. CASE c \in Pending(Top)
      <4>1. Handled(x[1], c)
        BY <1>2, <1>3, <2>2, <3>2 DEF Handled
      <4> QED
        BY <1>13, <1>14, <2>1, <4>1
    <3> QED
      BY <1>1, <2>1, <3>1, <3>2
  <2>3. CASE \E e \in edges : x[1] = e[1]
    <3>1. Settled(c) \/ Handled(x[1], c)
      BY <1>14, <2>3 DEF Winning, EdgesSettle
    <3> QED
      BY <1>1, <1>13, <1>14, <2>1, <3>1
  <2> QED
    BY <1>1, <2>2, <2>3
<1> QED
  BY <1>1, <1>10, <1>11, <1>12, <1>14 DEF Winning

\* All steps together.
LEMMA NextWinning ==
    ASSUME Sound, Rest, Winning, [Next]_vars
    PROVE  Winning'
<1>1. Phases'
  BY PhasesKept DEF Winning
<1>2. CASE Fail \/ ResolveName
  BY <1>1, <1>2, SameWinning DEF Fail, ResolveName, storageVars, metaVars, walkVars
<1>3. CASE (ResolveID \/ ResolveChild) /\ ~Fail
  <2>1. \E c : AddRoot(c)
    BY <1>3 DEF ResolveID, ResolveChild
  <2> QED
    BY <1>1, <1>3, <2>1, AddRootWinning DEF ResolveID, ResolveChild
<1>4. CASE WalkRoot
  BY <1>1, <1>4, RootWinning
<1>5. CASE Enter /\ ~Fail
  BY <1>1, <1>5, EnterWinning
<1>6. CASE LookUp
  BY <1>1, <1>6, LookUpWinning
<1>7. CASE Link
  BY <1>1, <1>7, LinkWinning
<1>8. CASE Answer \/ Answered \/ UNCHANGED vars
  BY <1>1, <1>8, SameWinning DEF Answer, Answered, vars, storageVars, metaVars, graphVars, walkVars
<1>9. CASE Interfere
  <2>1. UNCHANGED <<commits, edges, seen, stack>>
    BY <1>9 DEF Interfere, walkVars, DeleteModule, CreateModule, CreateOrUpdateLabel
  <2>2. gone \subseteq gone'
    BY <1>9 DEF Interfere
  <2> QED
    BY <1>1, <2>1, <2>2, SameWinning
<1> QED
  BY <1>2, <1>3, <1>4, <1>5, <1>6, <1>7, <1>8, <1>9 DEF Next, Serve

\* So it always holds.
LEMMA WinningHolds == Spec => []Winning
BY InitWinning, NextWinning, SoundHolds, RestHolds, PTL DEF Spec

\* Edges are to versions no older than a dependency they stand for, and once
\* the answer is out, with nothing deleted meanwhile, than any of them.
THEOREM NewerAlwaysWins == Spec => []NewerWins
<1>1. Sound /\ Winning => NewerWins
  <2> SUFFICES ASSUME Sound, Winning, stage = "done", gone = {},
                      NEW e \in edges, NEW d \in Deps(e[1]), ModOf(d) = ModOf(e[2])
               PROVE  d <= e[2]
    BY DEF NewerWins, Winning, EdgesMeant
  <2>1. ~Handled(e[1], d)
    BY DEF Winning, Phases, Handled, Range
  <2>2. Settled(d)
    BY <2>1 DEF Winning, EdgesSettle
  <2>3. seen[ModOf(e[2])] = e[2]
    BY DEF Sound, EdgesResolve
  <2> QED
    BY <2>2, <2>3 DEF Settled
<1> QED
  BY <1>1, SoundHolds, WinningHolds, PTL

-----------------------------------------------------------------------------
(***************************************************************************)
(* References are resolved in the order of the request.                    *)
(***************************************************************************)

\* What is left of the request follows on the nodes that were added.
InTurn ==
    /\ stage \in {"resolve", "named"} => \A j \in DOMAIN refs : refs[j] = asked[Len(nodes) + j]
    /\ stage = "named" => Head(refs).kind # "id"

\* The reference that is resolved next is the one that was asked next.
LEMMA RefsAre ==
    ASSUME Sound, InTurn, stage \in {"resolve", "named"}
    PROVE  /\ Head(refs) = asked[Len(nodes) + 1] /\ Head(refs) \in Ref
           /\ Len(nodes) + 1 \in DOMAIN asked /\ Len(nodes) \in Nat
<1>1. /\ refs \in Seq(Ref) /\ refs # <<>> /\ asked \in Seq(Ref) /\ nodes \in Seq(NodeLike)
      /\ Len(nodes) + Len(refs) = Len(asked)
  BY DEF Sound, Resolving, Shape
<1>2. Len(refs) \in Nat \ {0} /\ Len(nodes) \in Nat /\ DOMAIN asked = 1 .. Len(asked)
      /\ DOMAIN refs = 1 .. Len(refs)
  BY <1>1, EmptySeq
<1>3. Head(refs) = refs[1] /\ 1 \in DOMAIN refs
  BY <1>1, <1>2
<1>4. Head(refs) \in Ref
  BY <1>1, HeadTailProperties
<1> QED
  BY <1>1, <1>2, <1>3, <1>4 DEF InTurn

\* None is resolved at the start.
LEMMA InitInTurn == Init => InTurn
<1> SUFFICES ASSUME Init PROVE InTurn
  OBVIOUS
<1>1. refs = asked /\ nodes = <<>> /\ stage = "resolve" /\ asked \in Seq(Ref)
  BY GraphAssumption DEF Init
<1>2. \A j \in DOMAIN refs : Len(nodes) + j = j
  BY <1>1
<1> QED
  BY <1>1, <1>2 DEF InTurn

\* They are resolved one by one.
LEMMA NextInTurn ==
    ASSUME Sound, InTurn, [Next]_vars
    PROVE  InTurn'
<1>1. CASE (ResolveID \/ ResolveChild) /\ ~Fail
  <2>1. PICK c : AddRoot(c)
    BY <1>1 DEF ResolveID, ResolveChild
  <2>2. stage \in {"resolve", "named"}
    BY <1>1 DEF ResolveID, ResolveChild
  <2>3. refs' = Tail(refs) /\ nodes' = Append(nodes, NodeOf(c)) /\ asked' = asked
        /\ stage' # "named"
    BY <2>1 DEF AddRoot
  <2>4. /\ refs \in Seq(Ref) /\ refs # <<>> /\ asked \in Seq(Ref) /\ nodes \in Seq(NodeLike)
    BY <2>2 DEF Sound, Resolving, Shape
  <2>5. Len(nodes') = Len(nodes) + 1 /\ Len(nodes) \in Nat
    <3>1. nodes \in Seq(NodeLike \cup {NodeOf(c)}) /\ NodeOf(c) \in NodeLike \cup {NodeOf(c)}
      BY <2>4, SeqWider
    <3> QED
      BY <2>3, <3>1, AppendProperties
  <2>6. ASSUME NEW j \in DOMAIN refs' PROVE refs'[j] = asked'[Len(nodes') + j]
    <3>1. Len(refs) \in Nat /\ j \in 1 .. Len(refs) - 1 /\ refs'[j] = refs[j + 1]
      BY <2>3, <2>4
    <3>2. j + 1 \in DOMAIN refs /\ j \in Nat
      BY <2>4, <3>1
    <3>3. Len(nodes') + j = Len(nodes) + (j + 1)
      BY <2>5, <3>2
    <3> QED
      BY <2>2, <2>3, <3>1, <3>2, <3>3 DEF InTurn
  <2> QED
    BY <2>3, <2>6 DEF InTurn
<1>2. CASE ResolveName /\ ~Fail
  BY <1>2 DEF ResolveName, InTurn, walkVars
<1>3. CASE Fail \/ WalkRoot \/ Enter \/ LookUp \/ Link \/ Answer
  <2>1. stage' \notin {"resolve", "named"}
    BY <1>3 DEF Fail, WalkRoot, Enter, LookUp, Link, Answer
  <2> QED
    BY <2>1 DEF InTurn
<1>4. CASE Interfere \/ Answered \/ UNCHANGED vars
  BY <1>4 DEF Interfere, Answered, vars, graphVars, walkVars, InTurn
<1> QED
  BY <1>1, <1>2, <1>3, <1>4 DEF Next, Serve

\* So it always holds.
LEMMA InTurnHolds == Spec => []InTurn
BY InitInTurn, NextInTurn, SoundHolds, PTL DEF Spec

\* What is resolved is the commit that the reference names.
LEMMA ResolvedIs ==
    ASSUME Sound, InTurn, ResolveID \/ ResolveChild, ~Fail
    PROVE  /\ stage \in {"resolve", "named"}
           /\ \E c \in DOMAIN commits : AddRoot(c) /\ c = CommitNamed(asked[Len(nodes) + 1])
<1>1. stage \in {"resolve", "named"}
  BY DEF ResolveID, ResolveChild
<1>2. Head(refs) = asked[Len(nodes) + 1] /\ Head(refs) \in Ref
  BY <1>1, RefsAre
<1>3. CASE ResolveID
  BY <1>1, <1>2, <1>3 DEF ResolveID, CommitNamed
<1>4. CASE ResolveChild
  <2> DEFINE ref == Head(refs)
             l == <<ref.mod, ref.label>>
             found == IF ref.kind = "ref" THEN {ref.id}
                      ELSE IF l \in DOMAIN labels THEN {labels[l]} ELSE {}
  <2>1. PICK c \in found \cap DOMAIN commits : AddRoot(c)
    BY <1>4 DEF ResolveChild
  <2>2. ref.kind \in {"ref", "label"}
    BY <1>2, <1>4 DEF ResolveChild, InTurn, Ref
  <2>3. c = CommitNamed(ref)
    BY <2>1, <2>2 DEF CommitNamed
  <2> QED
    BY <1>1, <1>2, <2>1, <2>3
<1> QED
  BY <1>3, <1>4

\* Before anybody deletes a module no look-up fails for what is there.
LEMMA ResolveWorks ==
    ASSUME Sound, Rest, InTurn, gone = {}, Exists(Head(refs)),
           ResolveID \/ ResolveName \/ ResolveChild
    PROVE  stage' # "error"
<1>1. stage \in {"resolve", "named"}
  BY DEF ResolveID, ResolveName, ResolveChild
<1>2. Head(refs) \in Ref
  BY <1>1, RefsAre
<1>3. \A c \in DOMAIN commits : ModOf(c) \in modules
  BY DEF Sound, AllThere
<1>4. CASE ResolveID
  <2>1. Head(refs).id \in DOMAIN commits
    BY <1>4 DEF ResolveID, Exists
  <2> QED
    BY <1>3, <1>4, <2>1 DEF ResolveID, AddRoot
<1>5. ASSUME Head(refs).kind # "id"
      PROVE  /\ Head(refs).mod \in modules
             /\ \/ Head(refs).kind = "ref" /\ Head(refs).id \in DOMAIN commits
                   /\ ModOf(Head(refs).id) = Head(refs).mod
                \/ /\ Head(refs).kind = "label"
                   /\ <<Head(refs).mod, Head(refs).label>> \in DOMAIN labels
                   /\ labels[<<Head(refs).mod, Head(refs).label>>] \in DOMAIN commits
                   /\ ModOf(labels[<<Head(refs).mod, Head(refs).label>>]) = Head(refs).mod
  BY <1>3, <1>5 DEF Exists, Rest, LabelsResolve, ModOf
<1>6. CASE ResolveName
  BY <1>5, <1>6 DEF ResolveName
<1>7. CASE ResolveChild
  <2>1. Head(refs).kind # "id"
    BY <1>7 DEF ResolveChild, InTurn
  <2> DEFINE ref == Head(refs)
             l == <<ref.mod, ref.label>>
             found == IF ref.kind = "ref" THEN {ref.id}
                      ELSE IF l \in DOMAIN labels THEN {labels[l]} ELSE {}
             good == {c \in found \cap DOMAIN commits : ModOf(c) = ref.mod}
  <2>2. good # {}
    BY <1>5, <2>1
  <2>3. PICK c : AddRoot(c)
    BY <1>7, <2>2 DEF ResolveChild
  <2> QED
    BY <2>3 DEF AddRoot
<1> QED
  BY <1>4, <1>6, <1>7

\* No step fails without a cause.
LEMMA NextNoErrors ==
    ASSUME Sound, Rest, InTurn, NoSpuriousErrors, [Next]_vars
    PROVE  NoSpuriousErrors'
<1> SUFFICES ASSUME gone' = {}, \A i \in DOMAIN asked : Exists(asked[i])', stage' = "error"
             PROVE  FALSE
  <2>1. asked' = asked
    BY Stays
  <2> QED
    BY <2>1 DEF NoSpuriousErrors
<1>1. UNCHANGED <<storageVars, gone, changes, asked>>
  <2>1. ~Interfere
    BY DEF Interfere
  <2> QED
    BY <2>1, Stays
<1>2. \A i \in DOMAIN asked : Exists(asked[i])
  BY <1>1 DEF storageVars, metaVars, Exists, ModOf
<1>3. stage # "error"
  BY <1>1, <1>2 DEF NoSpuriousErrors
<1>4. CASE ResolveID \/ ResolveName \/ ResolveChild
  <2>1. stage \in {"resolve", "named"}
    BY <1>4 DEF ResolveID, ResolveName, ResolveChild
  <2>2. Exists(Head(refs))
    BY <1>2, <2>1, RefsAre
  <2> QED
    BY <1>1, <1>4, <2>2, ResolveWorks
<1>5. CASE Enter
  <2>1. Top \in FrameLike
    BY <1>5, PopOK DEF Enter, Sound, Shape, Top
  <2>2. ModOf(Top.id) \in modules
    BY <1>1, <2>1 DEF FrameLike, Sound, AllThere
  <2> QED
    BY <1>3, <1>5, <2>2 DEF Enter
<1> QED
  BY <1>1, <1>3, <1>4, <1>5 DEF Next, Serve, WalkRoot, LookUp, Link, Answer, Interfere, Answered,
     vars, graphVars

\* If nobody deletes a module meanwhile, a request for what is there does not fail.
THEOREM NeverSpuriousErrors == Spec => []NoSpuriousErrors
<1>1. Init => NoSpuriousErrors
  BY DEF Init, NoSpuriousErrors
<1> QED
  BY <1>1, NextNoErrors, SoundHolds, RestHolds, InTurnHolds, PTL DEF Spec

-----------------------------------------------------------------------------
(***************************************************************************)
(* The whole graph.                                                        *)
(***************************************************************************)

\* What is named, with all it depends on.
LEMMA ReachIs ==
    ASSUME Sound, NEW S
    PROVE  /\ Reach(S) \subseteq DOMAIN commits /\ S \cap DOMAIN commits \subseteq Reach(S)
           /\ \A c \in Reach(S) : Deps(c) \subseteq Reach(S)
           /\ \A T \in SUBSET DOMAIN commits : S \subseteq T /\ Closed(T) => Reach(S) \subseteq T
<1>1. \A c \in DOMAIN commits : Deps(c) \subseteq DOMAIN commits
  BY DEF Sound, Shape
<1> QED
  BY <1>1 DEF Reach, Closed

\* A commit that is still to be walked into: a root, or the commit of a call
\* that has not begun.
Awaited(c) ==
    \/ \E i \in next .. Len(asked) : CommitNamed(asked[i]) = c
    \/ \E f \in Range(stack) : f.fresh /\ f.id = c

\* A commit each of whose dependencies has its edge, or gets it from a call.
Linked(c) == \A d \in Deps(c) : <<c, d>> \in edges \/ Handled(c, d)

\* How the graph grows when no two versions meet: its first nodes are the ones
\* named, it stays inside of what can be reached, its edges are dependencies,
\* and what a node lacks somebody is going to add.
Grown ==
    /\ \A i \in DOMAIN nodes : i <= Len(asked) => nodes[i].id = CommitNamed(asked[i])
    /\ NodeIds \subseteq Reach(AskedIds)
    /\ \A f \in Range(stack) : f.id \in NodeIds
    /\ \A e \in edges : e[1] \in NodeIds /\ e[2] \in NodeIds /\ e[2] \in Deps(e[1])
    /\ \A c \in NodeIds : Awaited(c) \/ Linked(c)

\* The inductive invariant of Complete.
Growing == changes = 0 /\ OneVersionEach(Reach(AskedIds)) => Grown

\* There are no nodes at the start.
LEMMA InitGrowing == Init => Growing
<1> SUFFICES ASSUME Init PROVE Grown
  BY DEF Growing
<1>1. nodes = <<>> /\ edges = {} /\ NodeIds = {} /\ Range(stack) = {}
  BY DEF Init, NodeIds, Range
<1> QED
  BY <1>1 DEF Grown

\* Nothing of the request changes but by what others do.
LEMMA SameRequest ==
    ASSUME UNCHANGED <<commits, labels, asked>>
    PROVE  /\ Reach(AskedIds)' = Reach(AskedIds)
           /\ OneVersionEach(Reach(AskedIds))' = OneVersionEach(Reach(AskedIds))
           /\ \A i : CommitNamed(asked[i])' = CommitNamed(asked[i])
           /\ \A c : ModOf(c)' = ModOf(c) /\ Deps(c)' = Deps(c)
<1>1. \A i : CommitNamed(asked[i])' = CommitNamed(asked[i])
  BY DEF CommitNamed
<1>2. AskedIds' = AskedIds
  BY <1>1 DEF AskedIds
<1>3. Reach(AskedIds)' = Reach(AskedIds)
  BY <1>2 DEF Reach, Closed, Deps
<1> QED
  BY <1>1, <1>3 DEF OneVersionEach, ModOf, Deps

\* What the graph has grown to depends on nothing else.
LEMMA SameGrown ==
    ASSUME Grown, UNCHANGED <<commits, labels, asked, nodes, edges, stack, next>>
    PROVE  Grown'
<1>1. \A c : (Awaited(c)' <=> Awaited(c)) /\ (Linked(c)' <=> Linked(c))
  BY SameRequest DEF Awaited, Linked, Handled, Pending
<1>2. NodeIds' = NodeIds
  BY DEF NodeIds
<1> QED
  BY <1>1, <1>2, SameRequest DEF Grown

\* A root: it is among those to be walked from.
LEMMA RootGrown ==
    ASSUME Sound, Phases, InTurn, Grown, ResolveID \/ ResolveChild, ~Fail
    PROVE  Grown'
<1> DEFINE n == Len(nodes)
<1>1. stage \in {"resolve", "named"}
  BY ResolvedIs
<1>2. PICK c \in DOMAIN commits : AddRoot(c) /\ c = CommitNamed(asked[n + 1])
  BY ResolvedIs
<1>3. n + 1 \in DOMAIN asked /\ n \in Nat /\ asked \in Seq(Ref)
  BY <1>1, RefsAre DEF Sound, Shape
<1>4. /\ nodes' = Append(nodes, NodeOf(c)) /\ NodeOf(c).id = c
      /\ UNCHANGED <<commits, labels, asked, edges, stack, next>>
  BY <1>2 DEF AddRoot, storageVars, metaVars, NodeOf
<1>5. edges = {} /\ Range(stack) = {} /\ next = 1
  BY <1>1 DEF Sound, Resolving, Phases, Range
<1>6. /\ DOMAIN nodes' = DOMAIN nodes \cup {n + 1} /\ DOMAIN nodes = 1 .. n
      /\ \A i \in DOMAIN nodes : nodes'[i] = nodes[i]
      /\ nodes'[n + 1] = NodeOf(c)
  <2>1. nodes \in Seq(NodeLike) /\ NodeOf(c) \in NodeLike
    BY <1>2, NodeOfIs DEF Sound, Shape
  <2> QED
    BY <1>4, <2>1
<1> HIDE DEF n
<1>7. \A i \in DOMAIN nodes' : i <= Len(asked) => nodes'[i].id = CommitNamed(asked[i])
  BY <1>2, <1>4, <1>6 DEF Grown
<1>8. \A i \in DOMAIN nodes' : i \in 1 .. Len(asked)
  BY <1>3, <1>6
<1>9. c \in Reach(AskedIds)
  <2>1. c \in AskedIds
    BY <1>2, <1>3 DEF AskedIds
  <2> QED
    BY <1>2, <2>1, ReachIs
<1>10. NodeIds' = NodeIds \cup {c}
  BY <1>4, <1>6 DEF NodeIds
<1>11. ASSUME NEW p \in NodeIds' PROVE Awaited(p)'
  <2>1. PICK i \in DOMAIN nodes' : nodes'[i].id = p
    BY DEF NodeIds
  <2>2. i \in 1 .. Len(asked) /\ CommitNamed(asked[i]) = p
    BY <1>7, <1>8, <2>1
  <2>3. CommitNamed(asked[i])' = p /\ i \in next' .. Len(asked')
    BY <1>4, <1>5, <2>2, SameRequest
  <2> QED
    BY <2>3 DEF Awaited
<1> QED
  BY <1>4, <1>5, <1>7, <1>9, <1>10, <1>11, SameRequest DEF Grown

\* What there is for the steps of the walk that leave nodes and edges alone.
LEMMA WalkGrown ==
    ASSUME Grown, UNCHANGED <<commits, labels, asked, nodes, edges>>,
           \A f \in Range(stack') : f.id \in NodeIds,
           \A c \in NodeIds : Awaited(c) => Awaited(c)' \/ Linked(c)',
           \A c \in NodeIds : \A d \in Deps(c) : Handled(c, d) => Handled(c, d)'
    PROVE  Grown'
<1>1. NodeIds' = NodeIds
  BY DEF NodeIds
<1>2. \A c : Deps(c)' = Deps(c)
  BY SameRequest
<1>3. ASSUME NEW c \in NodeIds PROVE Awaited(c)' \/ Linked(c)'
  BY <1>2, <1>3 DEF Grown, Linked
<1> QED
  BY <1>1, <1>2, <1>3, SameRequest DEF Grown

\* Walking a root begins a call for it,
LEMMA WalkRootGrown ==
    ASSUME Sound, Grown, WalkRoot
    PROVE  Grown'
<1> DEFINE c == nodes[next].id
<1>1. /\ UNCHANGED <<commits, labels, asked, nodes, edges>> /\ stack = <<>>
      /\ stack' = <<NewFrame(c)>> /\ next' = next + 1 /\ next <= Len(asked) /\ stage = "walk"
  BY DEF WalkRoot, storageVars, metaVars
<1>2. Range(stack) = {} /\ Range(stack') = {NewFrame(c)}
  BY <1>1 DEF Range
<1>3. next \in DOMAIN nodes /\ next \in Nat /\ Len(asked) \in Nat
  <2>1. /\ nodes \in Seq(NodeLike) /\ asked \in Seq(Ref) /\ next \in Nat \ {0}
        /\ Len(nodes) >= Len(asked)
    BY <1>1 DEF Sound, Shape, Resolving
  <2> QED
    BY <1>1, <2>1
<1>4. c \in NodeIds /\ c = CommitNamed(asked[next])
  BY <1>1, <1>3 DEF NodeIds, Grown
<1>5. NewFrame(c).id = c /\ NewFrame(c).fresh
  BY DEF NewFrame
<1>6. ASSUME NEW p \in NodeIds, Awaited(p) PROVE Awaited(p)'
  <2>1. PICK i \in next .. Len(asked) : CommitNamed(asked[i]) = p
    BY <1>2, <1>6 DEF Awaited
  <2>2. CASE i = next
    <3>1. \E f \in Range(stack') : f.fresh /\ f.id = p
      BY <1>2, <1>4, <1>5, <2>1, <2>2
    <3> QED
      BY <3>1 DEF Awaited
  <2>3. CASE i # next
    <3>1. i \in next' .. Len(asked') /\ CommitNamed(asked[i])' = p
      BY <1>1, <1>3, <2>1, <2>3, SameRequest
    <3> QED
      BY <3>1 DEF Awaited
  <2> QED
    BY <2>2, <2>3
<1>7. \A p, d : ~Handled(p, d)
  BY <1>2 DEF Handled
<1> HIDE DEF c
<1> QED
  BY <1>1, <1>2, <1>4, <1>5, <1>6, <1>7, WalkGrown

\* a call that begins takes in the dependencies of its commit,
LEMMA EnterGrown ==
    ASSUME Sound, Grown, Enter, ~Fail
    PROVE  Grown'
<1>1. UNCHANGED <<commits, labels, asked, nodes, edges, next>>
  BY DEF Enter, storageVars, metaVars
<1>2. PICK f : /\ f.id = Top.id /\ ~f.fresh
               /\ Pending(f) = Deps(Top.id) \cup Range(Top.found)
               /\ Range(stack) = {Top} \cup Range(Tail(stack))
               /\ Range(stack') = (IF Returning(f) THEN {} ELSE {f}) \cup Range(Tail(stack))
               /\ Top.fresh
  BY EnterCalls
<1>3. \A g \in Range(stack') : g.id \in NodeIds
  BY <1>2 DEF Grown
<1>4. ASSUME NEW c, NEW d, d \in Deps(c), c = Top.id PROVE Handled(c, d)'
  <2>1. d \in Pending(f)
    BY <1>2, <1>4
  <2>2. f \in Range(stack')
    BY <1>2, <2>1, ReturningHasNothing
  <2> QED
    BY <1>2, <1>4, <2>1, <2>2 DEF Handled
<1>5. ASSUME NEW c \in NodeIds, Awaited(c) PROVE Awaited(c)' \/ Linked(c)'
  <2>1. CASE \E i \in next .. Len(asked) : CommitNamed(asked[i]) = c
    BY <1>1, <2>1, SameRequest DEF Awaited
  <2>2. ASSUME NEW g \in Range(stack), g.fresh, g.id = c PROVE Awaited(c)' \/ Linked(c)'
    <3>1. CASE g = Top
      BY <1>1, <1>4, <2>2, <3>1, SameRequest DEF Linked
    <3>2. CASE g # Top
      BY <1>2, <2>2, <3>2 DEF Awaited
    <3> QED
      BY <3>1, <3>2
  <2> QED
    BY <1>5, <2>1, <2>2 DEF Awaited
<1>6. ASSUME NEW c, NEW d, Handled(c, d) PROVE Handled(c, d)'
  BY <1>2, <1>6 DEF Handled
<1> QED
  BY <1>1, <1>3, <1>5, <1>6, WalkGrown

\* and lookups lose none of them, if nothing is deleted.
LEMMA LookUpGrown ==
    ASSUME Sound, Grown, changes = 0, LookUp
    PROVE  Grown'
<1>1. UNCHANGED <<commits, labels, asked, nodes, edges, next>>
  BY DEF LookUp, storageVars, metaVars
<1>2. PICK f : /\ f.id = Top.id /\ ~f.fresh
               /\ Pending(f) = Pending(Top)
               /\ Range(stack) = {Top} \cup Range(Tail(stack))
               /\ Range(stack') = (IF Returning(f) THEN {} ELSE {f}) \cup Range(Tail(stack))
               /\ ~Top.fresh
  BY LookUpCalls DEF Sound, AllThere
<1>3. \A g \in Range(stack') : g.id \in NodeIds
  BY <1>2 DEF Grown
<1>4. ASSUME NEW c, Awaited(c) PROVE Awaited(c)'
  BY <1>1, <1>2, <1>4, SameRequest DEF Awaited
<1>5. ASSUME NEW c, NEW d, Handled(c, d) PROVE Handled(c, d)'
  <2>1. PICK g \in Range(stack) : ~g.fresh /\ g.id = c /\ d \in Pending(g)
    BY <1>5 DEF Handled
  <2>2. CASE g = Top
    <3>1. f \in Range(stack')
      BY <1>2, <2>1, <2>2, ReturningHasNothing
    <3> QED
      BY <1>2, <2>1, <2>2, <3>1 DEF Handled
  <2>3. CASE g # Top
    BY <1>2, <2>1, <2>3 DEF Handled
  <2> QED
    BY <2>2, <2>3
<1> QED
  BY <1>1, <1>3, <1>4, <1>5, WalkGrown

\* If no two versions meet, a link is to the dependency itself, which becomes a
\* node with a call of its own or is one.
LEMMA LinkGrown ==
    ASSUME Sound, Rest, Winning, Grown, OneVersionEach(Reach(AskedIds)), Link
    PROVE  Grown'
<1> PICK d : d = Head(Top.found)
  OBVIOUS
<1>1. PICK f :
          /\ f.id = Top.id /\ ~f.fresh /\ Pending(Top) = Pending(f) \cup {d}
          /\ Range(stack) = {Top} \cup Range(Tail(stack))
          /\ Range(stack') = (IF ModOf(d) \in DOMAIN seen THEN {} ELSE {NewFrame(d)})
                             \cup (IF Returning(f) THEN {} ELSE {f}) \cup Range(Tail(stack))
  BY LinkCalls
<1>2. /\ stage = "walk" /\ ~Top.fresh /\ Top.id \in DOMAIN commits /\ d \in DOMAIN commits
      /\ UNCHANGED <<commits, labels, asked, next>>
  BY LinkIs DEF storageVars, metaVars
<1>3. Top.id \in NodeIds /\ d \in Deps(Top.id)
  BY <1>1 DEF Grown, Winning, CallsMeant
<1>4. d \in Reach(AskedIds)
  BY <1>3, ReachIs DEF Grown
<1>5. /\ edges' = edges \cup {<<Top.id, d>>}
      /\ \/ nodes' = Append(nodes, DepNode(d)) /\ ModOf(d) \notin DOMAIN seen
         \/ nodes' = nodes /\ ModOf(d) \in DOMAIN seen /\ d \in NodeIds
  <2> DEFINE h == [Top EXCEPT !.found = Tail(@)]
  <2>1. LinkNew(d, h) \/ LinkNewer(d, h) \/ LinkKnown(d, h)
    BY DEF Link
  <2>2. ASSUME ModOf(d) \in DOMAIN seen PROVE seen[ModOf(d)] = d /\ d \in NodeIds
    <3>1. /\ seen[ModOf(d)] \in NodeIds
          /\ ModOf(seen[ModOf(d)]) = ModOf(d)
      BY <2>2 DEF Sound, SeenOK
    <3> QED
      BY <1>4, <3>1 DEF Grown, OneVersionEach
  <2>3. d \in Nat
    BY <1>2 DEF Rest, StorageTypeOK, CommitIDs
  <2>4. ~LinkNewer(d, h)
    BY <2>2, <2>3 DEF LinkNewer
  <2> QED
    BY <2>1, <2>2, <2>4 DEF LinkNew, LinkKnown
<1>6. DepNode(d).id = d /\ DepNode(d) \in NodeLike
  BY <1>2, DepNodeIs DEF Sound
<1>7. /\ DOMAIN nodes \subseteq DOMAIN nodes' /\ \A i \in DOMAIN nodes : nodes'[i] = nodes[i]
      /\ \A i \in DOMAIN nodes' : i <= Len(asked) => i \in DOMAIN nodes
      /\ NodeIds' = NodeIds \cup {d}
  <2>1. CASE nodes' = nodes /\ d \in NodeIds
    BY <2>1 DEF NodeIds
  <2>2. CASE nodes' = Append(nodes, DepNode(d))
    <3>1. /\ nodes \in Seq(NodeLike) /\ Len(nodes) \in Nat /\ Len(asked) \in Nat
          /\ Len(nodes) >= Len(asked)
      BY <1>2 DEF Sound, Shape, Resolving
    <3>2. /\ DOMAIN nodes' = DOMAIN nodes \cup {Len(nodes) + 1}
          /\ \A i \in DOMAIN nodes : nodes'[i] = nodes[i]
          /\ nodes'[Len(nodes) + 1] = DepNode(d)
          /\ DOMAIN nodes = 1 .. Len(nodes)
      BY <1>6, <2>2, <3>1
    <3> QED
      BY <1>6, <3>1, <3>2 DEF NodeIds
  <2> QED
    BY <1>5, <2>1, <2>2
<1>8. NewFrame(d).id = d /\ NewFrame(d).fresh
  BY DEF NewFrame
<1>9. \A c : Deps(c)' = Deps(c)
  BY <1>2, SameRequest
<1>10. \A i \in DOMAIN nodes' : i <= Len(asked) => nodes'[i].id = CommitNamed(asked[i])
  BY <1>7 DEF Grown
<1>11. \A g \in Range(stack') : g.id \in NodeIds'
  BY <1>1, <1>3, <1>7, <1>8 DEF Grown
<1>12. \A e \in edges' : e[1] \in NodeIds' /\ e[2] \in NodeIds' /\ e[2] \in Deps(e[1])
  BY <1>3, <1>5, <1>7 DEF Grown
<1>13. ASSUME NEW c, NEW p, Handled(c, p) PROVE <<c, p>> \in edges' \/ Handled(c, p)'
  <2>1. PICK g \in Range(stack) : ~g.fresh /\ g.id = c /\ p \in Pending(g)
    BY <1>13 DEF Handled
  <2>2. CASE g = Top /\ p = d
    BY <1>5, <2>1, <2>2
  <2>3. CASE g = Top /\ p # d
    <3>1. p \in Pending(f)
      BY <1>1, <2>1, <2>3
    <3>2. f \in Range(stack')
      BY <1>1, <3>1, ReturningHasNothing
    <3> QED
      BY <1>1, <2>1, <2>3, <3>1, <3>2 DEF Handled
  <2>4. CASE g # Top
    BY <1>1, <2>1, <2>4 DEF Handled
  <2> QED
    BY <2>2, <2>3, <2>4
<1>14. ASSUME NEW c \in NodeIds PROVE Awaited(c)' \/ Linked(c)'
  <2>1. CASE Awaited(c)
    BY <1>1, <1>2, <2>1, SameRequest DEF Awaited
  <2>2. CASE Linked(c)
    BY <1>5, <1>9, <1>13, <2>2 DEF Linked
  <2> QED
    BY <2>1, <2>2 DEF Grown
<1>15. ASSUME d \notin NodeIds PROVE Awaited(d)'
  BY <1>1, <1>5, <1>8, <1>15 DEF Awaited
<1> QED
  BY <1>2, <1>4, <1>7, <1>9, <1>10, <1>11, <1>12, <1>14, <1>15, SameRequest DEF Grown

\* All steps together.
LEMMA NextGrowing ==
    ASSUME Sound, Rest, Winning, InTurn, Growing, [Next]_vars
    PROVE  Growing'
<1> SUFFICES ASSUME changes' = 0, OneVersionEach(Reach(AskedIds))' PROVE Grown'
  BY DEF Growing
<1>1. UNCHANGED <<commits, labels, asked, changes>> /\ ~Interfere
  <2>1. ~Interfere
    BY DEF Interfere, Sound, Shape
  <2> QED
    BY <2>1, Stays DEF storageVars, metaVars
<1>2. Grown /\ OneVersionEach(Reach(AskedIds)) /\ changes = 0
  BY <1>1, SameRequest DEF Growing
<1>3. CASE Fail \/ ResolveName \/ Answer \/ Answered \/ UNCHANGED vars
  BY <1>1, <1>2, <1>3, SameGrown DEF Fail, ResolveName, Answer, Answered, vars, graphVars, walkVars
<1>4. CASE (ResolveID \/ ResolveChild) /\ ~Fail
  BY <1>2, <1>4, RootGrown DEF Winning
<1>5. CASE WalkRoot
  BY <1>2, <1>5, WalkRootGrown
<1>6. CASE Enter /\ ~Fail
  BY <1>2, <1>6, EnterGrown
<1>7. CASE LookUp
  BY <1>2, <1>7, LookUpGrown
<1>8. CASE Link
  BY <1>2, <1>8, LinkGrown
<1> QED
  BY <1>1, <1>3, <1>4, <1>5, <1>6, <1>7, <1>8 DEF Next, Serve

\* So it always holds.
LEMMA GrowingHolds == Spec => []Growing
BY InitGrowing, NextGrowing, SoundHolds, RestHolds, WinningHolds, InTurnHolds, PTL DEF Spec

\* At the end nothing is awaited or handled: the nodes are closed under
\* dependencies, and all that can be reached is among them.
LEMMA CompleteAtEnd == Sound /\ Rest /\ Winning /\ Growing => Complete
<1> SUFFICES ASSUME Sound, Rest, Winning, Growing, stage = "done", changes = 0,
                    OneVersionEach(Reach(AskedIds))
             PROVE  /\ NodeIds = Reach(AskedIds)
                    /\ edges = {e \in NodeIds \X NodeIds : e[2] \in Deps(e[1])}
  BY DEF Complete
<1>1. Grown
  BY DEF Growing
<1>2. Range(stack) = {} /\ next > Len(asked) /\ next \in Nat /\ asked \in Seq(Ref)
  BY DEF Winning, Phases, Range, Sound, Shape
<1>3. ASSUME NEW c \in NodeIds PROVE \A d \in Deps(c) : <<c, d>> \in edges
  <2>1. Len(asked) \in Nat /\ next .. Len(asked) = {}
    BY <1>2
  <2>2. ~Awaited(c) /\ \A d : ~Handled(c, d)
    BY <1>2, <2>1 DEF Awaited, Handled
  <2> QED
    BY <1>1, <1>3, <2>2 DEF Grown, Linked
<1>4. Closed(NodeIds)
  BY <1>1, <1>3 DEF Closed, Grown
<1>5. NodeIds \subseteq DOMAIN commits
  BY <1>1, ReachIs DEF Grown
<1>6. AskedIds \subseteq NodeIds
  <2> SUFFICES ASSUME NEW i \in DOMAIN asked PROVE CommitNamed(asked[i]) \in NodeIds
    BY DEF AskedIds
  <2>1. /\ nodes \in Seq(NodeLike) /\ Len(nodes) >= Len(asked)
    BY DEF Sound, Shape, Resolving
  <2>2. i \in DOMAIN nodes /\ i <= Len(asked)
    BY <1>2, <2>1
  <2> QED
    BY <1>1, <2>2 DEF Grown, NodeIds
<1>7. Reach(AskedIds) \subseteq NodeIds
  BY <1>4, <1>5, <1>6, ReachIs
<1>8. edges = {e \in NodeIds \X NodeIds : e[2] \in Deps(e[1])}
  <2>1. ASSUME NEW e \in edges PROVE e \in NodeIds \X NodeIds /\ e[2] \in Deps(e[1])
    <3>1. e \in (DOMAIN commits) \X (DOMAIN commits)
      BY DEF Rest
    <3> QED
      BY <1>1, <3>1 DEF Grown
  <2>2. ASSUME NEW e \in NodeIds \X NodeIds, e[2] \in Deps(e[1]) PROVE e \in edges
    BY <1>3, <2>2
  <2> QED
    BY <2>1, <2>2
<1> QED
  BY <1>1, <1>7, <1>8 DEF Grown

\* If nobody interferes and no two versions of a module meet, the answer is
\* all that can be reached from the commits that were named, and all of the
\* dependencies between them: for every history and every request.
THEOREM AlwaysComplete == Spec => []Complete
BY SoundHolds, RestHolds, WinningHolds, GrowingHolds, CompleteAtEnd, PTL
==============================================================================
