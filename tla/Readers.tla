------------------------------ MODULE Readers ------------------------------
(***************************************************************************)
(* A client that reads while others push: Download (download.go and, by    *)
(* name and with filters, download_v1.go), GetCommits and ListCommits      *)
(* (commit.go, commit_v1.go), GetModules and ListModules (module.go) and   *)
(* GetOwners (owners.go).  The pushes are those of module Registry; a step *)
(* of the reader is one call to the storage and changes nothing there.     *)
(*                                                                         *)
(* ListCommits is followed page by page to the end, as a client does that  *)
(* wants all commits: each page is a request of its own.                   *)
(***************************************************************************)
EXTENDS Registry

CONSTANTS
    Queries,        \* what the client may ask
    PageSize,       \* commits per page
    MaxReads, MaxReadFaults

Ops == {"files", "commit", "pages", "module", "modules", "owner"}

\* By ID, by name (of a module with a label, or of an owner), or by name with
\* a "ref" that is tried as a commit ID.  A download may name paths.
Query == [ op: Ops, by: {"id", "name", "ref"}, mod: Modules,
           label: LabelNames, paths: SUBSET Paths ]

ASSUME ReadersAssumption ==
    /\ Queries \subseteq Query
    /\ \A q \in Queries : q.by = "ref" => q.op = "files"
    /\ PageSize \in Nat \ {0}
    /\ {MaxReads, MaxReadFaults} \subseteq Nat

VARIABLES
    rpc,        \* the storage call the reader makes next
    query,      \* what it asked
    rcid,       \* the commit, once known: {} or one ID
    todo,       \* files still to be read
    got,        \* what the answer holds: files, modules
    listed,     \* the commits on the pages so far
    token,      \* the page token: {} or the last commit of a page
    known,      \* was what is asked for there when it was asked?
    before,     \* the commits or modules that were there then
    hit,        \* did a storage call of the request fail?
    torn,       \* did it read an object that is not whole?
    reads, readFaults

readerVars == <<rpc, query, rcid, todo, got, listed, token, known, before, hit,
                torn, reads, readFaults>>
allVars == <<vars, readerVars>>

Reading == { "commit", "moduleOf", "moduleNamed", "label", "commitOf",
             "manifest", "blobs", "page", "owner", "modulesOf" }
\* "turn" is the client between two pages.
ReaderStages == Reading \cup {"idle", "turn", "ok", "error", "unknown"}

NoQuery == [ op |-> "commit", by |-> "id", mod |-> CHOOSE m \in Modules : TRUE,
             label |-> Main, paths |-> {} ]

ReaderTypeOK ==
    /\ rpc \in ReaderStages
    /\ query \in Query
    /\ rcid \subseteq CommitIDs /\ Cardinality(rcid) <= 1
    /\ todo \subseteq Entries
    /\ got \subseteq Entries \cup Modules
    /\ listed \in Seq(CommitIDs)
    /\ token \subseteq CommitIDs /\ Cardinality(token) <= 1
    /\ {known, hit, torn} \subseteq BOOLEAN
    /\ before \subseteq CommitIDs \cup Modules
    /\ reads \in 0 .. MaxReads /\ readFaults \in 0 .. MaxReadFaults

ReaderInit ==
    /\ rpc = "idle" /\ query = NoQuery
    /\ rcid = {} /\ todo = {} /\ got = {}
    /\ listed = <<>> /\ token = {}
    /\ known = FALSE /\ before = {} /\ hit = FALSE /\ torn = FALSE
    /\ reads = 0 /\ readFaults = 0

-----------------------------------------------------------------------------

CommitsOf(m) == {c \in DOMAIN commits : commits[c].mod = m}

\* Is what a query names there?
Known(q, c) ==
    CASE q.op \in {"files", "commit"} /\ q.by = "id" ->
             c \in DOMAIN commits /\ commits[c].mod \in modules
      [] q.op \in {"files", "commit"} /\ q.by = "name" ->
             q.mod \in modules /\ <<q.mod, q.label>> \in DOMAIN labels
      [] q.by = "ref" ->
             q.mod \in modules /\ c \in CommitsOf(q.mod)
      [] q.op \in {"pages", "module"} -> q.mod \in modules
      [] q.op = "modules" -> q.by = "name"
      [] q.op = "owner" -> OwnerOf[q.mod] \in owners

FirstCall(q) ==
    CASE q.op = "owner" -> "owner"
      [] q.op = "modules" -> "modulesOf"
      [] q.op = "module" -> "moduleNamed"
      [] q.op \in {"files", "commit"} /\ q.by = "id" -> "commit"
      [] OTHER -> "moduleNamed"

\* The client asks; a commit ID is any it may know of.
Ask ==
    /\ rpc \notin Reading \cup {"turn"}
    /\ reads < MaxReads
    /\ reads' = reads + 1
    /\ \E q \in Queries, c \in DOMAIN commits \cup ForeignIDs \cup {0} :
           /\ query' = q
           /\ rcid' = IF q.op \in {"files", "commit"} /\ q.by # "name" THEN {c} ELSE {}
           /\ rcid' = {} => c = 0
           /\ known' = Known(q, c)
           /\ before' = IF q.op = "pages" THEN CommitsOf(q.mod)
                        ELSE IF q.op = "modules" THEN ModulesOf(OwnerOf[q.mod])
                        ELSE {}
           /\ rpc' = FirstCall(q)
    /\ todo' = {} /\ got' = {} /\ listed' = <<>> /\ token' = {}
    /\ hit' = FALSE /\ torn' = FALSE
    /\ UNCHANGED <<vars, readFaults>>

Call1(stage) == rpc = stage /\ UNCHANGED <<vars, query, known, before, hit, reads, readFaults>>

Goes(stage) == rpc' = stage /\ UNCHANGED <<rcid, todo, got, listed, token, torn>>

\* ModuleByCommitID reads the commit, then the module it is of.
ReadCommit ==
    /\ Call1("commit")
    /\ Goes(IF rcid \subseteq DOMAIN commits THEN "moduleOf" ELSE "error")

\* With the module the commit is read again, which changes nothing.
ReadModuleOf ==
    /\ Call1("moduleOf")
    /\ \E c \in rcid :
           Goes(IF commits[c].mod \notin modules THEN "error"
                ELSE IF query.op = "files" THEN "manifest" ELSE "ok")

ReadModuleNamed ==
    /\ Call1("moduleNamed")
    /\ Goes(IF query.mod \notin modules THEN "error"
            ELSE CASE query.op = "module" -> "ok"
                   [] query.op = "pages" -> "page"
                   [] query.by = "ref" -> "commitOf"
                   [] OTHER -> "label")

\* Slip: the reader waits for a label that is not there yet.
ReadLabelWaits ==
    /\ Call1("label")
    /\ <<query.mod, query.label>> \in DOMAIN labels
    /\ rpc' = "commitOf" /\ rcid' = {labels[<<query.mod, query.label>>]}
    /\ UNCHANGED <<todo, got, listed, token, torn>>

ReadLabel ==
    /\ Call1("label")
    /\ LET l == <<query.mod, query.label>> IN
       IF l \in DOMAIN labels
       THEN /\ rpc' = "commitOf" /\ rcid' = {labels[l]}
            /\ UNCHANGED <<todo, got, listed, token, torn>>
       ELSE Goes("error")

\* Module.CommitByID: the commit has to be of the module.  The download then
\* starts again from the commit's ID.
ReadCommitOf ==
    /\ Call1("commitOf")
    /\ Goes(IF ~(rcid \subseteq CommitsOf(query.mod)) THEN "error"
            ELSE IF query.op = "files" THEN "commit" ELSE "ok")

\* A torn manifest reads as a part of its lines, or not at all.
ReadManifest ==
    /\ Call1("manifest")
    /\ \E c \in rcid :
           LET files == commits[c].files IN
           IF files \notin manifests THEN Goes("error")
           ELSE /\ torn' = (torn \/ files \in tornManifests)
                /\ \/ \E listing \in Listings(files) :
                          /\ todo' = listing
                          /\ rpc' = IF listing = {} THEN "ok" ELSE "blobs"
                   \/ /\ files \in tornManifests
                      /\ rpc' = "error" /\ UNCHANGED todo
                /\ UNCHANGED <<rcid, got, listed, token>>

\* matchPath: no filter, or one of the paths.
Wanted(e) == query.paths = {} \/ e[1] \in query.paths

\* Slip: reading stops at the first file that is wanted.
ReadBlobFirst ==
    /\ Call1("blobs")
    /\ \E e \in todo :
           IF e[2] \in blobs
           THEN /\ todo' = todo \ {e}
                /\ got' = IF Wanted(e) THEN got \cup {e} ELSE got
                /\ torn' = (torn \/ e[2] \in tornBlobs)
                /\ rpc' = IF todo = {e} \/ Wanted(e) THEN "ok" ELSE "blobs"
                /\ UNCHANGED <<rcid, listed, token>>
           ELSE Goes("error")

\* A file's blob, whether or not the client wants the file.  What is read is
\* not compared with the digest.
ReadBlob ==
    /\ Call1("blobs")
    /\ \E e \in todo :
           IF e[2] \in blobs
           THEN /\ todo' = todo \ {e}
                /\ got' = IF Wanted(e) THEN got \cup {e} ELSE got
                /\ torn' = (torn \/ e[2] \in tornBlobs)
                /\ rpc' = IF todo = {e} THEN "ok" ELSE "blobs"
                /\ UNCHANGED <<rcid, listed, token>>
           ELSE Goes("error")

-----------------------------------------------------------------------------
(***************************************************************************)
(* Pages of commits: all commits of the module, the last ones first, from  *)
(* behind the token's commit - or from the top, if there is none such.     *)
(***************************************************************************)

\* The commits of a set, the largest ID first.
Descending(S) ==
    CHOOSE s \in [1 .. Cardinality(S) -> S] :
        \A i, j \in 1 .. Cardinality(S) : i < j => s[i] > s[j]

Rest(all, tok) ==
    IF tok \cap all = {} THEN all
    ELSE {c \in all : \A t \in tok : c < t}

\* Slip: there is no next page if just one commit is left.
PageEarly(all, tok) ==
    LET rest == Descending(Rest(all, tok))
        n == IF Len(rest) < PageSize THEN Len(rest) ELSE PageSize
    IN  [ commits |-> SubSeq(rest, 1, n),
          next |-> IF n = PageSize /\ n + 1 < Len(rest) THEN {rest[n]} ELSE {} ]

\* Slip: the token names the last commit of the page and the next one.
PageNextBoth(all, tok) ==
    LET rest == Descending(Rest(all, tok))
        n == IF Len(rest) < PageSize THEN Len(rest) ELSE PageSize
    IN  [ commits |-> SubSeq(rest, 1, n),
          next |-> IF n = PageSize /\ n < Len(rest) THEN {rest[n], rest[n + 1]} ELSE {} ]

Page(all, tok) ==
    LET rest == Descending(Rest(all, tok))
        n == IF Len(rest) < PageSize THEN Len(rest) ELSE PageSize
    IN  [ commits |-> SubSeq(rest, 1, n),
          next |-> IF n = PageSize /\ n < Len(rest) THEN {rest[n]} ELSE {} ]

ReadPage ==
    /\ Call1("page")
    /\ LET page == Page(CommitsOf(query.mod), token) IN
       /\ listed' = listed \o page.commits
       /\ token' = page.next
       /\ rpc' = IF page.next = {} THEN "ok" ELSE "turn"
    /\ UNCHANGED <<rcid, todo, got, torn>>

\* The client asks for the next page.
TurnPage == Call1("turn") /\ Goes("moduleNamed")

-----------------------------------------------------------------------------

\* An owner that is not there is an error by ID, and by name an owner without
\* an ID.
ReadOwner ==
    /\ Call1("owner")
    /\ Goes(IF OwnerOf[query.mod] \in owners THEN "ok"
            ELSE IF query.by = "id" THEN "error" ELSE "unknown")

\* Slip: only the first module that the query finds is returned.
ReadModulesFirst ==
    /\ Call1("modulesOf")
    /\ rpc' = "ok"
    /\ \E S \in SUBSET ModulesOf(OwnerOf[query.mod]) :
           Cardinality(S) <= 1 /\ got' = S
    /\ UNCHANGED <<rcid, todo, listed, token, torn>>

\* The modules of an owner; owners given by ID are passed over.
ReadModules ==
    /\ Call1("modulesOf")
    /\ rpc' = "ok"
    /\ got' = IF query.by = "name" THEN ModulesOf(OwnerOf[query.mod]) ELSE {}
    /\ UNCHANGED <<rcid, todo, listed, token, torn>>

\* A storage call of the reader fails.  GetOwners then makes up an owner, and
\* ListModules passes over this one; all other requests end with an error.
ReadFails ==
    /\ rpc \in Reading /\ readFaults < MaxReadFaults
    /\ readFaults' = readFaults + 1
    /\ hit' = TRUE
    /\ Goes(CASE rpc = "owner" /\ query.by = "name" -> "unknown"
              [] rpc = "modulesOf" -> "ok"
              [] OTHER -> "error")
    /\ UNCHANGED <<vars, query, known, before, reads>>

ReaderStep ==
    \/ ReadCommit \/ ReadModuleOf \/ ReadModuleNamed \/ ReadLabel
    \/ ReadCommitOf \/ ReadManifest \/ ReadBlob \/ ReadPage
    \/ ReadOwner \/ ReadModules

\* The reader dies with the process, but a client between two pages goes on
\* with the next one when the process is back.
Survive ==
    IF crashes' # crashes /\ rpc \in Reading
    THEN /\ rpc' = "error" /\ hit' = TRUE
         /\ UNCHANGED <<query, rcid, todo, got, listed, token, known, before,
                        torn, reads, readFaults>>
    ELSE UNCHANGED readerVars

RInit == Init /\ ReaderInit
RNext ==
    \/ Next /\ Survive
    \/ Ask \/ ReaderStep \/ TurnPage \/ ReadFails

RSpec == RInit /\ [][RNext]_allVars
RFairSpec == RSpec /\ WF_allVars(ReaderStep) /\ WF_allVars(TurnPage)

-----------------------------------------------------------------------------
(***************************************************************************)
(* Properties.                                                             *)
(***************************************************************************)

\* A download that met no torn object is exactly what was pushed: the files
\* of the commit, those that were wanted, and if the client named a module,
\* of that module - whatever was pushed between the storage calls.
DownloadsExact ==
    rpc = "ok" /\ query.op \in {"files", "commit"} =>
        \A c \in rcid \cap DOMAIN commits :
            /\ query.by # "id" => commits[c].mod = query.mod
            /\ query.op = "files" /\ ~torn => got = {e \in commits[c].files : Wanted(e)}

\* What was there when it was asked for is found, if the storage works: no
\* push in progress hides a commit, a label, a module or an owner.  (Torn
\* manifests may be unreadable; deletions are left out where this is checked.)
ReadsSucceed ==
    known /\ ~hit =>
        /\ rpc = "error" => torn
        /\ rpc # "unknown"
        /\ rpc = "ok" /\ query.op = "modules" => before \subseteq got

\* Whoever follows the pages to the end sees no commit twice, the newer ones
\* first, and every commit that was there when he began, whatever is pushed
\* meanwhile.
PagesComplete ==
    query.op = "pages" =>
        /\ \A i, j \in DOMAIN listed : i < j => listed[i] > listed[j]
        /\ rpc = "ok" => before \subseteq {listed[i] : i \in DOMAIN listed}

\* Every reading ends, and so does going from page to page while others push.
ReadingEnds == rpc \in Reading \cup {"turn"} ~> rpc \notin Reading \cup {"turn"}
=============================================================================
