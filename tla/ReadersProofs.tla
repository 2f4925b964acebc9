--------------------------- MODULE ReadersProofs ---------------------------
(***************************************************************************)
(* Readers change nothing, so all that holds of the registry holds with    *)
(* them; and what they download is exact, for any requests that push       *)
(* meanwhile.  The invariant follows the reader from call to call: which   *)
(* commit it has found, of which module, and which of its files it has.    *)
(* The same way leads to two more theorems: what is there when it is asked *)
(* for is found, and the pages of a list miss nothing.  The latter rests   *)
(* on what Descending chooses, which exists for every finite set of IDs.   *)
(***************************************************************************)
EXTENDS Readers, IntegrityProofs, FiniteSetTheorems

-----------------------------------------------------------------------------
(***************************************************************************)
(* Readers change nothing.                                                 *)
(***************************************************************************)

LEMMA ReaderStill ==
    ASSUME Ask \/ ReaderStep \/ TurnPage \/ ReadFails
    PROVE  UNCHANGED vars
BY DEF Ask, ReaderStep, TurnPage, ReadFails, Call1, ReadCommit, ReadModuleOf,
   ReadModuleNamed, ReadLabel, ReadCommitOf, ReadManifest, ReadBlob, ReadPage,
   ReadOwner, ReadModules

\* With a reader the registry does what it does without: every theorem about
\* module Registry holds of what the reader sees.
THEOREM ReadersObserve == RSpec => Spec
<1>1. RInit => Init
  BY DEF RInit
<1>2. [RNext]_allVars => [Next]_vars
  <2>1. UNCHANGED allVars => UNCHANGED vars
    BY DEF allVars
  <2> QED
    BY <2>1, ReaderStill DEF RNext
<1> QED
  BY <1>1, <1>2, PTL DEF RSpec, Spec

\* Whatever is pushed, torn or cut off, no commit ever lacks an object.
THEOREM ReadersFindObjects == RSpec => []CommitsStored
BY ReadersObserve, CommitsAlwaysStored, PTL

-----------------------------------------------------------------------------
(***************************************************************************)
(* Downloads.                                                              *)
(***************************************************************************)

\* The reader is on its way to a commit, or to its files.
OfCommit == {"commit", "moduleOf", "label", "commitOf"}
OfFiles == {"manifest", "blobs"}

\* Which questions lead to which calls.
CallsOK ==
    /\ query.by = "ref" => query.op = "files"
    /\ rpc \in OfCommit => query.op \in {"files", "commit"}
    /\ rpc \in OfFiles => query.op = "files"
    /\ rpc = "moduleNamed" =>
           \/ query.op \in {"files", "commit"} /\ query.by # "id"
           \/ query.op \in {"module", "pages"}
    /\ rpc \in {"label", "commitOf"} => query.by # "id"
    /\ rpc \in {"page", "turn"} => query.op = "pages"
    /\ rpc = "owner" => query.op = "owner"
    /\ rpc = "modulesOf" => query.op = "modules"

Arrived ==
    \/ rpc \in {"moduleOf"} \cup OfFiles
    \/ rpc = "ok" /\ query.op \in {"files", "commit"}

\* The commit is one, is there, and is of the module that was named.
CommitOK ==
    /\ \A c, d \in rcid : c = d
    /\ Arrived => rcid \subseteq DOMAIN commits
    /\ (Arrived \/ rpc = "commit") /\ query.by # "id" => rcid \subseteq CommitsOf(query.mod)

\* What was read and what is still to be read make up the files.
FilesOK ==
    /\ rpc \in OfCommit \cup {"moduleNamed", "manifest", "page", "turn"} => got = {}
    /\ rpc = "blobs" /\ ~torn =>
           \A c \in rcid :
               /\ todo \subseteq commits[c].files
               /\ got = {e \in commits[c].files \ todo : Wanted(e)}
    /\ rpc = "ok" /\ query.op = "files" /\ ~torn =>
           \A c \in rcid : got = {e \in commits[c].files : Wanted(e)}

Exact == CallsOK /\ CommitOK /\ FilesOK

LEMMA InitExact == ReaderInit => Exact
BY DEF ReaderInit, NoQuery, Exact, CallsOK, CommitOK, FilesOK, Arrived, OfCommit, OfFiles

LEMMA AskExact ==
    ASSUME Ask
    PROVE  Exact'
<1>1. PICK q \in Queries, c \in DOMAIN commits \cup ForeignIDs \cup {0} :
          /\ query' = q
          /\ rcid' = IF q.op \in {"files", "commit"} /\ q.by # "name" THEN {c} ELSE {}
          /\ rpc' = FirstCall(q)
  BY DEF Ask
<1>2. q \in Query /\ (q.by = "ref" => q.op = "files")
  BY ReadersAssumption
<1>3. q.op \in Ops /\ q.by \in {"id", "name", "ref"}
  BY <1>2 DEF Query
<1>4. got' = {}
  BY DEF Ask
<1>5. /\ q.op = "owner" => rpc' = "owner"
      /\ q.op = "modules" => rpc' = "modulesOf"
      /\ q.op \in {"module", "pages"} => rpc' = "moduleNamed"
      /\ q.op \in {"files", "commit"} /\ q.by = "id" => rpc' = "commit"
      /\ q.op \in {"files", "commit"} /\ q.by # "id" => rpc' = "moduleNamed"
  BY <1>1, <1>3 DEF FirstCall, Ops
<1>6. CallsOK'
  BY <1>1, <1>2, <1>3, <1>5 DEF CallsOK, OfCommit, OfFiles, Ops
<1>7. CommitOK'
  BY <1>1, <1>3, <1>5 DEF CommitOK, Arrived, OfFiles, Ops
<1>8. FilesOK'
  BY <1>3, <1>4, <1>5 DEF FilesOK, Ops
<1> QED
  BY <1>6, <1>7, <1>8 DEF Exact

\* The steps to the commit.
LEMMA FindExact ==
    ASSUME Exact, \/ ReadCommit \/ ReadModuleOf \/ ReadModuleNamed
                  \/ ReadLabel \/ ReadCommitOf
    PROVE  Exact'
<1>1. UNCHANGED <<commits, query>>
  BY DEF ReadCommit, ReadModuleOf, ReadModuleNamed, ReadLabel, ReadCommitOf, Call1,
     vars, storageVars, metaVars
<1> USE DEF Exact, CallsOK, CommitOK, FilesOK, Arrived, OfCommit, OfFiles
<1>2. CASE ReadCommit
  BY <1>1, <1>2 DEF ReadCommit, Call1, Goes, CommitsOf
<1>3. CASE ReadModuleOf
  BY <1>1, <1>3 DEF ReadModuleOf, Call1, Goes, CommitsOf
<1>4. CASE ReadModuleNamed
  <2>1. /\ rpc = "moduleNamed" /\ got = {} /\ UNCHANGED <<rcid, got>>
        /\ rpc' \in {"error", "page", "commitOf", "label", "ok"}
        /\ rpc' = "ok" => query.op = "module"
        /\ rpc' = "page" => query.op = "pages"
        /\ rpc' = "commitOf" => query.op \notin {"module", "pages"} /\ query.by = "ref"
        /\ rpc' = "label" => query.op \notin {"module", "pages"} /\ query.by # "ref"
    BY <1>4 DEF ReadModuleNamed, Call1, Goes
  <2>2. CallsOK'
    BY <1>1, <2>1
  <2>3. CommitOK'
    BY <1>1, <2>1
  <2>4. FilesOK'
    BY <1>1, <2>1
  <2> QED
    BY <2>2, <2>3, <2>4
<1>5. CASE ReadLabel
  BY <1>1, <1>5 DEF ReadLabel, Call1, Goes, CommitsOf
<1>6. CASE ReadCommitOf
  <2>1. CASE ~(rcid \subseteq CommitsOf(query.mod))
    BY <1>1, <1>6, <2>1 DEF ReadCommitOf, Call1, Goes
  <2>2. CASE rcid \subseteq CommitsOf(query.mod)
    <3>1. /\ rpc = "commitOf" /\ query.by # "id" /\ query.op \in {"files", "commit"}
          /\ rpc' = IF query.op = "files" THEN "commit" ELSE "ok"
          /\ UNCHANGED <<rcid, got>>
      BY <1>6, <2>2 DEF ReadCommitOf, Call1, Goes
    <3>2. rcid \subseteq DOMAIN commits /\ CommitsOf(query.mod)' = CommitsOf(query.mod)
      BY <1>1, <2>2 DEF CommitsOf
    <3>3. CallsOK'
      BY <1>1, <3>1
    <3>4. CommitOK'
      BY <1>1, <2>2, <3>1, <3>2
    <3>5. FilesOK'
      BY <1>1, <3>1
    <3> QED
      BY <3>3, <3>4, <3>5
  <2> QED
    BY <2>1, <2>2
<1> QED
  BY <1>2, <1>3, <1>4, <1>5, <1>6

\* The steps from file to file.
LEMMA FetchExact ==
    ASSUME Exact, ReadManifest \/ ReadBlob
    PROVE  Exact'
<1>1. /\ UNCHANGED <<commits, query, rcid>>
      /\ rpc \in OfFiles /\ rpc' \in {"ok", "error", "blobs"}
  BY DEF ReadManifest, ReadBlob, Call1, Goes, vars, storageVars, metaVars, OfFiles
<1>2. query.op = "files" /\ rcid \subseteq DOMAIN commits
      /\ (query.by # "id" => rcid \subseteq CommitsOf(query.mod))
  BY <1>1 DEF Exact, CallsOK, CommitOK, Arrived
<1>3. CallsOK'
  BY <1>1, <1>2 DEF Exact, CallsOK, OfCommit, OfFiles
<1>4. CommitOK'
  <2>1. CommitsOf(query.mod)' = CommitsOf(query.mod)
    BY <1>1 DEF CommitsOf
  <2> QED
    BY <1>1, <1>2, <2>1 DEF Exact, CommitOK
<1>5. FilesOK'
  <2> SUFFICES ASSUME rpc' \in {"blobs", "ok"}, ~torn'
               PROVE  \A c \in rcid :
                          /\ rpc' = "blobs" =>
                                 /\ todo' \subseteq commits[c].files
                                 /\ got' = {e \in commits[c].files \ todo' : Wanted(e)}
                          /\ rpc' = "ok" => got' = {e \in commits[c].files : Wanted(e)}
    BY <1>1 DEF FilesOK, OfCommit, Wanted
  <2>1. CASE ReadManifest
    <3>1. PICK c \in rcid :
              LET files == commits[c].files IN
              /\ files \in manifests
              /\ torn' = (torn \/ files \in tornManifests)
              /\ todo' \in Listings(files)
              /\ rpc' = IF todo' = {} THEN "ok" ELSE "blobs"
              /\ got' = got
      BY <2>1 DEF ReadManifest, Call1, Goes
    <3>2. todo' = commits[c].files
      BY <3>1 DEF Listings
    <3>3. got' = {}
      BY <2>1, <3>1 DEF Exact, FilesOK, ReadManifest, Call1
    <3>4. \A d \in rcid : d = c
      BY DEF Exact, CommitOK
    <3> QED
      BY <3>1, <3>2, <3>3, <3>4
  <2>2. CASE ReadBlob
    <3>1. rpc = "blobs"
      BY <2>2 DEF ReadBlob, Call1
    <3>2. PICK e \in todo :
              /\ todo' = todo \ {e}
              /\ got' = IF Wanted(e) THEN got \cup {e} ELSE got
              /\ torn' = (torn \/ e[2] \in tornBlobs)
              /\ rpc' = IF todo = {e} THEN "ok" ELSE "blobs"
      BY <2>2 DEF ReadBlob, Call1, Goes
    <3>3. ~torn
      BY <3>2
    <3> SUFFICES ASSUME NEW c \in rcid
                 PROVE  /\ todo' \subseteq commits[c].files
                        /\ got' = {f \in commits[c].files \ todo' : Wanted(f)}
                        /\ rpc' = "ok" => todo' = {}
      OBVIOUS
    <3>4. /\ todo \subseteq commits[c].files
          /\ got = {f \in commits[c].files \ todo : Wanted(f)}
      BY <3>1, <3>3 DEF Exact, FilesOK
    <3>5. got' = {f \in commits[c].files \ todo' : Wanted(f)}
      <4>1. \A f : f \in got' <=> f \in commits[c].files \ todo' /\ Wanted(f)
        <5>1. CASE Wanted(e)
          BY <3>2, <3>4, <5>1
        <5>2. CASE ~Wanted(e)
          BY <3>2, <3>4, <5>2
        <5> QED
          BY <5>1, <5>2
      <4> QED
        BY <4>1
    <3> QED
      BY <3>2, <3>4, <3>5
  <2> QED
    BY <2>1, <2>2
<1> QED
  BY <1>3, <1>4, <1>5 DEF Exact

\* Pages, modules and owners are no downloads.
LEMMA ListExact ==
    ASSUME Exact, ReadPage \/ TurnPage \/ ReadOwner \/ ReadModules
    PROVE  Exact'
<1>1. /\ UNCHANGED <<commits, query, rcid>>
      /\ query.op \in {"pages", "owner", "modules"} /\ query.by # "ref"
      /\ rpc' \in {"ok", "turn", "moduleNamed", "error", "unknown"}
      /\ rpc' = "turn" \/ rpc' = "moduleNamed" => query.op = "pages"
      /\ rpc' \in {"moduleNamed", "turn"} => got' = {}
  BY DEF Exact, CallsOK, FilesOK, ReadPage, TurnPage, ReadOwner, ReadModules, Call1, Goes, vars,
     storageVars, metaVars
<1>2. CallsOK' /\ CommitOK'
  BY <1>1 DEF Exact, CallsOK, CommitOK, Arrived, OfCommit, OfFiles
<1>3. FilesOK'
  BY <1>1 DEF FilesOK, OfCommit
<1> QED
  BY <1>2, <1>3 DEF Exact

\* A failed call ends the reading, with an error or without the files.
LEMMA FailsExact ==
    ASSUME Exact, ReadFails
    PROVE  Exact'
<1>1. /\ UNCHANGED <<commits, query, rcid, got>>
      /\ rpc' \in {"unknown", "error"} \/ (rpc' = "ok" /\ query.op = "modules")
  BY DEF ReadFails, Goes, Exact, CallsOK, vars, storageVars, metaVars
<1> QED
  BY <1>1 DEF Exact, CallsOK, CommitOK, FilesOK, Arrived, OfCommit, OfFiles

\* Others may push: the commits that are there stay what they are.
LEMMA OthersExact ==
    ASSUME Exact, Survive,
           \A c \in DOMAIN commits : c \in DOMAIN commits' /\ commits'[c] = commits[c]
    PROVE  Exact'
<1>1. UNCHANGED <<query, rcid, todo, got, torn>>
  BY DEF Survive, readerVars
<1>2. CASE rpc' = "error"
  BY <1>1, <1>2 DEF Exact, CallsOK, CommitOK, FilesOK, Arrived, OfCommit, OfFiles
<1>3. CASE UNCHANGED rpc
  <2>1. CallsOK'
    BY <1>1, <1>3 DEF Exact, CallsOK
  <2>2. CommitOK'
    BY <1>1, <1>3 DEF Exact, CommitOK, Arrived, CommitsOf
  <2>3. FilesOK'
    <3>1. Arrived => rcid \subseteq DOMAIN commits
      BY DEF Exact, CommitOK
    <3>2. \A e : Wanted(e)' <=> Wanted(e)
      BY <1>1 DEF Wanted
    <3>3. Arrived => \A c \in rcid : commits'[c] = commits[c]
      BY <3>1
    <3>4. FilesOK
      BY DEF Exact
    <3> QED
      BY <1>1, <1>3, <3>2, <3>3, <3>4 DEF FilesOK, Arrived, OfFiles, Wanted
  <2> QED
    BY <2>1, <2>2, <2>3 DEF Exact
<1> QED
  BY <1>2, <1>3 DEF Survive, readerVars

\* A step leaves the commits that are there as they are.
CommitsStay == [ \A c \in DOMAIN commits :
                     c \in DOMAIN commits' /\ commits'[c] = commits[c] ]_vars

LEMMA NextExact ==
    ASSUME Exact, [RNext]_allVars, CommitsStay
    PROVE  Exact'
<1>1. \A c \in DOMAIN commits : c \in DOMAIN commits' /\ commits'[c] = commits[c]
  BY DEF CommitsStay, vars, storageVars, metaVars
<1>2. CASE Next /\ Survive
  BY <1>1, <1>2, OthersExact
<1>3. CASE Ask
  BY <1>3, AskExact
<1>4. CASE ReaderStep \/ TurnPage
  BY <1>4, FindExact, FetchExact, ListExact DEF ReaderStep
<1>5. CASE ReadFails
  BY <1>5, FailsExact
<1>6. CASE UNCHANGED allVars
  BY <1>6 DEF allVars, readerVars, vars, storageVars, metaVars, Exact, CallsOK,
       CommitOK, FilesOK, Arrived, CommitsOf, Wanted
<1> QED
  BY <1>2, <1>3, <1>4, <1>5, <1>6 DEF RNext

\* A download that met no torn object holds exactly the files that were pushed
\* and wanted, of the module that was named, whatever others push while it
\* goes from label to commit, manifest and blobs.
THEOREM DownloadsAlwaysExact ==
    ASSUME Durable
    PROVE  RSpec => []DownloadsExact
<1>1. RInit => Exact
  BY InitExact DEF RInit
<1>2. Exact /\ [RNext]_allVars /\ CommitsStay => Exact'
  BY NextExact
<1>3. RSpec => CommitsImmutable
  BY ReadersObserve, CommitsNeverChange
<1>4. Exact => DownloadsExact
  BY DEF Exact, CommitOK, FilesOK, Arrived, CommitsOf, DownloadsExact
<1> QED
  BY <1>1, <1>2, <1>3, <1>4, PTL DEF RSpec, CommitsImmutable, CommitsStay

-----------------------------------------------------------------------------
(***************************************************************************)
(* What is there is found.                                                 *)
(***************************************************************************)

\* A commit to be read is there, with its module.
CommitThere ==
    rpc \in {"commit", "moduleOf"} =>
        rcid \subseteq DOMAIN commits /\ \A c \in rcid : commits[c].mod \in modules

\* So are the module that was named, and its label or its commit.
NamedThere ==
    /\ rpc \in {"moduleNamed", "label", "commitOf", "page", "turn"} => query.mod \in modules
    /\ (rpc = "moduleNamed" /\ query.op \in {"files", "commit"} /\ query.by # "ref")
           => <<query.mod, query.label>> \in DOMAIN labels
    /\ rpc = "label" => <<query.mod, query.label>> \in DOMAIN labels
    /\ (rpc = "moduleNamed" /\ query.by = "ref") => rcid \subseteq CommitsOf(query.mod)
    /\ rpc = "commitOf" => rcid \subseteq CommitsOf(query.mod)

\* The files to be read are those of the commit.
FilesThere ==
    rpc = "blobs" => \E c \in rcid : c \in DOMAIN commits /\ todo \subseteq commits[c].files

\* The owner is there, and the modules it had are listed.
OwnerThere ==
    /\ rpc = "owner" => OwnerOf[query.mod] \in owners
    /\ rpc = "modulesOf" =>
           query.by = "name" /\ before \subseteq ModulesOf(OwnerOf[query.mod])

\* Nothing has gone wrong, unless with a torn object.
NotFailed ==
    /\ rpc = "error" => torn
    /\ rpc # "unknown"
    /\ rpc = "ok" /\ query.op = "modules" => before \subseteq got

Found ==
    known /\ ~hit => CommitThere /\ NamedThere /\ FilesThere /\ OwnerThere /\ NotFailed

\* Nothing has been asked at the start.
LEMMA InitFound == ReaderInit => Found
BY DEF ReaderInit, Found

\* What is known when it is asked for is there.
LEMMA AskFound ==
    ASSUME Ask
    PROVE  Found'
<1>1. PICK q \in Queries, c \in DOMAIN commits \cup ForeignIDs \cup {0} :
          /\ query' = q
          /\ rcid' = IF q.op \in {"files", "commit"} /\ q.by # "name" THEN {c} ELSE {}
          /\ known' = Known(q, c)
          /\ before' = IF q.op = "pages" THEN CommitsOf(q.mod)
                       ELSE IF q.op = "modules" THEN ModulesOf(OwnerOf[q.mod])
                       ELSE {}
          /\ rpc' = FirstCall(q)
  BY DEF Ask
<1>2. q.op \in Ops /\ q.by \in {"id", "name", "ref"} /\ (q.by = "ref" => q.op = "files")
  BY ReadersAssumption DEF Query
<1>3. UNCHANGED <<modules, owners, commits, labels>>
  BY DEF Ask, vars, storageVars, metaVars
<1>4. /\ CommitsOf(q.mod)' = CommitsOf(q.mod)
      /\ \A o : ModulesOf(o)' = ModulesOf(o)
  BY <1>3 DEF CommitsOf, ModulesOf
<1> SUFFICES ASSUME Known(q, c)
             PROVE  (CommitThere /\ NamedThere /\ FilesThere /\ OwnerThere /\ NotFailed)'
  BY <1>1 DEF Found
<1>5. CASE q.op \in {"files", "commit"} /\ q.by = "id"
  <2>1. c \in DOMAIN commits /\ commits[c].mod \in modules
    BY <1>5 DEF Known
  <2>2. rpc' = "commit" /\ rcid' = {c}
    BY <1>1, <1>5 DEF FirstCall
  <2> QED
    BY <1>3, <2>1, <2>2 DEF CommitThere, NamedThere, FilesThere, OwnerThere, NotFailed
<1>6. CASE q.op \in {"files", "commit"} /\ q.by = "name"
  <2>1. q.mod \in modules /\ <<q.mod, q.label>> \in DOMAIN labels
    BY <1>6 DEF Known
  <2>2. rpc' = "moduleNamed"
    BY <1>1, <1>6 DEF FirstCall
  <2> QED
    BY <1>1, <1>3, <1>6, <2>1, <2>2 DEF CommitThere, NamedThere, FilesThere, OwnerThere, NotFailed
<1>7. CASE q.by = "ref"
  <2>1. q.mod \in modules /\ c \in CommitsOf(q.mod)
    BY <1>2, <1>7 DEF Known
  <2>2. rpc' = "moduleNamed" /\ rcid' = {c}
    BY <1>1, <1>2, <1>7 DEF FirstCall
  <2> QED
    BY <1>1, <1>3, <1>4, <1>7, <2>1, <2>2
       DEF CommitThere, NamedThere, FilesThere, OwnerThere, NotFailed
<1>8. CASE q.op \in {"pages", "module"}
  <2>1. q.mod \in modules
    BY <1>2, <1>8 DEF Known
  <2>2. rpc' = "moduleNamed"
    BY <1>1, <1>8 DEF FirstCall
  <2> QED
    BY <1>1, <1>2, <1>3, <1>8, <2>1, <2>2
       DEF CommitThere, NamedThere, FilesThere, OwnerThere, NotFailed
<1>9. CASE q.op = "modules"
  <2>1. q.by = "name"
    BY <1>2, <1>9 DEF Known
  <2>2. rpc' = "modulesOf" /\ before' = ModulesOf(OwnerOf[q.mod])
    BY <1>1, <1>9 DEF FirstCall
  <2> QED
    BY <1>1, <1>4, <2>1, <2>2 DEF CommitThere, NamedThere, FilesThere, OwnerThere, NotFailed
<1>10. CASE q.op = "owner"
  <2>1. OwnerOf[q.mod] \in owners
    BY <1>2, <1>10 DEF Known
  <2>2. rpc' = "owner"
    BY <1>1, <1>10 DEF FirstCall
  <2> QED
    BY <1>1, <1>3, <2>1, <2>2 DEF CommitThere, NamedThere, FilesThere, OwnerThere, NotFailed
<1> QED
  BY <1>2, <1>5, <1>6, <1>7, <1>8, <1>9, <1>10 DEF Ops

\* Each call finds what the one before it has led to.
LEMMA StepFound ==
    ASSUME CommitsStored, LabelsResolve, Exact, Found, ReaderStep \/ TurnPage
    PROVE  Found'
<1>0. UNCHANGED <<storageVars, query, known, before, hit>>
  BY DEF ReaderStep, TurnPage, ReadCommit, ReadModuleOf, ReadModuleNamed, ReadLabel,
         ReadCommitOf, ReadManifest, ReadBlob, ReadPage, ReadOwner, ReadModules, Call1, vars
<1> SUFFICES ASSUME known, ~hit
             PROVE  (CommitThere /\ NamedThere /\ FilesThere /\ OwnerThere /\ NotFailed)'
  BY <1>0 DEF Found
<1>1. /\ UNCHANGED <<blobs, manifests, owners, modules, commits, labels, query, before>>
      /\ CommitsOf(query.mod)' = CommitsOf(query.mod)
  BY <1>0 DEF storageVars, bucketVars, metaVars, CommitsOf
<1>2. CommitThere /\ NamedThere /\ FilesThere /\ OwnerThere /\ NotFailed
  BY DEF Found
<1>3. CallsOK /\ CommitOK
  BY DEF Exact
<1> USE DEF CommitThere, NamedThere, FilesThere, OwnerThere, NotFailed
<1>4. CASE ReadCommit
  <2>1. rpc = "commit" /\ rpc' = "moduleOf" /\ rcid' = rcid
    BY <1>2, <1>4 DEF ReadCommit, Call1, Goes
  <2> QED
    BY <1>1, <1>2, <2>1
<1>5. CASE ReadModuleOf
  <2>1. /\ rpc = "moduleOf" /\ query.op \in {"files", "commit"}
        /\ rpc' \in {"manifest", "ok"} /\ rcid' = rcid
    BY <1>2, <1>3, <1>5 DEF ReadModuleOf, Call1, Goes, CallsOK, OfCommit
  <2> QED
    BY <1>1, <2>1
<1>6. CASE ReadModuleNamed
  <2>1. rpc = "moduleNamed" /\ query.mod \in modules /\ rcid' = rcid
    BY <1>2, <1>6 DEF ReadModuleNamed, Call1, Goes
  <2>2. \/ rpc' = "ok" /\ query.op = "module"
        \/ rpc' = "page"
        \/ rpc' = "commitOf" /\ query.by = "ref"
        \/ rpc' = "label" /\ query.op \notin {"module", "pages"} /\ query.by # "ref"
    BY <1>6, <2>1 DEF ReadModuleNamed, Goes
  <2>3. query.op \in {"files", "commit", "module", "pages"}
    BY <1>3, <2>1 DEF CallsOK
  <2>4. CASE rpc' = "ok" /\ query.op = "module"
    BY <1>1, <2>4
  <2>5. CASE rpc' = "page"
    BY <1>1, <2>1, <2>5
  <2>6. CASE rpc' = "commitOf" /\ query.by = "ref"
    BY <1>1, <1>2, <2>1, <2>6
  <2>7. CASE rpc' = "label" /\ query.op \notin {"module", "pages"} /\ query.by # "ref"
    BY <1>1, <1>2, <2>1, <2>3, <2>7
  <2> QED
    BY <2>2, <2>4, <2>5, <2>6, <2>7
<1>7. CASE ReadLabel
  <2>1. /\ rpc = "label" /\ query.mod \in modules
        /\ <<query.mod, query.label>> \in DOMAIN labels
    BY <1>2, <1>7 DEF ReadLabel, Call1
  <2>2. rpc' = "commitOf" /\ rcid' = {labels[<<query.mod, query.label>>]}
    BY <1>7, <2>1 DEF ReadLabel
  <2>3. rcid' \subseteq CommitsOf(query.mod)
    BY <2>1, <2>2 DEF LabelsResolve, CommitsOf
  <2> QED
    BY <1>1, <2>1, <2>2, <2>3
<1>8. CASE ReadCommitOf
  <2>1. /\ rpc = "commitOf" /\ query.mod \in modules /\ rcid \subseteq CommitsOf(query.mod)
        /\ query.op \in {"files", "commit"}
    BY <1>2, <1>3, <1>8 DEF ReadCommitOf, Call1, CallsOK, OfCommit
  <2>2. rcid' = rcid /\ rpc' \in {"commit", "ok"}
    BY <1>8, <2>1 DEF ReadCommitOf, Goes
  <2>3. \A c \in rcid : c \in DOMAIN commits /\ commits[c].mod \in modules
    BY <2>1 DEF CommitsOf
  <2> QED
    BY <1>1, <2>1, <2>2, <2>3
<1>9. CASE ReadManifest
  <2>0. rpc = "manifest" /\ query.op = "files"
    BY <1>3, <1>9 DEF ReadManifest, Call1, CallsOK, OfFiles
  <2>1. rcid \subseteq DOMAIN commits
    BY <1>3, <2>0 DEF CommitOK, Arrived, OfFiles
  <2>2. PICK c \in rcid :
            LET files == commits[c].files IN
            IF files \notin manifests THEN Goes("error")
            ELSE /\ torn' = (torn \/ files \in tornManifests)
                 /\ \/ \E listing \in Listings(files) :
                           /\ todo' = listing
                           /\ rpc' = IF listing = {} THEN "ok" ELSE "blobs"
                    \/ /\ files \in tornManifests
                       /\ rpc' = "error" /\ UNCHANGED todo
                 /\ UNCHANGED <<rcid, got, listed, token>>
    BY <1>9 DEF ReadManifest
  <2>3. commits[c].files \in manifests
    BY <2>1 DEF CommitsStored
  <2>4. /\ rcid' = rcid
        /\ \/ todo' \subseteq commits[c].files /\ rpc' \in {"ok", "blobs"}
           \/ rpc' = "error" /\ torn'
    BY <2>2, <2>3 DEF Listings
  <2> QED
    BY <1>1, <2>0, <2>1, <2>4
<1>10. CASE ReadBlob
  <2>0. rpc = "blobs" /\ query.op = "files"
    BY <1>3, <1>10 DEF ReadBlob, Call1, CallsOK, OfFiles
  <2>1. PICK c \in rcid : c \in DOMAIN commits /\ todo \subseteq commits[c].files
    BY <1>2, <2>0
  <2>2. \A e \in todo : e[2] \in blobs
    BY <2>1 DEF CommitsStored, ContentsOf
  <2>3. rcid' = rcid /\ rpc' \in {"ok", "blobs"} /\ todo' \subseteq todo
    BY <1>10, <2>2 DEF ReadBlob
  <2> QED
    BY <1>1, <2>0, <2>1, <2>3
<1>11. CASE ReadPage
  <2>1. rpc = "page" /\ query.op = "pages" /\ query.mod \in modules
    BY <1>2, <1>3, <1>11 DEF ReadPage, Call1, CallsOK
  <2>2. rpc' \in {"ok", "turn"}
    BY <1>11 DEF ReadPage
  <2> QED
    BY <1>1, <2>1, <2>2
<1>12. CASE TurnPage
  <2>1. rpc = "turn" /\ query.op = "pages" /\ query.mod \in modules /\ rpc' = "moduleNamed"
    BY <1>2, <1>3, <1>12 DEF TurnPage, Call1, CallsOK, Goes
  <2>2. query.by # "ref"
    BY <1>3, <2>1 DEF CallsOK
  <2> QED
    BY <1>1, <2>1, <2>2
<1>13. CASE ReadOwner
  <2>1. rpc = "owner" /\ query.op = "owner" /\ rpc' = "ok"
    BY <1>2, <1>3, <1>13 DEF ReadOwner, Call1, CallsOK, Goes
  <2> QED
    BY <1>1, <2>1
<1>14. CASE ReadModules
  <2>1. /\ rpc = "modulesOf" /\ rpc' = "ok"
        /\ before \subseteq ModulesOf(OwnerOf[query.mod])
        /\ got' = ModulesOf(OwnerOf[query.mod])
    BY <1>2, <1>14 DEF ReadModules, Call1
  <2> QED
    BY <1>1, <2>1
<1> QED
  BY <1>4, <1>5, <1>6, <1>7, <1>8, <1>9, <1>10, <1>11, <1>12, <1>13, <1>14 DEF ReaderStep

\* Others lose nothing of it, and a crash is no fault of the reader.
LEMMA OthersFound ==
    ASSUME Found, Survive, NothingLost,
           \A c \in DOMAIN commits : c \in DOMAIN commits' /\ commits'[c] = commits[c]
    PROVE  Found'
<1>1. CASE hit'
  BY <1>1 DEF Found
<1>2. CASE ~hit'
  <2>1. UNCHANGED readerVars
    BY <1>2 DEF Survive
  <2>2. UNCHANGED <<rpc, query, rcid, todo, got, known, before, hit, torn>>
    BY <2>1 DEF readerVars
  <2> SUFFICES ASSUME known, ~hit
               PROVE  (CommitThere /\ NamedThere /\ FilesThere /\ OwnerThere /\ NotFailed)'
    BY <2>2 DEF Found
  <2>3. CommitThere /\ NamedThere /\ FilesThere /\ OwnerThere /\ NotFailed
    BY DEF Found
  <2>4. /\ CommitsOf(query.mod) \subseteq CommitsOf(query.mod)'
        /\ ModulesOf(OwnerOf[query.mod]) \subseteq ModulesOf(OwnerOf[query.mod])'
    BY <2>2 DEF CommitsOf, ModulesOf, NothingLost
  <2>5. CommitThere' /\ FilesThere'
    BY <2>2, <2>3 DEF CommitThere, FilesThere, NothingLost
  <2>6. NamedThere'
    BY <2>2, <2>3, <2>4 DEF NamedThere, NothingLost
  <2>7. OwnerThere' /\ NotFailed'
    BY <2>2, <2>3, <2>4 DEF OwnerThere, NotFailed, NothingLost
  <2> QED
    BY <2>5, <2>6, <2>7
<1> QED
  BY <1>1, <1>2

\* All steps together.
NothingLostNow == [NothingLost]_vars

\* All steps together.
LEMMA NextFound ==
    ASSUME CommitsStored, LabelsResolve, Exact, Found, [RNext]_allVars, CommitsStay,
           NothingLostNow
    PROVE  Found'
<1>1. /\ \A c \in DOMAIN commits : c \in DOMAIN commits' /\ commits'[c] = commits[c]
      /\ NothingLost
  BY DEF CommitsStay, NothingLostNow, NothingLost, vars, storageVars, bucketVars, metaVars
<1>2. CASE Next /\ Survive
  BY <1>1, <1>2, OthersFound
<1>3. CASE Ask
  BY <1>3, AskFound
<1>4. CASE ReaderStep \/ TurnPage
  BY <1>4, StepFound
<1>5. CASE ReadFails
  BY <1>5 DEF ReadFails, Found
<1>6. CASE UNCHANGED allVars
  <2>1. Survive
    BY <1>6 DEF allVars, Survive, vars, budget
  <2> QED
    BY <1>1, <2>1, OthersFound
<1> QED
  BY <1>2, <1>3, <1>4, <1>5, <1>6 DEF RNext

\* Whatever is there when a client asks for it is found if the storage works,
\* however the calls of the reader and those of pushes interleave: only a torn
\* manifest can keep it from being read.  Nobody deletes, and the documents
\* are kept.
THEOREM ReadsAlwaysSucceed ==
    ASSUME Durable, NoDeletions
    PROVE  RSpec => []ReadsSucceed
<1>1. RInit => Exact /\ Found
  BY InitExact, InitFound DEF RInit
<1>2. Exact /\ [RNext]_allVars /\ CommitsStay => Exact'
  BY NextExact
<1>3. CommitsStored /\ LabelsResolve /\ Exact /\ Found /\ [RNext]_allVars /\ CommitsStay
          /\ NothingLostNow => Found'
  BY NextFound
<1>4. RSpec => CommitsImmutable
  BY ReadersObserve, CommitsNeverChange
<1>5. RSpec => []CommitsStored /\ []LabelsResolve
  BY ReadersObserve, CommitsAlwaysStored, LabelsAlwaysResolve, PTL
<1>6. RSpec => [][NothingLost]_vars
  BY ReadersObserve, NothingIsEverLost
<1>7. Found => ReadsSucceed
  BY DEF Found, NotFailed, ReadsSucceed
<1> QED
  BY <1>1, <1>2, <1>3, <1>4, <1>5, <1>6, <1>7, PTL
     DEF RSpec, CommitsImmutable, CommitsStay, NothingLostNow

-----------------------------------------------------------------------------
(***************************************************************************)
(* Pages.                                                                  *)
(***************************************************************************)

\* A set of naturals has a least element.  (The library's theorem WFMin is
\* about sets; its induction theorems are about predicates.)
LEMMA Least ==
    ASSUME NEW T \in SUBSET Nat, T # {}
    PROVE  \E n \in T : \A k \in T : n <= k
<1>1. PICK n \in T : \A k \in T : ~ (<<k, n>> \in OpToRel(<, Nat))
  BY NatLessThanWellFounded, WFMin, Zenon
<1>2. \A k \in T : ~ (k < n)
  BY <1>1 DEF OpToRel
<1> QED
  BY <1>2

\* s enumerates the n elements of S, the largest first.
Enumerates(s, S, n) ==
    /\ s \in [1 .. n -> S]
    /\ \A i, j \in 1 .. n : i < j => s[i] > s[j]

\* Every finite set of naturals can be enumerated so.  (By induction on the
\* number of elements, as a least number for which it fails: take away the
\* least element, which comes last.)
LEMMA EnumerationExists ==
    ASSUME NEW S \in SUBSET Nat, IsFiniteSet(S)
    PROVE  \E s : Enumerates(s, S, Cardinality(S))
<1> DEFINE Fails(n) == \E U \in SUBSET Nat :
               IsFiniteSet(U) /\ Cardinality(U) = n /\ ~ \E s : Enumerates(s, U, n)
           B == {n \in Nat : Fails(n)}
<1>1. ASSUME B # {} PROVE FALSE
  <2>1. PICK n \in B : \A k \in B : n <= k
    BY <1>1, Least
  <2>2. PICK U \in SUBSET Nat :
            IsFiniteSet(U) /\ Cardinality(U) = n /\ ~ \E s : Enumerates(s, U, n)
    BY <2>1
  <2>3. CASE n = 0
    <3>1. U = {}
      BY <2>2, <2>3, FS_EmptySet
    <3>2. Enumerates([i \in 1 .. 0 |-> 0], U, n)
      BY <2>3, <3>1 DEF Enumerates
    <3> QED
      BY <2>2, <3>2
  <2>4. CASE n # 0
    <3>1. U # {} /\ n \in Nat
      BY <2>1, <2>2, <2>4, FS_EmptySet
    <3>2. PICK m \in U : \A k \in U : m <= k
      BY <3>1, Least
    <3>3. IsFiniteSet(U \ {m}) /\ Cardinality(U \ {m}) = n - 1
      BY <2>2, FS_RemoveElement
    <3>4. n - 1 \in Nat /\ n - 1 \notin B
      BY <2>1, <2>4, <3>1
    <3>5. PICK t : Enumerates(t, U \ {m}, n - 1)
      BY <3>3, <3>4
    <3> DEFINE s == [i \in 1 .. n |-> IF i = n THEN m ELSE t[i]]
    <3>6. \A i \in 1 .. n - 1 : t[i] \in U /\ t[i] > m
      <4> TAKE i \in 1 .. n - 1
      <4>1. t[i] \in U \ {m}
        BY <3>5 DEF Enumerates
      <4>2. t[i] \in Nat /\ m \in Nat /\ m <= t[i] /\ t[i] # m
        BY <2>2, <3>2, <4>1
      <4> QED
        BY <4>1, <4>2
    <3>7. s \in [1 .. n -> U]
      BY <3>1, <3>2, <3>6
    <3>8. ASSUME NEW i \in 1 .. n, NEW j \in 1 .. n, i < j
          PROVE  s[i] > s[j]
      <4>1. i \in 1 .. n - 1 /\ s[i] = t[i]
        BY <3>1, <3>8
      <4>2. CASE j = n
        BY <3>6, <4>1, <4>2
      <4>3. CASE j # n
        <5>1. j \in 1 .. n - 1 /\ s[j] = t[j]
          BY <3>1, <4>3
        <5> QED
          BY <3>5, <3>8, <4>1, <5>1 DEF Enumerates
      <4> QED
        BY <4>2, <4>3
    <3>9. Enumerates(s, U, n)
      BY <3>7, <3>8 DEF Enumerates
    <3> QED
      BY <2>2, <3>9
  <2> QED
    BY <2>3, <2>4
<1>2. Cardinality(S) \in Nat
  BY FS_CardinalityType
<1> QED
  BY <1>1, <1>2

\* So Descending(S) lists the elements of S, all of them.
LEMMA DescendingIs ==
    ASSUME NEW S \in SUBSET Nat, IsFiniteSet(S)
    PROVE  /\ Descending(S) \in Seq(S)
           /\ \A i, j \in DOMAIN Descending(S) : i < j => Descending(S)[i] > Descending(S)[j]
           /\ \A c \in S : \E i \in DOMAIN Descending(S) : Descending(S)[i] = c
<1> DEFINE n == Cardinality(S)
           d == Descending(S)
<1>1. n \in Nat
  BY FS_CardinalityType
<1>2. d \in [1 .. n -> S] /\ \A i, j \in 1 .. n : i < j => d[i] > d[j]
  <2>1. \E s \in [1 .. n -> S] : \A i, j \in 1 .. n : i < j => s[i] > s[j]
    BY EnumerationExists DEF Enumerates
  <2> QED
    BY <2>1 DEF Descending
<1> HIDE DEF d
<1>3. d \in Seq(S) /\ DOMAIN d = 1 .. n
  BY <1>1, <1>2
<1>4. d \in Injection(1 .. n, S)
  <2>1. ASSUME NEW i \in 1 .. n, NEW j \in 1 .. n, i # j
        PROVE  d[i] # d[j]
    <3>1. i < j \/ j < i
      BY <1>1, <2>1
    <3>2. d[i] \in Nat /\ d[j] \in Nat
      BY <1>2
    <3>3. d[i] > d[j] \/ d[j] > d[i]
      BY <1>2, <3>1
    <3> QED
      BY <3>2, <3>3
  <2> QED
    BY <1>2, <2>1 DEF Injection, IsInjective
<1>5. Cardinality(1 .. n) = Cardinality(S)
  BY <1>1, FS_Interval
<1>6. d \in Surjection(1 .. n, S)
  BY <1>4, <1>5, FS_Injection
<1> QED
  BY <1>2, <1>3, <1>6 DEF Surjection, d

\* The commits on a list of pages.
On(s) == {s[i] : i \in DOMAIN s}

\* The largest comes first.
Falling(s) == \A i, j \in DOMAIN s : i < j => s[i] > s[j]

\* The first n of the commits that are left, or all of them.
LEMMA Prefix ==
    ASSUME NEW R \in SUBSET Nat, NEW rest \in Seq(R), Falling(rest), R \subseteq On(rest),
           NEW n \in Nat, n <= Len(rest)
    PROVE  LET s == SubSeq(rest, 1, n)
           IN  /\ s \in Seq(Nat) /\ Len(s) = n /\ On(s) \subseteq R /\ Falling(s)
               /\ n = Len(rest) => R \subseteq On(s)
               /\ n # 0 =>
                      /\ s # <<>> /\ s[Len(s)] = rest[n]
                      /\ \A c \in R : c \in On(s) \/ c < rest[n]
<1>1. PICK s : s = SubSeq(rest, 1, n)
  OBVIOUS
<1>2. DOMAIN rest = 1 .. Len(rest) /\ Len(rest) \in Nat /\ \A i \in 1 .. Len(rest) : rest[i] \in R
  OBVIOUS
<1>3. s \in Seq(R) /\ Len(s) = n /\ \A i \in 1 .. n : s[i] = rest[i]
  <2>1. Len(SubSeq(rest, 1, n)) = n
    BY <1>2
  <2>2. SubSeq(rest, 1, n) \in Seq(R)
    BY <1>2
  <2>3. \A i \in 1 .. n : SubSeq(rest, 1, n)[i] = rest[i]
    BY <1>2
  <2> QED
    BY <1>1, <2>1, <2>2, <2>3
<1>4. DOMAIN s = 1 .. n /\ \A i \in 1 .. n : i \in DOMAIN rest
  BY <1>2, <1>3
<1>5. On(s) \subseteq R
  BY <1>2, <1>3, <1>4 DEF On
<1>6. s \in Seq(Nat)
  <2>1. \A i \in 1 .. Len(s) : s[i] \in Nat
    BY <1>2, <1>3, <1>4
  <2>2. s = [i \in 1 .. Len(s) |-> s[i]]
    BY <1>3
  <2> QED
    BY <1>3, <2>1, <2>2
<1>7. Falling(s)
  BY <1>3, <1>4 DEF Falling
<1>8. ASSUME n = Len(rest) PROVE R \subseteq On(s)
  BY <1>2, <1>3, <1>4, <1>8 DEF On
<1>9. ASSUME n # 0 PROVE s # <<>> /\ s[Len(s)] = rest[n]
  BY <1>3, <1>9
<1>10. ASSUME n # 0, NEW c \in R PROVE c \in On(s) \/ c < rest[n]
  <2>1. PICK i \in DOMAIN rest : rest[i] = c
    BY DEF On
  <2>2. CASE i \in 1 .. n
    BY <1>3, <1>4, <2>1, <2>2 DEF On
  <2>3. CASE i \notin 1 .. n
    <3>1. n < i /\ n \in DOMAIN rest
      BY <1>2, <1>10, <2>3
    <3>2. rest[n] > rest[i] /\ rest[n] \in Nat /\ rest[i] \in Nat
      BY <1>2, <3>1 DEF Falling
    <3> QED
      BY <2>1, <3>2
  <2> QED
    BY <2>2, <2>3
<1> QED
  BY <1>1, <1>3, <1>5, <1>6, <1>7, <1>8, <1>9, <1>10

\* A page holds the first of the commits that are left, and all of them if
\* there is no next page.
LEMMA PageIs ==
    ASSUME NEW all \in SUBSET Nat, IsFiniteSet(all), NEW tok
    PROVE  LET p == Page(all, tok)
           IN  /\ p.commits \in Seq(Nat) /\ On(p.commits) \subseteq Rest(all, tok)
               /\ Falling(p.commits)
               /\ p.next = {} => Rest(all, tok) \subseteq On(p.commits)
               /\ p.next # {} =>
                      /\ p.commits # <<>>
                      /\ p.next = {p.commits[Len(p.commits)]}
                      /\ \A c \in Rest(all, tok) :
                             c \in On(p.commits) \/ c < p.commits[Len(p.commits)]
<1>1. PICK R : R = Rest(all, tok)
  OBVIOUS
<1>2. R \in SUBSET Nat /\ IsFiniteSet(R)
  <2>1. R \in SUBSET all
    BY <1>1 DEF Rest
  <2> QED
    BY <2>1, FS_Subset
<1>3. PICK rest : rest = Descending(R)
  OBVIOUS
<1>4. rest \in Seq(R) /\ Falling(rest) /\ R \subseteq On(rest)
  BY <1>2, <1>3, DescendingIs DEF Falling, On
<1>5. PICK n : n = IF Len(rest) < PageSize THEN Len(rest) ELSE PageSize
  OBVIOUS
<1>6. PageSize \in Nat \ {0} /\ Len(rest) \in Nat
  BY <1>4, ReadersAssumption
<1>7. n \in Nat /\ n <= Len(rest) /\ (n # PageSize => n = Len(rest))
  BY <1>5, <1>6
<1>8. PICK p : p = Page(all, tok)
  OBVIOUS
<1>9. /\ p.commits = SubSeq(rest, 1, n)
      /\ p.next = IF n = PageSize /\ n < Len(rest) THEN {rest[n]} ELSE {}
  BY <1>1, <1>3, <1>5, <1>8 DEF Page
<1>10. p.next = {} => n = Len(rest)
  <2>1. CASE n < Len(rest)
    <3>1. p.next = {rest[n]}
      BY <1>7, <1>9, <2>1
    <3> QED
      BY <3>1
  <2> QED
    BY <1>6, <1>7, <2>1
<1>11. p.next # {} => n # 0 /\ p.next = {rest[n]}
  BY <1>6, <1>9
<1>12. /\ p.commits \in Seq(Nat) /\ On(p.commits) \subseteq R /\ Falling(p.commits)
       /\ n = Len(rest) => R \subseteq On(p.commits)
       /\ n # 0 =>
              /\ p.commits # <<>> /\ p.commits[Len(p.commits)] = rest[n]
              /\ \A c \in R : c \in On(p.commits) \/ c < rest[n]
  <2>1. PICK s : s = SubSeq(rest, 1, n)
    OBVIOUS
  <2>2. /\ s \in Seq(Nat) /\ On(s) \subseteq R /\ Falling(s)
        /\ n = Len(rest) => R \subseteq On(s)
        /\ n # 0 => s # <<>> /\ s[Len(s)] = rest[n] /\ \A c \in R : c \in On(s) \/ c < rest[n]
    BY <1>2, <1>4, <1>7, <2>1, Prefix
  <2>3. p.commits = s
    BY <1>9, <2>1
  <2> QED
    BY <2>2, <2>3
<1> QED
  BY <1>1, <1>8, <1>10, <1>11, <1>12

\* The commits that can be read are finitely many.
LEMMA FinitelyMany ==
    ASSUME TypeOK, FreshIDs
    PROVE  DOMAIN commits \in SUBSET Nat /\ IsFiniteSet(DOMAIN commits)
<1>1. DOMAIN commits \in SUBSET Nat /\ clock \in Nat
  BY DEF TypeOK, StorageTypeOK, CounterTypeOK, CommitIDs
<1>2. \A c \in DOMAIN commits : c <= clock
  BY <1>1 DEF FreshIDs
<1> QED
  BY <1>1, <1>2, FS_BoundedSetOfNaturals

\* So are those of a module.
LEMMA CommitsOfFinite ==
    ASSUME TypeOK, FreshIDs, NEW m
    PROVE  CommitsOf(m) \in SUBSET Nat /\ IsFiniteSet(CommitsOf(m))
<1>1. CommitsOf(m) \in SUBSET DOMAIN commits
  BY DEF CommitsOf
<1> QED
  BY <1>1, FinitelyMany, FS_Subset

\* Between the pages: what was there at the beginning is listed, or is older
\* than the commit at which the next page begins.
Behind ==
    \/ token = {} /\ listed = <<>> /\ before \subseteq CommitsOf(query.mod)
    \/ /\ listed # <<>> /\ token = {listed[Len(listed)]}
       /\ token \subseteq CommitsOf(query.mod)
       /\ before \subseteq CommitsOf(query.mod)
       /\ \A c \in before : c \in On(listed) \/ c < listed[Len(listed)]

Turning ==
    query.op = "pages" =>
        /\ listed \in Seq(Nat) /\ Falling(listed)
        /\ rpc \in {"moduleNamed", "page", "turn"} => Behind
        /\ rpc = "ok" => before \subseteq On(listed)
        /\ rpc \in {"idle", "moduleNamed", "page", "turn", "ok", "error"}

\* The next page goes on where the last one ended.
LEMMA PageTurns ==
    ASSUME TypeOK, FreshIDs, Turning, CallsOK, ReadPage
    PROVE  Turning'
<1> DEFINE all == CommitsOf(query.mod)
           page == Page(all, token)
<1>1. /\ rpc = "page" /\ query.op = "pages" /\ UNCHANGED <<query, before, commits>>
      /\ rpc' = IF page.next = {} THEN "ok" ELSE "turn"
      /\ listed' = listed \o page.commits /\ token' = page.next
  BY DEF ReadPage, Call1, CallsOK, vars, storageVars, metaVars
<1>2. all \in SUBSET Nat /\ IsFiniteSet(all) /\ CommitsOf(query.mod)' = all
  <2>1. CommitsOf(query.mod)' = all
    BY <1>1 DEF CommitsOf
  <2> QED
    BY <2>1, CommitsOfFinite
<1>3. /\ Behind /\ listed \in Seq(Nat) /\ Falling(listed)
      /\ before \subseteq all
  BY <1>1 DEF Turning, Behind
<1> HIDE DEF all
<1> DEFINE p == page.commits
           R == Rest(all, token)
<1>4. /\ p \in Seq(Nat) /\ On(p) \subseteq R /\ Falling(p)
      /\ page.next = {} => R \subseteq On(p)
      /\ page.next # {} =>
             /\ p # <<>> /\ page.next = {p[Len(p)]}
             /\ \A c \in R : c \in On(p) \/ c < p[Len(p)]
  BY <1>2, PageIs
<1>5. R \subseteq all
  BY DEF Rest
<1>6. \A i \in DOMAIN listed : \A c \in R : listed[i] > c
  <2>1. CASE listed = <<>>
    BY <2>1
  <2>2. CASE listed # <<>>
    <3>1. token = {listed[Len(listed)]} /\ token \subseteq all
      BY <1>3, <2>2 DEF Behind, all
    <3>2. \A c \in R : c < listed[Len(listed)]
      BY <3>1 DEF Rest
    <3> SUFFICES ASSUME NEW i \in DOMAIN listed, NEW c \in R
                 PROVE  listed[i] > c
      OBVIOUS
    <3>0. c \in Nat
      BY <1>2, <1>5
    <3>3. /\ Len(listed) \in DOMAIN listed /\ c \in Nat
          /\ listed[i] \in Nat /\ listed[Len(listed)] \in Nat
          /\ i = Len(listed) \/ i < Len(listed)
      <4>1. PICK l : l = listed
        OBVIOUS
      <4>2. l \in Seq(Nat) /\ l # <<>> /\ i \in DOMAIN l
        BY <1>3, <2>2, <4>1
      <4>3. /\ Len(l) \in DOMAIN l /\ l[i] \in Nat /\ l[Len(l)] \in Nat
            /\ i = Len(l) \/ i < Len(l)
        BY <4>2
      <4> QED
        BY <3>0, <4>1, <4>3
    <3>4. listed[i] = listed[Len(listed)] \/ listed[i] > listed[Len(listed)]
      BY <1>3, <3>3 DEF Falling
    <3> QED
      BY <3>2, <3>3, <3>4
  <2> QED
    BY <2>1, <2>2
<1>7. \A c \in before : c \in On(listed) \/ c \in R
  <2>1. CASE listed = <<>>
    <3>1. token = {}
      BY <1>3, <2>1 DEF Behind
    <3> QED
      BY <1>3, <3>1 DEF Rest
  <2>2. CASE listed # <<>>
    <3>1. token = {listed[Len(listed)]}
          /\ \A c \in before : c \in On(listed) \/ c < listed[Len(listed)]
      BY <1>3, <2>2 DEF Behind
    <3> QED
      BY <1>3, <3>1 DEF Rest
  <2> QED
    BY <2>1, <2>2
<1> HIDE DEF R, p
<1>8. PICK l, q : l = listed /\ q = p
  OBVIOUS
<1>9. /\ l \o q \in Seq(Nat) /\ DOMAIN (l \o q) = 1 .. Len(l) + Len(q)
      /\ \A i \in 1 .. Len(l) : i \in DOMAIN l /\ (l \o q)[i] = l[i]
      /\ \A i \in Len(l) + 1 .. Len(l) + Len(q) :
             i - Len(l) \in DOMAIN q /\ (l \o q)[i] = q[i - Len(l)]
  BY <1>3, <1>4, <1>8
<1>10. Len(l) \in Nat /\ Len(q) \in Nat /\ DOMAIN l = 1 .. Len(l) /\ DOMAIN q = 1 .. Len(q)
  BY <1>3, <1>4, <1>8
<1>11. On(l \o q) = On(l) \cup On(q)
  <2>1. On(l \o q) \subseteq On(l) \cup On(q)
    <3> SUFFICES ASSUME NEW i \in DOMAIN (l \o q)
                 PROVE  (l \o q)[i] \in On(l) \cup On(q)
      BY DEF On
    <3>1. i \in 1 .. Len(l) \/ i \in Len(l) + 1 .. Len(l) + Len(q)
      BY <1>9, <1>10
    <3> QED
      BY <1>9, <3>1 DEF On
  <2>2. On(l) \subseteq On(l \o q)
    <3> SUFFICES ASSUME NEW i \in DOMAIN l PROVE l[i] \in On(l \o q)
      BY DEF On
    <3>1. i \in 1 .. Len(l) /\ i \in DOMAIN (l \o q)
      BY <1>9, <1>10
    <3> QED
      BY <1>9, <3>1 DEF On
  <2>3. On(q) \subseteq On(l \o q)
    <3> SUFFICES ASSUME NEW i \in DOMAIN q PROVE q[i] \in On(l \o q)
      BY DEF On
    <3>1. /\ Len(l) + i \in Len(l) + 1 .. Len(l) + Len(q)
          /\ Len(l) + i \in DOMAIN (l \o q) /\ (Len(l) + i) - Len(l) = i
      BY <1>9, <1>10
    <3> QED
      BY <1>9, <3>1 DEF On
  <2> QED
    BY <2>1, <2>2, <2>3
<1>12. Falling(l \o q)
  <2> SUFFICES ASSUME NEW i \in DOMAIN (l \o q), NEW j \in DOMAIN (l \o q), i < j
               PROVE  (l \o q)[i] > (l \o q)[j]
    BY DEF Falling
  <2>1. /\ i \in 1 .. Len(l) \/ i \in Len(l) + 1 .. Len(l) + Len(q)
        /\ j \in 1 .. Len(l) \/ j \in Len(l) + 1 .. Len(l) + Len(q)
    BY <1>9, <1>10
  <2>2. CASE j \in 1 .. Len(l)
    <3>1. i \in 1 .. Len(l)
      BY <1>9, <1>10, <2>2
    <3> QED
      BY <1>3, <1>8, <1>9, <2>2, <3>1 DEF Falling
  <2>3. CASE i \in 1 .. Len(l) /\ j \in Len(l) + 1 .. Len(l) + Len(q)
    <3>1. q[j - Len(l)] \in R
      BY <1>4, <1>8, <1>9, <2>3 DEF On
    <3> QED
      BY <1>6, <1>8, <1>9, <2>3, <3>1
  <2>4. CASE i \in Len(l) + 1 .. Len(l) + Len(q) /\ j \in Len(l) + 1 .. Len(l) + Len(q)
    <3>1. i - Len(l) < j - Len(l)
      BY <1>10, <2>4
    <3> QED
      BY <1>4, <1>8, <1>9, <2>4, <3>1 DEF Falling
  <2> QED
    BY <2>1, <2>2, <2>3, <2>4
<1>13. listed' = l \o q /\ before' = before /\ query' = query
  BY <1>1, <1>8 DEF p
<1>14. CASE page.next = {}
  <2>1. rpc' = "ok" /\ before \subseteq On(l \o q)
    BY <1>1, <1>4, <1>7, <1>8, <1>11, <1>14
  <2> QED
    BY <1>9, <1>12, <1>13, <2>1 DEF Turning
<1>15. CASE page.next # {}
  <2>1. rpc' = "turn" /\ q # <<>> /\ token' = {q[Len(q)]}
    BY <1>1, <1>4, <1>8, <1>15
  <2>2. /\ Len(l \o q) = Len(l) + Len(q) /\ l \o q # <<>>
        /\ (l \o q)[Len(l \o q)] = q[Len(q)] /\ Len(q) \in DOMAIN q
    BY <1>3, <1>4, <1>8, <2>1
  <2>3. q[Len(q)] \in R
    BY <1>4, <1>8, <2>2 DEF On
  <2>4. ASSUME NEW c \in before
        PROVE  c \in On(l \o q) \/ c < q[Len(q)]
    BY <1>4, <1>7, <1>8, <1>11, <1>15
  <2>5. Behind'
    BY <1>2, <1>3, <1>5, <1>13, <2>1, <2>2, <2>3, <2>4 DEF Behind
  <2> QED
    BY <1>9, <1>12, <1>13, <2>1, <2>5 DEF Turning
<1> QED
  BY <1>14, <1>15

\* Nothing of this changes while commits are only added.
LEMMA BehindStays ==
    ASSUME Behind, UNCHANGED <<query, before, listed, token>>,
           \A c \in DOMAIN commits : c \in DOMAIN commits' /\ commits'[c] = commits[c]
    PROVE  Behind'
<1>1. CommitsOf(query.mod) \subseteq CommitsOf(query.mod)'
  BY DEF CommitsOf
<1>2. PICK l : l = listed
  OBVIOUS
<1>3. PICK all, more : all = CommitsOf(query.mod) /\ more = CommitsOf(query.mod)'
  OBVIOUS
<1>4. \/ token = {} /\ l = <<>> /\ before \subseteq all
      \/ /\ l # <<>> /\ token = {l[Len(l)]} /\ token \subseteq all /\ before \subseteq all
         /\ \A c \in before : c \in On(l) \/ c < l[Len(l)]
  BY <1>2, <1>3 DEF Behind
<1>5. /\ token' = token /\ listed' = l /\ before' = before /\ all \subseteq more
      /\ CommitsOf(query.mod)' = more
  BY <1>1, <1>2, <1>3
<1> QED
  BY <1>3, <1>4, <1>5 DEF Behind

\* So the pages stay in order while others push.
LEMMA TurningStays ==
    ASSUME Turning, UNCHANGED <<query, before, listed, token>>,
           \A c \in DOMAIN commits : c \in DOMAIN commits' /\ commits'[c] = commits[c],
           rpc' \in {rpc, "error"}
    PROVE  Turning'
<1>1. query.op = "pages" /\ Behind => Behind'
  BY BehindStays
<1> QED
  BY <1>1 DEF Turning

\* A client that begins has all pages before it.
LEMMA AskTurning ==
    ASSUME Ask
    PROVE  Turning'
<1>1. PICK q \in Queries, c \in DOMAIN commits \cup ForeignIDs \cup {0} :
          /\ query' = q
          /\ before' = IF q.op = "pages" THEN CommitsOf(q.mod)
                       ELSE IF q.op = "modules" THEN ModulesOf(OwnerOf[q.mod])
                       ELSE {}
          /\ rpc' = FirstCall(q)
  BY DEF Ask
<1>2. listed' = <<>> /\ token' = {} /\ commits' = commits
  BY DEF Ask, vars, storageVars, metaVars
<1>3. CASE q.op = "pages"
  <2>1. rpc' = "moduleNamed" /\ before' = CommitsOf(query.mod)'
    BY <1>1, <1>2, <1>3 DEF FirstCall, CommitsOf
  <2>2. Behind'
    BY <1>2, <2>1 DEF Behind
  <2>3. Falling(<<>>) /\ <<>> \in Seq(Nat)
    BY DEF Falling
  <2> QED
    BY <1>2, <2>1, <2>2, <2>3 DEF Turning
<1>4. CASE q.op # "pages"
  BY <1>1, <1>4 DEF Turning
<1> QED
  BY <1>3, <1>4

\* All steps together.
LEMMA NextTurning ==
    ASSUME TypeOK, FreshIDs, CallsOK, Turning, [RNext]_allVars, CommitsStay
    PROVE  Turning'
<1>1. \A c \in DOMAIN commits : c \in DOMAIN commits' /\ commits'[c] = commits[c]
  BY DEF CommitsStay, vars, storageVars, metaVars
<1>2. CASE (Next /\ Survive) \/ UNCHANGED allVars
  <2>1. UNCHANGED <<query, before, listed, token>> /\ rpc' \in {rpc, "error"}
    BY <1>2 DEF Survive, allVars, readerVars
  <2> QED
    BY <1>1, <2>1, TurningStays
<1>3. CASE Ask
  BY <1>3, AskTurning
<1>4. CASE ReadPage
  BY <1>4, PageTurns
<1>5. CASE ReadModuleNamed \/ TurnPage
  <2>1. /\ UNCHANGED <<query, before, listed, token>> /\ rpc \in {"moduleNamed", "turn"}
        /\ query.op = "pages" => rpc' \in {"error", "page", "moduleNamed"}
    <3>1. CASE TurnPage
      BY <3>1 DEF TurnPage, Call1, Goes
    <3>2. CASE ReadModuleNamed
      <4>1. query.op = "pages" => rpc' \in {"error", "page"}
        BY <3>2 DEF ReadModuleNamed, Goes, CallsOK
      <4> QED
        BY <3>2, <4>1 DEF ReadModuleNamed, Call1, Goes
    <3> QED
      BY <1>5, <3>1, <3>2
  <2>2. query.op = "pages" => Behind'
    BY <1>1, <2>1, BehindStays DEF Turning
  <2> QED
    BY <2>1, <2>2 DEF Turning
<1>6. CASE \/ ReadCommit \/ ReadModuleOf \/ ReadLabel \/ ReadCommitOf \/ ReadManifest
           \/ ReadBlob \/ ReadOwner \/ ReadModules
  <2>1. query' = query
    BY <1>6 DEF ReadCommit, ReadModuleOf, ReadLabel, ReadCommitOf, ReadManifest, ReadBlob,
         ReadOwner, ReadModules, Call1
  <2>2. rpc \in OfCommit \cup OfFiles \cup {"owner", "modulesOf"}
    BY <1>6 DEF ReadCommit, ReadModuleOf, ReadLabel, ReadCommitOf, ReadManifest, ReadBlob,
         ReadOwner, ReadModules, Call1, OfCommit, OfFiles
  <2>3. query.op # "pages"
    BY <2>2 DEF CallsOK
  <2> QED
    BY <2>1, <2>3 DEF Turning
<1>7. CASE ReadFails
  <2>1. /\ UNCHANGED <<query, before, listed, token>>
        /\ query.op = "pages" => rpc' = "error"
    BY <1>7 DEF ReadFails, Goes, CallsOK
  <2>2. CASE query.op = "pages"
    BY <1>1, <2>1, <2>2, TurningStays
  <2> QED
    BY <2>1, <2>2 DEF Turning
<1> QED
  BY <1>2, <1>3, <1>4, <1>5, <1>6, <1>7 DEF RNext, ReaderStep

\* Who follows the pages to the end has seen, each of them once and the newer
\* ones first, all the commits that were there when he began, whatever others
\* push between two pages.
THEOREM PagesAlwaysComplete ==
    ASSUME Durable
    PROVE  RSpec => []PagesComplete
<1>1. RInit => Exact /\ Turning
  BY InitExact DEF RInit, ReaderInit, NoQuery, Turning
<1>2. Exact /\ [RNext]_allVars /\ CommitsStay => Exact'
  BY NextExact
<1>3. TypeOK /\ FreshIDs /\ CallsOK /\ Turning /\ [RNext]_allVars /\ CommitsStay => Turning'
  BY NextTurning
<1>4. Integrity => TypeOK /\ FreshIDs
  BY DEF Integrity
<1>5. Exact => CallsOK
  BY DEF Exact
<1>6. RSpec => CommitsImmutable
  BY ReadersObserve, CommitsNeverChange
<1>7. RSpec => []Integrity
  BY ReadersObserve, IntegrityHolds, PTL
<1>8. Turning => PagesComplete
  BY DEF Turning, PagesComplete, Falling, On
<1> QED
  BY <1>1, <1>2, <1>3, <1>4, <1>5, <1>6, <1>7, <1>8, PTL
     DEF RSpec, CommitsImmutable, CommitsStay

-----------------------------------------------------------------------------
(***************************************************************************)
(* The types of the reader.                                                *)
(***************************************************************************)

\* When the files of a commit are looked up, it is there.
Looked == rpc \in {"moduleOf", "manifest"} => rcid \subseteq DOMAIN commits

Typed == ReaderTypeOK /\ Looked

\* One ID, or none.
LEMMA OneID ==
    /\ {} \subseteq CommitIDs /\ Cardinality({}) <= 1
    /\ \A c \in CommitIDs : {c} \subseteq CommitIDs /\ Cardinality({c}) <= 1
BY FS_EmptySet, FS_Singleton DEF CommitIDs

\* A question begins with one of four calls.
LEMMA FirstCallType ==
    ASSUME NEW q
    PROVE  FirstCall(q) \in {"owner", "modulesOf", "moduleNamed", "commit"}
BY DEF FirstCall

\* It is known or not: the cases of Known leave no question out.
LEMMA KnownType ==
    ASSUME NEW q \in Query, q.by = "ref" => q.op = "files", NEW c
    PROVE  Known(q, c) \in BOOLEAN
<1>1. q.op \in Ops /\ q.by \in {"id", "name", "ref"}
  BY DEF Query
<1>2. CASE q.op \in {"files", "commit"} /\ q.by = "id"
  BY <1>2 DEF Known
<1>3. CASE q.op \in {"files", "commit"} /\ q.by = "name"
  BY <1>3 DEF Known
<1>4. CASE q.by = "ref"
  <2>1. q.op = "files"
    BY <1>4
  <2>2. Known(q, c) = (q.mod \in modules /\ c \in CommitsOf(q.mod))
    BY <1>4, <2>1 DEF Known
  <2> QED
    BY <2>2
<1>5. CASE q.op \in {"pages", "module"}
  <2>1. q.by # "ref" /\ q.op \notin {"files", "commit", "modules", "owner"}
    BY <1>5
  <2>2. Known(q, c) = (q.mod \in modules)
    BY <1>5, <2>1 DEF Known
  <2> QED
    BY <2>2
<1>6. CASE q.op = "modules"
  BY <1>1, <1>6 DEF Known
<1>7. CASE q.op = "owner"
  BY <1>1, <1>7 DEF Known
<1> QED
  BY <1>1, <1>2, <1>3, <1>4, <1>5, <1>6, <1>7 DEF Ops

\* At the start there is no question yet, but one is written down.
LEMMA InitTyped ==
    ASSUME Modules # {}, ReaderInit
    PROVE  Typed
<1>1. NoQuery \in Query
  BY RegistryAssumption DEF NoQuery, Query, Ops
<1>2. 0 \in 0 .. MaxReads /\ 0 \in 0 .. MaxReadFaults
  BY ReadersAssumption
<1>3. rpc = "idle" /\ query \in Query
  BY <1>1 DEF ReaderInit
<1>4. /\ rcid = {} /\ token = {} /\ Cardinality(rcid) <= 1 /\ Cardinality(token) <= 1
      /\ todo = {} /\ got = {} /\ before = {} /\ listed \in Seq(CommitIDs)
  BY OneID DEF ReaderInit
<1>5. {known, hit, torn} \subseteq BOOLEAN
  BY DEF ReaderInit
<1>6. reads \in 0 .. MaxReads /\ readFaults \in 0 .. MaxReadFaults
  BY <1>2 DEF ReaderInit
<1> QED
  BY <1>3, <1>4, <1>5, <1>6 DEF Typed, ReaderTypeOK, Looked, ReaderStages

\* A question sets all variables of the reader.
LEMMA AskTyped ==
    ASSUME TypeOK, Typed, Ask
    PROVE  Typed'
<1>1. PICK q \in Queries, c \in DOMAIN commits \cup ForeignIDs \cup {0} :
          /\ query' = q
          /\ rcid' = IF q.op \in {"files", "commit"} /\ q.by # "name" THEN {c} ELSE {}
          /\ known' = Known(q, c)
          /\ before' = IF q.op = "pages" THEN CommitsOf(q.mod)
                       ELSE IF q.op = "modules" THEN ModulesOf(OwnerOf[q.mod])
                       ELSE {}
          /\ rpc' = FirstCall(q)
  BY DEF Ask
<1>2. q \in Query /\ (q.by = "ref" => q.op = "files")
  BY ReadersAssumption
<1>3. known' \in BOOLEAN
  BY <1>1, <1>2, KnownType
<1>4. rpc' \in {"owner", "modulesOf", "moduleNamed", "commit"}
  BY <1>1, FirstCallType
<1>5. c \in CommitIDs
  <2>1. DOMAIN commits \subseteq CommitIDs
    BY DEF TypeOK, StorageTypeOK
  <2>2. ForeignIDs \cup {0} \subseteq CommitIDs
    BY RegistryAssumption DEF CommitIDs
  <2> QED
    BY <2>1, <2>2
<1>6. rcid' \subseteq CommitIDs /\ Cardinality(rcid') <= 1
  BY <1>1, <1>5, OneID
<1>7. before' \subseteq CommitIDs \cup Modules
  BY <1>1 DEF TypeOK, StorageTypeOK, CommitsOf, ModulesOf
<1>8. reads' \in 0 .. MaxReads
  BY ReadersAssumption DEF Ask, Typed, ReaderTypeOK
<1>9. /\ todo' = {} /\ got' = {} /\ listed' = <<>> /\ token' = {}
      /\ hit' = FALSE /\ torn' = FALSE /\ readFaults' = readFaults
  BY DEF Ask
<1>10. listed' \in Seq(CommitIDs) /\ token' \subseteq CommitIDs /\ Cardinality(token') <= 1
  BY <1>9, OneID
<1> QED
  BY <1>1, <1>2, <1>3, <1>4, <1>6, <1>7, <1>8, <1>9, <1>10
     DEF Typed, ReaderTypeOK, Looked, ReaderStages, Reading

\* A step that only goes on.
LEMMA GoesTyped ==
    ASSUME Typed, NEW s \in ReaderStages, Goes(s), UNCHANGED <<vars, query, known, before, reads>>,
           hit' \in BOOLEAN, readFaults' \in 0 .. MaxReadFaults,
           s \in {"moduleOf", "manifest"} => rcid \subseteq DOMAIN commits
    PROVE  Typed'
<1>1. UNCHANGED <<query, known, before, reads, rcid, todo, got, listed, token, torn, commits>>
      /\ rpc' = s
  BY DEF Goes, vars, storageVars, metaVars
<1>2. Looked'
  BY <1>1 DEF Looked
<1>3. ReaderTypeOK'
  BY <1>1 DEF Typed, ReaderTypeOK
<1> QED
  BY <1>2, <1>3 DEF Typed

\* Each step of the reader keeps their types.
LEMMA StepTyped ==
    ASSUME TypeOK, FreshIDs, Typed, ReaderStep \/ TurnPage
    PROVE  Typed'
<1>1. /\ UNCHANGED <<vars, query, known, before, hit, reads, readFaults>>
      /\ hit' \in BOOLEAN /\ readFaults' \in 0 .. MaxReadFaults
      /\ commits' = commits
  BY DEF ReaderStep, TurnPage, ReadCommit, ReadModuleOf, ReadModuleNamed, ReadLabel,
         ReadCommitOf, ReadManifest, ReadBlob, ReadPage, ReadOwner, ReadModules, Call1,
         Typed, ReaderTypeOK, vars, storageVars, metaVars
<1>2. {"moduleOf", "error", "manifest", "ok", "page", "commitOf", "label", "commit",
        "moduleNamed", "unknown", "blobs", "turn"} \subseteq ReaderStages
  BY DEF ReaderStages, Reading
<1>3. ASSUME NEW s \in ReaderStages, Goes(s),
             s \in {"moduleOf", "manifest"} => rcid \subseteq DOMAIN commits
      PROVE  Typed'
  BY <1>1, <1>3, GoesTyped
<1>4. CASE ReadCommit
  <2>1. CASE rcid \subseteq DOMAIN commits
    BY <1>2, <1>3, <1>4, <2>1 DEF ReadCommit
  <2>2. CASE ~(rcid \subseteq DOMAIN commits)
    BY <1>2, <1>3, <1>4, <2>2 DEF ReadCommit
  <2> QED
    BY <2>1, <2>2
<1>5. CASE ReadModuleOf
  <2>1. rcid \subseteq DOMAIN commits
    BY <1>5 DEF ReadModuleOf, Call1, Typed, Looked
  <2>2. Goes("error") \/ Goes("manifest") \/ Goes("ok")
    BY <1>5 DEF ReadModuleOf
  <2> QED
    BY <1>2, <1>3, <2>1, <2>2
<1>6. CASE ReadModuleNamed
  <2>1. \E s \in {"error", "ok", "page", "commitOf", "label"} : Goes(s)
    BY <1>6 DEF ReadModuleNamed
  <2> QED
    BY <1>2, <1>3, <2>1
<1>7. CASE ReadLabel
  <2>1. CASE Goes("error")
    BY <1>2, <1>3, <2>1
  <2>2. ASSUME NEW l \in DOMAIN labels, rpc' = "commitOf", rcid' = {labels[l]},
               UNCHANGED <<todo, got, listed, token, torn>>
        PROVE  Typed'
    <3>1. labels[l] \in CommitIDs
      BY DEF TypeOK, StorageTypeOK
    <3>2. rcid' \subseteq CommitIDs /\ Cardinality(rcid') <= 1
      BY <2>2, <3>1, OneID
    <3> QED
      BY <1>1, <1>2, <2>2, <3>2 DEF Typed, ReaderTypeOK, Looked
  <2> QED
    BY <1>7, <2>1, <2>2 DEF ReadLabel
<1>8. CASE ReadCommitOf
  <2>1. \E s \in {"error", "commit", "ok"} : Goes(s)
    BY <1>8 DEF ReadCommitOf
  <2> QED
    BY <1>2, <1>3, <2>1
<1>9. CASE ReadManifest
  <2>1. rcid \subseteq DOMAIN commits
    BY <1>9 DEF ReadManifest, Call1, Typed, Looked
  <2>2. PICK c \in rcid :
            LET files == commits[c].files IN
            IF files \notin manifests THEN Goes("error")
            ELSE /\ torn' = (torn \/ files \in tornManifests)
                 /\ \/ \E listing \in Listings(files) :
                           /\ todo' = listing
                           /\ rpc' = IF listing = {} THEN "ok" ELSE "blobs"
                    \/ /\ files \in tornManifests
                       /\ rpc' = "error" /\ UNCHANGED todo
                 /\ UNCHANGED <<rcid, got, listed, token>>
    BY <1>9 DEF ReadManifest
  <2>3. commits[c].files \subseteq Entries
    BY <2>1 DEF TypeOK, StorageTypeOK, CommitLike, Manifests
  <2>4. CASE Goes("error")
    BY <1>2, <1>3, <2>4
  <2>5. CASE ~Goes("error")
    <3>1. /\ torn' \in BOOLEAN /\ todo' \subseteq Entries /\ rpc' \in {"ok", "blobs", "error"}
          /\ UNCHANGED <<rcid, got, listed, token>>
      BY <2>2, <2>3, <2>5 DEF Listings, Typed, ReaderTypeOK
    <3> QED
      BY <1>1, <1>2, <3>1 DEF Typed, ReaderTypeOK, Looked
  <2> QED
    BY <2>4, <2>5
<1>10. CASE ReadBlob
  <2>1. CASE Goes("error")
    BY <1>2, <1>3, <2>1
  <2>2. CASE ~Goes("error")
    <3>1. /\ torn' \in BOOLEAN /\ todo' \subseteq todo /\ got' \subseteq got \cup todo
          /\ rpc' \in {"ok", "blobs"} /\ UNCHANGED <<rcid, listed, token>>
      BY <1>10, <2>2 DEF ReadBlob, Typed, ReaderTypeOK
    <3> QED
      BY <1>1, <1>2, <3>1 DEF Typed, ReaderTypeOK, Looked
  <2> QED
    BY <2>1, <2>2
<1>11. CASE ReadPage
  <2> DEFINE all == CommitsOf(query.mod)
             page == Page(all, token)
  <2>1. /\ listed' = listed \o page.commits /\ token' = page.next
        /\ rpc' \in {"ok", "turn"} /\ UNCHANGED <<rcid, todo, got, torn>>
    BY <1>11 DEF ReadPage
  <2>2. all \in SUBSET Nat /\ IsFiniteSet(all)
    BY CommitsOfFinite
  <2> HIDE DEF all
  <2>3. /\ page.commits \in Seq(Nat)
        /\ page.next = {} \/ (page.commits # <<>> /\ page.next = {page.commits[Len(page.commits)]})
    BY <2>2, PageIs
  <2>4. PICK p, l : p = page.commits /\ l = listed
    OBVIOUS
  <2>5. l \in Seq(Nat) /\ p \in Seq(Nat)
    BY <2>3, <2>4 DEF Typed, ReaderTypeOK, CommitIDs
  <2>6. l \o p \in Seq(Nat) /\ (p # <<>> => p[Len(p)] \in Nat)
    BY <2>5
  <2>7. listed' \in Seq(CommitIDs)
    BY <2>1, <2>4, <2>6 DEF CommitIDs
  <2>8. token' = {} \/ \E c \in CommitIDs : token' = {c}
    BY <2>1, <2>3, <2>4, <2>6 DEF CommitIDs
  <2>9. token' \subseteq CommitIDs /\ Cardinality(token') <= 1
    BY <2>8, OneID
  <2> QED
    BY <1>1, <1>2, <2>1, <2>7, <2>9 DEF Typed, ReaderTypeOK, Looked
<1>12. CASE TurnPage
  BY <1>2, <1>3, <1>12 DEF TurnPage
<1>13. CASE ReadOwner
  <2>1. \E s \in {"ok", "error", "unknown"} : Goes(s)
    BY <1>13 DEF ReadOwner
  <2> QED
    BY <1>2, <1>3, <2>1
<1>14. CASE ReadModules
  <2>1. /\ rpc' = "ok" /\ got' \subseteq Modules /\ UNCHANGED <<rcid, todo, listed, token, torn>>
    BY <1>14 DEF ReadModules, ModulesOf, TypeOK, StorageTypeOK
  <2> QED
    BY <1>1, <1>2, <2>1 DEF Typed, ReaderTypeOK, Looked
<1> QED
  BY <1>4, <1>5, <1>6, <1>7, <1>8, <1>9, <1>10, <1>11, <1>12, <1>13, <1>14 DEF ReaderStep

\* Only a crash takes commits away, and with them the reader.
LEMMA CommitsStayOrCrash ==
    ASSUME [Next]_vars, crashes' = crashes, TypeOK
    PROVE  DOMAIN commits \subseteq DOMAIN commits'
<1>1. CASE UNCHANGED metaVars
  BY <1>1 DEF metaVars
<1>2. ASSUME NEW r \in Requests, Step(r)
      PROVE  DOMAIN commits \subseteq DOMAIN commits'
  BY <1>2 DEF Step, Resolve, GetModule, GetOwner, PutOwner, CreateOwner,
       PutModule, CreateModule, Reload, DeleteLookup, RemoveModule,
       DeleteModule, ListOwners, ListModules, Probe, ReadDigests, BlobExists,
       BlobWrite, ManifestExists, ManifestWrite, Dedup, NewID, PutCommit,
       CreateCommit, Bind, UpdateLabel, CreateOrUpdateLabel, storageVars, metaVars
<1>3. ASSUME NEW r \in Requests, Start(r) \/ FailSwallowed(r) \/ FailWrite(r) \/ FailCall(r)
      PROVE  UNCHANGED metaVars
  BY <1>3 DEF Start, FailSwallowed, FailWrite, FailCall, storageVars
<1>4. ~Crash
  BY DEF Crash, TypeOK, CounterTypeOK
<1>5. ASSUME Quiet \/ UNCHANGED vars PROVE UNCHANGED metaVars
  BY <1>5 DEF Quiet, vars, storageVars
<1> QED
  BY <1>1, <1>2, <1>3, <1>4, <1>5 DEF Next

\* All steps together.
LEMMA NextTyped ==
    ASSUME TypeOK, FreshIDs, Typed, [RNext]_allVars
    PROVE  Typed'
<1>1. CASE Next /\ Survive
  <2>1. /\ UNCHANGED <<query, rcid, todo, got, listed, token, known, before, torn, reads,
                       readFaults>>
        /\ hit' \in BOOLEAN /\ rpc' \in {rpc, "error"}
        /\ rpc' # "error" /\ crashes' # crashes => rpc \notin Reading
    BY <1>1 DEF Survive, readerVars, Typed, ReaderTypeOK
  <2>2. ReaderTypeOK'
    BY <2>1 DEF Typed, ReaderTypeOK, ReaderStages
  <2>3. Looked'
    BY <1>1, <2>1, CommitsStayOrCrash DEF Looked, Typed, Reading
  <2> QED
    BY <2>2, <2>3 DEF Typed
<1>2. CASE Ask
  BY <1>2, AskTyped
<1>3. CASE ReaderStep \/ TurnPage
  BY <1>3, StepTyped
<1>4. CASE ReadFails
  <2>1. /\ UNCHANGED <<vars, query, known, before, reads>> /\ hit' \in BOOLEAN
        /\ readFaults' \in 0 .. MaxReadFaults
    BY <1>4, ReadersAssumption DEF ReadFails, Typed, ReaderTypeOK
  <2>2. \E s \in {"unknown", "ok", "error"} : Goes(s)
    BY <1>4 DEF ReadFails
  <2> QED
    BY <2>1, <2>2, GoesTyped DEF ReaderStages
<1>5. CASE UNCHANGED allVars
  BY <1>5 DEF allVars, vars, storageVars, metaVars, readerVars, Typed, ReaderTypeOK, Looked
<1> QED
  BY <1>1, <1>2, <1>3, <1>4, <1>5 DEF RNext

\* The reader's variables have their types, its list of commits among them:
\* there are ever only finitely many commits to be listed.
THEOREM ReaderTypeCorrect ==
    ASSUME Modules # {}
    PROVE  RSpec => []ReaderTypeOK
<1>1. RInit => Typed
  BY InitTyped DEF RInit
<1>2. TypeOK /\ FreshIDs /\ Typed /\ [RNext]_allVars => Typed'
  BY NextTyped
<1>3. Integrity => TypeOK /\ FreshIDs
  BY DEF Integrity
<1>4. RSpec => []Integrity
  BY ReadersObserve, IntegrityHolds, PTL
<1>5. Typed => ReaderTypeOK
  BY DEF Typed
<1> QED
  BY <1>1, <1>2, <1>3, <1>4, <1>5, PTL DEF RSpec
=============================================================================
