------------------------ MODULE ReleaseScriptsProofs ------------------------
(* Theorems about ReleaseScripts for any paths, contents and rules, any     *)
(* number of edits, commits and scripts, and a script that dies anywhere.   *)
EXTENDS ReleaseScripts, SequenceTheorems, TLAPS

-----------------------------------------------------------------------------
(* The inductive invariant.                                                 *)

Repository ==
  [there : BOOLEAN, hooks : BOOLEAN, ident : BOOLEAN, head : Ref, refs : [Ref -> History]]
Archives == [files : Tree, manifest : Tree]

UntrackJob ==
  [script : {"untrack"}, at : {"remove", "placeholder", "stage", "ignore", "verify"},
   targets : SUBSET Path, placeholder : BOOLEAN, ignore : BOOLEAN]
PrepareJob ==
  [script : {"prepare"},
   at : {"backup", "remove", "init", "config", "orphan", "add", "commit", "hooks",
         "drop", "rename", "prune", "verify"},
   mode : {"reinit", "orphan"}, prune : BOOLEAN, prev : Ref \cup {None}, ident : BOOLEAN]
BuildJob == [script : {"build"}, at : {"remove", "zip"}, files : Tree]

(* The variables hold values of their types, a script that runs has not     *)
(* ended, and an archive that was built has files of the payload.           *)
Shape ==
  /\ wt \in Tree /\ idx \in Tree /\ block \in BOOLEAN
  /\ repo \in Repository
  /\ backups \subseteq [Ref -> History] /\ made \subseteq History
  /\ archive = None \/ archive \in Archives
  /\ built \subseteq Tree
  /\ said \in {"none", "published", "untracked", "nothing", "verified", "failed"}
  /\ job = None \/ job \in UntrackJob \cup PrepareJob \cup BuildJob
  /\ job # None => said = "none"
  /\ job # None /\ job.at # "init" => repo.there

(* What the archive is: its manifest is that of a build, but for lines that *)
(* were lost, and a build takes only files of the payload.                  *)
Builds ==
  /\ archive # None =>
       \E files \in built : \A p \in Path : archive.manifest[p] \in {files[p], Absent}
  /\ \A files \in built : Paths(files) \subseteq Payload
  /\ job # None /\ job.script = "build" => Paths(job.files) \subseteq Payload

Preparing == job # None /\ job.script = "prepare"
Copying(h) == \E refs \in backups : \E r \in Ref : IsPrefix(h, refs[r])
Staging == IF job.mode = "reinit" THEN "main" ELSE "staging"
Matched == \A p \in Paths(idx) : idx[p] = wt[p]
Kept(r) == \A h \in made : Copying(h) \/ IsPrefix(h, repo.refs[r])

(* How far prepare-clean-history has come: once it has made the backup      *)
(* nothing is lost whatever it does, and the branch it builds has the one   *)
(* commit of the files on disk.                                             *)
Phases ==
  Preparing =>
    /\ job.at \in {"remove", "init", "config", "orphan", "add", "commit"} =>
         \A h \in made : Copying(h)
    /\ job.at \in {"remove", "init", "config"} => job.mode = "reinit"
    /\ job.at \in {"orphan", "drop", "rename", "prune"} => job.mode = "orphan"
    /\ job.at \in {"init", "config", "add", "commit"} =>
         repo.head = Staging
    /\ job.at \in {"commit", "hooks", "drop", "rename", "prune", "verify"} => Matched
    /\ job.at = "hooks" =>
         repo.head = Staging /\ repo.refs[Staging] = <<idx>> /\ Kept(Staging)
    /\ job.at \in {"drop", "rename"} =>
         repo.head = "staging" /\ repo.refs["staging"] = <<idx>> /\ Kept("staging")
    /\ job.at \in {"prune", "verify"} =>
         repo.head = "main" /\ repo.refs["main"] = <<idx>> /\ Kept("main")

(* What was untracked for good: .gitignore covers it, so no git add takes   *)
(* it in.                                                                   *)
Covering ==
  /\ retired \subseteq Path \cap Untrackable
  /\ \A p \in retired : idx[p] = Absent /\ Ignored(p)

IInv == Shape /\ Builds /\ Phases /\ Recoverable /\ PublishedIsClean /\ Covering

-----------------------------------------------------------------------------
(* Histories and trees.                                                     *)

LEMMA PrefixOfItself ==
  ASSUME NEW h \in History
  PROVE  IsPrefix(h, h)
BY LenProperties DEF IsPrefix, History

(* A commit keeps what its branch had.                                      *)
LEMMA PrefixOfAppended ==
  ASSUME NEW h \in History, NEW k \in History, NEW tree \in Tree, IsPrefix(h, k)
  PROVE  IsPrefix(h, Append(k, tree))
<1>1. Append(k, tree) \in History /\ Len(Append(k, tree)) = Len(k) + 1
  BY DEF History
<1>2. \A i \in 1..Len(k) : Append(k, tree)[i] = k[i]
  BY DEF History
<1>3. Len(h) \in Nat /\ Len(k) \in Nat /\ Len(h) <= Len(k)
  BY DEF IsPrefix, History
<1>4. SubSeq(Append(k, tree), 1, Len(h)) = SubSeq(k, 1, Len(h))
  <2>1. \A i \in 1..Len(h) : i \in 1..Len(k)
    BY <1>3
  <2> QED
    BY <1>1, <1>2, <1>3, <2>1, Z3 DEF History
<1> QED
  BY <1>1, <1>3, <1>4 DEF IsPrefix

LEMMA OneCommit ==
  ASSUME NEW tree \in Tree
  PROVE  <<tree>> \in History /\ Len(<<tree>>) = 1 /\ Last(<<tree>>) = tree /\ <<tree>> # <<>>
BY DEF History, Last

LEMMA LastCommit ==
  ASSUME NEW h \in History, h # <<>>
  PROVE  Last(h) \in Tree
<1>1. Len(h) \in 1..Len(h)
  BY EmptySeq, LenProperties DEF History
<1> QED
  BY <1>1, ElementOfSeq DEF Last, History

LEMMA HeadIsTree ==
  ASSUME repo \in Repository
  PROVE  HeadTree \in Tree
<1>1. repo.refs[repo.head] \in History
  BY DEF Repository
<1>2. NoTree \in Tree
  BY DEF NoTree, Tree
<1> QED
  BY <1>1, <1>2, LastCommit DEF HeadTree

LEMMA AddedIsTree ==
  ASSUME wt \in Tree
  PROVE  Added \in Tree
BY DEF Added, Tree

(* What git add -A stages is what is on disk.                               *)
LEMMA AddedMatches ==
  \A p \in Paths(Added) : Added[p] = wt[p]
BY DEF Added, Paths

LEMMA FreshTypes ==
  /\ NoTree \in Tree
  /\ <<>> \in History
  /\ [r \in Ref |-> <<>>] \in [Ref -> History]
BY EmptySeq DEF NoTree, Tree, History

-----------------------------------------------------------------------------
(* The first state.                                                         *)

LEMMA InitShape ==
  ASSUME ReleaseAssumption, Init
  PROVE  Shape
<1>1. wt \in Tree /\ idx \in Tree /\ block \in BOOLEAN
  <2> PICK present \in InitialFiles :
        wt = [p \in Path |-> IF p \in present THEN Empty ELSE Absent]
    BY DEF Init
  <2> QED
    BY DEF Init, Tree, ReleaseAssumption
<1>2. [p \in Path |-> Empty] \in Tree
  BY DEF Tree, ReleaseAssumption
<1>3. repo \in Repository /\ repo.there
  <2> PICK at \in {"main", "topic"}, other \in BOOLEAN :
        repo = [there |-> TRUE, hooks |-> FALSE, ident |-> TRUE, head |-> at,
                refs |-> [r \in Ref |->
                  IF r = at THEN <<wt>>
                  ELSE IF other /\ r # "staging" THEN <<[p \in Path |-> Empty]>> ELSE <<>>]]
    BY DEF Init
  <2>1. repo.refs \in [Ref -> History]
    BY <1>1, <1>2, OneCommit, FreshTypes DEF Ref
  <2> QED
    BY <2>1 DEF Repository, Ref
<1>4. made \subseteq History
  <2>1. made = {repo.refs[r] : r \in Ref} \ {<<>>}
    BY Zenon DEF Init
  <2>2. \A r \in Ref : repo.refs[r] \in History
    BY <1>3 DEF Repository
  <2> QED
    BY <2>1, <2>2
<1>5. backups = {} /\ archive = None /\ built = {} /\ job = None /\ said = "none"
  BY Zenon DEF Init
<1>6. backups \subseteq [Ref -> History] /\ built \subseteq Tree
  BY <1>5
<1> QED
  BY <1>1, <1>3, <1>4, <1>5, <1>6, Zenon DEF Shape

LEMMA InitInductive ==
  ASSUME ReleaseAssumption, Init
  PROVE  IInv
<1>1. Shape
  BY InitShape
<1>2. Builds /\ Phases /\ PublishedIsClean /\ Covering
  BY DEF Init, Builds, Phases, Preparing, PublishedIsClean, Covering
<1>3. Recoverable
  <2> SUFFICES ASSUME NEW h \in made
               PROVE  \E refs \in backups \cup {repo.refs} : \E r \in Ref : IsPrefix(h, refs[r])
    BY DEF Recoverable
  <2>1. PICK r \in Ref : h = repo.refs[r]
    BY DEF Init
  <2>2. h \in History
    BY <1>1 DEF Shape
  <2>3. IsPrefix(h, repo.refs[r])
    BY <2>1, <2>2, PrefixOfItself
  <2> QED
    BY <2>3
<1> QED
  BY <1>1, <1>2, <1>3 DEF IInv

-----------------------------------------------------------------------------
(* Every action keeps the shape of the state.                               *)

LEMMA EditShape ==
  ASSUME Shape, NEW p \in Path, NEW c \in Content \cup {Absent}, Edit(p, c)
  PROVE  Shape'
BY DEF Shape, Edit, End, Tree, rest

LEMMA UserShape ==
  ASSUME Shape,
         Stage \/ Commit \/ HygieneCheck \/ InstallHooks \/ (\E write \in BOOLEAN : ApplyToolkit(write))
           \/ VerifyArchive
  PROVE  Shape'
<1>1. repo \in Repository /\ HeadTree \in Tree /\ Added \in Tree
  BY HeadIsTree, AddedIsTree DEF Shape
<1>2. CASE Stage
  BY <1>1, <1>2 DEF Shape, Stage, End, rest
<1>3. CASE Commit
  <2> DEFINE h == Append(repo.refs[repo.head], idx)
  <2>1. h \in History
    BY <1>1 DEF Repository, History, Shape
  <2>2. made' = made \cup {h} /\ repo' = [repo EXCEPT !.refs[repo.head] = h]
    BY <1>3 DEF Commit, CommitTo
  <2> HIDE DEF h
  <2>3. repo' \in Repository /\ repo'.there = repo.there
    BY <1>1, <2>1, <2>2 DEF Repository
  <2> QED
    BY <1>3, <2>1, <2>2, <2>3 DEF Commit, Shape, End, rest
<1>4. CASE HygieneCheck
  BY <1>4 DEF HygieneCheck, Shape, End, rest
<1>5. CASE InstallHooks
  <2>1. repo' \in Repository
    BY <1>1, <1>5 DEF InstallHooks, Repository
  <2> QED
    BY <2>1, <1>5 DEF InstallHooks, Shape, End, rest
<1>6. CASE \E write \in BOOLEAN : ApplyToolkit(write)
  <2>1. PICK write \in BOOLEAN : ApplyToolkit(write)
    BY <1>6
  <2>2. repo' \in Repository
    BY <1>1, <2>1 DEF ApplyToolkit, Repository
  <2> QED
    BY <2>1, <2>2 DEF ApplyToolkit, Shape, End, rest
<1>7. CASE VerifyArchive
  BY <1>7 DEF VerifyArchive, Shape, End, rest
<1> QED
  BY <1>2, <1>3, <1>4, <1>5, <1>6, <1>7

LEMMA ScannedPaths ==
  ASSUME wt \in Tree, idx \in Tree
  PROVE  collectFilePaths("worktree") \subseteq Path
BY DEF collectFilePaths, Untracked, Paths

LEMMA StartShape ==
  ASSUME Shape, UntrackStart \/ (\E options \in Options : PrepareStart(options)) \/ BuildStart
  PROVE  Shape'
<1>1. CASE UntrackStart
  <2> DEFINE found == collectFilePaths("worktree")
             targets == found \cap Untrackable
             script == [script |-> "untrack", at |-> "remove", targets |-> targets,
                        placeholder |-> wt[Placeholder] = Absent,
                        ignore |-> ~block \/ \E p \in targets : ~Ignored(p)]
  <2>1. targets \subseteq Path
    BY ScannedPaths DEF Shape
  <2>2. \/ /\ Idle /\ End("nothing")
           /\ UNCHANGED <<wt, idx, repo, block, backups, made, count, archive, built>>
        \/ Start(script) /\ said' = "none" /\ UNCHANGED <<wt, idx, repo, block, backups, made, rest>>
    BY <1>1 DEF UntrackStart
  <2> HIDE DEF found, targets
  <2>3. script \in UntrackJob
    BY <2>1 DEF UntrackJob
  <2> HIDE DEF script
  <2> QED
    BY <2>2, <2>3 DEF Shape, Idle, End, Start, rest
<1>2. CASE \E options \in Options : PrepareStart(options)
  <2>1. PICK options \in Options : PrepareStart(options)
    BY <1>2
  <2> DEFINE script == [script |-> "prepare", at |-> "backup", mode |-> options.mode,
                        prune |-> options.prune, prev |-> None, ident |-> FALSE]
  <2>2. script \in PrepareJob
    BY DEF PrepareJob, Options
  <2>3. Start(script) /\ said' = "none" /\ UNCHANGED <<wt, idx, repo, block, backups, made, rest>>
    BY <2>1 DEF PrepareStart
  <2> HIDE DEF script
  <2> QED
    BY <2>2, <2>3 DEF Shape, Idle, Start, rest
<1>3. CASE BuildStart
  <2> DEFINE files == [p \in Path |-> IF p \in Payload THEN wt[p] ELSE Absent]
             script == [script |-> "build", at |-> "remove", files |-> files]
  <2>1. files \in Tree
    BY DEF Shape, Tree
  <2>2. Start(script) /\ said' = "none" /\ UNCHANGED <<wt, idx, repo, block, backups, made, rest>>
    BY <1>3 DEF BuildStart
  <2> HIDE DEF files
  <2>3. script \in BuildJob
    BY <2>1 DEF BuildJob
  <2> HIDE DEF script
  <2> QED
    BY <2>2, <2>3 DEF Shape, Idle, Start, rest
<1> QED
  BY <1>1, <1>2, <1>3

(* Which of the scripts a job under way is.                                 *)
LEMMA UntrackShaped ==
  ASSUME Shape, NEW at, At("untrack", at)
  PROVE  job \in UntrackJob /\ job # None /\ job.at = at /\ said = "none"
BY DEF Shape, At, UntrackJob, PrepareJob, BuildJob

LEMMA PrepareShaped ==
  ASSUME Shape, NEW at, At("prepare", at)
  PROVE  job \in PrepareJob /\ job # None /\ job.at = at /\ said = "none" /\ Preparing
BY DEF Shape, At, UntrackJob, PrepareJob, BuildJob, Preparing

LEMMA BuildShaped ==
  ASSUME Shape, NEW at, At("build", at)
  PROVE  job \in BuildJob /\ job # None /\ job.at = at /\ said = "none"
BY DEF Shape, At, UntrackJob, PrepareJob, BuildJob

LEMMA UntrackShape ==
  ASSUME ReleaseAssumption, Shape,
         Untrack \/ UntrackPlaceholder \/ StagePlaceholder \/ UntrackIgnore \/ UntrackVerify
  PROVE  Shape'
<1>1. job \in UntrackJob /\ job # None /\ job.at # "init" /\ said = "none"
  BY UntrackShaped DEF Untrack, UntrackPlaceholder, StagePlaceholder, UntrackIgnore, UntrackVerify
<1>2. repo.there
  BY <1>1 DEF Shape
<1>3. CASE Untrack
  <2> DEFINE p == CHOOSE q \in job.targets : TRUE
  <2>1. idx' \in Tree /\ UNCHANGED <<wt, repo, block, backups, made, archive, built>>
    BY <1>1, <1>3 DEF Untrack, UntrackJob, Tree, Shape, rest
  <2>2. \/ job' = [job EXCEPT !.at = "placeholder"] /\ said' = said
        \/ job' = [job EXCEPT !.targets = @ \ {p}] /\ said' = said
        \/ job' = None /\ said' = "failed"
    BY <1>3 DEF Untrack, Goto, End
  <2> HIDE DEF p
  <2>3. \/ job' \in UntrackJob /\ said' = said
        \/ job' = None /\ said' = "failed"
    BY <1>1, <2>2 DEF UntrackJob
  <2> QED
    BY <1>1, <1>2, <2>1, <2>3 DEF Shape
<1>4. CASE UntrackPlaceholder
  <2>1. wt' \in Tree /\ UNCHANGED <<idx, repo, block, backups, made, archive, built>>
    BY <1>4 DEF UntrackPlaceholder, Tree, Shape, rest, ReleaseAssumption
  <2>2. job' \in UntrackJob /\ said' = said
    BY <1>1, <1>4 DEF UntrackPlaceholder, Goto, UntrackJob
  <2> QED
    BY <1>1, <1>2, <2>1, <2>2 DEF Shape
<1>7. CASE StagePlaceholder
  <2>1. idx' \in Tree /\ UNCHANGED <<wt, repo, block, backups, made, archive, built>>
    BY <1>7 DEF StagePlaceholder, Tree, Shape, rest, ReleaseAssumption
  <2>2. job' \in UntrackJob /\ said' = said
    BY <1>1, <1>7 DEF StagePlaceholder, Goto, UntrackJob
  <2> QED
    BY <1>1, <1>2, <2>1, <2>2 DEF Shape
<1>5. CASE UntrackIgnore
  <2>1. block' \in BOOLEAN /\ UNCHANGED <<wt, idx, repo, backups, made, archive, built>>
    BY <1>1, <1>5 DEF UntrackIgnore, UntrackJob, Shape, rest
  <2>2. job' \in UntrackJob /\ said' = said
    BY <1>1, <1>5 DEF UntrackIgnore, Goto, UntrackJob
  <2> QED
    BY <1>1, <1>2, <2>1, <2>2 DEF Shape
<1>6. CASE UntrackVerify
  BY <1>6 DEF UntrackVerify, End, Shape
<1> QED
  BY <1>3, <1>4, <1>5, <1>6, <1>7

PrepareStep ==
  \/ writeBackup \/ RemoveGit \/ initializeRepository \/ restoreLocalConfig
  \/ startOrphanRoot \/ AddAll \/ CommitClean \/ SetHooks \/ DropBranch
  \/ RenameBranch \/ pruneOtherRefs \/ VerifyClean

LEMMA PrepareAt ==
  ASSUME Shape, PrepareStep
  PROVE  /\ job \in PrepareJob /\ job # None /\ said = "none" /\ Preparing
         /\ repo \in Repository /\ (job.at # "init" => repo.there)
BY PrepareShaped DEF PrepareStep, writeBackup, RemoveGit, initializeRepository,
   restoreLocalConfig, startOrphanRoot, AddAll, CommitClean, SetHooks, DropBranch,
   RenameBranch, pruneOtherRefs, VerifyClean, Shape

(* The next step of a script that goes on.                                  *)
LEMMA PrepareGoes ==
  ASSUME job \in PrepareJob, NEW at \in
           {"backup", "remove", "init", "config", "orphan", "add", "commit", "hooks",
            "drop", "rename", "prune", "verify"},
         Goto(at)
  PROVE  /\ job' \in PrepareJob /\ job'.script = "prepare" /\ job'.at = at /\ said' = said
         /\ job'.mode = job.mode /\ job'.prune = job.prune /\ job'.prev = job.prev
BY DEF Goto, PrepareJob

LEMMA PrepareShape ==
  ASSUME Shape, PrepareStep
  PROVE  Shape'
<1>1. /\ job \in PrepareJob /\ job # None /\ said = "none"
      /\ repo \in Repository /\ (job.at # "init" => repo.there)
  BY PrepareAt
<1>2. CASE writeBackup
  <2>1. backups' \subseteq [Ref -> History]
    BY <1>1, <1>2 DEF writeBackup, Copied, Shape, Repository
  <2>2. job' \in PrepareJob /\ job.at = "backup"
    BY <1>1, <1>2 DEF writeBackup, snapshotLocalConfig, PrepareJob, Repository, At
  <2> QED
    BY <1>1, <1>2, <2>1, <2>2 DEF writeBackup, Shape, rest
<1>3. CASE RemoveGit
  <2>1. job' \in PrepareJob /\ job'.at = "init" /\ said' = said
    BY <1>1, <1>3, PrepareGoes DEF RemoveGit
  <2>2. repo' \in Repository
    BY <1>3, FreshTypes DEF RemoveGit, Repository, Ref
  <2>3. idx' \in Tree
    BY <1>3, FreshTypes DEF RemoveGit
  <2> QED
    BY <1>1, <1>3, <2>1, <2>2, <2>3 DEF RemoveGit, Shape, rest
<1>4. CASE initializeRepository
  <2>1. job' \in PrepareJob /\ said' = said
    BY <1>1, <1>4, PrepareGoes DEF initializeRepository
  <2>2. repo' \in Repository /\ repo'.there
    BY <1>1, <1>4 DEF initializeRepository, Repository
  <2> QED
    BY <1>1, <1>4, <2>1, <2>2 DEF initializeRepository, Shape, rest
<1>5. CASE restoreLocalConfig
  <2>1. job' \in PrepareJob /\ said' = said /\ job.at = "config"
    BY <1>1, <1>5, PrepareGoes DEF restoreLocalConfig, At
  <2>2. repo' \in Repository /\ repo'.there = repo.there
    BY <1>1, <1>5 DEF restoreLocalConfig, Repository, PrepareJob
  <2> QED
    BY <1>1, <1>5, <2>1, <2>2 DEF restoreLocalConfig, Shape, rest
<1>6. CASE startOrphanRoot
  <2>1. job' \in PrepareJob /\ said' = said /\ job.at = "orphan"
    BY <1>1, <1>6 DEF startOrphanRoot, At, PrepareJob, Repository
  <2>2. repo' \in Repository /\ repo'.there = repo.there
    BY <1>1, <1>6 DEF startOrphanRoot, Repository, Ref
  <2> QED
    BY <1>1, <1>6, <2>1, <2>2 DEF startOrphanRoot, Shape, rest
<1>7. CASE AddAll
  <2>1. job' \in PrepareJob /\ said' = said /\ job.at = "add"
    BY <1>1, <1>7, PrepareGoes DEF AddAll, At
  <2>2. idx' \in Tree
    BY <1>7, AddedIsTree DEF AddAll, Shape
  <2> QED
    BY <1>1, <1>7, <2>1, <2>2 DEF AddAll, Shape, rest
<1>8. CASE CommitClean
  <2> DEFINE h == <<idx>>
  <2>1. job' \in PrepareJob /\ said' = said /\ job.at = "commit"
    BY <1>1, <1>8, PrepareGoes DEF CommitClean, At
  <2>2. h \in History /\ repo' = [repo EXCEPT !.refs[repo.head] = h] /\ made' = made \cup {h}
    BY <1>8, OneCommit DEF CommitClean, CommitTo, Shape
  <2> HIDE DEF h
  <2>3. repo' \in Repository /\ repo'.there = repo.there /\ made' \subseteq History
    BY <1>1, <2>2 DEF Repository, Shape
  <2> QED
    BY <1>1, <1>8, <2>1, <2>3 DEF CommitClean, Shape, rest
<1>9. CASE SetHooks
  <2>1. job' \in PrepareJob /\ said' = said /\ job.at = "hooks"
    BY <1>1, <1>9, PrepareGoes DEF SetHooks, At
  <2>2. repo' \in Repository /\ repo'.there = repo.there
    BY <1>1, <1>9 DEF SetHooks, Repository
  <2> QED
    BY <1>1, <1>9, <2>1, <2>2 DEF SetHooks, Shape, rest
<1>10. CASE DropBranch
  <2>1. job' \in PrepareJob /\ said' = said /\ job.at = "drop"
    BY <1>1, <1>10, PrepareGoes DEF DropBranch, At
  <2>2. repo' \in Repository /\ repo'.there = repo.there
    BY <1>1, <1>10, FreshTypes DEF DropBranch, Repository, PrepareJob
  <2> QED
    BY <1>1, <1>10, <2>1, <2>2 DEF DropBranch, Shape, rest
<1>11. CASE RenameBranch
  <2>1. job' \in PrepareJob /\ said' = said /\ job.at = "rename"
    BY <1>1, <1>11, PrepareGoes DEF RenameBranch, At
  <2>2. repo' \in Repository /\ repo'.there = repo.there
    BY <1>1, <1>11, FreshTypes DEF RenameBranch, Repository, Ref
  <2> QED
    BY <1>1, <1>11, <2>1, <2>2 DEF RenameBranch, Shape, rest
<1>12. CASE pruneOtherRefs
  <2>1. job' \in PrepareJob /\ said' = said /\ job.at = "prune"
    BY <1>1, <1>12, PrepareGoes DEF pruneOtherRefs, At
  <2>2. repo' \in Repository /\ repo'.there = repo.there
    BY <1>1, <1>12, FreshTypes DEF pruneOtherRefs, Repository
  <2> QED
    BY <1>1, <1>12, <2>1, <2>2 DEF pruneOtherRefs, Shape, rest
<1>13. CASE VerifyClean
  BY <1>13 DEF VerifyClean, End, Shape, rest
<1> QED
  BY <1>2, <1>3, <1>4, <1>5, <1>6, <1>7, <1>8, <1>9, <1>10, <1>11, <1>12, <1>13
     DEF PrepareStep

LEMMA ArchiveShape ==
  ASSUME Shape,
         RemoveArchive \/ WriteArchive
           \/ \E p \in Path : Spoil(p)
  PROVE  Shape'
<1>1. CASE RemoveArchive
  <2>1. job \in BuildJob /\ job # None /\ job.at = "remove" /\ said = "none"
    BY <1>1, BuildShaped DEF RemoveArchive
  <2>2. job' \in BuildJob
    BY <1>1, <2>1 DEF RemoveArchive, Goto, BuildJob
  <2>3. /\ repo.there /\ archive' = None
        /\ UNCHANGED <<wt, idx, repo, block, backups, made, built, said>>
    BY <1>1, <2>1 DEF RemoveArchive, Goto, Shape
  <2> QED
    BY <2>1, <2>2, <2>3 DEF Shape
<1>2. CASE WriteArchive
  <2>1. job \in BuildJob
    BY <1>2, BuildShaped DEF WriteArchive
  <2>2. archive' \in Archives /\ built' \subseteq Tree
    BY <1>2, <2>1 DEF WriteArchive, Manifest, BuildJob, Archives, Shape
  <2> QED
    BY <1>2, <2>2 DEF WriteArchive, End, Shape
<1>3. CASE \E p \in Path : Spoil(p)
  <2>1. PICK p \in Path : Spoil(p)
    BY <1>3
  <2>2. archive' \in Archives
    BY <2>1 DEF Spoil, Spoiled, Archives, Tree, Shape
  <2> QED
    BY <2>1, <2>2 DEF Spoil, End, Shape
<1> QED
  BY <1>1, <1>2, <1>3

LEMMA NextShape ==
  ASSUME ReleaseAssumption, Shape, [Next]_vars
  PROVE  Shape'
<1>1. CASE Next
  <2>1. CASE Die
    BY <2>1 DEF Die, End, Shape, rest
  <2> QED
    BY <1>1, <2>1, EditShape, UserShape, StartShape, UntrackShape, PrepareShape,
       ArchiveShape DEF Next, PrepareStep
<1>2. CASE UNCHANGED vars
  BY <1>2 DEF vars, Shape
<1> QED
  BY <1>1, <1>2

-----------------------------------------------------------------------------
(* Archives.                                                                *)

(* What no step of another script touches.                                  *)
LEMMA ArchiveUntouched ==
  ASSUME Builds, UNCHANGED <<archive, built>>,
         job' = None \/ job'.script # "build" \/ job' = job
  PROVE  Builds'
BY DEF Builds, Paths

(* The steps after which no script runs, those that build no archive.       *)
Ending ==
  \/ Stage \/ Commit \/ HygieneCheck \/ InstallHooks \/ VerifyArchive
  \/ UntrackVerify \/ VerifyClean \/ Die
  \/ (\E write \in BOOLEAN : ApplyToolkit(write))
  \/ (\E p \in Path, c \in Content \cup {Absent} : Edit(p, c))

LEMMA EndingEnds ==
  ASSUME Ending
  PROVE  job' = None /\ UNCHANGED <<archive, built>>
<1>1. CASE Stage \/ Commit \/ InstallHooks \/ Die
  BY <1>1, Zenon DEF Stage, Commit, InstallHooks, Die, End, rest
<1>2. CASE HygieneCheck
  <2> DEFINE histories == {scanHistory(listing) : listing \in Listings}
             found == {Findings(mode, h) : mode \in ScanModes \ {"refused"},
                                           h \in histories \cup {Softened(h) : h \in histories}}
             results == {Passes(f, strict) : f \in found, strict \in BOOLEAN}
  <2>1. /\ UNCHANGED <<archive, built>>
        /\ \/ End("failed")
           \/ \E passed \in results : End(IF passed THEN "none" ELSE "failed")
    BY <1>2 DEF HygieneCheck, rest
  <2> HIDE DEF results
  <2> QED
    BY <2>1, Zenon DEF End
<1>3. CASE VerifyArchive \/ UntrackVerify \/ VerifyClean
  BY <1>3, Zenon DEF VerifyArchive, UntrackVerify, VerifyClean, End, rest
<1>4. CASE \E write \in BOOLEAN : ApplyToolkit(write)
  BY <1>4, Zenon DEF ApplyToolkit, End, rest
<1>5. CASE \E p \in Path, c \in Content \cup {Absent} : Edit(p, c)
  BY <1>5, Zenon DEF Edit, End, rest
<1> QED
  BY <1>1, <1>2, <1>3, <1>4, <1>5 DEF Ending

LEMMA NextBuilds ==
  ASSUME ReleaseAssumption, Shape, Builds, [Next]_vars
  PROVE  Builds'
<1>1. CASE Ending
  BY <1>1, EndingEnds, ArchiveUntouched
<1>2. CASE UntrackStart \/ (\E options \in Options : PrepareStart(options))
  <2>1. (job' = None \/ job'.script # "build") /\ UNCHANGED <<archive, built>>
    BY <1>2 DEF UntrackStart, PrepareStart, Start, End, rest
  <2> QED
    BY <2>1, ArchiveUntouched
<1>3. CASE Untrack \/ UntrackPlaceholder \/ StagePlaceholder \/ UntrackIgnore
  <2>1. job \in UntrackJob /\ UNCHANGED <<archive, built>>
    BY <1>3, UntrackShaped DEF Untrack, UntrackPlaceholder, StagePlaceholder, UntrackIgnore, rest
  <2>2. job' = None \/ job'.script = "untrack"
    BY <1>3, <2>1 DEF Untrack, UntrackPlaceholder, StagePlaceholder, UntrackIgnore, Goto, End, UntrackJob
  <2> QED
    BY <2>1, <2>2, ArchiveUntouched
<1>4. CASE PrepareStep
  <2>1. job \in PrepareJob
    BY <1>4, PrepareAt
  <2>2. UNCHANGED <<archive, built>> /\ (job' = None \/ job'.script = "prepare")
    BY <1>4, <2>1 DEF PrepareStep, writeBackup, RemoveGit, initializeRepository,
       restoreLocalConfig, startOrphanRoot, AddAll, CommitClean, SetHooks, DropBranch,
       RenameBranch, pruneOtherRefs, VerifyClean, Goto, End, PrepareJob, rest
  <2> QED
    BY <2>2, ArchiveUntouched
<1>5. CASE BuildStart
  <2> DEFINE files == [p \in Path |-> IF p \in Payload THEN wt[p] ELSE Absent]
  <2>1. job' = [script |-> "build", at |-> "remove", files |-> files] /\ UNCHANGED rest
    BY <1>5 DEF BuildStart, Start
  <2>2. Paths(files) \subseteq Payload
    BY DEF Paths
  <2>3. job'.files = files
    BY <2>1
  <2> HIDE DEF files
  <2> QED
    BY <2>1, <2>2, <2>3 DEF Builds, rest, Paths
<1>6. CASE RemoveArchive
  <2>1. job \in BuildJob
    BY <1>6, BuildShaped DEF RemoveArchive
  <2>2. job'.files = job.files /\ archive' = None /\ built' = built /\ job # None
    BY <1>6, <2>1 DEF RemoveArchive, Goto, BuildJob, At
  <2>3. job.script = "build"
    BY <2>1 DEF BuildJob
  <2> QED
    BY <2>2, <2>3 DEF Builds, Paths
<1>7. CASE WriteArchive
  <2>1. job' = None /\ archive'.manifest = job.files /\ built' = built \cup {job.files}
    BY <1>7 DEF WriteArchive, End, Manifest
  <2>2. job # None /\ job.script = "build"
    BY <1>7 DEF WriteArchive, At
  <2> QED
    BY <2>1, <2>2 DEF Builds, Paths
<1>8. CASE \E p \in Path : Spoil(p)
  <2>1. PICK p \in Path : Spoil(p)
    BY <1>8
  <2>2. archive # None /\ archive \in Archives /\ built' = built /\ job' = None
    BY <2>1 DEF Spoil, End, Shape
  <2>3. \A q \in Path : archive'.manifest[q] \in {archive.manifest[q], Absent}
    BY <2>1, <2>2 DEF Spoil, Spoiled, Archives, Tree
  <2>4. PICK files \in built : \A q \in Path : archive.manifest[q] \in {files[q], Absent}
    BY <2>2 DEF Builds
  <2>5. \A q \in Path : archive'.manifest[q] \in {files[q], Absent}
    BY <2>3, <2>4
  <2> QED
    BY <2>2, <2>4, <2>5 DEF Builds, Paths
<1>9. CASE UNCHANGED vars
  BY <1>9, ArchiveUntouched DEF vars
<1> QED
  BY <1>1, <1>2, <1>3, <1>4, <1>5, <1>6, <1>7, <1>8, <1>9
     DEF Next, PrepareStep, Ending

-----------------------------------------------------------------------------
(* What prepare-clean-history keeps.                                        *)

(* A step of nobody but prepare-clean-history leaves it nothing to keep.    *)
LEMMA NotPreparing ==
  ASSUME job' = None \/ job'.script # "prepare"
  PROVE  Phases'
BY DEF Phases, Preparing

LEMMA StartPhases ==
  ASSUME NEW options \in Options, PrepareStart(options)
  PROVE  Phases'
<1>1. job'.at = "backup"
  BY DEF PrepareStart, Start
<1> QED
  BY <1>1 DEF Phases

(* What was found in the copies stays found, and so do the commits when     *)
(* only those of a copied history are added.                                *)
LEMMA CopyingKept ==
  ASSUME backups \subseteq backups', made' = made, \A h \in made : Copying(h)
  PROVE  (\A h \in made : Copying(h))'
BY DEF Copying
LEMMA KeptKept ==
  ASSUME NEW r \in Ref, NEW q \in Ref, backups' = backups, made' = made, Kept(r),
         repo.refs[r] = repo'.refs[q]
  PROVE  Kept(q)'
BY DEF Copying, Kept

(* A step that leaves the references loses nothing.                         *)
LEMMA RefsUntouched ==
  ASSUME Recoverable, made' = made, backups \subseteq backups', repo'.refs = repo.refs
  PROVE  Recoverable'
BY DEF Recoverable

(* Nor does one after which every history is in a backup, or in one branch. *)
LEMMA CopiedRecoverable ==
  ASSUME (\A h \in made : Copying(h))'
  PROVE  Recoverable'
BY DEF Copying, Recoverable
LEMMA KeptRecoverable ==
  ASSUME NEW r \in Ref, Kept(r)'
  PROVE  Recoverable'
BY DEF Kept, Copying, Recoverable

LEMMA PrepareKeeps ==
  ASSUME Shape, Phases, Recoverable, PrepareStep
  PROVE  Phases' /\ Recoverable'
<1>1. /\ job \in PrepareJob /\ job # None /\ said = "none" /\ Preparing
      /\ repo \in Repository
  BY PrepareAt
<1>2. CASE writeBackup
  <2>1. /\ job' \in PrepareJob /\ job'.mode = job.mode
        /\ job'.at = IF job.mode = "reinit" THEN "remove" ELSE "orphan"
    BY <1>1, <1>2 DEF writeBackup, snapshotLocalConfig, PrepareJob, Repository
  <2>2. backups' = backups \cup {repo.refs} /\ made' = made /\ job.mode \in {"reinit", "orphan"}
    BY <1>1, <1>2 DEF writeBackup, Copied, PrepareJob
  <2>3. (\A h \in made : Copying(h))'
    BY <2>2 DEF Recoverable, Copying
  <2> QED
    BY <2>1, <2>2, <2>3, CopiedRecoverable DEF Phases
<1>3. CASE RemoveGit
  <2>1. job'.at = "init" /\ job.at = "remove" /\ job'.mode = job.mode
    BY <1>1, <1>3, PrepareGoes DEF RemoveGit, At
  <2>2. job.mode = "reinit" /\ (\A h \in made : Copying(h))
    BY <1>1, <2>1 DEF Phases
  <2>3. (\A h \in made : Copying(h))'
    BY <1>3, <2>2, CopyingKept DEF RemoveGit
  <2>4. repo'.head = Staging'
    BY <1>3, <2>1, <2>2 DEF RemoveGit, Staging
  <2> QED
    BY <2>1, <2>2, <2>3, <2>4, CopiedRecoverable DEF Phases
<1>4. CASE initializeRepository
  <2>1. job'.at = "config" /\ job.at = "init" /\ job'.mode = job.mode
    BY <1>1, <1>4, PrepareGoes DEF initializeRepository, At
  <2>2. job.mode = "reinit" /\ repo.head = Staging /\ (\A h \in made : Copying(h))
    BY <1>1, <2>1 DEF Phases
  <2>3. (\A h \in made : Copying(h))'
    BY <1>4, <2>2, CopyingKept DEF initializeRepository
  <2>4. repo'.head = Staging'
    BY <1>1, <1>4, <2>1, <2>2 DEF initializeRepository, Staging, Repository
  <2> QED
    BY <2>1, <2>2, <2>3, <2>4, CopiedRecoverable DEF Phases
<1>5. CASE restoreLocalConfig
  <2>1. job'.at = "add" /\ job.at = "config" /\ job'.mode = job.mode
    BY <1>1, <1>5, PrepareGoes DEF restoreLocalConfig, At
  <2>2. repo.head = Staging /\ (\A h \in made : Copying(h))
    BY <1>1, <2>1 DEF Phases
  <2>3. (\A h \in made : Copying(h))'
    BY <1>5, <2>2, CopyingKept DEF restoreLocalConfig
  <2>4. repo'.head = Staging'
    BY <1>1, <1>5, <2>1, <2>2 DEF restoreLocalConfig, Staging, Repository
  <2> QED
    BY <2>1, <2>2, <2>3, <2>4, CopiedRecoverable DEF Phases
<1>6. CASE startOrphanRoot
  <2>1. job'.at = "add" /\ job.at = "orphan" /\ job'.mode = job.mode
    BY <1>1, <1>6 DEF startOrphanRoot, At, PrepareJob
  <2>2. job.mode = "orphan" /\ (\A h \in made : Copying(h))
    BY <1>1, <2>1 DEF Phases
  <2>3. (\A h \in made : Copying(h))'
    BY <1>6, <2>2, CopyingKept DEF startOrphanRoot
  <2>4. repo'.head = Staging'
    BY <1>1, <1>6, <2>1, <2>2 DEF startOrphanRoot, Staging, Repository
  <2> QED
    BY <2>1, <2>2, <2>3, <2>4, CopiedRecoverable DEF Phases
<1>7. CASE AddAll
  <2>1. job'.at = "commit" /\ job.at = "add" /\ job'.mode = job.mode
    BY <1>1, <1>7, PrepareGoes DEF AddAll, At
  <2>2. repo.head = Staging /\ (\A h \in made : Copying(h))
    BY <1>1, <2>1 DEF Phases
  <2>3. (\A h \in made : Copying(h))'
    BY <1>7, <2>2, CopyingKept DEF AddAll
  <2>4. repo'.head = Staging'
    BY <1>7, <2>1, <2>2 DEF AddAll, Staging
  <2>5. Matched'
    BY <1>7, AddedMatches DEF AddAll, Matched, Paths
  <2> QED
    BY <2>1, <2>2, <2>3, <2>4, <2>5, CopiedRecoverable DEF Phases
<1>8. CASE CommitClean
  <2> DEFINE h == <<idx>>
  <2>1. job'.at = "hooks" /\ job.at = "commit" /\ job'.mode = job.mode
    BY <1>1, <1>8, PrepareGoes DEF CommitClean, At
  <2>2. repo.head = Staging /\ Matched /\ (\A k \in made : Copying(k))
    BY <1>1, <2>1 DEF Phases
  <2>3. /\ h \in History /\ repo' = [repo EXCEPT !.refs[repo.head] = h]
        /\ made' = made \cup {h} /\ backups' = backups /\ idx' = idx /\ wt' = wt
    BY <1>8, OneCommit DEF CommitClean, CommitTo, Shape
  <2>4. IsPrefix(h, h)
    BY <2>3, PrefixOfItself
  <2>5. h' = h
    BY <2>3
  <2> HIDE DEF h
  <2>6. Staging' = Staging /\ Staging \in Ref
    BY <2>1 DEF Staging, Ref
  <2>7. repo'.head = Staging' /\ repo'.refs[Staging'] = h'
    BY <1>1, <2>2, <2>3, <2>5, <2>6 DEF Repository
  <2>8. Kept(Staging)'
    BY <2>2, <2>3, <2>4, <2>5, <2>7 DEF Kept, Copying
  <2>9. Matched'
    BY <2>2, <2>3 DEF Matched, Paths
  <2>10. Recoverable'
    BY <2>6, <2>8, KeptRecoverable
  <2> QED
    BY <2>1, <2>7, <2>8, <2>9, <2>10 DEF Phases, h
<1>9. CASE SetHooks
  <2>1. /\ job'.at = (IF job.mode = "reinit" THEN "verify" ELSE "drop")
        /\ job.at = "hooks" /\ job'.mode = job.mode /\ job.mode \in {"reinit", "orphan"}
    BY <1>1, <1>9, PrepareGoes DEF SetHooks, At, PrepareJob
  <2>2. repo.head = Staging /\ repo.refs[Staging] = <<idx>> /\ Kept(Staging) /\ Matched
    BY <1>1, <2>1 DEF Phases
  <2>3. /\ repo'.head = repo.head /\ repo'.refs = repo.refs
        /\ backups' = backups /\ made' = made /\ idx' = idx /\ wt' = wt
    BY <1>1, <1>9 DEF SetHooks, Repository
  <2>4. Staging \in Ref /\ Staging = IF job.mode = "reinit" THEN "main" ELSE "staging"
    BY DEF Staging, Ref
  <2>5. Kept(Staging)' /\ Matched' /\ Staging' = Staging
    BY <2>1, <2>2, <2>3 DEF Kept, Copying, Matched, Paths, Staging
  <2>6. job.mode = "reinit" => Kept("main")'
    BY <2>4, <2>5
  <2>7. job.mode = "orphan" => Kept("staging")'
    BY <2>4, <2>5
  <2>8. repo'.head = Staging /\ repo'.refs[Staging] = <<idx'>>
    BY <2>2, <2>3
  <2>9. Recoverable'
    BY <2>3, RefsUntouched
  <2> QED
    BY <2>1, <2>4, <2>5, <2>6, <2>7, <2>8, <2>9 DEF Phases
<1>10. CASE DropBranch
  <2>1. /\ job'.at = "rename" /\ job.at = "drop" /\ job'.mode = job.mode
        /\ job.prev \in Ref \cup {None}
    BY <1>1, <1>10, PrepareGoes DEF DropBranch, At, PrepareJob
  <2>2. /\ job.mode = "orphan" /\ Matched
        /\ repo.head = "staging" /\ repo.refs["staging"] = <<idx>> /\ Kept("staging")
    BY <1>1, <2>1 DEF Phases
  <2>3. /\ repo'.head = repo.head /\ repo'.refs["staging"] = repo.refs["staging"]
        /\ backups' = backups /\ made' = made /\ idx' = idx /\ wt' = wt
    BY <1>1, <1>10, <2>1 DEF DropBranch, Repository, Ref
  <2>4. Kept("staging")' /\ Matched'
    BY <2>2, <2>3 DEF Kept, Copying, Matched, Paths
  <2>5. Recoverable'
    BY <2>4, KeptRecoverable DEF Ref
  <2> QED
    BY <2>1, <2>2, <2>3, <2>4, <2>5 DEF Phases
<1>11. CASE RenameBranch
  <2>1. job'.at = "prune" /\ job.at = "rename" /\ job'.mode = job.mode
    BY <1>1, <1>11, PrepareGoes DEF RenameBranch, At
  <2>2. /\ job.mode = "orphan" /\ Matched
        /\ repo.refs["staging"] = <<idx>> /\ Kept("staging")
    BY <1>1, <2>1 DEF Phases
  <2>3. /\ repo'.head = "main" /\ repo'.refs["main"] = repo.refs["staging"]
        /\ backups' = backups /\ made' = made /\ idx' = idx /\ wt' = wt
    BY <1>1, <1>11 DEF RenameBranch, Repository, Ref
  <2>4. Kept("main")' /\ Matched'
    BY <2>2, <2>3 DEF Kept, Copying, Matched, Paths
  <2>5. Recoverable'
    BY <2>4, KeptRecoverable DEF Ref
  <2> QED
    BY <2>1, <2>2, <2>3, <2>4, <2>5 DEF Phases
<1>12. CASE pruneOtherRefs
  <2>1. job'.at = "verify" /\ job.at = "prune" /\ job'.mode = job.mode
    BY <1>1, <1>12, PrepareGoes DEF pruneOtherRefs, At
  <2>2. Matched /\ repo.head = "main" /\ repo.refs["main"] = <<idx>> /\ Kept("main")
    BY <1>1, <2>1 DEF Phases
  <2>3. /\ repo'.head = "main" /\ repo'.refs["main"] = repo.refs["main"]
        /\ backups' = backups /\ made' = made /\ idx' = idx /\ wt' = wt
    BY <1>1, <1>12, <2>2 DEF pruneOtherRefs, Repository, Ref
  <2>4. Kept("main")' /\ Matched'
    BY <2>2, <2>3 DEF Kept, Copying, Matched, Paths
  <2>5. Recoverable'
    BY <2>4, KeptRecoverable DEF Ref
  <2> QED
    BY <2>1, <2>2, <2>3, <2>4, <2>5 DEF Phases
<1>13. CASE VerifyClean
  BY <1>13, NotPreparing, RefsUntouched DEF VerifyClean, End
<1> QED
  BY <1>2, <1>3, <1>4, <1>5, <1>6, <1>7, <1>8, <1>9, <1>10, <1>11, <1>12, <1>13
     DEF PrepareStep

(* A job is one of its script: the steps of the others are not of           *)
(* prepare-clean-history.                                                   *)
LEMMA NextPhases ==
  ASSUME ReleaseAssumption, Shape, Phases, Recoverable, [Next]_vars
  PROVE  Phases'
<1>1. CASE \/ Ending \/ WriteArchive
           \/ (\E p \in Path : Spoil(p))
  <2>1. job' = None
    BY <1>1, EndingEnds DEF WriteArchive, Spoil, End
  <2> QED
    BY <2>1, NotPreparing
<1>2. CASE UntrackStart \/ BuildStart
  <2>1. job' = None \/ job'.script \in {"untrack", "build"}
    BY <1>2 DEF UntrackStart, BuildStart, Start, End
  <2> QED
    BY <2>1, NotPreparing
<1>3. CASE Untrack \/ UntrackPlaceholder \/ StagePlaceholder \/ UntrackIgnore
  <2>1. job \in UntrackJob
    BY <1>3, UntrackShaped DEF Untrack, UntrackPlaceholder, StagePlaceholder, UntrackIgnore
  <2>2. job' = None \/ job'.script = "untrack"
    BY <1>3, <2>1 DEF Untrack, UntrackPlaceholder, StagePlaceholder, UntrackIgnore, Goto, End, UntrackJob
  <2> QED
    BY <2>2, NotPreparing
<1>4. CASE RemoveArchive
  <2>1. job \in BuildJob
    BY <1>4, BuildShaped DEF RemoveArchive
  <2>2. job'.script = "build"
    BY <1>4, <2>1 DEF RemoveArchive, Goto, BuildJob
  <2> QED
    BY <2>2, NotPreparing
<1>5. CASE UNCHANGED vars
  BY <1>5 DEF vars, Phases, Preparing, Copying, Kept, Staging, Matched, Paths
<1> QED
  BY <1>1, <1>2, <1>3, <1>4, <1>5, StartPhases, PrepareKeeps
     DEF Next, PrepareStep, Ending
-----------------------------------------------------------------------------
(* No commit is lost.                                                       *)

LEMMA CommitRecoverable ==
  ASSUME Shape, Recoverable, Commit
  PROVE  Recoverable'
<1> DEFINE at == repo.head
           k == repo.refs[at]
           longer == Append(k, idx)
<1>1. repo \in Repository /\ k \in History /\ at \in Ref /\ made \subseteq History /\ idx \in Tree
  BY DEF Shape, Repository
<1>2. longer \in History
  BY <1>1 DEF History
<1>3. IsPrefix(longer, longer)
  BY <1>2, PrefixOfItself
<1>4. \A h \in History : IsPrefix(h, k) => IsPrefix(h, longer)
  BY <1>1, PrefixOfAppended
<1>5. /\ repo' = [repo EXCEPT !.refs[at] = longer]
      /\ made' = made \cup {longer} /\ backups' = backups
  BY DEF Commit, CommitTo
<1> HIDE DEF longer
<1>6. /\ repo'.refs[at] = longer
      /\ \A r \in Ref : r # at => repo'.refs[r] = repo.refs[r]
  BY <1>1, <1>5 DEF Repository
<1> HIDE DEF k
<1>7. ASSUME NEW h \in made'
      PROVE  \E refs \in backups' \cup {repo'.refs} : \E r \in Ref : IsPrefix(h, refs[r])
  <2>1. CASE h = longer
    BY <1>1, <1>3, <1>6, <2>1
  <2>2. CASE h \in made
    <3>1. PICK refs \in backups \cup {repo.refs} : \E r \in Ref : IsPrefix(h, refs[r])
      BY <2>2 DEF Recoverable
    <3>2. CASE refs \in backups
      BY <1>5, <3>1, <3>2
    <3>3. CASE refs = repo.refs
      <4>1. PICK r \in Ref : IsPrefix(h, repo.refs[r])
        BY <3>1, <3>3
      <4>2. IsPrefix(h, repo'.refs[r])
        BY <1>1, <1>4, <1>6, <2>2, <4>1 DEF k
      <4> QED
        BY <4>2
    <3> QED
      BY <3>1, <3>2, <3>3
  <2> QED
    BY <1>5, <2>1, <2>2
<1> QED
  BY <1>7 DEF Recoverable

LEMMA NextRecoverable ==
  ASSUME Shape, Phases, Recoverable, [Next]_vars
  PROVE  Recoverable'
<1>1. CASE \/ UntrackStart \/ Untrack \/ UntrackPlaceholder \/ StagePlaceholder \/ UntrackIgnore \/ UntrackVerify
           \/ (\E options \in Options : PrepareStart(options))
           \/ BuildStart \/ RemoveArchive \/ WriteArchive
  <2>1. made' = made /\ backups' = backups /\ repo' = repo
    BY <1>1 DEF UntrackStart, Untrack, UntrackPlaceholder, StagePlaceholder, UntrackIgnore, UntrackVerify,
       PrepareStart, BuildStart, RemoveArchive, WriteArchive
  <2> QED
    BY <2>1, RefsUntouched
<1>2. CASE \/ Stage \/ VerifyArchive \/ Die
           \/ (\E p \in Path, c \in Content \cup {Absent} : Edit(p, c))
           \/ (\E p \in Path : Spoil(p))
  <2>1. made' = made /\ backups' = backups /\ repo' = repo
    BY <1>2 DEF Stage, VerifyArchive, Die, Edit, Spoil
  <2> QED
    BY <2>1, RefsUntouched
<1>3. CASE InstallHooks \/ (\E write \in BOOLEAN : ApplyToolkit(write))
  <2>1. made' = made /\ backups' = backups /\ repo'.refs = repo.refs
    BY <1>3 DEF InstallHooks, ApplyToolkit, Shape, Repository
  <2> QED
    BY <2>1, RefsUntouched
<1>4. CASE HygieneCheck
  <2>1. made' = made /\ backups' = backups /\ repo' = repo
    BY <1>4 DEF HygieneCheck
  <2> QED
    BY <2>1, RefsUntouched
<1>5. CASE UNCHANGED vars
  BY <1>5, RefsUntouched DEF vars
<1> QED
  BY <1>1, <1>2, <1>3, <1>4, <1>5, CommitRecoverable, PrepareKeeps DEF Next, PrepareStep

-----------------------------------------------------------------------------
(* What a script says.                                                      *)

(* While a script runs nothing is said, and what was said of a state holds  *)
(* until the next command.                                                  *)
LEMMA Silent ==
  ASSUME said \notin {"published", "verified"}
  PROVE  PublishedIsClean
BY DEF PublishedIsClean

LEMMA FindingKinds ==
  ASSUME NEW tree \in Tree, NEW p \in Path
  PROVE  scanFile(tree, p) \subseteq {"error", "warn"}
BY DEF scanFile, scanPath, scanContent, PATH_RULES, CONTENT_RULES, Tree

(* A strict scan that passes found nothing in any file.                     *)
LEMMA StrictPass ==
  ASSUME NEW tree \in Tree, NEW files \in SUBSET Path, NEW more,
         Passes((UNION {scanFile(tree, p) : p \in files}) \cup more, TRUE)
  PROVE  \A p \in files : scanFile(tree, p) = {}
<1> SUFFICES ASSUME NEW p \in files
             PROVE  scanFile(tree, p) = {}
  OBVIOUS
<1>1. scanFile(tree, p) \subseteq (UNION {scanFile(tree, q) : q \in files}) \cup more
  OBVIOUS
<1>2. "error" \notin scanFile(tree, p) /\ "warn" \notin scanFile(tree, p)
  BY <1>1 DEF Passes
<1> QED
  BY <1>2, FindingKinds

LEMMA VerifyPublished ==
  ASSUME Shape, Phases, VerifyClean
  PROVE  PublishedIsClean'
<1>1. /\ job \in PrepareJob /\ job.at = "verify" /\ Preparing /\ job # None
      /\ repo \in Repository /\ wt \in Tree /\ idx \in Tree
  BY PrepareShaped DEF VerifyClean, Shape
<1>2. repo.there /\ repo.head = "main" /\ repo.refs["main"] = <<idx>> /\ Matched
  BY <1>1 DEF Shape, Phases
<1>3. HeadTree = idx
  BY <1>1, <1>2, OneCommit DEF HeadTree
<1>4. Len(repo.refs["main"]) = 1
  BY <1>1, <1>2, OneCommit
<1>5. PICK listing \in Listings :
        End(IF Passes(Findings("all", scanHistory(listing)), TRUE) THEN "published" ELSE "failed")
  BY DEF VerifyClean
<1>6. /\ UNCHANGED <<wt, idx, repo>>
      /\ said' = IF Passes(Findings("all", scanHistory(listing)), TRUE) THEN "published" ELSE "failed"
  BY <1>5 DEF VerifyClean, End
<1>7. HeadTree' = HeadTree
  BY <1>6 DEF HeadTree, NoTree
<1>8. ASSUME Passes(Findings("all", scanHistory(listing)), TRUE)
      PROVE  \A p \in Paths(HeadTree') : scanFile(HeadTree', p) = {}
  <2> DEFINE more == scanHistory(listing)
  <2>1. Findings("all", more) = (UNION {scanFile(wt, p) : p \in Paths(idx)}) \cup more
    <3>1. collectFilePaths("tracked") = Paths(idx) /\ readFileContent("tracked") = wt
      BY DEF collectFilePaths, readFileContent
    <3>2. scanTree("tracked") = UNION {scanFile(wt, p) : p \in Paths(idx)}
      BY <3>1, Zenon DEF scanTree
    <3>3. Findings("all", more) = scanTree("tracked") \cup more
      BY DEF Findings
    <3> QED
      BY <3>2, <3>3
  <2>2. Paths(idx) \in SUBSET Path
    BY DEF Paths
  <2> HIDE DEF more
  <2>3. \A p \in Paths(idx) : scanFile(wt, p) = {}
    BY <1>1, <1>8, <2>1, <2>2, StrictPass DEF more
  <2>4. \A p \in Paths(idx) : scanFile(idx, p) = scanFile(wt, p)
    BY <1>2 DEF Matched, scanFile
  <2> QED
    BY <1>3, <1>7, <2>3, <2>4
<1>9. said' # "verified"
  BY <1>6
<1> QED
  BY <1>2, <1>4, <1>6, <1>7, <1>8, <1>9 DEF PublishedIsClean

(* The scanner reads every file of the archive: what is packed is not       *)
(* ignored.                                                                 *)
LEMMA VerifyVerified ==
  ASSUME ReleaseAssumption, Shape, Builds, VerifyArchive
  PROVE  PublishedIsClean'
<1> DEFINE files == archive.files
           scanned == Paths(files) \ BaseIgnored
           good == /\ archive # None
                   /\ REQUIRED_FILES \subseteq Paths(files)
                   /\ Paths(files) \cap FORBIDDEN_GLOBS = {}
                   /\ Matches(archive)
                   /\ Passes(UNION {scanFile(files, p) : p \in scanned}, TRUE)
<1>1. said' = (IF good THEN "verified" ELSE "failed") /\ archive' = archive /\ built' = built
  BY Zenon DEF VerifyArchive, End, rest
<1>2. ASSUME good
      PROVE  files \in built /\ \A p \in Paths(files) : scanFile(files, p) = {}
  <2>1. archive \in Archives /\ files \in Tree /\ built \subseteq Tree
    BY <1>2 DEF Shape, Archives
  <2>2. PICK packed \in built : \A p \in Path : archive.manifest[p] \in {packed[p], Absent}
    BY <1>2 DEF Builds
  <2>6. Paths(packed) \subseteq Payload /\ Payload \subseteq Path \ BaseIgnored
    BY <2>2 DEF Builds, ReleaseAssumption
  <2>7. \A p \in Path : files[p] \in {packed[p], Absent} /\ (p \in Payload => files[p] # Absent)
    BY <1>2, <2>2 DEF Matches, REQUIRED_FILES, Paths
  <2>8. \A p \in Path : files[p] = packed[p]
    BY <2>6, <2>7 DEF Paths
  <2>9. files \in built
    BY <2>1, <2>2, <2>8 DEF Tree
  <2>3. scanned = Paths(files) /\ scanned \in SUBSET Path
    BY <2>6, <2>8 DEF Paths
  <2>4. Passes((UNION {scanFile(files, p) : p \in scanned}) \cup {}, TRUE)
    BY <1>2
  <2> HIDE DEF files, scanned
  <2>5. \A p \in scanned : scanFile(files, p) = {}
    BY <2>1, <2>3, <2>4, StrictPass
  <2> QED
    BY <2>3, <2>5, <2>9 DEF files
<1> HIDE DEF good
<1>3. said' # "published" /\ (said' = "verified" => good)
  BY <1>1
<1> QED
  BY <1>1, <1>2, <1>3 DEF PublishedIsClean, Paths, files, scanFile, scanContent
(* Every other step says nothing, or changes nothing.                       *)
LEMMA NextPublished ==
  ASSUME ReleaseAssumption, Shape, Builds, Phases, PublishedIsClean, [Next]_vars
  PROVE  PublishedIsClean'
<1>1. CASE \/ Stage \/ Commit \/ HygieneCheck \/ InstallHooks \/ Die \/ UntrackVerify
           \/ (\E write \in BOOLEAN : ApplyToolkit(write))
           \/ (\E p \in Path, c \in Content \cup {Absent} : Edit(p, c))
           \/ (\E p \in Path : Spoil(p))
  <2>1. said' \in {"none", "failed", "untracked"}
    BY <1>1 DEF Stage, Commit, HygieneCheck, InstallHooks, Die, UntrackVerify, ApplyToolkit,
       Edit, Spoil, End
  <2> QED
    BY <2>1 DEF PublishedIsClean
<1>2. CASE \/ UntrackStart \/ (\E options \in Options : PrepareStart(options))
           \/ BuildStart \/ WriteArchive
  <2>1. said' \in {"none", "nothing"}
    BY <1>2 DEF UntrackStart, PrepareStart, BuildStart, WriteArchive, End
  <2> QED
    BY <2>1 DEF PublishedIsClean
<1>3. CASE Untrack \/ UntrackPlaceholder \/ StagePlaceholder \/ UntrackIgnore
  <2>1. said = "none"
    BY <1>3, UntrackShaped DEF Untrack, UntrackPlaceholder, StagePlaceholder, UntrackIgnore
  <2>2. said' \in {"none", "failed"}
    BY <1>3, <2>1 DEF Untrack, UntrackPlaceholder, StagePlaceholder, UntrackIgnore, Goto, End
  <2> QED
    BY <2>2 DEF PublishedIsClean
<1>4. CASE VerifyClean
  BY <1>4, VerifyPublished
<1>5. CASE PrepareStep /\ ~VerifyClean
  <2>1. said = "none"
    BY <1>5, PrepareAt
  <2>2. said' = said
    BY <1>5 DEF PrepareStep, writeBackup, RemoveGit, initializeRepository,
       restoreLocalConfig, startOrphanRoot, AddAll, CommitClean, SetHooks, DropBranch,
       RenameBranch, pruneOtherRefs, Goto
  <2> QED
    BY <2>1, <2>2 DEF PublishedIsClean
<1>6. CASE RemoveArchive
  <2>1. said = "none" /\ said' = said
    BY <1>6, BuildShaped DEF RemoveArchive, Goto
  <2> QED
    BY <2>1 DEF PublishedIsClean
<1>7. CASE VerifyArchive
  BY <1>7, VerifyVerified
<1>8. CASE UNCHANGED vars
  <2>1. /\ said' = said /\ repo' = repo /\ archive' = archive /\ built' = built
        /\ HeadTree' = HeadTree
    BY <1>8 DEF vars, HeadTree, NoTree
  <2> QED
    BY <2>1 DEF PublishedIsClean, Paths, scanFile, scanContent
<1> QED
  BY <1>1, <1>2, <1>3, <1>4, <1>5, <1>6, <1>7, <1>8 DEF Next, PrepareStep

-----------------------------------------------------------------------------
(* What untrack-runtime-data leaves.                                        *)

(* Where the scanner finds no runtime file, those on disk are ignored.      *)
LEMMA CleanWorktree ==
  ASSUME wt \in Tree, idx \in Tree, collectFilePaths("worktree") \cap Untrackable = {},
         NEW p \in Paths(wt) \cap Untrackable
  PROVE  p \in Path /\ idx[p] = Absent /\ Ignored(p)
<1>1. p \in Path /\ p \notin Paths(idx) /\ p \notin Untracked
  BY DEF collectFilePaths, Paths
<1> QED
  BY <1>1 DEF Untracked, Paths

(* An untrackable path is an error wherever the scanner meets it.           *)
LEMMA CheckedWorktree ==
  ASSUME wt \in Tree, idx \in Tree, Check("worktree")
  PROVE  collectFilePaths("worktree") \cap Untrackable = {}
<1> DEFINE seen == collectFilePaths("worktree")
<1>1. Findings("worktree", {}) = UNION {scanFile(wt, p) : p \in seen}
  <2>1. readFileContent("worktree") = wt
    BY DEF readFileContent
  <2>2. scanTree("worktree") = UNION {scanFile(wt, p) : p \in seen}
    BY <2>1, Zenon DEF scanTree
  <2>3. Findings("worktree", {}) = scanTree("worktree")
    BY DEF Findings
  <2> QED
    BY <2>2, <2>3
<1>2. seen \subseteq Path
  BY ScannedPaths
<1> HIDE DEF seen
<1>3. "error" \notin UNION {scanFile(wt, p) : p \in seen}
  BY <1>1 DEF Check, Passes
<1>4. \A p \in seen : "error" \notin scanFile(wt, p)
  BY <1>3
<1>5. \A p \in Path : p \in Untrackable => "error" \in scanFile(wt, p)
  BY DEF scanFile, scanPath, PATH_RULES
<1> QED
  BY <1>2, <1>4, <1>5 DEF seen

LEMMA CoveringKept ==
  ASSUME Covering, retired' = retired, block => block', \A p \in retired : idx'[p] = Absent
  PROVE  Covering'
BY DEF Covering, Ignored

(* git add -A takes in nothing that is ignored.                             *)
LEMMA AddedCovers ==
  ASSUME Covering
  PROVE  \A p \in retired : Added[p] = Absent
BY DEF Covering, Added, Paths, Untracked

(* A run that ends with success has seen the files on disk.                 *)
LEMMA Retiring ==
  ASSUME Shape, Covering, Retires, collectFilePaths("worktree") \cap Untrackable = {},
         UNCHANGED <<wt, idx, block>>
  PROVE  Covering'
<1>1. \A p \in Paths(wt) \cap Untrackable : p \in Path /\ idx[p] = Absent /\ Ignored(p)
  BY CleanWorktree DEF Shape
<1> QED
  BY <1>1 DEF Covering, Retires, Ignored

LEMMA NextCovering ==
  ASSUME ReleaseAssumption, Shape, Covering, [Next]_vars
  PROVE  Covering'
<1>0. \A p \in retired : idx[p] = Absent /\ p \in Path /\ p \in Untrackable
  BY DEF Covering
<1>1. CASE \/ Commit \/ HygieneCheck \/ InstallHooks \/ Die \/ VerifyArchive \/ VerifyClean
           \/ (\E write \in BOOLEAN : ApplyToolkit(write))
           \/ (\E p \in Path, c \in Content \cup {Absent} : Edit(p, c))
           \/ (\E p \in Path : Spoil(p))
           \/ RemoveArchive \/ WriteArchive
           \/ (\E options \in Options : PrepareStart(options)) \/ BuildStart
  <2>1. UNCHANGED <<idx, block, retired>>
    <3>1. CASE HygieneCheck
      BY <3>1 DEF HygieneCheck, rest
    <3>2. CASE Commit \/ InstallHooks \/ Die \/ VerifyArchive \/ VerifyClean
      BY <3>2 DEF Commit, InstallHooks, Die, VerifyArchive, VerifyClean, rest
    <3>3. CASE RemoveArchive \/ WriteArchive \/ BuildStart
      BY <3>3 DEF RemoveArchive, WriteArchive, BuildStart, rest
    <3> QED
      BY <1>1, <3>1, <3>2, <3>3 DEF ApplyToolkit, Edit, Spoil, PrepareStart, rest
  <2> QED
    BY <1>0, <2>1, CoveringKept
<1>2. CASE Stage \/ AddAll
  <2>1. idx' = Added /\ UNCHANGED <<block, retired>>
    BY <1>2 DEF Stage, AddAll, rest
  <2> QED
    BY <2>1, AddedCovers, CoveringKept
<1>3. CASE PrepareStep /\ ~VerifyClean /\ ~AddAll
  <2>1. (idx' = idx \/ idx' = NoTree) /\ UNCHANGED <<block, retired>>
    BY <1>3 DEF PrepareStep, writeBackup, RemoveGit, initializeRepository,
       restoreLocalConfig, startOrphanRoot, CommitClean, SetHooks, DropBranch,
       RenameBranch, pruneOtherRefs, rest
  <2> QED
    BY <1>0, <2>1, CoveringKept DEF NoTree
<1>4. CASE Untrack
  <2>1. (\E p : idx' = [idx EXCEPT ![p] = Absent]) \/ idx' = idx
    BY <1>4 DEF Untrack
  <2>2. UNCHANGED <<block, retired>> /\ idx \in Tree
    BY <1>4 DEF Untrack, rest, Shape
  <2> QED
    BY <1>0, <2>1, <2>2, CoveringKept DEF Tree
<1>5. CASE StagePlaceholder
  <2>1. idx' = [idx EXCEPT ![Placeholder] = wt[Placeholder]] /\ UNCHANGED <<block, retired>>
    BY <1>5 DEF StagePlaceholder, rest
  <2>2. Placeholder \notin Untrackable /\ idx \in Tree
    BY DEF ReleaseAssumption, Shape
  <2> QED
    BY <1>0, <2>1, <2>2, CoveringKept DEF Tree
<1>6. CASE UntrackPlaceholder \/ UntrackIgnore
  <2>1. UNCHANGED <<idx, retired>>
    BY <1>6 DEF UntrackPlaceholder, UntrackIgnore, rest
  <2>2. block => block'
    BY <1>6, Zenon DEF UntrackPlaceholder, UntrackIgnore
  <2> QED
    BY <1>0, <2>1, <2>2, CoveringKept
<1>7. CASE UntrackStart
  <2> DEFINE found == collectFilePaths("worktree")
  <2>1. \/ found \cap Untrackable = {} /\ Retires
        \/ retired' = retired
    BY <1>7 DEF UntrackStart, rest
  <2>2. UNCHANGED <<wt, idx, block>>
    BY <1>7 DEF UntrackStart
  <2> QED
    BY <1>0, <2>1, <2>2, Retiring, CoveringKept
<1>8. CASE UntrackVerify
  <2>1. /\ UNCHANGED <<wt, idx, block>>
        /\ (Check("worktree") /\ Retires) \/ retired' = retired
    BY <1>8 DEF UntrackVerify
  <2>2. Check("worktree") => collectFilePaths("worktree") \cap Untrackable = {}
    BY CheckedWorktree DEF Shape
  <2> QED
    BY <1>0, <2>1, <2>2, Retiring, CoveringKept
<1>9. CASE UNCHANGED vars
  BY <1>0, <1>9, CoveringKept DEF vars
<1> QED
  BY <1>1, <1>2, <1>3, <1>4, <1>5, <1>6, <1>7, <1>8, <1>9 DEF Next, PrepareStep

-----------------------------------------------------------------------------
(* The theorems.                                                            *)

(* The strengthened invariant holds in every state the scripts and the user *)
(* can bring a checkout into.                                               *)
THEOREM ReleaseInductive == Spec => []IInv
<1>1. Init => IInv
  BY ReleaseAssumption, InitInductive
<1>2. IInv /\ [Next]_vars => IInv'
  BY ReleaseAssumption, NextShape, NextBuilds, NextPhases, NextRecoverable, NextPublished, NextCovering DEF IInv
<1> QED
  BY <1>1, <1>2, PTL DEF Spec

(* Type correctness: the files, the index and every reference of the        *)
(* repository stay what git keeps, whatever script dies in the middle.      *)
THEOREM ReleaseTypes == Spec => []TypeOK
<1>1. IInv => TypeOK
  BY DEF IInv, Shape, TypeOK, Repository
<1> QED
  BY <1>1, ReleaseInductive, PTL

(* Every commit there ever was is in the repository or in a backup, in      *)
(* every state of every run of prepare-clean-history, those that die and    *)
(* those started again included.                                            *)
THEOREM NothingLost == Spec => []Recoverable
<1>1. IInv => Recoverable
  BY DEF IInv
<1> QED
  BY <1>1, ReleaseInductive, PTL

(* What is called ready to publish, a history or an archive, is what was    *)
(* scanned, and no rule found anything in it.                               *)
THEOREM OnlyCleanPublished == Spec => []PublishedIsClean
<1>1. IInv => PublishedIsClean
  BY DEF IInv
<1> QED
  BY <1>1, ReleaseInductive, PTL

(* A runtime file that was on disk when a run of untrack-runtime-data ended *)
(* with 0 is never tracked again, whoever adds what is on disk later and    *)
(* whichever later runs die.                                                *)
THEOREM RuntimeDataUntracked == Spec => []UntrackedForGood
<1>1. IInv => UntrackedForGood
  BY DEF IInv, Covering, UntrackedForGood
<1> QED
  BY <1>1, ReleaseInductive, PTL
=============================================================================
