--------------------------- MODULE ReleaseScripts ---------------------------
(***************************************************************************)
(* scripts/*.mjs and .githooks: the scanner that says which files must not *)
(* be published (hygiene-check), the script that stops tracking such files *)
(* (untrack-runtime-data), the one that replaces the whole history by one  *)
(* commit after a backup (prepare-clean-history), the hooks, and those     *)
(* that build and verify the archive of these tools.  All of them work on  *)
(* one checkout: its files, its index and its references.                  *)
(*                                                                         *)
(* A script is a sequence of commands: each that changes the repository is *)
(* an action, and the script may die, or a command fail, before any of     *)
(* them.  The user works between the scripts, not during one.              *)
(*                                                                         *)
(* A file is a path and a content; its size, which the scanner and the     *)
(* archive check limit, is left out.  The rules of the scanner are sets of *)
(* paths and of contents.  .git is refs, head, the index, the hooks and    *)
(* the identity in its configuration; a reference is the sequence of trees *)
(* of its commits, the empty one when it does not exist.                   *)
(***************************************************************************)
EXTENDS Naturals, Sequences, FiniteSets, SequencesExt

CONSTANTS
  Path, Content,
  Absent,         \* the content of a file that is not there
  None,           \* no script runs, or no branch was checked out
  Placeholder,    \* the path of .gitkeep, which the rules allow
  Empty,          \* its content, in which no rule finds anything
  Untrackable,    \* paths of UNTRACKABLE_RULES that are errors
  Review,         \* paths of REVIEW_RULES, errors as well
  Doubtful,       \* paths whose rule is a warning
  Secret,         \* contents in which a content rule finds an error
  Suspect,        \* contents in which one finds a warning
  Covered,        \* paths the managed block of .gitignore covers
  BaseIgnored,    \* paths .gitignore covers without that block
  Payload,        \* the paths that build-toolkit-zip packs, none of them ignored
  Barred,         \* paths that verify-toolkit-zip refuses, a list of its own
  InitialFiles,   \* the sets of files of the checkouts to begin with
  MaxEdits,       \* bound: edits of the user
  MaxCommits,     \* bound: commits of a reference
  MaxScripts      \* bound: scripts started

ASSUME ReleaseAssumption ==
  /\ Placeholder \in Path \ (Untrackable \cup Review \cup Doubtful)
  /\ Empty \in Content \ (Secret \cup Suspect)
  /\ InitialFiles \subseteq SUBSET Path /\ Payload \subseteq Path \ BaseIgnored
  /\ {MaxEdits, MaxCommits, MaxScripts} \subseteq Nat

VARIABLES
  wt,       \* the files on disk
  idx,      \* the index
  repo,     \* .git: there, refs, head, hooks (core.hooksPath), ident (user.*)
  block,    \* .gitignore has the managed block
  backups,  \* the references in the complete .git copies made so far
  archive,  \* the toolkit archive: its files and what its manifest says of them
  built,    \* history: the files of every archive that was built
  retired,  \* history: runtime files on disk when a run of untracking succeeded
  job,      \* the script under way
  said,     \* how the last script ended
  made,     \* history: every commit, as the history it ends
  count     \* the bounded counters

vars == <<wt, idx, repo, block, backups, archive, built, retired, job, said, made, count>>
rest == <<archive, built, retired>>

Ref == {"main", "topic", "staging"}   \* --branch, another one, and <branch>-clean
Tree == [Path -> Content \cup {Absent}]
History == Seq(Tree)
NoTree == [p \in Path |-> Absent]
Paths(tree) == {p \in Path : tree[p] # Absent}

HeadTree == IF repo.refs[repo.head] = <<>> THEN NoTree ELSE Last(repo.refs[repo.head])
Ignored(p) == p \in BaseIgnored \/ (block /\ p \in Covered)
Untracked == {p \in Paths(wt) \ Paths(idx) : ~Ignored(p)}
Dirty == idx # HeadTree \/ Untracked # {} \/ \E p \in Paths(idx) : wt[p] # idx[p]

TypeOK ==
  /\ wt \in Tree /\ idx \in Tree /\ block \in BOOLEAN
  /\ repo.there \in BOOLEAN /\ repo.hooks \in BOOLEAN /\ repo.ident \in BOOLEAN
  /\ repo.head \in Ref /\ DOMAIN repo.refs = Ref
  /\ \A r \in Ref : repo.refs[r] \in History
  /\ said \in {"none", "published", "untracked", "nothing", "verified", "failed"}

(* A checkout whose files are those of its last commit, on the branch to   *)
(* be published or on another one; what the other branch has, if it is     *)
(* there, is every file.  An earlier run may have left its ignore block.   *)
Init ==
  /\ \E present \in InitialFiles :
       wt = [p \in Path |-> IF p \in present THEN Empty ELSE Absent]
  /\ idx = wt /\ block \in BOOLEAN /\ retired = {}
  /\ \E at \in {"main", "topic"}, other \in BOOLEAN :
       repo = [there |-> TRUE, hooks |-> FALSE, ident |-> TRUE, head |-> at,
               refs |-> [r \in Ref |->
                 IF r = at THEN <<wt>>
                 ELSE IF other /\ r # "staging" THEN <<[p \in Path |-> Empty]>> ELSE <<>>]]
  /\ backups = {} /\ archive = None /\ built = {} /\ job = None /\ said = "none"
  /\ made = {repo.refs[r] : r \in Ref} \ {<<>>}
  /\ count = [edits |-> 0, scripts |-> 0]

-----------------------------------------------------------------------------
(* hygiene-check.mjs.  A finding is its severity.                          *)

PATH_RULES ==
  [p \in Path |-> IF p \in Untrackable \cup Review THEN {"error"}
                  ELSE IF p \in Doubtful THEN {"warn"} ELSE {}]
CONTENT_RULES ==
  [c \in Content |-> IF c \in Secret THEN {"error"} ELSE IF c \in Suspect THEN {"warn"} ELSE {}]
scanPath(p) == PATH_RULES[p]
scanContent(c) == IF c = Absent THEN {} ELSE CONTENT_RULES[c]
scanFile(tree, p) == scanPath(p) \cup scanContent(tree[p])

(* Mutant: the default mode lists what git ls-files lists.                 *)
TrackedFilePaths(mode) ==
  IF mode = "staged" THEN {p \in Paths(idx) : idx[p] # HeadTree[p]} ELSE Paths(idx)

(* The paths of a mode, and where it reads their content.                  *)
collectFilePaths(mode) ==
  CASE mode = "staged"   -> {p \in Paths(idx) : idx[p] # HeadTree[p]}
    [] mode = "tracked"  -> Paths(idx)
    [] mode = "worktree" -> Paths(idx) \cup Untracked
readFileContent(mode) == IF mode = "staged" THEN idx ELSE wt
scanTree(mode) == UNION {scanFile(readFileContent(mode), p) : p \in collectFilePaths(mode)}

(* rev-list --objects prints an object once, with one of the paths it is   *)
(* reached by: files of the same content are listed as one.                *)
Reachable == UNION {ToSet(repo.refs[r]) : r \in Ref}
Listings ==
  LET trees   == Reachable
      objects == UNION {{tree[p] : p \in Paths(tree)} : tree \in trees}
  IN  {listing \in [objects -> Path] :
         \A c \in objects : \E tree \in trees : tree[listing[c]] = c}
scanHistory(listing) == UNION {scanPath(listing[c]) : c \in DOMAIN listing}

(* The mode of the options given: --tracked with --history is --all, any   *)
(* other two modes are refused.                                            *)
parseArgs(requested) ==
  IF "all" \in requested \/ {"tracked", "history"} \subseteq requested THEN "all"
  ELSE IF requested = {} THEN "worktree"
  ELSE IF Cardinality(requested) = 1 THEN CHOOSE mode \in requested : TRUE
  ELSE "refused"
ScanModes == {parseArgs(requested) : requested \in
                SUBSET {"worktree", "staged", "tracked", "history", "all"}}

(* --all scans the tracked files and the history, whose findings are given; *)
(* --soft-history makes warnings of these.                                  *)
Findings(mode, history) ==
  CASE mode = "all"     -> scanTree("tracked") \cup history
    [] mode = "history" -> history
    [] OTHER            -> scanTree(mode)
Softened(history) == IF history = {} THEN {} ELSE {"warn"}

(* Mutant: --strict changes what is printed, and not the exit status.      *)
PassesLenient(findings, strict) == "error" \notin findings

(* The exit status: no error, and with --strict no warning either.         *)
Passes(findings, strict) == "error" \notin findings /\ (strict => "warn" \notin findings)
Check(mode) == Passes(Findings(mode, {}), FALSE)

-----------------------------------------------------------------------------
(* The user, between the scripts.                                          *)

Idle == job = None /\ repo.there
End(how) == job' = None /\ said' = how

Edit(p, c) ==
  /\ job = None /\ count.edits < MaxEdits
  /\ wt' = [wt EXCEPT ![p] = c] /\ wt # wt'
  /\ count' = [count EXCEPT !.edits = @ + 1]
  /\ End("none")
  /\ UNCHANGED <<idx, repo, block, backups, made, rest>>

(* git add -A                                                              *)
Added == [p \in Path |-> IF p \in Paths(idx) \cup Untracked THEN wt[p] ELSE Absent]
Stage ==
  /\ Idle /\ idx' = Added /\ idx # idx'
  /\ End("none")
  /\ UNCHANGED <<wt, repo, block, backups, made, count, rest>>

(* .githooks/pre-commit, when the hooks are installed, scans what is       *)
(* staged and refuses the commit when it finds an error.                   *)
PreCommit == repo.hooks => Check("staged")
CommitTo(history) ==
  /\ PreCommit
  /\ repo' = [repo EXCEPT !.refs[repo.head] = history]
  /\ made' = made \cup {history}

Commit ==
  /\ Idle /\ idx # HeadTree /\ Len(repo.refs[repo.head]) < MaxCommits
  /\ CommitTo(Append(repo.refs[repo.head], idx))
  /\ End("none")
  /\ UNCHANGED <<wt, idx, block, backups, count, rest>>

(* hygiene-check, run by hand with any options.                            *)
HygieneCheck ==
  LET histories == {scanHistory(listing) : listing \in Listings}
      found == {Findings(mode, h) : mode \in ScanModes \ {"refused"},
                                    h \in histories \cup {Softened(h) : h \in histories}}
  IN  /\ Idle
      /\ \/ "refused" \in ScanModes /\ End("failed")
         \/ \E passed \in {Passes(f, strict) : f \in found, strict \in BOOLEAN} :
              End(IF passed THEN "none" ELSE "failed")
      /\ UNCHANGED <<wt, idx, repo, block, backups, made, count, rest>>

(* hooks:install                                                           *)
InstallHooks ==
  /\ Idle /\ ~repo.hooks
  /\ repo' = [repo EXCEPT !.hooks = TRUE]
  /\ End("none")
  /\ UNCHANGED <<wt, idx, block, backups, made, count, rest>>

(* apply-toolkit.mjs: with --write it merges entries into package.json, in *)
(* which the rules find what they found before, and installs the hooks;    *)
(* then, and in a dry run, it scans the working tree.                      *)
ApplyToolkit(write) ==
  /\ Idle
  /\ repo' = [repo EXCEPT !.hooks = @ \/ write]
  /\ End(IF Check("worktree") THEN "none" ELSE "failed")
  /\ UNCHANGED <<wt, idx, block, backups, made, count, rest>>

Start(script) ==
  /\ Idle /\ count.scripts < MaxScripts
  /\ count' = [count EXCEPT !.scripts = @ + 1]
  /\ job' = script

-----------------------------------------------------------------------------
(* untrack-runtime-data.mjs --write.  .gitignore is not among the paths.   *)

Retires == retired' = retired \cup (Paths(wt) \cap Untrackable)

UntrackStart ==
  LET found == collectFilePaths("worktree")
      targets == found \cap Untrackable
  IN  IF targets = {} /\ found \cap Review = {}
      THEN /\ Idle /\ End("nothing") /\ Retires
           /\ UNCHANGED <<wt, idx, repo, block, backups, made, count, archive, built>>
      ELSE /\ Start([script |-> "untrack", at |-> "remove", targets |-> targets,
                     placeholder |-> wt[Placeholder] = Absent,
                     ignore |-> ~block \/ \E p \in targets : ~Ignored(p)])
           /\ said' = "none"
           /\ UNCHANGED <<wt, idx, repo, block, backups, made, rest>>

At(script, at) == job # None /\ job.script = script /\ job.at = at
Goto(at) == job' = [job EXCEPT !.at = at] /\ UNCHANGED said

(* git rm --cached refuses what is staged and is neither on disk nor in    *)
(* the last commit; the script then exits, whatever it has removed.        *)
Untrack ==
  /\ At("untrack", "remove")
  /\ LET p == CHOOSE q \in job.targets : TRUE IN
     IF job.targets = {}
     THEN Goto("placeholder") /\ UNCHANGED idx
     ELSE IF idx[p] \in {Absent, HeadTree[p]} \/ wt[p] \in {Absent, idx[p]}
     THEN /\ idx' = [idx EXCEPT ![p] = Absent]
          /\ job' = [job EXCEPT !.targets = @ \ {p}] /\ UNCHANGED said
     ELSE End("failed") /\ UNCHANGED idx
  /\ UNCHANGED <<wt, repo, block, backups, made, count, rest>>

(* The placeholder is written if it is not on disk, and then staged.       *)
UntrackPlaceholder ==
  /\ At("untrack", "placeholder") /\ Goto(IF job.placeholder THEN "stage" ELSE "ignore")
  /\ wt' = IF job.placeholder THEN [wt EXCEPT ![Placeholder] = Empty] ELSE wt
  /\ UNCHANGED <<idx, repo, block, backups, made, count, rest>>

StagePlaceholder ==
  /\ At("untrack", "stage") /\ Goto("ignore")
  /\ idx' = [idx EXCEPT ![Placeholder] = wt[Placeholder]]
  /\ UNCHANGED <<wt, repo, block, backups, made, count, rest>>

UntrackIgnore ==
  /\ At("untrack", "ignore") /\ Goto("verify")
  /\ block' = (block \/ job.ignore)
  /\ UNCHANGED <<wt, idx, repo, backups, made, count, rest>>

UntrackVerify ==
  /\ At("untrack", "verify")
  /\ IF Check("staged") /\ Check("worktree")
     THEN End("untracked") /\ Retires ELSE End("failed") /\ UNCHANGED retired
  /\ UNCHANGED <<wt, idx, repo, block, backups, made, count, archive, built>>

-----------------------------------------------------------------------------
(* prepare-clean-history.mjs --execute, confirmed.  A run that refuses     *)
(* (dirty without --allow-dirty, no identity, a finding) changes nothing.  *)

Options ==
  {o \in [mode : {"reinit", "orphan"}, prune : BOOLEAN, allowDirty : BOOLEAN] :
     o.prune => o.mode = "orphan"}
PrepareStart(options) ==
  /\ Idle /\ (Dirty => options.allowDirty) /\ repo.ident
  /\ Check("tracked")
  /\ Start([script |-> "prepare", at |-> "backup", mode |-> options.mode,
            prune |-> options.prune, prev |-> None, ident |-> FALSE])
  /\ said' = "none"
  /\ UNCHANGED <<wt, idx, repo, block, backups, made, rest>>

(* Mutant: only the branch that is checked out is backed up.               *)
CopiedHead == [r \in Ref |-> IF r = repo.head THEN repo.refs[r] ELSE <<>>]

(* The copy of .git is what later steps rely on; the bundle and the        *)
(* snapshot of the working tree may fail, and the script goes on.          *)
Copied == repo.refs
snapshotLocalConfig == repo.ident
writeBackup ==
  /\ At("prepare", "backup")
  /\ backups' = backups \cup {Copied}
  /\ job' = [job EXCEPT !.ident = snapshotLocalConfig, !.at = IF job.mode = "reinit" THEN "remove" ELSE "orphan"]
  /\ UNCHANGED <<wt, idx, repo, block, said, made, count, rest>>

RemoveGit ==
  /\ At("prepare", "remove") /\ Goto("init")
  /\ repo' = [there |-> FALSE, hooks |-> FALSE, ident |-> FALSE, head |-> "main",
              refs |-> [r \in Ref |-> <<>>]]
  /\ idx' = NoTree
  /\ UNCHANGED <<wt, block, backups, made, count, rest>>

initializeRepository ==
  /\ At("prepare", "init") /\ Goto("config")
  /\ repo' = [repo EXCEPT !.there = TRUE]
  /\ UNCHANGED <<wt, idx, block, backups, made, count, rest>>

restoreLocalConfig ==
  /\ At("prepare", "config") /\ Goto("add")
  /\ repo' = [repo EXCEPT !.ident = job.ident]
  /\ UNCHANGED <<wt, idx, block, backups, made, count, rest>>

(* git checkout --orphan fails when the branch exists, from a run before.  *)
startOrphanRoot ==
  /\ At("prepare", "orphan") /\ repo.refs["staging"] = <<>>
  /\ job' = [job EXCEPT !.at = "add",
                        !.prev = IF repo.refs[repo.head] = <<>> THEN None ELSE repo.head]
  /\ repo' = [repo EXCEPT !.head = "staging"]
  /\ UNCHANGED <<wt, idx, block, backups, said, made, count, rest>>

AddAll ==
  /\ At("prepare", "add") /\ Goto("commit")
  /\ idx' = Added
  /\ UNCHANGED <<wt, repo, block, backups, made, count, rest>>

CommitClean ==
  /\ At("prepare", "commit") /\ idx # NoTree /\ Goto("hooks")
  /\ CommitTo(<<idx>>)
  /\ UNCHANGED <<wt, idx, block, backups, count, rest>>

SetHooks ==
  /\ At("prepare", "hooks")
  /\ Goto(IF job.mode = "reinit" THEN "verify" ELSE "drop")
  /\ repo' = [repo EXCEPT !.hooks = TRUE]
  /\ UNCHANGED <<wt, idx, block, backups, made, count, rest>>

(* finishOrphanRoot: branch -D of the branch left, branch -M, and          *)
(* pruneOtherRefs with --prune-refs.                                       *)
DropBranch ==
  /\ At("prepare", "drop") /\ Goto("rename")
  /\ repo' = IF job.prev \in {None, "staging"} THEN repo ELSE [repo EXCEPT !.refs[job.prev] = <<>>]
  /\ UNCHANGED <<wt, idx, block, backups, made, count, rest>>

RenameBranch ==
  /\ At("prepare", "rename") /\ Goto("prune")
  /\ repo' = [repo EXCEPT !.refs["main"] = repo.refs["staging"], !.refs["staging"] = <<>>,
                          !.head = "main"]
  /\ UNCHANGED <<wt, idx, block, backups, made, count, rest>>

pruneOtherRefs ==
  /\ At("prepare", "prune") /\ Goto("verify")
  /\ repo' = IF job.prune
             THEN [repo EXCEPT !.refs = [r \in Ref |-> IF r = "main" THEN @[r] ELSE <<>>]]
             ELSE repo
  /\ UNCHANGED <<wt, idx, block, backups, made, count, rest>>

(* hygiene-check --all --strict; the next steps are printed if it passes.  *)
VerifyClean ==
  /\ At("prepare", "verify")
  /\ \E listing \in Listings :
       End(IF Passes(Findings("all", scanHistory(listing)), TRUE)
           THEN "published" ELSE "failed")
  /\ UNCHANGED <<wt, idx, repo, block, backups, made, count, rest>>

-----------------------------------------------------------------------------
(* build-toolkit-zip.mjs, and verify-toolkit-zip.mjs, which only reads.    *)

Manifest(files) == files    \* the checksum of a file stands for its content
BuildStart ==
  /\ \A p \in Payload : wt[p] # Absent
  /\ Start([script |-> "build", at |-> "remove",
            files |-> [p \in Path |-> IF p \in Payload THEN wt[p] ELSE Absent]])
  /\ said' = "none"
  /\ UNCHANGED <<wt, idx, repo, block, backups, made, rest>>

RemoveArchive ==
  /\ At("build", "remove") /\ Goto("zip")
  /\ archive' = None
  /\ UNCHANGED <<wt, idx, repo, block, backups, made, count, built, retired>>

WriteArchive ==
  /\ At("build", "zip") /\ End("none")
  /\ archive' = [files |-> job.files, manifest |-> Manifest(job.files)]
  /\ built' = built \cup {job.files}
  /\ UNCHANGED <<wt, idx, repo, block, backups, made, count, retired>>

(* A file of the archive is damaged, lost or added on the way, or a line   *)
(* of its manifest is lost; a line damaged otherwise matches no file.       *)
Spoiled(p) ==
  {[archive EXCEPT !.files[p] = c] : c \in Content \cup {Absent}}
    \cup {[archive EXCEPT !.manifest[p] = Absent]}
Spoil(p) ==
  /\ job = None /\ archive # None /\ count.edits < MaxEdits
  /\ archive' \in Spoiled(p) \ {archive}
  /\ count' = [count EXCEPT !.edits = @ + 1]
  /\ End("none")
  /\ UNCHANGED <<wt, idx, repo, block, backups, made, built, retired>>

(* Every file is listed, every hash matches, and nothing else is listed.   *)
Matches(a) == \A p \in Path : a.files[p] = a.manifest[p]

REQUIRED_FILES == Payload
FORBIDDEN_GLOBS == Barred

(* The scanner runs in a scratch repository of what the archive does not   *)
(* itself ignore.                                                          *)
VerifyArchive ==
  /\ Idle
  /\ LET files == archive.files IN
     End(IF /\ archive # None
            /\ REQUIRED_FILES \subseteq Paths(files)
            /\ Paths(files) \cap FORBIDDEN_GLOBS = {}
            /\ Matches(archive)
            /\ Passes(UNION {scanFile(files, p) : p \in Paths(files) \ BaseIgnored}, TRUE)
         THEN "verified" ELSE "failed")
  /\ UNCHANGED <<wt, idx, repo, block, backups, made, count, rest>>

-----------------------------------------------------------------------------
(* The script dies, or a command fails and it exits.                       *)
Die ==
  /\ job # None
  /\ End("failed")
  /\ UNCHANGED <<wt, idx, repo, block, backups, made, count, rest>>

Next ==
  \/ \E p \in Path, c \in Content \cup {Absent} : Edit(p, c)
  \/ Stage
  \/ Commit
  \/ HygieneCheck
  \/ InstallHooks
  \/ \E write \in BOOLEAN : ApplyToolkit(write)
  \/ UntrackStart
  \/ Untrack
  \/ UntrackPlaceholder
  \/ StagePlaceholder
  \/ UntrackIgnore
  \/ UntrackVerify
  \/ \E options \in Options : PrepareStart(options)
  \/ writeBackup
  \/ RemoveGit
  \/ initializeRepository
  \/ restoreLocalConfig
  \/ startOrphanRoot
  \/ AddAll
  \/ CommitClean
  \/ SetHooks
  \/ DropBranch
  \/ RenameBranch
  \/ pruneOtherRefs
  \/ VerifyClean
  \/ BuildStart
  \/ RemoveArchive
  \/ WriteArchive
  \/ \E p \in Path : Spoil(p)
  \/ VerifyArchive
  \/ Die

Spec == Init /\ [][Next]_vars

-----------------------------------------------------------------------------
(* Properties.                                                             *)

(* Whatever a run of prepare-clean-history destroys, and wherever it dies, *)
(* and however often it is run again, every commit there ever was is in    *)
(* the repository or in a backup: .git is removed, branches are deleted or *)
(* overwritten and references are pruned only after all of them were       *)
(* copied.                                                                 *)
Recoverable ==
  \A history \in made : \E refs \in backups \cup {repo.refs} :
    \E r \in Ref : IsPrefix(history, refs[r])

(* The push instructions are printed only for a branch of one commit in    *)
(* which no rule, not even a warning, finds anything: not for a file that  *)
(* git add -A took in after the first scan, and not after a failed run.    *)
(* And an archive is called safe to publish only if it has the files of a  *)
(* build, and nothing is found in them.                                    *)
PublishedIsClean ==
  /\ said = "published" =>
       /\ repo.there /\ repo.head = "main" /\ Len(repo.refs["main"]) = 1
       /\ \A p \in Paths(HeadTree) : scanFile(HeadTree, p) = {}
  /\ said = "verified" =>
       /\ archive.files \in built
       /\ \A p \in Paths(archive.files) : scanFile(archive.files, p) = {}

(* A runtime file that was on disk when untrack-runtime-data ended with 0  *)
(* is never tracked again, though it stays on disk: not by the user's      *)
(* git add -A, not by that of prepare-clean-history, and not through a     *)
(* later run that dies.  Such a run has removed it from the index and made *)
(* .gitignore cover it; one that dies after the first and before the       *)
(* second is not followed by one that finds nothing to do.                 *)
UntrackedForGood == \A p \in retired : idx[p] = Absent

(* What line 165 of untrack-runtime-data says: always restore both         *)
(* placeholders, for a fresh clone needs them.  The code does not keep it, *)
(* see the README.                                                         *)
PlaceholdersRestored == said \in {"untracked", "nothing"} => idx[Placeholder] # Absent

(* What hygiene-check --help says of --history: it audits every path that  *)
(* ever existed in reachable history.  Then no path the rules reject is in *)
(* the history that is published.  The code does not keep it, see the      *)
(* README.                                                                 *)
HistoryAudited ==
  said = "published" => \A tree \in Reachable : Paths(tree) \cap (Untrackable \cup Review) = {}

=============================================================================
