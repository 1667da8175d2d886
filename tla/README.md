# A verification of memorialiste

memorialiste keeps Markdown documentation in step with source code.  For every
document of a manifest it reads a *watermark* (the commit the document was last
generated against), asks a language model to rewrite the document from the git
diff since then, commits the result with a new watermark on a branch of its own,
pushes the branch and opens a merge request.

This directory holds TLA+ models of that program, configurations that check them
with TLC on small instances, and theorems TLAPS proves for every instance.  The
source is the reference: each definition that models code names, in
`PROJECT.json` under `map`, the lines it stands for.

## 1. Inventory

| component (source) | state it keeps | operations | modelled by |
|---|---|---|---|
| run (`cmd/memorialiste/main.go`) | the entries to write, the set of migration sidecars | entry loop; `Apply`; `Push`; `OpenChangeRequest` | `LocalRun`, `Delivery` |
| context (`context/`) | none; reads the disk and the repository | `Assemble`: watermark, body, diff, HEAD, budget | `LocalRun` |
| watermarks (`watermarks/`) | a sidecar file: records of (path, commit) | `Load`, `Lookup`, `Upsert`, `Save` | `Watermarks` |
| output (`output/`) | branch, HEAD, index, worktree, commit | `Apply` in four phases | `LocalRun`, `Repository` |
| git (`go-git`, vendored) | history, refs, HEAD, index, worktree | `Checkout`, `Add`, `Commit`, `Push` | `Repository`, `Delivery` |
| platform (`platform/`) | the remote's branches and requests | `Push`, `OpenChangeRequest` | `Delivery` |
| generate (`generate/`) | a conversation | one completion, or the tool loop | `ToolLoop` |
| codesearch (`codesearch/`) | hits, counters, one goroutine and channel per file | `Search`, `parseGoFile` | `CodeSearch` |
| effective, cliconfig, manifest | none; read the command line and the environment, twice | `Parse`, `Validate`, `DetectCLIExplicit`, `Resolve` | `Settings`; a parsed manifest is a constant of `LocalRun` |
| AST enrichment (`context/ast.go`) | a scanner's position, the files of a diff | `parseDiffFiles`, `enrichDiff` | `Enrichment` |
| provider (`provider/`) | none | `Complete`, `CompleteWithTools` | outcomes in `ToolLoop` |
| repository metadata (`context/meta.go`) | none | text for the prompt | not modelled |

How they interact.  The run is sequential: for each manifest entry it calls
`Assemble`, and for a non-empty diff `Generate`; then `Apply` once, for all
entries; then the platform.  All that survives a run is the local repository
(documents, sidecars, index, refs, HEAD) and the remote.  The next run reads its
watermarks from there, and that loop through the repository, with people working
in it, is what makes the program hard to get right:

- **partial failure and crashes.**  Apply changes a ref, HEAD, the index, files
  and a commit one after the other and undoes nothing; files are written by
  truncation.
- **stale state.**  HEAD is read three times in a run; a watermark may live in
  the frontmatter, in the sidecar the manifest names and in sidecars it named
  before.
- **interleaving.**  Developers commit, edit and stage while a run works; CI jobs
  run beside each other and beside reviewers.
- **unreliable delivery.**  A push or request may take effect although its answer
  is lost; a branch may be on the platform without a request.
- **bounds and time.**  A ceiling on tool turns, a limit on hits, a timeout per
  parsed file with a goroutine left behind, a scanner with a longest line.
- **the same thing read twice.**  The command line and the environment are read by
  kong and again by `effective`, each with its own parser.

What makes the components correct, in one line each: a watermark never claims a
change its document does not tell (context, output, watermarks); a commit holds
the plan and nothing else (output); a run that ends well missed nothing (run);
what is published is true and only grows, and a reported request is there
(platform); every tool call is answered before the next request, and the loop
ends (generate); the hits are the first ones of the files counted as scanned
(codesearch); the highest layer that sets a setting decides it (effective); every
changed file reaches the model, its new lines marked at their numbers (AST
enrichment).  `PROJECT.json` lists the hazards one by one, at their lines, with
the properties that watch them.

## 2. Modules

```
                          Documentation
                                ^ implements
Watermarks <- Repository <-  LocalRun  <-  Delivery
                              |    |        |    |
                         ...Proofs MC...    |   MC...
                              |             |
                         MarksProofs <- DeliveryProofs
                              |
                        CommitsProofs

ToolLoop          CodeSearch        Settings          Enrichment
  |    |            |    |            |    |              |
...Proofs MC...  ...Proofs MC...   ...Proofs MC...   ...Proofs MC...
```

Each module of the first line extends the one on its left; the four of the second
line stand by themselves: `Settings` comes before a run, `Enrichment` is inside
`Assemble`, `ToolLoop` inside `Generate`, `CodeSearch` inside the loop.  `MC...`
modules give constants their values.  The proofs of `LocalRun` are in three modules:
`LocalRunProofs` (the sidecar file, the repository, types and control of a run),
`MarksProofs` (what watermarks mean) and `CommitsProofs` (what the history shows, also
while watermarks move); each extends the one before.

**Watermarks** has no state: a sidecar is a sequence of records, with `Load`,
`Lookup` and `Upsert` as operators.  Commits are numbered from 1; `NoMark` (0) is
the empty `generated_at`.

**Repository** has the history (`commits`, each with tree and parent), `refs`,
`head`, `index` and `worktree`, and the go-git calls memorialiste makes. `Unstaged`
is the check `Worktree.Checkout` makes before it touches anything, which does not
count untracked files; `Changes` is the files `resetIndex` finds changed, and
`RestoredTree` is what `resetWorktree` does with them: those whose copy on disk is
not the index's are taken from the target, all others stay.  The rest of the module
is what people do: commit, edit, stage, switch and delete branches, merge.  A
document is abstracted to the version of every source file it describes, and a
source file to its version; a later version has a larger number, so
`TreeOf(m).src[s] <= text[s]` says that the text tells every change of `s` up to
commit `m`.

**LocalRun** is a run up to its commit.  `pc` names the step to come:

| phase | actions | code |
|---|---|---|
| `read` | `ReadDoc` (with `ReadWatermark`) | `Assemble` 93-105, `readWatermarkForDoc` |
| `diff` | `ComputeDiff` (with `DiffSince`) | `computeDiff` |
| `resolve` | `ResolveHEAD`, `OverBudget`, `SkipEntry` | `Assemble` 112-165, `run` 147-150 |
| `generate` | `Generate` | `run` 154-180 |
| `plan` | `PlanNothing`, `PlanWrites` | `Apply` phase 1, dry run, no-op exit |
| `branch`, `ref` | `ResolveBranch`, `BranchExists`, `CreateRef` | `Apply` phase 2 |
| `checkout` | `CheckoutHead`, `CheckoutRefused` | go-git's `Checkout`: HEAD, then the look for unstaged changes |
| `resetIndex`, `resetFiles` | `ResetIndex`, `ResetFiles` | the rest of it: `setHEADCommit` and `resetIndex`, then `resetWorktree` |
| `write`, `sidecar` | `WriteFile`, `WriteFileNoFrontmatter`, `SaveSidecar` | `writePlanned`, `write.go` |
| `stage`, `commit` | `StageFiles`, `CommitIndex` | `Apply` phase 4 |

A step is what the program does between two accesses to something others can
change: a developer may save a file between any two of them.  Four things are
coarser.  HEAD's move and the look for unstaged changes that follows it are one step
(what is saved in between is seen by the look); so are the reset of the branch and
the reading and writing of the index (`resetIndex`, `Add`), the restoring of all the
remembered files, and the lookup of a document's watermark and body.  What developers
may not do during a run is named in section 3.  Errors, exits and kills
are the same thing to the repository, since nothing cleans up: `FailCleanly`
anywhere, `FailTorn` in the middle of a file, `FailStaging` in the middle of
staging.  The model may answer with a text that describes the diff it was shown
(`Rewritten`) or with nothing; that it writes *something true* is assumed, not
checked.

**Documentation** is what the program promises to somebody who sees nothing but the
history: documentation appears in whole commits on branches of their own, which
change no source file; a document such a commit rewrites tells at least what the
sources were when the run began and nothing the commit does not have; branches are
made where their name is free.  It knows no watermark, index, worktree, failure or
incremental diff.  `LocalRun` implements it under the mapping at its end (`Promise`):
the history without its watermarks, `refs`, and the commit HEAD named when the run
started.  The steps of a run are stutters, but for its start, `CreateRef` and
`CommitIndex`.

**Delivery** adds the push, the request, the platform and its users, and three kinds
of clones: `"fresh"` (complete, after which what was not pushed is gone, as in CI),
`"shallow"` (the same with the last commits of the base branch only, at any depth)
and `"kept"` (on a workstation, where runs stack).  An instance may have all of them.
`store` is the commits the clone has, `shallow` the one it ends at.  A run whose
watermark is not in `store` fails (`UnknownWatermark`).  `Rivals` is the phases of a
run in which another job may publish.  The push has no force: `Pushable` is go-git's
fast-forward check, which, where the clone's end cuts the search short (`CutShort`),
takes what it did not find for an ancestor.  An answer may be lost after the platform
acted.

**Settings** follows one setting of one document from the texts that give it a value
to that value.  A token is what the shell hands over, its dashes and its text; what
is a flag and what a value each reader finds out for itself.  `TraceFlag` is kong's
scanner at a flag: the flag's mapper takes the text after the equals sign, or the
next token, which `PopValue` refuses when it starts with a dash (a switch takes
none), and flag and text go to `path`.  `ParseFlags` is the end of the line, with
the variable (`Value.Reset`, then the resolver) and `Config.Validate`;
`ParseManifest` is the validation of the overrides and the scan of single tokens by
`DetectCLIExplicit`, which knows no flag and takes whatever starts with two dashes;
`Resolve` is `effective.Resolve`, which reads the variable again with `strconv`.
There are four kinds of settings, for the four ways a text is read and checked: a
positive integer, a switch, a value of an enum, any text.

**Enrichment** is `context/ast.go`: the scan of a diff line by line, with its line
counter, and the loop over the files it found.  A line keeps its kind, the numbers
of a hunk header and whether it is longer than the scanner's buffer; which sequences
of lines are diffs (`WellFormed`) is taken from go-git's encoder.  What grep-ast
renders is left out; which lines it is told to mark is not.

**ToolLoop** is one call of `Generate`, with or without the loop.  A message keeps
its role and the identities of its tool calls.

**CodeSearch** is one `Search`, with a goroutine, a buffered channel and a timer
per file.

Definitions introduced by "Mutant:" are not part of any specification: each is a
plausible bug, put in place of the definition after it to see that a property
notices (`mutants` in `PROJECT.json`).

## 3. Runs

Every run finishes within about a minute with two workers.
`CHECK_DEADLOCK FALSE` is set everywhere because every system here does stop: at
the bounds on runs and commits, or when the conversation, the search, the
resolution or the enrichment is over.

| run | instance | what it shows |
|---|---|---|
| `frontmatter` | 2 documents, 1 source, 2 runs, 2 edits, 4 commits; dirty worktrees, edited between any two steps; dry runs; all faults | watermarks truthful, model called only for documents behind, never an empty commit, commit exact, waiting branches and unstaged edits survive; implements `Documentation` |
| `sidecar` | 2 documents in one sidecar, 2 sources, 3 runs, 5 commits; clean checkouts; all faults; diffs over the budget | the same for a shared sidecar, and nothing missed by a run that ends well; implements `Documentation` |
| `migration` | 1 document, 2 sources, 3 runs, one change of mode in either direction; failures | Assemble starts at the newest watermark, nothing missed, nothing sent twice |
| `delivery` | 1 document, complete, shallow and kept clones in any order, 4 runs, a rival job, 5 commits; lost answers, refusals, reviewers who merge, close, keep branches | the remote only grows, but for a docs branch pushed from a shallow clone; requests have something to merge, what is published is truthful, a reported request is open for the run's commit |
| `ci_convergence` | 1 document, runs without end in fresh clones, no failures | published watermarks name commits the base branch keeps; every covered change on it ends up documented |
| `tool_loop` | ceilings -1, 0 (default 2), 1, 3; up to 2 calls an answer, with equal or different identities | calls answered once and in order, turns counted, the loop ends |
| `code_search` | 4 files: two that match (walked out of path order, two hits on one line), one malformed, one unreadable; limits -1 to 3 | hits complete and cut after the sort, files counted once, search ends although parsers hang, parsers exit |
| `settings` | 4 kinds; every command line of up to 2 tokens of about 15, and those of 3 that the first tokens make a difference to; 12 texts of the variable; overrides valid and not | the flags kong took are the ones `effective` finds, the highest layer wins, the value is usable |
| `enrichment` | hunks of up to 4 lines of 5 kinds, then nothing, a second hunk or a second file, new or deleted; no overlong line or any one of either file; each file rendered or not | every file before an overlong line keeps its section, renderings mark exactly the added lines |

What the properties say is stated above each of them.  The central one is
`MarksTruthful`: *no source file a document covers changed, up to the watermarked
commit, without the text telling it*.  It relates every watermark, wherever it is
kept, to the text beside it, in every commit and in the worktree.  It is what
makes the program's incremental scheme sound, since a change before the watermark
is in no later diff.

Bounds.  Two documents are enough for one to be written and the other skipped,
failed on, or found up to date in the same sidecar and commit; two source files
for a document to be behind in one and not in the other, and for a diff over the
budget; three runs for a run that fails, one that meets what it left and one that
starts from that; two edits for a change before and one after a run has read HEAD.
`MaxCommits` leaves room beside them for the commits of runs and merges: in
`delivery`, for the first commit, a change, a rival's documentation, a run's and
one merge, or for two runs with a change and a merge between them, and for a shallow
clone cut after the commit another branch starts from.  Its fourth run is one that
fails or has nothing to do beside three that commit.  A run is only
started when there is room for its commit, and developers leave that room, so that
no run is cut short by the bound.  Three tokens are enough
for a flag and a value of its own, a flag twice, and a flag before another flag, its
name or a `--`, where it looks for its value; longer command
lines are covered by the proofs.  Four lines of a hunk are enough for a change with
git's remark on both of its sides and a line after it.

Exclusions, each named in the `.cfg` or in the property:

- `CommitFree = {"resolve", "resetIndex"}`: no developer commits at two moments.
  The code prevents neither.  Between the diff and the second reading of HEAD: run
  `head_race` drops that and shows what happens.  Between HEAD's move to the run's
  branch and `setHEADCommit`, which sets the branch to the commit read before: such a
  commit is taken off the branch and is on no other; without `"resetIndex"` there,
  `ImplementsDocumentation` gives the behaviour.  The theorems that do not need this
  do not assume it.
- `StageFree`: no developer runs `git add` between the reset of the index and the
  commit; what is staged there becomes part of the run's commit, as with any two
  people using one index, and `CommitExact` reports it.  Files may be saved at any
  time.
- `EditsSurvive` is about files whose staged version is the one of the run's branch.
  For the others (`Exposed`) it is false: a file staged in a version v1 passes the
  look for unstaged changes, and a v2 saved over it before `resetWorktree` is lost.
  The property says that these are the only ones, and that no run adds to them;
  `staged_work` shows the loss of v1 itself.
- `Tidy`, for runs with sidecars: they start from a clean checkout, as in CI.  In a
  kept worktree `CommitExact` fails with a sidecar: see section 4.
- `migration` changes the mode once; `mode_roundtrip` changes it twice.
- `Rivals = {"committed"}` in `delivery`: a rival job publishes before a run's push
  (one that publishes earlier is the same to that push, before which the run does not
  look at the platform), not between its push and its request.  A request names a branch, not a
  commit: if, between the two, the branch is deleted, published again by another job
  and that job's request closed, the run reports a request for the other commit.
  With `"request"` in `Rivals`, and room for 6 commits, `OpenedMeansOpen` gives that
  behaviour.
- `RemoteOnlyGrows` exempts one step: the push, from a shallow clone whose end cuts
  the search for the platform's commit short, of the run's own docs branch.  There
  go-git lets a push without force replace the branch, with another job's commits on
  it and maybe an open request.  The GitLab example and the README's usage set no
  depth, so that the CI system's default counts; the GitHub example fetches all.
  Without the exemption TLC gives the behaviour in the instance of `delivery`.
- `MarksReachable` is stated for new clones, shallow or not.  In a kept one HEAD
  stays on the docs branch, the next run stamps a commit of that branch, and a
  squash merge leaves it out of the base branch, from where no later clone has it.
- `PrecedenceKept` is stated for a variable that is not set, or holds a text kong
  and `strconv` read alike (`ReadAlike`): section 4 has the others.
- `MarksExact` is stated for parts of a diff without the two kinds of lines that are
  numbered or classified wrongly (`Plain`): section 4 has them too.

Fairness.  `ci_convergence` assumes that a run that started goes on (it is
sequential and every wait of it has a timeout), that the scheduler keeps cloning
and starting runs, and that somebody merges an open request, or closes it when it
conflicts, and its branch goes with it.  The last is not something memorialiste
asks the platform for: with branches kept after a merge the fixed branch name
makes every later push fail, and documentation stops.  Nothing is assumed about
developers.  `tool_loop` assumes only that the loop goes on (requests and searches
have timeouts).  `code_search` assumes that the search goes on, that timers fire
and that a goroutine which can send does; it does not assume that a parse ever
ends.

## 4. Where the code and its documentation disagree

Three runs expect a violation, and TLC gives the behaviour:

- `head_race`: `Assemble` reads HEAD for the diff (`context.go:107`) and again for
  the stamp (`context.go:112`).  A commit in between is never documented.
- `mode_roundtrip`: a migration to frontmatter leaves the old record in the
  sidecar, and a migration back finds it first; "bidirectional and lossless"
  (`README.md:239`) does not hold for the round trip.
- `staged_work`: the checkout of the branch just created is not "a no-op for the
  worktree contents" (`output.go:238`): a staged change is lost from the index
  and from the disk.

Others were met while modelling and have no run of their own:

- "a re-run while a previous MR is still open will fail-fast" (`commit.go:22`)
  holds for local branches only; a job in a fresh clone learns of the open request
  from the refused push, after the model was called, and a job in a shallow clone may not
  learn of it at all: its push replaces the branch under the open request;
- moving `watermarks_file` from one sidecar to another starts from nothing, since
  other sidecars are consulted only in frontmatter mode (`watermark.go:37` against
  `README.md:241`);
- a sidecar left on disk by a dry run is committed whole by the next real run,
  with records of documents that run does not write (`output.go:259`); `sidecar.cfg`
  with `Tidy = FALSE` and `DryRuns = {TRUE, FALSE}` gives the behaviour;
- a diff over the token budget ends the run, because no summariser is ever passed
  (`main.go:125` against `README.md:182`);
- a run that fails after it created its branch leaves the branch, at which every
  later run in the same clone stops although no request is open (`output.go:230`
  against `commit.go:21`);
- a variable that is set but empty is meant to count as unset (`parse.go:8`, and
  `TestParse_EmptyEnvTreatedAsUnset`, which passes a getenv of its own), but kong's
  `Value.Reset` looks the variable up before that resolver: an empty text replaces
  the default, and for a number the command line is refused even when it gives the
  flag (`FromEnvironment` in `Settings`);
- `strconv` (`effective.go:130`) refuses "yes", which kong takes, so that the
  manifest then wins over the environment, as it does for "0x10" and "1_000", which
  kong reads as 16 and 1000; and reads "010" as 10 where kong reads 8;
- `ErrShallowClone` is never returned (`diff.go:68`): a watermark a shallow clone does
  not have is `ErrObjectNotFound`, reported as an unknown commit, and a job in clones of
  a fixed depth fails for good once the watermark is older than that;
- a line of 64 KiB ends the scan of a diff without an error: its file is cut there
  and the files after it never reach the model (`ast.go:154`, against "Otherwise the
  raw diff is emitted as-is", `ast.go:107`), although the watermark passes them;
- a rendering stands for the whole of a file's diff and shows the new file only:
  removed lines are not told to the model (`ast.go:127`);
- git's remark on a last line without a newline counts as a line, and an added line
  that starts with two plus signs is taken for a header: marks after the one are off
  by one, the other is not marked (`ast.go:183`);
- two manifest entries for one path are accepted (`manifest.go:59`).  Both are
  generated from the text before the run, the second write replaces the first, and
  the one watermark then stands for the files of both: a change of a file only the
  other entry covers is in no later diff (`main.go:174`).  With such a manifest,
  `MarksTruthful` gives the behaviour;
- a path with a space in it is cut by the splitting of the header (`ast.go:162`).

## 5. Proofs

The theorems hold for every value of the constants the modules' assumptions allow:
any manifest, sources, sidecars, modes, faults, and any number of runs.

- **LocalRunProofs.**  First the sidecar file: the first record of a document is
  well defined; `Upsert` keeps a file a sequence of records; what it writes is what
  `Lookup` finds (`LookupAfterUpsert`), and it changes what `Lookup` finds for no
  other document (`UpsertKeepsOthers`).  These make sharing a sidecar safe.

  Then lemmas about `Repository`: each git operation and each action of a developer
  takes well-typed repositories to well-typed repositories; and histories.
  `Ancestors` is a recursive function; what is needed of it (a commit is its own
  ancestor, ancestry is transitive, ancestors have no larger number, a new commit
  changes those of no other) is proved for histories in which a parent comes before
  its child, by taking the least commit that would be a counterexample.

  Last, the run: `TypeCorrect`, `ControlCorrect`, `BranchesAreKept`, `EditsAreKept`.
  The inductive invariant is `IInv == TypeOK /\ ControlOK`.
  Neither half is inductive alone: `plan[k]` is in the type of an entry only
  because `ControlOK` puts `k` in the plan; a commit stays within `MaxCommits` only
  because `ControlOK` keeps room for it; and `ControlOK` needs the types to say
  what an update of the plan leaves.  There is one lemma per action, and `NextInv`
  puts them together.
  The two action properties follow from the invariant by cases on the action.
  Only `CreateRef`, on a branch `ControlOK` says is free, and `ResetIndex` and
  `CommitIndex`, on the branch HEAD names, change `refs`.  Only `ResetFiles` changes
  source files, those `ResetIndex` remembered: it remembers the ones whose staged
  version is not the branch's, which are exposed before it and stay so until the
  files are restored; afterwards the index has HEAD's version of every source
  file but those developers stage.  Nobody is held back for this theorem: it has no
  hypothesis about what developers do, or when.
- **MarksProofs.**  Two invariants on top of `IInv`.
  - `AgeInv` is about the age of watermarks: every watermark in a commit names an
    earlier commit; from its start to its commit a run sees the documents of the
    commit it started from, whatever developers add to the sources; its stamps are
    not older than that commit; and at the commit, the stamp of the last entry
    written is in the index.  The committed tree has only older watermarks, so the
    index differs from it: `AlwaysSomethingToCommit`, without any hypothesis.
  - `ExactInv` is about their truth, and says more than `MarksTruthful`, which is
    not inductive (a text may well tell more than its watermark promises, but then
    the empty diff that follows would be luck): a document says of the files it
    covers *exactly* what the commit its watermark names has, its watermark is where
    the mode says and nowhere else, and so for the entry in memory: its body fulfils
    its old watermark, its diff is all the body lacks up to the stamp.  With
    frontmatter this holds of index and worktree at all times, since a page carries
    its own watermark and nothing that mixes files can part the two.  With sidecars
    it holds of commits, of clean checkouts, and of every document but the one half
    written during a run.  `WatermarksAreTruthful` and `ModelOnlyWhenBehind` follow.
- **CommitsProofs.**  `CommitInv` follows the plan through the disk and the index:
  up to the position of the run, the pages and records of the plan are on disk (for
  two entries of one document, those of the later one); the index is HEAD's tree
  until the files are staged, and then HEAD's tree with just those files; no sidecar
  has a new record that is not in the plan.  That gives `RunsCommitTheirPlan`.
  `SourceInv` says that no source file gets older along the commits a run sees, and
  `ProgressOK` that for every entry the run has passed the document is in the plan
  or told everything the commit the run started from has; together with the other
  invariants they give `NothingIsMissed`.  `RunsImplementTheDocumentation` is the
  refinement, step by step: `Start` is `Begin` on HEAD's branch, a developer's commit
  `Develop`, `CreateRef` `CreateBranch`, `CommitIndex` `Document`, the operator's
  deletion and merge `DeleteBranch` and `Merge`, and every other step leaves what the
  mapping shows as it is.  All invariants above are needed for one of them,
  `CommitIndex`: that the commit changes no source is `CommitInv`, that each rewritten
  document tells what the sources were at the start, and nothing newer than the
  commit, is `RunExact` (the part of `ExactInv` about what a run has in memory) with
  `SourceInv`.

  Then the same **through a migration**, `OneMigration`: the manifest moves the
  watermark of a document once at most, in either direction, while runs fail,
  developers work and branches are merged.  `ExactInv` is false there: a document
  may have two watermarks, and branches cut before the move and after it meet in a
  merge.  The inductive invariant is `MovedInv`.  It keeps `RunExact` and replaces
  the rest of `ExactInv` by what is true of every commit:
  - `Placed`: a record left behind in the sidecar is not newer than the frontmatter
    that took over; and where the sidecar takes over and has a record, the
    frontmatter is gone, because the run that wrote the record wrote the page
    without it.  This is why `readWatermarkForDoc`, whose order of places knows
    nothing of age, finds the newest one (`ReadsTheNewest`).
  - `Told`: a document tells exactly what its newest watermark promises, and not
    less than any other does.
  - `AlongOK`: along the history texts only grow, and two commits of one history
    whose texts of a document agree agree on its watermarks too.  This is for the
    merge, which takes a page and a sidecar as two files and may take them from two
    sides: it does so only if one side changed just one of them, and then both files
    are those of one side (`OneSideDocument`).
  - `InSourcesOK`, `ReadOK` and `PlanNewer`: no text is ahead of its commit's
    sources, what a run read is what the commit it started from has, and what it
    plans for a document differs from that.  They give `AlongOK` at a run's commit.

  Of it follow `MigrationReadsFreshWatermark`, `MigrationKeepsWatermarksTruthful`,
  `MigrationCallsOnlyWhenBehind`, `MigrationMissesNothing` and
  `MigrationImplementsTheDocumentation`: to the history a migration makes no
  difference.  `SettledRunsReadTheirWatermark` is `FreshWatermark` in the setting of
  `MarksProofs`, where nothing moves but checkouts need not be clean.
- **DeliveryProofs.**  `DeliveryTypeCorrect`, `DeliveryControlCorrect`,
  `ReportedIsOpen`, and the local invariants again, in clones that come and go, with
  commits that appear beside the run.  The inductive invariant is that of `LocalRun`
  with the types of the platform, that no run works on the base branch (`branchName`
  falls back to names of its own, and audiences give others), and `JustPushed`: at
  the request, the run's branch on the platform has the pushed commit, or is gone.
  Every step of `LocalRun` is taken over with one lemma about what it leaves to the
  push; the rest is one lemma per action of the platform and its users.
  - `ReportedIsOpen` assumes `"request" \notin Rivals`, without which it is false.
  - `BranchesOnlyGrow`: a push that `Pushable` lets through because it found the
    platform's commit moves a branch to a descendant; one it lets through because the
    clone is cut short is of the run's branch, which is never the base branch; a merge
    moves the base branch to a child; the rest is that a longer history changes no old
    ancestry, and that a new clone drops only commits no branch has.
  - `OpenRequestsHaveBranches`: no docs branch on the platform is part of the base
    branch, nor is the one about to be pushed (`Unmerged`), because a merge squashes:
    what gets into the base branch is a new commit.
  - `DeliverySomethingToCommit` and `PublishedIsTruthful`: `AgeInv` and `ExactInv`
    hold here too.
  - `MarksStayReachable`: every watermark a job can meet, in a commit, on disk or in
    the plan, names a commit of the base branch (`ReachIn`), because a new clone
    starts there and that branch only grows.
- **ToolLoopProofs.**  `TypeCorrect`, `EveryCallIsAnswered`, `NoStrayResult`,
  `TurnsAreCounted`.  The inductive invariant adds to them `Dispatching` (the calls
  being dispatched are those of the last answer, and the results after it are as
  many as were dispatched) and `Counting` (the answers so far are one less than the
  turn, or as many during a dispatch).
- **CodeSearchProofs.**  `TypeCorrect`, `FilesAreCounted`, `HitsAreComplete`, for
  any set of files, declarations and limit.  The inductive invariant adds `AtFile`
  (a file is read or parsed only while there is one at the position) and
  `Collected` (before the sort, the hits are those of the files counted as scanned,
  each once, and nothing is cut).
- **SettingsProofs.**  `FlagsAgree`, `PrecedenceIsKept`, `ValuesAreUsable`, for
  command lines of any length.  The inductive invariant says what each phase leaves
  to the next.  While kong scans, its path has exactly the flags among the tokens
  with two dashes before its position: a step adds the flag it stands at, and of the
  token it takes as a value it is known that it has not two dashes, because
  `PopValue` would have refused it; a token with two dashes that is no flag ends in
  a refusal, and the `--` is no name.  At the end of the line that is `FlagsAgree`.
  The manifest then gets accepted and validated flags, `Resolve` validated
  overrides.  `EffectiveUsable` needs that `strconv` reads no text that kong
  accepted as something the validation would have refused.

- **EnrichmentProofs.**  `TypeCorrect`, `SectionsAreWhole`, `MarksAreExact`, for any
  number of files, hunks and lines.  The invariant `EInv` says what the scanner has
  found at its position: one file for each part begun (`Number` is the place of a
  part's start among all starts, so the last start belongs to the last file); of
  each part, the lines before the position, one after the other; to be marked, the
  numbers of the added lines among them; and the counter is the number, in the new
  file, of the line it stands at, as long as no remark of git's was counted.  The
  hard step is a line of the current file: it must be shown to be in the part of
  the last start and in no other, and `NumberInNew`, which speaks of the last hunk
  before a line and not of a counter, must be found to be the counter.

The assumptions are the `ASSUME`s of `Repository`, `LocalRun`, `Delivery`,
`ToolLoop`, `CodeSearch`, `Settings` and `Enrichment`.  They type the constants and
say that `Nil` is none of the values it stands beside, that a manifest is not empty
(`manifest.Parse` refuses one), that the branch names `branchName` falls back to are
not the base branch, that a command line is finite, and that a diff is what go-git's
encoder writes (`WellFormed`: a part begins with its header, lines stand in hunks,
and a hunk numbered 0 in the new file has no line of it).  Without the last the
counter could be 0 at an added line, and grep-ast would be told to mark line -1.  TLC
evaluates the assumptions in every run.

Some theorems have a hypothesis beside them.  Each is one of the exclusions of
section 3, and each is needed:

| hypothesis | in | says | why |
|---|---|---|---|
| `OneEntryEach` | `Settled` | one manifest entry per path | with two, the texts lose changes (section 4, `manifest.go:59`) |
| `FrontmatterOnly \/ Tidy` | `Settled`, `Undisturbed` | where sidecars are used, runs start from clean checkouts | a run that fails between a document and its sidecar parts them on disk (`output.go:174`) |
| `"resolve" \in CommitFree` | `SettledRun` | no commit between the two readings of HEAD | `head_race` |
| `MaxModeChanges = 0` | `SettledRun` | `watermarks_file` stays as it is | one change needs `OneMigration` instead, two break `FreshWatermark` (`mode_roundtrip`) |
| `MaxModeChanges <= 1` | `OneMigration` | it changes once at most | `mode_roundtrip` |
| a document's sidecar is the same in all `Modes` | `OneMigration` | it moves between frontmatter and sidecar | from one sidecar to another the watermark is not found (section 4, `watermark.go:37`) |
| that sidecar is in `MigrationSidecars` and in `SidecarOrder` | `OneMigration` | a run in frontmatter mode looks into it | a sidecar that is neither given with `--migration-sidecars` nor named by the manifest is not looked into (`main.go:83`), and the watermark stays behind unread |
| `Tidy` and the first and third row | `OneMigration` | as above | as above |
| `FrontmatterOnly \/ Rivals = {}` | `SettledTeam` | no rival jobs beside sidecars | the rivals of `Delivery` write frontmatter |
| `Tidy \/ {"resetFiles", "write", "stage", "commit"} \subseteq StageFree` | `Undisturbed` | in a kept worktree, nobody stages between the reset of the index and the commit | what is staged there is committed with the run's files |
| `"resetIndex" \in CommitFree` | the two theorems about `ImplementsDocumentation` | nobody commits while the checkout resets the branch | the commit would be taken off its branch (section 3) |
| `Tidy` | `NothingIsMissed` | runs start from clean checkouts | in a kept worktree a failed run may leave a document staged, whose checkout then resets it (`output.go:267`) |

The configurations `frontmatter` and `sidecar` satisfy the hypotheses of the theorems
whose properties they check, in the first and in the second way; `migration` satisfies
`OneMigration` and `mode_roundtrip` does not; `delivery` and `ci_convergence` satisfy
`SettledTeam`.

Every safety property of the passing runs is stated by a theorem.  Only
model-checked: everything about liveness (the prover has no rule for fairness and
`ENABLED`).  The theorems say nothing of two or more changes of the mode, of a
migration in a worktree that is not clean, or of one in the middle of `Delivery`,
whose instances do not change the mode either.

## 6. What is not modelled

- A detached HEAD: HEAD names a branch.  (`diff.go:44` means to refuse a detached
  HEAD but cannot: the reference `Head` returns is always resolved.)
- Two runs at a time in one clone; one run at a time in a clone, any number of
  clones through the platform.
- A failure in the middle of `resetWorktree`, with some of the remembered files
  restored.  A failure before it, after the index, or after all of them is modelled.
- Torn writes that leave more than nothing: YAML cut in the middle is a parse error
  (a failed run) or a shorter list of records.  Only the empty file is modelled.
- Several migration sidecars are modelled, in name order; the instances have one.
- Repository metadata (`meta.go`): a block of read-only text for the prompt, whose
  failure `Assemble` ignores; nothing else depends on it.
- The provider's requests: two shapes of a body, built from the conversation without
  state, and the sorting of HTTP answers into the three outcomes `ToolLoop` has.
  The Ollama client only delegates.
- The derivation of the platform's URLs and the redaction of tokens.
- The texts: prompts, cleaning of answers (`Strip`), frontmatter syntax, slugs of
  audiences, YAML.  A body that starts with a line of three dashes, which a sidecar
  run writes verbatim and a later one reads as frontmatter, is a hazard for that
  reason without a property.
- Durations are resolved like integers and have no kind of their own in `Settings`.
- Test doubles (`internal/fake`).

## 7. Plan

Done: `Watermarks`, `Repository`, `LocalRun` with go-git's checkout step by step,
`Delivery` with complete, shallow and kept clones, `ToolLoop`, `CodeSearch`,
`Settings`, `Enrichment`, the abstract specification `Documentation` with `LocalRun`
shown to implement it, their runs, and the proofs of section 5.  Left, in this
order:

1. **Proofs**: a migration in `Delivery`, that is `MovedInv` for clones that come and
   go beside rivals that write frontmatter.
2. **Texts**, the pure algorithms: frontmatter block (write then read), `Strip`,
   `slugify` and `audienceSlug`, each against a reference over bounded inputs.
3. **Provider**: merging of model parameters, the two request shapes, what is an
   error.
