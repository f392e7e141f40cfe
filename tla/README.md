# A verification project for frostroot

frostroot turns a recipe (`frostroot.toml`) into a Linux image, records in
`frostroot.lock` exactly which packages it holds, downloads those packages into
`vendor/` so that the image can be rebuilt without the network, and rebuilds it
from there. It is one Go process run from a terminal. What makes it hard is not
arithmetic: it is files that several runs and a killed process leave in one
directory, goroutines that download, report and are cancelled, a terminal
screen fed by callbacks, and commands of the system that fail half way.

The modules here model that control, from the Go source, for the TLC model
checker and the TLAPS proof system.

## Inventory

Paths are below `src/internal/`.

| Component | State it keeps | Operations | What is hard | What makes it correct |
|---|---|---|---|---|
| **pool fetch** `pool/fetch.go`, `pool/verify.go` | the files of a pool directory; temporary files; the first error, counts and bytes under a mutex | `Verify`, `Fetch` (dispatcher and workers), `download`, `downloadWithRetry`, `fetchOne`, `Prune` | a failing worker cancels the others; retry, then fallback; kill; a body read without timeout | a final name only ever holds the locked file; the reported error is the cause; the counts are true; it ends |
| **placing a build's outputs** `builder/builder.go`, `builder/workdir.go`, `export/export.go` | `frostroot.lock`, the image in `dist/`, temporary files beside both, the work directory | `Build`, `writeTemporaryLock`, `Stage`, `Unstage`, `restoreLock`, `failBuild` | two renames that should be one; undoing that may fail; another build in the same directory; a crash | lock and image describe each other; a failed build changes nothing; no build touches another's temporary files |
| **vendor command** `cli/vendor.go` | the lock it read, two pools, the phases it has opened | `runVendor`, `vendorRun.do`, `fetchPool`, `Prune` | two pools under one phase; an old snapshot used to remove files; another run; an abandoned download | success means complete pools; prune leaves nothing extra and takes nothing named |
| **progress screen** `tui/progress.go`, `cli/build.go` | phases, two channels, `interrupting`, the result | `Update`, `waitForEvent`, `waitForDone`, `handleKey`, `runBuildFullScreen`, `followWithoutScreen` | result and events arrive in either order; a bounded channel that blocks the work; a screen that fails; two Ctrl-C presses | the exit code is true; nothing hangs; the screen closes once all is shown |
| **package indexes** `cli/packageindex.go`, `index/` | a memo, the cache file on disk, missing parts | `get`, `Open`, `fetch`, `Union`, `readCache`, `writeCache` | a mirror that changes under a fetch, another process's cache, an offline answer remembered, partial answers | what is remembered as whole is whole; every repository asked for is read or missing |
| **picker** `tui/picker.go`, `index/summaries.go` | the list, its load in flight, its ticks, the section list, what was warned of | `Focus`, `startLoad`, `scheduleSummary`, `Update`, `toggle`, `moveOn` | loads overtaken by new answers or told on another page; ticks delivered twice | the list shown belongs to the answers; nothing typed is dropped |
| **questions and answers** `form/`, `tui/form.go`, `tui/variant.go`, `cli/recipeform.go`, `cli/plainform.go` | the answers of every family and target, the recipe they came from | `Fields`, `groups`, `FromRecipe`, `ToRecipe`, `RunForm`, `askFieldsPlain` | answers of a variant no longer chosen; a recipe's parts no question shows | an edit changes what was answered and nothing else; what is confirmed is valid |
| **writing the recipe** `cli/init.go`, `cli/capture.go` | `frostroot.toml`, `certs/` | `writeRecipe`, `writeCapturedCertificates`, `certificatesNotNamedBy` | a recipe that appears meanwhile; failure or a kill at any step | nothing unforced is replaced; a failed run leaves nothing but what a recipe in place has named |
| **recipe format** `recipe/`, `distro/` | none | load, validate | rules that relate fields | a valid recipe builds |
| **lock, lock check, manifest** `builder/lockcheck.go`, `pool/manifest.go`, `pool/fedora.go`, `builder/sources.go`, `builder/fedora*.go` | `frostroot.lock` and the pool, across builds | `composeLock`, `planOffline`, `planFedoraOffline`, `Manifest`, `checkAgainstLock` | recipe, files, lock, pool and archives all change between two builds | the same image, or a refusal with a cause |
| **Python provisioning** `builder/python.go`, `builder/provision.go` | hooks and files in the image | resolve wheels, install, read back | the order of the hooks; which of two reports is right | nothing of the build stays; the lock lists what was installed |
| **bootstrap and the build's programs** `builder/bootstrap.go`, `builder/mounts.go`, `builder/mkosi.go`, `builder/disktools.go` | a process group, the mount watch's refusal, the output's tail, the tools tree | `Run`, `runInterruptibly`, `mountWatch.Write`, `diskToolsTree.remove` | the watch stops the process, the user interrupts it, it fails by itself, all at once | the verdict names what stopped it; the tree goes |
| **disk images** `builder/disklayout.go`, `builder/diskassemble.go` | the layout, recorded in the lock | size, check, derive, assemble | partition arithmetic; sizes from an edited lock | partitions fit, and the lock gives the same disk |
| **build progress phases** `builder/progress.go`, `builder/mkosi.go` | the phase a program is in | parse lines | announcements left out or repeated | phases never go back |
| **capture** `capture/` (the files it writes are above) | none | reads a running system | text formats | - |
| **the rest** `pgp/`, `pki/`, `sources/`, `textdiff/`, `tui/glyphs.go`, `cli/app.go` | none | parsing, tables, wording | - | - |

How they interact: a command of `cli/` starts the work (`builder.Build`,
`pool.Fetch`) in a goroutine of its own when it shows a screen. The work reports
`ProgressEvent`s through a callback that sends on a channel of bounded size; the
screen, an event loop, receives them by commands that each wait on one channel.
Ctrl-C is a key on the screen and a signal without it; both cancel a context
that the work, the downloads and the bootstrap's process group watch. Builds and
vendor runs share files and nothing else: the lock, the image, the pools, and
temporary names beside them. Nothing locks the recipe directory.

## Modules

| Module | Models | Kind |
|---|---|---|
| `VerifiedPool` | what `pool.Fetch` promises of a directory | abstract specification |
| `Fetch` | the dispatcher, the workers and every path of a download | detailed; implements `VerifiedPool` |
| `FetchProofs` | theorems about `Fetch` | proofs |
| `ImageAndLock` | what a user sees of builds run one at a time: lock and image change together | abstract specification |
| `Place` | builds from the temporary lock to the last rename, and their undoing | detailed; implements `ImageAndLock` when builds are alone |
| `PlaceProofs` | theorems about `Place` | proofs |
| `Vendor` | runs of `frostroot vendor` over two pools and a lock that may change | detailed |
| `VendorProofs` | theorems about `Vendor` | proofs |
| `Screen` | the build behind the progress screen | detailed |
| `ScreenProofs` | theorems about `Screen` | proofs |
| `OpenIndex` | one opening of a repository's package index, again and again, beside a publishing mirror | detailed |
| `OpenIndexProofs` | theorems about `OpenIndex` | proofs |
| `Indexes` | the indexes of one run of the form: memo, keys, the openings of several repositories, their union | detailed, over a coarse `OpenIndex` |
| `Picker` | the field that searches an index, on its page of the form; composes `Indexes` | detailed |
| `Recipes` | the recipe as data and `Validate` | operators |
| `Answers` | answers from a recipe and a recipe from answers | operators |
| `RecipeForm` | the questions of init and edit, full-screen and plain; uses `Recipes` and `Answers` | detailed |
| `RecipeWrite` | runs of init, edit and capture in one directory | detailed |
| `FormProofs` | theorems about `Picker` with `Indexes`, about `RecipeForm`, and about `RecipeWrite` | proofs |
| `Locks` | what a lock records and refuses, and the entries it makes for the pools | operators |
| `Rebuild` | a recipe directory over builds, vendor runs, edits and publications; uses `Locks` | detailed |
| `Provision` | the programs of a build, hook by hook, and what each needs, writes and removes | operators |
| `Phases` | the phases and the parsers that find them | operators |
| `Bootstrap` | one build from its first program to the image's place; composes `Provision` and `Phases` | detailed |
| `BootstrapProofs` | theorems about `Bootstrap`, with `Provision` and `Phases` | proofs |
| `DiskLayout` | the sizes of a disk, the lock that records them, the table | detailed |
| `BuildProofs` | theorems about `Rebuild`, with `Locks`, and about `DiskLayout` | proofs |
| `MC...` | constants and symmetry of each for TLC; `MCDirectory` runs `Vendor` and `Place`, `MCForm` and `MCBuild` three components each, one per behavior | instances |

`Vendor` contains a coarse `Fetch` (a download is its temporary file and its
end) because two runs of the full one are out of TLC's reach; the coarse steps
are those `FetchProofs` shows the full one to implement: a file appears whole
under its final name or not at all.

### Fetch

`file[e]` is what a final name holds: nothing, the locked file, or something
else (`checkFile`). A worker is at one of the points where another goroutine
may run between two effects: it has received an entry, sends the request, reads
the body, compares, renames, sleeps before its second try, has failed, has
recorded the error, has exited. `at`, `job`, `source`, `attempt`, `err` and
`temp` are the locals of `fetchOne`, `downloadWithRetry` and `download`.
`firstErr`, `cancelCalled`, `fetched` are the `fetcher`'s. The order "record the
error, then cancel" is two actions, because its order is what makes the first
error the cause. `said404` remembers which servers have answered 404 and is the
only variable with no counterpart in the code. A kill leaves temporary files; a
rerun starts over the same directory.

### Place

A build is at a named point between two system calls that change the recipe
directory. An image and the lock that describes it are one *version*. Names of
temporary files are claimed with `O_EXCL` (`UnusedName`). Undoing is best
effort in the code, so every removal may leave its file. `Spec` runs any number of builds at once;
`SoloSpec`, which the README of frostroot asks for, one at a time. `Crash` is
enabled at every point. `lost` and `before` are history: whether a restore
failed, and what lock and image were when the build started.

### Vendor

The two pools are the `PoolFiles` that are wheels and those that are not. A run reads
the lock once (`BeginRun`), verifies each pool in one step, downloads through temporary files,
and with `--prune` verifies again and removes what that answer called extra, one
file at a time, while another run does as it likes and `NewLock` replaces the
lock.

### Screen

The work has an event to report (`Reports`), is then inside
`events <- event` (`Send`), which has no step while the channel of `Buffer` places
is full, and can only come to its end (`Return`) outside a send; it closes the
channel and sends its result on `done`. `TakeEvent`, `TakeClosed` and `TakeDone` are the two commands
Bubble Tea runs in goroutines; the messages they bring are processed in the
order they happen to arrive. The screen may fail at any time, and its commands
outlive it. The work's own end is all that is assumed of it, and not while a send
blocks it: that `followWithoutScreen` drains the channel (`build.go:316-318`) is
what `Ends` rests on.

### OpenIndex

`openTarget` from `readCache` to `writeCache`, for apt's pockets (`fetch`) and
Fedora's repositories (`fedora`). What a file holds is the revision it was
published at; `listed` and `served` are what the mirror's Release file (or
`repomd.xml`) says and what it serves, and the mirror moves either between any
two requests. A request is one action: the plan of a pocket (`Plan`,
`PocketNotFound`), a file that is the listed one (`FileMatches`), is not
(`FileChanged`, then `Replan`) or is longer (`FileTooLong`), or one that fails
(`FetchFails`). `done`, `total` and `pocketBytes` are the fetcher's counters and
`reported` what the progress callback last heard. `ctx` is the caller's
context: cancelled by the picker, or past the 20 seconds `packageindex.go` gives
a source, which `openTarget` treats differently. The cache file is read, deleted
by name when it does not parse, and replaced by a rename; `OtherWrites` is
another process doing so. `begun` is history: what was listed when the call
began.

### Indexes and Picker

`packageIndexes` keeps one index per repository (`Key`), the answers it gave
offline, and PyPI's. A call is the opening of the repositories of a request one
after another; each ends as `OpenIndex` lets it end, and an index is where it
came from (`old` or `fresh` cache, this `run`). `Union` keeps what is missing.
`Picker` is the Bubble Tea field: `load` is the opening it waits for, `messages`
those that have been sent and not delivered, and a message reaches whatever page
is on. `Rest`, `RestDue` and `Tick` are the debounce and the spinner. `warned`
is the text Enter has warned of.

### Recipes, Answers and RecipeForm

A recipe is a record of its tables. `Validate` returns a set of problems; a
pattern is the set of names it accepts (`Accepted`), so the rules that relate two
fields are exact and the grammar of one is a constant. `FromRecipe` and
`ToRecipe` are the two directions of `form/values.go`; `MergePackages`,
`MergeSources` and the original values kept beside the answers are what an edit's
round trip rests on. `RecipeForm` asks the questions of the family and target as
answered, in pages and back (`Groups`, `Shown`) or line by line; every variant
of a question has an answer of its own.

The locale and the time zone are choices from a list (`Offered`), which is shorter
than what `Validate` accepts. The full-screen widget is huh's `Select`, a library
(external): over a value that is none of its options it stands on the first, and
holds that once its page is passed. `AsOffered` says so of where it starts, which
makes no difference, since every page is passed before the summary. The plain
interface keeps the value and refuses it. The other choices, of family, target,
release, catalog packages and sources, offer all a valid recipe may hold. Two PPAs may
have one source name (`PpaName`): the form refuses both at once (`OnePpaEach`), and
a merge goes by name, so that one answered in place of another of its name leaves
the row of the first.

### RecipeWrite

A run is at a point between two system calls that change the directory. The
recipe's file records who made it, whether it is whole and what it names; a
claim is a file that is not whole. `named` is history. A capture (`Captures`)
writes its report once the form has written the recipe and fetched its keys
(`WriteReport`); when that fails it fails, and takes nothing away. So a capture
that wrote its recipe leaves every certificate it made, report or not, those
its user took off the Trust page too: `capture.go:55-59` promises to take back those
of a form that was abandoned or failed. `wrote` is history as well: whether the
form came to its end.

### Locks and Rebuild

`Locks` is the lock's content as sets: packages with version, architecture,
mark, origin and digest, repositories, keys and certificates, Python, disk.
`Rebuild` lets a user build, vendor and rebuild while `EditRecipe`,
`ReplaceFile`, `ArchiveMoves`, `EditLock` and `SpoilPool` change what the next
command reads. What apt, dnf and pip install is external: the newest version of
all that is needed, or, offline, what the pool serves, and they may leave one out
(`slip`). `made` is history: the build that wrote the lock, and whether a hand
has edited it since.

### Provision, Phases and Bootstrap

`Programs(kind)` is the sequence of programs of a build of one kind, each a
sequence of steps with what a step needs of the image, writes into it, takes and
gives of work files, and says on its output. `Bootstrap` runs them: a program
writes lines into a pipe of `PipeSize`, a reader hands them to the mount watch
and the parser, the user interrupts and the signal arrives at any time, any
program or step of the build may fail, and the verdict is taken in the code's
order (`WaitFailed`, `LogLost`, `WaitRefused`, `WaitDone`). A path of the image
holds what the archive, the recipe, the build or the host put there. `AllKinds` are
the kinds of build there are; the run `build` takes eight of them, the proofs all.

### DiskLayout

Bytes, MiBs and sectors as numbers, with the code's rounding. `Online` draws and
sizes a layout, `Assemble` makes the table and places the partitions, `WriteLock`
records it, `EditSizes` is a hand, `Offline` reads it back.

## Runs

| Run | Instance | Shows |
|---|---|---|
| `fetch` | 2 workers, 2 files (one with a size and a fallback, one with neither), 2 runs | the first error is the cause, nothing left behind, summary, not found, refinement of `VerifiedPool`, cancelling ends it, and it ends unless a body stalls |
| `place_solo` | 3 builds one after another, 2 names | lock and image agree, a failed build changes nothing, refinement of `ImageAndLock` |
| `place_winner` | 2 builds at once, 2 names | **violated**: a failing build replaces the lock of one that succeeded |
| `directory` | 2 vendor runs, 2 package files and a wheel, 2 locks; 2 builds at once, 2 names | success lasts and was reported phase by phase, prune leaves nothing extra; temporary files are exclusive and accounted for, the built image survives |
| `screen` | 3 phases, a channel of 2 | the exit code is true and the first Ctrl-C waited, the screen shows everything before it closes, and all ends |
| `open` | 2 pockets or repositories, 2 files in each pocket, a mirror that publishes once more | nothing half published is answered or cached, `--refresh-index` is honoured, the progress adds up, and it ends |
| `form` | a picker with 2 loads over 3 repositories, 3 keys and 2 changes of answers; 4 recipes to edit or none, 3 answers; 2 runs and 2 certificates | the list shown belongs to the answers, an opening accounts for every repository, nothing typed is dropped; an edit keeps the rest but what its lists do not offer, what is refused after confirmation is one of two combinations; nothing unforced is replaced, a failed run leaves nothing but what a recipe in place has named |
| `warning` | the picker of `form` | **violated**: the summary's warning does not follow the index that arrived |
| `switching` | the questions of `form` | **violated**: the name does not follow a switch of target |
| `unedited` | the questions of `form` | **violated**: an edit in which nothing is answered writes another locale |
| `build` | 10 recipes, 2 states of the archives, 2 edits, 3 commands that build; 8 kinds of build with a pipe of 2 lines; a disk of 8-byte MiBs with 5 tarballs, 5 requests and 5 edited sizes | an offline build rebuilds the image or refuses for a cause; the verdict is true, what is placed is clean, phases go forward; partitions fit |
| `pip` | a recipe that asks for pip from an index of its own | **violated**: the lock records another pip than the image has |

Why the bounds suffice. Two workers and two files make every interleaving of one
failure with one success, and a file of each kind makes every check of
`download` bite. Two runs are what leaves something behind and finds it. A
third build in `place_solo` sees what two earlier ones, one of them crashed,
left; two at once are all a race needs, and two names make a collision
possible. A channel of two with three phases blocks the work and lets it end with
events unseen. Two
pockets are the release's own and `-updates`, which a frozen mirror lacks; two
files are what one pocket can mix, and a mirror that publishes one larger
revision changes a file before, between and after the requests for it. With
three revisions the run passes too, in a few minutes. Symmetry is used only
where no liveness is checked. In `form` two loads are one superseded and its
successor, three keys type, warn and move on, and two changes of the answers
come back to an index opened before; two runs are one that claims
and one that forces or captures. In `build` two edits change two of what an
offline build compares, and `Years` = 3 makes a lock, a pool and the build from
them; the recipes hold one of each thing the lock records. A pipe of two lines
lets the last line, which may lack its end, be read after the program's exit.
Sizes of a few bytes are enough for rounding in each direction because the proof
covers the rest.

**Fairness.** `Fetch`: the dispatcher and every worker keep running, and the Go
runtime aborts a read whose context is cancelled; nothing is assumed of a
server in the middle of a body, so `EndsUnlessABodyStalls` says just that.
Connecting, the handshake and the response header have timeouts in the client.
`Screen`: goroutines, the event loop and `main` keep running, and the work, once
cancelled or not, comes to an end as long as it can go on. Blocked in its send it
cannot: no action of it is enabled while the channel is full, and weak fairness
owes it nothing then. No key, signal or failure is assumed.
`OpenIndex`: the call's own code runs on and each of its requests ends, which
the header timeout bounds only up to the body; a source has 20 seconds besides.
`Place` and `Vendor` state no liveness and no fairness.

The other modules state no fairness either: their properties are safety.

Deadlock is checked in every run over `Fetch`, `Place`, `Vendor`, `Screen` and
`OpenIndex`, where a system that has ended stutters by an explicit `Over`.
`MCForm` and `MCBuild` set `CHECK_DEADLOCK FALSE`: a form that was written, a
build that is over or a bound that is reached ends the behavior.

### What the violated runs show

- *A lock that is no winner's* (`builder.go:398`). frostroot's README says that
  of two builds in one directory the last to finish wins. A build whose image
  cannot be renamed puts back the lock it read, or removes `frostroot.lock`,
  also when another build has succeeded since.
- *A warning about an index that has arrived* (`cli/packageindex.go:162`).
  `tui/form.go` computes the summary's warning again when an index loads, and
  `get` finds the answer it gave offline before the one the opening left.
- *A name that does not follow the target* (`tui/form.go:416`). The design says
  an edit that switches the target carries every answer across; the questions for
  the image's and the user's name have a binding per target, and the later one
  still holds what the form started with.
- *A locale no list has* (`tui/form.go:648`). The design says an edit writes back an
  equivalent recipe when nothing is changed. A recipe in `sv_SE.UTF-8`, which
  `Validate` accepts and `form/locales.go` does not list, is written back in
  `en_US.UTF-8` by the full-screen form, and a time zone such as `Etc/UTC` likewise
  as the first of its list; the plain one refuses both (`cli/plainform.go:92`). With
  every accepted value on the lists the property holds.
- *The lock names another pip* (`builder/python.go:674`). With an `index_url`,
  `withResolvedPin` records the pinned pip also when the recipe asks for pip by
  name and the resolution installed a newer one over it. The comments and the
  README say the report of the resolution is the truth then.

### Behaviors worth knowing

Met while modelling, each in a model, and no property of it is claimed:

- `isPackageFile` (`pool/verify.go:120`) knows `.deb` and `.whl`: `vendor --prune`
  leaves an `.rpm` the lock does not name, though the flag names `vendor/rpms`.
- An event queued behind the result starts a phase after `closePhases` has run
  (`tui/progress.go:247`); the last picture shows it running.
- An index published longer after its Release file was read is refused as too
  long without a second request (`index/fetch.go:319`).
- The full-screen form validates only what was confirmed, with no way back:
  22.04 with a disk, and a typed certificate that collides with one an edit
  carries unseen, are refused there (`RefusedForACombination`).
- A forced run that renames between another's claim and rename is replaced by it;
  a claim that cannot be filled is removed by name, whoever's file it is by then.
- A capture whose report cannot be written ends in an error with its recipe in
  place, and leaves the certificates that recipe does not name (`capture.go:90`).
- An abandoned capture may take away a certificate that the form of another run
  has offered and not yet written.
- A hand-written source with the name of a PPA and another URL stands for the
  PPA: the one typed is dropped without a word (`mergeAnswerSources`).
- The sizes of an offline build's disk are the lock's whatever the recipe's
  `[disk]` says; a changed size is not among what `planOffline` compares.
- Fedora's lock refuses a package that dnf lists in another repository than the
  one it came from.
- A lock whose `[[repository]]` tables were edited out is that of a recipe without
  sources to `repositoryDifferences` (`lockcheck.go:274`). Beside a recipe whose
  sources were taken out too, it rebuilds an image whose `sources.list` still has
  their lines and which lacks their keys. Met in the proof of
  `RebuildsTheImageHolds`, which excludes it by `SourcesAreMissed`.

`ProgressIsTrue` asks less of apt than of Fedora: `fedora` follows what its
second plan lists with `totalBytes` (`fedora.go:107`), `fetch` does not
(`fetch.go:117`), so after a retry apt's line may end short of its total or past
it.

## Proofs

The proofs hold for any sets of entries, workers, builds, runs, files, names,
recipes and archives, and any bounds: whatever the constants are that satisfy the
assumptions the modules name.

**FetchProofs.** `FetchInv` is inductive: `FetchInvariant`. It adds to the
properties what they need: a worker holds an entry exactly while it works on
one, and a temporary file only between the open body and the rename
(`WorkersConsistent`); no worker exists outside a run (`RunConsistent`); unless
something cancelled the run each entry is in place, pending or in a worker's
hands (`NoEntryLost`, without which "no error" would not imply "complete"); a
worker cancels only after an error is recorded (`CancelHasACause`);
what is counted is in place (`CountsAreTrue`). From it
follow `FirstErrorIsTheCauseHolds`, `NothingLeftBehindHolds`,
`SummaryIsAccurateHolds`, `NotFoundMeansEverySourceHolds`, and
`FetchRefinesVerifiedPool`: every step of the worker pool is a step of
`VerifiedPool` or a stutter.

**PlaceProofs.** `PlaceInv` says of each build, for the point it is at, which
temporary files it holds and what is in them (`Holding`, `HoldingLock`,
`HoldingImage`); it is inductive for any number of builds at once
(`PlaceInvariant`) and gives `TempsAreExclusiveHolds`,
`TempsAreAccountedForHolds` and `BuiltImageSurvivesHolds`. `SoloInv` adds what
is true when builds run alone: at most one is active, and until it lands it has
changed nothing (`OneActive`, `NothingLanded`, `InTheWindow`). It gives
`LockDescribesImageHolds`, `FailedBuildLeavesAllAsItWasHolds` and
`PlaceRefinesImageAndLock`.

**VendorProofs.** What a run has fetched is *settled*: it is in the pool, or it
was pruned, and then another run that does not name it exists (`Settled`).
While a run fetches, each file its lock names is settled, still to come, or in a
download's hands, and once it moves on all are (`FetchIsComplete`); nothing a
later step of any run does unsettles a file, because only `RemoveFile` removes one,
and it removes what the run's own lock does not name (`ExtrasAreUnnamed`). That is
`SuccessLastsHolds`. `PruneLeavesNoExtraHolds` is about a run that was alone:
`AloneIsAlone` says nobody else is between two steps, so what its second `Verify`
called extra still is all there is (`PruneIsComplete`). `VendorInvariant` is the
inductive one, for any number of runs, of which any may be killed.

**ScreenProofs.** The argument follows two things that travel. An event is in the
channel, in the hand of the command that waits for it, or applied
(`EventsAreApplied`, `ClosedIsTheEnd`); the result is with the work, in the channel
`done`, in a hand, or delivered (`ResultIsDelivered`). A cancelled context was asked
for (`CancelIsAsked`), a screen that quits has a reason to (`QuitsForAReason`), and
`main` knows how the screen ended (`MainFollowsScreen`, `OutcomeIsTrue`). Together,
`ScreenInvariant`, for any number of phases and any capacity of the channel; it
gives `ClosesOnceAllIsShownHolds` and `ExitIsTrueHolds`, also for a screen that
breaks while a command of its own still holds an event.

**OpenIndexProofs.** Pockets are planned in order before any is read
(`PlansInOrder`), files are read in order and a pocket begun again starts over
(`ReadsInOrder`); a plan is no older than what was listed when the call began
(`PlanIsRecent`). From this `IndexesAreWhole`: what is read, answered, cached by this
process or by another is one publication of each pocket, and `AnswerIsWholeHolds`
and `RefreshIsHonouredHolds` follow. For `ProgressIsTrueHolds` the counters are what
was planned and what was read (`CountsAreTrue`), and the last report is of the
counters (`ReportIsCurrent`). A sum of sizes is the cardinality of the set of the
bytes (`Bytes`), so that adding a file and taking a pocket back are facts about
finite sets, with no induction over data.

**FormProofs.** Of the form `MCForm` checks, the picker, the questions and what is
written in the end. `PickerInvariant` is about `PickerSpec`. Of the indexes: what is kept per
repository comes from where an answer may come from under `--refresh-index`
(`KeptIsTrue`), and a call's parts name the repositories it has asked, in order, each
read or missing (`CallIsTrue`), so that their union accounts for every one
(`OpenedIsTrue`, `OpenIsTrueHolds`). Of the field: on its page the list is `Rows` of
the current answers, or a message, a load or a timer that will draw it again is under
way (`ListIsCurrent`, `ShownIsCurrentHolds`); a nudge that stands was for the name
that is typed (`WarnedOfQuery`, `NothingTypedIsDroppedHolds`, an action property).

Of the questions, `FormInv` is inductive for any recipes edited, catalogs, patterns
and answers (`FormInvariant`). Its first half is of types: each widget holds what its
kind of question can hold, and at the end the recipe is `ToRecipe` of the answers
(`FormTyped`, which gives `FormTypeOKHolds`). Its second half is that of every page
behind the one shown, all it shows is accepted (`PassedIsAccepted`). Going back and
changing an answer keeps that, since only the first page's answers choose which
questions there are (`AnswerElsewhere`) and it has no page behind it.
`RefusedForACombinationHolds` then is a fact about `Validate`: answers accepted one by
one (`FitValues`) make a recipe with no other problem than the two combinations
(`FitIsValid`). `EditKeepsTheRestHolds` is a fact about `FromRecipe` and `ToRecipe`
(`PartsStay`), and of what a choice starts on (`UnchangedAnswer`): the two parts with
lists of values are the recipe's in the plain form, and the full-screen form's
`AsOffered` of them. What a merge appends to the original's packages or sources is among
them already, so that keeping the first of each name gives the original back
(`FirstAreEarlier`, `PackagesStay`, `SourcesStay`). Lists are picked by place
(`Picked`) rather than folded, so that these are facts about the places of a list,
with no induction over data.

Two of those proofs found the model at fault. `FitIsValid` failed on the problems of
sources, where `UNION` took in more than it was meant to, and with it a duplicate
name; the parentheses are in `SourceProblems` now. And `EditKeepsTheRest` was false of
a recipe with an empty `[python]` table, or of a disk without a `[disk]` table, which
`pythonTable` drops and `diskTable` writes (`values.go:245`): `Reading` says so now, and
one of the recipes `MCForm` edits has such a table.

Of writing the recipe, `WriteInv` is inductive for any number of runs and
certificates (`WriteInvariant`). Of the runs without `--force` at most one is
between its claim and its rename (`OneClaim`), and then the recipe's name holds
its claim or what a forced run put over it (`ClaimIsThere`): that gives
`UnforcedReplacesNothingHolds`. A run knows each certificate it made
(`MadeAreKnown`), and while it removes, each is among those it removes or a
recipe has named it (`UnnamedAreKnown`). A run whose form came to its end has had its
recipe in place, so that what that names is named, and fails afterwards only as a
capture (`WroteIsKnown`). With `ClaimIsOnes` and
`TemporaryIsOnes` that gives `FailedRunLeavesNothingHolds`. Beside it `OwnInv`: what a
run makes or takes away it read off the machine (`WriteTypeOKHolds`).

**BuildProofs.** Three invariants of the recipe directory, for any recipes,
archives, edits and length of history.

- `RebuildInv`: the lock tells the image it was written with, whatever a hand took
  out of it since (`LockTells`). An online build establishes it, field by field
  (`UbuntuTold`, `FedoraTold`); no edit breaks it, since an edit only takes away;
  and what an offline build makes of a lock that tells an image, if `planOffline`
  found no difference and the comparison with the lock none, is that image
  (`UbuntuRebuilt`, `FedoraRebuilt`). That is `RebuildsTheImageHolds`.
- `ReadInv`: a lock that was written and not edited since has no cause to be
  refused. Its packages have digests, sources its repositories name and one file
  name each, and a pool that holds its entries gives each family exactly its
  packages back, tools aside. The step that needs most work is that
  what apt or dnf installs exists at all: an index is finite, so of the versions it
  lists of a name one is the newest (a least counterexample over the numbers gives
  it), and what `recordChecksums` found for it is one digest. `RefusedForACauseHolds`
  follows, with no hypothesis.
- `TypeInv`: what was ever locked is whole packages, of an architecture of the
  machine and with a mark its package manager has. `RebuildTypeOKHolds` follows: a
  lock is there exactly with the build that wrote it, and an image to show exactly
  when one was placed.

`RebuildsTheImageHolds` has two hypotheses, which are conditions on the recipes that
are tried, each the boundary of something the code does. `PipIsPinned`: no recipe's
own index resolves pip; otherwise the lock names another pip than the image has,
which is the finding of the run `pip`. `SourcesAreMissed`: when hand edits of the
lock's `[[repository]]` tables are tried, no two recipes differ in nothing but that
one has sources and the other none; otherwise `planOffline` takes the edited lock
for the second's (see *Behaviors worth knowing*). Both hold in the run `build`.

Of the disk: for every size of a MiB and a sector that divides it, every
tarball, request and edit, `SizeIsTaken` shows that a layout sized online passes
the check a lock's sizes pass, `AssembledFits` that the table of a layout that
passes fits, `DiskInv` that nothing else is assembled. `PartitionsFitHolds`
follows. Of tarballs it assumes that the disk of one does not pass the 64 TiB
`validate.go` allows (`TarballAssumption`), which the code does not check.

**BootstrapProofs.** Theorems about every kind of build, any pipe and any announcement
left out. A program is a list of steps that `Programs` puts together from the kind, and
the argument is a *walk* along it: a state before each step, of the image's paths, the
work files and what was said, in which the step finds what it needs and has what it
takes, and after which the next state holds (`Labels`). A part of a program carries one
set of states to another (`Carries`) and parts are joined, so each hook is looked at
once, with its conditions, and not once per kind: `AptLeads`, the hooks' and mkosi's
lemmas give the walk of the image's program, `ProgramsLead` that of each program of a
plan from what the programs before it leave.

- `BootInv` says that the build stands where the walk of its program does (`Walking`),
  and what its process, the refusal the watch reads, the tools tree and the verdict are
  for the point it is at (`Running`, `Refusing`, `Treed`, `Judged`). No step of a walk
  lacks what it needs, so a program that ends badly was interrupted, refused its mounts
  or failed by the host: `VerdictIsTrueHolds`. The walk of the image's program ends in
  `Clean`, which no later program disturbs: `PlacedIsCleanHolds`.
- `DisplayInv` adds `Display`, how far the display has come. The list of a build's
  phases rises in one order (`Ord`, `ListRises`), and the table is done before a place
  in that order and waiting after it (`Shows`). While the image's program runs, what
  its walk has said is heard, in the pipe behind all that comes earlier, or left out
  (`Hears`); mkosi's parser, which announces less, follows the phases it knows
  (`Follows`). Each report of the build itself starts where the one before it ended
  (`Pointed`), and a read line moves the table on by `Between`. It is
  `BootstrapInvariant`, and gives `PhasesGoForwardHolds` and `BootstrapTypeOKHolds`.

**Assumptions.** They are named in the modules that declare the constants, and TLC
evaluates each in a run. Most say that a special value is no member of a set
(`NoneAssumption`, `LoadsAssumption`, `DigestsAssumption`), that a bound is a number
(`BoundsAssumption`, `YearsAssumption`, `KeysAssumption`, `ScreenAssumption`), or which sets contain
which (`CachesAssumption`, `VendorAssumption`, whose last part says that no lock names
a partial download's hidden `.tmp` name). Those that say more of the world:

- `RecipesAssumption`: what `validate.go` refuses is not tried (an `index_url` with
  no package, two sources of one name);
- `WorldsAssumption`: an archive's index lists finitely many packages, each with a
  version, a checksum, and the architecture its name has, the machine's or "all";
- `NeedsAssumption`, `SeedsAssumption`: installing a package brings it, and
  `python3 -m venv` installs nothing but the seeds frostroot knows
  (`pythonSeedPackages`);
- `KindsAssumption`: a Fedora recipe is a WSL image's without Python, certificates and
  keys, which is what `fedoraUnsupported` in `validate.go` and the first lines of
  `Build` let pass;
- `OmittedAssumption`: the announcements a newer mmdebstrap may leave out are phases of
  its own and not the last of them, nor the end. The parser marks a phase never
  announced when a later one starts (`progress.go:279`), and these have none later: a
  build whose mmdebstrap no longer announced its tarball would show that phase open to
  the end;
- `OriginalsAssumption`: edit opens a recipe that validates (`edit.go`), and the
  tables of one are records with lists, as the TOML decoder makes them;
- `OffersAssumption`, `PpasAssumption`, `TriesAssumption`: what the catalogs, the lists
  of locales and time zones and the defaults offer their own patterns accept, a
  choice of family or target offers those there are, a PPA's row is that PPA, and a
  typed list is a list;
- `FormatsAssumption`, `CertificatesAssumption`: qcow2 is the one further format of a
  disk (`CheckDiskFormat`), and a file holds a number of certificates;
- `ListsAssumption`, `PinnedPipAssumption`: the lists built into the program are not
  empty, and the pip it pins has a checksum.

The type invariants of `Fetch`, `Place`, `Vendor`, `Screen` and `OpenIndex` are parts
of their inductive invariants, and that of `Bootstrap` follows from its; the runs
`fetch` and `place_solo` leave theirs to the proofs, as `directory` leaves that of
`Place`.

**Only model-checked.**

- Liveness (`CancelEnds`, `EndsUnlessABodyStalls`, `EndsIfAnswered`, `Ends`), which
  is out of the prover's reach.
- `PickerTypeOK`, the picker's part of `MCForm`'s `TypeOK`: the answer is what a fold
  over a pasted list makes, and the rows what `SelectSeq` leaves of the names, and
  what either computes for every list is an induction over data. What the proofs of
  the picker need of its types is in `PickerInv`.
- `TypeOK` of `MCForm` and `MCBuild` as they stand: they collect the type invariants
  of the components one run holds, each of which, the picker's aside, is proved of
  its component's own specification.

## Not modelled

- `checkOutputWritable` and its probe files; the removal of the work
  directory; the contents of files beyond what the checks tell apart; byte counts
  of downloads.
- A power cut: a killed process loses its memory, not what it had written.
- Configuration text for mkosi and apt, parsing of the formats frostroot reads
  (deb822, OpenPGP, TOML, mkosi's manifest), wording, layout; of the tables of
  locales and time zones which values are on them is modelled, and no more.
- `pool.Stage`'s links and the text of the flat repository's index: an offline
  build reads the pool in one step.
- Reading a system for capture: one sequential pass of parsers, with no state of
  its own.
- In `Locks` and `Rebuild`: the architecture is part of the release; Fedora disk
  recipes, which `Build` refuses first; keys and certificates are read once per
  offline build, while `planOffline` compares one reading and `newUbuntuBuild`
  stages a second.
- In `Bootstrap`: an interrupt's verdict for mkosi and the disk's tools is the
  command line's (`cli/build.go`); "done" is mmdebstrap's last announcement; files
  that are a machine's own are followed in disk images.
- The components marked "not_modelled" in `PROJECT.json`, each with its reason.

## Plan

What is left, in order:

1. `Stage` as an action of `Rebuild`, with a pool that changes between its check
   and its links, and the second reading of keys and certificates.
2. Refinements: `Place`'s `Bootstrap` step by `Bootstrap`, `Indexes`' coarse
   opening by `OpenIndex`.
