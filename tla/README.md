# Verification of media-works-mcp-server

TLA+ models of the server in `src/`, checked by TLC on small instances and
proved with TLAPS for every instance, liveness excepted. The
repository has no tests; the models are read from its code, and what the code's
comments and `README.md` say is stated beside it as properties.

## 1. The system

A Go process offers media tools over MCP (stdio or HTTP). A tool call takes a
worker slot, runs a generated shell script in a Docker container, and returns
the container's output. Clients upload inputs over HTTP, and fetch or delete
outputs with other tools.

| Component | State it keeps | Operations | Module |
| --- | --- | --- | --- |
| Worker pool, `workerpool/pool.go` | a buffered channel; two counters under a mutex | `Acquire`, `TryAcquire`, `Release`, `IsFull`, `Stats` | `WorkerPool` (abstract: `Semaphore`) |
| Malware scanner, `scanner/clamav.go` | `available`, set once | `checkAvailability`, `Scan` | `Scanner` |
| Upload store, `storage/filestore.go` | a map under a mutex; files on a persistent volume | `Upload`, `Get`, `Delete`, cleaner | `FileStore` (abstract: `TTLStore`) |
| HTTP handlers, `httpserver/server.go` | none | upload, download, delete, list, health | `FileStore` (the first three; the others change no state) |
| Image preparation, `executor/docker.go:96-201` | `imageChecked`, `imageReady`, `imageErr` under a mutex | `EnsureImageAsync`, `IsImageReady` | `DockerImage` |
| Executor, `executor/docker.go:211-384`, and tool handlers, `tools/tools.go` | directories and containers, on the stack of a call | five processing tools | `Executor` (abstract: `ToolCalls`) |
| Output manager, `executor/output.go` | directories with a metadata file; a mutex nobody takes | create, list, get, delete, cleaner | `OutputManager` (abstract: `TTLStore`) |
| Command generation, `executor/commands.go` | none; a script's progress in its container | one script per processing tool | `Commands`, run by `MediaServer` |
| Configuration, `config/config.go` | settings, read once | load, validate | `Config`, used by `MediaServer` |
| Arguments and answers, `tools/tools.go` | none | defaults, refusals, resolution, container paths, `formatResult` | `MediaServer` |
| Start-up, `main.go` and `entrypoint.sh` | the parts built so far | entrypoint, configure, build, listen | `MediaServer` |
| Image build context, `writeTarFile` | none | a tar stream | not modelled, see section 5 |
| Transport loops, tool schemas, packaging | none of their own | | not modelled: libraries, data, wording |

How they interact: a handler calls the store (to resolve `upload://`), then the
pool, then the executor, which reads what image preparation published and calls
the output manager. The store calls the scanner. Two cleaners run on tickers.
Everything else is concurrency between calls: two calls never talk to each
other, they meet in the pool, in the map, in the file system and at the daemon.
`main` hands every part its settings once; after that they do not change.

What is hard: the gap between a channel operation and its counter; a file that
exists before its entry and after it; a clock read before a lock; calls whose
context ends while the daemon works; deferred removals that may fail; a cleaner
and a delete in one directory with a container that writes into it; and a
process that dies between any two of these steps while the volume and the
containers stay. And, without concurrency: settings that cannot be read and are
passed over in silence, container paths made up twice by two rules, integer
arithmetic in a script, an exit code of zero for a script that was stopped.
`PROJECT.json` lists each of these hazards at its line.

## 2. The modules

### `Semaphore`, `WorkerPool`

`sem` is the length of the channel. The two steps of `Acquire` and of `Release`
are separate actions: `TakeSlot`, then `CountAcquired`; `Release`, then
`CountReleased`. A caller that finds the channel full is parked; a receive from
a full channel hands the place to the first parked sender in the same step, as
the Go runtime does (external: `FirstParked`, `Unparked`). `AcquireGiveUp` is
the timeout or the cancellation. The default branch of `Release` has no action:
`ReleaseFindsToken` says that it cannot be reached by callers that release only
what they acquired, which is what `tools.go` does.

`Semaphore` is what callers may rely on: a set of at most `MaxWorkers` holders.
`WorkerPool` implements it with `holders <- Holders`, the callers between the
send and the receive. `Executor` uses `Semaphore` in the pool's place.

Who is served when is not for `Semaphore` to say, as its callers do not wait in
it. `FirstComeFirstServed` says it of `WorkerPool`: while a caller is parked,
slots go to those parked before it only, and nobody gets in front of it.

### `Scanner`, `FileStore`

`Scanner` has operators only: `Scan` maps the ways in which `clamdscan` and
`clamscan` may end to a result. `FileStore` splits `Upload` where other
goroutines can run: file created, scanned, stamped, registered. `Delete` is
`DeleteUnlink` (under the mutex) and `DeleteRemove` (after it); a download is
`DownloadGet` and `DownloadOpen`; the cleaner is `CleanupTick` (the clock) and
`CleanupSweep` (the critical section). `Restart` empties the map and every call
in progress and keeps the disk. With `Faults`, a removal may fail.

### `TTLStore`

What both stores promise: a key is put once, with an expiry at most a TTL from
then, is held until it has expired or a delete names it, and never comes back.
`Volatile` is whether a restart forgets what is held. `FileStore` implements it
with `Volatile <- TRUE`: a key is held while it is in the index, and fresh until
the upload that owns it registers or gives up. `OutputManager` implements it
with `Volatile <- FALSE`: an execution is held while its metadata can be read,
and what ends it is the step of `os.RemoveAll` that takes the metadata, not the
last one. With `Faulty`, a delete may leave what it was to end; `FileStore`, where
the entry goes first, does not need it. Its last section states what clients can conclude from it alone:
`ExpiryBounded`, and `KeptAsPromised`, that a key's life goes forward only and
its expiry is touched by nothing.

### `ToolCalls`

What a tool call is promised, with none of the steps in between: a set of at
most `MaxWorkers` calls that are worked on; for each call a container that is
made once at most and then lives, has ended, is over, or is astray; its exit
status; whether the time is up; the verdict, which falls when the container is
dealt with; and whether the call was answered. The verdict on a container is
what it ended with, a timeout if the time is up, or an error. `CapacityKept`,
`AnswersTrue` and `OneLifeEach` are what follows for a client. `Executor`
implements it (`ToolCallsSpec`): the container of a call is over once nobody
will make one or once it is removed, and the verdict is there from the end of
the deferred removal. A crash takes the calls with it: those that were worked
on and those that waited get no answer.

### `DockerImage`

Each goroutine of `EnsureImageAsync` walks through the check under the mutex,
the inspection, the pull or build, and the publication under the mutex. A
refused request fails; a request whose answer is streamed succeeds whether or
not an image comes of it, as the stream is discarded.

### `Executor`

One `pc` per tool call, one label per place where something else can happen.
The deferred calls are labels too (`removing`, `cleaning`, `releasing`), and an
early return goes to the first of them that was pushed. `ctxDone` is the end of
the request's or the timeout's context. Containers belong to the daemon: they
end when they like (`ContainerExits`). Inputs and output directories may vanish
at any time (`InputRemoved`, `OutputRemoved`), which is what the store's and the
output manager's deletes and cleaners do, neither of which knows of running
calls. `Managed` is whether `OUTPUT_DIR` is set. `abandoned` is a ghost: the
containers that no live call will remove, because an answer was lost, a removal
failed or the process died. `NothingLeftBehind` says in which of these cases
only a container may stay behind a call that returned, and that its caller was
then told an error.

### `OutputManager`

The file system is the state. A directory is `none`, `made` (without readable
metadata) or `ready`. `os.RemoveAll` is two steps, the entries and the
directory, and the second fails if something was written in between, which is
how Go's `removeall` behaves. Deletes and the cleaner interleave with each other
and with running containers, as the code takes no lock. `list_outputs` reads the
base directory and then one entry at a time (`List`, `ListEntry`), `get_output`
looks at the file and then reads it (`Get`, `GetContents`). What a reader asked
for that was there (`owed`), and what had been answered "deleted" by then
(`barred`), are ghosts.

With `Faults`, every write and removal may fail, and the code goes on as it
does: the error of writing the metadata is ignored and the container runs
without (`WriteMetadata`, `output.go:88`); a removal may leave some of the
entries or the directory (`RemoveEntries`, `RemoveDir`, `output.go:260`, `321`);
a container whose own removal fails writes on after its call has returned
(`EndRun`, `docker.go:308`); the metadata of an expired directory may not be
readable for the moment (`CleanupEntry`). The ghost `disturbed` holds the
executions that such a step, or a restart in the middle of one, has hit, and
`gone` those that a delete was answered "deleted" of.

### `Config`, `Commands`, `MediaServer`

`Config` has operators only: the four ways in which a variable is read over its
default, `LoadFromEnv` and `Validate`. A text is a word in lower case and a mark
of whether it was written so; a number is a sequence that is empty when nothing
could be read. The variables in `LoadFromEnv` are those on which something in
`MediaServer` depends; the others are read in the same ways and are constants
of the modules that use them.

`Commands` has operators only, too: what each script does, as the sequence of
the pieces it makes. A frame is its number and the frame of the video it shows;
an image of a video its position and its path; a slide the number it is exported
under and the page it shows. `Taken` is the filter of count mode: the frames it
picks are set a second apart (`setpts=N/TB`), and as nothing says `-vsync vfr`
(`commands.go:87`; `:91` does), ffmpeg fills each second with copies, `rate` of
them and `last` of the last frame, before `-frames:v` counts. How many copies
there are is part of the request. `SlidesPlan` goes over the names as the loop in the
script does. What ffprobe, ffmpeg, LibreOffice and pdftoppm find in an input is
part of the request, so that the operators are about any input.

`MediaServer` is one process from its environment to the answer of a call:
`Entrypoint`, `Configure`, `Build`, `Listen`; `Ask`, `Refuse`, `Resolve`, `Run`;
then the container, which starts (`Begin`) only if all the paths its script
reads are mounted, makes piece after piece, and ends by itself, by a command
that fails, or by the timeout at any point; `Report` is `formatResult`. The
parts that other modules model are reduced here to their outcomes: `Run` is the
pool and `ExecuteScript` up to the start of the container, which may fail for
any reason, and `Resolves` is the store. One call is enough, as calls share
nothing but the parts of the server; what they compete for is in `Executor`.

### MC modules

`MCMediaServer` lists environments and requests. The other MC modules add the
symmetry sets. Symmetry is used only in runs without liveness properties.
`DockerImage` is checked inside `Executor`, which extends it.

## 3. What is checked

| Run | Instance | Shows |
| --- | --- | --- |
| `pool_queue` | 5 callers that come and go for ever, 2 slots | tokens are holders; counters lag exactly by the callers in between, so `IsFull` errs only while a release is half done; no slot idles while one waits; `Release` finds a token, and a first in the queue if there is one; slots are given in the order of arrival; a parked caller is served without its timeout; the pool implements `Semaphore` |
| `store_safety` | 2 IDs, 2 requests, failing removals, fail-closed, 1 restart | entries have files; only vetted files are served; answers stay true; the store implements `TTLStore` |
| `store_live` | 2 IDs, 2 requests, fail-open, no restart | no orphaned files; sweeps spare live uploads; expired uploads leave the disk |
| `exec_safety` | 2 calls, 1 worker, output manager, faults, 1 restart | containers are covered by slots and directories; results state the real exit code; slots come back, and only a container that nobody could remove is left behind; every step is one of `ToolCalls` or a stutter |
| `exec_live` | 2 calls, 1 worker, 2 image goroutines, no faults | nothing at all is left behind; every call returns; the image gets one outcome, at some time |
| `output_files` | 2 executions, 1 delete, 1 reader, cleaner, faults | the cleaner takes only what expired; "deleted" is true; lists and gets are true |
| `output_live` | 2 executions, 1 delete, cleaner, faults, 1 restart | a running execution keeps its directory; one that can no longer be read has a reason; the manager implements `TTLStore`; expired outputs that nothing has hit are removed |
| `server` | 72 environments, 2382 requests to the five tools | the server obeys its variables; scripts read what is mounted; an answer without warning or error is one of a script that delivered; count mode numbers its images without a gap, goes forward, and keeps to the number asked for and to its estimate |

Four more runs end in a violation and are the findings: what a comment or the
repository's `README.md` says and the code does not do.

| Run | Statement | What happens |
| --- | --- | --- |
| `store_exit_status` | "Exit code 0 = clean" (`clamav.go:165`) | any status other than 1 and 2 is clean, death by a signal included |
| `store_expire` | "Automatic expiration of uploads" (`README.md:176`) | a restart forgets the files, which stay on the volume |
| `image_ready` | "whether the Docker image is ready" (`docker.go:203`) | a pull that fails in its progress stream makes it ready |
| `slides_asked` | "slide numbers to export (default: all)" (`tools.go:173`) | both patterns of the loop match every page, so N pages are numbered 1 to 2N: all of them are exported twice, and a number beyond N is an earlier page; a number after a blank is never found |

`slides_asked` also bounds the damage: `SuccessDelivers`, which `server` checks
and section 4 proves, says that every page whose number the script can see is
there under that number.

Smaller disagreements were met that have no run of their own.

* A container whose create answer is lost, to the end of the context or to a
  fault of the daemon, stays behind (`docker.go:300`), though containers are "ephemeral" (`README.md:171`).
  `NothingLeftBehind` has this case among its exceptions.
* Without `OUTPUT_DIR`, the default, the outputs of a successful call go with
  its temporary directory before it returns (`docker.go:240`), though there is
  an "output" to every tool (`tools.go:47`).
* An output directory without readable metadata never expires (`output.go:320`;
  `README.md:176`). What leaves one behind: a metadata write that failed, whose
  error is ignored (`output.go:88`); a delete or a removal by the cleaner that
  failed half-way, or that a container wrote behind; a container that outlived
  its own failed removal (`docker.go:308`); a crash in the middle of any of
  these; and a container that still runs when its output expires, where
  `OUTPUT_TTL` is shorter than an execution. `NoUnreadableDirs` has this list.
* "N evenly-spaced frames" (`tools.go:81`; `commands.go:83`). The picked frames
  are a second apart and, without `-vsync vfr`, each is copied to the output's
  frame rate before `-frames:v` counts: N images may show one frame of the video
  N times. And without `bc`, which `MediaWorks.Dockerfile` does not install, the
  estimate of the number of frames is always 300 (`commands.go:84`), so that the
  images come from the first 300 frames of a longer video. `FramesAsAsked` says
  what is left: the numbers have no gap and do not exceed the count, the video
  never goes backwards, and no image is from beyond the estimate. That the
  images are different or evenly spaced it does not say, and with a rate of one
  and a count of at least the number of frames count mode does extract every
  frame ("never", `README.md:97`).
* `MediaWorks.Dockerfile` does not install `poppler-utils` either: with the
  repository's own image the slides' script always falls back to ffmpeg
  (`commands.go:196-200`).
* An audio clip with nothing in it leaves an empty file, which passes the
  script's `-f` check (`commands.go:40`) and is reported as success. `AudioPlan`
  has that file.
* "Start ClamAV if scanning is enabled" (`entrypoint.sh:12`): only for the
  spelling `true`, while `config.go` also accepts `TRUE` and `1`.
  `ObeysEnvironment` has the direction that holds.
* "Use the download endpoint" (`tools.go:498`): there is none for outputs.
* `IsFull` says "all worker slots are currently in use" (`pool.go:106`) but can
  be true of a pool with a free slot; `FullOrReleasing` says exactly when.
* `failOpen` says "allow uploads when scanner fails" (`clamav.go:29`) but
  forgives only a scanner that was absent at start-up; see `Scan`.

### Bounds

Each bound is a constant. Two requests and two IDs are enough for every race
between two handlers and the cleaner; two calls on one worker for a call that
waits while another unwinds; five callers on two slots for a queue of three
behind two holders, and for overtaking. Callers never stop arriving:
`ProcessedBound` only caps the counter of processed calls, which nothing reads
but `Stats`. `MaxTime` is two or three ticks with a lifetime of one: before, at
and after the expiry, and one to sweep. `MaxCrashes` is one: a restart leaves
the same kind of state however often it happens. One reader and one delete are
enough for a list that a delete and the cleaner overtake. The reader is in
`output_files`, which has no restart, as a restart ends its call; the restart is
in `output_live`, which has no reader. The proofs have both together. `server` has every
spelling of every policy, each other variable out of line, every tool with and
without its optional arguments, up to 8 frames with up to 5 asked for, every
estimate up to 8 beside the fallback of 300, and no copies, two or thirty, up to 3 images with a subtitle, and
up to 3 pages with selections inside, outside and with a blank. Deadlock is checked for
the pool. The other instances really stop: no request need arrive, the clock
stops, a call has returned, a start-up was refused. Their liveness properties say that nothing is stuck before.

### Fairness

`WorkerPool`: a caller past a channel operation reaches the counter, and a
working handler returns, as every execution has a timeout. The acquire timeout
is not assumed; that parked senders are served in order is the runtime's, and
`WaiterServed` fails without it. `FileStore` and `OutputManager`: time passes, tickers fire, the
cleaner runs, and a delete that dropped an entry goes on to the file; no client
need do anything. An execution ends because its timeout removes its container,
or fails to and returns all the same. That a removal succeeds is not assumed:
`ExpiredOutputRemoved` exempts what a failure has hit, as a removal that failed
half-way has taken the metadata with it.
`DockerImage`: the ten minutes of its context end every call to the daemon.
`Executor`: a call that was made goes on, as every call to the daemon is bounded
by a context, except `ContainerLogs`, which is taken to answer; the timeout of a
running call passes. Containers need not end. All of it is weak fairness.
`MediaServer` has safety properties only: a call may stop anywhere.

## 4. What is proved

The seven `...Proofs` modules hold for every finite set of callers, for any IDs,
requests, executions, calls and environments, every capacity and lifetime, with
and without faults, and any number of restarts. They rest on the named
assumptions about the constants, which TLC evaluates in every run. Every
invariant, every action property and every refinement that a passing run checks
is proved.

* **Pool.** The inductive invariant adds to the types that the length of the
  channel is the number of holders, that `activeCount` is the number of counted
  callers, and that a parked caller implies a full channel. Types alone are not
  inductive: that a receive does not go below zero needs the count of holders.
  From it: `SlotBound`, `NoIdleSlot`, `CountersLag`, `FullExplained`, and
  `ImplementsSemaphore`, the refinement, where every step is a `Take`, a `Give`,
  a `Pass` or a stutter.
  The queue has an invariant of its own, `QueueInv`: of two parked callers
  exactly one is ahead of the other, being ahead is transitive, and only parked
  callers are ahead of anyone (`QueueIsOrdered`). A finite set of parked callers
  then has a first: `QueueHasFirst` takes one whose set of callers ahead is
  minimal, as strict inclusion is well-founded on finite sets.
  Hence `ReleaseNeverIgnored`, that a receive from a full channel never lacks
  somebody to hand the slot to, `OrderOfService`, and `BoundedWait`: the number
  of callers ahead of a parked one never grows, and falls with each slot given.
* **Store.** The argument is ownership: a file that is not yet registered
  belongs to one upload, and no delete, sweep or answer concerns it. `OwnerInv`
  says so; without it `UploadRegister` could put a removed file in the index.
  From it: `IndexHasFiles`, `OnlyVettedServed` (with `ScanVets`, a lemma about
  the operator `Scan`), `TrueAnswers`, the action property `LiveSpared`,
  which also needs that the cleaner's time is not ahead of the clock,
  `NoFileLost`, and `ImplementsTTLStore`: a registration is a `Put`, an upload
  that ends otherwise a `Refuse`, a sweep an `Expire`.
* **Executor.** The argument is the order of the defers: each phase of a call
  says which of slot, directory and container it has (`PhaseInv`), what it knows
  of the container's end (`ExitInv`), and that a result is made after the wait
  (`ResultInv`). From it: `SlotsExact`, `ContainersCovered`,
  `ContainersBounded` (the calls with containers are among the slot holders),
  `ResultsTrue`. `NoLeftovers` adds what may outlive a call (`LeftInv`);
  `CallsComeToAnEnd` that each step lowers the number of steps left, and that a
  container, a directory and a slot go by their deferred call only, in the order
  of the defers, which also needs that there is no directory early (`EarlyInv`);
  `OnePublished` and `VerdictsStand` are about the goroutines of the image
  alone, with an invariant of which of them is past the check.
  `ImplementsToolCalls` is the refinement. It has a lemma for each action:
  the early steps are stutters, or a `Withdraw` when they fail, `Create` is a
  `Launch`, or a `Withdraw` that may leave a stray; `Remove` is a `Retire`
  whose verdict the phases before have fixed; the calls that never had a slot
  go by `TurnAway`. It needs of the invariant that a call
  has no result before it unwinds, and that a container that has not ended has
  no status; `Crash` is one abstract step for all calls together.
* **Output manager.** Nothing is locked, so the argument is what can no longer
  change: the expiry of an execution once it runs (`ClockInv`), a directory once
  it is gone, the executions that deletes have named (`TargetInv`), and that the
  clock only grows (`CleanerInv`). With faults it also has to be said what holds
  of the executions that none has hit (`UndisturbedInv`): no container of theirs
  runs on without its call, and the cleaner's removal has taken their metadata. What a reader owes is there or was shown as
  long as it is owed (`ReaderInv`). From it: `CleanerCorrect`, `RunningSafe`,
  `DeletesTrue`, `ReadsTrue`, `UnreadableExplained` and
  `ImplementsTTLStore`, where a `RemoveEntries` is an `Expire` or a `Delete` and
  a `RemoveDir` is a `Deleted` or a stutter.
* **Server.** Each stage of the start-up and of the call says what it has
  established (`BootInv`, `CallInv`): in particular that an exit code of zero
  without a timeout is that of a script that came to the end of its plan. The
  rest is about operators: `Obeys` about `LoadFromEnv` and `Validate`,
  `ReadsAgree` about two ways to number and name the same files, `Delivers`
  about the positions in the slide loop and the concat list, and
  `FramesSampled` about integer division. `TakenIs` says of any plan of count mode
  that there is a sequence of picks that never goes back and advances by at most
  one per image; that it ends at the count or past the last frame; so that, the
  interval being one or small enough to fit into the estimate as often as asked,
  no pick lies beyond the estimate. It holds for every length, estimate and
  count, and however many copies there are. `Delivers` rests on `SelectionExact`: a selection of pages that exist,
  written without blanks, exports exactly those pages.
* **Promises.** `TTLStoreProofs` and `ToolCallsProofs` are about the abstract
  specifications, whose invariants are a few lines. What is proved there holds
  of whatever implements them, and is carried over by taking the proof module
  itself as an instance, with the refinement mapping: `UploadsNeverReturn` and
  `UploadsExpireInTime` of the upload store, `OutputsKept` and
  `OutputsExpireInTime` of the output manager, and `CallsLive` of the executor:
  no call gets a second container, and its exit status and its answer are final.
  None of them needs a step of `FileStore`, `OutputManager` or `Executor` again.

Only model-checked: the five liveness properties, as liveness under fairness is
outside the prover's reach. `WaiterServed` has its measure proved, in
`BoundedWait`, and that a slot never idles; what is left to TLC is that holders
return. `CallsReturn` has its measure in `CallsComeToAnEnd`; what is left is that
a call never waits for ever. `ExpiredFileRemoved`, `ExpiredOutputRemoved` and
`ImageSettles` have the safety half proved: what a cleaner takes had expired and
never returns, what was published stands. The statements of the four
findings are false, and are not proved either.

## 5. What is abstracted, and what is not modelled

Names, paths, sizes, script text, log wording and the output's bytes. IDs are
fresh when they are made; the 32-bit execution IDs can collide in reality and do
not here. In `Executor` a call has one input; with several, each behaves the
same. In `Commands`, pdftoppm writes all pages or none; a parameter is a whole
number, with which interval mode also takes fractions (`commands.go:81`); and
the frame rate, the durations, the resolution and the times of a clip are
ffmpeg's business. So is that `-ss` before `-i` makes the output's `-to`, the
`end_time` of a clip, relative to its `start_time` (`commands.go:27-35`), which
the tool's description does not say (`tools.go:64`). `Stats` and the upload store's `List` read one
state under a lock and change none.

Not modelled:

* the image build context: a fixed sequence of tar records without state or
  choice, whose outcome, an image or none, is in `DockerImage`. Each file is
  followed by an end of archive (`docker.go:458`), so that a reader that stops
  there finds one file; the reader is the daemon's.
* `sanitizeFilename`: wording of a path, but for an extension of more than 200
  bytes, with which the slice at `filestore.go:288` is out of range.
* `/scripts/ppt_extract_media.py`, which `extract_audio_from_presentation`
  runs, is not in the repository: the request says what it finds.
* the loops of the MCP library, the JSON schemas of the tools, the Dockerfiles;
* `delete_output` with an `execution_id` of `.`: it passes the check for `..` and
  names the base directory (`output.go:251-260`), so that all outputs go. IDs
  are those of executions in the models.
* errors of reading a directory or a file in `list_outputs` and `get_output`,
  other than that it is gone: they answer an error or leave an entry out.
* code without callers: `ValidateFilePaths`, `GetFileReader`, and `TryAcquire`,
  `IsFull` and `Stats` of the pool, of which `WorkerPool` has the first two.

## 6. Plan

Done, in this order: the pool, which bounds everything; the store and the
scanner, which have the most interleavings; the executor with image preparation;
the output manager with its readers; the abstract store that both stores
implement; the server from its environment to its answers; the proofs of each;
the abstract tool calls, the order of the queue, and what clients have from the
abstract specifications.

Proofs that could follow:

1. The measure behind the liveness of the two cleaners, as `BoundedWait` is
   behind `WaiterServed` and `CallsComeToAnEnd` behind `CallsReturn`: what a
   round has still to visit.
2. That `Executor` uses the pool as `Semaphore` lets it: its steps on `slots`
   are `Take`, `Give` or a restart.

Models that could follow:

1. `Executor` with an `OutputManager` in the place of `OutputRemoved`, and a
   `FileStore` in the place of `InputRemoved`: they are the environment's
   choices now, which allows more than the two modules do.
2. Calls with several inputs in `Executor`, of which one goes while the call
   waits for its slot.
