----------------------------- MODULE MediaServer -----------------------------
(***************************************************************************)
(* One server from its environment to the answers of its calls: main.go    *)
(* builds the parts from the configuration and opens the transport; then   *)
(* a call comes to one of the five processing tools of tools/tools.go (it  *)
(* is Executor that has calls compete).  The handler reads its arguments,  *)
(* resolves its files, writes a script with the paths the container will   *)
(* see, mounts the files there, and reports what the script did.           *)
(***************************************************************************)
EXTENDS Config, Commands

CONSTANTS Environments,     \* what the variables may hold
          Requests          \* the calls that may come

Tools   == {"audio", "frames", "video", "slides", "pptaudio"}
Modes   == {"interval", "count", "keyframes"}
Formats == {"png", "jpg", "jpeg"}

Files == [name   : STRING,
          slash  : BOOLEAN,    \* whether the path ends in a slash
          upload : BOOLEAN,    \* whether it is an upload:// URI
          there  : BOOLEAN]    \* whether it names a file that exists

\* What a handler works on: its arguments, and what the programs of the
\* container find in the input.
RequestType ==
  [tool : Tools, files : Seq(Files), subtitle : Seq(Files),
   mode : STRING, param : Int, quality : Int, format : Formats,
   all : BOOLEAN, asked : SUBSET Nat, plain : SUBSET Nat,
   frames : Nat, estimate : Nat, rate : Nat \ {0}, last : Nat \ {0},
   picked : Seq(Nat), pages : Nat,
   renderer : {"pdftoppm", "ffmpeg"}, clip : BOOLEAN]

\* An argument that is left out, or that is not of its type, is empty: "" or
\* <<>>; a param that is no number the shell can compute with is <<0>>; files
\* that are no array of strings are <<>>.
StringArgDefault(v, default) == IF v = "" THEN default ELSE v
NumberArgDefault(v, default) == IF v = <<>> THEN default ELSE v[1]

Arguments(r) ==
  [r EXCEPT !.mode    = StringArgDefault(@, "interval"),
            !.format  = StringArgDefault(@, IF r.tool = "slides" THEN "png" ELSE "jpg"),
            !.param   = NumberArgDefault(@, 5),
            !.quality = NumberArgDefault(@, 85)]

EnvironmentType ==
  [MAX_WORKERS : Seq(Int), EXECUTION_TIMEOUT : Seq(Int),
   NETWORK_DISABLED : Texts(STRING), TRANSPORT : Texts(STRING),
   SCAN_UPLOADS : Texts(STRING), SCAN_ON_FAIL : Texts(STRING),
   OUTPUT_DIR : Texts(STRING)]

ASSUME MediaServerAssumption ==
  /\ \A env \in Environments : env \in EnvironmentType
  /\ \A r \in Requests : /\ Arguments(r) \in RequestType
                         /\ r.plain \subseteq r.asked
                         /\ Len(Arguments(r).subtitle) <= 1

VARIABLES env, boot,   \* the environment; how far the start-up has come
          cfg,         \* the configuration
          clamd,       \* whether entrypoint.sh started the scanner's daemon
          server,      \* the parts main has built
          req, call,   \* the call at work; where it is
          reads,       \* container paths its script reads
          mounts,      \* container paths its inputs are mounted at
          plan, done,  \* pieces its script makes; how many it has come past
          exit,        \* exit status of the container
          timedOut,    \* whether its time was up
          answer       \* what the client is told

bootVars == <<env, boot, cfg, clamd, server>>
scriptVars == <<reads, mounts, plan, done, exit, timedOut>>
vars == <<bootVars, req, call, scriptVars, answer>>

NoServer == [workers |-> 0, scan |-> FALSE, failOpen |-> FALSE,
             network |-> FALSE, managed |-> FALSE, endpoints |-> FALSE]
NoAnswer == [kind |-> "none", marks |-> {}]

CONSTANT NoRequest

Init ==
  /\ env \in Environments
  /\ boot = "entrypoint"
  /\ cfg = DefaultConfig
  /\ clamd = FALSE
  /\ server = NoServer
  /\ req = NoRequest
  /\ call = "idle"
  /\ reads = {} /\ mounts = {}
  /\ plan = <<>> /\ done = 0
  /\ exit = 0 /\ timedOut = FALSE
  /\ answer = NoAnswer

-----------------------------------------------------------------------------
(* Start-up *)

calls == <<req, call, scriptVars, answer>>

Entrypoint ==
  /\ boot = "entrypoint"
  /\ clamd' = EntrypointStartsClamd(env)
  /\ boot' = "loading"
  /\ UNCHANGED <<env, cfg, server, calls>>

Configure ==
  /\ boot = "loading"
  /\ cfg' = LoadFromEnv(cfg, env)
  /\ boot' = IF Validate(cfg') THEN "building" ELSE "refused"
  /\ UNCHANGED <<env, clamd, server, calls>>

\* Pool, scanner, stores and executor; a directory that cannot be made or a
\* daemon that cannot be reached ends the process.
Build ==
  /\ boot = "building"
  /\ \/ /\ boot' = "built"
        /\ server' = [workers   |-> cfg.MaxWorkers,
                      scan      |-> cfg.ScanUploads,
                      failOpen  |-> cfg.ScanOnFail = "allow",
                      network   |-> ~cfg.NetworkDisabled,
                      managed   |-> cfg.OutputDir # "",
                      endpoints |-> FALSE]
     \/ boot' = "refused" /\ UNCHANGED server
  /\ UNCHANGED <<env, cfg, clamd, calls>>

\* Only the http transport has the storage endpoints, and with them uploads.
Listen ==
  /\ boot = "built"
  /\ \/ /\ boot' = "serving"
        /\ server' = [server EXCEPT !.endpoints = (cfg.Transport = "http")]
     \/ boot' = "refused" /\ UNCHANGED server
  /\ UNCHANGED <<env, cfg, clamd, calls>>

-----------------------------------------------------------------------------
(* A handler up to the container *)

Return(kind, marks) ==
  /\ answer' = [kind |-> kind, marks |-> marks]
  /\ call' = "answered"

\* Calls share no more than the parts of the server, so one is enough here.
Ask ==
  /\ boot = "serving"
  /\ call = "idle"
  /\ \E r \in Requests : req' = Arguments(r)
  /\ call' = "asked"
  /\ UNCHANGED <<bootVars, scriptVars, answer>>

BadArguments(r) ==
  \/ r.files = <<>>
  \/ r.tool = "frames" /\ r.mode \notin Modes

Refuse ==
  /\ call = "asked"
  /\ BadArguments(req)
  /\ Return("error", {})
  /\ UNCHANGED <<bootVars, req, scriptVars>>

\* ResolveUploadURI: a URI must name an upload; a path is passed on unseen.
Resolves(f) == f.upload => f.there /\ server.endpoints

\* tools.go takes what follows the last slash of a path, docker.go takes
\* filepath.Base, which drops a slash at the end first.
GetFilename(f) == IF f.slash THEN "" ELSE f.name
Base(f)        == f.name

Mounted(r) == r.files \o r.subtitle

\* The paths the script is written with.  Mutant: the subtitle's index is
\* taken after the file is appended.
ImagePaths(r)  == [i \in 1 .. Len(r.files) |-> <<i - 1, GetFilename(r.files[i])>>]

SubtitlePathsLate(r) ==
  {<<Len(r.files) + 1, GetFilename(r.subtitle[i])>> : i \in 1 .. Len(r.subtitle)}

SubtitlePaths(r) ==
  {<<Len(r.files), GetFilename(r.subtitle[i])>> : i \in 1 .. Len(r.subtitle)}

ScriptReads(r) ==
  {ImagePaths(r)[i] : i \in 1 .. Len(r.files)} \cup SubtitlePaths(r)

Targets(r) == {<<i - 1, Base(Mounted(r)[i])>> : i \in 1 .. Len(Mounted(r))}

PlanOf(r) ==
  CASE r.tool = "audio"    -> AudioPlan(r)
    [] r.tool = "frames"   -> FramesPlan(r)
    [] r.tool = "video"    -> VideoPlan(ImagePaths(r))
    [] r.tool = "slides"   -> SlidesPlan(r)
    [] r.tool = "pptaudio" -> [k \in 1 .. Len(r.picked) |-> Kept(<<k, r.picked[k]>>)]

Resolve ==
  /\ call = "asked"
  /\ ~BadArguments(req)
  /\ IF \A i \in 1 .. Len(Mounted(req)) : Resolves(Mounted(req)[i])
     THEN /\ reads' = ScriptReads(req)
          /\ call' = "resolved"
          /\ UNCHANGED answer
     ELSE Return("error", {}) /\ UNCHANGED reads
  /\ UNCHANGED <<bootVars, req, mounts, plan, done, exit, timedOut>>

\* Acquire and ExecuteScript until the container runs.  The daemon refuses to
\* mount what is not there; a timeout that is not positive is over at once.
Run ==
  /\ call = "resolved"
  /\ \/ /\ \A i \in 1 .. Len(Mounted(req)) : Mounted(req)[i].there
        /\ cfg.ExecutionTimeout > 0
        /\ mounts' = Targets(req)
        /\ call' = "running"
        /\ UNCHANGED answer
     \/ Return("error", {}) /\ UNCHANGED mounts
  /\ UNCHANGED <<bootVars, req, reads, plan, done, exit, timedOut>>

-----------------------------------------------------------------------------
(* The container *)

\* The script's first program has found its input: the plan is settled.
Begin ==
  /\ call = "running"
  /\ reads \subseteq mounts
  /\ ~ParamRefused(req)
  /\ plan' = PlanOf(req)
  /\ call' = "working"
  /\ UNCHANGED <<bootVars, req, reads, mounts, done, exit, timedOut, answer>>

MakePiece ==
  /\ call = "working"
  /\ done < Len(plan)
  /\ done' = done + 1
  /\ UNCHANGED <<bootVars, req, call, reads, mounts, plan, exit, timedOut, answer>>

\* The files in /output, in pieces.
Made == {plan[i].piece : i \in {j \in 1 .. done : plan[j].keep}}

\* "if [ -f ... ]" at the end of the scripts that make one file; the others
\* count what they find.
CheckPasses == req.tool \in {"audio", "video"} => Made # {}

ScriptEnds ==
  /\ call = "working"
  /\ done = Len(plan)
  /\ exit' = IF CheckPasses THEN 0 ELSE 1
  /\ call' = "exited"
  /\ UNCHANGED <<bootVars, req, reads, mounts, plan, done, timedOut, answer>>

\* set -e: the first command that fails ends the script.
CommandFails ==
  /\ call \in {"running", "working"}
  /\ exit' = 1
  /\ call' = "exited"
  /\ UNCHANGED <<bootVars, req, reads, mounts, plan, done, timedOut, answer>>

\* The context ends first: the container is stopped, exitCode stays zero.
TimeUp ==
  /\ call \in {"running", "working"}
  /\ timedOut' = TRUE
  /\ call' = "exited"
  /\ UNCHANGED <<bootVars, req, reads, mounts, plan, done, exit, answer>>

-----------------------------------------------------------------------------

\* What formatResult puts around the output of the script.  Mutant: the
\* timeout is left out, as the exit code tells how the script ended.
FormatResultNoWarning(expired, code, managed) ==
  (IF code # 0 THEN {"error"} ELSE {}) \cup (IF managed THEN {"metadata"} ELSE {})

FormatResult(expired, code, managed) ==
  (IF expired THEN {"warning"} ELSE {}) \cup
  (IF code # 0 THEN {"error"} ELSE {}) \cup (IF managed THEN {"metadata"} ELSE {})

Report ==
  /\ call = "exited"
  /\ Return("result", FormatResult(timedOut, exit, server.managed))
  /\ UNCHANGED <<bootVars, req, scriptVars>>

Next ==
  \/ Entrypoint \/ Configure \/ Build \/ Listen
  \/ Ask \/ Refuse \/ Resolve \/ Run \/ Begin \/ MakePiece \/ ScriptEnds
  \/ CommandFails \/ TimeUp \/ Report

Spec == Init /\ [][Next]_vars

-----------------------------------------------------------------------------
(* What is checked *)

\* Every variable has its type; a plan is that of the request at work.
TypeOK ==
  /\ env \in EnvironmentType
  /\ boot \in {"entrypoint", "loading", "building", "built", "serving", "refused"}
  /\ cfg.MaxWorkers \in Nat \ {0}
  /\ cfg.ExecutionTimeout \in Int
  /\ clamd \in BOOLEAN
  /\ server \in [workers : Nat, scan : BOOLEAN, failOpen : BOOLEAN,
                 network : BOOLEAN, managed : BOOLEAN, endpoints : BOOLEAN]
  /\ call \in {"idle", "asked", "resolved", "running", "working", "exited", "answered"}
  /\ call # "idle" => req \in RequestType /\ Len(req.subtitle) <= 1
  /\ plan # <<>> => call # "idle" /\ plan = PlanOf(req)
  /\ done \in 0 .. Len(plan)
  /\ exit \in {0, 1}
  /\ timedOut \in BOOLEAN
  /\ answer \in [kind : {"none", "error", "result"},
                 marks : SUBSET {"warning", "error", "metadata"}]

\* A server that serves does what its environment says, however much of that
\* could not be read: uploads pass a scanner that fails only where the policy
\* says allow, any other policy but reject kept it from starting, containers
\* have a network only where the variable says something else than true, the
\* endpoints are those of the transport named, and a scanner's daemon that
\* entrypoint.sh started is one that the server asks.
ObeysEnvironment ==
  boot = "serving" =>
    /\ env.SCAN_ON_FAIL.word \in {"", "reject", "allow"}
    /\ server.failOpen <=> env.SCAN_ON_FAIL.word = "allow"
    /\ env.TRANSPORT.word \in {"", "stdio", "http"}
    /\ server.endpoints <=> env.TRANSPORT.word = "http"
    /\ server.network => env.NETWORK_DISABLED.word \notin {"", "true", "1"}
    /\ clamd => server.scan
    /\ server.workers > 0

\* The paths a script reads, which tools.go makes up, are those docker.go
\* mounts the inputs at, the subtitle's among them, as long as no path ends
\* in a slash.
ScriptReadsMounts ==
  /\ call \in {"running", "working", "exited"}
  /\ \A i \in 1 .. Len(Mounted(req)) : ~Mounted(req)[i].slash
  => reads = mounts

\* The client sees neither a warning nor an error.
ToldSuccess == answer.kind = "result" /\ answer.marks \subseteq {"metadata"}

\* Whole is what a script has to leave in /output for its answer to be true.
Whole ==
  /\ done = Len(plan)
  /\ req.tool \in {"audio", "video"} => Made # {}
  /\ req.tool = "video" =>
       Made = {<<k, ImagePaths(req)[k]>> : k \in 1 .. Len(req.files)}
  /\ req.tool = "slides" /\ req.format \in {"png", "jpg"} =>
       /\ \A k \in 1 .. req.pages : Wanted(req, k) => <<k, k>> \in Made
       /\ ~req.all /\ req.plain = req.asked /\ req.asked \subseteq 1 .. req.pages
            => Made = {<<k, k>> : k \in req.asked}

\* An answer without a warning and without an error is given only for a
\* script that ran to its end: the one file it was to make is there with all
\* its parts, a video shows every image in the order given, every page that
\* was asked for is there under its own number, and nothing else is where the
\* numbers are written without blanks and name pages of the presentation.
SuccessDelivers == ToldSuccess => Whole

\* Whatever the estimate of the number of frames is, right or not, and however
\* many copies fill the seconds, a successful count mode numbers its images from
\* 1 without a gap, to no more than were asked for, and as many as there are
\* frames where the estimate is not too high; the video never goes back from one
\* to the next; and none shows a frame from beyond the estimate (300 without
\* bc), unless more frames than that are asked for.  A quality from 1 to 100
\* becomes a qscale from 2 to 31 (commands.go:73, 82-88).
FramesAsAsked ==
  /\ ToldSuccess /\ req.tool = "frames" /\ req.mode = "count" =>
       /\ \E m \in 0 .. req.param :
            /\ {image[1] : image \in Made} = 1 .. m
            /\ req.estimate <= req.frames => m >= Least(req.param, req.frames)
       /\ \A i, j \in Made : i[1] <= j[1] => i[2] <= j[2]
       /\ \A image \in Made :
            image[2] < req.frames /\ (image[2] < req.estimate \/ image[2] < req.param)
  /\ call # "idle" /\ req.quality \in 1 .. 100 => QScale(req.quality) \in 2 .. 31

\* "Comma-separated slide numbers to export (default: all)": a successful
\* export holds the pages asked for and nothing else.
SlidesAsAsked ==
  ToldSuccess /\ req.tool = "slides" /\ req.format \in {"png", "jpg"} =>
    Made = {<<k, k>> : k \in {p \in 1 .. req.pages : req.all \/ p \in req.asked}}
=============================================================================
