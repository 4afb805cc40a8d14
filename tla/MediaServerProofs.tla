--------------------------- MODULE MediaServerProofs ---------------------------
(***************************************************************************)
(* Proofs about MediaServer, for every environment and every request: any  *)
(* number of frames, pages and images, any argument.                       *)
(***************************************************************************)
EXTENDS MediaServer, TLAPS

Complete ==
  /\ plan = PlanOf(req)
  /\ done = Len(plan)
  /\ CheckPasses
  /\ ~ParamRefused(req)

\* What each stage of the start-up has established.
BootInv ==
  /\ boot \in {"entrypoint", "loading"} => cfg = DefaultConfig
  /\ boot \in {"building", "built", "serving"} =>
       cfg = LoadFromEnv(DefaultConfig, env) /\ Validate(cfg)
  /\ boot \in {"building", "built", "serving"} => clamd = EntrypointStartsClamd(env)
  /\ boot = "loading" => clamd = EntrypointStartsClamd(env)
  /\ boot \in {"built", "serving"} =>
       /\ server.workers = cfg.MaxWorkers
       /\ server.scan = cfg.ScanUploads
       /\ server.failOpen = (cfg.ScanOnFail = "allow")
       /\ server.network = ~cfg.NetworkDisabled
  /\ boot = "serving" => server.endpoints = (cfg.Transport = "http")
  /\ boot # "serving" => call = "idle"

\* What each stage of a call has established.
CallInv ==
  /\ call \in {"resolved", "running", "working", "exited"} => reads = ScriptReads(req)
  /\ call \in {"running", "working", "exited"} => mounts = Targets(req)
  /\ call \in {"idle", "asked", "resolved", "running"} => plan = <<>> /\ done = 0
  /\ call \in {"idle", "asked", "resolved", "running", "working"} => exit = 0 /\ ~timedOut
  /\ call = "working" => plan = PlanOf(req) /\ ~ParamRefused(req)
  /\ call = "exited" /\ exit = 0 /\ ~timedOut => Complete
  /\ call = "answered" /\ ToldSuccess => Complete
  /\ call # "answered" => answer = NoAnswer

IInv == TypeOK /\ BootInv /\ CallInv

-----------------------------------------------------------------------------
(* The operators of Config and Commands *)

\* What LoadFromEnv reads has the types of the configuration, and at least one
\* worker, whatever the environment says.
LEMMA LoadedTypes ==
  ASSUME NEW e \in EnvironmentType
  PROVE  /\ LoadFromEnv(DefaultConfig, e).MaxWorkers \in Nat \ {0}
         /\ LoadFromEnv(DefaultConfig, e).ExecutionTimeout \in Int
         /\ LoadFromEnv(DefaultConfig, e).ScanUploads \in BOOLEAN
         /\ LoadFromEnv(DefaultConfig, e).NetworkDisabled \in BOOLEAN
<1>1. \A v \in Seq(Int) : v # Unreadable => v[1] \in Int
  BY DEF Unreadable
<1>2. LoadFromEnv(DefaultConfig, e).MaxWorkers = ReadPositive(e.MAX_WORKERS, 5)
  BY DEF LoadFromEnv, DefaultConfig
<1>3. e.MAX_WORKERS \in Seq(Int) /\ e.EXECUTION_TIMEOUT \in Seq(Int)
  BY DEF EnvironmentType
<1>4. LoadFromEnv(DefaultConfig, e).MaxWorkers \in Nat \ {0}
  BY <1>1, <1>2, <1>3 DEF ReadPositive
<1>5. LoadFromEnv(DefaultConfig, e).ExecutionTimeout = ReadDuration(e.EXECUTION_TIMEOUT, 300)
  BY DEF LoadFromEnv, DefaultConfig
<1>6. LoadFromEnv(DefaultConfig, e).ExecutionTimeout \in Int
  BY <1>1, <1>3, <1>5 DEF ReadDuration
<1>7. /\ LoadFromEnv(DefaultConfig, e).ScanUploads = ReadTruth(e.SCAN_UPLOADS, FALSE)
      /\ LoadFromEnv(DefaultConfig, e).NetworkDisabled = ReadTruth(e.NETWORK_DISABLED, TRUE)
  BY DEF LoadFromEnv, DefaultConfig
<1>8. ASSUME NEW v, NEW d \in BOOLEAN
      PROVE  ReadTruth(v, d) \in BOOLEAN
  <2>1. CASE v.word = ""
    BY <2>1 DEF ReadTruth
  <2>2. CASE v.word # ""
    <3>1. ReadTruth(v, d) = (v.word \in {"true", "1"})
      BY <2>2 DEF ReadTruth
    <3> QED BY <3>1
  <2> QED BY <2>1, <2>2
<1> QED
  BY <1>4, <1>6, <1>7, <1>8

\* An integer division by a positive number, as a multiplication.
LEMMA Division ==
  ASSUME NEW a \in Nat, NEW b \in Nat \ {0}
  PROVE  /\ a \div b \in Nat
         /\ b * (a \div b) <= a
         /\ a < b * (a \div b) + b
OBVIOUS

\* The interval of count mode is positive.
LEMMA IntervalPositive ==
  ASSUME NEW total \in Nat, NEW count \in Nat \ {0}
  PROVE  Interval(total, count) \in Nat \ {0}
BY Division DEF Interval

\* A product grows with its second factor.
LEMMA TimesMonotone ==
  ASSUME NEW d \in Nat, NEW a \in Nat, NEW b \in Nat, a <= b
  PROVE  d * a <= d * b
OBVIOUS

\* A quotient grows with its dividend.
LEMMA DivMonotone ==
  ASSUME NEW a \in Nat, NEW b \in Nat, a <= b, NEW c \in Nat \ {0}
  PROVE  a \div c <= b \div c
<1>1. PICK p \in Nat, q \in Nat : p = a \div c /\ q = b \div c
  BY Division
<1>2. c * p <= a /\ b < c * q + c
  BY <1>1, Division
<1>3. p <= q
  <2> SUFFICES ASSUME q + 1 <= p PROVE FALSE
    OBVIOUS
  <2>1. c * (q + 1) <= c * p /\ c * (q + 1) = c * q + c
    BY TimesMonotone
  <2> QED BY <1>2, <2>1
<1> QED BY <1>1, <1>3

\* A count plan numbers at most so many images and goes forward through the
\* frames; it stops short of what was asked for only when it has come past the
\* last frame.
LEMMA TakenIs ==
  ASSUME NEW r \in RequestType, NEW d \in Nat \ {0}, r.param \in Nat \ {0}
  PROVE  \E m \in 0 .. r.param : \E s \in [1 .. m -> Nat] :
           /\ Taken(r, d) = [k \in 1 .. m |-> Kept(<<k, s[k] * d>>)]
           /\ \A k \in 1 .. m : s[k] < k /\ s[k] * d < r.frames
           /\ \A j, k \in 1 .. m : j <= k => s[j] <= s[k]
           /\ m = r.param \/ r.frames <= m * d
<1>1. r.frames \in Nat /\ r.rate \in Nat \ {0} /\ r.last \in Nat \ {0}
  BY DEF RequestType
<1>2. PICK picked \in Nat : picked = (r.frames + d - 1) \div d
  BY <1>1, Division
<1>3. d * picked <= r.frames + d - 1 /\ r.frames + d - 1 < d * picked + d
  <2>1. PICK a \in Nat : a = r.frames + d - 1
    BY <1>1
  <2>2. d * (a \div d) <= a /\ a < d * (a \div d) + d
    BY <2>1, Division
  <2> QED BY <1>2, <2>1, <2>2
<1>4. PICK images \in Nat :
        images = IF picked = 0 THEN 0 ELSE (picked - 1) * r.rate + r.last
  <2>1. picked # 0 => (picked - 1) * r.rate \in Nat
    BY <1>1
  <2> QED BY <1>1, <2>1
<1>5. PICK m \in 0 .. r.param : m = Least(images, r.param)
  BY DEF Least
<1> DEFINE s == [k \in 1 .. m |-> Least((k - 1) \div r.rate, picked - 1)]
<1>6. Taken(r, d) = [k \in 1 .. m |-> Kept(<<k, s[k] * d>>)]
  BY <1>2, <1>4, <1>5 DEF Taken
<1>7. m > 0 => picked > 0
  BY <1>4, <1>5 DEF Least
<1>8. ASSUME NEW k \in 1 .. m
      PROVE  s[k] \in Nat /\ s[k] < k /\ s[k] * d < r.frames
  <2>1. PICK q \in Nat : q = (k - 1) \div r.rate
    BY <1>1, Division
  <2>2. q <= k - 1
    <3>1. r.rate * q <= k - 1
      <4>1. PICK a \in Nat : a = k - 1
        OBVIOUS
      <4> QED BY <1>1, <2>1, <4>1, Division
    <3>2. q * 1 <= q * r.rate
      BY <1>1, TimesMonotone
    <3> QED BY <1>1, <3>1, <3>2
  <2>3. s[k] \in Nat /\ s[k] <= q /\ s[k] <= picked - 1
    BY <1>7, <2>1 DEF Least
  <2> HIDE DEF s
  <2>4. d * s[k] <= d * (picked - 1)
    BY <1>7, <2>3, TimesMonotone
  <2>5. d * (picked - 1) = d * picked - d
    OBVIOUS
  <2>6. d * s[k] = s[k] * d /\ d * s[k] \in Nat
    BY <2>3
  <2> QED BY <1>1, <1>3, <2>2, <2>3, <2>4, <2>5, <2>6
<1>9. ASSUME NEW j \in 1 .. m, NEW k \in 1 .. m, j <= k
      PROVE  s[j] <= s[k]
  <2>1. /\ (j - 1) \div r.rate <= (k - 1) \div r.rate
        /\ (j - 1) \div r.rate \in Nat /\ (k - 1) \div r.rate \in Nat
    <3>1. PICK a \in Nat, b \in Nat : a = j - 1 /\ b = k - 1 /\ a <= b
      BY <1>9
    <3>2. a \div r.rate <= b \div r.rate /\ a \div r.rate \in Nat /\ b \div r.rate \in Nat
      BY <1>1, <3>1, DivMonotone, Division
    <3> QED BY <3>1, <3>2
  <2> QED BY <2>1 DEF Least
<1>10. ASSUME m # r.param PROVE r.frames <= m * d
  <2>1. m = images
    BY <1>5, <1>10 DEF Least
  <2>2. picked <= images
    <3>1. CASE picked = 0
      BY <3>1
    <3>2. CASE picked # 0
      <4>1. (picked - 1) * 1 <= (picked - 1) * r.rate
        BY <1>1, <3>2, TimesMonotone
      <4> QED BY <1>1, <1>4, <3>2, <4>1
    <3> QED BY <3>1, <3>2
  <2>3. d * picked <= d * m
    BY <2>1, <2>2, TimesMonotone
  <2>4. r.frames <= d * picked
    BY <1>1, <1>3
  <2> QED BY <1>1, <2>3, <2>4
<1>11. s \in [1 .. m -> Nat]
  BY <1>8
<1> HIDE DEF s
<1> QED BY <1>6, <1>8, <1>9, <1>10, <1>11

\* The quality that tools.go documents stays within what ffmpeg takes.
LEMMA QScaleRange ==
  ASSUME NEW q \in 1 .. 100
  PROVE  QScale(q) \in 2 .. 31
<1>1. (100 - q) * 29 >= 0 /\ (100 - q) * 29 <= 2871
  OBVIOUS
<1> QED
  BY <1>1 DEF QScale, GoDiv

\* The concat list holds the images in order, and the last once more.
LEMMA ConcatListIs ==
  ASSUME NEW S, NEW paths \in Seq(S)
  PROVE  /\ ConcatList(paths) \in Seq(S)
         /\ Len(ConcatList(paths)) >= Len(paths)
         /\ \A k \in 1 .. Len(paths) : ConcatList(paths)[k] = paths[k]
<1>1. CASE paths = <<>>
  BY <1>1 DEF ConcatList
<1>2. CASE paths # <<>>
  <2>1. paths[Len(paths)] \in S
    BY <1>2
  <2> QED BY <1>2, <2>1 DEF ConcatList
<1> QED BY <1>1, <1>2

-----------------------------------------------------------------------------
(* Plans *)

\* A function on an initial segment of the naturals is a sequence.
LEMMA FunctionIsSeq ==
  ASSUME NEW n \in Nat, NEW f, f = [i \in 1 .. n |-> f[i]]
  PROVE  f \in Seq({f[i] : i \in 1 .. n}) /\ Len(f) = n
<1>1. f \in [1 .. n -> {f[i] : i \in 1 .. n}]
  OBVIOUS
<1> QED BY <1>1

\* What a concatenation holds, and where.
LEMMA Concatenation ==
  ASSUME NEW S, NEW s \in Seq(S), NEW t \in Seq(S)
  PROVE  /\ Len(s \o t) = Len(s) + Len(t)
         /\ \A i \in 1 .. Len(s) : (s \o t)[i] = s[i]
         /\ \A i \in 1 .. Len(t) : (s \o t)[Len(s) + i] = t[i]
OBVIOUS

\* The images of a video plan are those of the request, each at its place.
LEMMA VideoPlanIs ==
  ASSUME NEW r \in RequestType
  PROVE  /\ Len(VideoPlan(ImagePaths(r))) \in Nat
         /\ Len(r.files) <= Len(VideoPlan(ImagePaths(r)))
         /\ \A i \in 1 .. Len(VideoPlan(ImagePaths(r))) :
              /\ VideoPlan(ImagePaths(r))[i].keep <=> i <= Len(r.files)
              /\ i <= Len(r.files) =>
                   VideoPlan(ImagePaths(r))[i].piece = <<i, ImagePaths(r)[i]>>
<1> DEFINE paths == ImagePaths(r)
           S == {paths[i] : i \in 1 .. Len(r.files)}
<1>1. Len(r.files) \in Nat
  BY DEF RequestType
<1>2. paths \in Seq(S) /\ Len(paths) = Len(r.files)
  <2>1. paths = [i \in 1 .. Len(r.files) |-> paths[i]]
    BY DEF ImagePaths
  <2> HIDE DEF paths
  <2> QED BY <1>1, <2>1, FunctionIsSeq
<1>3. /\ ConcatList(paths) \in Seq(S)
      /\ Len(ConcatList(paths)) >= Len(paths)
      /\ \A k \in 1 .. Len(paths) : ConcatList(paths)[k] = paths[k]
  BY <1>2, ConcatListIs
<1> HIDE DEF paths, S
<1>4. Len(ConcatList(paths)) \in Nat
  BY <1>3
<1>5. /\ Len(VideoPlan(paths)) = Len(ConcatList(paths))
      /\ \A i \in 1 .. Len(ConcatList(paths)) :
           VideoPlan(paths)[i] = [piece |-> <<i, ConcatList(paths)[i]>>, keep |-> i <= Len(paths)]
  BY <1>4 DEF VideoPlan
<1>6. /\ Len(VideoPlan(paths)) \in Nat
      /\ Len(r.files) <= Len(VideoPlan(paths))
  BY <1>2, <1>3, <1>4, <1>5
<1>7. ASSUME NEW i \in 1 .. Len(VideoPlan(paths))
      PROVE  /\ VideoPlan(paths)[i].keep <=> i <= Len(r.files)
             /\ i <= Len(r.files) => VideoPlan(paths)[i].piece = <<i, paths[i]>>
  <2>1. VideoPlan(paths)[i] = [piece |-> <<i, ConcatList(paths)[i]>>, keep |-> i <= Len(paths)]
    BY <1>5
  <2>2. VideoPlan(paths)[i].keep = (i <= Len(paths))
    BY <2>1
  <2>3. VideoPlan(paths)[i].piece = <<i, ConcatList(paths)[i]>>
    BY <2>1
  <2>4. i <= Len(r.files) => i \in 1 .. Len(paths)
    BY <1>1, <1>2, <1>4, <1>5
  <2>5. i <= Len(r.files) => ConcatList(paths)[i] = paths[i]
    BY <2>4, <1>3
  <2> QED BY <1>2, <2>2, <2>3, <2>5
<1> QED
  BY <1>6, <1>7 DEF paths

\* The slide plan comes past every page the renderer wrote twice, in order.
LEMMA SlidesPlanIs ==
  ASSUME NEW r \in RequestType
  PROVE  /\ Len(SlidesPlan(r)) \in Nat
         /\ Extension(r) = r.format =>
              /\ Len(SlidesPlan(r)) = 2 * r.pages
              /\ \A k \in 1 .. r.pages :
                   SlidesPlan(r)[k] = [piece |-> <<k, k>>, keep |-> Wanted(r, k)]
              /\ \A k \in 1 .. Len(SlidesPlan(r)) :
                   SlidesPlan(r)[k].keep = Wanted(r, k)
<1> DEFINE matched == IF Extension(r) = r.format THEN r.pages ELSE 0
           g == Globbed(r)
<1>1. r.pages \in Nat
  BY DEF RequestType
<1>2. g = [k \in 1 .. 2 * matched |-> IF k <= matched THEN k ELSE k - matched]
  BY DEF Globbed
<1>3. Len(g) = 2 * matched /\ \A k \in 1 .. matched : g[k] = k
  BY <1>1, <1>2
<1> HIDE DEF g, matched
<1>4. matched \in Nat /\ (Extension(r) = r.format => matched = r.pages)
  BY <1>1 DEF matched
<1>5. SlidesPlan(r) = [k \in 1 .. Len(g) |-> [piece |-> <<k, g[k]>>, keep |-> Wanted(r, k)]]
  BY DEF SlidesPlan, g
<1>6. Len(g) \in Nat /\ Len(SlidesPlan(r)) = Len(g)
  BY <1>3, <1>4, <1>5
<1>7. ASSUME Extension(r) = r.format, NEW k \in 1 .. r.pages
      PROVE  SlidesPlan(r)[k] = [piece |-> <<k, k>>, keep |-> Wanted(r, k)]
  <2>1. k \in 1 .. Len(g) /\ g[k] = k
    BY <1>1, <1>3, <1>4, <1>7
  <2> QED BY <1>5, <2>1
<1>8. \A k \in 1 .. Len(SlidesPlan(r)) : SlidesPlan(r)[k].keep = Wanted(r, k)
  BY <1>5, <1>6
<1> QED
  BY <1>3, <1>4, <1>6, <1>7, <1>8

\* A frames plan, when its parameter is one that can be computed with.
LEMMA FramesPlanLength ==
  ASSUME NEW r \in RequestType, r.tool = "frames", ~ParamRefused(r)
  PROVE  Len(FramesPlan(r)) \in Nat
<1>1. CASE r.mode = "count"
  <2>1. r.param \in Nat \ {0} /\ r.estimate \in Nat
    BY <1>1 DEF ParamRefused, RequestType
  <2>2. PICK d \in Nat \ {0} : d = Interval(r.estimate, r.param)
    BY <2>1, IntervalPositive
  <2>3. PICK m \in 0 .. r.param : \E s \in [1 .. m -> Nat] :
          /\ Taken(r, d) = [k \in 1 .. m |-> Kept(<<k, s[k] * d>>)]
          /\ \A k \in 1 .. m : s[k] < k /\ s[k] * d < r.frames
          /\ \A j, k \in 1 .. m : j <= k => s[j] <= s[k]
          /\ m = r.param \/ r.frames <= m * d
    BY <2>1, TakenIs
  <2>4. PICK s \in [1 .. m -> Nat] :
          Taken(r, d) = [k \in 1 .. m |-> Kept(<<k, s[k] * d>>)]
    BY <2>3
  <2>5. m \in Nat /\ Len(Taken(r, d)) = m
    BY <2>1, <2>4
  <2> QED BY <1>1, <2>2, <2>5 DEF FramesPlan
<1>2. CASE r.mode # "count"
  <2>1. FramesPlan(r) = [k \in 1 .. Len(r.picked) |-> Kept(<<k, r.picked[k]>>)]
    BY <1>2 DEF FramesPlan
  <2>2. Len(r.picked) \in Nat
    BY DEF RequestType
  <2> QED BY <2>1, <2>2
<1> QED BY <1>1, <1>2

\* A plan has a length.
LEMMA PlanLength ==
  ASSUME NEW r \in RequestType, ~ParamRefused(r)
  PROVE  Len(PlanOf(r)) \in Nat
<1>1. r.tool \in Tools /\ Len(r.picked) \in Nat
  BY DEF RequestType
<1>2. CASE r.tool = "audio"
  BY <1>2 DEF PlanOf, AudioPlan
<1>3. CASE r.tool = "frames"
  BY <1>3, FramesPlanLength DEF PlanOf
<1>4. CASE r.tool = "video"
  BY <1>4, VideoPlanIs DEF PlanOf
<1>5. CASE r.tool = "slides"
  BY <1>5, SlidesPlanIs DEF PlanOf
<1>6. CASE r.tool = "pptaudio"
  BY <1>1, <1>6 DEF PlanOf
<1> QED
  BY <1>1, <1>2, <1>3, <1>4, <1>5, <1>6 DEF Tools

-----------------------------------------------------------------------------
(* A script that came to its end *)

\* All it kept of its plan is there.
LEMMA CompleteMakes ==
  ASSUME Complete, Len(plan) \in Nat
  PROVE  Made = {plan[i].piece : i \in {j \in 1 .. Len(plan) : plan[j].keep}}
BY DEF Complete, Made

LEMMA VideoWhole ==
  ASSUME Complete, req \in RequestType, req.tool = "video"
  PROVE  Made = {<<k, ImagePaths(req)[k]>> : k \in 1 .. Len(req.files)}
<1>1. plan = VideoPlan(ImagePaths(req))
  BY DEF Complete, PlanOf
<1>2. /\ Len(plan) \in Nat
      /\ Len(req.files) <= Len(plan)
      /\ \A i \in 1 .. Len(plan) :
           /\ plan[i].keep <=> i <= Len(req.files)
           /\ i <= Len(req.files) => plan[i].piece = <<i, ImagePaths(req)[i]>>
  BY <1>1, VideoPlanIs
<1>3. Len(req.files) \in Nat
  BY DEF RequestType
<1>4. {j \in 1 .. Len(plan) : plan[j].keep} = 1 .. Len(req.files)
  BY <1>2, <1>3
<1>5. Made = {plan[i].piece : i \in 1 .. Len(req.files)}
  BY <1>2, <1>4, CompleteMakes
<1>6. \A i \in 1 .. Len(req.files) : plan[i].piece = <<i, ImagePaths(req)[i]>>
  BY <1>2, <1>3
<1> QED BY <1>5, <1>6

\* Every page asked for is there under its number.
LEMMA SlidesWhole ==
  ASSUME Complete, req \in RequestType, req.tool = "slides",
         req.format \in {"png", "jpg"}, NEW k \in 1 .. req.pages, Wanted(req, k)
  PROVE  <<k, k>> \in Made
<1>1. plan = SlidesPlan(req)
  BY DEF Complete, PlanOf
<1>2. req.pages \in Nat /\ req.renderer \in {"pdftoppm", "ffmpeg"}
  BY DEF RequestType
<1>3. Extension(req) = req.format
  BY <1>2 DEF Extension
<1>4. /\ Len(plan) \in Nat
      /\ Len(plan) = 2 * req.pages
      /\ plan[k] = [piece |-> <<k, k>>, keep |-> Wanted(req, k)]
  BY <1>1, <1>3, SlidesPlanIs
<1>5. k \in {j \in 1 .. Len(plan) : plan[j].keep} /\ plan[k].piece = <<k, k>>
  BY <1>2, <1>4
<1> QED BY <1>4, <1>5, CompleteMakes

\* A selection of pages that exist gives just those pages: the second time
\* round the positions are past the last page, so none of them is selected.
LEMMA SelectionExact ==
  ASSUME Complete, req \in RequestType, req.tool = "slides",
         req.format \in {"png", "jpg"},
         ~req.all, req.plain = req.asked, req.asked \subseteq 1 .. req.pages
  PROVE  Made = {<<k, k>> : k \in req.asked}
<1>1. plan = SlidesPlan(req)
  BY DEF Complete, PlanOf
<1>2. req.pages \in Nat /\ req.renderer \in {"pdftoppm", "ffmpeg"}
  BY DEF RequestType
<1>3. Extension(req) = req.format
  BY <1>2 DEF Extension
<1>4. /\ Len(plan) \in Nat
      /\ Len(plan) = 2 * req.pages
      /\ \A k \in 1 .. req.pages : plan[k].piece = <<k, k>>
  <2>1. Len(plan) \in Nat /\ Len(plan) = 2 * req.pages
    BY <1>1, <1>3, SlidesPlanIs
  <2>2. ASSUME NEW k \in 1 .. req.pages PROVE plan[k].piece = <<k, k>>
    <3>1. plan[k] = [piece |-> <<k, k>>, keep |-> Wanted(req, k)]
      BY <1>1, <1>3, SlidesPlanIs
    <3> QED BY <3>1
  <2> QED BY <2>1, <2>2
<1>5. {j \in 1 .. Len(plan) : plan[j].keep} = req.asked
  <2>1. \A k \in 1 .. Len(plan) : plan[k].keep = Wanted(req, k)
    BY <1>1, <1>3, SlidesPlanIs
  <2>2. \A k : Wanted(req, k) <=> k \in req.asked
    BY DEF Wanted
  <2>3. \A k \in req.asked : k \in 1 .. Len(plan)
    BY <1>2, <1>4
  <2> QED BY <2>1, <2>2, <2>3
<1>6. Made = {plan[i].piece : i \in req.asked}
  BY <1>4, <1>5, CompleteMakes
<1> QED BY <1>4, <1>6

\* The images of a count mode that came to its end.
LEMMA FramesWhole ==
  ASSUME Complete, req \in RequestType, req.tool = "frames", req.mode = "count"
  PROVE  /\ \E m \in 0 .. req.param :
              /\ {image[1] : image \in Made} = 1 .. m
              /\ req.estimate <= req.frames => m >= Least(req.param, req.frames)
         /\ \A i, j \in Made : i[1] <= j[1] => i[2] <= j[2]
         /\ \A image \in Made :
              image[2] < req.frames /\ (image[2] < req.estimate \/ image[2] < req.param)
<1>1. ~ParamRefused(req) /\ plan = FramesPlan(req)
  BY DEF Complete, PlanOf
<1>2. req.param \in Nat \ {0} /\ req.frames \in Nat /\ req.estimate \in Nat
  BY <1>1 DEF ParamRefused, RequestType
<1>3. PICK d \in Nat \ {0} : d = Interval(req.estimate, req.param)
  BY <1>2, IntervalPositive
<1>4. PICK m \in 0 .. req.param : \E s \in [1 .. m -> Nat] :
        /\ Taken(req, d) = [k \in 1 .. m |-> Kept(<<k, s[k] * d>>)]
        /\ \A k \in 1 .. m : s[k] < k /\ s[k] * d < req.frames
        /\ \A j, k \in 1 .. m : j <= k => s[j] <= s[k]
        /\ m = req.param \/ req.frames <= m * d
  BY <1>2, TakenIs
<1>5. PICK s \in [1 .. m -> Nat] :
        /\ Taken(req, d) = [k \in 1 .. m |-> Kept(<<k, s[k] * d>>)]
        /\ \A k \in 1 .. m : s[k] < k /\ s[k] * d < req.frames
        /\ \A j, k \in 1 .. m : j <= k => s[j] <= s[k]
        /\ m = req.param \/ req.frames <= m * d
  BY <1>4
<1>6. Made = {<<k, s[k] * d>> : k \in 1 .. m}
  <2>1. plan = [k \in 1 .. m |-> Kept(<<k, s[k] * d>>)]
    BY <1>1, <1>3, <1>5 DEF FramesPlan
  <2>2. Len(plan) = m
    BY <1>2, <2>1
  <2>3. \A k \in 1 .. m : plan[k].keep /\ plan[k].piece = <<k, s[k] * d>>
    BY <2>1 DEF Kept
  <2>4. Made = {plan[k].piece : k \in {j \in 1 .. m : plan[j].keep}}
    BY <1>2, <2>2, CompleteMakes
  <2>5. {j \in 1 .. m : plan[j].keep} = 1 .. m
    BY <2>3
  <2> QED BY <2>3, <2>4, <2>5
\* The interval is 1, or the estimate holds so many of it.
<1>7. d = 1 \/ d * req.param <= req.estimate
  <2>1. PICK q \in Nat : q = req.estimate \div req.param
    BY <1>2, Division
  <2>2. req.param * q <= req.estimate
    BY <1>2, <2>1, Division
  <2>3. d = IF q < 1 THEN 1 ELSE q
    BY <1>3, <2>1 DEF Interval
  <2> QED BY <1>2, <2>2, <2>3
<1>8. {image[1] : image \in Made} = 1 .. m
  <2>1. ASSUME NEW image \in Made PROVE image[1] \in 1 .. m
    BY <1>6
  <2>2. ASSUME NEW k \in 1 .. m PROVE \E image \in Made : k = image[1]
    <3>1. <<k, s[k] * d>> \in Made /\ k = <<k, s[k] * d>>[1]
      BY <1>6
    <3> QED BY <3>1
  <2> QED BY <2>1, <2>2
<1>9. ASSUME req.estimate <= req.frames PROVE m >= Least(req.param, req.frames)
  <2>1. CASE m = req.param
    BY <1>2, <2>1 DEF Least
  <2>2. CASE req.frames <= m * d /\ d = 1
    BY <1>2, <2>2 DEF Least
  <2>3. CASE req.frames <= m * d /\ d * req.param <= req.estimate /\ m # req.param
    <3>1. m + 1 <= req.param
      BY <1>2, <2>3
    <3>2. d * (m + 1) <= d * req.param /\ d * (m + 1) = m * d + d
      BY <1>2, <3>1, TimesMonotone
    <3>3. m * d \in Nat /\ d * req.param \in Nat
      BY <1>2
    <3> QED BY <1>2, <1>9, <2>3, <3>2, <3>3
  <2> QED BY <1>5, <1>7, <2>1, <2>2, <2>3
<1>10. ASSUME NEW j \in 1 .. m, NEW k \in 1 .. m, j <= k
       PROVE  s[j] * d <= s[k] * d
  <2>1. s[j] \in Nat /\ s[k] \in Nat /\ s[j] <= s[k]
    BY <1>5, <1>10
  <2>2. d * s[j] <= d * s[k]
    BY <2>1, TimesMonotone
  <2> QED BY <2>1, <2>2
<1>11. ASSUME NEW k \in 1 .. m
       PROVE  s[k] * d < req.estimate \/ s[k] * d < req.param
  <2>1. s[k] \in Nat /\ s[k] + 1 <= req.param
    BY <1>2, <1>5
  <2>2. CASE d = 1
    BY <1>2, <2>1, <2>2
  <2>3. CASE d * req.param <= req.estimate
    <3>1. d * (s[k] + 1) <= d * req.param /\ d * (s[k] + 1) = s[k] * d + d
      <4>1. PICK a \in Nat : a = s[k]
        BY <2>1
      <4>2. a + 1 \in Nat /\ a + 1 <= req.param
        BY <2>1, <4>1
      <4>3. d * (a + 1) <= d * req.param
        BY <1>2, <4>2, TimesMonotone
      <4>4. d * (a + 1) = a * d + d
        OBVIOUS
      <4> QED BY <4>1, <4>3, <4>4
    <3>2. s[k] * d \in Nat /\ d * req.param \in Nat
      BY <1>2, <2>1
    <3> QED BY <1>2, <2>3, <3>1, <3>2
  <2> QED BY <1>7, <2>2, <2>3
<1>12. \A i, j \in Made : i[1] <= j[1] => i[2] <= j[2]
  BY <1>6, <1>10
<1>13. \A image \in Made :
         image[2] < req.frames /\ (image[2] < req.estimate \/ image[2] < req.param)
  BY <1>5, <1>6, <1>11
<1> QED
  BY <1>8, <1>9, <1>12, <1>13

-----------------------------------------------------------------------------
(* The invariant *)

LEMMA InitInv == ASSUME Init PROVE IInv
<1>1. env \in EnvironmentType
  BY MediaServerAssumption DEF Init
<1>2. /\ server \in [workers : Nat, scan : BOOLEAN, failOpen : BOOLEAN,
                      network : BOOLEAN, managed : BOOLEAN, endpoints : BOOLEAN]
      /\ cfg.MaxWorkers = 5 /\ cfg.ExecutionTimeout = 300
  BY DEF Init, NoServer, DefaultConfig
<1>3. answer \in [kind : {"none", "error", "result"},
                  marks : SUBSET {"warning", "error", "metadata"}]
  BY DEF Init, NoAnswer
<1>4. plan = <<>> /\ done \in 0 .. Len(plan)
  BY DEF Init
<1>5. TypeOK
  <2>1. cfg.MaxWorkers \in Nat \ {0} /\ cfg.ExecutionTimeout \in Int
    BY <1>2
  <2>2. boot = "entrypoint" /\ call = "idle" /\ exit = 0 /\ timedOut = FALSE /\ clamd = FALSE
    BY DEF Init
  <2> QED BY <1>1, <1>2, <1>3, <1>4, <2>1, <2>2 DEF TypeOK
<1>6. BootInv
  BY DEF Init, BootInv
<1>7. CallInv
  BY DEF Init, CallInv
<1> QED BY <1>5, <1>6, <1>7 DEF IInv

\* The start-up leaves the calls alone.
LEMMA BootStep ==
  ASSUME IInv, Entrypoint \/ Configure \/ Build \/ Listen
  PROVE  IInv'
<1>1. UNCHANGED <<req, call, scriptVars, answer>> /\ UNCHANGED env
  BY DEF Entrypoint, Configure, Build, Listen, calls
<1>2. call = "idle"
  BY DEF IInv, BootInv, Entrypoint, Configure, Build, Listen
<1>3. CallInv'
  BY <1>1, <1>2 DEF IInv, CallInv, scriptVars
<1>4. LoadFromEnv(DefaultConfig, env).MaxWorkers \in Nat \ {0}
      /\ LoadFromEnv(DefaultConfig, env).ExecutionTimeout \in Int
      /\ LoadFromEnv(DefaultConfig, env).ScanUploads \in BOOLEAN
      /\ LoadFromEnv(DefaultConfig, env).NetworkDisabled \in BOOLEAN
  BY LoadedTypes DEF IInv, TypeOK
<1>5. CASE Entrypoint
  <2>1. TypeOK'
    BY <1>1, <1>2, <1>5 DEF IInv, TypeOK, CallInv, Entrypoint, EntrypointStartsClamd, scriptVars
  <2>2. BootInv'
    BY <1>1, <1>2, <1>5 DEF IInv, BootInv, Entrypoint
  <2> QED BY <1>3, <2>1, <2>2 DEF IInv
<1>6. CASE Configure
  <2>1. cfg' = LoadFromEnv(DefaultConfig, env)
    BY <1>6 DEF Configure, IInv, BootInv
  <2>2. TypeOK'
    BY <1>1, <1>2, <1>4, <1>6, <2>1 DEF IInv, TypeOK, CallInv, Configure, scriptVars
  <2>3. BootInv'
    BY <1>1, <1>2, <1>6, <2>1 DEF IInv, BootInv, Configure
  <2> QED BY <1>3, <2>2, <2>3 DEF IInv
<1>7. CASE Build
  <2>1. cfg = LoadFromEnv(DefaultConfig, env) /\ Validate(cfg) /\ UNCHANGED <<cfg, clamd>>
    BY <1>7 DEF Build, IInv, BootInv
  <2>2. CASE boot' = "refused" /\ UNCHANGED server
    <3>1. TypeOK'
      BY <1>1, <1>2, <1>7, <2>1, <2>2 DEF IInv, TypeOK, CallInv, scriptVars
    <3>2. BootInv'
      BY <1>1, <1>2, <2>1, <2>2 DEF BootInv
    <3> QED BY <1>3, <3>1, <3>2 DEF IInv
  <2>3. CASE boot' # "refused"
    <3>1. /\ boot' = "built"
          /\ server' = [workers |-> cfg.MaxWorkers, scan |-> cfg.ScanUploads,
                        failOpen |-> cfg.ScanOnFail = "allow",
                        network |-> ~cfg.NetworkDisabled,
                        managed |-> cfg.OutputDir # "", endpoints |-> FALSE]
      BY <1>7, <2>3 DEF Build
    <3>2. /\ server'.workers = cfg.MaxWorkers
          /\ server'.scan = cfg.ScanUploads
          /\ server'.failOpen = (cfg.ScanOnFail = "allow")
          /\ server'.network = ~cfg.NetworkDisabled
      BY <3>1
    <3>3. server' \in [workers : Nat, scan : BOOLEAN, failOpen : BOOLEAN,
                       network : BOOLEAN, managed : BOOLEAN, endpoints : BOOLEAN]
      <4> DEFINE open == cfg.ScanOnFail = "allow"
                 kept == cfg.OutputDir # ""
                 net  == ~cfg.NetworkDisabled
      <4>1. open \in BOOLEAN /\ kept \in BOOLEAN /\ net \in BOOLEAN
        OBVIOUS
      <4>2. cfg.MaxWorkers \in Nat /\ cfg.ScanUploads \in BOOLEAN
        BY <1>4, <2>1
      <4>3. server' = [workers |-> cfg.MaxWorkers, scan |-> cfg.ScanUploads,
                       failOpen |-> open, network |-> net, managed |-> kept,
                       endpoints |-> FALSE]
        BY <3>1
      <4> HIDE DEF open, kept, net
      <4> QED BY <4>1, <4>2, <4>3
    <3>4. TypeOK'
      BY <1>1, <1>2, <1>7, <2>1, <3>1, <3>3 DEF IInv, TypeOK, CallInv, scriptVars
    <3>5. BootInv'
      BY <1>1, <1>2, <1>7, <2>1, <3>1, <3>2 DEF BootInv, Build, IInv
    <3> QED BY <1>3, <3>4, <3>5 DEF IInv
  <2> QED BY <1>7, <2>2, <2>3 DEF Build
<1>8. CASE Listen
  <2>1. TypeOK'
    BY <1>1, <1>2, <1>8 DEF IInv, TypeOK, CallInv, Listen, scriptVars
  <2>2. BootInv'
    BY <1>1, <1>2, <1>8 DEF IInv, BootInv, TypeOK, Listen
  <2> QED BY <1>3, <2>1, <2>2 DEF IInv
<1> QED BY <1>5, <1>6, <1>7, <1>8

\* A call leaves the server as it is, and works on a server that serves.
LEMMA CallBoot ==
  ASSUME IInv, UNCHANGED bootVars, boot = "serving"
  PROVE  BootInv'
BY DEF IInv, BootInv, bootVars

LEMMA Serving == ASSUME IInv, call # "idle" PROVE boot = "serving"
BY DEF IInv, BootInv

\* The handler, up to the container.
LEMMA HandlerStep ==
  ASSUME IInv, Ask \/ Refuse \/ Resolve \/ Run
  PROVE  IInv'
<1> USE DEF Return
<1>1. boot = "serving" /\ UNCHANGED bootVars
  BY Serving DEF Ask, Refuse, Resolve, Run
<1>2. BootInv'
  BY <1>1, CallBoot
<1>3. CASE Ask
  <2>1. req' \in RequestType /\ Len(req'.subtitle) <= 1
    BY <1>3, MediaServerAssumption DEF Ask
  <2>2. UNCHANGED <<scriptVars, answer>> /\ call = "idle" /\ call' = "asked"
    BY <1>3 DEF Ask
  <2>3. plan = <<>>
    BY <2>2 DEF IInv, CallInv
  <2>4. TypeOK'
    BY <1>1, <2>1, <2>2, <2>3 DEF IInv, TypeOK, bootVars, scriptVars
  <2>5. CallInv'
    BY <2>2, <2>3 DEF IInv, CallInv, scriptVars
  <2> QED BY <1>2, <2>4, <2>5 DEF IInv
<1>4. CASE Refuse
  <2>1. UNCHANGED <<req, scriptVars>> /\ call = "asked" /\ call' = "answered"
        /\ answer' = [kind |-> "error", marks |-> {}]
    BY <1>4 DEF Refuse
  <2>2. plan = <<>>
    BY <2>1 DEF IInv, CallInv
  <2>3. TypeOK'
    BY <1>1, <2>1, <2>2 DEF IInv, TypeOK, bootVars, scriptVars
  <2>4. CallInv'
    BY <2>1 DEF CallInv, ToldSuccess
  <2> QED BY <1>2, <2>3, <2>4 DEF IInv
<1>5. CASE Resolve
  <2>1. UNCHANGED <<req, mounts, plan, done, exit, timedOut>> /\ call = "asked"
    BY <1>5 DEF Resolve
  <2>2. plan = <<>> /\ done = 0 /\ exit = 0 /\ ~timedOut /\ answer = NoAnswer
    BY <2>1 DEF IInv, CallInv
  <2>3. CASE reads' = ScriptReads(req) /\ call' = "resolved" /\ UNCHANGED answer
    <3>1. TypeOK'
      BY <1>1, <2>1, <2>2, <2>3 DEF IInv, TypeOK, bootVars
    <3>2. ScriptReads(req)' = ScriptReads(req)
      BY <2>1 DEF ScriptReads, ImagePaths, SubtitlePaths
    <3>3. CallInv'
      BY <2>1, <2>2, <2>3, <3>2 DEF CallInv, NoAnswer
    <3> QED BY <1>2, <3>1, <3>3 DEF IInv
  <2>4. CASE call' = "answered" /\ answer' = [kind |-> "error", marks |-> {}]
    <3>1. TypeOK'
      BY <1>1, <2>1, <2>2, <2>4 DEF IInv, TypeOK, bootVars
    <3>2. CallInv'
      BY <2>1, <2>2, <2>4 DEF CallInv, ToldSuccess
    <3> QED BY <1>2, <3>1, <3>2 DEF IInv
  <2> QED BY <1>5, <2>3, <2>4 DEF Resolve
<1>6. CASE Run
  <2>1. UNCHANGED <<req, reads, plan, done, exit, timedOut>> /\ call = "resolved"
    BY <1>6 DEF Run
  <2>2. plan = <<>> /\ done = 0 /\ exit = 0 /\ ~timedOut /\ answer = NoAnswer
        /\ reads = ScriptReads(req)
    BY <2>1 DEF IInv, CallInv
  <2>3. CASE mounts' = Targets(req) /\ call' = "running" /\ UNCHANGED answer
    <3>1. TypeOK'
      BY <1>1, <2>1, <2>2, <2>3 DEF IInv, TypeOK, bootVars
    <3>2. ScriptReads(req)' = ScriptReads(req) /\ Targets(req)' = Targets(req)
      BY <2>1 DEF ScriptReads, ImagePaths, SubtitlePaths, Targets, Mounted
    <3>3. CallInv'
      BY <2>1, <2>2, <2>3, <3>2 DEF CallInv, NoAnswer
    <3> QED BY <1>2, <3>1, <3>3 DEF IInv
  <2>4. CASE call' = "answered" /\ answer' = [kind |-> "error", marks |-> {}]
    <3>1. TypeOK'
      BY <1>1, <2>1, <2>2, <2>4 DEF IInv, TypeOK, bootVars
    <3>2. CallInv'
      BY <2>1, <2>2, <2>4 DEF CallInv, ToldSuccess
    <3> QED BY <1>2, <3>1, <3>2 DEF IInv
  <2> QED BY <1>6, <2>3, <2>4 DEF Run
<1> QED BY <1>3, <1>4, <1>5, <1>6

\* The container, and the answer.
LEMMA ContainerStep ==
  ASSUME IInv, Begin \/ MakePiece \/ ScriptEnds \/ CommandFails \/ TimeUp \/ Report
  PROVE  IInv'
<1>1. boot = "serving" /\ UNCHANGED bootVars
  BY Serving DEF Begin, MakePiece, ScriptEnds, CommandFails, TimeUp, Report
<1>2. BootInv'
  BY <1>1, CallBoot
<1>3. UNCHANGED <<req, reads, mounts>>
  BY DEF Begin, MakePiece, ScriptEnds, CommandFails, TimeUp, Report, scriptVars
<1>4. /\ reads = ScriptReads(req) /\ mounts = Targets(req)
      /\ req \in RequestType
  BY DEF IInv, CallInv, TypeOK, Begin, MakePiece, ScriptEnds, CommandFails, TimeUp, Report
<1>5. /\ ScriptReads(req)' = ScriptReads(req) /\ Targets(req)' = Targets(req)
      /\ ParamRefused(req)' = ParamRefused(req) /\ PlanOf(req)' = PlanOf(req)
  BY <1>3
<1>6. CASE Begin
  <2>1. /\ plan' = PlanOf(req) /\ call = "running" /\ call' = "working"
        /\ ~ParamRefused(req) /\ UNCHANGED <<done, exit, timedOut, answer>>
    BY <1>6 DEF Begin
  <2>2. done = 0 /\ exit = 0 /\ ~timedOut /\ answer = NoAnswer
    BY <2>1 DEF IInv, CallInv
  <2>3. done' \in 0 .. Len(plan')
    BY <1>4, <2>1, <2>2, PlanLength
  <2>4. TypeOK'
    BY <1>1, <1>3, <1>4, <1>5, <2>1, <2>3 DEF IInv, TypeOK, bootVars
  <2>5. CallInv'
    BY <1>3, <1>4, <1>5, <2>1, <2>2 DEF CallInv
  <2> QED BY <1>2, <2>4, <2>5 DEF IInv
<1>7. CASE MakePiece
  <2>1. /\ call = "working" /\ UNCHANGED <<call, plan, exit, timedOut, answer>>
        /\ done < Len(plan) /\ done' = done + 1
    BY <1>7 DEF MakePiece
  <2>2. plan = PlanOf(req) /\ ~ParamRefused(req)
    BY <2>1 DEF IInv, CallInv
  <2>3. done' \in 0 .. Len(plan')
    BY <1>4, <2>1, <2>2, PlanLength DEF IInv, TypeOK
  <2>4. TypeOK'
    BY <1>1, <1>3, <1>4, <1>5, <2>1, <2>2, <2>3 DEF IInv, TypeOK, bootVars
  <2>5. CallInv'
    BY <1>3, <1>4, <1>5, <2>1, <2>2 DEF IInv, CallInv
  <2> QED BY <1>2, <2>4, <2>5 DEF IInv
<1>8. CASE ScriptEnds
  <2>1. /\ call = "working" /\ call' = "exited" /\ UNCHANGED <<plan, done, timedOut, answer>>
        /\ done = Len(plan) /\ exit' = IF CheckPasses THEN 0 ELSE 1
    BY <1>8 DEF ScriptEnds
  <2>2. plan = PlanOf(req) /\ ~ParamRefused(req) /\ answer = NoAnswer
    BY <2>1 DEF IInv, CallInv
  <2>3. CheckPasses' <=> CheckPasses
    BY <1>3, <2>1 DEF CheckPasses, Made
  <2>4. exit' = 0 => Complete'
    BY <1>5, <2>1, <2>2, <2>3 DEF Complete
  <2>5. TypeOK'
    BY <1>1, <1>3, <1>4, <1>5, <2>1, <2>2 DEF IInv, TypeOK, bootVars
  <2>6. CallInv'
    BY <1>3, <1>4, <1>5, <2>1, <2>2, <2>4 DEF CallInv, NoAnswer
  <2> QED BY <1>2, <2>5, <2>6 DEF IInv
<1>9. CASE CommandFails \/ TimeUp
  <2>1. /\ call \in {"running", "working"} /\ call' = "exited"
        /\ UNCHANGED <<plan, done, answer>>
        /\ \/ exit' = 1 /\ UNCHANGED timedOut
           \/ timedOut' = TRUE /\ UNCHANGED exit
    BY <1>9 DEF CommandFails, TimeUp
  <2>2. answer = NoAnswer
    BY <2>1 DEF IInv, CallInv
  <2>3. TypeOK'
    BY <1>1, <1>3, <1>4, <1>5, <2>1 DEF IInv, TypeOK, bootVars
  <2>4. CallInv'
    BY <1>3, <1>4, <1>5, <2>1, <2>2 DEF CallInv
  <2> QED BY <1>2, <2>3, <2>4 DEF IInv
<1>10. CASE Report
  <2>1. /\ call = "exited" /\ call' = "answered" /\ UNCHANGED <<plan, done, exit, timedOut>>
        /\ answer' = [kind |-> "result",
                      marks |-> FormatResult(timedOut, exit, server.managed)]
    BY <1>10 DEF Report, Return, scriptVars
  <2>2. FormatResult(timedOut, exit, server.managed) \subseteq {"warning", "error", "metadata"}
    BY DEF FormatResult
  <2>3. answer' \in [kind : {"none", "error", "result"},
                     marks : SUBSET {"warning", "error", "metadata"}]
    BY <2>1, <2>2
  <2>4. TypeOK'
    BY <1>1, <1>3, <1>4, <1>5, <2>1, <2>3 DEF IInv, TypeOK, bootVars
  <2>5. exit \in {0, 1} /\ timedOut \in BOOLEAN
    BY DEF IInv, TypeOK
  <2>6. ToldSuccess' => exit = 0 /\ ~timedOut
    <3> SUFFICES ASSUME ToldSuccess' PROVE exit = 0 /\ ~timedOut
      OBVIOUS
    <3>1. FormatResult(timedOut, exit, server.managed) \subseteq {"metadata"}
      BY <2>1 DEF ToldSuccess
    <3>2. timedOut => "warning" \in FormatResult(timedOut, exit, server.managed)
      BY DEF FormatResult
    <3>3. exit = 1 => "error" \in FormatResult(timedOut, exit, server.managed)
      BY DEF FormatResult
    <3> QED BY <2>5, <3>1, <3>2, <3>3
  <2>7. ToldSuccess' => Complete'
    <3>1. Complete' <=> Complete
      BY <1>3, <1>5, <2>1 DEF Complete, CheckPasses, Made
    <3> QED BY <2>1, <2>6, <3>1 DEF IInv, CallInv
  <2>8. CallInv'
    BY <2>1, <2>7 DEF CallInv
  <2> QED BY <1>2, <2>4, <2>8 DEF IInv
<1> QED BY <1>6, <1>7, <1>8, <1>9, <1>10

THEOREM Invariance == Spec => []IInv
<1>1. Init => IInv
  BY InitInv
<1>2. IInv /\ [Next]_vars => IInv'
  <2> SUFFICES ASSUME IInv, [Next]_vars PROVE IInv'
    OBVIOUS
  <2>1. CASE Next
    BY <2>1, BootStep, HandlerStep, ContainerStep DEF Next
  <2>2. CASE UNCHANGED vars
    <3>1. UNCHANGED <<bootVars, req, call, scriptVars, answer>>
      BY <2>2 DEF vars
    <3>2. TypeOK'
      BY <3>1 DEF IInv, TypeOK, bootVars, scriptVars
    <3>3. BootInv'
      BY <3>1 DEF IInv, BootInv, bootVars
    <3>4. Complete' <=> Complete
      BY <3>1 DEF Complete, CheckPasses, Made, scriptVars
    <3>5. ToldSuccess' <=> ToldSuccess
      BY <3>1 DEF ToldSuccess
    <3>6. CallInv'
      BY <3>1, <3>4, <3>5 DEF IInv, CallInv, scriptVars
    <3> QED BY <3>2, <3>3, <3>6 DEF IInv
  <2> QED BY <2>1, <2>2
<1> QED BY <1>1, <1>2, PTL DEF Spec

-----------------------------------------------------------------------------
(* The theorems *)

\* The state of the server, of its call and of the script keeps its types.
THEOREM TypeCorrect == Spec => []TypeOK
BY Invariance, PTL DEF IInv

\* A server that serves does what its environment says, whatever that is.
THEOREM Obeys == Spec => []ObeysEnvironment
<1>1. IInv => ObeysEnvironment
  <2> SUFFICES ASSUME IInv, boot = "serving" PROVE ObeysEnvironment
    BY DEF ObeysEnvironment
  <2>1. /\ cfg = LoadFromEnv(DefaultConfig, env) /\ Validate(cfg)
        /\ clamd = EntrypointStartsClamd(env)
        /\ server.workers = cfg.MaxWorkers
        /\ server.scan = cfg.ScanUploads
        /\ server.failOpen = (cfg.ScanOnFail = "allow")
        /\ server.network = ~cfg.NetworkDisabled
        /\ server.endpoints = (cfg.Transport = "http")
    BY DEF IInv, BootInv
  <2>2. /\ cfg.ScanOnFail = ReadText(env.SCAN_ON_FAIL, "reject")
        /\ cfg.Transport = ReadText(env.TRANSPORT, "stdio")
        /\ cfg.NetworkDisabled = ReadTruth(env.NETWORK_DISABLED, TRUE)
        /\ cfg.ScanUploads = ReadTruth(env.SCAN_UPLOADS, FALSE)
    BY <2>1 DEF LoadFromEnv, DefaultConfig
  <2>3. /\ env.SCAN_ON_FAIL.word \in {"", "reject", "allow"}
        /\ server.failOpen <=> env.SCAN_ON_FAIL.word = "allow"
    BY <2>1, <2>2 DEF ReadText, Validate
  <2>4. /\ env.TRANSPORT.word \in {"", "stdio", "http"}
        /\ server.endpoints <=> env.TRANSPORT.word = "http"
    BY <2>1, <2>2 DEF ReadText, Validate
  <2>5. server.network => env.NETWORK_DISABLED.word \notin {"", "true", "1"}
    BY <2>1, <2>2 DEF ReadTruth
  <2>6. clamd => server.scan
    <3>1. clamd => env.SCAN_UPLOADS.word = "true"
      <4> SUFFICES ASSUME clamd = TRUE PROVE env.SCAN_UPLOADS.word = "true"
        BY DEF IInv, TypeOK
      <4>1. env.SCAN_UPLOADS = [word |-> "true", lower |-> TRUE]
        BY <2>1 DEF EntrypointStartsClamd, Written
      <4> QED BY <4>1
    <3>2. clamd => ReadTruth(env.SCAN_UPLOADS, FALSE) = TRUE
      BY <3>1 DEF ReadTruth
    <3> QED BY <2>1, <2>2, <3>2
  <2>7. server.workers > 0
    BY <2>1 DEF IInv, TypeOK
  <2> QED BY <2>3, <2>4, <2>5, <2>6, <2>7 DEF ObeysEnvironment
<1> QED BY <1>1, Invariance, PTL

\* Every path a script reads is the mount of the input it was written for.
THEOREM ReadsAgree == Spec => []ScriptReadsMounts
<1>1. IInv => ScriptReadsMounts
  <2> SUFFICES ASSUME IInv, call \in {"running", "working", "exited"},
                      \A i \in 1 .. Len(Mounted(req)) : ~Mounted(req)[i].slash
               PROVE  reads = mounts
    BY DEF ScriptReadsMounts
  <2>1. reads = ScriptReads(req) /\ mounts = Targets(req) /\ req \in RequestType
    BY DEF IInv, CallInv, TypeOK
  <2>2. PICK n \in Nat, m \in Nat : n = Len(req.files) /\ m = Len(req.subtitle)
    BY <2>1 DEF RequestType
  <2>3. m <= 1
    BY <2>2 DEF IInv, TypeOK
  <2> DEFINE f == Mounted(req)
  <2>4. /\ Len(f) = n + m
        /\ \A i \in 1 .. n : f[i] = req.files[i]
        /\ \A i \in 1 .. m : f[n + i] = req.subtitle[i]
        /\ \A i \in 1 .. n + m : ~f[i].slash
    <3>1. req.files \in Seq(Files) /\ req.subtitle \in Seq(Files)
      BY <2>1 DEF RequestType
    <3>2. /\ Len(f) = Len(req.files) + Len(req.subtitle)
          /\ \A i \in 1 .. Len(req.files) : f[i] = req.files[i]
          /\ \A i \in 1 .. Len(req.subtitle) : f[Len(req.files) + i] = req.subtitle[i]
      <4>1. f = req.files \o req.subtitle
        BY DEF Mounted
      <4> HIDE DEF f
      <4> DEFINE s == req.files
                 t == req.subtitle
      <4>2. s \in Seq(Files) /\ t \in Seq(Files) /\ f = s \o t
        BY <3>1, <4>1
      <4> HIDE DEF s, t
      <4>3. /\ Len(f) = Len(s) + Len(t)
            /\ \A i \in 1 .. Len(s) : f[i] = s[i]
            /\ \A i \in 1 .. Len(t) : f[Len(s) + i] = t[i]
        BY <4>2, Concatenation
      <4> QED BY <4>3 DEF s, t
    <3>3. \A i \in 1 .. Len(f) : ~f[i].slash
      OBVIOUS
    <3> HIDE DEF f
    <3> QED BY <2>2, <3>2, <3>3
  <2> HIDE DEF f
  <2> DEFINE target(i) == <<i - 1, f[i].name>>
  <2>5. mounts = {target(i) : i \in 1 .. n + m}
    BY <2>1, <2>4 DEF Targets, Base, f
  <2>6. \A i \in 1 .. n : ImagePaths(req)[i] = target(i)
    <3> TAKE i \in 1 .. n
    <3>1. f[i] = req.files[i] /\ ~f[i].slash
      BY <2>4
    <3>2. ImagePaths(req)[i] = <<i - 1, GetFilename(req.files[i])>>
      BY <2>2 DEF ImagePaths
    <3> QED BY <3>1, <3>2 DEF GetFilename
  <2>7. \A i \in 1 .. m : <<n, GetFilename(req.subtitle[i])>> = target(n + i)
    <3> TAKE i \in 1 .. m
    <3>1. i = 1 /\ n + i - 1 = n
      BY <2>3
    <3>2. n + i \in 1 .. n + m
      OBVIOUS
    <3>3. f[n + i] = req.subtitle[i] /\ ~f[n + i].slash
      BY <2>4, <3>2
    <3> QED BY <3>1, <3>3 DEF GetFilename
  <2>8. reads = {ImagePaths(req)[i] : i \in 1 .. n} \cup
                {<<n, GetFilename(req.subtitle[i])>> : i \in 1 .. m}
    BY <2>1, <2>2 DEF ScriptReads, SubtitlePaths
  <2>9. reads = {target(i) : i \in 1 .. n} \cup {target(n + i) : i \in 1 .. m}
    BY <2>6, <2>7, <2>8
  <2>10. \A i \in 1 .. n + m : i \in 1 .. n \/ \E j \in 1 .. m : i = n + j
    <3> TAKE i \in 1 .. n + m
    <3>1. CASE i <= n
      BY <3>1
    <3>2. CASE i > n
      <4>1. i - n \in 1 .. m /\ i = n + (i - n)
        BY <3>2
      <4> QED BY <4>1
    <3> QED BY <3>1, <3>2
  <2>11. \A j \in 1 .. m : n + j \in 1 .. n + m
    OBVIOUS
  <2>12. \A i \in 1 .. n : i \in 1 .. n + m
    OBVIOUS
  <2> HIDE DEF target
  <2>13. mounts \subseteq reads
    <3> SUFFICES ASSUME NEW i \in 1 .. n + m PROVE target(i) \in reads
      BY <2>5
    <3>1. CASE i \in 1 .. n
      BY <2>9, <3>1
    <3>2. CASE \E j \in 1 .. m : i = n + j
      BY <2>9, <3>2
    <3> QED BY <2>10, <3>1, <3>2
  <2>14. reads \subseteq mounts
    BY <2>5, <2>9, <2>11, <2>12
  <2> QED BY <2>13, <2>14
<1> QED BY <1>1, Invariance, PTL

\* A success that is told has delivered what the call was for.
THEOREM Delivers == Spec => []SuccessDelivers
<1>1. IInv => SuccessDelivers
  <2> SUFFICES ASSUME IInv, ToldSuccess PROVE Whole
    BY DEF SuccessDelivers
  <2>1. call = "answered"
    BY DEF IInv, CallInv, ToldSuccess, NoAnswer
  <2>2. Complete /\ req \in RequestType
    BY <2>1 DEF IInv, CallInv, TypeOK
  <2>3. req.tool \in {"audio", "video"} => Made # {}
    BY <2>2 DEF Complete, CheckPasses
  <2> QED BY <2>2, <2>3, VideoWhole, SlidesWhole, SelectionExact
       DEF Whole, Complete
<1> QED BY <1>1, Invariance, PTL

\* Count mode, for every length of the video, every estimate of it, every
\* number asked for and however many copies ffmpeg makes: what it gives is
\* numbered without a gap, enough of it where the estimate is not too high, in
\* the order of the video, and from no further than the estimate.
THEOREM FramesSampled == Spec => []FramesAsAsked
<1>1. IInv => FramesAsAsked
  <2> SUFFICES ASSUME IInv PROVE FramesAsAsked
    OBVIOUS
  <2>1. call # "idle" /\ req.quality \in 1 .. 100 => QScale(req.quality) \in 2 .. 31
    BY QScaleRange
  <2>2. ToldSuccess => Complete /\ req \in RequestType
    <3>1. ToldSuccess => call = "answered"
      BY DEF IInv, CallInv, ToldSuccess, NoAnswer
    <3> QED BY <3>1 DEF IInv, CallInv, TypeOK
  <2> QED BY <2>1, <2>2, FramesWhole DEF FramesAsAsked
<1> QED BY <1>1, Invariance, PTL
=============================================================================
