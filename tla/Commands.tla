------------------------------- MODULE Commands -------------------------------
(***************************************************************************)
(* executor/commands.go: what the generated shell scripts do.  A script is *)
(* given by the container paths it reads and by its plan: the pieces of    *)
(* output it makes, in order, with a mark on those it keeps.               *)
(*                                                                         *)
(* ffmpeg, ffprobe, bc, LibreOffice and pdftoppm are not part of the       *)
(* repository; a request r carries what they find in its input:            *)
(*   r.frames, r.estimate   frames of the video; what DURATION * FPS gives *)
(*   r.rate, r.last         images ffmpeg writes for a second; for what it *)
(*                          takes for the last second                      *)
(*   r.picked               the frames a filter other than count picks     *)
(*   r.pages, r.renderer    pages of the presentation; what renders them   *)
(*   r.clip                 whether the clip has anything in it            *)
(***************************************************************************)
EXTENDS Integers, Sequences

Kept(piece) == [piece |-> piece, keep |-> TRUE]

Least(a, b) == IF a < b THEN a ELSE b

-----------------------------------------------------------------------------
(* Audio: one file, which is there before it is whole, and also where the   *)
(* clip has nothing in it                                                   *)

AudioPlan(r) == IF r.clip THEN <<Kept(<<1, 1>>), Kept(<<2, 2>>)>> ELSE <<Kept(<<1, 1>>)>>

-----------------------------------------------------------------------------
(* Frames.  The k-th image of a plan is <<k, frame it shows>>. *)

\* Go's integer division rounds towards zero.
GoDiv(a, b) == IF a >= 0 THEN a \div b ELSE -((-a) \div b)

QScale(quality) == GoDiv((100 - quality) * 29, 100) + 2

\* Mutant: an interval of zero, when more frames are wanted than there are,
\* is not raised; the filter then selects nothing.
IntervalUnbounded(total, count) == total \div count

Interval(total, count) == IF total \div count < 1 THEN 1 ELSE total \div count

\* select='not(mod(n,INTERVAL))',setpts=N/TB with -frames:v, the param: the
\* picked frames come a second apart, and as nothing says "-vsync vfr" here the
\* second is filled with copies, before the images are counted.
Taken(r, interval) ==
  LET picked  == IF interval = 0 THEN 0
                 ELSE (r.frames + interval - 1) \div interval
      images  == IF picked = 0 THEN 0 ELSE (picked - 1) * r.rate + r.last
      nth(k)  == Least((k - 1) \div r.rate, picked - 1)
  IN  [k \in 1 .. Least(images, r.param) |-> Kept(<<k, nth(k) * interval>>)]

FramesPlan(r) ==
  IF r.mode = "count"
  THEN Taken(r, Interval(r.estimate, r.param))
  ELSE [k \in 1 .. Len(r.picked) |-> Kept(<<k, r.picked[k]>>)]

\* A parameter the shell or ffmpeg cannot compute with: zero, negative, or no
\* number at all, which stands here as zero; a fraction, with which ffmpeg can
\* compute an interval and the shell no count, stands as a positive number or as
\* zero.  keyframes does not use it.
ParamRefused(r) == r.tool = "frames" /\ r.mode # "keyframes" /\ r.param < 1

-----------------------------------------------------------------------------
(* Video: the concat list, a line and a duration per image, in order, and   *)
(* the last image once more, which shows nothing by itself                  *)

ConcatList(paths) == IF paths = <<>> THEN <<>> ELSE Append(paths, paths[Len(paths)])

VideoPlan(paths) ==
  [k \in 1 .. Len(ConcatList(paths)) |->
     [piece |-> <<k, ConcatList(paths)[k]>>, keep |-> k <= Len(paths)]]

-----------------------------------------------------------------------------
(* Slides *)

\* pdftoppm -png writes png, -jpeg writes jpg; ffmpeg writes what is asked.
Extension(r) == IF r.renderer = "pdftoppm" /\ r.format # "png" THEN "jpg" ELSE r.format

\* slide*.fmt and slide-*.fmt: the names begin with "slide-", so each pattern
\* finds every page, in page order as the numbers are padded.
Globbed(r) ==
  LET matched == IF Extension(r) = r.format THEN r.pages ELSE 0
  IN  [k \in 1 .. 2 * matched |-> IF k <= matched THEN k ELSE k - matched]

\* grep -q ",k,": a number with a blank before it is never found.
Wanted(r, k) == r.all \/ k \in r.plain

\* Mutant: only exported slides are counted, so numbers are those of the
\* selection and not of the presentation.
SlidesPlanRenumbered(r) ==
  LET chosen == SelectSeq(Globbed(r), LAMBDA page : Wanted(r, page))
  IN  [k \in 1 .. Len(chosen) |-> Kept(<<k, chosen[k]>>)]

SlidesPlan(r) ==
  [k \in 1 .. Len(Globbed(r)) |->
     [piece |-> <<k, Globbed(r)[k]>>, keep |-> Wanted(r, k)]]
===============================================================================
