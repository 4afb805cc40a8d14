----------------------------- MODULE MCMediaServer -----------------------------
(* A small instance of MediaServer. *)
EXTENDS MediaServer

Spelled(w) == {Written(w), [word |-> w, lower |-> FALSE]}

Plain == [MAX_WORKERS |-> Unreadable, EXECUTION_TIMEOUT |-> Unreadable,
          NETWORK_DISABLED |-> Unset, TRANSPORT |-> Unset,
          SCAN_UPLOADS |-> Unset, SCAN_ON_FAIL |-> Unset, OUTPUT_DIR |-> Unset]

\* Every spelling of every policy, scanning or not; and each other variable
\* out of line, with both transports.
EnvironmentsUsed ==
  {[Plain EXCEPT !.SCAN_UPLOADS = s, !.SCAN_ON_FAIL = p, !.TRANSPORT = Written("http")] :
     s \in {Unset, Written("yes")} \cup Spelled("true"),
     p \in {Unset, Written("reject"), Written("maybe")} \cup Spelled("allow")}
  \cup
  {[Plain EXCEPT !.TRANSPORT = t, !.MAX_WORKERS = w, !.NETWORK_DISABLED = n] :
     t \in {Unset, Written("ftp")} \cup Spelled("http"),
     w \in {Unreadable, <<-1>>, <<0>>, <<2>>},
     n \in {Unset, Written("1"), Written("no")}}
  \cup
  {[Plain EXCEPT !.EXECUTION_TIMEOUT = d, !.OUTPUT_DIR = Written(o)] :
     d \in {Unreadable, <<0>>, <<5>>}, o \in {"", "/out"}}

File == [name |-> "a", slash |-> FALSE, upload |-> FALSE, there |-> TRUE]
Other == [File EXCEPT !.name = "b"]

InputsUsed ==
  {<<>>, <<File>>, <<[File EXCEPT !.slash = TRUE]>>, <<[File EXCEPT !.upload = TRUE]>>,
   <<[File EXCEPT !.there = FALSE]>>, <<[File EXCEPT !.upload = TRUE, !.there = FALSE]>>}

Base0 == [tool |-> "audio", files |-> <<File>>, subtitle |-> <<>>, mode |-> "",
          param |-> <<>>, quality |-> <<>>, format |-> "", all |-> TRUE, asked |-> {},
          plain |-> {}, frames |-> 0, estimate |-> 0, rate |-> 1, last |-> 1,
          picked |-> <<>>, pages |-> 0,
          renderer |-> "pdftoppm", clip |-> TRUE]

AudioUsed == {[Base0 EXCEPT !.files = f, !.clip = c] : f \in InputsUsed, c \in BOOLEAN}

FramesUsed ==
  {[Base0 EXCEPT !.tool = "frames", !.mode = "count", !.param = <<n>>, !.frames = f,
                 !.estimate = e, !.rate = x[1], !.last = x[2]] :
     n \in 0 .. 5, f \in 0 .. 8, e \in 0 .. 8 \cup {300},
     x \in {<<1, 1>>, <<2, 1>>, <<2, 2>>, <<30, 5>>}}
  \cup
  {[Base0 EXCEPT !.tool = "frames", !.mode = m, !.param = n, !.quality = q, !.picked = <<0, 2>>] :
     m \in {"", "keyframes", "every"}, n \in {<<>>, <<0>>, <<2>>},
     q \in {<<>>, <<1>>, <<100>>, <<130>>}}

VideoUsed ==
  {[Base0 EXCEPT !.tool = "video", !.files = f, !.subtitle = s] :
     f \in {<<>>, <<File>>, <<File, Other>>, <<Other, File, Other>>},
     s \in {<<>>, <<File>>, <<[Other EXCEPT !.slash = TRUE]>>}}

SlidesUsed ==
  {[Base0 EXCEPT !.tool = "slides", !.pages = n, !.all = (a = {}), !.asked = a,
                 !.plain = a \ b, !.format = f, !.renderer = r] :
     n \in 0 .. 3, a \in {{}, {2}, {1, 3}, {4}}, b \in {{}, {3}},
     f \in Formats \cup {""}, r \in {"pdftoppm", "ffmpeg"}}

RequestsUsed ==
  AudioUsed \cup FramesUsed \cup VideoUsed \cup SlidesUsed \cup
  {[Base0 EXCEPT !.tool = "pptaudio", !.picked = p] : p \in {<<>>, <<1, 2>>}}
================================================================================
