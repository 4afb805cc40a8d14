------------------------------ MODULE DockerImage ------------------------------
(***************************************************************************)
(* EnsureImageAsync of executor/docker.go: goroutines that look for the    *)
(* image, pull or build it, and publish the outcome under the mutex mu in  *)
(* imageReady or imageErr, which ExecuteScript reads.                      *)
(***************************************************************************)

CONSTANT Preparers    \* goroutines started by EnsureImageAsync

VARIABLES prep,           \* where each goroutine is
          failed,         \* goroutines whose local err is set
          imageChecked,
          imageReady,
          imageErr,       \* whether imageErr is set
          imagePresent    \* the daemon has the image

imageVars == <<prep, failed, imageChecked, imageReady, imageErr, imagePresent>>

\* inspecting  past imageChecked, before ImageInspectWithRaw
\* preparing   the image was not found, pullImage or buildImage to be called
\* prepared    pullImage or buildImage returned, mu not yet taken
Prep == {"started", "inspecting", "preparing", "prepared", "ended"}

ImageTypeOK ==
  /\ prep \in [Preparers -> Prep]
  /\ failed \subseteq Preparers
  /\ imageChecked \in BOOLEAN
  /\ imageReady \in BOOLEAN
  /\ imageErr \in BOOLEAN
  /\ imagePresent \in BOOLEAN

\* A new process has checked nothing; the daemon may have the image or not.
ImageInit ==
  /\ prep = [p \in Preparers |-> "started"]
  /\ failed = {}
  /\ imageChecked = FALSE
  /\ imageReady = FALSE
  /\ imageErr = FALSE
  /\ imagePresent \in BOOLEAN

\* The process dies and is started again: only the daemon remembers.
ImageRestart ==
  /\ prep' = [p \in Preparers |-> "started"]
  /\ failed' = {}
  /\ imageChecked' = FALSE
  /\ imageReady' = FALSE
  /\ imageErr' = FALSE
  /\ UNCHANGED imagePresent

-----------------------------------------------------------------------------
\* Under mu: only the first goroutine goes on.  Mutant: all of them do.
CheckAlways(p) ==
  /\ prep[p] = "started"
  /\ prep' = [prep EXCEPT ![p] = "inspecting"]
  /\ imageChecked' = TRUE
  /\ UNCHANGED <<failed, imageReady, imageErr, imagePresent>>

CheckOnce(p) ==
  /\ prep[p] = "started"
  /\ prep' = [prep EXCEPT ![p] = IF imageChecked THEN "ended"
                                                 ELSE "inspecting"]
  /\ imageChecked' = TRUE
  /\ UNCHANGED <<failed, imageReady, imageErr, imagePresent>>

\* ImageInspectWithRaw.  An error of the daemon counts as "not found".
Inspect(p) ==
  /\ prep[p] = "inspecting"
  /\ \/ /\ imagePresent
        /\ imageReady' = TRUE
        /\ prep' = [prep EXCEPT ![p] = "ended"]
     \/ /\ prep' = [prep EXCEPT ![p] = "preparing"]
        /\ UNCHANGED imageReady
  /\ UNCHANGED <<failed, imageChecked, imageErr, imagePresent>>

\* pullImage or buildImage up to the daemon's answer to the request: no
\* Dockerfile, daemon unreachable, deadline passed.
PrepareRefused(p) ==
  /\ prep[p] = "preparing"
  /\ prep' = [prep EXCEPT ![p] = "prepared"]
  /\ failed' = failed \cup {p}
  /\ UNCHANGED <<imageChecked, imageReady, imageErr, imagePresent>>

\* The daemon reports progress and errors in the body, which is read to its
\* end and discarded: both functions return nil whether or not there is an
\* image at the end.
PrepareStreamed(p) ==
  /\ prep[p] = "preparing"
  /\ prep' = [prep EXCEPT ![p] = "prepared"]
  /\ imagePresent' \in {imagePresent, TRUE}
  /\ UNCHANGED <<failed, imageChecked, imageReady, imageErr>>

\* Under mu: the outcome.  Mutant: the error is only logged.
PublishLogsOnly(p) ==
  /\ prep[p] = "prepared"
  /\ prep' = [prep EXCEPT ![p] = "ended"]
  /\ imageReady' = (imageReady \/ p \notin failed)
  /\ UNCHANGED <<failed, imageChecked, imageErr, imagePresent>>

Publish(p) ==
  /\ prep[p] = "prepared"
  /\ prep' = [prep EXCEPT ![p] = "ended"]
  /\ imageErr' = (imageErr \/ p \in failed)
  /\ imageReady' = (imageReady \/ p \notin failed)
  /\ UNCHANGED <<failed, imageChecked, imagePresent>>

-----------------------------------------------------------------------------
Prepare(p) ==
  \/ CheckOnce(p)
  \/ Inspect(p)
  \/ PrepareRefused(p)
  \/ PrepareStreamed(p)
  \/ Publish(p)

ImageNext == \E p \in Preparers : Prepare(p)

\* The ten minutes of the context end every call to the daemon.
ImageFairness == \A p \in Preparers : WF_imageVars(Prepare(p))

-----------------------------------------------------------------------------
(* Properties *)

\* One goroutine at most is at work, and only before there is an outcome; the
\* outcome is success or failure and never both, so a tool call that saw the
\* image ready never sees an error later (docker.go:102-135, 204-208).
OneVerdict ==
  /\ ~(imageReady /\ imageErr)
  /\ \A p \in Preparers :
       prep[p] \in {"inspecting", "preparing", "prepared"} =>
         /\ ~imageReady /\ ~imageErr
         /\ \A q \in Preparers \ {p} : prep[q] \in {"started", "ended"}

\* An outcome stands as long as the process lives: no later goroutine takes
\* back "ready", clears an error or adds one, whatever the daemon answers to it
\* (docker.go:93-135, 202-208).  Only a new process, which has checked nothing,
\* starts over.
VerdictStands ==
  [][imageReady \/ imageErr =>
       \/ UNCHANGED <<imageReady, imageErr>>
       \/ ~imageChecked']_imageVars

\* Tool calls are not told "still being prepared" for ever: there is an
\* outcome at some time (docker.go:212-218).
ImageSettles == <>(imageReady \/ imageErr)

\* docker.go:203: "IsImageReady returns whether the Docker image is ready".
ReadyMeansPresent == imageReady => imagePresent
=============================================================================
