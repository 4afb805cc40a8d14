-------------------------------- MODULE Config --------------------------------
(***************************************************************************)
(* config/config.go: what LoadFromEnv makes of the environment, and what   *)
(* Validate accepts of it.                                                 *)
(*                                                                         *)
(* A text is its word in lower case with a mark that says whether it is    *)
(* written so.  A number or a duration is the sequence of what was read:   *)
(* empty when the variable is unset or cannot be parsed, which the code    *)
(* does not tell apart.                                                    *)
(***************************************************************************)
EXTENDS Integers, Sequences

Written(word) == [word |-> word, lower |-> TRUE]
Unset         == Written("")
Unreadable    == <<>>

Texts(words) == [word : words, lower : BOOLEAN]

-----------------------------------------------------------------------------
(* Reading one variable over its default *)

ReadText(v, default) == IF v.word = "" THEN default ELSE v.word

\* Anything but true, in any case, and 1 is false: an unknown word too.
ReadTruth(v, default) ==
  IF v.word = "" THEN default ELSE v.word \in {"true", "1"}

\* Zero and negative numbers leave the default, like unreadable ones.  Mutant:
\* they are taken.
ReadPositiveAny(v, default) == IF v # Unreadable THEN v[1] ELSE default

ReadPositive(v, default) ==
  IF v # Unreadable /\ v[1] > 0 THEN v[1] ELSE default

\* A duration that can be parsed is taken, zero and negative ones included.
ReadDuration(v, default) == IF v # Unreadable THEN v[1] ELSE default

DefaultConfig ==
  [MaxWorkers |-> 5, ExecutionTimeout |-> 300, NetworkDisabled |-> TRUE,
   Transport |-> "stdio", ScanUploads |-> FALSE, ScanOnFail |-> "reject",
   OutputDir |-> ""]

\* The variables the other modules take as constants are read in the same ways.
LoadFromEnv(c, env) ==
  [MaxWorkers       |-> ReadPositive(env.MAX_WORKERS, c.MaxWorkers),
   ExecutionTimeout |-> ReadDuration(env.EXECUTION_TIMEOUT, c.ExecutionTimeout),
   NetworkDisabled  |-> ReadTruth(env.NETWORK_DISABLED, c.NetworkDisabled),
   Transport        |-> ReadText(env.TRANSPORT, c.Transport),
   ScanUploads      |-> ReadTruth(env.SCAN_UPLOADS, c.ScanUploads),
   ScanOnFail       |-> ReadText(env.SCAN_ON_FAIL, c.ScanOnFail),
   OutputDir        |-> ReadText(env.OUTPUT_DIR, c.OutputDir)]

-----------------------------------------------------------------------------

\* Mutant: the policy for a scanner that fails is taken as it comes.
ValidateAnyPolicy(cfg) ==
  /\ cfg.MaxWorkers >= 1
  /\ cfg.Transport \in {"stdio", "http"}

Validate(cfg) ==
  /\ cfg.MaxWorkers >= 1
  /\ cfg.Transport \in {"stdio", "http"}
  /\ cfg.ScanOnFail \in {"reject", "allow"}

\* entrypoint.sh compares the variable with the one spelling.
EntrypointStartsClamd(env) == env.SCAN_UPLOADS = Written("true")
===============================================================================
