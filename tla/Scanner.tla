-------------------------------- MODULE Scanner --------------------------------
(***************************************************************************)
(* The malware scanner of scanner/clamav.go: what one scan answers, given  *)
(* how the two ClamAV programs ended.  The only state, available, is set   *)
(* once by NewScanner; it belongs to the module that uses the scanner.     *)
(***************************************************************************)

CONSTANTS ScanEnabled,   \* Config.Enabled
          FailOpen       \* Config.FailOpen

ASSUME ScannerAssumption == ScanEnabled \in BOOLEAN /\ FailOpen \in BOOLEAN

\* How a run of clamdscan or clamscan ends: exit status 0, 1 or 2, any other
\* *exec.ExitError (another status, or -1 for a run killed by a signal), or
\* the program could not be run at all.
ExitStatus == {"zero", "one", "two", "other", "norun"}

\* The results, by the fields of ScanResult that callers read.
Skipped  == [clean |-> TRUE,  error |-> FALSE, scanned |-> FALSE]
Refused  == [clean |-> FALSE, error |-> TRUE,  scanned |-> FALSE]
Infected == [clean |-> FALSE, error |-> FALSE, scanned |-> TRUE]
Clean    == [clean |-> TRUE,  error |-> FALSE, scanned |-> TRUE]

\* checkAvailability: ClamAV is available if either program ran "--version"
\* at start-up.  It never looks again.
CheckAvailability(clamdscanRan, clamscanRan) ==
  ScanEnabled /\ (clamdscanRan \/ clamscanRan)

\* What one program's exit status stands for.  An ExitError with any other
\* status than 1 and 2 falls through to the clean result.
RunResult(status) ==
  CASE status = "one"             -> Infected
    [] status \in {"two", "norun"} -> Refused
    [] OTHER                      -> Clean

\* Mutant of Scan: what clamdscan did not find clean, clamscan scans again.
ScanAgainUnlessClean(available, daemon, standalone) ==
  CASE ~ScanEnabled                          -> Skipped
    [] ScanEnabled /\ ~available /\ FailOpen  -> Skipped
    [] ScanEnabled /\ ~available /\ ~FailOpen -> Refused
    [] ScanEnabled /\ available              ->
         IF ~RunResult(daemon).clean THEN RunResult(standalone)
                                     ELSE RunResult(daemon)

\* Scan: clamdscan first; clamscan decides when clamdscan failed.
Scan(available, daemon, standalone) ==
  CASE ~ScanEnabled                          -> Skipped
    [] ScanEnabled /\ ~available /\ FailOpen  -> Skipped
    [] ScanEnabled /\ ~available /\ ~FailOpen -> Refused
    [] ScanEnabled /\ available              ->
         IF RunResult(daemon).error THEN RunResult(standalone)
                                    ELSE RunResult(daemon)

\* Ghost: the exit statuses of the programs that a scan ran on the file.
Runs(available, daemon, standalone) ==
  CASE ~(ScanEnabled /\ available) -> {}
    [] RunResult(daemon).error     -> {daemon, standalone}
    [] OTHER                       -> {daemon}
=============================================================================
