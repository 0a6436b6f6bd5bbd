--------------------------- MODULE PoseDiagnostics --------------------------
(***************************************************************************)
(* PoseTfDiagnostics of pose_tf_diagnostics.hpp: when the bridge tells the *)
(* operator that optimized poses are refused or accepted again.  Time is   *)
(* the steady clock in seconds.                                            *)
(***************************************************************************)
EXTENDS SteadyClock, Sequences, FiniteSets

CONSTANTS
  Period,      \* 60 s in the code
  Settled,     \* 5 s in the code
  MaxSamples   \* bound: samples between two reports

ASSUME DiagnosticsAssumption ==
  Period \in Nat /\ Settled \in Nat /\ MaxSamples \in Nat

VARIABLES
  last_report, healthy_since, accepted, rejected, failure_pending,
  report,       \* what the last call of Observe returned
  lastRejected, \* history: time of the latest rejection
  deserved,     \* history: a sample was rejected after the latest "resumed"
  heard,        \* history: [time, ok] of the samples not yet in a report
  reports       \* history: times of the reports

diagnosticsVars == <<last_report, healthy_since, accepted, rejected, failure_pending,
                     report, lastRejected, deserved, heard, reports>>

Silence == [kind |-> "none"]

DiagnosticsInit ==
  /\ last_report = Never /\ healthy_since = Never
  /\ accepted = 0 /\ rejected = 0
  /\ failure_pending = FALSE
  /\ report = Silence
  /\ lastRejected = Never /\ deserved = FALSE
  /\ heard = << >> /\ reports = << >>

NewDiagnostics ==
  /\ last_report' = Never /\ healthy_since' = Never
  /\ accepted' = 0 /\ rejected' = 0
  /\ failure_pending' = FALSE
  /\ report' = Silence
  /\ lastRejected' = Never /\ deserved' = FALSE
  /\ heard' = << >> /\ reports' = << >>

-----------------------------------------------------------------------------
\* Mutated form of HealthySince: a rejection does not interrupt the recovery.
HealthySinceFirst(ok) ==
  IF ok /\ healthy_since = Never THEN now ELSE healthy_since

HealthySince(ok) ==
  IF ~ok THEN Never ELSE IF healthy_since = Never THEN now ELSE healthy_since

\* Mutated form of Due: the interval is not looked at.
DueAtOnce(ok) == failure_pending \/ ~ok

\* Mutated form of Due: an accepted sample is never a reason to report.
DueOnFailure(ok) == ~ok /\ Elapsed(last_report, Period)

Due(ok) ==
  /\ failure_pending \/ ~ok
  /\ Elapsed(last_report, Period)

Recovered(ok) == ok /\ now - HealthySince(ok) >= Settled

\* Mutated form of Kept: the counts run on after a report.
KeptAll(n, reported) == n

Pending(ok, resumed) == (failure_pending \/ ~ok) /\ ~resumed
Kept(n, reported) == IF reported THEN 0 ELSE n

Observe(ok) ==
  LET reported == Due(ok) /\ (ok => Recovered(ok))
      resumed == reported /\ ok
      good == accepted + IF ok THEN 1 ELSE 0
      bad == rejected + IF ok THEN 0 ELSE 1
      samples == Append(heard, [time |-> now, ok |-> ok])
  IN  /\ accepted + rejected < MaxSamples
      /\ healthy_since' = HealthySince(ok)
      /\ failure_pending' = Pending(ok, resumed)
      /\ last_report' = IF reported THEN now ELSE last_report
      /\ accepted' = Kept(good, reported)
      /\ rejected' = Kept(bad, reported)
      /\ report' = IF reported
                     THEN [kind |-> IF resumed THEN "resumed" ELSE "rejected",
                           accepted |-> good, rejected |-> bad,
                           samples |-> samples, deserved |-> deserved]
                     ELSE Silence
      /\ lastRejected' = IF ok THEN lastRejected ELSE now
      /\ deserved' = ((deserved \/ ~ok) /\ ~resumed)
      /\ heard' = IF reported THEN << >> ELSE samples
      /\ reports' = IF reported THEN Append(reports, now) ELSE reports

-----------------------------------------------------------------------------
Latest(s) == s[Len(s)]
Counted(samples, ok) == Cardinality({i \in DOMAIN samples : samples[i].ok = ok})

(***************************************************************************)
(* The counts of a report are those of all the samples since the report    *)
(* before it (docs/TF.md: "accepted/rejected optimized-pose counts since   *)
(* the preceding report").                                                 *)
(***************************************************************************)
CountsExact ==
  report # Silence =>
    /\ report.accepted = Counted(report.samples, TRUE)
    /\ report.rejected = Counted(report.samples, FALSE)

(***************************************************************************)
(* docs/TF.md: reports "are limited to one per 60 seconds", whatever their *)
(* kinds and however the samples oscillate.                                *)
(***************************************************************************)
ReportsSpaced ==
  \A i \in 1 .. Len(reports) - 1 : reports[i + 1] - reports[i] >= Period

(***************************************************************************)
(* And the limit withholds no more than that (docs/TF.md: the first        *)
(* rejection "is reported immediately").  When the latest sample was not   *)
(* reported, there is nothing to tell since the last recovery; or a report *)
(* is less than Period old; or the samples are accepted again, but not for *)
(* Settled seconds yet.                                                    *)
(***************************************************************************)
Settling ==
  /\ Latest(heard).ok
  /\ \A i \in DOMAIN heard :
       (\A k \in i .. Len(heard) : heard[k].ok) => Latest(heard).time - heard[i].time < Settled

NothingWithheld ==
  heard # << >> /\ deserved =>
    \/ reports # << >> /\ Latest(heard).time - Latest(reports) < Period
    \/ Settling

(***************************************************************************)
(* docs/TF.md: "Recovery ... requires five seconds of uninterrupted        *)
(* acceptance", and there is something to recover from: since the last     *)
(* recovery was announced a sample was rejected, and none in the last      *)
(* Settled seconds.                                                        *)
(***************************************************************************)
RecoveryIsReal ==
  report.kind = "resumed" => report.deserved /\ now - lastRejected >= Settled
=============================================================================
