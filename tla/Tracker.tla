------------------------------ MODULE Tracker ------------------------------
(***************************************************************************)
(* What Ingest promises, as if it were one thread with three atomic steps  *)
(* for a window: judge it against the windows before it and log it, report *)
(* it to the events, and sound the alarm if the anomaly persists.  Nothing *)
(* is said of statements, mutexes or requests.                             *)
(***************************************************************************)
EXTENDS Domain

VARIABLES
  mode,     \* mode[s]: absent, healthy (enabled or observing) or degraded
  log,      \* log[s]: the judged windows of s, by number: status, anomaly, sample
  pending,  \* pending[s]: the judged window not yet reported, or 0
  alarm,    \* alarm[s]: a persistent anomaly is reported, the source not degraded
  reports   \* reports[s]: the events of s, oldest first: level (minor, persistent or
            \* closed), anomaly, first and last number, count

trackerVars == <<mode, log, pending, alarm, reports>>

Init ==
  /\ mode    = [s \in Sources |-> "absent"]
  /\ log     = [s \in Sources |-> <<>>]
  /\ pending = [s \in Sources |-> 0]
  /\ alarm   = [s \in Sources |-> FALSE]
  /\ reports = [s \in Sources |-> <<>>]

Register(s) ==
  /\ mode[s] = "absent"
  /\ mode' = [mode EXCEPT ![s] = "healthy"]
  /\ UNCHANGED <<log, pending, alarm, reports>>

\* The n newest windows of s.
Newest(s, n) == {q \in DOMAIN log[s] : Cardinality({r \in DOMAIN log[s] : r > q}) < n}

\* A window with a number above all others is judged by its sample and by those of
\* the newest windows: one at least, Lookback if that is more.
Judge(s, q, x) ==
  LET earlier == {log[s][r].sample : r \in Newest(s, 1) \cup Newest(s, Lookback)}
      replay  == IsReplay(x, earlier)
      entry   == [status |-> ResolvedStatus(replay, x),
                  anomaly |-> ResolvedAnomaly(replay, x), sample |-> x]
  IN  /\ mode[s] # "absent"
      /\ pending[s] = 0 /\ ~alarm[s]
      /\ x \in WellSized
      /\ \A r \in DOMAIN log[s] : r < q
      /\ log' = [log EXCEPT ![s] = [r \in DOMAIN @ \cup {q} |-> IF r = q THEN entry ELSE @[r]]]
      /\ pending' = [pending EXCEPT ![s] = q]
      /\ UNCHANGED <<mode, alarm, reports>>

-----------------------------------------------------------------------------
(* Reporting *)

OpenReports(s) == {i \in DOMAIN reports[s] : reports[s][i].level # "closed"}

\* A valid window closes the open event, unless it is persistent.
Settle(s) ==
  /\ log[s][pending[s]].status = "valid"
  /\ reports' = [reports EXCEPT ![s] =
                   [i \in DOMAIN @ |-> IF @[i].level = "minor"
                                       THEN [@[i] EXCEPT !.level = "closed"] ELSE @[i]]]
  /\ UNCHANGED alarm

\* The anomalous windows at the end of the log, as far as the query goes.
AnomalousTail(s) ==
  LET recent == Newest(s, PersistentThreshold + 2)
  IN  {q \in recent : \A r \in recent : r >= q => log[s][r].status # "valid"}

\* An anomalous window extends the open event to the run it ends, or opens one.
Extend(s) ==
  LET run == AnomalousTail(s)
      persists == Cardinality(run) >= PersistentThreshold
      event(level) == [level |-> IF persists THEN "persistent" ELSE level,
                       anomaly |-> log[s][pending[s]].anomaly,
                       first |-> CHOOSE q \in run : \A r \in run : q <= r,
                       last |-> pending[s], count |-> Cardinality(run)]
  IN  /\ log[s][pending[s]].status # "valid"
      /\ \/ \E i \in OpenReports(s) :
              reports' = [reports EXCEPT ![s][i] = event(@.level)]
         \/ /\ OpenReports(s) = {}
            /\ reports' = [reports EXCEPT ![s] = Append(@, event("minor"))]
      /\ alarm' = [alarm EXCEPT ![s] = persists /\ mode[s] = "healthy"]

ReportWindow(s) ==
  /\ pending[s] # 0
  /\ Settle(s) \/ Extend(s)
  /\ pending' = [pending EXCEPT ![s] = 0]
  /\ UNCHANGED <<mode, log>>

Degrade(s) ==
  /\ alarm[s]
  /\ mode'  = [mode EXCEPT ![s] = "degraded"]
  /\ alarm' = [alarm EXCEPT ![s] = FALSE]
  /\ UNCHANGED <<log, pending, reports>>

Next ==
  \E s \in Sources :
    \/ Register(s) \/ ReportWindow(s) \/ Degrade(s)
    \/ \E q \in Seqs, x \in Samples : Judge(s, q, x)

Spec == Init /\ [][Next]_trackerVars
=============================================================================
