------------------------------- MODULE Domain -------------------------------
(***************************************************************************)
(* The vocabulary of internal/model: the states of a source, a window, an  *)
(* event and a snapshot, the predicates that guard their transitions, and  *)
(* what the pure package internal/health tells the rest of the service     *)
(* about a sample.  Nothing here changes state.                            *)
(***************************************************************************)
EXTENDS Integers, Sequences, FiniteSets

CONSTANTS
  Sources,     \* registrable entropy sources: one per (name, device) pair
  Samples,     \* byte samples, up to equality of their SHA-256
  WellSized,   \* the samples whose length is in [MinWindowBytes, MaxWindowBytes]
  Degenerate,  \* the samples DetectRepetition flags on their own (score > 0.9)
  FailedBy,    \* FailedBy[x]: the test categories sample x fails
  MaxSeq,      \* bound: the largest window sequence number a client sends
  PersistentThreshold,  \* correlate.Policy (3 in DefaultPolicy)
  Lookback,    \* how many earlier hashes a sample is compared with (8)
  None         \* a value that is no source, no sample and no request

Seqs == 1..MaxSeq

\* The four statistical tests, in the order RunStatisticalTests runs them, and
\* in the order "ORDER BY category" returns their rows.
RunOrder   == <<"monobit", "runs", "poker", "longrun">>
AlphaOrder == <<"longrun", "monobit", "poker", "runs">>
Categories == {"monobit", "runs", "poker", "longrun"}

ASSUME DomainAssumption ==
  /\ MaxSeq \in Nat \ {0}
  /\ PersistentThreshold \in Nat \ {0}
  /\ Lookback \in Nat
  /\ WellSized \subseteq Samples
  /\ Degenerate \subseteq Samples
  /\ FailedBy \in [Samples -> SUBSET Categories]
  /\ None \notin Sources
  /\ None \notin Samples

-----------------------------------------------------------------------------
(* Sources *)

SourceStates == {"enabled", "observing", "degraded", "isolated", "sealed"}

\* The states each operation of the state machine may leave from.
DegradableStates  == {"observing"}
IsolatableStates  == {"enabled", "observing", "degraded"}
SealableStates    == SourceStates \ {"sealed"}
RecoverableAnyState == SourceStates   \* variant: the check of the state left out
RecoverableStates == {"degraded", "isolated"}

(* Windows.  "none" stands for a (source, seq) that has no row. *)

WindowStatuses == {"new", "valid", "repeat_anomaly", "stat_anomaly"}
Anomalies == Categories \cup {"replay"}

WindowRow == [status  : WindowStatuses \cup {"none"},
              anomaly : Anomalies \cup {""},
              sample  : Samples \cup {None}]

NoWindow == [status |-> "none", anomaly |-> "", sample |-> None]

(* Events *)

EventStates == {"candidate", "transient", "persistent", "confirmed", "closed"}

\* CanConfirm and CanClose of a health event.
ConfirmableStates == {"candidate", "transient", "persistent"}
ClosableStates    == {"confirmed"}

EventRow == [state        : EventStates,
             anomaly      : Anomalies \cup {""},
             firstSeq     : Seqs,
             lastSeq      : Seqs,
             windowCount  : Nat,
             afterRestart : BOOLEAN,
             confirmedAt  : BOOLEAN,   \* whether the column is non-NULL
             closedAt     : BOOLEAN]

(* Snapshots *)

SnapshotStates == {"draft", "published", "superseded"}

-----------------------------------------------------------------------------
(* What internal/health says of a sample. *)

\* FirstFailing: the first of the failed categories in the given order.
FirstFailing(order, failed) ==
  order[CHOOSE i \in 1..Len(order) :
          order[i] \in failed /\ \A j \in 1..(i - 1) : order[j] \notin failed]

\* The status the statistical tests alone give a window with these failures,
\* and the anomaly recorded beside it.
StatStatus(failed) == IF failed = {} THEN "valid" ELSE "stat_anomaly"
StatAnomaly(order, failed) ==
  IF failed = {} THEN "" ELSE FirstFailing(order, failed)

\* DetectRepetition: a sample is a replay when its hash is one of those read
\* back, or when it is degenerate in itself.
IsReplay(sample, hashes) == sample \in hashes \/ sample \in Degenerate

\* resolveStatus: a replay outweighs whatever the statistical tests say.
ResolvedStatus(replay, sample) ==
  IF replay THEN "repeat_anomaly" ELSE StatStatus(FailedBy[sample])
ResolvedAnomaly(replay, sample) ==
  IF replay THEN "replay" ELSE StatAnomaly(RunOrder, FailedBy[sample])
=============================================================================
