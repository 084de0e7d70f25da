---------------------------- MODULE TimelyGeneration ----------------------------
(***************************************************************************)
(* TopicGeneration under the pace the heartbeat gives it: an attempt that  *)
(* is alive issues a statement at least every Pace ticks, well inside the  *)
(* stale window (HEARTBEAT_INTERVAL_MS is a quarter of it).                *)
(***************************************************************************)
EXTENDS TopicGeneration

CONSTANT Pace

\* HEARTBEAT_INTERVAL_MS is a quarter of OPERATION_HEARTBEAT_STALE_AFTER_MS, so
\* two intervals fit in the window: an attempt whose operation fails may be
\* quiet for one of them before the failure and for another before its release.
ASSUME PaceIsWellInside == Pace \in Nat /\ 2 * Pace <= StaleAfter

VARIABLE quiet     \* ticks since each live attempt's last statement

timelyVars == <<vars, quiet>>

TimelyInit == Init /\ quiet = [t \in Token |-> 0]

TimelyTick ==
  /\ \A t \in Token : Live(t) => quiet[t] < Pace
  /\ Tick
  /\ quiet' = [t \in Token |-> IF Live(t) THEN quiet[t] + 1 ELSE 0]

\* SaveDomain stamps updated_at, which the operation row hides: the heartbeat
\* keeps its own pace through it.
TimelyAttempt(t) ==
  \/ Advance(t) /\ quiet' = [quiet EXCEPT ![t] = 0]
  \/ Touch(t) /\ quiet' = [quiet EXCEPT ![t] = 0]
  \/ Progress(t) /\ quiet' = [quiet EXCEPT ![t] = 0]
  \/ SaveDomain(t) /\ UNCHANGED quiet

\* A crashed attempt issues nothing more, at no pace.
TimelySupervisor(p) ==
  /\ Supervisor(p)
  /\ quiet' = [t \in Token |-> IF pc'[t] = "done" THEN 0 ELSE quiet[t]]

TimelyNext == \/ Learner /\ UNCHANGED quiet
              \/ \E p \in Process : TimelySupervisor(p)
              \/ \E t \in Token : TimelyAttempt(t)
              \/ TimelyTick

TimelySpec == TimelyInit /\ [][TimelyNext]_timelyVars

\* The staleness predicate never takes a row from an attempt that keeps pace:
\* neither while its operation row is still missing, nor across the switch to
\* the study_items operation, nor when a reap, a Retry or another row's request
\* comes between.  (An attempt in its last best-effort write may have published
\* or failed its row already.)
HealthyAttemptKeepsItsClaim ==
  \A t \in Token : Live(t) /\ pc[t] # "broken" => Owns(t)
=============================================================================
