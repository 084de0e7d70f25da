----------------------------- MODULE ScaffoldDetour -----------------------------
(***************************************************************************)
(* Scaffold detours of one learner: the rows of learner_scaffold_detours   *)
(* with their steps, the operation_runs rows of type 'scaffold', the claim *)
(* supervisors of the learner-api processes and the attempts they launch.  *)
(*                                                                         *)
(* A SQL statement, or a transaction on one locked row, is one step.  The  *)
(* claim installs one id as latest_operation_id and as claim_token: the    *)
(* first names the operation whose heartbeat keeps the claim, the second   *)
(* is the fence, and the two are cleared at different moments.             *)
(***************************************************************************)
EXTENDS Integers, FiniteSets, FiniteSetsExt

CONSTANTS Detour,        \* possible (enrichment, parent, term) keys of the learner
          Process,       \* learner-api processes
          Token,         \* operation ids: one per claim, never reused
          NoToken,       \* SQL NULL in latest_operation_id or claim_token
          NoDetour, NoProcess,
          Pin,           \* (node, lesson, item) triples a reference step can pin
          Outline,       \* what generation can settle on: sets of step records
          MaxAttempts,   \* MAX_GENERATION_ATTEMPTS
          MaxConcurrent, \* MAX_CONCURRENT_GENERATIONS
          StaleAfter     \* OPERATION_HEARTBEAT_STALE_AFTER_MS, in ticks

ASSUME DetourSentinels ==
  NoToken \notin Token /\ NoDetour \notin Detour /\ NoProcess \notin Process

ASSUME DetourLimits ==
  MaxAttempts \in Nat /\ MaxConcurrent \in Nat /\ StaleAfter \in Nat

\* A generated step names its attempt in `by` and pins nothing; a reference
\* step names the attempt that published it, or none when a request did.
Step == [ordinal : Nat, by : Token \cup {NoToken}, pin : Pin \cup {NoToken}]

\* An outline gives ordinals from 0 on, without gap, and at least one step.
ASSUME OutlineIsOrdered ==
  \A o \in Outline : /\ o # {} /\ IsFiniteSet(o) /\ o \subseteq Step
                     /\ {s.ordinal : s \in o} = 0..(Cardinality(o) - 1)

VARIABLES detour,     \* the rows and their steps
          run,        \* the operation_runs row of each operation id
          pc, of, on, \* each attempt's next statement, its detour, its process
          sup,        \* each process's supervisor
          latest,     \* history: each detour's last claim since its last restart
          restarts,   \* history: Retry restarts of each detour
          budget      \* bounds: requests, retries and faults still allowed

detourVars == <<detour, run, pc, of, on, sup, latest, restarts, budget>>

-----------------------------------------------------------------------------
(* Rows and timestamps.  A timestamp is its age, up to StaleAfter + 1.     *)

Null == -1
Old == StaleAfter + 1
Stamp == {Null} \cup (0..Old)
Aged(s) == IF s \in {Null, Old} THEN s ELSE s + 1

Status == {"absent", "generating", "ready", "failed", "hidden"}

DetourRow == [status : Status, op : Token \cup {NoToken}, token : Token \cup {NoToken},
              attempts : 0..MaxAttempts, claimed : Stamp, updated : Stamp, steps : SUBSET Step]

Absent == [status |-> "absent", op |-> NoToken, token |-> NoToken, attempts |-> 0,
           claimed |-> Null, updated |-> 0, steps |-> {}]

\* run[t].beat is last_progress_at; "none": beginOperation has not inserted it.
NoRun == [status |-> "none", beat |-> Null]

Evidence(r) == IF r.op = NoToken \/ run[r.op].status = "none" THEN r.updated ELSE run[r.op].beat

MutantStaleness(r) ==      \* NULL < staleBefore is not true in SQL
  r.status = "generating" /\ r.claimed > StaleAfter /\ Evidence(r) > StaleAfter

GeneratingStaleness(r) ==
  /\ r.status = "generating"
  /\ \/ r.claimed = Null
     \/ r.claimed > StaleAfter /\ Evidence(r) > StaleAfter

MutantClaimable(d) == GeneratingStaleness(detour[d])     \* whatever it has cost

Claimable(d) == GeneratingStaleness(detour[d]) /\ detour[d].attempts < MaxAttempts

Exhausted(d) == GeneratingStaleness(detour[d]) /\ detour[d].attempts >= MaxAttempts

-----------------------------------------------------------------------------
(* What each statement makes of the row it writes. *)

Touched(r) == [r EXCEPT !.updated = 0]

\* INSERT ... ON CONFLICT DO NOTHING, then the restore of a hidden row, which
\* keeps its attempts, its claim time and its last operation.
PendingRow(r) ==
  CASE r.status = "absent" -> [Absent EXCEPT !.status = "generating"]
    [] r.status = "hidden" -> [Touched(r) EXCEPT !.status = IF r.steps = {} THEN "generating" ELSE "ready"]
    [] OTHER -> r

NextOrdinal(steps) == IF steps = {} THEN 0 ELSE Max({s.ordinal : s \in steps}) + 1

WithReference(steps, p) ==
  IF \E s \in steps : s.pin = p THEN steps
  ELSE steps \cup {[ordinal |-> NextOrdinal(steps), by |-> NoToken, pin |-> p]}

MutantReferencedRow(r, p) ==   \* the fence of an attempt in flight is kept
  [Touched(r) EXCEPT !.steps = WithReference(r.steps, p)]

\* upsertReadyReference: whatever the status was, the row is ready, and a
\* generated attempt in flight loses its fence.
ReferencedRow(r, p) ==
  [Touched(r) EXCEPT !.status = "ready", !.token = NoToken, !.claimed = Null,
                     !.steps = WithReference(r.steps, p)]

ClaimedRow(r, t) ==
  [Touched(r) EXCEPT !.op = t, !.token = t, !.claimed = 0, !.attempts = @ + 1]

PublishedRow(r, new) ==
  [Touched(r) EXCEPT !.status = "ready", !.token = NoToken, !.steps = r.steps \cup new]

MutantReleasedRow(r) ==     \* the attempt is given back with the claim
  [Touched(r) EXCEPT !.token = NoToken, !.claimed = Null, !.attempts = @ - 1]

\* No backoff: the released row can be claimed again at once.
ReleasedRow(r) == [Touched(r) EXCEPT !.token = NoToken, !.claimed = Null]

FailedRow(r) == [Touched(r) EXCEPT !.status = "failed", !.token = NoToken]

ExhaustedRow(r) == [FailedRow(r) EXCEPT !.claimed = Null]

RestartedRow(r) ==
  [Touched(r) EXCEPT !.status = "generating", !.op = NoToken, !.token = NoToken,
                     !.claimed = Null, !.attempts = 0]

HiddenRow(r) == [Touched(r) EXCEPT !.status = "hidden", !.token = NoToken]

-----------------------------------------------------------------------------
(* Frames. *)

Fault == budget.faults > 0 /\ budget' = [budget EXCEPT !.faults = @ - 1]
Asked == budget.requests > 0 /\ budget' = [budget EXCEPT !.requests = @ - 1]

GoTo(t, s) == /\ pc' = [pc EXCEPT ![t] = s]
              /\ on' = IF s = "done" THEN [on EXCEPT ![t] = NoProcess] ELSE on
              /\ UNCHANGED of

AttemptFrame == UNCHANGED <<sup, latest, restarts>>
RequestFrame == UNCHANGED <<run, pc, of, on, sup, latest, restarts>>
SupervisorFrame == UNCHANGED <<latest, restarts>>

Row(t) == detour[of[t]]

MutantHolds(t) == Row(t).status = "generating"     \* the token is not compared

\* The condition of publishReady, releaseClaim and markFailed.
Holds(t) == Row(t).status = "generating" /\ Row(t).token = t

WriteRow(t, r) == detour' = [detour EXCEPT ![of[t]] = r]

-----------------------------------------------------------------------------
(* One attempt.  begin inserts the operation, verify compares the claim,   *)
(* work reads the Study Session and generates; broken is the best-effort   *)
(* markFailed, and finish the best-effort completeOperation of a failure.  *)

AttemptState == {"fresh", "begin", "verify", "work", "broken", "finish", "complete", "done"}

\* A rejected begin leaves no terminal write: the claim stays until it is stale.
Begin(t) ==
  /\ pc[t] = "begin"
  /\ \/ run' = [run EXCEPT ![t] = [status |-> "running", beat |-> 0]] /\ GoTo(t, "verify") /\ UNCHANGED budget
     \/ Fault /\ GoTo(t, "done") /\ UNCHANGED run
  /\ UNCHANGED detour /\ AttemptFrame

Verify(t) ==
  /\ pc[t] = "verify"
  /\ \/ GoTo(t, IF Holds(t) THEN "work" ELSE "finish") /\ UNCHANGED budget
     \/ Fault /\ GoTo(t, "finish")
  /\ UNCHANGED <<detour, run>> /\ AttemptFrame

\* Stage boundaries always stamp the operation; the 30 s touch only an open one.
Heartbeat(t) ==
  /\ pc[t] = "work"
  /\ run' = [run EXCEPT ![t].beat = 0]
  /\ UNCHANGED <<detour, pc, of, on, budget>> /\ AttemptFrame

StepsOf(t, outline) == {[s EXCEPT !.by = t] : s \in outline}

\* publishReady, one transaction.  Without the fence it writes nothing; when it
\* is rejected, committed or not, the error is no infrastructure exhaustion.
Publish(t, outline) ==
  /\ pc[t] = "work"
  /\ \/ Holds(t) /\ WriteRow(t, PublishedRow(Row(t), StepsOf(t, outline))) /\ GoTo(t, "complete") /\ UNCHANGED budget
     \/ ~Holds(t) /\ UNCHANGED <<detour, budget>> /\ GoTo(t, "finish")
     \/ Fault /\ Holds(t) /\ WriteRow(t, PublishedRow(Row(t), StepsOf(t, outline))) /\ GoTo(t, "broken")
  /\ UNCHANGED run /\ AttemptFrame

\* A stage failed for good, no safe step survived, or a statement was rejected.
WorkFails(t) ==
  /\ pc[t] = "work" /\ GoTo(t, "broken")
  /\ UNCHANGED <<detour, run, budget>> /\ AttemptFrame

BestEffort(t, r) ==
  /\ \/ Holds(t) /\ WriteRow(t, r) /\ UNCHANGED budget
     \/ ~Holds(t) /\ UNCHANGED <<detour, budget>>
     \/ Fault /\ UNCHANGED detour
  /\ GoTo(t, "finish") /\ UNCHANGED run /\ AttemptFrame

\* Every try of a call ended in a network failure, a timeout, a 429 or a 5xx.
Release(t) == pc[t] = "work" /\ BestEffort(t, ReleasedRow(Row(t)))

MarkFailed(t) == pc[t] = "broken" /\ BestEffort(t, FailedRow(Row(t)))

MutantEnded(t) == "succeeded"      \* the finally block of an older wrapper

Ended(t) == IF pc[t] = "complete" THEN "succeeded" ELSE "failed"

\* completeOperation, which does not look at the status it overwrites.
Complete(t) ==
  /\ pc[t] \in {"complete", "finish"}
  /\ \/ run' = [run EXCEPT ![t] = [status |-> Ended(t), beat |-> 0]] /\ UNCHANGED budget
     \/ Fault /\ UNCHANGED run
  /\ GoTo(t, "done") /\ UNCHANGED detour /\ AttemptFrame

Advance(t) == \/ Begin(t) \/ Verify(t) \/ WorkFails(t) \/ Release(t) \/ MarkFailed(t)
              \/ Complete(t) \/ \E o \in Outline : Publish(t, o)

-----------------------------------------------------------------------------
(* The supervisor of a process. *)

Reaped(o) == IF o.status = "running" /\ o.beat > StaleAfter
             THEN [status |-> "failed", beat |-> 0] ELSE o

\* failStaleOperations, which a pass begins with.
StartPass(p) ==
  /\ sup[p] = "idle" /\ sup' = [sup EXCEPT ![p] = "exhaust"]
  /\ run' = [t \in Token |-> Reaped(run[t])]
  /\ UNCHANGED <<detour, pc, of, on, budget>> /\ SupervisorFrame

FailExhausted(p) ==
  /\ sup[p] = "exhaust"
  /\ detour' = [d \in Detour |-> IF Exhausted(d) THEN ExhaustedRow(detour[d]) ELSE detour[d]]
  /\ sup' = [sup EXCEPT ![p] = "claim"]
  /\ UNCHANGED <<run, pc, of, on, budget>> /\ SupervisorFrame

HasRoom(p) == Cardinality({t \in Token : on[t] = p}) < MaxConcurrent

\* The claim is delivered to an attempt, or its answer is lost with the pass.
Claim(p, d, t) ==
  /\ sup[p] = "claim" /\ HasRoom(p) /\ Claimable(d) /\ pc[t] = "fresh"
  /\ detour' = [detour EXCEPT ![d] = ClaimedRow(@, t)]
  /\ of' = [of EXCEPT ![t] = d]
  /\ latest' = [latest EXCEPT ![d] = t]
  /\ \/ /\ pc' = [pc EXCEPT ![t] = "begin"]
        /\ on' = [on EXCEPT ![t] = p]
        /\ UNCHANGED <<sup, budget>>
     \/ /\ Fault
        /\ pc' = [pc EXCEPT ![t] = "done"]
        /\ sup' = [sup EXCEPT ![p] = "idle"]
        /\ UNCHANGED on
  /\ UNCHANGED <<run, restarts>>

PassEnds(p) ==
  /\ sup[p] = "claim"
  /\ ~HasRoom(p) \/ \A d \in Detour : ~Claimable(d)
  /\ sup' = [sup EXCEPT ![p] = "idle"]
  /\ UNCHANGED <<detour, run, pc, of, on, budget>> /\ SupervisorFrame

\* A rejected statement ends the pass; the interval is the retry.
PassFails(p) ==
  /\ sup[p] \in {"exhaust", "claim"} /\ Fault
  /\ sup' = [sup EXCEPT ![p] = "idle"]
  /\ UNCHANGED <<detour, run, pc, of, on>> /\ SupervisorFrame

\* The attempts of a dead process run no more; its pool is empty when it is back.
Crash(p) ==
  /\ sup[p] # "down" /\ Fault
  /\ sup' = [sup EXCEPT ![p] = "down"]
  /\ pc' = [t \in Token |-> IF on[t] = p THEN "done" ELSE pc[t]]
  /\ on' = [t \in Token |-> IF on[t] = p THEN NoProcess ELSE on[t]]
  /\ UNCHANGED <<detour, run, of>> /\ SupervisorFrame

Restart(p) ==
  /\ sup[p] = "down" /\ sup' = [sup EXCEPT ![p] = "idle"]
  /\ UNCHANGED <<detour, run, pc, of, on, budget>> /\ SupervisorFrame

-----------------------------------------------------------------------------
(* The learner's requests on a detour. *)

\* upsertPending; in any other status the row is answered as it is.
Request(d) ==
  /\ detour[d].status \in {"absent", "hidden"} /\ Asked
  /\ detour' = [detour EXCEPT ![d] = PendingRow(@)]
  /\ RequestFrame

Retry(d) ==
  /\ detour[d].status = "failed"
  /\ budget.retries > 0 /\ budget' = [budget EXCEPT !.retries = @ - 1]
  /\ detour' = [detour EXCEPT ![d] = RestartedRow(@)]
  /\ latest' = [latest EXCEPT ![d] = NoToken]
  /\ restarts' = [restarts EXCEPT ![d] = @ + 1]
  /\ UNCHANGED <<run, pc, of, on, sup>>

Hide(d) ==
  /\ detour[d].status \in {"ready", "failed"} /\ Asked
  /\ detour' = [detour EXCEPT ![d] = HiddenRow(@)]
  /\ RequestFrame

\* The write of upsertReadyReference; who may publish which pin is the caller's.
PublishReference(d, p) ==
  /\ detour' = [detour EXCEPT ![d] = ReferencedRow(@, p)]
  /\ RequestFrame /\ UNCHANGED budget

Tick ==
  /\ detour' = [d \in Detour |-> [detour[d] EXCEPT !.claimed = Aged(@), !.updated = Aged(@)]]
  /\ run' = [t \in Token |-> [run[t] EXCEPT !.beat = Aged(@)]]
  /\ UNCHANGED <<pc, of, on, sup, latest, restarts, budget>>

-----------------------------------------------------------------------------
DetourInit(bounds) ==
  /\ detour = [d \in Detour |-> Absent]
  /\ run = [t \in Token |-> NoRun]
  /\ pc = [t \in Token |-> "fresh"]
  /\ of = [t \in Token |-> NoDetour]
  /\ on = [t \in Token |-> NoProcess]
  /\ sup = [p \in Process |-> "idle"]
  /\ latest = [d \in Detour |-> NoToken]
  /\ restarts = [d \in Detour |-> 0]
  /\ budget = bounds

Supervisor(p) == \/ StartPass(p) \/ FailExhausted(p) \/ PassEnds(p) \/ PassFails(p)
                 \/ Crash(p) \/ Restart(p)
                 \/ \E d \in Detour, t \in Token : Claim(p, d, t)

DetourNext == \/ \E p \in Process : Supervisor(p)
              \/ \E t \in Token : Advance(t) \/ Heartbeat(t)
              \/ \E d \in Detour : Request(d) \/ Retry(d) \/ Hide(d)
              \/ Tick

\* Passes run, a dead process is restarted, statements answer, calls time out
\* and time passes.  Nothing is asked of learners, heartbeats or faults.
DetourFairness ==
  /\ WF_detourVars(Tick)
  /\ \A p \in Process : /\ WF_detourVars(StartPass(p)) /\ WF_detourVars(FailExhausted(p)) /\ WF_detourVars(Restart(p))
                        /\ WF_detourVars(PassEnds(p) \/ \E d \in Detour, t \in Token : Claim(p, d, t))
  /\ \A t \in Token : WF_detourVars(Advance(t))

-----------------------------------------------------------------------------
(* Correctness. *)

DetourTypeOK ==
  /\ detour \in [Detour -> DetourRow]
  /\ run \in [Token -> [status : {"none", "running", "failed", "succeeded"}, beat : Stamp]]
  /\ pc \in [Token -> AttemptState]
  /\ of \in [Token -> Detour \cup {NoDetour}]
  /\ on \in [Token -> Process \cup {NoProcess}]
  /\ sup \in [Process -> {"down", "idle", "exhaust", "claim"}]
  /\ latest \in [Detour -> Token \cup {NoToken}]
  /\ restarts \in [Detour -> Nat]

\* A detour has content exactly when it is ready, or hidden after it was: no
\* interleaving of an attempt, a reference and a restore leaves a ready detour
\* empty, or generates again where the learner has already studied steps.
ContentMatchesStatus ==
  \A d \in Detour :
    /\ detour[d].status = "ready" => detour[d].steps # {}
    /\ detour[d].steps # {} => detour[d].status \in {"ready", "hidden"}

\* The steps of a detour are numbered without gap or repeat, and those of
\* attempts come from one of them, the last that was claimed: an attempt that
\* was overtaken, by a newer one or by a reference, adds nothing.
StepsAreOneAttempts ==
  \A d \in Detour : LET S == detour[d].steps IN
    /\ {s.ordinal : s \in S} = 0..(Cardinality(S) - 1)
    /\ \A s \in S : s.by # NoToken => s.by = latest[d]

\* Claims of one detour are bounded by its restarts: hiding it and asking for
\* it again, a release without backoff or a lost claim buys no attempt.
DetourSpendIsBounded ==
  \A d \in Detour : Cardinality({t \in Token : of[t] = d}) <= MaxAttempts * (1 + restarts[d])

\* An operation that is reported succeeded has published its detour, even when
\* a reap had already reported it failed.
SuccessWasPublished ==
  \A t \in Token : run[t].status = "succeeded" => \E s \in Row(t).steps : s.by = t

\* A requested detour reaches an outcome the learner can see.
DetourSettles ==
  \A d \in Detour : detour[d].status = "generating" ~> detour[d].status # "generating"

=============================================================================
