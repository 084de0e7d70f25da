----------------------------- MODULE ClaimAdmission -----------------------------
(***************************************************************************)
(* One admitBatch of claims: every target of every candidate is put before *)
(* two judges over independently planned samples, in waves.  In a wave a   *)
(* request goes through three roles, each with a limiter of its own and a  *)
(* stage bracket around it; the first failure aborts all three.            *)
(*                                                                         *)
(* JavaScript runs the continuations of one answer to their end before it  *)
(* takes the next one, so a step is an answer, or the end of a write to    *)
(* the timeline, with everything that follows from it.  A limiter that is  *)
(* given more tasks than it expects cannot arise and is left out.          *)
(***************************************************************************)
EXTENDS Integers, FiniteSets, Sequences, SequencesExt

CONSTANTS Samples,   \* verificationSampleCount
          Quorum,    \* verificationRejectionSampleQuorum
          Cap        \* verificationExecution: the concurrency of each role

Judge == 1 .. 2      \* factualityJudgments

Role == {"planning", "answering", "judgment"}

ASSUME AdmissionPolicy ==
  /\ Samples \in Nat /\ Quorum \in 2 .. Samples
  /\ Cap \in [Role -> Nat \ {0}]

VARIABLES sets,       \* the number of targets of each candidate of the batch
          objections, \* what the judges will reject: candidate, target, sample, judge
          samples,    \* the judgments recorded so far
          wave,       \* the requests of this wave
          queue, running, done, \* of each limiter
          judged,     \* the judgments of this wave
          lost,       \* the requests whose packet was rejected
          failure,    \* firstFailure
          limiter,    \* whether each limiter has settled
          bracket,    \* the stage bracket of each role
          batch,      \* how far the batch has come
          faults      \* bound: the calls and writes that may still fail

pipeVars == <<queue, running, done, judged, lost, failure, limiter, bracket>>
claimVars == <<sets, objections, samples, wave, pipeVars, batch, faults>>

NoFailure == [role |-> "none", kind |-> "none"]

All(value) == [x \in Role |-> value]

-----------------------------------------------------------------------------
(* Samples and verdicts. *)

Of(c, t, found) == {v \in found : v.candidate = c /\ v.target = t}

Rejections(c, t, j, found) == Cardinality({v \in Of(c, t, found) : v.judge = j /\ v.rejected})

MutantVeto(c, t, found) ==  \* the panel is counted as one
  Cardinality({v \in Of(c, t, found) : v.rejected}) >= Quorum

\* One judge has replicated its own rejection.
ClaimVetoed(c, t, found) == \E j \in Judge : Rejections(c, t, j, found) >= Quorum

\* unresolvedTargetIndexes: an objection nobody has replicated yet.
Unresolved(c, found) ==
  {t \in 1 .. sets[c] : (\E v \in Of(c, t, found) : v.rejected) /\ ~ClaimVetoed(c, t, found)}

\* The indexes of a set, in their order.
Ascending(S) ==
  CHOOSE q \in [1 .. Cardinality(S) -> S] : \A i, j \in 1 .. Cardinality(S) : i < j => q[i] < q[j]

Request(c, s, targets) == [candidate |-> c, sample |-> s, targets |-> targets]

FirstWave(counts) ==
  [i \in 1 .. Quorum * Len(counts) |->
     LET c == ((i - 1) \div Quorum) + 1
     IN  Request(c, ((i - 1) % Quorum) + 1, [t \in 1 .. counts[c] |-> t])]

\* Only what is unresolved is sampled again, each candidate by one request.
NextWave(s, found) ==
  LET asked == Ascending({c \in 1 .. Len(sets) : Unresolved(c, found) # {}})
  IN  [i \in 1 .. Len(asked) |-> Request(asked[i], s, Ascending(Unresolved(asked[i], found)))]

MutantPanel(r, v) ==  \* recorded under its index in the request
  [candidate |-> wave[r].candidate, target |-> v.target, sample |-> wave[r].sample,
   judge |-> v.judge, rejected |-> v.rejected]

\* A verdict goes to the target of the claim set its request index stands for.
Panel(r, v) ==
  [candidate |-> wave[r].candidate, target |-> wave[r].targets[v.target],
   sample |-> wave[r].sample, judge |-> v.judge, rejected |-> v.rejected]

Recorded == samples \cup {Panel(v.request, v) : v \in judged}

\* requireTargetPanelSamples, and the last check of aggregateVerificationSamples.
PanelsAreComplete(c, t, found) ==
  \E k \in Quorum .. Samples :
    /\ {<<v.sample, v.judge>> : v \in Of(c, t, found)} = (1 .. k) \X Judge
    /\ t \in Unresolved(c, found) => k = Samples

-----------------------------------------------------------------------------
(* The limiters. *)

\* A judgment has its target and its judge; the other tasks are the request's.
Whole(r) == <<r, 0, 0>>

Judgments(r) ==
  LET n == Cardinality(Judge)
  IN  [i \in 1 .. n * Len(wave[r].targets) |-> <<r, ((i - 1) \div n) + 1, ((i - 1) % n) + 1>>]

JudgmentTasks == UNION {ToSet(Judgments(r)) : r \in 1 .. Len(wave)}

\* expectedTaskCount
Expected(x) == IF x = "judgment" THEN Cardinality(JudgmentTasks) ELSE Len(wave)

MutantImpatient(x) ==  \* what is in flight is not waited for
  IF limiter[x] # "open" THEN limiter[x]
  ELSE IF failure' # NoFailure THEN "rejected"
  ELSE IF done'[x] = Expected(x) THEN "resolved" ELSE "open"

\* settleIfReady: after a failure as soon as nothing is in flight.
LimiterSettled(x) ==
  IF limiter[x] # "open" THEN limiter[x]
  ELSE IF failure' # NoFailure THEN IF running'[x] = {} THEN "rejected" ELSE "open"
  ELSE IF done'[x] = Expected(x) THEN "resolved" ELSE "open"

Settle == limiter' = [x \in Role |-> LimiterSettled(x)]

MutantBlame(x, kind) == [role |-> x, kind |-> kind]  \* the last failure is thrown

\* fail: the first failure stands.
Blame(x, kind) == IF failure = NoFailure THEN [role |-> x, kind |-> kind] ELSE failure

\* pump: each limiter starts what its cap allows.
Pump(waiting, busy) ==
  LET free(x)  == Cap[x] - Cardinality(busy[x])
      start(x) == IF free(x) < Len(waiting[x]) THEN free(x) ELSE Len(waiting[x])
  IN  /\ running' = [x \in Role |-> busy[x] \cup ToSet(SubSeq(waiting[x], 1, start(x)))]
      /\ queue' = [x \in Role |-> SubSeq(waiting[x], start(x) + 1, Len(waiting[x]))]

Retired(x, job) == [running EXCEPT ![x] = @ \ {job}]

\* fail, abort: every queued task is refused, and its packet with it.
AbortRoles(x, kind, hit) ==
  /\ failure' = Blame(x, kind)
  /\ lost' = lost \cup {job[1] : job \in hit \cup UNION {ToSet(queue[y]) : y \in Role}}
  /\ queue' = All(<<>>) /\ running' = [running EXCEPT ![x] = @ \ hit]

Fault == faults > 0 /\ faults' = faults - 1

\* A task of role x is done and schedules tasks of the role that follows.
Passed(x, job, next, jobs) ==
  /\ job \in running[x] /\ batch = "flowing"
  /\ done' = [done EXCEPT ![x] = @ + 1]
  /\ \/ failure = NoFailure /\ Pump([queue EXCEPT ![next] = @ \o jobs], Retired(x, job)) /\ lost' = lost
     \/ failure # NoFailure /\ running' = Retired(x, job) /\ queue' = queue
        /\ lost' = lost \cup (IF jobs = <<>> THEN {} ELSE {job[1]})
  /\ UNCHANGED failure
  /\ Settle
  /\ UNCHANGED <<sets, objections, samples, wave, bracket, batch, faults>>

Plan(r) == Passed("planning", Whole(r), "answering", <<Whole(r)>>) /\ UNCHANGED judged

Answer(r) == Passed("answering", Whole(r), "judgment", Judgments(r)) /\ UNCHANGED judged

JudgeTarget(r, t, j) ==
  LET asked == <<wave[r].candidate, wave[r].targets[t], wave[r].sample, j>>
  IN  /\ Passed("judgment", <<r, t, j>>, "judgment", <<>>)
      /\ judged' = judged \cup {[request |-> r, target |-> t, judge |-> j, rejected |-> asked \in objections]}

\* A call that throws, or whose answer does not pass its validation.
CallFails(x, job) ==
  /\ job \in running[x] /\ batch = "flowing" /\ Fault
  /\ done' = [done EXCEPT ![x] = @ + 1]
  /\ AbortRoles(x, "own", {job}) /\ Settle
  /\ UNCHANGED <<sets, objections, samples, wave, judged, bracket, batch>>

-----------------------------------------------------------------------------
(* The stage brackets. *)

InWave == batch \in {"opening", "flowing"}

Bracket(x, from, to) == InWave /\ bracket[x] = from /\ bracket' = [bracket EXCEPT ![x] = to]

EnterStage(x) ==
  /\ batch = "opening" /\ Bracket(x, "entering", "entered")
  /\ UNCHANGED <<sets, objections, samples, wave, queue, running, done, judged, lost, failure, limiter, batch, faults>>

\* Once all three have been entered, or have failed to be, the packets start.
Release ==
  /\ batch = "opening" /\ batch' = "flowing"
  /\ \A x \in Role : bracket[x] # "entering"
  /\ \/ failure = NoFailure /\ lost' = lost
        /\ Pump([queue EXCEPT !["planning"] = [r \in 1 .. Len(wave) |-> Whole(r)]], running)
     \/ failure # NoFailure /\ lost' = 1 .. Len(wave) /\ UNCHANGED <<queue, running>>
  /\ UNCHANGED <<sets, objections, samples, wave, done, judged, failure, limiter, bracket, faults>>

CloseStage(x) ==
  /\ limiter[x] = "resolved" /\ Bracket(x, "entered", "closed")
  /\ UNCHANGED <<sets, objections, samples, wave, queue, running, done, judged, lost, failure, limiter, batch, faults>>

\* The bracket of an aborted limiter fails with what the limiter was given.
CloseAborted(x) ==
  /\ limiter[x] = "rejected" /\ Bracket(x, "entered", "broken")
  /\ UNCHANGED done
  /\ AbortRoles(x, IF failure.role = x THEN failure.kind ELSE "upstream", {}) /\ Settle
  /\ UNCHANGED <<sets, objections, samples, wave, judged, batch, faults>>

\* A write to the timeline that fails, on the way in or on the way out.
StageFails(x) ==
  /\ \/ batch = "opening" /\ Bracket(x, "entering", "broken")
     \/ limiter[x] = "resolved" /\ Bracket(x, "entered", "broken")
  /\ Fault
  /\ UNCHANGED done
  /\ AbortRoles(x, "own", {}) /\ Settle
  /\ UNCHANGED <<sets, objections, samples, wave, judged, batch>>

-----------------------------------------------------------------------------
(* Waves. *)

Rested == /\ queue = All(<<>>) /\ running = All({}) /\ done = All(0)
          /\ judged = {} /\ lost = {} /\ limiter = All("open")

OpenWave(requests) ==
  /\ wave' = requests /\ batch' = "opening"
  /\ queue' = All(<<>>) /\ done' = All(0) /\ judged' = {} /\ lost' = {}
  /\ limiter' = All("open") /\ bracket' = All("entering")
  /\ UNCHANGED <<running, failure>>

\* A packet has failed, or has all its judgments.
PacketSettled(r) ==
  \/ r \in lost
  \/ Cardinality({v \in judged : v.request = r}) = Len(Judgments(r))

WaveIsOver ==
  /\ batch = "flowing"
  /\ \A x \in Role : bracket[x] \in {"closed", "broken"}
  /\ \A r \in 1 .. Len(wave) : PacketSettled(r)

ThrowFailure ==
  /\ WaveIsOver /\ failure # NoFailure
  /\ batch' = "thrown"
  /\ UNCHANGED <<sets, objections, samples, wave, pipeVars, faults>>

SampleAgain ==
  LET s == wave[Len(wave)].sample + 1
  IN  /\ WaveIsOver /\ failure = NoFailure
      /\ samples' = Recorded
      /\ s <= Samples /\ NextWave(s, Recorded) # <<>>
      /\ OpenWave(NextWave(s, Recorded))
      /\ UNCHANGED <<sets, objections, faults>>

\* aggregateVerificationSamples throws where the panels are not complete.
ReturnJudgments ==
  LET s == wave[Len(wave)].sample + 1
      complete == \A c \in 1 .. Len(sets) : \A t \in 1 .. sets[c] : PanelsAreComplete(c, t, Recorded)
  IN  /\ WaveIsOver /\ failure = NoFailure
      /\ samples' = Recorded
      /\ s > Samples \/ NextWave(s, Recorded) = <<>>
      /\ batch' = IF complete THEN "returned" ELSE "thrown"
      /\ failure' = IF complete THEN failure ELSE [role |-> "batch", kind |-> "internal"]
      /\ UNCHANGED <<sets, objections, wave, queue, running, done, judged, lost, limiter, bracket, faults>>

ClaimsIdle(allowed) ==
  /\ sets = <<>> /\ objections = {} /\ samples = {} /\ wave = <<>>
  /\ Rested /\ failure = NoFailure /\ bracket = All("closed")
  /\ batch = "idle" /\ faults = allowed

\* admitBatch: an empty one is inert.
AdmitBatch(counts, doubts) ==
  /\ batch = "idle" /\ sets' = counts /\ objections' = doubts
  /\ IF counts = <<>> THEN batch' = "returned" /\ UNCHANGED <<wave, pipeVars>>
     ELSE OpenWave(FirstWave(counts))
  /\ UNCHANGED <<samples, faults>>

ClaimNext ==
  \/ \E r \in 1 .. Len(wave) :
       \/ Plan(r) \/ Answer(r)
       \/ \E t \in 1 .. Len(wave[r].targets), j \in Judge : JudgeTarget(r, t, j)
  \/ \E x \in Role :
       \/ \E job \in running[x] : CallFails(x, job)
       \/ EnterStage(x) \/ CloseStage(x) \/ CloseAborted(x) \/ StageFails(x)
  \/ Release \/ ThrowFailure \/ SampleAgain \/ ReturnJudgments

-----------------------------------------------------------------------------
(* Correctness. *)

\* When a wave is over, or the batch has returned or thrown, no paid call is
\* in flight and no stage is open: an attempt that fails is not overlapped by
\* calls of its own, and no stage is entered twice at once.
NothingOutlivesItsWave ==
  batch \in {"opening", "returned", "thrown"} =>
    /\ running = All({})
    /\ batch # "opening" => \A x \in Role : bracket[x] # "entered"

\* What a batch throws is the failure of a call or of a write, never the abort
\* it caused in another role nor a panel the sampling left incomplete: the
\* supervisor tells a transient failure by it.
RootCauseIsThrown == batch = "thrown" => failure.kind = "own"

\* What the judges would have settled over every sample, although most targets
\* are never put before them again.
FullyVetoed(c, t) ==
  \E j \in Judge : Cardinality({s \in 1 .. Samples : <<c, t, s, j>> \in objections}) >= Quorum
=============================================================================
