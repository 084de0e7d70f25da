---------------------------- MODULE TopicGeneration ----------------------------
(***************************************************************************)
(* Generation of Topic Expeditions: the rows of learner_expeditions, the   *)
(* learner's requests on them, the claim supervisors of the learner-api    *)
(* processes, and the attempts those supervisors launch.                   *)
(*                                                                         *)
(* A row is claimed by one UPDATE that installs a fresh operation id; this *)
(* id is the fence every later write of the attempt is conditional on.  A  *)
(* SQL statement is one step.  Between two statements anything may happen: *)
(* another process claims, a learner presses Retry, a process dies, a      *)
(* statement fails, or commits and loses its reply.                        *)
(*                                                                         *)
(* Time is kept as the age of each timestamp, in ticks, up to StaleAfter+1.*)
(* A pass of the code computes its cut-off once and may use it a statement *)
(* later; here every statement compares ages at the moment it runs.        *)
(***************************************************************************)
EXTENDS Integers, FiniteSets

CONSTANTS Expedition,      \* rows of learner_expeditions of kind 'topic'
          Process,         \* learner-api processes
          Handler,         \* concurrent Retry requests
          Token,           \* operation ids: one per claim, never reused
          NoToken,         \* SQL NULL in an operation or enrichment id
          NoExpedition, NoProcess,
          MaxAttempts,     \* MAX_GENERATION_ATTEMPTS
          MaxConcurrent,   \* MAX_CONCURRENT_GENERATIONS
          StaleAfter,      \* OPERATION_HEARTBEAT_STALE_AFTER_MS, in ticks
          MaxRequests,     \* bound: Retry and Activate requests
          MaxFaults        \* bound: crashes and failing statements

ASSUME SentinelsAreNoMembers ==
  NoToken \notin Token /\ NoExpedition \notin Expedition /\ NoProcess \notin Process

ASSUME LimitsAreNatural ==
  /\ MaxAttempts \in Nat /\ MaxConcurrent \in Nat /\ StaleAfter \in Nat
  /\ MaxRequests \in Nat /\ MaxFaults \in Nat

VARIABLES exp,        \* the rows, with what the claim query joins to them
          latest,     \* history: each row's last claim since its last reset
          resets,     \* history: Retry resets of each row
          built,      \* attempts whose layer and study item bank are stored
          pc, row, host,   \* each attempt's next statement, row and process
          sup,        \* each process's supervisor
          retrying,   \* the row each Retry request has found failed
          requests, faults

vars == <<exp, latest, resets, built, pc, row, host, sup, retrying, requests, faults>>

-----------------------------------------------------------------------------
(* Timestamps and rows. *)

Null == -1                 \* a timestamp that is SQL NULL
Old == StaleAfter + 1      \* older than the stale window
Stamp == {Null} \cup 0..Old

\* beat and open are last_progress_at and "completed_at IS NULL" of the
\* operation_runs row that (op, type) joins; beat is Null when none does.
\* before holds the rows created earlier (ORDER BY created_at).
Row == [status : {"absent", "generating", "ready", "failed"},
        op : Token \cup {NoToken},
        type : {"none", "enrichment", "study_items"},
        asset : Token \cup {NoToken},
        attempts : 0..MaxAttempts,
        claimed : Stamp, updated : Stamp, beat : Stamp,
        open : BOOLEAN,
        before : SUBSET Expedition]

AbsentRow == [status |-> "absent", op |-> NoToken, type |-> "none", asset |-> NoToken,
              attempts |-> 0, claimed |-> Null, updated |-> 0, beat |-> Null,
              open |-> FALSE, before |-> {}]

Exists(e) == exp[e].status # "absent"

Evidence(r) == IF r.beat = Null THEN r.updated ELSE r.beat

MutantGeneratingStaleness(r) ==   \* the heartbeat compared without its COALESCE
  /\ r.status = "generating"
  /\ \/ r.claimed = Null
     \/ r.claimed > StaleAfter /\ r.beat # Null /\ r.beat > StaleAfter

MutantStalenessByClaim(r) ==      \* claimed_at alone decides
  r.status = "generating" /\ (r.claimed = Null \/ r.claimed > StaleAfter)

\* A claim that aged past the window with no sign of life since, or no claim.
GeneratingStaleness(r) ==
  /\ r.status = "generating"
  /\ \/ r.claimed = Null
     \/ r.claimed > StaleAfter /\ Evidence(r) > StaleAfter

MutantClaimable(r) == GeneratingStaleness(r) /\ r.attempts <= MaxAttempts

Claimable(r) == GeneratingStaleness(r) /\ r.attempts < MaxAttempts

Exhausted(r) == GeneratingStaleness(r) /\ r.attempts >= MaxAttempts

-----------------------------------------------------------------------------
(* What one statement does to a row it writes.  A row that changes the     *)
(* operation it names joins no operation row until that one begins.        *)

Joining(r, op, type) == [r EXCEPT !.op = op, !.type = type, !.beat = Null, !.open = FALSE]

Stamped(r) == [r EXCEPT !.updated = 0]

\* The claim installs the fence with the claim time, in one UPDATE.
ClaimedRow(r, t) ==
  [Stamped(Joining(r, t, "enrichment")) EXCEPT !.claimed = 0, !.attempts = @ + 1]

ConfirmedRow(r) == [Stamped(r) EXCEPT !.status = "generating"]

BankRow(r, t) == Stamped(Joining(r, t, "study_items"))

MutantReadyRow(r, t) == [Stamped(r) EXCEPT !.status = "ready", !.asset = t]  \* keeps the id

ReadyRow(r, t) ==
  [Stamped(Joining(r, NoToken, "none")) EXCEPT !.status = "ready", !.asset = t]

\* claimed_at is kept: it is the backoff of the released row.
ReleasedRow(r) == Stamped(Joining(r, NoToken, "none"))

FailedRow(r) == [Stamped(r) EXCEPT !.status = "failed"]

\* failExhaustedGenerating also clears the claim, but not the operation id.
FailedByBudget(r) == [FailedRow(r) EXCEPT !.claimed = Null]

MutantResetRow(r) ==   \* a Retry that keeps the old fence
  [Stamped(r) EXCEPT !.status = "generating", !.attempts = 0, !.claimed = Null]

ResetRow(r) == [Stamped(Joining(r, NoToken, "none"))
                  EXCEPT !.status = "generating", !.attempts = 0, !.claimed = Null]

\* A write to the joined operation row.
BeatenRow(r, open) == [r EXCEPT !.beat = 0, !.open = open]

\* failStaleOperations closes every stale open operation, and stamps it.
Reaped(r) == IF r.open /\ r.beat > StaleAfter THEN BeatenRow(r, FALSE) ELSE r

Aged(s) == IF s = Null \/ s = Old THEN s ELSE s + 1

AgedRow(r) == [r EXCEPT !.claimed = Aged(@), !.updated = Aged(@), !.beat = Aged(@)]

-----------------------------------------------------------------------------
(* Attempts.  pc names the statement the attempt issues next: confirm (the *)
(* first fenced write), synthBegin and synth (the enrichment operation,    *)
(* synthThrown once its callback was rejected), handoff, bankBegin and     *)
(* bank (the study_items operation), publish; transient and broken are the *)
(* two best-effort writes of a failed attempt.                             *)

AttemptState == {"fresh", "confirm", "synthBegin", "synth", "synthThrown", "handoff",
                 "bankBegin", "bank", "publish", "transient", "broken", "done"}

MutantOwns(t) == exp[row[t]].op # NoToken   \* the fence accepts any attempt

Live(t) == pc[t] \notin {"fresh", "done"}
Owns(t) == exp[row[t]].op = t

InFlight(p) == {t \in Token : host[t] = p}

GoTo(t, s) == /\ pc' = [pc EXCEPT ![t] = s]
              /\ host' = IF s = "done" THEN [host EXCEPT ![t] = NoProcess] ELSE host
              /\ UNCHANGED row

Fault == faults < MaxFaults /\ faults' = faults + 1
NoFault == UNCHANGED faults

\* An attempt touches its own row and program counter only.
AttemptFrame == UNCHANGED <<latest, resets, sup, retrying, requests>>

WriteRow(t, r) == exp' = [exp EXCEPT ![row[t]] = r]

\* updateProgress under the fence.  No row: the claim is lost and the attempt
\* writes nothing more.  A rejected statement is a deterministic failure, even
\* when it committed and only its answer was lost.
FencedWrite(t, r, next, rejected) ==
  /\ \/ Owns(t) /\ WriteRow(t, r) /\ GoTo(t, next) /\ NoFault
     \/ ~Owns(t) /\ UNCHANGED exp /\ GoTo(t, "done") /\ NoFault
     \/ Fault /\ GoTo(t, rejected) /\ (UNCHANGED exp \/ (Owns(t) /\ WriteRow(t, r)))
  /\ UNCHANGED built /\ AttemptFrame

\* The write of a catch block: its failure is swallowed.
BestEffortWrite(t, r) ==
  /\ \/ Owns(t) /\ WriteRow(t, r) /\ NoFault
     \/ ~Owns(t) /\ UNCHANGED exp /\ NoFault
     \/ Fault /\ UNCHANGED exp
  /\ GoTo(t, "done") /\ UNCHANGED built /\ AttemptFrame

\* A write to the operation row (t, type): the claim query sees it only while
\* the expedition still names that operation.
OperationWrite(t, type, open) ==
  exp' = IF Owns(t) /\ exp[row[t]].type = type
         THEN [exp EXCEPT ![row[t]] = BeatenRow(exp[row[t]], open)]
         ELSE exp

Operation(t) == IF pc[t] \in {"synthBegin", "synth", "synthThrown"} THEN "enrichment" ELSE "study_items"

BeginOperation(t, next) ==
  /\ \/ OperationWrite(t, Operation(t), TRUE) /\ GoTo(t, next) /\ NoFault
     \/ Fault /\ GoTo(t, "broken") /\ (UNCHANGED exp \/ OperationWrite(t, Operation(t), TRUE))
  /\ UNCHANGED built /\ AttemptFrame

\* The success path: a completion that fails fails the attempt.
CompleteOperation(t, next) ==
  /\ \/ OperationWrite(t, Operation(t), FALSE) /\ GoTo(t, next) /\ NoFault
     \/ Fault /\ GoTo(t, "broken") /\ (UNCHANGED exp \/ OperationWrite(t, Operation(t), FALSE))
  /\ AttemptFrame

\* The failure path: the completion is best effort, and the error, one of
\* outcomes, is an infrastructure exhaustion (transient) or anything else.
AbandonOperation(t, outcomes) ==
  /\ \/ OperationWrite(t, Operation(t), FALSE) /\ NoFault
     \/ Fault /\ UNCHANGED exp
  /\ \E o \in outcomes : GoTo(t, o)
  /\ UNCHANGED built /\ AttemptFrame

-----------------------------------------------------------------------------
(* The attempt's statements, in order. *)

Confirm(t) ==
  /\ pc[t] = "confirm"
  /\ FencedWrite(t, ConfirmedRow(exp[row[t]]), "synthBegin", "broken")

BeginSynthesis(t) == pc[t] = "synthBegin" /\ BeginOperation(t, "synth")

\* The 30 second heartbeat: only while the operation is open, never failing it.
Touch(t) ==
  /\ pc[t] \in {"synth", "bank"}
  /\ Owns(t) /\ exp[row[t]].type = Operation(t) /\ exp[row[t]].open
  /\ OperationWrite(t, Operation(t), TRUE)
  /\ UNCHANGED <<built, pc, row, host, faults>> /\ AttemptFrame

\* Stage boundaries and progress counts refresh the row even once it is closed.
Progress(t) ==
  /\ pc[t] \in {"synth", "bank"}
  /\ Owns(t) /\ exp[row[t]].type = Operation(t)
  /\ OperationWrite(t, Operation(t), exp[row[t]].open)
  /\ UNCHANGED <<built, pc, row, host, faults>> /\ AttemptFrame

\* onDeclaredDomain, inside the enrichment operation.  Losing the claim here
\* also closes the operation, which no claim query joins any more.
SaveDomain(t) ==
  /\ pc[t] = "synth"
  /\ FencedWrite(t, Stamped(exp[row[t]]), "synth", "synthThrown")

SynthesisSucceeds(t) ==
  pc[t] = "synth" /\ CompleteOperation(t, "handoff") /\ UNCHANGED built

\* The operation succeeded with no concept: a deterministic failure.
SynthesisIsEmpty(t) ==
  pc[t] = "synth" /\ CompleteOperation(t, "broken") /\ UNCHANGED built

SynthesisFails(t) ==
  \/ pc[t] = "synth" /\ AbandonOperation(t, {"transient", "broken"})
  \/ pc[t] = "synthThrown" /\ AbandonOperation(t, {"broken"})

Handoff(t) ==
  /\ pc[t] = "handoff"
  /\ FencedWrite(t, BankRow(exp[row[t]], t), "bankBegin", "broken")

BeginBank(t) == pc[t] = "bankBegin" /\ BeginOperation(t, "bank")

\* The bank is persisted inside the operation, before its completion.
BankSucceeds(t) ==
  /\ pc[t] = "bank"
  /\ built' = built \cup {t}
  /\ CompleteOperation(t, "publish")

BankFails(t) == pc[t] = "bank" /\ AbandonOperation(t, {"transient", "broken"})

Publish(t) == pc[t] = "publish" /\ FencedWrite(t, ReadyRow(exp[row[t]], t), "done", "broken")

Release(t) ==
  pc[t] = "transient" /\ BestEffortWrite(t, ReleasedRow(exp[row[t]]))

MarkFailed(t) == pc[t] = "broken" /\ BestEffortWrite(t, FailedRow(exp[row[t]]))

\* What an attempt does unprompted until it is over: every LLM call has a
\* timeout and every statement an answer.
Advance(t) == \/ Confirm(t) \/ BeginSynthesis(t) \/ SynthesisSucceeds(t)
              \/ SynthesisIsEmpty(t) \/ SynthesisFails(t) \/ Handoff(t)
              \/ BeginBank(t) \/ BankSucceeds(t) \/ BankFails(t) \/ Publish(t)
              \/ Release(t) \/ MarkFailed(t)

-----------------------------------------------------------------------------
(* The supervisor: reap, exhaust, then claim until full or empty. *)

SupervisorFrame == UNCHANGED <<resets, built, retrying, requests>>
StoreFrame == UNCHANGED <<exp, latest, pc, row, host>>

\* A pass starts on the interval, on a wake and when an attempt ends.
ReapOperations(p) ==
  /\ sup[p] = "idle"
  /\ exp' = [e \in Expedition |-> Reaped(exp[e])]
  /\ sup' = [sup EXCEPT ![p] = "exhaust"]
  /\ UNCHANGED <<latest, pc, row, host, faults>> /\ SupervisorFrame

\* The scaffold queue's supervisor of the same process reaps the same table.
ReapForScaffolds(p) ==
  /\ sup[p] # "down"
  /\ exp' = [e \in Expedition |-> Reaped(exp[e])]
  /\ UNCHANGED <<latest, pc, row, host, faults, sup>> /\ SupervisorFrame

FailExhausted(p) ==
  /\ sup[p] = "exhaust"
  /\ exp' = [e \in Expedition |-> IF Exhausted(exp[e]) THEN FailedByBudget(exp[e]) ELSE exp[e]]
  /\ sup' = [sup EXCEPT ![p] = "claim"]
  /\ UNCHANGED <<latest, pc, row, host, faults>> /\ SupervisorFrame

HasRoom(p) == Cardinality(InFlight(p)) < MaxConcurrent

\* The oldest claimable row gets a fresh fence; its old operation row, if any,
\* is no longer joined.
ClaimRow(e, t) ==
  /\ Claimable(exp[e])
  /\ \A x \in exp[e].before : ~Claimable(exp[x])
  /\ pc[t] = "fresh"
  /\ exp' = [exp EXCEPT ![e] = ClaimedRow(exp[e], t)]
  /\ latest' = [latest EXCEPT ![e] = t]
  /\ row' = [row EXCEPT ![t] = e]

Claim(p, e, t) ==
  /\ sup[p] = "claim" /\ HasRoom(p)
  /\ ClaimRow(e, t)
  /\ pc' = [pc EXCEPT ![t] = "confirm"]
  /\ host' = [host EXCEPT ![t] = p]
  /\ UNCHANGED <<sup, faults>> /\ SupervisorFrame

\* The claim commits and no attempt runs: its answer was lost, or building the
\* generation callable threw.  The pass ends in its catch block.
ClaimUndelivered(p, e, t) ==
  /\ sup[p] = "claim" /\ HasRoom(p) /\ Fault
  /\ ClaimRow(e, t)
  /\ pc' = [pc EXCEPT ![t] = "done"]
  /\ sup' = [sup EXCEPT ![p] = "idle"]
  /\ UNCHANGED host /\ SupervisorFrame

PassEnds(p) ==
  /\ sup[p] = "claim"
  /\ ~HasRoom(p) \/ \A e \in Expedition : ~Claimable(exp[e])
  /\ sup' = [sup EXCEPT ![p] = "idle"]
  /\ UNCHANGED faults /\ StoreFrame /\ SupervisorFrame

\* A rejected reap, exhaust or claim ends the pass; the interval is the retry.
PassFails(p) ==
  /\ sup[p] \in {"exhaust", "claim"} /\ Fault
  /\ sup' = [sup EXCEPT ![p] = "idle"]
  /\ StoreFrame /\ SupervisorFrame

Crash(p) ==
  /\ sup[p] # "down" /\ Fault
  /\ sup' = [sup EXCEPT ![p] = "down"]
  /\ pc' = [t \in Token |-> IF host[t] = p THEN "done" ELSE pc[t]]
  /\ host' = [t \in Token |-> IF host[t] = p THEN NoProcess ELSE host[t]]
  /\ UNCHANGED <<exp, latest, row>> /\ SupervisorFrame

Restart(p) ==
  /\ sup[p] = "down"
  /\ sup' = [sup EXCEPT ![p] = "idle"]
  /\ UNCHANGED faults /\ StoreFrame /\ SupervisorFrame

-----------------------------------------------------------------------------
(* The learner.  All rows here belong to one learner: making one of them   *)
(* active clears the flag of the others and so stamps their updated_at.    *)

LearnerFrame == UNCHANGED <<latest, built, pc, row, host, sup>>

AllStamped == [e \in Expedition |-> IF Exists(e) THEN Stamped(exp[e]) ELSE exp[e]]

NewRow == [AbsentRow EXCEPT !.status = "generating", !.before = {x \in Expedition : Exists(x)}]

Start(e) ==
  /\ ~Exists(e)
  /\ exp' = [AllStamped EXCEPT ![e] = NewRow]
  /\ UNCHANGED <<resets, retrying, requests, faults>> /\ LearnerFrame

Activate(e) ==
  /\ Exists(e) /\ requests < MaxRequests
  /\ requests' = requests + 1
  /\ exp' = AllStamped
  /\ UNCHANGED <<resets, retrying, faults>> /\ LearnerFrame

\* resetGeneration reads the status in one statement...
RetryCheck(h, e) ==
  /\ retrying[h] = NoExpedition /\ exp[e].status = "failed" /\ requests < MaxRequests
  /\ requests' = requests + 1
  /\ retrying' = [retrying EXCEPT ![h] = e]
  /\ UNCHANGED <<exp, resets, faults>> /\ LearnerFrame

\* ... and writes in another, whose WHERE names the row but not its status.
RetryWrite(h) ==
  LET e == retrying[h] IN
  /\ e # NoExpedition
  /\ exp' = [AllStamped EXCEPT ![e] = ResetRow(exp[e])]
  /\ latest' = [latest EXCEPT ![e] = NoToken]
  /\ resets' = [resets EXCEPT ![e] = @ + 1]
  /\ retrying' = [retrying EXCEPT ![h] = NoExpedition]
  /\ UNCHANGED <<built, pc, row, host, sup, requests, faults>>

\* The transaction fails and rolls back.
RetryAborts(h) ==
  /\ retrying[h] # NoExpedition /\ Fault
  /\ retrying' = [retrying EXCEPT ![h] = NoExpedition]
  /\ UNCHANGED <<exp, resets, requests>> /\ LearnerFrame

-----------------------------------------------------------------------------
Tick ==
  /\ exp' = [e \in Expedition |-> AgedRow(exp[e])]
  /\ UNCHANGED <<latest, resets, built, pc, row, host, sup, retrying, requests, faults>>

Init ==
  /\ exp = [e \in Expedition |-> AbsentRow]
  /\ latest = [e \in Expedition |-> NoToken]
  /\ resets = [e \in Expedition |-> 0]
  /\ built = {}
  /\ pc = [t \in Token |-> "fresh"]
  /\ row = [t \in Token |-> NoExpedition]
  /\ host = [t \in Token |-> NoProcess]
  /\ sup = [p \in Process |-> "idle"]
  /\ retrying = [h \in Handler |-> NoExpedition]
  /\ requests = 0
  /\ faults = 0

Learner == \/ \E e \in Expedition : Start(e) \/ Activate(e)
           \/ \E h \in Handler : \/ RetryWrite(h) \/ RetryAborts(h)
                                 \/ \E e \in Expedition : RetryCheck(h, e)

Supervisor(p) == \/ ReapOperations(p) \/ ReapForScaffolds(p) \/ FailExhausted(p)
                 \/ PassEnds(p) \/ PassFails(p) \/ Crash(p) \/ Restart(p)
                 \/ \E e \in Expedition, t \in Token :
                      Claim(p, e, t) \/ ClaimUndelivered(p, e, t)

Attempt(t) == Advance(t) \/ Touch(t) \/ Progress(t) \/ SaveDomain(t)

Next == \/ Learner
        \/ \E p \in Process : Supervisor(p)
        \/ \E t \in Token : Attempt(t)
        \/ Tick

Spec == Init /\ [][Next]_vars

\* A process runs its passes and is restarted when it dies, statements answer,
\* LLM calls time out, transactions end, and time passes.  Nothing is asked of
\* learners, of heartbeats or of faults.
Fairness ==
  /\ WF_vars(Tick)
  /\ \A p \in Process :
       /\ WF_vars(ReapOperations(p)) /\ WF_vars(FailExhausted(p)) /\ WF_vars(Restart(p))
       /\ WF_vars(PassEnds(p) \/ \E e \in Expedition, t \in Token : Claim(p, e, t))
  /\ \A t \in Token : WF_vars(Advance(t))
  /\ \A h \in Handler : WF_vars(RetryWrite(h))

FairSpec == Spec /\ Fairness

-----------------------------------------------------------------------------
(* Correctness. *)

TypeOK ==
  /\ exp \in [Expedition -> Row]
  /\ latest \in [Expedition -> Token \cup {NoToken}]
  /\ resets \in [Expedition -> Nat]
  /\ built \subseteq Token
  /\ pc \in [Token -> AttemptState]
  /\ row \in [Token -> Expedition \cup {NoExpedition}]
  /\ host \in [Token -> Process \cup {NoProcess}]
  /\ sup \in [Process -> {"down", "idle", "exhaust", "claim"}]
  /\ retrying \in [Handler -> Expedition \cup {NoExpedition}]
  /\ requests \in 0..MaxRequests
  /\ faults \in 0..MaxFaults

\* A ready expedition shows the assets of the last attempt claimed since its
\* last reset, complete with its study item bank, and accepts no more writes:
\* an attempt that was overtaken never publishes over a newer one.
PublishedAttemptIsComplete ==
  \A e \in Expedition : exp[e].status = "ready" =>
    /\ exp[e].op = NoToken
    /\ exp[e].asset = latest[e]
    /\ exp[e].asset \in built

\* Only a Retry that had found this very row failed takes it out of ready:
\* no supervisor pass, late attempt or other expedition's request does.
OnlyRetryReopensReady ==
  [][\A e \in Expedition : exp[e].status = "ready" /\ exp'[e].status # "ready" =>
       \E h \in Handler : retrying[h] = e /\ RetryWrite(h)]_vars

\* The spend of one request is bounded: no crash, lost reply, takeover or late
\* write buys an attempt beyond MaxAttempts for the start and for each Retry.
SpendIsBounded ==
  \A e \in Expedition :
    Cardinality({t \in Token : row[t] = e}) <= MaxAttempts * (1 + resets[e])

\* A learner who started or retried an expedition is told an outcome: no row
\* stays generating for ever, whichever statement a crash or a lost reply cut.
EveryRequestSettles ==
  \A e \in Expedition :
    exp[e].status = "generating" ~> exp[e].status \in {"ready", "failed"}

\* resetGeneration's comment: "a Retry that races a completed generation must
\* not flip a ready expedition back to generating and regenerate it".
ReadyNeverRegenerated ==
  [][\A e \in Expedition : exp[e].status = "ready" => exp'[e].status = "ready"]_vars

\* failStaleOperations' comment: the reap "only marks the operation timeline;
\* expedition retry/claim semantics remain owned by PostgresLearnerExpeditionStore",
\* so a row that may be claimed or failed before a reap still may be after it.
ReapOnlyMarksTheTimeline ==
  [][\A p \in Process : ReapOperations(p) =>
       \A e \in Expedition : GeneratingStaleness(exp[e]) => GeneratingStaleness(exp'[e])]_vars

\* What the store promises its callers, implemented by its SQL, the fencing
\* token and the supervisors.
Lease == INSTANCE ExpeditionLease WITH
           phase <- [e \in Expedition |-> exp[e].status],
           holder <- [e \in Expedition |-> exp[e].op],
           asset <- [e \in Expedition |-> exp[e].asset],
           granted <- {t \in Token : pc[t] # "fresh"}

ImplementsLease == Lease!Spec

=============================================================================
