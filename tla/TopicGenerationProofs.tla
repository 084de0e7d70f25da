------------------------- MODULE TopicGenerationProofs -------------------------
(***************************************************************************)
(* Proofs about TopicGeneration, for every number of expeditions,          *)
(* processes, Retry requests and attempts, and every limit.                *)
(***************************************************************************)
EXTENDS TimelyGeneration, FiniteSetTheorems, TLAPS

\* The attempt a row names holds that row, and is the row's latest claim.
HolderIsLatest ==
  \A e \in Expedition : exp[e].op # NoToken =>
    /\ pc[exp[e].op] # "fresh"
    /\ row[exp[e].op] = e
    /\ latest[e] = exp[e].op

\* An attempt exists from its claim on, which gives it a row.
ClaimedAttemptHasRow == \A t \in Token : pc[t] # "fresh" => row[t] \in Expedition

\* Only a claimed attempt runs in a process.
FreshAttemptHasNoHost == \A t \in Token : pc[t] = "fresh" => host[t] = NoProcess

FreshAttemptHasNoRow == \A t \in Token : pc[t] = "fresh" => row[t] = NoExpedition

\* Nothing is published before its bank is stored.
PublisherHasBuilt == \A t \in Token : pc[t] = "publish" => t \in built

\* A Retry request holds a row that exists.
RetriedRowExists ==
  \A h \in Handler : retrying[h] # NoExpedition => exp[retrying[h]].status # "absent"

AbsentRowIsFree ==
  \A e \in Expedition : exp[e].status = "absent" =>
    exp[e].op = NoToken /\ exp[e].asset = NoToken /\ exp[e].attempts = 0

ClaimsOf(e) == {t \in Token : row[t] = e}

\* Each claim cost an attempt, since the last reset or before it.
ClaimsArePaid ==
  \A e \in Expedition :
    /\ IsFiniteSet(ClaimsOf(e))
    /\ Cardinality(ClaimsOf(e)) <= exp[e].attempts + MaxAttempts * resets[e]

IInv == /\ TypeOK
        /\ ClaimedAttemptHasRow
        /\ FreshAttemptHasNoHost /\ FreshAttemptHasNoRow
        /\ HolderIsLatest
        /\ PublisherHasBuilt
        /\ RetriedRowExists
        /\ AbsentRowIsFree
        /\ PublishedAttemptIsComplete
        /\ ClaimsArePaid

-----------------------------------------------------------------------------
(* What each statement makes of a row: its type, and the four columns the  *)
(* protocol is about.                                                      *)

\* A row that keeps its status, fence, assets and attempts.
Same(r, q) == /\ q \in Row /\ q.status = r.status /\ q.op = r.op /\ q.asset = r.asset
              /\ q.attempts = r.attempts

LEMMA StampFacts == 0 \in Stamp /\ Null \in Stamp
BY LimitsAreNatural DEF Stamp, Old, Null

LEMMA StampedFacts == ASSUME NEW r \in Row PROVE Same(r, Stamped(r))
BY StampFacts DEF Same, Stamped, Row

LEMMA BeatenFacts ==
  ASSUME NEW r \in Row, NEW open \in BOOLEAN PROVE Same(r, BeatenRow(r, open))
BY StampFacts DEF Same, BeatenRow, Row

LEMMA ReapedFacts == ASSUME NEW r \in Row PROVE Same(r, Reaped(r))
BY BeatenFacts DEF Reaped, Same

LEMMA AgedFacts == ASSUME NEW r \in Row PROVE Same(r, AgedRow(r))
<1>1. ASSUME NEW s \in Stamp PROVE Aged(s) \in Stamp
  BY LimitsAreNatural DEF Aged, Stamp, Null, Old
<1>2. r.claimed \in Stamp /\ r.updated \in Stamp /\ r.beat \in Stamp
  BY DEF Row
<1>3. Aged(r.claimed) \in Stamp /\ Aged(r.updated) \in Stamp /\ Aged(r.beat) \in Stamp
  BY <1>1, <1>2
<1> QED BY <1>3 DEF Same, AgedRow, Row

LEMMA JoiningFacts ==
  ASSUME NEW r \in Row, NEW op \in Token \cup {NoToken},
         NEW type \in {"none", "enrichment", "study_items"}
  PROVE  LET q == Stamped(Joining(r, op, type)) IN
         /\ q \in Row /\ q.status = r.status /\ q.op = op /\ q.asset = r.asset
         /\ q.attempts = r.attempts
BY StampFacts DEF Stamped, Joining, Row

LEMMA ClaimedFacts ==
  ASSUME NEW r \in Row, NEW t \in Token, r.attempts < MaxAttempts
  PROVE  LET q == ClaimedRow(r, t) IN
         /\ q \in Row /\ q.status = r.status /\ q.op = t /\ q.asset = r.asset
         /\ q.attempts = r.attempts + 1
<1> DEFINE q == Stamped(Joining(r, t, "enrichment"))
<1>1. q \in Row /\ q.status = r.status /\ q.op = t /\ q.asset = r.asset
      /\ q.attempts = r.attempts
  BY JoiningFacts
<1>2. 0 \in Stamp /\ q.attempts + 1 \in 0..MaxAttempts
  BY <1>1, LimitsAreNatural DEF Stamp, Old, Row
<1> HIDE DEF q
<1>3. ClaimedRow(r, t) = [q EXCEPT !.claimed = 0, !.attempts = @ + 1]
  BY DEF ClaimedRow, q
<1> QED BY <1>1, <1>2, <1>3 DEF Row

LEMMA ConfirmedFacts ==
  ASSUME NEW r \in Row
  PROVE  LET q == ConfirmedRow(r) IN
         /\ q \in Row /\ q.status = "generating" /\ q.op = r.op /\ q.asset = r.asset
         /\ q.attempts = r.attempts
BY StampFacts DEF ConfirmedRow, Stamped, Row

LEMMA ReadyFacts ==
  ASSUME NEW r \in Row, NEW t \in Token
  PROVE  LET q == ReadyRow(r, t) IN
         /\ q \in Row /\ q.status = "ready" /\ q.op = NoToken /\ q.asset = t
         /\ q.attempts = r.attempts
<1> DEFINE q == Stamped(Joining(r, NoToken, "none"))
<1>1. q \in Row /\ q.op = NoToken /\ q.attempts = r.attempts
  BY JoiningFacts
<1> HIDE DEF q
<1>2. ReadyRow(r, t) = [q EXCEPT !.status = "ready", !.asset = t]
  BY DEF ReadyRow, q
<1> QED BY <1>1, <1>2 DEF Row

LEMMA FailedFacts ==
  ASSUME NEW r \in Row
  PROVE  /\ FailedRow(r) \in Row /\ FailedRow(r).status = "failed"
         /\ FailedRow(r).op = r.op /\ FailedRow(r).asset = r.asset
         /\ FailedRow(r).attempts = r.attempts /\ FailedByBudget(r).attempts = r.attempts
         /\ FailedByBudget(r) \in Row /\ FailedByBudget(r).status = "failed"
         /\ FailedByBudget(r).op = r.op /\ FailedByBudget(r).asset = r.asset
BY StampFacts DEF FailedRow, FailedByBudget, Stamped, Row

LEMMA ResetFacts ==
  ASSUME NEW r \in Row
  PROVE  LET q == ResetRow(r) IN
         /\ q \in Row /\ q.status = "generating" /\ q.op = NoToken /\ q.asset = r.asset
         /\ q.attempts = 0
<1> DEFINE q == Stamped(Joining(r, NoToken, "none"))
<1>1. q \in Row /\ q.op = NoToken /\ q.asset = r.asset
  BY JoiningFacts
<1>2. Null \in Stamp /\ 0 \in 0..MaxAttempts
  BY LimitsAreNatural DEF Stamp, Null
<1> HIDE DEF q
<1>3. ResetRow(r) = [q EXCEPT !.status = "generating", !.attempts = 0, !.claimed = Null]
  BY DEF ResetRow, q
<1> QED BY <1>1, <1>2, <1>3 DEF Row

LEMMA AbsentFacts ==
  /\ AbsentRow \in Row /\ AbsentRow.status = "absent" /\ AbsentRow.op = NoToken
     /\ AbsentRow.asset = NoToken /\ AbsentRow.attempts = 0
  /\ NewRow \in Row /\ NewRow.status = "generating" /\ NewRow.op = NoToken
  /\ NewRow.asset = NoToken /\ NewRow.attempts = 0
<1>1. 0 \in 0..MaxAttempts
  BY LimitsAreNatural
<1>2. AbsentRow \in Row /\ AbsentRow.status = "absent" /\ AbsentRow.op = NoToken
     /\ AbsentRow.asset = NoToken /\ AbsentRow.attempts = 0
  BY <1>1, StampFacts DEF AbsentRow, Row
<1>3. {x \in Expedition : Exists(x)} \in SUBSET Expedition
  OBVIOUS
<1> QED BY <1>2, <1>3 DEF NewRow, Row

-----------------------------------------------------------------------------
(* An attempt's step, whatever statement it is. *)

\* Under the fence an attempt confirms, fails, publishes or releases its row.
AttemptWrite(r, q, t) ==
  \/ Same(r, q)
  \/ /\ r.op = t /\ q \in Row /\ q.attempts = r.attempts
     /\ \/ q.status \in {"generating", "failed"} /\ q.op = t /\ q.asset = r.asset
        \/ q.status = "ready" /\ q.op = NoToken /\ q.asset = t /\ t \in built
        \/ q.status = r.status /\ q.op = NoToken /\ q.asset = r.asset

AttemptStep(t) ==
  /\ pc[t] # "fresh"
  /\ \E s \in AttemptState \ {"fresh"} :
       pc' = [pc EXCEPT ![t] = s] /\ (s = "publish" => t \in built')
  /\ built \subseteq built' /\ built' \subseteq Token
  /\ UNCHANGED <<latest, resets, row, sup, retrying, requests>>
  /\ \E p \in Process \cup {NoProcess} : host' = [host EXCEPT ![t] = p]
  /\ faults' \in 0..MaxFaults
  /\ \/ exp' = exp
     \/ \E q \in Row : AttemptWrite(exp[row[t]], q, t) /\ exp' = [exp EXCEPT ![row[t]] = q]

LEMMA GoToFacts ==
  ASSUME TypeOK, NEW t \in Token, NEW s \in AttemptState \ {"fresh"}, GoTo(t, s)
  PROVE  /\ pc' = [pc EXCEPT ![t] = s] /\ row' = row
         /\ \E p \in Process \cup {NoProcess} : host' = [host EXCEPT ![t] = p]
<1>1. host = [host EXCEPT ![t] = host[t]] /\ host[t] \in Process \cup {NoProcess}
  BY DEF TypeOK
<1> QED BY <1>1 DEF GoTo

LEMMA FaultFacts ==
  ASSUME TypeOK, Fault \/ NoFault PROVE faults' \in 0..MaxFaults
BY LimitsAreNatural DEF TypeOK, Fault, NoFault

LEMMA FencedStep ==
  ASSUME TypeOK, NEW t \in Token, pc[t] # "fresh", NEW q \in Row,
         Owns(t) => AttemptWrite(exp[row[t]], q, t),
         NEW next \in AttemptState \ {"fresh", "publish"},
         NEW rejected \in AttemptState \ {"fresh", "publish"},
         FencedWrite(t, q, next, rejected)
  PROVE  AttemptStep(t)
<1>1. /\ UNCHANGED built /\ AttemptFrame /\ (Fault \/ NoFault)
      /\ GoTo(t, next) \/ GoTo(t, "done") \/ GoTo(t, rejected)
      /\ exp' = exp \/ (Owns(t) /\ WriteRow(t, q))
  BY DEF FencedWrite
<1>2. PICK s \in AttemptState \ {"fresh", "publish"} : GoTo(t, s)
  BY <1>1 DEF AttemptState
<1> QED BY <1>1, <1>2, GoToFacts, FaultFacts DEF AttemptStep, AttemptFrame, WriteRow, TypeOK

LEMMA BestEffortStep ==
  ASSUME TypeOK, NEW t \in Token, pc[t] # "fresh", NEW q \in Row,
         Owns(t) => AttemptWrite(exp[row[t]], q, t), BestEffortWrite(t, q)
  PROVE  AttemptStep(t)
<1>1. /\ UNCHANGED built /\ AttemptFrame /\ (Fault \/ NoFault) /\ GoTo(t, "done")
      /\ exp' = exp \/ (Owns(t) /\ WriteRow(t, q))
  BY DEF BestEffortWrite
<1>2. "done" \in AttemptState \ {"fresh"}
  BY DEF AttemptState
<1> QED BY <1>1, <1>2, GoToFacts, FaultFacts DEF AttemptStep, AttemptFrame, WriteRow, TypeOK

LEMMA OperationWriteFacts ==
  ASSUME TypeOK, NEW t \in Token, row[t] \in Expedition, NEW type, NEW open \in BOOLEAN,
         OperationWrite(t, type, open)
  PROVE  \/ exp' = exp
         \/ \E q \in Row : AttemptWrite(exp[row[t]], q, t) /\ exp' = [exp EXCEPT ![row[t]] = q]
<1>1. Same(exp[row[t]], BeatenRow(exp[row[t]], open))
  BY BeatenFacts DEF TypeOK
<1> QED BY <1>1 DEF OperationWrite, AttemptWrite, Same

\* Any step that writes at most the operation row and moves the attempt on.
LEMMA OperationStep ==
  ASSUME TypeOK, NEW t \in Token, pc[t] # "fresh", row[t] \in Expedition,
         NEW open \in BOOLEAN, exp' = exp \/ OperationWrite(t, Operation(t), open),
         NEW s \in AttemptState \ {"fresh"}, s = "publish" => t \in built', GoTo(t, s),
         built \subseteq built', built' \subseteq Token, Fault \/ NoFault, AttemptFrame
  PROVE  AttemptStep(t)
BY GoToFacts, FaultFacts, OperationWriteFacts DEF AttemptStep, AttemptFrame

LEMMA AttemptStates ==
  /\ \A x \in {"confirm", "synthBegin", "synth", "synthThrown", "handoff", "bankBegin",
               "bank", "transient", "broken", "done"} :
       x \in AttemptState \ {"fresh", "publish"}
  /\ "publish" \in AttemptState \ {"fresh"}
BY DEF AttemptState

LEMMA AttemptShape ==
  ASSUME IInv, NEW t \in Token, Attempt(t) PROVE AttemptStep(t)
<1> DEFINE r == exp[row[t]]
<1>1. /\ TypeOK /\ pc[t] # "fresh" /\ row[t] \in Expedition
      /\ r \in Row
  BY DEF Attempt, Advance, Confirm, BeginSynthesis, SynthesisSucceeds, SynthesisIsEmpty,
     SynthesisFails, Handoff, BeginBank, BankSucceeds, BankFails, Publish, Release,
     MarkFailed, Touch, Progress, SaveDomain, IInv, ClaimedAttemptHasRow, TypeOK
<1>2. built \subseteq Token
  BY <1>1 DEF TypeOK
<1>3. CASE Confirm(t)
  <2>1. Owns(t) => AttemptWrite(r, ConfirmedRow(r), t)
    BY <1>1, ConfirmedFacts DEF Owns, AttemptWrite
  <2> QED BY <1>1, <1>3, <2>1, ConfirmedFacts, AttemptStates, FencedStep DEF Confirm
<1>4. CASE BeginSynthesis(t)
  BY <1>1, <1>2, <1>4, AttemptStates, OperationStep DEF BeginSynthesis, BeginOperation
<1>5. CASE Touch(t) \/ Progress(t)
  <2>1. /\ UNCHANGED <<built, pc, row, host, faults>> /\ AttemptFrame
        /\ pc[t] \in AttemptState \ {"fresh", "publish"}
        /\ \E open \in BOOLEAN : OperationWrite(t, Operation(t), open)
    <3>1. r.open \in BOOLEAN
      BY <1>1 DEF Row
    <3> QED BY <1>5, <3>1, AttemptStates DEF Touch, Progress
  <2>2. /\ pc' = [pc EXCEPT ![t] = pc[t]]
        /\ host' = [host EXCEPT ![t] = host[t]] /\ host[t] \in Process \cup {NoProcess}
    BY <1>1, <2>1 DEF TypeOK
  <2>3. \/ exp' = exp
        \/ \E q \in Row : AttemptWrite(r, q, t) /\ exp' = [exp EXCEPT ![row[t]] = q]
    BY <1>1, <2>1, OperationWriteFacts
  <2> QED BY <1>1, <2>1, <2>2, <2>3 DEF AttemptStep, AttemptFrame, TypeOK
<1>6. CASE SaveDomain(t)
  <2>1. Owns(t) => AttemptWrite(r, Stamped(r), t)
    BY <1>1, StampedFacts DEF AttemptWrite
  <2> QED BY <1>1, <1>6, <2>1, StampedFacts, AttemptStates, FencedStep DEF SaveDomain, Same
<1>7. CASE SynthesisSucceeds(t) \/ SynthesisIsEmpty(t)
  BY <1>1, <1>2, <1>7, AttemptStates, OperationStep
  DEF SynthesisSucceeds, SynthesisIsEmpty, CompleteOperation
<1>8. CASE SynthesisFails(t) \/ BankFails(t)
  <2>1. PICK o \in {"transient", "broken"} : GoTo(t, o)
    BY <1>8 DEF SynthesisFails, BankFails, AbandonOperation
  <2> QED BY <1>1, <1>2, <1>8, <2>1, AttemptStates, OperationStep
          DEF SynthesisFails, BankFails, AbandonOperation
<1>9. CASE Handoff(t)
  <2>1. BankRow(r, t) \in Row /\ (Owns(t) => AttemptWrite(r, BankRow(r, t), t))
    BY <1>1, JoiningFacts DEF BankRow, AttemptWrite, Same, Owns
  <2> QED BY <1>1, <1>9, <2>1, AttemptStates, FencedStep DEF Handoff
<1>10. CASE BeginBank(t)
  BY <1>1, <1>2, <1>10, AttemptStates, OperationStep DEF BeginBank, BeginOperation
<1>11. CASE BankSucceeds(t)
  <2>1. /\ built' = built \cup {t} /\ AttemptFrame /\ (Fault \/ NoFault)
        /\ GoTo(t, "publish") \/ GoTo(t, "broken")
        /\ exp' = exp \/ OperationWrite(t, Operation(t), FALSE)
    BY <1>11 DEF BankSucceeds, CompleteOperation
  <2> QED BY <1>1, <1>2, <2>1, AttemptStates, OperationStep
<1>12. CASE Publish(t)
  <2>1. Owns(t) => AttemptWrite(r, ReadyRow(r, t), t)
    BY <1>1, <1>12, ReadyFacts DEF Owns, AttemptWrite, Publish, IInv, PublisherHasBuilt
  <2> QED BY <1>1, <1>12, <2>1, ReadyFacts, AttemptStates, FencedStep DEF Publish
<1>13. CASE Release(t)
  <2>1. ReleasedRow(r) \in Row /\ (Owns(t) => AttemptWrite(r, ReleasedRow(r), t))
    BY <1>1, JoiningFacts DEF ReleasedRow, Owns, AttemptWrite
  <2> QED BY <1>1, <1>13, <2>1, BestEffortStep DEF Release
<1>14. CASE MarkFailed(t)
  <2>1. Owns(t) => AttemptWrite(r, FailedRow(r), t)
    BY <1>1, FailedFacts DEF Owns, AttemptWrite
  <2> QED BY <1>1, <1>14, <2>1, FailedFacts, BestEffortStep DEF MarkFailed
<1> QED
  BY <1>3, <1>4, <1>5, <1>6, <1>7, <1>8, <1>9, <1>10, <1>11, <1>12, <1>13, <1>14
  DEF Attempt, Advance

-----------------------------------------------------------------------------
(* The invariant is inductive. *)

LEMMA InitInv == Init => IInv
<1> SUFFICES ASSUME Init PROVE IInv
  OBVIOUS
<1>1. TypeOK
  BY AbsentFacts, LimitsAreNatural DEF Init, TypeOK, AttemptState
<1>2. ClaimsArePaid
  <2>1. ASSUME NEW e \in Expedition PROVE ClaimsOf(e) = {}
    BY SentinelsAreNoMembers DEF Init, ClaimsOf
  <2>2. ASSUME NEW e \in Expedition PROVE exp[e].attempts + MaxAttempts * resets[e] = 0
    BY AbsentFacts, LimitsAreNatural DEF Init
  <2> QED BY <2>1, <2>2, FS_EmptySet DEF ClaimsArePaid
<1> QED BY <1>1, <1>2, AbsentFacts
        DEF Init, IInv, ClaimedAttemptHasRow, FreshAttemptHasNoHost, FreshAttemptHasNoRow,
            HolderIsLatest, PublisherHasBuilt, RetriedRowExists, AbsentRowIsFree,
            PublishedAttemptIsComplete

LEMMA AttemptInv ==
  ASSUME IInv, NEW t \in Token, AttemptStep(t) PROVE IInv'
<1>1. /\ TypeOK /\ row[t] \in Expedition /\ exp[row[t]] \in Row
      /\ UNCHANGED <<latest, resets, row, sup, retrying, requests>>
      /\ built \subseteq built' /\ built' \subseteq Token
  BY DEF AttemptStep, IInv, TypeOK, ClaimedAttemptHasRow
<1>2. PICK s \in AttemptState \ {"fresh"} :
        pc' = [pc EXCEPT ![t] = s] /\ (s = "publish" => t \in built')
  BY DEF AttemptStep
<1>3. \/ exp' = exp
      \/ \E q \in Row : AttemptWrite(exp[row[t]], q, t) /\ exp' = [exp EXCEPT ![row[t]] = q]
  BY DEF AttemptStep
<1>4. TypeOK'
  BY <1>1, <1>2, <1>3 DEF TypeOK, AttemptStep
<1>5. /\ ClaimedAttemptHasRow' /\ FreshAttemptHasNoHost' /\ FreshAttemptHasNoRow'
      /\ PublisherHasBuilt'
  BY <1>1, <1>2 DEF IInv, TypeOK, ClaimedAttemptHasRow, FreshAttemptHasNoHost, FreshAttemptHasNoRow,
                  PublisherHasBuilt, AttemptStep
<1>6. ASSUME NEW e \in Expedition
      PROVE  \/ exp'[e] = exp[e]
             \/ e = row[t] /\ AttemptWrite(exp[e], exp'[e], t)
  BY <1>1, <1>3 DEF TypeOK
<1>7. ASSUME NEW e \in Expedition
      PROVE  /\ exp'[e].op # NoToken => exp'[e].op = exp[e].op
             /\ exp'[e].status = "absent" =>
                  exp[e].status = "absent" /\ exp'[e].op = NoToken /\ exp'[e].asset = NoToken
             /\ exp'[e].attempts = exp[e].attempts
             /\ exp[e].status # "absent" => exp'[e].status # "absent"
             /\ exp'[e].status = "ready" =>
                  /\ exp'[e].op = NoToken /\ exp'[e].asset = latest[e]
                  /\ exp'[e].asset \in built
  BY <1>1, <1>6, SentinelsAreNoMembers
  DEF AttemptWrite, Same, IInv, AbsentRowIsFree, PublishedAttemptIsComplete, HolderIsLatest
<1>8. HolderIsLatest'
  BY <1>1, <1>2, <1>7 DEF IInv, HolderIsLatest, TypeOK
<1>9. AbsentRowIsFree' /\ PublishedAttemptIsComplete'
  BY <1>1, <1>7 DEF IInv, AbsentRowIsFree, PublishedAttemptIsComplete
<1>10. RetriedRowExists'
  BY <1>1, <1>7 DEF IInv, TypeOK, RetriedRowExists
<1>11. ClaimsArePaid'
  BY <1>1, <1>7 DEF IInv, ClaimsArePaid, ClaimsOf
<1> QED BY <1>4, <1>5, <1>8, <1>9, <1>10, <1>11 DEF IInv

\* A step that leaves every row's status, fence and assets alone, and at most
\* ends attempts.
LEMMA QuietInv ==
  ASSUME IInv, TypeOK', UNCHANGED <<latest, resets, built, row>>,
         \A e \in Expedition : Same(exp[e], exp'[e]),
         \A t \in Token : \/ pc'[t] = pc[t] /\ host'[t] = host[t]
                          \/ pc[t] # "fresh" /\ pc'[t] = "done",
         \A h \in Handler : \/ retrying'[h] \in {retrying[h], NoExpedition}
                            \/ exp[retrying'[h]].status # "absent"
  PROVE  IInv'
<1>1. \A t \in Token : pc'[t] # "fresh" <=> pc[t] # "fresh"
  OBVIOUS
<1>2. /\ ClaimedAttemptHasRow' /\ FreshAttemptHasNoHost' /\ FreshAttemptHasNoRow'
      /\ PublisherHasBuilt'
  BY <1>1 DEF IInv, ClaimedAttemptHasRow, FreshAttemptHasNoHost, FreshAttemptHasNoRow,
              PublisherHasBuilt
<1>3. HolderIsLatest'
  <2> SUFFICES ASSUME NEW e \in Expedition, exp'[e].op # NoToken
               PROVE  pc'[exp[e].op] # "fresh" /\ row[exp[e].op] = e /\ latest[e] = exp[e].op
    BY DEF HolderIsLatest, Same
  <2>1. exp[e].op \in Token
    BY DEF IInv, TypeOK, Row, Same
  <2> QED BY <1>1, <2>1 DEF IInv, HolderIsLatest, Same
<1>4. AbsentRowIsFree' /\ PublishedAttemptIsComplete'
  BY DEF IInv, AbsentRowIsFree, PublishedAttemptIsComplete, Same
<1>5. RetriedRowExists'
  BY DEF IInv, RetriedRowExists, TypeOK, Same
<1>6. ClaimsArePaid'
  BY DEF IInv, ClaimsArePaid, ClaimsOf, Same
<1> QED BY <1>2, <1>3, <1>4, <1>5, <1>6 DEF IInv

\* What was left of the attempts pays for what has been claimed.
LEMMA OneResetMore ==
  ASSUME NEW a \in Nat, NEW b \in Nat, NEW n \in Nat, NEW k \in Nat, k <= a, n <= k + a * b
  PROVE  n <= a * (1 + b)
OBVIOUS

LEMMA LearnerInv ==
  ASSUME IInv, Learner PROVE IInv'
<1> USE DEF IInv
<1>1. /\ TypeOK /\ UNCHANGED <<pc, row, host, sup, built>>
      /\ \A e \in Expedition : exp[e] \in Row /\ Same(exp[e], exp[e])
  BY DEF Learner, Start, Activate, RetryCheck, RetryWrite, RetryAborts, LearnerFrame, TypeOK,
     Same
<1>2. AllStamped \in [Expedition -> Row] /\ \A e \in Expedition : Same(exp[e], AllStamped[e])
  BY <1>1, StampedFacts DEF AllStamped, Same
<1>3. ASSUME NEW e \in Expedition, Start(e) PROVE IInv'
  <2>1. /\ exp' = [AllStamped EXCEPT ![e] = NewRow] /\ exp[e].status = "absent"
        /\ UNCHANGED <<latest, resets, retrying, requests, faults>>
    BY <1>3 DEF Start, Exists, LearnerFrame
  <2>2. TypeOK'
    BY <1>1, <1>2, <2>1, AbsentFacts DEF TypeOK
  <2>3. \A x \in Expedition : Same(exp[x], exp'[x]) \/ (x = e /\ exp'[x] = NewRow)
    BY <1>2, <2>1
  <2>4. HolderIsLatest' /\ AbsentRowIsFree' /\ PublishedAttemptIsComplete'
    BY <1>1, <2>1, <2>3, AbsentFacts
    DEF HolderIsLatest, AbsentRowIsFree, PublishedAttemptIsComplete, Same
  <2>5. RetriedRowExists'
    BY <1>1, <2>1, <2>3, AbsentFacts DEF RetriedRowExists, TypeOK, Same
  <2>6. ClaimsArePaid'
    BY <1>1, <2>1, <2>3, AbsentFacts DEF ClaimsArePaid, ClaimsOf, AbsentRowIsFree, Same
  <2> QED BY <1>1, <2>2, <2>4, <2>5, <2>6
          DEF ClaimedAttemptHasRow, FreshAttemptHasNoHost, FreshAttemptHasNoRow, PublisherHasBuilt
<1>4. ASSUME NEW e \in Expedition, Activate(e) PROVE IInv'
  <2>1. exp' = AllStamped /\ UNCHANGED <<latest, resets, retrying, faults>>
    BY <1>4 DEF Activate, LearnerFrame
  <2>2. TypeOK'
    BY <1>1, <1>2, <1>4, <2>1, LimitsAreNatural DEF TypeOK, Activate
  <2> QED BY <1>1, <1>2, <2>1, <2>2, QuietInv
<1>5. ASSUME NEW h \in Handler, NEW e \in Expedition, RetryCheck(h, e) PROVE IInv'
  <2>1. /\ retrying' = [retrying EXCEPT ![h] = e] /\ exp[e].status = "failed"
        /\ UNCHANGED <<exp, latest, resets, faults>>
    BY <1>5 DEF RetryCheck, LearnerFrame
  <2>2. TypeOK'
    BY <1>1, <1>5, <2>1, LimitsAreNatural DEF TypeOK, RetryCheck
  <2>3. \A g \in Handler : retrying'[g] = retrying[g] \/ exp[retrying'[g]].status # "absent"
    BY <1>1, <2>1 DEF TypeOK
  <2> QED BY <1>1, <2>1, <2>2, <2>3, QuietInv
<1>6. ASSUME NEW h \in Handler, RetryAborts(h) PROVE IInv'
  <2>1. /\ retrying' = [retrying EXCEPT ![h] = NoExpedition]
        /\ UNCHANGED <<exp, latest, resets, requests>>
    BY <1>6 DEF RetryAborts, LearnerFrame
  <2>2. TypeOK'
    BY <1>1, <1>6, <2>1, FaultFacts DEF TypeOK, RetryAborts
  <2>3. \A g \in Handler : retrying'[g] \in {retrying[g], NoExpedition}
    BY <1>1, <2>1 DEF TypeOK
  <2> QED BY <1>1, <2>1, <2>2, <2>3, QuietInv
<1>7. ASSUME NEW h \in Handler, RetryWrite(h) PROVE IInv'
  <2> DEFINE e == retrying[h]
  <2>1. /\ e \in Expedition
        /\ exp' = [AllStamped EXCEPT ![e] = ResetRow(exp[e])]
        /\ latest' = [latest EXCEPT ![e] = NoToken]
        /\ retrying' = [retrying EXCEPT ![h] = NoExpedition]
        /\ resets' = [resets EXCEPT ![e] = @ + 1] /\ UNCHANGED <<requests, faults>>
    BY <1>1, <1>7 DEF RetryWrite, TypeOK
  <2>2. TypeOK'
    BY <1>1, <1>2, <2>1, ResetFacts DEF TypeOK
  <2>3. \A x \in Expedition :
          \/ x # e /\ Same(exp[x], exp'[x]) /\ latest'[x] = latest[x]
          \/ x = e /\ exp'[x] = ResetRow(exp[x])
    BY <1>1, <1>2, <2>1 DEF TypeOK
  <2>4. HolderIsLatest' /\ AbsentRowIsFree' /\ PublishedAttemptIsComplete'
    BY <1>1, <2>3, ResetFacts
    DEF HolderIsLatest, AbsentRowIsFree, PublishedAttemptIsComplete, Same
  <2>5. RetriedRowExists'
    BY <1>1, <2>1, <2>3, ResetFacts DEF RetriedRowExists, TypeOK, Same
  <2>6. ASSUME NEW x \in Expedition
        PROVE  /\ IsFiniteSet(ClaimsOf(x)')
               /\ Cardinality(ClaimsOf(x)') <= exp'[x].attempts + MaxAttempts * resets'[x]
    <3>1. /\ ClaimsOf(x)' = ClaimsOf(x) /\ IsFiniteSet(ClaimsOf(x))
          /\ Cardinality(ClaimsOf(x)) <= exp[x].attempts + MaxAttempts * resets[x]
      BY <1>1 DEF ClaimsArePaid, ClaimsOf
    <3>2. CASE x # e
      BY <1>1, <2>1, <2>3, <3>1, <3>2 DEF TypeOK, Same
    <3>3. CASE x = e
      <4>1. exp'[x].attempts = 0 /\ resets'[x] = 1 + resets[x]
        BY <1>1, <2>1, <2>3, <3>3, ResetFacts DEF TypeOK
      <4>2. /\ exp[x].attempts \in Nat /\ exp[x].attempts <= MaxAttempts
            /\ MaxAttempts \in Nat /\ resets[x] \in Nat /\ Cardinality(ClaimsOf(x)) \in Nat
        BY <1>1, <3>1, LimitsAreNatural, FS_CardinalityType DEF TypeOK, Row
      <4>3. Cardinality(ClaimsOf(x)) <= MaxAttempts * (1 + resets[x])
        BY <3>1, <4>2, OneResetMore
      <4>4. MaxAttempts * (1 + resets[x]) \in Nat
        BY <4>2
      <4> HIDE DEF ClaimsOf
      <4> QED BY <3>1, <4>1, <4>3, <4>4
    <3> QED BY <3>2, <3>3
  <2> QED BY <1>1, <2>2, <2>4, <2>5, <2>6
          DEF ClaimedAttemptHasRow, FreshAttemptHasNoHost, FreshAttemptHasNoRow, PublisherHasBuilt,
              ClaimsArePaid
<1> QED BY <1>3, <1>4, <1>5, <1>6, <1>7 DEF Learner

LEMMA ClaimInv ==
  ASSUME IInv, NEW p \in Process, NEW e \in Expedition, NEW t \in Token,
         Claim(p, e, t) \/ ClaimUndelivered(p, e, t)
  PROVE  IInv'
<1> USE DEF IInv
<1>1. /\ TypeOK /\ exp[e] \in Row
      /\ UNCHANGED <<resets, built, retrying, requests>> /\ faults' \in 0..MaxFaults
      /\ sup' \in [Process -> {"down", "idle", "exhaust", "claim"}]
  BY FaultFacts DEF Claim, ClaimUndelivered, SupervisorFrame, TypeOK, NoFault
<1>2. PICK s \in {"confirm", "done"}, hp \in Process \cup {NoProcess} :
        pc' = [pc EXCEPT ![t] = s] /\ host' = [host EXCEPT ![t] = hp]
  <2>1. host = [host EXCEPT ![t] = host[t]] /\ host[t] \in Process \cup {NoProcess}
    BY <1>1 DEF TypeOK
  <2> QED BY <2>1 DEF Claim, ClaimUndelivered
<1>3. /\ exp[e].status = "generating" /\ exp[e].attempts < MaxAttempts /\ pc[t] = "fresh"
      /\ exp' = [exp EXCEPT ![e] = ClaimedRow(exp[e], t)]
      /\ latest' = [latest EXCEPT ![e] = t] /\ row' = [row EXCEPT ![t] = e]
  BY DEF Claim, ClaimUndelivered, ClaimRow, Claimable, GeneratingStaleness
<1>4. LET q == ClaimedRow(exp[e], t) IN
      /\ q \in Row /\ q.status = "generating" /\ q.op = t /\ q.asset = exp[e].asset
      /\ q.attempts = exp[e].attempts + 1
  BY <1>1, <1>3, ClaimedFacts
<1>5. TypeOK'
  BY <1>1, <1>2, <1>3, <1>4 DEF TypeOK, AttemptState
<1>6. /\ ClaimedAttemptHasRow' /\ FreshAttemptHasNoHost' /\ FreshAttemptHasNoRow'
      /\ PublisherHasBuilt'
  BY <1>1, <1>2, <1>3
  DEF TypeOK, ClaimedAttemptHasRow, FreshAttemptHasNoHost, FreshAttemptHasNoRow, PublisherHasBuilt
<1>7. \A x \in Expedition :
        \/ x # e /\ exp'[x] = exp[x] /\ latest'[x] = latest[x]
        \/ x = e /\ exp'[x] = ClaimedRow(exp[e], t) /\ latest'[x] = t
  BY <1>1, <1>3 DEF TypeOK
<1>8. ASSUME NEW x \in Expedition, exp'[x].op # NoToken
      PROVE  pc'[exp'[x].op] # "fresh" /\ row'[exp'[x].op] = x /\ latest'[x] = exp'[x].op
  <2>1. CASE x = e
    BY <1>1, <1>2, <1>3, <1>4, <1>7, <2>1 DEF TypeOK
  <2>2. CASE x # e
    <3>1. /\ exp'[x] = exp[x] /\ latest'[x] = latest[x] /\ exp[x].op \in Token
          /\ pc[exp[x].op] # "fresh" /\ row[exp[x].op] = x /\ latest[x] = exp[x].op
      BY <1>1, <1>7, <1>8, <2>2 DEF TypeOK, Row, HolderIsLatest
    <3>2. exp[x].op # t
      BY <1>3, <3>1
    <3> QED BY <1>1, <1>2, <1>3, <3>1, <3>2 DEF TypeOK
  <2> QED BY <2>1, <2>2
<1>9. AbsentRowIsFree' /\ PublishedAttemptIsComplete'
  BY <1>1, <1>4, <1>7 DEF AbsentRowIsFree, PublishedAttemptIsComplete
<1>10. RetriedRowExists'
  BY <1>1, <1>4, <1>7 DEF RetriedRowExists, TypeOK
<1>11. ASSUME NEW x \in Expedition
       PROVE  /\ IsFiniteSet(ClaimsOf(x)')
              /\ Cardinality(ClaimsOf(x)') <= exp'[x].attempts + MaxAttempts * resets[x]
  <2>1. IsFiniteSet(ClaimsOf(x)) /\ Cardinality(ClaimsOf(x)) <= exp[x].attempts + MaxAttempts * resets[x]
    BY DEF ClaimsArePaid
  <2>2. CASE x = e
    <3>1. ClaimsOf(x)' = ClaimsOf(x) \cup {t} /\ t \notin ClaimsOf(x)
      BY <1>1, <1>3, <2>2, SentinelsAreNoMembers DEF TypeOK, ClaimsOf, FreshAttemptHasNoRow
    <3>2. IsFiniteSet(ClaimsOf(x)') /\ Cardinality(ClaimsOf(x)') = Cardinality(ClaimsOf(x)) + 1
      BY <2>1, <3>1, FS_AddElement
    <3>3. exp'[x].attempts = exp[x].attempts + 1
      BY <1>4, <1>7, <2>2
    <3>4. Cardinality(ClaimsOf(x)) \in Nat /\ exp[x].attempts \in Nat
      BY <1>1, <2>1, <2>2, FS_CardinalityType DEF Row
    <3>5. MaxAttempts * resets[x] \in Nat
      BY <1>1, LimitsAreNatural DEF TypeOK
    <3> HIDE DEF ClaimsOf
    <3> QED BY <2>1, <3>2, <3>3, <3>4, <3>5
  <2>3. CASE x # e
    <3>1. ClaimsOf(x)' = ClaimsOf(x) /\ exp'[x] = exp[x]
      BY <1>1, <1>3, <1>7, <2>3, SentinelsAreNoMembers DEF TypeOK, ClaimsOf, FreshAttemptHasNoRow
    <3> QED BY <2>1, <3>1
  <2> QED BY <2>2, <2>3
<1> QED BY <1>1, <1>5, <1>6, <1>8, <1>9, <1>10, <1>11 DEF HolderIsLatest, ClaimsArePaid

LEMMA SupervisorInv ==
  ASSUME IInv, NEW p \in Process, Supervisor(p) PROVE IInv'
<1> USE DEF IInv
<1>1. /\ TypeOK /\ \A e \in Expedition : exp[e] \in Row /\ Same(exp[e], exp[e])
      /\ UNCHANGED <<resets, built, retrying, requests>>
      /\ sup' \in [Process -> {"down", "idle", "exhaust", "claim"}]
      /\ faults' \in 0..MaxFaults
  BY FaultFacts DEF Supervisor, ReapOperations, ReapForScaffolds, FailExhausted, PassEnds,
     PassFails, Crash, Restart, Claim, ClaimUndelivered, SupervisorFrame, NoFault, TypeOK, Same
<1>2. CASE ReapOperations(p) \/ ReapForScaffolds(p)
  <2>1. /\ exp' = [e \in Expedition |-> Reaped(exp[e])]
        /\ UNCHANGED <<latest, pc, row, host>>
    BY <1>2 DEF ReapOperations, ReapForScaffolds
  <2>2. \A e \in Expedition : Same(exp[e], exp'[e])
    BY <1>1, <2>1, ReapedFacts
  <2>3. TypeOK'
    BY <1>1, <2>1, <2>2 DEF TypeOK, Same
  <2> QED BY <1>1, <2>1, <2>2, <2>3, QuietInv
<1>3. CASE PassEnds(p) \/ PassFails(p) \/ Restart(p)
  <2>1. UNCHANGED <<exp, latest, pc, row, host>>
    BY <1>3 DEF PassEnds, PassFails, Restart, StoreFrame
  <2>2. TypeOK'
    BY <1>1, <2>1 DEF TypeOK
  <2> QED BY <1>1, <2>1, <2>2, QuietInv
<1>4. CASE Crash(p)
  <2>1. /\ UNCHANGED <<exp, latest, row>>
        /\ pc' = [t \in Token |-> IF host[t] = p THEN "done" ELSE pc[t]]
        /\ host' = [t \in Token |-> IF host[t] = p THEN NoProcess ELSE host[t]]
    BY <1>4 DEF Crash
  <2>2. TypeOK'
    BY <1>1, <2>1 DEF TypeOK, AttemptState
  <2>3. \A t \in Token : \/ pc'[t] = pc[t] /\ host'[t] = host[t]
                         \/ pc[t] # "fresh" /\ pc'[t] = "done"
    BY <2>1, SentinelsAreNoMembers DEF FreshAttemptHasNoHost
  <2> QED BY <1>1, <2>1, <2>2, <2>3, QuietInv
<1>5. CASE FailExhausted(p)
  <2>1. /\ exp' = [e \in Expedition |-> IF Exhausted(exp[e]) THEN FailedByBudget(exp[e])
                                                             ELSE exp[e]]
        /\ UNCHANGED <<latest, pc, row, host>>
    BY <1>5 DEF FailExhausted
  <2>2. \A e \in Expedition :
          \/ exp'[e] = exp[e]
          \/ /\ exp[e].status = "generating" /\ exp'[e] \in Row /\ exp'[e].status = "failed"
             /\ exp'[e].op = exp[e].op /\ exp'[e].attempts = exp[e].attempts
    BY <1>1, <2>1, FailedFacts DEF Exhausted, GeneratingStaleness
  <2>3. TypeOK'
    BY <1>1, <2>1, <2>2 DEF TypeOK
  <2>4. HolderIsLatest' /\ AbsentRowIsFree' /\ PublishedAttemptIsComplete'
    BY <1>1, <2>1, <2>2 DEF HolderIsLatest, AbsentRowIsFree, PublishedAttemptIsComplete
  <2>5. RetriedRowExists'
    BY <1>1, <2>2 DEF RetriedRowExists, TypeOK
  <2>6. ClaimsArePaid'
    BY <1>1, <2>1, <2>2 DEF ClaimsArePaid, ClaimsOf
  <2> QED BY <1>1, <2>1, <2>3, <2>4, <2>5, <2>6
          DEF ClaimedAttemptHasRow, FreshAttemptHasNoHost, FreshAttemptHasNoRow, PublisherHasBuilt
<1> QED BY <1>2, <1>3, <1>4, <1>5, ClaimInv DEF Supervisor

LEMMA TickInv == ASSUME IInv, Tick PROVE IInv'
<1>1. /\ TypeOK /\ exp' = [e \in Expedition |-> AgedRow(exp[e])]
      /\ UNCHANGED <<latest, resets, built, pc, row, host, sup, retrying, requests, faults>>
  BY DEF Tick, IInv
<1>2. \A e \in Expedition : Same(exp[e], exp'[e])
  BY <1>1, AgedFacts DEF TypeOK
<1>3. TypeOK'
  BY <1>1, <1>2 DEF TypeOK, Same
<1> QED BY <1>1, <1>2, <1>3, QuietInv

LEMMA StutterInv == ASSUME IInv, UNCHANGED vars PROVE IInv'
BY DEF vars, IInv, TypeOK, ClaimedAttemptHasRow, FreshAttemptHasNoHost, FreshAttemptHasNoRow,
   HolderIsLatest, PublisherHasBuilt, RetriedRowExists, AbsentRowIsFree, PublishedAttemptIsComplete,
   ClaimsArePaid, ClaimsOf

LEMMA NextInv == IInv /\ [Next]_vars => IInv'
BY LearnerInv, SupervisorInv, AttemptShape, AttemptInv, TickInv, StutterInv DEF Next

-----------------------------------------------------------------------------
(* The theorems. *)

\* IInv holds of every reachable state.
LEMMA Invariance == Spec => []IInv
BY InitInv, NextInv, PTL DEF Spec

\* Every variable keeps its type: attempts stay within the budget, ages within
\* their window, whatever the limits are.
THEOREM TypeCorrect == Spec => []TypeOK
<1>1. IInv => TypeOK
  BY DEF IInv
<1> QED BY Invariance, <1>1, PTL

\* A ready expedition shows its last claimed attempt, with its bank stored.
THEOREM PublishedIsComplete == Spec => []PublishedAttemptIsComplete
<1>1. IInv => PublishedAttemptIsComplete
  BY DEF IInv
<1> QED BY Invariance, <1>1, PTL

\* An expedition is claimed MAX_GENERATION_ATTEMPTS times at most for its start
\* and for each Retry, whatever crashes, takeovers and lost replies come between.
THEOREM SpendBounded == Spec => []SpendIsBounded
<1>1. ASSUME IInv, NEW e \in Expedition
      PROVE  Cardinality(ClaimsOf(e)) <= MaxAttempts * (1 + resets[e])
  <2>1. /\ IsFiniteSet(ClaimsOf(e))
        /\ Cardinality(ClaimsOf(e)) <= exp[e].attempts + MaxAttempts * resets[e]
    BY <1>1 DEF IInv, ClaimsArePaid
  <2>2. /\ exp[e].attempts \in Nat /\ exp[e].attempts <= MaxAttempts /\ MaxAttempts \in Nat
        /\ resets[e] \in Nat /\ Cardinality(ClaimsOf(e)) \in Nat
    BY <1>1, <2>1, LimitsAreNatural, FS_CardinalityType DEF IInv, TypeOK, Row
  <2> HIDE DEF ClaimsOf
  <2> QED BY <2>1, <2>2, OneResetMore
<1>2. IInv => SpendIsBounded
  BY <1>1 DEF SpendIsBounded, ClaimsOf
<1> QED BY Invariance, <1>2, PTL

LEMMA OneRowOfAnAttempt ==
  ASSUME IInv, NEW t \in Token, AttemptStep(t), NEW e \in Expedition
  PROVE  Same(exp[e], exp'[e]) \/ (e = row[t] /\ AttemptWrite(exp[e], exp'[e], t))
BY DEF AttemptStep, IInv, TypeOK, ClaimedAttemptHasRow, Same

\* The rows a Learner, Supervisor or Tick step leaves to the refinement and to
\* OnlyRetryReopensReady.
LEMMA StampedRows ==
  ASSUME TypeOK PROVE \A e \in Expedition : Same(exp[e], AllStamped[e])
BY StampedFacts DEF AllStamped, TypeOK, Same

\* Nothing but a Retry takes a row out of ready.
LEMMA ReadyStep ==
  ASSUME IInv, Next, NEW e \in Expedition, exp[e].status = "ready", exp'[e].status # "ready"
  PROVE  \E h \in Handler : retrying[h] = e /\ RetryWrite(h)
<1>1. TypeOK /\ exp[e] \in Row /\ exp[e].op = NoToken
  BY DEF IInv, TypeOK, PublishedAttemptIsComplete
<1>2. ASSUME NEW t \in Token, Attempt(t) PROVE FALSE
  <2>1. Same(exp[e], exp'[e]) \/ AttemptWrite(exp[e], exp'[e], t)
    BY <1>2, AttemptShape, OneRowOfAnAttempt
  <2> QED BY <1>1, <2>1, SentinelsAreNoMembers DEF AttemptWrite, Same
<1>3. ASSUME NEW p \in Process, Supervisor(p) PROVE FALSE
  <2>1. CASE ReapOperations(p) \/ ReapForScaffolds(p)
    BY <1>1, <2>1, ReapedFacts DEF ReapOperations, ReapForScaffolds, Same
  <2>2. CASE FailExhausted(p)
    BY <1>1, <2>2 DEF FailExhausted, Exhausted, GeneratingStaleness
  <2>3. CASE PassEnds(p) \/ PassFails(p) \/ Restart(p) \/ Crash(p)
    BY <2>3 DEF PassEnds, PassFails, Restart, Crash, StoreFrame
  <2>4. ASSUME NEW x \in Expedition, NEW t \in Token, Claim(p, x, t) \/ ClaimUndelivered(p, x, t)
        PROVE  FALSE
    <3>1. exp[x].status = "generating" /\ exp' = [exp EXCEPT ![x] = ClaimedRow(exp[x], t)]
      BY <2>4 DEF Claim, ClaimUndelivered, ClaimRow, Claimable, GeneratingStaleness
    <3> QED BY <1>1, <3>1 DEF TypeOK
  <2> QED BY <1>3, <2>1, <2>2, <2>3, <2>4 DEF Supervisor
<1>4. CASE Tick
  BY <1>1, <1>4, AgedFacts DEF Tick, Same
<1>5. CASE Learner
  <2>1. /\ AllStamped \in [Expedition -> Row] /\ Same(exp[e], AllStamped[e])
    BY <1>1, StampedRows, StampedFacts DEF AllStamped, TypeOK, Same
  <2>2. ASSUME NEW x \in Expedition, Start(x) \/ Activate(x) PROVE FALSE
    BY <1>1, <2>1, <2>2 DEF Start, Activate, Exists, Same
  <2>3. ASSUME NEW h \in Handler, RetryAborts(h) \/ \E x \in Expedition : RetryCheck(h, x)
        PROVE FALSE
    BY <2>3 DEF RetryAborts, RetryCheck
  <2>4. ASSUME NEW h \in Handler, RetryWrite(h) PROVE retrying[h] = e
    <3>1. exp' = [AllStamped EXCEPT ![retrying[h]] = ResetRow(exp[retrying[h]])]
      BY <2>4 DEF RetryWrite
    <3> QED BY <2>1, <3>1 DEF Same
  <2> QED BY <1>5, <2>2, <2>3, <2>4 DEF Learner
<1> QED BY <1>2, <1>3, <1>4, <1>5 DEF Next

\* A learner's ready expedition stays ready until a Retry that had found that
\* very row failed resets it.
THEOREM ReadyIsStable == Spec => OnlyRetryReopensReady
<1> DEFINE A == \A e \in Expedition : exp[e].status = "ready" /\ exp'[e].status # "ready" =>
                  \E h \in Handler : retrying[h] = e /\ RetryWrite(h)
<1>1. IInv /\ [Next]_vars => [A]_vars
  BY ReadyStep
<1>2. Spec => [][A]_vars
  BY Invariance, <1>1, PTL DEF Spec
<1> QED BY <1>2 DEF OnlyRetryReopensReady

-----------------------------------------------------------------------------
(* Every step is a step of ExpeditionLease or changes nothing it shows. *)

phaseOf == [e \in Expedition |-> exp[e].status]
holderOf == [e \in Expedition |-> exp[e].op]
assetOf == [e \in Expedition |-> exp[e].asset]
grantedOf == {t \in Token : pc[t] # "fresh"}

LEMMA QuietRefines ==
  ASSUME \A e \in Expedition : Same(exp[e], exp'[e]), grantedOf' = grantedOf
  PROVE  UNCHANGED Lease!vars
BY DEF Same, grantedOf, Lease!vars

LEMMA AttemptRefines ==
  ASSUME IInv, NEW t \in Token, AttemptStep(t) PROVE [Lease!Next]_(Lease!vars)
<1>0. PICK e \in Expedition : e = row[t]
  BY DEF IInv, ClaimedAttemptHasRow, AttemptStep
<1>1. /\ TypeOK /\ exp[e] \in Row
      /\ \A x \in Expedition : Same(exp[x], exp[x])
  BY DEF IInv, TypeOK, ClaimedAttemptHasRow, AttemptStep, Same
<1>2. grantedOf' = grantedOf
  BY <1>1 DEF AttemptStep, TypeOK, grantedOf
<1>3. CASE exp' = exp
  BY <1>1, <1>2, <1>3, QuietRefines
<1>4. CASE exp' # exp
  <2>1. PICK q \in Row : AttemptWrite(exp[e], q, t) /\ exp' = [exp EXCEPT ![e] = q]
    BY <1>0, <1>4 DEF AttemptStep
  <2>2. \A x \in Expedition : exp'[x] = IF x = e THEN q ELSE exp[x]
    BY <1>1, <2>1 DEF TypeOK
  <2>3. CASE Same(exp[e], q)
    BY <1>1, <1>2, <2>2, <2>3, QuietRefines
  <2>4. CASE exp[e].op = t /\ q.status \in {"generating", "failed"} /\ q.op = t
             /\ q.asset = exp[e].asset /\ q.attempts = exp[e].attempts
    <3>1. holderOf' = holderOf /\ assetOf' = assetOf
      BY <2>2, <2>4 DEF holderOf, assetOf
    <3>2. exp[e].status \in {"generating", "failed"}
      BY <1>1, <2>4, SentinelsAreNoMembers
      DEF Row, IInv, AbsentRowIsFree, PublishedAttemptIsComplete
    <3>3. CASE q.status = exp[e].status
      BY <1>1, <1>2, <2>1, <2>2, <2>4, <3>3, QuietRefines DEF Same
    <3>4. CASE q.status = "failed" /\ exp[e].status = "generating"
      <4>1. phaseOf' = [x \in Expedition |-> IF x \in {e} THEN "failed" ELSE phaseOf[x]]
        BY <2>2, <3>4 DEF phaseOf
      <4>2. Lease!Fail({e})
        BY <1>2, <3>1, <3>4, <4>1 DEF Lease!Fail, phaseOf, holderOf, assetOf, grantedOf
      <4> QED BY <1>1, <4>2 DEF Lease!Next
    <3>5. CASE q.status = "generating" /\ exp[e].status = "failed"
      <4>1. phaseOf' = [phaseOf EXCEPT ![e] = "generating"]
        BY <2>2, <3>5 DEF phaseOf
      <4>2. Lease!Revive(e)
        BY <1>1, <1>2, <2>4, <3>1, <3>5, <4>1, SentinelsAreNoMembers
        DEF Lease!Revive, phaseOf, holderOf, assetOf, grantedOf
      <4> QED BY <1>1, <4>2 DEF Lease!Next
    <3> QED BY <2>4, <3>2, <3>3, <3>4, <3>5
  <2>5. CASE exp[e].op = t /\ q.status = "ready" /\ q.op = NoToken /\ q.asset = t
    <3>1. /\ phaseOf' = [phaseOf EXCEPT ![e] = "ready"]
          /\ holderOf' = [holderOf EXCEPT ![e] = NoToken]
          /\ assetOf' = [assetOf EXCEPT ![e] = holderOf[e]]
      BY <2>2, <2>5 DEF phaseOf, holderOf, assetOf
    <3>2. Lease!Publish(e)
      BY <1>1, <1>2, <2>5, <3>1, SentinelsAreNoMembers
      DEF Lease!Publish, phaseOf, holderOf, assetOf, grantedOf
    <3> QED BY <1>1, <3>2 DEF Lease!Next
  <2>6. CASE exp[e].op = t /\ q.status = exp[e].status /\ q.op = NoToken
             /\ q.asset = exp[e].asset
    <3>1. /\ phaseOf' = phaseOf /\ assetOf' = assetOf
          /\ holderOf' = [holderOf EXCEPT ![e] = NoToken]
      BY <2>2, <2>6 DEF phaseOf, holderOf, assetOf
    <3>2. Lease!Release(e)
      BY <1>1, <1>2, <2>6, <3>1, SentinelsAreNoMembers
      DEF Lease!Release, phaseOf, holderOf, assetOf, grantedOf
    <3> QED BY <1>1, <3>2 DEF Lease!Next
  <2> QED BY <2>1, <2>3, <2>4, <2>5, <2>6 DEF AttemptWrite
<1> QED BY <1>3, <1>4

LEMMA SupervisorRefines ==
  ASSUME IInv, NEW p \in Process, Supervisor(p) PROVE [Lease!Next]_(Lease!vars)
<1>1. TypeOK /\ \A e \in Expedition : exp[e] \in Row /\ Same(exp[e], exp[e])
  BY DEF IInv, TypeOK, Same
<1>2. CASE ReapOperations(p) \/ ReapForScaffolds(p)
  <2>1. (\A e \in Expedition : Same(exp[e], exp'[e])) /\ grantedOf' = grantedOf
    BY <1>1, <1>2, ReapedFacts DEF ReapOperations, ReapForScaffolds, grantedOf
  <2> QED BY <2>1, QuietRefines
<1>3. CASE PassEnds(p) \/ PassFails(p) \/ Restart(p)
  <2>1. exp' = exp /\ grantedOf' = grantedOf
    BY <1>3 DEF PassEnds, PassFails, Restart, StoreFrame, grantedOf
  <2> QED BY <1>1, <2>1, QuietRefines
<1>4. CASE Crash(p)
  <2>1. exp' = exp /\ \A t \in Token : pc'[t] # "fresh" <=> pc[t] # "fresh"
    BY <1>4, SentinelsAreNoMembers DEF Crash, IInv, FreshAttemptHasNoHost
  <2>2. grantedOf' = grantedOf
    BY <2>1 DEF grantedOf
  <2> QED BY <1>1, <2>1, <2>2, QuietRefines
<1>5. CASE FailExhausted(p)
  <2>0. PICK S \in SUBSET Expedition : S = {e \in Expedition : Exhausted(exp[e])}
    OBVIOUS
  <2>1. exp' = [e \in Expedition |-> IF e \in S THEN FailedByBudget(exp[e]) ELSE exp[e]]
        /\ grantedOf' = grantedOf
    BY <1>5, <2>0 DEF FailExhausted, grantedOf
  <2>2. \A e \in S : phaseOf[e] = "generating"
    BY <2>0 DEF Exhausted, GeneratingStaleness, phaseOf
  <2>3. /\ phaseOf' = [e \in Expedition |-> IF e \in S THEN "failed" ELSE phaseOf[e]]
        /\ holderOf' = holderOf /\ assetOf' = assetOf
    BY <1>1, <2>1, FailedFacts DEF phaseOf, holderOf, assetOf
  <2>4. Lease!Fail(S)
    BY <2>1, <2>2, <2>3 DEF Lease!Fail, phaseOf, holderOf, assetOf, grantedOf
  <2> QED BY <2>4 DEF Lease!Next
<1>6. ASSUME NEW e \in Expedition, NEW t \in Token, Claim(p, e, t) \/ ClaimUndelivered(p, e, t)
      PROVE  [Lease!Next]_(Lease!vars)
  <2>1. /\ exp[e].status = "generating" /\ exp[e].attempts < MaxAttempts /\ pc[t] = "fresh"
        /\ exp' = [exp EXCEPT ![e] = ClaimedRow(exp[e], t)]
        /\ pc' = [pc EXCEPT ![t] = "confirm"] \/ pc' = [pc EXCEPT ![t] = "done"]
    BY <1>6 DEF Claim, ClaimUndelivered, ClaimRow, Claimable, GeneratingStaleness
  <2>2. LET q == ClaimedRow(exp[e], t) IN
        q.status = exp[e].status /\ q.op = t /\ q.asset = exp[e].asset
    BY <1>1, <2>1, ClaimedFacts
  <2>3. t \notin grantedOf /\ grantedOf' = grantedOf \cup {t}
    BY <1>1, <2>1 DEF grantedOf, TypeOK
  <2>4. /\ phaseOf' = phaseOf /\ assetOf' = assetOf
        /\ holderOf' = [holderOf EXCEPT ![e] = t]
    BY <1>1, <2>1, <2>2 DEF phaseOf, holderOf, assetOf, TypeOK
  <2>5. Lease!Grant(e, t)
    BY <2>1, <2>3, <2>4 DEF Lease!Grant, phaseOf, holderOf, assetOf, grantedOf
  <2> QED BY <2>5 DEF Lease!Next
<1> QED BY <1>2, <1>3, <1>4, <1>5, <1>6 DEF Supervisor

LEMMA LearnerRefines ==
  ASSUME IInv, Learner PROVE [Lease!Next]_(Lease!vars)
<1>1. /\ TypeOK /\ grantedOf' = grantedOf
      /\ \A e \in Expedition : exp[e] \in Row /\ Same(exp[e], exp[e])
  BY DEF IInv, TypeOK, Same, grantedOf, Learner, Start, Activate, RetryCheck, RetryWrite,
     RetryAborts, LearnerFrame
<1>2. AllStamped \in [Expedition -> Row] /\ \A e \in Expedition : Same(exp[e], AllStamped[e])
  BY <1>1, StampedRows, StampedFacts DEF AllStamped, Same
<1>3. ASSUME NEW e \in Expedition, Start(e) PROVE [Lease!Next]_(Lease!vars)
  <2>1. exp' = [AllStamped EXCEPT ![e] = NewRow] /\ exp[e].status = "absent"
    BY <1>3 DEF Start, Exists
  <2>2. exp[e].op = NoToken /\ exp[e].asset = NoToken
    BY <2>1 DEF IInv, AbsentRowIsFree
  <2>3. /\ phaseOf' = [phaseOf EXCEPT ![e] = "generating"]
        /\ holderOf' = holderOf /\ assetOf' = assetOf
    BY <1>2, <2>1, <2>2, AbsentFacts DEF phaseOf, holderOf, assetOf, Same
  <2>4. Lease!Request(e)
    BY <1>1, <2>1, <2>3 DEF Lease!Request, phaseOf, holderOf, assetOf, grantedOf
  <2> QED BY <2>4 DEF Lease!Next
<1>4. ASSUME NEW e \in Expedition, Activate(e) PROVE [Lease!Next]_(Lease!vars)
  BY <1>1, <1>2, <1>4, QuietRefines DEF Activate
<1>5. ASSUME NEW h \in Handler, RetryAborts(h) \/ \E e \in Expedition : RetryCheck(h, e)
      PROVE [Lease!Next]_(Lease!vars)
  BY <1>1, <1>5, QuietRefines DEF RetryAborts, RetryCheck
<1>6. ASSUME NEW h \in Handler, RetryWrite(h) PROVE [Lease!Next]_(Lease!vars)
  <2>0. PICK e \in Expedition : e = retrying[h]
    BY <1>1, <1>6 DEF RetryWrite, TypeOK
  <2>1. exp' = [AllStamped EXCEPT ![e] = ResetRow(exp[e])]
    BY <1>6, <2>0 DEF RetryWrite
  <2>2. exp[e].status # "absent"
    BY <1>6, <2>0 DEF RetryWrite, IInv, RetriedRowExists
  <2>3. /\ phaseOf' = [phaseOf EXCEPT ![e] = "generating"]
        /\ holderOf' = [holderOf EXCEPT ![e] = NoToken]
        /\ assetOf' = assetOf
    BY <1>1, <1>2, <2>1, ResetFacts DEF phaseOf, holderOf, assetOf, Same
  <2>4. Lease!Retry(e)
    BY <1>1, <2>1, <2>2, <2>3 DEF Lease!Retry, phaseOf, holderOf, assetOf, grantedOf
  <2> QED BY <2>1, <2>4 DEF Lease!Next
<1> QED BY <1>3, <1>4, <1>5, <1>6 DEF Learner

LEMMA StepRefines == IInv /\ [Next]_vars => [Lease!Next]_(Lease!vars)
<1> SUFFICES ASSUME IInv, [Next]_vars PROVE [Lease!Next]_(Lease!vars)
  OBVIOUS
<1>1. TypeOK /\ \A e \in Expedition : exp[e] \in Row /\ Same(exp[e], exp[e])
  BY DEF IInv, TypeOK, Same
<1>2. CASE Tick
  BY <1>1, <1>2, AgedFacts, QuietRefines DEF Tick, grantedOf
<1>3. CASE UNCHANGED vars
  BY <1>1, <1>3, QuietRefines DEF vars, grantedOf
<1> QED BY <1>2, <1>3, AttemptShape, AttemptRefines, SupervisorRefines, LearnerRefines
        DEF Next

\* The SQL of the store, the fence and the supervisors implement the lease: an
\* operation id is granted a row once, one attempt holds a row at a time, and a
\* row becomes ready by its holder alone, with that holder's assets.
THEOREM GenerationImplementsLease == Spec => ImplementsLease
<1>1. Init => Lease!Init
  BY AbsentFacts DEF Init, Lease!Init
<1> QED BY <1>1, Invariance, StepRefines, PTL DEF Spec, ImplementsLease, Lease!Spec

-----------------------------------------------------------------------------
(* The pace.  A healthy attempt is one whose outcome is still open.  Its row  *)
(* is generating, names it, and shows a sign of life no older than the        *)
(* attempt has been quiet, or one pace more once its operation has failed:    *)
(* the claim, then updated_at until the operation row begins, then the        *)
(* operation's heartbeat.                                                     *)

Healthy(t) == Live(t) /\ pc[t] # "broken"

\* The row r, of the attempt t that is about to issue s and quiet for n ticks.
ShowsLife(r, t, s, n) ==
  /\ r.op = t /\ r.status = "generating" /\ r.claimed # Null
  /\ s = "confirm" => r.beat = Null /\ r.claimed <= n
  /\ s \in {"synthBegin", "bankBegin"} => r.beat = Null /\ r.updated <= n
  /\ s \in {"synth", "synthThrown", "bank", "handoff", "publish"} => r.beat # Null /\ r.beat <= n
  /\ s = "transient" => r.beat # Null /\ r.beat <= n + Pace
  /\ s \in {"confirm", "synthBegin", "synth"} => r.type = "enrichment"
  /\ s \in {"bankBegin", "bank"} => r.type = "study_items"

HealthyAttemptsShowLife ==
  \A t \in Token : Healthy(t) => ShowsLife(exp[row[t]], t, pc[t], quiet[t])

PaceIsKept ==
  /\ quiet \in [Token -> Nat]
  /\ \A t \in Token : /\ pc[t] = "fresh" => quiet[t] = 0
                      /\ Live(t) => quiet[t] <= Pace

\* While a Retry is on its way to its second statement its row stays failed.
RetriedRowHasFailed ==
  \A h \in Handler : retrying[h] # NoExpedition => exp[retrying[h]].status = "failed"

PaceInv == /\ IInv
           /\ PaceIsKept
           /\ RetriedRowHasFailed
           /\ HealthyAttemptsShowLife

-----------------------------------------------------------------------------
(* What shows life goes on to. *)

\* A row that shows life is not stale: no pass takes it or gives it up
\* (staleness of generating rows in PostgresLearnerExpeditionStore).
LEMMA LifeIsNotStale ==
  ASSUME NEW r \in Row, NEW t, NEW s \in AttemptState \ {"fresh", "broken", "done"},
         NEW n \in Nat, n <= Pace, ShowsLife(r, t, s, n)
  PROVE  ~ GeneratingStaleness(r)
<1>1. /\ r.claimed \in Stamp /\ r.updated \in Stamp /\ r.beat \in Stamp
  BY DEF Row
<1>2. r.claimed \in Int /\ r.updated \in Int /\ r.beat \in Int /\ Pace \in Nat /\ StaleAfter \in Nat
      /\ 2 * Pace <= StaleAfter
  BY <1>1, LimitsAreNatural, PaceIsWellInside DEF Stamp, Null, Old
<1>3. s = "confirm" => r.claimed <= StaleAfter
  BY <1>2 DEF ShowsLife
<1>4. Evidence(r) \in Int /\ (s # "confirm" => Evidence(r) <= StaleAfter)
  BY <1>2 DEF ShowsLife, Evidence, AttemptState
<1> QED
  BY <1>2, <1>3, <1>4 DEF GeneratingStaleness, ShowsLife

\* What another's statement may do to it: stamp it, or close its operation row
\* (a request on another row of the learner, a reap).
LEMMA LifeIsLeftAlone ==
  ASSUME NEW r \in Row, NEW t, NEW s \in AttemptState, NEW n \in Nat, ShowsLife(r, t, s, n)
  PROVE  ShowsLife(Stamped(r), t, s, n) /\ ShowsLife(Reaped(r), t, s, n)
<1>1. ShowsLife(Stamped(r), t, s, n)
  <2>1. /\ Stamped(r).op = r.op /\ Stamped(r).status = r.status /\ Stamped(r).claimed = r.claimed
        /\ Stamped(r).beat = r.beat /\ Stamped(r).type = r.type /\ Stamped(r).updated = 0
    BY DEF Stamped, Row
  <2> QED
    BY <2>1 DEF ShowsLife
<1>2. ShowsLife(Reaped(r), t, s, n)
  <2>1. CASE r.open /\ r.beat > StaleAfter
    <3> DEFINE q == BeatenRow(r, FALSE)
    <3>1. /\ q.op = r.op /\ q.status = r.status /\ q.claimed = r.claimed
          /\ q.updated = r.updated /\ q.type = r.type /\ q.beat = 0
      BY DEF BeatenRow, Row
    <3>2. r.beat # Null
      BY <2>1, LimitsAreNatural DEF Null
    <3>3. Pace \in Nat /\ 0 # Null
      BY PaceIsWellInside DEF Null
    <3> HIDE DEF q
    <3>4. ShowsLife(q, t, s, n)
      BY <3>1, <3>2, <3>3 DEF ShowsLife
    <3> QED
      BY <2>1, <3>4 DEF Reaped, q
  <2>2. CASE ~ (r.open /\ r.beat > StaleAfter)
    BY <2>2 DEF Reaped
  <2> QED
    BY <2>1, <2>2
<1> QED
  BY <1>1, <1>2

\* A tick ages the row by what the attempt is quiet longer (the clock).
LEMMA LifeAges ==
  ASSUME NEW r \in Row, NEW t, NEW s \in AttemptState, NEW n \in Nat, ShowsLife(r, t, s, n)
  PROVE  ShowsLife(AgedRow(r), t, s, n + 1)
<1>1. ASSUME NEW a \in Stamp
      PROVE  Aged(a) <= a + 1 /\ (Aged(a) = Null <=> a = Null) /\ Aged(a) \in Int /\ a \in Int
  BY LimitsAreNatural DEF Aged, Stamp, Null, Old
<1>2. r.claimed \in Stamp /\ r.updated \in Stamp /\ r.beat \in Stamp
  BY DEF Row
<1>3. /\ AgedRow(r).op = r.op /\ AgedRow(r).status = r.status /\ AgedRow(r).type = r.type
      /\ AgedRow(r).claimed = Aged(r.claimed) /\ AgedRow(r).updated = Aged(r.updated)
      /\ AgedRow(r).beat = Aged(r.beat)
  BY DEF AgedRow, Row
<1>4. Pace \in Nat
  BY PaceIsWellInside
<1> QED
  BY <1>1, <1>2, <1>3, <1>4 DEF ShowsLife

\* Whatever the attempt does, another attempt's row is not written.
LEMMA OthersRowIsKept ==
  ASSUME PaceInv, NEW t \in Token, NEW u \in Token, u # t, Healthy(u), NEW q,
         exp' = exp \/ (Owns(t) /\ exp' = [exp EXCEPT ![row[t]] = q])
  PROVE  exp'[row[u]] = exp[row[u]]
<1>1. exp[row[u]].op = u
  BY DEF PaceInv, HealthyAttemptsShowLife, ShowsLife
<1>2. CASE exp' = exp
  BY <1>2
<1>3. CASE Owns(t) /\ exp' = [exp EXCEPT ![row[t]] = q]
  BY <1>1, <1>3 DEF Owns
<1> QED
  BY <1>2, <1>3

-----------------------------------------------------------------------------
(* The attempt's own statements show life. *)

\* A write to the operation row the expedition names is a heartbeat.
LEMMA OperationBeats ==
  ASSUME TypeOK, NEW t \in Token, row[t] \in Expedition, NEW n, NEW open,
         ShowsLife(exp[row[t]], t, pc[t], n),
         pc[t] \in {"synthBegin", "synth", "bankBegin", "bank"},
         OperationWrite(t, Operation(t), open)
  PROVE  /\ exp'[row[t]].op = t /\ exp'[row[t]].status = "generating"
         /\ exp'[row[t]].claimed # Null /\ exp'[row[t]].beat = 0
         /\ exp'[row[t]].type = exp[row[t]].type
<1>1. Owns(t) /\ exp[row[t]].type = Operation(t)
  BY DEF ShowsLife, Owns, Operation
<1>2. exp'[row[t]] = BeatenRow(exp[row[t]], open)
  BY <1>1 DEF OperationWrite, TypeOK
<1>3. exp[row[t]] \in Row
  BY DEF TypeOK
<1> QED
  BY <1>2, <1>3 DEF BeatenRow, Row, ShowsLife

\* Writes in the row itself keep the claim and stamp updated_at.
LEMMA OwnWrites ==
  ASSUME NEW r \in Row, NEW t \in Token, r.op = t, r.status = "generating", r.claimed # Null
  PROVE  /\ ConfirmedRow(r).op = t /\ ConfirmedRow(r).status = "generating"
         /\ ConfirmedRow(r).claimed # Null /\ ConfirmedRow(r).updated = 0
         /\ ConfirmedRow(r).beat = r.beat /\ ConfirmedRow(r).type = r.type
         /\ BankRow(r, t).op = t /\ BankRow(r, t).status = "generating"
         /\ BankRow(r, t).claimed # Null /\ BankRow(r, t).updated = 0
         /\ BankRow(r, t).beat = Null /\ BankRow(r, t).type = "study_items"
BY DEF ConfirmedRow, BankRow, Stamped, Joining, Row

\* After each of its statements a healthy attempt's row shows life (the
\* statements of createTopicExpeditionGeneration, heartbeats included).
LEMMA OwnStepShowsLife ==
  ASSUME PaceInv, NEW t \in Token, TimelyAttempt(t), Healthy(t)'
  PROVE  ShowsLife(exp'[row[t]], t, pc'[t], quiet'[t])
<1> DEFINE e == row[t]
           r == exp[e]
<1>1. /\ TypeOK /\ pc[t] # "fresh" /\ e \in Expedition /\ r \in Row
      /\ quiet \in [Token -> Nat] /\ quiet[t] \in Nat
  BY DEF PaceInv, PaceIsKept, IInv, ClaimedAttemptHasRow, TypeOK, TimelyAttempt, Advance, Confirm,
     BeginSynthesis, SynthesisSucceeds, SynthesisIsEmpty, SynthesisFails, Handoff, BeginBank,
     BankSucceeds, BankFails, Publish, Release, MarkFailed, Touch, Progress, SaveDomain
<1>2. pc'[t] \notin {"fresh", "done", "broken"}
  BY DEF Healthy, Live
<1>3. \A s : GoTo(t, s) => pc'[t] = s
  BY <1>1 DEF GoTo, TypeOK
<1>4. \A q : WriteRow(t, q) => exp'[e] = q
  BY <1>1 DEF WriteRow, TypeOK
<1>5. Pace \in Nat /\ 0 # Null
  BY PaceIsWellInside DEF Null
<1>6. quiet' = [quiet EXCEPT ![t] = 0] => quiet'[t] = 0
  BY <1>1
<1>7. pc[t] \notin {"done", "broken"} => ShowsLife(r, t, pc[t], quiet[t]) /\ quiet[t] <= Pace
  BY <1>1 DEF PaceInv, HealthyAttemptsShowLife, Healthy, Live, PaceIsKept
<1> HIDE DEF r
<1>8. CASE Confirm(t) /\ quiet'[t] = 0
  <2>1. pc'[t] = "synthBegin" /\ exp'[e] = ConfirmedRow(r) /\ pc[t] = "confirm"
    BY <1>2, <1>3, <1>4, <1>8 DEF Confirm, FencedWrite, r
  <2> QED
    BY <1>1, <1>7, <1>8, <2>1, OwnWrites DEF ShowsLife
<1>9. CASE (BeginSynthesis(t) \/ BeginBank(t)) /\ quiet'[t] = 0
  <2>1. /\ \/ pc[t] = "synthBegin" /\ pc'[t] = "synth"
           \/ pc[t] = "bankBegin" /\ pc'[t] = "bank"
        /\ OperationWrite(t, Operation(t), TRUE)
    BY <1>2, <1>3, <1>9 DEF BeginSynthesis, BeginBank, BeginOperation
  <2>2. /\ exp'[e].op = t /\ exp'[e].status = "generating" /\ exp'[e].claimed # Null
        /\ exp'[e].beat = 0 /\ exp'[e].type = r.type
    BY <1>1, <1>7, <2>1, OperationBeats DEF r
  <2> QED
    BY <1>5, <1>7, <1>9, <2>1, <2>2 DEF ShowsLife
<1>10. CASE (Touch(t) \/ Progress(t)) /\ quiet'[t] = 0
  <2>1. pc[t] \in {"synth", "bank"} /\ pc'[t] = pc[t] /\ \E open : OperationWrite(t, Operation(t), open)
    BY <1>10 DEF Touch, Progress
  <2>2. /\ exp'[e].op = t /\ exp'[e].status = "generating" /\ exp'[e].claimed # Null
        /\ exp'[e].beat = 0 /\ exp'[e].type = r.type
    BY <1>1, <1>7, <2>1, OperationBeats DEF r
  <2> QED
    BY <1>5, <1>7, <1>10, <2>1, <2>2 DEF ShowsLife
<1>11. CASE SaveDomain(t) /\ quiet' = quiet
  <2>1. pc[t] = "synth" /\ pc'[t] \in {"synth", "synthThrown"} /\ exp'[e] \in {r, Stamped(r)}
    BY <1>2, <1>3, <1>4, <1>11 DEF SaveDomain, FencedWrite, r
  <2>2. /\ Stamped(r).op = r.op /\ Stamped(r).status = r.status /\ Stamped(r).claimed = r.claimed
        /\ Stamped(r).beat = r.beat /\ Stamped(r).type = r.type
    BY <1>1 DEF Stamped, Row
  <2> QED
    BY <1>7, <1>11, <2>1, <2>2 DEF ShowsLife
<1>12. CASE (SynthesisSucceeds(t) \/ BankSucceeds(t)) /\ quiet'[t] = 0
  <2>1. /\ \/ pc[t] = "synth" /\ pc'[t] = "handoff"
           \/ pc[t] = "bank" /\ pc'[t] = "publish"
        /\ OperationWrite(t, Operation(t), FALSE)
    BY <1>2, <1>3, <1>12 DEF SynthesisSucceeds, BankSucceeds, CompleteOperation
  <2>2. /\ exp'[e].op = t /\ exp'[e].status = "generating" /\ exp'[e].claimed # Null
        /\ exp'[e].beat = 0
    BY <1>1, <1>7, <2>1, OperationBeats DEF r
  <2> QED
    BY <1>5, <1>12, <2>1, <2>2 DEF ShowsLife
<1>13. CASE (SynthesisFails(t) \/ BankFails(t)) /\ quiet'[t] = 0
  <2>1. /\ pc[t] \in {"synth", "bank"} /\ pc'[t] = "transient"
        /\ OperationWrite(t, Operation(t), FALSE) \/ exp' = exp
    BY <1>2, <1>3, <1>13 DEF SynthesisFails, BankFails, AbandonOperation
  <2>2. CASE OperationWrite(t, Operation(t), FALSE)
    <3>1. /\ exp'[e].op = t /\ exp'[e].status = "generating" /\ exp'[e].claimed # Null
          /\ exp'[e].beat = 0
      BY <1>1, <1>7, <2>1, <2>2, OperationBeats DEF r
    <3> QED
      BY <1>5, <1>13, <2>1, <3>1 DEF ShowsLife
  <2>3. CASE exp' = exp
    <3>1. exp'[e] = r /\ r.beat \in Int
      BY <1>1, <2>3, LimitsAreNatural DEF r, Row, Stamp, Old, Null
    <3> QED
      BY <1>1, <1>5, <1>7, <1>13, <2>1, <3>1 DEF ShowsLife
  <2> QED
    BY <2>1, <2>2, <2>3
<1>14. CASE Handoff(t) /\ quiet'[t] = 0
  <2>1. pc'[t] = "bankBegin" /\ exp'[e] = BankRow(r, t) /\ pc[t] = "handoff"
    BY <1>2, <1>3, <1>4, <1>14 DEF Handoff, FencedWrite, r
  <2> QED
    BY <1>1, <1>7, <1>14, <2>1, OwnWrites DEF ShowsLife
<1>15. ~ (SynthesisIsEmpty(t) \/ Publish(t) \/ Release(t) \/ MarkFailed(t))
  BY <1>2, <1>3 DEF SynthesisIsEmpty, CompleteOperation, Publish, FencedWrite, Release,
     MarkFailed, BestEffortWrite
<1> QED
  BY <1>6, <1>8, <1>9, <1>10, <1>11, <1>12, <1>13, <1>14, <1>15 DEF TimelyAttempt, Advance

-----------------------------------------------------------------------------
(* The pace is an invariant, with one Retry request at a time. *)

OneRetryAtATime == \A g, h \in Handler : g = h

LEMMA PaceStarts == TimelyInit => PaceInv
BY InitInv, PaceIsWellInside
DEF TimelyInit, PaceInv, PaceIsKept, RetriedRowHasFailed, HealthyAttemptsShowLife, Healthy, Live, Init

\* A step of another keeps the life a row shows if it leaves the attempts that
\* are healthy where they were, and their rows or only stamps or reaps them.
LEMMA OthersKeepLife ==
  ASSUME PaceInv, row' = row, NEW t \in Token, Healthy(t), pc'[t] = pc[t], quiet'[t] = quiet[t],
         exp'[row[t]] \in {exp[row[t]], Stamped(exp[row[t]]), Reaped(exp[row[t]])}
  PROVE  ShowsLife(exp'[row'[t]], t, pc'[t], quiet'[t])
<1>1. /\ ShowsLife(exp[row[t]], t, pc[t], quiet[t]) /\ exp[row[t]] \in Row
      /\ pc[t] \in AttemptState /\ quiet[t] \in Nat
  BY DEF PaceInv, IInv, TypeOK, PaceIsKept, HealthyAttemptsShowLife, ClaimedAttemptHasRow, Healthy, Live
<1> QED
  BY <1>1, LifeIsLeftAlone

\* A statement of an attempt (the heartbeats of runInstrumentedOperation too).
LEMMA AttemptKeepsPace ==
  ASSUME PaceInv, NEW t \in Token, TimelyAttempt(t)
  PROVE  PaceInv'
<1>1. Attempt(t) /\ (quiet' = [quiet EXCEPT ![t] = 0] \/ quiet' = quiet)
  BY DEF TimelyAttempt, Attempt
<1>2. AttemptStep(t) /\ IInv'
  BY <1>1, AttemptShape, AttemptInv DEF PaceInv
<1>3. /\ TypeOK /\ row' = row /\ retrying' = retrying /\ row[t] \in Expedition
      /\ pc[t] # "fresh" /\ pc'[t] # "fresh"
      /\ \A u \in Token : u # t => pc'[u] = pc[u] /\ quiet'[u] = quiet[u]
      /\ quiet'[t] \in {0, quiet[t]} /\ quiet' \in [Token -> Nat]
  BY <1>1, <1>2 DEF AttemptStep, PaceInv, PaceIsKept, IInv, TypeOK, ClaimedAttemptHasRow
<1>4. \E q : exp' = exp \/ (Owns(t) /\ exp' = [exp EXCEPT ![row[t]] = q])
  BY <1>1 DEF Attempt, Advance, Confirm, BeginSynthesis, SynthesisSucceeds, SynthesisIsEmpty,
     SynthesisFails, Handoff, BeginBank, BankSucceeds, BankFails, Publish, Release,
     MarkFailed, Touch, Progress, SaveDomain, FencedWrite, BestEffortWrite, WriteRow,
     BeginOperation, CompleteOperation, AbandonOperation, OperationWrite
<1>5. PaceIsKept'
  <2>1. Live(t)' => Live(t)
    BY <1>1 DEF Live, Attempt, Advance, Confirm, BeginSynthesis, SynthesisSucceeds,
       SynthesisIsEmpty, SynthesisFails, Handoff, BeginBank, BankSucceeds, BankFails, Publish,
       Release, MarkFailed, Touch, Progress, SaveDomain
  <2> QED
    BY <1>3, <2>1, PaceIsWellInside DEF PaceInv, PaceIsKept, Live
<1>6. HealthyAttemptsShowLife'
  <2> SUFFICES ASSUME NEW u \in Token, Healthy(u)'
               PROVE  ShowsLife(exp'[row'[u]], u, pc'[u], quiet'[u])
    BY DEF HealthyAttemptsShowLife
  <2>1. CASE u = t
    BY <1>3, <2>1, OwnStepShowsLife
  <2>2. CASE u # t
    <3>1. Healthy(u) /\ pc'[u] = pc[u] /\ quiet'[u] = quiet[u]
      BY <1>3, <2>2 DEF Healthy, Live
    <3>2. exp'[row[u]] = exp[row[u]]
      BY <1>4, <2>2, <3>1, OthersRowIsKept
    <3> QED
      BY <1>3, <3>1, <3>2, OthersKeepLife
  <2> QED
    BY <2>1, <2>2
<1>7. RetriedRowHasFailed'
  <2> SUFFICES ASSUME NEW h \in Handler, retrying[h] # NoExpedition
               PROVE  exp'[retrying[h]].status = "failed"
    BY <1>3 DEF RetriedRowHasFailed
  <2>1. exp[retrying[h]].status = "failed" /\ retrying[h] \in Expedition
    BY <1>3 DEF PaceInv, RetriedRowHasFailed, TypeOK
  <2>2. CASE exp' = exp \/ row[t] # retrying[h]
    <3>1. CASE exp' = exp
      BY <2>1, <3>1
    <3>2. CASE exp' # exp
      <4>1. PICK q : exp' = [exp EXCEPT ![row[t]] = q]
        BY <1>4, <3>2
      <4>2. exp \in [Expedition -> Row] /\ row[t] # retrying[h]
        BY <1>3, <2>2, <3>2 DEF TypeOK
      <4>3. exp'[retrying[h]] = exp[retrying[h]]
        BY <2>1, <4>1, <4>2
      <4> QED
        BY <2>1, <4>3
    <3> QED
      BY <3>1, <3>2
  <2>3. CASE row[t] = retrying[h] /\ exp' # exp
    \* Only the last write of an attempt that has failed is left to write here.
    <3>1. ~ Healthy(t)
      BY <2>1, <2>3 DEF PaceInv, HealthyAttemptsShowLife, ShowsLife
    <3>2. pc[t] \in {"broken", "done"}
      BY <1>3, <3>1 DEF Healthy, Live
    <3>3. MarkFailed(t)
      BY <1>1, <3>2 DEF Attempt, Advance, Confirm, BeginSynthesis, SynthesisSucceeds,
         SynthesisIsEmpty, SynthesisFails, Handoff, BeginBank, BankSucceeds, BankFails, Publish,
         Release, MarkFailed, Touch, Progress, SaveDomain
    <3>4. exp'[row[t]] = FailedRow(exp[row[t]]) /\ exp[row[t]] \in Row
      BY <1>3, <2>3, <3>3 DEF MarkFailed, BestEffortWrite, WriteRow, TypeOK
    <3> QED
      BY <2>3, <3>4, FailedFacts
  <2> QED
    BY <2>2, <2>3
<1> QED
  BY <1>2, <1>5, <1>6, <1>7 DEF PaceInv

\* A request of the learner (start, activate, the two statements of a Retry).
LEMMA LearnerKeepsPace ==
  ASSUME PaceInv, OneRetryAtATime, Learner, quiet' = quiet
  PROVE  PaceInv'
<1>1. /\ TypeOK /\ IInv' /\ row' = row /\ pc' = pc
  BY LearnerInv DEF PaceInv, IInv, Learner, Start, Activate, RetryCheck, RetryWrite, RetryAborts,
     LearnerFrame
<1>2. PaceIsKept'
  BY <1>1 DEF PaceInv, PaceIsKept, Live
<1>3. \A e \in Expedition : exp[e] \in Row /\ AllStamped[e] \in {exp[e], Stamped(exp[e])}
  BY <1>1 DEF AllStamped, TypeOK
<1>4. \A e \in Expedition :
        \/ exp'[e] \in {exp[e], Stamped(exp[e])}
        \/ exp[e].status = "absent"
        \/ exp[e].status = "failed"
           /\ \A h \in Handler : retrying'[h] = NoExpedition
  <2>1. ASSUME NEW x \in Expedition, Start(x) \/ Activate(x)
        PROVE  \A e \in Expedition : exp'[e] \in {exp[e], Stamped(exp[e])} \/ exp[e].status = "absent"
    BY <1>1, <1>3, <2>1 DEF Start, Activate, Exists, AllStamped
  <2>2. ASSUME NEW h \in Handler, RetryWrite(h)
        PROVE  \A e \in Expedition :
                 \/ exp'[e] \in {exp[e], Stamped(exp[e])}
                 \/ exp[e].status = "failed" /\ \A g \in Handler : retrying'[g] = NoExpedition
    <3>1. /\ retrying[h] \in Expedition /\ exp[retrying[h]].status = "failed"
          /\ exp' = [AllStamped EXCEPT ![retrying[h]] = ResetRow(exp[retrying[h]])]
          /\ retrying' = [retrying EXCEPT ![h] = NoExpedition]
      BY <1>1, <2>2 DEF RetryWrite, TypeOK, PaceInv, RetriedRowHasFailed
    <3>2. \A g \in Handler : retrying'[g] = NoExpedition
      BY <1>1, <3>1 DEF OneRetryAtATime, TypeOK
    <3>3. \A e \in Expedition : e # retrying[h] => exp'[e] = AllStamped[e]
      BY <3>1 DEF AllStamped
    <3> QED
      BY <1>3, <3>1, <3>2, <3>3
  <2>3. ASSUME NEW h \in Handler, RetryAborts(h) \/ \E e \in Expedition : RetryCheck(h, e)
        PROVE  exp' = exp
    BY <2>3 DEF RetryAborts, RetryCheck
  <2> QED
    BY <2>1, <2>2, <2>3 DEF Learner
<1>5. HealthyAttemptsShowLife'
  <2> SUFFICES ASSUME NEW t \in Token, Healthy(t)
               PROVE  ShowsLife(exp'[row'[t]], t, pc'[t], quiet'[t])
    BY <1>1 DEF HealthyAttemptsShowLife, Healthy, Live
  <2>1. row[t] \in Expedition /\ exp[row[t]].status = "generating"
    BY DEF PaceInv, HealthyAttemptsShowLife, ShowsLife, IInv, ClaimedAttemptHasRow, Healthy, Live
  <2> QED
    BY <1>1, <1>4, <2>1, OthersKeepLife
<1>6. RetriedRowHasFailed'
  <2> SUFFICES ASSUME NEW h \in Handler, retrying'[h] # NoExpedition
               PROVE  exp'[retrying'[h]].status = "failed"
    BY DEF RetriedRowHasFailed
  <2>1. exp[retrying'[h]].status = "failed" /\ retrying'[h] \in Expedition
    <3>1. CASE retrying'[h] = retrying[h]
      BY <1>1, <3>1 DEF PaceInv, RetriedRowHasFailed, TypeOK
    <3>2. CASE retrying'[h] # retrying[h]
      BY <1>1, <3>2 DEF Learner, Start, Activate, RetryCheck, RetryWrite, RetryAborts, LearnerFrame,
         TypeOK
    <3> QED
      BY <3>1, <3>2
  <2>2. exp'[retrying'[h]] \in {exp[retrying'[h]], Stamped(exp[retrying'[h]])}
    BY <1>4, <2>1
  <2> QED
    BY <1>3, <2>1, <2>2, StampedFacts DEF Same
<1> QED
  BY <1>1, <1>2, <1>5, <1>6 DEF PaceInv

\* A supervisor takes only stale rows, which none that shows life is (a pass of
\* createGenerationSupervisor, a crash and a restart).
LEMMA SupervisorKeepsPace ==
  ASSUME PaceInv, NEW p \in Process, TimelySupervisor(p)
  PROVE  PaceInv'
<1>1. /\ TypeOK /\ IInv' /\ retrying' = retrying
      /\ quiet' = [t \in Token |-> IF pc'[t] = "done" THEN 0 ELSE quiet[t]]
      /\ Supervisor(p)
  BY SupervisorInv DEF PaceInv, IInv, TimelySupervisor, Supervisor, ReapOperations,
     ReapForScaffolds, FailExhausted, PassEnds, PassFails, Crash, Restart, Claim,
     ClaimUndelivered, SupervisorFrame
<1>2. \A e \in Expedition : exp[e] \in Row
  BY <1>1 DEF TypeOK
<1>3. ASSUME NEW t \in Token, Healthy(t)
      PROVE  row[t] \in Expedition /\ ~ GeneratingStaleness(exp[row[t]])
  <2>1. /\ row[t] \in Expedition /\ ShowsLife(exp[row[t]], t, pc[t], quiet[t])
        /\ pc[t] \in AttemptState \ {"fresh", "broken", "done"}
        /\ quiet[t] \in Nat /\ quiet[t] <= Pace
    BY <1>1, <1>3 DEF PaceInv, IInv, ClaimedAttemptHasRow, HealthyAttemptsShowLife, PaceIsKept,
       Healthy, Live, TypeOK
  <2> QED
    BY <1>2, <2>1, LifeIsNotStale
\* A row that was retried as failed is none that is taken.
<1>4. ASSUME NEW h \in Handler, retrying[h] # NoExpedition
      PROVE  retrying[h] \in Expedition /\ exp[retrying[h]].status = "failed"
  BY <1>1, <1>4 DEF PaceInv, RetriedRowHasFailed, TypeOK
<1>5. CASE \E e \in Expedition, t \in Token : Claim(p, e, t) \/ ClaimUndelivered(p, e, t)
  <2>1. PICK e \in Expedition, t \in Token : Claim(p, e, t) \/ ClaimUndelivered(p, e, t)
    BY <1>5
  <2>2. PICK s \in {"confirm", "done"} : pc' = [pc EXCEPT ![t] = s]
    BY <2>1 DEF Claim, ClaimUndelivered
  <2>3. /\ GeneratingStaleness(exp[e]) /\ exp[e].attempts < MaxAttempts /\ pc[t] = "fresh"
        /\ exp' = [exp EXCEPT ![e] = ClaimedRow(exp[e], t)] /\ row' = [row EXCEPT ![t] = e]
    BY <2>1 DEF Claim, ClaimUndelivered, ClaimRow, Claimable
  <2>4. exp[e].status = "generating"
    BY <2>3 DEF GeneratingStaleness
  <2>5. /\ quiet[t] = 0 /\ \A u \in Token : u # t => pc'[u] = pc[u] /\ row'[u] = row[u]
        /\ pc'[t] = s /\ row'[t] = e /\ exp'[e] = ClaimedRow(exp[e], t)
    BY <1>1, <2>2, <2>3 DEF PaceInv, PaceIsKept, TypeOK
  <2>6. PaceIsKept'
    <3>1. quiet' \in [Token -> Nat]
      BY <1>1 DEF PaceInv, PaceIsKept
    <3>2. \A u \in Token : /\ pc'[u] = "fresh" => quiet'[u] = 0
                           /\ Live(u)' => quiet'[u] <= Pace
      BY <1>1, <2>2, <2>5, PaceIsWellInside DEF PaceInv, PaceIsKept, Live
    <3> QED
      BY <3>1, <3>2 DEF PaceIsKept
  <2>7. HealthyAttemptsShowLife'
    <3> SUFFICES ASSUME NEW u \in Token, Healthy(u)'
                 PROVE  ShowsLife(exp'[row'[u]], u, pc'[u], quiet'[u])
      BY DEF HealthyAttemptsShowLife
    <3>1. CASE u = t
      <4>1. s = "confirm" /\ quiet'[t] = 0
        BY <1>1, <2>5, <3>1 DEF Healthy, Live
      <4>2. LET q == ClaimedRow(exp[e], t) IN
            /\ q.op = t /\ q.status = "generating" /\ q.claimed = 0 /\ q.beat = Null
            /\ q.type = "enrichment"
        BY <1>2, <2>4 DEF ClaimedRow, Stamped, Joining, Row
      <4> QED
        BY <2>5, <3>1, <4>1, <4>2 DEF ShowsLife, Null
    <3>2. CASE u # t
      <4>1. Healthy(u) /\ pc'[u] = pc[u] /\ row'[u] = row[u] /\ quiet'[u] = quiet[u]
        BY <1>1, <2>5, <3>2 DEF Healthy, Live
      <4>2. row[u] # e /\ row[u] \in Expedition
        BY <1>3, <2>3, <4>1
      <4>3. exp'[row[u]] = exp[row[u]]
        BY <2>3, <4>2
      <4> QED
        BY <4>1, <4>3 DEF PaceInv, HealthyAttemptsShowLife
    <3> QED
      BY <3>1, <3>2
  <2>8. RetriedRowHasFailed'
    BY <1>1, <1>4, <2>3, <2>4 DEF RetriedRowHasFailed
  <2> QED
    BY <1>1, <2>6, <2>7, <2>8 DEF PaceInv
<1>6. CASE ~ \E e \in Expedition, t \in Token : Claim(p, e, t) \/ ClaimUndelivered(p, e, t)
  <2>1. /\ row' = row
        /\ \A t \in Token : pc'[t] = pc[t] \/ (pc'[t] = "done" /\ pc[t] # "fresh")
    BY <1>1, <1>6, SentinelsAreNoMembers
    DEF Supervisor, ReapOperations, ReapForScaffolds, FailExhausted, PassEnds, PassFails, Crash,
        Restart, StoreFrame, PaceInv, IInv, FreshAttemptHasNoHost
  <2>2. \A e \in Expedition : \/ exp'[e] \in {exp[e], Reaped(exp[e])}
                              \/ GeneratingStaleness(exp[e]) /\ exp'[e] = FailedByBudget(exp[e])
    BY <1>1, <1>6 DEF Supervisor, ReapOperations, ReapForScaffolds, FailExhausted, PassEnds,
       PassFails, Crash, Restart, StoreFrame, Exhausted
  <2>3. PaceIsKept'
    <3>1. quiet' \in [Token -> Nat]
      BY <1>1 DEF PaceInv, PaceIsKept
    <3>2. \A u \in Token : /\ pc'[u] = "fresh" => quiet'[u] = 0
                           /\ Live(u)' => quiet'[u] <= Pace
      BY <1>1, <2>1 DEF PaceInv, PaceIsKept, Live
    <3> QED
      BY <3>1, <3>2 DEF PaceIsKept
  <2>4. HealthyAttemptsShowLife'
    <3> SUFFICES ASSUME NEW u \in Token, Healthy(u)'
                 PROVE  ShowsLife(exp'[row'[u]], u, pc'[u], quiet'[u])
      BY DEF HealthyAttemptsShowLife
    <3>1. Healthy(u) /\ pc'[u] = pc[u] /\ quiet'[u] = quiet[u]
      BY <1>1, <2>1 DEF Healthy, Live
    <3>2. exp'[row[u]] \in {exp[row[u]], Reaped(exp[row[u]])}
      BY <1>3, <2>2, <3>1
    <3> QED
      BY <2>1, <3>1, <3>2, OthersKeepLife
  <2>5. RetriedRowHasFailed'
    <3> SUFFICES ASSUME NEW h \in Handler, retrying[h] # NoExpedition
                 PROVE  exp'[retrying[h]].status = "failed"
      BY <1>1 DEF RetriedRowHasFailed
    <3>1. exp[retrying[h]] \in Row /\ exp[retrying[h]].status = "failed" /\ retrying[h] \in Expedition
      BY <1>2, <1>4
    <3> QED
      BY <2>2, <3>1, ReapedFacts, FailedFacts DEF Same
  <2> QED
    BY <1>1, <2>3, <2>4, <2>5 DEF PaceInv
<1> QED
  BY <1>5, <1>6

\* Time passes for the rows and for the attempts alike.
LEMMA TickKeepsPace ==
  ASSUME PaceInv, TimelyTick
  PROVE  PaceInv'
<1>1. /\ TypeOK /\ IInv' /\ row' = row /\ pc' = pc /\ retrying' = retrying
      /\ exp' = [e \in Expedition |-> AgedRow(exp[e])]
      /\ quiet' = [t \in Token |-> IF Live(t) THEN quiet[t] + 1 ELSE 0]
      /\ \A t \in Token : Live(t) => quiet[t] < Pace
      /\ quiet \in [Token -> Nat]
  BY TickInv DEF TimelyTick, Tick, PaceInv, IInv, PaceIsKept
<1>2. PaceIsKept'
  <2>1. quiet' \in [Token -> Nat]
    BY <1>1
  <2>2. \A t \in Token : /\ pc'[t] = "fresh" => quiet'[t] = 0
                         /\ Live(t)' => quiet'[t] <= Pace
    BY <1>1, PaceIsWellInside DEF Live
  <2> QED
    BY <2>1, <2>2 DEF PaceIsKept
<1>3. HealthyAttemptsShowLife'
  <2> SUFFICES ASSUME NEW t \in Token, Healthy(t)
               PROVE  ShowsLife(exp'[row[t]], t, pc[t], quiet'[t])
    BY <1>1 DEF HealthyAttemptsShowLife, Healthy, Live
  <2>1. /\ row[t] \in Expedition /\ exp[row[t]] \in Row /\ pc[t] \in AttemptState
        /\ ShowsLife(exp[row[t]], t, pc[t], quiet[t]) /\ quiet'[t] = quiet[t] + 1
    BY <1>1 DEF PaceInv, IInv, ClaimedAttemptHasRow, HealthyAttemptsShowLife, Healthy, Live, TypeOK
  <2>2. exp'[row[t]] = AgedRow(exp[row[t]])
    BY <1>1, <2>1
  <2> QED
    BY <1>1, <2>1, <2>2, LifeAges
<1>4. RetriedRowHasFailed'
  BY <1>1, AgedFacts DEF PaceInv, RetriedRowHasFailed, TypeOK, Same
<1> QED
  BY <1>1, <1>2, <1>3, <1>4 DEF PaceInv

\* Of one Retry at a time (two that race are a run of their own), an attempt
\* that keeps the heartbeat's pace keeps its claim until its outcome is
\* written, for every number of expeditions, processes and attempts and every
\* window of two paces or more: the staleness predicate never takes a row from
\* a live attempt, while its operation row is missing, across the switch of
\* operations, after a reap or a request on another row.
THEOREM HealthyKeepsClaim ==
  OneRetryAtATime => (TimelySpec => []HealthyAttemptKeepsItsClaim)
<1> SUFFICES ASSUME OneRetryAtATime
             PROVE  TimelySpec => []HealthyAttemptKeepsItsClaim
  OBVIOUS
<1>1. PaceInv /\ [TimelyNext]_timelyVars => PaceInv'
  <2>1. ASSUME PaceInv, UNCHANGED timelyVars
        PROVE  PaceInv'
    <3>1. IInv' /\ UNCHANGED <<exp, pc, row, retrying, quiet>>
      BY <2>1, StutterInv DEF PaceInv, timelyVars, vars
    <3> QED
      BY <2>1, <3>1 DEF PaceInv, PaceIsKept, RetriedRowHasFailed, HealthyAttemptsShowLife,
         Healthy, Live
  <2> QED
    BY <2>1, AttemptKeepsPace, LearnerKeepsPace, SupervisorKeepsPace, TickKeepsPace DEF TimelyNext
<1>2. PaceInv => HealthyAttemptKeepsItsClaim
  BY DEF PaceInv, HealthyAttemptsShowLife, ShowsLife, HealthyAttemptKeepsItsClaim, Healthy, Owns
<1> QED
  BY <1>1, <1>2, PaceStarts, PTL DEF TimelySpec

=============================================================================
