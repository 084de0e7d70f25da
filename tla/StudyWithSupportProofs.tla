------------------------- MODULE StudyWithSupportProofs -------------------------
(***************************************************************************)
(* Theorems of StudyWithSupport, for any number of detours, processes,     *)
(* operation ids, handlers, generations and outlines, and every bound.     *)
(*                                                                         *)
(* First the detours: the steps of DetourNext and the write                *)
(* PublishReference keep one inductive invariant, DetourInv.  Then the     *)
(* source: its invariant says what the requests in flight know.  A row     *)
(* that was read carried an adopted identity and an entry an accepted one, *)
(* so a request accepted on stale reads still acts under an identity that  *)
(* was adopted.                                                            *)
(***************************************************************************)
EXTENDS StudyWithSupport, FiniteSetTheorems, TLAPS

-----------------------------------------------------------------------------
(* The detours. *)


\* An attempt exists from its claim on, which gives it a detour.
ClaimedHasDetour == \A t \in Token : pc[t] # "fresh" => of[t] \in Detour

FreshIsUnused ==
  \A t \in Token : pc[t] = "fresh" =>
    of[t] = NoDetour /\ on[t] = NoProcess /\ run[t].status = "none"

\* The fence of a detour is its latest claim.
FenceIsLatest ==
  \A d \in Detour : detour[d].token # NoToken =>
    /\ pc[detour[d].token] # "fresh"
    /\ of[detour[d].token] = d
    /\ latest[d] = detour[d].token

AbsentIsBlank ==
  \A d \in Detour : detour[d].status = "absent" =>
    detour[d].token = NoToken /\ detour[d].attempts = 0 /\ detour[d].steps = {}

StepsAreFinite == \A d \in Detour : IsFiniteSet(detour[d].steps)

Published(t) == \E s \in Row(t).steps : s.by = t

CompletedHasPublished == \A t \in Token : pc[t] = "complete" => Published(t)

ClaimsOf(d) == {t \in Token : of[t] = d}

\* Each claim cost an attempt, of this restart or of an earlier one.
ClaimsArePaid ==
  \A d \in Detour :
    /\ IsFiniteSet(ClaimsOf(d))
    /\ Cardinality(ClaimsOf(d)) <= detour[d].attempts + MaxAttempts * restarts[d]

DetourInv ==
  /\ DetourTypeOK
  /\ ClaimedHasDetour /\ FreshIsUnused
  /\ FenceIsLatest
  /\ AbsentIsBlank /\ ContentMatchesStatus
  /\ StepsAreFinite /\ StepsAreOneAttempts
  /\ CompletedHasPublished /\ SuccessWasPublished
  /\ ClaimsArePaid

-----------------------------------------------------------------------------
(* What each statement makes of a row. *)

Contentful(r) ==
  /\ r.status = "ready" => r.steps # {}
  /\ r.steps # {} => r.status \in {"ready", "hidden"}
  /\ r.status = "absent" => r.token = NoToken /\ r.attempts = 0 /\ r.steps = {}

\* A row that keeps its steps and its attempts, and has the fence or none.
Calm(r, q) ==
  /\ q \in DetourRow /\ Contentful(q)
  /\ q.steps = r.steps /\ q.attempts = r.attempts /\ q.token \in {r.token, NoToken}

LEMMA StampFacts == 0 \in Stamp /\ Null \in Stamp /\ 0 \in 0..MaxAttempts
BY DetourLimits DEF Stamp, Old, Null

LEMMA AgedFacts == ASSUME NEW s \in Stamp PROVE Aged(s) \in Stamp
BY DetourLimits DEF Aged, Stamp, Null, Old

LEMMA SameIsCalm ==
  ASSUME NEW r \in DetourRow, Contentful(r) PROVE Calm(r, r)
BY DEF Calm, DetourRow

LEMMA AgedIsCalm ==
  ASSUME NEW r \in DetourRow, Contentful(r)
  PROVE  Calm(r, [r EXCEPT !.claimed = Aged(@), !.updated = Aged(@)])
<1>1. Aged(r.claimed) \in Stamp /\ Aged(r.updated) \in Stamp
  BY AgedFacts DEF DetourRow
<1> QED BY <1>1 DEF Calm, DetourRow, Contentful

LEMMA PendingIsCalm ==
  ASSUME NEW r \in DetourRow, Contentful(r), r.status \in {"absent", "hidden"}
  PROVE  Calm(r, PendingRow(r))
<1>1. Absent \in DetourRow
  BY StampFacts DEF Absent, DetourRow, Status
<1>2. CASE r.status = "absent"
  <2>1. PendingRow(r) = [Absent EXCEPT !.status = "generating"]
    BY <1>2 DEF PendingRow
  <2> QED BY <1>1, <1>2, <2>1, StampFacts DEF Calm, Contentful, Absent, DetourRow, Status
<1>3. CASE r.status = "hidden"
  <2>1. PendingRow(r) = [Touched(r) EXCEPT !.status = IF r.steps = {} THEN "generating" ELSE "ready"]
    BY <1>3 DEF PendingRow
  <2> QED BY <1>3, <2>1, StampFacts DEF Calm, Contentful, Touched, DetourRow, Status
<1> QED BY <1>2, <1>3

LEMMA EndedIsCalm ==
  ASSUME NEW r \in DetourRow, Contentful(r), r.status = "generating"
  PROVE  Calm(r, ReleasedRow(r)) /\ Calm(r, FailedRow(r)) /\ Calm(r, ExhaustedRow(r))
BY StampFacts
DEF Calm, Contentful, ReleasedRow, FailedRow, ExhaustedRow, Touched, DetourRow, Status

LEMMA HiddenIsCalm ==
  ASSUME NEW r \in DetourRow, Contentful(r), r.status \in {"ready", "failed"}
  PROVE  Calm(r, HiddenRow(r))
BY StampFacts DEF Calm, Contentful, HiddenRow, Touched, DetourRow, Status

LEMMA RestartedFacts ==
  ASSUME NEW r \in DetourRow, Contentful(r), r.status = "failed"
  PROVE  LET q == RestartedRow(r) IN
         /\ q \in DetourRow /\ Contentful(q)
         /\ q.steps = {} /\ q.attempts = 0 /\ q.token = NoToken
BY StampFacts DEF Contentful, RestartedRow, Touched, DetourRow, Status

LEMMA ClaimedFacts ==
  ASSUME NEW r \in DetourRow, Contentful(r), r.status = "generating", NEW t \in Token,
         r.attempts < MaxAttempts
  PROVE  LET q == ClaimedRow(r, t) IN
         /\ q \in DetourRow /\ Contentful(q)
         /\ q.steps = {} /\ q.attempts = r.attempts + 1 /\ q.token = t
<1>1. r.attempts + 1 \in 0..MaxAttempts
  BY DetourLimits DEF DetourRow
<1> QED BY <1>1, StampFacts DEF Contentful, ClaimedRow, Touched, DetourRow, Status

LEMMA PublishedFacts ==
  ASSUME NEW r \in DetourRow, Contentful(r), r.status = "generating",
         NEW new \in SUBSET Step, new # {}
  PROVE  LET q == PublishedRow(r, new) IN
         /\ q \in DetourRow /\ Contentful(q)
         /\ q.steps = new /\ q.attempts = r.attempts /\ q.token = NoToken
BY StampFacts DEF Contentful, PublishedRow, Touched, DetourRow, Status

-----------------------------------------------------------------------------
(* What the writes of steps make of a detour's steps. *)

Numbered(S) == IsFiniteSet(S) /\ {s.ordinal : s \in S} = 0..(Cardinality(S) - 1)

\* Numbers that go up to the number of members are given once.
LEMMA NumberedOnce ==
  ASSUME NEW S \in SUBSET Step, Numbered(S)
  PROVE  \A s, u \in S : s.ordinal = u.ordinal => s = u
<1> DEFINE f == [s \in S |-> s.ordinal]
           T == 0..(Cardinality(S) - 1)
<1>1. Cardinality(S) \in Nat
  BY FS_CardinalityType DEF Numbered
<1>2. IsFiniteSet(T) /\ Cardinality(T) = Cardinality(S)
  BY <1>1, FS_Interval
<1>3. f \in Surjection(S, T)
  BY DEF Numbered, Surjection
<1>4. f \in Injection(S, T)
  BY <1>2, <1>3, FS_SurjSameCardinalityImpliesInj DEF Numbered
<1> QED BY <1>4 DEF Injection, IsInjective

LEMMA StepsOfFacts ==
  ASSUME NEW o \in Outline, NEW t \in Token
  PROVE  LET S == StepsOf(t, o) IN
         /\ S \in SUBSET Step /\ S # {} /\ Numbered(S)
         /\ \A s \in S : s.by = t
<1> DEFINE S == StepsOf(t, o)
           f == [s \in o |-> [s EXCEPT !.by = t]]
<1>1. o \in SUBSET Step /\ o # {} /\ Numbered(o)
  BY OutlineIsOrdered DEF Numbered
<1>2. \A s \in o : f[s] \in Step /\ f[s].ordinal = s.ordinal /\ f[s].by = t
  BY <1>1 DEF Step
<1>3. S = {f[s] : s \in o}
  BY DEF StepsOf
<1>4. f \in Surjection(o, S)
  BY <1>3 DEF Surjection
<1> HIDE DEF f, S
<1>5. f \in Injection(o, S)
  <2>1. \A s, u \in o : f[s] = f[u] => s = u
    BY <1>1, <1>2, NumberedOnce
  <2> QED BY <1>4, <2>1 DEF Injection, Surjection, IsInjective
<1>6. IsFiniteSet(S) /\ Cardinality(S) = Cardinality(o)
  BY <1>1, <1>4, <1>5, FS_Surjection DEF Numbered
<1>7. {s.ordinal : s \in S} = {s.ordinal : s \in o}
  BY <1>2, <1>3
<1>8. S \in SUBSET Step /\ S # {} /\ \A s \in S : s.by = t
  BY <1>1, <1>2, <1>3
<1> QED BY <1>1, <1>6, <1>7, <1>8 DEF Numbered, S

LEMMA WithReferenceFacts ==
  ASSUME NEW S \in SUBSET Step, Numbered(S), NEW p \in Pin
  PROVE  LET W == WithReference(S, p) IN
         /\ W \in SUBSET Step /\ W # {} /\ Numbered(W) /\ S \subseteq W
         /\ \A s \in W \ S : s.by = NoToken /\ s.pin = p
<1> DEFINE W == WithReference(S, p)
           n == NextOrdinal(S)
           new == [ordinal |-> n, by |-> NoToken, pin |-> p]
<1>1. CASE \E s \in S : s.pin = p
  <2>1. W = S
    BY <1>1 DEF WithReference
  <2> QED BY <1>1, <2>1
<1>2. CASE ~\E s \in S : s.pin = p
  <2>1. W = S \cup {new} /\ new \notin S
    BY <1>2 DEF WithReference
  <2>2. Cardinality(S) \in Nat
    BY FS_CardinalityType DEF Numbered
  <2>3. n = Cardinality(S)
    <3>1. CASE S = {}
      BY <3>1, FS_EmptySet DEF NextOrdinal
    <3>2. CASE S # {}
      <4>1. Cardinality(S) # 0
        BY <3>2, FS_EmptySet DEF Numbered
      <4>2. Max(0..(Cardinality(S) - 1)) = Cardinality(S) - 1
        BY <2>2, <4>1 DEF Max
      <4> DEFINE O == {s.ordinal : s \in S}
      <4>3. n = Max(O) + 1 /\ O = 0..(Cardinality(S) - 1)
        BY <3>2 DEF NextOrdinal, Numbered
      <4> HIDE DEF n, O
      <4> QED BY <2>2, <4>2, <4>3
    <3> QED BY <3>1, <3>2
  <2>4. IsFiniteSet(W) /\ Cardinality(W) = Cardinality(S) + 1
    BY <2>1, FS_AddElement DEF Numbered
  <2>5. {s.ordinal : s \in W} = {s.ordinal : s \in S} \cup {n}
    BY <2>1
  <2>6. {s.ordinal : s \in W} = 0..(Cardinality(W) - 1)
    BY <2>2, <2>3, <2>4, <2>5 DEF Numbered
  <2>7. new \in Step
    BY <2>2, <2>3 DEF Step
  <2>8. new.by = NoToken /\ new.pin = p
    OBVIOUS
  <2> HIDE DEF W, new
  <2> QED BY <2>1, <2>4, <2>6, <2>7, <2>8 DEF Numbered, W
<1> QED BY <1>1, <1>2

-----------------------------------------------------------------------------
(* The shape of a step that is neither a claim nor a Retry. *)

\* A row that keeps what it had, its steps followed by those of its last claim
\* or of the authors given.
Grown(r, q, last, authors) ==
  /\ q \in DetourRow /\ Contentful(q)
  /\ r.steps \subseteq q.steps /\ Numbered(q.steps)
  /\ \A s \in q.steps \ r.steps : s.by \in ({last} \cap Token) \cup authors
  /\ q.attempts = r.attempts /\ q.token \in {r.token, NoToken}

ControlTypes ==
  /\ run \in [Token -> [status : {"none", "running", "failed", "succeeded"}, beat : Stamp]]
  /\ pc \in [Token -> AttemptState]
  /\ on \in [Token -> Process \cup {NoProcess}]
  /\ sup \in [Process -> {"down", "idle", "exhaust", "claim"}]

\* Attempts move on, none begins; what completes has published.
Moves ==
  /\ ControlTypes'
  /\ \A t \in Token :
       /\ pc'[t] = "fresh" <=> pc[t] = "fresh"
       /\ pc[t] = "fresh" => run'[t].status = "none" /\ on'[t] = NoProcess
       /\ pc'[t] = "complete" /\ pc[t] # "complete" => \E s \in detour'[of[t]].steps : s.by = t
       /\ run'[t].status = "succeeded" => run[t].status = "succeeded" \/ pc[t] = "complete"

Ordinary(authors) ==
  /\ detour' \in [Detour -> DetourRow]
  /\ \A d \in Detour : Grown(detour[d], detour'[d], latest[d], authors)
  /\ Moves
  /\ UNCHANGED <<of, latest, restarts>>

LEMMA InvFacts ==
  ASSUME DetourInv, NEW d \in Detour
  PROVE  detour[d] \in DetourRow /\ Contentful(detour[d]) /\ Numbered(detour[d].steps)
BY DEF DetourInv, DetourTypeOK, Contentful, ContentMatchesStatus, AbsentIsBlank, Numbered,
       StepsAreFinite, StepsAreOneAttempts

LEMMA CalmGrows ==
  ASSUME NEW r, NEW q, NEW last, NEW authors, Numbered(r.steps), Calm(r, q)
  PROVE  Grown(r, q, last, authors)
BY DEF Calm, Grown

\* A step that leaves every row calm and moves attempts.
LEMMA CalmStep ==
  ASSUME DetourInv, DOMAIN detour' = Detour, detour' = [d \in Detour |-> detour'[d]],
         \A d \in Detour : Calm(detour[d], detour'[d]),
         Moves, UNCHANGED <<of, latest, restarts>>
  PROVE  Ordinary({})
<1>1. \A d \in Detour : Grown(detour[d], detour'[d], latest[d], {})
  BY InvFacts, CalmGrows
<1>2. detour' \in [Detour -> DetourRow]
  BY DEF Calm
<1> QED BY <1>1, <1>2 DEF Ordinary

\* A step that writes one row at most, and calmly.
LEMMA CalmWrite ==
  ASSUME DetourInv, NEW d \in Detour, NEW q, Calm(detour[d], q),
         detour' = detour \/ detour' = [detour EXCEPT ![d] = q],
         Moves, UNCHANGED <<of, latest, restarts>>
  PROVE  Ordinary({})
<1>1. detour \in [Detour -> DetourRow]
  BY DEF DetourInv, DetourTypeOK
<1>2. \A x \in Detour : Calm(detour[x], detour'[x])
  BY <1>1, InvFacts, SameIsCalm
<1>3. DOMAIN detour' = Detour /\ detour' = [x \in Detour |-> detour'[x]]
  BY <1>1
<1> QED BY <1>2, <1>3, CalmStep

LEMMA OrdinaryInv ==
  ASSUME DetourInv, NEW authors \in SUBSET {NoToken}, Ordinary(authors)
  PROVE  DetourInv'
<1>1. /\ DetourTypeOK /\ UNCHANGED <<of, latest, restarts>> /\ Moves
      /\ \A d \in Detour : /\ detour'[d].attempts = detour[d].attempts
                           /\ detour'[d].token \in {detour[d].token, NoToken}
                           /\ detour[d].steps \subseteq detour'[d].steps
                           /\ Numbered(detour'[d].steps) /\ Contentful(detour'[d])
                           /\ \A s \in detour'[d].steps \ detour[d].steps :
                                s.by \in {latest[d], NoToken}
  BY DEF DetourInv, Ordinary, Grown
<1>2. DetourTypeOK'
  BY <1>1 DEF DetourTypeOK, Ordinary, Moves, ControlTypes
<1>3. ClaimedHasDetour' /\ FreshIsUnused'
  BY <1>1 DEF DetourInv, ClaimedHasDetour, FreshIsUnused, Moves
<1>4. FenceIsLatest'
  <2> SUFFICES ASSUME NEW d \in Detour, detour'[d].token # NoToken
               PROVE  pc'[detour'[d].token] # "fresh" /\ of'[detour'[d].token] = d
                      /\ latest'[d] = detour'[d].token
    BY DEF FenceIsLatest
  <2>1. detour'[d].token = detour[d].token /\ detour[d].token \in Token
    BY <1>1 DEF DetourTypeOK, DetourRow
  <2> QED BY <1>1, <2>1 DEF DetourInv, FenceIsLatest, Moves
<1>5. AbsentIsBlank' /\ ContentMatchesStatus'
  BY <1>1 DEF Contentful, AbsentIsBlank, ContentMatchesStatus
<1>6. StepsAreFinite' /\ StepsAreOneAttempts'
  BY <1>1 DEF DetourInv, Numbered, StepsAreFinite, StepsAreOneAttempts
<1>7. CompletedHasPublished' /\ SuccessWasPublished'
  <2> SUFFICES ASSUME NEW t \in Token, pc'[t] = "complete" \/ run'[t].status = "succeeded"
               PROVE  \E s \in detour'[of[t]].steps : s.by = t
    BY <1>1 DEF CompletedHasPublished, SuccessWasPublished, Published, Row
  <2>1. CASE pc'[t] = "complete" /\ pc[t] # "complete"
    BY <1>1, <2>1 DEF Moves
  <2>2. CASE pc[t] = "complete" \/ run[t].status = "succeeded"
    <3>1. of[t] \in Detour /\ Published(t)
      BY <2>2 DEF DetourInv, ClaimedHasDetour, FreshIsUnused, CompletedHasPublished,
                  SuccessWasPublished, Published
    <3> QED BY <1>1, <3>1 DEF Published, Row
  <2> QED BY <1>1, <2>1, <2>2 DEF Moves
<1>8. ClaimsArePaid'
  BY <1>1 DEF DetourInv, ClaimsArePaid, ClaimsOf
<1> QED BY <1>2, <1>3, <1>4, <1>5, <1>6, <1>7, <1>8 DEF DetourInv

-----------------------------------------------------------------------------
(* Claims and Retries. *)

LEMMA ClaimInv ==
  ASSUME DetourInv, NEW p \in Process, NEW d \in Detour, NEW t \in Token, Claim(p, d, t)
  PROVE  DetourInv'
<1> DEFINE q == ClaimedRow(detour[d], t)
<1>1. /\ DetourTypeOK /\ detour[d].status = "generating" /\ detour[d].attempts < MaxAttempts
      /\ detour[d] \in DetourRow /\ Contentful(detour[d])
      /\ pc[t] = "fresh" /\ of[t] = NoDetour /\ NoDetour \notin Detour
      /\ detour[d].steps = {}
  BY InvFacts, DetourSentinels
  DEF Claim, Claimable, GeneratingStaleness, DetourInv, FreshIsUnused, Contentful
<1>2. /\ q \in DetourRow /\ Contentful(q)
      /\ q.steps = {} /\ q.attempts = detour[d].attempts + 1 /\ q.token = t
  BY <1>1, ClaimedFacts
<1>3. /\ detour' = [detour EXCEPT ![d] = q] /\ of' = [of EXCEPT ![t] = d]
      /\ latest' = [latest EXCEPT ![d] = t] /\ UNCHANGED <<run, restarts>>
  BY DEF Claim
<1>4. PICK s \in {"begin", "done"} :
        pc' = [pc EXCEPT ![t] = s] /\ on' \in {on, [on EXCEPT ![t] = p]}
  BY DEF Claim
<1> HIDE DEF q
<1>5. DetourTypeOK'
  BY <1>1, <1>2, <1>3, <1>4 DEF DetourTypeOK, Claim, AttemptState
<1>6. ClaimedHasDetour' /\ FreshIsUnused'
  BY <1>1, <1>3, <1>4 DEF DetourInv, DetourTypeOK, ClaimedHasDetour, FreshIsUnused
<1>7. FenceIsLatest'
  <2> SUFFICES ASSUME NEW x \in Detour, detour'[x].token # NoToken
               PROVE  pc'[detour'[x].token] # "fresh" /\ of'[detour'[x].token] = x
                      /\ latest'[x] = detour'[x].token
    BY DEF FenceIsLatest
  <2>1. CASE x = d
    BY <1>1, <1>2, <1>3, <1>4, <2>1 DEF DetourTypeOK
  <2>2. CASE x # d
    <3>1. detour'[x] = detour[x] /\ latest'[x] = latest[x] /\ detour[x].token \in Token
      BY <1>1, <1>3, <2>2 DEF DetourTypeOK, DetourRow
    <3>2. pc[detour[x].token] # "fresh" /\ of[detour[x].token] = x /\ latest[x] = detour[x].token
      BY <3>1 DEF DetourInv, FenceIsLatest
    <3> QED BY <1>1, <1>3, <1>4, <3>1, <3>2 DEF DetourTypeOK
  <2> QED BY <2>1, <2>2
<1>8. AbsentIsBlank' /\ ContentMatchesStatus'
  BY <1>1, <1>2, <1>3 DEF DetourInv, DetourTypeOK, Contentful, AbsentIsBlank, ContentMatchesStatus
<1>9. StepsAreFinite' /\ StepsAreOneAttempts'
  BY <1>1, <1>2, <1>3 DEF DetourInv, DetourTypeOK, StepsAreFinite, StepsAreOneAttempts
<1>10. CompletedHasPublished' /\ SuccessWasPublished'
  <2>1. \A x \in Detour : detour'[x].steps = detour[x].steps
    BY <1>1, <1>2, <1>3 DEF DetourTypeOK
  <2>2. \A u \in Token : pc'[u] = "complete" \/ run'[u].status = "succeeded" =>
          u # t /\ of'[u] = of[u] /\ of[u] \in Detour /\ Published(u)
    BY <1>1, <1>3, <1>4 DEF DetourInv, DetourTypeOK, ClaimedHasDetour, FreshIsUnused,
       CompletedHasPublished, SuccessWasPublished, Published
  <2> QED BY <2>1, <2>2 DEF CompletedHasPublished, SuccessWasPublished, Published, Row
<1>11. ClaimsArePaid'
  <2> SUFFICES ASSUME NEW x \in Detour
               PROVE  /\ IsFiniteSet(ClaimsOf(x)')
                      /\ Cardinality(ClaimsOf(x)') <= detour'[x].attempts + MaxAttempts * restarts[x]
    BY <1>3 DEF ClaimsArePaid
  <2>1. IsFiniteSet(ClaimsOf(x)) /\ Cardinality(ClaimsOf(x)) <= detour[x].attempts + MaxAttempts * restarts[x]
    BY DEF DetourInv, ClaimsArePaid
  <2>2. CASE x = d
    <3>1. ClaimsOf(x)' = ClaimsOf(x) \cup {t} /\ t \notin ClaimsOf(x)
      BY <1>1, <1>3, <2>2 DEF DetourTypeOK, ClaimsOf
    <3>2. IsFiniteSet(ClaimsOf(x)') /\ Cardinality(ClaimsOf(x)') = Cardinality(ClaimsOf(x)) + 1
      BY <2>1, <3>1, FS_AddElement
    <3>3. detour'[x].attempts = detour[x].attempts + 1
      BY <1>1, <1>2, <1>3, <2>2 DEF DetourTypeOK
    <3>4. Cardinality(ClaimsOf(x)) \in Nat /\ detour[x].attempts \in Nat
      BY <1>1, <2>1, <2>2, FS_CardinalityType DEF DetourRow
    <3>5. MaxAttempts * restarts[x] \in Nat
      BY <1>1, DetourLimits DEF DetourTypeOK
    <3> QED BY <2>1, <3>2, <3>3, <3>4, <3>5
  <2>3. CASE x # d
    <3>1. ClaimsOf(x)' = ClaimsOf(x) /\ detour'[x] = detour[x]
      BY <1>1, <1>3, <2>3 DEF DetourTypeOK, ClaimsOf
    <3> QED BY <2>1, <3>1
  <2> QED BY <2>2, <2>3
<1> QED BY <1>5, <1>6, <1>7, <1>8, <1>9, <1>10, <1>11 DEF DetourInv

LEMMA OneMore == ASSUME NEW a \in Nat, NEW b \in Nat PROVE a * (b + 1) = a * b + a /\ a * b \in Nat
OBVIOUS

LEMMA OneMoreAtMost ==
  ASSUME NEW a \in Nat, NEW b \in Nat, NEW n \in Nat, NEW k \in Nat, k <= a, n <= k + a * b
  PROVE  n <= a * (1 + b)
OBVIOUS

LEMMA RetryInv ==
  ASSUME DetourInv, NEW d \in Detour, Retry(d) PROVE DetourInv'
<1> DEFINE q == RestartedRow(detour[d])
<1>1. /\ DetourTypeOK /\ detour[d].status = "failed"
      /\ detour[d] \in DetourRow /\ Contentful(detour[d]) /\ detour[d].steps = {}
  BY InvFacts DEF Retry, DetourInv, Contentful
<1>2. q \in DetourRow /\ Contentful(q) /\ q.steps = {} /\ q.attempts = 0 /\ q.token = NoToken
  BY <1>1, RestartedFacts
<1>3. /\ detour' = [detour EXCEPT ![d] = q] /\ latest' = [latest EXCEPT ![d] = NoToken]
      /\ restarts' = [restarts EXCEPT ![d] = @ + 1]
      /\ UNCHANGED <<run, pc, of, on, sup>>
  BY DEF Retry
<1> HIDE DEF q
<1>4. DetourTypeOK'
  BY <1>1, <1>2, <1>3 DEF DetourTypeOK
<1>5. ClaimedHasDetour' /\ FreshIsUnused'
  BY <1>3 DEF DetourInv, ClaimedHasDetour, FreshIsUnused
<1>6. FenceIsLatest' /\ AbsentIsBlank' /\ ContentMatchesStatus'
  BY <1>1, <1>2, <1>3
  DEF DetourInv, DetourTypeOK, FenceIsLatest, Contentful, AbsentIsBlank, ContentMatchesStatus
<1>7. StepsAreFinite' /\ StepsAreOneAttempts'
  BY <1>1, <1>2, <1>3 DEF DetourInv, DetourTypeOK, StepsAreFinite, StepsAreOneAttempts
<1>8. CompletedHasPublished' /\ SuccessWasPublished'
  <2>1. \A x \in Detour : detour'[x].steps = detour[x].steps
    BY <1>1, <1>2, <1>3 DEF DetourTypeOK
  <2>2. \A t \in Token : pc[t] = "complete" \/ run[t].status = "succeeded" =>
          of[t] \in Detour /\ Published(t)
    BY DEF DetourInv, ClaimedHasDetour, FreshIsUnused, CompletedHasPublished, SuccessWasPublished,
           Published
  <2> QED BY <1>3, <2>1, <2>2 DEF CompletedHasPublished, SuccessWasPublished, Published, Row
<1>9. ClaimsArePaid'
  <2> SUFFICES ASSUME NEW x \in Detour
               PROVE  Cardinality(ClaimsOf(x)) <= detour'[x].attempts + MaxAttempts * restarts'[x]
    BY <1>3 DEF DetourInv, ClaimsArePaid, ClaimsOf
  <2>1. /\ Cardinality(ClaimsOf(x)) <= detour[x].attempts + MaxAttempts * restarts[x]
        /\ IsFiniteSet(ClaimsOf(x))
    BY DEF DetourInv, ClaimsArePaid
  <2>2. CASE x = d
    <3>1. restarts'[x] = restarts[x] + 1 /\ restarts[x] \in Nat /\ detour'[x].attempts = 0
      BY <1>1, <1>2, <1>3, <2>2 DEF DetourTypeOK
    <3>2. MaxAttempts * (restarts[x] + 1) = MaxAttempts * restarts[x] + MaxAttempts
          /\ MaxAttempts * restarts[x] \in Nat
      BY <3>1, DetourLimits, OneMore
    <3>3. detour[x].attempts \in 0..MaxAttempts /\ Cardinality(ClaimsOf(x)) \in Nat
      BY <1>1, <2>1, <2>2, FS_CardinalityType DEF DetourRow
    <3> HIDE DEF ClaimsOf
    <3> QED BY <2>1, <3>1, <3>2, <3>3, DetourLimits
  <2>3. CASE x # d
    BY <1>1, <1>3, <2>1, <2>3 DEF DetourTypeOK
  <2> QED BY <2>2, <2>3
<1> QED BY <1>4, <1>5, <1>6, <1>7, <1>8, <1>9 DEF DetourInv

-----------------------------------------------------------------------------
(* Every other step is ordinary. *)

LEMMA TypeFacts ==
  ASSUME DetourInv
  PROVE  ControlTypes /\ detour \in [Detour -> DetourRow] /\ of \in [Token -> Detour \cup {NoDetour}]
BY DEF DetourInv, DetourTypeOK, ControlTypes

\* Going to the next statement, whatever becomes of the operation's row.
LEMMA GoToMoves ==
  ASSUME DetourInv, NEW t \in Token, pc[t] # "fresh", NEW s \in AttemptState \ {"fresh"},
         GoTo(t, s), s = "complete" => \E u \in detour'[of[t]].steps : u.by = t,
         \/ run' = run
         \/ \E o \in [status : {"running", "failed", "succeeded"}, beat : Stamp] :
              run' = [run EXCEPT ![t] = o] /\ (o.status = "succeeded" => pc[t] = "complete"),
         UNCHANGED sup
  PROVE  Moves /\ UNCHANGED of
<1>1. ControlTypes /\ of' = of /\ pc' = [pc EXCEPT ![t] = s]
      /\ on' = IF s = "done" THEN [on EXCEPT ![t] = NoProcess] ELSE on
  BY TypeFacts DEF GoTo
<1>2. ControlTypes'
  BY <1>1 DEF ControlTypes
<1> QED BY <1>1, <1>2 DEF Moves, ControlTypes, DetourInv, FreshIsUnused

\* Only the supervisors, the processes they run in, or the ages change.
LEMMA StillMoves ==
  ASSUME DetourInv, ControlTypes',
         \A t \in Token : /\ pc'[t] \in {pc[t], "done"} /\ (pc[t] = "fresh" => pc'[t] = "fresh")
                          /\ run'[t].status \in {run[t].status, "failed"}
                          /\ run[t].status = "none" => run'[t].status = "none"
                          /\ on'[t] \in {on[t], NoProcess}
  PROVE  Moves
BY DEF Moves, DetourInv, FreshIsUnused

LEMMA BestEffortIsOrdinary ==
  ASSUME DetourInv, NEW t \in Token, pc[t] # "fresh", NEW q,
         Holds(t) => Calm(Row(t), q), BestEffort(t, q)
  PROVE  Ordinary({})
<1>1. of[t] \in Detour /\ "finish" \in AttemptState \ {"fresh"}
  BY DEF DetourInv, ClaimedHasDetour, AttemptState
<1>2. Moves /\ UNCHANGED <<of, latest, restarts>>
  BY <1>1, GoToMoves DEF BestEffort, AttemptFrame
<1>3. CASE Holds(t) /\ WriteRow(t, q)
  BY <1>1, <1>2, <1>3, CalmWrite DEF WriteRow, Row
<1>4. CASE UNCHANGED detour
  BY <1>1, <1>2, <1>4, InvFacts, SameIsCalm, CalmWrite
<1> QED BY <1>3, <1>4 DEF BestEffort

LEMMA PublishIsOrdinary ==
  ASSUME DetourInv, NEW t \in Token, NEW o \in Outline, Publish(t, o)
  PROVE  Ordinary({})
<1> DEFINE new == StepsOf(t, o)
           d == of[t]
           q == PublishedRow(detour[d], new)
<1>1. pc[t] = "work" /\ d \in Detour /\ detour[d] \in DetourRow /\ Contentful(detour[d])
  BY InvFacts DEF Publish, DetourInv, ClaimedHasDetour
<1>2. new \in SUBSET Step /\ new # {} /\ Numbered(new) /\ \A s \in new : s.by = t
  BY StepsOfFacts
<1> HIDE DEF new
<1>3. UNCHANGED <<latest, restarts, sup, run>>
  BY DEF Publish, AttemptFrame
<1>4. CASE Holds(t) /\ WriteRow(t, q) /\ \E s \in {"complete", "broken"} : GoTo(t, s)
  <2>1. detour[d].status = "generating" /\ detour[d].token = t
    BY <1>4 DEF Holds, Row
  <2>2. q \in DetourRow /\ Contentful(q) /\ q.steps = new /\ q.attempts = detour[d].attempts
        /\ q.token = NoToken /\ detour[d].steps = {}
    BY <1>1, <1>2, <2>1, PublishedFacts DEF Contentful
  <2>3. detour' = [detour EXCEPT ![d] = q] /\ detour \in [Detour -> DetourRow]
    BY <1>4, TypeFacts DEF WriteRow
  <2>4. latest[d] = t
    BY <1>1, <2>1, DetourSentinels DEF DetourInv, FenceIsLatest
  <2> HIDE DEF q
  <2>5. Grown(detour[d], q, latest[d], {})
    BY <1>2, <2>2, <2>4 DEF Grown
  <2>6. \A x \in Detour : Grown(detour[x], detour'[x], latest[x], {})
    BY <1>1, <2>3, <2>5, InvFacts, SameIsCalm, CalmGrows
  <2>7. \E u \in detour'[d].steps : u.by = t
    BY <1>1, <1>2, <2>2, <2>3
  <2>8. Moves /\ UNCHANGED of
    BY <1>1, <1>3, <1>4, <2>7, GoToMoves DEF AttemptState
  <2> QED BY <1>1, <1>3, <2>2, <2>3, <2>6, <2>8 DEF Ordinary
<1>5. CASE UNCHANGED detour /\ GoTo(t, "finish")
  <2>1. Moves /\ UNCHANGED of
    BY <1>1, <1>3, <1>5, GoToMoves DEF AttemptState
  <2> QED BY <1>1, <1>3, <1>5, <2>1, SameIsCalm, CalmWrite
<1>6. \/ Holds(t) /\ WriteRow(t, q) /\ \E s \in {"complete", "broken"} : GoTo(t, s)
      \/ UNCHANGED detour /\ GoTo(t, "finish")
  BY DEF Publish, Row, new
<1> HIDE DEF q, d
<1> QED BY <1>4, <1>5, <1>6

LEMMA AdvanceIsOrdinary ==
  ASSUME DetourInv, NEW t \in Token, Advance(t) PROVE Ordinary({})
<1>1. /\ pc[t] # "fresh" /\ of[t] \in Detour
      /\ detour[of[t]] \in DetourRow /\ Contentful(detour[of[t]])
  BY InvFacts DEF Advance, Begin, Verify, WorkFails, Release, MarkFailed, Complete, Publish, DetourInv,
     ClaimedHasDetour
<1>2. Calm(detour[of[t]], detour[of[t]])
  BY <1>1, SameIsCalm
<1>3. CASE Begin(t) \/ Verify(t) \/ WorkFails(t) \/ Complete(t)
  <2>1. PICK s \in AttemptState \ {"fresh", "complete"} : GoTo(t, s)
    BY <1>3 DEF Begin, Verify, WorkFails, Complete, AttemptState
  <2>2. UNCHANGED <<detour, sup, latest, restarts>>
    BY <1>3 DEF Begin, Verify, WorkFails, Complete, AttemptFrame
  <2>3. \/ run' = run
        \/ \E o \in [status : {"running", "failed", "succeeded"}, beat : Stamp] :
             run' = [run EXCEPT ![t] = o] /\ (o.status = "succeeded" => pc[t] = "complete")
    <3> DEFINE begun == [status |-> "running", beat |-> 0]
               ended == [status |-> Ended(t), beat |-> 0]
    <3>1. begun \in [status : {"running", "failed", "succeeded"}, beat : Stamp]
          /\ begun.status # "succeeded"
      BY StampFacts
    <3>2. ended \in [status : {"running", "failed", "succeeded"}, beat : Stamp]
          /\ (ended.status = "succeeded" => pc[t] = "complete")
      BY StampFacts DEF Ended
    <3>3. run' = run \/ run' = [run EXCEPT ![t] = begun] \/ run' = [run EXCEPT ![t] = ended]
      BY <1>3 DEF Begin, Verify, WorkFails, Complete
    <3> HIDE DEF begun, ended
    <3> QED BY <3>1, <3>2, <3>3
  <2>4. Moves /\ UNCHANGED of
    BY <1>1, <2>1, <2>2, <2>3, GoToMoves
  <2> QED BY <1>1, <1>2, <2>2, <2>4, CalmWrite
<1>4. CASE Release(t) \/ MarkFailed(t)
  <2>1. PICK q \in {ReleasedRow(Row(t)), FailedRow(Row(t))} : BestEffort(t, q)
    BY <1>4 DEF Release, MarkFailed
  <2>2. Holds(t) => Calm(Row(t), q)
    BY <1>1, <2>1, EndedIsCalm DEF Holds, Row
  <2> QED BY <1>1, <2>1, <2>2, BestEffortIsOrdinary
<1> QED BY <1>3, <1>4, PublishIsOrdinary DEF Advance

LEMMA HeartbeatIsOrdinary ==
  ASSUME DetourInv, NEW t \in Token, Heartbeat(t) PROVE Ordinary({})
<1>1. /\ run' = [run EXCEPT ![t].beat = 0] /\ pc[t] = "work" /\ of[t] \in Detour
      /\ UNCHANGED <<detour, pc, of, on, sup, latest, restarts>>
  BY DEF Heartbeat, AttemptFrame, DetourInv, ClaimedHasDetour
<1>2. ControlTypes' /\ \A u \in Token : run'[u].status = run[u].status
  BY <1>1, TypeFacts, StampFacts DEF ControlTypes
<1>3. Moves
  BY <1>1, <1>2, StillMoves
<1> QED BY <1>1, <1>3, InvFacts, SameIsCalm, CalmWrite

LEMMA SupervisorIsOrdinary ==
  ASSUME DetourInv, NEW p \in Process,
         StartPass(p) \/ FailExhausted(p) \/ PassEnds(p) \/ PassFails(p) \/ Crash(p) \/ Restart(p)
  PROVE  Ordinary({})
<1>1. ControlTypes /\ UNCHANGED <<of, latest, restarts>>
  BY TypeFacts DEF StartPass, FailExhausted, PassEnds, PassFails, Crash, Restart, SupervisorFrame
<1>2. /\ ControlTypes'
      /\ \A t \in Token : /\ run'[t].status \in {run[t].status, "failed"}
                          /\ run[t].status = "none" => run'[t].status = "none"
  <2>1. CASE StartPass(p)
    <3>1. run' = [t \in Token |-> Reaped(run[t])] /\ UNCHANGED <<pc, on>>
          /\ sup' = [sup EXCEPT ![p] = "exhaust"]
      BY <2>1 DEF StartPass
    <3>2. \A t \in Token :
            /\ Reaped(run[t]) \in [status : {"none", "running", "failed", "succeeded"}, beat : Stamp]
            /\ Reaped(run[t]).status \in {run[t].status, "failed"}
            /\ run[t].status = "none" => Reaped(run[t]).status = "none"
      BY <1>1, StampFacts DEF Reaped, ControlTypes
    <3> QED BY <1>1, <3>1, <3>2 DEF ControlTypes
  <2>2. CASE FailExhausted(p) \/ PassEnds(p) \/ PassFails(p) \/ Restart(p)
    BY <1>1, <2>2 DEF FailExhausted, PassEnds, PassFails, Restart, ControlTypes
  <2>3. CASE Crash(p)
    BY <1>1, <2>3 DEF Crash, ControlTypes, AttemptState
  <2> QED BY <2>1, <2>2, <2>3
<1>3. \A t \in Token : /\ pc'[t] \in {pc[t], "done"} /\ (pc[t] = "fresh" => pc'[t] = "fresh")
                       /\ on'[t] \in {on[t], NoProcess}
  <2>1. CASE Crash(p)
    BY <2>1, DetourSentinels DEF Crash, DetourInv, FreshIsUnused
  <2> QED BY <2>1 DEF StartPass, FailExhausted, PassEnds, PassFails, Restart
<1>4. Moves
  BY <1>2, <1>3, StillMoves
<1>5. CASE FailExhausted(p)
  <2>1. detour' = [d \in Detour |-> IF Exhausted(d) THEN ExhaustedRow(detour[d]) ELSE detour[d]]
    BY <1>5 DEF FailExhausted
  <2>2. \A d \in Detour : Calm(detour[d], detour'[d])
    BY <2>1, InvFacts, SameIsCalm, EndedIsCalm DEF Exhausted, GeneratingStaleness
  <2>3. DOMAIN detour' = Detour /\ detour' = [d \in Detour |-> detour'[d]]
    BY <2>1
  <2> QED BY <1>1, <1>4, <2>2, <2>3, CalmStep
<1>6. CASE UNCHANGED detour
  <2>1. \A d \in Detour : Calm(detour[d], detour'[d])
    BY <1>6, InvFacts, SameIsCalm
  <2>2. DOMAIN detour' = Detour /\ detour' = [d \in Detour |-> detour'[d]]
    BY <1>6, TypeFacts
  <2> QED BY <1>1, <1>4, <2>1, <2>2, CalmStep
<1> QED BY <1>5, <1>6 DEF StartPass, PassEnds, PassFails, Crash, Restart

LEMMA RequestIsOrdinary ==
  ASSUME DetourInv, NEW d \in Detour, Request(d) \/ Hide(d) PROVE Ordinary({})
<1>1. detour[d] \in DetourRow /\ Contentful(detour[d]) /\ ControlTypes
  BY InvFacts, TypeFacts
<1>2. UNCHANGED <<run, pc, of, on, sup, latest, restarts>>
  BY DEF Request, Hide, RequestFrame
<1>3. Moves
  BY <1>1, <1>2, StillMoves DEF ControlTypes
<1>4. CASE Request(d)
  <2>1. Calm(detour[d], PendingRow(detour[d])) /\ detour' = [detour EXCEPT ![d] = PendingRow(detour[d])]
    BY <1>1, <1>4, PendingIsCalm DEF Request
  <2> QED BY <1>2, <1>3, <2>1, CalmWrite
<1>5. CASE Hide(d)
  <2>1. Calm(detour[d], HiddenRow(detour[d])) /\ detour' = [detour EXCEPT ![d] = HiddenRow(detour[d])]
    BY <1>1, <1>5, HiddenIsCalm DEF Hide
  <2> QED BY <1>2, <1>3, <2>1, CalmWrite
<1> QED BY <1>4, <1>5

LEMMA TickIsOrdinary == ASSUME DetourInv, Tick PROVE Ordinary({})
<1>1. /\ detour' = [d \in Detour |-> [detour[d] EXCEPT !.claimed = Aged(@), !.updated = Aged(@)]]
      /\ run' = [t \in Token |-> [run[t] EXCEPT !.beat = Aged(@)]]
      /\ UNCHANGED <<pc, of, on, sup, latest, restarts>> /\ ControlTypes
  BY TypeFacts DEF Tick
<1>2. ControlTypes' /\ \A t \in Token : run'[t].status = run[t].status
  BY <1>1, AgedFacts DEF ControlTypes
<1>3. Moves
  BY <1>1, <1>2, StillMoves
<1>4. \A d \in Detour : Calm(detour[d], detour'[d])
  BY <1>1, InvFacts, AgedIsCalm
<1>5. DOMAIN detour' = Detour /\ detour' = [d \in Detour |-> detour'[d]]
  BY <1>1
<1> QED BY <1>1, <1>3, <1>4, <1>5, CalmStep

\* The write of a reference: the one that may come from no attempt.
LEMMA ReferenceIsOrdinary ==
  ASSUME DetourInv, NEW d \in Detour, NEW p \in Pin, PublishReference(d, p)
  PROVE  /\ Ordinary({NoToken})
         /\ \A x \in Detour : \A s \in detour'[x].steps \ detour[x].steps : s.pin = p
<1> DEFINE r == detour[d]
           W == WithReference(r.steps, p)
           q == ReferencedRow(r, p)
<1>1. r \in DetourRow /\ Contentful(r) /\ Numbered(r.steps) /\ detour \in [Detour -> DetourRow] /\ ControlTypes
  BY InvFacts, TypeFacts
<1>2. /\ W \in SUBSET Step /\ W # {} /\ Numbered(W) /\ r.steps \subseteq W
      /\ \A s \in W \ r.steps : s.by = NoToken /\ s.pin = p
  BY <1>1, WithReferenceFacts DEF DetourRow
<1>3. detour' = [detour EXCEPT ![d] = q] /\ UNCHANGED <<run, pc, of, on, sup, latest, restarts>>
  BY DEF PublishReference, RequestFrame
<1> HIDE DEF W
<1>4. q = [Touched(r) EXCEPT !.status = "ready", !.token = NoToken, !.claimed = Null, !.steps = W]
  BY DEF ReferencedRow, W
<1>5. /\ q \in DetourRow /\ Contentful(q)
      /\ q.steps = W /\ q.attempts = r.attempts /\ q.token = NoToken
  BY <1>1, <1>2, <1>4, StampFacts DEF Touched, DetourRow, Contentful, Status
<1> HIDE DEF q
<1>6. Grown(r, q, latest[d], {NoToken})
  BY <1>2, <1>5 DEF Grown
<1>7. \A x \in Detour : Grown(detour[x], detour'[x], latest[x], {NoToken})
  BY <1>1, <1>3, <1>6, InvFacts, SameIsCalm, CalmGrows
<1>8. Moves
  BY <1>1, <1>3, StillMoves DEF ControlTypes
<1> QED BY <1>1, <1>2, <1>3, <1>5, <1>7, <1>8 DEF Ordinary

-----------------------------------------------------------------------------
(* The whole of the detours. *)

LEMMA DetourInitInv ==
  ASSUME NEW b, DetourInit(b) PROVE DetourInv
<1>1. Absent \in DetourRow /\ Absent.steps = {} /\ Absent.token = NoToken /\ Absent.attempts = 0
      /\ Absent.status = "absent"
  BY StampFacts DEF Absent, DetourRow, Status
<1>2. DetourTypeOK
  BY <1>1, StampFacts DEF DetourInit, DetourTypeOK, NoRun, AttemptState
<1>3. ClaimedHasDetour /\ FreshIsUnused
  BY DEF DetourInit, ClaimedHasDetour, FreshIsUnused, NoRun
<1>4. FenceIsLatest /\ AbsentIsBlank /\ ContentMatchesStatus
  BY <1>1 DEF DetourInit, FenceIsLatest, AbsentIsBlank, ContentMatchesStatus
<1>5. StepsAreFinite /\ StepsAreOneAttempts
  <2>1. {s.ordinal : s \in {}} = 0..(Cardinality({}) - 1) /\ IsFiniteSet({})
    BY FS_EmptySet
  <2> QED BY <1>1, <2>1 DEF DetourInit, StepsAreFinite, StepsAreOneAttempts
<1>6. CompletedHasPublished /\ SuccessWasPublished
  BY DEF DetourInit, CompletedHasPublished, SuccessWasPublished, NoRun
<1>7. ClaimsArePaid
  <2> SUFFICES ASSUME NEW d \in Detour
               PROVE  /\ IsFiniteSet(ClaimsOf(d))
                      /\ Cardinality(ClaimsOf(d)) <= detour[d].attempts + MaxAttempts * restarts[d]
    BY DEF ClaimsArePaid
  <2>1. ClaimsOf(d) = {}
    BY DetourSentinels DEF DetourInit, ClaimsOf
  <2>2. detour[d].attempts + MaxAttempts * restarts[d] = 0
    BY <1>1, DetourLimits DEF DetourInit
  <2> QED BY <2>1, <2>2, FS_EmptySet
<1> QED BY <1>2, <1>3, <1>4, <1>5, <1>6, <1>7 DEF DetourInv

\* Steps are only added, and by the attempt that was claimed last.
Generated(d) == /\ detour[d].steps \subseteq detour'[d].steps
                /\ \A s \in detour'[d].steps \ detour[d].steps : s.by \in Token

LEMMA OrdinaryGenerates ==
  ASSUME DetourInv, Ordinary({}) PROVE DetourInv' /\ \A d \in Detour : Generated(d)
BY OrdinaryInv DEF Ordinary, Grown, Generated

LEMMA DetourStep ==
  ASSUME DetourInv, [DetourNext]_detourVars
  PROVE  DetourInv' /\ \A d \in Detour : Generated(d)
<1>1. ASSUME NEW p \in Process, NEW d \in Detour, NEW t \in Token, Claim(p, d, t)
      PROVE  DetourInv' /\ \A x \in Detour : Generated(x)
  <2>1. detour' = [detour EXCEPT ![d] = ClaimedRow(@, t)] /\ detour \in [Detour -> DetourRow]
    BY <1>1, TypeFacts DEF Claim
  <2>2. ClaimedRow(detour[d], t).steps = detour[d].steps
    BY <2>1 DEF ClaimedRow, Touched, DetourRow
  <2> QED BY <1>1, <2>1, <2>2, ClaimInv DEF Generated
<1>2. ASSUME NEW d \in Detour, Retry(d)
      PROVE  DetourInv' /\ \A x \in Detour : Generated(x)
  <2>1. detour' = [detour EXCEPT ![d] = RestartedRow(@)] /\ detour \in [Detour -> DetourRow]
    BY <1>2, TypeFacts DEF Retry
  <2>2. RestartedRow(detour[d]).steps = detour[d].steps
    BY <2>1 DEF RestartedRow, Touched, DetourRow
  <2> QED BY <1>2, <2>1, <2>2, RetryInv DEF Generated
<1>3. CASE UNCHANGED detourVars
  BY <1>3 DEF detourVars, Generated, DetourInv, DetourTypeOK, ClaimedHasDetour, FreshIsUnused,
     FenceIsLatest, AbsentIsBlank, ContentMatchesStatus, StepsAreFinite, StepsAreOneAttempts,
     CompletedHasPublished, SuccessWasPublished, Published, Row, ClaimsArePaid, ClaimsOf
<1>4. CASE DetourNext
  <2>1. ASSUME NEW p \in Process, Supervisor(p), ~\E d \in Detour, t \in Token : Claim(p, d, t)
        PROVE  Ordinary({})
    BY <2>1, SupervisorIsOrdinary DEF Supervisor
  <2>2. ASSUME NEW t \in Token, Advance(t) \/ Heartbeat(t) PROVE Ordinary({})
    BY <2>2, AdvanceIsOrdinary, HeartbeatIsOrdinary
  <2>3. ASSUME NEW d \in Detour, Request(d) \/ Hide(d) PROVE Ordinary({})
    BY <2>3, RequestIsOrdinary
  <2> QED BY <1>1, <1>2, <1>4, <2>1, <2>2, <2>3, TickIsOrdinary, OrdinaryGenerates DEF DetourNext
<1> QED BY <1>3, <1>4

LEMMA ReferenceStep ==
  ASSUME DetourInv, NEW d \in Detour, NEW p \in Pin, PublishReference(d, p)
  PROVE  /\ DetourInv'
         /\ \A x \in Detour : \A s \in detour'[x].steps \ detour[x].steps : s.pin = p
BY ReferenceIsOrdinary, OrdinaryInv

\* What each claim has cost bounds them all.
LEMMA PaidIsBounded == ASSUME DetourInv PROVE DetourSpendIsBounded
<1> SUFFICES ASSUME NEW d \in Detour
             PROVE  Cardinality(ClaimsOf(d)) <= MaxAttempts * (1 + restarts[d])
  BY DEF DetourSpendIsBounded, ClaimsOf
<1>1. /\ IsFiniteSet(ClaimsOf(d))
      /\ Cardinality(ClaimsOf(d)) <= detour[d].attempts + MaxAttempts * restarts[d]
      /\ detour[d].attempts \in 0..MaxAttempts /\ restarts[d] \in Nat
  BY DEF DetourInv, DetourTypeOK, DetourRow, ClaimsArePaid
<1>2. Cardinality(ClaimsOf(d)) \in Nat
  BY <1>1, FS_CardinalityType
<1>3. MaxAttempts \in Nat /\ detour[d].attempts \in Nat /\ detour[d].attempts <= MaxAttempts
  BY <1>1, DetourLimits
<1> HIDE DEF ClaimsOf
<1> QED BY <1>1, <1>2, <1>3, OneMoreAtMost

-----------------------------------------------------------------------------
(* The source, and both together. *)


RowOf == [kept : BOOLEAN, identity : Identity \cup {None}, active : BOOLEAN]

RequestRecord == [kind : Kind \cup {"none", "reference", "review"},
                  step : {"idle", "row", "entry", "assets", "append"},
                  row : RowOf, entry : Identity \cup {None}, lesson : 0..MaxGen, item : 0..MaxGen]

SourceTypes ==
  /\ assets \in Identity
  /\ catalog \in Identity \cup {None}
  /\ mine \in RowOf
  /\ req \in [Handler -> RequestRecord]
  /\ current \in SUBSET Identity /\ accepted \in SUBSET Identity /\ adopted \in SUBSET Identity

\* A set is accepted while it is current and adopted while it is accepted.
HistoryIsOrdered ==
  /\ assets \in current
  /\ OfferedSetExisted /\ adopted \subseteq accepted
  /\ catalog \in accepted \cup {None}
  /\ mine.identity \in adopted \cup {None} /\ (mine.kept => mine.identity # None)

NeedsRow(k) == k \notin {"publish", "adopt"}
NeedsEntry(k) == k # "publish"

\* What a request has read: the identity of the row, then that of the entry.
\* Once it may append, they are the identity it has found.
ReadsWereTrue ==
  \A h \in Handler :
    /\ req[h].step \in {"entry", "assets", "append"} /\ NeedsRow(req[h].kind) => req[h].row.identity \in adopted
    /\ req[h].step \in {"assets", "append"} /\ NeedsEntry(req[h].kind) => req[h].entry \in accepted
    /\ req[h].step = "append" => Found(req[h]) \in adopted

SourceInv == SourceTypes /\ HistoryIsOrdered /\ ReadsWereTrue /\ AnswersAreUnderAdoption

-----------------------------------------------------------------------------
(* Requests. *)

LEMMA NoneIsNoIdentity == None \notin Identity /\ <<1, 1>> \in Identity
BY GenerationsAreOrdered DEF None, Identity, Gen

LEMMA IdleFacts ==
  Idle \in RequestRecord /\ Idle.step = "idle"
BY GenerationsAreOrdered DEF Idle, RequestRecord, RowOf, NoRow, None

\* Only the requests move, and what they come to know is true.
LEMMA ReadingInv ==
  ASSUME SourceInv, req' \in [Handler -> RequestRecord],
         UNCHANGED <<assets, catalog, mine, answers, current, accepted, adopted>>,
         ReadsWereTrue'
  PROVE  SourceInv'
BY DEF SourceInv, SourceTypes, HistoryIsOrdered, OfferedSetExisted, AnswersAreUnderAdoption

\* A request that is answered knows nothing any more.
LEMMA DoneFacts ==
  ASSUME SourceInv, NEW h \in Handler, Done(h), accepted \subseteq accepted', adopted \subseteq adopted'
  PROVE  req' \in [Handler -> RequestRecord] /\ ReadsWereTrue'
<1>1. Idle \in RequestRecord /\ Idle.step = "idle"
  BY IdleFacts
<1>2. req' = [req EXCEPT ![h] = Idle] /\ req \in [Handler -> RequestRecord]
  BY DEF Done, SourceInv, SourceTypes
<1>3. \A x \in Handler : req'[x] = req[x] \/ req'[x] = Idle
  BY <1>2
<1> QED BY <1>1, <1>2, <1>3 DEF SourceInv, ReadsWereTrue, Found

\* What acceptance says of the identity a request has found.
LEMMA ApprovedFacts ==
  ASSUME SourceInv, NEW h \in Handler, NEW k, Approved(h, k)
  PROVE  /\ Found(req[h]) \in Identity /\ Found(req[h]) \in Qualified
         /\ NeedsEntry(k) => Found(req[h]) \in accepted
         /\ NeedsRow(k) => Found(req[h]) \in adopted
<1>1. req[h] \in RequestRecord /\ req[h].step = "assets" /\ req[h].kind = k /\ Accepts(req[h])
  BY DEF Approved, Settled, SourceInv, SourceTypes
<1>2. Found(req[h]) \in Qualified /\ Qualified \subseteq Identity
  BY <1>1, GenerationsAreOrdered DEF Accepts
<1>3. NeedsEntry(k) => Found(req[h]) = req[h].entry /\ req[h].entry \in accepted
  BY <1>1 DEF Accepts, NeedsEntry, SourceInv, ReadsWereTrue
<1>4. NeedsRow(k) => Found(req[h]) = req[h].row.identity /\ req[h].row.identity \in adopted
  BY <1>1 DEF Accepts, NeedsRow, SourceInv, ReadsWereTrue
<1> QED BY <1>2, <1>3, <1>4

LEMMA StartInv ==
  ASSUME SourceInv, NEW h \in Handler, NEW k \in Kind \cup {"reference", "review"}, Start(h, k)
  PROVE  SourceInv'
<1> DEFINE q == [Idle EXCEPT !.kind = k, !.step = FirstStep(k)]
<1>1. q \in RequestRecord /\ q.kind = k /\ q.step = FirstStep(k)
  <2>1. FirstStep(k) \in {"row", "entry", "assets"}
    BY DEF FirstStep
  <2> QED BY <2>1, IdleFacts DEF RequestRecord
<1>2. FirstStep(k) \in {"row", "entry", "assets"}
      /\ (FirstStep(k) = "entry" => ~NeedsRow(k)) /\ (FirstStep(k) = "assets" => ~NeedsRow(k) /\ ~NeedsEntry(k))
  BY DEF FirstStep, NeedsRow, NeedsEntry
<1>3. req' = [req EXCEPT ![h] = q] /\ req \in [Handler -> RequestRecord]
      /\ UNCHANGED <<assets, catalog, mine, answers, current, accepted, adopted>>
  BY DEF Start, SourceInv, SourceTypes
<1> HIDE DEF q
<1>4. ReadsWereTrue'
  BY <1>1, <1>2, <1>3 DEF SourceInv, ReadsWereTrue
<1> QED BY <1>1, <1>3, <1>4, ReadingInv

LEMMA ReadInv ==
  ASSUME SourceInv, NEW h \in Handler,
         ReadRow(h) \/ ReadEntry(h) \/ ReadLessons(h) \/ ReadItems(h) \/ Refuse(h) \/ LoadItem(h)
  PROVE  SourceInv'
<1>1. /\ UNCHANGED <<assets, catalog, mine, answers, current, accepted, adopted>>
      /\ req \in [Handler -> RequestRecord] /\ req[h] \in RequestRecord
      /\ mine \in RowOf /\ catalog \in Identity \cup {None} /\ assets \in Identity
  BY DEF ReadRow, ReadEntry, ReadLessons, ReadItems, Refuse, LoadItem, ReadOnly, SourceInv, SourceTypes
<1>2. CASE Done(h)
  BY <1>1, <1>2, DoneFacts, ReadingInv
<1>3. ASSUME NEW q \in RequestRecord, req' = [req EXCEPT ![h] = q], q.kind = req[h].kind,
             /\ q.step \in {"entry", "assets", "append"} /\ NeedsRow(q.kind) => q.row.identity \in adopted
             /\ q.step \in {"assets", "append"} /\ NeedsEntry(q.kind) => q.entry \in accepted
             /\ q.step = "append" => Found(q) \in adopted
      PROVE  SourceInv'
  <2>1. ReadsWereTrue'
    BY <1>1, <1>3 DEF SourceInv, ReadsWereTrue, Found
  <2> QED BY <1>1, <1>3, <2>1, ReadingInv
<1>4. CASE ReadRow(h) /\ ~Done(h)
  <2> DEFINE q == [req[h] EXCEPT !.step = "entry", !.row = mine]
  <2>1. req' = [req EXCEPT ![h] = q] /\ mine.kept
    BY <1>4 DEF ReadRow, Done, MayGoOn
  <2>2. q \in RequestRecord /\ q.kind = req[h].kind /\ q.step = "entry" /\ q.row.identity = mine.identity
    BY <1>1 DEF RequestRecord
  <2>3. mine.identity \in adopted
    BY <2>1 DEF SourceInv, HistoryIsOrdered
  <2> HIDE DEF q
  <2> QED BY <1>3, <2>1, <2>2, <2>3
<1>5. CASE ReadEntry(h) /\ ~Done(h)
  <2> DEFINE q == [req[h] EXCEPT !.step = "assets", !.entry = catalog]
  <2>1. req' = [req EXCEPT ![h] = q] /\ catalog # None /\ req[h].step = "entry"
    BY <1>5 DEF ReadEntry, Done
  <2>2. q \in RequestRecord /\ q.kind = req[h].kind /\ q.step = "assets" /\ q.row = req[h].row /\ q.entry = catalog
    BY <1>1 DEF RequestRecord
  <2>3. catalog \in accepted /\ (NeedsRow(req[h].kind) => req[h].row.identity \in adopted)
    BY <2>1 DEF SourceInv, HistoryIsOrdered, ReadsWereTrue
  <2> HIDE DEF q
  <2> QED BY <1>3, <2>1, <2>2, <2>3
<1>6. CASE ReadLessons(h) \/ ReadItems(h)
  <2>1. PICK q \in {[req[h] EXCEPT !.lesson = assets[1]], [req[h] EXCEPT !.item = assets[2]]} :
          req' = [req EXCEPT ![h] = q] /\ req[h].step = "assets"
    BY <1>6 DEF ReadLessons, ReadItems
  <2>2. assets[1] \in 0..MaxGen /\ assets[2] \in 0..MaxGen
    BY <1>1 DEF Identity, Gen
  <2>3. q \in RequestRecord /\ q.kind = req[h].kind /\ q.step = "assets" /\ q.row = req[h].row /\ q.entry = req[h].entry
    BY <1>1, <2>1, <2>2 DEF RequestRecord
  <2>4. /\ NeedsRow(req[h].kind) => req[h].row.identity \in adopted
        /\ NeedsEntry(req[h].kind) => req[h].entry \in accepted
    BY <2>1 DEF SourceInv, ReadsWereTrue
  <2> QED BY <1>3, <2>1, <2>3, <2>4
<1>7. CASE LoadItem(h) /\ ~Done(h)
  <2> DEFINE q == [req[h] EXCEPT !.step = "append"]
  <2>1. req' = [req EXCEPT ![h] = q] /\ Approved(h, "grade") /\ req[h].kind = "grade" /\ req[h].step = "assets"
    BY <1>7 DEF LoadItem, Done, Approved, Settled
  <2>2. q \in RequestRecord /\ q.kind = req[h].kind /\ q.row = req[h].row /\ q.entry = req[h].entry /\ Found(q) = Found(req[h])
    BY <1>1 DEF RequestRecord, Found
  <2>3. /\ req[h].row.identity \in adopted /\ req[h].entry \in accepted
        /\ Found(req[h]) \in adopted
    BY <2>1, ApprovedFacts DEF SourceInv, ReadsWereTrue, NeedsRow, NeedsEntry
  <2> HIDE DEF q
  <2> QED BY <1>3, <2>1, <2>2, <2>3
<1>8. Refuse(h) => Done(h)
  BY DEF Refuse, Done
<1> QED BY <1>2, <1>4, <1>5, <1>6, <1>7, <1>8
-----------------------------------------------------------------------------
(* Generations, and the writes of requests. *)

LEMMA PersistInv ==
  ASSUME SourceInv, NEW g \in Gen, PersistLessons(g) \/ PersistItems(g) PROVE SourceInv'
<1>1. assets' \in Identity /\ current' = current \cup {assets'}
      /\ UNCHANGED <<catalog, mine, req, answers, accepted, adopted>>
  BY DEF PersistLessons, PersistItems, SourceInv, SourceTypes, Identity
<1> QED BY <1>1 DEF SourceInv, SourceTypes, HistoryIsOrdered, OfferedSetExisted, ReadsWereTrue, Found,
           AnswersAreUnderAdoption

LEMMA CommitPublicationInv ==
  ASSUME SourceInv, NEW h \in Handler, CommitPublication(h) PROVE SourceInv'
<1> DEFINE pair == Found(req[h])
<1>1. pair \in Identity
  BY ApprovedFacts DEF CommitPublication
<1>2. /\ catalog' = IF assets = pair THEN pair ELSE catalog
      /\ accepted' = (accepted \cup {catalog'}) \ {None}
      /\ UNCHANGED <<assets, mine, answers, current, adopted>> /\ Done(h)
  BY DEF CommitPublication, AssetsMatch
<1> HIDE DEF pair
<1>3. /\ catalog' \in accepted' \cup {None} /\ accepted \subseteq accepted' /\ accepted' \subseteq current
      /\ accepted' \subseteq Identity /\ catalog' \in Identity \cup {None}
  BY <1>1, <1>2, NoneIsNoIdentity DEF SourceInv, SourceTypes, HistoryIsOrdered, OfferedSetExisted
<1>4. req' \in [Handler -> RequestRecord] /\ ReadsWereTrue'
  BY <1>2, <1>3, DoneFacts
<1> QED BY <1>2, <1>3, <1>4 DEF SourceInv, SourceTypes, HistoryIsOrdered, OfferedSetExisted,
           AnswersAreUnderAdoption

LEMMA CommitAdoptionInv ==
  ASSUME SourceInv, NEW h \in Handler, CommitAdoption(h) PROVE SourceInv'
<1> DEFINE pair == Found(req[h])
<1>1. pair \in Identity /\ pair \in accepted
  BY ApprovedFacts DEF CommitAdoption, NeedsEntry
<1>2. /\ mine' = IF assets = pair THEN [kept |-> TRUE, identity |-> pair, active |-> TRUE] ELSE mine
      /\ adopted' = (adopted \cup {mine'.identity}) \ {None}
      /\ UNCHANGED <<assets, catalog, answers, current, accepted>> /\ Done(h)
  BY DEF CommitAdoption, AssetsMatch
<1> HIDE DEF pair
<1>3. mine' \in RowOf /\ mine'.identity \in accepted \cup {None} /\ (mine'.kept => mine'.identity # None)
  BY <1>1, <1>2, NoneIsNoIdentity DEF SourceInv, SourceTypes, HistoryIsOrdered, RowOf
<1>4. adopted \subseteq adopted' /\ adopted' \subseteq accepted /\ mine'.identity \in adopted' \cup {None}
  BY <1>2, <1>3, NoneIsNoIdentity DEF SourceInv, SourceTypes, HistoryIsOrdered
<1>5. req' \in [Handler -> RequestRecord] /\ ReadsWereTrue'
  BY <1>2, <1>4, DoneFacts
<1> QED BY <1>2, <1>3, <1>4, <1>5 DEF SourceInv, SourceTypes, HistoryIsOrdered, OfferedSetExisted,
           AnswersAreUnderAdoption

LEMMA CommitActivationInv ==
  ASSUME SourceInv, NEW h \in Handler, CommitActivation(h) PROVE SourceInv'
<1>1. mine' \in {mine, [mine EXCEPT !.active = TRUE]} /\ Done(h)
      /\ UNCHANGED <<assets, catalog, answers, current, accepted, adopted>>
  BY DEF CommitActivation
<1>2. mine' \in RowOf /\ mine'.identity = mine.identity /\ mine'.kept = mine.kept
  BY <1>1 DEF SourceInv, SourceTypes, RowOf
<1>3. req' \in [Handler -> RequestRecord] /\ ReadsWereTrue'
  BY <1>1, DoneFacts
<1> QED BY <1>1, <1>2, <1>3 DEF SourceInv, SourceTypes, HistoryIsOrdered, OfferedSetExisted,
           AnswersAreUnderAdoption

LEMMA OtherActivatedInv == ASSUME SourceInv, OtherActivated PROVE SourceInv'
<1>1. mine' = [mine EXCEPT !.active = FALSE]
      /\ UNCHANGED <<assets, catalog, req, answers, current, accepted, adopted>>
  BY DEF OtherActivated
<1>2. mine' \in RowOf /\ mine'.identity = mine.identity /\ mine'.kept = mine.kept
  BY <1>1 DEF SourceInv, SourceTypes, RowOf
<1> QED BY <1>1, <1>2 DEF SourceInv, SourceTypes, HistoryIsOrdered, OfferedSetExisted, ReadsWereTrue,
           Found, AnswersAreUnderAdoption

\* The answer of a request that has been accepted, and may be stale by now.
LEMMA AnsweredInv ==
  ASSUME SourceInv, NEW h \in Handler, Done(h), answers' \subseteq answers \cup adopted,
         UNCHANGED <<assets, catalog, mine, current, accepted, adopted>>
  PROVE  SourceInv'
<1>1. req' \in [Handler -> RequestRecord] /\ ReadsWereTrue'
  BY DoneFacts
<1> QED BY <1>1 DEF SourceInv, SourceTypes, HistoryIsOrdered, OfferedSetExisted, AnswersAreUnderAdoption

LEMMA AppendInv == ASSUME SourceInv, NEW h \in Handler, Append(h) PROVE SourceInv'
<1>1. Found(req[h]) \in adopted
  BY ApprovedFacts DEF Append, NeedsRow, SourceInv, ReadsWereTrue
<1> QED BY <1>1, AnsweredInv DEF Append

LEMMA SourceStep ==
  ASSUME SourceInv, [SourceNext]_sourceVars PROVE SourceInv'
<1>1. CASE SourceNext
  BY <1>1, PersistInv, StartInv, ReadInv, CommitPublicationInv, CommitAdoptionInv,
     CommitActivationInv, AppendInv, OtherActivatedInv DEF SourceNext
<1>2. CASE UNCHANGED sourceVars
  BY <1>2 DEF sourceVars, SourceInv, SourceTypes, HistoryIsOrdered, OfferedSetExisted, ReadsWereTrue,
     Found, AnswersAreUnderAdoption
<1> QED BY <1>1, <1>2

LEMMA SourceInitInv ==
  ASSUME NEW begun, NEW limit, SourceInit(begun, limit) PROVE SourceInv
<1> DEFINE first == IF begun = "adopted" THEN <<1, 1>> ELSE None
<1>1. first \in Identity \cup {None} /\ None \notin Identity /\ <<1, 1>> \in Identity
  BY NoneIsNoIdentity
<1>2. /\ assets = <<1, 1>> /\ current = {<<1, 1>>} /\ catalog = first
      /\ accepted = {first} \ {None} /\ adopted = accepted
      /\ mine = IF first = None THEN NoRow ELSE [kept |-> TRUE, identity |-> first, active |-> TRUE]
      /\ req = [h \in Handler |-> Idle] /\ answers = {}
  BY DEF SourceInit
<1>3. first = None \/ first = <<1, 1>>
  OBVIOUS
<1> HIDE DEF first
<1>4. mine \in RowOf /\ mine.identity = first /\ (mine.kept => mine.identity # None)
  BY <1>1, <1>2 DEF RowOf, NoRow
<1>5. SourceTypes
  BY <1>1, <1>2, <1>4, IdleFacts DEF SourceTypes
<1>6. HistoryIsOrdered
  BY <1>1, <1>2, <1>3, <1>4 DEF HistoryIsOrdered, OfferedSetExisted
<1>7. ReadsWereTrue /\ AnswersAreUnderAdoption
  BY <1>2, IdleFacts DEF ReadsWereTrue, AnswersAreUnderAdoption
<1> QED BY <1>5, <1>6, <1>7 DEF SourceInv

-----------------------------------------------------------------------------
(* The whole: the two parts keep their invariants, and meet in the write of  *)
(* a reference and in the answer to one.                                     *)

SupportInv == DetourInv /\ SourceInv

LEMMA SupportInitInv == Init => SupportInv
BY DetourInitInv, SourceInitInv DEF Init, SupportInv

\* What the transaction that publishes a reference has checked.
LEMMA PublishReferenceStepFacts ==
  ASSUME SupportInv, NEW h \in Handler, NEW d \in Detour, PublishReferenceStep(h, d)
  PROVE  /\ SupportInv'
         /\ \A x \in Detour : \A s \in detour'[x].steps \ detour[x].steps :
              s.pin = assets /\ mine.active /\ mine.identity = s.pin
<1> DEFINE pair == Found(req[h])
<1>1. pair \in Pin
  BY ApprovedFacts, QualifiedCanBePinned DEF PublishReferenceStep, SupportInv
<1>2. IF assets = pair /\ mine.active /\ mine.identity = pair
        THEN PublishReference(d, pair) ELSE UNCHANGED detourVars
  BY DEF PublishReferenceStep, AssetsMatch, Owned
<1>3. SourceInv'
  <2>1. Done(h) /\ UNCHANGED <<assets, catalog, mine, answers, current, accepted, adopted>>
    BY DEF PublishReferenceStep
  <2> QED BY <2>1, AnsweredInv DEF SupportInv
<1> HIDE DEF pair
<1>4. CASE UNCHANGED detourVars
  BY <1>3, <1>4, DetourStep DEF SupportInv, detourVars
<1>5. CASE PublishReference(d, pair) /\ assets = pair /\ mine.active /\ mine.identity = pair
  BY <1>1, <1>3, <1>5, ReferenceStep DEF SupportInv
<1> QED BY <1>2, <1>4, <1>5

LEMMA GradeReferenceInv ==
  ASSUME SupportInv, NEW h \in Handler, GradeReference(h) PROVE SupportInv'
<1>1. Found(req[h]) \in adopted
  BY ApprovedFacts DEF GradeReference, NeedsRow, SupportInv
<1>2. /\ answers' \subseteq answers \cup adopted /\ Done(h)
      /\ UNCHANGED <<detourVars, assets, catalog, mine, current, accepted, adopted>>
  BY <1>1 DEF GradeReference, Qualifies
<1> QED BY <1>2, AnsweredInv, DetourStep DEF SupportInv

\* A step keeps the invariant, and the references it adds are those of the
\* expedition that is active then.
LEMMA SupportStep ==
  ASSUME SupportInv, [Next]_vars
  PROVE  /\ SupportInv'
         /\ \A d \in Detour : \A s \in detour'[d].steps \ detour[d].steps :
              s.by = NoToken => s.pin = assets /\ mine.active /\ mine.identity = s.pin
<1>1. ASSUME [DetourNext]_detourVars, [SourceNext]_sourceVars
      PROVE  SupportInv' /\ \A d \in Detour : Generated(d)
  BY <1>1, DetourStep, SourceStep DEF SupportInv
<1>2. ASSUME NEW h \in Handler, AskReference(h) PROVE SupportInv' /\ \A d \in Detour : Generated(d)
  BY <1>2, DetourStep, StartInv DEF AskReference, SupportInv
<1>3. ASSUME NEW h \in Handler, NEW d \in Detour, ReadReference(h, d)
      PROVE  SupportInv' /\ \A x \in Detour : Generated(x)
  BY <1>3, DetourStep, StartInv DEF ReadReference, SupportInv
<1>4. ASSUME NEW h \in Handler, GradeReference(h) PROVE SupportInv' /\ \A d \in Detour : Generated(d)
  BY <1>4, GradeReferenceInv, DetourStep DEF GradeReference, SupportInv
<1>5. (\A d \in Detour : Generated(d)) =>
        \A d \in Detour : \A s \in detour'[d].steps \ detour[d].steps : s.by # NoToken
  BY DetourSentinels DEF Generated
<1>6. CASE UNCHANGED vars
  BY <1>1, <1>5, <1>6 DEF vars
<1>7. CASE Next
  BY <1>1, <1>2, <1>3, <1>4, <1>5, <1>7, PublishReferenceStepFacts DEF Next
<1> QED BY <1>6, <1>7

\* Whatever learners ask and whichever processes die, the rows, the attempts and
\* the requests in flight keep the invariant of the detours and of the source.
THEOREM SupportInvariant == Spec => []SupportInv
BY SupportInitInv, SupportStep, PTL DEF Spec

-----------------------------------------------------------------------------
(* Theorems. *)

\* Every row, operation, attempt and supervisor stays in its type: no detour is
\* claimed more than MAX_GENERATION_ATTEMPTS times between two restarts.
THEOREM DetourTypeCorrect == Spec => []DetourTypeOK
<1>1. SupportInv => DetourTypeOK
  BY DEF SupportInv, DetourInv
<1> QED BY <1>1, SupportInvariant, PTL

\* publishReady, upsertReadyReference, the restore of a hidden row and Retry
\* leave a ready detour with content, and one with content never generating.
THEOREM ContentFollowsStatus == Spec => []ContentMatchesStatus
<1>1. SupportInv => ContentMatchesStatus
  BY DEF SupportInv, DetourInv
<1> QED BY <1>1, SupportInvariant, PTL

\* The fence of publishReady: an overtaken attempt adds no step, and the steps
\* of a detour are numbered without gap.
THEOREM StepsComeFromOneAttempt == Spec => []StepsAreOneAttempts
<1>1. SupportInv => StepsAreOneAttempts
  BY DEF SupportInv, DetourInv
<1> QED BY <1>1, SupportInvariant, PTL

\* Claims cost attempts, and only the learner's Retry gives any back.
THEOREM DetourSpendBounded == Spec => []DetourSpendIsBounded
<1>1. SupportInv => DetourSpendIsBounded
  BY PaidIsBounded DEF SupportInv
<1> QED BY <1>1, SupportInvariant, PTL

\* completeOperation('succeeded') follows a publishReady that held the fence.
THEOREM SuccessIsEarned == Spec => []SuccessWasPublished
<1>1. SupportInv => SuccessWasPublished
  BY DEF SupportInv, DetourInv
<1> QED BY <1>1, SupportInvariant, PTL

\* currentSourceExpeditionAssetsMatch in the transactions: no identity torn by
\* a regeneration between two unsynchronised reads is published or adopted.
THEOREM OfferedSetsExisted == Spec => []OfferedSetExisted
<1>1. SupportInv => OfferedSetExisted
  BY DEF SupportInv, SourceInv, HistoryIsOrdered
<1> QED BY <1>1, SupportInvariant, PTL

\* An adoption decided on stale reads still lands on an accepted identity.
THEOREM AdoptionsAreOfAccepted == Spec => []AdoptedWasAccepted
<1>1. SupportInv => AdoptedWasAccepted
  BY DEF SupportInv, SourceInv, HistoryIsOrdered, AdoptedWasAccepted
<1> QED BY <1>1, SupportInvariant, PTL

\* Answers and verdicts are written under sets the learner has adopted, though
\* nothing is checked again between the authorization and the write.
THEOREM AnswersFollowAdoption == Spec => []AnswersAreUnderAdoption
<1>1. SupportInv => AnswersAreUnderAdoption
  BY DEF SupportInv, SourceInv
<1> QED BY <1>1, SupportInvariant, PTL

\* adoptSourceExpedition and activateSourceExpedition make a row active only on
\* the assets that are current in the same transaction.
THEOREM ActivationIsCurrent == Spec => ActivatedOnCurrentAssets
<1>1. SupportInv /\ [Next]_vars => [~mine.active /\ mine'.active => mine'.identity = assets']_sourceVars
  <2> SUFFICES ASSUME SupportInv, Next, ~mine.active, mine'.active, mine' # mine
               PROVE  mine'.identity = assets'
    BY DEF vars, sourceVars
  <2>1. mine \in RowOf
    BY DEF SupportInv, SourceInv, SourceTypes
  <2>2. PICK h \in Handler : CommitAdoption(h) \/ CommitActivation(h)
    BY <2>1 DEF Next, sourceVars, SourceNext, PersistLessons, PersistItems, Start, ReadRow, ReadEntry,
       ReadLessons, ReadItems, Refuse, CommitPublication, LoadItem, Append, OtherActivated, RowOf,
       ReadOnly, AskReference, GradeReference, PublishReferenceStep, ReadReference
  <2>3. CASE CommitAdoption(h)
    BY <2>3 DEF CommitAdoption, AssetsMatch
  <2>4. CASE CommitActivation(h)
    BY <2>1, <2>4 DEF CommitActivation, AssetsMatch, RowOf
  <2> QED BY <2>2, <2>3, <2>4
<1> QED BY <1>1, SupportInvariant, PTL DEF Spec, ActivatedOnCurrentAssets

\* upsertReadyReference takes the expedition FOR SHARE and compares the assets:
\* a reference is published only into the expedition that is active then.
THEOREM ReferencesFollow == Spec => ReferencesFollowTheExpedition
<1>1. SupportInv /\ [Next]_vars =>
        [\A d \in Detour : \A s \in detour'[d].steps \ detour[d].steps :
           s.by = NoToken => s.pin = assets /\ mine.active /\ mine.identity = s.pin]_vars
  BY SupportStep
<1> QED BY <1>1, SupportInvariant, PTL DEF Spec, ReferencesFollowTheExpedition

=============================================================================
