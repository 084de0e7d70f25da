---------------------------- MODULE StudyWithSupport ----------------------------
(***************************************************************************)
(* A learner's Source Expedition and the scaffold detours under its nodes: *)
(* a request whose term the qualified assets already explain publishes a   *)
(* reference to them into a detour, a review grades such a step, and both   *)
(* go through the authorization of SourceExpedition.                        *)
(***************************************************************************)
EXTENDS ScaffoldDetour, SourceExpedition

CONSTANT Profile    \* bounds of a run: [detour : budget, begun : Beginning, calls : Nat]

\* What qualifies can be pinned.
ASSUME QualifiedCanBePinned == Qualified \subseteq Pin

VARIABLE step        \* the reference step a review has read

vars == <<detourVars, sourceVars, step>>

NoStep == [ordinal |-> 0, by |-> NoToken, pin |-> NoToken]

\* resolveExactScaffoldReference found the term among the qualified assets.
AskReference(h) == Start(h, "reference") /\ UNCHANGED <<detourVars, step>>

MutantOwned(pair) == mine.identity = pair    \* another expedition may be active

\* upsertReadyReference takes the row FOR SHARE.
Owned(pair) == mine.active /\ mine.identity = pair

\* The transaction of upsertReadyReference: the assets first, then the row and
\* the pin, whose lesson and item are current when the assets are.
PublishReferenceStep(h, d) ==
  LET pair == Found(req[h]) IN
  /\ Approved(h, "reference") /\ Done(h)
  /\ IF AssetsMatch(pair) /\ Owned(pair) THEN PublishReference(d, pair) ELSE UNCHANGED detourVars
  /\ UNCHANGED <<assets, bank, catalog, mine, answers, current, accepted, adopted, calls, step>>

\* getForLearnerStep: a step that pins assets, of a detour that is ready now.
ReadReference(h, d) ==
  /\ detour[d].status = "ready"
  /\ \E s \in detour[d].steps :
       /\ s.pin # NoToken
       /\ step' = [step EXCEPT ![h] = s]
  /\ Start(h, "review") /\ UNCHANGED detourVars

\* The pinned lesson and item are among those of the authorization.
Qualifies(h) == step[h].pin = Found(req[h])

\* Neither the detour nor the assets are read again before the answer.
GradeReference(h) ==
  /\ Approved(h, "review") /\ Done(h)
  /\ answers' = IF Qualifies(h) THEN answers \cup {step[h].pin} ELSE answers
  /\ step' = [step EXCEPT ![h] = NoStep]
  /\ UNCHANGED <<detourVars, assets, bank, catalog, mine, current, accepted, adopted, calls>>

Init == /\ \E b \in Profile : DetourInit(b.detour) /\ SourceInit(b.begun, b.calls)
        /\ step = [h \in Handler |-> NoStep]

Next == \/ DetourNext /\ UNCHANGED <<sourceVars, step>>
        \/ SourceNext /\ UNCHANGED <<detourVars, step>>
        \/ \E h \in Handler :
             \/ AskReference(h) \/ GradeReference(h)
             \/ \E d \in Detour : PublishReferenceStep(h, d) \/ ReadReference(h, d)

Spec == Init /\ [][Next]_vars /\ DetourFairness

-----------------------------------------------------------------------------
(* Correctness. *)

\* A request publishes a reference only into the expedition that is active then,
\* adopted with the assets it pins, and only while they are current: whatever
\* was superseded, adopted or activated since the request was authorized.
ReferencesFollowTheExpedition ==
  [][\A d \in Detour : \A s \in detour'[d].steps \ detour[d].steps :
       s.by = NoToken => s.pin = assets /\ mine.active /\ mine.identity = s.pin]_vars
=============================================================================
