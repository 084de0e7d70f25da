---------------------------- MODULE ExpeditionLease ----------------------------
(***************************************************************************)
(* What the expedition store promises about one generated Topic            *)
(* Expedition, whatever the workers, supervisors and Retry requests do:    *)
(* one attempt at a time holds the row, an attempt is granted once, and    *)
(* only the holder turns the row into `ready`, with its own assets.        *)
(* (packages/ports/src/index.ts, LearnerExpeditionStorePort.)              *)
(***************************************************************************)
CONSTANTS Expedition,   \* rows of learner_expeditions of kind 'topic'
          Token,        \* operation ids, each one attempt
          NoToken       \* SQL NULL in current_operation_id or enrichment_id

VARIABLES phase,        \* the row's status, "absent" before it exists
          holder,       \* the attempt whose writes the row still accepts
          asset,        \* the attempt whose layer and bank the row shows
          granted       \* the attempts that ever held a row

vars == <<phase, holder, asset, granted>>

Phase == {"absent", "generating", "ready", "failed"}

Init == /\ phase = [e \in Expedition |-> "absent"]
        /\ holder = [e \in Expedition |-> NoToken]
        /\ asset = [e \in Expedition |-> NoToken]
        /\ granted = {}

Request(e) == /\ phase[e] = "absent"
              /\ phase' = [phase EXCEPT ![e] = "generating"]
              /\ UNCHANGED <<holder, asset, granted>>

\* A claim replaces whatever attempt held the row by one that never held any.
Grant(e, t) == /\ phase[e] = "generating"
               /\ t \notin granted
               /\ granted' = granted \cup {t}
               /\ holder' = [holder EXCEPT ![e] = t]
               /\ UNCHANGED <<phase, asset>>

Publish(e) == /\ holder[e] # NoToken
              /\ phase' = [phase EXCEPT ![e] = "ready"]
              /\ asset' = [asset EXCEPT ![e] = holder[e]]
              /\ holder' = [holder EXCEPT ![e] = NoToken]
              /\ UNCHANGED granted

\* Failure leaves the holder: the store keeps current_operation_id.
Fail(S) == /\ \A e \in S : phase[e] = "generating"
           /\ phase' = [e \in Expedition |-> IF e \in S THEN "failed" ELSE phase[e]]
           /\ UNCHANGED <<holder, asset, granted>>

\* A late holder whose row was failed under it writes `generating` again.
Revive(e) == /\ phase[e] = "failed" /\ holder[e] # NoToken
             /\ phase' = [phase EXCEPT ![e] = "generating"]
             /\ UNCHANGED <<holder, asset, granted>>

Release(e) == /\ holder[e] # NoToken
              /\ holder' = [holder EXCEPT ![e] = NoToken]
              /\ UNCHANGED <<phase, asset, granted>>

Retry(e) == /\ phase[e] # "absent"
            /\ phase' = [phase EXCEPT ![e] = "generating"]
            /\ holder' = [holder EXCEPT ![e] = NoToken]
            /\ UNCHANGED <<asset, granted>>

Next == \/ \E e \in Expedition : \/ Request(e) \/ Publish(e) \/ Revive(e)
                                 \/ Release(e) \/ Retry(e)
                                 \/ \E t \in Token : Grant(e, t)
        \/ \E S \in SUBSET Expedition : Fail(S)

Spec == Init /\ [][Next]_vars
=============================================================================
