---------------------------- MODULE RecallChallenge ----------------------------
(***************************************************************************)
(* Recall Challenges of one scope of one learner: the rows and events of   *)
(* recall_challenges, and the learner-api requests that create a challenge *)
(* and append to it.  A SQL statement is one step, a transaction that      *)
(* locks its row is one step; anything happens between a request's reads   *)
(* and its write.  Clients send a request again with the same reference    *)
(* when they miss its answer, at any time and on any connection.           *)
(*                                                                         *)
(* A row carries the fold of its events, their number (seq) and their      *)
(* references.  Reading the events of a challenge reads these three.       *)
(***************************************************************************)
EXTENDS RecallCombat

CONSTANTS Challenge,   \* challenge ids: a random one per creation
          Ref,         \* attemptRef and operationRef of the requests
          Handler,     \* concurrent requests
          NoRef,
          MaxAssets    \* bound: accepted asset sets of the expedition

ASSUME NoRefIsNoRef == NoRef \notin Ref
ASSUME AssetsAreNumbered == MaxAssets \in Nat \ {0}

VARIABLES rows,        \* recall_challenges with what the events fold to
          lineup,      \* recall_challenge_lineup: immutable
          assets,      \* identity of the accepted asset set
          opened,      \* the expedition is active and adopted over these assets
          sent,        \* what each reference asks for, once it is used
          job          \* the state of each request handler

vars == <<rows, lineup, assets, opened, sent, job>>

NoLineup == <<>>

Row == [status : {"absent", "active", "won", "abandoned"}, assets : Nat,
        combat : Combat, seq : Nat, refs : SUBSET Ref]

AbsentRow == [status |-> "absent", assets |-> 0, combat |-> InitialCombat(NoLineup),
              seq |-> 0, refs |-> {}]

Action == [challenge : Challenge, kind : Answers, item : Item, prompt : Prompt, correct : BOOLEAN]
            \cup [challenge : Challenge, kind : Engagements]

Unsent == <<>>         \* the request of a reference that is not used yet

\* A handler: pc is its next statement, again whether it reloads after its
\* append.  status, combat and seq are what it has read; assets is the identity
\* its create was opened with, retired the rows its transaction locks.
\* replay (history): the event was committed when the request came in.
Job == [pc : {"idle", "events", "append", "list", "retire", "insert"},
        ref : Ref \cup {NoRef}, again : BOOLEAN, replay : BOOLEAN,
        status : {"absent", "active", "won", "abandoned"}, combat : Combat, seq : Nat,
        assets : Nat, retired : SUBSET Challenge]

IdleJob == [pc |-> "idle", ref |-> NoRef, again |-> FALSE, replay |-> FALSE,
            status |-> "absent", combat |-> InitialCombat(NoLineup), seq |-> 0,
            assets |-> 0, retired |-> {}]

Asked(h) == sent[job[h].ref]
Target(h) == Asked(h).challenge

\* Row locks of the open create transactions.
Locked(c) == \E h \in Handler : c \in job[h].retired

Goes(h, pc) == job' = [job EXCEPT ![h].pc = pc]
Reload(h) == job' = [job EXCEPT ![h] = [IdleJob EXCEPT !.pc = "events", !.ref = job[h].ref,
                                          !.again = TRUE, !.replay = job[h].replay]]
Returns(h) == job' = [job EXCEPT ![h] = IdleJob]

StoreFrame == UNCHANGED <<rows, lineup>>
WorldFrame == UNCHANGED <<assets, opened>>

-----------------------------------------------------------------------------
(* Answers, retreat, resume and abandon. *)

\* A first request, or one sent again: the same reference asks the same thing.
\* Its first statement reads the row's status.
Receive(h, r, a) ==
  /\ job[h].pc = "idle"
  /\ rows[a.challenge].status # "absent"
  /\ sent[r] \in {Unsent, a}
  /\ sent' = [sent EXCEPT ![r] = a]
  /\ job' = [job EXCEPT ![h] = [IdleJob EXCEPT !.pc = "events", !.ref = r,
                                  !.status = rows[a.challenge].status,
                                  !.replay = r \in rows[a.challenge].refs]]
  /\ StoreFrame /\ WorldFrame

\* openActive answers, and the lineup still belongs to the active assets.
Openable(h) == opened /\ rows[Target(h)].assets = assets

Duplicate(h) == job[h].ref \in rows[Target(h)].refs

MutantSettled(h) ==   \* the status gate before the replay
  /\ job[h].status = "active"
  /\ \/ Duplicate(h)
     \/ /\ Asked(h).kind \in Engagements
        /\ job[h].again \/ ChangesNothing(rows[Target(h)].combat, Asked(h).kind)

\* Nothing is left to do: the event is committed, the engagement already is
\* what was asked for, or (for these) an append was tried.
Settled(h) ==
  \/ Duplicate(h)
  \/ /\ Asked(h).kind \in Engagements
     /\ job[h].again \/ ChangesNothing(rows[Target(h)].combat, Asked(h).kind)

\* The turn is valid for what is read.
Appendable(h) ==
  /\ ~job[h].again /\ job[h].status = "active"
  /\ Asked(h).kind \in Answers => Acceptable(rows[Target(h)].combat, Asked(h))

\* The three outcomes of a request, from the events it reads.
Succeeds(h) == job[h].pc = "events" /\ Openable(h) /\ Settled(h)
Proceeds(h) == job[h].pc = "events" /\ Openable(h) /\ ~Settled(h) /\ Appendable(h)
Refuses(h) == job[h].pc = "events" /\ Openable(h) /\ ~Settled(h) /\ ~Appendable(h)

\* Reading the events, opening the expedition and deciding are one step: what
\* openActive says is used for nothing later.  The append is a step of its own.
Decide(h) ==
  /\ \/ job[h].pc = "events" /\ ~Openable(h) /\ Returns(h)
     \/ Succeeds(h) /\ Returns(h)
     \/ /\ Proceeds(h)
        /\ job' = [job EXCEPT ![h].pc = "append", ![h].combat = rows[Target(h)].combat,
                              ![h].seq = rows[Target(h)].seq]
     \/ Refuses(h) /\ Returns(h)
  /\ UNCHANGED sent /\ StoreFrame /\ WorldFrame

MutantInSequence(h) == TRUE                         \* no expected sequence
InSequence(h) == rows[Target(h)].seq = job[h].seq

\* The status an event materializes, in its transaction, judged on what was read.
Materialized(h, s) ==
  IF Asked(h).kind = "abandon" THEN "abandoned"
  ELSE IF Asked(h).kind \in Answers /\ s.unresolved = <<>> THEN "won"
  ELSE "active"

MutantCommitted(h) ==   \* won is judged on the fold before the event
  [rows[Target(h)] EXCEPT !.combat = Played(@, Asked(h)), !.seq = @ + 1,
                          !.refs = @ \cup {job[h].ref},
                          !.status = Materialized(h, job[h].combat)]

Committed(h) ==
  [rows[Target(h)] EXCEPT !.combat = Played(@, Asked(h)), !.seq = @ + 1,
                          !.refs = @ \cup {job[h].ref},
                          !.status = Materialized(h, Played(job[h].combat, Asked(h)))]

Conflicts(h) == job[h].pc = "append" /\ ~Duplicate(h) /\ rows[Target(h)].status # "active"

\* appendEvent: the row lock serializes it with every other write to the row.
AppendEvent(h) ==
  /\ job[h].pc = "append" /\ ~Locked(Target(h))
  /\ \/ Conflicts(h) /\ Returns(h) /\ UNCHANGED rows
     \/ ~Conflicts(h) /\ (Duplicate(h) \/ ~InSequence(h)) /\ Reload(h) /\ UNCHANGED rows
     \/ /\ ~Conflicts(h) /\ ~Duplicate(h) /\ InSequence(h)
        /\ rows' = [rows EXCEPT ![Target(h)] = Committed(h)]
        /\ IF Asked(h).kind \in Answers THEN Returns(h) ELSE Reload(h)
  /\ UNCHANGED <<lineup, sent>> /\ WorldFrame

-----------------------------------------------------------------------------
(* Creating a challenge.  Eligibility, locked scopes and the choice of the *)
(* lineup depend on the response log: any lineup, or none, may result.     *)

BeginCreate(h) ==
  /\ job[h].pc = "idle" /\ opened
  /\ job' = [job EXCEPT ![h] = [IdleJob EXCEPT !.pc = "list", !.assets = assets]]
  /\ UNCHANGED sent /\ StoreFrame /\ WorldFrame

Active == {c \in Challenge : rows[c].status = "active"}

\* An active challenge over the same assets is a conflict.
ListChallenges(h) ==
  /\ job[h].pc = "list"
  /\ IF \E c \in Active : rows[c].assets = job[h].assets
     THEN job' = [job EXCEPT ![h] = IdleJob] ELSE Goes(h, "retire")
  /\ UNCHANGED sent /\ StoreFrame /\ WorldFrame

\* The transaction's UPDATE waits for and takes the locks of its rows...
RetireSuperseded(h) ==
  LET superseded == {c \in Active : rows[c].assets # job[h].assets} IN
  /\ job[h].pc = "retire" /\ \A c \in superseded : ~Locked(c)
  /\ job' = [job EXCEPT ![h].pc = "insert", ![h].retired = superseded]
  /\ UNCHANGED sent /\ StoreFrame /\ WorldFrame

\* ... and the unique index of active challenges decides the INSERT.
Conflict(h) == Active \ job[h].retired # {}

\* A conflict rolls the retirement back; the answer names the winner, if any.
InsertChallenge(h, c, l) ==
  /\ job[h].pc = "insert" /\ rows[c].status = "absent"
  /\ IF Conflict(h) THEN StoreFrame
     ELSE /\ rows' = [x \in Challenge |->
                       IF x = c THEN [AbsentRow EXCEPT !.status = "active", !.assets = job[h].assets,
                                                       !.combat = InitialCombat(l)]
                       ELSE IF x \in job[h].retired THEN [rows[x] EXCEPT !.status = "abandoned"]
                       ELSE rows[x]]
          /\ lineup' = [lineup EXCEPT ![c] = l]
  /\ job' = [job EXCEPT ![h] = IdleJob]
  /\ UNCHANGED sent /\ WorldFrame

\* A request dies: its process or connection does, or a statement fails, and
\* its transaction rolls back.  A create may also find no eligible item.
Dies(h) ==
  /\ job[h].pc # "idle"
  /\ job' = [job EXCEPT ![h] = IdleJob]
  /\ UNCHANGED sent /\ StoreFrame /\ WorldFrame

-----------------------------------------------------------------------------
(* The expedition around the challenges (Source Expeditions). *)

\* The bank is regenerated and accepted again: adopted assets are out of date.
Supersede ==
  /\ assets < MaxAssets
  /\ assets' = assets + 1 /\ opened' = FALSE
  /\ UNCHANGED <<sent, job>> /\ StoreFrame

\* The learner adopts or activates the expedition, or activates another one.
OpenOrClose ==
  /\ opened' = ~opened
  /\ UNCHANGED <<sent, job, assets>> /\ StoreFrame

Init ==
  /\ rows = [c \in Challenge |-> AbsentRow]
  /\ lineup = [c \in Challenge |-> NoLineup]
  /\ assets = 1 /\ opened = TRUE
  /\ sent = [r \in Ref |-> Unsent]
  /\ job = [h \in Handler |-> IdleJob]

Request(h) == \/ \E r \in Ref, a \in Action : Receive(h, r, a)
              \/ Decide(h) \/ AppendEvent(h)
              \/ BeginCreate(h) \/ ListChallenges(h) \/ RetireSuperseded(h)
              \/ \E c \in Challenge, l \in Lineup : InsertChallenge(h, c, l)
              \/ Dies(h)

Next == Supersede \/ OpenOrClose \/ \E h \in Handler : Request(h)

Spec == Init /\ [][Next]_vars

-----------------------------------------------------------------------------
(* Correctness. *)

TypeOK ==
  /\ rows \in [Challenge -> Row]
  /\ lineup \in [Challenge -> Lineup \cup {NoLineup}]
  /\ assets \in 1..MaxAssets /\ opened \in BOOLEAN
  /\ sent \in [Ref -> Action \cup {Unsent}]
  /\ job \in [Handler -> Job]

\* The row's status, which every index and list trusts, is what a replay of the
\* events says: won exactly when no ward is left, and abandoned once an abandon
\* was committed.  The two are written from a fold made before the lock.
StatusMatchesReplay ==
  \A c \in Challenge : rows[c].status # "absent" =>
    /\ rows[c].status = "won" <=> rows[c].combat.unresolved = <<>>
    /\ rows[c].combat.abandoned => rows[c].status = "abandoned"

\* A request whose event was committed before it was sent again is never
\* refused while its challenge can be opened, not even when that event ended it.
ReplayIsNeverRefused ==
  \A h \in Handler : job[h].replay => ~Refuses(h) /\ ~Conflicts(h)

\* "A fresh start over an active challenge is a conflict until a confirmed
\* abandon succeeds": an abandon that is answered as applied has ended the fight.
AppliedAbandonEndsTheFight ==
  \A h \in Handler : Succeeds(h) /\ Asked(h).kind = "abandon" =>
    rows[Target(h)].status # "active"

\* "A prior active challenge over a superseded qualified asset set is not
\* resumable. Retire it": a challenge over the current assets is not retired.
OnlySupersededAreRetired ==
  [][\A c \in Challenge :
       /\ rows[c].status = "active" /\ rows[c].assets = assets
       /\ rows'[c].status = "abandoned"
       => rows'[c].combat.abandoned]_vars

\* What the scope promises, implemented by the row lock, the expected sequence,
\* the references and the unique index.
stageOf == [c \in Challenge |-> rows[c].status]
combatOf == [c \in Challenge |-> rows[c].combat]
countedOf == [c \in Challenge |-> rows[c].refs]

Fight == INSTANCE RecallFight WITH stage <- stageOf, combat <- combatOf, counted <- countedOf

ImplementsFight == Fight!Spec

=============================================================================
