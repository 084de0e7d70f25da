------------------------- MODULE RecallChallengeProofs -------------------------
(***************************************************************************)
(* What is proved of RecallChallenge, for any challenges, references,      *)
(* handlers, items and asset sets.                                         *)
(***************************************************************************)
EXTENDS RecallChallenge, RecallCombatProofs

(* The inductive invariant. *)

\* A handler that has read something knows what it was asked, of a challenge
\* that exists.
BusyHasRequest ==
  \A h \in Handler : job[h].pc \in {"events", "append"} =>
    job[h].ref \in Ref /\ Asked(h) \in Action /\ rows[Target(h)].status # "absent"

\* The sequence a handler read stands for the fold it read, on which its event
\* is valid: while the sequence has not moved on, neither has the fold.
SequenceStandsForFold ==
  \A h \in Handler : job[h].pc = "append" =>
    /\ job[h].seq <= rows[Target(h)].seq
    /\ job[h].seq = rows[Target(h)].seq => job[h].combat = rows[Target(h)].combat
    /\ Acceptable(job[h].combat, Asked(h))

\* Rows locked by a create stay active and have one create that locked them.
LocksAreHeld ==
  /\ \A h \in Handler : job[h].retired # {} => job[h].pc = "insert"
  /\ \A h \in Handler : \A c \in job[h].retired : rows[c].status = "active"
  /\ \A h, g \in Handler : h # g => job[h].retired \cap job[g].retired = {}

\* A committed reference stays committed.
ReplayIsCommitted ==
  \A h \in Handler : job[h].replay => job[h].pc \in {"events", "append"} /\ Duplicate(h)

AbsentRowIsEmpty ==
  \A c \in Challenge : rows[c].status = "absent" => rows[c] = AbsentRow

IInv == /\ TypeOK
        /\ BusyHasRequest
        /\ SequenceStandsForFold
        /\ LocksAreHeld
        /\ ReplayIsCommitted
        /\ AbsentRowIsEmpty
        /\ StatusMatchesReplay

-----------------------------------------------------------------------------
(* The data. *)

LEMMA UnsentIsNoAction == Unsent \notin Action
BY DEF Unsent, Action, Answers, Engagements

LEMMA NoLineupFact == NoLineup \in Seq(Item)
BY DEF NoLineup

LEMMA ActionFacts ==
  ASSUME NEW a \in Action
  PROVE  Requested(a)
BY DEF Action, Requested, Answers, Engagements

LEMMA IdleFacts ==
  /\ IdleJob \in Job /\ IdleJob.pc = "idle" /\ ~IdleJob.replay /\ ~IdleJob.again
  /\ IdleJob.retired = {}
<1>1. InitialCombat(NoLineup) \in Combat
  BY NoLineupFact, InitialFacts
<1> QED BY <1>1 DEF IdleJob, Job

LEMMA AbsentFacts ==
  /\ AbsentRow \in Row /\ AbsentRow.status = "absent" /\ AbsentRow.refs = {}
  /\ AbsentRow.combat = InitialCombat(NoLineup)
<1>1. InitialCombat(NoLineup) \in Combat
  BY NoLineupFact, InitialFacts
<1> QED BY <1>1 DEF AbsentRow, Row

-----------------------------------------------------------------------------
(* Initial states, and the steps that change the state of one handler only. *)

LEMMA InitInv == Init => IInv
<1> SUFFICES ASSUME Init PROVE IInv
  OBVIOUS
<1> USE DEF Init
<1>1. TypeOK
  BY IdleFacts, AbsentFacts, AssetsAreNumbered DEF TypeOK
<1>2. BusyHasRequest /\ SequenceStandsForFold /\ LocksAreHeld /\ ReplayIsCommitted
  BY IdleFacts DEF BusyHasRequest, SequenceStandsForFold, LocksAreHeld, ReplayIsCommitted
<1>3. AbsentRowIsEmpty /\ StatusMatchesReplay
  BY AbsentFacts DEF AbsentRowIsEmpty, StatusMatchesReplay
<1> QED BY <1>1, <1>2, <1>3 DEF IInv

\* The new state of a handler agrees with rows that did not change.
Agrees(h, j) ==
  LET a == sent'[j.ref] IN
  /\ j.pc \in {"events", "append"} =>
       j.ref \in Ref /\ a \in Action /\ rows[a.challenge].status # "absent"
  /\ j.pc = "append" => /\ j.seq = rows[a.challenge].seq
                        /\ j.combat = rows[a.challenge].combat
                        /\ Acceptable(j.combat, a)
  /\ j.retired # {} => j.pc = "insert"
  /\ \A c \in j.retired : rows[c].status = "active"
  /\ \A g \in Handler : g # h => j.retired \cap job[g].retired = {}
  /\ j.replay => j.pc \in {"events", "append"} /\ j.ref \in rows[a.challenge].refs

LEMMA HandlerInv ==
  ASSUME IInv, NEW h \in Handler, NEW j \in Job, job' = [job EXCEPT ![h] = j],
         UNCHANGED <<rows, lineup, assets, opened>>,
         sent' \in [Ref -> Action \cup {Unsent}],
         \A r \in Ref : sent[r] \in Action => sent'[r] = sent[r],
         Agrees(h, j)
  PROVE  IInv'
<1> USE DEF IInv
<1>1. TypeOK'
  BY DEF TypeOK
<1>2. \A g \in Handler : job'[g] = IF g = h THEN j ELSE job[g]
  BY DEF TypeOK
<1>3. \A g \in Handler : g # h /\ job[g].pc \in {"events", "append"} =>
        Asked(g)' = Asked(g) /\ Target(g)' = Target(g)
  BY <1>2 DEF BusyHasRequest, Asked, Target
<1>4. job'[h] = j /\ Asked(h)' = sent'[j.ref] /\ Target(h)' = sent'[j.ref].challenge
  BY <1>2 DEF Asked, Target
<1>5. BusyHasRequest'
  BY <1>2, <1>3, <1>4 DEF Agrees, BusyHasRequest
<1>6. SequenceStandsForFold'
  <2> SUFFICES ASSUME NEW g \in Handler, job'[g].pc = "append"
               PROVE  /\ job'[g].seq <= rows[Target(g)'].seq
                      /\ job'[g].seq = rows[Target(g)'].seq => job'[g].combat = rows[Target(g)'].combat
                      /\ Acceptable(job'[g].combat, Asked(g)')
    BY DEF SequenceStandsForFold
  <2>1. CASE g = h
    <3>1. rows[Target(g)'].seq \in Nat
      BY <1>4, <2>1 DEF Agrees, TypeOK, Row, Action
    <3> QED BY <1>4, <2>1, <3>1 DEF Agrees
  <2>2. CASE g # h
    BY <1>2, <1>3, <2>2 DEF SequenceStandsForFold
  <2> QED BY <2>1, <2>2
<1>7. LocksAreHeld'
  BY <1>2 DEF Agrees, LocksAreHeld
<1>8. ReplayIsCommitted'
  BY <1>2, <1>3, <1>4 DEF Agrees, ReplayIsCommitted, Duplicate
<1>9. AbsentRowIsEmpty' /\ StatusMatchesReplay'
  BY DEF AbsentRowIsEmpty, StatusMatchesReplay
<1> QED BY <1>1, <1>5, <1>6, <1>7, <1>8, <1>9

LEMMA ReceiveInv ==
  ASSUME IInv, NEW h \in Handler, NEW r \in Ref, NEW a \in Action, Receive(h, r, a)
  PROVE  IInv'
<1> DEFINE st == rows[a.challenge].status
           committed == r \in rows[a.challenge].refs
           j == [IdleJob EXCEPT !.pc = "events", !.ref = r, !.status = st, !.replay = committed]
<1>1. TypeOK /\ a.challenge \in Challenge /\ rows[a.challenge] \in Row
  BY DEF IInv, TypeOK, Action
<1>2. /\ j \in Job /\ j.pc = "events" /\ j.ref = r /\ j.retired = {}
      /\ j.replay <=> r \in rows[a.challenge].refs
  <2>1. st \in {"absent", "active", "won", "abandoned"} /\ committed \in BOOLEAN
    BY <1>1 DEF Row
  <2>2. committed <=> r \in rows[a.challenge].refs
    OBVIOUS
  <2> HIDE DEF st, committed
  <2>3. /\ j \in Job /\ j.pc = "events" /\ j.ref = r /\ j.retired = {}
        /\ j.replay = committed
    BY <2>1, IdleFacts DEF Job
  <2> QED BY <2>2, <2>3
<1>3. /\ job' = [job EXCEPT ![h] = j] /\ sent' = [sent EXCEPT ![r] = a]
      /\ sent[r] \in {Unsent, a} /\ rows[a.challenge].status # "absent"
      /\ UNCHANGED <<rows, lineup, assets, opened>>
  BY DEF Receive, StoreFrame, WorldFrame
<1> HIDE DEF j
<1>4. /\ sent' \in [Ref -> Action \cup {Unsent}] /\ sent'[r] = a
      /\ \A x \in Ref : sent[x] \in Action => sent'[x] = sent[x]
  BY <1>1, <1>3, UnsentIsNoAction DEF TypeOK
<1>5. Agrees(h, j)
  BY <1>2, <1>3, <1>4 DEF Agrees
<1> QED BY <1>2, <1>3, <1>4, <1>5, HandlerInv

\* A handler that returns is idle.
LEMMA ReturnInv ==
  ASSUME IInv, NEW h \in Handler, job' = [job EXCEPT ![h] = IdleJob],
         UNCHANGED <<rows, lineup, assets, opened, sent>>
  PROVE  IInv'
<1>1. sent' \in [Ref -> Action \cup {Unsent}] /\ \A r \in Ref : sent'[r] = sent[r]
  BY DEF IInv, TypeOK
<1>2. Agrees(h, IdleJob)
  BY IdleFacts DEF Agrees
<1> QED BY <1>1, <1>2, IdleFacts, HandlerInv

LEMMA DecideInv ==
  ASSUME IInv, NEW h \in Handler, Decide(h)
  PROVE  IInv'
<1>1. UNCHANGED <<rows, lineup, assets, opened, sent>>
  BY DEF Decide, StoreFrame, WorldFrame
<1>2. CASE Returns(h)
  BY <1>1, <1>2, ReturnInv DEF Returns
<1>3. CASE Proceeds(h) /\ ~Returns(h)
  <2> DEFINE j == [job[h] EXCEPT !.pc = "append", !.combat = rows[Target(h)].combat,
                                 !.seq = rows[Target(h)].seq]
  <2>1. /\ TypeOK /\ job[h] \in Job /\ job[h].pc = "events"
        /\ job[h].ref \in Ref /\ Asked(h) \in Action /\ rows[Target(h)].status # "absent"
    BY <1>3 DEF IInv, TypeOK, Proceeds, BusyHasRequest
  <2>2. Target(h) \in Challenge /\ rows[Target(h)] \in Row
    BY <2>1 DEF TypeOK, Target, Action
  <2>3. job' = [job EXCEPT ![h] = j]
    BY <1>3 DEF Decide, Returns, Proceeds, Succeeds, Refuses
  <2>4. /\ j \in Job /\ j.pc = "append" /\ j.ref = job[h].ref /\ j.retired = job[h].retired
        /\ j.replay = job[h].replay
        /\ j.combat = rows[Target(h)].combat /\ j.seq = rows[Target(h)].seq
    BY <2>1, <2>2 DEF Job, Row
  <2> HIDE DEF j
  <2>5. Acceptable(j.combat, Asked(h))
    <3>1. CASE Asked(h).kind \in Answers
      BY <1>3, <2>4, <3>1 DEF Proceeds, Appendable
    <3>2. CASE Asked(h).kind \notin Answers
      <4>1. Asked(h).kind \in Engagements
        BY <2>1, <3>2 DEF Action
      <4> QED BY <1>3, <2>4, <3>2, <4>1 DEF Proceeds, Settled, Acceptable
    <3> QED BY <3>1, <3>2
  <2>6. job[h].retired = {} /\ (job[h].replay => Duplicate(h))
    BY <2>1 DEF IInv, LocksAreHeld, ReplayIsCommitted
  <2>7. /\ sent' \in [Ref -> Action \cup {Unsent}] /\ \A r \in Ref : sent'[r] = sent[r]
        /\ sent'[j.ref] = Asked(h)
    BY <1>1, <2>1, <2>4 DEF TypeOK, Asked
  <2>8. Agrees(h, j)
    BY <2>1, <2>4, <2>5, <2>6, <2>7 DEF Agrees, Target, Duplicate
  <2> QED BY <1>1, <2>3, <2>4, <2>7, <2>8, HandlerInv
<1> QED BY <1>2, <1>3 DEF Decide

LEMMA ReloadInv ==
  ASSUME IInv, NEW h \in Handler, job[h].pc = "append", Reload(h),
         UNCHANGED <<rows, lineup, assets, opened, sent>>
  PROVE  IInv'
<1> DEFINE j == [IdleJob EXCEPT !.pc = "events", !.ref = job[h].ref,
                                !.again = TRUE, !.replay = job[h].replay]
<1>1. /\ TypeOK /\ job[h] \in Job /\ job[h].ref \in Ref /\ Asked(h) \in Action
      /\ rows[Target(h)].status # "absent" /\ (job[h].replay => Duplicate(h))
  BY DEF IInv, TypeOK, BusyHasRequest, ReplayIsCommitted
<1>2. job' = [job EXCEPT ![h] = j]
  BY DEF Reload
<1>3. /\ j \in Job /\ j.pc = "events" /\ j.ref = job[h].ref /\ j.retired = {}
      /\ j.replay = job[h].replay
  BY <1>1, IdleFacts DEF Job
<1> HIDE DEF j
<1>4. /\ sent' \in [Ref -> Action \cup {Unsent}] /\ \A r \in Ref : sent'[r] = sent[r]
      /\ sent'[j.ref] = Asked(h)
  BY <1>1, <1>3 DEF TypeOK, Asked
<1>5. Agrees(h, j)
  BY <1>1, <1>3, <1>4 DEF Agrees, Target, Duplicate
<1> QED BY <1>2, <1>3, <1>4, <1>5, HandlerInv

\* The reads and locks of a create.
LEMMA CreateInv ==
  ASSUME IInv, NEW h \in Handler,
         BeginCreate(h) \/ ListChallenges(h) \/ RetireSuperseded(h) \/ Dies(h)
  PROVE  IInv'
<1>1. UNCHANGED <<rows, lineup, assets, opened, sent>>
  BY DEF BeginCreate, ListChallenges, RetireSuperseded, Dies, StoreFrame, WorldFrame
<1>2. /\ TypeOK /\ job[h] \in Job
      /\ sent' \in [Ref -> Action \cup {Unsent}] /\ \A r \in Ref : sent'[r] = sent[r]
  BY <1>1 DEF IInv, TypeOK
<1>3. CASE BeginCreate(h)
  <2> DEFINE j == [IdleJob EXCEPT !.pc = "list", !.assets = assets]
  <2>1. j \in Job /\ j.pc = "list" /\ j.retired = {} /\ ~j.replay
    <3>1. assets \in Nat
      BY <1>2, AssetsAreNumbered DEF TypeOK
    <3> QED BY <3>1, IdleFacts DEF Job
  <2>2. job' = [job EXCEPT ![h] = j]
    BY <1>3 DEF BeginCreate
  <2> HIDE DEF j
  <2>3. Agrees(h, j)
    BY <2>1 DEF Agrees
  <2> QED BY <1>1, <1>2, <2>1, <2>2, <2>3, HandlerInv
<1>4. CASE ListChallenges(h) /\ Goes(h, "retire")
  <2> DEFINE j == [job[h] EXCEPT !.pc = "retire"]
  <2>1. job[h].pc = "list" /\ job[h].retired = {} /\ ~job[h].replay
    BY <1>2, <1>4 DEF ListChallenges, IInv, LocksAreHeld, ReplayIsCommitted, Job
  <2>2. j \in Job /\ j.pc = "retire" /\ j.retired = {} /\ ~j.replay
    BY <1>2, <2>1 DEF Job
  <2>3. job' = [job EXCEPT ![h] = j]
    BY <1>4 DEF Goes
  <2> HIDE DEF j
  <2>4. Agrees(h, j)
    BY <2>2 DEF Agrees
  <2> QED BY <1>1, <1>2, <2>2, <2>3, <2>4, HandlerInv
<1>5. CASE RetireSuperseded(h)
  <2> DEFINE S == {c \in Active : rows[c].assets # job[h].assets}
             j == [job[h] EXCEPT !.pc = "insert", !.retired = S]
  <2>1. /\ job[h].pc = "retire" /\ \A c \in S : ~Locked(c)
        /\ job' = [job EXCEPT ![h] = j]
    BY <1>5 DEF RetireSuperseded
  <2>2. ~job[h].replay
    BY <2>1 DEF IInv, ReplayIsCommitted
  <2>3. S \subseteq Challenge /\ \A c \in S : rows[c].status = "active"
    BY DEF Active
  <2>4. \A g \in Handler : S \cap job[g].retired = {}
    BY <2>1 DEF Locked
  <2> HIDE DEF S
  <2>5. j \in Job /\ j.pc = "insert" /\ j.retired = S /\ j.replay = job[h].replay
    BY <1>2, <2>3 DEF Job
  <2> HIDE DEF j
  <2>6. Agrees(h, j)
    BY <2>2, <2>3, <2>4, <2>5 DEF Agrees
  <2> QED BY <1>1, <1>2, <2>1, <2>5, <2>6, HandlerInv
<1> QED BY <1>1, <1>3, <1>4, <1>5, ReturnInv DEF ListChallenges, Dies

-----------------------------------------------------------------------------
(* The steps that write rows. *)

\* What a commit writes: an event valid for the fold it was judged on, which is
\* the fold it is played on.
LEMMA CommittedFacts ==
  ASSUME IInv, NEW h \in Handler, job[h].pc = "append", InSequence(h),
         rows[Target(h)].status = "active"
  PROVE  /\ Target(h) \in Challenge /\ Asked(h) \in Action
         /\ Acceptable(rows[Target(h)].combat, Asked(h))
         /\ Committed(h) \in Row
         /\ Committed(h).combat = Played(rows[Target(h)].combat, Asked(h))
         /\ Committed(h).seq = rows[Target(h)].seq + 1
         /\ Committed(h).refs = rows[Target(h)].refs \cup {job[h].ref}
         /\ Committed(h).assets = rows[Target(h)].assets
         /\ Committed(h).status = Materialized(h, Played(rows[Target(h)].combat, Asked(h)))
         /\ Committed(h).status # "absent"
         /\ Committed(h).status = "won" <=> Committed(h).combat.unresolved = <<>>
         /\ Committed(h).combat.abandoned <=> Committed(h).status = "abandoned"
<1> DEFINE t == Target(h)
           a == Asked(h)
           s == rows[t].combat
           e == Played(s, a)
           z == Materialized(h, e)
<1>1. TypeOK /\ a \in Action /\ job[h].ref \in Ref /\ t \in Challenge /\ rows[t] \in Row
  BY DEF IInv, TypeOK, BusyHasRequest, Action, Target
<1>2. s \in Combat /\ job[h].combat = s /\ Acceptable(s, a)
  BY <1>1 DEF IInv, SequenceStandsForFold, InSequence, Row
<1>3. s.unresolved # <<>> /\ ~s.abandoned
  BY <1>1 DEF IInv, StatusMatchesReplay
<1>4. Committed(h) = [rows[t] EXCEPT !.combat = e, !.seq = rows[t].seq + 1,
                                     !.refs = rows[t].refs \cup {job[h].ref}, !.status = z]
  BY <1>1, <1>2 DEF Committed, Row
<1>5. /\ e \in Combat
      /\ a.kind \in Engagements => e.unresolved = s.unresolved
      /\ a.kind # "abandon" => e.abandoned = s.abandoned
      /\ a.kind = "abandon" => e.abandoned
  BY <1>1, <1>2, ActionFacts, PlayedFacts
<1>6. a.kind \in Answers \/ a.kind \in Engagements
  BY <1>1 DEF Action
<1>7. /\ z \in {"active", "won", "abandoned"}
      /\ a.kind = "abandon" => z = "abandoned"
      /\ a.kind # "abandon" => z # "abandoned"
      /\ a.kind \in Answers => (z = "won" <=> e.unresolved = <<>>)
      /\ a.kind \in Engagements => z # "won"
  BY DEF Materialized, Answers, Engagements
<1>8. /\ z = "won" <=> e.unresolved = <<>>
      /\ e.abandoned <=> z = "abandoned"
  BY <1>3, <1>5, <1>6, <1>7
<1> HIDE DEF e, z
<1>9. /\ Committed(h) \in Row /\ Committed(h).combat = e /\ Committed(h).seq = rows[t].seq + 1
      /\ Committed(h).refs = rows[t].refs \cup {job[h].ref}
      /\ Committed(h).assets = rows[t].assets /\ Committed(h).status = z
  <2> DEFINE q == rows[t].seq + 1
             f == rows[t].refs \cup {job[h].ref}
  <2>1. q \in Nat /\ f \in SUBSET Ref /\ z \in {"absent", "active", "won", "abandoned"}
    BY <1>1, <1>7 DEF Row
  <2>2. Committed(h) = [rows[t] EXCEPT !.combat = e, !.seq = q, !.refs = f, !.status = z]
    BY <1>4
  <2> HIDE DEF q, f
  <2>3. /\ Committed(h) \in Row /\ Committed(h).combat = e /\ Committed(h).seq = q
        /\ Committed(h).refs = f /\ Committed(h).assets = rows[t].assets
        /\ Committed(h).status = z
    BY <1>1, <1>5, <2>1, <2>2 DEF Row
  <2> QED BY <2>3 DEF q, f
<1> QED BY <1>1, <1>2, <1>7, <1>8, <1>9 DEF e, z

\* A committed event leaves the other handlers a row with one event more.
LEMMA CommitInv ==
  ASSUME IInv, NEW h \in Handler, job[h].pc = "append", ~Locked(Target(h)),
         rows[Target(h)].status = "active", InSequence(h), ~Duplicate(h),
         rows' = [rows EXCEPT ![Target(h)] = Committed(h)],
         Returns(h) \/ Reload(h), UNCHANGED <<lineup, assets, opened, sent>>
  PROVE  IInv'
<1> DEFINE t == Target(h)
           k == [IdleJob EXCEPT !.pc = "events", !.ref = job[h].ref,
                                !.again = TRUE, !.replay = job[h].replay]
           j == job'[h]
<1>1. /\ TypeOK /\ BusyHasRequest /\ SequenceStandsForFold /\ LocksAreHeld
      /\ ReplayIsCommitted /\ AbsentRowIsEmpty /\ StatusMatchesReplay
      /\ job[h] \in Job /\ job[h].ref \in Ref
  BY DEF IInv, TypeOK, BusyHasRequest
<1>2. k \in Job /\ k.pc = "events" /\ k.ref = job[h].ref /\ k.retired = {} /\ ~k.replay
  BY <1>1, IdleFacts DEF Job, ReplayIsCommitted
<1>3. /\ j \in Job /\ j.pc \in {"idle", "events"} /\ j.retired = {} /\ ~j.replay
      /\ j.pc = "events" => j.ref = job[h].ref
  <2>1. j \in {IdleJob, k}
    BY <1>1 DEF Returns, Reload, TypeOK
  <2> QED BY <2>1, <1>2, IdleFacts
<1>4. job' \in [Handler -> Job] /\ \A g \in Handler : g # h => job'[g] = job[g]
  BY <1>1, <1>2, IdleFacts DEF Returns, Reload, TypeOK
<1> HIDE DEF j, k
<1>5. /\ t \in Challenge /\ Asked(h) \in Action /\ Committed(h) \in Row
      /\ Committed(h).seq = rows[t].seq + 1
      /\ Committed(h).refs = rows[t].refs \cup {job[h].ref}
      /\ Committed(h).status # "absent"
      /\ Committed(h).status = "won" <=> Committed(h).combat.unresolved = <<>>
      /\ Committed(h).combat.abandoned => Committed(h).status = "abandoned"
  BY CommittedFacts
<1>6. /\ rows' \in [Challenge -> Row] /\ rows'[t] = Committed(h)
      /\ \A c \in Challenge : c # t => rows'[c] = rows[c]
  BY <1>1, <1>5 DEF TypeOK
<1>7. TypeOK'
  BY <1>1, <1>4, <1>6 DEF TypeOK
<1>8. \A g \in Handler : g # h /\ job[g].pc \in {"events", "append"} =>
        Asked(g)' = Asked(g) /\ Target(g)' = Target(g) /\ Target(g) \in Challenge
  BY <1>1, <1>4 DEF BusyHasRequest, Asked, Target, Action
<1>9. j.pc = "events" => Asked(h)' = Asked(h) /\ Target(h)' = t
  BY <1>3 DEF Asked, Target, j
<1>10. BusyHasRequest'
  BY <1>1, <1>3, <1>4, <1>5, <1>6, <1>8, <1>9 DEF BusyHasRequest, j
<1>11. SequenceStandsForFold'
  <2> SUFFICES ASSUME NEW g \in Handler, job'[g].pc = "append"
               PROVE  /\ job'[g].seq <= rows'[Target(g)'].seq
                      /\ job'[g].seq = rows'[Target(g)'].seq
                           => job'[g].combat = rows'[Target(g)'].combat
                      /\ Acceptable(job'[g].combat, Asked(g)')
    BY DEF SequenceStandsForFold
  <2>1. g # h /\ job'[g] = job[g] /\ Asked(g)' = Asked(g) /\ Target(g)' = Target(g)
    BY <1>3, <1>4, <1>8 DEF j
  <2>2. /\ Target(g) \in Challenge /\ job[g].seq <= rows[Target(g)].seq
        /\ job[g].seq = rows[Target(g)].seq => job[g].combat = rows[Target(g)].combat
        /\ Acceptable(job[g].combat, Asked(g))
    BY <1>1, <1>8, <2>1 DEF SequenceStandsForFold
  <2>3. CASE Target(g) # t
    BY <1>6, <2>1, <2>2, <2>3
  <2>4. CASE Target(g) = t
    <3>1. rows[t].seq \in Nat /\ job[g].seq \in Nat
      BY <1>1, <1>5 DEF TypeOK, Row, Job
    <3> QED BY <1>5, <1>6, <2>1, <2>2, <2>4, <3>1
  <2> QED BY <2>3, <2>4
<1>12. LocksAreHeld'
  <2>1. \A g \in Handler : job'[g].retired \subseteq job[g].retired /\ t \notin job[g].retired
    BY <1>3, <1>4 DEF Locked, j
  <2>2. \A g \in Handler : job'[g].retired # {} => job'[g] = job[g]
    BY <1>3, <1>4 DEF j
  <2>3. \A g \in Handler : job[g].retired \subseteq Challenge
    BY <1>1 DEF TypeOK, Job
  <2> QED BY <1>1, <1>6, <2>1, <2>2, <2>3 DEF LocksAreHeld
<1>13. ReplayIsCommitted'
  <2> SUFFICES ASSUME NEW g \in Handler, job'[g].replay
               PROVE  job'[g].pc \in {"events", "append"} /\ Duplicate(g)'
    BY DEF ReplayIsCommitted
  <2>1. g # h /\ job'[g] = job[g] /\ job[g].pc \in {"events", "append"} /\ Duplicate(g)
    BY <1>1, <1>3, <1>4 DEF ReplayIsCommitted, j
  <2> QED BY <1>5, <1>6, <1>8, <2>1 DEF Duplicate
<1>14. AbsentRowIsEmpty' /\ StatusMatchesReplay'
  BY <1>1, <1>5, <1>6 DEF AbsentRowIsEmpty, StatusMatchesReplay
<1> QED BY <1>7, <1>10, <1>11, <1>12, <1>13, <1>14 DEF IInv

LEMMA AppendInv ==
  ASSUME IInv, NEW h \in Handler, AppendEvent(h)
  PROVE  IInv'
<1>1. UNCHANGED <<lineup, assets, opened, sent>> /\ job[h].pc = "append"
  BY DEF AppendEvent, WorldFrame
<1>2. CASE UNCHANGED rows
  BY <1>1, <1>2, ReturnInv, ReloadInv DEF AppendEvent, Returns
<1>3. CASE /\ ~Conflicts(h) /\ ~Duplicate(h) /\ InSequence(h) /\ ~Locked(Target(h))
           /\ rows' = [rows EXCEPT ![Target(h)] = Committed(h)]
           /\ Returns(h) \/ Reload(h)
  BY <1>1, <1>3, CommitInv DEF Conflicts
<1> QED BY <1>2, <1>3 DEF AppendEvent

\* The rows of a create that is not a conflict: the others keep their events.
LEMMA InsertedFacts ==
  ASSUME IInv, NEW h \in Handler, NEW c \in Challenge, NEW l \in Lineup,
         InsertChallenge(h, c, l), ~Conflict(h)
  PROVE  /\ job[h].pc = "insert" /\ rows[c].status = "absent"
         /\ rows' \in [Challenge -> Row] /\ lineup' = [lineup EXCEPT ![c] = l]
         /\ rows'[c].status = "active" /\ rows'[c].combat = InitialCombat(l)
         /\ rows'[c].refs = {}
         /\ \A x \in Challenge : x # c =>
              /\ rows'[x].combat = rows[x].combat /\ rows'[x].seq = rows[x].seq
              /\ rows'[x].refs = rows[x].refs
         /\ \A x \in Challenge \ {c} : x \in job[h].retired => rows'[x].status = "abandoned"
         /\ \A x \in Challenge \ {c} : x \notin job[h].retired => rows'[x] = rows[x]
         /\ c \notin job[h].retired
<1> DEFINE n == [AbsentRow EXCEPT !.status = "active", !.assets = job[h].assets,
                                  !.combat = InitialCombat(l)]
           R == job[h].retired
<1>1. TypeOK /\ job[h] \in Job /\ LocksAreHeld
  BY DEF IInv, TypeOK
<1>2. /\ job[h].pc = "insert" /\ rows[c].status = "absent"
      /\ rows' = [x \in Challenge |->
                   IF x = c THEN n
                   ELSE IF x \in R THEN [rows[x] EXCEPT !.status = "abandoned"] ELSE rows[x]]
      /\ lineup' = [lineup EXCEPT ![c] = l]
  BY DEF InsertChallenge
<1>3. c \notin R
  BY <1>1, <1>2 DEF LocksAreHeld
<1>4. n \in Row /\ n.status = "active" /\ n.combat = InitialCombat(l) /\ n.refs = {}
  <2>1. InitialCombat(l) \in Combat /\ job[h].assets \in Nat
    BY <1>1, LineupFacts, InitialFacts DEF Job
  <2> QED BY <2>1, AbsentFacts DEF Row
<1> HIDE DEF n, R
<1>5. \A x \in Challenge : LET m == [rows[x] EXCEPT !.status = "abandoned"] IN
        /\ m \in Row /\ m.status = "abandoned" /\ m.combat = rows[x].combat
        /\ m.seq = rows[x].seq /\ m.refs = rows[x].refs
  <2> SUFFICES ASSUME NEW x \in Challenge
               PROVE  LET m == [rows[x] EXCEPT !.status = "abandoned"] IN
                      /\ m \in Row /\ m.status = "abandoned" /\ m.combat = rows[x].combat
                      /\ m.seq = rows[x].seq /\ m.refs = rows[x].refs
    OBVIOUS
  <2>1. rows[x] \in Row
    BY <1>1 DEF TypeOK
  <2> QED BY <2>1 DEF Row
<1>6. rows' \in [Challenge -> Row]
  BY <1>1, <1>2, <1>4, <1>5 DEF TypeOK
<1>7. rows'[c] = n
  BY <1>2
<1>8. \A x \in Challenge \ {c} :
        /\ rows'[x].combat = rows[x].combat /\ rows'[x].seq = rows[x].seq
        /\ rows'[x].refs = rows[x].refs
        /\ x \in R => rows'[x].status = "abandoned"
        /\ x \notin R => rows'[x] = rows[x]
  BY <1>2, <1>5
<1> QED BY <1>2, <1>3, <1>4, <1>6, <1>7, <1>8 DEF R

LEMMA InsertInv ==
  ASSUME IInv, NEW h \in Handler, NEW c \in Challenge, NEW l \in Lineup,
         InsertChallenge(h, c, l)
  PROVE  IInv'
<1>1. UNCHANGED <<sent, assets, opened>> /\ job' = [job EXCEPT ![h] = IdleJob]
  BY DEF InsertChallenge, WorldFrame
<1>2. CASE Conflict(h)
  BY <1>1, <1>2, ReturnInv DEF InsertChallenge, StoreFrame
<1>3. CASE ~Conflict(h)
  <2>1. /\ TypeOK /\ BusyHasRequest /\ SequenceStandsForFold /\ LocksAreHeld
        /\ ReplayIsCommitted /\ AbsentRowIsEmpty /\ StatusMatchesReplay
    BY DEF IInv
  <2>2. /\ job' \in [Handler -> Job]
        /\ \A g \in Handler : job'[g] = IF g = h THEN IdleJob ELSE job[g]
    BY <1>1, <2>1, IdleFacts DEF TypeOK
  <2>3. /\ rows[c].status = "absent"
        /\ rows' \in [Challenge -> Row] /\ lineup' = [lineup EXCEPT ![c] = l]
        /\ rows'[c].status = "active" /\ rows'[c].combat = InitialCombat(l)
        /\ \A x \in Challenge : x # c =>
              /\ rows'[x].combat = rows[x].combat /\ rows'[x].seq = rows[x].seq
              /\ rows'[x].refs = rows[x].refs
        /\ \A x \in Challenge \ {c} : x \in job[h].retired => rows'[x].status = "abandoned"
        /\ \A x \in Challenge \ {c} : x \notin job[h].retired => rows'[x] = rows[x]
    BY <1>3, InsertedFacts
  <2>4. TypeOK'
    BY <1>1, <2>1, <2>2, <2>3 DEF TypeOK
  <2>5. \A g \in Handler : g # h /\ job[g].pc \in {"events", "append"} =>
          /\ Asked(g)' = Asked(g) /\ Target(g)' = Target(g)
          /\ Target(g) \in Challenge /\ Target(g) # c
    BY <1>1, <2>1, <2>2, <2>3 DEF BusyHasRequest, Asked, Target, Action
  <2>6. BusyHasRequest'
    BY <1>1, <2>1, <2>2, <2>3, <2>5, IdleFacts DEF BusyHasRequest
  <2>7. SequenceStandsForFold'
    BY <2>1, <2>2, <2>3, <2>5, IdleFacts DEF SequenceStandsForFold
  <2>8. LocksAreHeld'
    <3>1. \A g \in Handler : job[g].retired \subseteq Challenge
      BY <2>1 DEF TypeOK, Job
    <3> QED BY <2>1, <2>2, <2>3, <3>1, IdleFacts DEF LocksAreHeld
  <2>9. ReplayIsCommitted'
    BY <2>1, <2>2, <2>3, <2>5, IdleFacts DEF ReplayIsCommitted, Duplicate
  <2>10. AbsentRowIsEmpty'
    BY <2>1, <2>3 DEF AbsentRowIsEmpty
  <2>11. StatusMatchesReplay'
    <3>1. rows'[c].combat.unresolved # <<>> /\ ~rows'[c].combat.abandoned
      BY <2>3, LineupFacts, InitialFacts
    <3>2. \A x \in job[h].retired : rows[x].status = "active"
      BY <2>1 DEF LocksAreHeld
    <3> QED BY <2>1, <2>3, <3>1, <3>2 DEF StatusMatchesReplay
  <2> QED BY <2>4, <2>6, <2>7, <2>8, <2>9, <2>10, <2>11 DEF IInv
<1> QED BY <1>2, <1>3

\* The expedition around the challenges changes nothing of them.
LEMMA WorldInv ==
  ASSUME IInv, UNCHANGED <<rows, lineup, sent, job>>,
         assets' \in 1..MaxAssets, opened' \in BOOLEAN
  PROVE  IInv'
<1> USE DEF IInv
<1>1. TypeOK'
  BY DEF TypeOK
<1>2. BusyHasRequest' /\ SequenceStandsForFold' /\ ReplayIsCommitted'
  BY DEF BusyHasRequest, SequenceStandsForFold, ReplayIsCommitted, Duplicate, Asked, Target
<1>3. LocksAreHeld' /\ AbsentRowIsEmpty' /\ StatusMatchesReplay'
  BY DEF LocksAreHeld, AbsentRowIsEmpty, StatusMatchesReplay
<1> QED BY <1>1, <1>2, <1>3

LEMMA NextInv == IInv /\ [Next]_vars => IInv'
<1> SUFFICES ASSUME IInv, [Next]_vars PROVE IInv'
  OBVIOUS
<1>1. TypeOK
  BY DEF IInv
<1>2. CASE Supersede
  <2>1. assets' \in 1..MaxAssets
    BY <1>1, <1>2, AssetsAreNumbered DEF Supersede, TypeOK
  <2>2. opened' \in BOOLEAN /\ UNCHANGED <<rows, lineup, sent, job>>
    BY <1>2 DEF Supersede, StoreFrame
  <2> QED BY <2>1, <2>2, WorldInv
<1>3. CASE OpenOrClose
  <2>1. opened' \in BOOLEAN /\ UNCHANGED <<rows, lineup, sent, job, assets>>
    BY <1>3 DEF OpenOrClose, StoreFrame
  <2> QED BY <1>1, <2>1, WorldInv DEF TypeOK
<1>4. CASE \E h \in Handler : Request(h)
  <2> PICK h \in Handler : Request(h)
    BY <1>4
  <2> QED BY ReceiveInv, DecideInv, AppendInv, CreateInv, InsertInv DEF Request
<1>5. CASE UNCHANGED vars
  BY <1>1, <1>5, WorldInv DEF vars, TypeOK
<1> QED BY <1>2, <1>3, <1>4, <1>5 DEF Next

LEMMA Invariance == Spec => []IInv
BY InitInv, NextInv, PTL DEF Spec

-----------------------------------------------------------------------------
(* Safety. *)

\* Every row, lineup, request and handler has its type.
THEOREM ChallengeTypeCorrect == Spec => []TypeOK
<1>1. IInv => TypeOK
  BY DEF IInv
<1> QED BY Invariance, <1>1, PTL

\* The status an appendEvent transaction writes is what a replay of the events
\* says, although the fold it is judged on was read before the row was locked.
THEOREM RowMatchesReplay == Spec => []StatusMatchesReplay
<1>1. IInv => StatusMatchesReplay
  BY DEF IInv
<1> QED BY Invariance, <1>1, PTL

\* A request that is sent again after its event was committed is answered with
\* the event, by the replay check or by appendEvent, and never with a conflict.
THEOREM CommittedIsAccepted == Spec => []ReplayIsNeverRefused
<1>1. IInv => ReplayIsNeverRefused
  BY DEF IInv, ReplayIsCommitted, ReplayIsNeverRefused, Refuses, Settled, Conflicts
<1> QED BY Invariance, <1>1, PTL

-----------------------------------------------------------------------------
(* Refinement: the rows of a scope are one RecallFight. *)

LEMMA SameCardinality == \A S : Fight!Cardinality(S) = Cardinality(S)
BY Zenon DEF Fight!Cardinality, Cardinality

\* The rules of the fight, with or without the challenge a request names.
LEMMA SameRules ==
  ASSUME NEW s \in Combat, NEW a \in Action,
         NEW b, b.kind = a.kind,
         a.kind \in Answers => b.item = a.item /\ b.prompt = a.prompt /\ b.correct = a.correct
  PROVE  Fight!Played(s, b) = Played(s, a) /\ (Acceptable(s, a) => Fight!Acceptable(s, b))
<1>1. CASE a.kind \in Engagements
  <2>1. Fight!Played(s, b) = Played(s, a)
    BY <1>1 DEF Played, Fight!Played, Engagements, Answers, Fight!Answers
  <2>2. Fight!Acceptable(s, b) = Acceptable(s, a)
    BY <1>1 DEF Acceptable, Fight!Acceptable, Engagements, Answers, Fight!Answers,
       ChangesNothing, Fight!ChangesNothing
  <2> QED BY <2>1, <2>2
<1>2. CASE a.kind \in Answers
  <2>1. b.item = a.item /\ b.prompt = a.prompt /\ b.correct = a.correct
    BY <1>2
  <2>2. Fight!Miss(s) = Miss(s) /\ Fight!Resolve(s) = Resolve(s)
    BY DEF Miss, Fight!Miss, Resolve, Fight!Resolve, ClearBoard, Fight!ClearBoard
  <2>3. Fight!MatchPair(s, b) = MatchPair(s, a)
    <3>1. CASE ~a.correct
      <4>1. ~b.correct
        BY <2>1, <3>1
      <4> QED BY <3>1, <4>1 DEF MatchPair, Fight!MatchPair
    <3>2. CASE a.correct
      <4>1. b.correct /\ b.prompt = a.prompt
        BY <2>1, <3>2
      <4> DEFINE m == s.matched \cup {a.prompt}
                 full == ~(Cardinality(m) < Cardinality(Prompt))
      <4>2. MatchPair(s, a) = IF ~full THEN [s EXCEPT !.matched = m]
                              ELSE IF s.dirty THEN Miss(s) ELSE Resolve(s)
        BY <3>2 DEF MatchPair
      <4>3. Fight!MatchPair(s, b) = IF ~full THEN [s EXCEPT !.matched = m]
                                    ELSE IF s.dirty THEN Fight!Miss(s) ELSE Fight!Resolve(s)
        BY <4>1, SameCardinality DEF Fight!MatchPair
      <4> HIDE DEF m, full
      <4> QED BY <2>2, <4>2, <4>3
    <3> QED BY <3>1, <3>2
  <2>4. Fight!Played(s, b) = Played(s, a)
    BY <1>2, <2>1, <2>2, <2>3 DEF Played, Fight!Played, Answers, Fight!Answers
  <2>5. Acceptable(s, a) => Fight!Acceptable(s, b)
    BY <1>2, <2>1 DEF Acceptable, Fight!Acceptable, Answers, Fight!Answers,
       CurrentTurn, Fight!CurrentTurn, WellTyped, Fight!WellTyped
  <2> QED BY <2>4, <2>5
<1> QED BY <1>1, <1>2 DEF Action

\* A committed event is a turn of its challenge.
LEMMA CommitRefines ==
  ASSUME IInv, NEW h \in Handler, job[h].pc = "append", InSequence(h), ~Duplicate(h),
         rows[Target(h)].status = "active",
         rows' = [rows EXCEPT ![Target(h)] = Committed(h)], UNCHANGED lineup
  PROVE  Fight!Next
<1> DEFINE t == Target(h)
           a == Asked(h)
           r == job[h].ref
           b == IF a.kind \in Answers
                THEN [kind |-> a.kind, item |-> a.item, prompt |-> a.prompt, correct |-> a.correct]
                ELSE [kind |-> a.kind]
           s == rows[t].combat
           e == Played(s, a)
<1>1. /\ TypeOK /\ t \in Challenge /\ a \in Action /\ r \in Ref /\ s \in Combat
      /\ s.unresolved # <<>>
  <2>1. TypeOK /\ t \in Challenge /\ a \in Action /\ r \in Ref
    BY CommittedFacts DEF IInv, BusyHasRequest
  <2> QED BY <2>1 DEF TypeOK, Row, IInv, StatusMatchesReplay
<1>2. /\ Acceptable(s, a) /\ Committed(h).combat = e
      /\ Committed(h).refs = rows[t].refs \cup {r}
      /\ Committed(h).status \in {"active", "won", "abandoned"}
      /\ Committed(h).status = "won" <=> e.unresolved = <<>>
      /\ e.abandoned <=> Committed(h).status = "abandoned"
  BY CommittedFacts DEF Row
<1>3. /\ b \in Fight!Action /\ b.kind = a.kind
      /\ a.kind \in Answers => b.item = a.item /\ b.prompt = a.prompt /\ b.correct = a.correct
  BY <1>1 DEF Action, Fight!Action, Answers, Fight!Answers, Engagements, Fight!Engagements
<1>4. Fight!Played(s, b) = e /\ Fight!Acceptable(s, b)
  BY <1>1, <1>2, <1>3, SameRules
<1> HIDE DEF b, e
<1>5. /\ stageOf' = [stageOf EXCEPT ![t] = Committed(h).status]
      /\ combatOf' = [combatOf EXCEPT ![t] = e]
      /\ countedOf' = [countedOf EXCEPT ![t] = rows[t].refs \cup {r}]
  BY <1>1, <1>2 DEF TypeOK, stageOf, combatOf, countedOf
<1>6. /\ stageOf[t] = "active" /\ combatOf[t] = s /\ countedOf[t] = rows[t].refs
      /\ r \notin countedOf[t] /\ combatOf'[t] = e
  BY <1>1, <1>5 DEF stageOf, combatOf, countedOf, Duplicate
<1>7. Fight!StageAfter(e) = Committed(h).status
  BY <1>2 DEF Fight!StageAfter
<1>8. Fight!Turn(t, r, b)
  BY <1>4, <1>5, <1>6, <1>7 DEF Fight!Turn
<1> QED BY <1>1, <1>3, <1>8 DEF Fight!Next

\* A created challenge begins a fight: the unique index leaves no other one.
LEMMA InsertRefines ==
  ASSUME IInv, NEW h \in Handler, NEW c \in Challenge, NEW l \in Lineup,
         InsertChallenge(h, c, l), ~Conflict(h)
  PROVE  Fight!Next
<1>1. /\ TypeOK /\ job[h].retired \subseteq Challenge
      /\ \A x \in job[h].retired : rows[x].status = "active"
  BY DEF IInv, TypeOK, Job, LocksAreHeld
<1>2. \A x \in Challenge : rows[x].status = "active" <=> x \in job[h].retired
  BY <1>1 DEF Conflict, Active
<1>3. /\ rows[c].status = "absent" /\ lineup' = [lineup EXCEPT ![c] = l]
      /\ rows'[c].status = "active" /\ rows'[c].combat = InitialCombat(l)
      /\ rows'[c].refs = rows[c].refs
      /\ \A x \in Challenge : x # c =>
           /\ rows'[x].combat = rows[x].combat /\ rows'[x].refs = rows[x].refs
           /\ rows'[x].status = IF rows[x].status = "active" THEN "abandoned" ELSE rows[x].status
  <2>1. rows[c].status = "absent" /\ rows[c].refs = {}
    BY InsertedFacts, AbsentFacts DEF IInv, AbsentRowIsEmpty
  <2> QED BY <1>2, <2>1, InsertedFacts
<1>4. /\ stageOf' = [x \in Challenge |-> IF x = c THEN "active"
                     ELSE IF stageOf[x] = "active" THEN "abandoned" ELSE stageOf[x]]
      /\ combatOf' = [combatOf EXCEPT ![c] = InitialCombat(l)]
      /\ countedOf' = countedOf /\ stageOf[c] = "absent"
  BY <1>1, <1>3 DEF TypeOK, stageOf, combatOf, countedOf
<1>5. Fight!InitialCombat(l) = InitialCombat(l) /\ l \in Fight!Lineup
  <2>1. Fight!InitialCombat(l) = InitialCombat(l)
    BY DEF InitialCombat, Fight!InitialCombat, RECALL_MISS_BUFFER, Fight!RECALL_MISS_BUFFER
  <2>2. l \in Fight!Lineup
    <3>1. PICK n \in 1..Cardinality(Item) : l \in [1..n -> Item]
      BY DEF Lineup
    <3>2. \A i, k \in DOMAIN l : l[i] = l[k] => i = k
      BY DEF Lineup
    <3> QED BY <3>1, <3>2, SameCardinality DEF Fight!Lineup
  <2> QED BY <2>1, <2>2
<1>6. Fight!Begin(c, l)
  BY <1>3, <1>4, <1>5 DEF Fight!Begin
<1> QED BY <1>5, <1>6 DEF Fight!Next

LEMMA ChallengeStepRefines == IInv /\ [Next]_vars => [Fight!Next]_(Fight!vars)
<1> SUFFICES ASSUME IInv, [Next]_vars PROVE [Fight!Next]_(Fight!vars)
  OBVIOUS
<1>1. CASE UNCHANGED <<rows, lineup>>
  BY <1>1 DEF Fight!vars, stageOf, combatOf, countedOf
<1>2. CASE ~UNCHANGED <<rows, lineup>>
  <2>1. PICK h \in Handler : \/ AppendEvent(h)
                             \/ \E c \in Challenge, l \in Lineup : InsertChallenge(h, c, l)
    BY <1>2 DEF Next, Request, Supersede, OpenOrClose, Receive, Decide, BeginCreate,
       ListChallenges, RetireSuperseded, Dies, StoreFrame, vars
  <2>2. CASE AppendEvent(h)
    BY <1>2, <2>2, CommitRefines DEF AppendEvent, Conflicts
  <2>3. ASSUME NEW c \in Challenge, NEW l \in Lineup, InsertChallenge(h, c, l)
        PROVE  Fight!Next
    BY <1>2, <2>3, InsertRefines DEF InsertChallenge, StoreFrame
  <2> QED BY <2>1, <2>2, <2>3
<1> QED BY <1>1, <1>2

\* The row lock, the expected sequence, the references and the unique index
\* implement the fight: one at a time in a scope, its turns one after the other
\* by the rules, each reference at most once.
THEOREM ChallengeImplementsFight == Spec => ImplementsFight
<1>1. Init => Fight!Init
  BY AbsentFacts DEF Init, Fight!Init, stageOf, combatOf, countedOf, NoLineup, Fight!NoFight,
     InitialCombat, Fight!InitialCombat, RECALL_MISS_BUFFER, Fight!RECALL_MISS_BUFFER
<1> QED BY <1>1, Invariance, ChallengeStepRefines, PTL DEF Spec, ImplementsFight, Fight!Spec

-----------------------------------------------------------------------------
(* The wards of the stored fights. *)

\* A row is kept with the lineup its challenge was created with, and its fold
\* has every ward of it.
RowsAreConserved ==
  \A c \in Challenge :
    /\ Conserved(lineup[c], rows[c].combat)
    /\ rows[c].status = "absent" <=> lineup[c] = NoLineup

LEMMA InitRowsAreConserved == Init => RowsAreConserved
<1>1. NoLineup \in Seq(Item) /\ Distinct(NoLineup)
  BY NoLineupFact DEF NoLineup, Distinct
<1> QED BY <1>1, AbsentFacts, InitialConserves DEF Init, RowsAreConserved

LEMMA CommitKeepsWards ==
  ASSUME IInv, RowsAreConserved, NEW h \in Handler, job[h].pc = "append", InSequence(h),
         rows[Target(h)].status = "active",
         rows' = [rows EXCEPT ![Target(h)] = Committed(h)], UNCHANGED lineup
  PROVE  RowsAreConserved'
<1> DEFINE t == Target(h)
<1>1. /\ TypeOK /\ t \in Challenge /\ Requested(Asked(h)) /\ rows[t].combat \in Combat
      /\ Committed(h).combat = Played(rows[t].combat, Asked(h))
      /\ Committed(h).status # "absent"
  BY CommittedFacts, ActionFacts DEF IInv, TypeOK, Row
<1>2. lineup[t] \in Seq(Item) /\ lineup[t] # NoLineup /\ Conserved(lineup[t], rows[t].combat)
  BY <1>1, LineupFacts DEF TypeOK, RowsAreConserved
<1>3. Conserved(lineup[t], Committed(h).combat)
  BY <1>1, <1>2, PlayedConserves
<1> HIDE DEF t
<1>4. \A c \in Challenge : rows'[c] = IF c = t THEN Committed(h) ELSE rows[c]
  BY <1>1 DEF TypeOK, t
<1> QED BY <1>1, <1>2, <1>3, <1>4 DEF RowsAreConserved

LEMMA InsertKeepsWards ==
  ASSUME IInv, RowsAreConserved, NEW h \in Handler, NEW c \in Challenge, NEW l \in Lineup,
         InsertChallenge(h, c, l), ~Conflict(h)
  PROVE  RowsAreConserved'
<1>1. l \in Seq(Item) /\ l # NoLineup /\ Distinct(l)
  BY LineupFacts DEF NoLineup, Lineup, Distinct
<1>2. Conserved(l, InitialCombat(l))
  BY <1>1, InitialConserves
<1>3. \A x \in Challenge : lineup'[x] = IF x = c THEN l ELSE lineup[x]
  BY InsertedFacts DEF IInv, TypeOK
<1>4. rows'[c].status = "active" /\ rows'[c].combat = InitialCombat(l)
  BY InsertedFacts
<1>5. ASSUME NEW x \in Challenge, x # c
      PROVE  /\ rows'[x].combat = rows[x].combat
             /\ rows'[x].status = "absent" <=> rows[x].status = "absent"
  <2>1. \A y \in job[h].retired : rows[y].status = "active"
    BY DEF IInv, LocksAreHeld
  <2> QED BY <1>5, <2>1, InsertedFacts
<1> QED BY <1>1, <1>2, <1>3, <1>4, <1>5 DEF RowsAreConserved

LEMMA StepKeepsWards == IInv /\ RowsAreConserved /\ [Next]_vars => RowsAreConserved'
<1> SUFFICES ASSUME IInv, RowsAreConserved, [Next]_vars PROVE RowsAreConserved'
  OBVIOUS
<1>1. CASE UNCHANGED <<rows, lineup>>
  BY <1>1 DEF RowsAreConserved
<1>2. CASE ~UNCHANGED <<rows, lineup>>
  <2>1. PICK h \in Handler : \/ AppendEvent(h)
                             \/ \E c \in Challenge, l \in Lineup : InsertChallenge(h, c, l)
    BY <1>2 DEF Next, Request, Supersede, OpenOrClose, Receive, Decide, BeginCreate,
       ListChallenges, RetireSuperseded, Dies, StoreFrame, vars
  <2>2. CASE AppendEvent(h)
    BY <1>2, <2>2, CommitKeepsWards DEF AppendEvent, Conflicts
  <2>3. ASSUME NEW c \in Challenge, NEW l \in Lineup, InsertChallenge(h, c, l)
        PROVE  RowsAreConserved'
    BY <1>2, <2>3, InsertKeepsWards DEF InsertChallenge, StoreFrame
  <2> QED BY <2>1, <2>2, <2>3
<1> QED BY <1>1, <1>2

\* The promise about the wards holds of the rows: whatever requests race, die
\* or are sent again, the fold a row is read by has each item of its lineup
\* once, still to be answered or resolved, and a row is won when none is left.
THEOREM RowsConserveWards == Spec => []Fight!WardsAreConserved
<1>1. IInv /\ RowsAreConserved => Fight!WardsAreConserved
  <2> SUFFICES ASSUME IInv, RowsAreConserved, NEW c \in Challenge
               PROVE  /\ {lineup[c][i] : i \in DOMAIN lineup[c]}
                           = Fight!Queue(rows[c].combat) \cup rows[c].combat.resolved
                      /\ Len(lineup[c]) = Len(rows[c].combat.unresolved)
                                            + Fight!Cardinality(rows[c].combat.resolved)
                      /\ Fight!Queue(rows[c].combat) \cap rows[c].combat.resolved = {}
                      /\ rows[c].status = "won" <=>
                           lineup[c] # Fight!NoFight /\ rows[c].combat.unresolved = <<>>
    BY DEF Fight!WardsAreConserved, combatOf, stageOf
  <2>1. Conserved(lineup[c], rows[c].combat) /\ (rows[c].status = "absent" <=> lineup[c] = NoLineup)
    BY DEF RowsAreConserved
  <2>2. rows[c].status = "won" <=> lineup[c] # Fight!NoFight /\ rows[c].combat.unresolved = <<>>
    BY <2>1 DEF IInv, StatusMatchesReplay, Fight!NoFight, NoLineup
  <2> QED BY <2>1, <2>2, SameCardinality DEF Conserved, Elements, Fight!Queue
<1> QED BY <1>1, Invariance, InitRowsAreConserved, StepKeepsWards, PTL DEF Spec

=============================================================================
