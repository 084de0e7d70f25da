---------------------------- MODULE StudyItemBank ----------------------------
(* The generation of a layer's Study Item Bank (generateStudyItemBank.ts): a  *)
(* lesson per node, settled against the source when there is one              *)
(* (sourceLessonAdmission.ts), then beside one another the chains of the item *)
(* types: draft, judge, regenerate what was vetoed once, judge again          *)
(* (verifyGuardedItems.ts); and the two transactions that replace the current *)
(* rows of the layer (PostgresLearnerLoopStores.ts).  Generations of one      *)
(* layer may overlap, and any of them may die.  The generator and the judges  *)
(* are external: the case says which of their answers may come.               *)
(*                                                                            *)
(* Nodes are numbered in the order of the layer.                              *)
EXTENDS FilteredLists

CONSTANT BankCases \* records [sourced, nodes, types, generations, lessons,
                   \* rungs, verdicts]

ASSUME CasesAreBanks ==
  \A case \in BankCases :
    case.nodes \in Nat /\ case.types \subseteq {"option_select", "matching", "impostor"}

VARIABLES
  bank,   \* the case of this run
  jobs,   \* per generation how far it is and what it holds
  rows,   \* every lesson or item row ever written, live until superseded
  refusals \* the lesson-absent and rejected-item rows

bankVars == <<bank, jobs, rows, refusals>>

Layer == 1 .. bank.nodes

None == "none"

Idle == [at |-> "lessons", lessons |-> <<>>, absent |-> {}, plan |-> <<>>,
         chains |-> <<>>, items |-> {}, rejected |-> {}, seen |-> {}, swept |-> {}]

BankInit ==
  /\ bank \in BankCases
  /\ jobs = [g \in bank.generations |-> Idle]
  /\ rows = {}
  /\ refusals = {}

\* The generation g goes on with these fields of its record.
Proceed(g, fields) ==
  jobs' = [jobs EXCEPT ![g] = [f \in DOMAIN @ |-> IF f \in DOMAIN fields THEN fields[f] ELSE @[f]]]

-----------------------------------------------------------------------------
(* Lessons.  A lesson is the number of passages it grounds items on and who   *)
(* made it: the generator, citing the source in a substantive section         *)
(* ("cited") or not ("plain"), or the code, from the definition passage       *)
(* ("extract").  A draft is what the generator's calls end in, "none" when    *)
(* they fail.  A source layer falls back on the definition passage, when it   *)
(* has one, for a draft that failed or cites nothing.                         *)
Extract == [by |-> "extract", passages |-> 1]

Assembled(draft, fallback) ==
  IF fallback /\ draft.by # "cited" THEN Extract ELSE draft

GenerateLessons(g) ==
  /\ jobs[g].at = "lessons"
  /\ \E draft \in [Layer -> bank.lessons] :
     \E fallback \in SUBSET {n \in Layer : bank.sourced} :
       LET candidate == [n \in Layer |-> Assembled(draft[n], n \in fallback)]
           made == {n \in Layer : candidate[n].by # None}
       IN  Proceed(g, [at |-> IF bank.sourced THEN "admission" ELSE "save lessons",
                       lessons |-> [n \in made |-> candidate[n]],
                       absent |-> Layer \ made])
  /\ UNCHANGED <<bank, rows, refusals>>

\* Mutant: the absence of a lesson that gets a second candidate is kept.
AdmitLessonsStale(g) ==
  /\ jobs[g].at = "admission"
  /\ LET held == jobs[g].lessons
     IN  \E refused \in SUBSET DOMAIN held :
         \E second \in SUBSET {n \in refused : held[n].by = "cited"} :
         \E kept \in SUBSET second :
           Proceed(g, [at |-> "save lessons",
                       lessons |-> [n \in (DOMAIN held \ refused) \cup kept |->
                                      IF n \in kept THEN Extract ELSE held[n]],
                       absent |-> jobs[g].absent \cup refused])
  /\ UNCHANGED <<bank, rows, refusals>>

(* Source admission keeps a lesson or makes it an absence.  One refused only  *)
(* because its text is not extractive gets the definition passage as a second *)
(* candidate, if there is one, and that candidate is settled in its turn.     *)
AdmitLessons(g) ==
  /\ jobs[g].at = "admission"
  /\ LET held == jobs[g].lessons
     IN  \E refused \in SUBSET DOMAIN held :
         \E second \in SUBSET {n \in refused : held[n].by = "cited"} :
         \E kept \in SUBSET second :
           LET settled == (DOMAIN held \ refused) \cup kept
           IN  Proceed(g, [at |-> "save lessons",
                           lessons |-> [n \in settled |->
                                          IF n \in kept THEN Extract
                                          ELSE held[n]],
                           absent |-> ((jobs[g].absent \cup refused) \ second)
                                        \cup (second \ kept)])
  /\ UNCHANGED <<bank, rows, refusals>>

-----------------------------------------------------------------------------
(* The blueprint.  A type is planned where its structure allows it and the    *)
(* planner does not decline it; a planner that fails declines nothing.        *)
Allowed(lessons, n) ==
  {t \in bank.types :
     /\ n \in DOMAIN lessons
     /\ lessons[n].passages >= CASE t = "matching" -> 3 [] t = "impostor" -> 2 [] OTHER -> 1}

Skipped == [kind |-> "skipped"]

PlanItems(g) ==
  /\ jobs[g].at = "plan"
  /\ \E declined \in SUBSET {key \in Layer \X bank.types :
                               key[2] \in Allowed(jobs[g].lessons, key[1])} :
       LET plan == [n \in Layer |-> {t \in Allowed(jobs[g].lessons, n) : <<n, t>> \notin declined}]
           unasked == {key \in Layer \X bank.types : key[2] \notin plan[key[1]]}
       IN  Proceed(g, [at |-> "items", plan |-> plan, rejected |-> unasked,
                       chains |-> [t \in bank.types |->
                         [step |-> "draft", attempts |-> <<>>, first |-> <<>>,
                          regenerated |-> <<>>, outcomes |-> <<>>, heard |-> {}]]])
  /\ UNCHANGED <<bank, rows, refusals>>

-----------------------------------------------------------------------------
(* The chain of one type.  An attempt is a record of its kind; a pending one  *)
(* carries its subject, of which the model keeps the node, the type, whether  *)
(* it is the first draft or the regenerated one, and whether its citation is  *)
(* verbatim.                                                                  *)
Chain(g, t) == jobs[g].chains[t]

Working(g, t, step) ==
  jobs[g].at = "items" /\ t \in bank.types /\ Chain(g, t).step = step

SetChain(g, t, fields) ==
  Proceed(g, [chains |-> [jobs[g].chains EXCEPT ![t] =
    [f \in DOMAIN @ |-> IF f \in DOMAIN fields THEN fields[f] ELSE @[f]]]])

Subject(n, t, draft, rung) == [node |-> n, type |-> t, draft |-> draft, rung |-> rung]

(* Two informed attempts per node end in a guarded subject or a rejection.    *)
DraftItems(g, t) ==
  /\ Working(g, t, "draft")
  /\ LET asked == {n \in Layer : t \in jobs[g].plan[n]}
     IN  \E drafted \in [asked -> bank.rungs \cup {None}] :
           SetChain(g, t,
             [step |-> "judge",
              attempts |-> [n \in Layer |->
                CASE n \notin asked -> Skipped
                  [] n \in asked /\ drafted[n] = None -> [kind |-> "rejected"]
                  [] OTHER -> [kind |-> "pending",
                               subject |-> Subject(n, t, 1, drafted[n])]]])
  /\ UNCHANGED <<bank, rows, refusals>>

\* The subjects are those of the pending attempts, in their order.
Pending(attempts) == {n \in DOMAIN attempts : attempts[n].kind = "pending"}

Subjects(attempts) ==
  LET pending == Pending(attempts)
  IN  [k \in 1 .. Cardinality(pending) |-> attempts[Place(k, pending)].subject]

\* What an item becomes when its judge cannot be reached: harm decides.
PassesUnjudged(subject) ==
  CASE subject.type = "option_select" -> subject.rung = "verbatim"
    [] subject.type = "matching" -> TRUE
    [] subject.type = "impostor" -> FALSE

\* Mutant: one disposition for all types.
SettledOpen(subject, result) == [admitted |-> result # "vetoed", item |-> subject]

Settled(subject, result) ==
  [admitted |-> result = "clear" \/ (result = "unavailable" /\ PassesUnjudged(subject)),
   item |-> subject]

\* The indices of the vetoed subjects.
Vetoed(first) == {i \in DOMAIN first : first[i] = "vetoed"}

Heard(subjects, results) == {<<subjects[i], results[i]>> : i \in DOMAIN subjects}

\* One judgment per subject; a source layer's option selects are not judged so.
JudgeItems(g, t) ==
  /\ Working(g, t, "judge")
  /\ ~ (bank.sourced /\ t = "option_select")
  /\ LET subjects == Subjects(Chain(g, t).attempts)
     IN  \E first \in [DOMAIN subjects -> bank.verdicts] :
           SetChain(g, t,
             [step |-> IF Vetoed(first) = {} THEN "done" ELSE "regenerate",
              first |-> first,
              outcomes |-> [i \in DOMAIN subjects |-> Settled(subjects[i], first[i])],
              heard |-> Heard(subjects, first)])
  /\ UNCHANGED <<bank, rows, refusals>>

\* Source option-select admission settles each candidate once, for good.
AdmitItems(g, t) ==
  /\ Working(g, t, "judge")
  /\ bank.sourced /\ t = "option_select"
  /\ LET subjects == Subjects(Chain(g, t).attempts)
     IN  \E result \in [DOMAIN subjects -> {"clear", "vetoed"}] :
           SetChain(g, t,
             [step |-> "done", first |-> result,
              outcomes |-> [i \in DOMAIN subjects |-> Settled(subjects[i], result[i])],
              heard |-> Heard(subjects, result)])
  /\ UNCHANGED <<bank, rows, refusals>>

(* Each vetoed subject is drafted again, once, from the judge's reason.       *)
Regenerate(g, t) ==
  /\ Working(g, t, "regenerate")
  /\ LET subjects == Subjects(Chain(g, t).attempts)
         retry == Vetoed(Chain(g, t).first)
     IN  \E drafted \in [1 .. Cardinality(retry) -> bank.rungs \cup {None}] :
           SetChain(g, t,
             [step |-> "rejudge",
              regenerated |-> [k \in 1 .. Cardinality(retry) |->
                LET i == Place(k, retry)
                IN  [index |-> i, ok |-> drafted[k] # None,
                     subject |-> Subject(subjects[i].node, t, 2, drafted[k])]]])
  /\ UNCHANGED <<bank, rows, refusals>>

\* The regenerations that succeeded are judged again.
Again(regenerated) == {k \in DOMAIN regenerated : regenerated[k].ok}

(* The second judgment is the last.  Its results are walked by a cursor over  *)
(* the regenerations that succeeded; a failed one stays refused.              *)
RejudgeItems(g, t) ==
  /\ Working(g, t, "rejudge")
  /\ LET regenerated == Chain(g, t).regenerated
         again == Again(regenerated)
         subjects == [k \in 1 .. Cardinality(again) |-> regenerated[Place(k, again)].subject]
         entry(i) == CHOOSE k \in DOMAIN regenerated : regenerated[k].index = i
         retried == {regenerated[k].index : k \in DOMAIN regenerated}
     IN  \E result \in [DOMAIN subjects -> bank.verdicts] :
           SetChain(g, t,
             [step |-> "done",
              outcomes |-> [i \in DOMAIN Chain(g, t).outcomes |->
                LET old == Chain(g, t).outcomes[i]
                    at == Rank(entry(i), again)
                IN  IF i \notin retried THEN old
                    ELSE IF regenerated[entry(i)].ok THEN Settled(subjects[at], result[at])
                    ELSE [old EXCEPT !.admitted = FALSE]],
              heard |-> Chain(g, t).heard \cup Heard(subjects, result)])
  /\ UNCHANGED <<bank, rows, refusals>>

\* The outcome of node n: the pending ones up to it are counted.
OutcomeOf(chain, n) ==
  chain.outcomes[Rank(n, Pending(chain.attempts))]

(* All chains are in: the attempts are joined with their outcomes, node by    *)
(* node, into the bank's items and its rejections.                            *)
JoinChains(g) ==
  /\ jobs[g].at = "items"
  /\ \A t \in bank.types : Chain(g, t).step = "done"
  /\ LET Kind(n, t) == Chain(g, t).attempts[n].kind
         Refused(n, t) == \/ Kind(n, t) = "rejected"
                          \/ Kind(n, t) = "pending" /\ ~ OutcomeOf(Chain(g, t), n).admitted
         kept == {key \in Layer \X bank.types :
                    Kind(key[1], key[2]) = "pending" /\ OutcomeOf(Chain(g, key[2]), key[1]).admitted}
     IN  Proceed(g, [at |-> "save items",
                     items |-> {OutcomeOf(Chain(g, key[2]), key[1]).item : key \in kept},
                     rejected |-> jobs[g].rejected
                                    \cup {key \in Layer \X bank.types : Refused(key[1], key[2])}])
  /\ UNCHANGED <<bank, rows, refusals>>

-----------------------------------------------------------------------------
(* The two persists.  A row is keyed by its node and its type, "lesson" for   *)
(* the lessons; both tables admit one live row and one refusal per key.       *)
Table(g) ==
  IF jobs[g].at \in {"save lessons", "sweep lessons", "write lessons"} THEN "lesson" ELSE "item"

RowsToWrite(g) ==
  IF Table(g) = "lesson" THEN (DOMAIN jobs[g].lessons) \X {"lesson"}
  ELSE {<<i.node, i.type>> : i \in jobs[g].items}

RefusalsToWrite(g) ==
  IF Table(g) = "lesson" THEN jobs[g].absent \X {"lesson"} ELSE jobs[g].rejected

\* A stage of the persist g is at, on its table.
Stage(g, lessons, items) == IF Table(g) = "lesson" THEN lessons ELSE items

\* Mutant: only the keys that are written again are superseded.
RetireOwnKeys(g) ==
  /\ jobs[g].at \in {"save lessons", "save items"}
  /\ Proceed(g, [at |-> Stage(g, "sweep lessons", "sweep items"),
                 seen |-> {r \in rows : r.live /\ r.table = Table(g) /\ r.key \in RowsToWrite(g)}])
  /\ UNCHANGED <<bank, rows, refusals>>

(* The transaction opens with the UPDATE that supersedes.  It is about the    *)
(* live rows committed when it starts.                                        *)
Retire(g) ==
  /\ jobs[g].at \in {"save lessons", "save items"}
  /\ Proceed(g, [at |-> Stage(g, "sweep lessons", "sweep items"),
                 seen |-> {r \in rows : r.live /\ r.table = Table(g)}])
  /\ UNCHANGED <<bank, rows, refusals>>

Writing(g) == jobs[g].at \in {"write lessons", "write items"}

\* An open transaction other than g's has superseded one of these rows.
Held(g, some) == \E h \in DOMAIN jobs \ {g} : Writing(h) /\ jobs[h].seen \cap some # {}

(* The UPDATE waits for whoever has superseded a row of its snapshot, then    *)
(* takes those that are live still; what was inserted meanwhile it does not   *)
(* see.  The DELETE that follows is a statement of its own: it is about the   *)
(* refusals committed by then, those of the one waited for included.          *)
Sweep(g) ==
  /\ jobs[g].at \in {"sweep lessons", "sweep items"}
  /\ ~ Held(g, jobs[g].seen)
  /\ Proceed(g, [at |-> Stage(g, "write lessons", "write items"),
                 seen |-> jobs[g].seen \cap rows,
                 swept |-> {r \in refusals : r.table = Table(g)}])
  /\ UNCHANGED <<bank, rows, refusals>>

\* What fills a key that the inserts of g need, and g has not removed.
FilledRows(g) ==
  {r \in rows \ jobs[g].seen : r.live /\ r.table = Table(g) /\ r.key \in RowsToWrite(g)}

FilledRefusals(g) ==
  {r \in refusals \ jobs[g].swept : r.table = Table(g) /\ r.key \in RefusalsToWrite(g)}

(* The inserts and the commit.  An insert waits while another transaction is  *)
(* superseding the row that fills its key; a key that stays filled violates   *)
(* the unique index, all of this transaction is undone, and the run fails.    *)
(* No other transaction sees a refusal deleted or a row inserted before the   *)
(* commit, and who would wait for it goes on after it: one step has them all. *)
Write(g) ==
  /\ Writing(g)
  /\ ~ Held(g, FilledRows(g))
  /\ LET row(key) == [table |-> Table(g), key |-> key, by |-> g, live |-> TRUE]
     IN  IF FilledRows(g) \cup FilledRefusals(g) # {}
         THEN Proceed(g, [Idle EXCEPT !.at = "failed"]) /\ UNCHANGED <<rows, refusals>>
         ELSE /\ Proceed(g, [at |-> Stage(g, "plan", "done"), seen |-> {}, swept |-> {}])
              /\ rows' = (rows \ jobs[g].seen)
                           \cup {[r EXCEPT !.live = FALSE] : r \in rows \cap jobs[g].seen}
                           \cup {row(key) : key \in RowsToWrite(g)}
              /\ refusals' = (refusals \ jobs[g].swept) \cup {row(key) : key \in RefusalsToWrite(g)}
  /\ UNCHANGED bank

(* The process dies, or a call the run cannot do without fails: an open       *)
(* transaction is undone.                                                     *)
Abort(g) ==
  /\ jobs[g].at \notin {"done", "failed"}
  /\ Proceed(g, [Idle EXCEPT !.at = "failed"])
  /\ UNCHANGED <<bank, rows, refusals>>

BankNext ==
  \E g \in DOMAIN jobs :
    \/ GenerateLessons(g)
    \/ AdmitLessons(g)
    \/ PlanItems(g)
    \/ \E t \in bank.types :
         \/ DraftItems(g, t)
         \/ JudgeItems(g, t)
         \/ AdmitItems(g, t)
         \/ Regenerate(g, t)
         \/ RejudgeItems(g, t)
    \/ JoinChains(g)
    \/ Retire(g)
    \/ Sweep(g)
    \/ Write(g)
    \/ Abort(g)

BankSpec == BankInit /\ [][BankNext]_bankVars

-----------------------------------------------------------------------------
(* Nothing falls between the two tables: at the first persist every node of   *)
(* the layer has a lesson or a stated absence, never both, and at the second  *)
(* every node and type has one item or one stated rejection, never both, an   *)
(* item only where there is a lesson to ground it.                            *)
EveryNodeIsAccountedFor ==
  \A g \in DOMAIN jobs :
    LET job == jobs[g]
        keys == Layer \X bank.types
        made == {<<i.node, i.type>> : i \in job.items}
    IN  /\ job.at = "save lessons" => /\ DOMAIN job.lessons \cup job.absent = Layer
                                      /\ DOMAIN job.lessons \cap job.absent = {}
        /\ job.at = "save items" => /\ made \cup job.rejected = keys
                                    /\ made \cap job.rejected = {}
                                    /\ Cardinality(made) = Cardinality(job.items)
                                    /\ \A i \in job.items : i.node \in DOMAIN job.lessons

(* An item enters the bank on its own judgment: the judge was asked about     *)
(* that very draft and did not veto it, a draft it vetoed is not kept beside  *)
(* or instead of the regenerated one, and an unjudged item enters only where  *)
(* its type lets it.                                                          *)
AdmittedOnItsOwnVerdict ==
  \A g \in DOMAIN jobs : jobs[g].at = "save items" =>
    \A i \in jobs[g].items :
      LET heard == Chain(g, i.type).heard
      IN  /\ <<i, "clear">> \in heard \/ (<<i, "unavailable">> \in heard /\ PassesUnjudged(i))
          /\ <<i, "vetoed">> \notin heard
          /\ \A h \in heard : h[1].node = i.node /\ h[1] # i => h[2] = "vetoed" /\ h[1].draft < i.draft

(* However generations overlap, fail or die: a key has at most one live row   *)
(* and one refusal; what a generation wrote is live as a whole or superseded  *)
(* as a whole; its refused items stand together or are gone together; and one *)
(* that did not finish has written no items.                                  *)
GenerationsReplaceWholly ==
  /\ \A r \in rows, s \in rows :
       r.live /\ s.live /\ r.table = s.table /\ r.key = s.key => r = s
  /\ \A r \in refusals, s \in refusals : r.table = s.table /\ r.key = s.key => r = s
  /\ \A r \in rows, s \in rows : r.by = s.by /\ r.table = s.table => r.live = s.live
  /\ \A r \in refusals : r.table = "item" =>
       \A key \in jobs[r.by].rejected :
         \E s \in refusals : s.by = r.by /\ s.table = "item" /\ s.key = key
  /\ \A r \in rows \cup refusals : r.table = "item" => jobs[r.by].at = "done"
=============================================================================
