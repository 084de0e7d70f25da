---------------------------- MODULE SourceExpedition ----------------------------
(***************************************************************************)
(* One enrichment offered as a Source Expedition, and one learner: its     *)
(* current lessons and study items, the accepted catalog entry, the        *)
(* learner's expedition row, and the requests that qualify the assets with *)
(* unsynchronised reads and act on what they read.                         *)
(*                                                                         *)
(* Lessons and items are known by the generation that stored them.  An     *)
(* asset-set identity is the pair of generations it hashes: the ids in it  *)
(* are never reused, and graph, trail policy and config are fixed.         *)
(***************************************************************************)
EXTENDS Integers

CONSTANTS MaxGen,      \* bound: generations of the bank; 1 is stored at the start
          Handler,     \* concurrent requests
          Qualified    \* the pairs that qualify as a trail of three stops or more

Gen == 1..MaxGen
Identity == Gen \X Gen
None == <<0, 0>>       \* no catalog entry, nothing read yet

ASSUME GenerationsAreOrdered == MaxGen \in Nat /\ MaxGen >= 1 /\ Qualified \subseteq Identity

VARIABLES assets,      \* the current lessons and items: superseded_at IS NULL
          bank,        \* the progress of each generation of the bank
          catalog,     \* accepted_asset_set_identity of the entry
          mine,        \* the learner's row of this enrichment
          req,         \* the requests in flight
          answers,     \* the identities answers and verdicts were written under
          current, accepted, adopted,   \* history: identities that ever were
          calls        \* bound: requests and generations still allowed

sourceVars == <<assets, bank, catalog, mine, req, answers, current, accepted, adopted, calls>>

NoRow == [kept |-> FALSE, identity |-> None, active |-> FALSE]

\* publishAccepted is the operator's; the others are the learner's.
Kind == {"publish", "adopt", "activate", "grade", "verdict"}

Idle == [kind |-> "none", step |-> "idle", row |-> NoRow, entry |-> None, lesson |-> 0, item |-> 0]

-----------------------------------------------------------------------------
(* The bank.  A generation stores its lessons, later its items; each of the *)
(* two supersedes what is current, whoever stored it.  It may stop between. *)

PersistLessons(g) ==
  /\ bank[g] = "fresh" /\ bank' = [bank EXCEPT ![g] = "lessons"]
  /\ calls > 0 /\ calls' = calls - 1
  /\ assets' = <<g, assets[2]>>
  /\ current' = current \cup {assets'}
  /\ UNCHANGED <<catalog, mine, req, answers, accepted, adopted>>

PersistItems(g) ==
  /\ bank[g] = "lessons" /\ bank' = [bank EXCEPT ![g] = "done"]
  /\ assets' = <<assets[1], g>>
  /\ current' = current \cup {assets'}
  /\ UNCHANGED <<catalog, mine, req, answers, accepted, adopted, calls>>

-----------------------------------------------------------------------------
(* Reading. *)

ReadOnly == UNCHANGED <<assets, bank, catalog, mine, answers, current, accepted, adopted, calls>>

\* qualify is what publication starts with; acceptedQualification reads the
\* entry before it; open and activate read the learner's row before that.
FirstStep(k) == CASE k = "publish" -> "assets" [] k = "adopt" -> "entry" [] OTHER -> "row"

Start(h, k) ==
  /\ req[h].step = "idle" /\ calls > 0 /\ calls' = calls - 1
  /\ req' = [req EXCEPT ![h] = [Idle EXCEPT !.kind = k, !.step = FirstStep(k)]]
  /\ UNCHANGED <<assets, bank, catalog, mine, answers, current, accepted, adopted>>

\* Every learner write but the activation needs the row active.
MayGoOn(k) == mine.kept /\ (k # "activate" => mine.active)

ReadRow(h) ==
  /\ req[h].step = "row"
  /\ req' = [req EXCEPT ![h] = IF MayGoOn(@.kind) THEN [@ EXCEPT !.step = "entry", !.row = mine] ELSE Idle]
  /\ ReadOnly

ReadEntry(h) ==
  /\ req[h].step = "entry"
  /\ req' = [req EXCEPT ![h] = IF catalog = None THEN Idle ELSE [@ EXCEPT !.step = "assets", !.entry = catalog]]
  /\ ReadOnly

\* The reads of qualify run concurrently, each on a connection of its own.
ReadLessons(h) ==
  /\ req[h].step = "assets" /\ req[h].lesson = 0
  /\ req' = [req EXCEPT ![h].lesson = assets[1]]
  /\ ReadOnly

ReadItems(h) ==
  /\ req[h].step = "assets" /\ req[h].item = 0
  /\ req' = [req EXCEPT ![h].item = assets[2]]
  /\ ReadOnly

Found(q) == <<q.lesson, q.item>>

MutantAdoption(q) ==       \* the entry is only compared for a learner's row
  /\ Found(q) \in Qualified
  /\ q.kind \notin {"publish", "adopt"} => q.entry = Found(q) /\ q.row.identity = Found(q)

MutantAuthorization(q) ==  \* the row is taken for one of the entry's identity
  /\ Found(q) \in Qualified
  /\ q.kind # "publish" => q.entry = Found(q)

\* qualify, then the identity of the entry, then that of the learner's row.
Accepts(q) ==
  /\ Found(q) \in Qualified
  /\ q.kind # "publish" => q.entry = Found(q)
  /\ q.kind \notin {"publish", "adopt"} => q.row.identity = Found(q)

Settled(h) == req[h].step = "assets" /\ req[h].lesson # 0 /\ req[h].item # 0

Refuse(h) ==
  /\ Settled(h) /\ ~Accepts(req[h])
  /\ req' = [req EXCEPT ![h] = Idle]
  /\ ReadOnly

-----------------------------------------------------------------------------
(* Writing. *)

MutantAssetsMatch(pair) == TRUE      \* the transaction trusts what was read

\* currentSourceExpeditionAssetsMatch.  FOR SHARE keeps the rows it has checked
\* current until the transaction ends, so the check and the write are one step.
AssetsMatch(pair) == assets = pair

Approved(h, k) == Settled(h) /\ Accepts(req[h]) /\ req[h].kind = k
Done(h) == req' = [req EXCEPT ![h] = Idle]

CommitPublication(h) ==
  LET pair == Found(req[h]) IN
  /\ Approved(h, "publish") /\ Done(h)
  /\ catalog' = IF AssetsMatch(pair) THEN pair ELSE catalog
  /\ accepted' = (accepted \cup {catalog'}) \ {None}
  /\ UNCHANGED <<assets, bank, mine, answers, current, adopted, calls>>

CommitAdoption(h) ==
  LET pair == Found(req[h]) IN
  /\ Approved(h, "adopt") /\ Done(h)
  /\ mine' = IF AssetsMatch(pair) THEN [kept |-> TRUE, identity |-> pair, active |-> TRUE] ELSE mine
  /\ adopted' = (adopted \cup {mine'.identity}) \ {None}
  /\ UNCHANGED <<assets, bank, catalog, answers, current, accepted, calls>>

\* The row is locked and its identity compared again.
CommitActivation(h) ==
  LET pair == Found(req[h]) IN
  /\ Approved(h, "activate") /\ Done(h)
  /\ mine' = IF mine.identity = pair /\ AssetsMatch(pair) THEN [mine EXCEPT !.active = TRUE] ELSE mine
  /\ UNCHANGED <<assets, bank, catalog, answers, current, accepted, adopted, calls>>

\* The learner starts or activates another expedition.
OtherActivated ==
  /\ mine.active /\ calls > 0 /\ calls' = calls - 1
  /\ mine' = [mine EXCEPT !.active = FALSE]
  /\ UNCHANGED <<assets, bank, catalog, req, answers, current, accepted, adopted>>

\* getStudyItemById: the item must still be current when it is loaded...
LoadItem(h) ==
  /\ Approved(h, "grade")
  /\ req' = [req EXCEPT ![h] = IF assets[2] = @.item THEN [@ EXCEPT !.step = "append"] ELSE Idle]
  /\ ReadOnly

\* ... and nothing is checked again when the answer or the verdict is written.
Append(h) ==
  /\ req[h].step = "append" \/ Approved(h, "verdict")
  /\ answers' = answers \cup {Found(req[h])} /\ Done(h)
  /\ UNCHANGED <<assets, bank, catalog, mine, current, accepted, adopted, calls>>

-----------------------------------------------------------------------------
\* The enrichment is new, or published and adopted already.
Beginning == {"new", "adopted"}

SourceInit(begun, limit) ==
  LET first == IF begun = "adopted" THEN <<1, 1>> ELSE None IN
  /\ assets = <<1, 1>> /\ current = {<<1, 1>>}
  /\ bank = [g \in Gen |-> IF g = 1 THEN "done" ELSE "fresh"]
  /\ catalog = first /\ accepted = {first} \ {None}
  /\ mine = IF first = None THEN NoRow ELSE [kept |-> TRUE, identity |-> first, active |-> TRUE]
  /\ adopted = accepted
  /\ req = [h \in Handler |-> Idle]
  /\ answers = {}
  /\ calls = limit

SourceNext ==
  \/ \E g \in Gen : PersistLessons(g) \/ PersistItems(g)
  \/ \E h \in Handler :
       \/ \E k \in Kind : Start(h, k)
       \/ ReadRow(h) \/ ReadEntry(h) \/ ReadLessons(h) \/ ReadItems(h) \/ Refuse(h)
       \/ CommitPublication(h) \/ CommitAdoption(h) \/ CommitActivation(h)
       \/ LoadItem(h) \/ Append(h)
  \/ OtherActivated

-----------------------------------------------------------------------------
(* Correctness. *)

\* The catalog only ever offers a set that was current as a whole: four reads
\* torn by a regeneration give an identity nobody can publish or adopt.
OfferedSetExisted == accepted \cup adopted \subseteq current

\* A learner's row carries an identity an operator had accepted, whatever was
\* republished or regenerated while the adoption was deciding.
AdoptedWasAccepted == mine.kept => mine.identity \in accepted

\* Nothing is written under a set of assets the learner never adopted, even
\* when the catalog and the bank have moved on to another set.
AnswersAreUnderAdoption == answers \subseteq adopted

\* Adopting or activating leaves the row on assets that are current then.
ActivatedOnCurrentAssets ==
  [][~mine.active /\ mine'.active => mine'.identity = assets']_sourceVars

=============================================================================
