-------------------------- MODULE LearningPathProofs --------------------------
(* What is proved of four stages of the way from a source to a trail.         *)
(* An extraction run: what it stores is earned.  The invariant follows each   *)
(* candidate and its evidence past every judge; the lemmas on lists say that  *)
(* joining the atoms of the candidates loses and adds none.                   *)
(* A layer's Study Item Bank: however its generations overlap, fail or die,   *)
(* the two persists replace the layer's rows as a whole.  The proof rests on  *)
(* what an open transaction has seen: with one live row of a generation it    *)
(* has seen every live row of that generation in its table, so superseding    *)
(* what it saw never splits a generation; and a generation has no rows in a   *)
(* table before its own commit there.  What a generation writes is sound too: *)
(* the second half follows each chain, subject by subject, through its filter *)
(* lists, and joins the chains and the blueprint key by key.                  *)
(* The packages accepted paths travel in: what the catalog offers goes back to*)
(* layers an operator published.                                              *)
(* The publication of graph versions: what is assembled from a base, runs and *)
(* identities has all of them, and the registry stays a bijection of keys and *)
(* IRIs, so that a version is read back as it was written.                    *)
EXTENDS GraphProofs, GraphPublication, StudyItemBank, ExtractionRun, AcceptedPackages

(***************************************************************************)
(* Lists.                                                                  *)
(***************************************************************************)

LEMMA RankFacts ==
  ASSUME NEW S \in SUBSET Nat, IsFiniteSet(S)
  PROVE  /\ Cardinality(S) \in Nat
         /\ \A i \in S : Rank(i, S) \in 1 .. Cardinality(S)
         /\ \A i, j \in S : Rank(i, S) = Rank(j, S) => i = j
         /\ \A k \in 1 .. Cardinality(S) : Place(k, S) \in S /\ Rank(Place(k, S), S) = k
         /\ \A i \in S : Place(Rank(i, S), S) = i
<1> DEFINE NotAfter(i) == {j \in S : j <= i}
           N == Cardinality(S)
           rank == [i \in S |-> Rank(i, S)]
<1>1. N \in Nat
  BY FS_CardinalityType
<1>2. ASSUME NEW i \in S
      PROVE  IsFiniteSet(NotAfter(i)) /\ Rank(i, S) = Cardinality(NotAfter(i)) /\ Rank(i, S) \in 1 .. N
  <2> DEFINE U == NotAfter(i)
  <2>1. U \in SUBSET S /\ i \in U /\ Rank(i, S) = Cardinality(U)
    BY DEF Rank
  <2> HIDE DEF U
  <2>2. IsFiniteSet(U) /\ Cardinality(U) <= N
    BY <2>1, FS_Subset
  <2>3. Cardinality(U) \in Nat /\ Cardinality(U) # 0
    BY <2>1, <2>2, FS_CardinalityType, FS_EmptySet
  <2> QED
    BY <1>1, <2>1, <2>2, <2>3 DEF U
<1>3. ASSUME NEW i \in S, NEW j \in S, i < j PROVE Rank(i, S) # Rank(j, S)
  <2> DEFINE U == NotAfter(i)
             V == NotAfter(j)
  <2>1. U \in SUBSET V /\ j \in V /\ j \notin U
    <3>1. i \in Nat /\ j \in Nat /\ \A x \in S : x \in Nat
      OBVIOUS
    <3>2. ~ (j <= i) /\ j <= j
      BY <1>3, <3>1
    <3>3. \A x \in S : x <= i => x <= j
      BY <1>3, <3>1
    <3>4. j \in V /\ j \notin U
      BY <3>2
    <3>5. U \in SUBSET V
      BY <3>3
    <3> QED
      BY <3>4, <3>5
  <2>2. IsFiniteSet(V) /\ Rank(i, S) = Cardinality(U) /\ Rank(j, S) = Cardinality(V)
    BY <1>2
  <2> HIDE DEF U, V
  <2>3. U # V
    BY <2>1
  <2> QED
    BY <2>1, <2>2, <2>3, FS_Subset
<1>4. \A i, j \in S : Rank(i, S) = Rank(j, S) => i = j
  BY <1>3
<1>5. rank \in Injection(S, 1 .. N)
  BY <1>2, <1>4 DEF Injection, IsInjective
<1>6. IsFiniteSet(1 .. N) /\ Cardinality(1 .. N) = N
  BY <1>1, FS_Interval
<1>7. rank \in Surjection(S, 1 .. N)
  <2> HIDE DEF rank
  <2> QED
    BY <1>5, <1>6, FS_Injection
<1>8. ASSUME NEW k \in 1 .. N PROVE Place(k, S) \in S /\ Rank(Place(k, S), S) = k
  <2>1. \E i \in S : Rank(i, S) = k
    BY <1>7 DEF Surjection
  <2> QED
    BY <2>1 DEF Place
<1> QED
  BY <1>1, <1>2, <1>4, <1>8

-----------------------------------------------------------------------------
(* Lists that are joined one after the other. *)

\* Every element of the list a is one of the list b.
Among(a, b) == \A j \in 1 .. Len(a) : \E k \in 1 .. Len(b) : b[k] = a[j]

LEMMA AmongJoined ==
  ASSUME NEW S, NEW a \in Seq(S), NEW b \in Seq(S)
  PROVE  /\ Among(b, a \o b)
         /\ \A c : Among(c, a) => Among(c, a \o b)
<1>1. /\ Len(a) \in Nat /\ Len(b) \in Nat /\ Len(a \o b) = Len(a) + Len(b)
      /\ \A k \in 1 .. Len(a) : k \in 1 .. Len(a \o b) /\ (a \o b)[k] = a[k]
      /\ \A j \in 1 .. Len(b) : Len(a) + j \in 1 .. Len(a \o b) /\ (a \o b)[Len(a) + j] = b[j]
  OBVIOUS
<1>2. Among(b, a \o b)
  BY <1>1 DEF Among
<1>3. \A c : Among(c, a) => Among(c, a \o b)
  BY <1>1 DEF Among
<1> QED
  BY <1>2, <1>3

\* Nothing is lost when lists are joined, and nothing is added.
LEMMA FlattenKeepsAll ==
  ASSUME NEW S, NEW q \in Seq(Seq(S))
  PROVE  /\ FlattenSeq(q) \in Seq(S)
         /\ \A i \in 1 .. Len(q) : Among(q[i], FlattenSeq(q))
<1> DEFINE n == Len(q)
           Odd(g) == {i \in 1 .. n : ~ (g[i] \in Seq(S) /\ \A k \in 1 .. i : Among(q[k], g[i]))}
<1>1. n \in Nat /\ \A i \in 1 .. n : q[i] \in Seq(S)
  OBVIOUS
<1>2. CASE n = 0
  <2>1. q = <<>>
    BY <1>2
  <2> QED
    BY <1>2, <2>1 DEF FlattenSeq
<1>3. CASE n # 0
  <2>1. PICK g : /\ \A i \in 1 .. n : g[i] = IF i = 1 THEN q[i] ELSE g[i - 1] \o q[i]
                 /\ FlattenSeq(q) = g[n]
    BY <1>1, <1>3, FlattenJoins
  <2>2. n \in 1 .. n
    BY <1>1, <1>3
  <2>3. ASSUME Odd(g) # {} PROVE FALSE
    <3>1. PICK i \in Odd(g) : \A k \in Odd(g) : i <= k
      <4>1. Odd(g) \in SUBSET Nat
        BY <1>1
      <4> HIDE DEF Odd
      <4> QED
        BY <2>3, <4>1, LeastNatural
    <3>2. i \in 1 .. n /\ i \in Nat /\ q[i] \in Seq(S)
      BY <1>1
    <3>3. CASE i = 1
      <4>1. g[i] = q[i]
        BY <2>1, <3>2, <3>3
      <4>2. Among(q[i], q[i])
        BY DEF Among
      <4>3. \A k \in 1 .. i : k = i
        BY <3>3
      <4> QED
        BY <3>1, <3>2, <4>1, <4>2, <4>3
    <3>4. CASE i # 1
      <4>1. i - 1 \in 1 .. n /\ ~ (i <= i - 1)
        BY <1>1, <3>2, <3>4
      <4>2. g[i - 1] \in Seq(S) /\ \A k \in 1 .. i - 1 : Among(q[k], g[i - 1])
        BY <3>1, <4>1
      <4>3. g[i] = g[i - 1] \o q[i]
        BY <2>1, <3>2, <3>4
      <4>4. g[i] \in Seq(S) /\ Among(q[i], g[i]) /\ \A k \in 1 .. i - 1 : Among(q[k], g[i])
        BY <3>2, <4>2, <4>3, AmongJoined
      <4>5. \A k \in 1 .. i : k = i \/ k \in 1 .. i - 1
        BY <3>2
      <4> QED
        BY <3>1, <4>4, <4>5
    <3> QED
      BY <3>3, <3>4
  <2>4. g[n] \in Seq(S) /\ \A k \in 1 .. n : Among(q[k], g[n])
    BY <2>2, <2>3
  <2> QED
    BY <2>1, <2>4
<1> QED
  BY <1>2, <1>3

(***************************************************************************)
(* The Study Item Bank.                                                    *)
(***************************************************************************)

Field == {"at", "lessons", "absent", "plan", "chains", "items", "rejected", "seen", "swept"}

\* Every generation keeps a record of the same fields.
JobsAreRecords ==
  /\ jobs = [g \in DOMAIN jobs |-> jobs[g]]
  /\ \A g \in DOMAIN jobs : jobs[g] = [f \in Field |-> jobs[g][f]]

\* Every row that is stored, or that an open transaction has seen.
Noted == rows \cup refusals \cup UNION {jobs[g].seen \cup jobs[g].swept : g \in DOMAIN jobs}

\* A row was written by one of the generations, and refusals are never retired.
RowsAreRecords ==
  /\ \A r \in Noted : /\ r = [f \in {"table", "key", "by", "live"} |-> r[f]]
                      /\ r.table \in {"lesson", "item"}
                      /\ r.by \in DOMAIN jobs
                      /\ r.live \in BOOLEAN
  /\ \A r \in refusals : r.live
  /\ \A g \in DOMAIN jobs : \A r \in jobs[g].seen \cup jobs[g].swept : r.live

AfterLessons == {"plan", "items", "save items", "sweep items", "write items", "done", "failed"}

\* A generation has rows in a table only once it has committed there.
RowsAreCommitted ==
  \A r \in Noted : IF r.table = "item" THEN jobs[r.by].at = "done"
                   ELSE jobs[r.by].at \in AfterLessons

\* What is stored by one generation in one table is seen together.
SeenTogether(seen, stored) ==
  \A r \in seen : \A s \in stored : s.by = r.by /\ s.table = r.table /\ s.live => s \in seen

\* A transaction that has seen a row of a generation has seen every live one
\* that generation has in the table, and so with the refusals it has swept.
GenerationsAreSeenWhole ==
  \A g \in DOMAIN jobs :
    SeenTogether(jobs[g].seen, rows) /\ SeenTogether(jobs[g].swept, refusals)

BankInv ==
  /\ JobsAreRecords
  /\ RowsAreRecords
  /\ RowsAreCommitted
  /\ GenerationsAreSeenWhole
  /\ GenerationsReplaceWholly

-----------------------------------------------------------------------------
(* What a step leaves of the jobs.                                            *)

\* A generation that goes on changes the fields it names and nothing else
\* (the locals of one run of generateStudyItemBank).
LEMMA GoesOn ==
  ASSUME JobsAreRecords, NEW g \in DOMAIN jobs, NEW fields, Proceed(g, fields)
  PROVE  /\ DOMAIN jobs' = DOMAIN jobs
         /\ JobsAreRecords'
         /\ \A h \in DOMAIN jobs : h # g => jobs'[h] = jobs[h]
         /\ \A f \in Field :
              jobs'[g][f] = IF f \in DOMAIN fields THEN fields[f] ELSE jobs[g][f]
<1> DEFINE next == [f \in Field |-> IF f \in DOMAIN fields THEN fields[f] ELSE jobs[g][f]]
<1>1. DOMAIN jobs[g] = Field
  BY DEF JobsAreRecords
<1>2. jobs' = [jobs EXCEPT ![g] = next]
  BY <1>1 DEF Proceed
<1>3. jobs'[g] = next
  BY <1>2, jobs = [h \in DOMAIN jobs |-> jobs[h]] DEF JobsAreRecords
<1>4. DOMAIN jobs' = DOMAIN jobs /\ \A h \in DOMAIN jobs : h # g => jobs'[h] = jobs[h]
  BY <1>2
<1>5. next = [f \in Field |-> next[f]]
  OBVIOUS
<1> HIDE DEF next
<1>6. \A h \in DOMAIN jobs : jobs'[h] = [f \in Field |-> jobs'[h][f]]
  BY <1>3, <1>4, <1>5 DEF JobsAreRecords
<1>7. jobs' = [h \in DOMAIN jobs' |-> jobs'[h]]
  BY <1>2
<1> QED
  BY <1>3, <1>4, <1>6, <1>7 DEF JobsAreRecords, next

\* What an open transaction may have seen of what is stored.
Sees(seen, swept) ==
  /\ seen \cup swept \subseteq Noted
  /\ \A r \in seen \cup swept : r.live
  /\ SeenTogether(seen, rows) /\ SeenTogether(swept, refusals)

\* A step in which nothing is stored and what the open transactions have seen
\* is whole keeps the invariant (everything but the commit of a persist).
LEMMA NothingStored ==
  ASSUME BankInv, JobsAreRecords', DOMAIN jobs' = DOMAIN jobs, rows' = rows, refusals' = refusals,
         \A h \in DOMAIN jobs : /\ jobs[h].at = "done" => jobs'[h] = jobs[h]
                                /\ jobs[h].at \in AfterLessons => jobs'[h].at \in AfterLessons,
         \A h \in DOMAIN jobs : Sees(jobs'[h].seen, jobs'[h].swept)
  PROVE  BankInv'
<1>1. \A r \in Noted' : r \in Noted
  BY DEF Noted, Sees
<1>2. RowsAreRecords'
  BY <1>1 DEF BankInv, RowsAreRecords, Sees
<1>3. RowsAreCommitted'
  BY <1>1 DEF BankInv, RowsAreRecords, RowsAreCommitted
<1>4. GenerationsAreSeenWhole'
  BY DEF GenerationsAreSeenWhole, Sees, SeenTogether
<1>5. GenerationsReplaceWholly'
  <2>1. \A r \in rows \cup refusals : r \in Noted /\ r.by \in DOMAIN jobs
    BY DEF Noted, BankInv, RowsAreRecords
  <2>2. \A r \in rows \cup refusals : r.table = "item" => jobs'[r.by] = jobs[r.by]
    BY <2>1 DEF BankInv, RowsAreCommitted
  <2>3. \A r \in rows \cup refusals : r.table = "item" => jobs'[r.by].at = "done"
    BY <2>1, <2>2 DEF BankInv, RowsAreCommitted
  <2>4. \A r \in refusals : r.table = "item" => \A key \in jobs'[r.by].rejected :
          \E s \in refusals : s.by = r.by /\ s.table = "item" /\ s.key = key
    BY <2>2 DEF BankInv, GenerationsReplaceWholly
  <2> QED
    BY <2>3, <2>4 DEF BankInv, GenerationsReplaceWholly
<1> QED
  BY <1>2, <1>3, <1>4, <1>5 DEF BankInv

\* What the transactions have seen stays as it is when nothing is stored.
LEMMA SeenStays ==
  ASSUME BankInv, NEW g \in DOMAIN jobs
  PROVE  Sees(jobs[g].seen, jobs[g].swept) /\ Sees({}, {})
BY DEF BankInv, Noted, RowsAreRecords, GenerationsAreSeenWhole, Sees, SeenTogether

\* A generation that works on, between its persists, keeps the invariant.
LEMMA WorksOn ==
  ASSUME BankInv, NEW g \in DOMAIN jobs, NEW fields, Proceed(g, fields),
         "seen" \notin DOMAIN fields, "swept" \notin DOMAIN fields,
         rows' = rows, refusals' = refusals, jobs[g].at # "done",
         IF "at" \in DOMAIN fields
         THEN jobs[g].at \in AfterLessons => fields["at"] \in AfterLessons
         ELSE TRUE
  PROVE  BankInv'
<1>1. /\ DOMAIN jobs' = DOMAIN jobs
      /\ JobsAreRecords'
      /\ \A h \in DOMAIN jobs : h # g => jobs'[h] = jobs[h]
      /\ \A f \in Field : jobs'[g][f] = IF f \in DOMAIN fields THEN fields[f] ELSE jobs[g][f]
  BY GoesOn DEF BankInv
<1>2. jobs'[g].seen = jobs[g].seen /\ jobs'[g].swept = jobs[g].swept
  BY <1>1 DEF Field
<1>3. jobs'[g].at = IF "at" \in DOMAIN fields THEN fields["at"] ELSE jobs[g].at
  BY <1>1 DEF Field
<1>4. \A h \in DOMAIN jobs : /\ jobs[h].at = "done" => jobs'[h] = jobs[h]
                             /\ jobs[h].at \in AfterLessons => jobs'[h].at \in AfterLessons
  BY <1>1, <1>3
<1>5. \A h \in DOMAIN jobs : jobs'[h].seen = jobs[h].seen /\ jobs'[h].swept = jobs[h].swept
  BY <1>1, <1>2
<1>6. \A h \in DOMAIN jobs : Sees(jobs'[h].seen, jobs'[h].swept)
  BY <1>5, SeenStays
<1> QED
  BY <1>1, <1>4, <1>6, NothingStored

\* A generation that is given up, before it is done, keeps the invariant: it
\* has committed nothing in the table it was about to write.
LEMMA GivesUp ==
  ASSUME BankInv, NEW g \in DOMAIN jobs, Proceed(g, [Idle EXCEPT !.at = "failed"]),
         jobs[g].at # "done", rows' = rows, refusals' = refusals
  PROVE  BankInv'
<1> DEFINE fields == [Idle EXCEPT !.at = "failed"]
<1>1. /\ DOMAIN fields = Field /\ fields["at"] = "failed"
      /\ fields["seen"] = {} /\ fields["swept"] = {}
  BY DEF Idle, Field
<1> HIDE DEF fields
<1>2. /\ DOMAIN jobs' = DOMAIN jobs
      /\ JobsAreRecords'
      /\ \A h \in DOMAIN jobs : h # g => jobs'[h] = jobs[h]
      /\ \A f \in Field : jobs'[g][f] = IF f \in DOMAIN fields THEN fields[f] ELSE jobs[g][f]
  BY GoesOn DEF BankInv, fields
<1>3. jobs'[g].at = "failed" /\ jobs'[g].seen = {} /\ jobs'[g].swept = {}
  BY <1>1, <1>2 DEF Field
<1>4. \A h \in DOMAIN jobs : /\ jobs[h].at = "done" => jobs'[h] = jobs[h]
                             /\ jobs[h].at \in AfterLessons => jobs'[h].at \in AfterLessons
  BY <1>2, <1>3 DEF AfterLessons
<1>5. \A h \in DOMAIN jobs : Sees(jobs'[h].seen, jobs'[h].swept)
  <2>1. \A h \in DOMAIN jobs : h # g => jobs'[h].seen = jobs[h].seen /\ jobs'[h].swept = jobs[h].swept
    BY <1>2
  <2> QED
    BY <2>1, <1>3, SeenStays
<1> QED
  BY <1>2, <1>4, <1>5, NothingStored

-----------------------------------------------------------------------------
(* The steps between the persists.                                            *)

\* The generation and the admission of lessons (generateConceptLessons,
\* sourceLessonAdmission).
LEMMA LessonsKeep ==
  ASSUME BankInv, NEW g \in DOMAIN jobs, GenerateLessons(g) \/ AdmitLessons(g)
  PROVE  BankInv'
<1>1. CASE GenerateLessons(g)
  <2>1. PICK at, lessons, absent :
          Proceed(g, [at |-> at, lessons |-> lessons, absent |-> absent])
    BY <1>1 DEF GenerateLessons
  <2>2. jobs[g].at = "lessons" /\ rows' = rows /\ refusals' = refusals
    BY <1>1 DEF GenerateLessons
  <2> QED
    BY <2>1, <2>2, WorksOn DEF AfterLessons
<1>2. CASE AdmitLessons(g)
  <2>1. PICK at, lessons, absent :
          Proceed(g, [at |-> at, lessons |-> lessons, absent |-> absent])
    BY <1>2 DEF AdmitLessons
  <2>2. jobs[g].at = "admission" /\ rows' = rows /\ refusals' = refusals
    BY <1>2 DEF AdmitLessons
  <2> QED
    BY <2>1, <2>2, WorksOn DEF AfterLessons
<1> QED
  BY <1>1, <1>2

\* The blueprint and the join of the chains (planLearningElements and the end
\* of generateStudyItemBank).
LEMMA PlanAndJoinKeep ==
  ASSUME BankInv, NEW g \in DOMAIN jobs, PlanItems(g) \/ JoinChains(g)
  PROVE  BankInv'
<1>1. CASE PlanItems(g)
  <2>1. PICK plan, unasked, chains :
          Proceed(g, [at |-> "items", plan |-> plan, rejected |-> unasked, chains |-> chains])
    BY <1>1 DEF PlanItems
  <2>2. jobs[g].at = "plan" /\ rows' = rows /\ refusals' = refusals
    BY <1>1 DEF PlanItems
  <2> QED
    BY <2>1, <2>2, WorksOn DEF AfterLessons
<1>2. CASE JoinChains(g)
  <2>1. PICK items, rejected :
          Proceed(g, [at |-> "save items", items |-> items, rejected |-> rejected])
    BY <1>2 DEF JoinChains
  <2>2. jobs[g].at = "items" /\ rows' = rows /\ refusals' = refusals
    BY <1>2 DEF JoinChains
  <2> QED
    BY <2>1, <2>2, WorksOn DEF AfterLessons
<1> QED
  BY <1>1, <1>2

\* A step of one chain (draft, judge, admit, regenerate, judge again).
LEMMA ChainsKeep ==
  ASSUME BankInv, NEW g \in DOMAIN jobs, NEW t \in bank.types,
         \/ DraftItems(g, t) \/ JudgeItems(g, t) \/ AdmitItems(g, t)
         \/ Regenerate(g, t) \/ RejudgeItems(g, t)
  PROVE  BankInv'
<1>1. rows' = rows /\ refusals' = refusals /\ jobs[g].at = "items"
  BY DEF DraftItems, JudgeItems, AdmitItems, Regenerate, RejudgeItems, Working
<1>2. \E chains : Proceed(g, [chains |-> chains])
  <2>1. CASE DraftItems(g, t)
    BY <2>1 DEF DraftItems, SetChain
  <2>2. CASE JudgeItems(g, t)
    BY <2>2 DEF JudgeItems, SetChain
  <2>3. CASE AdmitItems(g, t)
    BY <2>3 DEF AdmitItems, SetChain
  <2>4. CASE Regenerate(g, t)
    BY <2>4 DEF Regenerate, SetChain
  <2>5. CASE RejudgeItems(g, t)
    BY <2>5 DEF RejudgeItems, SetChain
  <2> QED
    BY <2>1, <2>2, <2>3, <2>4, <2>5
<1>3. PICK chains : Proceed(g, [chains |-> chains])
  BY <1>2
<1> QED
  BY <1>1, <1>3, WorksOn

-----------------------------------------------------------------------------
(* The persists.                                                              *)

\* The transaction that opens sees all live rows of its table, so those of a
\* generation all or none (the UPDATE that supersedes).
LEMMA RetireKeeps ==
  ASSUME BankInv, NEW g \in DOMAIN jobs, Retire(g)
  PROVE  BankInv'
<1> DEFINE seen == {r \in rows : r.live /\ r.table = Table(g)}
           next == Stage(g, "sweep lessons", "sweep items")
<1>1. Proceed(g, [at |-> next, seen |-> seen])
  BY DEF Retire
<1>2. jobs[g].at \in {"save lessons", "save items"} /\ rows' = rows /\ refusals' = refusals
  BY DEF Retire
<1>3. jobs[g].at = "save items" => next = "sweep items"
  BY DEF Stage, Table
<1>4. Sees(seen, jobs[g].swept)
  <2>1. seen \subseteq Noted /\ (\A r \in seen : r.live) /\ SeenTogether(seen, rows)
    BY DEF Noted, SeenTogether
  <2> QED
    BY <2>1, SeenStays DEF Sees
<1> HIDE DEF seen, next
<1>5. /\ DOMAIN jobs' = DOMAIN jobs
      /\ JobsAreRecords'
      /\ \A h \in DOMAIN jobs : h # g => jobs'[h] = jobs[h]
      /\ jobs'[g].at = next /\ jobs'[g].seen = seen /\ jobs'[g].swept = jobs[g].swept
  BY <1>1, GoesOn DEF BankInv, Field
<1>6. \A h \in DOMAIN jobs : /\ jobs[h].at = "done" => jobs'[h] = jobs[h]
                             /\ jobs[h].at \in AfterLessons => jobs'[h].at \in AfterLessons
  BY <1>2, <1>3, <1>5 DEF AfterLessons
<1>7. \A h \in DOMAIN jobs : Sees(jobs'[h].seen, jobs'[h].swept)
  BY <1>4, <1>5, SeenStays
<1> QED
  BY <1>2, <1>5, <1>6, <1>7, NothingStored

\* After its wait the transaction holds of a generation all live rows or none,
\* and sees all refusals of its table (the end of the UPDATE, and the DELETE).
LEMMA SweepKeeps ==
  ASSUME BankInv, NEW g \in DOMAIN jobs, Sweep(g)
  PROVE  BankInv'
<1> DEFINE held == jobs[g].seen \cap rows
           swept == {r \in refusals : r.table = Table(g)}
           next == Stage(g, "write lessons", "write items")
<1>1. Proceed(g, [at |-> next, seen |-> held, swept |-> swept])
  BY DEF Sweep
<1>2. jobs[g].at \in {"sweep lessons", "sweep items"} /\ rows' = rows /\ refusals' = refusals
  BY DEF Sweep
<1>3. jobs[g].at = "sweep items" => next = "write items"
  BY DEF Stage, Table
<1>4. Sees(held, swept)
  <2>1. swept \subseteq Noted /\ (\A r \in swept : r.live) /\ SeenTogether(swept, refusals)
    BY DEF Noted, SeenTogether, BankInv, RowsAreRecords
  <2>2. held \subseteq Noted /\ (\A r \in held : r.live) /\ SeenTogether(held, rows)
    BY SeenStays DEF Sees, SeenTogether
  <2> QED
    BY <2>1, <2>2 DEF Sees
<1> HIDE DEF held, swept, next
<1>5. /\ DOMAIN jobs' = DOMAIN jobs
      /\ JobsAreRecords'
      /\ \A h \in DOMAIN jobs : h # g => jobs'[h] = jobs[h]
      /\ jobs'[g].at = next /\ jobs'[g].seen = held /\ jobs'[g].swept = swept
  BY <1>1, GoesOn DEF BankInv, Field
<1>6. \A h \in DOMAIN jobs : /\ jobs[h].at = "done" => jobs'[h] = jobs[h]
                             /\ jobs[h].at \in AfterLessons => jobs'[h].at \in AfterLessons
  BY <1>2, <1>3, <1>5 DEF AfterLessons
<1>7. \A h \in DOMAIN jobs : Sees(jobs'[h].seen, jobs'[h].swept)
  BY <1>4, <1>5, SeenStays
<1> QED
  BY <1>2, <1>5, <1>6, <1>7, NothingStored

\* The commit of a persist replaces whole generations by one whole generation
\* (the inserts after the UPDATE and the DELETE).
LEMMA CommitKeeps ==
  ASSUME BankInv, NEW g \in DOMAIN jobs, Writing(g), NEW keys, NEW absences,
         Table(g) = "item" => absences = jobs[g].rejected,
         rows' = (rows \ jobs[g].seen)
                   \cup {[r EXCEPT !.live = FALSE] : r \in rows \cap jobs[g].seen}
                   \cup {[table |-> Table(g), key |-> k, by |-> g, live |-> TRUE] : k \in keys},
         refusals' = (refusals \ jobs[g].swept)
                   \cup {[table |-> Table(g), key |-> k, by |-> g, live |-> TRUE] : k \in absences},
         \A r \in rows \ jobs[g].seen : ~ (r.live /\ r.table = Table(g) /\ r.key \in keys),
         \A r \in refusals \ jobs[g].swept : ~ (r.table = Table(g) /\ r.key \in absences),
         Proceed(g, [at |-> Stage(g, "plan", "done"), seen |-> {}, swept |-> {}])
  PROVE  BankInv'
<1> DEFINE table == Table(g)
           row(k) == [table |-> table, key |-> k, by |-> g, live |-> TRUE]
           next == Stage(g, "plan", "done")
<1>1. /\ DOMAIN jobs' = DOMAIN jobs
      /\ JobsAreRecords'
      /\ \A h \in DOMAIN jobs : h # g => jobs'[h] = jobs[h]
      /\ jobs'[g].at = next /\ jobs'[g].seen = {} /\ jobs'[g].swept = {}
      /\ jobs'[g].rejected = jobs[g].rejected
  BY GoesOn DEF BankInv, Field
<1>2. table = IF jobs[g].at = "write lessons" THEN "lesson" ELSE "item"
  BY DEF Writing, Table
<1>3. jobs[g].at \in {"write lessons", "write items"}
  BY DEF Writing
<1>4. \A h \in DOMAIN jobs : /\ jobs[h].at = "done" => jobs'[h] = jobs[h]
                             /\ jobs[h].at \in AfterLessons => jobs'[h].at \in AfterLessons
  BY <1>1, <1>2, <1>3 DEF AfterLessons, Stage
\* The generation had nothing in this table.
<1>5. \A r \in Noted : ~ (r.by = g /\ r.table = table)
  BY <1>2, <1>3 DEF BankInv, RowsAreCommitted, AfterLessons
<1>6. \A r \in rows' : \/ r \in rows /\ r \notin jobs[g].seen
                       \/ \E s \in rows \cap jobs[g].seen : r = [s EXCEPT !.live = FALSE]
                       \/ \E k \in keys : r = row(k)
  OBVIOUS
<1>7. \A r \in refusals' : \/ r \in refusals /\ r \notin jobs[g].swept
                           \/ \E k \in absences : r = row(k)
  OBVIOUS
<1>8. \A s \in rows : /\ [s EXCEPT !.live = FALSE].table = s.table
                      /\ [s EXCEPT !.live = FALSE].key = s.key
                      /\ [s EXCEPT !.live = FALSE].by = s.by
                      /\ [s EXCEPT !.live = FALSE].live = FALSE
                      /\ [s EXCEPT !.live = FALSE] =
                           [f \in {"table", "key", "by", "live"} |-> [s EXCEPT !.live = FALSE][f]]
  BY DEF BankInv, RowsAreRecords, Noted
<1>9. \A k : /\ row(k).table = table /\ row(k).key = k /\ row(k).by = g /\ row(k).live = TRUE
             /\ row(k) = [f \in {"table", "key", "by", "live"} |-> row(k)[f]]
  OBVIOUS
<1>10. table \in {"lesson", "item"}
  BY <1>2
\* What is known after the commit: rows known before, as they were or
\* superseded, and those of this generation.
<1>11. \A r \in Noted' : \/ r \in Noted
                         \/ \E s \in rows : r = [s EXCEPT !.live = FALSE]
                         \/ \E k : r = row(k)
  <2>1. \A h \in DOMAIN jobs : jobs'[h].seen \cup jobs'[h].swept \subseteq jobs[h].seen \cup jobs[h].swept
    BY <1>1
  <2> QED
    BY <2>1, <1>1, <1>6, <1>7 DEF Noted
<1>12. \A s \in rows \cup refusals : s \in Noted
  BY DEF Noted
<1> HIDE DEF row, next
<1>13. RowsAreRecords'
  <2>1. \A r \in Noted' : /\ r = [f \in {"table", "key", "by", "live"} |-> r[f]]
                          /\ r.table \in {"lesson", "item"}
                          /\ r.by \in DOMAIN jobs
                          /\ r.live \in BOOLEAN
    <3> SUFFICES ASSUME NEW r \in Noted'
                 PROVE  /\ r = [f \in {"table", "key", "by", "live"} |-> r[f]]
                        /\ r.table \in {"lesson", "item"}
                        /\ r.by \in DOMAIN jobs
                        /\ r.live \in BOOLEAN
      OBVIOUS
    <3>1. CASE r \in Noted
      BY <3>1 DEF BankInv, RowsAreRecords
    <3>2. CASE \E s \in rows : r = [s EXCEPT !.live = FALSE]
      <4>1. PICK s \in rows : r = [s EXCEPT !.live = FALSE]
        BY <3>2
      <4>2. s.table \in {"lesson", "item"} /\ s.by \in DOMAIN jobs
        BY <1>12 DEF BankInv, RowsAreRecords
      <4> QED
        BY <4>1, <4>2, <1>8
    <3>3. CASE \E k : r = row(k)
      BY <3>3, <1>9, <1>10
    <3> QED
      BY <3>1, <3>2, <3>3, <1>11
  <2>2. \A r \in refusals' : r.live
    BY <1>7, <1>9 DEF BankInv, RowsAreRecords
  <2>3. \A h \in DOMAIN jobs : \A r \in jobs'[h].seen \cup jobs'[h].swept : r.live
    BY <1>1 DEF BankInv, RowsAreRecords
  <2> QED
    BY <2>1, <2>2, <2>3, <1>1 DEF RowsAreRecords
<1>14. RowsAreCommitted'
  <2> SUFFICES ASSUME NEW r \in Noted'
               PROVE  IF r.table = "item" THEN jobs'[r.by].at = "done"
                      ELSE jobs'[r.by].at \in AfterLessons
    BY DEF RowsAreCommitted
  <2>1. CASE r \in Noted
    BY <2>1, <1>4 DEF BankInv, RowsAreRecords, RowsAreCommitted
  <2>2. CASE \E s \in rows : r = [s EXCEPT !.live = FALSE]
    <3>1. PICK s \in rows : r = [s EXCEPT !.live = FALSE]
      BY <2>2
    <3>2. r.table = s.table /\ r.by = s.by /\ s \in Noted
      BY <3>1, <1>8, <1>12
    <3> QED
      BY <3>2, <1>4 DEF BankInv, RowsAreRecords, RowsAreCommitted
  <2>3. CASE \E k : r = row(k)
    <3>1. PICK k : r = row(k)
      BY <2>3
    <3>2. r.table = table /\ r.by = g
      BY <3>1, <1>9
    <3>3. jobs'[r.by].at = next
      BY <3>2, <1>1
    <3>4. IF table = "item" THEN next = "done" ELSE next \in AfterLessons
      BY <1>10 DEF next, Stage, AfterLessons
    <3> QED
      BY <3>2, <3>3, <3>4
  <2> QED
    BY <2>1, <2>2, <2>3, <1>11
<1>15. GenerationsAreSeenWhole'
  <2>1. ASSUME NEW h \in DOMAIN jobs, NEW r \in jobs'[h].seen \cup jobs'[h].swept
        PROVE  h # g /\ jobs'[h] = jobs[h] /\ r \in Noted /\ ~ (r.by = g /\ r.table = table)
    BY <2>1, <1>1, <1>5 DEF Noted
  <2>2. ASSUME NEW h \in DOMAIN jobs, NEW r \in jobs'[h].seen, NEW s \in rows',
               s.by = r.by, s.table = r.table, s.live
        PROVE  s \in jobs'[h].seen
    <3>1. CASE s \in rows
      BY <2>1, <2>2, <3>1 DEF BankInv, GenerationsAreSeenWhole, SeenTogether
    <3>2. CASE \E u \in rows \cap jobs[g].seen : s = [u EXCEPT !.live = FALSE]
      BY <2>2, <3>2, <1>8
    <3>3. CASE \E k \in keys : s = row(k)
      BY <2>1, <2>2, <3>3, <1>9
    <3> QED
      BY <3>1, <3>2, <3>3, <1>6
  <2>3. ASSUME NEW h \in DOMAIN jobs, NEW r \in jobs'[h].swept, NEW s \in refusals',
               s.by = r.by, s.table = r.table, s.live
        PROVE  s \in jobs'[h].swept
    <3>1. CASE s \in refusals
      BY <2>1, <2>3, <3>1 DEF BankInv, GenerationsAreSeenWhole, SeenTogether
    <3>2. CASE \E k \in absences : s = row(k)
      BY <2>1, <2>3, <3>2, <1>9
    <3> QED
      BY <3>1, <3>2, <1>7
  <2> QED
    BY <2>2, <2>3, <1>1 DEF GenerationsAreSeenWhole, SeenTogether
<1>16. GenerationsReplaceWholly'
  <2>1. ASSUME NEW r \in rows', NEW s \in rows', r.live, s.live, r.table = s.table, r.key = s.key
        PROVE  r = s
    <3>1. ASSUME NEW u \in rows', u.live
          PROVE  \/ u \in rows /\ u \notin jobs[g].seen
                 \/ u.table = table /\ u.key \in keys /\ u = row(u.key)
      <4>1. ~ \E w \in rows \cap jobs[g].seen : u = [w EXCEPT !.live = FALSE]
        BY <3>1, <1>8
      <4>2. (\E k \in keys : u = row(k)) => u.table = table /\ u.key \in keys /\ u = row(u.key)
        BY <1>9
      <4> QED
        BY <4>1, <4>2, <1>6
    <3> QED
      BY <2>1, <3>1, <1>9 DEF BankInv, GenerationsReplaceWholly
  <2>2. ASSUME NEW r \in refusals', NEW s \in refusals', r.table = s.table, r.key = s.key
        PROVE  r = s
    <3>1. ASSUME NEW u \in refusals'
          PROVE  \/ u \in refusals /\ u \notin jobs[g].swept
                 \/ u.table = table /\ u.key \in absences /\ u = row(u.key)
      BY <3>1, <1>9 DEF row
    <3> QED
      BY <2>2, <3>1, <1>9 DEF BankInv, GenerationsReplaceWholly
  <2>3. ASSUME NEW r \in rows', NEW s \in rows', r.by = s.by, r.table = s.table
        PROVE  r.live = s.live
    <3>1. ASSUME NEW u \in rows', NEW v \in rows', u.by = v.by, u.table = v.table, u.live
          PROVE  v.live
      <4>1. CASE u \in rows /\ u \notin jobs[g].seen
        <5>1. ASSUME v \in rows
              PROVE  v.live
          BY <3>1, <4>1, <5>1 DEF BankInv, GenerationsReplaceWholly
        <5>2. ASSUME NEW w \in rows \cap jobs[g].seen, v = [w EXCEPT !.live = FALSE]
              PROVE  FALSE
          <6>1. u.by = w.by /\ u.table = w.table
            BY <3>1, <5>2, <1>8
          <6> QED
            BY <3>1, <4>1, <6>1 DEF BankInv, GenerationsAreSeenWhole, SeenTogether
        <5> QED
          BY <5>1, <5>2, <1>6, <1>9
      <4>2. CASE u.table = table /\ u.by = g
        <5>1. v \notin rows
          BY <3>1, <4>2, <1>5, <1>12
        <5>2. ASSUME NEW w \in rows \cap jobs[g].seen, v = [w EXCEPT !.live = FALSE]
              PROVE  FALSE
          BY <3>1, <4>2, <5>2, <1>5, <1>8, <1>12
        <5> QED
          BY <5>1, <5>2, <1>6, <1>9
      <4>3. ~ \E w \in rows \cap jobs[g].seen : u = [w EXCEPT !.live = FALSE]
        BY <3>1, <1>8
      <4>4. (\E k \in keys : u = row(k)) => u.table = table /\ u.by = g
        BY <1>9
      <4> QED
        BY <4>1, <4>2, <4>3, <4>4, <1>6
    <3>2. r.live \in BOOLEAN /\ s.live \in BOOLEAN
      BY <1>13 DEF RowsAreRecords, Noted
    <3> QED
      BY <2>3, <3>1, <3>2
  <2>4. \A r \in rows' \cup refusals' : r.table = "item" => jobs'[r.by].at = "done"
    BY <1>14 DEF RowsAreCommitted, Noted
  <2>5. ASSUME NEW r \in refusals', r.table = "item", NEW k \in jobs'[r.by].rejected
        PROVE  \E s \in refusals' : s.by = r.by /\ s.table = "item" /\ s.key = k
    <3>1. CASE r \in refusals /\ r \notin jobs[g].swept
      <4>1. r \in Noted /\ r.by \in DOMAIN jobs /\ jobs[r.by].at = "done"
        BY <2>5, <3>1, <1>12 DEF BankInv, RowsAreRecords, RowsAreCommitted
      <4>2. k \in jobs[r.by].rejected
        BY <2>5, <4>1, <1>4
      <4>3. PICK s \in refusals : s.by = r.by /\ s.table = "item" /\ s.key = k
        BY <2>5, <3>1, <4>2 DEF BankInv, GenerationsReplaceWholly
      <4>4. s \notin jobs[g].swept
        BY <2>5, <3>1, <4>3 DEF BankInv, GenerationsAreSeenWhole, SeenTogether, RowsAreRecords
      <4> QED
        BY <4>3, <4>4
    <3>2. CASE \E j \in absences : r = row(j)
      <4>1. r.by = g /\ table = "item"
        BY <2>5, <3>2, <1>9
      <4>2. k \in absences
        BY <2>5, <4>1, <1>1
      <4>3. row(k) \in refusals'
        BY <4>2 DEF row
      <4> QED
        BY <4>1, <4>3, <1>9
    <3> QED
      BY <3>1, <3>2, <1>7
  <2> QED
    BY <2>1, <2>2, <2>3, <2>4, <2>5 DEF GenerationsReplaceWholly
<1> QED
  BY <1>1, <1>13, <1>14, <1>15, <1>16 DEF BankInv

\* The end of a persist: commit, or undone by the unique index.
LEMMA WriteKeeps ==
  ASSUME BankInv, NEW g \in DOMAIN jobs, Write(g)
  PROVE  BankInv'
<1>1. CASE FilledRows(g) \cup FilledRefusals(g) # {}
  <2>1. Proceed(g, [Idle EXCEPT !.at = "failed"]) /\ rows' = rows /\ refusals' = refusals
    BY <1>1 DEF Write
  <2> QED
    BY <2>1, GivesUp DEF Write, Writing
<1>2. CASE FilledRows(g) \cup FilledRefusals(g) = {}
  <2>1. /\ Proceed(g, [at |-> Stage(g, "plan", "done"), seen |-> {}, swept |-> {}])
        /\ rows' = (rows \ jobs[g].seen)
                     \cup {[r EXCEPT !.live = FALSE] : r \in rows \cap jobs[g].seen}
                     \cup {[table |-> Table(g), key |-> k, by |-> g, live |-> TRUE] : k \in RowsToWrite(g)}
        /\ refusals' = (refusals \ jobs[g].swept)
                     \cup {[table |-> Table(g), key |-> k, by |-> g, live |-> TRUE] : k \in RefusalsToWrite(g)}
    BY <1>2 DEF Write
  <2>2. Writing(g) /\ (Table(g) = "item" => RefusalsToWrite(g) = jobs[g].rejected)
    BY DEF Write, RefusalsToWrite
  <2>3. /\ \A r \in rows \ jobs[g].seen : ~ (r.live /\ r.table = Table(g) /\ r.key \in RowsToWrite(g))
        /\ \A r \in refusals \ jobs[g].swept : ~ (r.table = Table(g) /\ r.key \in RefusalsToWrite(g))
    BY <1>2 DEF FilledRows, FilledRefusals
  <2> QED
    BY <2>1, <2>2, <2>3, CommitKeeps
<1> QED
  BY <1>1, <1>2

-----------------------------------------------------------------------------
(* The specification.                                                         *)

\* Generations start with nothing stored and nothing seen.
LEMMA BankStarts == BankInit => BankInv
<1> SUFFICES ASSUME BankInit
             PROVE  BankInv
  OBVIOUS
<1>1. /\ jobs = [g \in bank.generations |-> Idle]
      /\ rows = {} /\ refusals = {}
  BY DEF BankInit
<1>2. Idle = [f \in Field |-> Idle[f]] /\ Idle.seen = {} /\ Idle.swept = {}
  BY DEF Idle, Field
<1>3. JobsAreRecords
  BY <1>1, <1>2 DEF JobsAreRecords
<1>4. \A g \in DOMAIN jobs : jobs[g].seen = {} /\ jobs[g].swept = {}
  BY <1>1, <1>2
<1>5. Noted = {}
  BY <1>1, <1>4 DEF Noted
<1> QED
  BY <1>1, <1>3, <1>4, <1>5 DEF BankInv, RowsAreRecords, RowsAreCommitted,
     GenerationsAreSeenWhole, SeenTogether, GenerationsReplaceWholly

\* Every step of every generation keeps the invariant.
LEMMA BankStep == BankInv /\ [BankNext]_bankVars => BankInv'
<1> SUFFICES ASSUME BankInv, [BankNext]_bankVars
             PROVE  BankInv'
  OBVIOUS
<1>1. CASE UNCHANGED bankVars
  BY <1>1 DEF bankVars, BankInv, JobsAreRecords, RowsAreRecords, RowsAreCommitted, Noted,
     GenerationsAreSeenWhole, SeenTogether, GenerationsReplaceWholly
<1>2. ASSUME NEW g \in DOMAIN jobs,
             \/ GenerateLessons(g) \/ AdmitLessons(g) \/ PlanItems(g) \/ JoinChains(g)
             \/ \E t \in bank.types :
                  \/ DraftItems(g, t) \/ JudgeItems(g, t) \/ AdmitItems(g, t)
                  \/ Regenerate(g, t) \/ RejudgeItems(g, t)
      PROVE  BankInv'
  BY <1>2, LessonsKeep, PlanAndJoinKeep, ChainsKeep
<1>3. ASSUME NEW g \in DOMAIN jobs, Retire(g)
      PROVE  BankInv'
  BY <1>3, RetireKeeps
<1>4. ASSUME NEW g \in DOMAIN jobs, Sweep(g)
      PROVE  BankInv'
  BY <1>4, SweepKeeps
<1>5. ASSUME NEW g \in DOMAIN jobs, Write(g)
      PROVE  BankInv'
  BY <1>5, WriteKeeps
<1>6. ASSUME NEW g \in DOMAIN jobs, Abort(g)
      PROVE  BankInv'
  <2>1. /\ jobs[g].at # "done"
        /\ Proceed(g, [Idle EXCEPT !.at = "failed"])
        /\ rows' = rows /\ refusals' = refusals
    BY <1>6 DEF Abort
  <2> QED
    BY <2>1, GivesUp
<1> QED
  BY <1>1, <1>2, <1>3, <1>4, <1>5, <1>6 DEF BankNext

\* The invariant of the bank holds of every run of overlapping generations.
THEOREM BankInvariant == BankSpec => []BankInv
BY BankStarts, BankStep, PTL DEF BankSpec

\* However generations of one layer overlap, fail or die, for any number of
\* them, a key has at most one live row and one refusal, a generation's rows
\* of a table are live or superseded together, its refused items stand or are
\* gone together, and one that did not finish has written no items (the two
\* persists of PostgresLearnerLoopStores).
THEOREM GenerationsAreWhole == BankSpec => []GenerationsReplaceWholly
<1>1. BankInv => GenerationsReplaceWholly
  BY DEF BankInv
<1> QED
  BY <1>1, BankInvariant, PTL

-----------------------------------------------------------------------------
(* The chain of one type. *)

ChainField == {"step", "attempts", "first", "regenerated", "outcomes", "heard"}

\* An attempt of every node: those that were asked for end in a subject or not.
AttemptsAreSound(attempts, t, asked) ==
  /\ DOMAIN attempts = Layer
  /\ \A n \in Layer :
       /\ attempts[n].kind = "skipped" <=> n \notin asked
       /\ attempts[n].kind \in {"skipped", "rejected", "pending"}
       /\ attempts[n].kind = "pending" => attempts[n].subject = Subject(n, t, 1, attempts[n].subject.rung)

\* The first judgment of a chain, subject by subject.
FirstIsHeard(chain) ==
  LET subjects == Subjects(chain.attempts)
  IN  /\ DOMAIN chain.first = DOMAIN subjects
      /\ chain.outcomes = [k \in DOMAIN subjects |-> Settled(subjects[k], chain.first[k])]
      /\ chain.heard = Heard(subjects, chain.first)

\* A regenerated subject is the second draft of a node's type.
Redrafted(R, subjects, t) ==
  \A k \in DOMAIN R : R[k].subject = Subject(subjects[R[k].index].node, t, 2, R[k].subject.rung)

\* The k-th regeneration is of the k-th vetoed subject.
RegeneratedAreSound(chain, t) ==
  LET vetoed == Vetoed(chain.first)
  IN  /\ DOMAIN chain.regenerated = 1 .. Cardinality(vetoed)
      /\ \A k \in 1 .. Cardinality(vetoed) :
           LET r == chain.regenerated[k]
           IN  /\ r.index = Place(k, vetoed) /\ r.ok \in BOOLEAN
               /\ r.subject = Subject(Subjects(chain.attempts)[r.index].node, t, 2, r.subject.rung)

\* Admitted on its own judgment, the last draft of its node.
Earned(i, heard) ==
  /\ <<i, "clear">> \in heard \/ (<<i, "unavailable">> \in heard /\ PassesUnjudged(i))
  /\ <<i, "vetoed">> \notin heard
  /\ \A h \in heard : h[1].node = i.node /\ h[1] # i => h[2] = "vetoed" /\ h[1].draft < i.draft

\* The k-th outcome is of the k-th subject's node.
OutcomesAreSound(chain, t) ==
  LET subjects == Subjects(chain.attempts)
  IN  /\ DOMAIN chain.outcomes = DOMAIN subjects
      /\ \A k \in DOMAIN subjects :
           /\ chain.outcomes[k].item.node = subjects[k].node /\ chain.outcomes[k].item.type = t
           /\ chain.outcomes[k].admitted => Earned(chain.outcomes[k].item, chain.heard)

ChainIsSound(chain, t, asked) ==
  /\ chain = [f \in ChainField |-> chain[f]]
  /\ chain.step # "draft" => AttemptsAreSound(chain.attempts, t, asked)
  /\ chain.step \in {"regenerate", "rejudge"} => FirstIsHeard(chain)
  /\ chain.step = "rejudge" => RegeneratedAreSound(chain, t)
  /\ chain.step = "done" => OutcomesAreSound(chain, t)

\* A layer is a finite set of numbers.
LEMMA LayerFacts ==
  ASSUME bank \in BankCases
  PROVE  Layer \in SUBSET Nat /\ IsFiniteSet(Layer)
<1>1. bank.nodes \in Nat
  BY CasesAreBanks
<1>2. IsFiniteSet(1 .. bank.nodes)
  BY <1>1, FS_Interval
<1> QED
  BY <1>1, <1>2 DEF Layer

\* Subjects are the pending attempts, each node's once.
LEMMA SubjectsFacts ==
  ASSUME bank \in BankCases, NEW t, NEW asked, NEW attempts, AttemptsAreSound(attempts, t, asked),
         NEW subjects, subjects = Subjects(attempts)
  PROVE  /\ \E N \in Nat : DOMAIN subjects = 1 .. N
         /\ \A k \in DOMAIN subjects : subjects[k] = Subject(subjects[k].node, t, 1, subjects[k].rung)
         /\ \A j, k \in DOMAIN subjects : subjects[j].node = subjects[k].node => j = k
         /\ \A n \in Layer : attempts[n].kind = "pending" =>
              LET k == Rank(n, Pending(attempts)) IN k \in DOMAIN subjects /\ subjects[k].node = n
<1> DEFINE P == Pending(attempts)
           N == Cardinality(P)
<1>1. P \in SUBSET Layer /\ P = {n \in Layer : attempts[n].kind = "pending"}
  BY DEF Pending, AttemptsAreSound
<1>2. P \in SUBSET Nat /\ IsFiniteSet(P)
  <2> HIDE DEF P
  <2> QED
    BY <1>1, LayerFacts, FS_Subset
<1>3. subjects = [k \in 1 .. N |-> attempts[Place(k, P)].subject]
  BY DEF Subjects
<1> HIDE DEF P
<1>4. /\ N \in Nat
      /\ \A i \in P : Rank(i, P) \in 1 .. N
      /\ \A k \in 1 .. N : Place(k, P) \in P /\ Rank(Place(k, P), P) = k
      /\ \A i \in P : Place(Rank(i, P), P) = i
  BY <1>2, RankFacts
<1>5. ASSUME NEW k \in 1 .. N
      PROVE  subjects[k] = Subject(Place(k, P), t, 1, subjects[k].rung)
  <2>1. Place(k, P) \in Layer /\ attempts[Place(k, P)].kind = "pending"
    BY <1>1, <1>4
  <2> QED
    BY <1>3, <2>1 DEF AttemptsAreSound
<1>6. \A k \in 1 .. N : subjects[k].node = Place(k, P)
  <2> SUFFICES ASSUME NEW k \in 1 .. N PROVE subjects[k].node = Place(k, P)
    OBVIOUS
  <2>1. PICK s : s = subjects[k]
    OBVIOUS
  <2>2. s = [node |-> Place(k, P), type |-> t, draft |-> 1, rung |-> s.rung]
    BY <1>5, <2>1 DEF Subject
  <2>3. s.node = Place(k, P)
    BY <2>2
  <2> QED
    BY <2>1, <2>3
<1>7. DOMAIN subjects = 1 .. N
  BY <1>3
<1>8. \A k \in DOMAIN subjects : subjects[k] = Subject(subjects[k].node, t, 1, subjects[k].rung)
  BY <1>5, <1>6, <1>7
<1>9. \A j, k \in DOMAIN subjects : subjects[j].node = subjects[k].node => j = k
  BY <1>4, <1>6, <1>7
<1>10. \A n \in P : Rank(n, P) \in DOMAIN subjects /\ subjects[Rank(n, P)].node = n
  BY <1>4, <1>6, <1>7
<1> QED
  BY <1>1, <1>4, <1>7, <1>8, <1>9, <1>10 DEF P

\* An item that its first judgment admits has been judged once and not vetoed.
LEMMA FirstIsEarned ==
  ASSUME bank \in BankCases, NEW t, NEW asked, NEW attempts, AttemptsAreSound(attempts, t, asked),
         NEW subjects, subjects = Subjects(attempts), NEW first, DOMAIN first = DOMAIN subjects,
         NEW k \in DOMAIN subjects, Settled(subjects[k], first[k]).admitted
  PROVE  Earned(subjects[k], Heard(subjects, first))
<1>1. \A j \in DOMAIN subjects : subjects[j].node = subjects[k].node => j = k
  BY SubjectsFacts
<1>2. first[k] = "clear" \/ (first[k] = "unavailable" /\ PassesUnjudged(subjects[k]))
  BY DEF Settled
<1>3. \A h \in Heard(subjects, first) : \E j \in DOMAIN subjects : h = <<subjects[j], first[j]>>
  BY DEF Heard
<1>4. <<subjects[k], first[k]>> \in Heard(subjects, first)
  BY DEF Heard
<1>5. <<subjects[k], "vetoed">> \notin Heard(subjects, first)
  BY <1>1, <1>2, <1>3
<1>6. \A h \in Heard(subjects, first) : h[1].node = subjects[k].node => h[1] = subjects[k]
  BY <1>1, <1>3
<1> QED
  BY <1>2, <1>4, <1>5, <1>6 DEF Earned
\* Regenerations are of the vetoed subjects, one each, and those that succeeded
\* come back in the subjects of the second judgment.
RetriesMatch(first, R, again, second) ==
  /\ \A k \in DOMAIN R : R[k].index \in Vetoed(first)
  /\ \A i \in Vetoed(first) : \E k \in DOMAIN R : R[k].index = i
  /\ \A j, k \in DOMAIN R : R[j].index = R[k].index => j = k
  /\ \A k \in again : Rank(k, again) \in DOMAIN second /\ second[Rank(k, again)] = R[k].subject
  /\ \A m \in DOMAIN second : \E k \in again : m = Rank(k, again)

\* That is what regenerateVetoed and filter make of them.
LEMMA RetriesFacts ==
  ASSUME NEW N \in Nat, NEW first, DOMAIN first = 1 .. N,
         NEW R, DOMAIN R = 1 .. Cardinality(Vetoed(first)),
         \A k \in DOMAIN R : R[k].index = Place(k, Vetoed(first)),
         NEW again, again = Again(R),
         NEW second, second = [k \in 1 .. Cardinality(again) |-> R[Place(k, again)].subject]
  PROVE  RetriesMatch(first, R, again, second)
<1> DEFINE V == Vetoed(first)
           M == Cardinality(V)
<1>1. V \in SUBSET (1 .. N)
  BY DEF Vetoed
<1>2. V \in SUBSET Nat /\ IsFiniteSet(V)
  <2> HIDE DEF V
  <2>1. IsFiniteSet(1 .. N)
    BY FS_Interval
  <2>2. IsFiniteSet(V)
    BY <1>1, <2>1, FS_Subset
  <2>3. V \in SUBSET Nat
    BY <1>1
  <2> QED
    BY <2>2, <2>3
<1> HIDE DEF V
<1>3. /\ M \in Nat
      /\ \A i \in V : Rank(i, V) \in 1 .. M /\ Place(Rank(i, V), V) = i
      /\ \A k \in 1 .. M : Place(k, V) \in V /\ Rank(Place(k, V), V) = k
  BY <1>2, RankFacts
<1>4. DOMAIN R = 1 .. M /\ \A k \in 1 .. M : R[k].index = Place(k, V)
  BY DEF V
<1>5. \A k \in DOMAIN R : R[k].index \in V
  BY <1>3, <1>4
<1>6. \A i \in V : \E k \in DOMAIN R : R[k].index = i
  BY <1>3, <1>4
<1>7. \A j, k \in DOMAIN R : R[j].index = R[k].index => j = k
  <2>1. \A k \in DOMAIN R : Rank(R[k].index, V) = k
    BY <1>3, <1>4
  <2> QED
    BY <2>1
<1>8. again \in SUBSET (1 .. M)
  BY <1>4 DEF Again
<1>9. again \in SUBSET Nat /\ IsFiniteSet(again)
  <2>1. IsFiniteSet(1 .. M)
    BY <1>3, FS_Interval
  <2>2. again \in SUBSET Nat
    BY <1>3, <1>8
  <2> QED
    BY <1>8, <2>1, <2>2, FS_Subset
<1>10. /\ \A k \in again : Rank(k, again) \in 1 .. Cardinality(again) /\ Place(Rank(k, again), again) = k
       /\ \A m \in 1 .. Cardinality(again) : Place(m, again) \in again /\ Rank(Place(m, again), again) = m
  BY <1>9, RankFacts
<1>11. \A k \in again : Rank(k, again) \in DOMAIN second /\ second[Rank(k, again)] = R[k].subject
  BY <1>10
<1>12. \A m \in DOMAIN second : \E k \in again : m = Rank(k, again)
  BY <1>10
<1> QED
  BY <1>5, <1>6, <1>7, <1>11, <1>12 DEF V, RetriesMatch

\* A subject that was not vetoed keeps its verdict when others are judged again.
LEMMA UnvetoedStays ==
  ASSUME bank \in BankCases, NEW t, NEW asked, NEW attempts, AttemptsAreSound(attempts, t, asked),
         NEW subjects, subjects = Subjects(attempts), NEW first, DOMAIN first = DOMAIN subjects,
         NEW i \in DOMAIN subjects, Settled(subjects[i], first[i]).admitted,
         NEW second, NEW result,
         \A m \in DOMAIN second : \E j \in DOMAIN subjects :
            j \in Vetoed(first) /\ second[m].node = subjects[j].node
  PROVE  Earned(subjects[i], Heard(subjects, first) \cup Heard(second, result))
<1>1. Earned(subjects[i], Heard(subjects, first))
  BY FirstIsEarned
<1>2. first[i] # "vetoed"
  BY DEF Settled
<1>3. \A j \in DOMAIN subjects : subjects[j].node = subjects[i].node => j = i
  BY SubjectsFacts
<1>4. \A h \in Heard(second, result) : \E m \in DOMAIN second : h = <<second[m], result[m]>>
  BY DEF Heard
<1>5. \A h \in Heard(second, result) : h[1].node # subjects[i].node
  BY <1>2, <1>3, <1>4 DEF Vetoed
<1>6. <<subjects[i], "vetoed">> \notin Heard(second, result)
  BY <1>5
<1> QED
  BY <1>1, <1>5, <1>6 DEF Earned

\* A regenerated subject that its second judgment admits was never vetoed, and
\* the draft it replaces was.
LEMMA SecondIsEarned ==
  ASSUME bank \in BankCases, NEW t, NEW asked, NEW attempts, AttemptsAreSound(attempts, t, asked),
         NEW subjects, subjects = Subjects(attempts), NEW first, DOMAIN first = DOMAIN subjects,
         NEW R, NEW again, again = Again(R), NEW second, RetriesMatch(first, R, again, second),
         Redrafted(R, subjects, t),
         NEW result, NEW k \in again,
         Settled(second[Rank(k, again)], result[Rank(k, again)]).admitted
  PROVE  Earned(R[k].subject, Heard(subjects, first) \cup Heard(second, result))
<1> DEFINE at == Rank(k, again)
           i == R[k].index
           item == R[k].subject
<1>1. /\ \A j \in DOMAIN subjects : subjects[j].draft = 1
      /\ \A j, m \in DOMAIN subjects : subjects[j].node = subjects[m].node => j = m
  <2>1. \A j \in DOMAIN subjects : subjects[j] = Subject(subjects[j].node, t, 1, subjects[j].rung)
    BY SubjectsFacts
  <2>2. \A s, node, rung : s = Subject(node, t, 1, rung) => s.draft = 1
    BY DEF Subject
  <2> QED
    BY <2>1, <2>2, SubjectsFacts
<1>2. /\ \A j \in DOMAIN R : R[j].index \in Vetoed(first)
      /\ \A j, m \in DOMAIN R : R[j].index = R[m].index => j = m
      /\ \A j \in again : Rank(j, again) \in DOMAIN second /\ second[Rank(j, again)] = R[j].subject
      /\ \A m \in DOMAIN second : \E j \in again : m = Rank(j, again)
  BY DEF RetriesMatch
<1>3. \A j \in again : j \in DOMAIN R
  BY DEF Again
<1>4. i \in DOMAIN subjects /\ first[i] = "vetoed"
  BY <1>2, <1>3 DEF Vetoed
<1>5. \A j \in DOMAIN R : /\ R[j].subject.node = subjects[R[j].index].node
                          /\ R[j].subject.draft = 2
  <2>1. \A s, node, rung : s = Subject(node, t, 2, rung) => s.node = node /\ s.draft = 2
    BY DEF Subject
  <2> QED
    BY <2>1 DEF Redrafted
<1>6. at \in DOMAIN second /\ second[at] = item
  BY <1>2
<1>7. result[at] = "clear" \/ (result[at] = "unavailable" /\ PassesUnjudged(item))
  BY <1>6 DEF Settled
<1>8. \A h \in Heard(subjects, first) : \E j \in DOMAIN subjects : h = <<subjects[j], first[j]>>
  BY DEF Heard
<1>9. \A h \in Heard(second, result) : \E j \in again : h = <<R[j].subject, result[Rank(j, again)]>>
  <2>1. \A h \in Heard(second, result) : \E m \in DOMAIN second : h = <<second[m], result[m]>>
    BY DEF Heard
  <2> QED
    BY <1>2, <2>1
<1>10. <<item, result[at]>> \in Heard(second, result)
  BY <1>6 DEF Heard
<1>11. \A j \in again : R[j].subject.node = item.node => j = k
  <2> SUFFICES ASSUME NEW j \in again, R[j].subject.node = item.node PROVE j = k
    OBVIOUS
  <2>1. R[j].index \in DOMAIN subjects /\ R[k].index \in DOMAIN subjects
    BY <1>2, <1>3 DEF Vetoed
  <2>2. subjects[R[j].index].node = subjects[R[k].index].node
    BY <1>3, <1>5
  <2>3. R[j].index = R[k].index
    BY <1>1, <2>1, <2>2
  <2> QED
    BY <1>2, <1>3, <2>3
<1>12. item.node = subjects[i].node /\ item.draft = 2
  BY <1>3, <1>5
<1> HIDE DEF at, i, item
<1>13. <<item, "vetoed">> \notin Heard(subjects, first)
  BY <1>1, <1>8, <1>12
<1>14. <<item, "vetoed">> \notin Heard(second, result)
  <2> SUFFICES ASSUME NEW j \in again, <<item, "vetoed">> = <<R[j].subject, result[Rank(j, again)]>>
               PROVE  FALSE
    BY <1>9
  <2>1. j = k
    BY <1>11
  <2> QED
    BY <1>7, <2>1 DEF at
<1>15. \A h \in Heard(subjects, first) : h[1].node = item.node => h[2] = "vetoed" /\ h[1].draft < item.draft
  <2> SUFFICES ASSUME NEW j \in DOMAIN subjects, subjects[j].node = item.node
               PROVE  first[j] = "vetoed" /\ subjects[j].draft < item.draft
    BY <1>8
  <2>1. j = i
    BY <1>1, <1>4, <1>12
  <2> QED
    BY <1>1, <1>4, <1>12, <2>1
<1>16. \A h \in Heard(second, result) : h[1].node = item.node => h[1] = item
  BY <1>9, <1>11 DEF item
<1>17. Earned(item, Heard(subjects, first) \cup Heard(second, result))
  BY <1>7, <1>10, <1>13, <1>14, <1>15, <1>16 DEF Earned
<1> QED
  BY <1>17 DEF item
\* After both judgments: what either of them admits has earned its place.
LEMMA VerdictsStand ==
  ASSUME bank \in BankCases, NEW t, NEW asked, NEW attempts, AttemptsAreSound(attempts, t, asked),
         NEW subjects, subjects = Subjects(attempts), NEW first, DOMAIN first = DOMAIN subjects,
         NEW R, NEW again, again = Again(R), NEW second, RetriesMatch(first, R, again, second),
         Redrafted(R, subjects, t),
         NEW result
  PROVE  /\ \A i \in DOMAIN subjects :
              Settled(subjects[i], first[i]).admitted =>
                Earned(subjects[i], Heard(subjects, first) \cup Heard(second, result))
         /\ \A k \in again :
              Settled(second[Rank(k, again)], result[Rank(k, again)]).admitted =>
                Earned(R[k].subject, Heard(subjects, first) \cup Heard(second, result))
<1>1. \A m \in DOMAIN second : \E j \in DOMAIN subjects :
        j \in Vetoed(first) /\ second[m].node = subjects[j].node
  <2> SUFFICES ASSUME NEW m \in DOMAIN second
               PROVE  \E j \in DOMAIN subjects : j \in Vetoed(first) /\ second[m].node = subjects[j].node
    OBVIOUS
  <2>1. PICK k \in again : second[m] = R[k].subject
    BY DEF RetriesMatch
  <2>2. k \in DOMAIN R
    BY DEF Again
  <2>3. R[k].index \in Vetoed(first)
    BY <2>2 DEF RetriesMatch
  <2>4. \A s, node, rung : s = Subject(node, t, 2, rung) => s.node = node
    BY DEF Subject
  <2>5. R[k].subject.node = subjects[R[k].index].node
    BY <2>2, <2>4 DEF Redrafted
  <2> QED
    BY <2>1, <2>3, <2>5 DEF Vetoed
<1>2. ASSUME NEW i \in DOMAIN subjects, Settled(subjects[i], first[i]).admitted
      PROVE  Earned(subjects[i], Heard(subjects, first) \cup Heard(second, result))
  BY <1>1, <1>2, UnvetoedStays
<1>3. ASSUME NEW k \in again, Settled(second[Rank(k, again)], result[Rank(k, again)]).admitted
      PROVE  Earned(R[k].subject, Heard(subjects, first) \cup Heard(second, result))
  BY <1>3, SecondIsEarned
<1> QED
  BY <1>2, <1>3

-----------------------------------------------------------------------------
(* The steps of a chain. *)

\* A chain after the fields it names are set.
After(chain, fields) == [f \in DOMAIN chain |-> IF f \in DOMAIN fields THEN fields[f] ELSE chain[f]]

\* A chain that goes on changes the fields it names and nothing else.
LEMMA AfterFacts ==
  ASSUME NEW chain, chain = [f \in ChainField |-> chain[f]], NEW fields
  PROVE  /\ After(chain, fields) = [f \in ChainField |-> After(chain, fields)[f]]
         /\ \A f \in ChainField : After(chain, fields)[f] = IF f \in DOMAIN fields THEN fields[f] ELSE chain[f]
<1>1. DOMAIN chain = ChainField
  OBVIOUS
<1>2. After(chain, fields) = [f \in ChainField |-> IF f \in DOMAIN fields THEN fields[f] ELSE chain[f]]
  BY <1>1 DEF After
<1> QED
  BY <1>2

\* Every node of the layer is drafted, rejected or not asked for.
LEMMA DraftIsSound ==
  ASSUME NEW t, NEW asked, NEW drafted, NEW attempts,
         attempts = [n \in Layer |->
           CASE n \notin asked -> Skipped
             [] n \in asked /\ drafted[n] = None -> [kind |-> "rejected"]
             [] OTHER -> [kind |-> "pending", subject |-> Subject(n, t, 1, drafted[n])]]
  PROVE  AttemptsAreSound(attempts, t, asked)
<1> SUFFICES ASSUME NEW n \in Layer
             PROVE  /\ attempts[n].kind = "skipped" <=> n \notin asked
                    /\ attempts[n].kind \in {"skipped", "rejected", "pending"}
                    /\ attempts[n].kind = "pending" =>
                         attempts[n].subject = Subject(n, t, 1, attempts[n].subject.rung)
  BY DEF AttemptsAreSound
<1>1. CASE n \notin asked
  <2>1. attempts[n] = Skipped
    BY <1>1
  <2> QED
    BY <1>1, <2>1 DEF Skipped
<1>2. CASE n \in asked /\ drafted[n] = None
  <2>1. attempts[n] = [kind |-> "rejected"]
    BY <1>2
  <2> QED
    BY <1>2, <2>1
<1>3. CASE n \in asked /\ drafted[n] # None
  <2>1. attempts[n] = [kind |-> "pending", subject |-> Subject(n, t, 1, drafted[n])]
    BY <1>3
  <2>2. Subject(n, t, 1, drafted[n]).rung = drafted[n]
    BY DEF Subject
  <2> QED
    BY <1>3, <2>1, <2>2
<1> QED
  BY <1>1, <1>2, <1>3

\* The outcomes of the first judgment, of subjects or of source candidates.
LEMMA FirstIsSound ==
  ASSUME bank \in BankCases, NEW t, NEW asked, NEW chain, AttemptsAreSound(chain.attempts, t, asked),
         FirstIsHeard(chain)
  PROVE  OutcomesAreSound(chain, t)
<1> DEFINE subjects == Subjects(chain.attempts)
           first == chain.first
<1>1. /\ DOMAIN first = DOMAIN subjects
      /\ chain.outcomes = [k \in DOMAIN subjects |-> Settled(subjects[k], first[k])]
      /\ chain.heard = Heard(subjects, first)
  BY DEF FirstIsHeard
<1>2. \A k \in DOMAIN subjects : subjects[k] = Subject(subjects[k].node, t, 1, subjects[k].rung)
  BY SubjectsFacts
<1>3. \A k \in DOMAIN subjects : Settled(subjects[k], first[k]).admitted => Earned(subjects[k], Heard(subjects, first))
  BY <1>1, FirstIsEarned
<1>4. \A s, r : Settled(s, r).item = s
  BY DEF Settled
<1>5. \A s, node, rung : s = Subject(node, t, 1, rung) => s.type = t
  BY DEF Subject
<1> HIDE DEF subjects, first
<1> QED
  BY <1>1, <1>2, <1>3, <1>4, <1>5 DEF OutcomesAreSound, subjects, first

\* What the second judgment leaves of the outcomes.
Rejudged(chain, again, second, result) ==
  LET entry(i) == CHOOSE k \in DOMAIN chain.regenerated : chain.regenerated[k].index = i
      retried == {chain.regenerated[k].index : k \in DOMAIN chain.regenerated}
  IN  [i \in DOMAIN chain.outcomes |->
        LET old == chain.outcomes[i]
            at == Rank(entry(i), again)
        IN  IF i \notin retried THEN old
            ELSE IF chain.regenerated[entry(i)].ok THEN Settled(second[at], result[at])
            ELSE [old EXCEPT !.admitted = FALSE]]

\* The outcomes after the second judgment, of regenerated subjects and of the
\* others.
LEMMA SecondIsSound ==
  ASSUME bank \in BankCases, NEW t, NEW asked, NEW chain, AttemptsAreSound(chain.attempts, t, asked),
         FirstIsHeard(chain), RegeneratedAreSound(chain, t),
         NEW again, again = Again(chain.regenerated),
         NEW second, second = [k \in 1 .. Cardinality(again) |-> chain.regenerated[Place(k, again)].subject],
         NEW result, NEW next, next.attempts = chain.attempts,
         next.outcomes = Rejudged(chain, again, second, result),
         next.heard = chain.heard \cup Heard(second, result)
  PROVE  OutcomesAreSound(next, t)
<1> DEFINE subjects == Subjects(chain.attempts)
           first == chain.first
           R == chain.regenerated
           entry(i) == CHOOSE k \in DOMAIN R : R[k].index = i
           heard == Heard(subjects, first) \cup Heard(second, result)
<1>1. /\ DOMAIN first = DOMAIN subjects
      /\ chain.outcomes = [k \in DOMAIN subjects |-> Settled(subjects[k], first[k])]
      /\ next.heard = heard
  BY DEF FirstIsHeard
<1>2. /\ \E N \in Nat : DOMAIN subjects = 1 .. N
      /\ \A k \in DOMAIN subjects : subjects[k] = Subject(subjects[k].node, t, 1, subjects[k].rung)
  BY SubjectsFacts
<1>3. /\ DOMAIN R = 1 .. Cardinality(Vetoed(first))
      /\ \A k \in DOMAIN R : /\ R[k].index = Place(k, Vetoed(first))
                             /\ R[k].subject = Subject(subjects[R[k].index].node, t, 2, R[k].subject.rung)
  BY DEF RegeneratedAreSound
<1>4. RetriesMatch(first, R, again, second)
  <2>1. PICK N \in Nat : DOMAIN first = 1 .. N
    BY <1>1, <1>2
  <2> HIDE DEF R, first
  <2> QED
    BY <1>3, <2>1, RetriesFacts DEF R
<1>5. \A s, r : Settled(s, r).item = s
  BY DEF Settled
<1>6. \A s, node, rung : s = Subject(node, t, 1, rung) => s.type = t
  BY DEF Subject
<1>7. \A s, node, rung : s = Subject(node, t, 2, rung) => s.type = t /\ s.node = node
  BY DEF Subject
<1>8. subjects = Subjects(chain.attempts) /\ again = Again(R)
  OBVIOUS
<1>9. /\ \A i \in DOMAIN subjects :
           Settled(subjects[i], first[i]).admitted => Earned(subjects[i], heard)
      /\ \A k \in again :
           Settled(second[Rank(k, again)], result[Rank(k, again)]).admitted => Earned(R[k].subject, heard)
  <2>1. Redrafted(R, subjects, t)
    BY <1>3 DEF Redrafted
  <2> HIDE DEF subjects, first, R, heard
  <2> QED
    BY <1>1, <1>4, <1>8, <2>1, VerdictsStand DEF heard
<1>10. DOMAIN next.outcomes = DOMAIN subjects
  BY <1>1 DEF Rejudged
<1>11. ASSUME NEW i \in DOMAIN subjects
       PROVE  LET o == next.outcomes[i]
              IN  o.item.node = subjects[i].node /\ o.item.type = t /\ (o.admitted => Earned(o.item, heard))
  <2> DEFINE o == next.outcomes[i]
             old == Settled(subjects[i], first[i])
  <2>1. o = IF i \notin {R[k].index : k \in DOMAIN R} THEN old
            ELSE IF R[entry(i)].ok THEN Settled(second[Rank(entry(i), again)], result[Rank(entry(i), again)])
            ELSE [old EXCEPT !.admitted = FALSE]
    BY <1>1 DEF Rejudged
  <2>2. old.item = subjects[i] /\ subjects[i].type = t
    BY <1>2, <1>5, <1>6
  <2>3. CASE i \notin {R[k].index : k \in DOMAIN R}
    <3>1. o = old
      BY <2>1, <2>3
    <3>2. old.admitted => Earned(subjects[i], heard)
      BY <1>9
    <3> QED
      BY <2>2, <3>1, <3>2
  <2>4. CASE i \in {R[k].index : k \in DOMAIN R}
    <3> DEFINE k == entry(i)
               at == Rank(k, again)
    <3>1. k \in DOMAIN R /\ R[k].index = i
      BY <2>4
    <3>2. o = IF R[k].ok THEN Settled(second[at], result[at]) ELSE [old EXCEPT !.admitted = FALSE]
      BY <2>1, <2>4
    <3> HIDE DEF k
    <3>3. CASE R[k].ok
      <4>1. k \in again
        BY <3>1, <3>3 DEF Again
      <4>2. second[at] = R[k].subject
        BY <1>4, <4>1 DEF RetriesMatch
      <4>3. R[k].subject = Subject(subjects[i].node, t, 2, R[k].subject.rung)
        BY <1>3, <3>1
      <4>4. Settled(second[at], result[at]).admitted => Earned(R[k].subject, heard)
        BY <1>9, <4>1
      <4>5. o = Settled(R[k].subject, result[at])
        BY <3>2, <3>3, <4>2
      <4>6. o.item = R[k].subject
        BY <1>5, <4>5
      <4> QED
        BY <1>7, <4>2, <4>3, <4>4, <4>5, <4>6
    <3>4. CASE ~ R[k].ok
      <4>1. o = [old EXCEPT !.admitted = FALSE]
        BY <3>2, <3>4
      <4>2. o.item = subjects[i] /\ o.admitted = FALSE
        BY <4>1 DEF Settled
      <4> QED
        BY <2>2, <4>2
    <3> QED
      BY <3>3, <3>4
  <2> QED
    BY <2>3, <2>4
<1> QED
  BY <1>1, <1>10, <1>11 DEF OutcomesAreSound
-----------------------------------------------------------------------------
(* Each action of a chain keeps it sound. *)

\* The draft of a type's items keeps its chain sound.
LEMMA DraftItemsKeeps ==
  ASSUME bank \in BankCases, NEW g, NEW t, NEW asked, asked = {n \in Layer : t \in jobs[g].plan[n]},
         NEW chain, chain = Chain(g, t), ChainIsSound(chain, t, asked), DraftItems(g, t)
  PROVE  \E fields : SetChain(g, t, fields) /\ ChainIsSound(After(chain, fields), t, asked)
<1>1. PICK drafted : SetChain(g, t,
             [step |-> "judge",
              attempts |-> [n \in Layer |->
                CASE n \notin asked -> Skipped
                  [] n \in asked /\ drafted[n] = None -> [kind |-> "rejected"]
                  [] OTHER -> [kind |-> "pending",
                               subject |-> Subject(n, t, 1, drafted[n])]]])
  BY DEF DraftItems
<1> DEFINE attempts == [n \in Layer |->
                CASE n \notin asked -> Skipped
                  [] n \in asked /\ drafted[n] = None -> [kind |-> "rejected"]
                  [] OTHER -> [kind |-> "pending",
                               subject |-> Subject(n, t, 1, drafted[n])]]
           fields == [step |-> "judge", attempts |-> attempts]
           next == After(chain, fields)
<1>2. AttemptsAreSound(attempts, t, asked)
  BY DraftIsSound
<1>3. SetChain(g, t, fields)
  BY <1>1
<1> HIDE DEF attempts
<1>4. next = [f \in ChainField |-> next[f]] /\ next.step = "judge" /\ next.attempts = attempts
  BY AfterFacts DEF ChainIsSound, ChainField
<1> HIDE DEF next
<1>5. ChainIsSound(next, t, asked)
  BY <1>2, <1>4 DEF ChainIsSound
<1> QED
  BY <1>3, <1>5 DEF next

\* What a first judgment of all subjects leaves of a chain.
LEMMA JudgedIsSound ==
  ASSUME bank \in BankCases, NEW t, NEW asked, NEW chain, ChainIsSound(chain, t, asked),
         chain.step = "judge", NEW subjects, subjects = Subjects(chain.attempts),
         NEW first, DOMAIN first = DOMAIN subjects, NEW step \in {"done", "regenerate"},
         NEW fields,
         fields = [step |-> step, first |-> first,
                   outcomes |-> [i \in DOMAIN subjects |-> Settled(subjects[i], first[i])],
                   heard |-> Heard(subjects, first)]
  PROVE  ChainIsSound(After(chain, fields), t, asked)
<1> DEFINE next == After(chain, fields)
<1>1. /\ next = [f \in ChainField |-> next[f]]
      /\ next.step = step /\ next.attempts = chain.attempts /\ next.first = first
      /\ next.outcomes = [i \in DOMAIN subjects |-> Settled(subjects[i], first[i])]
      /\ next.heard = Heard(subjects, first)
  BY AfterFacts DEF ChainIsSound, ChainField
<1> HIDE DEF next
<1>2. AttemptsAreSound(next.attempts, t, asked)
  BY <1>1 DEF ChainIsSound
<1>3. FirstIsHeard(next)
  BY <1>1 DEF FirstIsHeard
<1>4. OutcomesAreSound(next, t)
  BY <1>2, <1>3, FirstIsSound
<1>5. ChainIsSound(next, t, asked)
  BY <1>1, <1>2, <1>3, <1>4 DEF ChainIsSound
<1> QED
  BY <1>5 DEF next

\* The first judgment and source admission keep a chain sound.
LEMMA JudgeItemsKeeps ==
  ASSUME bank \in BankCases, NEW g, NEW t, NEW asked,
         NEW chain, chain = Chain(g, t), ChainIsSound(chain, t, asked), JudgeItems(g, t) \/ AdmitItems(g, t)
  PROVE  \E fields : SetChain(g, t, fields) /\ ChainIsSound(After(chain, fields), t, asked)
<1> DEFINE subjects == Subjects(chain.attempts)
           fields(step, first) == [step |-> step, first |-> first,
                   outcomes |-> [i \in DOMAIN subjects |-> Settled(subjects[i], first[i])],
                   heard |-> Heard(subjects, first)]
<1>1. chain.step = "judge"
  BY DEF JudgeItems, AdmitItems, Working
<1>2. \E step \in {"done", "regenerate"} : \E first : DOMAIN first = DOMAIN subjects /\ SetChain(g, t, fields(step, first))
  <2>1. CASE JudgeItems(g, t)
    <3>1. PICK first \in [DOMAIN subjects -> bank.verdicts] :
            SetChain(g, t, fields(IF Vetoed(first) = {} THEN "done" ELSE "regenerate", first))
      BY <2>1 DEF JudgeItems
    <3> QED
      BY <3>1
  <2>2. CASE AdmitItems(g, t)
    <3>1. PICK first \in [DOMAIN subjects -> {"clear", "vetoed"}] : SetChain(g, t, fields("done", first))
      BY <2>2 DEF AdmitItems
    <3> QED
      BY <3>1
  <2> QED
    BY <2>1, <2>2
<1>3. PICK step \in {"done", "regenerate"} :
        \E first : DOMAIN first = DOMAIN subjects /\ SetChain(g, t, fields(step, first))
  BY <1>2
<1>4. PICK first : DOMAIN first = DOMAIN subjects /\ SetChain(g, t, fields(step, first))
  BY <1>3
<1>5. ChainIsSound(After(chain, fields(step, first)), t, asked)
  BY <1>1, <1>4, JudgedIsSound
<1> QED
  BY <1>4, <1>5

\* The regeneration of the vetoed subjects keeps a chain sound.
LEMMA RegenerateKeeps ==
  ASSUME bank \in BankCases, NEW g, NEW t, NEW asked,
         NEW chain, chain = Chain(g, t), ChainIsSound(chain, t, asked), Regenerate(g, t)
  PROVE  \E fields : SetChain(g, t, fields) /\ ChainIsSound(After(chain, fields), t, asked)
<1> DEFINE subjects == Subjects(chain.attempts)
           retry == Vetoed(chain.first)
<1>1. chain.step = "regenerate"
  BY DEF Regenerate, Working
<1>2. PICK drafted : SetChain(g, t,
             [step |-> "rejudge",
              regenerated |-> [k \in 1 .. Cardinality(retry) |->
                LET i == Place(k, retry)
                IN  [index |-> i, ok |-> drafted[k] # None,
                     subject |-> Subject(subjects[i].node, t, 2, drafted[k])]]])
  BY DEF Regenerate
<1> DEFINE R == [k \in 1 .. Cardinality(retry) |->
                  [index |-> Place(k, retry), ok |-> drafted[k] # None,
                   subject |-> Subject(subjects[Place(k, retry)].node, t, 2, drafted[k])]]
           fields == [step |-> "rejudge", regenerated |-> R]
           next == After(chain, fields)
<1>3. SetChain(g, t, fields)
  BY <1>2
<1>4. DOMAIN R = 1 .. Cardinality(retry)
  OBVIOUS
<1>5. ASSUME NEW k \in 1 .. Cardinality(retry)
      PROVE  /\ R[k].index = Place(k, retry) /\ R[k].ok \in BOOLEAN
             /\ R[k].subject = Subject(subjects[R[k].index].node, t, 2, R[k].subject.rung)
  <2>1. /\ R[k].index = Place(k, retry) /\ R[k].ok = (drafted[k] # None)
        /\ R[k].subject = Subject(subjects[Place(k, retry)].node, t, 2, drafted[k])
    OBVIOUS
  <2>2. \A node, rung : Subject(node, t, 2, rung).rung = rung
    BY DEF Subject
  <2> HIDE DEF R
  <2> QED
    BY <2>1, <2>2
<1> HIDE DEF R
<1>6. /\ next = [f \in ChainField |-> next[f]]
      /\ next.step = "rejudge" /\ next.attempts = chain.attempts /\ next.first = chain.first
      /\ next.outcomes = chain.outcomes /\ next.heard = chain.heard /\ next.regenerated = R
  BY AfterFacts DEF ChainIsSound, ChainField
<1> HIDE DEF next
<1>7. AttemptsAreSound(next.attempts, t, asked) /\ FirstIsHeard(next)
  BY <1>1, <1>6 DEF ChainIsSound, FirstIsHeard
<1>8. RegeneratedAreSound(next, t)
  BY <1>4, <1>5, <1>6 DEF RegeneratedAreSound
<1>9. ChainIsSound(next, t, asked)
  BY <1>6, <1>7, <1>8 DEF ChainIsSound
<1> QED
  BY <1>3, <1>9 DEF next

\* The second judgment keeps a chain sound.
LEMMA RejudgeItemsKeeps ==
  ASSUME bank \in BankCases, NEW g, NEW t, NEW asked,
         NEW chain, chain = Chain(g, t), ChainIsSound(chain, t, asked), RejudgeItems(g, t)
  PROVE  \E fields : SetChain(g, t, fields) /\ ChainIsSound(After(chain, fields), t, asked)
<1> DEFINE again == Again(chain.regenerated)
           second == [k \in 1 .. Cardinality(again) |-> chain.regenerated[Place(k, again)].subject]
<1>1. chain.step = "rejudge"
  BY DEF RejudgeItems, Working
<1>2. PICK result : SetChain(g, t, [step |-> "done", outcomes |-> Rejudged(chain, again, second, result),
                                    heard |-> chain.heard \cup Heard(second, result)])
  <2> DEFINE again2 == Again(Chain(g, t).regenerated)
             second2 == [k \in 1 .. Cardinality(again2) |-> Chain(g, t).regenerated[Place(k, again2)].subject]
  <2>1. \E result : SetChain(g, t, [step |-> "done", outcomes |-> Rejudged(Chain(g, t), again2, second2, result),
                                     heard |-> Chain(g, t).heard \cup Heard(second2, result)])
    BY DEF RejudgeItems, Rejudged
  <2> QED
    BY <2>1
<1> DEFINE outcomes == Rejudged(chain, again, second, result)
           heard == chain.heard \cup Heard(second, result)
           fields == [step |-> "done", outcomes |-> outcomes, heard |-> heard]
           next == After(chain, fields)
<1>3. SetChain(g, t, fields)
  BY <1>2
<1> HIDE DEF outcomes, heard
<1>4. /\ next = [f \in ChainField |-> next[f]]
      /\ next.step = "done" /\ next.attempts = chain.attempts
      /\ next.outcomes = outcomes /\ next.heard = heard
  BY AfterFacts DEF ChainIsSound, ChainField
<1> HIDE DEF next
<1>5. AttemptsAreSound(chain.attempts, t, asked) /\ FirstIsHeard(chain) /\ RegeneratedAreSound(chain, t)
  BY <1>1 DEF ChainIsSound
<1>6. OutcomesAreSound(next, t)
  BY <1>4, <1>5, SecondIsSound DEF outcomes, heard
<1>7. ChainIsSound(next, t, asked)
  BY <1>4, <1>5, <1>6 DEF ChainIsSound
<1> QED
  BY <1>3, <1>7 DEF next

-----------------------------------------------------------------------------
(* What a generation holds on its way to its two persists. *)

\* Before the first persist, a node has a lesson or an absence.
LessonsAreSplit(job) ==
  /\ DOMAIN job.lessons \cup job.absent = Layer
  /\ DOMAIN job.lessons \cap job.absent = {}

\* The nodes the blueprint asks an item of this type of.
AskedOf(job, t) == {n \in Layer : t \in job.plan[n]}

\* What is not asked for is rejected, and items are asked for beside lessons.
PlanIsSound(job) ==
  /\ job.rejected = {key \in Layer \X bank.types : key[2] \notin job.plan[key[1]]}
  /\ \A n \in Layer : job.plan[n] # {} => n \in DOMAIN job.lessons

\* Every type has its chain.
ChainsAreSound(job) ==
  /\ job.chains = [t \in bank.types |-> job.chains[t]]
  /\ \A t \in bank.types : ChainIsSound(job.chains[t], t, AskedOf(job, t))

\* Before the second persist: the two properties, for one generation.
ItemsAreSound(job) ==
  LET keys == Layer \X bank.types
      made == {<<i.node, i.type>> : i \in job.items}
  IN  /\ made \cup job.rejected = keys
      /\ made \cap job.rejected = {}
      /\ Cardinality(made) = Cardinality(job.items)
      /\ \A i \in job.items : /\ i.node \in DOMAIN job.lessons
                              /\ Earned(i, job.chains[i.type].heard)

JobIsSound(job) ==
  /\ job.at \in {"admission", "save lessons"} => LessonsAreSplit(job)
  /\ job.at = "items" => PlanIsSound(job) /\ ChainsAreSound(job)
  /\ job.at = "save items" => ItemsAreSound(job)

JobsAreSound ==
  /\ bank \in BankCases
  /\ \A g \in DOMAIN jobs : JobIsSound(jobs[g])

\* What the record of a generation promises depends on the case alone.
LEMMA SoundCarries ==
  ASSUME bank' = bank, NEW h \in DOMAIN jobs', JobIsSound(jobs'[h])
  PROVE  JobIsSound(jobs[h])'
<1>1. Layer' = Layer
  BY DEF Layer
<1>2. LessonsAreSplit(jobs'[h]) => LessonsAreSplit(jobs[h])'
  BY <1>1 DEF LessonsAreSplit
<1>3. PlanIsSound(jobs'[h]) => PlanIsSound(jobs[h])'
  BY <1>1 DEF PlanIsSound
<1>4. ChainsAreSound(jobs'[h]) => ChainsAreSound(jobs[h])'
  BY <1>1 DEF ChainsAreSound, AskedOf, ChainIsSound, AttemptsAreSound
<1>5. ItemsAreSound(jobs'[h]) => ItemsAreSound(jobs[h])'
  BY <1>1 DEF ItemsAreSound
<1> QED
  BY <1>2, <1>3, <1>4, <1>5 DEF JobIsSound

\* A generation that goes on and stays sound leaves the others as they are.
LEMMA OneGoesOn ==
  ASSUME JobsAreRecords, JobsAreSound, bank' = bank, NEW g \in DOMAIN jobs, NEW fields,
         Proceed(g, fields), JobIsSound(jobs'[g])
  PROVE  JobsAreSound'
<1>1. DOMAIN jobs' = DOMAIN jobs /\ \A h \in DOMAIN jobs : h # g => jobs'[h] = jobs[h]
  BY GoesOn
<1>2. \A h \in DOMAIN jobs' : JobIsSound(jobs'[h])
  BY <1>1 DEF JobsAreSound
<1>3. \A h \in DOMAIN jobs' : JobIsSound(jobs[h])'
  BY <1>2, SoundCarries
<1> QED
  BY <1>3 DEF JobsAreSound

\* Where nothing is promised, nothing can be wrong.
LEMMA NothingPromised ==
  ASSUME NEW job, job.at \notin {"admission", "save lessons", "items", "save items"}
  PROVE  JobIsSound(job)
BY DEF JobIsSound

\* The stages at which a generation holds nothing the properties speak of.
Unpromising == {"sweep lessons", "sweep items", "write lessons", "write items", "plan", "done", "failed"}

\* Drafted or settled, a node has a lesson or a stated absence.
LEMMA LessonsAreSound ==
  ASSUME JobsAreRecords, JobsAreSound, NEW g \in DOMAIN jobs, GenerateLessons(g) \/ AdmitLessons(g)
  PROVE  JobsAreSound'
<1>1. \E at \in {"admission", "save lessons"} : \E lessons, absent :
        /\ Proceed(g, [at |-> at, lessons |-> lessons, absent |-> absent])
        /\ DOMAIN lessons \cup absent = Layer /\ DOMAIN lessons \cap absent = {}
  <2>1. CASE GenerateLessons(g)
    <3>1. PICK draft, fallback :
            LET candidate == [n \in Layer |-> Assembled(draft[n], n \in fallback)]
                made == {n \in Layer : candidate[n].by # None}
            IN  Proceed(g, [at |-> IF bank.sourced THEN "admission" ELSE "save lessons",
                            lessons |-> [n \in made |-> candidate[n]],
                            absent |-> Layer \ made])
      BY <2>1 DEF GenerateLessons
    <3> DEFINE candidate == [n \in Layer |-> Assembled(draft[n], n \in fallback)]
               made == {n \in Layer : candidate[n].by # None}
               lessons == [n \in made |-> candidate[n]]
    <3>2. made \subseteq Layer /\ DOMAIN lessons = made
      OBVIOUS
    <3>3. Proceed(g, [at |-> IF bank.sourced THEN "admission" ELSE "save lessons",
                      lessons |-> lessons, absent |-> Layer \ made])
      BY <3>1
    <3> HIDE DEF lessons, made
    <3>4. DOMAIN lessons \cup (Layer \ made) = Layer /\ DOMAIN lessons \cap (Layer \ made) = {}
      BY <3>2
    <3> QED
      BY <3>3, <3>4
  <2>2. CASE AdmitLessons(g)
    <3> DEFINE held == jobs[g].lessons
    <3>1. PICK refused \in SUBSET DOMAIN held :
          \E second \in SUBSET {n \in refused : held[n].by = "cited"} :
          \E kept \in SUBSET second :
            LET settled == (DOMAIN held \ refused) \cup kept
            IN  Proceed(g, [at |-> "save lessons",
                            lessons |-> [n \in settled |-> IF n \in kept THEN Extract ELSE held[n]],
                            absent |-> ((jobs[g].absent \cup refused) \ second) \cup (second \ kept)])
      BY <2>2 DEF AdmitLessons
    <3>2. PICK second \in SUBSET {n \in refused : held[n].by = "cited"} :
          \E kept \in SUBSET second :
            LET settled == (DOMAIN held \ refused) \cup kept
            IN  Proceed(g, [at |-> "save lessons",
                            lessons |-> [n \in settled |-> IF n \in kept THEN Extract ELSE held[n]],
                            absent |-> ((jobs[g].absent \cup refused) \ second) \cup (second \ kept)])
      BY <3>1
    <3>3. PICK kept \in SUBSET second :
            LET settled == (DOMAIN held \ refused) \cup kept
            IN  Proceed(g, [at |-> "save lessons",
                            lessons |-> [n \in settled |-> IF n \in kept THEN Extract ELSE held[n]],
                            absent |-> ((jobs[g].absent \cup refused) \ second) \cup (second \ kept)])
      BY <3>2
    <3> DEFINE settled == (DOMAIN held \ refused) \cup kept
               lessons == [n \in settled |-> IF n \in kept THEN Extract ELSE held[n]]
               absent == ((jobs[g].absent \cup refused) \ second) \cup (second \ kept)
    <3>4. DOMAIN lessons = settled
      OBVIOUS
    <3>5. Proceed(g, [at |-> "save lessons", lessons |-> lessons, absent |-> absent])
      BY <3>3
    <3>6. DOMAIN held \cup jobs[g].absent = Layer /\ DOMAIN held \cap jobs[g].absent = {}
      BY <2>2 DEF AdmitLessons, JobsAreSound, JobIsSound, LessonsAreSplit
    <3> HIDE DEF held, lessons
    <3>7. DOMAIN lessons \cup absent = Layer
      BY <3>4, <3>6
    <3>8. DOMAIN lessons \cap absent = {}
      BY <3>4, <3>6
    <3> HIDE DEF absent
    <3> QED
      BY <3>5, <3>7, <3>8
  <2> QED
    BY <2>1, <2>2
<1>2. PICK at \in {"admission", "save lessons"} : \E lessons, absent :
        /\ Proceed(g, [at |-> at, lessons |-> lessons, absent |-> absent])
        /\ DOMAIN lessons \cup absent = Layer /\ DOMAIN lessons \cap absent = {}
  BY <1>1
<1>3. PICK lessons, absent :
        /\ Proceed(g, [at |-> at, lessons |-> lessons, absent |-> absent])
        /\ DOMAIN lessons \cup absent = Layer /\ DOMAIN lessons \cap absent = {}
  BY <1>2
<1>4. jobs'[g].at = at /\ jobs'[g].lessons = lessons /\ jobs'[g].absent = absent
  <2> DEFINE fields == [at |-> at, lessons |-> lessons, absent |-> absent]
  <2>1. \A f \in Field : jobs'[g][f] = IF f \in DOMAIN fields THEN fields[f] ELSE jobs[g][f]
    BY <1>3, GoesOn
  <2> QED
    BY <2>1 DEF Field
<1>5. JobIsSound(jobs'[g])
  BY <1>3, <1>4 DEF JobIsSound, LessonsAreSplit
<1>6. bank' = bank
  BY DEF GenerateLessons, AdmitLessons
<1> QED
  BY <1>3, <1>5, <1>6, OneGoesOn
\* The blueprint rejects what it does not ask for, and asks for items only
\* where there is a lesson.
LEMMA PlanItemsIsSound ==
  ASSUME JobsAreRecords, JobsAreSound, NEW g \in DOMAIN jobs, PlanItems(g)
  PROVE  JobsAreSound'
<1> DEFINE Plan(declined) ==
             [n \in Layer |-> {t \in Allowed(jobs[g].lessons, n) : <<n, t>> \notin declined}]
           Unasked(plan) == {key \in Layer \X bank.types : key[2] \notin plan[key[1]]}
           chain0 == [step |-> "draft", attempts |-> <<>>, first |-> <<>>,
                      regenerated |-> <<>>, outcomes |-> <<>>, heard |-> {}]
           chains == [t \in bank.types |-> chain0]
<1>1. PICK declined :
        Proceed(g, [at |-> "items", plan |-> Plan(declined), rejected |-> Unasked(Plan(declined)), chains |-> chains])
  BY DEF PlanItems
<1> DEFINE plan == Plan(declined)
           unasked == Unasked(plan)
           fields == [at |-> "items", plan |-> plan, rejected |-> unasked, chains |-> chains]
<1>2. \A n \in Layer : plan[n] # {} => n \in DOMAIN jobs[g].lessons
  <2>1. \A n \in Layer : \A t \in Allowed(jobs[g].lessons, n) : n \in DOMAIN jobs[g].lessons
    BY DEF Allowed
  <2>2. \A n \in Layer : plan[n] \subseteq Allowed(jobs[g].lessons, n)
    OBVIOUS
  <2> HIDE DEF plan
  <2> QED
    BY <2>1, <2>2
<1>3. unasked = {key \in Layer \X bank.types : key[2] \notin plan[key[1]]}
  OBVIOUS
<1>4. chains = [t \in bank.types |-> chains[t]] /\ \A t \in bank.types : chains[t] = chain0
  OBVIOUS
<1>5. chain0 = [f \in ChainField |-> chain0[f]] /\ chain0.step = "draft"
  BY DEF ChainField
<1>6. Proceed(g, fields)
  BY <1>1
<1> HIDE DEF chain0, chains, plan, unasked
<1>7. jobs'[g].at = "items" /\ jobs'[g].plan = plan /\ jobs'[g].rejected = unasked
      /\ jobs'[g].chains = chains /\ jobs'[g].lessons = jobs[g].lessons
  <2>1. \A f \in Field : jobs'[g][f] = IF f \in DOMAIN fields THEN fields[f] ELSE jobs[g][f]
    BY <1>6, GoesOn
  <2> QED
    BY <2>1 DEF Field
<1>8. PlanIsSound(jobs'[g])
  BY <1>2, <1>3, <1>7 DEF PlanIsSound
<1>9. \A t \in bank.types : ChainIsSound(chains[t], t, AskedOf(jobs'[g], t))
  BY <1>4, <1>5 DEF ChainIsSound
<1>10. ChainsAreSound(jobs'[g])
  BY <1>4, <1>7, <1>9 DEF ChainsAreSound
<1>11. JobIsSound(jobs'[g])
  BY <1>7, <1>8, <1>10 DEF JobIsSound
<1>12. bank' = bank
  BY DEF PlanItems
<1> QED
  BY <1>6, <1>11, <1>12, OneGoesOn

\* A step of one chain leaves the plan and the other chains as they are.
LEMMA ChainsGoOn ==
  ASSUME JobsAreRecords, JobsAreSound, NEW g \in DOMAIN jobs, NEW t \in bank.types,
         \/ DraftItems(g, t) \/ JudgeItems(g, t) \/ AdmitItems(g, t)
         \/ Regenerate(g, t) \/ RejudgeItems(g, t)
  PROVE  JobsAreSound'
<1> DEFINE job == jobs[g]
           chain == Chain(g, t)
           asked == AskedOf(job, t)
<1>1. bank \in BankCases /\ bank' = bank /\ job.at = "items"
  BY DEF JobsAreSound, DraftItems, JudgeItems, AdmitItems, Regenerate, RejudgeItems, Working
<1>2. PlanIsSound(job) /\ ChainsAreSound(job)
  BY <1>1 DEF JobsAreSound, JobIsSound
<1>3. chain = job.chains[t] /\ ChainIsSound(chain, t, asked) /\ asked = {n \in Layer : t \in job.plan[n]}
  BY <1>2 DEF ChainsAreSound, Chain, AskedOf
<1>4. \E fields : SetChain(g, t, fields) /\ ChainIsSound(After(chain, fields), t, asked)
  <2> HIDE DEF asked
  <2>1. CASE DraftItems(g, t)
    BY <1>1, <1>3, <2>1, DraftItemsKeeps
  <2>2. CASE JudgeItems(g, t) \/ AdmitItems(g, t)
    BY <1>1, <1>3, <2>2, JudgeItemsKeeps
  <2>3. CASE Regenerate(g, t)
    BY <1>1, <1>3, <2>3, RegenerateKeeps
  <2>4. CASE RejudgeItems(g, t)
    BY <1>1, <1>3, <2>4, RejudgeItemsKeeps
  <2> QED
    BY <2>1, <2>2, <2>3, <2>4
<1>5. PICK fields : SetChain(g, t, fields) /\ ChainIsSound(After(chain, fields), t, asked)
  BY <1>4
<1> DEFINE chains == [job.chains EXCEPT ![t] = After(chain, fields)]
           named == [chains |-> chains]
<1>6. Proceed(g, named)
  BY <1>3, <1>5 DEF SetChain, After
<1>7. /\ chains = [u \in bank.types |-> chains[u]] /\ chains[t] = After(chain, fields)
      /\ \A u \in bank.types : u # t => chains[u] = job.chains[u]
  BY <1>2 DEF ChainsAreSound
<1> HIDE DEF chains
<1>8. /\ jobs'[g].at = "items" /\ jobs'[g].plan = job.plan /\ jobs'[g].rejected = job.rejected
      /\ jobs'[g].lessons = job.lessons /\ jobs'[g].chains = chains
  <2>1. \A f \in Field : jobs'[g][f] = IF f \in DOMAIN named THEN named[f] ELSE jobs[g][f]
    BY <1>6, GoesOn
  <2> QED
    BY <1>1, <2>1 DEF Field
<1>9. \A u : AskedOf(jobs'[g], u) = AskedOf(job, u)
  BY <1>8 DEF AskedOf
<1>10. \A u \in bank.types : ChainIsSound(chains[u], u, AskedOf(job, u))
  BY <1>2, <1>5, <1>7 DEF ChainsAreSound
<1>11. PlanIsSound(jobs'[g])
  BY <1>2, <1>8 DEF PlanIsSound
<1>12. ChainsAreSound(jobs'[g])
  BY <1>7, <1>8, <1>9, <1>10 DEF ChainsAreSound
<1>13. JobIsSound(jobs'[g])
  BY <1>8, <1>11, <1>12 DEF JobIsSound
<1> QED
  BY <1>1, <1>6, <1>13, OneGoesOn
\* A finished chain has one outcome for every node it drafted an item of.
LEMMA OutcomeFacts ==
  ASSUME bank \in BankCases, NEW t, NEW asked, NEW chain, ChainIsSound(chain, t, asked), chain.step = "done",
         NEW n \in Layer, NEW o, o = OutcomeOf(chain, n), chain.attempts[n].kind = "pending"
  PROVE  /\ o.item.node = n /\ o.item.type = t
         /\ o.admitted => Earned(o.item, chain.heard)
<1> DEFINE subjects == Subjects(chain.attempts)
           k == Rank(n, Pending(chain.attempts))
<1>1. AttemptsAreSound(chain.attempts, t, asked) /\ OutcomesAreSound(chain, t)
  BY DEF ChainIsSound
<1>2. k \in DOMAIN subjects /\ subjects[k].node = n
  BY <1>1, SubjectsFacts
<1>3. o = chain.outcomes[k]
  BY DEF OutcomeOf
<1> HIDE DEF k
<1> QED
  BY <1>1, <1>2, <1>3 DEF OutcomesAreSound

\* Distinct keys that hold distinct items are as many as the items.
LEMMA AsManyItemsAsKeys ==
  ASSUME NEW kept, IsFiniteSet(kept), NEW item,
         \A key \in kept : key = <<item[key].node, item[key].type>>,
         NEW items, items = {item[key] : key \in kept}
  PROVE  /\ {<<i.node, i.type>> : i \in items} = kept
         /\ Cardinality(kept) = Cardinality(items)
<1> DEFINE f == [key \in kept |-> item[key]]
<1>1. {<<i.node, i.type>> : i \in items} = kept
  OBVIOUS
<1>2. f \in [kept -> items] /\ \A i \in items : \E key \in kept : f[key] = i
  OBVIOUS
<1>3. \A a, b \in kept : f[a] = f[b] => a = b
  OBVIOUS
<1> HIDE DEF f
<1>4. f \in Bijection(kept, items)
  BY <1>2, <1>3 DEF Bijection, Injection, Surjection, IsInjective
<1>5. Cardinality(items) = Cardinality(kept)
  BY <1>4, FS_Bijection DEF ExistsBijection
<1> QED
  BY <1>1, <1>5

\* A layer has finitely many nodes and types.
LEMMA KeysAreFinite ==
  ASSUME bank \in BankCases
  PROVE  IsFiniteSet(Layer \X bank.types)
<1>1. bank.types \subseteq {"option_select", "matching", "impostor"}
  BY CasesAreBanks
<1>2. IsFiniteSet({"option_select", "matching", "impostor"})
  <2>1. IsFiniteSet({}) 
    BY FS_EmptySet
  <2>2. IsFiniteSet({} \cup {"option_select"})
    BY <2>1, FS_AddElement
  <2>3. IsFiniteSet(({} \cup {"option_select"}) \cup {"matching"})
    BY <2>2, FS_AddElement
  <2>4. IsFiniteSet((({} \cup {"option_select"}) \cup {"matching"}) \cup {"impostor"})
    BY <2>3, FS_AddElement
  <2>5. {"option_select", "matching", "impostor"} = (({} \cup {"option_select"}) \cup {"matching"}) \cup {"impostor"}
    OBVIOUS
  <2> QED
    BY <2>4, <2>5
<1>3. IsFiniteSet(bank.types)
  BY <1>1, <1>2, FS_Subset
<1> QED
  BY <1>3, LayerFacts, FS_Product

\* Joined node by node, the chains and the blueprint account for every key.
LEMMA JoinIsSound ==
  ASSUME JobsAreRecords, JobsAreSound, NEW g \in DOMAIN jobs, JoinChains(g)
  PROVE  JobsAreSound'
<1> DEFINE job == jobs[g]
           keys == Layer \X bank.types
           Kind(n, t) == Chain(g, t).attempts[n].kind
           Refused(n, t) == \/ Kind(n, t) = "rejected"
                            \/ Kind(n, t) = "pending" /\ ~ OutcomeOf(Chain(g, t), n).admitted
           kept == {key \in keys :
                      Kind(key[1], key[2]) = "pending" /\ OutcomeOf(Chain(g, key[2]), key[1]).admitted}
           item == [key \in keys |-> OutcomeOf(Chain(g, key[2]), key[1]).item]
           items == {item[key] : key \in kept}
           refused == {key \in keys : Refused(key[1], key[2])}
           rejected == job.rejected \cup refused
           fields == [at |-> "save items", items |-> items, rejected |-> rejected]
<1>1. bank \in BankCases /\ bank' = bank /\ PlanIsSound(job) /\ ChainsAreSound(job)
  BY DEF JoinChains, JobsAreSound, JobIsSound
<1>2. \A t \in bank.types : Chain(g, t).step = "done" /\ ChainIsSound(Chain(g, t), t, AskedOf(job, t))
  BY <1>1 DEF JoinChains, ChainsAreSound, Chain
<1>3. {OutcomeOf(Chain(g, key[2]), key[1]).item : key \in kept} = items
  OBVIOUS
<1>4. Proceed(g, fields)
  BY <1>3 DEF JoinChains
<1>5. \A n \in Layer, t \in bank.types :
        /\ Kind(n, t) = "skipped" <=> n \notin AskedOf(job, t)
        /\ Kind(n, t) \in {"skipped", "rejected", "pending"}
  BY <1>2 DEF ChainIsSound, AttemptsAreSound
<1>6. ASSUME NEW key \in kept
      PROVE  /\ key = <<item[key].node, item[key].type>>
             /\ key[1] \in Layer /\ key[2] \in bank.types
             /\ Earned(item[key], Chain(g, key[2]).heard)
  <2> DEFINE n == key[1]
             t == key[2]
             o == OutcomeOf(Chain(g, t), n)
  <2>1. n \in Layer /\ t \in bank.types /\ key = <<n, t>>
    OBVIOUS
  <2>2. Chain(g, t).attempts[n].kind = "pending" /\ o.admitted
    OBVIOUS
  <2>3. o.item.node = n /\ o.item.type = t /\ Earned(o.item, Chain(g, t).heard)
    <3> HIDE DEF n, t
    <3> QED
      BY <1>1, <1>2, <2>1, <2>2, OutcomeFacts
  <2>4. item[key] = o.item
    OBVIOUS
  <2> QED
    BY <2>1, <2>3, <2>4
<1>7. \A key \in keys : /\ key \in job.rejected <=> Kind(key[1], key[2]) = "skipped"
                        /\ key \in refused <=> Refused(key[1], key[2])
                        /\ key \in kept <=> Kind(key[1], key[2]) = "pending" /\ ~ Refused(key[1], key[2])
  <2>1. \A key \in keys : key[1] \in Layer /\ key[2] \in bank.types
    OBVIOUS
  <2> QED
    BY <1>1, <1>5, <2>1 DEF PlanIsSound, AskedOf
<1>8. kept \subseteq keys /\ refused \subseteq keys /\ job.rejected \subseteq keys
  BY <1>1 DEF PlanIsSound
<1>9. kept \cup rejected = keys /\ kept \cap rejected = {}
  <2>1. \A key \in keys : Kind(key[1], key[2]) \in {"skipped", "rejected", "pending"}
    BY <1>5
  <2>2. \A key \in keys : key \in kept <=> ~ (key \in job.rejected \/ key \in refused)
    BY <1>7, <2>1
  <2> HIDE DEF kept, refused, keys
  <2> QED
    BY <1>8, <2>2
<1>10. /\ {<<i.node, i.type>> : i \in items} = kept
       /\ Cardinality(kept) = Cardinality(items)
  <2>1. IsFiniteSet(kept)
    BY <1>1, <1>8, KeysAreFinite, FS_Subset
  <2>2. \A key \in kept : key = <<item[key].node, item[key].type>>
    BY <1>6
  <2> HIDE DEF kept, item
  <2> QED
    BY <2>1, <2>2, AsManyItemsAsKeys
<1>11. \A key \in kept : key[1] \in DOMAIN job.lessons
  <2>1. \A key \in kept : key \in keys /\ key \notin job.rejected
    BY <1>7
  <2> HIDE DEF kept
  <2> QED
    BY <1>1, <2>1 DEF PlanIsSound
<1> HIDE DEF item, kept, rejected, refused
<1>12. \A i \in items : i.node \in DOMAIN job.lessons /\ Earned(i, Chain(g, i.type).heard)
  <2> SUFFICES ASSUME NEW key \in kept
               PROVE  item[key].node \in DOMAIN job.lessons /\ Earned(item[key], Chain(g, item[key].type).heard)
    OBVIOUS
  <2>1. key[1] = item[key].node /\ key[2] = item[key].type
    BY <1>6
  <2> QED
    BY <1>6, <1>11, <2>1
<1> HIDE DEF items
<1>13. /\ jobs'[g].at = "save items" /\ jobs'[g].lessons = job.lessons /\ jobs'[g].chains = job.chains
       /\ jobs'[g].items = items /\ jobs'[g].rejected = rejected
  <2>1. \A f \in Field : jobs'[g][f] = IF f \in DOMAIN fields THEN fields[f] ELSE jobs[g][f]
    BY <1>4, GoesOn
  <2> QED
    BY <2>1 DEF Field
<1>14. ItemsAreSound(jobs'[g])
  BY <1>9, <1>10, <1>12, <1>13 DEF ItemsAreSound, Chain
<1>15. JobIsSound(jobs'[g])
  BY <1>13, <1>14 DEF JobIsSound
<1> QED
  BY <1>1, <1>4, <1>15, OneGoesOn

\* The persists promise nothing more, nor does a generation that is given up.
LEMMA PersistIsSound ==
  ASSUME JobsAreRecords, JobsAreSound, NEW g \in DOMAIN jobs, Retire(g) \/ Sweep(g) \/ Write(g) \/ Abort(g)
  PROVE  JobsAreSound'
<1>1. bank' = bank
  BY DEF Retire, Sweep, Write, Abort
<1>2. \E fields : /\ Proceed(g, fields) /\ "at" \in DOMAIN fields
                  /\ fields["at"] \in Unpromising
  <2> DEFINE retired == [at |-> Stage(g, "sweep lessons", "sweep items"),
                         seen |-> {r \in rows : r.live /\ r.table = Table(g)}]
             swept == [at |-> Stage(g, "write lessons", "write items"),
                       seen |-> jobs[g].seen \cap rows,
                       swept |-> {r \in refusals : r.table = Table(g)}]
             written == [at |-> Stage(g, "plan", "done"), seen |-> {}, swept |-> {}]
             failed == [Idle EXCEPT !.at = "failed"]
  <2>1. "at" \in DOMAIN retired /\ retired["at"] \in Unpromising
    BY DEF Unpromising, Stage
  <2>2. "at" \in DOMAIN swept /\ swept["at"] \in Unpromising
    BY DEF Unpromising, Stage
  <2>3. "at" \in DOMAIN written /\ written["at"] \in Unpromising
    BY DEF Unpromising, Stage
  <2>4. "at" \in DOMAIN failed /\ failed["at"] \in Unpromising
    BY DEF Unpromising, Idle
  <2>5. /\ Retire(g) => Proceed(g, retired)
        /\ Sweep(g) => Proceed(g, swept)
        /\ Write(g) => Proceed(g, failed) \/ Proceed(g, written)
        /\ Abort(g) => Proceed(g, failed)
    BY DEF Retire, Sweep, Write, Abort
  <2> HIDE DEF retired, swept, written, failed
  <2> QED
    BY <2>1, <2>2, <2>3, <2>4, <2>5
<1>3. PICK fields : /\ Proceed(g, fields) /\ "at" \in DOMAIN fields
                    /\ fields["at"] \in Unpromising
  BY <1>2
<1>4. jobs'[g].at = fields["at"]
  <2>1. \A f \in Field : jobs'[g][f] = IF f \in DOMAIN fields THEN fields[f] ELSE jobs[g][f]
    BY <1>3, GoesOn
  <2> QED
    BY <1>3, <2>1 DEF Field
<1>5. JobIsSound(jobs'[g])
  BY <1>3, <1>4, NothingPromised DEF Unpromising
<1> QED
  BY <1>1, <1>3, <1>5, OneGoesOn

\* The invariant with what the generations hold.
LEMMA SoundStarts == BankInit => JobsAreSound
<1> SUFFICES ASSUME BankInit
             PROVE  JobsAreSound
  OBVIOUS
<1>1. \A g \in DOMAIN jobs : jobs[g] = Idle
  BY DEF BankInit
<1>2. Idle.at = "lessons"
  BY DEF Idle
<1> QED
  BY <1>1, <1>2, NothingPromised DEF BankInit, JobsAreSound

\* Every step of every generation keeps what the generations hold sound.
LEMMA SoundStep == BankInv /\ JobsAreSound /\ [BankNext]_bankVars => JobsAreSound'
<1> SUFFICES ASSUME BankInv, JobsAreSound, [BankNext]_bankVars
             PROVE  JobsAreSound'
  OBVIOUS
<1>1. JobsAreRecords
  BY DEF BankInv
<1>2. CASE UNCHANGED bankVars
  <2>1. bank' = bank /\ jobs' = jobs
    BY <1>2 DEF bankVars
  <2>2. \A g \in DOMAIN jobs' : JobIsSound(jobs'[g])
    BY <2>1 DEF JobsAreSound
  <2>3. \A g \in DOMAIN jobs' : JobIsSound(jobs[g])'
    BY <2>1, <2>2, SoundCarries
  <2> QED
    BY <2>1, <2>3 DEF JobsAreSound
<1>3. ASSUME NEW g \in DOMAIN jobs,
             \/ GenerateLessons(g) \/ AdmitLessons(g) \/ PlanItems(g) \/ JoinChains(g)
             \/ \E t \in bank.types :
                  \/ DraftItems(g, t) \/ JudgeItems(g, t) \/ AdmitItems(g, t)
                  \/ Regenerate(g, t) \/ RejudgeItems(g, t)
      PROVE  JobsAreSound'
  BY <1>1, <1>3, LessonsAreSound, PlanItemsIsSound, ChainsGoOn, JoinIsSound
<1>4. ASSUME NEW g \in DOMAIN jobs, Retire(g) \/ Sweep(g) \/ Write(g) \/ Abort(g)
      PROVE  JobsAreSound'
  BY <1>1, <1>4, PersistIsSound
<1> QED
  BY <1>2, <1>3, <1>4 DEF BankNext

\* Both invariants hold of every run of overlapping generations.
THEOREM SoundInvariant == BankSpec => [](BankInv /\ JobsAreSound)
BY BankStarts, BankStep, SoundStarts, SoundStep, PTL DEF BankSpec

\* Nothing falls between lessons and absences or between items and rejections,
\* for any layer, any types and any number of generations (generateStudyItemBank).
THEOREM NodesAreAccountedFor == BankSpec => []EveryNodeIsAccountedFor
<1>1. BankInv /\ JobsAreSound => EveryNodeIsAccountedFor
  BY DEF JobsAreSound, JobIsSound, LessonsAreSplit, ItemsAreSound, EveryNodeIsAccountedFor
<1> QED
  BY <1>1, SoundInvariant, PTL

\* An item enters the bank on the judgment of its own draft, never beside or
\* instead of one that was vetoed (judgeGuardedItems, the second judgment).
THEOREM ItemsAreEarned == BankSpec => []AdmittedOnItsOwnVerdict
<1>1. BankInv /\ JobsAreSound => AdmittedOnItsOwnVerdict
  BY DEF JobsAreSound, JobIsSound, ItemsAreSound, Earned, Chain, AdmittedOnItsOwnVerdict
<1> QED
  BY <1>1, SoundInvariant, PTL

(***************************************************************************)
(* An extraction run.                                                      *)
(***************************************************************************)

-----------------------------------------------------------------------------
(* The atoms of an admission. *)

IsCandidate(c) == c = [key |-> c.key, parent |-> c.parent, tier |-> c.tier]

\* Some proposal of the reply admits the key, on evidence.
Supported(key, reply) ==
  \E p \in Range(reply) : p.atomic = key /\ p.selected /\ p.verified /\ p.inDomain

Sound(c, reply) == IsCandidate(c) /\ (c.tier = "core" => Supported(c.key, reply))

\* A list of at least one, of sound candidates under k.
SoundUnder(list, k, reply) ==
  \E n \in Nat \ {0} :
    /\ DOMAIN list = 1 .. n /\ list = [m \in 1 .. n |-> list[m]]
    /\ \A m \in 1 .. n : Sound(list[m], reply) /\ list[m].parent = k

LEMMA CoreTier ==
  ASSUME NEW p, EffectiveTier(p) = "core"
  PROVE  p.selected /\ p.verified /\ p.inDomain
  BY DEF EffectiveTier, Eligible

LEMMA AtomsFacts ==
  ASSUME NEW k, NEW reply \in Admissions
  PROVE  SoundUnder(Atoms(k, reply), k, reply)
<1> DEFINE G == Group(k, reply)
           atoms == Atoms(k, reply)
<1>1. reply \in Seq(Range(reply))
  BY ExtractionAssumption
<1>2. Len(reply) \in Nat /\ DOMAIN reply = 1 .. Len(reply)
      /\ \A i \in DOMAIN reply : reply[i] \in Range(reply)
  BY <1>1
<1>3. G \in SUBSET Nat /\ IsFiniteSet(G) /\ G \in SUBSET DOMAIN reply
  <2>1. G \in SUBSET DOMAIN reply
    BY DEF Group
  <2>2. IsFiniteSet(1 .. Len(reply))
    BY <1>2, FS_Interval
  <2>3. G \in SUBSET (1 .. Len(reply)) /\ 1 .. Len(reply) \in SUBSET Nat
    BY <1>2, <2>1
  <2> QED
    BY <2>1, <2>2, <2>3, FS_Subset
<1>4. CASE G = {}
  <2> DEFINE c == [key |-> k, parent |-> k, tier |-> "reject"]
  <2>1. atoms = <<c>>
    BY <1>4 DEF Atoms
  <2>2. Sound(c, reply) /\ c.parent = k
    BY DEF Sound, IsCandidate
  <2> HIDE DEF c, atoms
  <2>3. DOMAIN atoms = 1 .. 1 /\ atoms = [m \in 1 .. 1 |-> atoms[m]] /\ \A m \in 1 .. 1 : atoms[m] = c
    BY <2>1
  <2>4. SoundUnder(atoms, k, reply)
    BY <2>2, <2>3 DEF SoundUnder
  <2> QED
    BY <2>4 DEF atoms
<1>5. CASE G # {}
  <2> DEFINE n == Cardinality(G)
             At(m) == reply[Place(m, G)]
             made == [m \in 1 .. n |-> [key |-> At(m).atomic, parent |-> k, tier |-> EffectiveTier(At(m))]]
  <2>1. atoms = made
    BY <1>5 DEF Atoms
  <2>2. n \in Nat \ {0}
    BY <1>3, <1>5, FS_CardinalityType, FS_EmptySet
  <2>3. ASSUME NEW m \in 1 .. n PROVE At(m) \in Range(reply)
    <3>1. Place(m, G) \in G
      BY <1>3, RankFacts
    <3> QED
      BY <1>2, <1>3, <3>1
  <2>4. ASSUME NEW m \in 1 .. n PROVE Sound(made[m], reply) /\ made[m].parent = k
    <3> DEFINE p == At(m)
    <3>1. p \in Range(reply)
      BY <2>3
    <3>2. made[m] = [key |-> p.atomic, parent |-> k, tier |-> EffectiveTier(p)]
      OBVIOUS
    <3> HIDE DEF p, made
    <3>3. IsCandidate(made[m]) /\ made[m].parent = k
      BY <3>2 DEF IsCandidate
    <3>4. ASSUME made[m].tier = "core" PROVE Supported(made[m].key, reply)
      <4>1. EffectiveTier(p) = "core" /\ made[m].key = p.atomic
        BY <3>2, <3>4
      <4>2. p.selected /\ p.verified /\ p.inDomain
        BY <4>1, CoreTier
      <4> QED
        BY <3>1, <4>1, <4>2 DEF Supported
    <3> QED
      BY <3>3, <3>4 DEF Sound
  <2>5. DOMAIN made = 1 .. n /\ made = [m \in 1 .. n |-> made[m]]
    OBVIOUS
  <2> HIDE DEF made, n
  <2>6. SoundUnder(made, k, reply)
    BY <2>2, <2>4, <2>5 DEF SoundUnder
  <2> QED
    BY <2>1, <2>6
<1> QED
  BY <1>4, <1>5

LEMMA AdmittedFacts ==
  ASSUME NEW keys \in Discoveries, NEW reply \in Admissions
  PROVE  /\ \A i \in DOMAIN AdmittedAtoms(keys, reply) : Sound(AdmittedAtoms(keys, reply)[i], reply)
         /\ \A k \in Range(keys) : \E i \in DOMAIN AdmittedAtoms(keys, reply) :
              AdmittedAtoms(keys, reply)[i].parent = k
<1> DEFINE S == UNION {Range(Atoms(k, reply)) : k \in Range(keys)}
           q == [i \in DOMAIN keys |-> Atoms(keys[i], reply)]
           all == FlattenSeq(q)
<1>1. keys \in Seq(Range(keys))
  BY ExtractionAssumption
<1>2. Len(keys) \in Nat /\ DOMAIN keys = 1 .. Len(keys) /\ \A i \in DOMAIN keys : keys[i] \in Range(keys)
  BY <1>1
<1>3. ASSUME NEW k \in Range(keys)
      PROVE  /\ Atoms(k, reply) \in Seq(S)
             /\ \A c \in Range(Atoms(k, reply)) : Sound(c, reply)
             /\ 1 \in 1 .. Len(Atoms(k, reply)) /\ Atoms(k, reply)[1].parent = k
  <2> DEFINE a == Atoms(k, reply)
  <2>1. PICK n \in Nat \ {0} :
          /\ DOMAIN a = 1 .. n /\ a = [m \in 1 .. n |-> a[m]]
          /\ \A m \in 1 .. n : Sound(a[m], reply) /\ a[m].parent = k
    BY AtomsFacts DEF SoundUnder
  <2>2. \A m \in 1 .. n : a[m] \in S
    BY <2>1 DEF Range
  <2>3. \A c \in Range(a) : Sound(c, reply)
    BY <2>1 DEF Range
  <2> HIDE DEF a, S
  <2>4. a \in Seq(S) /\ Len(a) = n
    BY <2>1, <2>2
  <2>5. 1 \in 1 .. n
    BY <2>1
  <2> QED
    BY <2>1, <2>3, <2>4, <2>5 DEF a
<1>4. \A c \in S : Sound(c, reply)
  BY <1>3
<1> HIDE DEF S
<1>5. q \in Seq(Seq(S)) /\ Len(q) = Len(keys) /\ \A i \in 1 .. Len(keys) : q[i] = Atoms(keys[i], reply)
  BY <1>2, <1>3
<1> HIDE DEF q
<1>6. all \in Seq(S) /\ \A i \in 1 .. Len(keys) : Among(q[i], all)
  BY <1>5, FlattenKeepsAll
<1>7. AdmittedAtoms(keys, reply) = all
  BY DEF AdmittedAtoms, q
<1> HIDE DEF all
<1>8. \A i \in DOMAIN all : Sound(all[i], reply)
  BY <1>4, <1>6
<1>9. ASSUME NEW k \in Range(keys) PROVE \E i \in DOMAIN all : all[i].parent = k
  <2>1. PICK i \in DOMAIN keys : keys[i] = k
    BY DEF Range
  <2>2. Among(Atoms(k, reply), all)
    BY <1>2, <1>5, <1>6, <2>1
  <2>3. PICK j \in 1 .. Len(all) : all[j] = Atoms(k, reply)[1]
    BY <1>3, <2>2 DEF Among
  <2>4. all[j].parent = k /\ j \in DOMAIN all
    BY <1>3, <1>6, <2>3
  <2> QED
    BY <2>4
<1> QED
  BY <1>7, <1>8, <1>9

-----------------------------------------------------------------------------
(* A run. *)

LabelsJudged == {"profiles", "assertions", "store", "stored"}

\* Nothing is judged or extracted before the labels are.
NothingYet ==
  /\ extraction = "admission" => discovered \in Discoveries
  /\ extraction \in {"discovery", "admission", "labels"} =>
       profiles = <<>> /\ answers = <<>> /\ vetoes = {}

\* What was discovered is decided on, and a core was selected on evidence.
CandidatesStand ==
  extraction \in LabelsJudged \cup {"labels"} =>
    /\ \A i \in DOMAIN candidates : Sound(candidates[i], proposals)
    /\ \A k \in Range(discovered) : \E i \in DOMAIN candidates : candidates[i].parent = k

LabelsStand == extraction \in LabelsJudged => \A i \in Cores : <<"label", i>> \notin vetoes

IsProfile(p) ==
  p = [definitions |-> p.definitions, mentions |-> p.mentions, assertions |-> p.assertions]

\* Until the definitions are judged a profile is what was found of its subject.
ProfilesAreFresh ==
  extraction = "profiles" =>
    /\ DOMAIN answers = DOMAIN profiles /\ DOMAIN profiles \subseteq AdmittedCandidates
    /\ \A i \in DOMAIN profiles : profiles[i] = Grounded(answers[i])
    /\ \A v \in vetoes : v[1] = "label"

Standing(i, p) == p \in Verbatim /\ \A v \in {"different", "hollow"} : <<v, i, p>> \notin vetoes

Evidence(profile) == profile.definitions \cup profile.mentions \cup UNION profile.assertions

\* Nothing found of i is lost but by a verdict that it is hollow.
ProfileStands(i) ==
  /\ {p \in Grounded(answers[i]).definitions : <<"hollow", i, p>> \notin vetoes} \subseteq Evidence(profiles[i])
  /\ Grounded(answers[i]).mentions \cup UNION Grounded(answers[i]).assertions \subseteq Evidence(profiles[i])

ProfilesStand ==
  extraction \in {"assertions", "store", "stored"} =>
    /\ \A i \in Cores : i \in DOMAIN profiles /\ \A p \in profiles[i].definitions : Standing(i, p)
    /\ \A i \in DOMAIN profiles : IsProfile(profiles[i]) /\ ProfileStands(i)
    /\ extraction # "stored" => DOMAIN profiles = AdmittedCandidates

StoredStands ==
  extraction = "stored" =>
    /\ \A i, j \in DOMAIN candidates : candidates[i].key = candidates[j].key => i = j
    /\ \A i \in Cores : profiles[i].definitions # {}

ExtractionInv ==
  NothingYet /\ CandidatesStand /\ LabelsStand /\ ProfilesAreFresh /\ ProfilesStand /\ StoredStands

LEMMA DemotedFacts ==
  ASSUME NEW some, candidates' = Demoted(some),
         \A i \in DOMAIN candidates : Sound(candidates[i], proposals)
  PROVE  /\ DOMAIN candidates' = DOMAIN candidates
         /\ \A i \in DOMAIN candidates :
              /\ Sound(candidates'[i], proposals)
              /\ candidates'[i].parent = candidates[i].parent /\ candidates'[i].key = candidates[i].key
         /\ Cores' = Cores \ some
         /\ some \subseteq AdmittedCandidates => AdmittedCandidates' = AdmittedCandidates
<1>1. DOMAIN candidates' = DOMAIN candidates
  BY DEF Demoted
<1>2. ASSUME NEW i \in DOMAIN candidates
      PROVE  /\ Sound(candidates'[i], proposals)
             /\ candidates'[i].parent = candidates[i].parent /\ candidates'[i].key = candidates[i].key
             /\ candidates'[i].tier = IF i \in some THEN "optional" ELSE candidates[i].tier
  <2> DEFINE c == candidates[i]
             d == candidates'[i]
  <2>1. c = [key |-> c.key, parent |-> c.parent, tier |-> c.tier]
        /\ (c.tier = "core" => Supported(c.key, proposals))
    BY DEF Sound, IsCandidate
  <2>2. d = IF i \in some THEN [c EXCEPT !.tier = "optional"] ELSE c
    BY DEF Demoted
  <2> HIDE DEF c, d
  <2>3. d = [key |-> c.key, parent |-> c.parent, tier |-> IF i \in some THEN "optional" ELSE c.tier]
    BY <2>1, <2>2
  <2>4. d.key = c.key /\ d.parent = c.parent /\ d.tier = IF i \in some THEN "optional" ELSE c.tier
    BY <2>3
  <2>5. Sound(d, proposals)
    BY <2>1, <2>3, <2>4 DEF Sound, IsCandidate
  <2> QED
    BY <2>4, <2>5 DEF c, d
<1>3. Cores' = Cores \ some
  BY <1>1, <1>2 DEF Cores
<1>4. some \subseteq AdmittedCandidates => AdmittedCandidates' = AdmittedCandidates
  BY <1>1, <1>2 DEF AdmittedCandidates
<1> QED
  BY <1>1, <1>2, <1>3, <1>4

LEMMA InitialRun == ExtractionInit => ExtractionInv
  BY DEF ExtractionInit, ExtractionInv, NothingYet, CandidatesStand, LabelsStand, ProfilesAreFresh,
         ProfilesStand, StoredStands, LabelsJudged

LEMMA DiscoverKeeps == ExtractionInv /\ Discover => ExtractionInv'
  BY DEF Discover, ExtractionInv, NothingYet, CandidatesStand, LabelsStand, ProfilesAreFresh,
         ProfilesStand, StoredStands, LabelsJudged

LEMMA AdmitKeeps == ExtractionInv /\ Admit => ExtractionInv'
<1> SUFFICES ASSUME ExtractionInv, Admit PROVE ExtractionInv'
  OBVIOUS
<1>1. /\ discovered \in Discoveries /\ proposals' \in Admissions /\ extraction' = "labels"
      /\ profiles = <<>> /\ answers = <<>> /\ vetoes = {}
      /\ discovered' = discovered /\ profiles' = profiles /\ answers' = answers /\ vetoes' = vetoes
      /\ candidates' = AdmittedAtoms(discovered, proposals')
  BY DEF Admit, ExtractionInv, NothingYet
<1>2. CandidatesStand'
  BY <1>1, AdmittedFacts DEF CandidatesStand
<1> QED
  BY <1>1, <1>2 DEF ExtractionInv, NothingYet, LabelsStand, ProfilesAreFresh, ProfilesStand,
                    StoredStands, LabelsJudged

LEMMA JudgeLabelsKeeps == ExtractionInv /\ JudgeLabels => ExtractionInv'
<1> SUFFICES ASSUME ExtractionInv, JudgeLabels PROVE ExtractionInv'
  OBVIOUS
<1>1. PICK some \in SUBSET Cores :
        candidates' = Demoted(some) /\ vetoes' = {<<"label", i>> : i \in some}
  BY DEF JudgeLabels
<1>2. /\ extraction = "labels" /\ extraction' = "profiles" /\ profiles = <<>> /\ answers = <<>>
      /\ UNCHANGED <<discovered, proposals, answers, profiles>>
  BY DEF JudgeLabels, ExtractionInv, NothingYet
<1>3. /\ \A i \in DOMAIN candidates : Sound(candidates[i], proposals)
      /\ \A k \in Range(discovered) : \E i \in DOMAIN candidates : candidates[i].parent = k
  BY <1>2 DEF ExtractionInv, CandidatesStand
<1>4. /\ DOMAIN candidates' = DOMAIN candidates
      /\ \A i \in DOMAIN candidates :
           Sound(candidates'[i], proposals) /\ candidates'[i].parent = candidates[i].parent
      /\ Cores' = Cores \ some
  BY <1>1, <1>3, DemotedFacts
<1>5. CandidatesStand'
  BY <1>2, <1>3, <1>4 DEF CandidatesStand
<1>6. LabelsStand'
  <2>1. \A i : <<"label", i>> \in vetoes' => i \in some
    BY <1>1
  <2> QED
    BY <1>4, <2>1 DEF LabelsStand
<1>7. ProfilesAreFresh'
  <2>1. \A v \in vetoes' : v[1] = "label"
    BY <1>1
  <2>2. DOMAIN profiles' = {} /\ DOMAIN answers' = {}
    BY <1>2
  <2> QED
    BY <2>1, <2>2 DEF ProfilesAreFresh
<1> QED
  BY <1>2, <1>5, <1>6, <1>7 DEF ExtractionInv, NothingYet, ProfilesStand, StoredStands

LEMMA ExtractProfileKeeps ==
  ASSUME NEW i \in DOMAIN candidates
  PROVE  ExtractionInv /\ ExtractProfile(i) => ExtractionInv'
<1> SUFFICES ASSUME ExtractionInv, ExtractProfile(i) PROVE ExtractionInv'
  OBVIOUS
<1>1. /\ extraction = "profiles" /\ i \in AdmittedCandidates
      /\ UNCHANGED <<extraction, discovered, proposals, candidates, vetoes>>
  BY DEF ExtractProfile
<1>2. PICK reply : answers' = With(answers, i, reply) /\ profiles' = With(profiles, i, Grounded(reply))
  BY DEF ExtractProfile
<1>3. /\ DOMAIN answers = DOMAIN profiles /\ DOMAIN profiles \subseteq AdmittedCandidates
      /\ \A j \in DOMAIN profiles : profiles[j] = Grounded(answers[j])
      /\ \A v \in vetoes : v[1] = "label"
  BY <1>1 DEF ExtractionInv, ProfilesAreFresh
<1>4. /\ DOMAIN answers' = DOMAIN answers \cup {i} /\ DOMAIN profiles' = DOMAIN profiles \cup {i}
      /\ \A j \in DOMAIN profiles \cup {i} :
           /\ answers'[j] = IF j = i THEN reply ELSE answers[j]
           /\ profiles'[j] = IF j = i THEN Grounded(reply) ELSE profiles[j]
  BY <1>2, <1>3 DEF With
<1>5. Cores' = Cores /\ AdmittedCandidates' = AdmittedCandidates
  BY <1>1 DEF Cores, AdmittedCandidates
<1>6. ProfilesAreFresh'
  <2>1. \A j \in DOMAIN profiles' : profiles'[j] = Grounded(answers'[j])
    BY <1>3, <1>4
  <2>2. \A a : Grounded(a)' = Grounded(a)
    BY DEF Grounded
  <2> QED
    BY <1>1, <1>3, <1>4, <1>5, <2>1 DEF ProfilesAreFresh
<1>7. CandidatesStand' /\ LabelsStand'
  BY <1>1, <1>5 DEF ExtractionInv, CandidatesStand, LabelsStand
<1> QED
  BY <1>1, <1>6, <1>7 DEF ExtractionInv, NothingYet, ProfilesStand, StoredStands

LEMMA GroundedIsProfile ==
  ASSUME NEW reply
  PROVE  IsProfile(Grounded(reply)) /\ Grounded(reply).definitions \subseteq Verbatim
<1>1. ASSUME NEW x, NEW y, NEW z
      PROVE  LET g == [definitions |-> x \cap Verbatim, mentions |-> y, assertions |-> z]
             IN  IsProfile(g) /\ g.definitions \subseteq Verbatim
  BY DEF IsProfile
<1> DEFINE found == {j \in DOMAIN reply.mentions : reply.mentions[j] \in Verbatim}
           y == {reply.mentions[j] : j \in {i \in found : Rank(i, found) <= MaxMentions}}
           z == {a \cap Verbatim : a \in reply.assertions} \ {{}}
<1>2. Grounded(reply) = [definitions |-> reply.definitions \cap Verbatim, mentions |-> y, assertions |-> z]
  BY DEF Grounded
<1> HIDE DEF y, z
<1> QED
  BY <1>1, <1>2

LEMMA JudgeDefinitionsKeeps == ExtractionInv /\ JudgeDefinitions => ExtractionInv'
<1> SUFFICES ASSUME ExtractionInv, JudgeDefinitions PROVE ExtractionInv'
  OBVIOUS
<1>1. /\ extraction = "profiles" /\ DOMAIN profiles = AdmittedCandidates /\ extraction' = "assertions"
      /\ UNCHANGED <<discovered, proposals, candidates, answers>>
  BY DEF JudgeDefinitions
<1>2. PICK found \in [Quotes -> {"defining", "different", "hollow"}] :
        /\ profiles' = [i \in AdmittedCandidates |->
             IF i \notin Cores THEN profiles[i]
             ELSE [profiles[i] EXCEPT
                     !.definitions = {p \in @ : found[<<i, p>>] = "defining"},
                     !.mentions = KeptMentions(i, found)]]
        /\ vetoes' = vetoes \cup {<<found[q], q[1], q[2]>> : q \in {r \in Quotes : found[r] # "defining"}}
  BY DEF JudgeDefinitions
<1>3. /\ \A i \in AdmittedCandidates : profiles[i] = Grounded(answers[i])
      /\ \A v \in vetoes : v[1] = "label"
  BY <1>1 DEF ExtractionInv, ProfilesAreFresh
<1>4. Cores' = Cores /\ AdmittedCandidates' = AdmittedCandidates /\ Cores \subseteq AdmittedCandidates
      /\ DOMAIN profiles' = AdmittedCandidates /\ \A a : Grounded(a)' = Grounded(a)
  BY <1>1, <1>2 DEF Cores, AdmittedCandidates, Grounded
\* What a judge turned down it turned down of a quote.
<1>5. \A q \in Quotes : \E i \in Cores : \E p \in profiles[i].definitions : q = <<i, p>>
  BY DEF Quotes
<1>6. \A i \in Cores : \A p \in profiles[i].definitions : <<i, p>> \in Quotes
  BY DEF Quotes
<1>7. ASSUME NEW v \in {"different", "hollow"}, NEW i, NEW p, <<v, i, p>> \in vetoes'
      PROVE  <<i, p>> \in Quotes /\ found[<<i, p>>] = v
  <2>1. <<v, i, p>>[1] = v
    OBVIOUS
  <2>2. <<v, i, p>> \notin vetoes
    BY <1>3, <2>1
  <2>3. PICK q \in Quotes : found[q] # "defining" /\ <<v, i, p>> = <<found[q], q[1], q[2]>>
    BY <1>2, <1>7, <2>2
  <2>4. PICK j \in Cores : \E r \in profiles[j].definitions : q = <<j, r>>
    BY <1>5
  <2>5. PICK r \in profiles[j].definitions : q = <<j, r>>
    BY <2>4
  <2>6. v = found[q] /\ i = q[1] /\ p = q[2]
    BY <2>3
  <2> QED
    BY <2>5, <2>6
<1>8. ASSUME NEW i, NEW p, <<i, p>> \in Quotes, found[<<i, p>>] = "hollow"
      PROVE  <<"hollow", i, p>> \in vetoes'
  <2> DEFINE q == <<i, p>>
  <2>1. q \in {r \in Quotes : found[r] # "defining"} /\ found[q] = "hollow" /\ q[1] = i /\ q[2] = p
    BY <1>8
  <2>2. <<found[q], q[1], q[2]>> \in vetoes'
    BY <1>2, <2>1
  <2> QED
    BY <2>1, <2>2
<1>9. ASSUME NEW i \in AdmittedCandidates
      PROVE  /\ IsProfile(profiles[i]) /\ profiles[i] = Grounded(answers[i])
             /\ profiles[i].definitions \subseteq Verbatim
  BY <1>3, GroundedIsProfile
<1> DEFINE Defining(i) == {p \in profiles[i].definitions : found[<<i, p>>] = "defining"}
           Different(i) == {p \in profiles[i].definitions : found[<<i, p>>] = "different"}
<1>10. ASSUME NEW i \in Cores
       PROVE  /\ profiles'[i].definitions = Defining(i)
              /\ profiles'[i].mentions = profiles[i].mentions \cup Different(i)
              /\ profiles'[i].assertions = profiles[i].assertions /\ IsProfile(profiles'[i])
  <2> DEFINE was == profiles[i]
             is == profiles'[i]
             d == Defining(i)
             m == KeptMentions(i, found)
  <2>1. i \in AdmittedCandidates /\ IsProfile(was)
    BY <1>4, <1>9
  <2>2. is = [was EXCEPT !.definitions = d, !.mentions = m]
    BY <1>2, <2>1
  <2>3. m = was.mentions \cup Different(i)
    BY DEF KeptMentions
  <2> HIDE DEF was, is, d, m
  <2>4. is = [definitions |-> d, mentions |-> m, assertions |-> was.assertions]
    BY <2>1, <2>2 DEF IsProfile
  <2>5. is.definitions = d /\ is.mentions = m /\ is.assertions = was.assertions /\ IsProfile(is)
    BY <2>4 DEF IsProfile
  <2> QED
    BY <2>3, <2>5 DEF was, is, d
<1>11. ASSUME NEW i \in AdmittedCandidates, i \notin Cores PROVE profiles'[i] = profiles[i]
  BY <1>2, <1>11
<1>12. ASSUME NEW i \in Cores, NEW p \in profiles'[i].definitions PROVE Standing(i, p)'
  <2>1. i \in AdmittedCandidates /\ p \in profiles[i].definitions /\ found[<<i, p>>] = "defining"
    BY <1>4, <1>10, <1>12
  <2>2. p \in Verbatim
    BY <1>9, <2>1
  <2>3. \A v \in {"different", "hollow"} : <<v, i, p>> \notin vetoes'
    BY <1>7, <2>1
  <2> QED
    BY <2>2, <2>3 DEF Standing
<1>13. ASSUME NEW i \in AdmittedCandidates PROVE IsProfile(profiles'[i]) /\ ProfileStands(i)'
  <2> DEFINE was == profiles[i]
             is == profiles'[i]
             fresh == Grounded(answers[i])
  <2>1. IsProfile(was) /\ was = fresh
    BY <1>9
  <2>2. IsProfile(is)
    BY <1>10, <1>11, <2>1
  <2>3. was.mentions \subseteq is.mentions /\ was.assertions = is.assertions
    BY <1>10, <1>11
  <2>4. ASSUME NEW p \in was.definitions, <<"hollow", i, p>> \notin vetoes'
        PROVE  p \in is.definitions \cup is.mentions
    <3>1. CASE i \in Cores
      <4>1. <<i, p>> \in Quotes
        BY <1>6, <3>1
      <4>2. found[<<i, p>>] \in {"defining", "different"}
        BY <1>2, <1>8, <2>4, <4>1
      <4> QED
        BY <1>10, <3>1, <4>2
    <3>2. CASE i \notin Cores
      BY <1>11, <3>2
    <3> QED
      BY <3>1, <3>2
  <2>5. Grounded(answers[i])' = fresh
    BY <1>1 DEF Grounded
  <2> HIDE DEF was, is, fresh
  <2>6. {p \in fresh.definitions : <<"hollow", i, p>> \notin vetoes'} \subseteq Evidence(is)
    BY <2>1, <2>4 DEF Evidence
  <2>7. fresh.mentions \cup UNION fresh.assertions \subseteq Evidence(is)
    BY <2>1, <2>3 DEF Evidence
  <2>8. Evidence(profiles[i])' = Evidence(is)
    BY DEF Evidence, is
  <2> QED
    BY <2>2, <2>5, <2>6, <2>7, <2>8 DEF ProfileStands, is
<1>14. ProfilesStand'
  BY <1>1, <1>4, <1>12, <1>13 DEF ProfilesStand
<1>15. LabelsStand'
  <2>1. ASSUME NEW i \in Cores PROVE <<"label", i>> \notin vetoes'
    <3>1. <<"label", i>> \notin vetoes
      BY <1>1 DEF ExtractionInv, LabelsStand, LabelsJudged
    <3>2. ASSUME NEW q \in Quotes PROVE <<"label", i>> # <<found[q], q[1], q[2]>>
      <4>1. found[q] # "label"
        BY <1>2
      <4>2. <<"label", i>>[1] = "label" /\ <<found[q], q[1], q[2]>>[1] = found[q]
        OBVIOUS
      <4> QED
        BY <4>1, <4>2
    <3> QED
      BY <1>2, <3>1, <3>2
  <2> QED
    BY <1>4, <2>1 DEF LabelsStand
<1>16. CandidatesStand'
  BY <1>1 DEF ExtractionInv, CandidatesStand, LabelsJudged
<1> QED
  BY <1>1, <1>14, <1>15, <1>16 DEF ExtractionInv, NothingYet, ProfilesAreFresh, StoredStands

LEMMA JudgeAssertionsKeeps == ExtractionInv /\ JudgeAssertions => ExtractionInv'
<1> SUFFICES ASSUME ExtractionInv, JudgeAssertions PROVE ExtractionInv'
  OBVIOUS
<1>1. /\ extraction = "assertions" /\ extraction' = "store"
      /\ UNCHANGED <<discovered, proposals, candidates, answers, vetoes>>
  BY DEF JudgeAssertions
<1>2. PICK rejected : profiles' = [i \in AdmittedCandidates |->
        [profiles[i] EXCEPT
           !.assertions = @ \ {a \in profiles[i].assertions : <<i, a>> \in rejected},
           !.mentions = @ \cup UNION {a \in profiles[i].assertions : <<i, a>> \in rejected}]]
  BY DEF JudgeAssertions
<1>3. /\ \A i \in Cores : i \in DOMAIN profiles /\ \A p \in profiles[i].definitions : Standing(i, p)
      /\ \A i \in AdmittedCandidates : IsProfile(profiles[i]) /\ ProfileStands(i)
      /\ DOMAIN profiles = AdmittedCandidates
  BY <1>1 DEF ExtractionInv, ProfilesStand
<1>4. Cores' = Cores /\ AdmittedCandidates' = AdmittedCandidates /\ DOMAIN profiles' = AdmittedCandidates
  BY <1>1, <1>2 DEF Cores, AdmittedCandidates
<1>5. ASSUME NEW i \in AdmittedCandidates
      PROVE  /\ IsProfile(profiles'[i]) /\ profiles'[i].definitions = profiles[i].definitions
             /\ Evidence(profiles[i]) \subseteq Evidence(profiles'[i])
  <2> DEFINE was == profiles[i]
             is == profiles'[i]
             gone == {a \in profiles[i].assertions : <<i, a>> \in rejected}
  <2>1. IsProfile(was)
    BY <1>3
  <2>2. is = [was EXCEPT !.assertions = @ \ gone, !.mentions = @ \cup UNION gone]
    BY <1>2
  <2> HIDE DEF was, is, gone
  <2>3. is = [definitions |-> was.definitions, mentions |-> was.mentions \cup UNION gone,
              assertions |-> was.assertions \ gone]
    BY <2>1, <2>2 DEF IsProfile
  <2>4. UNION was.assertions \subseteq (UNION (was.assertions \ gone)) \cup (UNION gone)
    OBVIOUS
  <2>5. IsProfile(is) /\ is.definitions = was.definitions /\ Evidence(was) \subseteq Evidence(is)
    BY <2>3, <2>4 DEF IsProfile, Evidence
  <2> QED
    BY <2>5 DEF was, is
<1>6. ASSUME NEW i \in AdmittedCandidates PROVE ProfileStands(i)'
  <2>1. ProfileStands(i) /\ Evidence(profiles[i])' = Evidence(profiles'[i]) /\ Grounded(answers[i])' = Grounded(answers[i])
    BY <1>1, <1>3 DEF Evidence, Grounded
  <2> QED
    BY <1>1, <1>5, <2>1 DEF ProfileStands
<1>7. \A i, p : Standing(i, p)' = Standing(i, p)
  BY <1>1 DEF Standing
<1>8. ProfilesStand'
  BY <1>1, <1>3, <1>4, <1>5, <1>6, <1>7 DEF ProfilesStand
<1>9. CandidatesStand' /\ LabelsStand'
  BY <1>1, <1>4 DEF ExtractionInv, CandidatesStand, LabelsStand, LabelsJudged
<1> QED
  BY <1>1, <1>8, <1>9 DEF ExtractionInv, NothingYet, ProfilesAreFresh, StoredStands

LEMMA StoreRunKeeps == ExtractionInv /\ StoreRun => ExtractionInv'
<1> SUFFICES ASSUME ExtractionInv, StoreRun PROVE ExtractionInv'
  OBVIOUS
<1>1. extraction = "store" /\ UNCHANGED <<discovered, proposals, answers, profiles, vetoes>>
  BY DEF StoreRun
<1>2. CASE extraction' = "failed"
  BY <1>2 DEF ExtractionInv, NothingYet, CandidatesStand, LabelsStand, ProfilesAreFresh,
              ProfilesStand, StoredStands, LabelsJudged
<1>3. CASE extraction' # "failed"
  <2>1. /\ extraction' = "stored" /\ candidates' = Demoted(Ungrounded)
        /\ IsInjective([i \in DOMAIN candidates |-> candidates[i].key])
    BY <1>3 DEF StoreRun
  <2>2. /\ \A i \in DOMAIN candidates : Sound(candidates[i], proposals)
        /\ \A k \in Range(discovered) : \E i \in DOMAIN candidates : candidates[i].parent = k
        /\ \A i \in Cores : <<"label", i>> \notin vetoes
        /\ \A i \in Cores : i \in DOMAIN profiles /\ \A p \in profiles[i].definitions : Standing(i, p)
        /\ \A i \in DOMAIN profiles : IsProfile(profiles[i]) /\ ProfileStands(i)
    BY <1>1 DEF ExtractionInv, CandidatesStand, LabelsStand, ProfilesStand, LabelsJudged
  <2>3. /\ DOMAIN candidates' = DOMAIN candidates
        /\ \A i \in DOMAIN candidates :
             /\ Sound(candidates'[i], proposals)
             /\ candidates'[i].parent = candidates[i].parent /\ candidates'[i].key = candidates[i].key
        /\ Cores' = Cores \ Ungrounded
    BY <2>1, <2>2, DemotedFacts
  <2>4. CandidatesStand' /\ LabelsStand'
    BY <1>1, <2>1, <2>2, <2>3 DEF CandidatesStand, LabelsStand
  <2>5. \A i, p : Standing(i, p)' = Standing(i, p)
    BY <1>1 DEF Standing
  <2>6. \A i : ProfileStands(i)' = ProfileStands(i)
    BY <1>1 DEF ProfileStands, Evidence, Grounded
  <2>7. ProfilesStand'
    BY <1>1, <2>1, <2>2, <2>3, <2>5, <2>6 DEF ProfilesStand
  <2>8. \A i, j \in DOMAIN candidates : candidates[i].key = candidates[j].key => i = j
    BY <2>1 DEF IsInjective
  <2>9. \A i \in Cores \ Ungrounded : profiles[i].definitions # {}
    BY DEF Ungrounded
  <2>10. StoredStands'
    BY <1>1, <2>3, <2>8, <2>9 DEF StoredStands
  <2> QED
    BY <2>1, <2>4, <2>7, <2>10 DEF ExtractionInv, NothingYet, ProfilesAreFresh
<1> QED
  BY <1>2, <1>3

LEMMA RunFailsKeeps == ExtractionInv /\ RunFails => ExtractionInv'
  BY DEF RunFails, ExtractionInv, NothingYet, CandidatesStand, LabelsStand, ProfilesAreFresh,
         ProfilesStand, StoredStands, LabelsJudged

LEMMA RunStutters == ExtractionInv /\ UNCHANGED extractionVars => ExtractionInv'
<1> SUFFICES ASSUME ExtractionInv, UNCHANGED extractionVars PROVE ExtractionInv'
  OBVIOUS
<1>1. UNCHANGED <<extraction, discovered, proposals, candidates, answers, profiles, vetoes>>
  BY DEF extractionVars
<1>2. Cores' = Cores /\ AdmittedCandidates' = AdmittedCandidates
  BY <1>1 DEF Cores, AdmittedCandidates
<1>3. /\ \A i, p : Standing(i, p)' = Standing(i, p)
      /\ \A i : ProfileStands(i)' = ProfileStands(i)
      /\ \A i : Grounded(answers[i])' = Grounded(answers[i])
  BY <1>1 DEF Standing, ProfileStands, Evidence, Grounded
<1>4. NothingYet' /\ CandidatesStand' /\ LabelsStand'
  BY <1>1, <1>2 DEF ExtractionInv, NothingYet, CandidatesStand, LabelsStand
<1>5. ProfilesAreFresh' /\ ProfilesStand' /\ StoredStands'
  BY <1>1, <1>2, <1>3 DEF ExtractionInv, ProfilesAreFresh, ProfilesStand, StoredStands
<1> QED
  BY <1>4, <1>5 DEF ExtractionInv

THEOREM RunsStand == ExtractionSpec => []ExtractionInv
<1>1. ExtractionInv /\ [ExtractionNext]_extractionVars => ExtractionInv'
  <2> SUFFICES ASSUME ExtractionInv, [ExtractionNext]_extractionVars PROVE ExtractionInv'
    OBVIOUS
  <2>1. CASE Discover
    BY <2>1, DiscoverKeeps
  <2>2. CASE Admit
    BY <2>2, AdmitKeeps
  <2>3. CASE JudgeLabels
    BY <2>3, JudgeLabelsKeeps
  <2>4. CASE \E i \in DOMAIN candidates : ExtractProfile(i)
    BY <2>4, ExtractProfileKeeps
  <2>5. CASE JudgeDefinitions
    BY <2>5, JudgeDefinitionsKeeps
  <2>6. CASE JudgeAssertions
    BY <2>6, JudgeAssertionsKeeps
  <2>7. CASE StoreRun
    BY <2>7, StoreRunKeeps
  <2>8. CASE RunFails
    BY <2>8, RunFailsKeeps
  <2>9. CASE UNCHANGED extractionVars
    BY <2>9, RunStutters
  <2> QED
    BY <2>1, <2>2, <2>3, <2>4, <2>5, <2>6, <2>7, <2>8, <2>9 DEF ExtractionNext
<1> QED
  BY <1>1, InitialRun, PTL DEF ExtractionSpec

THEOREM StoredRunsAreEarned == ExtractionSpec => []StoredRunIsEarned
<1>1. ExtractionInv => StoredRunIsEarned
  <2> SUFFICES ASSUME ExtractionInv, extraction = "stored" PROVE StoredRunIsEarned
    BY DEF StoredRunIsEarned
  <2>1. /\ \A i \in DOMAIN candidates : Sound(candidates[i], proposals)
        /\ \A k \in Range(discovered) : \E i \in DOMAIN candidates : candidates[i].parent = k
        /\ \A i \in Cores : <<"label", i>> \notin vetoes
        /\ \A i \in Cores : \A p \in profiles[i].definitions : Standing(i, p)
        /\ \A i \in DOMAIN profiles : ProfileStands(i)
        /\ \A i, j \in DOMAIN candidates : candidates[i].key = candidates[j].key => i = j
        /\ \A i \in Cores : profiles[i].definitions # {}
    BY DEF ExtractionInv, CandidatesStand, LabelsStand, ProfilesStand, StoredStands, LabelsJudged
  <2>2. \A i \in Cores : Supported(candidates[i].key, proposals)
    BY <2>1 DEF Cores, Sound
  <2> QED
    BY <2>1, <2>2 DEF StoredRunIsEarned, Supported, Standing, ProfileStands, Evidence
<1> QED
  BY <1>1, RunsStand, PTL

(***************************************************************************)
(* Accepted path packages, for any fixtures, any number of exports at a    *)
(* time and any number of commands.                                        *)
(***************************************************************************)

(* The inductive invariant. *)

\* The generations a number was given to, before a step that gives n.
Before(n) == {g \in Nat : g < n}

LayersOf(n) == [pair : Before(n) \X Before(n), sections : SUBSET (Nat \ {0}),
             options : SUBSET (Nat \ {0}), concept : Nat]

Package(n) == [header : Nat \X Nat, rows : LayersOf(n)]

Seeding == {"idle", "validated", "reset", "loaded", "installed"}

PackageTypes ==
  /\ stamp \in Nat \ {0}
  /\ layers \in [Path -> LayersOf(stamp)]
  /\ entries \in [Path -> Nat \X Nat]
  /\ files \in [Path -> Package(stamp)]
  /\ digests \in [Path -> Package(stamp)]
  /\ exports \in [Exporter ->
       [at : {"idle", "reading", "sealed"}, path : Path, header : Nat \X Nat, rows : LayersOf(stamp),
        manifest : {<<>>} \cup [Path -> Package(stamp)],
        left : SUBSET {"entry", "lessons", "sections", "items", "options"}]]
  /\ seed \in [at : Seeding, set : UNION {[S -> Package(stamp)] : S \in SUBSET Path},
               checked : SUBSET Path]
  /\ alone \in BOOLEAN

\* An operator publishes generations that exist.
SanctionedExists ==
  \A e \in sanctioned : e[1] \in Path /\ e[2] \in (Before(stamp) \ {0}) \X (Before(stamp) \ {0})

\* A package says whose it is, and was made of what an operator had published.
Authentic(p, package) == package # NoPackage => <<p, package.header>> \in sanctioned

FilesAreAuthentic == \A p \in Path : Authentic(p, files[p]) /\ Authentic(p, digests[p])

ExportsAreAuthentic ==
  \A x \in Exporter : exports[x].at # "idle" =>
    /\ <<exports[x].path, exports[x].header>> \in sanctioned
    /\ exports[x].manifest \in [Path -> Package(stamp)]
    /\ \A p \in Path : Authentic(p, exports[x].manifest[p])

\* The layers have reached the identity: they only move on from it, and while
\* they have not, what the identity stands for is whole.
HasReached(p, id) ==
  /\ Stored(p)
  /\ id[1] <= layers[p].pair[1] /\ id[2] <= layers[p].pair[2]
  /\ layers[p].pair = id => Qualifies(p)

EntriesAreReached ==
  \A p \in Path : entries[p] # Unset => <<p, entries[p]>> \in sanctioned /\ HasReached(p, entries[p])

\* What a seed has in hand, and what it has found qualified.
SeedIsAuthentic ==
  /\ \A p \in DOMAIN seed.set : <<p, seed.set[p].header>> \in sanctioned
  /\ seed.checked # {} => seed.at = "installed"
  /\ \A p \in seed.checked : p \in DOMAIN seed.set /\ HasReached(p, seed.set[p].header)

PackagesInv == /\ PackageTypes
               /\ SanctionedExists
               /\ FilesAreAuthentic
               /\ ExportsAreAuthentic
               /\ EntriesAreReached
               /\ SeedIsAuthentic
               /\ SeededTogether

-----------------------------------------------------------------------------
(* The data. *)

LEMMA ManifestPairFacts ==
  ASSUME NEW S, NEW t \in S \X S, NEW n \in S
  PROVE  /\ [t EXCEPT ![1] = n] \in S \X S /\ [t EXCEPT ![1] = n][1] = n /\ [t EXCEPT ![1] = n][2] = t[2]
         /\ [t EXCEPT ![2] = n] \in S \X S /\ [t EXCEPT ![2] = n][2] = n /\ [t EXCEPT ![2] = n][1] = t[1]
OBVIOUS

\* What existed before one step existed before a later one.
LEMMA LayersRemain ==
  ASSUME NEW m \in Nat, NEW n \in Nat, m <= n
  PROVE  /\ Before(m) \subseteq Before(n) /\ LayersOf(m) \subseteq LayersOf(n)
         /\ Package(m) \subseteq Package(n)
<1>1. Before(m) \subseteq Before(n)
  BY DEF Before
<1>2. LayersOf(m) \subseteq LayersOf(n)
  <2> SUFFICES ASSUME NEW l \in LayersOf(m) PROVE l \in LayersOf(n)
    OBVIOUS
  <2>1. l.pair \in Before(n) \X Before(n)
    BY <1>1 DEF LayersOf
  <2> QED BY <2>1 DEF LayersOf
<1>3. Package(m) \subseteq Package(n)
  BY <1>2 DEF Package
<1> QED BY <1>1, <1>2, <1>3

LEMMA BlankFacts ==
  ASSUME NEW n \in Nat \ {0}
  PROVE  /\ NoLayer \in LayersOf(n) /\ NoPackage \in Package(n)
         /\ Unset \in Before(n) \X Before(n)
<1>1. Unset \in Before(n) \X Before(n) /\ Unset \in Nat \X Nat
  BY DEF Unset, Before
<1>2. NoLayer \in LayersOf(n)
  BY <1>1 DEF NoLayer, LayersOf
<1> QED BY <1>1, <1>2 DEF NoPackage, Package

LEMMA FreshRowsFacts ==
  ASSUME NEW p \in Path, NEW k \in Nat \ {0}, NEW n \in Nat, k < n
  PROVE  /\ Fresh(p, k) \in LayersOf(n) /\ Fresh(p, k).pair = <<k, k>>
         /\ Fresh(p, k).sections = {k} /\ Fresh(p, k).options = {k}
<1> DEFINE c == IF p \in sharing THEN k ELSE 0
<1>1. <<k, k>> \in Before(n) \X Before(n) /\ c \in Nat
  BY DEF Before
<1>2. Fresh(p, k) = [pair |-> <<k, k>>, sections |-> {k}, options |-> {k}, concept |-> c]
  BY DEF Fresh
<1> HIDE DEF c
<1> QED BY <1>1, <1>2 DEF LayersOf

LEMMA QualifiedIsStored ==
  ASSUME NEW p \in Path, layers[p] \in LayersOf(stamp), Qualifies(p)
  PROVE  layers[p].pair # Unset
BY DEF Qualifies, LayersOf, Unset

LEMMA IdleFacts ==
  /\ NoExport.at = "idle" /\ NoSeed.at = "idle" /\ NoSeed.set = <<>> /\ NoSeed.checked = {}
  /\ \A n \in Nat \ {0} :
       /\ NoExport \in [at : {"idle", "reading", "sealed"}, path : Path, header : Nat \X Nat,
                        rows : LayersOf(n), manifest : {<<>>} \cup [Path -> Package(n)],
                        left : SUBSET {"entry", "lessons", "sections", "items", "options"}]
       /\ NoSeed \in [at : Seeding, set : UNION {[S -> Package(n)] : S \in SUBSET Path},
                      checked : SUBSET Path]
<1>1. AnyPath \in Path
  BY ThereAreFixtures DEF AnyPath
<1>2. ASSUME NEW n \in Nat \ {0}
      PROVE  <<>> \in UNION {[S -> Package(n)] : S \in SUBSET Path}
  <2>1. <<>> \in [{} -> Package(n)]
    OBVIOUS
  <2> QED BY <2>1
<1>3. Unset \in Nat \X Nat
  BY DEF Unset
<1> QED BY <1>1, <1>2, <1>3, BlankFacts DEF NoExport, NoSeed, Seeding

-----------------------------------------------------------------------------
(* Initial states. *)

LEMMA PackagesInitInv ==
  ASSUME NEW begun \in {"empty", "whole", "rebuilt"}, NEW limit \in Nat, PackagesInit(begun, limit)
  PROVE  PackagesInv
<1> DEFINE anew(p) == begun = "rebuilt" /\ p = AnyPath
           number(p) == IF anew(p) THEN 2 ELSE 1
           there(p) == begun = "whole" \/ anew(p)
<1>1. /\ layers = [p \in Path |-> IF there(p) THEN Fresh(p, number(p)) ELSE NoLayer]
      /\ entries = [p \in Path |-> layers[p].pair]
      /\ files = [p \in Path |-> IF begun = "empty" THEN NoPackage
                                 ELSE [header |-> <<1, 1>>, rows |-> Fresh(p, 1)]]
      /\ digests = files
      /\ exports = [x \in Exporter |-> NoExport] /\ seed = NoSeed
      /\ sanctioned = IF begun = "empty" THEN {}
                      ELSE (Path \X {<<1, 1>>}) \cup {<<p, entries[p]>> : p \in {q \in Path : there(q)}}
      /\ alone = (begun # "empty") /\ stamp = 3
  BY DEF PackagesInit
<1>2. \A p \in Path : number(p) \in {1, 2} /\ (begun = "empty" => ~there(p))
  OBVIOUS
<1> HIDE DEF number, there
<1>3. ASSUME NEW p \in Path
      PROVE  /\ layers[p] \in LayersOf(3) /\ entries[p] = layers[p].pair
             /\ there(p) => /\ entries[p] = <<number(p), number(p)>> /\ entries[p] # Unset
                            /\ Qualifies(p)
             /\ ~there(p) => entries[p] = Unset
  <2>1. NoLayer \in LayersOf(3) /\ NoLayer.pair = Unset
    <3>1. 3 \in Nat \ {0}
      OBVIOUS
    <3>2. NoLayer \in LayersOf(3)
      BY <3>1, BlankFacts
    <3> QED
      BY <3>2 DEF NoLayer
  <2>2. CASE there(p)
    <3>1. layers[p] = Fresh(p, number(p)) /\ number(p) \in {1, 2}
      BY <1>1, <1>2, <2>2
    <3>2. /\ layers[p] \in LayersOf(3) /\ layers[p].pair = <<number(p), number(p)>>
          /\ layers[p].sections = {number(p)} /\ layers[p].options = {number(p)}
      BY <3>1, FreshRowsFacts
    <3>3. layers[p] # NoLayer /\ layers[p].pair # Unset
      BY <3>1, <3>2 DEF NoLayer, Unset
    <3> QED BY <1>1, <2>2, <3>2, <3>3 DEF Qualifies, Stored
  <2>3. CASE ~there(p)
    BY <1>1, <2>1, <2>3
  <2> QED BY <2>2, <2>3
<1>4. ASSUME NEW p \in Path
      PROVE  files[p] \in Package(3) /\ Authentic(p, files[p])
  <2>1. CASE begun = "empty"
    BY <1>1, <2>1, BlankFacts DEF Authentic
  <2>2. CASE begun # "empty"
    <3>1. files[p] = [header |-> <<1, 1>>, rows |-> Fresh(p, 1)]
      BY <1>1, <2>2
    <3>2. Fresh(p, 1) \in LayersOf(3)
      BY FreshRowsFacts
    <3>3. <<p, <<1, 1>>>> \in sanctioned
      BY <1>1, <2>2
    <3> QED BY <3>1, <3>2, <3>3 DEF Package, Authentic
  <2> QED BY <2>1, <2>2
<1>5. PackageTypes
  <2>1. layers \in [Path -> LayersOf(stamp)]
    BY <1>1, <1>3
  <2>2. entries \in [Path -> Nat \X Nat]
    <3>1. \A p \in Path : entries[p] \in Nat \X Nat
      BY <1>3 DEF LayersOf, Before
    <3> QED BY <1>1, <3>1
  <2>3. files \in [Path -> Package(stamp)]
    BY <1>1, <1>4
  <2> QED BY <1>1, <2>1, <2>2, <2>3, IdleFacts DEF PackageTypes
<1>6. SanctionedExists
  <2> SUFFICES ASSUME NEW e \in sanctioned
               PROVE  e[1] \in Path /\ e[2] \in (Before(3) \ {0}) \X (Before(3) \ {0})
    BY <1>1 DEF SanctionedExists
  <2>1. {1, 2} \subseteq Before(3) \ {0}
    BY DEF Before
  <2>2. CASE e \in Path \X {<<1, 1>>}
    BY <2>1, <2>2
  <2>3. CASE e \in {<<p, entries[p]>> : p \in {q \in Path : there(q)}}
    <3>1. PICK p \in Path : there(p) /\ e = <<p, entries[p]>>
      BY <2>3
    <3> QED BY <1>2, <1>3, <2>1, <3>1
  <2> QED BY <1>1, <2>2, <2>3
<1>7. FilesAreAuthentic
  BY <1>1, <1>4 DEF FilesAreAuthentic
<1>8. ExportsAreAuthentic /\ SeedIsAuthentic
  <2>1. DOMAIN seed.set = {} /\ seed.checked = {}
    BY <1>1, IdleFacts
  <2> QED BY <1>1, <2>1, IdleFacts DEF ExportsAreAuthentic, SeedIsAuthentic
<1>9. EntriesAreReached
  <2> SUFFICES ASSUME NEW p \in Path, entries[p] # Unset
               PROVE  <<p, entries[p]>> \in sanctioned /\ HasReached(p, entries[p])
    BY DEF EntriesAreReached
  <2>1. there(p) /\ Qualifies(p) /\ entries[p] = layers[p].pair /\ layers[p] \in LayersOf(3)
    BY <1>3
  <2>2. <<p, entries[p]>> \in sanctioned
    BY <1>1, <1>2, <2>1
  <2> QED BY <2>1, <2>2 DEF HasReached, Qualifies, LayersOf, Before
<1>10. SeededTogether
  <2>1. CASE begun = "empty"
    BY <1>2, <1>3, <2>1 DEF SeededTogether
  <2> QED BY <1>1, <2>1 DEF SeededTogether
<1> QED BY <1>5, <1>6, <1>7, <1>8, <1>9, <1>10 DEF PackagesInv

-----------------------------------------------------------------------------
(* The operator's pipeline. *)

\* The layers move on by generations that did not exist before.
LEMMA PipelineMoves ==
  ASSUME PackagesInv, UNCHANGED <<entries, files, digests, exports, seed, sanctioned, alone>>,
         stamp' \in Nat, stamp <= stamp', layers' \in [Path -> LayersOf(stamp')],
         \A p \in Path : \A id \in Before(stamp) \X Before(stamp) :
           HasReached(p, id) => HasReached(p, id)'
  PROVE  PackagesInv'
<1> USE DEF PackagesInv
<1>1. stamp \in Nat \ {0} /\ Before(stamp) \subseteq Before(stamp')
      /\ LayersOf(stamp) \subseteq LayersOf(stamp') /\ Package(stamp) \subseteq Package(stamp')
  BY LayersRemain DEF PackageTypes
<1>2. \A e \in sanctioned : e[2] \in Before(stamp) \X Before(stamp)
  BY DEF SanctionedExists
<1>3. PackageTypes'
  <2>1. /\ files' \in [Path -> Package(stamp')] /\ digests' \in [Path -> Package(stamp')]
        /\ entries' \in [Path -> Nat \X Nat] /\ alone' \in BOOLEAN
    BY <1>1 DEF PackageTypes
  <2>2. \A S \in SUBSET Path : [S -> Package(stamp)] \subseteq [S -> Package(stamp')]
    BY <1>1
  <2>3. seed' \in [at : Seeding, set : UNION {[S -> Package(stamp')] : S \in SUBSET Path},
                   checked : SUBSET Path]
    <3>1. PICK S \in SUBSET Path : seed.set \in [S -> Package(stamp)]
      BY DEF PackageTypes
    <3>2. seed.set \in UNION {[T -> Package(stamp')] : T \in SUBSET Path}
      BY <2>2, <3>1
    <3> QED BY <3>2 DEF PackageTypes
  <2>4. [Path -> Package(stamp)] \subseteq [Path -> Package(stamp')]
    BY <1>1
  <2>5. exports' \in [Exporter ->
       [at : {"idle", "reading", "sealed"}, path : Path, header : Nat \X Nat, rows : LayersOf(stamp'),
        manifest : {<<>>} \cup [Path -> Package(stamp')],
        left : SUBSET {"entry", "lessons", "sections", "items", "options"}]]
    BY <1>1, <2>4 DEF PackageTypes
  <2> QED BY <1>1, <2>1, <2>3, <2>5 DEF PackageTypes
<1>4. SanctionedExists'
  BY <1>1 DEF SanctionedExists
<1>5. FilesAreAuthentic'
  BY DEF FilesAreAuthentic, Authentic
<1>6. ExportsAreAuthentic'
  <2>1. [Path -> Package(stamp)] \subseteq [Path -> Package(stamp')]
    BY <1>1
  <2> QED BY <2>1 DEF ExportsAreAuthentic, Authentic
<1>7. EntriesAreReached'
  <2> SUFFICES ASSUME NEW p \in Path, entries[p] # Unset
               PROVE  <<p, entries[p]>> \in sanctioned /\ HasReached(p, entries[p])'
    BY DEF EntriesAreReached
  <2>1. <<p, entries[p]>> \in sanctioned /\ HasReached(p, entries[p])
    BY DEF EntriesAreReached
  <2>2. entries[p] \in Before(stamp) \X Before(stamp)
    BY <1>2, <2>1
  <2>3. \A id : id = entries[p] => (HasReached(p, id)' <=> HasReached(p, entries[p])')
    BY DEF HasReached, Stored, Qualifies
  <2> QED BY <2>1, <2>2, <2>3
<1>8. SeedIsAuthentic'
  <2>1. ASSUME NEW p \in seed.checked
        PROVE  p \in DOMAIN seed.set /\ HasReached(p, seed.set[p].header)'
    <3>1. p \in DOMAIN seed.set /\ HasReached(p, seed.set[p].header) /\ p \in Path
      BY DEF SeedIsAuthentic, PackageTypes
    <3>2. seed.set[p].header \in Before(stamp) \X Before(stamp)
      BY <1>2, <3>1 DEF SeedIsAuthentic
    <3>3. HasReached(p, seed.set[p].header)'
      BY <3>1, <3>2 DEF HasReached, Stored, Qualifies
    <3> QED BY <3>1, <3>3
  <2> QED BY <2>1 DEF SeedIsAuthentic
<1>9. SeededTogether'
  BY DEF SeededTogether
<1> QED BY <1>3, <1>4, <1>5, <1>6, <1>7, <1>8, <1>9

LEMMA NextStamp ==
  ASSUME NEW n \in Nat \ {0}, NEW m, m = n + 1
  PROVE  m \in Nat /\ n < m /\ n <= m /\ LayersOf(n) \subseteq LayersOf(m)
<1>1. m \in Nat /\ n < m /\ n <= m
  OBVIOUS
<1> QED BY <1>1, LayersRemain

LEMMA BuildPathInv ==
  ASSUME PackagesInv, NEW p \in Path, BuildPath(p)
  PROVE  PackagesInv'
<1> DEFINE concept == IF p \in sharing /\ Registry # {} THEN CHOOSE c \in Registry : TRUE
                      ELSE Fresh(p, stamp).concept
           l == [Fresh(p, stamp) EXCEPT !.concept = concept]
<1>1. PackageTypes
  BY DEF PackagesInv
<1>2. /\ ~Stored(p) /\ stamp' = stamp + 1 /\ layers' = [layers EXCEPT ![p] = l]
      /\ UNCHANGED <<entries, files, digests, exports, seed, sanctioned, alone>>
  BY DEF BuildPath
<1>3. stamp \in Nat \ {0} /\ stamp' \in Nat /\ stamp < stamp' /\ stamp <= stamp'
      /\ LayersOf(stamp) \subseteq LayersOf(stamp')
  BY <1>1, <1>2, NextStamp DEF PackageTypes
<1>4. l \in LayersOf(stamp')
  <2>1. Fresh(p, stamp) \in LayersOf(stamp')
    BY <1>3, FreshRowsFacts
  <2>2. Registry \subseteq Nat
    BY <1>1 DEF Registry, PackageTypes, LayersOf
  <2>3. concept \in Nat
    <3>1. Registry # {} => (CHOOSE c \in Registry : TRUE) \in Registry
      OBVIOUS
    <3> QED BY <2>1, <2>2, <3>1 DEF LayersOf
  <2> HIDE DEF concept
  <2> QED BY <2>1, <2>3 DEF LayersOf
<1> HIDE DEF l
<1>5. layers' \in [Path -> LayersOf(stamp')] /\ \A q \in Path : q # p => layers'[q] = layers[q]
  BY <1>1, <1>2, <1>3, <1>4 DEF PackageTypes
<1>6. ASSUME NEW q \in Path, NEW id \in Before(stamp) \X Before(stamp), HasReached(q, id)
      PROVE  HasReached(q, id)'
  <2>1. q # p
    BY <1>2, <1>6 DEF HasReached
  <2> QED BY <1>5, <1>6, <2>1 DEF HasReached, Stored, Qualifies
<1> QED BY <1>2, <1>3, <1>5, <1>6, PipelineMoves

LEMMA RenewLessonsInv ==
  ASSUME PackagesInv, NEW p \in Path, RenewLessons(p)
  PROVE  PackagesInv'
<1> DEFINE l == [layers[p] EXCEPT !.pair[1] = stamp, !.sections = @ \cup {stamp}]
<1>1. PackageTypes /\ layers[p] \in LayersOf(stamp)
  BY DEF PackagesInv, PackageTypes
<1>2. /\ stamp' = stamp + 1
      /\ layers' = [layers EXCEPT ![p].pair[1] = stamp, ![p].sections = @ \cup {stamp}]
      /\ UNCHANGED <<entries, files, digests, exports, seed, sanctioned, alone>>
  BY DEF RenewLessons
<1>3. stamp \in Nat \ {0} /\ stamp' \in Nat /\ stamp < stamp' /\ stamp <= stamp'
      /\ LayersOf(stamp) \subseteq LayersOf(stamp')
  BY <1>1, <1>2, NextStamp DEF PackageTypes
<1>4. layers' = [layers EXCEPT ![p] = l]
  BY <1>1, <1>2 DEF PackageTypes
<1>5. /\ l \in LayersOf(stamp') /\ l.pair[1] = stamp /\ l.pair[2] = layers[p].pair[2]
      /\ stamp \in l.sections
  <2> DEFINE q == [layers[p].pair EXCEPT ![1] = stamp]
             s == layers[p].sections \cup {stamp}
  <2>1. layers[p].pair \in Before(stamp') \X Before(stamp') /\ stamp \in Before(stamp')
    BY <1>1, <1>3 DEF LayersOf, Before
  <2>2. q \in Before(stamp') \X Before(stamp') /\ q[1] = stamp /\ q[2] = layers[p].pair[2]
    BY <2>1, ManifestPairFacts
  <2>3. s \in SUBSET (Nat \ {0}) /\ stamp \in s
    BY <1>1, <1>3 DEF LayersOf
  <2>4. l = [layers[p] EXCEPT !.pair = q, !.sections = s]
    BY <1>1 DEF LayersOf
  <2> HIDE DEF q, s, l
  <2> QED BY <1>1, <2>2, <2>3, <2>4 DEF LayersOf
<1> HIDE DEF l
<1>6. /\ layers' \in [Path -> LayersOf(stamp')] /\ layers'[p] = l
      /\ \A q \in Path : q # p => layers'[q] = layers[q]
  BY <1>1, <1>3, <1>4, <1>5 DEF PackageTypes
<1>7. ASSUME NEW q \in Path, NEW id \in Before(stamp) \X Before(stamp), HasReached(q, id)
      PROVE  HasReached(q, id)'
  <2>1. CASE q # p
    BY <1>6, <1>7, <2>1 DEF HasReached, Stored, Qualifies
  <2>2. CASE q = p
    <3>1. id[1] < stamp /\ id[1] \in Nat /\ id[2] \in Nat
      BY DEF Before
    <3>2. l # NoLayer
      BY <1>3, <1>5 DEF NoLayer
    <3> QED BY <1>3, <1>5, <1>6, <1>7, <2>2, <3>1, <3>2 DEF HasReached, Stored
  <2> QED BY <2>1, <2>2
<1> QED BY <1>2, <1>3, <1>6, <1>7, PipelineMoves

LEMMA RenewItemsInv ==
  ASSUME PackagesInv, NEW p \in Path, RenewItems(p)
  PROVE  PackagesInv'
<1> DEFINE g == layers[p].pair[1]
           l == [layers[p] EXCEPT !.pair[2] = g, !.options = @ \cup {g}]
<1>1. PackageTypes /\ layers[p] \in LayersOf(stamp)
  BY DEF PackagesInv, PackageTypes
<1>2. /\ g > layers[p].pair[2]
      /\ layers' = [layers EXCEPT ![p].pair[2] = g, ![p].options = @ \cup {g}]
      /\ UNCHANGED <<entries, files, digests, exports, seed, sanctioned, alone, stamp>>
  BY DEF RenewItems
<1>3. stamp \in Nat \ {0} /\ g \in Before(stamp) \ {0} /\ layers[p].pair[2] \in Nat
  BY <1>1, <1>2 DEF PackageTypes, LayersOf, Before
<1>4. layers' = [layers EXCEPT ![p] = l]
  BY <1>1, <1>2 DEF PackageTypes
<1>5. l \in LayersOf(stamp) /\ l.pair[1] = g /\ l.pair[2] = g
  <2> DEFINE q == [layers[p].pair EXCEPT ![2] = g]
             s == layers[p].options \cup {g}
  <2>1. layers[p].pair \in Before(stamp) \X Before(stamp)
    BY <1>1 DEF LayersOf
  <2>2. q \in Before(stamp) \X Before(stamp) /\ q[1] = g /\ q[2] = g
    BY <1>3, <2>1, ManifestPairFacts
  <2>3. s \in SUBSET (Nat \ {0})
    BY <1>1, <1>3 DEF LayersOf, Before
  <2>4. l = [layers[p] EXCEPT !.pair = q, !.options = s]
    BY <1>1 DEF LayersOf
  <2> HIDE DEF q, s, l, g
  <2> QED BY <1>1, <2>2, <2>3, <2>4 DEF LayersOf
<1> HIDE DEF l
<1>6. /\ layers' \in [Path -> LayersOf(stamp)] /\ layers'[p] = l
      /\ \A q \in Path : q # p => layers'[q] = layers[q]
  BY <1>1, <1>4, <1>5 DEF PackageTypes
<1>7. ASSUME NEW q \in Path, NEW id \in Before(stamp) \X Before(stamp), HasReached(q, id)
      PROVE  HasReached(q, id)'
  <2>1. CASE q # p
    BY <1>6, <1>7, <2>1 DEF HasReached, Stored, Qualifies
  <2>2. CASE q = p
    <3>1. id[1] <= g /\ id[2] <= layers[p].pair[2] /\ id[1] \in Nat /\ id[2] \in Nat
      BY <1>7, <2>2 DEF Before, HasReached
    <3>2. l # NoLayer
      BY <1>3, <1>5 DEF NoLayer, Unset
    <3>3. id[2] < g /\ g \in Nat
      BY <1>2, <1>3, <3>1 DEF Before
    <3> HIDE DEF g
    <3> QED BY <1>5, <1>6, <2>2, <3>1, <3>2, <3>3 DEF HasReached, Stored
  <2> QED BY <2>1, <2>2
<1>8. stamp' \in Nat /\ stamp <= stamp' /\ stamp' = stamp
  BY <1>2, <1>3
<1> QED BY <1>2, <1>6, <1>7, <1>8, PipelineMoves

\* What is current and qualifies may be published.
LEMMA CurrentIsReached ==
  ASSUME PackageTypes, NEW p \in Path, Qualifies(p)
  PROVE  /\ layers[p].pair # Unset /\ HasReached(p, layers[p].pair)
         /\ layers[p].pair \in (Before(stamp) \ {0}) \X (Before(stamp) \ {0})
<1>1. layers[p] \in LayersOf(stamp)
  BY DEF PackageTypes
<1>2. layers[p].pair # Unset /\ Stored(p)
  BY <1>1, QualifiedIsStored DEF Qualifies
<1>3. HasReached(p, layers[p].pair)
  BY <1>1, <1>2 DEF HasReached, LayersOf, Before
<1>4. layers[p].pair \in (Before(stamp) \ {0}) \X (Before(stamp) \ {0})
  BY <1>1 DEF Qualifies, LayersOf
<1> QED BY <1>2, <1>3, <1>4

LEMMA SanctionInv ==
  ASSUME PackagesInv, NEW p \in Path, Sanction(p)
  PROVE  PackagesInv'
<1> DEFINE id == layers[p].pair
<1> USE DEF PackagesInv
<1>1. /\ Qualifies(p) /\ entries' = [entries EXCEPT ![p] = id]
      /\ sanctioned' = sanctioned \cup {<<p, id>>}
      /\ alone' = (alone \/ entries[p] = Unset)
      /\ UNCHANGED <<layers, files, digests, exports, seed, stamp>>
  BY DEF Sanction
<1>2. /\ id # Unset /\ HasReached(p, id)
      /\ id \in (Before(stamp) \ {0}) \X (Before(stamp) \ {0}) /\ id \in Nat \X Nat
  BY <1>1, CurrentIsReached DEF Before
<1> HIDE DEF id
<1>3. PackageTypes'
  <2>1. entries' \in [Path -> Nat \X Nat] /\ alone' \in BOOLEAN
    BY <1>1, <1>2 DEF PackageTypes
  <2> QED BY <1>1, <2>1 DEF PackageTypes
<1>4. SanctionedExists'
  BY <1>1, <1>2 DEF SanctionedExists
<1>5. FilesAreAuthentic' /\ ExportsAreAuthentic'
  BY <1>1 DEF FilesAreAuthentic, ExportsAreAuthentic, Authentic
<1>6. \A q, i : HasReached(q, i)' <=> HasReached(q, i)
  BY <1>1 DEF HasReached, Stored, Qualifies
<1>7. EntriesAreReached'
  <2> SUFFICES ASSUME NEW q \in Path, entries'[q] # Unset
               PROVE  <<q, entries'[q]>> \in sanctioned' /\ HasReached(q, entries'[q])
    BY <1>1 DEF EntriesAreReached, HasReached, Stored, Qualifies
  <2>1. CASE q = p
    BY <1>1, <1>2, <2>1 DEF PackageTypes
  <2>2. CASE q # p
    <3>1. entries'[q] = entries[q]
      BY <1>1, <2>2 DEF PackageTypes
    <3> QED BY <1>1, <3>1 DEF EntriesAreReached
  <2> QED BY <2>1, <2>2
<1>8. SeedIsAuthentic'
  <2>1. \A q \in seed.checked : HasReached(q, seed.set[q].header)'
    BY <1>1 DEF SeedIsAuthentic, HasReached, Stored, Qualifies
  <2> QED BY <1>1, <2>1 DEF SeedIsAuthentic
<1>9. SeededTogether'
  BY <1>1, <1>2 DEF SeededTogether, PackageTypes
<1> QED BY <1>3, <1>4, <1>5, <1>7, <1>8, <1>9

-----------------------------------------------------------------------------
(* Exports: each step changes one export, and at most one file or the       *)
(* manifest.                                                                *)

ExportJob(n) ==
  [at : {"idle", "reading", "sealed"}, path : Path, header : Nat \X Nat, rows : LayersOf(n),
   manifest : {<<>>} \cup [Path -> Package(n)],
   left : SUBSET {"entry", "lessons", "sections", "items", "options"}]

\* An export that is under way has what the invariant says of it.
SoundExport(j) ==
  /\ j \in ExportJob(stamp)
  /\ j.at # "idle" => /\ <<j.path, j.header>> \in sanctioned
                      /\ j.manifest \in [Path -> Package(stamp)]
                      /\ \A p \in Path : Authentic(p, j.manifest[p])

SoundPackages(set) ==
  set \in [Path -> Package(stamp)] /\ \A p \in Path : Authentic(p, set[p])

LEMMA ExportIsSound ==
  ASSUME PackagesInv
  PROVE  /\ \A x \in Exporter : SoundExport(exports[x])
         /\ SoundExport(NoExport) /\ SoundPackages(files) /\ SoundPackages(digests)
<1> USE DEF PackagesInv
<1>1. \A x \in Exporter : SoundExport(exports[x])
  BY DEF PackageTypes, ExportJob, SoundExport, ExportsAreAuthentic
<1>2. SoundExport(NoExport)
  BY IdleFacts DEF PackageTypes, ExportJob, SoundExport
<1> QED BY <1>1, <1>2 DEF SoundPackages, PackageTypes, FilesAreAuthentic

LEMMA ExportMoves ==
  ASSUME PackagesInv, OutsideExport, NEW x \in Exporter, NEW j, SoundExport(j),
         exports' = [exports EXCEPT ![x] = j], SoundPackages(files'), SoundPackages(digests')
  PROVE  PackagesInv'
<1> USE DEF PackagesInv
<1>1. UNCHANGED <<layers, entries, seed, sanctioned, alone, stamp>>
  BY DEF OutsideExport
<1>2. \A y \in Exporter : SoundExport(exports'[y])
  BY ExportIsSound DEF PackageTypes
<1>3. exports' \in [Exporter -> ExportJob(stamp)]
  BY DEF SoundExport, PackageTypes, ExportJob
<1>4. PackageTypes'
  BY <1>1, <1>3 DEF PackageTypes, ExportJob, SoundPackages
<1>5. FilesAreAuthentic' /\ ExportsAreAuthentic'
  BY <1>1, <1>2 DEF FilesAreAuthentic, ExportsAreAuthentic, SoundPackages, SoundExport, Authentic
<1>6. EntriesAreReached' /\ SeedIsAuthentic'
  BY <1>1 DEF EntriesAreReached, SeedIsAuthentic, HasReached, Stored, Qualifies
<1> QED BY <1>1, <1>4, <1>5, <1>6 DEF SanctionedExists, SeededTogether

LEMMA BeginExportInv ==
  ASSUME PackagesInv, NEW x \in Exporter, NEW p \in Path, BeginExport(x, p)
  PROVE  PackagesInv'
<1> DEFINE tables == {"entry", "lessons", "sections", "items", "options"}
           j == [at |-> "reading", path |-> p, manifest |-> digests, header |-> entries[p],
                 left |-> tables, rows |-> NoLayer]
<1>1. /\ exports' = [exports EXCEPT ![x] = j] /\ Qualifies(p) /\ entries[p] = layers[p].pair
      /\ OutsideExport /\ UNCHANGED <<files, digests>>
  BY DEF BeginExport
<1>2. <<p, entries[p]>> \in sanctioned
  BY <1>1, CurrentIsReached DEF PackagesInv, EntriesAreReached
<1>3. NoLayer \in LayersOf(stamp) /\ entries[p] \in Nat \X Nat
  BY BlankFacts DEF PackagesInv, PackageTypes
<1>4. SoundExport(j)
  BY <1>2, <1>3, ExportIsSound DEF SoundExport, ExportJob, SoundPackages
<1> QED BY <1>1, <1>4, ExportIsSound, ExportMoves

LEMMA ReadTableInv ==
  ASSUME PackagesInv, NEW x \in Exporter, NEW table \in exports[x].left, ReadTable(x, table)
  PROVE  PackagesInv'
<1> DEFINE j == [exports[x] EXCEPT !.left = @ \ {table}]
           now == layers[j.path]
<1>1. /\ exports' = [exports EXCEPT ![x] = Took(j, table)]
      /\ OutsideExport /\ UNCHANGED <<files, digests>>
  BY DEF ReadTable
<1>2. SoundExport(j)
  BY ExportIsSound DEF SoundExport, ExportJob
<1>3. now \in LayersOf(stamp) /\ j.rows \in LayersOf(stamp) /\ j \in ExportJob(stamp)
  BY <1>2 DEF SoundExport, ExportJob, PackagesInv, PackageTypes
<1>4. ASSUME NEW r \in LayersOf(stamp)
      PROVE  SoundExport([j EXCEPT !.rows = r])
  <2> HIDE DEF j
  <2> QED BY <1>2 DEF SoundExport, ExportJob
<1> HIDE DEF j
<1>5. SoundExport(Took(j, table))
  <2> DEFINE a == [j.rows.pair EXCEPT ![1] = now.pair[1]]
             b == [j.rows.pair EXCEPT ![2] = now.pair[2]]
             s == now.sections \cap {j.header[1]}
             o == now.options \cap {j.header[2]}
  <2>1. now.pair[1] \in Before(stamp) /\ now.pair[2] \in Before(stamp)
        /\ j.rows.pair \in Before(stamp) \X Before(stamp)
    BY <1>3 DEF LayersOf
  <2>2. a \in Before(stamp) \X Before(stamp) /\ b \in Before(stamp) \X Before(stamp)
    BY <2>1, ManifestPairFacts
  <2>3. s \in SUBSET (Nat \ {0}) /\ o \in SUBSET (Nat \ {0}) /\ now.concept \in Nat
    BY <1>3 DEF LayersOf
  <2>4. \/ Took(j, table) = NoExport
        \/ Took(j, table) = [j EXCEPT !.rows = [j.rows EXCEPT !.pair = a]]
        \/ Took(j, table) = [j EXCEPT !.rows = [j.rows EXCEPT !.pair = b]]
        \/ Took(j, table) = [j EXCEPT !.rows = [j.rows EXCEPT !.sections = s]]
        \/ Took(j, table) = [j EXCEPT !.rows = [j.rows EXCEPT !.options = o]]
        \/ Took(j, table) = [j EXCEPT !.rows = [j.rows EXCEPT !.concept = now.concept]]
    BY <1>3 DEF Took, ExportJob, LayersOf
  <2> HIDE DEF a, b, s, o, now
  <2>5. /\ [j.rows EXCEPT !.pair = a] \in LayersOf(stamp)
        /\ [j.rows EXCEPT !.pair = b] \in LayersOf(stamp)
        /\ [j.rows EXCEPT !.sections = s] \in LayersOf(stamp)
        /\ [j.rows EXCEPT !.options = o] \in LayersOf(stamp)
        /\ [j.rows EXCEPT !.concept = now.concept] \in LayersOf(stamp)
    BY <1>3, <2>2, <2>3 DEF LayersOf
  <2> QED BY <1>4, <2>4, <2>5, ExportIsSound
<1> QED BY <1>1, <1>5, ExportIsSound, ExportMoves

\* The package an export seals is authentic.
LEMMA SealedIsAuthentic ==
  ASSUME NEW j, SoundExport(j), j.at # "idle"
  PROVE  [header |-> j.header, rows |-> j.rows] \in Package(stamp)
         /\ Authentic(j.path, [header |-> j.header, rows |-> j.rows]) /\ j.path \in Path
BY DEF SoundExport, ExportJob, Package, Authentic

LEMMA SealPackageInv ==
  ASSUME PackagesInv, NEW x \in Exporter, SealPackage(x)
  PROVE  PackagesInv'
<1> DEFINE j == exports[x]
<1>1. /\ j.at = "reading" /\ OutsideExport /\ UNCHANGED digests
      /\ SoundExport(j) /\ exports \in [Exporter -> ExportJob(stamp)]
  BY ExportIsSound DEF SealPackage, PackagesInv, PackageTypes, ExportJob
<1>2. CASE Sealable(j)
  <2> DEFINE package == [header |-> j.header, rows |-> j.rows]
  <2>1. /\ files' = [files EXCEPT ![j.path] = package]
        /\ exports' = [exports EXCEPT ![x].at = "sealed"]
    BY <1>2 DEF SealPackage
  <2>2. package \in Package(stamp) /\ Authentic(j.path, package) /\ j.path \in Path
    BY <1>1, SealedIsAuthentic
  <2> HIDE DEF package
  <2>3. SoundPackages(files')
    BY <2>1, <2>2, ExportIsSound DEF SoundPackages
  <2>4. SoundExport([j EXCEPT !.at = "sealed"])
    <3> HIDE DEF j
    <3> QED BY <1>1 DEF SoundExport, ExportJob
  <2>5. exports' = [exports EXCEPT ![x] = [j EXCEPT !.at = "sealed"]]
    BY <1>1, <2>1
  <2> QED BY <1>1, <2>3, <2>4, <2>5, ExportIsSound, ExportMoves
<1>3. CASE ~Sealable(j)
  BY <1>1, <1>3, ExportIsSound, ExportMoves DEF SealPackage
<1> QED BY <1>2, <1>3

LEMMA WriteManifestInv ==
  ASSUME PackagesInv, NEW x \in Exporter, WriteManifest(x)
  PROVE  PackagesInv'
<1> DEFINE j == exports[x]
           package == [header |-> j.header, rows |-> j.rows]
<1>1. /\ j.at = "sealed" /\ OutsideExport /\ UNCHANGED files /\ SoundExport(j)
      /\ digests' = [j.manifest EXCEPT ![j.path] = package]
      /\ exports' = [exports EXCEPT ![x] = NoExport]
  BY ExportIsSound DEF WriteManifest
<1>2. package \in Package(stamp) /\ Authentic(j.path, package) /\ j.path \in Path
  BY <1>1, SealedIsAuthentic
<1> HIDE DEF package
<1>3. SoundPackages(digests')
  BY <1>1, <1>2 DEF SoundPackages, SoundExport
<1> QED BY <1>1, <1>3, ExportIsSound, ExportMoves

LEMMA ExportDiesInv ==
  ASSUME PackagesInv, NEW x \in Exporter, ExportDies(x)
  PROVE  PackagesInv'
BY ExportIsSound, ExportMoves DEF ExportDies

-----------------------------------------------------------------------------
(* Seed and install. *)

SeedJob(n) ==
  [at : Seeding, set : UNION {[S -> Package(n)] : S \in SUBSET Path}, checked : SUBSET Path]

\* What a seed has in hand, in states where the layers are as they are now.
SoundSeed(s) ==
  /\ s \in SeedJob(stamp)
  /\ \A p \in DOMAIN s.set : <<p, s.set[p].header>> \in sanctioned
  /\ s.checked # {} => s.at = "installed"
  /\ \A p \in s.checked : p \in DOMAIN s.set /\ HasReached(p, s.set[p].header)

LEMMA SeedIsSound ==
  ASSUME PackagesInv
  PROVE  SoundSeed(seed) /\ SoundSeed(NoSeed)
<1>1. SoundSeed(seed)
  BY DEF PackagesInv, PackageTypes, SeedIsAuthentic, SoundSeed, SeedJob
<1>2. DOMAIN NoSeed.set = {}
  BY IdleFacts
<1> QED BY <1>1, <1>2, IdleFacts DEF PackagesInv, PackageTypes, SoundSeed, SeedJob

LEMMA PackagedIsPath ==
  ASSUME NEW n, NEW s \in SeedJob(n)
  PROVE  DOMAIN s.set \subseteq Path /\ \A p \in DOMAIN s.set : s.set[p] \in Package(n)
<1>1. PICK S \in SUBSET Path : s.set \in [S -> Package(n)]
  BY DEF SeedJob
<1> QED BY <1>1

LEMMA SeedMoves ==
  ASSUME PackagesInv, OutsideSeed, seed' \in SeedJob(stamp),
         layers' \in [Path -> LayersOf(stamp)], entries' \in [Path -> Nat \X Nat], alone' \in BOOLEAN,
         EntriesAreReached', SeedIsAuthentic', SeededTogether'
  PROVE  PackagesInv'
<1>1. UNCHANGED <<files, digests, exports, sanctioned, stamp>>
  BY DEF OutsideSeed
<1>2. PackageTypes'
  BY <1>1 DEF PackagesInv, PackageTypes, SeedJob
<1>3. FilesAreAuthentic' /\ ExportsAreAuthentic' /\ SanctionedExists'
  BY <1>1 DEF PackagesInv, FilesAreAuthentic, ExportsAreAuthentic, SanctionedExists, Authentic
<1> QED BY <1>2, <1>3 DEF PackagesInv

LEMMA SeedOnlyMoves ==
  ASSUME PackagesInv, OutsideSeed, UNCHANGED <<layers, entries, alone>>,
         NEW s, SoundSeed(s), seed' = s
  PROVE  PackagesInv'
<1>1. sanctioned' = sanctioned /\ stamp' = stamp
  BY DEF OutsideSeed
<1>2. EntriesAreReached' /\ SeededTogether'
  BY <1>1 DEF PackagesInv, EntriesAreReached, SeededTogether, HasReached, Stored, Qualifies
<1>3. SeedIsAuthentic'
  BY <1>1 DEF SoundSeed, SeedIsAuthentic, HasReached, Stored, Qualifies
<1>4. /\ layers' \in [Path -> LayersOf(stamp)] /\ entries' \in [Path -> Nat \X Nat]
      /\ alone' \in BOOLEAN /\ seed' \in SeedJob(stamp)
  BY DEF PackagesInv, PackageTypes, SoundSeed
<1> QED BY <1>2, <1>3, <1>4, SeedMoves

LEMMA BeginSeedInv ==
  ASSUME PackagesInv, BeginSeed
  PROVE  PackagesInv'
<1> DEFINE s == [NoSeed EXCEPT !.at = "validated"]
<1>1. OutsideSeed /\ UNCHANGED <<layers, entries, alone>> /\ seed' = s
  BY DEF BeginSeed
<1>2. SoundSeed(s)
  <2>1. s \in SeedJob(stamp) /\ s.set = NoSeed.set /\ s.checked = {}
    BY SeedIsSound, IdleFacts DEF SoundSeed, SeedJob, Seeding, NoSeed
  <2> QED BY <2>1, SeedIsSound DEF SoundSeed
<1> QED BY <1>1, <1>2, SeedOnlyMoves

LEMMA LoadedIsSound ==
  ASSUME PackagesInv, NEW complete \in BOOLEAN, ValidSet(complete)
  PROVE  SoundSeed(Loaded)
<1> DEFINE set == [p \in Named |-> files[p]]
<1>1. \A p \in Named : files[p] \in Package(stamp) /\ <<p, files[p].header>> \in sanctioned
  BY ExportIsSound DEF SoundPackages, Named, ValidSet, Authentic
<1>2. set \in UNION {[S -> Package(stamp)] : S \in SUBSET Path}
  <2>1. set \in [Named -> Package(stamp)] /\ Named \in SUBSET Path
    BY <1>1 DEF Named
  <2> HIDE DEF set
  <2> QED BY <2>1
<1>3. DOMAIN set = Named /\ \A p \in Named : set[p] = files[p]
  OBVIOUS
<1>4. Loaded = [NoSeed EXCEPT !.at = "loaded", !.set = set]
  BY DEF Loaded
<1> HIDE DEF set
<1>5. Loaded.at = "loaded" /\ Loaded.set = set /\ Loaded.checked = {} /\ Loaded \in SeedJob(stamp)
  BY <1>2, <1>4 DEF NoSeed, SeedJob, Seeding
<1> QED BY <1>1, <1>3, <1>5 DEF SoundSeed, SeedJob, Seeding

LEMMA LoadPackagesInv ==
  ASSUME PackagesInv, LoadPackages
  PROVE  PackagesInv'
<1>1. OutsideSeed /\ UNCHANGED <<layers, entries, alone>>
      /\ seed' = IF ValidSet(TRUE) THEN Loaded ELSE NoSeed
  BY DEF LoadPackages
<1>2. SoundSeed(IF ValidSet(TRUE) THEN Loaded ELSE NoSeed)
  BY LoadedIsSound, SeedIsSound
<1> QED BY <1>1, <1>2, SeedOnlyMoves

LEMMA BeginInstallInv ==
  ASSUME PackagesInv, NEW complete \in BOOLEAN, BeginInstall(complete)
  PROVE  PackagesInv'
BY LoadedIsSound, SeedOnlyMoves DEF BeginInstall

LEMMA ResetDatabaseInv ==
  ASSUME PackagesInv, ResetDatabase
  PROVE  PackagesInv'
<1>1. /\ seed.at = "validated" /\ seed' = [seed EXCEPT !.at = "reset"] /\ OutsideSeed
      /\ layers' = [p \in Path |-> NoLayer] /\ entries' = [p \in Path |-> Unset] /\ alone' = FALSE
  BY DEF ResetDatabase
<1>2. SoundSeed(seed) /\ seed.checked = {} /\ sanctioned' = sanctioned
  BY <1>1, SeedIsSound DEF SoundSeed, OutsideSeed
<1>3. seed' \in SeedJob(stamp) /\ seed'.set = seed.set /\ seed'.checked = {}
  BY <1>1, <1>2 DEF SoundSeed, SeedJob, Seeding
<1>4. layers' \in [Path -> LayersOf(stamp)] /\ entries' \in [Path -> Nat \X Nat]
  <2>1. NoLayer \in LayersOf(stamp) /\ Unset \in Nat \X Nat
    BY BlankFacts DEF PackagesInv, PackageTypes, Unset
  <2> QED BY <1>1, <2>1
<1>5. EntriesAreReached' /\ SeededTogether'
  BY <1>1 DEF EntriesAreReached, SeededTogether
<1>6. SeedIsAuthentic'
  BY <1>2, <1>3 DEF SeedIsAuthentic, SoundSeed
<1> QED BY <1>1, <1>3, <1>4, <1>5, <1>6, SeedMoves

\* Rows are installed where nothing is stored, so nothing is offered there.
LEMMA InstallRowsInv ==
  ASSUME PackagesInv, InstallRows
  PROVE  PackagesInv'
<1>1. seed.at = "loaded" /\ OutsideSeed /\ UNCHANGED <<entries, alone>>
  BY DEF InstallRows
<1>2. CASE ~Fits(seed.set)
  BY <1>1, <1>2, SeedIsSound, SeedOnlyMoves DEF InstallRows
<1>3. CASE Fits(seed.set)
  <2>1. /\ layers' = [p \in Path |-> IF p \in DOMAIN seed.set THEN seed.set[p].rows ELSE layers[p]]
        /\ seed' = [seed EXCEPT !.at = "installed"]
    BY <1>3 DEF InstallRows
  <2>2. SoundSeed(seed) /\ seed.checked = {} /\ sanctioned' = sanctioned /\ stamp' = stamp
    BY <1>1, SeedIsSound DEF SoundSeed, OutsideSeed
  <2>3. seed' \in SeedJob(stamp) /\ seed'.set = seed.set /\ seed'.checked = {}
    BY <2>1, <2>2 DEF SoundSeed, SeedJob, Seeding
  <2>4. layers' \in [Path -> LayersOf(stamp)]
    <3>1. \A p \in DOMAIN seed.set : seed.set[p].rows \in LayersOf(stamp)
      BY <2>2, PackagedIsPath DEF SoundSeed, Package
    <3> QED BY <2>1, <3>1 DEF PackagesInv, PackageTypes
  <2>5. EntriesAreReached'
    <3> SUFFICES ASSUME NEW p \in Path, entries[p] # Unset
                 PROVE  <<p, entries[p]>> \in sanctioned /\ HasReached(p, entries[p])'
      BY <1>1, <2>2 DEF EntriesAreReached
    <3>1. <<p, entries[p]>> \in sanctioned /\ HasReached(p, entries[p])
      BY DEF PackagesInv, EntriesAreReached
    <3>2. layers'[p] = layers[p]
      BY <1>3, <2>1, <3>1 DEF Fits, HasReached
    <3> QED BY <1>1, <3>1, <3>2 DEF HasReached, Stored, Qualifies
  <2>6. SeedIsAuthentic'
    BY <2>2, <2>3 DEF SeedIsAuthentic, SoundSeed
  <2>7. entries' \in [Path -> Nat \X Nat] /\ alone' \in BOOLEAN /\ SeededTogether'
    BY <1>1 DEF PackagesInv, PackageTypes, SeededTogether
  <2> QED BY <1>1, <2>3, <2>4, <2>5, <2>6, <2>7, SeedMoves
<1> QED BY <1>2, <1>3

LEMMA QualifyInstalledInv ==
  ASSUME PackagesInv, NEW p \in Path, QualifyInstalled(p)
  PROVE  PackagesInv'
<1>1. /\ seed.at = "installed" /\ p \in DOMAIN seed.set
      /\ OutsideSeed /\ UNCHANGED <<layers, entries, alone>>
      /\ seed' = IF InstalledQualifies(p) THEN [seed EXCEPT !.checked = @ \cup {p}] ELSE NoSeed
  BY DEF QualifyInstalled
<1>2. CASE InstalledQualifies(p)
  <2> DEFINE s == [seed EXCEPT !.checked = @ \cup {p}]
  <2>1. HasReached(p, seed.set[p].header)
    BY <1>2, CurrentIsReached DEF InstalledQualifies, PackagesInv
  <2>2. /\ SoundSeed(seed) /\ s \in SeedJob(stamp) /\ s.at = "installed"
        /\ s.set = seed.set /\ s.checked = seed.checked \cup {p}
    BY <1>1, SeedIsSound DEF SoundSeed, SeedJob
  <2> HIDE DEF s
  <2>3. SoundSeed(s)
    BY <1>1, <2>1, <2>2 DEF SoundSeed
  <2> QED BY <1>1, <1>2, <2>3, SeedOnlyMoves DEF s
<1>3. CASE ~InstalledQualifies(p)
  BY <1>1, <1>3, SeedIsSound, SeedOnlyMoves
<1> QED BY <1>2, <1>3

\* Every path of the set is published or none is, and each as it was checked.
LEMMA PublishEntriesInv ==
  ASSUME PackagesInv, PublishEntries
  PROVE  PackagesInv'
<1> DEFINE set == seed.set
           all == \A p \in DOMAIN set : layers[p].pair = set[p].header /\ entries[p] = Unset
<1>1. /\ seed.checked = DOMAIN set /\ seed' = NoSeed /\ OutsideSeed /\ layers' = layers
      /\ entries' = [p \in Path |-> IF p \in PublishedBy(set) THEN set[p].header ELSE entries[p]]
      /\ alone' = (alone \/ DOMAIN set # Path)
  BY DEF PublishEntries
<1>2. /\ SoundSeed(seed) /\ SoundSeed(NoSeed) /\ sanctioned' = sanctioned /\ stamp' = stamp
      /\ DOMAIN set \subseteq Path /\ \A p \in DOMAIN set : set[p] \in Package(stamp)
  BY <1>1, SeedIsSound, PackagedIsPath DEF SoundSeed, OutsideSeed
<1>3. ASSUME NEW p \in DOMAIN set
      PROVE  /\ <<p, set[p].header>> \in sanctioned /\ HasReached(p, set[p].header)
             /\ set[p].header # Unset /\ set[p].header \in Nat \X Nat
  <2>1. <<p, set[p].header>> \in sanctioned /\ HasReached(p, set[p].header)
    BY <1>1, <1>2 DEF SoundSeed
  <2>2. set[p].header \in (Before(stamp) \ {0}) \X (Before(stamp) \ {0})
    BY <2>1 DEF PackagesInv, SanctionedExists
  <2> QED BY <2>1, <2>2 DEF Unset, Before
<1>4. PublishedBy(set) = IF all THEN DOMAIN set ELSE {}
  BY DEF PublishedBy
<1> HIDE DEF set, all
<1>5. entries' \in [Path -> Nat \X Nat] /\ alone' \in BOOLEAN /\ layers' \in [Path -> LayersOf(stamp)]
  BY <1>1, <1>3, <1>4 DEF PackagesInv, PackageTypes
<1>6. EntriesAreReached'
  <2> SUFFICES ASSUME NEW p \in Path, entries'[p] # Unset
               PROVE  <<p, entries'[p]>> \in sanctioned /\ HasReached(p, entries'[p])
    BY <1>1, <1>2 DEF EntriesAreReached, HasReached, Stored, Qualifies
  <2>1. CASE p \in PublishedBy(set)
    BY <1>1, <1>3, <1>4, <2>1
  <2>2. CASE p \notin PublishedBy(set)
    BY <1>1, <2>2 DEF PackagesInv, EntriesAreReached
  <2> QED BY <2>1, <2>2
<1>7. SeedIsAuthentic'
  <2>1. DOMAIN NoSeed.set = {}
    BY IdleFacts
  <2> QED BY <1>1, <2>1, IdleFacts DEF SeedIsAuthentic
<1>8. SeededTogether'
  BY <1>1, <1>3, <1>4 DEF SeededTogether, PackagesInv
<1>9. seed' \in SeedJob(stamp)
  BY <1>1, <1>2 DEF SoundSeed
<1> QED BY <1>1, <1>5, <1>6, <1>7, <1>8, <1>9, SeedMoves

LEMMA SeedDiesInv ==
  ASSUME PackagesInv, SeedDies
  PROVE  PackagesInv'
BY SeedIsSound, SeedOnlyMoves DEF SeedDies

-----------------------------------------------------------------------------
(* The theorems. *)

LEMMA PackagesStep == PackagesInv /\ [PackagesNext]_packageVars => PackagesInv'
<1> SUFFICES ASSUME PackagesInv, [PackagesNext]_packageVars PROVE PackagesInv'
  OBVIOUS
<1>1. ASSUME NEW p \in Path, BuildPath(p) \/ RenewLessons(p) \/ RenewItems(p) \/ Sanction(p)
      PROVE  PackagesInv'
  BY <1>1, BuildPathInv, RenewLessonsInv, RenewItemsInv, SanctionInv
<1>2. ASSUME NEW x \in Exporter, NEW p \in Path, BeginExport(x, p)
      PROVE  PackagesInv'
  BY <1>2, BeginExportInv
<1>3. ASSUME NEW x \in Exporter, NEW table \in exports[x].left, ReadTable(x, table)
      PROVE  PackagesInv'
  BY <1>3, ReadTableInv
<1>4. ASSUME NEW x \in Exporter, SealPackage(x) \/ WriteManifest(x) \/ ExportDies(x)
      PROVE  PackagesInv'
  BY <1>4, SealPackageInv, WriteManifestInv, ExportDiesInv
<1>5. CASE BeginSeed \/ ResetDatabase \/ LoadPackages \/ InstallRows \/ PublishEntries \/ SeedDies
  BY <1>5, BeginSeedInv, ResetDatabaseInv, LoadPackagesInv, InstallRowsInv, PublishEntriesInv,
     SeedDiesInv
<1>6. ASSUME NEW c \in BOOLEAN, BeginInstall(c)
      PROVE  PackagesInv'
  BY <1>6, BeginInstallInv
<1>7. ASSUME NEW p \in Path, QualifyInstalled(p)
      PROVE  PackagesInv'
  BY <1>7, QualifyInstalledInv
<1>8. CASE UNCHANGED packageVars
  <2>1. /\ OutsideExport /\ UNCHANGED <<layers, entries, alone, seed>> /\ OutsideSeed
    BY <1>8 DEF packageVars, OutsideSeed, OutsideExport
  <2> QED BY <2>1, SeedIsSound, SeedOnlyMoves
<1> QED BY <1>1, <1>2, <1>3, <1>4, <1>5, <1>6, <1>7, <1>8 DEF PackagesNext

\* The inductive invariant of the packages: every package, manifest, export and
\* seed holds only identities an operator published, and what is offered has
\* been reached by the layers behind it (PostgresAcceptedPathPackageStore and
\* the export, seed and install commands).
THEOREM PackagesInvariant == PackagesSpec => []PackagesInv
<1>1. (\E begun \in {"empty", "whole", "rebuilt"}, limit \in Nat : PackagesInit(begun, limit))
      => PackagesInv
  BY PackagesInitInv
<1> QED BY <1>1, PackagesStep, PTL DEF PackagesSpec

\* What the catalog offers was published by an operator, and lacks no section
\* and no option while it is current, whatever an export read on both sides of
\* a reset and whichever files and manifest a seed found.
THEOREM OfferedPathsAreWhole == PackagesSpec => []OfferedIsWhole
<1>1. PackagesInv => OfferedIsWhole
  BY DEF PackagesInv, EntriesAreReached, HasReached, OfferedIsWhole
<1> QED BY <1>1, PackagesInvariant, PTL

\* A seed that is refused or dies half way offers no part of its set: unless an
\* operator published a path alone, the catalog is complete or empty.
THEOREM CatalogIsSeededTogether == PackagesSpec => []SeededTogether
<1>1. PackagesInv => SeededTogether
  BY DEF PackagesInv
<1> QED BY <1>1, PackagesInvariant, PTL

-----------------------------------------------------------------------------
(* The publication of graph versions, whatever two commands do at a time. *)

\* A published identity has one row: its key and its IRI are in no other.
RegistryStands ==
  /\ IsFiniteSet(registry)
  /\ \A row \in registry : row = [key |-> row.key, iri |-> row.iri]
  /\ \A row, other \in registry : row.key = other.key \/ row.iri = other.iri => row = other

\* The concepts of a version have IRIs of their own, which are registered.
VersionStands(v) ==
  LET concepts == versions[v].concepts
  IN  /\ \A k, l \in DOMAIN concepts : concepts[k].iri = concepts[l].iri => k = l
      /\ IrisOf(RowsOf(concepts)) \subseteq IrisOf(registry)

\* A label that was published is merged into no other, and none leaves its domain.
ArtifactStands(a) ==
  LET artifact == artifacts[a]
  IN  /\ artifact.base \in 0 .. Len(versions) /\ artifact.runs \in Selections
      /\ artifact.captured \subseteq registry
      /\ \A k \in DOMAIN artifact.merges : k \notin KeysOf(artifact.captured) /\ artifact.merges[k][1] = k[1]

\* What the version that is assembled has of its base.
HasTheBase(base, concepts) ==
  base # 0 =>
    \A old \in Range(versions[base].concepts) :
      \E new \in Range(concepts) : new.iri = old.iri /\ old.evidence \subseteq new.evidence

\* And of its runs.
HasTheRuns(runs, captured, concepts) ==
  \A r \in Range(runs) : \A k \in KeysIn(r) :
    LET holders == {h \in DOMAIN concepts : <<r, k>> \in concepts[h].evidence}
    IN  /\ \E h \in holders : h[1] = k[1]
        /\ \A row \in captured : row.key = k => k \in holders /\ concepts[k].iri = row.iri

\* The labels it found registered have the IRIs they are registered under.
HasTheSeen(seen, concepts) ==
  \A k \in DOMAIN concepts : k \in KeysOf(seen) => [key |-> k, iri |-> concepts[k].iri] \in seen

BuildStands(b) ==
  LET artifact == artifacts[builds[b].artifact]
      concepts == builds[b].concepts
  IN  builds[b] # NoBuild =>
        /\ builds[b].artifact \in DOMAIN artifacts /\ IsFiniteSet(DOMAIN concepts)
        /\ HasTheBase(artifact.base, concepts)
        /\ HasTheRuns(artifact.runs, artifact.captured, concepts)
        /\ HasTheSeen(builds[b].seen, concepts)

PublicationTyped ==
  /\ \E S : versions \in Seq(S)
  /\ \E S : artifacts \in Seq(S)
  /\ DOMAIN builds = Builder

PublicationInv ==
  /\ PublicationTyped
  /\ RegistryStands
  /\ \A v \in DOMAIN versions : VersionStands(v)
  /\ \A a \in DOMAIN artifacts : ArtifactStands(a)
  /\ \A b \in Builder : BuildStands(b)

\* The first registered row of a key is its only one.
LEMMA RegistryRow ==
  ASSUME RegistryStands, NEW k \in KeysOf(registry)
  PROVE  \E i : [key |-> k, iri |-> i] \in registry
                /\ \A row \in registry : row.key = k => row.iri = i
<1>1. PICK row \in registry : row.key = k
  BY DEF KeysOf
<1>2. [key |-> k, iri |-> row.iri] \in registry
  BY <1>1 DEF RegistryStands
<1>3. \A other \in registry : other.key = k => other.iri = row.iri
  BY <1>1 DEF RegistryStands
<1> QED
  BY <1>2, <1>3

\* A set that is counted by its members' keys is finite.
LEMMA RegisteredKeys ==
  ASSUME NEW some, IsFiniteSet(some)
  PROVE  IsFiniteSet(KeysOf(some))
<1> DEFINE f == [row \in some |-> row.key]
<1>1. f \in Surjection(some, KeysOf(some))
  BY DEF Surjection, KeysOf
<1> QED
  BY <1>1, FS_Surjection

-----------------------------------------------------------------------------
\* What is read of a version: its concepts, each under a registered label.
LEMMA SnapshotFacts ==
  ASSUME RegistryStands, NEW v \in DOMAIN versions, v # 0, VersionStands(v)
  PROVE  /\ IsFiniteSet(DOMAIN Snapshot(v))
         /\ \A k \in DOMAIN Snapshot(v) : [key |-> k, iri |-> Snapshot(v)[k].iri] \in registry
         /\ \A c \in Range(versions[v].concepts) : \E k \in DOMAIN Snapshot(v) : Snapshot(v)[k] = c
<1> DEFINE concepts == versions[v].concepts
           held == {row \in registry : row.iri \in IrisOf(RowsOf(concepts))}
           Concept(k) == CHOOSE c \in Range(concepts) : [key |-> k, iri |-> c.iri] \in held
           snap == [k \in KeysOf(held) |-> Concept(k)]
<1>1. Snapshot(v) = snap
  <2>1. Snapshot(v) = IF v = 0 THEN <<>> ELSE snap
    BY DEF Snapshot
  <2> HIDE DEF snap
  <2> QED
    BY <2>1
<1>2. held \in SUBSET registry /\ IsFiniteSet(held)
  BY FS_Subset DEF RegistryStands
<1>3. DOMAIN snap = KeysOf(held) /\ IsFiniteSet(DOMAIN snap)
  BY <1>2, RegisteredKeys
<1>4. ASSUME NEW c \in Range(concepts), NEW row \in registry, row.iri = c.iri
      PROVE  row.key \in DOMAIN snap /\ [key |-> row.key, iri |-> c.iri] \in held
  <2>1. PICK k \in DOMAIN concepts : concepts[k] = c
    BY DEF Range
  <2>2. c.iri \in IrisOf(RowsOf(concepts))
    <3>1. [key |-> k, iri |-> concepts[k].iri] \in RowsOf(concepts)
      BY DEF RowsOf
    <3>2. [key |-> k, iri |-> concepts[k].iri].iri = c.iri
      BY <2>1
    <3> QED
      BY <3>1, <3>2 DEF IrisOf
  <2>3. row \in held
    BY <1>4, <2>2
  <2>4. row = [key |-> row.key, iri |-> c.iri]
    BY <1>4 DEF RegistryStands
  <2> QED
    BY <1>3, <2>3, <2>4 DEF KeysOf
<1>5. ASSUME NEW k \in KeysOf(held)
      PROVE  Concept(k) \in Range(concepts) /\ [key |-> k, iri |-> Concept(k).iri] \in held
  <2>1. PICK row \in held : row.key = k
    BY DEF KeysOf
  <2>2. \E c \in Range(concepts) : c.iri = row.iri
    <3>1. PICK named \in RowsOf(concepts) : named.iri = row.iri
      BY DEF IrisOf
    <3>2. PICK l \in DOMAIN concepts : named = [key |-> l, iri |-> concepts[l].iri]
      BY DEF RowsOf
    <3>3. concepts[l] \in Range(concepts) /\ concepts[l].iri = row.iri
      BY <3>1, <3>2 DEF Range
    <3> QED
      BY <3>3
  <2>3. \E c \in Range(concepts) : [key |-> k, iri |-> c.iri] \in held
    BY <1>4, <2>1, <2>2
  <2> QED
    BY <2>3
<1>6. ASSUME NEW c \in Range(concepts)
      PROVE  \E k \in DOMAIN snap : snap[k] = c
  <2>1. PICK l \in DOMAIN concepts : concepts[l] = c
    BY DEF Range
  <2>2. \E row \in registry : row.iri = c.iri
    <3>1. [key |-> l, iri |-> concepts[l].iri] \in RowsOf(concepts)
      BY DEF RowsOf
    <3>2. [key |-> l, iri |-> concepts[l].iri].iri = c.iri
      BY <2>1
    <3>3. c.iri \in IrisOf(RowsOf(concepts))
      BY <3>1, <3>2 DEF IrisOf
    <3>4. c.iri \in IrisOf(registry)
      BY <3>3 DEF VersionStands
    <3> QED
      BY <3>4 DEF IrisOf
  <2>3. PICK row \in registry : row.iri = c.iri
    BY <2>2
  <2>4. row.key \in KeysOf(held) /\ [key |-> row.key, iri |-> c.iri] \in registry
    BY <1>2, <1>3, <1>4, <2>3
  <2>5. Concept(row.key) \in Range(concepts) /\ [key |-> row.key, iri |-> Concept(row.key).iri] \in registry
    BY <1>2, <1>5, <2>4
  <2> DEFINE other == Concept(row.key)
  <2>6. snap[row.key] = other
    BY <2>4
  <2>7. other \in Range(concepts) /\ [key |-> row.key, iri |-> other.iri] \in registry
    BY <2>5
  <2> HIDE DEF other, snap, concepts
  <2>8. other.iri = c.iri
    <3> DEFINE one == [key |-> row.key, iri |-> other.iri]
               two == [key |-> row.key, iri |-> c.iri]
    <3>1. one.key = two.key /\ one.iri = other.iri /\ two.iri = c.iri /\ one \in registry /\ two \in registry
      BY <2>4, <2>7
    <3> HIDE DEF one, two
    <3> QED
      BY <3>1 DEF RegistryStands
  <2>9. PICK m \in DOMAIN concepts : concepts[m] = other
    BY <2>7 DEF Range
  <2>10. m = l
    BY <2>1, <2>8, <2>9 DEF VersionStands, concepts
  <2>11. other = c
    BY <2>1, <2>9, <2>10
  <2> QED
    BY <1>3, <2>4, <2>6, <2>11
<1>7. ASSUME NEW k \in DOMAIN snap
      PROVE  [key |-> k, iri |-> snap[k].iri] \in registry
  BY <1>2, <1>3, <1>5, <1>7
<1> HIDE DEF snap
<1> QED
  BY <1>1, <1>3, <1>6, <1>7

\* The base of an artifact, which may be none.
LEMMA BaseFacts ==
  ASSUME PublicationInv, NEW base \in 0 .. Len(versions)
  PROVE  /\ IsFiniteSet(DOMAIN Snapshot(base))
         /\ \A k \in DOMAIN Snapshot(base) : [key |-> k, iri |-> Snapshot(base)[k].iri] \in registry
         /\ base # 0 => \A c \in Range(versions[base].concepts) :
                          \E k \in DOMAIN Snapshot(base) : Snapshot(base)[k] = c
<1>1. CASE base = 0
  <2>1. Snapshot(base) = <<>> /\ DOMAIN Snapshot(base) = {}
    BY <1>1 DEF Snapshot
  <2> QED
    BY <1>1, <2>1, FS_EmptySet
<1>2. CASE base # 0
  <2>1. base \in DOMAIN versions
    BY <1>2 DEF PublicationInv, PublicationTyped
  <2> QED
    BY <1>2, <2>1, SnapshotFacts DEF PublicationInv
<1> QED
  BY <1>1, <1>2
-----------------------------------------------------------------------------
(* Identities: a fold of Placed, which adds one key to those that have one.   *)

Placed(known, iris, k) ==
  LET own == {row.iri : row \in {row \in known : row.key = k}}
      iri == IF own # {} THEN CHOOSE i \in own : TRUE
             ELSE Mint(k[2], IrisOf(known) \cup Range(iris))
  IN  [key \in DOMAIN iris \cup {k} |-> IF key \in DOMAIN iris THEN iris[key] ELSE iri]

\* A key that is placed keeps its IRI, and a registered one gets its own.
LEMMA PlacedFacts ==
  ASSUME NEW known, \A row \in known : row = [key |-> row.key, iri |-> row.iri], NEW iris, NEW k
  PROVE  /\ DOMAIN Placed(known, iris, k) = DOMAIN iris \cup {k}
         /\ \A key \in DOMAIN iris : Placed(known, iris, k)[key] = iris[key]
         /\ k \in KeysOf(known) \ DOMAIN iris => [key |-> k, iri |-> Placed(known, iris, k)[k]] \in known
<1> DEFINE own == {row.iri : row \in {row \in known : row.key = k}}
           iri == IF own # {} THEN CHOOSE i \in own : TRUE
                  ELSE Mint(k[2], IrisOf(known) \cup Range(iris))
<1>1. Placed(known, iris, k) = [key \in DOMAIN iris \cup {k} |-> IF key \in DOMAIN iris THEN iris[key] ELSE iri]
  BY DEF Placed
<1>2. ASSUME k \in KeysOf(known) PROVE [key |-> k, iri |-> iri] \in known
  <2>1. PICK row \in known : row.key = k
    BY <1>2 DEF KeysOf
  <2>2. own # {}
    BY <2>1
  <2>3. iri \in own
    BY <2>2
  <2>4. PICK other \in known : other.key = k /\ other.iri = iri
    BY <2>3
  <2>5. other = [key |-> other.key, iri |-> other.iri]
    BY <2>4
  <2> HIDE DEF iri
  <2> QED
    BY <2>4, <2>5
<1> HIDE DEF iri
<1> QED
  BY <1>1, <1>2

IdentityFolds(known, start, order, n, f) ==
  f = [s \in SUBSET (1 .. n) |-> IF s = {} THEN start ELSE Placed(known, f[s \ {Max(s)}], order[Max(s)])]

\* The fold is that of a function: one over a place more from one that stops before.
LEMMA IdentityFoldExists ==
  ASSUME NEW known, NEW start, NEW order, NEW n \in Nat
  PROVE  \E f : IdentityFolds(known, start, order, n, f)
<1> DEFINE S == {m \in 0 .. n : \E f : IdentityFolds(known, start, order, m, f)}
<1>1. 0 \in S
  <2> DEFINE f == [s \in SUBSET (1 .. 0) |-> start]
  <2>1. 1 .. 0 = {} /\ \A s \in SUBSET (1 .. 0) : s = {}
    OBVIOUS
  <2>2. f = [s \in SUBSET (1 .. 0) |->
               IF s = {} THEN start ELSE Placed(known, f[s \ {Max(s)}], order[Max(s)])]
    BY <2>1
  <2>3. IdentityFolds(known, start, order, 0, f)
    BY <2>2 DEF IdentityFolds
  <2> HIDE DEF f
  <2> QED
    BY <2>3
<1>2. ASSUME NEW m \in 1 .. n, m - 1 \in S PROVE m \in S
  <2>1. PICK f : IdentityFolds(known, start, order, m - 1, f)
    BY <1>2
  <2> DEFINE g == [s \in SUBSET (1 .. m) |->
                     IF m \in s THEN Placed(known, f[s \ {m}], order[m]) ELSE f[s]]
  <2>2. ASSUME NEW s \in SUBSET (1 .. m)
        PROVE  g[s] = IF s = {} THEN start ELSE Placed(known, g[s \ {Max(s)}], order[Max(s)])
    <3>1. CASE m \in s
      <4>1. s \in SUBSET (1 .. n) /\ s # {} /\ \A x \in s : x <= m
        BY <3>1
      <4>2. Max(s) \in s /\ m <= Max(s)
        BY <3>1, <4>1, MaxFacts
      <4>3. Max(s) = m
        <5>1. Max(s) \in 1 .. m /\ Max(s) <= m
          BY <4>1, <4>2
        <5> QED
          BY <4>2, <5>1
      <4>4. m \notin s \ {m} /\ s \ {m} \in SUBSET (1 .. m)
        OBVIOUS
      <4>5. g[s \ {Max(s)}] = f[s \ {m}]
        BY <4>3, <4>4
      <4>6. g[s] = Placed(known, f[s \ {m}], order[m])
        BY <3>1
      <4> HIDE DEF g
      <4> QED
        BY <4>1, <4>3, <4>5, <4>6
    <3>2. CASE m \notin s
      <4>1. s \in SUBSET (1 .. m - 1)
        BY <3>2
      <4>2. f[s] = IF s = {} THEN start ELSE Placed(known, f[s \ {Max(s)}], order[Max(s)])
        BY <2>1, <4>1 DEF IdentityFolds
      <4>3. m \notin s \ {Max(s)} /\ s \ {Max(s)} \in SUBSET (1 .. m)
        BY <3>2
      <4>4. g[s] = f[s] /\ g[s \ {Max(s)}] = f[s \ {Max(s)}]
        BY <3>2, <4>3
      <4> HIDE DEF g
      <4> QED
        BY <4>2, <4>4
    <3> QED
      BY <3>1, <3>2
  <2>3. g = [s \in SUBSET (1 .. m) |-> g[s]]
    OBVIOUS
  <2> HIDE DEF g
  <2>4. g = [s \in SUBSET (1 .. m) |->
               IF s = {} THEN start ELSE Placed(known, g[s \ {Max(s)}], order[Max(s)])]
    BY <2>2, <2>3
  <2>5. IdentityFolds(known, start, order, m, g)
    BY <2>4 DEF IdentityFolds
  <2> QED
    BY <2>5
<1>3. n \in S
  <2> HIDE DEF S
  <2> QED
    BY <1>1, <1>2, Upwards
<1> QED
  BY <1>3

\* What the identities of a version are: those of its base, and of the keys read.
Identified(artifact, base, reading, iris) ==
  /\ IsFiniteSet(DOMAIN iris) /\ DOMAIN base \subseteq DOMAIN iris
  /\ \A k \in DOMAIN base : iris[k] = base[k].iri
  /\ \A k \in DOMAIN iris \ DOMAIN base :
       k \in KeysOf(artifact.captured) => [key |-> k, iri |-> iris[k]] \in artifact.captured
  /\ \A i \in DOMAIN reading : EffectiveKey(artifact, reading[i]) \in DOMAIN iris

LEMMA IdentitiesFacts ==
  ASSUME NEW artifact, \A row \in artifact.captured : row = [key |-> row.key, iri |-> row.iri],
         NEW base, IsFiniteSet(DOMAIN base), NEW reading, NEW n \in Nat, DOMAIN reading = 1 .. n
  PROVE  Identified(artifact, base, reading, Identities(artifact, base, reading))
<1> DEFINE known == artifact.captured
           Placing(iris, k) ==
             LET own == {row.iri : row \in {row \in known : row.key = k}}
                 iri == IF own # {} THEN CHOOSE i \in own : TRUE
                        ELSE Mint(k[2], IrisOf(known) \cup Range(iris))
             IN  [key \in DOMAIN iris \cup {k} |-> IF key \in DOMAIN iris THEN iris[key] ELSE iri]
           start == [k \in DOMAIN base |-> base[k].iri]
           order == [i \in DOMAIN reading |-> EffectiveKey(artifact, reading[i])]
           D == SUBSET (1 .. n)
           Folding(f) == f = [s \in D |-> IF s = {} THEN start ELSE Placing(f[s \ {Max(s)}], order[Max(s)])]
           F == CHOOSE f : Folding(f)
<1>1. DOMAIN order = 1 .. n
  OBVIOUS
<1>2. Identities(artifact, base, reading) = FoldLeft(Placing, start, order)
  BY DEF Identities
<1>3. FoldLeft(Placing, start, order) = F[1 .. n]
  BY <1>1 DEF FoldLeft, MapThenFoldSet
<1>4. \E f : Folding(f)
  <2>1. PICK f : IdentityFolds(known, start, order, n, f)
    <3> HIDE DEF start, order, known
    <3> QED
      BY IdentityFoldExists
  <2>2. Folding(f)
    BY <2>1 DEF IdentityFolds, Placed
  <2> HIDE DEF Folding
  <2> QED
    BY <2>2
<1>5. Folding(F)
  <2> HIDE DEF Folding
  <2> QED
    BY <1>4
<1>6. IdentityFolds(known, start, order, n, F)
  <2> HIDE DEF F
  <2> QED
    BY <1>5 DEF IdentityFolds, Placed
<1>7. \A s \in D : F[s] = IF s = {} THEN start ELSE Placed(known, F[s \ {Max(s)}], order[Max(s)])
  <2> HIDE DEF F, start, order, known
  <2> QED
    BY <1>6 DEF IdentityFolds
<1>8. \A iris, k : /\ DOMAIN Placed(known, iris, k) = DOMAIN iris \cup {k}
                   /\ \A key \in DOMAIN iris : Placed(known, iris, k)[key] = iris[key]
                   /\ k \in KeysOf(known) \ DOMAIN iris => [key |-> k, iri |-> Placed(known, iris, k)[k]] \in known
  BY PlacedFacts
<1>9. DOMAIN start = DOMAIN base /\ \A k \in DOMAIN base : start[k] = base[k].iri
  OBVIOUS
<1> HIDE DEF F, start, known, order
<1> DEFINE Good(m) ==
             /\ IsFiniteSet(DOMAIN F[1 .. m]) /\ DOMAIN base \subseteq DOMAIN F[1 .. m]
             /\ \A k \in DOMAIN base : F[1 .. m][k] = base[k].iri
             /\ \A k \in DOMAIN F[1 .. m] \ DOMAIN base :
                  k \in KeysOf(known) => [key |-> k, iri |-> F[1 .. m][k]] \in known
             /\ \A i \in 1 .. m : order[i] \in DOMAIN F[1 .. m]
           S == {m \in 0 .. n : Good(m)}
<1>10. 0 \in S
  <2>1. 1 .. 0 = {} /\ 1 .. 0 \in D /\ 0 \in 0 .. n
    OBVIOUS
  <2>2. F[1 .. 0] = start
    BY <1>7, <2>1
  <2>3. Good(0)
    BY <1>9, <2>1, <2>2
  <2> HIDE DEF Good
  <2> QED
    BY <2>1, <2>3
<1>11. ASSUME NEW m \in 1 .. n, m - 1 \in S PROVE m \in S
  <2>1. 1 .. m \in D /\ 1 .. m # {} /\ Max(1 .. m) = m /\ (1 .. m) \ {m} = 1 .. m - 1
    BY UpTo
  <2> DEFINE before == F[1 .. m - 1]
             after == F[1 .. m]
             k == order[m]
  <2>2. after = Placed(known, before, k)
    BY <1>7, <2>1
  <2>3. Good(m - 1)
    <3> HIDE DEF Good
    <3> QED
      BY <1>11
  <2>4. /\ DOMAIN after = DOMAIN before \cup {k}
        /\ \A key \in DOMAIN before : after[key] = before[key]
        /\ k \in KeysOf(known) \ DOMAIN before => [key |-> k, iri |-> after[k]] \in known
    <3> HIDE DEF after, before, k
    <3> QED
      BY <1>8, <2>2
  <2>5. /\ IsFiniteSet(DOMAIN before) /\ DOMAIN base \subseteq DOMAIN before
        /\ \A x \in DOMAIN base : before[x] = base[x].iri
        /\ \A x \in DOMAIN before \ DOMAIN base :
             x \in KeysOf(known) => [key |-> x, iri |-> before[x]] \in known
        /\ \A i \in 1 .. m - 1 : order[i] \in DOMAIN before
    BY <2>3
  <2>6. \A i \in 1 .. m : i = m \/ i \in 1 .. m - 1
    OBVIOUS
  <2> HIDE DEF before
  <2>7. IsFiniteSet(DOMAIN after)
    <3> HIDE DEF after, k
    <3> QED
      BY <2>4, <2>5, FS_AddElement
  <2>8. \A i \in 1 .. m : order[i] \in DOMAIN after
    BY <2>4, <2>5, <2>6
  <2> HIDE DEF after
  <2>9. /\ DOMAIN base \subseteq DOMAIN after
        /\ \A x \in DOMAIN base : after[x] = base[x].iri
        /\ \A x \in DOMAIN after \ DOMAIN base :
             x \in KeysOf(known) => [key |-> x, iri |-> after[x]] \in known
    BY <2>4, <2>5
  <2>10. Good(m)
    BY <2>7, <2>8, <2>9 DEF after
  <2>11. m \in 0 .. n
    OBVIOUS
  <2> HIDE DEF Good
  <2> QED
    BY <2>10, <2>11
<1>12. n \in S
  <2> HIDE DEF S
  <2> QED
    BY <1>10, <1>11, Upwards
<1>13. Good(n)
  <2> HIDE DEF Good
  <2> QED
    BY <1>12
<1>14. \A i \in DOMAIN reading : order[i] = EffectiveKey(artifact, reading[i])
  BY DEF order
<1>15. Identified(artifact, base, reading, F[1 .. n])
  BY <1>13, <1>14 DEF Identified, known
<1>16. Identities(artifact, base, reading) = F[1 .. n]
  BY <1>2, <1>3
<1> QED
  BY <1>15, <1>16
-----------------------------------------------------------------------------
(* A canonicalization. *)

\* A longer list has the same members, and one more.
Longer(q, x, p) ==
  /\ \E S : p \in Seq(S)
  /\ Len(q) \in Nat /\ DOMAIN q = 1 .. Len(q)
  /\ Len(p) = Len(q) + 1 /\ DOMAIN p = 1 .. Len(q) + 1
  /\ \A i \in DOMAIN q : p[i] = q[i]
  /\ p[Len(q) + 1] = x

LEMMA OneAppended ==
  ASSUME NEW q, NEW x, \E S : q \in Seq(S)
  PROVE  Longer(q, x, Append(q, x))
<1>1. PICK S : q \in Seq(S)
  OBVIOUS
<1> DEFINE T == S \cup {x}
           p == Append(q, x)
<1>2. q \in Seq(T) /\ x \in T
  BY <1>1
<1> HIDE DEF T
<1>3. /\ p \in Seq(T) /\ Len(p) = Len(q) + 1
      /\ \A i \in 1 .. Len(q) : p[i] = q[i]
      /\ p[Len(q) + 1] = x
  BY <1>2
<1>4. Len(q) \in Nat /\ DOMAIN q = 1 .. Len(q)
  BY <1>2
<1> HIDE DEF p
<1>5. DOMAIN p = 1 .. Len(q) + 1
  BY <1>3
<1>6. Longer(q, x, p)
  BY <1>3, <1>4, <1>5 DEF Longer
<1> QED
  BY <1>6 DEF p

\* The candidates of a run are finitely many.
LEMMA CandidatesAreFinite ==
  ASSUME NEW r \in DOMAIN Runs
  PROVE  IsFiniteSet(KeysIn(r))
<1> DEFINE f == [label \in Runs[r].core |-> <<Runs[r].domain, label>>]
<1>1. f \in Surjection(Runs[r].core, KeysIn(r))
  BY DEF Surjection, KeysIn
<1> QED
  BY <1>1, FS_Surjection, PublicationAssumption

LEMMA SelectionFacts ==
  ASSUME NEW runs \in Selections
  PROVE  /\ Len(runs) \in Nat /\ DOMAIN runs = 1 .. Len(runs) /\ Range(runs) \subseteq DOMAIN Runs
         /\ IsFiniteSet(Range(runs)) /\ IsFiniteSet(UNION {KeysIn(r) : r \in Range(runs)})
<1>1. runs \in Seq(DOMAIN Runs)
  BY PublicationAssumption
<1>2. Len(runs) \in Nat /\ DOMAIN runs = 1 .. Len(runs) /\ Range(runs) \subseteq DOMAIN Runs
  BY <1>1 DEF Range
<1>3. IsFiniteSet(Range(runs))
  <2>1. runs \in Surjection(1 .. Len(runs), Range(runs))
    BY <1>1, <1>2 DEF Surjection, Range
  <2> QED
    BY <1>2, <2>1, FS_Interval, FS_Surjection
<1> DEFINE sets == {KeysIn(r) : r \in Range(runs)}
<1>4. IsFiniteSet(sets)
  <2> DEFINE f == [r \in Range(runs) |-> KeysIn(r)]
  <2>1. f \in Surjection(Range(runs), sets)
    BY DEF Surjection
  <2> HIDE DEF sets
  <2> QED
    BY <1>3, <2>1, FS_Surjection
<1>5. \A s \in sets : IsFiniteSet(s)
  BY <1>2, CandidatesAreFinite
<1>6. IsFiniteSet(UNION sets)
  <2> HIDE DEF sets
  <2> QED
    BY <1>4, <1>5, FS_UNION
<1> QED
  BY <1>2, <1>3, <1>6

\* What is found equivalent, one pair after the other, is of one domain.
LEMMA IdentityClustersFacts ==
  ASSUME NEW keys, IsFiniteSet(keys), NEW equivalent \in SUBSET ProposablePairs(keys),
         NEW c \in IdentityClusters(equivalent)
  PROVE  \A k, l \in c : k[1] = l[1]
<1> DEFINE linked == {p \in (UNION equivalent) \X (UNION equivalent) : {p[1], p[2]} \in equivalent}
<1>1. PICK x \in UNION equivalent : c = Ancestors(linked, x)
  BY DEF IdentityClusters
<1>2. UNION equivalent \in SUBSET keys
  BY DEF ProposablePairs, kSubset
<1>3. IsFiniteSet(linked)
  <2>1. IsFiniteSet(UNION equivalent)
    BY <1>2, FS_Subset
  <2>2. IsFiniteSet((UNION equivalent) \X (UNION equivalent))
    BY <2>1, FS_Product
  <2>3. linked \in SUBSET ((UNION equivalent) \X (UNION equivalent))
    OBVIOUS
  <2> QED
    BY <2>2, <2>3, FS_Subset
<1>4. \A p \in linked : p[1][1] = p[2][1]
  BY DEF ProposablePairs
<1> DEFINE S == {k \in UNION equivalent : k[1] = x[1]}
<1>5. Closes(linked, x, S)
  <2>1. \A p \in linked : p[1] \in UNION equivalent
    OBVIOUS
  <2> HIDE DEF linked
  <2> QED
    BY <1>4, <2>1 DEF Closes
<1>6. c \subseteq S
  <2> HIDE DEF linked, S
  <2> QED
    BY <1>1, <1>3, <1>5, AncestorsFacts
<1> QED
  BY <1>6

LEMMA CanonicalizeKeeps ==
  ASSUME PublicationInv, NEW b \in 0 .. Len(versions), NEW runs \in Selections, Canonicalize(b, runs)
  PROVE  PublicationInv'
<1> DEFINE base == Snapshot(b)
           keys == DOMAIN base \cup UNION {KeysIn(r) : r \in Range(runs)}
<1>1. /\ registry' = registry /\ versions' = versions /\ builds' = builds
      /\ PublicationTyped /\ RegistryStands
  BY DEF Canonicalize, PublicationInv
<1>2. IsFiniteSet(keys)
  <2>1. IsFiniteSet(DOMAIN base)
    BY BaseFacts
  <2> HIDE DEF base
  <2> QED
    BY <2>1, SelectionFacts, FS_Union
<1>3. PICK equivalent \in SUBSET ProposablePairs(keys) :
        LET clusters == IdentityClusters(equivalent)
            merged == {c \in clusters : ~ Collides(c)}
        IN  \E survivors \in SUBSET UNION merged :
              /\ \A c \in merged : \E k \in c : c \cap survivors = {k} /\ MaySurvive(k, c, base, runs)
              /\ artifacts' = Append(artifacts,
                   [base |-> b, runs |-> runs, captured |-> registry,
                    quarantined |-> merged # clusters,
                    merges |-> [k \in (UNION merged) \ survivors |->
                                  CHOOSE s \in survivors : \E c \in merged : {k, s} \subseteq c]])
  BY DEF Canonicalize
<1> DEFINE clusters == IdentityClusters(equivalent)
           merged == {c \in clusters : ~ Collides(c)}
<1>4. PICK survivors \in SUBSET UNION merged :
        /\ \A c \in merged : \E k \in c : c \cap survivors = {k} /\ MaySurvive(k, c, base, runs)
        /\ artifacts' = Append(artifacts,
             [base |-> b, runs |-> runs, captured |-> registry,
              quarantined |-> merged # clusters,
              merges |-> [k \in (UNION merged) \ survivors |->
                            CHOOSE s \in survivors : \E c \in merged : {k, s} \subseteq c]])
  BY <1>3
<1> DEFINE into == [k \in (UNION merged) \ survivors |->
                        CHOOSE s \in survivors : \E c \in merged : {k, s} \subseteq c]
           new == [base |-> b, runs |-> runs, captured |-> registry,
                   quarantined |-> merged # clusters, merges |-> into]
<1>5. \A c \in merged : \A k, l \in c : k[1] = l[1]
  <2> HIDE DEF keys
  <2> QED
    BY <1>2, IdentityClustersFacts
<1>6. \A c \in merged : ~ (Cardinality(c \cap KeysOf(registry)) > 1)
  BY DEF Collides
<1>7. \A c \in merged : \E k \in c : /\ c \cap survivors = {k}
                                     /\ c \cap KeysOf(registry) # {} => k \in KeysOf(registry)
  BY <1>4 DEF MaySurvive
<1>8. artifacts' = Append(artifacts, new)
  BY <1>4
<1> HIDE DEF merged, keys, base
<1>9. ASSUME NEW k \in (UNION merged) \ survivors
      PROVE  into[k][1] = k[1] /\ k \notin KeysOf(registry)
  <2>1. PICK c \in merged : k \in c
    OBVIOUS
  <2>2. PICK l \in c : c \cap survivors = {l} /\ (c \cap KeysOf(registry) # {} => l \in KeysOf(registry))
    BY <1>7
  <2>3. l \in survivors /\ {k, l} \subseteq c
    BY <2>1, <2>2
  <2>4. \E s \in survivors : \E d \in merged : {k, s} \subseteq d
    BY <2>1, <2>3
  <2>5. \E d \in merged : {k, into[k]} \subseteq d
    BY <2>4
  <2>6. PICK d \in merged : {k, into[k]} \subseteq d
    BY <2>5
  <2> HIDE DEF into
  <2>7. into[k][1] = k[1]
    BY <1>5, <2>6
  <2>8. ASSUME k \in KeysOf(registry) PROVE FALSE
    <3> DEFINE both == c \cap KeysOf(registry)
    <3>1. IsFiniteSet(both) /\ Cardinality(both) \in Nat
      BY <1>1, RegisteredKeys, FS_Intersection, FS_CardinalityType DEF RegistryStands
    <3>2. k \in both /\ l \in both /\ k # l
      BY <2>1, <2>2, <2>3, <2>8
    <3>3. Cardinality(both) <= 1
      BY <1>6, <3>1
    <3> HIDE DEF both
    <3>4. {k} \in SUBSET both /\ IsFiniteSet({k}) /\ Cardinality({k}) = 1
      BY <3>2, FS_Singleton
    <3>5. Cardinality({k}) <= Cardinality(both) /\ (Cardinality(both) = Cardinality({k}) => both = {k})
      BY <3>1, <3>4, FS_Subset
    <3>6. both = {k}
      BY <3>1, <3>3, <3>4, <3>5
    <3> QED
      BY <3>2, <3>6
  <2> QED
    BY <2>7, <2>8
<1>10. /\ DOMAIN into = (UNION merged) \ survivors
       /\ new.base = b /\ new.runs = runs /\ new.captured = registry /\ new.merges = into
  OBVIOUS
<1> HIDE DEF into, new
<1>11. /\ \E S : artifacts' \in Seq(S)
       /\ Len(artifacts) \in Nat /\ DOMAIN artifacts = 1 .. Len(artifacts)
       /\ DOMAIN artifacts' = 1 .. Len(artifacts) + 1
       /\ \A i \in DOMAIN artifacts : artifacts'[i] = artifacts[i]
       /\ artifacts'[Len(artifacts) + 1] = new
  <2>1. \E S : artifacts \in Seq(S)
    BY <1>1 DEF PublicationTyped
  <2>2. Longer(artifacts, new, artifacts')
    BY <1>8, <2>1, OneAppended
  <2> QED
    BY <2>2 DEF Longer
<1>12. ASSUME NEW a \in DOMAIN artifacts' PROVE ArtifactStands(a)'
  <2>1. CASE a = Len(artifacts) + 1
    BY <1>1, <1>9, <1>10, <1>11, <2>1 DEF ArtifactStands
  <2>2. CASE a # Len(artifacts) + 1
    <3>1. a \in DOMAIN artifacts
      BY <1>11, <2>2
    <3>2. ArtifactStands(a) /\ artifacts'[a] = artifacts[a]
      BY <1>11, <3>1 DEF PublicationInv
    <3> QED
      BY <1>1, <3>2 DEF ArtifactStands
  <2> QED
    BY <2>1, <2>2
<1>13. ASSUME NEW x \in Builder PROVE BuildStands(x)'
  <2>1. BuildStands(x)
    BY DEF PublicationInv
  <2>2. builds[x] # NoBuild =>
          builds[x].artifact \in DOMAIN artifacts /\ builds[x].artifact \in DOMAIN artifacts'
          /\ artifacts'[builds[x].artifact] = artifacts[builds[x].artifact]
    BY <1>11, <2>1 DEF BuildStands
  <2> QED
    BY <1>1, <2>1, <2>2 DEF BuildStands, HasTheBase
<1>14. PublicationTyped' /\ RegistryStands'
  BY <1>1, <1>11 DEF PublicationTyped, RegistryStands
<1>15. \A v \in DOMAIN versions' : VersionStands(v)'
  BY <1>1 DEF PublicationInv, VersionStands
<1> QED
  BY <1>12, <1>13, <1>14, <1>15 DEF PublicationInv
-----------------------------------------------------------------------------
(* A build. *)

\* Every candidate of every run is read.
LEMMA ReadingFacts ==
  ASSUME NEW runs \in Selections, NEW reading \in Readings(runs)
  PROVE  /\ Len(reading) \in Nat /\ DOMAIN reading = 1 .. Len(reading)
         /\ \A r \in Range(runs) : \A k \in KeysIn(r) : \E i \in DOMAIN reading : reading[i] = k
<1> DEFINE all == UNION {KeysIn(r) : r \in Range(runs)}
<1>1. /\ Len(runs) \in Nat /\ DOMAIN runs = 1 .. Len(runs) /\ Range(runs) \subseteq DOMAIN Runs
      /\ \A i \in DOMAIN runs : runs[i] \in Range(runs)
  BY SelectionFacts DEF Range
<1>2. PICK orders \in [DOMAIN runs -> UNION {SetToSeqs(KeysIn(r)) : r \in Range(runs)}] :
        /\ \A i \in DOMAIN runs : orders[i] \in SetToSeqs(KeysIn(runs[i]))
        /\ reading = FlattenSeq(orders)
  BY DEF Readings
<1>3. ASSUME NEW i \in DOMAIN runs
      PROVE  /\ orders[i] \in Seq(all)
             /\ \A k \in KeysIn(runs[i]) : \E j \in 1 .. Len(orders[i]) : orders[i][j] = k
  <2> DEFINE S == KeysIn(runs[i])
             n == Cardinality(S)
             q == orders[i]
  <2>1. IsFiniteSet(S) /\ n \in Nat
    BY <1>1, CandidatesAreFinite, FS_CardinalityType
  <2>2. q \in [1 .. n -> S] /\ \A j, k \in 1 .. n : j # k => q[j] # q[k]
    BY <1>2 DEF SetToSeqs
  <2>3. S \subseteq all
    BY <1>1
  <2>4. q \in Injection(1 .. n, S)
    BY <2>2 DEF Injection, IsInjective
  <2>5. IsFiniteSet(1 .. n) /\ Cardinality(1 .. n) = n
    BY <2>1, FS_Interval
  <2> HIDE DEF q, all
  <2>6. q \in Surjection(1 .. n, S)
    BY <2>1, <2>4, <2>5, FS_Injection
  <2> HIDE DEF S, n
  <2>7. q \in Seq(all) /\ Len(q) = n
    BY <2>1, <2>2, <2>3
  <2>8. \A k \in S : \E j \in 1 .. Len(q) : q[j] = k
    BY <2>6, <2>7 DEF Surjection
  <2> QED
    BY <2>7, <2>8 DEF q, S
<1> HIDE DEF all
<1>4. orders \in Seq(Seq(all)) /\ Len(orders) = Len(runs)
  BY <1>1, <1>2, <1>3
<1>5. reading \in Seq(all) /\ \A i \in 1 .. Len(orders) : Among(orders[i], reading)
  BY <1>2, <1>4, FlattenKeepsAll
<1>6. ASSUME NEW r \in Range(runs), NEW k \in KeysIn(r)
      PROVE  \E i \in DOMAIN reading : reading[i] = k
  <2>1. PICK i \in DOMAIN runs : runs[i] = r
    BY DEF Range
  <2>2. PICK j \in 1 .. Len(orders[i]) : orders[i][j] = k
    BY <1>3, <2>1
  <2>3. Among(orders[i], reading)
    BY <1>1, <1>4, <1>5
  <2> QED
    BY <1>5, <2>2, <2>3 DEF Among
<1> QED
  BY <1>5, <1>6

\* What is assembled of a base and a reading.
LEMMA AssembledFacts ==
  ASSUME NEW artifact, NEW reading
  PROVE  \E iris : LET concepts == AssembledConcepts(artifact, reading)
                       base == Snapshot(artifact.base)
                   IN  /\ iris = Identities(artifact, base, reading)
                       /\ DOMAIN concepts = DOMAIN iris
                       /\ \A k \in DOMAIN iris : concepts[k].iri = iris[k]
                       /\ \A k \in DOMAIN iris \cap DOMAIN base : base[k].evidence \subseteq concepts[k].evidence
                       /\ \A r \in Range(artifact.runs) : \A k \in KeysIn(r) :
                            k \in Range(reading) /\ EffectiveKey(artifact, k) \in DOMAIN iris =>
                              <<r, k>> \in concepts[EffectiveKey(artifact, k)].evidence
<1> DEFINE base == Snapshot(artifact.base)
           iris == Identities(artifact, base, reading)
           Said(k) == {m \in Range(reading) : EffectiveKey(artifact, m) = k}
           Evidence_(k) == (IF k \in DOMAIN base THEN base[k].evidence ELSE {})
                             \cup UNION {Definitions(<<>>, artifact.runs, m) : m \in Said(k)}
           concepts == [k \in DOMAIN iris |-> [iri |-> iris[k], evidence |-> Evidence_(k)]]
<1>1. AssembledConcepts(artifact, reading) = concepts
  BY DEF AssembledConcepts
<1> HIDE DEF iris, base
<1>2. \A k \in DOMAIN iris : concepts[k].iri = iris[k] /\ concepts[k].evidence = Evidence_(k)
  OBVIOUS
<1>3. DOMAIN concepts = DOMAIN iris
  OBVIOUS
<1> HIDE DEF concepts
<1>4. \A k \in DOMAIN iris \cap DOMAIN base : base[k].evidence \subseteq concepts[k].evidence
  BY <1>2
<1>5. ASSUME NEW r \in Range(artifact.runs), NEW k \in KeysIn(r), k \in Range(reading),
             EffectiveKey(artifact, k) \in DOMAIN iris
      PROVE  <<r, k>> \in concepts[EffectiveKey(artifact, k)].evidence
  <2>1. <<r, k>> \in Definitions(<<>>, artifact.runs, k)
    BY <1>5 DEF Definitions
  <2>2. k \in Said(EffectiveKey(artifact, k))
    BY <1>5
  <2>3. <<r, k>> \in Evidence_(EffectiveKey(artifact, k))
    <3> HIDE DEF Said
    <3> QED
      BY <2>1, <2>2
  <2> HIDE DEF Evidence_
  <2> QED
    BY <1>2, <1>5, <2>3
<1>6. /\ iris = Identities(artifact, base, reading)
      /\ DOMAIN concepts = DOMAIN iris
      /\ \A k \in DOMAIN iris : concepts[k].iri = iris[k]
      /\ \A k \in DOMAIN iris \cap DOMAIN base : base[k].evidence \subseteq concepts[k].evidence
      /\ \A r \in Range(artifact.runs) : \A k \in KeysIn(r) :
           k \in Range(reading) /\ EffectiveKey(artifact, k) \in DOMAIN iris =>
             <<r, k>> \in concepts[EffectiveKey(artifact, k)].evidence
  BY <1>2, <1>3, <1>4, <1>5 DEF iris
<1> QED
  BY <1>1, <1>6 DEF base

LEMMA BuildKeeps ==
  ASSUME PublicationInv, NEW b \in Builder, NEW a \in DOMAIN artifacts, Build(b, a)
  PROVE  PublicationInv'
<1> DEFINE artifact == artifacts[a]
           base == Snapshot(artifact.base)
<1>1. /\ registry' = registry /\ versions' = versions /\ artifacts' = artifacts
      /\ PublicationTyped /\ RegistryStands /\ ArtifactStands(a) /\ artifact.runs \in Selections
      /\ artifact.base \in 0 .. Len(versions) /\ artifact.captured \subseteq registry
      /\ \A k \in DOMAIN artifact.merges : k \notin KeysOf(artifact.captured) /\ artifact.merges[k][1] = k[1]
  BY DEF Build, PublicationInv, ArtifactStands
<1>2. PICK reading \in Readings(artifact.runs) :
        builds' = [builds EXCEPT ![b] = [artifact |-> a, concepts |-> AssembledConcepts(artifact, reading),
                                         seen |-> registry]]
        /\ CompatibleRegistry(artifact, AssembledConcepts(artifact, reading))
  BY DEF Build
<1> DEFINE concepts == AssembledConcepts(artifact, reading)
<1>3. PICK iris :
        /\ iris = Identities(artifact, base, reading)
        /\ DOMAIN concepts = DOMAIN iris
        /\ \A k \in DOMAIN iris : concepts[k].iri = iris[k]
        /\ \A k \in DOMAIN iris \cap DOMAIN base : base[k].evidence \subseteq concepts[k].evidence
        /\ \A r \in Range(artifact.runs) : \A k \in KeysIn(r) :
             k \in Range(reading) /\ EffectiveKey(artifact, k) \in DOMAIN iris =>
               <<r, k>> \in concepts[EffectiveKey(artifact, k)].evidence
  BY AssembledFacts
<1>4. /\ IsFiniteSet(DOMAIN base)
      /\ \A k \in DOMAIN base : [key |-> k, iri |-> base[k].iri] \in registry
      /\ artifact.base # 0 => \A c \in Range(versions[artifact.base].concepts) : \E k \in DOMAIN base : base[k] = c
  BY <1>1, BaseFacts
<1>5. /\ Len(reading) \in Nat /\ DOMAIN reading = 1 .. Len(reading)
      /\ \A r \in Range(artifact.runs) : \A k \in KeysIn(r) : \E i \in DOMAIN reading : reading[i] = k
  BY <1>1, ReadingFacts
<1>6. Identified(artifact, base, reading, iris)
  <2>1. \A row \in artifact.captured : row = [key |-> row.key, iri |-> row.iri]
    BY <1>1 DEF RegistryStands
  <2> HIDE DEF base, artifact
  <2> QED
    BY <1>3, <1>4, <1>5, <2>1, IdentitiesFacts
<1> HIDE DEF concepts, base
<1>7. HasTheBase(artifact.base, concepts)
  <2> SUFFICES ASSUME artifact.base # 0, NEW old \in Range(versions[artifact.base].concepts)
               PROVE  \E new \in Range(concepts) : new.iri = old.iri /\ old.evidence \subseteq new.evidence
    BY DEF HasTheBase
  <2>1. PICK k \in DOMAIN base : base[k] = old
    BY <1>4
  <2>2. k \in DOMAIN iris /\ iris[k] = old.iri
    BY <1>6, <2>1 DEF Identified
  <2>3. concepts[k] \in Range(concepts) /\ concepts[k].iri = old.iri /\ old.evidence \subseteq concepts[k].evidence
    BY <1>3, <2>1, <2>2 DEF Range
  <2> QED
    BY <2>3
\* A registered label has the IRI it is registered under.
<1>8. ASSUME NEW k \in DOMAIN concepts, NEW row \in registry, row.key = k,
             k \in DOMAIN base \/ k \in KeysOf(artifact.captured)
      PROVE  concepts[k].iri = row.iri
  <2>1. [key |-> k, iri |-> concepts[k].iri] \in registry
    <3>1. CASE k \in DOMAIN base
      <4>1. [key |-> k, iri |-> base[k].iri] \in registry /\ iris[k] = base[k].iri
        BY <1>4, <1>6, <3>1 DEF Identified
      <4>2. concepts[k].iri = base[k].iri
        BY <1>3, <4>1
      <4> QED
        BY <4>1, <4>2
    <3>2. CASE k \notin DOMAIN base
      <4>1. [key |-> k, iri |-> iris[k]] \in artifact.captured
        BY <1>3, <1>6, <1>8, <3>2 DEF Identified
      <4>2. concepts[k].iri = iris[k]
        BY <1>3
      <4> QED
        BY <1>1, <4>1, <4>2
    <3> QED
      BY <3>1, <3>2
  <2> DEFINE other == [key |-> k, iri |-> concepts[k].iri]
  <2>2. other \in registry /\ other.key = row.key /\ other.iri = concepts[k].iri
    BY <1>8, <2>1
  <2> HIDE DEF other
  <2> QED
    BY <1>1, <2>2 DEF RegistryStands
<1>9. HasTheRuns(artifact.runs, artifact.captured, concepts)
  <2> SUFFICES ASSUME NEW r \in Range(artifact.runs), NEW k \in KeysIn(r)
               PROVE  LET holders == {h \in DOMAIN concepts : <<r, k>> \in concepts[h].evidence}
                      IN  /\ \E h \in holders : h[1] = k[1]
                          /\ \A row \in artifact.captured : row.key = k => k \in holders /\ concepts[k].iri = row.iri
    BY DEF HasTheRuns
  <2> DEFINE h == EffectiveKey(artifact, k)
  <2>1. PICK i \in DOMAIN reading : reading[i] = k
    BY <1>5
  <2>2. k \in Range(reading) /\ h \in DOMAIN iris
    BY <1>6, <2>1 DEF Identified, Range
  <2>3. h \in DOMAIN concepts /\ <<r, k>> \in concepts[h].evidence
    BY <1>3, <2>2
  <2>4. h[1] = k[1]
    BY <1>1 DEF EffectiveKey
  <2>5. ASSUME NEW row \in artifact.captured, row.key = k
        PROVE  k = h /\ concepts[k].iri = row.iri
    <3>1. k \in KeysOf(artifact.captured)
      BY <2>5 DEF KeysOf
    <3>2. k = h
      BY <1>1, <3>1 DEF EffectiveKey
    <3> QED
      BY <1>1, <1>8, <2>3, <2>5, <3>1, <3>2
  <2> HIDE DEF h
  <2> QED
    BY <2>3, <2>4, <2>5
<1>10. HasTheSeen(registry, concepts)
  <2> SUFFICES ASSUME NEW k \in DOMAIN concepts, k \in KeysOf(registry)
               PROVE  [key |-> k, iri |-> concepts[k].iri] \in registry
    BY DEF HasTheSeen
  <2>1. PICK row \in registry : row.key = k
    BY DEF KeysOf
  <2>2. row = [key |-> k, iri |-> row.iri]
    BY <1>1, <2>1 DEF RegistryStands
  <2>3. CASE row \in artifact.captured
    <3>1. k \in KeysOf(artifact.captured)
      BY <2>1, <2>3 DEF KeysOf
    <3>2. concepts[k].iri = row.iri
      BY <1>8, <2>1, <3>1
    <3> QED
      BY <2>2, <3>2
  <2>4. CASE row \notin artifact.captured
    <3>1. row \in RowsOf(concepts)
      BY <1>2, <2>4 DEF CompatibleRegistry, concepts
    <3>2. PICK l \in DOMAIN concepts : row = [key |-> l, iri |-> concepts[l].iri]
      BY <3>1 DEF RowsOf
    <3>3. l = k
      BY <2>1, <3>2
    <3> QED
      BY <3>2, <3>3
  <2> QED
    BY <2>3, <2>4
<1>11. IsFiniteSet(DOMAIN concepts)
  BY <1>3, <1>6 DEF Identified
<1> DEFINE new == [artifact |-> a, concepts |-> concepts, seen |-> registry]
<1>12. builds' = [builds EXCEPT ![b] = new]
  BY <1>2 DEF concepts
<1>13. new.artifact = a /\ new.concepts = concepts /\ new.seen = registry
  OBVIOUS
<1> HIDE DEF new
<1>14. DOMAIN builds' = Builder /\ builds'[b] = new /\ \A x \in Builder \ {b} : builds'[x] = builds[x]
  BY <1>1, <1>12 DEF PublicationTyped
<1>15. ASSUME NEW x \in Builder PROVE BuildStands(x)'
  <2>1. CASE x = b
    BY <1>1, <1>7, <1>9, <1>10, <1>11, <1>13, <1>14, <2>1 DEF BuildStands, HasTheBase
  <2>2. CASE x # b
    <3>1. BuildStands(x) /\ builds'[x] = builds[x]
      BY <1>14, <2>2 DEF PublicationInv
    <3> QED
      BY <1>1, <3>1 DEF BuildStands, HasTheBase
  <2> QED
    BY <2>1, <2>2
<1>16. PublicationTyped' /\ RegistryStands'
  BY <1>1, <1>14 DEF PublicationTyped, RegistryStands
<1>17. (\A v \in DOMAIN versions : VersionStands(v))' /\ (\A x \in DOMAIN artifacts : ArtifactStands(x))'
  BY <1>1 DEF PublicationInv, VersionStands, ArtifactStands
<1> QED
  BY <1>15, <1>16, <1>17 DEF PublicationInv
-----------------------------------------------------------------------------
(* A publication. *)

\* The rows of concepts, and that each has an IRI of its own when they are as many.
LEMMA RowsFacts ==
  ASSUME NEW concepts, IsFiniteSet(DOMAIN concepts)
  PROVE  /\ IsFiniteSet(RowsOf(concepts))
         /\ Cardinality(IrisOf(RowsOf(concepts))) = Cardinality(DOMAIN concepts) =>
              \A k, l \in DOMAIN concepts : concepts[k].iri = concepts[l].iri => k = l
<1> DEFINE f == [k \in DOMAIN concepts |-> [key |-> k, iri |-> concepts[k].iri]]
           g == [k \in DOMAIN concepts |-> concepts[k].iri]
<1>1. f \in Surjection(DOMAIN concepts, RowsOf(concepts))
  BY DEF Surjection, RowsOf
<1>2. IsFiniteSet(RowsOf(concepts))
  <2> HIDE DEF f
  <2> QED
    BY <1>1, FS_Surjection
<1>3. g \in Surjection(DOMAIN concepts, IrisOf(RowsOf(concepts)))
  <2>1. \A k \in DOMAIN concepts : concepts[k].iri \in IrisOf(RowsOf(concepts))
    <3> SUFFICES ASSUME NEW k \in DOMAIN concepts PROVE concepts[k].iri \in IrisOf(RowsOf(concepts))
      OBVIOUS
    <3>1. [key |-> k, iri |-> concepts[k].iri] \in RowsOf(concepts)
      BY DEF RowsOf
    <3>2. [key |-> k, iri |-> concepts[k].iri].iri = concepts[k].iri
      OBVIOUS
    <3> QED
      BY <3>1, <3>2 DEF IrisOf
  <2>2. \A i \in IrisOf(RowsOf(concepts)) : \E k \in DOMAIN concepts : concepts[k].iri = i
    BY DEF IrisOf, RowsOf
  <2> QED
    BY <2>1, <2>2 DEF Surjection
<1>4. \A k \in DOMAIN concepts : g[k] = concepts[k].iri
  OBVIOUS
<1> HIDE DEF g
<1>5. ASSUME Cardinality(IrisOf(RowsOf(concepts))) = Cardinality(DOMAIN concepts)
      PROVE  \A k, l \in DOMAIN concepts : concepts[k].iri = concepts[l].iri => k = l
  <2>1. g \in Injection(DOMAIN concepts, IrisOf(RowsOf(concepts)))
    BY <1>3, <1>5, FS_Surjection
  <2>2. \A k, l \in DOMAIN concepts : g[k] = g[l] => k = l
    BY <2>1 DEF Injection, IsInjective
  <2> QED
    BY <1>4, <2>2
<1> QED
  BY <1>2, <1>5

\* The version that b publishes.
VersionOf(b) ==
  [base |-> artifacts[builds[b].artifact].base, runs |-> artifacts[builds[b].artifact].runs,
   concepts |-> builds[b].concepts]

\* What a publication leaves: the registry with what was not in it, one version
\* more, and no build in hand.
LEMMA PublishFacts ==
  ASSUME PublicationInv, NEW b \in Builder, Publish(b)
  PROVE  /\ registry' = registry \cup {row \in RowsOf(builds[b].concepts) : row.key \notin KeysOf(registry)}
         /\ Longer(versions, VersionOf(b), versions')
         /\ artifacts' = artifacts /\ DOMAIN builds' = Builder /\ builds'[b] = NoBuild
         /\ \A x \in Builder \ {b} : builds'[x] = builds[x]
         /\ builds[b] # NoBuild /\ BuildStands(b)
         /\ \A k, l \in DOMAIN builds[b].concepts :
              builds[b].concepts[k].iri = builds[b].concepts[l].iri => k = l
<1>1. PublicationTyped /\ BuildStands(b) /\ builds[b] # NoBuild
  BY DEF PublicationInv, Publish
<1>2. versions' = Append(versions, VersionOf(b))
  BY DEF Publish, VersionOf
<1>3. Longer(versions, VersionOf(b), versions')
  <2>1. \E S : versions \in Seq(S)
    BY <1>1 DEF PublicationTyped
  <2> QED
    BY <1>2, <2>1, OneAppended
<1>4. \A k, l \in DOMAIN builds[b].concepts :
        builds[b].concepts[k].iri = builds[b].concepts[l].iri => k = l
  <2>1. /\ IsFiniteSet(DOMAIN builds[b].concepts)
        /\ Cardinality(IrisOf(RowsOf(builds[b].concepts))) = Cardinality(DOMAIN builds[b].concepts)
    BY <1>1 DEF Publish, BuildStands
  <2> QED
    BY <2>1, RowsFacts
<1>5. /\ builds' = [builds EXCEPT ![b] = NoBuild] /\ artifacts' = artifacts
      /\ registry' = registry \cup {row \in RowsOf(builds[b].concepts) : row.key \notin KeysOf(registry)}
  BY DEF Publish
<1>6. DOMAIN builds' = Builder /\ builds'[b] = NoBuild /\ \A x \in Builder \ {b} : builds'[x] = builds[x]
  BY <1>1, <1>5 DEF PublicationTyped
<1> QED
  BY <1>1, <1>3, <1>4, <1>5, <1>6

LEMMA PublishKeeps ==
  ASSUME PublicationInv, NEW b \in Builder, Publish(b)
  PROVE  PublicationInv'
<1> DEFINE concepts == builds[b].concepts
           fresh == {row \in RowsOf(concepts) : row.key \notin KeysOf(registry)}
<1>1. /\ registry' = registry \cup fresh
      /\ Longer(versions, VersionOf(b), versions')
      /\ artifacts' = artifacts /\ DOMAIN builds' = Builder /\ builds'[b] = NoBuild
      /\ \A x \in Builder \ {b} : builds'[x] = builds[x]
      /\ IsFiniteSet(DOMAIN concepts)
      /\ \A k, l \in DOMAIN concepts : concepts[k].iri = concepts[l].iri => k = l
  BY PublishFacts DEF BuildStands
<1>2. PublicationTyped /\ RegistryStands
  BY DEF PublicationInv
<1>3. IrisOf(fresh) \cap IrisOf(registry) = {} /\ IrisOf(RowsOf(concepts)) \subseteq IrisOf(registry')
  BY DEF Publish
<1>4. \A row \in fresh : \E k \in DOMAIN concepts : row = [key |-> k, iri |-> concepts[k].iri]
  BY DEF RowsOf
<1>5. IsFiniteSet(registry')
  <2>1. IsFiniteSet(RowsOf(concepts)) /\ fresh \in SUBSET RowsOf(concepts)
    BY <1>1, RowsFacts
  <2>2. IsFiniteSet(fresh)
    BY <2>1, FS_Subset
  <2> HIDE DEF fresh
  <2> QED
    BY <1>1, <1>2, <2>2, FS_Union DEF RegistryStands
<1>6. \A row \in fresh : /\ row = [key |-> row.key, iri |-> row.iri]
                         /\ \A other \in registry : other.key # row.key /\ other.iri # row.iri
  <2> SUFFICES ASSUME NEW row \in fresh
               PROVE  /\ row = [key |-> row.key, iri |-> row.iri]
                      /\ \A other \in registry : other.key # row.key /\ other.iri # row.iri
    OBVIOUS
  <2>1. row = [key |-> row.key, iri |-> row.iri]
    BY <1>4
  <2>2. row.key \notin KeysOf(registry) /\ row.iri \in IrisOf(fresh)
    BY DEF IrisOf
  <2> HIDE DEF fresh
  <2>3. row.iri \notin IrisOf(registry)
    BY <1>3, <2>2
  <2> QED
    BY <2>1, <2>2, <2>3 DEF KeysOf, IrisOf
<1>7. \A row, other \in fresh : row.key = other.key \/ row.iri = other.iri => row = other
  <2> SUFFICES ASSUME NEW row \in fresh, NEW other \in fresh, row.key = other.key \/ row.iri = other.iri
               PROVE  row = other
    OBVIOUS
  <2>1. PICK k \in DOMAIN concepts : row = [key |-> k, iri |-> concepts[k].iri]
    BY <1>4
  <2>2. PICK l \in DOMAIN concepts : other = [key |-> l, iri |-> concepts[l].iri]
    BY <1>4
  <2> HIDE DEF concepts, fresh
  <2>3. k = l
    BY <1>1, <2>1, <2>2
  <2> QED
    BY <2>1, <2>2, <2>3
<1> HIDE DEF fresh
<1>8. RegistryStands'
  <2>1. \A row \in registry' : row = [key |-> row.key, iri |-> row.iri]
    BY <1>1, <1>2, <1>6 DEF RegistryStands
  <2>2. \A row, other \in registry' : row.key = other.key \/ row.iri = other.iri => row = other
    <3>1. \A row, other \in registry : row.key = other.key \/ row.iri = other.iri => row = other
      BY <1>2 DEF RegistryStands
    <3> QED
      BY <1>1, <1>6, <1>7, <3>1
  <2> QED
    BY <1>5, <2>1, <2>2 DEF RegistryStands
<1>9. /\ \E S : versions' \in Seq(S)
      /\ Len(versions) \in Nat /\ DOMAIN versions = 1 .. Len(versions) /\ Len(versions') = Len(versions) + 1
      /\ DOMAIN versions' = 1 .. Len(versions) + 1
      /\ \A v \in DOMAIN versions : versions'[v] = versions[v]
      /\ versions'[Len(versions) + 1] = VersionOf(b)
  BY <1>1 DEF Longer
<1>10. ASSUME NEW v \in DOMAIN versions' PROVE VersionStands(v)'
  <2>1. CASE v = Len(versions) + 1
    <3>1. versions'[v].concepts = concepts
      BY <1>9, <2>1 DEF VersionOf
    <3> QED
      BY <1>1, <1>3, <3>1 DEF VersionStands
  <2>2. CASE v # Len(versions) + 1
    <3>1. v \in DOMAIN versions
      BY <1>9, <2>2
    <3>2. VersionStands(v) /\ versions'[v] = versions[v]
      BY <1>9, <3>1 DEF PublicationInv
    <3>3. IrisOf(registry) \subseteq IrisOf(registry')
      BY <1>1 DEF IrisOf
    <3> QED
      BY <3>2, <3>3 DEF VersionStands
  <2> QED
    BY <2>1, <2>2
<1>11. ASSUME NEW a \in DOMAIN artifacts' PROVE ArtifactStands(a)'
  <2>1. ArtifactStands(a)
    BY <1>1 DEF PublicationInv
  <2>2. 0 .. Len(versions) \subseteq 0 .. Len(versions')
    BY <1>9
  <2> QED
    BY <1>1, <2>1, <2>2 DEF ArtifactStands
<1>12. ASSUME NEW x \in Builder PROVE BuildStands(x)'
  <2>1. CASE x = b
    BY <1>1, <2>1 DEF BuildStands
  <2>2. CASE x # b
    <3>1. BuildStands(x) /\ builds'[x] = builds[x]
      BY <1>1, <2>2 DEF PublicationInv
    <3>2. builds[x] # NoBuild =>
            LET base == artifacts[builds[x].artifact].base
            IN  base # 0 => versions'[base] = versions[base]
      <4> SUFFICES ASSUME builds[x] # NoBuild, artifacts[builds[x].artifact].base # 0
                   PROVE  versions'[artifacts[builds[x].artifact].base] =
                            versions[artifacts[builds[x].artifact].base]
        OBVIOUS
      <4>1. ArtifactStands(builds[x].artifact)
        BY <3>1 DEF BuildStands, PublicationInv
      <4>2. artifacts[builds[x].artifact].base \in DOMAIN versions
        BY <1>9, <4>1 DEF ArtifactStands
      <4> QED
        BY <1>9, <4>2
    <3> QED
      BY <1>1, <3>1, <3>2 DEF BuildStands, HasTheBase
  <2> QED
    BY <2>1, <2>2
<1>13. PublicationTyped'
  BY <1>1, <1>2, <1>9 DEF PublicationTyped
<1> QED
  BY <1>8, <1>10, <1>11, <1>12, <1>13 DEF PublicationInv

\* Giving up leaves no build in hand.
LEMMA GiveUpKeeps ==
  ASSUME PublicationInv, NEW b \in Builder, GiveUp(b)
  PROVE  PublicationInv'
<1>1. /\ registry' = registry /\ versions' = versions /\ artifacts' = artifacts
      /\ PublicationTyped /\ RegistryStands
      /\ DOMAIN builds' = Builder /\ builds'[b] = NoBuild /\ \A x \in Builder \ {b} : builds'[x] = builds[x]
  BY DEF GiveUp, PublicationInv, PublicationTyped
<1>2. ASSUME NEW x \in Builder PROVE BuildStands(x)'
  <2>1. CASE x = b
    BY <1>1, <2>1 DEF BuildStands
  <2>2. CASE x # b
    <3>1. BuildStands(x) /\ builds'[x] = builds[x]
      BY <1>1, <2>2 DEF PublicationInv
    <3> QED
      BY <1>1, <3>1 DEF BuildStands, HasTheBase
  <2> QED
    BY <2>1, <2>2
<1>3. PublicationTyped' /\ RegistryStands'
  BY <1>1 DEF PublicationTyped, RegistryStands
<1>4. (\A v \in DOMAIN versions : VersionStands(v))' /\ (\A x \in DOMAIN artifacts : ArtifactStands(x))'
  BY <1>1 DEF PublicationInv, VersionStands, ArtifactStands
<1> QED
  BY <1>2, <1>3, <1>4 DEF PublicationInv

LEMMA PublicationRests == PublicationInv /\ UNCHANGED publicationVars => PublicationInv'
BY DEF PublicationInv, publicationVars, PublicationTyped, RegistryStands, VersionStands, ArtifactStands,
       BuildStands, HasTheBase

LEMMA PublicationStep == PublicationInv /\ [PublicationNext]_publicationVars => PublicationInv'
<1> SUFFICES ASSUME PublicationInv, [PublicationNext]_publicationVars PROVE PublicationInv'
  OBVIOUS
<1>1. ASSUME NEW b \in 0 .. Len(versions), NEW runs \in Selections, Canonicalize(b, runs)
      PROVE  PublicationInv'
  BY <1>1, CanonicalizeKeeps
<1>2. ASSUME NEW b \in Builder, NEW a \in DOMAIN artifacts, Build(b, a) PROVE PublicationInv'
  BY <1>2, BuildKeeps
<1>3. ASSUME NEW b \in Builder, Publish(b) PROVE PublicationInv'
  BY <1>3, PublishKeeps
<1>4. ASSUME NEW b \in Builder, GiveUp(b) PROVE PublicationInv'
  BY <1>4, GiveUpKeeps
<1>5. CASE UNCHANGED publicationVars
  BY <1>5, PublicationRests
<1> QED
  BY <1>1, <1>2, <1>3, <1>4, <1>5 DEF PublicationNext

LEMMA PublicationStarts == PublicationInit => PublicationInv
<1> SUFFICES ASSUME PublicationInit PROVE PublicationInv
  OBVIOUS
<1>1. registry = {} /\ artifacts = <<>> /\ versions = <<>> /\ builds = [b \in Builder |-> NoBuild]
  BY DEF PublicationInit
<1>2. <<>> \in Seq({}) /\ DOMAIN <<>> = {}
  OBVIOUS
<1>3. PublicationTyped
  BY <1>1, <1>2 DEF PublicationTyped
<1>4. RegistryStands
  BY <1>1, FS_EmptySet DEF RegistryStands
<1>5. \A b \in Builder : BuildStands(b)
  BY <1>1 DEF BuildStands
<1> QED
  BY <1>1, <1>2, <1>3, <1>4, <1>5 DEF PublicationInv

\* What one step may publish.
Faithful ==
  \A b \in Builder, v \in DOMAIN versions' \ DOMAIN versions :
    builds'[b] # builds[b] =>
      /\ KeepsTheBase(v)
      /\ CarriesTheRuns(v, artifacts[builds[b].artifact].captured)
      /\ builds[b].seen = registry => NamesItsOwn(v)

\* Only a publication makes a version, and it is the one that was assembled.
LEMMA PublishIsFaithful ==
  ASSUME PublicationInv, NEW p \in Builder, Publish(p)
  PROVE  Faithful
<1>1. /\ registry' = registry \cup {row \in RowsOf(builds[p].concepts) : row.key \notin KeysOf(registry)}
      /\ Longer(versions, VersionOf(p), versions')
      /\ \A x \in Builder \ {p} : builds'[x] = builds[x]
      /\ builds[p] # NoBuild /\ BuildStands(p)
  BY PublishFacts
<1> SUFFICES ASSUME NEW b \in Builder, NEW v \in DOMAIN versions' \ DOMAIN versions, builds'[b] # builds[b]
             PROVE  /\ KeepsTheBase(v)
                    /\ CarriesTheRuns(v, artifacts[builds[b].artifact].captured)
                    /\ builds[b].seen = registry => NamesItsOwn(v)
  BY DEF Faithful
<1> DEFINE artifact == artifacts[builds[b].artifact]
           concepts == builds[b].concepts
<1>2. b = p
  BY <1>1
<1>3. /\ versions'[v].base = artifact.base /\ versions'[v].runs = artifact.runs
      /\ versions'[v].concepts = concepts
  <2>1. v = Len(versions) + 1 /\ versions'[v] = VersionOf(b)
    BY <1>1, <1>2 DEF Longer
  <2> QED
    BY <2>1 DEF VersionOf
<1>4. /\ HasTheBase(artifact.base, concepts)
      /\ HasTheRuns(artifact.runs, artifact.captured, concepts)
      /\ HasTheSeen(builds[b].seen, concepts)
  BY <1>1, <1>2 DEF BuildStands
<1> HIDE DEF artifact, concepts
<1>5. KeepsTheBase(v)
  BY <1>3, <1>4 DEF KeepsTheBase, HasTheBase
<1>6. CarriesTheRuns(v, artifact.captured)
  BY <1>3, <1>4 DEF CarriesTheRuns, HasTheRuns
<1>7. ASSUME builds[b].seen = registry PROVE NamesItsOwn(v)
  <2> SUFFICES ASSUME NEW row \in RowsOf(concepts) PROVE row \in registry'
    BY <1>3 DEF NamesItsOwn
  <2>1. PICK k \in DOMAIN concepts : row = [key |-> k, iri |-> concepts[k].iri]
    BY DEF RowsOf
  <2>2. CASE k \in KeysOf(registry)
    BY <1>1, <1>4, <1>7, <2>1, <2>2 DEF HasTheSeen
  <2>3. CASE k \notin KeysOf(registry)
    BY <1>1, <1>2, <2>1, <2>3 DEF concepts
  <2> QED
    BY <2>2, <2>3
<1> QED
  BY <1>5, <1>6, <1>7 DEF artifact

\* What a published version has of its base, its runs and the registry,
\* however the canonicalizations, builds and publications of several kg-worker
\* processes overlap (canonicalizeConcepts.ts, buildGraphVersion.ts and the
\* publication in PostgresStores.ts).
THEOREM ThePublicationIsFaithful == PublicationSpec => PublicationIsFaithful
<1>1. PublicationInv /\ [PublicationNext]_publicationVars => [Faithful]_publicationVars
  <2> SUFFICES ASSUME PublicationInv, PublicationNext PROVE Faithful
    OBVIOUS
  <2>1. ASSUME NEW b \in Builder, Publish(b) PROVE Faithful
    BY <2>1, PublishIsFaithful
  <2>2. ASSUME versions' = versions PROVE Faithful
    BY <2>2 DEF Faithful
  <2> QED
    BY <2>1, <2>2 DEF PublicationNext, Canonicalize, Build, GiveUp
<1> QED
  BY <1>1, PublicationStarts, PublicationStep, PTL DEF PublicationSpec, PublicationIsFaithful, Faithful
=============================================================================
