------------------------ MODULE QuestionSets_proofs -------------------------
(***************************************************************************)
(* Theorems about QuestionSets, for any number of sets, runs, edits,       *)
(* sources and interviews, and any time.                                   *)
(***************************************************************************)
EXTENDS QuestionSets, TLAPS

-----------------------------------------------------------------------------
(* The inductive invariant.                                                *)

\* No run is newer than the one its set names; a run that is PROCESSING is that
\* one, unless the set is removed, and a worker whose run was closed under it is
\* not.
RunFits(r) ==
  /\ r <= sets[runs[r].set].aiRun
  /\ runs[r].startedAt <= sets[runs[r].set].updatedAt
  /\ runs[r].status = "PROCESSING" /\ ~sets[runs[r].set].deleted => StillOwned(r)
  /\ Working(r) /\ runs[r].status # "PROCESSING" => sets[runs[r].set].aiRun # r

RunsFit == \A r \in DOMAIN runs : RunFits(r)

\* A set names a run of its own; it has no questions before they are generated
\* and those of its run afterwards; an edit was made, and an approval is for the
\* questions it has.
SetFits(s) ==
  /\ sets[s].updatedAt <= now
  /\ sets[s].aiRun # 0 => runs[sets[s].aiRun].set = s
  /\ sets[s].status \in {"GENERATING", "FAILED"} => sets[s].items = NoItems
  /\ sets[s].aiRun # 0 /\ sets[s].items.by = "AI" =>
       sets[s].items.mark = sets[s].aiRun /\ runs[sets[s].aiRun].status = "SUCCEEDED"
  /\ sets[s].items.by = "HR" => sets[s].items.mark <= edits
  /\ sets[s].status = "APPROVED" => sanctioned[s] = sets[s].items

SetsFit == \A s \in DOMAIN sets : SetFits(s)

\* HR has read no version yet to come.
SeenFits ==
  /\ DOMAIN seen \subseteq DOMAIN sets
  /\ \A s \in DOMAIN seen : seen[s].version <= sets[s].version
  /\ VersionNamesQuestions

\* An interview has the questions of a set that is approved for good.
InterviewsFit ==
  \A i \in DOMAIN interviews :
    /\ sets[interviews[i].set].status = "APPROVED"
    /\ interviews[i].items = sanctioned[interviews[i].set]

Inv ==
  /\ TypeInvariant /\ RunsFit /\ SetsFit /\ SeenFits /\ InterviewsFit
  /\ SupersededWasOverdue

-----------------------------------------------------------------------------
(* Types.                                                                  *)

\* The bounds are natural numbers.
LEMMA Bounds ==
  /\ MaxSets \in Nat /\ MaxRuns \in Nat /\ MaxEdits \in Nat /\ MaxSources \in Nat
  /\ MaxInterviews \in Nat /\ MaxTime \in Nat /\ StaleAfter \in Nat
  /\ MaxSources # 0
BY ConstantsAssumption

\* What the rows consist of.
LEMMA Rows ==
  ASSUME TypeInvariant
  PROVE  /\ now \in Nat /\ edits \in Nat
         /\ Len(sets) \in Nat /\ DOMAIN sets = 1 .. Len(sets)
         /\ Len(runs) \in Nat /\ DOMAIN runs = 1 .. Len(runs)
         /\ Len(sanctioned) = Len(sets) /\ DOMAIN sanctioned = DOMAIN sets
         /\ \A s \in DOMAIN sets :
              /\ sets[s] \in QuestionSet
              /\ sets[s].aiRun \in 0 .. Len(runs) /\ sets[s].aiRun \in Nat
              /\ sets[s].version \in Nat /\ sets[s].generationVersion \in Nat
              /\ sets[s].updatedAt \in Nat
              /\ sets[s].items \in Items /\ sets[s].items.mark \in Nat
         /\ \A r \in DOMAIN runs :
              /\ runs[r] \in Run /\ runs[r].set \in DOMAIN sets /\ r \in Nat
              /\ runs[r].generationVersion \in Nat /\ runs[r].startedAt \in Nat
<1>1. now \in Nat /\ edits \in Nat
  BY Bounds DEF TypeInvariant
<1>2. /\ Len(sets) \in Nat /\ DOMAIN sets = 1 .. Len(sets)
      /\ \A s \in DOMAIN sets : sets[s] \in QuestionSet
  BY DEF TypeInvariant
<1>3. /\ Len(runs) \in Nat /\ DOMAIN runs = 1 .. Len(runs)
      /\ \A r \in DOMAIN runs : runs[r] \in Run
  BY DEF TypeInvariant
<1>4. ASSUME NEW s \in DOMAIN sets
      PROVE  /\ sets[s].version \in Nat /\ sets[s].generationVersion \in Nat
             /\ sets[s].aiRun \in Nat /\ sets[s].updatedAt \in Nat
             /\ sets[s].items \in Items /\ sets[s].items.mark \in Nat
  BY <1>2 DEF QuestionSet, Items
<1>5. ASSUME NEW r \in DOMAIN runs
      PROVE  runs[r].generationVersion \in Nat /\ runs[r].startedAt \in Nat
  BY <1>3 DEF Run
<1>6. Len(sanctioned) = Len(sets) /\ DOMAIN sanctioned = DOMAIN sets
  BY <1>2 DEF TypeInvariant
<1>7. \A s \in DOMAIN sets : sets[s].aiRun \in 0 .. Len(runs)
  BY DEF TypeInvariant
<1>8. \A r \in DOMAIN runs : runs[r].set \in DOMAIN sets /\ r \in Nat
  BY <1>3 DEF TypeInvariant
<1> QED BY <1>1, <1>2, <1>3, <1>4, <1>5, <1>6, <1>7, <1>8

\* Interviews stay what they are while sets are added.
LEMMA InterviewsGrow ==
  ASSUME TypeInvariant, DOMAIN sets \subseteq DOMAIN sets', UNCHANGED interviews
  PROVE  interviews' \in Seq([set : DOMAIN sets', items : Items])
<1> DEFINE S == [set : DOMAIN sets, items : Items]
           T == [set : DOMAIN sets', items : Items]
<1>1. interviews \in Seq(S) /\ S \subseteq T
  BY DEF TypeInvariant
<1> HIDE DEF S, T
<1>2. interviews \in Seq(T)
  BY <1>1
<1> QED BY <1>2 DEF T

\* A saved row replaces that of its set.
LEMMA SavedRows ==
  ASSUME TypeInvariant, NEW s \in DOMAIN sets, NEW row \in QuestionSet,
         sets' = [sets EXCEPT ![s] = row]
  PROVE  /\ sets' \in Seq(QuestionSet) /\ Len(sets') = Len(sets) /\ DOMAIN sets' = DOMAIN sets
         /\ sets'[s] = row
         /\ \A d \in DOMAIN sets \ {s} : sets'[d] = sets[d]
<1>1. sets \in Seq(QuestionSet) /\ s \in 1 .. Len(sets)
  BY DEF TypeInvariant
<1> QED BY <1>1

\* The type invariant after a step that saves sets, and replaces runs and adds at
\* most one.
LEMMA TypesAfter ==
  ASSUME TypeInvariant, UNCHANGED <<now, application, seen, interviews>>,
         sets' \in Seq(QuestionSet), Len(sets') = Len(sets), DOMAIN sets' = DOMAIN sets,
         \A s \in DOMAIN sets : sets'[s].aiRun \in 0 .. Len(runs'),
         runs' \in Seq(Run), \A r \in DOMAIN runs' : runs'[r].set \in DOMAIN sets,
         edits' \in 0 .. MaxEdits, sanctioned' \in Seq(Items), Len(sanctioned') = Len(sets)
  PROVE  TypeInvariant'
BY InterviewsGrow DEF TypeInvariant, application

-----------------------------------------------------------------------------
(* Initially.                                                              *)

\* The initial state satisfies the invariant.
LEMMA InitInv == ASSUME Init PROVE Inv
<1>1. /\ sets = <<>> /\ runs = <<>> /\ seen = <<>> /\ interviews = <<>> /\ sanctioned = <<>>
      /\ DOMAIN sets = {} /\ DOMAIN runs = {} /\ DOMAIN seen = {} /\ DOMAIN interviews = {}
      /\ sets \in Seq(QuestionSet) /\ runs \in Seq(Run) /\ sanctioned \in Seq(Items)
  BY DEF Init
<1>2. TypeInvariant
  BY <1>1, Bounds DEF Init, TypeInvariant
<1> QED
  BY <1>1, <1>2 DEF Inv, RunsFit, SetsFit, SeenFits, InterviewsFit, VersionNamesQuestions,
                    SupersededWasOverdue

-----------------------------------------------------------------------------
(* Steps that save no set.                                                 *)

\* The clock ticks, the application and the sources change, HR reads the sets or
\* creates an interview.
SetsAndRunsStay == UNCHANGED <<sets, runs, history>> /\ now' >= now

\* Such a step keeps what is said of sets and runs.
LEMMA SetsAndRunsStayFit ==
  ASSUME Inv, SetsAndRunsStay, now' \in Nat
  PROVE  RunsFit' /\ SetsFit' /\ SupersededWasOverdue'
<1>1. /\ sets' = sets /\ runs' = runs /\ edits' = edits /\ sanctioned' = sanctioned
      /\ now \in Nat
  BY Rows DEF Inv, SetsAndRunsStay, history
<1>2. RunsFit' /\ SupersededWasOverdue'
  BY <1>1 DEF Inv, RunsFit, RunFits, StillOwned, Working, SupersededWasOverdue
<1>3. SetsFit'
  <2>1. \A s \in DOMAIN sets : SetFits(s) => SetFits(s)'
    BY <1>1, Rows DEF SetFits, SetsAndRunsStay, Inv
  <2> QED BY <1>1, <2>1 DEF Inv, SetsFit
<1> QED BY <1>2, <1>3

\* What does not touch the sets keeps the invariant.
LEMMA AroundKeepsInv ==
  ASSUME Inv, Tick \/ ApplicationMoves \/ SourceChanges \/ HrReads
  PROVE  Inv'
<1>1. TypeInvariant /\ now \in Nat /\ DOMAIN sets = 1 .. Len(sets) /\ Len(sets) \in Nat
  BY Rows DEF Inv
<1>2. UNCHANGED <<sets, runs, interviews, history>> /\ now' >= now /\ now' \in 0 .. MaxTime
  BY <1>1, Bounds DEF Tick, ApplicationMoves, SourceChanges, HrReads, TypeInvariant
<1>3. shortlisted' \in BOOLEAN /\ source' \in 0 .. MaxSources
  BY <1>1 DEF Tick, ApplicationMoves, SourceChanges, HrReads, TypeInvariant, application
<1>4. seen' \in Seq([version : Nat, generationVersion : Nat, items : Items]) /\ SeenFits'
  <2>1. CASE seen' = seen
    BY <1>1, <1>2, <2>1 DEF Inv, SeenFits, VersionNamesQuestions, TypeInvariant
  <2>2. CASE HrReads
    <3> DEFINE f(s) == [version |-> sets[s].version,
                        generationVersion |-> sets[s].generationVersion,
                        items |-> sets[s].items]
               S == [version : Nat, generationVersion : Nat, items : Items]
    <3>1. seen' = [s \in 1 .. Len(sets) |-> f(s)] /\ \A s \in 1 .. Len(sets) : f(s) \in S
      BY <1>1, <2>2, Rows DEF HrReads
    <3>2. seen' \in Seq(S)
      <4> HIDE DEF f, S
      <4> QED BY <1>1, <3>1
    <3>3. SeenFits'
      BY <1>1, <1>2, <3>1, Rows DEF SeenFits, VersionNamesQuestions
    <3> QED BY <3>2, <3>3
  <2> QED BY <2>1, <2>2 DEF Tick, ApplicationMoves, SourceChanges
<1>5. TypeInvariant'
  BY <1>1, <1>2, <1>3, <1>4 DEF TypeInvariant, history
<1>6. RunsFit' /\ SetsFit' /\ SupersededWasOverdue'
  BY <1>2, Bounds, SetsAndRunsStayFit DEF SetsAndRunsStay
<1>7. InterviewsFit'
  BY <1>2 DEF Inv, InterviewsFit, history
<1> QED BY <1>4, <1>5, <1>6, <1>7 DEF Inv

\* An interview is created from an approved set.
LEMMA CreateInterviewKeepsInv ==
  ASSUME Inv, NEW s \in DOMAIN sets, CreateInterview(s)
  PROVE  Inv'
<1> DEFINE S == [set : DOMAIN sets, items : Items]
<1> PICK new : new = [set |-> s, items |-> sets[s].items]
  OBVIOUS
<1>1. /\ TypeInvariant /\ now \in Nat /\ new \in S /\ interviews \in Seq(S)
      /\ new.set = s /\ new.items = sets[s].items
      /\ sets[s].status = "APPROVED" /\ interviews' = Append(interviews, new)
  <2>1. TypeInvariant
    BY DEF Inv
  <2> QED BY <2>1, Rows DEF TypeInvariant, CreateInterview
<1>2. /\ interviews' \in Seq(S)
      /\ \A i \in DOMAIN interviews' :
           \/ interviews'[i] = new
           \/ i \in DOMAIN interviews /\ interviews'[i] = interviews[i]
  <2> HIDE DEF S
  <2>1. PICK n \in Nat : n = Len(interviews) /\ DOMAIN interviews = 1 .. n
    BY <1>1
  <2>2. /\ interviews' \in Seq(S) /\ DOMAIN interviews' = 1 .. n + 1
        /\ interviews'[n + 1] = new /\ \A i \in 1 .. n : interviews'[i] = interviews[i]
    BY <1>1, <2>1
  <2> QED BY <2>1, <2>2
<1>3. UNCHANGED <<now, source, sets, runs, seen, history>> /\ shortlisted' = FALSE
  BY DEF CreateInterview
<1>4. TypeInvariant'
  BY <1>1, <1>2, <1>3 DEF TypeInvariant, history
<1>5. RunsFit' /\ SetsFit' /\ SupersededWasOverdue'
  BY <1>1, <1>3, SetsAndRunsStayFit DEF SetsAndRunsStay
<1>6. SeenFits'
  BY <1>3 DEF Inv, SeenFits, VersionNamesQuestions
<1>7. InterviewsFit'
  <2>1. sanctioned[s] = sets[s].items
    BY <1>1 DEF Inv, SetsFit, SetFits
  <2> QED BY <1>1, <1>2, <1>3, <2>1 DEF Inv, InterviewsFit, history
<1> QED BY <1>4, <1>5, <1>6, <1>7 DEF Inv

\* A worker ends without its set: its run is what it was, or has failed.
RunMoves(r, q) ==
  /\ q \in Run
  /\ q.set = runs[r].set /\ q.generationVersion = runs[r].generationVersion
  /\ q.startedAt = runs[r].startedAt /\ q.answer # "NONE"
  /\ \/ q.status = runs[r].status
     \/ runs[r].status = "PROCESSING" /\ q.status = "FAILED"
  /\ runs' = [runs EXCEPT ![r] = q]

\* What a move of a run changes.
LEMMA MovedRuns ==
  ASSUME TypeInvariant, NEW r \in DOMAIN runs, NEW q, RunMoves(r, q)
  PROVE  /\ runs' \in Seq(Run) /\ Len(runs') = Len(runs) /\ DOMAIN runs' = DOMAIN runs
         /\ runs'[r] = q /\ ~Working(r)'
         /\ \A p \in DOMAIN runs \ {r} : runs'[p] = runs[p] /\ Working(p)' = Working(p)
         /\ \A p \in DOMAIN runs :
              /\ runs'[p].set = runs[p].set /\ runs'[p].startedAt = runs[p].startedAt
              /\ runs'[p].generationVersion = runs[p].generationVersion
<1>1. /\ runs \in Seq(Run) /\ r \in 1 .. Len(runs) /\ q \in Run
      /\ runs' = [runs EXCEPT ![r] = q]
  BY DEF TypeInvariant, RunMoves
<1>2. /\ runs' \in Seq(Run) /\ Len(runs') = Len(runs) /\ DOMAIN runs' = DOMAIN runs
      /\ runs'[r] = q /\ \A p \in DOMAIN runs \ {r} : runs'[p] = runs[p]
  BY <1>1
<1> QED BY <1>2 DEF RunMoves, Working

\* Such a move keeps the invariant.
LEMMA RunMovesKeepInv ==
  ASSUME Inv, NEW r \in DOMAIN runs, NEW q, RunMoves(r, q), RunsOnly
  PROVE  Inv'
<1>1. /\ TypeInvariant /\ sets' = sets /\ seen' = seen /\ now' = now
      /\ interviews' = interviews /\ edits' = edits /\ sanctioned' = sanctioned
      /\ UNCHANGED application
  BY DEF Inv, RunsOnly, history
<1>2. /\ runs' \in Seq(Run) /\ Len(runs') = Len(runs) /\ DOMAIN runs' = DOMAIN runs
      /\ runs'[r] = q /\ ~Working(r)'
      /\ \A p \in DOMAIN runs \ {r} : runs'[p] = runs[p] /\ Working(p)' = Working(p)
      /\ \A p \in DOMAIN runs :
           /\ runs'[p].set = runs[p].set /\ runs'[p].startedAt = runs[p].startedAt
           /\ runs'[p].generationVersion = runs[p].generationVersion
  BY <1>1, MovedRuns
<1>3. TypeInvariant'
  BY <1>1, <1>2 DEF TypeInvariant, application
<1>4. \A p \in DOMAIN runs : runs'[p].status # runs[p].status =>
        p = r /\ runs[p].status = "PROCESSING" /\ runs'[p].status = "FAILED"
  BY <1>2 DEF RunMoves
<1>5. RunsFit'
  <2> SUFFICES ASSUME NEW p \in DOMAIN runs PROVE RunFits(p)'
    BY <1>2 DEF RunsFit
  <2>1. RunFits(p)
    BY DEF Inv, RunsFit
  <2>2. /\ runs'[p].status = "PROCESSING" => runs[p].status = "PROCESSING"
        /\ Working(p)' /\ runs'[p].status # "PROCESSING" =>
             Working(p) /\ runs[p].status # "PROCESSING"
    BY <1>2, <1>4
  <2>3. StillOwned(p) => StillOwned(p)'
    BY <1>1, <1>2 DEF StillOwned
  <2> QED BY <1>1, <1>2, <2>1, <2>2, <2>3 DEF RunFits
<1>6. SetsFit'
  <2> SUFFICES ASSUME NEW s \in DOMAIN sets PROVE SetFits(s)'
    BY <1>1 DEF SetsFit
  <2>1. SetFits(s) /\ sets[s].aiRun \in 0 .. Len(runs) /\ DOMAIN runs = 1 .. Len(runs)
        /\ Len(runs) \in Nat
    BY <1>1, Rows DEF Inv, SetsFit
  <2>2. sets[s].aiRun # 0 =>
          /\ sets[s].aiRun \in DOMAIN runs
          /\ runs[sets[s].aiRun].status = "SUCCEEDED" => runs'[sets[s].aiRun].status = "SUCCEEDED"
    BY <1>4, <2>1
  <2> QED BY <1>1, <1>2, <2>1, <2>2 DEF SetFits
<1>7. SeenFits' /\ InterviewsFit'
  BY <1>1 DEF Inv, SeenFits, VersionNamesQuestions, InterviewsFit
<1>8. SupersededWasOverdue'
  <2> SUFFICES ASSUME NEW p \in DOMAIN runs, runs'[p].status = "SUPERSEDED"
               PROVE  \E o \in DOMAIN runs' : runs'[o].set = runs'[p].set
                        /\ runs'[o].startedAt - runs'[p].startedAt > StaleAfter
    BY <1>2 DEF SupersededWasOverdue
  <2>1. runs[p].status = "SUPERSEDED"
    BY <1>4
  <2>2. PICK o \in DOMAIN runs : runs[o].set = runs[p].set
          /\ runs[o].startedAt - runs[p].startedAt > StaleAfter
    BY <2>1 DEF Inv, SupersededWasOverdue
  <2> QED BY <1>2, <2>2
<1> QED BY <1>3, <1>5, <1>6, <1>7, <1>8 DEF Inv

\* The steps of a worker that ends without its set.
LEMMA MovesOfRuns ==
  ASSUME TypeInvariant, NEW r \in DOMAIN runs,
         \/ DropResult(r) \/ ResultIsLost(r)
         \/ MarkGenerationFailed(r) /\ (sets[runs[r].set].deleted \/ ~StillOwned(r))
  PROVE  (\E q : RunMoves(r, q)) /\ RunsOnly
<1>1. runs[r] \in Run /\ runs \in Seq(Run)
  BY Rows DEF TypeInvariant
<1>2. ASSUME NEW answer \in {"NOT_FOUND", "SUPERSEDED", "STALE", "LOST"}, Answer(r, answer)
      PROVE  \E q : RunMoves(r, q)
  <2> DEFINE q == [runs[r] EXCEPT !.answer = answer]
  <2>1. runs' = [runs EXCEPT ![r] = q]
    BY <1>2 DEF Answer
  <2>2. RunMoves(r, q)
    BY <1>1, <2>1 DEF RunMoves, Run
  <2> QED BY <2>2
<1>3. CASE DropResult(r) \/ ResultIsLost(r)
  BY <1>2, <1>3 DEF DropResult, ResultIsLost
<1>4. CASE MarkGenerationFailed(r) /\ (sets[runs[r].set].deleted \/ ~StillOwned(r))
  <2> DEFINE closed == CloseRun(runs[r], "FAILED")
             q == [closed EXCEPT !.answer = "FAILED"]
  <2>1. runs' = [runs EXCEPT ![r] = q] /\ RunsOnly
    BY <1>4 DEF MarkGenerationFailed, RunsOnly
  <2>2. RunMoves(r, q)
    <3>1. CASE runs[r].status = "PROCESSING"
      BY <1>1, <2>1, <3>1 DEF RunMoves, Run, CloseRun
    <3>2. CASE runs[r].status # "PROCESSING"
      BY <1>1, <2>1, <3>2 DEF RunMoves, Run, CloseRun
    <3> QED BY <3>1, <3>2
  <2> QED BY <2>1, <2>2
<1> QED BY <1>3, <1>4

-----------------------------------------------------------------------------
(* Steps that save a set.                                                  *)

\* A step that saves one set keeps the invariant when it does so for that set and
\* its runs, and touches no others.
LEMMA SaveKeepsInv ==
  ASSUME Inv, NEW s \in DOMAIN sets, NEW row \in QuestionSet,
         sets' = [sets EXCEPT ![s] = row],
         UNCHANGED <<now, application, seen, interviews>>,
         runs' \in Seq(Run), Len(runs) <= Len(runs'), row.aiRun <= Len(runs'),
         \A p \in DOMAIN runs :
           /\ runs'[p].set = runs[p].set
           /\ runs[p].set # s => runs'[p] = runs[p],
         \A p \in DOMAIN runs' \ DOMAIN runs : runs'[p].set = s,
         \A p \in DOMAIN runs' : runs'[p].set = s => RunFits(p)',
         SupersededWasOverdue', SetFits(s)',
         edits' \in 0 .. MaxEdits, edits <= edits',
         sanctioned' \in Seq(Items), Len(sanctioned') = Len(sanctioned),
         \A d \in DOMAIN sets \ {s} : sanctioned'[d] = sanctioned[d],
         sets[s].status = "APPROVED" =>
           row.status = "APPROVED" /\ sanctioned'[s] = sanctioned[s],
         \/ row.version = sets[s].version /\ row.items = sets[s].items
         \/ row.version = sets[s].version + 1
  PROVE  Inv'
<1>1. /\ TypeInvariant /\ now' = now /\ now \in Nat /\ seen' = seen
      /\ interviews' = interviews
  BY Rows DEF Inv
<1>2. /\ sets' \in Seq(QuestionSet) /\ Len(sets') = Len(sets) /\ DOMAIN sets' = DOMAIN sets
      /\ sets'[s] = row /\ \A d \in DOMAIN sets \ {s} : sets'[d] = sets[d]
  BY <1>1, SavedRows
<1>3. /\ DOMAIN runs = 1 .. Len(runs) /\ DOMAIN runs' = 1 .. Len(runs')
      /\ Len(runs) \in Nat /\ Len(runs') \in Nat
      /\ DOMAIN runs \subseteq DOMAIN runs'
  BY <1>1, Rows
<1>4. \A p \in DOMAIN runs' :
        \/ runs'[p].set = s
        \/ p \in DOMAIN runs /\ runs'[p] = runs[p] /\ runs[p].set \in DOMAIN sets \ {s}
  BY <1>1, <1>3, Rows
<1>5. TypeInvariant'
  <2>1. \A p \in DOMAIN runs' : runs'[p].set \in DOMAIN sets
    BY <1>4
  <2>2. \A d \in DOMAIN sets : sets'[d].aiRun \in 0 .. Len(runs')
    <3>1. row.aiRun \in Nat
      BY DEF QuestionSet
    <3> QED BY <1>1, <1>2, <1>3, <3>1, Rows
  <2>3. Len(sanctioned') = Len(sets)
    BY <1>1, Rows
  <2> QED BY <1>1, <1>2, <2>1, <2>2, <2>3, TypesAfter
<1>6. RunsFit'
  <2> SUFFICES ASSUME NEW p \in DOMAIN runs', runs'[p].set # s PROVE RunFits(p)'
    BY DEF RunsFit
  <2>1. /\ p \in DOMAIN runs /\ runs'[p] = runs[p] /\ runs[p].set \in DOMAIN sets \ {s}
        /\ RunFits(p)
    BY <1>4 DEF Inv, RunsFit
  <2> QED BY <1>2, <2>1 DEF RunFits, Working, StillOwned
<1>7. SetsFit'
  <2> SUFFICES ASSUME NEW d \in DOMAIN sets \ {s} PROVE SetFits(d)'
    BY <1>2 DEF SetsFit
  <2>1. SetFits(d) /\ sets'[d] = sets[d] /\ sanctioned'[d] = sanctioned[d]
        /\ sets[d].aiRun \in 0 .. Len(runs)
    BY <1>1, <1>2, Rows DEF Inv, SetsFit
  <2>2. sets[d].aiRun # 0 =>
          runs[sets[d].aiRun].set = d /\ runs'[sets[d].aiRun] = runs[sets[d].aiRun]
    BY <1>3, <2>1 DEF SetFits
  <2>3. sets[d].items.mark \in Nat /\ edits \in Nat /\ edits' \in Nat
    BY <1>1, Rows
  <2> QED BY <1>1, <2>1, <2>2, <2>3 DEF SetFits
<1>8. SeenFits'
  <2>1. \A d \in DOMAIN seen :
          /\ d \in DOMAIN sets /\ sets[d].version \in Nat
          /\ seen[d].version \in Nat /\ seen[d].version <= sets[d].version
    <3> DEFINE S == [version : Nat, generationVersion : Nat, items : Items]
    <3>1. \A d \in DOMAIN seen : seen[d] \in S
      <4>1. seen \in Seq(S)
        BY <1>1 DEF TypeInvariant
      <4> HIDE DEF S
      <4> QED BY <4>1
    <3> QED BY <1>1, <3>1, Rows DEF Inv, SeenFits
  <2> QED BY <1>1, <1>2, <2>1 DEF Inv, SeenFits, VersionNamesQuestions
<1>9. InterviewsFit'
  <2>1. \A i \in DOMAIN interviews : interviews[i].set \in DOMAIN sets
    <3> DEFINE S == [set : DOMAIN sets, items : Items]
    <3>1. \A i \in DOMAIN interviews : interviews[i] \in S
      <4>1. interviews \in Seq(S)
        BY <1>1 DEF TypeInvariant
      <4> HIDE DEF S
      <4> QED BY <4>1
    <3> QED BY <3>1
  <2> QED BY <1>1, <1>2, <2>1 DEF Inv, InterviewsFit
<1> QED BY <1>5, <1>6, <1>7, <1>8, <1>9 DEF Inv

\* A save that touches no run: an edit, an approval or a removal.
LEMMA EditsKeepInv ==
  ASSUME Inv, NEW s \in DOMAIN sets, UpdateItems(s) \/ Approve(s) \/ Remove(s)
  PROVE  Inv'
<1>1. /\ TypeInvariant /\ now \in Nat /\ sets[s] \in QuestionSet /\ edits \in Nat
      /\ runs \in Seq(Run) /\ Len(runs) \in Nat /\ sets[s].aiRun <= Len(runs)
      /\ sanctioned \in Seq(Items) /\ DOMAIN sanctioned = DOMAIN sets
      /\ sets[s].version \in Nat /\ SetFits(s)
      /\ sets[s].updatedAt \in Nat /\ sets[s].updatedAt <= now
  BY Rows DEF Inv, TypeInvariant, SetsFit, SetFits
<1>2. runs' = runs /\ UNCHANGED <<now, application, seen, interviews>> /\ now' = now
  BY DEF UpdateItems, Approve, Remove, SetsOnly
<1>3. PICK row \in QuestionSet :
        /\ sets' = [sets EXCEPT ![s] = row]
        /\ row.updatedAt = now /\ row.aiRun = sets[s].aiRun
        /\ row.generationVersion = sets[s].generationVersion
        /\ \/ /\ sets[s].status = "DRAFT" /\ row.status = "DRAFT"
              /\ row.version = sets[s].version + 1 /\ row.deleted = sets[s].deleted
              /\ row.items = [by |-> "HR", mark |-> edits + 1]
              /\ edits + 1 \in 0 .. MaxEdits /\ edits' = edits + 1 /\ sanctioned' = sanctioned
           \/ /\ sets[s].status = "DRAFT" /\ row.status = "APPROVED"
              /\ row.version = sets[s].version + 1 /\ row.deleted = sets[s].deleted
              /\ row.items = sets[s].items
              /\ edits' = edits /\ sanctioned' = [sanctioned EXCEPT ![s] = sets[s].items]
           \/ /\ row.deleted /\ row.status = sets[s].status
              /\ row.version = sets[s].version /\ row.items = sets[s].items
              /\ edits' = edits /\ sanctioned' = sanctioned
  <2>1. PICK v \in Nat, e \in Nat : v = sets[s].version + 1 /\ e = edits + 1
    BY <1>1
  <2>2. CASE UpdateItems(s)
    <3> DEFINE row == [sets[s] EXCEPT !.items = [by |-> "HR", mark |-> e], !.version = v,
                                      !.updatedAt = now]
    <3>1. /\ sets' = [sets EXCEPT ![s] = row] /\ edits' = e /\ sets[s].status = "DRAFT"
          /\ sanctioned' = sanctioned
      BY <2>1, <2>2 DEF UpdateItems, MayChange, Save
    <3>2. row \in QuestionSet
      BY <1>1 DEF QuestionSet, Items
    <3>3. edits + 1 \in 0 .. MaxEdits
      BY <1>1, <2>2, Bounds DEF UpdateItems
    <3>4. /\ row.updatedAt = now /\ row.aiRun = sets[s].aiRun
          /\ row.generationVersion = sets[s].generationVersion
          /\ row.status = "DRAFT" /\ row.version = v /\ row.deleted = sets[s].deleted
          /\ row.items = [by |-> "HR", mark |-> e]
      BY <1>1, <3>1 DEF QuestionSet
    <3> HIDE DEF row
    <3> QED BY <2>1, <3>1, <3>2, <3>3, <3>4
  <2>3. CASE Approve(s)
    <3> DEFINE row == [sets[s] EXCEPT !.status = "APPROVED", !.version = v, !.updatedAt = now]
               S == [version : Nat, generationVersion : Nat, items : Items]
    <3>1. sets' = [sets EXCEPT ![s] = row] /\ sets[s].status = "DRAFT" /\ edits' = edits
      BY <2>1, <2>3 DEF Approve, MayChange, Save
    <3>2. row \in QuestionSet
      BY <1>1 DEF QuestionSet
    <3>3. seen[s].items = sets[s].items
      BY <2>3 DEF Approve, MayChange, Inv, SeenFits, VersionNamesQuestions
    <3>4. sanctioned' = [sanctioned EXCEPT ![s] = sets[s].items]
      BY <2>3, <3>3 DEF Approve
    <3> QED BY <1>1, <2>1, <3>1, <3>2, <3>4 DEF QuestionSet
  <2>4. CASE Remove(s)
    <3> DEFINE row == [sets[s] EXCEPT !.deleted = TRUE, !.updatedAt = now]
    <3>1. sets' = [sets EXCEPT ![s] = row] /\ edits' = edits /\ sanctioned' = sanctioned
      BY <2>4 DEF Remove, Save, history
    <3>2. row \in QuestionSet
      BY <1>1 DEF QuestionSet
    <3> QED BY <1>1, <3>1, <3>2 DEF QuestionSet
  <2> QED BY <2>2, <2>3, <2>4
<1>4. /\ edits' \in 0 .. MaxEdits /\ edits <= edits'
      /\ sanctioned' \in Seq(Items) /\ Len(sanctioned') = Len(sanctioned)
      /\ \A d \in DOMAIN sets \ {s} : sanctioned'[d] = sanctioned[d]
  <2>1. edits \in 0 .. MaxEdits /\ s \in 1 .. Len(sanctioned) /\ sets[s].items \in Items
    BY <1>1, Rows DEF TypeInvariant
  <2>2. CASE sanctioned' = sanctioned
    BY <1>1, <1>3, <2>1, <2>2
  <2>3. CASE sanctioned' = [sanctioned EXCEPT ![s] = sets[s].items]
    <3>1. sanctioned' \in Seq(Items) /\ Len(sanctioned') = Len(sanctioned)
      BY <1>1, <2>1, <2>3
    <3>2. \A d \in DOMAIN sets \ {s} : sanctioned'[d] = sanctioned[d]
      BY <1>1, <2>3
    <3> QED BY <1>1, <1>3, <2>1, <3>1, <3>2
  <2> QED BY <1>3, <2>2, <2>3
<1>5. sets'[s] = row /\ \A d \in DOMAIN sets \ {s} : sets'[d] = sets[d]
  BY <1>1, <1>3, SavedRows
<1>6. ASSUME NEW p \in DOMAIN runs, runs[p].set = s PROVE RunFits(p)'
  <2>1. RunFits(p) /\ runs[p].startedAt \in Nat
    BY <1>1, Rows DEF Inv, RunsFit
  <2>2. ~row.deleted => ~sets[s].deleted /\ (StillOwned(p) => row.status = sets[s].status)
    BY <1>3, <1>6, <1>1 DEF StillOwned, UpdateItems, Approve, Remove, MayChange
  <2> QED BY <1>1, <1>2, <1>3, <1>5, <1>6, <2>1, <2>2 DEF RunFits, Working, StillOwned
<1>7. SetFits(s)'
  <2>1. row.aiRun \in Nat /\ sets[s].items.mark \in Nat
    BY <1>1, Rows DEF QuestionSet
  <2>2. row.items.by = "HR" => row.items.mark <= edits'
    BY <1>1, <1>3, <2>1 DEF SetFits
  <2>3. row.status = "APPROVED" => sanctioned'[s] = row.items
    BY <1>1, <1>3 DEF SetFits
  <2>4. row.status \in {"GENERATING", "FAILED"} => row.items = NoItems
    BY <1>1, <1>3 DEF SetFits
  <2>5. row.items.by = "AI" => row.items = sets[s].items
    BY <1>3
  <2> QED BY <1>1, <1>2, <1>3, <1>5, <2>2, <2>3, <2>4, <2>5 DEF SetFits
<1>8. sets[s].status = "APPROVED" => row.status = "APPROVED" /\ sanctioned'[s] = sanctioned[s]
  BY <1>3
<1>9. SupersededWasOverdue'
  BY <1>2 DEF Inv, SupersededWasOverdue
<1>10. /\ runs' \in Seq(Run) /\ Len(runs) <= Len(runs') /\ row.aiRun <= Len(runs')
       /\ \A p \in DOMAIN runs : runs'[p].set = runs[p].set /\ runs'[p] = runs[p]
       /\ DOMAIN runs' \ DOMAIN runs = {}
       /\ \A p \in DOMAIN runs' : runs'[p].set = s => RunFits(p)'
  BY <1>1, <1>2, <1>3, <1>6
<1>11. \/ row.version = sets[s].version /\ row.items = sets[s].items
       \/ row.version = sets[s].version + 1
  BY <1>3
<1> QED BY <1>2, <1>3, <1>4, <1>7, <1>8, <1>9, <1>10, <1>11, SaveKeepsInv

\* A step that adds a set, and perhaps its first run, keeps the invariant when the
\* new rows fit together.
LEMMA CreateKeepsInv ==
  ASSUME Inv, NEW row \in QuestionSet, NEW n, n = Len(sets) + 1,
         sets' = Append(sets, row), sanctioned' = Append(sanctioned, NoItems),
         edits' = edits, UNCHANGED <<now, application, seen, interviews>>,
         runs' \in Seq(Run), Len(runs) <= Len(runs'), row.aiRun <= Len(runs'),
         \A p \in DOMAIN runs : runs'[p] = runs[p],
         \A p \in DOMAIN runs' \ DOMAIN runs :
           runs'[p].set = n /\ RunFits(p)' /\ runs'[p].status # "SUPERSEDED",
         SetFits(n)'
  PROVE  Inv'
<1>1. /\ TypeInvariant /\ now' = now /\ now \in Nat /\ seen' = seen
      /\ interviews' = interviews /\ sets \in Seq(QuestionSet) /\ Len(sets) \in Nat
      /\ DOMAIN sets = 1 .. Len(sets) /\ sanctioned \in Seq(Items)
      /\ Len(sanctioned) = Len(sets) /\ NoItems \in Items
  BY Rows DEF Inv, TypeInvariant, Items, NoItems
<1>2. /\ sets' \in Seq(QuestionSet) /\ Len(sets') = n /\ DOMAIN sets' = DOMAIN sets \cup {n}
      /\ sets'[n] = row /\ \A d \in DOMAIN sets : d # n /\ sets'[d] = sets[d]
  BY <1>1
<1>3. /\ sanctioned' \in Seq(Items) /\ Len(sanctioned') = n
      /\ \A d \in DOMAIN sets : sanctioned'[d] = sanctioned[d]
  BY <1>1
<1>4. /\ DOMAIN runs = 1 .. Len(runs) /\ DOMAIN runs' = 1 .. Len(runs')
      /\ Len(runs) \in Nat /\ Len(runs') \in Nat /\ DOMAIN runs \subseteq DOMAIN runs'
  BY <1>1, Rows
<1>5. TypeInvariant'
  <2>1. \A p \in DOMAIN runs' : runs'[p].set \in DOMAIN sets'
    BY <1>1, <1>2, <1>4, Rows
  <2>2. \A d \in DOMAIN sets' : sets'[d].aiRun \in 0 .. Len(runs')
    <3>1. row.aiRun \in Nat
      BY DEF QuestionSet
    <3>2. \A d \in DOMAIN sets : sets[d].aiRun \in 0 .. Len(runs')
      BY <1>1, <1>4, Rows
    <3> QED BY <1>2, <1>4, <3>1, <3>2
  <2>3. interviews' \in Seq([set : DOMAIN sets', items : Items])
    BY <1>1, <1>2, InterviewsGrow
  <2> QED BY <1>1, <1>2, <1>3, <2>1, <2>2, <2>3 DEF TypeInvariant, application
<1>6. RunsFit'
  <2> SUFFICES ASSUME NEW p \in DOMAIN runs PROVE RunFits(p)'
    BY <1>4 DEF RunsFit
  <2>1. /\ runs'[p] = runs[p] /\ runs[p].set \in DOMAIN sets /\ RunFits(p)
        /\ sets'[runs[p].set] = sets[runs[p].set]
    BY <1>1, <1>2, Rows DEF Inv, RunsFit
  <2> QED BY <2>1 DEF RunFits, Working, StillOwned
<1>7. SetsFit'
  <2> SUFFICES ASSUME NEW d \in DOMAIN sets PROVE SetFits(d)'
    BY <1>2 DEF SetsFit
  <2>1. SetFits(d) /\ sets'[d] = sets[d] /\ sanctioned'[d] = sanctioned[d]
        /\ sets[d].aiRun \in 0 .. Len(runs)
    BY <1>1, <1>2, <1>3, Rows DEF Inv, SetsFit
  <2>2. sets[d].aiRun # 0 => runs'[sets[d].aiRun] = runs[sets[d].aiRun]
    BY <1>4, <2>1
  <2> QED BY <1>1, <2>1, <2>2 DEF SetFits
<1>8. SeenFits'
  BY <1>1, <1>2 DEF Inv, SeenFits, VersionNamesQuestions
<1>9. InterviewsFit'
  <2>1. \A i \in DOMAIN interviews : interviews[i].set \in DOMAIN sets
    <3> DEFINE S == [set : DOMAIN sets, items : Items]
    <3>1. \A i \in DOMAIN interviews : interviews[i] \in S
      <4>1. interviews \in Seq(S)
        BY <1>1 DEF TypeInvariant
      <4> HIDE DEF S
      <4> QED BY <4>1
    <3> QED BY <3>1
  <2> QED BY <1>1, <1>2, <1>3, <2>1 DEF Inv, InterviewsFit
<1>10. SupersededWasOverdue'
  <2> SUFFICES ASSUME NEW p \in DOMAIN runs', runs'[p].status = "SUPERSEDED"
               PROVE  \E o \in DOMAIN runs' : runs'[o].set = runs'[p].set
                        /\ runs'[o].startedAt - runs'[p].startedAt > StaleAfter
    BY DEF SupersededWasOverdue
  <2>1. p \in DOMAIN runs
    OBVIOUS
  <2>2. PICK o \in DOMAIN runs : runs[o].set = runs[p].set
          /\ runs[o].startedAt - runs[p].startedAt > StaleAfter
    BY <2>1 DEF Inv, SupersededWasOverdue
  <2> QED BY <1>4, <2>1, <2>2
<1> QED BY <1>5, <1>6, <1>7, <1>8, <1>9, <1>10 DEF Inv

\* HR writes a draft or clones a set.
LEMMA DraftKeepsInv ==
  ASSUME Inv, CreateManualDraft \/ \E s \in DOMAIN sets : Clone(s)
  PROVE  Inv'
<1> PICK n : n = Len(sets) + 1
  OBVIOUS
<1>1. /\ TypeInvariant /\ now \in Nat /\ edits \in Nat /\ runs \in Seq(Run)
      /\ Len(runs) \in Nat /\ sets \in Seq(QuestionSet) /\ Len(sets) \in Nat
      /\ source \in Nat
  BY Rows, Bounds DEF Inv, TypeInvariant
<1>2. PICK row \in QuestionSet :
        /\ sets' = Append(sets, row) /\ row.status = "DRAFT" /\ row.aiRun = 0
        /\ row.updatedAt = now
        /\ row.items.by = "HR" => row.items.mark <= edits
  <2>1. CASE CreateManualDraft
    <3> PICK from \in {source, 0} : sets' = Append(sets, NewSet("MANUAL", "DRAFT", from))
      BY <2>1 DEF CreateManualDraft, Create
    <3> DEFINE row == NewSet("MANUAL", "DRAFT", from)
    <3>1. row \in QuestionSet
      BY <1>1 DEF NewSet, NoItems, Items, QuestionSet
    <3>2. row.status = "DRAFT" /\ row.aiRun = 0 /\ row.updatedAt = now /\ row.items.by # "HR"
      BY DEF NewSet, NoItems
    <3> QED BY <3>1, <3>2
  <2>2. ASSUME NEW s \in DOMAIN sets, Clone(s)
        PROVE  \E row \in QuestionSet :
                 /\ sets' = Append(sets, row) /\ row.status = "DRAFT" /\ row.aiRun = 0
                 /\ row.updatedAt = now
                 /\ row.items.by = "HR" => row.items.mark <= edits
    <3> DEFINE row == [sets[s] EXCEPT !.status = "DRAFT", !.version = 1, !.aiRun = 0,
                                      !.updatedAt = now]
    <3>1. sets[s] \in QuestionSet /\ SetFits(s)
      BY <1>1, Rows DEF Inv, SetsFit
    <3>2. row \in QuestionSet
      BY <1>1, <3>1 DEF QuestionSet
    <3>3. /\ row.status = "DRAFT" /\ row.aiRun = 0 /\ row.updatedAt = now
          /\ row.items = sets[s].items
      BY <3>1 DEF QuestionSet
    <3>4. sets' = Append(sets, row)
      BY <2>2 DEF Clone, Create
    <3> HIDE DEF row
    <3>5. row.items.by = "HR" => row.items.mark <= edits
      BY <3>1, <3>3 DEF SetFits
    <3> QED BY <3>2, <3>3, <3>4, <3>5
  <2> QED BY <2>1, <2>2
<1>3. /\ sanctioned' = Append(sanctioned, NoItems) /\ edits' = edits
      /\ runs' = runs /\ UNCHANGED <<now, application, seen, interviews>> /\ now' = now
  BY DEF CreateManualDraft, Clone, Create, SetsOnly
<1>4. SetFits(n)'
  <2>1. sets'[n] = row
    BY <1>1, <1>2
  <2> QED BY <1>1, <1>2, <1>3, <2>1 DEF SetFits
<1>5. runs' \in Seq(Run) /\ Len(runs) <= Len(runs') /\ row.aiRun <= Len(runs')
  BY <1>1, <1>2, <1>3
<1> QED BY <1>2, <1>3, <1>4, <1>5, CreateKeepsInv

\* What a new run consists of.
RunAdded(s, version, old, m) ==
  /\ runs' \in Seq(Run) /\ Len(runs') = m /\ m \in Nat /\ m \notin DOMAIN runs
  /\ DOMAIN runs' = DOMAIN runs \cup {m}
  /\ \A p \in DOMAIN runs : p < m /\ runs'[p] = old[p]
  /\ runs'[m].set = s /\ runs'[m].generationVersion = version
  /\ runs'[m].startedAt = now /\ runs'[m].status = "PROCESSING"

LEMMA NewRun ==
  ASSUME TypeInvariant, NEW s \in Nat, NEW version \in Nat, NEW old \in Seq(Run),
         Len(old) = Len(runs), runs' = Append(old, StartRun(s, version)),
         NEW m, m = Len(runs) + 1
  PROVE  RunAdded(s, version, old, m)
<1>1. now \in Nat /\ Len(runs) \in Nat /\ DOMAIN runs = 1 .. Len(runs)
  BY Rows
<1>2. StartRun(s, version) \in Run
  BY <1>1 DEF StartRun, Run
<1>3. /\ runs' \in Seq(Run) /\ Len(runs') = m /\ m \in Nat /\ m \notin DOMAIN runs
      /\ DOMAIN runs' = DOMAIN runs \cup {m}
      /\ \A p \in DOMAIN runs : p < m /\ runs'[p] = old[p]
      /\ runs'[m] = StartRun(s, version)
  BY <1>1, <1>2
<1> QED BY <1>3 DEF StartRun, RunAdded

\* The AI starts to write a set.
LEMMA GenerateDraftKeepsInv == ASSUME Inv, GenerateDraft PROVE Inv'
<1> PICK n \in Nat, m \in Nat : n = Len(sets) + 1 /\ m = Len(runs) + 1
  BY Rows DEF Inv
<1>1. /\ TypeInvariant /\ now \in Nat /\ edits \in Nat /\ runs \in Seq(Run)
      /\ Len(runs) \in Nat /\ sets \in Seq(QuestionSet) /\ Len(sets) \in Nat
      /\ source \in Nat
  BY Rows, Bounds DEF Inv, TypeInvariant
<1>2. PICK row \in QuestionSet :
        /\ sets' = Append(sets, row) /\ row.status = "GENERATING" /\ row.aiRun = m
        /\ row.updatedAt = now /\ row.items = NoItems /\ row.generationVersion = 1
        /\ row.deleted = FALSE
  <2> DEFINE row == [NewSet("AI", "GENERATING", source) EXCEPT !.aiRun = m]
  <2>1. sets' = Append(sets, row)
    BY DEF GenerateDraft, Create
  <2>2. row \in QuestionSet
    BY <1>1 DEF NewSet, NoItems, Items, QuestionSet
  <2> QED BY <2>1, <2>2 DEF NewSet
<1>3. /\ sanctioned' = Append(sanctioned, NoItems) /\ edits' = edits
      /\ runs' = Append(runs, StartRun(n, 1))
      /\ UNCHANGED <<now, application, seen, interviews>> /\ now' = now
  BY DEF GenerateDraft, Create
<1>4. /\ runs' \in Seq(Run) /\ Len(runs') = m /\ m \notin DOMAIN runs
      /\ DOMAIN runs' = DOMAIN runs \cup {m}
      /\ \A p \in DOMAIN runs : p < m /\ runs'[p] = runs[p]
      /\ runs'[m].set = n /\ runs'[m].generationVersion = 1
      /\ runs'[m].startedAt = now /\ runs'[m].status = "PROCESSING"
  <2>1. m = Len(runs) + 1 /\ 1 \in Nat
    OBVIOUS
  <2>2. RunAdded(n, 1, runs, m)
    BY <1>1, <1>3, <2>1, NewRun
  <2> QED BY <2>2 DEF RunAdded
<1>5. sets'[n] = row
  BY <1>1, <1>2
<1>6. SetFits(n)' /\ RunFits(m)'
  BY <1>1, <1>2, <1>3, <1>4, <1>5 DEF SetFits, RunFits, StillOwned, Working, NoItems
<1>7. Len(runs) <= Len(runs') /\ row.aiRun <= Len(runs') /\ m # 0
      /\ \A p \in DOMAIN runs' \ DOMAIN runs : p = m
  BY <1>1, <1>2, <1>4
<1>8. \A p \in DOMAIN runs' \ DOMAIN runs :
           runs'[p].set = n /\ RunFits(p)' /\ runs'[p].status # "SUPERSEDED"
  BY <1>4, <1>6, <1>7
<1> QED BY <1>2, <1>3, <1>4, <1>6, <1>7, <1>8, CreateKeepsInv

\* The runs after a retry but for the new one.
SupersededRuns(s) ==
  [r \in DOMAIN runs |->
     IF r = sets[s].aiRun THEN CloseRun(runs[r], "SUPERSEDED") ELSE runs[r]]

\* A retry supersedes the run of its set if it is still PROCESSING, and that is
\* the only one of the set that can be.
LEMMA SupersededRunsFields ==
  ASSUME Inv, NEW s \in DOMAIN sets, ~sets[s].deleted
  PROVE  /\ SupersededRuns(s) \in Seq(Run) /\ Len(SupersededRuns(s)) = Len(runs)
         /\ \A p \in DOMAIN runs :
              /\ SupersededRuns(s)[p].set = runs[p].set
              /\ SupersededRuns(s)[p].startedAt = runs[p].startedAt
              /\ runs[p].set # s => SupersededRuns(s)[p] = runs[p]
              /\ runs[p].set = s =>
                   SupersededRuns(s)[p].status =
                     IF runs[p].status = "PROCESSING" THEN "SUPERSEDED" ELSE runs[p].status
<1>1. TypeInvariant /\ runs \in Seq(Run) /\ DOMAIN runs = 1 .. Len(runs) /\ Len(runs) \in Nat
  BY Rows DEF Inv, TypeInvariant
<1>2. ASSUME NEW p \in DOMAIN runs
      PROVE  /\ SupersededRuns(s)[p] \in Run
             /\ SupersededRuns(s)[p].set = runs[p].set
             /\ SupersededRuns(s)[p].startedAt = runs[p].startedAt
             /\ runs[p].set # s => SupersededRuns(s)[p] = runs[p]
             /\ runs[p].set = s =>
                  SupersededRuns(s)[p].status =
                    IF runs[p].status = "PROCESSING" THEN "SUPERSEDED" ELSE runs[p].status
  <2>1. runs[p] \in Run /\ RunFits(p) /\ SetFits(s) /\ p # 0
    BY <1>1, Rows DEF Inv, RunsFit, SetsFit
  <2>2. CASE p = sets[s].aiRun
    <3>1. SupersededRuns(s)[p] = CloseRun(runs[p], "SUPERSEDED")
      BY <2>2 DEF SupersededRuns
    <3>2. runs[p].set = s
      BY <2>1, <2>2 DEF SetFits
    <3>3. CASE runs[p].status = "PROCESSING"
      BY <2>1, <3>1, <3>2, <3>3 DEF CloseRun, Run
    <3>4. CASE runs[p].status # "PROCESSING"
      BY <2>1, <3>1, <3>2, <3>4 DEF CloseRun
    <3> QED BY <3>3, <3>4
  <2>3. CASE p # sets[s].aiRun
    <3>1. SupersededRuns(s)[p] = runs[p]
      BY <2>3 DEF SupersededRuns
    <3>2. runs[p].set = s => runs[p].status # "PROCESSING"
      BY <2>1, <2>3 DEF RunFits, StillOwned
    <3> QED BY <2>1, <3>1, <3>2
  <2> QED BY <2>2, <2>3
<1>3. SupersededRuns(s) \in Seq(Run) /\ Len(SupersededRuns(s)) = Len(runs)
  <2> DEFINE f == SupersededRuns(s)
  <2>1. f = [p \in 1 .. Len(runs) |-> f[p]]
    BY <1>1 DEF SupersededRuns
  <2>2. \A p \in 1 .. Len(runs) : f[p] \in Run
    BY <1>1, <1>2
  <2> HIDE DEF f
  <2>3. f \in Seq(Run) /\ Len(f) = Len(runs)
    BY <1>1, <2>1, <2>2
  <2> QED BY <2>3 DEF f
<1> QED BY <1>2, <1>3

\* A generation is retried.
LEMMA RetryGenerationKeepsInv ==
  ASSUME Inv, NEW s \in DOMAIN sets, RetryGeneration(s)
  PROVE  Inv'
<1> PICK m \in Nat, version \in Nat :
      m = Len(runs) + 1 /\ version = sets[s].generationVersion + 1
  BY Rows DEF Inv
<1>1. /\ TypeInvariant /\ now \in Nat /\ sets[s] \in QuestionSet /\ s \in Nat
      /\ runs \in Seq(Run) /\ Len(runs) \in Nat /\ DOMAIN runs = 1 .. Len(runs)
      /\ sets[s].updatedAt \in Nat /\ SetFits(s) /\ sets[s].updatedAt <= now
      /\ sets[s].aiRun \in 0 .. Len(runs) /\ sanctioned \in Seq(Items)
      /\ edits \in 0 .. MaxEdits /\ edits \in Nat
  BY Rows DEF Inv, TypeInvariant, SetsFit, SetFits
<1>2. PICK row \in QuestionSet :
        /\ sets' = [sets EXCEPT ![s] = row]
        /\ row.status = "GENERATING" /\ row.generationVersion = version /\ row.aiRun = m
        /\ row.updatedAt = now /\ row.items = sets[s].items /\ row.version = sets[s].version
        /\ row.deleted = sets[s].deleted
  <2> DEFINE row == [sets[s] EXCEPT !.status = "GENERATING", !.generationVersion = version,
                                    !.aiRun = m, !.updatedAt = now]
  <2>1. sets' = [sets EXCEPT ![s] = row]
    BY DEF RetryGeneration, Save
  <2>2. row \in QuestionSet
    BY <1>1 DEF QuestionSet
  <2> QED BY <1>1, <2>1, <2>2 DEF QuestionSet
<1>3. /\ ~sets[s].deleted /\ sets[s].status \in {"FAILED", "GENERATING"}
      /\ sets[s].status = "GENERATING" => now - sets[s].updatedAt > StaleAfter
      /\ runs' = Append(SupersededRuns(s), StartRun(s, version))
      /\ UNCHANGED <<now, application, seen, interviews>> /\ now' = now
      /\ edits' = edits /\ sanctioned' = sanctioned
  BY DEF RetryGeneration, Overdue, SupersededRuns, history
<1> PICK old : old = SupersededRuns(s)
  OBVIOUS
<1>4. /\ old \in Seq(Run) /\ Len(old) = Len(runs)
      /\ \A p \in DOMAIN runs :
           /\ old[p].set = runs[p].set /\ old[p].startedAt = runs[p].startedAt
           /\ runs[p].set # s => old[p] = runs[p]
           /\ runs[p].set = s => old[p].status =
                IF runs[p].status = "PROCESSING" THEN "SUPERSEDED" ELSE runs[p].status
  BY <1>3, SupersededRunsFields
<1>5. /\ runs' \in Seq(Run) /\ Len(runs') = m /\ m \notin DOMAIN runs
      /\ DOMAIN runs' = DOMAIN runs \cup {m}
      /\ \A p \in DOMAIN runs : p < m /\ runs'[p] = old[p]
      /\ runs'[m].set = s /\ runs'[m].generationVersion = version
      /\ runs'[m].startedAt = now /\ runs'[m].status = "PROCESSING"
  <2>1. old \in Seq(Run) /\ Len(old) = Len(runs)
    BY <1>4
  <2>2. runs' = Append(old, StartRun(s, version))
    BY <1>3
  <2>3. TypeInvariant /\ s \in Nat /\ m = Len(runs) + 1
    BY <1>1
  <2>4. RunAdded(s, version, old, m)
    BY <2>1, <2>2, <2>3, NewRun
  <2> QED BY <2>4 DEF RunAdded
<1>6. sets'[s] = row
  BY <1>1, <1>2, SavedRows
<1>7. RunFits(m)'
  BY <1>1, <1>2, <1>3, <1>5, <1>6 DEF RunFits, StillOwned, Working
<1>8. ASSUME NEW p \in DOMAIN runs, runs[p].set = s PROVE RunFits(p)'
  <2>1. /\ RunFits(p) /\ runs[p].startedAt \in Nat
        /\ runs'[p].set = s /\ runs'[p].startedAt = runs[p].startedAt
        /\ runs'[p].status # "PROCESSING" /\ p < m /\ p \in Nat
    <3>1. RunFits(p) /\ runs[p].startedAt \in Nat /\ p \in Nat
      BY <1>1, Rows DEF Inv, RunsFit
    <3>2. /\ runs'[p].set = s /\ runs'[p].startedAt = runs[p].startedAt
          /\ runs'[p].status # "PROCESSING" /\ p < m
      BY <1>4, <1>5, <1>8
    <3> QED BY <3>1, <3>2
  <2>2. runs[p].startedAt <= now
    BY <1>1, <1>8, <2>1 DEF RunFits
  <2> QED BY <1>2, <1>6, <2>1, <2>2 DEF RunFits
<1>9. SetFits(s)'
  <2>1. sets[s].items = NoItems
    BY <1>1, <1>3 DEF SetFits
  <2> QED BY <1>1, <1>2, <1>3, <1>5, <1>6, <2>1 DEF SetFits, NoItems
<1>10. SupersededWasOverdue'
  <2> SUFFICES ASSUME NEW p \in DOMAIN runs', runs'[p].status = "SUPERSEDED"
               PROVE  \E o \in DOMAIN runs' : runs'[o].set = runs'[p].set
                        /\ runs'[o].startedAt - runs'[p].startedAt > StaleAfter
    BY DEF SupersededWasOverdue
  <2>1. p \in DOMAIN runs
    BY <1>5
  <2>2. CASE runs[p].status = "SUPERSEDED"
    <3>1. PICK o \in DOMAIN runs : runs[o].set = runs[p].set
            /\ runs[o].startedAt - runs[p].startedAt > StaleAfter
      BY <2>1, <2>2 DEF Inv, SupersededWasOverdue
    <3>2. /\ runs'[o].set = runs[o].set /\ runs'[o].startedAt = runs[o].startedAt
          /\ runs'[p].set = runs[p].set /\ runs'[p].startedAt = runs[p].startedAt
      BY <1>4, <1>5, <2>1
    <3> QED BY <1>5, <3>1, <3>2
  <2>3. CASE runs[p].status # "SUPERSEDED"
    <3>1. runs[p].set = s /\ runs[p].status = "PROCESSING"
      BY <1>4, <1>5, <2>1, <2>3
    <3>2. RunFits(p) /\ runs[p].startedAt \in Nat
      BY <1>1, <2>1, Rows DEF Inv, RunsFit
    <3>3. sets[s].status = "GENERATING" /\ runs[p].startedAt <= sets[s].updatedAt
      BY <1>3, <3>1, <3>2 DEF RunFits, StillOwned
    <3>4. now - runs[p].startedAt > StaleAfter
      BY <1>1, <1>3, <3>2, <3>3, Bounds
    <3>5. runs'[p].set = s /\ runs'[p].startedAt = runs[p].startedAt
      BY <1>4, <1>5, <2>1, <3>1
    <3>6. m \in DOMAIN runs' /\ runs'[m].set = s
          /\ runs'[m].startedAt - runs'[p].startedAt > StaleAfter
      BY <1>5, <3>4, <3>5
    <3> QED BY <3>5, <3>6
  <2> QED BY <2>2, <2>3
<1>11. /\ Len(runs) <= Len(runs') /\ row.aiRun <= Len(runs')
       /\ \A p \in DOMAIN runs : /\ runs'[p].set = runs[p].set
                                 /\ runs[p].set # s => runs'[p] = runs[p]
       /\ \A p \in DOMAIN runs' \ DOMAIN runs : runs'[p].set = s
       /\ \A p \in DOMAIN runs' : runs'[p].set = s => RunFits(p)'
  <2>1. Len(runs) <= Len(runs') /\ row.aiRun <= Len(runs')
    BY <1>1, <1>2, <1>5
  <2>2. \A p \in DOMAIN runs : /\ runs'[p].set = runs[p].set
                               /\ runs[p].set # s => runs'[p] = runs[p]
    BY <1>4, <1>5
  <2>3. \A p \in DOMAIN runs' \ DOMAIN runs : p = m
    BY <1>5
  <2>4. ASSUME NEW p \in DOMAIN runs', runs'[p].set = s PROVE RunFits(p)'
    <3>1. CASE p = m
      BY <1>7, <3>1
    <3>2. CASE p \in DOMAIN runs
      BY <1>8, <2>2, <2>4, <3>2
    <3> QED BY <1>5, <3>1, <3>2
  <2> QED BY <1>5, <2>1, <2>2, <2>3, <2>4
<1>12. /\ edits' \in 0 .. MaxEdits /\ edits <= edits'
       /\ sanctioned' \in Seq(Items) /\ Len(sanctioned') = Len(sanctioned)
       /\ \A d \in DOMAIN sets \ {s} : sanctioned'[d] = sanctioned[d]
       /\ sets[s].status # "APPROVED"
  BY <1>1, <1>3
<1> QED BY <1>2, <1>3, <1>5, <1>9, <1>10, <1>11, <1>12, SaveKeepsInv

\* Run r settles: it leaves q of itself and row of its set.
Settles(r, s, row, q) ==
  /\ s = runs[r].set /\ StillOwned(r) /\ ~sets[s].deleted
  /\ sets' = [sets EXCEPT ![s] = row] /\ row.updatedAt = now
  /\ row.aiRun = sets[s].aiRun
  /\ runs' = [runs EXCEPT ![r] = q]
  /\ q.set = s /\ q.startedAt = runs[r].startedAt
  /\ q.answer # "NONE" /\ q.status \in {"SUCCEEDED", "FAILED"}
  /\ \/ /\ row.status = "FAILED" /\ row.items = sets[s].items
        /\ row.version = sets[s].version
     \/ /\ row.status = "DRAFT" /\ row.items = [by |-> "AI", mark |-> r]
        /\ row.version = sets[s].version + 1 /\ q.status = "SUCCEEDED"
  /\ UNCHANGED <<now, application, seen, interviews, history>>

\* A worker that finds its set as it claimed it settles the set and its run
\* together: it stores its questions, or it fails.
LEMMA SettlingKeepsInv ==
  ASSUME Inv, NEW r \in DOMAIN runs, NEW s, NEW row \in QuestionSet, NEW q \in Run,
         Settles(r, s, row, q)
  PROVE  Inv'
<1> USE DEF Settles
<1>1. /\ TypeInvariant /\ runs \in Seq(Run) /\ r \in 1 .. Len(runs) /\ s \in DOMAIN sets
      /\ now \in Nat /\ DOMAIN runs = 1 .. Len(runs) /\ Len(runs) \in Nat
      /\ sets[s].updatedAt \in Nat /\ SetFits(s) /\ sets[s].updatedAt <= now
      /\ sanctioned \in Seq(Items) /\ edits \in 0 .. MaxEdits /\ edits \in Nat
      /\ sets[s].aiRun = r /\ sets[s].status = "GENERATING"
  BY Rows DEF Inv, TypeInvariant, SetsFit, SetFits, StillOwned
<1>2. /\ runs' \in Seq(Run) /\ Len(runs') = Len(runs) /\ DOMAIN runs' = DOMAIN runs
      /\ runs'[r] = q /\ \A p \in DOMAIN runs \ {r} : runs'[p] = runs[p]
  BY <1>1
<1>3. sets'[s] = row /\ now' = now /\ edits' = edits /\ sanctioned' = sanctioned
  BY <1>1, SavedRows DEF history
<1>4. ASSUME NEW p \in DOMAIN runs, runs[p].set = s PROVE RunFits(p)'
  <2>1. RunFits(p) /\ runs[p].startedAt \in Nat /\ p \in Nat
    BY <1>1, Rows DEF Inv, RunsFit
  <2>2. p <= r /\ runs[p].startedAt <= now
    BY <1>1, <1>4, <2>1 DEF RunFits
  <2>3. CASE p = r
    BY <1>1, <1>2, <1>3, <2>1, <2>2, <2>3 DEF RunFits, Working
  <2>4. CASE p # r
    <3>1. runs[p].status # "PROCESSING"
      BY <1>1, <1>4, <2>1, <2>4 DEF RunFits, StillOwned
    <3>2. runs'[p] = runs[p] /\ row.aiRun = r /\ Working(p)' = Working(p)
      BY <1>1, <1>2, <2>4 DEF Working
    <3> QED BY <1>1, <1>3, <1>4, <2>1, <2>2, <2>4, <3>1, <3>2 DEF RunFits
  <2> QED BY <2>3, <2>4
<1>5. SetFits(s)'
  <2>1. sets[s].items = NoItems
    BY <1>1 DEF SetFits
  <2> QED BY <1>1, <1>2, <1>3, <2>1 DEF SetFits, NoItems
<1>6. SupersededWasOverdue'
  <2> SUFFICES ASSUME NEW p \in DOMAIN runs, runs'[p].status = "SUPERSEDED"
               PROVE  \E o \in DOMAIN runs' : runs'[o].set = runs'[p].set
                        /\ runs'[o].startedAt - runs'[p].startedAt > StaleAfter
    BY <1>2 DEF SupersededWasOverdue
  <2>1. runs[p].status = "SUPERSEDED" /\ p # r
    BY <1>2
  <2>2. PICK o \in DOMAIN runs : runs[o].set = runs[p].set
          /\ runs[o].startedAt - runs[p].startedAt > StaleAfter
    BY <2>1 DEF Inv, SupersededWasOverdue
  <2>3. /\ runs'[o].set = runs[o].set /\ runs'[o].startedAt = runs[o].startedAt
        /\ runs'[p] = runs[p]
    BY <1>2, <2>1
  <2> QED BY <1>2, <2>2, <2>3
<1>7. /\ Len(runs) <= Len(runs') /\ row.aiRun <= Len(runs')
      /\ \A p \in DOMAIN runs : /\ runs'[p].set = runs[p].set
                                /\ runs[p].set # s => runs'[p] = runs[p]
      /\ DOMAIN runs' \ DOMAIN runs = {}
      /\ \A p \in DOMAIN runs' : runs'[p].set = s => RunFits(p)'
  BY <1>1, <1>2, <1>4
<1>8. /\ edits' \in 0 .. MaxEdits /\ edits <= edits'
      /\ sanctioned' \in Seq(Items) /\ Len(sanctioned') = Len(sanctioned)
      /\ \A d \in DOMAIN sets \ {s} : sanctioned'[d] = sanctioned[d]
      /\ sets[s].status # "APPROVED"
  BY <1>1, <1>3
<1> QED BY <1>1, <1>2, <1>3, <1>5, <1>6, <1>7, <1>8, SaveKeepsInv

\* A worker stores its questions, or a failure.
LEMMA WorkersKeepInv ==
  ASSUME Inv, NEW r \in DOMAIN runs,
         \/ StoreQuestions(r)
         \/ MarkGenerationFailed(r) /\ ~sets[runs[r].set].deleted /\ StillOwned(r)
  PROVE  Inv'
<1> PICK s : s = runs[r].set
  OBVIOUS
<1>1. /\ TypeInvariant /\ now \in Nat /\ runs[r] \in Run /\ s \in DOMAIN sets /\ r \in Nat
      /\ sets[s] \in QuestionSet /\ RunFits(r) /\ sets[s].version \in Nat
  BY Rows DEF Inv, RunsFit
<1>2. /\ ~sets[s].deleted /\ StillOwned(r) /\ Working(r)
      /\ UNCHANGED <<now, application, seen, interviews, history>>
  BY DEF StoreQuestions, MarkGenerationFailed
<1>3. runs[r].status = "PROCESSING"
  BY <1>1, <1>2 DEF RunFits, StillOwned
<1>4. CASE StoreQuestions(r)
  <2> DEFINE q == [runs[r] EXCEPT !.status = "SUCCEEDED", !.answer = "DRAFT"]
  <2>1. PICK v \in Nat : v = sets[s].version + 1
    BY <1>1
  <2> DEFINE row == [sets[s] EXCEPT !.status = "DRAFT", !.items = [by |-> "AI", mark |-> r],
                                    !.version = v, !.updatedAt = now]
  <2>2. sets' = [sets EXCEPT ![s] = row]
    BY <1>4, <2>1 DEF StoreQuestions, Save
  <2>3. runs' = [runs EXCEPT ![r] = q]
    BY <1>3, <1>4 DEF StoreQuestions, CloseRun
  <2>4. /\ row \in QuestionSet /\ row.updatedAt = now /\ row.aiRun = sets[s].aiRun
        /\ row.status = "DRAFT" /\ row.items = [by |-> "AI", mark |-> r]
        /\ row.version = sets[s].version + 1
    BY <1>1, <2>1 DEF QuestionSet, Items
  <2>5. /\ q \in Run /\ q.set = s /\ q.startedAt = runs[r].startedAt
        /\ q.answer # "NONE" /\ q.status = "SUCCEEDED"
        /\ q.status \in {"SUCCEEDED", "FAILED"}
    BY <1>1 DEF Run
  <2> HIDE DEF q, row
  <2>6. s = runs[r].set /\ StillOwned(r) /\ ~sets[s].deleted
    BY <1>2
  <2>7. UNCHANGED <<now, application, seen, interviews, history>>
    BY <1>2
  <2>8. Settles(r, s, row, q)
    BY <2>2, <2>3, <2>4, <2>5, <2>6, <2>7 DEF Settles
  <2> QED BY <2>4, <2>5, <2>8, SettlingKeepsInv
<1>5. CASE MarkGenerationFailed(r)
  <2> DEFINE q == [runs[r] EXCEPT !.status = "FAILED", !.answer = "FAILED"]
             row == [sets[s] EXCEPT !.status = "FAILED", !.updatedAt = now]
  <2>2. sets' = [sets EXCEPT ![s] = row]
    BY <1>2, <1>5 DEF MarkGenerationFailed, Save
  <2>3. runs' = [runs EXCEPT ![r] = q]
    BY <1>3, <1>5 DEF MarkGenerationFailed, CloseRun
  <2>4. /\ row \in QuestionSet /\ row.updatedAt = now /\ row.aiRun = sets[s].aiRun
        /\ row.status = "FAILED" /\ row.items = sets[s].items
        /\ row.version = sets[s].version
    BY <1>1 DEF QuestionSet
  <2>5. /\ q \in Run /\ q.set = s /\ q.startedAt = runs[r].startedAt
        /\ q.answer # "NONE" /\ q.status \in {"SUCCEEDED", "FAILED"}
    BY <1>1 DEF Run
  <2> HIDE DEF q, row
  <2>6. s = runs[r].set /\ StillOwned(r) /\ ~sets[s].deleted
    BY <1>2
  <2>7. UNCHANGED <<now, application, seen, interviews, history>>
    BY <1>2
  <2>8. Settles(r, s, row, q)
    BY <2>2, <2>3, <2>4, <2>5, <2>6, <2>7 DEF Settles
  <2> QED BY <2>4, <2>5, <2>8, SettlingKeepsInv
<1> QED BY <1>4, <1>5

-----------------------------------------------------------------------------
(* Every step.                                                             *)

\* Every step keeps the invariant.
LEMMA NextKeepsInv == Inv /\ [Next]_vars => Inv'
<1> SUFFICES ASSUME Inv, [Next]_vars PROVE Inv'
  OBVIOUS
<1>1. CASE Tick \/ ApplicationMoves \/ SourceChanges \/ HrReads
  BY <1>1, AroundKeepsInv
<1>2. CASE CreateManualDraft \/ \E s \in DOMAIN sets : Clone(s)
  BY <1>2, DraftKeepsInv
<1>3. CASE GenerateDraft
  BY <1>3, GenerateDraftKeepsInv
<1>4. CASE \E s \in DOMAIN sets : RetryGeneration(s)
  BY <1>4, RetryGenerationKeepsInv
<1>5. CASE \E s \in DOMAIN sets : UpdateItems(s) \/ Approve(s) \/ Remove(s)
  BY <1>5, EditsKeepInv
<1>6. CASE \E s \in DOMAIN sets : CreateInterview(s)
  BY <1>6, CreateInterviewKeepsInv
<1>7. ASSUME NEW r \in DOMAIN runs, StoreQuestions(r) PROVE Inv'
  BY <1>7, WorkersKeepInv
<1>8. ASSUME NEW r \in DOMAIN runs, DropResult(r) \/ ResultIsLost(r) PROVE Inv'
  BY <1>8, MovesOfRuns, RunMovesKeepInv DEF Inv
<1>9. ASSUME NEW r \in DOMAIN runs, MarkGenerationFailed(r) PROVE Inv'
  <2>1. CASE ~sets[runs[r].set].deleted /\ StillOwned(r)
    BY <1>9, <2>1, WorkersKeepInv
  <2>2. CASE sets[runs[r].set].deleted \/ ~StillOwned(r)
    BY <1>9, <2>2, MovesOfRuns, RunMovesKeepInv DEF Inv
  <2> QED BY <2>1, <2>2
<1>10. CASE UNCHANGED vars
  <2>1. SetsAndRunsStay /\ now' \in Nat
    BY <1>10, Rows DEF vars, SetsAndRunsStay, Inv
  <2>2. RunsFit' /\ SetsFit' /\ SupersededWasOverdue'
    BY <2>1, SetsAndRunsStayFit
  <2> QED BY <1>10, <2>2 DEF vars, application, history, Inv, TypeInvariant, SeenFits,
                             VersionNamesQuestions, InterviewsFit
<1> QED BY <1>1, <1>2, <1>3, <1>4, <1>5, <1>6, <1>7, <1>8, <1>9, <1>10 DEF Next, Worker

-----------------------------------------------------------------------------
(* What a save does to the questions of a set.                             *)

\* A set is saved as this row, and no other is.
Saved(s, row) == row \in QuestionSet /\ sets' = [sets EXCEPT ![s] = row]

\* Only HR and the worker of the set's generation write questions, and only the
\* removal touches an approved set.
LEMMA KindsOfSave ==
  ASSUME TypeInvariant, NEW s \in DOMAIN sets
  PROVE  /\ Remove(s) =>
              Saved(s, [sets[s] EXCEPT !.deleted = TRUE, !.updatedAt = now])
         /\ RetryGeneration(s) \/ Approve(s) =>
              \E row : /\ Saved(s, row) /\ row.items = sets[s].items
                       /\ sets[s].status # "APPROVED"
         /\ UpdateItems(s) =>
              \E row : /\ Saved(s, row) /\ row.items = [by |-> "HR", mark |-> edits + 1]
                       /\ sets[s].status = "DRAFT"
         /\ \A r \in DOMAIN runs : StoreQuestions(r) /\ runs[r].set = s =>
              \E row : /\ Saved(s, row) /\ row.items = [by |-> "AI", mark |-> r]
                       /\ sets[s].status = "GENERATING"
         /\ \A r \in DOMAIN runs :
              MarkGenerationFailed(r) /\ runs[r].set = s /\ ~sets[s].deleted /\ StillOwned(r) =>
              \E row : /\ Saved(s, row) /\ row.items = sets[s].items
                       /\ sets[s].status = "GENERATING"
<1>1. /\ sets[s] \in QuestionSet /\ now \in Nat /\ edits \in Nat /\ Len(runs) \in Nat
      /\ sets[s].version \in Nat /\ sets[s].generationVersion \in Nat
  BY Rows
<1> PICK v \in Nat, e \in Nat : v = sets[s].version + 1 /\ e = edits + 1
  BY <1>1
<1> PICK g \in Nat, m \in Nat : g = sets[s].generationVersion + 1 /\ m = Len(runs) + 1
  BY <1>1
<1>2. ASSUME Remove(s)
      PROVE  Saved(s, [sets[s] EXCEPT !.deleted = TRUE, !.updatedAt = now])
  <2> DEFINE row == [sets[s] EXCEPT !.deleted = TRUE, !.updatedAt = now]
  <2>1. sets' = [sets EXCEPT ![s] = row]
    BY <1>2 DEF Remove, Save
  <2>2. row \in QuestionSet
    BY <1>1 DEF QuestionSet
  <2> QED BY <2>1, <2>2 DEF Saved
<1>3. ASSUME RetryGeneration(s)
      PROVE  \E row : /\ Saved(s, row) /\ row.items = sets[s].items
                      /\ sets[s].status # "APPROVED"
  <2> DEFINE row == [sets[s] EXCEPT !.status = "GENERATING", !.generationVersion = g,
                                    !.aiRun = m, !.updatedAt = now]
  <2>1. sets' = [sets EXCEPT ![s] = row] /\ sets[s].status # "APPROVED"
    BY <1>3 DEF RetryGeneration, Save, Overdue
  <2>2. row \in QuestionSet /\ row.items = sets[s].items
    BY <1>1 DEF QuestionSet
  <2> QED BY <2>1, <2>2 DEF Saved
<1>4. ASSUME Approve(s)
      PROVE  \E row : /\ Saved(s, row) /\ row.items = sets[s].items
                      /\ sets[s].status # "APPROVED"
  <2> DEFINE row == [sets[s] EXCEPT !.status = "APPROVED", !.version = v, !.updatedAt = now]
  <2>1. sets' = [sets EXCEPT ![s] = row] /\ sets[s].status # "APPROVED"
    BY <1>4 DEF Approve, MayChange, Save
  <2>2. row \in QuestionSet /\ row.items = sets[s].items
    BY <1>1 DEF QuestionSet
  <2> QED BY <2>1, <2>2 DEF Saved
<1>5. ASSUME UpdateItems(s)
      PROVE  \E row : /\ Saved(s, row) /\ row.items = [by |-> "HR", mark |-> edits + 1]
                      /\ sets[s].status = "DRAFT"
  <2> DEFINE row == [sets[s] EXCEPT !.items = [by |-> "HR", mark |-> e], !.version = v,
                                    !.updatedAt = now]
  <2>1. sets' = [sets EXCEPT ![s] = row] /\ sets[s].status = "DRAFT"
    BY <1>5 DEF UpdateItems, MayChange, Save
  <2>2. row \in QuestionSet /\ row.items = [by |-> "HR", mark |-> edits + 1]
    BY <1>1 DEF QuestionSet, Items
  <2> QED BY <2>1, <2>2 DEF Saved
<1>6. ASSUME NEW r \in DOMAIN runs, StoreQuestions(r), runs[r].set = s
      PROVE  \E row : /\ Saved(s, row) /\ row.items = [by |-> "AI", mark |-> r]
                      /\ sets[s].status = "GENERATING"
  <2> DEFINE row == [sets[s] EXCEPT !.status = "DRAFT", !.items = [by |-> "AI", mark |-> r],
                                    !.version = v, !.updatedAt = now]
  <2>1. sets' = [sets EXCEPT ![s] = row] /\ sets[s].status = "GENERATING"
    BY <1>6 DEF StoreQuestions, StillOwned, Save
  <2>2. r \in Nat
    BY Rows
  <2>3. row \in QuestionSet /\ row.items = [by |-> "AI", mark |-> r]
    BY <1>1, <2>2 DEF QuestionSet, Items
  <2> QED BY <2>1, <2>3 DEF Saved
<1>7. ASSUME NEW r \in DOMAIN runs, MarkGenerationFailed(r), runs[r].set = s,
             ~sets[s].deleted, StillOwned(r)
      PROVE  \E row : /\ Saved(s, row) /\ row.items = sets[s].items
                      /\ sets[s].status = "GENERATING"
  <2> DEFINE row == [sets[s] EXCEPT !.status = "FAILED", !.updatedAt = now]
  <2>1. sets' = [sets EXCEPT ![s] = row] /\ sets[s].status = "GENERATING"
    BY <1>7 DEF MarkGenerationFailed, StillOwned, Save
  <2>2. row \in QuestionSet /\ row.items = sets[s].items
    BY <1>1 DEF QuestionSet
  <2> QED BY <2>1, <2>2 DEF Saved
<1> QED BY <1>2, <1>3, <1>4, <1>5, <1>6, <1>7

\* What a step may do to a set.
LEMMA SetsMove ==
  ASSUME Inv, [Next]_vars, NEW s \in DOMAIN sets
  PROVE  \/ sets'[s] = sets[s]
         \/ sets'[s] = [sets[s] EXCEPT !.deleted = TRUE, !.updatedAt = now]
         \/ sets[s].status # "APPROVED" /\ sets'[s].items = sets[s].items
         \/ sets[s].status = "DRAFT" /\ sets'[s].items = [by |-> "HR", mark |-> edits + 1]
         \/ sets[s].status = "GENERATING"
<1> DEFINE Moves ==
      \/ sets'[s] = sets[s]
      \/ sets'[s] = [sets[s] EXCEPT !.deleted = TRUE, !.updatedAt = now]
      \/ sets[s].status # "APPROVED" /\ sets'[s].items = sets[s].items
      \/ sets[s].status = "DRAFT" /\ sets'[s].items = [by |-> "HR", mark |-> edits + 1]
      \/ sets[s].status = "GENERATING"
<1>1. TypeInvariant /\ sets \in Seq(QuestionSet) /\ s \in 1 .. Len(sets)
  BY DEF Inv, TypeInvariant
<1>2. CASE UNCHANGED sets
  BY <1>2
<1>3. CASE CreateManualDraft \/ GenerateDraft \/ \E d \in DOMAIN sets : Clone(d)
  <2>1. \E row : sets' = Append(sets, row)
    BY <1>3 DEF CreateManualDraft, GenerateDraft, Clone, Create
  <2> QED BY <1>1, <2>1
<1>4. ASSUME NEW d \in DOMAIN sets,
             Remove(d) \/ RetryGeneration(d) \/ Approve(d) \/ UpdateItems(d)
      PROVE  Moves
  <2>1. PICK row : Saved(d, row) /\
          \/ row = [sets[d] EXCEPT !.deleted = TRUE, !.updatedAt = now]
          \/ sets[d].status # "APPROVED" /\ row.items = sets[d].items
          \/ sets[d].status = "DRAFT" /\ row.items = [by |-> "HR", mark |-> edits + 1]
    BY <1>1, <1>4, KindsOfSave
  <2>2. sets'[s] = IF d = s THEN row ELSE sets[s]
    BY <1>1, <2>1, SavedRows DEF Saved
  <2> QED BY <2>1, <2>2
<1>5. ASSUME NEW r \in DOMAIN runs, StoreQuestions(r) \/ MarkGenerationFailed(r)
      PROVE  Moves
  <2> PICK d : d = runs[r].set
    OBVIOUS
  <2>1. d \in DOMAIN sets
    BY <1>1, Rows
  <2>2. \/ UNCHANGED sets
        \/ \E row : Saved(d, row) /\ sets[d].status = "GENERATING"
    BY <1>1, <1>5, <2>1, KindsOfSave DEF MarkGenerationFailed
  <2>3. ASSUME NEW row, Saved(d, row), sets[d].status = "GENERATING" PROVE Moves
    <3>1. sets'[s] = IF d = s THEN row ELSE sets[s]
      BY <1>1, <2>1, <2>3, SavedRows DEF Saved
    <3> QED BY <2>3, <3>1
  <2> QED BY <2>2, <2>3
<1>6. Moves
  BY <1>2, <1>3, <1>4, <1>5
     DEF Next, Worker, vars, Tick, ApplicationMoves, SourceChanges, HrReads, DropResult,
         RunsOnly, ResultIsLost, CreateInterview
<1> QED BY <1>6

-----------------------------------------------------------------------------
(* The theorems.                                                           *)

\* The inductive invariant.
THEOREM InvariantHolds == Spec => []Inv
BY InitInv, NextKeepsInv, PTL DEF Spec

\* A run in processing owns its set, only overdue runs are superseded, the
\* questions of the AI are the newest run's, and a version names the questions
\* HR has read.
THEOREM SetsAlwaysConsistent == Spec => []SetsConsistent
<1>1. ASSUME Inv PROVE SetsConsistent
  <2>1. ProcessingRunOwnsSet
    BY <1>1 DEF Inv, RunsFit, RunFits, ProcessingRunOwnsSet
  <2>2. QuestionsAreOfNewestRun
    BY <1>1 DEF Inv, SetsFit, SetFits, QuestionsAreOfNewestRun
  <2> QED BY <1>1, <2>1, <2>2 DEF Inv, SeenFits, SetsConsistent
<1> QED BY <1>1, InvariantHolds, PTL

\* An interview asks what HR had before its eyes when it approved the set.
THEOREM InterviewsAlwaysAskWhatHrApproved == Spec => []InterviewAsksWhatHrApproved
<1>1. Inv => InterviewAsksWhatHrApproved
  BY DEF Inv, InterviewsFit, InterviewAsksWhatHrApproved
<1> QED BY <1>1, InvariantHolds, PTL

\* No worker, however late, takes back an edit or an approval of HR.
THEOREM HrsWordAlwaysStands == Spec => HrsWordStands
<1> DEFINE Stays(old, new) == old.items.by = "HR" =>
                                new.items.by = "HR" /\ new.items.mark >= old.items.mark
           Same(old, new) == old.status = "APPROVED" =>
                               [new EXCEPT !.deleted = FALSE, !.updatedAt = 0]
                                 = [old EXCEPT !.deleted = FALSE, !.updatedAt = 0]
           Kept(s) == Stays(sets[s], sets'[s])
           Frozen(s) == Same(sets[s], sets'[s])
<1>1. ASSUME Inv, [Next]_vars, NEW s \in DOMAIN sets PROVE Kept(s) /\ Frozen(s)
  <2>1. /\ sets[s] \in QuestionSet /\ SetFits(s) /\ sets[s].items.mark \in Nat
        /\ edits \in Nat
    BY <1>1, Rows DEF Inv, SetsFit
  <2> PICK e \in Nat : e = edits
    BY <2>1
  <2> PICK new : new = sets'[s]
    OBVIOUS
  <2> PICK old \in QuestionSet :
        /\ old = sets[s] /\ old.items.mark \in Nat
        /\ old.items.by = "HR" => old.items.mark <= e
        /\ old.status = "GENERATING" => old.items = NoItems
        /\ \/ new = old
           \/ new = [old EXCEPT !.deleted = TRUE, !.updatedAt = now]
           \/ old.status # "APPROVED" /\ new.items = old.items
           \/ old.status = "DRAFT" /\ new.items = [by |-> "HR", mark |-> e + 1]
           \/ old.status = "GENERATING"
    BY <1>1, <2>1, SetsMove DEF SetFits
  <2>2. Stays(old, new)
    <3>1. CASE new = [old EXCEPT !.deleted = TRUE, !.updatedAt = now]
      BY <3>1 DEF QuestionSet
    <3> QED BY <3>1 DEF NoItems
  <2>3. Same(old, new)
    <3>1. CASE new = [old EXCEPT !.deleted = TRUE, !.updatedAt = now]
      BY <3>1 DEF QuestionSet
    <3>2. CASE new = old
      BY <3>2
    <3> QED BY <3>1, <3>2
  <2> HIDE DEF Stays, Same
  <2> QED BY <2>2, <2>3
<1>2. Inv /\ [Next]_vars => \A s \in DOMAIN sets : Kept(s)
  BY <1>1, Zenon
<1>3. Inv /\ [Next]_vars => \A s \in DOMAIN sets : Frozen(s)
  BY <1>1, Zenon
<1>4. Spec => [][\A s \in DOMAIN sets : Kept(s)]_vars
  BY <1>2, InvariantHolds, PTL DEF Spec
<1>5. Spec => [][\A s \in DOMAIN sets : Frozen(s)]_vars
  BY <1>3, InvariantHolds, PTL DEF Spec
<1> QED BY <1>4, <1>5 DEF HrsWordStands, EditsAreKept, ApprovedIsFrozen

-----------------------------------------------------------------------------
(* The refinement of AiJobs.                                               *)

\* The jobs and the results AiJobs sees.
jobsNow == [r \in DOMAIN runs |-> [of |-> runs[r].set, status |-> runs[r].status]]
Shown(items) == IF items.by = "AI" THEN items.mark ELSE 0
resultNow == [s \in DOMAIN sets |-> Shown(sets[s].items)]

\* The results are a sequence.
LEMMA LedgerTypes ==
  ASSUME TypeInvariant
  PROVE  /\ resultNow \in Seq(Nat) /\ Len(resultNow) = Len(sets)
         /\ DOMAIN resultNow = DOMAIN sets /\ DOMAIN jobsNow = DOMAIN runs
<1>1. \A s \in DOMAIN sets : Shown(sets[s].items) \in Nat
  BY Rows DEF Shown
<1>2. DOMAIN sets = 1 .. Len(sets) /\ Len(sets) \in Nat
  BY Rows
<1> DEFINE g(s) == Shown(sets[s].items)
<1>3. resultNow = [s \in 1 .. Len(sets) |-> g(s)] /\ \A s \in 1 .. Len(sets) : g(s) \in Nat
  BY <1>1, <1>2 DEF resultNow
<1>4. resultNow \in Seq(Nat) /\ Len(resultNow) = Len(sets)
  <2> HIDE DEF g
  <2> QED BY <1>2, <1>3
<1> QED BY <1>4 DEF jobsNow, resultNow

\* A set that is saved changes its own result only.
LEMMA SavedShows ==
  ASSUME TypeInvariant, NEW s \in DOMAIN sets, NEW row, Saved(s, row)
  PROVE  /\ row.items = sets[s].items => resultNow' = resultNow
         /\ resultNow' = [resultNow EXCEPT ![s] = Shown(row.items)]
<1>1. /\ DOMAIN sets' = DOMAIN sets /\ sets'[s] = row
      /\ \A d \in DOMAIN sets \ {s} : sets'[d] = sets[d]
  BY SavedRows DEF Saved
<1> QED BY <1>1 DEF resultNow

\* A set that is added adds its result.
LEMMA AddedShows ==
  ASSUME TypeInvariant, NEW row, sets' = Append(sets, row), Shown(row.items) \in Nat
  PROVE  resultNow' = Append(resultNow, Shown(row.items))
<1>1. sets \in Seq(QuestionSet) /\ DOMAIN sets = 1 .. Len(sets) /\ Len(sets) \in Nat
  BY Rows DEF TypeInvariant
<1>2. PICK n \in Nat : n = Len(sets)
  BY <1>1
<1>3. /\ DOMAIN sets' = 1 .. n + 1 /\ sets'[n + 1] = row
      /\ \A s \in 1 .. n : sets'[s] = sets[s]
  BY <1>1, <1>2
<1>4. PICK v \in Nat, old \in Seq(Nat) :
        v = Shown(row.items) /\ old = resultNow /\ Len(old) = n
  BY <1>2, LedgerTypes
<1> DEFINE g(s) == Shown(sets'[s].items)
<1>5. /\ resultNow' = [s \in 1 .. n + 1 |-> g(s)] /\ g(n + 1) = v
      /\ \A s \in 1 .. n : g(s) = old[s]
  BY <1>1, <1>2, <1>3, <1>4 DEF resultNow
<1>6. resultNow' = Append(old, v)
  <2> HIDE DEF g
  <2> QED BY <1>4, <1>5
<1> QED BY <1>4, <1>6

\* The jobs stay when every run has the same set and status.
LEMMA JobsStay ==
  ASSUME DOMAIN runs' = DOMAIN runs,
         \A r \in DOMAIN runs : runs'[r].set = runs[r].set /\ runs'[r].status = runs[r].status
  PROVE  jobsNow' = jobsNow
BY DEF jobsNow

\* A run that takes another status does so in the ledger.
LEMMA JobSettles ==
  ASSUME TypeInvariant, NEW r \in DOMAIN runs, NEW q, runs' = [runs EXCEPT ![r] = q],
         q.set = runs[r].set
  PROVE  jobsNow' = [jobsNow EXCEPT ![r].status = q.status]
<1>1. DOMAIN runs' = DOMAIN runs /\ runs'[r] = q /\ \A p \in DOMAIN runs \ {r} : runs'[p] = runs[p]
  BY DEF TypeInvariant
<1> QED BY <1>1 DEF jobsNow

\* The job of a set takes over from those in progress.
JobTakesOver(s) ==
  jobsNow' = Append([r \in DOMAIN jobsNow |->
                       IF jobsNow[r].of = s /\ jobsNow[r].status = "PROCESSING"
                         THEN [jobsNow[r] EXCEPT !.status = "SUPERSEDED"] ELSE jobsNow[r]],
                    [of |-> s, status |-> "PROCESSING"])

\* The steps of AiJobs, of the jobs and results it sees.
LEMMA LedgerSteps ==
  /\ UNCHANGED <<jobsNow, resultNow>> => UNCHANGED Jobs!ledger
  /\ \A r \in DOMAIN runs, status \in {"FAILED", "SUPERSEDED"} :
       /\ jobsNow[r].status = "PROCESSING"
       /\ jobsNow' = [jobsNow EXCEPT ![r].status = status] /\ resultNow' = resultNow
       => Jobs!Next
  /\ \A r \in DOMAIN runs :
       /\ jobsNow[r].status = "PROCESSING"
       /\ \A q \in DOMAIN jobsNow : jobsNow[q].of = jobsNow[r].of => q <= r
       /\ jobsNow' = [jobsNow EXCEPT ![r].status = "SUCCEEDED"]
       /\ resultNow' = [resultNow EXCEPT ![jobsNow[r].of] = r]
       => Jobs!Next
  /\ \A s \in DOMAIN sets :
       resultNow' = [resultNow EXCEPT ![s] = 0] /\ jobsNow' = jobsNow => Jobs!Next
  /\ \A shown \in {0} \cup {resultNow[s] : s \in DOMAIN sets} :
       resultNow' = Append(resultNow, shown) /\ jobsNow' = jobsNow => Jobs!Next
  /\ \A s \in 1 .. Len(resultNow) + 1 :
       /\ JobTakesOver(s)
       /\ IF s \in DOMAIN sets THEN resultNow' = resultNow ELSE resultNow' = Append(resultNow, 0)
       => Jobs!Next
<1>1. DOMAIN jobsNow = DOMAIN runs /\ DOMAIN resultNow = DOMAIN sets
  BY DEF jobsNow, resultNow
<1>2. UNCHANGED <<jobsNow, resultNow>> => UNCHANGED Jobs!ledger
  BY DEF Jobs!ledger, jobsNow, resultNow, Shown
<1>3. Jobs!Next <=>
        \/ /\ \E shown \in {0} \cup {resultNow[a] : a \in DOMAIN resultNow} :
                resultNow' = Append(resultNow, shown)
           /\ UNCHANGED jobsNow
        \/ \E a \in 1 .. Len(resultNow) + 1 :
             /\ JobTakesOver(a)
             /\ resultNow' = IF a \in DOMAIN resultNow THEN resultNow ELSE Append(resultNow, 0)
        \/ \E r \in DOMAIN jobsNow :
             \/ /\ jobsNow[r].status = "PROCESSING"
                /\ \A q \in DOMAIN jobsNow : jobsNow[q].of = jobsNow[r].of => q <= r
                /\ jobsNow' = [jobsNow EXCEPT ![r].status = "SUCCEEDED"]
                /\ resultNow' = [resultNow EXCEPT ![jobsNow[r].of] = r]
             \/ /\ jobsNow[r].status = "PROCESSING"
                /\ \E status \in {"FAILED", "SUPERSEDED"} :
                     jobsNow' = [jobsNow EXCEPT ![r].status = status]
                /\ UNCHANGED resultNow
        \/ \E a \in DOMAIN resultNow :
             resultNow' = [resultNow EXCEPT ![a] = 0] /\ UNCHANGED jobsNow
  BY DEF Jobs!Next, Jobs!Add, Jobs!Start, Jobs!TakenOver, Jobs!IsNewest, Jobs!Succeed,
         Jobs!GiveUp, Jobs!Replace, JobTakesOver, jobsNow, resultNow, Shown
<1>4. \A s \in 1 .. Len(resultNow) + 1 :
       /\ JobTakesOver(s)
       /\ IF s \in DOMAIN sets THEN resultNow' = resultNow ELSE resultNow' = Append(resultNow, 0)
       => Jobs!Next
  BY <1>1, <1>3, Zenon
<1> QED BY <1>1, <1>2, <1>3, <1>4, Zenon

\* A new run of a set is a job that takes over, when the runs of the set that
\* were in processing are superseded with it.
LEMMA NewJobTakesOver ==
  ASSUME TypeInvariant, NEW s \in Nat, NEW version \in Nat, NEW old \in Seq(Run),
         Len(old) = Len(runs), runs' = Append(old, StartRun(s, version)),
         \A p \in DOMAIN runs :
           /\ old[p].set = runs[p].set
           /\ old[p].status = IF runs[p].set = s /\ runs[p].status = "PROCESSING"
                                THEN "SUPERSEDED" ELSE runs[p].status
  PROVE  JobTakesOver(s)
<1> DEFINE job == [of |-> s, status |-> "PROCESSING"]
           taken == [r \in DOMAIN jobsNow |->
                       IF jobsNow[r].of = s /\ jobsNow[r].status = "PROCESSING"
                         THEN [jobsNow[r] EXCEPT !.status = "SUPERSEDED"] ELSE jobsNow[r]]
<1> PICK n \in Nat : n = Len(runs)
  BY Rows
<1> PICK m \in Nat : m = n + 1
  OBVIOUS
<1>1. /\ runs' \in Seq(Run) /\ Len(runs') = m /\ m \notin DOMAIN runs
      /\ DOMAIN runs' = 1 .. m /\ DOMAIN runs = 1 .. n
      /\ \A p \in DOMAIN runs : p < m /\ runs'[p] = old[p]
      /\ runs'[m].set = s /\ runs'[m].status = "PROCESSING"
  <2>1. m = Len(runs) + 1
    OBVIOUS
  <2>2. RunAdded(s, version, old, m)
    BY <2>1, NewRun
  <2> QED BY <2>2, Rows DEF RunAdded
<1>2. \A p \in DOMAIN runs :
        [of |-> runs'[p].set, status |-> runs'[p].status] =
          IF runs[p].set = s /\ runs[p].status = "PROCESSING"
            THEN [of |-> runs[p].set, status |-> "SUPERSEDED"]
            ELSE [of |-> runs[p].set, status |-> runs[p].status]
  BY <1>1
<1>3. taken = [p \in 1 .. n |-> [of |-> runs'[p].set, status |-> runs'[p].status]]
  BY <1>1, <1>2 DEF jobsNow
<1> PICK f : f = [p \in 1 .. m |-> [of |-> runs'[p].set, status |-> runs'[p].status]]
  OBVIOUS
<1>4. taken = [p \in 1 .. n |-> f[p]] /\ f[m] = job /\ jobsNow' = f
  BY <1>1, <1>3 DEF jobsNow
<1>5. jobsNow' = Append(taken, job)
  <2> HIDE DEF taken, job
  <2>1. \A p \in 1 .. n : f[p] = taken[p]
    BY <1>4
  <2>2. DOMAIN taken = 1 .. n /\ Len(taken) = n
    BY <1>4
  <2> QED BY <1>4, <2>1, <2>2
<1> QED BY <1>5 DEF JobTakesOver

\* A worker that ends without its set gives up its job, or had done so before.
LEMMA RunsFollow ==
  ASSUME TypeInvariant, NEW r \in DOMAIN runs, NEW q, RunMoves(r, q), UNCHANGED resultNow
  PROVE  Jobs!Next \/ UNCHANGED Jobs!ledger
<1>1. /\ DOMAIN runs' = DOMAIN runs /\ runs'[r] = q
      /\ \A p \in DOMAIN runs \ {r} : runs'[p] = runs[p]
      /\ runs' = [runs EXCEPT ![r] = q] /\ q.set = runs[r].set
  BY MovedRuns DEF RunMoves
<1>2. CASE q.status = runs[r].status
  <2>1. jobsNow' = jobsNow
    BY <1>1, <1>2, JobsStay
  <2> QED BY <2>1, LedgerSteps
<1>3. CASE runs[r].status = "PROCESSING" /\ q.status = "FAILED"
  <2> runs' = [runs EXCEPT ![r] = q] /\ q.set = runs[r].set
    BY <1>1
  <2>1. jobsNow' = [jobsNow EXCEPT ![r].status = q.status]
    BY JobSettles
  <2>2. jobsNow[r].status = "PROCESSING"
    BY <1>3 DEF jobsNow
  <2> QED BY <1>3, <2>1, <2>2, LedgerSteps
<1> QED BY <1>2, <1>3 DEF RunMoves

\* A failure that finds the set as it was claimed settles the job too.
LEMMA FailureFollows ==
  ASSUME Inv, NEW r \in DOMAIN runs, MarkGenerationFailed(r)
  PROVE  Jobs!Next \/ UNCHANGED Jobs!ledger
<1>1. TypeInvariant /\ runs[r] \in Run /\ runs[r].set \in DOMAIN sets
  BY Rows DEF Inv
<1>2. CASE sets[runs[r].set].deleted \/ ~StillOwned(r)
  <2>1. PICK q : RunMoves(r, q)
    BY <1>1, <1>2, MovesOfRuns
  <2>2. resultNow' = resultNow
    BY <1>2 DEF MarkGenerationFailed, resultNow
  <2> QED BY <1>1, <2>1, <2>2, RunsFollow
<1>3. CASE ~sets[runs[r].set].deleted /\ StillOwned(r)
  <2>1. runs[r].status = "PROCESSING"
    BY <1>3 DEF Inv, RunsFit, RunFits, StillOwned, MarkGenerationFailed
  <2>2. PICK row : Saved(runs[r].set, row) /\ row.items = sets[runs[r].set].items
    BY <1>1, <1>3, KindsOfSave
  <2>3. resultNow' = resultNow
    BY <1>1, <2>2, SavedShows
  <2> DEFINE q == [runs[r] EXCEPT !.status = "FAILED", !.answer = "FAILED"]
  <2>4. runs' = [runs EXCEPT ![r] = q] /\ q.set = runs[r].set /\ q.status = "FAILED"
    BY <1>1, <2>1 DEF MarkGenerationFailed, CloseRun, Run
  <2> HIDE DEF q
  <2>5. jobsNow' = [jobsNow EXCEPT ![r].status = "FAILED"]
    BY <1>1, <2>4, JobSettles
  <2>6. jobsNow[r].status = "PROCESSING"
    BY <2>1 DEF jobsNow
  <2> QED BY <2>3, <2>5, <2>6, LedgerSteps
<1> QED BY <1>2, <1>3

\* Questions are stored by the newest run of their set, and one in processing.
LEMMA StoreFollows ==
  ASSUME Inv, NEW r \in DOMAIN runs, StoreQuestions(r)
  PROVE  Jobs!Next
<1> PICK s : s = runs[r].set
  OBVIOUS
<1>1. /\ TypeInvariant /\ runs[r] \in Run /\ s \in DOMAIN sets
      /\ StillOwned(r) /\ RunFits(r)
  BY Rows DEF Inv, RunsFit, StoreQuestions
<1>2. runs[r].status = "PROCESSING"
  BY <1>1 DEF RunFits, StillOwned, StoreQuestions
<1>3. jobsNow[r].status = "PROCESSING" /\ jobsNow[r].of = s
  BY <1>2 DEF jobsNow
<1>4. \A q \in DOMAIN jobsNow : jobsNow[q].of = jobsNow[r].of => q <= r
  <2> SUFFICES ASSUME NEW q \in DOMAIN runs, runs[q].set = s PROVE q <= r
    BY <1>3 DEF jobsNow
  <2> QED BY <1>1 DEF Inv, RunsFit, RunFits, StillOwned
<1>5. jobsNow' = [jobsNow EXCEPT ![r].status = "SUCCEEDED"]
  <2> DEFINE q == [runs[r] EXCEPT !.status = "SUCCEEDED", !.answer = "DRAFT"]
  <2>1. runs' = [runs EXCEPT ![r] = q] /\ q.set = runs[r].set /\ q.status = "SUCCEEDED"
    BY <1>1, <1>2 DEF StoreQuestions, CloseRun, Run
  <2> HIDE DEF q
  <2> QED BY <1>1, <2>1, JobSettles
<1>6. resultNow' = [resultNow EXCEPT ![s] = r]
  <2>1. PICK row : Saved(s, row) /\ row.items = [by |-> "AI", mark |-> r]
    <3>1. TypeInvariant /\ s \in DOMAIN sets /\ StoreQuestions(r) /\ runs[r].set = s
      BY <1>1
    <3>2. \A p \in DOMAIN runs : StoreQuestions(p) /\ runs[p].set = s =>
            \E row : /\ Saved(s, row) /\ row.items = [by |-> "AI", mark |-> p]
                     /\ sets[s].status = "GENERATING"
      BY <3>1, KindsOfSave
    <3> QED BY <3>1, <3>2
  <2>2. Shown(row.items) = r
    BY <2>1 DEF Shown
  <2> QED BY <1>1, <2>1, <2>2, SavedShows
<1> QED BY <1>3, <1>4, <1>5, <1>6, LedgerSteps

\* A retry starts a job that takes over from the one in progress.
LEMMA RetryFollows ==
  ASSUME Inv, NEW s \in DOMAIN sets, RetryGeneration(s)
  PROVE  Jobs!Next
<1>1. /\ TypeInvariant /\ sets[s].generationVersion \in Nat /\ s \in Nat
      /\ DOMAIN sets = 1 .. Len(sets) /\ Len(sets) \in Nat
  BY Rows DEF Inv
<1> PICK version \in Nat : version = sets[s].generationVersion + 1
  BY <1>1
<1> PICK old : old = SupersededRuns(s)
  OBVIOUS
<1>2. ~sets[s].deleted /\ runs' = Append(old, StartRun(s, version))
  BY DEF RetryGeneration, SupersededRuns
<1>3. /\ old \in Seq(Run) /\ Len(old) = Len(runs)
      /\ \A p \in DOMAIN runs :
           /\ old[p].set = runs[p].set
           /\ runs[p].set # s => old[p] = runs[p]
           /\ runs[p].set = s => old[p].status =
                IF runs[p].status = "PROCESSING" THEN "SUPERSEDED" ELSE runs[p].status
  BY <1>2, SupersededRunsFields
<1>4. JobTakesOver(s)
  <2>1. \A p \in DOMAIN runs :
          /\ old[p].set = runs[p].set
          /\ old[p].status = IF runs[p].set = s /\ runs[p].status = "PROCESSING"
                               THEN "SUPERSEDED" ELSE runs[p].status
    BY <1>3
  <2> QED BY <1>1, <1>2, <1>3, <2>1, NewJobTakesOver
<1>5. resultNow' = resultNow
  BY <1>1, KindsOfSave, SavedShows
<1>6. s \in 1 .. Len(resultNow) + 1
  BY <1>1, LedgerTypes
<1> QED BY <1>4, <1>5, <1>6, LedgerSteps

\* A generation starts the first job of a new set.
LEMMA GenerateFollows ==
  ASSUME Inv, GenerateDraft
  PROVE  Jobs!Next
<1>1. /\ TypeInvariant /\ runs \in Seq(Run) /\ DOMAIN sets = 1 .. Len(sets)
      /\ Len(sets) \in Nat /\ \A p \in DOMAIN runs : runs[p].set \in DOMAIN sets
  BY Rows DEF Inv, TypeInvariant
<1> PICK n \in Nat : n = Len(sets) + 1
  BY <1>1
<1>2. runs' = Append(runs, StartRun(n, 1)) /\ n \notin DOMAIN sets
  BY <1>1 DEF GenerateDraft
<1>3. JobTakesOver(n)
  <2>1. \A p \in DOMAIN runs :
          /\ runs[p].set = runs[p].set
          /\ runs[p].status = IF runs[p].set = n /\ runs[p].status = "PROCESSING"
                                THEN "SUPERSEDED" ELSE runs[p].status
    BY <1>1, <1>2
  <2> QED BY <1>1, <1>2, <2>1, NewJobTakesOver
<1>4. resultNow' = Append(resultNow, 0)
  <2>1. PICK row : sets' = Append(sets, row) /\ row.items = NoItems
    <3> DEFINE row == [NewSet("AI", "GENERATING", source) EXCEPT !.aiRun = Len(runs) + 1]
    <3>1. sets' = Append(sets, row)
      BY DEF GenerateDraft, Create
    <3>2. row.items = NoItems
      BY DEF NewSet
    <3> QED BY <3>1, <3>2
  <2>2. Shown(row.items) = 0
    BY <2>1 DEF Shown, NoItems
  <2> QED BY <1>1, <2>1, <2>2, AddedShows
<1>5. n \in 1 .. Len(resultNow) + 1
  BY <1>1, LedgerTypes
<1> QED BY <1>2, <1>3, <1>4, <1>5, LedgerSteps

\* A draft of HR is a set without questions, a clone shows what its source shows.
LEMMA DraftFollows ==
  ASSUME Inv, CreateManualDraft \/ \E s \in DOMAIN sets : Clone(s)
  PROVE  Jobs!Next
<1>1. TypeInvariant
  BY DEF Inv
<1>2. runs' = runs
  BY DEF CreateManualDraft, Clone, SetsOnly
<1>3. PICK row : /\ sets' = Append(sets, row)
                 /\ Shown(row.items) \in {0} \cup {resultNow[s] : s \in DOMAIN sets}
                 /\ Shown(row.items) \in Nat
  <2>1. CASE CreateManualDraft
    <3>1. PICK from : sets' = Append(sets, NewSet("MANUAL", "DRAFT", from))
      BY <2>1 DEF CreateManualDraft, Create
    <3>2. Shown(NewSet("MANUAL", "DRAFT", from).items) = 0
      BY DEF NewSet, NoItems, Shown
    <3> QED BY <3>1, <3>2
  <2>2. ASSUME NEW s \in DOMAIN sets, Clone(s)
        PROVE  \E row : /\ sets' = Append(sets, row)
                        /\ Shown(row.items) \in {0} \cup {resultNow[d] : d \in DOMAIN sets}
                        /\ Shown(row.items) \in Nat
    <3> DEFINE row == [sets[s] EXCEPT !.status = "DRAFT", !.version = 1, !.aiRun = 0,
                                      !.updatedAt = now]
    <3>1. sets' = Append(sets, row)
      BY <2>2 DEF Clone, Create
    <3>2. sets[s] \in QuestionSet /\ sets[s].items \in Items /\ sets[s].items.mark \in Nat
      BY <1>1, Rows
    <3>3. row.items = sets[s].items
      BY <3>2 DEF QuestionSet
    <3>4. Shown(row.items) = resultNow[s] /\ Shown(row.items) \in Nat
      BY <3>2, <3>3 DEF resultNow, Shown
    <3> HIDE DEF row
    <3> QED BY <3>1, <3>4
  <2> QED BY <2>1, <2>2
<1>4. resultNow' = Append(resultNow, Shown(row.items))
  BY <1>1, <1>3, AddedShows
<1>5. jobsNow' = jobsNow
  BY <1>2, JobsStay
<1> QED BY <1>3, <1>4, <1>5, LedgerSteps

\* The runs follow AiJobs: each settles once, a retry takes over from the run in
\* progress, and only the newest run of a set puts its questions there.
THEOREM RunsAlwaysFollowAiJobs == Spec => FollowsAiJobs
<1>1. Init => Jobs!Init
  BY DEF Init, Jobs!Init
<1>2. ASSUME Inv, [Next]_vars PROVE Jobs!Next \/ UNCHANGED Jobs!ledger
  <2>1. TypeInvariant
    BY <1>2 DEF Inv
  <2>2. CASE UNCHANGED <<sets, runs>>
    BY <2>2, LedgerSteps DEF jobsNow, resultNow
  <2>3. CASE CreateManualDraft \/ \E s \in DOMAIN sets : Clone(s)
    BY <1>2, <2>3, DraftFollows
  <2>4. CASE GenerateDraft
    BY <1>2, <2>4, GenerateFollows
  <2>5. CASE \E s \in DOMAIN sets : RetryGeneration(s)
    BY <1>2, <2>5, RetryFollows
  <2>6. ASSUME NEW s \in DOMAIN sets, UpdateItems(s) \/ Approve(s) \/ Remove(s)
        PROVE  Jobs!Next \/ UNCHANGED Jobs!ledger
    <3>1. runs' = runs /\ sets[s] \in QuestionSet
      BY <2>1, <2>6, Rows DEF UpdateItems, Approve, Remove, SetsOnly
    <3>2. jobsNow' = jobsNow
      BY <3>1, JobsStay
    <3>3. PICK row : /\ Saved(s, row)
                     /\ row.items = sets[s].items \/ row.items = [by |-> "HR", mark |-> edits + 1]
      <4>1. [sets[s] EXCEPT !.deleted = TRUE, !.updatedAt = now].items = sets[s].items
        BY <3>1 DEF QuestionSet
      <4> QED BY <2>1, <2>6, <4>1, KindsOfSave
    <3>4. CASE row.items = sets[s].items
      <4>1. resultNow' = resultNow
        BY <2>1, <3>3, <3>4, SavedShows
      <4> QED BY <3>2, <4>1, LedgerSteps
    <3>5. CASE row.items = [by |-> "HR", mark |-> edits + 1]
      <4>1. Shown(row.items) = 0
        BY <3>5 DEF Shown
      <4>2. resultNow' = [resultNow EXCEPT ![s] = 0]
        BY <2>1, <3>3, <4>1, SavedShows
      <4> QED BY <3>2, <4>2, LedgerSteps
    <3> QED BY <3>3, <3>4, <3>5
  <2>7. CASE \E r \in DOMAIN runs : StoreQuestions(r)
    BY <1>2, <2>7, StoreFollows
  <2>8. CASE \E r \in DOMAIN runs : MarkGenerationFailed(r)
    BY <1>2, <2>8, FailureFollows
  <2>9. ASSUME NEW r \in DOMAIN runs, DropResult(r) \/ ResultIsLost(r)
        PROVE  Jobs!Next \/ UNCHANGED Jobs!ledger
    <3>1. PICK q : RunMoves(r, q)
      BY <2>1, <2>9, MovesOfRuns
    <3>2. resultNow' = resultNow
      BY <2>9 DEF DropResult, ResultIsLost, RunsOnly, resultNow
    <3> QED BY <2>1, <3>1, <3>2, RunsFollow
  <2> QED
    BY <1>2, <2>2, <2>3, <2>4, <2>5, <2>6, <2>7, <2>8, <2>9
       DEF Next, Worker, vars, Tick, ApplicationMoves, SourceChanges, HrReads, CreateInterview
<1> QED BY <1>1, <1>2, InvariantHolds, PTL DEF Spec, FollowsAiJobs, Jobs!Ledger
==============================================================================
