------------------------ MODULE CvExtraction_proofs -------------------------
(***************************************************************************)
(* Theorems about CvExtraction, for any number of CVs, runs and edits, any *)
(* time and any of the optional operations.                                *)
(***************************************************************************)
EXTENDS CvExtraction, TLAPS

-----------------------------------------------------------------------------
(* The inductive invariant.                                                *)

\* No run is ahead of its CV; a run that is PROCESSING has it, and a worker
\* whose run was closed under it is behind.
RunFits(r) ==
  /\ runs[r].processingVersion <= cvs[runs[r].cv].processingVersion
  /\ runs[r].startedAt <= cvs[runs[r].cv].updatedAt
  /\ cvs[runs[r].cv].extraction # "PENDING"
  /\ runs[r].status = "PROCESSING" =>
       /\ cvs[runs[r].cv].extraction = "PROCESSING"
       /\ runs[r].processingVersion = cvs[runs[r].cv].processingVersion
  /\ Working(r) /\ runs[r].status # "PROCESSING" =>
       runs[r].processingVersion < cvs[runs[r].cv].processingVersion

RunsFit == \A r \in DOMAIN runs : RunFits(r)

\* A later run of a CV has a higher version.
RunsAreOrdered ==
  \A r, q \in DOMAIN runs :
    r < q /\ runs[r].cv = runs[q].cv => runs[r].processingVersion < runs[q].processingVersion

\* The run has the version the CV is at.
Holds(r, c) == runs[r].cv = c /\ runs[r].processingVersion = cvs[c].processingVersion

\* What a CV says of the run that has its version: it made the CV ready, or it
\* may take back what HR wrote since.
CvFits(r, c) ==
  /\ cvs[c].extraction = "READY" =>
       /\ runs[r].status = "SUCCEEDED"
       /\ cvs[c].profile.by = "AI" => cvs[c].profile.run = r
  /\ cvs[c].extraction = "PROCESSING" /\ cvs[c].profile.by = "HR" =>
       \/ r > cvs[c].profile.run
       \/ cvs[c].profile.at - runs[r].startedAt > StaleAfter

CvsFit ==
  \A c \in DOMAIN cvs :
    /\ cvs[c].updatedAt <= now
    /\ cvs[c].extraction # "PENDING" => \E r \in DOMAIN runs : Holds(r, c)
    /\ \A r \in DOMAIN runs : Holds(r, c) => CvFits(r, c)

\* HR has read no version yet to come.
SeenFits ==
  /\ DOMAIN seen \subseteq DOMAIN cvs
  /\ \A c \in DOMAIN seen : seen[c].profileVersion <= cvs[c].profileVersion
  /\ VersionNamesProfile

Inv == TypeInvariant /\ RunsFit /\ RunsAreOrdered /\ CvsFit /\ SeenFits

-----------------------------------------------------------------------------
(* Types.                                                                  *)

\* What the rows consist of.
LEMMA Rows ==
  ASSUME TypeInvariant
  PROVE  /\ now \in Nat
         /\ Len(cvs) \in Nat /\ DOMAIN cvs = 1 .. Len(cvs)
         /\ Len(runs) \in Nat /\ DOMAIN runs = 1 .. Len(runs)
         /\ \A c \in DOMAIN cvs :
              /\ cvs[c] \in Cv
              /\ cvs[c].extraction \in ExtractionStatus
              /\ cvs[c].processingVersion \in Nat /\ cvs[c].profileVersion \in Nat
              /\ cvs[c].updatedAt \in Nat /\ cvs[c].edits \in Nat
              /\ cvs[c].profile \in Profile
              /\ cvs[c].profile.run \in 0 .. Len(runs) /\ cvs[c].profile.at \in Nat
         /\ \A r \in DOMAIN runs :
              /\ runs[r] \in Run /\ runs[r].cv \in DOMAIN cvs
              /\ runs[r].processingVersion \in Nat /\ runs[r].startedAt \in Nat
              /\ runs[r].status \in {"PROCESSING", "SUCCEEDED", "FAILED", "SUPERSEDED"}
<1>1. now \in Nat
  BY ConstantsAssumption DEF TypeInvariant
<1>2. /\ Len(cvs) \in Nat /\ DOMAIN cvs = 1 .. Len(cvs)
      /\ \A c \in DOMAIN cvs : cvs[c] \in Cv
  BY DEF TypeInvariant
<1>3. /\ Len(runs) \in Nat /\ DOMAIN runs = 1 .. Len(runs)
      /\ \A r \in DOMAIN runs : runs[r] \in Run
  BY DEF TypeInvariant
<1>4. ASSUME NEW c \in DOMAIN cvs
      PROVE  /\ cvs[c].extraction \in ExtractionStatus
             /\ cvs[c].processingVersion \in Nat /\ cvs[c].profileVersion \in Nat
             /\ cvs[c].updatedAt \in Nat /\ cvs[c].edits \in Nat
             /\ cvs[c].profile \in Profile /\ cvs[c].profile.at \in Nat
  BY <1>2 DEF Cv, Profile
<1>5. ASSUME NEW r \in DOMAIN runs
      PROVE  /\ runs[r].processingVersion \in Nat /\ runs[r].startedAt \in Nat
             /\ runs[r].status \in {"PROCESSING", "SUCCEEDED", "FAILED", "SUPERSEDED"}
  BY <1>3 DEF Run
<1> QED BY <1>1, <1>2, <1>3, <1>4, <1>5 DEF TypeInvariant

\* A removal stays one while CVs are added.
LEMMA RemovalGrows ==
  ASSUME TypeInvariant, DOMAIN cvs \subseteq DOMAIN cvs', UNCHANGED removal
  PROVE  removal' \in {None} \cup
           [cv : DOMAIN cvs', wasCurrent : BOOLEAN, shortlisted : BOOLEAN,
            next : {0} \cup DOMAIN cvs']
BY DEF TypeInvariant

\* A saved row replaces that of its CV.
LEMMA SavedRows ==
  ASSUME TypeInvariant, NEW c \in DOMAIN cvs, NEW row \in Cv,
         cvs' = [cvs EXCEPT ![c] = row]
  PROVE  /\ cvs' \in Seq(Cv) /\ Len(cvs') = Len(cvs) /\ DOMAIN cvs' = DOMAIN cvs
         /\ cvs'[c] = row
         /\ \A d \in DOMAIN cvs \ {c} : cvs'[d] = cvs[d]
<1>1. cvs \in Seq(Cv) /\ c \in 1 .. Len(cvs)
  BY DEF TypeInvariant
<1> QED BY <1>1

\* The type invariant after a step that replaces rows of the CVs, and runs and
\* adds at most one run.
LEMMA TypesAfter ==
  ASSUME TypeInvariant, UNCHANGED <<now, application, seen, removal>>,
         cvs' \in Seq(Cv), DOMAIN cvs' = DOMAIN cvs,
         runs' \in Seq(Run), Len(runs) <= Len(runs'),
         \A r \in DOMAIN runs' : runs'[r].cv \in DOMAIN cvs,
         \A c \in DOMAIN cvs : cvs'[c].profile.run \in 0 .. Len(runs')
  PROVE  TypeInvariant'
BY RemovalGrows DEF TypeInvariant, application

-----------------------------------------------------------------------------
(* Initially.                                                              *)

\* The initial state satisfies the invariant.
LEMMA InitInv == Init => Inv
<1> SUFFICES ASSUME Init PROVE Inv
  OBVIOUS
<1>1. /\ cvs = <<>> /\ runs = <<>> /\ seen = <<>>
      /\ DOMAIN cvs = {} /\ DOMAIN runs = {} /\ DOMAIN seen = {}
      /\ cvs \in Seq(Cv) /\ runs \in Seq(Run) /\ seen \in Seq(Sight)
  BY DEF Init
<1>2. TypeInvariant
  BY <1>1, ConstantsAssumption DEF Init, TypeInvariant
<1> QED
  BY <1>1, <1>2 DEF Inv, RunsFit, RunsAreOrdered, CvsFit, SeenFits, VersionNamesProfile

-----------------------------------------------------------------------------
(* Steps that save no CV.                                                  *)

\* The rows of the CVs and the runs stay what they are, but for deletions.
SameRows ==
  /\ UNCHANGED runs
  /\ DOMAIN cvs' = DOMAIN cvs
  /\ \A c \in DOMAIN cvs : cvs'[c] \in {cvs[c], [cvs[c] EXCEPT !.deleted = TRUE]}

\* What stays of a row.
LEMMA SameFields ==
  ASSUME TypeInvariant, SameRows, NEW c \in DOMAIN cvs
  PROVE  /\ cvs'[c].extraction = cvs[c].extraction
         /\ cvs'[c].processingVersion = cvs[c].processingVersion
         /\ cvs'[c].profile = cvs[c].profile /\ cvs'[c].approved = cvs[c].approved
         /\ cvs'[c].profileVersion = cvs[c].profileVersion
         /\ cvs'[c].updatedAt = cvs[c].updatedAt
         /\ (cvs[c].deleted => cvs'[c].deleted)
<1>1. cvs[c] \in Cv
  BY Rows
<1> QED BY <1>1 DEF SameRows, Cv

\* Such a step keeps the invariant.
LEMMA SameRowsKeepInv ==
  ASSUME Inv, TypeInvariant', SameRows, now' >= now, UNCHANGED seen
  PROVE  Inv'
<1>1. TypeInvariant /\ runs' = runs /\ DOMAIN cvs' = DOMAIN cvs
  BY DEF Inv, SameRows
<1>2. RunsFit' /\ RunsAreOrdered'
  BY <1>1, SameFields, Rows DEF Inv, RunsFit, RunFits, RunsAreOrdered, Working
<1>3. CvsFit'
  <2> SUFFICES ASSUME NEW c \in DOMAIN cvs
               PROVE  /\ cvs'[c].updatedAt <= now'
                      /\ cvs'[c].extraction # "PENDING" => \E r \in DOMAIN runs : Holds(r, c)'
                      /\ \A r \in DOMAIN runs : Holds(r, c)' => CvFits(r, c)'
    BY <1>1 DEF CvsFit
  <2>1. cvs'[c].updatedAt <= now'
    BY <1>1, SameFields, Rows DEF Inv, CvsFit, TypeInvariant
  <2>2. \A r \in DOMAIN runs : (Holds(r, c)' <=> Holds(r, c)) /\ (CvFits(r, c) => CvFits(r, c)')
    BY <1>1, SameFields DEF Holds, CvFits
  <2> QED BY <1>1, <2>1, <2>2, SameFields DEF Inv, CvsFit
<1>4. SeenFits'
  BY <1>1, SameFields DEF Inv, SeenFits, VersionNamesProfile
<1> QED BY <1>2, <1>3, <1>4 DEF Inv

\* The clock ticks.
LEMMA TickKeepsInv == ASSUME Inv, Tick PROVE Inv'
<1>1. TypeInvariant'
  BY ConstantsAssumption DEF Inv, Tick, TypeInvariant, application
<1>2. SameRows /\ now' >= now /\ UNCHANGED seen
  BY Rows DEF Inv, Tick, SameRows
<1> QED BY <1>1, <1>2, SameRowsKeepInv

\* The application moves on, or a removal begins.
LEMMA ApplicationKeepsInv ==
  ASSUME Inv, ApplicationMoves \/ \E c \in DOMAIN cvs : BeginRemove(c)
  PROVE  Inv'
<1>1. TypeInvariant'
  <2>1. CASE ApplicationMoves
    BY <2>1 DEF Inv, ApplicationMoves, TypeInvariant
  <2>2. CASE \E c \in DOMAIN cvs : BeginRemove(c)
    <3>1. PICK c \in DOMAIN cvs, n \in {0} \cup DOMAIN cvs :
            removal' = [cv |-> c, wasCurrent |-> current = c, shortlisted |-> shortlisted,
                        next |-> n]
      BY <2>2 DEF BeginRemove
    <3>2. removal' \in [cv : DOMAIN cvs, wasCurrent : BOOLEAN, shortlisted : BOOLEAN,
                        next : {0} \cup DOMAIN cvs]
      BY <3>1 DEF Inv, TypeInvariant
    <3>3. UNCHANGED <<now, application, cvs, runs, seen>>
      BY <2>2 DEF BeginRemove
    <3> QED BY <3>2, <3>3 DEF Inv, TypeInvariant, application
  <2> QED BY <2>1, <2>2
<1>2. SameRows /\ now' = now /\ UNCHANGED seen
  BY DEF ApplicationMoves, BeginRemove, SameRows
<1> QED BY <1>1, <1>2, SameRowsKeepInv, Rows DEF Inv

\* A removal commits.
LEMMA EndRemoveKeepsInv == ASSUME Inv, EndRemove PROVE Inv'
<1> DEFINE c == removal.cv
           row == [cvs[c] EXCEPT !.deleted = TRUE]
<1>1. /\ TypeInvariant
      /\ removal \in [cv : DOMAIN cvs, wasCurrent : BOOLEAN, shortlisted : BOOLEAN,
                      next : {0} \cup DOMAIN cvs]
  BY DEF Inv, TypeInvariant, EndRemove, None
<1>2. c \in DOMAIN cvs /\ removal.shortlisted \in BOOLEAN /\ removal.next \in {0} \cup DOMAIN cvs
  BY <1>1
<1>3. cvs[c] \in Cv
  BY <1>1, <1>2, Rows
<1>4. row \in Cv /\ row.profile = cvs[c].profile
  BY <1>3 DEF Cv
<1>5. cvs' = [cvs EXCEPT ![c] = row]
  BY DEF EndRemove
<1> HIDE DEF c, row
<1>6. /\ cvs' \in Seq(Cv) /\ Len(cvs') = Len(cvs) /\ DOMAIN cvs' = DOMAIN cvs
      /\ cvs'[c] = row /\ \A d \in DOMAIN cvs \ {c} : cvs'[d] = cvs[d]
  BY <1>1, <1>2, <1>4, <1>5, SavedRows
<1>7. /\ shortlisted' \in BOOLEAN /\ current' \in {0} \cup DOMAIN cvs
      /\ removal' = None /\ UNCHANGED <<now, runs, seen>>
  BY <1>1, <1>2 DEF EndRemove, TypeInvariant, application
<1>8. TypeInvariant'
  <2>1. \A d \in DOMAIN cvs : cvs'[d].profile.run \in 0 .. Len(runs)
    BY <1>1, <1>4, <1>6 DEF TypeInvariant
  <2> QED BY <1>1, <1>6, <1>7, <2>1 DEF TypeInvariant
<1>9. SameRows
  BY <1>6, <1>7 DEF SameRows, row
<1> QED BY <1>1, <1>7, <1>8, <1>9, SameRowsKeepInv, Rows

\* HR reads the CVs.
LEMMA HrReadsKeepsInv == ASSUME Inv, HrReads PROVE Inv'
<1>1. /\ TypeInvariant /\ DOMAIN cvs = 1 .. Len(cvs) /\ Len(cvs) \in Nat
      /\ UNCHANGED <<now, application, cvs, runs, removal>>
  BY Rows DEF Inv, HrReads
<1>2. /\ DOMAIN seen' = DOMAIN cvs
      /\ \A c \in DOMAIN cvs : /\ seen'[c] \in Sight
                               /\ seen'[c].profileVersion = cvs[c].profileVersion
                               /\ seen'[c].profile = cvs[c].profile
                               /\ seen'[c].approved = cvs[c].approved
  <2>1. \A c \in DOMAIN cvs : cvs[c] \in Cv
    BY <1>1, Rows
  <2> QED BY <2>1 DEF HrReads, Sight, Cv
<1>3. seen' \in Seq(Sight)
  <2>1. \A c \in 1 .. Len(cvs) :
          [processingVersion |-> cvs[c].processingVersion, profile |-> cvs[c].profile,
           approved |-> cvs[c].approved, profileVersion |-> cvs[c].profileVersion] \in Sight
    BY <1>1, <1>2 DEF HrReads
  <2> QED BY <1>1, <2>1 DEF HrReads
<1>4. TypeInvariant'
  BY <1>1, <1>3 DEF TypeInvariant, application
<1>5. SeenFits'
  BY <1>1, <1>2, Rows DEF SeenFits, VersionNamesProfile
<1> QED BY <1>1, <1>4, <1>5
      DEF Inv, RunsFit, RunFits, RunsAreOrdered, CvsFit, Holds, CvFits, Working

\* What HR has read stays behind: a save that changes the profile counts up its
\* version.
LEMMA SeenStaysBehind ==
  ASSUME Inv, UNCHANGED seen, DOMAIN cvs \subseteq DOMAIN cvs',
         \A c \in DOMAIN cvs :
           \/ /\ cvs'[c].profileVersion = cvs[c].profileVersion
              /\ cvs'[c].profile = cvs[c].profile /\ cvs'[c].approved = cvs[c].approved
           \/ cvs'[c].profileVersion = cvs[c].profileVersion + 1
  PROVE  SeenFits'
<1>1. TypeInvariant /\ SeenFits
  BY DEF Inv
<1>2. \A c \in DOMAIN seen :
        /\ c \in DOMAIN cvs /\ cvs[c].profileVersion \in Nat
        /\ seen[c].profileVersion \in Nat
        /\ seen[c].profileVersion <= cvs[c].profileVersion
  <2>1. \A c \in DOMAIN seen : seen[c] \in Sight
    BY <1>1 DEF TypeInvariant
  <2>2. \A c \in DOMAIN seen : seen[c].profileVersion \in Nat
    BY <2>1 DEF Sight
  <2> QED BY <1>1, <2>2, Rows DEF SeenFits
<1> QED BY <1>1, <1>2 DEF SeenFits, VersionNamesProfile

\* A CV is uploaded.
LEMMA UploadKeepsInv == ASSUME Inv, Upload PROVE Inv'
<1> DEFINE row == [extraction |-> "PENDING", processingVersion |-> 1, profile |-> NoProfile,
                   approved |-> FALSE, profileVersion |-> 1, updatedAt |-> now, edits |-> 0,
                   deleted |-> FALSE]
<1> PICK n : n = Len(cvs) + 1
  OBVIOUS
<1>1. /\ TypeInvariant /\ now \in Nat /\ cvs \in Seq(Cv) /\ Len(cvs) \in Nat
      /\ DOMAIN cvs = 1 .. Len(cvs)
  BY Rows DEF Inv, TypeInvariant
<1>2. /\ row \in Cv /\ row.extraction = "PENDING" /\ row.updatedAt = now
      /\ row.profile.run = 0
  BY <1>1 DEF Cv, Profile, NoProfile, ExtractionStatus
<1>3. cvs' = Append(cvs, row) /\ UNCHANGED <<now, shortlisted, runs, seen, removal>>
      /\ current' = Len(cvs) + 1
  BY DEF Upload
<1> HIDE DEF row
<1>4. /\ cvs' \in Seq(Cv) /\ Len(cvs') = Len(cvs) + 1 /\ DOMAIN cvs' = DOMAIN cvs \cup {n}
      /\ cvs'[n] = row /\ \A c \in DOMAIN cvs : c # n /\ cvs'[c] = cvs[c]
  BY <1>1, <1>2, <1>3
<1>5. TypeInvariant'
  <2>1. \A c \in DOMAIN cvs' : cvs'[c].profile.run \in 0 .. Len(runs)
    BY <1>1, <1>2, <1>4, Rows DEF TypeInvariant
  <2> QED BY <1>1, <1>3, <1>4, <2>1, RemovalGrows DEF TypeInvariant
<1>6. RunsFit' /\ RunsAreOrdered'
  BY <1>1, <1>3, <1>4, Rows DEF Inv, RunsFit, RunFits, RunsAreOrdered, Working
<1>7. CvsFit'
  <2>1. ASSUME NEW c \in DOMAIN cvs
        PROVE  /\ cvs'[c].updatedAt <= now'
               /\ cvs'[c].extraction # "PENDING" => \E r \in DOMAIN runs' : Holds(r, c)'
               /\ \A r \in DOMAIN runs' : Holds(r, c)' => CvFits(r, c)'
    BY <1>3, <1>4 DEF Inv, CvsFit, Holds, CvFits
  <2>2. \A r \in DOMAIN runs' : ~Holds(r, n)'
    BY <1>1, <1>3, <1>4, Rows DEF Holds
  <2>3. /\ cvs'[n].updatedAt <= now' /\ cvs'[n].extraction = "PENDING"
    BY <1>1, <1>2, <1>3, <1>4
  <2>4. \A c \in DOMAIN cvs' : c \in DOMAIN cvs \/ c = n
    BY <1>4
  <2> QED BY <2>1, <2>2, <2>3, <2>4 DEF CvsFit
<1>8. SeenFits'
  BY <1>3, <1>4, SeenStaysBehind
<1> QED BY <1>5, <1>6, <1>7, <1>8 DEF Inv

\* A worker moves on without its CV: its run is what it was, or closed.
RunMoves(r, q) ==
  /\ q \in Run
  /\ q.cv = runs[r].cv /\ q.processingVersion = runs[r].processingVersion
  /\ q.startedAt = runs[r].startedAt
  /\ ~(q.answer = "NONE" /\ q.caught = "NONE")
  /\ \/ q.status = runs[r].status
     \/ runs[r].status = "PROCESSING" /\ q.status \in {"FAILED", "SUPERSEDED"}
  /\ runs' = [runs EXCEPT ![r] = q]

\* What a move of a run changes.
LEMMA MovedRuns ==
  ASSUME TypeInvariant, NEW r \in DOMAIN runs, NEW q, RunMoves(r, q)
  PROVE  /\ runs' \in Seq(Run) /\ Len(runs') = Len(runs) /\ DOMAIN runs' = DOMAIN runs
         /\ runs'[r] = q /\ ~Working(r)'
         /\ \A p \in DOMAIN runs \ {r} : runs'[p] = runs[p] /\ Working(p)' = Working(p)
         /\ \A p \in DOMAIN runs :
              /\ runs'[p].cv = runs[p].cv /\ runs'[p].startedAt = runs[p].startedAt
              /\ runs'[p].processingVersion = runs[p].processingVersion
<1>1. /\ runs \in Seq(Run) /\ r \in 1 .. Len(runs) /\ q \in Run
      /\ runs' = [runs EXCEPT ![r] = q]
  BY DEF TypeInvariant, RunMoves
<1>2. /\ runs' \in Seq(Run) /\ Len(runs') = Len(runs) /\ DOMAIN runs' = DOMAIN runs
      /\ runs'[r] = q /\ \A p \in DOMAIN runs \ {r} : runs'[p] = runs[p]
  BY <1>1
<1> QED BY <1>2 DEF RunMoves, Working

\* Such a move keeps the invariant.
LEMMA RunMovesKeepInv ==
  ASSUME Inv, NEW r \in DOMAIN runs, NEW q, RunMoves(r, q),
         UNCHANGED <<now, application, cvs, seen, removal>>
  PROVE  Inv'
<1>1. TypeInvariant /\ cvs' = cvs /\ seen' = seen /\ now' = now
  BY DEF Inv
<1>2. /\ runs' \in Seq(Run) /\ Len(runs') = Len(runs) /\ DOMAIN runs' = DOMAIN runs
      /\ runs'[r] = q /\ ~Working(r)'
      /\ \A p \in DOMAIN runs \ {r} : runs'[p] = runs[p] /\ Working(p)' = Working(p)
      /\ \A p \in DOMAIN runs :
           /\ runs'[p].cv = runs[p].cv /\ runs'[p].startedAt = runs[p].startedAt
           /\ runs'[p].processingVersion = runs[p].processingVersion
  BY <1>1, MovedRuns
<1>3. TypeInvariant'
  <2>1. Len(runs) <= Len(runs') /\ DOMAIN cvs' = DOMAIN cvs /\ cvs' \in Seq(Cv)
    BY <1>1, <1>2, Rows DEF TypeInvariant
  <2>2. \A p \in DOMAIN runs' : runs'[p].cv \in DOMAIN cvs
    BY <1>1, <1>2, Rows
  <2>3. \A c \in DOMAIN cvs : cvs'[c].profile.run \in 0 .. Len(runs')
    BY <1>1, <1>2, Rows
  <2> QED BY <1>1, <1>2, <2>1, <2>2, <2>3, TypesAfter
<1>4. \A p \in DOMAIN runs : runs'[p].status # runs[p].status =>
        p = r /\ runs[p].status = "PROCESSING" /\ runs'[p].status \in {"FAILED", "SUPERSEDED"}
  BY <1>2 DEF RunMoves
<1>5. RunsFit' /\ RunsAreOrdered'
  <2>1. RunsAreOrdered'
    BY <1>2 DEF Inv, RunsAreOrdered
  <2>2. ASSUME NEW p \in DOMAIN runs, runs'[p].status = "PROCESSING"
        PROVE  runs[p].status = "PROCESSING"
    BY <2>2, <1>4
  <2>3. ASSUME NEW p \in DOMAIN runs, Working(p)', runs'[p].status # "PROCESSING"
        PROVE  Working(p) /\ runs[p].status # "PROCESSING"
    BY <2>3, <1>2
  <2> QED BY <1>1, <1>2, <2>1, <2>2, <2>3 DEF Inv, RunsFit, RunFits
<1>6. CvsFit'
  <2>1. \A p \in DOMAIN runs, c \in DOMAIN cvs : Holds(p, c)' <=> Holds(p, c)
    BY <1>1, <1>2 DEF Holds
  <2>2. ASSUME NEW p \in DOMAIN runs, NEW c \in DOMAIN cvs, Holds(p, c), CvFits(p, c)
        PROVE  CvFits(p, c)'
    <3>1. runs[p].status = "SUCCEEDED" => runs'[p].status = "SUCCEEDED"
      BY <1>4
    <3> QED BY <1>1, <1>2, <2>2, <3>1 DEF CvFits
  <2> QED BY <1>1, <1>2, <2>1, <2>2 DEF Inv, CvsFit
<1>7. SeenFits'
  BY <1>1 DEF Inv, SeenFits, VersionNamesProfile
<1> QED BY <1>3, <1>5, <1>6, <1>7 DEF Inv

\* What closing a run makes of it.
LEMMA ClosedRun ==
  ASSUME NEW run \in Run, NEW status \in {"FAILED", "SUPERSEDED"}
  PROVE  /\ CloseRun(run, status) \in Run
         /\ CloseRun(run, status).cv = run.cv
         /\ CloseRun(run, status).processingVersion = run.processingVersion
         /\ CloseRun(run, status).startedAt = run.startedAt
         /\ CloseRun(run, status).answer = run.answer
         /\ CloseRun(run, status).caught = run.caught
         /\ CloseRun(run, status).status =
              IF run.status = "PROCESSING" THEN status ELSE run.status
<1>1. CASE run.status = "PROCESSING"
  BY <1>1 DEF CloseRun, Run
<1>2. CASE run.status # "PROCESSING"
  BY <1>2 DEF CloseRun, Run
<1> QED BY <1>1, <1>2

\* The steps of a worker that finds its CV gone on without it, or that ends on
\* its own.
LEMMA MovesOfRuns ==
  ASSUME TypeInvariant, NEW r \in DOMAIN runs,
         CompleteLate(r) \/ WorkFails(r) \/ FailLate(r) \/ FailIsLost(r) \/ WorkerDies(r)
  PROVE  /\ \E q : RunMoves(r, q)
         /\ UNCHANGED <<now, application, cvs, seen, removal>>
<1>1. runs[r] \in Run /\ runs \in Seq(Run)
  BY Rows DEF TypeInvariant
<1> DEFINE closed == CloseRun(runs[r], "SUPERSEDED")
<1>2. /\ closed \in Run /\ closed.cv = runs[r].cv /\ closed.startedAt = runs[r].startedAt
      /\ closed.processingVersion = runs[r].processingVersion
      /\ \/ closed.status = runs[r].status
         \/ runs[r].status = "PROCESSING" /\ closed.status = "SUPERSEDED"
  BY <1>1, ClosedRun
<1>3. CASE CompleteLate(r)
  <2> DEFINE q == [closed EXCEPT !.caught = "AI_RESULT_SUPERSEDED"]
  <2>1. runs' = [runs EXCEPT ![r] = q]
    BY <1>3 DEF CompleteLate
  <2> HIDE DEF closed
  <2>2. RunMoves(r, q)
    BY <1>1, <1>2, <2>1 DEF RunMoves, Run
  <2> QED BY <1>3, <2>2 DEF CompleteLate
<1>4. CASE FailLate(r)
  <2> DEFINE q == [closed EXCEPT !.answer = "FAILED"]
  <2>1. runs' = [runs EXCEPT ![r] = q]
    BY <1>4 DEF FailLate
  <2> HIDE DEF closed
  <2>2. RunMoves(r, q)
    BY <1>1, <1>2, <2>1 DEF RunMoves, Run
  <2> QED BY <1>4, <2>2 DEF FailLate
<1>5. CASE WorkFails(r)
  <2> DEFINE q == [runs[r] EXCEPT !.caught = "ERROR"]
  <2>1. runs' = [runs EXCEPT ![r] = q]
    BY <1>5 DEF WorkFails
  <2>2. RunMoves(r, q)
    BY <1>1, <2>1 DEF RunMoves, Run
  <2> QED BY <1>5, <2>2 DEF WorkFails
<1>6. CASE FailIsLost(r)
  <2> DEFINE q == [runs[r] EXCEPT !.answer = "UNRECORDED"]
  <2>1. runs' = [runs EXCEPT ![r] = q]
    BY <1>6 DEF FailIsLost
  <2>2. RunMoves(r, q)
    BY <1>1, <2>1 DEF RunMoves, Run
  <2> QED BY <1>6, <2>2 DEF FailIsLost
<1>7. CASE WorkerDies(r)
  <2> DEFINE q == [runs[r] EXCEPT !.answer = "DIED"]
  <2>1. runs' = [runs EXCEPT ![r] = q]
    BY <1>7 DEF WorkerDies
  <2>2. RunMoves(r, q)
    BY <1>1, <2>1 DEF RunMoves, Run
  <2> QED BY <1>7, <2>2 DEF WorkerDies
<1> QED BY <1>3, <1>4, <1>5, <1>6, <1>7

-----------------------------------------------------------------------------
(* Steps that save a CV.                                                   *)

\* A step that saves one CV keeps the invariant when it does so for that CV and
\* its runs, and touches no others.
LEMMA SaveKeepsInv ==
  ASSUME Inv, NEW c \in DOMAIN cvs, NEW row \in Cv,
         cvs' = [cvs EXCEPT ![c] = row], row.updatedAt = now,
         UNCHANGED <<now, application, seen, removal>>,
         runs' \in Seq(Run), Len(runs) <= Len(runs'), row.profile.run <= Len(runs'),
         \A p \in DOMAIN runs :
           /\ runs'[p].cv = runs[p].cv
           /\ runs[p].cv # c => runs'[p] = runs[p],
         \A p \in DOMAIN runs' \ DOMAIN runs : runs'[p].cv = c,
         \A p \in DOMAIN runs' : runs'[p].cv = c => RunFits(p)',
         RunsAreOrdered',
         row.extraction # "PENDING" => \E p \in DOMAIN runs' : Holds(p, c)',
         \A p \in DOMAIN runs' : Holds(p, c)' => CvFits(p, c)',
         \/ /\ row.profileVersion = cvs[c].profileVersion
            /\ row.profile = cvs[c].profile /\ row.approved = cvs[c].approved
         \/ row.profileVersion = cvs[c].profileVersion + 1
  PROVE  Inv'
<1>1. TypeInvariant /\ now' = now /\ now \in Nat /\ UNCHANGED seen
  BY Rows DEF Inv
<1>2. /\ cvs' \in Seq(Cv) /\ Len(cvs') = Len(cvs) /\ DOMAIN cvs' = DOMAIN cvs
      /\ cvs'[c] = row /\ \A d \in DOMAIN cvs \ {c} : cvs'[d] = cvs[d]
  BY <1>1, SavedRows
<1>3. /\ DOMAIN runs = 1 .. Len(runs) /\ DOMAIN runs' = 1 .. Len(runs')
      /\ Len(runs) \in Nat /\ Len(runs') \in Nat
      /\ DOMAIN runs \subseteq DOMAIN runs'
  BY <1>1, Rows
<1>4. \A p \in DOMAIN runs' :
        \/ runs'[p].cv = c
        \/ p \in DOMAIN runs /\ runs'[p] = runs[p] /\ runs[p].cv \in DOMAIN cvs \ {c}
  BY <1>1, <1>3, Rows
<1>5. TypeInvariant'
  <2>1. \A p \in DOMAIN runs' : runs'[p].cv \in DOMAIN cvs
    BY <1>4
  <2>2. \A d \in DOMAIN cvs : cvs'[d].profile.run \in 0 .. Len(runs')
    <3>1. row.profile.run \in Nat
      BY DEF Cv, Profile
    <3> QED BY <1>1, <1>2, <1>3, <3>1, Rows
  <2> QED BY <1>1, <1>2, <2>1, <2>2, TypesAfter
<1>6. RunsFit'
  <2> SUFFICES ASSUME NEW p \in DOMAIN runs', runs'[p].cv # c PROVE RunFits(p)'
    BY DEF RunsFit
  <2>1. /\ p \in DOMAIN runs /\ runs'[p] = runs[p] /\ runs[p].cv \in DOMAIN cvs \ {c}
        /\ RunFits(p)
    BY <1>4 DEF Inv, RunsFit
  <2> QED BY <1>2, <2>1 DEF RunFits, Working
<1>7. CvsFit'
  <2>1. ASSUME NEW d \in DOMAIN cvs \ {c}
        PROVE  /\ cvs'[d].updatedAt <= now'
               /\ cvs'[d].extraction # "PENDING" => \E p \in DOMAIN runs' : Holds(p, d)'
               /\ \A p \in DOMAIN runs' : Holds(p, d)' => CvFits(p, d)'
    <3>1. cvs'[d] = cvs[d]
      BY <1>2
    <3>2. ASSUME NEW p \in DOMAIN runs, Holds(p, d)
          PROVE  p \in DOMAIN runs' /\ Holds(p, d)' /\ (CvFits(p, d) => CvFits(p, d)')
      <4>1. runs'[p] = runs[p]
        BY <3>2 DEF Holds
      <4> QED BY <1>3, <3>1, <3>2, <4>1 DEF Holds, CvFits
    <3>3. ASSUME NEW p \in DOMAIN runs', Holds(p, d)'
          PROVE  p \in DOMAIN runs /\ Holds(p, d)
      BY <1>4, <3>1, <3>3 DEF Holds
    <3> QED BY <1>1, <3>1, <3>2, <3>3 DEF Inv, CvsFit
  <2>2. cvs'[c].updatedAt <= now' /\ cvs'[c].extraction = row.extraction
    BY <1>1, <1>2
  <2> QED BY <1>2, <2>1, <2>2 DEF CvsFit
<1>8. SeenFits'
  BY <1>1, <1>2, SeenStaysBehind
<1> QED BY <1>5, <1>6, <1>7, <1>8 DEF Inv

\* A save that touches no run: an edit or an approval of HR.
LEMMA EditsKeepInv ==
  ASSUME Inv, NEW c \in DOMAIN cvs, UpdateProfile(c) \/ ApproveProfile(c)
  PROVE  Inv'
<1> DEFINE edited == [cvs[c] EXCEPT !.profile = [by |-> "HR", run |-> Len(runs), at |-> now],
                                    !.profileVersion = @ + 1, !.edits = @ + 1]
           approved == [cvs[c] EXCEPT !.approved = TRUE, !.profileVersion = @ + 1]
<1>1. /\ TypeInvariant /\ now \in Nat /\ cvs[c] \in Cv /\ runs \in Seq(Run) /\ Len(runs) \in Nat
      /\ cvs[c].updatedAt \in Nat /\ cvs[c].updatedAt <= now
  BY Rows DEF Inv, TypeInvariant, CvsFit
<1>2. PICK row \in Cv :
        /\ cvs' = [cvs EXCEPT ![c] = row]
        /\ row.updatedAt = now /\ row.extraction = cvs[c].extraction
        /\ row.processingVersion = cvs[c].processingVersion
        /\ row.profileVersion = cvs[c].profileVersion + 1
        /\ \/ row.profile = cvs[c].profile
           \/ row.profile = [by |-> "HR", run |-> Len(runs), at |-> now]
  <2>1. CASE UpdateProfile(c)
    <3> DEFINE row == [edited EXCEPT !.updatedAt = now]
    <3>1. cvs' = [cvs EXCEPT ![c] = row]
      BY <2>1 DEF UpdateProfile, Save
    <3>2. [by |-> "HR", run |-> Len(runs), at |-> now] \in Profile
      BY <1>1 DEF Profile
    <3>3. edited \in Cv
      <4>1. PICK v \in Nat, e \in Nat : v = cvs[c].profileVersion + 1 /\ e = cvs[c].edits + 1
        BY <1>1, Rows
      <4> QED BY <1>1, <3>2, <4>1 DEF Cv
    <3>4. row \in Cv
      BY <1>1, <3>3 DEF Cv
    <3> QED BY <1>1, <3>1, <3>4 DEF Cv
  <2>2. CASE ApproveProfile(c)
    <3> DEFINE row == [approved EXCEPT !.updatedAt = now]
    <3>1. cvs' = [cvs EXCEPT ![c] = row]
      BY <2>2 DEF ApproveProfile, Save
    <3>2. approved \in Cv
      <4>1. PICK v \in Nat : v = cvs[c].profileVersion + 1
        BY <1>1, Rows
      <4> QED BY <1>1, <4>1 DEF Cv
    <3>3. row \in Cv
      BY <1>1, <3>2 DEF Cv
    <3> QED BY <1>1, <3>1, <3>3 DEF Cv
  <2> QED BY <2>1, <2>2
<1>3. /\ UNCHANGED <<now, application, seen, removal>> /\ runs' = runs
      /\ cvs[c].extraction = "PROCESSING" => IsStale(c)
  BY DEF UpdateProfile, ApproveProfile, MayEdit
<1>4. cvs'[c] = row /\ \A d \in DOMAIN cvs \ {c} : cvs'[d] = cvs[d]
  BY <1>1, <1>2, SavedRows
<1>5. row.profile.run <= Len(runs)
  BY <1>1, <1>2, Rows
<1>6. ASSUME NEW p \in DOMAIN runs, runs[p].cv = c PROVE RunFits(p)'
  <2>1. RunFits(p) /\ runs[p].startedAt \in Nat
    BY <1>1, Rows DEF Inv, RunsFit
  <2> QED BY <1>1, <1>2, <1>3, <1>4, <1>6, <2>1 DEF RunFits, Working
<1>7. \A p \in DOMAIN runs : Holds(p, c)' <=> Holds(p, c)
  BY <1>2, <1>3, <1>4 DEF Holds
<1>8. ASSUME NEW p \in DOMAIN runs, Holds(p, c) PROVE CvFits(p, c)'
  <2>1. CvFits(p, c) /\ RunFits(p) /\ runs[p].cv = c /\ runs[p].startedAt \in Nat
    BY <1>1, <1>8, Rows DEF Inv, CvsFit, RunsFit, Holds
  <2>2. CASE row.profile = cvs[c].profile
    BY <1>2, <1>3, <1>4, <2>1, <2>2 DEF CvFits
  <2>3. CASE row.profile = [by |-> "HR", run |-> Len(runs), at |-> now]
    <3>1. CASE cvs[c].extraction = "PROCESSING"
      <4>1. now - runs[p].startedAt > StaleAfter
        BY <1>1, <1>3, <2>1, <3>1, ConstantsAssumption DEF IsStale, RunFits
      <4> QED BY <1>2, <1>3, <1>4, <2>3, <3>1, <4>1 DEF CvFits
    <3>2. CASE cvs[c].extraction # "PROCESSING"
      BY <1>2, <1>3, <1>4, <2>1, <2>3, <3>2 DEF CvFits
    <3> QED BY <3>1, <3>2
  <2> QED BY <1>2, <2>2, <2>3
<1>9. row.extraction # "PENDING" => \E p \in DOMAIN runs : Holds(p, c)
  BY <1>2 DEF Inv, CvsFit
<1>10. RunsAreOrdered'
  BY <1>3 DEF Inv, RunsAreOrdered
<1>11. /\ runs' \in Seq(Run) /\ Len(runs) <= Len(runs') /\ row.profile.run <= Len(runs')
       /\ \A p \in DOMAIN runs : runs'[p].cv = runs[p].cv /\ runs'[p] = runs[p]
       /\ DOMAIN runs' \ DOMAIN runs = {}
  BY <1>1, <1>3, <1>5
<1>12. \A p \in DOMAIN runs' : runs'[p].cv = c => RunFits(p)'
  BY <1>3, <1>6
<1>13. /\ row.extraction # "PENDING" => \E p \in DOMAIN runs' : Holds(p, c)'
       /\ \A p \in DOMAIN runs' : Holds(p, c)' => CvFits(p, c)'
  BY <1>3, <1>7, <1>8, <1>9
<1> HIDE DEF edited, approved
<1> QED BY <1>2, <1>3, <1>10, <1>11, <1>12, <1>13, SaveKeepsInv

\* A worker that finds its CV as it claimed it has the newest run of the CV, and
\* no other run of the CV is PROCESSING.
LEMMA ClaimIsNewest ==
  ASSUME Inv, NEW r \in DOMAIN runs, NEW c, c = runs[r].cv, StillClaimed(r)
  PROVE  /\ c \in DOMAIN cvs /\ Holds(r, c)
         /\ Working(r) => runs[r].status = "PROCESSING"
         /\ \A p \in DOMAIN runs \ {r} : runs[p].cv = c =>
              p < r /\ ~Holds(p, c) /\ runs[p].status # "PROCESSING"
         /\ runs[r].startedAt <= now
<1>1. /\ TypeInvariant /\ RunFits(r) /\ c \in DOMAIN cvs
      /\ \A p \in DOMAIN runs : p \in Nat /\ runs[p].processingVersion \in Nat
      /\ runs[r].startedAt \in Nat /\ cvs[c].updatedAt \in Nat /\ now \in Nat
      /\ cvs[c].updatedAt <= now
  BY Rows DEF Inv, RunsFit, CvsFit
<1>2. cvs[c].processingVersion = runs[r].processingVersion
  BY DEF StillClaimed
<1>3. Working(r) => runs[r].status = "PROCESSING"
  BY <1>1, <1>2 DEF RunFits
<1>4. ASSUME NEW p \in DOMAIN runs \ {r}, runs[p].cv = c
      PROVE  p < r /\ ~Holds(p, c) /\ runs[p].status # "PROCESSING"
  <2>1. RunFits(p)
    BY DEF Inv, RunsFit
  <2>2. runs[p].processingVersion <= runs[r].processingVersion
    BY <1>2, <1>4, <2>1 DEF RunFits
  <2>3. ~(r < p)
    BY <1>1, <1>4, <2>2 DEF Inv, RunsAreOrdered
  <2>4. p < r
    BY <1>1, <2>3
  <2>5. runs[p].processingVersion < runs[r].processingVersion
    BY <1>4, <2>4 DEF Inv, RunsAreOrdered
  <2> QED BY <1>1, <1>2, <1>4, <2>1, <2>4, <2>5 DEF RunFits, Holds
<1> QED BY <1>1, <1>2, <1>3, <1>4 DEF RunFits, Holds

\* Run r settles: it leaves q of itself and row of its CV.
Settles(r, c, row, q) ==
  /\ c = runs[r].cv /\ StillClaimed(r)
  /\ cvs' = [cvs EXCEPT ![c] = row] /\ row.updatedAt = now
  /\ row.processingVersion = cvs[c].processingVersion
  /\ row.profile.run <= Len(runs)
  /\ \/ /\ row.profileVersion = cvs[c].profileVersion
        /\ row.profile = cvs[c].profile /\ row.approved = cvs[c].approved
     \/ row.profileVersion = cvs[c].profileVersion + 1
  /\ runs' = [runs EXCEPT ![r] = q]
  /\ q.cv = c /\ q.processingVersion = runs[r].processingVersion
  /\ q.startedAt = runs[r].startedAt /\ q.answer # "NONE" /\ q.status # "PROCESSING"
  /\ row.extraction \in {"READY", "FAILED", "NEEDS_MANUAL_INPUT"}
  /\ row.extraction = "READY" => q.status = "SUCCEEDED" /\ row.profile.run = r
  /\ UNCHANGED <<now, application, seen, removal>>

\* Such a worker settles the CV and its run together: it completes or it fails.
LEMMA SettlingKeepsInv ==
  ASSUME Inv, NEW r \in DOMAIN runs, NEW c, NEW row \in Cv, NEW q \in Run,
         Settles(r, c, row, q)
  PROVE  Inv'
<1> USE DEF Settles
<1>1. TypeInvariant /\ runs \in Seq(Run) /\ r \in 1 .. Len(runs)
  BY DEF Inv, TypeInvariant
<1>2. /\ runs' \in Seq(Run) /\ Len(runs') = Len(runs) /\ DOMAIN runs' = DOMAIN runs
      /\ runs'[r] = q /\ \A p \in DOMAIN runs \ {r} : runs'[p] = runs[p]
  BY <1>1
<1>3. /\ c \in DOMAIN cvs /\ Holds(r, c)
      /\ \A p \in DOMAIN runs \ {r} : runs[p].cv = c =>
           p < r /\ ~Holds(p, c) /\ runs[p].status # "PROCESSING"
      /\ runs[r].startedAt <= now
  BY ClaimIsNewest
<1>4. cvs'[c] = row /\ now' = now
  BY <1>1, <1>3, SavedRows
<1>5. \A p \in DOMAIN runs :
        /\ runs'[p].cv = runs[p].cv /\ runs'[p].startedAt = runs[p].startedAt
        /\ runs'[p].processingVersion = runs[p].processingVersion
        /\ runs[p].cv # c => runs'[p] = runs[p]
  BY <1>2
<1>6. ASSUME NEW p \in DOMAIN runs, runs[p].cv = c PROVE RunFits(p)'
  <2>1. RunFits(p) /\ runs[p].startedAt \in Nat
    BY <1>1, Rows DEF Inv, RunsFit
  <2>2. CASE p = r
    BY <1>2, <1>3, <1>4, <2>1, <2>2 DEF RunFits, Working, Holds
  <2>3. CASE p # r
    <3>1. /\ runs'[p] = runs[p] /\ runs[p].status # "PROCESSING"
          /\ runs[p].startedAt <= cvs[c].updatedAt /\ cvs[c].updatedAt \in Nat
          /\ cvs[c].updatedAt <= now /\ now \in Nat
      BY <1>1, <1>2, <1>3, <1>6, <2>1, <2>3, Rows DEF RunFits, Inv, CvsFit
    <3> QED BY <1>4, <1>6, <2>1, <3>1 DEF RunFits, Working
  <2> QED BY <2>2, <2>3
<1>7. RunsAreOrdered'
  BY <1>2, <1>5 DEF Inv, RunsAreOrdered
<1>8. \A p \in DOMAIN runs : Holds(p, c)' <=> Holds(p, c)
  BY <1>4, <1>5 DEF Holds
<1>9. ASSUME NEW p \in DOMAIN runs, Holds(p, c) PROVE CvFits(p, c)'
  <2>1. p = r
    BY <1>3, <1>9 DEF Holds
  <2> QED BY <1>2, <1>4, <2>1 DEF CvFits
<1>10. /\ \A p \in DOMAIN runs' : runs'[p].cv = c => RunFits(p)'
       /\ \E p \in DOMAIN runs' : Holds(p, c)'
       /\ \A p \in DOMAIN runs' : Holds(p, c)' => CvFits(p, c)'
  BY <1>2, <1>3, <1>5, <1>6, <1>8, <1>9
<1>11. /\ Len(runs) <= Len(runs') /\ row.profile.run <= Len(runs')
       /\ DOMAIN runs' \ DOMAIN runs = {}
  BY <1>1, <1>2
<1> QED BY <1>2, <1>3, <1>5, <1>7, <1>10, <1>11, SaveKeepsInv

\* The row a completed run saves.
CompletedRow(cv, r) ==
  [cv EXCEPT !.extraction = "READY", !.approved = FALSE,
     !.profile = [by |-> "AI", run |-> r, at |-> now],
     !.profileVersion = @ + 1, !.updatedAt = now]

\* What it consists of.
LEMMA CompletedRowFields ==
  ASSUME NEW cv \in Cv, NEW r \in Nat, now \in Nat
  PROVE  /\ CompletedRow(cv, r) \in Cv
         /\ CompletedRow(cv, r).extraction = "READY"
         /\ CompletedRow(cv, r).processingVersion = cv.processingVersion
         /\ CompletedRow(cv, r).profile = [by |-> "AI", run |-> r, at |-> now]
         /\ CompletedRow(cv, r).approved = FALSE
         /\ CompletedRow(cv, r).profileVersion = cv.profileVersion + 1
         /\ CompletedRow(cv, r).updatedAt = now
         /\ CompletedRow(cv, r).deleted = cv.deleted
<1>1. PICK v \in Nat : v = cv.profileVersion + 1
  BY DEF Cv
<1>2. [by |-> "AI", run |-> r, at |-> now] \in Profile
  BY DEF Profile
<1>3. "READY" \in ExtractionStatus
  BY DEF ExtractionStatus
<1> QED BY <1>1, <1>2, <1>3 DEF CompletedRow, Cv

\* What completing does.
LEMMA CompleteFields ==
  ASSUME TypeInvariant, NEW r \in DOMAIN runs, Complete(r)
  PROVE  /\ cvs' = [cvs EXCEPT ![runs[r].cv] = CompletedRow(cvs[runs[r].cv], r)]
         /\ runs' = [runs EXCEPT ![r] =
                       [runs[r] EXCEPT !.status = "SUCCEEDED", !.answer = "READY"]]
         /\ Working(r) /\ StillClaimed(r) /\ ~cvs[runs[r].cv].approved
         /\ UNCHANGED <<now, application, seen, removal>>
BY Rows DEF Complete, Save, CompletedRow, Cv

\* A worker completes its extraction.
LEMMA CompleteKeepsInv ==
  ASSUME Inv, NEW r \in DOMAIN runs, Complete(r)
  PROVE  Inv'
<1> PICK c : c = runs[r].cv
  OBVIOUS
<1>1. /\ TypeInvariant /\ now \in Nat /\ runs[r] \in Run /\ c \in DOMAIN cvs
      /\ cvs[c] \in Cv /\ r \in Nat /\ r <= Len(runs)
  BY Rows DEF Inv
<1>2. PICK row \in Cv :
        /\ cvs' = [cvs EXCEPT ![c] = row]
        /\ row.extraction = "READY" /\ row.processingVersion = cvs[c].processingVersion
        /\ row.profile.run = r /\ row.profileVersion = cvs[c].profileVersion + 1
        /\ row.updatedAt = now
  <2> DEFINE row == CompletedRow(cvs[c], r)
  <2>1. cvs' = [cvs EXCEPT ![c] = row]
    BY <1>1, CompleteFields
  <2>2. /\ row \in Cv /\ row.extraction = "READY"
        /\ row.processingVersion = cvs[c].processingVersion
        /\ row.profile = [by |-> "AI", run |-> r, at |-> now]
        /\ row.profileVersion = cvs[c].profileVersion + 1 /\ row.updatedAt = now
    BY <1>1, CompletedRowFields
  <2> HIDE DEF row
  <2>3. row.profile.run = r
    BY <2>2
  <2> QED BY <2>1, <2>2, <2>3, Zenon
<1>3. PICK q \in Run :
        /\ runs' = [runs EXCEPT ![r] = q]
        /\ q.cv = c /\ q.processingVersion = runs[r].processingVersion
        /\ q.startedAt = runs[r].startedAt /\ q.answer = "READY" /\ q.status = "SUCCEEDED"
  <2> DEFINE q == [runs[r] EXCEPT !.status = "SUCCEEDED", !.answer = "READY"]
  <2>1. runs' = [runs EXCEPT ![r] = q]
    BY <1>1, CompleteFields
  <2>2. /\ q \in Run /\ q.cv = c /\ q.processingVersion = runs[r].processingVersion
        /\ q.startedAt = runs[r].startedAt /\ q.answer = "READY" /\ q.status = "SUCCEEDED"
    BY <1>1 DEF Run
  <2> QED BY <2>1, <2>2
<1>4. StillClaimed(r) /\ UNCHANGED <<now, application, seen, removal>>
  BY <1>1, CompleteFields
<1>5. row.profile.run <= Len(runs) /\ row.extraction \in {"READY", "FAILED", "NEEDS_MANUAL_INPUT"}
      /\ q.answer # "NONE" /\ q.status # "PROCESSING"
  BY <1>1, <1>2, <1>3
<1>6. Settles(r, c, row, q)
  BY <1>2, <1>3, <1>4, <1>5 DEF Settles
<1> QED BY <1>6, SettlingKeepsInv

\* A worker fails.
LEMMA FailKeepsInv ==
  ASSUME Inv, NEW r \in DOMAIN runs, NEW status \in {"FAILED", "NEEDS_MANUAL_INPUT"},
         Fail(r, status)
  PROVE  Inv'
<1> PICK c : c = runs[r].cv
  OBVIOUS
<1>1. /\ TypeInvariant /\ now \in Nat /\ runs[r] \in Run /\ c \in DOMAIN cvs
      /\ cvs[c] \in Cv /\ cvs[c].profile.run <= Len(runs)
  BY Rows DEF Inv
<1>2. PICK row \in Cv :
        /\ cvs' = [cvs EXCEPT ![c] = row]
        /\ row.extraction = status /\ row.processingVersion = cvs[c].processingVersion
        /\ row.profile = cvs[c].profile /\ row.profileVersion = cvs[c].profileVersion
        /\ row.approved = cvs[c].approved /\ row.updatedAt = now
  <2> DEFINE row == [cvs[c] EXCEPT !.extraction = status, !.updatedAt = now]
  <2>1. cvs' = [cvs EXCEPT ![c] = row]
    BY DEF Fail, Save
  <2>2. row \in Cv
    BY <1>1 DEF Cv, ExtractionStatus
  <2> QED BY <1>1, <2>1, <2>2 DEF Cv
<1>3. PICK q \in Run :
        /\ runs' = [runs EXCEPT ![r] = q]
        /\ q.cv = c /\ q.processingVersion = runs[r].processingVersion
        /\ q.startedAt = runs[r].startedAt /\ q.answer = "FAILED" /\ q.status # "PROCESSING"
  <2> DEFINE closed == CloseRun(runs[r], "FAILED")
             q == [closed EXCEPT !.answer = "FAILED"]
  <2>1. runs' = [runs EXCEPT ![r] = q]
    BY DEF Fail
  <2>2. /\ closed \in Run /\ closed.cv = c /\ closed.startedAt = runs[r].startedAt
        /\ closed.processingVersion = runs[r].processingVersion
        /\ closed.status # "PROCESSING"
    BY <1>1, ClosedRun
  <2> HIDE DEF closed
  <2>3. /\ q \in Run /\ q.cv = c /\ q.processingVersion = runs[r].processingVersion
        /\ q.startedAt = runs[r].startedAt /\ q.answer = "FAILED" /\ q.status # "PROCESSING"
    BY <2>2 DEF Run
  <2> QED BY <2>1, <2>3
<1>4. StillClaimed(r) /\ UNCHANGED <<now, application, seen, removal>>
  BY DEF Fail
<1>5. row.profile.run <= Len(runs) /\ row.extraction \in {"READY", "FAILED", "NEEDS_MANUAL_INPUT"}
      /\ row.extraction # "READY" /\ q.answer # "NONE"
  BY <1>1, <1>2, <1>3
<1>6. Settles(r, c, row, q)
  BY <1>1, <1>2, <1>3, <1>4, <1>5 DEF Settles
<1> QED BY <1>6, SettlingKeepsInv

\* A claim moves the CV to a version its earlier runs, all closed now, have not
\* and starts a run with it.
LEMMA ClaimingKeepsInv ==
  ASSUME Inv, NEW c \in DOMAIN cvs, NEW row \in Cv, cvs' = [cvs EXCEPT ![c] = row],
         row.extraction = "PROCESSING", row.updatedAt = now,
         row.profile = cvs[c].profile, row.approved = cvs[c].approved,
         row.profileVersion = cvs[c].profileVersion,
         NEW old \in Seq(Run), Len(old) = Len(runs),
         \A p \in DOMAIN runs :
           /\ old[p].cv = runs[p].cv /\ old[p].startedAt = runs[p].startedAt
           /\ old[p].processingVersion = runs[p].processingVersion
           /\ runs[p].cv # c => old[p] = runs[p]
           /\ runs[p].cv = c => /\ old[p].status # "PROCESSING"
                                /\ runs[p].processingVersion < row.processingVersion,
         NEW new \in Run, new = StartRun(c, row.processingVersion),
         runs' = Append(old, new),
         UNCHANGED <<now, application, seen, removal>>
  PROVE  Inv'
<1>1. /\ TypeInvariant /\ now \in Nat /\ DOMAIN runs = 1 .. Len(runs) /\ Len(runs) \in Nat
      /\ now' = now
  BY Rows DEF Inv
<1> PICK n \in Nat : n = Len(runs) + 1
  BY <1>1
<1>2. /\ runs' \in Seq(Run) /\ Len(runs') = n /\ DOMAIN runs' = DOMAIN runs \cup {n}
      /\ runs'[n] = new /\ \A p \in DOMAIN runs : p < n /\ runs'[p] = old[p]
  BY <1>1
<1>3. cvs'[c] = row
  BY <1>1, SavedRows
<1>4. /\ new.cv = c /\ new.processingVersion = row.processingVersion /\ new.startedAt = now
      /\ new.status = "PROCESSING"
  BY DEF StartRun
<1>5. ASSUME NEW p \in DOMAIN runs, runs[p].cv = c PROVE RunFits(p)' /\ ~Holds(p, c)'
  <2>1. /\ RunFits(p) /\ runs[p].startedAt \in Nat /\ cvs[c].updatedAt \in Nat
        /\ cvs[c].updatedAt <= now
        /\ runs[p].processingVersion \in Nat /\ row.processingVersion \in Nat
    BY <1>1, Rows DEF Inv, RunsFit, CvsFit, Cv
  <2>2. /\ runs'[p].cv = c /\ runs'[p].startedAt = runs[p].startedAt
        /\ runs'[p].processingVersion = runs[p].processingVersion
        /\ runs'[p].status # "PROCESSING"
        /\ runs[p].processingVersion < row.processingVersion
    BY <1>2, <1>5
  <2>3. runs[p].startedAt <= now
    BY <1>1, <1>5, <2>1 DEF RunFits
  <2> QED BY <1>3, <2>1, <2>2, <2>3 DEF RunFits, Working, Holds
<1>6. RunFits(n)' /\ Holds(n, c)'
  <2>1. row.processingVersion \in Nat
    BY DEF Cv
  <2> QED BY <1>1, <1>2, <1>3, <1>4, <2>1 DEF RunFits, Working, Holds
<1>7. CvFits(n, c)'
  <2>1. cvs[c].profile.run \in 0 .. Len(runs)
    BY <1>1, Rows
  <2>2. n > cvs[c].profile.run
    BY <1>1, <2>1
  <2> QED BY <1>3, <2>2 DEF CvFits
<1>8. RunsAreOrdered'
  <2> SUFFICES ASSUME NEW p \in DOMAIN runs', NEW q \in DOMAIN runs', p < q,
                      runs'[p].cv = runs'[q].cv
               PROVE  runs'[p].processingVersion < runs'[q].processingVersion
    BY DEF RunsAreOrdered
  <2>1. p \in DOMAIN runs
    BY <1>1, <1>2
  <2>2. CASE q \in DOMAIN runs
    <3>1. runs[p].cv = runs[q].cv
      BY <1>2, <2>1, <2>2
    <3>2. runs[p].processingVersion < runs[q].processingVersion
      BY <2>1, <2>2, <3>1 DEF Inv, RunsAreOrdered
    <3> QED BY <1>2, <2>1, <2>2, <3>2
  <2>3. CASE q = n
    <3>1. runs[p].cv = c
      BY <1>2, <1>4, <2>1, <2>3
    <3> QED BY <1>2, <1>4, <2>1, <2>3, <3>1
  <2> QED BY <1>2, <2>2, <2>3
<1>9. /\ \A p \in DOMAIN runs' : runs'[p].cv = c => RunFits(p)'
      /\ \A p \in DOMAIN runs' : Holds(p, c)' => CvFits(p, c)'
      /\ \E p \in DOMAIN runs' : Holds(p, c)'
  <2>1. ASSUME NEW p \in DOMAIN runs, runs'[p].cv = c PROVE RunFits(p)' /\ ~Holds(p, c)'
    BY <1>2, <1>5, <2>1
  <2>2. ASSUME NEW p \in DOMAIN runs, Holds(p, c)' PROVE FALSE
    BY <2>1, <2>2 DEF Holds
  <2> QED BY <1>2, <1>6, <1>7, <2>1, <2>2
<1>10. /\ \A p \in DOMAIN runs : /\ runs'[p].cv = runs[p].cv
                                 /\ runs[p].cv # c => runs'[p] = runs[p]
       /\ \A p \in DOMAIN runs' \ DOMAIN runs : runs'[p].cv = c
  BY <1>2, <1>4
<1>11. Len(runs) <= Len(runs') /\ row.profile.run <= Len(runs')
  BY <1>1, <1>2, Rows
<1> QED BY <1>2, <1>8, <1>9, <1>10, <1>11, SaveKeepsInv

\* The first claim.
LEMMA ClaimInitialKeepsInv ==
  ASSUME Inv, NEW c \in DOMAIN cvs, ClaimInitial(c)
  PROVE  Inv'
<1>1. /\ TypeInvariant /\ now \in Nat /\ runs \in Seq(Run) /\ cvs[c] \in Cv
      /\ cvs[c].processingVersion \in Nat /\ c \in Nat
  BY Rows DEF Inv, TypeInvariant
<1>2. \A p \in DOMAIN runs : runs[p].cv # c
  BY DEF ClaimInitial, Inv, RunsFit, RunFits
<1>3. PICK row \in Cv :
        /\ cvs' = [cvs EXCEPT ![c] = row]
        /\ row.extraction = "PROCESSING" /\ row.updatedAt = now
        /\ row.profile = cvs[c].profile /\ row.approved = cvs[c].approved
        /\ row.profileVersion = cvs[c].profileVersion
        /\ row.processingVersion = cvs[c].processingVersion
  <2> DEFINE row == [cvs[c] EXCEPT !.extraction = "PROCESSING", !.updatedAt = now]
  <2>1. cvs' = [cvs EXCEPT ![c] = row]
    BY DEF ClaimInitial, Save
  <2>2. row \in Cv
    BY <1>1 DEF Cv, ExtractionStatus
  <2> QED BY <1>1, <2>1, <2>2 DEF Cv
<1>4. PICK new \in Run : new = StartRun(c, row.processingVersion) /\ runs' = Append(runs, new)
  BY <1>1, <1>3 DEF ClaimInitial, StartRun, Run
<1>5. UNCHANGED <<now, application, seen, removal>>
  BY DEF ClaimInitial
<1> QED BY <1>1, <1>2, <1>3, <1>4, <1>5, ClaimingKeepsInv

\* The runs after a retry but for the new one.
ClosedRuns(c) ==
  [r \in DOMAIN runs |->
     IF runs[r].cv = c /\ cvs[c].extraction = "PROCESSING"
       THEN CloseRun(runs[r], "SUPERSEDED") ELSE runs[r]]

\* They are closed, if they are those of the CV.
LEMMA ClosedRunsFields ==
  ASSUME Inv, NEW c \in DOMAIN cvs
  PROVE  /\ ClosedRuns(c) \in Seq(Run) /\ Len(ClosedRuns(c)) = Len(runs)
         /\ DOMAIN ClosedRuns(c) = DOMAIN runs
         /\ \A p \in DOMAIN runs :
              /\ ClosedRuns(c)[p].cv = runs[p].cv
              /\ ClosedRuns(c)[p].startedAt = runs[p].startedAt
              /\ ClosedRuns(c)[p].processingVersion = runs[p].processingVersion
              /\ runs[p].cv # c => ClosedRuns(c)[p] = runs[p]
              /\ runs[p].cv = c =>
                   /\ ClosedRuns(c)[p].status # "PROCESSING"
                   /\ ClosedRuns(c)[p].status =
                        IF runs[p].status = "PROCESSING" THEN "SUPERSEDED" ELSE runs[p].status
<1>1. TypeInvariant /\ runs \in Seq(Run) /\ DOMAIN runs = 1 .. Len(runs) /\ Len(runs) \in Nat
  BY Rows DEF Inv, TypeInvariant
<1>2. ASSUME NEW p \in DOMAIN runs
      PROVE  /\ ClosedRuns(c)[p] \in Run
             /\ ClosedRuns(c)[p].cv = runs[p].cv
             /\ ClosedRuns(c)[p].startedAt = runs[p].startedAt
             /\ ClosedRuns(c)[p].processingVersion = runs[p].processingVersion
             /\ runs[p].cv # c => ClosedRuns(c)[p] = runs[p]
             /\ runs[p].cv = c =>
                  /\ ClosedRuns(c)[p].status # "PROCESSING"
                  /\ ClosedRuns(c)[p].status =
                       IF runs[p].status = "PROCESSING" THEN "SUPERSEDED" ELSE runs[p].status
  <2>1. runs[p] \in Run /\ RunFits(p)
    BY <1>1, Rows DEF Inv, RunsFit
  <2>2. CASE runs[p].cv = c /\ cvs[c].extraction = "PROCESSING"
    <3>1. ClosedRuns(c)[p] = CloseRun(runs[p], "SUPERSEDED")
      BY <2>2 DEF ClosedRuns
    <3> QED BY <2>1, <2>2, <3>1, ClosedRun
  <2>3. CASE ~(runs[p].cv = c /\ cvs[c].extraction = "PROCESSING")
    <3>1. ClosedRuns(c)[p] = runs[p]
      BY <2>3 DEF ClosedRuns
    <3>2. runs[p].cv = c => runs[p].status # "PROCESSING"
      BY <2>1, <2>3 DEF RunFits
    <3> QED BY <2>1, <2>3, <3>1, <3>2
  <2> QED BY <2>2, <2>3
<1>3. DOMAIN ClosedRuns(c) = 1 .. Len(runs) /\ ClosedRuns(c) = [p \in 1 .. Len(runs) |-> ClosedRuns(c)[p]]
  BY <1>1 DEF ClosedRuns
<1>4. ClosedRuns(c) \in Seq(Run) /\ Len(ClosedRuns(c)) = Len(runs)
  <2> DEFINE s == ClosedRuns(c)
  <2> HIDE DEF s
  <2>1. s = [p \in 1 .. Len(runs) |-> s[p]] /\ \A p \in 1 .. Len(runs) : s[p] \in Run
    BY <1>1, <1>2, <1>3 DEF s
  <2>2. s \in Seq(Run) /\ Len(s) = Len(runs)
    BY <1>1, <2>1
  <2> QED BY <2>2 DEF s
<1> QED BY <1>1, <1>2, <1>3, <1>4

\* A retry.
LEMMA ClaimRetryKeepsInv ==
  ASSUME Inv, NEW c \in DOMAIN cvs, ClaimRetry(c)
  PROVE  Inv'
<1>1. /\ TypeInvariant /\ now \in Nat /\ runs \in Seq(Run) /\ cvs[c] \in Cv
      /\ cvs[c].processingVersion \in Nat /\ c \in Nat
  BY Rows DEF Inv, TypeInvariant
<1>2. PICK version \in Nat : version = cvs[c].processingVersion + 1
  BY <1>1
<1>3. PICK row \in Cv :
        /\ cvs' = [cvs EXCEPT ![c] = row]
        /\ row.extraction = "PROCESSING" /\ row.updatedAt = now
        /\ row.profile = cvs[c].profile /\ row.approved = cvs[c].approved
        /\ row.profileVersion = cvs[c].profileVersion
        /\ row.processingVersion = version
  <2> DEFINE row == [cvs[c] EXCEPT !.extraction = "PROCESSING", !.processingVersion = version,
                                   !.updatedAt = now]
  <2>1. cvs' = [cvs EXCEPT ![c] = row]
    BY <1>2 DEF ClaimRetry, Save
  <2>2. row \in Cv
    BY <1>1, <1>2 DEF Cv, ExtractionStatus
  <2> QED BY <1>1, <2>1, <2>2 DEF Cv
<1>4. PICK new \in Run : /\ new = StartRun(c, row.processingVersion)
                         /\ runs' = Append(ClosedRuns(c), new)
  BY <1>1, <1>2, <1>3 DEF ClaimRetry, ClosedRuns, StartRun, Run
<1>5. PICK old : old = ClosedRuns(c)
  OBVIOUS
<1>6. \A p \in DOMAIN runs : runs[p].cv = c => runs[p].processingVersion < row.processingVersion
  BY <1>1, <1>2, <1>3, Rows DEF Inv, RunsFit, RunFits
<1>7. UNCHANGED <<now, application, seen, removal>>
  BY DEF ClaimRetry
<1>8. /\ old \in Seq(Run) /\ Len(old) = Len(runs) /\ runs' = Append(old, new)
      /\ \A p \in DOMAIN runs :
           /\ old[p].cv = runs[p].cv /\ old[p].startedAt = runs[p].startedAt
           /\ old[p].processingVersion = runs[p].processingVersion
           /\ runs[p].cv # c => old[p] = runs[p]
           /\ runs[p].cv = c => /\ old[p].status # "PROCESSING"
                                /\ runs[p].processingVersion < row.processingVersion
  BY <1>4, <1>5, <1>6, ClosedRunsFields
<1> QED BY <1>3, <1>4, <1>7, <1>8, ClaimingKeepsInv

-----------------------------------------------------------------------------
(* Every step.                                                             *)

\* Every step keeps the invariant.
LEMMA NextKeepsInv == Inv /\ [Next]_vars => Inv'
<1> SUFFICES ASSUME Inv, [Next]_vars PROVE Inv'
  OBVIOUS
<1>1. CASE Tick
  BY <1>1, TickKeepsInv
<1>2. CASE ApplicationMoves \/ \E c \in DOMAIN cvs : BeginRemove(c)
  BY <1>2, ApplicationKeepsInv
<1>3. CASE HrReads
  BY <1>3, HrReadsKeepsInv
<1>4. CASE Upload
  BY <1>4, UploadKeepsInv
<1>5. CASE EndRemove
  BY <1>5, EndRemoveKeepsInv
<1>6. CASE \E c \in DOMAIN cvs : ClaimInitial(c)
  BY <1>6, ClaimInitialKeepsInv
<1>7. CASE \E c \in DOMAIN cvs : ClaimRetry(c)
  BY <1>7, ClaimRetryKeepsInv
<1>8. CASE \E c \in DOMAIN cvs : UpdateProfile(c) \/ ApproveProfile(c)
  BY <1>8, EditsKeepInv
<1>9. CASE \E r \in DOMAIN runs : Complete(r)
  BY <1>9, CompleteKeepsInv
<1>10. CASE \E r \in DOMAIN runs, status \in {"FAILED", "NEEDS_MANUAL_INPUT"} : Fail(r, status)
  BY <1>10, FailKeepsInv
<1>11. CASE \E r \in DOMAIN runs :
              CompleteLate(r) \/ WorkFails(r) \/ FailLate(r) \/ FailIsLost(r) \/ WorkerDies(r)
  BY <1>11, MovesOfRuns, RunMovesKeepInv DEF Inv
<1>12. CASE UNCHANGED vars
  <2>1. SameRows /\ UNCHANGED <<now, seen>> /\ TypeInvariant'
    BY <1>12 DEF vars, application, SameRows, Inv, TypeInvariant
  <2> QED BY <2>1, SameRowsKeepInv, Rows DEF Inv
<1> QED BY <1>1, <1>2, <1>3, <1>4, <1>5, <1>6, <1>7, <1>8, <1>9, <1>10, <1>11, <1>12
        DEF Next, Worker

-----------------------------------------------------------------------------
(* Who writes a profile.                                                   *)

\* The profile of a CV, its approval and its version are what they were.
Untouched(c) ==
  /\ cvs'[c].profile = cvs[c].profile /\ cvs'[c].approved = cvs[c].approved
  /\ cvs'[c].profileVersion = cvs[c].profileVersion

\* Claims and failures leave every profile alone.
LEMMA WorkersLeaveProfiles ==
  ASSUME TypeInvariant, NEW c \in DOMAIN cvs,
         \/ ClaimInitial(c) \/ ClaimRetry(c)
         \/ \E r \in DOMAIN runs, status \in {"FAILED", "NEEDS_MANUAL_INPUT"} :
              c = runs[r].cv /\ Fail(r, status)
  PROVE  DOMAIN cvs' = DOMAIN cvs /\ \A d \in DOMAIN cvs : Untouched(d)
<1>1. cvs[c] \in Cv
  BY Rows
<1>2. CASE ClaimInitial(c)
  BY <1>1, <1>2 DEF ClaimInitial, Save, Cv, Untouched
<1>3. CASE ClaimRetry(c)
  <2>1. PICK version : Save(c, [cvs[c] EXCEPT !.extraction = "PROCESSING",
                                              !.processingVersion = version])
    BY <1>3 DEF ClaimRetry
  <2> QED BY <1>1, <2>1 DEF Save, Cv, Untouched
<1>4. ASSUME NEW r \in DOMAIN runs, NEW status, c = runs[r].cv, Fail(r, status)
      PROVE  DOMAIN cvs' = DOMAIN cvs /\ \A d \in DOMAIN cvs : Untouched(d)
  BY <1>1, <1>4 DEF Fail, Save, Cv, Untouched
<1> QED BY <1>2, <1>3, <1>4

\* What the edits of HR do.
LEMMA EditFields ==
  ASSUME TypeInvariant, NEW c \in DOMAIN cvs
  PROVE  /\ UpdateProfile(c) =>
              /\ DOMAIN cvs' = DOMAIN cvs
              /\ cvs'[c].profile = [by |-> "HR", run |-> Len(runs), at |-> now]
              /\ ~cvs[c].approved
         /\ ApproveProfile(c) =>
              /\ DOMAIN cvs' = DOMAIN cvs
              /\ cvs'[c].profile = cvs[c].profile /\ ~cvs[c].approved
         /\ UpdateProfile(c) \/ ApproveProfile(c) =>
              /\ runs' = runs /\ \A d \in DOMAIN cvs \ {c} : Untouched(d)
<1>1. cvs[c] \in Cv
  BY Rows
<1>2. ASSUME UpdateProfile(c)
      PROVE  /\ DOMAIN cvs' = DOMAIN cvs
             /\ cvs'[c].profile = [by |-> "HR", run |-> Len(runs), at |-> now]
             /\ \A d \in DOMAIN cvs \ {c} : Untouched(d)
             /\ ~cvs[c].approved /\ runs' = runs
  BY <1>1, <1>2 DEF UpdateProfile, MayEdit, Save, Cv, Untouched
<1>3. ASSUME ApproveProfile(c)
      PROVE  /\ DOMAIN cvs' = DOMAIN cvs
             /\ cvs'[c].profile = cvs[c].profile
             /\ \A d \in DOMAIN cvs \ {c} : Untouched(d)
             /\ ~cvs[c].approved /\ runs' = runs
  BY <1>1, <1>3 DEF ApproveProfile, MayEdit, Save, Cv, Untouched
<1> QED BY <1>2, <1>3

\* A completed run touches no other CV.
LEMMA CompleteTouches ==
  ASSUME TypeInvariant, NEW r \in DOMAIN runs, Complete(r)
  PROVE  /\ DOMAIN cvs' = DOMAIN cvs
         /\ cvs'[runs[r].cv].profile = [by |-> "AI", run |-> r, at |-> now]
         /\ \A d \in DOMAIN cvs \ {runs[r].cv} : Untouched(d)
<1>1. /\ runs[r].cv \in DOMAIN cvs /\ cvs[runs[r].cv] \in Cv /\ r \in Nat /\ now \in Nat
  BY Rows
<1>2. cvs' = [cvs EXCEPT ![runs[r].cv] = CompletedRow(cvs[runs[r].cv], r)]
  BY CompleteFields
<1>3. CompletedRow(cvs[runs[r].cv], r).profile = [by |-> "AI", run |-> r, at |-> now]
  BY <1>1, CompletedRowFields
<1> QED BY <1>1, <1>2, <1>3 DEF Untouched

\* All other steps leave the profiles alone.
LEMMA ProfilesMove ==
  ASSUME Inv, [Next]_vars, NEW c \in DOMAIN cvs
  PROVE  \/ Untouched(c)
         \/ UpdateProfile(c) \/ ApproveProfile(c)
         \/ \E r \in DOMAIN runs : runs[r].cv = c /\ Complete(r)
<1>1. TypeInvariant
  BY DEF Inv
<1>2. CASE UNCHANGED cvs
  BY <1>2 DEF Untouched
<1>3. CASE Upload
  <2>1. \E row : cvs' = Append(cvs, row)
    BY <1>3 DEF Upload
  <2>2. cvs \in Seq(Cv) /\ c \in 1 .. Len(cvs)
    BY <1>1 DEF TypeInvariant
  <2> QED BY <2>1, <2>2 DEF Untouched
<1>4. CASE EndRemove
  <2>1. cvs' = [cvs EXCEPT ![removal.cv].deleted = TRUE] /\ cvs[c] \in Cv
    BY <1>1, <1>4, Rows DEF EndRemove
  <2> QED BY <2>1 DEF Untouched, Cv
<1>5. CASE \E d \in DOMAIN cvs : ClaimInitial(d) \/ ClaimRetry(d)
  BY <1>1, <1>5, WorkersLeaveProfiles
<1>6. CASE \E r \in DOMAIN runs, status \in {"FAILED", "NEEDS_MANUAL_INPUT"} : Fail(r, status)
  BY <1>1, <1>6, WorkersLeaveProfiles, Rows
<1>7. CASE \E d \in DOMAIN cvs : UpdateProfile(d) \/ ApproveProfile(d)
  BY <1>1, <1>7, EditFields
<1>8. CASE \E r \in DOMAIN runs : Complete(r)
  BY <1>1, <1>8, CompleteTouches
<1> QED
  BY <1>2, <1>3, <1>4, <1>5, <1>6, <1>7, <1>8
     DEF Next, Worker, vars, Tick, ApplicationMoves, HrReads, BeginRemove, CompleteLate,
         WorkFails, FailLate, FailIsLost, WorkerDies

-----------------------------------------------------------------------------
(* The theorems.                                                           *)

\* The inductive invariant.
THEOREM InvariantHolds == Spec => []Inv
BY InitInv, NextKeepsInv, PTL DEF Spec

\* A CV and its runs tell one story: a run in processing owns its CV alone, a
\* CV is ready through the newest of its runs, and the version HR sends names
\* the profile HR read.
THEOREM CvAlwaysConsistent == Spec => []CvConsistent
<1>1. ASSUME Inv PROVE CvConsistent
  <2>1. TypeInvariant /\ DOMAIN runs = 1 .. Len(runs) /\ Len(runs) \in Nat
    BY <1>1, Rows DEF Inv
  <2>2. ProcessingRunOwnsCv
    <3> SUFFICES ASSUME NEW r \in DOMAIN runs, runs[r].status = "PROCESSING"
                 PROVE  /\ cvs[runs[r].cv].extraction = "PROCESSING"
                        /\ cvs[runs[r].cv].processingVersion = runs[r].processingVersion
                        /\ \A q \in DOMAIN runs \ {r} :
                             runs[q].cv = runs[r].cv => runs[q].status # "PROCESSING"
      BY DEF ProcessingRunOwnsCv
    <3>1. RunFits(r)
      BY <1>1 DEF Inv, RunsFit
    <3>2. ASSUME NEW q \in DOMAIN runs \ {r}, runs[q].cv = runs[r].cv,
                 runs[q].status = "PROCESSING"
          PROVE  FALSE
      <4>1. RunFits(q)
        BY <1>1 DEF Inv, RunsFit
      <4>2. runs[q].processingVersion = runs[r].processingVersion
        BY <3>1, <3>2, <4>1 DEF RunFits
      <4>3. r < q \/ q < r
        BY <2>1
      <4>4. runs[r].processingVersion \in Nat
        BY <2>1, Rows
      <4> QED BY <1>1, <3>2, <4>2, <4>3, <4>4 DEF Inv, RunsAreOrdered
    <3> QED BY <3>1, <3>2 DEF RunFits
  <2>3. ReadyIsFromNewestRun
    <3> SUFFICES ASSUME NEW c \in DOMAIN cvs, cvs[c].extraction = "READY"
                 PROVE  \E r \in DOMAIN runs :
                          /\ runs[r].cv = c /\ runs[r].status = "SUCCEEDED"
                          /\ \A q \in DOMAIN runs : runs[q].cv = c => q <= r
                          /\ cvs[c].profile.by = "AI" => cvs[c].profile.run = r
      BY DEF ReadyIsFromNewestRun
    <3>1. PICK r \in DOMAIN runs : Holds(r, c)
      BY <1>1 DEF Inv, CvsFit
    <3>2. CvFits(r, c)
      BY <1>1, <3>1 DEF Inv, CvsFit
    <3>3. ASSUME NEW q \in DOMAIN runs, runs[q].cv = c PROVE q <= r
      <4> SUFFICES ASSUME r < q PROVE FALSE
        BY <2>1
      <4>1. runs[r].processingVersion < runs[q].processingVersion
        BY <1>1, <3>1, <3>3 DEF Inv, RunsAreOrdered, Holds
      <4>2. /\ runs[q].processingVersion <= cvs[c].processingVersion
            /\ runs[r].processingVersion = cvs[c].processingVersion
            /\ runs[q].processingVersion \in Nat /\ cvs[c].processingVersion \in Nat
        BY <1>1, <2>1, <3>1, <3>3, Rows DEF Inv, RunsFit, RunFits, Holds
      <4> QED BY <4>1, <4>2
    <3> QED BY <3>1, <3>2, <3>3 DEF CvFits, Holds
  <2> QED BY <1>1, <2>1, <2>2, <2>3 DEF CvConsistent, Inv, SeenFits
<1> QED BY <1>1, InvariantHolds, PTL

\* No worker takes back what HR has said of a profile: an approved one stays as
\* it is, and an edited one gives way to a newer or an overdue run only.
THEOREM HrsWordAlwaysStands == Spec => HrsWordStands
<1> DEFINE Frozen == \A c \in DOMAIN cvs : cvs[c].approved =>
                       /\ cvs'[c].approved
                       /\ cvs'[c].profile = cvs[c].profile
                       /\ cvs'[c].profileVersion = cvs[c].profileVersion
           Kept(c) == cvs[c].profile.by = "HR" /\ cvs'[c].profile.by = "AI" =>
                        \/ cvs'[c].profile.run > cvs[c].profile.run
                        \/ cvs[c].profile.at - runs[cvs'[c].profile.run].startedAt > StaleAfter
<1>1. ASSUME Inv, [Next]_vars PROVE Frozen
  <2>1. TypeInvariant
    BY <1>1 DEF Inv
  <2> QED BY <1>1, <2>1, ProfilesMove, EditFields, CompleteFields DEF Untouched
<1>2. ASSUME Inv, [Next]_vars PROVE \A c \in DOMAIN cvs : Kept(c)
  <2> SUFFICES ASSUME NEW c \in DOMAIN cvs, cvs[c].profile.by = "HR",
                      cvs'[c].profile.by = "AI"
               PROVE  \/ cvs'[c].profile.run > cvs[c].profile.run
                      \/ cvs[c].profile.at - runs[cvs'[c].profile.run].startedAt > StaleAfter
    OBVIOUS
  <2>1. TypeInvariant
    BY <1>2 DEF Inv
  <2>2. PICK r \in DOMAIN runs : runs[r].cv = c /\ Complete(r)
    BY <1>2, <2>1, ProfilesMove, EditFields DEF Untouched
  <2>3. cvs'[c].profile.run = r
    <3>1. cvs'[c].profile = [by |-> "AI", run |-> r, at |-> now]
      BY <2>1, <2>2, CompleteTouches
    <3> QED BY <3>1
  <2>4. StillClaimed(r)
    BY <2>1, <2>2, CompleteFields
  <2>5. CvFits(r, c) /\ cvs[c].extraction = "PROCESSING"
    BY <1>2, <2>2, <2>4 DEF Inv, CvsFit, StillClaimed, Holds
  <2> QED BY <2>3, <2>5 DEF CvFits
<1>3. Spec => [][\A c \in DOMAIN cvs : Kept(c)]_vars
  BY <1>2, InvariantHolds, PTL DEF Spec
<1>4. Spec => [][Frozen]_vars
  BY <1>1, InvariantHolds, PTL DEF Spec
<1> QED BY <1>3, <1>4 DEF HrsWordStands, ApprovedProfileIsFrozen, EditsLoseOnlyToOverdueRuns

-----------------------------------------------------------------------------
(* The refinement of AiJobs.                                               *)

\* The jobs and the results AiJobs sees.
jobsNow == [r \in DOMAIN runs |-> [of |-> runs[r].cv, status |-> runs[r].status]]
Shown(profile) == IF profile.by = "AI" THEN profile.run ELSE 0
resultNow == [c \in DOMAIN cvs |-> Shown(cvs[c].profile)]

\* They are sequences.
LEMMA LedgerTypes ==
  ASSUME TypeInvariant
  PROVE  /\ jobsNow \in Seq([of : Nat, status : {"PROCESSING", "SUCCEEDED", "FAILED", "SUPERSEDED"}])
         /\ Len(jobsNow) = Len(runs) /\ DOMAIN jobsNow = DOMAIN runs
         /\ resultNow \in Seq(Nat)
         /\ Len(resultNow) = Len(cvs) /\ DOMAIN resultNow = DOMAIN cvs
<1>1. \A r \in DOMAIN runs :
        [of |-> runs[r].cv, status |-> runs[r].status] \in
          [of : Nat, status : {"PROCESSING", "SUCCEEDED", "FAILED", "SUPERSEDED"}]
  <2>1. \A r \in DOMAIN runs : runs[r].cv \in Nat
    BY Rows
  <2> QED BY <2>1, Rows
<1>2. \A c \in DOMAIN cvs : Shown(cvs[c].profile) \in Nat
  BY Rows DEF Shown
<1>3. DOMAIN runs = 1 .. Len(runs) /\ Len(runs) \in Nat
      /\ DOMAIN cvs = 1 .. Len(cvs) /\ Len(cvs) \in Nat
  BY Rows
<1>4. jobsNow \in Seq([of : Nat, status : {"PROCESSING", "SUCCEEDED", "FAILED", "SUPERSEDED"}]) /\ Len(jobsNow) = Len(runs)
  <2> DEFINE S == [of : Nat, status : {"PROCESSING", "SUCCEEDED", "FAILED", "SUPERSEDED"}]
             f(r) == [of |-> runs[r].cv, status |-> runs[r].status]
  <2>1. jobsNow = [r \in 1 .. Len(runs) |-> f(r)] /\ \A r \in 1 .. Len(runs) : f(r) \in S
    BY <1>1, <1>3 DEF jobsNow
  <2> HIDE DEF S, f
  <2>2. jobsNow \in Seq(S) /\ Len(jobsNow) = Len(runs)
    BY <1>3, <2>1
  <2> QED BY <2>2 DEF S
<1>5. resultNow \in Seq(Nat) /\ Len(resultNow) = Len(cvs)
  <2> DEFINE g(c) == Shown(cvs[c].profile)
  <2>1. resultNow = [c \in 1 .. Len(cvs) |-> g(c)] /\ \A c \in 1 .. Len(cvs) : g(c) \in Nat
    BY <1>2, <1>3 DEF resultNow
  <2> HIDE DEF g
  <2> QED BY <1>3, <2>1
<1> QED BY <1>3, <1>4, <1>5 DEF jobsNow, resultNow

\* The results stay when every profile does.
LEMMA ResultStays ==
  ASSUME DOMAIN cvs' = DOMAIN cvs, \A c \in DOMAIN cvs : cvs'[c].profile = cvs[c].profile
  PROVE  resultNow' = resultNow
BY DEF resultNow

\* The jobs stay when every run has the same CV and status.
LEMMA JobsStay ==
  ASSUME DOMAIN runs' = DOMAIN runs,
         \A r \in DOMAIN runs : runs'[r].cv = runs[r].cv /\ runs'[r].status = runs[r].status
  PROVE  jobsNow' = jobsNow
BY DEF jobsNow

\* A run that takes another status does so in the ledger.
LEMMA JobSettles ==
  ASSUME NEW r \in DOMAIN runs, NEW status, DOMAIN runs' = DOMAIN runs,
         runs'[r].cv = runs[r].cv, runs'[r].status = status,
         \A p \in DOMAIN runs \ {r} : runs'[p] = runs[p]
  PROVE  jobsNow' = [jobsNow EXCEPT ![r].status = status]
BY DEF jobsNow

\* The steps of AiJobs, of the jobs and results it sees.
LEMMA LedgerSteps ==
  /\ UNCHANGED <<jobsNow, resultNow>> => UNCHANGED Jobs!ledger
  /\ \A r \in DOMAIN runs, status \in {"FAILED", "SUPERSEDED"} :
       /\ jobsNow[r].status = "PROCESSING"
       /\ jobsNow' = [jobsNow EXCEPT ![r].status = status] /\ resultNow' = resultNow
       => Jobs!Next
  /\ \A r \in DOMAIN runs :
       /\ jobsNow[r].status = "PROCESSING"
       /\ \A q \in DOMAIN jobsNow : jobsNow[q].of = jobsNow[r].of => q <= r
       /\ jobsNow' = [jobsNow EXCEPT ![r].status = "SUCCEEDED"]
       /\ resultNow' = [resultNow EXCEPT ![jobsNow[r].of] = r]
       => Jobs!Next
  /\ \A c \in DOMAIN cvs :
       resultNow' = [resultNow EXCEPT ![c] = 0] /\ jobsNow' = jobsNow => Jobs!Next
  /\ resultNow' = Append(resultNow, 0) /\ jobsNow' = jobsNow => Jobs!Next
  /\ \A c \in DOMAIN cvs :
       /\ c \in 1 .. Len(resultNow) + 1
       /\ jobsNow' = Append([r \in DOMAIN jobsNow |->
                               IF jobsNow[r].of = c /\ jobsNow[r].status = "PROCESSING"
                                 THEN [jobsNow[r] EXCEPT !.status = "SUPERSEDED"] ELSE jobsNow[r]],
                            [of |-> c, status |-> "PROCESSING"])
       /\ resultNow' = resultNow
       => Jobs!Next
<1>1. DOMAIN jobsNow = DOMAIN runs /\ DOMAIN resultNow = DOMAIN cvs
  BY DEF jobsNow, resultNow
<1>2. UNCHANGED <<jobsNow, resultNow>> => UNCHANGED Jobs!ledger
  BY DEF Jobs!ledger, jobsNow, resultNow, Shown
<1>3. Jobs!Next <=>
        \/ /\ \E shown \in {0} \cup {resultNow[a] : a \in DOMAIN resultNow} :
                resultNow' = Append(resultNow, shown)
           /\ UNCHANGED jobsNow
        \/ \E a \in 1 .. Len(resultNow) + 1 :
             /\ jobsNow' = Append([r \in DOMAIN jobsNow |->
                               IF jobsNow[r].of = a /\ jobsNow[r].status = "PROCESSING"
                                 THEN [jobsNow[r] EXCEPT !.status = "SUPERSEDED"] ELSE jobsNow[r]],
                            [of |-> a, status |-> "PROCESSING"])
             /\ resultNow' = IF a \in DOMAIN resultNow THEN resultNow ELSE Append(resultNow, 0)
        \/ \E r \in DOMAIN jobsNow :
             \/ /\ jobsNow[r].status = "PROCESSING"
                /\ \A q \in DOMAIN jobsNow : jobsNow[q].of = jobsNow[r].of => q <= r
                /\ jobsNow' = [jobsNow EXCEPT ![r].status = "SUCCEEDED"]
                /\ resultNow' = [resultNow EXCEPT ![jobsNow[r].of] = r]
             \/ /\ jobsNow[r].status = "PROCESSING"
                /\ \E status \in {"FAILED", "SUPERSEDED"} :
                     jobsNow' = [jobsNow EXCEPT ![r].status = status]
                /\ UNCHANGED resultNow
        \/ \E a \in DOMAIN resultNow :
             resultNow' = [resultNow EXCEPT ![a] = 0] /\ UNCHANGED jobsNow
  BY DEF Jobs!Next, Jobs!Add, Jobs!Start, Jobs!TakenOver, Jobs!IsNewest, Jobs!Succeed,
         Jobs!GiveUp, Jobs!Replace, jobsNow, resultNow, Shown
<1> QED BY <1>1, <1>2, <1>3, Zenon

\* Whatever a step leaves of the profiles and the runs, it is one of AiJobs or
\* none: the steps of the runs.
LEMMA RunsFollow ==
  ASSUME TypeInvariant, NEW r \in DOMAIN runs, NEW q, RunMoves(r, q),
         UNCHANGED cvs
  PROVE  Jobs!Next \/ UNCHANGED Jobs!ledger
<1>1. resultNow' = resultNow
  BY ResultStays
<1>2. /\ DOMAIN runs' = DOMAIN runs /\ runs'[r] = q
      /\ \A p \in DOMAIN runs \ {r} : runs'[p] = runs[p]
      /\ runs'[r].cv = runs[r].cv
  BY MovedRuns
<1>3. CASE q.status = runs[r].status
  <2>1. jobsNow' = jobsNow
    BY <1>2, <1>3, JobsStay
  <2> QED BY <1>1, <2>1, LedgerSteps
<1>4. CASE runs[r].status = "PROCESSING" /\ q.status \in {"FAILED", "SUPERSEDED"}
  <2>1. jobsNow' = [jobsNow EXCEPT ![r].status = q.status]
    BY <1>2, JobSettles
  <2>2. jobsNow[r].status = "PROCESSING"
    BY <1>4 DEF jobsNow
  <2> QED BY <1>1, <1>4, <2>1, <2>2, LedgerSteps
<1> QED BY <1>3, <1>4 DEF RunMoves

\* A failure of a worker.
LEMMA FailFollows ==
  ASSUME TypeInvariant, NEW r \in DOMAIN runs, NEW status \in {"FAILED", "NEEDS_MANUAL_INPUT"},
         Fail(r, status)
  PROVE  Jobs!Next \/ UNCHANGED Jobs!ledger
<1> DEFINE closed == CloseRun(runs[r], "FAILED")
           q == [closed EXCEPT !.answer = "FAILED"]
<1>1. resultNow' = resultNow
  BY WorkersLeaveProfiles, ResultStays, Rows DEF Untouched
<1>2. runs' = [runs EXCEPT ![r] = q] /\ runs[r] \in Run
  BY Rows DEF Fail
<1>3. /\ closed \in Run /\ closed.cv = runs[r].cv
      /\ closed.processingVersion = runs[r].processingVersion
      /\ closed.startedAt = runs[r].startedAt
      /\ \/ closed.status = runs[r].status
         \/ runs[r].status = "PROCESSING" /\ closed.status = "FAILED"
  BY <1>2, ClosedRun
<1> HIDE DEF closed
<1>4. RunMoves(r, q)
  BY <1>2, <1>3 DEF RunMoves, Run
<1>5. /\ DOMAIN runs' = DOMAIN runs /\ runs'[r] = q
      /\ \A p \in DOMAIN runs \ {r} : runs'[p] = runs[p]
      /\ runs'[r].cv = runs[r].cv
  BY <1>4, MovedRuns
<1> HIDE DEF q
<1>6. CASE q.status = runs[r].status
  <2>1. jobsNow' = jobsNow
    BY <1>5, <1>6, JobsStay
  <2> QED BY <1>1, <2>1, LedgerSteps
<1>7. CASE runs[r].status = "PROCESSING" /\ q.status \in {"FAILED", "SUPERSEDED"}
  <2>1. jobsNow' = [jobsNow EXCEPT ![r].status = q.status]
    BY <1>5, JobSettles
  <2>2. jobsNow[r].status = "PROCESSING"
    BY <1>7 DEF jobsNow
  <2> QED BY <1>1, <1>7, <2>1, <2>2, LedgerSteps
<1> QED BY <1>4, <1>6, <1>7 DEF RunMoves

\* A completed run was the newest of its CV, and in processing.
LEMMA CompleteFollows ==
  ASSUME Inv, NEW r \in DOMAIN runs, Complete(r)
  PROVE  Jobs!Next
<1> PICK c : c = runs[r].cv
  OBVIOUS
<1>1. /\ TypeInvariant /\ StillClaimed(r) /\ Working(r) /\ runs[r] \in Run
      /\ \A p \in DOMAIN runs : p \in Nat
  <2>1. TypeInvariant
    BY DEF Inv
  <2>2. StillClaimed(r) /\ Working(r)
    BY <2>1, CompleteFields
  <2>3. runs[r] \in Run /\ \A p \in DOMAIN runs : p \in Nat
    BY <2>1, Rows
  <2> QED BY <2>1, <2>2, <2>3
<1>2. /\ c \in DOMAIN cvs /\ runs[r].status = "PROCESSING"
      /\ \A p \in DOMAIN runs \ {r} : runs[p].cv = c => p < r
  BY <1>1, ClaimIsNewest
<1>3. \A q \in DOMAIN jobsNow : jobsNow[q].of = jobsNow[r].of => q <= r
  <2> SUFFICES ASSUME NEW q \in DOMAIN runs, runs[q].cv = c PROVE q <= r
    BY DEF jobsNow
  <2> QED BY <1>1, <1>2
<1>4. jobsNow' = [jobsNow EXCEPT ![r].status = "SUCCEEDED"]
  <2> DEFINE q == [runs[r] EXCEPT !.status = "SUCCEEDED", !.answer = "READY"]
  <2>1. runs' = [runs EXCEPT ![r] = q] /\ q.status = "SUCCEEDED" /\ q.cv = runs[r].cv
    BY <1>1, CompleteFields DEF Run
  <2> HIDE DEF q
  <2> QED BY <2>1, JobSettles
<1>5. resultNow' = [resultNow EXCEPT ![jobsNow[r].of] = r]
  <2>1. jobsNow[r].of = c
    BY DEF jobsNow
  <2>2. /\ DOMAIN cvs' = DOMAIN cvs
        /\ cvs'[c].profile = [by |-> "AI", run |-> r, at |-> now]
        /\ \A d \in DOMAIN cvs \ {c} : cvs'[d].profile = cvs[d].profile
    BY <1>1, CompleteTouches DEF Untouched
  <2>3. Shown(cvs'[c].profile) = r
    BY <2>2 DEF Shown
  <2> QED BY <1>2, <2>1, <2>2, <2>3 DEF resultNow
<1>6. jobsNow[r].status = "PROCESSING"
  BY <1>2 DEF jobsNow
<1> QED BY <1>3, <1>4, <1>5, <1>6, LedgerSteps

\* A claim starts a job; a retry of a stale extraction takes over from the one
\* in progress.
LEMMA ClaimFollows ==
  ASSUME Inv, NEW c \in DOMAIN cvs, ClaimInitial(c) \/ ClaimRetry(c)
  PROVE  Jobs!Next
<1>1. /\ TypeInvariant /\ DOMAIN cvs = 1 .. Len(cvs) /\ runs \in Seq(Run)
      /\ DOMAIN runs = 1 .. Len(runs) /\ Len(runs) \in Nat
  BY Rows DEF Inv, TypeInvariant
<1>2. PICK old \in Seq(Run), version \in Nat :
        /\ Len(old) = Len(runs)
        /\ runs' = Append(old, StartRun(c, version))
        /\ \A p \in DOMAIN runs :
             /\ old[p].cv = runs[p].cv
             /\ runs[p].cv # c => old[p] = runs[p]
             /\ runs[p].cv = c => old[p].status =
                  IF runs[p].status = "PROCESSING" THEN "SUPERSEDED" ELSE runs[p].status
  <2>1. CASE ClaimInitial(c)
    <3>1. \A p \in DOMAIN runs : runs[p].cv # c
      BY <2>1 DEF ClaimInitial, Inv, RunsFit, RunFits
    <3>2. cvs[c].processingVersion \in Nat
      BY <1>1, Rows
    <3> QED BY <1>1, <2>1, <3>1, <3>2 DEF ClaimInitial
  <2>2. CASE ClaimRetry(c)
    <3>1. PICK version \in Nat : version = cvs[c].processingVersion + 1
      BY <1>1, Rows
    <3>2. runs' = Append(ClosedRuns(c), StartRun(c, version))
      BY <2>2, <3>1 DEF ClaimRetry, ClosedRuns
    <3>3. PICK old : old = ClosedRuns(c)
      OBVIOUS
    <3> QED BY <3>2, <3>3, ClosedRunsFields
  <2> QED BY <2>1, <2>2
<1>3. resultNow' = resultNow
  BY <1>1, WorkersLeaveProfiles, ResultStays DEF Untouched
<1> DEFINE job == [of |-> c, status |-> "PROCESSING"]
           taken == [r \in DOMAIN jobsNow |->
                       IF jobsNow[r].of = c /\ jobsNow[r].status = "PROCESSING"
                         THEN [jobsNow[r] EXCEPT !.status = "SUPERSEDED"] ELSE jobsNow[r]]
<1>4. jobsNow' = Append(taken, job)
  <2>1. /\ Len(runs') = Len(runs) + 1 /\ DOMAIN runs' = 1 .. Len(runs) + 1
        /\ runs'[Len(runs) + 1] = StartRun(c, version)
        /\ \A p \in DOMAIN runs : runs'[p] = old[p]
    <3>1. StartRun(c, version) \in Run
      BY <1>1, Rows DEF StartRun, Run
    <3> QED BY <1>1, <1>2, <3>1
  <2>2. \A p \in DOMAIN runs :
          [of |-> runs'[p].cv, status |-> runs'[p].status] =
            IF runs[p].cv = c /\ runs[p].status = "PROCESSING"
              THEN [of |-> runs[p].cv, status |-> "SUPERSEDED"]
              ELSE [of |-> runs[p].cv, status |-> runs[p].status]
    BY <1>2, <2>1
  <2>3. taken = [p \in 1 .. Len(runs) |-> [of |-> runs'[p].cv, status |-> runs'[p].status]]
    BY <1>1, <2>2 DEF jobsNow
  <2>4. [of |-> runs'[Len(runs) + 1].cv, status |-> runs'[Len(runs) + 1].status] = job
    BY <2>1 DEF StartRun
  <2>5. jobsNow' = [p \in 1 .. Len(runs) + 1 |-> [of |-> runs'[p].cv, status |-> runs'[p].status]]
    BY <2>1 DEF jobsNow
  <2>6. PICK n \in Nat : n = Len(runs)
    BY <1>1
  <2> PICK f : f = [p \in 1 .. n + 1 |-> [of |-> runs'[p].cv, status |-> runs'[p].status]]
    OBVIOUS
  <2>7. taken = [p \in 1 .. n |-> f[p]] /\ f[n + 1] = job /\ jobsNow' = f
    BY <2>3, <2>4, <2>5, <2>6
  <2> HIDE DEF taken, job
  <2>8. \A p \in 1 .. n : f[p] = taken[p]
    BY <2>7
  <2>9. DOMAIN taken = 1 .. n /\ Len(taken) = n
    BY <2>6, <2>7
  <2> QED BY <2>6, <2>7, <2>8, <2>9
<1>5. c \in 1 .. Len(resultNow) + 1
  BY <1>1, LedgerTypes, Rows
<1> QED BY <1>3, <1>4, <1>5, LedgerSteps

\* The runs follow AiJobs: each settles once, a retry takes over from the run in
\* progress, and only the newest run of a CV puts its profile there.
THEOREM RunsAlwaysFollowAiJobs == Spec => FollowsAiJobs
<1>1. Init => Jobs!Init
  BY DEF Init, Jobs!Init
<1>2. ASSUME Inv, [Next]_vars PROVE Jobs!Next \/ UNCHANGED Jobs!ledger
  <2>1. TypeInvariant /\ resultNow \in Seq(Nat) /\ DOMAIN cvs = DOMAIN resultNow
    BY <1>2, LedgerTypes DEF Inv
  <2>2. CASE UNCHANGED <<cvs, runs>>
    BY <2>2, LedgerSteps DEF jobsNow, resultNow
  <2>3. CASE Upload
    <3>1. PICK row : row.profile = NoProfile /\ cvs' = Append(cvs, row)
      BY <2>3 DEF Upload
    <3>2. cvs \in Seq(Cv) /\ DOMAIN cvs = 1 .. Len(cvs) /\ Len(cvs) \in Nat
      BY <2>1 DEF TypeInvariant
    <3>3. PICK n \in Nat : n = Len(cvs)
      BY <3>2
    <3>4. /\ DOMAIN cvs' = 1 .. n + 1 /\ cvs'[n + 1] = row
          /\ \A c \in 1 .. n : cvs'[c] = cvs[c]
      BY <3>1, <3>2, <3>3
    <3>5. PICK f : f = [c \in 1 .. n + 1 |-> Shown(cvs'[c].profile)]
      OBVIOUS
    <3>6. resultNow' = f /\ resultNow = [c \in 1 .. n |-> f[c]] /\ f[n + 1] = 0
      BY <3>1, <3>2, <3>3, <3>4, <3>5 DEF resultNow, Shown, NoProfile
    <3>7. Len(resultNow) = n /\ resultNow \in Seq(Nat)
      BY <2>1, <3>3, LedgerTypes
    <3>8. resultNow' = Append(resultNow, 0)
      BY <3>5, <3>6, <3>7
    <3>9. jobsNow' = jobsNow
      BY <2>3, JobsStay DEF Upload
    <3> QED BY <3>8, <3>9, LedgerSteps
  <2>4. CASE EndRemove
    <3>1. cvs' = [cvs EXCEPT ![removal.cv].deleted = TRUE] /\ runs' = runs
      BY <2>4 DEF EndRemove
    <3>2. \A c \in DOMAIN cvs : cvs[c] \in Cv
      BY <2>1, Rows
    <3>3. resultNow' = resultNow
      BY <3>1, <3>2, ResultStays DEF Cv
    <3>4. jobsNow' = jobsNow
      BY <3>1, JobsStay
    <3> QED BY <3>3, <3>4, LedgerSteps
  <2>5. CASE \E c \in DOMAIN cvs : ClaimInitial(c) \/ ClaimRetry(c)
    BY <1>2, <2>5, ClaimFollows
  <2>6. CASE \E r \in DOMAIN runs, status \in {"FAILED", "NEEDS_MANUAL_INPUT"} : Fail(r, status)
    BY <2>1, <2>6, FailFollows
  <2>7. CASE \E r \in DOMAIN runs : Complete(r)
    BY <1>2, <2>7, CompleteFollows
  <2>8. CASE \E r \in DOMAIN runs :
              CompleteLate(r) \/ WorkFails(r) \/ FailLate(r) \/ FailIsLost(r) \/ WorkerDies(r)
    BY <2>1, <2>8, MovesOfRuns, RunsFollow
  <2>9. ASSUME NEW c \in DOMAIN cvs, UpdateProfile(c) \/ ApproveProfile(c)
        PROVE  Jobs!Next \/ UNCHANGED Jobs!ledger
    <3>1. jobsNow' = jobsNow
      BY <2>1, <2>9, EditFields, JobsStay
    <3>2. CASE UpdateProfile(c)
      <4>1. resultNow' = [resultNow EXCEPT ![c] = 0]
        <5>1. /\ DOMAIN cvs' = DOMAIN cvs
              /\ cvs'[c].profile = [by |-> "HR", run |-> Len(runs), at |-> now]
              /\ \A d \in DOMAIN cvs \ {c} : cvs'[d].profile = cvs[d].profile
          BY <2>1, <3>2, EditFields DEF Untouched
        <5>2. Shown(cvs'[c].profile) = 0
          BY <5>1 DEF Shown
        <5> QED BY <5>1, <5>2 DEF resultNow
      <4> QED BY <3>1, <4>1, LedgerSteps
    <3>3. CASE ApproveProfile(c)
      <4>1. resultNow' = resultNow
        BY <2>1, <3>3, EditFields, ResultStays DEF Untouched
      <4> QED BY <3>1, <4>1, LedgerSteps
    <3> QED BY <2>9, <3>2, <3>3
  <2> QED
    BY <1>2, <2>2, <2>3, <2>4, <2>5, <2>6, <2>7, <2>8, <2>9
       DEF Next, Worker, vars, Tick, ApplicationMoves, HrReads, BeginRemove
<1> QED BY <1>1, <1>2, InvariantHolds, PTL DEF Spec, FollowsAiJobs, Jobs!Ledger
==============================================================================
